------------------------------ MODULE Parser ------------------------------
(***************************************************************************)
(* The shell's parser, user/sh.c: a recursive-descent parser over the      *)
(* characters of a line, one operator per function, and a reference that   *)
(* says what a line means by splitting its tokens at the operators that    *)
(* bind least.  A parse is a position (0 after a panic) and a command.     *)
(***************************************************************************)
EXTENDS Naturals, Sequences, SequencesExt, FiniteSetsExt, Chars

CONSTANTS
  MAXARGS,        \* a command has fewer than MAXARGS words
  Spelling        \* the words of the reference, and their characters

ASSUME ParserAssumption == MAXARGS \in Nat \ {0}

NUL == "NUL"
Whitespace == {" ", NL}
Symbols == {"<", "|", ">", "&", ";", "(", ")"}

\* Constructors
execcmd(argv) == [type |-> "EXEC", argv |-> argv]
redircmd(cmd, file, mode, fd) ==
  [type |-> "REDIR", cmd |-> cmd, file |-> file, mode |-> mode, fd |-> fd]
pipecmd(left, right) == [type |-> "PIPE", left |-> left, right |-> right]
listcmd(left, right) == [type |-> "LIST", left |-> left, right |-> right]
backcmd(cmd) == [type |-> "BACK", cmd |-> cmd]

Bad == [type |-> "none"]
Panic == [i |-> 0, cmd |-> Bad]
Panicked(r) == r.i = 0

----------------------------------------------------------------------------
(* gettoken() and peek() *)

Ch(s, i) == IF i <= Len(s) THEN s[i] ELSE NUL

\* the first position from i on whose character is not in set
Span(s, i, set) == Min({j \in i..(Len(s) + 1) : j > Len(s) \/ s[j] \notin set})
Until(s, i, set) == Min({j \in i..(Len(s) + 1) : j > Len(s) \/ s[j] \in set})
Skip(s, i) == Span(s, i, Whitespace)

\* the token tok from b to e
Token(tok, s, b, e) == [tok |-> tok, word |-> SubSeq(s, b, e - 1), next |-> Skip(s, e)]

TokenAt(s, b, c) ==
  IF c = NUL THEN Token(NUL, s, b, b)
  ELSE IF c = ">" /\ Ch(s, b + 1) = ">" THEN Token("+", s, b, b + 2)
  ELSE IF c \in Symbols THEN Token(c, s, b, b + 1)
  ELSE Token("a", s, b, Until(s, b, Whitespace \cup Symbols))

gettoken(s, i) == TokenAt(s, Skip(s, i), Ch(s, Skip(s, i)))

peek(s, i, toks) == Ch(s, Skip(s, i)) \in toks

----------------------------------------------------------------------------
(* The grammar *)

\* the redirection with operator tok
Redirected(cmd, tok, file) ==
  CASE tok = "<" -> redircmd(cmd, file, "read", 0)
    [] tok = ">" -> redircmd(cmd, file, "truncate", 1)
    [] tok = "+" -> redircmd(cmd, file, "append", 1)

\* what gettoken() returns second, after token t
Following(s, t) == [op |-> t.tok, file |-> gettoken(s, t.next)]

RECURSIVE parseredirs(_, _), Redirect(_, _, _)
parseredirs(s, r) ==
  IF ~Panicked(r) /\ peek(s, r.i, {"<", ">"})
  THEN Redirect(s, r, Following(s, gettoken(s, r.i))) ELSE r

Redirect(s, r, t) ==
  IF t.file.tok # "a" THEN Panic
  ELSE parseredirs(s, [i |-> t.file.next, cmd |-> Redirected(r.cmd, t.op, t.file.word)])

\* Redirections wrap the EXEC node while its arguments are still being added.
RECURSIVE AddArg(_, _)
AddArg(cmd, word) ==
  IF cmd.type = "EXEC" THEN [cmd EXCEPT !.argv = Append(@, word)]
  ELSE [cmd EXCEPT !.cmd = AddArg(@, word)]

RECURSIVE Argc(_)
Argc(cmd) == IF cmd.type = "EXEC" THEN Len(cmd.argv) ELSE Argc(cmd.cmd)

\* the while loop of parseexec()
RECURSIVE Arguments(_, _), Argument(_, _, _)
Arguments(s, r) ==
  IF Panicked(r) \/ peek(s, r.i, {"|", ")", "&", ";"}) THEN r
  ELSE Argument(s, r, gettoken(s, r.i))

Argument(s, r, t) ==
  IF t.tok = NUL THEN r
  ELSE IF t.tok # "a" \/ Argc(r.cmd) + 1 >= MAXARGS THEN Panic
  ELSE Arguments(s, parseredirs(s, [i |-> t.next, cmd |-> AddArg(r.cmd, t.word)]))

RECURSIVE parseline(_, _)

\* Mutant: the redirections after a block are left to the caller.
BlockEndPlain(s, r) ==
  IF Panicked(r) \/ ~peek(s, r.i, {")"}) THEN Panic
  ELSE [r EXCEPT !.i = gettoken(s, @).next]

BlockEnd(s, r) ==
  IF Panicked(r) \/ ~peek(s, r.i, {")"}) THEN Panic
  ELSE parseredirs(s, [r EXCEPT !.i = gettoken(s, @).next])

parseblock(s, i) == BlockEnd(s, parseline(s, gettoken(s, i).next))

parseexec(s, i) ==
  IF peek(s, i, {"("}) THEN parseblock(s, i)
  ELSE Arguments(s, parseredirs(s, [i |-> i, cmd |-> execcmd(<<>>)]))

\* the command l, and what comes after its operator
Piped(l, r) == IF Panicked(r) THEN Panic ELSE [i |-> r.i, cmd |-> pipecmd(l.cmd, r.cmd)]
Listed(l, r) == IF Panicked(r) THEN Panic ELSE [i |-> r.i, cmd |-> listcmd(l.cmd, r.cmd)]

RECURSIVE parsepipe(_, _), PipeRest(_, _)
PipeRest(s, l) ==
  IF ~Panicked(l) /\ peek(s, l.i, {"|"})
  THEN Piped(l, parsepipe(s, gettoken(s, l.i).next)) ELSE l

parsepipe(s, i) == PipeRest(s, parseexec(s, i))

\* while(peek(ps, es, "&"))
RECURSIVE Backs(_, _)
Backs(s, r) ==
  IF ~Panicked(r) /\ peek(s, r.i, {"&"})
  THEN Backs(s, [i |-> gettoken(s, r.i).next, cmd |-> backcmd(r.cmd)]) ELSE r

ListRest(s, l) ==
  IF ~Panicked(l) /\ peek(s, l.i, {";"})
  THEN Listed(l, parseline(s, gettoken(s, l.i).next)) ELSE l

parseline(s, i) == ListRest(s, Backs(s, parsepipe(s, i)))

\* parsecmd(): the command, or Bad if the parser panics.  nulterminate() ends
\* every word where gettoken() found its end, once the line is parsed.
Whole(s, r) == IF Panicked(r) \/ Skip(s, r.i) <= Len(s) THEN Bad ELSE r.cmd

parsecmd(s) == Whole(s, parseline(s, 1))

----------------------------------------------------------------------------
(* The reference: what a sequence of tokens means.  A token is a word of     *)
(* Spelling, the character of an operator, or "+" for >>.                    *)

Redirs == {"<", ">", "+"}
Operators == Redirs \cup {"|", "&", ";", "(", ")"}
IsWord(t) == t \notin Operators
Chars(t) == CASE t = "+" -> <<">", ">">> [] IsWord(t) -> Spelling[t] [] OTHER -> <<t>>

Before(w, k) == SubSeq(w, 1, k - 1)
After(w, k) == SubSeq(w, k + 1, Len(w))

Count(w, t) == Cardinality({k \in DOMAIN w : w[k] = t})
Depth(w, k) == Count(Before(w, k), "(") - Count(Before(w, k), ")")
Balanced(w) ==
  /\ Count(w, "(") = Count(w, ")")
  /\ \A k \in DOMAIN w : Count(Before(w, k), "(") >= Count(Before(w, k), ")")

\* where operator t stands outside parentheses
Outside(w, t) == {k \in DOMAIN w : w[k] = t /\ Depth(w, k) = 0}

Join(op, l, r) ==
  IF Bad \in {l, r} THEN Bad
  ELSE CASE op = "|" -> pipecmd(l, r) [] op = ";" -> listcmd(l, r) [] op = "&" -> backcmd(l)

\* the redirections in w, in order, around a command
Wrap(cmd, w) ==
  FoldLeft(LAMBDA c, k : Redirected(c, w[k], Chars(w[k + 1])), cmd,
           SetToSortSeq({k \in DOMAIN w : w[k] \in Redirs}, <))

RedirsComplete(w) == \A k \in DOMAIN w : w[k] \in Redirs => k < Len(w) /\ IsWord(w[k + 1])
IsArg(w, k) == IsWord(w[k]) /\ (k = 1 \/ w[k - 1] \notin Redirs)

RECURSIVE Line(_)

Block(inner, rest) ==
  IF /\ inner # Bad
     /\ RedirsComplete(rest)
     /\ \A k \in DOMAIN rest : rest[k] # "(" /\ ~IsArg(rest, k)
  THEN Wrap(inner, rest) ELSE Bad

BlockTo(w, close) == Block(Line(SubSeq(w, 2, close - 1)), After(w, close))

Plain(w, args) ==
  IF RedirsComplete(w) /\ Count(w, "(") = 0 /\ Len(args) < MAXARGS
  THEN Wrap(execcmd([j \in DOMAIN args |-> Chars(w[args[j]])]), w) ELSE Bad

Simple(w) ==
  IF w # <<>> /\ w[1] = "("
  THEN BlockTo(w, Min({k \in DOMAIN w : w[k] = ")" /\ Depth(w, k) = 1}))
  ELSE Plain(w, SetToSortSeq({k \in DOMAIN w : IsArg(w, k)}, <))

RECURSIVE Pipeline(_)
PipelineAt(w, k) == Join("|", Simple(Before(w, k)), Pipeline(After(w, k)))
Pipeline(w) == IF Outside(w, "|") = {} THEN Simple(w) ELSE PipelineAt(w, Min(Outside(w, "|")))

RECURSIVE Background(_)
Background(w) ==
  IF w # <<>> /\ Last(w) = "&" THEN Join("&", Background(Front(w)), execcmd(<<>>))
  ELSE IF Outside(w, "&") = {} THEN Pipeline(w) ELSE Bad

LineAt(w, k) == Join(";", Background(Before(w, k)), Line(After(w, k)))
Line(w) == IF Outside(w, ";") = {} THEN Background(w) ELSE LineAt(w, Min(Outside(w, ";")))

Meaning(w) == IF Balanced(w) THEN Line(w) ELSE Bad

\* The characters of a sequence of tokens: blanks between all of them, or only
\* where two tokens would become one.
Joins(t, u) == (IsWord(t) /\ IsWord(u)) \/ (t = ">" /\ u \in {">", "+"})
Spaced(w) == FoldLeft(LAMBDA s, t : s \o <<" ">> \o Chars(t), <<>>, w)
Tight(w) ==
  FlattenSeq([k \in DOMAIN w |->
    IF k > 1 /\ Joins(w[k - 1], w[k]) THEN <<" ">> \o Chars(w[k]) ELSE Chars(w[k])])

============================================================================
