------------------------------- MODULE Chars -------------------------------
(***************************************************************************)
(* The characters that the shell's parser and its history both look for.   *)
(***************************************************************************)

NL == "\n"

============================================================================
