-------------------------------- MODULE MCFs --------------------------------
(* Model-checking instance of the file system calls. *)
EXTENDS Fs

\* Processes are interchangeable.
Symm == Permutations(Procs)

x == <<"/", "x">>
xy == <<"/", "x", "y">>

On(ops, path) == {<<op, path, <<>> >> : op \in ops}

Dir(n, b) == [Free EXCEPT !.type = "dir", !.nlink = n, !.addrs = <<b>>]

Dots(i, parent) == <<Entry(".", i), Entry("..", parent)>>

\* A disk with a file w.
Small ==
  [Image EXCEPT !.dinode[4] = [Free EXCEPT !.type = "file", !.nlink = 1, !.size = 1, !.addrs = <<4>>],
                !.ents[1][3] = Entry("w", 4), !.used = {1, 4}]

\* An empty disk after mkdir("/x") and mkdir("/x/y").
Nested ==
  [dinode |-> <<Dir(2, 1), Dir(2, 2), Dir(1, 3), Free>>,
   ents |-> <<Dots(1, 1) \o <<Entry("x", 2), NoEntry>>, Dots(2, 1) \o <<Entry("y", 3)>>, Dots(3, 2), <<>> >>,
   inds |-> <<<<>>, <<>>, <<>>, <<>> >>,
   used |-> {1, 2, 3}]

\* Calls on a file or directory x of the root, on y in it, and links.
Plain ==
  [disk |-> Small, NINODE |-> 4, MaxCalls |-> 4, MaxCrashes |-> 0,
   Calls |-> On({"creat", "mkdir", "trunc", "read", "unlink"}, x)
             \cup On({"mkdir", "unlink"}, xy) \cup On({"unlink"}, <<"/">>)
             \cup {<<"link", x, <<"/", "y">> >>}]

\* Directories are removed while they are current; calls in them, and through "..".
Parents ==
  [disk |-> Nested, NINODE |-> 4, MaxCalls |-> 5, MaxCrashes |-> 0,
   Calls |-> On({"chdir", "unlink"}, xy) \cup On({"unlink"}, x)
             \cup On({"chdir"}, <<"..">>) \cup On({"mkdir"}, <<"z">>)]

\* The table has a slot less than there are inodes.
Table ==
  [disk |-> Nested, NINODE |-> 3, MaxCalls |-> 3, MaxCrashes |-> 0,
   Calls |-> On({"chdir", "read", "unlink"}, xy) \cup On({"creat"}, <<"z">>)]

\* Crashes while a removed file is open or a removed directory is current, and in
\* the work of ireclaim().
Crashes ==
  [disk |-> Small, NINODE |-> 4, MaxCalls |-> 3, MaxCrashes |-> 2,
   Calls |-> On({"creat", "mkdir", "chdir", "unlink"}, x) \cup {<<"link", x, <<"/", "y">> >>}]

MCSessions == [plain |-> Plain, parents |-> Parents, table |-> Table, crashes |-> Crashes]
=============================================================================
