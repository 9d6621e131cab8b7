------------------------------- MODULE Mkdirs -------------------------------
(***************************************************************************)
(* mkdirs() of src/src/main/tools.cpp, called by several processes at a    *)
(* time for paths with common prefixes: the test processes trace to one    *)
(* directory, and runners share the temporary one.                         *)
(*                                                                         *)
(* A path is a sequence of names, "" between two separators in a row; the  *)
(* entry that a prefix denotes is the sequence of its other names, <<>>    *)
(* being the directory where the path starts.                              *)
(***************************************************************************)
EXTENDS Integers, Sequences, SequencesExt

CONSTANTS
  Procs,      \* the calls
  Paths,      \* their arguments
  Trees,      \* what may exist: from entries to "dir", "locked" or "file"
  Platforms   \* "posix" and "windows"

Parent(entry) == Front(entry)
Directories == {"dir", "locked"}

\* What exists is in a directory, but for the one where the path starts.
ASSUME PathsAssumption ==
  /\ Paths \subseteq Seq(STRING) \ {<<>>}
  /\ \A t \in Trees :
       /\ DOMAIN t \subseteq Seq(STRING)
       /\ t \in [DOMAIN t -> Directories \cup {"file"}]
       /\ <<>> \in DOMAIN t /\ t[<<>>] \in Directories
       /\ \A e \in DOMAIN t \ {<<>>} :
            Parent(e) \in DOMAIN t /\ t[Parent(e)] \in Directories
  /\ Platforms \subseteq {"posix", "windows"}

OK == 0
PERMISSION_DENIED == 7
IO_ERROR == 8
NOT_DIRECTORY == 14

VARIABLES
  tree,       \* the file system
  planted,    \* history: what existed before the first call
  platform,
  path,       \* the argument of each call
  depth,      \* the names of the path up to the next separator, by call
  pc,         \* where each call is
  x,          \* the local variable: the type stat() has found, or "none"
  res         \* the result of each call

call == <<path, depth, pc, x, res>>
vars == <<tree, planted, platform, call>>

\* The entry that the first d names of a path denote, as a function of d
Entry(names) ==
  LET E[d \in 0..Len(names)] ==
        IF d = 0 THEN <<>>
        ELSE IF names[d] = "" THEN E[d - 1] ELSE Append(E[d - 1], names[d])
  IN E

Upto(p, d) == Entry(path[p])[d]
Here(p) == Upto(p, depth[p])
Type(entry) == IF entry \in DOMAIN tree THEN tree[entry] ELSE "none"
IsDir(entry) == Type(entry) \in Directories

\* stat() and GetFileAttributesW(): a separator at the end asks for a
\* directory, an empty path denotes nothing.
Stat(p) ==
  IF path[p] = <<"">> \/ (path[p][depth[p]] = "" /\ ~IsDir(Here(p))) THEN "none"
  ELSE Type(Here(p))

\* mkdir() and CreateDirectoryW() succeed where nothing is, in a directory
\* that may be written to.
Creates(p) ==
  /\ path[p] # <<"">> /\ Here(p) # <<>>
  /\ Type(Here(p)) = "none" /\ Type(Parent(Here(p))) = "dir"

Init ==
  /\ tree \in Trees /\ planted = tree
  /\ platform \in Platforms
  /\ path \in [Procs -> Paths]
  /\ depth = [p \in Procs |-> 1]
  /\ pc = [p \in Procs |-> "stat"]
  /\ x = [p \in Procs |-> "none"]
  /\ res = [p \in Procs |-> OK]

Goto(p, label) == pc' = [pc EXCEPT ![p] = label]
Fail(p, code) == Goto(p, "done") /\ res' = [res EXCEPT ![p] = code]

\* The test for existence
TestExists(p) ==
  /\ pc[p] = "stat"
  /\ x' = [x EXCEPT ![p] = Stat(p)]
  /\ Goto(p, IF x'[p] = "none" THEN "mkdir" ELSE "check")
  /\ UNCHANGED <<tree, planted, platform, path, depth, res>>

\* Slip: a directory that another process has created is an error.
Create_NoRetry(p) ==
  /\ pc[p] = "mkdir"
  /\ IF Creates(p)
     THEN /\ tree' = [e \in DOMAIN tree \cup {Here(p)} |->
                        IF e \in DOMAIN tree THEN tree[e] ELSE "dir"]
          /\ x' = [x EXCEPT ![p] = IF platform = "posix" THEN "dir" ELSE @]
     ELSE UNCHANGED <<tree, x>>
  /\ Goto(p, "check")
  /\ UNCHANGED <<planted, platform, path, depth, res>>

\* The entry is created; on Windows x stays the invalid attributes, all of
\* whose bits are set.
Create(p) ==
  /\ pc[p] = "mkdir"
  /\ IF Creates(p)
     THEN /\ tree' = [e \in DOMAIN tree \cup {Here(p)} |->
                        IF e \in DOMAIN tree THEN tree[e] ELSE "dir"]
          /\ x' = [x EXCEPT ![p] = IF platform = "posix" THEN "dir" ELSE @]
          /\ Goto(p, "check")
     ELSE Goto(p, "retry") /\ UNCHANGED <<tree, x>>
  /\ UNCHANGED <<planted, platform, path, depth, res>>

\* Possible concurrency: the second test. On Windows its result is a variable
\* of an inner block.
TestAgain(p) ==
  /\ pc[p] = "retry"
  /\ IF platform = "posix"
     THEN x' = [x EXCEPT ![p] = Stat(p)] /\ Goto(p, "check") /\ UNCHANGED res
     ELSE /\ IF Stat(p) = "none" THEN Fail(p, PERMISSION_DENIED)
             ELSE Goto(p, "check") /\ UNCHANGED res
          /\ UNCHANGED x
  /\ UNCHANGED <<tree, planted, platform, path, depth>>

\* Slip: the last name is not looked at.
Advance_NotLast(p) ==
  /\ pc[p] = "check"
  /\ \/ /\ platform = "posix" /\ x[p] = "none"
        /\ Fail(p, IO_ERROR) /\ UNCHANGED depth
     \/ /\ platform = "windows" /\ x[p] = "file"
        /\ Fail(p, NOT_DIRECTORY) /\ UNCHANGED depth
     \/ /\ x[p] # (IF platform = "posix" THEN "none" ELSE "file")
        /\ IF depth[p] + 1 >= Len(path[p]) THEN Goto(p, "done") /\ UNCHANGED depth
           ELSE Goto(p, "stat") /\ depth' = [depth EXCEPT ![p] = @ + 1]
        /\ UNCHANGED res
  /\ UNCHANGED <<tree, planted, platform, path, x>>

\* The final check, and the next name
Advance(p) ==
  /\ pc[p] = "check"
  /\ \/ /\ platform = "posix" /\ x[p] = "none"
        /\ Fail(p, IO_ERROR) /\ UNCHANGED depth
     \/ /\ platform = "windows" /\ x[p] = "file"
        /\ Fail(p, NOT_DIRECTORY) /\ UNCHANGED depth
     \/ /\ x[p] # (IF platform = "posix" THEN "none" ELSE "file")
        /\ IF depth[p] = Len(path[p]) THEN Goto(p, "done") /\ UNCHANGED depth
           ELSE Goto(p, "stat") /\ depth' = [depth EXCEPT ![p] = @ + 1]
        /\ UNCHANGED res
  /\ UNCHANGED <<tree, planted, platform, path, x>>

AllDone == (\A p \in Procs : pc[p] = "done") /\ UNCHANGED vars

Next ==
  \/ \E p \in Procs : TestExists(p) \/ Create(p) \/ TestAgain(p) \/ Advance(p)
  \/ AllDone

Spec == Init /\ [][Next]_vars

-----------------------------------------------------------------------------
(* Properties *)

\* A call that succeeds has found or made every directory of its path and the
\* last name, however its steps interleave with those of other calls; only on
\* POSIX may the last name be a file, one that was there before.
SuccessMeansPath ==
  \A p \in Procs : pc[p] = "done" /\ res[p] = OK =>
    \A d \in 1..Len(path[p]) :
      \/ IsDir(Upto(p, d))
      \/ /\ d = Len(path[p]) /\ platform = "posix"
         /\ Upto(p, d) \in DOMAIN planted /\ planted[Upto(p, d)] = "file"

\* What stands in the way of a call that runs alone: an empty path, a file in
\* the place of a directory, a missing name in a directory that is locked.
Obstructed(p) ==
  \/ path[p] = <<"">>
  \/ \E d \in 1..Len(path[p]) :
       LET e == Upto(p, d) IN
       IF e \in DOMAIN planted
       THEN planted[e] = "file" /\ (d < Len(path[p]) \/ platform = "windows")
       ELSE Parent(e) \in DOMAIN planted /\ planted[Parent(e)] = "locked"

\* A call fails only for such a reason, never because another call has
\* created a directory at the same time.
FailureHasCause ==
  \A p \in Procs : pc[p] = "done" /\ res[p] # OK => Obstructed(p)
=============================================================================
