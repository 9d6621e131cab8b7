----------------------------- MODULE MCTestBody -----------------------------
(***************************************************************************)
(* What the body of a test does with the library, for TLC: a unit test     *)
(* works with guarded buffers, a performance test gathers statistics. The  *)
(* two share no state, so a behaviour is of one kind or the other.         *)
(***************************************************************************)
EXTENDS GuardedBuffer, PerfStats, TLC

VARIABLE kind       \* "utest" or "ptest"

MCVars == <<kind, bufferVars, statsVars>>

MCInit ==
  /\ kind \in {"utest", "ptest"} /\ BufferInit /\ StatsInit
  /\ kind = "ptest" => class = "byte"

MCNext ==
  /\ UNCHANGED kind
  /\ \/ kind = "utest" /\ BufferNext /\ UNCHANGED statsVars
     \/ kind = "ptest" /\ StatsNext /\ UNCHANGED bufferVars

MCSpec == MCInit /\ [][MCNext]_MCVars

\* Neither the places of buffers nor the functions differ in anything.
MCSymmetry == Permutations(Object) \cup Permutations(Function)

\* With the 1.25 of Random: a number of its size and the other sign, zero, 1.0,
\* which is near for one of the quotients and not for the other, and the two
\* that are near nothing.
MCValues == {-5, 0, 4, NaN, PosInf}
=============================================================================
