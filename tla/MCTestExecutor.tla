--------------------------- MODULE MCTestExecutor ---------------------------
(* Instances of TestExecutor for TLC. *)
EXTENDS TestExecutor, TLC

CONSTANTS t1, t2, t3, p1, p2, p3, h1

Order3 == <<t1, t2, t3>>
Order2 == <<t1, t2>>
Order1 == <<t1>>

\* One test of every kind of time limit.
MixedLimits == t1 :> "finite" @@ t2 :> "none" @@ t3 :> "bad"
LiveLimits == t1 :> "finite" @@ t2 :> "finite" @@ t3 :> "bad"
AllFinite == [t \in Test |-> "finite"]

Cfg(fork, mode, threads, debug, helpers) ==
  [fork |-> fork, mode |-> mode, threads |-> threads, debug |-> debug,
   helpers |-> helpers]

\* Unit tests on two workers, with and without debugging, with an Initializer
\* that keeps a child; unit tests with -j 0; unit tests in the runner; a
\* performance test with and without fork on a machine of two workers.
PoolConfigs ==
  { Cfg(TRUE, "UTEST", 2, FALSE, {}),  Cfg(TRUE, "UTEST", 2, TRUE, {h1}),
    Cfg(TRUE, "UTEST", 0, FALSE, {}),  Cfg(FALSE, "UTEST", 2, FALSE, {}),
    Cfg(TRUE, "PTEST", 2, FALSE, {}),  Cfg(FALSE, "MTEST", 2, FALSE, {}) }

LiveConfigs ==
  { Cfg(TRUE, "UTEST", 2, FALSE, {}),  Cfg(FALSE, "UTEST", 2, FALSE, {}),
    Cfg(TRUE, "UTEST", 2, TRUE, {}),   Cfg(TRUE, "PTEST", 2, FALSE, {}) }

ForkConfigs == {Cfg(TRUE, "UTEST", 2, FALSE, {})}

\* exit(0), a failed assertion, and a code whose low byte is zero.
ExitCodes == {0, 1, 256}
FailedAssertion == {1}

Symmetry == Permutations(Pid)
=============================================================================
