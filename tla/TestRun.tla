------------------------------- MODULE TestRun -------------------------------
(***************************************************************************)
(* What the test runner promises to the person who starts it, with no      *)
(* processes, descriptor tables or timers: the selected tests are launched *)
(* in the order of the list, at most `jobs' of them at a time; a test that *)
(* was launched ends well or badly; the runner records for it the verdict  *)
(* that it deserves, once; the statistics are printed when every selected  *)
(* test has its verdict, or after the run has been aborted by an error.    *)
(***************************************************************************)
EXTENDS Naturals, Sequences, FiniteSets

CONSTANTS
  Test,       \* the registered tests
  List        \* the selected tests, in launch order

VARIABLES
  jobs,       \* how many tests may be in progress at a time
  phase,      \* "testing", "aborted", "published" or "stopped"
  running,    \* the tests in progress
  fate,       \* how a test ended: "none", "ok" or "bad"
  verdict,    \* what the runner has recorded for it: the same values
  report      \* the verdicts that the printed statistics show

vars == <<jobs, phase, running, fate, verdict, report>>

Outcome == {"ok", "bad"}

\* A test that was launched is in progress or has its verdict.
Launched == running \cup {t \in Test : verdict[t] # "none"}

Selected == {List[i] : i \in DOMAIN List}

Init ==
  /\ jobs \in Nat \ {0}
  /\ phase = "testing"
  /\ running = {}
  /\ fate = [t \in Test |-> "none"]
  /\ verdict = [t \in Test |-> "none"]
  /\ report = verdict

\* The first test of the list that was not launched yet starts.
Launch ==
  /\ phase = "testing"
  /\ Cardinality(running) < jobs
  /\ \E i \in DOMAIN List :
       /\ Launched = {List[j] : j \in 1..(i - 1)}
       /\ running' = running \cup {List[i]}
  /\ UNCHANGED <<jobs, phase, fate, verdict, report>>

\* A test in progress ends. Nobody has noticed yet.
End(t) ==
  /\ t \in running
  /\ fate[t] = "none"
  /\ \E o \in Outcome : fate' = [fate EXCEPT ![t] = o]
  /\ UNCHANGED <<jobs, phase, running, verdict, report>>

\* The runner notices that a test has ended and records how. A run that was
\* aborted still collects, before it stops, the tests left in progress.
Judge(t) ==
  /\ phase # "stopped"
  /\ t \in running
  /\ fate[t] # "none"
  /\ running' = running \ {t}
  /\ verdict' = [verdict EXCEPT ![t] = fate[t]]
  /\ UNCHANGED <<jobs, phase, fate, report>>

\* An error of the runner itself: no further test is launched.
Abort ==
  /\ phase = "testing"
  /\ phase' = "aborted"
  /\ UNCHANGED <<jobs, running, fate, verdict, report>>

Publish ==
  /\ \/ phase = "testing" /\ running = {} /\ Launched = Selected
     \/ phase = "aborted"
  /\ phase' = "published"
  /\ report' = verdict
  /\ UNCHANGED <<jobs, running, fate, verdict>>

\* The runner is gone: it returned, or it was ended by a test of its own.
Stop ==
  /\ phase' = "stopped"
  /\ UNCHANGED <<jobs, running, fate, verdict, report>>

Next ==
  \/ Launch \/ Abort \/ Publish \/ Stop
  \/ \E t \in Test : End(t) \/ Judge(t)

Spec == Init /\ [][Next]_vars
=============================================================================
