------------------------- MODULE TestExecutorProofs -------------------------
(***************************************************************************)
(* Theorems about the test executor, for every set of tests, every list,   *)
(* every set of configurations and process identifiers, every bound.       *)
(***************************************************************************)
EXTENDS TestExecutor, TLAPS, FiniteSetTheorems

LEMMA CapacityType == ASSUME cfg \in Configs PROVE nTasksMax \in Nat
  BY ConfigAssumption DEF nTasksMax, Config

LEMMA ListType == Len(List) \in Nat /\ \A i \in 1..Len(List) : List[i] \in Test
  BY ListAssumption

LEMMA AppendType ==
  ASSUME NEW S, NEW s \in Seq(S), NEW e \in S PROVE Append(s, e) \in Seq(S)
  OBVIOUS

-----------------------------------------------------------------------------
(* What a step leaves alone keeps its type *)

LEMMA SameTable == TableType /\ UNCHANGED <<cfg, table>> => TableType'
  BY DEF TableType, table, nTasksMax, Active

LEMMA SameStats == StatsType /\ UNCHANGED <<stats, report>> => StatsType'
  BY DEF StatsType, stats

LEMMA SameProcesses == ProcessType /\ UNCHANGED procVars => ProcessType'
  BY DEF ProcessType, procVars, alarm, signals

LEMMA SameHistory == HistoryType /\ UNCHANGED <<history, bounds>> => HistoryType'
  BY DEF HistoryType, history, bounds

LEMMA SameRunner ==
  ControlType /\ TableType /\ StatsType /\ UNCHANGED runnerVars
    => ControlType' /\ TableType' /\ StatsType'
<1> SUFFICES ASSUME ControlType, TableType, StatsType, UNCHANGED runnerVars
             PROVE  ControlType' /\ TableType' /\ StatsType'
  OBVIOUS
<1>1. ControlType'
  BY DEF ControlType, runnerVars, outcome
<1> QED
  BY <1>1, SameTable, SameStats DEF runnerVars, outcome

-----------------------------------------------------------------------------
(* Type correctness *)

LEMMA InitTyped == Init => TypeOK
<1> SUFFICES ASSUME Init PROVE TypeOK
  OBVIOUS
<1> USE DEF Init, OK
<1>1. ControlType
  BY ListType DEF ControlType
<1>2. TableType
  BY CapacityType DEF TableType, Task, Active
<1>3. StatsType
  BY DEF StatsType
<1>4. ProcessType
  BY DEF ProcessType, Stage, TestStage, Program, Ended
<1>5. HistoryType
  BY BoundAssumption DEF HistoryType
<1> QED
  BY <1>1, <1>2, <1>3, <1>4, <1>5 DEF TypeOK

LEMMA RunnerStepTyped == TypeOK /\ RunnerStep => TypeOK'
<1> SUFFICES ASSUME TypeOK, RunnerStep PROVE TypeOK'
  OBVIOUS
<1> USE DEF TypeOK, OK, UNKNOWN_ERR, KILLED
<1>1. CASE LoopEnds
  <2>1. ControlType'
    BY <1>1 DEF LoopEnds, ControlType, outcome
  <2> QED
    BY <1>1, <2>1, SameTable, SameStats, SameProcesses, SameHistory
       DEF LoopEnds, outcome
<1>2. CASE Submit
  <2>1. ControlType' /\ StatsType'
    BY <1>2 DEF Submit, ControlType, StatsType, outcome
  <2>2. ProcessType'
    BY <1>2, ListType
       DEF Submit, ProcessType, ControlType, alarm, signals, GoTo, Proc, Stage,
           TestStage, Program
  <2> QED
    BY <1>2, <2>1, <2>2, SameTable, SameHistory DEF Submit
<1>3. CASE ForkFails
  <2>1. ControlType'
    BY <1>3 DEF ForkFails, ControlType, outcome
  <2>2. TableType'
    <3> DEFINE n == nTasksActive + 1
    <3>1. n \in 1..nTasksMax /\ nTasksMax' = nTasksMax
      BY <1>3, CapacityType
         DEF ForkFails, SlotIsFree, TableType, ControlType, nTasksMax
    <3>2. [pid |-> vTasks[n].pid, test |-> List[next], result |-> OK] \in Task
      BY <1>3, <3>1, ListType DEF ForkFails, TableType, ControlType, Task
    <3>3. vTasks' = [vTasks EXCEPT ![n] =
             [pid |-> vTasks[n].pid, test |-> List[next], result |-> OK]]
      BY <1>3 DEF ForkFails, TaskFor
    <3> QED
      BY <1>3, <3>1, <3>2, <3>3, CapacityType
         DEF ForkFails, TableType, ControlType, Active
  <2>3. HistoryType'
    BY <1>3, BoundAssumption DEF ForkFails, HistoryType, history
  <2> QED
    BY <1>3, <2>1, <2>2, <2>3, SameStats, SameProcesses DEF ForkFails, outcome
<1>4. CASE SubmitReturns
  <2>1. does[Parent] \in Test /\ lres[Parent] \in Nat
    BY <1>4 DEF SubmitReturns, ProcessType, Proc, TestStage
  <2>2. StatsType'
    BY <1>4, <2>1, AppendType DEF SubmitReturns, StatsType, outcome
  <2>3. ControlType'
    BY <1>4, <2>1 DEF SubmitReturns, ControlType, outcome
  <2>4. ProcessType'
    BY <1>4
       DEF SubmitReturns, ProcessType, GoTo, alarm, signals, Proc, Stage,
           TestStage, Program
  <2> QED
    BY <1>4, <2>2, <2>3, <2>4, SameTable, SameHistory DEF SubmitReturns
<1>5. CASE CheckResult
  <2>1. ControlType'
    BY <1>5, ListType DEF CheckResult, ControlType, outcome
  <2> QED
    BY <1>5, <2>1, SameTable, SameStats, SameProcesses, SameHistory
       DEF CheckResult, outcome
<1>6. CASE WaitFails
  <2>1. ControlType'
    BY <1>6 DEF WaitFails, ControlType, RunnerExits
  <2>2. ProcessType'
    BY <1>6 DEF WaitFails, ProcessType, RunnerExits, signals, Proc
  <2>3. HistoryType'
    BY <1>6, BoundAssumption DEF WaitFails, HistoryType, history
  <2> QED
    BY <1>6, <2>1, <2>2, <2>3, SameTable, SameStats DEF WaitFails
<1>7. CASE Drained
  <2>1. ControlType'
    BY <1>7 DEF Drained, ControlType, outcome
  <2> QED
    BY <1>7, <2>1, SameTable, SameStats, SameProcesses, SameHistory
       DEF Drained, outcome
<1>8. CASE OutputStats
  <2>1. ControlType'
    BY <1>8 DEF OutputStats, ControlType
  <2>2. StatsType'
    BY <1>8 DEF OutputStats, StatsType, stats
  <2> QED
    BY <1>8, <2>1, <2>2, SameTable, SameProcesses, SameHistory DEF OutputStats
<1>9. CASE Destroyed
  <2>1. ControlType'
    BY <1>9 DEF Destroyed, ControlType, RunnerExits
  <2>2. ProcessType'
    BY <1>9 DEF Destroyed, ProcessType, RunnerExits, signals, Proc
  <2> QED
    BY <1>9, <2>1, <2>2, SameTable, SameStats, SameHistory DEF Destroyed
<1>10. CASE \E p \in Pid : Fork(p)
  <2>1. PICK p \in Pid : Fork(p)
    BY <1>10
  <2>2. ControlType'
    BY <2>1, ListType DEF Fork, ControlType, outcome
  <2>3. TableType'
    BY <2>1, CapacityType, ListType
       DEF Fork, SlotIsFree, TaskFor, TableType, ControlType, Task, nTasksMax,
           Active
  <2>4. ProcessType'
    BY <2>1, ListType
       DEF Fork, ProcessType, ControlType, GoTo, signals, Proc, Child, Stage,
           TestStage, Program
  <2> QED
    BY <2>1, <2>2, <2>3, <2>4, SameStats, SameHistory DEF Fork, outcome, stats
<1>11. CASE \E p \in Child : WaitReaps(p)
  <2>1. PICK p \in Child : WaitReaps(p)
    BY <1>11
  <2> DEFINE result == ResultOf(p)
  <2>2. PICK i \in SlotsOf(p) : Collect(i, result)
    BY <2>1 DEF WaitReaps
  <2>3. i \in Active /\ result \in Nat
    BY <2>2 DEF SlotsOf, ResultOf, ProcessType, Proc
  <2>4. ControlType'
    BY <2>1 DEF WaitReaps, ControlType, outcome
  <2>5. TableType'
    <3> DEFINE new == IF i < nTasksActive THEN vTasks[nTasksActive]
                      ELSE [pid |-> vTasks[i].pid, test |-> vTasks[i].test,
                            result |-> result]
    <3>1. nTasksActive \in 1..nTasksMax /\ i \in 1..nTasksMax
      BY <2>3, CapacityType DEF TableType, ControlType, Active
    <3>2. vTasks[nTasksActive] \in Task /\ vTasks[i] \in Task
      BY <3>1 DEF TableType
    <3>3. new \in Task
      BY <2>3, <3>2 DEF Task
    <3>4. /\ vTasks' = [vTasks EXCEPT ![i] = new]
          /\ nTasksActive' = nTasksActive - 1
          /\ nTasksMax' = nTasksMax
      BY <2>1, <2>2 DEF Collect, WaitReaps, nTasksMax
    <3>5. vTasks' \in [1..nTasksMax' -> Task]
      BY <3>3, <3>4 DEF TableType
    <3>6. \A j \in 1..(nTasksActive - 1) : vTasks'[j].test \in Test
      <4>1. vTasks[nTasksActive].test \in Test
        BY <3>1, CapacityType DEF TableType, ControlType, Active
      <4> QED
        BY <2>3, <3>1, <3>4, <4>1, CapacityType
           DEF TableType, ControlType, Active
    <3> QED
      BY <3>1, <3>4, <3>5, <3>6, CapacityType
         DEF TableType, ControlType, Active
  <2>6. StatsType'
    <3>1. vTasks[i].test \in Test
      BY <2>3 DEF TableType
    <3>2. success' \in Seq(Test) /\ failed' \in Seq(Test)
      BY <2>2, <3>1, AppendType DEF StatsType, Collect
    <3> QED
      BY <2>1, <3>2 DEF WaitReaps, StatsType, outcome
  <2>7. ProcessType'
    BY <2>1 DEF WaitReaps, ProcessType, GoTo, alarm, signals, Proc, Stage,
                TestStage, Program
  <2> QED
    BY <2>1, <2>4, <2>5, <2>6, <2>7, SameHistory DEF WaitReaps
<1>12. CASE \E p \in Child : WaitReapsStranger(p)
  <2>1. PICK p \in Child : WaitReapsStranger(p)
    BY <1>12
  <2>2. ControlType'
    BY <2>1 DEF WaitReapsStranger, ControlType, outcome
  <2>3. ProcessType'
    BY <2>1 DEF WaitReapsStranger, ProcessType, GoTo, alarm, signals, Proc,
                Stage, TestStage, Program
  <2> QED
    BY <2>1, <2>2, <2>3, SameTable, SameStats, SameHistory
       DEF WaitReapsStranger, outcome
<1>13. CASE \E p \in Child : WaitNotes(p)
  <2>1. PICK p \in Child : WaitNotes(p)
    BY <1>13
  <2>2. ProcessType'
    BY <2>1 DEF WaitNotes, ProcessType, alarm
  <2> QED
    BY <2>1, <2>2, SameRunner, SameHistory DEF WaitNotes
<1> QED
  BY <1>1, <1>2, <1>3, <1>4, <1>5, <1>6, <1>7, <1>8, <1>9, <1>10, <1>11,
     <1>12, <1>13 DEF RunnerStep

-----------------------------------------------------------------------------
(* The steps of a process *)

LEMMA EndTyped ==
  ASSUME TypeOK, NEW p \in Proc, NEW how \in Ended, NEW code \in Nat,
         ProcessEnds(p, how, code), UNCHANGED bounds
  PROVE  TypeOK'
<1> USE DEF TypeOK, ProcessEnds, OK
<1>0. code % 256 \in Nat
  OBVIOUS
<1>1. CASE p = Parent
  <2>1. ControlType'
    BY <1>0, <1>1 DEF ControlType, RunnerEnds
  <2>2. ProcessType'
    BY <1>1 DEF ProcessType, RunnerEnds, signals, Proc, Stage, TestStage,
                Program
  <2> QED
    BY <1>1, <2>1, <2>2, SameTable, SameStats, SameHistory DEF RunnerEnds
<1>2. CASE p # Parent
  <2>1. ProcessType'
    <3>1. /\ at' \in [Proc -> Stage]
          /\ \A q \in Proc : at'[q] \in TestStage => does'[q] \in Test
      BY <1>2 DEF ProcessType, ChildEnds, Stage, TestStage, Program, Ended
    <3>2. /\ lres' \in [Proc -> Nat]
          /\ timer' \in [Proc -> BOOLEAN]
          /\ halted' \subseteq Child /\ noted' \subseteq Child
      BY <1>0, <1>2 DEF ProcessType, ChildEnds
    <3> QED
      BY <1>2, <3>1, <3>2 DEF ProcessType, ChildEnds
  <2>2. HistoryType'
    BY <1>2 DEF HistoryType, ChildEnds, bounds
  <2> QED
    BY <1>2, <2>1, <2>2, SameRunner DEF ChildEnds
<1> QED
  BY <1>1, <1>2

LEMMA ProgramStepTyped ==
  ASSUME TypeOK, NEW p \in Proc, ProgramStep(p) PROVE TypeOK'
<1> USE DEF TypeOK, OK, UNKNOWN_ERR, Runs, GoTo
<1>1. ASSUME Before(p) \/ SetTimer(p) \/ SetTimerFails(p) \/ InstallHandler(p)
             \/ RevertHandler(p) \/ KillTimer(p) \/ After(p)
      PROVE  TypeOK'
  <2>1. /\ UNCHANGED <<runnerVars, does, signals, history, bounds>>
        /\ at[p] \in Program
        /\ \E s \in Program : at' = [at EXCEPT ![p] = s]
        /\ lres' = lres \/ lres' = [lres EXCEPT ![p] = OK]
        /\ timer' = timer \/ \E b \in BOOLEAN : timer' = [timer EXCEPT ![p] = b]
        /\ \/ handler' = handler
           \/ \E h \in {"default", "exit"} : handler' = [handler EXCEPT ![p] = h]
    BY <1>1 DEF Before, SetTimer, SetTimerFails, InstallHandler, RevertHandler,
                KillTimer, After, alarm, Program
  <2>2. ProcessType'
    BY <2>1 DEF ProcessType, signals, Stage, TestStage
  <2> QED
    BY <2>1, <2>2, SameRunner, SameHistory
<1>2. ASSUME KillTimerFails(p) PROVE TypeOK'
  <2>1. ProcessType'
    BY <1>2 DEF KillTimerFails, ProcessType, alarm, signals, Stage, TestStage,
                Program
  <2>2. HistoryType'
    BY <1>2, BoundAssumption DEF KillTimerFails, HistoryType, history
  <2> QED
    BY <1>2, <2>1, <2>2, SameRunner DEF KillTimerFails
<1>3. ASSUME ChildReturns(p) PROVE TypeOK'
  <2>1. (IF MainReturns THEN lres[p] ELSE OK) \in Nat
    BY DEF ProcessType
  <2> QED
    BY <1>3, <2>1, EndTyped DEF ChildReturns, ProcessEnds, Ended
<1>4. ASSUME LaunchReturns PROVE TypeOK'
  <2>1. ProcessType'
    BY <1>4 DEF LaunchReturns, ProcessType, alarm, signals, Proc, Stage,
                TestStage, Program
  <2>2. HistoryType'
    BY <1>4 DEF LaunchReturns, HistoryType, bounds
  <2> QED
    BY <1>4, <2>1, <2>2, SameRunner DEF LaunchReturns
<1> QED
  BY <1>1, <1>2, <1>3, <1>4 DEF ProgramStep

LEMMA EnvironmentTyped ==
  ASSUME TypeOK, NEW p \in Proc, Alarm(p) \/ Environment(p) PROVE TypeOK'
<1> USE DEF TypeOK, Runs, GoTo
<1>1. CASE BodyReturn(p)
  <2>1. ProcessType'
    BY <1>1 DEF BodyReturn, ProcessType, alarm, signals, Stage, TestStage,
                Program
  <2>2. HistoryType'
    BY <1>1 DEF BodyReturn, HistoryType, ProcessType, TestStage, Program, bounds
  <2> QED
    BY <1>1, <2>1, <2>2, SameRunner DEF BodyReturn
<1>2. CASE UserExits(p)
  BY <1>2, EndTyped, BoundAssumption DEF UserExits, Ended
<1>3. CASE Crash(p)
  BY <1>3, EndTyped DEF Crash, Ended, OK
<1>4. CASE Alarm(p)
  BY <1>4, EndTyped DEF Alarm, Ended, OK, TIMED_OUT
<1>5. CASE AlarmHangs(p)
  <2>1. ProcessType'
    BY <1>5 DEF AlarmHangs, ProcessType, signals, Stage, TestStage, Program
  <2> QED
    BY <1>5, <2>1, SameRunner, SameHistory DEF AlarmHangs
<1>6. CASE Halt(p)
  <2>1. ProcessType'
    BY <1>6 DEF Halt, ProcessType, alarm, Proc
  <2>2. HistoryType'
    BY <1>6, BoundAssumption DEF Halt, HistoryType, history
  <2> QED
    BY <1>6, <2>1, <2>2, SameRunner DEF Halt
<1>7. CASE Resume(p)
  <2>1. ProcessType'
    BY <1>7 DEF Resume, ProcessType, alarm
  <2> QED
    BY <1>7, <2>1, SameRunner, SameHistory DEF Resume
<1>8. CASE HelperEnds(p)
  <2>1. ProcessType'
    BY <1>8 DEF HelperEnds, ProcessType, alarm, Stage, TestStage, Program, Ended
  <2> QED
    BY <1>8, <2>1, SameRunner, SameHistory DEF HelperEnds
<1> QED
  BY <1>1, <1>2, <1>3, <1>4, <1>5, <1>6, <1>7, <1>8 DEF Environment

\* Every state of every run is well typed: submit() and wait_for_child() never
\* index outside the list or the task table, and a process that is inside
\* launch_test() always runs a test.
THEOREM TypeCorrect == Spec => []TypeOK
<1>1. TypeOK /\ [Next]_vars => TypeOK'
  <2> SUFFICES ASSUME TypeOK, [Next]_vars PROVE TypeOK'
    OBVIOUS
  <2>1. CASE UNCHANGED vars
    BY <2>1, SameRunner, SameProcesses, SameHistory DEF TypeOK, vars
  <2> QED
    BY <2>1, RunnerStepTyped, ProgramStepTyped, EnvironmentTyped
       DEF Next, Gone
<1> QED
  BY <1>1, InitTyped, PTL DEF Spec

-----------------------------------------------------------------------------
(***************************************************************************)
(* The inductive invariant, in the order in which its parts rest on each   *)
(* other: who may be where; what the task table lists; which tests are     *)
(* where; what became of them; where a timer may be armed.                 *)
(***************************************************************************)

\* A child that runs a test is in launch_test() or a zombie, a child of an
\* Initializer runs no test, and the runner itself runs one exactly while
\* submit() is in launch_test(), which needs a configuration without fork.
Roles ==
  /\ \A p \in Pid : at[p] \notin {"helper", "returned"}
  /\ \A h \in Helper : /\ at[h] \in {"free", "helper", "exited"}
                       /\ at[h] # "free" => h \in cfg.helpers
                       /\ does[h] = NoTest
  /\ \A p \in Child : timer[p] => at[p] \in TestStage
  /\ at[Parent] \in TestStage \cup {"free"}
  /\ at[Parent] \in TestStage <=> pc = "launch"
  /\ pc = "launch" => does[Parent] = List[next]
  /\ pc \notin {"launch", "dead"} => does[Parent] = NoTest
  /\ cfg.fork => /\ pc \notin {"launch", "check"}
                 /\ does[Parent] = NoTest /\ ~timer[Parent]
  /\ ~cfg.fork => pc # "slot"

\* The tests that submit() has disposed of when the loop is at next.
Submitted == {List[i] : i \in 1..(IF pc = "check" THEN next ELSE next - 1)}

\* EveryTestAccounted, at every point of the runner.
Accounts ==
  /\ EveryTestAccounted
  /\ \A i, j \in Active : vTasks[i].test = vTasks[j].test => i = j
  /\ pc \in {"loop", "slot", "launch", "check", "drain"} =>
       Judged \cup InProgress = Submitted
  /\ pc \in {"slot", "launch"} =>
       total = next /\ total = Len(success) + Len(failed) + nTasksActive + 1
  /\ pc = "check" =>
       total = next /\ total = Len(success) + Len(failed) + nTasksActive
  /\ pc \in {"loop", "slot", "launch", "drain"} => res = OK
  /\ pc = "drain" => next = Len(List) + 1

\* What is left of a run without error after the loop.
Completion ==
  /\ pc \in {"report", "dtor", "exited"} /\ res = OK =>
       nTasksActive = 0 /\ Judged = Elements(List) /\ total = Len(List)
  /\ pc \in {"dtor", "exited"} /\ res = OK =>
       report = <<[total |-> total, success |-> success, failed |-> failed]>>

FateOf(p) == IF at[p] \notin Ended THEN "none"
             ELSE IF at[p] = "exited" /\ lres[p] = OK THEN "ok" ELSE "bad"

\* The fate of a test in progress is the state of its process, the fate of a
\* recorded test is its record, and no other test has one.
Fates ==
  /\ VerdictFaithful
  /\ \A i \in Active : fate[vTasks[i].test] = FateOf(vTasks[i].pid)
  /\ pc = "launch" =>
       fate[does[Parent]] = IF at[Parent] # "returned" THEN "none"
                            ELSE IF lres[Parent] = OK THEN "ok" ELSE "bad"
  /\ \A t \in Test : fate[t] # "none" =>
       t \in Judged \cup InProgress \cup {does[Parent]}

\* TimerConfined, with the results that keep it.
Timers ==
  /\ TimerConfined
  /\ \A p \in Proc : at[p] \in {"before", "arm"} => lres[p] = OK
  /\ ~Limited => \A p \in Proc :
       ~timer[p] /\ at[p] \notin {"arm", "install", "revert", "disarm"}
  /\ pc \in {"loop", "drain"} => ~timer[Parent]
  /\ pc = "check" => res = lres[Parent]

-----------------------------------------------------------------------------
(* The steps of a process, by what the runner can see of them *)

\* Inside launch_test(), or a stop signal: the runner sees nothing.
Quiet(p) ==
  /\ UNCHANGED <<runnerVars, does, fate>>
  /\ \/ UNCHANGED <<at, lres, timer>>
     \/ /\ at[p] \in Program
        /\ \E s \in Program \cup {"stuck"} : at' = [at EXCEPT ![p] = s]
        /\ \E r \in Nat : lres' = [lres EXCEPT ![p] = r]
        /\ \E b \in BOOLEAN : timer' = [timer EXCEPT ![p] = b]

\* The process of a test ends.
Ending(p) ==
  /\ p \notin Helper
  /\ at[p] \in TestStage \/ (p = Parent /\ timer[p])
  /\ \E how \in Ended, code \in Nat : ProcessEnds(p, how, code)

\* A child of an Initializer ends.
HelperEnding(p) ==
  /\ p \in Helper /\ at[p] = "helper"
  /\ at' = [at EXCEPT ![p] = "exited"]
  /\ UNCHANGED <<runnerVars, does, fate, lres, timer>>

LEMMA ProcessShape ==
  ASSUME TypeOK, Roles, NEW p \in Proc,
         ProgramStep(p) \/ Alarm(p) \/ Environment(p)
  PROVE  \/ Quiet(p) \/ Ending(p) \/ HelperEnding(p)
         \/ p = Parent /\ LaunchReturns
<1> USE DEF Runs, GoTo
<1>0. /\ at \in [Proc -> Stage] /\ lres \in [Proc -> Nat]
      /\ timer \in [Proc -> BOOLEAN] /\ halted \subseteq Child
  BY DEF TypeOK, ProcessType
<1>1. CASE Before(p) \/ SetTimer(p) \/ SetTimerFails(p) \/ InstallHandler(p)
           \/ RevertHandler(p) \/ KillTimer(p) \/ KillTimerFails(p) \/ After(p)
           \/ BodyReturn(p) \/ AlarmHangs(p)
  <2>1. /\ UNCHANGED <<runnerVars, does, fate>>
        /\ at[p] \in Program
        /\ \E s \in Program \cup {"stuck"} : at' = [at EXCEPT ![p] = s]
    BY <1>1 DEF Before, SetTimer, SetTimerFails, InstallHandler, RevertHandler,
                KillTimer, KillTimerFails, After, BodyReturn, AlarmHangs,
                Program, history
  <2>2. \E r \in Nat : lres' = [lres EXCEPT ![p] = r]
    <3>1. \/ lres' = lres \/ lres' = [lres EXCEPT ![p] = OK]
          \/ lres' = [lres EXCEPT ![p] = UNKNOWN_ERR]
      BY <1>1 DEF Before, SetTimer, SetTimerFails, InstallHandler,
                  RevertHandler, KillTimer, KillTimerFails, After, BodyReturn,
                  AlarmHangs
    <3>2. lres = [lres EXCEPT ![p] = lres[p]] /\ lres[p] \in Nat
      BY <1>0
    <3> QED
      BY <3>1, <3>2 DEF OK, UNKNOWN_ERR
  <2>3. \E b \in BOOLEAN : timer' = [timer EXCEPT ![p] = b]
    <3>1. timer' = timer \/ \E b \in BOOLEAN : timer' = [timer EXCEPT ![p] = b]
      BY <1>1 DEF Before, SetTimer, SetTimerFails, InstallHandler,
                  RevertHandler, KillTimer, KillTimerFails, After, BodyReturn,
                  AlarmHangs, alarm
    <3>2. timer = [timer EXCEPT ![p] = timer[p]] /\ timer[p] \in BOOLEAN
      BY <1>0
    <3> QED
      BY <3>1, <3>2
  <2> QED
    BY <2>1, <2>2, <2>3 DEF Quiet
<1>2. CASE Halt(p) \/ Resume(p)
  BY <1>2 DEF Halt, Resume, Quiet, alarm, history
<1>3. CASE HelperEnds(p)
  BY <1>3, <1>0 DEF HelperEnds, HelperEnding, alarm, history, Roles, Proc,
                    Child, TestStage, Program
<1>4. CASE ChildReturns(p) \/ UserExits(p) \/ Crash(p)
  <2>1. at[p] \in TestStage /\ p \notin Helper
    BY <1>4 DEF ChildReturns, UserExits, Crash, TestStage, Program, Roles
  <2>2. \E how \in Ended, code \in Nat : ProcessEnds(p, how, code)
    BY <1>0, <1>4, BoundAssumption
       DEF ChildReturns, UserExits, Crash, ProcessEnds, Ended, OK
  <2> QED
    BY <2>1, <2>2 DEF Ending
<1>5. CASE Alarm(p)
  <2>1. \E how \in Ended, code \in Nat : ProcessEnds(p, how, code)
    BY <1>5 DEF Alarm, Ended, OK, TIMED_OUT
  <2>2. at[p] \in TestStage \/ (p = Parent /\ timer[p])
    BY <1>5 DEF Alarm, Roles, Proc
  <2>3. p \notin Helper
    BY <1>5, <2>2, ProcAssumption
       DEF Alarm, Roles, TestStage, Program, Child
  <2> QED
    BY <2>1, <2>2, <2>3 DEF Ending
<1> QED
  BY <1>1, <1>2, <1>3, <1>4, <1>5 DEF ProgramStep, Environment

-----------------------------------------------------------------------------
(* Roles *)

LEMMA ForkCapacity ==
  ASSUME cfg \in Configs PROVE cfg.fork \in BOOLEAN /\ (nTasksMax > 0 <=> cfg.fork)
  BY ConfigAssumption DEF nTasksMax, Config

LEMMA ProcFacts ==
  /\ Parent \in Proc /\ Parent \notin Pid /\ Parent \notin Helper
  /\ Pid \subseteq Proc /\ Helper \subseteq Proc /\ Child \subseteq Proc
  /\ \A p \in Child : p # Parent /\ (p \in Pid \/ p \in Helper)
  /\ \A p \in Pid : p \notin Helper
  /\ \A p \in Proc : p \in Pid \/ p \in Helper \/ p = Parent
  BY ProcAssumption DEF Proc, Child

LEMMA StageFacts ==
  /\ {"free", "helper", "exited", "signaled"} \cap TestStage = {}
  /\ \A s \in Program : s \in TestStage /\ s \notin {"returned", "helper"}
  /\ "stuck" \in TestStage /\ "returned" \in TestStage /\ "before" \in Program
  /\ Ended = {"exited", "signaled"}
  BY DEF TestStage, Program, Ended

LEMMA InitRoles == Init => Roles
<1> SUFFICES ASSUME Init PROVE Roles
  OBVIOUS
<1>1. cfg.helpers \subseteq Helper
  BY ConfigAssumption DEF Init, Config
<1> QED
  BY <1>1, ProcFacts, StageFacts DEF Init, Roles

LEMMA RunnerRoles == TypeOK /\ Roles /\ RunnerStep => Roles'
<1> SUFFICES ASSUME TypeOK, Roles, RunnerStep PROVE Roles'
  OBVIOUS
<1>0. /\ at \in [Proc -> Stage] /\ does \in [Proc -> Test \cup {NoTest}]
      /\ timer \in [Proc -> BOOLEAN] /\ cfg \in Configs
  BY DEF TypeOK, ProcessType, ControlType
<1> USE ProcFacts, StageFacts, <1>0 DEF GoTo
<1>1. CASE LoopEnds \/ CheckResult \/ Drained \/ OutputStats \/ ForkFails
  <2>1. CASE LoopEnds
    BY <2>1 DEF LoopEnds, Roles, procVars, alarm
  <2>2. CASE CheckResult
    BY <2>2 DEF CheckResult, Roles, procVars, alarm
  <2>3. CASE Drained
    BY <2>3 DEF Drained, Roles, procVars, alarm
  <2>4. CASE OutputStats
    BY <2>4 DEF OutputStats, Roles, procVars, alarm
  <2>5. CASE ForkFails
    BY <2>5 DEF ForkFails, Roles, procVars, alarm
  <2> QED
    BY <1>1, <2>1, <2>2, <2>3, <2>4, <2>5
<1>2. CASE Submit
  BY <1>2, ForkCapacity DEF Submit, Roles, alarm
<1>3. CASE SubmitReturns
  BY <1>3 DEF SubmitReturns, Roles, alarm
<1>4. CASE WaitFails
  BY <1>4 DEF WaitFails, Waiting, RunnerExits, Roles, alarm
<1>5. CASE Destroyed
  BY <1>5 DEF Destroyed, RunnerExits, Roles, alarm
<1>6. CASE \E p \in Pid : Fork(p)
  BY <1>6 DEF Fork, Roles
<1>7. CASE \E p \in Child : WaitReaps(p)
  BY <1>7 DEF WaitReaps, Roles, alarm
<1>8. CASE \E p \in Child : WaitReapsStranger(p)
  BY <1>8 DEF WaitReapsStranger, Waiting, Roles, alarm
<1>9. CASE \E p \in Child : WaitNotes(p)
  BY <1>9 DEF WaitNotes, Roles, runnerVars, alarm
<1> QED
  BY <1>1, <1>2, <1>3, <1>4, <1>5, <1>6, <1>7, <1>8, <1>9 DEF RunnerStep

LEMMA ProcessRoles ==
  ASSUME TypeOK, Roles, NEW p \in Proc,
         ProgramStep(p) \/ Alarm(p) \/ Environment(p)
  PROVE  Roles'
<1>0. /\ at \in [Proc -> Stage] /\ does \in [Proc -> Test \cup {NoTest}]
      /\ timer \in [Proc -> BOOLEAN]
  BY DEF TypeOK, ProcessType
<1> USE ProcFacts, StageFacts, <1>0 DEF Roles
<1>1. CASE Quiet(p)
  BY <1>1 DEF Quiet, runnerVars
<1>2. CASE Ending(p)
  <2> PICK how \in Ended, code \in Nat : ProcessEnds(p, how, code)
    BY <1>2 DEF Ending
  <2>1. CASE p = Parent
    BY <1>2, <2>1 DEF Ending, ProcessEnds, RunnerEnds
  <2>2. CASE p # Parent
    BY <1>2, <2>2 DEF Ending, ProcessEnds, ChildEnds, runnerVars
  <2> QED
    BY <2>1, <2>2
<1>3. CASE HelperEnding(p)
  BY <1>3 DEF HelperEnding, runnerVars
<1>4. CASE LaunchReturns
  BY <1>4 DEF LaunchReturns, Runs, GoTo, runnerVars, alarm
<1> QED
  BY <1>1, <1>2, <1>3, <1>4, ProcessShape

-----------------------------------------------------------------------------
(* The task table *)

\* With the roles of the processes, the pid that waitpid() returns is in one
\* active descriptor if it is the child of a test, and in none otherwise.
LEMMA OneSlot ==
  ASSUME TypeOK, Roles, TableMatchesChildren, NEW p \in Child, at[p] \in Ended
  PROVE  /\ p \in Pid => \E i \in Active : SlotsOf(p) = {i}
         /\ p \in Helper => SlotsOf(p) = {}
  BY ProcFacts, StageFacts DEF SlotsOf, TableMatchesChildren

LEMMA SameTableMatches ==
  ASSUME TableMatchesChildren, UNCHANGED <<vTasks, nTasksActive, does>>,
         \A p \in Pid : at'[p] # "free" <=> at[p] # "free"
  PROVE  TableMatchesChildren'
  BY DEF TableMatchesChildren, Active

LEMMA RunnerTable ==
  TypeOK /\ Roles /\ TableMatchesChildren /\ RunnerStep => TableMatchesChildren'
<1> SUFFICES ASSUME TypeOK, Roles, TableMatchesChildren, RunnerStep
             PROVE  TableMatchesChildren'
  OBVIOUS
<1>0. /\ at \in [Proc -> Stage] /\ does \in [Proc -> Test \cup {NoTest}]
      /\ nTasksActive \in Nat /\ nTasksMax \in Nat
      /\ nTasksActive <= nTasksMax
      /\ vTasks \in [1..nTasksMax -> Task]
  BY CapacityType DEF TypeOK, ProcessType, ControlType, TableType
<1> USE ProcFacts, StageFacts, <1>0 DEF GoTo
<1>1. CASE LoopEnds \/ CheckResult \/ Drained \/ OutputStats \/ WaitFails
           \/ Destroyed \/ \E p \in Child : WaitNotes(p)
  <2>1. UNCHANGED <<vTasks, nTasksActive, at, does>>
    BY <1>1 DEF LoopEnds, CheckResult, Drained, OutputStats, WaitFails,
                Destroyed, WaitNotes, procVars, runnerVars, table
  <2> QED
    BY <2>1, SameTableMatches
<1>2. CASE Submit
  <2>1. CASE UNCHANGED <<at, does>>
    BY <1>2, <2>1, SameTableMatches DEF Submit, table
  <2>2. CASE at' = [at EXCEPT ![Parent] = "before"]
             /\ does' = [does EXCEPT ![Parent] = List[next]]
    BY <1>2, <2>2 DEF Submit, table, TableMatchesChildren, Active
  <2> QED
    BY <1>2, <2>1, <2>2 DEF Submit
<1>3. CASE SubmitReturns
  BY <1>3 DEF SubmitReturns, table, TableMatchesChildren, Active
<1>4. CASE ForkFails
  <2>1. \A i \in Active : vTasks'[i] = vTasks[i]
    BY <1>4 DEF ForkFails, TaskFor, Active
  <2> QED
    BY <1>4, <2>1
       DEF ForkFails, procVars, TableMatchesChildren, Active
<1>5. CASE \E p \in Pid : Fork(p)
  <2> PICK p \in Pid : Fork(p)
    BY <1>5
  <2> DEFINE n == nTasksActive + 1
  <2>1. n \in 1..nTasksMax /\ nTasksActive' = n
    BY DEF Fork, SlotIsFree
  <2>2. /\ vTasks'[n] = [pid |-> p, test |-> List[next], result |-> OK]
        /\ \A i \in Active : vTasks'[i] = vTasks[i]
    BY <2>1 DEF Fork, TaskFor, Active
  <2>3. /\ at[p] = "free" /\ at' = [at EXCEPT ![p] = "before"]
        /\ does' = [does EXCEPT ![p] = List[next]]
    BY DEF Fork
  <2>4. Active' = Active \cup {n} /\ n \notin Active
    BY <2>1 DEF Active
  <2>5. \A i \in Active : vTasks[i].pid # p
    BY <2>3 DEF TableMatchesChildren
  <2> QED
    BY <2>2, <2>3, <2>4, <2>5 DEF TableMatchesChildren
<1>6. CASE \E p \in Child : WaitReaps(p)
  <2> PICK p \in Child : WaitReaps(p)
    BY <1>6
  <2>1. PICK i \in SlotsOf(p) : Collect(i, ResultOf(p))
    BY DEF WaitReaps
  <2>2. i \in Active /\ vTasks[i].pid = p /\ nTasksActive \in Active
    BY <2>1 DEF SlotsOf, Active
  <2>3. p \in Pid
    BY <2>2 DEF TableMatchesChildren
  <2>4. Active' = Active \ {nTasksActive}
    BY <2>1, <2>2 DEF Collect, Active
  <2>5. \A j \in Active' : vTasks'[j] = IF j = i THEN vTasks[nTasksActive]
                                        ELSE vTasks[j]
    BY <2>1, <2>2, <2>4 DEF Collect, Active
  <2>6. /\ at' = [at EXCEPT ![p] = "free"]
        /\ does' = [does EXCEPT ![p] = NoTest]
    BY DEF WaitReaps
  <2>7. \A j \in Active' : vTasks'[j].pid # p
    BY <2>2, <2>4, <2>5 DEF TableMatchesChildren
  <2>8. \A q \in Pid : at'[q] # "free" => \E j \in Active' : vTasks'[j].pid = q
    <3> SUFFICES ASSUME NEW q \in Pid, at'[q] # "free"
                 PROVE  \E j \in Active' : vTasks'[j].pid = q
      OBVIOUS
    <3>1. q # p /\ at[q] # "free"
      BY <2>3, <2>6
    <3>2. PICK j \in Active : vTasks[j].pid = q
      BY <3>1 DEF TableMatchesChildren
    <3>3. j # i
      BY <2>2, <3>1, <3>2
    <3>4. CASE j = nTasksActive
      BY <2>2, <2>4, <2>5, <3>2, <3>3, <3>4
    <3>5. CASE j # nTasksActive
      BY <2>4, <2>5, <3>2, <3>3, <3>5
    <3> QED
      BY <3>4, <3>5
  <2>9. \A j \in Active' : /\ vTasks'[j].pid \in Pid
                           /\ at'[vTasks'[j].pid] # "free"
                           /\ does'[vTasks'[j].pid] = vTasks'[j].test
    BY <2>2, <2>4, <2>5, <2>6, <2>7 DEF TableMatchesChildren
  <2>10. \A j, k \in Active' : vTasks'[j].pid = vTasks'[k].pid => j = k
    BY <2>2, <2>4, <2>5 DEF TableMatchesChildren
  <2> QED
    BY <2>8, <2>9, <2>10 DEF TableMatchesChildren
<1>7. CASE \E p \in Child : WaitReapsStranger(p)
  <2> PICK p \in Child : WaitReapsStranger(p)
    BY <1>7
  <2>1. p \notin Pid
    BY OneSlot DEF WaitReapsStranger
  <2> QED
    BY <2>1, SameTableMatches DEF WaitReapsStranger, table
<1> QED
  BY <1>1, <1>2, <1>3, <1>4, <1>5, <1>6, <1>7 DEF RunnerStep

LEMMA ProcessTable ==
  ASSUME TypeOK, Roles, TableMatchesChildren, NEW p \in Proc,
         ProgramStep(p) \/ Alarm(p) \/ Environment(p)
  PROVE  TableMatchesChildren'
<1>0. at \in [Proc -> Stage]
  BY DEF TypeOK, ProcessType
<1> USE ProcFacts, StageFacts, <1>0, SameTableMatches
<1>1. CASE Quiet(p)
  BY <1>1 DEF Quiet, runnerVars, table
<1>2. CASE Ending(p)
  <2> PICK how \in Ended, code \in Nat : ProcessEnds(p, how, code)
    BY <1>2 DEF Ending
  <2>1. CASE p = Parent
    BY <2>1 DEF ProcessEnds, RunnerEnds, table
  <2>2. CASE p # Parent
    BY <1>2, <2>2 DEF Ending, ProcessEnds, ChildEnds, runnerVars, table
  <2> QED
    BY <2>1, <2>2
<1>3. CASE HelperEnding(p)
  BY <1>3 DEF HelperEnding, runnerVars, table
<1>4. CASE LaunchReturns
  BY <1>4 DEF LaunchReturns, Runs, GoTo, runnerVars, table
<1> QED
  BY <1>1, <1>2, <1>3, <1>4, ProcessShape

-----------------------------------------------------------------------------
(* The accounts of the tests *)

LEMMA ElementsAppend ==
  ASSUME NEW S, NEW s \in Seq(S), NEW e \in S
  PROVE  /\ Elements(Append(s, e)) = Elements(s) \cup {e}
         /\ Len(Append(s, e)) = Len(s) + 1 /\ Len(s) \in Nat
         /\ NoRepeats(s) /\ e \notin Elements(s) => NoRepeats(Append(s, e))
<1>1. /\ Len(s) \in Nat /\ DOMAIN s = 1..Len(s)
      /\ Len(Append(s, e)) = Len(s) + 1
      /\ DOMAIN Append(s, e) = 1..(Len(s) + 1)
      /\ \A i \in 1..Len(s) : Append(s, e)[i] = s[i]
      /\ Append(s, e)[Len(s) + 1] = e
  OBVIOUS
<1>2. Elements(Append(s, e)) = Elements(s) \cup {e}
  <2>1. ASSUME NEW x \in Elements(Append(s, e)) PROVE x \in Elements(s) \cup {e}
    BY <1>1, <2>1 DEF Elements
  <2>2. ASSUME NEW x \in Elements(s) PROVE x \in Elements(Append(s, e))
    BY <1>1, <2>2 DEF Elements
  <2>3. e \in Elements(Append(s, e))
    BY <1>1 DEF Elements
  <2> QED
    BY <2>1, <2>2, <2>3
<1>3. ASSUME NoRepeats(s), e \notin Elements(s) PROVE NoRepeats(Append(s, e))
  <2>1. \A i \in 1..Len(s) : s[i] # e
    BY <1>1, <1>3 DEF Elements
  <2> QED
    BY <1>1, <1>3, <2>1 DEF NoRepeats
<1> QED
  BY <1>1, <1>2, <1>3

\* A record that was in progress, or without fork in the runner, moves to the
\* statistics.
LEMMA Record ==
  ASSUME NEW t \in Test, NEW r \in Nat,
         success \in Seq(Test), failed \in Seq(Test),
         NoRepeats(success), NoRepeats(failed),
         Elements(success) \cap Elements(failed) = {},
         t \notin Judged,
         IF r = OK THEN success' = Append(success, t) /\ UNCHANGED failed
                   ELSE failed' = Append(failed, t) /\ UNCHANGED success
  PROVE  /\ NoRepeats(success)' /\ NoRepeats(failed)'
         /\ (Elements(success) \cap Elements(failed))' = {}
         /\ Judged' = Judged \cup {t}
         /\ Len(success') + Len(failed') = Len(success) + Len(failed) + 1
         /\ Elements(success') = Elements(success) \cup (IF r = OK THEN {t} ELSE {})
         /\ Elements(failed') = Elements(failed) \cup (IF r = OK THEN {} ELSE {t})
<1>0. /\ t \notin Elements(success) /\ t \notin Elements(failed)
      /\ Len(success) \in Nat /\ Len(failed) \in Nat
  BY DEF Judged
<1>1. CASE r = OK
  <2>1. /\ success' = Append(success, t) /\ failed' = failed
    BY <1>1
  <2>2. /\ Elements(success') = Elements(success) \cup {t}
        /\ Len(success') = Len(success) + 1
        /\ NoRepeats(success')
    BY <1>0, <2>1, ElementsAppend
  <2> QED
    BY <1>0, <1>1, <2>1, <2>2 DEF Judged, NoRepeats
<1>2. CASE r # OK
  <2>1. /\ failed' = Append(failed, t) /\ success' = success
    BY <1>2
  <2>2. /\ Elements(failed') = Elements(failed) \cup {t}
        /\ Len(failed') = Len(failed) + 1
        /\ NoRepeats(failed')
    BY <1>0, <2>1, ElementsAppend
  <2> QED
    BY <1>0, <1>2, <2>1, <2>2 DEF Judged, NoRepeats
<1> QED
  BY <1>1, <1>2

LEMMA InitAccounts == Init => Accounts
<1> SUFFICES ASSUME Init PROVE Accounts
  OBVIOUS
<1>1. /\ Elements(success) = {} /\ Elements(failed) = {} /\ InProgress = {}
      /\ Len(success) = 0 /\ Len(failed) = 0
      /\ NoRepeats(success) /\ NoRepeats(failed)
      /\ Active = {}
  BY DEF Init, Elements, InProgress, Active, NoRepeats
<1>2. Submitted = {}
  BY DEF Init, Submitted
<1> QED
  BY <1>1, <1>2 DEF Init, Accounts, EveryTestAccounted, Judged, Submitted

LEMMA SameAccounts ==
  ASSUME Accounts, UNCHANGED <<pc, next, res, table, stats>> PROVE Accounts'
<1>1. /\ InProgress' = InProgress /\ Judged' = Judged /\ Active' = Active
      /\ Submitted' = Submitted
      /\ {List[i] : i \in 1..(next - 1)}' = {List[i] : i \in 1..(next - 1)}
  BY DEF InProgress, Judged, Active, Submitted, table, stats
<1> QED
  BY <1>1 DEF Accounts, EveryTestAccounted, NoRepeats, table, stats

\* After the loop only the table and the statistics matter.
LEMMA AccountsAfterLoop ==
  ASSUME Accounts, UNCHANGED <<table, stats>>,
         pc' \in {"report", "dtor", "exited", "dead"}
  PROVE  Accounts'
<1>1. InProgress' = InProgress /\ Judged' = Judged /\ Active' = Active
  BY DEF InProgress, Judged, Active, table, stats
<1> QED
  BY <1>1 DEF Accounts, EveryTestAccounted, NoRepeats, table, stats

\* While the loop runs, the next test is in no account yet.
LEMMA NextIsNew ==
  ASSUME TypeOK, Accounts, pc \in {"loop", "slot", "launch"}, next <= Len(List)
  PROVE  List[next] \in Test /\ List[next] \notin Judged \cup InProgress
<1>1. next \in 1..Len(List) /\ Len(List) \in Nat
  BY ListType DEF TypeOK, ControlType
<1>2. \A i \in 1..(next - 1) : List[i] # List[next]
  BY <1>1, ListAssumption
<1> QED
  BY <1>1, <1>2, ListType DEF Accounts, Submitted

LEMMA RunnerAccounts ==
  TypeOK /\ Roles /\ TableMatchesChildren /\ Accounts /\ RunnerStep => Accounts'
<1> SUFFICES ASSUME TypeOK, Roles, TableMatchesChildren, Accounts, RunnerStep
             PROVE  Accounts'
  OBVIOUS
<1>0. /\ success \in Seq(Test) /\ failed \in Seq(Test)
      /\ Len(success) \in Nat /\ Len(failed) \in Nat /\ total \in Nat
      /\ next \in 1..(Len(List) + 1) /\ Len(List) \in Nat
      /\ nTasksActive \in Nat /\ nTasksMax \in Nat
      /\ nTasksActive <= nTasksMax
      /\ vTasks \in [1..nTasksMax -> Task]
  BY CapacityType, ListType DEF TypeOK, ControlType, TableType, StatsType
<1>1. CASE Drained \/ OutputStats \/ WaitFails \/ Destroyed
           \/ \E p \in Child : WaitReapsStranger(p)
  <2>1. pc' \in {"report", "dtor", "exited", "dead"}
    BY <1>1 DEF Drained, OutputStats, WaitFails, Destroyed, RunnerExits,
                WaitReapsStranger
  <2>2. UNCHANGED <<table, stats>>
    BY <1>1 DEF Drained, OutputStats, WaitFails, Destroyed, WaitReapsStranger
  <2> QED
    BY <2>1, <2>2, AccountsAfterLoop
<1>2. CASE \E p \in Child : WaitNotes(p)
  BY <1>2, SameAccounts DEF WaitNotes, runnerVars
<1>3. CASE LoopEnds
  <2>1. /\ InProgress' = InProgress /\ Judged' = Judged
        /\ Submitted' = Submitted /\ next = Len(List) + 1
    BY <1>0, <1>3
       DEF LoopEnds, table, stats, InProgress, Judged, Active, Submitted
  <2> QED
    BY <1>3, <2>1
       DEF LoopEnds, Accounts, EveryTestAccounted, NoRepeats, table, stats,
           Active, Submitted
<1>4. CASE Submit
  <2>1. /\ InProgress' = InProgress /\ Judged' = Judged
        /\ Submitted' = Submitted
    BY <1>4 DEF Submit, table, InProgress, Judged, Active, Submitted
  <2> QED
    BY <1>0, <1>4, <2>1
       DEF Submit, Accounts, EveryTestAccounted, NoRepeats, table, Active
<1>5. CASE CheckResult
  <2>1. CASE res = OK
    <3>1. /\ InProgress' = InProgress /\ Judged' = Judged
          /\ Submitted' = Submitted
          /\ Submitted' = {List[i] : i \in 1..(next - 1)}'
      BY <1>0, <1>5, <2>1
         DEF CheckResult, table, stats, InProgress, Judged, Active, Submitted
    <3>2. next' = next + 1 /\ next <= Len(List)
      BY <1>5, <2>1 DEF CheckResult, TypeOK, ControlType
    <3> QED
      BY <1>0, <1>5, <2>1, <3>1, <3>2
         DEF CheckResult, Accounts, EveryTestAccounted, NoRepeats, table,
             stats, Active
  <2>2. CASE res # OK
    BY <1>5, <2>2, AccountsAfterLoop DEF CheckResult
  <2> QED
    BY <2>1, <2>2
<1>6. CASE SubmitReturns
  <2> DEFINE t == does[Parent]
  <2>1. pc = "launch" /\ t = List[next] /\ next <= Len(List)
    BY <1>6 DEF SubmitReturns, Roles, TypeOK, ControlType
  <2>2. t \in Test /\ t \notin Judged \cup InProgress
    BY <2>1, NextIsNew
  <2>3. lres[Parent] \in Nat
    BY ProcFacts DEF TypeOK, ProcessType
  <2>4. /\ NoRepeats(success)' /\ NoRepeats(failed)'
        /\ (Elements(success) \cap Elements(failed))' = {}
        /\ Judged' = Judged \cup {t}
        /\ Len(success') + Len(failed') = Len(success) + Len(failed) + 1
    <3>1. IF lres[Parent] = OK
          THEN success' = Append(success, t) /\ UNCHANGED failed
          ELSE failed' = Append(failed, t) /\ UNCHANGED success
      BY <1>6 DEF SubmitReturns
    <3> HIDE DEF t
    <3> QED
      BY <1>0, <2>2, <2>3, <3>1, Record DEF Accounts, EveryTestAccounted
  <2>5. InProgress' = InProgress /\ Active' = Active
    BY <1>6 DEF SubmitReturns, table, InProgress, Active
  <2>6. Submitted' = Submitted \cup {t}
    BY <1>0, <1>6, <2>1 DEF SubmitReturns, Submitted
  <2>7. /\ pc' = "check"
        /\ UNCHANGED <<vTasks, nTasksActive, total, next>>
    BY <1>6 DEF SubmitReturns, table
  <2> QED
    BY <1>0, <2>1, <2>2, <2>4, <2>5, <2>6, <2>7
       DEF Accounts, EveryTestAccounted
<1>7. CASE ForkFails
  <2>1. \A i \in Active : vTasks'[i] = vTasks[i]
    BY <1>0, <1>7 DEF ForkFails, TaskFor, Active
  <2>2. /\ UNCHANGED <<nTasksActive, success, failed>> /\ pc' = "report"
    BY <1>7 DEF ForkFails, stats
  <2>3. InProgress' = InProgress /\ Judged' = Judged /\ Active' = Active
    BY <2>1, <2>2 DEF InProgress, Judged, Active
  <2> QED
    BY <2>1, <2>2, <2>3 DEF Accounts, EveryTestAccounted, NoRepeats
<1>8. CASE \E p \in Pid : Fork(p)
  <2> PICK p \in Pid : Fork(p)
    BY <1>8
  <2> DEFINE n == nTasksActive + 1
             t == List[next]
  <2>1. /\ pc = "slot" /\ pc' = "loop" /\ next' = next + 1
        /\ next <= Len(List)
        /\ UNCHANGED <<res, total, success, failed>>
        /\ n \in 1..nTasksMax /\ nTasksActive' = n
    <3>1. next <= Len(List)
      BY DEF Fork, TypeOK, ControlType
    <3> QED
      BY <1>0, <3>1 DEF Fork, SlotIsFree, stats
  <2>2. t \in Test /\ t \notin Judged \cup InProgress
    BY <2>1, NextIsNew
  <2>3. /\ vTasks'[n].test = t
        /\ \A i \in Active : vTasks'[i] = vTasks[i]
    BY <1>0, <2>1 DEF Fork, TaskFor, Active
  <2>4. Active' = Active \cup {n} /\ n \notin Active
    BY <1>0, <2>1 DEF Active
  <2>5. InProgress' = InProgress \cup {t} /\ Judged' = Judged
    BY <2>1, <2>3, <2>4 DEF InProgress, Judged
  <2>6. Submitted' = Submitted \cup {t}
    BY <1>0, <2>1 DEF Submitted
  <2>7. \A i, j \in Active' : vTasks'[i].test = vTasks'[j].test => i = j
    <3>1. \A i \in Active : vTasks[i].test # t
      BY <2>2 DEF InProgress
    <3> QED
      BY <2>3, <2>4, <3>1 DEF Accounts
  <2>8. Submitted' = {List[i] : i \in 1..(next' - 1)}
    BY <2>1 DEF Submitted
  <2> HIDE DEF t, n
  <2> QED
    BY <1>0, <2>1, <2>2, <2>5, <2>6, <2>7, <2>8
       DEF Accounts, EveryTestAccounted, NoRepeats, n
<1>9. CASE \E p \in Child : WaitReaps(p)
  <2> PICK p \in Child : WaitReaps(p)
    BY <1>9
  <2>1. PICK i \in SlotsOf(p) : Collect(i, ResultOf(p))
    BY DEF WaitReaps
  <2> DEFINE t == vTasks[i].test
  <2>2. /\ i \in Active /\ nTasksActive \in Active
        /\ Active' = Active \ {nTasksActive}
        /\ nTasksActive' = nTasksActive - 1
    BY <1>0, <2>1 DEF Collect, SlotsOf, Active
  <2>3. \A j \in Active' : vTasks'[j] = IF j = i THEN vTasks[nTasksActive]
                                        ELSE vTasks[j]
    BY <1>0, <2>1, <2>2 DEF Collect, Active
  <2>4. t \in Test /\ t \in InProgress /\ t \notin Judged
    BY <2>2 DEF InProgress, Accounts, EveryTestAccounted, TypeOK, TableType
  <2>5. ResultOf(p) \in Nat
    BY ProcFacts DEF ResultOf, KILLED, TypeOK, ProcessType
  <2>6. /\ NoRepeats(success)' /\ NoRepeats(failed)'
        /\ (Elements(success) \cap Elements(failed))' = {}
        /\ Judged' = Judged \cup {t}
        /\ Len(success') + Len(failed') = Len(success) + Len(failed) + 1
    <3>1. IF ResultOf(p) = OK
          THEN success' = Append(success, t) /\ UNCHANGED failed
          ELSE failed' = Append(failed, t) /\ UNCHANGED success
      BY <2>1 DEF Collect
    <3> HIDE DEF t
    <3> QED
      BY <1>0, <2>4, <2>5, <3>1, Record DEF Accounts, EveryTestAccounted
  <2>7. \A j, k \in Active : vTasks[j].test = vTasks[k].test => j = k
    BY DEF Accounts
  <2>8. InProgress' = InProgress \ {t}
    <3>1. ASSUME NEW x \in InProgress' PROVE x \in InProgress \ {t}
      BY <2>2, <2>3, <2>7, <3>1 DEF InProgress
    <3>2. ASSUME NEW x \in InProgress, x # t PROVE x \in InProgress'
      <4>1. PICK j \in Active : vTasks[j].test = x
        BY <3>2 DEF InProgress
      <4>2. CASE j = nTasksActive
        BY <2>2, <2>3, <3>2, <4>1, <4>2 DEF InProgress
      <4>3. CASE j # nTasksActive
        BY <2>2, <2>3, <3>2, <4>1, <4>3 DEF InProgress
      <4> QED
        BY <4>2, <4>3
    <3> QED
      BY <3>1, <3>2
  <2>9. \A j, k \in Active' : vTasks'[j].test = vTasks'[k].test => j = k
    BY <2>2, <2>3, <2>7
  <2>10. UNCHANGED <<pc, next, res, total>> /\ pc \in {"slot", "drain", "dtor"}
    BY DEF WaitReaps, Waiting
  <2>11. /\ Submitted' = Submitted
         /\ {List[k] : k \in 1..(next - 1)}' = {List[k] : k \in 1..(next - 1)}
         /\ Judged' \cup InProgress' = Judged \cup InProgress
    BY <2>4, <2>6, <2>8, <2>10 DEF Submitted
  <2>12. Len(success') + Len(failed') + nTasksActive'
           = Len(success) + Len(failed) + nTasksActive
    BY <1>0, <2>2, <2>6
  <2> HIDE DEF t
  <2>13. (Judged \cap InProgress)' = {}
    BY <2>6, <2>8 DEF Accounts, EveryTestAccounted
  <2>14. EveryTestAccounted'
    BY <2>6, <2>10, <2>11, <2>12, <2>13 DEF Accounts, EveryTestAccounted
  <2> QED
    BY <2>9, <2>10, <2>11, <2>12, <2>14 DEF Accounts
<1> QED
  BY <1>1, <1>2, <1>3, <1>4, <1>5, <1>6, <1>7, <1>8, <1>9 DEF RunnerStep

LEMMA ProcessAccounts ==
  ASSUME TypeOK, Roles, Accounts, NEW p \in Proc,
         ProgramStep(p) \/ Alarm(p) \/ Environment(p)
  PROVE  Accounts'
<1>1. \/ UNCHANGED runnerVars
      \/ pc' = "dead" /\ UNCHANGED <<table, stats>>
  BY ProcessShape DEF Quiet, Ending, HelperEnding, LaunchReturns, ProcessEnds,
                      RunnerEnds, ChildEnds
<1> QED
  BY <1>1, SameAccounts, AccountsAfterLoop DEF runnerVars

-----------------------------------------------------------------------------
(* The report *)

LEMMA SameCompletion ==
  ASSUME Completion, UNCHANGED <<res, table, stats, report>>,
         pc' = pc \/ (pc = "dtor" /\ pc' = "exited")
  PROVE  Completion'
<1>1. Judged' = Judged
  BY DEF Judged, stats
<1> QED
  BY <1>1 DEF Completion, table, stats

LEMMA RunnerCompletion ==
  TypeOK /\ Roles /\ Accounts /\ Completion /\ RunnerStep => Completion'
<1> SUFFICES ASSUME TypeOK, Roles, Accounts, Completion, RunnerStep
             PROVE  Completion'
  OBVIOUS
<1>0. nTasksActive \in Nat /\ Len(List) \in Nat
  BY CapacityType, ListType DEF TypeOK, ControlType, TableType
<1> USE DEF OK, UNKNOWN_ERR
<1>1. CASE LoopEnds \/ Submit \/ SubmitReturns \/ \E p \in Pid : Fork(p)
  <2>1. pc' \notin {"report", "dtor", "exited"}
    BY <1>1 DEF LoopEnds, Submit, SubmitReturns, Fork
  <2> QED
    BY <2>1 DEF Completion
<1>2. CASE CheckResult
  BY <1>2 DEF CheckResult, Completion
<1>3. CASE ForkFails
  BY <1>3 DEF ForkFails, Completion
<1>4. CASE WaitFails
  BY <1>0, <1>4 DEF WaitFails, Waiting, RunnerExits, Completion, table
<1>5. CASE Drained
  <2>1. /\ pc = "drain" /\ pc' = "report"
        /\ next = Len(List) + 1 /\ nTasksActive = 0
        /\ UNCHANGED <<nTasksActive, success, failed, total>>
    BY <1>5 DEF Drained, Accounts, table, stats
  <2>2. Active = {} /\ InProgress = {}
    BY <2>1 DEF Active, InProgress
  <2>3. Submitted = Elements(List)
    BY <1>0, <2>1, ListAssumption DEF Submitted, Elements
  <2>4. Judged' = Judged /\ Judged = Elements(List)
    BY <2>1, <2>2, <2>3 DEF Accounts, Judged
  <2>5. total = Len(List)
    BY <1>0, <2>1 DEF Accounts, EveryTestAccounted
  <2> QED
    BY <2>1, <2>4, <2>5 DEF Completion
<1>6. CASE OutputStats
  <2>1. Judged' = Judged
    BY <1>6 DEF OutputStats, stats, Judged
  <2> QED
    BY <1>6, <2>1 DEF OutputStats, Completion, table, stats
<1>7. CASE Destroyed
  BY <1>7, SameCompletion DEF Destroyed, RunnerExits
<1>8. CASE \E p \in Child : WaitReaps(p)
  BY <1>0, <1>8 DEF WaitReaps, Waiting, Completion
<1>9. CASE \E p \in Child : WaitReapsStranger(p)
  BY <1>9 DEF WaitReapsStranger, Completion
<1>10. CASE \E p \in Child : WaitNotes(p)
  BY <1>10, SameCompletion DEF WaitNotes, runnerVars, outcome
<1> QED
  BY <1>1, <1>2, <1>3, <1>4, <1>5, <1>6, <1>7, <1>8, <1>9, <1>10
     DEF RunnerStep

LEMMA ProcessCompletion ==
  ASSUME TypeOK, Roles, Completion, NEW p \in Proc,
         ProgramStep(p) \/ Alarm(p) \/ Environment(p)
  PROVE  Completion'
<1>1. UNCHANGED runnerVars \/ pc' = "dead"
  BY ProcessShape DEF Quiet, Ending, HelperEnding, LaunchReturns, ProcessEnds,
                      RunnerEnds, ChildEnds
<1>2. CASE UNCHANGED runnerVars
  BY <1>2, SameCompletion DEF runnerVars, outcome
<1>3. CASE pc' = "dead"
  BY <1>3 DEF Completion
<1> QED
  BY <1>1, <1>2, <1>3

-----------------------------------------------------------------------------
(* The fates of the tests *)

LEMMA RunnerFates ==
  /\ TypeOK /\ Roles /\ TableMatchesChildren /\ Accounts /\ Fates /\ RunnerStep
  => Fates'
<1> SUFFICES ASSUME TypeOK, Roles, TableMatchesChildren, Accounts, Fates,
                    RunnerStep
             PROVE  Fates'
  OBVIOUS
<1>0. /\ success \in Seq(Test) /\ failed \in Seq(Test)
      /\ nTasksActive \in Nat /\ nTasksMax \in Nat
      /\ nTasksActive <= nTasksMax
      /\ vTasks \in [1..nTasksMax -> Task]
      /\ at \in [Proc -> Stage] /\ does \in [Proc -> Test \cup {NoTest}]
      /\ lres \in [Proc -> Nat]
      /\ fate \in [Test -> {"none", "ok", "bad"}]
      /\ NoTest \notin Test
  BY CapacityType, TestAssumption
     DEF TypeOK, ControlType, TableType, StatsType, ProcessType, HistoryType
<1>00. /\ NoRepeats(success) /\ NoRepeats(failed)
       /\ Elements(success) \cap Elements(failed) = {}
       /\ Judged \cap InProgress = {}
       /\ Judged = Elements(success) \cup Elements(failed)
  BY DEF Accounts, EveryTestAccounted, Judged
<1>1. CASE LoopEnds \/ CheckResult \/ Drained \/ OutputStats \/ WaitFails
           \/ Destroyed \/ \E p \in Child : WaitNotes(p)
  <2>1. UNCHANGED <<table, stats, at, does, lres, fate>>
    BY <1>1 DEF LoopEnds, CheckResult, Drained, OutputStats, WaitFails,
                Destroyed, WaitNotes, procVars, runnerVars, history
  <2>2. pc' = pc \/ pc' # "launch"
    BY <1>1 DEF LoopEnds, CheckResult, Drained, OutputStats, WaitFails,
                Destroyed, RunnerExits, WaitNotes, runnerVars
  <2>3. InProgress' = InProgress /\ Judged' = Judged /\ Active' = Active
    BY <2>1 DEF InProgress, Judged, Active, table, stats
  <2>4. \A q \in Proc : FateOf(q)' = FateOf(q)
    BY <2>1 DEF FateOf
  <2> QED
    BY <2>1, <2>2, <2>3, <2>4
       DEF Fates, VerdictFaithful, Elements, FateOf, table, stats
<1>2. CASE Submit
  <2>1. pc = "loop" /\ next <= Len(List) /\ does[Parent] = NoTest
    BY <1>2 DEF Submit, Roles
  <2>2. UNCHANGED <<table, success, failed, fate>>
    BY <1>2 DEF Submit, history
  <2>3. /\ \A q \in Pid : at'[q] = at[q] /\ lres'[q] = lres[q]
        /\ pc' = "launch" => /\ does'[Parent] = List[next]
                             /\ at'[Parent] = "before"
    BY <1>0, <1>2, ProcFacts DEF Submit, GoTo
  <2>4. fate[List[next]] = "none"
    BY <2>1, NextIsNew, <1>0 DEF Fates
  <2>5. InProgress' = InProgress /\ Judged' = Judged /\ Active' = Active
    BY <2>2 DEF InProgress, Judged, Active, table
  <2>6. \A i \in Active : /\ vTasks[i].pid \in Pid
                          /\ FateOf(vTasks[i].pid)' = FateOf(vTasks[i].pid)
    BY <2>2, <2>3 DEF TableMatchesChildren, FateOf, table
  <2>7. VerdictFaithful'
    BY <2>2 DEF Fates, VerdictFaithful
  <2>8. \A i \in Active' : fate'[vTasks'[i].test] = FateOf(vTasks[i].pid)'
    BY <2>2, <2>5, <2>6 DEF Fates, table
  <2>9. \A t \in Test : fate'[t] # "none" => t \in Judged' \cup InProgress'
    BY <1>0, <2>1, <2>2, <2>5 DEF Fates
  <2> QED
    BY <2>2, <2>3, <2>4, <2>7, <2>8, <2>9 DEF Fates, table, FateOf
<1>3. CASE SubmitReturns
  <2> DEFINE t == does[Parent]
  <2>1. pc = "launch" /\ t = List[next] /\ next <= Len(List)
    BY <1>3 DEF SubmitReturns, Roles, TypeOK, ControlType
  <2>2. t \in Test /\ t \notin Judged \cup InProgress
    BY <2>1, NextIsNew
  <2>3. lres[Parent] \in Nat
    BY <1>0, ProcFacts
  <2>4. /\ Judged' = Judged \cup {t}
        /\ Elements(success')
             = Elements(success) \cup (IF lres[Parent] = OK THEN {t} ELSE {})
        /\ Elements(failed')
             = Elements(failed) \cup (IF lres[Parent] = OK THEN {} ELSE {t})
    <3>1. IF lres[Parent] = OK
          THEN success' = Append(success, t) /\ UNCHANGED failed
          ELSE failed' = Append(failed, t) /\ UNCHANGED success
      BY <1>3 DEF SubmitReturns
    <3> HIDE DEF t
    <3> QED
      BY <1>0, <1>00, <2>2, <2>3, <3>1, Record
  <2>5. fate[t] = IF lres[Parent] = OK THEN "ok" ELSE "bad"
    BY <1>3, <2>1 DEF SubmitReturns, Fates
  <2>6. /\ UNCHANGED <<table, fate, lres>> /\ pc' = "check"
        /\ \A q \in Pid : at'[q] = at[q]
    BY <1>0, <1>3, ProcFacts DEF SubmitReturns, GoTo, history
  <2>7. InProgress' = InProgress /\ Active' = Active
    BY <2>6 DEF table, InProgress, Active
  <2>8. VerdictFaithful'
    BY <2>4, <2>5, <2>6 DEF Fates, VerdictFaithful
  <2>9. \A i \in Active' : fate'[vTasks'[i].test] = FateOf(vTasks[i].pid)'
    BY <2>6, <2>7 DEF Fates, FateOf, TableMatchesChildren, table
  <2>10. \A x \in Test : fate'[x] # "none" => x \in Judged' \cup InProgress'
    BY <2>4, <2>6, <2>7 DEF Fates
  <2> HIDE DEF t
  <2> QED
    BY <2>6, <2>8, <2>9, <2>10 DEF Fates, FateOf
<1>4. CASE ForkFails
  <2>1. \A i \in Active : vTasks'[i] = vTasks[i]
    BY <1>0, <1>4 DEF ForkFails, TaskFor, Active
  <2>2. /\ UNCHANGED <<nTasksActive, success, failed, at, does, lres, fate>>
        /\ pc' = "report"
    BY <1>4 DEF ForkFails, stats, procVars, history
  <2>3. InProgress' = InProgress /\ Judged' = Judged /\ Active' = Active
    BY <2>1, <2>2 DEF InProgress, Judged, Active
  <2> QED
    BY <2>1, <2>2, <2>3 DEF Fates, VerdictFaithful, FateOf
<1>5. CASE \E p \in Pid : Fork(p)
  <2> PICK p \in Pid : Fork(p)
    BY <1>5
  <2> DEFINE n == nTasksActive + 1
             t == List[next]
  <2>1. /\ pc = "slot" /\ pc' = "loop" /\ next <= Len(List)
        /\ does[Parent] = NoTest
        /\ UNCHANGED <<success, failed, fate>>
        /\ n \in 1..nTasksMax /\ nTasksActive' = n
    <3>1. next <= Len(List) /\ does[Parent] = NoTest
      BY DEF Fork, TypeOK, ControlType, Roles
    <3> QED
      BY <1>0, <3>1 DEF Fork, SlotIsFree, stats, history
  <2>2. t \in Test /\ t \notin Judged \cup InProgress /\ fate[t] = "none"
    BY <1>0, <2>1, NextIsNew DEF Fates
  <2>3. /\ vTasks'[n] = [pid |-> p, test |-> t, result |-> OK]
        /\ \A i \in Active : vTasks'[i] = vTasks[i]
    BY <1>0, <2>1 DEF Fork, TaskFor, Active
  <2>4. Active' = Active \cup {n} /\ n \notin Active
    BY <1>0, <2>1 DEF Active
  <2>5. InProgress' = InProgress \cup {t} /\ Judged' = Judged
    BY <2>1, <2>3, <2>4 DEF InProgress, Judged
  <2>6. /\ at[p] = "free" /\ at'[p] = "before"
        /\ \A q \in Pid : q # p => at'[q] = at[q] /\ lres'[q] = lres[q]
    BY <1>0, ProcFacts DEF Fork, GoTo
  <2>7. \A i \in Active : vTasks[i].pid \in Pid /\ vTasks[i].pid # p
    BY <2>6 DEF TableMatchesChildren
  <2>8. VerdictFaithful'
    BY <2>1 DEF Fates, VerdictFaithful
  <2>9. \A i \in Active' : fate'[vTasks'[i].test] = FateOf(vTasks[i].pid)'
    <3>1. \A i \in Active : fate'[vTasks'[i].test] = FateOf(vTasks[i].pid)'
      BY <2>1, <2>3, <2>6, <2>7 DEF Fates, FateOf
    <3>2. \A i \in {n} : fate'[vTasks'[i].test] = FateOf(vTasks[i].pid)'
      BY <2>1, <2>2, <2>3, <2>6 DEF FateOf, Ended
    <3> QED
      BY <2>4, <3>1, <3>2
  <2>10. \A x \in Test : fate'[x] # "none" => x \in Judged' \cup InProgress'
    BY <1>0, <2>1, <2>5 DEF Fates
  <2> HIDE DEF t, n
  <2> QED
    BY <2>1, <2>8, <2>9, <2>10 DEF Fates, FateOf
<1>6. CASE \E p \in Child : WaitReaps(p)
  <2> PICK p \in Child : WaitReaps(p)
    BY <1>6
  <2>1. PICK i \in SlotsOf(p) : Collect(i, ResultOf(p))
    BY DEF WaitReaps
  <2> DEFINE t == vTasks[i].test
  <2>2. /\ i \in Active /\ nTasksActive \in Active /\ vTasks[i].pid = p
        /\ Active' = Active \ {nTasksActive}
    BY <1>0, <2>1 DEF Collect, SlotsOf, Active
  <2>3. \A j \in Active' : vTasks'[j] = IF j = i THEN vTasks[nTasksActive]
                                        ELSE vTasks[j]
    BY <1>0, <2>1, <2>2 DEF Collect, Active
  <2>4. t \in Test /\ t \in InProgress /\ t \notin Judged
    <3>1. t \in Test /\ t \in InProgress
      BY <2>2 DEF InProgress, TypeOK, TableType
    <3> HIDE DEF t
    <3> QED
      BY <1>00, <3>1
  <2>5. ResultOf(p) \in Nat
    BY <1>0, ProcFacts DEF ResultOf, KILLED
  <2>6. /\ Judged' = Judged \cup {t}
        /\ Elements(success')
             = Elements(success) \cup (IF ResultOf(p) = OK THEN {t} ELSE {})
        /\ Elements(failed')
             = Elements(failed) \cup (IF ResultOf(p) = OK THEN {} ELSE {t})
    <3>1. IF ResultOf(p) = OK
          THEN success' = Append(success, t) /\ UNCHANGED failed
          ELSE failed' = Append(failed, t) /\ UNCHANGED success
      BY <2>1 DEF Collect
    <3> HIDE DEF t
    <3> QED
      BY <1>0, <1>00, <2>4, <2>5, <3>1, Record
  <2>7. fate[t] = IF ResultOf(p) = OK THEN "ok" ELSE "bad"
    <3>1. fate[t] = FateOf(p) /\ at[p] \in Ended
      BY <2>2 DEF Fates, WaitReaps
    <3> QED
      BY <3>1 DEF FateOf, ResultOf, Ended, OK, KILLED
  <2>8. /\ UNCHANGED <<pc, fate, lres>> /\ pc # "launch"
        /\ \A q \in Pid : q # p => at'[q] = at[q]
    BY <1>0, ProcFacts DEF WaitReaps, Waiting, GoTo, history
  <2>9. does'[Parent] = does[Parent]
    BY <1>0, ProcFacts DEF WaitReaps
  <2>10. VerdictFaithful'
    BY <2>6, <2>7, <2>8 DEF Fates, VerdictFaithful
  <2>11. \A j \in Active' : fate'[vTasks'[j].test] = FateOf(vTasks[j].pid)'
    <3> SUFFICES ASSUME NEW j \in Active'
                 PROVE  fate'[vTasks'[j].test] = FateOf(vTasks[j].pid)'
      OBVIOUS
    <3>1. PICK k \in Active : vTasks'[j] = vTasks[k] /\ k # i
      BY <2>2, <2>3
    <3>2. vTasks[k].pid \in Pid /\ vTasks[k].pid # p
      BY <2>2, <3>1 DEF TableMatchesChildren
    <3>3. at'[vTasks[k].pid] = at[vTasks[k].pid]
      BY <2>8, <3>2
    <3> QED
      BY <2>8, <3>1, <3>3 DEF Fates, FateOf
  <2>12. InProgress \subseteq InProgress' \cup {t}
    <3> SUFFICES ASSUME NEW x \in InProgress, x # t PROVE x \in InProgress'
      OBVIOUS
    <3>1. PICK j \in Active : vTasks[j].test = x
      BY DEF InProgress
    <3>2. CASE j = nTasksActive
      BY <2>2, <2>3, <3>1, <3>2 DEF InProgress
    <3>3. CASE j # nTasksActive
      BY <2>2, <2>3, <3>1, <3>3 DEF InProgress
    <3> QED
      BY <3>2, <3>3
  <2>13. \A x \in Test : fate'[x] # "none" =>
           x \in Judged' \cup InProgress' \cup {does'[Parent]}
    BY <2>6, <2>8, <2>9, <2>12 DEF Fates
  <2> HIDE DEF t
  <2> QED
    BY <2>8, <2>10, <2>11, <2>13 DEF Fates, FateOf
<1>7. CASE \E p \in Child : WaitReapsStranger(p)
  <2> PICK p \in Child : WaitReapsStranger(p)
    BY <1>7
  <2>1. p \notin Pid /\ p # Parent
    BY OneSlot DEF WaitReapsStranger
  <2>2. /\ UNCHANGED <<table, success, failed, fate, lres, does>>
        /\ pc' = "dead"
        /\ \A q \in Pid : at'[q] = at[q]
    BY <1>0, <2>1, ProcFacts DEF WaitReapsStranger, GoTo, stats, history
  <2>3. InProgress' = InProgress /\ Judged' = Judged /\ Active' = Active
    BY <2>2 DEF InProgress, Judged, Active, table
  <2>4. \A i \in Active : FateOf(vTasks[i].pid)' = FateOf(vTasks[i].pid)
    BY <2>2 DEF TableMatchesChildren, FateOf, table
  <2> QED
    BY <2>2, <2>3, <2>4 DEF Fates, VerdictFaithful, FateOf, table
<1> QED
  BY <1>1, <1>2, <1>3, <1>4, <1>5, <1>6, <1>7 DEF RunnerStep

LEMMA InitFates == Init => Fates
<1> SUFFICES ASSUME Init PROVE Fates
  OBVIOUS
<1>1. Elements(success) = {} /\ Elements(failed) = {} /\ Active = {}
  BY DEF Init, Elements, Active
<1> QED
  BY <1>1 DEF Init, Fates, VerdictFaithful

LEMMA ProcessFates ==
  ASSUME TypeOK, Roles, TableMatchesChildren, Accounts, Fates, NEW p \in Proc,
         ProgramStep(p) \/ Alarm(p) \/ Environment(p)
  PROVE  Fates'
<1>0. /\ at \in [Proc -> Stage] /\ does \in [Proc -> Test \cup {NoTest}]
      /\ lres \in [Proc -> Nat]
      /\ fate \in [Test -> {"none", "ok", "bad"}]
      /\ Judged \cap InProgress = {}
      /\ Judged = Elements(success) \cup Elements(failed)
  BY DEF TypeOK, ProcessType, HistoryType, Accounts, EveryTestAccounted, Judged
<1>1. ASSUME UNCHANGED <<pc, table, success, failed, does, fate>>,
             \A q \in Pid : FateOf(q)' = FateOf(q),
             pc = "launch" =>
               /\ at'[Parent] = "returned" <=> at[Parent] = "returned"
               /\ at[Parent] = "returned" => lres'[Parent] = lres[Parent]
      PROVE  Fates'
  <2>1. InProgress' = InProgress /\ Judged' = Judged /\ Active' = Active
    BY <1>1 DEF InProgress, Judged, Active, table
  <2>2. \A i \in Active : /\ vTasks[i].pid \in Pid
                          /\ FateOf(vTasks[i].pid)' = FateOf(vTasks[i].pid)
    <3>1. \A i \in Active : vTasks[i].pid \in Pid /\ vTasks'[i] = vTasks[i]
      BY <1>1 DEF TableMatchesChildren, table
    <3> QED
      BY <1>1, <3>1 DEF FateOf
  <2>3. VerdictFaithful'
    BY <1>1 DEF Fates, VerdictFaithful
  <2>4. \A i \in Active' : fate'[vTasks'[i].test] = FateOf(vTasks[i].pid)'
    BY <1>1, <2>1, <2>2 DEF Fates, table
  <2>5. \A t \in Test : fate'[t] # "none" =>
          t \in Judged' \cup InProgress' \cup {does'[Parent]}
    BY <1>1, <2>1 DEF Fates
  <2>6. pc' = "launch" =>
          fate'[does'[Parent]] = IF at'[Parent] # "returned" THEN "none"
                                 ELSE IF lres'[Parent] = OK THEN "ok" ELSE "bad"
    BY <1>1 DEF Fates
  <2> QED
    BY <2>3, <2>4, <2>5, <2>6 DEF Fates
<1>2. CASE Quiet(p)
  <2>1. /\ UNCHANGED <<pc, table, success, failed, does, fate>>
        /\ \A q \in Proc : \/ at'[q] = at[q] /\ lres'[q] = lres[q]
                           \/ /\ at[q] \in Program
                              /\ at'[q] \in Program \cup {"stuck"}
    BY <1>0, <1>2 DEF Quiet, runnerVars, stats
  <2>2. \A q \in Pid : FateOf(q)' = FateOf(q)
    BY <2>1, ProcFacts, StageFacts DEF FateOf
  <2>3. /\ at'[Parent] = "returned" <=> at[Parent] = "returned"
        /\ at[Parent] = "returned" => lres'[Parent] = lres[Parent]
    BY <2>1, ProcFacts, StageFacts
  <2> QED
    BY <1>1, <2>1, <2>2, <2>3
<1>3. CASE HelperEnding(p)
  <2>1. /\ UNCHANGED <<pc, table, success, failed, does, fate, lres>>
        /\ \A q \in Pid \cup {Parent} : at'[q] = at[q]
    BY <1>0, <1>3, ProcFacts DEF HelperEnding, runnerVars, stats
  <2>2. \A q \in Pid : FateOf(q)' = FateOf(q)
    BY <2>1 DEF FateOf
  <2> QED
    BY <1>1, <2>1, <2>2
<1>4. CASE Ending(p) /\ p = Parent
  <2>1. /\ UNCHANGED <<table, success, failed, does, fate, lres>>
        /\ pc' = "dead"
        /\ \A q \in Pid : at'[q] = at[q]
    BY <1>0, <1>4, ProcFacts
       DEF Ending, ProcessEnds, RunnerEnds, stats, history
  <2>2. InProgress' = InProgress /\ Judged' = Judged /\ Active' = Active
    BY <2>1 DEF InProgress, Judged, Active, table
  <2>3. \A i \in Active : FateOf(vTasks[i].pid)' = FateOf(vTasks[i].pid)
    BY <2>1 DEF TableMatchesChildren, FateOf, table
  <2> QED
    BY <2>1, <2>2, <2>3 DEF Fates, VerdictFaithful, FateOf, table
<1>5. CASE Ending(p) /\ p # Parent
  <2>1. p \in Pid /\ at[p] \in TestStage
    BY <1>5, ProcFacts DEF Ending
  <2>2. PICK i \in Active : vTasks[i].pid = p
    BY <2>1, StageFacts DEF TableMatchesChildren
  <2> DEFINE t == does[p]
  <2>3. t \in Test /\ t = vTasks[i].test /\ t \in InProgress
    BY <2>1, <2>2, ProcFacts
       DEF TypeOK, ProcessType, TableMatchesChildren, InProgress
  <2>4. PICK how \in Ended, code \in Nat : ChildEnds(p, how, code)
    BY <1>5 DEF Ending, ProcessEnds
  <2> DEFINE f == IF how = "exited" /\ code % 256 = OK THEN "ok" ELSE "bad"
  <2>5. /\ UNCHANGED <<pc, next, table, success, failed, does>>
        /\ at'[p] = how /\ lres'[p] = code % 256
        /\ \A q \in Proc : q # p => at'[q] = at[q] /\ lres'[q] = lres[q]
        /\ fate'[t] = f
        /\ \A x \in Test : x # t => fate'[x] = fate[x]
    BY <1>0, <2>1, <2>3, <2>4, ProcFacts DEF ChildEnds, runnerVars, stats
  <2>6. FateOf(p)' = f
    BY <2>5 DEF FateOf
  <2>7. InProgress' = InProgress /\ Judged' = Judged /\ Active' = Active
    BY <2>5 DEF InProgress, Judged, Active, table
  <2>8. VerdictFaithful'
    <3>1. t \notin Elements(success) /\ t \notin Elements(failed)
      BY <1>0, <2>3
    <3>2. \A x \in Elements(success) \cup Elements(failed) : x \in Test
      BY DEF TypeOK, StatsType, Elements
    <3> HIDE DEF t, f
    <3> QED
      BY <2>5, <3>1, <3>2 DEF Fates, VerdictFaithful
  <2>9. \A j \in Active' : fate'[vTasks'[j].test] = FateOf(vTasks[j].pid)'
    <3> SUFFICES ASSUME NEW j \in Active
                 PROVE  fate'[vTasks'[j].test] = FateOf(vTasks[j].pid)'
      BY <2>7
    <3>1. vTasks'[j] = vTasks[j] /\ vTasks[j].test \in Test
      BY <2>5 DEF table, TypeOK, TableType
    <3>2. CASE j = i
      BY <2>2, <2>3, <2>5, <2>6, <3>1, <3>2 DEF FateOf
    <3>3. CASE j # i
      <4>1. vTasks[j].test # t
        BY <2>3, <3>3 DEF Accounts
      <4>2. vTasks[j].pid # p /\ vTasks[j].pid \in Proc
        BY <2>2, <3>3, ProcFacts DEF TableMatchesChildren
      <4> HIDE DEF t, f
      <4> QED
        BY <2>5, <3>1, <4>1, <4>2 DEF Fates, FateOf
    <3> QED
      BY <3>2, <3>3
  <2>10. pc' = "launch" =>
          fate'[does'[Parent]] = IF at'[Parent] # "returned" THEN "none"
                                 ELSE IF lres'[Parent] = OK THEN "ok" ELSE "bad"
    <3> SUFFICES ASSUME pc = "launch"
                 PROVE  /\ fate'[does[Parent]] = fate[does[Parent]]
                        /\ at'[Parent] = at[Parent]
                        /\ lres'[Parent] = lres[Parent]
      BY <2>5 DEF Fates
    <3>1. does[Parent] = List[next] /\ next <= Len(List)
      BY DEF Roles, TypeOK, ControlType
    <3>2. does[Parent] \in Test /\ does[Parent] # t
      BY <2>3, <3>1, NextIsNew
    <3> HIDE DEF t, f
    <3> QED
      BY <1>5, <2>5, <3>2, ProcFacts
  <2>11. \A x \in Test : fate'[x] # "none" =>
           x \in Judged' \cup InProgress' \cup {does'[Parent]}
    <3> HIDE DEF t, f
    <3> QED
      BY <2>3, <2>5, <2>7 DEF Fates
  <2> HIDE DEF t, f
  <2> QED
    BY <2>8, <2>9, <2>10, <2>11 DEF Fates
<1>6. CASE LaunchReturns
  <2> DEFINE t == does[Parent]
             f == IF lres[Parent] = OK THEN "ok" ELSE "bad"
  <2>1. pc = "launch"
    BY <1>6, StageFacts DEF LaunchReturns, Runs, Roles, Program
  <2>2. t \in Test /\ t \notin Judged \cup InProgress
    BY <2>1, NextIsNew DEF Roles, TypeOK, ControlType
  <2>3. /\ UNCHANGED <<pc, table, success, failed, does, lres>>
        /\ at'[Parent] = "returned"
        /\ \A q \in Pid : at'[q] = at[q]
        /\ fate'[t] = f
        /\ \A x \in Test : x # t => fate'[x] = fate[x]
    BY <1>0, <1>6, <2>2, ProcFacts
       DEF LaunchReturns, GoTo, runnerVars, stats
  <2>4. InProgress' = InProgress /\ Judged' = Judged /\ Active' = Active
    BY <2>3 DEF InProgress, Judged, Active, table
  <2>5. VerdictFaithful'
    <3>1. \A x \in Elements(success) \cup Elements(failed) : x \in Test /\ x # t
      BY <1>0, <2>2 DEF TypeOK, StatsType, Elements
    <3> HIDE DEF t, f
    <3> QED
      BY <2>3, <3>1 DEF Fates, VerdictFaithful
  <2>6. \A j \in Active' : fate'[vTasks'[j].test] = FateOf(vTasks[j].pid)'
    <3>1. \A j \in Active : /\ vTasks'[j] = vTasks[j]
                            /\ vTasks[j].pid \in Pid
                            /\ vTasks[j].test \in Test
                            /\ vTasks[j].test # t
      BY <2>2, <2>3
         DEF table, TypeOK, TableType, TableMatchesChildren, InProgress
    <3> HIDE DEF t, f
    <3> QED
      BY <2>3, <2>4, <3>1 DEF Fates, FateOf
  <2> QED
    BY <2>3, <2>4, <2>5, <2>6 DEF Fates, FateOf
<1> QED
  BY <1>2, <1>3, <1>4, <1>5, <1>6, ProcessShape

-----------------------------------------------------------------------------
(* The alarm timers *)

\* Timers, of one process.
TimerOf(p) ==
  /\ timer[p] => \/ at[p] \in {"install", "body", "revert", "disarm"}
                 \/ lres[p] # OK
  /\ at[p] \in {"before", "arm"} => lres[p] = OK
  /\ ~Limited =>
       ~timer[p] /\ at[p] \notin {"arm", "install", "revert", "disarm"}

LEMMA TimersOf ==
  Timers <=> /\ \A p \in Proc : TimerOf(p)
             /\ pc \in {"loop", "drain"} => ~timer[Parent]
             /\ pc = "check" => res = lres[Parent]
  BY DEF Timers, TimerConfined, TimerOf

LEMMA SameTimerOf ==
  ASSUME NEW q, TimerOf(q), UNCHANGED <<cfg, timer[q], at[q], lres[q]>>
  PROVE  TimerOf(q)'
  BY DEF TimerOf, Limited

LEMMA InitTimers == Init => Timers
<1> SUFFICES ASSUME Init PROVE Timers
  OBVIOUS
<1>1. \A p \in Proc : /\ at[p] \in {"helper", "free"} /\ ~timer[p]
                     /\ lres[p] = OK
  BY DEF Init
<1>2. pc = "loop"
  BY DEF Init
<1> QED
  BY <1>1, <1>2, ProcFacts DEF Timers, TimerConfined

LEMMA RunnerTimers == TypeOK /\ Roles /\ Timers /\ RunnerStep => Timers'
<1> SUFFICES ASSUME TypeOK, Roles, Timers, RunnerStep PROVE Timers'
  OBVIOUS
<1>0. /\ at \in [Proc -> Stage] /\ lres \in [Proc -> Nat]
      /\ timer \in [Proc -> BOOLEAN]
  BY DEF TypeOK, ProcessType
<1>01. /\ \A p \in Proc : TimerOf(p)
       /\ pc \in {"loop", "drain"} => ~timer[Parent]
       /\ pc = "check" => res = lres[Parent]
  BY TimersOf
<1> SUFFICES /\ \A q \in Proc : TimerOf(q)'
             /\ pc' \in {"loop", "drain"} => ~timer'[Parent]
             /\ pc' = "check" => res' = lres'[Parent]
  <2>1. Timers' <=> /\ \A q \in Proc : TimerOf(q)'
                    /\ pc' \in {"loop", "drain"} => ~timer'[Parent]
                    /\ pc' = "check" => res' = lres'[Parent]
    BY DEF Timers, TimerConfined, TimerOf
  <2> QED
    BY <2>1
<1> USE ProcFacts DEF GoTo
<1>1. CASE LoopEnds \/ Drained \/ OutputStats \/ ForkFails
           \/ \E p \in Child : WaitNotes(p)
  <2>1. UNCHANGED <<cfg, at, lres, timer>>
    BY <1>1 DEF LoopEnds, Drained, OutputStats, ForkFails, WaitNotes, procVars,
                alarm, runnerVars
  <2>2. /\ pc' \in {"loop", "drain"} => pc \in {"loop", "drain"}
        /\ pc' = "check" => pc = "check" /\ UNCHANGED res
    BY <1>1 DEF LoopEnds, Drained, OutputStats, ForkFails, WaitNotes, runnerVars
  <2> QED
    BY <1>01, <2>1, <2>2, SameTimerOf
<1>2. CASE CheckResult
  <2>1. UNCHANGED <<cfg, at, lres, timer>> /\ pc = "check"
    BY <1>2 DEF CheckResult, procVars, alarm
  <2>2. pc' = "loop" => ~timer[Parent]
    BY <1>01, <1>2, <2>1, StageFacts
       DEF CheckResult, Roles, TimerOf, TestStage, Program
  <2> QED
    BY <1>01, <1>2, <2>1, <2>2, SameTimerOf DEF CheckResult
<1>3. CASE Submit
  <2>1. /\ pc = "loop" /\ pc' \in {"slot", "launch"} /\ ~timer[Parent]
        /\ UNCHANGED <<cfg, timer>>
        /\ \A q \in Proc : \/ at'[q] = at[q] /\ lres'[q] = lres[q]
                           \/ q = Parent /\ at'[q] = "before" /\ lres'[q] = OK
    BY <1>0, <1>01, <1>3 DEF Submit, alarm
  <2> QED
    BY <1>01, <2>1, SameTimerOf DEF TimerOf, Limited
<1>4. CASE SubmitReturns
  <2>1. /\ pc' = "check" /\ res' = lres[Parent] /\ at[Parent] = "returned"
        /\ UNCHANGED <<cfg, timer, lres>>
        /\ \A q \in Proc : at'[q] = IF q = Parent THEN "free" ELSE at[q]
    BY <1>0, <1>4 DEF SubmitReturns, alarm
  <2> QED
    BY <1>01, <2>1, SameTimerOf DEF TimerOf, Limited
<1>5. CASE WaitFails \/ Destroyed
  <2>1. /\ pc' \in {"report", "exited"}
        /\ UNCHANGED <<cfg, at, lres>>
        /\ \A q \in Proc : timer'[q] = timer[q] \/ ~timer'[q]
    BY <1>0, <1>5 DEF WaitFails, Destroyed, RunnerExits
  <2> QED
    BY <1>01, <2>1 DEF TimerOf, Limited
<1>6. CASE \E p \in Pid : Fork(p)
  <2> PICK p \in Pid : Fork(p)
    BY <1>6
  <2>1. /\ at[p] = "free" /\ UNCHANGED <<cfg, timer>> /\ pc' = "loop"
        /\ \A q \in Proc : at'[q] = IF q = p THEN "before" ELSE at[q]
        /\ \A q \in Proc : lres'[q] = IF q = p THEN OK ELSE lres[q]
    BY <1>0 DEF Fork
  <2>2. ~timer[p]
    BY <2>1, StageFacts DEF Roles, Child
  <2>3. ~timer[Parent]
    BY ForkCapacity DEF Fork, Roles, TypeOK, ControlType
  <2> QED
    BY <1>01, <2>1, <2>2, <2>3, SameTimerOf DEF TimerOf, Limited
<1>7. CASE \E p \in Child : WaitReaps(p) \/ WaitReapsStranger(p)
  <2> PICK p \in Child : WaitReaps(p) \/ WaitReapsStranger(p)
    BY <1>7
  <2>1. /\ at[p] \in Ended /\ UNCHANGED <<cfg, timer, lres>>
        /\ \A q \in Proc : at'[q] = IF q = p THEN "free" ELSE at[q]
        /\ pc' = pc \/ pc' = "dead"
        /\ pc # "check"
    BY <1>0 DEF WaitReaps, WaitReapsStranger, Waiting, alarm
  <2>2. ~timer[p]
    BY <2>1, StageFacts DEF Roles
  <2> QED
    BY <1>01, <2>1, <2>2, SameTimerOf DEF TimerOf, Limited
<1> QED
  BY <1>1, <1>2, <1>3, <1>4, <1>5, <1>6, <1>7 DEF RunnerStep

LEMMA ProcessTimers ==
  ASSUME TypeOK, Roles, Timers, NEW p \in Proc,
         ProgramStep(p) \/ Alarm(p) \/ Environment(p)
  PROVE  Timers'
<1>0. /\ at \in [Proc -> Stage] /\ lres \in [Proc -> Nat]
      /\ timer \in [Proc -> BOOLEAN]
  BY DEF TypeOK, ProcessType
<1>01. /\ \A q \in Proc : TimerOf(q)
       /\ pc \in {"loop", "drain"} => ~timer[Parent]
       /\ pc = "check" => res = lres[Parent]
  BY TimersOf
<1>1. /\ UNCHANGED cfg
      /\ pc' = "dead" \/ UNCHANGED <<pc, res>>
      /\ \A q \in Proc : q # p =>
           UNCHANGED <<timer[q], at[q], lres[q]>>
  <2>1. CASE Quiet(p)
    BY <1>0, <2>1 DEF Quiet, runnerVars
  <2>2. CASE Ending(p)
    <3> PICK how \in Ended, code \in Nat : ProcessEnds(p, how, code)
      BY <2>2 DEF Ending
    <3>1. CASE p = Parent
      BY <1>0, <3>1 DEF ProcessEnds, RunnerEnds
    <3>2. CASE p # Parent
      BY <1>0, <3>2 DEF ProcessEnds, ChildEnds, runnerVars
    <3> QED
      BY <3>1, <3>2
  <2>3. CASE HelperEnding(p)
    BY <1>0, <2>3 DEF HelperEnding, runnerVars
  <2>4. CASE p = Parent /\ LaunchReturns
    BY <1>0, <2>4 DEF LaunchReturns, runnerVars, GoTo, alarm
  <2> QED
    BY <2>1, <2>2, <2>3, <2>4, ProcessShape
<1>2. TimerOf(p)'
  <2> USE DEF Runs, GoTo, TimerOf, OK, UNKNOWN_ERR
  <2>0. TimerOf(p) /\ Limited' = Limited
    BY <1>01, <1>1 DEF Limited
  <2>1. CASE Before(p) \/ SetTimer(p) \/ SetTimerFails(p)
    BY <1>0, <2>0, <2>1 DEF Before, SetTimer, SetTimerFails, alarm
  <2>2. CASE InstallHandler(p) \/ BodyReturn(p) \/ RevertHandler(p)
    BY <1>0, <2>0, <2>2 DEF InstallHandler, BodyReturn, RevertHandler, alarm
  <2>3. CASE KillTimer(p) \/ KillTimerFails(p) \/ After(p) \/ AlarmHangs(p)
    BY <1>0, <2>0, <2>3 DEF KillTimer, KillTimerFails, After, AlarmHangs, alarm
  <2>4. CASE Halt(p) \/ Resume(p) \/ HelperEnds(p)
    <3>1. /\ UNCHANGED <<timer, lres>>
          /\ at'[p] = at[p] \/ (at[p] = "helper" /\ at'[p] = "exited")
      BY <1>0, <2>4 DEF Halt, Resume, HelperEnds, alarm
    <3> QED
      BY <2>0, <3>1
  <2>5. CASE LaunchReturns /\ p = Parent
    BY <1>0, <2>0, <2>5 DEF LaunchReturns, alarm
  <2>6. CASE ChildReturns(p) \/ UserExits(p) \/ Crash(p) \/ Alarm(p)
    <3>1. \E how \in Ended, code \in Int : ProcessEnds(p, how, code)
      BY <1>0, <2>6, BoundAssumption
         DEF ChildReturns, UserExits, Crash, Alarm, ProcessEnds, Ended, OK,
             TIMED_OUT
    <3>2. ~timer'[p] /\ at'[p] \in Ended \cup {"free"}
      BY <1>0, <3>1 DEF ProcessEnds, ChildEnds, RunnerEnds
    <3> QED
      BY <3>2 DEF Ended
  <2> QED
    BY <2>1, <2>2, <2>3, <2>4, <2>5, <2>6 DEF ProgramStep, Environment
<1>3. \A q \in Proc : TimerOf(q)'
  BY <1>01, <1>1, <1>2, SameTimerOf
<1>4. pc' \in {"loop", "drain"} => ~timer'[Parent]
  <2> SUFFICES ASSUME pc' \in {"loop", "drain"} PROVE ~timer'[Parent]
    OBVIOUS
  <2>1. pc \in {"loop", "drain"} /\ ~timer[Parent] /\ at[Parent] = "free"
    BY <1>01, <1>1 DEF Roles
  <2>2. CASE p # Parent
    BY <1>1, <2>1, <2>2, ProcFacts
  <2>3. CASE p = Parent
    BY <1>1, <2>1, <2>3, ProcessShape, StageFacts, ProcFacts
       DEF Quiet, Ending, HelperEnding, LaunchReturns, ProcessEnds, RunnerEnds,
           Runs
  <2> QED
    BY <2>2, <2>3
<1>5. pc' = "check" => res' = lres'[Parent]
  <2> SUFFICES ASSUME pc' = "check" PROVE res' = lres'[Parent]
    OBVIOUS
  <2>1. pc = "check" /\ res' = lres[Parent] /\ at[Parent] = "free"
    BY <1>01, <1>1 DEF Roles
  <2>2. lres'[Parent] = lres[Parent]
    <3>1. CASE p # Parent
      BY <1>1, <3>1, ProcFacts
    <3>2. CASE p = Parent
      BY <1>1, <2>1, <3>2, ProcessShape, StageFacts, ProcFacts
         DEF Quiet, Ending, HelperEnding, LaunchReturns, ProcessEnds,
             RunnerEnds, Runs
    <3> QED
      BY <3>1, <3>2
  <2> QED
    BY <2>1, <2>2
<1> QED
  BY <1>3, <1>4, <1>5 DEF Timers, TimerConfined, TimerOf

-----------------------------------------------------------------------------
(* The end of the runner *)

LEMMA SurvivalStep ==
  /\ TypeOK /\ Roles /\ TableMatchesChildren /\ RunnerSurvives
  /\ RunnerStep \/ \E p \in Proc : ProgramStep(p) \/ Alarm(p) \/ Environment(p)
  => RunnerSurvives'
<1> USE ProcFacts, StageFacts
<1>1. ASSUME TypeOK, Roles, TableMatchesChildren, RunnerSurvives, RunnerStep
      PROVE  RunnerSurvives'
  <2>1. CASE \E p \in Child : WaitReapsStranger(p)
    <3> PICK p \in Child : WaitReapsStranger(p)
      BY <2>1
    <3>1. p \in Helper /\ at[p] # "free"
      BY <1>1, OneSlot DEF WaitReapsStranger
    <3>2. cfg' = cfg /\ p \in cfg.helpers
      BY <1>1, <3>1 DEF WaitReapsStranger, Roles
    <3> QED
      BY <3>2 DEF RunnerSurvives
  <2>2. CASE ~ \E p \in Child : WaitReapsStranger(p)
    <3>1. cfg' = cfg /\ (pc' = "dead" => pc = "dead")
      BY <1>1, <2>2
         DEF RunnerStep, LoopEnds, Submit, ForkFails, SubmitReturns,
             CheckResult, WaitFails, RunnerExits, Drained, OutputStats,
             Destroyed, Fork, WaitReaps, WaitNotes, runnerVars
    <3> QED
      BY <1>1, <3>1 DEF RunnerSurvives
  <2> QED
    BY <2>1, <2>2
<1>2. ASSUME TypeOK, Roles, TableMatchesChildren, RunnerSurvives,
             NEW p \in Proc, ProgramStep(p) \/ Alarm(p) \/ Environment(p)
      PROVE  RunnerSurvives'
  <2>1. CASE Ending(p) /\ p = Parent
    <3>1. ~cfg.fork
      BY <1>2, <2>1 DEF Ending, Roles
    <3>2. cfg' = cfg
      BY <2>1 DEF Ending, ProcessEnds, RunnerEnds
    <3> QED
      BY <3>1, <3>2 DEF RunnerSurvives
  <2>2. CASE ~(Ending(p) /\ p = Parent)
    <3>1. UNCHANGED runnerVars
      BY <1>2, <2>2, ProcessShape
         DEF Quiet, Ending, HelperEnding, LaunchReturns, ProcessEnds, ChildEnds
    <3> QED
      BY <1>2, <3>1 DEF RunnerSurvives, runnerVars
  <2> QED
    BY <2>1, <2>2
<1> QED
  BY <1>1, <1>2

-----------------------------------------------------------------------------
(* The theorems *)

\* The inductive invariant: no part of it is inductive without those above it.
Safe ==
  /\ TypeOK /\ Roles /\ TableMatchesChildren /\ Accounts
  /\ Completion /\ Fates /\ Timers /\ RunnerSurvives

LEMMA InitSafe == Init => Safe
<1>1. Init => TableMatchesChildren
  <2>1. Init => Active = {} /\ \A p \in Proc : at[p] \in {"helper", "free"}
    BY DEF Init, Active
  <2> QED
    BY <2>1, ProcFacts, InitRoles DEF Roles, TableMatchesChildren
<1>2. Init => Completion
  BY DEF Init, Completion
<1>3. Init => RunnerSurvives
  BY DEF Init, RunnerSurvives
<1> QED
  BY <1>1, <1>2, <1>3, InitTyped, InitRoles, InitAccounts, InitFates,
     InitTimers DEF Safe

LEMMA StutterSafe == Safe /\ UNCHANGED vars => Safe'
<1> SUFFICES ASSUME Safe, UNCHANGED vars PROVE Safe'
  OBVIOUS
<1>0. UNCHANGED <<runnerVars, cfg, pc, next, res, table, vTasks, nTasksActive,
                  stats, success, failed, total, report, outcome, procVars, at,
                  does, lres, timer, history, fate, bounds>>
  BY DEF vars, runnerVars, table, stats, outcome, procVars, alarm, history
<1>1. TypeOK'
  BY <1>0, SameRunner, SameProcesses, SameHistory DEF Safe, TypeOK
<1>2. Roles'
  BY <1>0 DEF Safe, Roles
<1>3. TableMatchesChildren'
  BY <1>0, SameTableMatches DEF Safe
<1>4. Accounts' /\ Completion'
  BY <1>0, SameAccounts, SameCompletion DEF Safe
<1>5. Fates'
  <2>1. InProgress' = InProgress /\ Judged' = Judged /\ Active' = Active
    BY <1>0 DEF InProgress, Judged, Active
  <2>2. \A q \in Proc : FateOf(q)' = FateOf(q)
    BY <1>0 DEF FateOf
  <2> QED
    BY <1>0, <2>1, <2>2 DEF Safe, Fates, VerdictFaithful, FateOf
<1>6. Timers'
  BY <1>0 DEF Safe, Timers, TimerConfined, Limited
<1>7. RunnerSurvives'
  BY <1>0 DEF Safe, RunnerSurvives
<1> QED
  BY <1>1, <1>2, <1>3, <1>4, <1>5, <1>6, <1>7 DEF Safe

LEMMA NextSafe == Safe /\ [Next]_vars => Safe'
<1> SUFFICES ASSUME Safe, [Next]_vars PROVE Safe'
  OBVIOUS
<1> USE DEF Safe
<1>1. CASE RunnerStep
  BY <1>1, RunnerStepTyped, RunnerRoles, RunnerTable, RunnerAccounts,
     RunnerCompletion, RunnerFates, RunnerTimers, SurvivalStep
<1>2. ASSUME NEW p \in Proc, ProgramStep(p) \/ Alarm(p) \/ Environment(p)
      PROVE  Safe'
  BY <1>2, ProgramStepTyped, EnvironmentTyped, ProcessRoles, ProcessTable,
     ProcessAccounts, ProcessCompletion, ProcessFates, ProcessTimers,
     SurvivalStep
<1>3. CASE UNCHANGED vars
  BY <1>3, StutterSafe
<1> QED
  BY <1>1, <1>2, <1>3 DEF Next, Gone

\* The inductive invariant of the executor holds in every state of every run.
THEOREM Invariance == Spec => []Safe
  BY InitSafe, NextSafe, PTL DEF Spec

\* The active descriptors are exactly the test processes not yet waited for,
\* each with its test: whatever swaps and reuses wait_for_child(), submit() and
\* the kernel go through, a result reaches the test that earned it.
THEOREM TableAlwaysMatches == Spec => []TableMatchesChildren
<1>1. Safe => TableMatchesChildren
  BY DEF Safe
<1> QED
  BY <1>1, Invariance, PTL

\* A test is in the statistics of succeeded tests only if its process ended
\* with OK, in those of failed tests only if it did not.
THEOREM VerdictsAreFaithful == Spec => []VerdictFaithful
<1>1. Safe => VerdictFaithful
  BY DEF Safe, Fates
<1> QED
  BY <1>1, Invariance, PTL

\* No launched test is lost, judged twice, or both judged and in progress.
THEOREM AllTestsAccounted == Spec => []EveryTestAccounted
<1>1. Safe => EveryTestAccounted
  BY DEF Safe, Accounts
<1> QED
  BY <1>1, Invariance, PTL

\* Statistics printed without an error cover the whole list, and no process of
\* a test is left behind.
THEOREM ReportIsComplete == Spec => []CompleteReport
<1>1. Safe => CompleteReport
  <2> SUFFICES ASSUME Safe, pc \in {"dtor", "exited"}, res = OK
               PROVE  /\ report[1].total = Len(List)
                      /\ Elements(report[1].success)
                           \cup Elements(report[1].failed) = Elements(List)
                      /\ \A p \in Pid : at[p] = "free"
    BY DEF CompleteReport
  <2>1. /\ nTasksActive = 0 /\ Judged = Elements(List) /\ total = Len(List)
        /\ report[1] = [total |-> total, success |-> success, failed |-> failed]
    BY DEF Safe, Completion
  <2>2. Active = {}
    BY <2>1 DEF Active
  <2> QED
    BY <2>1, <2>2 DEF Safe, Judged, TableMatchesChildren
<1> QED
  BY <1>1, Invariance, PTL

\* No timer of a unit test is armed outside of its body, unless kill_timeout()
\* failed, and none is ever left for the next test or the end of the runner.
THEOREM TimersStayConfined == Spec => []TimerConfined
<1>1. Safe => TimerConfined
  BY DEF Safe, Timers
<1> QED
  BY <1>1, Invariance, PTL

\* With fork, and without foreign children, no test takes the runner down.
THEOREM RunnerAlwaysSurvives == Spec => []RunnerSurvives
<1>1. Safe => RunnerSurvives
  BY DEF Safe
<1> QED
  BY <1>1, Invariance, PTL

\* A set of processes that the active descriptors name is at most as large as
\* the table.
LEMMA TableBounds ==
  ASSUME TypeOK, NEW S, S \subseteq {vTasks[i].pid : i \in Active}
  PROVE  IsFiniteSet(S) /\ Cardinality(S) <= nTasksMax
<1>1. nTasksActive \in 0..nTasksMax /\ nTasksMax \in Nat
  BY CapacityType DEF TypeOK, ControlType, TableType
<1>2. IsFiniteSet(Active) /\ Cardinality(Active) = nTasksActive
  BY <1>1, FS_Interval DEF Active
<1> DEFINE f == [i \in Active |-> vTasks[i].pid]
           R == {vTasks[i].pid : i \in Active}
<1>3. f \in Surjection(Active, R)
  BY DEF Surjection
<1>4. IsFiniteSet(R) /\ Cardinality(R) <= Cardinality(Active)
  BY <1>2, <1>3, FS_Surjection
<1>5. IsFiniteSet(S) /\ Cardinality(S) <= Cardinality(R)
  BY <1>4, FS_Subset
<1>6. Cardinality(S) \in Nat /\ Cardinality(R) \in Nat
  BY <1>4, <1>5, FS_CardinalityType
<1> QED
  BY <1>1, <1>2, <1>4, <1>5, <1>6

\* Tests that must have the machine for themselves get it, and the number of
\* unit tests running at once is at most the number of jobs.
THEOREM TestsNeverCrowd == Spec => []TestsAtATime
<1>1. Safe => TestsAtATime
  <2> SUFFICES ASSUME Safe PROVE TestsAtATime
    OBVIOUS
  <2> DEFINE busy == {p \in Proc : at[p] \in Program \cup {"stuck"}
                                    /\ does[p] # NoTest}
             most == IF cfg.mode = "UTEST" /\ cfg.threads > 0
                     THEN cfg.threads ELSE 1
  <2>0. cfg \in Configs /\ most \in Nat /\ most >= 1
    BY ConfigAssumption DEF Safe, TypeOK, ControlType, Config
  <2>1. CASE cfg.fork
    <3>1. busy \subseteq Pid
      BY <2>1, ProcFacts, StageFacts DEF Safe, Roles
    <3>2. busy \subseteq {vTasks[i].pid : i \in Active}
      BY <3>1, StageFacts DEF Safe, TableMatchesChildren
    <3>3. nTasksMax = most
      BY <2>1 DEF nTasksMax
    <3> HIDE DEF busy, most
    <3>4. Cardinality(busy) <= most
      BY <3>2, <3>3, TableBounds DEF Safe
    <3> USE DEF busy, most
    <3> QED
      BY <2>1, <3>4 DEF TestsAtATime
  <2>2. CASE ~cfg.fork
    <3>1. Active = {}
      BY <2>2, <2>0, ForkCapacity, CapacityType DEF Active, Safe, TypeOK, TableType
    <3>2. busy \subseteq {Parent}
      BY <3>1, ProcFacts, StageFacts DEF Safe, Roles, TableMatchesChildren
    <3>3. Cardinality(busy) <= 1
      <4>1. IsFiniteSet({Parent}) /\ Cardinality({Parent}) = 1
        BY FS_Singleton
      <4> QED
        BY <3>2, <4>1, FS_Subset
    <3>4. Cardinality(busy) \in Nat
      BY <3>2, FS_Singleton, FS_Subset, FS_CardinalityType
    <3>5. Cardinality(busy) <= most
      <4> HIDE DEF busy, most
      <4> QED
        BY <2>0, <3>3, <3>4
    <3> QED
      BY <3>2, <3>5 DEF TestsAtATime
  <2> QED
    BY <2>1, <2>2
<1> QED
  BY <1>1, Invariance, PTL

-----------------------------------------------------------------------------
(* Recorded successes *)

CodesTell == \A code \in BodyCodes : code % 256 # 0

\* The body of the test was executed, or its time limit was refused.
Excused(t) == t \in executed \/ (Limited /\ Limit[t] = "bad")

\* A process is behind the body only if it went through it, and nothing else
\* leads to an end that tells success.
Deserved ==
  /\ \A p \in Proc :
       /\ at[p] = "arm" => Limited
       /\ at[p] \in {"revert", "disarm"} => does[p] \in executed
       /\ at[p] \in {"after", "return", "returned"} => Excused(does[p])
  /\ \A t \in Test : fate[t] = "ok" => Excused(t)

\* A step of one process, which may judge a test.
LEMMA MoveDeserves ==
  ASSUME Deserved, cfg' = cfg, executed \subseteq executed', NEW p \in Proc,
         \A q \in Proc \ {p} : at'[q] = at[q] /\ does'[q] = does[q],
         at'[p] = "arm" => Limited,
         at'[p] \in {"revert", "disarm"} => does'[p] \in executed',
         at'[p] \in {"after", "return", "returned"} => Excused(does[p])',
         at'[p] \in {"after", "return", "returned"} => does'[p] = does[p],
         \A t \in Test : fate'[t] = "ok" => fate[t] = "ok" \/ Excused(t)'
  PROVE  Deserved'
<1>1. Limited' = Limited
  BY DEF Limited
<1>2. \A t : Excused(t) => Excused(t)'
  BY <1>1 DEF Excused
<1>3. ASSUME NEW q \in Proc
      PROVE  /\ at'[q] = "arm" => Limited'
             /\ at'[q] \in {"revert", "disarm"} => does'[q] \in executed'
             /\ at'[q] \in {"after", "return", "returned"} => Excused(does[q])'
  <2>1. CASE q = p
    BY <1>1, <2>1
  <2>2. CASE q # p
    BY <1>1, <1>2, <2>2 DEF Deserved, Excused
  <2> QED BY <2>1, <2>2
<1>4. \A t \in Test : fate'[t] = "ok" => Excused(t)'
  BY <1>2 DEF Deserved
<1> QED
  BY <1>3, <1>4 DEF Deserved

\* The runner moves no process past a body and judges no test.
LEMMA RunnerDeserves ==
  ASSUME TypeOK, Deserved, RunnerStep
  PROVE  Deserved'
<1>1. UNCHANGED <<cfg, executed, fate>>
  BY DEF RunnerStep, LoopEnds, Submit, ForkFails, SubmitReturns, CheckResult,
         WaitFails, Drained, OutputStats, Destroyed, Fork, WaitReaps,
         WaitReapsStranger, WaitNotes, RunnerExits, history, runnerVars
<1>2. \/ UNCHANGED <<at, does>>
      \/ \E p \in Proc, s \in {"before", "free"} :
           /\ at' = [at EXCEPT ![p] = s]
           /\ \A q \in Proc \ {p} : does'[q] = does[q]
  <2>1. ASSUME LoopEnds \/ ForkFails \/ CheckResult \/ WaitFails \/ Drained
               \/ OutputStats \/ Destroyed \/ \E p \in Child : WaitNotes(p)
        PROVE  UNCHANGED <<at, does>>
    BY <2>1 DEF LoopEnds, ForkFails, CheckResult, WaitFails, Drained,
       OutputStats, Destroyed, WaitNotes, RunnerExits, procVars
  <2>2. ASSUME Submit
        PROVE  \/ UNCHANGED <<at, does>>
               \/ /\ at' = [at EXCEPT ![Parent] = "before"]
                  /\ \A q \in Proc \ {Parent} : does'[q] = does[q]
    BY <2>2 DEF Submit, GoTo, TypeOK, ProcessType
  <2>3. ASSUME SubmitReturns
        PROVE  /\ at' = [at EXCEPT ![Parent] = "free"]
               /\ \A q \in Proc \ {Parent} : does'[q] = does[q]
    BY <2>3 DEF SubmitReturns, GoTo, TypeOK, ProcessType
  <2>4. ASSUME NEW p \in Pid, Fork(p)
        PROVE  /\ at' = [at EXCEPT ![p] = "before"]
               /\ \A q \in Proc \ {p} : does'[q] = does[q]
    BY <2>4 DEF Fork, GoTo, TypeOK, ProcessType
  <2>5. ASSUME NEW p \in Child, WaitReaps(p) \/ WaitReapsStranger(p)
        PROVE  /\ at' = [at EXCEPT ![p] = "free"]
               /\ \A q \in Proc \ {p} : does'[q] = does[q]
    BY <2>5 DEF WaitReaps, WaitReapsStranger, GoTo, TypeOK, ProcessType
  <2> QED
    BY <2>1, <2>2, <2>3, <2>4, <2>5 DEF RunnerStep, Proc, Child
<1>3. CASE UNCHANGED <<at, does>>
  BY <1>1, <1>3 DEF Deserved, Excused, Limited
<1>4. ASSUME NEW p \in Proc, NEW s \in {"before", "free"},
             at' = [at EXCEPT ![p] = s],
             \A q \in Proc \ {p} : does'[q] = does[q]
      PROVE  Deserved'
  <2>1. at'[p] = s /\ \A q \in Proc \ {p} : at'[q] = at[q]
    BY <1>4 DEF TypeOK, ProcessType
  <2> QED BY <1>1, <1>4, <2>1, MoveDeserves
<1> QED
  BY <1>2, <1>3, <1>4

\* A process that ends by itself earns its success at the end of
\* launch_test(), not in the middle.
LEMMA EndDeserves ==
  ASSUME TypeOK, Deserved, NEW p \in Proc, NEW how \in Ended, NEW code \in Nat,
         ProcessEnds(p, how, code),
         p # Parent /\ how = "exited" /\ code % 256 = OK => Excused(does[p])
  PROVE  Deserved'
<1>1. CASE p = Parent
  <2>1. /\ UNCHANGED <<cfg, does, executed, fate>>
        /\ at' = [at EXCEPT ![p] = "free"]
    BY <1>1 DEF ProcessEnds, RunnerEnds, history
  <2>2. at'[p] = "free" /\ \A q \in Proc \ {p} : at'[q] = at[q]
    BY <2>1 DEF TypeOK, ProcessType
  <2> QED BY <2>1, <2>2, MoveDeserves
<1>2. CASE p # Parent
  <2>1. /\ UNCHANGED <<cfg, does, executed>>
        /\ at' = [at EXCEPT ![p] = how]
        /\ fate' = [fate EXCEPT ![does[p]] =
                      IF how = "exited" /\ code % 256 = OK THEN "ok" ELSE "bad"]
    BY <1>2 DEF ProcessEnds, ChildEnds, runnerVars
  <2>2. /\ at'[p] \in {"exited", "signaled"}
        /\ \A q \in Proc \ {p} : at'[q] = at[q]
    BY <2>1 DEF TypeOK, ProcessType, Ended
  <2>3. ASSUME NEW t \in Test, fate'[t] = "ok"
        PROVE  fate[t] = "ok" \/ Excused(t)'
    <3>1. CASE t # does[p]
      BY <2>1, <2>3, <3>1 DEF TypeOK, HistoryType
    <3>2. CASE t = does[p]
      <4>1. how = "exited" /\ code % 256 = OK
        BY <2>1, <2>3, <3>2 DEF TypeOK, HistoryType
      <4> QED BY <1>2, <2>1, <3>2, <4>1 DEF Excused, Limited
    <3> QED BY <3>1, <3>2
  <2> QED BY <2>1, <2>2, <2>3, MoveDeserves
<1> QED
  BY <1>1, <1>2

\* Hooks, body, timer and exits keep what the processes have earned.
LEMMA ProcessDeserves ==
  ASSUME CodesTell, TypeOK, Deserved, NEW p \in Proc,
         ProgramStep(p) \/ Alarm(p) \/ Environment(p)
  PROVE  Deserved'
<1>0. at \in [Proc -> Stage] /\ does[p] = does[p]
  BY DEF TypeOK, ProcessType
<1>1. CASE Before(p) \/ SetTimer(p) \/ InstallHandler(p) \/ AlarmHangs(p)
  <2>1. /\ UNCHANGED <<cfg, does, executed, fate>>
        /\ \E s \in {"arm", "body", "install", "stuck"} :
             at' = [at EXCEPT ![p] = s] /\ (s = "arm" => Limited)
    BY <1>1 DEF Before, SetTimer, InstallHandler, AlarmHangs, GoTo, runnerVars,
                history
  <2>2. /\ at'[p] \in {"arm", "body", "install", "stuck"}
        /\ at'[p] = "arm" => Limited
        /\ \A q \in Proc \ {p} : at'[q] = at[q]
    BY <1>0, <2>1
  <2> QED BY <2>1, <2>2, MoveDeserves
<1>2. CASE SetTimerFails(p)
  <2>1. /\ UNCHANGED <<cfg, does, executed, fate>>
        /\ at' = [at EXCEPT ![p] = "after"]
        /\ Limit[does[p]] = "bad" /\ at[p] = "arm"
    BY <1>2 DEF SetTimerFails, Runs, GoTo, runnerVars, history
  <2>2. /\ at'[p] = "after" /\ \A q \in Proc \ {p} : at'[q] = at[q]
    BY <1>0, <2>1
  <2>3. Excused(does[p])'
    BY <2>1 DEF Deserved, Excused, Limited
  <2> QED BY <2>1, <2>2, <2>3, MoveDeserves
<1>3. CASE BodyReturn(p)
  <2>1. /\ UNCHANGED <<cfg, does, fate>> /\ executed' = executed \cup {does[p]}
        /\ \E s \in {"revert", "after"} : at' = [at EXCEPT ![p] = s]
    BY <1>3 DEF BodyReturn, GoTo, runnerVars
  <2>2. /\ at'[p] \in {"revert", "after"}
        /\ \A q \in Proc \ {p} : at'[q] = at[q]
    BY <1>0, <2>1
  <2>3. Excused(does[p])' /\ does'[p] \in executed'
    BY <2>1 DEF Excused
  <2> QED BY <2>1, <2>2, <2>3, MoveDeserves
<1>4. CASE RevertHandler(p) \/ KillTimer(p) \/ KillTimerFails(p)
  <2>1. /\ UNCHANGED <<cfg, does, executed, fate>>
        /\ \E s \in {"disarm", "after"} : at' = [at EXCEPT ![p] = s]
        /\ at[p] \in {"revert", "disarm"}
    BY <1>4 DEF RevertHandler, KillTimer, KillTimerFails, Runs, GoTo, runnerVars,
                history
  <2>2. /\ at'[p] \in {"disarm", "after"}
        /\ \A q \in Proc \ {p} : at'[q] = at[q]
    BY <1>0, <2>1
  <2>3. Excused(does[p])' /\ does'[p] \in executed'
    BY <2>1 DEF Excused, Deserved
  <2> QED BY <2>1, <2>2, <2>3, MoveDeserves
<1>5. CASE After(p)
  <2>1. /\ UNCHANGED <<cfg, does, executed, fate>>
        /\ at' = [at EXCEPT ![p] = "return"] /\ at[p] = "after"
    BY <1>5 DEF After, Runs, GoTo, runnerVars, history
  <2>2. /\ at'[p] = "return" /\ \A q \in Proc \ {p} : at'[q] = at[q]
    BY <1>0, <2>1
  <2>3. Excused(does[p])'
    BY <2>1 DEF Deserved, Excused, Limited
  <2> QED BY <2>1, <2>2, <2>3, MoveDeserves
<1>6. CASE ChildReturns(p)
  <2>1. (IF MainReturns THEN lres[p] ELSE OK) \in Nat
    BY DEF TypeOK, ProcessType, OK
  <2>2. Excused(does[p])
    BY <1>6 DEF ChildReturns, Runs, Deserved
  <2> QED BY <1>6, <2>1, <2>2, EndDeserves DEF ChildReturns, ProcessEnds, Ended
<1>7. CASE p = Parent /\ LaunchReturns
  <2>1. /\ UNCHANGED <<cfg, does, executed>> /\ at[p] = "return"
        /\ at' = [at EXCEPT ![p] = "returned"]
        /\ \E v \in {"ok", "bad"} : fate' = [fate EXCEPT ![does[p]] = v]
    BY <1>7 DEF LaunchReturns, Runs, GoTo, runnerVars
  <2>2. /\ at'[p] = "returned" /\ \A q \in Proc \ {p} : at'[q] = at[q]
    BY <1>0, <2>1
  <2>3. Excused(does[p])'
    BY <2>1 DEF Deserved, Excused, Limited
  <2>4. \A t \in Test : fate'[t] = "ok" => fate[t] = "ok" \/ Excused(t)'
    <3> SUFFICES ASSUME NEW t \in Test, t # does[p], fate'[t] = "ok"
                 PROVE  fate[t] = "ok"
      BY <2>1, <2>3 DEF Excused
    <3> QED BY <2>1 DEF TypeOK, HistoryType
  <2> QED BY <2>1, <2>2, <2>3, <2>4, MoveDeserves
<1>8. CASE UserExits(p)
  <2>1. PICK code \in BodyCodes : ProcessEnds(p, "exited", code)
    BY <1>8 DEF UserExits
  <2>2. code \in Nat /\ code % 256 # OK
    BY BoundAssumption DEF CodesTell, OK
  <2> QED BY <2>1, <2>2, EndDeserves DEF Ended
<1>9. CASE Crash(p)
  BY <1>9, EndDeserves DEF Crash, Ended, OK
<1>10. CASE Alarm(p)
  <2>1. \/ ProcessEnds(p, "exited", TIMED_OUT)
        \/ ProcessEnds(p, "signaled", OK)
    BY <1>10 DEF Alarm
  <2>2. TIMED_OUT \in Nat /\ OK \in Nat /\ TIMED_OUT % 256 # OK
    BY DEF TIMED_OUT, OK
  <2>3. "exited" \in Ended /\ "signaled" \in Ended
    BY DEF Ended
  <2> QED BY <2>1, <2>2, <2>3, EndDeserves
<1>11. CASE Halt(p) \/ Resume(p)
  <2>1. UNCHANGED <<cfg, at, does, executed, fate>>
    BY <1>11 DEF Halt, Resume, runnerVars, history
  <2> QED BY <2>1 DEF Deserved, Excused, Limited
<1>12. CASE HelperEnds(p)
  <2>1. UNCHANGED <<cfg, does, executed, fate>> /\ at' = [at EXCEPT ![p] = "exited"]
    BY <1>12 DEF HelperEnds, GoTo, runnerVars, history
  <2>2. at'[p] = "exited" /\ \A q \in Proc \ {p} : at'[q] = at[q]
    BY <1>0, <2>1
  <2> QED BY <2>1, <2>2, MoveDeserves
<1> QED
  BY <1>1, <1>2, <1>3, <1>4, <1>5, <1>6, <1>7, <1>8, <1>9, <1>10, <1>11, <1>12
     DEF ProgramStep, Environment

\* A test in the statistics of succeeded tests went through its body, unless
\* setitimer() refused its time limit, provided that no test passes a multiple
\* of 256 to exit().
THEOREM SuccessesWereExecuted == Spec => []SuccessMeansExecuted
<1>1. CASE ~CodesTell
  <2>1. SuccessMeansExecuted
    BY <1>1 DEF SuccessMeansExecuted, CodesTell
  <2> QED BY <2>1, PTL
<1>2. CASE CodesTell
  <2>1. Init => Deserved
    BY DEF Init, Deserved
  <2>2. Safe /\ Deserved /\ [Next]_vars => Deserved'
    <3> SUFFICES ASSUME Safe, Deserved, [Next]_vars PROVE Deserved'
      OBVIOUS
    <3>1. TypeOK
      BY DEF Safe
    <3>2. CASE UNCHANGED vars
      BY <3>2 DEF Deserved, Excused, Limited, vars, procVars, runnerVars, history
    <3> QED
      BY <1>2, <3>1, <3>2, RunnerDeserves, ProcessDeserves DEF Next, Gone
  <2>3. Spec => []Deserved
    BY <2>1, <2>2, Invariance, PTL DEF Spec
  <2>4. Safe /\ Deserved => SuccessMeansExecuted
    <3> SUFFICES ASSUME Safe, Deserved, NEW t \in Elements(success)
                 PROVE  Excused(t)
      BY DEF SuccessMeansExecuted, Excused
    <3>1. fate[t] = "ok"
      BY DEF Safe, Fates, VerdictFaithful
    <3>2. t \in Test
      BY DEF Safe, TypeOK, StatsType, Elements
    <3> QED BY <3>1, <3>2 DEF Deserved
  <2> QED
    BY <2>3, <2>4, Invariance, PTL
<1> QED
  BY <1>1, <1>2

-----------------------------------------------------------------------------
(* The test executor implements TestRun: every behaviour of the runner, its
   processes and its task table is, seen through the mapping TR, a behaviour
   of the abstract runner. *)

\* The variables of TestRun, as the mapping defines them.
Jobs == IF nTasksMax = 0 THEN 1 ELSE nTasksMax
Running == InProgress \cup ({does[Parent]} \ {NoTest})
Verdict == VerdictIn(success, failed)
Report == IF report = <<>> THEN VerdictIn(<<>>, <<>>)
          ELSE VerdictIn(report[1].success, report[1].failed)

Seen == <<Jobs, Phase, Running, fate, Verdict, Report>>

-----------------------------------------------------------------------------
(* The actions of TestRun in these terms *)

LEMMA Stutters == Seen' = Seen => UNCHANGED TR!vars
  BY DEF TR!vars, Seen, Jobs, Running, Verdict, Report

LEMMA Launches ==
  ASSUME NEW i \in DOMAIN List, Phase = "testing",
         Cardinality(Running) < Jobs,
         Running \cup {t \in Test : Verdict[t] # "none"}
           = {List[j] : j \in 1..(i - 1)},
         Running' = Running \cup {List[i]},
         UNCHANGED <<Jobs, Phase, fate, Verdict, Report>>
  PROVE  TR!Launch
  BY DEF TR!Launch, TR!Launched, Jobs, Running, Verdict, Report,
         TR!Cardinality, Cardinality

LEMMA Ends ==
  ASSUME NEW t \in Running, fate[t] = "none", NEW o \in {"ok", "bad"},
         fate' = [fate EXCEPT ![t] = o],
         UNCHANGED <<Jobs, Phase, Running, Verdict, Report>>
  PROVE  TR!End(t)
  BY DEF TR!End, TR!Outcome, Jobs, Running, Verdict, Report

LEMMA Judges ==
  ASSUME NEW t \in Running, fate[t] # "none", Phase # "stopped",
         Running' = Running \ {t},
         Verdict' = [Verdict EXCEPT ![t] = fate[t]],
         UNCHANGED <<Jobs, Phase, fate, Report>>
  PROVE  TR!Judge(t)
  BY DEF TR!Judge, Jobs, Running, Verdict, Report

LEMMA Aborts ==
  ASSUME Phase = "testing", Phase' = "aborted",
         UNCHANGED <<Jobs, Running, fate, Verdict, Report>>
  PROVE  TR!Abort
  BY DEF TR!Abort, Jobs, Running, Verdict, Report

LEMMA Publishes ==
  ASSUME \/ /\ Phase = "testing" /\ Running = {}
            /\ Running \cup {t \in Test : Verdict[t] # "none"}
                 = {List[i] : i \in DOMAIN List}
         \/ Phase = "aborted",
         Phase' = "published", Report' = Verdict,
         UNCHANGED <<Jobs, Running, fate, Verdict>>
  PROVE  TR!Publish
  BY DEF TR!Publish, TR!Launched, TR!Selected, Jobs, Running, Verdict, Report

LEMMA Stops ==
  ASSUME Phase' = "stopped", UNCHANGED <<Jobs, Running, fate, Verdict, Report>>
  PROVE  TR!Stop
  BY DEF TR!Stop, Jobs, Running, Verdict, Report

-----------------------------------------------------------------------------
(* What the mapping makes of the state *)

LEMMA PhaseFacts ==
  /\ pc \in {"exited", "dead"} => Phase = "stopped"
  /\ pc = "dtor" => Phase = "published"
  /\ pc = "report" /\ res # OK => Phase = "aborted"
  /\ pc = "report" /\ res = OK => Phase = "testing"
  /\ pc \in {"loop", "slot", "launch", "check", "drain"} => Phase = "testing"
  BY DEF Phase, RunnerAlive

LEMMA PhaseFactsNext ==
  /\ pc' \in {"exited", "dead"} => Phase' = "stopped"
  /\ pc' = "dtor" => Phase' = "published"
  /\ pc' = "report" /\ res' # OK => Phase' = "aborted"
  /\ pc' = "report" /\ res' = OK => Phase' = "testing"
  /\ pc' \in {"loop", "slot", "launch", "check", "drain"} => Phase' = "testing"
  BY DEF Phase, RunnerAlive

LEMMA SameJobs == UNCHANGED cfg => UNCHANGED Jobs
  BY DEF Jobs, nTasksMax

LEMMA SamePhase == UNCHANGED <<pc, res>> => UNCHANGED Phase
  BY DEF Phase, RunnerAlive

LEMMA SameRunning ==
  UNCHANGED <<vTasks, nTasksActive>> /\ does'[Parent] = does[Parent]
    => UNCHANGED Running
  BY DEF Running, InProgress, Active

LEMMA SameVerdict == UNCHANGED <<success, failed>> => UNCHANGED Verdict
  BY DEF Verdict, VerdictIn, Elements

LEMMA SameReport == UNCHANGED report => UNCHANGED Report
  BY DEF Report, VerdictIn, Elements

\* The tests with a verdict are the recorded ones.
LEMMA VerdictsAreJudged ==
  ASSUME StatsType PROVE {t \in Test : Verdict[t] # "none"} = Judged
<1>1. Judged \subseteq Test
  BY DEF StatsType, Judged, Elements
<1> QED
  BY <1>1 DEF Verdict, VerdictIn, Judged

\* A new record is a new verdict.
LEMMA VerdictRecorded ==
  ASSUME StatsType, EveryTestAccounted,
         NEW t \in Test, t \notin Judged, NEW r \in Nat,
         fate[t] = IF r = OK THEN "ok" ELSE "bad",
         IF r = OK THEN success' = Append(success, t) /\ UNCHANGED failed
                   ELSE failed' = Append(failed, t) /\ UNCHANGED success
  PROVE  Verdict' = [Verdict EXCEPT ![t] = fate[t]]
<1>1. /\ Elements(success') = Elements(success) \cup (IF r = OK THEN {t} ELSE {})
      /\ Elements(failed') = Elements(failed) \cup (IF r = OK THEN {} ELSE {t})
  BY Record DEF StatsType, EveryTestAccounted
<1>2. t \notin Elements(success) /\ t \notin Elements(failed)
  BY DEF Judged
<1>3. Verdict' = [x \in Test |-> IF x \in Elements(success') THEN "ok"
                                 ELSE IF x \in Elements(failed') THEN "bad"
                                 ELSE "none"]
  BY DEF Verdict, VerdictIn, Elements
<1>4. Verdict = [x \in Test |-> IF x \in Elements(success) THEN "ok"
                                ELSE IF x \in Elements(failed) THEN "bad"
                                ELSE "none"]
  BY DEF Verdict, VerdictIn
<1>5. \A x \in Test : Verdict'[x] = IF x = t THEN fate[t] ELSE Verdict[x]
  BY <1>1, <1>2, <1>3, <1>4
<1> QED
  BY <1>3, <1>4, <1>5

\* Without fork the table is empty.
LEMMA NoTable ==
  ASSUME Safe, ~cfg.fork PROVE Active = {} /\ InProgress = {} /\ Jobs = 1
<1>1. nTasksMax = 0 /\ nTasksActive \in 0..nTasksMax
  BY ForkCapacity, CapacityType DEF Safe, TypeOK, ControlType, TableType
<1> QED
  BY <1>1 DEF Active, InProgress, Jobs
-----------------------------------------------------------------------------
(* The initial states *)

LEMMA InitMaps == Init => TR!Init
<1> SUFFICES ASSUME Init PROVE TR!Init
  OBVIOUS
<1>1. Jobs \in Nat \ {0}
  BY CapacityType DEF Init, Jobs
<1>2. Phase = "testing"
  BY DEF Init, Phase, RunnerAlive
<1>3. Running = {}
  BY ProcFacts DEF Init, Running, InProgress, Active
<1>4. Verdict = [t \in Test |-> "none"] /\ Report = Verdict
  BY DEF Init, Verdict, Report, VerdictIn, Elements
<1>5. fate = [t \in Test |-> "none"]
  BY DEF Init
<1> QED
  BY <1>1, <1>2, <1>3, <1>4, <1>5
     DEF TR!Init, Jobs, Running, Verdict, Report

-----------------------------------------------------------------------------
(* The steps of a process *)

LEMMA ProcessMaps ==
  ASSUME Safe, NEW p \in Proc, ProgramStep(p) \/ Alarm(p) \/ Environment(p)
  PROVE  TR!Next \/ UNCHANGED TR!vars
<1>0. /\ TypeOK /\ Roles /\ Fates /\ TableMatchesChildren
      /\ at \in [Proc -> Stage] /\ does \in [Proc -> Test \cup {NoTest}]
  BY DEF Safe, TypeOK, ProcessType
<1>1. CASE Quiet(p) \/ HelperEnding(p)
  <2>1. UNCHANGED <<cfg, pc, res, vTasks, nTasksActive, success, failed, report,
                    does, fate>>
    BY <1>1 DEF Quiet, HelperEnding, runnerVars, table, stats, outcome
  <2>2. Seen' = Seen
    BY <2>1, SameJobs, SamePhase, SameRunning, SameVerdict, SameReport DEF Seen
  <2> QED
    BY <2>2, Stutters
<1>2. CASE Ending(p) /\ p = Parent
  <2>1. \E how \in Ended, code \in Nat : RunnerEnds(how, code)
    BY <1>2 DEF Ending, ProcessEnds
  <2>2. /\ pc' = "dead"
        /\ UNCHANGED <<cfg, vTasks, nTasksActive, success, failed, report, does,
                       fate>>
    BY <2>1 DEF RunnerEnds, table, stats, history
  <2>3. TR!Stop
    BY <2>2, PhaseFactsNext, SameJobs, SameRunning, SameVerdict, SameReport,
       Stops
  <2> QED
    BY <2>3 DEF TR!Next
<1>3. CASE Ending(p) /\ p # Parent
  <2>1. PICK how \in Ended, code \in Nat : ChildEnds(p, how, code)
    BY <1>3 DEF Ending, ProcessEnds
  <2>2. p \in Pid /\ at[p] \in TestStage /\ at[p] # "free"
    BY <1>3, ProcFacts, StageFacts DEF Ending
  <2>3. PICK i \in Active : vTasks[i].pid = p /\ does[p] = vTasks[i].test
    BY <1>0, <2>2 DEF TableMatchesChildren
  <2> DEFINE t == does[p]
             o == IF how = "exited" /\ code % 256 = OK THEN "ok" ELSE "bad"
  <2>4. t \in Running /\ fate[t] = "none" /\ t \in Test
    BY <1>0, <2>2, <2>3, StageFacts
       DEF Running, InProgress, Fates, FateOf, TypeOK, TableType
  <2>5. /\ fate' = [fate EXCEPT ![t] = o]
        /\ UNCHANGED <<cfg, pc, res, vTasks, nTasksActive, success, failed,
                       report, does>>
    BY <2>1 DEF ChildEnds, runnerVars, table, stats, outcome
  <2>6. o \in {"ok", "bad"}
    OBVIOUS
  <2>7. UNCHANGED <<Jobs, Phase, Running, Verdict, Report>>
    BY <2>5, SameJobs, SamePhase, SameRunning, SameVerdict, SameReport
  <2> HIDE DEF t, o
  <2>8. TR!End(t)
    BY <2>4, <2>5, <2>6, <2>7, Ends
  <2> QED
    BY <2>4, <2>8 DEF TR!Next
<1>4. CASE p = Parent /\ LaunchReturns
  <2> DEFINE t == does[Parent]
             o == IF lres[Parent] = OK THEN "ok" ELSE "bad"
  <2>1. at[Parent] = "return" /\ pc = "launch"
    BY <1>0, <1>4, ProcFacts, StageFacts
       DEF LaunchReturns, Runs, Roles, TestStage, Program
  <2>2. t \in Test
    BY <1>0, <2>1, ProcFacts, StageFacts
       DEF TypeOK, ProcessType, TestStage, Program
  <2>3. t \in Running /\ fate[t] = "none"
    BY <1>0, <2>1, <2>2, TestAssumption DEF Running, Fates
  <2>4. /\ fate' = [fate EXCEPT ![t] = o]
        /\ UNCHANGED <<cfg, pc, res, vTasks, nTasksActive, success, failed,
                       report, does>>
    BY <1>4 DEF LaunchReturns, runnerVars, table, stats, outcome
  <2>5. o \in {"ok", "bad"}
    OBVIOUS
  <2>6. UNCHANGED <<Jobs, Phase, Running, Verdict, Report>>
    BY <2>4, SameJobs, SamePhase, SameRunning, SameVerdict, SameReport
  <2> HIDE DEF t, o
  <2>7. TR!End(t)
    BY <2>3, <2>4, <2>5, <2>6, Ends
  <2> QED
    BY <2>2, <2>7 DEF TR!Next
<1> QED
  BY <1>0, <1>1, <1>2, <1>3, <1>4, ProcessShape

-----------------------------------------------------------------------------
(* The steps of the runner *)

\* A test that is launched: by fork(), or without it.
LEMMA LaunchMaps ==
  ASSUME Safe, pc \in {"loop", "slot"}, next <= Len(List),
         Cardinality(InProgress) < Jobs,
         Running' = Running \cup {List[next]},
         pc' \in {"loop", "launch"},
         UNCHANGED <<cfg, fate, success, failed, report>>
  PROVE  TR!Launch
<1>0. /\ TypeOK /\ Roles /\ Accounts /\ StatsType
      /\ next \in 1..Len(List) /\ Len(List) \in Nat
  BY ListType DEF Safe, TypeOK, ControlType
<1>1. next \in DOMAIN List
  BY <1>0, ListAssumption
<1>2. Running = InProgress
  BY <1>0 DEF Running, Roles
<1>3. Running \cup {t \in Test : Verdict[t] # "none"}
        = {List[j] : j \in 1..(next - 1)}
  BY <1>0, <1>2, VerdictsAreJudged DEF Accounts, Submitted
<1>4. UNCHANGED <<Jobs, Phase, Verdict, Report>>
  BY PhaseFacts, PhaseFactsNext, SameJobs, SameVerdict, SameReport
<1>5. Phase = "testing"
  BY PhaseFacts
<1> QED
  BY <1>1, <1>2, <1>3, <1>4, <1>5, Launches

\* The number of tests in progress is at most that of the descriptors in use.
LEMMA InProgressCount ==
  ASSUME TypeOK PROVE Cardinality(InProgress) <= nTasksActive
                      /\ Cardinality(InProgress) \in Nat
<1>1. nTasksActive \in 0..nTasksMax /\ nTasksMax \in Nat
  BY CapacityType DEF TypeOK, ControlType, TableType
<1>2. IsFiniteSet(Active) /\ Cardinality(Active) = nTasksActive
  BY <1>1, FS_Interval DEF Active
<1> DEFINE f == [i \in Active |-> vTasks[i].test]
<1>3. f \in Surjection(Active, InProgress)
  BY DEF Surjection, InProgress
<1> HIDE DEF f
<1>4. IsFiniteSet(InProgress) /\ Cardinality(InProgress) <= Cardinality(Active)
  BY <1>2, <1>3, FS_Surjection
<1> QED
  BY <1>2, <1>4, FS_CardinalityType

LEMMA SubmitMaps == Safe /\ Submit => TR!Next \/ UNCHANGED TR!vars
<1> SUFFICES ASSUME Safe, Submit PROVE TR!Next \/ UNCHANGED TR!vars
  OBVIOUS
<1>0. /\ TypeOK /\ Roles /\ does \in [Proc -> Test \cup {NoTest}]
      /\ nTasksMax \in Nat /\ cfg \in Configs
  BY CapacityType DEF Safe, TypeOK, ControlType, ProcessType
<1>1. /\ pc = "loop" /\ next <= Len(List)
      /\ UNCHANGED <<cfg, res, vTasks, nTasksActive, success, failed, report,
                     fate>>
  BY DEF Submit, table, outcome, history
<1>2. CASE nTasksMax > 0
  <2>1. pc' = "slot" /\ UNCHANGED does
    BY <1>2 DEF Submit
  <2>2. Seen' = Seen
    BY <1>1, <2>1, PhaseFacts, PhaseFactsNext, SameJobs, SameRunning,
       SameVerdict, SameReport DEF Seen
  <2> QED
    BY <2>2, Stutters
<1>3. CASE ~(nTasksMax > 0)
  <2>1. pc' = "launch" /\ does' = [does EXCEPT ![Parent] = List[next]]
    BY <1>3 DEF Submit
  <2>2. InProgress = {} /\ Jobs = 1
    BY <1>0, <1>3, ForkCapacity, NoTable
  <2>3. Cardinality(InProgress) < Jobs
    BY <2>2, FS_EmptySet
  <2>4. List[next] # NoTest /\ does[Parent] = NoTest
    BY <1>0, <1>1, ListType, TestAssumption DEF Roles, TypeOK, ControlType
  <2>5. Running' = Running \cup {List[next]}
    BY <1>0, <1>1, <2>1, <2>4, ProcFacts DEF Running, InProgress, Active
  <2>6. TR!Launch
    BY <1>1, <2>1, <2>3, <2>5, LaunchMaps
  <2> QED
    BY <2>6 DEF TR!Next
<1> QED
  BY <1>2, <1>3

LEMMA ForkMaps == ASSUME Safe, NEW p \in Pid, Fork(p) PROVE TR!Next
<1>0. /\ TypeOK /\ Roles
      /\ nTasksActive \in Nat /\ nTasksMax \in Nat
      /\ vTasks \in [1..nTasksMax -> Task]
      /\ does \in [Proc -> Test \cup {NoTest}]
  BY CapacityType DEF Safe, TypeOK, ControlType, TableType, ProcessType
<1> DEFINE n == nTasksActive + 1
<1>1. /\ pc = "slot" /\ pc' = "loop" /\ next <= Len(List)
      /\ nTasksActive < nTasksMax /\ nTasksActive' = n
      /\ UNCHANGED <<cfg, success, failed, report, fate>>
  BY <1>0 DEF Fork, SlotIsFree, stats, outcome, history, TypeOK, ControlType
<1>2. /\ vTasks'[n].test = List[next]
      /\ \A i \in Active : vTasks'[i] = vTasks[i]
  BY <1>0, <1>1 DEF Fork, TaskFor, Active
<1>3. Active' = Active \cup {n}
  BY <1>0, <1>1 DEF Active
<1>4. InProgress' = InProgress \cup {List[next]}
  BY <1>2, <1>3 DEF InProgress
<1>5. does'[Parent] = does[Parent]
  BY <1>0, ProcFacts DEF Fork
<1>6. Running' = Running \cup {List[next]}
  BY <1>4, <1>5 DEF Running
<1>7. Cardinality(InProgress) < Jobs
  BY <1>0, <1>1, InProgressCount DEF Jobs
<1>8. TR!Launch
  BY <1>1, <1>6, <1>7, LaunchMaps
<1> QED
  BY <1>8 DEF TR!Next

LEMMA SubmitReturnsMaps == Safe /\ SubmitReturns => TR!Next
<1> SUFFICES ASSUME Safe, SubmitReturns PROVE TR!Next
  OBVIOUS
<1>0. /\ TypeOK /\ Roles /\ Accounts /\ Fates /\ StatsType
      /\ does \in [Proc -> Test \cup {NoTest}]
      /\ lres[Parent] \in Nat
  BY ProcFacts DEF Safe, TypeOK, ProcessType
<1> DEFINE t == does[Parent]
<1>1. /\ pc = "launch" /\ t = List[next] /\ next <= Len(List)
      /\ at[Parent] = "returned" /\ ~cfg.fork /\ pc' = "check"
      /\ does' = [does EXCEPT ![Parent] = NoTest]
      /\ UNCHANGED <<cfg, vTasks, nTasksActive, report, fate>>
  BY <1>0 DEF SubmitReturns, Roles, TypeOK, ControlType, table, outcome, history
<1>2. t \in Test /\ t \notin Judged
  BY <1>0, <1>1, NextIsNew
<1>3. InProgress = {}
  BY <1>1, NoTable
<1>4. Running = {t} /\ Running' = {}
  BY <1>0, <1>1, <1>2, <1>3, TestAssumption, ProcFacts
     DEF Running, InProgress, Active
<1>5. fate[t] = IF lres[Parent] = OK THEN "ok" ELSE "bad"
  BY <1>0, <1>1 DEF Fates
<1>6. IF lres[Parent] = OK
      THEN success' = Append(success, t) /\ UNCHANGED failed
      ELSE failed' = Append(failed, t) /\ UNCHANGED success
  BY DEF SubmitReturns
<1> HIDE DEF t
<1>7. Verdict' = [Verdict EXCEPT ![t] = fate[t]]
  BY <1>0, <1>2, <1>5, <1>6, VerdictRecorded DEF Accounts
<1>8. Phase = "testing" /\ UNCHANGED <<Jobs, Phase, Report>>
  BY <1>1, PhaseFacts, PhaseFactsNext, SameJobs, SameReport
<1>9. TR!Judge(t)
  BY <1>1, <1>4, <1>5, <1>7, <1>8, Judges
<1> QED
  BY <1>2, <1>9 DEF TR!Next

LEMMA WaitReapsMaps == ASSUME Safe, NEW p \in Child, WaitReaps(p) PROVE TR!Next
<1>0. /\ TypeOK /\ Roles /\ Accounts /\ Fates /\ StatsType
      /\ nTasksActive \in Nat /\ nTasksMax \in Nat
      /\ nTasksActive <= nTasksMax
      /\ vTasks \in [1..nTasksMax -> Task]
      /\ does \in [Proc -> Test \cup {NoTest}]
      /\ ResultOf(p) \in Nat
  BY CapacityType, ProcFacts
     DEF Safe, TypeOK, ControlType, TableType, ProcessType, ResultOf, KILLED
<1>1. PICK i \in SlotsOf(p) : Collect(i, ResultOf(p))
  BY DEF WaitReaps
<1> DEFINE t == vTasks[i].test
<1>2. /\ i \in Active /\ nTasksActive \in Active /\ vTasks[i].pid = p
      /\ Active' = Active \ {nTasksActive}
  BY <1>0, <1>1 DEF Collect, SlotsOf, Active
<1>3. \A j \in Active' : vTasks'[j] = IF j = i THEN vTasks[nTasksActive]
                                      ELSE vTasks[j]
  BY <1>0, <1>1, <1>2 DEF Collect, Active
<1>4. \A j, k \in Active : vTasks[j].test = vTasks[k].test => j = k
  BY <1>0 DEF Accounts
<1>5. t \in Test /\ t \in InProgress /\ t \notin Judged
  BY <1>0, <1>2 DEF InProgress, Accounts, EveryTestAccounted, TypeOK, TableType
<1>6. InProgress' = InProgress \ {t}
  <2>1. ASSUME NEW x \in InProgress' PROVE x \in InProgress \ {t}
    BY <1>2, <1>3, <1>4, <2>1 DEF InProgress
  <2>2. ASSUME NEW x \in InProgress, x # t PROVE x \in InProgress'
    <3>1. PICK j \in Active : vTasks[j].test = x
      BY <2>2 DEF InProgress
    <3>2. CASE j = nTasksActive
      BY <1>2, <1>3, <2>2, <3>1, <3>2 DEF InProgress
    <3>3. CASE j # nTasksActive
      BY <1>2, <1>3, <2>2, <3>1, <3>3 DEF InProgress
    <3> QED
      BY <3>2, <3>3
  <2> QED
    BY <2>1, <2>2
<1>7. /\ pc \in {"slot", "drain", "dtor"} /\ at[p] \in Ended
      /\ does' = [does EXCEPT ![p] = NoTest]
      /\ UNCHANGED <<cfg, pc, res, report, fate>>
  BY DEF WaitReaps, Waiting, outcome, history
<1>8. does[Parent] = NoTest /\ does'[Parent] = NoTest
  BY <1>0, <1>7, ProcFacts DEF Roles
<1>9. t \in Running /\ Running' = Running \ {t}
  BY <1>5, <1>6, <1>8 DEF Running
<1>10. fate[t] = IF ResultOf(p) = OK THEN "ok" ELSE "bad"
  BY <1>0, <1>2, <1>7, StageFacts DEF Fates, FateOf, ResultOf, KILLED, OK
<1>11. IF ResultOf(p) = OK
       THEN success' = Append(success, t) /\ UNCHANGED failed
       ELSE failed' = Append(failed, t) /\ UNCHANGED success
  BY <1>1 DEF Collect
<1> HIDE DEF t
<1>12. Verdict' = [Verdict EXCEPT ![t] = fate[t]]
  BY <1>0, <1>5, <1>10, <1>11, VerdictRecorded DEF Accounts
<1>13. Phase # "stopped" /\ UNCHANGED <<Jobs, Phase, Report>>
  BY <1>7, PhaseFacts, SamePhase, SameJobs, SameReport
<1>14. TR!Judge(t)
  BY <1>7, <1>9, <1>10, <1>12, <1>13, Judges
<1> QED
  BY <1>5, <1>14 DEF TR!Next

\* The steps after which the runner is gone, or launches nothing any more.
LEMMA EndMaps ==
  ASSUME Safe,
         ForkFails \/ WaitFails \/ Destroyed \/ CheckResult
         \/ \E p \in Child : WaitReapsStranger(p)
  PROVE  TR!Next \/ UNCHANGED TR!vars
<1>0. /\ Active = 1..nTasksActive /\ nTasksActive \in Nat /\ nTasksMax \in Nat
      /\ vTasks \in [1..nTasksMax -> Task]
  BY CapacityType DEF Active, Safe, TypeOK, ControlType, TableType
<1>1. UNCHANGED <<cfg, nTasksActive, success, failed, report, does, fate>>
  BY DEF ForkFails, WaitFails, Destroyed, CheckResult, WaitReapsStranger,
         RunnerExits, table, stats, outcome, procVars, history
<1>2. UNCHANGED Running
  <2>1. \A i \in Active : vTasks'[i] = vTasks[i]
    BY <1>0 DEF ForkFails, WaitFails, Destroyed, CheckResult,
                WaitReapsStranger, TaskFor, table
  <2> QED
    BY <1>1, <2>1 DEF Running, InProgress, Active
<1>3. UNCHANGED <<Jobs, fate, Verdict, Report>>
  BY <1>1, SameJobs, SameVerdict, SameReport
<1>4. CASE ForkFails
  <2>1. pc = "slot" /\ pc' = "report" /\ res' # OK
    BY <1>4 DEF ForkFails, UNKNOWN_ERR, OK
  <2>2. TR!Abort
    BY <1>2, <1>3, <2>1, PhaseFacts, PhaseFactsNext, Aborts
  <2> QED
    BY <2>2 DEF TR!Next
<1>5. CASE WaitFails
  <2>1. CASE pc = "dtor"
    <3>1. pc' = "exited"
      BY <1>5, <2>1 DEF WaitFails, RunnerExits
    <3>2. TR!Stop
      BY <1>2, <1>3, <3>1, PhaseFactsNext, Stops
    <3> QED
      BY <3>2 DEF TR!Next
  <2>2. CASE pc # "dtor"
    <3>1. pc \in {"slot", "drain"} /\ pc' = "report" /\ res' # OK
      BY <1>5, <2>2 DEF WaitFails, Waiting, UNKNOWN_ERR, OK
    <3>2. TR!Abort
      BY <1>2, <1>3, <3>1, PhaseFacts, PhaseFactsNext, Aborts
    <3> QED
      BY <3>2 DEF TR!Next
  <2> QED
    BY <2>1, <2>2
<1>6. CASE CheckResult
  <2>1. CASE res = OK
    <3>1. pc = "check" /\ pc' = "loop"
      BY <1>6, <2>1 DEF CheckResult
    <3>2. Seen' = Seen
      BY <1>2, <1>3, <3>1, PhaseFacts, PhaseFactsNext DEF Seen
    <3> QED
      BY <3>2, Stutters
  <2>2. CASE res # OK
    <3>1. pc = "check" /\ pc' = "report" /\ res' # OK
      BY <1>6, <2>2 DEF CheckResult
    <3>2. TR!Abort
      BY <1>2, <1>3, <3>1, PhaseFacts, PhaseFactsNext, Aborts
    <3> QED
      BY <3>2 DEF TR!Next
  <2> QED
    BY <2>1, <2>2
<1>7. CASE Destroyed \/ \E p \in Child : WaitReapsStranger(p)
  <2>1. pc' \in {"exited", "dead"}
    BY <1>7 DEF Destroyed, RunnerExits, WaitReapsStranger
  <2>2. TR!Stop
    BY <1>2, <1>3, <2>1, PhaseFactsNext, Stops
  <2> QED
    BY <2>2 DEF TR!Next
<1> QED
  BY <1>4, <1>5, <1>6, <1>7

\* What is printed without an error is the verdict of every selected test.
LEMMA OutputStatsMaps == Safe /\ OutputStats => TR!Next
<1> SUFFICES ASSUME Safe, OutputStats PROVE TR!Next
  OBVIOUS
<1>0. /\ Roles /\ Completion /\ StatsType
      /\ success \in Seq(Test) /\ failed \in Seq(Test)
  BY DEF Safe, TypeOK, StatsType
<1>1. /\ pc = "report" /\ pc' = "dtor"
      /\ report' = <<[total |-> total, success |-> success, failed |-> failed]>>
      /\ UNCHANGED <<cfg, vTasks, nTasksActive, success, failed, does, fate>>
  BY DEF OutputStats, table, stats, procVars, history
<1>2. UNCHANGED <<Jobs, Running, fate, Verdict>>
  BY <1>1, SameJobs, SameRunning, SameVerdict
<1>3. Report' = Verdict
  <2>1. report' # <<>> /\ report'[1].success = success /\ report'[1].failed = failed
    BY <1>1
  <2>2. Report' = VerdictIn(report'[1].success, report'[1].failed)
    BY <2>1 DEF Report, VerdictIn, Elements
  <2> QED
    BY <2>1, <2>2 DEF Verdict
<1>4. \/ /\ Phase = "testing" /\ Running = {}
         /\ Running \cup {t \in Test : Verdict[t] # "none"}
              = {List[i] : i \in DOMAIN List}
      \/ Phase = "aborted"
  <2>1. CASE res = OK
    <3>1. Running = {}
      BY <1>0, <1>1, <2>1 DEF Completion, Roles, Running, InProgress, Active
    <3>2. Judged = {List[i] : i \in DOMAIN List}
      BY <1>0, <1>1, <2>1 DEF Completion, Elements
    <3> QED
      BY <1>0, <1>1, <2>1, <3>1, <3>2, PhaseFacts, VerdictsAreJudged
  <2>2. CASE res # OK
    BY <1>1, <2>2, PhaseFacts
  <2> QED
    BY <2>1, <2>2
<1>5. TR!Publish
  BY <1>1, <1>2, <1>3, <1>4, PhaseFactsNext, Publishes
<1> QED
  BY <1>5 DEF TR!Next

\* The steps that the abstract runner does not see.
LEMMA HiddenSteps ==
  ASSUME Safe, LoopEnds \/ Drained \/ \E p \in Child : WaitNotes(p)
  PROVE  UNCHANGED TR!vars
<1>1. UNCHANGED <<cfg, res, vTasks, nTasksActive, success, failed, report, does,
                  fate>>
  BY DEF LoopEnds, Drained, WaitNotes, runnerVars, table, stats, outcome,
         procVars, history
<1>2. UNCHANGED Phase
  <2>1. CASE LoopEnds
    BY <2>1, PhaseFacts, PhaseFactsNext DEF LoopEnds
  <2>2. CASE Drained
    BY <1>1, <2>2, PhaseFacts, PhaseFactsNext DEF Drained, Safe, Accounts
  <2>3. CASE \E p \in Child : WaitNotes(p)
    BY <2>3, SamePhase DEF WaitNotes, runnerVars
  <2> QED
    BY <2>1, <2>2, <2>3
<1>3. Seen' = Seen
  BY <1>1, <1>2, SameJobs, SameRunning, SameVerdict, SameReport DEF Seen
<1> QED
  BY <1>3, Stutters

-----------------------------------------------------------------------------

LEMMA StepMaps == Safe /\ [Next]_vars => TR!Next \/ UNCHANGED TR!vars
<1> SUFFICES ASSUME Safe, [Next]_vars PROVE TR!Next \/ UNCHANGED TR!vars
  OBVIOUS
<1>1. CASE RunnerStep
  BY <1>1, SubmitMaps, ForkMaps, SubmitReturnsMaps, WaitReapsMaps, EndMaps,
     OutputStatsMaps, HiddenSteps DEF RunnerStep
<1>2. ASSUME NEW p \in Proc, ProgramStep(p) \/ Alarm(p) \/ Environment(p)
      PROVE  TR!Next \/ UNCHANGED TR!vars
  BY <1>2, ProcessMaps
<1>3. CASE UNCHANGED vars
  <2>1. Seen' = Seen
    BY <1>3, SameJobs, SamePhase, SameRunning, SameVerdict, SameReport
       DEF Seen, vars, runnerVars, table, stats, outcome, procVars, history
  <2> QED
    BY <2>1, Stutters
<1> QED
  BY <1>1, <1>2, <1>3 DEF Next, Gone

\* The runner keeps the promise of TestRun, for any number of tests, processes
\* and failures: tests start in the order of the list and never too many at a
\* time, each is judged once and as it deserves, and what is printed without
\* an error covers the whole selection.
THEOREM RunnerImplementsTestRun == Spec => ImplementsTestRun
<1>1. Init => TR!Init
  BY InitMaps
<1>2. Safe /\ [Next]_vars => [TR!Next]_(TR!vars)
  BY StepMaps
<1> QED
  BY <1>1, <1>2, Invariance, PTL DEF Spec, ImplementsTestRun, TR!Spec
=============================================================================
