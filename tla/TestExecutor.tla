---------------------------- MODULE TestExecutor ----------------------------
(***************************************************************************)
(* The test executor of lsp-test-fw on a POSIX system, with the loop of    *)
(* test_main() that feeds it (src/src/main/executor.cpp and main.cpp).     *)
(*                                                                         *)
(* The runner submits the selected tests one after the other. With fork it *)
(* starts one process per test, keeps a table vTasks of the processes in   *)
(* progress, waits for any child when the table is full, and drains the    *)
(* table at the end; without fork it runs each test in its own process.    *)
(* Every process that runs a test goes through launch_test(): the before   *)
(* hooks, the alarm timer of a unit test, the body, the timer again, the   *)
(* after hooks. Processes interleave freely, may end anywhere (exit,       *)
(* signal, alarm) and may be stopped and continued by a debugger or a      *)
(* shell. waitpid(), fork() and setitimer() may fail.                      *)
(***************************************************************************)
EXTENDS Integers, Sequences, FiniteSets

CONSTANTS
  Test,           \* the registered tests
  NoTest,         \* what a process that runs no test runs
  List,           \* the tests that check_test_skip() lets through, in order
  Limit,          \* time_limit() of a test, by what setitimer() makes of it:
                  \*   "finite", "none" (zero: no timer) or "bad" (EINVAL)
  Pid,            \* process identifiers that the kernel gives to children
  Helper,         \* identifiers of children that an Initializer started
  Parent,         \* the runner itself
  Configs,        \* the configurations config_t::parse() may leave behind
  BodyCodes,      \* what a test may pass to exit()
  MainReturns,    \* does the main() of the program return our status?
  HandlerMayHang, \* may exit() inside the SIGALRM handler block?
  MaxFaults,      \* bound: system calls that fail in a behaviour
  MaxStops        \* bound: stop signals sent in a behaviour

OK == 0
UNKNOWN_ERR == 1
KILLED == 11
TIMED_OUT == 12

Mode == {"UTEST", "PTEST", "MTEST"}
Config == [fork : BOOLEAN, mode : Mode, threads : Nat, debug : BOOLEAN,
           helpers : SUBSET Helper]

Child == Pid \cup Helper
Proc == Child \cup {Parent}

ASSUME ListAssumption ==
  /\ List \in Seq(Test)
  /\ \A i, j \in DOMAIN List : List[i] = List[j] => i = j
ASSUME ProcAssumption ==
  /\ Pid \cap Helper = {}
  /\ Parent \notin Child
ASSUME TestAssumption ==
  /\ NoTest \notin Test
  /\ Limit \in [Test -> {"finite", "none", "bad"}]
ASSUME ConfigAssumption == Configs \subseteq Config
ASSUME BoundAssumption ==
  /\ BodyCodes \subseteq Nat
  /\ MainReturns \in BOOLEAN
  /\ HandlerMayHang \in BOOLEAN
  /\ MaxFaults \in Nat
  /\ MaxStops \in Nat

VARIABLES
  cfg,            \* pCfg: the configuration of this run
  pc,             \* where the runner is
  next,           \* the position in List of the loop of test_main()
  res,            \* res of test_main()
  vTasks,         \* the task table; entries past nTasksActive are stale
  nTasksActive,
  total,          \* stats.total
  success,        \* stats.success
  failed,         \* stats.failed
  report,         \* what output_stats() printed, <<>> before
  exitcode,       \* the exit status of the runner, -1 while it runs
  at,             \* where a process is in launch_test()
  does,           \* the test it runs
  lres,           \* the result of launch(), then the exit status
  timer,          \* is its ITIMER_REAL armed?
  handler,        \* its disposition of SIGALRM: "default" or "exit"
  halted,         \* the processes stopped by a signal
  noted,          \* children with a stop or continue report to be waited for
  fate,           \* history: how the launched test ended
  executed,       \* history: the tests whose body was called and returned
  faults, stops   \* how much of the two bounds is spent

table == <<vTasks, nTasksActive>>
stats == <<total, success, failed>>
outcome == <<report, exitcode>>
runnerVars == <<cfg, pc, next, res, table, stats, outcome>>
alarm == <<timer, handler>>
signals == <<halted, noted>>
procVars == <<at, does, lres, alarm, signals>>
history == <<fate, executed>>
bounds == <<faults, stops>>
vars == <<runnerVars, procVars, history, bounds>>

\* Slip: the worker count applies in every mode.
nTasksMax_AnyMode == IF ~cfg.fork THEN 0 ELSE IF cfg.threads > 0 THEN cfg.threads ELSE 1

\* TestExecutor::init(): no table without fork, one entry unless unit tests.
nTasksMax ==
  IF ~cfg.fork THEN 0
  ELSE IF cfg.mode = "UTEST" /\ cfg.threads > 0 THEN cfg.threads
  ELSE 1

Active == 1..nTasksActive

\* launch(UnitTest) arms a timer, unless debugging.
Limited == cfg.mode = "UTEST" /\ ~cfg.debug

Program == {"before", "arm", "install", "body", "revert", "disarm", "after",
            "return"}
Ended == {"exited", "signaled"}
TestStage == Program \cup {"stuck", "returned"}
Stage == TestStage \cup Ended \cup {"free", "helper"}

RunnerAlive == pc \notin {"exited", "dead"}

Init ==
  /\ cfg \in Configs
  /\ pc = "loop" /\ next = 1 /\ res = OK
  /\ vTasks = [i \in 1..nTasksMax |->
                  [pid |-> Parent, test |-> NoTest, result |-> OK]]
  /\ nTasksActive = 0 /\ total = 0 /\ success = <<>> /\ failed = <<>>
  /\ report = <<>> /\ exitcode = -1
  /\ at = [p \in Proc |-> IF p \in cfg.helpers THEN "helper" ELSE "free"]
  /\ does = [p \in Proc |-> NoTest]
  /\ lres = [p \in Proc |-> OK]
  /\ timer = [p \in Proc |-> FALSE]
  /\ handler = [p \in Proc |-> "default"]
  /\ halted = {} /\ noted = {}
  /\ fate = [t \in Test |-> "none"] /\ executed = {}
  /\ faults = 0 /\ stops = 0

-----------------------------------------------------------------------------
(* The end of a process *)

\* A zombie; its parent sees the low byte of the exit code.
ChildEnds(p, how, code) ==
  /\ at' = [at EXCEPT ![p] = how]
  /\ lres' = [lres EXCEPT ![p] = code % 256]
  /\ timer' = [timer EXCEPT ![p] = FALSE]
  /\ halted' = halted \ {p}
  /\ noted' = noted \ {p}
  /\ fate' = [fate EXCEPT ![does[p]] =
                IF how = "exited" /\ code % 256 = OK THEN "ok" ELSE "bad"]
  /\ UNCHANGED <<runnerVars, does, handler, executed>>

\* Without fork a test takes the runner with it.
RunnerEnds(how, code) ==
  /\ pc' = "dead"
  /\ exitcode' = IF how = "exited" THEN code % 256 ELSE exitcode
  /\ at' = [at EXCEPT ![Parent] = "free"]
  /\ timer' = [timer EXCEPT ![Parent] = FALSE]
  /\ UNCHANGED <<cfg, next, res, table, stats, report, does, lres, handler,
                 signals, history>>

ProcessEnds(p, how, code) ==
  IF p = Parent THEN RunnerEnds(how, code) ELSE ChildEnds(p, how, code)

-----------------------------------------------------------------------------
(* launch_test() and launch(), in the process that runs the test *)

Runs(p, stage) == at[p] = stage /\ p \notin halted

GoTo(p, stage) == at' = [at EXCEPT ![p] = stage]

\* The before hooks return.
Before(p) ==
  /\ Runs(p, "before")
  /\ GoTo(p, IF Limited THEN "arm" ELSE "body")
  /\ UNCHANGED <<runnerVars, does, lres, alarm, signals, history, bounds>>

\* Slip: tv_usec is not filled in, and a limit below one second disarms.
SetTimer_WholeSeconds(p) ==
  /\ Runs(p, "arm")
  /\ Limit[does[p]] # "bad"
  /\ GoTo(p, "install")
  /\ UNCHANGED <<runnerVars, does, lres, alarm, signals, history, bounds>>

\* set_timeout(), first half: the timer runs from here on.
SetTimer(p) ==
  /\ Runs(p, "arm")
  /\ Limit[does[p]] # "bad"
  /\ timer' = [timer EXCEPT ![p] = Limit[does[p]] = "finite"]
  /\ GoTo(p, "install")
  /\ UNCHANGED <<runnerVars, does, lres, handler, signals, history, bounds>>

\* setitimer() refuses the limit: the handler is installed all the same, the
\* body is skipped, and launch() returns OK.
SetTimerFails(p) ==
  /\ Runs(p, "arm")
  /\ Limit[does[p]] = "bad"
  /\ handler' = [handler EXCEPT ![p] = "exit"]
  /\ lres' = [lres EXCEPT ![p] = OK]
  /\ GoTo(p, "after")
  /\ UNCHANGED <<runnerVars, does, timer, signals, history, bounds>>

\* set_timeout(), second half.
InstallHandler(p) ==
  /\ Runs(p, "install")
  /\ handler' = [handler EXCEPT ![p] = "exit"]
  /\ GoTo(p, "body")
  /\ UNCHANGED <<runnerVars, does, lres, timer, signals, history, bounds>>

\* configure(), init(), execute() and destroy() of the test return.
BodyReturn(p) ==
  /\ Runs(p, "body")
  /\ executed' = executed \cup {does[p]}
  /\ GoTo(p, IF Limited THEN "revert" ELSE "after")
  /\ UNCHANGED <<runnerVars, does, lres, alarm, signals, fate, bounds>>

\* kill_timeout(), first half: from here on the signal kills.
RevertHandler(p) ==
  /\ Runs(p, "revert")
  /\ handler' = [handler EXCEPT ![p] = "default"]
  /\ GoTo(p, "disarm")
  /\ UNCHANGED <<runnerVars, does, lres, timer, signals, history, bounds>>

\* Slip: kill_timeout() restores the disposition only.
KillTimer_HandlerOnly(p) ==
  /\ Runs(p, "disarm")
  /\ GoTo(p, "after")
  /\ UNCHANGED <<runnerVars, does, lres, alarm, signals, history, bounds>>

\* kill_timeout(), second half.
KillTimer(p) ==
  /\ Runs(p, "disarm")
  /\ timer' = [timer EXCEPT ![p] = FALSE]
  /\ GoTo(p, "after")
  /\ UNCHANGED <<runnerVars, does, lres, handler, signals, history, bounds>>

KillTimerFails(p) ==
  /\ Runs(p, "disarm")
  /\ faults < MaxFaults /\ faults' = faults + 1
  /\ lres' = [lres EXCEPT ![p] = UNKNOWN_ERR]
  /\ GoTo(p, "after")
  /\ UNCHANGED <<runnerVars, does, alarm, signals, history, stops>>

\* The after hooks return.
After(p) ==
  /\ Runs(p, "after")
  /\ GoTo(p, "return")
  /\ UNCHANGED <<runnerVars, does, lres, alarm, signals, history, bounds>>

\* In a child, submit() and test_main() return the result, and the process
\* exits with it if main() passes it on.
ChildReturns(p) ==
  /\ p # Parent
  /\ Runs(p, "return")
  /\ ChildEnds(p, "exited", IF MainReturns THEN lres[p] ELSE OK)
  /\ UNCHANGED bounds

\* Without fork, launch_test() returns to submit().
LaunchReturns ==
  /\ Runs(Parent, "return")
  /\ GoTo(Parent, "returned")
  /\ fate' = [fate EXCEPT ![does[Parent]] =
                IF lres[Parent] = OK THEN "ok" ELSE "bad"]
  /\ UNCHANGED <<runnerVars, does, lres, alarm, signals, executed, bounds>>

\* A failed assertion, or any other call of exit() by a hook or by the test.
UserExits(p) ==
  /\ at[p] \in {"before", "body", "after"} /\ p \notin halted
  /\ \E c \in BodyCodes : ProcessEnds(p, "exited", c)
  /\ UNCHANGED bounds

\* A fatal signal, at any point.
Crash(p) ==
  /\ at[p] \in Program \cup {"stuck"}
  /\ ProcessEnds(p, "signaled", OK)
  /\ UNCHANGED bounds

\* The timer expires: utest_timeout_handler() exits, the default disposition
\* kills.
Alarm(p) ==
  /\ timer[p] /\ p \notin halted
  /\ IF handler[p] = "exit" THEN ProcessEnds(p, "exited", TIMED_OUT)
                            ELSE ProcessEnds(p, "signaled", OK)
  /\ UNCHANGED bounds

\* The handler calls fprintf() and exit() from wherever the signal struck: if
\* that was inside the allocator or stdio, they may wait for a lock that this
\* same thread holds. SIGALRM stays blocked.
AlarmHangs(p) ==
  /\ HandlerMayHang
  /\ at[p] \in Program
  /\ timer[p] /\ p \notin halted /\ handler[p] = "exit"
  /\ GoTo(p, "stuck")
  /\ timer' = [timer EXCEPT ![p] = FALSE]
  /\ UNCHANGED <<runnerVars, does, lres, handler, signals, history, bounds>>

\* Somebody stops a child, and continues it.
Halt(p) ==
  /\ stops < MaxStops /\ stops' = stops + 1
  /\ p # Parent /\ p \notin halted
  /\ at[p] \in Program \cup {"helper", "stuck"}
  /\ halted' = halted \cup {p}
  /\ noted' = noted \cup {p}
  /\ UNCHANGED <<runnerVars, at, does, lres, alarm, history, faults>>

Resume(p) ==
  /\ p \in halted
  /\ halted' = halted \ {p}
  /\ noted' = noted \cup {p}
  /\ UNCHANGED <<runnerVars, at, does, lres, alarm, history, bounds>>

\* A child that an Initializer started ends on its own account.
HelperEnds(p) ==
  /\ Runs(p, "helper")
  /\ GoTo(p, "exited")
  /\ noted' = noted \ {p}
  /\ UNCHANGED <<runnerVars, does, lres, alarm, halted, history, bounds>>

-----------------------------------------------------------------------------
(* test_main(), submit() and wait() *)

\* The loop of test_main() is over; wait() begins.
LoopEnds ==
  /\ pc = "loop" /\ next > Len(List)
  /\ pc' = "drain"
  /\ UNCHANGED <<cfg, next, res, table, stats, outcome, procVars, history,
                 bounds>>

\* submit() of the next test: with fork it needs a free descriptor, without
\* fork it enters launch_test() at once.
Submit ==
  /\ pc = "loop" /\ next <= Len(List)
  /\ total' = total + 1
  /\ IF nTasksMax > 0
     THEN /\ pc' = "slot"
          /\ UNCHANGED <<at, does, lres>>
     ELSE /\ pc' = "launch"
          /\ GoTo(Parent, "before")
          /\ does' = [does EXCEPT ![Parent] = List[next]]
          /\ lres' = [lres EXCEPT ![Parent] = OK]
  /\ UNCHANGED <<cfg, next, res, table, success, failed, outcome, alarm,
                 signals, history, bounds>>

\* Slip: off by one.
SlotIsFree_OneMore == nTasksActive <= nTasksMax

\* submit() keeps waiting while there is no free descriptor.
SlotIsFree == nTasksActive < nTasksMax

\* The descriptor after the last active one, filled in.
TaskFor(p) ==
  [vTasks EXCEPT ![nTasksActive + 1] =
     [pid |-> p, test |-> List[next], result |-> OK]]

\* fork() succeeds: the child starts in launch_test() with the dispositions
\* of the runner and no timer; the runner goes on with the next test.
Fork(p) ==
  /\ pc = "slot" /\ SlotIsFree
  /\ at[p] = "free"
  /\ vTasks' = TaskFor(p)
  /\ nTasksActive' = nTasksActive + 1
  /\ pc' = "loop" /\ next' = next + 1
  /\ GoTo(p, "before")
  /\ does' = [does EXCEPT ![p] = List[next]]
  /\ lres' = [lres EXCEPT ![p] = OK]
  /\ handler' = [handler EXCEPT ![p] = handler[Parent]]
  /\ UNCHANGED <<cfg, res, stats, outcome, timer, signals, history, bounds>>

\* Slip: the loop of test_main() goes on after the error.
ForkFails_GoesOn ==
  /\ pc = "slot" /\ SlotIsFree
  /\ faults < MaxFaults /\ faults' = faults + 1
  /\ pc' = "loop" /\ next' = next + 1
  /\ UNCHANGED <<cfg, res, table, stats, outcome, procVars, history, stops>>

\* fork() fails: the descriptor is given back (its old pid stays in it), and
\* test_main() leaves the loop and does not wait.
ForkFails ==
  /\ pc = "slot" /\ SlotIsFree
  /\ faults < MaxFaults /\ faults' = faults + 1
  /\ vTasks' = TaskFor(vTasks[nTasksActive + 1].pid)
  /\ res' = UNKNOWN_ERR
  /\ pc' = "report"
  /\ UNCHANGED <<cfg, next, nTasksActive, stats, outcome, procVars, history,
                 stops>>

\* Without fork: submit() records the result of launch_test() and returns it.
SubmitReturns ==
  /\ pc = "launch" /\ at[Parent] = "returned"
  /\ IF lres[Parent] = OK
     THEN success' = Append(success, does[Parent]) /\ UNCHANGED failed
     ELSE failed' = Append(failed, does[Parent]) /\ UNCHANGED success
  /\ res' = lres[Parent]
  /\ GoTo(Parent, "free")
  /\ does' = [does EXCEPT ![Parent] = NoTest]
  /\ pc' = "check"
  /\ UNCHANGED <<cfg, next, table, total, outcome, lres, alarm, signals,
                 history, bounds>>

\* A test that returned an error ends the loop.
CheckResult ==
  /\ pc = "check"
  /\ IF res = OK THEN pc' = "loop" /\ next' = next + 1
                 ELSE pc' = "report" /\ UNCHANGED next
  /\ UNCHANGED <<cfg, res, table, stats, outcome, procVars, history, bounds>>

\* Slip: submit() only polls for a descriptor.
Waiting_AtTheEnd == pc \in {"drain", "dtor"} /\ nTasksActive > 0

\* The runner is in waitpid(): for a descriptor in submit(), for every task in
\* wait() after the loop, or in wait() called by the destructor.
Waiting ==
  \/ pc = "slot" /\ ~SlotIsFree
  \/ pc \in {"drain", "dtor"} /\ nTasksActive > 0

\* Slip: the search leaves out the last descriptor.
SlotsOf_SkipsLast(p) == {i \in 1..(nTasksActive - 1) : vTasks[i].pid = p}

\* The descriptors in which wait_for_child() finds a pid; it takes the first.
SlotsOf(p) == {i \in Active : vTasks[i].pid = p}

\* Slip: no WIFSIGNALED branch, the result stays as submit() set it.
ResultOf_ExitOnly(p) == IF at[p] = "exited" THEN lres[p] ELSE OK

\* The result of a child that ended.
ResultOf(p) == IF at[p] = "exited" THEN lres[p] ELSE KILLED

\* Slip: the descriptor is freed without the swap.
Collect_NoSwap(i, result) ==
  /\ IF result = OK
     THEN success' = Append(success, vTasks[i].test) /\ UNCHANGED failed
     ELSE failed' = Append(failed, vTasks[i].test) /\ UNCHANGED success
  /\ nTasksActive' = nTasksActive - 1
  /\ UNCHANGED vTasks

\* Slip: the swap comes before the statistics.
Collect_SwapFirst(i, result) ==
  /\ IF result = OK
     THEN success' = Append(success, vTasks[nTasksActive].test) /\ UNCHANGED failed
     ELSE failed' = Append(failed, vTasks[nTasksActive].test) /\ UNCHANGED success
  /\ vTasks' = [vTasks EXCEPT ![i] = vTasks[nTasksActive]]
  /\ nTasksActive' = nTasksActive - 1

\* wait_for_children() with the descriptor i of a child that ended: its result
\* goes to the statistics, and the last descriptor fills the gap.
Collect(i, result) ==
  /\ IF result = OK
     THEN success' = Append(success, vTasks[i].test) /\ UNCHANGED failed
     ELSE failed' = Append(failed, vTasks[i].test) /\ UNCHANGED success
  /\ vTasks' = [vTasks EXCEPT ![i] =
                  IF i < nTasksActive THEN vTasks[nTasksActive]
                  ELSE [pid |-> vTasks[i].pid, test |-> vTasks[i].test,
                        result |-> result]]
  /\ nTasksActive' = nTasksActive - 1

\* waitpid() returns a child that ended.
WaitReaps(p) ==
  /\ Waiting
  /\ p # Parent /\ at[p] \in Ended
  /\ GoTo(p, "free")
  /\ does' = [does EXCEPT ![p] = NoTest]
  /\ \E i \in SlotsOf(p) :
       /\ \A j \in SlotsOf(p) : i <= j
       /\ Collect(i, ResultOf(p))
  /\ UNCHANGED <<cfg, pc, next, res, total, outcome, lres, alarm, signals,
                 history, bounds>>

\* waitpid() returns a child that is not in the table: the null descriptor is
\* dereferenced.
WaitReapsStranger(p) ==
  /\ Waiting
  /\ p # Parent /\ at[p] \in Ended /\ SlotsOf(p) = {}
  /\ GoTo(p, "free")
  /\ pc' = "dead"
  /\ UNCHANGED <<cfg, next, res, table, stats, outcome, does, lres, alarm,
                 signals, history, bounds>>

\* waitpid() returns a child that was stopped or continued: it is printed, and
\* wait_for_child() waits again.
WaitNotes(p) ==
  /\ Waiting
  /\ p \in noted
  /\ noted' = noted \ {p}
  /\ UNCHANGED <<runnerVars, at, does, lres, alarm, halted, history, bounds>>

\* main() returns the result of test_main(), or drops it.
RunnerExits(status) ==
  /\ pc' = "exited"
  /\ exitcode' = IF MainReturns THEN status ELSE OK
  /\ timer' = [timer EXCEPT ![Parent] = FALSE]

\* waitpid() fails: submit() and wait() return the error, and test_main() does
\* not wait again; the destructor ignores it.
WaitFails ==
  /\ Waiting
  /\ faults < MaxFaults /\ faults' = faults + 1
  /\ IF pc = "dtor"
     THEN RunnerExits(res) /\ UNCHANGED res
     ELSE res' = UNKNOWN_ERR /\ pc' = "report" /\ UNCHANGED <<exitcode, timer>>
  /\ UNCHANGED <<cfg, next, table, stats, report, at, does, lres, handler,
                 signals, history, stops>>

\* Slip: test_main() does not call wait().
Drained_AtOnce ==
  /\ pc = "drain"
  /\ pc' = "report"
  /\ UNCHANGED <<cfg, next, res, table, stats, outcome, procVars, history,
                 bounds>>

\* wait() has nothing left to wait for.
Drained ==
  /\ pc = "drain" /\ nTasksActive = 0
  /\ pc' = "report"
  /\ UNCHANGED <<cfg, next, res, table, stats, outcome, procVars, history,
                 bounds>>

\* output_stats() and finalize_global().
OutputStats ==
  /\ pc = "report"
  /\ report' = <<[total |-> total, success |-> success, failed |-> failed]>>
  /\ pc' = "dtor"
  /\ UNCHANGED <<cfg, next, res, table, stats, exitcode, procVars, history,
                 bounds>>

\* ~TestExecutor() has nothing left to wait for.
Destroyed ==
  /\ pc = "dtor" /\ nTasksActive = 0
  /\ RunnerExits(res)
  /\ UNCHANGED <<cfg, next, res, table, stats, report, at, does, lres, handler,
                 signals, history, bounds>>

\* Nothing is left to do for a runner that is gone.
Gone == ~RunnerAlive /\ UNCHANGED vars

-----------------------------------------------------------------------------
RunnerStep ==
  \/ LoopEnds \/ Submit \/ ForkFails \/ SubmitReturns \/ CheckResult
  \/ WaitFails \/ Drained \/ OutputStats \/ Destroyed
  \/ \E p \in Pid : Fork(p)
  \/ \E p \in Child : WaitReaps(p) \/ WaitReapsStranger(p) \/ WaitNotes(p)

\* What a process does between its start and its end, the body excepted.
ProgramStep(p) ==
  \/ Before(p) \/ SetTimer(p) \/ SetTimerFails(p) \/ InstallHandler(p)
  \/ RevertHandler(p) \/ KillTimer(p) \/ KillTimerFails(p) \/ After(p)
  \/ ChildReturns(p)
  \/ p = Parent /\ LaunchReturns

\* What the test and the world outside do to a process.
Environment(p) ==
  \/ BodyReturn(p) \/ UserExits(p) \/ Crash(p) \/ AlarmHangs(p)
  \/ Halt(p) \/ Resume(p) \/ HelperEnds(p)

Next ==
  \/ RunnerStep
  \/ \E p \in Proc : ProgramStep(p) \/ Alarm(p) \/ Environment(p)
  \/ Gone

Spec == Init /\ [][Next]_vars

\* The kernel schedules the runner and the processes, and delivers an alarm
\* that is due. Hooks return; nothing makes a test body return.
Fairness ==
  /\ WF_vars(RunnerStep)
  /\ \A p \in Proc : WF_vars(ProgramStep(p)) /\ WF_vars(Alarm(p))

LiveSpec == Spec /\ Fairness

-----------------------------------------------------------------------------
(* What is true of every run *)

Task == [pid : Pid \cup {Parent}, test : Test \cup {NoTest}, result : Nat]

ControlType ==
  /\ cfg \in Configs
  /\ pc \in {"loop", "slot", "launch", "check", "drain", "report", "dtor",
             "exited", "dead"}
  /\ next \in 1..(Len(List) + 1)
  /\ pc \in {"slot", "launch", "check"} => next <= Len(List)
  /\ res \in Nat
  /\ exitcode \in Int

TableType ==
  /\ nTasksActive \in 0..nTasksMax
  /\ vTasks \in [1..nTasksMax -> Task]
  /\ \A i \in Active : vTasks[i].test \in Test

StatsType ==
  /\ total \in Nat
  /\ success \in Seq(Test) /\ failed \in Seq(Test)
  /\ report \in Seq([total : Nat, success : Seq(Test), failed : Seq(Test)])

ProcessType ==
  /\ at \in [Proc -> Stage]
  /\ does \in [Proc -> Test \cup {NoTest}]
  /\ \A p \in Proc : at[p] \in TestStage => does[p] \in Test
  /\ lres \in [Proc -> Nat]
  /\ timer \in [Proc -> BOOLEAN]
  /\ handler \in [Proc -> {"default", "exit"}]
  /\ halted \subseteq Child /\ noted \subseteq Child

HistoryType ==
  /\ fate \in [Test -> {"none", "ok", "bad"}]
  /\ executed \subseteq Test
  /\ faults \in 0..MaxFaults /\ stops \in 0..MaxStops

\* Types, with the indices that submit() and wait_for_child() use: the loop
\* reads inside the list, the active descriptors are inside the table and name
\* a test, and so does a process that is in launch_test().
TypeOK == ControlType /\ TableType /\ StatsType /\ ProcessType /\ HistoryType

Elements(s) == {s[i] : i \in DOMAIN s}

\* The active part of the task table lists the test processes that were not
\* waited for yet: no pid twice, each with the test its process runs, and no
\* test process outside it. The swap that frees a descriptor, the descriptor
\* given back by a failed fork and the reuse of pids must all preserve it, or
\* wait_for_child() credits a result to another test or finds no task at all.
TableMatchesChildren ==
  /\ \A i \in Active :
       /\ vTasks[i].pid \in Pid
       /\ at[vTasks[i].pid] # "free"
       /\ does[vTasks[i].pid] = vTasks[i].test
  /\ \A i, j \in Active : vTasks[i].pid = vTasks[j].pid => i = j
  /\ \A p \in Pid :
       at[p] # "free" => \E i \in Active : vTasks[i].pid = p

\* The statistics hold the verdict that the test itself earned, whatever the
\* order in which the processes ended and were waited for.
VerdictFaithful ==
  /\ \A t \in Elements(success) : fate[t] = "ok"
  /\ \A t \in Elements(failed) : fate[t] = "bad"

NoRepeats(s) == \A i, j \in DOMAIN s : s[i] = s[j] => i = j

Judged == Elements(success) \cup Elements(failed)
InProgress == {vTasks[i].test : i \in Active}

\* No test is lost or counted twice: between two submissions, "launched" is
\* the sum of the succeeded, the failed and the tests in progress, and every
\* test launched so far is in exactly one of the three.
EveryTestAccounted ==
  /\ NoRepeats(success) /\ NoRepeats(failed)
  /\ Elements(success) \cap Elements(failed) = {}
  /\ Judged \cap InProgress = {}
  /\ pc \in {"loop", "drain"} =>
       /\ total = next - 1
       /\ total = Len(success) + Len(failed) + nTasksActive
       /\ Judged \cup InProgress = {List[i] : i \in 1..(next - 1)}

\* A performance or a manual test never shares the machine with another test
\* that this runner started; unit tests are at most as many as the jobs.
TestsAtATime ==
  LET busy == {p \in Proc : at[p] \in Program \cup {"stuck"}
                            /\ does[p] # NoTest} IN
  /\ Cardinality(busy) <= IF cfg.mode = "UTEST" /\ cfg.threads > 0
                          THEN cfg.threads ELSE 1
  /\ ~cfg.fork => busy \subseteq {Parent}

\* Statistics printed by a run without error cover every selected test, and no
\* process of a test outlives them.
CompleteReport ==
  pc \in {"dtor", "exited"} /\ res = OK =>
    /\ report[1].total = Len(List)
    /\ Elements(report[1].success) \cup Elements(report[1].failed)
         = Elements(List)
    /\ \A p \in Pid : at[p] = "free"

\* The time limit of a test covers its body and no hook: outside of set_timeout
\* and kill_timeout no timer is armed, unless kill_timeout reported an error,
\* and the next test of a run without fork starts with none.
TimerConfined ==
  \A p \in Proc :
    timer[p] => \/ at[p] \in {"install", "body", "revert", "disarm"}
                \/ lres[p] # OK

\* The runner itself crashes only when a test in its own process does, or when
\* it waits for a child that it did not start.
RunnerSurvives == pc = "dead" => ~cfg.fork \/ cfg.helpers # {}

-----------------------------------------------------------------------------
(* What the runner promises: the abstract specification TestRun *)

Phase ==
  CASE ~RunnerAlive                -> "stopped"
    [] pc = "dtor"                 -> "published"
    [] pc = "report" /\ res # OK   -> "aborted"
    [] OTHER                       -> "testing"

VerdictIn(good, bad) ==
  [t \in Test |-> IF t \in Elements(good) THEN "ok"
                  ELSE IF t \in Elements(bad) THEN "bad" ELSE "none"]

TR == INSTANCE TestRun WITH
  jobs    <- IF nTasksMax = 0 THEN 1 ELSE nTasksMax,
  phase   <- Phase,
  running <- InProgress \cup ({does[Parent]} \ {NoTest}),
  verdict <- VerdictIn(success, failed),
  report  <- IF report = <<>> THEN VerdictIn(<<>>, <<>>)
             ELSE VerdictIn(report[1].success, report[1].failed)

\* The runner with its processes and its task table implements TestRun.
ImplementsTestRun == TR!Spec

-----------------------------------------------------------------------------
(* Liveness *)

Bounded == Limited /\ \A t \in Test : Limit[t] # "none"

\* Unit tests with a time limit never keep the runner: whatever their bodies
\* do, it comes to its end.
RunnerEndsEventually == Bounded ~> ~RunnerAlive

\* A test that ended is recorded, even when other tests never end.
EndedTestsAreRecorded ==
  \A t \in Test :
    fate[t] # "none" ~>
      t \in Elements(success) \cup Elements(failed) \/ ~RunnerAlive

\* A test recorded as succeeded was executed to its end, if bodies call exit()
\* only with codes that tell a failure. The code makes one exception: a time
\* limit that setitimer() refuses skips the body, and the test succeeds.
SuccessMeansExecuted ==
  (\A code \in BodyCodes : code % 256 # 0) =>
    \A t \in Elements(success) :
      t \in executed \/ (Limited /\ Limit[t] = "bad")

-----------------------------------------------------------------------------
(* What the documentation says, and the code does not do *)

\* status.h: OK is the successful status, FAILED says that the task failed.
StatusTellsFailure == pc = "exited" /\ exitcode = OK => failed = <<>>
=============================================================================
