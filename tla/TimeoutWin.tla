----------------------------- MODULE TimeoutWin -----------------------------
(***************************************************************************)
(* The time limit of unit tests on Windows: set_timeout(), thread_proc()   *)
(* and kill_timeout() of src/src/main/executor.cpp in the processes of a   *)
(* session. The mutex and the waitable timer have names, so that all the   *)
(* processes alive at a time work with the same two kernel objects, which  *)
(* last as long as a handle to them.                                       *)
(*                                                                         *)
(* Time passes in ticks; the runner keeps up to Jobs processes.            *)
(***************************************************************************)
EXTENDS Integers, FiniteSets

CONSTANTS
  Procs,    \* the processes of the unit tests
  Jobs,     \* TestExecutor::nTasksMax
  Limits    \* the possible results of UnitTest::time_limit(), in ticks

ASSUME TimeoutAssumption ==
  /\ IsFiniteSet(Procs)
  /\ Jobs \in Nat \ {0}
  /\ Limits \subseteq Nat

NoOne == <<>>

VARIABLES
  limit,      \* time_limit() of the test of each process
  pc,         \* where the main thread of each process is
  thread,     \* where hThread is: "none", "waiting", "owner" or "done"
  verdict,    \* the exit code of each process
  elapsed,    \* ticks since the timer was set, up to the limit
  holders,    \* the processes with a handle: [lock, timer]
  owner,      \* the process and thread that own the mutex
  left        \* ticks to the signal of the timer; 0 is signaled, -1 not set

process == <<limit, pc, thread, verdict, elapsed>>
vars == <<process, holders, owner, left>>

Init ==
  /\ limit \in [Procs -> Limits]
  /\ pc = [p \in Procs |-> "absent"]
  /\ thread = [p \in Procs |-> "none"]
  /\ verdict = [p \in Procs |-> "none"]
  /\ elapsed = [p \in Procs |-> 0]
  /\ holders = [lock |-> {}, timer |-> {}]
  /\ owner = NoOne /\ left = -1

Go(p, label) == pc' = [pc EXCEPT ![p] = label]

\* An object disappears with its last handle; a thread that ends gives up the
\* mutex, which is then abandoned, as good as free for a wait.
Close(p, names, ended) ==
  /\ holders' = [o \in DOMAIN holders |->
                   IF o \in names THEN holders[o] \ {p} ELSE holders[o]]
  /\ owner' = IF owner \in {<<p, t>> : t \in ended} \/ holders'.lock = {}
              THEN NoOne ELSE owner
  /\ left' = IF holders'.timer = {} THEN -1 ELSE left

\* The process ends with all its threads and handles.
Ends(p, code) ==
  /\ Go(p, "ended")
  /\ verdict' = [verdict EXCEPT ![p] = code]
  /\ thread' = [thread EXCEPT ![p] = "done"]
  /\ Close(p, {"lock", "timer"}, {"main", "thread"})

-----------------------------------------------------------------------------
(* The main thread *)

\* submit(): a process is created once there is a place for it.
Start(p) ==
  /\ pc[p] = "absent"
  /\ Cardinality({q \in Procs : pc[q] \notin {"absent", "ended"}}) < Jobs
  /\ Go(p, "create_lock")
  /\ UNCHANGED <<limit, thread, verdict, elapsed, holders, owner, left>>

\* Slip: the mutex is not owned from the start.
CreateLock_NotOwned(p) ==
  /\ pc[p] = "create_lock"
  /\ holders' = [holders EXCEPT !.lock = @ \cup {p}]
  /\ Go(p, "create_timer")
  /\ UNCHANGED <<limit, thread, verdict, elapsed, owner, left>>

\* CreateMutexW(): the caller owns a mutex that it creates, not one that it
\* opens.
CreateLock(p) ==
  /\ pc[p] = "create_lock"
  /\ holders' = [holders EXCEPT !.lock = @ \cup {p}]
  /\ owner' = IF holders.lock = {} THEN <<p, "main">> ELSE owner
  /\ Go(p, "create_timer")
  /\ UNCHANGED <<limit, thread, verdict, elapsed, left>>

\* CreateWaitableTimerW()
CreateTimer(p) ==
  /\ pc[p] = "create_timer"
  /\ holders' = [holders EXCEPT !.timer = @ \cup {p}]
  /\ Go(p, "set_timer")
  /\ UNCHANGED <<limit, thread, verdict, elapsed, owner, left>>

\* Slip: whole seconds, of two ticks each.
SetTimer_WholeSeconds(p) ==
  /\ pc[p] = "set_timer"
  /\ left' = 2 * (limit[p] \div 2)
  /\ Go(p, "create_thread")
  /\ UNCHANGED <<limit, thread, verdict, elapsed, holders, owner>>

\* SetWaitableTimer(): set anew, not signaled unless the time is not ahead.
SetTimer(p) ==
  /\ pc[p] = "set_timer"
  /\ left' = limit[p]
  /\ Go(p, "create_thread")
  /\ UNCHANGED <<limit, thread, verdict, elapsed, holders, owner>>

CreateThread(p) ==
  /\ pc[p] = "create_thread"
  /\ thread' = [thread EXCEPT ![p] = "waiting"]
  /\ Go(p, "body")
  /\ UNCHANGED <<limit, verdict, elapsed, holders, owner, left>>

\* One of the four calls fails: the handles are closed, and launch() skips
\* the body and returns the code of a success.
SetTimeoutFails(p) ==
  /\ pc[p] \in {"create_lock", "create_timer", "set_timer", "create_thread"}
  /\ Close(p, {"lock", "timer"}, {})
  /\ Go(p, "returned")
  /\ UNCHANGED <<limit, thread, verdict, elapsed>>

\* The body returns; a body that hangs never does.
BodyReturns(p) ==
  /\ pc[p] = "body"
  /\ Go(p, "release")
  /\ UNCHANGED <<limit, thread, verdict, elapsed, holders, owner, left>>

\* The body calls exit(), or crashes.
BodyFails(p) ==
  /\ pc[p] = "body"
  /\ Ends(p, "failed")
  /\ UNCHANGED <<limit, elapsed>>

\* kill_timeout(), ReleaseMutex(): fails, unheeded, if another thread owns it.
Release(p) ==
  /\ pc[p] = "release"
  /\ owner' = IF owner = <<p, "main">> THEN NoOne ELSE owner
  /\ Go(p, "join")
  /\ UNCHANGED <<limit, thread, verdict, elapsed, holders, left>>

\* kill_timeout(): the thread has ended, the handles are closed.
Join(p) ==
  /\ pc[p] = "join" /\ thread[p] = "done"
  /\ Close(p, {"lock", "timer"}, {})
  /\ Go(p, "returned")
  /\ UNCHANGED <<limit, thread, verdict, elapsed>>

\* main() returns.
Returns(p) ==
  /\ pc[p] = "returned"
  /\ Ends(p, "ok")
  /\ UNCHANGED <<limit, elapsed>>

-----------------------------------------------------------------------------
(* thread_proc() and time *)

Waits(p) == thread[p] = "waiting" /\ pc[p] # "ended"

\* WaitForMultipleObjects(): the mutex comes first, free or abandoned.
TakeLock(p) ==
  /\ Waits(p) /\ owner = NoOne
  /\ owner' = <<p, "thread">>
  /\ thread' = [thread EXCEPT ![p] = "owner"]
  /\ UNCHANGED <<limit, pc, verdict, elapsed, holders, left>>

\* The thread returns and abandons the mutex.
ThreadEnds(p) ==
  /\ thread[p] = "owner"
  /\ thread' = [thread EXCEPT ![p] = "done"]
  /\ Close(p, {}, {"thread"})
  /\ UNCHANGED <<limit, pc, verdict, elapsed>>

\* Slip: the thread reports and returns.
TimesOut_NoExit(p) ==
  /\ Waits(p) /\ owner # NoOne /\ left = 0
  /\ thread' = [thread EXCEPT ![p] = "done"]
  /\ UNCHANGED <<limit, pc, verdict, elapsed, holders, owner, left>>

\* The timer is signaled: ExitProcess().
TimesOut(p) ==
  /\ Waits(p) /\ owner # NoOne /\ left = 0
  /\ Ends(p, "timed_out")
  /\ UNCHANGED <<limit, elapsed>>

\* Processes with a test whose time runs.
Timed(p) == pc[p] \in {"create_thread", "body", "release", "join"}

Tick ==
  /\ \/ left > 0
     \/ \E p \in Procs : Timed(p) /\ elapsed[p] < limit[p]
  /\ left' = IF left > 0 THEN left - 1 ELSE left
  /\ elapsed' = [p \in Procs |->
                   IF Timed(p) /\ elapsed[p] < limit[p] THEN elapsed[p] + 1
                   ELSE elapsed[p]]
  /\ UNCHANGED <<limit, pc, thread, verdict, holders, owner>>

AllEnded == (\A p \in Procs : pc[p] = "ended") /\ UNCHANGED vars

Main(p) ==
  \/ Start(p) \/ CreateLock(p) \/ CreateTimer(p) \/ SetTimer(p)
  \/ CreateThread(p) \/ Release(p) \/ Join(p) \/ Returns(p)

Thread(p) == TakeLock(p) \/ ThreadEnds(p) \/ TimesOut(p)

Next ==
  \/ \E p \in Procs :
       \/ Main(p) \/ SetTimeoutFails(p) \/ BodyReturns(p) \/ BodyFails(p)
       \/ Thread(p)
  \/ Tick
  \/ AllEnded

\* The system schedules every thread, and time passes; nothing makes a body
\* return.
Fairness ==
  /\ \A p \in Procs : WF_vars(Main(p)) /\ WF_vars(Thread(p))
  /\ WF_vars(Tick)

Spec == Init /\ [][Next]_vars /\ Fairness

-----------------------------------------------------------------------------
(* Properties *)

\* A test is reported as timed out only if its own limit has passed.
TimedOutOnlyLate ==
  \A p \in Procs : verdict[p] = "timed_out" => elapsed[p] = limit[p]

\* While a body runs, the thread that watches it waits, and only the timer can
\* release it, at the end of the limit of this test.
BodyIsWatched ==
  \A p \in Procs : pc[p] = "body" =>
    /\ thread[p] = "waiting" /\ owner = <<p, "main">>
    /\ elapsed[p] + left = limit[p]

\* Every test process ends, whatever its body does.
ProcessesEnd == \A p \in Procs : <>(pc[p] = "ended")
=============================================================================
