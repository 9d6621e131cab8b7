-------------------------- MODULE TimeoutWinProofs --------------------------
(***************************************************************************)
(* With one process at a time the time limit on Windows is exact, for all  *)
(* finite sets of tests, all limits and behaviours of any length. With     *)
(* more than one it is not: see the run win_shared.                        *)
(***************************************************************************)
EXTENDS TimeoutWin, TLAPS, FiniteSetTheorems

-----------------------------------------------------------------------------
(* The inductive invariant *)

Early == {"absent", "create_lock", "create_timer", "set_timer"}
Labels == Early \cup {"create_thread", "body", "release", "join", "returned",
                      "ended"}
Alive(p) == pc[p] \notin {"absent", "ended"}

TypeOK ==
  /\ limit \in [Procs -> Nat]
  /\ pc \in [Procs -> Labels]
  /\ thread \in [Procs -> {"none", "waiting", "owner", "done"}]
  /\ verdict \in [Procs -> {"none", "ok", "failed", "timed_out"}]
  /\ elapsed \in [Procs -> Nat]
  /\ holders \in [lock : SUBSET Procs, timer : SUBSET Procs]
  /\ left \in Int

\* The next process starts when the one before has ended.
OneAlive == \A p, q \in Procs : Alive(p) /\ Alive(q) => p = q

\* A process holds the two objects from their creation to kill_timeout().
HoldsWhatItMade(p) ==
  /\ p \in holders.lock =>
       pc[p] \in {"create_timer", "set_timer", "create_thread", "body",
                  "release", "join"}
  /\ p \in holders.timer <=>
       pc[p] \in {"set_timer", "create_thread", "body", "release", "join"}

\* Its main thread owns the mutex until it releases it; then the mutex is free
\* for the other thread.
OwnsTheLock(p) ==
  /\ pc[p] \in {"create_timer", "set_timer", "create_thread", "body",
                "release"} => owner = <<p, "main">>
  /\ pc[p] = "join" =>
       owner = IF thread[p] = "owner" THEN <<p, "thread">> ELSE NoOne

\* The other thread waits from its creation until the release.
ThreadWaits(p) ==
  /\ pc[p] \in Early \cup {"create_thread"} => thread[p] = "none"
  /\ pc[p] \in {"body", "release"} => thread[p] = "waiting"
  /\ pc[p] = "join" => thread[p] # "none"
  /\ pc[p] = "returned" => thread[p] \in {"none", "done"}
  /\ pc[p] = "ended" => thread[p] = "done"

\* The timer counts down what is left of the time of this test.
TimeAddsUp(p) ==
  /\ pc[p] \in Early => elapsed[p] = 0
  /\ Timed(p) => left >= 0 /\ elapsed[p] + left = limit[p]

\* A verdict comes with the end of the process, that of the timer on time.
VerdictAtEnd(p) ==
  /\ pc[p] # "ended" => verdict[p] = "none"
  /\ verdict[p] = "timed_out" => elapsed[p] = limit[p]

Good(p) ==
  /\ HoldsWhatItMade(p) /\ OwnsTheLock(p) /\ ThreadWaits(p)
  /\ TimeAddsUp(p) /\ VerdictAtEnd(p)

IInv == TypeOK /\ OneAlive /\ \A p \in Procs : Good(p)

-----------------------------------------------------------------------------
(* Steps of one process *)

\* No other process lives, and no process starts while one lives.
LEMMA AloneAtStart ==
  ASSUME IInv, Jobs = 1, NEW p \in Procs, Start(p)
  PROVE  \A q \in Procs : ~Alive(q)
<1> DEFINE A == {q \in Procs : pc[q] \notin {"absent", "ended"}}
<1>1. IsFiniteSet(A)
  BY TimeoutAssumption, FS_Subset
<1>2. Cardinality(A) \in Nat /\ Cardinality(A) < 1
  BY <1>1, FS_CardinalityType DEF Start
<1>3. A = {}
  BY <1>1, <1>2, FS_EmptySet
<1> QED
  BY <1>3 DEF Alive

\* Nor does another one live while p does.
LEMMA AloneWhenAlive ==
  ASSUME IInv, NEW p \in Procs, Alive(p)
  PROVE  \A q \in Procs \ {p} : ~Alive(q)
  BY DEF IInv, OneAlive

\* What a step of p leaves alone.
Only(p) ==
  /\ pc' = [pc EXCEPT ![p] = pc'[p]]
  /\ thread' = [thread EXCEPT ![p] = thread'[p]]
  /\ verdict' = [verdict EXCEPT ![p] = verdict'[p]]
  /\ UNCHANGED <<limit, elapsed>>
  /\ holders'.lock \ {p} \subseteq holders.lock
  /\ holders'.timer \ {p} \subseteq holders.timer

\* The other processes, which do not live, stay good.
LEMMA OthersStayGood ==
  ASSUME IInv, TypeOK', NEW p \in Procs, \A q \in Procs \ {p} : ~Alive(q),
         Only(p), Good(p)'
  PROVE  IInv'
<1>1. \A q \in Procs \ {p} :
        /\ pc[q] \in {"absent", "ended"} /\ pc'[q] = pc[q]
        /\ thread'[q] = thread[q] /\ verdict'[q] = verdict[q]
        /\ elapsed'[q] = elapsed[q] /\ limit'[q] = limit[q]
        /\ q \in holders'.lock => q \in holders.lock
        /\ q \in holders'.timer => q \in holders.timer
  BY DEF IInv, TypeOK, Only, Alive
<1>2. OneAlive'
  BY <1>1 DEF OneAlive, Alive
<1>3. ASSUME NEW q \in Procs \ {p} PROVE Good(q)'
  <2>1. Good(q)
    BY DEF IInv
  <2>2. HoldsWhatItMade(q)'
    BY <1>1, <2>1 DEF Good, HoldsWhatItMade
  <2>3. OwnsTheLock(q)'
    BY <1>1, <2>1 DEF Good, OwnsTheLock
  <2>4. ThreadWaits(q)'
    BY <1>1, <2>1 DEF Good, ThreadWaits
  <2>5. TimeAddsUp(q)'
    BY <1>1, <2>1 DEF Good, TimeAddsUp, Early, Timed
  <2>6. VerdictAtEnd(q)'
    BY <1>1, <2>1 DEF Good, VerdictAtEnd
  <2> QED BY <2>2, <2>3, <2>4, <2>5, <2>6 DEF Good
<1> QED
  BY <1>2, <1>3 DEF IInv

\* The handles of the only process that lives are the only ones.
LEMMA OnlyHolder ==
  ASSUME IInv, NEW p \in Procs, Alive(p)
  PROVE  holders.lock \subseteq {p} /\ holders.timer \subseteq {p}
  BY AloneWhenAlive DEF IInv, TypeOK, Good, HoldsWhatItMade, Alive

\* When it closes them, the mutex and the timer are gone.
LEMMA ClosesTheLast ==
  ASSUME IInv, NEW p \in Procs, Alive(p), NEW ended,
         Close(p, {"lock", "timer"}, ended)
  PROVE  /\ holders' \in [lock : SUBSET Procs, timer : SUBSET Procs]
         /\ holders'.lock = {} /\ holders'.timer = {}
         /\ owner' = NoOne /\ left' = -1
<1>1. holders \in [lock : SUBSET Procs, timer : SUBSET Procs]
  BY DEF IInv, TypeOK
<1>2. DOMAIN holders = {"lock", "timer"}
  BY <1>1
<1>3. holders' = [lock |-> holders.lock \ {p}, timer |-> holders.timer \ {p}]
  BY <1>1, <1>2 DEF Close
<1>4. holders'.lock = {} /\ holders'.timer = {}
  BY <1>3, OnlyHolder
<1> QED
  BY <1>1, <1>3, <1>4 DEF Close

\* A process that ends is good.
LEMMA EndsWell ==
  ASSUME IInv, NEW p \in Procs, Alive(p), UNCHANGED <<limit, elapsed>>,
         NEW code \in {"ok", "failed", "timed_out"}, Ends(p, code),
         code = "timed_out" => elapsed[p] = limit[p]
  PROVE  IInv'
<1>1. /\ holders' \in [lock : SUBSET Procs, timer : SUBSET Procs]
      /\ holders'.lock = {} /\ holders'.timer = {}
      /\ owner' = NoOne /\ left' = -1
  BY ClosesTheLast DEF Ends
<1>2. /\ pc' = [pc EXCEPT ![p] = "ended"]
      /\ thread' = [thread EXCEPT ![p] = "done"]
      /\ verdict' = [verdict EXCEPT ![p] = code]
  BY DEF Ends, Go
<1>3. TypeOK'
  BY <1>1, <1>2 DEF IInv, TypeOK, Labels
<1>4. pc'[p] = "ended" /\ thread'[p] = "done" /\ verdict'[p] = code
  BY <1>2 DEF IInv, TypeOK
<1>5. Good(p)'
  BY <1>1, <1>4
     DEF Good, HoldsWhatItMade, OwnsTheLock, ThreadWaits, TimeAddsUp, Timed,
         VerdictAtEnd, Early
<1>6. Only(p)
  BY <1>1, <1>2, <1>4 DEF Only
<1> QED
  BY <1>3, <1>5, <1>6, AloneWhenAlive, OthersStayGood

\* The first call of a process.
LEMMA StartGood ==
  ASSUME IInv, Jobs = 1, NEW p \in Procs, Start(p)
  PROVE  IInv'
<1> USE DEF Start, Go
<1>1. \A q \in Procs \ {p} : ~Alive(q)
  BY AloneAtStart
<1>2. TypeOK'
  BY <1>1 DEF IInv, TypeOK, Labels, Early
<1>3. Good(p) /\ TypeOK
  BY DEF IInv
<1>4. HoldsWhatItMade(p)'
  BY <1>1, <1>3 DEF TypeOK, Good, HoldsWhatItMade
<1>5. OwnsTheLock(p)'
  BY <1>1, <1>3 DEF TypeOK, Good, OwnsTheLock, HoldsWhatItMade
<1>6. ThreadWaits(p)'
  BY <1>1, <1>3 DEF TypeOK, Good, ThreadWaits, Early
<1>7. TimeAddsUp(p)'
  BY <1>1, <1>3 DEF TypeOK, Good, TimeAddsUp, Timed, Early
<1>8. VerdictAtEnd(p)'
  BY <1>1, <1>3 DEF TypeOK, Good, VerdictAtEnd
<1>9. Only(p)
  BY <1>1, <1>3 DEF TypeOK, Only
<1> QED
  BY <1>1, <1>2, <1>4, <1>5, <1>6, <1>7, <1>8, <1>9, OthersStayGood DEF Good

\* The mutex is new, and owned.
LEMMA CreateLockGood ==
  ASSUME IInv, NEW p \in Procs, CreateLock(p)
  PROVE  IInv'
<1> USE DEF CreateLock, Go
<1>1. Alive(p) /\ \A q \in Procs \ {p} : ~Alive(q)
  BY AloneWhenAlive DEF Alive
<1>2. TypeOK /\ Good(p) /\ owner' = <<p, "main">>
  <2>1. TypeOK /\ Good(p)
    BY DEF IInv
  <2>2. holders.lock = {}
    BY <1>1, <2>1, OnlyHolder DEF Good, HoldsWhatItMade
  <2> QED BY <2>1, <2>2
<1>3. TypeOK'
  BY <1>2 DEF TypeOK, Labels, Early
<1>4. HoldsWhatItMade(p)'
  BY <1>2 DEF TypeOK, Good, HoldsWhatItMade
<1>5. OwnsTheLock(p)'
  BY <1>2 DEF TypeOK, Good, OwnsTheLock
<1>6. ThreadWaits(p)'
  BY <1>2 DEF TypeOK, Good, ThreadWaits, Early
<1>7. TimeAddsUp(p)'
  BY <1>2 DEF TypeOK, Good, TimeAddsUp, Timed, Early
<1>8. VerdictAtEnd(p)'
  BY <1>2 DEF TypeOK, Good, VerdictAtEnd
<1>9. Only(p)
  BY <1>2 DEF TypeOK, Only
<1> QED
  BY <1>1, <1>3, <1>4, <1>5, <1>6, <1>7, <1>8, <1>9, OthersStayGood DEF Good

\* The timer is not set yet.
LEMMA CreateTimerGood ==
  ASSUME IInv, NEW p \in Procs, CreateTimer(p)
  PROVE  IInv'
<1> USE DEF CreateTimer, Go
<1>1. Alive(p) /\ \A q \in Procs \ {p} : ~Alive(q)
  BY AloneWhenAlive DEF Alive
<1>2. TypeOK /\ Good(p)
  BY DEF IInv
<1>3. TypeOK'
  BY <1>2 DEF TypeOK, Labels, Early
<1>4. HoldsWhatItMade(p)'
  BY <1>2 DEF TypeOK, Good, HoldsWhatItMade
<1>5. OwnsTheLock(p)'
  BY <1>2 DEF TypeOK, Good, OwnsTheLock
<1>6. ThreadWaits(p)'
  BY <1>2 DEF TypeOK, Good, ThreadWaits, Early
<1>7. TimeAddsUp(p)'
  BY <1>2 DEF TypeOK, Good, TimeAddsUp, Timed, Early
<1>8. VerdictAtEnd(p)'
  BY <1>2 DEF TypeOK, Good, VerdictAtEnd
<1>9. Only(p)
  BY <1>2 DEF TypeOK, Only
<1> QED
  BY <1>1, <1>3, <1>4, <1>5, <1>6, <1>7, <1>8, <1>9, OthersStayGood DEF Good

\* The whole limit is left.
LEMMA SetTimerGood ==
  ASSUME IInv, NEW p \in Procs, SetTimer(p)
  PROVE  IInv'
<1> USE DEF SetTimer, Go
<1>1. Alive(p) /\ \A q \in Procs \ {p} : ~Alive(q)
  BY AloneWhenAlive DEF Alive
<1>2. TypeOK /\ Good(p) /\ limit[p] \in Nat /\ elapsed[p] = 0
  BY DEF IInv, TypeOK, Good, TimeAddsUp, Early
<1>3. TypeOK'
  BY <1>2 DEF TypeOK, Labels, Early
<1>4. HoldsWhatItMade(p)'
  BY <1>2 DEF TypeOK, Good, HoldsWhatItMade
<1>5. OwnsTheLock(p)'
  BY <1>2 DEF TypeOK, Good, OwnsTheLock
<1>6. ThreadWaits(p)'
  BY <1>2 DEF TypeOK, Good, ThreadWaits, Early
<1>7. TimeAddsUp(p)'
  BY <1>2 DEF TypeOK, Good, TimeAddsUp, Timed, Early
<1>8. VerdictAtEnd(p)'
  BY <1>2 DEF TypeOK, Good, VerdictAtEnd
<1>9. Only(p)
  BY <1>2 DEF TypeOK, Only
<1> QED
  BY <1>1, <1>3, <1>4, <1>5, <1>6, <1>7, <1>8, <1>9, OthersStayGood DEF Good

\* The thread waits.
LEMMA CreateThreadGood ==
  ASSUME IInv, NEW p \in Procs, CreateThread(p)
  PROVE  IInv'
<1> USE DEF CreateThread, Go
<1>1. Alive(p) /\ \A q \in Procs \ {p} : ~Alive(q)
  BY AloneWhenAlive DEF Alive
<1>2. TypeOK /\ Good(p)
  BY DEF IInv
<1>3. TypeOK'
  BY <1>2 DEF TypeOK, Labels, Early
<1>4. HoldsWhatItMade(p)'
  BY <1>2 DEF TypeOK, Good, HoldsWhatItMade
<1>5. OwnsTheLock(p)'
  BY <1>2 DEF TypeOK, Good, OwnsTheLock
<1>6. ThreadWaits(p)'
  BY <1>2 DEF TypeOK, Good, ThreadWaits, Early
<1>7. TimeAddsUp(p)'
  BY <1>2 DEF TypeOK, Good, TimeAddsUp, Timed, Early
<1>8. VerdictAtEnd(p)'
  BY <1>2 DEF TypeOK, Good, VerdictAtEnd
<1>9. Only(p)
  BY <1>2 DEF TypeOK, Only
<1> QED
  BY <1>1, <1>3, <1>4, <1>5, <1>6, <1>7, <1>8, <1>9, OthersStayGood DEF Good

\* The end of a body changes nothing else.
LEMMA BodyReturnsGood ==
  ASSUME IInv, NEW p \in Procs, BodyReturns(p)
  PROVE  IInv'
<1> USE DEF BodyReturns, Go
<1>1. Alive(p) /\ \A q \in Procs \ {p} : ~Alive(q)
  BY AloneWhenAlive DEF Alive
<1>2. TypeOK /\ Good(p)
  BY DEF IInv
<1>3. TypeOK'
  BY <1>2 DEF TypeOK, Labels, Early
<1>4. HoldsWhatItMade(p)'
  BY <1>2 DEF TypeOK, Good, HoldsWhatItMade
<1>5. OwnsTheLock(p)'
  BY <1>2 DEF TypeOK, Good, OwnsTheLock
<1>6. ThreadWaits(p)'
  BY <1>2 DEF TypeOK, Good, ThreadWaits, Early
<1>7. TimeAddsUp(p)'
  BY <1>2 DEF TypeOK, Good, TimeAddsUp, Timed, Early
<1>8. VerdictAtEnd(p)'
  BY <1>2 DEF TypeOK, Good, VerdictAtEnd
<1>9. Only(p)
  BY <1>2 DEF TypeOK, Only
<1> QED
  BY <1>1, <1>3, <1>4, <1>5, <1>6, <1>7, <1>8, <1>9, OthersStayGood DEF Good

\* The mutex is free.
LEMMA ReleaseGood ==
  ASSUME IInv, NEW p \in Procs, Release(p)
  PROVE  IInv'
<1> USE DEF Release, Go
<1>1. Alive(p) /\ \A q \in Procs \ {p} : ~Alive(q)
  BY AloneWhenAlive DEF Alive
<1>2. TypeOK /\ Good(p) /\ thread[p] = "waiting" /\ owner' = NoOne
  BY DEF IInv, Good, OwnsTheLock, ThreadWaits
<1>3. TypeOK'
  BY <1>2 DEF TypeOK, Labels, Early
<1>4. HoldsWhatItMade(p)'
  BY <1>2 DEF TypeOK, Good, HoldsWhatItMade
<1>5. OwnsTheLock(p)'
  BY <1>2 DEF TypeOK, Good, OwnsTheLock
<1>6. ThreadWaits(p)'
  BY <1>2 DEF TypeOK, Good, ThreadWaits, Early
<1>7. TimeAddsUp(p)'
  BY <1>2 DEF TypeOK, Good, TimeAddsUp, Timed, Early
<1>8. VerdictAtEnd(p)'
  BY <1>2 DEF TypeOK, Good, VerdictAtEnd
<1>9. Only(p)
  BY <1>2 DEF TypeOK, Only
<1> QED
  BY <1>1, <1>3, <1>4, <1>5, <1>6, <1>7, <1>8, <1>9, OthersStayGood DEF Good

\* A failure half-way leaves no handle.
LEMMA SetTimeoutFailsGood ==
  ASSUME IInv, NEW p \in Procs, SetTimeoutFails(p)
  PROVE  IInv'
<1> USE DEF SetTimeoutFails, Go
<1>1. Alive(p) /\ \A q \in Procs \ {p} : ~Alive(q)
  BY AloneWhenAlive DEF Alive
<1>2. /\ holders' \in [lock : SUBSET Procs, timer : SUBSET Procs]
      /\ holders'.lock = {} /\ holders'.timer = {}
      /\ owner' = NoOne /\ left' = -1
  BY <1>1, ClosesTheLast
<1>3. TypeOK /\ Good(p)
  BY DEF IInv
<1>4. /\ pc' = [pc EXCEPT ![p] = "returned"]
      /\ UNCHANGED <<limit, thread, verdict, elapsed>>
  OBVIOUS
<1>5. TypeOK'
  BY <1>2, <1>3, <1>4 DEF TypeOK, Labels
<1>6. pc'[p] = "returned" /\ thread[p] \in {"none", "done"}
  BY <1>3, <1>4 DEF TypeOK, Good, ThreadWaits, Early
<1>7. HoldsWhatItMade(p)' /\ OwnsTheLock(p)'
  BY <1>2, <1>6 DEF HoldsWhatItMade, OwnsTheLock
<1>8. ThreadWaits(p)' /\ TimeAddsUp(p)'
  BY <1>4, <1>6 DEF ThreadWaits, TimeAddsUp, Timed, Early
<1>9. VerdictAtEnd(p)' /\ Only(p)
  BY <1>2, <1>3, <1>4, <1>6 DEF TypeOK, Only, Good, VerdictAtEnd
<1> QED
  BY <1>1, <1>5, <1>7, <1>8, <1>9, OthersStayGood DEF Good

\* Nor does kill_timeout().
LEMMA JoinGood ==
  ASSUME IInv, NEW p \in Procs, Join(p)
  PROVE  IInv'
<1> USE DEF Join, Go
<1>1. Alive(p) /\ \A q \in Procs \ {p} : ~Alive(q)
  BY AloneWhenAlive DEF Alive
<1>2. /\ holders' \in [lock : SUBSET Procs, timer : SUBSET Procs]
      /\ holders'.lock = {} /\ holders'.timer = {}
      /\ owner' = NoOne /\ left' = -1
  BY <1>1, ClosesTheLast
<1>3. TypeOK /\ Good(p)
  BY DEF IInv
<1>4. /\ pc' = [pc EXCEPT ![p] = "returned"]
      /\ UNCHANGED <<limit, thread, verdict, elapsed>>
  OBVIOUS
<1>5. TypeOK'
  BY <1>2, <1>3, <1>4 DEF TypeOK, Labels
<1>6. pc'[p] = "returned" /\ thread[p] \in {"none", "done"}
  BY <1>3, <1>4 DEF TypeOK, Good, ThreadWaits, Early
<1>7. HoldsWhatItMade(p)' /\ OwnsTheLock(p)'
  BY <1>2, <1>6 DEF HoldsWhatItMade, OwnsTheLock
<1>8. ThreadWaits(p)' /\ TimeAddsUp(p)'
  BY <1>4, <1>6 DEF ThreadWaits, TimeAddsUp, Timed, Early
<1>9. VerdictAtEnd(p)' /\ Only(p)
  BY <1>2, <1>3, <1>4, <1>6 DEF TypeOK, Only, Good, VerdictAtEnd
<1> QED
  BY <1>1, <1>5, <1>7, <1>8, <1>9, OthersStayGood DEF Good

\* A body that fails ends the process.
LEMMA BodyFailsGood ==
  ASSUME IInv, NEW p \in Procs, BodyFails(p)
  PROVE  IInv'
  BY EndsWell DEF BodyFails, Alive

\* main() that returns ends the process.
LEMMA ReturnsGood ==
  ASSUME IInv, NEW p \in Procs, Returns(p)
  PROVE  IInv'
  BY EndsWell DEF Returns, Alive

\* A thread waits from the creation to the join.
LEMMA WaitsWhere ==
  ASSUME IInv, NEW p \in Procs, Waits(p)
  PROVE  pc[p] \in {"body", "release", "join"} /\ Alive(p)
<1>1. TypeOK /\ ThreadWaits(p)
  BY DEF IInv, Good
<1> QED
  BY <1>1 DEF TypeOK, ThreadWaits, Waits, Labels, Early, Alive

\* The timer releases it at the end of the limit of its own test.
LEMMA TimesOutGood ==
  ASSUME IInv, NEW p \in Procs, TimesOut(p)
  PROVE  IInv' /\ elapsed[p] = limit[p]
<1>1. TypeOK /\ OwnsTheLock(p) /\ TimeAddsUp(p)
  BY DEF IInv, Good
<1>2. pc[p] \in {"body", "release", "join"} /\ Alive(p)
  BY WaitsWhere DEF TimesOut
<1>3. left = 0 /\ elapsed[p] + left = limit[p]
  BY <1>1, <1>2 DEF TimesOut, TimeAddsUp, Timed
<1>4. elapsed[p] = limit[p]
  BY <1>1, <1>3 DEF TypeOK
<1> QED
  BY <1>2, <1>4, EndsWell DEF TimesOut

\* The thread can own the mutex only after the release.
LEMMA TakeLockGood ==
  ASSUME IInv, NEW p \in Procs, TakeLock(p)
  PROVE  IInv'
<1>1. TypeOK /\ Good(p)
  BY DEF IInv
<1>2. pc[p] = "join" /\ Alive(p) /\ \A q \in Procs \ {p} : ~Alive(q)
  <2>1. pc[p] \in {"body", "release", "join"} /\ Alive(p)
    BY WaitsWhere DEF TakeLock
  <2>2. owner # <<p, "main">>
    BY DEF TakeLock, NoOne
  <2> QED BY <1>1, <2>1, <2>2, AloneWhenAlive DEF Good, OwnsTheLock
<1>3. /\ thread' = [thread EXCEPT ![p] = "owner"]
      /\ owner' = <<p, "thread">> /\ holders' = holders
      /\ UNCHANGED <<limit, pc, verdict, elapsed, left>>
  BY DEF TakeLock
<1>4. thread'[p] = "owner"
  BY <1>1, <1>3 DEF TypeOK
<1>5. TypeOK'
  BY <1>1, <1>3 DEF TypeOK
<1>6. HoldsWhatItMade(p)' /\ TimeAddsUp(p)' /\ VerdictAtEnd(p)'
  BY <1>1, <1>3 DEF Good, HoldsWhatItMade, TimeAddsUp, Timed, VerdictAtEnd
<1>7. OwnsTheLock(p)' /\ ThreadWaits(p)'
  BY <1>2, <1>3, <1>4 DEF OwnsTheLock, ThreadWaits, Early
<1>8. Only(p)
  BY <1>1, <1>3, <1>4 DEF TypeOK, Only
<1> QED
  BY <1>2, <1>5, <1>6, <1>7, <1>8, OthersStayGood DEF Good

\* When it ends the mutex is free again.
LEMMA ThreadEndsGood ==
  ASSUME IInv, NEW p \in Procs, ThreadEnds(p)
  PROVE  IInv'
<1>1. TypeOK /\ Good(p)
  BY DEF IInv
<1>2. pc[p] = "join" /\ Alive(p) /\ \A q \in Procs \ {p} : ~Alive(q)
  <2>1. pc[p] = "join"
    BY <1>1 DEF ThreadEnds, TypeOK, Labels, Early, Good, ThreadWaits
  <2> QED BY <2>1, AloneWhenAlive DEF Alive
<1>3. /\ thread' = [thread EXCEPT ![p] = "done"]
      /\ owner' = NoOne /\ holders' = holders
      /\ UNCHANGED <<limit, pc, verdict, elapsed, left>>
  <2>1. owner = <<p, "thread">>
    BY <1>1, <1>2 DEF ThreadEnds, Good, OwnsTheLock
  <2>2. holders' = holders
    <3>1. DOMAIN holders = {"lock", "timer"}
      BY <1>1 DEF TypeOK
    <3>2. holders' = [o \in {"lock", "timer"} |-> holders[o]]
      BY <3>1 DEF ThreadEnds, Close
    <3> QED BY <1>1, <3>2 DEF TypeOK
  <2>3. owner' = NoOne
    BY <2>1 DEF ThreadEnds, Close
  <2>4. p \in holders.timer
    BY <1>1, <1>2 DEF Good, HoldsWhatItMade
  <2> QED BY <2>2, <2>3, <2>4 DEF ThreadEnds, Close
<1>4. thread'[p] = "done"
  BY <1>1, <1>3 DEF TypeOK
<1>5. TypeOK'
  BY <1>1, <1>3 DEF TypeOK
<1>6. HoldsWhatItMade(p)' /\ TimeAddsUp(p)' /\ VerdictAtEnd(p)'
  BY <1>1, <1>3 DEF Good, HoldsWhatItMade, TimeAddsUp, Timed, VerdictAtEnd
<1>7. OwnsTheLock(p)' /\ ThreadWaits(p)'
  BY <1>2, <1>3, <1>4 DEF OwnsTheLock, ThreadWaits, Early
<1>8. Only(p)
  BY <1>1, <1>3, <1>4 DEF TypeOK, Only
<1> QED
  BY <1>2, <1>5, <1>6, <1>7, <1>8, OthersStayGood DEF Good

\* Time passes for the timer and for the test that it is set for.
LEMMA TickGood ==
  ASSUME IInv, Tick
  PROVE  IInv'
<1>1. TypeOK /\ OneAlive /\ \A p \in Procs : Good(p)
  BY DEF IInv
<1>2. /\ left' = IF left > 0 THEN left - 1 ELSE left
      /\ \A p \in Procs :
           elapsed'[p] = IF Timed(p) /\ elapsed[p] < limit[p]
                         THEN elapsed[p] + 1 ELSE elapsed[p]
      /\ UNCHANGED <<limit, pc, thread, verdict, holders, owner>>
  BY DEF Tick
<1>3. TypeOK'
  BY <1>1, <1>2 DEF TypeOK, Tick
<1>4. OneAlive'
  BY <1>1, <1>2 DEF OneAlive, Alive
<1>5. ASSUME NEW p \in Procs PROVE Good(p)'
  <2>1. HoldsWhatItMade(p)' /\ OwnsTheLock(p)' /\ ThreadWaits(p)'
    BY <1>1, <1>2 DEF Good, HoldsWhatItMade, OwnsTheLock, ThreadWaits
  <2>2. elapsed[p] \in Nat /\ limit[p] \in Nat /\ left \in Int
    BY <1>1 DEF TypeOK
  <2>3. TimeAddsUp(p) /\ VerdictAtEnd(p)
    BY <1>1 DEF Good
  <2>4. CASE Timed(p)
    <3>1. pc[p] \notin Early /\ pc[p] # "ended" /\ Timed(p)'
      BY <1>2, <2>4 DEF Timed, Early
    <3>2. left >= 0 /\ elapsed[p] + left = limit[p]
      BY <2>3, <2>4 DEF TimeAddsUp
    <3>3. left' >= 0 /\ elapsed'[p] + left' = limit[p]
      BY <1>2, <2>2, <2>4, <3>2
    <3> QED BY <1>2, <2>1, <2>3, <3>1, <3>3
            DEF Good, TimeAddsUp, VerdictAtEnd
  <2>5. CASE ~Timed(p)
    <3>1. elapsed'[p] = elapsed[p] /\ ~Timed(p)'
      BY <1>2, <2>5 DEF Timed
    <3> QED BY <1>2, <2>1, <2>3, <3>1 DEF Good, TimeAddsUp, VerdictAtEnd
  <2> QED BY <2>4, <2>5
<1> QED
  BY <1>3, <1>4, <1>5 DEF IInv

-----------------------------------------------------------------------------
(* The theorems *)

\* The invariant holds at first.
LEMMA InitGood == Init => IInv
<1> SUFFICES ASSUME Init PROVE IInv
  OBVIOUS
<1>1. TypeOK
  <2>1. limit \in [Procs -> Nat]
    BY TimeoutAssumption DEF Init
  <2>2. /\ pc \in [Procs -> Labels] /\ elapsed \in [Procs -> Nat]
        /\ thread \in [Procs -> {"none", "waiting", "owner", "done"}]
        /\ verdict \in [Procs -> {"none", "ok", "failed", "timed_out"}]
    BY DEF Init, Labels, Early
  <2> QED BY <2>1, <2>2 DEF Init, TypeOK
<1>2. OneAlive
  BY DEF Init, OneAlive, Alive
<1>3. ASSUME NEW p \in Procs PROVE Good(p)
  BY DEF Init, Good, HoldsWhatItMade, OwnsTheLock, ThreadWaits, TimeAddsUp,
         Timed, VerdictAtEnd, Early
<1> QED
  BY <1>1, <1>2, <1>3 DEF IInv

\* Every step keeps it.
LEMMA NextGood ==
  ASSUME Jobs = 1
  PROVE  IInv /\ [Next]_vars => IInv'
<1> SUFFICES ASSUME IInv, [Next]_vars PROVE IInv'
  OBVIOUS
<1>1. ASSUME NEW p \in Procs, Main(p) PROVE IInv'
  BY <1>1, StartGood, CreateLockGood, CreateTimerGood, SetTimerGood,
     CreateThreadGood, ReleaseGood, JoinGood, ReturnsGood DEF Main
<1>2. ASSUME NEW p \in Procs,
             SetTimeoutFails(p) \/ BodyReturns(p) \/ BodyFails(p)
      PROVE  IInv'
  BY <1>2, SetTimeoutFailsGood, BodyReturnsGood, BodyFailsGood
<1>3. ASSUME NEW p \in Procs, Thread(p) PROVE IInv'
  BY <1>3, TakeLockGood, ThreadEndsGood, TimesOutGood DEF Thread
<1>4. ASSUME UNCHANGED vars PROVE IInv'
  BY <1>4
     DEF vars, process, IInv, TypeOK, OneAlive, Alive, Good, HoldsWhatItMade,
         OwnsTheLock, ThreadWaits, TimeAddsUp, Timed, VerdictAtEnd
<1> QED
  BY <1>1, <1>2, <1>3, <1>4, TickGood DEF Next, AllEnded

\* So it always holds.
LEMMA Invariant ==
  ASSUME Jobs = 1
  PROVE  Spec => []IInv
  BY InitGood, NextGood, PTL DEF Spec

\* With one job at a time set_timeout() and thread_proc() report a test as
\* timed out only when its own limit has passed.
THEOREM TimedOutOnlyLateHolds ==
  ASSUME Jobs = 1
  PROVE  Spec => []TimedOutOnlyLate
<1>1. IInv => TimedOutOnlyLate
  BY DEF IInv, Good, VerdictAtEnd, TimedOutOnlyLate
<1> QED
  BY <1>1, Invariant, PTL

\* With one job at a time a thread waits while a body runs, its main thread
\* owns the mutex, and the timer says how much of the limit is left.
THEOREM BodyIsWatchedHolds ==
  ASSUME Jobs = 1
  PROVE  Spec => []BodyIsWatched
<1>1. IInv => BodyIsWatched
  BY DEF IInv, Good, OwnsTheLock, ThreadWaits, TimeAddsUp, Timed,
         BodyIsWatched
<1> QED
  BY <1>1, Invariant, PTL
=============================================================================
