-------------------------- MODULE TestMainProofs ---------------------------
(***************************************************************************)
(* The life of a session for any number of tests, initializers and jobs,   *)
(* every configuration, both platforms, and behaviours of any length: the  *)
(* hooks nest, no line is printed twice, the output file tells what was    *)
(* measured, and the runner and its tests end in the right order.          *)
(***************************************************************************)
EXTENDS TestMain, TLAPS, SequenceTheorems, FiniteSetTheorems

-----------------------------------------------------------------------------
(* The inductive invariant *)

Child == 1..Tests
Setup == {"mkdirs", "initialize", "sysinfo", "list", "outfile"}
InTest == {"before", "body", "measured", "after"}
Final == {"report", "finalize", "destroy"}
Labels ==
  {"absent", "mkdirs", "initialize", "sysinfo", "list", "outfile", "loop",
   "before", "body", "measured", "after", "wait", "report", "finalize",
   "destroy", "exited", "killed"}

\* The first a initializers initialized, the before hooks of the first b
\* called.
Stack(a, b) ==
  [k \in 1..(a + b) |-> IF k <= a THEN <<"initialize", k>>
                        ELSE <<"before", k - a>>]

TypeOK ==
  /\ cfg \in Configs
  /\ pc \in [Procs -> Labels]
  /\ n \in [Procs -> 0..(Inits + 1)]
  /\ test \in [Procs -> 1..(Tests + 1)]
  /\ res \in [Procs -> BOOLEAN]
  /\ buffer \in [Procs -> SUBSET Lines]
  /\ console \in [Lines -> Nat]
  /\ file \in Seq({"old", "info", "measured"} \X Nat)
  /\ running \in SUBSET Child
  /\ judged \in [success : SUBSET Child, failed : SUBSET Child]

\* The runner executes tests itself or has processes for them, as many as it
\* has places for, and waits for them unless a submission or a wait failed; it
\* exits after them unless the wait of its destructor failed.
RunnerRole ==
  /\ pc[Runner] # "absent"
  /\ pc[Runner] \in Setup =>
       test[Runner] = 1 /\ judged.success = {} /\ judged.failed = {}
  /\ pc[Runner] \in InTest => ~cfg.fork /\ test[Runner] <= Tests
  /\ pc[Runner] \in Final \cup {"exited"} /\ res[Runner] => running = {}
  /\ pc[Runner] = "exited" => running = {} \/ deserted
  /\ pc[Runner] = "killed" =>
       ~cfg.fork \/ (~cfg.posix /\ Places > MaxObjects)
  /\ pc[Runner] = "measured" => cfg.mode = "ptest"
  /\ running \subseteq 1..(test[Runner] - 1)
  /\ ~cfg.fork => running = {}
  /\ Cardinality(running) <= Places

\* The process of a test is in the table while it lives, and executes its own
\* test only.
ChildRole(t) ==
  /\ pc[t] \notin {"mkdirs", "sysinfo", "outfile"}
  /\ pc[t] \notin {"absent", "exited", "killed"} => t \in running
  /\ t \in running => pc[t] # "absent"
  /\ t >= test[Runner] \/ ~cfg.fork => pc[t] = "absent"
  /\ pc[t] \in {"initialize", "list", "loop"} => test[t] <= t
  /\ pc[t] \in InTest => test[t] = t
  /\ pc[t] = "measured" => cfg.mode = "ptest"

Roles == RunnerRole /\ \A t \in Child : ChildRole(t)

\* What is open where.
Hooks(p) ==
  /\ pc[p] = "absent" => n[p] = 1
  /\ pc[p] \in {"absent", "mkdirs", "destroy"} => open[p] = Stack(0, 0)
  /\ pc[p] = "initialize" => n[p] >= 1 /\ open[p] = Stack(n[p] - 1, 0)
  /\ pc[p] \in {"sysinfo", "list", "outfile", "loop", "wait", "report"} =>
       open[p] = Stack(Inits, 0)
  /\ pc[p] = "before" => n[p] >= 1 /\ open[p] = Stack(Inits, n[p] - 1)
  /\ pc[p] \in {"body", "measured"} => open[p] = Stack(Inits, Inits)
  /\ pc[p] = "after" => n[p] <= Inits /\ open[p] = Stack(Inits, n[p])
  /\ pc[p] = "finalize" => n[p] <= Inits /\ open[p] = Stack(n[p], 0)
  /\ pc[p] = "exited" =>
       open[p] \in {Stack(0, 0), Stack(Inits, 0), Stack(Inits, Inits)}

Launching(t) == <<"launching", t>>
Result(t) == <<"result", t>>
Statistics(t) == <<"measured", t>>
Totals == <<"statistics", 0>>

\* A line that no process has printed.
Fresh(l) == console[l] = 0 /\ \A p \in Procs : l \notin buffer[p]

\* A line of the runner that it has printed.
Told(l) == console[l] = 1 \/ l \in buffer[Runner]

\* A line is in one place at most.
OneCopy ==
  /\ \A l \in Lines : console[l] <= 1
  /\ \A p \in Procs : \A l \in buffer[p] : console[l] = 0
  /\ \A p, q \in Procs : p # q => buffer[p] \cap buffer[q] = {}

\* A test that is not measured yet.
ToMeasure(t) ==
  IF cfg.fork
  THEN pc[t] \in {"absent", "initialize", "list", "loop", "before", "body",
                  "measured"}
  ELSE \/ t > test[Runner]
       \/ /\ t = test[Runner]
          /\ pc[Runner] \in Setup \cup {"loop", "before", "body", "measured"}

\* Which lines are still to come.
ToCome ==
  /\ pc[Runner] \notin {"finalize", "destroy", "exited", "killed"} =>
       Fresh(Totals)
  /\ \A t \in Child :
       /\ pc[Runner] \in Setup \cup InTest \cup {"loop"} /\ t >= test[Runner]
            => Fresh(Launching(t))
       /\ t >= test[Runner] \/ t \in running => Fresh(Result(t))
       /\ ToMeasure(t) => Fresh(Statistics(t))

\* Which lines have been printed.
Came ==
  /\ pc[Runner] \in {"finalize", "destroy"} => Told(Totals)
  /\ cfg.fork =>
       /\ \A t \in running : console[Launching(t)] = 1
       /\ \A t \in judged.success \cup judged.failed :
            /\ console[Launching(t)] = 1 /\ Told(Result(t))
            /\ pc[Runner] = "exited" =>
                 console[Totals] = 1 /\ console[Result(t)] = 1

Printed == OneCopy /\ ToCome /\ Came

Working == {"loop", "wait"} \cup InTest \cup Final
Records == (Inits + 1)..Len(file)
Recorded(t) == \E k \in Records : file[k][2] = t
RecordsBelow(t) == \A k \in Records : file[k][2] < t

\* The runner writes the information of the initializers first, then come the
\* tests that are measured, one after the other.
Sections ==
  /\ Len(file) >= Inits
  /\ \A k \in 1..Inits : file[k] = <<"info", k>>
  /\ \A k \in Records :
       /\ file[k][1] = "measured"
       /\ \A m \in (Inits + 1)..(k - 1) : file[m][2] < file[k][2]
  /\ cfg.mode # "ptest" => Len(file) = Inits

\* Tests to be measured are further on.
Ahead ==
  /\ RecordsBelow(test[Runner] + 1)
  /\ cfg.fork \/ pc[Runner] \in {"loop", "before", "body", "measured"} =>
       RecordsBelow(test[Runner])
  /\ \A t \in Child :
       pc[t] \in {"initialize", "list", "loop", "before", "body", "measured"} =>
         RecordsBelow(t)

\* Whatever succeeded was measured.
Behind ==
  cfg.mode = "ptest" =>
    /\ pc[Runner] = "after" => Recorded(test[Runner])
    /\ \A t \in judged.success : Recorded(t)
    /\ \A t \in Child :
         pc[t] \in {"after", "wait", "exited"} \cup Final /\ res[t] =>
           Recorded(t)

Filed ==
  cfg.outfile = "writable" =>
    /\ pc[Runner] = "outfile" /\ n[Runner] > 0 =>
         /\ Len(file) = n[Runner] - 1
         /\ \A k \in 1..Len(file) : file[k] = <<"info", k>>
    /\ pc[Runner] \in Working => Sections /\ Ahead /\ Behind

\* In every process some hooks are open.
Nested ==
  /\ open \in [Procs -> {Stack(a, b) : a, b \in 0..Inits}]
  /\ \A p \in Procs : Hooks(p)

IInv == TypeOK /\ Roles /\ Nested /\ Printed /\ Filed

-----------------------------------------------------------------------------
(* The open calls *)

Calls == {"initialize", "before"} \X Nat

\* A stack is a sequence of opening calls, known by its two heights.
LEMMA StackType ==
  ASSUME NEW a \in Nat, NEW b \in Nat
  PROVE  /\ Stack(a, b) \in Seq(Calls) /\ Len(Stack(a, b)) = a + b
         /\ \A k \in 1..(a + b) :
              /\ k <= a => Stack(a, b)[k] = <<"initialize", k>>
              /\ k > a => Stack(a, b)[k] = <<"before", k - a>>
<1>1. Stack(a, b) \in [1..(a + b) -> Calls]
  BY DEF Stack, Calls
<1>2. Stack(a, b) \in Seq(Calls)
  BY <1>1, SeqDef
<1>3. DOMAIN Stack(a, b) = 1..(a + b)
  BY <1>1
<1>4. Len(Stack(a, b)) = a + b
  BY <1>2, <1>3, LenProperties
<1> QED
  BY <1>2, <1>4 DEF Stack

\* The last call of an initializer.
LEMMA StackTop ==
  ASSUME NEW c \in Nat, c > 0
  PROVE  Len(Stack(c, 0)) = c /\ Stack(c, 0)[c] = <<"initialize", c>>
<1>1. Len(Stack(c, 0)) = c + 0
  BY StackType
<1>2. \A k \in 1..(c + 0) : k <= c => Stack(c, 0)[k] = <<"initialize", k>>
  BY StackType
<1> QED
  BY <1>1, <1>2

\* Nothing is open.
LEMMA StackEmpty == Stack(0, 0) = <<>>
  BY StackType, EmptySeq

\* How to recognise a sequence that is longer by one element.
LEMMA AppendIs ==
  ASSUME NEW S, NEW s \in Seq(S), NEW t \in Seq(S), NEW e \in S,
         Len(t) = Len(s) + 1, \A i \in 1..Len(s) : t[i] = s[i],
         t[Len(s) + 1] = e
  PROVE  Append(s, e) = t /\ SubSeq(t, 1, Len(t) - 1) = s
<1>1. Len(s) \in Nat /\ Len(t) \in Nat
  BY LenProperties
<1>2. Append(s, e) = t
  <2> DEFINE u == Append(s, e)
  <2>1. /\ u \in Seq(S) /\ Len(u) = Len(s) + 1
        /\ \A i \in 1..Len(s) : u[i] = s[i]
        /\ u[Len(s) + 1] = e
    BY AppendProperties
  <2> HIDE DEF u
  <2>2. \A i \in 1..Len(u) : u[i] = t[i]
    BY <1>1, <2>1
  <2>3. u = t
    BY <2>1, <2>2, SeqEqual
  <2> QED BY <2>3 DEF u
<1>3. SubSeq(t, 1, Len(t) - 1) = s
  <2> DEFINE u == SubSeq(t, 1, Len(t) - 1)
  <2>1. \A i \in 1..(Len(t) - 1) : t[i] \in S
    BY <1>1, ElementOfSeq
  <2>2. /\ u \in Seq(S)
        /\ Len(u) = IF 1 <= Len(t) - 1 THEN Len(t) - 1 - 1 + 1 ELSE 0
        /\ \A i \in 1..(Len(t) - 1 - 1 + 1) : u[i] = t[1 + i - 1]
    BY <1>1, <2>1, SubSeqProperties
  <2> HIDE DEF u
  <2>3. Len(u) = Len(s) /\ \A i \in 1..Len(u) : u[i] = s[i]
    BY <1>1, <2>2
  <2>4. u = s
    BY <2>2, <2>3, SeqEqual
  <2> QED BY <2>4 DEF u
<1> QED
  BY <1>2, <1>3

\* One call more or less.
LEMMA StackOpens ==
  ASSUME NEW a \in Nat, NEW b \in Nat
  PROVE  /\ Append(Stack(a, 0), <<"initialize", a + 1>>) = Stack(a + 1, 0)
         /\ SubSeq(Stack(a + 1, 0), 1, a) = Stack(a, 0)
         /\ Append(Stack(a, b), <<"before", b + 1>>) = Stack(a, b + 1)
         /\ SubSeq(Stack(a, b + 1), 1, a + b) = Stack(a, b)
<1>1. <<"initialize", a + 1>> \in Calls /\ <<"before", b + 1>> \in Calls
  BY DEF Calls
<1>2. /\ Append(Stack(a, 0), <<"initialize", a + 1>>) = Stack(a + 1, 0)
      /\ SubSeq(Stack(a + 1, 0), 1, a) = Stack(a, 0)
  <2> DEFINE s == Stack(a, 0)
             t == Stack(a + 1, 0)
  <2>1. s \in Seq(Calls) /\ t \in Seq(Calls)
    BY StackType
  <2>2. Len(s) = a /\ \A k \in 1..a : s[k] = <<"initialize", k>>
    <3>1. Len(s) = a + 0 /\ \A k \in 1..(a + 0) :
                              k <= a => s[k] = <<"initialize", k>>
      BY StackType
    <3> HIDE DEF s
    <3> QED BY <3>1
  <2>3. Len(t) = a + 1 /\ \A k \in 1..(a + 1) : t[k] = <<"initialize", k>>
    <3>1. a + 1 \in Nat
      OBVIOUS
    <3>2. /\ Len(t) = (a + 1) + 0
          /\ \A k \in 1..((a + 1) + 0) :
               k <= a + 1 => t[k] = <<"initialize", k>>
      BY <3>1, StackType
    <3> HIDE DEF t
    <3> QED BY <3>2
  <2> HIDE DEF s, t
  <2>4. \A k \in 1..Len(s) : t[k] = s[k]
    BY <2>2, <2>3
  <2>5. Len(t) = Len(s) + 1 /\ t[Len(s) + 1] = <<"initialize", a + 1>>
    BY <2>2, <2>3
  <2>6. Append(s, <<"initialize", a + 1>>) = t /\ SubSeq(t, 1, Len(t) - 1) = s
    BY <1>1, <2>1, <2>4, <2>5, AppendIs
  <2>7. Len(t) - 1 = a
    BY <2>3
  <2> QED BY <2>6, <2>7 DEF s, t
<1>3. /\ Append(Stack(a, b), <<"before", b + 1>>) = Stack(a, b + 1)
      /\ SubSeq(Stack(a, b + 1), 1, a + b) = Stack(a, b)
  <2> DEFINE s == Stack(a, b)
             t == Stack(a, b + 1)
  <2>1. s \in Seq(Calls) /\ t \in Seq(Calls)
    BY StackType
  <2>2. /\ Len(s) = a + b
        /\ \A k \in 1..(a + b) : /\ k <= a => s[k] = <<"initialize", k>>
                                 /\ k > a => s[k] = <<"before", k - a>>
    BY StackType
  <2>3. /\ Len(t) = a + b + 1
        /\ \A k \in 1..(a + b + 1) : /\ k <= a => t[k] = <<"initialize", k>>
                                     /\ k > a => t[k] = <<"before", k - a>>
    <3>1. b + 1 \in Nat
      OBVIOUS
    <3>2. /\ Len(t) = a + (b + 1)
          /\ \A k \in 1..(a + (b + 1)) : /\ k <= a => t[k] = <<"initialize", k>>
                                         /\ k > a => t[k] = <<"before", k - a>>
      BY <3>1, StackType
    <3> HIDE DEF t
    <3> QED BY <3>2
  <2> HIDE DEF s, t
  <2>4. \A k \in 1..Len(s) : t[k] = s[k]
    <3> SUFFICES ASSUME NEW k \in 1..(a + b) PROVE t[k] = s[k]
      BY <2>2
    <3>1. k \in 1..(a + b + 1)
      OBVIOUS
    <3>2. CASE k <= a
      BY <2>2, <2>3, <3>1, <3>2
    <3>3. CASE k > a
      BY <2>2, <2>3, <3>1, <3>3
    <3> QED BY <3>2, <3>3
  <2>5. Len(t) = Len(s) + 1 /\ t[Len(s) + 1] = <<"before", b + 1>>
    <3>1. a + b + 1 > a /\ a + b + 1 - a = b + 1 /\ a + b + 1 \in 1..(a + b + 1)
      OBVIOUS
    <3>2. t[a + b + 1] = <<"before", a + b + 1 - a>>
      BY <2>3, <3>1
    <3> QED BY <2>2, <2>3, <3>1, <3>2
  <2>6. Append(s, <<"before", b + 1>>) = t /\ SubSeq(t, 1, Len(t) - 1) = s
    BY <1>1, <2>1, <2>4, <2>5, AppendIs
  <2>7. Len(t) - 1 = a + b
    BY <2>3
  <2> QED BY <2>6, <2>7 DEF s, t
<1> QED
  BY <1>2, <1>3

\* All initialized, and all that is called before a test.
LEMMA StackFull ==
  /\ Stack(Inits, 0) = All("initialize")
  /\ Stack(Inits, Inits) = All("initialize") \o All("before")
<1>0. Inits \in Nat
  BY SessionAssumption
<1>1. Stack(Inits, 0) = All("initialize")
  BY <1>0 DEF Stack, All
<1>2. All("initialize") \in Seq(Calls) /\ All("before") \in Seq(Calls)
  <2>1. All("initialize") \in [1..Inits -> Calls]
    BY <1>0 DEF All, Calls
  <2>2. All("before") \in [1..Inits -> Calls]
    BY <1>0 DEF All, Calls
  <2> QED BY <1>0, <2>1, <2>2, SeqDef
<1>3. Len(All("initialize")) = Inits /\ Len(All("before")) = Inits
  <2>1. /\ DOMAIN All("initialize") = 1..Inits
        /\ DOMAIN All("before") = 1..Inits
    BY DEF All
  <2> QED BY <1>0, <1>2, <2>1, LenProperties
<1> DEFINE s == All("initialize")
           t == All("before")
           u == s \o t
<1>4. /\ u \in Seq(Calls) /\ Len(u) = Len(s) + Len(t)
      /\ \A i \in 1..(Len(s) + Len(t)) :
           u[i] = IF i <= Len(s) THEN s[i] ELSE t[i - Len(s)]
  BY <1>2, ConcatProperties
<1>5. /\ Stack(Inits, Inits) \in Seq(Calls)
      /\ Len(Stack(Inits, Inits)) = Inits + Inits
      /\ \A k \in 1..(Inits + Inits) :
           /\ k <= Inits => Stack(Inits, Inits)[k] = <<"initialize", k>>
           /\ k > Inits => Stack(Inits, Inits)[k] = <<"before", k - Inits>>
  BY <1>0, StackType
<1>6. /\ \A k \in 1..Inits : s[k] = <<"initialize", k>>
      /\ \A k \in 1..Inits : t[k] = <<"before", k>>
  BY DEF All
<1> HIDE DEF u, s, t
<1>7. Len(s) = Inits /\ Len(t) = Inits
  BY <1>3 DEF s, t
<1>8. \A i \in 1..Len(u) : u[i] = Stack(Inits, Inits)[i]
  <2> SUFFICES ASSUME NEW i \in 1..(Inits + Inits)
               PROVE  u[i] = Stack(Inits, Inits)[i]
    BY <1>4, <1>7
  <2>1. CASE i <= Inits
    <3>1. u[i] = s[i]
      BY <1>4, <1>7, <2>1
    <3>2. i \in 1..Inits
      BY <1>0, <2>1
    <3>3. Stack(Inits, Inits)[i] = <<"initialize", i>>
      BY <1>5, <2>1
    <3> QED BY <1>6, <3>1, <3>2, <3>3
  <2>2. CASE i > Inits
    <3>1. u[i] = t[i - Inits]
      BY <1>0, <1>4, <1>7, <2>2
    <3>2. i - Inits \in 1..Inits
      BY <1>0, <2>2
    <3>3. Stack(Inits, Inits)[i] = <<"before", i - Inits>>
      BY <1>5, <2>2
    <3> QED BY <1>6, <3>1, <3>2, <3>3
  <2> QED BY <1>0, <2>1, <2>2
<1>9. u = Stack(Inits, Inits)
  BY <1>4, <1>5, <1>7, <1>8, SeqEqual
<1> QED
  BY <1>1, <1>9 DEF u, s, t

\* An opening call makes the stack of the process higher.
LEMMA CallOpens ==
  ASSUME NEW a \in Nat, NEW b \in Nat, NEW p \in Procs, Procs = DOMAIN open
  PROVE  /\ open[p] = Stack(a, 0) /\ Call(p, "initialize", a + 1) =>
              open' = [open EXCEPT ![p] = Stack(a + 1, 0)]
         /\ open[p] = Stack(a, b) /\ Call(p, "before", b + 1) =>
              open' = [open EXCEPT ![p] = Stack(a, b + 1)]
  BY StackOpens DEF Call

\* A closing call, in its turn, makes it lower.
LEMMA CallCloses ==
  ASSUME NEW a \in Nat, NEW b \in Nat, NEW p \in Procs, Procs = DOMAIN open
  PROVE  /\ open[p] = Stack(a + 1, 0) /\ Call(p, "finalize", a + 1) =>
              open' = [open EXCEPT ![p] = Stack(a, 0)]
         /\ open[p] = Stack(a, b + 1) /\ Call(p, "after", b + 1) =>
              open' = [open EXCEPT ![p] = Stack(a, b)]
<1>1. ASSUME open[p] = Stack(a + 1, 0), Call(p, "finalize", a + 1)
      PROVE  open' = [open EXCEPT ![p] = Stack(a, 0)]
  <2> DEFINE d == a + 1
             s == Stack(d, 0)
  <2>1. d \in Nat /\ d > 0 /\ d - 1 = a
    OBVIOUS
  <2>2. SubSeq(s, 1, a) = Stack(a, 0)
    BY StackOpens
  <2> HIDE DEF d
  <2>4. Len(s) = d /\ s[d] = <<"initialize", d>>
    BY <2>1, StackTop
  <2> HIDE DEF s
  <2>5. open[p] = s /\ Call(p, "finalize", d)
    BY <1>1 DEF s, d
  <2>6. open' = [open EXCEPT ![p] = SubSeq(s, 1, d - 1)]
    BY <2>1, <2>4, <2>5 DEF Call
  <2> QED BY <2>1, <2>2, <2>6
<1>2. ASSUME open[p] = Stack(a, b + 1), Call(p, "after", b + 1)
      PROVE  open' = [open EXCEPT ![p] = Stack(a, b)]
  <2> DEFINE d == a + (b + 1)
  <2>1. b + 1 \in Nat /\ d \in 1..d /\ d > a /\ d - a = b + 1 /\ d - 1 = a + b
        /\ d \in Nat /\ d > 0
    OBVIOUS
  <2>2. Len(Stack(a, b + 1)) = d /\ Stack(a, b + 1)[d] = <<"before", d - a>>
    BY <2>1, StackType
  <2> DEFINE s == Stack(a, b + 1)
  <2> HIDE DEF s, d
  <2>3. Len(s) = d /\ s[d] = <<"before", b + 1>> /\ open[p] = s
    BY <1>2, <2>1, <2>2 DEF s
  <2>4. SubSeq(s, 1, a + b) = Stack(a, b)
    BY StackOpens DEF s
  <2>5. open' = [open EXCEPT ![p] = SubSeq(s, 1, d - 1)]
    BY <1>2, <2>1, <2>3 DEF Call
  <2> QED BY <2>1, <2>4, <2>5
<1> QED
  BY <1>1, <1>2

-----------------------------------------------------------------------------
(* Types *)

Kinds == {"old", "info", "measured"}

\* Numbers of the session, and its configuration.
LEMMA Session ==
  ASSUME TypeOK
  PROVE  /\ Tests \in Nat /\ Inits \in Nat /\ MaxObjects \in Nat
         /\ Runner \in Procs /\ Child \subseteq Procs /\ Runner \notin Child
         /\ Procs = Child \cup {Runner} /\ Procs \subseteq Nat
         /\ cfg.posix \in BOOLEAN /\ cfg.fork \in BOOLEAN
         /\ cfg.threads \in Nat /\ Places \in Nat
<1>1. cfg \in [posix : BOOLEAN, mode : {"utest", "ptest", "mtest"},
               fork : BOOLEAN, threads : Nat,
               outfile : {"none", "writable", "unwritable"},
               sysinfo : BOOLEAN, verbose : BOOLEAN, list_all : BOOLEAN]
  BY SessionAssumption DEF TypeOK
<1> QED
  BY <1>1, SessionAssumption DEF Runner, Procs, Child, Places

\* What a step of p changes of where the processes are.
Moves(p, label, index) ==
  /\ pc' = [pc EXCEPT ![p] = label]
  /\ pc'[p] = label /\ n'[p] = index
  /\ \A q \in Procs \ {p} : pc'[q] = pc[q] /\ n'[q] = n[q]

\* What Go says of each process.
LEMMA GoMoves ==
  ASSUME TypeOK, NEW p \in Procs, NEW label, NEW index, Go(p, label, index)
  PROVE  Moves(p, label, index)
  BY DEF TypeOK, Go, Moves

\* The lines that the actions print are lines.
LEMMA LineTypes ==
  /\ \A t \in Child : /\ <<"launching", t>> \in Lines
                      /\ <<"result", t>> \in Lines
                      /\ <<"measured", t>> \in Lines
  /\ <<"statistics", 0>> \in Lines
  BY DEF Lines, Child

\* Every initial state has the types.
LEMMA TypeInit == Init => TypeOK
<1> SUFFICES ASSUME Init PROVE TypeOK
  OBVIOUS
<1>1. Tests \in Nat /\ Inits \in Nat
  BY SessionAssumption
<1>2. /\ pc \in [Procs -> Labels] /\ n \in [Procs -> 0..(Inits + 1)]
      /\ test \in [Procs -> 1..(Tests + 1)] /\ res \in [Procs -> BOOLEAN]
      /\ buffer \in [Procs -> SUBSET Lines] /\ console \in [Lines -> Nat]
  BY <1>1 DEF Init, Labels
<1>3. file \in Seq({"old", "info", "measured"} \X Nat)
  <2> DEFINE S == {"old", "info", "measured"} \X Nat
             e == <<"old", 0>>
  <2>1. file = <<>> \/ file = <<e>>
    BY DEF Init
  <2>2. e \in S
    OBVIOUS
  <2> HIDE DEF S, e
  <2>3. <<>> \in Seq(S) /\ <<e>> \in Seq(S)
    BY <2>2
  <2>4. file \in Seq(S)
    BY <2>1, <2>3
  <2> QED BY <2>4 DEF S
<1> QED
  BY <1>2, <1>3 DEF Init, TypeOK

\* One record more.
LEMMA RecordTypes ==
  ASSUME TypeOK, NEW kind \in {"info", "measured"}, NEW i \in Nat
  PROVE  LET f == Append(file, <<kind, i>>) IN
         /\ f \in Seq({"old", "info", "measured"} \X Nat)
         /\ Len(f) = Len(file) + 1 /\ Len(file) \in Nat
         /\ \A k \in 1..Len(file) : f[k] = file[k]
         /\ f[Len(file) + 1] = <<kind, i>>
<1>1. <<kind, i>> \in {"old", "info", "measured"} \X Nat
  OBVIOUS
<1>2. file \in Seq({"old", "info", "measured"} \X Nat)
  BY DEF TypeOK
<1> QED
  BY <1>1, <1>2, AppendProperties, LenProperties

\* A process that executes a test executes one of the list.
LEMMA InTestIsTest ==
  ASSUME TypeOK, Roles, NEW p \in Procs, pc[p] \in InTest
  PROVE  test[p] \in Child
<1>1. test[p] \in 1..(Tests + 1) /\ Tests \in Nat /\ Procs = Child \cup {Runner}
  BY Session DEF TypeOK
<1>2. CASE p = Runner
  BY <1>1, <1>2 DEF Roles, RunnerRole, Child
<1>3. CASE p \in Child
  BY <1>3 DEF Roles, ChildRole
<1> QED
  BY <1>1, <1>2, <1>3

\* Every step keeps the types; a process in a test is one that has a test.
LEMMA TypeStep == TypeOK /\ Roles /\ Next => TypeOK'
<1> SUFFICES ASSUME TypeOK, Roles, Next PROVE TypeOK'
  OBVIOUS
<1>t. /\ cfg \in Configs
      /\ pc \in [Procs -> Labels] /\ n \in [Procs -> 0..(Inits + 1)]
      /\ test \in [Procs -> 1..(Tests + 1)] /\ res \in [Procs -> BOOLEAN]
      /\ running \in SUBSET Child
      /\ judged \in [success : SUBSET Child, failed : SUBSET Child]
      /\ Tests \in Nat /\ Inits \in Nat /\ Runner \in Procs
  BY Session DEF TypeOK
<1>f. /\ file \in Seq({"old", "info", "measured"} \X Nat)
      /\ \A kind \in {"info", "measured"}, i \in Nat :
           Append(file, <<kind, i>>) \in Seq({"old", "info", "measured"} \X Nat)
  BY RecordTypes DEF TypeOK
<1>b. buffer \in [Procs -> SUBSET Lines] /\ console \in [Lines -> Nat]
  BY DEF TypeOK
<1>w. \A lines : Written(lines) \in [Lines -> Nat]
  BY <1>b DEF Written
<1>1. ASSUME MkDirs PROVE TypeOK'
  <2> USE DEF output, tasks, place
  <2>1. pc' \in [Procs -> Labels] /\ n' \in [Procs -> 0..(Inits + 1)]
    BY <1>1, <1>t DEF MkDirs, Go, Exits, Labels
  <2>2. test' \in [Procs -> 1..(Tests + 1)] /\ res' \in [Procs -> BOOLEAN]
    BY <1>1, <1>t DEF MkDirs, Go, Exits
  <2>3. cfg' \in Configs /\ running' \in SUBSET Child
    BY <1>1, <1>t DEF MkDirs, Go, Exits
  <2>4. judged' \in [success : SUBSET Child, failed : SUBSET Child]
    BY <1>1, <1>t DEF MkDirs, Go, Exits
  <2>5. file' \in Seq({"old", "info", "measured"} \X Nat)
    BY <1>1, <1>f DEF MkDirs, Go, Exits
  <2>6. buffer' \in [Procs -> SUBSET Lines] /\ console' \in [Lines -> Nat]
    BY <1>1, <1>b, <1>w DEF MkDirs, Go, Exits
  <2> QED BY <2>1, <2>2, <2>3, <2>4, <2>5, <2>6 DEF TypeOK
<1>2. ASSUME SystemInfo PROVE TypeOK'
  <2> USE DEF output, tasks, place
  <2>1. pc' \in [Procs -> Labels] /\ n' \in [Procs -> 0..(Inits + 1)]
    BY <1>2, <1>t DEF SystemInfo, Go, Labels
  <2>2. test' \in [Procs -> 1..(Tests + 1)] /\ res' \in [Procs -> BOOLEAN]
    BY <1>2, <1>t DEF SystemInfo, Go
  <2>3. cfg' \in Configs /\ running' \in SUBSET Child
    BY <1>2, <1>t DEF SystemInfo, Go
  <2>4. judged' \in [success : SUBSET Child, failed : SUBSET Child]
    BY <1>2, <1>t DEF SystemInfo, Go
  <2>5. file' \in Seq({"old", "info", "measured"} \X Nat)
    BY <1>2, <1>f DEF SystemInfo, Go
  <2>6. buffer' \in [Procs -> SUBSET Lines] /\ console' \in [Lines -> Nat]
    BY <1>2, <1>b, <1>w DEF SystemInfo, Go
  <2> QED BY <2>1, <2>2, <2>3, <2>4, <2>5, <2>6 DEF TypeOK
<1>3. ASSUME Submit PROVE TypeOK'
  <2> USE DEF output, tasks, place
  <2>0. test[Runner] \in Child
    BY <1>3, <1>t DEF Submit, InLoop, Child
  <2>1. pc' \in [Procs -> Labels] /\ n' \in [Procs -> 0..(Inits + 1)]
    BY <1>3, <1>t DEF Submit, Go, Labels
  <2>2. test' \in [Procs -> 1..(Tests + 1)] /\ res' \in [Procs -> BOOLEAN]
    <3>1. test[Runner] + 1 \in 1..(Tests + 1) /\ 1 \in 1..(Tests + 1)
      BY <1>t, <2>0 DEF Child
    <3>2. test[Runner] \in 1..(Tests + 1) /\ res' = res
      BY <1>3, <1>t DEF Submit
    <3>3. PICK x \in 1..(Tests + 1) :
            test' = [test EXCEPT ![Runner] = test[Runner] + 1,
                                 ![test[Runner]] = x]
      BY <1>3, <3>1, <3>2 DEF Submit
    <3> QED BY <1>t, <3>1, <3>2, <3>3
  <2>3. cfg' \in Configs /\ running' \in SUBSET Child
    BY <1>3, <1>t, <2>0 DEF Submit, Go
  <2>4. judged' \in [success : SUBSET Child, failed : SUBSET Child]
    BY <1>3, <1>t DEF Submit, Go
  <2>5. file' \in Seq({"old", "info", "measured"} \X Nat)
    BY <1>3, <1>f DEF Submit, Go
  <2>6. buffer' \in [Procs -> SUBSET Lines] /\ console' \in [Lines -> Nat]
    BY <1>3, <1>b, <1>w, <2>0, LineTypes DEF Submit, Go, LaunchingPrinted
  <2> QED BY <2>1, <2>2, <2>3, <2>4, <2>5, <2>6 DEF TypeOK
<1>4. ASSUME SubmitFails PROVE TypeOK'
  <2> USE DEF output, tasks, place
  <2>0. test[Runner] \in Child
    BY <1>4, <1>t DEF SubmitFails, InLoop, Child
  <2>1. pc' \in [Procs -> Labels] /\ n' \in [Procs -> 0..(Inits + 1)]
    BY <1>4, <1>t DEF SubmitFails, Go, Labels
  <2>2. test' \in [Procs -> 1..(Tests + 1)] /\ res' \in [Procs -> BOOLEAN]
    BY <1>4, <1>t, <2>0 DEF SubmitFails, Go, Child
  <2>3. cfg' \in Configs /\ running' \in SUBSET Child
    BY <1>4, <1>t, <2>0 DEF SubmitFails, Go
  <2>4. judged' \in [success : SUBSET Child, failed : SUBSET Child]
    BY <1>4, <1>t DEF SubmitFails, Go
  <2>5. file' \in Seq({"old", "info", "measured"} \X Nat)
    BY <1>4, <1>f DEF SubmitFails, Go
  <2>6. buffer' \in [Procs -> SUBSET Lines] /\ console' \in [Lines -> Nat]
    BY <1>4, <1>b, <1>w, <2>0, LineTypes DEF SubmitFails, Go, LaunchingPrinted
  <2> QED BY <2>1, <2>2, <2>3, <2>4, <2>5, <2>6 DEF TypeOK
<1>5. ASSUME TableTooLarge PROVE TypeOK'
  <2> USE DEF output, tasks, place
  <2>1. pc' \in [Procs -> Labels] /\ n' \in [Procs -> 0..(Inits + 1)]
    BY <1>5, <1>t DEF TableTooLarge, Go, Labels
  <2>2. test' \in [Procs -> 1..(Tests + 1)] /\ res' \in [Procs -> BOOLEAN]
    BY <1>5, <1>t DEF TableTooLarge, Go
  <2>3. cfg' \in Configs /\ running' \in SUBSET Child
    BY <1>5, <1>t DEF TableTooLarge, Go
  <2>4. judged' \in [success : SUBSET Child, failed : SUBSET Child]
    BY <1>5, <1>t DEF TableTooLarge, Go
  <2>5. file' \in Seq({"old", "info", "measured"} \X Nat)
    BY <1>5, <1>f DEF TableTooLarge, Go
  <2>6. buffer' \in [Procs -> SUBSET Lines] /\ console' \in [Lines -> Nat]
    BY <1>5, <1>b, <1>w DEF TableTooLarge, Go
  <2> QED BY <2>1, <2>2, <2>3, <2>4, <2>5, <2>6 DEF TypeOK
<1>6. ASSUME NEW p \in Procs, RegistryFails(p) PROVE TypeOK'
  <2> USE DEF output, tasks, place
  <2>1. pc' \in [Procs -> Labels] /\ n' \in [Procs -> 0..(Inits + 1)]
    BY <1>6, <1>t DEF RegistryFails, Go, Exits, Labels
  <2>2. test' \in [Procs -> 1..(Tests + 1)] /\ res' \in [Procs -> BOOLEAN]
    BY <1>6, <1>t DEF RegistryFails, Go, Exits
  <2>3. cfg' \in Configs /\ running' \in SUBSET Child
    BY <1>6, <1>t DEF RegistryFails, Go, Exits
  <2>4. judged' \in [success : SUBSET Child, failed : SUBSET Child]
    BY <1>6, <1>t DEF RegistryFails, Go, Exits
  <2>5. file' \in Seq({"old", "info", "measured"} \X Nat)
    BY <1>6, <1>f DEF RegistryFails, Go, Exits
  <2>6. buffer' \in [Procs -> SUBSET Lines] /\ console' \in [Lines -> Nat]
    BY <1>6, <1>b, <1>w DEF RegistryFails, Go, Exits
  <2> QED BY <2>1, <2>2, <2>3, <2>4, <2>5, <2>6 DEF TypeOK
<1>7. ASSUME NEW p \in Procs, Initialize(p) PROVE TypeOK'
  <2> USE DEF output, tasks, place
  <2>1. pc' \in [Procs -> Labels] /\ n' \in [Procs -> 0..(Inits + 1)]
    BY <1>7, <1>t DEF Initialize, Go, Labels
  <2>2. test' \in [Procs -> 1..(Tests + 1)] /\ res' \in [Procs -> BOOLEAN]
    BY <1>7, <1>t DEF Initialize, Go
  <2>3. cfg' \in Configs /\ running' \in SUBSET Child
    BY <1>7, <1>t DEF Initialize, Go
  <2>4. judged' \in [success : SUBSET Child, failed : SUBSET Child]
    BY <1>7, <1>t DEF Initialize, Go
  <2>5. file' \in Seq({"old", "info", "measured"} \X Nat)
    BY <1>7, <1>f DEF Initialize, Go
  <2>6. buffer' \in [Procs -> SUBSET Lines] /\ console' \in [Lines -> Nat]
    BY <1>7, <1>b, <1>w DEF Initialize, Go
  <2> QED BY <2>1, <2>2, <2>3, <2>4, <2>5, <2>6 DEF TypeOK
<1>8. ASSUME NEW p \in Procs, ListTests(p) PROVE TypeOK'
  <2> USE DEF output, tasks, place
  <2>1. pc' \in [Procs -> Labels] /\ n' \in [Procs -> 0..(Inits + 1)]
    BY <1>8, <1>t DEF ListTests, Go, Exits, Labels
  <2>2. test' \in [Procs -> 1..(Tests + 1)] /\ res' \in [Procs -> BOOLEAN]
    BY <1>8, <1>t DEF ListTests, Go, Exits
  <2>3. cfg' \in Configs /\ running' \in SUBSET Child
    BY <1>8, <1>t DEF ListTests, Go, Exits
  <2>4. judged' \in [success : SUBSET Child, failed : SUBSET Child]
    BY <1>8, <1>t DEF ListTests, Go, Exits
  <2>5. file' \in Seq({"old", "info", "measured"} \X Nat)
    BY <1>8, <1>f DEF ListTests, Go, Exits
  <2>6. buffer' \in [Procs -> SUBSET Lines] /\ console' \in [Lines -> Nat]
    BY <1>8, <1>b, <1>w DEF ListTests, Go, Exits
  <2> QED BY <2>1, <2>2, <2>3, <2>4, <2>5, <2>6 DEF TypeOK
<1>9. ASSUME NEW p \in Procs, CreateOutfile(p) PROVE TypeOK'
  <2> USE DEF output, tasks, place
  <2>1. pc' \in [Procs -> Labels] /\ n' \in [Procs -> 0..(Inits + 1)]
    <3>1. CASE n[p] = 0 /\ cfg.outfile = "unwritable"
      BY <1>9, <1>t, <3>1 DEF CreateOutfile, Go, Labels
    <3>2. CASE ~(n[p] = 0 /\ cfg.outfile = "unwritable") /\ n[p] <= Inits
      <4>1. n[p] + 1 \in 0..(Inits + 1) /\ 1 \in 0..(Inits + 1)
        BY <1>t, <3>2
      <4>2. Go(p, "outfile", n[p] + 1) \/ Go(p, "outfile", 1)
        BY <1>9, <3>2 DEF CreateOutfile
      <4> QED BY <1>t, <4>1, <4>2 DEF Go, Labels
    <3>3. CASE ~(n[p] = 0 /\ cfg.outfile = "unwritable") /\ ~(n[p] <= Inits)
      <4>1. n[p] # 0 /\ 0 \in 0..(Inits + 1)
        BY <1>t, <3>3
      <4>2. Go(p, "loop", 0)
        BY <1>9, <3>3, <4>1 DEF CreateOutfile
      <4> QED BY <1>t, <4>1, <4>2 DEF Go, Labels
    <3> QED BY <3>1, <3>2, <3>3
  <2>2. test' \in [Procs -> 1..(Tests + 1)] /\ res' \in [Procs -> BOOLEAN]
    BY <1>9, <1>t DEF CreateOutfile, Go
  <2>3. cfg' \in Configs /\ running' \in SUBSET Child
    BY <1>9, <1>t DEF CreateOutfile, Go
  <2>4. judged' \in [success : SUBSET Child, failed : SUBSET Child]
    BY <1>9, <1>t DEF CreateOutfile, Go
  <2>5. file' \in Seq({"old", "info", "measured"} \X Nat)
    <3>1. file' \in {file, <<>>, Append(file, <<"info", n[p]>>)}
      BY <1>9 DEF CreateOutfile
    <3>2. n[p] \in Nat
      BY <1>9, <1>t DEF CreateOutfile
    <3>3. Append(file, <<"info", n[p]>>) \in Seq({"old", "info", "measured"} \X Nat)
      BY <1>f, <3>2
    <3> QED BY <1>f, <3>1, <3>3, EmptySeq
  <2>6. buffer' \in [Procs -> SUBSET Lines] /\ console' \in [Lines -> Nat]
    BY <1>9, <1>b, <1>w DEF CreateOutfile, Go
  <2> QED BY <2>1, <2>2, <2>3, <2>4, <2>5, <2>6 DEF TypeOK
<1>10. ASSUME NEW p \in Procs, SkipTest(p) PROVE TypeOK'
  <2> USE DEF output, tasks, place
  <2>1. pc' \in [Procs -> Labels] /\ n' \in [Procs -> 0..(Inits + 1)]
    BY <1>10, <1>t DEF SkipTest, Go, Labels
  <2>2. test' \in [Procs -> 1..(Tests + 1)] /\ res' \in [Procs -> BOOLEAN]
    BY <1>10, <1>t DEF SkipTest, Go, InLoop
  <2>3. cfg' \in Configs /\ running' \in SUBSET Child
    BY <1>10, <1>t DEF SkipTest, Go
  <2>4. judged' \in [success : SUBSET Child, failed : SUBSET Child]
    BY <1>10, <1>t DEF SkipTest, Go
  <2>5. file' \in Seq({"old", "info", "measured"} \X Nat)
    BY <1>10, <1>f DEF SkipTest, Go
  <2>6. buffer' \in [Procs -> SUBSET Lines] /\ console' \in [Lines -> Nat]
    BY <1>10, <1>b, <1>w DEF SkipTest, Go
  <2> QED BY <2>1, <2>2, <2>3, <2>4, <2>5, <2>6 DEF TypeOK
<1>11. ASSUME NEW p \in Procs, SubmitHere(p) PROVE TypeOK'
  <2> USE DEF output, tasks, place
  <2>1. pc' \in [Procs -> Labels] /\ n' \in [Procs -> 0..(Inits + 1)]
    BY <1>11, <1>t DEF SubmitHere, Go, Labels
  <2>2. test' \in [Procs -> 1..(Tests + 1)] /\ res' \in [Procs -> BOOLEAN]
    BY <1>11, <1>t DEF SubmitHere, Go
  <2>3. cfg' \in Configs /\ running' \in SUBSET Child
    BY <1>11, <1>t DEF SubmitHere, Go
  <2>4. judged' \in [success : SUBSET Child, failed : SUBSET Child]
    BY <1>11, <1>t DEF SubmitHere, Go
  <2>5. file' \in Seq({"old", "info", "measured"} \X Nat)
    BY <1>11, <1>f DEF SubmitHere, Go
  <2>6. buffer' \in [Procs -> SUBSET Lines] /\ console' \in [Lines -> Nat]
    BY <1>11, <1>b, <1>w DEF SubmitHere, Go
  <2> QED BY <2>1, <2>2, <2>3, <2>4, <2>5, <2>6 DEF TypeOK
<1>12. ASSUME NEW p \in Procs, LoopEnds(p) PROVE TypeOK'
  <2> USE DEF output, tasks, place
  <2>1. pc' \in [Procs -> Labels] /\ n' \in [Procs -> 0..(Inits + 1)]
    BY <1>12, <1>t DEF LoopEnds, Go, Labels
  <2>2. test' \in [Procs -> 1..(Tests + 1)] /\ res' \in [Procs -> BOOLEAN]
    BY <1>12, <1>t DEF LoopEnds, Go
  <2>3. cfg' \in Configs /\ running' \in SUBSET Child
    BY <1>12, <1>t DEF LoopEnds, Go
  <2>4. judged' \in [success : SUBSET Child, failed : SUBSET Child]
    BY <1>12, <1>t DEF LoopEnds, Go
  <2>5. file' \in Seq({"old", "info", "measured"} \X Nat)
    BY <1>12, <1>f DEF LoopEnds, Go
  <2>6. buffer' \in [Procs -> SUBSET Lines] /\ console' \in [Lines -> Nat]
    BY <1>12, <1>b, <1>w DEF LoopEnds, Go
  <2> QED BY <2>1, <2>2, <2>3, <2>4, <2>5, <2>6 DEF TypeOK
<1>13. ASSUME NEW p \in Procs, Before(p) PROVE TypeOK'
  <2> USE DEF output, tasks, place
  <2>1. pc' \in [Procs -> Labels] /\ n' \in [Procs -> 0..(Inits + 1)]
    BY <1>13, <1>t DEF Before, Go, Labels
  <2>2. test' \in [Procs -> 1..(Tests + 1)] /\ res' \in [Procs -> BOOLEAN]
    BY <1>13, <1>t DEF Before, Go
  <2>3. cfg' \in Configs /\ running' \in SUBSET Child
    BY <1>13, <1>t DEF Before, Go
  <2>4. judged' \in [success : SUBSET Child, failed : SUBSET Child]
    BY <1>13, <1>t DEF Before, Go
  <2>5. file' \in Seq({"old", "info", "measured"} \X Nat)
    BY <1>13, <1>f DEF Before, Go
  <2>6. buffer' \in [Procs -> SUBSET Lines] /\ console' \in [Lines -> Nat]
    BY <1>13, <1>b, <1>w DEF Before, Go
  <2> QED BY <2>1, <2>2, <2>3, <2>4, <2>5, <2>6 DEF TypeOK
<1>14. ASSUME NEW p \in Procs, Body(p) PROVE TypeOK'
  <2> USE DEF output, tasks, place
  <2>1. pc' \in [Procs -> Labels] /\ n' \in [Procs -> 0..(Inits + 1)]
    BY <1>14, <1>t DEF Body, Go, Exits, Labels
  <2>2. test' \in [Procs -> 1..(Tests + 1)] /\ res' \in [Procs -> BOOLEAN]
    BY <1>14, <1>t DEF Body, Go, Exits
  <2>3. cfg' \in Configs /\ running' \in SUBSET Child
    BY <1>14, <1>t DEF Body, Go, Exits
  <2>4. judged' \in [success : SUBSET Child, failed : SUBSET Child]
    BY <1>14, <1>t DEF Body, Go, Exits
  <2>5. file' \in Seq({"old", "info", "measured"} \X Nat)
    BY <1>14, <1>f DEF Body, Go, Exits
  <2>6. buffer' \in [Procs -> SUBSET Lines] /\ console' \in [Lines -> Nat]
    BY <1>14, <1>b, <1>w DEF Body, Go, Exits
  <2> QED BY <2>1, <2>2, <2>3, <2>4, <2>5, <2>6 DEF TypeOK
<1>15. ASSUME NEW p \in Procs, Measured(p) PROVE TypeOK'
  <2> USE DEF output, tasks, place
  <2>1. pc' \in [Procs -> Labels] /\ n' \in [Procs -> 0..(Inits + 1)]
    BY <1>15, <1>t DEF Measured, Go, Labels
  <2>2. test' \in [Procs -> 1..(Tests + 1)] /\ res' \in [Procs -> BOOLEAN]
    BY <1>15, <1>t DEF Measured, Go
  <2>3. cfg' \in Configs /\ running' \in SUBSET Child
    BY <1>15, <1>t DEF Measured, Go
  <2>4. judged' \in [success : SUBSET Child, failed : SUBSET Child]
    BY <1>15, <1>t DEF Measured, Go
  <2>5. file' \in Seq({"old", "info", "measured"} \X Nat)
    BY <1>15, <1>f, <1>t DEF Measured, Go
  <2>6. buffer' \in [Procs -> SUBSET Lines] /\ console' \in [Lines -> Nat]
    <3>1. <<"measured", test[p]>> \in Lines
      BY <1>15, InTestIsTest, LineTypes DEF Measured, InTest
    <3> QED BY <1>15, <1>b, <3>1 DEF Measured
  <2> QED BY <2>1, <2>2, <2>3, <2>4, <2>5, <2>6 DEF TypeOK
<1>16. ASSUME NEW p \in Procs, After(p) PROVE TypeOK'
  <2> USE DEF output, tasks, place
  <2>1. pc' \in [Procs -> Labels] /\ n' \in [Procs -> 0..(Inits + 1)]
    BY <1>16, <1>t DEF After, Go, Labels
  <2>2. test' \in [Procs -> 1..(Tests + 1)] /\ res' \in [Procs -> BOOLEAN]
    BY <1>16, <1>t DEF After, Go
  <2>3. cfg' \in Configs /\ running' \in SUBSET Child
    BY <1>16, <1>t DEF After, Go
  <2>4. judged' \in [success : SUBSET Child, failed : SUBSET Child]
    BY <1>16, <1>t DEF After, Go
  <2>5. file' \in Seq({"old", "info", "measured"} \X Nat)
    BY <1>16, <1>f DEF After, Go
  <2>6. buffer' \in [Procs -> SUBSET Lines] /\ console' \in [Lines -> Nat]
    BY <1>16, <1>b, <1>w DEF After, Go
  <2> QED BY <2>1, <2>2, <2>3, <2>4, <2>5, <2>6 DEF TypeOK
<1>17. ASSUME NEW p \in Procs, Launched(p) PROVE TypeOK'
  <2> USE DEF output, tasks, place
  <2>1. pc' \in [Procs -> Labels] /\ n' \in [Procs -> 0..(Inits + 1)]
    BY <1>17, <1>t DEF Launched, Go, Labels
  <2>2. test' \in [Procs -> 1..(Tests + 1)] /\ res' \in [Procs -> BOOLEAN]
    <3>1. test[p] \in Child
      BY <1>17, InTestIsTest DEF Launched, InTest
    <3>2. test[p] + 1 \in 1..(Tests + 1)
      BY <1>t, <3>1 DEF Child
    <3> QED BY <1>17, <1>t, <3>2 DEF Launched
  <2>3. cfg' \in Configs /\ running' \in SUBSET Child
    BY <1>17, <1>t DEF Launched, Go
  <2>4. judged' \in [success : SUBSET Child, failed : SUBSET Child]
    <3>1. test[p] \in Child
      BY <1>17, InTestIsTest DEF Launched, InTest
    <3> QED BY <1>17, <1>t, <3>1 DEF Launched
  <2>5. file' \in Seq({"old", "info", "measured"} \X Nat)
    BY <1>17, <1>f DEF Launched, Go
  <2>6. buffer' \in [Procs -> SUBSET Lines] /\ console' \in [Lines -> Nat]
    BY <1>17, <1>b, <1>w DEF Launched, Go
  <2> QED BY <2>1, <2>2, <2>3, <2>4, <2>5, <2>6 DEF TypeOK
<1>18. ASSUME NEW p \in Procs, Waited(p) PROVE TypeOK'
  <2> USE DEF output, tasks, place
  <2>1. pc' \in [Procs -> Labels] /\ n' \in [Procs -> 0..(Inits + 1)]
    BY <1>18, <1>t DEF Waited, Go, Labels
  <2>2. test' \in [Procs -> 1..(Tests + 1)] /\ res' \in [Procs -> BOOLEAN]
    BY <1>18, <1>t DEF Waited, Go
  <2>3. cfg' \in Configs /\ running' \in SUBSET Child
    BY <1>18, <1>t DEF Waited, Go
  <2>4. judged' \in [success : SUBSET Child, failed : SUBSET Child]
    BY <1>18, <1>t DEF Waited, Go
  <2>5. file' \in Seq({"old", "info", "measured"} \X Nat)
    BY <1>18, <1>f DEF Waited, Go
  <2>6. buffer' \in [Procs -> SUBSET Lines] /\ console' \in [Lines -> Nat]
    BY <1>18, <1>b, <1>w DEF Waited, Go
  <2> QED BY <2>1, <2>2, <2>3, <2>4, <2>5, <2>6 DEF TypeOK
<1>19. ASSUME NEW p \in Procs, Report(p) PROVE TypeOK'
  <2> USE DEF output, tasks, place
  <2>1. pc' \in [Procs -> Labels] /\ n' \in [Procs -> 0..(Inits + 1)]
    BY <1>19, <1>t DEF Report, Go, Labels
  <2>2. test' \in [Procs -> 1..(Tests + 1)] /\ res' \in [Procs -> BOOLEAN]
    BY <1>19, <1>t DEF Report, Go
  <2>3. cfg' \in Configs /\ running' \in SUBSET Child
    BY <1>19, <1>t DEF Report, Go
  <2>4. judged' \in [success : SUBSET Child, failed : SUBSET Child]
    BY <1>19, <1>t DEF Report, Go
  <2>5. file' \in Seq({"old", "info", "measured"} \X Nat)
    BY <1>19, <1>f DEF Report, Go
  <2>6. buffer' \in [Procs -> SUBSET Lines] /\ console' \in [Lines -> Nat]
    BY <1>19, <1>b, <1>w, LineTypes DEF Report, Go
  <2> QED BY <2>1, <2>2, <2>3, <2>4, <2>5, <2>6 DEF TypeOK
<1>20. ASSUME NEW p \in Procs, Finalize(p) PROVE TypeOK'
  <2> USE DEF output, tasks, place
  <2>1. pc' \in [Procs -> Labels] /\ n' \in [Procs -> 0..(Inits + 1)]
    BY <1>20, <1>t DEF Finalize, Go, Labels
  <2>2. test' \in [Procs -> 1..(Tests + 1)] /\ res' \in [Procs -> BOOLEAN]
    BY <1>20, <1>t DEF Finalize, Go
  <2>3. cfg' \in Configs /\ running' \in SUBSET Child
    BY <1>20, <1>t DEF Finalize, Go
  <2>4. judged' \in [success : SUBSET Child, failed : SUBSET Child]
    BY <1>20, <1>t DEF Finalize, Go
  <2>5. file' \in Seq({"old", "info", "measured"} \X Nat)
    BY <1>20, <1>f DEF Finalize, Go
  <2>6. buffer' \in [Procs -> SUBSET Lines] /\ console' \in [Lines -> Nat]
    BY <1>20, <1>b, <1>w DEF Finalize, Go
  <2> QED BY <2>1, <2>2, <2>3, <2>4, <2>5, <2>6 DEF TypeOK
<1>21. ASSUME NEW p \in Procs, Destroyed(p) PROVE TypeOK'
  <2> USE DEF output, tasks, place
  <2>1. pc' \in [Procs -> Labels] /\ n' \in [Procs -> 0..(Inits + 1)]
    BY <1>21, <1>t DEF Destroyed, Go, Exits, Labels
  <2>2. test' \in [Procs -> 1..(Tests + 1)] /\ res' \in [Procs -> BOOLEAN]
    BY <1>21, <1>t DEF Destroyed, Go, Exits
  <2>3. cfg' \in Configs /\ running' \in SUBSET Child
    BY <1>21, <1>t DEF Destroyed, Go, Exits
  <2>4. judged' \in [success : SUBSET Child, failed : SUBSET Child]
    BY <1>21, <1>t DEF Destroyed, Go, Exits
  <2>5. file' \in Seq({"old", "info", "measured"} \X Nat)
    BY <1>21, <1>f DEF Destroyed, Go, Exits
  <2>6. buffer' \in [Procs -> SUBSET Lines] /\ console' \in [Lines -> Nat]
    BY <1>21, <1>b, <1>w DEF Destroyed, Go, Exits
  <2> QED BY <2>1, <2>2, <2>3, <2>4, <2>5, <2>6 DEF TypeOK
<1>22. ASSUME NEW t \in Child, Collect(t) PROVE TypeOK'
  <2>1. judged' \in [success : SUBSET Child, failed : SUBSET Child]
    BY <1>22, <1>t DEF Collect
  <2>2. buffer' \in [Procs -> SUBSET Lines] /\ running' \in SUBSET Child
    <3>1. <<"result", t>> \in Lines
      BY LineTypes
    <3> QED BY <1>22, <1>t, <1>b, <3>1 DEF Collect
  <2> QED BY <1>22, <2>1, <2>2 DEF Collect, TypeOK, place
<1>24. ASSUME WaitFails PROVE TypeOK'
  <2>1. pc' \in [Procs -> Labels] /\ n' \in [Procs -> 0..(Inits + 1)]
    BY <1>24, <1>t DEF WaitFails, Go, Exits, Labels
  <2>2. test' \in [Procs -> 1..(Tests + 1)] /\ res' \in [Procs -> BOOLEAN]
    BY <1>24, <1>t DEF WaitFails
  <2>3. /\ cfg' \in Configs /\ running' \in SUBSET Child
        /\ judged' \in [success : SUBSET Child, failed : SUBSET Child]
        /\ file' \in Seq({"old", "info", "measured"} \X Nat)
    BY <1>24, <1>t, <1>f DEF WaitFails
  <2>4. buffer' \in [Procs -> SUBSET Lines] /\ console' \in [Lines -> Nat]
    BY <1>24, <1>t, <1>b, <1>w DEF WaitFails, Exits
  <2> QED BY <2>1, <2>2, <2>3, <2>4 DEF TypeOK
<1>23. CASE UNCHANGED vars
  BY <1>23 DEF TypeOK, vars, place, output, tasks
<1> QED
  BY <1>1, <1>2, <1>3, <1>4, <1>5, <1>6, <1>7, <1>8, <1>9, <1>10, <1>11, <1>12, <1>13, <1>14, <1>15, <1>16, <1>17, <1>18, <1>19, <1>20, <1>21, <1>22, <1>23, <1>24 DEF Next, Over, Child

-----------------------------------------------------------------------------
(* Roles *)

\* At the start there is the runner only.
LEMMA RolesInit == Init => Roles
<1> SUFFICES ASSUME Init PROVE Roles
  OBVIOUS
<1>1. TypeOK
  BY TypeInit
<1>2. Cardinality(running) = 0
  BY FS_EmptySet DEF Init
<1>3. Cardinality(running) <= Places
  BY <1>1, <1>2, Session
<1>4. RunnerRole
  BY <1>1, <1>3, Session DEF Init, RunnerRole, Setup, InTest, Final
<1>5. ASSUME NEW t \in Child PROVE ChildRole(t)
  BY <1>1, Session DEF Init, ChildRole, InTest
<1> QED
  BY <1>4, <1>5 DEF Roles

\* A step of one process that leaves the tests and the table alone.
LEMMA RolesLocal ==
  ASSUME TypeOK, Roles, NEW p \in Procs, UNCHANGED <<cfg, test, running>>,
         \A q \in Procs \ {p} : pc'[q] = pc[q] /\ res'[q] = res[q],
         p = Runner => RunnerRole',
         p \in Child => ChildRole(p)' /\ UNCHANGED <<judged, deserted>>
  PROVE  Roles'
<1>1. RunnerRole'
  <2>1. CASE p = Runner
    BY <2>1
  <2>2. CASE p # Runner
    BY <2>2, Session DEF Roles, RunnerRole, Places
  <2> QED BY <2>1, <2>2
<1>2. ASSUME NEW t \in Child PROVE ChildRole(t)'
  <2>1. CASE p = t
    BY <2>1
  <2>2. CASE p # t
    BY <2>2, Session DEF Roles, ChildRole
  <2> QED BY <2>1, <2>2
<1> QED
  BY <1>1, <1>2 DEF Roles

\* The table takes one more.
LEMMA TableTakes ==
  ASSUME TypeOK, HasPlace, NEW t \in Child
  PROVE  Cardinality(running \cup {t}) <= Places
<1>1. IsFiniteSet(running)
  <2>1. running \subseteq 1..Tests /\ Tests \in Int
    BY SessionAssumption DEF TypeOK, Child
  <2>2. 1 \in Int
    OBVIOUS
  <2>3. IsFiniteSet(1..Tests)
    BY <2>1, <2>2, FS_Interval
  <2> QED BY <2>1, <2>3, FS_Subset
<1>2. /\ Cardinality(running) \in Nat
      /\ Cardinality(running \cup {t}) = IF t \in running THEN Cardinality(running)
                                         ELSE Cardinality(running) + 1
  BY <1>1, FS_CardinalityType, FS_AddElement
<1> QED
  BY <1>2, Session DEF HasPlace

\* The table loses one.
LEMMA TableLoses ==
  ASSUME TypeOK, NEW t \in running
  PROVE  Cardinality(running \ {t}) <= Cardinality(running)
         /\ Cardinality(running) \in Nat /\ Cardinality(running \ {t}) \in Nat
<1>1. IsFiniteSet(running)
  <2>1. running \subseteq 1..Tests /\ Tests \in Int
    BY SessionAssumption DEF TypeOK, Child
  <2>2. 1 \in Int
    OBVIOUS
  <2>3. IsFiniteSet(1..Tests)
    BY <2>1, <2>2, FS_Interval
  <2> QED BY <2>1, <2>3, FS_Subset
<1>2. Cardinality(running \ {t}) = Cardinality(running) - 1
  BY <1>1, FS_RemoveElement
<1>3. Cardinality(running) \in Nat /\ Cardinality(running \ {t}) \in Nat
  BY <1>1, FS_CardinalityType, FS_Subset
<1> QED
  BY <1>2, <1>3

\* Every step keeps the roles.
LEMMA RolesStep == TypeOK /\ Roles /\ Next => Roles'
<1> SUFFICES ASSUME TypeOK, Roles, Next PROVE Roles'
  OBVIOUS
<1>s. /\ Runner \in Procs /\ Runner \notin Child /\ Child \subseteq Procs
      /\ Procs = Child \cup {Runner} /\ Tests \in Nat /\ Places \in Nat
      /\ Child \subseteq Nat /\ Runner = 0 /\ MaxObjects \in Nat
  BY Session DEF Child, Runner
<1>t. /\ pc \in [Procs -> Labels] /\ test \in [Procs -> 1..(Tests + 1)]
      /\ res \in [Procs -> BOOLEAN]
  BY DEF TypeOK
<1>r. RunnerRole
  BY DEF Roles
<1>c. \A t \in Child : ChildRole(t)
  BY DEF Roles
<1>1. ASSUME MkDirs PROVE Roles'
  <2> USE DEF output, tasks, place
  <2>1. /\ UNCHANGED <<cfg, test, running, judged, deserted>>
        /\ \A q \in Procs \ {Runner} : pc'[q] = pc[q] /\ res'[q] = res[q]
    BY <1>1, <1>t DEF MkDirs, Go, Exits
  <2>2. RunnerRole'
    BY <1>1, <1>r, <1>s, <1>t, <2>1 DEF MkDirs, Go, Exits, RunnerRole, Places, Setup, InTest, Final, Labels
  <2> QED BY <1>s, <2>1, <2>2, RolesLocal
<1>2. ASSUME SystemInfo PROVE Roles'
  <2> USE DEF output, tasks, place
  <2>1. /\ UNCHANGED <<cfg, test, running, judged, deserted>>
        /\ \A q \in Procs \ {Runner} : pc'[q] = pc[q] /\ res'[q] = res[q]
    BY <1>2, <1>t DEF SystemInfo, Go
  <2>2. RunnerRole'
    BY <1>2, <1>r, <1>s, <1>t, <2>1 DEF SystemInfo, Go, RunnerRole, Places, Setup, InTest, Final, Labels
  <2> QED BY <1>s, <2>1, <2>2, RolesLocal
<1>3. ASSUME SubmitFails PROVE Roles'
  <2> USE DEF output, tasks, place
  <2>1. /\ UNCHANGED <<cfg, test, running, judged, deserted>>
        /\ \A q \in Procs \ {Runner} : pc'[q] = pc[q] /\ res'[q] = res[q]
    BY <1>3, <1>t DEF SubmitFails, Go
  <2>2. RunnerRole'
    BY <1>3, <1>r, <1>s, <1>t, <2>1 DEF SubmitFails, Go, InLoop, RunnerRole, Places, Setup, InTest, Final, Labels
  <2> QED BY <1>s, <2>1, <2>2, RolesLocal
<1>4. ASSUME NEW p \in Procs, RegistryFails(p) PROVE Roles'
  <2> USE DEF output, tasks, place
  <2>1. /\ UNCHANGED <<cfg, test, running, judged, deserted>>
        /\ \A q \in Procs \ {p} : pc'[q] = pc[q] /\ res'[q] = res[q]
    BY <1>4, <1>t DEF RegistryFails, Go, Exits
  <2>2. CASE p = Runner
    <3>1. RunnerRole'
      BY <1>4, <1>r, <1>s, <1>t, <2>1, <2>2
         DEF RegistryFails, Go, Exits, RunnerRole, Places, Setup, InTest, Final, Labels
    <3> QED BY <1>s, <2>1, <2>2, <3>1, RolesLocal
  <2>3. CASE p \in Child
    <3>1. ChildRole(p)'
      BY <1>4, <1>c, <1>s, <1>t, <2>1, <2>3
         DEF RegistryFails, Go, Exits, ChildRole, Setup, InTest, Final, Labels
    <3> QED BY <1>s, <2>1, <2>3, <3>1, RolesLocal
  <2> QED BY <1>s, <2>2, <2>3
<1>5. ASSUME NEW p \in Procs, Initialize(p) PROVE Roles'
  <2> USE DEF output, tasks, place
  <2>1. /\ UNCHANGED <<cfg, test, running, judged, deserted>>
        /\ \A q \in Procs \ {p} : pc'[q] = pc[q] /\ res'[q] = res[q]
    BY <1>5, <1>t DEF Initialize, Go
  <2>2. CASE p = Runner
    <3>1. RunnerRole'
      BY <1>5, <1>r, <1>s, <1>t, <2>1, <2>2
         DEF Initialize, Go, IsChild, RunnerRole, Places, Setup, InTest, Final, Labels
    <3> QED BY <1>s, <2>1, <2>2, <3>1, RolesLocal
  <2>3. CASE p \in Child
    <3>1. ChildRole(p)'
      BY <1>5, <1>c, <1>s, <1>t, <2>1, <2>3
         DEF Initialize, Go, IsChild, ChildRole, Setup, InTest, Final, Labels
    <3> QED BY <1>s, <2>1, <2>3, <3>1, RolesLocal
  <2> QED BY <1>s, <2>2, <2>3
<1>6. ASSUME NEW p \in Procs, ListTests(p) PROVE Roles'
  <2> USE DEF output, tasks, place
  <2>1. /\ UNCHANGED <<cfg, test, running, judged, deserted>>
        /\ \A q \in Procs \ {p} : pc'[q] = pc[q] /\ res'[q] = res[q]
    BY <1>6, <1>t DEF ListTests, Go, Exits
  <2>2. CASE p = Runner
    <3>1. RunnerRole'
      BY <1>6, <1>r, <1>s, <1>t, <2>1, <2>2
         DEF ListTests, Go, Exits, IsChild, RunnerRole, Places, Setup, InTest, Final, Labels
    <3> QED BY <1>s, <2>1, <2>2, <3>1, RolesLocal
  <2>3. CASE p \in Child
    <3>1. ChildRole(p)'
      BY <1>6, <1>c, <1>s, <1>t, <2>1, <2>3
         DEF ListTests, Go, Exits, IsChild, ChildRole, Setup, InTest, Final, Labels
    <3> QED BY <1>s, <2>1, <2>3, <3>1, RolesLocal
  <2> QED BY <1>s, <2>2, <2>3
<1>7. ASSUME NEW p \in Procs, CreateOutfile(p) PROVE Roles'
  <2> USE DEF output, tasks, place
  <2>1. /\ UNCHANGED <<cfg, test, running, judged, deserted>>
        /\ \A q \in Procs \ {p} : pc'[q] = pc[q] /\ res'[q] = res[q]
    BY <1>7, <1>t DEF CreateOutfile, Go
  <2>2. CASE p = Runner
    <3>1. RunnerRole'
      <4>1. pc[p] = "outfile" /\ pc'[p] \in {"outfile", "loop"}
        BY <1>7, <1>t DEF CreateOutfile, Go
      <4> QED BY <1>r, <1>s, <2>1, <2>2, <4>1
              DEF RunnerRole, Places, Setup, InTest, Final
    <3> QED BY <1>s, <2>1, <2>2, <3>1, RolesLocal
  <2>3. CASE p \in Child
    <3>1. ChildRole(p)'
      BY <1>7, <1>c, <1>s, <1>t, <2>1, <2>3
         DEF CreateOutfile, Go, ChildRole, Setup, InTest, Final, Labels
    <3> QED BY <1>s, <2>1, <2>3, <3>1, RolesLocal
  <2> QED BY <1>s, <2>2, <2>3
<1>8. ASSUME NEW p \in Procs, SubmitHere(p) PROVE Roles'
  <2> USE DEF output, tasks, place
  <2>1. /\ UNCHANGED <<cfg, test, running, judged, deserted>>
        /\ \A q \in Procs \ {p} : pc'[q] = pc[q] /\ res'[q] = res[q]
    BY <1>8, <1>t DEF SubmitHere, Go
  <2>2. CASE p = Runner
    <3>1. RunnerRole'
      BY <1>8, <1>r, <1>s, <1>t, <2>1, <2>2
         DEF SubmitHere, Go, InLoop, IsChild, RunnerRole, Places, Setup, InTest, Final, Labels
    <3> QED BY <1>s, <2>1, <2>2, <3>1, RolesLocal
  <2>3. CASE p \in Child
    <3>1. ChildRole(p)'
      BY <1>8, <1>c, <1>s, <1>t, <2>1, <2>3
         DEF SubmitHere, Go, InLoop, IsChild, ChildRole, Setup, InTest, Final, Labels
    <3> QED BY <1>s, <2>1, <2>3, <3>1, RolesLocal
  <2> QED BY <1>s, <2>2, <2>3
<1>9. ASSUME NEW p \in Procs, LoopEnds(p) PROVE Roles'
  <2> USE DEF output, tasks, place
  <2>1. /\ UNCHANGED <<cfg, test, running, judged, deserted>>
        /\ \A q \in Procs \ {p} : pc'[q] = pc[q] /\ res'[q] = res[q]
    BY <1>9, <1>t DEF LoopEnds, Go
  <2>2. CASE p = Runner
    <3>1. RunnerRole'
      BY <1>9, <1>r, <1>s, <1>t, <2>1, <2>2
         DEF LoopEnds, Go, RunnerRole, Places, Setup, InTest, Final, Labels
    <3> QED BY <1>s, <2>1, <2>2, <3>1, RolesLocal
  <2>3. CASE p \in Child
    <3>1. ChildRole(p)'
      BY <1>9, <1>c, <1>s, <1>t, <2>1, <2>3
         DEF LoopEnds, Go, ChildRole, Setup, InTest, Final, Labels
    <3> QED BY <1>s, <2>1, <2>3, <3>1, RolesLocal
  <2> QED BY <1>s, <2>2, <2>3
<1>10. ASSUME NEW p \in Procs, Before(p) PROVE Roles'
  <2> USE DEF output, tasks, place
  <2>1. /\ UNCHANGED <<cfg, test, running, judged, deserted>>
        /\ \A q \in Procs \ {p} : pc'[q] = pc[q] /\ res'[q] = res[q]
    BY <1>10, <1>t DEF Before, Go
  <2>2. CASE p = Runner
    <3>1. RunnerRole'
      BY <1>10, <1>r, <1>s, <1>t, <2>1, <2>2
         DEF Before, Go, RunnerRole, Places, Setup, InTest, Final, Labels
    <3> QED BY <1>s, <2>1, <2>2, <3>1, RolesLocal
  <2>3. CASE p \in Child
    <3>1. ChildRole(p)'
      BY <1>10, <1>c, <1>s, <1>t, <2>1, <2>3
         DEF Before, Go, ChildRole, Setup, InTest, Final, Labels
    <3> QED BY <1>s, <2>1, <2>3, <3>1, RolesLocal
  <2> QED BY <1>s, <2>2, <2>3
<1>11. ASSUME NEW p \in Procs, Body(p) PROVE Roles'
  <2> USE DEF output, tasks, place
  <2>1. /\ UNCHANGED <<cfg, test, running, judged, deserted>>
        /\ \A q \in Procs \ {p} : pc'[q] = pc[q] /\ res'[q] = res[q]
    BY <1>11, <1>t DEF Body, Go, Exits
  <2>2. CASE p = Runner
    <3>1. RunnerRole'
      BY <1>11, <1>r, <1>s, <1>t, <2>1, <2>2
         DEF Body, Go, Exits, RunnerRole, Places, Setup, InTest, Final, Labels
    <3> QED BY <1>s, <2>1, <2>2, <3>1, RolesLocal
  <2>3. CASE p \in Child
    <3>1. ChildRole(p)'
      BY <1>11, <1>c, <1>s, <1>t, <2>1, <2>3
         DEF Body, Go, Exits, ChildRole, Setup, InTest, Final, Labels
    <3> QED BY <1>s, <2>1, <2>3, <3>1, RolesLocal
  <2> QED BY <1>s, <2>2, <2>3
<1>12. ASSUME NEW p \in Procs, Measured(p) PROVE Roles'
  <2> USE DEF output, tasks, place
  <2>1. /\ UNCHANGED <<cfg, test, running, judged, deserted>>
        /\ \A q \in Procs \ {p} : pc'[q] = pc[q] /\ res'[q] = res[q]
    BY <1>12, <1>t DEF Measured, Go
  <2>2. CASE p = Runner
    <3>1. RunnerRole'
      BY <1>12, <1>r, <1>s, <1>t, <2>1, <2>2
         DEF Measured, Go, RunnerRole, Places, Setup, InTest, Final, Labels
    <3> QED BY <1>s, <2>1, <2>2, <3>1, RolesLocal
  <2>3. CASE p \in Child
    <3>1. ChildRole(p)'
      BY <1>12, <1>c, <1>s, <1>t, <2>1, <2>3
         DEF Measured, Go, ChildRole, Setup, InTest, Final, Labels
    <3> QED BY <1>s, <2>1, <2>3, <3>1, RolesLocal
  <2> QED BY <1>s, <2>2, <2>3
<1>13. ASSUME NEW p \in Procs, After(p) PROVE Roles'
  <2> USE DEF output, tasks, place
  <2>1. /\ UNCHANGED <<cfg, test, running, judged, deserted>>
        /\ \A q \in Procs \ {p} : pc'[q] = pc[q] /\ res'[q] = res[q]
    BY <1>13, <1>t DEF After, Go
  <2>2. CASE p = Runner
    <3>1. RunnerRole'
      BY <1>13, <1>r, <1>s, <1>t, <2>1, <2>2
         DEF After, Go, RunnerRole, Places, Setup, InTest, Final, Labels
    <3> QED BY <1>s, <2>1, <2>2, <3>1, RolesLocal
  <2>3. CASE p \in Child
    <3>1. ChildRole(p)'
      BY <1>13, <1>c, <1>s, <1>t, <2>1, <2>3
         DEF After, Go, ChildRole, Setup, InTest, Final, Labels
    <3> QED BY <1>s, <2>1, <2>3, <3>1, RolesLocal
  <2> QED BY <1>s, <2>2, <2>3
<1>14. ASSUME NEW p \in Procs, Waited(p) PROVE Roles'
  <2> USE DEF output, tasks, place
  <2>1. /\ UNCHANGED <<cfg, test, running, judged, deserted>>
        /\ \A q \in Procs \ {p} : pc'[q] = pc[q] /\ res'[q] = res[q]
    BY <1>14, <1>t DEF Waited, Go
  <2>2. CASE p = Runner
    <3>1. RunnerRole'
      BY <1>14, <1>r, <1>s, <1>t, <2>1, <2>2
         DEF Waited, Go, IsChild, RunnerRole, Places, Setup, InTest, Final, Labels
    <3> QED BY <1>s, <2>1, <2>2, <3>1, RolesLocal
  <2>3. CASE p \in Child
    <3>1. ChildRole(p)'
      BY <1>14, <1>c, <1>s, <1>t, <2>1, <2>3
         DEF Waited, Go, IsChild, ChildRole, Setup, InTest, Final, Labels
    <3> QED BY <1>s, <2>1, <2>3, <3>1, RolesLocal
  <2> QED BY <1>s, <2>2, <2>3
<1>15. ASSUME NEW p \in Procs, Report(p) PROVE Roles'
  <2> USE DEF output, tasks, place
  <2>1. /\ UNCHANGED <<cfg, test, running, judged, deserted>>
        /\ \A q \in Procs \ {p} : pc'[q] = pc[q] /\ res'[q] = res[q]
    BY <1>15, <1>t DEF Report, Go
  <2>2. CASE p = Runner
    <3>1. RunnerRole'
      BY <1>15, <1>r, <1>s, <1>t, <2>1, <2>2
         DEF Report, Go, IsChild, RunnerRole, Places, Setup, InTest, Final, Labels
    <3> QED BY <1>s, <2>1, <2>2, <3>1, RolesLocal
  <2>3. CASE p \in Child
    <3>1. ChildRole(p)'
      BY <1>15, <1>c, <1>s, <1>t, <2>1, <2>3
         DEF Report, Go, IsChild, ChildRole, Setup, InTest, Final, Labels
    <3> QED BY <1>s, <2>1, <2>3, <3>1, RolesLocal
  <2> QED BY <1>s, <2>2, <2>3
<1>16. ASSUME NEW p \in Procs, Finalize(p) PROVE Roles'
  <2> USE DEF output, tasks, place
  <2>1. /\ UNCHANGED <<cfg, test, running, judged, deserted>>
        /\ \A q \in Procs \ {p} : pc'[q] = pc[q] /\ res'[q] = res[q]
    BY <1>16, <1>t DEF Finalize, Go
  <2>2. CASE p = Runner
    <3>1. RunnerRole'
      BY <1>16, <1>r, <1>s, <1>t, <2>1, <2>2
         DEF Finalize, Go, RunnerRole, Places, Setup, InTest, Final, Labels
    <3> QED BY <1>s, <2>1, <2>2, <3>1, RolesLocal
  <2>3. CASE p \in Child
    <3>1. ChildRole(p)'
      BY <1>16, <1>c, <1>s, <1>t, <2>1, <2>3
         DEF Finalize, Go, ChildRole, Setup, InTest, Final, Labels
    <3> QED BY <1>s, <2>1, <2>3, <3>1, RolesLocal
  <2> QED BY <1>s, <2>2, <2>3
<1>17. ASSUME NEW p \in Procs, Destroyed(p) PROVE Roles'
  <2> USE DEF output, tasks, place
  <2>1. /\ UNCHANGED <<cfg, test, running, judged, deserted>>
        /\ \A q \in Procs \ {p} : pc'[q] = pc[q] /\ res'[q] = res[q]
    BY <1>17, <1>t DEF Destroyed, Go, Exits
  <2>2. CASE p = Runner
    <3>1. RunnerRole'
      BY <1>17, <1>r, <1>s, <1>t, <2>1, <2>2
         DEF Destroyed, Go, Exits, IsChild, RunnerRole, Places, Setup, InTest, Final, Labels
    <3> QED BY <1>s, <2>1, <2>2, <3>1, RolesLocal
  <2>3. CASE p \in Child
    <3>1. ChildRole(p)'
      BY <1>17, <1>c, <1>s, <1>t, <2>1, <2>3
         DEF Destroyed, Go, Exits, IsChild, ChildRole, Setup, InTest, Final, Labels
    <3> QED BY <1>s, <2>1, <2>3, <3>1, RolesLocal
  <2> QED BY <1>s, <2>2, <2>3
<1>18. ASSUME TableTooLarge PROVE Roles'
  <2>1. /\ UNCHANGED <<cfg, test, running, judged, res, deserted>>
        /\ \A q \in Procs \ {Runner} : pc'[q] = pc[q]
        /\ pc'[Runner] = "killed"
    BY <1>18, <1>t, <1>s DEF TableTooLarge, Go, output, tasks, place
  <2>2. cfg.fork => ~cfg.posix /\ Places > MaxObjects
    <3>1. ~cfg.posix /\ ~(Cardinality(running) <= MaxObjects)
      BY <1>18 DEF TableTooLarge, TableFits
    <3>2. Cardinality(running) <= Places /\ Cardinality(running) \in Nat
      <4>1. running # {}
        BY <1>18 DEF TableTooLarge
      <4> QED BY <1>r, <4>1, TableLoses DEF RunnerRole
    <3> QED BY <1>s, <3>1, <3>2
  <2>3. RunnerRole'
    BY <1>r, <1>s, <2>1, <2>2 DEF RunnerRole, Places, Setup, InTest, Final
  <2> QED BY <1>s, <2>1, <2>3, RolesLocal
<1>19. ASSUME NEW p \in Procs, SkipTest(p) PROVE Roles'
  <2>1. /\ UNCHANGED <<cfg, pc, res, running, judged, deserted>> /\ p \in Child
        /\ pc[p] = "loop" /\ test[p] # p /\ test' = [test EXCEPT ![p] = test[p] + 1]
    BY <1>19, <1>s DEF SkipTest, InLoop, IsChild, output, tasks
  <2>2. test'[Runner] = test[Runner] /\ test'[p] = test[p] + 1
        /\ \A q \in Procs \ {p} : test'[q] = test[q]
    BY <1>s, <1>t, <2>1
  <2>3. RunnerRole'
    BY <1>r, <2>1, <2>2 DEF RunnerRole, Places
  <2>4. ASSUME NEW t \in Child PROVE ChildRole(t)'
    <3>1. CASE t = p
      <4>1. test[p] <= p
        BY <1>c, <2>1 DEF ChildRole
      <4>2. test[p] \in Nat /\ p \in Nat
        BY <1>s, <1>t, <2>1
      <4>3. test'[p] <= p
        BY <2>1, <2>2, <4>1, <4>2
      <4> QED BY <1>c, <2>1, <2>2, <3>1, <4>3 DEF ChildRole, InTest
    <3>2. CASE t # p
      BY <1>c, <1>s, <2>1, <2>2, <3>2 DEF ChildRole
    <3> QED BY <3>1, <3>2
  <2> QED BY <2>3, <2>4 DEF Roles
<1>20. ASSUME Submit PROVE Roles'
  <2> DEFINE t == test[Runner]
  <2>1. /\ t \in Child /\ t \in Nat /\ cfg.fork /\ HasPlace
        /\ UNCHANGED <<cfg, res, judged, deserted>> /\ running' = running \cup {t}
        /\ pc[Runner] = "loop" /\ t # Runner
    BY <1>20, <1>t, <1>s DEF Submit, InLoop, Child
  <2>2. /\ pc'[Runner] = "loop" /\ \A q \in Procs \ {t} : pc'[q] = pc[q]
        /\ pc'[t] = IF cfg.posix THEN "before" ELSE "initialize"
    BY <1>20, <1>t, <1>s, <2>1 DEF Submit
  <2>3. /\ test'[Runner] = t + 1 /\ \A q \in Procs \ {Runner, t} : test'[q] = test[q]
        /\ test'[t] = IF cfg.posix THEN t ELSE 1
    BY <1>20, <1>t, <1>s, <2>1 DEF Submit
  <2>4. Cardinality(running') <= Places
    BY <2>1, TableTakes
  <2> HIDE DEF t
  <2>5. RunnerRole'
    <3>1. running \subseteq 1..(t - 1)
      BY <1>r DEF RunnerRole, t
    <3>2. running' \subseteq 1..((t + 1) - 1)
      BY <2>1, <3>1, <1>s DEF Child
    <3> QED BY <2>1, <2>2, <2>3, <2>4, <3>2
            DEF RunnerRole, Places, Setup, InTest, Final
  <2>6. ASSUME NEW q \in Child PROVE ChildRole(q)'
    <3>1. CASE q = t
      <4>1. CASE cfg.posix
        BY <2>1, <2>2, <2>3, <3>1, <4>1 DEF ChildRole, InTest
      <4>2. CASE ~cfg.posix
        <5>1. pc'[t] = "initialize" /\ test'[t] = 1 /\ 1 <= t
          BY <2>1, <2>2, <2>3, <4>2 DEF Child
        <5> QED BY <2>1, <2>3, <3>1, <5>1 DEF ChildRole, InTest
      <4> QED BY <4>1, <4>2
    <3>2. CASE q # t
      <4>1. ChildRole(q) /\ q \in Procs /\ q # Runner /\ q \in Nat
        BY <1>c, <1>s
      <4>2. pc'[q] = pc[q] /\ test'[q] = test[q] /\ (q \in running' <=> q \in running)
        BY <2>1, <2>2, <2>3, <3>2, <4>1
      <4>3. q >= test'[Runner] => q >= test[Runner]
        BY <2>1, <2>3, <4>1 DEF t
      <4> QED BY <2>1, <4>1, <4>2, <4>3 DEF ChildRole
    <3> QED BY <3>1, <3>2
  <2> QED BY <2>5, <2>6 DEF Roles
<1>21. ASSUME NEW p \in Procs, Launched(p) PROVE Roles'
  <2>1. /\ UNCHANGED <<cfg, res, running, deserted>> /\ pc[p] = "after"
        /\ \A q \in Procs \ {p} : pc'[q] = pc[q]
    BY <1>21, <1>t DEF Launched, Go, output
  <2>2. CASE p = Runner
    <3>1. ~cfg.fork /\ running = {} /\ test[p] <= Tests
      BY <1>r, <2>1, <2>2 DEF RunnerRole, InTest
    <3>2. CASE res[p]
      <4>1. /\ pc'[p] = "loop" /\ test' = [test EXCEPT ![p] = test[p] + 1]
            /\ test'[Runner] = test[Runner] + 1 /\ test[Runner] \in Nat
            /\ \A q \in Child : test'[q] = test[q] /\ pc'[q] = pc[q]
        BY <1>21, <1>s, <1>t, <2>1, <2>2, <3>2 DEF Launched, Go, IsChild
      <4>2. RunnerRole'
        BY <1>r, <1>s, <2>1, <2>2, <3>1, <4>1
           DEF RunnerRole, Places, Setup, InTest, Final
      <4>3. ASSUME NEW q \in Child PROVE ChildRole(q)'
        BY <1>c, <1>s, <2>1, <3>1, <4>1 DEF ChildRole
      <4> QED BY <4>2, <4>3 DEF Roles
    <3>3. CASE ~res[p]
      <4>1. pc'[p] = "report" /\ UNCHANGED test
        BY <1>21, <1>t, <2>2, <3>3 DEF Launched, Go
      <4>2. RunnerRole'
        BY <1>r, <1>s, <2>1, <2>2, <3>1, <4>1
           DEF RunnerRole, Places, Setup, InTest, Final
      <4> QED BY <1>s, <2>1, <2>2, <4>1, <4>2, RolesLocal
    <3> QED BY <3>2, <3>3
  <2>3. CASE p \in Child
    <3>1. UNCHANGED <<judged, test>> /\ pc'[p] \in {"wait", "report"}
      BY <1>21, <1>s, <1>t, <2>3 DEF Launched, Go, IsChild
    <3>2. ChildRole(p)'
      BY <1>c, <1>s, <2>1, <2>3, <3>1 DEF ChildRole, InTest
    <3> QED BY <1>s, <2>1, <2>3, <3>1, <3>2, RolesLocal
  <2> QED BY <1>s, <2>2, <2>3
<1>22. ASSUME NEW t \in Child, Collect(t) PROVE Roles'
  <2>1. /\ UNCHANGED <<cfg, pc, test, res, deserted>> /\ running' = running \ {t}
        /\ t \in running /\ pc[t] \in {"exited", "killed"}
        /\ pc[Runner] \in {"wait", "destroy", "loop"}
    BY <1>22 DEF Collect, Collects, InLoop, place
  <2>2. Cardinality(running') <= Places
    <3>1. Cardinality(running) <= Places
      BY <1>r DEF RunnerRole
    <3>2. /\ Cardinality(running \ {t}) <= Cardinality(running)
          /\ Cardinality(running) \in Nat /\ Cardinality(running \ {t}) \in Nat
      BY <2>1, TableLoses
    <3> QED BY <1>s, <2>1, <3>1, <3>2
  <2>3. RunnerRole'
    BY <1>r, <2>1, <2>2 DEF RunnerRole, Places, Setup, InTest, Final
  <2>4. ASSUME NEW q \in Child PROVE ChildRole(q)'
    BY <1>c, <2>1 DEF ChildRole
  <2> QED BY <2>3, <2>4 DEF Roles
<1>24. ASSUME WaitFails PROVE Roles'
  <2>1. /\ UNCHANGED <<cfg, test, running, judged>> /\ running # {}
        /\ \A q \in Procs \ {Runner} : pc'[q] = pc[q] /\ res'[q] = res[q]
    BY <1>24, <1>t DEF WaitFails, Go, Exits
  <2>2. CASE pc[Runner] = "destroy"
    <3>1. pc'[Runner] = "exited" /\ deserted' = TRUE /\ ~res'[Runner]
      BY <1>24, <1>r, <1>s, <1>t, <2>1, <2>2
         DEF WaitFails, Go, Exits, RunnerRole, Final
    <3>2. RunnerRole'
      BY <1>r, <1>s, <2>1, <2>2, <3>1 DEF RunnerRole, Places, Setup, InTest, Final
    <3> QED BY <1>s, <2>1, <3>2, RolesLocal
  <2>3. CASE pc[Runner] # "destroy"
    <3>1. pc'[Runner] = "report" /\ ~res'[Runner]
      BY <1>24, <1>s, <1>t, <2>3 DEF WaitFails, Go
    <3>2. RunnerRole'
      BY <1>r, <1>s, <2>1, <3>1 DEF RunnerRole, Places, Setup, InTest, Final
    <3> QED BY <1>s, <2>1, <3>2, RolesLocal
  <2> QED BY <2>2, <2>3
<1>23. CASE UNCHANGED vars
  BY <1>23 DEF vars, place, tasks, output, Roles, RunnerRole, ChildRole, Places
<1> QED
  BY <1>1, <1>2, <1>3, <1>4, <1>5, <1>6, <1>7, <1>8, <1>9, <1>10, <1>11, <1>12,
     <1>13, <1>14, <1>15, <1>16, <1>17, <1>18, <1>19, <1>20, <1>21, <1>22,
     <1>23, <1>24 DEF Next, Over, Child

-----------------------------------------------------------------------------
(* Hooks *)

Stacks == {Stack(a, b) : a, b \in 0..Inits}

\* At the start nothing is open.
LEMMA NestedInit == Init => Nested
<1> SUFFICES ASSUME Init PROVE Nested
  OBVIOUS
<1>1. 0 \in 0..Inits
  BY SessionAssumption
<1>2. Stack(0, 0) \in {Stack(a, b) : a, b \in 0..Inits}
  BY <1>1
<1>3. open \in [Procs -> {Stack(a, b) : a, b \in 0..Inits}]
  BY <1>2, StackEmpty DEF Init
<1>4. ASSUME NEW p \in Procs PROVE Hooks(p)
  BY StackEmpty DEF Init, Hooks
<1> QED
  BY <1>3, <1>4 DEF Nested

\* A step of one process that calls a hook, or none.
LEMMA NestedLocal ==
  ASSUME Nested, NEW p \in Procs,
         \A q \in Procs \ {p} : pc'[q] = pc[q] /\ n'[q] = n[q],
         \/ open' = open
         \/ \E a, b \in 0..Inits : open' = [open EXCEPT ![p] = Stack(a, b)],
         Hooks(p)'
  PROVE  Nested'
<1>1. open' \in [Procs -> {Stack(a, b) : a, b \in 0..Inits}]
      /\ \A q \in Procs \ {p} : open'[q] = open[q]
  <2>1. open \in [Procs -> Stacks]
    BY DEF Nested, Stacks
  <2>2. CASE open' = open
    BY <2>1, <2>2 DEF Stacks
  <2>3. ASSUME NEW a \in 0..Inits, NEW b \in 0..Inits,
               open' = [open EXCEPT ![p] = Stack(a, b)]
        PROVE  open' \in [Procs -> Stacks]
               /\ \A q \in Procs \ {p} : open'[q] = open[q]
    <3>1. Stack(a, b) \in Stacks
      BY DEF Stacks
    <3> QED BY <2>1, <2>3, <3>1
  <2> QED BY <2>2, <2>3 DEF Stacks
<1>2. ASSUME NEW q \in Procs PROVE Hooks(q)'
  <2>1. CASE q = p
    BY <2>1
  <2>2. CASE q # p
    BY <1>1, <2>2 DEF Nested, Hooks
  <2> QED BY <2>1, <2>2
<1> QED
  BY <1>1, <1>2 DEF Nested

\* Every step keeps the heights of the stacks.
LEMMA NestedStep == TypeOK /\ Roles /\ Nested /\ Next => Nested'
<1> SUFFICES ASSUME TypeOK, Roles, Nested, Next PROVE Nested'
  OBVIOUS
<1>s. /\ Runner \in Procs /\ Child \subseteq Procs /\ Inits \in Nat
      /\ 0 \in 0..Inits /\ Inits \in 0..Inits /\ Runner \notin Child
  BY Session
<1>t. /\ pc \in [Procs -> Labels] /\ n \in [Procs -> 0..(Inits + 1)]
      /\ open \in [Procs -> {Stack(a, b) : a, b \in 0..Inits}]
  BY DEF TypeOK, Nested
<1>h. \A p \in Procs : Hooks(p)
  BY DEF Nested
<1>d. DOMAIN open = Procs
  BY <1>t
<1>1. ASSUME MkDirs PROVE Nested'
  <2>1. open' = open /\ \A q \in Procs \ {Runner} : pc'[q] = pc[q] /\ n'[q] = n[q]
    BY <1>1, <1>t DEF MkDirs, Go, Exits
  <2>2. Hooks(Runner)'
    BY <1>1, <1>h, <1>s, <1>t, <2>1 DEF MkDirs, Go, Exits, Hooks, Labels
  <2> QED BY <1>s, <2>1, <2>2, NestedLocal
<1>2. ASSUME SystemInfo PROVE Nested'
  <2>1. open' = open /\ \A q \in Procs \ {Runner} : pc'[q] = pc[q] /\ n'[q] = n[q]
    BY <1>2, <1>t DEF SystemInfo, Go
  <2>2. Hooks(Runner)'
    BY <1>2, <1>h, <1>s, <1>t, <2>1 DEF SystemInfo, Go, Hooks, Labels
  <2> QED BY <1>s, <2>1, <2>2, NestedLocal
<1>3. ASSUME SubmitFails PROVE Nested'
  <2>1. open' = open /\ \A q \in Procs \ {Runner} : pc'[q] = pc[q] /\ n'[q] = n[q]
    BY <1>3, <1>t DEF SubmitFails, Go
  <2>2. Hooks(Runner)'
    BY <1>3, <1>h, <1>s, <1>t, <2>1 DEF SubmitFails, Go, InLoop, Hooks, Labels
  <2> QED BY <1>s, <2>1, <2>2, NestedLocal
<1>4. ASSUME TableTooLarge PROVE Nested'
  <2>1. open' = open /\ \A q \in Procs \ {Runner} : pc'[q] = pc[q] /\ n'[q] = n[q]
    BY <1>4, <1>t DEF TableTooLarge, Go
  <2>2. Hooks(Runner)'
    BY <1>4, <1>h, <1>s, <1>t, <2>1 DEF TableTooLarge, Go, Collects, InLoop, Hooks, Labels
  <2> QED BY <1>s, <2>1, <2>2, NestedLocal
<1>5. ASSUME NEW p \in Procs, RegistryFails(p) PROVE Nested'
  <2>1. open' = open /\ \A q \in Procs \ {p} : pc'[q] = pc[q] /\ n'[q] = n[q]
    BY <1>5, <1>t DEF RegistryFails, Go, Exits
  <2>2. Hooks(p)'
    BY <1>5, <1>h, <1>s, <1>t, <2>1 DEF RegistryFails, Go, Exits, Hooks, Labels
  <2> QED BY <1>s, <2>1, <2>2, NestedLocal
<1>6. ASSUME NEW p \in Procs, ListTests(p) PROVE Nested'
  <2>1. open' = open /\ \A q \in Procs \ {p} : pc'[q] = pc[q] /\ n'[q] = n[q]
    BY <1>6, <1>t DEF ListTests, Go, Exits
  <2>2. Hooks(p)'
    BY <1>6, <1>h, <1>s, <1>t, <2>1 DEF ListTests, Go, Exits, Hooks, Labels
  <2> QED BY <1>s, <2>1, <2>2, NestedLocal
<1>7. ASSUME NEW p \in Procs, CreateOutfile(p) PROVE Nested'
  <2>1. \/ Go(p, "loop", 0) \/ Go(p, "outfile", 1)
        \/ Go(p, "outfile", n[p] + 1)
    BY <1>7 DEF CreateOutfile
  <2>2. open' = open /\ pc[p] = "outfile" /\ pc'[p] \in {"outfile", "loop"}
        /\ \A q \in Procs \ {p} : pc'[q] = pc[q] /\ n'[q] = n[q]
    <3>1. open' = open /\ pc[p] = "outfile"
      BY <1>7 DEF CreateOutfile
    <3> QED BY <1>t, <2>1, <3>1 DEF Go
  <2>3. Hooks(p)'
    BY <1>h, <2>2 DEF Hooks
  <2> QED BY <2>2, <2>3, NestedLocal
<1>8. ASSUME NEW p \in Procs, SubmitHere(p) PROVE Nested'
  <2>1. open' = open /\ \A q \in Procs \ {p} : pc'[q] = pc[q] /\ n'[q] = n[q]
    BY <1>8, <1>t DEF SubmitHere, Go
  <2>2. Hooks(p)'
    BY <1>8, <1>h, <1>s, <1>t, <2>1 DEF SubmitHere, Go, InLoop, Hooks, Labels
  <2> QED BY <1>s, <2>1, <2>2, NestedLocal
<1>9. ASSUME NEW p \in Procs, LoopEnds(p) PROVE Nested'
  <2>1. open' = open /\ \A q \in Procs \ {p} : pc'[q] = pc[q] /\ n'[q] = n[q]
    BY <1>9, <1>t DEF LoopEnds, Go
  <2>2. Hooks(p)'
    BY <1>9, <1>h, <1>s, <1>t, <2>1 DEF LoopEnds, Go, Hooks, Labels
  <2> QED BY <1>s, <2>1, <2>2, NestedLocal
<1>10. ASSUME NEW p \in Procs, Body(p) PROVE Nested'
  <2>1. open' = open /\ \A q \in Procs \ {p} : pc'[q] = pc[q] /\ n'[q] = n[q]
    BY <1>10, <1>t DEF Body, Go, Exits
  <2>2. Hooks(p)'
    BY <1>10, <1>h, <1>s, <1>t, <2>1 DEF Body, Go, Exits, Hooks, Labels
  <2> QED BY <1>s, <2>1, <2>2, NestedLocal
<1>11. ASSUME NEW p \in Procs, Measured(p) PROVE Nested'
  <2>1. open' = open /\ \A q \in Procs \ {p} : pc'[q] = pc[q] /\ n'[q] = n[q]
    BY <1>11, <1>t DEF Measured, Go
  <2>2. Hooks(p)'
    BY <1>11, <1>h, <1>s, <1>t, <2>1 DEF Measured, Go, Hooks, Labels
  <2> QED BY <1>s, <2>1, <2>2, NestedLocal
<1>12. ASSUME NEW p \in Procs, Launched(p) PROVE Nested'
  <2>1. open' = open /\ \A q \in Procs \ {p} : pc'[q] = pc[q] /\ n'[q] = n[q]
    BY <1>12, <1>t DEF Launched, Go
  <2>2. Hooks(p)'
    BY <1>12, <1>h, <1>s, <1>t, <2>1 DEF Launched, Go, Hooks, Labels
  <2> QED BY <1>s, <2>1, <2>2, NestedLocal
<1>13. ASSUME NEW p \in Procs, Waited(p) PROVE Nested'
  <2>1. open' = open /\ \A q \in Procs \ {p} : pc'[q] = pc[q] /\ n'[q] = n[q]
    BY <1>13, <1>t DEF Waited, Go
  <2>2. Hooks(p)'
    BY <1>13, <1>h, <1>s, <1>t, <2>1 DEF Waited, Go, Hooks, Labels
  <2> QED BY <1>s, <2>1, <2>2, NestedLocal
<1>14. ASSUME NEW p \in Procs, Report(p) PROVE Nested'
  <2>1. open' = open /\ \A q \in Procs \ {p} : pc'[q] = pc[q] /\ n'[q] = n[q]
    BY <1>14, <1>t DEF Report, Go
  <2>2. Hooks(p)'
    BY <1>14, <1>h, <1>s, <1>t, <2>1 DEF Report, Go, Hooks, Labels
  <2> QED BY <1>s, <2>1, <2>2, NestedLocal
<1>15. ASSUME NEW p \in Procs, Destroyed(p) PROVE Nested'
  <2>1. open' = open /\ \A q \in Procs \ {p} : pc'[q] = pc[q] /\ n'[q] = n[q]
    BY <1>15, <1>t DEF Destroyed, Go, Exits
  <2>2. Hooks(p)'
    BY <1>15, <1>h, <1>s, <1>t, <2>1 DEF Destroyed, Go, Exits, Hooks, Labels
  <2> QED BY <1>s, <2>1, <2>2, NestedLocal
<1>16. ASSUME NEW p \in Procs, Initialize(p) PROVE Nested'
  <2>1. \A q \in Procs \ {p} : pc'[q] = pc[q] /\ n'[q] = n[q]
    BY <1>16, <1>t DEF Initialize, Go
  <2>2. n[p] \in Nat /\ Hooks(p) /\ pc[p] = "initialize"
    BY <1>16, <1>h, <1>t DEF Initialize
  <2>3. CASE n[p] <= Inits
    <3> DEFINE m == n[p] - 1
    <3>1. n[p] >= 1 /\ m \in 0..Inits /\ m + 1 \in 0..Inits /\ n[p] = m + 1 /\ m \in Nat
      BY <1>s, <1>t, <2>2, <2>3 DEF Hooks
    <3>2. open[p] = Stack(m, 0) /\ Call(p, "initialize", m + 1)
      BY <1>16, <2>2, <2>3, <3>1 DEF Initialize, Hooks
    <3>3. pc'[p] = "initialize" /\ n'[p] = (m + 1) + 1
      BY <1>16, <1>t, <2>3, <3>1 DEF Initialize, Go
    <3> HIDE DEF m
    <3>4. open' = [open EXCEPT ![p] = Stack(m + 1, 0)]
      BY <1>d, <1>s, <3>1, <3>2, CallOpens
    <3>5. open'[p] = Stack(m + 1, 0)
      BY <1>t, <3>4
    <3>6. Hooks(p)'
      BY <1>s, <3>1, <3>3, <3>5 DEF Hooks
    <3> QED BY <1>s, <2>1, <3>1, <3>4, <3>6, NestedLocal
  <2>4. CASE ~(n[p] <= Inits)
    <3>1. n[p] - 1 = Inits /\ open[p] = Stack(Inits, 0)
      BY <1>s, <1>t, <2>2, <2>4 DEF Hooks
    <3>2. open' = open /\ pc'[p] \in {"sysinfo", "list"}
      BY <1>16, <1>t, <2>4 DEF Initialize, Go
    <3>3. Hooks(p)'
      BY <3>1, <3>2 DEF Hooks
    <3> QED BY <2>1, <3>2, <3>3, NestedLocal
  <2> QED BY <2>3, <2>4
<1>17. ASSUME NEW p \in Procs, Before(p) PROVE Nested'
  <2>1. \A q \in Procs \ {p} : pc'[q] = pc[q] /\ n'[q] = n[q]
    BY <1>17, <1>t DEF Before, Go
  <2>2. n[p] \in Nat /\ Hooks(p) /\ pc[p] = "before"
    BY <1>17, <1>h, <1>t DEF Before
  <2>3. CASE n[p] <= Inits
    <3> DEFINE m == n[p] - 1
    <3>1. n[p] >= 1 /\ m \in 0..Inits /\ m + 1 \in 0..Inits /\ n[p] = m + 1 /\ m \in Nat
      BY <1>s, <1>t, <2>2, <2>3 DEF Hooks
    <3>2. open[p] = Stack(Inits, m) /\ Call(p, "before", m + 1)
      BY <1>17, <2>2, <2>3, <3>1 DEF Before, Hooks
    <3>3. pc'[p] = "before" /\ n'[p] = (m + 1) + 1
      BY <1>17, <1>t, <2>3, <3>1 DEF Before, Go
    <3> HIDE DEF m
    <3>4. open' = [open EXCEPT ![p] = Stack(Inits, m + 1)]
      BY <1>d, <1>s, <3>1, <3>2, CallOpens
    <3>5. open'[p] = Stack(Inits, m + 1)
      BY <1>t, <3>4
    <3>6. Hooks(p)'
      BY <1>s, <3>1, <3>3, <3>5 DEF Hooks
    <3> QED BY <1>s, <2>1, <3>1, <3>4, <3>6, NestedLocal
  <2>4. CASE ~(n[p] <= Inits)
    <3>1. n[p] - 1 = Inits /\ open[p] = Stack(Inits, Inits)
      BY <1>s, <1>t, <2>2, <2>4 DEF Hooks
    <3>2. open' = open /\ pc'[p] = "body"
      BY <1>17, <1>t, <2>4 DEF Before, Go
    <3>3. Hooks(p)'
      BY <3>1, <3>2 DEF Hooks
    <3> QED BY <2>1, <3>2, <3>3, NestedLocal
  <2> QED BY <2>3, <2>4
<1>18. ASSUME NEW p \in Procs, After(p) PROVE Nested'
  <2>1. \A q \in Procs \ {p} : pc'[q] = pc[q] /\ n'[q] = n[q]
    BY <1>18, <1>t DEF After, Go
  <2>2. n[p] \in Nat /\ Hooks(p) /\ pc[p] = "after"
    BY <1>18, <1>h, <1>t DEF After
  <2>3. CASE n[p] > 0
    <3> DEFINE m == n[p] - 1
    <3>1. n[p] <= Inits /\ m \in 0..Inits /\ m + 1 \in 0..Inits /\ n[p] = m + 1 /\ m \in Nat
      BY <1>s, <1>t, <2>2, <2>3 DEF Hooks
    <3>2. open[p] = Stack(Inits, m + 1) /\ Call(p, "after", m + 1)
      BY <1>18, <2>2, <2>3, <3>1 DEF After, Hooks
    <3>3. pc'[p] = "after" /\ n'[p] = m
      BY <1>18, <1>t, <2>3, <3>1 DEF After, Go
    <3> HIDE DEF m
    <3>4. open' = [open EXCEPT ![p] = Stack(Inits, m)]
      BY <1>d, <1>s, <3>1, <3>2, CallCloses
    <3>5. open'[p] = Stack(Inits, m)
      BY <1>t, <3>4
    <3>6. Hooks(p)'
      BY <1>s, <3>1, <3>3, <3>5 DEF Hooks
    <3> QED BY <1>s, <2>1, <3>1, <3>4, <3>6, NestedLocal
  <2> QED BY <1>18, <2>3 DEF After
<1>19. ASSUME NEW p \in Procs, Finalize(p) PROVE Nested'
  <2>1. \A q \in Procs \ {p} : pc'[q] = pc[q] /\ n'[q] = n[q]
    BY <1>19, <1>t DEF Finalize, Go
  <2>2. n[p] \in Nat /\ Hooks(p) /\ pc[p] = "finalize"
    BY <1>19, <1>h, <1>t DEF Finalize
  <2>3. CASE n[p] > 0
    <3> DEFINE m == n[p] - 1
    <3>1. n[p] <= Inits /\ m \in 0..Inits /\ m + 1 \in 0..Inits /\ n[p] = m + 1 /\ m \in Nat
      BY <1>s, <1>t, <2>2, <2>3 DEF Hooks
    <3>2. open[p] = Stack(m + 1, 0) /\ Call(p, "finalize", m + 1)
      BY <1>19, <2>2, <2>3, <3>1 DEF Finalize, Hooks
    <3>3. pc'[p] = "finalize" /\ n'[p] = m
      BY <1>19, <1>t, <2>3, <3>1 DEF Finalize, Go
    <3> HIDE DEF m
    <3>4. open' = [open EXCEPT ![p] = Stack(m, 0)]
      BY <1>d, <1>s, <3>1, <3>2, CallCloses
    <3>5. open'[p] = Stack(m, 0)
      BY <1>t, <3>4
    <3>6. Hooks(p)'
      BY <1>s, <3>1, <3>3, <3>5 DEF Hooks
    <3> QED BY <1>s, <2>1, <3>1, <3>4, <3>6, NestedLocal
  <2>4. CASE ~(n[p] > 0)
    <3>1. n[p] = 0 /\ open[p] = Stack(0, 0)
      BY <1>s, <1>t, <2>2, <2>4 DEF Hooks
    <3>2. open' = open /\ pc'[p] = "destroy"
      BY <1>19, <1>t, <2>4 DEF Finalize, Go
    <3>3. Hooks(p)'
      BY <3>1, <3>2 DEF Hooks
    <3> QED BY <2>1, <3>2, <3>3, NestedLocal
  <2> QED BY <2>3, <2>4
<1>20. ASSUME Submit PROVE Nested'
  <2>0. PICK t \in Child : t = test[Runner]
    BY <1>20, <1>s, <1>t DEF Submit, InLoop, TypeOK, Child
  <2>1. /\ t \in Child /\ t # Runner /\ t \in Procs /\ pc[Runner] = "loop"
    BY <1>20, <1>s, <1>t, <2>0 DEF Submit, InLoop
  <2>2. pc[t] = "absent" /\ n[t] = 1 /\ open[t] = Stack(0, 0)
        /\ open[Runner] = Stack(Inits, 0)
    <3>1. ChildRole(t) /\ t >= test[Runner]
      BY <2>0, <2>1, Session DEF Roles, Child
    <3> QED BY <1>h, <1>s, <2>1, <3>1 DEF ChildRole, Hooks
  <2>3. n' = n /\ \A q \in Procs \ {t} : pc'[q] = pc[q]
    BY <1>20, <1>t, <2>0, <2>1 DEF Submit
  <2>4. CASE cfg.posix
    <3>1. pc'[t] = "before" /\ open' = [open EXCEPT ![t] = Stack(Inits, 0)]
      BY <1>20, <1>t, <2>1, <2>0, <2>2, <2>4 DEF Submit
    <3>2. open'[t] = Stack(Inits, 0)
      BY <1>t, <2>1, <3>1
    <3>3. Hooks(t)'
      BY <2>2, <2>3, <3>1, <3>2 DEF Hooks
    <3> QED BY <1>s, <2>1, <2>3, <3>1, <3>3, NestedLocal
  <2>5. CASE ~cfg.posix
    <3>1. pc'[t] = "initialize" /\ open' = open
      BY <1>20, <1>t, <2>1, <2>0, <2>2, <2>5 DEF Submit
    <3>3. Hooks(t)'
      BY <2>2, <2>3, <3>1 DEF Hooks
    <3> QED BY <1>s, <2>1, <2>3, <3>1, <3>3, NestedLocal
  <2> QED BY <2>4, <2>5
<1>21. ASSUME NEW p \in Procs, SkipTest(p) PROVE Nested'
  BY <1>21 DEF SkipTest, Nested, Hooks
<1>22. ASSUME NEW t \in Child, Collect(t) PROVE Nested'
  BY <1>22 DEF Collect, place, Nested, Hooks
<1>24. ASSUME WaitFails PROVE Nested'
  <2>1. open' = open /\ \A q \in Procs \ {Runner} : pc'[q] = pc[q] /\ n'[q] = n[q]
    BY <1>24, <1>t DEF WaitFails, Go, Exits
  <2>2. Hooks(Runner)'
    BY <1>24, <1>h, <1>s, <1>t, <2>1
       DEF WaitFails, Go, Exits, Collects, InLoop, Hooks, Labels
  <2> QED BY <1>s, <2>1, <2>2, NestedLocal
<1>23. CASE UNCHANGED vars
  BY <1>23 DEF vars, place, Nested, Hooks
<1> QED
  BY <1>1, <1>2, <1>3, <1>4, <1>5, <1>6, <1>7, <1>8, <1>9, <1>10, <1>11, <1>12, <1>13, <1>14, <1>15, <1>16, <1>17, <1>18, <1>19, <1>20, <1>21, <1>22, <1>23, <1>24 DEF Next, Over, Child

\* Only initializations and before hooks wait for their counterpart.
LEMMA NestedShows == TypeOK /\ Nested => HooksNest
<1> SUFFICES ASSUME TypeOK, Nested, NEW p \in Procs
             PROVE  /\ \A k \in DOMAIN open[p] : open[p][k][1] \in {"initialize", "before"}
                    /\ pc[p] \in {"body", "measured"} =>
                         open[p] = All("initialize") \o All("before")
                    /\ pc[p] = "destroy" => open[p] = <<>>
                    /\ pc[p] = "exited" =>
                         open[p] \in {<<>>, All("initialize"),
                                      All("initialize") \o All("before")}
  BY DEF HooksNest
<1>1. Hooks(p) /\ open[p] \in Stacks
  BY DEF Nested, Stacks
<1>2. \A k \in DOMAIN open[p] : open[p][k][1] \in {"initialize", "before"}
  <2>1. PICK a \in 0..Inits, b \in 0..Inits : open[p] = Stack(a, b)
    BY <1>1 DEF Stacks
  <2>2. a \in Nat /\ b \in Nat
    OBVIOUS
  <2>3. ASSUME NEW k \in 1..(a + b)
        PROVE  Stack(a, b)[k][1] \in {"initialize", "before"}
    BY <2>2 DEF Stack
  <2>4. DOMAIN Stack(a, b) = 1..(a + b)
    BY DEF Stack
  <2> QED BY <2>1, <2>3, <2>4
<1> QED
  BY <1>1, <1>2, StackEmpty, StackFull DEF Hooks

-----------------------------------------------------------------------------
(* Lines *)

\* Lines of another kind, or of another test, are other lines.
LEMMA LinesDiffer ==
  ASSUME NEW t, NEW u
  PROVE  /\ Launching(t) # Result(u) /\ Launching(t) # Statistics(u)
         /\ Result(t) # Statistics(u) /\ Totals # Launching(t)
         /\ Totals # Result(t) /\ Totals # Statistics(t)
         /\ Launching(t) = Launching(u) => t = u
         /\ Result(t) = Result(u) => t = u
         /\ Statistics(t) = Statistics(u) => t = u
  BY DEF Launching, Result, Statistics, Totals

\* They are lines of the session.
LEMMA LinesAre ==
  Totals \in Lines /\ \A t \in Child : /\ Launching(t) \in Lines
                                       /\ Result(t) \in Lines
                                       /\ Statistics(t) \in Lines
  BY LineTypes DEF Launching, Result, Statistics, Totals

\* What is never undone, except that the added lines are not fresh any more.
LinesKept(added) ==
  \A l \in Lines : /\ Fresh(l) /\ l \notin added => Fresh(l)'
                   /\ Told(l) => Told(l)'
                   /\ console[l] = 1 => console'[l] = 1

\* A step that prints nothing.
LEMMA PrintsNothing ==
  ASSUME OneCopy, UNCHANGED <<buffer, console>>
  PROVE  OneCopy' /\ LinesKept({})
<1>1. OneCopy'
  BY DEF OneCopy
<1>2. LinesKept({})
  BY DEF LinesKept, Fresh, Told
<1> QED
  BY <1>1, <1>2

\* A buffer is flushed.
LEMMA Flushes ==
  ASSUME TypeOK, OneCopy, NEW p \in Procs,
         console' = Written(buffer[p]), buffer' = [buffer EXCEPT ![p] = {}]
  PROVE  OneCopy' /\ LinesKept({}) /\ buffer'[p] = {}
<1>1. /\ buffer \in [Procs -> SUBSET Lines] /\ console \in [Lines -> Nat]
      /\ Runner \in Procs
  BY Session DEF TypeOK
<1>2. buffer'[p] = {} /\ \A q \in Procs \ {p} : buffer'[q] = buffer[q]
  BY <1>1
<1>3. \A l \in Lines :
        /\ l \in buffer[p] => console[l] = 0 /\ console'[l] = 1
        /\ l \notin buffer[p] => console'[l] = console[l]
  <2>1. \A l \in Lines :
          console'[l] = console[l] + (IF l \in buffer[p] THEN 1 ELSE 0)
    BY DEF Written
  <2> QED BY <1>1, <2>1 DEF OneCopy
<1>4. LinesKept({})
  BY <1>1, <1>2, <1>3 DEF LinesKept, Fresh, Told
<1>5. \A l \in Lines : console'[l] <= 1
  BY <1>1, <1>3 DEF OneCopy
<1>6. \A q \in Procs : \A l \in buffer'[q] : console'[l] = 0
  <2> SUFFICES ASSUME NEW q \in Procs, NEW l \in buffer'[q]
               PROVE  console'[l] = 0
    OBVIOUS
  <2>1. q # p /\ l \in buffer[q] /\ l \in Lines /\ console[l] = 0
    BY <1>1, <1>2 DEF OneCopy
  <2>2. l \notin buffer[p]
    BY <2>1 DEF OneCopy
  <2> QED BY <1>3, <2>1, <2>2
<1>7. \A q, r \in Procs : q # r => buffer'[q] \cap buffer'[r] = {}
  BY <1>2 DEF OneCopy
<1> QED
  BY <1>2, <1>4, <1>5, <1>6, <1>7 DEF OneCopy

\* A new line goes to a buffer.
LEMMA Adds ==
  ASSUME TypeOK, OneCopy, NEW p \in Procs, NEW line \in Lines, Fresh(line),
         console' = console, buffer' = [buffer EXCEPT ![p] = @ \cup {line}]
  PROVE  OneCopy' /\ LinesKept({line}) /\ line \in buffer'[p]
<1>1. /\ buffer \in [Procs -> SUBSET Lines] /\ Runner \in Procs
  BY Session DEF TypeOK
<1>2. /\ buffer'[p] = buffer[p] \cup {line}
      /\ \A q \in Procs \ {p} : buffer'[q] = buffer[q]
  BY <1>1
<1>3. console[line] = 0 /\ \A q \in Procs : line \notin buffer[q]
  BY DEF Fresh
<1>4. LinesKept({line})
  BY <1>1, <1>2 DEF LinesKept, Fresh, Told
<1>5. \A q \in Procs : \A l \in buffer'[q] : console'[l] = 0
  BY <1>2, <1>3 DEF OneCopy
<1>6. \A q, r \in Procs : q # r => buffer'[q] \cap buffer'[r] = {}
  BY <1>2, <1>3 DEF OneCopy
<1> QED
  BY <1>2, <1>4, <1>5, <1>6 DEF OneCopy

\* A process is launched with an empty buffer.
LEMMA Launches ==
  ASSUME TypeOK, OneCopy, NEW t \in Child, Fresh(Launching(t)),
         LaunchingPrinted(t)
  PROVE  OneCopy' /\ LinesKept({Launching(t)}) /\ console'[Launching(t)] = 1
<1>1. /\ buffer \in [Procs -> SUBSET Lines] /\ console \in [Lines -> Nat]
      /\ Runner \in Procs /\ t \in Procs /\ t # Runner
      /\ Launching(t) \in Lines
  BY Session, LinesAre DEF TypeOK
<1>2. /\ buffer'[Runner] = {} /\ buffer'[t] = {}
      /\ \A q \in Procs \ {Runner, t} : buffer'[q] = buffer[q]
  BY <1>1 DEF LaunchingPrinted
<1>3. console[Launching(t)] = 0 /\ \A q \in Procs : Launching(t) \notin buffer[q]
  BY DEF Fresh
<1>4. \A l \in Lines :
        console'[l] = IF l \in buffer[Runner] \/ l = Launching(t) THEN 1
                      ELSE console[l]
  <2>1. \A l \in Lines :
          console'[l] = console[l] + (IF l \in buffer[Runner] \cup {Launching(t)}
                                      THEN 1 ELSE 0)
    BY DEF LaunchingPrinted, Written, Launching
  <2> QED BY <1>1, <1>3, <2>1 DEF OneCopy
<1>5. LinesKept({Launching(t)})
  BY <1>1, <1>2, <1>4 DEF LinesKept, Fresh, Told
<1>6. \A l \in Lines : console'[l] <= 1
  BY <1>1, <1>4 DEF OneCopy
<1>7. \A q \in Procs : \A l \in buffer'[q] : console'[l] = 0
  <2> SUFFICES ASSUME NEW q \in Procs, NEW l \in buffer'[q]
               PROVE  console'[l] = 0
    OBVIOUS
  <2>1. q \notin {Runner, t} /\ l \in buffer[q] /\ l \in Lines /\ console[l] = 0
    BY <1>1, <1>2 DEF OneCopy
  <2>2. l \notin buffer[Runner] /\ l # Launching(t)
    BY <1>1, <1>3, <2>1 DEF OneCopy
  <2> QED BY <1>4, <2>1, <2>2
<1>8. \A q, r \in Procs : q # r => buffer'[q] \cap buffer'[r] = {}
  BY <1>2 DEF OneCopy
<1> QED
  BY <1>1, <1>4, <1>5, <1>6, <1>7, <1>8 DEF OneCopy

\* How the runner and the tests go on: a line to come was to come before and
\* is not among the added ones.
Later(added) ==
  /\ pc'[Runner] \notin {"finalize", "destroy", "exited", "killed"} =>
       /\ pc[Runner] \notin {"finalize", "destroy", "exited", "killed"}
       /\ Totals \notin added
  /\ \A t \in Child :
       /\ pc'[Runner] \in Setup \cup InTest \cup {"loop"} /\ t >= test'[Runner]
            => /\ pc[Runner] \in Setup \cup InTest \cup {"loop"}
               /\ t >= test[Runner] /\ Launching(t) \notin added
       /\ t >= test'[Runner] \/ t \in running'
            => (t >= test[Runner] \/ t \in running) /\ Result(t) \notin added
       /\ ToMeasure(t)' => ToMeasure(t) /\ Statistics(t) \notin added

\* What a process has to have told, it tells in this step or before.
Earlier ==
  /\ pc'[Runner] \in {"finalize", "destroy"} =>
       pc[Runner] \in {"finalize", "destroy"} \/ Told(Totals)'
  /\ cfg.fork =>
       /\ \A t \in running' : t \in running \/ console'[Launching(t)] = 1
       /\ \A t \in judged'.success \cup judged'.failed :
            /\ \/ t \in judged.success \cup judged.failed
               \/ console'[Launching(t)] = 1 /\ Told(Result(t))'
            /\ pc'[Runner] = "exited" =>
                 /\ pc[Runner] \in {"destroy", "exited"}
                 /\ pc[Runner] = "destroy" => buffer'[Runner] = {}
                 /\ judged' = judged

\* How the parts make a step that keeps what is said of lines.
LEMMA PrintsOn ==
  ASSUME TypeOK, TypeOK', Printed, cfg' = cfg, NEW added, OneCopy', LinesKept(added),
         Later(added), Earlier
  PROVE  Printed'
<1>1. \A t \in Child : /\ Launching(t) \in Lines /\ Result(t) \in Lines
                       /\ Statistics(t) \in Lines
  BY LinesAre
<1>2. ToCome'
  <2>1. pc'[Runner] \notin {"finalize", "destroy", "exited", "killed"} =>
          Fresh(Totals)'
    BY LinesAre DEF Printed, ToCome, Later, LinesKept
  <2>2. ASSUME NEW t \in Child
        PROVE  /\ pc'[Runner] \in Setup \cup InTest \cup {"loop"}
                    /\ t >= test'[Runner] => Fresh(Launching(t))'
               /\ t >= test'[Runner] \/ t \in running' => Fresh(Result(t))'
               /\ ToMeasure(t)' => Fresh(Statistics(t))'
    BY <1>1 DEF Printed, ToCome, Later, LinesKept
  <2> QED BY <2>1, <2>2 DEF ToCome
<1>3. Came'
  <2>1. pc'[Runner] \in {"finalize", "destroy"} => Told(Totals)'
    BY LinesAre DEF Printed, Came, Earlier, LinesKept
  <2>2. ASSUME cfg.fork, NEW t \in running' PROVE console'[Launching(t)] = 1
    <3>1. t \in Child
      BY DEF TypeOK
    <3> QED BY <1>1, <2>2, <3>1 DEF Printed, Came, Earlier, LinesKept
  <2>3. ASSUME cfg.fork, NEW t \in judged'.success \cup judged'.failed
        PROVE  /\ console'[Launching(t)] = 1 /\ Told(Result(t))'
               /\ pc'[Runner] = "exited" =>
                    console'[Totals] = 1 /\ console'[Result(t)] = 1
    <3>1. t \in Child
      BY DEF TypeOK
    <3>2. console'[Launching(t)] = 1 /\ Told(Result(t))'
      BY <1>1, <2>3, <3>1 DEF Printed, Came, Earlier, LinesKept
    <3>3. ASSUME pc'[Runner] = "exited"
          PROVE  console'[Totals] = 1 /\ console'[Result(t)] = 1
      <4>1. pc[Runner] \in {"destroy", "exited"} /\ judged' = judged
            /\ (pc[Runner] = "destroy" => buffer'[Runner] = {})
        BY <2>3, <3>3 DEF Earlier
      <4>2. CASE pc[Runner] = "destroy"
        <5>1. Told(Totals)'
          BY <4>2, LinesAre DEF Printed, Came, LinesKept
        <5> QED BY <3>2, <4>1, <4>2, <5>1 DEF Told
      <4>3. CASE pc[Runner] = "exited"
        <5>1. console[Totals] = 1 /\ console[Result(t)] = 1
          BY <2>3, <4>1, <4>3 DEF Printed, Came
        <5> QED BY <1>1, <3>1, <5>1, LinesAre DEF LinesKept
      <4> QED BY <4>1, <4>2, <4>3
    <3> QED BY <3>2, <3>3
  <2> QED BY <2>1, <2>2, <2>3 DEF Came
<1> QED
  BY <1>2, <1>3 DEF Printed

\* At the start nothing is printed.
LEMMA PrintedInit == Init => Printed
<1> SUFFICES ASSUME Init PROVE Printed
  OBVIOUS
<1>1. /\ \A l \in Lines : console[l] = 0
      /\ \A p \in Procs : buffer[p] = {}
  BY DEF Init
<1>2. TypeOK /\ Runner \in Procs
  BY TypeInit, Session
<1>3. \A l \in Lines : Fresh(l)
  BY <1>1 DEF Fresh
<1>4. OneCopy
  BY <1>1 DEF OneCopy
<1>5. ToCome
  BY <1>3, LinesAre DEF ToCome
<1>6. Came
  <2>1. pc[Runner] = "mkdirs"
    BY <1>2 DEF Init
  <2>2. running = {} /\ judged.success = {} /\ judged.failed = {}
    BY DEF Init
  <2> QED BY <2>1, <2>2 DEF Came
<1> QED
  BY <1>4, <1>5, <1>6 DEF Printed

\* Every step keeps what is said of lines.
LEMMA PrintedStep == TypeOK /\ Roles /\ Printed /\ Next => Printed'
<1> SUFFICES ASSUME TypeOK, Roles, Printed, Next PROVE Printed'
  OBVIOUS
<1>n. TypeOK'
  BY TypeStep
<1>s. /\ Runner \in Procs /\ Runner \notin Child /\ Child \subseteq Procs
      /\ Procs = Child \cup {Runner} /\ Child \subseteq Nat
      /\ cfg.fork \in BOOLEAN
  BY Session DEF Child
<1>t. /\ pc \in [Procs -> Labels] /\ test \in [Procs -> 1..(Tests + 1)]
      /\ res \in [Procs -> BOOLEAN] /\ running \in SUBSET Child
      /\ judged \in [success : SUBSET Child, failed : SUBSET Child]
      /\ buffer \in [Procs -> SUBSET Lines]
  BY DEF TypeOK
<1>r. RunnerRole /\ \A t \in Child : ChildRole(t)
  BY DEF Roles
<1>o. OneCopy /\ ToCome /\ Came
  BY DEF Printed

<1>1. ASSUME SystemInfo PROVE Printed'
  <2>1. UNCHANGED <<cfg, test, running, judged, buffer, console>>
    BY <1>1 DEF SystemInfo, output, tasks, place
  <2>2. \A q \in Procs \ {Runner} : pc'[q] = pc[q]
    BY <1>1, <1>t DEF SystemInfo, Go
  <2>3. Later({}) /\ Earlier
    BY <1>1, <1>r, <1>s, <1>t, <2>1, <2>2
       DEF SystemInfo, Go, Collects, InLoop, RunnerRole, Setup, InTest, Final, Labels, Later, Earlier, ToMeasure
  <2> QED BY <1>n, <1>o, <2>1, <2>3, PrintsNothing, PrintsOn
<1>2. ASSUME TableTooLarge PROVE Printed'
  <2>1. UNCHANGED <<cfg, test, running, judged, buffer, console>>
    BY <1>2 DEF TableTooLarge, output, tasks, place
  <2>2. \A q \in Procs \ {Runner} : pc'[q] = pc[q]
    BY <1>2, <1>t DEF TableTooLarge, Go
  <2>3. Later({}) /\ Earlier
    BY <1>2, <1>r, <1>s, <1>t, <2>1, <2>2
       DEF TableTooLarge, Go, Collects, InLoop, RunnerRole, Setup, InTest, Final, Labels, Later, Earlier, ToMeasure
  <2> QED BY <1>n, <1>o, <2>1, <2>3, PrintsNothing, PrintsOn
<1>3. ASSUME NEW p \in Procs, Initialize(p) PROVE Printed'
  <2>1. UNCHANGED <<cfg, test, running, judged, buffer, console>>
    BY <1>3 DEF Initialize, output, tasks, place
  <2>2. \A q \in Procs \ {p} : pc'[q] = pc[q]
    BY <1>3, <1>t DEF Initialize, Go
  <2>3. CASE p = Runner
    <3>1. Later({}) /\ Earlier
      BY <1>3, <1>r, <1>s, <1>t, <2>1, <2>2, <2>3
         DEF Initialize, Go, IsChild, InLoop, RunnerRole, Setup, InTest, Final, Labels, Later, Earlier, ToMeasure
    <3> QED BY <1>n, <1>o, <2>1, <3>1, PrintsNothing, PrintsOn
  <2>4. CASE p \in Child
    <3>1. Later({}) /\ Earlier
      BY <1>3, <1>r, <1>s, <1>t, <2>1, <2>2, <2>4
         DEF Initialize, Go, IsChild, InLoop, ChildRole, Setup, InTest, Final, Labels, Later, Earlier, ToMeasure
    <3> QED BY <1>n, <1>o, <2>1, <3>1, PrintsNothing, PrintsOn
  <2> QED BY <1>s, <2>3, <2>4
<1>4. ASSUME NEW p \in Procs, CreateOutfile(p) PROVE Printed'
  <2>1. UNCHANGED <<cfg, test, running, judged, buffer, console>>
    BY <1>4 DEF CreateOutfile, output, tasks, place
  <2>2. \A q \in Procs \ {p} : pc'[q] = pc[q]
    BY <1>4, <1>t DEF CreateOutfile, Go
  <2>3. CASE p = Runner
    <3>1. Later({}) /\ Earlier
      BY <1>4, <1>r, <1>s, <1>t, <2>1, <2>2, <2>3
         DEF CreateOutfile, Go, IsChild, InLoop, RunnerRole, Setup, InTest, Final, Labels, Later, Earlier, ToMeasure
    <3> QED BY <1>n, <1>o, <2>1, <3>1, PrintsNothing, PrintsOn
  <2>4. CASE p \in Child
    <3>1. Later({}) /\ Earlier
      BY <1>4, <1>r, <1>s, <1>t, <2>1, <2>2, <2>4
         DEF CreateOutfile, Go, IsChild, InLoop, ChildRole, Setup, InTest, Final, Labels, Later, Earlier, ToMeasure
    <3> QED BY <1>n, <1>o, <2>1, <3>1, PrintsNothing, PrintsOn
  <2> QED BY <1>s, <2>3, <2>4
<1>5. ASSUME NEW p \in Procs, SubmitHere(p) PROVE Printed'
  <2>1. UNCHANGED <<cfg, test, running, judged, buffer, console>>
    BY <1>5 DEF SubmitHere, output, tasks, place
  <2>2. \A q \in Procs \ {p} : pc'[q] = pc[q]
    BY <1>5, <1>t DEF SubmitHere, Go
  <2>3. CASE p = Runner
    <3>1. Later({}) /\ Earlier
      BY <1>5, <1>r, <1>s, <1>t, <2>1, <2>2, <2>3
         DEF SubmitHere, Go, IsChild, InLoop, RunnerRole, Setup, InTest, Final, Labels, Later, Earlier, ToMeasure
    <3> QED BY <1>n, <1>o, <2>1, <3>1, PrintsNothing, PrintsOn
  <2>4. CASE p \in Child
    <3>1. Later({}) /\ Earlier
      BY <1>5, <1>r, <1>s, <1>t, <2>1, <2>2, <2>4
         DEF SubmitHere, Go, IsChild, InLoop, ChildRole, Setup, InTest, Final, Labels, Later, Earlier, ToMeasure
    <3> QED BY <1>n, <1>o, <2>1, <3>1, PrintsNothing, PrintsOn
  <2> QED BY <1>s, <2>3, <2>4
<1>6. ASSUME NEW p \in Procs, LoopEnds(p) PROVE Printed'
  <2>1. UNCHANGED <<cfg, test, running, judged, buffer, console>>
    BY <1>6 DEF LoopEnds, output, tasks, place
  <2>2. \A q \in Procs \ {p} : pc'[q] = pc[q]
    BY <1>6, <1>t DEF LoopEnds, Go
  <2>3. CASE p = Runner
    <3>1. Later({}) /\ Earlier
      BY <1>6, <1>r, <1>s, <1>t, <2>1, <2>2, <2>3
         DEF LoopEnds, Go, IsChild, InLoop, RunnerRole, Setup, InTest, Final, Labels, Later, Earlier, ToMeasure
    <3> QED BY <1>n, <1>o, <2>1, <3>1, PrintsNothing, PrintsOn
  <2>4. CASE p \in Child
    <3>1. Later({}) /\ Earlier
      BY <1>6, <1>r, <1>s, <1>t, <2>1, <2>2, <2>4
         DEF LoopEnds, Go, IsChild, InLoop, ChildRole, Setup, InTest, Final, Labels, Later, Earlier, ToMeasure
    <3> QED BY <1>n, <1>o, <2>1, <3>1, PrintsNothing, PrintsOn
  <2> QED BY <1>s, <2>3, <2>4
<1>7. ASSUME NEW p \in Procs, Before(p) PROVE Printed'
  <2>1. UNCHANGED <<cfg, test, running, judged, buffer, console>>
    BY <1>7 DEF Before, output, tasks, place
  <2>2. \A q \in Procs \ {p} : pc'[q] = pc[q]
    BY <1>7, <1>t DEF Before, Go
  <2>3. CASE p = Runner
    <3>1. Later({}) /\ Earlier
      BY <1>7, <1>r, <1>s, <1>t, <2>1, <2>2, <2>3
         DEF Before, Go, IsChild, InLoop, RunnerRole, Setup, InTest, Final, Labels, Later, Earlier, ToMeasure
    <3> QED BY <1>n, <1>o, <2>1, <3>1, PrintsNothing, PrintsOn
  <2>4. CASE p \in Child
    <3>1. Later({}) /\ Earlier
      BY <1>7, <1>r, <1>s, <1>t, <2>1, <2>2, <2>4
         DEF Before, Go, IsChild, InLoop, ChildRole, Setup, InTest, Final, Labels, Later, Earlier, ToMeasure
    <3> QED BY <1>n, <1>o, <2>1, <3>1, PrintsNothing, PrintsOn
  <2> QED BY <1>s, <2>3, <2>4
<1>8. ASSUME NEW p \in Procs, After(p) PROVE Printed'
  <2>1. UNCHANGED <<cfg, test, running, judged, buffer, console>>
    BY <1>8 DEF After, output, tasks, place
  <2>2. \A q \in Procs \ {p} : pc'[q] = pc[q]
    BY <1>8, <1>t DEF After, Go
  <2>3. CASE p = Runner
    <3>1. Later({}) /\ Earlier
      BY <1>8, <1>r, <1>s, <1>t, <2>1, <2>2, <2>3
         DEF After, Go, IsChild, InLoop, RunnerRole, Setup, InTest, Final, Labels, Later, Earlier, ToMeasure
    <3> QED BY <1>n, <1>o, <2>1, <3>1, PrintsNothing, PrintsOn
  <2>4. CASE p \in Child
    <3>1. Later({}) /\ Earlier
      BY <1>8, <1>r, <1>s, <1>t, <2>1, <2>2, <2>4
         DEF After, Go, IsChild, InLoop, ChildRole, Setup, InTest, Final, Labels, Later, Earlier, ToMeasure
    <3> QED BY <1>n, <1>o, <2>1, <3>1, PrintsNothing, PrintsOn
  <2> QED BY <1>s, <2>3, <2>4
<1>9. ASSUME NEW p \in Procs, Waited(p) PROVE Printed'
  <2>1. UNCHANGED <<cfg, test, running, judged, buffer, console>>
    BY <1>9 DEF Waited, output, tasks, place
  <2>2. \A q \in Procs \ {p} : pc'[q] = pc[q]
    BY <1>9, <1>t DEF Waited, Go
  <2>3. CASE p = Runner
    <3>1. Later({}) /\ Earlier
      BY <1>9, <1>r, <1>s, <1>t, <2>1, <2>2, <2>3
         DEF Waited, Go, IsChild, InLoop, RunnerRole, Setup, InTest, Final, Labels, Later, Earlier, ToMeasure
    <3> QED BY <1>n, <1>o, <2>1, <3>1, PrintsNothing, PrintsOn
  <2>4. CASE p \in Child
    <3>1. Later({}) /\ Earlier
      BY <1>9, <1>r, <1>s, <1>t, <2>1, <2>2, <2>4
         DEF Waited, Go, IsChild, InLoop, ChildRole, Setup, InTest, Final, Labels, Later, Earlier, ToMeasure
    <3> QED BY <1>n, <1>o, <2>1, <3>1, PrintsNothing, PrintsOn
  <2> QED BY <1>s, <2>3, <2>4
<1>10. ASSUME NEW p \in Procs, SkipTest(p) PROVE Printed'
  <2>1. UNCHANGED <<cfg, pc, running, judged, buffer, console>>
        /\ test'[Runner] = test[Runner]
    BY <1>10, <1>t DEF SkipTest, IsChild, output, tasks
  <2>2. Later({}) /\ Earlier
    BY <2>1 DEF Later, Earlier, ToMeasure
  <2> QED BY <1>n, <1>o, <2>1, <2>2, PrintsNothing, PrintsOn
<1>11. ASSUME NEW p \in Procs, Launched(p) PROVE Printed'
  <2>1. UNCHANGED <<cfg, running, buffer, console>>
    BY <1>11 DEF Launched, output
  <2>2. \A q \in Procs \ {p} : pc'[q] = pc[q] /\ test'[q] = test[q]
    BY <1>11, <1>t DEF Launched, Go
  <2>3. CASE p = Runner
    <3>1. ~cfg.fork /\ test[Runner] \in Nat
      BY <1>11, <1>r, <1>t, <2>3 DEF Launched, RunnerRole, InTest
    <3>2. test'[Runner] \in {test[Runner], test[Runner] + 1}
          /\ pc[Runner] = "after" /\ pc'[Runner] \in {"loop", "report"}
          /\ (pc'[Runner] = "loop" => test'[Runner] = test[Runner] + 1)
      BY <1>11, <1>s, <1>t, <2>3 DEF Launched, Go, IsChild
    <3>3. Later({})
      BY <1>s, <2>1, <3>1, <3>2 DEF Later, ToMeasure, Setup, InTest
    <3>4. Earlier
      BY <2>1, <3>1, <3>2 DEF Earlier
    <3> QED BY <1>n, <1>o, <2>1, <3>3, <3>4, PrintsNothing, PrintsOn
  <2>4. CASE p \in Child
    <3>1. test'[Runner] = test[Runner] /\ judged' = judged
      BY <1>11, <1>s, <2>2, <2>4 DEF Launched, IsChild
    <3>2. Later({}) /\ Earlier
      BY <1>11, <1>r, <1>s, <1>t, <2>1, <2>2, <2>4, <3>1
         DEF Launched, Go, IsChild, ChildRole, Setup, InTest, Final, Labels, Later, Earlier, ToMeasure
    <3> QED BY <1>n, <1>o, <2>1, <3>2, PrintsNothing, PrintsOn
  <2> QED BY <1>s, <2>3, <2>4
<1>12. ASSUME MkDirs PROVE Printed'
  <2>1. UNCHANGED <<cfg, test, running, judged>>
        /\ \A q \in Procs \ {Runner} : pc'[q] = pc[q]
    BY <1>12, <1>t DEF MkDirs, Go, Exits, tasks
  <2>2. Later({}) /\ Earlier
    BY <1>12, <1>r, <1>s, <1>t, <2>1
       DEF MkDirs, Go, Exits, RunnerRole, Setup, InTest, Final, Labels, Later, Earlier, ToMeasure
  <2>3. CASE UNCHANGED <<buffer, console>>
    BY <1>n, <1>o, <2>1, <2>2, <2>3, PrintsNothing, PrintsOn
  <2>4. CASE Exits(Runner)
    BY <1>n, <1>o, <1>s, <2>1, <2>2, <2>4, Flushes, PrintsOn DEF Exits
  <2> QED BY <1>12, <2>3, <2>4 DEF MkDirs, output
<1>13. ASSUME NEW p \in Procs, RegistryFails(p) PROVE Printed'
  <2>1. UNCHANGED <<cfg, test, running, judged>>
        /\ \A q \in Procs \ {p} : pc'[q] = pc[q]
    BY <1>13, <1>t DEF RegistryFails, Go, Exits, tasks
  <2>2. UNCHANGED <<buffer, console>> \/ Exits(p)
    BY <1>13 DEF RegistryFails, output
  <2>3. OneCopy' /\ LinesKept({}) /\ (Exits(p) => buffer'[p] = {})
    BY <1>o, <2>2, PrintsNothing, Flushes DEF Exits
  <2>4. CASE p = Runner
    <3>1. Later({}) /\ Earlier
      BY <1>13, <1>r, <1>s, <1>t, <2>1, <2>3, <2>4
         DEF RegistryFails, Go, Exits, IsChild, RunnerRole, Setup, InTest, Final, Labels, Later, Earlier, ToMeasure
    <3> QED BY <1>n, <2>1, <2>3, <3>1, PrintsOn
  <2>5. CASE p \in Child
    <3>1. Later({}) /\ Earlier
      BY <1>13, <1>r, <1>s, <1>t, <2>1, <2>5
         DEF RegistryFails, Go, Exits, IsChild, ChildRole, Setup, InTest, Final, Labels, Later, Earlier, ToMeasure
    <3> QED BY <1>n, <2>1, <2>3, <3>1, PrintsOn
  <2> QED BY <1>s, <2>4, <2>5
<1>14. ASSUME NEW p \in Procs, ListTests(p) PROVE Printed'
  <2>1. UNCHANGED <<cfg, test, running, judged>>
        /\ \A q \in Procs \ {p} : pc'[q] = pc[q]
    BY <1>14, <1>t DEF ListTests, Go, Exits, tasks
  <2>2. UNCHANGED <<buffer, console>> \/ Exits(p)
    BY <1>14 DEF ListTests, output
  <2>3. OneCopy' /\ LinesKept({}) /\ (Exits(p) => buffer'[p] = {})
    BY <1>o, <2>2, PrintsNothing, Flushes DEF Exits
  <2>4. CASE p = Runner
    <3>1. Later({}) /\ Earlier
      BY <1>14, <1>r, <1>s, <1>t, <2>1, <2>3, <2>4
         DEF ListTests, Go, Exits, IsChild, RunnerRole, Setup, InTest, Final, Labels, Later, Earlier, ToMeasure
    <3> QED BY <1>n, <2>1, <2>3, <3>1, PrintsOn
  <2>5. CASE p \in Child
    <3>1. Later({}) /\ Earlier
      BY <1>14, <1>r, <1>s, <1>t, <2>1, <2>5
         DEF ListTests, Go, Exits, IsChild, ChildRole, Setup, InTest, Final, Labels, Later, Earlier, ToMeasure
    <3> QED BY <1>n, <2>1, <2>3, <3>1, PrintsOn
  <2> QED BY <1>s, <2>4, <2>5
<1>15. ASSUME NEW p \in Procs, Body(p) PROVE Printed'
  <2>1. UNCHANGED <<cfg, test, running, judged>>
        /\ \A q \in Procs \ {p} : pc'[q] = pc[q]
    BY <1>15, <1>t DEF Body, Go, Exits, tasks
  <2>2. UNCHANGED <<buffer, console>> \/ Exits(p)
    BY <1>15 DEF Body, output
  <2>3. OneCopy' /\ LinesKept({}) /\ (Exits(p) => buffer'[p] = {})
    BY <1>o, <2>2, PrintsNothing, Flushes DEF Exits
  <2>4. CASE p = Runner
    <3>1. Later({}) /\ Earlier
      BY <1>15, <1>r, <1>s, <1>t, <2>1, <2>3, <2>4
         DEF Body, Go, Exits, IsChild, RunnerRole, Setup, InTest, Final, Labels, Later, Earlier, ToMeasure
    <3> QED BY <1>n, <2>1, <2>3, <3>1, PrintsOn
  <2>5. CASE p \in Child
    <3>1. Later({}) /\ Earlier
      BY <1>15, <1>r, <1>s, <1>t, <2>1, <2>5
         DEF Body, Go, Exits, IsChild, ChildRole, Setup, InTest, Final, Labels, Later, Earlier, ToMeasure
    <3> QED BY <1>n, <2>1, <2>3, <3>1, PrintsOn
  <2> QED BY <1>s, <2>4, <2>5
<1>16. ASSUME NEW p \in Procs, Destroyed(p) PROVE Printed'
  <2>1. UNCHANGED <<cfg, test, running, judged>>
        /\ \A q \in Procs \ {p} : pc'[q] = pc[q]
    BY <1>16, <1>t DEF Destroyed, Go, Exits, tasks
  <2>2. UNCHANGED <<buffer, console>> \/ Exits(p)
    BY <1>16 DEF Destroyed, output
  <2>3. OneCopy' /\ LinesKept({}) /\ (Exits(p) => buffer'[p] = {})
    BY <1>o, <2>2, PrintsNothing, Flushes DEF Exits
  <2>4. CASE p = Runner
    <3>1. Later({}) /\ Earlier
      BY <1>16, <1>r, <1>s, <1>t, <2>1, <2>3, <2>4
         DEF Destroyed, Go, Exits, IsChild, RunnerRole, Setup, InTest, Final, Labels, Later, Earlier, ToMeasure
    <3> QED BY <1>n, <2>1, <2>3, <3>1, PrintsOn
  <2>5. CASE p \in Child
    <3>1. Later({}) /\ Earlier
      BY <1>16, <1>r, <1>s, <1>t, <2>1, <2>5
         DEF Destroyed, Go, Exits, IsChild, ChildRole, Setup, InTest, Final, Labels, Later, Earlier, ToMeasure
    <3> QED BY <1>n, <2>1, <2>3, <3>1, PrintsOn
  <2> QED BY <1>s, <2>4, <2>5
<1>17. ASSUME NEW p \in Procs, Finalize(p) PROVE Printed'
  <2>1. UNCHANGED <<cfg, test, running, judged>>
        /\ (\A q \in Procs \ {p} : pc'[q] = pc[q])
        /\ pc[p] = "finalize" /\ pc'[p] \in {"finalize", "destroy"}
    BY <1>17, <1>t DEF Finalize, Go, tasks
  <2>2. \/ UNCHANGED <<buffer, console>>
        \/ console' = Written(buffer[p]) /\ buffer' = [buffer EXCEPT ![p] = {}]
    BY <1>17 DEF Finalize
  <2>3. OneCopy' /\ LinesKept({})
    BY <1>o, <2>2, PrintsNothing, Flushes
  <2>4. CASE p = Runner
    <3>1. Later({}) /\ Earlier
      BY <1>r, <1>s, <1>t, <2>1, <2>4 DEF RunnerRole, Setup, InTest, Final, Labels, Later, Earlier, ToMeasure
    <3> QED BY <1>n, <2>1, <2>3, <3>1, PrintsOn
  <2>5. CASE p \in Child
    <3>1. Later({}) /\ Earlier
      BY <1>r, <1>s, <1>t, <2>1, <2>5 DEF ChildRole, Setup, InTest, Final, Labels, Later, Earlier, ToMeasure
    <3> QED BY <1>n, <2>1, <2>3, <3>1, PrintsOn
  <2> QED BY <1>s, <2>4, <2>5
<1>18. ASSUME NEW p \in Procs, Report(p) PROVE Printed'
  <2>1. UNCHANGED <<cfg, test, running, judged, console>>
        /\ (\A q \in Procs \ {p} : pc'[q] = pc[q])
        /\ pc[p] = "report" /\ pc'[p] = "finalize"
    BY <1>18, <1>t DEF Report, Go, tasks
  <2>2. CASE p = Runner
    <3>1. Fresh(Totals) /\ Totals \in Lines
      BY <1>o, <2>1, <2>2, LinesAre DEF ToCome
    <3>2. buffer' = [buffer EXCEPT ![p] = @ \cup {Totals}]
      BY <1>18, <2>2 DEF Report, IsChild, Totals
    <3>3. OneCopy' /\ LinesKept({Totals}) /\ Totals \in buffer'[p]
      BY <1>o, <2>1, <3>1, <3>2, Adds
    <3>4. Later({Totals})
      BY <1>s, <2>1, <2>2, LinesDiffer DEF Later, ToMeasure, Setup, InTest
    <3>5. Earlier
      BY <2>1, <2>2, <3>3 DEF Earlier, Told
    <3> QED BY <1>n, <2>1, <3>3, <3>4, <3>5, PrintsOn
  <2>3. CASE p \in Child
    <3>1. buffer' = buffer
      BY <1>18, <1>s, <2>3 DEF Report, IsChild
    <3>2. Later({}) /\ Earlier
      BY <1>r, <1>s, <1>t, <2>1, <2>3 DEF ChildRole, Setup, InTest, Final, Labels, Later, Earlier, ToMeasure
    <3> QED BY <1>n, <1>o, <2>1, <3>1, <3>2, PrintsNothing, PrintsOn
  <2> QED BY <1>s, <2>2, <2>3
<1>19. ASSUME NEW p \in Procs, Measured(p) PROVE Printed'
  <2>0. PICK t \in Child : t = test[p]
    BY <1>19, InTestIsTest DEF Measured, InTest
  <2>1. UNCHANGED <<cfg, test, running, judged, console>>
        /\ (\A q \in Procs \ {p} : pc'[q] = pc[q])
        /\ pc[p] = "measured" /\ pc'[p] = "after"
    BY <1>19, <1>t DEF Measured, Go, tasks
  <2>2. IF p = Runner THEN ~cfg.fork ELSE cfg.fork /\ t = p
    BY <1>r, <1>s, <2>0, <2>1 DEF RunnerRole, ChildRole, InTest
  <2>3. ToMeasure(t)
    BY <2>0, <2>1, <2>2 DEF ToMeasure
  <2>4. Fresh(Statistics(t)) /\ Statistics(t) \in Lines
    BY <1>o, <2>3, LinesAre DEF ToCome
  <2>5. buffer' = [buffer EXCEPT ![p] = @ \cup {Statistics(t)}]
    BY <1>19, <2>0 DEF Measured, Statistics
  <2>6. OneCopy' /\ LinesKept({Statistics(t)})
    BY <1>o, <2>1, <2>4, <2>5, Adds
  <2>7. ASSUME NEW u \in Child, ToMeasure(u)'
        PROVE  ToMeasure(u) /\ Statistics(u) \notin {Statistics(t)}
    <3>1. ToMeasure(u)
      BY <1>s, <2>1, <2>2, <2>7 DEF ToMeasure, Setup
    <3>2. u # t
      BY <1>s, <2>0, <2>1, <2>2, <2>7 DEF ToMeasure, Setup
    <3> QED BY <3>1, <3>2, LinesDiffer
  <2>8. pc'[Runner] \in Setup \cup InTest \cup {"loop"} =>
          pc[Runner] \in Setup \cup InTest \cup {"loop"}
    BY <1>s, <2>1 DEF InTest
  <2>9. /\ pc'[Runner] \notin {"finalize", "destroy", "exited", "killed"} =>
             pc[Runner] \notin {"finalize", "destroy", "exited", "killed"}
        /\ pc'[Runner] \in {"finalize", "destroy", "exited"} =>
             pc'[Runner] = pc[Runner]
    BY <1>s, <2>1
  <2>10. Later({Statistics(t)})
    BY <2>1, <2>7, <2>8, <2>9, LinesDiffer DEF Later
  <2>11. Earlier
    BY <2>1, <2>9 DEF Earlier
  <2> QED BY <1>n, <2>1, <2>6, <2>10, <2>11, PrintsOn
<1>20. ASSUME SubmitFails PROVE Printed'
  <2>0. PICK t \in Child : t = test[Runner]
    BY <1>20, <1>s, <1>t DEF SubmitFails, InLoop, Child
  <2>1. UNCHANGED <<cfg, test, running, judged>>
        /\ (\A q \in Procs \ {Runner} : pc'[q] = pc[q])
        /\ pc[Runner] = "loop" /\ pc'[Runner] = "report" /\ LaunchingPrinted(t)
    BY <1>20, <1>s, <1>t, <2>0 DEF SubmitFails, InLoop, Go, tasks
  <2>2. Fresh(Launching(t))
    BY <1>o, <1>s, <2>0, <2>1 DEF ToCome
  <2>3. OneCopy' /\ LinesKept({Launching(t)})
    BY <1>o, <2>1, <2>2, Launches
  <2>4. Later({Launching(t)})
    BY <1>s, <2>1, LinesDiffer DEF Later, ToMeasure, Setup, InTest
  <2>5. Earlier
    BY <2>1 DEF Earlier
  <2> QED BY <1>n, <2>1, <2>3, <2>4, <2>5, PrintsOn
<1>21. ASSUME Submit PROVE Printed'
  <2>0. PICK t \in Child : t = test[Runner]
    BY <1>21, <1>s, <1>t DEF Submit, InLoop, Child
  <2>1. /\ UNCHANGED <<cfg, judged>> /\ running' = running \cup {t}
        /\ cfg.fork /\ pc[Runner] = "loop" /\ LaunchingPrinted(t)
    BY <1>21, <2>0 DEF Submit, InLoop
  <2>2. /\ (\A q \in Procs \ {t} : pc'[q] = pc[q])
        /\ pc'[t] \in {"before", "initialize"} /\ pc[t] = "absent"
        /\ test'[Runner] = t + 1
    <3>1. pc[t] = "absent"
      BY <1>r, <1>s, <2>0 DEF ChildRole
    <3>2. (\A q \in Procs \ {t} : pc'[q] = pc[q])
          /\ pc'[t] \in {"before", "initialize"}
      BY <1>21, <1>s, <1>t, <2>0 DEF Submit
    <3>3. test'[Runner] = t + 1
      BY <1>21, <1>s, <1>t, <2>0 DEF Submit
    <3> QED BY <3>1, <3>2, <3>3
  <2>3. Fresh(Launching(t))
    BY <1>o, <1>s, <2>0, <2>1 DEF ToCome
  <2>4. OneCopy' /\ LinesKept({Launching(t)}) /\ console'[Launching(t)] = 1
    BY <1>o, <2>1, <2>3, Launches
  <2>5. Later({Launching(t)})
    <3>1. ASSUME NEW u \in Child, u >= test'[Runner]
          PROVE  u >= test[Runner] /\ Launching(u) \notin {Launching(t)}
      <4>1. u # t /\ u >= t
        BY <1>s, <2>2, <3>1
      <4> QED BY <2>0, <4>1, LinesDiffer
    <3>2. ASSUME NEW u \in Child, u >= test'[Runner] \/ u \in running'
          PROVE  (u >= test[Runner] \/ u \in running)
                 /\ Result(u) \notin {Launching(t)}
      <4>1. u >= t \/ u \in running
        BY <1>s, <2>1, <2>2, <3>2
      <4> QED BY <2>0, <4>1, LinesDiffer
    <3>3. ASSUME NEW u \in Child, ToMeasure(u)'
          PROVE  ToMeasure(u) /\ Statistics(u) \notin {Launching(t)}
      BY <1>s, <2>1, <2>2, <3>3, LinesDiffer DEF ToMeasure
    <3>4. pc'[Runner] = "loop" /\ Totals \notin {Launching(t)}
      BY <1>s, <2>1, <2>2, LinesDiffer
    <3> QED BY <2>1, <3>1, <3>2, <3>3, <3>4 DEF Later
  <2>6. Earlier
    BY <1>s, <2>1, <2>2, <2>4 DEF Earlier
  <2> QED BY <1>n, <2>1, <2>4, <2>5, <2>6, PrintsOn
<1>22. ASSUME NEW t \in Child, Collect(t) PROVE Printed'
  <2>1. /\ UNCHANGED <<cfg, pc, test, console>> /\ t \in running
        /\ running' = running \ {t} /\ pc[Runner] \in {"wait", "destroy", "loop"}
        /\ buffer' = [buffer EXCEPT ![Runner] = @ \cup {Result(t)}]
    BY <1>22 DEF Collect, Collects, InLoop, place, Result
  <2>2. judged'.success \cup judged'.failed =
          judged.success \cup judged.failed \cup {t}
    BY <1>22, <1>t DEF Collect
  <2>3. Fresh(Result(t)) /\ Result(t) \in Lines
    BY <1>o, <2>1, LinesAre DEF ToCome
  <2>4. OneCopy' /\ LinesKept({Result(t)}) /\ Result(t) \in buffer'[Runner]
    BY <1>o, <1>s, <2>1, <2>3, Adds
  <2>5. test[Runner] \in Nat /\ t < test[Runner]
    BY <1>r, <1>s, <1>t, <2>1 DEF RunnerRole
  <2>6. Later({Result(t)})
    <3>1. ASSUME NEW u \in Child, u >= test'[Runner] \/ u \in running'
          PROVE  (u >= test[Runner] \/ u \in running)
                 /\ Result(u) \notin {Result(t)}
      <4>1. u # t
        BY <1>s, <2>1, <2>5, <3>1
      <4> QED BY <2>1, <3>1, <4>1, LinesDiffer
    <3>2. ASSUME NEW u \in Child, ToMeasure(u)'
          PROVE  ToMeasure(u) /\ Statistics(u) \notin {Result(t)}
      BY <2>1, <3>2, LinesDiffer DEF ToMeasure
    <3> QED BY <2>1, <3>1, <3>2, LinesDiffer DEF Later
  <2>7. Earlier
    <3>1. ASSUME cfg.fork
          PROVE  console'[Launching(t)] = 1 /\ Told(Result(t))'
      BY <1>o, <2>1, <2>4, <3>1 DEF Came, Told
    <3> QED BY <2>1, <2>2, <3>1 DEF Earlier
  <2> QED BY <1>n, <2>1, <2>4, <2>6, <2>7, PrintsOn
<1>24. ASSUME WaitFails PROVE Printed'
  <2>1. UNCHANGED <<cfg, test, running, judged>>
        /\ (\A q \in Procs \ {Runner} : pc'[q] = pc[q])
        /\ pc[Runner] \in {"loop", "wait", "destroy"}
    BY <1>24, <1>t DEF WaitFails, Go, Exits, Collects, InLoop
  <2>2. CASE pc[Runner] = "destroy"
    <3>1. pc'[Runner] = "exited" /\ Exits(Runner)
      BY <1>24, <1>s, <1>t, <2>2 DEF WaitFails, Go, Exits
    <3>2. OneCopy' /\ LinesKept({}) /\ buffer'[Runner] = {}
      BY <1>o, <1>s, <3>1, Flushes DEF Exits
    <3>3. Later({}) /\ Earlier
      BY <1>r, <1>s, <1>t, <2>1, <2>2, <3>1, <3>2
         DEF RunnerRole, Setup, InTest, Final, Labels, Later, Earlier, ToMeasure
    <3> QED BY <1>n, <2>1, <3>2, <3>3, PrintsOn
  <2>3. CASE pc[Runner] # "destroy"
    <3>1. pc'[Runner] = "report" /\ UNCHANGED <<buffer, console>>
      BY <1>24, <1>s, <1>t, <2>3 DEF WaitFails, Go
    <3>2. Later({}) /\ Earlier
      BY <1>r, <1>s, <1>t, <2>1, <2>3, <3>1
         DEF RunnerRole, Setup, InTest, Final, Labels, Later, Earlier, ToMeasure
    <3> QED BY <1>n, <1>o, <2>1, <3>1, <3>2, PrintsNothing, PrintsOn
  <2> QED BY <2>2, <2>3
<1>23. CASE UNCHANGED vars
  <2>1. UNCHANGED <<cfg, pc, test, running, judged, buffer, console>>
    BY <1>23 DEF vars, place, output, tasks
  <2>2. Later({}) /\ Earlier
    BY <2>1 DEF Later, Earlier, ToMeasure
  <2> QED BY <1>n, <1>o, <2>1, <2>2, PrintsNothing, PrintsOn
<1> QED
  BY <1>1, <1>2, <1>3, <1>4, <1>5, <1>6, <1>7, <1>8, <1>9, <1>10, <1>11, <1>12, <1>13, <1>14, <1>15, <1>16, <1>17, <1>18, <1>19, <1>20, <1>21, <1>22, <1>23, <1>24 DEF Next, Over, Child

\* What the run checks of the lines.
LEMMA PrintedShows == TypeOK /\ Printed => PrintedOnce
  BY DEF Printed, OneCopy, Came, PrintedOnce, Launching, Result, Totals

-----------------------------------------------------------------------------
(* The end of the tests and of the runner *)

\* What the run checks of the end of the tests and of the runner.
LEMMA RolesShow == TypeOK /\ Roles => TestsEndBefore /\ RunnerOutlivesTests
<1> SUFFICES ASSUME TypeOK, Roles
             PROVE  TestsEndBefore /\ RunnerOutlivesTests
  OBVIOUS
<1>1. RunnerRole /\ \A t \in Child : ChildRole(t)
  BY DEF Roles
<1>2. TestsEndBefore
  BY <1>1 DEF TestsEndBefore, RunnerRole, ChildRole, Child, Final
<1>3. RunnerOutlivesTests
  <2>1. Places \in Nat /\ MaxObjects \in Nat
    BY Session
  <2> QED BY <1>1, <2>1 DEF RunnerOutlivesTests, RunnerRole
<1> QED
  BY <1>2, <1>3

-----------------------------------------------------------------------------
(* The output file *)

Measuring == {"loop", "before", "body", "measured"}
Done == {"after", "wait", "exited"} \cup Final

\* A step that leaves the file alone and takes nothing back: no test is ahead
\* that was not, and what counts as measured is recorded.
Onward ==
  /\ pc'[Runner] = "outfile" /\ n'[Runner] > 0 =>
       pc[Runner] = "outfile" /\ n'[Runner] = n[Runner]
  /\ pc'[Runner] \in Working =>
       /\ pc[Runner] \in Working
       /\ \/ test'[Runner] = test[Runner] + 1
          \/ /\ test'[Runner] = test[Runner]
             /\ pc'[Runner] \in Measuring =>
                  cfg.fork \/ pc[Runner] \in Measuring
       /\ \A t \in Child :
            pc'[t] \in {"initialize", "list"} \cup Measuring =>
              \/ pc[t] \in {"initialize", "list"} \cup Measuring
              \/ t = test[Runner] /\ cfg.fork
       /\ cfg.mode = "ptest" =>
            /\ pc'[Runner] = "after" =>
                 pc[Runner] = "after" /\ test'[Runner] = test[Runner]
            /\ \A t \in judged'.success : t \in judged.success \/ Recorded(t)
            /\ \A t \in Child :
                 pc'[t] \in Done /\ res'[t] => pc[t] \in Done /\ res[t]

\* The sections have numbers.
LEMMA FileTypes ==
  ASSUME TypeOK
  PROVE  /\ Len(file) \in Nat /\ Inits \in Nat /\ test[Runner] \in Nat
         /\ \A k \in 1..Len(file) : file[k][2] \in Nat
<1>1. file \in Seq({"old", "info", "measured"} \X Nat)
  BY DEF TypeOK
<1>2. Len(file) \in Nat
  BY <1>1, LenProperties
<1>3. \A k \in 1..Len(file) : file[k] \in {"old", "info", "measured"} \X Nat
  BY <1>1, ElementOfSeq
<1>4. test[Runner] \in Nat
  BY Session DEF TypeOK
<1> QED
  BY <1>2, <1>3, <1>4, Session

\* A step that goes onward and leaves the file alone keeps what is said of it.
LEMMA FileStays ==
  ASSUME TypeOK, Filed, cfg' = cfg, file' = file,
         cfg.outfile = "writable" => Onward
  PROVE  Filed'
<1> SUFFICES ASSUME cfg.outfile = "writable"
             PROVE  /\ pc'[Runner] = "outfile" /\ n'[Runner] > 0 =>
                         /\ Len(file) = n'[Runner] - 1
                         /\ \A k \in 1..Len(file) : file[k] = <<"info", k>>
                    /\ pc'[Runner] \in Working => Sections' /\ Ahead' /\ Behind'
  BY DEF Filed
<1>f. /\ Len(file) \in Nat /\ Inits \in Nat /\ test[Runner] \in Nat
      /\ \A k \in Records : file[k][2] \in Nat
  BY FileTypes DEF Records
<1>o. Onward
  OBVIOUS
<1>1. pc'[Runner] = "outfile" /\ n'[Runner] > 0 =>
        /\ Len(file) = n'[Runner] - 1
        /\ \A k \in 1..Len(file) : file[k] = <<"info", k>>
  BY <1>o DEF Filed, Onward
<1>2. ASSUME pc'[Runner] \in Working PROVE Sections' /\ Ahead' /\ Behind'
  <2>1. Sections /\ Ahead /\ Behind
    BY <1>o, <1>2 DEF Filed, Onward
  <2>2. Sections'
    BY <2>1 DEF Sections, Records
  <2>3. Records' = Records /\ \A t : Recorded(t)' <=> Recorded(t)
    BY DEF Records, Recorded
  <2>4. ASSUME NEW x \in Nat, RecordsBelow(x)
        PROVE  RecordsBelow(x)' /\ RecordsBelow(x + 1)'
    BY <1>f, <2>3, <2>4 DEF RecordsBelow
  <2>5. Ahead'
    <3>1. RecordsBelow(test[Runner] + 1)
      BY <2>1 DEF Ahead
    <3>2. /\ \A k \in Records : file[k][2] < test[Runner] + 1
          /\ \A k \in Records : file[k][2] < test[Runner] + 2
      BY <1>f, <3>1 DEF RecordsBelow
    <3>3. \A k \in Records' : file'[k][2] < test'[Runner] + 1
      BY <1>f, <1>o, <1>2, <2>3, <3>2 DEF Onward
    <3>4. ASSUME cfg.fork \/ pc'[Runner] \in Measuring
          PROVE  \A k \in Records' : file'[k][2] < test'[Runner]
      <4>1. CASE test'[Runner] = test[Runner] + 1
        BY <2>3, <3>2, <4>1
      <4>2. CASE test'[Runner] = test[Runner]
                 /\ (cfg.fork \/ pc[Runner] \in Measuring)
        BY <2>1, <2>3, <4>2 DEF Ahead, Measuring, RecordsBelow
      <4>3. \/ test'[Runner] = test[Runner] + 1
            \/ /\ test'[Runner] = test[Runner]
               /\ cfg.fork \/ pc[Runner] \in Measuring
        BY <1>o, <1>2, <3>4 DEF Onward
      <4> QED BY <4>1, <4>2, <4>3
    <3>5. ASSUME NEW t \in Child,
                 pc'[t] \in {"initialize", "list"} \cup Measuring
          PROVE  \A k \in Records' : file'[k][2] < t
      <4>1. \/ pc[t] \in {"initialize", "list"} \cup Measuring
            \/ t = test[Runner] /\ cfg.fork
        BY <1>o, <1>2, <3>5 DEF Onward
      <4>2. RecordsBelow(t)
        BY <2>1, <4>1 DEF Ahead, Measuring
      <4> QED BY <2>3, <4>2 DEF RecordsBelow
    <3> QED BY <3>3, <3>4, <3>5 DEF Ahead, RecordsBelow, Measuring
  <2>6. Behind'
    <3> SUFFICES ASSUME cfg.mode = "ptest"
                 PROVE  /\ pc'[Runner] = "after" => Recorded(test'[Runner])
                        /\ \A t \in judged'.success : Recorded(t)
                        /\ \A t \in Child : pc'[t] \in Done /\ res'[t] => Recorded(t)
      BY <2>3 DEF Behind, Done
    <3>1. /\ pc[Runner] = "after" => Recorded(test[Runner])
          /\ \A t \in judged.success : Recorded(t)
          /\ \A t \in Child : pc[t] \in Done /\ res[t] => Recorded(t)
      BY <2>1 DEF Behind, Done
    <3> QED BY <1>o, <1>2, <3>1 DEF Onward
  <2> QED BY <2>2, <2>5, <2>6
<1> QED
  BY <1>1, <1>2

\* At the start there is nothing to say of the file.
LEMMA FiledInit == Init => Filed
<1> SUFFICES ASSUME Init PROVE Filed
  OBVIOUS
<1>1. pc[Runner] = "mkdirs"
  BY TypeInit, Session DEF Init
<1> QED
  BY <1>1 DEF Filed, Working, InTest, Final

\* Performance tests run one at a time.
LEMMA OneMeasured ==
  ASSUME TypeOK, Roles, cfg.mode = "ptest", NEW t \in running, NEW u \in running
  PROVE  t = u
<1>1. Places = 1
  BY DEF Places
<1>2. Cardinality(running) <= 1
  BY <1>1 DEF Roles, RunnerRole
<1>3. IsFiniteSet(running)
  <2>1. running \subseteq 1..Tests /\ Tests \in Int
    BY SessionAssumption DEF TypeOK, Child
  <2>2. 1 \in Int
    OBVIOUS
  <2>3. IsFiniteSet(1..Tests)
    BY <2>1, <2>2, FS_Interval
  <2> QED BY <2>1, <2>3, FS_Subset
<1>4. /\ Cardinality(running \ {t}) = Cardinality(running) - 1
      /\ Cardinality(running) \in Nat
  BY <1>3, FS_RemoveElement, FS_CardinalityType
<1>5. IsFiniteSet(running \ {t}) /\ Cardinality(running \ {t}) \in Nat
  BY <1>3, FS_Subset, FS_CardinalityType
<1>6. Cardinality(running \ {t}) = 0
  BY <1>2, <1>4, <1>5
<1>7. running \ {t} = {}
  BY <1>5, <1>6, FS_EmptySet
<1> QED
  BY <1>7

\* The statistics of a test go to the end of the file.
LEMMA FiledMeasured ==
  ASSUME TypeOK, Roles, Filed, cfg.outfile = "writable",
         NEW p \in Procs, Measured(p)
  PROVE  Filed'
<1>s. /\ Runner \in Procs /\ Runner \notin Child /\ Child \subseteq Procs
      /\ Procs = Child \cup {Runner} /\ Child \subseteq Nat
  BY Session DEF Child
<1>t. pc \in [Procs -> Labels] /\ n \in [Procs -> 0..(Inits + 1)]
  BY DEF TypeOK
<1>r. RunnerRole /\ \A t \in Child : ChildRole(t)
  BY DEF Roles
<1>0. PICK t \in Child : t = test[p]
  BY InTestIsTest DEF Measured, InTest
<1>1. /\ UNCHANGED <<cfg, test, running, judged, res>>
      /\ (\A q \in Procs \ {p} : pc'[q] = pc[q])
      /\ pc[p] = "measured" /\ pc'[p] = "after"
      /\ file' = Append(file, <<"measured", t>>)
  BY <1>0, <1>t DEF Measured, Go, tasks
<1>2. IF p = Runner THEN ~cfg.fork ELSE cfg.fork /\ t = p /\ t \in running
  BY <1>r, <1>s, <1>0, <1>1 DEF RunnerRole, ChildRole, InTest
<1>3. cfg.mode = "ptest"
  BY <1>r, <1>s, <1>1 DEF RunnerRole, ChildRole
<1>4. pc'[Runner] # "outfile"
  <2>1. CASE p = Runner
    BY <1>1, <2>1
  <2>2. CASE p # Runner
    <3>1. t < test[Runner] /\ test[Runner] \in Nat
      BY <1>2, <1>r, <1>s, <2>2, FileTypes DEF RunnerRole
    <3>2. test[Runner] # 1
      BY <3>1, <1>s DEF Child
    <3> QED BY <1>1, <1>r, <1>s, <2>2, <3>2 DEF RunnerRole, Setup
  <2> QED BY <2>1, <2>2
<1>5. ASSUME pc'[Runner] \in Working PROVE Sections' /\ Ahead' /\ Behind'
  <2>1. Sections /\ Ahead /\ Behind
    <3>1. pc[Runner] \in Working
      BY <1>s, <1>1, <1>5 DEF Working, InTest
    <3> QED BY <3>1 DEF Filed
  <2>2. /\ Len(file) \in Nat /\ Inits \in Nat /\ test[Runner] \in Nat
        /\ \A k \in 1..Len(file) : file[k][2] \in Nat
    BY FileTypes
  <2>3. /\ Len(file') = Len(file) + 1
        /\ \A k \in 1..Len(file) : file'[k] = file[k]
        /\ file'[Len(file) + 1] = <<"measured", t>>
    <3>1. t \in Nat
      BY <1>s
    <3> QED BY <1>1, <3>1, RecordTypes
  <2> DEFINE last == Len(file) + 1
  <2>4. /\ last \in Records' /\ Records' = Records \cup {last}
        /\ \A k \in Records : file'[k] = file[k] /\ file[k][2] \in Nat /\ k < last
        /\ last \in Nat /\ Len(file') = last
        /\ file'[last] = <<"measured", t>>
    <3>1. Len(file) >= Inits
      BY <2>1 DEF Sections
    <3> QED BY <2>2, <2>3, <3>1 DEF Records
  <2>5. RecordsBelow(t)
    <3>1. CASE p = Runner
      BY <1>0, <1>1, <2>1, <3>1 DEF Ahead
    <3>2. CASE p \in Child
      BY <1>1, <1>2, <1>s, <2>1, <3>2 DEF Ahead
    <3> QED BY <1>s, <3>1, <3>2
  <2>6. /\ \A k \in Records : file[k][2] < t
        /\ \A u : Recorded(u) => Recorded(u)'
        /\ Recorded(t)'
    <3>1. \A k \in Records : file[k][2] < t
      BY <2>5 DEF RecordsBelow
    <3>2. \A u : Recorded(u) => \E k \in Records' : file'[k][2] = u
      BY <2>4 DEF Recorded
    <3>3. file'[last][2] = t
      BY <2>4
    <3>4. \E k \in Records' : file'[k][2] = t
      BY <2>4, <3>3
    <3> HIDE DEF last
    <3> QED BY <3>1, <3>2, <3>4 DEF Recorded
  <2>7. Sections'
    <3>1. Len(file') >= Inits
      BY <2>1, <2>2, <2>3 DEF Sections
    <3>2. \A k \in 1..Inits : file'[k] = <<"info", k>>
      BY <2>1, <2>2, <2>3 DEF Sections
    <3>3. ASSUME NEW k \in Records'
          PROVE  /\ file'[k][1] = "measured"
                 /\ \A m \in (Inits + 1)..(k - 1) : file'[m][2] < file'[k][2]
      <4>1. CASE k = last
        <5>1. file'[k][1] = "measured" /\ file'[k][2] = t
          BY <2>4, <4>1
        <5>2. ASSUME NEW m \in (Inits + 1)..(k - 1) PROVE file'[m][2] < t
          <6>1. m \in Records
            BY <2>2, <4>1 DEF Records
          <6> QED BY <2>4, <2>6, <6>1
        <5> QED BY <5>1, <5>2
      <4>2. CASE k \in Records
        <5>1. ASSUME NEW m \in (Inits + 1)..(k - 1) PROVE m \in Records
          BY <2>2, <4>2 DEF Records
        <5>2. /\ file[k][1] = "measured"
              /\ \A m \in (Inits + 1)..(k - 1) : file[m][2] < file[k][2]
          BY <2>1, <4>2 DEF Sections
        <5> QED BY <2>4, <4>2, <5>1, <5>2
      <4> QED BY <2>4, <4>1, <4>2
    <3> QED BY <1>1, <1>3, <3>1, <3>2, <3>3 DEF Sections
  <2>8. Ahead'
    <3>1. ASSUME NEW x \in Nat, RecordsBelow(x), t < x
          PROVE  \A k \in Records' : file'[k][2] < x
      <4>1. file'[last][2] = t
        BY <2>4
      <4>2. \A k \in Records : file'[k][2] < x
        BY <2>4, <3>1 DEF RecordsBelow
      <4> HIDE DEF last
      <4> QED BY <2>4, <3>1, <4>1, <4>2
    <3>2. IF p = Runner THEN t = test[Runner] ELSE t < test[Runner]
      BY <1>0, <1>2, <1>r, <1>s, <2>2 DEF RunnerRole
    <3>3. \A k \in Records' : file'[k][2] < test[Runner] + 1
      <4>1. RecordsBelow(test[Runner] + 1) /\ test[Runner] + 1 \in Nat
            /\ t < test[Runner] + 1
        BY <1>s, <2>1, <2>2, <3>2 DEF Ahead
      <4> QED BY <3>1, <4>1
    <3>4. ASSUME cfg.fork \/ pc'[Runner] \in Measuring
          PROVE  \A k \in Records' : file'[k][2] < test[Runner]
      <4>1. p # Runner
        BY <1>1, <1>2, <3>4 DEF Measuring
      <4>2. RecordsBelow(test[Runner])
        BY <1>2, <2>1, <4>1 DEF Ahead
      <4> QED BY <2>2, <3>1, <3>2, <4>1, <4>2
    <3>5. ASSUME NEW u \in Child PROVE pc'[u] \notin {"initialize", "list"} \cup Measuring
      <4>1. CASE p = Runner
        BY <1>1, <1>2, <1>r, <1>s, <4>1 DEF ChildRole, Measuring
      <4>2. CASE p = u
        BY <1>1, <4>2 DEF Measuring
      <4>3. CASE p # Runner /\ p # u
        <5>1. u \notin running
          BY <1>2, <1>3, <4>3, OneMeasured
        <5>2. pc'[u] \in {"absent", "exited", "killed"}
          BY <1>1, <1>r, <1>s, <4>3, <5>1 DEF ChildRole
        <5> QED BY <5>2 DEF Measuring
      <4> QED BY <4>1, <4>2, <4>3
    <3>6. test' = test /\ cfg' = cfg
      BY <1>1
    <3> QED BY <3>3, <3>4, <3>5, <3>6 DEF Ahead, RecordsBelow, Measuring
  <2>9. Behind'
    <3>1. pc'[Runner] = "after" => \E k \in Records' : file'[k][2] = test[Runner]
      <4>1. CASE p = Runner
        <5>1. \E k \in Records' : file'[k][2] = t
          BY <2>6 DEF Recorded
        <5> QED BY <1>0, <4>1, <5>1
      <4>2. CASE p # Runner
        <5>1. pc'[Runner] # "after"
          BY <1>1, <1>2, <1>r, <1>s, <4>2 DEF RunnerRole, InTest
        <5> QED BY <5>1
      <4> QED BY <4>1, <4>2
    <3>2. \A u \in judged'.success : Recorded(u)'
      BY <1>1, <1>3, <2>1, <2>6 DEF Behind
    <3>3. ASSUME NEW u \in Child, pc'[u] \in Done, res'[u]
          PROVE  Recorded(u)'
      <4>1. CASE u = p
        BY <1>2, <1>s, <2>6, <4>1
      <4>2. CASE u # p
        <5>1. pc[u] \in Done /\ res[u]
          BY <1>1, <1>s, <3>3, <4>2
        <5>2. Recorded(u)
          BY <1>3, <2>1, <5>1 DEF Behind, Done
        <5> QED BY <2>6, <5>2
      <4> QED BY <4>1, <4>2
    <3>4. test'[Runner] = test[Runner]
      BY <1>1
    <3>5. pc'[Runner] = "after" => \E k \in Records' : file'[k][2] = test'[Runner]
      BY <3>1, <3>4
    <3> QED BY <3>2, <3>3, <3>5 DEF Behind, Done, Recorded
  <2> QED BY <2>7, <2>8, <2>9
<1> QED
  BY <1>1, <1>4, <1>5 DEF Filed

\* The information of an initializer follows that of the one before it.
LEMMA FiledCreated ==
  ASSUME TypeOK, Roles, Filed, cfg.outfile = "writable", CreateOutfile(Runner)
  PROVE  Filed'
<1>s. /\ Runner \in Procs /\ Runner \notin Child /\ Child \subseteq Procs
      /\ Inits \in Nat
  BY Session
<1>t. pc \in [Procs -> Labels] /\ n \in [Procs -> 0..(Inits + 1)]
      /\ n[Runner] \in Nat
  BY <1>s DEF TypeOK
<1>1. /\ UNCHANGED <<cfg, test, res, judged>> /\ pc[Runner] = "outfile"
      /\ \A q \in Procs \ {Runner} : pc'[q] = pc[q]
  BY <1>t DEF CreateOutfile, Go, tasks
<1>2. n[Runner] > 0 =>
        /\ Len(file) = n[Runner] - 1
        /\ \A k \in 1..Len(file) : file[k] = <<"info", k>>
  BY <1>1 DEF Filed
<1>3. CASE n[Runner] = 0
  <2>1. file' = <<>> /\ pc'[Runner] = "outfile" /\ n'[Runner] = 1
    BY <1>s, <1>t, <1>3 DEF CreateOutfile, Go
  <2>2. Len(file') = 0
    BY <2>1
  <2>3. /\ Len(file') = n'[Runner] - 1
        /\ \A k \in 1..Len(file') : file'[k] = <<"info", k>>
    BY <2>1, <2>2
  <2> QED BY <2>1, <2>3 DEF Filed, Working, InTest, Final
<1>4. CASE n[Runner] > 0 /\ n[Runner] <= Inits
  <2>0. n[Runner] # 0
    BY <1>t, <1>4
  <2>1. /\ file' = Append(file, <<"info", n[Runner]>>)
        /\ Go(Runner, "outfile", n[Runner] + 1)
    BY <1>4, <2>0 DEF CreateOutfile
  <2>2. pc'[Runner] = "outfile" /\ n'[Runner] = n[Runner] + 1
    BY <1>s, <1>t, <2>1 DEF Go
  <2>3. /\ Len(file') = Len(file) + 1 /\ Len(file) \in Nat
        /\ \A k \in 1..Len(file) : file'[k] = file[k]
        /\ file'[Len(file) + 1] = <<"info", n[Runner]>>
    BY <1>t, <2>1, RecordTypes
  <2>4. Len(file) + 1 = n[Runner]
    BY <1>2, <1>4, <1>t
  <2>5. \A k \in 1..Len(file') : file'[k] = <<"info", k>>
    BY <1>2, <1>4, <2>3, <2>4
  <2>6. Len(file') = n'[Runner] - 1
    BY <1>t, <2>2, <2>3, <2>4
  <2> QED BY <2>2, <2>5, <2>6 DEF Filed, Working, InTest, Final
<1>5. CASE n[Runner] > Inits
  <2>1. n[Runner] = Inits + 1 /\ n[Runner] # 0 /\ ~(n[Runner] <= Inits)
    BY <1>s, <1>t, <1>5
  <2>2. file' = file /\ pc'[Runner] = "loop"
    BY <1>s, <1>t, <2>1 DEF CreateOutfile, Go
  <2>3. Len(file) = Inits /\ \A k \in 1..Inits : file[k] = <<"info", k>>
    BY <1>2, <1>5, <1>s, <1>t, <2>1
  <2>4. Records' = {}
    BY <1>s, <2>2, <2>3 DEF Records
  <2>5. test[Runner] = 1 /\ judged.success = {}
    BY <1>1 DEF Roles, RunnerRole, Setup
  <2>6. \A t \in Child : pc'[t] = "absent"
    <3>1. \A t \in Child : t >= 1
      BY DEF Child
    <3> QED BY <1>1, <1>s, <2>5, <3>1 DEF Roles, ChildRole
  <2>7. Sections'
    BY <1>s, <2>2, <2>3, <2>4 DEF Sections
  <2>8. Ahead'
    BY <2>4 DEF Ahead, RecordsBelow
  <2>9. Behind'
    BY <1>1, <2>2, <2>5, <2>6 DEF Behind, Final
  <2> QED BY <2>2, <2>7, <2>8, <2>9 DEF Filed
<1> QED
  BY <1>s, <1>t, <1>3, <1>4, <1>5

\* Every step keeps what is said of the file.
LEMMA FiledStep == TypeOK /\ Roles /\ Filed /\ Next => Filed'
<1> SUFFICES ASSUME TypeOK, Roles, Filed, Next PROVE Filed'
  OBVIOUS
<1>s. /\ Runner \in Procs /\ Runner \notin Child /\ Child \subseteq Procs
      /\ Procs = Child \cup {Runner} /\ Child \subseteq Nat
      /\ Child = 1..Tests /\ Tests \in Nat /\ cfg.fork \in BOOLEAN
  BY Session DEF Child
<1>t. /\ pc \in [Procs -> Labels] /\ test \in [Procs -> 1..(Tests + 1)]
      /\ n \in [Procs -> 0..(Inits + 1)]
      /\ res \in [Procs -> BOOLEAN] /\ running \in SUBSET Child
      /\ judged \in [success : SUBSET Child, failed : SUBSET Child]
  BY DEF TypeOK
<1>r. RunnerRole /\ \A t \in Child : ChildRole(t)
  BY DEF Roles
<1>1. ASSUME MkDirs PROVE Filed'
  <2>1. UNCHANGED <<cfg, test, running, judged, file>>
        /\ \A q \in Procs \ {Runner} : pc'[q] = pc[q] /\ res'[q] = res[q] /\ n'[q] = n[q]
    BY <1>1, <1>t DEF MkDirs, Go, Exits, output, tasks, place
  <2>2. Onward
    BY <1>1, <1>r, <1>s, <1>t, <2>1
       DEF MkDirs, Go, Exits, InLoop, RunnerRole, Setup, InTest, Final, Labels, Onward, Working, Measuring, Done
  <2> QED BY <2>1, <2>2, FileStays
<1>2. ASSUME SystemInfo PROVE Filed'
  <2>1. UNCHANGED <<cfg, test, running, judged, file>>
        /\ \A q \in Procs \ {Runner} : pc'[q] = pc[q] /\ res'[q] = res[q] /\ n'[q] = n[q]
    BY <1>2, <1>t DEF SystemInfo, Go, output, tasks, place
  <2>2. Onward
    BY <1>2, <1>r, <1>s, <1>t, <2>1
       DEF SystemInfo, Go, InLoop, RunnerRole, Setup, InTest, Final, Labels, Onward, Working, Measuring, Done
  <2> QED BY <2>1, <2>2, FileStays
<1>3. ASSUME SubmitFails PROVE Filed'
  <2>1. UNCHANGED <<cfg, test, running, judged, file>>
        /\ \A q \in Procs \ {Runner} : pc'[q] = pc[q] /\ res'[q] = res[q] /\ n'[q] = n[q]
    BY <1>3, <1>t DEF SubmitFails, Go, output, tasks, place
  <2>2. Onward
    BY <1>3, <1>r, <1>s, <1>t, <2>1
       DEF SubmitFails, Go, InLoop, RunnerRole, Setup, InTest, Final, Labels, Onward, Working, Measuring, Done
  <2> QED BY <2>1, <2>2, FileStays
<1>4. ASSUME TableTooLarge PROVE Filed'
  <2>1. UNCHANGED <<cfg, test, running, judged, file>>
        /\ \A q \in Procs \ {Runner} : pc'[q] = pc[q] /\ res'[q] = res[q] /\ n'[q] = n[q]
    BY <1>4, <1>t DEF TableTooLarge, Go, output, tasks, place
  <2>2. Onward
    BY <1>4, <1>r, <1>s, <1>t, <2>1
       DEF TableTooLarge, Go, InLoop, RunnerRole, Setup, InTest, Final, Labels, Onward, Working, Measuring, Done
  <2> QED BY <2>1, <2>2, FileStays
<1>5. ASSUME NEW p \in Procs, RegistryFails(p) PROVE Filed'
  <2>1. UNCHANGED <<cfg, test, running, judged, file>>
        /\ \A q \in Procs \ {p} : pc'[q] = pc[q] /\ res'[q] = res[q] /\ n'[q] = n[q]
    BY <1>5, <1>t DEF RegistryFails, Go, Exits, output, tasks, place
  <2>2. CASE p = Runner
    <3>1. cfg.outfile = "writable" => Onward
      BY <1>5, <1>r, <1>s, <1>t, <2>1, <2>2
         DEF RegistryFails, Go, Exits, IsChild, InLoop, RunnerRole, Setup, InTest, Final, Labels, Onward, Working, Measuring, Done
    <3> QED BY <2>1, <3>1, FileStays
  <2>3. CASE p \in Child
    <3>1. pc'[p] = "exited" /\ ~res'[p]
      BY <1>5, <1>r, <1>s, <1>t, <2>1, <2>3
         DEF RegistryFails, Go, Exits, IsChild, InLoop, ChildRole
    <3>2. Onward
      BY <1>s, <2>1, <2>3, <3>1 DEF Setup, InTest, Final, Labels, Onward, Working, Measuring, Done
    <3> QED BY <2>1, <3>2, FileStays
  <2> QED BY <1>s, <2>2, <2>3
<1>6. ASSUME NEW p \in Procs, ListTests(p) PROVE Filed'
  <2>1. UNCHANGED <<cfg, test, running, judged, file>>
        /\ \A q \in Procs \ {p} : pc'[q] = pc[q] /\ res'[q] = res[q] /\ n'[q] = n[q]
    BY <1>6, <1>t DEF ListTests, Go, Exits, output, tasks, place
  <2>2. CASE p = Runner
    <3>1. cfg.outfile = "writable" => Onward
      BY <1>6, <1>r, <1>s, <1>t, <2>1, <2>2
         DEF ListTests, Go, Exits, IsChild, InLoop, RunnerRole, Setup, InTest, Final, Labels, Onward, Working, Measuring, Done
    <3> QED BY <2>1, <3>1, FileStays
  <2>3. CASE p \in Child
    <3>1. pc[p] = "list" /\ pc'[p] = "loop"
      <4>1. Tests # 0 /\ IsChild(p) /\ pc[p] = "list"
        BY <1>6, <1>s, <2>3 DEF ListTests, IsChild
      <4>2. Go(p, "loop", 0)
        BY <1>6, <4>1 DEF ListTests
      <4> QED BY <1>s, <1>t, <2>3, <4>1, <4>2 DEF Go
    <3>2. Onward
      BY <1>s, <2>1, <2>3, <3>1 DEF Setup, InTest, Final, Labels, Onward, Working, Measuring, Done
    <3> QED BY <2>1, <3>2, FileStays
  <2> QED BY <1>s, <2>2, <2>3
<1>7. ASSUME NEW p \in Procs, Body(p) PROVE Filed'
  <2>1. UNCHANGED <<cfg, test, running, judged, file>>
        /\ \A q \in Procs \ {p} : pc'[q] = pc[q] /\ res'[q] = res[q] /\ n'[q] = n[q]
    BY <1>7, <1>t DEF Body, Go, Exits, output, tasks, place
  <2>2. CASE p = Runner
    <3>1. cfg.outfile = "writable" => Onward
      BY <1>7, <1>r, <1>s, <1>t, <2>1, <2>2
         DEF Body, Go, Exits, IsChild, InLoop, RunnerRole, Setup, InTest, Final, Labels, Onward, Working, Measuring, Done
    <3> QED BY <2>1, <3>1, FileStays
  <2>3. CASE p \in Child
    <3>1. /\ pc[p] = "body"
          /\ \/ pc'[p] \in {"measured", "killed"}
             \/ pc'[p] = "after" /\ cfg.mode # "ptest"
             \/ pc'[p] = "exited" /\ ~res'[p]
      BY <1>7, <1>r, <1>s, <1>t, <2>1, <2>3
         DEF Body, Go, Exits, IsChild, InLoop, ChildRole
    <3>2. Onward
      BY <1>s, <2>1, <2>3, <3>1 DEF Setup, InTest, Final, Labels, Onward, Working, Measuring, Done
    <3> QED BY <2>1, <3>2, FileStays
  <2> QED BY <1>s, <2>2, <2>3
<1>8. ASSUME NEW p \in Procs, Destroyed(p) PROVE Filed'
  <2>1. UNCHANGED <<cfg, test, running, judged, file>>
        /\ \A q \in Procs \ {p} : pc'[q] = pc[q] /\ res'[q] = res[q] /\ n'[q] = n[q]
    BY <1>8, <1>t DEF Destroyed, Go, Exits, output, tasks, place
  <2>2. CASE p = Runner
    <3>1. cfg.outfile = "writable" => Onward
      BY <1>8, <1>r, <1>s, <1>t, <2>1, <2>2
         DEF Destroyed, Go, Exits, IsChild, InLoop, RunnerRole, Setup, InTest, Final, Labels, Onward, Working, Measuring, Done
    <3> QED BY <2>1, <3>1, FileStays
  <2>3. CASE p \in Child
    <3>1. pc[p] = "destroy" /\ pc'[p] = "exited" /\ res' = res
      BY <1>8, <1>r, <1>s, <1>t, <2>1, <2>3
         DEF Destroyed, Go, Exits, IsChild, InLoop, ChildRole
    <3>2. Onward
      BY <1>s, <2>1, <2>3, <3>1 DEF Setup, InTest, Final, Labels, Onward, Working, Measuring, Done
    <3> QED BY <2>1, <3>2, FileStays
  <2> QED BY <1>s, <2>2, <2>3
<1>9. ASSUME NEW p \in Procs, Initialize(p) PROVE Filed'
  <2>1. UNCHANGED <<cfg, test, running, judged, file>>
        /\ \A q \in Procs \ {p} : pc'[q] = pc[q] /\ res'[q] = res[q] /\ n'[q] = n[q]
    BY <1>9, <1>t DEF Initialize, Go, output, tasks, place
  <2>2. CASE p = Runner
    <3>1. cfg.outfile = "writable" => Onward
      BY <1>9, <1>r, <1>s, <1>t, <2>1, <2>2
         DEF Initialize, Go, IsChild, InLoop, RunnerRole, Setup, InTest, Final, Labels, Onward, Working, Measuring, Done
    <3> QED BY <2>1, <3>1, FileStays
  <2>3. CASE p \in Child
    <3>1. pc[p] = "initialize" /\ pc'[p] \in {"initialize", "list"}
      <4>1. pc[p] = "initialize" /\ IsChild(p)
        BY <1>9, <1>s, <2>3 DEF Initialize, IsChild
      <4>2. Go(p, "initialize", n[p] + 1) \/ Go(p, "list", 1)
        BY <1>9, <4>1 DEF Initialize
      <4>3. pc'[p] \in {"initialize", "list"}
        BY <1>s, <1>t, <2>3, <4>2 DEF Go
      <4> QED BY <4>1, <4>3
    <3>2. Onward
      BY <1>s, <2>1, <2>3, <3>1 DEF Setup, InTest, Final, Labels, Onward, Working, Measuring, Done
    <3> QED BY <2>1, <3>2, FileStays
  <2> QED BY <1>s, <2>2, <2>3
<1>10. ASSUME NEW p \in Procs, SubmitHere(p) PROVE Filed'
  <2>1. UNCHANGED <<cfg, test, running, judged, file>>
        /\ \A q \in Procs \ {p} : pc'[q] = pc[q] /\ res'[q] = res[q] /\ n'[q] = n[q]
    BY <1>10, <1>t DEF SubmitHere, Go, output, tasks, place
  <2>2. CASE p = Runner
    <3>1. cfg.outfile = "writable" => Onward
      BY <1>10, <1>r, <1>s, <1>t, <2>1, <2>2
         DEF SubmitHere, Go, IsChild, InLoop, RunnerRole, Setup, InTest, Final, Labels, Onward, Working, Measuring, Done
    <3> QED BY <2>1, <3>1, FileStays
  <2>3. CASE p \in Child
    <3>1. pc[p] = "loop" /\ pc'[p] = "before"
      BY <1>10, <1>r, <1>s, <1>t, <2>1, <2>3
         DEF SubmitHere, Go, IsChild, InLoop, ChildRole
    <3>2. Onward
      BY <1>s, <2>1, <2>3, <3>1 DEF Setup, InTest, Final, Labels, Onward, Working, Measuring, Done
    <3> QED BY <2>1, <3>2, FileStays
  <2> QED BY <1>s, <2>2, <2>3
<1>11. ASSUME NEW p \in Procs, LoopEnds(p) PROVE Filed'
  <2>1. UNCHANGED <<cfg, test, running, judged, file>>
        /\ \A q \in Procs \ {p} : pc'[q] = pc[q] /\ res'[q] = res[q] /\ n'[q] = n[q]
    BY <1>11, <1>t DEF LoopEnds, Go, output, tasks, place
  <2>2. CASE p = Runner
    <3>1. cfg.outfile = "writable" => Onward
      BY <1>11, <1>r, <1>s, <1>t, <2>1, <2>2
         DEF LoopEnds, Go, IsChild, InLoop, RunnerRole, Setup, InTest, Final, Labels, Onward, Working, Measuring, Done
    <3> QED BY <2>1, <3>1, FileStays
  <2>3. CASE p \in Child
    <3>1. FALSE
      BY <1>11, <1>r, <1>s, <1>t, <2>1, <2>3
         DEF LoopEnds, Go, IsChild, InLoop, ChildRole
    <3>2. Onward
      BY <1>s, <2>1, <2>3, <3>1 DEF Setup, InTest, Final, Labels, Onward, Working, Measuring, Done
    <3> QED BY <2>1, <3>2, FileStays
  <2> QED BY <1>s, <2>2, <2>3
<1>12. ASSUME NEW p \in Procs, Before(p) PROVE Filed'
  <2>1. UNCHANGED <<cfg, test, running, judged, file>>
        /\ \A q \in Procs \ {p} : pc'[q] = pc[q] /\ res'[q] = res[q] /\ n'[q] = n[q]
    BY <1>12, <1>t DEF Before, Go, output, tasks, place
  <2>2. CASE p = Runner
    <3>1. cfg.outfile = "writable" => Onward
      BY <1>12, <1>r, <1>s, <1>t, <2>1, <2>2
         DEF Before, Go, IsChild, InLoop, RunnerRole, Setup, InTest, Final, Labels, Onward, Working, Measuring, Done
    <3> QED BY <2>1, <3>1, FileStays
  <2>3. CASE p \in Child
    <3>1. pc[p] = "before" /\ pc'[p] \in {"before", "body"}
      <4>1. pc[p] = "before"
        BY <1>12 DEF Before
      <4>2. Go(p, "before", n[p] + 1) \/ Go(p, "body", 0)
        BY <1>12 DEF Before
      <4>3. pc'[p] \in {"before", "body"}
        BY <1>s, <1>t, <2>3, <4>2 DEF Go
      <4> QED BY <4>1, <4>3
    <3>2. Onward
      BY <1>s, <2>1, <2>3, <3>1 DEF Setup, InTest, Final, Labels, Onward, Working, Measuring, Done
    <3> QED BY <2>1, <3>2, FileStays
  <2> QED BY <1>s, <2>2, <2>3
<1>13. ASSUME NEW p \in Procs, After(p) PROVE Filed'
  <2>1. UNCHANGED <<cfg, test, running, judged, file>>
        /\ \A q \in Procs \ {p} : pc'[q] = pc[q] /\ res'[q] = res[q] /\ n'[q] = n[q]
    BY <1>13, <1>t DEF After, Go, output, tasks, place
  <2>2. CASE p = Runner
    <3>1. cfg.outfile = "writable" => Onward
      BY <1>13, <1>r, <1>s, <1>t, <2>1, <2>2
         DEF After, Go, IsChild, InLoop, RunnerRole, Setup, InTest, Final, Labels, Onward, Working, Measuring, Done
    <3> QED BY <2>1, <3>1, FileStays
  <2>3. CASE p \in Child
    <3>1. pc[p] = "after" /\ pc'[p] = "after" /\ res' = res
      BY <1>13, <1>r, <1>s, <1>t, <2>1, <2>3
         DEF After, Go, IsChild, InLoop, ChildRole
    <3>2. Onward
      BY <1>s, <2>1, <2>3, <3>1 DEF Setup, InTest, Final, Labels, Onward, Working, Measuring, Done
    <3> QED BY <2>1, <3>2, FileStays
  <2> QED BY <1>s, <2>2, <2>3
<1>14. ASSUME NEW p \in Procs, Waited(p) PROVE Filed'
  <2>1. UNCHANGED <<cfg, test, running, judged, file>>
        /\ \A q \in Procs \ {p} : pc'[q] = pc[q] /\ res'[q] = res[q] /\ n'[q] = n[q]
    BY <1>14, <1>t DEF Waited, Go, output, tasks, place
  <2>2. CASE p = Runner
    <3>1. cfg.outfile = "writable" => Onward
      BY <1>14, <1>r, <1>s, <1>t, <2>1, <2>2
         DEF Waited, Go, IsChild, InLoop, RunnerRole, Setup, InTest, Final, Labels, Onward, Working, Measuring, Done
    <3> QED BY <2>1, <3>1, FileStays
  <2>3. CASE p \in Child
    <3>1. pc[p] = "wait" /\ pc'[p] = "report" /\ res' = res
      BY <1>14, <1>r, <1>s, <1>t, <2>1, <2>3
         DEF Waited, Go, IsChild, InLoop, ChildRole
    <3>2. Onward
      BY <1>s, <2>1, <2>3, <3>1 DEF Setup, InTest, Final, Labels, Onward, Working, Measuring, Done
    <3> QED BY <2>1, <3>2, FileStays
  <2> QED BY <1>s, <2>2, <2>3
<1>15. ASSUME NEW p \in Procs, Report(p) PROVE Filed'
  <2>1. UNCHANGED <<cfg, test, running, judged, file>>
        /\ \A q \in Procs \ {p} : pc'[q] = pc[q] /\ res'[q] = res[q] /\ n'[q] = n[q]
    BY <1>15, <1>t DEF Report, Go, output, tasks, place
  <2>2. CASE p = Runner
    <3>1. cfg.outfile = "writable" => Onward
      BY <1>15, <1>r, <1>s, <1>t, <2>1, <2>2
         DEF Report, Go, IsChild, InLoop, RunnerRole, Setup, InTest, Final, Labels, Onward, Working, Measuring, Done
    <3> QED BY <2>1, <3>1, FileStays
  <2>3. CASE p \in Child
    <3>1. pc[p] = "report" /\ pc'[p] = "finalize" /\ res' = res
      BY <1>15, <1>r, <1>s, <1>t, <2>1, <2>3
         DEF Report, Go, IsChild, InLoop, ChildRole
    <3>2. Onward
      BY <1>s, <2>1, <2>3, <3>1 DEF Setup, InTest, Final, Labels, Onward, Working, Measuring, Done
    <3> QED BY <2>1, <3>2, FileStays
  <2> QED BY <1>s, <2>2, <2>3
<1>16. ASSUME NEW p \in Procs, Finalize(p) PROVE Filed'
  <2>1. UNCHANGED <<cfg, test, running, judged, file>>
        /\ \A q \in Procs \ {p} : pc'[q] = pc[q] /\ res'[q] = res[q] /\ n'[q] = n[q]
    BY <1>16, <1>t DEF Finalize, Go, output, tasks, place
  <2>2. CASE p = Runner
    <3>1. cfg.outfile = "writable" => Onward
      BY <1>16, <1>r, <1>s, <1>t, <2>1, <2>2
         DEF Finalize, Go, IsChild, InLoop, RunnerRole, Setup, InTest, Final, Labels, Onward, Working, Measuring, Done
    <3> QED BY <2>1, <3>1, FileStays
  <2>3. CASE p \in Child
    <3>1. /\ pc[p] = "finalize" /\ pc'[p] \in {"finalize", "destroy"}
          /\ res' = res
      <4>1. pc[p] = "finalize" /\ res' = res
        BY <1>16 DEF Finalize
      <4>2. Go(p, "finalize", n[p] - 1) \/ Go(p, "destroy", 0)
        BY <1>16 DEF Finalize
      <4>3. pc'[p] \in {"finalize", "destroy"}
        BY <1>s, <1>t, <2>3, <4>2 DEF Go
      <4> QED BY <4>1, <4>3
    <3>2. Onward
      BY <1>s, <2>1, <2>3, <3>1 DEF Setup, InTest, Final, Labels, Onward, Working, Measuring, Done
    <3> QED BY <2>1, <3>2, FileStays
  <2> QED BY <1>s, <2>2, <2>3
<1>17. ASSUME NEW p \in Procs, CreateOutfile(p) PROVE Filed'
  <2>1. p = Runner
    BY <1>17, <1>r, <1>s DEF CreateOutfile, ChildRole
  <2>2. cfg' = cfg
    BY <1>17 DEF CreateOutfile
  <2>3. CASE cfg.outfile = "writable"
    BY <1>17, <2>1, <2>3, FiledCreated
  <2> QED BY <2>2, <2>3 DEF Filed
<1>18. ASSUME NEW p \in Procs, Measured(p) PROVE Filed'
  <2>1. cfg' = cfg
    BY <1>18 DEF Measured
  <2>2. CASE cfg.outfile = "writable"
    BY <1>18, <2>2, FiledMeasured
  <2> QED BY <2>1, <2>2 DEF Filed
<1>19. ASSUME NEW p \in Procs, SkipTest(p) PROVE Filed'
  <2>1. UNCHANGED <<cfg, pc, n, res, running, judged, file>>
        /\ test'[Runner] = test[Runner]
    BY <1>19, <1>s, <1>t DEF SkipTest, IsChild, output, tasks
  <2>2. Onward
    BY <2>1 DEF Onward
  <2> QED BY <2>1, <2>2, FileStays
<1>20. ASSUME NEW p \in Procs, Launched(p) PROVE Filed'
  <2>1. UNCHANGED <<cfg, running, file, res>>
        /\ \A q \in Procs \ {p} : pc'[q] = pc[q] /\ test'[q] = test[q] /\ n'[q] = n[q]
    BY <1>20, <1>t DEF Launched, Go, output
  <2>2. CASE p = Runner
    <3>1. ~cfg.fork /\ test[Runner] \in Nat /\ pc[Runner] = "after"
      BY <1>20, <1>r, <1>s, <1>t, <2>2 DEF Launched, RunnerRole, InTest
    <3>2. \/ /\ res[Runner] /\ pc'[Runner] = "loop"
             /\ test'[Runner] = test[Runner] + 1
             /\ judged'.success = judged.success \cup {test[Runner]}
          \/ /\ ~res[Runner] /\ pc'[Runner] = "report"
             /\ test'[Runner] = test[Runner]
             /\ judged'.success = judged.success
      BY <1>20, <1>s, <1>t, <2>2 DEF Launched, Go, IsChild
    <3>3. cfg.outfile = "writable" /\ cfg.mode = "ptest" =>
            Recorded(test[Runner])
      BY <3>1 DEF Filed, Behind, Working, InTest
    <3>4. cfg.outfile = "writable" => Onward
      BY <1>s, <2>1, <2>2, <3>1, <3>2, <3>3
         DEF Onward, Working, InTest, Final, Measuring, Done
    <3> QED BY <2>1, <3>4, FileStays
  <2>3. CASE p \in Child
    <3>1. test'[Runner] = test[Runner] /\ judged' = judged
      BY <1>20, <1>s, <2>1, <2>3 DEF Launched, IsChild
    <3>2. Onward
      BY <1>20, <1>s, <1>t, <2>1, <2>3, <3>1
         DEF Launched, Go, IsChild, Onward, Working, InTest, Final, Measuring, Done
    <3> QED BY <2>1, <3>2, FileStays
  <2> QED BY <1>s, <2>2, <2>3
<1>21. ASSUME Submit PROVE Filed'
  <2>0. PICK t \in Child : t = test[Runner]
    BY <1>21, <1>s, <1>t DEF Submit, InLoop
  <2>1. /\ UNCHANGED <<cfg, judged, file, n, res>>
        /\ cfg.fork /\ pc[Runner] = "loop"
    BY <1>21 DEF Submit, InLoop
  <2>2. /\ (\A q \in Procs \ {t} : pc'[q] = pc[q])
        /\ pc'[t] \in {"before", "initialize"}
        /\ test'[Runner] = test[Runner] + 1
    <3>1. (\A q \in Procs \ {t} : pc'[q] = pc[q])
          /\ pc'[t] \in {"before", "initialize"}
      BY <1>21, <1>s, <1>t, <2>0 DEF Submit
    <3>2. test'[Runner] = test[Runner] + 1
      BY <1>21, <1>s, <1>t, <2>0 DEF Submit
    <3> QED BY <3>1, <3>2
  <2>3. Onward
    BY <1>s, <2>0, <2>1, <2>2
       DEF Onward, Working, InTest, Final, Measuring, Done
  <2> QED BY <2>1, <2>3, FileStays
<1>22. ASSUME NEW t \in Child, Collect(t) PROVE Filed'
  <2>1. /\ UNCHANGED <<cfg, pc, n, test, res, file>>
        /\ pc[Runner] \in {"wait", "destroy", "loop"}
    BY <1>22 DEF Collect, Collects, InLoop, place
  <2>2. \/ judged'.success = judged.success
        \/ /\ pc[t] = "exited" /\ res[t]
           /\ judged'.success = judged.success \cup {t}
    BY <1>22, <1>t DEF Collect
  <2>3. cfg.outfile = "writable" /\ cfg.mode = "ptest" /\ pc[t] = "exited" /\ res[t]
          => Recorded(t)
    BY <2>1 DEF Filed, Behind, Working, Final
  <2>4. cfg.outfile = "writable" => Onward
    BY <2>1, <2>2, <2>3 DEF Onward
  <2> QED BY <2>1, <2>4, FileStays
<1>24. ASSUME WaitFails PROVE Filed'
  <2>1. UNCHANGED <<cfg, test, running, judged, file>>
        /\ (\A q \in Procs \ {Runner} : pc'[q] = pc[q] /\ res'[q] = res[q] /\ n'[q] = n[q])
        /\ pc[Runner] \in {"loop", "wait", "destroy"}
    BY <1>24, <1>t DEF WaitFails, Go, Exits, Collects, InLoop
  <2>2. /\ pc'[Runner] \in {"report", "exited"}
        /\ pc'[Runner] = "report" => pc[Runner] # "destroy"
    BY <1>24, <1>s, <1>t DEF WaitFails, Go, Exits
  <2>3. Onward
    BY <1>r, <1>s, <1>t, <2>1, <2>2
       DEF RunnerRole, Setup, InTest, Final, Labels, Onward, Working, Measuring, Done
  <2> QED BY <2>1, <2>3, FileStays
<1>23. CASE UNCHANGED vars
  BY <1>23 DEF vars, place, output, tasks, Filed, Sections, Ahead, Behind,
                Records, Recorded, RecordsBelow
<1> QED
  BY <1>1, <1>2, <1>3, <1>4, <1>5, <1>6, <1>7, <1>8, <1>9, <1>10, <1>11, <1>12, <1>13, <1>14, <1>15, <1>16, <1>17, <1>18, <1>19, <1>20, <1>21, <1>22, <1>23, <1>24 DEF Next, Over, Child

\* What the run checks of the file.
LEMMA FiledShows == TypeOK /\ Filed => FileTellsMeasured
<1> SUFFICES ASSUME TypeOK, Filed, cfg.outfile = "writable", pc[Runner] \in Working
             PROVE  /\ Len(file) >= Inits
                    /\ \A k \in 1..Inits : file[k] = <<"info", k>>
                    /\ \A k \in (Inits + 1)..Len(file) :
                         /\ file[k][1] = "measured"
                         /\ \A m \in (Inits + 1)..(k - 1) : file[m][2] < file[k][2]
                    /\ cfg.mode = "ptest" =>
                         judged.success \subseteq
                           {file[k][2] : k \in (Inits + 1)..Len(file)}
  BY DEF FileTellsMeasured, Working, InTest, Final
<1>1. Sections /\ Behind
  BY DEF Filed
<1>2. cfg.mode = "ptest" =>
        judged.success \subseteq {file[k][2] : k \in (Inits + 1)..Len(file)}
  BY <1>1 DEF Behind, Recorded, Records
<1> QED
  BY <1>1, <1>2 DEF Sections, Records

-----------------------------------------------------------------------------
(* The properties of a session *)

\* The inductive invariant.
LEMMA Invariant == Spec => []IInv
<1>1. Init => IInv
  BY TypeInit, RolesInit, NestedInit, PrintedInit, FiledInit DEF IInv
<1>2. IInv /\ [Next]_vars => IInv'
  <2>1. IInv /\ Next => IInv'
    BY TypeStep, RolesStep, NestedStep, PrintedStep, FiledStep DEF IInv
  <2>2. IInv /\ UNCHANGED vars => IInv'
    <3> SUFFICES ASSUME IInv, UNCHANGED vars PROVE IInv'
      OBVIOUS
    <3>1. UNCHANGED <<cfg, pc, n, test, res, buffer, console, file, running, judged, deserted,
                     open>>
      BY DEF vars, place, output, tasks
    <3>2. TypeOK'
      BY <3>1 DEF IInv, TypeOK
    <3>3. Roles'
      BY <3>1 DEF IInv, Roles, RunnerRole, ChildRole, Places
    <3>4. Nested'
      BY <3>1 DEF IInv, Nested, Hooks
    <3>5. Printed'
      BY <3>1 DEF IInv, Printed, OneCopy, ToCome, Came, Fresh, Told, ToMeasure
    <3>6. Filed'
      BY <3>1 DEF IInv, Filed, Sections, Ahead, Behind, Records, Recorded,
                  RecordsBelow
    <3> QED BY <3>2, <3>3, <3>4, <3>5, <3>6 DEF IInv
  <2> QED BY <2>1, <2>2
<1> QED
  BY <1>1, <1>2, PTL DEF Spec

\* In every process of a session, a forked one with the memory of its runner
\* and a nested one with its own, the hooks that launch_test() and main() call
\* nest, wherever a body calls exit() or a registration fails.
THEOREM HooksNestHolds == Spec => []HooksNest
<1>1. IInv => HooksNest
  BY NestedShows DEF IInv
<1> QED
  BY <1>1, Invariant, PTL

\* create_outfile() and the performance tests of any processes write the file
\* in the order of the tests, and a success is never reported of a test whose
\* statistics are not there.
THEOREM FileTellsMeasuredHolds == Spec => []FileTellsMeasured
<1>1. IInv => FileTellsMeasured
  BY FiledShows DEF IInv
<1> QED
  BY <1>1, Invariant, PTL

\* The buffer of stdout that fork() copies never leads to a line that is written
\* twice, as submit() flushes it before, and none is lost by the runner.
THEOREM PrintedOnceHolds == Spec => []PrintedOnce
<1>1. IInv => PrintedOnce
  BY PrintedShows DEF IInv
<1> QED
  BY <1>1, Invariant, PTL

\* The finalizers run after the tests unless a call of the loop failed, and even
\* then the destructor of the executor waits for all that are left, unless its
\* own waitpid() fails, a result that it ignores.
THEOREM TestsEndBeforeHolds == Spec => []TestsEndBefore
<1>1. IInv => TestsEndBefore
  BY RolesShow DEF IInv
<1> QED
  BY <1>1, Invariant, PTL

\* A test in a process of its own cannot kill the runner, nor can the wait for
\* a full table, as long as it has no more places than Windows waits for.
THEOREM RunnerOutlivesTestsHolds == Spec => []RunnerOutlivesTests
<1>1. IInv => RunnerOutlivesTests
  BY RolesShow DEF IInv
<1> QED
  BY <1>1, Invariant, PTL

=============================================================================
