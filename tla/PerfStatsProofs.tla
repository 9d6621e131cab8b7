-------------------------- MODULE PerfStatsProofs --------------------------
(***************************************************************************)
(* The statistics of a performance test for any functions and costs, and   *)
(* runs of any length: no entry is lost or freed twice, each is rated once *)
(* and in its own group, the list of supported functions keeps what is     *)
(* marked, and the table shows what was measured.                          *)
(***************************************************************************)
EXTENDS PerfStats, TLAPS, FiniteSetTheorems, WellFoundedInduction,
        SequenceTheorems

-----------------------------------------------------------------------------
(* Least and greatest numbers *)

\* A set of natural numbers that is not empty has a least one.
LEMMA LeastOf ==
  ASSUME NEW T \in SUBSET Nat, T # {}
  PROVE  /\ Min(T) \in T /\ \A y \in T : Min(T) <= y
<1>0. \A x, y \in Nat : y < x => <<y, x>> \in OpToRel(<, Nat)
  BY Zenon DEF OpToRel
<1>1. PICK x \in T : \A y \in T : ~(<<y, x>> \in OpToRel(<, Nat))
  BY NatLessThanWellFounded, WFMin
<1> DEFINE R == OpToRel(<, Nat)
<1>3. /\ \A u, v \in Nat : v < u => <<v, u>> \in R
      /\ \A y \in T : ~(<<y, x>> \in R)
  BY <1>0, <1>1
<1> HIDE DEF R
<1>4. \A y \in T : ~(y < x)
  BY <1>3
<1>2. \E z \in T : \A y \in T : z <= y
  BY <1>4
<1> QED
  BY <1>2 DEF Min

\* One with a bound has a greatest one.
LEMMA GreatestOf ==
  ASSUME NEW T \in SUBSET Nat, T # {}, NEW b \in Nat, \A y \in T : y <= b
  PROVE  /\ Max(T) \in T /\ \A y \in T : y <= Max(T)
<1> DEFINE U == {b - y : y \in T}
<1>1. U \in SUBSET Nat /\ U # {}
  <2>1. \A y \in T : b - y \in Nat
    OBVIOUS
  <2>2. \E y \in T : b - y \in U
    OBVIOUS
  <2> QED BY <2>1, <2>2
<1>2. Min(U) \in U /\ \A u \in U : Min(U) <= u
  BY <1>1, LeastOf
<1>3. \E x \in T : \A y \in T : x >= y
  <2>1. PICK x \in T : Min(U) = b - x
    BY <1>2
  <2>2. ASSUME NEW y \in T PROVE x >= y
    BY <1>2, <2>1
  <2> QED BY <2>2
<1> QED
  BY <1>3 DEF Max

\* Finitely many numbers have a bound.
LEMMA BoundOf ==
  ASSUME NEW n \in Nat, NEW f \in [0..(n - 1) -> Nat]
  PROVE  \E b \in Nat : \A i \in 0..(n - 1) : f[i] <= b
<1> DEFINE Bounded(m) == \E b \in Nat : \A i \in 0..n : i < m => f[i] <= b
           T == {m \in 0..n : ~Bounded(m)}
<1>1. ASSUME T # {} PROVE FALSE
  <2>1. T \in SUBSET Nat
    OBVIOUS
  <2>2. PICK m \in T : \A k \in T : m <= k
    BY <1>1, <2>1, LeastOf
  <2>3. m \in 0..n /\ ~Bounded(m)
    BY <2>2
  <2>4. Bounded(0)
    <3>1. \A i \in 0..n : ~(i < 0)
      OBVIOUS
    <3>2. 0 \in Nat
      OBVIOUS
    <3> QED BY <3>1, <3>2
  <2>5. m # 0
    BY <2>3, <2>4
  <2>6. m - 1 \in 0..n /\ ~(m <= m - 1)
    BY <2>3, <2>5
  <2>7. Bounded(m - 1)
    <3> HIDE DEF Bounded
    <3>1. m - 1 \notin T
      <4> HIDE DEF T
      <4> QED BY <2>2, <2>6
    <3> QED BY <2>6, <3>1
  <2>8. PICK b \in Nat : \A i \in 0..n : i < m - 1 => f[i] <= b
    BY <2>7
  <2>9. m - 1 \in 0..(n - 1)
    BY <2>3, <2>5
  <2>10. f[m - 1] \in Nat
    BY <2>9
  <2>11. PICK c \in Nat : b <= c /\ f[m - 1] <= c
    BY <2>8, <2>10
  <2>12. ASSUME NEW i \in 0..n, i < m PROVE f[i] <= c
    <3>1. i \in 0..(n - 1)
      BY <2>3, <2>12
    <3>2. f[i] \in Nat
      BY <3>1
    <3>3. i = m - 1 \/ i < m - 1
      BY <2>3, <2>12
    <3>4. CASE i = m - 1
      BY <2>11, <3>4
    <3>5. CASE i < m - 1
      BY <2>8, <2>11, <3>2, <3>5
    <3> QED BY <3>3, <3>4, <3>5
  <2>13. Bounded(m)
    BY <2>12
  <2> QED BY <2>3, <2>13
<1>2. Bounded(n)
  <2> HIDE DEF Bounded
  <2>1. n \in 0..n
    OBVIOUS
  <2> QED BY <1>1, <2>1
<1> QED
  BY <1>2

-----------------------------------------------------------------------------
(* The growing arrays *)

Value == Nat \cup Function \cup {Null, Garbage}

\* An array with memory for c values.
Sized(a, c) == a \in [data : [0..(c - 1) -> Value], size : 0..c, capacity : {c}]

ArrayOf(a) == \E c \in Nat : Sized(a, c)

\* dynarray() has no memory.
LEMMA EmptyArray == ArrayOf(Empty) /\ Empty.size = 0
<1>1. Empty.size = 0
  BY DEF Empty
<1>2. Sized(Empty, 0)
  <2>1. 0..(0 - 1) = {}
    OBVIOUS
  <2> QED BY <2>1 DEF Sized, Empty
<1> QED
  BY <1>1, <1>2 DEF ArrayOf

\* realloc() keeps what is there.
LEMMA GrownArray ==
  ASSUME NEW c \in Nat, NEW a, Sized(a, c), NEW d \in Nat, d > c
  PROVE  /\ Sized(Grown(a, d), d) /\ Grown(a, d).size = a.size
         /\ \A i \in 0..(a.size - 1) : Grown(a, d).data[i] = a.data[i]
<1>1. a.size \in 0..c /\ a.capacity = c /\ a.data \in [0..(c - 1) -> Value]
  BY DEF Sized
<1>2. Garbage \in Value
  BY DEF Value
<1>3. [i \in 0..(d - 1) |-> IF i < a.capacity THEN a.data[i] ELSE Garbage]
        \in [0..(d - 1) -> Value]
  BY <1>1, <1>2
<1>4. Sized(Grown(a, d), d)
  BY <1>1, <1>3 DEF Sized, Grown
<1>5. Grown(a, d).size = a.size
  BY DEF Grown
<1>6. ASSUME NEW i \in 0..(a.size - 1)
      PROVE  Grown(a, d).data[i] = a.data[i]
  <2>1. i \in 0..(d - 1) /\ i < a.capacity
    BY <1>1
  <2> QED BY <2>1 DEF Grown
<1> QED
  BY <1>4, <1>5, <1>6

\* A value is stored behind the others.
LEMMA PutArray ==
  ASSUME NEW c \in Nat, NEW a, Sized(a, c), a.size < c, NEW v \in Value
  PROVE  /\ Sized(Put(a, v), c) /\ Put(a, v).size = a.size + 1
         /\ \A i \in 0..(a.size - 1) : Put(a, v).data[i] = a.data[i]
         /\ Put(a, v).data[a.size] = v
<1>1. a.size \in 0..c /\ a.data \in [0..(c - 1) -> Value] /\ a.size \in 0..(c - 1)
  BY DEF Sized
<1> DEFINE new == [a.data EXCEPT ![a.size] = v]
<1>2. new \in [0..(c - 1) -> Value] /\ a.size + 1 \in 0..c
  BY <1>1
<1>3. Put(a, v) = [a EXCEPT !.data = new, !.size = a.size + 1]
  BY DEF Put
<1>4. /\ \A i \in 0..(a.size - 1) : new[i] = a.data[i]
      /\ new[a.size] = v
  BY <1>1
<1> HIDE DEF new
<1>5. /\ Sized(Put(a, v), c) /\ Put(a, v).size = a.size + 1
      /\ Put(a, v).data = new
  BY <1>2, <1>3 DEF Sized
<1> QED
  BY <1>4, <1>5

\* What add() and __mark_supported() do.
AddsTo(a, b, v) ==
  /\ ArrayOf(b) /\ b.size = a.size + 1
  /\ \A i \in 0..(a.size - 1) : b.data[i] = a.data[i]
  /\ b.data[a.size] = v

\* add() keeps what the array has, whether it grows by a chunk or not.
LEMMA AddedArray ==
  ASSUME NEW a, ArrayOf(a), NEW v \in Value
  PROVE  AddsTo(a, Added(a, v), v) /\ a.size \in Nat
<1>1. PICK c \in Nat : Sized(a, c)
  BY DEF ArrayOf
<1>2. a.size \in 0..c /\ a.capacity = c
  BY <1>1 DEF Sized
<1>3. CASE IsFull(a)
  <2> DEFINE d == c + Chunk
             b == Grown(a, d)
  <2>1. d \in Nat /\ d > c
    BY ArrayAssumption
  <2>2. Added(a, v) = Put(b, v)
    BY <1>2, <1>3 DEF Added
  <2> HIDE DEF d
  <2>3. /\ Sized(b, d) /\ b.size = a.size
        /\ \A i \in 0..(a.size - 1) : b.data[i] = a.data[i]
    BY <1>1, <2>1, GrownArray
  <2> HIDE DEF b
  <2>4. b.size < d
    BY <1>2, <2>1, <2>3
  <2>5. /\ Sized(Put(b, v), d) /\ Put(b, v).size = b.size + 1
        /\ \A i \in 0..(b.size - 1) : Put(b, v).data[i] = b.data[i]
        /\ Put(b, v).data[b.size] = v
    BY <2>1, <2>3, <2>4, PutArray
  <2> QED BY <1>2, <2>1, <2>2, <2>3, <2>5 DEF AddsTo, ArrayOf
<1>4. CASE ~IsFull(a)
  <2>1. Added(a, v) = Put(a, v) /\ a.size < c
    BY <1>2, <1>4 DEF Added, IsFull
  <2>2. /\ Sized(Put(a, v), c) /\ Put(a, v).size = a.size + 1
        /\ \A i \in 0..(a.size - 1) : Put(a, v).data[i] = a.data[i]
        /\ Put(a, v).data[a.size] = v
    BY <1>1, <2>1, PutArray
  <2> QED BY <1>2, <2>1, <2>2 DEF AddsTo, ArrayOf
<1> QED
  BY <1>3, <1>4

\* So does __mark_supported(), which grows the array by half.
LEMMA MarkedArray ==
  ASSUME NEW a, ArrayOf(a), NEW v \in Value
  PROVE  AddsTo(a, Marked(a, v), v) /\ a.size \in Nat
<1>1. PICK c \in Nat : Sized(a, c)
  BY DEF ArrayOf
<1>2. a.size \in 0..c /\ a.capacity = c
  BY <1>1 DEF Sized
<1>3. CASE IsFull(a)
  <2> DEFINE half == c + c \div 2
             d == IF half < SupportMin THEN SupportMin ELSE half
             b == Grown(a, d)
  <2>1. d \in Nat /\ d > c
    BY ArrayAssumption
  <2>2. Marked(a, v) = Put(b, v)
    BY <1>2, <1>3 DEF Marked
  <2> HIDE DEF d
  <2>3. /\ Sized(b, d) /\ b.size = a.size
        /\ \A i \in 0..(a.size - 1) : b.data[i] = a.data[i]
    BY <1>1, <2>1, GrownArray
  <2> HIDE DEF b
  <2>4. b.size < d
    BY <1>2, <2>1, <2>3
  <2>5. /\ Sized(Put(b, v), d) /\ Put(b, v).size = b.size + 1
        /\ \A i \in 0..(b.size - 1) : Put(b, v).data[i] = b.data[i]
        /\ Put(b, v).data[b.size] = v
    BY <2>1, <2>3, <2>4, PutArray
  <2> QED BY <1>2, <2>1, <2>2, <2>3, <2>5 DEF AddsTo, ArrayOf
<1>4. CASE ~IsFull(a)
  <2>1. Marked(a, v) = Put(a, v) /\ a.size < c
    BY <1>2, <1>4 DEF Marked, IsFull
  <2>2. /\ Sized(Put(a, v), c) /\ Put(a, v).size = a.size + 1
        /\ \A i \in 0..(a.size - 1) : Put(a, v).data[i] = a.data[i]
        /\ Put(a, v).data[a.size] = v
    BY <1>1, <2>1, PutArray
  <2> QED BY <1>2, <2>1, <2>2 DEF AddsTo, ArrayOf
<1> QED
  BY <1>3, <1>4

\* remove() undoes the add() of a value that was not there.
LEMMA RemovedArray ==
  ASSUME NEW a, ArrayOf(a), NEW v \in Value, ~Holds(a, v)
  PROVE  LET b == Removed(Added(a, v), v) IN
         /\ ArrayOf(b) /\ b.size = a.size
         /\ \A i \in 0..(a.size - 1) : b.data[i] = a.data[i]
<1> DEFINE d == Added(a, v)
           b == Removed(d, v)
<1>1. AddsTo(a, d, v) /\ a.size \in Nat
  BY AddedArray
<1> HIDE DEF d
<1>2. \A i \in 0..(d.size - 1) : d.data[i] = v <=> i = a.size
  <2> SUFFICES ASSUME NEW i \in 0..a.size PROVE d.data[i] = v <=> i = a.size
    BY <1>1 DEF AddsTo
  <2>1. CASE i = a.size
    BY <1>1, <2>1 DEF AddsTo
  <2>2. CASE i # a.size
    <3>1. i \in 0..(a.size - 1)
      BY <1>1, <2>2
    <3>2. a.data[i] # v /\ d.data[i] = a.data[i]
      BY <1>1, <3>1 DEF AddsTo, Holds
    <3> QED BY <2>2, <3>2
  <2> QED BY <2>1, <2>2
<1>3. a.size \in 0..(d.size - 1) /\ d.size = a.size + 1
  BY <1>1 DEF AddsTo
<1>4. Holds(d, v)
  BY <1>2, <1>3 DEF Holds
<1> DEFINE first == CHOOSE i \in 0..(d.size - 1) :
                      d.data[i] = v /\ \A j \in 0..(i - 1) : d.data[j] # v
<1>5. first = a.size
  <2>1. \A j \in 0..(a.size - 1) : d.data[j] # v
    BY <1>1, <1>2, <1>3
  <2>2. \E i \in 0..(d.size - 1) :
          d.data[i] = v /\ \A j \in 0..(i - 1) : d.data[j] # v
    BY <1>2, <1>3, <2>1
  <2>3. first \in 0..(d.size - 1) /\ d.data[first] = v
    BY <2>2
  <2> QED BY <1>2, <2>3
<1>6. b = RemovedAt(d, a.size)
  BY <1>4, <1>5 DEF Removed
<1>7. PICK c \in Nat : Sized(d, c)
  BY <1>1 DEF AddsTo, ArrayOf
<1>8. d.size - 1 = a.size /\ d.size \in 0..c /\ d.data \in [0..(c - 1) -> Value]
  BY <1>1, <1>3, <1>7 DEF Sized
<1> DEFINE last == d.size - 1
           after == [i \in DOMAIN d.data |->
                       CASE i = last -> Null
                         [] i \in a.size..(last - 1) -> d.data[i + 1]
                         [] OTHER -> d.data[i]]
<1>9. b = [d EXCEPT !.size = a.size, !.data = after]
  <2>1. RemovedAt(d, a.size) = [d EXCEPT !.size = last, !.data = after]
    BY DEF RemovedAt
  <2> HIDE DEF b, after
  <2> QED BY <1>6, <1>8, <2>1
<1>10. \A i \in 0..(c - 1) :
         after[i] = IF i = a.size THEN Null ELSE d.data[i]
  BY <1>1, <1>8
<1>11. after \in [0..(c - 1) -> Value]
  <2>1. ASSUME NEW i \in DOMAIN d.data
        PROVE  (CASE i = last -> Null
                  [] i \in a.size..(last - 1) -> d.data[i + 1]
                  [] OTHER -> d.data[i]) \in Value
    BY <1>1, <1>8, <2>1 DEF Value
  <2>2. after \in [DOMAIN d.data -> Value]
    BY <2>1
  <2> HIDE DEF after
  <2> QED BY <1>8, <2>2
<1> HIDE DEF b, after
<1>12. Sized(b, c) /\ b.size = a.size /\ b.data = after
  <2>1. a.size \in 0..c
    BY <1>1, <1>8
  <2> QED BY <1>7, <1>9, <1>11, <2>1 DEF Sized
<1>13. \A i \in 0..(a.size - 1) : b.data[i] = a.data[i]
  <2> SUFFICES ASSUME NEW i \in 0..(a.size - 1) PROVE after[i] = a.data[i]
    BY <1>12
  <2>1. i \in 0..(c - 1) /\ i # a.size
    BY <1>1, <1>8
  <2> QED BY <1>1, <1>10, <2>1 DEF AddsTo
<1> QED
  BY <1>7, <1>12, <1>13 DEF ArrayOf, b, d

-----------------------------------------------------------------------------
(* The inductive invariant *)

Entries ==
  [key : Function \cup {Null}, cost : Nat \ {0}, rel : [top : Nat, cost : Nat]]
Kept == [key : Function \cup {Null}, cost : Nat \ {0}]
Index == 0..(stats.size - 1)

StatsTypeOK ==
  /\ ArrayOf(stats) /\ ArrayOf(support)
  /\ DOMAIN entry \in SUBSET (Nat \ {0}) /\ entry \in [DOMAIN entry -> Entries]
  /\ log \in Seq(Kept)

\* What comes after an entry that waits to be rated is not rated.
InOrder == \A i, j \in Index : Unrated(i) /\ i < j => At(j).rel = NoRate

\* The log tells of the entries.
LogKept ==
  /\ Len(log) = stats.size
  /\ \A i \in DOMAIN log : /\ At(i - 1).key = log[i].key
                           /\ At(i - 1).cost = log[i].cost

IInv == /\ StatsTypeOK /\ EntriesOwned /\ SupportKept
        /\ InOrder /\ LogKept /\ RatedInGroup

\* The list of entries has values at its indices.
LEMMA StatsSize ==
  ASSUME ArrayOf(stats)
  PROVE  stats.size \in Nat /\ \A i \in Index : stats.data[i] \in Value
<1>1. PICK c \in Nat : Sized(stats, c)
  BY DEF ArrayOf
<1> QED
  BY <1>1 DEF Sized, Index

\* There are as many entries as pointers to them.
LEMMA EntriesFinite ==
  ASSUME StatsTypeOK, EntriesOwned
  PROVE  IsFiniteSet(DOMAIN entry)
<1> DEFINE f == [i \in Index |-> stats.data[i]]
<1>1. f \in Surjection(Index, DOMAIN entry)
  BY DEF EntriesOwned, Index, Surjection
<1>2. IsFiniteSet(Index)
  <2>1. 0 \in Int /\ stats.size - 1 \in Int
    BY StatsSize DEF StatsTypeOK
  <2> QED BY <2>1, FS_Interval DEF Index
<1> QED
  BY <1>1, <1>2, FS_Surjection

\* malloc() returns a pointer that is not in use.
LEMMA FreshIsNew ==
  ASSUME StatsTypeOK, EntriesOwned
  PROVE  /\ Fresh \in Nat \ {0} /\ Fresh \notin DOMAIN entry /\ Fresh \in Value
         /\ ~Holds(stats, Fresh)
<1> DEFINE c == Cardinality(DOMAIN entry)
           T == 1..(c + 1) \ DOMAIN entry
<1>1. IsFiniteSet(DOMAIN entry) /\ c \in Nat
  BY EntriesFinite, FS_CardinalityType
<1>2. T # {}
  <2> SUFFICES ASSUME T = {} PROVE FALSE
    OBVIOUS
  <2>1. 1..(c + 1) \in SUBSET DOMAIN entry
    OBVIOUS
  <2>2. Cardinality(1..(c + 1)) <= c
    BY <1>1, <2>1, FS_Subset
  <2> HIDE DEF c
  <2>3. 1 \in Int /\ c + 1 \in Int /\ ~(1 > c + 1) /\ c + 1 - 1 + 1 = c + 1
    BY <1>1
  <2>4. Cardinality(1..(c + 1)) = c + 1
    BY <2>3, FS_Interval
  <2> QED BY <1>1, <2>2, <2>4
<1>3. T \in SUBSET Nat
  OBVIOUS
<1>4. Min(T) \in T
  BY <1>2, <1>3, LeastOf
<1>5. Fresh = Min(T)
  BY DEF Fresh
<1>6. Fresh \in Nat \ {0} /\ Fresh \notin DOMAIN entry
  BY <1>1, <1>4, <1>5
<1>7. ~Holds(stats, Fresh)
  BY <1>6 DEF EntriesOwned, Holds
<1> QED
  BY <1>6, <1>7 DEF Value

\* An entry is added.
LEMMA OneMore ==
  ASSUME StatsTypeOK, EntriesOwned, stats' = Added(stats, Fresh),
         DOMAIN entry' = DOMAIN entry \cup {Fresh}
  PROVE  /\ ArrayOf(stats') /\ EntriesOwned'
         /\ stats'.size = stats.size + 1 /\ stats.size \in Nat
         /\ \A i \in Index : /\ stats'.data[i] = stats.data[i]
                             /\ stats.data[i] \in DOMAIN entry
         /\ stats'.data[stats.size] = Fresh
<1>1. Fresh \notin DOMAIN entry /\ Fresh \in Value
  BY FreshIsNew
<1>2. AddsTo(stats, stats', Fresh) /\ stats.size \in Nat
  BY <1>1, AddedArray DEF StatsTypeOK
<1>3. /\ ArrayOf(stats') /\ stats'.size = stats.size + 1
      /\ \A i \in Index : stats'.data[i] = stats.data[i]
      /\ stats'.data[stats.size] = Fresh
  BY <1>2 DEF AddsTo, Index
<1>4. /\ \A i \in Index : stats.data[i] \in DOMAIN entry
      /\ \A a \in DOMAIN entry : \E i \in Index : a = stats.data[i]
      /\ \A i, j \in Index : stats.data[i] = stats.data[j] => i = j
  BY DEF EntriesOwned, Index
<1>5. Index' = Index \cup {stats.size}
  BY <1>2, <1>3 DEF Index
<1>6. PICK c \in Nat : Sized(stats', c)
  BY <1>3 DEF ArrayOf
<1>7. stats'.size <= stats'.capacity
  BY <1>6 DEF Sized
<1>8. DOMAIN entry' = {stats'.data[i] : i \in Index'}
  BY <1>3, <1>4, <1>5
<1>9. \A i, j \in Index' : stats'.data[i] = stats'.data[j] => i = j
  BY <1>1, <1>3, <1>4, <1>5
<1>10. EntriesOwned'
  BY <1>7, <1>8, <1>9 DEF EntriesOwned, Index
<1> QED
  BY <1>2, <1>3, <1>4, <1>10

-----------------------------------------------------------------------------
(* Groups *)

\* The entries of a log in the group of one of them.
Near(l, i) ==
  {j \in DOMAIN l : /\ l[j].key # Null
                    /\ \A k \in DOMAIN l :
                         (k > i /\ k < j) \/ (k > j /\ k < i) => l[k].key # Null}

\* The group is closed.
Closed(l, i) == \E k \in DOMAIN l : k > i /\ l[k].key = Null

CostsNear(l, i) == {l[j].cost : j \in Near(l, i)}

\* The rate of an entry.
Rate(l, i) ==
  IF l[i].key # Null /\ Closed(l, i)
  THEN [top |-> Max(CostsNear(l, i)), cost |-> l[i].cost] ELSE NoRate

\* The least and the greatest of two indices.
LEMMA PairOf ==
  ASSUME NEW i \in Nat, NEW j \in Nat
  PROVE  /\ Min({i, j}) = IF i <= j THEN i ELSE j
         /\ Max({i, j}) = IF i <= j THEN j ELSE i
<1>1. {i, j} \in SUBSET Nat /\ {i, j} # {}
  OBVIOUS
<1>2. Min({i, j}) \in {i, j} /\ \A y \in {i, j} : Min({i, j}) <= y
  BY <1>1, LeastOf
<1>3. i + j \in Nat /\ \A y \in {i, j} : y <= i + j
  OBVIOUS
<1>4. Max({i, j}) \in {i, j} /\ \A y \in {i, j} : y <= Max({i, j})
  BY <1>1, <1>3, GreatestOf
<1> QED
  BY <1>2, <1>4

\* The property in these terms.
LEMMA RatedIs ==
  /\ log \in Seq(Kept) =>
       (RatedInGroup <=> (~cut => \A i \in DOMAIN log : At(i - 1).rel = Rate(log, i)))
  /\ log' \in Seq(Kept) =>
       (RatedInGroup' <=>
          (~cut' => \A i \in DOMAIN log' :
                      entry'[stats'.data[i - 1]].rel = Rate(log', i)))
<1>1. ASSUME log \in Seq(Kept)
      PROVE  \A i \in DOMAIN log : GroupOf(i) = Near(log, i)
  <2>1. DOMAIN log \in SUBSET Nat
    BY <1>1
  <2> QED BY <2>1, PairOf DEF GroupOf, Near
<1>2. ASSUME log' \in Seq(Kept)
      PROVE  \A i \in DOMAIN log' : GroupOf(i)' = Near(log', i)
  <2>1. DOMAIN log' \in SUBSET Nat
    BY <1>2
  <2> QED BY <2>1, PairOf DEF GroupOf, Near
<1> QED
  BY <1>1, <1>2 DEF RatedInGroup, Rate, Closed, CostsNear, At


\* A group stays what it is when a separator follows, or anything after it is
\* closed.
LEMMA NearAppended ==
  ASSUME NEW l \in Seq(Kept), NEW e \in Kept, NEW i \in 1..Len(l),
         e.key = Null \/ Closed(l, i)
  PROVE  CostsNear(Append(l, e), i) = CostsNear(l, i)
<1> DEFINE m == Append(l, e)
<1>1. /\ Len(l) \in Nat /\ DOMAIN l = 1..Len(l) /\ DOMAIN m = 1..(Len(l) + 1)
      /\ \A k \in 1..Len(l) : m[k] = l[k]
      /\ m[Len(l) + 1] = e
  BY AppendProperties, LenProperties
<1> HIDE DEF m
<1>2. ASSUME NEW j \in Near(l, i) PROVE j \in Near(m, i)
  <2>1. /\ j \in 1..Len(l) /\ m[j].key # Null
    BY <1>1 DEF Near
  <2>2. ASSUME NEW k \in 1..(Len(l) + 1), (k > i /\ k < j) \/ (k > j /\ k < i)
        PROVE  m[k].key # Null
    <3>1. k \in 1..Len(l)
      BY <1>1, <2>1, <2>2
    <3> QED BY <1>1, <2>2, <3>1 DEF Near
  <2> QED BY <1>1, <2>1, <2>2 DEF Near
<1>3. ASSUME NEW j \in Near(m, i) PROVE j \in Near(l, i)
  <2>1. j \in 1..(Len(l) + 1) /\ m[j].key # Null
    BY <1>1 DEF Near
  <2>2. j \in 1..Len(l)
    <3> SUFFICES ASSUME j = Len(l) + 1 PROVE FALSE
      BY <1>1, <2>1
    <3>1. e.key # Null
      BY <1>1, <2>1
    <3>2. PICK k \in 1..Len(l) : k > i /\ l[k].key = Null
      BY <1>1, <3>1 DEF Closed
    <3>3. k \in 1..(Len(l) + 1) /\ k < j /\ m[k].key = Null
      BY <1>1, <3>2
    <3> QED BY <1>1, <3>2, <3>3 DEF Near
  <2>3. ASSUME NEW k \in 1..Len(l), (k > i /\ k < j) \/ (k > j /\ k < i)
        PROVE  l[k].key # Null
    BY <1>1, <2>3 DEF Near
  <2> QED BY <1>1, <2>1, <2>2, <2>3 DEF Near
<1>4. Near(m, i) = Near(l, i)
  BY <1>2, <1>3
<1>5. \A j \in Near(l, i) : m[j] = l[j]
  BY <1>1 DEF Near
<1> QED
  BY <1>4, <1>5 DEF CostsNear, m

\* Nothing changes for an entry of a closed group, or for a separator.
LEMMA RateStays ==
  ASSUME NEW l \in Seq(Kept), NEW e \in Kept, NEW i \in 1..Len(l),
         e.key # Null \/ l[i].key = Null \/ Closed(l, i)
  PROVE  Rate(Append(l, e), i) = Rate(l, i)
<1> DEFINE m == Append(l, e)
<1>1. /\ Len(l) \in Nat /\ DOMAIN l = 1..Len(l) /\ DOMAIN m = 1..(Len(l) + 1)
      /\ \A k \in 1..Len(l) : m[k] = l[k]
      /\ m[Len(l) + 1] = e
  BY AppendProperties, LenProperties
<1>2. CASE Closed(l, i)
  <2>1. CostsNear(m, i) = CostsNear(l, i)
    BY <1>2, NearAppended
  <2> HIDE DEF m
  <2>2. Closed(m, i) /\ m[i] = l[i]
    BY <1>1, <1>2 DEF Closed
  <2> QED BY <1>2, <2>1, <2>2 DEF Rate, m
<1>3. CASE ~Closed(l, i)
  <2> HIDE DEF m
  <2>1. m[i] = l[i] /\ (Closed(m, i) => e.key = Null)
    BY <1>1, <1>3 DEF Closed
  <2> QED BY <1>3, <2>1 DEF Rate, m
<1> QED
  BY <1>2, <1>3

-----------------------------------------------------------------------------
(* Steps *)

\* A test starts without entries.
LEMMA StatsInitInv == StatsInit => IInv
<1> SUFFICES ASSUME StatsInit PROVE IInv
  OBVIOUS
<1>1. ArrayOf(stats) /\ ArrayOf(support) /\ stats.size = 0 /\ support.size = 0
  BY EmptyArray DEF StatsInit
<1>2. DOMAIN entry = {} /\ log = <<>> /\ marked = {}
  BY DEF StatsInit
<1>3. 0..(0 - 1) = {}
  OBVIOUS
<1>4. StatsTypeOK
  <2>1. entry \in [DOMAIN entry -> Entries]
    BY <1>2 DEF StatsInit
  <2> QED BY <1>1, <1>2, <2>1 DEF StatsTypeOK
<1>5. EntriesOwned /\ SupportKept
  BY <1>1, <1>2, <1>3 DEF StatsInit, Empty, EntriesOwned, SupportKept
<1>6. InOrder
  BY <1>1, <1>3 DEF InOrder, Index
<1>7. LogKept /\ RatedInGroup
  BY <1>1, <1>2 DEF LogKept, RatedInGroup
<1> QED
  BY <1>4, <1>5, <1>6, <1>7 DEF IInv

\* The list of entries stays, perhaps in other memory.
LEMMA EntriesStay ==
  ASSUME IInv, ArrayOf(stats'), stats'.size = stats.size,
         \A i \in Index : stats'.data[i] = stats.data[i],
         UNCHANGED <<entry, log, cut>>
  PROVE  /\ EntriesOwned' /\ InOrder' /\ LogKept' /\ RatedInGroup'
<1>1. stats.size \in Nat
  BY StatsSize DEF IInv, StatsTypeOK
<1>2. Index' = Index /\ \A i \in Index : At(i)' = At(i)
  BY DEF Index, At
<1>3. PICK c \in Nat : Sized(stats', c)
  BY DEF ArrayOf
<1>4. stats'.size <= stats'.capacity
  BY <1>3 DEF Sized
<1>5. EntriesOwned'
  BY <1>2, <1>4 DEF IInv, EntriesOwned, Index
<1>6. InOrder'
  BY <1>2 DEF IInv, InOrder, Unrated
<1>7. \A i \in DOMAIN log : i - 1 \in Index
  BY <1>1, LenProperties DEF IInv, StatsTypeOK, LogKept, Index
<1>8. LogKept'
  BY <1>2, <1>7 DEF IInv, LogKept
<1>9. \A i \in DOMAIN log : entry'[stats'.data[i - 1]] = At(i - 1)
  BY <1>7 DEF At
<1>10. RatedInGroup'
  BY <1>9, RatedIs DEF IInv, StatsTypeOK
<1> QED
  BY <1>5, <1>6, <1>8, <1>10

\* The list of functions is not touched.
LEMMA SupportStays ==
  ASSUME IInv, UNCHANGED <<support, marked>>
  PROVE  ArrayOf(support') /\ SupportKept'
  BY DEF IInv, StatsTypeOK, SupportKept

\* A mark.
LEMMA MarkKeeps ==
  ASSUME IInv, NEW f \in Function, Mark(f)
  PROVE  IInv'
<1>1. AddsTo(support, support', f) /\ support.size \in Nat
  BY MarkedArray DEF IInv, StatsTypeOK, Mark, Value
<1>2. UNCHANGED <<stats, entry, log, cut>> /\ marked' = marked \cup {f}
  BY DEF Mark, memory
<1>3. PICK c \in Nat : Sized(support', c)
  BY <1>1 DEF AddsTo, ArrayOf
<1>4. SupportKept'
  <2>1. support'.size <= support'.capacity
    BY <1>3 DEF Sized
  <2>2. 0..(support'.size - 1) = 0..(support.size - 1) \cup {support.size}
    BY <1>1 DEF AddsTo
  <2>3. {support'.data[i] : i \in 0..(support'.size - 1)}
          = {support.data[i] : i \in 0..(support.size - 1)} \cup {f}
    BY <1>1, <2>2 DEF AddsTo
  <2> QED BY <1>2, <2>1, <2>3 DEF IInv, SupportKept
<1>5. StatsTypeOK'
  BY <1>1, <1>2 DEF IInv, StatsTypeOK, AddsTo
<1>6. EntriesOwned' /\ InOrder' /\ LogKept' /\ RatedInGroup'
  BY <1>2, <1>5, EntriesStay DEF StatsTypeOK
<1> QED
  BY <1>4, <1>5, <1>6 DEF IInv

\* An entry that is not completed leaves the list as it was.
LEMMA CutShortKeeps ==
  ASSUME IInv, NEW f \in Function, GatherCutShort(f)
  PROVE  IInv'
<1>1. Fresh \in Value /\ ~Holds(stats, Fresh) /\ ArrayOf(stats)
  BY FreshIsNew DEF IInv, StatsTypeOK
<1>2. stats' = Removed(Added(stats, Fresh), Fresh)
      /\ UNCHANGED <<entry, log, cut, support, marked>>
  BY DEF GatherCutShort, statsHistory
<1>3. /\ ArrayOf(stats') /\ stats'.size = stats.size
      /\ \A i \in Index : stats'.data[i] = stats.data[i]
  BY <1>1, <1>2, RemovedArray DEF Index
<1>4. EntriesOwned' /\ InOrder' /\ LogKept' /\ RatedInGroup'
  BY <1>2, <1>3, EntriesStay
<1>5. ArrayOf(support') /\ SupportKept'
  BY <1>2, SupportStays
<1>6. StatsTypeOK'
  BY <1>2, <1>3, <1>5 DEF IInv, StatsTypeOK
<1> QED
  BY <1>4, <1>5, <1>6 DEF IInv

\* The indices of the list and those of the log.
LEMMA Counted ==
  ASSUME IInv
  PROVE  /\ stats.size \in Nat /\ Len(log) = stats.size
         /\ DOMAIN log = 1..stats.size
         /\ \A i \in DOMAIN log : /\ i \in 1..stats.size /\ i - 1 \in Index
                                  /\ log[i] \in Kept
         /\ \A i \in Index : /\ i + 1 \in DOMAIN log /\ (i + 1) - 1 = i
                             /\ stats.data[i] \in DOMAIN entry
                             /\ At(i) \in Entries
<1>1. stats.size \in Nat /\ Len(log) = stats.size /\ log \in Seq(Kept)
  BY StatsSize DEF IInv, StatsTypeOK, LogKept
<1>2. DOMAIN log = 1..stats.size /\ \A i \in DOMAIN log : log[i] \in Kept
  BY <1>1, LenProperties, ElementOfSeq
<1>3. \A i \in Index : stats.data[i] \in DOMAIN entry
  BY DEF IInv, EntriesOwned, Index
<1>4. \A i \in Index : At(i) \in Entries
  BY <1>3 DEF IInv, StatsTypeOK, At
<1> QED
  BY <1>1, <1>2, <1>3, <1>4 DEF Index

\* A measurement is kept behind the others.
LEMMA GatherKeeps ==
  ASSUME IInv, NEW f \in Function, NEW cost \in Costs, Gather(f, cost)
  PROVE  IInv'
<1>0. PICK N \in Nat : N = stats.size
  BY Counted
<1> DEFINE e == [key |-> f, cost |-> cost]
           new == [key |-> f, cost |-> cost, rel |-> NoRate]
<1>1. /\ N \in Nat /\ Len(log) = N /\ DOMAIN log = 1..N /\ log \in Seq(Kept)
      /\ \A i \in DOMAIN log : i - 1 \in Index
      /\ \A i \in Index : i + 1 \in DOMAIN log /\ (i + 1) - 1 = i
  BY <1>0, Counted DEF IInv, StatsTypeOK
<1>2. /\ stats' = Added(stats, Fresh) /\ log' = Append(log, e)
      /\ UNCHANGED <<support, marked, cut>>
  BY DEF Gather
<1>3. /\ DOMAIN entry' = DOMAIN entry \cup {Fresh}
      /\ \A a \in DOMAIN entry' : entry'[a] = IF a = Fresh THEN new ELSE entry[a]
      /\ entry' \in [DOMAIN entry' -> {entry'[a] : a \in DOMAIN entry'}]
  BY DEF Gather
<1>4. Fresh \notin DOMAIN entry /\ Fresh \in Nat \ {0}
  BY FreshIsNew DEF IInv
<1>5. /\ ArrayOf(stats') /\ EntriesOwned' /\ stats'.size = N + 1
      /\ \A i \in Index : /\ stats'.data[i] = stats.data[i]
                          /\ stats.data[i] \in DOMAIN entry
      /\ stats'.data[N] = Fresh
  BY <1>0, <1>2, <1>3, OneMore DEF IInv
<1>6. e \in Kept /\ new \in Entries /\ f # Null
  BY StatsAssumption DEF Kept, Entries, NoRate
<1>7. /\ \A i \in Index : At(i)' = At(i)
      /\ At(N)' = new
      /\ Index' = Index \cup {N} /\ N \notin Index
  <2>1. \A i \in Index : stats.data[i] # Fresh /\ stats.data[i] \in DOMAIN entry'
    BY <1>3, <1>4, <1>5
  <2>2. Fresh \in DOMAIN entry'
    BY <1>3
  <2> HIDE DEF new
  <2>3. \A i \in Index : entry'[stats'.data[i]] = entry[stats.data[i]]
    BY <1>3, <1>5, <2>1
  <2>4. entry'[stats'.data[N]] = new
    BY <1>3, <1>5, <2>2
  <2>5. Index' = Index \cup {N} /\ N \notin Index
    BY <1>0, <1>1, <1>5 DEF Index
  <2> QED BY <2>3, <2>4, <2>5 DEF At
<1>8. /\ log' \in Seq(Kept) /\ Len(log') = N + 1 /\ DOMAIN log' = 1..(N + 1)
      /\ \A i \in 1..N : log'[i] = log[i]
      /\ log'[N + 1] = e
  <2> HIDE DEF e
  <2> QED BY <1>1, <1>2, <1>6, AppendProperties, LenProperties
<1>9. StatsTypeOK'
  <2>1. DOMAIN entry' \in SUBSET (Nat \ {0})
    BY <1>3, <1>4 DEF IInv, StatsTypeOK
  <2>2. \A a \in DOMAIN entry' : entry'[a] \in Entries
    <3> HIDE DEF new
    <3> QED BY <1>3, <1>6 DEF IInv, StatsTypeOK
  <2>3. entry' \in [DOMAIN entry' -> Entries]
    BY <1>3, <2>2
  <2>4. ArrayOf(support')
    BY <1>2, SupportStays
  <2> QED BY <1>5, <1>8, <2>1, <2>3, <2>4 DEF StatsTypeOK
<1>10. SupportKept'
  BY <1>2, SupportStays
<1>11. InOrder'
  <2> SUFFICES ASSUME NEW i \in Index', NEW j \in Index', Unrated(i)', i < j
               PROVE  At(j)'.rel = NoRate
    BY DEF InOrder
  <2>1. CASE j = N
    BY <1>7, <2>1
  <2>2. CASE j # N
    <3>1. i \in Index /\ j \in Index
      BY <1>1, <1>7, <2>2 DEF Index
    <3>2. Unrated(i)
      BY <1>7, <3>1 DEF Unrated
    <3> QED BY <1>7, <3>1, <3>2 DEF IInv, InOrder
  <2> QED BY <2>1, <2>2
<1>12. LogKept'
  <2> SUFFICES ASSUME NEW i \in 1..(N + 1)
               PROVE  /\ At(i - 1)'.key = log'[i].key
                      /\ At(i - 1)'.cost = log'[i].cost
    BY <1>5, <1>8 DEF LogKept
  <2>1. CASE i = N + 1
    <3>1. i - 1 = N
      BY <1>1, <2>1
    <3> QED BY <1>7, <1>8, <2>1, <3>1
  <2>2. CASE i # N + 1
    <3>0. i \in 1..N
      BY <2>2
    <3>1. i \in 1..N /\ i - 1 \in Index
      BY <1>1, <3>0
    <3> QED BY <1>1, <1>7, <1>8, <3>1 DEF IInv, LogKept
  <2> QED BY <2>1, <2>2
<1>13. RatedInGroup'
  <2> SUFFICES ASSUME ~cut, NEW i \in 1..(N + 1)
               PROVE  entry'[stats'.data[i - 1]].rel = Rate(log', i)
    BY <1>2, <1>8, RatedIs
  <2>1. CASE i = N + 1
    <3>1. ~Closed(log', i)
      BY <1>1, <1>8, <2>1 DEF Closed
    <3>2. i - 1 = N
      BY <1>1, <2>1
    <3> QED BY <1>7, <3>1, <3>2 DEF Rate, At
  <2>2. CASE i # N + 1
    <3>0. i \in 1..N
      BY <2>2
    <3>1. i \in 1..N /\ i - 1 \in Index
      BY <1>1, <3>0
    <3>2. Rate(log', i) = Rate(log, i)
      <4>1. e.key # Null
        BY <1>6
      <4> HIDE DEF e
      <4> QED BY <1>1, <1>2, <1>6, <3>1, <4>1, RateStays
    <3>3. At(i - 1).rel = Rate(log, i)
      BY <1>1, <3>1, RatedIs DEF IInv
    <3> QED BY <1>7, <3>1, <3>2, <3>3 DEF At
  <2> QED BY <2>1, <2>2
<1> QED
  BY <1>5, <1>9, <1>10, <1>11, <1>12, <1>13 DEF IInv

\* The group goes on to the end of the list, and has all that waits to be rated.
LEMMA GroupIs ==
  ASSUME IInv
  PROVE  /\ Group \in SUBSET Index
         /\ \A i \in Index : Unrated(i) => i \in Group
         /\ \A i \in Group : /\ At(i).rel = NoRate
                             /\ \A j \in Index : j > i => j \in Group
         /\ Group # {} => \E i \in Group : Unrated(i) /\ \A j \in Group : i <= j
<1> DEFINE first == {i \in Index : Unrated(i)}
<1>1. first \in SUBSET Nat /\ stats.size \in Nat
  BY Counted DEF Index
<1>2. Group = IF first = {} THEN {} ELSE Min(first)..(stats.size - 1)
  BY DEF Group, Index
<1>3. CASE first = {}
  BY <1>2, <1>3
<1>4. CASE first # {}
  <2>1. PICK m \in first : m = Min(first) /\ \A i \in first : m <= i
    BY <1>1, <1>4, LeastOf
  <2>2. /\ Group = m..(stats.size - 1) /\ m \in Index /\ Unrated(m)
        /\ \A i \in Index : Unrated(i) => m <= i
    BY <1>2, <1>4, <2>1
  <2>3. \A i \in Index : i \in Group <=> m <= i
    BY <1>1, <2>2 DEF Index
  <2>4. Group \in SUBSET Index
    BY <1>1, <2>2 DEF Index
  <2>5. \A i \in Index : i > m => At(i).rel = NoRate
    BY <1>1, <2>2 DEF IInv, InOrder, Index
  <2>6. At(m).rel = NoRate
    BY <2>2 DEF Unrated
  <2>7. ASSUME NEW i \in Group
        PROVE  At(i).rel = NoRate /\ \A j \in Index : j > i => j \in Group
    <3>1. i \in Index /\ m <= i
      BY <2>3, <2>4
    <3>2. i = m \/ i > m
      BY <1>1, <2>2, <3>1 DEF Index
    <3>3. \A j \in Index : j > i => m <= j
      BY <1>1, <2>2, <3>1 DEF Index
    <3> QED BY <2>3, <2>5, <2>6, <3>1, <3>2, <3>3
  <2>8. m \in Group /\ \A j \in Group : m <= j
    <3>1. m <= m
      BY <2>2 DEF Index
    <3> QED BY <2>2, <2>3, <2>4, <3>1
  <2> QED BY <2>2, <2>3, <2>4, <2>7, <2>8
<1> QED
  BY <1>3, <1>4

\* The highest cost of the group
Top == Max({At(i).cost : i \in Group} \cup {0})

\* It is the highest: the zero that the loop starts with is below every cost.
LEMMA TopOf ==
  ASSUME IInv
  PROVE  /\ Top \in Nat
         /\ Group # {} => Top = Max({At(i).cost : i \in Group})
<1> DEFINE C == {At(i).cost : i \in Group}
           D == C \cup {0}
           f == [i \in 0..(stats.size - 1) |-> At(i).cost]
<1>1. /\ Group \in SUBSET Index /\ stats.size \in Nat
      /\ \A i \in Index : At(i).cost \in Nat
  BY GroupIs, Counted DEF Entries
<1>2. f \in [0..(stats.size - 1) -> Nat]
  BY <1>1 DEF Index
<1>3. PICK b \in Nat : \A i \in Index : At(i).cost <= b
  <2>1. PICK b \in Nat : \A i \in 0..(stats.size - 1) : f[i] <= b
    BY <1>1, <1>2, BoundOf
  <2> QED BY <2>1 DEF Index
<1>4. D \in SUBSET Nat /\ D # {} /\ \A y \in D : y <= b
  BY <1>1, <1>3
<1>5. C \in SUBSET Nat /\ \A y \in C : y <= b
  BY <1>1, <1>3
<1>6. Top = Max(D)
  BY DEF Top
<1> HIDE DEF D
<1>7. Top \in D /\ \A y \in D : y <= Top
  BY <1>4, <1>6, GreatestOf
<1>8. Top \in Nat
  BY <1>4, <1>7
<1>9. ASSUME Group # {} PROVE Top = Max(C)
  <2>1. C # {}
    BY <1>9
  <2> HIDE DEF C
  <2>2. Max(C) \in C /\ \A y \in C : y <= Max(C)
    BY <1>5, <2>1, GreatestOf
  <2>3. Max(C) \in D /\ (Top \in C \/ Top = 0)
    BY <1>7, <2>2 DEF D
  <2>4. Max(C) <= Top /\ Max(C) \in Nat
    BY <1>5, <1>7, <2>2, <2>3
  <2>5. Top <= Max(C)
    BY <1>8, <2>2, <2>3, <2>4
  <2> QED BY <1>8, <2>4, <2>5
<1> QED
  BY <1>8, <1>9

\* While no rating was cut short, the group has the measurements behind the
\* last separator.
LEMMA OpenGroup ==
  ASSUME IInv, ~cut, NEW i \in DOMAIN log
  PROVE  i - 1 \in Group <=> log[i].key # Null /\ ~Closed(log, i)
<1>1. /\ stats.size \in Nat /\ DOMAIN log = 1..stats.size
      /\ \A k \in DOMAIN log : /\ k - 1 \in Index /\ log[k].cost \in Nat \ {0}
                               /\ At(k - 1).key = log[k].key
                               /\ At(k - 1).rel = Rate(log, k)
  BY Counted, RatedIs DEF IInv, StatsTypeOK, LogKept, Kept
<1>2. \A k \in DOMAIN log : At(k - 1).rel = NoRate
                             => log[k].key = Null \/ ~Closed(log, k)
  <2> SUFFICES ASSUME NEW k \in DOMAIN log, At(k - 1).rel = NoRate,
                      log[k].key # Null, Closed(log, k)
               PROVE  FALSE
    OBVIOUS
  <2>1. Rate(log, k).cost = log[k].cost
    BY DEF Rate
  <2>2. NoRate.cost = 0
    BY DEF NoRate
  <2> QED BY <1>1, <2>1, <2>2
<1>3. ASSUME i - 1 \in Group PROVE log[i].key # Null /\ ~Closed(log, i)
  <2>1. PICK m \in Group : Unrated(m) /\ \A j \in Group : m <= j
    BY <1>3, GroupIs
  <2>2. m \in Index /\ m + 1 \in DOMAIN log /\ (m + 1) - 1 = m
    BY <2>1, GroupIs, Counted
  <2>3. At(m).rel = NoRate /\ At(m).key # Null
    BY <2>1 DEF Unrated
  <2>4. log[m + 1].key # Null /\ ~Closed(log, m + 1)
    BY <1>1, <1>2, <2>2, <2>3
  <2>5. \A k \in DOMAIN log : k > m + 1 => log[k].key # Null
    BY <2>4 DEF Closed
  <2>6. m <= i - 1 /\ m \in Nat /\ i \in Nat
    BY <1>1, <1>3, <2>1, <2>2 DEF Index
  <2>7. i = m + 1 \/ i > m + 1
    BY <2>6
  <2>8. log[i].key # Null
    BY <2>4, <2>5, <2>7
  <2>9. ASSUME NEW k \in DOMAIN log, k > i PROVE log[k].key # Null
    <3>1. k \in Nat
      BY <1>1
    <3>2. k > m + 1
      BY <2>6, <2>9, <3>1
    <3> QED BY <2>5, <3>2
  <2> QED BY <2>8, <2>9 DEF Closed
<1>4. ASSUME log[i].key # Null, ~Closed(log, i) PROVE i - 1 \in Group
  <2>1. Unrated(i - 1)
    BY <1>1, <1>4 DEF Rate, Unrated
  <2> QED BY <1>1, <2>1, GroupIs
<1> QED
  BY <1>3, <1>4

\* The costs of the group are those of the open group of the log.
LEMMA OpenCosts ==
  ASSUME IInv, ~cut, NEW i \in DOMAIN log, i - 1 \in Group
  PROVE  CostsNear(log, i) = {At(g).cost : g \in Group}
<1>1. /\ stats.size \in Nat /\ DOMAIN log = 1..stats.size
      /\ \A k \in DOMAIN log : /\ k - 1 \in Index
                               /\ At(k - 1).cost = log[k].cost
      /\ \A g \in Index : g + 1 \in DOMAIN log /\ (g + 1) - 1 = g
  BY Counted DEF IInv, LogKept
<1>2. log[i].key # Null /\ ~Closed(log, i)
  BY OpenGroup
<1>3. ASSUME NEW j \in Near(log, i) PROVE j \in DOMAIN log /\ j - 1 \in Group
  <2>1. j \in DOMAIN log /\ log[j].key # Null
    BY DEF Near
  <2>2. ASSUME NEW k \in DOMAIN log, k > j PROVE log[k].key # Null
    <3>1. k > i \/ k = i \/ (k > j /\ k < i)
      BY <1>1, <2>1, <2>2
    <3>2. CASE k > i
      BY <1>2, <3>2 DEF Closed
    <3>3. CASE k = i
      BY <1>2, <3>3
    <3>4. CASE k > j /\ k < i
      BY <3>4 DEF Near
    <3> QED BY <3>1, <3>2, <3>3, <3>4
  <2> QED BY <2>1, <2>2, OpenGroup DEF Closed
<1>4. ASSUME NEW g \in Group PROVE g + 1 \in Near(log, i)
  <2>1. g \in Index /\ g + 1 \in DOMAIN log /\ (g + 1) - 1 = g
    BY <1>1, GroupIs
  <2>2. log[g + 1].key # Null /\ ~Closed(log, g + 1)
    BY <2>1, OpenGroup
  <2> QED BY <1>2, <2>1, <2>2 DEF Near, Closed
<1>5. \A j \in Near(log, i) : \E g \in Group : log[j].cost = At(g).cost
  BY <1>1, <1>3
<1>6. \A g \in Group : \E j \in Near(log, i) : log[j].cost = At(g).cost
  <2> SUFFICES ASSUME NEW g \in Group
               PROVE  \E j \in Near(log, i) : log[j].cost = At(g).cost
    OBVIOUS
  <2>1. g + 1 \in Near(log, i) /\ log[g + 1].cost = At(g).cost
    BY <1>1, <1>4, GroupIs
  <2> QED BY <2>1
<1> QED
  BY <1>5, <1>6 DEF CostsNear

\* What a separator does to the entries.
LEMMA SeparateStep ==
  ASSUME IInv, NEW style \in Separators, Separate(style)
  PROVE  \E n \in Group \cup {stats.size} :
           /\ stats' = Added(stats, Fresh)
           /\ DOMAIN entry' = DOMAIN entry \cup {Fresh}
           /\ entry'[Fresh] = [key |-> Null, cost |-> style, rel |-> NoRate]
           /\ \A i \in Index :
                entry'[stats.data[i]] =
                  IF i \in Group /\ i < n
                  THEN [At(i) EXCEPT !.rel = [top |-> Top, cost |-> At(i).cost]]
                  ELSE At(i)
           /\ ~cut' => n = stats.size /\ ~cut
<1> DEFINE rated(n) == {stats.data[i] : i \in {j \in Group : j < n}}
           new == [key |-> Null, cost |-> style, rel |-> NoRate]
<1>1. PICK n \in Group \cup {stats.size} :
        /\ stats' = Added(stats, Fresh)
        /\ entry' = [a \in DOMAIN entry \cup {Fresh} |->
             CASE a = Fresh -> new
               [] a \in rated(n) ->
                    [entry[a] EXCEPT !.rel = [top |-> Top, cost |-> entry[a].cost]]
               [] OTHER -> entry[a]]
        /\ IF n = stats.size THEN UNCHANGED <<cut, failures>>
                             ELSE Fails /\ cut' = TRUE
  BY DEF Separate, Top
<1>2. Fresh \notin DOMAIN entry
  BY FreshIsNew DEF IInv
<1>3. ~cut' => n = stats.size /\ ~cut
  BY <1>1
<1>4. DOMAIN entry' = DOMAIN entry \cup {Fresh}
  BY <1>1
<1>5. entry'[Fresh] = new
  <2>1. Fresh \notin rated(n)
    BY <1>2, GroupIs, Counted
  <2> HIDE DEF new, rated
  <2> QED BY <1>1, <2>1
<1>6. ASSUME NEW i \in Index
      PROVE  entry'[stats.data[i]] =
               IF i \in Group /\ i < n
               THEN [At(i) EXCEPT !.rel = [top |-> Top, cost |-> At(i).cost]]
               ELSE At(i)
  <2>1. stats.data[i] \in DOMAIN entry /\ stats.data[i] # Fresh
    BY <1>2, Counted
  <2>2. stats.data[i] \in rated(n) <=> i \in Group /\ i < n
    <3>1. \A j \in Index : stats.data[i] = stats.data[j] => i = j
      BY DEF IInv, EntriesOwned, Index
    <3> QED BY <3>1, GroupIs
  <2> HIDE DEF new, rated
  <2> QED BY <1>1, <2>1, <2>2 DEF At
<1> QED
  BY <1>1, <1>3, <1>4, <1>5, <1>6

\* A separator closes the group before it.
LEMMA SeparateKeeps ==
  ASSUME IInv, NEW style \in Separators, Separate(style)
  PROVE  IInv'
<1>0. PICK N \in Nat : N = stats.size
  BY Counted
<1> DEFINE e == [key |-> Null, cost |-> style]
           new == [key |-> Null, cost |-> style, rel |-> NoRate]
           Took(i, n) == [At(i) EXCEPT !.rel = [top |-> Top, cost |-> At(i).cost]]
<1>1. /\ N \in Nat /\ Len(log) = N /\ DOMAIN log = 1..N /\ log \in Seq(Kept)
      /\ \A i \in DOMAIN log : i - 1 \in Index
      /\ \A i \in Index : /\ i + 1 \in DOMAIN log /\ (i + 1) - 1 = i
                          /\ At(i) \in Entries
  BY <1>0, Counted DEF IInv, StatsTypeOK
<1>2. /\ stats' = Added(stats, Fresh) /\ log' = Append(log, e)
      /\ UNCHANGED <<support, marked>>
  BY DEF Separate
<1>3. PICK n \in Group \cup {stats.size} :
        /\ DOMAIN entry' = DOMAIN entry \cup {Fresh}
        /\ entry'[Fresh] = new
        /\ \A i \in Index :
             entry'[stats.data[i]] =
               IF i \in Group /\ i < n
               THEN [At(i) EXCEPT !.rel = [top |-> Top, cost |-> At(i).cost]]
               ELSE At(i)
        /\ ~cut' => n = stats.size /\ ~cut
  BY SeparateStep
<1>4. Fresh \notin DOMAIN entry /\ Fresh \in Nat \ {0}
  BY FreshIsNew DEF IInv
<1>5. /\ ArrayOf(stats') /\ EntriesOwned' /\ stats'.size = N + 1
      /\ \A i \in Index : /\ stats'.data[i] = stats.data[i]
                          /\ stats.data[i] \in DOMAIN entry
      /\ stats'.data[N] = Fresh
  BY <1>0, <1>2, <1>3, OneMore DEF IInv
<1>6. e \in Kept /\ new \in Entries /\ Top \in Nat
  <2>1. style \in Nat \ {0}
    BY DEF Separators
  <2> QED BY <2>1, TopOf DEF Kept, Entries, NoRate
<1>7. Index' = Index \cup {N} /\ N \notin Index /\ At(N)' = new
  <2>1. Index' = Index \cup {N} /\ N \notin Index
    BY <1>0, <1>1, <1>5 DEF Index
  <2> HIDE DEF new
  <2> QED BY <1>3, <1>5, <2>1 DEF At
<1>8. ASSUME NEW i \in Index, i \in Group, i < n
      PROVE  /\ At(i)'.key = At(i).key /\ At(i)'.cost = At(i).cost
             /\ At(i)'.rel = [top |-> Top, cost |-> At(i).cost]
             /\ At(i)' \in Entries /\ At(i)'.rel # NoRate
  <2>1. At(i)' = [At(i) EXCEPT !.rel = [top |-> Top, cost |-> At(i).cost]]
    BY <1>3, <1>5, <1>8 DEF At
  <2>2. At(i) \in Entries /\ Top \in Nat
    BY <1>1, <1>6
  <2>3. [top |-> Top, cost |-> At(i).cost] \in [top : Nat, cost : Nat]
        /\ [top |-> Top, cost |-> At(i).cost].cost = At(i).cost
        /\ At(i).cost # 0
    BY <2>2 DEF Entries
  <2>4. [top |-> Top, cost |-> At(i).cost] # NoRate
    BY <2>3 DEF NoRate
  <2> QED BY <2>1, <2>2, <2>3, <2>4 DEF Entries
<1>9. ASSUME NEW i \in Index, i \notin Group \/ ~(i < n)
      PROVE  At(i)' = At(i)
  <2>1. entry'[stats'.data[i]] = At(i)
    BY <1>3, <1>5, <1>9
  <2> QED BY <2>1 DEF At
<1>10. \A i \in Index : /\ At(i)'.key = At(i).key /\ At(i)'.cost = At(i).cost
                        /\ At(i)' \in Entries
  BY <1>1, <1>8, <1>9
<1>11. /\ log' \in Seq(Kept) /\ Len(log') = N + 1 /\ DOMAIN log' = 1..(N + 1)
       /\ \A i \in 1..N : log'[i] = log[i]
       /\ log'[N + 1] = e
  <2> HIDE DEF e
  <2> QED BY <1>1, <1>2, <1>6, AppendProperties, LenProperties
<1>12. StatsTypeOK'
  <2>1. DOMAIN entry' \in SUBSET (Nat \ {0})
    BY <1>3, <1>4 DEF IInv, StatsTypeOK
  <2>2. \A a \in DOMAIN entry' : \E i \in Index' : a = stats'.data[i]
    BY <1>5 DEF EntriesOwned, Index
  <2>3. \A i \in Index' : At(i)' \in Entries
    <3> HIDE DEF new
    <3> QED BY <1>6, <1>7, <1>10
  <2>4. \A a \in DOMAIN entry' : entry'[a] \in Entries
    <3> SUFFICES ASSUME NEW a \in DOMAIN entry' PROVE entry'[a] \in Entries
      OBVIOUS
    <3>1. PICK i \in Index' : a = stats'.data[i]
      BY <2>2
    <3> QED BY <2>3, <3>1 DEF At
  <2>5. entry' \in [DOMAIN entry' -> Entries]
    <3>1. entry' = [a \in DOMAIN entry' |-> entry'[a]]
      BY DEF Separate
    <3> QED BY <2>4, <3>1
  <2>6. ArrayOf(support')
    BY <1>2, SupportStays
  <2> QED BY <1>5, <1>11, <2>1, <2>5, <2>6 DEF StatsTypeOK
<1>13. SupportKept'
  BY <1>2, SupportStays
<1>14. InOrder'
  <2> SUFFICES ASSUME NEW i \in Index', NEW j \in Index', Unrated(i)', i < j
               PROVE  At(j)'.rel = NoRate
    BY DEF InOrder
  <2>1. CASE j = N
    BY <1>7, <2>1
  <2>2. CASE j # N
    <3>1. i \in Index /\ j \in Index
      BY <1>0, <1>1, <1>7, <2>2 DEF Index
    <3>2. At(i)'.rel = NoRate /\ At(i)'.key # Null
      BY DEF Unrated
    <3>3. ~(i \in Group /\ i < n)
      BY <1>8, <3>1, <3>2
    <3>4. At(i)' = At(i)
      BY <1>9, <3>1, <3>3
    <3>5. i \in Group
      BY <3>1, <3>2, <3>4, GroupIs DEF Unrated
    <3>6. ~(i < n) /\ i \in Nat /\ j \in Nat /\ n \in Nat
      BY <1>0, <3>1, <3>3, <3>5, GroupIs DEF Index
    <3>7. ~(j < n)
      BY <3>6
    <3>8. At(j)' = At(j) /\ At(j).rel = NoRate
      BY <1>9, <3>1, <3>5, <3>7, GroupIs
    <3> QED BY <3>8
  <2> QED BY <2>1, <2>2
<1>15. LogKept'
  <2> SUFFICES ASSUME NEW i \in 1..(N + 1)
               PROVE  /\ At(i - 1)'.key = log'[i].key
                      /\ At(i - 1)'.cost = log'[i].cost
    BY <1>5, <1>11 DEF LogKept
  <2>1. CASE i = N + 1
    <3>1. i - 1 = N
      BY <1>1, <2>1
    <3> QED BY <1>7, <1>11, <2>1, <3>1
  <2>2. CASE i # N + 1
    <3>0. i \in 1..N
      BY <2>2
    <3>1. i \in 1..N /\ i - 1 \in Index
      BY <1>1, <3>0
    <3> QED BY <1>1, <1>10, <1>11, <3>1 DEF IInv, LogKept
  <2> QED BY <2>1, <2>2
<1>16. RatedInGroup'
  <2> SUFFICES ASSUME ~cut', NEW i \in 1..(N + 1)
               PROVE  At(i - 1)'.rel = Rate(log', i)
    BY <1>11, RatedIs DEF At
  <2>0. n = N /\ ~cut
    BY <1>0, <1>3
  <2>1. CASE i = N + 1
    <3>1. i - 1 = N /\ log'[i].key = Null
      BY <1>1, <1>11, <2>1
    <3> QED BY <1>7, <3>1 DEF Rate
  <2>2. CASE i # N + 1
    <3>0. i \in 1..N
      BY <2>2
    <3>1. i \in DOMAIN log /\ i - 1 \in Index
      BY <1>1, <3>0
    <3>2. i - 1 \in Group <=> log[i].key # Null /\ ~Closed(log, i)
      BY <2>0, <3>1, OpenGroup
    <3>3. CASE i - 1 \in Group
      <4>1. i - 1 < n
        BY <2>0, <3>0
      <4>2. At(i - 1)'.rel = [top |-> Top, cost |-> At(i - 1).cost]
        BY <1>8, <3>1, <3>3, <4>1
      <4>3. At(i - 1).cost = log[i].cost /\ log'[i] = log[i]
        BY <1>11, <3>0, <3>1 DEF IInv, LogKept
      <4>4. Closed(log', i)
        <5>1. N + 1 \in DOMAIN log' /\ N + 1 > i /\ log'[N + 1].key = Null
          BY <1>11, <3>0
        <5> QED BY <5>1 DEF Closed
      <4>5. CostsNear(log', i) = CostsNear(log, i)
        <5>1. e.key = Null
          OBVIOUS
        <5> HIDE DEF e
        <5> QED BY <1>1, <1>2, <1>6, <3>0, <5>1, NearAppended
      <4>6. Max(CostsNear(log', i)) = Top
        BY <2>0, <3>1, <3>3, <4>5, OpenCosts, TopOf
      <4> QED BY <3>2, <3>3, <4>2, <4>3, <4>4, <4>6 DEF Rate
    <3>4. CASE i - 1 \notin Group
      <4>1. At(i - 1)' = At(i - 1)
        BY <1>9, <3>1, <3>4
      <4>2. Rate(log', i) = Rate(log, i)
        <5> HIDE DEF e
        <5> QED BY <1>1, <1>2, <1>6, <3>0, <3>2, <3>4, RateStays
      <4>3. At(i - 1).rel = Rate(log, i)
        BY <1>1, <2>0, <3>1, RatedIs DEF IInv
      <4> QED BY <4>1, <4>2, <4>3
    <3> QED BY <3>3, <3>4
  <2> QED BY <2>1, <2>2
<1> QED
  BY <1>5, <1>12, <1>13, <1>14, <1>15, <1>16 DEF IInv

\* Nothing is left.
LEMMA FreeKeeps ==
  ASSUME IInv, Free
  PROVE  IInv'
<1>1. stats' = Empty /\ log' = <<>> /\ UNCHANGED <<support, marked>>
  BY DEF Free, FreeStats
<1>2. DOMAIN entry' = {} /\ entry' = [a \in {} |-> entry[a]]
  <2>1. entry' = [a \in DOMAIN entry \ {stats.data[i] : i \in Index} |-> entry[a]]
    BY DEF Free, FreeStats, DestroyStats, Index
  <2>2. DOMAIN entry \ {stats.data[i] : i \in Index} = {}
    BY DEF IInv, EntriesOwned, Index
  <2> QED BY <2>1, <2>2
<1>3. ArrayOf(stats') /\ stats'.size = 0
  BY <1>1, EmptyArray
<1>4. Index' = {}
  BY <1>3 DEF Index
<1>5. StatsTypeOK'
  <2>1. entry' \in [DOMAIN entry' -> Entries]
    BY <1>2
  <2>2. log' \in Seq(Kept) /\ ArrayOf(support')
    BY <1>1, SupportStays
  <2> QED BY <1>2, <1>3, <2>1, <2>2 DEF StatsTypeOK
<1>6. EntriesOwned'
  BY <1>1, <1>2, <1>4 DEF Empty, EntriesOwned, Index
<1>7. InOrder'
  BY <1>4 DEF InOrder
<1>8. DOMAIN log' = {} /\ Len(log') = 0
  BY <1>1
<1>9. LogKept' /\ RatedInGroup'
  BY <1>3, <1>8 DEF LogKept, RatedInGroup
<1>10. SupportKept'
  BY <1>1, SupportStays
<1> QED
  BY <1>5, <1>6, <1>7, <1>9, <1>10 DEF IInv

\* The other steps leave the entries and the list of functions alone.
LEMMA QuietKeeps ==
  ASSUME IInv, UNCHANGED <<memory, support, statsHistory>>
  PROVE  IInv'
<1>1. UNCHANGED <<stats, entry, support, log, marked, cut>>
  BY DEF memory, statsHistory
<1>2. ArrayOf(support') /\ SupportKept'
  BY <1>1, SupportStays
<1>3. StatsTypeOK'
  BY <1>1 DEF IInv, StatsTypeOK
<1>4. EntriesOwned' /\ InOrder' /\ LogKept' /\ RatedInGroup'
  BY <1>1, <1>3, EntriesStay DEF StatsTypeOK
<1> QED
  BY <1>2, <1>3, <1>4 DEF IInv

\* Every step keeps the invariant.
LEMMA StatsNextInv ==
  ASSUME IInv, [StatsNext]_statsVars
  PROVE  IInv'
<1>1. CASE UNCHANGED statsVars
  BY <1>1, QuietKeeps DEF statsVars
<1>2. CASE StatsNext
  <2>1. ASSUME NEW f \in Function, Mark(f) PROVE IInv'
    BY <2>1, MarkKeeps
  <2>2. ASSUME NEW f \in Function, MarkFails(f) PROVE IInv'
    BY <2>2, QuietKeeps DEF MarkFails
  <2>3. ASSUME NEW f \in Function, GatherCutShort(f) PROVE IInv'
    BY <2>3, CutShortKeeps
  <2>4. ASSUME NEW f \in Function, NEW cost \in Costs, Gather(f, cost) PROVE IInv'
    BY <2>4, GatherKeeps
  <2>5. ASSUME GatherFails PROVE IInv'
    BY <2>5, QuietKeeps DEF GatherFails
  <2>6. ASSUME NEW style \in Separators, Separate(style) PROVE IInv'
    BY <2>6, SeparateKeeps
  <2>7. ASSUME BodyReturns \/ BodyExits \/ DumpStats PROVE IInv'
    BY <2>7, QuietKeeps DEF BodyReturns, BodyExits, DumpStats
  <2>8. ASSUME Free PROVE IInv'
    BY <2>8, FreeKeeps
  <2>9. ASSUME StatsEnded PROVE IInv'
    BY <2>9, QuietKeeps DEF StatsEnded, statsVars
  <2> QED
    BY <1>2, <2>1, <2>2, <2>3, <2>4, <2>5, <2>6, <2>7, <2>8, <2>9 DEF StatsNext
<1> QED
  BY <1>1, <1>2

\* An entry that is rated is not in a group.
LEMMA StepRatesOnce ==
  ASSUME IInv, [StatsNext]_statsVars
  PROVE  [\A a \in DOMAIN entry : a \in DOMAIN entry' /\ entry[a].rel # NoRate
            => entry'[a].rel = entry[a].rel]_statsVars
<1> SUFFICES ASSUME StatsNext, NEW a \in DOMAIN entry, a \in DOMAIN entry',
                    entry[a].rel # NoRate
             PROVE  entry'[a].rel = entry[a].rel
  OBVIOUS
<1>1. ASSUME UNCHANGED entry PROVE entry'[a].rel = entry[a].rel
  BY <1>1
<1>2. ASSUME NEW f \in Function, NEW cost \in Costs, Gather(f, cost)
      PROVE  entry'[a].rel = entry[a].rel
  <2>1. a # Fresh
    BY FreshIsNew DEF IInv
  <2> QED BY <1>2, <2>1 DEF Gather
<1>3. ASSUME NEW style \in Separators, Separate(style)
      PROVE  entry'[a].rel = entry[a].rel
  <2>1. PICK i \in Index : a = stats.data[i]
    BY DEF IInv, EntriesOwned, Index
  <2>2. i \notin Group
    <3>1. At(i).rel # NoRate
      BY <2>1 DEF At
    <3> QED BY <3>1, GroupIs
  <2>3. entry'[stats.data[i]] = At(i)
    BY <1>3, <2>1, <2>2, SeparateStep
  <2> QED BY <2>1, <2>3 DEF At
<1>4. ASSUME Free PROVE entry'[a].rel = entry[a].rel
  BY <1>4 DEF Free, FreeStats, DestroyStats
<1> QED
  BY <1>1, <1>2, <1>3, <1>4 DEF StatsNext, Mark, MarkFails, GatherCutShort,
     GatherFails, BodyReturns, BodyExits, DumpStats, StatsEnded, statsVars, memory

-----------------------------------------------------------------------------
(* Theorems *)

\* The invariant holds in every state.
LEMMA StatsInvariant == StatsSpec => []IInv
<1>1. StatsInit => IInv
  BY StatsInitInv
<1>2. IInv /\ [StatsNext]_statsVars => IInv'
  BY StatsNextInv
<1> QED
  BY <1>1, <1>2, PTL DEF StatsSpec

\* Through failed allocations, the removal of an entry that was not completed
\* and two calls of free_stats(), the list of gather_stats() holds every entry
\* in memory once.
THEOREM EntriesOwnedHolds == StatsSpec => []EntriesOwned
<1>1. IInv => EntriesOwned
  BY DEF IInv
<1> QED
  BY <1>1, StatsInvariant, PTL

\* PTEST_SUPPORTED() finds what TEST_EXPORT() kept, through every growth of the
\* list.
THEOREM SupportKeptHolds == StatsSpec => []SupportKept
<1>1. IInv => SupportKept
  BY DEF IInv
<1> QED
  BY <1>1, StatsInvariant, PTL

\* A separator rates the measurements since the last one against the highest
\* of their own costs, unless memory ran out in the middle of a group.
THEOREM RatedInGroupHolds == StatsSpec => []RatedInGroup
<1>1. IInv => RatedInGroup
  BY DEF IInv
<1> QED
  BY <1>1, StatsInvariant, PTL

\* No separator rates an entry again, also after a group that memory ran out
\* in.
THEOREM RatedOnceHolds == StatsSpec => RatedOnce
<1>1. IInv /\ [StatsNext]_statsVars =>
        [\A a \in DOMAIN entry : a \in DOMAIN entry' /\ entry[a].rel # NoRate
            => entry'[a].rel = entry[a].rel]_statsVars
  BY StepRatesOnce
<1> QED
  BY <1>1, StatsInvariant, PTL DEF StatsSpec, RatedOnce

-----------------------------------------------------------------------------
(* The table *)

\* The lines that the i-th call of a log is for
LinesOf(l, i) ==
  IF l[i].key = Null THEN <<>>
  ELSE IF i > 1 /\ l[i - 1].key = Null THEN <<l[i - 1], l[i]>>
  ELSE <<l[i]>>
Lines(l) == [i \in DOMAIN l |-> LinesOf(l, i)]

\* FlattenSeq() works on the first i sequences.
FlatTo(f, s, i) == IF i = 1 THEN s[i] ELSE f[i - 1] \o s[i]
Flatter(f, s) == f = [i \in 1..Len(s) |-> FlatTo(f, s, i)]
Flat(s) == CHOOSE f : Flatter(f, s)

\* There is such a function.
LEMMA FlatExists ==
  ASSUME NEW s, NEW n \in Nat, Len(s) = n
  PROVE  \E f : Flatter(f, s)
<1> DEFINE Walked(m) == \E f : f = [i \in 1..m |-> FlatTo(f, s, i)]
           T == {m \in 0..n : ~Walked(m)}
<1>1. ASSUME T # {} PROVE FALSE
  <2>1. T \in SUBSET Nat
    OBVIOUS
  <2>2. PICK m \in T : \A k \in T : m <= k
    BY <1>1, <2>1, LeastOf
  <2>3. m \in 0..n /\ ~Walked(m)
    BY <2>2
  <2>4. Walked(0)
    <3> DEFINE f == [i \in 1..0 |-> <<>>]
    <3>1. 1..0 = {}
      OBVIOUS
    <3>2. f = [i \in 1..0 |-> FlatTo(f, s, i)]
      BY <3>1
    <3> HIDE DEF f
    <3> QED BY <3>2
  <2>5. m # 0
    BY <2>3, <2>4
  <2>6. m - 1 \in 0..n /\ ~(m <= m - 1)
    BY <2>3, <2>5
  <2>7. Walked(m - 1)
    <3> HIDE DEF Walked
    <3>1. m - 1 \notin T
      <4> HIDE DEF T
      <4> QED BY <2>2, <2>6
    <3> QED BY <2>6, <3>1
  <2>8. PICK f : f = [i \in 1..(m - 1) |-> FlatTo(f, s, i)]
    BY <2>7
  <2> DEFINE g == [i \in 1..m |-> IF i = m THEN FlatTo(f, s, m) ELSE f[i]]
  <2>9. \A i \in 1..m : FlatTo(g, s, i) = g[i]
    <3> TAKE i \in 1..m
    <3>0. m \in Nat /\ i \in Nat /\ i >= 1 /\ i <= m
      BY <2>3
    <3>1. i # 1 => i - 1 \in 1..m /\ i - 1 # m /\ g[i - 1] = f[i - 1]
      BY <3>0
    <3>2. FlatTo(g, s, i) = FlatTo(f, s, i)
      <4> HIDE DEF g
      <4> QED BY <3>1 DEF FlatTo
    <3>3. i # m => i \in 1..(m - 1)
      BY <3>0
    <3>4. i # m => f[i] = FlatTo(f, s, i)
      BY <2>8, <3>3, Zenon
    <3>5. g[i] = IF i = m THEN FlatTo(f, s, m) ELSE f[i]
      BY Zenon
    <3> HIDE DEF g
    <3> QED BY <3>2, <3>4, <3>5, Zenon
  <2>10. g = [i \in 1..m |-> FlatTo(g, s, i)]
    <3>1. g = [i \in 1..m |-> g[i]]
      BY Zenon
    <3> HIDE DEF g
    <3> QED BY <2>9, <3>1, Zenon
  <2> HIDE DEF g
  <2> QED BY <2>3, <2>10
<1>2. Walked(n)
  <2> HIDE DEF Walked
  <2>1. n \in 0..n
    OBVIOUS
  <2> QED BY <1>1, <2>1
<1> QED
  BY <1>2 DEF Flatter

\* FlattenSeq() joins one sequence after the other.
LEMMA FlatIs ==
  ASSUME NEW s, NEW n \in Nat, Len(s) = n
  PROVE  /\ n = 0 => FlattenSeq(s) = s
         /\ n # 0 => FlattenSeq(s) = Flat(s)[n]
         /\ \A i \in 1..n : Flat(s)[i] = FlatTo(Flat(s), s, i)
<1>1. Flatter(Flat(s), s)
  BY FlatExists DEF Flat
<1>2. \A i \in 1..n : Flat(s)[i] = FlatTo(Flat(s), s, i)
  <2> DEFINE f == Flat(s)
  <2>1. f = [i \in 1..n |-> FlatTo(f, s, i)]
    BY <1>1 DEF Flatter
  <2> HIDE DEF f
  <2>2. \A i \in 1..n : f[i] = FlatTo(f, s, i)
    BY <2>1, Zenon
  <2> QED BY <2>2 DEF f
<1>3. FlattenSeq(s) = IF Len(s) = 0 THEN s ELSE Flat(s)[Len(s)]
  BY Zenon DEF FlattenSeq, Flat, Flatter, FlatTo
<1> QED
  BY <1>2, <1>3

\* dump_stats() after n entries, from what it was after one less.
Start == [separator |-> 0, lines |-> <<>>]
DumpTo(f, n) == IF n = 0 THEN Start ELSE Line(f[n - 1], At(n - 1))

\* The entries are printed one after the other.
LEMMA DumpedIs ==
  ASSUME stats.size \in Nat
  PROVE  \A n \in 0..stats.size : Dumped[n] = DumpTo(Dumped, n)
<1> DEFINE size == stats.size
           Filled(f) == f = [n \in 0..size |-> DumpTo(f, n)]
           Walked(m) == \E f : f = [n \in 0..m |-> DumpTo(f, n)]
           T == {m \in 0..size : ~Walked(m)}
<1>1. ASSUME T # {} PROVE FALSE
  <2>1. T \in SUBSET Nat
    OBVIOUS
  <2>2. PICK m \in T : \A k \in T : m <= k
    BY <1>1, <2>1, LeastOf
  <2>3. m \in 0..size /\ ~Walked(m)
    BY <2>2
  <2>4. Walked(0)
    <3> DEFINE f == [n \in 0..0 |-> Start]
    <3>1. \A n \in 0..0 : DumpTo(f, n) = Start
      BY DEF DumpTo
    <3>2. f = [n \in 0..0 |-> DumpTo(f, n)]
      BY <3>1
    <3> HIDE DEF f
    <3> QED BY <3>2
  <2>5. m # 0
    BY <2>3, <2>4
  <2>6. m - 1 \in 0..size /\ ~(m <= m - 1)
    BY <2>3, <2>5
  <2>7. Walked(m - 1)
    <3> HIDE DEF Walked
    <3>1. m - 1 \notin T
      <4> HIDE DEF T
      <4> QED BY <2>2, <2>6
    <3> QED BY <2>6, <3>1
  <2>8. PICK f : f = [n \in 0..(m - 1) |-> DumpTo(f, n)]
    BY <2>7
  <2> DEFINE g == [n \in 0..m |-> IF n = m THEN DumpTo(f, m) ELSE f[n]]
  <2>9. \A n \in 0..m : DumpTo(g, n) = g[n]
    <3> TAKE n \in 0..m
    <3>0. m \in Nat /\ n \in Nat /\ n <= m
      BY <2>3
    <3>1. n # 0 => n - 1 \in 0..m /\ n - 1 # m /\ g[n - 1] = f[n - 1]
      BY <3>0
    <3>2. DumpTo(g, n) = DumpTo(f, n)
      <4> HIDE DEF g
      <4> QED BY <3>1, Zenon DEF DumpTo
    <3>3. n # m => n \in 0..(m - 1)
      BY <3>0
    <3>4. n # m => f[n] = DumpTo(f, n)
      BY <2>8, <3>3, Zenon
    <3>5. g[n] = IF n = m THEN DumpTo(f, m) ELSE f[n]
      BY Zenon
    <3> HIDE DEF g
    <3> QED BY <3>2, <3>4, <3>5, Zenon
  <2>10. g = [n \in 0..m |-> DumpTo(g, n)]
    <3>1. g = [n \in 0..m |-> g[n]]
      BY Zenon
    <3> HIDE DEF g
    <3> QED BY <2>9, <3>1, Zenon
  <2> HIDE DEF g
  <2> QED BY <2>3, <2>10
<1>2. Walked(size)
  <2> HIDE DEF Walked
  <2>1. size \in 0..size
    OBVIOUS
  <2> QED BY <1>1, <2>1
<1>3. \E f : Filled(f)
  BY <1>2
<1>4. Dumped = CHOOSE f : Filled(f)
  BY Zenon DEF Dumped, DumpTo, Start
<1>5. Filled(Dumped)
  <2> HIDE DEF Filled
  <2> QED BY <1>3, <1>4
<1>6. QED
  <2> DEFINE f == Dumped
  <2>1. f = [n \in 0..stats.size |-> DumpTo(f, n)]
    BY <1>5
  <2> HIDE DEF f
  <2>2. \A n \in 0..stats.size : f[n] = DumpTo(f, n)
    BY <2>1, Zenon
  <2> QED BY <2>2 DEF f

\* A separator is 1 or 2.
Styled == \A i \in DOMAIN log : log[i].key = Null => log[i].cost \in Separators

\* The mark of the last separator after n calls
MarkAt(n) == IF n # 0 /\ log[n].key = Null THEN log[n].cost ELSE 0

\* One entry more is printed.
LEMMA LineIs ==
  ASSUME NEW l \in Seq(Kept), l = log, Styled,
         NEW n \in 1..Len(l), NEW e, e.key = l[n].key, e.cost = l[n].cost,
         NEW s, NEW done \in Seq(Kept), s = [separator |-> MarkAt(n - 1), lines |-> done]
  PROVE  Line(s, e) = [separator |-> MarkAt(n), lines |-> done \o LinesOf(l, n)]
<1>1. /\ Len(l) \in Nat /\ DOMAIN l = 1..Len(l)
      /\ \A i \in 1..Len(l) : l[i] \in Kept /\ i \in Nat
  BY LenProperties, ElementOfSeq
<1>2. /\ n \in Nat /\ n # 0 /\ l[n] \in Kept
      /\ n # 1 => n - 1 \in 1..Len(l) /\ n > 1
      /\ n = 1 => n - 1 = 0 /\ ~(n > 1)
  BY <1>1
<1>3. \A i \in 1..Len(l) : l[i] = [key |-> l[i].key, cost |-> l[i].cost]
  BY <1>1 DEF Kept
<1>4. done \o <<>> = done
  BY ConcatEmptySeq
<1>5. CASE l[n].key = Null
  <2>1. Line(s, e) = [separator |-> l[n].cost, lines |-> done]
    BY <1>5 DEF Line
  <2>2. MarkAt(n) = l[n].cost
    BY <1>2, <1>5 DEF MarkAt
  <2>3. LinesOf(l, n) = <<>>
    BY <1>5 DEF LinesOf
  <2> QED BY <1>4, <2>1, <2>2, <2>3
<1>6. CASE l[n].key # Null
  <2>1. Line(s, e) = [separator |-> 0,
          lines |-> done \o (IF s.separator \in Separators
                             THEN <<[key |-> Null, cost |-> s.separator]>> ELSE <<>>)
                         \o <<l[n]>>]
    <3>1. l[n] = [key |-> e.key, cost |-> e.cost] /\ e.key # Null /\ s.lines = done
      BY <1>3, <1>6
    <3> QED BY <3>1, Zenon DEF Line
  <2>2. MarkAt(n) = 0
    BY <1>6 DEF MarkAt
  <2>3. CASE n > 1 /\ l[n - 1].key = Null
    <3>0. n - 1 \in 1..Len(l) /\ n - 1 # 0
      BY <1>2, <2>3
    <3>1. MarkAt(n - 1) = l[n - 1].cost
      BY <2>3, <3>0 DEF MarkAt
    <3>2. l[n - 1].cost \in Separators
      BY <1>1, <2>3, <3>0 DEF Styled
    <3>3. s.separator = l[n - 1].cost
      BY <3>1
    <3>4. l[n - 1] = [key |-> Null, cost |-> s.separator]
      BY <1>3, <2>3, <3>0, <3>3
    <3>5. LinesOf(l, n) = <<l[n - 1], l[n]>>
      BY <1>6, <2>3 DEF LinesOf
    <3>6. Line(s, e) = [separator |-> 0, lines |-> done \o <<l[n - 1]>> \o <<l[n]>>]
      BY <2>1, <3>2, <3>3, <3>4, Zenon
    <3>7. done \o <<l[n - 1]>> \o <<l[n]>> = done \o <<l[n - 1], l[n]>>
      <4>1. PICK x \in Kept, y \in Kept : x = l[n - 1] /\ y = l[n]
        BY <1>1, <1>2, <3>0
      <4>2. <<x>> \in Seq(Kept) /\ <<y>> \in Seq(Kept)
        OBVIOUS
      <4>3. done \o <<x>> \o <<y>> = done \o (<<x>> \o <<y>>)
        BY <4>2, ConcatAssociative
      <4>4. <<x>> \o <<y>> = <<x, y>>
        <5> DEFINE a == <<x>>
                   b == <<y>>
                   c == <<x, y>>
        <5>1. /\ a \in Seq(Kept) /\ Len(a) = 1 /\ a[1] = x
              /\ b \in Seq(Kept) /\ Len(b) = 1 /\ b[1] = y
              /\ c \in Seq(Kept) /\ Len(c) = 2 /\ c[1] = x /\ c[2] = y
          OBVIOUS
        <5> HIDE DEF a, b, c
        <5>2. /\ a \o b \in Seq(Kept) /\ Len(a \o b) = 2
              /\ (a \o b)[1] = x /\ (a \o b)[2] = y
          <6>1. /\ a \o b \in Seq(Kept) /\ Len(a \o b) = Len(a) + Len(b)
                /\ \A i \in 1..Len(a) + Len(b) :
                     (a \o b)[i] = IF i <= Len(a) THEN a[i] ELSE b[i - Len(a)]
            BY <5>1, ConcatProperties
          <6>2. 1 \in 1..Len(a) + Len(b) /\ 2 \in 1..Len(a) + Len(b)
            BY <5>1
          <6> QED BY <5>1, <6>1, <6>2
        <5>3. \A i \in 1..Len(a \o b) : (a \o b)[i] = c[i]
          BY <5>1, <5>2
        <5>4. a \o b = c
          BY <5>1, <5>2, <5>3, SeqEqual
        <5> QED BY <5>4 DEF a, b, c
      <4> QED BY <4>1, <4>3, <4>4
    <3> QED BY <2>2, <3>5, <3>6, <3>7
  <2>4. CASE ~(n > 1 /\ l[n - 1].key = Null)
    <3>1. MarkAt(n - 1) = 0
      BY <1>2, <2>4 DEF MarkAt
    <3>2. s.separator \notin Separators
      BY <3>1 DEF Separators
    <3>3. LinesOf(l, n) = <<l[n]>>
      BY <1>6, <2>4 DEF LinesOf
    <3>4. Line(s, e) = [separator |-> 0, lines |-> done \o <<>> \o <<l[n]>>]
      BY <2>1, <3>2, Zenon
    <3> QED BY <1>4, <2>2, <3>3, <3>4
  <2> QED BY <2>3, <2>4
<1> QED
  BY <1>5, <1>6

\* The lines of a log are sequences of what was kept.
LEMMA LinesAre ==
  ASSUME NEW l \in Seq(Kept)
  PROVE  /\ \A i \in 1..Len(l) : LinesOf(l, i) \in Seq(Kept)
         /\ Len(Lines(l)) = Len(l)
         /\ \A i \in 1..Len(l) : Lines(l)[i] = LinesOf(l, i)
         /\ Len(l) = 0 => Lines(l) = <<>>
<1>1. /\ Len(l) \in Nat /\ DOMAIN l = 1..Len(l)
      /\ \A i \in 1..Len(l) : l[i] \in Kept /\ i \in Nat
  BY LenProperties, ElementOfSeq
<1>2. ASSUME NEW i \in 1..Len(l) PROVE LinesOf(l, i) \in Seq(Kept)
  <2>1. l[i] \in Kept /\ (i > 1 => i - 1 \in 1..Len(l))
    BY <1>1
  <2>2. PICK x \in Kept : x = l[i]
    BY <2>1
  <2>3. <<x>> \in Seq(Kept) /\ <<>> \in Seq(Kept)
    BY EmptySeq
  <2>4. CASE i > 1
    <3>1. PICK y \in Kept : y = l[i - 1]
      BY <1>1, <2>1, <2>4
    <3>2. <<y, x>> \in Seq(Kept)
      OBVIOUS
    <3> QED BY <2>2, <2>3, <3>1, <3>2, Zenon DEF LinesOf
  <2>5. CASE ~(i > 1)
    BY <2>2, <2>3, <2>5, Zenon DEF LinesOf
  <2> QED BY <2>4, <2>5
<1> DEFINE n == Len(l)
           f == [i \in 1..n |-> LinesOf(l, i)]
<1>3. Lines(l) = f
  BY <1>1, Zenon DEF Lines
<1>4. f \in [1..n -> Seq(Kept)] /\ \A i \in 1..n : f[i] = LinesOf(l, i)
  BY <1>2, Zenon
<1>5. f \in Seq(Seq(Kept)) /\ n \in Nat
  <2> HIDE DEF f
  <2> QED BY <1>1, <1>4, SeqDef
<1>6. Len(f) = n
  <2> HIDE DEF f
  <2>1. Len(f) \in Nat /\ DOMAIN f = 1..Len(f) /\ DOMAIN f = 1..n
    BY <1>4, <1>5, LenProperties
  <2> QED BY <1>5, <2>1
<1>7. n = 0 => f = <<>>
  <2> HIDE DEF f
  <2> QED BY <1>5, <1>6, EmptySeq
<1> HIDE DEF f
<1> QED
  BY <1>2, <1>3, <1>4, <1>6, <1>7

\* What dump_stats() has printed after n entries.
LEMMA DumpedShows ==
  ASSUME IInv, Styled
  PROVE  Dumped[stats.size].lines = FlattenSeq(Lines(log))
<1> DEFINE size == stats.size
           s == Lines(log)
           Shown(n) == IF n = 0 THEN <<>> ELSE Flat(s)[n]
           Right(n) == /\ Shown(n) \in Seq(Kept)
                       /\ Dumped[n] = [separator |-> MarkAt(n), lines |-> Shown(n)]
           T == {n \in 0..size : ~Right(n)}
<1>1. /\ log \in Seq(Kept) /\ Len(log) = size /\ size \in Nat /\ DOMAIN log = 1..size
      /\ \A i \in 1..size : At(i - 1).key = log[i].key /\ At(i - 1).cost = log[i].cost
  <2>1. log \in Seq(Kept) /\ Len(log) = size
    BY DEF IInv, StatsTypeOK, LogKept
  <2>2. size \in Nat /\ DOMAIN log = 1..size
    BY <2>1, LenProperties
  <2> QED BY <2>1, <2>2 DEF IInv, LogKept
<1>2. \A n \in 0..size : Dumped[n] = DumpTo(Dumped, n)
  BY <1>1, DumpedIs
<1>3. /\ Len(s) = size /\ (size = 0 => s = <<>>)
      /\ \A i \in 1..size : LinesOf(log, i) \in Seq(Kept) /\ s[i] = LinesOf(log, i)
  BY <1>1, LinesAre
<1> HIDE DEF s
<1>4. /\ size = 0 => FlattenSeq(s) = s
      /\ size # 0 => FlattenSeq(s) = Flat(s)[size]
      /\ \A i \in 1..size : Flat(s)[i] = FlatTo(Flat(s), s, i)
  BY <1>1, <1>3, FlatIs
<1>5. <<>> \in Seq(Kept)
  BY EmptySeq
<1>6. Right(0)
  <2>1. 0 \in 0..size
    BY <1>1
  <2>2. Dumped[0] = [separator |-> 0, lines |-> <<>>]
    BY <1>2, <2>1 DEF DumpTo, Start
  <2>3. MarkAt(0) = 0
    BY DEF MarkAt
  <2> QED BY <1>5, <2>2, <2>3
<1>7. ASSUME T # {} PROVE FALSE
  <2>1. T \in SUBSET Nat
    BY <1>1
  <2>2. PICK m \in T : \A k \in T : m <= k
    BY <1>7, <2>1, LeastOf
  <2>3. m \in 0..size /\ ~Right(m)
    BY <2>2
  <2>4. m # 0
    BY <1>6, <2>3
  <2>5. m \in 1..size /\ m - 1 \in 0..size /\ ~(m <= m - 1)
    BY <1>1, <2>3, <2>4
  <2>6. Right(m - 1)
    <3> HIDE DEF Right
    <3>1. m - 1 \notin T
      <4> HIDE DEF T
      <4> QED BY <2>2, <2>5
    <3> QED BY <2>5, <3>1
  <2>7. PICK done \in Seq(Kept) : done = Shown(m - 1)
    BY <2>6
  <2>8. Dumped[m] = Line(Dumped[m - 1], At(m - 1))
    BY <1>2, <2>3, <2>4 DEF DumpTo
  <2>9. Dumped[m] = [separator |-> MarkAt(m), lines |-> done \o LinesOf(log, m)]
    <3>1. Dumped[m - 1] = [separator |-> MarkAt(m - 1), lines |-> done]
      BY <2>6, <2>7
    <3> HIDE DEF Shown, size
    <3> QED BY <1>1, <2>5, <2>8, <3>1, LineIs
  <2>10. done \o LinesOf(log, m) = Shown(m)
    <3>1. Shown(m) = FlatTo(Flat(s), s, m)
      BY <1>4, <2>4, <2>5
    <3>2. m # 1 => done = Flat(s)[m - 1]
      BY <1>1, <2>5, <2>7
    <3>3. m = 1 => done = <<>>
      BY <2>7
    <3>4. <<>> \o LinesOf(log, m) = LinesOf(log, m)
      BY <1>3, <2>5, ConcatEmptySeq
    <3>5. s[m] = LinesOf(log, m)
      BY <1>3, <2>5
    <3> HIDE DEF Shown
    <3> QED BY <3>1, <3>2, <3>3, <3>4, <3>5, Zenon DEF FlatTo
  <2>11. done \o LinesOf(log, m) \in Seq(Kept)
    BY <1>3, <2>5, ConcatProperties
  <2>12. Right(m)
    BY <2>9, <2>10, <2>11
  <2> QED BY <2>3, <2>12
<1>8. Right(size)
  <2> HIDE DEF Right
  <2>1. size \in 0..size
    BY <1>1
  <2> QED BY <1>7, <2>1
<1>9. Shown(size) = FlattenSeq(s)
  BY <1>3, <1>4
<1> QED
  BY <1>8, <1>9 DEF s

\* TableShowsLog, and what it needs
TInv == Styled /\ TableShowsLog

\* Every step keeps the table.
LEMMA TableStays == IInv /\ TInv /\ [StatsNext]_statsVars => TInv'
<1> SUFFICES ASSUME IInv, TInv, [StatsNext]_statsVars
             PROVE  TInv'
  OBVIOUS
<1>1. log \in Seq(Kept)
  BY DEF IInv, StatsTypeOK
<1>2. ASSUME NEW e \in Kept, log' = Append(log, e), phase' = "execute",
             e.key = Null => e.cost \in Separators
      PROVE  TInv'
  <2> DEFINE m == Append(log, e)
  <2>1. /\ Len(log) \in Nat /\ DOMAIN log = 1..Len(log) /\ DOMAIN m = 1..(Len(log) + 1)
        /\ \A k \in 1..Len(log) : m[k] = log[k]
        /\ m[Len(log) + 1] = e
    BY <1>1, AppendProperties, LenProperties
  <2>2. log' = m
    BY <1>2
  <2> HIDE DEF m
  <2>3. \A i \in DOMAIN m : i \in DOMAIN log \/ i = Len(log) + 1
    BY <2>1
  <2>4. Styled'
    BY <1>2, <2>1, <2>2, <2>3 DEF TInv, Styled
  <2>5. TableShowsLog'
    BY <1>2 DEF TableShowsLog
  <2> QED BY <2>4, <2>5 DEF TInv
<1>3. ASSUME log' = log, phase' # "free" PROVE TInv'
  BY <1>3 DEF TInv, Styled, TableShowsLog
<1>4. ASSUME NEW f \in Function, NEW cost \in Costs, Gather(f, cost) PROVE TInv'
  <2>1. [key |-> f, cost |-> cost] \in Kept /\ f # Null
    BY StatsAssumption DEF Kept
  <2> QED BY <1>2, <1>4, <2>1 DEF Gather, Called
<1>5. ASSUME NEW style \in Separators, Separate(style) PROVE TInv'
  <2>1. [key |-> Null, cost |-> style] \in Kept
    BY DEF Kept, Separators
  <2> QED BY <1>2, <1>5, <2>1 DEF Separate, Called
<1>6. ASSUME DumpStats PROVE TInv'
  <2>1. table' = FlattenSeq(Lines(log)) /\ log' = log
    BY <1>6, DumpedShows DEF DumpStats, TInv, statsHistory
  <2>2. TableShowsLog'
    <3>1. table' = FlattenSeq(Lines(log'))
      BY <2>1
    <3> QED BY <3>1, Zenon DEF TableShowsLog, Lines, LinesOf
  <2> QED BY <2>1, <2>2 DEF TInv, Styled
<1>7. ASSUME Free PROVE TInv'
  <2>1. log' = <<>> /\ phase' # "free"
    BY <1>7 DEF Free
  <2> QED BY <2>1 DEF TInv, Styled, TableShowsLog
<1>8. ASSUME UNCHANGED statsVars PROVE TInv'
  <2>1. log' = log /\ phase' = phase /\ table' = table
    BY <1>8 DEF statsVars, statsHistory
  <2>2. TableShowsLog'
    BY <2>1, Zenon DEF TInv, TableShowsLog
  <2> QED BY <2>1, <2>2 DEF TInv, Styled
<1>9. ASSUME NEW f \in Function, Mark(f) \/ MarkFails(f) \/ GatherCutShort(f) PROVE TInv'
  BY <1>3, <1>9 DEF Mark, MarkFails, GatherCutShort, Called, statsHistory
<1>10. ASSUME GatherFails \/ BodyReturns \/ BodyExits PROVE TInv'
  BY <1>3, <1>10 DEF GatherFails, BodyReturns, BodyExits, Called, statsHistory
<1> QED
  BY <1>4, <1>5, <1>6, <1>7, <1>8, <1>9, <1>10 DEF StatsNext, StatsEnded

\* The table that launch() prints has every measurement that was kept, in
\* order and once, and a line where a separator stands directly before one:
\* for every number of calls.
THEOREM TableShowsLogHolds == StatsSpec => []TableShowsLog
<1>1. StatsInit => TInv
  BY DEF StatsInit, TInv, Styled, TableShowsLog
<1>2. IInv /\ TInv /\ [StatsNext]_statsVars => TInv'
  BY TableStays
<1>3. TInv => TableShowsLog
  BY DEF TInv
<1> QED
  BY <1>1, <1>2, <1>3, StatsInvariant, PTL DEF StatsSpec
=============================================================================
