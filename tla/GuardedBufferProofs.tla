------------------------ MODULE GuardedBufferProofs ------------------------
(***************************************************************************)
(* The guards of a buffer are inside its memory and tell every write next  *)
(* to the data, and buffers that compare equal are close, for all lengths, *)
(* alignments, addresses, objects and values, and behaviours of any        *)
(* length.                                                                 *)
(***************************************************************************)
EXTENDS GuardedBuffer, TLAPS

-----------------------------------------------------------------------------
(* Where allocate() puts the data *)

\* Three facts about integers: the remainder, the quotient, and multiples.
LEMMA ModRange ==
  ASSUME NEW x \in Nat, NEW a \in Nat \ {0}
  PROVE  x % a \in 0..(a - 1)
  OBVIOUS

LEMMA DivMod ==
  ASSUME NEW x \in Nat, NEW a \in Nat \ {0}
  PROVE  x = a * (x \div a) + (x % a) /\ x \div a \in Nat
  OBVIOUS

LEMMA ModMult ==
  ASSUME NEW k \in Nat, NEW a \in Nat \ {0}
  PROVE  (a * k) % a = 0
  OBVIOUS

\* An aligned pointer is aligned, and less than one alignment further on.
LEMMA PointerAligned ==
  ASSUME NEW x \in Nat, NEW a \in Nat \ {0}
  PROVE  /\ align_pointer(x, a) \in x..(x + a - 1)
         /\ check_alignment(align_pointer(x, a), a)
<1>1. CASE x % a = 0
  BY <1>1 DEF align_pointer, check_alignment
<1>2. CASE x % a # 0
  <2> DEFINE k == (x \div a) + 1
  <2>1. x % a \in 1..(a - 1)
    BY <1>2, ModRange
  <2>2. x \div a \in Nat /\ x = a * (x \div a) + (x % a)
    BY DivMod
  <2>3. k \in Nat /\ a * k = a * (x \div a) + a
    BY <2>2
  <2>4. align_pointer(x, a) = x + a - (x % a)
    BY <1>2 DEF align_pointer
  <2>5. align_pointer(x, a) = a * k
    <3> HIDE DEF k
    <3> DEFINE q == a * (x \div a)
    <3>1. q \in Nat
      BY <2>2
    <3>2. x = q + (x % a) /\ a * k = q + a
      BY <2>2, <2>3
    <3> HIDE DEF q
    <3> QED BY <2>1, <2>4, <3>1, <3>2
  <2>6. (a * k) % a = 0
    BY <2>3, ModMult
  <2> QED
    BY <2>1, <2>4, <2>5, <2>6 DEF check_alignment
<1> QED
  BY <1>1, <1>2

\* One element off, an aligned pointer is not aligned any more.
LEMMA ShiftUnaligns ==
  ASSUME NEW x \in Nat, NEW a \in Nat, NEW u \in Nat \ {0}, u < a, x % a = 0
  PROVE  (x + u) % a # 0
<1>1. a \in Nat \ {0}
  OBVIOUS
<1>2. x \div a \in Nat /\ x = a * (x \div a)
  BY <1>1, DivMod
<1> DEFINE k == x \div a
<1>3. SUFFICES ASSUME (x + u) % a = 0 PROVE FALSE
  OBVIOUS
<1> DEFINE j == (x + u) \div a
<1>4. j \in Nat /\ x + u = a * j
  BY <1>1, <1>3, DivMod
<1>5. k \in Nat /\ a * j = a * k + u
  BY <1>2, <1>4
<1> HIDE DEF j, k
<1>6. a * (j - k) = u
  BY <1>4, <1>5
<1>7. CASE j <= k
  <2>1. a * (j - k) <= 0
    BY <1>4, <1>5, <1>7
  <2> QED BY <2>1, <1>6
<1>8. CASE j >= k + 1
  <2>1. a * (j - k) >= a
    BY <1>4, <1>5, <1>8
  <2> QED BY <2>1, <1>6
<1> QED
  BY <1>4, <1>5, <1>7, <1>8

-----------------------------------------------------------------------------
(* What a comparison of two numbers says *)

\* It does not matter which number is first.
LEMMA RelativeSymmetric ==
  ASSUME NEW a \in Number, NEW b \in Number, NEW t \in Int
  PROVE  float_equals_relative(a, b, t) <=> float_equals_relative(b, a, t)
<1> USE FloatAssumption DEF Number, Infinities
<1>1. CASE a = 0 \/ b = 0
  BY <1>1 DEF float_equals_relative
<1>2. CASE a # 0 /\ b # 0
  <2>1. CASE a = b
    BY <2>1
  <2>2. CASE a # b /\ a # NaN /\ b # NaN
    <3>1. Less(a, b) <=> ~Less(b, a)
      BY <2>2 DEF Less, Finite
    <3> QED BY <1>2, <3>1 DEF float_equals_relative
  <2>3. CASE a = NaN \/ b = NaN
    BY <1>2, <2>3 DEF float_equals_relative, QuotientNearOne
  <2> QED BY <2>1, <2>2, <2>3
<1> QED
  BY <1>1, <1>2

\* Nor does it for the distance.
LEMMA AbsoluteSymmetric ==
  ASSUME NEW a \in Number, NEW b \in Number, NEW t \in Int
  PROVE  float_equals_absolute(a, b, t) <=> float_equals_absolute(b, a, t)
  BY FloatAssumption DEF float_equals_absolute, Finite, Fabs, Number, Infinities

\* A factor keeps the order.
LEMMA Scaled ==
  ASSUME NEW x \in Nat, NEW y \in Nat, NEW u \in Nat, x <= y
  PROVE  x * u <= y * u
  OBVIOUS

\* Numbers that are near each other have sizes that are.
LEMMA AbsoluteIsClose ==
  ASSUME NEW a \in Number, NEW b \in Number, NEW t \in 1..One,
         float_equals_absolute(a, b, t)
  PROVE  Close(a, b, t)
<1>1. /\ Finite(a) /\ Finite(b) /\ a \in Int /\ b \in Int
      /\ Fabs(a - b) <= t /\ One \in Nat /\ t \in Nat
  BY FloatAssumption DEF float_equals_absolute, Finite, Number, Infinities
<1>2. Fabs(Fabs(a) - Fabs(b)) \in Nat /\ Fabs(Fabs(a) - Fabs(b)) <= t
  BY <1>1 DEF Fabs
<1>3. Fabs(Fabs(a) - Fabs(b)) * One <= t * One
  BY <1>1, <1>2, Scaled
<1> QED
  BY <1>1, <1>3 DEF Close

\* Numbers whose quotient is near one are close, measured by the divisor.
LEMMA QuotientIsClose ==
  ASSUME NEW p \in Number, NEW q \in Number, NEW t \in 1..One,
         QuotientNearOne(p, q, t)
  PROVE  Close(p, q, t) /\ Close(q, p, t)
<1>1. /\ Finite(p) /\ Finite(q) /\ p \in Int /\ q \in Int
      /\ Fabs(Fabs(q) - Fabs(p)) * One < t * Fabs(q)
      /\ One \in Nat /\ t \in Nat
  BY FloatAssumption DEF QuotientNearOne, Finite, Number, Infinities
<1>2. Fabs(Fabs(p) - Fabs(q)) = Fabs(Fabs(q) - Fabs(p))
      /\ Fabs(Fabs(q) - Fabs(p)) \in Nat /\ Fabs(q) \in Nat
  BY <1>1 DEF Fabs
<1>3. Fabs(Fabs(q) - Fabs(p)) * One <= t * Fabs(q)
  <2> DEFINE x == Fabs(Fabs(q) - Fabs(p)) * One
             y == t * Fabs(q)
  <2>1. x \in Int /\ y \in Int /\ x < y
    BY <1>1, <1>2
  <2> HIDE DEF x, y
  <2>2. x <= y
    BY <2>1
  <2> QED BY <2>2 DEF x, y
<1> QED
  BY <1>1, <1>2, <1>3 DEF Close

\* Near by the relative comparison, which measures what is next to zero by
\* itself, is close.
LEMMA RelativeIsClose ==
  ASSUME NEW a \in Number, NEW b \in Number, NEW t \in 1..One,
         float_equals_relative(a, b, t)
  PROVE  Close(a, b, t)
<1>1. ASSUME NEW x \in Number, Within(x, t)
      PROVE  Close(0, x, t) /\ Close(x, 0, t)
  <2>1. /\ Finite(x) /\ Finite(0) /\ x \in Int /\ Fabs(x) \in Nat /\ Fabs(x) <= t
        /\ One \in Nat /\ t \in Nat
    BY <1>1, FloatAssumption DEF Within, Finite, Fabs, Number, Infinities
  <2>2. Fabs(Fabs(x) - Fabs(0)) = Fabs(x) /\ Fabs(Fabs(0) - Fabs(x)) = Fabs(x)
    BY <2>1 DEF Fabs
  <2>3. Fabs(x) * One <= t * One
    BY <2>1, Scaled
  <2> QED BY <2>1, <2>2, <2>3 DEF Close
<1>2. CASE a = 0
  BY <1>1, <1>2 DEF float_equals_relative
<1>3. CASE a # 0 /\ b = 0
  BY <1>1, <1>3 DEF float_equals_relative
<1>4. CASE a # 0 /\ b # 0
  <2>1. QuotientNearOne(a, b, t) \/ QuotientNearOne(b, a, t)
    BY <1>4 DEF float_equals_relative
  <2> QED BY <2>1, QuotientIsClose
<1> QED
  BY <1>2, <1>3, <1>4

\* Whatever the mode, numbers that compare equal are close.
LEMMA NearIsClose ==
  ASSUME NEW a \in Number, NEW b \in Number, NEW t \in 1..One,
         NEW mode \in Modes, Near(mode, a, b, t)
  PROVE  Close(a, b, t)
<1>1. CASE mode = "relative"
  BY <1>1, RelativeIsClose DEF Near
<1>2. CASE mode = "absolute"
  BY <1>2, AbsoluteIsClose DEF Near
<1>3. CASE mode = "adaptive"
  <2>1. float_equals_adaptive(a, b, t)
    BY <1>3 DEF Near
  <2>2. float_equals_relative(a, b, t) \/ float_equals_absolute(a, b, t)
    BY <2>1 DEF float_equals_adaptive
  <2> QED BY <2>2, RelativeIsClose, AbsoluteIsClose
<1> QED
  BY <1>1, <1>2, <1>3 DEF Modes

-----------------------------------------------------------------------------
(* The invariant *)

IsBuffer(x) ==
  /\ x.nLength \in Nat /\ x.nAlign \in Nat \ {0} /\ x.bAligned \in BOOLEAN
  /\ x.pData \in Nat
  /\ x.pBuffer = DataStart(x.pData, x.nAlign, x.bAligned)
  /\ x.nLastDiff \in -1..(x.nLength - 1)
  /\ x = [nLength |-> x.nLength, nAlign |-> x.nAlign, bAligned |-> x.bAligned,
          pData |-> x.pData, pBuffer |-> x.pBuffer, nLastDiff |-> x.nLastDiff]

IsArray(data) == data = [i \in DOMAIN data |-> data[i]]

IsMemory(m) ==
  /\ m = [size |-> m.size, data |-> m.data, head |-> m.head, tail |-> m.tail,
          maker |-> m.maker]
  /\ IsArray(m.data)

\* The words of memory tell whether it was written to outside the data.
Watched(b) ==
  LET m == mem[b] IN
  /\ m.maker \in Object
  /\ m.head \in {m.maker, Nobody} /\ m.tail \in {m.maker, Nobody}
  /\ b \in outside <=> Nobody \in {m.head, m.tail}

Buffers == DOMAIN obj \subseteq Object /\ \A o \in DOMAIN obj : IsBuffer(obj[o])
Memories == \A b \in DOMAIN mem : IsMemory(mem[b]) /\ Watched(b)

\* A buffer has as many elements as it says.
Fits == \A o \in Usable : DOMAIN Data(o) = 0..(obj[o].nLength - 1)

\* As long as nothing was assigned, the memory was made for the buffer.
Sized ==
  assigned = {} => \A o \in DOMAIN obj :
    Memory(o).size = Room(obj[o].nLength, obj[o].nAlign)

IInv ==
  /\ class \in {"float", "byte"}
  /\ Buffers /\ Memories /\ Fits /\ MemoryOwned /\ Sized

\* There is no buffer and no memory at first.
LEMMA InitInv == BufferInit => IInv
  BY DEF BufferInit, IInv, Buffers, Memories, Fits, MemoryOwned, Sized, Usable

\* allocate() makes a buffer with memory of its own.
LEMMA Allocates ==
  ASSUME IInv, NEW o \in Object \ DOMAIN obj, NEW n \in Nat,
         NEW align \in Nat \ {0}, NEW aligned \in BOOLEAN,
         NEW data, IsArray(data), DOMAIN data = 0..(n - 1),
         allocate(o, n, align, aligned, data),
         ~twice, UNCHANGED <<class, assigned, twice>>
  PROVE  IInv'
<1>1. PICK base \in Base :
        /\ base \notin DOMAIN mem /\ \A p \in DOMAIN obj : obj[p].pData # base
        /\ obj' = With(obj, o,
             [nLength |-> n, nAlign |-> align, bAligned |-> aligned,
              pData |-> base, pBuffer |-> DataStart(base, align, aligned),
              nLastDiff |-> -1])
        /\ mem' = With(mem, base,
             [size |-> Room(n, align), data |-> data, head |-> o, tail |-> o,
              maker |-> o])
        /\ outside' = outside \ {base}
  BY DEF allocate
<1>2. /\ DOMAIN obj' = DOMAIN obj \cup {o} /\ DOMAIN mem' = DOMAIN mem \cup {base}
      /\ \A p \in DOMAIN obj : p # o /\ obj'[p] = obj[p]
      /\ \A b \in DOMAIN mem : b # base /\ mem'[b] = mem[b]
  BY <1>1 DEF With
<1>3. obj'[o] = [nLength |-> n, nAlign |-> align, bAligned |-> aligned,
                 pData |-> base, pBuffer |-> DataStart(base, align, aligned),
                 nLastDiff |-> -1]
  BY <1>1 DEF With
<1>4. mem'[base] = [size |-> Room(n, align), data |-> data, head |-> o,
                    tail |-> o, maker |-> o]
  BY <1>1 DEF With
<1>5. base \in Nat /\ Nobody \notin Object
  BY BufferAssumption
<1>6. class' = class /\ assigned' = assigned /\ twice' = twice
  OBVIOUS
<1>7. Buffers'
  <2>1. IsBuffer(obj[o])'
    BY <1>3, <1>5, <1>6 DEF IsBuffer, DataStart, Unit
  <2>2. ASSUME NEW p \in DOMAIN obj PROVE IsBuffer(obj[p])'
    <3>1. obj'[p] = obj[p] /\ IsBuffer(obj[p])
      BY <1>2 DEF IInv, Buffers
    <3> QED BY <3>1, <1>6 DEF IsBuffer, DataStart, Unit
  <2>3. \A p \in DOMAIN obj' : IsBuffer(obj[p])'
    BY <1>2, <2>1, <2>2
  <2> QED
    BY <1>2, <2>3 DEF IInv, Buffers
<1>8. Memories'
  <2>1. IsMemory(mem'[base]) /\ Watched(base)'
    BY <1>1, <1>4, <1>5 DEF IsMemory, Watched
  <2>2. ASSUME NEW b \in DOMAIN mem PROVE IsMemory(mem'[b]) /\ Watched(b)'
    BY <1>1, <1>2 DEF IInv, Memories, IsMemory, Watched
  <2> QED
    BY <1>2, <2>1, <2>2 DEF Memories
<1>9. Fits'
  BY <1>1, <1>2, <1>3, <1>4 DEF IInv, Fits, Usable, Data, Memory
<1>10. MemoryOwned'
  <2>1. obj'[o].pData = base /\ \A p \in DOMAIN obj : obj'[p].pData = obj[p].pData
    BY <1>2, <1>3
  <2>2. CASE assigned = {}
    <3>1. /\ DOMAIN mem = {obj[p].pData : p \in DOMAIN obj}
          /\ \A p, q \in DOMAIN obj : obj[p].pData = obj[q].pData => p = q
      BY <2>2 DEF IInv, MemoryOwned
    <3>2. DOMAIN mem' = {obj'[p].pData : p \in DOMAIN obj'}
      BY <1>2, <2>1, <3>1
    <3>3. \A p, q \in DOMAIN obj' : obj'[p].pData = obj'[q].pData => p = q
      BY <1>1, <1>2, <2>1, <3>1
    <3> QED BY <1>6, <3>2, <3>3 DEF MemoryOwned
  <2> QED BY <1>6, <2>2 DEF MemoryOwned
<1>11. Sized'
  BY <1>1, <1>2, <1>3, <1>4, <1>6 DEF IInv, Sized, MemoryOwned, Memory, Room, Unit
<1> QED
  BY <1>6, <1>7, <1>8, <1>9, <1>10, <1>11 DEF IInv

\* A constructor is given a length and an alignment that the test may ask for.
LEMMA Constructs ==
  ASSUME IInv, NEW o \in Object, Construct(o)
  PROVE  IInv'
<1>1. o \in Object \ DOMAIN obj /\ ~twice /\ UNCHANGED <<class, assigned, twice>>
  BY DEF Construct, Call
<1>2. PICK n \in Lengths, align \in Aligns, aligned \in BOOLEAN,
           v \in IF class = "float" THEN Random ELSE Bytes :
        allocate(o, n, align, aligned, [i \in 0..(n - 1) |-> v])
  BY DEF Construct
<1> DEFINE data == [i \in 0..(n - 1) |-> v]
<1>3. n \in Nat /\ align \in Nat \ {0}
  BY BufferAssumption
<1>4. /\ DOMAIN data = 0..(n - 1) /\ IsArray(data)
      /\ allocate(o, n, align, aligned, data)
  BY <1>2 DEF IsArray
<1> HIDE DEF data
<1> QED
  BY <1>1, <1>3, <1>4, Allocates

\* The copy is as long as the original and has its elements.
LEMMA CopyConstructs ==
  ASSUME IInv, NEW o \in Object, NEW p \in Object, CopyConstruct(o, p)
  PROVE  IInv'
<1>1. o \in Object \ DOMAIN obj /\ ~twice /\ UNCHANGED <<class, assigned, twice>>
  BY DEF CopyConstruct, Call
<1>2. p \in Usable /\ p \in DOMAIN obj
  BY DEF CopyConstruct, Usable
<1>3. /\ obj[p].nLength \in Nat /\ obj[p].nAlign \in Nat \ {0}
      /\ obj[p].bAligned \in BOOLEAN
  BY <1>2 DEF IInv, Buffers, IsBuffer
<1>4. DOMAIN Data(p) = 0..(obj[p].nLength - 1) /\ IsArray(Data(p))
  BY <1>2 DEF IInv, Fits, Memories, IsMemory, Usable, Data, Memory
<1>5. allocate(o, obj[p].nLength, obj[p].nAlign, obj[p].bAligned, Data(p))
  BY DEF CopyConstruct
<1> QED
  BY <1>1, <1>3, <1>4, <1>5, Allocates

\* A buffer that is assigned to is the same record, of memory that is there.
LEMMA Assigns ==
  ASSUME IInv, NEW o \in Object, NEW p \in Object, Assign(o, p)
  PROVE  IInv'
<1>1. /\ o \in DOMAIN obj /\ p \in DOMAIN obj /\ p \in Usable
      /\ obj' = [obj EXCEPT ![o] = obj[p]] /\ assigned' = assigned \cup {o}
      /\ UNCHANGED <<class, mem, outside, twice>>
  BY DEF Assign, Usable
<1>2. /\ DOMAIN obj' = DOMAIN obj /\ obj'[o] = obj[p]
      /\ \A q \in DOMAIN obj : q # o => obj'[q] = obj[q]
      /\ assigned' # {}
  BY <1>1
<1>3. Buffers'
  <2>1. ASSUME NEW q \in DOMAIN obj PROVE IsBuffer(obj[q])'
    <3>1. obj'[q] \in {obj[q], obj[p]} /\ IsBuffer(obj[q]) /\ IsBuffer(obj[p])
      BY <1>1, <1>2 DEF IInv, Buffers
    <3> QED BY <1>1, <3>1 DEF IsBuffer, DataStart, Unit
  <2> QED BY <1>2, <2>1 DEF IInv, Buffers
<1>4. Memories'
  BY <1>1 DEF IInv, Memories, IsMemory, Watched
<1>5. Fits'
  <2>1. ASSUME NEW q \in Usable'
        PROVE  DOMAIN mem'[obj'[q].pData].data = 0..(obj'[q].nLength - 1)
    <3>1. CASE q = o
      BY <1>1, <1>2, <3>1 DEF IInv, Fits, Data, Memory
    <3>2. CASE q # o
      <4>1. q \in Usable
        BY <1>1, <1>2, <3>2 DEF Usable
      <4> QED BY <1>1, <1>2, <3>2, <4>1 DEF IInv, Fits, Data, Memory, Usable
    <3> QED BY <3>1, <3>2
  <2> QED BY <2>1 DEF Fits, Data, Memory
<1>6. MemoryOwned' /\ Sized'
  BY <1>2 DEF MemoryOwned, Sized
<1> QED
  BY <1>1, <1>3, <1>4, <1>5, <1>6 DEF IInv

\* Destruction takes the memory of this buffer and of no other.
LEMMA Destroys ==
  ASSUME IInv, NEW o \in Object, Destroy(o)
  PROVE  IInv'
<1>1. /\ o \in DOMAIN obj /\ obj' = Without(obj, o)
      /\ mem' = Without(mem, obj[o].pData)
      /\ twice' = (obj[o].pData \notin DOMAIN mem)
      /\ UNCHANGED <<class, assigned, outside>>
  BY DEF Destroy
<1>2. /\ DOMAIN obj' = DOMAIN obj \ {o}
      /\ DOMAIN mem' = DOMAIN mem \ {obj[o].pData}
      /\ \A q \in DOMAIN obj' : obj'[q] = obj[q]
      /\ \A b \in DOMAIN mem' : mem'[b] = mem[b]
  BY <1>1 DEF Without
<1>3. Buffers'
  <2>1. ASSUME NEW q \in DOMAIN obj' PROVE IsBuffer(obj[q])'
    <3>1. obj'[q] = obj[q] /\ IsBuffer(obj[q])
      BY <1>2 DEF IInv, Buffers
    <3> QED BY <1>1, <3>1 DEF IsBuffer, DataStart, Unit
  <2> QED BY <1>2, <2>1 DEF IInv, Buffers
<1>4. Memories'
  BY <1>1, <1>2 DEF IInv, Memories, IsMemory, Watched
<1>5. Fits'
  BY <1>2 DEF IInv, Fits, Usable, Data, Memory
<1>6. ASSUME assigned = {} PROVE MemoryOwned' /\ Sized'
  <2>1. /\ DOMAIN mem = {obj[q].pData : q \in DOMAIN obj}
        /\ \A q, r \in DOMAIN obj : obj[q].pData = obj[r].pData => q = r
        /\ \A q \in DOMAIN obj : Memory(q).size = Room(obj[q].nLength, obj[q].nAlign)
    BY <1>6 DEF IInv, MemoryOwned, Sized
  <2>2. twice' = FALSE
    BY <1>1, <2>1
  <2>3. DOMAIN mem' = {obj'[q].pData : q \in DOMAIN obj'}
    BY <1>1, <1>2, <2>1
  <2>4. \A q, r \in DOMAIN obj' : obj'[q].pData = obj'[r].pData => q = r
    BY <1>2, <2>1
  <2>5. \A q \in DOMAIN obj' : Memory(q)' = Memory(q)
    BY <1>2, <2>3 DEF Memory
  <2>6. Sized'
    BY <1>1, <1>2, <2>1, <2>5 DEF Sized, Room, Unit
  <2> QED BY <2>2, <2>3, <2>4, <2>6 DEF MemoryOwned
<1>7. assigned' = assigned
  BY <1>1
<1>8. MemoryOwned' /\ Sized'
  BY <1>6, <1>7 DEF MemoryOwned, Sized
<1> QED
  BY <1>1, <1>3, <1>4, <1>5, <1>8 DEF IInv

\* A write changes data, and a word exactly when it is next to the data.
LEMMA Writes ==
  ASSUME IInv, NEW o \in DOMAIN obj, NEW w, Write(o, w),
         outside' = IF -1 \in DOMAIN w \/ obj[o].nLength \in DOMAIN w
                    THEN outside \cup {obj[o].pData} ELSE outside
  PROVE  IInv'
<1> DEFINE b == obj[o].pData
           n == obj[o].nLength
<1>1. /\ b \in DOMAIN mem /\ n \in Nat
      /\ mem' = [mem EXCEPT ![b] = Written(mem[b], n, w)]
      /\ UNCHANGED <<class, obj, assigned, twice>>
  BY DEF Write, Usable, IInv, Buffers, IsBuffer
<1>2. IsMemory(mem[b]) /\ Watched(b)
  BY <1>1 DEF IInv, Memories
<1>3. mem'[b] = Written(mem[b], n, w)
  BY <1>1
<1>4. /\ DOMAIN mem[b].data = 0..(n - 1)
      /\ mem'[b].size = mem[b].size /\ mem'[b].maker = mem[b].maker
      /\ DOMAIN mem'[b].data = 0..(n - 1)
      /\ mem'[b].head = IF -1 \in DOMAIN w THEN Nobody ELSE mem[b].head
      /\ mem'[b].tail = IF n \in DOMAIN w THEN Nobody ELSE mem[b].tail
      /\ IsMemory(mem'[b])
  <2>1. DOMAIN mem[b].data = 0..(n - 1)
    BY <1>1 DEF IInv, Fits, Usable, Data, Memory
  <2> DEFINE d == [i \in 0..(n - 1) |->
                     IF i \in DOMAIN w THEN w[i] ELSE mem[b].data[i]]
             h == IF -1 \in DOMAIN w THEN Nobody ELSE mem[b].head
             t == IF n \in DOMAIN w THEN Nobody ELSE mem[b].tail
  <2>2. mem'[b] = [mem[b] EXCEPT !.data = d, !.head = h, !.tail = t]
    BY <1>3 DEF Written
  <2>3. DOMAIN d = 0..(n - 1) /\ IsArray(d)
    BY DEF IsArray
  <2> HIDE DEF d, h, t
  <2>4. mem'[b] = [size |-> mem[b].size, data |-> d, head |-> h, tail |-> t,
                   maker |-> mem[b].maker]
    <3> HIDE DEF b
    <3>1. mem[b] = [size |-> mem[b].size, data |-> mem[b].data, head |-> mem[b].head,
                    tail |-> mem[b].tail, maker |-> mem[b].maker]
      BY <1>2 DEF IsMemory
    <3> QED BY <2>2, <3>1
  <2>5. /\ mem'[b].size = mem[b].size /\ mem'[b].maker = mem[b].maker
        /\ mem'[b].data = d /\ mem'[b].head = h /\ mem'[b].tail = t
    BY <2>4
  <2>6. IsMemory(mem'[b])
    BY <2>3, <2>4, <2>5 DEF IsMemory
  <2> QED BY <2>1, <2>3, <2>5, <2>6 DEF h, t
<1>5. /\ DOMAIN mem' = DOMAIN mem /\ \A c \in DOMAIN mem : c # b => mem'[c] = mem[c]
  BY <1>1
<1>6. Buffers'
  BY <1>1 DEF IInv, Buffers, IsBuffer, DataStart, Unit
<1>7. Memories'
  <2>1. ASSUME NEW c, c = b PROVE IsMemory(mem'[c]) /\ Watched(c)'
    <3>1. outside' = IF -1 \in DOMAIN w \/ n \in DOMAIN w
                     THEN outside \cup {c} ELSE outside
      BY <2>1
    <3> QED BY <1>2, <1>4, <2>1, <3>1 DEF Watched
  <2>2. ASSUME NEW c \in DOMAIN mem, c # b PROVE IsMemory(mem'[c]) /\ Watched(c)'
    BY <1>5, <2>2 DEF IInv, Memories, Watched
  <2>3. ASSUME NEW c \in DOMAIN mem PROVE IsMemory(mem'[c]) /\ Watched(c)'
    BY <2>1, <2>2
  <2> QED BY <1>5, <2>3 DEF Memories, IsMemory
<1>8. ASSUME NEW q \in Usable
      PROVE  DOMAIN mem'[obj[q].pData].data = DOMAIN Data(q)
  BY <1>4, <1>5 DEF Data, Memory, Usable
<1>9. Fits'
  BY <1>1, <1>5, <1>8 DEF IInv, Fits, Usable, Data, Memory
<1>10. MemoryOwned' /\ Sized'
  <2>1. MemoryOwned'
    BY <1>1, <1>5 DEF IInv, MemoryOwned
  <2>2. ASSUME assigned = {}, NEW q \in DOMAIN obj
        PROVE  mem'[obj[q].pData].size = mem[obj[q].pData].size
    <3>1. obj[q].pData \in DOMAIN mem
      BY <2>2 DEF IInv, MemoryOwned
    <3> QED BY <1>4, <1>5, <3>1
  <2> QED BY <1>1, <2>1, <2>2 DEF IInv, Sized, Memory, Room, Unit
<1> QED
  BY <1>1, <1>6, <1>7, <1>9, <1>10 DEF IInv

\* Only a user writes next to the data: fill(), copy() and replace() do not.
LEMMA WriteActions ==
  ASSUME IInv, NEW o \in Object, o \in DOMAIN obj,
         UserWrites(o) \/ Fill(o) \/ Copy(o) \/ Replace(o)
  PROVE  IInv'
<1> DEFINE n == obj[o].nLength
<1>1. n \in Nat
  BY DEF IInv, Buffers, IsBuffer
<1>2. ASSUME o \in Usable PROVE DOMAIN Data(o) = 0..(n - 1)
  BY <1>2 DEF IInv, Fits
<1>3. CASE UserWrites(o)
  <2>1. PICK i \in -1..n, v \in Elements :
          /\ Write(o, [j \in {i} |-> v])
          /\ outside' = IF i \in DOMAIN Data(o) THEN outside
                        ELSE outside \cup {obj[o].pData}
    BY <1>3 DEF UserWrites
  <2> DEFINE w == [j \in {i} |-> v]
  <2>2. DOMAIN w = {i}
    OBVIOUS
  <2>3. Write(o, w) /\ o \in Usable
    BY <2>1 DEF Write
  <2>4. i \in DOMAIN Data(o) <=> ~(-1 \in DOMAIN w \/ n \in DOMAIN w)
    BY <1>1, <1>2, <2>2, <2>3
  <2> HIDE DEF w
  <2> QED BY <2>1, <2>3, <2>4, Writes
<1>4. ASSUME NEW w, Write(o, w), DOMAIN w \subseteq 0..(n - 1), UNCHANGED outside
      PROVE  IInv'
  <2>1. ~(-1 \in DOMAIN w \/ n \in DOMAIN w)
    BY <1>1, <1>4
  <2> QED BY <1>4, <2>1, Writes
<1>5. CASE Fill(o)
  <2>1. PICK v \in Elements : Write(o, [i \in DOMAIN Data(o) |-> v]) /\ UNCHANGED outside
    BY <1>5 DEF Fill
  <2> DEFINE w == [i \in DOMAIN Data(o) |-> v]
  <2>2. Write(o, w) /\ DOMAIN w \subseteq 0..(n - 1)
    BY <1>2, <2>1 DEF Write
  <2> HIDE DEF w
  <2> QED BY <1>4, <2>1, <2>2
<1>6. CASE Copy(o)
  <2>1. PICK src : Write(o, Copied(n, src))
    BY <1>6 DEF Copy
  <2> DEFINE w == Copied(n, src)
  <2>2. DOMAIN w = 0..(n - 1)
    BY DEF Copied
  <2> HIDE DEF w
  <2>3. Write(o, w) /\ UNCHANGED outside
    BY <1>6, <2>1 DEF Copy, w
  <2> QED BY <1>4, <2>2, <2>3
<1>7. CASE Replace(o)
  <2>1. PICK off \in Lengths, count \in Lengths, v \in Values :
          Write(o, [i \in (off..(off + count - 1)) \cap DOMAIN Data(o) |-> v])
    BY <1>7 DEF Replace
  <2> DEFINE w == [i \in (off..(off + count - 1)) \cap DOMAIN Data(o) |-> v]
  <2>2. Write(o, w) /\ DOMAIN w \subseteq 0..(n - 1)
    BY <1>2, <2>1 DEF Write
  <2>3. UNCHANGED outside
    BY <1>7 DEF Replace
  <2> HIDE DEF w
  <2> QED BY <1>4, <2>2, <2>3
<1> QED
  BY <1>3, <1>5, <1>6, <1>7

\* The difference that is stored is an index of both buffers.
LEMMA Compares ==
  ASSUME IInv, NEW o \in Object, NEW p \in Object, NEW mode \in Modes,
         NEW t \in Tolerances, Compare(o, p, mode, t)
  PROVE  IInv'
<1>1. PICK i \in Differ(o, p, mode, t) :
        obj' = [x \in DOMAIN obj |->
                  IF x \in {o, p} THEN [obj[x] EXCEPT !.nLastDiff = i] ELSE obj[x]]
  BY DEF Compare
<1>2. /\ o \in DOMAIN obj /\ p \in DOMAIN obj /\ o \in Usable
      /\ obj[o].nLength = obj[p].nLength
      /\ UNCHANGED <<class, mem, assigned, outside, twice>>
  BY DEF Compare, Comparable, Usable
<1>3. obj[o].nLength \in Nat /\ i \in 0..(obj[o].nLength - 1)
  BY <1>2 DEF IInv, Buffers, IsBuffer, Fits, Differ
<1>4. DOMAIN obj' = DOMAIN obj
  BY <1>1
<1>5. ASSUME NEW q \in DOMAIN obj
      PROVE  /\ IsBuffer(obj[q])'
             /\ obj'[q].nLength = obj[q].nLength /\ obj'[q].nAlign = obj[q].nAlign
             /\ obj'[q].pData = obj[q].pData
  <2>1. IsBuffer(obj[q])
    BY DEF IInv, Buffers
  <2>2. CASE q \in {o, p}
    <3>1. obj'[q] = [obj[q] EXCEPT !.nLastDiff = i]
      BY <1>1, <2>2
    <3>2. obj[q] = [nLength |-> obj[q].nLength, nAlign |-> obj[q].nAlign,
                    bAligned |-> obj[q].bAligned, pData |-> obj[q].pData,
                    pBuffer |-> obj[q].pBuffer, nLastDiff |-> obj[q].nLastDiff]
      BY <2>1 DEF IsBuffer
    <3>3. obj'[q] = [nLength |-> obj[q].nLength, nAlign |-> obj[q].nAlign,
                     bAligned |-> obj[q].bAligned, pData |-> obj[q].pData,
                     pBuffer |-> obj[q].pBuffer, nLastDiff |-> i]
      BY <3>1, <3>2
    <3>4. obj[q].nLength = obj[o].nLength
      BY <1>2, <2>2
    <3> QED BY <1>2, <1>3, <2>1, <3>3, <3>4 DEF IsBuffer, DataStart, Unit
  <2>3. CASE q \notin {o, p}
    <3>1. obj'[q] = obj[q]
      BY <1>1, <2>3
    <3> QED BY <1>2, <2>1, <3>1 DEF IsBuffer, DataStart, Unit
  <2> QED BY <2>2, <2>3
<1>6. Buffers'
  BY <1>4, <1>5 DEF IInv, Buffers
<1>7. Memories'
  BY <1>2 DEF IInv, Memories, IsMemory, Watched
<1>8. Fits'
  BY <1>2, <1>4, <1>5 DEF IInv, Fits, Usable, Data, Memory
<1>9. MemoryOwned'
  BY <1>2, <1>4, <1>5 DEF IInv, MemoryOwned
<1>10. Sized'
  BY <1>2, <1>4, <1>5 DEF IInv, Sized, Memory, Room, Unit
<1> QED
  BY <1>2, <1>6, <1>7, <1>8, <1>9, <1>10 DEF IInv

\* Every step keeps the invariant.
LEMMA NextInv == IInv /\ [BufferNext]_bufferVars => IInv'
<1> SUFFICES ASSUME IInv, [BufferNext]_bufferVars PROVE IInv'
  OBVIOUS
<1>1. CASE BufferNext
  BY <1>1, Constructs, CopyConstructs, Assigns, Destroys, WriteActions, Compares
     DEF BufferNext
<1>2. CASE UNCHANGED bufferVars
  <2>1. UNCHANGED <<class, obj, mem, assigned, outside, twice>>
    BY <1>2 DEF bufferVars
  <2> QED
    BY <2>1 DEF IInv, Buffers, IsBuffer, Memories, IsMemory, Watched, Fits,
                MemoryOwned, Sized, Usable, Data, Memory, DataStart, Room, Unit
<1> QED
  BY <1>1, <1>2

\* What every state of a behaviour satisfies.
THEOREM Invariant == BufferSpec => []IInv
  BY InitInv, NextInv, PTL DEF BufferSpec

-----------------------------------------------------------------------------
(* What follows from it *)

\* Where the data of a buffer begin: behind the first word.
LEMMA Start ==
  ASSUME NEW base \in Nat, NEW a \in Nat \ {0}, NEW aligned \in BOOLEAN,
         class \in {"float", "byte"}
  PROVE  /\ DataStart(base, a, aligned) \in Nat
         /\ base + Word <= DataStart(base, a, aligned)
         /\ DataStart(base, a, aligned) <= base + Word + (IF aligned THEN a - 1 ELSE Unit)
         /\ IF aligned THEN check_alignment(DataStart(base, a, aligned), a)
            ELSE a > Unit => ~check_alignment(DataStart(base, a, aligned), a)
<1>1. base + Word \in Nat /\ Unit \in Nat \ {0}
  BY DEF Word, Unit
<1>2. CASE aligned
  <2> DEFINE x == base + Word
  <2>1. x \in Nat /\ DataStart(base, a, aligned) = align_pointer(x, a)
    BY <1>1, <1>2 DEF DataStart
  <2> HIDE DEF x
  <2>2. align_pointer(x, a) \in x..(x + a - 1) /\ check_alignment(align_pointer(x, a), a)
    BY <2>1, PointerAligned
  <2>3. /\ align_pointer(x, a) \in Nat
        /\ x <= align_pointer(x, a) /\ align_pointer(x, a) <= x + (a - 1)
    BY <2>1, <2>2
  <2> QED BY <1>2, <2>1, <2>2, <2>3 DEF x
<1>3. CASE ~aligned /\ (base + Word) % a = 0
  <2>1. DataStart(base, a, aligned) = base + Word + Unit
    BY <1>3 DEF DataStart, check_alignment
  <2>2. a > Unit => (base + Word + Unit) % a # 0
    BY <1>1, <1>3, ShiftUnaligns
  <2> QED BY <1>1, <1>3, <2>1, <2>2 DEF check_alignment
<1>4. CASE ~aligned /\ (base + Word) % a # 0
  BY <1>1, <1>4 DEF DataStart, check_alignment
<1> QED
  BY <1>2, <1>3, <1>4

\* Every buffer that was not assigned to has memory of its own, which is freed
\* once: allocate(), the destructors.
THEOREM BuffersOwnMemory == BufferSpec => []MemoryOwned
<1>1. IInv => MemoryOwned
  BY DEF IInv
<1> QED
  BY <1>1, Invariant, PTL

\* Both guards are inside the memory that allocate() asks for.
THEOREM GuardsAreInside == BufferSpec => []GuardsInside
<1>1. ASSUME IInv PROVE GuardsInside
  <2> SUFFICES ASSUME assigned = {}, NEW o \in DOMAIN obj
               PROVE  /\ obj[o].pData + Word <= obj[o].pBuffer
                      /\ obj[o].pBuffer + obj[o].nLength * Unit + Word
                           <= obj[o].pData + Memory(o).size
    BY DEF GuardsInside
  <2> DEFINE n == obj[o].nLength
             a == obj[o].nAlign
             s == obj[o].bAligned
             d == obj[o].pData
  <2>1. /\ n \in Nat /\ a \in Nat \ {0} /\ s \in BOOLEAN /\ d \in Nat
        /\ obj[o].pBuffer = DataStart(d, a, s) /\ class \in {"float", "byte"}
        /\ Memory(o).size = Room(n, a)
    BY <1>1 DEF IInv, Buffers, IsBuffer, Sized
  <2> HIDE DEF n, a, s, d
  <2>2. /\ DataStart(d, a, s) \in Nat /\ d + Word <= DataStart(d, a, s)
        /\ DataStart(d, a, s) <= d + Word + (IF s THEN a - 1 ELSE Unit)
    BY <2>1, Start
  <2>3. CASE class = "float"
    <3>1. Unit = 4 /\ Room(n, a) = 8 + (n + 1) * 4 + a
      BY <2>1, <2>3 DEF Unit, Room, Word
    <3> QED BY <2>1, <2>2, <3>1 DEF Word, n, d
  <2>4. CASE class = "byte"
    <3>1. Unit = 1 /\ Room(n, a) = 8 + n + a
      BY <2>1, <2>4 DEF Unit, Room, Word
    <3> QED BY <2>1, <2>2, <3>1 DEF Word, n, d
  <2> QED BY <2>1, <2>3, <2>4
<1> QED
  BY <1>1, Invariant, PTL

\* The data are aligned or unaligned as the constructor was told.
THEOREM AlignedAsAsked == BufferSpec => []AlignmentAsAsked
<1>1. ASSUME IInv PROVE AlignmentAsAsked
  <2> SUFFICES ASSUME NEW o \in DOMAIN obj
               PROVE  IF obj[o].bAligned
                      THEN check_alignment(obj[o].pBuffer, obj[o].nAlign)
                      ELSE obj[o].nAlign > Unit
                             => ~check_alignment(obj[o].pBuffer, obj[o].nAlign)
    BY DEF AlignmentAsAsked
  <2>1. /\ obj[o].nAlign \in Nat \ {0} /\ obj[o].bAligned \in BOOLEAN
        /\ obj[o].pData \in Nat /\ class \in {"float", "byte"}
        /\ obj[o].pBuffer = DataStart(obj[o].pData, obj[o].nAlign, obj[o].bAligned)
    BY <1>1 DEF IInv, Buffers, IsBuffer
  <2> QED BY <2>1, Start
<1> QED
  BY <1>1, Invariant, PTL

\* validate() tells whether the memory was made for this buffer and nothing
\* was written next to the data.
THEOREM ValidateIsExact == BufferSpec => []ValidMeansUntouched
<1>1. ASSUME IInv PROVE ValidMeansUntouched
  <2> SUFFICES ASSUME NEW o \in Usable
               PROVE  Validate(o) <=> Memory(o).maker = o /\ obj[o].pData \notin outside
    BY DEF ValidMeansUntouched
  <2>1. o \in Object /\ o # Nobody
    BY <1>1, BufferAssumption DEF Usable, IInv, Buffers
  <2>2. Watched(obj[o].pData)
    BY <1>1 DEF Usable, IInv, Memories
  <2> QED BY <2>1, <2>2 DEF Watched, Validate, Memory
<1> QED
  BY <1>1, Invariant, PTL

\* The difference that get_diff() reads at is an index of the data.
THEOREM DifferenceIsInside == BufferSpec => []DiffInside
<1>1. IInv => DiffInside
  BY DEF IInv, Buffers, IsBuffer, DiffInside
<1> QED
  BY <1>1, Invariant, PTL

-----------------------------------------------------------------------------
(* What the buffers hold *)

Numbers(data) == \A i \in DOMAIN data : data[i] \in Number

\* The data of a FloatBuffer are numbers.
HoldNumbers == class = "float" => \A b \in DOMAIN mem : Numbers(mem[b].data)

\* allocate() gets numbers.
LEMMA AllocatesNumbers ==
  ASSUME HoldNumbers, NEW o, NEW n, NEW align, NEW aligned, NEW data,
         allocate(o, n, align, aligned, data),
         class = "float" => Numbers(data), UNCHANGED class
  PROVE  HoldNumbers'
<1>1. PICK base \in Base :
        mem' = With(mem, base,
          [size |-> Room(n, align), data |-> data, head |-> o, tail |-> o, maker |-> o])
  BY DEF allocate
<1>2. /\ DOMAIN mem' = DOMAIN mem \cup {base} /\ mem'[base].data = data
      /\ \A b \in DOMAIN mem : b # base => mem'[b] = mem[b]
  BY <1>1 DEF With
<1> QED
  BY <1>2 DEF HoldNumbers, Numbers

\* So does every write.
LEMMA WritesNumbers ==
  ASSUME IInv, HoldNumbers, NEW o \in DOMAIN obj, NEW w, Write(o, w),
         class = "float" => Numbers(w)
  PROVE  HoldNumbers'
<1> SUFFICES ASSUME class = "float", NEW b \in DOMAIN mem' PROVE Numbers(mem'[b].data)
  BY DEF Write, HoldNumbers, Numbers
<1>1. /\ obj[o].pData \in DOMAIN mem /\ DOMAIN mem' = DOMAIN mem
      /\ mem' = [mem EXCEPT ![obj[o].pData] =
                   Written(mem[obj[o].pData], obj[o].nLength, w)]
  BY DEF Write, Usable
<1>2. Numbers(mem[b].data) /\ Numbers(w)
  BY <1>1 DEF HoldNumbers
<1>3. CASE b = obj[o].pData
  <2> DEFINE m == mem[b]
             n == obj[o].nLength
             d == [i \in 0..(n - 1) |-> IF i \in DOMAIN w THEN w[i] ELSE m.data[i]]
  <2>1. DOMAIN m.data = 0..(n - 1)
    BY <1>1, <1>3 DEF IInv, Fits, Usable, Data, Memory
  <2>2. m = [size |-> m.size, data |-> m.data, head |-> m.head, tail |-> m.tail,
             maker |-> m.maker]
    BY <1>1 DEF IInv, Memories, IsMemory
  <2>3. mem'[b] = Written(m, n, w)
    BY <1>1, <1>3
  <2>4. mem'[b].data = d
    <3> HIDE DEF m
    <3> QED BY <2>2, <2>3 DEF Written
  <2>5. Numbers(d)
    BY <1>2, <2>1 DEF Numbers
  <2> QED BY <2>4, <2>5
<1>4. CASE b # obj[o].pData
  BY <1>1, <1>2, <1>4
<1> QED
  BY <1>3, <1>4

\* Every step leaves numbers in the buffers of floats.
LEMMA NextHoldsNumbers ==
  IInv /\ HoldNumbers /\ [BufferNext]_bufferVars => HoldNumbers'
<1> SUFFICES ASSUME IInv, HoldNumbers, [BufferNext]_bufferVars PROVE HoldNumbers'
  OBVIOUS
<1>1. Values \subseteq Number /\ Random \subseteq Number /\ 0 \in Number
  BY BufferAssumption DEF Number
<1>2. ASSUME NEW o \in Object, Construct(o) PROVE HoldNumbers'
  <2>1. PICK n \in Lengths, align \in Aligns, aligned \in BOOLEAN,
             v \in IF class = "float" THEN Random ELSE Bytes :
          allocate(o, n, align, aligned, [i \in 0..(n - 1) |-> v])
    BY <1>2 DEF Construct
  <2> DEFINE data == [i \in 0..(n - 1) |-> v]
  <2>2. class = "float" => Numbers(data)
    BY <1>1, <2>1 DEF Numbers
  <2>3. allocate(o, n, align, aligned, data) /\ UNCHANGED class
    BY <1>2, <2>1 DEF Construct
  <2> HIDE DEF data
  <2> QED BY <2>2, <2>3, AllocatesNumbers
<1>3. ASSUME NEW p \in Usable PROVE class = "float" => Numbers(Data(p))
  BY DEF HoldNumbers, Usable, Data, Memory
<1>4. ASSUME NEW o \in Object, NEW p \in Object, CopyConstruct(o, p)
      PROVE  HoldNumbers'
  <2>1. /\ p \in Usable /\ UNCHANGED class
        /\ allocate(o, obj[p].nLength, obj[p].nAlign, obj[p].bAligned, Data(p))
    BY <1>4 DEF CopyConstruct
  <2> QED BY <1>3, <2>1, AllocatesNumbers
<1>5. ASSUME NEW o \in DOMAIN obj, UserWrites(o) PROVE HoldNumbers'
  <2>1. PICK i \in -1..obj[o].nLength, v \in Elements : Write(o, [j \in {i} |-> v])
    BY <1>5 DEF UserWrites
  <2> DEFINE w == [j \in {i} |-> v]
  <2>2. class = "float" => Numbers(w)
    BY <1>1, <2>1 DEF Numbers, Elements
  <2>3. Write(o, w)
    BY <2>1
  <2> HIDE DEF w
  <2> QED BY <2>2, <2>3, WritesNumbers
<1>6. ASSUME NEW o \in DOMAIN obj, Fill(o) PROVE HoldNumbers'
  <2>1. PICK v \in Elements : Write(o, [i \in DOMAIN Data(o) |-> v])
    BY <1>6 DEF Fill
  <2> DEFINE w == [i \in DOMAIN Data(o) |-> v]
  <2>2. class = "float" => Numbers(w)
    BY <1>1, <2>1 DEF Numbers, Elements
  <2>3. Write(o, w)
    BY <2>1
  <2> HIDE DEF w
  <2> QED BY <2>2, <2>3, WritesNumbers
<1>7. ASSUME NEW o \in DOMAIN obj, Copy(o) PROVE HoldNumbers'
  <2>1. ASSUME NEW src, Numbers(src), NEW n, Write(o, Copied(n, src))
        PROVE  HoldNumbers'
    <3> DEFINE w == Copied(n, src)
    <3>1. Numbers(w)
      BY <1>1, <2>1 DEF Numbers, Copied
    <3> HIDE DEF w
    <3>2. Write(o, w)
      BY <2>1 DEF w
    <3> QED BY <3>1, <3>2, WritesNumbers
  <2>2. CASE \E p \in Usable : Write(o, Copied(obj[o].nLength, Data(p)))
    <3>1. class = "float"
      BY <1>7 DEF Copy
    <3> QED BY <1>3, <2>1, <2>2, <3>1
  <2>3. CASE \E count \in Lengths, v \in Values :
               Write(o, Copied(obj[o].nLength, [i \in 0..(count - 1) |-> v]))
    <3>1. PICK count \in Lengths, v \in Values :
            Write(o, Copied(obj[o].nLength, [i \in 0..(count - 1) |-> v]))
      BY <2>3
    <3>2. Numbers([i \in 0..(count - 1) |-> v])
      BY <1>1, <3>1 DEF Numbers
    <3> QED BY <2>1, <3>1, <3>2
  <2> QED BY <1>7, <2>2, <2>3 DEF Copy
<1>8. ASSUME NEW o \in DOMAIN obj, Replace(o) PROVE HoldNumbers'
  <2>1. PICK off \in Lengths, count \in Lengths, v \in Values :
          Write(o, [i \in (off..(off + count - 1)) \cap DOMAIN Data(o) |-> v])
    BY <1>8 DEF Replace
  <2> DEFINE w == [i \in (off..(off + count - 1)) \cap DOMAIN Data(o) |-> v]
  <2>2. Numbers(w)
    BY <1>1, <2>1 DEF Numbers
  <2>3. Write(o, w)
    BY <2>1
  <2> HIDE DEF w
  <2> QED BY <2>2, <2>3, WritesNumbers
<1>9. ASSUME NEW o \in Object, Destroy(o) PROVE HoldNumbers'
  <2>1. mem' = Without(mem, obj[o].pData) /\ UNCHANGED class
    BY <1>9 DEF Destroy
  <2>2. DOMAIN mem' \subseteq DOMAIN mem /\ \A b \in DOMAIN mem' : mem'[b] = mem[b]
    BY <2>1 DEF Without
  <2> QED BY <2>1, <2>2 DEF HoldNumbers
<1>10. ASSUME UNCHANGED <<class, mem>> PROVE HoldNumbers'
  BY <1>10 DEF HoldNumbers
<1>11. ASSUME NEW o \in Object, NEW p \in Object, Assign(o, p) PROVE HoldNumbers'
  BY <1>10, <1>11 DEF Assign
<1>12. ASSUME NEW o \in Object, NEW p \in Object, NEW mode \in Modes,
              NEW t \in Tolerances, Compare(o, p, mode, t)
       PROVE  HoldNumbers'
  BY <1>10, <1>12 DEF Compare
<1>13. CASE BufferNext
  BY <1>2, <1>4, <1>5, <1>6, <1>7, <1>8, <1>9, <1>11, <1>12, <1>13 DEF BufferNext
<1>14. CASE UNCHANGED bufferVars
  BY <1>10, <1>14 DEF bufferVars
<1> QED
  BY <1>13, <1>14

\* A float buffer holds numbers, in every state.
THEOREM BuffersHoldNumbers == BufferSpec => []HoldNumbers
<1>1. BufferInit => HoldNumbers
  BY DEF BufferInit, HoldNumbers
<1> QED
  BY <1>1, Invariant, NextHoldsNumbers, PTL DEF BufferSpec

\* equals_relative() and equals_absolute() answer the same for both orders.
THEOREM ComparisonsSymmetric == BufferSpec => []EqualsSymmetric
<1>1. ASSUME IInv, HoldNumbers PROVE EqualsSymmetric
  <2> SUFFICES ASSUME class = "float", NEW o \in Usable, NEW p \in Usable,
                      NEW mode \in {"relative", "absolute"}, NEW t \in Tolerances
               PROVE  Equals(o, p, mode, t) <=> Equals(p, o, mode, t)
    BY DEF EqualsSymmetric, Equals
  <2>1. ASSUME NEW a \in Number, NEW b \in Number
        PROVE  Near(mode, a, b, t) <=> Near(mode, b, a, t)
    <3>1. t \in Int
      BY BufferAssumption, FloatAssumption
    <3> QED BY <3>1, RelativeSymmetric, AbsoluteSymmetric DEF Near
  <2>2. Comparable(o, p) <=> Comparable(p, o)
    BY DEF Comparable
  <2>3. ASSUME Comparable(o, p) PROVE Differ(o, p, mode, t) = Differ(p, o, mode, t)
    <3>1. DOMAIN Data(o) = DOMAIN Data(p)
      BY <1>1, <2>3 DEF IInv, Fits, Comparable
    <3>2. \A i \in DOMAIN Data(o) : Data(o)[i] \in Number /\ Data(p)[i] \in Number
      BY <1>1, <3>1 DEF HoldNumbers, Numbers, Usable, Data, Memory
    <3> QED BY <2>1, <3>1, <3>2 DEF Differ
  <2> QED BY <2>2, <2>3 DEF Equals
<1> QED
  BY <1>1, Invariant, BuffersHoldNumbers, PTL

\* Buffers that compare equal are of one length, untouched outside their data,
\* and close in every element.
THEOREM EqualBuffersAreClose == BufferSpec => []EqualMeansClose
<1>1. ASSUME IInv, HoldNumbers, ValidMeansUntouched PROVE EqualMeansClose
  <2> SUFFICES ASSUME class = "float", NEW o \in Usable, NEW p \in Usable,
                      NEW mode \in Modes, NEW t \in Tolerances, Equals(o, p, mode, t)
               PROVE  /\ obj[o].nLength = obj[p].nLength
                      /\ {obj[o].pData, obj[p].pData} \cap outside = {}
                      /\ \A i \in DOMAIN Data(o) : Close(Data(o)[i], Data(p)[i], t)
    BY DEF EqualMeansClose
  <2>1. /\ obj[o].nLength = obj[p].nLength /\ Validate(o) /\ Validate(p)
        /\ Differ(o, p, mode, t) = {}
    BY DEF Equals, Comparable
  <2>2. {obj[o].pData, obj[p].pData} \cap outside = {}
    BY <1>1, <2>1 DEF ValidMeansUntouched
  <2>3. ASSUME NEW i \in DOMAIN Data(o) PROVE Close(Data(o)[i], Data(p)[i], t)
    <3>1. i \in DOMAIN Data(p)
      BY <1>1, <2>1 DEF IInv, Fits
    <3>2. Data(o)[i] \in Number /\ Data(p)[i] \in Number
      BY <1>1, <3>1 DEF HoldNumbers, Numbers, Usable, Data, Memory
    <3>3. Near(mode, Data(o)[i], Data(p)[i], t)
      BY <2>1, <3>1 DEF Differ
    <3>4. t \in 1..One
      BY BufferAssumption
    <3> QED BY <3>2, <3>3, <3>4, NearIsClose
  <2> QED BY <2>1, <2>2, <2>3
<1> QED
  BY <1>1, Invariant, BuffersHoldNumbers, ValidateIsExact, PTL

\* memcmp() of what is inside the data tells whether it is the same.
THEOREM BytesAreCompared == BufferSpec => []BytesCompared
<1>1. ASSUME IInv PROVE BytesCompared
  <2> SUFFICES ASSUME NEW o \in Usable
      PROVE  /\ \A p \in Usable : obj[o].nLength = obj[p].nLength
                  => BuffersEqual(o, p) = {Data(o) = Data(p)}
             /\ \A off, count \in 0..(SizeT - 1), v \in Bytes : off + count < SizeT
                  => BytesEqual(o, off, count, [i \in 0..(count - 1) |-> v]) =
                       {/\ off + count <= obj[o].nLength
                        /\ \A i \in off..(off + count - 1) : Data(o)[i] = v}
    BY DEF BytesCompared
  <2>1. ASSUME NEW p \in Usable
        PROVE  DOMAIN Data(p) = 0..(obj[p].nLength - 1) /\ IsArray(Data(p))
    BY <1>1 DEF IInv, Fits, Memories, IsMemory, Usable, Data, Memory
  <2>2. obj[o].nLength \in Nat
    BY <1>1 DEF IInv, Buffers, IsBuffer, Usable
  <2>3. ASSUME NEW p \in Usable, obj[o].nLength = obj[p].nLength
        PROVE  BuffersEqual(o, p) = {Data(o) = Data(p)}
    <3> DEFINE x == Data(o)
               y == Data(p)
    <3>1. DOMAIN x = DOMAIN y /\ DOMAIN x \subseteq Int /\ IsArray(x) /\ IsArray(y)
      <4>1. DOMAIN x = 0..(obj[o].nLength - 1) /\ IsArray(x)
        BY <2>1
      <4>2. DOMAIN y = 0..(obj[o].nLength - 1) /\ IsArray(y)
        BY <2>1, <2>3
      <4> QED BY <4>1, <4>2
    <3>2. BuffersEqual(o, p) = Memcmp(y, 0, x)
      BY DEF BuffersEqual
    <3> HIDE DEF x, y
    <3>3. \A i \in DOMAIN x : 0 + i = i
      BY <3>1
    <3>4. CASE x = y
      <4>1. Memcmp(y, 0, x) = {TRUE}
        BY <3>1, <3>3, <3>4 DEF Memcmp
      <4> QED BY <3>2, <3>4, <4>1 DEF x, y
    <3>5. CASE x # y
      <4>1. \E i \in DOMAIN x : x[i] # y[i]
        BY <3>1, <3>5 DEF IsArray
      <4>2. Memcmp(y, 0, x) = {FALSE}
        BY <3>1, <3>3, <4>1 DEF Memcmp
      <4>3. (x = y) = FALSE
        BY <3>5
      <4> QED BY <3>2, <4>2, <4>3 DEF x, y
    <3> QED BY <3>4, <3>5
  <2>4. ASSUME NEW off \in 0..(SizeT - 1), NEW count \in 0..(SizeT - 1),
               NEW v \in Bytes, off + count < SizeT
        PROVE  BytesEqual(o, off, count, [i \in 0..(count - 1) |-> v]) =
                 {/\ off + count <= obj[o].nLength
                  /\ \A i \in off..(off + count - 1) : Data(o)[i] = v}
    <3> DEFINE w == [i \in 0..(count - 1) |-> v]
               x == Data(o)
               n == obj[o].nLength
               same == /\ off + count <= n
                       /\ \A i \in off..(off + count - 1) : x[i] = v
    <3>1. off \in Nat /\ count \in Nat /\ (off + count) % SizeT = off + count
      BY <2>4, BufferAssumption
    <3>2. DOMAIN x = 0..(n - 1) /\ n \in Nat
      BY <2>1, <2>2
    <3>3. BytesEqual(o, off, count, w) =
            IF off + count > n THEN {FALSE} ELSE Memcmp(x, off, w)
      BY <3>1 DEF BytesEqual
    <3>4. DOMAIN w = 0..(count - 1) /\ \A i \in DOMAIN w : w[i] = v
      OBVIOUS
    <3> HIDE DEF w, x, n
    <3>5. same \in BOOLEAN
      OBVIOUS
    <3>6. same <=> off + count <= n /\ \A i \in off..(off + count - 1) : x[i] = v
      OBVIOUS
    <3> HIDE DEF same
    <3>7. CASE off + count > n
      <4>1. same = FALSE
        BY <3>1, <3>2, <3>5, <3>6, <3>7
      <4> QED BY <3>3, <3>7, <4>1 DEF w, x, n, same
    <3>8. CASE off + count <= n
      <4>1. \A i \in DOMAIN w : off + i \in DOMAIN x /\ off + i \in off..(off + count - 1)
        BY <3>1, <3>2, <3>4, <3>8
      <4>2. \A j \in off..(off + count - 1) : j - off \in DOMAIN w /\ off + (j - off) = j
        BY <3>1, <3>4
      <4>3. (\E i \in DOMAIN w : x[off + i] # w[i]) <=> ~same
        BY <3>4, <3>6, <3>8, <4>1, <4>2
      <4>4. BytesEqual(o, off, count, w) = Memcmp(x, off, w)
        <5>1. ~(off + count > n)
          BY <3>1, <3>2, <3>8
        <5> QED BY <3>3, <5>1
      <4>5. CASE same
        <5>1. Memcmp(x, off, w) = {TRUE} /\ same = TRUE
          BY <3>5, <4>1, <4>3, <4>5 DEF Memcmp
        <5> QED BY <4>4, <5>1 DEF w, x, n, same
      <4>6. CASE ~same
        <5>1. Memcmp(x, off, w) = {FALSE} /\ same = FALSE
          BY <3>5, <4>1, <4>3, <4>6 DEF Memcmp
        <5> QED BY <4>4, <5>1 DEF w, x, n, same
      <4> QED BY <4>5, <4>6
    <3>9. off + count > n \/ off + count <= n
      BY <3>1, <3>2
    <3> QED BY <3>7, <3>8, <3>9
  <2> QED BY <2>3, <2>4
<1> QED
  BY <1>1, Invariant, PTL
=============================================================================
