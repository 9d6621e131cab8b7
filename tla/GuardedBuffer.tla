--------------------------- MODULE GuardedBuffer ---------------------------
(***************************************************************************)
(* The buffers with guards that a test hands to the code it tests          *)
(* (src/src/main/FloatBuffer.cpp, ByteBuffer.cpp). The memory of a buffer  *)
(* holds, at an address that is aligned or is not, the data between two    *)
(* words; each word is a signature, mixed with the address of the buffer   *)
(* object, by which validate() finds a write outside the data.             *)
(*                                                                         *)
(* Every buffer of a behaviour is of one of the two classes. A signature   *)
(* is modelled by the object whose address is in it.                       *)
(***************************************************************************)
EXTENDS FloatCompare

CONSTANTS
  Object,       \* where a test keeps its buffers
  Nobody,       \* no object: what a word holds that was written over
  Base,         \* the addresses that operator new returns
  Lengths, Aligns,   \* the arguments of the constructors
  Values,       \* what a user writes to floats
  Random,       \* what randomize() writes to floats
  Bytes,        \* the values of bytes
  Tolerances,   \* the tolerance of a comparison
  SizeT,        \* how many values size_t has
  MaxOps        \* bound: calls and writes

ASSUME BufferAssumption ==
  /\ Values \cup Random \subseteq Number /\ Bytes \subseteq Nat
  /\ Base \subseteq Nat /\ Lengths \subseteq Nat /\ Aligns \subseteq Nat \ {0}
  /\ Tolerances \subseteq 1..One /\ SizeT \in Nat \ {0}
  /\ Nobody \notin Object

VARIABLES
  class,        \* "float" or "byte"
  obj,          \* the buffers: their fields
  mem,          \* the memory that is allocated: its size, data and two words
  assigned,     \* history: the objects that were assigned to
  outside,      \* history: the memory a user wrote to outside the data
  twice,        \* history: was memory deleted that was not allocated?
  ops           \* how much of the bound is spent

bufferVars == <<class, obj, mem, assigned, outside, twice, ops>>

Word == 4                                       \* sizeof(uint32_t)
Unit == IF class = "float" THEN 4 ELSE 1
Elements == IF class = "float" THEN Values ELSE Bytes
Modes == {"relative", "absolute", "adaptive"}

With(f, x, v) == [y \in DOMAIN f \cup {x} |-> IF y = x THEN v ELSE f[y]]
Without(f, x) == [y \in DOMAIN f \ {x} |-> f[y]]

BufferInit ==
  /\ class \in {"float", "byte"}
  /\ obj = [o \in {} |-> Nobody] /\ mem = [b \in {} |-> Nobody]
  /\ assigned = {} /\ outside = {} /\ twice = FALSE /\ ops = 0

\* After memory was deleted twice anything may happen; it is not followed.
Call == ops < MaxOps /\ ops' = ops + 1 /\ ~twice

Memory(o) == mem[obj[o].pData]
Data(o) == Memory(o).data

\* The buffers whose memory is there
Usable == {o \in DOMAIN obj : obj[o].pData \in DOMAIN mem}

-----------------------------------------------------------------------------
(* Construction and destruction *)

align_pointer(x, align) == IF x % align = 0 THEN x ELSE x + align - (x % align)

check_alignment(x, align) == x % align = 0

\* Slip: one signature is forgotten.
Room_OneSignature(n, align) ==
  Word + (IF class = "float" THEN (n + 1) * Unit ELSE n) + align

\* What is asked of operator new
Room(n, align) ==
  2 * Word + (IF class = "float" THEN (n + 1) * Unit ELSE n) + align

\* Where the data begin
DataStart(base, align, aligned) ==
  LET head == base + Word IN
  IF aligned THEN align_pointer(head, align)
  ELSE IF check_alignment(head, align) THEN head + Unit
  ELSE head

\* allocate(). Memory that was deleted is not given out again as long as a
\* buffer points to it: what such a buffer does then is not followed.
allocate(o, n, align, aligned, data) ==
  \E base \in Base \ (DOMAIN mem \cup {obj[p].pData : p \in DOMAIN obj}) :
    /\ obj' = With(obj, o,
         [nLength |-> n, nAlign |-> align, bAligned |-> aligned, pData |-> base,
          pBuffer |-> DataStart(base, align, aligned), nLastDiff |-> -1])
    /\ mem' = With(mem, base,
         [size |-> Room(n, align), data |-> data, head |-> o, tail |-> o,
          maker |-> o])
    /\ outside' = outside \ {base}

\* Both constructors that take a length: random data, or those of an array
Construct(o) ==
  /\ Call /\ o \notin DOMAIN obj
  /\ \E n \in Lengths, align \in Aligns, aligned \in BOOLEAN,
        v \in IF class = "float" THEN Random ELSE Bytes :
       allocate(o, n, align, aligned, [i \in 0..(n - 1) |-> v])
  /\ UNCHANGED <<class, assigned, twice>>

\* Slip: the copy constructor is the one the compiler makes.
CopyConstruct_Shallow(o, p) ==
  /\ Call /\ o \notin DOMAIN obj /\ p \in Usable
  /\ obj' = With(obj, o, obj[p])
  /\ UNCHANGED <<class, mem, assigned, outside, twice>>

CopyConstruct(o, p) ==
  /\ Call /\ o \notin DOMAIN obj /\ p \in Usable
  /\ allocate(o, obj[p].nLength, obj[p].nAlign, obj[p].bAligned, Data(p))
  /\ UNCHANGED <<class, assigned, twice>>

\* operator=, which the compiler makes: it copies the pointers, too.
Assign(o, p) ==
  /\ Call /\ o # p /\ o \in Usable /\ p \in Usable
  /\ obj' = [obj EXCEPT ![o] = obj[p]]
  /\ assigned' = assigned \cup {o}
  /\ UNCHANGED <<class, mem, outside, twice>>

Destroy(o) ==
  /\ Call /\ o \in DOMAIN obj
  /\ obj' = Without(obj, o)
  /\ mem' = Without(mem, obj[o].pData)
  /\ twice' = (obj[o].pData \notin DOMAIN mem)
  /\ UNCHANGED <<class, assigned, outside>>

-----------------------------------------------------------------------------
(* Writing *)

\* The memory after values are written at their indices; an index next to the
\* data hits a signature.
Written(m, n, w) ==
  [m EXCEPT
     !.data = [i \in 0..(n - 1) |-> IF i \in DOMAIN w THEN w[i] ELSE m.data[i]],
     !.head = IF -1 \in DOMAIN w THEN Nobody ELSE m.head,
     !.tail = IF n \in DOMAIN w THEN Nobody ELSE m.tail]

Write(o, w) ==
  /\ Call /\ o \in Usable
  /\ mem' = [mem EXCEPT ![obj[o].pData] = Written(@, obj[o].nLength, w)]
  /\ UNCHANGED <<class, obj, assigned, twice>>

\* The code under test writes one element, perhaps one outside the data.
UserWrites(o) ==
  \E i \in -1..obj[o].nLength, v \in Elements :
    /\ Write(o, [j \in {i} |-> v])
    /\ outside' = IF i \in DOMAIN Data(o) THEN outside
                  ELSE outside \cup {obj[o].pData}

\* fill(), fill_zero(), randomize()
Fill(o) ==
  \E v \in Elements : /\ Write(o, [i \in DOMAIN Data(o) |-> v])
                      /\ UNCHANGED outside

\* Slip: as much as there is in the source.
Copied_All(n, src) ==
  [i \in DOMAIN src \cup 0..(n - 1) |-> IF i \in DOMAIN src THEN src[i] ELSE 0]

\* copy(): zeros after the end of the source
Copied(n, src) ==
  [i \in 0..(n - 1) |-> IF i \in DOMAIN src THEN src[i] ELSE 0]

\* From another buffer, or an array of the user
Copy(o) ==
  /\ class = "float"
  /\ \/ \E p \in Usable : Write(o, Copied(obj[o].nLength, Data(p)))
     \/ \E count \in Lengths, v \in Values :
          Write(o, Copied(obj[o].nLength, [i \in 0..(count - 1) |-> v]))
  /\ UNCHANGED outside

\* replace(), of as many as there is room for; vfill(), from an offset
Replace(o) ==
  /\ class = "float"
  /\ \E off, count \in Lengths, v \in Values :
       Write(o, [i \in (off..(off + count - 1)) \cap DOMAIN Data(o) |-> v])
  /\ UNCHANGED outside

-----------------------------------------------------------------------------
(* Validation and comparison *)

\* validate()
Validate(o) == Memory(o).head = o /\ Memory(o).tail = o

\* Slip: the lengths are not compared.
Comparable_AnyLength(o, p) == Validate(o) /\ Validate(p)

Comparable(o, p) ==
  obj[o].nLength = obj[p].nLength /\ Validate(o) /\ Validate(p)

Near(mode, a, b, t) ==
  CASE mode = "relative" -> float_equals_relative(a, b, t)
    [] mode = "absolute" -> float_equals_absolute(a, b, t)
    [] mode = "adaptive" -> float_equals_adaptive(a, b, t)

\* Where the data differ; what is behind the end does not matter, as long as
\* the lengths are equal.
Differ(o, p, mode, t) ==
  {i \in DOMAIN Data(o) :
     i \in DOMAIN Data(p) => ~Near(mode, Data(o)[i], Data(p)[i], t)}

\* What equals_relative(), equals_absolute() and equals_adaptive() answer
Equals(o, p, mode, t) == Comparable(o, p) /\ Differ(o, p, mode, t) = {}

\* The first difference is stored in both; any other answer leaves the one
\* that was stored before.
Compare(o, p, mode, t) ==
  /\ Call /\ class = "float" /\ o \in Usable /\ p \in Usable
  /\ Comparable(o, p)
  /\ LET differ == Differ(o, p, mode, t) IN
     \E i \in differ :
       /\ \A j \in differ : i <= j
       /\ obj' = [x \in DOMAIN obj |->
                     IF x \in {o, p} THEN [obj[x] EXCEPT !.nLastDiff = i] ELSE obj[x]]
  /\ UNCHANGED <<class, mem, assigned, outside, twice>>

\* What memcmp() says of the data from an offset and an array: anything, if
\* they are equal as far as the data go and it reads on behind their end.
Memcmp(data, off, w) ==
  IF \E i \in DOMAIN w : off + i \in DOMAIN data /\ data[off + i] # w[i]
  THEN {FALSE}
  ELSE IF \A i \in DOMAIN w : off + i \in DOMAIN data THEN {TRUE} ELSE BOOLEAN

\* Slip: the offset is not counted.
BytesEqual_NoOffset(o, off, count, w) ==
  IF count > obj[o].nLength THEN {FALSE} ELSE Memcmp(Data(o), off, w)

\* ByteBuffer::equals() of an array of `count' bytes, at an offset
BytesEqual(o, off, count, w) ==
  IF (off + count) % SizeT > obj[o].nLength THEN {FALSE}
  ELSE Memcmp(Data(o), off, w)

\* ByteBuffer::equals() of a buffer: as many bytes as this one has
BuffersEqual(o, p) == Memcmp(Data(p), 0, Data(o))

BufferNext ==
  \E o \in Object :
    \/ Construct(o) \/ Destroy(o)
    \/ o \in DOMAIN obj /\ (UserWrites(o) \/ Fill(o) \/ Copy(o) \/ Replace(o))
    \/ \E p \in Object :
         \/ CopyConstruct(o, p) \/ Assign(o, p)
         \/ \E mode \in Modes, t \in Tolerances : Compare(o, p, mode, t)

BufferSpec == BufferInit /\ [][BufferNext]_bufferVars

-----------------------------------------------------------------------------
(* Properties *)

\* As long as no buffer was assigned to, every buffer has memory of its own,
\* none is left over, and none is deleted twice.
MemoryOwned ==
  assigned = {} =>
    /\ ~twice
    /\ DOMAIN mem = {obj[o].pData : o \in DOMAIN obj}
    /\ \A o, p \in DOMAIN obj : obj[o].pData = obj[p].pData => o = p

\* Both signatures are inside the memory of the buffer, for every length,
\* alignment and address: the guards never write where they watch.
GuardsInside ==
  assigned = {} => \A o \in DOMAIN obj :
    /\ obj[o].pData + Word <= obj[o].pBuffer
    /\ obj[o].pBuffer + obj[o].nLength * Unit + Word
         <= obj[o].pData + Memory(o).size

\* The data are aligned if that was asked for, and are not if it was asked that
\* they be not, as far as one element can move them off.
AlignmentAsAsked ==
  \A o \in DOMAIN obj :
    IF obj[o].bAligned THEN check_alignment(obj[o].pBuffer, obj[o].nAlign)
    ELSE obj[o].nAlign > Unit => ~check_alignment(obj[o].pBuffer, obj[o].nAlign)

\* A buffer is valid if and only if it made the memory it uses and nothing was
\* written next to the data: no call of the buffers' own does that, and a
\* buffer that was assigned to, and shares its memory, is found out.
ValidMeansUntouched ==
  \A o \in Usable :
    Validate(o) <=> Memory(o).maker = o /\ obj[o].pData \notin outside

\* The distance of the sizes of two numbers is within the tolerance, measured
\* by the larger one if that is above one.
Close(a, b, t) ==
  Finite(a) /\ Finite(b)
  /\ \E scale \in {One, Fabs(a), Fabs(b)} :
       Fabs(Fabs(a) - Fabs(b)) * One <= t * scale

\* Buffers that compare equal have the same length and numbers that are close,
\* at every index, whichever the mode: never NaN, never an infinity, never a
\* buffer whose guards were written over. (Of the sign it says nothing: the
\* quotient loses it.)
EqualMeansClose ==
  class = "float" => \A o, p \in Usable, mode \in Modes, t \in Tolerances :
    Equals(o, p, mode, t) =>
      /\ obj[o].nLength = obj[p].nLength
      /\ {obj[o].pData, obj[p].pData} \cap outside = {}
      /\ \A i \in DOMAIN Data(o) : Close(Data(o)[i], Data(p)[i], t)

\* It does not matter which of the two buffers is asked, in the two modes that
\* treat the numbers alike.
EqualsSymmetric ==
  class = "float" =>
    \A o, p \in Usable, mode \in {"relative", "absolute"}, t \in Tolerances :
      Equals(o, p, mode, t) = Equals(p, o, mode, t)

\* get_diff() never reads outside the data.
DiffInside ==
  \A o \in DOMAIN obj : obj[o].nLastDiff \in -1..(obj[o].nLength - 1)

\* Buffers of the same length, and an array whose end can be told, compare as
\* their bytes do, and nothing is read outside the data.
BytesCompared ==
  class = "byte" => \A o \in Usable :
    /\ \A p \in Usable : obj[o].nLength = obj[p].nLength
         => BuffersEqual(o, p) = {Data(o) = Data(p)}
    /\ \A off, count \in 0..(SizeT - 1), v \in Bytes : off + count < SizeT
         => BytesEqual(o, off, count, [i \in 0..(count - 1) |-> v]) =
              {/\ off + count <= obj[o].nLength
               /\ \A i \in off..(off + count - 1) : Data(o)[i] = v}
=============================================================================
