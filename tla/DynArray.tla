------------------------------ MODULE DynArray ------------------------------
(***************************************************************************)
(* The two growing arrays of pointers: dynarray_t                          *)
(* (src/include/lsp-plug.in/test-fw/main/dynarray.h), which holds the      *)
(* lists of tests, patterns and statistics, and the list of the functions  *)
(* that TEST_EXPORT() marks (src/src/main/test.cpp).                       *)
(*                                                                         *)
(* An array is a record: memory for `capacity' pointers, the first `size'  *)
(* of them in use. An operation that needs memory and does not get it      *)
(* leaves the array alone, and its caller is told so or not.               *)
(***************************************************************************)
EXTENDS Integers, Sequences

CONSTANTS
  Null,         \* the null pointer
  Garbage,      \* what memory holds that was not written to
  Chunk,        \* how much a dynarray_t grows, 0x20
  SupportMin    \* the first capacity of the list of functions, 0x20

ASSUME ArrayAssumption ==
  /\ Chunk \in Nat \ {0}
  /\ SupportMin \in Nat \ {0, 1}

Empty == [data |-> [i \in {} |-> Null], size |-> 0, capacity |-> 0]

IsFull(a) == a.size >= a.capacity

\* Slip: malloc() in the place of realloc().
Grown_Fresh(a, capacity) ==
  [data |-> [i \in 0..(capacity - 1) |-> Garbage],
   size |-> a.size, capacity |-> capacity]

\* realloc()
Grown(a, capacity) ==
  [data |-> [i \in 0..(capacity - 1) |->
               IF i < a.capacity THEN a.data[i] ELSE Garbage],
   size |-> a.size, capacity |-> capacity]

Put(a, ptr) ==
  [a EXCEPT !.data = [@ EXCEPT ![a.size] = ptr], !.size = @ + 1]

\* dynarray_t::add(), with the memory it needs
Added(a, ptr) == Put(IF IsFull(a) THEN Grown(a, a.capacity + Chunk) ELSE a, ptr)

\* __mark_supported(): half as much again, but not less than the minimum. It
\* does not look whether the function is there.
Marked(a, ptr) ==
  LET half == a.capacity + a.capacity \div 2
      capacity == IF half < SupportMin THEN SupportMin ELSE half
  IN Put(IF IsFull(a) THEN Grown(a, capacity) ELSE a, ptr)

Holds(a, ptr) == \E i \in 0..(a.size - 1) : a.data[i] = ptr

\* dynarray_t::remove(size_t)
RemovedAt(a, idx) ==
  LET last == a.size - 1 IN
  [a EXCEPT !.size = last,
            !.data = [i \in DOMAIN a.data |->
                        CASE i = last -> Null
                          [] i \in idx..(last - 1) -> a.data[i + 1]
                          [] OTHER -> a.data[i]]]

\* Slip: a pointer that is the last one stays.
Removed_NotLast(a, ptr) ==
  IF \E i \in 0..(a.size - 2) : a.data[i] = ptr
  THEN RemovedAt(a, CHOOSE i \in 0..(a.size - 2) :
                      a.data[i] = ptr /\ \A j \in 0..(i - 1) : a.data[j] # ptr)
  ELSE a

\* dynarray_t::remove(const void *): the first one that is equal.
Removed(a, ptr) ==
  IF Holds(a, ptr)
  THEN RemovedAt(a, CHOOSE i \in 0..(a.size - 1) :
                      a.data[i] = ptr /\ \A j \in 0..(i - 1) : a.data[j] # ptr)
  ELSE a
=============================================================================
