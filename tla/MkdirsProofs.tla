---------------------------- MODULE MkdirsProofs ----------------------------
(***************************************************************************)
(* mkdirs() for any number of concurrent calls, any paths and any file     *)
(* system: a call that succeeds leaves its path behind, one that fails has *)
(* found an obstacle that was there before all calls.                      *)
(***************************************************************************)
EXTENDS Mkdirs, TLAPS, WellFoundedInduction, SequenceTheorems

-----------------------------------------------------------------------------
(* Names and entries *)

\* Numbers that are not none have a least one.
LEMMA LeastIn ==
  ASSUME NEW T \in SUBSET Nat, T # {}
  PROVE  \E m \in T : \A k \in T : ~(k < m)
<1> DEFINE Less == OpToRel(<, Nat)
<1>1. \A i, k \in Nat : k < i => <<k, i>> \in Less
  BY Zenon DEF OpToRel
<1>2. PICK m \in T : \A k \in T : ~(<<k, m>> \in Less)
  BY NatLessThanWellFounded, WFMin
<1> HIDE DEF Less
<1> QED
  BY <1>1, <1>2

\* How the entry of a path grows with its names.
Grows(f, q, d) ==
  IF d = 0 THEN <<>> ELSE IF q[d] = "" THEN f[d - 1] ELSE Append(f[d - 1], q[d])

\* There is a function from numbers of names to entries.
LEMMA EntryExists ==
  ASSUME NEW q \in Seq(STRING)
  PROVE  \E f \in [0..Len(q) -> Seq(STRING)] :
           f = [d \in 0..Len(q) |-> Grows(f, q, d)]
<1> DEFINE S == Seq(STRING)
           Walked(m) == \E f \in [0..m -> S] : \A d \in 0..m : f[d] = Grows(f, q, d)
           T == {m \in 0..Len(q) : ~Walked(m)}
<1>1. Len(q) \in Nat /\ <<>> \in S /\ \A d \in 1..Len(q) : q[d] \in STRING
  BY ElementOfSeq, LenProperties
<1>2. ASSUME T # {} PROVE FALSE
  <2>1. T \in SUBSET Nat
    BY <1>1
  <2>2. PICK m \in T : \A k \in T : ~(k < m)
    BY <1>2, <2>1, LeastIn
  <2>3. m \in 0..Len(q) /\ ~Walked(m)
    BY <2>2
  <2>4. Walked(0)
    <3> DEFINE f == [d \in 0..0 |-> <<>>]
    <3>1. f \in [0..0 -> S] /\ \A d \in 0..0 : f[d] = Grows(f, q, d)
      <4>1. \A d \in 0..0 : d = 0 /\ f[d] = <<>>
        OBVIOUS
      <4> QED BY <1>1, <4>1 DEF Grows
    <3> HIDE DEF f
    <3> QED BY <3>1
  <2>5. m # 0
    BY <2>3, <2>4
  <2>6. m - 1 \in 0..Len(q) /\ m - 1 < m /\ m \in 1..Len(q) /\ m - 1 \in 0..(m - 1)
    BY <1>1, <2>3, <2>5
  <2>7. Walked(m - 1)
    <3> HIDE DEF Walked
    <3>1. m - 1 \notin T
      <4> HIDE DEF T
      <4> QED BY <2>2, <2>6
    <3> QED BY <2>6, <3>1
  <2>8. PICK f \in [0..(m - 1) -> S] : \A d \in 0..(m - 1) : f[d] = Grows(f, q, d)
    BY <2>7
  <2> DEFINE g == [d \in 0..m |-> IF d = m THEN Grows(f, q, m) ELSE f[d]]
  <2>9. Grows(f, q, m) \in S
    <3>1. f[m - 1] \in S /\ q[m] \in STRING
      BY <1>1, <2>6
    <3>2. Append(f[m - 1], q[m]) \in S
      BY <3>1, AppendProperties
    <3> QED BY <2>5, <3>1, <3>2 DEF Grows
  <2>10. g \in [0..m -> S]
    <3> SUFFICES ASSUME NEW d \in 0..m
                 PROVE  (IF d = m THEN Grows(f, q, m) ELSE f[d]) \in S
      OBVIOUS
    <3>1. CASE d = m
      BY <2>9, <3>1
    <3>2. CASE d # m
      <4>1. d \in 0..(m - 1)
        BY <2>3, <3>2
      <4> QED BY <3>2, <4>1
    <3> QED BY <3>1, <3>2
  <2>11. \A d \in 0..(m - 1) : d \in 0..m /\ g[d] = f[d]
    BY <2>3
  <2>12. g[m] = Grows(f, q, m)
    BY <2>3
  <2> HIDE DEF g
  <2>13. \A d \in 0..m : g[d] = Grows(g, q, d)
    <3> SUFFICES ASSUME NEW d \in 0..m PROVE g[d] = Grows(g, q, d)
      OBVIOUS
    <3>1. CASE d = m
      <4>1. g[m - 1] = f[m - 1]
        BY <2>6, <2>11
      <4> QED BY <2>5, <2>12, <3>1, <4>1 DEF Grows
    <3>2. CASE d # m
      <4>1. d \in 0..(m - 1) /\ (d # 0 => d - 1 \in 0..(m - 1))
        BY <2>3, <3>2
      <4>2. g[d] = f[d] /\ (d # 0 => g[d - 1] = f[d - 1])
        BY <2>11, <4>1
      <4>3. f[d] = Grows(f, q, d)
        BY <2>8, <4>1
      <4> QED BY <4>2, <4>3 DEF Grows
    <3> QED BY <3>1, <3>2
  <2> QED BY <2>3, <2>10, <2>13
<1>3. Walked(Len(q))
  <2> HIDE DEF Walked
  <2>1. Len(q) \in 0..Len(q)
    BY <1>1
  <2> QED BY <1>2, <2>1
<1>4. PICK f \in [0..Len(q) -> S] : \A d \in 0..Len(q) : f[d] = Grows(f, q, d)
  BY <1>3
<1> QED
  BY <1>4

\* The entries of a path.
LEMMA EntryIs ==
  ASSUME NEW q \in Seq(STRING)
  PROVE  /\ Entry(q)[0] = <<>>
         /\ \A d \in 0..Len(q) : Entry(q)[d] \in Seq(STRING)
         /\ \A d \in 1..Len(q) :
              Entry(q)[d] = IF q[d] = "" THEN Entry(q)[d - 1]
                            ELSE Append(Entry(q)[d - 1], q[d])
<1> DEFINE Walk(g) == g = [d \in 0..Len(q) |-> Grows(g, q, d)]
<1>0. Len(q) \in Nat
  BY LenProperties
<1>1. Entry(q) = CHOOSE g : Walk(g)
  BY DEF Entry, Grows
<1>2. \E f : Walk(f)
  BY EntryExists
<1> HIDE DEF Walk
<1>3. Walk(Entry(q))
  BY <1>1, <1>2
<1>4. \A d \in 0..Len(q) : Entry(q)[d] = Grows(Entry(q), q, d)
  BY <1>3 DEF Walk
<1>5. Entry(q)[0] = <<>> /\ <<>> \in Seq(STRING)
  <2>1. 0 \in 0..Len(q) /\ <<>> \in Seq(STRING)
    BY <1>0, EmptySeq
  <2> QED BY <1>4, <2>1 DEF Grows
<1>6. \A d \in 1..Len(q) :
        Entry(q)[d] = IF q[d] = "" THEN Entry(q)[d - 1]
                      ELSE Append(Entry(q)[d - 1], q[d])
  <2>1. \A d \in 1..Len(q) : d \in 0..Len(q) /\ d # 0
    BY <1>0
  <2> QED BY <1>4, <2>1 DEF Grows
<1>7. \A d \in 0..Len(q) : Entry(q)[d] \in Seq(STRING)
  <2> DEFINE T == {d \in 0..Len(q) : Entry(q)[d] \notin Seq(STRING)}
  <2> SUFFICES ASSUME T # {} PROVE FALSE
    OBVIOUS
  <2>1. T \in SUBSET Nat
    BY <1>0
  <2>2. PICK m \in T : \A k \in T : ~(k < m)
    BY <2>1, LeastIn
  <2>3. m \in 0..Len(q) /\ Entry(q)[m] \notin Seq(STRING)
    BY <2>2
  <2>4. m # 0
    BY <1>5, <2>3
  <2>5. m - 1 \in 0..Len(q) /\ m - 1 < m /\ m \in 1..Len(q)
    BY <1>0, <2>3, <2>4
  <2>6. m - 1 \notin T
    <3> HIDE DEF T
    <3> QED BY <2>2, <2>5
  <2>7. Entry(q)[m - 1] \in Seq(STRING) /\ q[m] \in STRING
    BY <2>5, <2>6, ElementOfSeq
  <2>8. Append(Entry(q)[m - 1], q[m]) \in Seq(STRING)
    BY <2>7, AppendProperties
  <2> QED BY <1>6, <2>3, <2>5, <2>7, <2>8
<1> QED
  BY <1>5, <1>6, <1>7

\* The directory of a name is what comes before it.
LEMMA ParentIs ==
  ASSUME NEW S, NEW s \in Seq(S), NEW name \in S
  PROVE  Parent(Append(s, name)) = s /\ Append(s, name) # <<>>
<1> DEFINE t == Append(s, name)
<1>1. /\ t \in Seq(S) /\ Len(t) = Len(s) + 1 /\ Len(s) \in Nat
      /\ \A i \in 1..Len(s) : t[i] = s[i]
  BY AppendProperties, LenProperties
<1> HIDE DEF t
<1>2. Parent(t) = SubSeq(t, 1, Len(s))
  BY <1>1 DEF Parent, Front
<1>3. /\ Parent(t) \in Seq(S) /\ Len(Parent(t)) = Len(s)
      /\ \A i \in 1..Len(s) : Parent(t)[i] = s[i]
  BY <1>1, <1>2, SubSeqProperties
<1>4. Parent(t) = s
  BY <1>1, <1>3, SeqEqual
<1> QED
  BY <1>1, <1>4 DEF t

-----------------------------------------------------------------------------
TypeOK ==
  /\ tree \in [DOMAIN tree -> Directories \cup {"file"}]
  /\ platform \in {"posix", "windows"}
  /\ path \in [Procs -> Paths]
  /\ depth \in [Procs -> Nat] /\ \A p \in Procs : depth[p] \in 1..Len(path[p])
  /\ pc \in [Procs -> {"stat", "mkdir", "retry", "check", "done"}]
  /\ x \in [Procs -> Directories \cup {"file", "none"}]
  /\ res \in [Procs -> {OK, PERMISSION_DENIED, IO_ERROR, NOT_DIRECTORY}]

\* What was there stays, only directories are added, each to a directory.
Grown ==
  /\ planted \in Trees /\ DOMAIN planted \subseteq DOMAIN tree
  /\ \A e \in DOMAIN tree :
       /\ tree[e] = IF e \in DOMAIN planted THEN planted[e] ELSE "dir"
       /\ e # <<>> => Parent(e) \in DOMAIN tree /\ IsDir(Parent(e))

\* stat() finds the first d names of the path, on Windows a directory.
Visible(p, d) ==
  /\ Upto(p, d) \in DOMAIN tree
  /\ path[p][d] = "" \/ platform = "windows" => IsDir(Upto(p, d))

\* What a call has behind it is there.
PassedBy(p) ==
  \A d \in 1..Len(path[p]) :
    d < depth[p] \/ (pc[p] = "done" /\ res[p] = OK) => Visible(p, d)

Refused == IF platform = "posix" THEN "none" ELSE "file"

\* What a call knows about the name it is at, or else there is a cause to fail.
SoundAt(p) ==
  /\ pc[p] # "done" => res[p] = OK
  /\ pc[p] \in {"mkdir", "retry"} =>
       x[p] = "none" /\ (Type(Here(p)) = "file" => path[p][depth[p]] = "")
  /\ pc[p] = "check" /\ x[p] # Refused => Visible(p, depth[p])
  /\ ~Obstructed(p) =>
       /\ pc[p] = "mkdir" => Here(p) \notin DOMAIN planted
       /\ pc[p] = "retry" => IsDir(Here(p))
       /\ pc[p] = "check" => x[p] # Refused
       /\ pc[p] = "done" => res[p] = OK

IInv == TypeOK /\ Grown /\ \A p \in Procs : PassedBy(p) /\ SoundAt(p)

\* What a call may be asked for.
LEMMA PathIs ==
  ASSUME TypeOK, NEW p \in Procs
  PROVE  /\ path[p] \in Seq(STRING) /\ Len(path[p]) \in Nat \ {0}
         /\ \A d \in 1..Len(path[p]) : path[p][d] \in STRING
         /\ depth[p] \in 1..Len(path[p]) /\ depth[p] \in Nat
         /\ depth[p] # 1 =>
              /\ depth[p] - 1 \in 1..Len(path[p])
              /\ depth[p] - 1 < Len(path[p]) /\ depth[p] - 1 < depth[p]
         /\ path[p] = <<"">> => path[p][depth[p]] = ""
<1>1. path[p] \in Seq(STRING) /\ path[p] # <<>>
  BY PathsAssumption DEF TypeOK
<1>2. Len(path[p]) \in Nat \ {0} /\ \A d \in 1..Len(path[p]) : path[p][d] \in STRING
  BY <1>1, ElementOfSeq, EmptySeq
<1>3. \A n \in Nat : \A d \in 1..n : d # 1 
                               => d - 1 \in 1..n /\ d - 1 < n /\ d - 1 < d
  OBVIOUS
<1>4. depth[p] \in 1..Len(path[p])
  BY DEF TypeOK
<1>5. ASSUME path[p] = <<"">> PROVE path[p][depth[p]] = ""
  <2>1. Len(path[p]) = 1 /\ path[p][1] = ""
    <3>1. Len(<<"">>) = 1 /\ <<"">>[1] = ""
      OBVIOUS
    <3> QED BY <1>5, <3>1
  <2>2. depth[p] = 1
    <3>1. \A d \in 1..1 : d = 1
      OBVIOUS
    <3> QED BY <1>4, <2>1, <3>1
  <2> QED BY <2>1, <2>2
<1>6. depth[p] \in Nat
  BY DEF TypeOK
<1>7. depth[p] # 1 => /\ depth[p] - 1 \in 1..Len(path[p])
                      /\ depth[p] - 1 < Len(path[p]) /\ depth[p] - 1 < depth[p]
  <2>1. PICK n \in Nat : n = Len(path[p])
    BY <1>2
  <2>2. depth[p] \in 1..n
    BY <1>4, <2>1
  <2> QED BY <1>3, <2>1, <2>2
<1> QED
  BY <1>1, <1>2, <1>4, <1>5, <1>6, <1>7

\* Each name of a path leads to an entry in the entry before it, an empty one
\* to that entry itself.
LEMMA UptoIs ==
  ASSUME TypeOK, NEW p \in Procs, NEW d \in 1..Len(path[p])
  PROVE  /\ path[p][d] = "" /\ d = 1 => Upto(p, d) = <<>>
         /\ path[p][d] = "" /\ d # 1 => Upto(p, d) = Upto(p, d - 1)
         /\ path[p][d] # "" => /\ Upto(p, d) # <<>>
                               /\ d = 1 => Parent(Upto(p, d)) = <<>>
                               /\ d # 1 => Parent(Upto(p, d)) = Upto(p, d - 1)
<1>1. path[p] \in Seq(STRING) /\ Len(path[p]) \in Nat /\ path[p][d] \in STRING
  BY PathIs
<1>2. /\ Upto(p, 0) = <<>>
      /\ Upto(p, d) = IF path[p][d] = "" THEN Upto(p, d - 1)
                      ELSE Append(Upto(p, d - 1), path[p][d])
      /\ d - 1 \in 0..Len(path[p]) => Upto(p, d - 1) \in Seq(STRING)
  BY <1>1, EntryIs DEF Upto
<1>3. Upto(p, d - 1) \in Seq(STRING) /\ (d = 1 => Upto(p, d - 1) = <<>>)
  <2>1. d - 1 \in 0..Len(path[p]) /\ (d = 1 => d - 1 = 0)
    BY <1>1
  <2> QED BY <1>2, <2>1
<1>4. LET e == Append(Upto(p, d - 1), path[p][d]) IN
      e # <<>> /\ Parent(e) = Upto(p, d - 1)
  BY <1>1, <1>3, ParentIs
<1> QED
  BY <1>2, <1>3, <1>4

-----------------------------------------------------------------------------
(* The file system *)

\* A call of stat() finds what is there; without an obstacle, all of it.
LEMMA StatIs ==
  ASSUME TypeOK, Grown, NEW p \in Procs
  PROVE  /\ Stat(p) # "none" =>
              /\ Here(p) \in DOMAIN tree /\ Stat(p) = Type(Here(p))
              /\ Stat(p) \in Directories \cup {"file"}
              /\ path[p][depth[p]] = "" => IsDir(Here(p))
         /\ Stat(p) = "none" /\ Type(Here(p)) = "file" => path[p][depth[p]] = ""
         /\ Stat(p) = "none" /\ ~Obstructed(p) => Here(p) \notin DOMAIN tree
         /\ Stat(p) = "file" /\ platform = "windows" => Obstructed(p)
<1> DEFINE d == depth[p]
           e == Here(p)
<1>1. /\ d \in 1..Len(path[p]) /\ Len(path[p]) \in Nat \ {0} /\ e = Upto(p, d)
      /\ e \in DOMAIN tree => tree[e] \in Directories \cup {"file"}
  BY PathIs DEF Here, TypeOK
<1>2. /\ Type(e) = IF e \in DOMAIN tree THEN tree[e] ELSE "none"
      /\ Type(e) # "none" => e \in DOMAIN tree
      /\ e \in DOMAIN tree => Type(e) \in Directories \cup {"file"}
  BY <1>1 DEF Type
<1>3. Type(e) = "file" => e \in DOMAIN planted /\ planted[e] = "file"
  BY <1>2 DEF Grown
<1>4. <<>> \in DOMAIN planted /\ planted[<<>>] # "file"
  BY PathsAssumption DEF Grown, Directories
<1>5. ASSUME Stat(p) # "none"
      PROVE  /\ e \in DOMAIN tree /\ Stat(p) = Type(e)
             /\ Stat(p) \in Directories \cup {"file"}
             /\ path[p][d] = "" => IsDir(e)
  BY <1>2, <1>5 DEF Stat
<1>6. ASSUME Stat(p) = "none", Type(e) = "file" PROVE path[p][d] = ""
  <2>1. CASE path[p] = <<"">>
    BY <2>1, PathIs
  <2>2. CASE path[p] # <<"">>
    BY <1>6, <2>2 DEF Stat
  <2> QED BY <2>1, <2>2
<1>7. ASSUME Stat(p) = "none", ~Obstructed(p), e \in DOMAIN tree PROVE FALSE
  <2>1. path[p] # <<"">>
    BY <1>7 DEF Obstructed
  <2>2. Type(e) # "none"
    BY <1>2, <1>7 DEF Directories
  <2>3. path[p][d] = "" /\ ~IsDir(e)
    BY <1>7, <2>1, <2>2 DEF Stat
  <2>4. Type(e) = "file"
    BY <1>2, <1>7, <2>3 DEF IsDir
  <2>5. d # 1
    <3>1. d = 1 => e = <<>>
      BY <1>1, <2>3, UptoIs
    <3> QED BY <1>3, <1>4, <2>4, <3>1
  <2>6. e = Upto(p, d - 1) /\ d - 1 \in 1..Len(path[p]) /\ d - 1 < Len(path[p])
    BY <1>1, <2>3, <2>5, PathIs, UptoIs
  <2> QED BY <1>3, <1>7, <2>4, <2>6 DEF Obstructed
<1>8. ASSUME Stat(p) = "file", platform = "windows" PROVE Obstructed(p)
  <2>1. Type(e) = "file"
    BY <1>5, <1>8
  <2> QED BY <1>1, <1>3, <1>8, <2>1 DEF Obstructed
<1> QED
  BY <1>5, <1>6, <1>7, <1>8

\* mkdir() fails because of an obstacle, or where another call was faster.
LEMMA CreatesIs ==
  ASSUME TypeOK, Grown, NEW p \in Procs, PassedBy(p), ~Obstructed(p),
         Here(p) \notin DOMAIN planted, ~Creates(p)
  PROVE  IsDir(Here(p))
<1> DEFINE d == depth[p]
           e == Here(p)
           u == Parent(e)
<1>1. /\ d \in 1..Len(path[p]) /\ Len(path[p]) \in Nat \ {0} /\ e = Upto(p, d)
      /\ path[p] # <<"">>
  BY PathIs DEF Here, Obstructed
<1>2. <<>> \in DOMAIN planted /\ planted[<<>>] # "file" /\ <<>> \in DOMAIN tree
  BY PathsAssumption DEF Grown, Directories
<1>3. e \in DOMAIN tree => IsDir(e)
  BY DEF Grown, IsDir, Type, Directories
<1>4. d # 1 => Upto(p, d - 1) \in DOMAIN tree
  BY PathIs DEF PassedBy, Visible
<1>5. CASE path[p][d] = ""
  BY <1>1, <1>2, <1>3, <1>4, <1>5, UptoIs
<1>6. CASE path[p][d] # "" /\ e \notin DOMAIN tree
  <2>1. Type(e) = "none" /\ e # <<>>
    BY <1>1, <1>6, UptoIs DEF Type
  <2>2. Type(u) # "dir"
    BY <1>1, <2>1 DEF Creates
  <2>3. u = IF d = 1 THEN <<>> ELSE Upto(p, d - 1)
    BY <1>1, <1>6, UptoIs
  <2>4. u \in DOMAIN tree
    BY <1>2, <1>4, <2>3
  <2>5. tree[u] # "dir" /\ tree[u] \in {"dir", "locked", "file"}
    BY <2>2, <2>4 DEF Type, TypeOK, Directories
  <2>6. u \in DOMAIN planted /\ planted[u] = tree[u]
    BY <2>4, <2>5 DEF Grown
  <2>7. CASE tree[u] = "locked"
    BY <1>1, <2>6, <2>7 DEF Obstructed
  <2>8. CASE tree[u] = "file"
    <3>1. d # 1
      BY <1>2, <2>3, <2>6, <2>8
    <3>2. d - 1 \in 1..Len(path[p]) /\ d - 1 < Len(path[p])
      BY <3>1, PathIs
    <3> QED BY <2>3, <2>6, <2>8, <3>1, <3>2 DEF Obstructed
  <2> QED BY <2>5, <2>7, <2>8
<1> QED
  BY <1>3, <1>5, <1>6

\* Nothing that is there goes away.
Stable ==
  /\ UNCHANGED <<planted, path, platform>>
  /\ DOMAIN tree \subseteq DOMAIN tree'
  /\ \A e \in DOMAIN tree : tree'[e] = tree[e]
  /\ \A e \in DOMAIN tree' \ DOMAIN tree : tree'[e] = "dir"

\* What a call has found is found again later.
LEMMA StableKeeps ==
  ASSUME Stable
  PROVE  /\ \A e : IsDir(e) => IsDir(e)'
         /\ \A e : Type(e)' = "file" => Type(e) = "file"
         /\ \A p, d : Upto(p, d)' = Upto(p, d)
         /\ \A p, d : Visible(p, d) => Visible(p, d)'
         /\ \A p : Obstructed(p)' <=> Obstructed(p)
<1>1. \A e : IsDir(e) => IsDir(e)'
  BY DEF Stable, IsDir, Type, Directories
<1>2. \A e : Type(e)' = "file" => Type(e) = "file"
  BY DEF Stable, Type
<1>3. \A p, d : Upto(p, d)' = Upto(p, d)
  BY DEF Stable, Upto
<1>4. \A p, d : Visible(p, d) => Visible(p, d)'
  BY <1>1, <1>3 DEF Stable, Visible
<1>5. \A p : Obstructed(p)' <=> Obstructed(p)
  BY <1>3 DEF Stable, Obstructed
<1> QED
  BY <1>1, <1>2, <1>3, <1>4, <1>5

\* What mkdir() makes is a directory in a directory.
LEMMA MadeIs ==
  ASSUME TypeOK, Grown, NEW p \in Procs, Creates(p),
         tree' = [e \in DOMAIN tree \cup {Here(p)} |->
                    IF e \in DOMAIN tree THEN tree[e] ELSE "dir"],
         UNCHANGED <<planted, path, platform, depth>>
  PROVE  /\ Stable /\ Grown' /\ IsDir(Here(p))' /\ Here(p)' \in DOMAIN tree'
         /\ tree' \in [DOMAIN tree' -> Directories \cup {"file"}]
<1>0. PICK e : e = Here(p)
  OBVIOUS
<1>1. e \notin DOMAIN tree /\ Parent(e) \in DOMAIN tree /\ IsDir(Parent(e))
  BY <1>0 DEF Creates, Type, IsDir, TypeOK, Directories
<1>2. /\ DOMAIN tree' = DOMAIN tree \cup {e} /\ tree'[e] = "dir"
      /\ \A i \in DOMAIN tree : tree'[i] = tree[i]
  BY <1>0, <1>1
<1>3. Stable
  BY <1>2 DEF Stable
<1>4. Grown'
  <2>1. planted' \in Trees /\ DOMAIN planted' \subseteq DOMAIN tree'
    BY <1>2 DEF Grown
  <2>2. ASSUME NEW i \in DOMAIN tree'
        PROVE  tree'[i] = IF i \in DOMAIN planted THEN planted[i] ELSE "dir"
    BY <1>1, <1>2 DEF Grown
  <2>3. ASSUME NEW i \in DOMAIN tree', i # <<>>
        PROVE  Parent(i) \in DOMAIN tree' /\ IsDir(Parent(i))'
    <3>1. Parent(i) \in DOMAIN tree /\ IsDir(Parent(i))
      BY <1>1, <1>2, <2>3 DEF Grown
    <3> QED BY <1>2, <1>3, <3>1, StableKeeps
  <2> QED BY <2>1, <2>2, <2>3 DEF Grown
<1>5. IsDir(e)'
  BY <1>2 DEF IsDir, Type, Directories
<1>6. tree' \in [DOMAIN tree' -> Directories \cup {"file"}]
  <2>1. \A i \in DOMAIN tree' : tree'[i] \in Directories \cup {"file"}
    BY <1>2 DEF TypeOK, Directories
  <2>2. tree' = [i \in DOMAIN tree' |-> tree'[i]]
    BY <1>2
  <2> QED BY <2>1, <2>2
<1> QED
  BY <1>0, <1>2, <1>3, <1>4, <1>5, <1>6 DEF Here, Upto

-----------------------------------------------------------------------------
(* Steps *)

\* No call has done anything.
LEMMA InitInv == Init => IInv
<1> SUFFICES ASSUME Init PROVE IInv
  OBVIOUS
<1>1. tree \in Trees /\ planted = tree
  BY DEF Init
<1>2. TypeOK
  <2>1. \A p \in Procs : path[p] \in Seq(STRING) /\ path[p] # <<>>
    BY PathsAssumption DEF Init
  <2>2. \A p \in Procs : Len(path[p]) \in Nat \ {0}
    BY <2>1, EmptySeq
  <2>3. \A p \in Procs : depth[p] \in 1..Len(path[p])
    BY <2>2 DEF Init
  <2> QED BY <1>1, <2>3, PathsAssumption DEF Init, TypeOK, Directories
<1>3. Grown
  BY <1>1, PathsAssumption DEF Grown, IsDir, Type
<1>4. \A p \in Procs : PassedBy(p)
  <2> SUFFICES ASSUME NEW p \in Procs, NEW d \in 1..Len(path[p]),
                      d < depth[p] \/ pc[p] = "done"
               PROVE  FALSE
    BY DEF PassedBy
  <2>1. depth[p] = 1 /\ pc[p] = "stat"
    BY DEF Init
  <2>2. Len(path[p]) \in Nat
    BY <1>2, PathIs
  <2> QED BY <2>1, <2>2
<1>5. \A p \in Procs : SoundAt(p)
  BY DEF Init, SoundAt
<1> QED
  BY <1>2, <1>3, <1>4, <1>5 DEF IInv

\* A step of one call leaves the others alone.
Elsewhere(p) ==
  \A q \in Procs \ {p} : /\ pc'[q] = pc[q] /\ x'[q] = x[q] /\ res'[q] = res[q]
                         /\ depth'[q] = depth[q]

\* They keep what they know.
LEMMA OthersKeep ==
  ASSUME IInv, Stable, NEW p \in Procs, Elsewhere(p), NEW q \in Procs \ {p}
  PROVE  PassedBy(q)' /\ SoundAt(q)'
<1>1. /\ pc'[q] = pc[q] /\ x'[q] = x[q] /\ res'[q] = res[q]
      /\ depth'[q] = depth[q] /\ path' = path /\ planted' = planted
      /\ platform' = platform /\ Here(q)' = Here(q)
  BY StableKeeps DEF Elsewhere, Stable, Here, Upto
<1>2. PassedBy(q)'
  BY <1>1, StableKeeps DEF IInv, PassedBy
<1>3. /\ Type(Here(q))' = "file" => Type(Here(q)) = "file"
      /\ IsDir(Here(q)) => IsDir(Here(q))'
      /\ Visible(q, depth[q]) => Visible(q, depth[q])'
      /\ Obstructed(q)' <=> Obstructed(q)
  BY <1>1, StableKeeps
<1>4. SoundAt(q)
  BY DEF IInv
<1>5. SoundAt(q)'
  BY <1>1, <1>3, <1>4 DEF SoundAt, Refused
<1> QED
  BY <1>2, <1>5

\* The rest is about the call that steps.
LEMMA StepKeeps ==
  ASSUME IInv, Stable, NEW p \in Procs, Elsewhere(p), TypeOK', Grown',
         PassedBy(p)', SoundAt(p)'
  PROVE  IInv'
<1>1. ASSUME NEW q \in Procs PROVE PassedBy(q)' /\ SoundAt(q)'
  BY OthersKeep
<1> QED
  BY <1>1 DEF IInv

\* A step that makes nothing.
LEMMA SameTree ==
  ASSUME Grown, UNCHANGED <<tree, planted, platform, path>>
  PROVE  Stable /\ Grown'
<1>1. Stable
  BY DEF Stable
<1>2. Grown'
  BY DEF Grown, IsDir, Type
<1> QED
  BY <1>1, <1>2

\* The first test finds the name, or a gap, or an obstacle.
LEMMA TestExistsKeeps ==
  ASSUME IInv, NEW p \in Procs, TestExists(p)
  PROVE  IInv'
<1>1. TypeOK /\ Grown /\ PassedBy(p) /\ SoundAt(p) /\ pc[p] = "stat"
  BY DEF IInv, TestExists
<1>2. Stable /\ Grown' /\ UNCHANGED <<tree, planted, platform, path, depth, res>>
  BY <1>1, SameTree DEF TestExists
<1>3. /\ Stat(p) \in Directories \cup {"file", "none"}
      /\ x' = [x EXCEPT ![p] = Stat(p)]
      /\ x'[p] = Stat(p)
      /\ pc' = [pc EXCEPT ![p] = IF Stat(p) = "none" THEN "mkdir" ELSE "check"]
      /\ pc'[p] = IF Stat(p) = "none" THEN "mkdir" ELSE "check"
  BY <1>1, StatIs DEF TestExists, Goto, TypeOK
<1>4. TypeOK'
  BY <1>1, <1>2, <1>3 DEF TypeOK
<1>5. Elsewhere(p)
  BY <1>1, <1>2, <1>3 DEF Elsewhere, TypeOK
<1>6. /\ Here(p)' = Here(p) /\ Type(Here(p))' = Type(Here(p))
      /\ Visible(p, depth[p])' <=> Visible(p, depth[p])
      /\ Obstructed(p)' <=> Obstructed(p)
  BY <1>2, StableKeeps DEF Here, Upto, Type, Visible, IsDir
<1>7. PassedBy(p)'
  BY <1>1, <1>2, <1>3, StableKeeps DEF PassedBy
<1>8. SoundAt(p)'
  <2>1. CASE Stat(p) = "none"
    <3>1. pc'[p] = "mkdir" /\ x'[p] = "none" /\ res'[p] = OK
      BY <1>1, <1>2, <1>3, <2>1 DEF SoundAt
    <3>2. Type(Here(p)) = "file" => path[p][depth[p]] = ""
      BY <1>1, <2>1, StatIs
    <3>3. ~Obstructed(p) => Here(p) \notin DOMAIN planted
      BY <1>1, <2>1, StatIs DEF Grown
    <3> QED BY <1>2, <1>6, <3>1, <3>2, <3>3 DEF SoundAt
  <2>2. CASE Stat(p) # "none"
    <3>1. pc'[p] = "check" /\ x'[p] = Stat(p) /\ res'[p] = OK
      BY <1>1, <1>2, <1>3, <2>2 DEF SoundAt
    <3>2. /\ Here(p) \in DOMAIN tree /\ Stat(p) = Type(Here(p))
          /\ Stat(p) \in Directories \cup {"file"}
          /\ path[p][depth[p]] = "" => IsDir(Here(p))
          /\ Stat(p) = "file" /\ platform = "windows" => Obstructed(p)
      BY <1>1, <2>2, StatIs
    <3>3. platform \in {"posix", "windows"}
      BY <1>1 DEF TypeOK
    <3>4. Stat(p) # Refused => Visible(p, depth[p])
      BY <3>2, <3>3 DEF Refused, Visible, Here, IsDir
    <3>5. ~Obstructed(p) => Stat(p) # Refused
      BY <2>2, <3>2, <3>3 DEF Refused
    <3>6. Refused' = Refused
      BY <1>2 DEF Refused
    <3> QED BY <1>2, <1>6, <3>1, <3>4, <3>5, <3>6 DEF SoundAt
  <2> QED BY <2>1, <2>2
<1> QED
  BY <1>2, <1>4, <1>5, <1>7, <1>8, StepKeeps

\* The name is made, or another call or an obstacle is in the way.
LEMMA CreateKeeps ==
  ASSUME IInv, NEW p \in Procs, Create(p)
  PROVE  IInv'
<1>1. TypeOK /\ Grown /\ PassedBy(p) /\ SoundAt(p) /\ pc[p] = "mkdir"
  BY DEF IInv, Create
<1>2. UNCHANGED <<planted, platform, path, depth, res>>
  BY DEF Create
<1>3. /\ x[p] = "none" /\ res[p] = OK
      /\ Type(Here(p)) = "file" => path[p][depth[p]] = ""
      /\ ~Obstructed(p) => Here(p) \notin DOMAIN planted
  BY <1>1 DEF SoundAt
<1>4. CASE Creates(p)
  <2>1. /\ tree' = [e \in DOMAIN tree \cup {Here(p)} |->
                      IF e \in DOMAIN tree THEN tree[e] ELSE "dir"]
        /\ x' = [x EXCEPT ![p] = IF platform = "posix" THEN "dir" ELSE @]
        /\ pc' = [pc EXCEPT ![p] = "check"]
    BY <1>4 DEF Create, Goto
  <2>2. /\ Stable /\ Grown' /\ IsDir(Here(p))' /\ Here(p)' \in DOMAIN tree'
        /\ tree' \in [DOMAIN tree' -> Directories \cup {"file"}]
    BY <1>1, <1>2, <1>4, <2>1, MadeIs
  <2>3. /\ pc'[p] = "check"
        /\ x'[p] = IF platform = "posix" THEN "dir" ELSE "none"
    BY <1>1, <1>3, <2>1 DEF TypeOK
  <2>4. TypeOK'
    BY <1>1, <1>2, <2>1, <2>2 DEF TypeOK, Directories
  <2>5. Elsewhere(p)
    BY <1>1, <1>2, <2>1 DEF Elsewhere, TypeOK
  <2>6. PassedBy(p)'
    BY <1>1, <1>2, <2>2, <2>3, StableKeeps DEF PassedBy
  <2>7. Visible(p, depth[p])' /\ x'[p] # Refused'
    BY <1>1, <1>2, <2>2, <2>3 DEF Visible, Here, Refused
  <2>8. SoundAt(p)'
    BY <1>2, <1>3, <2>3, <2>7 DEF SoundAt
  <2> QED BY <2>2, <2>4, <2>5, <2>6, <2>8, StepKeeps
<1>5. CASE ~Creates(p)
  <2>1. pc' = [pc EXCEPT ![p] = "retry"] /\ UNCHANGED <<tree, x>>
    BY <1>5 DEF Create, Goto
  <2>2. Stable /\ Grown'
    BY <1>1, <1>2, <2>1, SameTree
  <2>3. pc'[p] = "retry" /\ x'[p] = "none"
    BY <1>1, <1>3, <2>1 DEF TypeOK
  <2>4. TypeOK'
    BY <1>1, <1>2, <2>1 DEF TypeOK
  <2>5. Elsewhere(p)
    BY <1>1, <1>2, <2>1 DEF Elsewhere, TypeOK
  <2>6. PassedBy(p)'
    BY <1>1, <1>2, <2>2, <2>3, StableKeeps DEF PassedBy
  <2>7. ~Obstructed(p) => IsDir(Here(p))
    BY <1>1, <1>3, <1>5, CreatesIs
  <2>8. /\ Type(Here(p))' = Type(Here(p))
        /\ IsDir(Here(p))' <=> IsDir(Here(p))
        /\ Obstructed(p)' <=> Obstructed(p)
    BY <1>2, <2>1, <2>2, StableKeeps DEF Here, Upto, Type, IsDir
  <2>9. SoundAt(p)'
    BY <1>2, <1>3, <2>3, <2>7, <2>8 DEF SoundAt
  <2> QED BY <2>2, <2>4, <2>5, <2>6, <2>9, StepKeeps
<1> QED
  BY <1>4, <1>5

\* The second test finds what the other call has made.
LEMMA TestAgainKeeps ==
  ASSUME IInv, NEW p \in Procs, TestAgain(p)
  PROVE  IInv'
<1>1. TypeOK /\ Grown /\ PassedBy(p) /\ SoundAt(p) /\ pc[p] = "retry"
  BY DEF IInv, TestAgain
<1>2. Stable /\ Grown' /\ UNCHANGED <<tree, planted, platform, path, depth>>
  BY <1>1, SameTree DEF TestAgain
<1>3. /\ x[p] = "none" /\ res[p] = OK
      /\ Type(Here(p)) = "file" => path[p][depth[p]] = ""
      /\ ~Obstructed(p) => IsDir(Here(p))
  BY <1>1 DEF SoundAt
<1>4. /\ Here(p)' = Here(p) /\ Refused' = Refused
      /\ Visible(p, depth[p])' <=> Visible(p, depth[p])
      /\ Obstructed(p)' <=> Obstructed(p)
  BY <1>2, StableKeeps DEF Here, Upto, Type, Visible, IsDir, Refused
<1>5. /\ Stat(p) # "none" =>
           /\ Here(p) \in DOMAIN tree /\ Stat(p) = Type(Here(p))
           /\ Stat(p) \in Directories \cup {"file"}
           /\ path[p][depth[p]] = "" => IsDir(Here(p))
      /\ Stat(p) \in Directories \cup {"file", "none"}
  BY <1>1, StatIs
<1>6. ~Obstructed(p) => Stat(p) # "none"
  BY <1>1, <1>3, StatIs DEF IsDir, Type, Directories
<1>7. CASE platform = "posix"
  <2>1. /\ x' = [x EXCEPT ![p] = Stat(p)] /\ pc' = [pc EXCEPT ![p] = "check"]
        /\ res' = res
    BY <1>7 DEF TestAgain, Goto
  <2>2. pc'[p] = "check" /\ x'[p] = Stat(p) /\ Refused = "none"
    BY <1>1, <1>7, <2>1 DEF TypeOK, Refused
  <2>3. TypeOK'
    BY <1>1, <1>2, <1>5, <2>1 DEF TypeOK
  <2>4. Elsewhere(p)
    BY <1>1, <1>2, <2>1 DEF Elsewhere, TypeOK
  <2>5. PassedBy(p)'
    BY <1>1, <1>2, <2>2, StableKeeps DEF PassedBy
  <2>6. Stat(p) # "none" => Visible(p, depth[p])
    BY <1>5, <1>7 DEF Visible, Here
  <2>7. SoundAt(p)'
    BY <1>2, <1>3, <1>4, <1>6, <2>1, <2>2, <2>6 DEF SoundAt
  <2> QED BY <1>2, <2>3, <2>4, <2>5, <2>7, StepKeeps
<1>8. CASE platform # "posix" /\ Stat(p) = "none"
  <2>1. /\ pc' = [pc EXCEPT ![p] = "done"] /\ x' = x
        /\ res' = [res EXCEPT ![p] = PERMISSION_DENIED]
    BY <1>8 DEF TestAgain, Fail, Goto
  <2>2. pc'[p] = "done" /\ res'[p] = PERMISSION_DENIED
    BY <1>1, <2>1 DEF TypeOK
  <2>3. TypeOK'
    BY <1>1, <1>2, <2>1 DEF TypeOK
  <2>4. Elsewhere(p)
    BY <1>1, <1>2, <2>1 DEF Elsewhere, TypeOK
  <2>5. PassedBy(p)'
    BY <1>1, <1>2, <2>2, StableKeeps DEF PassedBy, OK, PERMISSION_DENIED
  <2>6. SoundAt(p)'
    BY <1>4, <1>6, <1>8, <2>2 DEF SoundAt
  <2> QED BY <1>2, <2>3, <2>4, <2>5, <2>6, StepKeeps
<1>9. CASE platform # "posix" /\ Stat(p) # "none"
  <2>1. pc' = [pc EXCEPT ![p] = "check"] /\ x' = x /\ res' = res
    BY <1>9 DEF TestAgain, Goto
  <2>2. pc'[p] = "check" /\ x'[p] = "none" /\ Refused = "file"
    BY <1>1, <1>3, <1>9, <2>1 DEF TypeOK, Refused
  <2>3. TypeOK'
    BY <1>1, <1>2, <2>1 DEF TypeOK
  <2>4. Elsewhere(p)
    BY <1>1, <1>2, <2>1 DEF Elsewhere, TypeOK
  <2>5. PassedBy(p)'
    BY <1>1, <1>2, <2>2, StableKeeps DEF PassedBy
  <2>6. Visible(p, depth[p])
    <3>1. IsDir(Here(p))
      BY <1>3, <1>5, <1>9 DEF IsDir
    <3> QED BY <1>5, <1>9, <3>1 DEF Visible, Here
  <2>7. SoundAt(p)'
    BY <1>2, <1>3, <1>4, <2>1, <2>2, <2>6 DEF SoundAt
  <2> QED BY <1>2, <2>3, <2>4, <2>5, <2>7, StepKeeps
<1> QED
  BY <1>7, <1>8, <1>9

\* A call goes on behind a name that is there, and stops at an obstacle.
LEMMA AdvanceKeeps ==
  ASSUME IInv, NEW p \in Procs, Advance(p)
  PROVE  IInv'
<1>1. TypeOK /\ Grown /\ PassedBy(p) /\ SoundAt(p) /\ pc[p] = "check"
  BY DEF IInv, Advance
<1>2. Stable /\ Grown' /\ UNCHANGED <<tree, planted, platform, path, x>>
  BY <1>1, SameTree DEF Advance
<1>3. /\ res[p] = OK
      /\ x[p] # Refused => Visible(p, depth[p])
      /\ ~Obstructed(p) => x[p] # Refused
  BY <1>1 DEF SoundAt
<1>4. Obstructed(p)' <=> Obstructed(p)
  BY <1>2, StableKeeps
<1>5. platform \in {"posix", "windows"}
  BY <1>1 DEF TypeOK
<1>6. CASE x[p] = Refused
  <2>1. PICK code \in {IO_ERROR, NOT_DIRECTORY} :
          /\ pc' = [pc EXCEPT ![p] = "done"] /\ depth' = depth
          /\ res' = [res EXCEPT ![p] = code]
    BY <1>5, <1>6 DEF Advance, Fail, Goto, Refused
  <2>2. pc'[p] = "done" /\ res'[p] = code /\ code # OK
    BY <1>1, <2>1 DEF TypeOK, OK, IO_ERROR, NOT_DIRECTORY
  <2>3. TypeOK'
    BY <1>1, <1>2, <2>1 DEF TypeOK
  <2>4. Elsewhere(p)
    BY <1>1, <1>2, <2>1 DEF Elsewhere, TypeOK
  <2>5. PassedBy(p)'
    BY <1>1, <1>2, <2>1, <2>2, StableKeeps DEF PassedBy
  <2>6. SoundAt(p)'
    BY <1>3, <1>4, <1>6, <2>2 DEF SoundAt
  <2> QED BY <1>2, <2>3, <2>4, <2>5, <2>6, StepKeeps
<1>7. CASE x[p] # Refused /\ depth[p] = Len(path[p])
  <2>1. pc' = [pc EXCEPT ![p] = "done"] /\ depth' = depth /\ res' = res
    BY <1>5, <1>7 DEF Advance, Goto, Refused
  <2>2. pc'[p] = "done"
    BY <1>1, <2>1 DEF TypeOK
  <2>3. TypeOK'
    BY <1>1, <1>2, <2>1 DEF TypeOK
  <2>4. Elsewhere(p)
    BY <1>1, <1>2, <2>1 DEF Elsewhere, TypeOK
  <2>5. PassedBy(p)'
    <3> SUFFICES ASSUME NEW d \in 1..Len(path[p]) PROVE Visible(p, d)'
      BY <1>2 DEF PassedBy
    <3>1. CASE d = depth[p]
      BY <1>2, <1>3, <1>7, <3>1, StableKeeps
    <3>2. CASE d # depth[p]
      <4>1. d < depth[p]
        <5>1. PICK n \in Nat : n = Len(path[p])
          BY <1>1, PathIs
        <5>2. d \in 1..n /\ d # n /\ depth[p] = n
          BY <1>7, <3>2, <5>1
        <5>3. d < n
          BY <5>2
        <5> QED BY <5>2, <5>3
      <4> QED BY <1>1, <1>2, <4>1, StableKeeps DEF PassedBy
    <3> QED BY <3>1, <3>2
  <2>6. SoundAt(p)'
    BY <1>3, <2>1, <2>2 DEF SoundAt
  <2> QED BY <1>2, <2>3, <2>4, <2>5, <2>6, StepKeeps
<1>8. CASE x[p] # Refused /\ depth[p] # Len(path[p])
  <2>1. /\ pc' = [pc EXCEPT ![p] = "stat"] /\ res' = res
        /\ depth' = [depth EXCEPT ![p] = depth[p] + 1]
    BY <1>5, <1>8 DEF Advance, Goto, Refused
  <2>2. pc'[p] = "stat" /\ depth'[p] = depth[p] + 1
    BY <1>1, <2>1 DEF TypeOK
  <2>3. depth[p] + 1 \in 1..Len(path[p]) /\ depth[p] \in Nat
    <3>1. PICK n \in Nat : n = Len(path[p])
      BY <1>1, PathIs
    <3>2. depth[p] \in 1..n /\ depth[p] # n
      BY <1>1, <1>8, <3>1, PathIs
    <3>3. depth[p] + 1 \in 1..n /\ depth[p] \in Nat
      BY <3>2
    <3> QED BY <3>1, <3>3
  <2>4. TypeOK'
    BY <1>1, <1>2, <2>1, <2>3 DEF TypeOK
  <2>5. Elsewhere(p)
    BY <1>1, <1>2, <2>1 DEF Elsewhere, TypeOK
  <2>6. PassedBy(p)'
    <3> SUFFICES ASSUME NEW d \in 1..Len(path[p]), d < depth[p] + 1
                 PROVE  Visible(p, d)'
      BY <1>2, <2>2 DEF PassedBy
    <3>1. CASE d = depth[p]
      BY <1>2, <1>3, <1>8, <3>1, StableKeeps
    <3>2. CASE d # depth[p]
      <4>1. Len(path[p]) \in Nat
        BY <1>1, PathIs
      <4>2. d < depth[p]
        BY <2>3, <3>2, <4>1
      <4> QED BY <1>1, <1>2, <4>2, StableKeeps DEF PassedBy
    <3> QED BY <3>1, <3>2
  <2>7. SoundAt(p)'
    BY <1>3, <2>1, <2>2 DEF SoundAt
  <2> QED BY <1>2, <2>4, <2>5, <2>6, <2>7, StepKeeps
<1> QED
  BY <1>6, <1>7, <1>8

\* Every step keeps the invariant.
LEMMA NextInv ==
  ASSUME IInv, [Next]_vars
  PROVE  IInv'
<1>1. CASE UNCHANGED vars
  <2>1. UNCHANGED <<tree, planted, platform, path, depth, pc, x, res>>
    BY <1>1 DEF vars, call
  <2>2. Stable /\ Grown'
    BY <2>1, SameTree DEF IInv
  <2>3. TypeOK'
    BY <2>1 DEF IInv, TypeOK
  <2>4. ASSUME NEW p \in Procs PROVE PassedBy(p)' /\ SoundAt(p)'
    <3>1. PassedBy(p)'
      BY <2>1, <2>2, StableKeeps DEF IInv, PassedBy
    <3>2. /\ Here(p)' = Here(p) /\ Type(Here(p))' = Type(Here(p))
          /\ IsDir(Here(p))' <=> IsDir(Here(p))
          /\ Visible(p, depth[p]) => Visible(p, depth[p])'
          /\ Obstructed(p)' <=> Obstructed(p)
          /\ Refused' = Refused
      BY <2>1, <2>2, StableKeeps DEF Here, Upto, Type, IsDir, Refused
    <3>3. SoundAt(p)
      BY DEF IInv
    <3>4. SoundAt(p)'
      BY <2>1, <3>2, <3>3 DEF SoundAt
    <3> QED BY <3>1, <3>4
  <2> QED BY <2>2, <2>3, <2>4 DEF IInv
<1>2. CASE Next
  <2>1. CASE AllDone
    BY <1>1, <2>1 DEF AllDone
  <2>2. CASE \E p \in Procs : TestExists(p) \/ Create(p) \/ TestAgain(p) \/ Advance(p)
    BY <2>2, TestExistsKeeps, CreateKeeps, TestAgainKeeps, AdvanceKeeps
  <2> QED BY <1>2, <2>1, <2>2 DEF Next
<1> QED
  BY <1>1, <1>2

-----------------------------------------------------------------------------
(* Theorems *)

\* The invariant holds in every state.
LEMMA Invariant == Spec => []IInv
<1>1. Init => IInv
  BY InitInv
<1>2. IInv /\ [Next]_vars => IInv'
  BY NextInv
<1> QED
  BY <1>1, <1>2, PTL DEF Spec

\* A call of mkdirs() that returns success has its whole path in place,
\* whatever other calls do meanwhile: what it could find last has all that
\* leads to it, and only directories are ever added.
THEOREM SuccessMeansPathHolds == Spec => []SuccessMeansPath
<1>1. ASSUME IInv PROVE SuccessMeansPath
  <2> SUFFICES ASSUME NEW p \in Procs, pc[p] = "done", res[p] = OK,
                      NEW d \in 1..Len(path[p])
               PROVE  \/ IsDir(Upto(p, d))
                      \/ /\ d = Len(path[p]) /\ platform = "posix"
                         /\ Upto(p, d) \in DOMAIN planted
                         /\ planted[Upto(p, d)] = "file"
    BY DEF SuccessMeansPath
  <2>1. TypeOK /\ Grown /\ \A i \in 1..Len(path[p]) : Visible(p, i)
    BY <1>1 DEF IInv, PassedBy
  <2>2. Upto(p, d) \in DOMAIN tree
    BY <2>1 DEF Visible
  <2>3. CASE d = Len(path[p])
    <3>1. IsDir(Upto(p, d)) \/ tree[Upto(p, d)] = "file"
      BY <2>1, <2>2 DEF TypeOK, IsDir, Type
    <3>2. platform = "windows" => IsDir(Upto(p, d))
      BY <2>1 DEF Visible
    <3> QED BY <2>1, <2>2, <2>3, <3>1, <3>2 DEF Grown, TypeOK
  <2>4. CASE d # Len(path[p])
    <3>1. /\ d + 1 \in 1..Len(path[p]) /\ d + 1 # 1 /\ (d + 1) - 1 = d
      <4>1. PICK n \in Nat : n = Len(path[p])
        BY <2>1, PathIs
      <4>2. d \in 1..n /\ d # n
        BY <2>4, <4>1
      <4>3. d + 1 \in 1..n /\ d + 1 # 1 /\ (d + 1) - 1 = d
        BY <4>2
      <4> QED BY <4>1, <4>3
    <3>2. Visible(p, d + 1)
      BY <2>1, <3>1
    <3>3. CASE path[p][d + 1] = ""
      <4>1. Upto(p, d + 1) = Upto(p, d) /\ IsDir(Upto(p, d + 1))
        BY <2>1, <3>1, <3>2, <3>3, UptoIs DEF Visible
      <4> QED BY <4>1
    <3>4. CASE path[p][d + 1] # ""
      <4>1. Upto(p, d + 1) # <<>> /\ Parent(Upto(p, d + 1)) = Upto(p, d)
        BY <2>1, <3>1, <3>4, UptoIs
      <4>2. Upto(p, d + 1) \in DOMAIN tree
        BY <3>2 DEF Visible
      <4> QED BY <2>1, <4>1, <4>2 DEF Grown
    <3> QED BY <3>3, <3>4
  <2> QED BY <2>3, <2>4
<1> QED
  BY <1>1, Invariant, PTL

\* A call of mkdirs() that returns an error has met an empty path, a file or a
\* locked directory that was there before the first call: another call that is
\* faster is no reason to fail.
THEOREM FailureHasCauseHolds == Spec => []FailureHasCause
<1>1. IInv => FailureHasCause
  BY DEF IInv, SoundAt, FailureHasCause
<1> QED
  BY <1>1, Invariant, PTL
=============================================================================
