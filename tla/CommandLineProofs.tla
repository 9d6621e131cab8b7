------------------------- MODULE CommandLineProofs -------------------------
(***************************************************************************)
(* The selection of tests and the command line of a nested process, for    *)
(* any registered tests, any arguments and any configuration.              *)
(***************************************************************************)
EXTENDS CommandLine, TLAPS, FiniteSetTheorems, WellFoundedInduction,
        SequenceTheorems


-----------------------------------------------------------------------------
(* Numbers and sequences *)

\* A set of natural numbers that is not empty has a least one.
LEMMA LeastOf ==
  ASSUME NEW T \in SUBSET Nat, T # {}
  PROVE  \E x \in T : \A y \in T : x <= y
<1>0. \A x, y \in Nat : y < x => <<y, x>> \in OpToRel(<, Nat)
  BY Zenon DEF OpToRel
<1>1. PICK x \in T : \A y \in T : ~(<<y, x>> \in OpToRel(<, Nat))
  BY NatLessThanWellFounded, WFMin
<1> DEFINE R == OpToRel(<, Nat)
<1>3. /\ \A u, v \in Nat : v < u => <<v, u>> \in R
      /\ \A y \in T : ~(<<y, x>> \in R)
  BY <1>0, <1>1
<1> HIDE DEF R
<1>4. \A y \in T : ~(y < x)
  BY <1>3
<1> QED
  BY <1>4

LEMMA SequenceIs ==
  ASSUME NEW s, IsSeq(s)
  PROVE  Len(s) \in Nat /\ DOMAIN s = 1..Len(s)
<1> DEFINE E == {s[n] : n \in DOMAIN s}
<1>1. s \in Seq(E)
  BY DEF IsSeq
<1> HIDE DEF E
<1> QED
  BY <1>1, LenProperties

\* A sequence is one of any set that has its elements.
LEMMA SeqIn ==
  ASSUME NEW s, IsSeq(s), NEW S, \A n \in 1..Len(s) : s[n] \in S
  PROVE  s \in Seq(S)
<1> DEFINE E == {s[n] : n \in DOMAIN s}
<1>1. s \in Seq(E)
  BY DEF IsSeq
<1>2. E \subseteq S
  <2>1. DOMAIN s = 1..Len(s)
    BY SequenceIs, Zenon
  <2> QED BY <2>1
<1> HIDE DEF E
<1> QED
  BY <1>1, <1>2, SeqMonotonic

LEMMA IsSeqOf ==
  ASSUME NEW S, NEW s \in Seq(S)
  PROVE  IsSeq(s)
<1> DEFINE E == {s[n] : n \in DOMAIN s}
<1>1. Len(s) \in Nat /\ DOMAIN s = 1..Len(s) /\ s \in [1..Len(s) -> S]
  BY LenProperties
<1>2. s \in [1..Len(s) -> E]
  BY <1>1
<1>3. s \in Seq(E)
  <2> HIDE DEF E
  <2> QED BY <1>1, <1>2, SeqDef
<1> QED
  BY <1>3 DEF IsSeq

-----------------------------------------------------------------------------
(* Tokens *)

\* The tokens of the first n characters
CutTo(f, text, n) ==
  IF n = 0 THEN << <<>> >>
  ELSE IF text[n] = "." THEN Append(f[n - 1], <<>>)
  ELSE [f[n - 1] EXCEPT ![Len(f[n - 1])] = Append(@, text[n])]
Cutting(f, text) == f = [n \in 0..Len(text) |-> CutTo(f, text, n)]
Cut(text) == CHOOSE f : Cutting(f, text)

\* There is such a function.
LEMMA CutExists ==
  ASSUME NEW text, NEW L \in Nat, L = Len(text)
  PROVE  \E f : Cutting(f, text)
<1> DEFINE Walked(m) == \E f : f = [n \in 0..m |-> CutTo(f, text, n)]
           T == {m \in 0..L : ~Walked(m)}
<1>1. ASSUME T # {} PROVE FALSE
  <2>1. T \in SUBSET Nat
    OBVIOUS
  <2>2. PICK m \in T : \A j \in T : m <= j
    BY <1>1, <2>1, LeastOf
  <2>3. m \in 0..L /\ ~Walked(m)
    BY <2>2
  <2>4. Walked(0)
    <3> DEFINE f == [n \in 0..0 |-> << <<>> >>]
    <3>1. \A n \in 0..0 : CutTo(f, text, n) = << <<>> >>
      BY DEF CutTo
    <3>2. f = [n \in 0..0 |-> CutTo(f, text, n)]
      BY <3>1
    <3> HIDE DEF f
    <3> QED BY <3>2
  <2>5. m # 0
    BY <2>3, <2>4
  <2>6. m - 1 \in 0..L /\ ~(m <= m - 1)
    BY <2>3, <2>5
  <2>7. Walked(m - 1)
    <3> HIDE DEF Walked
    <3>1. m - 1 \notin T
      <4> HIDE DEF T
      <4> QED BY <2>2, <2>6
    <3> QED BY <2>6, <3>1
  <2>8. PICK f : f = [n \in 0..(m - 1) |-> CutTo(f, text, n)]
    BY <2>7
  <2> DEFINE g == [n \in 0..m |-> IF n = m THEN CutTo(f, text, m) ELSE f[n]]
  <2>9. \A n \in 0..m : CutTo(g, text, n) = g[n]
    <3> TAKE n \in 0..m
    <3>0. m \in Nat /\ n \in Nat /\ n <= m
      BY <2>3
    <3>1. n # 0 => n - 1 \in 0..m /\ n - 1 # m /\ g[n - 1] = f[n - 1]
      BY <3>0
    <3>2. CutTo(g, text, n) = CutTo(f, text, n)
      <4> HIDE DEF g
      <4> QED BY <3>1, Zenon DEF CutTo
    <3>3. n # m => n \in 0..(m - 1)
      BY <3>0
    <3>4. n # m => f[n] = CutTo(f, text, n)
      BY <2>8, <3>3, Zenon
    <3>5. g[n] = IF n = m THEN CutTo(f, text, m) ELSE f[n]
      BY Zenon
    <3> HIDE DEF g
    <3> QED BY <3>2, <3>4, <3>5, Zenon
  <2>10. g = [n \in 0..m |-> CutTo(g, text, n)]
    <3>1. g = [n \in 0..m |-> g[n]]
      BY Zenon
    <3> HIDE DEF g
    <3> QED BY <2>9, <3>1, Zenon
  <2> HIDE DEF g
  <2> QED BY <2>3, <2>10
<1>2. Walked(L)
  <2> HIDE DEF Walked
  <2>1. L \in 0..L
    OBVIOUS
  <2> QED BY <1>1, <2>1
<1> QED
  BY <1>2 DEF Cutting

LEMMA CutIs ==
  ASSUME NEW text, NEW L \in Nat, L = Len(text)
  PROVE  /\ Tokens(text) = Cut(text)[L]
         /\ \A n \in 0..L : Cut(text)[n] = CutTo(Cut(text), text, n)
<1>1. Cutting(Cut(text), text)
  BY CutExists DEF Cut
<1>2. \A n \in 0..L : Cut(text)[n] = CutTo(Cut(text), text, n)
  <2> DEFINE f == Cut(text)
  <2>1. f = [n \in 0..L |-> CutTo(f, text, n)]
    BY <1>1 DEF Cutting
  <2> HIDE DEF f
  <2>2. \A n \in 0..L : f[n] = CutTo(f, text, n)
    BY <2>1, Zenon
  <2> QED BY <2>2 DEF f
<1>3. Tokens(text) = Cut(text)[Len(text)]
  BY Zenon DEF Tokens, Cut, Cutting, CutTo
<1> QED
  BY <1>2, <1>3

\* There is at least one token, and the last one of a text that ends in
\* something else than a dot has characters.
LEMMA TokensAre ==
  ASSUME NEW text, IsSeq(text)
  PROVE  /\ \E S : Tokens(text) \in Seq(Seq(S))
         /\ Len(Tokens(text)) \in Nat \ {0}
         /\ text # <<>> /\ text[Len(text)] # "." => Tokens(text)[Len(Tokens(text))] # <<>>
<1> DEFINE L == Len(text)
           S == {text[n] : n \in DOMAIN text}
           f == Cut(text)
           Right(n) == f[n] \in Seq(Seq(S)) /\ f[n] # <<>>
           T == {n \in 0..L : ~Right(n)}
<1>1. /\ L \in Nat /\ DOMAIN text = 1..L
      /\ \A n \in 1..L : text[n] \in S
  <2>1. L \in Nat /\ DOMAIN text = 1..L
    BY SequenceIs
  <2> QED BY <2>1
<1>2. Tokens(text) = f[L] /\ \A n \in 0..L : f[n] = CutTo(f, text, n)
  BY <1>1, CutIs
<1> HIDE DEF f, S
<1>3. <<>> \in Seq(S)
  BY EmptySeq
<1>4. Right(0)
  <2>1. f[0] = << <<>> >>
    <3>1. 0 \in 0..L
      BY <1>1
    <3> QED BY <1>2, <3>1 DEF CutTo
  <2>2. << <<>> >> \in Seq(Seq(S)) /\ << <<>> >> # <<>>
    BY <1>3
  <2> QED BY <2>1, <2>2
<1>5. ASSUME NEW n \in 1..L, Right(n - 1)
      PROVE  Right(n) /\ (text[n] # "." => f[n][Len(f[n])] # <<>>)
  <2>1. PICK c \in Seq(Seq(S)) : c = f[n - 1] /\ c # <<>>
    BY <1>5
  <2>2. PICK M \in Nat : M = Len(c) /\ M # 0
    BY <2>1, EmptySeq, LenProperties
  <2>3. f[n] = CutTo(f, text, n) /\ n # 0
    BY <1>1, <1>2
  <2>4. CASE text[n] = "."
    <3>1. f[n] = Append(c, <<>>)
      BY <2>1, <2>3, <2>4 DEF CutTo
    <3>2. Append(c, <<>>) \in Seq(Seq(S)) /\ Len(Append(c, <<>>)) = M + 1
      BY <1>3, <2>2, AppendProperties
    <3>3. Append(c, <<>>) # <<>>
      BY <3>2, EmptySeq
    <3> QED BY <2>4, <3>1, <3>2, <3>3
  <2>5. CASE text[n] # "."
    <3>1. f[n] = [c EXCEPT ![M] = Append(@, text[n])]
      BY <2>1, <2>2, <2>3, <2>5 DEF CutTo
    <3>2. c[M] \in Seq(S) /\ M \in 1..Len(c)
      BY <2>1, <2>2, ElementOfSeq
    <3>3. PICK x \in S : x = text[n]
      BY <1>1
    <3>4. Append(c[M], x) \in Seq(S) /\ Len(Append(c[M], x)) = Len(c[M]) + 1 /\ Len(c[M]) \in Nat
      BY <3>2, AppendProperties, LenProperties
    <3>5. Append(c[M], x) # <<>>
      BY <3>4, EmptySeq
    <3>6. PICK y \in Seq(S) : y = Append(c[M], x)
      BY <3>4
    <3>7. f[n] = [c EXCEPT ![M] = y]
      BY <3>1, <3>3, <3>6
    <3>8. /\ f[n] \in Seq(Seq(S)) /\ Len(f[n]) = M
          /\ f[n][M] = y
      BY <2>2, <3>2, <3>6, <3>7, ExceptSeq
    <3>9. f[n] # <<>>
      BY <2>2, <3>8, EmptySeq
    <3> QED BY <3>5, <3>6, <3>8, <3>9
  <2> QED BY <2>4, <2>5
<1> HIDE DEF Right
<1>6. ASSUME T # {} PROVE FALSE
  <2>1. T \in SUBSET Nat
    BY <1>1
  <2>2. PICK m \in T : \A j \in T : m <= j
    BY <1>6, <2>1, LeastOf
  <2>3. m \in 0..L /\ ~Right(m)
    BY <2>2
  <2>4. m \in 1..L /\ m - 1 \in 0..L /\ ~(m <= m - 1)
    BY <1>1, <1>4, <2>3
  <2>5. Right(m - 1)
    BY <2>2, <2>4
  <2> QED BY <1>5, <2>3, <2>4, <2>5
<1>7. Right(L)
  <2>1. L \in 0..L
    BY <1>1
  <2> QED BY <1>6, <2>1
<1>8. Len(Tokens(text)) \in Nat \ {0}
  BY <1>2, <1>7, EmptySeq DEF Right
<1>9. text # <<>> /\ text[L] # "." => Tokens(text)[Len(Tokens(text))] # <<>>
  <2> SUFFICES ASSUME text # <<>>, text[L] # "." PROVE f[L][Len(f[L])] # <<>>
    BY <1>2
  <2>1. L # 0
    <3>1. text \in Seq(S)
      BY <1>1, SeqIn
    <3> QED BY <3>1, EmptySeq
  <2>2. L \in 1..L /\ L - 1 \in 0..L
    BY <1>1, <2>1
  <2>3. Right(L - 1)
    BY <1>6, <2>2
  <2> QED BY <1>5, <2>2, <2>3
<1>10. \E Q : Tokens(text) \in Seq(Seq(Q))
  BY <1>2, <1>7 DEF Right
<1> QED
  BY <1>8, <1>9, <1>10

-----------------------------------------------------------------------------
(* Patterns *)

\* The name is at its end: an empty token is none.
Over(m, n) == n > Len(m) \/ (n = Len(m) /\ m[n] = <<>>)

\* One token of the pattern, or its end
MatchAt(f, p, m, n) ==
  IF n > Len(p) THEN Over(m, n)
  ELSE \/ p[n] = <<"*", "*">>
       \/ ~Over(m, n) /\ p[n] \in {<<"*">>, m[n]} /\ f[n + 1]
Matching(f, p, m) == f = [n \in 1..(Len(p) + 1) |-> MatchAt(f, p, m, n)]
Matches(p, m) == CHOOSE f : Matching(f, p, m)

\* There is such a function, from the end of the pattern backwards.
LEMMA MatchExists ==
  ASSUME NEW p, NEW m, NEW L \in Nat, L = Len(p)
  PROVE  \E f : Matching(f, p, m)
<1> DEFINE Walked(d) == \E f : f = [n \in (L + 1 - d)..(L + 1) |-> MatchAt(f, p, m, n)]
           T == {d \in 0..L : ~Walked(d)}
<1>1. ASSUME T # {} PROVE FALSE
  <2>1. T \in SUBSET Nat
    OBVIOUS
  <2>2. PICK d \in T : \A j \in T : d <= j
    BY <1>1, <2>1, LeastOf
  <2>3. d \in 0..L /\ ~Walked(d)
    BY <2>2
  <2>4. Walked(0)
    <3> DEFINE f == [n \in (L + 1 - 0)..(L + 1) |-> Over(m, n)]
    <3>1. \A n \in (L + 1 - 0)..(L + 1) : MatchAt(f, p, m, n) = Over(m, n)
      <4> TAKE n \in (L + 1 - 0)..(L + 1)
      <4>1. n > Len(p)
        OBVIOUS
      <4> QED BY <4>1, Zenon DEF MatchAt
    <3>2. f = [n \in (L + 1 - 0)..(L + 1) |-> MatchAt(f, p, m, n)]
      <4>1. f = [n \in (L + 1 - 0)..(L + 1) |-> f[n]]
        BY Zenon
      <4>2. \A n \in (L + 1 - 0)..(L + 1) : f[n] = Over(m, n)
        BY Zenon
      <4> HIDE DEF f
      <4> QED BY <3>1, <4>1, <4>2, Zenon
    <3> HIDE DEF f
    <3> QED BY <3>2
  <2>5. d # 0
    BY <2>3, <2>4
  <2>6. d - 1 \in 0..L /\ ~(d <= d - 1)
    BY <2>3, <2>5
  <2>7. Walked(d - 1)
    <3> HIDE DEF Walked
    <3>1. d - 1 \notin T
      <4> HIDE DEF T
      <4> QED BY <2>2, <2>6
    <3> QED BY <2>6, <3>1
  <2>8. PICK f : f = [n \in (L + 1 - (d - 1))..(L + 1) |-> MatchAt(f, p, m, n)]
    BY <2>7
  <2>9. PICK a \in Nat : a = L + 1 - d /\ L + 1 - (d - 1) = a + 1 /\ a <= L
    BY <2>3, <2>5
  <2>10. \A n \in (a + 1)..(L + 1) : f[n] = MatchAt(f, p, m, n)
    BY <2>8, <2>9, Zenon
  <2> DEFINE g == [n \in a..(L + 1) |-> IF n = a THEN MatchAt(f, p, m, a) ELSE f[n]]
  <2>11. \A n \in a..(L + 1) : MatchAt(g, p, m, n) = g[n]
    <3> TAKE n \in a..(L + 1)
    <3>0. a \in Nat /\ n \in Nat /\ n >= a
      BY <2>9
    <3>1. n <= L => n + 1 \in a..(L + 1) /\ n + 1 # a /\ g[n + 1] = f[n + 1]
      BY <3>0
    <3>2. MatchAt(g, p, m, n) = MatchAt(f, p, m, n)
      <4> HIDE DEF g
      <4>1. ~(n > Len(p)) => g[n + 1] = f[n + 1]
        BY <3>0, <3>1
      <4> QED BY <4>1, Zenon DEF MatchAt
    <3>3. n # a => n \in (a + 1)..(L + 1)
      BY <3>0
    <3>4. n # a => f[n] = MatchAt(f, p, m, n)
      BY <2>10, <3>3, Zenon
    <3>5. g[n] = IF n = a THEN MatchAt(f, p, m, a) ELSE f[n]
      BY Zenon
    <3> HIDE DEF g
    <3> QED BY <3>2, <3>4, <3>5, Zenon
  <2>12. g = [n \in a..(L + 1) |-> MatchAt(g, p, m, n)]
    <3>1. g = [n \in a..(L + 1) |-> g[n]]
      BY Zenon
    <3> HIDE DEF g
    <3> QED BY <2>11, <3>1, Zenon
  <2> HIDE DEF g
  <2> QED BY <2>3, <2>9, <2>12
<1>2. Walked(L)
  <2> HIDE DEF Walked
  <2>1. L \in 0..L
    OBVIOUS
  <2> QED BY <1>1, <2>1
<1>3. (L + 1 - L)..(L + 1) = 1..(L + 1)
  OBVIOUS
<1> QED
  BY <1>2, <1>3 DEF Matching

LEMMA MatchIs ==
  ASSUME NEW pattern, NEW name, NEW p, p = Tokens(pattern), NEW m, m = Tokens(name),
         NEW L \in Nat, L = Len(p)
  PROVE  /\ MatchString(pattern, name) = Matches(p, m)[1]
         /\ \A n \in 1..(L + 1) : Matches(p, m)[n] = MatchAt(Matches(p, m), p, m, n)
<1>1. Matching(Matches(p, m), p, m)
  BY MatchExists DEF Matches
<1>2. \A n \in 1..(L + 1) : Matches(p, m)[n] = MatchAt(Matches(p, m), p, m, n)
  <2> DEFINE f == Matches(p, m)
  <2>1. f = [n \in 1..(L + 1) |-> MatchAt(f, p, m, n)]
    BY <1>1 DEF Matching
  <2> HIDE DEF f
  <2>2. \A n \in 1..(L + 1) : f[n] = MatchAt(f, p, m, n)
    BY <2>1, Zenon
  <2> QED BY <2>2 DEF f
<1>3. MatchString(pattern, name) = Matches(p, m)[1]
  BY Zenon DEF MatchString, Matches, Matching, MatchAt, Over
<1> QED
  BY <1>2, <1>3

\* match_string() finds what a pattern means, in a name that does not end in a
\* dot.
LEMMA MatchMeans ==
  ASSUME NEW pattern, IsSeq(pattern), NEW name, IsSeq(name),
         name # <<>>, name[Len(name)] # "."
  PROVE  MatchString(pattern, name) <=> Means(pattern, name)
<1> DEFINE p == Tokens(pattern)
           m == Tokens(name)
           L == Len(p)
           M == Len(m)
           f == Matches(p, m)
           Fits(j) == p[j] \in {<<"*">>, m[j]}
           Stars(j) == p[j] = <<"*", "*">>
           Rest(n) == \/ L = M /\ \A j \in n..M : Fits(j)
                      \/ \E q \in n..L : Stars(q) /\ q - 1 <= M /\ \A j \in n..(q - 1) : Fits(j)
<1>1. L \in Nat /\ M \in Nat /\ M # 0 /\ m[M] # <<>>
  BY TokensAre
<1>2. /\ MatchString(pattern, name) = f[1]
      /\ \A n \in 1..(L + 1) : f[n] = MatchAt(f, p, m, n)
  <2>1. p = Tokens(pattern) /\ m = Tokens(name) /\ L = Len(p) /\ L \in Nat
    BY <1>1
  <2> HIDE DEF p, m, L
  <2>2. /\ MatchString(pattern, name) = Matches(p, m)[1]
        /\ \A n \in 1..(L + 1) : Matches(p, m)[n] = MatchAt(Matches(p, m), p, m, n)
    BY <2>1, MatchIs, SMT
  <2> QED BY <2>2, Zenon
<1>3. \A n \in Nat : Over(m, n) <=> n > M
  BY <1>1 DEF Over
<1>4. Means(pattern, name) <=>
        \/ L = M /\ \A j \in 1..M : Fits(j)
        \/ \E n \in 0..(L - 1) : Stars(n + 1) /\ n <= M /\ \A j \in 1..n : Fits(j)
  BY Zenon DEF Means
<1> HIDE DEF p, m, f, L, M, Fits, Stars
<1>5. Means(pattern, name) <=> Rest(1)
  <2>1. ASSUME NEW n \in 0..(L - 1), Stars(n + 1), n <= M, \A j \in 1..n : Fits(j)
        PROVE  Rest(1)
    <3>1. n + 1 \in 1..L /\ (n + 1) - 1 = n
      BY <1>1
    <3> QED BY <2>1, <3>1
  <2>2. ASSUME NEW q \in 1..L, Stars(q), q - 1 <= M, \A j \in 1..(q - 1) : Fits(j)
        PROVE  \E n \in 0..(L - 1) : Stars(n + 1) /\ n <= M /\ \A j \in 1..n : Fits(j)
    <3>1. q - 1 \in 0..(L - 1) /\ (q - 1) + 1 = q
      BY <1>1
    <3> QED BY <2>2, <3>1
  <2> QED BY <1>4, <2>1, <2>2
<1>6. f[L + 1] <=> L + 1 > M
  <2>1. f[L + 1] = MatchAt(f, p, m, L + 1) /\ L + 1 > L /\ L + 1 \in Nat
    BY <1>1, <1>2
  <2>2. f[L + 1] = Over(m, L + 1)
    BY <2>1, Zenon DEF MatchAt, L
  <2> QED BY <1>3, <2>1, <2>2
<1>7. ASSUME NEW n \in 1..L
      PROVE  f[n] <=> Stars(n) \/ (n <= M /\ Fits(n) /\ f[n + 1])
  <2>1. n \in 1..(L + 1) /\ ~(n > L) /\ n \in Nat
    BY <1>1
  <2>2. f[n] = (Stars(n) \/ (~Over(m, n) /\ Fits(n) /\ f[n + 1]))
    BY <1>2, <2>1, Zenon DEF MatchAt, L, Stars, Fits
  <2>3. ~Over(m, n) <=> n <= M
    BY <1>1, <1>3, <2>1
  <2> QED BY <2>2, <2>3, Zenon
<1> DEFINE Right(d) == L - d <= M => (f[L + 1 - d] <=> Rest(L + 1 - d))
           T == {d \in 0..L : ~Right(d)}
<1>8. Right(0)
  <2>1. L + 1 - 0 = L + 1 /\ L - 0 = L /\ (L + 1)..L = {}
    BY <1>1
  <2>2. L <= M => (Rest(L + 1) <=> L + 1 > M)
    BY <1>1
  <2> QED BY <1>6, <2>1, <2>2
<1>9. ASSUME NEW d \in 1..L, Right(d - 1) PROVE Right(d)
  <2>1. PICK n \in 1..L : n = L + 1 - d /\ n + 1 = L + 1 - (d - 1) /\ n - 1 = L - d /\ n = L - (d - 1)
    BY <1>1
  <2>2. n <= M => (f[n + 1] <=> Rest(n + 1))
    BY <1>9, <2>1
  <2>3. ASSUME n - 1 <= M, Stars(n) PROVE Rest(n)
    <3>1. n \in n..L /\ n..(n - 1) = {}
      BY <1>1
    <3> QED BY <2>3, <3>1
  <2>4. ASSUME n <= M, Fits(n), Rest(n + 1) PROVE Rest(n)
    <3>1. \A j \in n..M : j = n \/ j \in (n + 1)..M
      BY <1>1
    <3>2. CASE L = M /\ \A j \in (n + 1)..M : Fits(j)
      BY <2>4, <3>1, <3>2
    <3>3. CASE \E q \in (n + 1)..L : Stars(q) /\ q - 1 <= M /\ \A j \in (n + 1)..(q - 1) : Fits(j)
      <4>1. PICK q \in (n + 1)..L : Stars(q) /\ q - 1 <= M /\ \A j \in (n + 1)..(q - 1) : Fits(j)
        BY <3>3
      <4>2. q \in n..L /\ \A j \in n..(q - 1) : j = n \/ j \in (n + 1)..(q - 1)
        BY <1>1
      <4>3. \A j \in n..(q - 1) : Fits(j)
        BY <2>4, <4>1, <4>2
      <4> QED BY <4>1, <4>2, <4>3
    <3> QED BY <2>4, <3>2, <3>3
  <2>5. ASSUME Rest(n), n - 1 <= M PROVE Stars(n) \/ (n <= M /\ Fits(n) /\ Rest(n + 1))
    <3>1. CASE L = M /\ \A j \in n..M : Fits(j)
      <4>1. n \in n..M /\ \A j \in (n + 1)..M : j \in n..M
        BY <1>1, <3>1
      <4> QED BY <1>1, <3>1, <4>1
    <3>2. CASE \E q \in n..L : Stars(q) /\ q - 1 <= M /\ \A j \in n..(q - 1) : Fits(j)
      <4>1. PICK q \in n..L : Stars(q) /\ q - 1 <= M /\ \A j \in n..(q - 1) : Fits(j)
        BY <3>2
      <4>2. CASE q = n
        BY <4>1, <4>2
      <4>3. CASE q # n
        <5>1. /\ n \in n..(q - 1) /\ n <= M /\ q \in (n + 1)..L
              /\ \A j \in (n + 1)..(q - 1) : j \in n..(q - 1)
          BY <1>1, <4>1, <4>3
        <5> QED BY <4>1, <5>1
      <4> QED BY <4>2, <4>3
    <3> QED BY <2>5, <3>1, <3>2
  <2> HIDE DEF Rest
  <2>6. n - 1 <= M => (f[n] <=> Rest(n))
    <3>1. f[n] <=> Stars(n) \/ (n <= M /\ Fits(n) /\ f[n + 1])
      BY <1>7
    <3> QED BY <2>2, <2>3, <2>4, <2>5, <3>1, Zenon
  <2> QED BY <2>1, <2>6
<1> HIDE DEF Right, Rest
<1>10. ASSUME T # {} PROVE FALSE
  <2>1. T \in SUBSET Nat
    BY <1>1
  <2>2. PICK d \in T : \A j \in T : d <= j
    BY <1>10, <2>1, LeastOf
  <2>3. d \in 0..L /\ ~Right(d)
    BY <2>2
  <2>4. d \in 1..L /\ d - 1 \in 0..L /\ ~(d <= d - 1)
    BY <1>1, <1>8, <2>3
  <2>5. Right(d - 1)
    BY <2>2, <2>4
  <2> QED BY <1>9, <2>3, <2>4, <2>5
<1>11. Right(L)
  <2>1. L \in 0..L
    BY <1>1
  <2> QED BY <1>10, <2>1
<1>12. L - L = 0 /\ L + 1 - L = 1 /\ 0 <= M
  BY <1>1
<1>13. f[1] <=> Rest(1)
  BY <1>11, <1>12 DEF Right
<1> QED
  BY <1>2, <1>5, <1>13, Zenon

\* A full name does not end in a dot.
LEMMA FullNameIs ==
  ASSUME NEW t, IsTest(t)
  PROVE  IsSeq(FullName(t)) /\ FullName(t) # <<>> /\ FullName(t)[Len(FullName(t))] # "."
<1>1. /\ Len(t.name) \in Nat /\ DOMAIN t.name = 1..Len(t.name)
      /\ Len(t.group) \in Nat /\ DOMAIN t.group = 1..Len(t.group)
      /\ t.name # <<>> /\ \A n \in 1..Len(t.name) : t.name[n] # "."
  BY SequenceIs DEF IsTest
<1> DEFINE S == {t.name[n] : n \in 1..Len(t.name)} \cup {t.group[n] : n \in 1..Len(t.group)} \cup {"."}
<1>2. t.name \in Seq(S) /\ t.group \in Seq(S) /\ <<".">> \in Seq(S)
  <2>1. "." \in S
    OBVIOUS
  <2>2. t.name \in Seq(S) /\ t.group \in Seq(S)
    BY SeqIn DEF IsTest
  <2> HIDE DEF S
  <2> QED BY <2>1, <2>2
<1> HIDE DEF S
<1>3. Len(t.name) # 0
  BY <1>1, <1>2, EmptySeq
<1>4. CASE t.group = <<>>
  <2>1. FullName(t) = t.name
    BY <1>4 DEF FullName
  <2>2. Len(t.name) \in 1..Len(t.name)
    BY <1>1, <1>3
  <2> QED BY <1>1, <2>1, <2>2 DEF IsTest
<1>5. CASE t.group # <<>>
  <2> DEFINE a == t.group \o <<".">>
  <2>1. FullName(t) = a \o t.name
    BY <1>5 DEF FullName
  <2>2. a \in Seq(S) /\ Len(a) \in Nat
    <3>1. a \in Seq(S)
      BY <1>2, ConcatProperties
    <3> QED BY <3>1, LenProperties
  <2> HIDE DEF a
  <2> DEFINE b == a \o t.name
  <2>3. /\ b \in Seq(S) /\ Len(b) = Len(a) + Len(t.name)
        /\ \A n \in 1..Len(a) + Len(t.name) :
             b[n] = IF n <= Len(a) THEN a[n] ELSE t.name[n - Len(a)]
    BY <1>2, <2>2, ConcatProperties
  <2> HIDE DEF b
  <2>4. /\ Len(b) \in 1..Len(a) + Len(t.name) /\ ~(Len(b) <= Len(a))
        /\ Len(b) - Len(a) = Len(t.name) /\ Len(t.name) \in 1..Len(t.name)
    BY <1>1, <1>3, <2>2, <2>3
  <2>5. b[Len(b)] = t.name[Len(t.name)]
    BY <2>3, <2>4
  <2>6. b # <<>>
    BY <2>3, <2>4, EmptySeq
  <2>7. IsSeq(b)
    BY <2>3, IsSeqOf
  <2>8. FullName(t) = b
    BY <2>1 DEF b
  <2> QED BY <1>1, <2>4, <2>5, <2>6, <2>7, <2>8
<1> QED
  BY <1>4, <1>5

Patterns(x) == IsSeq(x) /\ \A n \in DOMAIN x : IsSeq(x[n])

\* check_test_skip() leaves out what is not selected.
LEMMA SkippedIs ==
  ASSUME Patterns(cfg.list), Patterns(cfg.ignore), NEW t, IsTest(t)
  PROVE  /\ Skipped(t) <=> ~Selected(cfg, t)
         /\ MatchList(cfg.ignore, t, FALSE) <=> Excluded(cfg, t)
<1>1. IsSeq(FullName(t)) /\ FullName(t) # <<>> /\ FullName(t)[Len(FullName(t))] # "."
  BY FullNameIs
<1>2. ASSUME NEW x, Patterns(x)
      PROVE  \A n \in DOMAIN x : MatchString(x[n], FullName(t)) <=> Means(x[n], FullName(t))
  <2> SUFFICES ASSUME NEW n \in DOMAIN x
               PROVE  MatchString(x[n], FullName(t)) <=> Means(x[n], FullName(t))
    OBVIOUS
  <2>1. IsSeq(x[n])
    BY <1>2 DEF Patterns
  <2> QED BY <1>1, <2>1, MatchMeans
<1>3. MatchList(cfg.ignore, t, FALSE) <=> Excluded(cfg, t)
  <2>1. CASE cfg.ignore = <<>>
    <3>1. DOMAIN cfg.ignore = {}
      BY <2>1
    <3> QED BY <2>1, <3>1, Zenon DEF MatchList, Excluded
  <2>2. CASE cfg.ignore # <<>>
    BY <1>2, <2>2, Zenon DEF MatchList, Excluded
  <2> QED BY <2>1, <2>2
<1>4. MatchList(cfg.list, t, TRUE) <=>
        cfg.list = <<>> \/ \E n \in DOMAIN cfg.list : Means(cfg.list[n], FullName(t))
  BY <1>2, Zenon DEF MatchList
<1> QED
  BY <1>3, <1>4, Zenon DEF Skipped, Selected

\* The selected among the first n tests
ChooseTo(f, c, tests, n) ==
  IF n = 0 THEN <<>>
  ELSE IF Selected(c, tests[n]) THEN Append(f[n - 1], tests[n])
  ELSE f[n - 1]

LEMMA ChosenIs ==
  ASSUME NEW c, NEW tests, NEW L \in Nat, L = Len(tests)
  PROVE  \A n \in 0..L : Chosen(c, tests)[n] = ChooseTo(Chosen(c, tests), c, tests, n)
<1> DEFINE Picking(f) == f = [n \in 0..L |-> ChooseTo(f, c, tests, n)]
           Walked(m) == \E f : f = [n \in 0..m |-> ChooseTo(f, c, tests, n)]
           T == {m \in 0..L : ~Walked(m)}
<1>1. ASSUME T # {} PROVE FALSE
  <2>1. T \in SUBSET Nat
    OBVIOUS
  <2>2. PICK m \in T : \A j \in T : m <= j
    BY <1>1, <2>1, LeastOf
  <2>3. m \in 0..L /\ ~Walked(m)
    BY <2>2
  <2>4. Walked(0)
    <3> DEFINE f == [n \in 0..0 |-> <<>>]
    <3>1. \A n \in 0..0 : ChooseTo(f, c, tests, n) = <<>>
      BY DEF ChooseTo
    <3>2. f = [n \in 0..0 |-> ChooseTo(f, c, tests, n)]
      BY <3>1
    <3> HIDE DEF f
    <3> QED BY <3>2
  <2>5. m # 0
    BY <2>3, <2>4
  <2>6. m - 1 \in 0..L /\ ~(m <= m - 1)
    BY <2>3, <2>5
  <2>7. Walked(m - 1)
    <3> HIDE DEF Walked
    <3>1. m - 1 \notin T
      <4> HIDE DEF T
      <4> QED BY <2>2, <2>6
    <3> QED BY <2>6, <3>1
  <2>8. PICK f : f = [n \in 0..(m - 1) |-> ChooseTo(f, c, tests, n)]
    BY <2>7
  <2> DEFINE g == [n \in 0..m |-> IF n = m THEN ChooseTo(f, c, tests, m) ELSE f[n]]
  <2>9. \A n \in 0..m : ChooseTo(g, c, tests, n) = g[n]
    <3> TAKE n \in 0..m
    <3>0. m \in Nat /\ n \in Nat /\ n <= m
      BY <2>3
    <3>1. n # 0 => n - 1 \in 0..m /\ n - 1 # m /\ g[n - 1] = f[n - 1]
      BY <3>0
    <3>2. ChooseTo(g, c, tests, n) = ChooseTo(f, c, tests, n)
      <4> HIDE DEF g
      <4> QED BY <3>1, Zenon DEF ChooseTo
    <3>3. n # m => n \in 0..(m - 1)
      BY <3>0
    <3>4. n # m => f[n] = ChooseTo(f, c, tests, n)
      BY <2>8, <3>3, Zenon
    <3>5. g[n] = IF n = m THEN ChooseTo(f, c, tests, m) ELSE f[n]
      BY Zenon
    <3> HIDE DEF g
    <3> QED BY <3>2, <3>4, <3>5, Zenon
  <2>10. g = [n \in 0..m |-> ChooseTo(g, c, tests, n)]
    <3>1. g = [n \in 0..m |-> g[n]]
      BY Zenon
    <3> HIDE DEF g
    <3> QED BY <2>9, <3>1, Zenon
  <2> HIDE DEF g
  <2> QED BY <2>3, <2>10
<1>2. Walked(L)
  <2> HIDE DEF Walked
  <2>1. L \in 0..L
    OBVIOUS
  <2> QED BY <1>1, <2>1
<1>3. \E f : Picking(f)
  BY <1>2
<1>4. Chosen(c, tests) = CHOOSE f : Picking(f)
  BY Zenon DEF Chosen, ChooseTo
<1>5. Picking(Chosen(c, tests))
  <2> HIDE DEF Picking
  <2> QED BY <1>3, <1>4
<1> DEFINE f == Chosen(c, tests)
<1>6. f = [n \in 0..L |-> ChooseTo(f, c, tests, n)]
  BY <1>5
<1> HIDE DEF f
<1>7. \A n \in 0..L : f[n] = ChooseTo(f, c, tests, n)
  BY <1>6, Zenon
<1> QED
  BY <1>7 DEF f

-----------------------------------------------------------------------------
(* The stack of callers and the lists that grow *)

\* Pushing a frame leaves the one at the bottom, and popping another, too.
LEMMA PushIs ==
  ASSUME NEW e, NEW s, IsSeq(s), NEW t, t = <<e>> \o s
  PROVE  /\ IsSeq(t) /\ t # <<>>
         /\ t[Len(t)] = IF s = <<>> THEN e ELSE s[Len(s)]
<1> DEFINE S == {s[n] : n \in DOMAIN s} \cup {e}
           a == <<e>>
<1>1. Len(s) \in Nat /\ DOMAIN s = 1..Len(s)
  BY SequenceIs
<1>2. s \in Seq(S) /\ e \in S
  <2>1. \A n \in 1..Len(s) : s[n] \in S
    BY <1>1
  <2>2. e \in S
    OBVIOUS
  <2> HIDE DEF S
  <2> QED BY <2>1, <2>2, SeqIn
<1> HIDE DEF S
<1>3. a \in Seq(S) /\ Len(a) = 1 /\ a[1] = e
  BY <1>2
<1>4. /\ t \in Seq(S) /\ Len(t) = Len(a) + Len(s)
      /\ \A n \in 1..Len(a) + Len(s) : t[n] = IF n <= Len(a) THEN a[n] ELSE s[n - Len(a)]
  <2>1. t = a \o s
    BY DEF a
  <2> HIDE DEF a
  <2> QED BY <1>2, <1>3, <2>1, ConcatProperties
<1> HIDE DEF a
<1>5. Len(t) = Len(s) + 1 /\ \A n \in 1..Len(s) + 1 : t[n] = IF n = 1 THEN e ELSE s[n - 1]
  BY <1>1, <1>3, <1>4
<1>6. IsSeq(t) /\ t # <<>>
  <2>1. IsSeq(t)
    BY <1>4, IsSeqOf
  <2>2. Len(t) # 0
    BY <1>1, <1>5
  <2> QED BY <2>1, <2>2, <1>4, EmptySeq
<1>7. s = <<>> <=> Len(s) = 0
  BY <1>2, EmptySeq
<1>8. t[Len(t)] = IF Len(s) = 0 THEN e ELSE s[Len(s)]
  BY <1>1, <1>5
<1> QED
  BY <1>6, <1>7, <1>8, Zenon

LEMMA PopIs ==
  ASSUME NEW s, IsSeq(s), s # <<>>
  PROVE  /\ IsSeq(Tail(s))
         /\ Tail(s) = <<>> <=> Len(s) = 1
         /\ Tail(s) # <<>> => Tail(s)[Len(Tail(s))] = s[Len(s)]
         /\ Head(s) = s[1] /\ Len(s) \in Nat \ {0}
<1> DEFINE S == {s[n] : n \in DOMAIN s}
<1>1. s \in Seq(S)
  BY DEF IsSeq
<1> HIDE DEF S
<1> DEFINE u == Tail(s)
<1>2. /\ u \in Seq(S) /\ Len(u) = Len(s) - 1
      /\ \A n \in 1..Len(u) : u[n] = s[n + 1]
  BY <1>1, HeadTailProperties
<1>3. Head(s) = s[1] /\ Len(s) \in Nat \ {0}
  BY <1>1, EmptySeq
<1> HIDE DEF u
<1>4. Len(u) \in Nat /\ (u = <<>> <=> Len(u) = 0)
  BY <1>2, EmptySeq, LenProperties
<1>5. IsSeq(u)
  BY <1>2, IsSeqOf
<1>6. u # <<>> => u[Len(u)] = s[Len(s)]
  BY <1>2, <1>3, <1>4
<1>7. u = <<>> <=> Len(s) = 1
  BY <1>2, <1>3, <1>4
<1> QED
  BY <1>3, <1>5, <1>6, <1>7 DEF u

LEMMA AppendIs ==
  ASSUME NEW s, IsSeq(s), NEW e, NEW t, t = Append(s, e)
  PROVE  /\ IsSeq(t) /\ DOMAIN t = 1..(Len(s) + 1) /\ DOMAIN s = 1..Len(s)
         /\ Len(s) \in Nat
         /\ \A n \in 1..(Len(s) + 1) : t[n] = IF n = Len(s) + 1 THEN e ELSE s[n]
<1> DEFINE S == {s[n] : n \in DOMAIN s} \cup {e}
<1>1. Len(s) \in Nat /\ DOMAIN s = 1..Len(s)
  BY SequenceIs
<1>2. s \in Seq(S) /\ e \in S
  <2>1. \A n \in 1..Len(s) : s[n] \in S
    BY <1>1
  <2>2. e \in S
    OBVIOUS
  <2> HIDE DEF S
  <2> QED BY <2>1, <2>2, SeqIn
<1> HIDE DEF S
<1>3. t \in Seq(S) /\ Len(t) = Len(s) + 1
      /\ \A n \in 1..(Len(s) + 1) : t[n] = IF n = Len(s) + 1 THEN e ELSE s[n]
  BY <1>1, <1>2, AppendProperties
<1>4. DOMAIN t = 1..(Len(s) + 1) /\ IsSeq(t)
  BY <1>3, IsSeqOf, SequenceIs
<1> QED
  BY <1>1, <1>3, <1>4

LEMMA PatternsGrow ==
  ASSUME NEW x, Patterns(x), NEW text, IsSeq(text), NEW t, t = Append(x, text)
  PROVE  Patterns(t)
<1>1. IsSeq(x)
  BY DEF Patterns
<1>2. /\ IsSeq(t) /\ DOMAIN t = 1..(Len(x) + 1) /\ DOMAIN x = 1..Len(x) /\ Len(x) \in Nat
      /\ \A n \in 1..(Len(x) + 1) : t[n] = IF n = Len(x) + 1 THEN text ELSE x[n]
  <2>1. IsSeq(t) /\ DOMAIN x = 1..Len(x) /\ Len(x) \in Nat
    BY <1>1, AppendIs
  <2>2. DOMAIN t = 1..(Len(x) + 1)
    BY <1>1, AppendIs
  <2>3. \A n \in 1..(Len(x) + 1) : t[n] = IF n = Len(x) + 1 THEN text ELSE x[n]
    BY <1>1, AppendIs
  <2> QED BY <2>1, <2>2, <2>3
<1>3. ASSUME NEW n \in DOMAIN t
      PROVE  IsSeq(t[n])
  <2>1. n \in 1..(Len(x) + 1) /\ t[n] = IF n = Len(x) + 1 THEN text ELSE x[n]
    BY <1>2
  <2>2. n = Len(x) + 1 \/ n \in DOMAIN x
    BY <1>2, <2>1
  <2> QED BY <2>1, <2>2, Zenon DEF Patterns
<1> QED
  BY <1>2, <1>3, Zenon DEF Patterns

-----------------------------------------------------------------------------
(* The runner *)

Tests(tests) == IsSeq(tests) /\ \A n \in DOMAIN tests : IsTest(tests[n])

\* The order that ListTests() gives is one of the same tests.
LEMMA SortedIs ==
  ASSUME NEW tests, Tests(tests), NEW s \in Sorted(ToSet(tests))
  PROVE  Tests(s)
<1> DEFINE S == ToSet(tests)
<1>1. IsFiniteSet(S)
  <2>1. DOMAIN tests = 1..Len(tests) /\ Len(tests) \in Nat
    BY SequenceIs DEF Tests
  <2>2. IsFiniteSet(1..Len(tests))
    BY <2>1, FS_Interval
  <2> DEFINE n == Cardinality(1..Len(tests))
  <2>3. tests \in Surjection(1..Len(tests), S)
    <3>1. tests \in [1..Len(tests) -> S]
      <4>1. tests = [m \in 1..Len(tests) |-> tests[m]]
        BY <2>1 DEF Tests, IsSeq
      <4>2. \A m \in 1..Len(tests) : tests[m] \in S
        BY <2>1 DEF ToSet
      <4> HIDE DEF S
      <4> QED BY <4>1, <4>2
    <3>2. \A x \in S : \E m \in 1..Len(tests) : tests[m] = x
      BY <2>1 DEF ToSet
    <3> HIDE DEF S
    <3> QED BY <3>1, <3>2 DEF Surjection
  <2> HIDE DEF S
  <2> QED BY <2>2, <2>3, FS_Surjection
<1> DEFINE C == Cardinality(S)
<1>2. C \in Nat
  BY <1>1, FS_CardinalityType
<1>3. s \in [1..C -> S]
  BY DEF Sorted, SetToSeqs
<1> HIDE DEF C
<1>4. s \in Seq(S) /\ DOMAIN s = 1..C
  <2> HIDE DEF S
  <2> QED BY <1>2, <1>3
<1>5. \A x \in S : IsTest(x)
  BY DEF Tests, ToSet
<1>6. \A n \in DOMAIN s : s[n] \in S
  <2> HIDE DEF S
  <2> QED BY <1>3
<1> HIDE DEF S
<1> QED
  BY <1>4, <1>5, <1>6, IsSeqOf DEF Tests

Fields == { "mode", "fork", "verbose", "debug", "list_all", "ilist", "sysinfo",
            "is_child", "suppress", "threads", "outfile", "tracepath",
            "tempdir", "resource", "list", "ignore", "args" }

Configured(c) ==
  /\ c = [f \in Fields |-> c[f]]
  /\ Patterns(c.list) /\ Patterns(c.ignore)

\* What SelectionByName says of the tests before position n
At(c, tests, n, done) ==
  /\ Chosen(c, tests)[n - 1] = IF c.fork THEN [m \in DOMAIN runs |-> runs[m].test]
                                         ELSE done
  /\ ignored = {m \in 1..(n - 1) : ~tests[m].off /\ Excluded(c, tests[m])}

\* The runner while no other process runs
Active ==
  /\ phase \in {"parse", "list", "run", "stopped"}
  /\ Configured(cfg) /\ Tests(list)
  /\ phase = "parse" => Patterns(argv)
  /\ phase \in {"parse", "list"} =>
       k = 1 /\ runs = <<>> /\ executed = <<>> /\ ignored = {}
  /\ phase = "run" => k \in 1..(Len(list) + 1) /\ At(cfg, list, k, executed)

\* The runner that waits for the process of the test at its position
Waits(w) ==
  /\ Configured(w.cfg) /\ w.cfg.fork /\ Tests(w.list)
  /\ w.k \in 1..Len(w.list) /\ Selected(w.cfg, w.list[w.k])
  /\ At(w.cfg, w.list, w.k, w.executed)

SelectionInv ==
  /\ IsSeq(caller) /\ IsSeq(runs)
  /\ caller = <<>> => Active
  /\ caller # <<>> => Waits(caller[Len(caller)])

LEMMA NewConfigured ==
  Configured(NewConfig)
<1>1. NewConfig = [f \in Fields |-> NewConfig[f]]
  BY DEF NewConfig, Fields
<1>2. NewConfig.list = <<>> /\ NewConfig.ignore = <<>>
  BY DEF NewConfig
<1>3. Patterns(<<>>)
  <2>1. IsSeq(<<>>)
    BY EmptySeq, IsSeqOf
  <2>2. DOMAIN <<>> = {}
    OBVIOUS
  <2> QED BY <2>1, <2>2 DEF Patterns
<1> QED
  BY <1>1, <1>2, <1>3 DEF Configured

LEMMA SelectionInit ==
  Init => SelectionInv
<1> SUFFICES ASSUME Init PROVE SelectionInv
  OBVIOUS
<1>1. IsSeq(<<>>)
  BY EmptySeq, IsSeqOf
<1>2. Tests(list) /\ Patterns(argv)
  BY InputAssumption DEF Init, Tests, Patterns
<1> QED
  BY <1>1, <1>2, NewConfigured DEF Init, SelectionInv, Active

\* The invariant gives the property.
LEMMA SelectionFollows ==
  SelectionInv => SelectionByName
BY Zenon DEF SelectionInv, SelectionByName, Active, At, level

\* A step of a nested process that starts and ends none leaves the runner.
LEMMA NestedKeeps ==
  SelectionInv /\ caller # <<>> /\ UNCHANGED runner => SelectionInv'
<1> SUFFICES ASSUME SelectionInv, caller # <<>>, UNCHANGED runner PROVE SelectionInv'
  OBVIOUS
<1>1. UNCHANGED <<caller, ignored, runs>>
  BY DEF runner
<1>2. Waits(caller[Len(caller)])
  BY DEF SelectionInv
<1>3. Waits(caller[Len(caller)])'
  BY <1>1, <1>2, Zenon DEF Waits, At
<1> QED
  BY <1>1, <1>3, Zenon DEF SelectionInv

\* A step of the runner that starts no process
LEMMA RunnerKeeps ==
  SelectionInv /\ caller = <<>> /\ UNCHANGED <<caller, runs>> /\ Active' => SelectionInv'
BY Zenon DEF SelectionInv

LEMMA ParseKeeps ==
  ASSUME SelectionInv,
         ParseMode \/ ParseFlag \/ ParsePath \/ ParseArgs \/ ParseJobs \/ ParseHelp
           \/ ParseName \/ ParseEnds
  PROVE  SelectionInv'
<1>1. CASE caller # <<>>
  BY <1>1, NestedKeeps DEF ParseMode, ParseFlag, ParsePath, ParseArgs, ParseJobs,
    ParseHelp, ParseName, ParseEnds
<1>2. CASE caller = <<>>
  <2>1. /\ phase = "parse" /\ Configured(cfg) /\ Tests(list) /\ Patterns(argv)
        /\ k = 1 /\ runs = <<>> /\ executed = <<>> /\ ignored = {}
    BY <1>2 DEF SelectionInv, Active, ParseMode, ParseFlag, ParsePath, ParseArgs,
      ParseJobs, ParseHelp, ParseName, ParseEnds, Parsed
  <2>2. /\ UNCHANGED <<argv, list, k, executed>> /\ UNCHANGED <<caller, ignored, runs>>
        /\ phase' \in {"parse", "list", "stopped"}
    BY <2>1 DEF ParseMode, ParseFlag, ParsePath, ParseArgs, ParseJobs, ParseHelp,
      ParseName, ParseEnds, Stop, parsing, runner
  <2>3. cfg = [f \in Fields |-> cfg[f]] /\ Patterns(cfg.list) /\ Patterns(cfg.ignore)
    BY <2>1 DEF Configured
  <2>4. ASSUME NEW f \in Fields \ {"list", "ignore"}, NEW value,
               cfg' = [cfg EXCEPT ![f] = value]
        PROVE  Configured(cfg)'
    <3>1. cfg' = [g \in Fields |-> cfg'[g]] /\ cfg'.list = cfg.list /\ cfg'.ignore = cfg.ignore
      BY <2>3, <2>4 DEF Fields
    <3> QED BY <2>3, <3>1, Zenon DEF Configured
  <2>5. Configured(cfg)'
    <3>1. CASE ParseMode
      <4>1. "mode" \in Fields \ {"list", "ignore"}
        BY DEF Fields
      <4>2. UNCHANGED cfg \/ cfg' = [cfg EXCEPT !["mode"] = argv[1][1]]
        BY <3>1 DEF ParseMode
      <4> QED BY <2>1, <2>4, <4>1, <4>2, Zenon DEF Configured
    <3>2. CASE ParseFlag
      <4>1. PICK f \in Flags : cfg' = [cfg EXCEPT ![f[2]] = f[3]]
        BY <3>2 DEF ParseFlag
      <4>2. f[2] \in Fields \ {"list", "ignore"}
        <5>1. f[2] \in {"fork", "verbose", "suppress", "sysinfo", "debug", "list_all",
                        "ilist", "is_child"}
          <6>1. \E o, v : \/ f = <<o, "fork", v>> \/ f = <<o, "verbose", v>>
                           \/ f = <<o, "suppress", v>> \/ f = <<o, "sysinfo", v>>
                           \/ f = <<o, "debug", v>> \/ f = <<o, "list_all", v>>
                           \/ f = <<o, "ilist", v>> \/ f = <<o, "is_child", v>>
            BY ZenonT(60) DEF Flags
          <6> QED BY <6>1
        <5> QED BY <5>1 DEF Fields
      <4> QED BY <2>4, <4>1, <4>2, Zenon
    <3>3. CASE ParsePath
      <4>1. PICK f \in Paths : UNCHANGED cfg \/ cfg' = [cfg EXCEPT ![f[2]] = <<argv[i + 1]>>]
        BY <3>3 DEF ParsePath
      <4>2. f[2] \in Fields \ {"list", "ignore"}
        BY DEF Paths, Fields
      <4> QED BY <2>1, <2>4, <4>1, <4>2, Zenon DEF Configured
    <3>4. CASE ParseArgs
      <4>1. "args" \in Fields \ {"list", "ignore"}
        BY DEF Fields
      <4>2. cfg' = [cfg EXCEPT !["args"] = cfg["args"] \o SubSeq(argv, i + 1, Len(argv))]
        BY <3>4 DEF ParseArgs
      <4> QED BY <2>4, <4>1, <4>2, Zenon
    <3>5. CASE ParseJobs
      <4>1. "threads" \in Fields \ {"list", "ignore"}
        BY DEF Fields
      <4>2. UNCHANGED cfg \/ cfg' = [cfg EXCEPT !["threads"] = Numeral[argv[i + 1]]]
        BY <3>5 DEF ParseJobs
      <4> QED BY <2>1, <2>4, <4>1, <4>2, Zenon DEF Configured
    <3>6. CASE ParseHelp
      BY <2>1, <3>6, Zenon DEF ParseHelp, Configured
    <3>7. CASE ParseName
      <4>1. IsSeq(argv[i])
        BY <2>1, <3>7, SequenceIs DEF ParseName, Patterns
      <4> DEFINE x == Append(cfg.ignore, argv[i])
                 y == Append(cfg.list, argv[i])
      <4>2. Patterns(x) /\ Patterns(y)
        BY <2>3, <4>1, PatternsGrow
      <4>3. cfg' = [cfg EXCEPT !.ignore = x] \/ cfg' = [cfg EXCEPT !.list = y]
        BY <3>7 DEF ParseName
      <4> HIDE DEF x, y
      <4>4. /\ cfg' = [g \in Fields |-> cfg'[g]]
            /\ cfg'.list \in {cfg.list, y} /\ cfg'.ignore \in {cfg.ignore, x}
        BY <2>3, <4>3 DEF Fields
      <4> QED BY <2>3, <4>2, <4>4 DEF Configured
    <3>8. CASE ParseEnds
      <4>1. cfg' = [f \in Fields |-> IF f \in DOMAIN Default /\ cfg[f] = <<>>
                                     THEN <<Default[f]>> ELSE cfg[f]]
        <5>1. DOMAIN cfg = Fields
          BY <2>3, Zenon
        <5> QED BY <3>8, <5>1, Zenon DEF ParseEnds
      <4>2. {"list", "ignore"} \subseteq Fields \ DOMAIN Default
        BY InputAssumption DEF Fields
      <4>3. cfg' = [g \in Fields |-> cfg'[g]] /\ cfg'.list = cfg.list /\ cfg'.ignore = cfg.ignore
        <5> DEFINE h == [f \in Fields |-> IF f \in DOMAIN Default /\ cfg[f] = <<>>
                                     THEN <<Default[f]>> ELSE cfg[f]]
        <5>1. h = [g \in Fields |-> h[g]] /\ h["list"] = cfg["list"] /\ h["ignore"] = cfg["ignore"]
          BY <4>2
        <5>2. cfg' = h
          BY <4>1
        <5> HIDE DEF h
        <5> QED BY <5>1, <5>2
      <4> QED BY <2>3, <4>3, Zenon DEF Configured
    <3> QED BY <3>1, <3>2, <3>3, <3>4, <3>5, <3>6, <3>7, <3>8
  <2>6. Active'
    BY <2>1, <2>2, <2>5 DEF Active
  <2> QED BY <1>2, <2>2, <2>6, RunnerKeeps
<1> QED
  BY <1>1, <1>2

\* The list of tests is empty, refused, or sorted.
LEMMA ListKeeps ==
  SelectionInv /\ ListTests => SelectionInv'
<1> SUFFICES ASSUME SelectionInv, ListTests PROVE SelectionInv'
  OBVIOUS
<1>1. CASE caller # <<>>
  BY <1>1, NestedKeeps DEF ListTests
<1>2. CASE caller = <<>>
  <2>1. /\ phase = "list" /\ Configured(cfg) /\ Tests(list)
        /\ k = 1 /\ runs = <<>> /\ executed = <<>> /\ ignored = {}
    BY <1>2 DEF SelectionInv, Active, ListTests
  <2>2. UNCHANGED <<cfg, k, executed, caller, ignored, runs>> /\ phase' \in {"run", "stopped"}
    BY Zenon DEF ListTests, Stop, parsing, runner
  <2>3. Tests(list)'
    <3>1. UNCHANGED list \/ list' \in Sorted(ToSet(list))
      BY DEF ListTests
    <3>2. Tests(list')
      BY <2>1, <3>1, SortedIs
    <3> QED BY <3>2 DEF Tests
  <2>4. k' \in 1..(Len(list') + 1)
    <3>1. Len(list') \in Nat
      BY <2>3, SequenceIs DEF Tests
    <3> QED BY <2>1, <2>2, <3>1
  <2>5. At(cfg, list, k, executed)'
    <3>1. Chosen(cfg', list')[0] = <<>>
      <4>1. Len(list') \in Nat
        BY <2>3, SequenceIs DEF Tests
      <4>2. 0 \in 0..Len(list')
        BY <4>1
      <4>3. Chosen(cfg', list')[0] = ChooseTo(Chosen(cfg', list'), cfg', list', 0)
        BY <4>1, <4>2, ChosenIs
      <4> QED BY <4>3, Zenon DEF ChooseTo
    <3>2. [m \in DOMAIN <<>> |-> runs'[m].test] = <<>>
      OBVIOUS
    <3>3. k' - 1 = 0 /\ 1..(k' - 1) = {}
      BY <2>1, <2>2
    <3> QED BY <2>1, <2>2, <3>1, <3>2, <3>3, Zenon DEF At
  <2>6. Active'
    BY <2>1, <2>2, <2>3, <2>4, <2>5 DEF Active, Configured
  <2> QED BY <1>2, <2>2, <2>6, RunnerKeeps
<1> QED
  BY <1>1, <1>2

\* The tests chosen before the next position
LEMMA ChosenNext ==
  ASSUME NEW c, NEW tests, Tests(tests), NEW n \in 1..Len(tests)
  PROVE  Chosen(c, tests)[n] = IF Selected(c, tests[n])
                               THEN Append(Chosen(c, tests)[n - 1], tests[n])
                               ELSE Chosen(c, tests)[n - 1]
<1>1. Len(tests) \in Nat
  BY SequenceIs DEF Tests
<1>2. n \in 0..Len(tests) /\ n # 0
  BY <1>1
<1>3. Chosen(c, tests)[n] = ChooseTo(Chosen(c, tests), c, tests, n)
  BY <1>1, <1>2, ChosenIs
<1> QED
  BY <1>2, <1>3, Zenon DEF ChooseTo

\* What the runner knows at a position of its loop
LEMMA InLoop ==
  ASSUME SelectionInv, caller = <<>>, phase = "run", k <= Len(list)
  PROVE  /\ Configured(cfg) /\ Tests(list) /\ Len(list) \in Nat
         /\ k \in 1..Len(list) /\ IsTest(list[k])
         /\ At(cfg, list, k, executed)
         /\ Skipped(list[k]) <=> ~Selected(cfg, list[k])
         /\ MatchList(cfg.ignore, list[k], FALSE) <=> Excluded(cfg, list[k])
<1>1. /\ Configured(cfg) /\ Tests(list) /\ At(cfg, list, k, executed)
      /\ k \in 1..(Len(list) + 1)
  BY Zenon DEF SelectionInv, Active
<1>2. Len(list) \in Nat /\ DOMAIN list = 1..Len(list)
  BY <1>1, SequenceIs DEF Tests
<1>3. k \in 1..Len(list)
  BY <1>1, <1>2
<1>4. IsTest(list[k])
  BY <1>1, <1>2, <1>3 DEF Tests
<1>5. Patterns(cfg.list) /\ Patterns(cfg.ignore)
  BY <1>1 DEF Configured
<1>6. /\ Skipped(list[k]) <=> ~Selected(cfg, list[k])
      /\ MatchList(cfg.ignore, list[k], FALSE) <=> Excluded(cfg, list[k])
  BY <1>4, <1>5, SkippedIs
<1> QED
  BY <1>1, <1>2, <1>3, <1>4, <1>6, Zenon

LEMMA SkipKeeps ==
  SelectionInv /\ SkipTest => SelectionInv'
<1> SUFFICES ASSUME SelectionInv, SkipTest PROVE SelectionInv'
  OBVIOUS
<1>0. phase = "run" /\ k <= Len(list) /\ Skipped(list[k])
  BY DEF SkipTest
<1>1. CASE caller # <<>>
  <2>1. UNCHANGED runner
    BY <1>1 DEF SkipTest, level, runner
  <2> QED BY <1>1, <2>1, NestedKeeps
<1>2. CASE caller = <<>>
  <2>1. /\ Configured(cfg) /\ Tests(list) /\ Len(list) \in Nat /\ k \in 1..Len(list)
        /\ At(cfg, list, k, executed) /\ ~Selected(cfg, list[k])
        /\ MatchList(cfg.ignore, list[k], FALSE) <=> Excluded(cfg, list[k])
    BY <1>0, <1>2, InLoop, Zenon
  <2>2. /\ UNCHANGED <<argv, phase, cfg, list, executed, caller, runs>> /\ k' = k + 1
        /\ ignored' = IF ~list[k].off /\ Excluded(cfg, list[k]) THEN ignored \cup {k}
                      ELSE ignored
    BY <1>2, <2>1, Zenon DEF SkipTest, level, parsing
  <2>3. k' \in 1..(Len(list') + 1) /\ k' - 1 = k
    BY <2>1, <2>2
  <2>4. Chosen(cfg, list)[k] = Chosen(cfg, list)[k - 1]
    BY <2>1, ChosenNext, Zenon
  <2>5. ignored' = {m \in 1..k : ~list[m].off /\ Excluded(cfg, list[m])}
    <3> DEFINE Out(m) == ~list[m].off /\ Excluded(cfg, list[m])
    <3>1. ignored = {m \in 1..(k - 1) : Out(m)}
      BY <2>1, Zenon DEF At
    <3>2. ignored' = IF Out(k) THEN ignored \cup {k} ELSE ignored
      BY <2>2, Zenon
    <3>3. k \in Nat \ {0}
      BY <2>1
    <3> HIDE DEF Out
    <3>4. ignored' = {m \in 1..k : Out(m)}
      BY <3>1, <3>2, <3>3
    <3> QED BY <3>4 DEF Out
  <2>6. At(cfg, list, k, executed)'
    BY <2>1, <2>2, <2>3, <2>4, <2>5, Zenon DEF At
  <2>7. Active'
    BY <1>0, <2>1, <2>2, <2>3, <2>6 DEF Active, Configured, Tests
  <2> QED BY <1>2, <2>2, <2>7, RunnerKeeps
<1> QED
  BY <1>1, <1>2

LEMMA ExecuteKeeps ==
  SelectionInv /\ Execute => SelectionInv'
<1> SUFFICES ASSUME SelectionInv, Execute PROVE SelectionInv'
  OBVIOUS
<1>0. /\ phase = "run" /\ k <= Len(list) /\ ~Skipped(list[k]) /\ ~cfg.fork
      /\ UNCHANGED <<argv, cfg, list, caller, ignored, runs>> /\ UNCHANGED runner
      /\ executed' = Append(executed, list[k])
      /\ phase' = "stopped" \/ (phase' = "run" /\ k' = k + 1)
  <2>1. \E r \in {OK, UNKNOWN_ERR} :
          IF r # OK \/ cfg.is_child THEN phase' = "stopped"
          ELSE k' = k + 1 /\ UNCHANGED phase
    BY Zenon DEF Execute, Stop
  <2>2. phase = "run" /\ (phase' = "stopped" \/ (UNCHANGED phase /\ k' = k + 1))
    <3>1. phase = "run"
      BY Zenon DEF Execute
    <3> QED BY <2>1, <3>1, Zenon
  <2> QED BY <2>2, Zenon DEF Execute, parsing, runner
<1>1. CASE caller # <<>>
  BY <1>0, <1>1, NestedKeeps
<1>2. CASE caller = <<>>
  <2>1. /\ Configured(cfg) /\ Tests(list) /\ Len(list) \in Nat /\ k \in 1..Len(list)
        /\ At(cfg, list, k, executed) /\ Selected(cfg, list[k])
    BY <1>0, <1>2, InLoop, Zenon
  <2>2. ASSUME phase' = "run"
        PROVE  k' \in 1..(Len(list') + 1) /\ At(cfg, list, k, executed)'
    <3>1. k' = k + 1 /\ k' \in 1..(Len(list') + 1) /\ k' - 1 = k
      BY <1>0, <2>1, <2>2
    <3>2. Chosen(cfg, list)[k] = Append(Chosen(cfg, list)[k - 1], list[k])
      BY <2>1, ChosenNext, Zenon
    <3>3. Chosen(cfg, list)[k - 1] = executed
      BY <1>0, <2>1, Zenon DEF At
    <3>4. ignored = {m \in 1..k : ~list[m].off /\ Excluded(cfg, list[m])}
      <4> DEFINE Out(m) == ~list[m].off /\ Excluded(cfg, list[m])
      <4>1. ignored = {m \in 1..(k - 1) : Out(m)}
        BY <2>1, Zenon DEF At
      <4>2. ~Out(k)
        BY <2>1, Zenon DEF Selected
      <4>3. k \in Nat \ {0}
        BY <2>1
      <4> HIDE DEF Out
      <4>4. ignored = {m \in 1..k : Out(m)}
        BY <4>1, <4>2, <4>3
      <4> QED BY <4>4 DEF Out
    <3> QED BY <1>0, <3>1, <3>2, <3>3, <3>4, Zenon DEF At
  <2>3. Active'
    BY <1>0, <2>1, <2>2 DEF Active, Configured, Tests
  <2> QED BY <1>0, <1>2, <2>3, RunnerKeeps
<1> QED
  BY <1>1, <1>2

\* The first process that waits is the runner.
LEMMA SubmitKeeps ==
  SelectionInv /\ Submit => SelectionInv'
<1> SUFFICES ASSUME SelectionInv, Submit PROVE SelectionInv'
  OBVIOUS
<1> DEFINE frame == [cfg |-> cfg, argv |-> argv, i |-> i, list |-> list, k |-> k,
                     executed |-> executed]
<1>0. /\ phase = "run" /\ k <= Len(list) /\ ~Skipped(list[k]) /\ cfg.fork
      /\ UNCHANGED <<ignored, runs>> /\ caller' = <<frame>> \o caller
  BY Zenon DEF Submit
<1>a. /\ frame.cfg = cfg /\ frame.list = list /\ frame.k = k /\ frame.executed = executed
  OBVIOUS
<1> HIDE DEF frame
<1>1. /\ IsSeq(caller') /\ caller' # <<>>
      /\ caller'[Len(caller')] = IF caller = <<>> THEN frame ELSE caller[Len(caller)]
  <2>1. IsSeq(caller)
    BY DEF SelectionInv
  <2> DEFINE t == caller'
  <2>2. t = <<frame>> \o caller
    BY <1>0
  <2> HIDE DEF t
  <2>3. /\ IsSeq(t) /\ t # <<>>
        /\ t[Len(t)] = IF caller = <<>> THEN frame ELSE caller[Len(caller)]
    BY <2>1, <2>2, PushIs
  <2> QED BY <2>3 DEF t
<1>2. ASSUME NEW w, Waits(w), w = caller'[Len(caller')]
      PROVE  SelectionInv'
  <2>1. Waits(caller[Len(caller)])'
    BY <1>0, <1>2, Zenon DEF Waits, At
  <2> QED BY <1>0, <1>1, <2>1, Zenon DEF SelectionInv
<1>3. CASE caller # <<>>
  <2>1. Waits(caller[Len(caller)]) /\ caller[Len(caller)] = caller'[Len(caller')]
    BY <1>1, <1>3, Zenon DEF SelectionInv
  <2> QED BY <1>2, <2>1
<1>4. CASE caller = <<>>
  <2>1. /\ Configured(cfg) /\ Tests(list) /\ k \in 1..Len(list)
        /\ At(cfg, list, k, executed) /\ Selected(cfg, list[k])
    BY <1>0, <1>4, InLoop, Zenon
  <2>2. Waits(frame) /\ frame = caller'[Len(caller')]
    BY <1>0, <1>a, <1>1, <1>4, <2>1, Zenon DEF Waits
  <2> QED BY <1>2, <2>2
<1> QED
  BY <1>3, <1>4

\* When the process of the runner ends, its test counts as run.
LEMMA NestedEndsKeeps ==
  SelectionInv /\ NestedEnds => SelectionInv'
<1> SUFFICES ASSUME SelectionInv, NestedEnds PROVE SelectionInv'
  OBVIOUS
<1>0. caller # <<>>
  BY DEF NestedEnds, level
<1>1. /\ IsSeq(Tail(caller))
      /\ Tail(caller) = <<>> <=> Len(caller) = 1
      /\ Tail(caller) # <<>> => Tail(caller)[Len(Tail(caller))] = caller[Len(caller)]
      /\ Head(caller) = caller[1] /\ Len(caller) \in Nat \ {0}
  BY <1>0, PopIs DEF SelectionInv
<1> DEFINE w == caller[Len(caller)]
<1>2. Waits(w) /\ IsSeq(runs)
  BY <1>0 DEF SelectionInv
<1>3. CASE Len(caller) > 1
  <2>1. UNCHANGED <<ignored, runs>> /\ caller' = Tail(caller) /\ caller' # <<>>
    BY <1>1, <1>3 DEF NestedEnds
  <2>2. caller'[Len(caller')] = w
    BY <1>1, <2>1
  <2> HIDE DEF w
  <2>3. Waits(caller[Len(caller)])'
    BY <1>2, <2>1, <2>2, Zenon DEF Waits, At
  <2> QED BY <1>1, <1>2, <2>1, <2>3, Zenon DEF SelectionInv
<1>4. CASE ~(Len(caller) > 1)
  <2>1. Len(caller) = 1 /\ Tail(caller) = <<>> /\ Head(caller) = w
    BY <1>1, <1>4
  <2> HIDE DEF w
  <2> DEFINE run == [test |-> w.list[w.k], executed |-> executed, status |-> status]
  <2>2. /\ runs' = Append(runs, run)
        /\ cfg' = w.cfg /\ list' = w.list /\ k' = w.k + 1 /\ executed' = w.executed
        /\ phase' = "run" /\ UNCHANGED ignored /\ caller' = <<>>
    BY <1>4, <2>1, Zenon DEF NestedEnds
  <2>a. run.test = w.list[w.k]
    OBVIOUS
  <2> HIDE DEF run
  <2>3. /\ Configured(w.cfg) /\ w.cfg.fork /\ Tests(w.list)
        /\ w.k \in 1..Len(w.list) /\ Selected(w.cfg, w.list[w.k])
        /\ At(w.cfg, w.list, w.k, w.executed) /\ Len(w.list) \in Nat
    BY <1>2, SequenceIs, Zenon DEF Waits, Tests
  <2>4. k' \in 1..(Len(list') + 1) /\ k' - 1 = w.k
    BY <2>2, <2>3
  <2> DEFINE before == [m \in DOMAIN runs |-> runs[m].test]
             after == [m \in DOMAIN runs' |-> runs'[m].test]
  <2>5. /\ IsSeq(runs') /\ DOMAIN runs' = 1..(Len(runs) + 1) /\ DOMAIN runs = 1..Len(runs)
        /\ Len(runs) \in Nat
        /\ \A n \in 1..(Len(runs) + 1) : runs'[n] = IF n = Len(runs) + 1 THEN run ELSE runs[n]
    <3> DEFINE t == runs'
    <3>1. t = Append(runs, run)
      BY <2>2
    <3> HIDE DEF t
    <3>2. IsSeq(t) /\ DOMAIN runs = 1..Len(runs) /\ Len(runs) \in Nat
      BY <1>2, <3>1, AppendIs
    <3>3. DOMAIN t = 1..(Len(runs) + 1)
      BY <1>2, <3>1, AppendIs
    <3>4. \A n \in 1..(Len(runs) + 1) : t[n] = IF n = Len(runs) + 1 THEN run ELSE runs[n]
      BY <1>2, <3>1, AppendIs
    <3> QED BY <3>2, <3>3, <3>4 DEF t
  <2>6. after = Append(before, w.list[w.k])
    <3> DEFINE S == {before[m] : m \in DOMAIN before} \cup {w.list[w.k]}
               L == Len(runs)
    <3>0. L \in Nat /\ DOMAIN before = 1..L /\ w.list[w.k] \in S
      BY <2>5
    <3>1. before = [m \in 1..L |-> before[m]] /\ \A m \in 1..L : before[m] \in S
      BY <2>5
    <3>b. \A m \in 1..L : before[m] = runs[m].test
      BY <2>5
    <3>5. /\ after = [m \in 1..(L + 1) |-> after[m]]
          /\ \A m \in 1..(L + 1) : after[m] = runs'[m].test
      BY <2>5
    <3> HIDE DEF S, before
    <3>2. before \in Seq(S)
      BY <3>0, <3>1
    <3>c. Len(before) = L
      BY <3>0, <3>2, LenProperties
    <3> DEFINE u == Append(before, w.list[w.k])
    <3>3. /\ u \in Seq(S) /\ Len(u) = L + 1
          /\ \A m \in 1..L : u[m] = before[m]
          /\ u[L + 1] = w.list[w.k]
      BY <3>0, <3>2, <3>c, AppendProperties
    <3> HIDE DEF u, after
    <3>4. u = [m \in 1..(L + 1) |-> u[m]]
      BY <3>0, <3>3
    <3>6. \A m \in 1..(L + 1) : u[m] = after[m]
      <4> SUFFICES ASSUME NEW m \in 1..(L + 1) PROVE u[m] = after[m]
        OBVIOUS
      <4>1. CASE m = L + 1
        <5>1. runs'[m] = run
          BY <2>5, <4>1
        <5> QED BY <2>a, <3>3, <3>5, <4>1, <5>1
      <4>2. CASE m # L + 1
        <5>1. m \in 1..L
          BY <3>0, <4>2
        <5>2. runs'[m] = runs[m]
          BY <2>5, <4>2
        <5> QED BY <3>3, <3>5, <3>b, <5>1, <5>2
      <4> QED BY <4>1, <4>2
    <3>7. u = after
      BY <3>4, <3>5, <3>6, Zenon
    <3> QED BY <3>7 DEF u
  <2>7. Chosen(w.cfg, w.list)[w.k] = Append(Chosen(w.cfg, w.list)[w.k - 1], w.list[w.k])
    BY <2>3, ChosenNext, Zenon
  <2>8. Chosen(w.cfg, w.list)[w.k - 1] = before
    BY <2>3, Zenon DEF At
  <2>9. ignored = {m \in 1..(w.k) : ~(w.list)[m].off /\ Excluded(w.cfg, (w.list)[m])}
    <3> DEFINE Out(m) == ~(w.list)[m].off /\ Excluded(w.cfg, (w.list)[m])
    <3>1. ignored = {m \in 1..(w.k - 1) : Out(m)}
      BY <2>3, Zenon DEF At
    <3>2. ~Out(w.k)
      BY <2>3, Zenon DEF Selected
    <3>3. w.k \in Nat \ {0}
      BY <2>3
    <3> HIDE DEF Out
    <3>4. ignored = {m \in 1..(w.k) : Out(m)}
      BY <3>1, <3>2, <3>3
    <3> QED BY <3>4 DEF Out
  <2>10. Chosen(cfg', list')[k' - 1] = after
    BY <2>2, <2>4, <2>6, <2>7, <2>8, Zenon
  <2>11. ignored' = {m \in 1..(k' - 1) : ~list'[m].off /\ Excluded(cfg', list'[m])}
    BY <2>2, <2>4, <2>9, Zenon
  <2>12. At(cfg, list, k, executed)'
    BY <2>2, <2>3, <2>10, <2>11, Zenon DEF At
  <2>13. Active'
    BY <2>2, <2>3, <2>4, <2>12 DEF Active, Configured, Tests
  <2>14. IsSeq(caller')
    BY <1>1, <2>1, <2>2, Zenon
  <2> QED BY <2>2, <2>5, <2>13, <2>14, Zenon DEF SelectionInv
<1> QED
  BY <1>3, <1>4

LEMMA SelectionNext ==
  SelectionInv /\ [Next]_vars => SelectionInv'
<1> SUFFICES ASSUME SelectionInv, [Next]_vars PROVE SelectionInv'
  OBVIOUS
<1>1. CASE SubmitFails \/ LoopEnds
  <2>1. /\ UNCHANGED <<argv, cfg, list, k, executed, caller, ignored, runs>>
        /\ UNCHANGED runner /\ phase' = "stopped"
    BY <1>1, Zenon DEF SubmitFails, LoopEnds, Stop, parsing, runner
  <2>2. CASE caller # <<>>
    BY <2>1, <2>2, NestedKeeps
  <2>3. CASE caller = <<>>
    <3>1. Configured(cfg) /\ Tests(list)
      BY <2>3, Zenon DEF SelectionInv, Active
    <3>2. Active'
      BY <2>1, <3>1 DEF Active, Configured, Tests
    <3> QED BY <2>1, <2>3, <3>2, RunnerKeeps
  <2> QED BY <2>2, <2>3
<1>2. CASE UNCHANGED vars
  BY <1>2, Zenon DEF vars, parsing, process, runner, SelectionInv, Active, Waits, At,
    Configured, Tests, Patterns
<1>3. CASE RunnerStopped
  BY <1>2, <1>3, Zenon DEF RunnerStopped
<1> QED
  BY <1>1, <1>2, <1>3, ParseKeeps, ListKeeps, SkipKeeps, ExecuteKeeps, SubmitKeeps,
    NestedEndsKeeps, Zenon DEF Next

\* Whatever the registered tests, the patterns and the options: the runner has
\* submitted or executed exactly the tests that the patterns select, in their
\* order, and counts as ignored those that a pattern excludes.
THEOREM SelectionByNameHolds ==
  Spec => []SelectionByName
<1> QED
  BY SelectionInit, SelectionNext, SelectionFollows, PTL DEF Spec

-----------------------------------------------------------------------------
(* Texts put together *)

\* FlattenSeq() works on the first n sequences.
FlatTo(f, s, n) == IF n = 1 THEN s[n] ELSE f[n - 1] \o s[n]
Flatter(f, s) == f = [n \in 1..Len(s) |-> FlatTo(f, s, n)]
Flat(s) == CHOOSE f : Flatter(f, s)

\* There is such a function.
LEMMA FlatExists ==
  ASSUME NEW s, NEW N \in Nat, Len(s) = N
  PROVE  \E f : Flatter(f, s)
<1> DEFINE Walked(m) == \E f : f = [n \in 1..m |-> FlatTo(f, s, n)]
           T == {m \in 0..N : ~Walked(m)}
<1>1. ASSUME T # {} PROVE FALSE
  <2>1. T \in SUBSET Nat
    OBVIOUS
  <2>2. PICK m \in T : \A y \in T : m <= y
    BY <1>1, <2>1, LeastOf
  <2>3. m \in 0..N /\ ~Walked(m)
    BY <2>2
  <2>4. Walked(0)
    <3> DEFINE f == [n \in 1..0 |-> <<>>]
    <3>1. 1..0 = {}
      OBVIOUS
    <3>2. f = [n \in 1..0 |-> FlatTo(f, s, n)]
      BY <3>1
    <3> HIDE DEF f
    <3> QED BY <3>2
  <2>5. m # 0
    BY <2>3, <2>4
  <2>6. m - 1 \in 0..N /\ ~(m <= m - 1)
    BY <2>3, <2>5
  <2>7. Walked(m - 1)
    <3> HIDE DEF Walked
    <3>1. m - 1 \notin T
      <4> HIDE DEF T
      <4> QED BY <2>2, <2>6
    <3> QED BY <2>6, <3>1
  <2>8. PICK f : f = [n \in 1..(m - 1) |-> FlatTo(f, s, n)]
    BY <2>7
  <2> DEFINE g == [n \in 1..m |-> IF n = m THEN FlatTo(f, s, m) ELSE f[n]]
  <2>9. \A n \in 1..m : FlatTo(g, s, n) = g[n]
    <3> TAKE n \in 1..m
    <3>0. m \in Nat /\ n \in Nat /\ n >= 1 /\ n <= m
      BY <2>3
    <3>1. n # 1 => n - 1 \in 1..m /\ n - 1 # m /\ g[n - 1] = f[n - 1]
      BY <3>0
    <3>2. FlatTo(g, s, n) = FlatTo(f, s, n)
      <4> HIDE DEF g
      <4> QED BY <3>1 DEF FlatTo
    <3>3. n # m => n \in 1..(m - 1)
      BY <3>0
    <3>4. n # m => f[n] = FlatTo(f, s, n)
      BY <2>8, <3>3, Zenon
    <3>5. g[n] = IF n = m THEN FlatTo(f, s, m) ELSE f[n]
      BY Zenon
    <3> HIDE DEF g
    <3> QED BY <3>2, <3>4, <3>5, Zenon
  <2>10. g = [n \in 1..m |-> FlatTo(g, s, n)]
    <3>1. g = [n \in 1..m |-> g[n]]
      BY Zenon
    <3> HIDE DEF g
    <3> QED BY <2>9, <3>1, Zenon
  <2> HIDE DEF g
  <2> QED BY <2>3, <2>10
<1>2. Walked(N)
  <2> HIDE DEF Walked
  <2>1. N \in 0..N
    OBVIOUS
  <2> QED BY <1>1, <2>1
<1> QED
  BY <1>2 DEF Flatter

\* FlattenSeq() joins one sequence after the other.
LEMMA FlatIs ==
  ASSUME NEW s, NEW N \in Nat, Len(s) = N
  PROVE  /\ N = 0 => FlattenSeq(s) = s
         /\ N # 0 => FlattenSeq(s) = Flat(s)[N]
         /\ \A n \in 1..N : Flat(s)[n] = FlatTo(Flat(s), s, n)
<1>1. Flatter(Flat(s), s)
  BY FlatExists DEF Flat
<1>2. \A n \in 1..N : Flat(s)[n] = FlatTo(Flat(s), s, n)
  <2> DEFINE f == Flat(s)
  <2>1. f = [n \in 1..N |-> FlatTo(f, s, n)]
    BY <1>1 DEF Flatter
  <2> HIDE DEF f
  <2>2. \A n \in 1..N : f[n] = FlatTo(f, s, n)
    BY <2>1, Zenon
  <2> QED BY <2>2 DEF f
<1>3. FlattenSeq(s) = IF Len(s) = 0 THEN s ELSE Flat(s)[Len(s)]
  BY Zenon DEF FlattenSeq, Flat, Flatter, FlatTo
<1> QED
  BY <1>2, <1>3


\* The number of elements in the first n of some sequences
Upto(s, n) == IF n = 0 THEN 0 ELSE Len(Flat(s)[n])

\* An element of one of the sequences is found behind those before it.
Flattened(s, N) ==
  /\ Len(FlattenSeq(s)) = Upto(s, N)
  /\ Upto(s, 0) = 0
  /\ \A n \in 0..N : Upto(s, n) \in Nat
  /\ \A n \in 1..N : Upto(s, n) = Upto(s, n - 1) + Len(s[n])
  /\ \A n \in 1..N : \A j \in 1..Len(s[n]) :
       FlattenSeq(s)[Upto(s, n - 1) + j] = s[n][j]

LEMMA FlattenIs ==
  ASSUME NEW S, NEW s, NEW N \in Nat, Len(s) = N, N = 0 => s = <<>>,
         \A n \in 1..N : s[n] \in Seq(S)
  PROVE  FlattenSeq(s) \in Seq(S) /\ Flattened(s, N)
<1> SUFFICES /\ FlattenSeq(s) \in Seq(S) /\ Len(FlattenSeq(s)) = Upto(s, N)
             /\ Upto(s, 0) = 0
             /\ \A n \in 0..N : Upto(s, n) \in Nat
             /\ \A n \in 1..N : Upto(s, n) = Upto(s, n - 1) + Len(s[n])
             /\ \A n \in 1..N : \A j \in 1..Len(s[n]) :
                  FlattenSeq(s)[Upto(s, n - 1) + j] = s[n][j]
  BY Zenon DEF Flattened
<1> DEFINE f == Flat(s)
<1>1. /\ N = 0 => FlattenSeq(s) = s
      /\ N # 0 => FlattenSeq(s) = f[N]
      /\ \A n \in 1..N : f[n] = FlatTo(f, s, n)
  BY FlatIs
<1> DEFINE w(n) == Upto(s, n)
           Right(n) ==
             n # 0 =>
               /\ f[n] \in Seq(S) /\ w(n) = w(n - 1) + Len(s[n]) /\ w(n - 1) \in Nat
               /\ \A m \in 1..n : \A j \in 1..Len(s[m]) :
                    w(m - 1) + j \in 1..w(n) /\ f[n][w(m - 1) + j] = s[m][j]
           T == {n \in 0..N : ~Right(n)}
<1>2. w(0) = 0 /\ \A n \in 1..N : w(n) = Len(f[n])
  BY DEF Upto
<1> HIDE DEF f, w
<1>3. ASSUME T # {} PROVE FALSE
  <2>1. T \in SUBSET Nat
    OBVIOUS
  <2>2. PICK n \in T : \A y \in T : n <= y
    BY <1>3, <2>1, LeastOf
  <2>3. n \in 0..N /\ ~Right(n) /\ n # 0 /\ n \in Nat
    BY <2>2
  <2>4. n - 1 \in 0..N /\ ~(n <= n - 1) /\ n \in 1..N
    BY <2>3
  <2>5. Right(n - 1)
    <3> HIDE DEF Right
    <3>1. n - 1 \notin T
      <4> HIDE DEF T
      <4> QED BY <2>2, <2>4
    <3> QED BY <2>4, <3>1
  <2>6. s[n] \in Seq(S) /\ Len(s[n]) \in Nat
    <3>1. s[n] \in Seq(S)
      BY <2>4
    <3> QED BY <3>1, LenProperties
  <2>7. CASE n = 1
    <3>1. f[n] = s[n] /\ w(n) = Len(s[n]) /\ w(n - 1) = 0
      BY <1>1, <1>2, <2>4, <2>7 DEF FlatTo
    <3>2. \A m \in 1..n : m = n
      BY <2>7
    <3>3. Right(n)
      BY <2>6, <2>7, <3>1, <3>2
    <3> QED BY <2>3, <3>3
  <2>8. CASE n # 1
    <3>1. n - 1 # 0 /\ n - 1 \in 1..N
      BY <2>3, <2>4, <2>8
    <3>2. /\ f[n - 1] \in Seq(S)
          /\ \A m \in 1..(n - 1) : \A j \in 1..Len(s[m]) :
               w(m - 1) + j \in 1..w(n - 1) /\ f[n - 1][w(m - 1) + j] = s[m][j]
      BY <2>5, <3>1
    <3>3. f[n] = f[n - 1] \o s[n] /\ w(n - 1) = Len(f[n - 1]) /\ w(n) = Len(f[n])
      BY <1>1, <1>2, <2>4, <2>8, <3>1 DEF FlatTo
    <3>4. w(n - 1) \in Nat
      BY <3>2, <3>3, LenProperties
    <3> HIDE DEF Right, T
    <3> DEFINE a == f[n - 1]
               b == s[n]
    <3>5. /\ f[n] \in Seq(S) /\ w(n) = w(n - 1) + Len(b)
          /\ \A p \in 1..(w(n - 1) + Len(b)) :
               f[n][p] = IF p <= w(n - 1) THEN a[p] ELSE b[p - w(n - 1)]
      <4>1. a \in Seq(S) /\ b \in Seq(S) /\ f[n] = a \o b /\ w(n - 1) = Len(a)
        BY <2>6, <3>2, <3>3
      <4> HIDE DEF a, b
      <4> QED BY <3>3, <4>1, ConcatProperties
    <3>6. ASSUME NEW m \in 1..n, NEW j \in 1..Len(s[m])
          PROVE  w(m - 1) + j \in 1..w(n) /\ f[n][w(m - 1) + j] = s[m][j]
      <4>1. CASE m = n
        <5> DEFINE p == w(n - 1) + j
        <5>1. p \in 1..(w(n - 1) + Len(b)) /\ ~(p <= w(n - 1)) /\ p - w(n - 1) = j
          BY <2>6, <3>4, <3>6, <4>1
        <5> HIDE DEF p, b
        <5>2. p \in 1..w(n) /\ f[n][p] = b[j]
          BY <3>5, <5>1
        <5> QED BY <4>1, <5>2 DEF p, b
      <4>2. CASE m # n
        <5>1. m \in 1..(n - 1)
          BY <2>3, <4>2
        <5>2. w(m - 1) + j \in 1..w(n - 1) /\ f[n - 1][w(m - 1) + j] = s[m][j]
          BY <3>2, <5>1
        <5>3. w(m - 1) + j \in 1..(w(n - 1) + Len(b)) /\ w(m - 1) + j <= w(n - 1)
          BY <2>6, <3>4, <5>2
        <5> QED BY <3>5, <5>2, <5>3
      <4> QED BY <4>1, <4>2
    <3>7. Right(n)
      BY <3>4, <3>5, <3>6 DEF Right
    <3> QED BY <2>3, <3>7
  <2> QED BY <2>7, <2>8
<1>4. \A n \in 0..N : Right(n)
  <2> HIDE DEF Right
  <2> QED BY <1>3
<1>5. \A n \in 1..N : w(n) = w(n - 1) + Len(s[n]) /\ w(n - 1) \in Nat /\ w(n) \in Nat
  <2> SUFFICES ASSUME NEW n \in 1..N
               PROVE  w(n) = w(n - 1) + Len(s[n]) /\ w(n - 1) \in Nat /\ w(n) \in Nat
    OBVIOUS
  <2>1. Right(n) /\ n # 0 /\ s[n] \in Seq(S)
    BY <1>4
  <2>2. Len(s[n]) \in Nat
    BY <2>1, LenProperties
  <2> QED BY <2>1, <2>2
<1>6. \A n \in 0..N : w(n) \in Nat
  <2> SUFFICES ASSUME NEW n \in 0..N PROVE w(n) \in Nat
    OBVIOUS
  <2>1. n = 0 \/ n \in 1..N
    OBVIOUS
  <2> QED BY <1>2, <1>5, <2>1
<1>7. CASE N = 0
  <2>1. FlattenSeq(s) = <<>>
    BY <1>1, <1>7
  <2>2. 1..N = {}
    BY <1>7
  <2>3. <<>> \in Seq(S) /\ Len(<<>>) = 0
    BY EmptySeq
  <2> QED BY <1>2, <1>6, <1>7, <2>1, <2>2, <2>3 DEF w
<1>8. CASE N # 0
  <2>1. FlattenSeq(s) = f[N] /\ N \in 1..N
    BY <1>1, <1>8
  <2>2. Right(N)
    BY <1>4, <2>1
  <2>3. /\ f[N] \in Seq(S) /\ w(N) = Len(f[N])
        /\ \A m \in 1..N : \A j \in 1..Len(s[m]) : f[N][w(m - 1) + j] = s[m][j]
    BY <1>2, <1>8, <2>1, <2>2
  <2> HIDE DEF Right, T
  <2> QED BY <1>2, <1>5, <1>6, <2>1, <2>3 DEF w
<1> QED
  BY <1>7, <1>8

-----------------------------------------------------------------------------
(* CommandLineToArgvW(), character by character *)

Fresh(args) ==
  [args |-> args, text |-> <<>>, open |-> FALSE, quotes |-> 0, slashes |-> 0,
   after |-> FALSE]
ScanTo(f, line, n) ==
  IF n = ProgramEnd(line) THEN Fresh(<<>>) ELSE Scan(f[n - 1], line[n])
Scanning(f, line) ==
  f = [n \in ProgramEnd(line)..Len(line) |-> ScanTo(f, line, n)]
Scanned(line) == CHOOSE f : Scanning(f, line)

\* The end of the program's name is in the line.
LEMMA ProgramEndIs ==
  ASSUME NEW line, Len(line) \in Nat
  PROVE  /\ ProgramEnd(line) \in 0..Len(line)
         /\ \A n \in 1..Len(line) :
              line[1] # Quote /\ line[n] = Space /\ (\A m \in 1..(n - 1) : line[m] \notin {Space, Tab})
                => ProgramEnd(line) = n
<1> DEFINE from == IF line[1] = Quote THEN 2 ELSE 1
           I == {n \in from..Len(line) : IF line[1] = Quote THEN line[n] = Quote
                                         ELSE line[n] \in {Space, Tab}}
<1>1. ProgramEnd(line) = IF I # {} THEN Min(I) ELSE 0
  BY Zenon DEF ProgramEnd, SelectInSeq, SelectInSubSeq
<1>2. I \in SUBSET (1..Len(line))
  OBVIOUS
<1>3. ASSUME I # {} PROVE Min(I) \in I /\ \A n \in I : Min(I) <= n
  <2>1. I \in SUBSET Nat
    BY <1>2
  <2> HIDE DEF I
  <2>2. \E n \in I : \A m \in I : n <= m
    BY <1>3, <2>1, LeastOf
  <2> QED BY <2>2, Zenon DEF Min
<1>4. ProgramEnd(line) \in 0..Len(line)
  <2>1. CASE I # {}
    <3>1. Min(I) \in 1..Len(line)
      <4> HIDE DEF I
      <4> QED BY <1>2, <1>3, <2>1, Zenon
    <3> QED BY <1>1, <2>1, <3>1
  <2>2. CASE I = {}
    BY <1>1, <2>2
  <2> QED BY <2>1, <2>2
<1>5. ASSUME NEW n \in 1..Len(line), line[1] # Quote, line[n] = Space,
             \A m \in 1..(n - 1) : line[m] \notin {Space, Tab}
      PROVE  ProgramEnd(line) = n
  <2>1. n \in I
    BY <1>5
  <2>2. \A m \in I : n <= m
    BY <1>5
  <2> HIDE DEF I
  <2> DEFINE min == Min(I)
  <2>3. min \in I /\ min <= n /\ min \in 1..Len(line) /\ ProgramEnd(line) = min
    BY <1>1, <1>2, <1>3, <2>1, Zenon
  <2>4. n <= min
    BY <2>2, <2>3
  <2> HIDE DEF min
  <2> QED BY <2>3, <2>4
<1> QED
  BY <1>4, <1>5

LEMMA ScanExists ==
  ASSUME NEW line, NEW L \in Nat, L = Len(line)
  PROVE  \E f : Scanning(f, line)
<1> DEFINE e == ProgramEnd(line)
           Walked(m) == \E f : f = [n \in e..m |-> ScanTo(f, line, n)]
           T == {m \in e..L : ~Walked(m)}
<1>0. e \in 0..L
  BY ProgramEndIs
<1>e. \A f : ScanTo(f, line, e) = Fresh(<<>>)
  BY DEF ScanTo
<1>s. \A f, n : ScanTo(f, line, n) = IF n = e THEN Fresh(<<>>) ELSE Scan(f[n - 1], line[n])
  BY DEF ScanTo
<1> HIDE DEF e
<1>1. ASSUME T # {} PROVE FALSE
  <2>1. T \in SUBSET Nat
    BY <1>0
  <2>2. PICK m \in T : \A y \in T : m <= y
    BY <1>1, <2>1, LeastOf
  <2>3. m \in e..L /\ ~Walked(m)
    BY <2>2
  <2>4. Walked(e)
    <3> DEFINE f == [n \in e..e |-> Fresh(<<>>)]
    <3>1. \A n \in e..e : ScanTo(f, line, n) = Fresh(<<>>)
      BY <1>0, <1>e
    <3>2. f = [n \in e..e |-> ScanTo(f, line, n)]
      BY <3>1
    <3> HIDE DEF f
    <3> QED BY <3>2
  <2>5. m # e
    BY <2>3, <2>4
  <2>6. m - 1 \in e..L /\ ~(m <= m - 1)
    BY <1>0, <2>3, <2>5
  <2>7. Walked(m - 1)
    <3> HIDE DEF Walked
    <3>1. m - 1 \notin T
      <4> HIDE DEF T
      <4> QED BY <2>2, <2>6
    <3> QED BY <2>6, <3>1
  <2>8. PICK f : f = [n \in e..(m - 1) |-> ScanTo(f, line, n)]
    BY <2>7
  <2> DEFINE g == [n \in e..m |-> IF n = m THEN ScanTo(f, line, m) ELSE f[n]]
  <2>9. \A n \in e..m : ScanTo(g, line, n) = g[n]
    <3> TAKE n \in e..m
    <3>0. m \in Nat /\ n \in Nat /\ e <= n /\ n <= m /\ e \in Nat
      BY <1>0, <2>3
    <3>1. n # e => n - 1 \in e..m /\ n - 1 # m /\ g[n - 1] = f[n - 1]
      BY <3>0
    <3>2. ScanTo(g, line, n) = ScanTo(f, line, n)
      <4> HIDE DEF g
      <4> QED BY <1>s, <3>1, Zenon
    <3>3. n # m => n \in e..(m - 1)
      BY <3>0
    <3>4. n # m => f[n] = ScanTo(f, line, n)
      BY <2>8, <3>3, Zenon
    <3>5. g[n] = IF n = m THEN ScanTo(f, line, m) ELSE f[n]
      BY Zenon
    <3> HIDE DEF g
    <3> QED BY <3>2, <3>4, <3>5, Zenon
  <2>10. g = [n \in e..m |-> ScanTo(g, line, n)]
    <3>1. g = [n \in e..m |-> g[n]]
      BY Zenon
    <3> HIDE DEF g
    <3> QED BY <2>9, <3>1, Zenon
  <2> HIDE DEF g
  <2> QED BY <2>3, <2>10
<1>2. Walked(L)
  <2> HIDE DEF Walked
  <2>1. L \in e..L
    BY <1>0
  <2> QED BY <1>1, <2>1
<1> QED
  BY <1>2 DEF Scanning, e

LEMMA ScanIs ==
  ASSUME NEW line, NEW L \in Nat, L = Len(line), NEW e, e = ProgramEnd(line),
         NEW f, f = Scanned(line)
  PROVE  /\ e \in 0..L
         /\ f[e] = Fresh(<<>>)
         /\ \A n \in (e + 1)..L : f[n] = Scan(f[n - 1], line[n])
         /\ ArgvOf(line) = IF f[L].open THEN Append(f[L].args, f[L].text) ELSE f[L].args
<1>0. e \in 0..L
  BY ProgramEndIs
<1>1. Scanning(f, line)
  BY ScanExists DEF Scanned
<1>2. \A n \in e..L : f[n] = ScanTo(f, line, n)
  <2>1. f = [n \in e..L |-> ScanTo(f, line, n)]
    BY <1>1, Zenon DEF Scanning
  <2> QED BY <2>1, Zenon
<1>3. e \in e..L /\ \A n \in (e + 1)..L : n \in e..L /\ n # e
  BY <1>0
<1>4. ArgvOf(line) = IF Scanned(line)[Len(line)].open
                     THEN Append(Scanned(line)[Len(line)].args, Scanned(line)[Len(line)].text)
                     ELSE Scanned(line)[Len(line)].args
  BY Zenon DEF ArgvOf, Scanned, Scanning, ScanTo, Fresh
<1> QED
  BY <1>0, <1>2, <1>3, <1>4, Zenon DEF ScanTo

\* The state of the scan
At6(args, text, open, quotes, slashes, after) ==
  [args |-> args, text |-> text, open |-> open, quotes |-> quotes, slashes |-> slashes,
   after |-> after]

LEMMA Characters ==
  /\ Space # Quote /\ Space # Backslash /\ Quote # Backslash
  /\ Tab # Quote /\ Tab # Backslash /\ Tab # Space
BY DEF Space, Quote, Backslash, Tab

\* A character takes the scan from one state to the next.
Goes(s, c, t) == Scan(s, c) = t

LEMMA GoesOnce ==
  ASSUME NEW s, NEW c, NEW t, NEW u, Goes(s, c, t), Goes(s, c, u)
  PROVE  t = u
BY DEF Goes

\* What one character does, in the situations that escaping makes.
LEMMA ScanOther ==
  ASSUME NEW args, NEW text, NEW open, NEW quotes, NEW slashes, NEW after \in BOOLEAN,
         NEW c, c \notin {Space, Tab, Quote, Backslash},
         NEW q, q = IF quotes = 2 /\ after THEN 0 ELSE quotes
  PROVE  Goes(At6(args, text, open, quotes, slashes, after), c,
              At6(args, Append(text, c), TRUE, q, 0, FALSE))
BY DEF Goes, Scan, At6

LEMMA ScanBackslash ==
  ASSUME NEW args, NEW text, NEW open, NEW quotes, NEW slashes, NEW after \in BOOLEAN,
         NEW q, q = IF quotes = 2 /\ after THEN 0 ELSE quotes, NEW m, m = slashes + 1
  PROVE  Goes(At6(args, text, open, quotes, slashes, after), Backslash,
              At6(args, Append(text, Backslash), TRUE, q, m, FALSE))
BY Characters DEF Goes, Scan, At6

LEMMA ScanSeparator ==
  ASSUME NEW args, NEW text, NEW open, NEW quotes, NEW slashes, NEW after \in BOOLEAN,
         quotes = 0 \/ (quotes = 2 /\ after), NEW u, u = IF open THEN Append(args, text) ELSE args
  PROVE  Goes(At6(args, text, open, quotes, slashes, after), Space, Fresh(u))
BY Characters DEF Goes, Scan, At6, Fresh

LEMMA ScanSpace ==
  ASSUME NEW args, NEW text, NEW open, NEW slashes, NEW after \in BOOLEAN,
         NEW one, one = 1, NEW zero, zero = 0
  PROVE  Goes(At6(args, text, open, one, slashes, after), Space,
              At6(args, Append(text, Space), TRUE, one, zero, FALSE))
<1>1. one # 2 /\ one # 0
  OBVIOUS
<1> QED
  BY <1>1, Characters DEF Goes, Scan, At6

LEMMA ScanQuote ==
  ASSUME NEW args, NEW S, NEW text \in Seq(S), NEW open, NEW quotes \in {0, 1},
         NEW after \in BOOLEAN, NEW zero, zero = 0, NEW more, more = quotes + 1
  PROVE  Goes(At6(args, text, open, quotes, zero, after), Quote,
              At6(args, text, TRUE, more, zero, TRUE))
<1>1. quotes # 2 /\ zero % 2 = 0 /\ zero \div 2 = 0
  OBVIOUS
<1>2. SubSeq(text, 1, Len(text) - (zero \div 2)) = text
  BY <1>1
<1>3. ASSUME NEW yes, yes = TRUE
      PROVE  Goes(At6(args, text, open, quotes, zero, yes), Quote,
                  At6(args, text, TRUE, more, zero, TRUE))
  BY <1>1, <1>3, Characters DEF Goes, Scan, At6
<1>4. ASSUME NEW no, no = FALSE
      PROVE  Goes(At6(args, text, open, quotes, zero, no), Quote,
                  At6(args, text, TRUE, more, zero, TRUE))
  BY <1>1, <1>2, <1>4, Characters DEF Goes, Scan, At6
<1> QED
  BY <1>3, <1>4

LEMMA ScanLiteral ==
  ASSUME NEW args, NEW S, NEW u \in Seq(S), NEW open, Backslash \in S,
         NEW text, text = Append(u, Backslash),
         NEW one, one = 1, NEW zero, zero = 0, NEW after, after = FALSE
  PROVE  Goes(At6(args, text, open, zero, one, after), Quote,
              At6(args, Append(u, Quote), TRUE, zero, zero, TRUE))
<1>1. one % 2 = 1 /\ one \div 2 = 0 /\ zero # 2 /\ one % 2 # 0
  OBVIOUS
<1>2. SubSeq(text, 1, Len(text) - (one \div 2 + 1)) = u
  BY <1>1
<1> QED
  BY <1>1, <1>2, Characters DEF Goes, Scan, At6

\* cmdline_append_escaped() of one character
Code(c) ==
  CASE c = Space -> <<Quote, Space, Quote>>
    [] c = Quote -> <<Backslash, Quote>>
    [] OTHER -> <<c>>

\* The scan goes on from position e to L.
Steps(f, line, e, L) ==
  e \in Nat /\ L \in Nat /\ \A n \in (e + 1)..L : Goes(f[n - 1], line[n], f[n])

\* A piece of the line
Piece(line, p, text) == \A j \in 1..Len(text) : line[p + j] = text[j]

\* The scan is behind the code of the first n characters of a text.
Reading(s, args, text, n) ==
  \E open, after \in BOOLEAN, quotes \in {0, 2}, slashes \in Nat :
    /\ s = At6(args, SubSeq(text, 1, n), open, quotes, slashes, after)
    /\ open <=> n > 0
    /\ quotes = 2 => after /\ n > 0 /\ text[n] = Space
    /\ slashes # 0 => n > 0 /\ text[n] = Backslash

\* What Carried() asks of a character of the text
CarriedAt(text, n) ==
  /\ text[n] # Tab
  /\ n > 1 /\ text[n - 1] = Backslash => text[n] \notin {Space, Quote}
  /\ n > 1 /\ text[n - 1] = Space => text[n] # Space

LEMMA ReadsChar ==
  ASSUME NEW f, NEW line, NEW e, NEW L, Steps(f, line, e, L), NEW args,
         NEW S, NEW text \in Seq(S), NEW n \in Nat, n + 1 \in 1..Len(text),
         CarriedAt(text, n + 1), {Space, Quote, Backslash} \subseteq S,
         NEW p \in Nat, e <= p, NEW code, code = Code(text[n + 1]),
         p + Len(code) <= L, Piece(line, p, code), Reading(f[p], args, text, n)
  PROVE  Reading(f[p + Len(code)], args, text, n + 1)
<1> DEFINE c == text[n + 1]
           u == SubSeq(text, 1, n)
           v == SubSeq(text, 1, n + 1)
<1>1. u \in Seq(S) /\ c \in S /\ v = Append(u, c) /\ Len(text) \in Nat
  OBVIOUS
<1>2. c # Tab /\ (n > 0 /\ text[n] = Backslash => c \notin {Space, Quote})
      /\ (n > 0 /\ text[n] = Space => c # Space)
  BY DEF CarriedAt
<1>3. PICK open \in BOOLEAN, after \in BOOLEAN, quotes \in {0, 2}, slashes \in Nat :
        /\ f[p] = At6(args, u, open, quotes, slashes, after)
        /\ open <=> n > 0
        /\ quotes = 2 => after /\ n > 0 /\ text[n] = Space
        /\ slashes # 0 => n > 0 /\ text[n] = Backslash
  BY Zenon DEF Reading
<1>4. /\ \A j \in 1..Len(code) : p + j \in (e + 1)..L
      /\ \A m \in (e + 1)..L : Goes(f[m - 1], line[m], f[m])
      /\ Len(code) \in 1..3
  BY DEF Steps, Code
<1>5. ASSUME NEW q \in {0, 2}, NEW m \in Nat, NEW a \in BOOLEAN, NEW r \in Nat,
             f[r] = At6(args, v, TRUE, q, m, a),
             q = 2 => a /\ c = Space, m # 0 => c = Backslash
      PROVE  Reading(f[r], args, text, n + 1)
  <2>1. n + 1 > 0
    OBVIOUS
  <2> HIDE DEF v
  <2>2. /\ f[r] = At6(args, v, TRUE, q, m, a)
        /\ TRUE <=> n + 1 > 0
        /\ q = 2 => a /\ n + 1 > 0 /\ text[n + 1] = Space
        /\ m # 0 => n + 1 > 0 /\ text[n + 1] = Backslash
    BY <1>5, <2>1
  <2> QED BY <2>2, Zenon DEF Reading, v
<1> HIDE DEF u, v, c
<1>z. PICK zero, one, two : zero = 0 /\ one = 1 /\ two = 2
  OBVIOUS
<1>q. /\ zero \in {0, 1} /\ one \in {0, 1} /\ one = zero + 1 /\ two = one + 1
      /\ zero \in {0, 2} /\ two \in {0, 2} /\ zero \in Nat /\ one \in Nat
      /\ two = 2 /\ zero # 2 /\ TRUE \in BOOLEAN /\ FALSE \in BOOLEAN
  BY <1>z
<1>6. CASE c = Space
  <2>1. code = <<Quote, Space, Quote>> /\ Len(code) = 3
    BY <1>6, Characters DEF Code, c
  <2>2. line[p + 1] = Quote /\ line[p + 2] = Space /\ line[p + 3] = Quote
    BY <2>1 DEF Piece
  <2>3. quotes = zero /\ slashes = zero
    BY <1>2, <1>3, <1>6, <1>z
  <2>4. Goes(f[p], Quote, f[p + 1])
    BY <1>4, <2>1, <2>2
  <2>5. Goes(f[p + 1], Space, f[p + 2])
    BY <1>4, <2>1, <2>2
  <2>6. Goes(f[p + 2], Quote, f[p + 3])
    BY <1>4, <2>1, <2>2
  <2>7. f[p + 1] = At6(args, u, TRUE, one, zero, TRUE)
    <3>1. f[p] = At6(args, u, open, zero, zero, after)
      BY <1>3, <2>3
    <3>2. Goes(At6(args, u, open, zero, zero, after), Quote, At6(args, u, TRUE, one, zero, TRUE))
      BY <1>3, <1>1, <1>q, <1>z, ScanQuote
    <3> QED BY <2>4, <3>1, <3>2, GoesOnce, Zenon
  <2>8. f[p + 2] = At6(args, v, TRUE, one, zero, FALSE)
    <3>1. Goes(At6(args, u, TRUE, one, zero, TRUE), Space, At6(args, Append(u, Space), TRUE, one, zero, FALSE))
      BY <1>3, <1>z, <1>q, ScanSpace
    <3> QED BY <1>1, <1>6, <2>5, <2>7, <3>1, GoesOnce, Zenon
  <2>10. f[p + 3] = At6(args, v, TRUE, two, zero, TRUE)
    <3>1. v \in Seq(S)
      BY <1>1
    <3>2. Goes(At6(args, v, TRUE, one, zero, FALSE), Quote, At6(args, v, TRUE, two, zero, TRUE))
      BY <1>3, <1>q, <1>z, <3>1, ScanQuote
    <3> QED BY <2>6, <2>8, <3>2, GoesOnce, Zenon
  <2> DEFINE r == p + 3
  <2>11. r \in Nat /\ r = p + Len(code) /\ f[r] = At6(args, v, TRUE, two, zero, TRUE)
    BY <2>1, <2>10
  <2> HIDE DEF r
  <2>12. Reading(f[r], args, text, n + 1)
    BY <1>5, <1>6, <1>q, <1>z, <2>11
  <2> QED BY <2>11, <2>12
<1>7. CASE c = Quote
  <2>1. code = <<Backslash, Quote>> /\ Len(code) = 2
    BY <1>7, Characters DEF Code, c
  <2>2. line[p + 1] = Backslash /\ line[p + 2] = Quote
    BY <2>1 DEF Piece
  <2>3. slashes = zero /\ zero = IF quotes = 2 /\ after THEN 0 ELSE quotes
    BY <1>2, <1>3, <1>7, <1>z
  <2>4. Goes(f[p], Backslash, f[p + 1])
    BY <1>4, <2>1, <2>2
  <2>5. Goes(f[p + 1], Quote, f[p + 2])
    BY <1>4, <2>1, <2>2
  <2>6. f[p + 1] = At6(args, Append(u, Backslash), TRUE, zero, one, FALSE)
    <3>1. Goes(At6(args, u, open, quotes, slashes, after), Backslash, At6(args, Append(u, Backslash), TRUE, zero, slashes + 1, FALSE))
      BY <1>3, <2>3, <1>q, ScanBackslash
    <3>2. slashes + 1 = one
      BY <1>q, <2>3
    <3> QED BY <1>3, <2>4, <3>1, <3>2, GoesOnce, Zenon
  <2>7. f[p + 2] = At6(args, v, TRUE, zero, zero, TRUE)
    <3>1. Goes(At6(args, Append(u, Backslash), TRUE, zero, one, FALSE), Quote, At6(args, Append(u, Quote), TRUE, zero, zero, TRUE))
      BY <1>3, <1>1, <1>z, <1>q, ScanLiteral
    <3> QED BY <1>1, <1>7, <2>5, <2>6, <3>1, GoesOnce, Zenon
  <2> DEFINE r == p + 2
  <2>11. r \in Nat /\ r = p + Len(code) /\ f[r] = At6(args, v, TRUE, zero, zero, TRUE)
    BY <2>1, <2>7
  <2> HIDE DEF r
  <2>12. Reading(f[r], args, text, n + 1)
    BY <1>5, <1>q, <1>z, <2>11
  <2> QED BY <2>11, <2>12
<1>8. CASE c \notin {Space, Quote}
  <2>1. code = <<c>> /\ Len(code) = 1
    BY <1>8, Characters DEF Code, c
  <2>2. line[p + 1] = c
    BY <2>1 DEF Piece
  <2>3. zero = IF quotes = 2 /\ after THEN 0 ELSE quotes
    BY <1>3, <1>z
  <2>4. Goes(f[p], c, f[p + 1])
    BY <1>4, <2>1, <2>2
  <2>5. \E m \in Nat : /\ f[p + 1] = At6(args, v, TRUE, zero, m, FALSE)
                       /\ m # 0 => c = Backslash
    <3>1. CASE c = Backslash
      <4>1. Goes(At6(args, u, open, quotes, slashes, after), Backslash, At6(args, Append(u, Backslash), TRUE, zero, slashes + 1, FALSE))
        BY <1>3, <2>3, <1>q, ScanBackslash
      <4>2. slashes + 1 \in Nat
        BY <1>3
      <4> QED BY <1>1, <1>3, <2>4, <3>1, <4>1, <4>2, GoesOnce, Zenon
    <3>2. CASE c # Backslash
      <4>1. Goes(At6(args, u, open, quotes, slashes, after), c, At6(args, Append(u, c), TRUE, zero, 0, FALSE))
        BY <1>3, <1>2, <1>8, <2>3, <3>2, <1>q, ScanOther
      <4> QED BY <1>1, <1>3, <2>4, <4>1, GoesOnce, Zenon
    <3> QED BY <3>1, <3>2
  <2> DEFINE r == p + 1
  <2>6. PICK m \in Nat : f[r] = At6(args, v, TRUE, zero, m, FALSE) /\ (m # 0 => c = Backslash)
    BY <2>5, Zenon
  <2>7. r \in Nat /\ r = p + Len(code)
    BY <2>1
  <2> HIDE DEF r
  <2>8. Reading(f[r], args, text, n + 1)
    BY <1>5, <1>q, <1>z, <2>6, <2>7
  <2> QED BY <2>7, <2>8
<1> QED
  BY <1>6, <1>7, <1>8

\* The scan is behind an argument.
ReadOf(s, args, text) ==
  \E after \in BOOLEAN, quotes \in {0, 2}, slashes \in Nat :
    /\ s = At6(args, text, TRUE, quotes, slashes, after)
    /\ quotes = 2 => after

Codes(text) == [n \in DOMAIN text |-> Code(text[n])]

LEMMA EscapedIs ==
  ASSUME NEW S, {Space, Quote, Backslash} \subseteq S, NEW text \in Seq(S)
  PROVE  /\ text # <<>> => Escaped(text) = FlattenSeq(Codes(text))
         /\ text = <<>> => Escaped(text) = <<Quote, Quote>>
         /\ Escaped(text) \in Seq(S)
         /\ text # <<>> =>
              /\ Len(Escaped(text)) = Upto(Codes(text), Len(text))
              /\ Upto(Codes(text), 0) = 0
              /\ \A n \in 0..Len(text) : Upto(Codes(text), n) \in Nat
              /\ \A n \in 1..Len(text) :
                   Upto(Codes(text), n) = Upto(Codes(text), n - 1) + Len(Code(text[n]))
              /\ \A n \in 1..Len(text) : \A j \in 1..Len(Code(text[n])) :
                   Escaped(text)[Upto(Codes(text), n - 1) + j] = Code(text[n])[j]
<1>1. /\ text # <<>> => Escaped(text) = FlattenSeq(Codes(text))
      /\ text = <<>> => Escaped(text) = <<Quote, Quote>>
  BY Zenon DEF Escaped, Codes, Code
<1>2. Len(text) \in Nat /\ DOMAIN text = 1..Len(text) /\ \A n \in 1..Len(text) : text[n] \in S
  OBVIOUS
<1>3. \A c \in S : Code(c) \in Seq(S)
  BY DEF Code
<1> DEFINE s == Codes(text)
           N == Len(text)
<1>4. s = [n \in 1..N |-> s[n]] /\ \A n \in 1..N : s[n] = Code(text[n]) /\ s[n] \in Seq(S)
  BY <1>2, <1>3 DEF Codes
<1>5. N \in Nat
  BY <1>2
<1> HIDE DEF s
<1>6. Len(s) = N /\ (N = 0 => s = <<>>)
  <2> HIDE DEF N
  <2> QED BY <1>4, <1>5
<1>7. /\ FlattenSeq(s) \in Seq(S) /\ Len(FlattenSeq(s)) = Upto(s, N)
      /\ Upto(s, 0) = 0
      /\ \A n \in 0..N : Upto(s, n) \in Nat
      /\ \A n \in 1..N : Upto(s, n) = Upto(s, n - 1) + Len(s[n])
      /\ \A n \in 1..N : \A j \in 1..Len(s[n]) :
           FlattenSeq(s)[Upto(s, n - 1) + j] = s[n][j]
  <2> HIDE DEF N
  <2>0. N \in Nat /\ Len(s) = N /\ (N = 0 => s = <<>>) /\ \A n \in 1..N : s[n] \in Seq(S)
    BY <1>4, <1>5, <1>6
  <2>1. FlattenSeq(s) \in Seq(S) /\ Flattened(s, N)
    BY <2>0, FlattenIs
  <2> QED BY <2>1, Zenon DEF Flattened
<1>8. <<Quote, Quote>> \in Seq(S)
  OBVIOUS
<1>9. Escaped(text) \in Seq(S)
  BY <1>1, <1>7, <1>8 DEF s
<1>10. ASSUME text # <<>>
       PROVE  /\ Len(Escaped(text)) = Upto(s, N)
              /\ \A n \in 1..N : Upto(s, n) = Upto(s, n - 1) + Len(Code(text[n]))
              /\ \A n \in 1..N : \A j \in 1..Len(Code(text[n])) :
                   Escaped(text)[Upto(s, n - 1) + j] = Code(text[n])[j]
  <2>1. Escaped(text) = FlattenSeq(s)
    BY <1>1, <1>10 DEF s
  <2> HIDE DEF N
  <2> QED BY <1>4, <1>7, <2>1, Zenon
<1> QED
  BY <1>1, <1>7, <1>9, <1>10, Zenon DEF s

LEMMA FreshIs == ASSUME NEW args PROVE Fresh(args) = At6(args, <<>>, FALSE, 0, 0, FALSE)
BY DEF Fresh, At6

\* An argument is read as it was before it was escaped.
LEMMA ReadsText ==
  ASSUME NEW f, NEW line, NEW e, NEW L, Steps(f, line, e, L), NEW args,
         NEW S, NEW text \in Seq(S), {Space, Quote, Backslash} \subseteq S,
         \A n \in 1..Len(text) : CarriedAt(text, n),
         NEW p \in Nat, e <= p, NEW code, code = Escaped(text),
         p + Len(code) <= L, Piece(line, p, code), f[p] = Fresh(args)
  PROVE  ReadOf(f[p + Len(code)], args, text)
<1>0. f[p] = At6(args, <<>>, FALSE, 0, 0, FALSE)
  BY FreshIs
<1>a. /\ e \in Nat /\ L \in Nat /\ Len(text) \in Nat
      /\ \A m \in (e + 1)..L : Goes(f[m - 1], line[m], f[m])
  BY DEF Steps
<1>1. CASE text = <<>>
  <2>1. code = <<Quote, Quote>> /\ Len(code) = 2
    <3>1. code = <<Quote, Quote>>
      BY <1>1, EscapedIs
    <3> QED BY <3>1
  <2>2. line[p + 1] = Quote /\ line[p + 2] = Quote /\ p + 1 \in (e + 1)..L /\ p + 2 \in (e + 1)..L
    BY <1>a, <2>1 DEF Piece
  <2>3. Goes(f[p], Quote, f[p + 1])
    BY <1>a, <2>2
  <2>4. Goes(f[p + 1], Quote, f[p + 2])
    BY <1>a, <2>2
  <2>5. PICK zero, one, two : zero = 0 /\ one = 1 /\ two = 2
    OBVIOUS
  <2>6. /\ zero \in {0, 1} /\ one \in {0, 1} /\ one = zero + 1 /\ two = one + 1
        /\ two \in {0, 2} /\ zero \in Nat /\ <<>> \in Seq(S) /\ TRUE \in BOOLEAN
        /\ FALSE \in BOOLEAN
    BY <2>5
  <2>7. Goes(At6(args, <<>>, FALSE, zero, zero, FALSE), Quote,
             At6(args, <<>>, TRUE, one, zero, TRUE))
    BY <2>5, <2>6, ScanQuote
  <2>8. Goes(At6(args, <<>>, TRUE, one, zero, TRUE), Quote,
             At6(args, <<>>, TRUE, two, zero, TRUE))
    BY <2>5, <2>6, ScanQuote
  <2>9. f[p + 1] = At6(args, <<>>, TRUE, one, zero, TRUE)
    BY <1>0, <2>3, <2>5, <2>7, GoesOnce, Zenon
  <2>10. f[p + 2] = At6(args, <<>>, TRUE, two, zero, TRUE)
    BY <2>4, <2>8, <2>9, GoesOnce, Zenon
  <2>11. ReadOf(f[p + 2], args, text)
    BY <1>1, <2>6, <2>10, Zenon DEF ReadOf
  <2> QED BY <2>1, <2>11
<1>2. CASE text # <<>>
  <2> DEFINE N == Len(text)
             w(n) == Upto(Codes(text), n)
             Right(n) == w(n) <= Len(code) /\ Reading(f[p + w(n)], args, text, n)
             T == {n \in 0..N : ~Right(n)}
  <2>1. /\ code \in Seq(S) /\ Len(code) = w(N) /\ w(0) = 0
        /\ \A n \in 0..N : w(n) \in Nat
        /\ \A n \in 1..N : w(n) = w(n - 1) + Len(Code(text[n]))
        /\ \A n \in 1..N : \A j \in 1..Len(Code(text[n])) :
             code[w(n - 1) + j] = Code(text[n])[j]
    BY <1>2, EscapedIs
  <2>a. N \in Nat /\ N # 0
    BY <1>2
  <2> HIDE DEF w, N
  <2>2. \A n \in 0..N : w(n) <= w(N)
    <3> DEFINE Below(d) == w(N - d) <= w(N)
               U == {d \in 0..N : ~Below(d)}
    <3>1. ASSUME U # {} PROVE FALSE
      <4>1. U \in SUBSET Nat
        BY <2>a
      <4>2. PICK d \in U : \A y \in U : d <= y
        BY <3>1, <4>1, LeastOf
      <4>3. d \in 0..N /\ ~Below(d) /\ d \in Nat
        BY <2>a, <4>2
      <4>4. d # 0
        BY <2>1, <2>a, <4>3
      <4>5. d - 1 \in 0..N /\ ~(d <= d - 1)
        BY <2>a, <4>3, <4>4
      <4>6. Below(d - 1)
        <5> HIDE DEF Below
        <5>1. d - 1 \notin U
          <6> HIDE DEF U
          <6> QED BY <4>2, <4>5
        <5> QED BY <4>5, <5>1
      <4> DEFINE n == N - (d - 1)
      <4>7. n \in 1..N /\ n - 1 = N - d /\ n - 1 \in 0..N /\ n \in 0..N
        BY <2>a, <4>3, <4>4
      <4> HIDE DEF n
      <4>8. w(n) = w(n - 1) + Len(Code(text[n])) /\ w(n) \in Nat /\ w(n - 1) \in Nat
        BY <2>1, <4>7
      <4>9. Len(Code(text[n])) \in Nat
        BY DEF Code
      <4>10. w(n) <= w(N) /\ w(N) \in Nat
        BY <2>1, <2>a, <4>6 DEF n
      <4>11. w(n - 1) <= w(N)
        BY <4>8, <4>9, <4>10
      <4> QED BY <4>3, <4>7, <4>11
    <3>2. \A d \in 0..N : Below(d)
      <4> HIDE DEF Below
      <4> QED BY <3>1
    <3> TAKE n \in 0..N
    <3>3. N - n \in 0..N /\ N - (N - n) = n
      BY <2>a
    <3>4. Below(N - n)
      <4> HIDE DEF Below
      <4> QED BY <3>2, <3>3
    <3> QED BY <3>3, <3>4
  <2>3. Right(0)
    <3>1. SubSeq(text, 1, 0) = <<>> /\ p + w(0) = p /\ w(0) <= Len(code)
      BY <2>1, <2>2, <2>a
    <3>2. Reading(f[p], args, text, 0)
      <4>1. 0 \in {0, 2} /\ 0 \in Nat /\ ~(0 > 0) /\ FALSE \in BOOLEAN /\ 0 # 2
        OBVIOUS
      <4> QED BY <1>0, <3>1, <4>1, Zenon DEF Reading
    <3> QED BY <3>1, <3>2
  <2>4. ASSUME T # {} PROVE FALSE
    <3>1. T \in SUBSET Nat
      BY <2>a
    <3>2. PICK n \in T : \A y \in T : n <= y
      BY <2>4, <3>1, LeastOf
    <3>3. n \in 0..N /\ ~Right(n) /\ n \in Nat
      BY <2>a, <3>2
    <3>4. n # 0
      BY <2>3, <3>3
    <3>5. n - 1 \in 0..N /\ ~(n <= n - 1) /\ n \in 1..N /\ n - 1 \in Nat
      BY <2>a, <3>3, <3>4
    <3>6. Right(n - 1)
      <4> HIDE DEF Right
      <4>1. n - 1 \notin T
        <5> HIDE DEF T
        <5> QED BY <3>2, <3>5
      <4> QED BY <3>5, <4>1
    <3> DEFINE m == n - 1
               q == p + w(m)
               piece == Code(text[m + 1])
    <3>7. /\ m \in Nat /\ m + 1 = n /\ w(m) \in Nat /\ w(n) \in Nat /\ w(n) = w(m) + Len(piece)
          /\ w(n) <= Len(code) /\ Len(code) \in Nat
      <4>1. m \in Nat /\ m + 1 = n /\ n - 1 = m
        BY <3>5
      <4> QED BY <2>1, <2>2, <2>a, <3>5, <4>1
    <3>8. \A j \in 1..Len(piece) : code[w(m) + j] = piece[j] /\ w(m) + j \in 1..Len(code)
      <4>1. Len(piece) \in Nat
        BY DEF Code
      <4> HIDE DEF piece
      <4>2. \A j \in 1..Len(piece) : code[w(m) + j] = piece[j]
        BY <2>1, <3>5, <3>7 DEF piece
      <4> QED BY <3>7, <4>1, <4>2
    <3>9. Len(piece) \in Nat
      BY DEF Code
    <3>b. Reading(f[q], args, text, m)
      BY <3>6
    <3> HIDE DEF m, piece
    <3>10. Piece(line, q, piece)
      <4>1. ASSUME NEW j \in 1..Len(piece) PROVE line[q + j] = piece[j]
        <5>1. line[p + (w(m) + j)] = code[w(m) + j]
          BY <3>8 DEF Piece
        <5>2. p + (w(m) + j) = q + j
          BY <3>7, <3>9
        <5> QED BY <3>8, <5>1, <5>2
      <4> QED BY <4>1 DEF Piece
    <3>11. q \in Nat /\ e <= q /\ q + Len(piece) <= L /\ q + Len(piece) = p + w(n)
      <4>1. q \in Nat /\ e <= q /\ q + Len(piece) = p + w(n)
        BY <1>a, <3>7, <3>9
      <4>2. p + w(n) <= p + Len(code)
        BY <3>7
      <4>3. p + Len(code) <= L /\ p + Len(code) \in Nat /\ p + w(n) \in Nat
        BY <3>7
      <4> QED BY <1>a, <4>1, <4>2, <4>3
    <3> HIDE DEF q
    <3>12. Reading(f[q + Len(piece)], args, text, m + 1)
      <4>1. m + 1 \in 1..Len(text) /\ CarriedAt(text, m + 1)
        BY <3>5, <3>7 DEF N
      <4>2. piece = Code(text[m + 1])
        BY DEF piece
      <4> QED BY <3>7, <3>10, <3>11, <3>b, <4>1, <4>2, ReadsChar
    <3>13. Right(n)
      BY <3>7, <3>11, <3>12
    <3> QED BY <3>3, <3>13
  <2>5. Reading(f[p + Len(code)], args, text, N)
    <3>1. N \in 0..N
      BY <2>a
    <3>2. Right(N)
      <4> HIDE DEF Right
      <4> QED BY <2>4, <3>1
    <3> QED BY <2>1, <3>2
  <2>6. SubSeq(text, 1, N) = text /\ N > 0
    BY <2>a DEF N
  <2> QED BY <2>5, <2>6, Zenon DEF Reading, ReadOf
<1> QED
  BY <1>1, <1>2

\* A text put together of two
Joined(S, z, x, y, a, b) ==
  /\ z \in Seq(S) /\ a \in Nat /\ b \in Nat /\ Len(z) = a + b
  /\ \A n \in 1..a : z[n] = x[n]
  /\ \A n \in 1..b : z[a + n] = y[n]

LEMMA JoinedIs ==
  ASSUME NEW S, NEW x \in Seq(S), NEW y \in Seq(S), NEW z, z = x \o y,
         NEW a, a = Len(x), NEW b, b = Len(y)
  PROVE  Joined(S, z, x, y, a, b)
<1>1. a \in Nat /\ b \in Nat
  OBVIOUS
<1>2. /\ z \in Seq(S) /\ Len(z) = a + b
      /\ \A n \in 1..(a + b) : z[n] = IF n <= a THEN x[n] ELSE y[n - a]
  BY ConcatProperties
<1>3. \A n \in 1..a : z[n] = x[n]
  BY <1>1, <1>2
<1>4. \A n \in 1..b : z[a + n] = y[n]
  <2> TAKE n \in 1..b
  <2>1. a + n \in 1..(a + b) /\ ~(a + n <= a) /\ a + n - a = n
    BY <1>1
  <2> QED BY <1>2, <2>1
<1> QED
  BY <1>1, <1>2, <1>3, <1>4, Zenon DEF Joined

\* What cmdline_append_escaped() appends for one argument
Part(text) == <<Space>> \o Escaped(text)
Parts(A) == [n \in DOMAIN A |-> Part(A[n])]

LEMMA PartIs ==
  ASSUME NEW S, {Space, Quote, Backslash} \subseteq S, NEW text \in Seq(S),
         NEW part, part = Part(text), NEW code, code = Escaped(text)
  PROVE  /\ part \in Seq(S) /\ code \in Seq(S)
         /\ Len(code) \in Nat /\ Len(part) = Len(code) + 1 /\ part[1] = Space
         /\ \A j \in 1..Len(code) : part[j + 1] = code[j]
<1>1. code \in Seq(S) /\ Len(code) \in Nat
  BY EscapedIs, LenProperties
<1>2. PICK x : x = <<Space>>
  OBVIOUS
<1>3. x \in Seq(S) /\ Len(x) = 1 /\ x[1] = Space
  BY <1>2
<1>4. part = x \o code
  BY <1>2 DEF Part
<1>5. PICK one : one = Len(x)
  OBVIOUS
<1>6. PICK b : b = Len(code)
  OBVIOUS
<1>7. Joined(S, part, x, code, one, b)
  BY <1>1, <1>3, <1>4, <1>5, <1>6, JoinedIs
<1>8. /\ part \in Seq(S) /\ Len(part) = one + b /\ b \in Nat
      /\ \A n \in 1..one : part[n] = x[n]
      /\ \A n \in 1..b : part[one + n] = code[n]
  BY <1>7, Zenon DEF Joined
<1>9. one = 1
  BY <1>3, <1>5
<1>10. Len(part) = Len(code) + 1 /\ part[1] = Space
  BY <1>3, <1>6, <1>8, <1>9
<1>11. \A j \in 1..Len(code) : part[j + 1] = code[j]
  <2> TAKE j \in 1..Len(code)
  <2>1. part[one + j] = code[j]
    BY <1>6, <1>8, Zenon
  <2>2. one + j = j + 1
    BY <1>6, <1>8, <1>9
  <2> QED BY <2>1, <2>2
<1> QED
  BY <1>1, <1>8, <1>10, <1>11

\* The scan is behind the n-th argument.
ReadUpto(s, A, n) == ReadOf(s, SubSeq(A, 1, n - 1), A[n])

\* A separator starts the next argument.
LEMMA ReadsNext ==
  ASSUME NEW f, NEW line, NEW e, NEW L, Steps(f, line, e, L),
         NEW S, {Space, Quote, Backslash} \subseteq S, NEW A \in Seq(Seq(S)),
         NEW n \in Nat, n + 1 \in 1..Len(A), n # 0,
         \A j \in 1..Len(A[n + 1]) : CarriedAt(A[n + 1], j),
         NEW p \in Nat, e <= p, NEW part, part = Part(A[n + 1]),
         p + Len(part) <= L, Piece(line, p, part), ReadUpto(f[p], A, n)
  PROVE  ReadUpto(f[p + Len(part)], A, n + 1)
<1> DEFINE text == A[n + 1]
           code == Escaped(text)
           args == SubSeq(A, 1, n)
           q == p + 1
<1>1. text \in Seq(S) /\ A[n] \in Seq(S) /\ n \in 1..Len(A) /\ Len(A) \in Nat
  OBVIOUS
<1>2. args = Append(SubSeq(A, 1, n - 1), A[n])
  BY <1>1
<1>3. /\ part \in Seq(S) /\ code \in Seq(S)
      /\ Len(code) \in Nat /\ Len(part) = Len(code) + 1 /\ part[1] = Space
      /\ \A j \in 1..Len(code) : part[j + 1] = code[j]
  <2> HIDE DEF text
  <2>1. part = Part(text)
    BY DEF text
  <2> QED BY <1>1, <2>1, PartIs
<1>4. e \in Nat /\ L \in Nat /\ \A m \in (e + 1)..L : Goes(f[m - 1], line[m], f[m])
  BY DEF Steps
<1> HIDE DEF code, args
<1>5. q \in Nat /\ e <= q /\ q + Len(code) = p + Len(part) /\ q \in (e + 1)..L /\ q - 1 = p
  BY <1>3, <1>4
<1>6. Goes(f[p], Space, f[q])
  <2>1. line[p + 1] = part[1]
    BY <1>3 DEF Piece
  <2>2. Goes(f[q - 1], line[q], f[q])
    BY <1>4, <1>5
  <2> QED BY <1>3, <1>5, <2>1, <2>2
<1>7. PICK after \in BOOLEAN, quotes \in {0, 2}, slashes \in Nat :
        /\ f[p] = At6(SubSeq(A, 1, n - 1), A[n], TRUE, quotes, slashes, after)
        /\ quotes = 2 => after
  BY Zenon DEF ReadUpto, ReadOf
<1>8. quotes = 0 \/ (quotes = 2 /\ after)
  BY <1>7
<1>9. f[q] = Fresh(args)
  <2>1. args = IF TRUE THEN Append(SubSeq(A, 1, n - 1), A[n]) ELSE SubSeq(A, 1, n - 1)
    BY <1>2
  <2>2. Goes(At6(SubSeq(A, 1, n - 1), A[n], TRUE, quotes, slashes, after), Space, Fresh(args))
    BY <1>8, <2>1, ScanSeparator
  <2> QED BY <1>6, <1>7, <2>2, GoesOnce, Zenon
<1>10. Piece(line, q, code)
  <2>1. ASSUME NEW j \in 1..Len(code) PROVE line[q + j] = code[j]
    <3>1. line[p + (j + 1)] = part[j + 1]
      BY <1>3 DEF Piece
    <3>2. p + (j + 1) = q + j
      BY <1>3
    <3> QED BY <1>3, <3>1, <3>2
  <2> QED BY <2>1 DEF Piece
<1>11. ReadOf(f[q + Len(code)], args, text)
  <2>1. code = Escaped(text)
    BY DEF code
  <2>2. \A j \in 1..Len(text) : CarriedAt(text, j)
    OBVIOUS
  <2>3. q + Len(code) <= L
    BY <1>5
  <2> HIDE DEF text, q
  <2> QED BY <1>1, <1>5, <1>9, <1>10, <2>1, <2>2, <2>3, ReadsText
<1>12. args = SubSeq(A, 1, (n + 1) - 1)
  BY DEF args
<1> HIDE DEF text, q
<1> QED
  BY <1>5, <1>11, <1>12, Zenon DEF ReadUpto, text

LEMMA UptoGrows ==
  ASSUME NEW s, NEW N \in Nat, Flattened(s, N), \A n \in 1..N : Len(s[n]) \in Nat
  PROVE  \A n \in 0..N : Upto(s, n) <= Upto(s, N)
<1> DEFINE w(n) == Upto(s, n)
           Below(d) == w(N - d) <= w(N)
           U == {d \in 0..N : ~Below(d)}
<1>0. /\ \A n \in 0..N : w(n) \in Nat
      /\ \A n \in 1..N : w(n) = w(n - 1) + Len(s[n])
  BY DEF Flattened
<1> HIDE DEF w
<1>1. ASSUME U # {} PROVE FALSE
  <2>1. U \in SUBSET Nat
    OBVIOUS
  <2>2. PICK d \in U : \A y \in U : d <= y
    BY <1>1, <2>1, LeastOf
  <2>3. d \in 0..N /\ ~Below(d) /\ d \in Nat
    BY <2>2
  <2>4. d # 0
    BY <1>0, <2>3
  <2>5. d - 1 \in 0..N /\ ~(d <= d - 1)
    BY <2>3, <2>4
  <2>6. Below(d - 1)
    <3> HIDE DEF Below
    <3>1. d - 1 \notin U
      <4> HIDE DEF U
      <4> QED BY <2>2, <2>5
    <3> QED BY <2>5, <3>1
  <2> DEFINE n == N - (d - 1)
  <2>7. n \in 1..N /\ n - 1 = N - d /\ n - 1 \in 0..N /\ n \in 0..N
    BY <2>3, <2>4
  <2> HIDE DEF n
  <2>8. w(n) = w(n - 1) + Len(s[n]) /\ w(n) \in Nat /\ w(n - 1) \in Nat
    BY <1>0, <2>7
  <2>9. Len(s[n]) \in Nat
    BY <2>7
  <2>10. w(n) <= w(N) /\ w(N) \in Nat
    BY <1>0, <2>6 DEF n
  <2>11. w(n - 1) <= w(N)
    BY <2>8, <2>9, <2>10
  <2> QED BY <2>3, <2>7, <2>11
<1>2. \A d \in 0..N : Below(d)
  <2> HIDE DEF Below
  <2> QED BY <1>1
<1> SUFFICES ASSUME NEW n \in 0..N PROVE Upto(s, n) <= Upto(s, N)
  OBVIOUS
<1>3. N - n \in 0..N /\ N - (N - n) = n
  OBVIOUS
<1>4. Below(N - n)
  <2> HIDE DEF Below
  <2> QED BY <1>2, <1>3
<1> QED
  BY <1>3, <1>4 DEF w

\* The arguments escaped one after the other
Escapes(A, rest) ==
  LET N == Len(A) IN
  /\ Len(rest) = Upto(Parts(A), N) /\ Upto(Parts(A), 0) = 0
  /\ \A n \in 0..N : Upto(Parts(A), n) \in Nat /\ Upto(Parts(A), n) <= Len(rest)
  /\ \A n \in 1..N : Upto(Parts(A), n) = Upto(Parts(A), n - 1) + Len(Part(A[n]))
  /\ \A n \in 1..N : \A j \in 1..Len(Part(A[n])) :
       rest[Upto(Parts(A), n - 1) + j] = Part(A[n])[j]

LEMMA EscapesIs ==
  ASSUME NEW S, {Space, Quote, Backslash} \subseteq S, NEW A \in Seq(Seq(S)),
         NEW rest, rest = FlattenSeq(Parts(A))
  PROVE  Escapes(A, rest) /\ rest \in Seq(S)
<1> DEFINE N == Len(A)
           s == Parts(A)
<1>1. N \in Nat /\ DOMAIN A = 1..N /\ \A n \in 1..N : A[n] \in Seq(S)
  OBVIOUS
<1>2. s = [n \in 1..N |-> s[n]] /\ \A n \in 1..N : s[n] = Part(A[n])
  BY <1>1 DEF Parts
<1>3. \A n \in 1..N : s[n] \in Seq(S) /\ Len(s[n]) \in Nat
  <2> SUFFICES ASSUME NEW n \in 1..N PROVE s[n] \in Seq(S) /\ Len(s[n]) \in Nat
    OBVIOUS
  <2>1. A[n] \in Seq(S) /\ s[n] = Part(A[n])
    BY <1>1, <1>2
  <2>2. s[n] \in Seq(S)
    <3> HIDE DEF s
    <3> QED BY <2>1, PartIs
  <2> QED BY <2>2, LenProperties
<1> HIDE DEF s
<1>4. Len(s) = N /\ (N = 0 => s = <<>>)
  <2> HIDE DEF N
  <2> QED BY <1>1, <1>2
<1> HIDE DEF N
<1>5. rest \in Seq(S) /\ Flattened(s, N)
  <2>1. FlattenSeq(s) \in Seq(S) /\ Flattened(s, N)
    BY <1>1, <1>3, <1>4, FlattenIs
  <2> QED BY <2>1 DEF s
<1>6. \A n \in 0..N : Upto(s, n) <= Upto(s, N)
  BY <1>1, <1>3, <1>5, UptoGrows
<1>7. /\ Len(rest) = Upto(s, N) /\ Upto(s, 0) = 0
      /\ \A n \in 0..N : Upto(s, n) \in Nat
      /\ \A n \in 1..N : Upto(s, n) = Upto(s, n - 1) + Len(s[n])
      /\ \A n \in 1..N : \A j \in 1..Len(s[n]) : rest[Upto(s, n - 1) + j] = s[n][j]
  <2>1. rest = FlattenSeq(s)
    BY DEF s
  <2> QED BY <1>5, <2>1, Zenon DEF Flattened
<1>8. /\ Len(rest) = Upto(s, N) /\ Upto(s, 0) = 0
      /\ \A n \in 0..N : Upto(s, n) \in Nat /\ Upto(s, n) <= Len(rest)
      /\ \A n \in 1..N : Upto(s, n) = Upto(s, n - 1) + Len(Part(A[n]))
      /\ \A n \in 1..N : \A j \in 1..Len(Part(A[n])) :
           rest[Upto(s, n - 1) + j] = Part(A[n])[j]
  <2>1. \A n \in 0..N : Upto(s, n) \in Nat /\ Upto(s, n) <= Len(rest)
    BY <1>6, <1>7
  <2>2. \A n \in 1..N : Upto(s, n) = Upto(s, n - 1) + Len(Part(A[n]))
    BY <1>2, <1>7, Zenon
  <2>3. \A n \in 1..N : \A j \in 1..Len(Part(A[n])) :
          rest[Upto(s, n - 1) + j] = Part(A[n])[j]
    BY <1>2, <1>7, Zenon
  <2> QED BY <1>7, <2>1, <2>2, <2>3, Zenon
<1> QED
  BY <1>5, <1>8, Zenon DEF Escapes, s, N

Scans(f, line, e, L) ==
  /\ f[e] = Fresh(<<>>) /\ Steps(f, line, e, L)
  /\ ArgvOf(line) = IF f[L].open THEN Append(f[L].args, f[L].text) ELSE f[L].args

LEMMA ScansIs ==
  ASSUME NEW line, NEW L \in Nat, L = Len(line), NEW e, e = ProgramEnd(line),
         NEW f, f = Scanned(line)
  PROVE  Scans(f, line, e, L)
<1>1. e \in 0..L
  BY ScanIs
<1>2. f[e] = Fresh(<<>>)
  BY ScanIs
<1>3. \A n \in (e + 1)..L : f[n] = Scan(f[n - 1], line[n])
  BY ScanIs
<1>4. ArgvOf(line) = IF f[L].open THEN Append(f[L].args, f[L].text) ELSE f[L].args
  BY ScanIs
<1> QED
  BY <1>1, <1>2, <1>3, <1>4 DEF Scans, Steps, Goes

LEMMA ReadEnds ==
  ASSUME NEW s, NEW args, NEW text, ReadOf(s, args, text)
  PROVE  s.open = TRUE /\ s.args = args /\ s.text = text
BY DEF ReadOf, At6

\* CommandLineToArgvW() takes the arguments apart that submit_task() has put
\* together.
LEMMA RoundTrip ==
  ASSUME NEW S, {Space, Quote, Backslash} \subseteq S, NEW A \in Seq(Seq(S)), A # <<>>,
         \A n \in 1..Len(A) : \A j \in 1..Len(A[n]) : CarriedAt(A[n], j),
         NEW line, NEW L \in Nat, L = Len(line), NEW e \in Nat \ {0}, e = ProgramEnd(line),
         NEW rest, rest = FlattenSeq(Parts(A)), Piece(line, e - 1, rest),
         L = e - 1 + Len(rest)
  PROVE  ArgvOf(line) = A
<1>f. PICK f : f = Scanned(line)
  OBVIOUS
<1>s. Scans(f, line, e, L)
  BY <1>f, ScansIs, Zenon
<1> DEFINE N == Len(A)
           w(n) == Upto(Parts(A), n)
           Right(n) == n # 0 => ReadUpto(f[e - 1 + w(n)], A, n)
           T == {n \in 0..N : ~Right(n)}
<1>1. /\ f[e] = Fresh(<<>>)
      /\ ArgvOf(line) = IF f[L].open THEN Append(f[L].args, f[L].text) ELSE f[L].args
  BY <1>s, Zenon DEF Scans
<1>2. Steps(f, line, e, L)
  BY <1>s, Zenon DEF Scans
<1>e. /\ e \in Nat /\ e >= 1
  OBVIOUS
<1>3. Escapes(A, rest)
  BY EscapesIs
<1>4. /\ Len(rest) = w(N) /\ w(0) = 0
      /\ \A n \in 0..N : w(n) \in Nat /\ w(n) <= Len(rest)
      /\ \A n \in 1..N : w(n) = w(n - 1) + Len(Part(A[n]))
      /\ \A n \in 1..N : \A j \in 1..Len(Part(A[n])) : rest[w(n - 1) + j] = Part(A[n])[j]
  BY <1>3, Zenon DEF Escapes
<1>5. N \in Nat /\ N # 0 /\ \A n \in 1..N : A[n] \in Seq(S)
  BY EmptySeq
<1> HIDE DEF N, w
<1>6. Len(rest) \in Nat
  BY <1>4, <1>5
<1>7. ASSUME NEW n \in 1..N
      PROVE  /\ w(n - 1) \in Nat /\ w(n) \in Nat /\ w(n) = w(n - 1) + Len(Part(A[n]))
             /\ Len(Part(A[n])) \in Nat /\ w(n) <= Len(rest)
             /\ Piece(line, e - 1 + w(n - 1), Part(A[n]))
  <2>1. n - 1 \in 0..N /\ n \in 0..N /\ A[n] \in Seq(S)
    BY <1>5
  <2> DEFINE part == Part(A[n])
             v == w(n - 1)
  <2>2. part \in Seq(S)
    BY <2>1, PartIs
  <2> HIDE DEF part
  <2>3. Len(part) \in Nat
    BY <2>2, LenProperties
  <2>4. /\ v \in Nat /\ w(n) \in Nat /\ w(n) = v + Len(part) /\ w(n) <= Len(rest)
        /\ \A j \in 1..Len(part) : rest[v + j] = part[j]
    BY <1>4, <2>1 DEF part
  <2> HIDE DEF v
  <2>5. ASSUME NEW j \in 1..Len(part) PROVE line[(e - 1 + v) + j] = part[j]
    <3>1. v + j \in 1..Len(rest) /\ (e - 1) + (v + j) = (e - 1 + v) + j
      BY <1>6, <1>e, <2>3, <2>4, SMTT(60)
    <3>2. line[(e - 1) + (v + j)] = rest[v + j]
      BY <3>1 DEF Piece
    <3> QED BY <2>4, <3>1, <3>2
  <2>6. Piece(line, e - 1 + v, part)
    BY <2>5 DEF Piece
  <2> QED BY <2>3, <2>4, <2>6 DEF part, v
<1>8. ReadUpto(f[e - 1 + w(1)], A, 1)
  <2> DEFINE text == A[1]
             code == Escaped(text)
             part == Part(text)
  <2>1. 1 \in 1..N /\ 1 - 1 = 0 /\ text \in Seq(S)
    BY <1>5
  <2>2. /\ part \in Seq(S) /\ code \in Seq(S)
        /\ Len(code) \in Nat /\ Len(part) = Len(code) + 1 /\ part[1] = Space
        /\ \A j \in 1..Len(code) : part[j + 1] = code[j]
    <3> HIDE DEF text
    <3> QED BY <2>1, PartIs
  <2>3. w(1) = Len(part) /\ w(1) <= Len(rest) /\ Piece(line, e - 1, part)
    <3>1. w(1 - 1) = 0 /\ Len(part) \in Nat
      BY <1>4, <2>1, <2>2
    <3>2. e - 1 + 0 = e - 1 /\ 0 + Len(part) = Len(part)
      BY <3>1
    <3>3. w(1) = w(1 - 1) + Len(part) /\ w(1) <= Len(rest) /\ Piece(line, e - 1 + w(1 - 1), part)
      BY <1>7, <2>1
    <3> HIDE DEF part
    <3> QED BY <3>1, <3>2, <3>3
  <2>4. \A j \in 1..Len(text) : CarriedAt(text, j)
    BY <2>1 DEF N
  <2> HIDE DEF text, part
  <2>d. code = Escaped(text)
    OBVIOUS
  <2> HIDE DEF code
  <2>5. Piece(line, e, code)
    <3>1. ASSUME NEW j \in 1..Len(code) PROVE line[e + j] = code[j]
      <4>1. j + 1 \in 1..Len(part) /\ (e - 1) + (j + 1) = e + j
        BY <2>2
      <4>2. line[(e - 1) + (j + 1)] = part[j + 1]
        BY <2>3, <4>1 DEF Piece
      <4> QED BY <2>2, <4>1, <4>2
    <3> QED BY <3>1 DEF Piece
  <2>6. e + Len(code) <= L /\ e + Len(code) = e - 1 + w(1) /\ e <= e
    <3>1. w(1) = Len(code) + 1 /\ w(1) <= Len(rest) /\ Len(code) \in Nat
      BY <2>2, <2>3
    <3>2. L = (e - 1) + Len(rest)
      OBVIOUS
    <3> DEFINE b == Len(code)
               r == Len(rest)
               x == w(1)
    <3>3. b \in Nat /\ r \in Nat /\ x = b + 1 /\ x <= r /\ L = (e - 1) + r
      BY <1>6, <3>1, <3>2
    <3> HIDE DEF b, r, x
    <3>4. e + b <= L /\ e + b = e - 1 + x /\ e <= e
      BY <1>e, <3>3
    <3> QED BY <3>4 DEF b, x
  <2>7. ReadOf(f[e + Len(code)], <<>>, text)
    BY <1>1, <1>2, <2>1, <2>4, <2>5, <2>6, <2>d, ReadsText
  <2>8. SubSeq(A, 1, 1 - 1) = <<>>
    BY <1>5
  <2> QED BY <2>6, <2>7, <2>8 DEF ReadUpto, text
<1>9. ASSUME NEW n \in Nat, n # 0, n + 1 \in 1..N, ReadUpto(f[e - 1 + w(n)], A, n)
      PROVE  ReadUpto(f[e - 1 + w(n + 1)], A, n + 1)
  <2> DEFINE p == e - 1 + w(n)
             part == Part(A[n + 1])
  <2>1. (n + 1) - 1 = n
    BY <1>9
  <2>2. /\ w(n) \in Nat /\ w(n + 1) \in Nat /\ w(n + 1) = w(n) + Len(part)
        /\ Len(part) \in Nat /\ w(n + 1) <= Len(rest)
        /\ Piece(line, p, part)
    BY <1>7, <1>9, <2>1
  <2>3. w(n) # 0
    <3>1. n \in 1..N /\ A[n] \in Seq(S)
      BY <1>5, <1>9
    <3>2. Len(Part(A[n])) # 0
      <4> DEFINE x == A[n]
      <4>1. x \in Seq(S)
        BY <3>1
      <4> HIDE DEF x
      <4>2. Len(Escaped(x)) \in Nat /\ Len(Part(x)) = Len(Escaped(x)) + 1
        BY <4>1, PartIs
      <4>3. Len(Part(x)) # 0
        BY <4>2
      <4> QED BY <4>3 DEF x
    <3> QED BY <1>7, <3>1, <3>2
  <2> HIDE DEF part
  <2>4. p \in Nat /\ e <= p /\ p + Len(part) = e - 1 + w(n + 1) /\ p + Len(part) <= L
    <3> DEFINE b == Len(part)
               r == Len(rest)
               x == w(n)
               y == w(n + 1)
    <3>2. L = (e - 1) + Len(rest)
      OBVIOUS
    <3>3. /\ b \in Nat /\ r \in Nat /\ x \in Nat /\ x # 0 /\ y = x + b /\ y <= r
          /\ L = (e - 1) + r /\ p = e - 1 + x
      BY <1>6, <2>2, <2>3, <3>2
    <3> HIDE DEF b, r, x, y, p
    <3>4. p \in Nat /\ e <= p /\ p + b = e - 1 + y /\ p + b <= L
      BY <1>e, <3>3, SMTT(60)
    <3> QED BY <3>4 DEF b, y
  <2>5. \A j \in 1..Len(A[n + 1]) : CarriedAt(A[n + 1], j)
    BY <1>9 DEF N
  <2> HIDE DEF p
  <2>6. ReadUpto(f[p], A, n) /\ part = Part(A[n + 1]) /\ n + 1 \in 1..Len(A)
    BY <1>9 DEF p, part, N
  <2>7. ReadUpto(f[p + Len(part)], A, n + 1)
    BY <1>2, <1>9, <2>2, <2>4, <2>5, <2>6, ReadsNext
  <2> QED BY <2>4, <2>7
<1>10. ASSUME T # {} PROVE FALSE
  <2>1. T \in SUBSET Nat
    BY <1>5
  <2>2. PICK n \in T : \A y \in T : n <= y
    BY <1>10, <2>1, LeastOf
  <2>3. n \in 0..N /\ ~Right(n) /\ n \in Nat /\ n # 0
    BY <1>5, <2>2
  <2>4. n # 1
    BY <1>8, <2>3
  <2> DEFINE m == n - 1
  <2>5. m \in 0..N /\ ~(n <= m) /\ m \in Nat /\ m # 0 /\ m + 1 = n /\ m + 1 \in 1..N
    BY <1>5, <2>3, <2>4
  <2> HIDE DEF m
  <2>6. Right(m)
    <3> HIDE DEF Right
    <3>1. m \notin T
      <4> HIDE DEF T
      <4> QED BY <2>2, <2>5
    <3> QED BY <2>5, <3>1
  <2>7. ReadUpto(f[e - 1 + w(m + 1)], A, m + 1)
    BY <1>9, <2>5, <2>6
  <2> QED BY <2>3, <2>5, <2>7
<1>11. ReadUpto(f[L], A, N)
  <2>1. N \in 0..N /\ L = e - 1 + w(N)
    BY <1>4, <1>5
  <2>2. Right(N)
    <3> HIDE DEF Right
    <3> QED BY <1>10, <2>1
  <2> QED BY <1>5, <2>1, <2>2
<1>12. ArgvOf(line) = Append(SubSeq(A, 1, N - 1), A[N])
  <2>1. f[L].open = TRUE /\ f[L].args = SubSeq(A, 1, N - 1) /\ f[L].text = A[N]
    BY <1>11, ReadEnds, Zenon DEF ReadUpto
  <2> QED BY <1>1, <2>1, Zenon
<1> QED
  BY <1>5, <1>12, SMTT(60) DEF N

-----------------------------------------------------------------------------
(* Characters beyond ASCII *)

\* The bytes that follow a first byte carry six bits each.
LEMMA SixBits ==
  ASSUME NEW x \in Nat
  PROVE  LET b == 128 + (x % 64) IN b \in Nat /\ b \div 64 = 2 /\ b % 64 = x % 64
OBVIOUS

\* The first byte of two.
LEMMA TwoBytes ==
  ASSUME NEW cp \in Nat, 128 <= cp, cp < 2048
  PROVE  LET a == cp \div 64
             b == 192 + a
         IN /\ a >= 2 /\ b \div 32 = 6 /\ b \div 16 # 14 /\ b \div 8 # 30
            /\ b % 32 = a /\ b >= 128 /\ a \in Nat
            /\ 64 * a + (cp % 64) = cp
OBVIOUS

\* The first byte of three, of a code point that is not refused.
LEMMA ThreeBytes ==
  ASSUME NEW cp \in Nat, 4096 <= cp, cp < 65536
  PROVE  LET a == cp \div 4096
             b == 224 + a
         IN /\ a > 0 /\ b \div 32 = 7 /\ b \div 16 = 14 /\ b \div 8 # 30
            /\ b % 16 = a /\ b >= 128
            /\ 64 * (64 * a + ((cp \div 64) % 64)) + (cp % 64) = cp
OBVIOUS

\* At a position there is a first byte that announces `more' bytes, and these
\* follow, with the bits x, y and z; together they are a valid code point.
Sequence(s, at, bits, more, x, y, z, cp) ==
  /\ at \in Nat /\ bits \in Nat /\ more \in {1, 2, 3}
  /\ Lead(s[at]) = [bits |-> bits, more |-> more]
  /\ s[at] >= 128 /\ ~(s[at] < 128)
  /\ \A n \in 1..more : s[at + n] \div 64 = 2
  /\ x \in Nat /\ y \in Nat /\ z \in Nat
  /\ s[at + 1] % 64 = x
  /\ more > 1 => s[at + 2] % 64 = y
  /\ more > 2 => s[at + 3] % 64 = z
  /\ more = 1 => cp = 64 * bits + x
  /\ more = 2 => cp = 64 * (64 * bits + x) + y
  /\ more = 3 => cp = 64 * (64 * (64 * bits + x) + y) + z
  /\ ~High(cp) /\ ~Low(cp)
  /\ more = 3 => ~(cp < Plane)

\* Such a sequence is read.
LEMMA ReadsSequence ==
  ASSUME NEW s, NEW at, NEW bits, NEW more, NEW x, NEW y, NEW z, NEW cp,
         Sequence(s, at, bits, more, x, y, z, cp)
  PROVE  ReadUtf8(s, at) = [cp |-> cp, next |-> at + more + 1]
<1> DEFINE lead == Lead(s[at])
           stops == {n \in 1..lead.more : at + n <= Len(s) /\ s[at + n] \div 64 # 2}
           stop == at + Min(stops)
           six(n) == s[at + n] % 64
           value == CASE lead.more = 1 -> 64 * lead.bits + six(1)
                      [] lead.more = 2 -> 64 * (64 * lead.bits + six(1)) + six(2)
                      [] lead.more = 3 ->
                           64 * (64 * (64 * lead.bits + six(1)) + six(2)) + six(3)
           full == [cp |-> IF (lead.more = 3 /\ value < Plane) \/ High(value) \/ Low(value)
                           THEN Replacement ELSE value,
                    next |-> at + lead.more + 1]
           read == ReadUtf8(s, at)
<1> HIDE DEF read, full, value, six, stop, stops, lead
<1>1. /\ at \in Nat /\ bits \in Nat /\ more \in {1, 2, 3}
      /\ Lead(s[at]) = [bits |-> bits, more |-> more]
      /\ s[at] >= 128 /\ ~(s[at] < 128)
      /\ \A n \in 1..more : s[at + n] \div 64 = 2
      /\ x \in Nat /\ y \in Nat /\ z \in Nat
      /\ s[at + 1] % 64 = x
      /\ more > 1 => s[at + 2] % 64 = y
      /\ more > 2 => s[at + 3] % 64 = z
      /\ more = 1 => cp = 64 * bits + x
      /\ more = 2 => cp = 64 * (64 * bits + x) + y
      /\ more = 3 => cp = 64 * (64 * (64 * bits + x) + y) + z
      /\ ~High(cp) /\ ~Low(cp)
      /\ more = 3 => ~(cp < Plane)
  BY Zenon DEF Sequence
<1>2. lead.more = more /\ lead.bits = bits /\ more # 0 /\ more > 0
  BY <1>1 DEF lead
<1>3. stops = {}
  BY <1>1, <1>2 DEF stops
<1>4. read = full
  BY <1>1, <1>2, <1>3 DEF ReadUtf8, read, lead, stops, full, value, six
<1>5. six(1) = x /\ (more > 1 => six(2) = y) /\ (more > 2 => six(3) = z)
  BY <1>1 DEF six
<1>6. value = cp
  <2>1. CASE more = 1
    <3>1. lead.more = 1 /\ lead.more # 2 /\ lead.more # 3
      BY <1>1, <1>2, <2>1
    <3>2. value = 64 * lead.bits + six(1)
      BY <3>1 DEF value
    <3> QED BY <1>1, <1>2, <1>5, <2>1, <3>2
  <2>2. CASE more = 2
    <3>1. lead.more = 2 /\ lead.more # 1 /\ lead.more # 3
      BY <1>1, <1>2, <2>2
    <3>2. value = 64 * (64 * lead.bits + six(1)) + six(2)
      BY <3>1 DEF value
    <3> QED BY <1>1, <1>2, <1>5, <2>2, <3>2
  <2>3. CASE more = 3
    <3>1. lead.more = 3 /\ lead.more # 1 /\ lead.more # 2
      BY <1>1, <1>2, <2>3
    <3>2. value = 64 * (64 * (64 * lead.bits + six(1)) + six(2)) + six(3)
      BY <3>1 DEF value
    <3> QED BY <1>1, <1>2, <1>5, <2>3, <3>2
  <2> QED BY <1>1, <2>1, <2>2, <2>3
<1>7. ~((lead.more = 3 /\ value < Plane) \/ High(value) \/ Low(value))
  BY <1>1, <1>2, <1>6
<1>8. full = [cp |-> cp, next |-> at + more + 1]
  BY <1>1, <1>2, <1>6, <1>7 DEF full
<1> QED BY <1>1, <1>4, <1>8 DEF read


\* The code points that come back
Returns(cp) == IsBeyondASCII(cp) /\ Kept(cp)

LEMMA ReturnsIs ==
  ASSUME NEW cp, Returns(cp)
  PROVE  /\ cp \in Nat /\ 128 <= cp /\ cp < Plane /\ (cp < 2048 \/ 4096 <= cp)
         /\ Plane \in Nat /\ 2048 < Plane /\ ~High(cp) /\ ~Low(cp)
BY SMT DEF Returns, IsBeyondASCII, Kept, Plane

\* Such a code point takes one unit in UTF-16.
LEMMA BytesAre ==
  ASSUME NEW cp, Returns(cp)
  PROVE  BytesOf(cp) = Utf8Of(cp)
<1>1. cp \in Nat /\ cp < Plane /\ ~High(cp) /\ ~Low(cp)
  BY ReturnsIs
<1>2. Utf16Of(cp) = <<cp>>
  BY <1>1 DEF Utf16Of
<1> DEFINE s == <<cp>> \o <<0>>
<1>4. s[1] = cp
  BY <1>1
<1> HIDE DEF s
<1>5. ReadUtf16(s, 1) = [cp |-> cp, next |-> 1 + 1]
  BY <1>1, <1>4 DEF ReadUtf16
<1>6. ReadUtf16(s, 1).cp = cp
  BY <1>5
<1>7. BytesOf(cp) = Utf8Of(ReadUtf16(s, 1).cp)
  BY <1>2, Zenon DEF BytesOf, s
<1> QED
  BY <1>6, <1>7, Zenon

\* What comes back of the code points that Carried() names
LEMMA ReadsBytes ==
  ASSUME NEW cp, Returns(cp), NEW bytes, bytes = Utf8Of(cp)
  PROVE  ReadUtf8(bytes \o <<0>>, 1) = [cp |-> cp, next |-> Len(bytes) + 1]
<1> DEFINE six(n) == 128 + ((cp \div n) % 64)
           s == bytes \o <<0>>
<1> HIDE DEF six
<1>1. /\ cp \in Nat /\ 128 <= cp /\ cp < Plane /\ (cp < 2048 \/ 4096 <= cp)
      /\ Plane \in Nat /\ 2048 < Plane /\ ~High(cp) /\ ~Low(cp)
  BY ReturnsIs
<1>2. /\ six(1) \div 64 = 2 /\ six(1) % 64 = cp % 64
      /\ six(64) \div 64 = 2 /\ six(64) % 64 = (cp \div 64) % 64
      /\ six(1) \in Nat /\ six(64) \in Nat
  <2>1. cp \div 1 = cp /\ cp \div 64 \in Nat
    BY <1>1
  <2> QED BY <1>1, <2>1, SixBits DEF six
<1>3. PICK one, two \in {1, 2, 3} : one = 1 /\ two = 2
  OBVIOUS
<1>x. (cp \div 64) % 64 \in Nat /\ cp % 64 \in Nat /\ 0 \in Nat
  BY <1>1
<1>4. PICK x \in Nat, y \in Nat, zero \in Nat : x = (cp \div 64) % 64 /\ y = cp % 64 /\ zero = 0
  BY <1>x, Zenon
<1>5. PICK at \in Nat : at = 1
  OBVIOUS
<1>6. CASE cp < 2048
  <2> DEFINE a == cp \div 64
             b == 192 + a
  <2> HIDE DEF a, b
  <2>1. bytes = <<b, six(1)>>
    <3>1. ~(cp < 128) /\ ~(2048 <= cp /\ cp < Plane) /\ ~(Plane <= cp)
      BY <1>1, <1>6
    <3> QED BY <1>1, <1>6, <3>1 DEF Utf8Of, a, b, six
  <2>2. s[1] = b /\ s[2] = six(1) /\ Len(bytes) = 2
    BY <2>1
  <2>3. /\ a \in Nat /\ a >= 2 /\ b \div 32 = 6 /\ b \div 16 # 14 /\ b \div 8 # 30
        /\ b \in Nat /\ b % 32 = a /\ b >= 128
        /\ 64 * a + (cp % 64) = cp
    <3>1. b \in Nat
      BY <1>1 DEF a, b
    <3> QED BY <1>1, <1>6, <3>1, TwoBytes DEF a, b
  <2>4. Lead(b) = [bits |-> a, more |-> 1]
    BY <2>3 DEF Lead
  <2>5. s[2] % 64 = cp % 64 /\ s[2] \div 64 = 2
    BY <1>2, <2>2
  <2> HIDE DEF s
  <2>6. Lead(s[at]) = [bits |-> a, more |-> one] /\ s[at] >= 128 /\ ~(s[at] < 128)
    BY <1>3, <1>5, <2>2, <2>3, <2>4
  <2>7. \A n \in 1..one : s[at + n] \div 64 = 2
    BY <1>3, <1>5, <2>5
  <2>8. /\ s[at + 1] % 64 = y
        /\ one > 1 => s[at + 2] % 64 = zero
        /\ one > 2 => s[at + 3] % 64 = zero
    BY <1>3, <1>4, <1>5, <2>5
  <2>9. /\ one = 1 => cp = 64 * a + y
        /\ one = 2 => cp = 64 * (64 * a + y) + zero
        /\ one = 3 => cp = 64 * (64 * (64 * a + y) + zero) + zero
    BY <1>3, <1>4, <2>3
  <2>10. one = 3 => ~(cp < Plane)
    BY <1>3
  <2>11. Sequence(s, at, a, one, y, zero, zero, cp)
    BY <1>1, <2>3, <2>6, <2>7, <2>8, <2>9, <2>10 DEF Sequence
  <2>12. ReadUtf8(s, at) = [cp |-> cp, next |-> at + one + 1]
    BY <2>11, ReadsSequence
  <2>13. at + one + 1 = Len(bytes) + 1
    BY <1>3, <1>5, <2>2
  <2> QED BY <1>5, <2>12, <2>13 DEF s
<1>7. CASE ~(cp < 2048)
  <2> DEFINE a == cp \div 4096
             b == 224 + a
  <2> HIDE DEF a, b
  <2>0. 4096 <= cp
    BY <1>1, <1>7
  <2>1. bytes = <<b, six(64), six(1)>>
    <3>1. ~(cp < 128) /\ ~(128 <= cp /\ cp < 2048) /\ 2048 <= cp /\ cp < Plane /\ ~(Plane <= cp)
      BY <1>1, <1>7
    <3> QED BY <3>1 DEF Utf8Of, a, b, six
  <2>2. s[1] = b /\ s[2] = six(64) /\ s[3] = six(1) /\ Len(bytes) = 3
    BY <2>1
  <2>3. /\ a > 0 /\ b \div 32 = 7 /\ b \div 16 = 14 /\ b \div 8 # 30
        /\ b % 16 = a /\ b >= 128
        /\ 64 * (64 * a + ((cp \div 64) % 64)) + (cp % 64) = cp
        /\ a \in Nat /\ b \in Nat
    <3>1. a \in Nat /\ b \in Nat
      BY <1>1 DEF a, b
    <3>2. cp < 65536
      BY <1>1, SMT DEF Plane
    <3> QED BY <1>1, <2>0, <3>1, <3>2, ThreeBytes, SMT DEF a, b
  <2>4. Lead(b) = [bits |-> a, more |-> 2]
    BY <2>3 DEF Lead
  <2>5. /\ s[2] % 64 = (cp \div 64) % 64 /\ s[3] % 64 = cp % 64
        /\ s[2] \div 64 = 2 /\ s[3] \div 64 = 2
    BY <1>2, <2>2
  <2> HIDE DEF s
  <2>6. Lead(s[at]) = [bits |-> a, more |-> two] /\ s[at] >= 128 /\ ~(s[at] < 128)
    BY <1>3, <1>5, <2>2, <2>3, <2>4
  <2>7. \A n \in 1..two : s[at + n] \div 64 = 2
    BY <1>3, <1>5, <2>5
  <2>8. /\ s[at + 1] % 64 = x
        /\ two > 1 => s[at + 2] % 64 = y
        /\ two > 2 => s[at + 3] % 64 = zero
    BY <1>3, <1>4, <1>5, <2>5
  <2>9. /\ two = 1 => cp = 64 * a + x
        /\ two = 2 => cp = 64 * (64 * a + x) + y
        /\ two = 3 => cp = 64 * (64 * (64 * a + x) + y) + zero
    BY <1>3, <1>4, <2>3
  <2>10. two = 3 => ~(cp < Plane)
    BY <1>3
  <2>11. Sequence(s, at, a, two, x, y, zero, cp)
    BY <1>1, <2>3, <2>6, <2>7, <2>8, <2>9, <2>10 DEF Sequence
  <2>12. ReadUtf8(s, at) = [cp |-> cp, next |-> at + two + 1]
    BY <2>11, ReadsSequence
  <2>13. at + two + 1 = Len(bytes) + 1
    BY <1>3, <1>5, <2>2
  <2> QED BY <1>5, <2>12, <2>13 DEF s
<1> QED
  BY <1>6, <1>7

\* Such a character survives.
LEMMA SurvivesIs ==
  ASSUME NEW c, c \in DOMAIN CodePoint => Returns(CodePoint[c])
  PROVE  Survives(c)
<1>1. CASE c \notin DOMAIN CodePoint
  BY <1>1, Zenon DEF Survives
<1>2. CASE c \in DOMAIN CodePoint
  <2> DEFINE cp == CodePoint[c]
             bytes == BytesOf(cp)
             read == ReadUtf8(bytes \o <<0>>, 1)
  <2>1. Returns(cp)
    BY <1>2
  <2>2. bytes = Utf8Of(cp)
    BY <2>1, BytesAre
  <2>3. read = [cp |-> cp, next |-> Len(bytes) + 1]
    <3> HIDE DEF cp, bytes
    <3> QED BY <2>1, <2>2, ReadsBytes
  <2>4. read.cp = cp /\ read.next = Len(bytes) + 1
    <3> HIDE DEF cp, bytes, read
    <3> QED BY <2>3
  <2>5. BytesOf(read.cp) = bytes
    <3> HIDE DEF cp, read
    <3> QED BY <2>4
  <2>6. Survives(c) = (c \in DOMAIN CodePoint =>
                         read.next = Len(bytes) + 1 /\ BytesOf(read.cp) = bytes)
    BY Zenon DEF Survives
  <2> HIDE DEF bytes, read
  <2> QED BY <2>4, <2>5, <2>6
<1> QED
  BY <1>1, <1>2

-----------------------------------------------------------------------------
(* The command line of a nested process *)

LEMMA GarbledIs == Garbled \notin {Space, Tab, Quote}
<1>1. Garbled # Space /\ Garbled # Tab /\ Garbled # Quote
  BY DEF Garbled, Space, Tab, Quote
<1> QED
  BY <1>1

\* A program whose path has no space and no quote is written as it is.
LEMMA ProgramIs ==
  ASSUME NEW S, NEW path \in Seq(S), path # <<>>, S \cap {Space, Tab, Quote} = {},
         NEW x, x = Escaped(path)
  PROVE  x \in Seq(S) /\ Len(x) \in Nat \ {0}
<1> DEFINE N == Len(path)
           s == Codes(path)
<1>1. N \in Nat /\ N # 0 /\ DOMAIN path = 1..N /\ \A n \in 1..N : path[n] \in S
  BY EmptySeq
<1>2. s = [n \in 1..N |-> s[n]] /\ \A n \in 1..N : s[n] = Code(path[n])
  BY <1>1 DEF Codes
<1> HIDE DEF s
<1>3. \A n \in 1..N : s[n] \in Seq(S) /\ Len(s[n]) = 1
  <2> SUFFICES ASSUME NEW n \in 1..N PROVE s[n] \in Seq(S) /\ Len(s[n]) = 1
    OBVIOUS
  <2> DEFINE c == path[n]
  <2>1. c \in S
    BY <1>1
  <2>2. c # Space /\ c # Quote
    BY <2>1
  <2> HIDE DEF c
  <2>3. Code(c) = <<c>>
    BY <2>2 DEF Code
  <2>4. <<c>> \in Seq(S) /\ Len(<<c>>) = 1
    BY <2>1
  <2> QED BY <1>2, <2>3, <2>4 DEF c
<1>4. Len(s) = N /\ (N = 0 => s = <<>>)
  <2> HIDE DEF N
  <2> QED BY <1>1, <1>2
<1> HIDE DEF N
<1>5. FlattenSeq(s) \in Seq(S) /\ Flattened(s, N)
  BY <1>1, <1>3, <1>4, FlattenIs
<1>6. x = FlattenSeq(s)
  BY Zenon DEF Escaped, Codes, Code, s
<1>7. Upto(s, 1) <= Upto(s, N)
  <2>1. \A n \in 0..N : Upto(s, n) <= Upto(s, N)
    BY <1>1, <1>3, <1>5, UptoGrows
  <2> QED BY <1>1, <2>1
<1>8. Len(x) = Upto(s, N) /\ Upto(s, 0) = 0 /\ Upto(s, 1) = Upto(s, 1 - 1) + Len(s[1])
  <2>1. 1 \in 1..N
    BY <1>1
  <2> QED BY <1>5, <1>6, <2>1, Zenon DEF Flattened
<1>9. Len(x) \in Nat
  BY <1>5, <1>6, LenProperties
<1>10. Upto(s, 1) = 1
  <2>1. 1 \in 1..N /\ 1 - 1 = 0
    BY <1>1
  <2>2. Upto(s, 1 - 1) = 0
    BY <1>8, <2>1, Zenon
  <2>3. Len(s[1]) = 1
    BY <1>3, <2>1
  <2> QED BY <1>8, <2>2, <2>3
<1> QED
  BY <1>5, <1>6, <1>7, <1>8, <1>9, <1>10

\* The nested process gets the arguments that the runner has put together, if
\* their characters survive and no argument ends inside.
LEMMA ArgumentsArrive ==
  ASSUME NEW S, {Space, Quote, Backslash} \subseteq S, \A c \in S : Survives(c),
         NEW A \in Seq(Seq(S)), A # <<>>,
         \A n \in 1..Len(A) : \A j \in 1..Len(A[n]) : CarriedAt(A[n], j),
         NEW P, NEW path \in Seq(P), path # <<>>, P \cap {Space, Tab, Quote} = {}
  PROVE  ArgvOf(Transcoded(Escaped(path) \o FlattenSeq(Parts(A)))) = A
<1> DEFINE x == Escaped(path)
           rest == FlattenSeq(Parts(A))
           text == x \o rest
           line == Transcoded(text)
           U == P \cup S
           e == Len(x) + 1
           L == Len(line)
<1>1. x \in Seq(P) /\ Len(x) \in Nat \ {0}
  BY ProgramIs
<1>2. rest \in Seq(S) /\ Escapes(A, rest)
  BY EscapesIs
<1>3. rest[1] = Space /\ Len(rest) \in Nat /\ Len(rest) >= 1
  <2>1. Len(A) \in Nat /\ Len(A) # 0
    BY EmptySeq
  <2>2. 1 \in 1..Len(A) /\ 1 \in 0..Len(A) /\ 1 - 1 = 0
    BY <2>1
  <2> DEFINE text1 == A[1]
             part == Part(text1)
  <2>3. text1 \in Seq(S)
    BY <2>2
  <2> HIDE DEF text1
  <2>4. part[1] = Space /\ Len(part) = Len(Escaped(text1)) + 1 /\ Len(Escaped(text1)) \in Nat
    BY <2>3, PartIs
  <2> HIDE DEF part
  <2>5. 1 \in 1..Len(part)
    BY <2>4
  <2> HIDE DEF rest
  <2>6. /\ Upto(Parts(A), 0) = 0
        /\ Upto(Parts(A), 1) \in Nat /\ Upto(Parts(A), 1) <= Len(rest)
        /\ Upto(Parts(A), 1) = Upto(Parts(A), 1 - 1) + Len(Part(A[1]))
        /\ \A j \in 1..Len(Part(A[1])) : rest[Upto(Parts(A), 1 - 1) + j] = Part(A[1])[j]
    BY <1>2, <2>2, Zenon DEF Escapes
  <2>7. rest[0 + 1] = part[1]
    BY <2>2, <2>5, <2>6 DEF part, text1
  <2>8. Len(rest) \in Nat
    BY <1>2, LenProperties
  <2>9. Upto(Parts(A), 1) = Len(part)
    BY <2>2, <2>4, <2>6 DEF part, text1
  <2> QED BY <2>4, <2>6, <2>7, <2>8, <2>9
<1> HIDE DEF x, rest
<1>4. x \in Seq(U) /\ rest \in Seq(U)
  BY <1>1, <1>2
<1>5. /\ text \in Seq(U) /\ Len(text) = Len(x) + Len(rest)
      /\ \A n \in 1..Len(x) + Len(rest) : text[n] = IF n <= Len(x) THEN x[n] ELSE rest[n - Len(x)]
  BY <1>4, ConcatProperties
<1> HIDE DEF text
<1>6. /\ \A n \in 1..Len(x) : text[n] \in P
      /\ \A n \in 1..Len(rest) : text[Len(x) + n] = rest[n] /\ text[Len(x) + n] \in S
  <2>1. ASSUME NEW n \in 1..Len(x) PROVE text[n] \in P
    <3>1. n \in 1..Len(x) + Len(rest) /\ n <= Len(x)
      BY <1>1, <1>3
    <3>2. text[n] = x[n]
      BY <1>5, <3>1
    <3>3. x[n] \in P
      BY <1>1
    <3> QED BY <3>2, <3>3
  <2>2. ASSUME NEW n \in 1..Len(rest)
        PROVE  text[Len(x) + n] = rest[n] /\ text[Len(x) + n] \in S
    <3> DEFINE m == Len(x) + n
    <3>1. m \in 1..Len(x) + Len(rest) /\ ~(m <= Len(x)) /\ m - Len(x) = n
      BY <1>1, <1>3
    <3> HIDE DEF m
    <3>2. text[m] = rest[n]
      BY <1>5, <3>1
    <3>3. rest[n] \in S
      BY <1>2
    <3> QED BY <3>2, <3>3 DEF m
  <2> QED BY <2>1, <2>2
<1>7. /\ line = [n \in 1..Len(text) |-> line[n]]
      /\ \A n \in 1..Len(text) :
           line[n] = IF Survives(text[n]) THEN text[n] ELSE Garbled
  <2>1. DOMAIN text = 1..Len(text)
    BY <1>5
  <2> QED BY <2>1 DEF Transcoded
<1> HIDE DEF line
<1>8. L = Len(x) + Len(rest) /\ L \in Nat
  <2>1. Len(text) \in Nat
    BY <1>5, LenProperties
  <2>2. Len(line) = Len(text)
    BY <1>7, <2>1
  <2> QED BY <1>1, <1>3, <1>5, <2>2
<1>9. \A n \in 1..Len(x) : line[n] \notin {Space, Tab, Quote}
  <2> SUFFICES ASSUME NEW n \in 1..Len(x) PROVE line[n] \notin {Space, Tab, Quote}
    OBVIOUS
  <2>1. n \in 1..Len(text) /\ text[n] \in P
    BY <1>1, <1>3, <1>5, <1>6
  <2>2. line[n] = text[n] \/ line[n] = Garbled
    BY <1>7, <2>1
  <2>3. text[n] \notin {Space, Tab, Quote}
    BY <2>1
  <2> QED BY <2>2, <2>3, GarbledIs, Zenon
<1>10. \A n \in 1..Len(rest) : line[Len(x) + n] = rest[n]
  <2> SUFFICES ASSUME NEW n \in 1..Len(rest) PROVE line[Len(x) + n] = rest[n]
    OBVIOUS
  <2> DEFINE m == Len(x) + n
  <2>1. m \in 1..Len(text)
    BY <1>1, <1>3, <1>5
  <2>2. text[m] = rest[n] /\ Survives(text[m])
    BY <1>6
  <2> HIDE DEF m
  <2>3. line[m] = rest[n]
    BY <1>7, <2>1, <2>2, Zenon
  <2> QED BY <2>3 DEF m
<1>11. e \in Nat \ {0} /\ e \in 1..L /\ e - 1 = Len(x) /\ L = e - 1 + Len(rest)
  BY <1>1, <1>3, <1>8
<1>12. line[e] = Space
  <2>1. 1 \in 1..Len(rest)
    BY <1>3
  <2> QED BY <1>3, <1>10, <2>1
<1>13. \A m \in 1..(e - 1) : line[m] \notin {Space, Tab}
  BY <1>9, <1>11
<1>14. line[1] # Quote
  <2>1. 1 \in 1..Len(x)
    BY <1>1
  <2> QED BY <1>9, <2>1
<1> HIDE DEF e, L
<1>15. e = ProgramEnd(line)
  <2>1. \A n \in 1..L :
          line[1] # Quote /\ line[n] = Space /\ (\A m \in 1..(n - 1) : line[m] \notin {Space, Tab})
            => ProgramEnd(line) = n
    <3>1. Len(line) = L /\ L \in Nat
      BY <1>8 DEF L
    <3> QED BY <3>1, ProgramEndIs
  <2> QED BY <1>11, <1>12, <1>13, <1>14, <2>1, Zenon
<1>16. Piece(line, e - 1, rest)
  BY <1>10, <1>11 DEF Piece
<1>17. ArgvOf(line) = A
  <2>1. L \in Nat /\ L = Len(line) /\ rest = FlattenSeq(Parts(A))
    BY <1>8 DEF L, rest
  <2> QED BY <1>11, <1>15, <1>16, <2>1, RoundTrip
<1> QED
  BY <1>17 DEF line, text, x, rest

-----------------------------------------------------------------------------
(* Texts and their tokens *)

\* The tokens d after the tokens c and one more character
DotAfter(S, c, d, M) ==
  /\ M \in Nat \ {0} /\ d \in Seq(Seq(S)) /\ d # <<>>
  /\ Len(d) = M + 1 /\ d[M + 1] = <<>>
  /\ \A j \in 1..M : d[j] = c[j]
CharAfter(S, c, x, d, M) ==
  /\ M \in Nat \ {0} /\ d \in Seq(Seq(S)) /\ d # <<>>
  /\ Len(d) = M /\ d[M] = Append(c[M], x) /\ d[M] # <<>>
  /\ \A j \in 1..M : j # M => d[j] = c[j]
After(c, x) == IF x = "." THEN Append(c, <<>>) ELSE [c EXCEPT ![Len(c)] = Append(@, x)]

LEMMA Appended ==
  ASSUME NEW S, NEW c \in Seq(S), NEW y \in S, NEW d, d = Append(c, y)
  PROVE  /\ d \in Seq(S) /\ Len(c) \in Nat /\ Len(d) = Len(c) + 1
         /\ d[Len(c) + 1] = y
         /\ \A j \in 1..Len(c) : d[j] = c[j]
BY AppendProperties, LenProperties

LEMMA AfterDot ==
  ASSUME NEW S, NEW c \in Seq(Seq(S)), c # <<>>, NEW x, x = ".", NEW d, d = After(c, x),
         NEW M, M = Len(c)
  PROVE  DotAfter(S, c, d, M)
<1>1. M \in Nat \ {0} /\ <<>> \in Seq(S)
  BY EmptySeq, LenProperties
<1>2. d = Append(c, <<>>)
  BY DEF After
<1>a. PICK y \in Seq(S) : y = <<>>
  BY <1>1
<1>b. d = Append(c, y)
  BY <1>2, <1>a
<1>3. /\ d \in Seq(Seq(S)) /\ Len(d) = M + 1 /\ d[M + 1] = y
      /\ \A j \in 1..M : d[j] = c[j]
  BY <1>1, <1>b, Appended
<1>4. d # <<>>
  BY <1>1, <1>3, EmptySeq
<1> QED
  BY <1>1, <1>3, <1>4, <1>a, Zenon DEF DotAfter

LEMMA AfterChar ==
  ASSUME NEW S, NEW c \in Seq(Seq(S)), c # <<>>, NEW x \in S, x # ".", NEW d, d = After(c, x),
         NEW M, M = Len(c)
  PROVE  CharAfter(S, c, x, d, M)
<1>1. M \in Nat \ {0}
  BY EmptySeq, LenProperties
<1>2. c[M] \in Seq(S) /\ M \in 1..Len(c)
  BY <1>1, ElementOfSeq
<1>3. PICK y : y = Append(c[M], x)
  OBVIOUS
<1>4. y \in Seq(S) /\ Len(y) = Len(c[M]) + 1 /\ Len(c[M]) \in Nat
  BY <1>2, <1>3, AppendProperties, LenProperties
<1>5. y # <<>>
  BY <1>4, EmptySeq
<1>6. d = [c EXCEPT ![M] = y]
  BY <1>3 DEF After
<1>7. /\ d \in Seq(Seq(S)) /\ Len(d) = M
      /\ \A j \in 1..M : d[j] = IF j = M THEN y ELSE c[j]
  BY <1>2, <1>4, <1>6, ExceptSeq
<1>8. d[M] = y /\ \A j \in 1..M : j # M => d[j] = c[j]
  BY <1>2, <1>7
<1>9. d # <<>>
  BY <1>1, <1>7, EmptySeq
<1> QED
  BY <1>1, <1>3, <1>5, <1>7, <1>8, <1>9, Zenon DEF CharAfter

\* Sequences with the same elements
LEMMA SameSeq ==
  ASSUME NEW S, NEW a \in Seq(S), NEW b \in Seq(S), Len(a) = Len(b),
         \A j \in 1..Len(a) : a[j] = b[j]
  PROVE  a = b
BY SeqEqual

LEMMA AppendOnce ==
  ASSUME NEW S, NEW a \in Seq(S), NEW b \in Seq(S), NEW x \in S, NEW y \in S,
         Append(a, x) = Append(b, y)
  PROVE  a = b /\ x = y
<1>1. /\ Len(Append(a, x)) = Len(a) + 1 /\ Append(a, x)[Len(a) + 1] = x
      /\ \A j \in 1..Len(a) : Append(a, x)[j] = a[j]
      /\ Len(a) \in Nat
  BY AppendProperties, LenProperties
<1>2. /\ Len(Append(b, y)) = Len(b) + 1 /\ Append(b, y)[Len(b) + 1] = y
      /\ \A j \in 1..Len(b) : Append(b, y)[j] = b[j]
      /\ Len(b) \in Nat
  BY AppendProperties, LenProperties
<1>3. Len(a) = Len(b)
  BY <1>1, <1>2
<1>4. x = y /\ \A j \in 1..Len(a) : a[j] = b[j]
  BY <1>1, <1>2, <1>3
<1> QED
  BY <1>3, <1>4, SameSeq

\* The tokens tell the last character and the tokens before it.
LEMMA AfterOnce ==
  ASSUME NEW S, NEW c \in Seq(Seq(S)), c # <<>>, NEW x \in S,
         NEW e \in Seq(Seq(S)), e # <<>>, NEW y \in S, After(c, x) = After(e, y)
  PROVE  c = e /\ x = y
<1>a. PICK d : d = After(c, x)
  OBVIOUS
<1>b. d = After(e, y)
  BY <1>a
<1>c. PICK M : M = Len(c)
  OBVIOUS
<1>d. PICK N : N = Len(e)
  OBVIOUS
<1>1. (x = "." => DotAfter(S, c, d, M)) /\ (x # "." => CharAfter(S, c, x, d, M))
  BY <1>a, <1>c, AfterDot, AfterChar
<1>2. (y = "." => DotAfter(S, e, d, N)) /\ (y # "." => CharAfter(S, e, y, d, N))
  BY <1>b, <1>d, AfterDot, AfterChar
<1>3. CASE x = "." /\ y = "."
  <2>1. M = N /\ \A j \in 1..M : c[j] = e[j]
    BY <1>1, <1>2, <1>3 DEF DotAfter
  <2> QED BY <1>3, <1>c, <1>d, <2>1, SameSeq
<1>4. CASE x # "." /\ y # "."
  <2>a. CharAfter(S, c, x, d, M) /\ CharAfter(S, e, y, d, N)
    BY <1>1, <1>2, <1>4
  <2>b. M = N /\ M \in Nat \ {0}
    BY <2>a, Zenon DEF CharAfter
  <2>c. \A j \in 1..M : j # M => c[j] = e[j]
    BY <2>a, <2>b, Zenon DEF CharAfter
  <2>d. Append(c[M], x) = Append(e[M], y)
    BY <2>a, <2>b, Zenon DEF CharAfter
  <2>1. /\ M = N /\ M \in 1..M
        /\ \A j \in 1..M : j # M => c[j] = e[j]
        /\ Append(c[M], x) = Append(e[M], y)
    BY <2>b, <2>c, <2>d
  <2>2. c[M] \in Seq(S) /\ e[M] \in Seq(S)
    BY <1>c, <1>d, <2>1, ElementOfSeq
  <2>3. PICK u \in Seq(S) : u = c[M]
    BY <2>2
  <2>4. PICK v \in Seq(S) : v = e[M]
    BY <2>2
  <2>5. Append(u, x) = Append(v, y)
    BY <2>1, <2>3, <2>4
  <2>6. u = v /\ x = y
    BY <2>5, AppendOnce
  <2>7. \A j \in 1..M : c[j] = e[j]
    BY <2>1, <2>3, <2>4, <2>6
  <2> QED BY <1>c, <1>d, <2>1, <2>6, <2>7, SameSeq
<1>5. CASE x = "." /\ y # "."
  <2>1. d[M + 1] = <<>> /\ Len(d) = M + 1 /\ Len(d) = N /\ d[N] # <<>>
    BY <1>1, <1>2, <1>5 DEF CharAfter, DotAfter
  <2> QED BY <2>1
<1>6. CASE x # "." /\ y = "."
  <2>1. d[N + 1] = <<>> /\ Len(d) = N + 1 /\ Len(d) = M /\ d[M] # <<>>
    BY <1>1, <1>2, <1>6 DEF CharAfter, DotAfter
  <2> QED BY <2>1
<1> QED
  BY <1>3, <1>4, <1>5, <1>6

\* The tokens are never those of no text again.
LEMMA AfterSome ==
  ASSUME NEW S, NEW c \in Seq(Seq(S)), c # <<>>, NEW x \in S
  PROVE  After(c, x) # << <<>> >>
<1>1. PICK d : d = After(c, x)
  OBVIOUS
<1>2. PICK M : M = Len(c)
  OBVIOUS
<1>3. (x = "." => DotAfter(S, c, d, M)) /\ (x # "." => CharAfter(S, c, x, d, M))
  BY <1>1, <1>2, AfterDot, AfterChar
<1>4. ASSUME d = << <<>> >> PROVE FALSE
  <2>1. Len(d) = 1 /\ d[1] = <<>>
    BY <1>4
  <2>2. CASE x = "."
    BY <1>3, <2>1, <2>2 DEF DotAfter
  <2>3. CASE x # "."
    BY <1>3, <2>1, <2>3 DEF CharAfter
  <2> QED BY <2>2, <2>3
<1> QED
  BY <1>1, <1>4

\* The tokens of the first n characters
Cuts(S, text, f, L) ==
  /\ Tokens(text) = f[L]
  /\ f[0] = << <<>> >>
  /\ \A n \in 1..L : f[n] = After(f[n - 1], text[n])
  /\ \A n \in 0..L : f[n] \in Seq(Seq(S)) /\ f[n] # <<>>

LEMMA AfterTyped ==
  ASSUME NEW S, NEW c \in Seq(Seq(S)), c # <<>>, NEW x \in S, NEW d, d = After(c, x)
  PROVE  d \in Seq(Seq(S)) /\ d # <<>>
<1>1. PICK M : M = Len(c)
  OBVIOUS
<1>2. CASE x = "."
  <2>1. DotAfter(S, c, d, M)
    BY <1>1, <1>2, AfterDot
  <2> QED BY <2>1, Zenon DEF DotAfter
<1>3. CASE x # "."
  <2>1. CharAfter(S, c, x, d, M)
    BY <1>1, <1>3, AfterChar
  <2> QED BY <2>1, Zenon DEF CharAfter
<1> QED
  BY <1>2, <1>3

LEMMA CutTyped ==
  ASSUME NEW S, NEW text \in Seq(S), NEW L \in Nat, L = Len(text), NEW f, f = Cut(text)
  PROVE  Cuts(S, text, f, L)
<1> DEFINE Right(n) == f[n] \in Seq(Seq(S)) /\ f[n] # <<>>
           T == {n \in 0..L : ~Right(n)}
<1>1. Tokens(text) = f[L] /\ \A n \in 0..L : f[n] = CutTo(f, text, n)
  BY CutIs
<1>2. f[0] = << <<>> >>
  <2>1. 0 \in 0..L
    OBVIOUS
  <2> QED BY <1>1, <2>1, Zenon DEF CutTo
<1>3. \A n \in 1..L : f[n] = After(f[n - 1], text[n])
  <2>1. \A n \in 1..L : n \in 0..L /\ n # 0
    OBVIOUS
  <2> QED BY <1>1, <2>1, Zenon DEF CutTo, After
<1>4. Right(0)
  <2>1. << <<>> >> \in Seq(Seq(S)) /\ << <<>> >> # <<>>
    BY EmptySeq
  <2> QED BY <1>2, <2>1
<1>5. ASSUME T # {} PROVE FALSE
  <2>1. T \in SUBSET Nat
    OBVIOUS
  <2>2. PICK m \in T : \A j \in T : m <= j
    BY <1>5, <2>1, LeastOf
  <2>3. m \in 0..L /\ ~Right(m)
    BY <2>2
  <2>4. m \in 1..L /\ m - 1 \in 0..L /\ ~(m <= m - 1)
    BY <1>4, <2>3
  <2>5. Right(m - 1)
    <3> HIDE DEF Right
    <3> QED BY <2>2, <2>4
  <2>6. text[m] \in S /\ f[m] = After(f[m - 1], text[m])
    BY <1>3, <2>4
  <2>7. Right(m)
    BY <2>5, <2>6, AfterTyped
  <2> QED BY <2>3, <2>7
<1>6. \A n \in 0..L : Right(n)
  <2> HIDE DEF Right
  <2> QED BY <1>5
<1> QED
  BY <1>1, <1>2, <1>3, <1>6, Zenon DEF Cuts

\* Two texts with the same tokens are one.
LEMMA TokensOnce ==
  ASSUME NEW S, NEW a \in Seq(S), NEW b \in Seq(S), Tokens(a) = Tokens(b)
  PROVE  a = b
<1>a. PICK L \in Nat : L = Len(a)
  OBVIOUS
<1>b. PICK K \in Nat : K = Len(b)
  OBVIOUS
<1>c. PICK f : f = Cut(a)
  OBVIOUS
<1>d. PICK g : g = Cut(b)
  OBVIOUS
<1> DEFINE Right(m) == \A n \in 0..K : f[m] = g[n] => m = n /\ \A j \in 1..m : a[j] = b[j]
           T == {m \in 0..L : ~Right(m)}
<1>e. Cuts(S, a, f, L) /\ Cuts(S, b, g, K)
  BY <1>a, <1>b, <1>c, <1>d, CutTyped
<1>1. /\ Tokens(a) = f[L]
      /\ f[0] = << <<>> >>
      /\ \A n \in 1..L : f[n] = After(f[n - 1], a[n])
      /\ \A n \in 0..L : f[n] \in Seq(Seq(S)) /\ f[n] # <<>>
  BY <1>e, Zenon DEF Cuts
<1>2. /\ Tokens(b) = g[K]
      /\ g[0] = << <<>> >>
      /\ \A n \in 1..K : g[n] = After(g[n - 1], b[n])
      /\ \A n \in 0..K : g[n] \in Seq(Seq(S)) /\ g[n] # <<>>
  BY <1>e, Zenon DEF Cuts
<1>3. (\A n \in 1..L : a[n] \in S) /\ (\A n \in 1..K : b[n] \in S)
  BY <1>a, <1>b
<1>4. ASSUME NEW n \in 1..L PROVE f[n] # << <<>> >>
  <2>1. n - 1 \in 0..L
    OBVIOUS
  <2>2. f[n - 1] \in Seq(Seq(S)) /\ f[n - 1] # <<>> /\ a[n] \in S
    BY <1>1, <1>3, <2>1
  <2> QED BY <1>1, <2>2, AfterSome
<1>5. ASSUME NEW n \in 1..K PROVE g[n] # << <<>> >>
  <2>1. n - 1 \in 0..K
    OBVIOUS
  <2>2. g[n - 1] \in Seq(Seq(S)) /\ g[n - 1] # <<>> /\ b[n] \in S
    BY <1>2, <1>3, <2>1
  <2> QED BY <1>2, <2>2, AfterSome
<1>6. Right(0)
  <2>1. \A n \in 0..K : n # 0 => n \in 1..K
    OBVIOUS
  <2>2. 1..0 = {}
    OBVIOUS
  <2> QED BY <1>1, <1>5, <2>1, <2>2, Zenon
<1>7. ASSUME T # {} PROVE FALSE
  <2>1. T \in SUBSET Nat
    OBVIOUS
  <2>2. PICK m \in T : \A j \in T : m <= j
    BY <1>7, <2>1, LeastOf
  <2>3. m \in 0..L /\ ~Right(m)
    BY <2>2
  <2>4. m # 0
    BY <1>6, <2>3
  <2>5. m \in 1..L /\ m - 1 \in 0..L /\ ~(m <= m - 1)
    BY <2>3, <2>4
  <2>6. Right(m - 1)
    <3> HIDE DEF Right
    <3> QED BY <2>2, <2>5
  <2>7. ASSUME NEW n \in 0..K, f[m] = g[n]
        PROVE  m = n /\ \A j \in 1..m : a[j] = b[j]
    <3>1. n # 0
      BY <1>2, <1>4, <2>5, <2>7
    <3>2. n \in 1..K /\ n - 1 \in 0..K
      BY <3>1
    <3>3. After(f[m - 1], a[m]) = After(g[n - 1], b[n])
      BY <1>1, <1>2, <2>5, <2>7, <3>2
    <3>4. /\ f[m - 1] \in Seq(Seq(S)) /\ f[m - 1] # <<>> /\ a[m] \in S
          /\ g[n - 1] \in Seq(Seq(S)) /\ g[n - 1] # <<>> /\ b[n] \in S
      BY <1>1, <1>2, <1>3, <2>5, <3>2
    <3>5. PICK c \in Seq(Seq(S)) : c = f[m - 1]
      BY <3>4
    <3>6. PICK e \in Seq(Seq(S)) : e = g[n - 1]
      BY <3>4
    <3>7. c = e /\ a[m] = b[n]
      BY <3>3, <3>4, <3>5, <3>6, AfterOnce
    <3>8. m - 1 = n - 1 /\ \A j \in 1..(m - 1) : a[j] = b[j]
      BY <2>6, <3>2, <3>5, <3>6, <3>7
    <3>9. m = n
      BY <2>5, <3>2, <3>8
    <3>10. \A j \in 1..m : j = m \/ j \in 1..(m - 1)
      BY <2>5
    <3> QED BY <3>7, <3>8, <3>9, <3>10, Zenon
  <2> QED BY <2>3, <2>7
<1>8. Right(L)
  <2>1. L \in 0..L
    OBVIOUS
  <2> HIDE DEF Right
  <2> QED BY <1>7, <2>1
<1>9. L = K /\ \A j \in 1..L : a[j] = b[j]
  <2>1. K \in 0..K
    OBVIOUS
  <2> QED BY <1>1, <1>2, <1>8, <2>1
<1> QED
  BY <1>9, <1>a, <1>b, SameSeq

LEMMA TokensTyped ==
  ASSUME NEW S, NEW text \in Seq(S)
  PROVE  Tokens(text) \in Seq(Seq(S)) /\ Tokens(text) # <<>>
<1>1. PICK L \in Nat : L = Len(text)
  OBVIOUS
<1>2. PICK f : f = Cut(text)
  OBVIOUS
<1>3. Cuts(S, text, f, L)
  BY <1>1, <1>2, CutTyped
<1>4. L \in 0..L
  OBVIOUS
<1> QED
  BY <1>3, <1>4, Zenon DEF Cuts

LEMMA NoStar ==
  ASSUME NEW S, "*" \notin S, NEW text \in Seq(S)
  PROVE  text # <<"*">> /\ text # <<"*", "*">>
<1>1. \A n \in 1..Len(text) : text[n] # "*"
  OBVIOUS
<1>2. text = <<"*">> \/ text = <<"*", "*">> => Len(text) >= 1 /\ text[1] = "*"
  OBVIOUS
<1>3. Len(text) \in Nat
  OBVIOUS
<1> QED
  BY <1>1, <1>2, <1>3

\* A text without wildcards means itself only.
LEMMA MeansOnce ==
  ASSUME NEW S, "*" \notin S, NEW pattern \in Seq(S), NEW name \in Seq(S)
  PROVE  Means(pattern, name) <=> pattern = name
<1> DEFINE p == Tokens(pattern)
           m == Tokens(name)
<1>1. p \in Seq(Seq(S)) /\ m \in Seq(Seq(S))
  BY TokensTyped
<1>2. \/ Len(p) = Len(m) /\ \A j \in 1..Len(m) : p[j] \in {<<"*">>, m[j]}
      \/ \E n \in 0..(Len(p) - 1) : p[n + 1] = <<"*", "*">> /\ n <= Len(m)
                                     /\ \A j \in 1..n : p[j] \in {<<"*">>, m[j]}
      <=> Means(pattern, name)
  BY Zenon DEF Means
<1> HIDE DEF p, m
<1>3. \A j \in 1..Len(p) : p[j] # <<"*">> /\ p[j] # <<"*", "*">>
  BY <1>1, NoStar, ElementOfSeq
<1>4. \A n \in 0..(Len(p) - 1) : n + 1 \in 1..Len(p)
  BY <1>1
<1>5. Means(pattern, name) <=> Len(p) = Len(m) /\ \A j \in 1..Len(m) : p[j] = m[j]
  <2>1. ASSUME Len(p) = Len(m), NEW j \in 1..Len(m)
        PROVE  p[j] \in {<<"*">>, m[j]} <=> p[j] = m[j]
    BY <1>3, <2>1
  <2> QED BY <1>2, <1>3, <1>4, <2>1, Zenon
<1>6. (Len(p) = Len(m) /\ \A j \in 1..Len(m) : p[j] = m[j]) <=> p = m
  BY <1>1, SameSeq
<1>7. p = m <=> pattern = name
  BY TokensOnce DEF p, m
<1> QED
  BY <1>5, <1>6, <1>7

LEMMA OneSeq ==
  ASSUME NEW S, NEW x \in S
  PROVE  <<x>> \in Seq(S)
OBVIOUS

\* A full name from its end: the characters of the name behind the last dot.
Ends(S, t, w, a) ==
  /\ w \in Seq(S) /\ Len(w) \in Nat /\ a \in Nat /\ a <= Len(w)
  /\ \A n \in 1..a : w[Len(w) - a + n] = t.name[n] /\ t.name[n] # "."
  /\ t.group = <<>> => Len(w) = a
  /\ t.group # <<>> =>
       /\ Len(w) = Len(t.group) + 1 + a /\ w[Len(w) - a] = "."
       /\ Len(t.group) \in Nat /\ \A n \in 1..Len(t.group) : w[n] = t.group[n]

LEMMA NameEnds ==
  ASSUME NEW t, IsTest(t), NEW S, t.group \in Seq(S), t.name \in Seq(S), "." \in S,
         NEW w, w = FullName(t), NEW a, a = Len(t.name)
  PROVE  Ends(S, t, w, a)
<1>1. a \in Nat /\ \A n \in 1..a : t.name[n] # "."
  BY SequenceIs DEF IsTest
<1>2. CASE t.group = <<>>
  <2>1. w = t.name
    BY <1>2 DEF FullName
  <2> QED BY <1>1, <1>2, <2>1 DEF Ends
<1>3. CASE t.group # <<>>
  <2>1. PICK g \in Seq(S) : g = t.group
    OBVIOUS
  <2>2. PICK s \in Seq(S) : s = t.name
    OBVIOUS
  <2>3. PICK h : h = g \o <<".">>
    OBVIOUS
  <2>4. w = h \o s
    BY <1>3, <2>1, <2>2, <2>3 DEF FullName
  <2>5. PICK dot \in Seq(S) : dot = <<".">>
    <3>1. <<".">> \in Seq(S)
      BY Zenon, OneSeq
    <3> QED BY <3>1
  <2>6. Len(dot) = 1 /\ dot[1] = "."
    BY <2>5
  <2>7. PICK b \in Nat : b = Len(g)
    OBVIOUS
  <2>8. Joined(S, h, g, dot, b, 1)
    BY <2>3, <2>5, <2>6, <2>7, JoinedIs
  <2>9. h \in Seq(S) /\ Len(h) = b + 1 /\ h[b + 1] = "." /\ \A n \in 1..b : h[n] = g[n]
    <3>1. 1 \in 1..1
      OBVIOUS
    <3> QED BY <2>6, <2>8, <3>1, Zenon DEF Joined
  <2>10. Joined(S, w, h, s, b + 1, a)
    BY <2>2, <2>4, <2>9, JoinedIs
  <2>11. /\ w \in Seq(S) /\ Len(w) = b + 1 + a
         /\ \A n \in 1..(b + 1) : w[n] = h[n]
         /\ \A n \in 1..a : w[b + 1 + n] = s[n]
    BY <2>10, Zenon DEF Joined
  <2>12. b + 1 \in 1..(b + 1) /\ \A n \in 1..b : n \in 1..(b + 1)
    OBVIOUS
  <2>13. w[b + 1] = "." /\ \A n \in 1..b : w[n] = g[n]
    BY <2>9, <2>11, <2>12, Zenon
  <2>14. Len(w) \in Nat /\ a <= Len(w) /\ Len(w) - a = b + 1
    <3>1. PICK n : n = Len(w)
      OBVIOUS
    <3>2. n = b + 1 + a
      BY <2>11, <3>1
    <3>3. n \in Nat /\ a <= n /\ n - a = b + 1
      BY <1>1, <3>2
    <3> QED BY <3>1, <3>3
  <2>15. \A n \in 1..a : w[Len(w) - a + n] = t.name[n]
    BY <2>2, <2>11, <2>14
  <2>16. w[Len(w) - a] = "."
    BY <2>13, <2>14
  <2> QED BY <1>1, <1>3, <2>1, <2>7, <2>11, <2>13, <2>14, <2>15, <2>16, Zenon DEF Ends
<1> QED
  BY <1>2, <1>3

LEMMA NameLonger ==
  ASSUME NEW S, NEW t, NEW u, NEW w, NEW a, NEW b, Ends(S, t, w, a), Ends(S, u, w, b), a < b
  PROVE  FALSE
<1>1. /\ Len(w) \in Nat /\ a \in Nat /\ b \in Nat /\ b <= Len(w)
      /\ t.group = <<>> => Len(w) = a
      /\ t.group # <<>> => w[Len(w) - a] = "."
  BY Zenon DEF Ends
<1>2. w[Len(w) - a] = "."
  BY <1>1
<1>3. b - a \in 1..b /\ Len(w) - b + (b - a) = Len(w) - a
  BY <1>1
<1>4. w[Len(w) - b + (b - a)] = u.name[b - a] /\ u.name[b - a] # "."
  BY <1>3, Zenon DEF Ends
<1> QED
  BY <1>2, <1>3, <1>4

\* Tests with the same full name have the same group and name.
LEMMA FullNameOnce ==
  ASSUME NEW t, IsTest(t), NEW u, IsTest(u), FullName(t) = FullName(u)
  PROVE  t.group = u.group /\ t.name = u.name
<1> DEFINE Of(x) == {x[n] : n \in 1..Len(x)}
<1>1. PICK S : /\ t.group \in Seq(S) /\ t.name \in Seq(S) /\ u.group \in Seq(S) /\ u.name \in Seq(S)
               /\ "." \in S
  <2> DEFINE S == Of(t.group) \cup Of(t.name) \cup Of(u.group) \cup Of(u.name) \cup {"."}
  <2>1. /\ \A n \in 1..Len(t.group) : t.group[n] \in S
        /\ \A n \in 1..Len(t.name) : t.name[n] \in S
        /\ \A n \in 1..Len(u.group) : u.group[n] \in S
        /\ \A n \in 1..Len(u.name) : u.name[n] \in S
    OBVIOUS
  <2>2. "." \in S
    OBVIOUS
  <2> HIDE DEF S
  <2>3. t.group \in Seq(S) /\ t.name \in Seq(S) /\ u.group \in Seq(S) /\ u.name \in Seq(S)
    BY <2>1, SeqIn DEF IsTest
  <2> QED BY <2>2, <2>3
<1>2. PICK w : w = FullName(t)
  OBVIOUS
<1>3. PICK a : a = Len(t.name)
  OBVIOUS
<1>4. PICK b : b = Len(u.name)
  OBVIOUS
<1>5. Ends(S, t, w, a) /\ Ends(S, u, w, b)
  BY <1>1, <1>2, <1>3, <1>4, NameEnds
<1>6. a \in Nat /\ b \in Nat
  BY <1>5, Zenon DEF Ends
<1>7. a = b
  BY <1>5, <1>6, NameLonger
<1>8. t.name = u.name
  <2>1. \A n \in 1..a : w[Len(w) - a + n] = t.name[n] /\ w[Len(w) - a + n] = u.name[n]
    BY <1>5, <1>7, Zenon DEF Ends
  <2>2. \A n \in 1..a : t.name[n] = u.name[n]
    BY <2>1
  <2> QED BY <1>1, <1>3, <1>4, <1>7, <2>2, SameSeq
<1>9. t.group = u.group
  <2>1. /\ Len(w) \in Nat /\ Len(t.group) \in Nat /\ Len(u.group) \in Nat
        /\ t.group = <<>> => Len(w) = a
        /\ t.group # <<>> => /\ Len(w) = Len(t.group) + 1 + a
                             /\ \A n \in 1..Len(t.group) : w[n] = t.group[n]
        /\ u.group = <<>> => Len(w) = a
        /\ u.group # <<>> => /\ Len(w) = Len(u.group) + 1 + a
                             /\ \A n \in 1..Len(u.group) : w[n] = u.group[n]
    <3>1. Len(t.group) \in Nat /\ Len(u.group) \in Nat
      BY <1>1
    <3> QED BY <1>5, <1>7, <3>1, Zenon DEF Ends
  <2>2. t.group = <<>> <=> u.group = <<>>
    BY <1>6, <2>1
  <2>3. CASE t.group # <<>>
    <3>1. Len(t.group) = Len(u.group) /\ \A n \in 1..Len(t.group) : t.group[n] = u.group[n]
      BY <1>6, <2>1, <2>2, <2>3
    <3> QED BY <1>1, <3>1, SameSeq
  <2> QED BY <2>2, <2>3
<1> QED
  BY <1>8, <1>9

\* The full name of a registered test, as a pattern, finds that test only.
Named(t, S) == FullName(t) \in Seq(S) /\ "*" \notin S

LEMMA NameFinds ==
  ASSUME NEW t, IsTest(t), NEW S, Named(t, S), NEW u, IsTest(u), NEW U, Named(u, U)
  PROVE  Means(FullName(t), FullName(u)) <=> t.group = u.group /\ t.name = u.name
<1> DEFINE V == S \cup U
<1>1. FullName(t) \in Seq(V) /\ FullName(u) \in Seq(V) /\ "*" \notin V
  <2>1. S \subseteq V /\ U \subseteq V
    OBVIOUS
  <2>2. "*" \notin V
    BY DEF Named
  <2> HIDE DEF V
  <2>3. FullName(t) \in Seq(S) /\ FullName(u) \in Seq(U)
    BY DEF Named
  <2> QED BY <2>1, <2>2, <2>3, SeqMonotonic
<1> HIDE DEF V
<1>2. Means(FullName(t), FullName(u)) <=> FullName(t) = FullName(u)
  BY <1>1, MeansOnce
<1>3. FullName(t) = FullName(u) <=> t.group = u.group /\ t.name = u.name
  <2>1. t.group = u.group /\ t.name = u.name => FullName(t) = FullName(u)
    BY DEF FullName
  <2> QED BY <2>1, FullNameOnce
<1> QED
  BY <1>2, <1>3

-----------------------------------------------------------------------------
(* The registered tests *)

\* The characters of the names do not mean anything else.
Plain(t) ==
  IsTest(t) /\ \A m \in DOMAIN FullName(t) :
    FullName(t)[m] \notin {Space, Tab, Quote, Backslash, "*"} \cup Options \cup DOMAIN CodePoint
Registered(tests) == Tests(tests) /\ \A n \in DOMAIN tests : Plain(tests[n])

LEMMA RegistryIs ==
  ASSUME NEW tests \in Registries
  PROVE  Registered(tests)
BY InputAssumption, CharacterAssumption, Zenon DEF Registered, Tests, Plain

\* The same tests in another order
SameTests(s, tests) ==
  /\ \A n \in DOMAIN s : \E m \in DOMAIN tests : s[n] = tests[m]
  /\ \A m \in DOMAIN tests : \E n \in DOMAIN s : s[n] = tests[m]
  /\ \A m, n \in DOMAIN s : s[m] = s[n] => m = n

LEMMA SortedSame ==
  ASSUME NEW tests, Tests(tests), NEW s \in Sorted(ToSet(tests))
  PROVE  SameTests(s, tests)
<1> DEFINE S == ToSet(tests)
           C == Cardinality(S)
<1>1. IsFiniteSet(S)
  <2>1. DOMAIN tests = 1..Len(tests) /\ Len(tests) \in Nat
    BY SequenceIs DEF Tests
  <2>2. IsFiniteSet(1..Len(tests))
    BY <2>1, FS_Interval
  <2>3. tests \in Surjection(1..Len(tests), S)
    <3>1. tests \in [1..Len(tests) -> S]
      <4>1. tests = [m \in 1..Len(tests) |-> tests[m]]
        BY <2>1 DEF Tests, IsSeq
      <4>2. \A m \in 1..Len(tests) : tests[m] \in S
        BY <2>1 DEF ToSet
      <4> HIDE DEF S
      <4> QED BY <4>1, <4>2
    <3>2. \A x \in S : \E m \in 1..Len(tests) : tests[m] = x
      BY <2>1 DEF ToSet
    <3> HIDE DEF S
    <3> QED BY <3>1, <3>2 DEF Surjection
  <2> HIDE DEF S
  <2> QED BY <2>2, <2>3, FS_Surjection
<1>2. C \in Nat
  BY <1>1, FS_CardinalityType
<1>3. /\ s \in [1..C -> S] /\ \A m, n \in 1..C : m # n => s[m] # s[n]
  BY DEF Sorted, SetToSeqs
<1>4. \A x : x \in S <=> \E m \in DOMAIN tests : x = tests[m]
  BY DEF ToSet
<1> HIDE DEF S
<1>5. IsFiniteSet(1..C) /\ Cardinality(1..C) = C
  <2> HIDE DEF C
  <2>1. IsFiniteSet(1..C) /\ Cardinality(1..C) = IF 1 > C THEN 0 ELSE C - 1 + 1
    BY <1>2, FS_Interval
  <2> QED BY <1>2, <2>1
<1>6. s \in Injection(1..C, S)
  <2> HIDE DEF C
  <2>1. \A a, b \in DOMAIN s : s[a] = s[b] => a = b
    BY <1>3
  <2> QED BY <1>3, <2>1 DEF Injection, IsInjective
<1>7. s \in Surjection(1..C, S)
  BY <1>1, <1>5, <1>6, FS_Injection
<1> HIDE DEF C
<1>8. \A x \in S : \E n \in 1..C : s[n] = x
  BY <1>7 DEF Surjection
<1>9. DOMAIN s = 1..C
  BY <1>3
<1>10. \A n \in DOMAIN s : \E m \in DOMAIN tests : s[n] = tests[m]
  BY <1>3, <1>4, <1>9
<1>11. \A m \in DOMAIN tests : \E n \in DOMAIN s : s[n] = tests[m]
  BY <1>4, <1>8, <1>9
<1> QED
  BY <1>3, <1>9, <1>10, <1>11 DEF SameTests

\* check_duplicates() compares any two.
LEMMA DuplicatesAre ==
  ASSUME NEW tests, Tests(tests)
  PROVE  ~Duplicates(tests) <=>
           \A m, n \in DOMAIN tests :
             /\ Fold(tests[m].group) = Fold(tests[n].group)
             /\ Fold(tests[m].name) = Fold(tests[n].name)
             => m = n
<1>1. DOMAIN tests \subseteq Nat
  BY SequenceIs DEF Tests
<1> DEFINE Alike(m, n) == /\ Fold(tests[m].group) = Fold(tests[n].group)
                          /\ Fold(tests[m].name) = Fold(tests[n].name)
<1>2. \A m, n : Alike(m, n) <=> Alike(n, m)
  OBVIOUS
<1>3. Duplicates(tests) <=> \E m, n \in DOMAIN tests : m < n /\ Alike(m, n)
  BY Zenon DEF Duplicates
<1> HIDE DEF Alike
<1>4. ~Duplicates(tests) <=> \A m, n \in DOMAIN tests : Alike(m, n) => m = n
  BY <1>1, <1>2, <1>3
<1> QED
  BY <1>4 DEF Alike

LEMMA SortedKeeps ==
  ASSUME NEW tests, Registered(tests), NEW s \in Sorted(ToSet(tests))
  PROVE  Registered(s) /\ (Duplicates(s) => Duplicates(tests))
<1>1. Tests(tests) /\ \A n \in DOMAIN tests : Plain(tests[n])
  BY DEF Registered
<1>2. Tests(s) /\ SameTests(s, tests)
  BY <1>1, SortedIs, SortedSame
<1>3. \A n \in DOMAIN s : \E m \in DOMAIN tests : s[n] = tests[m]
  BY <1>2, Zenon DEF SameTests
<1>4. \A m, n \in DOMAIN s : s[m] = s[n] => m = n
  BY <1>2, Zenon DEF SameTests
<1>5. Registered(s)
  BY <1>1, <1>2, <1>3, Zenon DEF Registered
<1>6. ASSUME ~Duplicates(tests) PROVE ~Duplicates(s)
  <2>1. \A m, n \in DOMAIN tests :
          /\ Fold(tests[m].group) = Fold(tests[n].group)
          /\ Fold(tests[m].name) = Fold(tests[n].name)
          => m = n
    BY <1>1, <1>6, DuplicatesAre
  <2>2. \A m, n \in DOMAIN s :
          /\ Fold(s[m].group) = Fold(s[n].group)
          /\ Fold(s[m].name) = Fold(s[n].name)
          => m = n
    BY <1>3, <1>4, <2>1, Zenon
  <2> QED BY <1>2, <2>2, DuplicatesAre
<1> QED
  BY <1>5, <1>6

\* No two registered tests have the same group and name.
LEMMA NamesDiffer ==
  ASSUME NEW tests, Tests(tests), ~Duplicates(tests), NEW m \in DOMAIN tests, NEW n \in DOMAIN tests,
         tests[m].group = tests[n].group, tests[m].name = tests[n].name
  PROVE  m = n
BY DuplicatesAre, Zenon

LEMMA PlainNamed ==
  ASSUME NEW t, Plain(t)
  PROVE  \E S : Named(t, S)
<1> DEFINE name == FullName(t)
           S == {name[m] : m \in DOMAIN name}
<1>1. name \in Seq(S)
  <2>1. IsSeq(name)
    BY FullNameIs DEF Plain
  <2> QED BY <2>1 DEF IsSeq
<1>2. "*" \notin S
  <2>1. \A m \in DOMAIN name : name[m] # "*"
    BY DEF Plain
  <2> QED BY <2>1
<1> HIDE DEF S
<1> QED
  BY <1>1, <1>2 DEF Named

\* The full name of a test selects that test only.
LEMMA NameSelects ==
  ASSUME NEW t, Plain(t), NEW u, Plain(u)
  PROVE  Means(FullName(t), FullName(u)) <=> t.group = u.group /\ t.name = u.name
<1>1. PICK S : Named(t, S)
  BY PlainNamed
<1>2. PICK U : Named(u, U)
  BY PlainNamed
<1>3. IsTest(t) /\ IsTest(u)
  BY DEF Plain
<1> QED
  BY <1>1, <1>2, <1>3, NameFinds

-----------------------------------------------------------------------------
(* The arguments of a nested process *)

PathFields == {"outfile", "tracepath", "tempdir", "resource"}
Pointer(x) == x = <<>> \/ \E text : IsSeq(text) /\ x = <<text>>

Conf(c) ==
  /\ c = [f \in Fields |-> c[f]]
  /\ Patterns(c.list) /\ Patterns(c.ignore) /\ Patterns(c.args)
  /\ \A f \in PathFields : Pointer(c[f])
  /\ c.debug \in BOOLEAN /\ c.verbose \in BOOLEAN

\* What config_t::parse() leaves
Ready(c) == Conf(c) /\ c.mode \in Modes /\ \A f \in DOMAIN Default : c[f] # <<>>

\* The arguments in groups, and what is left of them from each group on
DebugOf(c) == IF c.debug THEN << <<"-d">> >> ELSE <<>>
VerboseOf(c) == << <<IF c.verbose THEN "-v" ELSE "-s">> >>
PathOf(c, o, f) == IF c[f] = <<>> THEN <<>> ELSE << <<o>> >> \o c[f]
ArgsOf(c) == IF c.args = <<>> THEN <<>> ELSE << <<"-a">> >> \o c.args

FromName(c, t) == <<FullName(t)>> \o ArgsOf(c)
FromResource(c, t) == PathOf(c, "-r", "resource") \o FromName(c, t)
FromTempdir(c, t) == PathOf(c, "-td", "tempdir") \o FromResource(c, t)
FromTracepath(c, t) == PathOf(c, "-t", "tracepath") \o FromTempdir(c, t)
FromOutfile(c, t) == PathOf(c, "-o", "outfile") \o FromTracepath(c, t)
FromVerbose(c, t) == VerboseOf(c) \o FromOutfile(c, t)
FromDebug(c, t) == DebugOf(c) \o FromVerbose(c, t)
FromFork(c, t) == << <<"-nf">> >> \o FromDebug(c, t)
FromSysinfo(c, t) == << <<"-nsi">> >> \o FromFork(c, t)
FromChild(c, t) == << <<"--run-as-nested-process">> >> \o FromSysinfo(c, t)
FromMode(c, t) == << <<c.mode>> >> \o FromChild(c, t)

\* The texts that may be among them
ArgTexts(c, t) ==
  {<<o>> : o \in Options \cup Modes} \cup {FullName(t)} \cup {c.args[n] : n \in DOMAIN c.args}
    \cup UNION {{c[f][n] : n \in DOMAIN c[f]} : f \in PathFields}

LEMMA Together ==
  ASSUME NEW T, NEW a \in Seq(T), NEW b \in Seq(T), NEW z, z = a \o b
  PROVE  z \in Seq(T)
BY ConcatProperties

Join(a, b) == a \o b

LEMMA JoinSeq ==
  ASSUME NEW T, NEW a \in Seq(T), NEW b \in Seq(T)
  PROVE  Join(a, b) \in Seq(T)
BY Together DEF Join

LEMMA JoinAssoc ==
  ASSUME NEW T, NEW a \in Seq(T), NEW b \in Seq(T), NEW c \in Seq(T)
  PROVE  Join(Join(a, b), c) = Join(a, Join(b, c))
<1>1. (a \o b) \o c = a \o (b \o c)
  BY ConcatAssociative
<1> QED
  BY <1>1 DEF Join

LEMMA ThreeTogether ==
  ASSUME NEW T, NEW a \in Seq(T), NEW b \in Seq(T), NEW c \in Seq(T),
         NEW d, d = Join(b, c), NEW e, e = Join(a, b)
  PROVE  Join(e, c) = Join(a, d) /\ d \in Seq(T) /\ e \in Seq(T)
BY JoinAssoc, JoinSeq

LEMMA FourTogether ==
  ASSUME NEW T, NEW a \in Seq(T), NEW b \in Seq(T), NEW c \in Seq(T), NEW d \in Seq(T),
         NEW e \in Seq(T)
  PROVE  Join(Join(Join(Join(a, b), c), d), e) = Join(a, Join(b, Join(c, Join(d, e))))
<1>1. PICK x : x = Join(a, b)
  OBVIOUS
<1>2. PICK y : y = Join(x, c)
  OBVIOUS
<1>3. PICK z : z = Join(y, d)
  OBVIOUS
<1>4. PICK u : u = Join(d, e)
  OBVIOUS
<1>5. PICK v : v = Join(c, u)
  OBVIOUS
<1>6. PICK w : w = Join(b, v)
  OBVIOUS
<1>7. x \in Seq(T) /\ u \in Seq(T)
  BY <1>1, <1>4, JoinSeq
<1>8. y \in Seq(T) /\ v \in Seq(T)
  BY <1>2, <1>5, <1>7, JoinSeq
<1>9. Join(z, e) = Join(y, u)
  BY <1>3, <1>4, <1>8, ThreeTogether
<1>10. Join(y, u) = Join(x, v)
  BY <1>2, <1>5, <1>7, ThreeTogether
<1>11. Join(x, v) = Join(a, w)
  BY <1>1, <1>6, <1>8, ThreeTogether
<1> QED
  BY <1>1, <1>2, <1>3, <1>4, <1>5, <1>6, <1>9, <1>10, <1>11, Zenon

LEMMA SixTogether ==
  ASSUME NEW T, NEW a \in Seq(T), NEW b \in Seq(T), NEW c \in Seq(T), NEW d \in Seq(T),
         NEW e \in Seq(T), NEW g \in Seq(T)
  PROVE  Join(Join(Join(Join(Join(a, b), c), d), e), g)
           = Join(a, Join(b, Join(c, Join(d, Join(e, g)))))
<1>1. PICK x : x = Join(a, b)
  OBVIOUS
<1>2. PICK y : y = Join(x, c)
  OBVIOUS
<1>3. PICK z : z = Join(y, d)
  OBVIOUS
<1>4. PICK u : u = Join(e, g)
  OBVIOUS
<1>5. x \in Seq(T) /\ u \in Seq(T)
  BY <1>1, <1>4, JoinSeq
<1>6. y \in Seq(T)
  BY <1>2, <1>5, JoinSeq
<1>7. z \in Seq(T)
  BY <1>3, <1>6, JoinSeq
<1>8. Join(Join(z, e), g) = Join(z, u)
  BY <1>4, <1>7, ThreeTogether
<1>9. Join(Join(Join(Join(a, b), c), d), u) = Join(a, Join(b, Join(c, Join(d, u))))
  BY <1>5, FourTogether
<1> QED
  BY <1>1, <1>2, <1>3, <1>4, <1>8, <1>9, Zenon

\* The four paths, one after the other
LEMMA PathsTogether ==
  ASSUME NEW T, NEW s, Len(s) = 4, NEW a, a = s[1], NEW b, b = s[2], NEW c, c = s[3], NEW d, d = s[4]
  PROVE  FlattenSeq(s) = Join(Join(Join(a, b), c), d)
<1>1. /\ FlattenSeq(s) = Flat(s)[4]
      /\ \A n \in 1..4 : Flat(s)[n] = FlatTo(Flat(s), s, n)
  <2>1. PICK N \in Nat : N = 4
    OBVIOUS
  <2>2. Len(s) = N /\ N # 0
    BY <2>1
  <2>3. FlattenSeq(s) = Flat(s)[N]
    BY <2>2, FlatIs
  <2>4. \A n \in 1..N : Flat(s)[n] = FlatTo(Flat(s), s, n)
    BY <2>2, FlatIs
  <2> QED BY <2>1, <2>3, <2>4
<1>2. /\ 1 \in 1..4 /\ 2 \in 1..4 /\ 3 \in 1..4 /\ 4 \in 1..4
      /\ 2 # 1 /\ 3 # 1 /\ 4 # 1 /\ 2 - 1 = 1 /\ 3 - 1 = 2 /\ 4 - 1 = 3
  OBVIOUS
<1>3. Flat(s)[1] = s[1]
  BY <1>1, <1>2, Zenon DEF FlatTo
<1>4. Flat(s)[2] = Flat(s)[1] \o s[2]
  BY <1>1, <1>2, Zenon DEF FlatTo
<1>5. Flat(s)[3] = Flat(s)[2] \o s[3]
  BY <1>1, <1>2, Zenon DEF FlatTo
<1>6. Flat(s)[4] = Flat(s)[3] \o s[4]
  BY <1>1, <1>2, Zenon DEF FlatTo
<1>7. FlattenSeq(s) = ((a \o b) \o c) \o d
  BY <1>1, <1>3, <1>4, <1>5, <1>6, Zenon
<1> QED
  BY <1>7 DEF Join

LEMMA Behind ==
  ASSUME NEW T, NEW x \in Seq(T), NEW d \in T, NEW z \in Seq(T), Len(z) = Len(x) + 1,
         z[Len(x) + 1] = d, \A n \in 1..Len(x) : z[n] = x[n]
  PROVE  Join(x, <<d>>) = z
<1>1. z = Append(x, d)
  <2>1. PICK y : y = Append(x, d)
    OBVIOUS
  <2>2. /\ y \in Seq(T) /\ Len(x) \in Nat /\ Len(y) = Len(x) + 1
        /\ y[Len(x) + 1] = d /\ \A n \in 1..Len(x) : y[n] = x[n]
    BY <2>1, Appended
  <2>3. \A n \in 1..Len(y) : n = Len(x) + 1 \/ n \in 1..Len(x)
    BY <2>2
  <2>4. \A n \in 1..Len(y) : y[n] = z[n]
    BY <2>2, <2>3, Zenon
  <2>5. y = z
    BY <2>2, <2>4, SameSeq
  <2> QED BY <2>1, <2>5
<1>2. Append(x, d) = x \o <<d>>
  BY AppendIsConcat
<1> QED
  BY <1>1, <1>2 DEF Join

LEMMA FourSeq ==
  ASSUME NEW a, NEW b, NEW c, NEW d
  PROVE  <<a, b, c, d>> = Join(Join(Join(<<a>>, <<b>>), <<c>>), <<d>>)
<1> DEFINE T == {a, b, c, d}
<1>0. a \in T /\ b \in T /\ c \in T /\ d \in T
  OBVIOUS
<1> HIDE DEF T
<1>1. Join(<<a>>, <<b>>) = <<a, b>>
  <2>1. PICK x : x = <<a>>
    OBVIOUS
  <2>2. PICK z : z = <<a, b>>
    OBVIOUS
  <2>3. /\ x \in Seq(T) /\ z \in Seq(T) /\ Len(z) = Len(x) + 1 /\ z[Len(x) + 1] = b
        /\ \A n \in 1..Len(x) : z[n] = x[n]
    BY <1>0, <2>1, <2>2
  <2> QED BY <1>0, <2>1, <2>2, <2>3, Behind
<1>2. Join(<<a, b>>, <<c>>) = <<a, b, c>>
  <2>1. PICK x : x = <<a, b>>
    OBVIOUS
  <2>2. PICK z : z = <<a, b, c>>
    OBVIOUS
  <2>3. /\ x \in Seq(T) /\ z \in Seq(T) /\ Len(z) = Len(x) + 1 /\ z[Len(x) + 1] = c
        /\ \A n \in 1..Len(x) : z[n] = x[n]
    BY <1>0, <2>1, <2>2
  <2> QED BY <1>0, <2>1, <2>2, <2>3, Behind
<1>3. Join(<<a, b, c>>, <<d>>) = <<a, b, c, d>>
  <2>1. PICK x : x = <<a, b, c>>
    OBVIOUS
  <2>2. PICK z : z = <<a, b, c, d>>
    OBVIOUS
  <2>3. /\ x \in Seq(T) /\ z \in Seq(T) /\ Len(z) = Len(x) + 1 /\ z[Len(x) + 1] = d
        /\ \A n \in 1..Len(x) : z[n] = x[n]
    BY <1>0, <2>1, <2>2
  <2> QED BY <1>0, <2>1, <2>2, <2>3, Behind
<1> QED
  BY <1>1, <1>2, <1>3

\* The same from the right
Groups(T, a, b, c, d, de, ve, po, pt, pd, pr, na, ar, h, fl, nm, rs, td, tr, ou, vb, db,
       fk, si, ch, md) ==
  /\ a \in Seq(T) /\ b \in Seq(T) /\ c \in Seq(T) /\ d \in Seq(T)
  /\ de \in Seq(T) /\ ve \in Seq(T)
  /\ po \in Seq(T) /\ pt \in Seq(T) /\ pd \in Seq(T) /\ pr \in Seq(T)
  /\ na \in Seq(T) /\ ar \in Seq(T)
  /\ h = Join(Join(Join(a, b), c), d) /\ fl = Join(Join(Join(po, pt), pd), pr)
  /\ nm = Join(na, ar) /\ rs = Join(pr, nm) /\ td = Join(pd, rs) /\ tr = Join(pt, td)
  /\ ou = Join(po, tr) /\ vb = Join(ve, ou) /\ db = Join(de, vb) /\ fk = Join(d, db)
  /\ si = Join(c, fk) /\ ch = Join(b, si) /\ md = Join(a, ch)

LEMMA Regrouped ==
  ASSUME NEW T, NEW a, NEW b, NEW c, NEW d, NEW de, NEW ve, NEW po, NEW pt, NEW pd, NEW pr,
         NEW na, NEW ar, NEW h, NEW fl, NEW nm, NEW rs, NEW td, NEW tr, NEW ou, NEW vb,
         NEW db, NEW fk, NEW si, NEW ch, NEW md,
         Groups(T, a, b, c, d, de, ve, po, pt, pd, pr, na, ar, h, fl, nm, rs, td, tr, ou, vb, db,
                fk, si, ch, md)
  PROVE  /\ Join(Join(Join(Join(Join(h, de), ve), fl), na), ar) = md
         /\ nm \in Seq(T) /\ rs \in Seq(T) /\ td \in Seq(T) /\ tr \in Seq(T) /\ ou \in Seq(T)
         /\ vb \in Seq(T) /\ db \in Seq(T) /\ fk \in Seq(T) /\ si \in Seq(T)
         /\ ch \in Seq(T) /\ md \in Seq(T)
<1>a. /\ a \in Seq(T) /\ b \in Seq(T) /\ c \in Seq(T) /\ d \in Seq(T)
      /\ de \in Seq(T) /\ ve \in Seq(T)
      /\ po \in Seq(T) /\ pt \in Seq(T) /\ pd \in Seq(T) /\ pr \in Seq(T)
      /\ na \in Seq(T) /\ ar \in Seq(T)
  BY Zenon DEF Groups
<1>b. h = Join(Join(Join(a, b), c), d) /\ fl = Join(Join(Join(po, pt), pd), pr)
  BY Zenon DEF Groups
<1>c. /\ nm = Join(na, ar) /\ rs = Join(pr, nm) /\ td = Join(pd, rs) /\ tr = Join(pt, td)
      /\ ou = Join(po, tr) /\ vb = Join(ve, ou) /\ db = Join(de, vb) /\ fk = Join(d, db)
      /\ si = Join(c, fk) /\ ch = Join(b, si) /\ md = Join(a, ch)
  BY Zenon DEF Groups
<1>1. nm \in Seq(T)
  BY <1>a, <1>c, JoinSeq
<1>2. rs \in Seq(T)
  BY <1>1, <1>a, <1>c, JoinSeq
<1>3. td \in Seq(T)
  BY <1>2, <1>a, <1>c, JoinSeq
<1>4. tr \in Seq(T)
  BY <1>3, <1>a, <1>c, JoinSeq
<1>5. ou \in Seq(T)
  BY <1>4, <1>a, <1>c, JoinSeq
<1>6. vb \in Seq(T)
  BY <1>5, <1>a, <1>c, JoinSeq
<1>7. db \in Seq(T)
  BY <1>6, <1>a, <1>c, JoinSeq
<1>8. fk \in Seq(T)
  BY <1>7, <1>a, <1>c, JoinSeq
<1>9. si \in Seq(T)
  BY <1>8, <1>a, <1>c, JoinSeq
<1>10. ch \in Seq(T)
  BY <1>9, <1>a, <1>c, JoinSeq
<1>11. md \in Seq(T)
  BY <1>10, <1>a, <1>c, JoinSeq
<1>12. PICK y : y = Join(po, pt)
  OBVIOUS
<1>13. PICK z : z = Join(y, pd)
  OBVIOUS
<1>14. y \in Seq(T)
  BY <1>12, <1>a, <1>c, JoinSeq
<1>15. z \in Seq(T)
  BY <1>13, <1>14, <1>a, <1>c, JoinSeq
<1>16. fl = Join(z, pr)
  BY <1>b, <1>12, <1>13, Zenon
<1>17. fl \in Seq(T)
  BY <1>15, <1>16, <1>a, <1>c, JoinSeq
<1>18. Join(fl, nm) = Join(z, rs)
  BY <1>1, <1>15, <1>16, <1>a, <1>c, ThreeTogether
<1>19. Join(z, rs) = Join(y, td)
  BY <1>2, <1>13, <1>14, <1>a, <1>c, ThreeTogether
<1>20. Join(y, td) = ou
  BY <1>3, <1>12, <1>a, <1>c, ThreeTogether
<1>21. Join(fl, nm) = ou
  BY <1>18, <1>19, <1>20, Zenon
<1>22. PICK u : u = Join(a, b)
  OBVIOUS
<1>23. PICK v : v = Join(u, c)
  OBVIOUS
<1>24. u \in Seq(T)
  BY <1>22, <1>a, <1>c, JoinSeq
<1>25. v \in Seq(T)
  BY <1>23, <1>24, <1>a, <1>c, JoinSeq
<1>26. h = Join(v, d)
  BY <1>b, <1>22, <1>23, Zenon
<1>27. h \in Seq(T)
  BY <1>25, <1>26, <1>a, <1>c, JoinSeq
<1>28. Join(h, db) = Join(v, fk)
  BY <1>7, <1>25, <1>26, <1>a, <1>c, ThreeTogether
<1>29. Join(v, fk) = Join(u, si)
  BY <1>8, <1>23, <1>24, <1>a, <1>c, ThreeTogether
<1>30. Join(u, si) = md
  BY <1>9, <1>22, <1>a, <1>c, ThreeTogether
<1>31. Join(h, db) = md
  BY <1>28, <1>29, <1>30, Zenon
<1>32. PICK o : o = Join(h, de)
  OBVIOUS
<1>33. PICK p : p = Join(o, ve)
  OBVIOUS
<1>34. PICK q : q = Join(p, fl)
  OBVIOUS
<1>35. o \in Seq(T)
  BY <1>27, <1>32, <1>a, <1>c, JoinSeq
<1>36. p \in Seq(T)
  BY <1>33, <1>35, <1>a, <1>c, JoinSeq
<1>37. q \in Seq(T)
  BY <1>17, <1>34, <1>36, <1>a, <1>c, JoinSeq
<1>38. Join(Join(q, na), ar) = Join(q, nm)
  BY <1>37, <1>a, <1>c, ThreeTogether
<1>39. Join(q, nm) = Join(p, ou)
  BY <1>1, <1>17, <1>21, <1>34, <1>36, <1>a, <1>c, ThreeTogether
<1>40. Join(p, ou) = Join(o, vb)
  BY <1>5, <1>33, <1>35, <1>a, <1>c, ThreeTogether
<1>41. Join(o, vb) = Join(h, db)
  BY <1>6, <1>27, <1>32, <1>a, <1>c, ThreeTogether
<1>42. Join(Join(Join(Join(Join(h, de), ve), fl), na), ar) = md
  BY <1>31, <1>32, <1>33, <1>34, <1>38, <1>39, <1>40, <1>41, Zenon
<1> QED
  BY <1>1, <1>2, <1>3, <1>4, <1>5, <1>6, <1>7, <1>8, <1>9, <1>10, <1>11, <1>42

\* What may be an argument
LEMMA PointerTyped ==
  ASSUME NEW T, NEW x, Pointer(x), \A n \in DOMAIN x : x[n] \in T
  PROVE  x \in Seq(T)
<1>1. CASE x = <<>>
  BY <1>1
<1>2. CASE x # <<>>
  <2>1. PICK text : x = <<text>>
    BY <1>2 DEF Pointer
  <2>2. x[1] \in T
    BY <2>1
  <2> QED BY <2>1, <2>2
<1> QED
  BY <1>1, <1>2

LEMMA PatternsTyped ==
  ASSUME NEW T, NEW x, Patterns(x), \A n \in DOMAIN x : x[n] \in T
  PROVE  x \in Seq(T)
<1>1. DOMAIN x = 1..Len(x) /\ IsSeq(x)
  BY SequenceIs DEF Patterns
<1> QED
  BY <1>1, SeqIn

LEMMA PathTyped ==
  ASSUME NEW T, NEW c, NEW o, <<o>> \in T, NEW f, Pointer(c[f]), \A n \in DOMAIN c[f] : c[f][n] \in T
  PROVE  PathOf(c, o, f) \in Seq(T)
<1>1. << <<o>> >> \in Seq(T)
  BY OneSeq
<1>2. c[f] \in Seq(T)
  BY PointerTyped
<1>3. << <<o>> >> \o c[f] \in Seq(T)
  BY <1>1, <1>2, Together
<1>4. <<>> \in Seq(T)
  OBVIOUS
<1> QED
  BY <1>3, <1>4 DEF PathOf

\* The arguments of a nested process, group by group
Grouped(T, c, t) ==
  /\ NestedArgs(c, t) = FromMode(c, t)
  /\ ArgsOf(c) \in Seq(T) /\ FromName(c, t) \in Seq(T) /\ FromResource(c, t) \in Seq(T)
  /\ FromTempdir(c, t) \in Seq(T) /\ FromTracepath(c, t) \in Seq(T)
  /\ FromOutfile(c, t) \in Seq(T) /\ FromVerbose(c, t) \in Seq(T) /\ FromDebug(c, t) \in Seq(T)
  /\ FromFork(c, t) \in Seq(T) /\ FromSysinfo(c, t) \in Seq(T) /\ FromChild(c, t) \in Seq(T)
  /\ FromMode(c, t) \in Seq(T)

LEMMA OptionsAre ==
  /\ {"-nf", "-nsi", "-d", "-v", "-s", "-a", "-o", "-t", "-td", "-r",
      "--run-as-nested-process"} \subseteq Options
  /\ Modes = {"utest", "ptest", "mtest"}
<1>1. {<<"-nf", "fork", FALSE>>, <<"-v", "verbose", TRUE>>, <<"-s", "verbose", FALSE>>,
       <<"-nsi", "sysinfo", FALSE>>, <<"-d", "debug", TRUE>>,
       <<"--run-as-nested-process", "is_child", TRUE>>} \subseteq Flags
  BY Zenon DEF Flags
<1>2. {<<"-t", "tracepath">>, <<"-td", "tempdir">>, <<"-r", "resource">>, <<"-o", "outfile">>} = Paths
  BY Zenon DEF Paths
<1>3. \A f \in Flags \cup Paths : f[1] \in Options
  BY Zenon DEF Options
<1>4. "-a" \in Options
  BY Zenon DEF Options
<1> HIDE DEF Options
<1>5. /\ "-nf" \in Options /\ "-v" \in Options /\ "-s" \in Options /\ "-nsi" \in Options
      /\ "-d" \in Options /\ "--run-as-nested-process" \in Options
  BY <1>1, <1>3
<1>6. "-t" \in Options /\ "-td" \in Options /\ "-r" \in Options /\ "-o" \in Options
  <2>1. ASSUME NEW x, NEW y, <<x, y>> \in Paths PROVE x \in Options
    <3>1. <<x, y>>[1] = x
      OBVIOUS
    <3>2. <<x, y>>[1] \in Options
      BY <1>3, <2>1
    <3> QED BY <3>1, <3>2
  <2>2. /\ <<"-t", "tracepath">> \in Paths /\ <<"-td", "tempdir">> \in Paths
        /\ <<"-r", "resource">> \in Paths /\ <<"-o", "outfile">> \in Paths
    BY Zenon DEF Paths
  <2> QED BY <2>1, <2>2, Zenon
<1> QED
  BY <1>4, <1>5, <1>6 DEF Modes

LEMMA ArgTextsAre ==
  ASSUME NEW c, NEW t, NEW T, T = ArgTexts(c, t)
  PROVE  /\ \A o \in Options \cup Modes : <<o>> \in T
         /\ FullName(t) \in T
         /\ \A n \in DOMAIN c.args : c.args[n] \in T
         /\ \A f \in PathFields : \A n \in DOMAIN c[f] : c[f][n] \in T
<1>1. \A o \in Options \cup Modes : <<o>> \in T
  BY Zenon DEF ArgTexts
<1>2. FullName(t) \in T
  BY Zenon DEF ArgTexts
<1>3. \A n \in DOMAIN c.args : c.args[n] \in T
  BY Zenon DEF ArgTexts
<1>4. \A f \in PathFields : \A n \in DOMAIN c[f] : c[f][n] \in T
  <2> SUFFICES ASSUME NEW f \in PathFields, NEW n \in DOMAIN c[f] PROVE c[f][n] \in T
    OBVIOUS
  <2>1. c[f][n] \in UNION {{c[g][m] : m \in DOMAIN c[g]} : g \in PathFields}
    OBVIOUS
  <2> QED BY <2>1, Zenon DEF ArgTexts
<1> QED
  BY <1>1, <1>2, <1>3, <1>4

PathTexts(c) ==
  [n \in 1..4 |->
     LET f == << <<"-o", "outfile">>, <<"-t", "tracepath">>,
                 <<"-td", "tempdir">>, <<"-r", "resource">> >>[n] IN
     IF c[f[2]] = <<>> THEN <<>> ELSE << <<f[1]>> >> \o c[f[2]]]

LEMMA ArgsAre ==
  ASSUME NEW c, NEW t
  PROVE  NestedArgs(c, t)
           = Join(Join(Join(Join(Join(
               << <<c.mode>>, <<"--run-as-nested-process">>, <<"-nsi">>, <<"-nf">> >>,
               DebugOf(c)), VerboseOf(c)), FlattenSeq(PathTexts(c))), <<FullName(t)>>),
               ArgsOf(c))
BY DEF NestedArgs, Join, DebugOf, VerboseOf, PathTexts, ArgsOf

LEMMA PathsAre ==
  ASSUME NEW c
  PROVE  FlattenSeq(PathTexts(c))
           = Join(Join(Join(PathOf(c, "-o", "outfile"), PathOf(c, "-t", "tracepath")),
                       PathOf(c, "-td", "tempdir")), PathOf(c, "-r", "resource"))
<1> DEFINE s == PathTexts(c)
<1>1. /\ s[1] = PathOf(c, "-o", "outfile") /\ s[2] = PathOf(c, "-t", "tracepath")
      /\ s[3] = PathOf(c, "-td", "tempdir") /\ s[4] = PathOf(c, "-r", "resource")
  BY DEF PathTexts, PathOf
<1>2. Len(s) = 4
  BY DEF PathTexts
<1> HIDE DEF s
<1>3. PICK u : u = s[1]
  OBVIOUS
<1>4. PICK v : v = s[2]
  OBVIOUS
<1>5. PICK w : w = s[3]
  OBVIOUS
<1>6. PICK x : x = s[4]
  OBVIOUS
<1>7. FlattenSeq(s) = Join(Join(Join(u, v), w), x)
  BY <1>2, <1>3, <1>4, <1>5, <1>6, PathsTogether
<1> QED
  BY <1>1, <1>3, <1>4, <1>5, <1>6, <1>7, Zenon DEF s

LEMMA GroupedIs ==
  ASSUME NEW c, Ready(c), NEW t, NEW T, T = ArgTexts(c, t)
  PROVE  Grouped(T, c, t)
<1>1. /\ \A o \in Options \cup Modes : <<o>> \in T
      /\ FullName(t) \in T
      /\ \A n \in DOMAIN c.args : c.args[n] \in T
      /\ \A f \in PathFields : \A n \in DOMAIN c[f] : c[f][n] \in T
  BY ArgTextsAre
<1>2. /\ Patterns(c.args) /\ c.mode \in Modes
      /\ Pointer(c["outfile"]) /\ Pointer(c["tracepath"]) /\ Pointer(c["tempdir"])
      /\ Pointer(c["resource"])
  BY DEF Ready, Conf, PathFields
<1>3. /\ <<"-nf">> \in T /\ <<"-nsi">> \in T /\ <<"-d">> \in T /\ <<"-v">> \in T /\ <<"-s">> \in T
      /\ <<"-a">> \in T /\ <<"-o">> \in T /\ <<"-t">> \in T /\ <<"-td">> \in T /\ <<"-r">> \in T
      /\ <<"--run-as-nested-process">> \in T /\ <<c.mode>> \in T
  BY <1>1, <1>2, OptionsAre
<1>4. /\ \A n \in DOMAIN c["outfile"] : c["outfile"][n] \in T
      /\ \A n \in DOMAIN c["tracepath"] : c["tracepath"][n] \in T
      /\ \A n \in DOMAIN c["tempdir"] : c["tempdir"][n] \in T
      /\ \A n \in DOMAIN c["resource"] : c["resource"][n] \in T
  BY <1>1 DEF PathFields
<1>5. PICK po \in Seq(T) : po = PathOf(c, "-o", "outfile")
  BY <1>2, <1>3, <1>4, PathTyped
<1>6. PICK pt \in Seq(T) : pt = PathOf(c, "-t", "tracepath")
  BY <1>2, <1>3, <1>4, PathTyped
<1>7. PICK pd \in Seq(T) : pd = PathOf(c, "-td", "tempdir")
  BY <1>2, <1>3, <1>4, PathTyped
<1>8. PICK pr \in Seq(T) : pr = PathOf(c, "-r", "resource")
  BY <1>2, <1>3, <1>4, PathTyped
<1>9. PICK ar \in Seq(T) : ar = ArgsOf(c)
  <2>1. c.args \in Seq(T)
    BY <1>1, <1>2, PatternsTyped
  <2>2. << <<"-a">> >> \in Seq(T)
    BY <1>3, OneSeq
  <2>3. << <<"-a">> >> \o c.args \in Seq(T)
    BY <2>1, <2>2, Together
  <2>4. <<>> \in Seq(T)
    OBVIOUS
  <2> QED BY <2>3, <2>4 DEF ArgsOf
<1>10. PICK ve \in Seq(T) : ve = VerboseOf(c)
  <2>1. << <<"-v">> >> \in Seq(T) /\ << <<"-s">> >> \in Seq(T)
    BY <1>3, OneSeq
  <2>2. VerboseOf(c) = << <<"-v">> >> \/ VerboseOf(c) = << <<"-s">> >>
    BY Zenon DEF VerboseOf
  <2> QED BY <2>1, <2>2
<1>11. PICK de \in Seq(T) : de = DebugOf(c)
  <2>1. << <<"-d">> >> \in Seq(T) /\ <<>> \in Seq(T)
    BY <1>3, OneSeq
  <2> QED BY <2>1 DEF DebugOf
<1>12. PICK na \in Seq(T) : na = <<FullName(t)>>
  BY <1>1, OneSeq
<1>13. PICK a \in Seq(T) : a = << <<c.mode>> >>
  BY <1>3, OneSeq
<1>14. PICK b \in Seq(T) : b = << <<"--run-as-nested-process">> >>
  BY <1>3, OneSeq
<1>15. PICK d \in Seq(T) : d = << <<"-nsi">> >>
  BY <1>3, OneSeq
<1>16. PICK e \in Seq(T) : e = << <<"-nf">> >>
  BY <1>3, OneSeq
<1>17. PICK h : h = << <<c.mode>>, <<"--run-as-nested-process">>, <<"-nsi">>, <<"-nf">> >>
  OBVIOUS
<1>18. h = Join(Join(Join(a, b), d), e)
  <2>1. ASSUME NEW w, NEW x, NEW y, NEW z, a = <<w>>, b = <<x>>, d = <<y>>, e = <<z>>,
               h = <<w, x, y, z>>
        PROVE  h = Join(Join(Join(a, b), d), e)
    <3>1. <<w, x, y, z>> = Join(Join(Join(<<w>>, <<x>>), <<y>>), <<z>>)
      BY FourSeq
    <3> QED BY <2>1, <3>1, Zenon
  <2> QED BY <1>13, <1>14, <1>15, <1>16, <1>17, <2>1
<1>19. PICK fl : fl = FlattenSeq(PathTexts(c))
  OBVIOUS
<1>20. fl = Join(Join(Join(po, pt), pd), pr)
  BY <1>5, <1>6, <1>7, <1>8, <1>19, PathsAre
<1>21. PICK nm : nm = Join(na, ar)
  OBVIOUS
<1>22. PICK rs : rs = Join(pr, nm)
  OBVIOUS
<1>23. PICK td : td = Join(pd, rs)
  OBVIOUS
<1>24. PICK tr : tr = Join(pt, td)
  OBVIOUS
<1>25. PICK ou : ou = Join(po, tr)
  OBVIOUS
<1>26. PICK vb : vb = Join(ve, ou)
  OBVIOUS
<1>27. PICK db : db = Join(de, vb)
  OBVIOUS
<1>28. PICK fk : fk = Join(e, db)
  OBVIOUS
<1>29. PICK si : si = Join(d, fk)
  OBVIOUS
<1>30. PICK ch : ch = Join(b, si)
  OBVIOUS
<1>31. PICK md : md = Join(a, ch)
  OBVIOUS
<1>a. Groups(T, a, b, d, e, de, ve, po, pt, pd, pr, na, ar, h, fl, nm, rs, td, tr, ou, vb,
             db, fk, si, ch, md)
  BY <1>18, <1>20, <1>21, <1>22, <1>23, <1>24, <1>25, <1>26, <1>27, <1>28, <1>29, <1>30,
    <1>31, Zenon DEF Groups
<1>32. /\ Join(Join(Join(Join(Join(h, de), ve), fl), na), ar) = md
       /\ nm \in Seq(T) /\ rs \in Seq(T) /\ td \in Seq(T) /\ tr \in Seq(T) /\ ou \in Seq(T)
       /\ vb \in Seq(T) /\ db \in Seq(T) /\ fk \in Seq(T) /\ si \in Seq(T)
       /\ ch \in Seq(T) /\ md \in Seq(T)
  BY <1>a, Regrouped
<1>36. NestedArgs(c, t) = md
  BY <1>9, <1>10, <1>11, <1>12, <1>17, <1>19, <1>32, ArgsAre, Zenon
<1>37. FromName(c, t) = nm
  BY <1>9, <1>12, <1>21 DEF FromName, Join
<1>38. FromResource(c, t) = rs
  BY <1>8, <1>22, <1>37 DEF FromResource, Join
<1>39. FromTempdir(c, t) = td
  BY <1>7, <1>23, <1>38 DEF FromTempdir, Join
<1>40. FromTracepath(c, t) = tr
  BY <1>6, <1>24, <1>39 DEF FromTracepath, Join
<1>41. FromOutfile(c, t) = ou
  BY <1>5, <1>25, <1>40 DEF FromOutfile, Join
<1>42. FromVerbose(c, t) = vb
  BY <1>10, <1>26, <1>41 DEF FromVerbose, Join
<1>43. FromDebug(c, t) = db
  BY <1>11, <1>27, <1>42 DEF FromDebug, Join
<1>44. FromFork(c, t) = fk
  BY <1>16, <1>28, <1>43 DEF FromFork, Join
<1>45. FromSysinfo(c, t) = si
  BY <1>15, <1>29, <1>44 DEF FromSysinfo, Join
<1>46. FromChild(c, t) = ch
  BY <1>14, <1>30, <1>45 DEF FromChild, Join
<1>47. FromMode(c, t) = md
  BY <1>13, <1>31, <1>46 DEF FromMode, Join
<1> QED
  BY <1>9, <1>32, <1>36, <1>37, <1>38, <1>39, <1>40, <1>41, <1>42, <1>43, <1>44, <1>45, <1>46,
    <1>47, Zenon DEF Grouped

-----------------------------------------------------------------------------
(* Any command line is read as a sequence of texts. *)

Reads(S, s) ==
  \E args \in Seq(Seq(S)), text \in Seq(S), open \in BOOLEAN, quotes \in Nat, slashes \in Nat,
     after \in BOOLEAN : s = At6(args, text, open, quotes, slashes, after)

LEMMA ReadsIs ==
  ASSUME NEW S, NEW args \in Seq(Seq(S)), NEW text \in Seq(S), NEW open \in BOOLEAN,
         NEW quotes \in Nat, NEW slashes \in Nat, NEW after \in BOOLEAN,
         NEW s, s = At6(args, text, open, quotes, slashes, after)
  PROVE  Reads(S, s)
BY DEF Reads

LEMMA CutIsText ==
  ASSUME NEW S, NEW text \in Seq(S), NEW n \in Nat
  PROVE  SubSeq(text, 1, Len(text) - n) \in Seq(S)
<1>1. PICK m \in Int : m = Len(text) - n
  OBVIOUS
<1>2. m <= Len(text) /\ Len(text) \in Nat
  BY <1>1
<1>3. \A j \in 1..m : text[j] \in S
  BY <1>2
<1> QED
  BY <1>1, <1>3, SubSeqProperties

\* A blank ends the argument, or belongs to it.
Blank(args, text, open, quotes, slashes, after, c, u, zero) ==
  \/ Goes(At6(args, text, open, quotes, slashes, after), c, Fresh(u))
  \/ Goes(At6(args, text, open, quotes, slashes, after), c,
          At6(args, Append(text, c), TRUE, quotes, zero, FALSE))

LEMMA ScanBlank ==
  ASSUME NEW args, NEW text, NEW open, NEW quotes \in Nat, NEW slashes \in Nat,
         NEW after \in BOOLEAN, NEW c \in {Space, Tab},
         NEW zero, zero = 0, NEW u, u = IF open THEN Append(args, text) ELSE args
  PROVE  Blank(args, text, open, quotes, slashes, after, c, u, zero)
<1>1. c # Quote /\ c # Backslash
  BY Characters
<1>2. CASE quotes = 0 \/ (quotes = 2 /\ after)
  BY <1>1, <1>2 DEF Blank, Goes, Scan, At6, Fresh
<1>3. CASE quotes # 0 /\ ~(quotes = 2 /\ after)
  BY <1>1, <1>3 DEF Blank, Goes, Scan, At6
<1> QED
  BY <1>2, <1>3

LEMMA ScanThird ==
  ASSUME NEW args, NEW text, NEW open, NEW two, two = 2, NEW slashes \in Nat,
         NEW yes, yes = TRUE, NEW zero, zero = 0
  PROVE  Goes(At6(args, text, open, two, slashes, yes), Quote,
              At6(args, Append(text, Quote), TRUE, zero, zero, TRUE))
BY Characters DEF Goes, Scan, At6

LEMMA ScanSecond ==
  ASSUME NEW args, NEW text, NEW open, NEW quotes \in Nat, quotes # 2, NEW slashes \in Nat,
         NEW yes, yes = TRUE, NEW zero, zero = 0, NEW more, more = quotes + 1
  PROVE  Goes(At6(args, text, open, quotes, slashes, yes), Quote,
              At6(args, text, TRUE, more, zero, TRUE))
BY Characters DEF Goes, Scan, At6

LEMMA ScanEven ==
  ASSUME NEW args, NEW text, NEW open, NEW quotes, NEW slashes,
         slashes % 2 = 0, NEW cut, cut = SubSeq(text, 1, Len(text) - (slashes \div 2)),
         NEW no, no = FALSE, NEW zero, zero = 0, NEW more, more = quotes + 1
  PROVE  Goes(At6(args, text, open, quotes, slashes, no), Quote,
              At6(args, cut, TRUE, more, zero, TRUE))
<1> DEFINE s == At6(args, text, open, quotes, slashes, no)
<1>1. /\ s.args = args /\ s.text = text /\ s.quotes = quotes
      /\ s.slashes = slashes /\ s.after = FALSE
  BY DEF At6
<1>2. SubSeq(s.text, 1, Len(s.text) - (s.slashes \div 2)) = cut
  BY <1>1
<1>3. s.slashes % 2 = 0 /\ s.quotes + 1 = more
  BY <1>1
<1> HIDE DEF s
<1>4. Scan(s, Quote) = [args |-> args, text |-> cut, open |-> TRUE, quotes |-> more,
                      slashes |-> 0, after |-> (Quote = Quote)]
  BY <1>1, <1>2, <1>3, Characters DEF Scan
<1>5. Scan(s, Quote) = At6(args, cut, TRUE, more, zero, Quote = Quote)
  BY <1>4 DEF At6
<1>6. (Quote = Quote) = TRUE
  OBVIOUS
<1>7. At6(args, cut, TRUE, more, zero, Quote = Quote) = At6(args, cut, TRUE, more, zero, TRUE)
  BY <1>6
<1> QED
  BY <1>5, <1>7 DEF Goes, s

LEMMA ScanOdd ==
  ASSUME NEW args, NEW text, NEW open, NEW quotes, NEW slashes,
         slashes % 2 = 1, slashes % 2 # 0,
         NEW cut, cut = SubSeq(text, 1, Len(text) - (slashes \div 2 + 1)),
         NEW no, no = FALSE, NEW zero, zero = 0
  PROVE  Goes(At6(args, text, open, quotes, slashes, no), Quote,
              At6(args, Append(cut, Quote), TRUE, quotes, zero, TRUE))
BY Characters, ZenonT(60) DEF Goes, Scan, At6

LEMMA ScanReads ==
  ASSUME NEW S, NEW s, Reads(S, s), NEW c \in S, NEW r, r = Scan(s, c)
  PROVE  Reads(S, r)
<1>1. PICK args \in Seq(Seq(S)), text \in Seq(S), open \in BOOLEAN, quotes \in Nat,
            slashes \in Nat, after \in BOOLEAN :
        s = At6(args, text, open, quotes, slashes, after)
  BY Zenon DEF Reads
<1>2. \A u : Goes(At6(args, text, open, quotes, slashes, after), c, u) => r = u
  BY <1>1 DEF Goes
<1>3. PICK q \in Nat : q = IF quotes = 2 /\ after THEN 0 ELSE quotes
  OBVIOUS
<1>4. PICK put \in Seq(S) : put = Append(text, c)
  BY Appended
<1>5. PICK more \in Nat : more = slashes + 1
  OBVIOUS
<1>6. PICK most \in Nat : most = quotes + 1
  OBVIOUS
<1>7. /\ <<>> \in Seq(S) /\ TRUE \in BOOLEAN /\ FALSE \in BOOLEAN /\ 0 \in Nat
  OBVIOUS
<1>8. CASE c \notin {Space, Tab, Quote, Backslash}
  <2>1. r = At6(args, put, TRUE, q, 0, FALSE)
    BY <1>2, <1>3, <1>4, <1>8, ScanOther
  <2> QED BY <1>7, <2>1, ReadsIs, Zenon
<1>9. CASE c = Backslash
  <2>a. Goes(At6(args, text, open, quotes, slashes, after), Backslash,
             At6(args, Append(text, Backslash), TRUE, q, more, FALSE))
    BY <1>3, <1>5, ScanBackslash
  <2>1. r = At6(args, put, TRUE, q, more, FALSE)
    BY <1>2, <1>4, <1>9, <2>a
  <2> QED BY <1>7, <2>1, ReadsIs, Zenon
<1>10. CASE c \in {Space, Tab}
  <2>1. PICK u \in Seq(Seq(S)) : u = IF open THEN Append(args, text) ELSE args
    <3>1. Append(args, text) \in Seq(Seq(S))
      BY Appended
    <3> QED BY <3>1
  <2>2. PICK zero \in Nat : zero = 0
    OBVIOUS
  <2>a. Blank(args, text, open, quotes, slashes, after, c, u, zero)
    BY <1>10, <2>1, <2>2, ScanBlank
  <2>b. r = Fresh(u) \/ r = At6(args, put, TRUE, quotes, zero, FALSE)
    BY <1>2, <1>4, <2>a, Zenon DEF Blank
  <2>3. r = At6(u, <<>>, FALSE, 0, 0, FALSE) \/ r = At6(args, put, TRUE, quotes, zero, FALSE)
    BY <2>b, FreshIs
  <2> QED BY <1>7, <2>3, ReadsIs, Zenon
<1>z. PICK zero \in Nat : zero = 0
  OBVIOUS
<1>11. CASE c = Quote /\ after = TRUE /\ quotes = 2
  <2>1. Goes(At6(args, text, open, quotes, slashes, after), Quote,
             At6(args, Append(text, Quote), TRUE, zero, zero, TRUE))
    BY <1>11, <1>z, ScanThird
  <2>2. r = At6(args, put, TRUE, zero, zero, TRUE)
    BY <1>2, <1>4, <1>11, <2>1
  <2> QED BY <1>7, <2>2, ReadsIs, Zenon
<1>14. CASE c = Quote /\ after = TRUE /\ quotes # 2
  <2>1. Goes(At6(args, text, open, quotes, slashes, after), Quote,
             At6(args, text, TRUE, most, zero, TRUE))
    BY <1>6, <1>14, <1>z, ScanSecond
  <2>2. r = At6(args, text, TRUE, most, zero, TRUE)
    BY <1>2, <1>14, <2>1
  <2> QED BY <1>7, <2>2, ReadsIs, Zenon
<1>12. CASE c = Quote /\ after = FALSE /\ slashes % 2 = 0
  <2>1. PICK n \in Nat : n = slashes \div 2
    OBVIOUS
  <2>2. PICK cut \in Seq(S) : cut = SubSeq(text, 1, Len(text) - n)
    BY CutIsText
  <2>3. cut = SubSeq(text, 1, Len(text) - (slashes \div 2))
    BY <2>1, <2>2
  <2>4. Goes(At6(args, text, open, quotes, slashes, after), Quote,
             At6(args, cut, TRUE, most, zero, TRUE))
    BY <1>6, <1>12, <1>z, <2>3, ScanEven
  <2>5. r = At6(args, cut, TRUE, most, zero, TRUE)
    BY <1>2, <1>12, <2>4
  <2> QED BY <1>7, <2>5, ReadsIs, Zenon
<1>13. CASE c = Quote /\ after = FALSE /\ slashes % 2 # 0
  <2>1. PICK n \in Nat : n = slashes \div 2 + 1
    OBVIOUS
  <2>2. PICK cut \in Seq(S) : cut = SubSeq(text, 1, Len(text) - n)
    BY CutIsText
  <2>3. PICK u \in Seq(S) : u = Append(cut, Quote)
    BY <1>13, Appended
  <2>4. slashes % 2 = 1 /\ cut = SubSeq(text, 1, Len(text) - (slashes \div 2 + 1))
    BY <1>13, <2>1, <2>2
  <2>5. Goes(At6(args, text, open, quotes, slashes, after), Quote,
             At6(args, Append(cut, Quote), TRUE, quotes, zero, TRUE))
    BY <1>13, <1>z, <2>4, ScanOdd
  <2>6. r = At6(args, u, TRUE, quotes, zero, TRUE)
    BY <1>2, <1>13, <2>3, <2>5
  <2> QED BY <1>7, <2>6, ReadsIs, Zenon
<1> QED
  BY <1>8, <1>9, <1>10, <1>11, <1>12, <1>13, <1>14

LEMMA LineReads ==
  ASSUME NEW S, NEW line \in Seq(S)
  PROVE  ArgvOf(line) \in Seq(Seq(S))
<1>1. PICK L \in Nat : L = Len(line)
  OBVIOUS
<1>2. PICK e : e = ProgramEnd(line)
  OBVIOUS
<1>3. PICK f : f = Scanned(line)
  OBVIOUS
<1>4. /\ e \in 0..L /\ f[e] = Fresh(<<>>)
      /\ \A n \in (e + 1)..L : f[n] = Scan(f[n - 1], line[n])
      /\ ArgvOf(line) = IF f[L].open THEN Append(f[L].args, f[L].text) ELSE f[L].args
  BY <1>1, <1>2, <1>3, ScanIs
<1> DEFINE T == {n \in e..L : ~Reads(S, f[n])}
<1>5. Reads(S, f[e])
  <2>1. <<>> \in Seq(S) /\ <<>> \in Seq(Seq(S)) /\ FALSE \in BOOLEAN /\ 0 \in Nat
    OBVIOUS
  <2>2. Fresh(<<>>) = At6(<<>>, <<>>, FALSE, 0, 0, FALSE)
    BY FreshIs
  <2> QED BY <1>4, <2>1, <2>2, Zenon DEF Reads
<1>6. ASSUME T # {} PROVE FALSE
  <2>1. T \in SUBSET Nat
    BY <1>4
  <2>2. PICK m \in T : \A j \in T : m <= j
    BY <1>6, <2>1, LeastOf
  <2>3. m \in e..L /\ ~Reads(S, f[m])
    BY <2>2
  <2>4. m \in (e + 1)..L /\ m - 1 \in e..L /\ ~(m <= m - 1) /\ m \in 1..L
    BY <1>4, <1>5, <2>3
  <2>5. Reads(S, f[m - 1])
    BY <2>2, <2>4
  <2>6. line[m] \in S /\ f[m] = Scan(f[m - 1], line[m])
    BY <1>1, <1>4, <2>4
  <2>7. Reads(S, f[m])
    BY <2>5, <2>6, ScanReads
  <2> QED BY <2>3, <2>7
<1>7. Reads(S, f[L])
  <2>1. L \in e..L
    BY <1>4
  <2> QED BY <1>6, <2>1
<1>8. PICK args \in Seq(Seq(S)), text \in Seq(S), open \in BOOLEAN,
       quotes \in Nat, slashes \in Nat, after \in BOOLEAN :
        f[L] = At6(args, text, open, quotes, slashes, after)
  BY <1>7, Zenon DEF Reads
<1>9. f[L].args = args /\ f[L].text = text
  BY <1>8 DEF At6
<1>10. Append(args, text) \in Seq(Seq(S))
  BY Appended
<1> QED
  BY <1>4, <1>9, <1>10

-----------------------------------------------------------------------------
(* The arguments of a nested process arrive *)

\* An argument before others
LEMMA InFront ==
  ASSUME NEW T, NEW x \in T, NEW rest \in Seq(T), NEW z, z = Join(<<x>>, rest)
  PROVE  /\ z \in Seq(T) /\ Len(rest) \in Nat /\ Len(z) = Len(rest) + 1 /\ z[1] = x
         /\ \A n \in 1..Len(rest) : z[n + 1] = rest[n]
<1>1. PICK a \in Seq(T) : a = <<x>>
  BY OneSeq
<1>2. Len(a) = 1 /\ a[1] = x
  BY <1>1
<1>3. z = a \o rest
  BY <1>1 DEF Join
<1>4. /\ z \in Seq(T) /\ Len(z) = Len(a) + Len(rest)
      /\ \A n \in 1..Len(a) + Len(rest) : z[n] = IF n <= Len(a) THEN a[n] ELSE rest[n - Len(a)]
  BY <1>3, ConcatProperties
<1>5. Len(rest) \in Nat
  BY LenProperties
<1>6. ASSUME NEW n \in 1..Len(rest) PROVE z[n + 1] = rest[n]
  BY <1>2, <1>4, <1>5
<1>7. 1 \in 1..Len(a) + Len(rest) /\ Len(z) = Len(rest) + 1
  BY <1>2, <1>4, <1>5
<1>8. z[1] = x
  BY <1>2, <1>4, <1>7
<1> QED
  BY <1>4, <1>5, <1>6, <1>7, <1>8, Zenon

\* What they are made of
LEMMA TextIs ==
  ASSUME NEW c, Ready(c), NEW t, IsTest(t), NEW x \in ArgTexts(c, t)
  PROVE  IsSeq(x)
<1>1. CASE \E o \in Options \cup Modes : x = <<o>>
  <2>1. PICK o : x = <<o>>
    BY <1>1
  <2>2. x \in Seq({o})
    BY <2>1, OneSeq
  <2> QED BY <2>2, IsSeqOf
<1>2. CASE x = FullName(t)
  BY <1>2, FullNameIs
<1>3. CASE \E n \in DOMAIN c.args : x = c.args[n]
  BY <1>3, Zenon DEF Ready, Conf, Patterns
<1>4. CASE \E f \in PathFields : \E n \in DOMAIN c[f] : x = c[f][n]
  <2>1. PICK f \in PathFields : \E n \in DOMAIN c[f] : x = c[f][n]
    BY <1>4
  <2>2. Pointer(c[f])
    BY <2>1, Zenon DEF Ready, Conf
  <2>3. c[f] # <<>>
    BY <2>1
  <2>4. PICK text : IsSeq(text) /\ c[f] = <<text>>
    BY <2>2, <2>3, Zenon DEF Pointer
  <2>5. x = text
    BY <2>1, <2>4
  <2> QED BY <2>4, <2>5
<1>5. \/ \E o \in Options \cup Modes : x = <<o>>
      \/ x = FullName(t)
      \/ \E n \in DOMAIN c.args : x = c.args[n]
      \/ \E f \in PathFields : \E n \in DOMAIN c[f] : x = c[f][n]
  BY Zenon DEF ArgTexts
<1> QED
  BY <1>1, <1>2, <1>3, <1>4, <1>5

LEMMA TabIsNoOption ==
  Tab \notin Options \cup Modes
<1>1. \A f \in Flags : f[1] # Tab
  <2> SUFFICES ASSUME NEW f \in Flags PROVE f[1] # Tab
    OBVIOUS
  <2>1. \E o \in {"-nf", "-f", "-v", "-s", "-ss", "-si", "-nsi", "-d", "-l", "-i", "-e",
                  "--run-as-nested-process"} : \E g, v : f = <<o, g, v>>
    BY ZenonT(60) DEF Flags
  <2>2. PICK o \in {"-nf", "-f", "-v", "-s", "-ss", "-si", "-nsi", "-d", "-l", "-i", "-e",
                   "--run-as-nested-process"} : \E g, v : f = <<o, g, v>>
    BY <2>1
  <2>3. f[1] = o
    BY <2>2
  <2> QED BY <2>3 DEF Tab
<1>2. \A f \in Paths : f[1] # Tab
  BY DEF Paths, Tab
<1>3. Tab \notin {"-a", "-j", "-h"} /\ Tab \notin Modes
  BY DEF Tab, Modes
<1> QED
  BY <1>1, <1>2, <1>3 DEF Options

LEMMA TextCarried ==
  ASSUME NEW c, CarriedBy(c), NEW t, Plain(t), NEW x \in ArgTexts(c, t)
  PROVE  Carried(x)
<1>1. CASE \E o \in Options \cup Modes : x = <<o>>
  <2>1. PICK o \in Options \cup Modes : x = <<o>>
    BY <1>1
  <2>2. o # Tab /\ o \notin DOMAIN CodePoint
    <3>1. o \notin DOMAIN CodePoint
      BY CharacterAssumption
    <3> QED BY <3>1, TabIsNoOption
  <2>3. DOMAIN x = {1} /\ x[1] = o /\ Len(x) = 1
    BY <2>1
  <2> QED BY <2>2, <2>3 DEF Carried
<1>2. CASE x = FullName(t)
  <2>1. \A m \in DOMAIN x : x[m] \notin {Space, Tab, Quote, Backslash, "*"} \cup Options
                                         \cup DOMAIN CodePoint
    BY <1>2, Zenon DEF Plain
  <2>2. \A m \in DOMAIN x : x[m] # Space /\ x[m] # Tab /\ x[m] # Backslash
                            /\ x[m] \notin DOMAIN CodePoint
    BY <2>1, Zenon
  <2> QED BY <2>2, Zenon DEF Carried
<1>3. CASE \E n \in DOMAIN c.args : x = c.args[n]
  BY <1>3, Zenon DEF CarriedBy
<1>4. CASE \E f \in PathFields : \E n \in DOMAIN c[f] : x = c[f][n]
  BY <1>4, Zenon DEF CarriedBy, PathFields
<1>5. \/ \E o \in Options \cup Modes : x = <<o>>
      \/ x = FullName(t)
      \/ \E n \in DOMAIN c.args : x = c.args[n]
      \/ \E f \in PathFields : \E n \in DOMAIN c[f] : x = c[f][n]
  BY Zenon DEF ArgTexts
<1> QED
  BY <1>1, <1>2, <1>3, <1>4, <1>5

LEMMA CarriedEverywhere ==
  ASSUME NEW S, NEW x \in Seq(S), Carried(x), NEW j \in 1..Len(x)
  PROVE  CarriedAt(x, j) /\ Survives(x[j])
<1>1. DOMAIN x = 1..Len(x) /\ Len(x) \in Nat
  BY LenProperties
<1>2. /\ x[j] # Tab
      /\ x[j] \in DOMAIN CodePoint => Kept(CodePoint[x[j]])
  BY <1>1, Zenon DEF Carried
<1>3. ASSUME j > 1
      PROVE  /\ x[j - 1] = Backslash => x[j] \notin {Space, Quote}
             /\ x[j - 1] = Space => x[j] # Space
  <2>1. PICK m : m = j - 1
    OBVIOUS
  <2>2. m \in DOMAIN x /\ m < Len(x) /\ m + 1 = j
    BY <1>1, <1>3, <2>1
  <2>3. /\ x[m] = Backslash => x[m + 1] \notin {Space, Quote}
        /\ x[m] = Space => x[m + 1] # Space
    BY <2>2, Zenon DEF Carried
  <2> QED BY <2>1, <2>2, <2>3
<1>4. CarriedAt(x, j)
  BY <1>2, <1>3 DEF CarriedAt
<1>5. x[j] \in DOMAIN CodePoint => Returns(CodePoint[x[j]])
  BY <1>2, CharacterAssumption, Zenon DEF Returns
<1> QED
  BY <1>4, <1>5, SurvivesIs

\* Their characters
ArgChars(c, t) ==
  (UNION {{x[n] : n \in DOMAIN x} : x \in ArgTexts(c, t)}) \cup {Space, Quote, Backslash}

LEMMA CharsIn ==
  ASSUME NEW c, NEW t, NEW S, S = ArgChars(c, t)
  PROVE  \A y : y \in S <=> \/ y \in {Space, Quote, Backslash}
                           \/ \E x \in ArgTexts(c, t) : \E n \in DOMAIN x : y = x[n]
<1> DEFINE T == ArgTexts(c, t)
           R == UNION {{x[n] : n \in DOMAIN x} : x \in T}
<1>1. \A y : y \in R <=> \E x \in T : \E n \in DOMAIN x : y = x[n]
  <2> HIDE DEF T
  <2> QED OBVIOUS
<1>2. S = R \cup {Space, Quote, Backslash}
  BY Zenon DEF ArgChars
<1> HIDE DEF R
<1>3. \A y : y \in S <=> y \in R \/ y \in {Space, Quote, Backslash}
  BY <1>2, Zenon
<1> QED
  BY <1>1, <1>3, Zenon

LEMMA CharsAre ==
  ASSUME NEW c, Ready(c), NEW t, IsTest(t), NEW S, S = ArgChars(c, t)
  PROVE  /\ {Space, Quote, Backslash} \subseteq S
         /\ NestedArgs(c, t) \in Seq(Seq(S)) /\ NestedArgs(c, t) # <<>>
         /\ NestedArgs(c, t) \in Seq(ArgTexts(c, t))
<1>1. PICK T : T = ArgTexts(c, t)
  OBVIOUS
<1>2. Grouped(T, c, t)
  BY <1>1, GroupedIs
<1>3. PICK A \in Seq(T) : A = NestedArgs(c, t)
  BY <1>2, Zenon DEF Grouped
<1>0. \A y : y \in S <=> \/ y \in {Space, Quote, Backslash}
                          \/ \E x \in ArgTexts(c, t) : \E n \in DOMAIN x : y = x[n]
  BY CharsIn
<1>4. {Space, Quote, Backslash} \subseteq S
  BY <1>0, Zenon
<1>5. T \subseteq Seq(S)
  <2> SUFFICES ASSUME NEW x \in T PROVE x \in Seq(S)
    OBVIOUS
  <2>1. IsSeq(x)
    BY <1>1, TextIs
  <2>2. \A n \in DOMAIN x : x[n] \in S
    BY <1>0, <1>1, Zenon
  <2>3. DOMAIN x = 1..Len(x)
    BY <2>1, SequenceIs
  <2> QED BY <2>1, <2>2, <2>3, SeqIn
<1>6. A \in Seq(Seq(S))
  BY <1>5, SeqMonotonic
<1>7. A # <<>>
  <2>1. A = Join(<< <<c.mode>> >>, FromChild(c, t)) /\ FromChild(c, t) \in Seq(T)
    BY <1>2, <1>3 DEF Grouped, FromMode, Join
  <2>2. <<c.mode>> \in T
    BY <1>1, ArgTextsAre DEF Ready
  <2>3. PICK x \in T : x = <<c.mode>>
    BY <2>2
  <2>4. PICK rest \in Seq(T) : rest = FromChild(c, t)
    BY <2>1
  <2>a. A = Join(<<x>>, rest)
    BY <2>1, <2>3, <2>4
  <2>5. Len(rest) \in Nat /\ Len(A) = Len(rest) + 1
    BY <2>a, InFront
  <2>6. Len(A) # 0
    BY <2>5
  <2> QED BY <1>3, <2>6, EmptySeq
<1> QED
  BY <1>1, <1>3, <1>4, <1>6, <1>7

LEMMA CommandIs ==
  ASSUME NEW c, NEW t
  PROVE  Command(c, t) = Escaped(Executable) \o FlattenSeq(Parts(NestedArgs(c, t)))
BY DEF Command, Parts, Part

\* What submit_task() appends, once escaped, converted to UTF-16 and back and
\* split again by CommandLineToArgvW(), is what the nested process finds in its
\* arguments: the same texts, one by one, if they are of the kind that survives.
THEOREM CommandArrives ==
  ASSUME NEW c, Ready(c), CarriedBy(c), NEW t, Plain(t)
  PROVE  ArgvOf(Transcoded(Command(c, t))) = NestedArgs(c, t)
<1>1. PICK S : S = ArgChars(c, t)
  OBVIOUS
<1>2. IsTest(t)
  BY DEF Plain
<1>3. /\ {Space, Quote, Backslash} \subseteq S
      /\ NestedArgs(c, t) \in Seq(Seq(S)) /\ NestedArgs(c, t) # <<>>
      /\ NestedArgs(c, t) \in Seq(ArgTexts(c, t))
  BY <1>1, <1>2, CharsAre
<1>4. PICK A \in Seq(Seq(S)) : A = NestedArgs(c, t)
  BY <1>3
<1>5. \A n \in 1..Len(A) : A[n] \in Seq(S) /\ A[n] \in ArgTexts(c, t)
  <2>1. A \in Seq(ArgTexts(c, t))
    BY <1>3, <1>4
  <2> QED BY <2>1
<1>6. \A n \in 1..Len(A) : Carried(A[n])
  BY <1>5, TextCarried
<1>7. \A n \in 1..Len(A) : \A j \in 1..Len(A[n]) : CarriedAt(A[n], j)
  BY <1>5, <1>6, CarriedEverywhere
<1>8. \A y \in S : Survives(y)
  <2> SUFFICES ASSUME NEW y \in S PROVE Survives(y)
    OBVIOUS
  <2>1. CASE y \in {Space, Quote, Backslash}
    <3>1. y \notin DOMAIN CodePoint
      BY <2>1, CharacterAssumption
    <3> QED BY <3>1, SurvivesIs
  <2>2. CASE \E x \in ArgTexts(c, t) : \E n \in DOMAIN x : y = x[n]
    <3>1. PICK x \in ArgTexts(c, t) : \E n \in DOMAIN x : y = x[n]
      BY <2>2
    <3>2. IsSeq(x) /\ Carried(x)
      BY <1>2, <3>1, TextIs, TextCarried
    <3>3. DOMAIN x = 1..Len(x)
      BY <3>2, SequenceIs
    <3>4. PICK U : x \in Seq(U)
      BY <3>2 DEF IsSeq
    <3>5. PICK n \in 1..Len(x) : y = x[n]
      BY <3>1, <3>3
    <3>6. Survives(x[n])
      BY <3>2, <3>4, CarriedEverywhere
    <3> QED BY <3>5, <3>6
  <2>3. \/ y \in {Space, Quote, Backslash}
        \/ \E x \in ArgTexts(c, t) : \E n \in DOMAIN x : y = x[n]
    BY <1>1, CharsIn
  <2> QED BY <2>1, <2>2, <2>3
<1>9. PICK P : P = {Executable[n] : n \in DOMAIN Executable}
  OBVIOUS
<1>10. PICK path \in Seq(P) : path = Executable
  BY <1>9, InputAssumption DEF IsSeq
<1>11. path # <<>>
  BY <1>10, InputAssumption
<1>12. P \cap {Space, Tab, Quote} = {}
  BY <1>9 DEF CarriedBy
<1>13. ArgvOf(Transcoded(Escaped(path) \o FlattenSeq(Parts(A)))) = A
  BY <1>3, <1>4, <1>7, <1>8, <1>11, <1>12, ArgumentsArrive
<1> QED
  BY <1>4, <1>10, <1>13, CommandIs

\* Whatever the command line, the nested process reads texts.
LEMMA ArgvTyped ==
  ASSUME NEW c, Ready(c), NEW t, IsTest(t)
  PROVE  Patterns(ArgvOf(Transcoded(Command(c, t))))
<1>1. PICK S : S = ArgChars(c, t)
  OBVIOUS
<1>2. {Space, Quote, Backslash} \subseteq S /\ NestedArgs(c, t) \in Seq(Seq(S))
      /\ NestedArgs(c, t) # <<>>
  BY <1>1, CharsAre
<1>3. PICK A \in Seq(Seq(S)) : A = NestedArgs(c, t)
  BY <1>2
<1>4. FlattenSeq(Parts(A)) \in Seq(S)
  BY <1>2, <1>3, EscapesIs
<1>5. PICK P : P = {Executable[n] : n \in DOMAIN Executable} \cup S
  OBVIOUS
<1>6. S \subseteq P /\ \A n \in DOMAIN Executable : Executable[n] \in P
  BY <1>5
<1>7. Executable \in Seq(P)
  <2>1. DOMAIN Executable = 1..Len(Executable) /\ IsSeq(Executable)
    BY InputAssumption, SequenceIs
  <2> QED BY <1>6, <2>1, SeqIn
<1>8. Escaped(Executable) \in Seq(P)
  <2>1. {Space, Quote, Backslash} \subseteq P
    BY <1>2, <1>6
  <2>2. PICK code : code = Escaped(Executable)
    OBVIOUS
  <2>3. code \in Seq(P)
    BY <1>7, <2>1, <2>2, PartIs
  <2> QED BY <2>2, <2>3
<1>9. FlattenSeq(Parts(A)) \in Seq(P)
  BY <1>4, <1>6, SeqMonotonic
<1>10. PICK text \in Seq(P) : text = Command(c, t)
  <2>1. Command(c, t) = Escaped(Executable) \o FlattenSeq(Parts(A))
    BY <1>3, CommandIs
  <2> QED BY <1>8, <1>9, <2>1, Together
<1>11. PICK U : U = P \cup {Garbled}
  OBVIOUS
<1>12. PICK line \in Seq(U) : line = Transcoded(text)
  <2>1. DOMAIN text = 1..Len(text) /\ Len(text) \in Nat
    BY <1>10, LenProperties
  <2>2. \A n \in 1..Len(text) : text[n] \in P
    BY <1>10
  <2>3. Transcoded(text) = [n \in 1..Len(text) |-> IF Survives(text[n]) THEN text[n] ELSE Garbled]
    BY <2>1, Zenon DEF Transcoded
  <2>4. Transcoded(text) \in [1..Len(text) -> U]
    BY <1>11, <2>2, <2>3
  <2> QED BY <2>1, <2>4
<1>13. PICK B \in Seq(Seq(U)) : B = ArgvOf(line)
  BY <1>12, LineReads
<1>14. IsSeq(B) /\ DOMAIN B = 1..Len(B)
  <2>1. IsSeq(B)
    BY <1>13, IsSeqOf
  <2> QED BY <2>1, SequenceIs
<1>15. \A n \in 1..Len(B) : IsSeq(B[n])
  <2> SUFFICES ASSUME NEW n \in 1..Len(B) PROVE IsSeq(B[n])
    OBVIOUS
  <2>1. B[n] \in Seq(U)
    BY <1>13
  <2> QED BY <2>1, IsSeqOf
<1>16. Patterns(B)
  BY <1>14, <1>15, Zenon DEF Patterns
<1> QED
  BY <1>10, <1>12, <1>13, <1>16

-----------------------------------------------------------------------------
(* How a nested process reads its arguments *)

\* What is left of the arguments at position p
Left(args, p, rest) ==
  /\ p \in Nat \ {0} /\ Len(args) \in Nat /\ Len(rest) \in Nat
  /\ Len(args) + 1 = p + Len(rest)
  /\ \A n \in 1..Len(rest) : args[p + n - 1] = rest[n]

LEMMA LeftAll ==
  ASSUME NEW T, NEW A \in Seq(T)
  PROVE  Left(A, 1, A)
<1>1. Len(A) \in Nat
  BY LenProperties
<1>2. \A n \in 1..Len(A) : 1 + n - 1 = n
  BY <1>1
<1> QED
  BY <1>1, <1>2 DEF Left

LEMMA LeftFirst ==
  ASSUME NEW T, NEW x \in T, NEW rest \in Seq(T), NEW z, z = Join(<<x>>, rest),
         NEW args, NEW p, Left(args, p, z), NEW q, q = p + 1
  PROVE  p \in 1..Len(args) /\ args[p] = x /\ Left(args, q, rest) /\ q > 1
<1>1. /\ Len(rest) \in Nat /\ Len(z) = Len(rest) + 1 /\ z[1] = x
      /\ \A n \in 1..Len(rest) : z[n + 1] = rest[n]
  BY InFront
<1>2. /\ p \in Nat \ {0} /\ Len(args) \in Nat /\ Len(args) + 1 = p + Len(z)
      /\ \A n \in 1..Len(z) : args[p + n - 1] = z[n]
  BY DEF Left
<1>3. p \in 1..Len(args) /\ 1 \in 1..Len(z) /\ p + 1 - 1 = p
  BY <1>1, <1>2
<1>4. args[p] = x
  BY <1>1, <1>2, <1>3
<1>a. \A n \in 1..Len(z) : args[p + n - 1] = z[n]
  BY <1>2
<1>b. \A n \in 1..Len(rest) : z[n + 1] = rest[n]
  BY <1>1
<1>5. ASSUME NEW n \in 1..Len(rest) PROVE args[q + n - 1] = rest[n]
  <2>1. PICK m : m = n + 1
    OBVIOUS
  <2>2. m \in 1..Len(z) /\ p + m - 1 = q + n - 1
    BY <1>1, <1>2, <2>1
  <2>3. args[p + m - 1] = z[m]
    BY <1>a, <2>2, Zenon
  <2>4. z[n + 1] = rest[n]
    BY <1>b, Zenon
  <2> QED BY <2>1, <2>2, <2>3, <2>4
<1>6. q \in Nat \ {0} /\ Len(args) + 1 = q + Len(rest) /\ q > 1
  <2>1. PICK N \in Nat : N = Len(rest)
    BY <1>1
  <2>2. PICK L \in Nat : L = Len(args)
    BY <1>2
  <2>3. p \in Nat \ {0} /\ L + 1 = p + (N + 1)
    BY <1>1, <1>2, <2>1, <2>2
  <2>4. q \in Nat \ {0} /\ L + 1 = q + N /\ q > 1
    BY <2>3
  <2> QED BY <2>1, <2>2, <2>4
<1> QED
  BY <1>1, <1>2, <1>3, <1>4, <1>5, <1>6 DEF Left

LEMMA LeftNone ==
  ASSUME NEW args, NEW p, Left(args, p, <<>>)
  PROVE  p > Len(args) /\ p \in Nat
<1>1. Len(<<>>) = 0
  OBVIOUS
<1> QED
  BY <1>1 DEF Left

\* Everything that is left
LEMMA LeftRest ==
  ASSUME NEW T, NEW rest \in Seq(T), NEW args, NEW p, Left(args, p, rest)
  PROVE  SubSeq(args, p, Len(args)) = rest
<1>1. /\ p \in Nat \ {0} /\ Len(args) \in Nat /\ Len(rest) \in Nat
      /\ Len(args) + 1 = p + Len(rest)
      /\ \A n \in 1..Len(rest) : args[p + n - 1] = rest[n]
  BY DEF Left
<1>2. PICK L \in Nat : L = Len(args)
  BY <1>1
<1>3. PICK N \in Nat : N = Len(rest)
  BY <1>1
<1>4. p \in Nat \ {0} /\ p \in Int /\ L \in Int /\ L + 1 = p + N /\ L - p + 1 = N
  BY <1>1, <1>2, <1>3
<1>5. \A n \in 1..N : args[p + n - 1] = rest[n]
  BY <1>1, <1>3
<1>6. \A n \in 1..N : rest[n] \in T
  BY <1>3
<1>7. \A j \in p..L : args[j] \in T
  <2> SUFFICES ASSUME NEW j \in p..L PROVE args[j] \in T
    OBVIOUS
  <2>1. PICK n : n = j - p + 1
    OBVIOUS
  <2>2. n \in 1..N /\ p + n - 1 = j
    BY <1>4, <2>1
  <2> QED BY <1>5, <1>6, <2>2
<1>8. PICK s : s = SubSeq(args, p, L)
  OBVIOUS
<1>9. /\ s \in Seq(T) /\ Len(s) = IF p <= L THEN L - p + 1 ELSE 0
      /\ \A n \in 1..(L - p + 1) : s[n] = args[p + n - 1]
  BY <1>4, <1>7, <1>8, SubSeqProperties
<1>10. Len(s) = N
  BY <1>4, <1>9
<1>11. \A n \in 1..N : s[n] = rest[n]
  BY <1>4, <1>5, <1>9
<1>12. s = rest
  BY <1>3, <1>9, <1>10, <1>11, SameSeq
<1> QED
  BY <1>2, <1>8, <1>12

\* The configuration that a nested process is to have
Target(c, t) ==
  [mode |-> c.mode, fork |-> FALSE, verbose |-> c.verbose, debug |-> c.debug,
   list_all |-> FALSE, ilist |-> FALSE, sysinfo |-> FALSE, is_child |-> TRUE,
   suppress |-> FALSE, threads |-> Cores, outfile |-> c.outfile,
   tracepath |-> c.tracepath, tempdir |-> c.tempdir, resource |-> c.resource,
   list |-> <<FullName(t)>>, ignore |-> <<>>, args |-> c.args]

\* The same as far as the fields in D go
Known(D, c, t) ==
  [f \in Fields |-> IF f \in D THEN Target(c, t)[f] ELSE NewConfig[f]]

LEMMA KnownSet ==
  ASSUME NEW c, NEW t, NEW D, NEW x, x = Known(D, c, t), NEW f \in Fields,
         NEW v, v = Target(c, t)[f], NEW y, y = [x EXCEPT ![f] = v]
  PROVE  y = Known(D \cup {f}, c, t)
<1>1. /\ x = [g \in Fields |-> IF g \in D THEN Target(c, t)[g] ELSE NewConfig[g]]
      /\ Known(D \cup {f}, c, t)
           = [g \in Fields |-> IF g \in D \cup {f} THEN Target(c, t)[g] ELSE NewConfig[g]]
  BY Zenon DEF Known
<1> HIDE DEF Fields
<1>2. y = [g \in Fields |-> IF g = f THEN v ELSE x[g]]
  BY <1>1
<1>3. \A g \in Fields : (IF g = f THEN v ELSE x[g])
                          = (IF g \in D \cup {f} THEN Target(c, t)[g] ELSE NewConfig[g])
  BY <1>1
<1> QED
  BY <1>1, <1>2, <1>3

LEMMA KnownSame ==
  ASSUME NEW c, NEW t, NEW D, NEW f, Target(c, t)[f] = NewConfig[f]
  PROVE  Known(D, c, t) = Known(D \cup {f}, c, t)
<1>1. \A g \in Fields : (IF g \in D THEN Target(c, t)[g] ELSE NewConfig[g])
                          = (IF g \in D \cup {f} THEN Target(c, t)[g] ELSE NewConfig[g])
  OBVIOUS
<1> QED
  BY <1>1 DEF Known

DMode == {"mode"}
DChild == DMode \cup {"is_child"}
DSysinfo == DChild \cup {"sysinfo"}
DFork == DSysinfo \cup {"fork"}
DDebug == DFork \cup {"debug"}
DVerbose == DDebug \cup {"verbose"}
DOutfile == DVerbose \cup {"outfile"}
DTracepath == DOutfile \cup {"tracepath"}
DTempdir == DTracepath \cup {"tempdir"}
DResource == DTempdir \cup {"resource"}
DName == DResource \cup {"list"}
DArgs == DName \cup {"args"}

\* The order in which it reads the fields
LEMMA FieldsRead ==
  /\ "list" \notin DResource /\ "ilist" \notin DResource /\ "args" \notin DName
  /\ Fields = DArgs \cup {"list_all", "ilist", "suppress", "threads", "ignore"}
<1>1. DName = {"mode", "is_child", "sysinfo", "fork", "debug", "verbose", "outfile",
               "tracepath", "tempdir", "resource", "list"}
  BY DEF DName, DResource, DTempdir, DTracepath, DOutfile, DVerbose, DDebug, DFork,
    DSysinfo, DChild, DMode
<1>2. DResource = {"mode", "is_child", "sysinfo", "fork", "debug", "verbose", "outfile",
                   "tracepath", "tempdir", "resource"}
  BY DEF DResource, DTempdir, DTracepath, DOutfile, DVerbose, DDebug, DFork,
    DSysinfo, DChild, DMode
<1>3. Fields = DName \cup {"args"} \cup {"list_all", "ilist", "suppress", "threads", "ignore"}
  BY <1>1 DEF Fields
<1> QED
  BY <1>1, <1>2, <1>3 DEF DArgs

LEMMA TargetFields ==
  ASSUME NEW c, NEW t, NEW T, T = Target(c, t)
  PROVE  /\ T = [f \in Fields |-> T[f]]
         /\ T["mode"] = c.mode /\ T["is_child"] = TRUE /\ T["sysinfo"] = FALSE
         /\ T["fork"] = FALSE /\ T["debug"] = c.debug /\ T["verbose"] = c.verbose
         /\ T["list"] = <<FullName(t)>> /\ T["args"] = c.args /\ T["ignore"] = <<>>
         /\ T["list_all"] = FALSE
         /\ \A f \in PathFields : T[f] = c[f]
<1>1. T = [f \in Fields |-> T[f]]
  BY DEF Target, Fields
<1>2. \A f \in PathFields : T[f] = c[f]
  BY DEF Target, PathFields
<1> QED
  BY <1>1, <1>2 DEF Target

LEMMA NewFields ==
  /\ NewConfig["debug"] = FALSE /\ NewConfig["args"] = <<>> /\ NewConfig["list"] = <<>>
  /\ NewConfig["ilist"] = FALSE /\ \A f \in PathFields : NewConfig[f] = <<>>
  /\ NewConfig = [f \in Fields |-> NewConfig[f]]
<1>1. \A f \in PathFields : NewConfig[f] = <<>>
  BY DEF NewConfig, PathFields
<1> QED
  BY <1>1 DEF NewConfig, Fields

LEMMA KnownNone ==
  ASSUME NEW c, NEW t
  PROVE  NewConfig = Known({}, c, t)
<1>1. NewConfig = [f \in Fields |-> NewConfig[f]]
  BY NewFields
<1>2. Known({}, c, t) = [f \in Fields |-> NewConfig[f]]
  <2> HIDE DEF Fields
  <2> QED BY DEF Known
<1> QED
  BY <1>1, <1>2

LEMMA KnownAll ==
  ASSUME NEW c, NEW t
  PROVE  Known(DArgs, c, t) = Target(c, t)
<1>1. \A f \in {"list_all", "ilist", "suppress", "threads", "ignore"} :
        Target(c, t)[f] = NewConfig[f]
  <2>1. /\ Target(c, t)["list_all"] = FALSE /\ Target(c, t)["ilist"] = FALSE
        /\ Target(c, t)["suppress"] = FALSE /\ Target(c, t)["threads"] = Cores
        /\ Target(c, t)["ignore"] = <<>>
    BY DEF Target
  <2>2. /\ NewConfig["list_all"] = FALSE /\ NewConfig["ilist"] = FALSE
        /\ NewConfig["suppress"] = FALSE /\ NewConfig["threads"] = Cores
        /\ NewConfig["ignore"] = <<>>
    BY DEF NewConfig
  <2> QED BY <2>1, <2>2
<1>2. \A f \in Fields : (IF f \in DArgs THEN Target(c, t)[f] ELSE NewConfig[f]) = Target(c, t)[f]
  BY <1>1, FieldsRead
<1>3. Target(c, t) = [f \in Fields |-> Target(c, t)[f]]
  BY TargetFields
<1>4. Known(DArgs, c, t) = [f \in Fields |-> Target(c, t)[f]]
  BY <1>2 DEF Known
<1> QED
  BY <1>3, <1>4

-----------------------------------------------------------------------------
(* One step of parse() *)

Acts ==
  ParseMode \/ ParseFlag \/ ParsePath \/ ParseArgs \/ ParseJobs \/ ParseHelp
    \/ ParseName \/ ParseEnds

\* No other action reads arguments, and it leaves the rest alone.
LEMMA ActsOnly ==
  ASSUME phase = "parse", [Next]_vars
  PROVE  Acts \/ UNCHANGED vars
<1>1. /\ ~ListTests /\ ~SkipTest /\ ~Execute /\ ~Submit /\ ~SubmitFails /\ ~LoopEnds
      /\ ~NestedEnds
  BY DEF ListTests, SkipTest, Execute, Submit, SubmitFails, LoopEnds, NestedEnds
<1>2. RunnerStopped => UNCHANGED vars
  BY DEF RunnerStopped
<1> QED
  BY <1>1, <1>2, Zenon DEF Next, Acts

LEMMA ActsKeep ==
  ASSUME Acts
  PROVE  phase = "parse" /\ UNCHANGED <<argv, list, k, executed, caller, ignored, runs>>
BY DEF Acts, ParseMode, ParseFlag, ParsePath, ParseArgs, ParseJobs, ParseHelp,
  ParseName, ParseEnds, Parsed, parsing, runner

\* What each option does
\* The rows of the table of flags
Row(o, g, v) ==
  \/ o = "-nf" /\ g = "fork" /\ v = FALSE
  \/ o = "-f" /\ g = "fork" /\ v = TRUE
  \/ o = "-v" /\ g = "verbose" /\ v = TRUE
  \/ o = "-s" /\ g = "verbose" /\ v = FALSE
  \/ o = "-ss" /\ g = "suppress" /\ v = TRUE
  \/ o = "-si" /\ g = "sysinfo" /\ v = TRUE
  \/ o = "-nsi" /\ g = "sysinfo" /\ v = FALSE
  \/ o = "-d" /\ g = "debug" /\ v = TRUE
  \/ o = "-l" /\ g = "list_all" /\ v = TRUE
  \/ o = "-i" /\ g = "ilist" /\ v = TRUE
  \/ o = "-e" /\ g = "ilist" /\ v = FALSE
  \/ o = "--run-as-nested-process" /\ g = "is_child" /\ v = TRUE

LEMMA RowsDiffer ==
  ASSUME NEW o, NEW g, NEW v, NEW h, NEW w, Row(o, g, v), Row(o, h, w)
  PROVE  g = h /\ v = w
BY DEF Row

LEMMA RowOption ==
  ASSUME NEW o, NEW g, NEW v, Row(o, g, v)
  PROVE  o \notin {"-a", "-j", "-h", "-t", "-td", "-r", "-o"}
BY DEF Row

LEMMA FlagRow ==
  ASSUME NEW f \in Flags
  PROVE  \E o, g, v : f = <<o, g, v>> /\ Row(o, g, v)
BY ZenonT(60) DEF Flags, Row

LEMMA OptionsDiffer ==
  /\ \A f, g \in Flags : f[1] = g[1] => f = g
  /\ \A f, g \in Paths : f[1] = g[1] => f = g
  /\ \A f \in Flags, g \in Paths : f[1] # g[1]
  /\ \A f \in Flags \cup Paths : f[1] \notin {"-a", "-j", "-h"}
<1>1. \A f, g \in Paths : f[1] = g[1] => f = g
  BY DEF Paths
<1>2. \A f, g \in Flags : f[1] = g[1] => f = g
  <2> SUFFICES ASSUME NEW f \in Flags, NEW g \in Flags, f[1] = g[1] PROVE f = g
    OBVIOUS
  <2>1. PICK o, a, v : f = <<o, a, v>> /\ Row(o, a, v)
    BY FlagRow, Zenon
  <2>2. PICK p, b, w : g = <<p, b, w>> /\ Row(p, b, w)
    BY FlagRow, Zenon
  <2>3. <<o, a, v>>[1] = o /\ <<p, b, w>>[1] = p
    OBVIOUS
  <2>4. o = p
    BY <2>1, <2>2, <2>3, Zenon
  <2>5. a = b /\ v = w
    BY <2>1, <2>2, <2>4, RowsDiffer, Zenon
  <2> QED BY <2>1, <2>2, <2>4, <2>5, Zenon
<1>3. \A f \in Flags : f[1] \notin {"-a", "-j", "-h", "-t", "-td", "-r", "-o"}
  <2> SUFFICES ASSUME NEW f \in Flags
               PROVE  f[1] \notin {"-a", "-j", "-h", "-t", "-td", "-r", "-o"}
    OBVIOUS
  <2>1. PICK o, a, v : f = <<o, a, v>> /\ Row(o, a, v)
    BY FlagRow, Zenon
  <2>2. <<o, a, v>>[1] = o
    OBVIOUS
  <2> QED BY <2>1, <2>2, RowOption, Zenon
<1>4. \A g \in Paths : g[1] \in {"-t", "-td", "-r", "-o"}
  BY DEF Paths
<1>5. \A f \in Flags, g \in Paths : f[1] # g[1]
  BY <1>3, <1>4
<1>6. \A f \in Flags \cup Paths : f[1] \notin {"-a", "-j", "-h"}
  BY <1>3, <1>4
<1> QED
  BY <1>1, <1>2, <1>5, <1>6

\* An argument that is an option is not read otherwise.
LEMMA ReadAsFlag ==
  ASSUME Acts, i \in 2..Len(argv), NEW f \in Flags, argv[i] = <<f[1]>>
  PROVE  ParseFlag /\ phase' = "parse" /\ cfg' = [cfg EXCEPT ![f[2]] = f[3]] /\ i' = i + 1
<1>0. i # 1 /\ ~(i > Len(argv))
  OBVIOUS
<1>1. f[1] \in Options
  BY Zenon DEF Options
<1>2. \A x, y : <<x>> = <<y>> => x = y
  OBVIOUS
<1>3. ~ParseMode /\ ~ParseEnds
  BY <1>0, Zenon DEF ParseMode, ParseEnds
<1>4. ~ParseName
  BY <1>1, Zenon DEF ParseName
<1>5. ~ParsePath
  BY <1>2, OptionsDiffer, Zenon DEF ParsePath, Parsed
<1>6. f[1] # "-a" /\ f[1] # "-j" /\ f[1] # "-h"
  BY OptionsDiffer
<1>7. ~ParseArgs /\ ~ParseJobs /\ ~ParseHelp
  BY <1>2, <1>6, Zenon DEF ParseArgs, ParseJobs, ParseHelp, Parsed
<1>8. ParseFlag
  BY <1>3, <1>4, <1>5, <1>7, Zenon DEF Acts
<1>9. PICK g \in Flags : Parsed(g[1]) /\ cfg' = [cfg EXCEPT ![g[2]] = g[3]]
  BY <1>8, Zenon DEF ParseFlag
<1>10. g = f
  BY <1>2, <1>9, OptionsDiffer, Zenon DEF Parsed
<1>11. phase' = "parse" /\ i' = i + 1
  BY <1>8, <1>9, Zenon DEF ParseFlag, Parsed
<1> QED
  BY <1>8, <1>9, <1>10, <1>11, Zenon

LEMMA ReadAsPath ==
  ASSUME Acts, i \in 2..Len(argv), NEW f \in Paths, argv[i] = <<f[1]>>, i < Len(argv)
  PROVE  phase' = "parse" /\ cfg' = [cfg EXCEPT ![f[2]] = <<argv[i + 1]>>] /\ i' = i + 2
<1>0. i # 1 /\ ~(i > Len(argv))
  OBVIOUS
<1>1. f[1] \in Options
  BY Zenon DEF Options
<1>2. \A x, y : <<x>> = <<y>> => x = y
  OBVIOUS
<1>3. ~ParseMode /\ ~ParseEnds
  BY <1>0, Zenon DEF ParseMode, ParseEnds
<1>4. ~ParseName
  BY <1>1, Zenon DEF ParseName
<1>5. ~ParseFlag
  BY <1>2, OptionsDiffer, Zenon DEF ParseFlag, Parsed
<1>6. f[1] # "-a" /\ f[1] # "-j" /\ f[1] # "-h"
  BY OptionsDiffer
<1>7. ~ParseArgs /\ ~ParseJobs /\ ~ParseHelp
  BY <1>2, <1>6, Zenon DEF ParseArgs, ParseJobs, ParseHelp, Parsed
<1>8. ParsePath
  BY <1>3, <1>4, <1>5, <1>7, Zenon DEF Acts
<1>9. PICK g \in Paths :
        /\ Parsed(g[1])
        /\ IF i < Len(argv)
           THEN cfg' = [cfg EXCEPT ![g[2]] = <<argv[i + 1]>>] /\ UNCHANGED <<phase, status>>
           ELSE Stop(INVALID_VALUE) /\ UNCHANGED cfg
        /\ i' = i + 2
  BY <1>8, Zenon DEF ParsePath
<1>10. g = f
  BY <1>2, <1>9, OptionsDiffer, Zenon DEF Parsed
<1>11. phase' = "parse" /\ i' = i + 2 /\ cfg' = [cfg EXCEPT ![g[2]] = <<argv[i + 1]>>]
  BY <1>9 DEF Parsed
<1> QED
  BY <1>10, <1>11, Zenon

LEMMA ReadAsArgs ==
  ASSUME Acts, i \in 2..Len(argv), argv[i] = <<"-a">>
  PROVE  /\ phase' = "parse" /\ i' = Len(argv) + 1
         /\ cfg' = [cfg EXCEPT !.args = @ \o SubSeq(argv, i + 1, Len(argv))]
<1>0. i # 1 /\ ~(i > Len(argv))
  OBVIOUS
<1>1. "-a" \in Options
  BY Zenon DEF Options
<1>2. \A x, y : <<x>> = <<y>> => x = y
  OBVIOUS
<1>3. ~ParseMode /\ ~ParseEnds
  BY <1>0, Zenon DEF ParseMode, ParseEnds
<1>4. ~ParseName
  BY <1>1, Zenon DEF ParseName
<1>5. \A f \in Flags \cup Paths : f[1] # "-a"
  BY OptionsDiffer
<1>6. ~ParseFlag /\ ~ParsePath
  BY <1>2, <1>5, Zenon DEF ParseFlag, ParsePath, Parsed
<1>7. "-j" # "-a" /\ "-h" # "-a"
  OBVIOUS
<1>8. ~ParseJobs /\ ~ParseHelp
  BY <1>2, <1>7, Zenon DEF ParseJobs, ParseHelp, Parsed
<1>9. ParseArgs
  BY <1>3, <1>4, <1>6, <1>8, Zenon DEF Acts
<1> QED
  BY <1>9, Zenon DEF ParseArgs, Parsed

LEMMA ReadAsName ==
  ASSUME Acts, i \in 2..Len(argv), \A o \in Options : argv[i] # <<o>>
  PROVE  /\ phase' = "parse" /\ i' = i + 1
         /\ cfg' = IF cfg.ilist THEN [cfg EXCEPT !.ignore = Append(@, argv[i])]
                                ELSE [cfg EXCEPT !.list = Append(@, argv[i])]
<1>0. i # 1 /\ ~(i > Len(argv))
  OBVIOUS
<1>1. /\ "-a" \in Options /\ "-j" \in Options /\ "-h" \in Options
      /\ \A f \in Flags \cup Paths : f[1] \in Options
  BY Zenon DEF Options
<1>2. ~ParseMode /\ ~ParseEnds
  BY <1>0, Zenon DEF ParseMode, ParseEnds
<1>3. ~ParseFlag /\ ~ParsePath /\ ~ParseArgs /\ ~ParseJobs /\ ~ParseHelp
  BY <1>1, Zenon DEF ParseFlag, ParsePath, ParseArgs, ParseJobs, ParseHelp, Parsed
<1>4. ParseName
  BY <1>2, <1>3, Zenon DEF Acts
<1> QED
  BY <1>4, Zenon DEF ParseName

LEMMA ReadAsMode ==
  ASSUME Acts, i = 1, argv # <<>>, NEW m \in Modes, argv[1] = <<m>>
  PROVE  phase' = "parse" /\ i' = 2 /\ cfg' = [cfg EXCEPT !["mode"] = m]
<1>0. ~(1 \in 2..Len(argv)) /\ ~(1 > 1)
  OBVIOUS
<1>1. /\ ~ParseFlag /\ ~ParsePath /\ ~ParseArgs /\ ~ParseJobs /\ ~ParseHelp /\ ~ParseName
      /\ ~ParseEnds
  BY <1>0, Zenon DEF ParseFlag, ParsePath, ParseArgs, ParseJobs, ParseHelp, ParseName,
    ParseEnds, Parsed
<1>2. ParseMode
  BY <1>1, Zenon DEF Acts
<1>3. argv[1] \in {<<x>> : x \in Modes} /\ argv[1][1] = m
  <2>1. <<m>>[1] = m
    OBVIOUS
  <2> QED BY <2>1, Zenon
<1>4. cfg' = [cfg EXCEPT !["mode"] = argv[1][1]] /\ UNCHANGED phase /\ i' = 2 /\ phase = "parse"
  BY <1>2, <1>3, Zenon DEF ParseMode
<1> QED
  BY <1>3, <1>4, Zenon

LEMMA ReadToEnd ==
  ASSUME Acts, i > Len(argv), i > 1
  PROVE  /\ phase' = "list"
         /\ cfg' = [f \in DOMAIN cfg |->
                      IF f \in DOMAIN Default /\ cfg[f] = <<>> THEN <<Default[f]>> ELSE cfg[f]]
<1>0. ~(i \in 2..Len(argv)) /\ i # 1
  OBVIOUS
<1>1. /\ ~ParseFlag /\ ~ParsePath /\ ~ParseArgs /\ ~ParseJobs /\ ~ParseHelp /\ ~ParseName
      /\ ~ParseMode
  BY <1>0, Zenon DEF ParseFlag, ParsePath, ParseArgs, ParseJobs, ParseHelp, ParseName,
    ParseMode, Parsed
<1>2. ParseEnds
  BY <1>1, Zenon DEF Acts
<1> QED
  BY <1>2, Zenon DEF ParseEnds

-----------------------------------------------------------------------------
(* The nested process reads back what submit_task() wrote *)

\* parse() has set the fields in D, and these arguments are left.
Stage(args, p, x, D, rest, c, t) == x = Known(D, c, t) /\ Left(args, p, rest)

LEMMA TargetIs ==
  ASSUME NEW c, NEW t
  PROVE  /\ Target(c, t) = [f \in Fields |-> Target(c, t)[f]]
         /\ Target(c, t)["list"] = <<FullName(t)>> /\ Target(c, t)["args"] = c.args
         /\ Target(c, t)["debug"] = c.debug
         /\ \A f \in PathFields : Target(c, t)[f] = c[f]
<1>1. Target(c, t) = [f \in Fields |-> Target(c, t)[f]]
  BY DEF Target, Fields
<1>2. \A f \in PathFields : Target(c, t)[f] = c[f]
  BY DEF Target, PathFields
<1> QED
  BY <1>1, <1>2 DEF Target

With(x, f, v) == [x EXCEPT ![f] = v]

LEMMA KnownWith ==
  ASSUME NEW c, NEW t, NEW D, NEW f \in Fields
  PROVE  With(Known(D, c, t), f, Target(c, t)[f]) = Known(D \cup {f}, c, t)
<1>1. PICK x : x = Known(D, c, t)
  OBVIOUS
<1>2. PICK v : v = Target(c, t)[f]
  OBVIOUS
<1>3. x = [g \in Fields |-> IF g \in D THEN Target(c, t)[g] ELSE NewConfig[g]]
  BY <1>1, Zenon DEF Known
<1>4. With(x, f, v) = [g \in Fields |-> IF g = f THEN v ELSE x[g]]
  <2> HIDE DEF Fields
  <2> QED BY <1>3 DEF With
<1>5. \A g \in Fields : (IF g = f THEN v ELSE x[g])
                          = (IF g \in D \cup {f} THEN Target(c, t)[g] ELSE NewConfig[g])
  BY <1>2, <1>3
<1>6. With(x, f, v) = Known(D \cup {f}, c, t)
  BY <1>4, <1>5 DEF Known
<1> QED
  BY <1>1, <1>2, <1>6, Zenon

LEMMA KnownArgs ==
  ASSUME NEW c, NEW t
  PROVE  With(Known(DName, c, t), "args", Target(c, t)["args"]) = Known(DName \cup {"args"}, c, t)
<1>1. "args" \in Fields
  BY DEF Fields
<1> QED
  BY <1>1, KnownWith

LEMMA FlagStage ==
  ASSUME Acts, NEW c, NEW t, NEW D, NEW o, NEW g \in Fields, NEW v, <<o, g, v>> \in Flags,
         v = Target(c, t)[g], NEW T, <<o>> \in T, NEW rest \in Seq(T),
         NEW z, z = Join(<< <<o>> >>, rest), i > 1, Stage(argv, i, cfg, D, z, c, t)
  PROVE  phase' = "parse" /\ i' > 1 /\ Stage(argv', i', cfg', D \cup {g}, rest, c, t)
<1>1. cfg = Known(D, c, t) /\ Left(argv, i, z)
  BY Zenon DEF Stage
<1>2. PICK q : q = i + 1
  OBVIOUS
<1>3. i \in 1..Len(argv) /\ argv[i] = <<o>> /\ Left(argv, q, rest) /\ q > 1
  BY <1>1, <1>2, LeftFirst
<1>4. Len(argv) \in Nat
  BY <1>1 DEF Left
<1>5. i \in 2..Len(argv)
  BY <1>3, <1>4
<1>6. PICK f : f = <<o, g, v>>
  OBVIOUS
<1>7. f[1] = o /\ f[2] = g /\ f[3] = v /\ f \in Flags
  BY <1>6
<1>8. phase' = "parse" /\ cfg' = [cfg EXCEPT ![f[2]] = f[3]] /\ i' = i + 1
  BY <1>3, <1>5, <1>7, ReadAsFlag, Zenon
<1>9. cfg' = [cfg EXCEPT ![g] = v]
  BY <1>7, <1>8, Zenon
<1>10. cfg' = Known(D \cup {g}, c, t)
  <2>1. cfg' = With(cfg, g, Target(c, t)[g])
    BY <1>1, <1>9, Zenon DEF With
  <2>2. With(Known(D, c, t), g, Target(c, t)[g]) = Known(D \cup {g}, c, t)
    BY KnownWith
  <2>3. cfg = Known(D, c, t)
    BY <1>1, Zenon
  <2> QED BY <2>1, <2>2, <2>3, Zenon
<1>11. argv' = argv
  BY ActsKeep
<1> QED
  BY <1>2, <1>3, <1>8, <1>10, <1>11, Zenon DEF Stage

\* An option and its path
LeftTwo(args, p, o, text, q, rest) ==
  /\ p \in 1..Len(args) /\ p < Len(args) /\ args[p] = <<o>> /\ args[p + 1] = text
  /\ Left(args, q, rest) /\ q > 1

LEMMA LeftPath ==
  ASSUME NEW T, NEW o, <<o>> \in T, NEW text \in T, NEW rest \in Seq(T),
         NEW z, z = Join(Join(<< <<o>> >>, <<text>>), rest),
         NEW args, NEW p, Left(args, p, z), NEW q, q = p + 2
  PROVE  LeftTwo(args, p, o, text, q, rest)
<1>1. PICK one : one = << <<o>> >>
  OBVIOUS
<1>2. PICK two : two = <<text>>
  OBVIOUS
<1>3. one \in Seq(T) /\ two \in Seq(T)
  BY <1>1, <1>2
<1>4. PICK y : y = Join(two, rest)
  OBVIOUS
<1>5. y \in Seq(T)
  BY <1>3, <1>4, JoinSeq
<1>6. Join(Join(one, two), rest) = Join(one, Join(two, rest))
  BY <1>3, JoinAssoc
<1>7. PICK m : m = p + 1
  OBVIOUS
<1>8. z = Join(<< <<o>> >>, y)
  BY <1>1, <1>2, <1>4, <1>6, Zenon
<1>9. p \in 1..Len(args) /\ args[p] = <<o>> /\ Left(args, m, y) /\ m > 1
  BY <1>5, <1>7, <1>8, LeftFirst
<1>10. y = Join(<<text>>, rest)
  BY <1>2, <1>4, Zenon
<1>11. p \in Nat /\ Len(args) \in Nat
  BY <1>9 DEF Left
<1>12. q = m + 1
  BY <1>7, <1>11
<1>13. m \in 1..Len(args) /\ args[m] = text /\ Left(args, q, rest) /\ q > 1
  BY <1>9, <1>10, <1>12, LeftFirst
<1>14. p < Len(args)
  BY <1>7, <1>11, <1>13
<1> QED
  BY <1>7, <1>9, <1>13, <1>14, Zenon DEF LeftTwo

LEMMA PathStage ==
  ASSUME Acts, NEW c, NEW t, NEW D, NEW o, NEW g \in PathFields, <<o, g>> \in Paths,
         Pointer(c[g]), c[g] # <<>>, NEW T, <<o>> \in T, \A n \in DOMAIN c[g] : c[g][n] \in T,
         NEW rest \in Seq(T), NEW z, z = Join(PathOf(c, o, g), rest), i > 1,
         Stage(argv, i, cfg, D, z, c, t)
  PROVE  phase' = "parse" /\ i' > 1 /\ Stage(argv', i', cfg', D \cup {g}, rest, c, t)
<1>1. cfg = Known(D, c, t) /\ Left(argv, i, z)
  BY Zenon DEF Stage
<1>2. PICK text : c[g] = <<text>>
  BY Zenon DEF Pointer
<1>3. text \in T
  <2>1. 1 \in DOMAIN <<text>> /\ <<text>>[1] = text
    OBVIOUS
  <2> QED BY <1>2, <2>1, Zenon
<1>4. PathOf(c, o, g) = Join(<< <<o>> >>, <<text>>)
  BY <1>2 DEF PathOf, Join
<1>5. z = Join(Join(<< <<o>> >>, <<text>>), rest)
  BY <1>4, Zenon
<1>6. PICK q : q = i + 2
  OBVIOUS
<1>7. /\ i \in 1..Len(argv) /\ i < Len(argv) /\ argv[i] = <<o>> /\ argv[i + 1] = text
      /\ Left(argv, q, rest) /\ q > 1
  <2>1. Left(argv, i, z) => LeftTwo(argv, i, o, text, q, rest)
    BY <1>3, <1>5, <1>6, LeftPath
  <2> QED BY <1>1, <2>1, Zenon DEF LeftTwo
<1>8. i \in 2..Len(argv)
  <2>1. Len(argv) \in Nat
    BY <1>1 DEF Left
  <2> QED BY <1>7, <2>1
<1>9. PICK f : f = <<o, g>>
  OBVIOUS
<1>10. f[1] = o /\ f[2] = g /\ f \in Paths
  BY <1>9
<1>11. phase' = "parse" /\ cfg' = [cfg EXCEPT ![f[2]] = <<argv[i + 1]>>] /\ i' = i + 2
  BY <1>7, <1>8, <1>10, ReadAsPath, Zenon
<1>12. cfg' = [cfg EXCEPT ![g] = c[g]]
  BY <1>2, <1>7, <1>10, <1>11, Zenon
<1>13. g \in Fields /\ c[g] = Target(c, t)[g]
  <2>1. g \in Fields
    BY DEF Fields, PathFields
  <2> QED BY <2>1, TargetIs, Zenon
<1>14. cfg' = Known(D \cup {g}, c, t)
  <2>1. cfg' = With(cfg, g, Target(c, t)[g])
    BY <1>1, <1>12, <1>13, Zenon DEF With
  <2>2. With(Known(D, c, t), g, Target(c, t)[g]) = Known(D \cup {g}, c, t)
    BY <1>13, KnownWith
  <2>3. cfg = Known(D, c, t)
    BY <1>1, Zenon
  <2> QED BY <2>1, <2>2, <2>3, Zenon
<1>15. argv' = argv
  BY ActsKeep
<1> QED
  BY <1>6, <1>7, <1>11, <1>14, <1>15, Zenon DEF Stage

\* Nothing is written for a field that has its first value.
LEMMA SameStage ==
  ASSUME NEW args, NEW p, NEW x, NEW c, NEW t, NEW D, NEW g, Target(c, t)[g] = NewConfig[g],
         NEW T, NEW rest \in Seq(T), NEW z, z = Join(<<>>, rest), Stage(args, p, x, D, z, c, t)
  PROVE  Stage(args, p, x, D \cup {g}, rest, c, t)
<1>1. z = rest
  BY DEF Join
<1>2. Known(D, c, t) = Known(D \cup {g}, c, t)
  BY KnownSame
<1> QED
  BY <1>1, <1>2, Zenon DEF Stage

LEMMA NoPathStage ==
  ASSUME NEW args, NEW p, NEW x, NEW c, NEW t, NEW D, NEW o, NEW g \in PathFields, c[g] = <<>>,
         NEW T, NEW rest \in Seq(T), NEW z, z = Join(PathOf(c, o, g), rest),
         Stage(args, p, x, D, z, c, t)
  PROVE  Stage(args, p, x, D \cup {g}, rest, c, t)
<1>1. z = Join(<<>>, rest)
  BY Zenon DEF PathOf
<1>2. Target(c, t)[g] = NewConfig[g]
  BY TargetIs, NewFields, Zenon
<1> QED
  BY <1>1, <1>2, SameStage, Zenon

\* The name is the only pattern, and no option.
LEMMA NameStage ==
  ASSUME Acts, NEW c, NEW t, Plain(t), NEW T, FullName(t) \in T, NEW rest \in Seq(T),
         NEW z, z = Join(<<FullName(t)>>, rest), i > 1,
         Stage(argv, i, cfg, DResource, z, c, t)
  PROVE  phase' = "parse" /\ i' > 1 /\ Stage(argv', i', cfg', DName, rest, c, t)
<1>1. cfg = Known(DResource, c, t) /\ Left(argv, i, z)
  BY Zenon DEF Stage
<1>2. PICK q : q = i + 1
  OBVIOUS
<1>3. i \in 1..Len(argv) /\ argv[i] = FullName(t) /\ Left(argv, q, rest) /\ q > 1
  BY <1>1, <1>2, LeftFirst
<1>4. i \in 2..Len(argv)
  <2>1. Len(argv) \in Nat
    BY <1>1 DEF Left
  <2> QED BY <1>3, <2>1
<1>5. \A o \in Options : argv[i] # <<o>>
  <2>1. \A o : 1 \in DOMAIN <<o>> /\ <<o>>[1] = o
    OBVIOUS
  <2>2. \A n \in DOMAIN FullName(t) : FullName(t)[n] \notin Options
    BY Zenon DEF Plain
  <2> QED BY <1>3, <2>1, <2>2, Zenon
<1>6. "list" \in Fields /\ "ilist" \in Fields
  BY DEF Fields
<1>7. cfg = [f \in Fields |-> IF f \in DResource THEN Target(c, t)[f] ELSE NewConfig[f]]
  BY <1>1, Zenon DEF Known
<1>8. cfg["ilist"] = FALSE /\ cfg["list"] = <<>>
  BY <1>6, <1>7, FieldsRead, NewFields, Zenon
<1>9. phase' = "parse" /\ i' = i + 1 /\ cfg' = [cfg EXCEPT !.list = Append(@, argv[i])]
  BY <1>4, <1>5, <1>8, ReadAsName
<1>10. Append(<<>>, FullName(t)) = <<FullName(t)>>
  OBVIOUS
<1>11. cfg' = [cfg EXCEPT !["list"] = <<FullName(t)>>]
  BY <1>3, <1>8, <1>9, <1>10
<1>12. Target(c, t)["list"] = <<FullName(t)>>
  BY TargetIs, Zenon
<1>13. cfg' = Known(DResource \cup {"list"}, c, t)
  <2>1. cfg' = With(cfg, "list", Target(c, t)["list"])
    BY <1>1, <1>11, <1>12, Zenon DEF With
  <2>2. With(Known(DResource, c, t), "list", Target(c, t)["list"]) = Known(DResource \cup {"list"}, c, t)
    BY <1>6, KnownWith
  <2>3. cfg = Known(DResource, c, t)
    BY <1>1, Zenon
  <2> QED BY <2>1, <2>2, <2>3, Zenon
<1>14. argv' = argv
  BY ActsKeep
<1> QED
  BY <1>2, <1>3, <1>9, <1>13, <1>14, Zenon DEF Stage, DName

LEMMA ArgsStage ==
  ASSUME Acts, NEW c, NEW t, NEW T, c.args \in Seq(T), <<"-a">> \in T, c.args # <<>>, i > 1,
         NEW z, z = ArgsOf(c), Stage(argv, i, cfg, DName, z, c, t)
  PROVE  phase' = "parse" /\ i' > 1 /\ Stage(argv', i', cfg', DArgs, <<>>, c, t)
<1>1. cfg = Known(DName, c, t) /\ Left(argv, i, z)
  BY Zenon DEF Stage
<1>2. PICK rest \in Seq(T) : rest = c.args
  OBVIOUS
<1>3. z = Join(<< <<"-a">> >>, rest)
  BY <1>2 DEF ArgsOf, Join
<1>4. PICK q : q = i + 1
  OBVIOUS
<1>5. i \in 1..Len(argv) /\ argv[i] = <<"-a">> /\ Left(argv, q, rest) /\ q > 1
  BY <1>1, <1>3, <1>4, LeftFirst
<1>6. Len(argv) \in Nat
  BY <1>1 DEF Left
<1>7. i \in 2..Len(argv)
  BY <1>5, <1>6
<1>8. /\ phase' = "parse" /\ i' = Len(argv) + 1
      /\ cfg' = [cfg EXCEPT !.args = @ \o SubSeq(argv, i + 1, Len(argv))]
  BY <1>5, <1>7, ReadAsArgs
<1>9. SubSeq(argv, q, Len(argv)) = rest
  BY <1>5, LeftRest
<1>10. "args" \in Fields
  BY DEF Fields
<1>11. cfg["args"] = <<>>
  <2>1. cfg = [f \in Fields |-> IF f \in DName THEN Target(c, t)[f] ELSE NewConfig[f]]
    BY <1>1, Zenon DEF Known
  <2> QED BY <1>10, <2>1, FieldsRead, NewFields, Zenon
<1>12. <<>> \o rest = rest
  BY <1>2
<1>13. cfg' = [cfg EXCEPT !["args"] = rest]
  BY <1>4, <1>8, <1>9, <1>11, <1>12
<1>14. Target(c, t)["args"] = rest
  BY <1>2, TargetFields
<1>15. cfg' = Known(DName \cup {"args"}, c, t)
  <2>1. cfg' = With(cfg, "args", Target(c, t)["args"])
    BY <1>1, <1>13, <1>14, Zenon DEF With
  <2>2. With(Known(DName, c, t), "args", Target(c, t)["args"]) = Known(DName \cup {"args"}, c, t)
    BY KnownArgs, Zenon
  <2>3. cfg = Known(DName, c, t)
    BY <1>1, Zenon
  <2> QED BY <2>1, <2>2, <2>3, Zenon
<1>16. argv' = argv
  BY ActsKeep
<1>17. Left(argv, Len(argv) + 1, <<>>) /\ Len(argv) + 1 > 1
  <2>1. Len(argv) # 0
    BY <1>5, <1>6
  <2> QED BY <1>6, <2>1 DEF Left
<1> QED
  BY <1>8, <1>15, <1>16, <1>17, Zenon DEF Stage, DArgs

LEMMA EndStage ==
  ASSUME Acts, NEW c, Ready(c), NEW t, i > 1, Stage(argv, i, cfg, DArgs, <<>>, c, t)
  PROVE  phase' = "list" /\ cfg' = Target(c, t)
<1>1. cfg = Target(c, t) /\ Left(argv, i, <<>>)
  BY KnownAll, Zenon DEF Stage
<1>2. i > Len(argv)
  BY <1>1, LeftNone
<1>3. /\ phase' = "list"
      /\ cfg' = [f \in DOMAIN cfg |->
                   IF f \in DOMAIN Default /\ cfg[f] = <<>> THEN <<Default[f]>> ELSE cfg[f]]
  BY <1>2, ReadToEnd
<1>4. cfg = [f \in Fields |-> cfg[f]]
  BY <1>1, TargetIs
<1>5. \A f \in DOMAIN Default : f \in PathFields /\ c[f] # <<>>
  BY InputAssumption DEF PathFields, Ready
<1>6. \A f \in DOMAIN Default : cfg[f] # <<>>
  BY <1>1, <1>5, TargetIs, Zenon
<1>7. DOMAIN cfg = Fields
  <2> HIDE DEF Fields
  <2> QED BY <1>4
<1>8. cfg' = [f \in Fields |-> cfg[f]]
  BY <1>3, <1>6, <1>7
<1> QED
  BY <1>1, <1>3, <1>4, <1>8, Zenon

-----------------------------------------------------------------------------
(* From one group of arguments to the next *)

Later(args, p, x, c, t) ==
  p > 1 /\ \/ Stage(args, p, x, DMode, FromChild(c, t), c, t)
            \/ Stage(args, p, x, DChild, FromSysinfo(c, t), c, t)
            \/ Stage(args, p, x, DSysinfo, FromFork(c, t), c, t)
            \/ Stage(args, p, x, DFork, FromDebug(c, t), c, t)
            \/ Stage(args, p, x, DDebug, FromVerbose(c, t), c, t)
            \/ Stage(args, p, x, DVerbose, FromOutfile(c, t), c, t)
            \/ Stage(args, p, x, DOutfile, FromTracepath(c, t), c, t)
            \/ Stage(args, p, x, DTracepath, FromTempdir(c, t), c, t)
            \/ Stage(args, p, x, DTempdir, FromResource(c, t), c, t)
            \/ Stage(args, p, x, DResource, FromName(c, t), c, t)
            \/ Stage(args, p, x, DName, ArgsOf(c), c, t)
            \/ Stage(args, p, x, DArgs, <<>>, c, t)

Stages(args, p, x, c, t) ==
  \/ p = 1 /\ Stage(args, p, x, {}, FromMode(c, t), c, t)
  \/ Later(args, p, x, c, t)

\* A step of parse() leads to a later stage or to its end.
Onward(c, t) ==
  \/ phase' = "parse" /\ Later(argv', i', cfg', c, t)
  \/ phase' = "list" /\ cfg' = Target(c, t)

LEMMA FlagRows ==
  /\ <<"-nf", "fork", FALSE>> \in Flags /\ <<"-nsi", "sysinfo", FALSE>> \in Flags
  /\ <<"--run-as-nested-process", "is_child", TRUE>> \in Flags
  /\ <<"-d", "debug", TRUE>> \in Flags /\ <<"-v", "verbose", TRUE>> \in Flags
  /\ <<"-s", "verbose", FALSE>> \in Flags
  /\ {"mode", "fork", "sysinfo", "is_child", "debug", "verbose"} \subseteq Fields
<1>1. {"mode", "fork", "sysinfo", "is_child", "debug", "verbose"} \subseteq Fields
  BY DEF Fields
<1> QED
  BY <1>1, Zenon DEF Flags

LEMMA PathRows ==
  /\ <<"-o", "outfile">> \in Paths /\ <<"-t", "tracepath">> \in Paths
  /\ <<"-td", "tempdir">> \in Paths /\ <<"-r", "resource">> \in Paths
  /\ "outfile" \in PathFields /\ "tracepath" \in PathFields /\ "tempdir" \in PathFields
  /\ "resource" \in PathFields
  /\ "-o" \in Options /\ "-t" \in Options /\ "-td" \in Options /\ "-r" \in Options
BY OptionsAre, Zenon DEF Paths, PathFields

LEMMA OnArgs ==
  ASSUME Acts, NEW c, Ready(c), NEW t, i > 1, Stage(argv, i, cfg, DArgs, <<>>, c, t)
  PROVE  Onward(c, t)
BY EndStage, Zenon DEF Onward

LEMMA OnName ==
  ASSUME Acts, NEW c, Ready(c), NEW t, i > 1, Stage(argv, i, cfg, DName, ArgsOf(c), c, t)
  PROVE  Onward(c, t)
<1>1. CASE c.args = <<>>
  <2>1. Target(c, t)["args"] = NewConfig["args"]
    BY <1>1, TargetIs, NewFields, Zenon
  <2>2. Known(DName, c, t) = Known(DName \cup {"args"}, c, t)
    BY <2>1, KnownSame
  <2>3. ArgsOf(c) = <<>>
    BY <1>1, Zenon DEF ArgsOf
  <2>4. Stage(argv, i, cfg, DArgs, <<>>, c, t)
    BY <2>2, <2>3, Zenon DEF Stage, DArgs
  <2> QED BY <2>4, OnArgs, Zenon
<1>2. CASE c.args # <<>>
  <2>1. PICK T : T = ArgTexts(c, t)
    OBVIOUS
  <2>2. <<"-a">> \in T /\ \A n \in DOMAIN c.args : c.args[n] \in T
    BY <2>1, ArgTextsAre, OptionsAre
  <2>3. Patterns(c.args)
    BY Zenon DEF Ready, Conf
  <2>4. c.args \in Seq(T)
    BY <2>2, <2>3, PatternsTyped, Zenon
  <2>5. phase' = "parse" /\ i' > 1 /\ Stage(argv', i', cfg', DArgs, <<>>, c, t)
    BY <1>2, <2>2, <2>4, ArgsStage, Zenon
  <2> QED BY <2>5, Zenon DEF Onward, Later
<1> QED
  BY <1>1, <1>2

LEMMA OnResource ==
  ASSUME Acts, NEW c, Ready(c), NEW t, Plain(t), i > 1,
         Stage(argv, i, cfg, DResource, FromName(c, t), c, t)
  PROVE  Onward(c, t)
<1>1. PICK T : T = ArgTexts(c, t)
  OBVIOUS
<1>2. FullName(t) \in T
  BY <1>1, ArgTextsAre
<1>3. ArgsOf(c) \in Seq(T)
  BY <1>1, GroupedIs DEF Grouped
<1>4. FromName(c, t) = Join(<<FullName(t)>>, ArgsOf(c))
  BY DEF FromName, Join
<1>5. phase' = "parse" /\ i' > 1 /\ Stage(argv', i', cfg', DName, ArgsOf(c), c, t)
  BY <1>2, <1>3, <1>4, NameStage, Zenon
<1> QED
  BY <1>5, Zenon DEF Onward, Later

\* A path that there is, or not
LEMMA PathOnward ==
  ASSUME Acts, NEW c, Ready(c), NEW t, NEW D, NEW o \in Options, NEW g \in PathFields,
         <<o, g>> \in Paths, NEW T, T = ArgTexts(c, t), NEW rest \in Seq(T),
         NEW z, z = Join(PathOf(c, o, g), rest), i > 1, Stage(argv, i, cfg, D, z, c, t)
  PROVE  \/ phase' = "parse" /\ i' > 1 /\ Stage(argv', i', cfg', D \cup {g}, rest, c, t)
         \/ Stage(argv, i, cfg, D \cup {g}, rest, c, t)
<1>1. CASE c[g] = <<>>
  BY <1>1, NoPathStage, Zenon
<1>2. CASE c[g] # <<>>
  <2>1. Pointer(c[g])
    BY Zenon DEF Ready, Conf
  <2>2. <<o>> \in T /\ \A n \in DOMAIN c[g] : c[g][n] \in T
    BY ArgTextsAre
  <2> QED BY <1>2, <2>1, <2>2, PathStage, Zenon
<1> QED
  BY <1>1, <1>2

LEMMA OnTempdir ==
  ASSUME Acts, NEW c, Ready(c), NEW t, Plain(t), i > 1,
         Stage(argv, i, cfg, DTempdir, FromResource(c, t), c, t)
  PROVE  Onward(c, t)
<1>1. PICK T : T = ArgTexts(c, t)
  OBVIOUS
<1>2. FromName(c, t) \in Seq(T)
  BY <1>1, GroupedIs DEF Grouped
<1>3. FromResource(c, t) = Join(PathOf(c, "-r", "resource"), FromName(c, t))
  BY DEF FromResource, Join
<1>4. \/ phase' = "parse" /\ i' > 1
           /\ Stage(argv', i', cfg', DTempdir \cup {"resource"}, FromName(c, t), c, t)
      \/ Stage(argv, i, cfg, DTempdir \cup {"resource"}, FromName(c, t), c, t)
  BY <1>1, <1>2, <1>3, PathRows, PathOnward, Zenon
<1>5. DResource = DTempdir \cup {"resource"}
  BY Zenon DEF DResource
<1> QED
  BY <1>4, <1>5, OnResource, Zenon DEF Onward, Later

LEMMA OnTracepath ==
  ASSUME Acts, NEW c, Ready(c), NEW t, Plain(t), i > 1,
         Stage(argv, i, cfg, DTracepath, FromTempdir(c, t), c, t)
  PROVE  Onward(c, t)
<1>1. PICK T : T = ArgTexts(c, t)
  OBVIOUS
<1>2. FromResource(c, t) \in Seq(T)
  BY <1>1, GroupedIs DEF Grouped
<1>3. FromTempdir(c, t) = Join(PathOf(c, "-td", "tempdir"), FromResource(c, t))
  BY DEF FromTempdir, Join
<1>4. \/ phase' = "parse" /\ i' > 1
           /\ Stage(argv', i', cfg', DTracepath \cup {"tempdir"}, FromResource(c, t), c, t)
      \/ Stage(argv, i, cfg, DTracepath \cup {"tempdir"}, FromResource(c, t), c, t)
  BY <1>1, <1>2, <1>3, PathRows, PathOnward, Zenon
<1>5. DTempdir = DTracepath \cup {"tempdir"}
  BY Zenon DEF DTempdir
<1> QED
  BY <1>4, <1>5, OnTempdir, Zenon DEF Onward, Later

LEMMA OnOutfile ==
  ASSUME Acts, NEW c, Ready(c), NEW t, Plain(t), i > 1,
         Stage(argv, i, cfg, DOutfile, FromTracepath(c, t), c, t)
  PROVE  Onward(c, t)
<1>1. PICK T : T = ArgTexts(c, t)
  OBVIOUS
<1>2. FromTempdir(c, t) \in Seq(T)
  BY <1>1, GroupedIs DEF Grouped
<1>3. FromTracepath(c, t) = Join(PathOf(c, "-t", "tracepath"), FromTempdir(c, t))
  BY DEF FromTracepath, Join
<1>4. \/ phase' = "parse" /\ i' > 1
           /\ Stage(argv', i', cfg', DOutfile \cup {"tracepath"}, FromTempdir(c, t), c, t)
      \/ Stage(argv, i, cfg, DOutfile \cup {"tracepath"}, FromTempdir(c, t), c, t)
  BY <1>1, <1>2, <1>3, PathRows, PathOnward, Zenon
<1>5. DTracepath = DOutfile \cup {"tracepath"}
  BY Zenon DEF DTracepath
<1> QED
  BY <1>4, <1>5, OnTracepath, Zenon DEF Onward, Later

LEMMA OnVerbose ==
  ASSUME Acts, NEW c, Ready(c), NEW t, Plain(t), i > 1,
         Stage(argv, i, cfg, DVerbose, FromOutfile(c, t), c, t)
  PROVE  Onward(c, t)
<1>1. PICK T : T = ArgTexts(c, t)
  OBVIOUS
<1>2. FromTracepath(c, t) \in Seq(T)
  BY <1>1, GroupedIs DEF Grouped
<1>3. FromOutfile(c, t) = Join(PathOf(c, "-o", "outfile"), FromTracepath(c, t))
  BY DEF FromOutfile, Join
<1>4. \/ phase' = "parse" /\ i' > 1
           /\ Stage(argv', i', cfg', DVerbose \cup {"outfile"}, FromTracepath(c, t), c, t)
      \/ Stage(argv, i, cfg, DVerbose \cup {"outfile"}, FromTracepath(c, t), c, t)
  BY <1>1, <1>2, <1>3, PathRows, PathOnward, Zenon
<1>5. DOutfile = DVerbose \cup {"outfile"}
  BY Zenon DEF DOutfile
<1> QED
  BY <1>4, <1>5, OnOutfile, Zenon DEF Onward, Later

LEMMA OnDebug ==
  ASSUME Acts, NEW c, Ready(c), NEW t, Plain(t), i > 1,
         Stage(argv, i, cfg, DDebug, FromVerbose(c, t), c, t)
  PROVE  Onward(c, t)
<1>1. PICK T : T = ArgTexts(c, t)
  OBVIOUS
<1>2. FromOutfile(c, t) \in Seq(T)
  BY <1>1, GroupedIs DEF Grouped
<1>3. <<"-v">> \in T /\ <<"-s">> \in T
  BY <1>1, ArgTextsAre, OptionsAre
<1>4. c.verbose \in BOOLEAN
  BY Zenon DEF Ready, Conf
<1>5. Target(c, t)["verbose"] = c.verbose
  BY DEF Target
<1>6. CASE c.verbose = TRUE
  <2>1. FromVerbose(c, t) = Join(<< <<"-v">> >>, FromOutfile(c, t))
    BY <1>6 DEF FromVerbose, VerboseOf, Join
  <2>2. TRUE = Target(c, t)["verbose"]
    BY <1>5, <1>6
  <2>3. phase' = "parse" /\ i' > 1
          /\ Stage(argv', i', cfg', DDebug \cup {"verbose"}, FromOutfile(c, t), c, t)
    BY <1>2, <1>3, <2>1, <2>2, FlagRows, FlagStage, Zenon
  <2> QED BY <2>3, Zenon DEF Onward, Later, DVerbose
<1>7. CASE c.verbose = FALSE
  <2>1. FromVerbose(c, t) = Join(<< <<"-s">> >>, FromOutfile(c, t))
    BY <1>7 DEF FromVerbose, VerboseOf, Join
  <2>2. FALSE = Target(c, t)["verbose"]
    BY <1>5, <1>7
  <2>3. phase' = "parse" /\ i' > 1
          /\ Stage(argv', i', cfg', DDebug \cup {"verbose"}, FromOutfile(c, t), c, t)
    BY <1>2, <1>3, <2>1, <2>2, FlagRows, FlagStage, Zenon
  <2> QED BY <2>3, Zenon DEF Onward, Later, DVerbose
<1> QED
  BY <1>4, <1>6, <1>7

LEMMA OnFork ==
  ASSUME Acts, NEW c, Ready(c), NEW t, Plain(t), i > 1,
         Stage(argv, i, cfg, DFork, FromDebug(c, t), c, t)
  PROVE  Onward(c, t)
<1>1. PICK T : T = ArgTexts(c, t)
  OBVIOUS
<1>2. FromVerbose(c, t) \in Seq(T)
  BY <1>1, GroupedIs DEF Grouped
<1>3. <<"-d">> \in T
  BY <1>1, ArgTextsAre, OptionsAre
<1>4. c.debug \in BOOLEAN
  BY Zenon DEF Ready, Conf
<1>5. Target(c, t)["debug"] = c.debug
  BY TargetIs, Zenon
<1>6. CASE c.debug = TRUE
  <2>1. FromDebug(c, t) = Join(<< <<"-d">> >>, FromVerbose(c, t))
    BY <1>6 DEF FromDebug, DebugOf, Join
  <2>2. TRUE = Target(c, t)["debug"]
    BY <1>5, <1>6
  <2>3. phase' = "parse" /\ i' > 1
          /\ Stage(argv', i', cfg', DFork \cup {"debug"}, FromVerbose(c, t), c, t)
    BY <1>2, <1>3, <2>1, <2>2, FlagRows, FlagStage, Zenon
  <2> QED BY <2>3, Zenon DEF Onward, Later, DDebug
<1>7. CASE c.debug = FALSE
  <2>1. FromDebug(c, t) = Join(<<>>, FromVerbose(c, t))
    BY <1>7 DEF FromDebug, DebugOf, Join
  <2>2. Target(c, t)["debug"] = NewConfig["debug"]
    BY <1>5, <1>7, NewFields
  <2>3. Stage(argv, i, cfg, DFork \cup {"debug"}, FromVerbose(c, t), c, t)
    BY <1>2, <2>1, <2>2, SameStage, Zenon
  <2>4. DDebug = DFork \cup {"debug"}
    BY Zenon DEF DDebug
  <2> QED BY <2>3, <2>4, OnDebug, Zenon
<1> QED
  BY <1>4, <1>6, <1>7

LEMMA OnSysinfo ==
  ASSUME Acts, NEW c, Ready(c), NEW t, Plain(t), i > 1,
         Stage(argv, i, cfg, DSysinfo, FromFork(c, t), c, t)
  PROVE  Onward(c, t)
<1>1. PICK T : T = ArgTexts(c, t)
  OBVIOUS
<1>2. FromDebug(c, t) \in Seq(T)
  BY <1>1, GroupedIs DEF Grouped
<1>3. <<"-nf">> \in T
  BY <1>1, ArgTextsAre, OptionsAre
<1>4. FromFork(c, t) = Join(<< <<"-nf">> >>, FromDebug(c, t))
  BY DEF FromFork, Join
<1>5. FALSE = Target(c, t)["fork"]
  BY DEF Target
<1>6. phase' = "parse" /\ i' > 1
        /\ Stage(argv', i', cfg', DSysinfo \cup {"fork"}, FromDebug(c, t), c, t)
  BY <1>2, <1>3, <1>4, <1>5, FlagRows, FlagStage, Zenon
<1> QED
  BY <1>6, Zenon DEF Onward, Later, DFork

LEMMA OnChild ==
  ASSUME Acts, NEW c, Ready(c), NEW t, Plain(t), i > 1,
         Stage(argv, i, cfg, DChild, FromSysinfo(c, t), c, t)
  PROVE  Onward(c, t)
<1>1. PICK T : T = ArgTexts(c, t)
  OBVIOUS
<1>2. FromFork(c, t) \in Seq(T)
  BY <1>1, GroupedIs DEF Grouped
<1>3. <<"-nsi">> \in T
  BY <1>1, ArgTextsAre, OptionsAre
<1>4. FromSysinfo(c, t) = Join(<< <<"-nsi">> >>, FromFork(c, t))
  BY DEF FromSysinfo, Join
<1>5. FALSE = Target(c, t)["sysinfo"]
  BY DEF Target
<1>6. phase' = "parse" /\ i' > 1
        /\ Stage(argv', i', cfg', DChild \cup {"sysinfo"}, FromFork(c, t), c, t)
  BY <1>2, <1>3, <1>4, <1>5, FlagRows, FlagStage, Zenon
<1> QED
  BY <1>6, Zenon DEF Onward, Later, DSysinfo

LEMMA OnMode ==
  ASSUME Acts, NEW c, Ready(c), NEW t, Plain(t), i > 1,
         Stage(argv, i, cfg, DMode, FromChild(c, t), c, t)
  PROVE  Onward(c, t)
<1>1. PICK T : T = ArgTexts(c, t)
  OBVIOUS
<1>2. FromSysinfo(c, t) \in Seq(T)
  BY <1>1, GroupedIs DEF Grouped
<1>3. <<"--run-as-nested-process">> \in T
  BY <1>1, ArgTextsAre, OptionsAre
<1>4. FromChild(c, t) = Join(<< <<"--run-as-nested-process">> >>, FromSysinfo(c, t))
  BY DEF FromChild, Join
<1>5. TRUE = Target(c, t)["is_child"]
  BY DEF Target
<1>6. phase' = "parse" /\ i' > 1
        /\ Stage(argv', i', cfg', DMode \cup {"is_child"}, FromSysinfo(c, t), c, t)
  BY <1>2, <1>3, <1>4, <1>5, FlagRows, FlagStage, Zenon
<1> QED
  BY <1>6, Zenon DEF Onward, Later, DChild

LEMMA OnNothing ==
  ASSUME Acts, NEW c, Ready(c), NEW t, Plain(t), i = 1,
         Stage(argv, i, cfg, {}, FromMode(c, t), c, t)
  PROVE  Onward(c, t)
<1>1. PICK T : T = ArgTexts(c, t)
  OBVIOUS
<1>2. FromChild(c, t) \in Seq(T)
  BY <1>1, GroupedIs DEF Grouped
<1>3. PICK m \in Modes : m = c.mode
  BY Zenon DEF Ready
<1>4. <<m>> \in T
  BY <1>1, ArgTextsAre
<1>5. PICK z : z = FromMode(c, t)
  OBVIOUS
<1>6. z = Join(<< <<m>> >>, FromChild(c, t))
  BY <1>3, <1>5 DEF FromMode, Join
<1>7. Left(argv, i, z) /\ cfg = Known({}, c, t)
  BY <1>5, Zenon DEF Stage
<1>8. PICK q : q = i + 1
  OBVIOUS
<1>9. i \in 1..Len(argv) /\ argv[i] = <<m>> /\ Left(argv, q, FromChild(c, t)) /\ q > 1
  BY <1>2, <1>4, <1>6, <1>7, <1>8, LeftFirst
<1>10. argv # <<>> /\ argv[1] = <<m>> /\ q = 2
  BY <1>8, <1>9
<1>11. phase' = "parse" /\ i' = 2 /\ cfg' = [cfg EXCEPT !["mode"] = m]
  BY <1>10, ReadAsMode, Zenon
<1>12. Target(c, t)["mode"] = m
  BY <1>3 DEF Target
<1>13. cfg' = Known({} \cup {"mode"}, c, t)
  <2>1. cfg' = With(cfg, "mode", Target(c, t)["mode"])
    BY <1>11, <1>12, Zenon DEF With
  <2>2. With(Known({}, c, t), "mode", Target(c, t)["mode"]) = Known({} \cup {"mode"}, c, t)
    BY FlagRows, KnownWith
  <2> QED BY <1>7, <2>1, <2>2, Zenon
<1>14. {} \cup {"mode"} = DMode
  BY DEF DMode
<1>15. argv' = argv
  BY ActsKeep
<1>16. Stage(argv', i', cfg', DMode, FromChild(c, t), c, t) /\ i' > 1
  BY <1>9, <1>10, <1>11, <1>13, <1>14, <1>15, Zenon DEF Stage
<1> QED
  BY <1>11, <1>16, Zenon DEF Onward, Later

LEMMA StagesGo ==
  ASSUME Acts, NEW c, Ready(c), NEW t, Plain(t), Stages(argv, i, cfg, c, t)
  PROVE  Onward(c, t)
<1>1. \/ i = 1 /\ Stage(argv, i, cfg, {}, FromMode(c, t), c, t)
      \/ Later(argv, i, cfg, c, t)
  BY Zenon DEF Stages
<1>2. Later(argv, i, cfg, c, t) => Onward(c, t)
  BY OnMode, OnChild, OnSysinfo, OnFork, OnDebug, OnVerbose, OnOutfile, OnTracepath,
    OnTempdir, OnResource, OnName, OnArgs, Zenon DEF Later
<1> QED
  BY <1>1, <1>2, OnNothing, Zenon

-----------------------------------------------------------------------------
(* The invariant of the processes *)

\* The process that was started for test t by one of configuration c
Nest(c, t) ==
  /\ phase \in {"parse", "list", "run"} =>
       ~Duplicates(list) /\ executed = <<>> /\ \E p \in k..Len(list) : list[p] = t
  /\ phase \in {"parse", "list"} => k = 1
  /\ phase = "parse" => Stages(argv, i, cfg, c, t)
  /\ phase \in {"list", "run"} => cfg = Target(c, t)
  /\ phase = "stopped" => executed = <<t>>

\* A process that waits
Frame(w) ==
  /\ Ready(w.cfg) /\ Registered(w.list) /\ ~Duplicates(w.list)
  /\ w.k \in 1..Len(w.list) /\ ~w.list[w.k].off

\* The process that runs
Current ==
  /\ phase \in {"parse", "list", "run", "stopped"}
  /\ Conf(cfg) /\ Registered(list)
  /\ phase = "parse" => Patterns(argv) /\ i \in Nat \ {0} /\ (i > 1 => cfg.mode \in Modes)
  /\ phase \in {"parse", "list"} => k = 1
  /\ phase \in {"list", "run"} => Ready(cfg)
  /\ phase = "run" => ~Duplicates(list) /\ k \in 1..(Len(list) + 1)

\* Only a process that does not get what its runner wrote starts another one.
Frames ==
  /\ IsSeq(caller)
  /\ \A n \in DOMAIN caller : Frame(caller[n])
  /\ \A n \in DOMAIN caller : n # 1 => ~CarriedBy(caller[n].cfg)

Carries ==
  caller # <<>> /\ CarriedBy(caller[1].cfg) =>
    Nest(caller[1].cfg, caller[1].list[caller[1].k])

Base == IF caller = <<>> THEN cfg ELSE caller[Len(caller)].cfg

Ran ==
  /\ IsSeq(runs)
  /\ caller = <<>> /\ phase \in {"parse", "list"} => runs = <<>>
  /\ CarriedBy(Base) => \A n \in DOMAIN runs : runs[n].executed = <<runs[n].test>>

NestInv == Current /\ Frames /\ Carries /\ Ran

LEMMA FieldSet ==
  ASSUME NEW x, x = [f \in Fields |-> x[f]], NEW g \in Fields, NEW v, NEW y, y = [x EXCEPT ![g] = v]
  PROVE  y = [f \in Fields |-> y[f]] /\ y[g] = v /\ \A f \in Fields : f # g => y[f] = x[f]
<1> HIDE DEF Fields
<1> QED OBVIOUS

LEMMA FieldsAre ==
  /\ {"mode", "list", "ignore", "args", "debug", "verbose"} \subseteq Fields
  /\ PathFields \subseteq Fields
  /\ \A f \in PathFields : f \notin {"mode", "list", "ignore", "args", "debug", "verbose"}
  /\ {"mode", "list", "ignore", "args", "debug", "verbose", "threads", "fork", "suppress",
      "sysinfo", "list_all", "ilist", "is_child"} \cap PathFields = {}
  /\ {"threads", "fork", "suppress", "sysinfo", "list_all", "ilist", "is_child"} \subseteq Fields
BY DEF Fields, PathFields

LEMMA ConfNew ==
  Conf(NewConfig)
<1>1. NewConfig = [f \in Fields |-> NewConfig[f]]
  BY NewFields
<1>2. \A f \in PathFields : Pointer(NewConfig[f])
  BY NewFields, Zenon DEF Pointer
<1>3. Patterns(<<>>)
  BY DEF Patterns, IsSeq
<1>4. /\ NewConfig.list = <<>> /\ NewConfig.ignore = <<>> /\ NewConfig.args = <<>>
      /\ NewConfig.debug \in BOOLEAN /\ NewConfig.verbose \in BOOLEAN
  BY DEF NewConfig
<1> QED
  BY <1>1, <1>2, <1>3, <1>4, Zenon DEF Conf

\* What a step of parse() does to a configuration
LEMMA ConfSet ==
  ASSUME NEW x, Conf(x), NEW g \in Fields, NEW v, NEW y, y = [x EXCEPT ![g] = v],
         g \in {"debug", "verbose"} => v \in BOOLEAN,
         g \in {"list", "ignore", "args"} => Patterns(v),
         g \in PathFields => Pointer(v)
  PROVE  Conf(y) /\ (g # "mode" => y.mode = x.mode)
<1>1. /\ x = [f \in Fields |-> x[f]]
      /\ Patterns(x["list"]) /\ Patterns(x["ignore"]) /\ Patterns(x["args"])
      /\ \A f \in PathFields : Pointer(x[f])
      /\ x["debug"] \in BOOLEAN /\ x["verbose"] \in BOOLEAN
  BY DEF Conf
<1>2. y = [f \in Fields |-> y[f]] /\ y[g] = v /\ \A f \in Fields : f # g => y[f] = x[f]
  BY <1>1, FieldSet
<1>3. /\ "mode" \in Fields /\ "list" \in Fields /\ "ignore" \in Fields /\ "args" \in Fields
      /\ "debug" \in Fields /\ "verbose" \in Fields /\ \A f \in PathFields : f \in Fields
  BY FieldsAre
<1>4. \A f \in PathFields : Pointer(y[f])
  BY <1>1, <1>2, <1>3, Zenon
<1>5. Patterns(y["list"]) /\ Patterns(y["ignore"]) /\ Patterns(y["args"])
  BY <1>1, <1>2, <1>3, Zenon
<1>6. y["debug"] \in BOOLEAN /\ y["verbose"] \in BOOLEAN
  BY <1>1, <1>2, <1>3, Zenon
<1>7. g # "mode" => y["mode"] = x["mode"]
  BY <1>2, <1>3, Zenon
<1> QED
  BY <1>2, <1>4, <1>5, <1>6, <1>7 DEF Conf

LEMMA PatternsJoin ==
  ASSUME NEW x, Patterns(x), NEW y, Patterns(y), NEW z, z = x \o y
  PROVE  Patterns(z)
<1> DEFINE S == {x[n] : n \in DOMAIN x} \cup {y[n] : n \in DOMAIN y}
<1>1. \A s \in S : IsSeq(s)
  BY DEF Patterns
<1>2. \A n \in DOMAIN x : x[n] \in S
  OBVIOUS
<1>3. \A n \in DOMAIN y : y[n] \in S
  OBVIOUS
<1> HIDE DEF S
<1>4. x \in Seq(S) /\ y \in Seq(S)
  BY <1>2, <1>3, PatternsTyped, Zenon
<1>5. z \in Seq(S)
  BY <1>4, Together
<1>6. \A n \in DOMAIN z : z[n] \in S
  BY <1>5
<1>7. IsSeq(z)
  BY <1>5, IsSeqOf
<1> QED
  BY <1>1, <1>6, <1>7, Zenon DEF Patterns

LEMMA PatternsRest ==
  ASSUME NEW x, Patterns(x), NEW p \in Nat \ {0}, NEW z, z = SubSeq(x, p, Len(x))
  PROVE  Patterns(z)
<1> DEFINE S == {x[n] : n \in DOMAIN x}
<1>1. \A s \in S : IsSeq(s)
  BY DEF Patterns
<1>2. \A n \in DOMAIN x : x[n] \in S
  OBVIOUS
<1> HIDE DEF S
<1>3. x \in Seq(S)
  BY <1>2, PatternsTyped, Zenon
<1>4. z \in Seq(S)
  <2>1. PICK L \in Nat : L = Len(x)
    BY <1>3
  <2>2. \A j \in p..L : x[j] \in S
    BY <1>3, <2>1
  <2>3. p \in Int /\ L \in Int
    BY <2>1
  <2> QED BY <2>1, <2>2, <2>3, SubSeqProperties
<1>5. \A n \in DOMAIN z : z[n] \in S
  BY <1>4
<1>6. IsSeq(z)
  BY <1>4, IsSeqOf
<1> QED
  BY <1>1, <1>5, <1>6, Zenon DEF Patterns

-----------------------------------------------------------------------------
(* The process that runs stays well-formed *)

LEMMA RowFields ==
  ASSUME NEW o, NEW g, NEW v, Row(o, g, v)
  PROVE  /\ g \in {"debug", "verbose", "fork", "suppress", "sysinfo", "list_all", "ilist",
                   "is_child"}
         /\ v \in BOOLEAN
<1>1. g \in {"debug", "verbose", "fork", "suppress", "sysinfo", "list_all", "ilist",
             "is_child"}
  BY DEF Row
<1>2. v = TRUE \/ v = FALSE
  BY Zenon DEF Row
<1> QED
  BY <1>1, <1>2

LEMMA FlagFields ==
  ASSUME NEW f \in Flags
  PROVE  /\ f[2] \in Fields /\ f[2] # "mode" /\ f[2] \notin {"list", "ignore", "args"}
         /\ f[2] \notin PathFields /\ f[3] \in BOOLEAN
<1>1. PICK o, g, v : f = <<o, g, v>> /\ Row(o, g, v)
  BY FlagRow, Zenon
<1>2. f[2] = g /\ f[3] = v
  BY <1>1
<1>3. /\ g \in {"debug", "verbose", "fork", "suppress", "sysinfo", "list_all", "ilist",
                "is_child"}
      /\ v \in BOOLEAN
  BY <1>1, RowFields
<1>4. g # "mode" /\ g \notin {"list", "ignore", "args"}
  BY <1>3
<1>5. g \in Fields /\ g \notin PathFields
  BY <1>3, FieldsAre
<1> QED
  BY <1>2, <1>3, <1>4, <1>5, Zenon

LEMMA PathsFields ==
  ASSUME NEW f \in Paths
  PROVE  /\ f[2] \in PathFields /\ f[2] \in Fields
         /\ f[2] \notin {"mode", "list", "ignore", "args", "debug", "verbose"}
<1>1. f[2] \in PathFields
  BY DEF Paths, PathFields
<1> QED
  BY <1>1, FieldsAre

\* What a step of parse() leaves of the configuration
Parses ==
  /\ phase' \in {"parse", "stopped"}
  /\ Conf(cfg') /\ i' \in Nat \ {0}
  /\ phase' = "parse" => cfg'.mode \in Modes

LEMMA ModeParses ==
  ASSUME Current, ParseMode
  PROVE  Parses
<1>1. Conf(cfg)
  BY Zenon DEF Current
<1>2. CASE argv # <<>> /\ argv[1] \in {<<m>> : m \in Modes}
  <2>1. cfg' = [cfg EXCEPT !["mode"] = argv[1][1]] /\ i' = 2 /\ phase' = "parse"
    BY <1>2, Zenon DEF ParseMode
  <2>2. PICK m \in Modes : argv[1] = <<m>>
    BY <1>2, Zenon
  <2>3. argv[1][1] = m
    BY <2>2
  <2>4. PICK x : x = cfg
    OBVIOUS
  <2>5. PICK y : y = [x EXCEPT !["mode"] = m]
    OBVIOUS
  <2>6. cfg' = y
    BY <2>1, <2>3, <2>4, <2>5, Zenon
  <2>7. x = [f \in Fields |-> x[f]]
    BY <1>1, <2>4, Zenon DEF Conf
  <2>8. "mode" \in Fields /\ "mode" \notin {"debug", "verbose", "list", "ignore", "args"}
        /\ "mode" \notin PathFields
    BY FieldsAre
  <2>9. Conf(y)
    BY <1>1, <2>4, <2>5, <2>8, ConfSet
  <2>10. y["mode"] = m
    BY <2>5, <2>7, <2>8, FieldSet
  <2>11. i' \in Nat \ {0}
    BY <2>1
  <2> QED BY <2>1, <2>2, <2>6, <2>9, <2>10, <2>11 DEF Parses
<1>3. CASE ~(argv # <<>> /\ argv[1] \in {<<m>> : m \in Modes})
  <2>1. phase' = "stopped" /\ cfg' = cfg /\ i' = 2
    BY <1>3, Zenon DEF ParseMode, Stop
  <2>2. phase' \in {"parse", "stopped"} /\ phase' # "parse" /\ i' \in Nat \ {0}
    BY <2>1
  <2> QED BY <1>1, <2>1, <2>2, Zenon DEF Parses
<1> QED
  BY <1>2, <1>3, Zenon

LEMMA PastFirst ==
  ASSUME Current, phase = "parse", i \in 2..Len(argv)
  PROVE  /\ Conf(cfg) /\ cfg.mode \in Modes /\ Patterns(argv) /\ i \in Nat \ {0}
         /\ Len(argv) \in Nat /\ IsSeq(argv[i])
<1>1. Conf(cfg) /\ Patterns(argv) /\ i \in Nat \ {0} /\ (i > 1 => cfg.mode \in Modes)
  BY Zenon DEF Current
<1>2. i > 1
  BY <1>1
<1>3. IsSeq(argv) /\ \A n \in DOMAIN argv : IsSeq(argv[n])
  BY <1>1, Zenon DEF Patterns
<1>4. Len(argv) \in Nat /\ DOMAIN argv = 1..Len(argv)
  BY <1>3, SequenceIs
<1>5. i \in DOMAIN argv
  BY <1>1, <1>4
<1> QED
  BY <1>1, <1>2, <1>3, <1>4, <1>5, Zenon

LEMMA FlagParses ==
  ASSUME Current, ParseFlag
  PROVE  Parses
<1>1. PICK f \in Flags : Parsed(f[1]) /\ cfg' = [cfg EXCEPT ![f[2]] = f[3]]
  BY Zenon DEF ParseFlag
<1>2. phase = "parse" /\ i \in 2..Len(argv)
  BY <1>1, Zenon DEF Parsed
<1>3. Conf(cfg) /\ cfg.mode \in Modes /\ i \in Nat \ {0}
  BY <1>2, PastFirst, Zenon
<1>4. PICK g : g = f[2]
  OBVIOUS
<1>5. PICK v : v = f[3]
  OBVIOUS
<1>6. PICK x : x = cfg
  OBVIOUS
<1>7. PICK y : y = [x EXCEPT ![g] = v]
  OBVIOUS
<1>8. cfg' = y
  BY <1>1, <1>4, <1>5, <1>6, <1>7, Zenon
<1>9. /\ g \in Fields /\ g # "mode" /\ g \notin {"list", "ignore", "args"}
      /\ g \notin PathFields /\ v \in BOOLEAN
  BY <1>4, <1>5, FlagFields, Zenon
<1>10. Conf(y) /\ y.mode = x.mode
  BY <1>3, <1>6, <1>7, <1>9, ConfSet
<1>11. i' = i + 1 /\ phase' = "parse"
  BY <1>2, Zenon DEF ParseFlag
<1>12. i' \in Nat \ {0} /\ phase' \in {"parse", "stopped"}
  BY <1>3, <1>11
<1> QED
  BY <1>3, <1>6, <1>8, <1>10, <1>12, Zenon DEF Parses

LEMMA PathParses ==
  ASSUME Current, ParsePath
  PROVE  Parses
<1>1. PICK f \in Paths :
        /\ Parsed(f[1])
        /\ IF i < Len(argv)
           THEN cfg' = [cfg EXCEPT ![f[2]] = <<argv[i + 1]>>] /\ UNCHANGED <<phase, status>>
           ELSE Stop(INVALID_VALUE) /\ UNCHANGED cfg
        /\ i' = i + 2
  BY Zenon DEF ParsePath
<1>2. phase = "parse" /\ i \in 2..Len(argv)
  BY <1>1, Zenon DEF Parsed
<1>3. Conf(cfg) /\ cfg.mode \in Modes /\ i \in Nat \ {0} /\ Patterns(argv) /\ Len(argv) \in Nat
  BY <1>2, PastFirst, Zenon
<1>4. i' \in Nat \ {0}
  BY <1>1, <1>3
<1>5. CASE i < Len(argv)
  <2>1. cfg' = [cfg EXCEPT ![f[2]] = <<argv[i + 1]>>] /\ phase' = "parse"
    BY <1>1, <1>2, <1>5
  <2>2. PICK g : g = f[2]
    OBVIOUS
  <2>3. PICK text : text = argv[i + 1]
    OBVIOUS
  <2>4. PICK v : v = <<text>>
    OBVIOUS
  <2>5. PICK x : x = cfg
    OBVIOUS
  <2>6. PICK y : y = [x EXCEPT ![g] = v]
    OBVIOUS
  <2>7. cfg' = y
    BY <2>1, <2>2, <2>3, <2>4, <2>5, <2>6, Zenon
  <2>8. IsSeq(text)
    <3>1. IsSeq(argv) /\ \A n \in DOMAIN argv : IsSeq(argv[n])
      BY <1>3, Zenon DEF Patterns
    <3>2. DOMAIN argv = 1..Len(argv)
      BY <3>1, SequenceIs
    <3>3. i + 1 \in DOMAIN argv
      BY <1>3, <1>5, <3>2
    <3> QED BY <2>3, <3>1, <3>3, Zenon
  <2>9. Pointer(v)
    BY <2>4, <2>8, Zenon DEF Pointer
  <2>10. /\ g \in Fields
         /\ g \notin {"mode", "list", "ignore", "args", "debug", "verbose"}
    BY <2>2, PathsFields, Zenon
  <2>11. Conf(y) /\ y.mode = x.mode
    BY <1>3, <2>5, <2>6, <2>9, <2>10, ConfSet
  <2>12. phase' \in {"parse", "stopped"}
    BY <2>1
  <2> QED BY <1>3, <1>4, <2>5, <2>7, <2>11, <2>12, Zenon DEF Parses
<1>6. CASE ~(i < Len(argv))
  <2>1. phase' = "stopped" /\ cfg' = cfg
    BY <1>1, <1>6, Zenon DEF Stop
  <2>2. phase' \in {"parse", "stopped"}
    BY <2>1
  <2> QED BY <1>3, <1>4, <2>1, <2>2, Zenon DEF Parses
<1> QED
  BY <1>5, <1>6

LEMMA ArgsParses ==
  ASSUME Current, ParseArgs
  PROVE  Parses
<1>2. phase = "parse" /\ i \in 2..Len(argv)
  BY Zenon DEF ParseArgs, Parsed
<1>3. Conf(cfg) /\ cfg.mode \in Modes /\ i \in Nat \ {0} /\ Patterns(argv) /\ Len(argv) \in Nat
  BY <1>2, PastFirst, Zenon
<1>4. PICK x : x = cfg
  OBVIOUS
<1>5. PICK rest : rest = SubSeq(argv, i + 1, Len(argv))
  OBVIOUS
<1>6. PICK args : args = x["args"]
  OBVIOUS
<1>7. PICK v : v = args \o rest
  OBVIOUS
<1>8. PICK y : y = [x EXCEPT !["args"] = v]
  OBVIOUS
<1>9. cfg' = y
  BY <1>4, <1>5, <1>6, <1>7, <1>8 DEF ParseArgs
<1>10. Patterns(rest)
  <2>1. i + 1 \in Nat \ {0}
    BY <1>3
  <2> QED BY <1>3, <1>5, <2>1, PatternsRest, Zenon
<1>11. Patterns(args)
  BY <1>3, <1>4, <1>6 DEF Conf
<1>12. Patterns(v)
  BY <1>7, <1>10, <1>11, PatternsJoin
<1>13. "args" \in Fields /\ "args" \notin {"debug", "verbose", "mode"} /\ "args" \notin PathFields
  BY FieldsAre
<1>14. Conf(y) /\ y.mode = x.mode
  BY <1>3, <1>4, <1>8, <1>12, <1>13, ConfSet
<1>15. i' = Len(argv) + 1 /\ phase' = phase
  BY Zenon DEF ParseArgs
<1>16. i' \in Nat \ {0} /\ phase' \in {"parse", "stopped"}
  BY <1>2, <1>3, <1>15
<1> QED
  BY <1>3, <1>4, <1>9, <1>14, <1>16, Zenon DEF Parses

LEMMA JobsParses ==
  ASSUME Current, ParseJobs
  PROVE  Parses
<1>2. phase = "parse" /\ i \in 2..Len(argv) /\ i' = i + 2
  BY Zenon DEF ParseJobs, Parsed
<1>3. Conf(cfg) /\ cfg.mode \in Modes /\ i \in Nat \ {0}
  BY <1>2, PastFirst, Zenon
<1>4. i' \in Nat \ {0}
  BY <1>2, <1>3
<1>5. CASE i < Len(argv) /\ argv[i + 1] \in DOMAIN Numeral /\ Numeral[argv[i + 1]] > 0
  <2>1. PICK v : v = Numeral[argv[i + 1]]
    OBVIOUS
  <2>2. PICK x : x = cfg
    OBVIOUS
  <2>3. PICK y : y = [x EXCEPT !["threads"] = v]
    OBVIOUS
  <2>4. cfg' = y /\ phase' = "parse"
    BY <1>2, <1>5, <2>1, <2>2, <2>3, Zenon DEF ParseJobs
  <2>5. /\ "threads" \in Fields /\ "threads" \notin PathFields
        /\ "threads" \notin {"debug", "verbose", "mode", "list", "ignore", "args"}
    BY FieldsAre
  <2>6. Conf(y) /\ y.mode = x.mode
    BY <1>3, <2>2, <2>3, <2>5, ConfSet
  <2>7. phase' \in {"parse", "stopped"}
    BY <2>4
  <2> QED BY <1>3, <1>4, <2>2, <2>4, <2>6, <2>7, Zenon DEF Parses
<1>6. CASE ~(i < Len(argv) /\ argv[i + 1] \in DOMAIN Numeral /\ Numeral[argv[i + 1]] > 0)
  <2>1. phase' = "stopped" /\ cfg' = cfg
    BY <1>6, Zenon DEF ParseJobs, Stop
  <2>2. phase' \in {"parse", "stopped"}
    BY <2>1
  <2> QED BY <1>3, <1>4, <2>1, <2>2, Zenon DEF Parses
<1> QED
  BY <1>5, <1>6

LEMMA HelpParses ==
  ASSUME Current, ParseHelp
  PROVE  Parses
<1>1. phase = "parse" /\ i \in 2..Len(argv) /\ i' = i /\ cfg' = cfg /\ phase' = "stopped"
  BY DEF ParseHelp, Parsed, Stop, parsing
<1>2. Conf(cfg) /\ cfg.mode \in Modes /\ i \in Nat \ {0}
  BY <1>1, PastFirst, Zenon
<1>3. phase' \in {"parse", "stopped"}
  BY <1>1
<1> QED
  BY <1>1, <1>2, <1>3, Zenon DEF Parses

LEMMA NameParses ==
  ASSUME Current, ParseName
  PROVE  Parses
<1>1. phase = "parse" /\ i \in 2..Len(argv) /\ i' = i + 1 /\ phase' = phase
  BY Zenon DEF ParseName
<1>2. Conf(cfg) /\ cfg.mode \in Modes /\ i \in Nat \ {0} /\ IsSeq(argv[i])
  BY <1>1, PastFirst, Zenon
<1>3. i' \in Nat \ {0} /\ phase' \in {"parse", "stopped"}
  BY <1>1, <1>2
<1>4. PICK x : x = cfg
  OBVIOUS
<1>5. PICK text : text = argv[i]
  OBVIOUS
<1>6. \E g \in {"list", "ignore"} : cfg' = [x EXCEPT ![g] = Append(x[g], text)]
  <2>1. \/ cfg' = [x EXCEPT !["ignore"] = Append(x["ignore"], text)]
        \/ cfg' = [x EXCEPT !["list"] = Append(x["list"], text)]
    BY <1>4, <1>5 DEF ParseName
  <2> QED BY <2>1, Zenon
<1>7. PICK g \in {"list", "ignore"} : cfg' = [x EXCEPT ![g] = Append(x[g], text)]
  BY <1>6, Zenon
<1>8. Patterns(x[g])
  BY <1>2, <1>4 DEF Conf
<1>9. PICK old : old = x[g]
  OBVIOUS
<1>10. PICK v : v = Append(old, text)
  OBVIOUS
<1>11. PICK y : y = [x EXCEPT ![g] = v]
  OBVIOUS
<1>12. Patterns(v)
  BY <1>2, <1>5, <1>8, <1>9, <1>10, PatternsGrow
<1>13. g \in Fields /\ g \notin PathFields /\ g \notin {"debug", "verbose", "mode"}
  BY FieldsAre
<1>14. Conf(y) /\ y.mode = x.mode
  BY <1>2, <1>4, <1>11, <1>12, <1>13, ConfSet
<1>15. cfg' = y
  BY <1>7, <1>9, <1>10, <1>11, Zenon
<1> QED
  BY <1>2, <1>3, <1>4, <1>14, <1>15, Zenon DEF Parses

LEMMA EndReady ==
  ASSUME Current, ParseEnds
  PROVE  phase' = "list" /\ Ready(cfg')
<1>1. /\ phase = "parse" /\ i > 1 /\ phase' = "list"
      /\ cfg' = [f \in DOMAIN cfg |->
                   IF f \in DOMAIN Default /\ cfg[f] = <<>> THEN <<Default[f]>> ELSE cfg[f]]
  BY Zenon DEF ParseEnds
<1>2. Conf(cfg) /\ cfg.mode \in Modes
  BY <1>1, Zenon DEF Current
<1>3. PICK x : x = cfg
  OBVIOUS
<1>4. PICK y : y = [f \in Fields |->
                      IF f \in DOMAIN Default /\ x[f] = <<>> THEN <<Default[f]>> ELSE x[f]]
  OBVIOUS
<1>5. x = [f \in Fields |-> x[f]]
  BY <1>2, <1>3, Zenon DEF Conf
<1>6. cfg' = y
  <2>1. DOMAIN x = Fields
    <3> HIDE DEF Fields
    <3> QED BY <1>5
  <2> QED BY <1>1, <1>3, <1>4, <2>1, Zenon
<1>7. DOMAIN Default \subseteq PathFields /\ \A f \in DOMAIN Default : IsSeq(Default[f])
  BY InputAssumption DEF PathFields
<1>8. \A f \in Fields :
        /\ f \notin PathFields => y[f] = x[f]
        /\ f \in DOMAIN Default /\ x[f] = <<>> => y[f] = <<Default[f]>>
        /\ ~(f \in DOMAIN Default /\ x[f] = <<>>) => y[f] = x[f]
  BY <1>4, <1>7, Zenon
<1>9. y = [f \in Fields |-> y[f]]
  <2> HIDE DEF Fields
  <2> QED BY <1>4
<1>10. \A f \in PathFields : Pointer(y[f])
  <2>1. \A f \in PathFields : Pointer(x[f])
    BY <1>2, <1>3, Zenon DEF Conf
  <2>2. \A f \in DOMAIN Default : Pointer(<<Default[f]>>)
    BY <1>7, Zenon DEF Pointer
  <2> QED BY <1>8, <2>1, <2>2, FieldsAre, Zenon
<1>11. \A f \in DOMAIN Default : y[f] # <<>>
  <2>1. \A z : <<z>> # <<>>
    OBVIOUS
  <2>2. \A f \in DOMAIN Default : f \in Fields
    BY <1>7, FieldsAre
  <2> QED BY <1>8, <2>1, <2>2, Zenon
<1>12. \A f \in {"mode", "list", "ignore", "args", "debug", "verbose"} : y[f] = x[f]
  <2>1. \A f \in {"mode", "list", "ignore", "args", "debug", "verbose"} :
          f \in Fields /\ f \notin PathFields
    BY FieldsAre
  <2> QED BY <1>8, <2>1, Zenon
<1>13. /\ y["mode"] = x["mode"] /\ y["list"] = x["list"] /\ y["ignore"] = x["ignore"]
       /\ y["args"] = x["args"] /\ y["debug"] = x["debug"] /\ y["verbose"] = x["verbose"]
  BY <1>12
<1>14. Conf(y) /\ y.mode \in Modes
  BY <1>2, <1>3, <1>9, <1>10, <1>13 DEF Conf
<1> QED
  BY <1>1, <1>6, <1>11, <1>14, Zenon DEF Ready

LEMMA ActsCurrent ==
  ASSUME Current, Acts
  PROVE  Current'
<1>1. phase = "parse" /\ argv' = argv /\ list' = list /\ k' = k
  BY ActsKeep
<1>2. Patterns(argv) /\ Registered(list) /\ k = 1
  BY <1>1 DEF Current
<1>3. CASE ParseEnds
  <2>1. phase' = "list" /\ Ready(cfg')
    BY <1>3, EndReady
  <2>2. Conf(cfg')
    BY <2>1, Zenon DEF Ready
  <2> QED BY <1>1, <1>2, <2>1, <2>2 DEF Current
<1>4. CASE ~ParseEnds
  <2>1. Parses
    BY <1>4, ModeParses, FlagParses, PathParses, ArgsParses, JobsParses, HelpParses,
      NameParses, Zenon DEF Acts
  <2>2. /\ phase' \in {"parse", "stopped"} /\ Conf(cfg') /\ i' \in Nat \ {0}
        /\ phase' = "parse" => cfg'.mode \in Modes
    BY <2>1, Zenon DEF Parses
  <2> QED BY <1>1, <1>2, <2>2 DEF Current
<1> QED
  BY <1>3, <1>4

LEMMA ListCurrent ==
  ASSUME Current, ListTests
  PROVE  Current'
<1>1. Registered(list) /\ Ready(cfg) /\ Conf(cfg) /\ k = 1 /\ cfg' = cfg /\ k' = k
  BY DEF Current, ListTests
<1>2. CASE Duplicates(list)
  <2>1. phase' = "stopped" /\ list' = list
    BY <1>2 DEF ListTests, Stop
  <2> QED BY <1>1, <2>1 DEF Current
<1>3. CASE ~Duplicates(list)
  <2>1. list' \in Sorted(ToSet(list)) /\ phase' \in {"run", "stopped"}
    BY <1>3 DEF ListTests, Stop
  <2>2. PICK s \in Sorted(ToSet(list)) : s = list'
    BY <2>1
  <2>3. Registered(s) /\ ~Duplicates(s)
    BY <1>1, <1>3, SortedKeeps
  <2>4. Len(s) \in Nat
    BY <2>3, SequenceIs, Zenon DEF Registered, Tests
  <2>5. 1 \in 1..(Len(s) + 1)
    BY <2>4
  <2>6. /\ Registered(list') /\ ~Duplicates(list') /\ k' = 1 /\ k' \in 1..(Len(list') + 1)
        /\ Conf(cfg') /\ Ready(cfg')
    BY <1>1, <2>2, <2>3, <2>5, Zenon
  <2> QED BY <2>1, <2>6 DEF Current
<1> QED
  BY <1>2, <1>3

LEMMA Running ==
  ASSUME Current, phase = "run"
  PROVE  /\ Ready(cfg) /\ Conf(cfg) /\ Registered(list) /\ ~Duplicates(list)
         /\ Len(list) \in Nat /\ DOMAIN list = 1..Len(list) /\ k \in 1..(Len(list) + 1)
         /\ k <= Len(list) => k \in 1..Len(list) /\ Plain(list[k]) /\ IsTest(list[k])
<1>1. /\ Ready(cfg) /\ Conf(cfg) /\ Registered(list) /\ ~Duplicates(list)
      /\ k \in 1..(Len(list) + 1)
  BY DEF Current
<1>2. Len(list) \in Nat /\ DOMAIN list = 1..Len(list)
  BY <1>1, SequenceIs, Zenon DEF Registered, Tests
<1>3. k <= Len(list) => k \in 1..Len(list)
  BY <1>1, <1>2
<1>4. \A n \in 1..Len(list) : Plain(list[n]) /\ IsTest(list[n])
  BY <1>1, <1>2, Zenon DEF Registered, Tests
<1> QED
  BY <1>1, <1>2, <1>3, <1>4, Zenon

LEMMA LoopCurrent ==
  ASSUME Current, SkipTest \/ Execute \/ SubmitFails \/ LoopEnds
  PROVE  Current'
<1>1. phase = "run" /\ cfg' = cfg /\ list' = list
  BY DEF SkipTest, Execute, SubmitFails, LoopEnds
<1>2. /\ Ready(cfg) /\ Conf(cfg) /\ Registered(list) /\ ~Duplicates(list)
      /\ Len(list) \in Nat /\ k \in 1..(Len(list) + 1)
  BY <1>1, Running
<1>3. \/ phase' = "stopped"
      \/ phase' = "run" /\ k' \in 1..(Len(list) + 1)
  <2>1. CASE SkipTest
    <3>1. k <= Len(list) /\ k' = k + 1 /\ phase' = "run"
      BY <2>1, Zenon DEF SkipTest
    <3> QED BY <1>2, <3>1
  <2>2. CASE Execute
    <3>1. k <= Len(list)
      BY <2>2, Zenon DEF Execute
    <3>2. phase' = "stopped" \/ (phase' = "run" /\ k' = k + 1)
      BY <2>2, Zenon DEF Execute, Stop
    <3> QED BY <1>2, <3>1, <3>2
  <2>3. CASE SubmitFails \/ LoopEnds
    BY <2>3, Zenon DEF SubmitFails, LoopEnds, Stop
  <2> QED BY <2>1, <2>2, <2>3
<1> QED
  BY <1>1, <1>2, <1>3 DEF Current

\* The nested process starts with nothing but its arguments.
LEMMA SubmitCurrent ==
  ASSUME Current, Submit
  PROVE  Current'
<1>1. /\ phase = "run" /\ k <= Len(list) /\ phase' = "parse" /\ i' = 1 /\ k' = 1
      /\ cfg' = NewConfig /\ list' = list
      /\ argv' = ArgvOf(Transcoded(Command(cfg, list[k])))
  BY Zenon DEF Submit
<1>2. Ready(cfg) /\ Registered(list) /\ IsTest(list[k])
  BY <1>1, Running
<1>3. Patterns(argv')
  BY <1>1, <1>2, ArgvTyped, Zenon
<1>4. Conf(cfg') /\ Registered(list')
  BY <1>1, <1>2, ConfNew, Zenon
<1> QED
  BY <1>1, <1>3, <1>4 DEF Current

LEMMA EndsCurrent ==
  ASSUME Current, Frames, NestedEnds
  PROVE  Current'
<1>1. caller # <<>>
  BY DEF NestedEnds, level
<1>2. Head(caller) = caller[1] /\ 1 \in DOMAIN caller
  <2>1. IsSeq(caller)
    BY Zenon DEF Frames
  <2>2. Head(caller) = caller[1] /\ Len(caller) \in Nat \ {0}
    BY <1>1, <2>1, PopIs
  <2>3. DOMAIN caller = 1..Len(caller)
    BY <2>1, SequenceIs
  <2> QED BY <2>2, <2>3
<1>3. PICK w : w = caller[1]
  OBVIOUS
<1>4. /\ cfg' = w.cfg /\ list' = w.list /\ k' = w.k + 1 /\ phase' = "run"
  BY <1>2, <1>3, Zenon DEF NestedEnds
<1>5. Frame(w)
  BY <1>2, <1>3, Zenon DEF Frames
<1>6. /\ Ready(w.cfg) /\ Conf(w.cfg) /\ Registered(w.list) /\ ~Duplicates(w.list)
      /\ w.k \in 1..Len(w.list)
  BY <1>5, Zenon DEF Frame, Ready
<1>7. Len(w.list) \in Nat
  BY <1>6, SequenceIs, Zenon DEF Registered, Tests
<1>8. k' \in 1..(Len(list') + 1)
  <2>1. PICK N \in Nat : N = Len(w.list)
    BY <1>7
  <2>2. w.k + 1 \in 1..(N + 1)
    BY <1>6, <2>1
  <2> QED BY <1>4, <2>1, <2>2, Zenon
<1>9. /\ Ready(cfg') /\ Conf(cfg') /\ Registered(list') /\ ~Duplicates(list')
  BY <1>4, <1>6, Zenon
<1> QED
  BY <1>4, <1>8, <1>9 DEF Current

-----------------------------------------------------------------------------
(* What a nested process does stays what its runner wrote *)

\* The frame of the innermost process that waits
LEMMA TopFrame ==
  ASSUME Frames, caller # <<>>, NEW w, w = caller[1]
  PROVE  /\ Frame(w) /\ Ready(w.cfg) /\ Plain(w.list[w.k]) /\ ~w.list[w.k].off
         /\ IsSeq(caller) /\ Len(caller) \in Nat \ {0} /\ DOMAIN caller = 1..Len(caller)
<1>1. IsSeq(caller)
  BY Zenon DEF Frames
<1>2. Len(caller) \in Nat \ {0} /\ DOMAIN caller = 1..Len(caller)
  BY <1>1, PopIs, SequenceIs
<1>3. 1 \in DOMAIN caller
  BY <1>2
<1>4. Frame(w)
  BY <1>3, Zenon DEF Frames
<1>5. Ready(w.cfg) /\ Registered(w.list) /\ w.k \in 1..Len(w.list) /\ ~w.list[w.k].off
  BY <1>4, Zenon DEF Frame
<1>6. DOMAIN w.list = 1..Len(w.list)
  BY <1>5, SequenceIs, Zenon DEF Registered, Tests
<1>7. Plain(w.list[w.k])
  BY <1>5, <1>6, Zenon DEF Registered
<1> QED
  BY <1>1, <1>2, <1>4, <1>5, <1>7, Zenon

LEMMA ActsNest ==
  ASSUME Acts, NEW c, Ready(c), NEW t, Plain(t), Nest(c, t)
  PROVE  Nest(c, t)'
<1>1. phase = "parse" /\ argv' = argv /\ list' = list /\ k' = k /\ executed' = executed
  BY ActsKeep
<1>2. /\ ~Duplicates(list) /\ executed = <<>> /\ \E p \in k..Len(list) : list[p] = t
      /\ k = 1 /\ Stages(argv, i, cfg, c, t)
  BY <1>1 DEF Nest
<1>3. Onward(c, t)
  BY <1>2, StagesGo
<1>4. /\ ~Duplicates(list') /\ executed' = <<>> /\ \E p \in k'..Len(list') : list'[p] = t
      /\ k' = 1
  BY <1>1, <1>2, Zenon
<1>5. CASE phase' = "parse" /\ Later(argv', i', cfg', c, t)
  <2>1. Stages(argv', i', cfg', c, t)
    BY <1>5, Zenon DEF Stages
  <2> QED BY <1>4, <1>5, <2>1 DEF Nest
<1>6. CASE phase' = "list" /\ cfg' = Target(c, t)
  BY <1>4, <1>6 DEF Nest
<1> QED
  BY <1>3, <1>5, <1>6, Zenon DEF Onward

LEMMA ListNest ==
  ASSUME Current, ListTests, NEW c, NEW t, Nest(c, t)
  PROVE  Nest(c, t)'
<1>1. /\ phase = "list" /\ Registered(list) /\ k = 1 /\ k' = k /\ cfg' = cfg
      /\ executed' = executed
  BY DEF Current, ListTests, process
<1>2. /\ ~Duplicates(list) /\ executed = <<>> /\ \E p \in k..Len(list) : list[p] = t
      /\ cfg = Target(c, t)
  BY <1>1 DEF Nest
<1>3. PICK s \in Sorted(ToSet(list)) : s = list'
  BY <1>2, Zenon DEF ListTests
<1>4. Registered(s) /\ ~Duplicates(s) /\ Tests(list) /\ Tests(s)
  BY <1>1, <1>2, SortedKeeps DEF Registered
<1>5. SameTests(s, list)
  BY <1>4, SortedSame
<1>6. /\ DOMAIN s = 1..Len(s) /\ DOMAIN list = 1..Len(list)
      /\ Len(list) \in Nat
  BY <1>4, SequenceIs, Zenon DEF Tests
<1>7. PICK p \in DOMAIN list : list[p] = t
  BY <1>1, <1>2, <1>6, Zenon
<1>8. \E q \in 1..Len(s) : s[q] = t
  BY <1>5, <1>6, <1>7, Zenon DEF SameTests
<1>9. list # <<>>
  BY <1>6, <1>7
<1>10. cfg.list_all = FALSE
  <2>1. PICK T : T = Target(c, t)
    OBVIOUS
  <2>2. T["list_all"] = FALSE
    BY <2>1, TargetFields
  <2> QED BY <1>2, <2>1, <2>2
<1>11. phase' = "run"
  BY <1>2, <1>9, <1>10, Zenon DEF ListTests
<1>12. /\ ~Duplicates(list') /\ executed' = <<>> /\ \E q \in k'..Len(list') : list'[q] = t
       /\ cfg' = Target(c, t)
  BY <1>1, <1>2, <1>3, <1>4, <1>8, Zenon
<1> QED
  BY <1>11, <1>12 DEF Nest

LEMMA TargetLists ==
  ASSUME NEW c, NEW t
  PROVE  Target(c, t)["list"] = <<FullName(t)>> /\ Target(c, t)["ignore"] = <<>>
BY DEF Target

\* With the full name as the only pattern, the loop passes everything but the test.
LEMMA OnlySelected ==
  ASSUME NEW c, NEW t, Plain(t), ~t.off, cfg = Target(c, t), NEW u, Plain(u), Conf(cfg)
  PROVE  /\ ~Skipped(u) => u.group = t.group /\ u.name = t.name
         /\ ~Skipped(t)
<1>1. PICK T : T = cfg
  OBVIOUS
<1>2. T["list"] = <<FullName(t)>> /\ T["ignore"] = <<>>
  BY <1>1, TargetLists, Zenon
<1>3. T.list = <<FullName(t)>> /\ T.ignore = <<>>
  BY <1>2
<1>4. Patterns(cfg.list) /\ Patterns(cfg.ignore) /\ IsTest(u) /\ IsTest(t)
  BY Zenon DEF Conf, Plain
<1>5. \A x : IsTest(x) => (Skipped(x) <=> ~Selected(cfg, x))
  BY <1>4, SkippedIs
<1>6. \A x : Selected(T, x) <=> ~x.off /\ Means(FullName(t), FullName(x))
  <2>1. \A x : ~Excluded(T, x)
    <3>1. DOMAIN <<>> = {}
      OBVIOUS
    <3> QED BY <1>3, <3>1, Zenon DEF Excluded
  <2>2. DOMAIN T.list = {1} /\ T.list[1] = FullName(t) /\ T.list # <<>>
    BY <1>3
  <2> QED BY <2>1, <2>2, Zenon DEF Selected
<1>7. Means(FullName(t), FullName(t))
  BY NameSelects, Zenon
<1>8. Means(FullName(t), FullName(u)) => t.group = u.group /\ t.name = u.name
  BY NameSelects, Zenon
<1> QED
  BY <1>1, <1>4, <1>5, <1>6, <1>7, <1>8, Zenon

LEMMA SkipNest ==
  ASSUME Current, SkipTest, NEW c, NEW t, Plain(t), ~t.off, Nest(c, t)
  PROVE  Nest(c, t)'
<1>1. /\ phase = "run" /\ k <= Len(list) /\ Skipped(list[k]) /\ k' = k + 1 /\ phase' = phase
      /\ cfg' = cfg /\ list' = list /\ executed' = executed
  BY Zenon DEF SkipTest
<1>2. /\ ~Duplicates(list) /\ executed = <<>> /\ \E p \in k..Len(list) : list[p] = t
      /\ cfg = Target(c, t)
  BY <1>1 DEF Nest
<1>3. Conf(cfg) /\ Plain(list[k]) /\ k \in 1..Len(list) /\ Len(list) \in Nat
  BY <1>1, Running
<1>4. ~Skipped(t)
  BY <1>2, <1>3, OnlySelected, Zenon
<1>5. PICK p \in k..Len(list) : list[p] = t
  BY <1>2
<1>6. p # k
  BY <1>1, <1>4, <1>5, Zenon
<1>7. p \in (k + 1)..Len(list)
  BY <1>3, <1>5, <1>6
<1>8. /\ ~Duplicates(list') /\ executed' = <<>> /\ \E q \in k'..Len(list') : list'[q] = t
      /\ cfg' = Target(c, t) /\ phase' = "run"
  BY <1>1, <1>2, <1>5, <1>7, Zenon
<1> QED
  BY <1>8 DEF Nest

LEMMA ExecuteNest ==
  ASSUME Current, Execute, NEW c, NEW t, Plain(t), ~t.off, Nest(c, t)
  PROVE  Nest(c, t)'
<1>1. /\ phase = "run" /\ k <= Len(list) /\ ~Skipped(list[k])
      /\ executed' = Append(executed, list[k])
  BY Zenon DEF Execute
<1>2. /\ ~Duplicates(list) /\ executed = <<>> /\ \E p \in k..Len(list) : list[p] = t
      /\ cfg = Target(c, t)
  BY <1>1 DEF Nest
<1>3. /\ Conf(cfg) /\ Registered(list) /\ Plain(list[k]) /\ k \in 1..Len(list)
      /\ Len(list) \in Nat /\ DOMAIN list = 1..Len(list)
  BY <1>1, Running
<1>4. list[k].group = t.group /\ list[k].name = t.name
  BY <1>1, <1>2, <1>3, OnlySelected, Zenon
<1>5. PICK p \in k..Len(list) : list[p] = t
  BY <1>2
<1>6. p \in DOMAIN list /\ k \in DOMAIN list
  BY <1>3, <1>5
<1>7. k = p
  BY <1>2, <1>3, <1>4, <1>5, <1>6, NamesDiffer, Zenon DEF Registered
<1>8. executed' = <<t>>
  <2>1. Append(<<>>, t) = <<t>>
    OBVIOUS
  <2> QED BY <1>1, <1>2, <1>5, <1>7, <2>1, Zenon
<1>9. cfg.is_child
  <2>1. PICK T : T = Target(c, t)
    OBVIOUS
  <2>2. T["is_child"] = TRUE
    BY <2>1, TargetFields
  <2> QED BY <1>2, <2>1, <2>2
<1>10. phase' = "stopped"
  BY <1>9, Zenon DEF Execute, Stop
<1> QED
  BY <1>8, <1>10 DEF Nest

\* It starts no process of its own, and it does not reach the end of the loop.
LEMMA NestStays ==
  ASSUME Current, NEW c, NEW t, Nest(c, t)
  PROVE  ~Submit /\ ~SubmitFails /\ ~LoopEnds
<1>1. ASSUME phase = "run" PROVE ~cfg.fork /\ ~(k > Len(list))
  <2>1. cfg = Target(c, t) /\ \E p \in k..Len(list) : list[p] = t
    BY <1>1 DEF Nest
  <2>2. cfg.fork = FALSE
    <3>1. PICK T : T = Target(c, t)
      OBVIOUS
    <3>2. T["fork"] = FALSE
      BY <3>1, TargetFields
    <3> QED BY <2>1, <3>1, <3>2
  <2>3. Len(list) \in Nat /\ k \in 1..(Len(list) + 1)
    BY <1>1, Running
  <2> QED BY <2>1, <2>2, <2>3
<1> QED
  BY <1>1, Zenon DEF Submit, SubmitFails, LoopEnds

LEMMA NestIdle ==
  ASSUME NEW c, NEW t, Nest(c, t), UNCHANGED vars
  PROVE  Nest(c, t)'
BY DEF Nest, vars, parsing, process, runner

LEMMA CarriesStays ==
  ASSUME Current, Frames, Carries, UNCHANGED caller,
         \/ Acts \/ ListTests \/ SkipTest \/ Execute \/ Submit \/ SubmitFails \/ LoopEnds
         \/ UNCHANGED vars
  PROVE  Carries'
<1>1. SUFFICES ASSUME caller # <<>>, CarriedBy(caller[1].cfg)
               PROVE  Carries'
  BY Zenon DEF Carries
<1>2. PICK w : w = caller[1]
  OBVIOUS
<1>3. PICK c : c = w.cfg
  OBVIOUS
<1>4. PICK t : t = w.list[w.k]
  OBVIOUS
<1>5. Ready(c) /\ Plain(t) /\ ~t.off
  BY <1>1, <1>2, <1>3, <1>4, TopFrame, Zenon
<1>6. Nest(c, t)
  BY <1>1, <1>2, <1>3, <1>4, Zenon DEF Carries
<1>7. ~Submit /\ ~SubmitFails /\ ~LoopEnds
  BY <1>6, NestStays
<1>8. Nest(c, t)'
  <2>1. CASE Acts
    BY <1>5, <1>6, <2>1, ActsNest
  <2>2. CASE ListTests
    BY <1>6, <2>2, ListNest
  <2>3. CASE SkipTest
    BY <1>5, <1>6, <2>3, SkipNest
  <2>4. CASE Execute
    BY <1>5, <1>6, <2>4, ExecuteNest
  <2>5. CASE UNCHANGED vars
    BY <1>6, <2>5, NestIdle
  <2> QED BY <1>7, <2>1, <2>2, <2>3, <2>4, <2>5, Zenon
<1>9. caller'[1] = w
  BY <1>2
<1> QED
  BY <1>3, <1>4, <1>8, <1>9, Zenon DEF Carries, Nest

\* The nested process that is started gets the arguments of the test.
LEMMA SubmitCarries ==
  ASSUME Current, Frames, Submit
  PROVE  Carries'
<1>1. /\ phase = "run" /\ k <= Len(list) /\ phase' = "parse" /\ i' = 1 /\ k' = 1
      /\ cfg' = NewConfig /\ list' = list /\ executed' = <<>>
      /\ argv' = ArgvOf(Transcoded(Command(cfg, list[k])))
      /\ caller' = <<[cfg |-> cfg, argv |-> argv, i |-> i, list |-> list, k |-> k,
                      executed |-> executed]>> \o caller
  BY Zenon DEF Submit
<1>2. /\ Ready(cfg) /\ ~Duplicates(list) /\ Plain(list[k]) /\ IsTest(list[k])
      /\ k \in 1..Len(list)
  BY <1>1, Running
<1>3. PICK w : w = [cfg |-> cfg, argv |-> argv, i |-> i, list |-> list, k |-> k,
                    executed |-> executed]
  OBVIOUS
<1>4. PICK c : c = cfg
  OBVIOUS
<1>5. PICK t : t = list[k]
  OBVIOUS
<1>6. w.cfg = c /\ w.list[w.k] = t
  BY <1>3, <1>4, <1>5
<1>7. caller'[1] = w
  <2>1. IsSeq(caller)
    BY Zenon DEF Frames
  <2> QED BY <1>1, <1>3, <2>1 DEF IsSeq
<1>8. ASSUME CarriedBy(c) PROVE Nest(c, t)'
  <2>1. Ready(c) /\ Plain(t)
    BY <1>2, <1>4, <1>5
  <2>2. argv' = NestedArgs(c, t)
    BY <1>1, <1>4, <1>5, <1>8, <2>1, CommandArrives, Zenon
  <2>3. PICK T : T = ArgTexts(c, t)
    OBVIOUS
  <2>4. NestedArgs(c, t) = FromMode(c, t) /\ FromMode(c, t) \in Seq(T)
    BY <2>1, <2>3, GroupedIs DEF Grouped
  <2>5. PICK z : z = FromMode(c, t)
    OBVIOUS
  <2>6. Left(z, 1, z)
    BY <2>4, <2>5, LeftAll
  <2>7. cfg' = Known({}, c, t)
    BY <1>1, KnownNone
  <2>8. Stage(argv', i', cfg', {}, FromMode(c, t), c, t)
    BY <1>1, <2>2, <2>4, <2>5, <2>6, <2>7, Zenon DEF Stage
  <2>9. Stages(argv', i', cfg', c, t)
    BY <1>1, <2>8, Zenon DEF Stages
  <2>10. \E p \in 1..Len(list) : list[p] = t
    BY <1>2, <1>5, Zenon
  <2>11. ~Duplicates(list') /\ executed' = <<>> /\ \E p \in k'..Len(list') : list'[p] = t
    BY <1>1, <1>2, <2>10, Zenon
  <2> QED BY <1>1, <2>9, <2>11 DEF Nest
<1> QED
  BY <1>6, <1>7, <1>8, Zenon DEF Carries, Nest

Pushed(e, s, t) ==
  /\ IsSeq(t) /\ t[1] = e
  /\ \A n \in DOMAIN t : n # 1 => n - 1 \in DOMAIN s /\ t[n] = s[n - 1]

LEMMA PushAll ==
  ASSUME NEW e, NEW s, IsSeq(s), NEW t, t = <<e>> \o s
  PROVE  Pushed(e, s, t)
<1>1. PICK S : s \in Seq(S)
  BY DEF IsSeq
<1>2. PICK U : U = S \cup {e}
  OBVIOUS
<1>3. s \in Seq(U) /\ e \in U
  BY <1>1, <1>2
<1>4. t \in Seq(U) /\ Len(t) = Len(s) + 1 /\ t[1] = e /\ Len(s) \in Nat
  BY <1>3
<1>5. \A n \in 1..Len(s) : t[n + 1] = s[n]
  <2>1. t = Join(<<e>>, s)
    BY DEF Join
  <2> QED BY <1>3, <2>1, InFront
<1>6. IsSeq(t)
  BY <1>4, IsSeqOf
<1>7. DOMAIN t = 1..(Len(s) + 1) /\ DOMAIN s = 1..Len(s)
  BY <1>3, <1>4
<1>8. ASSUME NEW n \in DOMAIN t, n # 1 PROVE n - 1 \in DOMAIN s /\ t[n] = s[n - 1]
  <2>1. PICK m : m = n - 1
    OBVIOUS
  <2>2. m \in 1..Len(s) /\ m + 1 = n
    BY <1>4, <1>7, <1>8, <2>1
  <2>3. t[m + 1] = s[m]
    BY <1>5, <2>2, Zenon
  <2> QED BY <1>7, <2>1, <2>2, <2>3
<1> QED
  BY <1>4, <1>6, <1>8, Zenon DEF Pushed

LEMMA SubmitFrames ==
  ASSUME Current, Frames, Carries, Submit
  PROVE  Frames'
<1>1. /\ phase = "run" /\ k <= Len(list) /\ ~Skipped(list[k])
      /\ caller' = <<[cfg |-> cfg, argv |-> argv, i |-> i, list |-> list, k |-> k,
                      executed |-> executed]>> \o caller
  BY Zenon DEF Submit
<1>2. /\ Ready(cfg) /\ ~Duplicates(list) /\ Registered(list) /\ k \in 1..Len(list)
  BY <1>1, Running
<1>3. PICK w : w = [cfg |-> cfg, argv |-> argv, i |-> i, list |-> list, k |-> k,
                    executed |-> executed]
  OBVIOUS
<1>4. Frame(w)
  <2>1. w.cfg = cfg /\ w.list = list /\ w.k = k
    BY <1>3
  <2>2. ~list[k].off
    BY <1>1, Zenon DEF Skipped
  <2> QED BY <1>2, <2>1, <2>2, Zenon DEF Frame
<1>5. IsSeq(caller)
  BY Zenon DEF Frames
<1>6. PICK pushed : pushed = <<w>> \o caller
  OBVIOUS
<1>7. caller' = pushed
  BY <1>1, <1>3, <1>6, Zenon
<1>8. /\ IsSeq(pushed) /\ pushed[1] = w
      /\ \A n \in DOMAIN pushed :
           n # 1 => n - 1 \in DOMAIN caller /\ pushed[n] = caller[n - 1]
  <2>1. Pushed(w, caller, pushed)
    BY <1>5, <1>6, PushAll
  <2> QED BY <2>1, Zenon DEF Pushed
<1>9. \A n \in DOMAIN pushed : Frame(pushed[n])
  <2>1. \A n \in DOMAIN caller : Frame(caller[n])
    BY Zenon DEF Frames
  <2> QED BY <1>4, <1>8, <2>1, Zenon
<1>10. \A m \in DOMAIN caller : ~CarriedBy(caller[m].cfg)
  <2>1. \A m \in DOMAIN caller : m # 1 => ~CarriedBy(caller[m].cfg)
    BY Zenon DEF Frames
  <2>2. ASSUME 1 \in DOMAIN caller, CarriedBy(caller[1].cfg) PROVE FALSE
    <3>1. caller # <<>>
      BY <2>2
    <3>2. Nest(caller[1].cfg, caller[1].list[caller[1].k])
      BY <2>2, <3>1, Zenon DEF Carries
    <3> QED BY <3>2, NestStays, Zenon
  <2> QED BY <2>1, <2>2, Zenon
<1>11. \A n \in DOMAIN pushed : n # 1 => ~CarriedBy(pushed[n].cfg)
  BY <1>8, <1>10, Zenon
<1> QED
  BY <1>7, <1>8, <1>9, <1>11, Zenon DEF Frames

LEMMA SubmitRan ==
  ASSUME Current, Frames, Ran, Submit
  PROVE  Ran'
<1>1. /\ phase = "run" /\ runs' = runs
      /\ caller' = <<[cfg |-> cfg, argv |-> argv, i |-> i, list |-> list, k |-> k,
                      executed |-> executed]>> \o caller
  BY Zenon DEF Submit
<1>2. PICK w : w = [cfg |-> cfg, argv |-> argv, i |-> i, list |-> list, k |-> k,
                    executed |-> executed]
  OBVIOUS
<1>3. IsSeq(caller)
  BY Zenon DEF Frames
<1>4. PICK pushed : pushed = <<w>> \o caller
  OBVIOUS
<1>5. caller' = pushed
  BY <1>1, <1>2, <1>4, Zenon
<1>6. pushed # <<>> /\ pushed[Len(pushed)] = IF caller = <<>> THEN w ELSE caller[Len(caller)]
  BY <1>3, <1>4, PushIs
<1>7. w.cfg = cfg
  BY <1>2
<1>8. Base' = Base
  BY <1>5, <1>6, <1>7, Zenon DEF Base
<1> QED
  BY <1>1, <1>5, <1>6, <1>8, Zenon DEF Ran

LEMMA EndsFrames ==
  ASSUME Frames, NestedEnds
  PROVE  Frames' /\ Carries'
<1>1. caller # <<>> /\ caller' = Tail(caller)
  BY DEF NestedEnds, level
<1>2. IsSeq(caller)
  BY Zenon DEF Frames
<1>3. PICK rest : rest = Tail(caller)
  OBVIOUS
<1>4. PICK S : caller \in Seq(S)
  BY <1>2 DEF IsSeq
<1>5. rest \in Seq(S) /\ Len(rest) = Len(caller) - 1 /\ Len(caller) \in Nat \ {0}
      /\ \A n \in 1..Len(rest) : rest[n] = caller[n + 1]
  BY <1>1, <1>3, <1>4
<1>6. /\ DOMAIN rest = 1..Len(rest) /\ DOMAIN caller = 1..Len(caller)
  BY <1>4, <1>5
<1>7. \A n \in DOMAIN rest : n + 1 \in DOMAIN caller /\ n + 1 # 1 /\ rest[n] = caller[n + 1]
  BY <1>5, <1>6
<1>8. IsSeq(rest)
  BY <1>5, IsSeqOf
<1>9. \A n \in DOMAIN rest : Frame(rest[n]) /\ ~CarriedBy(rest[n].cfg)
  BY <1>7, Zenon DEF Frames
<1>10. Frames'
  BY <1>1, <1>3, <1>8, <1>9, Zenon DEF Frames
<1>11. rest # <<>> => 1 \in DOMAIN rest
  BY <1>5, <1>6
<1>12. rest # <<>> => ~CarriedBy(rest[1].cfg)
  BY <1>9, <1>11, Zenon
<1>13. Carries'
  BY <1>1, <1>3, <1>12, Zenon DEF Carries
<1> QED
  BY <1>10, <1>13

Grown(e, s, t) ==
  IsSeq(t) /\ \A n \in DOMAIN t : t[n] = e \/ (n \in DOMAIN s /\ t[n] = s[n])

LEMMA AppendAll ==
  ASSUME NEW e, NEW s, IsSeq(s), NEW t, t = Append(s, e)
  PROVE  Grown(e, s, t)
<1>a. IsSeq(t) /\ DOMAIN s = 1..Len(s) /\ Len(s) \in Nat
  BY AppendIs
<1>b. DOMAIN t = 1..(Len(s) + 1)
  BY AppendIs
<1>c. \A n \in 1..(Len(s) + 1) : t[n] = IF n = Len(s) + 1 THEN e ELSE s[n]
  BY AppendIs
<1>2. \A n \in DOMAIN t : t[n] = e \/ (n \in DOMAIN s /\ t[n] = s[n])
  BY <1>a, <1>b, <1>c
<1> QED
  BY <1>a, <1>2, Zenon DEF Grown

LEMMA EndsRan ==
  ASSUME Frames, Carries, Ran, NestedEnds
  PROVE  Ran'
<1>1. /\ caller # <<>> /\ phase = "stopped" /\ phase' = "run" /\ caller' = Tail(caller)
  BY DEF NestedEnds, level
<1>2. /\ IsSeq(caller) /\ Len(caller) \in Nat \ {0} /\ Head(caller) = caller[1]
      /\ Tail(caller) = <<>> <=> Len(caller) = 1
      /\ Tail(caller) # <<>> => Tail(caller)[Len(Tail(caller))] = caller[Len(caller)]
  <2>1. IsSeq(caller)
    BY Zenon DEF Frames
  <2> QED BY <1>1, <2>1, PopIs
<1>3. PICK w : w = caller[1]
  OBVIOUS
<1>4. /\ runs' = IF Len(caller) > 1 THEN runs
                 ELSE Append(runs, [test |-> w.list[w.k], executed |-> executed,
                                    status |-> status])
      /\ cfg' = w.cfg
  BY <1>2, <1>3, Zenon DEF NestedEnds
<1>5. ~(phase' \in {"parse", "list"})
  BY <1>1
<1>6. IsSeq(runs)
  BY Zenon DEF Ran
<1>7. CASE Len(caller) > 1
  <2>1. Len(caller) # 1
    BY <1>7
  <2>2. caller' # <<>> /\ caller'[Len(caller')] = caller[Len(caller)]
    BY <1>1, <1>2, <2>1, Zenon
  <2>3. Base' = Base
    BY <1>1, <2>2, Zenon DEF Base
  <2>4. runs' = runs
    BY <1>4, <1>7, Zenon
  <2> QED BY <1>5, <2>3, <2>4, Zenon DEF Ran
<1>8. CASE ~(Len(caller) > 1)
  <2>1. Len(caller) = 1
    BY <1>2, <1>8
  <2>2. caller' = <<>>
    BY <1>1, <1>2, <2>1, Zenon
  <2>3. Base' = w.cfg /\ Base = w.cfg
    BY <1>1, <1>3, <1>4, <2>1, <2>2, Zenon DEF Base
  <2>4. PICK e : e = [test |-> w.list[w.k], executed |-> executed, status |-> status]
    OBVIOUS
  <2>5. PICK t : t = w.list[w.k]
    OBVIOUS
  <2>6. e.test = t /\ e.executed = executed
    BY <2>4, <2>5
  <2>7. PICK more : more = Append(runs, e)
    OBVIOUS
  <2>8. runs' = more
    BY <1>4, <1>8, <2>4, <2>7, Zenon
  <2>9. Grown(e, runs, more)
    BY <1>6, <2>7, AppendAll
  <2>10. \A n \in DOMAIN more : more[n] = e \/ (n \in DOMAIN runs /\ more[n] = runs[n])
    BY <2>9, Zenon DEF Grown
  <2>11. ASSUME CarriedBy(w.cfg) PROVE executed = <<t>>
    <3>1. Nest(w.cfg, t)
      BY <1>1, <1>3, <2>5, <2>11, Zenon DEF Carries
    <3> QED BY <1>1, <3>1, Zenon DEF Nest
  <2>12. ASSUME CarriedBy(w.cfg) PROVE \A n \in DOMAIN more : more[n].executed = <<more[n].test>>
    <3>1. \A n \in DOMAIN runs : runs[n].executed = <<runs[n].test>>
      BY <2>3, <2>12, Zenon DEF Ran
    <3>2. e.executed = <<e.test>>
      BY <2>6, <2>11, <2>12
    <3> QED BY <2>10, <3>1, <3>2, Zenon
  <2> QED BY <1>5, <2>3, <2>8, <2>9, <2>12, Zenon DEF Ran, Grown
<1> QED
  BY <1>7, <1>8

LEMMA RanStays ==
  ASSUME Ran, UNCHANGED <<caller, runs>>,
         phase' \in {"parse", "list"} => phase \in {"parse", "list"},
         phase \in {"parse", "list"} \/ cfg' = cfg
  PROVE  Ran'
<1>1. caller' = caller /\ runs' = runs
  OBVIOUS
<1>2. CASE caller # <<>>
  <2>1. Base' = Base
    BY <1>1, <1>2, Zenon DEF Base
  <2> QED BY <1>1, <1>2, <2>1, Zenon DEF Ran
<1>3. CASE caller = <<>> /\ phase \in {"parse", "list"}
  <2>1. runs = <<>> /\ IsSeq(runs)
    BY <1>3, Zenon DEF Ran
  <2>2. DOMAIN <<>> = {}
    OBVIOUS
  <2> QED BY <1>1, <2>1, <2>2, Zenon DEF Ran
<1>4. CASE caller = <<>> /\ ~(phase \in {"parse", "list"})
  <2>1. Base' = Base
    BY <1>1, <1>4, Zenon DEF Base
  <2> QED BY <1>1, <1>4, <2>1, Zenon DEF Ran
<1> QED
  BY <1>2, <1>3, <1>4, Zenon

LEMMA FramesStay ==
  ASSUME Frames, UNCHANGED caller
  PROVE  Frames'
BY DEF Frames

LEMMA NestInit ==
  Init => NestInv
<1> SUFFICES ASSUME Init PROVE NestInv
  OBVIOUS
<1>1. /\ phase = "parse" /\ argv \in Lines /\ i = 1 /\ cfg = NewConfig /\ list \in Registries
      /\ k = 1 /\ caller = <<>> /\ runs = <<>>
  BY Zenon DEF Init
<1>2. Patterns(argv)
  BY <1>1, InputAssumption, Zenon DEF Patterns
<1>3. Registered(list)
  BY <1>1, RegistryIs, Zenon
<1>4. Conf(cfg)
  BY <1>1, ConfNew, Zenon
<1>5. Current
  BY <1>1, <1>2, <1>3, <1>4 DEF Current
<1>6. IsSeq(<<>>) /\ DOMAIN <<>> = {}
  BY DEF IsSeq
<1>7. Frames /\ Carries /\ Ran
  BY <1>1, <1>6, Zenon DEF Frames, Carries, Ran
<1> QED
  BY <1>5, <1>7, Zenon DEF NestInv

LEMMA NestIdles ==
  ASSUME NestInv, UNCHANGED vars
  PROVE  NestInv'
<1>1. Current /\ Frames /\ Carries /\ Ran
  BY Zenon DEF NestInv
<1>2. Current'
  BY <1>1 DEF Current, vars, parsing, process, runner
<1>3. UNCHANGED caller /\ runs' = runs /\ phase' = phase /\ cfg' = cfg
  BY DEF vars, parsing, process, runner
<1>4. Frames'
  BY <1>1, <1>3, FramesStay
<1>5. Carries'
  BY <1>1, <1>3, CarriesStays, Zenon
<1>6. Ran'
  BY <1>1, <1>3, RanStays
<1> QED
  BY <1>2, <1>4, <1>5, <1>6, Zenon DEF NestInv

LEMMA NestNext ==
  NestInv /\ [Next]_vars => NestInv'
<1> SUFFICES ASSUME NestInv, [Next]_vars PROVE NestInv'
  OBVIOUS
<1>1. Current /\ Frames /\ Carries /\ Ran
  BY Zenon DEF NestInv
<1>2. CASE Acts
  <2>1. phase = "parse" /\ UNCHANGED <<caller, runs>>
    BY <1>2, ActsKeep
  <2>2. Current'
    BY <1>1, <1>2, ActsCurrent
  <2>3. Frames' /\ Carries'
    BY <1>1, <1>2, <2>1, FramesStay, CarriesStays
  <2>4. Ran'
    BY <1>1, <2>1, RanStays
  <2> QED BY <2>2, <2>3, <2>4, Zenon DEF NestInv
<1>3. CASE ListTests
  <2>1. phase = "list" /\ UNCHANGED <<caller, runs>>
    BY <1>3 DEF ListTests, runner
  <2>2. Current'
    BY <1>1, <1>3, ListCurrent
  <2>3. Frames' /\ Carries'
    BY <1>1, <1>3, <2>1, FramesStay, CarriesStays
  <2>4. Ran'
    BY <1>1, <2>1, RanStays
  <2> QED BY <2>2, <2>3, <2>4, Zenon DEF NestInv
<1>4. CASE SkipTest \/ Execute \/ SubmitFails \/ LoopEnds
  <2>1. phase' \in {"run", "stopped"} /\ cfg' = cfg /\ UNCHANGED <<caller, runs>>
    BY <1>4 DEF SkipTest, Execute, SubmitFails, LoopEnds, runner, Stop
  <2>2. Current'
    BY <1>1, <1>4, LoopCurrent
  <2>3. Frames' /\ Carries'
    BY <1>1, <1>4, <2>1, FramesStay, CarriesStays
  <2>4. Ran'
    BY <1>1, <2>1, RanStays
  <2> QED BY <2>2, <2>3, <2>4, Zenon DEF NestInv
<1>5. CASE Submit
  BY <1>1, <1>5, SubmitCurrent, SubmitFrames, SubmitCarries, SubmitRan, Zenon DEF NestInv
<1>6. CASE NestedEnds
  BY <1>1, <1>6, EndsCurrent, EndsFrames, EndsRan, Zenon DEF NestInv
<1>7. CASE UNCHANGED vars
  BY <1>7, NestIdles
<1>8. RunnerStopped => UNCHANGED vars
  BY Zenon DEF RunnerStopped
<1> QED
  BY <1>2, <1>3, <1>4, <1>5, <1>6, <1>7, <1>8, Zenon DEF Next, Acts

\* Each process is where the arguments that its runner wrote have led it: a
\* nested one in one of the stages of parse(), or at its test, or done with it.
THEOREM NestedStages ==
  Spec => []NestInv
BY NestInit, NestNext, PTL DEF Spec

\* A nested process executes the test that the runner submitted, that one
\* only, and never none, whatever tests are registered and whatever the user
\* asked for, as long as what he asked for survives the command line.
THEOREM NestedRunsSubmittedTestHolds ==
  Spec => []NestedRunsSubmittedTest
<1>1. NestInv => NestedRunsSubmittedTest
  <2> SUFFICES ASSUME Ran, level = "runner", CarriedBy(cfg)
               PROVE  \A n \in DOMAIN runs : runs[n].executed = <<runs[n].test>>
    BY Zenon DEF NestInv, NestedRunsSubmittedTest
  <2>1. caller = <<>>
    BY DEF level
  <2> QED BY <2>1, Zenon DEF Ran, Base
<1> QED
  BY NestInit, NestNext, <1>1, PTL DEF Spec

\* The nested process works with the configuration of its runner.
THEOREM NestedSeesConfigurationHolds ==
  Spec => []NestedSeesConfiguration
<1>1. NestInv => NestedSeesConfiguration
  <2> SUFFICES ASSUME Carries, level = "nested", phase = "run", CarriedBy(caller[1].cfg)
               PROVE  /\ \A f \in {"mode", "debug", "verbose", "outfile", "tracepath",
                                   "tempdir", "resource", "args"} : cfg[f] = caller[1].cfg[f]
                      /\ cfg.is_child /\ ~cfg.fork /\ ~cfg.sysinfo /\ cfg.ignore = <<>>
    BY Zenon DEF NestInv, NestedSeesConfiguration
  <2>1. PICK c : c = caller[1].cfg
    OBVIOUS
  <2>2. PICK t : t = caller[1].list[caller[1].k]
    OBVIOUS
  <2>3. Nest(c, t)
    <3>1. caller # <<>>
      BY DEF level
    <3> QED BY <2>1, <2>2, <3>1, Zenon DEF Carries
  <2>4. cfg = Target(c, t)
    BY <2>3 DEF Nest
  <2>5. /\ \A f \in {"mode", "debug", "verbose", "outfile", "tracepath",
                     "tempdir", "resource", "args"} : cfg[f] = c[f]
        /\ cfg.is_child /\ ~cfg.fork /\ ~cfg.sysinfo /\ cfg.ignore = <<>>
    BY <2>4 DEF Target
  <2> QED BY <2>1, <2>5, Zenon
<1> QED
  BY NestInit, NestNext, <1>1, PTL DEF Spec
=============================================================================
