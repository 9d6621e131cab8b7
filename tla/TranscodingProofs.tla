------------------------- MODULE TranscodingProofs -------------------------
(***************************************************************************)
(* The two passes of utf8_to_utf16() and utf16_to_utf8(), for every string *)
(* that ends with a zero: what the second pass writes is what the first    *)
(* has measured, no read leaves the string, and a text in the one Unicode  *)
(* encoding becomes the same text in the other.                            *)
(***************************************************************************)
EXTENDS Transcoding, TLAPS, SequenceTheorems, WellFoundedInduction

-----------------------------------------------------------------------------
(* Reading and writing of one code point *)

\* The units of a string, by the way it is converted, and strings: they end
\* with a zero.
Unit(w) == IF w = "to16" THEN 0..255 ELSE 0..(Plane - 1)
Terminated(w) == {s \in Seq(Unit(w)) : s # <<>> /\ s[Len(s)] = 0}

\* The numbers of the planes and of the replacement character.
LEMMA PlaneIs ==
  Plane \in Nat /\ Plane > 4096 /\ Replacement \in Nat /\ Replacement # 0
BY DEF Plane, Replacement

\* A string has a length, and units at its positions.
LEMMA TerminatedIs ==
  ASSUME NEW w, NEW s \in Terminated(w)
  PROVE  /\ Len(s) \in Nat /\ Len(s) >= 1 /\ s[Len(s)] = 0
         /\ \A n \in 1..Len(s) : s[n] \in Nat /\ (s[n] # 0 => n + 1 \in 1..Len(s))
<1>1. s \in Seq(Unit(w)) /\ s # <<>> /\ s[Len(s)] = 0
  BY DEF Terminated
<1>2. Len(s) \in Nat /\ \A n \in 1..Len(s) : s[n] \in Unit(w)
  BY <1>1, ElementOfSeq, LenProperties
<1>3. Len(s) # 0
  BY <1>1, EmptySeq
<1>4. Unit(w) \subseteq Nat
  <2>1. (0..255) \subseteq Nat /\ (0..(Plane - 1)) \subseteq Nat
    BY PlaneIs
  <2> QED BY <2>1 DEF Unit
<1>5. \A n \in 1..Len(s) : s[n] # 0 => n + 1 \in 1..Len(s)
  <2>1. PICK k \in Nat : k = Len(s)
    BY <1>2
  <2>2. \A n \in 1..k : n # k => n + 1 \in 1..k
    OBVIOUS
  <2> QED BY <1>1, <2>1, <2>2
<1>6. Len(s) >= 1
  BY <1>2, <1>3
<1> QED BY <1>1, <1>2, <1>4, <1>5, <1>6

\* What the first byte announces.
LEMMA LeadIs ==
  ASSUME NEW b \in Nat
  PROVE  /\ Lead(b).more \in {0, 1, 2, 3}
         /\ Lead(b).bits \in Nat
         /\ b < 128 => Lead(b).more = 0
<1>1. b % 32 \in Nat /\ b % 16 \in Nat /\ b % 8 \in Nat
  OBVIOUS
<1>2. Lead(b).more \in {0, 1, 2, 3} /\ Lead(b).bits \in Nat
  BY <1>1 DEF Lead
<1>3. ASSUME b < 128 PROVE Lead(b).more = 0
  <2>1. b \div 32 # 6 /\ b \div 16 # 14 /\ b \div 8 # 30
    BY <1>3
  <2> QED BY <2>1 DEF Lead
<1> QED BY <1>2, <1>3

\* A set of numbers up to three that is not empty has a least element.
LEMMA LeastUpto ==
  ASSUME NEW more \in {0, 1, 2, 3}, NEW T \in SUBSET (1..more), T # {}
  PROVE  Min(T) \in T /\ \A n \in T : Min(T) <= n
<1>1. \E m \in T : \A n \in T : m <= n
  <2>1. \A n \in T : n \in {1, 2, 3}
    OBVIOUS
  <2>2. CASE 1 \in T
    BY <2>1, <2>2
  <2>3. CASE 1 \notin T /\ 2 \in T
    BY <2>1, <2>3
  <2>4. CASE 1 \notin T /\ 2 \notin T
    <3>1. 3 \in T /\ \A n \in T : n = 3
      BY <2>1, <2>4
    <3> QED BY <3>1
  <2> QED BY <2>2, <2>3, <2>4
<1> QED BY <1>1 DEF Min

\* What is known of a string of length L: a position that does not hold the
\* end has a next one.
Ended(s, L) ==
  /\ L = Len(s)
  /\ \A n \in 1..L : s[n] \in Nat /\ (s[n] # 0 => n + 1 \in 1..L)

\* The bytes after a first one that a read looks at are in the string: each
\* one that is not the last follows.
LEMMA FollowInside ==
  ASSUME NEW s, NEW L \in Nat, Ended(s, L), NEW at \in 1..L, s[at] # 0,
         NEW more \in {0, 1, 2, 3},
         \A n \in 1..more : at + n <= L => s[at + n] \div 64 = 2
  PROVE  at + more + 1 \in 1..L
<1>1. \A n \in 1..L : s[n] \in Nat /\ (s[n] # 0 => n + 1 \in 1..L)
  BY Zenon DEF Ended
<1>2. at + 1 \in 1..L
  BY <1>1
<1>3. ASSUME NEW n \in {1, 2, 3}, n <= more, at + n \in 1..L
      PROVE  at + n + 1 \in 1..L
  <2>1. s[at + n] \div 64 = 2
    BY <1>3
  <2>2. 0 \div 64 = 0
    OBVIOUS
  <2>3. s[at + n] # 0
    BY <2>1, <2>2
  <2> QED BY <1>1, <1>3, <2>3
<1>4. CASE more = 0
  BY <1>2, <1>4
<1>5. CASE more = 1
  BY <1>2, <1>3, <1>5
<1>6. CASE more = 2
  <2>1. at + 1 + 1 \in 1..L
    BY <1>2, <1>3, <1>6
  <2>2. at + 2 + 1 \in 1..L
    BY <1>3, <1>6, <2>1
  <2> QED BY <1>6, <2>2
<1>7. CASE more = 3
  <2>1. at + 1 + 1 \in 1..L
    BY <1>2, <1>3, <1>7
  <2>2. at + 2 + 1 \in 1..L
    BY <1>3, <1>7, <2>1
  <2>3. at + 3 + 1 \in 1..L
    BY <1>3, <1>7, <2>2
  <2> QED BY <1>7, <2>3
<1> QED BY <1>4, <1>5, <1>6, <1>7

\* read_utf8_codepoint() returns a number, and leaves the string pointer
\* inside the string.
LEMMA ReadUtf8Inside ==
  ASSUME NEW s, NEW L \in Nat, Ended(s, L), NEW at \in 1..L
  PROVE  /\ ReadUtf8(s, at).cp \in Nat
         /\ ReadUtf8(s, at).next \in 1..L
<1> DEFINE lead == Lead(s[at])
           stops == {n \in 1..lead.more : at + n <= Len(s) /\ s[at + n] \div 64 # 2}
           stop == at + Min(stops)
           six(n) == s[at + n] % 64
           cp == CASE lead.more = 1 -> 64 * lead.bits + six(1)
                   [] lead.more = 2 -> 64 * (64 * lead.bits + six(1)) + six(2)
                   [] lead.more = 3 -> 64 * (64 * (64 * lead.bits + six(1)) + six(2)) + six(3)
           full == [cp |-> IF (lead.more = 3 /\ cp < Plane) \/ High(cp) \/ Low(cp)
                           THEN Replacement ELSE cp,
                    next |-> at + lead.more + 1]
           read == ReadUtf8(s, at)
<1> HIDE DEF read, full, cp, six, stop, stops, lead
<1>1. /\ L = Len(s)
      /\ \A n \in 1..L : s[n] \in Nat /\ (s[n] # 0 => n + 1 \in 1..L)
  BY Zenon DEF Ended
<1>2. s[at] \in Nat
  BY <1>1
<1>3. /\ lead.more \in {0, 1, 2, 3} /\ lead.bits \in Nat
      /\ s[at] < 128 => lead.more = 0
  BY <1>2, LeadIs DEF lead
<1>4. CASE s[at] < 128
  <2>1. lead.more = 0 /\ ~(s[at] >= 128) /\ ~(lead.more > 0)
    BY <1>2, <1>3, <1>4
  <2>2. read = [cp |-> s[at], next |-> IF s[at] = 0 THEN at ELSE at + 1]
    BY <1>4, <2>1 DEF ReadUtf8, read, lead
  <2>3. (IF s[at] = 0 THEN at ELSE at + 1) \in 1..L
    BY <1>1
  <2> QED BY <1>2, <2>2, <2>3 DEF read
<1>5. CASE s[at] >= 128 /\ lead.more = 0
  <2>1. ~(s[at] < 128) /\ ~(lead.more > 0)
    BY <1>2, <1>3, <1>5
  <2>2. read = [cp |-> Replacement, next |-> at + 1]
    BY <1>5, <2>1 DEF ReadUtf8, read, lead
  <2>3. at + 1 \in 1..L
    BY <1>1, <1>5
  <2> QED BY <2>2, <2>3, PlaneIs DEF read
<1>6. CASE s[at] >= 128 /\ lead.more > 0 /\ stops # {}
  <2>1. ~(s[at] < 128) /\ lead.more # 0
    BY <1>2, <1>3, <1>6
  <2>2. read = [cp |-> Replacement, next |-> IF s[stop] = 0 THEN stop ELSE stop + 1]
    BY <1>6, <2>1 DEF ReadUtf8, read, lead, stops, stop
  <2>3. Min(stops) \in stops
    <3>1. stops \in SUBSET (1..lead.more)
      BY DEF stops
    <3> QED BY <1>3, <1>6, <3>1, LeastUpto
  <2>4. PICK m \in 1..lead.more : m = Min(stops) /\ at + m <= L
    BY <1>1, <2>3 DEF stops
  <2>5. stop = at + m /\ at + m \in 1..L
    BY <1>3, <2>4 DEF stop
  <2>6. s[at + m] # 0 => at + m + 1 \in 1..L
    BY <1>1, <2>5
  <2>7. (IF s[stop] = 0 THEN stop ELSE stop + 1) \in 1..L
    BY <2>5, <2>6
  <2> QED BY <2>2, <2>7, PlaneIs DEF read
<1>7. CASE s[at] >= 128 /\ lead.more > 0 /\ stops = {}
  <2>1. ~(s[at] < 128) /\ lead.more # 0
    BY <1>2, <1>3, <1>7
  <2>2. read = full
    BY <1>7, <2>1 DEF ReadUtf8, read, lead, stops, full, cp, six
  <2>3. \A n \in 1..lead.more : at + n <= L => s[at + n] \div 64 = 2
    BY <1>1, <1>7 DEF stops
  <2>4. s[at] # 0
    BY <1>7
  <2>5. at + lead.more + 1 \in 1..L
    BY <1>3, <2>3, <2>4, FollowInside
  <2>6. \A n \in 1..lead.more : six(n) \in Nat
    <3> SUFFICES ASSUME NEW n \in 1..lead.more
                 PROVE  s[at + n] % 64 \in Nat
      BY DEF six
    <3>1. at + n \in 1..L
      BY <1>3, <2>5
    <3>2. s[at + n] \in Nat
      BY <1>1, <3>1
    <3> QED BY <3>2
  <2>7. cp \in Nat
    <3>1. \A i, j \in Nat : 64 * i + j \in Nat
      OBVIOUS
    <3>2. CASE lead.more = 1
      <4>1. six(1) \in Nat
        BY <2>6, <3>2
      <4>2. cp = 64 * lead.bits + six(1)
        BY <3>2 DEF cp
      <4> QED BY <1>3, <3>1, <4>1, <4>2
    <3>3. CASE lead.more = 2
      <4>1. six(1) \in Nat /\ six(2) \in Nat
        BY <2>6, <3>3
      <4>2. cp = 64 * (64 * lead.bits + six(1)) + six(2)
        BY <3>3 DEF cp
      <4> QED BY <1>3, <3>1, <4>1, <4>2
    <3>4. CASE lead.more = 3
      <4>1. six(1) \in Nat /\ six(2) \in Nat /\ six(3) \in Nat
        BY <2>6, <3>4
      <4>2. cp = 64 * (64 * (64 * lead.bits + six(1)) + six(2)) + six(3)
        BY <3>4 DEF cp
      <4> QED BY <1>3, <3>1, <4>1, <4>2
    <3> QED BY <1>3, <1>7, <3>2, <3>3, <3>4
  <2>8. full.cp \in Nat
    BY <2>7, PlaneIs DEF full
  <2>9. full.next = at + lead.more + 1
    BY DEF full
  <2> QED BY <2>2, <2>5, <2>8, <2>9 DEF read
<1>8. s[at] < 128 \/ s[at] >= 128
  BY <1>2
<1>9. lead.more = 0 \/ lead.more > 0
  BY <1>3
<1> QED BY <1>4, <1>5, <1>6, <1>7, <1>8, <1>9

\* So does read_utf16_codepoint(), unless it has read the end: a unit of a
\* pair is never the end.
LEMMA ReadUtf16Inside ==
  ASSUME NEW s, NEW L \in Nat, Ended(s, L), NEW at \in 1..L
  PROVE  /\ ReadUtf16(s, at).cp \in Nat
         /\ ReadUtf16(s, at).cp # 0 => ReadUtf16(s, at).next \in 1..L
<1> DEFINE v(h, l) == (h % 1024) * 1024 + (l % 1024)
           paired(h, l) == IF (v(h, l) \div Plane) % 2 = 1 THEN v(h, l) ELSE v(h, l) + Plane
           read == ReadUtf16(s, at)
<1> HIDE DEF read, paired, v
<1>1. \A n \in 1..L : s[n] \in Nat /\ (s[n] # 0 => n + 1 \in 1..L)
  BY Zenon DEF Ended
<1>2. 0 \div 1024 = 0
  OBVIOUS
<1>3. \A n \in 1..L : High(s[n]) \/ Low(s[n]) => n + 1 \in 1..L
  BY <1>1, <1>2 DEF High, Low
<1>4. \A h, l \in Nat : paired(h, l) \in Nat
  <2> SUFFICES ASSUME NEW h \in Nat, NEW l \in Nat PROVE paired(h, l) \in Nat
    OBVIOUS
  <2>1. h % 1024 \in Nat /\ l % 1024 \in Nat
    OBVIOUS
  <2>2. v(h, l) \in Nat
    BY <2>1 DEF v
  <2> QED BY <2>2, PlaneIs DEF paired
<1>5. CASE High(s[at])
  <2>1. ~Low(s[at])
    BY <1>5 DEF High, Low
  <2>2. read = IF Low(s[at + 1])
               THEN [cp |-> paired(s[at], s[at + 1]), next |-> at + 2]
               ELSE [cp |-> Replacement, next |-> at]
    BY <1>5, <2>1 DEF ReadUtf16, read, paired, v
  <2>3. at + 1 \in 1..L
    BY <1>3, <1>5
  <2>4. Low(s[at + 1]) => at + 2 \in 1..L
    BY <1>3, <2>3
  <2>5. paired(s[at], s[at + 1]) \in Nat
    BY <1>1, <1>4, <2>3
  <2> QED BY <2>2, <2>4, <2>5, PlaneIs DEF read
<1>6. CASE ~High(s[at]) /\ Low(s[at])
  <2>1. read = IF High(s[at + 1])
               THEN [cp |-> paired(s[at + 1], s[at]), next |-> at + 2]
               ELSE [cp |-> Replacement, next |-> at]
    BY <1>6 DEF ReadUtf16, read, paired, v
  <2>2. at + 1 \in 1..L
    BY <1>3, <1>6
  <2>3. High(s[at + 1]) => at + 2 \in 1..L
    BY <1>3, <2>2
  <2>4. paired(s[at + 1], s[at]) \in Nat
    BY <1>1, <1>4, <2>2
  <2> QED BY <2>1, <2>3, <2>4, PlaneIs DEF read
<1>7. CASE ~High(s[at]) /\ ~Low(s[at])
  <2>1. read = [cp |-> s[at], next |-> at + 1]
    BY <1>7 DEF ReadUtf16, read
  <2> QED BY <1>1, <2>1 DEF read
<1> QED BY <1>5, <1>6, <1>7

\* A code point takes, in the first pass, the memory that it fills in the
\* second one.
LEMMA SizeIsWritten ==
  ASSUME NEW cp \in Nat
  PROVE  /\ Utf16Of(cp) \in Seq(Nat) /\ SizeUtf16(cp) = 2 * Len(Utf16Of(cp))
         /\ Utf8Of(cp) \in Seq(Nat) /\ SizeUtf8(cp) = Len(Utf8Of(cp))
         /\ Len(Utf16Of(cp)) \in Nat /\ Len(Utf8Of(cp)) \in Nat
<1>1. Plane \in Nat /\ Plane > 4096
  BY PlaneIs
<1>2. \A n, k \in Nat : k > 0 => n \div k \in Nat /\ n % k \in Nat
  OBVIOUS
<1>3. Utf16Of(cp) \in Seq(Nat) /\ SizeUtf16(cp) = 2 * Len(Utf16Of(cp))
  <2>1. CASE cp < Plane
    BY <2>1 DEF Utf16Of, SizeUtf16
  <2>2. CASE ~(cp < Plane)
    <3>1. cp - Plane \in Nat
      BY <1>1, <2>2
    <3>2. (cp - Plane) \div 1024 \in Nat /\ (cp - Plane) % 1024 \in Nat
      BY <1>2, <3>1
    <3> QED BY <2>2, <3>2 DEF Utf16Of, SizeUtf16
  <2> QED BY <2>1, <2>2
<1>4. Utf8Of(cp) \in Seq(Nat) /\ SizeUtf8(cp) = Len(Utf8Of(cp))
  <2> DEFINE more(n) == 128 + ((cp \div n) % 64)
  <2> HIDE DEF more
  <2>1. more(1) \in Nat /\ more(64) \in Nat /\ more(4096) \in Nat
    BY <1>2 DEF more
  <2>2. /\ 192 + cp \div 64 \in Nat /\ 224 + cp \div 4096 \in Nat
        /\ 240 + ((cp \div Plane) % 16) \in Nat
    BY <1>1, <1>2
  <2>3. CASE cp < 128
    <3>1. ~(128 <= cp /\ cp < 2048) /\ ~(2048 <= cp /\ cp < Plane) /\ ~(Plane <= cp /\ cp < 32 * Plane)
      BY <1>1, <2>3
    <3>2. Utf8Of(cp) = <<cp>>
      BY <2>3, <3>1 DEF Utf8Of, more
    <3>3. SizeUtf8(cp) = 1
      BY <2>3, <3>1 DEF SizeUtf8
    <3> QED BY <3>2, <3>3
  <2>4. CASE (128 <= cp /\ cp < 2048)
    <3>1. ~(cp < 128) /\ ~(2048 <= cp /\ cp < Plane) /\ ~(Plane <= cp /\ cp < 32 * Plane)
      BY <1>1, <2>4
    <3>2. Utf8Of(cp) = <<192 + cp \div 64, more(1)>>
      BY <2>4, <3>1 DEF Utf8Of, more
    <3>3. SizeUtf8(cp) = 2
      BY <2>4, <3>1 DEF SizeUtf8
    <3> QED BY <2>1, <2>2, <3>2, <3>3
  <2>5. CASE (2048 <= cp /\ cp < Plane)
    <3>1. ~(cp < 128) /\ ~(128 <= cp /\ cp < 2048) /\ ~(Plane <= cp /\ cp < 32 * Plane)
      BY <1>1, <2>5
    <3>2. Utf8Of(cp) = <<224 + cp \div 4096, more(64), more(1)>>
      BY <2>5, <3>1 DEF Utf8Of, more
    <3>3. SizeUtf8(cp) = 3
      BY <2>5, <3>1 DEF SizeUtf8
    <3> QED BY <2>1, <2>2, <3>2, <3>3
  <2>6. CASE (Plane <= cp /\ cp < 32 * Plane)
    <3>1. ~(cp < 128) /\ ~(128 <= cp /\ cp < 2048) /\ ~(2048 <= cp /\ cp < Plane) /\ ~(cp >= 32 * Plane)
      BY <1>1, <2>6
    <3>2. Utf8Of(cp) = <<240 + ((cp \div Plane) % 16), more(4096), more(64), more(1)>>
      BY <2>6, <3>1 DEF Utf8Of, more
    <3>3. SizeUtf8(cp) = 4
      BY <2>6, <3>1 DEF SizeUtf8
    <3> QED BY <2>1, <2>2, <3>2, <3>3
  <2>7. CASE cp >= 32 * Plane
    <3>1. /\ ~(cp < 128) /\ ~(128 <= cp /\ cp < 2048) /\ ~(2048 <= cp /\ cp < Plane)
          /\ ~(Plane <= cp /\ cp < 32 * Plane)
      BY <1>1, <2>7
    <3>2. Utf8Of(cp) = <<239, 191, 189>>
      BY <3>1 DEF Utf8Of, more
    <3>3. SizeUtf8(cp) = 3
      BY <2>7, <3>1 DEF SizeUtf8
    <3> QED BY <3>2, <3>3
  <2>8. \/ cp < 128 \/ (128 <= cp /\ cp < 2048) \/ (2048 <= cp /\ cp < Plane)
        \/ (Plane <= cp /\ cp < 32 * Plane) \/ cp >= 32 * Plane
    BY <1>1
  <2> QED BY <2>3, <2>4, <2>5, <2>6, <2>7, <2>8
<1> QED BY <1>3, <1>4, LenProperties

-----------------------------------------------------------------------------
(* The two passes *)

\* What a pass reads at a position, by the way of the conversion, the memory
\* that the first pass counts for a code point, and that of one unit.
ReadOf(w, s, at) == IF w = "to16" THEN ReadUtf8(s, at) ELSE ReadUtf16(s, at)
SizeOf(w, cp) == IF w = "to16" THEN SizeUtf16(cp) ELSE SizeUtf8(cp)
Wide(w) == IF w = "to16" THEN 2 ELSE 1

\* A pass over a string that has read n code points, none of them the end:
\* the positions it went through, and the memory counted at each.
Walk(w, s, pos, sum, n) ==
  /\ pos \in [0..n -> 1..Len(s)] /\ pos[0] = 1
  /\ sum \in [0..n -> Nat] /\ sum[0] = 0
  /\ \A j \in 0..(n - 1) : /\ ReadOf(w, s, pos[j]).cp # 0
                           /\ pos[j + 1] = ReadOf(w, s, pos[j]).next
                           /\ sum[j + 1] = sum[j] + SizeOf(w, ReadOf(w, s, pos[j]).cp)
  /\ \A i, j \in 0..n : i <= j => sum[i] <= sum[j]

TypeOK ==
  /\ way \in {"to16", "to8"} /\ str \in Terminated(way)
  /\ pass \in {"measure", "encode", "returned", "failed"}
  /\ p \in 1..Len(str) /\ bytes \in Nat /\ dst \in Seq(Nat)

\* The first pass has counted what its walk gives.
Measured ==
  pass = "measure" =>
    /\ dst = <<>>
    /\ \E n \in Nat : \E pos, sum :
         Walk(way, str, pos, sum, n) /\ pos[n] = p /\ sum[n] = bytes

\* The second pass is on its way along the walk of the first, which ended at
\* the end of the string, and has written what the first counted up to there.
Encoded ==
  pass \in {"encode", "returned"} =>
    \E n \in Nat : \E k \in 0..n : \E pos, sum :
      /\ Walk(way, str, pos, sum, n)
      /\ ReadOf(way, str, pos[n]).cp = 0 /\ bytes = sum[n] + SizeOf(way, 0)
      /\ IF pass = "encode"
         THEN pos[k] = p /\ Wide(way) * Len(dst) = sum[k]
         ELSE Wide(way) * Len(dst) = bytes

IInv == TypeOK /\ Measured /\ Encoded

\* A string that ends with a zero has a next unit after each one that is not.
LEMMA TerminatedEnded ==
  ASSUME NEW w, NEW s \in Terminated(w)
  PROVE  Len(s) \in Nat /\ Ended(s, Len(s)) /\ 1 \in 1..Len(s)
<1>1. /\ Len(s) \in Nat /\ Len(s) >= 1
      /\ \A n \in 1..Len(s) : s[n] \in Nat /\ (s[n] # 0 => n + 1 \in 1..Len(s))
  BY TerminatedIs
<1>2. 1 \in 1..Len(s)
  BY <1>1
<1> QED BY <1>1, <1>2, Zenon DEF Ended

\* A read of either kind returns a number, and unless that is the end it
\* leaves the pointer inside the string.
LEMMA ReadInside ==
  ASSUME NEW w, NEW s \in Terminated(w), NEW at \in 1..Len(s)
  PROVE  /\ ReadOf(w, s, at).cp \in Nat
         /\ ReadOf(w, s, at).cp # 0 => ReadOf(w, s, at).next \in 1..Len(s)
<1>1. PICK L \in Nat : L = Len(s) /\ Ended(s, L)
  BY TerminatedEnded
<1>2. at \in 1..L
  BY <1>1
<1>3. CASE w = "to16"
  <2>1. ReadUtf8(s, at).cp \in Nat /\ ReadUtf8(s, at).next \in 1..L
    BY <1>1, <1>2, ReadUtf8Inside
  <2> QED BY <1>1, <1>3, <2>1, Zenon DEF ReadOf
<1>4. CASE w # "to16"
  <2>1. /\ ReadUtf16(s, at).cp \in Nat
        /\ ReadUtf16(s, at).cp # 0 => ReadUtf16(s, at).next \in 1..L
    BY <1>1, <1>2, ReadUtf16Inside
  <2> QED BY <1>1, <1>4, <2>1, Zenon DEF ReadOf
<1> QED BY <1>3, <1>4

\* The memory counted for a code point is what writing it takes.
LEMMA SizeFits ==
  ASSUME TypeOK, NEW cp \in Nat
  PROVE  /\ SizeOf(way, cp) \in Nat /\ Written(cp) \in Seq(Nat)
         /\ Len(Written(cp)) \in Nat
         /\ SizeOf(way, cp) = Wide(way) * Len(Written(cp))
<1>1. way = "to16" \/ way = "to8"
  BY DEF TypeOK
<1>2. /\ Utf16Of(cp) \in Seq(Nat) /\ SizeUtf16(cp) = 2 * Len(Utf16Of(cp))
      /\ Utf8Of(cp) \in Seq(Nat) /\ SizeUtf8(cp) = Len(Utf8Of(cp))
      /\ Len(Utf16Of(cp)) \in Nat /\ Len(Utf8Of(cp)) \in Nat
  BY SizeIsWritten
<1>3. CASE way = "to16"
  <2>1. Wide(way) = 2 /\ SizeOf(way, cp) = SizeUtf16(cp) /\ Written(cp) = Utf16Of(cp)
    BY <1>3 DEF Wide, SizeOf, Written
  <2> QED BY <1>2, <2>1
<1>4. CASE way = "to8"
  <2>1. Wide(way) = 1 /\ SizeOf(way, cp) = SizeUtf8(cp) /\ Written(cp) = Utf8Of(cp)
    BY <1>4 DEF Wide, SizeOf, Written
  <2> QED BY <1>2, <2>1
<1> QED BY <1>1, <1>3, <1>4

\* A walk that has not met the end goes on by what the next read returns.
LEMMA WalkGrows ==
  ASSUME NEW w, NEW s, NEW pos, NEW sum, NEW n \in Nat, Walk(w, s, pos, sum, n),
         NEW size \in Nat,
         ReadOf(w, s, pos[n]).cp # 0, ReadOf(w, s, pos[n]).next \in 1..Len(s),
         SizeOf(w, ReadOf(w, s, pos[n]).cp) = size
  PROVE  \E q, u : /\ Walk(w, s, q, u, n + 1)
                   /\ q[n + 1] = ReadOf(w, s, pos[n]).next
                   /\ u[n + 1] = sum[n] + size
<1> DEFINE next == ReadOf(w, s, pos[n]).next
           q == [i \in 0..(n + 1) |-> IF i = n + 1 THEN next ELSE pos[i]]
           u == [i \in 0..(n + 1) |-> IF i = n + 1 THEN sum[n] + size ELSE sum[i]]
<1>1. /\ pos \in [0..n -> 1..Len(s)] /\ pos[0] = 1
      /\ sum \in [0..n -> Nat] /\ sum[0] = 0
      /\ \A j \in 0..(n - 1) : /\ ReadOf(w, s, pos[j]).cp # 0
                               /\ pos[j + 1] = ReadOf(w, s, pos[j]).next
                               /\ sum[j + 1] = sum[j] + SizeOf(w, ReadOf(w, s, pos[j]).cp)
      /\ \A i, j \in 0..n : i <= j => sum[i] <= sum[j]
  BY DEF Walk
<1>2. /\ n \in 0..n /\ 0 \in 0..n /\ n + 1 \in 0..(n + 1)
      /\ \A i \in 0..(n + 1) : i = n + 1 \/ i \in 0..n
      /\ \A i \in 0..n : i # n + 1 /\ i \in 0..(n + 1) /\ i + 1 \in 0..(n + 1) /\ i \in Nat
      /\ \A i \in 0..n : i = n \/ (i \in 0..(n - 1) /\ i + 1 \in 0..n)
      /\ (n + 1) - 1 = n
  OBVIOUS
<1>3. next \in 1..Len(s)
  OBVIOUS
<1>4. sum[n] \in Nat /\ sum[n] + size \in Nat
  BY <1>1, <1>2
<1>5. /\ q[n + 1] = next /\ u[n + 1] = sum[n] + size
      /\ \A i \in 0..n : q[i] = pos[i] /\ u[i] = sum[i]
  BY <1>2
<1> HIDE DEF next
<1>6. q \in [0..(n + 1) -> 1..Len(s)]
  <2> SUFFICES ASSUME NEW i \in 0..(n + 1)
               PROVE  (IF i = n + 1 THEN next ELSE pos[i]) \in 1..Len(s)
    OBVIOUS
  <2> QED BY <1>1, <1>2, <1>3, Zenon
<1>7. u \in [0..(n + 1) -> Nat]
  <2> SUFFICES ASSUME NEW i \in 0..(n + 1)
               PROVE  (IF i = n + 1 THEN sum[n] + size ELSE sum[i]) \in Nat
    OBVIOUS
  <2> QED BY <1>1, <1>2, <1>4, Zenon
<1> HIDE DEF q, u
<1>8. q[0] = 1 /\ u[0] = 0
  BY <1>1, <1>2, <1>5, Zenon
<1>9. \A j \in 0..n : /\ ReadOf(w, s, q[j]).cp # 0
                      /\ q[j + 1] = ReadOf(w, s, q[j]).next
                      /\ u[j + 1] = u[j] + SizeOf(w, ReadOf(w, s, q[j]).cp)
  <2> SUFFICES ASSUME NEW j \in 0..n
               PROVE  /\ ReadOf(w, s, q[j]).cp # 0
                      /\ q[j + 1] = ReadOf(w, s, q[j]).next
                      /\ u[j + 1] = u[j] + SizeOf(w, ReadOf(w, s, q[j]).cp)
    OBVIOUS
  <2>1. q[j] = pos[j] /\ u[j] = sum[j]
    BY <1>5
  <2>2. CASE j = n
    BY <1>5, <2>1, <2>2, Zenon DEF next
  <2>3. CASE j # n
    <3>1. j \in 0..(n - 1) /\ j + 1 \in 0..n
      BY <1>2, <2>3, Zenon
    <3>2. q[j + 1] = pos[j + 1] /\ u[j + 1] = sum[j + 1]
      BY <1>5, <3>1
    <3> QED BY <1>1, <2>1, <3>1, <3>2, Zenon
  <2> QED BY <2>2, <2>3
<1>10. \A i, j \in 0..(n + 1) : i <= j => u[i] <= u[j]
  <2> SUFFICES ASSUME NEW i \in 0..(n + 1), NEW j \in 0..(n + 1), i <= j
               PROVE  u[i] <= u[j]
    OBVIOUS
  <2>1. \A k \in 0..n : u[k] \in Nat /\ sum[k] <= sum[n]
    BY <1>1, <1>2, <1>5
  <2>2. CASE j = n + 1 /\ i = n + 1
    BY <1>4, <1>5, <2>2
  <2>3. CASE j = n + 1 /\ i \in 0..n
    BY <1>1, <1>4, <1>5, <2>1, <2>3
  <2>4. CASE j \in 0..n
    <3>1. i \in 0..n
      BY <2>4
    <3> QED BY <1>1, <1>5, <2>4, <3>1
  <2> QED BY <1>2, <2>2, <2>3, <2>4
<1>11. Walk(w, s, q, u, n + 1)
  BY <1>2, <1>6, <1>7, <1>8, <1>9, <1>10, Zenon DEF Walk
<1> QED BY <1>5, <1>11 DEF next

-----------------------------------------------------------------------------
(* The invariant *)

\* What is read is of the code points of the string.
LEMMA ReadIs ==
  ASSUME TypeOK
  PROVE  /\ Read = ReadOf(way, str, p) /\ Read.cp \in Nat
         /\ Read.cp # 0 => Read.next \in 1..Len(str)
         /\ \A cp : Size(cp) = SizeOf(way, cp)
<1>1. str \in Terminated(way) /\ p \in 1..Len(str)
  BY DEF TypeOK
<1>2. Read = ReadOf(way, str, p) /\ \A cp : Size(cp) = SizeOf(way, cp)
  BY Zenon DEF Read, ReadOf, Size, SizeOf
<1> QED BY <1>1, <1>2, ReadInside

\* At the start nothing is counted.
LEMMA InitInv == Init => IInv
<1> SUFFICES ASSUME Init PROVE IInv
  OBVIOUS
<1>1. PICK a \in Strings : way = a.way /\ str = a.str
  BY DEF Init
<1>2. pass = "measure" /\ p = 1 /\ bytes = 0 /\ dst = <<>>
  BY DEF Init
<1>3. way \in {"to16", "to8"} /\ str \in Terminated(way)
  <2>1. /\ a.way \in {"to16", "to8"}
        /\ a.str \in Seq(IF a.way = "to16" THEN 0..255 ELSE 0..(Plane - 1))
        /\ a.str # <<>> /\ a.str[Len(a.str)] = 0
    BY StringsAssumption, Zenon
  <2> QED BY <1>1, <2>1, Zenon DEF Terminated, Unit
<1>4. 1 \in 1..Len(str) /\ <<>> \in Seq(Nat)
  BY <1>3, TerminatedEnded, EmptySeq
<1>5. TypeOK
  BY <1>2, <1>3, <1>4 DEF TypeOK
<1>6. Measured
  <2> DEFINE pos == [i \in 0..0 |-> 1]
             sum == [i \in 0..0 |-> 0]
  <2>1. pos \in [0..0 -> 1..Len(str)] /\ sum \in [0..0 -> Nat] /\ pos[0] = 1 /\ sum[0] = 0
    BY <1>4
  <2> HIDE DEF pos, sum
  <2>2. (0..(0 - 1)) = {} /\ \A i \in 0..0 : i = 0
    OBVIOUS
  <2>3. \A i, j \in 0..0 : i <= j => sum[i] <= sum[j]
    BY <2>1, <2>2
  <2>4. Walk(way, str, pos, sum, 0)
    BY <2>1, <2>2, <2>3, Zenon DEF Walk
  <2> QED BY <1>2, <2>1, <2>4 DEF Measured
<1>7. Encoded
  BY <1>2 DEF Encoded
<1> QED BY <1>5, <1>6, <1>7 DEF IInv

\* The first pass counts one more code point along its walk, or ends it.
LEMMA MeasureInv == IInv /\ Measure => IInv'
<1> SUFFICES ASSUME IInv, Measure PROVE IInv'
  OBVIOUS
<1>1. TypeOK /\ Measured
  BY DEF IInv
<1>2. /\ pass = "measure" /\ way' = way /\ str' = str /\ dst' = dst
      /\ bytes' = bytes + Size(Read.cp)
      /\ Read.cp = 0 => pass' = "encode" /\ p' = 1
      /\ Read.cp # 0 => pass' = "measure" /\ p' = Read.next
  BY DEF Measure, argument
<1>3. PICK n \in Nat : \E pos, sum :
        Walk(way, str, pos, sum, n) /\ pos[n] = p /\ sum[n] = bytes
  BY <1>1, <1>2 DEF Measured
<1>4. PICK pos, sum : Walk(way, str, pos, sum, n) /\ pos[n] = p /\ sum[n] = bytes
  BY <1>3
<1>5. dst = <<>>
  BY <1>1, <1>2 DEF Measured
<1>6. PICK r : r = Read /\ r = ReadOf(way, str, p) /\ r.cp \in Nat
  BY <1>1, ReadIs
<1>7. PICK size \in Nat : size = SizeOf(way, r.cp) /\ size = Size(Read.cp)
  BY <1>1, <1>6, ReadIs, SizeFits
<1>8. 1 \in 1..Len(str) /\ (r.cp # 0 => r.next \in 1..Len(str))
  BY <1>1, <1>6, ReadIs, TerminatedEnded DEF TypeOK
<1>9. bytes' \in Nat /\ bytes' = bytes + size
  BY <1>1, <1>2, <1>7 DEF TypeOK
<1>10. TypeOK'
  <2>1. p' \in 1..Len(str') /\ pass' \in {"measure", "encode"}
    BY <1>2, <1>6, <1>8
  <2> QED BY <1>1, <1>2, <1>9, <2>1 DEF TypeOK
<1>11. CASE r.cp = 0
  <2>1. pass' = "encode" /\ p' = 1
    BY <1>2, <1>6, <1>11
  <2>2. pos[0] = 1 /\ sum[0] = 0
    BY <1>4 DEF Walk
  <2>3. Wide(way) * Len(dst) = sum[0]
    BY <1>5, <2>2 DEF Wide
  <2>4. ReadOf(way, str, pos[n]).cp = 0 /\ bytes' = sum[n] + SizeOf(way, 0)
    BY <1>4, <1>6, <1>7, <1>9, <1>11
  <2>5. 0 \in 0..n
    OBVIOUS
  <2>6. Encoded'
    BY <1>2, <1>4, <2>1, <2>2, <2>3, <2>4, <2>5, Zenon DEF Encoded
  <2>7. Measured'
    BY <2>1 DEF Measured
  <2> QED BY <1>10, <2>6, <2>7 DEF IInv
<1>12. CASE r.cp # 0
  <2>1. pass' = "measure" /\ p' = r.next
    BY <1>2, <1>6, <1>12
  <2>2. \E q, u : /\ Walk(way, str, q, u, n + 1)
                  /\ q[n + 1] = ReadOf(way, str, pos[n]).next
                  /\ u[n + 1] = sum[n] + size
    <3>1. /\ ReadOf(way, str, pos[n]).cp # 0
          /\ ReadOf(way, str, pos[n]).next \in 1..Len(str)
          /\ SizeOf(way, ReadOf(way, str, pos[n]).cp) = size
      BY <1>4, <1>6, <1>7, <1>8, <1>12
    <3> QED BY <1>4, <3>1, WalkGrows
  <2>3. PICK q, u : Walk(way, str, q, u, n + 1) /\ q[n + 1] = p' /\ u[n + 1] = bytes'
    BY <1>4, <1>6, <1>9, <2>1, <2>2
  <2>4. n + 1 \in Nat
    OBVIOUS
  <2>5. Measured'
    BY <1>2, <1>5, <2>3, <2>4, Zenon DEF Measured
  <2>6. Encoded'
    BY <2>1 DEF Encoded
  <2> QED BY <1>10, <2>5, <2>6 DEF IInv
<1> QED BY <1>11, <1>12

\* The second pass goes one step along the walk of the first.
LEMMA EncodeInv == IInv /\ Encode => IInv'
<1> SUFFICES ASSUME IInv, Encode PROVE IInv'
  OBVIOUS
<1>1. TypeOK /\ Encoded
  BY DEF IInv
<1>2. /\ pass = "encode" /\ way' = way /\ str' = str /\ bytes' = bytes
      /\ dst' = dst \o Written(Read.cp)
      /\ Read.cp = 0 => pass' = "returned" /\ p' = p
      /\ Read.cp # 0 => pass' = "encode" /\ p' = Read.next
  BY DEF Encode, argument
<1>3. PICK n \in Nat : \E k \in 0..n : \E pos, sum :
        /\ Walk(way, str, pos, sum, n)
        /\ ReadOf(way, str, pos[n]).cp = 0 /\ bytes = sum[n] + SizeOf(way, 0)
        /\ pos[k] = p /\ Wide(way) * Len(dst) = sum[k]
  BY <1>1, <1>2 DEF Encoded
<1>4. PICK k, pos, sum :
        /\ k \in 0..n /\ Walk(way, str, pos, sum, n)
        /\ ReadOf(way, str, pos[n]).cp = 0 /\ bytes = sum[n] + SizeOf(way, 0)
        /\ pos[k] = p /\ Wide(way) * Len(dst) = sum[k]
  BY <1>3
<1>5. PICK r : r = Read /\ r = ReadOf(way, str, p) /\ r.cp \in Nat
  BY <1>1, ReadIs
<1>6. PICK text \in Seq(Nat) : /\ text = Written(r.cp) /\ Len(text) \in Nat
                               /\ SizeOf(way, r.cp) = Wide(way) * Len(text)
  BY <1>1, <1>5, SizeFits
<1>7. /\ dst' = dst \o text /\ dst' \in Seq(Nat) /\ Len(dst') = Len(dst) + Len(text)
      /\ Len(dst) \in Nat
  <2>1. dst \in Seq(Nat) /\ dst' = dst \o text
    BY <1>1, <1>2, <1>5, <1>6 DEF TypeOK
  <2> QED BY <2>1, ConcatProperties, LenProperties
<1>8. Wide(way) * Len(dst') = sum[k] + SizeOf(way, r.cp)
  <2>1. Wide(way) \in {1, 2}
    BY DEF Wide
  <2> QED BY <1>4, <1>6, <1>7, <2>1
<1>9. r.cp # 0 => r.next \in 1..Len(str)
  BY <1>1, <1>5, ReadIs
<1>10. TypeOK'
  <2>1. p' \in 1..Len(str') /\ pass' \in {"encode", "returned"}
    BY <1>1, <1>2, <1>5, <1>9 DEF TypeOK
  <2> QED BY <1>1, <1>2, <1>7, <2>1 DEF TypeOK
<1>11. Measured'
  BY <1>2 DEF Measured
<1>12. CASE r.cp = 0
  <2>1. pass' = "returned"
    BY <1>2, <1>5, <1>12
  <2>2. k = n
    <3>1. k \in 0..(n - 1) => ReadOf(way, str, pos[k]).cp # 0
      BY <1>4 DEF Walk
    <3>2. k \notin 0..(n - 1)
      BY <1>4, <1>5, <1>12, <3>1
    <3> QED BY <1>4, <3>2
  <2>3. Wide(way) * Len(dst') = bytes'
    BY <1>2, <1>4, <1>8, <1>12, <2>2
  <2>4. Encoded'
    BY <1>2, <1>4, <2>1, <2>3, Zenon DEF Encoded
  <2> QED BY <1>10, <1>11, <2>4 DEF IInv
<1>13. CASE r.cp # 0
  <2>1. pass' = "encode" /\ p' = r.next
    BY <1>2, <1>5, <1>13
  <2>2. k \in 0..(n - 1) /\ k + 1 \in 0..n
    <3>1. k # n
      BY <1>4, <1>5, <1>13
    <3> QED BY <1>4, <3>1
  <2>3. pos[k + 1] = r.next /\ sum[k + 1] = sum[k] + SizeOf(way, r.cp)
    BY <1>4, <1>5, <2>2, Zenon DEF Walk
  <2>4. pos[k + 1] = p' /\ Wide(way) * Len(dst') = sum[k + 1]
    BY <1>8, <2>1, <2>3
  <2>5. Encoded'
    BY <1>2, <1>4, <2>1, <2>2, <2>4, Zenon DEF Encoded
  <2> QED BY <1>10, <1>11, <2>5 DEF IInv
<1> QED BY <1>12, <1>13

\* Nothing else moves a pass.
LEMMA StepInv == IInv /\ [Next]_vars => IInv'
<1> SUFFICES ASSUME IInv, [Next]_vars PROVE IInv'
  OBVIOUS
<1>1. CASE NoMemory
  <2>1. /\ pass' = "failed" /\ way' = way /\ str' = str /\ p' = p /\ bytes' = bytes
        /\ dst' = dst
    BY <1>1 DEF NoMemory, argument
  <2>2. Measured' /\ Encoded'
    BY <2>1 DEF Measured, Encoded
  <2> QED BY <2>1, <2>2 DEF IInv, TypeOK
<1>2. CASE UNCHANGED vars
  BY <1>2 DEF vars, argument, IInv, TypeOK, Measured, Encoded
<1>3. CASE Returned \/ Endless
  BY <1>2, <1>3 DEF Returned, Endless
<1> QED BY <1>1, <1>2, <1>3, MeasureInv, EncodeInv DEF Next

\* The invariant holds of every conversion.
LEMMA Invariance == Spec => []IInv
BY InitInv, StepInv, PTL DEF Spec

\* utf8_to_utf16() and utf16_to_utf8() never write past the memory that they
\* have allocated, and fill it: for every string that ends with a zero,
\* however malformed.
THEOREM NeverOverrunsHolds == Spec => []NeverOverruns
<1>1. ASSUME IInv PROVE NeverOverruns
  <2>1. TypeOK /\ Encoded
    BY <1>1 DEF IInv
  <2>2. bytes \in Nat /\ Len(dst) \in Nat /\ Wide(way) \in {1, 2}
    BY <2>1, LenProperties DEF TypeOK, Wide
  <2>3. ASSUME pass \in {"encode", "returned"}
        PROVE  /\ Wide(way) * Len(dst) <= bytes
               /\ pass = "returned" => Wide(way) * Len(dst) = bytes
    <3>1. PICK n \in Nat : \E k \in 0..n : \E pos, sum :
            /\ Walk(way, str, pos, sum, n)
            /\ ReadOf(way, str, pos[n]).cp = 0 /\ bytes = sum[n] + SizeOf(way, 0)
            /\ IF pass = "encode"
               THEN pos[k] = p /\ Wide(way) * Len(dst) = sum[k]
               ELSE Wide(way) * Len(dst) = bytes
      BY <2>1, <2>3 DEF Encoded
    <3>2. PICK k, pos, sum :
            /\ k \in 0..n /\ Walk(way, str, pos, sum, n)
            /\ bytes = sum[n] + SizeOf(way, 0)
            /\ IF pass = "encode"
               THEN Wide(way) * Len(dst) = sum[k]
               ELSE Wide(way) * Len(dst) = bytes
      BY <3>1
    <3>3. n \in 0..n /\ k \in 0..n /\ k <= n
      BY <3>2
    <3>4. sum[k] <= sum[n] /\ sum[k] \in Nat /\ sum[n] \in Nat
      BY <3>2, <3>3 DEF Walk
    <3>5. SizeOf(way, 0) \in Nat
      BY <2>1, SizeFits
    <3>6. CASE pass = "encode"
      BY <2>2, <3>2, <3>4, <3>5, <3>6
    <3>7. CASE pass = "returned"
      BY <2>2, <3>2, <3>7
    <3> QED BY <2>3, <3>6, <3>7
  <2>4. Len(dst) * (IF way = "to16" THEN 2 ELSE 1) = Wide(way) * Len(dst)
    BY <2>2 DEF Wide
  <2> QED BY <2>3, <2>4 DEF NeverOverruns
<1> QED BY <1>1, Invariance, PTL

\* Both passes stay inside the string: the position they read at is never
\* behind the terminating zero.
THEOREM PassesStayInside == Spec => [](p \in DOMAIN str)
<1>1. ASSUME IInv PROVE p \in DOMAIN str
  <2>1. p \in 1..Len(str) /\ str \in Seq(Unit(way))
    BY <1>1 DEF IInv, TypeOK, Terminated
  <2> QED BY <2>1, LenProperties
<1> QED BY <1>1, Invariance, PTL

-----------------------------------------------------------------------------
(* Code points in their Unicode encoding *)

\* The bytes that follow a first byte carry six bits each.
LEMMA SixBits ==
  ASSUME NEW x \in Nat
  PROVE  LET b == 128 + (x % 64) IN b \in Nat /\ b \div 64 = 2 /\ b % 64 = x % 64
OBVIOUS

\* The first byte of two.
LEMMA TwoBytes ==
  ASSUME NEW cp \in Nat, 128 <= cp, cp < 2048
  PROVE  LET a == cp \div 64
             b == 192 + a
         IN /\ a >= 2 /\ b \div 32 = 6 /\ b \div 16 # 14 /\ b \div 8 # 30
            /\ b % 32 = a /\ b >= 128 /\ a \in Nat
            /\ 64 * a + (cp % 64) = cp
OBVIOUS

\* The first byte of three, of a code point that is not refused.
LEMMA ThreeBytes ==
  ASSUME NEW cp \in Nat, 4096 <= cp, cp < 65536
  PROVE  LET a == cp \div 4096
             b == 224 + a
         IN /\ a > 0 /\ b \div 32 = 7 /\ b \div 16 = 14 /\ b \div 8 # 30
            /\ b % 16 = a /\ b >= 128
            /\ 64 * (64 * a + ((cp \div 64) % 64)) + (cp % 64) = cp
OBVIOUS

\* The first byte of four.
LEMMA FourBytes ==
  ASSUME NEW cp \in Nat, 65536 <= cp, cp < 17 * 65536
  PROVE  LET a == cp \div 262144
             b == 240 + a
         IN /\ b \div 32 = 7 /\ b \div 16 = 15 /\ b \div 8 = 30 /\ b % 8 = a /\ b >= 128
            /\ 64 * (64 * (64 * a + ((cp \div 4096) % 64)) + ((cp \div 64) % 64))
                 + (cp % 64) = cp
OBVIOUS

\* A string holds a text at a position.
Holds(s, at, text) ==
  /\ at + Len(text) - 1 <= Len(s)
  /\ \A i \in 1..Len(text) : s[at + i - 1] = text[i]

\* At a position there is a first byte that announces `more' bytes, and these
\* follow, with the bits x, y and z; together they are a valid code point.
Sequence(s, at, bits, more, x, y, z, cp) ==
  /\ at \in Nat /\ bits \in Nat /\ more \in {1, 2, 3}
  /\ Lead(s[at]) = [bits |-> bits, more |-> more]
  /\ s[at] >= 128 /\ ~(s[at] < 128)
  /\ \A n \in 1..more : s[at + n] \div 64 = 2
  /\ x \in Nat /\ y \in Nat /\ z \in Nat
  /\ s[at + 1] % 64 = x
  /\ more > 1 => s[at + 2] % 64 = y
  /\ more > 2 => s[at + 3] % 64 = z
  /\ more = 1 => cp = 64 * bits + x
  /\ more = 2 => cp = 64 * (64 * bits + x) + y
  /\ more = 3 => cp = 64 * (64 * (64 * bits + x) + y) + z
  /\ ~High(cp) /\ ~Low(cp)
  /\ more = 3 => ~(cp < Plane)

\* Such a sequence is read.
LEMMA ReadsSequence ==
  ASSUME NEW s, NEW at, NEW bits, NEW more, NEW x, NEW y, NEW z, NEW cp,
         Sequence(s, at, bits, more, x, y, z, cp)
  PROVE  ReadUtf8(s, at) = [cp |-> cp, next |-> at + more + 1]
<1> DEFINE lead == Lead(s[at])
           stops == {n \in 1..lead.more : at + n <= Len(s) /\ s[at + n] \div 64 # 2}
           stop == at + Min(stops)
           six(n) == s[at + n] % 64
           value == CASE lead.more = 1 -> 64 * lead.bits + six(1)
                      [] lead.more = 2 -> 64 * (64 * lead.bits + six(1)) + six(2)
                      [] lead.more = 3 ->
                           64 * (64 * (64 * lead.bits + six(1)) + six(2)) + six(3)
           full == [cp |-> IF (lead.more = 3 /\ value < Plane) \/ High(value) \/ Low(value)
                           THEN Replacement ELSE value,
                    next |-> at + lead.more + 1]
           read == ReadUtf8(s, at)
<1> HIDE DEF read, full, value, six, stop, stops, lead
<1>1. /\ at \in Nat /\ bits \in Nat /\ more \in {1, 2, 3}
      /\ Lead(s[at]) = [bits |-> bits, more |-> more]
      /\ s[at] >= 128 /\ ~(s[at] < 128)
      /\ \A n \in 1..more : s[at + n] \div 64 = 2
      /\ x \in Nat /\ y \in Nat /\ z \in Nat
      /\ s[at + 1] % 64 = x
      /\ more > 1 => s[at + 2] % 64 = y
      /\ more > 2 => s[at + 3] % 64 = z
      /\ more = 1 => cp = 64 * bits + x
      /\ more = 2 => cp = 64 * (64 * bits + x) + y
      /\ more = 3 => cp = 64 * (64 * (64 * bits + x) + y) + z
      /\ ~High(cp) /\ ~Low(cp)
      /\ more = 3 => ~(cp < Plane)
  BY Zenon DEF Sequence
<1>2. lead.more = more /\ lead.bits = bits /\ more # 0 /\ more > 0
  BY <1>1 DEF lead
<1>3. stops = {}
  BY <1>1, <1>2 DEF stops
<1>4. read = full
  BY <1>1, <1>2, <1>3 DEF ReadUtf8, read, lead, stops, full, value, six
<1>5. six(1) = x /\ (more > 1 => six(2) = y) /\ (more > 2 => six(3) = z)
  BY <1>1 DEF six
<1>6. value = cp
  <2>1. CASE more = 1
    <3>1. lead.more = 1 /\ lead.more # 2 /\ lead.more # 3
      BY <1>1, <1>2, <2>1
    <3>2. value = 64 * lead.bits + six(1)
      BY <3>1 DEF value
    <3> QED BY <1>1, <1>2, <1>5, <2>1, <3>2
  <2>2. CASE more = 2
    <3>1. lead.more = 2 /\ lead.more # 1 /\ lead.more # 3
      BY <1>1, <1>2, <2>2
    <3>2. value = 64 * (64 * lead.bits + six(1)) + six(2)
      BY <3>1 DEF value
    <3> QED BY <1>1, <1>2, <1>5, <2>2, <3>2
  <2>3. CASE more = 3
    <3>1. lead.more = 3 /\ lead.more # 1 /\ lead.more # 2
      BY <1>1, <1>2, <2>3
    <3>2. value = 64 * (64 * (64 * lead.bits + six(1)) + six(2)) + six(3)
      BY <3>1 DEF value
    <3> QED BY <1>1, <1>2, <1>5, <2>3, <3>2
  <2> QED BY <1>1, <2>1, <2>2, <2>3
<1>7. ~((lead.more = 3 /\ value < Plane) \/ High(value) \/ Low(value))
  BY <1>1, <1>2, <1>6
<1>8. full = [cp |-> cp, next |-> at + more + 1]
  BY <1>1, <1>2, <1>6, <1>7 DEF full
<1> QED BY <1>1, <1>4, <1>8 DEF read

\* read_utf8_codepoint() reads back every code point that is given in its
\* Unicode encoding, but for those whose encoding starts with the byte 0xe0.
LEMMA ReadsUnicode8 ==
  ASSUME NEW cp, CodePoint(cp), cp < 2048 \/ cp >= 4096,
         NEW s, Len(s) \in Nat, NEW at \in Nat, at >= 1, Holds(s, at, Unicode8(cp))
  PROVE  ReadUtf8(s, at) = [cp |-> cp, next |-> at + Len(Unicode8(cp))]
<1> DEFINE six(n) == 128 + ((cp \div n) % 64)
<1> HIDE DEF six
<1>1. /\ cp \in Nat /\ 0 < cp /\ cp < 17 * Plane /\ ~High(cp) /\ ~Low(cp)
      /\ Plane \in Nat /\ Plane > 4096
  BY PlaneIs DEF CodePoint
<1>2. /\ six(1) \div 64 = 2 /\ six(1) % 64 = cp % 64
      /\ six(64) \div 64 = 2 /\ six(64) % 64 = (cp \div 64) % 64
      /\ six(4096) \div 64 = 2 /\ six(4096) % 64 = (cp \div 4096) % 64
      /\ six(1) \in Nat /\ six(64) \in Nat /\ six(4096) \in Nat
  <2>1. cp \div 1 = cp /\ cp \div 64 \in Nat /\ cp \div 4096 \in Nat
    BY <1>1
  <2> QED BY <1>1, <2>1, SixBits DEF six
<1>3. CASE cp < 128
  <2>1. Unicode8(cp) = <<cp>>
    <3>1. ~(128 <= cp /\ cp < 2048) /\ ~(2048 <= cp /\ cp < Plane)
      BY <1>1, <1>3
    <3> QED BY <1>3, <3>1 DEF Unicode8
  <2>2. s[at] = cp
    BY <2>1 DEF Holds
  <2>3. Lead(cp).more = 0
    BY <1>1, <1>3, LeadIs
  <2>4. ReadUtf8(s, at) = [cp |-> s[at], next |-> IF s[at] = 0 THEN at ELSE at + 1]
    <3>1. s[at] < 128 /\ ~(s[at] >= 128) /\ ~(Lead(s[at]).more > 0)
      BY <1>1, <1>3, <2>2, <2>3
    <3> QED BY <3>1 DEF ReadUtf8
  <2>5. Len(Unicode8(cp)) = 1 /\ cp # 0
    BY <1>1, <2>1
  <2> QED BY <2>2, <2>4, <2>5
<1>4. CASE 128 <= cp /\ cp < 2048
  <2> DEFINE a == cp \div 64
             b == 192 + a
  <2> HIDE DEF a, b
  <2>1. Unicode8(cp) = <<b, six(1)>>
    <3>1. ~(cp < 128) /\ ~(2048 <= cp /\ cp < Plane)
      BY <1>1, <1>4
    <3> QED BY <1>4, <3>1 DEF Unicode8, a, b, six
  <2>2. s[at] = b /\ s[at + 1] = six(1) /\ at + 1 <= Len(s)
    <3>1. Len(Unicode8(cp)) = 2 /\ Unicode8(cp)[1] = b /\ Unicode8(cp)[2] = six(1)
      BY <2>1
    <3> QED BY <3>1 DEF Holds
  <2>3. /\ a \in Nat /\ a >= 2 /\ b \div 32 = 6 /\ b \div 16 # 14 /\ b \div 8 # 30
        /\ b \in Nat /\ b % 32 = a /\ b >= 128
        /\ 64 * a + (cp % 64) = cp
    <3>1. b \in Nat
      BY <1>1 DEF a, b
    <3> QED BY <1>1, <1>4, <3>1, TwoBytes DEF a, b
  <2>4. Lead(b) = [bits |-> a, more |-> 1]
    BY <2>3 DEF Lead
  <2>5. s[at + 1] % 64 = cp % 64 /\ s[at + 1] \div 64 = 2
    BY <1>2, <2>2
  <2>6. ReadUtf8(s, at) = [cp |-> cp, next |-> at + 1 + 1]
    <3>1. PICK x \in Nat, y \in Nat, z \in Nat : x = cp % 64 /\ y = 0 /\ z = 0
      BY <1>1
    <3>2. cp = 64 * a + x
      BY <2>3, <3>1
    <3>3. PICK more \in {1, 2, 3} : more = 1
      OBVIOUS
    <3>4. Lead(s[at]) = [bits |-> a, more |-> more] /\ s[at] >= 128 /\ ~(s[at] < 128)
      BY <2>2, <2>3, <2>4, <3>3
    <3>5. \A n \in 1..more : s[at + n] \div 64 = 2
      BY <2>5, <3>3
    <3>6. /\ s[at + 1] % 64 = x
          /\ more > 1 => s[at + 2] % 64 = y
          /\ more > 2 => s[at + 3] % 64 = z
      BY <2>5, <3>1, <3>3
    <3>7. /\ more = 1 => cp = 64 * a + x
          /\ more = 2 => cp = 64 * (64 * a + x) + y
          /\ more = 3 => cp = 64 * (64 * (64 * a + x) + y) + z
      BY <3>2, <3>3
    <3>8. more = 3 => ~(cp < Plane)
      BY <1>1, <1>4, <3>3
    <3>9. at \in Nat /\ a \in Nat /\ ~High(cp) /\ ~Low(cp)
      BY <1>1, <2>3
    <3>10. Sequence(s, at, a, more, x, y, z, cp)
      BY <3>1, <3>3, <3>4, <3>5, <3>6, <3>7, <3>8, <3>9 DEF Sequence
    <3>11. ReadUtf8(s, at) = [cp |-> cp, next |-> at + more + 1]
      BY <3>10, ReadsSequence
    <3> QED BY <3>3, <3>11
  <2>7. Len(Unicode8(cp)) = 2 /\ at + 1 + 1 = at + 2
    BY <2>1
  <2> QED BY <2>6, <2>7
<1>5. CASE 4096 <= cp /\ cp < Plane
  <2> DEFINE a == cp \div 4096
             b == 224 + a
  <2> HIDE DEF a, b
  <2>1. Unicode8(cp) = <<b, six(64), six(1)>>
    <3>1. ~(cp < 128) /\ ~(128 <= cp /\ cp < 2048) /\ 2048 <= cp
      BY <1>1, <1>5
    <3> QED BY <1>5, <3>1 DEF Unicode8, a, b, six
  <2>2. /\ s[at] = b /\ s[at + 1] = six(64) /\ s[at + 2] = six(1)
    <3>1. /\ Len(Unicode8(cp)) = 3 /\ Unicode8(cp)[1] = b /\ Unicode8(cp)[2] = six(64)
          /\ Unicode8(cp)[3] = six(1)
      BY <2>1
    <3> QED BY <3>1 DEF Holds
  <2>3. /\ a > 0 /\ b \div 32 = 7 /\ b \div 16 = 14 /\ b \div 8 # 30
        /\ b % 16 = a /\ b >= 128
        /\ 64 * (64 * a + ((cp \div 64) % 64)) + (cp % 64) = cp
        /\ a \in Nat /\ b \in Nat
    <3>1. cp < 65536
      BY <1>5, SMT DEF Plane
    <3>2. a \in Nat /\ b \in Nat
      BY <1>1 DEF a, b
    <3> QED BY <1>1, <1>5, <3>1, <3>2, ThreeBytes DEF a, b
  <2>4. Lead(b) = [bits |-> a, more |-> 2]
    BY <2>3 DEF Lead
  <2>5. /\ s[at + 1] % 64 = (cp \div 64) % 64 /\ s[at + 2] % 64 = cp % 64
        /\ s[at + 1] \div 64 = 2 /\ s[at + 2] \div 64 = 2
    BY <1>2, <2>2
  <2>6. ReadUtf8(s, at) = [cp |-> cp, next |-> at + 2 + 1]
    <3>1. PICK x \in Nat, y \in Nat, z \in Nat : x = (cp \div 64) % 64 /\ y = cp % 64 /\ z = 0
      BY <1>1
    <3>2. cp = 64 * (64 * a + x) + y
      BY <2>3, <3>1
    <3>3. PICK more \in {1, 2, 3} : more = 2
      OBVIOUS
    <3>4. Lead(s[at]) = [bits |-> a, more |-> more] /\ s[at] >= 128 /\ ~(s[at] < 128)
      BY <2>2, <2>3, <2>4, <3>3
    <3>5. \A n \in 1..more : s[at + n] \div 64 = 2
      BY <2>5, <3>3
    <3>6. /\ s[at + 1] % 64 = x
          /\ more > 1 => s[at + 2] % 64 = y
          /\ more > 2 => s[at + 3] % 64 = z
      BY <2>5, <3>1, <3>3
    <3>7. /\ more = 1 => cp = 64 * a + x
          /\ more = 2 => cp = 64 * (64 * a + x) + y
          /\ more = 3 => cp = 64 * (64 * (64 * a + x) + y) + z
      BY <3>2, <3>3
    <3>8. more = 3 => ~(cp < Plane)
      BY <1>1, <1>5, <3>3
    <3>9. at \in Nat /\ a \in Nat /\ ~High(cp) /\ ~Low(cp)
      BY <1>1, <2>3
    <3>10. Sequence(s, at, a, more, x, y, z, cp)
      BY <3>1, <3>3, <3>4, <3>5, <3>6, <3>7, <3>8, <3>9 DEF Sequence
    <3>11. ReadUtf8(s, at) = [cp |-> cp, next |-> at + more + 1]
      BY <3>10, ReadsSequence
    <3> QED BY <3>3, <3>11
  <2>7. Len(Unicode8(cp)) = 3 /\ at + 2 + 1 = at + 3
    BY <2>1
  <2> QED BY <2>6, <2>7
<1>6. CASE Plane <= cp
  <2> DEFINE a == cp \div 262144
             b == 240 + a
  <2> HIDE DEF a, b
  <2>1. Unicode8(cp) = <<b, six(4096), six(64), six(1)>>
    <3>1. ~(cp < 128) /\ ~(128 <= cp /\ cp < 2048) /\ ~(2048 <= cp /\ cp < Plane)
      BY <1>1, <1>6
    <3> QED BY <3>1 DEF Unicode8, a, b, six
  <2>2. /\ s[at] = b /\ s[at + 1] = six(4096) /\ s[at + 2] = six(64) /\ s[at + 3] = six(1)
    <3>1. /\ Len(Unicode8(cp)) = 4 /\ Unicode8(cp)[1] = b /\ Unicode8(cp)[2] = six(4096)
          /\ Unicode8(cp)[3] = six(64) /\ Unicode8(cp)[4] = six(1)
      BY <2>1
    <3> QED BY <3>1 DEF Holds
  <2>3. /\ b \div 32 = 7 /\ b \div 16 = 15 /\ b \div 8 = 30 /\ b % 8 = a /\ b >= 128
        /\ 64 * (64 * (64 * a + ((cp \div 4096) % 64)) + ((cp \div 64) % 64))
             + (cp % 64) = cp
        /\ a \in Nat /\ b \in Nat
    <3>1. 65536 <= cp /\ cp < 17 * 65536
      BY <1>1, <1>6, SMT DEF Plane
    <3>2. a \in Nat /\ b \in Nat
      BY <1>1 DEF a, b
    <3> QED BY <1>1, <3>1, <3>2, FourBytes DEF a, b
  <2>4. Lead(b) = [bits |-> a, more |-> 3]
    BY <2>3 DEF Lead
  <2>5. /\ s[at + 1] % 64 = (cp \div 4096) % 64 /\ s[at + 2] % 64 = (cp \div 64) % 64
        /\ s[at + 3] % 64 = cp % 64
        /\ s[at + 1] \div 64 = 2 /\ s[at + 2] \div 64 = 2 /\ s[at + 3] \div 64 = 2
    BY <1>2, <2>2
  <2>6. ReadUtf8(s, at) = [cp |-> cp, next |-> at + 3 + 1]
    <3>1. PICK x \in Nat, y \in Nat, z \in Nat : x = (cp \div 4096) % 64 /\ y = (cp \div 64) % 64 /\ z = cp % 64
      BY <1>1
    <3>2. cp = 64 * (64 * (64 * a + x) + y) + z
      BY <2>3, <3>1
    <3>3. PICK more \in {1, 2, 3} : more = 3
      OBVIOUS
    <3>4. Lead(s[at]) = [bits |-> a, more |-> more] /\ s[at] >= 128 /\ ~(s[at] < 128)
      BY <2>2, <2>3, <2>4, <3>3
    <3>5. \A n \in 1..more : s[at + n] \div 64 = 2
      BY <2>5, <3>3
    <3>6. /\ s[at + 1] % 64 = x
          /\ more > 1 => s[at + 2] % 64 = y
          /\ more > 2 => s[at + 3] % 64 = z
      BY <2>5, <3>1, <3>3
    <3>7. /\ more = 1 => cp = 64 * a + x
          /\ more = 2 => cp = 64 * (64 * a + x) + y
          /\ more = 3 => cp = 64 * (64 * (64 * a + x) + y) + z
      BY <3>2, <3>3
    <3>8. more = 3 => ~(cp < Plane)
      BY <1>1, <1>6, <3>3
    <3>9. at \in Nat /\ a \in Nat /\ ~High(cp) /\ ~Low(cp)
      BY <1>1, <2>3
    <3>10. Sequence(s, at, a, more, x, y, z, cp)
      BY <3>1, <3>3, <3>4, <3>5, <3>6, <3>7, <3>8, <3>9 DEF Sequence
    <3>11. ReadUtf8(s, at) = [cp |-> cp, next |-> at + more + 1]
      BY <3>10, ReadsSequence
    <3> QED BY <3>3, <3>11
  <2>7. Len(Unicode8(cp)) = 4 /\ at + 3 + 1 = at + 4
    BY <2>1
  <2> QED BY <2>6, <2>7
<1> QED BY <1>1, <1>3, <1>4, <1>5, <1>6

\* read_utf16_codepoint() reads back every code point that takes one unit.
LEMMA ReadsUnicode16 ==
  ASSUME NEW cp, CodePoint(cp), cp < Plane,
         NEW s, Len(s) \in Nat, NEW at \in Nat, at >= 1, Holds(s, at, Unicode16(cp))
  PROVE  ReadUtf16(s, at) = [cp |-> cp, next |-> at + Len(Unicode16(cp))]
<1>1. ~High(cp) /\ ~Low(cp)
  BY DEF CodePoint
<1>2. Unicode16(cp) = <<cp>> /\ Len(Unicode16(cp)) = 1
  BY DEF Unicode16
<1>3. s[at] = cp
  BY <1>2 DEF Holds
<1>4. ReadUtf16(s, at) = [cp |-> s[at], next |-> at + 1]
  BY <1>1, <1>3 DEF ReadUtf16
<1> QED BY <1>2, <1>3, <1>4

\* What is written is the Unicode encoding: in UTF-16 for all code points, in
\* UTF-8 for those below plane 1.
LEMMA WrittenUnicode ==
  ASSUME NEW cp, CodePoint(cp)
  PROVE  /\ Utf16Of(cp) = Unicode16(cp)
         /\ cp < Plane => Utf8Of(cp) = Unicode8(cp)
<1>1. Utf16Of(cp) = Unicode16(cp)
  BY DEF Utf16Of, Unicode16
<1>2. ASSUME cp < Plane PROVE Utf8Of(cp) = Unicode8(cp)
  <2>1. cp \in Nat /\ Plane \in Nat
    BY PlaneIs DEF CodePoint
  <2> DEFINE six(n) == 128 + ((cp \div n) % 64)
  <2> HIDE DEF six
  <2>2. CASE cp < 128
    <3>1. ~(128 <= cp /\ cp < 2048) /\ ~(2048 <= cp /\ cp < Plane) /\ ~(Plane <= cp /\ cp < 32 * Plane)
      BY <1>2, <2>1, <2>2, PlaneIs
    <3> QED BY <2>2, <3>1 DEF Utf8Of, Unicode8
  <2>3. CASE 128 <= cp /\ cp < 2048
    <3>1. ~(cp < 128) /\ ~(2048 <= cp /\ cp < Plane) /\ ~(Plane <= cp /\ cp < 32 * Plane)
      BY <1>2, <2>1, <2>3, PlaneIs
    <3>2. Utf8Of(cp) = <<192 + cp \div 64, six(1)>>
      BY <2>3, <3>1 DEF Utf8Of, six
    <3>3. Unicode8(cp) = <<192 + cp \div 64, six(1)>>
      BY <2>3, <3>1 DEF Unicode8, six
    <3> QED BY <3>2, <3>3
  <2>4. CASE 2048 <= cp /\ cp < Plane
    <3>1. ~(cp < 128) /\ ~(128 <= cp /\ cp < 2048) /\ ~(Plane <= cp /\ cp < 32 * Plane)
      BY <1>2, <2>1, <2>4, PlaneIs
    <3>2. Utf8Of(cp) = <<224 + cp \div 4096, six(64), six(1)>>
      BY <2>4, <3>1 DEF Utf8Of, six
    <3>3. Unicode8(cp) = <<224 + cp \div 4096, six(64), six(1)>>
      BY <2>4, <3>1 DEF Unicode8, six
    <3> QED BY <3>2, <3>3
  <2> QED BY <1>2, <2>1, <2>2, <2>3, <2>4
<1> QED BY <1>1, <1>2

-----------------------------------------------------------------------------
(* Texts *)

\* Numbers that are not none have a least one.
LEMMA LeastIn ==
  ASSUME NEW T \in SUBSET Nat, T # {}
  PROVE  \E m \in T : \A k \in T : ~(k < m)
<1> DEFINE Less == OpToRel(<, Nat)
<1>1. \A i, k \in Nat : k < i => <<k, i>> \in Less
  BY Zenon DEF OpToRel
<1>2. PICK m \in T : \A k \in T : ~(<<k, m>> \in Less)
  BY NatLessThanWellFounded, WFMin
<1> HIDE DEF Less
<1> QED
  BY <1>1, <1>2

\* How a text grows with its code points.
Joined(f, bits, cps, n) ==
  IF n = 0 THEN <<>> ELSE f[n - 1] \o Unicode(bits, cps[n])

\* N code points have encodings.
Encoding(bits, cps, N) ==
  N \in Nat /\ \A n \in 1..N : Unicode(bits, cps[n]) \in Seq(Nat)

\* There is a function from numbers of code points to texts.
LEMMA TextExists ==
  ASSUME NEW bits, NEW cps, NEW N, Encoding(bits, cps, N)
  PROVE  \E f \in [0..N -> Seq(Nat)] : f = [n \in 0..N |-> Joined(f, bits, cps, n)]
<1> DEFINE S == Seq(Nat)
           Walked(m) == \E f \in [0..m -> S] : \A n \in 0..m : f[n] = Joined(f, bits, cps, n)
           T == {m \in 0..N : ~Walked(m)}
<1>0. N \in Nat /\ \A n \in 1..N : Unicode(bits, cps[n]) \in Seq(Nat)
  BY DEF Encoding
<1>1. <<>> \in S
  BY EmptySeq
<1>2. ASSUME T # {} PROVE FALSE
  <2>1. T \in SUBSET Nat
    BY <1>0
  <2>2. PICK m \in T : \A k \in T : ~(k < m)
    BY <1>2, <2>1, LeastIn
  <2>3. m \in 0..N /\ ~Walked(m)
    BY <2>2
  <2>4. Walked(0)
    <3> DEFINE f == [n \in 0..0 |-> <<>>]
    <3>1. f \in [0..0 -> S] /\ \A n \in 0..0 : f[n] = Joined(f, bits, cps, n)
      <4>1. \A n \in 0..0 : n = 0 /\ f[n] = <<>>
        OBVIOUS
      <4> QED BY <1>1, <4>1 DEF Joined
    <3> HIDE DEF f
    <3> QED BY <3>1
  <2>5. m # 0
    BY <2>3, <2>4
  <2>6. m - 1 \in 0..N /\ m - 1 < m /\ m \in 1..N /\ m - 1 \in 0..(m - 1)
    BY <1>0, <2>3, <2>5
  <2>7. Walked(m - 1)
    <3> HIDE DEF Walked
    <3>1. m - 1 \notin T
      <4> HIDE DEF T
      <4> QED BY <2>2, <2>6
    <3> QED BY <2>6, <3>1
  <2>8. PICK f \in [0..(m - 1) -> S] : \A n \in 0..(m - 1) : f[n] = Joined(f, bits, cps, n)
    BY <2>7
  <2> DEFINE g == [n \in 0..m |-> IF n = m THEN Joined(f, bits, cps, m) ELSE f[n]]
  <2>9. Joined(f, bits, cps, m) \in S
    <3>1. f[m - 1] \in S /\ Unicode(bits, cps[m]) \in S
      BY <1>0, <2>6
    <3>2. f[m - 1] \o Unicode(bits, cps[m]) \in S
      BY <3>1, ConcatProperties
    <3> QED BY <2>5, <3>2 DEF Joined
  <2>10. g \in [0..m -> S]
    <3> SUFFICES ASSUME NEW n \in 0..m
                 PROVE  (IF n = m THEN Joined(f, bits, cps, m) ELSE f[n]) \in S
      OBVIOUS
    <3>1. CASE n = m
      BY <2>9, <3>1
    <3>2. CASE n # m
      <4>1. n \in 0..(m - 1)
        BY <1>0, <2>3, <3>2
      <4> QED BY <3>2, <4>1
    <3> QED BY <3>1, <3>2
  <2>11. \A n \in 0..(m - 1) : n \in 0..m /\ g[n] = f[n]
    BY <1>0, <2>3
  <2>12. g[m] = Joined(f, bits, cps, m)
    BY <1>0, <2>3
  <2> HIDE DEF g
  <2>13. \A n \in 0..m : g[n] = Joined(g, bits, cps, n)
    <3> SUFFICES ASSUME NEW n \in 0..m PROVE g[n] = Joined(g, bits, cps, n)
      OBVIOUS
    <3>1. CASE n = m
      <4>1. g[m - 1] = f[m - 1]
        BY <2>6, <2>11
      <4> QED BY <2>5, <2>12, <3>1, <4>1 DEF Joined
    <3>2. CASE n # m
      <4>1. n \in 0..(m - 1) /\ (n # 0 => n - 1 \in 0..(m - 1))
        BY <1>0, <2>3, <3>2
      <4>2. g[n] = f[n] /\ (n # 0 => g[n - 1] = f[n - 1])
        BY <2>11, <4>1
      <4>3. f[n] = Joined(f, bits, cps, n)
        BY <2>8, <4>1
      <4> QED BY <4>2, <4>3 DEF Joined
    <3> QED BY <3>1, <3>2
  <2> QED BY <1>0, <2>3, <2>10, <2>13
<1>3. Walked(N)
  <2> HIDE DEF Walked
  <2>1. N \in 0..N
    BY <1>0
  <2> QED BY <1>2, <2>1
<1>4. PICK f \in [0..N -> S] : \A n \in 0..N : f[n] = Joined(f, bits, cps, n)
  BY <1>3
<1> QED
  BY <1>4

\* The texts of a sequence of code points: each is the one before it and one
\* more code point.
LEMMA TextIs ==
  ASSUME NEW bits, NEW cps, NEW N, N = Len(cps), Encoding(bits, cps, N)
  PROVE  /\ Text(bits, cps)[0] = <<>>
         /\ \A n \in 0..N : Text(bits, cps)[n] \in Seq(Nat)
         /\ \A n \in 1..N : Text(bits, cps)[n] = Text(bits, cps)[n - 1] \o Unicode(bits, cps[n])
<1> DEFINE W(g) == g = [n \in 0..N |-> Joined(g, bits, cps, n)]
<1>0. N \in Nat /\ \A n \in 1..N : Unicode(bits, cps[n]) \in Seq(Nat)
  BY DEF Encoding
<1>1. Text(bits, cps) = CHOOSE g : W(g)
  BY DEF Text, Joined
<1>2. \E f : W(f)
  <2>1. \E f \in [0..N -> Seq(Nat)] : f = [n \in 0..N |-> Joined(f, bits, cps, n)]
    BY TextExists
  <2> QED BY <2>1
<1> HIDE DEF W
<1>3. W(Text(bits, cps))
  BY <1>1, <1>2
<1>4. \A n \in 0..N : Text(bits, cps)[n] = Joined(Text(bits, cps), bits, cps, n)
  BY <1>3 DEF W
<1>5. Text(bits, cps)[0] = <<>> /\ <<>> \in Seq(Nat)
  <2>1. 0 \in 0..N /\ <<>> \in Seq(Nat)
    BY <1>0, EmptySeq
  <2> QED BY <1>4, <2>1 DEF Joined
<1>6. \A n \in 1..N : Text(bits, cps)[n] = Text(bits, cps)[n - 1] \o Unicode(bits, cps[n])
  <2>1. \A n \in 1..N : n \in 0..N /\ n # 0
    BY <1>0
  <2> QED BY <1>4, <2>1 DEF Joined
<1>7. \A n \in 0..N : Text(bits, cps)[n] \in Seq(Nat)
  <2> DEFINE T == {n \in 0..N : Text(bits, cps)[n] \notin Seq(Nat)}
  <2> SUFFICES ASSUME T # {} PROVE FALSE
    OBVIOUS
  <2>1. T \in SUBSET Nat
    BY <1>0
  <2>2. PICK m \in T : \A k \in T : ~(k < m)
    BY <2>1, LeastIn
  <2>3. m \in 0..N /\ Text(bits, cps)[m] \notin Seq(Nat)
    BY <2>2
  <2>4. m # 0
    BY <1>5, <2>3
  <2>5. m - 1 \in 0..N /\ m - 1 < m /\ m \in 1..N
    BY <1>0, <2>3, <2>4
  <2>6. m - 1 \notin T
    <3> HIDE DEF T
    <3> QED BY <2>2, <2>5
  <2>7. Text(bits, cps)[m - 1] \in Seq(Nat) /\ Unicode(bits, cps[m]) \in Seq(Nat)
    BY <1>0, <2>5, <2>6
  <2>8. Text(bits, cps)[m - 1] \o Unicode(bits, cps[m]) \in Seq(Nat)
    BY <2>7, ConcatProperties
  <2> QED BY <1>6, <2>3, <2>5, <2>8
<1> QED
  BY <1>5, <1>6, <1>7

\* Texts that grow by one encoding at a time.
Growing(f, u, N) ==
  /\ N \in Nat
  /\ \A n \in 0..N : f[n] \in Seq(Nat)
  /\ \A n \in 1..N : u[n] \in Seq(Nat) /\ f[n] = f[n - 1] \o u[n]

\* Each text is the beginning of the whole.
LEMMA TextBegins ==
  ASSUME NEW f, NEW u, NEW N, Growing(f, u, N), NEW k \in 0..N
  PROVE  /\ Len(f[k]) \in Nat /\ Len(f[N]) \in Nat /\ Len(f[k]) <= Len(f[N])
         /\ \A i \in 1..Len(f[k]) : f[N][i] = f[k][i]
<1> DEFINE Begins(j) == /\ Len(f[k]) <= Len(f[j])
                        /\ \A i \in 1..Len(f[k]) : f[j][i] = f[k][i]
           T == {j \in k..N : ~Begins(j)}
<1>0. /\ N \in Nat
      /\ \A n \in 0..N : f[n] \in Seq(Nat)
      /\ \A n \in 1..N : u[n] \in Seq(Nat) /\ f[n] = f[n - 1] \o u[n]
  BY DEF Growing
<1>1. \A n \in 0..N : Len(f[n]) \in Nat
  BY <1>0, LenProperties
<1>2. ASSUME T # {} PROVE FALSE
  <2>1. T \in SUBSET Nat
    BY <1>0
  <2>2. PICK m \in T : \A j \in T : ~(j < m)
    BY <1>2, <2>1, LeastIn
  <2>3. m \in k..N /\ ~Begins(m)
    BY <2>2
  <2>4. Begins(k)
    BY <1>0, <1>1
  <2>5. m # k
    BY <2>3, <2>4
  <2>6. m - 1 \in k..N /\ m - 1 < m /\ m \in 1..N /\ m - 1 \in 0..N
    BY <1>0, <2>3, <2>5
  <2>7. Begins(m - 1)
    <3> HIDE DEF Begins
    <3>1. m - 1 \notin T
      <4> HIDE DEF T
      <4> QED BY <2>2, <2>6
    <3> QED BY <2>6, <3>1
  <2>8. PICK a \in Seq(Nat), b \in Seq(Nat) : a = f[m - 1] /\ b = u[m] /\ f[m] = a \o b
    BY <1>0, <2>6
  <2>9. /\ Len(f[m]) = Len(a) + Len(b) /\ Len(a) \in Nat /\ Len(b) \in Nat
        /\ \A i \in 1..(Len(a) + Len(b)) : f[m][i] = IF i <= Len(a) THEN a[i] ELSE b[i - Len(a)]
    <3>1. /\ Len(a \o b) = Len(a) + Len(b)
          /\ \A i \in 1..(Len(a) + Len(b)) : (a \o b)[i] = IF i <= Len(a) THEN a[i] ELSE b[i - Len(a)]
      BY ConcatProperties
    <3>2. Len(a) \in Nat /\ Len(b) \in Nat
      BY LenProperties
    <3> QED BY <2>8, <3>1, <3>2
  <2>10. PICK la \in Nat, lb \in Nat, lk \in Nat : la = Len(a) /\ lb = Len(b) /\ lk = Len(f[k])
    BY <1>0, <1>1, <2>9
  <2>11. lk <= la /\ \A i \in 1..lk : a[i] = f[k][i]
    BY <2>7, <2>8, <2>10
  <2>12. \A i \in 1..lk : i \in 1..(la + lb) /\ i <= la
    BY <2>11
  <2>13. \A i \in 1..lk : f[m][i] = f[k][i]
    BY <2>9, <2>10, <2>11, <2>12
  <2>14. lk <= Len(f[m])
    BY <2>9, <2>10, <2>11
  <2> QED BY <2>3, <2>10, <2>13, <2>14
<1>3. Begins(N)
  <2> HIDE DEF Begins
  <2>1. N \in k..N
    BY <1>0
  <2> QED BY <1>2, <2>1
<1> QED BY <1>0, <1>1, <1>3

-----------------------------------------------------------------------------
(* The conversion *)

\* What the string is written in and what it is converted to.
Source(w) == IF w = "to16" THEN 8 ELSE 16
Target(w) == IF w = "to16" THEN 16 ELSE 8

AllKept == points # <<>> /\ \A n \in DOMAIN points : Kept(points[n])

\* A well-formed string is the encoding of its code points.
Given ==
  /\ points \in Seq(Nat)
  /\ points # <<>> =>
       /\ \A n \in DOMAIN points : CodePoint(points[n])
       /\ str = Text(Source(way), points)[Len(points)] \o <<0>>

\* The second pass has read the first k code points, and written them.
Converted ==
  AllKept =>
    /\ pass = "encode" =>
         \E k \in 0..Len(points) : /\ p = Len(Text(Source(way), points)[k]) + 1
                                   /\ dst = Text(Target(way), points)[k]
    /\ pass = "returned" => dst = Text(Target(way), points)[Len(points)] \o <<0>>

CInv == Given /\ Converted

\* The encoding of a code point is some units.
LEMMA UnicodeIs ==
  ASSUME NEW cp, CodePoint(cp), NEW bits
  PROVE  /\ Unicode(bits, cp) \in Seq(Nat) /\ Len(Unicode(bits, cp)) \in Nat
         /\ cp \in Nat /\ cp # 0
<1>1. cp \in Nat /\ 0 < cp /\ Plane \in Nat /\ Plane > 4096
  BY PlaneIs DEF CodePoint
<1>2. Unicode16(cp) \in Seq(Nat)
  <2>1. Utf16Of(cp) \in Seq(Nat)
    BY <1>1, SizeIsWritten
  <2> QED BY <2>1, WrittenUnicode
<1>3. Unicode8(cp) \in Seq(Nat)
  <2>1. CASE cp < Plane
    <3>1. Utf8Of(cp) \in Seq(Nat)
      BY <1>1, SizeIsWritten
    <3> QED BY <2>1, <3>1, WrittenUnicode
  <2>2. CASE ~(cp < Plane)
    <3> DEFINE six(n) == 128 + ((cp \div n) % 64)
    <3> HIDE DEF six
    <3>1. ~(cp < 128) /\ ~(128 <= cp /\ cp < 2048) /\ ~(2048 <= cp /\ cp < Plane)
      BY <1>1, <2>2
    <3>2. Unicode8(cp) = <<240 + cp \div 262144, six(4096), six(64), six(1)>>
      BY <3>1 DEF Unicode8, six
    <3>3. six(1) \in Nat /\ six(64) \in Nat /\ six(4096) \in Nat /\ 240 + cp \div 262144 \in Nat
      BY <1>1 DEF six
    <3> QED BY <3>2, <3>3
  <2> QED BY <2>1, <2>2
<1>4. Unicode(bits, cp) \in Seq(Nat)
  BY <1>2, <1>3 DEF Unicode
<1> QED BY <1>1, <1>4, LenProperties

\* The texts of the code points, in both encodings.
LEMMA TextsAre ==
  ASSUME Given, AllKept, NEW bits, NEW N, N = Len(points)
  PROVE  /\ N \in Nat /\ DOMAIN points = 1..N
         /\ \A n \in 1..N : /\ CodePoint(points[n]) /\ Kept(points[n])
                            /\ Unicode(bits, points[n]) \in Seq(Nat)
                            /\ Text(bits, points)[n] =
                                 Text(bits, points)[n - 1] \o Unicode(bits, points[n])
         /\ Text(bits, points)[0] = <<>>
         /\ \A n \in 0..N : Text(bits, points)[n] \in Seq(Nat)
<1>1. points \in Seq(Nat) /\ points # <<>> /\ (\A n \in DOMAIN points : CodePoint(points[n]))
      /\ \A n \in DOMAIN points : Kept(points[n])
  BY DEF Given, AllKept
<1>2. N \in Nat /\ DOMAIN points = 1..N
  BY <1>1, LenProperties
<1>3. \A n \in 1..N : Unicode(bits, points[n]) \in Seq(Nat)
  BY <1>1, <1>2, UnicodeIs
<1>4. Encoding(bits, points, N)
  BY <1>2, <1>3 DEF Encoding
<1>5. /\ Text(bits, points)[0] = <<>>
      /\ \A n \in 0..N : Text(bits, points)[n] \in Seq(Nat)
      /\ \A n \in 1..N : Text(bits, points)[n] =
                           Text(bits, points)[n - 1] \o Unicode(bits, points[n])
  BY <1>4, TextIs
<1> QED BY <1>1, <1>2, <1>3, <1>5

\* The terminating zero.
LEMMA ZeroIs == <<0>> \in Seq(Nat) /\ Len(<<0>>) = 1
OBVIOUS

\* Behind the text of k code points the string holds the next one, and behind
\* the text of all of them the end.
LEMMA StringHolds ==
  ASSUME Given, AllKept, NEW f, f = Text(Source(way), points), NEW N, N = Len(points)
  PROVE  /\ \A k \in 0..N : Len(f[k]) \in Nat
         /\ \A k \in 1..N :
              /\ Holds(str, Len(f[k - 1]) + 1, Unicode(Source(way), points[k]))
              /\ Len(f[k]) = Len(f[k - 1]) + Len(Unicode(Source(way), points[k]))
         /\ str[Len(f[N]) + 1] = 0 /\ Len(str) \in Nat
<1> DEFINE u == [k \in 1..N |-> Unicode(Source(way), points[k])]
<1>1. /\ N \in Nat
      /\ \A n \in 1..N : u[n] \in Seq(Nat) /\ f[n] = f[n - 1] \o u[n]
      /\ \A n \in 0..N : f[n] \in Seq(Nat)
  BY TextsAre
<1>2. \A k \in 1..N : Unicode(Source(way), points[k]) = u[k]
  BY Zenon
<1> HIDE DEF u
<1>3. str = f[N] \o <<0>>
  BY DEF Given, AllKept
<1>4. PICK w \in Seq(Nat) : w = f[N]
  BY <1>1
<1>5. PICK e \in Seq(Nat) : e = <<0>>
  BY ZeroIs
<1>6. /\ Len(w) \in Nat /\ Len(e) = 1 /\ e[1] = 0
      /\ Len(str) = Len(w) + 1
      /\ \A i \in 1..(Len(w) + 1) : str[i] = IF i <= Len(w) THEN w[i] ELSE e[i - Len(w)]
  <2>1. Len(w) \in Nat /\ Len(e) = 1 /\ e[1] = 0
    BY <1>5, LenProperties
  <2>2. /\ Len(w \o e) = Len(w) + Len(e)
        /\ \A i \in 1..(Len(w) + Len(e)) : (w \o e)[i] = IF i <= Len(w) THEN w[i] ELSE e[i - Len(w)]
    BY ConcatProperties
  <2> QED BY <1>3, <1>4, <1>5, <2>1, <2>2
<1>7. PICK lw \in Nat : lw = Len(w)
  BY <1>6
<1>8. str[lw + 1] = 0 /\ Len(str) = lw + 1 /\ \A i \in 1..lw : str[i] = w[i]
  <2>1. lw + 1 \in 1..(lw + 1) /\ ~(lw + 1 <= lw) /\ (lw + 1) - lw = 1
    OBVIOUS
  <2>2. \A i \in 1..lw : i \in 1..(lw + 1) /\ i <= lw
    OBVIOUS
  <2> QED BY <1>6, <1>7, <2>1, <2>2
<1>9. \A k \in 0..N : Len(f[k]) \in Nat
  BY <1>1, LenProperties
<1>10. ASSUME NEW k \in 1..N
       PROVE  /\ Holds(str, Len(f[k - 1]) + 1, Unicode(Source(way), points[k]))
              /\ Len(f[k]) = Len(f[k - 1]) + Len(Unicode(Source(way), points[k]))
  <2>1. k - 1 \in 0..N /\ k \in 0..N
    BY <1>1
  <2>2. PICK a \in Seq(Nat), b \in Seq(Nat) : a = f[k - 1] /\ b = u[k] /\ f[k] = a \o b
    BY <1>1, <2>1
  <2>3. /\ Len(a) \in Nat /\ Len(b) \in Nat /\ Len(f[k]) = Len(a) + Len(b)
        /\ \A i \in 1..(Len(a) + Len(b)) : f[k][i] = IF i <= Len(a) THEN a[i] ELSE b[i - Len(a)]
    <3>1. /\ Len(a \o b) = Len(a) + Len(b)
          /\ \A i \in 1..(Len(a) + Len(b)) : (a \o b)[i] = IF i <= Len(a) THEN a[i] ELSE b[i - Len(a)]
      BY ConcatProperties
    <3>2. Len(a) \in Nat /\ Len(b) \in Nat
      BY LenProperties
    <3> QED BY <2>2, <3>1, <3>2
  <2>4. Len(f[k]) <= Len(f[N]) /\ \A i \in 1..Len(f[k]) : f[N][i] = f[k][i]
    <3>1. Growing(f, u, N)
      BY <1>1, Zenon DEF Growing
    <3> QED BY <2>1, <3>1, TextBegins
  <2>5. PICK la \in Nat, lb \in Nat : la = Len(a) /\ lb = Len(b)
    BY <2>3
  <2>6. la + lb <= lw /\ \A i \in 1..(la + lb) : w[i] = f[k][i]
    BY <1>4, <1>7, <2>3, <2>4, <2>5
  <2>7. \A i \in 1..lb : /\ la + i \in 1..(la + lb) /\ la + i \in 1..lw
                         /\ ~(la + i <= la) /\ (la + i) - la = i
                         /\ ((la + 1) + i) - 1 = la + i
    BY <2>6
  <2>8. \A i \in 1..lb : str[la + i] = b[i]
    <3> SUFFICES ASSUME NEW i \in 1..lb PROVE str[la + i] = b[i]
      OBVIOUS
    <3>1. PICK n \in Nat : n = la + i
      OBVIOUS
    <3>2. n \in 1..(la + lb) /\ n \in 1..lw /\ ~(n <= la) /\ n - la = i
      BY <2>7, <3>1
    <3>3. f[k][n] = b[i]
      BY <2>3, <2>5, <3>2
    <3> QED BY <1>8, <2>6, <3>1, <3>2, <3>3
  <2>9. \A i \in 1..lb : str[((la + 1) + i) - 1] = b[i]
    BY <2>7, <2>8
  <2>10. (la + 1) + lb - 1 <= Len(str)
    BY <1>7, <1>8, <2>6
  <2>11. Holds(str, la + 1, b)
    BY <2>5, <2>9, <2>10 DEF Holds
  <2> QED BY <1>2, <2>2, <2>3, <2>5, <2>11
<1>11. str[Len(f[N]) + 1] = 0 /\ Len(str) \in Nat
  BY <1>4, <1>7, <1>8
<1> QED BY <1>9, <1>10, <1>11

\* The second pass, behind the text of k code points, reads the next one and
\* writes its encoding; behind the text of all of them it reads the end.
LEMMA NextPoint ==
  ASSUME TypeOK, Given, AllKept, NEW N, N = Len(points), NEW k \in 1..N,
         p = Len(Text(Source(way), points)[k - 1]) + 1
  PROVE  /\ Read.cp = points[k] /\ Read.cp # 0
         /\ Read.next = Len(Text(Source(way), points)[k]) + 1
         /\ Written(points[k]) = Unicode(Target(way), points[k])
<1> DEFINE f == Text(Source(way), points)
           c == points[k]
           U == Unicode(Source(way), points[k])
<1> HIDE DEF f, c, U
<1>1. /\ N \in Nat /\ CodePoint(c) /\ Kept(c)
      /\ Holds(str, p, U) /\ Len(f[k]) = Len(f[k - 1]) + Len(U)
      /\ Len(str) \in Nat /\ Len(f[k - 1]) \in Nat /\ p = Len(f[k - 1]) + 1
  <2>1. N \in Nat
    BY TextsAre
  <2>2. k - 1 \in 0..N
    BY <2>1
  <2>3. CodePoint(c) /\ Kept(c)
    BY TextsAre DEF c
  <2> QED BY <2>1, <2>2, <2>3, StringHolds DEF f, U
<1>2. PICK at \in Nat : at = p /\ at >= 1
  BY <1>1
<1>3. c # 0 /\ Len(U) \in Nat
  BY <1>1, UnicodeIs DEF U, c
<1>4. p + Len(U) = Len(f[k]) + 1
  BY <1>1, <1>3
<1>5. way = "to16" \/ way = "to8"
  BY DEF TypeOK
<1>6. CASE way = "to16"
  <2>1. U = Unicode8(c) /\ Unicode(Target(way), c) = Unicode16(c)
    BY <1>6 DEF U, c, Unicode, Source, Target
  <2>2. c < 2048 \/ c >= 4096
    BY <1>1, <1>6 DEF Kept
  <2>3. Holds(str, at, Unicode8(c))
    BY <1>1, <1>2, <2>1
  <2>4. ReadUtf8(str, at) = [cp |-> c, next |-> at + Len(Unicode8(c))]
    BY <1>1, <1>2, <2>2, <2>3, ReadsUnicode8
  <2>5. Read = [cp |-> c, next |-> Len(f[k]) + 1]
    BY <1>2, <1>4, <1>6, <2>1, <2>4 DEF Read
  <2>6. Written(c) = Unicode(Target(way), c)
    BY <1>1, <1>6, <2>1, WrittenUnicode DEF Written
  <2> QED BY <1>3, <2>5, <2>6 DEF c, f
<1>7. CASE way = "to8"
  <2>1. U = Unicode16(c) /\ Unicode(Target(way), c) = Unicode8(c)
    BY <1>7 DEF U, c, Unicode, Source, Target
  <2>2. c < Plane
    BY <1>1, <1>7 DEF Kept
  <2>3. Holds(str, at, Unicode16(c))
    BY <1>1, <1>2, <2>1
  <2>4. ReadUtf16(str, at) = [cp |-> c, next |-> at + Len(Unicode16(c))]
    BY <1>1, <1>2, <2>2, <2>3, ReadsUnicode16
  <2>5. Read = [cp |-> c, next |-> Len(f[k]) + 1]
    BY <1>2, <1>4, <1>7, <2>1, <2>4 DEF Read
  <2>6. Written(c) = Unicode(Target(way), c)
    BY <1>1, <1>7, <2>1, <2>2, WrittenUnicode DEF Written
  <2> QED BY <1>3, <2>5, <2>6 DEF c, f
<1> QED BY <1>5, <1>6, <1>7

\* Behind the text of all code points the second pass reads the end.
LEMMA NoPoint ==
  ASSUME TypeOK, Given, AllKept, NEW N, N = Len(points),
         p = Len(Text(Source(way), points)[N]) + 1
  PROVE  Read.cp = 0 /\ Written(0) = <<0>>
<1>1. str[p] = 0
  BY StringHolds
<1>2. 0 < 128 /\ 0 < Plane
  BY PlaneIs
<1>3. way = "to16" \/ way = "to8"
  BY DEF TypeOK
<1>4. CASE way = "to16"
  <2>1. ~(str[p] >= 128) /\ Lead(str[p]).more = 0
    <3>1. Lead(0).more = 0
      BY LeadIs
    <3> QED BY <1>1, <3>1
  <2>2. ReadUtf8(str, p) = [cp |-> str[p], next |-> IF str[p] = 0 THEN p ELSE p + 1]
    <3>1. str[p] < 128 /\ ~(Lead(str[p]).more > 0)
      BY <1>1, <2>1
    <3> QED BY <2>1, <3>1 DEF ReadUtf8
  <2>3. Utf16Of(0) = <<0>>
    BY <1>2 DEF Utf16Of
  <2> QED BY <1>1, <1>4, <2>2, <2>3 DEF Read, Written
<1>5. CASE way = "to8"
  <2>1. ~High(0) /\ ~Low(0)
    BY DEF High, Low
  <2>2. ReadUtf16(str, p) = [cp |-> str[p], next |-> p + 1]
    BY <1>1, <2>1 DEF ReadUtf16
  <2>3. Utf8Of(0) = <<0>>
    <3>1. ~(128 <= 0 /\ 0 < 2048) /\ ~(2048 <= 0 /\ 0 < Plane) /\ ~(Plane <= 0 /\ 0 < 32 * Plane)
      BY PlaneIs
    <3> QED BY <1>2, <3>1 DEF Utf8Of
  <2> QED BY <1>1, <1>5, <2>2, <2>3 DEF Read, Written
<1> QED BY <1>3, <1>4, <1>5

\* The points of an argument are those of its text, from the start.
LEMMA InitConverted == Init => CInv
<1> SUFFICES ASSUME Init PROVE CInv
  OBVIOUS
<1>1. PICK a \in Strings : way = a.way /\ str = a.str /\ points = a.points
  BY DEF Init
<1>2. /\ a.points \in Seq(Nat)
      /\ a.points # <<>> =>
           /\ \A n \in DOMAIN a.points : CodePoint(a.points[n])
           /\ a.str = Text(IF a.way = "to16" THEN 8 ELSE 16, a.points)[Len(a.points)] \o <<0>>
  BY StringsAssumption, Zenon
<1>3. Given
  BY <1>1, <1>2, Zenon DEF Given, Source
<1>4. pass = "measure"
  BY DEF Init
<1>5. Converted
  BY <1>4 DEF Converted
<1> QED BY <1>3, <1>5 DEF CInv

\* The second pass writes, code point by code point, the other text.
LEMMA EncodeConverts ==
  ASSUME TypeOK, CInv, Encode
  PROVE  Converted'
<1>1. /\ pass = "encode" /\ way' = way /\ str' = str /\ points' = points
      /\ dst' = dst \o Written(Read.cp)
      /\ Read.cp = 0 => pass' = "returned"
      /\ Read.cp # 0 => pass' = "encode" /\ p' = Read.next
  BY DEF Encode, argument
<1>2. AllKept' = AllKept
  BY <1>1 DEF AllKept, Kept
<1>3. CASE ~AllKept
  BY <1>2, <1>3 DEF Converted
<1>4. CASE AllKept
  <2> DEFINE S == Text(Source(way), points)
             T == Text(Target(way), points)
  <2> HIDE DEF S, T
  <2>1. Given /\ Converted
    BY DEF CInv
  <2>2. PICK N : N = Len(points)
    OBVIOUS
  <2>3. PICK k \in 0..N : p = Len(S[k]) + 1 /\ dst = T[k]
    BY <1>1, <1>4, <2>1, <2>2 DEF Converted, S, T
  <2>4. N \in Nat
    BY <1>4, <2>1, <2>2, TextsAre
  <2>5. CASE k = N
    <3>1. Read.cp = 0 /\ Written(0) = <<0>>
      BY <1>4, <2>1, <2>2, <2>3, <2>5, NoPoint DEF S
    <3>2. pass' = "returned" /\ dst' = T[N] \o <<0>>
      BY <1>1, <2>3, <2>5, <3>1
    <3> QED BY <1>1, <2>2, <3>2 DEF Converted, T
  <2>6. CASE k # N
    <3>1. PICK j \in 1..N : j = k + 1
      BY <2>4, <2>6
    <3>2. p = Len(S[j - 1]) + 1 /\ dst = T[j - 1]
      BY <2>3, <2>4, <3>1
    <3>3. /\ Read.cp = points[j] /\ Read.cp # 0 /\ Read.next = Len(S[j]) + 1
          /\ Written(points[j]) = Unicode(Target(way), points[j])
      BY <1>4, <2>1, <2>2, <3>2, NextPoint DEF S
    <3>4. T[j] = T[j - 1] \o Unicode(Target(way), points[j])
      BY <1>4, <2>1, <2>2, TextsAre DEF T
    <3>5. pass' = "encode" /\ p' = Len(S[j]) + 1 /\ dst' = T[j]
      BY <1>1, <3>2, <3>3, <3>4
    <3>6. j \in 0..N
      BY <2>4
    <3> QED BY <1>1, <2>2, <3>5, <3>6 DEF Converted, S, T
  <2> QED BY <2>5, <2>6
<1> QED BY <1>3, <1>4

\* Every step keeps what is converted.
LEMMA StepConverts == IInv /\ CInv /\ [Next]_vars => CInv'
<1> SUFFICES ASSUME IInv, CInv, [Next]_vars PROVE CInv'
  OBVIOUS
<1>1. TypeOK /\ Measured /\ Given /\ Converted
  BY DEF IInv, CInv
<1>2. way' = way /\ str' = str /\ points' = points
  BY DEF Next, Measure, Encode, NoMemory, Returned, Endless, vars, argument
<1>3. Given'
  BY <1>1, <1>2 DEF Given
<1>4. AllKept' = AllKept
  BY <1>2 DEF AllKept, Kept
<1>5. CASE Measure
  <2>1. dst' = <<>>
    BY <1>1, <1>5 DEF Measure, Measured
  <2>2. CASE pass' = "encode"
    <3>1. p' = 1
      BY <1>5, <2>2 DEF Measure
    <3>2. CASE AllKept
      <4>1. PICK N : N = Len(points)
        OBVIOUS
      <4>2. /\ N \in Nat /\ Text(Source(way), points)[0] = <<>>
            /\ Text(Target(way), points)[0] = <<>>
        BY <1>1, <3>2, <4>1, TextsAre
      <4>3. 0 \in 0..N /\ Len(<<>>) + 1 = 1
        BY <4>2
      <4>4. /\ p' = Len(Text(Source(way), points)[0]) + 1
            /\ dst' = Text(Target(way), points)[0]
        BY <2>1, <3>1, <4>2, <4>3
      <4>5. Converted'
        BY <1>2, <2>2, <4>1, <4>3, <4>4 DEF Converted
      <4> QED BY <1>3, <4>5 DEF CInv
    <3>3. CASE ~AllKept
      BY <1>3, <1>4, <3>3 DEF CInv, Converted
    <3> QED BY <3>2, <3>3
  <2>3. CASE pass' # "encode"
    <3>1. pass' # "returned"
      BY <1>5, <2>3 DEF Measure
    <3> QED BY <1>3, <2>3, <3>1 DEF CInv, Converted
  <2> QED BY <2>2, <2>3
<1>6. CASE Encode
  BY <1>1, <1>3, <1>6, EncodeConverts DEF CInv
<1>7. CASE NoMemory
  <2>1. pass' = "failed"
    BY <1>7 DEF NoMemory
  <2> QED BY <1>3, <2>1 DEF CInv, Converted
<1>8. CASE UNCHANGED vars
  BY <1>1, <1>8 DEF vars, argument, CInv, Given, Converted, AllKept, Kept
<1>9. CASE Returned \/ Endless
  BY <1>8, <1>9 DEF Returned, Endless
<1> QED BY <1>5, <1>6, <1>7, <1>8, <1>9 DEF Next

\* utf8_to_utf16() and utf16_to_utf8() turn the one Unicode encoding of a text
\* into the other, for every sequence of code points of which none is in one
\* of the three classes that the code converts otherwise.
THEOREM ConvertsUnicodeHolds == Spec => []ConvertsUnicode
<1>1. ASSUME CInv PROVE ConvertsUnicode
  BY <1>1 DEF CInv, Converted, AllKept, ConvertsUnicode, Target
<1> QED BY <1>1, InitConverted, StepConverts, Invariance, PTL DEF Spec
=============================================================================
