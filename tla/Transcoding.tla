---------------------------- MODULE Transcoding ----------------------------
(***************************************************************************)
(* utf8_to_utf16() and utf16_to_utf8() of src/src/main/tools.cpp: a first  *)
(* pass over the string measures the result, the memory is allocated, and  *)
(* a second pass writes it. All arguments of a process, all environment    *)
(* variables and the command lines of nested processes go through them.    *)
(***************************************************************************)
EXTENDS Utf

CONSTANTS
  Strings,    \* the arguments, each with the way they are converted
  MaxBytes    \* bound: the first pass is followed up to this count

\* The Unicode encodings of a code point, and the text of the first n code
\* points of a sequence.
CodePoint(cp) == cp \in Nat /\ 0 < cp /\ cp < 17 * Plane /\ ~(High(cp) \/ Low(cp))

Unicode16(cp) ==
  IF cp < Plane THEN <<cp>>
  ELSE <<55296 + (cp - Plane) \div 1024, 56320 + ((cp - Plane) % 1024)>>

Unicode8(cp) ==
  LET six(n) == 128 + ((cp \div n) % 64) IN
  CASE cp < 128 -> <<cp>>
    [] 128 <= cp /\ cp < 2048 -> <<192 + cp \div 64, six(1)>>
    [] 2048 <= cp /\ cp < Plane -> <<224 + cp \div 4096, six(64), six(1)>>
    [] OTHER -> <<240 + cp \div 262144, six(4096), six(64), six(1)>>

Unicode(bits, cp) == IF bits = 8 THEN Unicode8(cp) ELSE Unicode16(cp)

Text(bits, cps) ==
  LET T[n \in 0..Len(cps)] == IF n = 0 THEN <<>> ELSE T[n - 1] \o Unicode(bits, cps[n])
  IN T

\* A string ends with a zero; the points are those of a well-formed string.
ASSUME StringsAssumption ==
  /\ MaxBytes \in Nat
  /\ \A s \in Strings :
       /\ s.way \in {"to16", "to8"}
       /\ s.str \in Seq(IF s.way = "to16" THEN 0..255 ELSE 0..(Plane - 1))
       /\ s.str # <<>> /\ s.str[Len(s.str)] = 0
       /\ s.points \in Seq(Nat)
       /\ s.points # <<>> =>
            /\ \A n \in DOMAIN s.points : CodePoint(s.points[n])
            /\ s.str = Text(IF s.way = "to16" THEN 8 ELSE 16, s.points)[Len(s.points)] \o <<0>>

VARIABLES
  way,        \* "to16" or "to8"
  str,        \* the argument
  points,     \* history: the code points it encodes, <<>> if malformed
  pass,       \* "measure", "encode", "returned" or "failed"
  p,          \* the position in str
  bytes,      \* the size of the memory
  dst         \* what was written to it

argument == <<way, str, points>>
vars == <<argument, pass, p, bytes, dst>>

Init ==
  /\ \E s \in Strings : way = s.way /\ str = s.str /\ points = s.points
  /\ pass = "measure" /\ p = 1 /\ bytes = 0 /\ dst = <<>>

\* Slip: an invalid byte is not passed.
Read_Stays ==
  IF way = "to16"
  THEN LET r == ReadUtf8(str, p) IN
       [r EXCEPT !.next = IF r.cp = Replacement THEN p ELSE @]
  ELSE ReadUtf16(str, p)

Read == IF way = "to16" THEN ReadUtf8(str, p) ELSE ReadUtf16(str, p)

\* Slip: every code point takes one unit.
Size_OneUnit(cp) == IF way = "to16" THEN 2 ELSE SizeUtf8(cp)

Size(cp) == IF way = "to16" THEN SizeUtf16(cp) ELSE SizeUtf8(cp)

\* Slip: the value of a plane is not taken off.
Written_NoOffset(cp) ==
  IF way = "to16"
  THEN IF cp < Plane THEN <<cp>> ELSE <<55296 + ((cp \div 1024) % 1024), 56320 + (cp % 1024)>>
  ELSE Utf8Of(cp)

Written(cp) == IF way = "to16" THEN Utf16Of(cp) ELSE Utf8Of(cp)

\* The first pass counts the terminating zero, too.
Measure ==
  /\ pass = "measure" /\ bytes < MaxBytes
  /\ bytes' = bytes + Size(Read.cp)
  /\ IF Read.cp = 0 THEN pass' = "encode" /\ p' = 1
     ELSE p' = Read.next /\ UNCHANGED pass
  /\ UNCHANGED <<argument, dst>>

Encode ==
  /\ pass = "encode"
  /\ dst' = dst \o Written(Read.cp)
  /\ IF Read.cp = 0 THEN pass' = "returned" /\ UNCHANGED p
     ELSE p' = Read.next /\ UNCHANGED pass
  /\ UNCHANGED <<argument, bytes>>

\* malloc() fails.
NoMemory ==
  /\ pass = "encode" /\ dst = <<>> /\ p = 1
  /\ pass' = "failed"
  /\ UNCHANGED <<argument, p, bytes, dst>>

Returned == pass \in {"returned", "failed"} /\ UNCHANGED vars

\* A first pass that never ends is not followed beyond the bound.
Endless == pass = "measure" /\ bytes >= MaxBytes /\ UNCHANGED vars

Next == Measure \/ Encode \/ NoMemory \/ Returned \/ Endless

\* A thread runs on.
Spec == Init /\ [][Next]_vars /\ WF_vars(Measure \/ Encode)

-----------------------------------------------------------------------------
(* Properties *)

\* The second pass never writes past the memory that the first one measured,
\* and in the end has filled it, for well-formed and for malformed strings.
NeverOverruns ==
  LET size == Len(dst) * (IF way = "to16" THEN 2 ELSE 1) IN
  /\ pass \in {"encode", "returned"} => size <= bytes
  /\ pass = "returned" => size = bytes

\* Code points that the code converts as Unicode does: from UTF-8 all but
\* those that start with the byte 0xe0, from UTF-16 those of one unit.
Kept(cp) == IF way = "to16" THEN cp < 2048 \/ cp >= 4096 ELSE cp < Plane

\* A string of such code points, given in its Unicode encoding, becomes the
\* other Unicode encoding of the same code points.
ConvertsUnicode ==
  pass = "returned" /\ points # <<>> /\ (\A n \in DOMAIN points : Kept(points[n])) =>
    dst = Text(IF way = "to16" THEN 16 ELSE 8, points)[Len(points)] \o <<0>>

\* The surrogates come in pairs.
Paired ==
  LET surrogate(n) == High(str[n]) \/ Low(str[n])
      pairs[n \in 1..(Len(str) + 1)] ==
        CASE n > Len(str) -> TRUE
          [] n <= Len(str) /\ ~surrogate(n) -> pairs[n + 1]
          [] OTHER -> n < Len(str) /\ surrogate(n + 1) /\ High(str[n]) # High(str[n + 1])
                        /\ pairs[n + 2]
  IN pairs[1]

\* The conversion of UTF-8 ends whatever the bytes are; that of UTF-16 for
\* strings without an unpaired surrogate.
Ends == <>(pass \in {"returned", "failed"} \/ (way = "to8" /\ ~Paired))
=============================================================================
