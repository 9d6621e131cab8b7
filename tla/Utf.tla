-------------------------------- MODULE Utf --------------------------------
(***************************************************************************)
(* The reading and writing of one code point in UTF-8 and UTF-16, as       *)
(* src/src/main/tools.cpp does it for the Windows interfaces. A string is  *)
(* a sequence of bytes or of 16-bit units that ends with a zero.           *)
(***************************************************************************)
EXTENDS Integers, Sequences, SequencesExt

Replacement == 65533          \* 0xfffd
Plane == 65536                \* 0x10000

High(unit) == unit \div 1024 = 54    \* (unit & 0xfc00) == 0xd800
Low(unit) == unit \div 1024 = 55     \* (unit & 0xfc00) == 0xdc00

\* Bytes that a code point takes.
SizeUtf16(cp) == IF cp < Plane THEN 2 ELSE 4
SizeUtf8(cp) ==
  CASE cp < 128 -> 1
    [] 128 <= cp /\ cp < 2048 -> 2
    [] 2048 <= cp /\ cp < Plane -> 3
    [] Plane <= cp /\ cp < 32 * Plane -> 4
    [] OTHER -> 3

\* write_utf16_codepoint()
Utf16Of(cp) ==
  IF cp < Plane THEN <<cp>>
  ELSE <<55296 + (cp - Plane) \div 1024, 56320 + ((cp - Plane) % 1024)>>

\* write_utf8_codepoint(): in four bytes, the first is cp >> 16 | 0xf0.
Utf8Of(cp) ==
  LET more(n) == 128 + ((cp \div n) % 64) IN
  CASE cp < 128 -> <<cp>>
    [] 128 <= cp /\ cp < 2048 -> <<192 + cp \div 64, more(1)>>
    [] 2048 <= cp /\ cp < Plane -> <<224 + cp \div 4096, more(64), more(1)>>
    [] Plane <= cp /\ cp < 32 * Plane ->
         <<240 + ((cp \div Plane) % 16), more(4096), more(64), more(1)>>
    [] OTHER -> <<239, 191, 189>>

\* The bits of a first byte, and the number of bytes that must follow; none
\* if it is invalid.
Lead(byte) ==
  CASE byte \div 32 = 6  -> [bits |-> byte % 32, more |-> IF byte % 32 >= 2 THEN 1 ELSE 0]
    [] byte \div 16 = 14 -> [bits |-> byte % 16, more |-> IF byte % 16 > 0 THEN 2 ELSE 0]
    [] byte \div 8 = 30  -> [bits |-> byte % 8, more |-> 3]
    [] OTHER -> [bits |-> 0, more |-> 0]

\* read_utf8_codepoint(): the code point at a position, and the next position.
\* A byte that should follow and does not is lost, unless it is the end.
ReadUtf8(s, at) ==
  LET lead == Lead(s[at])
      stops == {n \in 1..lead.more : at + n <= Len(s) /\ s[at + n] \div 64 # 2}
      stop == at + Min(stops)
      six(n) == s[at + n] % 64
      cp == CASE lead.more = 1 -> 64 * lead.bits + six(1)
              [] lead.more = 2 -> 64 * (64 * lead.bits + six(1)) + six(2)
              [] lead.more = 3 -> 64 * (64 * (64 * lead.bits + six(1)) + six(2)) + six(3)
      got(c, next) == [cp |-> c, next |-> next]
  IN CASE s[at] < 128 -> got(s[at], IF s[at] = 0 THEN at ELSE at + 1)
       [] s[at] >= 128 /\ lead.more = 0 -> got(Replacement, at + 1)
       [] lead.more > 0 /\ stops # {} ->
            got(Replacement, IF s[stop] = 0 THEN stop ELSE stop + 1)
       [] OTHER ->
            got(IF (lead.more = 3 /\ cp < Plane) \/ High(cp) \/ Low(cp)
                THEN Replacement ELSE cp, at + lead.more + 1)

\* read_utf16_codepoint(): the two units of a pair may come in either order,
\* bit 16 is set, not added, and a unit without its pair is not passed.
ReadUtf16(s, at) ==
  LET paired(h, l) ==
        LET v == (h % 1024) * 1024 + (l % 1024) IN
        IF (v \div Plane) % 2 = 1 THEN v ELSE v + Plane
  IN CASE High(s[at]) -> IF Low(s[at + 1])
                         THEN [cp |-> paired(s[at], s[at + 1]), next |-> at + 2]
                         ELSE [cp |-> Replacement, next |-> at]
       [] Low(s[at]) -> IF High(s[at + 1])
                        THEN [cp |-> paired(s[at + 1], s[at]), next |-> at + 2]
                        ELSE [cp |-> Replacement, next |-> at]
       [] OTHER -> [cp |-> s[at], next |-> at + 1]
=============================================================================
