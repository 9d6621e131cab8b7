--------------------------- MODULE MCTranscoding ---------------------------
(* Small values for the constants of Transcoding. *)
EXTENDS Transcoding

Tuples(S, k) == UNION {[1..m -> S] : m \in 0..k}

\* Code points at the boundaries of the encodings: the last of one byte, of
\* two bytes, those with the first byte 0xe0, around the surrogates, the
\* first and last of planes.
Points == { 36, 127, 128, 2047, 2048, 4095, 4096, 55295, 57344, 65535, 65536,
            128512, 131072, 1114111 }

\* Bytes of every kind, and units of every kind, in any order.
Bytes == {65, 128, 193, 194, 224, 225, 237, 160, 240, 244, 247, 255}
Units == {65, 55296, 56320}

Encoded(to, bits, seq) ==
  [way |-> to, points |-> seq, str |-> Text(bits, seq)[Len(seq)] \o <<0>>]

MCStrings ==
  {Encoded("to16", 8, s) : s \in Tuples(Points, 2)}
    \cup {Encoded("to8", 16, s) : s \in Tuples(Points, 2)}
    \cup {[way |-> "to16", points |-> <<>>, str |-> s \o <<0>>] : s \in Tuples(Bytes, 3)}
    \cup {[way |-> "to8", points |-> <<>>, str |-> s \o <<0>>] : s \in Tuples(Units, 4)}
=============================================================================
