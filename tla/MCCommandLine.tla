--------------------------- MODULE MCCommandLine ---------------------------
(* Small values for the constants of CommandLine. *)
EXTENDS CommandLine

\* Four lists of tests in their order of registration: with and without
\* groups, a group of two words; names that are prefixes of others; two
\* instances of one name that are not neighbours; none.
a == <<"a">>
Test(id, group, name) == [id |-> id, group |-> group, name |-> name, off |-> FALSE]
MCRegistries ==
  { << Test(1, a, <<"x">>), Test(2, <<"a", ".", "x">>, <<"x">>),
       Test(3, <<>>, <<"x">>) >>,
    << Test(1, a, <<"x", "x">>), [Test(2, <<"x">>, <<"x">>) EXCEPT !.off = TRUE],
       Test(3, a, <<"X">>) >>,
    << Test(1, a, <<"x">>), Test(2, a, <<"x", "x">>), Test(3, a, <<"x">>) >>,
    <<>> }

MCExecutable == <<"c", Backslash, "p">>
MCNumeral == [t \in {<<"2">>, <<"0">>} |-> IF t = <<"2">> THEN 2 ELSE 0]
MCDefault == [tracepath |-> <<"w", Backslash, "t">>, tempdir |-> <<"w">>,
              resource |-> <<"r">>]
MCCodePoint == [c \in {"U+00E9", "U+0915", "U+4E2D", "U+1F600"} |->
                  CASE c = "U+00E9" -> 233 [] c = "U+0915" -> 2325
                    [] c = "U+4E2D" -> 20013 [] c = "U+1F600" -> 128512]
MCRank == [c \in {".", "A", "X", "a", "x"} |->
             CASE c = "." -> 46 [] c = "A" -> 65 [] c = "X" -> 88
               [] c = "a" -> 97 [] c = "x" -> 120]
MCLower == [c \in DOMAIN MCRank |->
              CASE c = "A" -> "a" [] c = "X" -> "x" [] OTHER -> c]

\* What the user may type after the mode: switches alone and with values,
\* missing and wrong values, names and patterns.
Phrases ==
  { << <<"-nf">> >>, << <<"-v">> >>, << <<"-d">> >>, << <<"-ss">> >>,
    << <<"-nsi">> >>, << <<"-l">> >>, << <<"-h">> >>,
    << <<"-j">>, <<"2">> >>, << <<"-j">>, <<"0">> >>, << <<"-j">> >>,
    << <<"-o">>, <<"o", Space, "u">> >>, << <<"-o">>, <<>> >>,
    << <<"-t">>, <<"t", Quote>> >>, << <<"-t">> >>,
    << <<"-td">>, <<Space, "d", Backslash>> >>,
    << <<"-r">>, <<Backslash, Backslash, "r">> >>,
    << <<"-a">>, <<Quote, "U+00E9", Space, "U+4E2D">>, <<"-nf">> >>,
    << <<"-a">>, <<"U+0915">>, <<"U+1F600">> >>,
    << <<"-a">>, <<>>, <<Space, Quote>> >>,
    << <<"-i">>, <<"a", ".", "*">> >>, << <<"-i">>, <<"x">>, <<"-e">> >>,
    << <<"a", ".", "x">> >>, << <<"*", ".", "*", "*">> >>,
    << <<"a", ".", "x", ".", "*", "*">> >> }

MCLines ==
  {<<>>, << <<"-h">> >>}
    \cup { << <<m>> >> \o FlattenSeq(s) :
             m \in {"utest"}, s \in UNION {[1..n -> Phrases] : n \in 0..2} }
    \cup { << <<m>> >> \o p : m \in {"ptest", "mtest"}, p \in Phrases }

\* One argument for the test, such as a user may pass: a path with a space
\* after a separator, two spaces.
MCArguments ==
  { << <<"utest">>, <<"-a">>, t >> :
      t \in { <<"d", Backslash, Space, "e">>, <<"d", Space, Space, "e">> } }
=============================================================================
