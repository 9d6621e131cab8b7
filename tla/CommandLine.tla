---------------------------- MODULE CommandLine ----------------------------
(***************************************************************************)
(* From the command line of the user to the test that a process executes,  *)
(* on Windows: config_t::parse(), check_duplicates() and the selection     *)
(* loop of test_main() in the runner, and for every test submitted with    *)
(* fork the command line that submit_task() builds, which the nested       *)
(* process parses with the same code to find and execute that one test     *)
(* (src/src/main/config.cpp, main.cpp, executor.cpp and tools.cpp).        *)
(*                                                                         *)
(* A text is a sequence of characters; an option and the first argument    *)
(* are one character each, long options being spelt like the short ones.   *)
(* Nested processes share nothing here, so that each is run to its end     *)
(* before the runner goes on, whatever the number of jobs.                 *)
(***************************************************************************)
EXTENDS Utf

CONSTANTS
  Registries,   \* the lists of tests that a program may have registered
  Executable,   \* the text of argv[0]
  Lines,        \* the arguments that the user may give
  Numeral,      \* the values of the texts that strtol() accepts
  Cores,        \* dwNumberOfProcessors
  Default,      \* the default paths, by the name of the field
  CodePoint,    \* the code points of the characters beyond ASCII
  Rank,         \* the character codes that strcmp() compares
  Lower         \* the characters that strcasecmp() compares

\* A sequence, of characters or of anything
IsSeq(s) == s \in Seq({s[n] : n \in DOMAIN s})

\* The name of a test is that of its class, which has no dots.
IsTest(t) ==
  /\ IsSeq(t.group) /\ IsSeq(t.name) /\ t.name # <<>>
  /\ \A n \in DOMAIN t.name : t.name[n] # "."

ASSUME InputAssumption ==
  /\ \A tests \in Registries : IsSeq(tests) /\ \A n \in DOMAIN tests : IsTest(tests[n])
  /\ \A line \in Lines : IsSeq(line) /\ \A n \in DOMAIN line : IsSeq(line[n])
  /\ IsSeq(Executable) /\ Executable # <<>>
  /\ DOMAIN Default = {"tracepath", "tempdir", "resource"}
  /\ \A f \in DOMAIN Default : IsSeq(Default[f])

OK == 0
UNKNOWN_ERR == 1
DUPLICATED == 6
INVALID_VALUE == 9
INSUFFICIENT == 10

Quote == "\""
Backslash == "\\"
Space == " "
Garbled == "U+FFFD"     \* stands for any other characters
Tab == "\t"

VARIABLES
  phase,      \* "parse", "list", "run" or "stopped"
  argv, i,    \* its arguments, and the position of parse() in them
  cfg,        \* its config_t
  list, k,    \* its sorted tests, and the position of the loop
  status,     \* what it returns
  executed,   \* history: the tests it has executed
  caller,     \* the processes that wait for one they started, innermost first
  ignored,    \* stats.ignored of the runner, as positions
  runs        \* history: what became of each submitted test

parsing == <<argv, i>>
process == <<phase, cfg, list, k, status, executed>>
runner == <<caller, ignored, runs>>
vars == <<parsing, process, runner>>

\* Which process runs
level == IF caller = <<>> THEN "runner" ELSE "nested"

\* config_t(); a pointer is a sequence of at most one text.
NewConfig ==
  [mode |-> "unknown", fork |-> TRUE, verbose |-> FALSE, debug |-> FALSE,
   list_all |-> FALSE, ilist |-> FALSE, sysinfo |-> TRUE, is_child |-> FALSE,
   suppress |-> FALSE, threads |-> Cores, outfile |-> <<>>,
   tracepath |-> <<>>, tempdir |-> <<>>, resource |-> <<>>,
   list |-> <<>>, ignore |-> <<>>, args |-> <<>>]

Init ==
  /\ phase = "parse"
  /\ argv \in Lines /\ i = 1
  /\ cfg = NewConfig /\ status = OK
  /\ list \in Registries /\ k = 1
  /\ executed = <<>> /\ caller = <<>> /\ ignored = {} /\ runs = <<>>

-----------------------------------------------------------------------------
(* Names and patterns *)

\* Test::full_name().
FullName(t) == IF t.group = <<>> THEN t.name ELSE t.group \o <<".">> \o t.name

\* The parts of a text between its dots.
Tokens(text) ==
  LET cut[n \in 0..Len(text)] ==
        IF n = 0 THEN << <<>> >>
        ELSE LET c == cut[n - 1] IN
             IF text[n] = "." THEN Append(c, <<>>)
             ELSE [c EXCEPT ![Len(c)] = Append(@, text[n])]
  IN cut[Len(text)]

\* Slip: the end of the name is looked at before the double wildcard.
MatchString_NameFirst(pattern, name) ==
  LET p == Tokens(pattern)
      m == Tokens(name)
      over(n) == n > Len(m) \/ (n = Len(m) /\ m[n] = <<>>)
      match[n \in 1..(Len(p) + 1)] ==
        IF n > Len(p) THEN over(n)
        ELSE ~over(n) /\ \/ p[n] = <<"*", "*">>
                         \/ p[n] \in {<<"*">>, m[n]} /\ match[n + 1]
  IN match[1]

\* match_string(): both texts are read token by token.
MatchString(pattern, name) ==
  LET p == Tokens(pattern)
      m == Tokens(name)
      over(n) == n > Len(m) \/ (n = Len(m) /\ m[n] = <<>>)
      match[n \in 1..(Len(p) + 1)] ==
        IF n > Len(p) THEN over(n)
        ELSE \/ p[n] = <<"*", "*">>
             \/ ~over(n) /\ p[n] \in {<<"*">>, m[n]} /\ match[n + 1]
  IN match[1]

MatchList(patterns, t, ifEmpty) ==
  IF patterns = <<>> THEN ifEmpty
  ELSE \E n \in DOMAIN patterns : MatchString(patterns[n], FullName(t))

\* check_test_skip().
Skipped(t) ==
  \/ t.off
  \/ MatchList(cfg.ignore, t, FALSE)
  \/ ~MatchList(cfg.list, t, TRUE)

Fold(text) == [n \in DOMAIN text |-> Lower[text[n]]]

\* Slip: neighbours only, as if the list were sorted.
Duplicates_Neighbours(tests) ==
  \E m \in 1..(Len(tests) - 1) :
    /\ Fold(tests[m].group) = Fold(tests[m + 1].group)
    /\ Fold(tests[m].name) = Fold(tests[m + 1].name)

\* check_duplicates(), before it sorts the list.
Duplicates(tests) ==
  \E m, n \in DOMAIN tests :
    /\ m < n
    /\ Fold(tests[m].group) = Fold(tests[n].group)
    /\ Fold(tests[m].name) = Fold(tests[n].name)

\* strcmp() of the full names.
NameBefore(a, b) ==
  LET s == FullName(a)
      t == FullName(b)
  IN \E n \in 1..Len(t) :
       /\ \A m \in 1..(n - 1) : m <= Len(s) /\ s[m] = t[m]
       /\ n > Len(s) \/ Rank[s[n]] < Rank[t[n]]

\* What qsort() by these may give.
Sorted(tests) ==
  {s \in SetToSeqs(tests) : \A m, n \in DOMAIN s : m < n => ~NameBefore(s[n], s[m])}

-----------------------------------------------------------------------------
(* config_t::parse() *)

Stop(code) == phase' = "stopped" /\ status' = code

Parsed(option) == phase = "parse" /\ i \in 2..Len(argv) /\ argv[i] = <<option>>

\* The options without an argument: what they set, and to what.
Flags ==
  { <<"-nf", "fork", FALSE>>, <<"-f", "fork", TRUE>>,
    <<"-v", "verbose", TRUE>>, <<"-s", "verbose", FALSE>>,
    <<"-ss", "suppress", TRUE>>,
    <<"-si", "sysinfo", TRUE>>, <<"-nsi", "sysinfo", FALSE>>,
    <<"-d", "debug", TRUE>>, <<"-l", "list_all", TRUE>>,
    <<"-i", "ilist", TRUE>>, <<"-e", "ilist", FALSE>>,
    <<"--run-as-nested-process", "is_child", TRUE>> }

Paths == { <<"-t", "tracepath">>, <<"-td", "tempdir">>, <<"-r", "resource">>,
           <<"-o", "outfile">> }

Options == {f[1] : f \in Flags \cup Paths} \cup {"-a", "-j", "-h"}

Modes == {"utest", "ptest", "mtest"}

IsBeyondASCII(cp) ==
  cp \in Nat /\ 128 <= cp /\ cp < 17 * Plane /\ ~High(cp) /\ ~Low(cp)

\* The characters beyond ASCII are not those of the syntax, and no surrogates.
\* The groups and names that tests are declared with are words of ASCII letters,
\* digits and dots: none has a character of the syntax, or is an option.
ASSUME CharacterAssumption ==
  /\ DOMAIN CodePoint \cap ({Space, Tab, Quote, Backslash} \cup Options \cup Modes) = {}
  /\ \A c \in DOMAIN CodePoint : IsBeyondASCII(CodePoint[c])
  /\ \A tests \in Registries : \A n \in DOMAIN tests :
       LET name == FullName(tests[n]) IN
       \A m \in DOMAIN name :
         name[m] \notin {Space, Tab, Quote, Backslash, "*"} \cup Options \cup DOMAIN CodePoint

ParseMode ==
  /\ phase = "parse" /\ i = 1
  /\ IF argv # <<>> /\ argv[1] \in {<<m>> : m \in Modes}
     THEN /\ cfg' = [cfg EXCEPT !.mode = argv[1][1]]
          /\ UNCHANGED <<phase, status>>
     ELSE Stop(INSUFFICIENT) /\ UNCHANGED cfg
  /\ i' = 2
  /\ UNCHANGED <<argv, list, k, executed, runner>>

ParseFlag ==
  /\ \E f \in Flags : Parsed(f[1]) /\ cfg' = [cfg EXCEPT ![f[2]] = f[3]]
  /\ i' = i + 1
  /\ UNCHANGED <<argv, phase, list, k, status, executed, runner>>

ParsePath ==
  \E f \in Paths :
    /\ Parsed(f[1])
    /\ IF i < Len(argv)
       THEN /\ cfg' = [cfg EXCEPT ![f[2]] = <<argv[i + 1]>>]
            /\ UNCHANGED <<phase, status>>
       ELSE Stop(INVALID_VALUE) /\ UNCHANGED cfg
    /\ i' = i + 2
    /\ UNCHANGED <<argv, list, k, executed, runner>>

\* Everything after the switch belongs to the test.
ParseArgs ==
  /\ Parsed("-a")
  /\ cfg' = [cfg EXCEPT !.args = @ \o SubSeq(argv, i + 1, Len(argv))]
  /\ i' = Len(argv) + 1
  /\ UNCHANGED <<argv, phase, list, k, status, executed, runner>>

ParseJobs ==
  /\ Parsed("-j")
  /\ IF i < Len(argv) /\ argv[i + 1] \in DOMAIN Numeral /\ Numeral[argv[i + 1]] > 0
     THEN /\ cfg' = [cfg EXCEPT !.threads = Numeral[argv[i + 1]]]
          /\ UNCHANGED <<phase, status>>
     ELSE Stop(INVALID_VALUE) /\ UNCHANGED cfg
  /\ i' = i + 2
  /\ UNCHANGED <<argv, list, k, executed, runner>>

ParseHelp ==
  /\ Parsed("-h")
  /\ Stop(INSUFFICIENT)
  /\ UNCHANGED <<parsing, cfg, list, k, executed, runner>>

\* Any other argument is a name or a pattern.
ParseName ==
  /\ phase = "parse" /\ i \in 2..Len(argv)
  /\ \A o \in Options : argv[i] # <<o>>
  /\ cfg' = IF cfg.ilist THEN [cfg EXCEPT !.ignore = Append(@, argv[i])]
                         ELSE [cfg EXCEPT !.list = Append(@, argv[i])]
  /\ i' = i + 1
  /\ UNCHANGED <<argv, phase, list, k, status, executed, runner>>

ParseEnds ==
  /\ phase = "parse" /\ i > 1 /\ i > Len(argv)
  /\ cfg' = [f \in DOMAIN cfg |->
               IF f \in DOMAIN Default /\ cfg[f] = <<>> THEN <<Default[f]>>
               ELSE cfg[f]]
  /\ phase' = "list"
  /\ UNCHANGED <<parsing, list, k, status, executed, runner>>

-----------------------------------------------------------------------------
(* The command line of a nested process *)

\* cmdline_append_escaped(), without the space before the argument.
Escaped(text) ==
  IF text = <<>> THEN <<Quote, Quote>>
  ELSE FlattenSeq([n \in DOMAIN text |->
         CASE text[n] = Space -> <<Quote, Space, Quote>>
           [] text[n] = Quote -> <<Backslash, Quote>>
           [] OTHER -> <<text[n]>>])

\* Slip: the resource directory is left to its default.
NestedArgs_NoResource(c, t) ==
  << <<c.mode>>, <<"--run-as-nested-process">>, <<"-nsi">>, <<"-nf">> >>
  \o (IF c.debug THEN << <<"-d">> >> ELSE <<>>)
  \o << <<IF c.verbose THEN "-v" ELSE "-s">> >>
  \o FlattenSeq([n \in 1..3 |->
       LET f == << <<"-o", "outfile">>, <<"-t", "tracepath">>,
                   <<"-td", "tempdir">> >>[n] IN
       IF c[f[2]] = <<>> THEN <<>> ELSE << <<f[1]>> >> \o c[f[2]]])
  \o <<FullName(t)>>
  \o (IF c.args = <<>> THEN <<>> ELSE << <<"-a">> >> \o c.args)

\* submit_task(): the arguments after the name of the program.
NestedArgs(c, t) ==
  << <<c.mode>>, <<"--run-as-nested-process">>, <<"-nsi">>, <<"-nf">> >>
  \o (IF c.debug THEN << <<"-d">> >> ELSE <<>>)
  \o << <<IF c.verbose THEN "-v" ELSE "-s">> >>
  \o FlattenSeq([n \in 1..4 |->
       LET f == << <<"-o", "outfile">>, <<"-t", "tracepath">>,
                   <<"-td", "tempdir">>, <<"-r", "resource">> >>[n] IN
       IF c[f[2]] = <<>> THEN <<>> ELSE << <<f[1]>> >> \o c[f[2]]])
  \o <<FullName(t)>>
  \o (IF c.args = <<>> THEN <<>> ELSE << <<"-a">> >> \o c.args)

\* submit_task(): the command line.
Command(c, t) ==
  Escaped(Executable)
  \o FlattenSeq([n \in DOMAIN NestedArgs(c, t) |->
                   <<Space>> \o Escaped(NestedArgs(c, t)[n])])

\* The bytes that utf16_to_utf8() makes of a code point.
BytesOf(cp) == Utf8Of(ReadUtf16(Utf16Of(cp) \o <<0>>, 1).cp)

\* A character that has the same bytes in the nested process: utf8_to_utf16()
\* in the runner, and utf16_to_utf8() again.
Survives(c) ==
  c \in DOMAIN CodePoint =>
    LET bytes == BytesOf(CodePoint[c])
        read == ReadUtf8(bytes \o <<0>>, 1)
    IN read.next = Len(bytes) + 1 /\ BytesOf(read.cp) = bytes

Transcoded(text) ==
  [n \in DOMAIN text |-> IF Survives(text[n]) THEN text[n] ELSE Garbled]

\* CommandLineToArgvW(): the program's name ends at a space, or at the quote
\* that closes it.
ProgramEnd(line) ==
  IF line[1] = Quote THEN SelectInSubSeq(line, 2, Len(line), LAMBDA c : c = Quote)
  ELSE SelectInSeq(line, LAMBDA c : c \in {Space, Tab})

\* CommandLineToArgvW(): one character of what follows. An even number of
\* backslashes before a quote halves, an odd one also makes it a literal; the
\* third of three quotes that enclose nothing is a literal, too.
Scan(s, c) ==
  LET q == IF c # Quote /\ s.quotes = 2 /\ s.after THEN 0 ELSE s.quotes
      cut(n) == SubSeq(s.text, 1, Len(s.text) - n)
      put(text, quotes, slashes) ==
        [args |-> s.args, text |-> text, open |-> TRUE, quotes |-> quotes,
         slashes |-> slashes, after |-> (c = Quote)]
  IN CASE c \in {Space, Tab} /\ q = 0 ->
            [args |-> IF s.open THEN Append(s.args, s.text) ELSE s.args,
             text |-> <<>>, open |-> FALSE, quotes |-> 0, slashes |-> 0,
             after |-> FALSE]
       [] c = Backslash -> put(Append(s.text, c), q, s.slashes + 1)
       [] c = Quote /\ s.after ->
            IF q = 2 THEN put(Append(s.text, c), 0, 0) ELSE put(s.text, q + 1, 0)
       [] c = Quote /\ ~s.after /\ s.slashes % 2 = 0 ->
            put(cut(s.slashes \div 2), q + 1, 0)
       [] c = Quote /\ ~s.after /\ s.slashes % 2 = 1 ->
            put(Append(cut(s.slashes \div 2 + 1), c), q, 0)
       [] OTHER -> put(Append(s.text, c), q, 0)

\* CommandLineToArgvW(), without the name of the program.
ArgvOf(line) ==
  LET first == ProgramEnd(line)
      scan[n \in first..Len(line)] ==
        IF n = first
        THEN [args |-> <<>>, text |-> <<>>, open |-> FALSE, quotes |-> 0,
              slashes |-> 0, after |-> FALSE]
        ELSE Scan(scan[n - 1], line[n])
      last == scan[Len(line)]
  IN IF last.open THEN Append(last.args, last.text) ELSE last.args

-----------------------------------------------------------------------------
(* test_main() *)

\* The list of tests: refused, empty, only printed, or sorted and run.
ListTests ==
  /\ phase = "list"
  /\ \/ /\ Duplicates(list)
        /\ Stop(DUPLICATED)
        /\ UNCHANGED list
     \/ /\ ~Duplicates(list)
        /\ list' \in Sorted(ToSet(list))
        /\ IF list = <<>> \/ cfg.list_all THEN Stop(OK)
           ELSE phase' = "run" /\ UNCHANGED status
  /\ UNCHANGED <<parsing, cfg, k, executed, runner>>

SkipTest ==
  /\ phase = "run" /\ k <= Len(list) /\ Skipped(list[k])
  /\ ignored' = IF level = "runner" /\ ~list[k].off
                     /\ MatchList(cfg.ignore, list[k], FALSE)
                THEN ignored \cup {k} ELSE ignored
  /\ k' = k + 1
  /\ UNCHANGED <<parsing, phase, cfg, list, status, executed, caller, runs>>

\* Without fork the test is executed here. A nested process leaves the loop
\* after it, the runner only if the test failed.
Execute ==
  /\ phase = "run" /\ k <= Len(list) /\ ~Skipped(list[k])
  /\ ~cfg.fork
  /\ executed' = Append(executed, list[k])
  /\ \E r \in {OK, UNKNOWN_ERR} :
       IF r # OK \/ cfg.is_child THEN Stop(r) /\ UNCHANGED k
       ELSE k' = k + 1 /\ UNCHANGED <<phase, status>>
  /\ UNCHANGED <<parsing, cfg, list, runner>>

\* submit_task(): the nested process starts with its arguments.
Submit ==
  /\ phase = "run" /\ k <= Len(list) /\ ~Skipped(list[k])
  /\ cfg.fork
  /\ caller' = <<[cfg |-> cfg, argv |-> argv, i |-> i, list |-> list, k |-> k,
                   executed |-> executed]>> \o caller
  /\ phase' = "parse" /\ argv' = ArgvOf(Transcoded(Command(cfg, list[k]))) /\ i' = 1
  /\ cfg' = NewConfig /\ k' = 1 /\ executed' = <<>>
  /\ UNCHANGED <<list, status, ignored, runs>>

\* CreateProcessW() fails: the error ends the loop.
SubmitFails ==
  /\ phase = "run" /\ k <= Len(list) /\ ~Skipped(list[k])
  /\ cfg.fork
  /\ Stop(UNKNOWN_ERR)
  /\ UNCHANGED <<parsing, cfg, list, k, executed, runner>>

LoopEnds ==
  /\ phase = "run" /\ k > Len(list)
  /\ Stop(OK)
  /\ UNCHANGED <<parsing, cfg, list, k, executed, runner>>

\* The nested process is gone; the one that waits for it goes on.
NestedEnds ==
  /\ level = "nested" /\ phase = "stopped"
  /\ LET waits == Head(caller) IN
       /\ runs' = IF Len(caller) > 1 THEN runs
                  ELSE Append(runs, [test |-> waits.list[waits.k],
                                     executed |-> executed, status |-> status])
       /\ cfg' = waits.cfg /\ argv' = waits.argv /\ i' = waits.i
       /\ list' = waits.list /\ k' = waits.k + 1
       /\ executed' = waits.executed
  /\ caller' = Tail(caller)
  /\ phase' = "run" /\ status' = OK
  /\ UNCHANGED ignored

RunnerStopped == level = "runner" /\ phase = "stopped" /\ UNCHANGED vars

Next ==
  \/ ParseMode \/ ParseFlag \/ ParsePath \/ ParseArgs \/ ParseJobs
  \/ ParseHelp \/ ParseName \/ ParseEnds
  \/ ListTests \/ SkipTest \/ Execute \/ Submit \/ SubmitFails
  \/ LoopEnds \/ NestedEnds \/ RunnerStopped

Spec == Init /\ [][Next]_vars

-----------------------------------------------------------------------------
(* Properties *)

\* The code points that Transcoding keeps both ways
Kept(cp) == cp < 2048 \/ (4096 <= cp /\ cp < Plane)

\* A text that survives the command line: no backslash right before a space
\* or a quote, no tab, no two spaces in a row; and of the characters beyond
\* ASCII those that are kept.
Carried(text) ==
  \A n \in DOMAIN text :
    /\ text[n] # Tab
    /\ text[n] \in DOMAIN CodePoint => Kept(CodePoint[text[n]])
    /\ n < Len(text) =>
         /\ text[n] = Backslash => text[n + 1] \notin {Space, Quote}
         /\ text[n] = Space => text[n + 1] # Space

\* All the texts that a runner of this configuration passes on; the path of
\* the program ends where it has a space.
CarriedBy(c) ==
  /\ \A n \in DOMAIN Executable : Executable[n] \notin {Space, Tab, Quote}
  /\ \A f \in {"outfile", "tracepath", "tempdir", "resource"} :
       \A n \in DOMAIN c[f] : Carried(c[f][n])
  /\ \A n \in DOMAIN c.args : Carried(c.args[n])

\* A nested process executes the test that the runner submitted, that one
\* only, and never none: the full name, read back as a pattern among all the
\* tests, must find it first, and no option may swallow it.
NestedRunsSubmittedTest ==
  level = "runner" /\ CarriedBy(cfg) =>
    \A n \in DOMAIN runs : runs[n].executed = <<runs[n].test>>

\* The nested process works with the configuration of its runner, in all that
\* a test can see of it, and it neither starts processes nor writes to what
\* the runner writes to.
NestedSeesConfiguration ==
  level = "nested" /\ phase = "run" /\ CarriedBy(caller[1].cfg) =>
    /\ \A f \in {"mode", "debug", "verbose", "outfile", "tracepath", "tempdir",
                 "resource", "args"} : cfg[f] = caller[1].cfg[f]
    /\ cfg.is_child /\ ~cfg.fork /\ ~cfg.sysinfo /\ cfg.ignore = <<>>

\* What a pattern means: token by token, a star for any one token, two stars
\* for any rest, even none.
Means(pattern, name) ==
  LET p == Tokens(pattern)
      m == Tokens(name)
      same(n) == \A j \in 1..n : p[j] \in {<<"*">>, m[j]}
  IN \/ Len(p) = Len(m) /\ same(Len(m))
     \/ \E n \in 0..(Len(p) - 1) :
          p[n + 1] = <<"*", "*">> /\ n <= Len(m) /\ same(n)

Excluded(c, t) == \E n \in DOMAIN c.ignore : Means(c.ignore[n], FullName(t))

Selected(c, t) ==
  /\ ~t.off /\ ~Excluded(c, t)
  /\ c.list = <<>> \/ \E n \in DOMAIN c.list : Means(c.list[n], FullName(t))

\* The tests that a configuration selects among the first n
Chosen(c, tests) ==
  LET chosen[n \in 0..Len(tests)] ==
        IF n = 0 THEN <<>>
        ELSE IF Selected(c, tests[n]) THEN Append(chosen[n - 1], tests[n])
        ELSE chosen[n - 1]
  IN chosen

\* The runner has submitted or executed exactly the selected tests before its
\* position, in the order of their names, and reports as ignored those that a
\* pattern excludes.
SelectionByName ==
  level = "runner" /\ phase = "run" =>
    /\ Chosen(cfg, list)[k - 1] = IF cfg.fork THEN [n \in DOMAIN runs |-> runs[n].test]
                                              ELSE executed
    /\ ignored = {n \in 1..(k - 1) : ~list[n].off /\ Excluded(cfg, list[n])}

\* tools.h: cmdline_append_escaped() appends the command line with an
\* additional text parameter: the nested process gets the parameters that the
\* runner appended.
ParametersArrive ==
  level = "nested" => argv = NestedArgs(caller[1].cfg, caller[1].list[caller[1].k])
=============================================================================
