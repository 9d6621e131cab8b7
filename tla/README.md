# A formal model of lsp-test-fw

lsp-test-fw is a C++ library for unit tests, performance tests and manual
tests. A program links the library, registers tests and initializers in static
constructors and hands its arguments to `test_main()`. The runner then selects
tests and executes them, usually each in a process of its own, several at a
time, with a time limit for unit tests.

This directory holds TLA+ modules translated from that code, TLC
configurations that check them on small instances, and proofs that TLAPS checks.
`PROJECT.json` maps every definition to the lines of code it stands for.

    tlc -workers 2 -config pool.cfg MCTestExecutor.tla     # a run
    tlapm TestExecutorProofs.tla                           # a module of proofs

Paths below are those of the repository; `executor.cpp` is
`src/main/executor.cpp`, and so on.

## 1. Inventory

### The parts, their state and their operations

| part | state | operations | what makes it correct |
|---|---|---|---|
| **Test executor, POSIX** (`executor.cpp`, `executor.h`) | task table `vTasks`/`nTasksActive`/`nTasksMax`, statistics | `init`, `submit`, `wait`, `wait_for_children`, `submit_task` (fork), `wait_for_child` (waitpid), `launch_test`, `launch`, `set_timeout`, `kill_timeout`, destructor | every launched test is judged once, with its own verdict; timers cover bodies only |
| **Test executor, Windows** (same files) | the same table with process handles; a named mutex, a named waitable timer, a thread per process | the same names; `thread_proc`; a command line per nested process | the nested process executes the submitted test under the same configuration; time limits hold |
| **test_main** (`main.cpp`) | `res`, the sorted list of tests, list of initializers, `config_t` | start-up, selection, loop, statistics, hooks, output file | hooks nest, output is complete and not repeated, the exit status tells the result |
| **Configuration** (`config.cpp`) | `config_t` | `parse`, `clear`, `print_usage` | what the user asked for is what runs |
| **Selection** (`main.cpp`) | none | `check_duplicates`, `match_string`, `match_list`, `check_test_skip` | patterns mean what the usage text says |
| **Initializers, Environment** (`init.cpp`, `env.cpp`) | list of registered ones; stream and verbosity per initializer | `configure`, `initialize`, `info`, `before`, `after`, `finalize` | called in pairs, with the current stream |
| **Tools** (`tools.cpp`) | none | `mkdirs`, UTF-8/UTF-16 conversion, escaping, temporary paths, system information | see the modules below |
| **Registries** (`test.cpp`, `utest.*`, `ptest.*`, `mtest.*`) | lists of tests, cached `full_name` | constructors, `full_name` | no two tests of a kind have the same name |
| **Statistics** (`ptest.*`, on `dynarray.h`) | a list of entries with eight texts each | `gather_stats`, `dump_stats`, `free_stats`, `PTEST_LOOP`, `PTEST_SEPARATOR` | an entry is rated once, within its group; it is printed once and freed once, whichever allocation failed |
| **List of supported functions** (`test.*`) | pointers, their number and room | `__mark_supported`, `__check_supported` | only what was marked is measured, and marks are not lost when the list grows |
| **Guarded buffers** (`FloatBuffer.*`, `ByteBuffer.*`) | memory, length, alignment, two signatures, last difference | `allocate`, construction and copy, `fill`, `copy`, `replace`, `validate`, `equals_*`, `get_diff` | guards are inside the memory and find every write next to the data; equal means close |
| **Comparison** (`helpers.cpp`) | none | `float_equals_relative`, `_absolute`, `_adaptive` | sound for zero, NaN and the infinities |
| **Memory tracing** (`executor.cpp`, Linux) | `MALLOC_TRACE` | `start_memcheck`, `end_memcheck` | |
| build files, demonstration tests | | | |

### How they interact

- `test_main()` calls `config_t::parse()`, `mkdirs()`, the initializers, the
  registries and the selection, then `TestExecutor::submit()` for each selected
  test and `wait()`. The `TestExecutor` is a local variable: its destructor
  waits once more.
- **POSIX**: `submit()` forks. The child has a copy of everything, runs
  `launch_test()`, returns through `submit()` and **through the rest of
  `test_main()`** like the runner, with `is_child` set. The runner learns of it
  through `waitpid(-1)`: a pid and a wait status are all there is.
- **Windows**: `submit()` starts the same program with
  `--run-as-nested-process` and the full name of the test as a pattern. All the
  nested process knows comes from that line. Processes share kernel objects by
  name.
- Hooks, bodies and user programs are callbacks: they may call `exit()`, crash,
  block, print, or start processes that become children of the runner.
- A SIGALRM (POSIX) or a thread (Windows) interrupts a body at any point.
- A body calls the library back: a unit test compares the results of two
  implementations in guarded buffers, a performance test gathers statistics for
  the functions it marked as supported, which `launch()` prints and frees.

### What is hard

Processes end in any order, and anywhere; the table is compacted while others
run; pids are reused; signals arrive between two calls of `set_timeout()`;
children nobody knows, stops and continuations come out of `waitpid()`; system
calls fail half-way; the code after a test runs in two kinds of processes;
kernel objects are shared by name; a copy of the stdio buffer is written by
each process that exits; a second parser (`CommandLineToArgvW`) reads what the
runner wrote; two processes create the same directories; allocations fail in the middle of a group of statistics; guards sit at addresses
that depend on what `new` returned. The 40 hazards of
`PROJECT.json` name the line where each bites and the property that covers it.

## 2. Modules

    TestRun             what a runner promises (abstract)
      ^ refinement, proved in TestExecutorProofs
    TestExecutor        processes, task table, timers, POSIX
    TestMain            hooks, output, buffers, both platforms
    CommandLine         parse, select, Windows command lines  --EXTENDS--> Utf
    Transcoding         the two conversions                   --EXTENDS--> Utf
    TimeoutWin          the Windows time limit
    Mkdirs              concurrent creation of directories
    PerfStats           statistics of performance tests       --EXTENDS--> DynArray
    GuardedBuffer       buffers with guards                   --EXTENDS--> FloatCompare
    <Module>Proofs      the theorems about a module: TestExecutor (with TestRun),
                        TestMain, CommandLine, Transcoding, TimeoutWin, Mkdirs,
                        PerfStats, GuardedBuffer
    MC<Module>          values of the constants for TLC

An operator named `X_Slip` (`Collect_NoSwap`, `Size_OneUnit`, ...) is a
plausible mistake in `X`. Each property is broken by one of them when it takes
the place of `X`, which shows that the property depends on that code; `Next`
never uses them.

### TestRun and TestExecutor

`TestRun` has no processes: tests are launched in order, at most `jobs` at a
time, end well or badly, are judged once with their own fate, and a report is
published when all are judged or the run was aborted. `TestExecutor` is the
code:

| state | code |
|---|---|
| `cfg` | `pCfg`: fork, mode, threads, debug; and which initializers keep a child |
| `pc`, `next`, `res` | the place of the runner in `test_main()`/`submit()`/`wait()`/destructor, its loop index, `res` |
| `vTasks`, `nTasksActive`, `nTasksMax` | the table; entries past `nTasksActive` keep their stale contents |
| `total`, `success`, `failed`, `report`, `exitcode` | `stats_t`, what `output_stats()` printed, the status of the process |
| `at`, `does`, `lres` | per process: its place in `launch_test()`, its test, the result of `launch()` |
| `timer`, `handler` | per process: ITIMER_REAL, and the disposition of SIGALRM |
| `halted`, `noted` | per process: stopped by a signal; a stop or continuation to be reported |
| `fate`, `executed` | history: how the test really ended; which bodies returned |

Steps of one process are split where something can happen in between:
`set_timeout()` into `SetTimer` and `InstallHandler` (the code arms the timer
*before* it installs the handler), `kill_timeout()` into `RevertHandler` and
`KillTimer`. `WaitReaps` is `waitpid()` with the whole of
`wait_for_children()`: search, verdict, statistics, and swap with the last
entry (`Collect`). `WaitReapsStranger` is the null descriptor that is
dereferenced for a child nobody submitted; `WaitNotes` a stop or a
continuation. `ForkFails` gives the descriptor back and leaves the old pid in
it. Without fork, `RunnerEnds` is a body that takes the runner along.

### TestMain

Follows `test_main()` from its first line to the exit of the process, in the
runner (process 0) and the process of each test (its number): a POSIX one
starts as a copy in `before`, a Windows one in `initialize`. `open` is the
history of the calls of hooks that wait for their counterpart, per process; `env` the `Environment` of each
initializer, `buffer`/`console` the buffer of stdout and the lines written,
`file` the sections of the output file. The task table is a set here. `WaitFails`
is a `waitpid()` that returns an error: `submit()` and `wait()` pass it on, which
leads to the report with tests in progress; the destructor ignores it, and `main()`
returns with tests in progress (history variable `deserted`). `TableTooLarge` is
`WaitForMultipleObjects()` with more processes than it takes. What
happens inside a body is one step with its possible outcomes, as `TestExecutor`
has the details.

### CommandLine and Utf

One process at a time parses its arguments (`ParseMode` ... `ParseEnds`, one
argument per action), lists and sorts the tests, and walks through them. With
fork, `Submit` composes the arguments (`NestedArgs`), escapes them (`Escaped`),
converts them to UTF-16 and back (`Transcoded`, with the byte-level operators of
`Utf`) and lets `ArgvOf`, the documented algorithm of `CommandLineToArgvW()`,
read them; the nested process then runs the same actions, and `caller` is the
stack of the processes that wait meanwhile. `Sorted` holds every order that `qsort()`
may give. Texts are sequences
of characters, because escaping is about characters; long options are spelt
like the short ones.

### Transcoding

`utf8_to_utf16()` and `utf16_to_utf8()`: a pass that measures, `malloc()`, a
pass that writes. `Utf` has the reading and writing of one code point, with all
it does for malformed input. `Endless` is the pass that measures and never meets
the terminating zero. `Text` is what the code points of a string are in its
encoding, by recursion over their number.

### TimeoutWin

`set_timeout()`, `thread_proc()` and `kill_timeout()` on Windows, one kernel
call per action, in processes that share the mutex `timeout_handler` and the
timer `timeout_countdown` because these have names. `holders` counts handles
(an object lives as long as one), `owner` is the thread that owns the mutex
(given up, as abandoned, when it ends), `left` the ticks to the signal.

### Mkdirs

`mkdirs()` on both platforms: for each prefix of the path a test for existence,
a creation, a second test ("Possible concurrency"), and the check of the type,
each an action of its own, over a shared file system with directories, locked
directories and files. `Entry` is what a prefix of a path names: empty names add
nothing.

### DynArray, PerfStats

`DynArray` has the two arrays of the library as operators on records of their
fields: `dynarray_t` (`Added`, `RemovedAt`, `Removed`) and the list of supported
functions (`Marked`, `Holds`), where room that was never written is `Garbage`
and a failed allocation leaves the array alone. `PerfStats` is what a
performance test does with them. `log` is the history of what the body was told
to have measured; `Gather` makes an entry, `GatherCutShort` fails at one of its
eight texts and frees the entry *before* the pointer is taken off the list,
`Separate` rates a group from the first entry without a rate (`Unrated`) and may
be cut short itself; `Dumped` is the loop of `dump_stats()` after each entry; `BodyExits` is `PTEST_FAIL`, after which nothing is printed.

### FloatCompare, GuardedBuffer

A number is an integer in units of which `One` make 1.0, or NaN or an infinity,
and quotients are compared by multiplication. `GuardedBuffer` keeps the fields of
each buffer (`obj`), and the memory (`mem`) with its size, the data and the two
words in front of and behind them. A signature holds the address of its buffer,
so a word is the object that wrote it, or `Nobody` when it was written over.
`maker`, `outside` and `assigned` are history: who allocated the memory, what was
written to next to the data, which objects were assigned to. `Assign` is the
`operator=` that the compiler makes, as the classes declare none.
`MCTestBody` runs the two components side by side, one or the other.

## 3. Runs

| run | expected | what it shows | distinct states |
|---|---|---|---|
| `pool` | pass | `TypeOK`, `TableMatchesChildren`, `VerdictFaithful`, `EveryTestAccounted`, `TestsAtATime`, `CompleteReport`, `TimerConfined`, `RunnerSurvives`, and that TestExecutor implements `TestRun` | 261 533 |
| `pool_live` | pass | `RunnerEndsEventually`, `EndedTestsAreRecorded` under fairness; `SuccessMeansExecuted` | 59 859 |
| `session` | pass | `HooksNest`, `FileTellsMeasured`, `PrintedOnce`, `TestsEndBefore`, `RunnerOutlivesTests` | 526 463 |
| `command_line` | pass | `SelectionByName`, `NestedRunsSubmittedTest`, `NestedSeesConfiguration` | 81 472 |
| `win_timeout` | pass | one process at a time: `TimedOutOnlyLate`, `BodyIsWatched`, `ProcessesEnd` | 86 000 |
| `mkdirs` | pass | three concurrent calls: `SuccessMeansPath`, `FailureHasCause` | 513 345 |
| `transcoding` | pass | `NeverOverruns`, `ConvertsUnicode`, `Ends` | 20 072 |
| `test_body` | pass | buffers: `MemoryOwned`, `GuardsInside`, `ValidMeansUntouched`, `EqualMeansClose`, `EqualsSymmetric`, `DiffInside`, `BytesCompared`; statistics: `EntriesOwned`, `RatedInGroup`, `RatedOnce`, `TableShowsLog`, `SupportKept` | 726 942 |
| `exit_status` | violation | `StatusTellsFailure` | |
| `parameters` | violation | `ParametersArrive` | |
| `stale_stdout` | violation | `HooksSeeConfiguration` | |
| `win_shared` | violation | `ProcessesEnd` with two processes at a time | |

### Bounds, and why they are enough

- **TestExecutor**: three tests, two pids, two workers, so that the table is
  full, a descriptor in front of the last is freed (the swap), a pid is
  reused, and a third test waits. Six configurations: the table with two
  entries, one or none, every mode, with and without `--debug`, and an
  initializer that keeps a child. Every kind of time limit (finite, none,
  refused). `MaxFaults` = 1: one of fork, waitpid, setitimer fails in a
  behaviour; the code stops submitting after the first failure, and a second
  one in the destructor ends it before its tests, which `session` has without a
  bound. `MaxStops` = 1: a stop and its
  continuation each make one report. `BodyCodes` has 0, 1 and 256, whose low
  byte is 0. TLC uses symmetry of the pids for safety only.
- **pool_live**: no stops, as a process that nobody continues keeps the runner,
  rightly; the handler does not block.
- **TestMain**: three tests on two workers, two initializers (the order shows),
  both platforms, all modes of the output file. `MaxObjects` = 2 stands for the
  64 handles that `WaitForMultipleObjects()` takes; one configuration has a third
  worker. `waitpid()` may fail at any wait: no bound is needed, as a first failure
  ends the loop or `wait()`, and a second one the destructor.
- **CommandLine**: mode and up to two phrases out of 24 (switches, values,
  missing and wrong values, patterns, texts with quotes, spaces, backslashes
  and characters of two to four bytes) over four registries with duplicates
  that differ in case, disabled tests, names that contain dots.
- **Transcoding**: every sequence of at most two boundary code points, of three
  bytes and of four units of every kind. `MaxBytes` stops the count where the
  code would count for ever.
- **TimeoutWin**: three processes, limits of 0, 1 and 3 ticks (2 in
  `win_shared`).
- **test_body, buffers**: two objects, two addresses, of which one is aligned to
  8 but not to 16; lengths 0 and 2; alignments 1, where the sum of the room is
  tight, and 16; five calls, enough to allocate twice, assign, and destroy twice,
  or to write to both, compare and destroy. Numbers: 1.25 and -1.25, 0, 1.0
  (within a tolerance of 1/4 of 1.25 by one quotient and not by the other), NaN
  and +inf. `SizeT` = 5 lets `off + count` wrap.
- **test_body, statistics**: two functions, two costs, five measurements or
  separators, three marks, one failed allocation, which is any of those a call
  makes. `Chunk` and `SupportMin` (32 in the code) are 2, so that both arrays
  grow while they hold something. TLC uses symmetry of objects and functions.
- **Mkdirs**: three calls over five paths (common prefixes, doubled and trailing
  separators, empty), seven file systems.

### Fairness

- **TestExecutor**: the runner, and every process between its start and its end,
  are scheduled, and a due alarm is delivered. A body need not return
  (`BodyReturn` has no fairness). Hooks return: the code gives them no
  limit, so that a hook that hangs keeps the runner, and no property can
  say otherwise.
- **TimeoutWin**: both threads of a process are scheduled and time passes; a
  body need not return.
- **Transcoding**: the thread runs.

The other specifications state no fairness and check safety only. Their
deadlock check is on, and a finished system stutters explicitly, except in
`test_body`, where a body may stop calling the library after any call.

## 4. What the code does not do

| run | statement | what happens |
|---|---|---|
| `exit_status` | `status.h:34`, `:47`: OK is the successful status, FAILED says that the task has failed | `main.cpp:455` drops the result of `output_stats()`: a run with failed tests exits with 0 |
| `parameters` | `tools.h:37`: append the command line with a text parameter | a backslash before a space, or two spaces in a row, arrive as something else |
| `stale_stdout` | `main.cpp:315` "Restore configuration" | each `Environment` keeps the closed stream of the output file and `verbose` |
| `win_shared` | `README.md:188-191`: tests are parallelized, and one that gets stuck is killed | with named objects, the end of one test takes the limit away from another |

Seen while reading, without a run of their own:

- A failed `fork()` or `waitpid()` prints the statistics before the tests in
  progress are collected: failures among them are not listed
  (`main.cpp:440-456`). `TestRun` permits this (`Publish` after `Abort`).
- The destructor of the executor ignores the result of `wait()`
  (`executor.cpp:52`): when `waitpid()` fails there, the runner exits while tests are
  running. `TestsEndBefore` names this as the one way a test outlives a runner
  that exits.
- A child of an initializer that ends while the runner waits crashes it
  (`executor.cpp:641`). No document promises otherwise; `RunnerSurvives` names
  it as the one way a runner with fork can crash.
- U+0800 to U+0FFF, and code points of four bytes in UTF-8, do not survive a
  conversion; an unpaired surrogate makes `utf16_to_utf8()` loop for ever
  (`tools.cpp:231`, `:180`, `:298-300`). `ConvertsUnicode`, `Ends` and `Carried`
  state the exact conditions.
- A program in a path with a space cannot be nested: the space is
  escaped as in an argument, and Windows reads the program's name by
  other rules.
- `README.md:188` says twice the number of cores; the code takes the number of
  cores. The limit of zero is none on POSIX and immediate on Windows.
- `WaitForMultipleObjects()` takes 64 handles; with more workers it fails and
  `executor.cpp:532` uses the result as an index. `RunnerOutlivesTests` names this
  as the one way a runner with fork is killed in `TestMain`.
- `launch()` returns OK for a body that was never entered because `setitimer()`
  refused its limit, for example a negative one. `SuccessMeansExecuted` names this
  as the only test that succeeds without its body.
- A rating that an allocation cuts short leaves entries without a rate, and the
  next separator rates them with its own group (`ptest.cpp:118-140`).
  `RatedInGroup` holds until then, `RatedOnce` always.
- The list of supported functions keeps every mark, duplicates included
  (`test.cpp:87`). `PTEST_KLOOP` ignores the factor it is given.
- Buffers have no `operator=`: an assigned one shares memory that both delete.
  Nothing in the repository assigns one; `validate()` would tell.
- `ByteBuffer::equals()` of a buffer reads as many bytes of the other as this one
  has (`ByteBuffer.cpp:111`); `off + count` wraps. `dump_hex(text)` calls `dump()`,
  `ByteBuffer::dump(..., from, count)` ignores the range.
- An unaligned `FloatBuffer` with an alignment of 4 or less is aligned: it is moved
  by one float. `AlignmentAsAsked` says from where on it is not.
- The relative comparison ignores the sign, equal infinities are not
  equal, and the adaptive one depends on which number comes first (1.0 and 1.25):
  `EqualsSymmetric` covers the other two.

## 5. Proofs

A theorem holds for every value of the constants that satisfies the assumptions
of its module, and for behaviours of any length: none of the bounds of section 3
is in it. The assumptions are named in the modules and evaluated by TLC in
every run; the inductive invariants were checked by TLC on the runs first.

### The test executor: TestExecutorProofs

| theorem | statement |
|---|---|
| `TypeCorrect` | `Spec => []TypeOK` |
| `Invariance` | `Spec => []Safe`, the inductive invariant |
| `TableAlwaysMatches` | `Spec => []TableMatchesChildren` |
| `VerdictsAreFaithful` | `Spec => []VerdictFaithful` |
| `AllTestsAccounted` | `Spec => []EveryTestAccounted` |
| `ReportIsComplete` | `Spec => []CompleteReport` |
| `TimersStayConfined` | `Spec => []TimerConfined` |
| `RunnerAlwaysSurvives` | `Spec => []RunnerSurvives` |
| `TestsNeverCrowd` | `Spec => []TestsAtATime` |
| `SuccessesWereExecuted` | `Spec => []SuccessMeansExecuted` |
| `RunnerImplementsTestRun` | `Spec => ImplementsTestRun`, which is `TR!Spec` |

**Assumptions**: `ListAssumption` (the list has no test twice, which
`check_duplicates()` and the static registration provide), `ProcAssumption`
(the kernel does not give the pid of a living child away, so that the children
of initializers have other pids), `TestAssumption`, `ConfigAssumption`,
`BoundAssumption`. `TestsNeverCrowd` needs no finiteness of `Pid`: it counts the
busy processes through the table.

**Argument**. None of the properties is inductive. `Safe` adds what the code
relies on without saying it:

- `Roles`: which process may be where: pids of tests are in `launch_test()` or
  ended, helpers are helpers, the parent is in `launch_test()` only without
  fork and only while `pc = "launch"`.
- `TableMatchesChildren` then survives the swap, a reused pid (it is `free`, so
  not in the active part) and a failed fork (its entry is past the end).
- `Accounts` extends `EveryTestAccounted` to all values of `pc`: in `slot` and
  `launch` one more is counted in `total`, in `check` the judged test is still
  at `next`, and after a failure the sums stop growing. Distinctness of the
  list makes the next test new.
- `Completion`: a `report` or `dtor` with `res = OK` was reached through
  `Drained`, or by a loop without fork that went to the end.
- `Fates`: an ended process has the fate that `ResultOf` will report; a running
  one has none; a judged test keeps its own.
- `Timers`: an armed timer implies its stage; a process that is `free` or just
  forked has none.

`InitSafe`, `NextSafe` (one lemma per part and per group of actions:
`RunnerTable`, `ProcessTable`, `RunnerFates`, ...) and the theorems follow.
`Record` states once what an `Append` to one of the two lists of statistics does
to their elements.
`SuccessMeansExecuted` has a part of its own, `Deserved`: a process whose `lres` is
OK, or that ended with status 0, executed the body of its test, or its limit was
refused.

The refinement has one lemma per action that means something to `TestRun`:
`ForkMaps` and `LaunchMaps` (a `Launch`: the test was not running, and the table
has room because of `TestsAtATime`), `ProcessMaps` (an `End`, or nothing),
`WaitReapsMaps` and `SubmitReturnsMaps` (a `Judge`, with the fate that `Safe`
says the process earned), `OutputStatsMaps` (a `Publish`), `EndMaps`;
`HiddenSteps` says that any other step leaves the mapped state alone. `StepMaps`
puts them together under `Safe`, and `Invariance` supplies `Safe`.

### A session: TestMainProofs

`HooksNestHolds`, `FileTellsMeasuredHolds`, `PrintedOnceHolds`, `TestsEndBeforeHolds`
and `RunnerOutlivesTestsHolds` each state the property of that name, for any number of
tests, initializers and wait objects and any configurations. `waitpid()` may fail in
all of them, so that `TestsEndBeforeHolds` speaks of the finalizers of a runner without
an error, and of the exit of a runner whose destructor could wait. The invariant is
`IInv == TypeOK /\ Roles /\ Nested /\ Printed /\ Filed`:

- `Roles`: where the runner and the process of a test may be; a process that
  lives is in the table, and executes its own test only; a runner that left
  `wait()` without an error has an empty table, and so has one that exited, unless
  `waitpid()` failed in its destructor (`deserted`).
- `Nested`: what is open is a stack that the label of a process determines
  (`Stack(a, b)`: `a` initializers initialized, `b` hooks before).
- `Printed`: a line is in one buffer or on the console, never twice: `submit()`
  flushes before it forks, so that the copy of the buffer is empty.
- `Filed`: what was written to the file since it was created, in the order of the
  tests; tests that are not judged yet have written at most their own section.

`SessionAssumption` only gives the types of the constants.

### The command line: CommandLineProofs

| theorem | statement |
|---|---|
| `SelectionByNameHolds` | `Spec => []SelectionByName`: exactly the tests that the patterns mean |
| `CommandArrives` | `ArgvOf(Transcoded(Command(c, t))) = NestedArgs(c, t)` for carried texts |
| `NestedStages` | `Spec => []NestInv`, the inductive invariant of nested processes |
| `NestedRunsSubmittedTestHolds` | `Spec => []NestedRunsSubmittedTest` |
| `NestedSeesConfigurationHolds` | `Spec => []NestedSeesConfiguration` |

**Assumptions**, for any registered tests and any arguments. `InputAssumption`: texts are
sequences, there is a path of the executable and there are the three defaults; a test
has a name, which is a C++ identifier and has no dot (with one, a pattern that ends in
`**` and one without would differ). `CharacterAssumption`: `CodePoint` gives each character beyond
ASCII a code point that is none of a surrogate, and such characters are not those of the
syntax; the groups and names that tests are declared with are words without spaces, quotes,
backslashes or stars, and none of their characters stands for an option. The
framework does not enforce the latter for groups, which are string
literals; `UTEST_BEGIN` and its siblings only make the name an identifier. `SelectionByNameHolds`
does not use `CharacterAssumption`.

**Selection.** `MatchMeans`: `MatchString`, which walks over the tokens, finds what `Means` says of
the whole: by induction from the end of the pattern, on the recursive functions that
`CutExists` and `MatchExists` provide.
`SelectionInv` says of the runner while it is alone (`Active`), or of its frame at the
bottom of the stack while others run (`Waits`), what `SelectionByName` says (`At`), and
that options leave the patterns lists of texts (`Configured`). A frame that waits
is at a selected test, so that its end adds that test; no nested process touches the
bottom of the stack (`NestedKeeps`, `SubmitKeeps`).

**The command line arrives.** `CommandArrives` has three parts. `FlattenSeq` of the community
modules is a recursive function (`Flat`), from which `Flattened` says where each argument
begins in the line. Conversion to UTF-16 and back leaves each kept code point alone
(`Returns`, arithmetic on its parts). `RoundTrip` is an induction over the arguments, within
one over the characters of an escaped argument: after each of them the state of `Scan` is
the one that `Reading` says, with the open quote and the number of backslashes that the escaping
left. It needs `Carried`, and the run `parameters` shows what happens without: a
backslash before a space, or a second space, is read as something else. `CarriedBy`
further says that the path of the executable has no space, tab or quote: it is escaped like
a parameter, and the program name is read by other rules (`ProgramEnd`). With a space
in `Executable`, `parameters` is violated for any arguments: the rest of the path arrives as
the first parameter, where `parse()` expects the mode.

**The nested process.** `NestInv == Current /\ Frames /\ Carries /\ Ran`:

- `Current`: the process that runs has a configuration with the types that `parse()`
  leaves, a mode once its first argument was read, and its defaults when it runs.
- `Frames`: a process that waits is at a test that is enabled. All but the innermost
  have a configuration whose texts do *not* survive: a nested process that got what its
  runner wrote has `fork` off and starts none.
- `Carries`, `Nest`: the process above a carried configuration is in one of the thirteen stages of
  `Stages`. A stage is a set of fields that `parse()` has set, all others being as in
  `NewConfig`, and the group of arguments that is left (`FromMode`, `FromChild`, ...,
  `ArgsOf`); each step leads to a later one (`StagesGo`). Past parsing `cfg` is
  `Target(c, t)`, the test is still ahead of the loop, and only it is executed
  (`OnlySelected`): as a pattern its full name means itself, and `check_duplicates()`
  admits no second test of that name.
- `Ran`: what the ended processes executed.

No option swallows the name: groups end with their values, so that `parse()` meets the name as
an argument of its own, and everything after `-a` belongs to the test.

### The Windows time limit: TimeoutWinProofs

`TimedOutOnlyLateHolds` and `BodyIsWatchedHolds` assume `Jobs = 1`, for any finite set
of processes and any limits: with two at a time both properties are false, as the
named objects are shared (section 4). `IInv` says that one process lives at a
time (`OneAlive`, which counts the processes that live), that it holds the handles it
made, owns the mutex up to its release, that its thread waits
meanwhile, and that the timer and the time that passed add up to its limit.

### Directories: MkdirsProofs

`SuccessMeansPathHolds` and `FailureHasCauseHolds`, for any number of concurrent calls,
any paths and any file systems that are trees (`PathsAssumption`). `IInv` has `Grown`
(the file system only grows: what was there is there with its type, and it stays a
tree), `PassedBy` (every prefix that a call has left behind is a directory, whoever made
it) and `SoundAt` (what the result of a test for existence still implies when it is
used: a negative answer may be stale, a positive one not).

### Unicode conversion: TranscodingProofs

`NeverOverrunsHolds`: the second pass writes exactly the bytes that the first one measured,
`PassesStayInside`: neither reads behind the terminating zero, and `ConvertsUnicodeHolds`, for every
string, malformed ones included, and every `MaxBytes`. `StringsAssumption`
says what `char` and 16-bit strings are, and that `points` is what a string encodes.
`IInv` (`Measured`, `Encoded`) is about the walk of the first pass: the positions it
reads at and the sums it reaches; the second pass is at one of these positions and
has written the sum of that position. The lemmas below it say that a sequence
is as long as `Size` says for every code point and for every truncated sequence.
`CInv` (`Given`, `Converted`) is the content: behind the text of `n` code points the string has
the next one, which the reader reads back and the writer writes, by arithmetic on
the parts of six and ten bits.

### Statistics: PerfStatsProofs

`EntriesOwnedHolds`, `SupportKeptHolds`, `RatedInGroupHolds`, `RatedOnceHolds` (an action property) and
`TableShowsLogHolds`, for any functions, costs, number of calls, first
capacity and growth of the arrays. `StatsAssumption` keeps `Null` apart from functions, `ArrayAssumption`
has the capacities positive. `IInv` adds to the properties that the log tells of the entries
(`LogKept`), and that what comes after an entry without a rate has none (`InOrder`), which is why a
separator rates the end of the list and nothing else. `AddedArray`, `MarkedArray` and
`RemovedArray` are the contracts of the two arrays. `DumpedShows` compares the loop of
`dump_stats()` with the lines of the log, entry by entry.

### Buffers: GuardedBufferProofs

`GuardedBufferProofs` proves, for all objects, addresses, lengths, alignments and
values that satisfy `BufferAssumption` (a tolerance is positive and at most 1, an
alignment and `SizeT` are not 0, the other sets are of numbers), and behaviours of any length:

| theorem | statement |
|---|---|
| `Invariant` | `BufferSpec => []IInv` |
| `BuffersOwnMemory` | `BufferSpec => []MemoryOwned` |
| `GuardsAreInside` | `BufferSpec => []GuardsInside` |
| `AlignedAsAsked` | `BufferSpec => []AlignmentAsAsked` |
| `ValidateIsExact` | `BufferSpec => []ValidMeansUntouched` |
| `DifferenceIsInside` | `BufferSpec => []DiffInside` |
| `BuffersHoldNumbers` | `BufferSpec => []HoldNumbers` |
| `ComparisonsSymmetric` | `BufferSpec => []EqualsSymmetric` |
| `EqualBuffersAreClose` | `BufferSpec => []EqualMeansClose` |
| `BytesAreCompared` | `BufferSpec => []BytesCompared` |

`IInv` ties a buffer to its memory: where its data begin (`IsBuffer`), that the
memory has the room `allocate()` asked for (`Sized`) and as many elements as the
buffer says (`Fits`), and that a word was lost exactly when somebody wrote next to
the data (`Watched`). `Fits` is why `copy()` and `replace()` cannot reach a word.
`Allocates` and `Writes` carry it through all constructors and all writes.
The arithmetic is in `PointerAligned` (an aligned pointer is aligned, and less than
one alignment further on) and `ShiftUnaligns` (one element off, it is not aligned
any more, if the alignment is larger than the element); the room for both guards
follows by comparing sums. The comparisons rest on lemmas about two numbers
(`RelativeSymmetric`, `NearIsClose`) and on `HoldNumbers`, a second invariant, as
numbers come from the user, from `randomize()` and from other buffers.

### What stays with TLC

- Liveness (`RunnerEndsEventually`, `EndedTestsAreRecorded`, `ProcessesEnd`, `Ends`), which
  depends on fairness and `ENABLED`.
- The properties of the four runs that find a violation, which are false.

Every invariant and every action property that a passing run checks has a theorem.

Inductions over numbers (the walk of a pass, the prefixes of a path, the entries of the
table) are made by contradiction from the least counterexample, as a set of natural
numbers that is not empty has a least element; a recursive function is first shown to exist the
same way. What a fold of the community modules computes has no such
form, so modules with theorems use recursive functions instead.

## 6. Not modelled, and why

Memory tracing (only changes what glibc logs), the rounding of floating-point
numbers (no arithmetic for it in TLC or the provers: `FloatCompare` is exact),
`dump` functions, the widths of tables, usage and version texts, system information
(output only), failed allocations outside of `Transcoding` and `PerfStats`, build
files. The demonstration tests are user code:
nondeterministic steps here. In `CommandLine` nested processes run one after the
other, as they share nothing there; what they share is in `TestMain`,
`TimeoutWin` and `Mkdirs`.

## 7. Plan

Done: executor, command line, session, time limit, directories, conversions,
statistics, buffers and comparisons; every invariant and action property of the
passing runs is proved. What a next step could add:

1. `MALLOC_TRACE` in `TestMain`.
2. Group names with characters of the syntax in `CommandLine`: which of them survive the
   command line, where the theorems now assume that there are none.
