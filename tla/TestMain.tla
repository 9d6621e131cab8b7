------------------------------ MODULE TestMain ------------------------------
(***************************************************************************)
(* The life of the runner and of the processes of its tests, from the      *)
(* first call of test_main() to the exit of the process: the hooks of the  *)
(* initializers, the streams they print to, the output file and the        *)
(* buffers of stdio (src/src/main/main.cpp, executor.cpp, env.cpp).        *)
(*                                                                         *)
(* A POSIX test process is a fork of the runner and inherits its memory; a *)
(* Windows one starts anew. The task table is a set of tests here, its     *)
(* details are those of TestExecutor; selection is that of CommandLine.    *)
(***************************************************************************)
EXTENDS Integers, Sequences, FiniteSets

CONSTANTS
  Tests,     \* how many tests are selected; they are numbered in their order
  Inits,     \* how many initializers are registered
  MaxObjects,   \* how many processes Windows waits for, MAXIMUM_WAIT_OBJECTS
  Configs    \* the configurations of the runner

ASSUME SessionAssumption ==
  /\ Tests \in Nat /\ Inits \in Nat /\ MaxObjects \in Nat
  /\ Configs \subseteq
       [posix : BOOLEAN, mode : {"utest", "ptest", "mtest"}, fork : BOOLEAN,
        threads : Nat, outfile : {"none", "writable", "unwritable"},
        sysinfo : BOOLEAN, verbose : BOOLEAN, list_all : BOOLEAN]

Runner == 0
Procs == 0..Tests

VARIABLES
  cfg,        \* the configuration of the runner, passed on to every process
  pc,         \* where each process is
  n,          \* its index in the list of initializers
  test,       \* its index in the list of tests
  res,        \* whether res is LSP_TEST_FW_OK
  env,        \* the Environment of each initializer, by process
  buffer,     \* the lines in the buffer of stdout, by process
  console,    \* how often each line was written to the console
  file,       \* the sections of the output file
  running,    \* the task table of the runner: the tests in progress
  judged,     \* stats.success and stats.failed of the runner
  deserted,   \* history: whether waitpid() failed in the destructor
  open        \* history: the calls of hooks that wait for their counterpart
              \* in each process, the latest last

place == <<pc, n, test, res>>
output == <<buffer, console, file>>
tasks == <<running, judged, deserted>>
vars == <<cfg, place, env, output, tasks, open>>

Lines == {"launching", "result", "measured"} \X (1..Tests) \cup {<<"statistics", 0>>}

Unset == [verbose |-> FALSE, out |-> "null"]

Init ==
  /\ cfg \in Configs
  /\ pc = [p \in Procs |-> IF p = Runner THEN "mkdirs" ELSE "absent"]
  /\ n = [p \in Procs |-> 1]
  /\ test = [p \in Procs |-> 1]
  /\ res = [p \in Procs |-> TRUE]
  /\ env = [p \in Procs |-> [i \in 1..Inits |-> Unset]]
  /\ buffer = [p \in Procs |-> {}]
  /\ console = [l \in Lines |-> 0]
  /\ file \in {<<>>, << <<"old", 0>> >>}
  /\ running = {} /\ judged = [success |-> {}, failed |-> {}]
  /\ deserted = FALSE
  /\ open = [p \in Procs |-> <<>>]

\* cfg.is_child: set by fork or by the command line.
IsChild(p) == p # Runner

Go(p, label, index) ==
  /\ pc' = [pc EXCEPT ![p] = label]
  /\ n' = [n EXCEPT ![p] = index]

\* A hook is called: it closes the latest call, if that is its counterpart; a
\* call that closes another than the latest stays for ever.
Call(p, hook, i) ==
  LET closes == hook \in {"after", "finalize"}
      latest == <<IF hook = "after" THEN "before" ELSE "initialize", i>>
      depth == Len(open[p])
  IN  open' = [open EXCEPT ![p] =
                 IF closes /\ depth > 0 /\ @[depth] = latest
                 THEN SubSeq(@, 1, depth - 1) ELSE Append(@, <<hook, i>>)]

Configure(p, i, verbose, out) ==
  env' = [env EXCEPT ![p][i] = [verbose |-> verbose, out |-> out]]

\* The console after the lines are written.
Written(lines) == [l \in Lines |-> console[l] + (IF l \in lines THEN 1 ELSE 0)]

\* A process that returns from main(), or calls exit(), flushes its buffer.
Exits(p) ==
  /\ Go(p, "exited", 0)
  /\ console' = Written(buffer[p])
  /\ buffer' = [buffer EXCEPT ![p] = {}]

-----------------------------------------------------------------------------
(* Start *)

\* Only the runner creates the temporary directory; that may fail.
MkDirs ==
  /\ pc[Runner] = "mkdirs"
  /\ \/ Go(Runner, "initialize", 1) /\ UNCHANGED <<res, output>>
     \/ /\ res' = [res EXCEPT ![Runner] = FALSE]
        /\ Exits(Runner) /\ UNCHANGED file
  /\ UNCHANGED <<cfg, test, env, tasks, open>>

\* init_init() or the list of tests runs out of memory, or two tests have one
\* name: test_main() returns, without finalizers.
RegistryFails(p) ==
  /\ pc[p] = "list" \/ (pc[p] = "initialize" /\ n[p] = 1)
  /\ res' = [res EXCEPT ![p] = FALSE]
  /\ Exits(p)
  /\ UNCHANGED <<cfg, test, env, file, tasks, open>>

\* initialize_global()
Initialize(p) ==
  /\ pc[p] = "initialize"
  /\ IF n[p] <= Inits
     THEN /\ Configure(p, n[p], cfg.verbose, "stdout")
          /\ Call(p, "initialize", n[p])
          /\ Go(p, "initialize", n[p] + 1)
     ELSE /\ Go(p, IF cfg.sysinfo /\ ~IsChild(p) THEN "sysinfo" ELSE "list", 1)
          /\ UNCHANGED <<env, open>>
  /\ UNCHANGED <<cfg, test, res, output, tasks>>

\* out_system_info() to stdout
SystemInfo ==
  /\ pc[Runner] = "sysinfo"
  /\ IF n[Runner] <= Inits
     THEN /\ Configure(Runner, n[Runner], cfg.verbose, "stdout")
          /\ Go(Runner, "sysinfo", n[Runner] + 1)
     ELSE Go(Runner, "list", 1) /\ UNCHANGED env
  /\ UNCHANGED <<cfg, test, res, output, tasks, open>>

\* Slip: the nested processes create the output file, too.
ListTests_AllCreate(p) ==
  /\ pc[p] = "list"
  /\ IF Tests = 0 \/ (cfg.list_all /\ ~IsChild(p))
     THEN Exits(p) /\ UNCHANGED file
     ELSE /\ Go(p, IF cfg.outfile = "none" THEN "loop" ELSE "outfile", 0)
          /\ UNCHANGED output
  /\ UNCHANGED <<cfg, test, res, env, tasks, open>>

\* The list of tests: an empty or a printed one is the end, without
\* finalizers.
ListTests(p) ==
  /\ pc[p] = "list"
  /\ IF Tests = 0 \/ (cfg.list_all /\ ~IsChild(p))
     THEN Exits(p) /\ UNCHANGED file
     ELSE /\ Go(p, IF IsChild(p) \/ cfg.outfile = "none" THEN "loop" ELSE "outfile", 0)
          /\ UNCHANGED output
  /\ UNCHANGED <<cfg, test, res, env, tasks, open>>

\* create_outfile(): the file is opened, the
\* initializers are configured for it and print their information to it, and
\* it is closed; a file that cannot be opened is no error.
CreateOutfile(p) ==
  /\ pc[p] = "outfile"
  /\ IF n[p] = 0 /\ cfg.outfile = "unwritable"
     THEN Go(p, "loop", 0) /\ UNCHANGED <<env, file>>
     ELSE IF n[p] = 0
     THEN /\ file' = <<>>
          /\ Go(p, "outfile", 1) /\ UNCHANGED env
     ELSE IF n[p] <= Inits
     THEN /\ Configure(p, n[p], TRUE, "outfile")
          /\ file' = Append(file, <<"info", n[p]>>)
          /\ Go(p, "outfile", n[p] + 1)
     ELSE Go(p, "loop", 0) /\ UNCHANGED <<env, file>>
  /\ UNCHANGED <<cfg, test, res, buffer, console, tasks, open>>

-----------------------------------------------------------------------------
(* The loop of the runner *)

InLoop(p) == pc[p] = "loop" /\ test[p] <= Tests

\* nTasksMax
Places == IF cfg.mode = "utest" /\ cfg.threads > 0 THEN cfg.threads ELSE 1

\* check_test_skip() in a nested process: all but the submitted test.
SkipTest(p) ==
  /\ InLoop(p) /\ IsChild(p) /\ test[p] # p
  /\ test' = [test EXCEPT ![p] = @ + 1]
  /\ UNCHANGED <<cfg, pc, n, res, env, output, tasks, open>>

\* submit() without fork, or in a nested process
SubmitHere(p) ==
  /\ InLoop(p)
  /\ IF IsChild(p) THEN test[p] = p ELSE ~cfg.fork
  /\ Go(p, "before", 1)
  /\ UNCHANGED <<cfg, test, res, env, output, tasks, open>>

\* Slip: nothing is flushed before the fork.
LaunchingPrinted_NoFlush(t) ==
  /\ buffer' = [buffer EXCEPT ![Runner] = @ \cup {<<"launching", t>>},
                              ![t] = IF cfg.posix
                                     THEN buffer[Runner] \cup {<<"launching", t>>}
                                     ELSE {}]
  /\ UNCHANGED console

\* submit(): the line is printed and the buffer flushed before a new process
\* inherits what is left of it.
LaunchingPrinted(t) ==
  /\ console' = Written(buffer[Runner] \cup {<<"launching", t>>})
  /\ buffer' = [buffer EXCEPT ![Runner] = {}, ![t] = {}]

\* Slip: one more than there is room for.
HasPlace_OneMore == Cardinality(running) <= Places

HasPlace == Cardinality(running) < Places

\* submit() with fork: a copy of the runner, or a nested process.
Submit ==
  LET t == test[Runner] IN
  /\ InLoop(Runner) /\ cfg.fork /\ HasPlace
  /\ LaunchingPrinted(t)
  /\ running' = running \cup {t}
  /\ test' = [test EXCEPT ![Runner] = t + 1, ![t] = IF cfg.posix THEN t ELSE 1]
  /\ IF cfg.posix
     THEN /\ pc' = [pc EXCEPT ![t] = "before"]
          /\ env' = [env EXCEPT ![t] = env[Runner]]
          /\ open' = [open EXCEPT ![t] = open[Runner]]
     ELSE /\ pc' = [pc EXCEPT ![t] = "initialize"]
          /\ UNCHANGED <<env, open>>
  /\ UNCHANGED <<cfg, n, res, file, judged, deserted>>

\* fork() or CreateProcess() fails: the loop ends without wait().
SubmitFails ==
  /\ InLoop(Runner) /\ cfg.fork /\ HasPlace
  /\ LaunchingPrinted(test[Runner])
  /\ res' = [res EXCEPT ![Runner] = FALSE]
  /\ Go(Runner, "report", 0)
  /\ UNCHANGED <<cfg, test, env, file, tasks, open>>

\* wait_for_children(), for a place in the table, from wait() or from the
\* destructor
Collects ==
  \/ pc[Runner] \in {"wait", "destroy"}
  \/ InLoop(Runner) /\ cfg.fork /\ ~HasPlace

\* WaitForMultipleObjects() takes the whole table.
TableFits == cfg.posix \/ Cardinality(running) <= MaxObjects

\* It fails, and its result is an index far behind the table: the runner dies
\* of the access.
TableTooLarge ==
  /\ Collects /\ running # {} /\ ~TableFits
  /\ Go(Runner, "killed", 0)
  /\ UNCHANGED <<cfg, test, res, env, output, tasks, open>>

\* waitpid() fails: submit() or wait() returns the error, which ends the loop,
\* and the destructor, which ignores it, lets main() return. The tests in
\* progress are left alone.
WaitFails ==
  /\ Collects /\ running # {} /\ cfg.posix
  /\ IF pc[Runner] = "destroy"
     THEN /\ Exits(Runner) /\ deserted' = TRUE
          /\ UNCHANGED res
     ELSE /\ Go(Runner, "report", 0)
          /\ res' = [res EXCEPT ![Runner] = FALSE]
          /\ UNCHANGED <<buffer, console, deserted>>
  /\ UNCHANGED <<cfg, test, env, file, running, judged, open>>

Collect(t) ==
  /\ Collects /\ TableFits /\ t \in running /\ pc[t] \in {"exited", "killed"}
  /\ buffer' = [buffer EXCEPT ![Runner] = @ \cup {<<"result", t>>}]
  /\ judged' = IF pc[t] = "exited" /\ res[t]
               THEN [judged EXCEPT !.success = @ \cup {t}]
               ELSE [judged EXCEPT !.failed = @ \cup {t}]
  /\ running' = running \ {t}
  /\ UNCHANGED <<cfg, place, env, console, file, deserted, open>>

LoopEnds(p) ==
  /\ pc[p] = "loop" /\ test[p] > Tests
  /\ Go(p, "wait", 0)
  /\ UNCHANGED <<cfg, test, res, env, output, tasks, open>>

-----------------------------------------------------------------------------
(* launch_test() in any process *)

Before(p) ==
  /\ pc[p] = "before"
  /\ IF n[p] <= Inits
     THEN Call(p, "before", n[p]) /\ Go(p, "before", n[p] + 1)
     ELSE Go(p, "body", 0) /\ UNCHANGED open
  /\ UNCHANGED <<cfg, test, res, env, output, tasks>>

\* The body returns, with res telling of kill_timeout(), it calls exit() with
\* an error, or it crashes: then nothing is flushed.
Body(p) ==
  /\ pc[p] = "body"
  /\ \/ /\ res' = [res EXCEPT ![p] = TRUE]
        /\ Go(p, IF cfg.mode = "ptest" THEN "measured" ELSE "after", Inits)
        /\ UNCHANGED output
     \/ /\ cfg.mode = "utest"
        /\ res' = [res EXCEPT ![p] = FALSE]
        /\ Go(p, "after", Inits)
        /\ UNCHANGED output
     \/ /\ res' = [res EXCEPT ![p] = FALSE]
        /\ Exits(p) /\ UNCHANGED file
     \/ Go(p, "killed", 0) /\ UNCHANGED <<res, output>>
  /\ UNCHANGED <<cfg, test, env, tasks, open>>

\* launch(PerfTest): the statistics are printed and appended to the file.
Measured(p) ==
  /\ pc[p] = "measured"
  /\ buffer' = [buffer EXCEPT ![p] = @ \cup {<<"measured", test[p]>>}]
  /\ file' = IF cfg.outfile = "writable"
             THEN Append(file, <<"measured", test[p]>>) ELSE file
  /\ Go(p, "after", Inits)
  /\ UNCHANGED <<cfg, test, res, env, console, tasks, open>>

\* Slip: in direct order.
After_Direct(p) ==
  /\ pc[p] = "after" /\ n[p] > 0
  /\ Call(p, "after", Inits + 1 - n[p]) /\ Go(p, "after", n[p] - 1)
  /\ UNCHANGED <<cfg, test, res, env, output, tasks>>

After(p) ==
  /\ pc[p] = "after" /\ n[p] > 0
  /\ Call(p, "after", n[p]) /\ Go(p, "after", n[p] - 1)
  /\ UNCHANGED <<cfg, test, res, env, output, tasks>>

\* submit() returns: a child leaves the loop, the runner too unless the test
\* succeeded.
Launched(p) ==
  /\ pc[p] = "after" /\ n[p] = 0
  /\ judged' = IF IsChild(p) THEN judged
               ELSE IF res[p] THEN [judged EXCEPT !.success = @ \cup {test[p]}]
               ELSE [judged EXCEPT !.failed = @ \cup {test[p]}]
  /\ IF IsChild(p) \/ ~res[p]
     THEN Go(p, IF res[p] THEN "wait" ELSE "report", 0) /\ UNCHANGED test
     ELSE Go(p, "loop", 0) /\ test' = [test EXCEPT ![p] = @ + 1]
  /\ UNCHANGED <<cfg, res, env, output, running, deserted, open>>

-----------------------------------------------------------------------------
(* End *)

\* wait() returns without an error: at once in a child.
Waited(p) ==
  /\ pc[p] = "wait" /\ (IsChild(p) \/ running = {})
  /\ Go(p, "report", 0)
  /\ UNCHANGED <<cfg, test, res, env, output, tasks, open>>

\* output_stats(), by the runner only
Report(p) ==
  /\ pc[p] = "report"
  /\ buffer' = IF IsChild(p) THEN buffer
               ELSE [buffer EXCEPT ![p] = @ \cup {<<"statistics", 0>>}]
  /\ Go(p, "finalize", Inits)
  /\ UNCHANGED <<cfg, test, res, env, console, file, tasks, open>>

\* finalize_global(), then the buffers are flushed
Finalize(p) ==
  /\ pc[p] = "finalize"
  /\ IF n[p] > 0
     THEN /\ Call(p, "finalize", n[p]) /\ Go(p, "finalize", n[p] - 1)
          /\ UNCHANGED <<buffer, console>>
     ELSE /\ Go(p, "destroy", 0)
          /\ console' = Written(buffer[p])
          /\ buffer' = [buffer EXCEPT ![p] = {}]
          /\ UNCHANGED open
  /\ UNCHANGED <<cfg, test, res, env, file, tasks>>

\* Slip: the destructor does not wait.
Destroyed_AtOnce(p) ==
  /\ pc[p] = "destroy"
  /\ Exits(p)
  /\ UNCHANGED <<cfg, test, res, env, file, tasks, open>>

\* ~TestExecutor() has waited for what was left, in the runner only, and main()
\* returns.
Destroyed(p) ==
  /\ pc[p] = "destroy" /\ (IsChild(p) \/ running = {})
  /\ Exits(p)
  /\ UNCHANGED <<cfg, test, res, env, file, tasks, open>>

Over == pc[Runner] \in {"exited", "killed"} /\ UNCHANGED vars

Next ==
  \/ MkDirs \/ SystemInfo
  \/ Submit \/ SubmitFails \/ TableTooLarge \/ WaitFails \/ (\E t \in 1..Tests : Collect(t))
  \/ \E p \in Procs :
       \/ RegistryFails(p) \/ Initialize(p) \/ ListTests(p) \/ CreateOutfile(p)
       \/ SkipTest(p) \/ SubmitHere(p) \/ LoopEnds(p)
       \/ Before(p) \/ Body(p) \/ Measured(p) \/ After(p) \/ Launched(p)
       \/ Waited(p) \/ Report(p) \/ Finalize(p) \/ Destroyed(p)
  \/ Over

Spec == Init /\ [][Next]_vars

-----------------------------------------------------------------------------
(* Properties *)

All(hook) == [i \in 1..Inits |-> <<hook, i>>]

\* In every process, a forked one with the memory of its runner and a nested
\* one of its own, hooks close in the reverse order of their opening, a test
\* runs between all the before and all the after hooks of initialized
\* initializers, and main() returns with nothing left open. A process that
\* ends earlier leaves open all of them or none: by an early return, before any
\* test, the initialized ones; by exit() from the body the others, too.
HooksNest ==
  \A p \in Procs :
    /\ \A k \in DOMAIN open[p] : open[p][k][1] \in {"initialize", "before"}
    /\ pc[p] \in {"body", "measured"} =>
         open[p] = All("initialize") \o All("before")
    /\ pc[p] = "destroy" => open[p] = <<>>
    /\ pc[p] = "exited" =>
         open[p] \in {<<>>, All("initialize"),
                      All("initialize") \o All("before")}

\* The output file, that the runner creates and the processes of the tests
\* append to, holds nothing older than the run, the information of the
\* initializers once, then the statistics of the performance tests in their
\* order, once each, those of every test reported as a success among them.
FileTellsMeasured ==
  cfg.outfile = "writable"
    /\ pc[Runner] \in {"loop", "before", "body", "measured", "after", "wait",
                       "report", "finalize", "destroy"} =>
    /\ Len(file) >= Inits /\ \A k \in 1..Inits : file[k] = <<"info", k>>
    /\ \A k \in (Inits + 1)..Len(file) :
         /\ file[k][1] = "measured"
         /\ \A m \in (Inits + 1)..(k - 1) : file[m][2] < file[k][2]
    /\ cfg.mode = "ptest" =>
         judged.success \subseteq {file[k][2] : k \in (Inits + 1)..Len(file)}

\* No line of the runner is written twice, through however many processes
\* inherit its buffer, and at its end the lines of every judged test and the
\* statistics have been written.
PrintedOnce ==
  /\ \A l \in Lines : console[l] <= 1
  /\ cfg.fork /\ pc[Runner] = "exited" =>
       \A t \in judged.success \cup judged.failed :
         /\ console[<<"launching", t>>] = 1 /\ console[<<"result", t>>] = 1
         /\ console[<<"statistics", 0>>] = 1

\* As long as every call succeeds the finalizers of the runner do not run while
\* a test is in progress, and no test outlives the runner. A failed submission,
\* or a failed waitpid() in submit() or wait(), lets the finalizers run earlier;
\* the tests still end before the runner exits, unless waitpid() fails in the
\* destructor, too.
TestsEndBefore ==
  (\/ pc[Runner] \in {"finalize", "destroy", "exited"} /\ res[Runner]
   \/ pc[Runner] = "exited" /\ ~deserted)
    => \A t \in 1..Tests : pc[t] \in {"absent", "exited", "killed"}

\* With fork, nothing a test does kills the runner, and on Windows the wait for
\* a full table does not either, as long as the table has no more places than
\* processes can be waited for.
RunnerOutlivesTests ==
  cfg.fork /\ (cfg.posix \/ Places <= MaxObjects) => pc[Runner] # "killed"

\* The comment "Restore configuration" in create_outfile(): whatever hook is
\* called after it, the initializer works with the configuration.
HooksSeeConfiguration ==
  \A p \in Procs :
    pc[p] \in {"before", "after", "finalize"} /\ n[p] \in 1..Inits =>
      env[p][n[p]] = [verbose |-> cfg.verbose, out |-> "stdout"]
=============================================================================
