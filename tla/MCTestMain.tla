----------------------------- MODULE MCTestMain -----------------------------
(* Small values for the constants of TestMain. *)
EXTENDS TestMain

Configuration(posix, mode, fork, threads, outfile) ==
  [posix |-> posix, mode |-> mode, fork |-> fork, threads |-> threads,
   outfile |-> outfile, sysinfo |-> ~fork, verbose |-> posix,
   list_all |-> FALSE]

\* Both platforms, with and without fork: performance tests with an output
\* file or one that cannot be written, unit tests one or two at a time, or more
\* than Windows can wait for; and a printed list.
MCConfigs ==
  { Configuration(posix, "ptest", fork, 2, outfile) :
      posix, fork \in BOOLEAN, outfile \in {"none", "writable", "unwritable"} }
  \cup { Configuration(posix, "utest", fork, threads, "none") :
           posix, fork \in BOOLEAN, threads \in 1..2 }
  \cup { Configuration(FALSE, "utest", TRUE, 3, "none") }
  \cup { [Configuration(TRUE, "utest", TRUE, 2, "writable") EXCEPT !.list_all = l] :
           l \in BOOLEAN }
=============================================================================
