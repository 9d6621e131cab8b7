----------------------------- MODULE PerfStats -----------------------------
(***************************************************************************)
(* The statistics of a performance test (src/src/main/ptest.cpp): its body *)
(* measures the functions that are supported, gather_stats() keeps an      *)
(* entry for each measurement and for each separator, a separator rates    *)
(* the group of entries before it, and launch() of executor.cpp prints the *)
(* table and frees the entries. Every allocation may fail.                 *)
(***************************************************************************)
EXTENDS DynArray, FiniteSets, SequencesExt

CONSTANTS
  Function,     \* the functions that may be measured
  Costs,        \* time / iterations of a measurement
  MaxCalls,     \* bound: calls of gather_stats()
  MaxMarks,     \* bound: calls of TEST_EXPORT()
  MaxFailures   \* bound: allocations that fail

ASSUME StatsAssumption ==
  /\ Costs \subseteq Nat \ {0} /\ Null \notin Function
  /\ MaxCalls \in Nat /\ MaxMarks \in Nat /\ MaxFailures \in Nat

NoRate == [top |-> 0, cost |-> 0]      \* rel is NULL
Separators == {1, 2}                   \* PTEST_SEPARATOR, PTEST_SEPARATOR2

VARIABLES
  phase,        \* "execute", "print", "free", "exit" or "ended"
  stats,        \* __test_stats
  entry,        \* the entries in memory: key, cost and rel
  support,      \* Test::support
  table,        \* the lines of the table that was printed
  log,          \* history: the calls that were kept, as [key, cost]
  marked,       \* history: the functions whose mark was kept
  cut,          \* history: has the rating of a group been cut short?
  calls, marks, failures   \* how much of the bounds is spent

memory == <<stats, entry>>
statsBounds == <<calls, marks, failures>>
statsHistory == <<log, marked, cut>>
statsVars == <<phase, memory, support, table, statsHistory, statsBounds>>

StatsInit ==
  /\ phase = "execute"
  /\ stats = Empty /\ entry = [a \in {} |-> Null]
  /\ support = Empty
  /\ table = <<>>
  /\ log = <<>> /\ marked = {} /\ cut = FALSE
  /\ calls = 0 /\ marks = 0 /\ failures = 0

Fails == failures < MaxFailures /\ failures' = failures + 1

Called == phase = "execute" /\ calls < MaxCalls /\ calls' = calls + 1

-----------------------------------------------------------------------------
(* TEST_EXPORT(), PTEST_SUPPORTED() *)

Mark(f) ==
  /\ phase = "execute" /\ marks < MaxMarks /\ marks' = marks + 1
  /\ support' = Marked(support, f)
  /\ marked' = marked \cup {f}
  /\ UNCHANGED <<phase, memory, table, log, cut, calls, failures>>

\* realloc() fails; nobody is told.
MarkFails(f) ==
  /\ phase = "execute" /\ marks < MaxMarks /\ marks' = marks + 1
  /\ IsFull(support) /\ Fails
  /\ UNCHANGED <<phase, memory, support, table, statsHistory, calls>>

-----------------------------------------------------------------------------
(* gather_stats() *)

\* alloc_stats() or add() fails: there is no entry. A test calls it for a
\* function that is supported, or for a separator.
GatherFails ==
  /\ Called /\ Fails
  /\ UNCHANGED <<phase, memory, support, table, statsHistory, marks>>

\* Where malloc() puts an entry: pointers are only compared, so that the lowest
\* address that is free stands for every other.
Fresh == Min(1..(Cardinality(DOMAIN entry) + 1) \ DOMAIN entry)

\* A measurement: PTEST_LOOP()
Gather(f, cost) ==
  /\ Called /\ Holds(support, f)
  /\ stats' = Added(stats, Fresh)
  /\ entry' = [a \in DOMAIN entry \cup {Fresh} |->
       IF a = Fresh THEN [key |-> f, cost |-> cost, rel |-> NoRate] ELSE entry[a]]
  /\ log' = Append(log, [key |-> f, cost |-> cost])
  /\ UNCHANGED <<phase, support, table, marked, cut, marks, failures>>

\* One of the texts of the new entry is not allocated: the entry is freed, and
\* the pointer to it taken off the list.
GatherCutShort(f) ==
  /\ Called /\ Fails /\ Holds(support, f)
  /\ stats' = Removed(Added(stats, Fresh), Fresh)
  /\ UNCHANGED <<phase, entry, support, table, statsHistory, marks>>

At(i) == entry[stats.data[i]]

\* Slip: whether the entry has a rate is not looked at.
Unrated_AnyRate(i) == At(i).key # Null

\* An entry that waits to be rated: separators have no key.
Unrated(i) == At(i).rel = NoRate /\ At(i).key # Null

\* Slip: the index of the first starts at zero.
Group_FromZero ==
  LET first == {i \in 0..(stats.size - 1) : Unrated(i)} IN
  IF first = {} THEN 0..(stats.size - 1) ELSE Min(first)..(stats.size - 1)

\* The entries from the first one that waits up to the new separator; none if
\* none waits, as the index of the first is then the greatest of all.
Group ==
  LET first == {i \in 0..(stats.size - 1) : Unrated(i)} IN
  IF first = {} THEN {} ELSE Min(first)..(stats.size - 1)

\* A separator: the entries of the group are rated against the highest cost,
\* in their order, until memory runs out.
Separate(style) ==
  /\ Called
  /\ LET top == Max({At(i).cost : i \in Group} \cup {0})
         rated(n) == {stats.data[i] : i \in {j \in Group : j < n}}
     IN
     \E n \in Group \cup {stats.size} :
       /\ stats' = Added(stats, Fresh)
       /\ entry' = [a \in DOMAIN entry \cup {Fresh} |->
            CASE a = Fresh -> [key |-> Null, cost |-> style, rel |-> NoRate]
              [] a \in rated(n) ->
                   [entry[a] EXCEPT !.rel = [top |-> top, cost |-> entry[a].cost]]
              [] OTHER -> entry[a]]
       /\ IF n = stats.size THEN UNCHANGED <<cut, failures>>
                            ELSE Fails /\ cut' = TRUE
  /\ log' = Append(log, [key |-> Null, cost |-> style])
  /\ UNCHANGED <<phase, support, table, marked, marks>>

-----------------------------------------------------------------------------
(* launch(PerfTest) after execute() *)

BodyReturns ==
  /\ phase = "execute" /\ phase' = "print"
  /\ UNCHANGED <<memory, support, table, statsHistory, statsBounds>>

\* The body calls exit(): the destructor of the test runs.
BodyExits ==
  /\ phase = "execute" /\ phase' = "exit"
  /\ UNCHANGED <<memory, support, table, statsHistory, statsBounds>>

\* Slip: the mark of a separator is not taken back.
Line_NoReset(s, e) ==
  IF e.key = Null THEN [s EXCEPT !.separator = e.cost]
  ELSE [s EXCEPT !.lines = @
          \o (IF s.separator \in Separators
              THEN <<[key |-> Null, cost |-> s.separator]>> ELSE <<>>)
          \o <<[key |-> e.key, cost |-> e.cost]>>]

\* dump_stats(): an entry is a line, with the line of the last separator before
\* it unless another entry is in between.
Line(s, e) ==
  IF e.key = Null THEN [s EXCEPT !.separator = e.cost]
  ELSE [separator |-> 0,
        lines |-> s.lines
          \o (IF s.separator \in Separators
              THEN <<[key |-> Null, cost |-> s.separator]>> ELSE <<>>)
          \o <<[key |-> e.key, cost |-> e.cost]>>]

\* What was printed, and the mark of a separator, after n entries
Dumped[n \in 0..stats.size] ==
  IF n = 0 THEN [separator |-> 0, lines |-> <<>>] ELSE Line(Dumped[n - 1], At(n - 1))

DumpStats ==
  /\ phase = "print" /\ phase' = "free"
  /\ table' = Dumped[stats.size].lines
  /\ UNCHANGED <<memory, support, statsHistory, statsBounds>>

\* destroy_stats()
DestroyStats(S) == entry' = [a \in DOMAIN entry \ S |-> entry[a]]

\* free_stats(): by launch(), and again by the destructor.
FreeStats ==
  /\ DestroyStats({stats.data[i] : i \in 0..(stats.size - 1)})
  /\ stats' = Empty

Free ==
  /\ \/ phase = "free" /\ phase' = "exit"
     \/ phase = "exit" /\ phase' = "ended"
  /\ FreeStats
  /\ log' = <<>>
  /\ UNCHANGED <<support, table, marked, cut, statsBounds>>

StatsEnded == phase = "ended" /\ UNCHANGED statsVars

StatsNext ==
  \/ \E f \in Function :
       \/ Mark(f) \/ MarkFails(f) \/ GatherCutShort(f)
       \/ \E cost \in Costs : Gather(f, cost)
  \/ GatherFails
  \/ \E style \in Separators : Separate(style)
  \/ BodyReturns \/ BodyExits \/ DumpStats \/ Free
  \/ StatsEnded

StatsSpec == StatsInit /\ [][StatsNext]_statsVars

-----------------------------------------------------------------------------
(* Properties *)

\* The list holds the entries in memory, each once: none is lost, none is
\* freed twice, through failed allocations, the removal of an entry that was
\* not completed, and the two calls of free_stats().
EntriesOwned ==
  /\ stats.size <= stats.capacity
  /\ DOMAIN entry = {stats.data[i] : i \in 0..(stats.size - 1)}
  /\ \A i, j \in 0..(stats.size - 1) : stats.data[i] = stats.data[j] => i = j

\* The entries of the group that the i-th call of the log belongs to
GroupOf(i) ==
  {j \in DOMAIN log : log[j].key # Null
     /\ \A k \in DOMAIN log : k > Min({i, j}) /\ k < Max({i, j}) => log[k].key # Null}

\* An entry is rated as soon as its group is closed, against the highest cost
\* between the two separators around it, never against those of another group
\* or the mark of a separator; unless the rating of a group was cut short.
RatedInGroup ==
  ~cut => \A i \in DOMAIN log :
    At(i - 1).rel =
      IF log[i].key # Null /\ \E k \in DOMAIN log : k > i /\ log[k].key = Null
      THEN [top |-> Max({log[j].cost : j \in GroupOf(i)}), cost |-> log[i].cost]
      ELSE NoRate

\* An entry is rated once, also after a rating that was cut short: a second
\* one would lose the text of the first.
RatedOnce ==
  [][\A a \in DOMAIN entry : a \in DOMAIN entry' /\ entry[a].rel # NoRate
       => entry'[a].rel = entry[a].rel]_statsVars

\* The table has the measurements in their order, and a line of the right
\* style where a separator stands directly before one, nowhere else.
TableShowsLog ==
  phase = "free" =>
    table = FlattenSeq([i \in DOMAIN log |->
      IF log[i].key = Null THEN <<>>
      ELSE IF i > 1 /\ log[i - 1].key = Null THEN <<log[i - 1], log[i]>>
      ELSE <<log[i]>>])

\* TEST_SUPPORTED() finds the functions whose mark was kept, and no other,
\* through every growth of the list.
SupportKept ==
  /\ support.size <= support.capacity
  /\ {support.data[i] : i \in 0..(support.size - 1)} = marked
=============================================================================
