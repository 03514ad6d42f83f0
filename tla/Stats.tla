-------------------------------- MODULE Stats --------------------------------
(***************************************************************************)
(* The statistics thread (csstats): it sleeps on a condition variable with *)
(* a deadline, walks the whole chain, and publishes what it counted. The   *)
(* destructor sets quit and notifies without the mutex of the wait, and    *)
(* joins. A block is reduced to the time its user field 0 gives, in        *)
(* seconds, which the node that made it wrote there from its own clock,    *)
(* and the counts of a period to the number of its pools. The local clock  *)
(* is finer than a second and does not go back.                            *)
(***************************************************************************)
EXTENDS Integers, Sequences, FiniteSets

CONSTANTS
  Periods,         \* their lengths in seconds (a day, a week, 30 days, 100 years)
  Stamps,          \* times blocks are given
  TicksPerSecond,  \* of the local clock
  AgeRange,        \* values of a Period (2^32 in the code)
  MaxStatsChain,   \* bound: blocks in the chain
  MaxTicks         \* bound: the local clock

(* duration_cast<Seconds>(now - poolTime) cuts towards zero. *)
AgeSec(stamp, now) ==
  LET d == now - stamp * TicksPerSecond
  IN  IF d < 0 THEN -((-d) \div TicksPerSecond) ELSE d \div TicksPerSecond

(* No block is so old or so far ahead that its age, as a Period, has gone  *)
(* once around and is within a period again: with the periods of the code, *)
(* 136 years back and 36 ahead.                                            *)
ASSUME StatsAssumption ==
  /\ Periods \subseteq Nat /\ Stamps \subseteq Int
  /\ TicksPerSecond \in Nat \ {0} /\ AgeRange \in Nat \ {0}
  /\ MaxStatsChain \in Nat /\ MaxTicks \in Nat
  /\ \A s \in Stamps, now \in 0..MaxTicks :
       /\ AgeSec(s, now) < AgeRange
       /\ \A p \in Periods : p <= AgeSec(s, now) + AgeRange

VARIABLES
  times,     \* the chain: for each block its time
  clock,     \* the local clock
  worker,    \* where the thread is
  reading,   \* the block its walk is at
  tipRead,   \* the number of blocks when the walk began
  startTime, \* the time when it began
  stats,     \* the counts of the walk
  quit,      \* read and written without a lock
  owner,     \* the thread that owns the object
  currentStats,
  currentTip, currentStart, currentEnd  \* the walk they are of

walkVars == <<reading, tipRead, startTime, stats>>
publishedVars == <<currentStats, currentTip, currentStart, currentEnd>>
world == <<times, clock>>
statsVars == <<world, worker, walkVars, quit, owner, publishedVars>>

Zero == [p \in Periods |-> 0]

(* The object does not exist yet. *)
StatsInit ==
  /\ times = <<>> /\ clock = 0 /\ quit = FALSE /\ owner = "before"
  /\ worker = "none" /\ reading = 0 /\ tipRead = 0 /\ startTime = 0 /\ stats = Zero
  /\ currentStats = Zero /\ currentTip = 0 /\ currentStart = 0 /\ currentEnd = 0

StatsStart ==
  /\ owner = "before" /\ owner' = "owns"
  /\ worker' = "loop"
  /\ UNCHANGED <<world, walkVars, quit, publishedVars>>

(* A block, stamped behind the local clock or ahead of it. *)
StatsBlock(stamp) ==
  /\ owner # "before" /\ Len(times) < MaxStatsChain
  /\ times' = Append(times, stamp)
  /\ UNCHANGED <<clock, worker, walkVars, quit, owner, publishedVars>>

(* External: time passes. *)
Tick ==
  /\ owner # "before" /\ clock < MaxTicks
  /\ clock' = clock + 1
  /\ UNCHANGED <<times, worker, walkVars, quit, owner, publishedVars>>

(* The cast to Period: what is ahead of the clock is older than anything. *)
AsPeriod(age) == age % AgeRange

(* Mutant: a period includes the age it ends with. *)
MatchClosed(count, age) ==
  [p \in Periods |-> IF AsPeriod(age) <= p THEN count[p] + 1 ELSE count[p]]

(* matchPeriod: every period that is longer than the age. *)
MatchPeriod(count, age) ==
  [p \in Periods |-> IF AsPeriod(age) < p THEN count[p] + 1 ELSE count[p]]

To(pc) == worker' = pc /\ UNCHANGED <<world, walkVars, quit, owner, publishedVars>>

(* while (!quit), the predicate of wait_until, and then the sleep, in which *)
(* alone a notification is heard.                                          *)
Loop == worker = "loop" /\ To(IF quit THEN "done" ELSE "ready")
Ready == worker = "ready" /\ To(IF quit THEN "awake" ELSE "tested")
Sleep == worker = "tested" /\ To("asleep")

(* Mutant: a wait without a deadline. *)
DeadlineNever == FALSE /\ To("awake")

(* The deadline passes, at once the first time; a notification may wake it *)
(* earlier (Notify).                                                       *)
Deadline == worker = "asleep" /\ To("awake")

Awake ==
  /\ worker = "awake"
  /\ IF quit THEN worker' = "loop" /\ UNCHANGED walkVars
     ELSE /\ worker' = "walk"
          /\ reading' = Len(times) /\ tipRead' = Len(times)
          /\ startTime' = clock /\ stats' = Zero
  /\ UNCHANGED <<world, quit, owner, publishedVars>>

(* collectStats, one block at a time; quit cuts it short. *)
Walk ==
  /\ worker = "walk"
  /\ IF reading = 0 \/ quit THEN worker' = "publish" /\ UNCHANGED walkVars
     ELSE /\ reading' = reading - 1
          /\ stats' = MatchPeriod(stats, AgeSec(times[reading], clock))
          /\ UNCHANGED <<worker, tipRead, startTime>>
  /\ UNCHANGED <<world, quit, owner, publishedVars>>

Publish ==
  /\ worker = "publish" /\ worker' = "loop"
  /\ currentStats' = stats /\ currentTip' = tipRead
  /\ currentStart' = startTime /\ currentEnd' = clock
  /\ UNCHANGED <<world, walkVars, quit, owner>>

(* ~csstats: quit, notify, join. *)
Quit ==
  /\ owner = "owns" /\ owner' = "notify" /\ quit' = TRUE
  /\ UNCHANGED <<world, worker, walkVars, publishedVars>>

Notify ==
  /\ owner = "notify" /\ owner' = "join"
  /\ worker' = IF worker = "asleep" THEN "awake" ELSE worker
  /\ UNCHANGED <<world, walkVars, quit, publishedVars>>

Join ==
  /\ owner = "join" /\ worker = "done" /\ owner' = "gone"
  /\ UNCHANGED <<world, worker, walkVars, quit, publishedVars>>

WorkerStep == Loop \/ Ready \/ Sleep \/ Deadline \/ Awake \/ Walk \/ Publish
StatsNext ==
  \/ StatsStart \/ (\E stamp \in Stamps : StatsBlock(stamp)) \/ Tick
  \/ WorkerStep \/ Quit \/ Notify \/ Join

(* Both threads are scheduled, and the deadline comes. Nobody has to make  *)
(* or to destroy the object.                                               *)
StatsFairness == WF_statsVars(WorkerStep) /\ WF_statsVars(Notify) /\ WF_statsVars(Join)
StatsSpec == StatsInit /\ [][StatsNext]_statsVars /\ StatsFairness

-----------------------------------------------------------------------------
(* Of the first n blocks, those younger than p seconds throughout a walk,  *)
(* and those younger at some time of it; a block stamped a second or more  *)
(* ahead has no age yet.                                                   *)
YoungAll(n, from, to, p) ==
  {b \in 1..n : AgeSec(times[b], from) >= 0 /\ AgeSec(times[b], to) < p}
YoungOnce(n, from, to, p) ==
  {b \in 1..n : AgeSec(times[b], to) >= 0 /\ AgeSec(times[b], from) < p}

(* Statistics that are read while the node is up are of a whole chain, the *)
(* one there was when the walk began: a period counts every block that was *)
(* within it from the beginning of the walk to its end, and no block that  *)
(* was not within it at any time, although blocks come and grow older      *)
(* during the walk, their stamps may be ahead of the local clock and in    *)
(* any order, and the walk can be cut short.                               *)
PublishedWhole ==
  ~quit => \A p \in Periods :
    /\ Cardinality(YoungAll(currentTip, currentStart, currentEnd, p)) <= currentStats[p]
    /\ currentStats[p] <= Cardinality(YoungOnce(currentTip, currentStart, currentEnd, p))

(* The destructor returns, although its notification can fall between the  *)
(* thread's last look at quit and its sleep.                               *)
StatsStop == owner = "notify" ~> owner = "gone"
=============================================================================
