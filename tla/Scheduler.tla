----------------------------- MODULE Scheduler ------------------------------
(***************************************************************************)
(* Scheduled tasks (server/scheduler.js and the /api/tasks routes of       *)
(* server/index.js).                                                       *)
(*                                                                         *)
(* Time is counted in units of which a minute has Minute; a cron           *)
(* expression is the set of the minutes of a period it matches.  A scan    *)
(* reads the due rows once and then visits them; a run ends by writing the *)
(* next run of the cron expression the scan had read.                      *)
(***************************************************************************)
EXTENDS Integers, FiniteSets, FiniteSetsExt

CONSTANTS
  Task, Ticker, Slot,
  Unset,
  Birth,       \* when the process starts
  Minute,      \* units in a minute
  Period,      \* minutes after which a cron expression repeats
  Cron,        \* the cron expressions tasks are given
  MaxRunning,  \* 2 in the code
  MaxTime,     \* bound: the clock
  MaxCalls,    \* bound: API calls
  MaxFaults    \* bound: process crashes, and scans or runs whose statement throws

Seen == [task: Task, cron: Cron]   \* what a scan has read of a task

ASSUME SchedulerAssumption ==
  /\ Minute \in Nat \ {0} /\ Period \in Nat \ {0}
  /\ \A c \in Cron : c \subseteq 0..(Period - 1)
  /\ MaxRunning \in Nat /\ MaxTime \in Nat /\ MaxCalls \in Nat /\ MaxFaults \in Nat
  /\ Unset \notin Task \cup Int \cup Seen
  /\ Slot \subseteq Nat /\ IsFiniteSet(Slot)
  /\ Birth \in Nat /\ Birth + Minute <= MaxTime
  /\ \A k, l \in Ticker : k = l    \* scans do not overlap

VARIABLES
  row,      \* the scheduled_tasks row of each task
  tick,     \* the scans
  run,      \* executions in progress
  schedulerRunning, inFlight,
  now,
  lastPoint,  \* history: the schedule point each task last ran for
  calls, faults

schedVars == <<row, tick, run, schedulerRunning, inFlight, now, lastPoint, calls, faults>>

Time == Nat
\* half: a PATCH has written cron and has yet to write next_run.
Row == [exists: BOOLEAN, enabled: BOOLEAN, cron: Cron, next_run: Time \cup {Unset},
        half: BOOLEAN]
TickRec == [pc: {"idle", "fill", "loop", "push"}, rows: SUBSET Seen,
            cur: Seen \cup {Unset}, last: Time, next: Time]
RunRec == [pc: {"free", "agent", "write", "exit"}, task: Task \cup {Unset},
           cron: Cron \cup {Unset}, manual: BOOLEAN, next: Time \cup {Unset}]
Free == [pc |-> "free", task |-> Unset, cron |-> Unset, manual |-> FALSE, next |-> Unset]

-----------------------------------------------------------------------------
(* Cron arithmetic.                                                        *)

Matches(c, m) == m % Period \in c

\* From the present minute on, minute by minute, keeping the seconds of from.
cronToNext(c, from) ==
  LET hits == {i \in 0..(Period - 1) : Matches(c, from \div Minute + i)}
  IN  IF hits = {} THEN Unset ELSE from + Minute * Min(hits)

Latest(s, t) == IF s > t THEN s ELSE t

\* Mutant: the next match of the expression, which may be the present minute.
Advance_ToNextMatch(c, t) ==
  IF cronToNext(c, t) = Unset THEN t + Minute ELSE cronToNext(c, t)

\* What next_run is pushed to before a run: past the present schedule point.
Advance(c, t) ==
  LET first  == cronToNext(c, t)
      anchor == IF first = Unset THEN t + Minute ELSE Latest(first, t + Minute)
      after  == cronToNext(c, anchor + Minute)
  IN  IF after # Unset THEN Latest(after, anchor) ELSE anchor

\* The schedule point a run started at time t is for.
Point(c, t) ==
  LET past == {m \in (t \div Minute - Period)..(t \div Minute) : Matches(c, m)}
  IN  IF past = {} THEN Unset ELSE Max(past)
-----------------------------------------------------------------------------

Enabled(t) == row[t].exists /\ row[t].enabled
Due(t) == Enabled(t) /\ row[t].next_run # Unset /\ row[t].next_run <= now
Executing == {x \in Slot : run[x].pc # "free"}
Scheduled == {x \in Executing : ~run[x].manual}

SchedTypeOK ==
  /\ row \in [Task -> Row]
  /\ tick \in [Ticker -> TickRec]
  /\ run \in [Slot -> RunRec]
  /\ schedulerRunning \in 0..Cardinality(Slot)
  /\ inFlight \subseteq Task
  /\ now \in 0..MaxTime
  /\ lastPoint \in [Task -> Int \cup {Unset}]
  /\ calls \in 0..MaxCalls /\ faults \in 0..MaxFaults

\* The tasks have been created, each with its first next_run.
SchedInit ==
  /\ \E cron \in [Task -> Cron \ {{}}] :
       row = [t \in Task |-> [exists |-> TRUE, enabled |-> TRUE, cron |-> cron[t],
                              next_run |-> cronToNext(cron[t], 0), half |-> FALSE]]
  /\ tick = [k \in Ticker |-> [pc |-> "idle", rows |-> {}, cur |-> Unset, last |-> Birth, next |-> 0]]
  /\ run = [x \in Slot |-> Free]
  /\ schedulerRunning = 0 /\ inFlight = {}
  /\ now = Birth + Minute
  /\ lastPoint = [t \in Task |-> Unset]
  /\ calls = 0 /\ faults = 0

SetNext(t, next) ==
  row' = IF row[t].exists THEN [row EXCEPT ![t].next_run = next] ELSE row

-----------------------------------------------------------------------------
(* runSchedulerTick.                                                       *)

\* The interval fires a minute after the last scan began.  It counts, and
\* computeNextRuns reads the rows that lack a next_run.
TickStart(k) ==
  /\ tick[k].pc = "idle"
  /\ now >= tick[k].last + Minute \/ now = MaxTime
  /\ tick' = [tick EXCEPT ![k].pc = "fill", ![k].last = now,
                ![k].rows = {[task |-> t, cron |-> row[t].cron] :
                               t \in {u \in Task : Enabled(u) /\ row[u].next_run = Unset}}]
  /\ UNCHANGED <<row, run, schedulerRunning, inFlight, now, lastPoint, calls, faults>>

\* computeNextRuns: the rows one by one.
TickFill(k) ==
  /\ tick[k].pc = "fill"
  /\ \E s \in tick[k].rows :
       /\ tick' = [tick EXCEPT ![k].rows = @ \ {s}]
       /\ IF cronToNext(s.cron, now) = Unset THEN UNCHANGED row
          ELSE SetNext(s.task, cronToNext(s.cron, now))
  /\ UNCHANGED <<run, schedulerRunning, inFlight, now, lastPoint, calls, faults>>

TickSelect(k) ==
  /\ tick[k].pc = "fill" /\ tick[k].rows = {}
  /\ tick' = [tick EXCEPT ![k].pc = "loop",
                ![k].rows = {[task |-> t, cron |-> row[t].cron] :
                               t \in {u \in Task : Due(u)}}]
  /\ UNCHANGED <<row, run, schedulerRunning, inFlight, now, lastPoint, calls, faults>>

\* Mutant: a task still in flight is taken again.
Skips_Never(t) == FALSE
Skips(t) == t \in inFlight

\* Mutant: the number of runs in progress is not looked at.
AtLimit_Never == FALSE
AtLimit == schedulerRunning >= MaxRunning

\* The next row of the snapshot, in whatever order the query returned it: the
\* push of its next_run is on its way.
TickTake(k) ==
  /\ tick[k].pc = "loop" /\ ~AtLimit
  /\ \E s \in tick[k].rows :
       /\ tick' = [tick EXCEPT ![k].rows = @ \ {s},
                     ![k].pc   = IF Skips(s.task) THEN "loop" ELSE "push",
                     ![k].cur  = IF Skips(s.task) THEN Unset ELSE s,
                     ![k].next = IF Skips(s.task) THEN 0 ELSE Advance(s.cron, now)]
  /\ UNCHANGED <<row, run, schedulerRunning, inFlight, now, lastPoint, calls, faults>>

\* The number of an execution is only a name: the lowest free one is given.
Starts(s, manual) ==
  /\ Executing # Slot
  /\ run' = [run EXCEPT ![Min(Slot \ Executing)] =
                          [pc |-> "agent", task |-> s.task, cron |-> s.cron,
                             manual |-> manual, next |-> Unset]]

\* next_run is pushed; count, in-flight set and execution follow at once.
TickPush(k) ==
  /\ tick[k].pc = "push"
  /\ SetNext(tick[k].cur.task, tick[k].next)
  /\ schedulerRunning' = schedulerRunning + 1
  /\ inFlight' = inFlight \cup {tick[k].cur.task}
  /\ Starts(tick[k].cur, FALSE)
  /\ lastPoint' = [lastPoint EXCEPT ![tick[k].cur.task] = Point(tick[k].cur.cron, now)]
  /\ tick' = [tick EXCEPT ![k].pc = "loop", ![k].cur = Unset, ![k].next = 0]
  /\ UNCHANGED <<now, calls, faults>>

TickEnd(k) ==
  /\ tick[k].pc = "loop"
  /\ tick[k].rows = {} \/ AtLimit
  /\ tick' = [tick EXCEPT ![k].pc = "idle", ![k].rows = {}]
  /\ UNCHANGED <<row, run, schedulerRunning, inFlight, now, lastPoint, calls, faults>>

Fault == faults < MaxFaults /\ faults' = faults + 1

\* A statement of the scan throws: the scan is over.
TickThrows(k) ==
  /\ tick[k].pc # "idle"
  /\ Fault
  /\ tick' = [tick EXCEPT ![k].pc = "idle", ![k].rows = {}, ![k].cur = Unset, ![k].next = 0]
  /\ UNCHANGED <<row, run, schedulerRunning, inFlight, now, lastPoint, calls>>

-----------------------------------------------------------------------------
(* executeScheduledTask.                                                   *)

\* The execution has its result or its error; the next run is computed now,
\* from the cron expression it was started with.
RunEnds(x) ==
  /\ run[x].pc = "agent"
  /\ run' = [run EXCEPT ![x].pc = "write", ![x].next = cronToNext(run[x].cron, now)]
  /\ UNCHANGED <<row, tick, schedulerRunning, inFlight, now, lastPoint, calls, faults>>

\* A manual run leaves next_run alone.
RunWrites(x) ==
  /\ run[x].pc = "write"
  /\ IF run[x].manual THEN UNCHANGED row ELSE SetNext(run[x].task, run[x].next)
  /\ run' = [run EXCEPT ![x].pc = "exit"]
  /\ UNCHANGED <<tick, schedulerRunning, inFlight, now, lastPoint, calls, faults>>

RunThrows(x) ==
  /\ run[x].pc = "write"
  /\ Fault
  /\ run' = [run EXCEPT ![x].pc = "exit"]
  /\ UNCHANGED <<row, tick, schedulerRunning, inFlight, now, lastPoint, calls>>

\* Mutant: no finally; a run is never counted out.
RunExits_NoFinally(x) ==
  /\ run[x].pc = "exit"
  /\ run' = [run EXCEPT ![x] = Free]
  /\ UNCHANGED <<row, tick, schedulerRunning, inFlight, now, lastPoint, calls, faults>>

\* Mutant: only a run that returned is counted out.
RunExits_OnlyWritten(x) ==
  /\ run[x].pc = "exit"
  /\ run' = [run EXCEPT ![x] = Free]
  /\ IF run[x].manual \/ row[run[x].task].next_run # run[x].next
     THEN UNCHANGED <<schedulerRunning, inFlight>>
     ELSE /\ schedulerRunning' = schedulerRunning - 1
          /\ inFlight' = inFlight \ {run[x].task}
  /\ UNCHANGED <<row, tick, now, lastPoint, calls, faults>>

\* Mutant: a run is counted out by its catch and by its finally.
RunExits_Twice(x) ==
  /\ run[x].pc = "exit"
  /\ run' = [run EXCEPT ![x] = Free]
  /\ IF run[x].manual
     THEN UNCHANGED <<schedulerRunning, inFlight>>
     ELSE /\ schedulerRunning' = schedulerRunning - 2
          /\ inFlight' = inFlight \ {run[x].task}
  /\ UNCHANGED <<row, tick, now, lastPoint, calls, faults>>

\* The finally of a scheduled run.
RunExits(x) ==
  /\ run[x].pc = "exit"
  /\ run' = [run EXCEPT ![x] = Free]
  /\ IF run[x].manual
     THEN UNCHANGED <<schedulerRunning, inFlight>>
     ELSE /\ schedulerRunning' = IF schedulerRunning > 0 THEN schedulerRunning - 1 ELSE 0
          /\ inFlight' = inFlight \ {run[x].task}
  /\ UNCHANGED <<row, tick, now, lastPoint, calls, faults>>

-----------------------------------------------------------------------------
(* The task routes, the clock, the process.                                *)

ApiCall(t) == row[t].exists /\ calls < MaxCalls /\ calls' = calls + 1

RunOnce(t) ==
  /\ ApiCall(t)
  /\ Starts([task |-> t, cron |-> row[t].cron], TRUE)
  /\ UNCHANGED <<row, tick, schedulerRunning, inFlight, now, lastPoint, faults>>

\* Enabling a task has the next scan compute its next_run.
PatchEnabled(t, on) ==
  /\ ApiCall(t)
  /\ row' = [row EXCEPT ![t].enabled = on, ![t].next_run = IF on THEN Unset ELSE @]
  /\ UNCHANGED <<tick, run, schedulerRunning, inFlight, now, lastPoint, faults>>

PatchCron(t, c) ==
  /\ ApiCall(t)
  /\ row' = [row EXCEPT ![t].cron = c, ![t].half = TRUE]
  /\ UNCHANGED <<tick, run, schedulerRunning, inFlight, now, lastPoint, faults>>

PatchCronNext(t) ==
  /\ row[t].half
  /\ row' = [row EXCEPT ![t].half = FALSE,
                ![t].next_run = IF row[t].exists THEN cronToNext(row[t].cron, now) ELSE @]
  /\ UNCHANGED <<tick, run, schedulerRunning, inFlight, now, lastPoint, calls, faults>>

DeleteTask(t) ==
  /\ ApiCall(t)
  /\ row' = [row EXCEPT ![t].exists = FALSE]
  /\ UNCHANGED <<tick, run, schedulerRunning, inFlight, now, lastPoint, faults>>

\* Assumed: the few statements of a scan take less than a unit of the clock.
Tock ==
  /\ now < MaxTime
  /\ \A k \in Ticker : tick[k].pc = "idle"
  /\ now' = now + 1
  /\ UNCHANGED <<row, tick, run, schedulerRunning, inFlight, lastPoint, calls, faults>>

\* Scans, runs and their counts are memory.
SchedCrash ==
  /\ Fault
  /\ tick' = [k \in Ticker |-> [pc |-> "idle", rows |-> {}, cur |-> Unset,
                                last |-> now, next |-> 0]]
  /\ run' = [x \in Slot |-> Free]
  /\ schedulerRunning' = 0 /\ inFlight' = {}
  /\ row' = [t \in Task |-> [row[t] EXCEPT !.half = FALSE]]
  /\ UNCHANGED <<now, lastPoint, calls>>

-----------------------------------------------------------------------------

TickNext(k) == TickStart(k) \/ TickFill(k) \/ TickSelect(k) \/ TickTake(k)
               \/ TickPush(k) \/ TickEnd(k)
RunNext(x) == RunEnds(x) \/ RunWrites(x) \/ RunExits(x)

UserNext(t) ==
  \/ RunOnce(t) \/ DeleteTask(t)
  \/ \E on \in BOOLEAN : PatchEnabled(t, on)
  \/ \E c \in Cron : PatchCron(t, c)
  \/ PatchCronNext(t)

SchedNext ==
  \/ \E k \in Ticker : TickNext(k) \/ TickThrows(k)
  \/ \E x \in Slot : RunNext(x) \/ RunThrows(x)
  \/ \E t \in Task : UserNext(t)
  \/ Tock \/ SchedCrash

SchedSpec == SchedInit /\ [][SchedNext]_schedVars
-----------------------------------------------------------------------------
(* Properties.                                                             *)

\* A task is not run again by the schedule while its scheduled run goes on,
\* however long that takes, through edits and through the stale snapshot.
OneScheduledRun ==
  \A x, y \in Scheduled : run[x].task = run[y].task => x = y

\* The schedule never has more than MaxRunning runs in progress.
ConcurrencyLimit == Cardinality(Scheduled) <= MaxRunning

\* The count and the in-flight set are those of the runs in progress, through
\* every way a run ends: a leftover would take a place, or the task, for ever.
CountersExact ==
  /\ schedulerRunning = Cardinality(Scheduled)
  /\ inFlight = {run[x].task : x \in Scheduled}

\* The push is past the point the run is for: a run is never due again for
\* that point while it is in progress, unless the task is edited.
PushedPastPoint ==
  \A x \in Scheduled :
    run[x].pc = "agent" /\ calls = 0
      => LET next == row[run[x].task].next_run
         IN  next # Unset /\ next \div Minute > lastPoint[run[x].task]

\* What a scan and its runs keep of each other: the parts above, and the types.
SchedulerSafe == SchedTypeOK /\ OneScheduledRun /\ CountersExact /\ PushedPastPoint

\* A due task is executed, unless it is edited: not only one that a scan found,
\* also one that a scan left when it met the limit, threw or was cut by a crash.
DueStarts ==
  \A t \in Task : Due(t) ~> ((\E x \in Executing : run[x].task = t) \/ calls > 0)

\* scheduler.js:199: one schedule point, one run.
OncePerPoint ==
  [][\A t \in Task :
       (t \in inFlight' /\ t \notin inFlight) => lastPoint'[t] # lastPoint[t]]_schedVars
=============================================================================
