------------------------------ MODULE EventLog -------------------------------
(***************************************************************************)
(* The ledger of events (server/eventlog.js): frames of a conversation are *)
(* inserted without waiting, so that they may land in any order or not at  *)
(* all; the facts of a contract are put in the ledger first and into       *)
(* contract_events second; old rows are moved to the archive               *)
(* (server/storage/mysql.js archiveBatch).  The projections fold the       *)
(* ledger, and verifyProjection compares them with the tables              *)
(* (server/projection.js).                                                 *)
(***************************************************************************)
EXTENDS Integers, Sequences, FiniteSets, SequencesExt

CONSTANTS
  MaxWork      \* bound on the turns, calls, facts, archivings and faults together

VARIABLES
  ledger,      \* every row ever inserted into events, by id
  hot, cold,   \* the ids in events and in events_archive
  flying,      \* inserts on their way
  facts,       \* persistContractEvent calls: the row's id, 0 before it
  views,       \* contract_events
  batch,       \* the ids an archiving is moving
  runTable,    \* agent_runs: the status of each run
  runOn,       \* the run of the turn in progress, 0 when there is none
  opened,      \* its tool call is on
  toolTable,   \* tool_calls: how many done and failed
  used         \* work so far, and numbers given to frames

logVars == <<ledger, hot, cold, flying, facts, views, batch, runTable, runOn,
             opened, toolTable, used>>

Frame_(type, run, status, no) ==
  [type |-> type, run |-> run, status |-> status, fact |-> 0, no |-> no]
Fact_(n) == [type |-> "fact", run |-> 0, status |-> "none", fact |-> n, no |-> 0]

LogInit ==
  /\ ledger = <<>> /\ hot = {} /\ cold = {} /\ flying = {} /\ facts = <<>>
  /\ views = {} /\ batch = {} /\ runTable = <<>> /\ runOn = 0 /\ opened = FALSE
  /\ toolTable = [done |-> 0, fail |-> 0]
  /\ used = [work |-> 0, no |-> 0, faults |-> 0]

\* persistEvent: the frame is on its way, nobody waits.
Persist(type, run, status) ==
  /\ flying' = flying \cup {Frame_(type, run, status, used.no + 1)}
  /\ UNCHANGED <<ledger, hot, cold, facts, views, batch>>

\* A turn begins: a new run, or the last one that was interrupted or paused.
StartRun ==
  /\ runOn = 0 /\ used.work < MaxWork
  /\ LET revived == runTable # <<>> /\ Last(runTable) = "interrupted"
     IN /\ runTable' = IF revived THEN [runTable EXCEPT ![Len(runTable)] = "running"]
                       ELSE Append(runTable, "running")
        /\ runOn' = Len(runTable')
        /\ Persist("run_start", Len(runTable'), "none")
  /\ used' = [used EXCEPT !.work = @ + 1, !.no = @ + 1]
  /\ UNCHANGED <<opened, toolTable>>
StartTool ==
  /\ runOn # 0 /\ ~opened /\ used.work < MaxWork
  /\ opened' = TRUE /\ Persist("tool_start", 0, "none")
  /\ used' = [used EXCEPT !.work = @ + 1, !.no = @ + 1]
  /\ UNCHANGED <<runTable, runOn, toolTable>>
\* The row of the call is written before the frame goes out.
EndTool(status) ==
  /\ opened /\ opened' = FALSE /\ Persist("tool_done", 0, status)
  /\ toolTable' = [toolTable EXCEPT ![status] = @ + 1]
  /\ used' = [used EXCEPT !.no = @ + 1]
  /\ UNCHANGED <<runTable, runOn>>
\* markRun, then run_end: a run ends completed, or paused or interrupted, and
\* the next turn takes such a run up again.
EndRun(row) ==
  /\ runOn # 0 /\ ~opened
  /\ runTable' = [runTable EXCEPT ![runOn] = row]
  /\ runOn' = 0 /\ Persist("run_end", runOn, "none")
  /\ used' = [used EXCEPT !.no = @ + 1]
  /\ UNCHANGED <<opened, toolTable>>

\* The database takes the rows in the order they come, and gives them ids.
Land(f) ==
  /\ f \in flying /\ flying' = flying \ {f}
  /\ ledger' = Append(ledger, f) /\ hot' = hot \cup {Len(ledger')}
  /\ UNCHANGED <<cold, facts, views, batch, runTable, runOn, opened, toolTable, used>>
LandingFails(f) ==
  /\ f \in flying /\ flying' = flying \ {f}
  /\ used.work < MaxWork /\ used' = [used EXCEPT !.work = @ + 1, !.faults = @ + 1]
  /\ UNCHANGED <<ledger, hot, cold, facts, views, batch, runTable, runOn, opened,
                 toolTable>>

\* persistContractEvent: first the ledger, then the view that names its row.
NewFact ==
  /\ used.work < MaxWork /\ used' = [used EXCEPT !.work = @ + 1]
  /\ facts' = Append(facts, 0)
  /\ UNCHANGED <<ledger, hot, cold, flying, views, batch, runTable, runOn, opened,
                 toolTable>>
FactToLedger(n) ==
  /\ n \in DOMAIN facts /\ facts[n] = 0
  /\ ledger' = Append(ledger, Fact_(n)) /\ hot' = hot \cup {Len(ledger')}
  /\ facts' = [facts EXCEPT ![n] = Len(ledger')]
  /\ UNCHANGED <<cold, flying, views, batch, runTable, runOn, opened, toolTable,
                 used>>
\* Mutant: the view is written before the ledger has a row to name.
Viewable_First(n) == n \in DOMAIN facts
Viewable(n) == n \in DOMAIN facts /\ facts[n] > 0
FactToView(n) ==
  /\ Viewable(n)
  /\ ~\E v \in views : v.fact = n
  /\ views' = views \cup {[fact |-> n, event |-> facts[n]]}
  /\ UNCHANGED <<ledger, hot, cold, flying, facts, batch, runTable, runOn, opened,
                 toolTable, used>>

\* archiveOldEvents, one batch: the ids are chosen, inserted into the archive,
\* and those ids deleted; the insert is refused when one is there already.
ArchiveCopy ==
  /\ batch = {} /\ runOn = 0 /\ flying = {} /\ hot # {} /\ hot \cap cold = {}
  /\ batch' \in {hot, {CHOOSE n \in hot : \A i \in hot : n <= i}}
  /\ cold' = cold \cup batch'
  /\ used.work < MaxWork /\ used' = [used EXCEPT !.work = @ + 1]
  /\ UNCHANGED <<ledger, hot, flying, facts, views, runTable, runOn, opened,
                 toolTable>>
\* Mutant: the rows are deleted by their age once more.
Deleted_ByAge == hot
Deleted == hot \cap batch
ArchiveDelete ==
  /\ batch # {} /\ hot' = hot \ Deleted /\ batch' = {}
  /\ UNCHANGED <<ledger, cold, flying, facts, views, runTable, runOn, opened,
                 toolTable, used>>

\* The process dies: frames on their way are lost, calls end where they are,
\* and the next start marks the run interrupted.
LogCrash ==
  /\ used.work < MaxWork
  /\ used' = [used EXCEPT !.work = @ + 1, !.faults = @ + 1]
  /\ flying' = {} /\ batch' = {} /\ runOn' = 0 /\ opened' = FALSE
  /\ facts' = [n \in DOMAIN facts |-> IF \E v \in views : v.fact = n THEN facts[n] ELSE -1]
  /\ runTable' = [k \in DOMAIN runTable |->
                    IF runTable[k] = "running" THEN "interrupted" ELSE runTable[k]]
  /\ UNCHANGED <<ledger, hot, cold, views, toolTable>>

LogNext ==
  \/ StartRun \/ StartTool \/ (\E s \in {"done", "fail"} : EndTool(s))
  \/ \E row \in {"completed", "interrupted"} : EndRun(row)
  \/ \E f \in flying : Land(f) \/ LandingFails(f)
  \/ NewFact \/ \E n \in DOMAIN facts : FactToLedger(n) \/ FactToView(n)
  \/ ArchiveCopy \/ ArchiveDelete \/ LogCrash
LogSpec == LogInit /\ [][LogNext]_logVars
-----------------------------------------------------------------------------
(* The projection runStats, and what it is compared with.     *)

NoRun == 0
Blank == [cur |-> NoRun, keys |-> {}, started |-> 0, done |-> 0, fail |-> 0, seen |-> {}]
\* Mutant: a row counts each time it is read.
Folded_Again(p, id) == id \in hot /\ ledger[id].fact = 0
\* A row of the table counts once, and a fact of a contract not at all.
Folded(p, id) == id \in hot /\ ledger[id].fact = 0 /\ id \notin p.seen
Apply(p, id) ==
  LET ev == ledger[id]
      q == [p EXCEPT !.seen = @ \cup {id}]
      r == [q EXCEPT !.keys = @ \cup {p.cur}]
  IN IF ~Folded(p, id) THEN p
     ELSE CASE ev.type = "run_start" -> [q EXCEPT !.cur = ev.run, !.keys = @ \cup {ev.run}]
            [] ev.type = "tool_start" -> [r EXCEPT !.started = @ + 1]
            [] ev.type = "tool_done" -> IF ev.status = "fail" THEN [r EXCEPT !.fail = @ + 1]
                                        ELSE [r EXCEPT !.done = @ + 1]
            [] OTHER -> q
Project(ids) ==
  LET states[k \in 0..Len(ids)] == IF k = 0 THEN Blank ELSE Apply(states[k - 1], ids[k])
  IN states[Len(ids)]
\* The rows are read in the order of their ids.
Read == [i \in DOMAIN ledger |-> i]

RunsAgree == LET p == Project(Read) IN p.keys \ {NoRun} = DOMAIN runTable
ToolsAgree ==
  LET p == Project(Read)
  IN p.done = toolTable.done /\ p.fail = toolTable.fail
     /\ p.started = toolTable.done + toolTable.fail
-----------------------------------------------------------------------------
\* The state has its type; ids are given once.
LogTypeOK ==
  /\ hot \cup cold \subseteq DOMAIN ledger /\ batch \subseteq cold
  /\ runOn \in 0..Len(runTable) /\ opened \in BOOLEAN
  /\ \A n \in DOMAIN facts : facts[n] \in -1..Len(ledger)

\* Every row of contract_events names the row of the ledger that holds the
\* same fact (eventlog.js:139-147).
ViewsAreTraceable ==
  \A v \in views : v.event \in hot \cup cold /\ ledger[v.event].fact = v.fact

\* A row once in the ledger is in it or in its archive, through failures and
\* crashes of the move (mysql.js:514).
ArchiveLosesNothing == DOMAIN ledger = hot \cup cold

\* When all frames of a conversation have landed, in whatever order, the runs
\* and the calls the ledger shows are those of the tables: the comparison
\* reports no difference that is none (projection.js:239, 256).
LandedLedgerAgrees ==
  runOn = 0 /\ flying = {} /\ cold = {} /\ used.faults = 0 => RunsAgree /\ ToolsAgree

\* Read twice, a ledger shows the same (projection.js:193).
ReplayIsIdempotent == Project(Read \o Read) = Project(Read)

\* What the ledger and its views keep: the parts above.
LogSafe == LogTypeOK /\ ViewsAreTraceable /\ ArchiveLosesNothing
           /\ LandedLedgerAgrees /\ ReplayIsIdempotent
=============================================================================
