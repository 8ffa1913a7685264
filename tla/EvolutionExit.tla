--------------------------- MODULE EvolutionExit ----------------------------
(***************************************************************************)
(* When self evolution counts as proved (selfeval/m3-gate.js): two cycles   *)
(* are complete, proposals of both named sources have landed, each with a  *)
(* report from before and one from after in the archive                    *)
(* (selfeval/archive.js), and a person approved each.  The board is that of *)
(* Proposals with one row of each table, whose ids are the same number; the *)
(* ledger is written by hand from the board, the audit log and the archive. *)
(***************************************************************************)
EXTENDS Naturals, FiniteSets

CONSTANTS
  None,
  Cycle,       \* cycles the ledger may have
  Content,     \* contents of reports, told apart by their hash
  MaxArchived, \* bound: reports put into the archive
  MaxRecords   \* bound: records of the ledger

VARIABLES
  board,      \* table -> its row, or None
  audit,      \* acts of people on the board: [action, table]
  archive,    \* proposals/metrics: name -> report
  put,        \* every report that was put there, with its name
  cycles,     \* the ledger's cycles: whether declared complete, whether a row is named
  landed      \* the ledger's rows of what has landed

exitVars == <<board, audit, archive, put, cycles, landed>>

Table == {"demands", "goals"}
FirstCycle == CHOOSE c \in Cycle : TRUE

\* LANDED_STATE: what a row's status is when it has landed.
LANDED_STATE == [demands |-> "adopted", goals |-> "active"]
M3_APPROVAL_ACTIONS == {"demand_status", "goal_create"}
M3_REQUIRED_SOURCES == {"benchmark", "selfeval"}
M3_MIN_CYCLES == 2

-----------------------------------------------------------------------------
(* The four checks.                                                        *)

\* cycleStats: a cycle is complete when someone said so, or when it names a row,
\* whether or not the ledger has that row.
Completed == {c \in Cycle : cycles[c] # None /\ (cycles[c].declared \/ cycles[c].landed)}
checkCycles == IF Cardinality(Completed) < M3_MIN_CYCLES THEN "undecided" ELSE "pass"

\* landedStats: a row in a status that is not the landed one of its table is bad.
Bad(r) == r.status # LANDED_STATE[r.table]
checkLanded ==
  IF landed = {} THEN "undecided"
  ELSE IF \E r \in landed : Bad(r) THEN "fail"
  ELSE IF ~(M3_REQUIRED_SOURCES \subseteq {r.source : r \in landed}) THEN "fail" ELSE "pass"

\* comparisonRows: both reports named and in the archive, over the same days.
Broken(r) == r.ref \notin DOMAIN archive \/ r.baselineRef \notin DOMAIN archive
compareWindows(r) == archive[r.ref].days = archive[r.baselineRef].days
checkComparison ==
  IF landed = {} THEN "undecided"
  ELSE IF \E r \in landed : Broken(r) THEN "fail"
  ELSE IF \E r \in landed : ~compareWindows(r) THEN "undecided" ELSE "pass"

\* approvalStats: an act of a known kind on the row's own table and id; ids count
\* from one in both tables.
Approved_AnyTable(r) == \E e \in audit : e.action \in M3_APPROVAL_ACTIONS
Approved(r) == \E e \in audit : e.action \in M3_APPROVAL_ACTIONS /\ e.table = r.table
checkApproval ==
  IF landed = {} THEN "undecided"
  ELSE IF \E r \in landed : ~Approved(r) THEN "fail" ELSE "pass"

Checks == {checkCycles, checkLanded, checkComparison, checkApproval}

\* evaluateM3Exit
evaluateM3Exit == IF "fail" \in Checks THEN "fail"
                  ELSE IF "undecided" \in Checks THEN "undecided" ELSE "pass"

-----------------------------------------------------------------------------
ExitInit ==
  /\ board = [t \in Table |-> None] /\ audit = {} /\ archive = [n \in {} |-> None]
  /\ put = {} /\ landed = {}
  /\ cycles \in {[c \in Cycle |-> [declared |-> TRUE, landed |-> FALSE]],
                 [c \in Cycle |-> IF c = FirstCycle THEN [declared |-> FALSE, landed |-> TRUE]
                                  ELSE None]}

ledger == <<cycles, landed>>

\* writeProposals: a finding of the self evaluation becomes an active goal, a
\* candidate from a benchmark a demand that waits; neither is an act of a person.
Propose(t) ==
  /\ board[t] = None
  /\ board' = [board EXCEPT ![t] =
                 IF t = "goals" THEN [source |-> "selfeval", status |-> "active", by |-> "engine"]
                 ELSE [source |-> "benchmark", status |-> "waiting", by |-> "engine"]]
  /\ UNCHANGED <<audit, archive, put, ledger>>

\* POST /api/evo/goals
CreateGoal ==
  /\ board["goals"] = None
  /\ board' = [board EXCEPT !["goals"] = [source |-> "selfeval", status |-> "active", by |-> "person"]]
  /\ audit' = audit \cup {[action |-> "goal_create", table |-> "goals"]}
  /\ UNCHANGED <<archive, put, ledger>>

\* PATCH /api/extensions/demands/:id/status: refusing leaves the same trace as adopting.
DecideDemand(status) ==
  /\ board["demands"] # None /\ board' = [board EXCEPT !["demands"].status = status]
  /\ audit' = audit \cup {[action |-> "demand_status", table |-> "demands"]}
  /\ UNCHANGED <<archive, put, ledger>>

\* PATCH /api/evo/goals/:id leaves no trace.
PatchGoal(status) ==
  /\ board["goals"] # None /\ board' = [board EXCEPT !["goals"].status = status]
  /\ UNCHANGED <<audit, archive, put, ledger>>

\* The name without the hash, always.
NameOf_First(r) == <<r.days, None>>

\* writeArchivedSnapshot: a name that is taken gets the hash of the content.
NameOf(r) == IF <<r.days, None>> \in DOMAIN archive THEN <<r.days, r.content>>
             ELSE <<r.days, None>>
Archive(r) ==
  /\ Cardinality(put) < MaxArchived
  /\ archive' = [n \in DOMAIN archive \cup {NameOf(r)} |->
                   IF n = NameOf(r) THEN r ELSE archive[n]]
  /\ put' = put \cup {[name |-> NameOf(r), report |-> r]}
  /\ UNCHANGED <<board, audit, ledger>>

\* The ledger: a row as the board has it now, with the two reports.
Record(t, ref, base) ==
  /\ board[t] # None /\ Cardinality(landed) < MaxRecords
  /\ landed' = landed \cup {[table |-> t, source |-> board[t].source, status |-> board[t].status,
                             ref |-> ref, baselineRef |-> base]}
  /\ UNCHANGED <<board, audit, archive, put, cycles>>

ExitNext ==
  \/ \E t \in Table : Propose(t)
  \/ CreateGoal
  \/ \E s \in {"adopted", "refused"} : DecideDemand(s)
  \/ \E s \in {"active", "paused"} : PatchGoal(s)
  \/ \E d \in {7, 30}, k \in Content : Archive([days |-> d, content |-> k])
  \/ \E t \in Table, ref \in DOMAIN archive, base \in DOMAIN archive \cup {None} : Record(t, ref, base)

ExitSpec == ExitInit /\ [][ExitNext]_exitVars

-----------------------------------------------------------------------------
\* Nothing is passed that a person did not act on: the engine's own goals never pass,
\* for no act of a person leaves the trace they would need, and a demand passes only
\* after it was decided; each has two reports over the same days.
NoSelfRelease ==
  evaluateM3Exit = "pass" =>
    /\ board["goals"].by = "person"
    /\ [action |-> "demand_status", table |-> "demands"] \in audit
    /\ \A r \in landed : archive[r.ref].days = archive[r.baselineRef].days
    /\ {r.table : r \in landed} = Table

\* Without a record the exit is undecided, never passed and never failed.
NoDataIsUndecided == landed = {} => evaluateM3Exit = "undecided"

\* A report in the archive is never taken over by another one.
ArchiveKept == \A w \in put : w.name \in DOMAIN archive /\ archive[w.name] = w.report

ExitSafe == NoSelfRelease /\ NoDataIsUndecided /\ ArchiveKept
=============================================================================
