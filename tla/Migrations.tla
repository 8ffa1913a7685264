----------------------------- MODULE Migrations ------------------------------
(***************************************************************************)
(* The shape of the database at a start (server/db.js initSchema): tables  *)
(* are created in their final shape, then the chain of migrations          *)
(* (server/migrations.js) brings an older database to it.  A statement     *)
(* takes effect by itself, MySQL undoes none of them: a start that is cut  *)
(* leaves what it had done.  The chain's eight steps are abstracted to     *)
(* five, one of each form.                                                 *)
(***************************************************************************)
EXTENDS Integers, Sequences, FiniteSets

CONSTANTS
  MaxCuts,    \* bound on the starts that die and the statements that fail
  MaxStarts   \* bound on starts

VARIABLES
  tables,    \* the tables that exist
  shape,     \* the columns and indexes that migrations speak of and that exist
  applied,   \* the steps recorded in schema_migrations
  stage,     \* where the start is
  new,       \* fresh: the core table was not there when the start began
  step,      \* the table or the step the start is at
  part,      \* the statement of that step
  broken,    \* out.failed: the step the chain stopped at, 0 when none
  cuts, starts,
  sound      \* history: this start found nothing half done, and met no fault

migVars == <<tables, shape, applied, stage, new, step, part, broken, cuts, starts, sound>>

\* SCHEMA, in its order, and VERSIONS: what each statement adds, and whether
\* an error that says it is there already is passed over.
Tables == <<"messages", "audit_log", "tool_calls", "events", "contract_events">>
Core == "tool_calls"
Adds(t, c) == [table |-> t, column |-> c, creates |-> FALSE]
Creates(t) == [table |-> t, column |-> "all", creates |-> TRUE]
Versions ==
  <<[tolerates |-> TRUE, statements |-> <<Adds("messages", "reasoning")>>],
    [tolerates |-> FALSE, statements |-> <<Adds("tool_calls", "error_code")>>],
    [tolerates |-> FALSE, statements |-> <<Creates("events")>>],
    [tolerates |-> FALSE, statements |-> <<Adds("contract_events", "event_id"),
                                           Adds("contract_events", "uk_ce_event")>>],
    [tolerates |-> TRUE, statements |-> <<Adds("audit_log", "idx_audit_time")>>]>>
Steps == DOMAIN Versions
Statements == UNION {{Versions[k].statements[i] : i \in DOMAIN Versions[k].statements} : k \in Steps}
FinalOf(t) == {<<s.table, s.column>> : s \in {x \in Statements : ~x.creates /\ x.table = t}}
FinalShape == UNION {FinalOf(t) : t \in {Tables[i] : i \in DOMAIN Tables}}
AddedBy(k) == {<<s.table, s.column>> :
                 s \in {Versions[k].statements[i] : i \in DOMAIN Versions[k].statements}}
              \ {<<t, "all">> : t \in {Tables[i] : i \in DOMAIN Tables}}

\* An empty disk, or the database some earlier release left: the first k
\* steps recorded.  The table of step 3 came with that step, an index of the
\* last one may have been there from the beginning.
MigInit ==
  /\ \/ tables = {} /\ shape = {} /\ applied = {}
     \/ \E k \in 0..Len(Versions), index \in BOOLEAN :
          /\ tables = {"messages", "audit_log", "tool_calls", "contract_events"}
                      \union (IF k >= 3 THEN {"events"} ELSE {})
          /\ shape = (UNION {AddedBy(j) : j \in 1..k})
                     \union (IF index THEN {<<"audit_log", "idx_audit_time">>} ELSE {})
          /\ applied = 1..k
  /\ stage = "off" /\ new = FALSE /\ step = 1 /\ part = 1 /\ broken = 0
  /\ cuts = 0 /\ starts = 0 /\ sound = FALSE

\* What starts that were cut may leave: a strict statement done, or about to
\* be done by making its table, and its step not recorded.
HalfDone ==
  \E k \in Steps \ applied : \E x \in AddedBy(k) :
    ~Versions[k].tolerates /\ (x \in shape \/ (x[1] \notin tables /\ Core \in tables))

\* The probe comes before the tables are made.
FreshDb_TooLate == FALSE
FreshDb == Core \notin tables
Boot ==
  /\ stage \in {"off", "up"} /\ starts < MaxStarts /\ starts' = starts + 1
  /\ new' = FreshDb /\ stage' = "schema" /\ step' = 1 /\ broken' = 0
  /\ sound' = ~HalfDone
  /\ UNCHANGED <<tables, shape, applied, part, cuts>>

\* CREATE TABLE IF NOT EXISTS, one table after the other; an error is logged
\* and the next one made.
MoreTables_TooMany == step <= Len(Tables)
MoreTables == step < Len(Tables)
ToLedger == IF MoreTables THEN step' = step + 1 /\ UNCHANGED stage
            ELSE step' = 1 /\ stage' = "ledger"
MakeTable ==
  /\ stage = "schema" /\ ToLedger
  /\ tables' = tables \union {Tables[step]}
  /\ shape' = (IF Tables[step] \in tables THEN shape ELSE shape \union FinalOf(Tables[step]))
  /\ UNCHANGED <<applied, new, part, broken, cuts, starts, sound>>
TableFails ==
  /\ stage = "schema" /\ ToLedger /\ cuts < MaxCuts /\ cuts' = cuts + 1
  /\ sound' = FALSE
  /\ UNCHANGED <<tables, shape, applied, new, part, broken, starts>>

\* runMigrations: a fresh database records the whole chain, step by step; any
\* other takes the steps that are not recorded, in order.
NextOf(S) == CHOOSE k \in S : \A j \in S : k <= j
GoOn(S) == IF S = {} THEN stage' = "up" /\ UNCHANGED <<step, part>>
           ELSE stage' = "chain" /\ step' = NextOf(S) /\ part' = 1
Ledger ==
  /\ stage = "ledger"
  /\ IF new THEN stage' = "mark" /\ UNCHANGED <<step, part>>
     ELSE GoOn(Steps \ applied)
  /\ UNCHANGED <<tables, shape, applied, new, broken, cuts, starts, sound>>
MarkStep ==
  /\ stage = "mark" /\ applied' = applied \union {step}
  /\ IF step < Len(Versions) THEN step' = step + 1 /\ UNCHANGED stage
     ELSE stage' = "up" /\ UNCHANGED step
  /\ UNCHANGED <<tables, shape, new, part, broken, cuts, starts, sound>>

Statement == Versions[step].statements[part]
There == <<Statement.table, Statement.column>> \in shape
InChain == stage = "chain" /\ part <= Len(Versions[step].statements)
Run ==
  /\ InChain
  /\ Statement.creates \/ (Statement.table \in tables /\ ~There)
  /\ IF Statement.creates
     THEN /\ tables' = tables \union {Statement.table}
          /\ shape' = (IF Statement.table \in tables THEN shape
                       ELSE shape \union FinalOf(Statement.table))
     ELSE shape' = shape \union {<<Statement.table, Statement.column>>} /\ UNCHANGED tables
  /\ part' = part + 1
  /\ UNCHANGED <<applied, stage, new, step, broken, cuts, starts, sound>>

\* An error of a statement: what is there already is passed over when the step
\* tolerates it, anything else stops the chain and records nothing.
Swallowed_All(error) == Versions[step].tolerates
Swallowed(error) == error = "exists" /\ Versions[step].tolerates
Strikes(error) ==
  /\ InChain
  /\ IF error = "exists" THEN ~Statement.creates /\ There /\ UNCHANGED <<cuts, sound>>
     ELSE cuts < MaxCuts /\ cuts' = cuts + 1 /\ sound' = FALSE
PassOver ==
  /\ \E error \in {"exists", "other"} : Strikes(error) /\ Swallowed(error)
  /\ part' = part + 1
  /\ UNCHANGED <<tables, shape, applied, stage, new, step, broken, starts>>
AfterFailure_Next == GoOn({k \in Steps \ applied : k > step})
AfterFailure == stage' = "up" /\ UNCHANGED <<step, part>>
Fails ==
  /\ \/ \E error \in {"exists", "other"} : Strikes(error) /\ ~Swallowed(error)
     \/ InChain /\ ~Statement.creates /\ Statement.table \notin tables /\ UNCHANGED <<cuts, sound>>
  /\ broken' = step /\ AfterFailure
  /\ UNCHANGED <<tables, shape, applied, new, starts>>

Record ==
  /\ stage = "chain" /\ part > Len(Versions[step].statements)
  /\ applied' = applied \union {step}
  /\ GoOn(Steps \ applied')
  /\ UNCHANGED <<tables, shape, new, broken, cuts, starts, sound>>

\* The process dies, or the connection does where that ends the start.
CutStart ==
  /\ stage \notin {"off", "up"} /\ cuts < MaxCuts /\ cuts' = cuts + 1
  /\ stage' = "off" /\ sound' = FALSE
  /\ UNCHANGED <<tables, shape, applied, new, step, part, broken, starts>>

MigNext == Boot \/ MakeTable \/ TableFails \/ Ledger \/ MarkStep \/ Run \/ PassOver
           \/ Fails \/ Record \/ CutStart
MigSpec == MigInit /\ [][MigNext]_migVars
-----------------------------------------------------------------------------
\* The state has its type.
MigTypeOK ==
  /\ tables \subseteq {Tables[i] : i \in DOMAIN Tables}
  /\ shape \subseteq FinalShape /\ applied \subseteq Steps
  /\ stage \in {"off", "schema", "ledger", "mark", "chain", "up"}
  /\ new \in BOOLEAN /\ sound \in BOOLEAN /\ broken \in Steps \union {0}
  /\ step \in 1..5 /\ part \in 1..3

\* The recorded steps are the beginning of the chain, after any failures: no
\* step is recorded over one that is missing (migrations.js:312).
RecordedInOrder == \A k \in applied : 1..k \subseteq applied

\* A step is recorded only when all it adds is in the database, but for tables
\* that could not be made and that the next start makes in their final shape.
RecordedIsDone ==
  \A k \in applied : \A x \in AddedBy(k) : x[1] \in tables => x \in shape

\* A start that finds nothing half done and meets no fault ends with the whole
\* chain recorded and the shape a new database gets, from an empty disk, from
\* any earlier release, and after cuts of earlier starts (db.js:582).
SoundStartCompletes ==
  stage = "up" /\ sound => broken = 0 /\ applied = Steps /\ shape = FinalShape

\* What the start leaves of the ledger and the shape: the parts above.
MigSafe ==
  MigTypeOK /\ RecordedInOrder /\ RecordedIsDone /\ SoundStartCompletes
=============================================================================
