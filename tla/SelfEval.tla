------------------------------ MODULE SelfEval ------------------------------
(***************************************************************************)
(* Self evaluation, the collecting half: one batch reads the usage rows,   *)
(* the prefix ledger, the failure ledger, the golden sets and the carriers *)
(* of proposals through the storage interface (selfeval/collect.js), sorts *)
(* the usage rows into tiers (cohort.js), and turns the snapshot into      *)
(* rules that fire (selfeval/propose.js, alerts.js).  Any read may fail    *)
(* (MaxFaults of them), and a user may delete a conversation between two   *)
(* reads.  Texts, sums and percentiles are left out: a metric is what was  *)
(* read, or that it was not.                                               *)
(***************************************************************************)
EXTENDS Naturals, FiniteSets

CONSTANTS
  UsageRow,   \* usage rows of the window, each of a conversation of its own
  Threshold,  \* rounds of real traffic that make C1 and C2 judgeable (30)
  Unread,     \* no reading: the read failed
  MaxFaults,  \* bound: reads that fail in one batch
  MaxDeletes  \* bound: conversations deleted while the batch reads

VARIABLES
  facts,    \* of each row: its conversation's title, link to a sample task, ...
  live,     \* rows whose conversation exists
  rest,     \* what the other four collectors read
  lines,    \* settings.metric_alert_lines
  stage,    \* the read that comes next
  known,    \* rows whose conversation the batch has looked up
  ledger, samples,   \* rows in the prefix ledger and of sample tasks, as read
  toAsk,    \* rows still to be asked for one by one
  told,     \* errors that reached the snapshot
  missed,   \* rows whose single lookup failed
  tier,     \* row -> label, once sorted
  fired,    \* the rules that fired
  deleted, faults

evalVars == <<facts, live, rest, lines, stage, known, ledger, samples, toAsk,
              told, missed, tier, fired, deleted, faults>>

\* What one conversation can be: the kind of its title, whether a task whose name
\* has the sample prefix runs in it, whether the ledger names it, whether the row
\* carries the account the conversation is listed under.
Fact == {f \in [owned : BOOLEAN, title : {"probe", "task", "plain"},
                sample : BOOLEAN, ledger : BOOLEAN, account : BOOLEAN] :
            /\ f.sample => f.title = "task"
            /\ ~f.owned => f = [owned |-> FALSE, title |-> "plain", sample |-> FALSE,
                                ledger |-> FALSE, account |-> FALSE]}

Ordinary == [invalid |-> 0, ledgerErr |-> FALSE, calls |-> "clean", byCode |-> TRUE,
             golden |-> "passed", goals |-> 1, demands |-> 0]

\* The readings of the other collectors, one of them out of the ordinary at a time:
\* each rule reads one collector only.
Readings ==
       {[Ordinary EXCEPT !.invalid = n, !.ledgerErr = b] : n \in {0, 1}, b \in {TRUE, FALSE}}
  \cup {[Ordinary EXCEPT !.invalid = Unread, !.ledgerErr = TRUE]}
  \cup {[Ordinary EXCEPT !.calls = c, !.byCode = b] :
          c \in {Unread, "none", "clean", "failing"}, b \in {TRUE, FALSE}}
  \cup {[Ordinary EXCEPT !.golden = g] :
          g \in {Unread, "noShell", "passed", "failed", "skipped", "error"}}
  \cup {[Ordinary EXCEPT !.goals = g, !.demands = d] :
          g \in {Unread, 0, 1}, d \in {Unread, 0, 1}}

Line == {"empty", "broken", "c1", "c4Invalidate"}

-----------------------------------------------------------------------------
(* The SQL of the tiers (cohort.js), kept as the reference: what a row is   *)
(* when one statement reads conversations, ledger and tasks together.       *)

InConversations(r) == facts[r].owned /\ r \in live

ProbeWhere(r)  == \/ InConversations(r) /\ facts[r].title = "probe"
                  \/ facts[r].owned /\ ~InConversations(r) /\ facts[r].ledger
OrphanWhere(r) == ~InConversations(r)
RealWhere(r)   == ~ProbeWhere(r) /\ ~OrphanWhere(r)
ScheduledWhere(r) == InConversations(r) /\ facts[r].title = "task"
SampleWhere(r) == InConversations(r) /\ facts[r].sample
HumanWhere(r)  == RealWhere(r) /\ ~ScheduledWhere(r) /\ ~SampleWhere(r)

-----------------------------------------------------------------------------
(* The same tiers recomputed from what the batch has read.                 *)

\* the same, with the ledger naming live conversations too
Label_LedgerFirst(r) ==
  IF ~facts[r].owned THEN "orphan"
  ELSE IF r \in ledger THEN "probe"
  ELSE IF r \notin known THEN "orphan"
  ELSE IF facts[r].title = "probe" THEN "probe"
  ELSE IF r \in samples THEN "sample"
  ELSE IF facts[r].title = "task" THEN "scheduled" ELSE "human"

\* classifyConversationIds
Label(r) ==
  IF ~facts[r].owned THEN "orphan"
  ELSE IF r \in known
       THEN IF facts[r].title = "probe" THEN "probe"
            ELSE IF r \in samples THEN "sample"
            ELSE IF facts[r].title = "task" THEN "scheduled" ELSE "human"
       ELSE IF r \in ledger THEN "probe" ELSE "orphan"

\* collectUsage's rowsOf: real is the union of three labels, scheduled of two
RowsOf(k) ==
  CASE k = "real"      -> {r \in UsageRow : tier[r] \in {"human", "scheduled", "sample"}}
    [] k = "scheduled" -> {r \in UsageRow : tier[r] \in {"scheduled", "sample"}}
    [] OTHER           -> {r \in UsageRow : tier[r] = k}

-----------------------------------------------------------------------------
EvalInit ==
  /\ \/ rest = Ordinary /\ lines = "empty" /\ facts \in [UsageRow -> Fact]
     \/ rest \in Readings /\ lines \in Line
        /\ \E f \in Fact : facts = [r \in UsageRow |-> f] /\ f.title = "plain"
  /\ live \in {{r \in UsageRow : facts[r].owned}, {}}
  /\ stage = "rounds" /\ known = {} /\ ledger = {} /\ samples = {} /\ toAsk = {}
  /\ told = {} /\ missed = {} /\ tier = [r \in UsageRow |-> Unread] /\ fired = {}
  /\ deleted = {} /\ faults = 0

\* A read answers, or throws and is caught by viaInterface; `lost` says which.
Read(lost) == lost => faults < MaxFaults
Fault(lost) == faults' = IF lost THEN faults + 1 ELSE faults
world == <<facts, live, rest, lines, deleted>>

\* The rows of the window are read at once; when that fails every tier is an error.
ReadRounds(lost) ==
  /\ stage = "rounds" /\ Read(lost) /\ Fault(lost)
  /\ stage' = IF lost THEN "rules" ELSE "ledger"
  /\ told' = IF lost THEN {"usage"} ELSE {}
  /\ UNCHANGED <<world, known, ledger, samples, toAsk, missed, tier, fired>>

ReadLedger(lost) ==
  /\ stage = "ledger" /\ stage' = "tasks" /\ Read(lost) /\ Fault(lost)
  /\ ledger' = IF lost THEN {} ELSE {r \in UsageRow : facts[r].ledger}
  /\ told' = told \cup (IF lost THEN {"classify"} ELSE {})
  /\ UNCHANGED <<world, known, samples, toAsk, missed, tier, fired>>

ReadTasks(lost) ==
  /\ stage = "tasks" /\ stage' = "accounts" /\ Read(lost) /\ Fault(lost)
  /\ samples' = IF lost THEN {} ELSE {r \in UsageRow : facts[r].sample}
  /\ told' = told \cup (IF lost THEN {"classify"} ELSE {})
  /\ UNCHANGED <<world, known, ledger, toAsk, missed, tier, fired>>

\* The conversations of the accounts the rows carry; what is missing is asked for.
ReadAccounts(lost) ==
  /\ stage = "accounts" /\ stage' = "missing" /\ Read(lost) /\ Fault(lost)
  /\ known' = IF lost THEN {} ELSE {r \in live : facts[r].account}
  /\ toAsk' = {r \in UsageRow : facts[r].owned} \ known'
  /\ told' = told \cup (IF lost THEN {"classify"} ELSE {})
  /\ UNCHANGED <<world, ledger, samples, missed, tier, fired>>

\* One lookup by id: a failed one leaves the conversation unknown and says nothing.
AskFor(r, lost) ==
  /\ stage = "missing" /\ r \in toAsk /\ toAsk' = toAsk \ {r}
  /\ Read(lost) /\ Fault(lost)
  /\ known' = known \cup (IF ~lost /\ r \in live THEN {r} ELSE {})
  /\ missed' = missed \cup (IF lost THEN {r} ELSE {})
  /\ UNCHANGED <<world, stage, ledger, samples, told, tier, fired>>

Sort ==
  /\ stage = "missing" /\ toAsk = {} /\ stage' = "rules"
  /\ tier' = [r \in UsageRow |-> Label(r)]
  /\ UNCHANGED <<world, known, ledger, samples, toAsk, told, missed, fired, faults>>

-----------------------------------------------------------------------------
(* The snapshot and its rules.                                             *)

\* cohortMetric and costMetric have no data when no row is in the tier.
RealRounds == Cardinality(RowsOf("real"))

\* ledgerMetric: a ledger that was not read still counts 0 invalidations.
c4Invalidate == IF rest.invalid = Unread THEN 0 ELSE rest.invalid
ledgerAvailable == ~rest.ledgerErr

\* failuresMetric: no calls is not a rate of 0.
failuresOk == rest.calls \in {"clean", "failing"}

\* The same, with a shell that was skipped taken for one that passed.
canaryOk_Skipped == rest.golden \in {"passed", "skipped"}

\* canaryMetric: in order only when a shell ran and every shell passed.
canaryOk == rest.golden = "passed"

\* pipelineMetric and R6: a count that was not read is null, and null adds 0.
carrier(n) == IF n = Unread THEN 0 ELSE n
pipelineEmpty == carrier(rest.goals) + carrier(rest.demands) = 0

\* the same, judging a metric that has no reading
Alerts_NoReading ==
  CASE lines = "c1"           -> {{}, {"c1"}}
    [] lines = "c4Invalidate" -> IF c4Invalidate > 0 THEN {{"c4Invalidate"}} ELSE {{}}
    [] OTHER                  -> {{}}

\* parseLines throws on a line it does not know; a metric without a reading is
\* not judged.  A line is crossed or not as its value says.
Alerts ==
  CASE lines = "c1"           -> IF RealRounds > 0 THEN {{}, {"c1"}} ELSE {{}}
    [] lines = "c4Invalidate" -> IF c4Invalidate > 0 THEN {{"c4Invalidate"}} ELSE {{}}
    [] OTHER                  -> {{}}

\* rulesFromSnapshot, rules R1 to R7
RulesFromSnapshot ==
       (IF RealRounds < Threshold THEN {"R1"} ELSE {})
  \cup (IF c4Invalidate > 0 THEN {"R2"} ELSE {})
  \cup (IF failuresOk /\ rest.calls = "failing" /\ rest.byCode THEN {"R3"} ELSE {})
  \cup (IF RealRounds > 0 THEN {"R4"} ELSE {})
  \cup (IF ~canaryOk THEN {"R5"} ELSE {})
  \cup (IF pipelineEmpty THEN {"R6"} ELSE {})
  \cup (IF told # {} THEN {"R7"} ELSE {})

\* A broken line stops the batch; otherwise the rules fire, R8 when a line is crossed.
Propose ==
  /\ stage = "rules"
  /\ \/ /\ lines = "broken" /\ stage' = "failed" /\ fired' = {}
     \/ /\ lines # "broken" /\ stage' = "done"
        /\ \E a \in Alerts : fired' = RulesFromSnapshot \cup (IF a # {} THEN {"R8"} ELSE {})
  /\ UNCHANGED <<world, known, ledger, samples, toAsk, told, missed, tier, faults>>

\* DELETE of a conversation while the batch reads; the ledger keeps its rows.
DeleteConversation(r) ==
  /\ stage \notin {"done", "failed"} /\ Cardinality(deleted) < MaxDeletes
  /\ r \in live /\ live' = live \ {r} /\ deleted' = deleted \cup {r}
  /\ UNCHANGED <<facts, rest, lines, stage, known, ledger, samples, toAsk, told,
                 missed, tier, fired, faults>>

EvalNext ==
  \/ \E lost \in BOOLEAN : ReadRounds(lost) \/ ReadLedger(lost) \/ ReadTasks(lost)
                           \/ ReadAccounts(lost)
  \/ \E r \in UsageRow, lost \in BOOLEAN : AskFor(r, lost)
  \/ Sort \/ Propose
  \/ \E r \in UsageRow : DeleteConversation(r)

EvalSpec == EvalInit /\ [][EvalNext]_evalVars

-----------------------------------------------------------------------------
Sorted == stage \in {"rules", "done"} /\ "usage" \notin told

\* Nothing failed and nothing was deleted: the tiers computed in several reads are
\* those of the SQL, a deleted conversation of the ledger being a probe and not
\* also an orphan.
SameAsSql ==
  Sorted /\ faults = 0 /\ deleted = {} =>
    /\ RowsOf("real") = {r \in UsageRow : RealWhere(r)}
    /\ RowsOf("probe") = {r \in UsageRow : ProbeWhere(r)}
    /\ RowsOf("orphan") = {r \in UsageRow : OrphanWhere(r) /\ ~ProbeWhere(r)}
    /\ RowsOf("scheduled") = {r \in UsageRow : ScheduledWhere(r)}
    /\ RowsOf("human") = {r \in UsageRow : HumanWhere(r)}

\* Whatever failed or was deleted: a row without a conversation and a probe never
\* count as real traffic, and a row of real traffic leaves it only when its
\* conversation was deleted, an error is in the snapshot or its lookup failed.
RealIsReal ==
  Sorted => /\ \A r \in RowsOf("real") : facts[r].owned /\ facts[r].title # "probe"
            /\ \A r \in live : facts[r].title # "probe" /\ r \notin RowsOf("real") =>
                                 r \in missed
            /\ RowsOf("human") = RowsOf("real") \ RowsOf("scheduled")

\* A sample task's traffic is taken for an ordinary task's only with an error told.
SampleIsTold ==
  Sorted => \A r \in UsageRow : facts[r].sample /\ tier[r] = "scheduled" => "classify" \in told

\* What fired rests on what was read: no rule of a ledger, of failures or of a line
\* from a reading that was lost, and golden sets are never taken for passed unless
\* a shell ran and all of them passed.
FiredOnReadings ==
  stage = "done" =>
    /\ "R2" \in fired => rest.invalid = 1
    /\ "R3" \in fired => rest.calls = "failing"
    /\ "R4" \in fired => RowsOf("real") # {} /\ "usage" \notin told
    /\ "R5" \notin fired <=> rest.golden = "passed"
    /\ "R6" \in fired => ~(\E n \in {rest.goals, rest.demands} : n = 1)
    /\ "R8" \in fired => \/ lines = "c1" /\ RowsOf("real") # {}
                         \/ lines = "c4Invalidate" /\ rest.invalid = 1
    /\ "R7" \in fired <=> told # {}

\* The four together.
EvalSafe == SameAsSql /\ RealIsReal /\ SampleIsTold /\ FiredOnReadings
=============================================================================
