--------------------------- MODULE ContractDriver ---------------------------
(***************************************************************************)
(* The task-contract driver (server/driver.js) with the contract API that  *)
(* shares its table (server/index.js, /api/contracts).                     *)
(*                                                                         *)
(* A contract is a row of task_contracts.  Ticks scan the table and start  *)
(* rounds; a round is the async function driveContract, cut here at its    *)
(* awaits, so that API calls, other ticks and a crash fall between any two *)
(* of its database statements.  The row survives a crash; the running set, *)
(* the ticks and the rounds do not.                                        *)
(***************************************************************************)
EXTENDS Naturals, FiniteSets

CONSTANTS
  Contract,         \* ids of task_contracts rows (positive: auto-increment)
  Slot,             \* names for concurrently executing calls of driveContract
  Ticker,           \* names for tick() calls that may overlap
  MaxRunning,       \* driver concurrency (the literal 2 in tick)
  DueLimit,         \* LIMIT of the due query (3)
  MaxAutoRounds,    \* MAX_AUTO_ROUNDS
  MaxIdleConclude,  \* MAX_IDLE_CONCLUDE
  MaxCrashes,       \* bound: process crashes
  MaxCalls          \* bound: calls of confirm, answer and conversation delete

ASSUME DriverAssumption ==
  /\ Contract \subseteq Nat \ {0}
  /\ IsFiniteSet(Slot)
  /\ MaxRunning \in Nat \ {0}
  /\ DueLimit \in Nat \ {0}
  /\ MaxAutoRounds \in Nat \ {0}
  /\ MaxIdleConclude \in Nat
  /\ MaxCrashes \in Nat
  /\ MaxCalls \in Nat

VARIABLES
  row,       \* the task_contracts row of each contract
  ripe,      \* contracts whose run_at has come (or was never set)
  conv,      \* the execution conversation: "none", "open" or "deleted"
  orphans,   \* contracts whose deleted conversation has received a message
  seen,      \* the last status the API caller was shown and may act upon
  reading,   \* /answer between its SELECT and its UPDATE: the last_ask kind
  running,   \* the in-process set of contract ids being driven
  tick,      \* tick() calls: program counter and the due snapshot
  drive,     \* driveContract() calls: program counter and locals
  crashes, calls

vars == <<row, ripe, conv, orphans, seen, reading, running, tick,
          drive, crashes, calls>>

dbVars   == <<row, ripe, conv, orphans>>
userVars == <<seen, reading, calls>>

Status == {"none", "queued", "running", "need_input", "candidate_done",
           "done", "blocked", "deleted"}
AskKind == {"none", "ask", "judge"}

\* attempts only meets MaxAutoRounds and MaxIdleConclude in comparisons >=,
\* so counting stops one above the larger of them without losing an outcome.
AttemptsTop ==
  (IF MaxAutoRounds > MaxIdleConclude THEN MaxAutoRounds ELSE MaxIdleConclude) + 1
Bump(n) == IF n < AttemptsTop THEN n + 1 ELSE n

Row == [status: Status, attempts: 0..AttemptsTop, ask: AskKind, fresh: BOOLEAN]
NoRow == [status |-> "none", attempts |-> 0, ask |-> "none", fresh |-> TRUE]

\* What the due query returns of a row, as far as driveContract uses it.
\* hold: the conv_id it carries: none, a live conversation, a deleted one.
Hold == {"unset", "held", "lost"}
Due == [id: Contract, hold: Hold, attempts: 0..AttemptsTop]

TickRec == [pc: {"idle", "recover", "select", "loop"}, due: SUBSET Due]
TickIdle == [pc |-> "idle", due |-> {}]
DrivePc == {"free", "claim", "conv", "agent", "refresh", "asked", "accept",
            "conclude", "cap", "failed", "exit"}
DriveRec == [pc: DrivePc, id: Contract \cup {0}, hold: Hold, worked: BOOLEAN,
             finished: BOOLEAN, status: Status, attempts: 0..AttemptsTop]
Free == [pc |-> "free", id |-> 0, hold |-> "unset", worked |-> FALSE,
         finished |-> FALSE, status |-> "queued", attempts |-> 0]

Active == {s \in Slot : drive[s].pc # "free"}

TypeOK ==
  /\ row \in [Contract -> Row]
  /\ ripe \subseteq Contract
  /\ conv \in [Contract -> {"none", "open", "deleted"}]
  /\ orphans \subseteq Contract
  /\ seen \in [Contract -> {"none", "need_input", "candidate_done"}]
  /\ reading \in [Contract -> {"idle"} \cup AskKind]
  /\ running \subseteq Contract
  /\ tick \in [Ticker -> TickRec]
  /\ drive \in [Slot -> DriveRec]
  /\ crashes \in 0..MaxCrashes
  /\ calls \in 0..MaxCalls

Init ==
  /\ row = [c \in Contract |-> NoRow]
  /\ ripe = {}
  /\ conv = [c \in Contract |-> "none"]
  /\ orphans = {}
  /\ seen = [c \in Contract |-> "none"]
  /\ reading = [c \in Contract |-> "idle"]
  /\ running = {}
  /\ tick = [t \in Ticker |-> TickIdle]
  /\ drive = [s \in Slot |-> Free]
  /\ crashes = 0
  /\ calls = 0

-----------------------------------------------------------------------------
(* Statements on the table.                                                *)

Exists(c) == row[c].status \notin {"none", "deleted"}

\* UPDATE ... updated_at=NOW() WHERE id=?: nothing happens if the row is gone.
Update(c, r) ==
  row' = IF Exists(c) THEN [row EXCEPT ![c] = [r EXCEPT !.fresh = TRUE]] ELSE row

\* setStatus without extra fields, and with the attempts field.
setStatus(c, status) == Update(c, [row[c] EXCEPT !.status = status])
setStatusAttempts(c, status, n) ==
  Update(c, [row[c] EXCEPT !.status = status, !.attempts = n])

\* needInput, and the judge question of driveContract.
needInput(c, kind) ==
  Update(c, [row[c] EXCEPT !.status = "need_input", !.ask = kind])

-----------------------------------------------------------------------------
(* The API callers.  They act on what a listing showed them, which may be  *)
(* stale; the handlers check the existence of the row, not its status.     *)

\* POST /api/contracts and the create_contract tool; run_at may lie ahead.
Create(c, now) ==
  /\ row[c].status = "none"
  /\ row' = [row EXCEPT ![c].status = "queued"]
  /\ ripe' = IF now THEN ripe \cup {c} ELSE ripe
  /\ UNCHANGED <<conv, orphans, running, tick, drive, crashes, userVars>>

RunAtArrives(c) ==
  /\ Exists(c) /\ c \notin ripe
  /\ ripe' = ripe \cup {c}
  /\ UNCHANGED <<row, conv, orphans, running, tick, drive, crashes, userVars>>

\* GET /api/contracts shows a contract that asks for a verdict or an answer
\* (left out once no call remains that could act on it).
ListContracts(c) ==
  /\ calls < MaxCalls
  /\ row[c].status \in {"need_input", "candidate_done"}
  /\ seen[c] # row[c].status
  /\ seen' = [seen EXCEPT ![c] = row[c].status]
  /\ UNCHANGED <<dbVars, reading, calls, running, tick, drive, crashes>>

Call == calls < MaxCalls /\ calls' = calls + 1

confirm(c, decision) ==
  /\ Call
  /\ seen[c] = "candidate_done" /\ Exists(c)
  /\ Update(c, IF decision = "accept"
               THEN [row[c] EXCEPT !.status = "done"]
               ELSE [row[c] EXCEPT !.status = "queued", !.attempts = 0])
  /\ UNCHANGED <<ripe, conv, orphans, seen, reading, running, tick,
                 drive, crashes>>

\* /answer reads the row, then updates it according to what it read.
answerRead(c) ==
  /\ Call
  /\ seen[c] = "need_input" /\ Exists(c) /\ reading[c] = "idle"
  /\ reading' = [reading EXCEPT ![c] = row[c].ask]
  /\ UNCHANGED <<dbVars, seen, running, tick, drive, crashes>>

\* Mutant: an answer clears the question and leaves the status alone.
AnswerRow_KeepsStatus(c, goOn) == [row[c] EXCEPT !.ask = "none"]

AnswerRow(c, goOn) ==
  IF reading[c] = "judge"
  THEN IF goOn
       THEN [row[c] EXCEPT !.status = "queued", !.ask = "none", !.attempts = 0]
       ELSE [row[c] EXCEPT !.status = "candidate_done", !.ask = "none"]
  ELSE [row[c] EXCEPT !.status = "queued", !.ask = "none"]

answerWrite(c, goOn) ==
  /\ reading[c] # "idle"
  /\ Update(c, AnswerRow(c, goOn))
  /\ reading' = [reading EXCEPT ![c] = "idle"]
  /\ UNCHANGED <<ripe, conv, orphans, seen, calls, running, tick,
                 drive, crashes>>

\* DELETE /api/conversations/:id: the conversation goes, and with it the row.
\* A round or a due snapshot that holds its id keeps the id.
Lose(h) == IF h = "held" THEN "lost" ELSE h

deleteConversation(c) ==
  /\ Call
  /\ conv[c] = "open"
  /\ conv' = [conv EXCEPT ![c] = "deleted"]
  /\ row' = [row EXCEPT ![c] = [NoRow EXCEPT !.status = "deleted"]]
  /\ drive' = [s \in Slot |-> IF drive[s].id = c
                              THEN [drive[s] EXCEPT !.hold = Lose(@)] ELSE drive[s]]
  /\ tick' = [t \in Ticker |->
                [tick[t] EXCEPT !.due =
                   {IF d.id = c THEN [d EXCEPT !.hold = Lose(@)] ELSE d : d \in @}]]
  /\ UNCHANGED <<ripe, orphans, seen, reading, running, crashes>>

-----------------------------------------------------------------------------
(* tick(): every 15 seconds, and once at start.                            *)

TickStart(t) ==
  /\ tick[t].pc = "idle"
  /\ Cardinality(running) < MaxRunning
  /\ tick' = [tick EXCEPT ![t].pc = "recover"]
  /\ UNCHANGED <<dbVars, userVars, running, drive, crashes>>

\* Mutant: the recovery looks for rows with a fresh heartbeat.
Stale_Fresh(c) == row[c].status = "running" /\ row[c].fresh

\* Rows 'running' whose updated_at is older than three minutes are requeued.
Stale(c) == row[c].status = "running" /\ ~row[c].fresh

TickRecover(t) ==
  /\ tick[t].pc = "recover"
  /\ row' = [c \in Contract |-> IF Stale(c)
               THEN [row[c] EXCEPT !.status = "queued", !.fresh = TRUE] ELSE row[c]]
  /\ tick' = [tick EXCEPT ![t].pc = "select"]
  /\ UNCHANGED <<ripe, conv, orphans, userVars, running, drive, crashes>>

\* SELECT ... WHERE status="queued" AND run_at is due ORDER BY id LIMIT 3.
Ready == {c \in ripe : row[c].status = "queued"}
DueRows ==
  {[id |-> c, hold |-> IF conv[c] = "open" THEN "held" ELSE "unset",
    attempts |-> row[c].attempts] :
     c \in {x \in Ready : Cardinality({y \in Ready : y < x}) < DueLimit}}

TickSelect(t) ==
  /\ tick[t].pc = "select"
  /\ tick' = [tick EXCEPT ![t] = [pc |-> "loop", due |-> DueRows]]
  /\ UNCHANGED <<dbVars, userVars, running, drive, crashes>>

First(due) == {d \in due : \A e \in due : d.id <= e.id}

\* The part of driveContract that runs before its first await.
Enter(s, d) ==
  /\ drive[s].pc = "free"
  /\ running' = running \cup {d.id}
  /\ drive' = [drive EXCEPT ![s] =
                 [Free EXCEPT !.pc = "claim", !.id = d.id, !.hold = d.hold,
                              !.attempts = d.attempts]]

\* Mutant: the guard on the running set is dropped.
driveContract_NoGuard(s, d) == Enter(s, d)

driveContract(s, d) == d.id \notin running /\ Enter(s, d)

\* Mutant: the loop trusts the size tested at the start of the tick.
TickDrive_NoRecheck(t) ==
  /\ tick[t].pc = "loop"
  /\ \E d \in First(tick[t].due) :
       /\ tick' = [tick EXCEPT ![t].due = @ \ {d}]
       /\ \/ \E s \in Slot : driveContract(s, d)
          \/ d.id \in running /\ UNCHANGED <<running, drive>>
  /\ UNCHANGED <<dbVars, userVars, crashes>>

\* One turn of the loop over the snapshot; a 200 ms pause follows each turn.
TickDrive(t) ==
  /\ tick[t].pc = "loop"
  /\ Cardinality(running) < MaxRunning
  /\ \E d \in First(tick[t].due) :
       /\ tick' = [tick EXCEPT ![t].due = @ \ {d}]
       /\ \/ \E s \in Slot : driveContract(s, d)
          \/ d.id \in running /\ UNCHANGED <<running, drive>>
  /\ UNCHANGED <<dbVars, userVars, crashes>>

TickEnd(t) ==
  /\ tick[t].pc = "loop"
  /\ tick[t].due = {} \/ Cardinality(running) >= MaxRunning
  /\ tick' = [tick EXCEPT ![t] = TickIdle]
  /\ UNCHANGED <<dbVars, userVars, running, drive, crashes>>

-----------------------------------------------------------------------------
(* driveContract(c), one action per stretch between two awaits.            *)

Step(s, from, to) ==
  /\ drive[s].pc = from
  /\ drive' = [drive EXCEPT ![s].pc = to]

\* appendConvMsg is a bare INSERT: it does not look whether the
\* conversation still exists.
appendConvMsg(s) ==
  orphans' = IF drive[s].hold = "lost" THEN orphans \cup {drive[s].id} ELSE orphans

\* Mutant: a status no other statement knows.
Claim_Unknown(s) ==
  /\ Step(s, "claim", "conv")
  /\ setStatus(drive[s].id, "in_progress")
  /\ UNCHANGED <<ripe, conv, orphans, userVars, running, tick, crashes>>

Claim(s) ==
  /\ Step(s, "claim", "conv")
  /\ setStatus(drive[s].id, "running")
  /\ UNCHANGED <<ripe, conv, orphans, userVars, running, tick, crashes>>

findOrCreateConv(s) ==
  /\ drive[s].pc = "conv"
  /\ drive' = [drive EXCEPT ![s].pc = "agent",
                            ![s].hold = IF @ = "unset" THEN "held" ELSE @]
  /\ conv' = IF drive[s].hold = "unset"
             THEN [conv EXCEPT ![drive[s].id] = "open"] ELSE conv
  /\ UNCHANGED <<row, ripe, orphans, userVars, running, tick, crashes>>

\* runAgent: tools run, may queue a question for the user, may finish_task.
AgentTool(s) ==
  /\ drive[s].pc = "agent" /\ ~drive[s].worked
  /\ drive' = [drive EXCEPT ![s].worked = TRUE]
  /\ UNCHANGED <<dbVars, userVars, running, tick, crashes>>

AgentAsk(s) ==
  /\ drive[s].pc = "agent"
  /\ drive' = [drive EXCEPT ![s].worked = TRUE]
  /\ needInput(drive[s].id, "ask")
  /\ UNCHANGED <<ripe, conv, orphans, userVars, running, tick, crashes>>

AgentFinishTask(s) ==
  /\ drive[s].pc = "agent" /\ ~drive[s].finished
  /\ drive' = [drive EXCEPT ![s].worked = TRUE, ![s].finished = TRUE]
  /\ UNCHANGED <<dbVars, userVars, running, tick, crashes>>

AgentEnd(s) ==
  /\ Step(s, "agent", "refresh")
  /\ UNCHANGED <<dbVars, userVars, running, tick, crashes>>

\* refresh = the row read back, or the due snapshot if it is gone.
Refresh(s) ==
  LET c == drive[s].id
      got == IF Exists(c) THEN [status |-> row[c].status, attempts |-> row[c].attempts]
             ELSE [status |-> "queued", attempts |-> drive[s].attempts]
      next == IF got.status = "need_input" THEN "asked"
              ELSE IF drive[s].finished THEN "accept" ELSE "conclude"
  IN  /\ drive[s].pc = "refresh"
      /\ drive' = [drive EXCEPT ![s].pc = next, ![s].status = got.status,
                                ![s].attempts = got.attempts]
      /\ UNCHANGED <<dbVars, userVars, running, tick, crashes>>

\* A question is queued: the round only leaves its summary in the conversation.
Asked(s) ==
  /\ Step(s, "asked", "exit")
  /\ appendConvMsg(s)
  /\ UNCHANGED <<row, ripe, conv, userVars, running, tick, crashes>>

\* Mutant: a passed acceptance closes the contract without the user's retest.
Accept_SkipsRetest(s, pass) ==
  /\ Step(s, "accept", "cap")
  /\ setStatusAttempts(drive[s].id, IF pass THEN "done" ELSE "queued",
                       Bump(drive[s].attempts))
  /\ appendConvMsg(s)
  /\ UNCHANGED <<ripe, conv, userVars, running, tick, crashes>>

\* runAcceptance has come back; the verdict is written over whatever the row
\* says by now.
Accept(s, pass) ==
  /\ Step(s, "accept", "cap")
  /\ setStatusAttempts(drive[s].id, IF pass THEN "candidate_done" ELSE "queued",
                       Bump(drive[s].attempts))
  /\ appendConvMsg(s)
  /\ UNCHANGED <<ripe, conv, userVars, running, tick, crashes>>

\* The round ended without finish_task and without any tool call.
Idle(s) == ~drive[s].worked
AsksJudge(s) == Idle(s) /\ drive[s].attempts >= MaxIdleConclude

Conclude(s) ==
  /\ Step(s, "conclude", "cap")
  /\ IF AsksJudge(s)
     THEN needInput(drive[s].id, "judge")
     ELSE setStatusAttempts(drive[s].id, "queued", Bump(drive[s].attempts))
  /\ appendConvMsg(s)
  /\ UNCHANGED <<ripe, conv, userVars, running, tick, crashes>>

\* The round cap looks at the status read in Refresh, not at the one written
\* since.
CapHit(s) ==
  /\ Bump(drive[s].attempts) >= MaxAutoRounds
  /\ drive[s].status = "queued"

Cap(s) ==
  /\ Step(s, "cap", "exit")
  /\ IF CapHit(s) THEN setStatus(drive[s].id, "blocked") ELSE UNCHANGED row
  /\ UNCHANGED <<ripe, conv, orphans, userVars, running, tick, crashes>>

\* Any await of the try block may throw: the model call, a statement.
Throw(s) ==
  /\ \/ drive[s].pc \in {"claim", "conv", "agent", "refresh", "asked", "accept", "conclude"}
     \/ drive[s].pc = "cap" /\ CapHit(s)
  /\ drive' = [drive EXCEPT ![s].pc = "failed"]
  /\ UNCHANGED <<dbVars, userVars, running, tick, crashes>>

\* catch: setStatus 'queued', itself allowed to fail.
Catch(s) ==
  /\ Step(s, "failed", "exit")
  /\ setStatus(drive[s].id, "queued") \/ UNCHANGED row
  /\ UNCHANGED <<ripe, conv, orphans, userVars, running, tick, crashes>>

\* Mutant: the deletion is missing on the way out.
Exit_KeepsId(s) ==
  /\ drive[s].pc = "exit"
  /\ drive' = [drive EXCEPT ![s] = Free]
  /\ UNCHANGED <<dbVars, userVars, running, tick, crashes>>

\* finally: running.delete(c.id).
Exit(s) ==
  /\ drive[s].pc = "exit"
  /\ running' = running \ {drive[s].id}
  /\ drive' = [drive EXCEPT ![s] = Free]
  /\ UNCHANGED <<dbVars, userVars, tick, crashes>>

-----------------------------------------------------------------------------
(* Time and crashes.                                                       *)

\* Three minutes pass without a write to the row.
Age(c) ==
  /\ row[c].status = "running" /\ row[c].fresh
  /\ row' = [row EXCEPT ![c].fresh = FALSE]
  /\ UNCHANGED <<ripe, conv, orphans, userVars, running, tick, drive, crashes>>

Crash ==
  /\ crashes < MaxCrashes
  /\ crashes' = crashes + 1
  /\ running' = {}
  /\ tick' = [t \in Ticker |-> TickIdle]
  /\ drive' = [s \in Slot |-> Free]
  /\ reading' = [c \in Contract |-> "idle"]
  /\ UNCHANGED <<dbVars, seen, calls>>

-----------------------------------------------------------------------------

UserNext(c) ==
  \/ \E now \in BOOLEAN : Create(c, now)
  \/ RunAtArrives(c)
  \/ ListContracts(c)
  \/ \E decision \in {"accept", "reject"} : confirm(c, decision)
  \/ answerRead(c)
  \/ \E goOn \in BOOLEAN : answerWrite(c, goOn)
  \/ deleteConversation(c)
  \/ Age(c)

TickNext(t) ==
  TickStart(t) \/ TickRecover(t) \/ TickSelect(t) \/ TickDrive(t) \/ TickEnd(t)

\* The steps of a round that its own code takes, agent included.
RoundNext(s) ==
  \/ Claim(s) \/ findOrCreateConv(s)
  \/ AgentEnd(s) \/ Refresh(s) \/ Asked(s)
  \/ \E pass \in BOOLEAN : Accept(s, pass)
  \/ Conclude(s) \/ Cap(s) \/ Catch(s) \/ Exit(s)

AgentNext(s) == AgentTool(s) \/ AgentAsk(s) \/ AgentFinishTask(s) \/ Throw(s)

Next ==
  \/ \E c \in Contract : UserNext(c)
  \/ \E t \in Ticker : TickNext(t)
  \/ \E s \in Slot : RoundNext(s) \/ AgentNext(s)
  \/ Crash

Spec == Init /\ [][Next]_vars

\* The interval timer keeps ticking, awaited statements and the agent return
\* (runAgent fuses unattended rounds), and three minutes do pass.
Fairness ==
  /\ \A t \in Ticker : WF_vars(TickNext(t))
  /\ \A s \in Slot : WF_vars(RoundNext(s))
  /\ \A c \in Contract : WF_vars(Age(c)) /\ WF_vars(\E g \in BOOLEAN : answerWrite(c, g))

FairSpec == Spec /\ Fairness
-----------------------------------------------------------------------------
(* Safety.                                                                 *)

\* The driver executes at most MaxRunning rounds at a time, also when ticks
\* overlap: tick() tests the size before its queries and again per contract.
ConcurrencyLimit == Cardinality(Active) <= MaxRunning

\* No contract is executed by two rounds of one process, although the stale
\* recovery requeues live rounds and overlapping ticks hold the same snapshot.
OneRoundPerContract ==
  \A r, s \in Active : drive[r].id = drive[s].id => r = s

\* The running set is exactly the contracts of the rounds in progress: an id
\* left behind would bar the contract for the life of the process, an id lost
\* would admit a second round.
RunningIsExact == running = {drive[s].id : s \in Active}

\* A contract that waits for the user carries the question it waits on:
\* whatever interleaving of questions, late answers and round ends, the user
\* is never asked to decide about nothing.
WaitingHasQuestion ==
  \A c \in Contract : row[c].status = "need_input" => row[c].ask # "none"

\* Nobody but the user's verdict turns a contract into done: neither a round
\* that ends late nor the recovery of a stale row does.
DoneOnlyByConfirm ==
  [][\A c \in Contract :
        row[c].status # "done" /\ row'[c].status = "done"
          => seen[c] = "candidate_done" /\ calls' = calls + 1]_vars

(* Liveness.                                                               *)

\* No contract stays 'running' for ever: the round writes it back, or after a
\* crash the three-minute recovery does.
RunningResolves ==
  \A c \in Contract : row[c].status = "running" ~> row[c].status # "running"

\* A queued contract that is due gets a round, also when its last round was
\* cut by a crash or by an exception.
QueuedGetsRound ==
  \A c \in Contract :
    row[c].status = "queued" /\ c \in ripe
      ~> (\E s \in Active : drive[s].id = c) \/ row[c].status # "queued"

\* A contract that someone waits for goes on: the two parts above.
RoundsGoOn == RunningResolves /\ QueuedGetsRound

(* What the comments of driver.js promise and the code does not keep.      *)

\* driver.js:21: at most MAX_AUTO_ROUNDS automatic rounds per activation.
RoundCap == \A c \in Contract : row[c].attempts <= MaxAutoRounds

\* index.js:427: no message is written into a conversation after its deletion.
NoOrphanMessage == orphans = {}
=============================================================================
