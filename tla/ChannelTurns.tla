---------------------------- MODULE ChannelTurns ----------------------------
(***************************************************************************)
(* Messages of one chat on a channel (server/channels/feishu-webhook.js,   *)
(* wechat.js): the conversation of the chat is found or created, and the   *)
(* shared entry runChannelTurn (server/channels/run-turn.js) runs a turn   *)
(* in it, with a delivery record, a row of agent_runs (server/runtrack.js) *)
(* and an entry in the registry of turns.  That a message may answer a     *)
(* card instead is the module Cards.                                       *)
(***************************************************************************)
EXTENDS Integers, Sequences, FiniteSets

CONSTANTS
  Message,      \* messages of the chat
  MaxRestarts   \* bound on crashes

VARIABLES
  convs,        \* conversation rows of the chat
  runRows,      \* agent_runs: conversation and status, in the order of ids
  handler,      \* the handler of each message
  slot,         \* the registry: the turn registered in each conversation, or none
  restarts

chanVars == <<convs, runRows, handler, slot, restarts>>

NoTurn == "none"

\* A word is not a message.
ASSUME ChanAssumption == NoTurn \notin Message /\ IsFiniteSet(Message)

Fresh == [pc |-> "new", conv |-> 0, run |-> 0, place |-> 0, record |-> "none",
          aborted |-> FALSE, out |-> "none"]
InRun == {"agent", "mark", "finish"}
HasRun(m) == handler[m].pc \in InRun

ChanInit ==
  /\ convs = 0 /\ runRows = <<>> /\ slot = <<>>
  /\ handler = [m \in Message |-> Fresh] /\ restarts = 0

At(m, pc) == handler[m].pc = pc
To(m, pc) == handler' = [handler EXCEPT ![m].pc = pc]

\* findOrCreateConv: no unique index keeps two rows of one chat apart.
FindConv(m) ==
  /\ At(m, "new")
  /\ handler' = IF convs = 0 THEN [handler EXCEPT ![m].pc = "create"]
                ELSE [handler EXCEPT ![m].pc = "begin", ![m].conv = 1]
  /\ UNCHANGED <<convs, runRows, slot, restarts>>
CreateConv(m) ==
  /\ At(m, "create") /\ convs' = convs + 1 /\ slot' = Append(slot, NoTurn)
  /\ handler' = [handler EXCEPT ![m].pc = "begin", ![m].conv = convs']
  /\ UNCHANGED <<runRows, restarts>>

\* beginDelivery without a key; it may fail, and the turn runs all the same.
BeginRecord(m) ==
  /\ At(m, "begin")
  /\ \E r \in {"running", "none"} :
       handler' = [handler EXCEPT ![m].pc = "ask", ![m].record = r]
  /\ UNCHANGED <<convs, runRows, slot, restarts>>
\* The user's message and the history; a statement that throws leaves the
\* function, before the try.
AskAndRead(m) ==
  /\ At(m, "ask") /\ \/ To(m, "look") \/ To(m, "threw")
  /\ UNCHANGED <<convs, runRows, slot, restarts>>

\* ensureRun: the latest row of the conversation is read, then written.
LatestOf(c) ==
  LET mine == {k \in DOMAIN runRows : runRows[k].conv = c}
  IN IF mine = {} THEN 0 ELSE CHOOSE k \in mine : \A j \in mine : j <= k
LookUp(m) ==
  /\ At(m, "look")
  /\ LET k == LatestOf(handler[m].conv)
         what == IF k = 0 THEN "insert"
                 ELSE CASE runRows[k].status = "running" -> "start"
                        [] runRows[k].status \in {"interrupted", "paused"} -> "revive"
                        [] OTHER -> "insert"
     IN handler' = [handler EXCEPT ![m].pc = what, ![m].run = k]
  /\ UNCHANGED <<convs, runRows, slot, restarts>>
Revive(m) ==
  /\ At(m, "revive") /\ To(m, "start")
  /\ runRows' = [runRows EXCEPT ![handler[m].run].status = "running"]
  /\ UNCHANGED <<convs, slot, restarts>>
InsertRun(m) ==
  /\ At(m, "insert")
  /\ runRows' = Append(runRows, [conv |-> handler[m].conv, status |-> "running"])
  /\ handler' = [handler EXCEPT ![m].pc = "start", ![m].run = Len(runRows')]
  /\ UNCHANGED <<convs, slot, restarts>>
\* run_start, registerTurn, and the agent is called.
StartTurn(m) ==
  /\ At(m, "start")
  /\ handler' = [handler EXCEPT ![m].pc = "agent",
                   ![m].place = 1 + Cardinality({n \in Message : handler[n].place > 0})]
  /\ slot' = [slot EXCEPT ![handler[m].conv] = m]
  /\ UNCHANGED <<convs, runRows, restarts>>

\* stopTurn, from the browser or in the process.
StopSlot(c) ==
  /\ slot[c] # NoTurn /\ ~handler[slot[c]].aborted
  /\ handler' = [handler EXCEPT ![slot[c]].aborted = TRUE]
  /\ UNCHANGED <<convs, runRows, slot, restarts>>

\* The agent returns or throws, and the answer is saved (a failure of that is
\* only logged); only an aborted run says that it was stopped.
AgentReturns(m, how) ==
  /\ At(m, "agent")
  /\ how = "stopped" => handler[m].aborted
  /\ handler' = [handler EXCEPT ![m].out = how, ![m].pc = "mark"]
  /\ UNCHANGED <<convs, runRows, slot, restarts>>
\* Mutant: a guard leaves the row running.
MarkOf_NoGuard(out) ==
  CASE out = "saved" -> "completed" [] out = "paused" -> "paused"
    [] out = "guard" -> "running" [] OTHER -> "interrupted"
\* Mutant: a turn that threw leaves a word that no reader knows.
MarkOf_Failed(out) ==
  CASE out = "saved" -> "completed" [] out = "paused" -> "paused"
    [] out = "error" -> "failed" [] OTHER -> "interrupted"
\* markRun; then finishDelivery and, in the finally, releaseTurn.
MarkOf(out) ==
  CASE out = "saved" -> "completed" [] out = "paused" -> "paused"
    [] OTHER -> "interrupted"
Mark(m) ==
  /\ At(m, "mark") /\ To(m, "finish")
  /\ runRows' = [runRows EXCEPT ![handler[m].run].status = MarkOf(handler[m].out)]
  /\ UNCHANGED <<convs, slot, restarts>>
\* Mutant: whoever is registered is taken out.
Released_Any(m) == [slot EXCEPT ![handler[m].conv] = NoTurn]
\* Mutant: a stopped turn returns before the finally.
Released_NotStopped(m) ==
  IF handler[m].out # "stopped" /\ slot[handler[m].conv] = m
  THEN [slot EXCEPT ![handler[m].conv] = NoTurn] ELSE slot
Released(m) == IF slot[handler[m].conv] = m
               THEN [slot EXCEPT ![handler[m].conv] = NoTurn] ELSE slot
\* Mutant: the record of a stopped turn is not closed.
RecordOf_NoStop(m) ==
  IF handler[m].record = "none" THEN "none"
  ELSE CASE handler[m].out = "stopped" -> "running"
         [] handler[m].out = "error" -> "failed" [] OTHER -> "succeeded"
RecordOf(m) ==
  IF handler[m].record = "none" THEN "none"
  ELSE IF handler[m].out \in {"stopped", "error"} THEN "failed" ELSE "succeeded"
FinishTurn(m) ==
  /\ At(m, "finish") /\ slot' = Released(m)
  /\ handler' = [handler EXCEPT ![m].pc = "replied", ![m].record = RecordOf(m)]
  /\ UNCHANGED <<convs, runRows, restarts>>

\* The process restarts; interruptStaleOnBoot runs before the first request.
Booted(row) ==
  IF row.status = "running" THEN [row EXCEPT !.status = "interrupted"] ELSE row
Restart ==
  /\ restarts < MaxRestarts /\ restarts' = restarts + 1
  /\ runRows' = [k \in DOMAIN runRows |-> Booted(runRows[k])]
  /\ slot' = [c \in DOMAIN slot |-> NoTurn]
  /\ handler' = [m \in Message |->
       IF handler[m].pc \in {"new", "threw", "replied"} THEN handler[m]
       ELSE [handler[m] EXCEPT !.pc = "lost"]]
  /\ UNCHANGED convs

HandlerStep(m) ==
  \/ FindConv(m) \/ CreateConv(m) \/ BeginRecord(m) \/ AskAndRead(m)
  \/ LookUp(m) \/ Revive(m) \/ InsertRun(m) \/ StartTurn(m)
  \/ \E how \in {"saved", "paused", "guard", "stopped", "error"} :
       AgentReturns(m, how)
  \/ Mark(m) \/ FinishTurn(m)
ChanNext ==
  \/ \E m \in Message : HandlerStep(m)
  \/ \E c \in DOMAIN slot : StopSlot(c)
  \/ Restart
ChanSpec == ChanInit /\ [][ChanNext]_chanVars
-----------------------------------------------------------------------------
ChanTypeOK ==
  /\ convs \in 0..Cardinality(Message) /\ Len(slot) = convs
  /\ \A c \in DOMAIN slot : slot[c] \in Message \cup {NoTurn}
  /\ \A k \in DOMAIN runRows :
       /\ runRows[k].conv \in 1..convs
       /\ runRows[k].status \in {"running", "interrupted", "paused", "completed"}
  /\ \A m \in Message : handler[m].conv \in 0..convs

\* A row says running only while a turn that uses it goes on or is about to,
\* so that a later message never joins a run that is over (runtrack.js:47).
RunningHasTurn ==
  \A k \in DOMAIN runRows : runRows[k].status = "running" =>
    \E m \in Message : handler[m].run = k /\ handler[m].pc \in InRun \cup {"start"}

\* What is registered is a turn of the conversation that goes on: a stop that
\* is acknowledged reaches a turn (turns.js:76-83, run-turn.js:315).
SlotHasTurn ==
  \A c \in DOMAIN slot : slot[c] # NoTurn => HasRun(slot[c]) /\ handler[slot[c]].conv = c

\* The delivery record of a turn that has replied is closed, and says whether
\* the turn ended by itself (run-turn.js:270, 286, 307).
RecordIsClosed ==
  \A m \in Message : At(m, "replied") =>
    handler[m].record \in {"none", IF handler[m].out \in {"stopped", "error"}
                                   THEN "failed" ELSE "succeeded"}

\* A turn in progress is found by a stop of its conversation, unless another
\* turn of the conversation has taken its place and ended (turns.js:38).
NewestIsRegistered ==
  \A c \in DOMAIN slot : slot[c] = NoTurn =>
    \A m \in Message : HasRun(m) /\ handler[m].conv = c =>
      \E n \in Message : /\ At(n, "replied") /\ handler[n].conv = c
                         /\ handler[n].place > handler[m].place

\* What the turns of a channel leave of their records: the parts above.
ChannelSafe ==
  /\ ChanTypeOK /\ RunningHasTurn /\ SlotHasTurn /\ RecordIsClosed
  /\ NewestIsRegistered
=============================================================================
