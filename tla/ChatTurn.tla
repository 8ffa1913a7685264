------------------------------ MODULE ChatTurn ------------------------------
(***************************************************************************)
(* Chat turns of one account: POST /api/chat (server/index.js) with the    *)
(* account's count of running chats, the registry of running turns         *)
(* (server/turns.js), stop, client disconnect and conversation delete,     *)
(* over the delivery records of server/deliveries.js.                      *)
(*                                                                         *)
(* The handler is cut at its awaits.  Turns without an Idempotency-Key     *)
(* never touch the delivery records; the model of those is instantiated,   *)
(* and a keyed turn takes its steps together with its request there.       *)
(***************************************************************************)
EXTENDS Integers, FiniteSets

CONSTANTS
  Request, Key, Body, None,
  Conv,            \* conversations of the account
  MaxConcurrent,   \* settings max_concurrent_chats (0: no limit)
  MaxCrashes,      \* bound: process crashes
  MaxLost          \* bound: finish writes lost, and handlers that throw

ASSUME ChatTurnAssumption ==
  /\ MaxConcurrent \in Nat
  /\ None \notin Conv \cup Request \cup Key \cup Body
  /\ IsFiniteSet(Request)
  /\ MaxCrashes \in Nat /\ MaxLost \in Nat

VARIABLES
  row, req, crashes, lost,   \* the delivery records
  chat,      \* the handlers
  inflight,  \* the account's count of running chats
  turns,     \* turns.js: the turn registered for each conversation
  conv,      \* conversation rows, and how far a delete of each has come
  messages   \* the messages of each conversation

D == INSTANCE Deliveries

deliveryVars == <<row, req, crashes, lost>>
vars == <<row, req, crashes, lost, chat, inflight, turns, conv, messages>>

Running == {"agent", "save", "stop", "fail", "record", "end"}
Busy == {"append", "setup"} \cup Running

\* cur: inflight as read before the idempotency gate.  gone: the client left.
Chat == [pc: {"idle", "gate", "refuse", "dead", "done"} \cup Busy,
         conv: Conv \cup {None}, keyed: BOOLEAN, cur: Nat,
         aborted: {"no", "user", "disconnect", "delete"}, gone: BOOLEAN]
NewChat == [pc |-> "idle", conv |-> None, keyed |-> FALSE, cur |-> 0,
            aborted |-> "no", gone |-> FALSE]

Message == [by: Request, role: {"user", "assistant"}]

TypeOK ==
  /\ D!TypeOK
  /\ chat \in [Request -> Chat]
  /\ inflight \in Nat
  /\ turns \in [Conv -> Request \cup {None}]
  /\ conv \in [Conv -> {"live", "deleting", "removed", "deleted"}]
  /\ messages \in [Conv -> SUBSET Message]

Init ==
  /\ D!Init
  /\ chat = [r \in Request |-> NewChat]
  /\ inflight = 0
  /\ turns = [c \in Conv |-> None]
  /\ conv = [c \in Conv |-> "live"]
  /\ messages = [c \in Conv |-> {}]

Goto(r, pc) == chat' = [chat EXCEPT ![r].pc = pc]
Full(n) == MaxConcurrent > 0 /\ n >= MaxConcurrent
RowPresent(c) == conv[c] \in {"live", "deleting"}
Append(c, m) == messages' = [messages EXCEPT ![c] = @ \cup {m}]

-----------------------------------------------------------------------------
(* Admission.                                                              *)

\* No key: the count is read, compared and raised without an await between.
ReceiveUnkeyed(r, c) ==
  /\ chat[r].pc = "idle"
  /\ conv[c] = "live"
  /\ chat' = [chat EXCEPT ![r].conv = c, ![r].cur = inflight,
                          ![r].pc = IF Full(inflight) THEN "done" ELSE "append"]
  /\ inflight' = IF Full(inflight) THEN inflight ELSE inflight + 1
  /\ UNCHANGED <<row, req, crashes, lost, turns, conv, messages>>

\* With a key: the count is read, then the delivery record is consulted.
ReceiveKeyed(r, c, k, b) ==
  /\ chat[r].pc = "idle"
  /\ conv[c] = "live"
  /\ D!Arrive(r, k, b)
  /\ chat' = [chat EXCEPT ![r].conv = c, ![r].keyed = TRUE,
                          ![r].cur = inflight, ![r].pc = "gate"]
  /\ UNCHANGED <<inflight, turns, conv, messages>>

Gate(r) ==
  /\ chat[r].pc = "gate"
  /\ D!findByKey(r) \/ D!claimRetry(r) \/ D!insert(r) \/ D!BeginThrows(r)
  /\ UNCHANGED <<chat, inflight, turns, conv, messages>>

\* Mutant: the refusal returns without finishing the delivery.
Refuse_Unrecorded(r) ==
  /\ chat[r].pc = "gate" /\ req[r].pc = "execute"
  /\ Full(chat[r].cur)
  /\ Goto(r, "done")
  /\ req' = [req EXCEPT ![r].pc = "closed"]
  /\ UNCHANGED <<row, crashes, lost, inflight, turns, conv, messages>>

Refuse(r) ==
  /\ chat[r].pc = "gate" /\ req[r].pc = "execute"
  /\ Full(chat[r].cur)
  /\ D!Execute(r, FALSE)
  /\ Goto(r, "refuse")
  /\ UNCHANGED <<inflight, turns, conv, messages>>

\* The count read before the gate is the one compared and written back.
Admit(r) ==
  /\ chat[r].pc = "gate" /\ req[r].pc = "execute"
  /\ ~Full(chat[r].cur)
  /\ inflight' = chat[r].cur + 1
  /\ Goto(r, "append")
  /\ UNCHANGED <<row, req, crashes, lost, turns, conv, messages>>

-----------------------------------------------------------------------------
(* The turn.                                                               *)

AppendQuestion(r) ==
  /\ chat[r].pc = "append"
  /\ Append(chat[r].conv, [by |-> r, role |-> "user"])
  /\ Goto(r, "setup")
  /\ UNCHANGED <<row, req, crashes, lost, inflight, turns, conv>>

\* A statement before the try block throws: the handler answers 500 and
\* leaves, with the slot and the delivery row as they are.
HandlerThrows(r) ==
  /\ chat[r].pc \in {"append", "setup"}
  /\ lost < MaxLost
  /\ Goto(r, "dead")
  /\ IF chat[r].keyed THEN D!Execute(r, FALSE) ELSE UNCHANGED deliveryVars
  /\ UNCHANGED <<inflight, turns, conv, messages>>

registerTurn(r) ==
  /\ chat[r].pc = "setup"
  /\ turns' = [turns EXCEPT ![chat[r].conv] = r]
  /\ Goto(r, "agent")
  /\ UNCHANGED <<row, req, crashes, lost, inflight, conv, messages>>

\* runAgent returns or throws; it reports "stopped" only after an abort.
AgentEnds(r) ==
  /\ chat[r].pc = "agent"
  /\ \/ Goto(r, "save") \/ Goto(r, "fail")
     \/ chat[r].aborted # "no" /\ Goto(r, "stop")
  /\ UNCHANGED <<row, req, crashes, lost, inflight, turns, conv, messages>>

\* Mutant: a plain INSERT, as for the question.
guardAppend_Unguarded(r) ==
  Append(chat[r].conv, [by |-> r, role |-> "assistant"])

\* INSERT ... SELECT ... WHERE the conversation exists; nothing if it does not,
\* nor when the statement fails (the error is swallowed).
guardAppend(r) ==
  \/ /\ RowPresent(chat[r].conv)
     /\ Append(chat[r].conv, [by |-> r, role |-> "assistant"])
  \/ UNCHANGED messages

\* On to the delivery record, if the turn has one.
Conclude(r, ok) ==
  IF chat[r].keyed
  THEN D!Execute(r, ok) /\ Goto(r, "record")
  ELSE UNCHANGED deliveryVars /\ Goto(r, "end")

SaveAnswer(r) ==
  /\ chat[r].pc = "save"
  /\ guardAppend(r)
  /\ Conclude(r, TRUE)
  /\ UNCHANGED <<inflight, turns, conv>>

\* Mutant: the stopped turn returns early.
SavePlaceholder_ReturnsEarly(r) ==
  /\ chat[r].pc \in {"stop", "fail"}
  /\ guardAppend(r)
  /\ IF chat[r].pc = "stop"
     THEN Goto(r, "done") /\ UNCHANGED deliveryVars
     ELSE Conclude(r, FALSE)
  /\ UNCHANGED <<inflight, turns, conv>>

SavePlaceholder(r) ==
  /\ chat[r].pc \in {"stop", "fail"}
  /\ guardAppend(r)
  /\ Conclude(r, FALSE)
  /\ UNCHANGED <<inflight, turns, conv>>

\* finishDelivery of a refused, saved, stopped or failed turn; its write may be
\* lost.  A handler that threw never gets there.
Record(r) ==
  /\ \/ chat[r].pc \in {"refuse", "record"} /\ (D!finishDelivery(r) \/ D!FinishLost(r))
     \/ chat[r].pc = "dead" /\ D!FinishLost(r)
  /\ chat' = [chat EXCEPT ![r].pc = IF @ = "record" THEN "end" ELSE "done"]
  /\ UNCHANGED <<inflight, turns, conv, messages>>

\* Mutant: the registration is dropped whosever it is.
releaseTurn_Any(r) ==
  turns' = [turns EXCEPT ![chat[r].conv] = None]

releaseTurn(r) ==
  turns' = [turns EXCEPT ![chat[r].conv] = IF @ = r THEN None ELSE @]

\* Mutant: the slot is given back only by a turn that nobody stopped.
End_AbortedKeepsSlot(r) ==
  /\ chat[r].pc = "end"
  /\ releaseTurn(r)
  /\ inflight' = IF inflight > 0 /\ chat[r].aborted = "no" THEN inflight - 1 ELSE inflight
  /\ Goto(r, "done")
  /\ UNCHANGED <<row, req, crashes, lost, conv, messages>>

\* Mutant: the count has no floor.
End_NoFloor(r) ==
  /\ chat[r].pc = "end"
  /\ releaseTurn(r)
  /\ inflight' = inflight - 1
  /\ Goto(r, "done")
  /\ UNCHANGED <<row, req, crashes, lost, conv, messages>>

\* Math.max(0, (inflight || 1) - 1)
End(r) ==
  /\ chat[r].pc = "end"
  /\ releaseTurn(r)
  /\ inflight' = IF inflight > 0 THEN inflight - 1 ELSE 0
  /\ Goto(r, "done")
  /\ UNCHANGED <<row, req, crashes, lost, conv, messages>>

-----------------------------------------------------------------------------
(* Stop, disconnect, delete, crash.                                        *)

\* The controller of a turn keeps its first reason.
Abort(r, reason) ==
  chat' = [chat EXCEPT ![r].aborted = IF @ = "no" THEN reason ELSE @]

\* The registered turn of the conversation, if any, is aborted.
stopTurn(c, reason) ==
  IF turns[c] = None THEN UNCHANGED chat ELSE Abort(turns[c], reason)

Stop(c) ==
  /\ turns[c] # None
  /\ chat[turns[c]].aborted = "no"
  /\ stopTurn(c, "user")
  /\ UNCHANGED <<row, req, crashes, lost, inflight, turns, conv, messages>>

\* Mutant: a client that leaves has its delivery recorded as failed at once,
\* while the agent still works.
Disconnect_Fails(r) ==
  /\ chat[r].pc \in Running
  /\ ~chat[r].gone
  /\ chat' = [chat EXCEPT ![r].gone = TRUE]
  /\ row' = IF chat[r].keyed THEN [row EXCEPT ![req[r].key].state = "failed"] ELSE row
  /\ UNCHANGED <<req, crashes, lost, inflight, turns, conv, messages>>

\* The close listeners are attached where the turn is registered.
Disconnect(r) ==
  /\ chat[r].pc \in {"gate"} \cup Busy
  /\ ~chat[r].gone
  /\ chat' = [chat EXCEPT ![r].gone = TRUE,
                          ![r].aborted = IF chat[r].pc \in Running /\ @ = "no"
                                         THEN "disconnect" ELSE @]
  /\ UNCHANGED <<row, req, crashes, lost, inflight, turns, conv, messages>>

\* The turn is stopped, the row removed, then the messages.
DeleteStops(c) ==
  /\ conv[c] = "live"
  /\ stopTurn(c, "delete")
  /\ conv' = [conv EXCEPT ![c] = "deleting"]
  /\ UNCHANGED <<row, req, crashes, lost, inflight, turns, messages>>

DeleteRow(c) ==
  /\ conv[c] = "deleting"
  /\ conv' = [conv EXCEPT ![c] = "removed"]
  /\ UNCHANGED <<row, req, crashes, lost, chat, inflight, turns, messages>>

DeleteMessages(c) ==
  /\ conv[c] = "removed"
  /\ conv' = [conv EXCEPT ![c] = "deleted"]
  /\ messages' = [messages EXCEPT ![c] = {}]
  /\ UNCHANGED <<row, req, crashes, lost, chat, inflight, turns>>

\* Handlers, count and registry are memory; a delete under way is cut short.
Crash ==
  /\ D!Crash
  /\ chat' = [r \in Request |-> IF chat[r].pc = "idle" THEN chat[r]
                                ELSE [chat[r] EXCEPT !.pc = "done"]]
  /\ inflight' = 0
  /\ turns' = [c \in Conv |-> None]
  /\ conv' = [c \in Conv |-> IF conv[c] = "deleting" THEN "live" ELSE conv[c]]
  /\ UNCHANGED messages

-----------------------------------------------------------------------------

Receive(r) ==
  \E c \in Conv : ReceiveUnkeyed(r, c)
                  \/ \E k \in Key, b \in Body : ReceiveKeyed(r, c, k, b)

\* The steps the handler takes by itself once the agent has returned.
Finish(r) == SaveAnswer(r) \/ SavePlaceholder(r) \/ Record(r) \/ End(r)

Turn(r) ==
  \/ Gate(r) \/ Refuse(r) \/ Admit(r)
  \/ AppendQuestion(r) \/ HandlerThrows(r) \/ registerTurn(r)
  \/ AgentEnds(r) \/ Finish(r)

Delete(c) == DeleteStops(c) \/ DeleteRow(c) \/ DeleteMessages(c)

Next ==
  \/ \E r \in Request : Receive(r) \/ Turn(r) \/ Disconnect(r)
  \/ \E c \in Conv : Stop(c) \/ Delete(c)
  \/ Crash

Spec == Init /\ [][Next]_vars

\* Statements resolve, and an aborted agent returns (its calls carry the signal).
LiveSpec ==
  /\ Spec
  /\ \A r \in Request : WF_vars(chat[r].aborted # "no" /\ AgentEnds(r))
                        /\ WF_vars(Finish(r))
-----------------------------------------------------------------------------
(* Properties.                                                             *)

IsBusy(r) == chat[r].pc \in Busy
SameKey(r, s) == req[r].key # None /\ req[r].key = req[s].key
Working(r) == chat[r].pc \in Busy \ {"end"}
Answered(r) == req[r].ok

\* index.js:1001: an account never has more chats running than its limit.
SlotLimit ==
  MaxConcurrent > 0 => Cardinality({r \in Request : IsBusy(r)}) <= MaxConcurrent

\* Among turns without keys the limit holds and the count is exact: it counts
\* the turns that run and the handlers that threw before their try block.
UnkeyedCountExact ==
  (\A r \in Request : ~chat[r].keyed) =>
    /\ inflight = Cardinality({r \in Request : IsBusy(r) \/ chat[r].pc = "dead"})
    /\ SlotLimit

\* What the registry names is a turn of that conversation that still runs, so
\* a stop that reports success has aborted something.
RegisteredIsRunning ==
  \A c \in Conv :
    turns[c] # None => chat[turns[c]].pc \in Running /\ chat[turns[c]].conv = c

\* No answer, placeholder included, is left in a conversation once it has been
\* deleted, however the delete and the end of the turn interleave.
NoOrphanAnswer ==
  \A c \in Conv : conv[c] = "deleted" => \A m \in messages[c] : m.role = "user"

\* A registration goes away only with the turn it names.
ReleaseOwn ==
  [][\A c \in Conv :
       turns[c] # None /\ turns'[c] = None => chat'[turns[c]].pc = "done"]_vars

\* Two turns sent with one key never run together, and once one of them has
\* answered no other runs: a resend costs nothing.
OneTurnPerKey ==
  \A r, s \in Request :
    r # s /\ SameKey(r, s) =>
      /\ ~(Working(r) /\ Working(s))
      /\ ~(Answered(r) /\ Answered(s))

\* The turns use the delivery records only in the ways their model allows.
DeliveriesSpec == D!Spec

\* A turn that is told to stop ends and leaves the registry.
StoppedTurnEnds ==
  \A r \in Request :
    (chat[r].pc = "agent" /\ chat[r].aborted # "no")
      ~> (chat[r].pc = "done" /\ turns[chat[r].conv] # r)

\* What the registry, the keys and the count of the turns without a key keep of
\* the turns: the parts above.
RegistrySafe ==
  TypeOK /\ RegisteredIsRunning /\ OneTurnPerKey /\ UnkeyedCountExact

\* What becomes of a registration: the parts above.
StopsArrive == ReleaseOwn /\ StoppedTurnEnds
=============================================================================
