--------------------------- MODULE ChatTurnProofs ---------------------------
(***************************************************************************)
(* Proofs about the chat turns, for any number of requests, conversations, *)
(* keys and crashes and any limit; and about the batch of the self         *)
(* evaluation, for any number of usage rows, failing reads and deletions.  *)
(*                                                                         *)
(* Of the turns: every step of a turn is a step of the delivery records or *)
(* leaves them alone, so what is proved of the records holds of the turns. *)
(* Where a turn with a key is in its handler says where its request is in  *)
(* the records, and a turn that works is a request that executes.          *)
(***************************************************************************)
EXTENDS ChatTurn, SelfEval, FiniteSetTheorems, TLAPS

\* The records' own proofs.
DP == INSTANCE DeliveriesProofs

Occupies(pc) == pc \in Busy \cup {"dead"}
Occupying == {r \in Request : Occupies(chat[r].pc)}

\* What the place of a turn in its handler says of its request in the records.
Place(r) ==
  /\ chat[r].pc # "idle" => chat[r].conv \in Conv
  /\ chat[r].pc = "idle" => ~chat[r].keyed
  /\ ~chat[r].keyed => /\ chat[r].pc \notin {"gate", "refuse", "record"}
                       /\ req[r].pc = "new" /\ req[r].key = None
  /\ chat[r].keyed =>
       /\ req[r].key \in Key /\ req[r].pc # "new"
       /\ chat[r].pc \in Busy \ {"record", "end"} => req[r].pc = "execute"
       /\ chat[r].pc \in {"refuse", "record", "dead"} => req[r].pc = "finish"

\* Of the requests of one key, one is answered.
AnswerInv ==
  \A r, s \in Request : req[r].ok /\ req[s].ok /\ SameKey(r, s) => r = s

\* Without keys the count is exact, and admission looks at it.
CountInv ==
  (\A r \in Request : ~chat[r].keyed) =>
    /\ inflight = Cardinality(Occupying)
    /\ MaxConcurrent > 0 => Cardinality(Occupying) <= MaxConcurrent

Inv ==
  /\ TypeOK /\ DP!Inv
  /\ \A r \in Request : Place(r)
  /\ AnswerInv /\ RegisteredIsRunning /\ CountInv

-----------------------------------------------------------------------------
(* Every step of a turn is one of the records.                             *)

LEMMA RecordStep == [Next]_vars => [D!Next]_(D!vars)
<1> SUFFICES ASSUME [Next]_vars PROVE [D!Next]_(D!vars)
  OBVIOUS
<1>1. ASSUME NEW r \in Request, Receive(r)  PROVE [D!Next]_(D!vars)
  <2>1. CASE \E c \in Conv : ReceiveUnkeyed(r, c)
    BY <2>1 DEF ReceiveUnkeyed, D!vars
  <2>2. CASE \E c \in Conv, k \in Key, b \in Body : ReceiveKeyed(r, c, k, b)
    <3>1. PICK k \in Key, b \in Body : D!Arrive(r, k, b)
      BY <2>2 DEF ReceiveKeyed
    <3> QED  BY <3>1 DEF D!Next, D!RequestNext
  <2> QED  BY <1>1, <2>1, <2>2 DEF Receive
<1>2. ASSUME NEW r \in Request, Turn(r)  PROVE [D!Next]_(D!vars)
  <2>1. CASE Gate(r)
    BY <2>1 DEF Gate, D!Next, D!RequestNext
  <2>2. ASSUME NEW ok \in BOOLEAN, D!Execute(r, ok)  PROVE [D!Next]_(D!vars)
    BY <2>2 DEF D!Next, D!RequestNext
  <2>3. CASE Refuse(r)
    BY <2>2, <2>3 DEF Refuse
  <2>4. CASE Admit(r) \/ AppendQuestion(r) \/ registerTurn(r) \/ AgentEnds(r) \/ End(r)
    BY <2>4 DEF Admit, AppendQuestion, registerTurn, AgentEnds, End, D!vars
  <2>5. CASE HandlerThrows(r)
    BY <2>2, <2>5 DEF HandlerThrows, deliveryVars, D!vars
  <2>6. ASSUME NEW ok \in BOOLEAN, Conclude(r, ok)  PROVE [D!Next]_(D!vars)
    BY <2>2, <2>6 DEF Conclude, deliveryVars, D!vars
  <2>7. CASE SaveAnswer(r) \/ SavePlaceholder(r)
    BY <2>6, <2>7 DEF SaveAnswer, SavePlaceholder
  <2>8. CASE Record(r)
    BY <2>8 DEF Record, D!Next, D!RequestNext
  <2> QED  BY <1>2, <2>1, <2>3, <2>4, <2>5, <2>7, <2>8 DEF Turn, Finish
<1>3. ASSUME NEW r \in Request, Disconnect(r)  PROVE [D!Next]_(D!vars)
  BY <1>3 DEF Disconnect, D!vars
<1>4. ASSUME NEW c \in Conv, Stop(c) \/ Delete(c)  PROVE [D!Next]_(D!vars)
  BY <1>4 DEF Stop, Delete, DeleteStops, DeleteRow, DeleteMessages, D!vars
<1>5. CASE Crash
  BY <1>5 DEF Crash, D!Next
<1>6. CASE UNCHANGED vars
  BY <1>6 DEF vars, D!vars
<1> QED  BY <1>1, <1>2, <1>3, <1>4, <1>5, <1>6 DEF Next

\* The turns use the delivery records only in the ways their model allows, so
\* that whatever holds of the records holds behind POST /api/chat.
THEOREM TurnsKeepRecords == Spec => DeliveriesSpec
<1>1. Init => D!Init
  BY DEF Init
<1> QED  BY <1>1, RecordStep, PTL DEF Spec, DeliveriesSpec, D!Spec

\* What is proved of the records, for the records of the turns.
LEMMA RecordsInit == D!Init => DP!Inv
<1>1. D!Init => DP!Init
  BY DEF D!Init, DP!Init, D!NoRow, DP!NoRow, D!NewReq, DP!NewReq
<1> QED  BY <1>1, DP!InvInit, ChatTurnAssumption DEF DP!DeliveriesAssumption

LEMMA RecordsStep == DP!Inv /\ [D!Next]_(D!vars) => DP!Inv'
<1>1. \A r \in Request, k \in Key \cup {None}, b \in Body : D!Arrive(r, k, b) => DP!Arrive(r, k, b)
  BY DEF D!Arrive, DP!Arrive
<1>2. \A r \in Request : D!findByKey(r) => DP!findByKey(r)
  BY DEF D!findByKey, DP!findByKey, D!SameRequest, DP!SameRequest, D!Reply, DP!Reply
<1>3. \A r \in Request : D!claimRetry(r) => DP!claimRetry(r)
  BY DEF D!claimRetry, DP!claimRetry, D!Granted, DP!Granted, D!Reply, DP!Reply
<1>4. \A r \in Request : D!insert(r) => DP!insert(r)
  BY DEF D!insert, DP!insert, D!Granted, DP!Granted, D!Reply, DP!Reply
<1>5. \A r \in Request : D!BeginThrows(r) => DP!BeginThrows(r)
  BY DEF D!BeginThrows, DP!BeginThrows, D!Reply, DP!Reply
<1>6. \A r \in Request, ok \in BOOLEAN : D!Execute(r, ok) => DP!Execute(r, ok)
  BY DEF D!Execute, DP!Execute
<1>7. \A r \in Request : D!finishDelivery(r) => DP!finishDelivery(r)
  BY DEF D!finishDelivery, DP!finishDelivery, D!FinishedRow, DP!FinishedRow
<1>8. \A r \in Request : D!FinishLost(r) => DP!FinishLost(r)
  BY DEF D!FinishLost, DP!FinishLost
<1>9. D!Crash => DP!Crash
  BY DEF D!Crash, DP!Crash
<1>10. \A r \in Request : D!RequestNext(r) => DP!RequestNext(r)
  BY <1>1, <1>2, <1>3, <1>4, <1>5, <1>6, <1>7, <1>8 DEF D!RequestNext, DP!RequestNext
<1>11. [D!Next]_(D!vars) => [DP!Next]_(DP!vars)
  BY <1>9, <1>10 DEF D!Next, DP!Next, D!vars, DP!vars
<1> QED  BY <1>11, DP!InvStep, ChatTurnAssumption DEF DP!DeliveriesAssumption

-----------------------------------------------------------------------------
(* The records under the turns.                                            *)

LEMMA RecordTypes == DP!Inv => D!TypeOK /\ req \in [Request -> DP!Req] /\ D!Req = DP!Req
BY DEF DP!Inv, DP!TypeOK, D!TypeOK, D!Req, DP!Req, D!Row, DP!Row

\* What the steps of a request do to it, and that they leave the others alone.
LEMMA RecordMoves ==
  ASSUME DP!Inv, NEW r \in Request
  PROVE  /\ \A k \in Key, b \in Body : D!Arrive(r, k, b) =>
              /\ req'[r].pc = "lookup" /\ req'[r].key = k /\ req[r].pc = "new"
              /\ req'[r].ok = req[r].ok
              /\ \A s \in Request \ {r} : req'[s] = req[s]
         /\ D!findByKey(r) \/ D!claimRetry(r) \/ D!insert(r) \/ D!BeginThrows(r) =>
              /\ req'[r].pc # "new" /\ req'[r].key = req[r].key /\ req'[r].ok = req[r].ok
              /\ \A s \in Request \ {r} : req'[s] = req[s]
         /\ \A ok \in BOOLEAN : D!Execute(r, ok) =>
              /\ req[r].pc = "execute" /\ req'[r].key = req[r].key /\ req'[r].ok = ok
              /\ req[r].key \in Key => req'[r].pc = "finish"
              /\ \A s \in Request \ {r} : req'[s] = req[s]
         /\ D!finishDelivery(r) \/ D!FinishLost(r) =>
              /\ req[r].pc = "finish" /\ req'[r].pc = "closed" /\ req'[r].key = req[r].key
              /\ req'[r].ok = req[r].ok
              /\ \A s \in Request \ {r} : req'[s] = req[s]
<1>1. req \in [Request -> DP!Req] /\ None \notin Key
  BY RecordTypes, ChatTurnAssumption
<1>2. \A k \in Key, b \in Body : D!Arrive(r, k, b) =>
              /\ req'[r].pc = "lookup" /\ req'[r].key = k /\ req[r].pc = "new"
              /\ req'[r].ok = req[r].ok
              /\ \A s \in Request \ {r} : req'[s] = req[s]
  BY <1>1 DEF D!Arrive, DP!Req
<1>3. D!findByKey(r) \/ D!claimRetry(r) \/ D!insert(r) \/ D!BeginThrows(r) =>
              /\ req'[r].pc # "new" /\ req'[r].key = req[r].key /\ req'[r].ok = req[r].ok
              /\ \A s \in Request \ {r} : req'[s] = req[s]
  <2>1. \A answer : D!Reply(r, answer) =>
              /\ req'[r].pc # "new" /\ req'[r].key = req[r].key /\ req'[r].ok = req[r].ok
              /\ \A s \in Request \ {r} : req'[s] = req[s]
    BY <1>1 DEF D!Reply, DP!Req
  <2>2. D!Granted(r) =>
              /\ req'[r].pc # "new" /\ req'[r].key = req[r].key /\ req'[r].ok = req[r].ok
              /\ \A s \in Request \ {r} : req'[s] = req[s]
    BY <1>1 DEF D!Granted, DP!Req
  <2>3. CASE D!findByKey(r)
    BY <1>1, <2>1, <2>3 DEF D!findByKey, DP!Req
  <2>4. CASE D!claimRetry(r) \/ D!insert(r) \/ D!BeginThrows(r)
    BY <2>1, <2>2, <2>4 DEF D!claimRetry, D!insert, D!BeginThrows
  <2> QED  BY <2>3, <2>4
<1>4. \A ok \in BOOLEAN : D!Execute(r, ok) =>
              /\ req[r].pc = "execute" /\ req'[r].key = req[r].key /\ req'[r].ok = ok
              /\ req[r].key \in Key => req'[r].pc = "finish"
              /\ \A s \in Request \ {r} : req'[s] = req[s]
  BY <1>1 DEF D!Execute, DP!Req
<1>5. D!finishDelivery(r) \/ D!FinishLost(r) =>
              /\ req[r].pc = "finish" /\ req'[r].pc = "closed" /\ req'[r].key = req[r].key
              /\ req'[r].ok = req[r].ok
              /\ \A s \in Request \ {r} : req'[s] = req[s]
  BY <1>1 DEF D!finishDelivery, D!FinishLost, DP!Req
<1> QED  BY <1>2, <1>3, <1>4, <1>5

\* A request that is about to be answered owns the row of its key, and the answer of
\* another would be in it.
LEMMA AnswerStep == DP!Inv /\ AnswerInv /\ [D!Next]_(D!vars) => AnswerInv'
<1> SUFFICES ASSUME DP!Inv, AnswerInv, [D!Next]_(D!vars) PROVE AnswerInv'
  OBVIOUS
<1>1. req \in [Request -> DP!Req] /\ None \notin Key
  BY RecordTypes, ChatTurnAssumption
<1>2. ASSUME \A r \in Request : req'[r].ok => req[r].ok /\ req'[r].key = req[r].key
      PROVE  AnswerInv'
  BY <1>2 DEF AnswerInv, SameKey
<1>3. ASSUME NEW r \in Request, NEW k \in Key \cup {None}, NEW b \in Body, D!Arrive(r, k, b)
      PROVE  AnswerInv'
  <2>1. req[r].pc = "new" /\ req'[r].ok = req[r].ok /\ \A s \in Request \ {r} : req'[s] = req[s]
    BY <1>1, <1>3 DEF D!Arrive, DP!Req
  <2>2. ~req[r].ok
    BY <2>1 DEF DP!Inv, DP!StageInv
  <2> QED  BY <1>2, <2>1, <2>2
<1>4. ASSUME NEW r \in Request, NEW ok \in BOOLEAN, D!Execute(r, ok)
      PROVE  AnswerInv'
  <2>1. /\ req[r].pc = "execute" /\ req'[r].key = req[r].key
        /\ \A s \in Request \ {r} : req'[s] = req[s]
    BY <1>4, RecordMoves
  <2>2. req[r].key # None => req[r].holds /\ ~req[r].ok
    BY <2>1 DEF DP!Inv, DP!StageInv, DP!Executing
  <2>3. \A s \in Request : req[s].ok /\ SameKey(r, s) => s = r
    <3> SUFFICES ASSUME NEW s \in Request, req[s].ok, SameKey(r, s) PROVE s = r
      OBVIOUS
    <3>1. req[s].key # None /\ req[r].key = req[s].key
      BY DEF SameKey
    <3>2. row[req[r].key].state = "running"
      BY <2>2, <3>1 DEF DP!Inv, DP!OwnerInv
    <3>3. req[s].holds
      BY <3>1, <3>2 DEF DP!Inv, DP!SuccessInv
    <3> QED  BY <2>2, <3>1, <3>3 DEF DP!Inv, DP!OwnerInv
  <2> QED  BY <2>1, <2>2, <2>3 DEF AnswerInv, SameKey
<1>5. ASSUME NEW r \in Request, D!findByKey(r) \/ D!claimRetry(r) \/ D!insert(r) \/ D!BeginThrows(r)
                                \/ D!finishDelivery(r) \/ D!FinishLost(r)
      PROVE  AnswerInv'
  BY <1>2, <1>5, RecordMoves
<1>6. CASE D!Crash
  <2>1. \A r \in Request : req'[r].ok = req[r].ok /\ req'[r].key = req[r].key
    BY <1>1, <1>6 DEF D!Crash, DP!Req
  <2> QED  BY <1>2, <2>1
<1>7. CASE UNCHANGED D!vars
  BY <1>2, <1>7 DEF D!vars
<1> QED  BY <1>3, <1>4, <1>5, <1>6, <1>7 DEF D!Next, D!RequestNext

-----------------------------------------------------------------------------
(* The invariant.                                                          *)

LEMMA InvInit == Init => Inv
<1> SUFFICES ASSUME Init PROVE Inv
  OBVIOUS
<1>1. D!Init /\ DP!Inv /\ D!TypeOK
  BY RecordsInit, RecordTypes DEF Init
<1>2. \A r \in Request : chat[r] = NewChat /\ chat[r].pc = "idle" /\ ~chat[r].keyed
  BY DEF Init, NewChat
<1>3. NewChat \in Chat
  BY DEF NewChat, Chat
<1>4. TypeOK
  BY <1>1, <1>2, <1>3 DEF Init, TypeOK
<1>5. \A r \in Request : req[r].pc = "new" /\ req[r].key = None
  BY <1>1 DEF D!Init, D!NewReq
<1>6. \A r \in Request : Place(r)
  BY <1>2, <1>5 DEF Place
<1>7. AnswerInv
  BY <1>5 DEF AnswerInv, SameKey
<1>8. RegisteredIsRunning
  BY DEF Init, RegisteredIsRunning
<1>9. CountInv
  <2>1. Occupying = {}
    BY <1>2 DEF Occupying, Occupies, Busy, Running
  <2> QED  BY <2>1, FS_EmptySet, ChatTurnAssumption DEF CountInv, Init
<1> QED  BY <1>1, <1>4, <1>6, <1>7, <1>8, <1>9 DEF Inv

\* The count after a step of one turn.
LEMMA CountStep ==
  ASSUME Inv, NEW r \in Request, NEW q \in Chat, chat' = [chat EXCEPT ![r] = q],
         chat[r].keyed => q.keyed,
         \/ q.keyed
         \/ inflight' = inflight /\ (Occupies(q.pc) <=> Occupies(chat[r].pc))
         \/ inflight' = inflight + 1 /\ ~Full(inflight) /\ ~Occupies(chat[r].pc) /\ Occupies(q.pc)
         \/ inflight' = (IF inflight > 0 THEN inflight - 1 ELSE 0)
            /\ Occupies(chat[r].pc) /\ ~Occupies(q.pc)
  PROVE  CountInv'
<1> SUFFICES ASSUME \A s \in Request : ~chat'[s].keyed
             PROVE  /\ inflight' = Cardinality(Occupying')
                    /\ MaxConcurrent > 0 => Cardinality(Occupying') <= MaxConcurrent
  BY DEF CountInv
<1>1. chat'[r] = q /\ \A s \in Request \ {r} : chat'[s] = chat[s]
  BY DEF Inv, TypeOK
<1>2. ~q.keyed /\ \A s \in Request : ~chat[s].keyed
  BY <1>1
<1>3. /\ inflight = Cardinality(Occupying)
      /\ MaxConcurrent > 0 => Cardinality(Occupying) <= MaxConcurrent
  BY <1>2 DEF Inv, CountInv
<1>4. IsFiniteSet(Occupying) /\ Cardinality(Occupying) \in Nat
  BY FS_Subset, FS_CardinalityType, ChatTurnAssumption DEF Occupying
<1>5. r \in Occupying <=> Occupies(chat[r].pc)
  BY DEF Occupying
<1>6. CASE inflight' = inflight /\ (Occupies(q.pc) <=> Occupies(chat[r].pc))
  <2>1. Occupying' = Occupying
    BY <1>1, <1>6 DEF Occupying, Occupies
  <2> QED  BY <1>3, <1>6, <2>1
<1>7. CASE inflight' = inflight + 1 /\ ~Full(inflight) /\ ~Occupies(chat[r].pc) /\ Occupies(q.pc)
  <2>1. Occupying' = Occupying \cup {r}
    BY <1>1, <1>7 DEF Occupying, Occupies
  <2>2. Cardinality(Occupying') = Cardinality(Occupying) + 1
    BY <1>4, <1>5, <1>7, <2>1, FS_AddElement
  <2>3. MaxConcurrent > 0 => Cardinality(Occupying) < MaxConcurrent
    BY <1>3, <1>4, <1>7, ChatTurnAssumption DEF Full
  <2> QED  BY <1>3, <1>4, <1>7, <2>2, <2>3, ChatTurnAssumption
<1>8. CASE inflight' = (IF inflight > 0 THEN inflight - 1 ELSE 0)
           /\ Occupies(chat[r].pc) /\ ~Occupies(q.pc)
  <2>1. Occupying' = Occupying \ {r}
    BY <1>1, <1>8 DEF Occupying, Occupies
  <2>2. Cardinality(Occupying') = Cardinality(Occupying) - 1 /\ Cardinality(Occupying) > 0
    BY <1>4, <1>5, <1>8, <2>1, FS_RemoveElement, FS_EmptySet
  <2> QED  BY <1>3, <1>4, <1>8, <2>2, ChatTurnAssumption
<1> QED  BY <1>2, <1>6, <1>7, <1>8

\* What a step of one turn has to say for the invariant to go on.
LEMMA TurnStep ==
  ASSUME Inv, [Next]_vars, NEW r \in Request, NEW q \in Chat, chat' = [chat EXCEPT ![r] = q],
         \A s \in Request \ {r} : req'[s] = req[s],
         Place(r)',
         inflight' \in Nat, turns' \in [Conv -> Request \cup {None}],
         conv' \in [Conv -> {"live", "deleting", "removed", "deleted"}],
         messages' \in [Conv -> SUBSET Message],
         \A c \in Conv : turns'[c] # None =>
           \/ turns'[c] = r /\ q.pc \in Running /\ q.conv = c
           \/ turns'[c] = turns[c] /\ (turns[c] = r => q.pc \in Running /\ q.conv = c),
         chat[r].keyed => q.keyed,
         \/ q.keyed
         \/ inflight' = inflight /\ (Occupies(q.pc) <=> Occupies(chat[r].pc))
         \/ inflight' = inflight + 1 /\ ~Full(inflight) /\ ~Occupies(chat[r].pc) /\ Occupies(q.pc)
         \/ inflight' = (IF inflight > 0 THEN inflight - 1 ELSE 0)
            /\ Occupies(chat[r].pc) /\ ~Occupies(q.pc)
  PROVE  Inv'
<1>1. chat'[r] = q /\ \A s \in Request \ {r} : chat'[s] = chat[s]
  BY DEF Inv, TypeOK
<1>2. DP!Inv' /\ AnswerInv'
  BY RecordStep, RecordsStep, AnswerStep DEF Inv
<1>3. D!TypeOK'
  BY <1>2, RecordTypes, PTL
<1>4. TypeOK'
  BY <1>3 DEF Inv, TypeOK
<1>5. \A s \in Request : Place(s)'
  <2>1. ASSUME NEW s \in Request, s # r PROVE Place(s)'
    BY <1>1, <2>1 DEF Inv, Place
  <2> QED  BY <2>1
<1>6. RegisteredIsRunning'
  <2> SUFFICES ASSUME NEW c \in Conv, turns'[c] # None
               PROVE  chat'[turns'[c]].pc \in Running /\ chat'[turns'[c]].conv = c
    BY DEF RegisteredIsRunning
  <2>1. CASE turns'[c] = r /\ q.pc \in Running /\ q.conv = c
    BY <1>1, <2>1
  <2>2. CASE turns'[c] = turns[c] /\ turns[c] # r
    <3>1. turns[c] \in Request /\ chat[turns[c]].pc \in Running /\ chat[turns[c]].conv = c
      BY <2>2 DEF Inv, TypeOK, RegisteredIsRunning
    <3> QED  BY <1>1, <2>2, <3>1
  <2> QED  BY <1>1, <2>1, <2>2
<1>7. CountInv'
  BY CountStep
<1> QED  BY <1>2, <1>4, <1>5, <1>6, <1>7 DEF Inv

\* A step that leaves every turn where it is.
LEMMA StillStep ==
  ASSUME Inv, [Next]_vars, UNCHANGED <<chat, req, inflight, turns>>,
         conv' \in [Conv -> {"live", "deleting", "removed", "deleted"}],
         messages' \in [Conv -> SUBSET Message]
  PROVE  Inv'
<1>1. DP!Inv' /\ AnswerInv'
  BY RecordStep, RecordsStep, AnswerStep DEF Inv
<1>2. D!TypeOK'
  BY <1>1, RecordTypes, PTL
<1>3. TypeOK'
  BY <1>2 DEF Inv, TypeOK
<1>4. Occupying' = Occupying
  BY DEF Occupying
<1>5. (\A r \in Request : Place(r)') /\ RegisteredIsRunning' /\ CountInv'
  BY <1>4 DEF Inv, Place, RegisteredIsRunning, CountInv
<1> QED  BY <1>1, <1>3, <1>5 DEF Inv

-----------------------------------------------------------------------------
(* The steps of the turns.                                                 *)

\* Going on: everything but the place stays.
LEMMA GotoTo ==
  ASSUME Inv, NEW r \in Request, chat[r].pc # "idle",
         NEW pc \in {"gate", "refuse", "dead", "done"} \cup Busy
  PROVE  LET q == [chat[r] EXCEPT !.pc = pc] IN
         /\ q \in Chat /\ q.pc = pc /\ q.conv = chat[r].conv /\ q.keyed = chat[r].keyed
         /\ chat[r].conv \in Conv /\ chat[r].keyed \in BOOLEAN
         /\ Goto(r, pc) => chat' = [chat EXCEPT ![r] = q] /\ chat'[r] = q
BY DEF Inv, TypeOK, Chat, Goto, Place

\* Only a turn that runs is registered, and in its conversation.
LEMMA Registered ==
  ASSUME Inv, NEW r \in Request, NEW c \in Conv, turns[c] = r
  PROVE  chat[r].pc \in Running /\ chat[r].conv = c
<1>1. r # None
  BY ChatTurnAssumption
<1> QED  BY <1>1 DEF Inv, RegisteredIsRunning

LEMMA NoteTypes ==
  ASSUME Inv, NEW c \in Conv, NEW r \in Request, NEW role \in {"user", "assistant"},
         messages' = messages \/ Append(c, [by |-> r, role |-> role])
  PROVE  messages' \in [Conv -> SUBSET Message]
<1>1. [by |-> r, role |-> role] \in Message
  BY DEF Message
<1> QED  BY <1>1 DEF Inv, TypeOK, Append

LEMMA ReceiveInv ==
  ASSUME Inv, [Next]_vars, NEW r \in Request, Receive(r)
  PROVE  Inv'
<1>1. TypeOK /\ DP!Inv /\ chat[r] \in Chat /\ inflight \in Nat /\ Place(r)
  BY DEF Inv, TypeOK
<1>2. ASSUME NEW c \in Conv, ReceiveUnkeyed(r, c)
      PROVE  Inv'
  <2> DEFINE q == [chat[r] EXCEPT !.conv = c, !.cur = inflight,
                     !.pc = IF Full(inflight) THEN "done" ELSE "append"]
  <2>1. chat' = [chat EXCEPT ![r] = q]
    BY <1>1, <1>2 DEF ReceiveUnkeyed, TypeOK
  <2>2. q \in Chat /\ q.conv = c /\ q.pc = (IF Full(inflight) THEN "done" ELSE "append")
        /\ q.keyed = chat[r].keyed
    BY <1>1 DEF Chat, Busy, Running
  <2>3. chat[r].pc = "idle" /\ ~chat[r].keyed
    BY <1>1, <1>2 DEF ReceiveUnkeyed, Place
  <2> HIDE DEF q
  <2>4. chat'[r] = q /\ UNCHANGED <<req, turns, conv, messages>>
    BY <1>1, <1>2, <2>1 DEF ReceiveUnkeyed, TypeOK
  <2>5. Place(r)'
    BY <1>1, <2>2, <2>3, <2>4 DEF Place
  <2>6. \A d \in Conv : turns[d] # r
    BY <2>3, Registered DEF Running
  <2>7. inflight' = IF Full(inflight) THEN inflight ELSE inflight + 1
    BY <1>2 DEF ReceiveUnkeyed
  <2>8. Full(inflight) \in BOOLEAN /\ Occupies("append") /\ ~Occupies("idle") /\ ~Occupies("done")
    BY DEF Full, Occupies, Busy, Running
  <2>9. \/ inflight' = inflight /\ (Occupies(q.pc) <=> Occupies(chat[r].pc))
        \/ inflight' = inflight + 1 /\ ~Full(inflight) /\ ~Occupies(chat[r].pc) /\ Occupies(q.pc)
    BY <2>2, <2>3, <2>7, <2>8
  <2>10. inflight' \in Nat
    BY <1>1, <2>7
  <2> QED  BY <1>1, <2>1, <2>2, <2>3, <2>4, <2>5, <2>6, <2>9, <2>10, TurnStep DEF TypeOK
<1>3. ASSUME NEW c \in Conv, NEW k \in Key, NEW b \in Body, ReceiveKeyed(r, c, k, b)
      PROVE  Inv'
  <2> DEFINE q == [chat[r] EXCEPT !.conv = c, !.keyed = TRUE, !.cur = inflight, !.pc = "gate"]
  <2>1. chat' = [chat EXCEPT ![r] = q]
    BY <1>1, <1>3 DEF ReceiveKeyed, TypeOK
  <2>2. q \in Chat /\ q.conv = c /\ q.pc = "gate" /\ q.keyed
    BY <1>1 DEF Chat, Busy, Running
  <2>3. chat[r].pc = "idle"
    BY <1>3 DEF ReceiveKeyed
  <2> HIDE DEF q
  <2>4. chat'[r] = q /\ UNCHANGED <<inflight, turns, conv, messages>>
    BY <1>1, <1>3, <2>1 DEF ReceiveKeyed, TypeOK
  <2>5. req'[r].pc = "lookup" /\ req'[r].key = k /\ \A s \in Request \ {r} : req'[s] = req[s]
    BY <1>1, <1>3, RecordMoves DEF ReceiveKeyed
  <2>6. Place(r)'
    BY <2>2, <2>4, <2>5 DEF Place, Busy, Running
  <2>7. \A d \in Conv : turns[d] # r
    BY <2>3, Registered DEF Running
  <2> QED  BY <1>1, <2>1, <2>2, <2>4, <2>5, <2>6, <2>7, TurnStep DEF TypeOK
<1> QED  BY <1>2, <1>3 DEF Receive

LEMMA AdmissionInv ==
  ASSUME Inv, [Next]_vars, NEW r \in Request, Gate(r) \/ Refuse(r) \/ Admit(r)
  PROVE  Inv'
<1>1. TypeOK /\ DP!Inv /\ chat[r] \in Chat /\ inflight \in Nat /\ Place(r) /\ chat[r].pc = "gate"
      /\ chat[r].keyed /\ chat[r].cur \in Nat
  BY DEF Inv, TypeOK, Gate, Refuse, Admit, Place, Chat
<1>2. \A d \in Conv : turns[d] # r
  BY <1>1, Registered DEF Running
<1>3. CASE Gate(r)
  <2>1. UNCHANGED <<chat, inflight, turns, conv, messages>>
    BY <1>3 DEF Gate
  <2>2. req'[r].pc # "new" /\ req'[r].key = req[r].key /\ \A s \in Request \ {r} : req'[s] = req[s]
    BY <1>1, <1>3, RecordMoves DEF Gate
  <2>3. Place(r)'
    BY <1>1, <2>1, <2>2 DEF Place, Busy, Running
  <2>4. chat' = [chat EXCEPT ![r] = chat[r]]
    BY <1>1, <2>1 DEF TypeOK
  <2> QED  BY <1>1, <1>2, <2>1, <2>2, <2>3, <2>4, TurnStep DEF TypeOK
<1>4. CASE Refuse(r)
  <2> DEFINE q == [chat[r] EXCEPT !.pc = "refuse"]
  <2>1. /\ q \in Chat /\ q.pc = "refuse" /\ q.conv = chat[r].conv /\ q.keyed = chat[r].keyed
        /\ chat[r].conv \in Conv /\ chat' = [chat EXCEPT ![r] = q] /\ chat'[r] = q
    BY <1>1, <1>4, GotoTo DEF Refuse
  <2>2. D!Execute(r, FALSE) /\ UNCHANGED <<inflight, turns, conv, messages>>
    BY <1>4 DEF Refuse
  <2>3. req'[r].pc = "finish" /\ req'[r].key = req[r].key /\ \A s \in Request \ {r} : req'[s] = req[s]
    BY <1>1, <2>2, RecordMoves DEF Place
  <2> HIDE DEF q
  <2>4. Place(r)'
    BY <1>1, <2>1, <2>3 DEF Place, Busy, Running
  <2> QED  BY <1>1, <1>2, <2>1, <2>2, <2>3, <2>4, TurnStep DEF TypeOK
<1>5. CASE Admit(r)
  <2> DEFINE q == [chat[r] EXCEPT !.pc = "append"]
  <2>1. /\ q \in Chat /\ q.pc = "append" /\ q.conv = chat[r].conv /\ q.keyed = chat[r].keyed
        /\ chat[r].conv \in Conv /\ chat' = [chat EXCEPT ![r] = q] /\ chat'[r] = q
    BY <1>1, <1>5, GotoTo DEF Admit, Busy
  <2>2. /\ req[r].pc = "execute" /\ UNCHANGED <<req, turns, conv, messages>>
        /\ inflight' = chat[r].cur + 1
    BY <1>5 DEF Admit
  <2> HIDE DEF q
  <2>3. Place(r)'
    BY <1>1, <2>1, <2>2 DEF Place, Busy, Running
  <2>4. inflight' \in Nat
    BY <1>1, <2>2
  <2> QED  BY <1>1, <1>2, <2>1, <2>2, <2>3, <2>4, TurnStep DEF TypeOK
<1> QED  BY <1>3, <1>4, <1>5

LEMMA WorkInv ==
  ASSUME Inv, [Next]_vars, NEW r \in Request,
         AppendQuestion(r) \/ registerTurn(r) \/ AgentEnds(r)
  PROVE  Inv'
<1>1. TypeOK /\ DP!Inv /\ chat[r] \in Chat /\ inflight \in Nat /\ Place(r)
      /\ chat[r].pc \in {"append", "setup", "agent"} /\ chat[r].conv \in Conv
  BY DEF Inv, TypeOK, AppendQuestion, registerTurn, AgentEnds, Place
<1>2. UNCHANGED <<req, inflight, conv>>
  BY DEF AppendQuestion, registerTurn, AgentEnds
<1>3. ASSUME NEW pc \in {"setup", "agent", "save", "fail", "stop"}, Goto(r, pc),
             messages' \in [Conv -> SUBSET Message],
             \/ pc \in Running /\ turns' = [turns EXCEPT ![chat[r].conv] = r]
             \/ turns' = turns /\ (pc \in Running \/ chat[r].pc = "append")
      PROVE  Inv'
  <2> DEFINE q == [chat[r] EXCEPT !.pc = pc]
  <2>1. /\ q \in Chat /\ q.pc = pc /\ q.conv = chat[r].conv /\ q.keyed = chat[r].keyed
        /\ chat' = [chat EXCEPT ![r] = q] /\ chat'[r] = q
    BY ZenonT(40), <1>1, <1>3, GotoTo DEF Busy, Running
  <2> HIDE DEF q
  <2>2. Place(r)'
    BY <1>1, <1>2, <1>3, <2>1 DEF Place, Busy, Running
  <2>3. turns' \in [Conv -> Request \cup {None}]
    BY <1>1, <1>3 DEF TypeOK
  <2>4. \A c \in Conv : turns'[c] # None =>
          \/ turns'[c] = r /\ q.pc \in Running /\ q.conv = c
          \/ turns'[c] = turns[c] /\ (turns[c] = r => q.pc \in Running /\ q.conv = c)
    <3> SUFFICES ASSUME NEW c \in Conv, turns'[c] # None
                 PROVE  \/ turns'[c] = r /\ q.pc \in Running /\ q.conv = c
                        \/ turns'[c] = turns[c] /\ (turns[c] = r => q.pc \in Running /\ q.conv = c)
      OBVIOUS
    <3>1. turns[c] = r => chat[r].pc \in Running /\ q.conv = c
      BY <2>1, Registered
    <3>2. pc \in Running \/ turns[c] # r
      BY <1>3, <3>1 DEF Running
    <3>3. CASE pc \in Running /\ turns' = [turns EXCEPT ![chat[r].conv] = r] /\ c = chat[r].conv
      BY <1>1, <2>1, <3>3 DEF TypeOK
    <3>4. CASE turns'[c] = turns[c]
      BY <2>1, <3>1, <3>2, <3>4
    <3> QED  BY <1>1, <1>3, <3>3, <3>4 DEF TypeOK
  <2>5. Occupies(q.pc) /\ Occupies(chat[r].pc)
    BY <1>1, <2>1 DEF Occupies, Busy, Running
  <2> QED  BY ZenonT(40), <1>1, <1>2, <1>3, <2>1, <2>2, <2>3, <2>4, <2>5, TurnStep DEF TypeOK
<1>4. CASE AppendQuestion(r)
  <2>1. chat[r].pc = "append" /\ Append(chat[r].conv, [by |-> r, role |-> "user"])
        /\ Goto(r, "setup") /\ turns' = turns
    BY <1>4 DEF AppendQuestion
  <2>2. messages' \in [Conv -> SUBSET Message]
    BY <1>1, <2>1, NoteTypes
  <2> QED  BY <1>3, <2>1, <2>2
<1>5. CASE registerTurn(r)
  BY <1>1, <1>3, <1>5 DEF registerTurn, Running, TypeOK
<1>6. CASE AgentEnds(r)
  BY <1>1, <1>3, <1>6 DEF AgentEnds, Running, TypeOK
<1> QED  BY <1>4, <1>5, <1>6

\* A turn that has been told how it ends goes to its record if it has one.
LEMMA ConcludeInv ==
  ASSUME Inv, [Next]_vars, NEW r \in Request,
         HandlerThrows(r) \/ SaveAnswer(r) \/ SavePlaceholder(r)
  PROVE  Inv'
<1>1. TypeOK /\ DP!Inv /\ chat[r] \in Chat /\ inflight \in Nat /\ Place(r)
      /\ chat[r].pc \in {"append", "setup", "save", "stop", "fail"} /\ chat[r].conv \in Conv
  BY DEF Inv, TypeOK, HandlerThrows, SaveAnswer, SavePlaceholder, Place
<1>2. UNCHANGED <<inflight, turns, conv>>
  BY DEF HandlerThrows, SaveAnswer, SavePlaceholder
<1>3. ASSUME NEW ok \in BOOLEAN, NEW pc \in {"dead", "record", "end"}, Goto(r, pc),
             IF chat[r].keyed THEN D!Execute(r, ok) ELSE UNCHANGED deliveryVars,
             pc = "dead" \/ pc = (IF chat[r].keyed THEN "record" ELSE "end"),
             pc \in Running \/ chat[r].pc \notin Running,
             messages' \in [Conv -> SUBSET Message]
      PROVE  Inv'
  <2> DEFINE q == [chat[r] EXCEPT !.pc = pc]
  <2>0. chat[r].pc # "idle" /\ pc \in {"gate", "refuse", "dead", "done"} \cup Busy
    BY <1>1, <1>3 DEF Busy, Running
  <2>1. /\ q \in Chat /\ q.pc = pc /\ q.conv = chat[r].conv /\ q.keyed = chat[r].keyed
        /\ chat' = [chat EXCEPT ![r] = q] /\ chat'[r] = q
    BY <1>3, <2>0, GotoTo
  <2> HIDE DEF q
  <2>2. CASE chat[r].keyed
    <3>1. req'[r].pc = "finish" /\ req'[r].key = req[r].key /\ req[r].key \in Key
          /\ \A s \in Request \ {r} : req'[s] = req[s]
      BY <1>1, <1>3, <2>2, RecordMoves DEF Place
    <3>2. Place(r)'
      BY <1>1, <1>3, <2>1, <2>2, <3>1 DEF Place, Busy, Running
    <3>3. q.keyed
      BY <2>1, <2>2
    <3>4. \A c \in Conv : turns[c] = r => q.pc \in Running /\ q.conv = c
      BY <1>3, <2>1, Registered
    <3> QED  BY ZenonT(40), <1>1, <1>2, <1>3, <2>1, <3>1, <3>2, <3>3, <3>4, TurnStep DEF TypeOK
  <2>3. CASE ~chat[r].keyed
    <3>1. req' = req
      BY <1>3, <2>3 DEF deliveryVars
    <3>2. Place(r)'
      BY <1>1, <1>3, <2>1, <2>3, <3>1 DEF Place, Busy, Running
    <3>3. Occupies(q.pc) /\ Occupies(chat[r].pc)
      BY <1>1, <1>3, <2>1 DEF Occupies, Busy, Running
    <3>4. \A c \in Conv : turns[c] = r => q.pc \in Running /\ q.conv = c
      BY <1>3, <2>1, Registered
    <3> QED  BY <1>1, <1>2, <1>3, <2>1, <2>3, <3>1, <3>2, <3>3, <3>4, TurnStep DEF TypeOK
  <2> QED  BY <2>2, <2>3
<1>4. CASE HandlerThrows(r)
  BY <1>1, <1>3, <1>4 DEF HandlerThrows, Running, TypeOK
<1>5. ASSUME NEW ok \in BOOLEAN, guardAppend(r), Conclude(r, ok)
      PROVE  Inv'
  <2>1. messages' \in [Conv -> SUBSET Message]
    BY <1>1, <1>5, NoteTypes DEF guardAppend
  <2> QED  BY <1>3, <1>5, <2>1 DEF Conclude, Running
<1> QED  BY <1>4, <1>5 DEF SaveAnswer, SavePlaceholder

LEMMA LeaveInv ==
  ASSUME Inv, [Next]_vars, NEW r \in Request, Record(r) \/ End(r)
  PROVE  Inv'
<1>1. TypeOK /\ DP!Inv /\ chat[r] \in Chat /\ inflight \in Nat /\ Place(r)
      /\ chat[r].pc \in {"refuse", "record", "dead", "end"} /\ chat[r].conv \in Conv
  BY DEF Inv, TypeOK, Record, End, Place
<1>2. CASE Record(r)
  <2> DEFINE pc == IF chat[r].pc = "record" THEN "end" ELSE "done"
             q == [chat[r] EXCEPT !.pc = pc]
  <2>1. UNCHANGED <<inflight, turns, conv, messages>> /\ chat[r].pc \in {"refuse", "record", "dead"}
        /\ (D!finishDelivery(r) \/ D!FinishLost(r))
    BY <1>2 DEF Record
  <2>2. pc \in {"end", "done"} /\ Goto(r, pc) /\ (chat[r].pc = "record" => pc = "end")
    BY <1>1, <1>2 DEF Record, Goto, TypeOK
  <2> HIDE DEF pc
  <2>0. chat[r].pc # "idle" /\ pc \in {"gate", "refuse", "dead", "done"} \cup Busy
    BY <1>1, <2>2 DEF Busy, Running
  <2>3. /\ q \in Chat /\ q.pc = pc /\ q.conv = chat[r].conv /\ q.keyed = chat[r].keyed
        /\ chat' = [chat EXCEPT ![r] = q] /\ chat'[r] = q
    BY <2>0, <2>2, GotoTo
  <2>4. req[r].pc = "finish" /\ req'[r].pc = "closed" /\ req'[r].key = req[r].key
        /\ \A s \in Request \ {r} : req'[s] = req[s]
    BY <1>1, <2>1, RecordMoves
  <2>5. chat[r].keyed
    BY <1>1, <2>4 DEF Place
  <2>6. \A c \in Conv : turns[c] = r => pc \in Running /\ chat[r].conv = c
    BY <2>1, <2>2, Registered DEF Running
  <2> HIDE DEF q
  <2>7. Place(r)'
    BY <1>1, <2>2, <2>3, <2>4, <2>5 DEF Place, Busy, Running
  <2>8. q.keyed
    BY <2>3, <2>5
  <2> QED  BY ZenonT(40), <1>1, <2>1, <2>3, <2>4, <2>6, <2>7, <2>8, TurnStep DEF TypeOK
<1>3. CASE End(r)
  <2> DEFINE q == [chat[r] EXCEPT !.pc = "done"]
  <2>1. chat[r].pc = "end" /\ releaseTurn(r) /\ Goto(r, "done") /\ UNCHANGED <<req, conv, messages>>
        /\ inflight' = IF inflight > 0 THEN inflight - 1 ELSE 0
    BY <1>3 DEF End
  <2>2. /\ q \in Chat /\ q.pc = "done" /\ q.conv = chat[r].conv /\ q.keyed = chat[r].keyed
        /\ chat' = [chat EXCEPT ![r] = q] /\ chat'[r] = q
    BY <1>1, <2>1, GotoTo
  <2> HIDE DEF q
  <2>3. Place(r)'
    BY <1>1, <2>1, <2>2 DEF Place, Busy, Running
  <2>4. inflight' \in Nat
    BY <1>1, <2>1
  <2>5. turns' \in [Conv -> Request \cup {None}]
    BY <1>1, <2>1 DEF TypeOK, releaseTurn
  <2>6. \A c \in Conv : turns'[c] # None => turns'[c] = turns[c] /\ turns[c] # r
    <3> SUFFICES ASSUME NEW c \in Conv, turns'[c] # None PROVE turns'[c] = turns[c] /\ turns[c] # r
      OBVIOUS
    <3>1. CASE c = chat[r].conv
      BY <1>1, <2>1, <3>1 DEF releaseTurn, TypeOK
    <3>2. CASE c # chat[r].conv
      BY <1>1, <2>1, <3>2, Registered DEF releaseTurn, TypeOK
    <3> QED  BY <3>1, <3>2
  <2>7. Occupies(chat[r].pc) /\ ~Occupies(q.pc)
    BY <2>1, <2>2 DEF Occupies, Busy, Running
  <2> QED  BY <1>1, <2>1, <2>2, <2>3, <2>4, <2>5, <2>6, <2>7, TurnStep DEF TypeOK
<1> QED  BY <1>2, <1>3

-----------------------------------------------------------------------------
(* Stop, disconnect, delete, crash.                                        *)

\* The reason of a stop and the client's leaving change nothing else of a turn.
LEMMA MarkInv ==
  ASSUME Inv, [Next]_vars, NEW r \in Request, NEW q \in Chat,
         chat' = [chat EXCEPT ![r] = q],
         q.pc = chat[r].pc, q.conv = chat[r].conv, q.keyed = chat[r].keyed,
         UNCHANGED <<req, inflight, turns, messages>>,
         conv' \in [Conv -> {"live", "deleting", "removed", "deleted"}]
  PROVE  Inv'
<1>1. TypeOK /\ Place(r)
  BY DEF Inv
<1>2. chat'[r] = q
  BY <1>1 DEF TypeOK
<1>3. Place(r)'
  BY <1>1, <1>2 DEF Place
<1>4. \A c \in Conv : turns[c] = r => q.pc \in Running /\ q.conv = c
  BY Registered
<1> QED  BY <1>1, <1>3, <1>4, TurnStep DEF TypeOK

LEMMA AbortInv ==
  ASSUME Inv, [Next]_vars, NEW r \in Request, NEW reason \in {"user", "delete"},
         Abort(r, reason), UNCHANGED <<req, inflight, turns, messages>>,
         conv' \in [Conv -> {"live", "deleting", "removed", "deleted"}]
  PROVE  Inv'
<1> DEFINE q == [chat[r] EXCEPT !.aborted = IF @ = "no" THEN reason ELSE @]
<1>1. chat[r] \in Chat /\ chat \in [Request -> Chat]
  BY DEF Inv, TypeOK
<1>2. q \in Chat /\ q.pc = chat[r].pc /\ q.conv = chat[r].conv /\ q.keyed = chat[r].keyed
  BY <1>1 DEF Chat
<1>3. chat' = [chat EXCEPT ![r] = q]
  BY <1>1 DEF Abort
<1> HIDE DEF q
<1> QED  BY <1>2, <1>3, MarkInv

LEMMA DisconnectInv ==
  ASSUME Inv, [Next]_vars, NEW r \in Request, Disconnect(r)
  PROVE  Inv'
<1> DEFINE q == [chat[r] EXCEPT !.gone = TRUE,
                   !.aborted = IF chat[r].pc \in Running /\ @ = "no" THEN "disconnect" ELSE @]
<1>1. chat[r] \in Chat /\ chat \in [Request -> Chat]
  BY DEF Inv, TypeOK
<1>2. q \in Chat /\ q.pc = chat[r].pc /\ q.conv = chat[r].conv /\ q.keyed = chat[r].keyed
  BY <1>1 DEF Chat
<1>3. chat' = [chat EXCEPT ![r] = q]
  BY <1>1 DEF Disconnect
<1>4. UNCHANGED <<req, inflight, turns, messages, conv>>
  BY DEF Disconnect
<1> HIDE DEF q
<1> QED  BY <1>2, <1>3, <1>4, MarkInv DEF Inv, TypeOK

LEMMA ConvInv ==
  ASSUME Inv, [Next]_vars, NEW c \in Conv, Stop(c) \/ Delete(c)
  PROVE  Inv'
<1>1. TypeOK /\ turns[c] \in Request \cup {None}
  BY DEF Inv, TypeOK
<1>2. CASE Stop(c)
  <2>1. turns[c] \in Request /\ Abort(turns[c], "user") /\ UNCHANGED <<req, inflight, turns, messages, conv>>
    BY <1>1, <1>2 DEF Stop, stopTurn
  <2> QED  BY <1>1, <2>1, AbortInv DEF TypeOK
<1>3. CASE DeleteStops(c)
  <2>1. UNCHANGED <<req, inflight, turns, messages>>
        /\ conv' \in [Conv -> {"live", "deleting", "removed", "deleted"}]
    BY <1>1, <1>3 DEF DeleteStops, TypeOK
  <2>2. CASE turns[c] = None
    BY <1>1, <1>3, <2>1, <2>2, StillStep DEF DeleteStops, stopTurn, TypeOK
  <2>3. CASE turns[c] # None
    BY <1>1, <1>3, <2>1, <2>3, AbortInv DEF DeleteStops, stopTurn
  <2> QED  BY <2>2, <2>3
<1>4. CASE DeleteRow(c) \/ DeleteMessages(c)
  <2>1. /\ UNCHANGED <<chat, req, inflight, turns>>
        /\ conv' \in [Conv -> {"live", "deleting", "removed", "deleted"}]
        /\ messages' \in [Conv -> SUBSET Message]
    BY <1>1, <1>4 DEF DeleteRow, DeleteMessages, TypeOK
  <2> QED  BY <2>1, StillStep
<1> QED  BY <1>2, <1>3, <1>4 DEF Delete

LEMMA CrashInv == ASSUME Inv, [Next]_vars, Crash  PROVE Inv'
<1>1. TypeOK /\ DP!Inv /\ (\A r \in Request : Place(r)) /\ chat \in [Request -> Chat]
  BY DEF Inv, TypeOK
<1>2. DP!Inv' /\ AnswerInv'
  BY RecordStep, RecordsStep, AnswerStep DEF Inv
<1>3. D!TypeOK'
  BY <1>2, RecordTypes, PTL
<1>4. \A r \in Request :
        /\ chat'[r] \in Chat /\ chat'[r].pc = (IF chat[r].pc = "idle" THEN "idle" ELSE "done")
        /\ chat'[r].conv = chat[r].conv /\ chat'[r].keyed = chat[r].keyed
  BY <1>1 DEF Crash, Chat
<1>5. chat' \in [Request -> Chat]
  <2>1. chat' = [r \in Request |-> chat'[r]]
    BY DEF Crash
  <2> QED  BY <1>4, <2>1
<1>6. TypeOK'
  BY <1>1, <1>3, <1>5 DEF Crash, TypeOK
<1>7. ASSUME NEW r \in Request PROVE Place(r)'
  <2>1. req'[r].key = req[r].key /\ (req'[r].pc = "new" <=> req[r].pc = "new")
    BY <1>1, RecordTypes DEF Crash, D!Crash, DP!Req
  <2> QED  BY <1>1, <1>4, <2>1 DEF Place, Busy, Running
<1>8. RegisteredIsRunning'
  BY DEF Crash, RegisteredIsRunning
<1>9. CountInv'
  <2>1. Occupying' = {}
    BY <1>4 DEF Occupying, Occupies, Busy, Running
  <2> QED  BY <2>1, FS_EmptySet, ChatTurnAssumption DEF CountInv, Crash
<1> QED  BY <1>2, <1>6, <1>7, <1>8, <1>9 DEF Inv

LEMMA InvStep == Inv /\ [Next]_vars => Inv'
<1> SUFFICES ASSUME Inv, [Next]_vars PROVE Inv'
  OBVIOUS
<1>1. ASSUME NEW r \in Request, Turn(r) PROVE Inv'
  BY <1>1, AdmissionInv, WorkInv, ConcludeInv, LeaveInv DEF Turn, Finish
<1>2. CASE UNCHANGED vars
  BY <1>2, StillStep DEF vars, Inv, TypeOK
<1> QED  BY <1>1, <1>2, ReceiveInv, DisconnectInv, ConvInv, CrashInv DEF Next

LEMMA InvHolds == Spec => []Inv
BY InvInit, InvStep, PTL DEF Spec

-----------------------------------------------------------------------------
(* What the registry, the keys and the count of the turns keep.            *)

\* Of two turns of one key one works, and one is answered.
LEMMA OneTurn == Inv => OneTurnPerKey
<1> SUFFICES ASSUME Inv, NEW r \in Request, NEW s \in Request, r # s, SameKey(r, s)
             PROVE  ~(Working(r) /\ Working(s)) /\ ~(Answered(r) /\ Answered(s))
  BY DEF OneTurnPerKey
<1>1. ASSUME NEW t \in Request, Working(t), req[t].key # None
      PROVE  req[t].holds
  <2>1. chat[t].keyed /\ Place(t)
    BY <1>1 DEF Inv, Place
  <2>2. req[t].pc \in {"execute", "finish"}
    BY <1>1, <2>1 DEF Place, Working, Busy, Running
  <2> QED  BY <1>1, <2>2 DEF Inv, DP!Inv, DP!StageInv, DP!Executing
<1>2. ~(Working(r) /\ Working(s))
  BY <1>1 DEF SameKey, Inv, DP!Inv, DP!OwnerInv
<1> QED  BY <1>2 DEF Inv, AnswerInv, Answered

\* Without keys the turns that run are at most the limit.
LEMMA CountExact == Inv => UnkeyedCountExact
<1> SUFFICES ASSUME Inv, \A r \in Request : ~chat[r].keyed
             PROVE  /\ inflight = Cardinality({r \in Request : IsBusy(r) \/ chat[r].pc = "dead"})
                    /\ SlotLimit
  BY DEF UnkeyedCountExact
<1>1. inflight = Cardinality(Occupying) /\ (MaxConcurrent > 0 => Cardinality(Occupying) <= MaxConcurrent)
  BY DEF Inv, CountInv
<1>2. Occupying = {r \in Request : IsBusy(r) \/ chat[r].pc = "dead"}
  BY DEF Occupying, Occupies, IsBusy
<1>3. {r \in Request : IsBusy(r)} \subseteq Occupying /\ IsFiniteSet(Occupying)
  BY <1>2, FS_Subset, ChatTurnAssumption
<1>4. /\ Cardinality({r \in Request : IsBusy(r)}) <= Cardinality(Occupying)
      /\ Cardinality({r \in Request : IsBusy(r)}) \in Nat /\ Cardinality(Occupying) \in Nat
  BY <1>3, FS_Subset, FS_CardinalityType
<1> QED  BY <1>1, <1>2, <1>4, ChatTurnAssumption DEF SlotLimit

\* A registration names a turn of its conversation that still runs, so a stop that
\* answers ok has reached one; a key runs one turn and answers once; and the count of
\* an account whose turns carry no key is exact and keeps them within the limit
\* (POST /api/chat in server/index.js, server/turns.js, server/deliveries.js).
THEOREM RegistryIsSafe == Spec => []RegistrySafe
<1>1. Inv => RegistrySafe
  BY OneTurn, CountExact DEF RegistrySafe, Inv
<1> QED  BY <1>1, InvHolds, PTL

-----------------------------------------------------------------------------
(* Deleted conversations and registrations.                                *)

\* What a step may write into a conversation: questions at any time, answers while
\* its row is there.
LEMMA NotesStep ==
  ASSUME Inv, [Next]_vars
  PROVE  /\ \A c \in Conv : conv'[c] = "deleted" => conv[c] = "deleted" \/ messages'[c] = {}
         /\ \A c \in Conv : conv[c] = "deleted" =>
              \A m \in messages'[c] : m \in messages[c] \/ m.role = "user"
<1> DEFINE Kept == /\ \A c \in Conv : conv'[c] = "deleted" => conv[c] = "deleted" \/ messages'[c] = {}
                   /\ \A c \in Conv : conv[c] = "deleted" =>
                        \A m \in messages'[c] : m \in messages[c] \/ m.role = "user"
<1>1. messages \in [Conv -> SUBSET Message] /\ conv \in [Conv -> {"live", "deleting", "removed", "deleted"}]
  BY DEF Inv, TypeOK
<1>2. CASE UNCHANGED <<conv, messages>>
  BY <1>2
<1>3. ASSUME NEW r \in Request, guardAppend(r), UNCHANGED conv PROVE Kept
  <2>1. CASE UNCHANGED messages
    BY <1>3, <2>1
  <2>2. CASE RowPresent(chat[r].conv) /\ Append(chat[r].conv, [by |-> r, role |-> "assistant"])
    <3>1. \A c \in Conv : conv[c] = "deleted" => c # chat[r].conv
      BY <2>2 DEF RowPresent
    <3> QED  BY <1>1, <1>3, <2>2, <3>1 DEF Append
  <2> QED  BY <1>3, <2>1, <2>2 DEF guardAppend
<1>4. ASSUME NEW r \in Request, Receive(r) \/ Turn(r) \/ Disconnect(r) PROVE Kept
  <2>1. CASE Receive(r) \/ Disconnect(r) \/ Gate(r) \/ Refuse(r) \/ Admit(r) \/ HandlerThrows(r)
             \/ registerTurn(r) \/ AgentEnds(r) \/ Record(r) \/ End(r)
    BY <1>2, <2>1 DEF Receive, ReceiveUnkeyed, ReceiveKeyed, Disconnect, Gate, Refuse, Admit,
       HandlerThrows, registerTurn, AgentEnds, Record, End
  <2>2. CASE AppendQuestion(r)
    <3>1. Append(chat[r].conv, [by |-> r, role |-> "user"]) /\ UNCHANGED conv
      BY <2>2 DEF AppendQuestion
    <3> QED  BY <1>1, <3>1 DEF Append
  <2>3. CASE SaveAnswer(r) \/ SavePlaceholder(r)
    BY <1>3, <2>3 DEF SaveAnswer, SavePlaceholder
  <2> QED  BY <1>4, <2>1, <2>2, <2>3 DEF Turn, Finish
<1>5. ASSUME NEW c \in Conv, Stop(c) \/ Delete(c) PROVE Kept
  <2>1. CASE Stop(c)
    BY <1>2, <2>1 DEF Stop
  <2>2. CASE DeleteStops(c) \/ DeleteRow(c)
    BY <1>1, <2>2 DEF DeleteStops, DeleteRow
  <2>3. CASE DeleteMessages(c)
    BY <1>1, <2>3 DEF DeleteMessages
  <2> QED  BY <1>5, <2>1, <2>2, <2>3 DEF Delete
<1>6. CASE Crash
  BY <1>1, <1>6 DEF Crash
<1> QED  BY <1>2, <1>4, <1>5, <1>6 DEF Next, vars

\* However the delete of a conversation and the end of its turn interleave, no answer
\* and no placeholder is left behind: the guarded insert of server/index.js writes only
\* where the row still is, and the delete takes the messages after the row.
THEOREM NoAnswerIsOrphan == Spec => []NoOrphanAnswer
<1>1. Init => NoOrphanAnswer
  BY DEF Init, NoOrphanAnswer
<1>2. Inv /\ NoOrphanAnswer /\ [Next]_vars => NoOrphanAnswer'
  BY NotesStep DEF NoOrphanAnswer
<1> QED  BY <1>1, <1>2, InvHolds, PTL DEF Spec

\* Only the end of the turn it names, or of the process, takes a registration away
\* (releaseTurn in server/turns.js compares before it deletes).
THEOREM OnlyOwnRelease == Spec => ReleaseOwn
<1> DEFINE Own == \A c \in Conv : turns[c] # None /\ turns'[c] = None => chat'[turns[c]].pc = "done"
<1>1. Inv /\ [Next]_vars => [Own]_vars
  <2> SUFFICES ASSUME Inv, [Next]_vars, NEW c \in Conv, turns[c] # None, turns'[c] = None
               PROVE  chat'[turns[c]].pc = "done"
    OBVIOUS
  <2>1. /\ turns \in [Conv -> Request \cup {None}] /\ chat \in [Request -> Chat]
        /\ turns[c] \in Request /\ chat[turns[c]].pc \in Running /\ None \notin Request
    BY ChatTurnAssumption DEF Inv, TypeOK, RegisteredIsRunning
  <2>2. ASSUME NEW r \in Request, registerTurn(r) PROVE FALSE
    BY <2>1, <2>2 DEF registerTurn
  <2>3. ASSUME NEW r \in Request, End(r) PROVE chat'[turns[c]].pc = "done"
    <3>1. turns' = [turns EXCEPT ![chat[r].conv] = IF @ = r THEN None ELSE @]
          /\ chat' = [chat EXCEPT ![r].pc = "done"]
      BY <2>3 DEF End, releaseTurn, Goto
    <3>2. turns[c] = r
      BY <2>1, <3>1
    <3>3. chat[r] \in Chat
      BY <2>1
    <3> QED  BY <2>1, <3>1, <3>2, <3>3 DEF Chat
  <2>4. CASE Crash
    BY <2>1, <2>4 DEF Crash, Chat, Running
  <2>5. turns' = turns => FALSE
    OBVIOUS
  <2>6. ASSUME NEW r \in Request, Receive(r) \/ Turn(r) \/ Disconnect(r) PROVE chat'[turns[c]].pc = "done"
    BY <2>2, <2>3, <2>5, <2>6 DEF Receive, ReceiveUnkeyed, ReceiveKeyed, Disconnect, Turn, Gate, Refuse,
       Admit, AppendQuestion, HandlerThrows, AgentEnds, Finish, SaveAnswer, SavePlaceholder, Record
  <2>7. ASSUME NEW d \in Conv, Stop(d) \/ Delete(d) PROVE FALSE
    BY <2>5, <2>7 DEF Stop, Delete, DeleteStops, DeleteRow, DeleteMessages
  <2> QED  BY <2>4, <2>5, <2>6, <2>7 DEF Next, vars
<1> QED  BY <1>1, InvHolds, PTL DEF Spec, ReleaseOwn

-----------------------------------------------------------------------------
(* The batch of the self evaluation.  The argument: a row that is there is *)
(* known, still to be asked for or missed from the moment the accounts are *)
(* read, what the batch knows was there, and the two lists it sorts by are *)
(* whole unless an error was told; so a label rests on the facts.          *)

\* "No reading" is no reading's value.
EvalConstants ==
  Unread \notin {0, 1} \cup {"human", "scheduled", "sample", "probe", "orphan",
                             "none", "clean", "failing", "noShell", "passed", "failed",
                             "skipped", "error"}

Read1 == {"tasks", "accounts", "missing", "rules", "done", "failed"}
Read2 == Read1 \ {"tasks"}
Read3 == Read2 \ {"accounts"}
Over == {"rules", "done", "failed"}
Owned == {r \in UsageRow : facts[r].owned}
RestInv ==
  /\ rest.invalid \in {0, 1, Unread}
  /\ rest.goals \in {0, 1, Unread} /\ rest.demands \in {0, 1, Unread}
ReadsInv ==
  /\ faults \in Nat /\ (faults = 0 => told = {} /\ missed = {})
  /\ facts \in [UsageRow -> Fact] /\ live \subseteq Owned /\ known \subseteq live \cup deleted
  /\ stage \in {"rounds", "ledger", "tasks", "accounts", "missing"} \cup Over
  /\ stage \in {"rounds", "ledger"} => told = {}
  /\ "usage" \in told => stage \in Over
  /\ stage \in Read1 /\ told \cap {"usage", "classify"} = {} => ledger = {r \in UsageRow : facts[r].ledger}
  /\ stage \in Read2 /\ told \cap {"usage", "classify"} = {} => samples = {r \in UsageRow : facts[r].sample}
  /\ stage \in Read3 /\ "usage" \notin told => live \subseteq known \cup toAsk \cup missed
SortInv ==
  stage \in Over =>
    IF "usage" \in told THEN tier = [r \in UsageRow |-> Unread]
    ELSE toAsk = {} /\ tier = [r \in UsageRow |-> Label(r)]
EvalInv == RestInv /\ ReadsInv /\ SortInv /\ FiredOnReadings
           /\ (stage \notin Over => tier = [r \in UsageRow |-> Unread])

LEMMA EvalStarts == ASSUME EvalConstants, EvalInit PROVE EvalInv
<1>1. rest = Ordinary \/ rest \in Readings
  BY DEF EvalInit
<1>2. RestInv
  <2> DEFINE Known(v) == v.invalid \in {0, 1, Unread} /\ v.goals \in {0, 1, Unread}
                         /\ v.demands \in {0, 1, Unread}
  <2>1. Known(Ordinary)
    BY DEF Ordinary
  <2>2. \A n \in {0, 1}, c \in BOOLEAN : Known([Ordinary EXCEPT !.invalid = n, !.ledgerErr = c])
    BY DEF Ordinary
  <2>3. Known([Ordinary EXCEPT !.invalid = Unread, !.ledgerErr = TRUE])
    BY DEF Ordinary
  <2>4. \A c \in {Unread, "none", "clean", "failing"}, d \in {TRUE, FALSE} :
          Known([Ordinary EXCEPT !.calls = c, !.byCode = d])
    BY DEF Ordinary
  <2>5. \A g \in {Unread, "noShell", "passed", "failed", "skipped", "error"} :
          Known([Ordinary EXCEPT !.golden = g])
    BY DEF Ordinary
  <2>6. \A g \in {Unread, 0, 1}, d \in {Unread, 0, 1} :
          Known([Ordinary EXCEPT !.goals = g, !.demands = d])
    BY DEF Ordinary
  <2> HIDE DEF Known
  <2>7. ASSUME NEW v \in Readings PROVE Known(v)
    <3>1. CASE v \in {[Ordinary EXCEPT !.invalid = n, !.ledgerErr = b] :
                        n \in {0, 1}, b \in {TRUE, FALSE}}
      <4>1. PICK n \in {0, 1}, b \in {TRUE, FALSE} :
              v = [Ordinary EXCEPT !.invalid = n, !.ledgerErr = b]
        BY <3>1
      <4> QED
        BY <2>2, <4>1
    <3>2. CASE v = [Ordinary EXCEPT !.invalid = Unread, !.ledgerErr = TRUE]
      BY <2>3, <3>2
    <3>3. CASE v \in {[Ordinary EXCEPT !.calls = c, !.byCode = b] :
                        c \in {Unread, "none", "clean", "failing"}, b \in {TRUE, FALSE}}
      <4>1. PICK c \in {Unread, "none", "clean", "failing"}, b \in {TRUE, FALSE} :
              v = [Ordinary EXCEPT !.calls = c, !.byCode = b]
        BY <3>3
      <4> QED
        BY <2>4, <4>1
    <3>4. CASE v \in {[Ordinary EXCEPT !.golden = g] :
                        g \in {Unread, "noShell", "passed", "failed", "skipped", "error"}}
      BY <2>5, <3>4
    <3>5. CASE v \in {[Ordinary EXCEPT !.goals = g, !.demands = d] :
                        g \in {Unread, 0, 1}, d \in {Unread, 0, 1}}
      <4>1. PICK g \in {Unread, 0, 1}, d \in {Unread, 0, 1} :
              v = [Ordinary EXCEPT !.goals = g, !.demands = d]
        BY <3>5
      <4> QED
        BY <2>6, <4>1
    <3> QED
      BY <3>1, <3>2, <3>3, <3>4, <3>5 DEF Readings
  <2>8. Known(rest)
    BY <1>1, <2>1, <2>7
  <2> QED
    BY <2>8 DEF RestInv, Known
<1>3. facts \in [UsageRow -> Fact]
  BY DEF EvalInit
<1>4. live \subseteq Owned
  BY DEF EvalInit, Owned
<1> QED
  BY <1>2, <1>3, <1>4 DEF EvalInit, EvalInv, ReadsInv, SortInv, FiredOnReadings, Over, Read1, Read2, Read3

LEMMA RestStays == ASSUME RestInv, UNCHANGED rest PROVE RestInv'
BY DEF RestInv

\* Reads before the rows are sorted.
LEMMA ReadKeeps ==
  ASSUME EvalConstants, EvalInv, NEW fails \in BOOLEAN,
         ReadRounds(fails) \/ ReadLedger(fails) \/ ReadTasks(fails) \/ ReadAccounts(fails)
  PROVE  EvalInv'
<1>1. UNCHANGED <<facts, live, rest, deleted, missed, tier, fired, lines>>
      /\ faults' = IF fails THEN faults + 1 ELSE faults
  BY DEF ReadRounds, ReadLedger, ReadTasks, ReadAccounts, world, Fault
<1>2. faults' \in Nat /\ (faults' = 0 => ~fails /\ faults = 0)
  BY <1>1 DEF EvalInv, ReadsInv
<1>3. Owned' = Owned /\ stage' # "done"
  BY <1>1 DEF Owned, ReadRounds, ReadLedger, ReadTasks, ReadAccounts
<1>4. CASE ReadRounds(fails)
  <2>1. ReadsInv'
    BY <1>1, <1>2, <1>3, <1>4 DEF ReadRounds, EvalInv, ReadsInv, Over, Read1, Read2, Read3
  <2>2. SortInv' /\ (stage' \notin Over => tier' = [r \in UsageRow |-> Unread])
    BY <1>1, <1>4 DEF ReadRounds, EvalInv, SortInv, Over
  <2> QED
    BY <1>1, <1>3, <2>1, <2>2, RestStays DEF EvalInv, FiredOnReadings
<1>5. CASE ReadLedger(fails)
  <2>1. ReadsInv'
    BY <1>1, <1>2, <1>3, <1>5 DEF ReadLedger, EvalInv, ReadsInv, Over, Read1, Read2, Read3
  <2>2. SortInv' /\ (stage' \notin Over => tier' = [r \in UsageRow |-> Unread])
    BY <1>1, <1>5 DEF ReadLedger, EvalInv, SortInv, Over
  <2> QED
    BY <1>1, <1>3, <2>1, <2>2, RestStays DEF EvalInv, FiredOnReadings
<1>6. CASE ReadTasks(fails)
  <2>1. ReadsInv'
    BY <1>1, <1>2, <1>3, <1>6 DEF ReadTasks, EvalInv, ReadsInv, Over, Read1, Read2, Read3
  <2>2. SortInv' /\ (stage' \notin Over => tier' = [r \in UsageRow |-> Unread])
    BY <1>1, <1>6 DEF ReadTasks, EvalInv, SortInv, Over
  <2> QED
    BY <1>1, <1>3, <2>1, <2>2, RestStays DEF EvalInv, FiredOnReadings
<1>7. CASE ReadAccounts(fails)
  <2>1. known' \subseteq live /\ live \subseteq known' \cup toAsk'
    BY <1>7 DEF ReadAccounts, EvalInv, ReadsInv, Owned
  <2>2. stage = "accounts" /\ stage' = "missing" /\ UNCHANGED <<ledger, samples>>
        /\ told' = told \cup (IF fails THEN {"classify"} ELSE {})
    BY <1>7 DEF ReadAccounts
  <2>3. ReadsInv'
    BY <1>1, <1>2, <1>3, <2>1, <2>2 DEF EvalInv, ReadsInv, Over, Read1, Read2, Read3
  <2>4. SortInv' /\ (stage' \notin Over => tier' = [r \in UsageRow |-> Unread])
    BY <1>1, <2>2 DEF EvalInv, SortInv, Over
  <2> QED
    BY <1>1, <1>3, <2>3, <2>4, RestStays DEF EvalInv, FiredOnReadings
<1> QED
  BY <1>4, <1>5, <1>6, <1>7

LEMMA AskKeeps ==
  ASSUME EvalInv, NEW r \in UsageRow, NEW fails \in BOOLEAN, AskFor(r, fails) PROVE EvalInv'
<1>1. /\ UNCHANGED <<facts, live, rest, lines, deleted, stage, ledger, samples, told, tier, fired>>
      /\ faults' = IF fails THEN faults + 1 ELSE faults
      /\ stage = "missing" /\ toAsk' = toAsk \ {r}
      /\ known' = known \cup (IF ~fails /\ r \in live THEN {r} ELSE {})
      /\ missed' = missed \cup (IF fails THEN {r} ELSE {})
  BY DEF AskFor, world, Fault
<1>2. faults' \in Nat /\ (faults' = 0 => ~fails /\ faults = 0) /\ Owned' = Owned
  BY <1>1 DEF EvalInv, ReadsInv, Owned
<1>3. live \subseteq known' \cup toAsk' \cup missed' /\ known' \subseteq live \cup deleted
  BY <1>1 DEF EvalInv, ReadsInv, Read3, Read2, Read1, Over
<1>4. ReadsInv'
  BY <1>1, <1>2, <1>3 DEF EvalInv, ReadsInv, Over, Read1, Read2, Read3
<1> QED
  BY <1>1, <1>4, RestStays DEF EvalInv, SortInv, Over, FiredOnReadings

LEMMA SortKeeps == ASSUME EvalInv, Sort PROVE EvalInv'
<1>1. /\ UNCHANGED <<facts, live, rest, lines, deleted, known, ledger, samples, toAsk, told,
                     missed, fired, faults>>
      /\ stage = "missing" /\ toAsk = {} /\ stage' = "rules" /\ tier' = [r \in UsageRow |-> Label(r)]
  BY DEF Sort, world
<1>2. Owned' = Owned /\ tier' = [r \in UsageRow |-> Label(r)']
  BY <1>1 DEF Owned, Label
<1>3. ReadsInv'
  BY <1>1, <1>2 DEF EvalInv, ReadsInv, Over, Read1, Read2, Read3
<1>4. SortInv'
  BY <1>1, <1>2 DEF EvalInv, SortInv, ReadsInv, Over
<1> QED
  BY <1>1, <1>3, <1>4, RestStays DEF EvalInv, FiredOnReadings, Over

LEMMA DeleteKeeps == ASSUME EvalInv, NEW r \in UsageRow, DeleteConversation(r) PROVE EvalInv'
<1>1. /\ UNCHANGED <<facts, rest, lines, stage, known, ledger, samples, toAsk, told,
                     missed, tier, fired, faults>>
      /\ live' = live \ {r} /\ deleted' = deleted \cup {r} /\ stage # "done"
  BY DEF DeleteConversation
<1>2. Owned' = Owned /\ \A q \in UsageRow : Label(q)' = Label(q)
  BY <1>1 DEF Owned, Label
<1>3. ReadsInv'
  BY <1>1, <1>2 DEF EvalInv, ReadsInv, Over, Read1, Read2, Read3
<1>4. SortInv'
  BY <1>1, <1>2 DEF EvalInv, SortInv
<1> QED
  BY <1>1, <1>3, <1>4, RestStays DEF EvalInv, FiredOnReadings

LEMMA ProposeKeeps == ASSUME EvalConstants, EvalInv, Propose PROVE EvalInv'
<1>1. /\ UNCHANGED <<facts, live, rest, lines, deleted, known, ledger, samples, toAsk, told,
                     missed, tier, faults>>
      /\ stage = "rules" /\ stage' \in {"failed", "done"}
  BY DEF Propose, world
<1>2. Owned' = Owned /\ (\A q \in UsageRow : Label(q)' = Label(q)) /\ RowsOf("real")' = RowsOf("real")
  BY <1>1 DEF Owned, Label, RowsOf
<1>3. ReadsInv'
  BY <1>1, <1>2 DEF EvalInv, ReadsInv, Over, Read1, Read2, Read3
<1>4. SortInv'
  BY <1>1, <1>2 DEF EvalInv, SortInv, Over
<1>5. RealRounds > 0 => RowsOf("real") # {}
  BY FS_EmptySet DEF RealRounds
<1>6. RowsOf("real") # {} => "usage" \notin told
  <2> SUFFICES ASSUME "usage" \in told, NEW r \in UsageRow,
                      tier[r] \in {"human", "scheduled", "sample"}
               PROVE  FALSE
    BY DEF RowsOf
  <2>1. tier[r] = Unread
    BY <1>1 DEF EvalInv, SortInv, Over
  <2> QED
    BY <2>1 DEF EvalConstants
<1>7. c4Invalidate > 0 => rest.invalid = 1
  BY DEF c4Invalidate, EvalInv, RestInv
<1>8. pipelineEmpty => ~(\E n \in {rest.goals, rest.demands} : n = 1)
  BY DEF pipelineEmpty, carrier, EvalInv, RestInv, EvalConstants
<1>9. stage' = "done" =>
        /\ \E a \in Alerts : fired' = RulesFromSnapshot \cup (IF a # {} THEN {"R8"} ELSE {})
  BY <1>1 DEF Propose
<1>10. ASSUME stage' = "done" PROVE FiredOnReadings'
  <2>1. PICK a \in Alerts : fired' = RulesFromSnapshot \cup (IF a # {} THEN {"R8"} ELSE {})
    BY <1>9, <1>10
  <2>2. "R2" \in fired' => rest.invalid = 1
    BY <1>7, <2>1 DEF RulesFromSnapshot
  <2>3. "R3" \in fired' => rest.calls = "failing"
    BY <2>1 DEF RulesFromSnapshot
  <2>4. "R4" \in fired' => RowsOf("real") # {} /\ "usage" \notin told
    BY <1>5, <1>6, <2>1 DEF RulesFromSnapshot
  <2>5. "R5" \notin fired' <=> rest.golden = "passed"
    BY <2>1 DEF RulesFromSnapshot, canaryOk
  <2>6. "R6" \in fired' => ~(\E n \in {rest.goals, rest.demands} : n = 1)
    BY <1>8, <2>1 DEF RulesFromSnapshot
  <2>7. "R7" \in fired' <=> told # {}
    BY <2>1 DEF RulesFromSnapshot
  <2>8. "R8" \in fired' => a # {}
    BY <2>1 DEF RulesFromSnapshot
  <2>9. a # {} => \/ lines = "c1" /\ RowsOf("real") # {}
                  \/ lines = "c4Invalidate" /\ rest.invalid = 1
    BY <1>5, <1>7, <2>1 DEF Alerts
  <2> QED
    BY <1>1, <1>2, <2>2, <2>3, <2>4, <2>5, <2>6, <2>7, <2>8, <2>9 DEF FiredOnReadings
<1>11. FiredOnReadings'
  BY <1>10 DEF FiredOnReadings
<1> QED
  BY <1>1, <1>3, <1>4, <1>11, RestStays DEF EvalInv, Over

LEMMA EvalHolds == ASSUME EvalConstants, EvalInv PROVE EvalSafe
<1> SUFFICES ASSUME Sorted PROVE SameAsSql /\ RealIsReal /\ SampleIsTold
  BY DEF EvalSafe, SameAsSql, RealIsReal, SampleIsTold, EvalInv
<1>1. stage \in Read1 /\ stage \in Read2 /\ stage \in Read3 /\ stage \in Over /\ "usage" \notin told
  BY DEF Sorted, Read1, Read2, Read3, Over
<1>2. toAsk = {} /\ \A r \in UsageRow : tier[r] = Label(r)
  BY <1>1 DEF EvalInv, SortInv
<1>3. \A r \in UsageRow : r \in known => facts[r].owned \/ r \in deleted
  BY DEF EvalInv, ReadsInv, Owned
<1>4. \A r \in UsageRow : facts[r] \in Fact /\ (facts[r].sample => facts[r].title = "task")
      /\ facts[r].title \in {"probe", "task", "plain"}
  BY DEF EvalInv, ReadsInv, Fact
<1>5. RealIsReal
  <2>1. \A r \in RowsOf("real") : facts[r].owned /\ facts[r].title # "probe"
    BY <1>2 DEF RowsOf, Label
  <2>2. ASSUME NEW r \in live, facts[r].title # "probe", r \notin RowsOf("real") PROVE r \in missed
    <3>1. r \in UsageRow /\ facts[r].owned
      BY <2>2 DEF EvalInv, ReadsInv, Owned
    <3>2. r \notin known
      BY <1>2, <2>2, <3>1 DEF RowsOf, Label
    <3> QED
      BY <1>1, <1>2, <3>2 DEF EvalInv, ReadsInv
  <2>3. RowsOf("human") = RowsOf("real") \ RowsOf("scheduled")
    BY DEF RowsOf
  <2> QED
    BY <2>1, <2>2, <2>3 DEF RealIsReal
<1>6. SampleIsTold
  <2> SUFFICES ASSUME NEW r \in UsageRow, facts[r].sample, tier[r] = "scheduled", "classify" \notin told
               PROVE  FALSE
    BY DEF SampleIsTold
  <2>1. r \notin samples
    BY <1>2 DEF Label
  <2> QED
    BY <1>1, <2>1 DEF EvalInv, ReadsInv
<1>7. SameAsSql
  <2> SUFFICES ASSUME faults = 0, deleted = {}
               PROVE  /\ RowsOf("real") = {r \in UsageRow : RealWhere(r)}
                      /\ RowsOf("probe") = {r \in UsageRow : ProbeWhere(r)}
                      /\ RowsOf("orphan") = {r \in UsageRow : OrphanWhere(r) /\ ~ProbeWhere(r)}
                      /\ RowsOf("scheduled") = {r \in UsageRow : ScheduledWhere(r)}
                      /\ RowsOf("human") = {r \in UsageRow : HumanWhere(r)}
    BY DEF SameAsSql
  <2>1. told = {} /\ missed = {} /\ ledger = {r \in UsageRow : facts[r].ledger}
        /\ samples = {r \in UsageRow : facts[r].sample}
    BY <1>1 DEF EvalInv, ReadsInv
  <2>2. known = live /\ live \subseteq UsageRow
    BY <1>1, <1>2, <2>1 DEF EvalInv, ReadsInv, Owned
  <2>3. \A r \in UsageRow : InConversations(r) <=> facts[r].owned /\ r \in known
    BY <2>2 DEF InConversations
  <2>4. ASSUME NEW r \in UsageRow
        PROVE  /\ tier[r] \in {"human", "scheduled", "sample"} <=> RealWhere(r)
               /\ tier[r] = "probe" <=> ProbeWhere(r)
               /\ tier[r] = "orphan" <=> OrphanWhere(r) /\ ~ProbeWhere(r)
               /\ tier[r] \in {"scheduled", "sample"} <=> ScheduledWhere(r)
               /\ tier[r] = "human" <=> HumanWhere(r)
    <3>1. r \in ledger <=> facts[r].ledger
      BY <2>1
    <3>2. r \in samples <=> facts[r].sample
      BY <2>1
    <3>3. CASE ~facts[r].owned
      BY <1>2, <1>4, <2>3, <3>3 DEF Label, RealWhere, ProbeWhere, OrphanWhere, ScheduledWhere,
                                   HumanWhere, SampleWhere
    <3>4. CASE facts[r].owned /\ r \notin known
      BY <1>2, <1>4, <2>3, <3>1, <3>4 DEF Label, RealWhere, ProbeWhere, OrphanWhere,
                                         ScheduledWhere, HumanWhere, SampleWhere
    <3>5. CASE facts[r].owned /\ r \in known
      BY <1>2, <1>4, <2>3, <3>2, <3>5 DEF Label, RealWhere, ProbeWhere, OrphanWhere,
                                         ScheduledWhere, HumanWhere, SampleWhere
    <3> QED
      BY <3>3, <3>4, <3>5
  <2>5. /\ RowsOf("real") = {r \in UsageRow : tier[r] \in {"human", "scheduled", "sample"}}
        /\ RowsOf("probe") = {r \in UsageRow : tier[r] = "probe"}
        /\ RowsOf("orphan") = {r \in UsageRow : tier[r] = "orphan"}
        /\ RowsOf("scheduled") = {r \in UsageRow : tier[r] \in {"scheduled", "sample"}}
        /\ RowsOf("human") = {r \in UsageRow : tier[r] = "human"}
    BY DEF RowsOf
  <2> QED
    BY <2>4, <2>5
<1> QED
  BY <1>5, <1>6, <1>7

\* What the batch sorts its rows into is what one statement would have, but for
\* what failed and was told or missed, and no rule fires on a reading that
\* failed (selfeval/collect.js, cohort.js, propose.js).
THEOREM EvalIsSafe == ASSUME EvalConstants PROVE EvalSpec => []EvalSafe
<1>1. EvalInit => EvalInv
  BY EvalStarts
<1>2. EvalInv /\ [EvalNext]_evalVars => EvalInv'
  <2>1. EvalInv /\ UNCHANGED evalVars => EvalInv'
    <3> SUFFICES ASSUME EvalInv, UNCHANGED evalVars PROVE EvalInv'
      OBVIOUS
    <3>1. Owned' = Owned /\ (\A q \in UsageRow : Label(q)' = Label(q)) /\ RowsOf("real")' = RowsOf("real")
      BY DEF evalVars, Owned, Label, RowsOf
    <3>2. RestInv' /\ ReadsInv' /\ FiredOnReadings' /\ (stage' \notin Over => tier' = [r \in UsageRow |-> Unread])
      BY <3>1 DEF evalVars, EvalInv, RestInv, ReadsInv, FiredOnReadings
    <3>3. SortInv'
      BY <3>1 DEF evalVars, EvalInv, SortInv
    <3> QED
      BY <3>2, <3>3 DEF EvalInv
  <2> QED
    BY <2>1, ReadKeeps, AskKeeps, SortKeeps, ProposeKeeps, DeleteKeeps DEF EvalNext
<1>3. EvalInv => EvalSafe
  BY EvalHolds
<1> QED
  BY <1>1, <1>2, <1>3, PTL DEF EvalSpec
=============================================================================
