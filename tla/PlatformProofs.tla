--------------------------- MODULE PlatformProofs ---------------------------
(***************************************************************************)
(* Proofs about the records the platform keeps: the turns of a channel and *)
(* their rows, the copies before writes, the ledger of events with what is *)
(* read off it, the record of what a conversation has read, and the ring   *)
(* of the events a client comes back for.                                  *)
(***************************************************************************)
EXTENDS SchedulerProofs, SequenceTheorems, ChannelTurns, Undo, EventLog, ReadCache,
        EventStream

-----------------------------------------------------------------------------
(* The turns of a channel. *)

RowStatus == {"running", "interrupted", "paused", "completed"}
RunRow == [conv : Nat, status : RowStatus]
Handler ==
  [pc : {"new", "create", "begin", "ask", "look", "revive", "insert", "start",
         "agent", "mark", "finish", "replied", "threw", "lost"},
   conv : Nat, run : Nat, place : Nat,
   record : {"none", "running", "failed", "succeeded"}, aborted : BOOLEAN,
   out : {"none", "saved", "paused", "guard", "stopped", "error"}]

\* Conversations, rows and turns are named only once they are there.
HasConv == {"begin", "ask", "look", "revive", "insert", "start", "agent", "mark",
            "finish", "replied"}
ChanTypes ==
  /\ convs \in Nat /\ slot \in Seq(Message \cup {NoTurn}) /\ Len(slot) = convs
  /\ runRows \in Seq(RunRow) /\ handler \in [Message -> Handler]
ConvsKnown ==
  /\ \A m \in Message : handler[m].conv <= convs
  /\ \A m \in Message : handler[m].pc \in HasConv => handler[m].conv > 0
  /\ \A k \in DOMAIN runRows : runRows[k].conv \in 1..convs
  /\ \A m \in Message : handler[m].pc \in {"revive", "start"} \cup InRun =>
       handler[m].run \in DOMAIN runRows

\* A conversation is made by a message that has none yet.
Homeless == {m \in Message : handler[m].pc \in {"new", "create"}}
OnePerMessage == convs <= Cardinality(Message) - Cardinality(Homeless)

\* Whoever has just begun or still works keeps the row running; one that has
\* marked it has given it up.
RunningHasWorker ==
  \A k \in DOMAIN runRows : runRows[k].status = "running" =>
    \E m \in Message : handler[m].run = k /\ handler[m].pc \in {"start", "agent", "mark"}

\* Turns are numbered as they start.
Placed == {n \in Message : handler[n].place > 0}
PlacesCount ==
  /\ \A m \in Message : handler[m].place <= Cardinality(Placed)
  /\ \A m \in Message : handler[m].place > 0 => handler[m].pc \in InRun \cup {"replied", "lost"}
\* The turn that is registered is the newest of its conversation.
SlotIsNewest ==
  \A c \in DOMAIN slot : slot[c] # NoTurn =>
    \A m \in Message : HasRun(m) /\ handler[m].conv = c /\ m # slot[c] =>
      handler[m].place < handler[slot[c]].place

ChanInv ==
  /\ ChanTypes /\ ConvsKnown /\ OnePerMessage /\ RunningHasWorker /\ PlacesCount
  /\ SlotIsNewest /\ SlotHasTurn /\ RecordIsClosed /\ NewestIsRegistered

\* Only the handler of m moves, within a turn or outside of one.
OnlyMoves(m) ==
  /\ handler' \in [Message -> Handler]
  /\ \A n \in Message \ {m} : handler'[n] = handler[n]
  /\ handler'[m].place = handler[m].place
  /\ handler[m].pc \in InRun <=> handler'[m].pc \in InRun
  /\ handler[m].pc \in InRun => handler'[m].conv = handler[m].conv
  /\ {handler[m].pc, handler'[m].pc} \cap {"replied", "lost"} = {}

LEMMA PutHandler ==
  ASSUME handler \in [Message -> Handler], NEW m \in Message, NEW q \in Handler,
         handler' = [handler EXCEPT ![m] = q]
  PROVE  /\ handler' \in [Message -> Handler] /\ handler'[m] = q
         /\ \A n \in Message \ {m} : handler'[n] = handler[n]
OBVIOUS

LEMMA MovesKeep ==
  ASSUME ChanInv, NEW m \in Message, OnlyMoves(m), UNCHANGED slot
  PROVE  PlacesCount' /\ SlotIsNewest' /\ SlotHasTurn' /\ NewestIsRegistered'
         /\ RecordIsClosed'
<1>1. \A n \in Message : handler'[n].place = handler[n].place
  BY DEF OnlyMoves
<1>2. \A n \in Message : HasRun(n)' <=> HasRun(n)
  BY DEF OnlyMoves, HasRun
<1>3. \A n \in Message : HasRun(n) => handler'[n].conv = handler[n].conv
  BY DEF OnlyMoves, HasRun
<1>4. \A n \in Message : At(n, "replied") <=> At(n, "replied")'
  BY DEF OnlyMoves, At
<1>5. \A n \in Message : At(n, "replied") => handler'[n] = handler[n]
  BY DEF OnlyMoves, At
<1>6. PlacesCount'
  <2>1. Placed' = Placed
    BY <1>1 DEF Placed
  <2>2. \A n \in Message \ {m} : handler'[n].place > 0 =>
          handler'[n].pc \in InRun \cup {"replied", "lost"}
    BY DEF ChanInv, PlacesCount, OnlyMoves
  <2>3. handler'[m].place > 0 => handler'[m].pc \in InRun \cup {"replied", "lost"}
    BY <1>1 DEF ChanInv, PlacesCount, OnlyMoves
  <2>4. \A n \in Message : handler'[n].place <= Cardinality(Placed')
    BY <1>1, <2>1 DEF ChanInv, PlacesCount
  <2> QED
    BY <2>2, <2>3, <2>4 DEF PlacesCount
<1>7. SlotHasTurn'
  BY <1>2, <1>3, ChanAssumption DEF ChanInv, SlotHasTurn, ChanTypes
<1>8. SlotIsNewest'
  <2> SUFFICES ASSUME NEW c \in DOMAIN slot, slot[c] # NoTurn, NEW n \in Message,
                      HasRun(n)', handler'[n].conv = c, n # slot[c]
               PROVE  handler'[n].place < handler'[slot[c]].place
    BY DEF SlotIsNewest
  <2>1. slot[c] \in Message
    BY DEF ChanInv, ChanTypes
  <2>2. handler[n].place < handler[slot[c]].place
    BY <1>2, <1>3 DEF ChanInv, SlotIsNewest
  <2> QED
    BY <2>1, <2>2, <1>1
<1>9. NewestIsRegistered'
  <2> SUFFICES ASSUME NEW c \in DOMAIN slot, slot[c] = NoTurn, NEW n \in Message,
                      HasRun(n)', handler'[n].conv = c
               PROVE  \E k \in Message : /\ At(k, "replied")' /\ handler'[k].conv = c
                                         /\ handler'[k].place > handler'[n].place
    BY DEF NewestIsRegistered
  <2>1. HasRun(n) /\ handler[n].conv = c
    BY <1>2, <1>3
  <2>2. PICK k \in Message : /\ At(k, "replied") /\ handler[k].conv = c
                             /\ handler[k].place > handler[n].place
    BY <2>1 DEF ChanInv, NewestIsRegistered
  <2> QED
    BY <2>2, <1>1, <1>4, <1>5
<1>10. RecordIsClosed'
  BY <1>4, <1>5 DEF ChanInv, RecordIsClosed
<1> QED
  BY <1>6, <1>7, <1>8, <1>9, <1>10

LEMMA HomelessKeep ==
  ASSUME ChanInv, UNCHANGED convs, Homeless' \subseteq Homeless
  PROVE  OnePerMessage'
<1>1. IsFiniteSet(Message) /\ Homeless \subseteq Message
  BY ChanAssumption DEF Homeless
<1>2. IsFiniteSet(Homeless) /\ Cardinality(Homeless) \in Nat
      /\ Cardinality(Homeless') <= Cardinality(Homeless)
      /\ Cardinality(Homeless') \in Nat /\ Cardinality(Message) \in Nat
  BY <1>1, FS_Subset, FS_CardinalityType
<1> QED
  BY <1>2 DEF ChanInv, ChanTypes, OnePerMessage

\* A step of one handler that leaves conversations, rows and registry alone.
LEMMA QuietStep ==
  ASSUME ChanInv, NEW m \in Message, NEW q \in Handler,
         handler' = [handler EXCEPT ![m] = q], UNCHANGED <<convs, runRows, slot>>,
         q.place = handler[m].place, q.conv <= convs,
         handler[m].pc \in InRun <=> q.pc \in InRun,
         handler[m].pc \in InRun => q.conv = handler[m].conv,
         {handler[m].pc, q.pc} \cap {"replied", "lost"} = {},
         q.pc \in {"new", "create"} => handler[m].pc \in {"new", "create"},
         q.pc \in HasConv => q.conv > 0,
         q.pc \in {"revive", "start"} \cup InRun => q.run \in DOMAIN runRows,
         handler[m].pc \in {"start", "agent", "mark"} =>
           q.pc \in {"start", "agent", "mark"} /\ q.run = handler[m].run
  PROVE  ChanInv'
<1>0. handler \in [Message -> Handler]
  BY DEF ChanInv, ChanTypes
<1>1. /\ handler' \in [Message -> Handler] /\ handler'[m] = q
      /\ \A n \in Message \ {m} : handler'[n] = handler[n]
  BY <1>0, PutHandler
<1>2. OnlyMoves(m)
  BY <1>1 DEF OnlyMoves
<1>3. ChanTypes'
  BY <1>1 DEF ChanInv, ChanTypes
<1>4. ConvsKnown'
  <2>1. ConvsKnown
    BY DEF ChanInv
  <2>2. \A n \in Message : handler'[n].conv <= convs'
    BY <1>1, <2>1 DEF ConvsKnown
  <2>3. \A n \in Message : handler'[n].pc \in HasConv => handler'[n].conv > 0
    BY <1>1, <2>1 DEF ConvsKnown
  <2>4. \A n \in Message : handler'[n].pc \in {"revive", "start"} \cup InRun =>
          handler'[n].run \in DOMAIN runRows'
    BY <1>1, <2>1 DEF ConvsKnown
  <2> QED
    BY <2>1, <2>2, <2>3, <2>4 DEF ConvsKnown
<1>5. OnePerMessage'
  <2>1. Homeless' \subseteq Homeless
    BY <1>1 DEF Homeless
  <2> QED
    BY <2>1, HomelessKeep
<1>6. RunningHasWorker'
  BY <1>1 DEF ChanInv, RunningHasWorker
<1> QED
  BY <1>2, <1>3, <1>4, <1>5, <1>6, MovesKeep DEF ChanInv

LEMMA LatestIsRow ==
  ASSUME ChanInv, NEW c
  PROVE  LatestOf(c) = 0 \/ LatestOf(c) \in DOMAIN runRows
<1> DEFINE mine == {k \in DOMAIN runRows : runRows[k].conv = c}
<1>1. CASE mine = {}
  BY <1>1 DEF LatestOf
<1>2. CASE mine # {}
  <2>1. DOMAIN runRows = 1..Len(runRows) /\ Len(runRows) \in Nat
    BY DEF ChanInv, ChanTypes
  <2>2. mine \in SUBSET Int /\ \A j \in mine : j <= Len(runRows)
    BY <2>1
  <2> HIDE DEF mine
  <2>3. Max(mine) \in mine /\ \A j \in mine : Max(mine) >= j
    <3>1. Len(runRows) \in Int /\ mine # {}
      BY <2>1, <1>2
    <3> QED
      BY <3>1, <2>2, GreatestOf
  <2>5. \E k \in mine : \A j \in mine : j <= k
    BY <2>2, <2>3
  <2>4. LatestOf(c) \in mine
    BY <2>5, <1>2 DEF LatestOf, mine
  <2> QED
    BY <2>4 DEF mine
<1> QED
  BY <1>1, <1>2

LEMMA QuietSteps ==
  ASSUME ChanInv, NEW m \in Message,
         FindConv(m) \/ BeginRecord(m) \/ AskAndRead(m) \/ LookUp(m)
  PROVE  ChanInv'
<1> DEFINE h == handler[m]
<1>0. h \in Handler /\ ConvsKnown /\ convs \in Nat /\ h.conv \in Nat /\ h.run \in Nat
  BY DEF ChanInv, ChanTypes, Handler
<1>00. (h.pc \in HasConv => h.conv > 0) /\ h.conv <= convs
  BY <1>0 DEF ConvsKnown
<1>1. CASE FindConv(m) /\ convs = 0
  <2> DEFINE q == [h EXCEPT !.pc = "create"]
  <2>1. q \in Handler /\ q.pc = "create" /\ q.conv = h.conv /\ q.place = h.place
    BY <1>0 DEF Handler
  <2>2. handler' = [handler EXCEPT ![m] = q] /\ h.pc = "new"
        /\ UNCHANGED <<convs, runRows, slot>>
    BY <1>1 DEF FindConv, At
  <2> HIDE DEF q
  <2> QED
    BY <2>1, <2>2, <1>00, QuietStep DEF InRun, HasConv
<1>2. CASE FindConv(m) /\ convs # 0
  <2> DEFINE q == [h EXCEPT !.pc = "begin", !.conv = 1]
  <2>1. q \in Handler /\ q.pc = "begin" /\ q.conv = 1 /\ q.place = h.place
    BY <1>0 DEF Handler
  <2>2. handler' = [handler EXCEPT ![m] = q] /\ h.pc = "new"
        /\ UNCHANGED <<convs, runRows, slot>>
    BY <1>2 DEF FindConv, At
  <2> HIDE DEF q
  <2>3. q.conv <= convs /\ q.conv > 0
    BY <1>0, <1>2, <2>1
  <2>4. handler[m].pc \notin InRun /\ q.pc \notin InRun /\ h.pc # "replied" /\ h.pc # "lost"
    BY <2>1, <2>2 DEF InRun
  <2>5. q.pc \notin {"new", "create", "revive", "start", "replied", "lost"}
        /\ h.pc \notin {"start", "agent", "mark"}
    BY <2>1, <2>2
  <2> QED
    BY <2>1, <2>2, <2>3, <2>4, <2>5, QuietStep
<1>3. CASE BeginRecord(m)
  <2>1. PICK r \in {"running", "none"} :
          handler' = [handler EXCEPT ![m].pc = "ask", ![m].record = r]
    BY <1>3 DEF BeginRecord
  <2> DEFINE q == [h EXCEPT !.pc = "ask", !.record = r]
  <2>2. q \in Handler /\ q.pc = "ask" /\ q.conv = h.conv /\ q.place = h.place
    BY <1>0 DEF Handler
  <2>3. handler' = [handler EXCEPT ![m] = q] /\ h.pc = "begin"
        /\ UNCHANGED <<convs, runRows, slot>>
    BY <1>3, <2>1 DEF BeginRecord, At
  <2> HIDE DEF q
  <2> QED
    BY <2>2, <2>3, <1>00, QuietStep DEF InRun, HasConv
<1>4. CASE AskAndRead(m)
  <2>1. PICK p \in {"look", "threw"} : To(m, p)
    BY <1>4 DEF AskAndRead
  <2> DEFINE q == [h EXCEPT !.pc = p]
  <2>2. q \in Handler /\ q.pc = p /\ q.conv = h.conv /\ q.place = h.place
    BY <1>0, <2>1 DEF Handler
  <2>3. handler' = [handler EXCEPT ![m] = q] /\ h.pc = "ask"
        /\ UNCHANGED <<convs, runRows, slot>>
    BY <1>4, <2>1 DEF AskAndRead, At, To
  <2> HIDE DEF q
  <2> QED
    BY <2>1, <2>2, <2>3, <1>00, QuietStep DEF InRun, HasConv
<1>5. CASE LookUp(m)
  <2> DEFINE k == LatestOf(h.conv)
             p == IF k = 0 THEN "insert"
                  ELSE CASE runRows[k].status = "running" -> "start"
                         [] runRows[k].status \in {"interrupted", "paused"} -> "revive"
                         [] OTHER -> "insert"
             q == [h EXCEPT !.pc = p, !.run = k]
  <2>1. k = 0 \/ k \in DOMAIN runRows
    BY LatestIsRow
  <2>2. k \in Nat
    BY <2>1 DEF ChanInv, ChanTypes
  <2>3. p \in {"insert", "start", "revive"} /\ (k = 0 => p = "insert")
    <3>1. CASE k = 0
      BY <3>1
    <3>2. CASE k # 0
      <4>1. CASE runRows[k].status = "running"
        BY <4>1, <3>2
      <4>2. CASE runRows[k].status \in {"interrupted", "paused"}
        BY <4>2, <3>2
      <4>3. CASE runRows[k].status \notin {"running", "interrupted", "paused"}
        BY <4>3, <3>2
      <4> QED
        BY <4>1, <4>2, <4>3
    <3> QED
      BY <3>1, <3>2
  <2>4. h.pc = "look" /\ UNCHANGED <<convs, runRows, slot>>
        /\ handler' = [handler EXCEPT ![m].pc = p, ![m].run = k]
    BY <1>5 DEF LookUp, At
  <2> HIDE DEF p, k
  <2>5. q \in Handler /\ q.pc = p /\ q.conv = h.conv /\ q.place = h.place /\ q.run = k
    BY <1>0, <2>2, <2>3 DEF Handler
  <2>6. handler' = [handler EXCEPT ![m] = q]
    BY <2>4
  <2> HIDE DEF q
  <2>7. handler[m].pc \notin InRun /\ q.pc \notin InRun /\ h.pc # "replied" /\ h.pc # "lost"
        /\ q.pc \notin {"new", "create", "replied", "lost"}
        /\ h.pc \notin {"start", "agent", "mark"}
    BY <2>3, <2>4, <2>5 DEF InRun
  <2>8. q.conv <= convs /\ q.conv > 0
    BY <2>4, <2>5, <1>00 DEF HasConv
  <2>9. q.pc \in {"revive", "start"} => q.run \in DOMAIN runRows
    BY <2>1, <2>3, <2>5
  <2>10. UNCHANGED <<convs, runRows, slot>> /\ q \in Handler /\ q.place = handler[m].place
    BY <2>4, <2>5
  <2> QED
    BY <2>6, <2>7, <2>8, <2>9, <2>10, QuietStep
<1> QED
  BY <1>1, <1>2, <1>3, <1>4, <1>5

LEMMA AgentStep ==
  ASSUME ChanInv, NEW m \in Message,
         NEW how \in {"saved", "paused", "guard", "stopped", "error"},
         AgentReturns(m, how)
  PROVE  ChanInv'
<1> DEFINE h == handler[m]
           q == [h EXCEPT !.out = how, !.pc = "mark"]
<1>0. h \in Handler /\ ConvsKnown
  BY DEF ChanInv, ChanTypes, Handler
<1>1. q \in Handler /\ q.pc = "mark" /\ q.conv = h.conv /\ q.place = h.place /\ q.run = h.run
  BY <1>0 DEF Handler
<1>2. h.pc = "agent" /\ handler' = [handler EXCEPT ![m] = q]
      /\ UNCHANGED <<convs, runRows, slot>>
  BY DEF AgentReturns, At
<1>3. h.conv <= convs /\ h.conv > 0 /\ h.run \in DOMAIN runRows
  BY <1>0, <1>2 DEF ConvsKnown, HasConv, InRun
<1> HIDE DEF q
<1> QED
  BY <1>1, <1>2, <1>3, QuietStep DEF InRun, HasConv

LEMMA StopStep ==
  ASSUME ChanInv, NEW c \in DOMAIN slot, StopSlot(c)
  PROVE  ChanInv'
<1> DEFINE m == slot[c]
           h == handler[m]
           q == [h EXCEPT !.aborted = TRUE]
<1>0. m \in Message
  BY DEF ChanInv, ChanTypes, StopSlot
<1>1. h \in Handler /\ ConvsKnown
  BY <1>0 DEF ChanInv, ChanTypes, Handler
<1>2. q \in Handler /\ q.pc = h.pc /\ q.conv = h.conv /\ q.place = h.place /\ q.run = h.run
  BY <1>1 DEF Handler
<1>3. handler' = [handler EXCEPT ![m] = q] /\ UNCHANGED <<convs, runRows, slot>>
  BY DEF StopSlot
<1>4. h.pc \in InRun
  BY DEF StopSlot, ChanInv, SlotHasTurn, HasRun
<1>5. h.conv <= convs /\ h.conv > 0 /\ h.run \in DOMAIN runRows
  BY <1>0, <1>1, <1>4 DEF ConvsKnown, HasConv, InRun
<1> HIDE DEF q, m
<1> QED
  BY <1>0, <1>2, <1>3, <1>4, <1>5, QuietStep DEF InRun, HasConv

LEMMA RowEdit ==
  ASSUME runRows \in Seq(RunRow), NEW k \in DOMAIN runRows, NEW s \in RowStatus,
         runRows' = [runRows EXCEPT ![k].status = s]
  PROVE  /\ runRows' \in Seq(RunRow) /\ DOMAIN runRows' = DOMAIN runRows
         /\ \A j \in DOMAIN runRows : runRows'[j].conv = runRows[j].conv
         /\ \A j \in DOMAIN runRows \ {k} : runRows'[j] = runRows[j]
         /\ runRows'[k].status = s
<1> DEFINE r == [runRows[k] EXCEPT !.status = s]
<1>1. r \in RunRow /\ r.status = s /\ r.conv = runRows[k].conv
  <2>1. runRows[k] \in RunRow
    OBVIOUS
  <2> QED
    BY <2>1 DEF RunRow
<1>2. runRows' = [runRows EXCEPT ![k] = r]
  OBVIOUS
<1> HIDE DEF r
<1>3. DOMAIN runRows' = DOMAIN runRows /\ runRows'[k] = r
      /\ \A j \in DOMAIN runRows \ {k} : runRows'[j] = runRows[j]
  BY <1>2
<1>4. runRows' \in Seq(RunRow)
  BY <1>1, <1>2
<1> QED
  BY <1>1, <1>3, <1>4

\* A step of one handler that edits or appends a row.
LEMMA RowStep ==
  ASSUME ChanInv, NEW m \in Message, OnlyMoves(m), UNCHANGED <<convs, slot>>,
         runRows' \in Seq(RunRow), DOMAIN runRows \subseteq DOMAIN runRows',
         \A k \in DOMAIN runRows' : runRows'[k].conv \in 1..convs,
         handler'[m].pc \in {"start", "finish"}, handler[m].pc \in HasConv,
         handler'[m].conv = handler[m].conv, handler'[m].run \in DOMAIN runRows',
         RunningHasWorker'
  PROVE  ChanInv'
<1>1. ChanTypes'
  BY DEF ChanInv, ChanTypes, OnlyMoves
<1>2. ConvsKnown'
  <2>0. ConvsKnown
    BY DEF ChanInv
  <2>1. \A n \in Message : handler'[n].conv <= convs'
    BY <2>0 DEF ConvsKnown, OnlyMoves
  <2>2. \A n \in Message : handler'[n].pc \in HasConv => handler'[n].conv > 0
    BY <2>0 DEF ConvsKnown, OnlyMoves
  <2>3. \A n \in Message : handler'[n].pc \in {"revive", "start"} \cup InRun =>
          handler'[n].run \in DOMAIN runRows'
    BY <2>0 DEF ConvsKnown, OnlyMoves
  <2> QED
    BY <2>1, <2>2, <2>3 DEF ConvsKnown
<1>3. OnePerMessage'
  <2>1. Homeless' \subseteq Homeless
    BY DEF Homeless, OnlyMoves
  <2> QED
    BY <2>1, HomelessKeep
<1> QED
  BY <1>1, <1>2, <1>3, MovesKeep DEF ChanInv

LEMMA ReviveStep ==
  ASSUME ChanInv, NEW m \in Message, Revive(m)
  PROVE  ChanInv'
<1> DEFINE h == handler[m]
           q == [h EXCEPT !.pc = "start"]
<1>0. h \in Handler /\ ConvsKnown /\ handler \in [Message -> Handler]
  BY DEF ChanInv, ChanTypes
<1>1. q \in Handler /\ q.pc = "start" /\ q.conv = h.conv /\ q.place = h.place /\ q.run = h.run
  BY <1>0 DEF Handler
<1>2. h.pc = "revive" /\ handler' = [handler EXCEPT ![m] = q] /\ UNCHANGED <<convs, slot>>
  BY DEF Revive, At, To
<1> HIDE DEF q
<1>3. /\ handler' \in [Message -> Handler] /\ handler'[m] = q
      /\ \A n \in Message \ {m} : handler'[n] = handler[n]
  BY <1>0, <1>1, <1>2, PutHandler
<1>4. OnlyMoves(m)
  BY <1>1, <1>2, <1>3 DEF OnlyMoves, InRun
<1>5. h.run \in DOMAIN runRows /\ runRows \in Seq(RunRow)
  BY <1>0, <1>2 DEF ChanInv, ChanTypes, ConvsKnown
<1>6. /\ runRows' \in Seq(RunRow) /\ DOMAIN runRows' = DOMAIN runRows
      /\ \A j \in DOMAIN runRows : runRows'[j].conv = runRows[j].conv
      /\ \A j \in DOMAIN runRows \ {h.run} : runRows'[j] = runRows[j]
  BY <1>5, RowEdit DEF Revive, RowStatus
<1>7. RunningHasWorker'
  <2> SUFFICES ASSUME NEW k \in DOMAIN runRows, runRows'[k].status = "running"
               PROVE  \E n \in Message : /\ handler'[n].run = k
                                         /\ handler'[n].pc \in {"start", "agent", "mark"}
    BY <1>6 DEF RunningHasWorker
  <2>1. CASE k = h.run
    BY <2>1, <1>1, <1>3
  <2>2. CASE k # h.run
    <3>1. PICK n \in Message : handler[n].run = k /\ handler[n].pc \in {"start", "agent", "mark"}
      BY <2>2, <1>6 DEF ChanInv, RunningHasWorker
    <3> QED
      BY <3>1, <1>2, <1>3
  <2> QED
    BY <2>1, <2>2
<1>8. \A k \in DOMAIN runRows' : runRows'[k].conv \in 1..convs
  BY <1>0, <1>6 DEF ConvsKnown
<1> QED
  BY <1>1, <1>2, <1>3, <1>4, <1>5, <1>6, <1>7, <1>8, RowStep DEF HasConv

LEMMA RowMarkStep ==
  ASSUME ChanInv, NEW m \in Message, Mark(m)
  PROVE  ChanInv'
<1> DEFINE h == handler[m]
           q == [h EXCEPT !.pc = "finish"]
<1>0. h \in Handler /\ ConvsKnown /\ handler \in [Message -> Handler]
  BY DEF ChanInv, ChanTypes
<1>1. q \in Handler /\ q.pc = "finish" /\ q.conv = h.conv /\ q.place = h.place /\ q.run = h.run
  BY <1>0 DEF Handler
<1>2. h.pc = "mark" /\ handler' = [handler EXCEPT ![m] = q] /\ UNCHANGED <<convs, slot>>
  BY DEF Mark, At, To
<1> HIDE DEF q
<1>3. /\ handler' \in [Message -> Handler] /\ handler'[m] = q
      /\ \A n \in Message \ {m} : handler'[n] = handler[n]
  BY <1>0, <1>1, <1>2, PutHandler
<1>4. OnlyMoves(m)
  BY <1>1, <1>2, <1>3 DEF OnlyMoves, InRun
<1>5. h.run \in DOMAIN runRows /\ runRows \in Seq(RunRow)
  BY <1>0, <1>2 DEF ChanInv, ChanTypes, ConvsKnown, InRun
<1>6. MarkOf(h.out) \in RowStatus \ {"running"}
  BY DEF MarkOf, RowStatus
<1>7. /\ runRows' \in Seq(RunRow) /\ DOMAIN runRows' = DOMAIN runRows
      /\ \A j \in DOMAIN runRows : runRows'[j].conv = runRows[j].conv
      /\ \A j \in DOMAIN runRows \ {h.run} : runRows'[j] = runRows[j]
      /\ runRows'[h.run].status = MarkOf(h.out)
  BY <1>5, <1>6, RowEdit DEF Mark
<1>8. RunningHasWorker'
  <2> SUFFICES ASSUME NEW k \in DOMAIN runRows, runRows'[k].status = "running"
               PROVE  \E n \in Message : /\ handler'[n].run = k
                                         /\ handler'[n].pc \in {"start", "agent", "mark"}
    BY <1>7 DEF RunningHasWorker
  <2>1. k # h.run
    BY <1>6, <1>7
  <2>2. PICK n \in Message : handler[n].run = k /\ handler[n].pc \in {"start", "agent", "mark"}
    BY <2>1, <1>7 DEF ChanInv, RunningHasWorker
  <2> QED
    BY <2>1, <2>2, <1>3
<1>9. \A k \in DOMAIN runRows' : runRows'[k].conv \in 1..convs
  BY <1>0, <1>7 DEF ConvsKnown
<1> QED
  BY <1>1, <1>2, <1>3, <1>4, <1>5, <1>7, <1>8, <1>9, RowStep DEF HasConv

LEMMA InsertStep ==
  ASSUME ChanInv, NEW m \in Message, InsertRun(m)
  PROVE  ChanInv'
<1> DEFINE h == handler[m]
           r == [conv |-> h.conv, status |-> "running"]
           q == [h EXCEPT !.pc = "start", !.run = Len(runRows')]
<1>0. h \in Handler /\ ConvsKnown /\ handler \in [Message -> Handler]
      /\ runRows \in Seq(RunRow) /\ convs \in Nat
  BY DEF ChanInv, ChanTypes
<1>1. h.pc = "insert" /\ handler' = [handler EXCEPT ![m] = q] /\ UNCHANGED <<convs, slot>>
      /\ runRows' = Append(runRows, r)
  BY DEF InsertRun, At
<1>2. r \in RunRow /\ r.conv = h.conv /\ h.conv \in 1..convs
  <2>1. h.conv \in Nat
    BY <1>0 DEF Handler
  <2> QED
    BY <2>1, <1>0, <1>1 DEF RunRow, RowStatus, ConvsKnown, HasConv
<1> HIDE DEF r
<1>3. /\ runRows' \in Seq(RunRow) /\ Len(runRows') = Len(runRows) + 1
      /\ runRows'[Len(runRows')] = r
      /\ \A k \in DOMAIN runRows : k \in DOMAIN runRows' /\ runRows'[k] = runRows[k]
      /\ \A k \in DOMAIN runRows' : k \in DOMAIN runRows \/ k = Len(runRows')
      /\ Len(runRows') \in DOMAIN runRows' /\ Len(runRows') \in Nat
  BY <1>0, <1>1, <1>2
<1>4. q \in Handler /\ q.pc = "start" /\ q.conv = h.conv /\ q.place = h.place
      /\ q.run = Len(runRows')
  BY <1>0, <1>3 DEF Handler
<1> HIDE DEF q
<1>5. /\ handler' \in [Message -> Handler] /\ handler'[m] = q
      /\ \A n \in Message \ {m} : handler'[n] = handler[n]
  BY <1>0, <1>1, <1>4, PutHandler
<1>6. OnlyMoves(m)
  BY <1>1, <1>4, <1>5 DEF OnlyMoves, InRun
<1>7. RunningHasWorker'
  <2> SUFFICES ASSUME NEW k \in DOMAIN runRows', runRows'[k].status = "running"
               PROVE  \E n \in Message : /\ handler'[n].run = k
                                         /\ handler'[n].pc \in {"start", "agent", "mark"}
    BY DEF RunningHasWorker
  <2>1. CASE k = Len(runRows')
    BY <2>1, <1>4, <1>5
  <2>2. CASE k \in DOMAIN runRows
    <3>1. PICK n \in Message : handler[n].run = k /\ handler[n].pc \in {"start", "agent", "mark"}
      BY <2>2, <1>3 DEF ChanInv, RunningHasWorker
    <3> QED
      BY <3>1, <1>1, <1>5
  <2> QED
    BY <2>1, <2>2, <1>3
<1>8. \A k \in DOMAIN runRows' : runRows'[k].conv \in 1..convs
  BY <1>0, <1>2, <1>3 DEF ConvsKnown
<1> QED
  BY <1>1, <1>3, <1>4, <1>5, <1>6, <1>7, <1>8, RowStep DEF HasConv

LEMMA CreateStep ==
  ASSUME ChanInv, NEW m \in Message, CreateConv(m)
  PROVE  ChanInv'
<1> DEFINE h == handler[m]
           q == [h EXCEPT !.pc = "begin", !.conv = convs']
<1>0. h \in Handler /\ ConvsKnown /\ handler \in [Message -> Handler] /\ convs \in Nat
      /\ slot \in Seq(Message \cup {NoTurn}) /\ Len(slot) = convs /\ runRows \in Seq(RunRow)
  BY DEF ChanInv, ChanTypes
<1>1. h.pc = "create" /\ handler' = [handler EXCEPT ![m] = q] /\ runRows' = runRows
      /\ convs' = convs + 1 /\ slot' = Append(slot, NoTurn)
  BY DEF CreateConv, At
<1>2. q \in Handler /\ q.pc = "begin" /\ q.conv = convs + 1 /\ q.place = h.place
  <2>1. convs' \in Nat /\ convs' = convs + 1
    BY <1>0, <1>1
  <2> QED
    BY <2>1, <1>0 DEF Handler
<1> HIDE DEF q
<1>3. /\ handler' \in [Message -> Handler] /\ handler'[m] = q
      /\ \A n \in Message \ {m} : handler'[n] = handler[n]
  BY <1>0, <1>1, <1>2, PutHandler
<1>4. /\ slot' \in Seq(Message \cup {NoTurn}) /\ Len(slot') = convs'
      /\ DOMAIN slot = 1..convs /\ DOMAIN slot' = 1..(convs + 1) /\ slot'[convs + 1] = NoTurn
      /\ \A c \in DOMAIN slot : slot'[c] = slot[c]
  BY <1>0, <1>1
<1>5. ChanTypes'
  BY <1>0, <1>1, <1>3, <1>4 DEF ChanTypes
<1>6. ConvsKnown'
  <2>1. \A n \in Message : handler'[n].conv <= convs'
    <3>1. \A n \in Message : handler[n].conv \in Nat
      BY <1>0 DEF Handler
    <3> QED
      BY <3>1, <1>0, <1>1, <1>2, <1>3 DEF ConvsKnown
  <2>2. \A n \in Message : handler'[n].pc \in HasConv => handler'[n].conv > 0
    BY <1>0, <1>2, <1>3 DEF ConvsKnown
  <2>3. \A n \in Message : handler'[n].pc \in {"revive", "start"} \cup InRun =>
          handler'[n].run \in DOMAIN runRows'
    BY <1>0, <1>1, <1>2, <1>3 DEF ConvsKnown, InRun
  <2>4. \A k \in DOMAIN runRows' : runRows'[k].conv \in 1..convs'
    BY <1>0, <1>1 DEF ConvsKnown
  <2> QED
    BY <2>1, <2>2, <2>3, <2>4 DEF ConvsKnown
<1>7. OnePerMessage'
  <2>1. Homeless' = Homeless \ {m} /\ m \in Homeless
    BY <1>1, <1>2, <1>3 DEF Homeless
  <2>2. IsFiniteSet(Homeless) /\ IsFiniteSet(Message)
    BY ChanAssumption, FS_Subset DEF Homeless
  <2>3. Cardinality(Homeless \ {m}) = Cardinality(Homeless) - 1
        /\ Cardinality(Homeless) \in Nat /\ Cardinality(Message) \in Nat
    BY <2>1, <2>2, FS_RemoveElement, FS_CardinalityType
  <2>4. convs <= Cardinality(Message) - Cardinality(Homeless)
    BY DEF ChanInv, OnePerMessage
  <2> QED
    BY <1>0, <1>1, <2>1, <2>3, <2>4 DEF OnePerMessage
<1>8. RunningHasWorker'
  BY <1>1, <1>3 DEF ChanInv, RunningHasWorker
<1>9. \A n \in Message : handler'[n].place = handler[n].place
  BY <1>2, <1>3
<1>10. \A n \in Message : (HasRun(n)' <=> HasRun(n)) /\ (HasRun(n) => handler'[n] = handler[n])
  BY <1>1, <1>2, <1>3 DEF HasRun, InRun
<1>11. \A n \in Message : (At(n, "replied")' <=> At(n, "replied"))
         /\ (At(n, "replied") => handler'[n] = handler[n])
  BY <1>1, <1>2, <1>3 DEF At
<1>12. PlacesCount'
  <2>1. Placed' = Placed
    BY <1>9 DEF Placed
  <2>2. h.place = 0
    <3>1. h.place \in Nat
      BY <1>0 DEF Handler
    <3>2. ~(h.place > 0)
      BY <1>1 DEF ChanInv, PlacesCount, InRun
    <3> QED
      BY <3>1, <3>2
  <2>3. \A n \in Message : handler'[n].place > 0 => n # m
    BY <2>2, <1>2, <1>3
  <2> QED
    BY <2>1, <2>3, <1>3, <1>9 DEF ChanInv, PlacesCount
<1>13. \A c \in DOMAIN slot' : slot'[c] # NoTurn => c \in DOMAIN slot /\ slot[c] = slot'[c]
                                 /\ slot[c] \in Message
  BY <1>0, <1>4
<1>14. SlotHasTurn'
  BY <1>10, <1>13 DEF ChanInv, SlotHasTurn
<1>15. SlotIsNewest'
  BY <1>9, <1>10, <1>13 DEF ChanInv, SlotIsNewest
<1>16. NewestIsRegistered'
  <2> SUFFICES ASSUME NEW c \in DOMAIN slot', slot'[c] = NoTurn, NEW n \in Message,
                      HasRun(n)', handler'[n].conv = c
               PROVE  \E k \in Message : /\ At(k, "replied")' /\ handler'[k].conv = c
                                         /\ handler'[k].place > handler'[n].place
    BY DEF NewestIsRegistered
  <2>1. HasRun(n) /\ handler[n].conv = c
    BY <1>10
  <2>2. c \in DOMAIN slot /\ slot[c] = NoTurn
    BY <2>1, <1>0, <1>4 DEF ConvsKnown
  <2>3. PICK k \in Message : /\ At(k, "replied") /\ handler[k].conv = c
                             /\ handler[k].place > handler[n].place
    BY <2>1, <2>2 DEF ChanInv, NewestIsRegistered
  <2> QED
    BY <2>3, <1>9, <1>11
<1>17. RecordIsClosed'
  BY <1>11 DEF ChanInv, RecordIsClosed
<1> QED
  BY <1>5, <1>6, <1>7, <1>8, <1>12, <1>14, <1>15, <1>16, <1>17 DEF ChanInv

\* Edits of a row of the registry.
LEMMA SlotEdit ==
  ASSUME slot \in Seq(Message \cup {NoTurn}), NEW c \in DOMAIN slot,
         NEW x \in Message \cup {NoTurn}, slot' = [slot EXCEPT ![c] = x]
  PROVE  /\ slot' \in Seq(Message \cup {NoTurn}) /\ Len(slot') = Len(slot)
         /\ DOMAIN slot' = DOMAIN slot /\ slot'[c] = x
         /\ \A d \in DOMAIN slot \ {c} : slot'[d] = slot[d]
OBVIOUS

LEMMA StartStep ==
  ASSUME ChanInv, NEW m \in Message, StartTurn(m)
  PROVE  ChanInv'
<1> DEFINE h == handler[m]
           p == 1 + Cardinality(Placed)
           q == [h EXCEPT !.pc = "agent", !.place = p]
<1>0. h \in Handler /\ ConvsKnown /\ handler \in [Message -> Handler] /\ convs \in Nat
      /\ slot \in Seq(Message \cup {NoTurn}) /\ Len(slot) = convs /\ DOMAIN slot = 1..convs
  BY DEF ChanInv, ChanTypes
<1>1. h.pc = "start" /\ handler' = [handler EXCEPT ![m] = q] /\ UNCHANGED <<convs, runRows>>
      /\ slot' = [slot EXCEPT ![h.conv] = m]
  BY DEF StartTurn, At, Placed
<1>2. IsFiniteSet(Placed) /\ Cardinality(Placed) \in Nat
  BY ChanAssumption, FS_Subset, FS_CardinalityType DEF Placed
<1>3. p \in Nat /\ p > Cardinality(Placed)
  BY <1>2
<1> HIDE DEF p
<1>4. q \in Handler /\ q.pc = "agent" /\ q.conv = h.conv /\ q.place = p /\ q.run = h.run
  BY <1>0, <1>3 DEF Handler
<1> HIDE DEF q
<1>5. /\ handler' \in [Message -> Handler] /\ handler'[m] = q
      /\ \A n \in Message \ {m} : handler'[n] = handler[n]
  BY <1>0, <1>1, <1>4, PutHandler
<1>6. h.conv \in DOMAIN slot
  <2>1. h.conv \in Nat
    BY <1>0 DEF Handler
  <2> QED
    BY <2>1, <1>0, <1>1 DEF ConvsKnown, HasConv
<1>7. /\ slot' \in Seq(Message \cup {NoTurn}) /\ Len(slot') = Len(slot)
      /\ DOMAIN slot' = DOMAIN slot /\ slot'[h.conv] = m
      /\ \A d \in DOMAIN slot \ {h.conv} : slot'[d] = slot[d]
  BY <1>0, <1>1, <1>6, SlotEdit
<1>8. ChanTypes'
  BY <1>1, <1>5, <1>7 DEF ChanInv, ChanTypes
<1>9. ConvsKnown'
  <2>1. \A n \in Message : handler'[n].conv <= convs'
    BY <1>0, <1>1, <1>4, <1>5 DEF ConvsKnown
  <2>2. \A n \in Message : handler'[n].pc \in HasConv => handler'[n].conv > 0
    BY <1>0, <1>1, <1>4, <1>5 DEF ConvsKnown, HasConv
  <2>3. \A n \in Message : handler'[n].pc \in {"revive", "start"} \cup InRun =>
          handler'[n].run \in DOMAIN runRows'
    BY <1>0, <1>1, <1>4, <1>5 DEF ConvsKnown
  <2> QED
    BY <2>1, <2>2, <2>3, <1>0, <1>1 DEF ConvsKnown
<1>10. OnePerMessage'
  <2>1. Homeless' \subseteq Homeless
    BY <1>4, <1>5 DEF Homeless
  <2> QED
    BY <2>1, <1>1, HomelessKeep
<1>11. RunningHasWorker'
  <2>1. \A n \in Message : handler'[n].run = handler[n].run
    BY <1>4, <1>5
  <2>2. \A n \in Message : handler[n].pc \in {"start", "agent", "mark"} =>
          handler'[n].pc \in {"start", "agent", "mark"}
    BY <1>4, <1>5
  <2> QED
    BY <2>1, <2>2, <1>1 DEF ChanInv, RunningHasWorker
<1>12. h.place = 0
  <2>1. h.place \in Nat
    BY <1>0 DEF Handler
  <2>2. ~(h.place > 0)
    BY <1>1 DEF ChanInv, PlacesCount, InRun
  <2> QED
    BY <2>1, <2>2
<1>13. PlacesCount'
  <2>1. Placed' = Placed \cup {m} /\ m \notin Placed
    BY <1>3, <1>2, <1>4, <1>5, <1>12 DEF Placed
  <2>2. Cardinality(Placed') = p
    BY <2>1, <1>2, FS_AddElement DEF p
  <2>3. \A n \in Message : handler'[n].place <= p
    <3>1. \A n \in Message : handler[n].place \in Nat
      BY <1>0 DEF Handler
    <3> QED
      BY <3>1, <1>2, <1>3, <1>4, <1>5 DEF ChanInv, PlacesCount
  <2>4. \A n \in Message : handler'[n].place > 0 =>
          handler'[n].pc \in InRun \cup {"replied", "lost"}
    BY <1>4, <1>5 DEF ChanInv, PlacesCount, InRun
  <2> QED
    BY <2>2, <2>3, <2>4 DEF PlacesCount
<1>14. \A n \in Message \ {m} : (HasRun(n)' <=> HasRun(n)) /\ handler'[n] = handler[n]
         /\ (At(n, "replied")' <=> At(n, "replied"))
  BY <1>5 DEF HasRun, At
<1>15. HasRun(m)' /\ ~HasRun(m) /\ ~At(m, "replied")' /\ ~At(m, "replied")
  BY <1>1, <1>4, <1>5 DEF HasRun, InRun, At
<1>16. SlotHasTurn'
  <2> SUFFICES ASSUME NEW c \in DOMAIN slot, slot'[c] # NoTurn
               PROVE  handler'[slot'[c]].pc \in InRun /\ handler'[slot'[c]].conv = c
    BY <1>7 DEF SlotHasTurn, HasRun
  <2>1. CASE c = h.conv
    BY <2>1, <1>4, <1>5, <1>7, <1>15 DEF HasRun
  <2>2. CASE c # h.conv
    <3>1. slot'[c] = slot[c] /\ slot[c] \in Message
      BY <2>2, <1>0, <1>7
    <3>2. HasRun(slot[c]) /\ handler[slot[c]].conv = c
      BY <3>1 DEF ChanInv, SlotHasTurn
    <3>3. slot[c] # m
      BY <3>2, <1>15
    <3>4. handler'[slot[c]] = handler[slot[c]]
      BY <3>1, <3>3, <1>14
    <3> QED
      BY <3>1, <3>2, <3>4 DEF HasRun
  <2> QED
    BY <2>1, <2>2
<1>17. SlotIsNewest'
  <2> SUFFICES ASSUME NEW c \in DOMAIN slot, slot'[c] # NoTurn, NEW n \in Message,
                      HasRun(n)', handler'[n].conv = c, n # slot'[c]
               PROVE  handler'[n].place < handler'[slot'[c]].place
    BY <1>7 DEF SlotIsNewest
  <2>1. CASE c = h.conv
    <3>1. n # m /\ slot'[c] = m
      BY <2>1, <1>7
    <3>2. handler[n].place <= Cardinality(Placed) /\ handler[n].place \in Nat
      BY <1>0 DEF ChanInv, PlacesCount, Handler
    <3> QED
      BY <3>1, <3>2, <1>2, <1>3, <1>4, <1>5
  <2>2. CASE c # h.conv
    <3>1. slot'[c] = slot[c] /\ slot[c] \in Message /\ n # m
      BY <2>2, <1>0, <1>4, <1>5, <1>7
    <3>2. slot[c] # m
      BY <3>1, <1>15 DEF ChanInv, SlotHasTurn
    <3>3. HasRun(n) /\ handler[n].conv = c
      BY <3>1, <1>14
    <3>4. handler[n].place < handler[slot[c]].place
      BY <3>1, <3>3 DEF ChanInv, SlotIsNewest
    <3> QED
      BY <3>1, <3>2, <3>4, <1>14
  <2> QED
    BY <2>1, <2>2
<1>18. NewestIsRegistered'
  <2> SUFFICES ASSUME NEW c \in DOMAIN slot, slot'[c] = NoTurn, NEW n \in Message,
                      HasRun(n)', handler'[n].conv = c
               PROVE  \E k \in Message : /\ At(k, "replied")' /\ handler'[k].conv = c
                                         /\ handler'[k].place > handler'[n].place
    BY <1>7 DEF NewestIsRegistered
  <2>1. c # h.conv /\ slot[c] = NoTurn /\ n # m
    BY <1>4, <1>5, <1>7, ChanAssumption
  <2>2. PICK k \in Message : /\ At(k, "replied") /\ handler[k].conv = c
                             /\ handler[k].place > handler[n].place
    BY <2>1, <1>14 DEF ChanInv, NewestIsRegistered
  <2>3. k # m
    BY <2>2, <1>15
  <2> QED
    BY <2>1, <2>2, <2>3, <1>14
<1>19. RecordIsClosed'
  <2> SUFFICES ASSUME NEW n \in Message, At(n, "replied")'
               PROVE  handler'[n].record \in
                        {"none", IF handler'[n].out \in {"stopped", "error"}
                                 THEN "failed" ELSE "succeeded"}
    BY DEF RecordIsClosed
  <2>1. n # m
    BY <1>15
  <2> QED
    BY <2>1, <1>14 DEF ChanInv, RecordIsClosed
<1> QED
  BY <1>8, <1>9, <1>10, <1>11, <1>13, <1>16, <1>17, <1>18, <1>19 DEF ChanInv

LEMMA FinishStep ==
  ASSUME ChanInv, NEW m \in Message, FinishTurn(m)
  PROVE  ChanInv'
<1> DEFINE h == handler[m]
           r == RecordOf(m)
           q == [h EXCEPT !.pc = "replied", !.record = r]
<1>0. h \in Handler /\ ConvsKnown /\ handler \in [Message -> Handler] /\ convs \in Nat
      /\ slot \in Seq(Message \cup {NoTurn}) /\ Len(slot) = convs /\ DOMAIN slot = 1..convs
  BY DEF ChanInv, ChanTypes
<1>1. h.pc = "finish" /\ handler' = [handler EXCEPT ![m] = q] /\ UNCHANGED <<convs, runRows>>
      /\ slot' = Released(m)
  BY DEF FinishTurn, At
<1>2. r \in {"none", "failed", "succeeded"}
      /\ r \in {"none", IF h.out \in {"stopped", "error"} THEN "failed" ELSE "succeeded"}
  BY DEF RecordOf
<1> HIDE DEF r
<1>3. q \in Handler /\ q.pc = "replied" /\ q.conv = h.conv /\ q.place = h.place
      /\ q.run = h.run /\ q.out = h.out /\ q.record = r
  BY <1>0, <1>2 DEF Handler
<1> HIDE DEF q
<1>4. /\ handler' \in [Message -> Handler] /\ handler'[m] = q
      /\ \A n \in Message \ {m} : handler'[n] = handler[n]
  BY <1>0, <1>1, <1>3, PutHandler
<1>5. h.conv \in DOMAIN slot
  <2>1. h.conv \in Nat
    BY <1>0 DEF Handler
  <2> QED
    BY <2>1, <1>0, <1>1 DEF ConvsKnown, HasConv
<1>6. /\ slot' \in Seq(Message \cup {NoTurn}) /\ Len(slot') = Len(slot)
      /\ DOMAIN slot' = DOMAIN slot
      /\ \A d \in DOMAIN slot \ {h.conv} : slot'[d] = slot[d]
      /\ slot[h.conv] = m => slot'[h.conv] = NoTurn
      /\ slot[h.conv] # m => slot'[h.conv] = slot[h.conv]
  <2>1. CASE slot[h.conv] = m
    <3>1. slot' = [slot EXCEPT ![h.conv] = NoTurn]
      BY <2>1, <1>1 DEF Released
    <3> QED
      BY <2>1, <3>1, <1>0, <1>5, SlotEdit
  <2>2. CASE slot[h.conv] # m
    BY <2>2, <1>0, <1>1 DEF Released
  <2> QED
    BY <2>1, <2>2
<1>7. \A c \in DOMAIN slot : slot'[c] # NoTurn => slot'[c] = slot[c] /\ slot[c] # m
                                                  /\ slot[c] \in Message
  <2> SUFFICES ASSUME NEW c \in DOMAIN slot, slot'[c] # NoTurn
               PROVE  slot'[c] = slot[c] /\ slot[c] # m /\ slot[c] \in Message
    OBVIOUS
  <2>1. slot'[c] = slot[c]
    BY <1>5, <1>6
  <2>2. slot[c] # m
    BY <2>1, <1>6 DEF ChanInv, SlotHasTurn
  <2> QED
    BY <2>1, <2>2, <1>0
<1>8. ChanTypes'
  BY <1>1, <1>4, <1>6 DEF ChanInv, ChanTypes
<1>9. ConvsKnown'
  <2>1. \A n \in Message : handler'[n].conv <= convs'
    BY <1>0, <1>1, <1>3, <1>4 DEF ConvsKnown
  <2>2. \A n \in Message : handler'[n].pc \in HasConv => handler'[n].conv > 0
    BY <1>0, <1>1, <1>3, <1>4 DEF ConvsKnown, HasConv
  <2>3. \A n \in Message : handler'[n].pc \in {"revive", "start"} \cup InRun =>
          handler'[n].run \in DOMAIN runRows'
    BY <1>0, <1>1, <1>3, <1>4 DEF ConvsKnown, InRun
  <2> QED
    BY <2>1, <2>2, <2>3, <1>0, <1>1 DEF ConvsKnown
<1>10. OnePerMessage'
  <2>1. Homeless' \subseteq Homeless
    BY <1>3, <1>4 DEF Homeless
  <2> QED
    BY <2>1, <1>1, HomelessKeep
<1>11. RunningHasWorker'
  <2>1. \A n \in Message : handler[n].pc \in {"start", "agent", "mark"} => n # m
    BY <1>1
  <2> QED
    BY <2>1, <1>1, <1>4 DEF ChanInv, RunningHasWorker
<1>12. \A n \in Message : handler'[n].place = handler[n].place
  BY <1>3, <1>4
<1>13. PlacesCount'
  <2>1. Placed' = Placed
    BY <1>12 DEF Placed
  <2>2. \A n \in Message : handler'[n].place > 0 =>
          handler'[n].pc \in InRun \cup {"replied", "lost"}
    BY <1>3, <1>4 DEF ChanInv, PlacesCount
  <2> QED
    BY <2>1, <2>2, <1>12 DEF ChanInv, PlacesCount
<1>14. \A n \in Message \ {m} : (HasRun(n)' <=> HasRun(n)) /\ handler'[n] = handler[n]
         /\ (At(n, "replied")' <=> At(n, "replied"))
  BY <1>4 DEF HasRun, At
<1>15. HasRun(m) /\ ~HasRun(m)' /\ At(m, "replied")' /\ ~At(m, "replied")
  BY <1>1, <1>3, <1>4 DEF HasRun, InRun, At
<1>16. SlotHasTurn'
  <2> SUFFICES ASSUME NEW c \in DOMAIN slot, slot'[c] # NoTurn
               PROVE  handler'[slot'[c]].pc \in InRun /\ handler'[slot'[c]].conv = c
    BY <1>6 DEF SlotHasTurn, HasRun
  <2>1. slot'[c] = slot[c] /\ slot[c] # m /\ slot[c] \in Message
    BY <1>7
  <2>2. handler'[slot[c]] = handler[slot[c]]
    BY <2>1, <1>14
  <2> QED
    BY <2>1, <2>2 DEF ChanInv, SlotHasTurn, HasRun
<1>17. SlotIsNewest'
  <2> SUFFICES ASSUME NEW c \in DOMAIN slot, slot'[c] # NoTurn, NEW n \in Message,
                      HasRun(n)', handler'[n].conv = c, n # slot'[c]
               PROVE  handler'[n].place < handler'[slot'[c]].place
    BY <1>6 DEF SlotIsNewest
  <2>1. slot'[c] = slot[c] /\ slot[c] \in Message
    BY <1>7
  <2>2. HasRun(n) /\ handler[n].conv = c
    BY <1>14, <1>15
  <2>3. handler[n].place < handler[slot[c]].place
    BY <2>1, <2>2 DEF ChanInv, SlotIsNewest
  <2> QED
    BY <2>1, <2>3, <1>12
<1>18. NewestIsRegistered'
  <2> SUFFICES ASSUME NEW c \in DOMAIN slot, slot'[c] = NoTurn, NEW n \in Message,
                      HasRun(n)', handler'[n].conv = c
               PROVE  \E k \in Message : /\ At(k, "replied")' /\ handler'[k].conv = c
                                         /\ handler'[k].place > handler'[n].place
    BY <1>6 DEF NewestIsRegistered
  <2>1. n # m /\ HasRun(n) /\ handler[n].conv = c
    BY <1>14, <1>15
  <2>2. CASE slot[c] = NoTurn
    <3>1. PICK k \in Message : /\ At(k, "replied") /\ handler[k].conv = c
                               /\ handler[k].place > handler[n].place
      BY <2>1, <2>2 DEF ChanInv, NewestIsRegistered
    <3>2. k # m
      BY <3>1, <1>15
    <3> QED
      BY <2>1, <3>1, <3>2, <1>14
  <2>3. CASE slot[c] # NoTurn
    <3>1. c = h.conv /\ slot[c] = m
      BY <2>3, <1>5, <1>6
    <3>2. handler[n].place < handler[m].place
      BY <2>1, <2>3, <3>1 DEF ChanInv, SlotIsNewest
    <3>3. handler'[m].place > handler'[n].place
      <4>1. handler[n].place \in Nat /\ handler[m].place \in Nat
        BY <1>0 DEF Handler
      <4> QED
        BY <4>1, <3>2, <1>12
    <3>4. handler'[m].conv = c
      BY <3>1, <1>3, <1>4
    <3> QED
      BY <3>3, <3>4, <1>15
  <2> QED
    BY <2>2, <2>3
<1>19. RecordIsClosed'
  <2> SUFFICES ASSUME NEW n \in Message, At(n, "replied")'
               PROVE  handler'[n].record \in
                        {"none", IF handler'[n].out \in {"stopped", "error"}
                                 THEN "failed" ELSE "succeeded"}
    BY DEF RecordIsClosed
  <2>1. CASE n = m
    BY <2>1, <1>2, <1>3, <1>4
  <2>2. CASE n # m
    BY <2>2, <1>14 DEF ChanInv, RecordIsClosed
  <2> QED
    BY <2>1, <2>2
<1> QED
  BY <1>8, <1>9, <1>10, <1>11, <1>13, <1>16, <1>17, <1>18, <1>19 DEF ChanInv

LEMMA RestartStep ==
  ASSUME ChanInv, Restart
  PROVE  ChanInv'
<1> DEFINE Over == {"new", "threw", "replied"}
<1>0. handler \in [Message -> Handler] /\ slot \in Seq(Message \cup {NoTurn})
      /\ Len(slot) = convs /\ runRows \in Seq(RunRow) /\ ConvsKnown /\ convs' = convs
      /\ DOMAIN slot = 1..convs /\ convs \in Nat
  BY DEF ChanInv, ChanTypes, Restart
<1>1. /\ handler' \in [Message -> Handler]
      /\ \A n \in Message : handler[n].pc \in Over => handler'[n] = handler[n]
      /\ \A n \in Message : handler[n].pc \notin Over => handler'[n].pc = "lost"
      /\ \A n \in Message : handler'[n].conv = handler[n].conv
                            /\ handler'[n].place = handler[n].place
  <2>1. \A n \in Message :
          LET q == [handler[n] EXCEPT !.pc = "lost"]
          IN q \in Handler /\ q.pc = "lost" /\ q.conv = handler[n].conv
             /\ q.place = handler[n].place
    BY ZenonT(40), <1>0 DEF Handler
  <2>2. \A n \in Message : handler'[n] = IF handler[n].pc \in Over THEN handler[n]
                                         ELSE [handler[n] EXCEPT !.pc = "lost"]
    BY DEF Restart
  <2>3. DOMAIN handler' = Message
    BY DEF Restart
  <2>4. handler' = [n \in Message |-> IF handler[n].pc \in Over THEN handler[n]
                                      ELSE [handler[n] EXCEPT !.pc = "lost"]]
    BY DEF Restart
  <2>5. handler' \in [Message -> Handler]
    BY <2>1, <2>4, <1>0
  <2> QED
    BY <2>1, <2>2, <2>5
<1>2. /\ slot' = [c \in 1..convs |-> NoTurn] /\ slot' \in Seq(Message \cup {NoTurn})
      /\ Len(slot') = convs' /\ DOMAIN slot' = 1..convs
  <2>1. slot' = [c \in 1..convs |-> NoTurn]
    BY <1>0 DEF Restart
  <2> QED
    BY <2>1, <1>0
<1>3. \A k \in DOMAIN runRows : /\ Booted(runRows[k]) \in RunRow
                                /\ Booted(runRows[k]).conv = runRows[k].conv
                                /\ Booted(runRows[k]).status # "running"
  <2> SUFFICES ASSUME NEW k \in DOMAIN runRows
               PROVE  /\ Booted(runRows[k]) \in RunRow
                      /\ Booted(runRows[k]).conv = runRows[k].conv
                      /\ Booted(runRows[k]).status # "running"
    OBVIOUS
  <2>1. runRows[k] \in RunRow
    BY <1>0
  <2> QED
    BY <2>1 DEF Booted, RunRow, RowStatus
<1>4. /\ runRows' \in Seq(RunRow) /\ DOMAIN runRows' = DOMAIN runRows
      /\ \A k \in DOMAIN runRows : runRows'[k] = Booted(runRows[k])
  <2>1. runRows' = [k \in DOMAIN runRows |-> Booted(runRows[k])]
    BY DEF Restart
  <2>2. DOMAIN runRows = 1..Len(runRows) /\ Len(runRows) \in Nat
    BY <1>0
  <2>3. runRows' \in [1..Len(runRows) -> RunRow]
    BY <2>1, <2>2, <1>3
  <2> QED
    BY <2>1, <2>2, <2>3
<1>5. \A n \in Message : handler'[n].pc \in {"new", "threw", "replied", "lost"}
  BY <1>1
<1>6. ChanTypes'
  BY <1>0, <1>1, <1>2, <1>4 DEF ChanTypes
<1>7. ConvsKnown'
  <2>1. \A n \in Message : handler'[n].conv <= convs'
    BY <1>0, <1>1 DEF ConvsKnown
  <2>2. \A n \in Message : handler'[n].pc \in HasConv => handler'[n].conv > 0
    <3> SUFFICES ASSUME NEW n \in Message, handler'[n].pc \in HasConv
                 PROVE  handler'[n].conv > 0
      OBVIOUS
    <3>1. handler[n].pc \in Over
      BY <1>1 DEF HasConv
    <3> QED
      BY <3>1, <1>0, <1>1 DEF ConvsKnown
  <2>3. \A n \in Message : handler'[n].pc \notin {"revive", "start"} \cup InRun
    BY <1>5 DEF InRun
  <2>4. \A k \in DOMAIN runRows' : runRows'[k].conv \in 1..convs'
    BY <1>0, <1>3, <1>4 DEF ConvsKnown
  <2> QED
    BY <2>1, <2>2, <2>3, <2>4 DEF ConvsKnown
<1>8. OnePerMessage'
  <2>1. Homeless' \subseteq Homeless
    BY <1>1 DEF Homeless
  <2> QED
    BY <2>1, <1>0, HomelessKeep
<1>9. RunningHasWorker'
  BY <1>3, <1>4 DEF RunningHasWorker
<1>10. PlacesCount'
  <2>1. Placed' = Placed
    BY <1>1 DEF Placed
  <2>2. \A n \in Message : handler'[n].place > 0 =>
          handler'[n].pc \in InRun \cup {"replied", "lost"}
    <3> SUFFICES ASSUME NEW n \in Message, handler'[n].place > 0, handler[n].pc \in Over
                 PROVE  handler'[n].pc \in InRun \cup {"replied", "lost"}
      BY <1>1
    <3> QED
      BY <1>1 DEF ChanInv, PlacesCount
  <2> QED
    BY <2>1, <2>2, <1>1 DEF ChanInv, PlacesCount
<1>11. SlotHasTurn' /\ SlotIsNewest'
  BY <1>2 DEF SlotHasTurn, SlotIsNewest
<1>12. NewestIsRegistered'
  BY <1>5 DEF NewestIsRegistered, HasRun, InRun
<1>13. RecordIsClosed'
  <2> SUFFICES ASSUME NEW n \in Message, At(n, "replied")'
               PROVE  handler'[n].record \in
                        {"none", IF handler'[n].out \in {"stopped", "error"}
                                 THEN "failed" ELSE "succeeded"}
    BY DEF RecordIsClosed
  <2>1. handler[n].pc \in Over
    BY <1>1 DEF At
  <2>2. handler'[n] = handler[n] /\ At(n, "replied")
    BY <2>1, <1>1 DEF At
  <2> QED
    BY <2>2 DEF ChanInv, RecordIsClosed
<1> QED
  BY <1>6, <1>7, <1>8, <1>9, <1>10, <1>11, <1>12, <1>13 DEF ChanInv

LEMMA ChanInitHolds == ChanInit => ChanInv
<1> SUFFICES ASSUME ChanInit PROVE ChanInv
  OBVIOUS
<1>1. Fresh \in Handler /\ Fresh.pc = "new" /\ Fresh.conv = 0 /\ Fresh.place = 0
  BY DEF Fresh, Handler
<1>2. handler \in [Message -> Handler] /\ \A m \in Message : handler[m] = Fresh
  BY <1>1 DEF ChanInit
<1>3. convs = 0 /\ runRows = <<>> /\ slot = <<>>
  BY DEF ChanInit
<1>4. ChanTypes
  BY <1>2, <1>3 DEF ChanTypes
<1>5. ConvsKnown
  BY <1>1, <1>2, <1>3 DEF ConvsKnown, HasConv, InRun
<1>6. OnePerMessage
  <2>1. Homeless = Message
    BY <1>1, <1>2 DEF Homeless
  <2>2. Cardinality(Message) \in Nat
    BY ChanAssumption, FS_CardinalityType
  <2> QED
    BY <2>1, <2>2, <1>3 DEF OnePerMessage
<1>7. RunningHasWorker /\ SlotIsNewest /\ SlotHasTurn /\ NewestIsRegistered
  BY <1>3 DEF RunningHasWorker, SlotIsNewest, SlotHasTurn, NewestIsRegistered
<1>8. PlacesCount
  <2>1. Cardinality(Placed) \in Nat
    BY ChanAssumption, FS_Subset, FS_CardinalityType DEF Placed
  <2> QED
    BY <2>1, <1>1, <1>2 DEF PlacesCount
<1>9. RecordIsClosed
  BY <1>1, <1>2 DEF RecordIsClosed, At
<1> QED
  BY <1>4, <1>5, <1>6, <1>7, <1>8, <1>9 DEF ChanInv

LEMMA ChanStepHolds == ChanInv /\ [ChanNext]_chanVars => ChanInv'
<1> SUFFICES ASSUME ChanInv, [ChanNext]_chanVars PROVE ChanInv'
  OBVIOUS
<1>1. ASSUME NEW m \in Message, HandlerStep(m) PROVE ChanInv'
  BY <1>1, QuietSteps, CreateStep, ReviveStep, InsertStep, StartStep, AgentStep, RowMarkStep,
     FinishStep DEF HandlerStep
<1>2. ASSUME NEW c \in DOMAIN slot, StopSlot(c) PROVE ChanInv'
  BY <1>2, StopStep
<1>3. CASE Restart
  BY <1>3, RestartStep
<1>4. CASE UNCHANGED chanVars
  BY <1>4 DEF chanVars, ChanInv, ChanTypes, ConvsKnown, OnePerMessage, Homeless,
     RunningHasWorker, PlacesCount, Placed, SlotIsNewest, SlotHasTurn, NewestIsRegistered,
     RecordIsClosed, HasRun, At
<1> QED
  BY <1>1, <1>2, <1>3, <1>4 DEF ChanNext

LEMMA ChanInvGives == ChanInv => ChannelSafe
<1> SUFFICES ASSUME ChanInv PROVE ChannelSafe
  OBVIOUS
<1>1. ChanTypeOK
  <2>1. convs \in Nat /\ Len(slot) = convs /\ slot \in Seq(Message \cup {NoTurn})
        /\ runRows \in Seq(RunRow) /\ handler \in [Message -> Handler] /\ ConvsKnown
    BY DEF ChanInv, ChanTypes
  <2>2. convs <= Cardinality(Message)
    <3>1. IsFiniteSet(Homeless)
      BY ChanAssumption, FS_Subset DEF Homeless
    <3>2. Cardinality(Homeless) \in Nat /\ Cardinality(Message) \in Nat
      BY <3>1, ChanAssumption, FS_CardinalityType
    <3> QED
      BY <3>2, <2>1 DEF ChanInv, OnePerMessage
  <2>3. Cardinality(Message) \in Nat
    BY ChanAssumption, FS_CardinalityType
  <2>4. \A k \in DOMAIN runRows : runRows[k].status \in RowStatus
    <3> SUFFICES ASSUME NEW k \in DOMAIN runRows PROVE runRows[k].status \in RowStatus
      OBVIOUS
    <3>1. runRows[k] \in RunRow
      BY <2>1
    <3> QED
      BY <3>1 DEF RunRow
  <2>5. \A m \in Message : handler[m].conv \in Nat
    BY <2>1 DEF Handler
  <2> QED
    BY <2>1, <2>2, <2>3, <2>4, <2>5 DEF ChanTypeOK, ConvsKnown, RowStatus
<1>2. RunningHasTurn
  BY DEF ChanInv, RunningHasWorker, RunningHasTurn, InRun
<1> QED
  BY <1>1, <1>2 DEF ChanInv, ChannelSafe

\* Whatever the messages of a chat, the stops and the restarts: a row that says
\* running has a turn, what is registered is the newest turn that goes on, and
\* the record of a turn that replied is closed as it ended.
THEOREM ChannelIsSafe == ChanSpec => []ChannelSafe
<1>1. ChanInit => ChanInv
  BY ChanInitHolds
<1>2. ChanInv /\ [ChanNext]_chanVars => ChanInv'
  BY ChanStepHolds
<1>3. ChanInv => ChannelSafe
  BY ChanInvGives
<1> QED
  BY <1>1, <1>2, <1>3, PTL DEF ChanSpec

-----------------------------------------------------------------------------
(* The copies before each write. *)

Disk == [File -> Content \cup NoPlain]
Shot == [file : File, existed : BOOLEAN, copy : Content \cup NoPlain]
UndoTypes ==
  /\ disk \in Disk /\ shots \in Seq(Shot) /\ past \in Seq(Disk)
  /\ Len(past) = Len(shots) /\ Len(shots) <= KeepDirs /\ writes \in 0..MaxWrites
  /\ plain \in BOOLEAN

\* The disk as it was when the call of the j-th copy had been made and the
\* calls after it were undone.
Following(j) == IF j = Len(shots) THEN disk ELSE past[j + 1]
\* What was put aside before each call is put back over what its call left.
Chain == plain => \A j \in DOMAIN shots : past[j] = Restored(Following(j), shots[j])
UndoInv == UndoTypes /\ Chain

\* r is s with x behind it, cut entries shorter at its head.
Shifted(S, s, x, r, cut) ==
  /\ r \in Seq(S) /\ Len(r) <= KeepDirs
  /\ cut \in {0, 1} /\ (cut = 1 <=> Len(s) + 1 > KeepDirs)
  /\ \A j \in DOMAIN r : /\ j + cut \in 1..(Len(s) + 1)
                         /\ j + cut <= Len(s) => r[j] = s[j + cut]
                         /\ j + cut = Len(s) + 1 => r[j] = x

\* The oldest goes when there is one too many.
LEMMA NewestOf ==
  ASSUME NEW S, NEW s \in Seq(S), Len(s) <= KeepDirs, NEW x \in S,
         NEW r, r = Newest(Append(s, x)), NEW cut, cut = Len(s) + 1 - Len(r)
  PROVE  Shifted(S, s, x, r, cut)
<1> DEFINE a == Append(s, x)
<1>1. a \in Seq(S) /\ Len(a) = Len(s) + 1 /\ a[Len(s) + 1] = x
      /\ (\A j \in 1..Len(s) : a[j] = s[j]) /\ Len(s) \in Nat /\ KeepDirs \in Nat
  BY UndoAssumption
<1> HIDE DEF a
<1>2. CASE Len(a) > KeepDirs
  <2>1. Newest(a) = Tail(a)
    BY <1>2 DEF Newest
  <2>2. a # <<>>
    BY <1>1
  <2>3. Tail(a) \in Seq(S) /\ Len(Tail(a)) = Len(a) - 1
        /\ \A j \in 1..Len(Tail(a)) : Tail(a)[j] = a[j + 1]
    BY <1>1, <2>2
  <2>4. DOMAIN Tail(a) = 1..Len(s) /\ Len(Tail(a)) = Len(s)
    BY <1>1, <2>3
  <2> DEFINE t == Tail(a)
  <2>5. t \in Seq(S) /\ Len(t) = Len(s) /\ DOMAIN t = 1..Len(s) /\ Newest(a) = t
        /\ \A j \in 1..Len(s) : t[j] = a[j + 1]
    BY <2>1, <2>3, <2>4
  <2> HIDE DEF t
  <2>6. Len(s) + 1 - Len(t) = 1 /\ Len(s) + 1 > KeepDirs
    BY <1>1, <1>2, <2>5
  <2>7. \A j \in 1..Len(s) : /\ j + 1 \in 1..(Len(s) + 1)
                             /\ j + 1 <= Len(s) => t[j] = s[j + 1]
                             /\ j + 1 = Len(s) + 1 => t[j] = x
    BY <1>1, <2>5
  <2> QED
    BY <1>1, <2>5, <2>6, <2>7 DEF a, Shifted
<1>3. CASE ~(Len(a) > KeepDirs)
  <2>1. Newest(a) = a
    BY <1>3 DEF Newest
  <2>2. DOMAIN a = 1..(Len(s) + 1)
    BY <1>1
  <2> QED
    BY <1>1, <1>3, <2>1, <2>2 DEF a, Shifted
<1> QED
  BY <1>2, <1>3

LEMMA DroppedOf ==
  ASSUME NEW S, NEW s \in Seq(S), NEW i \in DOMAIN s
  PROVE  /\ Dropped(s, i) \in Seq(S) /\ Len(Dropped(s, i)) = Len(s) - 1
         /\ i = Len(s) => \A j \in 1..(Len(s) - 1) : Dropped(s, i)[j] = s[j]
<1>1. i \in 1..Len(s) /\ Len(s) \in Nat
  OBVIOUS
<1> DEFINE a == SubSeq(s, 1, i - 1)
           b == SubSeq(s, i + 1, Len(s))
<1>2. a \in Seq(S) /\ Len(a) = i - 1 /\ \A j \in 1..(i - 1) : a[j] = s[j]
  BY <1>1, SubSeqProperties
<1>3. b \in Seq(S) /\ Len(b) = Len(s) - i
  BY <1>1, SubSeqProperties
<1> HIDE DEF a, b
<1>4. a \o b \in Seq(S) /\ Len(a \o b) = Len(a) + Len(b)
      /\ \A j \in 1..Len(a) : (a \o b)[j] = a[j]
  <2>1. Len(a) \in Nat /\ Len(b) \in Nat
    BY <1>1, <1>2, <1>3
  <2>2. /\ a \o b \in Seq(S) /\ Len(a \o b) = Len(a) + Len(b)
        /\ \A j \in 1..Len(a) + Len(b) :
             (a \o b)[j] = IF j <= Len(a) THEN a[j] ELSE b[j - Len(a)]
    BY <1>2, <1>3, ConcatProperties
  <2> QED
    BY <2>1, <2>2
<1>5. Dropped(s, i) = a \o b
  BY DEF Dropped, a, b
<1>6. Len(a \o b) = Len(s) - 1
  BY <1>1, <1>2, <1>3, <1>4
<1>7. i = Len(s) => \A j \in 1..(Len(s) - 1) : (a \o b)[j] = s[j]
  BY <1>1, <1>2, <1>4
<1> QED
  BY <1>4, <1>5, <1>6, <1>7

LEMMA RestoredOf ==
  ASSUME NEW d \in Disk, NEW s \in Shot
  PROVE  Restored(d, s) \in Disk
<1>1. s.file \in File /\ s.copy \in Content \cup NoPlain /\ Absent \in NoPlain
  BY DEF Shot, NoPlain
<1> QED
  BY <1>1 DEF Restored, Disk

\* A copy put back over what its own call left.
LEMMA SnapshotUndone ==
  ASSUME disk \in Disk, NEW f \in File, NEW new, disk[f] # Folder, disk[f] # Big,
         NEW s, s = [file |-> f, existed |-> disk[f] \in Content, copy |-> Kept(f, new)]
  PROVE  s \in Shot /\ Restored([disk EXCEPT ![f] = new], s) = disk
<1>1. s \in Shot /\ s.file = f /\ s.existed = (disk[f] \in Content) /\ s.copy = disk[f]
  BY DEF Shot, Kept, Disk
<1>2. (IF s.existed THEN s.copy ELSE Absent) = disk[f]
  BY <1>1 DEF Disk, NoPlain
<1>3. Restored([disk EXCEPT ![f] = new], s) = [[disk EXCEPT ![f] = new] EXCEPT ![f] = disk[f]]
  BY <1>1, <1>2 DEF Restored
<1> QED
  BY <1>1, <1>3 DEF Disk

LEMMA SnapshotStep ==
  ASSUME UndoInv, NEW f \in File, NEW new \in Content \cup NoPlain,
         CallWrite(f, new, TRUE)
  PROVE  UndoInv'
<1> DEFINE L == Len(shots)
           s == [file |-> f, existed |-> disk[f] \in Content, copy |-> Kept(f, new)]
           cut == L + 1 - Len(shots')
           cut2 == L + 1 - Len(past')
<1>0. /\ disk \in Disk /\ shots \in Seq(Shot) /\ past \in Seq(Disk) /\ Len(past) = L
      /\ L <= KeepDirs /\ L \in Nat /\ DOMAIN shots = 1..L /\ DOMAIN past = 1..L
  BY DEF UndoInv, UndoTypes
<1>1. /\ disk' = [disk EXCEPT ![f] = new] /\ shots' = Newest(Append(shots, s))
      /\ past' = Newest(Append(past, disk)) /\ disk[f] # Big
      /\ plain' = (plain /\ disk[f] # Folder) /\ writes' = writes + 1 /\ writes < MaxWrites
  BY DEF CallWrite, Snapshot
<1>2. s \in Shot
  BY <1>0 DEF Shot, Kept, Disk
<1>a. cut = Len(shots) + 1 - Len(shots') /\ cut2 = Len(past) + 1 - Len(past')
  BY <1>0
<1> HIDE DEF s, cut, cut2
<1>3. /\ shots' \in Seq(Shot) /\ Len(shots') <= KeepDirs
      /\ cut \in {0, 1} /\ (cut = 1 <=> L + 1 > KeepDirs)
      /\ \A j \in DOMAIN shots' : /\ j + cut \in 1..(L + 1)
                                  /\ j + cut <= L => shots'[j] = shots[j + cut]
                                  /\ j + cut = L + 1 => shots'[j] = s
  <2>1. /\ shots \in Seq(Shot) /\ s \in Shot /\ Len(shots) <= KeepDirs
        /\ shots' = Newest(Append(shots, s)) /\ cut = Len(shots) + 1 - Len(shots')
    BY <1>0, <1>1, <1>2, <1>a
  <2>2. Shifted(Shot, shots, s, shots', cut)
    BY <2>1, NewestOf
  <2> QED
    BY <2>2 DEF Shifted
<1>4. /\ past' \in Seq(Disk)
      /\ cut2 \in {0, 1} /\ (cut2 = 1 <=> L + 1 > KeepDirs)
      /\ \A j \in DOMAIN past' : /\ j + cut2 <= L => past'[j] = past[j + cut2]
                                 /\ j + cut2 = L + 1 => past'[j] = disk
  <2>1. /\ past \in Seq(Disk) /\ disk \in Disk /\ Len(past) <= KeepDirs
        /\ past' = Newest(Append(past, disk)) /\ cut2 = Len(past) + 1 - Len(past')
    BY <1>0, <1>1, <1>a
  <2>2. Shifted(Disk, past, disk, past', cut2)
    BY <2>1, NewestOf
  <2> QED
    BY <2>2, <1>0 DEF Shifted
<1>5. cut2 = cut /\ Len(past') = Len(shots') /\ Len(shots') \in Nat
      /\ DOMAIN past' = 1..Len(shots') /\ DOMAIN shots' = 1..Len(shots')
      /\ Len(shots') + cut = L + 1
  <2>1. Len(past') \in Nat /\ Len(shots') \in Nat
    BY <1>3, <1>4
  <2>2. cut2 = cut
    BY <1>3, <1>4
  <2>3. Len(past') = Len(shots')
    BY <2>1, <2>2, <1>0, <1>a
  <2> QED
    BY <2>1, <2>2, <2>3, <1>0, <1>3, <1>4, <1>a
<1>6. UndoTypes'
  <2>1. disk' \in Disk
    BY <1>0, <1>1 DEF Disk
  <2>2. writes' \in 0..MaxWrites /\ plain' \in BOOLEAN
    BY <1>1, UndoAssumption DEF UndoInv, UndoTypes
  <2> QED
    BY <2>1, <2>2, <1>3, <1>4, <1>5 DEF UndoTypes
<1>7. ASSUME plain', NEW j \in DOMAIN shots'
      PROVE  past'[j] = Restored(Following(j), shots[j])'
  <2>0. plain /\ disk[f] # Folder
    BY <1>1, <1>7
  <2>1. j \in 1..Len(shots') /\ j + cut \in 1..(L + 1) /\ cut \in {0, 1} /\ j \in Nat
    BY <1>3, <1>5
  <2>2. CASE j + cut = L + 1
    <3>1. j = Len(shots') /\ shots'[j] = s /\ past'[j] = disk
      BY <2>1, <2>2, <1>0, <1>3, <1>4, <1>5
    <3>2. Following(j)' = disk'
      BY <3>1 DEF Following
    <3>3. Restored([disk EXCEPT ![f] = new], s) = disk
      BY <2>0, <1>0, <1>1, SnapshotUndone DEF s
    <3> QED
      BY <3>1, <3>2, <3>3, <1>1 DEF Restored
  <2>3. CASE j + cut <= L
    <3> DEFINE i == j + cut
    <3>1. i \in 1..L /\ shots'[j] = shots[i] /\ past'[j] = past[i]
      BY <2>1, <2>3, <1>0, <1>3, <1>4, <1>5
    <3>2. j # Len(shots') /\ j + 1 \in DOMAIN past'
      BY <2>1, <2>3, <1>0, <1>5
    <3>3. past'[j + 1] = Following(i)
      <4>1. CASE i = L
        <5>1. j + 1 + cut = L + 1
          BY <4>1, <2>1, <1>0
        <5> QED
          BY <4>1, <5>1, <3>2, <1>4, <1>5 DEF Following
      <4>2. CASE i # L
        <5>1. j + 1 + cut = i + 1 /\ i + 1 <= L
          BY <4>2, <3>1, <2>1, <1>0
        <5> QED
          BY <4>2, <5>1, <3>2, <1>4, <1>5 DEF Following
      <4> QED
        BY <4>1, <4>2
    <3>4. past[i] = Restored(Following(i), shots[i])
      BY <2>0, <3>1, <1>0 DEF UndoInv, Chain
    <3>5. Following(j)' = past'[j + 1]
      BY <3>2 DEF Following
    <3> QED
      BY <3>1, <3>3, <3>4, <3>5 DEF Restored
  <2> QED
    BY <2>1, <2>2, <2>3, <1>0
<1> QED
  BY <1>6, <1>7 DEF UndoInv, Chain

LEMMA WriteStep ==
  ASSUME UndoInv, NEW f \in File, NEW new \in Content \cup NoPlain,
         WriteOtherwise(f, new) \/ CallWrite(f, new, FALSE)
  PROVE  UndoInv'
<1>1. /\ UNCHANGED <<shots, past>> /\ disk' = [disk EXCEPT ![f] = new]
      /\ writes' = writes + 1 /\ writes < MaxWrites /\ plain' \in BOOLEAN
      /\ plain' => plain /\ new = disk[f]
  BY DEF WriteOtherwise, CallWrite, NoSnapshot, UndoInv, UndoTypes
<1>2. UndoTypes'
  <2>1. disk' \in Disk
    BY <1>1 DEF UndoInv, UndoTypes, Disk
  <2>2. writes' \in 0..MaxWrites
    BY <1>1, UndoAssumption DEF UndoInv, UndoTypes
  <2> QED
    BY <2>1, <2>2, <1>1 DEF UndoInv, UndoTypes
<1>3. Chain'
  <2> SUFFICES ASSUME plain' PROVE Chain'
    BY DEF Chain
  <2>1. disk' = disk
    BY <1>1 DEF UndoInv, UndoTypes, Disk
  <2> QED
    BY <2>1, <1>1 DEF UndoInv, Chain, Following, Restored
<1> QED
  BY <1>2, <1>3 DEF UndoInv

LEMMA UndoneStep ==
  ASSUME UndoInv, NEW n \in 1..KeepDirs, UndoOne(n)
  PROVE  UndoInv'
<1> DEFINE L == Len(shots)
           h == Hit(n)
<1>0. /\ disk \in Disk /\ shots \in Seq(Shot) /\ past \in Seq(Disk) /\ Len(past) = L
      /\ L <= KeepDirs /\ L \in Nat /\ DOMAIN shots = 1..L /\ DOMAIN past = 1..L
      /\ plain \in BOOLEAN /\ writes \in 0..MaxWrites
  BY DEF UndoInv, UndoTypes
<1>1. /\ disk' = Restored(disk, shots[h]) /\ shots' = Dropped(shots, h)
      /\ past' = Dropped(past, h) /\ plain' = (plain /\ n = 1) /\ writes' = writes
      /\ n \in DOMAIN shots
  BY DEF UndoOne
<1>2. h \in 1..L /\ (n = 1 => h = L)
  BY <1>0, <1>1 DEF Hit
<1> HIDE DEF h
<1>3. /\ shots' \in Seq(Shot) /\ Len(shots') = L - 1
      /\ h = L => \A j \in 1..(L - 1) : shots'[j] = shots[j]
  BY <1>0, <1>1, <1>2, DroppedOf
<1>4. /\ past' \in Seq(Disk) /\ Len(past') = L - 1
      /\ h = L => \A j \in 1..(L - 1) : past'[j] = past[j]
  BY <1>0, <1>1, <1>2, DroppedOf
<1>5. shots[h] \in Shot
  BY <1>0, <1>2, ElementOfSeq
<1>6. UndoTypes'
  <2>1. disk' \in Disk
    BY <1>0, <1>1, <1>5, RestoredOf
  <2>2. L - 1 <= KeepDirs
    BY <1>0, UndoAssumption
  <2> QED
    BY <2>1, <2>2, <1>0, <1>1, <1>3, <1>4 DEF UndoTypes
<1>7. ASSUME plain', NEW j \in DOMAIN shots'
      PROVE  past'[j] = Restored(Following(j), shots[j])'
  <2>1. plain /\ h = L
    BY <1>1, <1>2, <1>7
  <2>2. j \in 1..(L - 1)
    BY <1>3
  <2>3. shots'[j] = shots[j] /\ past'[j] = past[j]
    BY <2>1, <2>2, <1>3, <1>4
  <2>4. past[j] = Restored(Following(j), shots[j]) /\ Following(j) = past[j + 1]
    BY <2>1, <2>2, <1>0 DEF UndoInv, Chain, Following
  <2>5. Following(j)' = past[j + 1]
    <3>1. CASE j = L - 1
      <4>1. Following(j)' = disk' /\ j + 1 = L
        BY <3>1, <1>0, <1>3 DEF Following
      <4>2. past[L] = Restored(disk, shots[L])
        BY <2>1, <1>0, <1>2 DEF UndoInv, Chain, Following
      <4> QED
        BY <4>1, <4>2, <2>1, <1>1
    <3>2. CASE j # L - 1
      <4>1. Following(j)' = past'[j + 1] /\ j + 1 \in 1..(L - 1)
        BY <3>2, <2>2, <1>0, <1>3 DEF Following
      <4> QED
        BY <4>1, <2>1, <1>4
    <3> QED
      BY <3>1, <3>2
  <2> QED
    BY <2>3, <2>4, <2>5 DEF Restored
<1> QED
  BY <1>6, <1>7 DEF UndoInv, Chain

LEMMA UndoInitHolds == UndoInit => UndoInv
BY UndoAssumption DEF UndoInit, UndoInv, UndoTypes, Chain, Disk

LEMMA UndoStepHolds == UndoInv /\ [UndoNext]_undoVars => UndoInv'
<1> SUFFICES ASSUME UndoInv, [UndoNext]_undoVars PROVE UndoInv'
  OBVIOUS
<1>1. ASSUME NEW f \in File, NEW new \in Content \cup NoPlain, NEW copied \in BOOLEAN,
             CallWrite(f, new, copied)
      PROVE  UndoInv'
  <2>1. CASE copied
    <3>1. CallWrite(f, new, TRUE)
      BY <1>1, <2>1
    <3> QED
      BY <3>1, SnapshotStep
  <2>2. CASE ~copied
    <3>1. CallWrite(f, new, FALSE)
      BY <1>1, <2>2
    <3> QED
      BY <3>1, WriteStep
  <2> QED
    BY <2>1, <2>2
<1>2. ASSUME NEW f \in File, NEW new \in Content \cup NoPlain, WriteOtherwise(f, new)
      PROVE  UndoInv'
  BY <1>2, WriteStep
<1>3. ASSUME NEW n \in 1..KeepDirs, UndoOne(n) PROVE UndoInv'
  BY <1>3, UndoneStep
<1>4. CASE UNCHANGED undoVars
  BY <1>4 DEF undoVars, UndoInv, UndoTypes, Chain, Following, Restored
<1>5. ASSUME NEW n \in 1..KeepDirs, UndoFails(n) PROVE UndoInv'
  BY <1>4, <1>5 DEF UndoFails
<1> QED
  BY <1>1, <1>2, <1>3, <1>4, <1>5 DEF UndoNext

\* The disks before the calls, newest first, are what a recursion that puts the
\* copies back must yield.
LEMMA UnwoundIs ==
  ASSUME UndoInv, plain
  PROVE  \A k \in DOMAIN shots : Unwound[k] = past[Hit(k)]
<1> DEFINE L == Len(shots)
           Is(w) == w = [k \in 0..L |-> IF k = 0 THEN disk
                                        ELSE Restored(w[k - 1], shots[Hit(k)])]
           W == [k \in 0..L |-> IF k = 0 THEN disk ELSE past[Hit(k)]]
<1>1. L \in Nat /\ DOMAIN shots = 1..L
  BY DEF UndoInv, UndoTypes
<1>2. ASSUME NEW k \in 1..L
      PROVE  past[Hit(k)] = Restored(W[k - 1], shots[Hit(k)])
  <2>1. Hit(k) \in DOMAIN shots /\ Hit(k) = L - k + 1
    BY <1>1 DEF Hit
  <2>2. past[Hit(k)] = Restored(Following(Hit(k)), shots[Hit(k)])
    BY <2>1 DEF UndoInv, Chain
  <2>3. Following(Hit(k)) = W[k - 1]
    <3>1. CASE k = 1
      BY <3>1, <1>1, <2>1 DEF Following
    <3>2. CASE k # 1
      <4>1. k - 1 \in 0..L /\ k - 1 # 0 /\ Hit(k - 1) = Hit(k) + 1 /\ Hit(k) # L
        BY <3>2, <1>1 DEF Hit
      <4> QED
        BY <4>1 DEF Following
    <3> QED
      BY <3>1, <3>2
  <2> QED
    BY <2>2, <2>3
<1>3. Is(W)
  <2>1. \A k \in 0..L : W[k] = IF k = 0 THEN disk ELSE Restored(W[k - 1], shots[Hit(k)])
    <3> SUFFICES ASSUME NEW k \in 0..L
                 PROVE  W[k] = IF k = 0 THEN disk ELSE Restored(W[k - 1], shots[Hit(k)])
      OBVIOUS
    <3>1. CASE k = 0
      BY <3>1
    <3>2. CASE k # 0
      BY <3>2, <1>1, <1>2
    <3> QED
      BY <3>1, <3>2
  <2>2. W = [k \in 0..L |-> W[k]]
    OBVIOUS
  <2> HIDE DEF W
  <2> QED
    BY <2>1, <2>2
<1>4. Unwound = CHOOSE w : Is(w)
  BY DEF Unwound
<1> HIDE DEF Is, W
<1>5. Is(Unwound)
  BY <1>3, <1>4
<1>6. Unwound[0] = disk
      /\ \A k \in 1..L : Unwound[k] = Restored(Unwound[k - 1], shots[Hit(k)])
  BY <1>1, <1>5 DEF Is
\* The least rank at which they differ.
<1> DEFINE D == {k \in 0..L : Unwound[k] # W[k]}
<1>7. D = {}
  <2> SUFFICES ASSUME D # {} PROVE FALSE
    OBVIOUS
  <2> DEFINE k == Min(D)
  <2>1. D \in SUBSET Nat
    BY <1>1
  <2>2. k \in D /\ \A y \in D : k <= y
    BY <2>1, LeastOf
  <2> HIDE DEF k
  <2>3. k \in 0..L /\ Unwound[k] # W[k]
    BY <2>2
  <2>4. k # 0
    BY <2>3, <1>1, <1>6 DEF W
  <2>5. k - 1 \in 0..L /\ k \in 1..L /\ ~(k <= k - 1)
    BY <2>3, <2>4, <1>1
  <2>6. k - 1 \notin D
    BY <2>2, <2>5
  <2>7. Unwound[k - 1] = W[k - 1]
    BY <2>5, <2>6
  <2>8. Unwound[k] = past[Hit(k)]
    BY <2>5, <2>7, <1>2, <1>6
  <2> QED
    BY <2>3, <2>4, <2>8 DEF W
<1>8. ASSUME NEW k \in DOMAIN shots PROVE Unwound[k] = past[Hit(k)]
  <2>1. k \in 0..L /\ k # 0
    BY <1>1
  <2>2. Unwound[k] = W[k]
    BY <2>1, <1>7
  <2> QED
    BY <2>1, <2>2 DEF W
<1> QED
  BY <1>8

LEMMA UndoInvGives == UndoInv => UndoSafe
<1> SUFFICES ASSUME UndoInv PROVE UndoSafe
  OBVIOUS
<1>1. UndoTypeOK
  BY DEF UndoInv, UndoTypes, UndoTypeOK, Disk
<1>2. UndoGivesBack
  BY UnwoundIs DEF UndoGivesBack
<1> QED
  BY <1>1, <1>2 DEF UndoSafe

\* Undoing call after call gives back the files as they were before each,
\* whatever the undos before, the failed calls and the copies that were dropped.
THEOREM UndoIsSafe == UndoSpec => []UndoSafe
<1>1. UndoInit => UndoInv
  BY UndoInitHolds
<1>2. UndoInv /\ [UndoNext]_undoVars => UndoInv'
  BY UndoStepHolds
<1>3. UndoInv => UndoSafe
  BY UndoInvGives
<1> QED
  BY <1>1, <1>2, <1>3, PTL DEF UndoSpec
-----------------------------------------------------------------------------
(* The ledger of events. *)

LogRow == [type : {"run_start", "tool_start", "tool_done", "run_end", "fact"}, run : Nat,
           status : {"none", "done", "fail"}, fact : Nat, no : Nat]
LogTypes ==
  /\ ledger \in Seq(LogRow) /\ flying \in SUBSET LogRow /\ IsFiniteSet(flying)
  /\ facts \in Seq(Int) /\ views \in SUBSET [fact : Nat, event : Nat]
  /\ runTable \in Seq({"running", "interrupted", "completed"})
  /\ runOn \in 0..Len(runTable) /\ opened \in BOOLEAN
  /\ toolTable \in [done : Nat, fail : Nat] /\ used \in [work : Nat, no : Nat, faults : Nat]
\* A row is in the table or in the archive, and in both only while it is moved.
Held == hot \cup cold = DOMAIN ledger /\ batch \subseteq cold
\* A call of persistContractEvent knows the row of its fact.
Traced ==
  /\ \A n \in DOMAIN facts :
       facts[n] \notin {-1, 0} => facts[n] \in DOMAIN ledger /\ ledger[facts[n]].fact = n
  /\ \A v \in views : v.event \in DOMAIN ledger /\ ledger[v.event].fact = v.fact
\* Frames carry numbers that were given, and belong to no contract.
Numbers == \A f \in flying : f.no <= used.no /\ f.fact = 0
\* What the comparison counts: the frames of each kind, landed or on their way.
Kind(f) == IF f.type = "tool_start" THEN "start"
           ELSE IF f.type = "tool_done" THEN f.status ELSE "other"
Landed(kind) == {i \in DOMAIN ledger : ledger[i].fact = 0 /\ Kind(ledger[i]) = kind}
Flies(kind) == {f \in flying : Kind(f) = kind}
Told(kind) == Cardinality(Landed(kind)) + Cardinality(Flies(kind))
RunsTold == {ledger[i].run : i \in {j \in DOMAIN ledger : ledger[j].fact = 0 /\ ledger[j].type = "run_start"}}
            \cup {f.run : f \in {g \in flying : g.type = "run_start"}}
Counted ==
  /\ opened => runOn # 0
  /\ used.faults = 0 =>
       /\ Told("done") = toolTable.done /\ Told("fail") = toolTable.fail
       /\ Told("start") = toolTable.done + toolTable.fail + (IF opened THEN 1 ELSE 0)
       /\ RunsTold = 1..Len(runTable)
  /\ \A i \in DOMAIN ledger : ledger[i].type = "tool_done" => ledger[i].status \in {"done", "fail"}
  /\ \A f \in flying : f.type = "tool_done" => f.status \in {"done", "fail"}
LogInv == LogTypes /\ Held /\ Traced /\ Numbers /\ Counted

LEMMA LogFacts ==
  ASSUME LogInv
  PROVE  /\ DOMAIN ledger = 1..Len(ledger) /\ Len(ledger) \in Nat
         /\ \A i \in DOMAIN ledger : ledger[i] \in LogRow
         /\ DOMAIN facts = 1..Len(facts) /\ Len(facts) \in Nat
         /\ DOMAIN runTable = 1..Len(runTable) /\ Len(runTable) \in Nat
         /\ used \in [work : Nat, no : Nat, faults : Nat] /\ used.no \in Nat /\ used.faults \in Nat
         /\ toolTable.done \in Nat /\ toolTable.fail \in Nat
         /\ \A k : IsFiniteSet(Landed(k)) /\ IsFiniteSet(Flies(k))
         /\ \A k : Cardinality(Landed(k)) \in Nat /\ Cardinality(Flies(k)) \in Nat
<1>1. LogTypes
  BY DEF LogInv
<1>2. /\ DOMAIN ledger = 1..Len(ledger) /\ Len(ledger) \in Nat
      /\ \A i \in DOMAIN ledger : ledger[i] \in LogRow
      /\ DOMAIN facts = 1..Len(facts) /\ Len(facts) \in Nat
      /\ DOMAIN runTable = 1..Len(runTable) /\ Len(runTable) \in Nat
  BY <1>1 DEF LogTypes
<1>3. /\ used \in [work : Nat, no : Nat, faults : Nat] /\ used.no \in Nat /\ used.faults \in Nat
      /\ toolTable.done \in Nat /\ toolTable.fail \in Nat
  BY <1>1 DEF LogTypes
<1>4. IsFiniteSet(DOMAIN ledger) /\ IsFiniteSet(flying)
  BY <1>1, <1>2, FS_Interval DEF LogTypes
<1>5. \A k : Landed(k) \subseteq DOMAIN ledger /\ Flies(k) \subseteq flying
  BY DEF Landed, Flies
<1>6. \A k : IsFiniteSet(Landed(k)) /\ IsFiniteSet(Flies(k))
  BY <1>4, <1>5, FS_Subset
<1>7. \A k : Cardinality(Landed(k)) \in Nat /\ Cardinality(Flies(k)) \in Nat
  BY <1>6, FS_CardinalityType
<1> QED
  BY <1>2, <1>3, <1>6, <1>7

\* A frame goes out: it is counted once, under its kind.
LEMMA FrameGoesOut ==
  ASSUME LogInv, NEW f \in LogRow, f.no = used.no + 1, f.fact = 0,
         flying' = flying \cup {f}, ledger' = ledger
  PROVE  /\ flying' \in SUBSET LogRow /\ IsFiniteSet(flying')
         /\ \A g \in flying' : g.no <= used.no + 1 /\ g.fact = 0
         /\ \A k : Told(k)' = Told(k) + (IF Kind(f) = k THEN 1 ELSE 0)
         /\ RunsTold' = RunsTold \cup (IF f.type = "run_start" THEN {f.run} ELSE {})
<1>1. LogTypes /\ Numbers /\ used.no \in Nat
  BY LogFacts DEF LogInv
<1>2. f \notin flying
  BY <1>1 DEF Numbers
<1>3. flying' \in SUBSET LogRow /\ IsFiniteSet(flying')
  BY <1>1, FS_AddElement DEF LogTypes
<1>4. \A g \in flying' : g.no <= used.no + 1 /\ g.fact = 0
  <2>1. \A g \in flying : g.no \in Nat /\ g.no <= used.no /\ g.fact = 0
    BY <1>1 DEF Numbers, LogTypes, LogRow
  <2> QED
    BY <1>1, <2>1
<1>5. ASSUME NEW k PROVE Told(k)' = Told(k) + (IF Kind(f) = k THEN 1 ELSE 0)
  <2>1. Landed(k)' = Landed(k)
    BY DEF Landed, Kind
  <2>2. /\ Cardinality(Landed(k)) \in Nat /\ Cardinality(Flies(k)) \in Nat
        /\ IsFiniteSet(Flies(k)) /\ f \notin Flies(k)
    BY <1>2, LogFacts DEF Flies
  <2>3. CASE Kind(f) = k
    <3>1. Flies(k)' = Flies(k) \cup {f}
      BY <2>3 DEF Flies, Kind
    <3>2. Cardinality(Flies(k) \cup {f}) = Cardinality(Flies(k)) + 1
      BY <2>2, FS_AddElement
    <3> QED
      BY <2>1, <2>2, <2>3, <3>1, <3>2 DEF Told
  <2>4. CASE Kind(f) # k
    <3>1. Flies(k)' = Flies(k)
      BY <2>4 DEF Flies, Kind
    <3> QED
      BY <2>1, <2>2, <2>4, <3>1 DEF Told
  <2> QED
    BY <2>3, <2>4
<1>6. RunsTold' = RunsTold \cup (IF f.type = "run_start" THEN {f.run} ELSE {})
  BY DEF RunsTold
<1> QED
  BY <1>3, <1>4, <1>5, <1>6

\* The counter of work and frames, one step on.
LEMMA CountsTwo ==
  ASSUME used \in [work : Nat, no : Nat, faults : Nat],
         used' = [used EXCEPT !.work = @ + 1, !.no = @ + 1]
  PROVE  used' \in [work : Nat, no : Nat, faults : Nat] /\ used'.no = used.no + 1
         /\ used'.faults = used.faults
<1> DEFINE q == [used EXCEPT !.work = used.work + 1]
<1>1. q \in [work : Nat, no : Nat, faults : Nat] /\ q.no = used.no /\ q.faults = used.faults
  OBVIOUS
<1>2. used' = [q EXCEPT !.no = q.no + 1]
  OBVIOUS
<1> HIDE DEF q
<1>3. used' \in [work : Nat, no : Nat, faults : Nat]
  BY <1>1, <1>2
<1> QED
  BY <1>1, <1>2, <1>3
LEMMA CountsOne ==
  ASSUME used \in [work : Nat, no : Nat, faults : Nat],
         used' = [used EXCEPT !.no = @ + 1]
  PROVE  used' \in [work : Nat, no : Nat, faults : Nat] /\ used'.no = used.no + 1
         /\ used'.faults = used.faults
OBVIOUS
LEMMA CountsFault ==
  ASSUME used \in [work : Nat, no : Nat, faults : Nat],
         used' = [used EXCEPT !.work = @ + 1, !.faults = @ + 1]
  PROVE  used' \in [work : Nat, no : Nat, faults : Nat] /\ used'.no = used.no
         /\ used'.faults = used.faults + 1
<1> DEFINE q == [used EXCEPT !.work = used.work + 1]
<1>1. q \in [work : Nat, no : Nat, faults : Nat] /\ q.no = used.no /\ q.faults = used.faults
  OBVIOUS
<1>2. used' = [q EXCEPT !.faults = q.faults + 1]
  OBVIOUS
<1> HIDE DEF q
<1>3. used' \in [work : Nat, no : Nat, faults : Nat]
  BY <1>1, <1>2
<1> QED
  BY <1>1, <1>2, <1>3

LEMMA LogStarts == LogInit => LogInv
<1> SUFFICES ASSUME LogInit PROVE LogInv
  OBVIOUS
<1>1. /\ ledger = <<>> /\ hot = {} /\ cold = {} /\ flying = {} /\ facts = <<>>
      /\ views = {} /\ batch = {} /\ runTable = <<>> /\ runOn = 0 /\ opened = FALSE
      /\ toolTable = [done |-> 0, fail |-> 0]
      /\ used = [work |-> 0, no |-> 0, faults |-> 0]
  BY DEF LogInit
<1>2. opened \in BOOLEAN
  BY <1>1, Zenon
<1>3. LogTypes
  BY <1>1, <1>2, FS_EmptySet DEF LogTypes
<1>4. Held /\ Traced /\ Numbers
  BY <1>1 DEF Held, Traced, Numbers
<1>5. \A k : Told(k) = 0
  <2>1. \A k : Landed(k) = {} /\ Flies(k) = {}
    BY <1>1 DEF Landed, Flies
  <2> QED
    BY <2>1, FS_EmptySet DEF Told
<1>6. RunsTold = {} /\ 1..Len(runTable) = {}
  BY <1>1 DEF RunsTold
<1>7. Counted
  BY <1>1, <1>5, <1>6 DEF Counted
<1> QED
  BY <1>3, <1>4, <1>7 DEF LogInv

LEMMA StartRunStep == ASSUME LogInv, StartRun PROVE LogInv'
<1> DEFINE n == Len(runTable)
           revived == runTable # <<>> /\ Last(runTable) = "interrupted"
<1>1. PICK f : f = Frame_("run_start", Len(runTable'), "none", used.no + 1)
  OBVIOUS
<1>2. /\ runOn = 0 /\ runOn' = Len(runTable') /\ flying' = flying \cup {f}
      /\ used' = [used EXCEPT !.work = @ + 1, !.no = @ + 1]
      /\ UNCHANGED <<ledger, hot, cold, facts, views, batch, opened, toolTable>>
  BY <1>1 DEF StartRun, Persist
<1>3. runTable' = IF revived THEN [runTable EXCEPT ![Len(runTable)] = "running"]
                  ELSE Append(runTable, "running")
  BY DEF StartRun
<1>4. LogTypes /\ Held /\ Traced /\ Numbers /\ Counted
  BY DEF LogInv
<1>5. /\ runTable' \in Seq({"running", "interrupted", "completed"}) /\ Len(runTable') \in Nat \ {0}
      /\ 1..Len(runTable') = 1..n \cup {Len(runTable')}
  <2>1. runTable \in Seq({"running", "interrupted", "completed"}) /\ n \in Nat
    BY <1>4 DEF LogTypes
  <2>2. CASE revived
    <3>1. n # 0
      BY <2>1, <2>2
    <3>2. Len(runTable') = n
      BY <1>3, <2>1, <2>2
    <3> QED
      BY <1>3, <2>1, <2>2, <3>1, <3>2
  <2>3. CASE ~revived
    <3>1. Len(runTable') = n + 1
      BY <1>3, <2>1, <2>3
    <3> QED
      BY <1>3, <2>1, <2>3, <3>1
  <2> QED
    BY <2>2, <2>3
<1> HIDE DEF n, revived
<1>6. f \in LogRow /\ f.no = used.no + 1 /\ f.fact = 0 /\ f.type = "run_start"
      /\ f.run = Len(runTable') /\ Kind(f) = "other"
  BY <1>1, <1>5, LogFacts DEF LogRow, Frame_, Kind
<1>7. used' \in [work : Nat, no : Nat, faults : Nat] /\ used'.no = used.no + 1
      /\ used'.faults = used.faults
  BY <1>2, LogFacts, CountsTwo
<1>8. /\ flying' \in SUBSET LogRow /\ IsFiniteSet(flying')
      /\ \A g \in flying' : g.no <= used.no + 1 /\ g.fact = 0
      /\ \A k : Told(k)' = Told(k) + (IF Kind(f) = k THEN 1 ELSE 0)
      /\ RunsTold' = RunsTold \cup {f.run}
  BY <1>2, <1>6, FrameGoesOut
<1>9. LogTypes'
  BY <1>2, <1>4, <1>5, <1>7, <1>8 DEF LogTypes
<1>10. Held' /\ Traced' /\ Numbers'
  BY <1>2, <1>4, <1>7, <1>8 DEF Held, Traced, Numbers
<1>11. /\ Told("done")' = Told("done") /\ Told("fail")' = Told("fail")
       /\ Told("start")' = Told("start")
  <2>1. \A k : Told(k) \in Nat
    BY LogFacts DEF Told
  <2> QED
    BY <1>6, <1>8, <2>1
<1>12. Counted'
  <2>1. used'.faults = 0 => RunsTold' = 1..Len(runTable')
    BY <1>4, <1>5, <1>6, <1>7, <1>8 DEF Counted, n
  <2>2. \A g \in flying' : g.type = "tool_done" => g.status \in {"done", "fail"}
    BY <1>2, <1>4, <1>6 DEF Counted
  <2>3. opened' => runOn' # 0
    BY <1>2, <1>4 DEF Counted
  <2>4. used'.faults = 0 => /\ Told("done")' = toolTable'.done /\ Told("fail")' = toolTable'.fail
                            /\ Told("start")' = toolTable'.done + toolTable'.fail
                                                + (IF opened' THEN 1 ELSE 0)
    BY <1>2, <1>4, <1>7, <1>11 DEF Counted
  <2> QED
    BY <1>2, <1>4, <2>1, <2>2, <2>3, <2>4 DEF Counted
<1> QED
  BY <1>9, <1>10, <1>12 DEF LogInv

LEMMA StartToolStep == ASSUME LogInv, StartTool PROVE LogInv'
<1>1. PICK f : f = Frame_("tool_start", 0, "none", used.no + 1)
  OBVIOUS
<1>2. /\ runOn # 0 /\ opened = FALSE /\ opened' = TRUE /\ flying' = flying \cup {f}
      /\ used' = [used EXCEPT !.work = @ + 1, !.no = @ + 1]
      /\ UNCHANGED <<ledger, hot, cold, facts, views, batch, runTable, runOn, toolTable>>
  <2>1. opened = FALSE
    BY Zenon DEF StartTool, LogInv, LogTypes
  <2> QED
    BY <1>1, <2>1 DEF StartTool, Persist
<1>3. LogTypes /\ Held /\ Traced /\ Numbers /\ Counted
  BY DEF LogInv
<1>4. f \in LogRow /\ f.no = used.no + 1 /\ f.fact = 0 /\ f.type = "tool_start"
      /\ Kind(f) = "start"
  BY <1>1, LogFacts DEF LogRow, Frame_, Kind
<1>5. used' \in [work : Nat, no : Nat, faults : Nat] /\ used'.no = used.no + 1
      /\ used'.faults = used.faults
  BY <1>2, LogFacts, CountsTwo
<1>6. /\ flying' \in SUBSET LogRow /\ IsFiniteSet(flying')
      /\ \A g \in flying' : g.no <= used.no + 1 /\ g.fact = 0
      /\ \A k : Told(k)' = Told(k) + (IF Kind(f) = k THEN 1 ELSE 0)
      /\ RunsTold' = RunsTold
  BY <1>2, <1>4, FrameGoesOut
<1>7. opened' \in BOOLEAN
  BY <1>2, Zenon
<1>8. LogTypes'
  BY <1>2, <1>3, <1>5, <1>6, <1>7 DEF LogTypes
<1>9. Held' /\ Traced' /\ Numbers'
  BY <1>2, <1>3, <1>5, <1>6 DEF Held, Traced, Numbers
<1>10. /\ Told("done")' = Told("done") /\ Told("fail")' = Told("fail")
       /\ Told("start")' = Told("start") + 1
  <2>1. \A k : Told(k) \in Nat
    BY LogFacts DEF Told
  <2> QED
    BY <1>4, <1>6, <2>1
<1>11. Counted'
  <2>1. \A g \in flying' : g.type = "tool_done" => g.status \in {"done", "fail"}
    BY <1>2, <1>3, <1>4 DEF Counted
  <2>2. used'.faults = 0 => /\ Told("done")' = toolTable'.done /\ Told("fail")' = toolTable'.fail
                            /\ Told("start")' = toolTable'.done + toolTable'.fail
                                                + (IF opened' THEN 1 ELSE 0)
                            /\ RunsTold' = 1..Len(runTable')
    BY <1>2, <1>3, <1>5, <1>6, <1>10, LogFacts DEF Counted
  <2> QED
    BY <1>2, <1>3, <2>1, <2>2 DEF Counted
<1> QED
  BY <1>8, <1>9, <1>11 DEF LogInv

LEMMA EndToolStep ==
  ASSUME LogInv, NEW status \in {"done", "fail"}, EndTool(status) PROVE LogInv'
<1>1. PICK f : f = Frame_("tool_done", 0, status, used.no + 1)
  OBVIOUS
<1>2. /\ opened /\ opened' = FALSE /\ flying' = flying \cup {f}
      /\ toolTable' = [toolTable EXCEPT ![status] = @ + 1]
      /\ used' = [used EXCEPT !.no = @ + 1]
      /\ UNCHANGED <<ledger, hot, cold, facts, views, batch, runTable, runOn>>
  BY <1>1 DEF EndTool, Persist
<1>3. LogTypes /\ Held /\ Traced /\ Numbers /\ Counted
  BY DEF LogInv
<1>4. f \in LogRow /\ f.no = used.no + 1 /\ f.fact = 0 /\ f.type = "tool_done"
      /\ f.status = status /\ Kind(f) = status
  BY <1>1, LogFacts DEF LogRow, Frame_, Kind
<1>5. used' \in [work : Nat, no : Nat, faults : Nat] /\ used'.no = used.no + 1
      /\ used'.faults = used.faults
  BY <1>2, LogFacts, CountsOne
<1>6. /\ flying' \in SUBSET LogRow /\ IsFiniteSet(flying')
      /\ \A g \in flying' : g.no <= used.no + 1 /\ g.fact = 0
      /\ \A k : Told(k)' = Told(k) + (IF Kind(f) = k THEN 1 ELSE 0)
      /\ RunsTold' = RunsTold
  BY <1>2, <1>4, FrameGoesOut
<1>7. opened' \in BOOLEAN
  BY <1>2, Zenon
<1>8. /\ toolTable' \in [done : Nat, fail : Nat]
      /\ toolTable'.done = toolTable.done + (IF status = "done" THEN 1 ELSE 0)
      /\ toolTable'.fail = toolTable.fail + (IF status = "fail" THEN 1 ELSE 0)
  BY <1>2, <1>3 DEF LogTypes
<1>9. LogTypes'
  BY <1>2, <1>3, <1>5, <1>6, <1>7, <1>8 DEF LogTypes
<1>10. Held' /\ Traced' /\ Numbers'
  BY <1>2, <1>3, <1>5, <1>6 DEF Held, Traced, Numbers
<1>11. /\ Told("done")' = Told("done") + (IF status = "done" THEN 1 ELSE 0)
       /\ Told("fail")' = Told("fail") + (IF status = "fail" THEN 1 ELSE 0)
       /\ Told("start")' = Told("start")
  <2>1. \A k : Told(k) \in Nat
    BY LogFacts DEF Told
  <2> QED
    BY <1>4, <1>6, <2>1
<1>12. Counted'
  <2>1. \A g \in flying' : g.type = "tool_done" => g.status \in {"done", "fail"}
    BY <1>2, <1>3, <1>4 DEF Counted
  <2>2. used'.faults = 0 => Told("done")' = toolTable'.done /\ Told("fail")' = toolTable'.fail
    BY <1>3, <1>5, <1>8, <1>11, LogFacts DEF Counted
  <2>3. used'.faults = 0 => Told("start")' = toolTable'.done + toolTable'.fail
                                               + (IF opened' THEN 1 ELSE 0)
    <3>1. used'.faults = 0 => Told("start") = toolTable.done + toolTable.fail + 1
      BY <1>2, <1>3, <1>5 DEF Counted
    <3> QED
      BY <1>2, <1>8, <1>11, <3>1, LogFacts
  <2>4. used'.faults = 0 => RunsTold' = 1..Len(runTable')
    BY <1>2, <1>3, <1>5, <1>6 DEF Counted
  <2> QED
    BY <1>2, <1>3, <2>1, <2>2, <2>3, <2>4 DEF Counted
<1> QED
  BY <1>9, <1>10, <1>12 DEF LogInv

LEMMA EndRunStep ==
  ASSUME LogInv, NEW ending \in {"completed", "interrupted"}, EndRun(ending) PROVE LogInv'
<1>1. PICK f : f = Frame_("run_end", runOn, "none", used.no + 1)
  OBVIOUS
<1>2. /\ runOn # 0 /\ runOn' = 0 /\ flying' = flying \cup {f} /\ opened = FALSE
      /\ runTable' = [runTable EXCEPT ![runOn] = ending]
      /\ used' = [used EXCEPT !.no = @ + 1]
      /\ UNCHANGED <<ledger, hot, cold, facts, views, batch, opened, toolTable>>
  <2>1. opened = FALSE
    BY Zenon DEF EndRun, LogInv, LogTypes
  <2> QED
    BY <1>1, <2>1 DEF EndRun, Persist
<1>3. LogTypes /\ Held /\ Traced /\ Numbers /\ Counted
  BY DEF LogInv
<1>4. f \in LogRow /\ f.no = used.no + 1 /\ f.fact = 0 /\ f.type = "run_end"
      /\ Kind(f) = "other"
  BY <1>1, <1>3, LogFacts DEF LogRow, Frame_, Kind, LogTypes
<1>5. used' \in [work : Nat, no : Nat, faults : Nat] /\ used'.no = used.no + 1
      /\ used'.faults = used.faults
  BY <1>2, LogFacts, CountsOne
<1>6. /\ flying' \in SUBSET LogRow /\ IsFiniteSet(flying')
      /\ \A g \in flying' : g.no <= used.no + 1 /\ g.fact = 0
      /\ \A k : Told(k)' = Told(k) + (IF Kind(f) = k THEN 1 ELSE 0)
      /\ RunsTold' = RunsTold
  BY <1>2, <1>4, FrameGoesOut
<1>7. runTable' \in Seq({"running", "interrupted", "completed"}) /\ Len(runTable') = Len(runTable)
  <2>1. runTable \in Seq({"running", "interrupted", "completed"})
    BY <1>3 DEF LogTypes
  <2>2. ending \in {"running", "interrupted", "completed"}
    OBVIOUS
  <2>3. runTable' \in [1..Len(runTable) -> {"running", "interrupted", "completed"}]
    <3>1. runTable \in [1..Len(runTable) -> {"running", "interrupted", "completed"}]
      BY <2>1
    <3>2. runTable' = [runTable EXCEPT ![runOn] = ending]
      BY <1>2
    <3> QED
      BY <2>2, <3>1, <3>2
  <2>4. Len(runTable) \in Nat
    BY <2>1
  <2> QED
    BY <2>3, <2>4
<1>8. LogTypes'
  BY <1>2, <1>3, <1>5, <1>6, <1>7, LogFacts DEF LogTypes
<1>9. Held' /\ Traced' /\ Numbers'
  BY <1>2, <1>3, <1>5, <1>6 DEF Held, Traced, Numbers
<1>10. /\ Told("done")' = Told("done") /\ Told("fail")' = Told("fail")
       /\ Told("start")' = Told("start")
  <2>1. \A k : Told(k) \in Nat
    BY LogFacts DEF Told
  <2> QED
    BY <1>4, <1>6, <2>1
<1>11. Counted'
  <2>1. \A g \in flying' : g.type = "tool_done" => g.status \in {"done", "fail"}
    BY <1>2, <1>3, <1>4 DEF Counted
  <2>2. used'.faults = 0 => /\ Told("done")' = toolTable'.done /\ Told("fail")' = toolTable'.fail
                            /\ Told("start")' = toolTable'.done + toolTable'.fail
                                                + (IF opened' THEN 1 ELSE 0)
                            /\ RunsTold' = 1..Len(runTable')
    BY <1>2, <1>3, <1>5, <1>6, <1>7, <1>10 DEF Counted
  <2> QED
    BY <1>2, <1>3, <2>1, <2>2 DEF Counted
<1> QED
  BY <1>8, <1>9, <1>11 DEF LogInv

\* The ledger grows by a row: the rows before it stay, and a fact or a frame is
\* counted where it belongs.
LEMMA RowLands ==
  ASSUME LogInv, NEW f \in LogRow, ledger' = Append(ledger, f)
  PROVE  /\ ledger' \in Seq(LogRow) /\ Len(ledger') = Len(ledger) + 1
         /\ DOMAIN ledger' = DOMAIN ledger \cup {Len(ledger')} /\ Len(ledger') \notin DOMAIN ledger
         /\ \A i \in DOMAIN ledger : ledger'[i] = ledger[i]
         /\ ledger'[Len(ledger')] = f
         /\ \A k : Landed(k)' = IF f.fact = 0 /\ Kind(f) = k THEN Landed(k) \cup {Len(ledger')}
                                ELSE Landed(k)
<1>1. ledger \in Seq(LogRow) /\ Len(ledger) \in Nat /\ DOMAIN ledger = 1..Len(ledger)
  BY LogFacts DEF LogInv, LogTypes
<1>2. /\ ledger' \in Seq(LogRow) /\ Len(ledger') = Len(ledger) + 1
      /\ \A i \in DOMAIN ledger : ledger'[i] = ledger[i]
      /\ ledger'[Len(ledger')] = f
  BY <1>1
<1>3. DOMAIN ledger' = 1..Len(ledger')
  BY <1>2
<1>4. DOMAIN ledger' = DOMAIN ledger \cup {Len(ledger')} /\ Len(ledger') \notin DOMAIN ledger
  BY <1>1, <1>2, <1>3
<1>5. ASSUME NEW k
      PROVE  Landed(k)' = IF f.fact = 0 /\ Kind(f) = k THEN Landed(k) \cup {Len(ledger')}
                          ELSE Landed(k)
  BY <1>2, <1>4 DEF Landed, Kind
<1> QED
  BY <1>2, <1>4, <1>5

LEMMA LandStep == ASSUME LogInv, NEW f \in flying, Land(f) PROVE LogInv'
<1> DEFINE n == Len(ledger')
<1>1. /\ flying' = flying \ {f} /\ ledger' = Append(ledger, f) /\ hot' = hot \cup {n}
      /\ UNCHANGED <<cold, facts, views, batch, runTable, runOn, opened, toolTable, used>>
  BY DEF Land
<1>2. LogTypes /\ Held /\ Traced /\ Numbers /\ Counted
  BY DEF LogInv
<1>3. f \in LogRow /\ f.fact = 0
  BY <1>2 DEF LogTypes, Numbers
<1>4. /\ ledger' \in Seq(LogRow) /\ n = Len(ledger) + 1
      /\ DOMAIN ledger' = DOMAIN ledger \cup {n} /\ n \notin DOMAIN ledger
      /\ \A i \in DOMAIN ledger : ledger'[i] = ledger[i]
      /\ ledger'[n] = f
      /\ \A k : Landed(k)' = IF f.fact = 0 /\ Kind(f) = k THEN Landed(k) \cup {n} ELSE Landed(k)
  BY <1>1, <1>3, RowLands
<1> HIDE DEF n
<1>5. flying' \in SUBSET LogRow /\ IsFiniteSet(flying')
  BY <1>1, <1>2, FS_Subset DEF LogTypes
<1>6. LogTypes'
  BY <1>1, <1>2, <1>4, <1>5 DEF LogTypes
<1>7. Held' /\ Traced' /\ Numbers'
  <2>1. Held'
    BY <1>1, <1>2, <1>4 DEF Held
  <2>2. Traced'
    BY <1>1, <1>2, <1>4 DEF Traced
  <2>3. Numbers'
    BY <1>1, <1>2 DEF Numbers
  <2> QED
    BY <2>1, <2>2, <2>3
<1>8. ASSUME NEW k PROVE Told(k)' = Told(k)
  <2>1. /\ IsFiniteSet(Landed(k)) /\ IsFiniteSet(Flies(k)) /\ n \notin Landed(k)
        /\ Cardinality(Landed(k)) \in Nat /\ Cardinality(Flies(k)) \in Nat
    BY <1>4, LogFacts DEF Landed
  <2>2. CASE Kind(f) = k
    <3>1. Flies(k)' = Flies(k) \ {f} /\ f \in Flies(k)
      BY <1>1, <2>2 DEF Flies, Kind
    <3>2. Cardinality(Flies(k) \ {f}) = Cardinality(Flies(k)) - 1
      BY <2>1, <3>1, FS_RemoveElement
    <3>3. Landed(k)' = Landed(k) \cup {n}
      BY <1>3, <1>4, <2>2
    <3>4. Cardinality(Landed(k) \cup {n}) = Cardinality(Landed(k)) + 1
      BY <2>1, FS_AddElement
    <3> QED
      BY <2>1, <3>1, <3>2, <3>3, <3>4 DEF Told
  <2>3. CASE Kind(f) # k
    <3>1. Flies(k)' = Flies(k)
      BY <1>1, <2>3 DEF Flies, Kind
    <3>2. Landed(k)' = Landed(k)
      BY <1>4, <2>3
    <3> QED
      BY <3>1, <3>2 DEF Told
  <2> QED
    BY <2>2, <2>3
<1>9. RunsTold' = RunsTold
  <2>1. ASSUME NEW r \in RunsTold' PROVE r \in RunsTold
    <3>1. CASE \E i \in DOMAIN ledger' : ledger'[i].fact = 0 /\ ledger'[i].type = "run_start"
                                         /\ r = ledger'[i].run
      <4>1. PICK i \in DOMAIN ledger' : ledger'[i].fact = 0 /\ ledger'[i].type = "run_start"
                                        /\ r = ledger'[i].run
        BY <3>1
      <4>2. CASE i = n
        BY <1>4, <4>1, <4>2 DEF RunsTold
      <4>3. CASE i # n
        <5>1. i \in DOMAIN ledger /\ ledger'[i] = ledger[i]
          BY <1>4, <4>1, <4>3
        <5> QED
          BY <4>1, <5>1 DEF RunsTold
      <4> QED
        BY <4>2, <4>3
    <3>2. CASE \E g \in flying' : g.type = "run_start" /\ r = g.run
      BY <1>1, <3>2 DEF RunsTold
    <3> QED
      BY <3>1, <3>2 DEF RunsTold
  <2>2. ASSUME NEW r \in RunsTold PROVE r \in RunsTold'
    <3>1. CASE \E i \in DOMAIN ledger : ledger[i].fact = 0 /\ ledger[i].type = "run_start"
                                        /\ r = ledger[i].run
      <4>1. PICK i \in DOMAIN ledger : ledger[i].fact = 0 /\ ledger[i].type = "run_start"
                                       /\ r = ledger[i].run
        BY <3>1
      <4>2. i \in DOMAIN ledger' /\ ledger'[i] = ledger[i]
        BY <1>4, <4>1
      <4> QED
        BY <4>1, <4>2 DEF RunsTold
    <3>2. CASE \E g \in flying : g.type = "run_start" /\ r = g.run
      <4>1. PICK g \in flying : g.type = "run_start" /\ r = g.run
        BY <3>2
      <4>2. CASE g = f
        <5>1. n \in DOMAIN ledger' /\ ledger'[n] = g /\ g.fact = 0
          BY <1>3, <1>4, <4>2
        <5> QED
          BY <4>1, <5>1 DEF RunsTold
      <4>3. CASE g # f
        BY <1>1, <4>1, <4>3 DEF RunsTold
      <4> QED
        BY <4>2, <4>3
    <3> QED
      BY <3>1, <3>2 DEF RunsTold
  <2> QED
    BY <2>1, <2>2
<1>10. Counted'
  <2>1. \A i \in DOMAIN ledger' : ledger'[i].type = "tool_done"
                                  => ledger'[i].status \in {"done", "fail"}
    BY <1>2, <1>3, <1>4 DEF Counted
  <2>2. \A g \in flying' : g.type = "tool_done" => g.status \in {"done", "fail"}
    BY <1>1, <1>2 DEF Counted
  <2>3. used'.faults = 0 =>
          /\ Told("done")' = toolTable'.done /\ Told("fail")' = toolTable'.fail
          /\ Told("start")' = toolTable'.done + toolTable'.fail + (IF opened' THEN 1 ELSE 0)
          /\ RunsTold' = 1..Len(runTable')
    BY <1>1, <1>2, <1>8, <1>9 DEF Counted
  <2> QED
    BY <1>1, <1>2, <2>1, <2>2, <2>3 DEF Counted
<1> QED
  BY <1>6, <1>7, <1>10 DEF LogInv

LEMMA LandingFailsStep == ASSUME LogInv, NEW f \in flying, LandingFails(f) PROVE LogInv'
<1>1. /\ flying' = flying \ {f} /\ used' = [used EXCEPT !.work = @ + 1, !.faults = @ + 1]
      /\ UNCHANGED <<ledger, hot, cold, facts, views, batch, runTable, runOn, opened, toolTable>>
  BY DEF LandingFails
<1>2. LogTypes /\ Held /\ Traced /\ Numbers /\ Counted
  BY DEF LogInv
<1>3. used' \in [work : Nat, no : Nat, faults : Nat] /\ used'.no = used.no
      /\ used'.faults = used.faults + 1
  BY <1>1, LogFacts, CountsFault
<1>4. flying' \in SUBSET LogRow /\ IsFiniteSet(flying')
  BY <1>1, <1>2, FS_Subset DEF LogTypes
<1>5. LogTypes'
  BY <1>1, <1>2, <1>3, <1>4 DEF LogTypes
<1>6. Held' /\ Traced' /\ Numbers'
  BY <1>1, <1>2, <1>3 DEF Held, Traced, Numbers
<1>7. used'.faults # 0
  BY <1>3, LogFacts
<1>8. Counted'
  BY <1>1, <1>2, <1>7 DEF Counted
<1> QED
  BY <1>5, <1>6, <1>8 DEF LogInv

LEMMA LogCrashStep == ASSUME LogInv, LogCrash PROVE LogInv'
<1>1. /\ used' = [used EXCEPT !.work = @ + 1, !.faults = @ + 1]
      /\ flying' = {} /\ batch' = {} /\ runOn' = 0 /\ opened' = FALSE
      /\ facts' = [n \in DOMAIN facts |-> IF \E v \in views : v.fact = n THEN facts[n] ELSE -1]
      /\ runTable' = [k \in DOMAIN runTable |->
                        IF runTable[k] = "running" THEN "interrupted" ELSE runTable[k]]
      /\ UNCHANGED <<ledger, hot, cold, views, toolTable>>
  BY DEF LogCrash
<1>2. LogTypes /\ Held /\ Traced /\ Numbers /\ Counted
  BY DEF LogInv
<1>3. used' \in [work : Nat, no : Nat, faults : Nat] /\ used'.faults = used.faults + 1
  BY <1>1, LogFacts, CountsFault
<1>4. facts' \in Seq(Int) /\ DOMAIN facts' = DOMAIN facts
      /\ \A n \in DOMAIN facts : facts'[n] \in {facts[n], -1}
  <2>1. DOMAIN facts = 1..Len(facts) /\ Len(facts) \in Nat /\ \A n \in DOMAIN facts : facts[n] \in Int
    BY <1>2 DEF LogTypes
  <2>2. facts' \in [1..Len(facts) -> Int]
    BY <1>1, <2>1
  <2> QED
    BY <1>1, <2>1, <2>2
<1>5. runTable' \in Seq({"running", "interrupted", "completed"}) /\ Len(runTable') \in Nat
  <2>1. DOMAIN runTable = 1..Len(runTable) /\ Len(runTable) \in Nat
        /\ \A k \in DOMAIN runTable : runTable[k] \in {"running", "interrupted", "completed"}
    BY <1>2 DEF LogTypes
  <2>2. runTable' \in [1..Len(runTable) -> {"running", "interrupted", "completed"}]
    BY <1>1, <2>1
  <2>3. runTable' \in Seq({"running", "interrupted", "completed"})
    BY <2>1, <2>2
  <2> QED
    BY <2>3
<1>6. opened' \in BOOLEAN
  BY <1>1, Zenon
<1>7. flying' \in SUBSET LogRow /\ IsFiniteSet(flying') /\ runOn' \in 0..Len(runTable')
  BY <1>1, <1>5, FS_EmptySet
<1>8. LogTypes'
  BY <1>1, <1>2, <1>3, <1>4, <1>5, <1>6, <1>7 DEF LogTypes
<1>9. Held' /\ Traced' /\ Numbers'
  <2>1. Held' /\ Numbers'
    BY <1>1, <1>2 DEF Held, Numbers
  <2>2. Traced'
    BY <1>1, <1>2, <1>4 DEF Traced
  <2> QED
    BY <2>1, <2>2
<1>10. used'.faults # 0
  BY <1>3, LogFacts
<1>11. Counted'
  BY <1>1, <1>2, <1>10 DEF Counted
<1> QED
  BY <1>8, <1>9, <1>11 DEF LogInv

LEMMA NewFactStep == ASSUME LogInv, NewFact PROVE LogInv'
<1>1. /\ used' = [used EXCEPT !.work = @ + 1] /\ facts' = Append(facts, 0)
      /\ UNCHANGED <<ledger, hot, cold, flying, views, batch, runTable, runOn, opened, toolTable>>
  BY DEF NewFact
<1>2. LogTypes /\ Held /\ Traced /\ Numbers /\ Counted
  BY DEF LogInv
<1>3. used' \in [work : Nat, no : Nat, faults : Nat] /\ used'.no = used.no
      /\ used'.faults = used.faults
  BY <1>1, LogFacts
<1>4. facts' \in Seq(Int) /\ DOMAIN facts' = DOMAIN facts \cup {Len(facts) + 1}
      /\ (\A n \in DOMAIN facts : facts'[n] = facts[n]) /\ facts'[Len(facts) + 1] = 0
  <2>1. facts \in Seq(Int) /\ DOMAIN facts = 1..Len(facts) /\ Len(facts) \in Nat
    BY <1>2, LogFacts DEF LogTypes
  <2>2. facts' \in Seq(Int) /\ Len(facts') = Len(facts) + 1 /\ facts'[Len(facts) + 1] = 0
        /\ \A n \in DOMAIN facts : facts'[n] = facts[n]
    BY <1>1, <2>1
  <2>3. DOMAIN facts' = 1..Len(facts')
    BY <2>2
  <2> QED
    BY <2>1, <2>2, <2>3
<1>5. LogTypes'
  BY <1>1, <1>2, <1>3, <1>4 DEF LogTypes
<1>6. Held' /\ Traced' /\ Numbers'
  <2>1. Held' /\ Numbers'
    BY <1>1, <1>2, <1>3 DEF Held, Numbers
  <2>2. Traced'
    BY <1>1, <1>2, <1>4 DEF Traced
  <2> QED
    BY <2>1, <2>2
<1>7. (\A k : Told(k)' = Told(k)) /\ RunsTold' = RunsTold
  BY <1>1 DEF Told, Landed, Flies, Kind, RunsTold
<1>8. Counted'
  BY <1>1, <1>2, <1>3, <1>7 DEF Counted
<1> QED
  BY <1>5, <1>6, <1>8 DEF LogInv

LEMMA FactToLedgerStep ==
  ASSUME LogInv, NEW m \in DOMAIN facts, FactToLedger(m) PROVE LogInv'
<1> DEFINE n == Len(ledger')
<1>1. /\ facts[m] = 0 /\ ledger' = Append(ledger, Fact_(m)) /\ hot' = hot \cup {n}
      /\ facts' = [facts EXCEPT ![m] = n]
      /\ UNCHANGED <<cold, flying, views, batch, runTable, runOn, opened, toolTable, used>>
  BY DEF FactToLedger
<1>2. LogTypes /\ Held /\ Traced /\ Numbers /\ Counted
  BY DEF LogInv
<1>3. Fact_(m) \in LogRow /\ Fact_(m).fact = m /\ m # 0 /\ Fact_(m).type = "fact"
  BY LogFacts DEF Fact_, LogRow
<1>4. /\ ledger' \in Seq(LogRow) /\ n = Len(ledger) + 1
      /\ DOMAIN ledger' = DOMAIN ledger \cup {n} /\ n \notin DOMAIN ledger
      /\ \A i \in DOMAIN ledger : ledger'[i] = ledger[i]
      /\ ledger'[n] = Fact_(m)
      /\ \A k : Landed(k)' = Landed(k)
  <2>1. /\ ledger' \in Seq(LogRow) /\ n = Len(ledger) + 1
        /\ DOMAIN ledger' = DOMAIN ledger \cup {n} /\ n \notin DOMAIN ledger
        /\ \A i \in DOMAIN ledger : ledger'[i] = ledger[i]
        /\ ledger'[n] = Fact_(m)
        /\ \A k : Landed(k)' = IF Fact_(m).fact = 0 /\ Kind(Fact_(m)) = k THEN Landed(k) \cup {n}
                               ELSE Landed(k)
    BY <1>1, <1>3, RowLands
  <2> QED
    BY <1>3, <2>1
<1> HIDE DEF n
<1>5. facts' \in Seq(Int) /\ DOMAIN facts' = DOMAIN facts /\ facts'[m] = n
      /\ \A k \in DOMAIN facts : k # m => facts'[k] = facts[k]
  <2>1. facts \in [1..Len(facts) -> Int] /\ DOMAIN facts = 1..Len(facts) /\ Len(facts) \in Nat
    BY <1>2, LogFacts DEF LogTypes
  <2>2. n \in Int
    BY <1>4, LogFacts
  <2>3. facts' = [facts EXCEPT ![m] = n]
    BY <1>1
  <2>4. facts' \in [1..Len(facts) -> Int]
    BY <2>1, <2>2, <2>3
  <2> QED
    BY <2>1, <2>3, <2>4
<1>6. LogTypes'
  BY <1>1, <1>2, <1>4, <1>5 DEF LogTypes
<1>7. Held' /\ Traced' /\ Numbers'
  <2>1. Held' /\ Numbers'
    BY <1>1, <1>2, <1>4 DEF Held, Numbers
  <2>2. \A k \in DOMAIN facts' :
          facts'[k] \notin {-1, 0} => facts'[k] \in DOMAIN ledger' /\ ledger'[facts'[k]].fact = k
    <3>1. \A k \in DOMAIN facts :
          facts[k] \notin {-1, 0} => facts[k] \in DOMAIN ledger /\ ledger[facts[k]].fact = k
      BY <1>2 DEF Traced
    <3>2. n \in DOMAIN ledger' /\ ledger'[n].fact = m
      BY <1>3, <1>4
    <3> QED
      BY <1>4, <1>5, <3>1, <3>2
  <2>3. \A v \in views' : v.event \in DOMAIN ledger' /\ ledger'[v.event].fact = v.fact
    BY <1>1, <1>2, <1>4 DEF Traced
  <2> QED
    BY <2>1, <2>2, <2>3 DEF Traced
<1>8. \A k : Told(k)' = Told(k)
  <2>1. \A k : Flies(k)' = Flies(k)
    BY <1>1 DEF Flies, Kind
  <2> QED
    BY <1>4, <2>1 DEF Told
<1>9. RunsTold' = RunsTold
  BY <1>1, <1>3, <1>4 DEF RunsTold
<1>10. Counted'
  <2>1. \A i \in DOMAIN ledger' : ledger'[i].type = "tool_done"
                                  => ledger'[i].status \in {"done", "fail"}
    BY <1>2, <1>3, <1>4 DEF Counted
  <2> QED
    BY <1>1, <1>2, <1>8, <1>9, <2>1 DEF Counted
<1> QED
  BY <1>6, <1>7, <1>10 DEF LogInv

LEMMA FactToViewStep ==
  ASSUME LogInv, NEW m \in DOMAIN facts, FactToView(m) PROVE LogInv'
<1>1. /\ facts[m] > 0 /\ views' = views \cup {[fact |-> m, event |-> facts[m]]}
      /\ UNCHANGED <<ledger, hot, cold, flying, facts, batch, runTable, runOn, opened, toolTable,
                     used>>
  BY DEF FactToView, Viewable
<1>2. LogTypes /\ Held /\ Traced /\ Numbers /\ Counted
  BY DEF LogInv
<1>3. facts[m] \in Nat /\ m \in Nat /\ facts[m] \in DOMAIN ledger /\ ledger[facts[m]].fact = m
  <2>1. facts[m] \in Int /\ m \in Nat /\ facts[m] > 0
    BY <1>1, <1>2, LogFacts DEF LogTypes
  <2> QED
    BY <1>2, <2>1 DEF Traced
<1>4. LogTypes'
  BY <1>1, <1>2, <1>3 DEF LogTypes
<1>5. Held' /\ Traced' /\ Numbers'
  BY <1>1, <1>2, <1>3 DEF Held, Traced, Numbers
<1>6. (\A k : Told(k)' = Told(k)) /\ RunsTold' = RunsTold
  BY <1>1 DEF Told, Landed, Flies, Kind, RunsTold
<1>7. Counted'
  BY <1>1, <1>2, <1>6 DEF Counted
<1> QED
  BY <1>4, <1>5, <1>7 DEF LogInv

LEMMA ArchiveStep == ASSUME LogInv, ArchiveCopy \/ ArchiveDelete PROVE LogInv'
<1>1. UNCHANGED <<ledger, flying, facts, views, runTable, runOn, opened, toolTable>>
  BY DEF ArchiveCopy, ArchiveDelete
<1>2. LogTypes /\ Held /\ Traced /\ Numbers /\ Counted
  BY DEF LogInv
<1>7. used' \in [work : Nat, no : Nat, faults : Nat] /\ used'.no = used.no
      /\ used'.faults = used.faults
  <2>1. used' = [used EXCEPT !.work = @ + 1] \/ used' = used
    BY DEF ArchiveCopy, ArchiveDelete
  <2> QED
    BY <2>1, LogFacts
<1>3. LogTypes' /\ Traced' /\ Numbers'
  BY <1>1, <1>2, <1>7 DEF LogTypes, Traced, Numbers
<1>4. Held'
  <2>1. CASE ArchiveCopy
    <3>1. batch' \subseteq hot
      <4>1. PICK c : c = (CHOOSE n \in hot : \A i \in hot : n <= i)
        OBVIOUS
      <4>2. batch' = hot \/ batch' = {c}
        BY <2>1, <4>1 DEF ArchiveCopy
      <4>3. CASE batch' = {c}
        <5>1. hot \subseteq Nat /\ hot # {}
          BY <1>2, <2>1, LogFacts DEF Held, ArchiveCopy
        <5>2. \E n \in hot : \A i \in hot : n <= i
          BY <5>1, LeastOf
        <5> QED
          BY <4>1, <4>3, <5>2
      <4> QED
        BY <4>2, <4>3
    <3> QED
      BY <1>1, <1>2, <2>1, <3>1 DEF Held, ArchiveCopy
  <2>2. CASE ArchiveDelete
    BY <1>1, <1>2, <2>2 DEF Held, ArchiveDelete, Deleted
  <2> QED
    BY <2>1, <2>2
<1>5. (\A k : Told(k)' = Told(k)) /\ RunsTold' = RunsTold
  BY <1>1 DEF Told, Landed, Flies, Kind, RunsTold
<1>6. Counted'
  BY <1>1, <1>2, <1>5, <1>7 DEF Counted
<1> QED
  BY <1>3, <1>4, <1>6 DEF LogInv

LEMMA LogKeepsOn == LogSpec => []LogInv
<1>1. LogInv /\ [LogNext]_logVars => LogInv'
  <2> SUFFICES ASSUME LogInv, [LogNext]_logVars PROVE LogInv'
    OBVIOUS
  <2>1. CASE LogNext
    BY <2>1, StartRunStep, StartToolStep, EndToolStep, EndRunStep, LandStep, LandingFailsStep,
       NewFactStep, FactToLedgerStep, FactToViewStep, ArchiveStep, LogCrashStep DEF LogNext
  <2>2. CASE UNCHANGED logVars
    <3>1. UNCHANGED <<ledger, hot, cold, flying, facts, views, batch, runTable, runOn, opened,
                      toolTable, used>>
      BY <2>2 DEF logVars
    <3>2. LogTypes' /\ Held' /\ Traced' /\ Numbers'
      BY <3>1 DEF LogInv, LogTypes, Held, Traced, Numbers
    <3>3. (\A k : Told(k)' = Told(k)) /\ RunsTold' = RunsTold
      BY <3>1 DEF Told, Landed, Flies, Kind, RunsTold
    <3>4. Counted'
      BY <3>1, <3>3 DEF LogInv, Counted
    <3> QED
      BY <3>2, <3>4 DEF LogInv
  <2> QED
    BY <2>1, <2>2
<1> QED
  BY <1>1, LogStarts, PTL DEF LogSpec

-----------------------------------------------------------------------------
(* What the projection shows, row by row. *)

\* What holds at 0 and passes from each number to the next holds up to n.
LEMMA StepByStep ==
  ASSUME NEW n \in Nat, NEW S, 0 \in S, \A k \in 0..n : k < n /\ k \in S => k + 1 \in S
  PROVE  \A k \in 0..n : k \in S
<1> DEFINE D == {k \in 0..n : k \notin S}
<1> SUFFICES ASSUME D # {} PROVE FALSE
  OBVIOUS
<1>1. PICK k \in D : \A y \in D : k <= y
  <2>1. D \in SUBSET Nat
    OBVIOUS
  <2> HIDE DEF D
  <2> QED
    BY <2>1, LeastOf
<1>2. k \in 0..n /\ k # 0 /\ k - 1 \in 0..n /\ k - 1 < n /\ (k - 1) + 1 = k /\ ~(k <= k - 1)
  BY <1>1
<1>3. k - 1 \in S
  BY <1>1, <1>2
<1> QED
  BY <1>1, <1>2, <1>3

Shown == [cur : Nat, keys : SUBSET Nat, started : Nat, done : Nat, fail : Nat, seen : SUBSET Nat]

LEMMA BlankShown == Blank \in Shown
BY DEF Blank, Shown, NoRun

\* One row: it is shown once, under its kind, and nothing that was shown goes.
LEMMA RowShown ==
  ASSUME NEW p \in Shown, NEW id \in Nat, ledger[id] \in LogRow,
         ledger[id].type = "tool_done" => ledger[id].status \in {"done", "fail"}
  PROVE  /\ Apply(p, id) \in Shown
         /\ ~Folded(p, id) => Apply(p, id) = p
         /\ Folded(p, id) =>
              /\ Apply(p, id).seen = p.seen \cup {id}
              /\ Apply(p, id).started = p.started + (IF Kind(ledger[id]) = "start" THEN 1 ELSE 0)
              /\ Apply(p, id).done = p.done + (IF Kind(ledger[id]) = "done" THEN 1 ELSE 0)
              /\ Apply(p, id).fail = p.fail + (IF Kind(ledger[id]) = "fail" THEN 1 ELSE 0)
              /\ Apply(p, id).cur \in {p.cur} \cup Apply(p, id).keys
              /\ p.keys \subseteq Apply(p, id).keys
              /\ Apply(p, id).keys \ {p.cur}
                   = (p.keys \cup (IF ledger[id].type = "run_start" THEN {ledger[id].run} ELSE {}))
                     \ {p.cur}
<1> DEFINE ev == ledger[id]
           a == Apply(p, id)
           q == [p EXCEPT !.seen = @ \cup {id}]
           r == [q EXCEPT !.keys = @ \cup {p.cur}]
<1>1. q \in Shown /\ q.cur = p.cur /\ q.keys = p.keys /\ q.started = p.started
      /\ q.done = p.done /\ q.fail = p.fail /\ q.seen = p.seen \cup {id}
  BY DEF Shown
<1>2. CASE ~Folded(p, id)
  BY <1>2 DEF Apply
<1>3. CASE Folded(p, id) /\ ev.type = "run_start"
  <2>1. a = [q EXCEPT !.cur = ev.run, !.keys = @ \cup {ev.run}]
    BY <1>3 DEF Apply
  <2> DEFINE s == [q EXCEPT !.cur = ev.run]
  <2>2. ev.run \in Nat
    BY DEF LogRow
  <2> HIDE DEF q, r
  <2>3. s \in Shown /\ s.cur = ev.run /\ s.keys = p.keys /\ s.started = p.started
        /\ s.done = p.done /\ s.fail = p.fail /\ s.seen = p.seen \cup {id}
    BY <1>1, <2>2 DEF Shown
  <2>4. a = [s EXCEPT !.keys = s.keys \cup {ev.run}]
    BY <1>1, <2>1 DEF Shown
  <2> HIDE DEF s, a
  <2>5. a \in Shown /\ a.cur = ev.run /\ a.keys = p.keys \cup {ev.run} /\ a.started = p.started
        /\ a.done = p.done /\ a.fail = p.fail /\ a.seen = p.seen \cup {id}
    BY <2>2, <2>3, <2>4 DEF Shown
  <2>6. p.started \in Nat /\ p.done \in Nat /\ p.fail \in Nat
    BY DEF Shown
  <2>7. Kind(ev) = "other"
    BY <1>3 DEF Kind
  <2> QED
    BY <1>3, <2>5, <2>6, <2>7 DEF a
<1>4. r \in Shown /\ r.cur = p.cur /\ r.keys = p.keys \cup {p.cur} /\ r.started = p.started
      /\ r.done = p.done /\ r.fail = p.fail /\ r.seen = p.seen \cup {id}
  <2>1. p.cur \in Nat
    BY DEF Shown
  <2> HIDE DEF q
  <2> QED
    BY <1>1, <2>1 DEF Shown
<1>5. CASE Folded(p, id) /\ ev.type = "tool_start"
  <2>1. a = [r EXCEPT !.started = @ + 1]
    BY <1>5 DEF Apply
  <2> HIDE DEF q, r, a
  <2>2. a \in Shown /\ a.cur = p.cur /\ a.keys = p.keys \cup {p.cur} /\ a.started = p.started + 1
        /\ a.done = p.done /\ a.fail = p.fail /\ a.seen = p.seen \cup {id}
    BY <1>4, <2>1 DEF Shown
  <2>3. p.started \in Nat /\ p.done \in Nat /\ p.fail \in Nat
    BY DEF Shown
  <2>4. Kind(ev) = "start"
    BY <1>5 DEF Kind
  <2> QED
    BY <1>5, <2>2, <2>3, <2>4 DEF a
<1>6. CASE Folded(p, id) /\ ev.type = "tool_done"
  <2>1. a = IF ev.status = "fail" THEN [r EXCEPT !.fail = @ + 1] ELSE [r EXCEPT !.done = @ + 1]
    BY <1>6 DEF Apply
  <2> HIDE DEF q, r, a
  <2>2. a \in Shown /\ a.cur = p.cur /\ a.keys = p.keys \cup {p.cur} /\ a.started = p.started
        /\ a.seen = p.seen \cup {id}
        /\ a.done = p.done + (IF ev.status = "done" THEN 1 ELSE 0)
        /\ a.fail = p.fail + (IF ev.status = "fail" THEN 1 ELSE 0)
    <3>0. p.done \in Nat /\ p.fail \in Nat /\ ev.status \in {"done", "fail"}
      BY <1>6 DEF Shown
    <3>1. CASE ev.status = "fail"
      BY <1>4, <2>1, <3>0, <3>1 DEF Shown
    <3>2. CASE ev.status = "done"
      BY <1>4, <2>1, <3>0, <3>2 DEF Shown
    <3> QED
      BY <3>0, <3>1, <3>2
  <2>3. p.started \in Nat /\ p.done \in Nat /\ p.fail \in Nat
    BY DEF Shown
  <2>4. Kind(ev) = ev.status
    BY <1>6 DEF Kind
  <2> QED
    BY <1>6, <2>2, <2>3, <2>4 DEF a
<1>7. CASE Folded(p, id) /\ ev.type \notin {"run_start", "tool_start", "tool_done"}
  <2>1. a = q
    BY <1>7 DEF Apply
  <2>2. p.started \in Nat /\ p.done \in Nat /\ p.fail \in Nat
    BY DEF Shown
  <2>3. Kind(ev) = "other"
    BY <1>7 DEF Kind
  <2> HIDE DEF q, r, a
  <2> QED
    BY <1>1, <1>7, <2>1, <2>2, <2>3 DEF a
<1> QED
  BY <1>2, <1>3, <1>5, <1>6, <1>7

\* The states of the projection over the first n of ids.
Folding(w, n, ids) == w = [k \in 0..n |-> IF k = 0 THEN Blank ELSE Apply(w[k - 1], ids[k])]

LEMMA FoldExists == ASSUME NEW n \in Nat, NEW ids PROVE \E w : Folding(w, n, ids)
<1> DEFINE S == {k \in 0..n : \E w : Folding(w, k, ids)}
<1>1. 0 \in S
  <2> DEFINE w == [j \in 0..0 |-> Blank]
  <2>1. w = [j \in 0..0 |-> IF j = 0 THEN Blank ELSE Apply(w[j - 1], ids[j])]
    OBVIOUS
  <2>2. Folding(w, 0, ids)
    BY <2>1 DEF Folding
  <2> HIDE DEF w
  <2> QED
    BY <2>2
<1>2. ASSUME NEW k \in 0..n, k < n, k \in S PROVE k + 1 \in S
  <2>1. PICK v : Folding(v, k, ids)
    BY <1>2
  <2>2. \A j \in 0..k : v[j] = IF j = 0 THEN Blank ELSE Apply(v[j - 1], ids[j])
    BY <2>1 DEF Folding
  <2> DEFINE w == [j \in 0..(k + 1) |-> IF j <= k THEN v[j] ELSE Apply(v[k], ids[k + 1])]
  <2>3. (\A j \in 0..k : w[j] = v[j]) /\ w[k + 1] = Apply(v[k], ids[k + 1])
        /\ w = [j \in 0..(k + 1) |-> w[j]]
    OBVIOUS
  <2> HIDE DEF w
  <2>4. \A j \in 0..(k + 1) : w[j] = IF j = 0 THEN Blank ELSE Apply(w[j - 1], ids[j])
    <3> SUFFICES ASSUME NEW j \in 0..(k + 1)
                 PROVE  w[j] = IF j = 0 THEN Blank ELSE Apply(w[j - 1], ids[j])
      OBVIOUS
    <3>1. CASE j = k + 1
      <4>1. j # 0 /\ j - 1 = k /\ k \in 0..k
        BY <3>1
      <4> QED
        BY <2>3, <3>1, <4>1
    <3>2. CASE j # k + 1
      <4>1. j \in 0..k /\ (j # 0 => j - 1 \in 0..k)
        BY <3>2
      <4>2. CASE j = 0
        BY <2>2, <2>3, <4>1, <4>2
      <4>3. CASE j # 0
        BY <2>2, <2>3, <4>1, <4>3
      <4> QED
        BY <4>2, <4>3
    <3> QED
      BY <3>1, <3>2
  <2>5. Folding(w, k + 1, ids)
    BY <2>3, <2>4 DEF Folding
  <2> QED
    BY <1>2, <2>5
<1>3. \A k \in 0..n : k \in S
  <2> HIDE DEF S
  <2> QED
    BY <1>1, <1>2, StepByStep
<1> QED
  BY <1>3

\* The first k rows of the ledger, shown: each row that the table still holds,
\* once and under its kind.
Upto(k, kind) == {i \in 1..k : i \in hot /\ ledger[i].fact = 0 /\ Kind(ledger[i]) = kind}
RunsUpto(k) ==
  {ledger[i].run : i \in {j \in 1..k : j \in hot /\ ledger[j].fact = 0 /\ ledger[j].type = "run_start"}}
RowsShown(p, k) ==
  /\ p \in Shown /\ p.seen = {i \in 1..k : i \in hot /\ ledger[i].fact = 0}
  /\ p.started = Cardinality(Upto(k, "start")) /\ p.done = Cardinality(Upto(k, "done"))
  /\ p.fail = Cardinality(Upto(k, "fail"))
  /\ p.keys \ {NoRun} = RunsUpto(k) \ {NoRun} /\ p.cur \in {NoRun} \cup p.keys

LEMMA CountedUpto ==
  ASSUME NEW k \in Nat, NEW kind
  PROVE  /\ Cardinality(Upto(k, kind)) \in Nat
         /\ Cardinality(Upto(k + 1, kind)) = Cardinality(Upto(k, kind)) +
              (IF k + 1 \in hot /\ ledger[k + 1].fact = 0 /\ Kind(ledger[k + 1]) = kind THEN 1 ELSE 0)
<1>1. Upto(k, kind) \subseteq 1..k
  BY DEF Upto
<1>2. IsFiniteSet(1..k)
  BY FS_Interval
<1>3. IsFiniteSet(Upto(k, kind)) /\ Cardinality(Upto(k, kind)) \in Nat
  BY <1>1, <1>2, FS_Subset, FS_CardinalityType
<1>4. k + 1 \notin Upto(k, kind)
  BY <1>1
<1>5. CASE k + 1 \in hot /\ ledger[k + 1].fact = 0 /\ Kind(ledger[k + 1]) = kind
  <2>1. Upto(k + 1, kind) = Upto(k, kind) \cup {k + 1}
    BY <1>5 DEF Upto
  <2>2. Cardinality(Upto(k, kind) \cup {k + 1}) = Cardinality(Upto(k, kind)) + 1
    BY <1>3, <1>4, FS_AddElement
  <2> QED
    BY <1>3, <1>5, <2>1, <2>2
<1>6. CASE ~(k + 1 \in hot /\ ledger[k + 1].fact = 0 /\ Kind(ledger[k + 1]) = kind)
  <2>1. Upto(k + 1, kind) = Upto(k, kind)
    BY <1>6 DEF Upto
  <2> QED
    BY <1>3, <1>6, <2>1
<1> QED
  BY <1>5, <1>6

LEMMA NextRowShown ==
  ASSUME LogInv, NEW k \in Nat, k < Len(ledger), NEW p, RowsShown(p, k)
  PROVE  RowsShown(Apply(p, k + 1), k + 1)
<1> DEFINE id == k + 1
           a == Apply(p, id)
<1>1. id \in DOMAIN ledger /\ id \in Nat /\ ledger[id] \in LogRow
  BY LogFacts
<1>2. ledger[id].type = "tool_done" => ledger[id].status \in {"done", "fail"}
  BY <1>1 DEF LogInv, Counted
<1>3. p \in Shown /\ p.seen = {i \in 1..k : i \in hot /\ ledger[i].fact = 0}
  BY DEF RowsShown
<1>4. Folded(p, id) <=> id \in hot /\ ledger[id].fact = 0
  BY <1>3 DEF Folded
<1>5. /\ a \in Shown
      /\ ~Folded(p, id) => a = p
      /\ Folded(p, id) =>
           /\ a.seen = p.seen \cup {id}
           /\ a.started = p.started + (IF Kind(ledger[id]) = "start" THEN 1 ELSE 0)
           /\ a.done = p.done + (IF Kind(ledger[id]) = "done" THEN 1 ELSE 0)
           /\ a.fail = p.fail + (IF Kind(ledger[id]) = "fail" THEN 1 ELSE 0)
           /\ a.cur \in {p.cur} \cup a.keys
           /\ p.keys \subseteq a.keys
           /\ a.keys \ {p.cur}
                = (p.keys \cup (IF ledger[id].type = "run_start" THEN {ledger[id].run} ELSE {}))
                  \ {p.cur}
  BY <1>1, <1>2, <1>3, RowShown
<1>6. \A kind : Cardinality(Upto(id, kind)) = Cardinality(Upto(k, kind)) +
              (IF id \in hot /\ ledger[id].fact = 0 /\ Kind(ledger[id]) = kind THEN 1 ELSE 0)
  BY CountedUpto
<1>7. \A kind : Cardinality(Upto(k, kind)) \in Nat
  BY CountedUpto
<1> HIDE DEF a
<1>8. a.seen = {i \in 1..id : i \in hot /\ ledger[i].fact = 0}
  <2>1. CASE Folded(p, id)
    BY <1>3, <1>4, <1>5, <2>1
  <2>2. CASE ~Folded(p, id)
    BY <1>3, <1>4, <1>5, <2>2
  <2> QED
    BY <2>1, <2>2
<1>9. p.started = Cardinality(Upto(k, "start")) /\ p.done = Cardinality(Upto(k, "done"))
      /\ p.fail = Cardinality(Upto(k, "fail"))
      /\ p.keys \ {NoRun} = RunsUpto(k) \ {NoRun} /\ p.cur \in {NoRun} \cup p.keys
  BY DEF RowsShown
<1>10. a.started = Cardinality(Upto(id, "start")) /\ a.done = Cardinality(Upto(id, "done"))
       /\ a.fail = Cardinality(Upto(id, "fail"))
  <2> HIDE DEF id
  <2>1. CASE Folded(p, id)
    BY <1>4, <1>5, <1>6, <1>9, <2>1
  <2>2. CASE ~Folded(p, id)
    BY <1>4, <1>5, <1>6, <1>7, <1>9, <2>2
  <2> QED
    BY <2>1, <2>2
<1>11. RunsUpto(id) = RunsUpto(k) \cup
         (IF id \in hot /\ ledger[id].fact = 0 /\ ledger[id].type = "run_start"
          THEN {ledger[id].run} ELSE {})
  <2>1. 1..id = 1..k \cup {id}
    OBVIOUS
  <2> HIDE DEF id
  <2> QED
    BY <2>1 DEF RunsUpto
<1> HIDE DEF id
<1>12. a.keys \ {NoRun} = RunsUpto(id) \ {NoRun} /\ a.cur \in {NoRun} \cup a.keys
  <2>1. CASE Folded(p, id)
    <3> DEFINE R == IF ledger[id].type = "run_start" THEN {ledger[id].run} ELSE {}
    <3>1. RunsUpto(id) = RunsUpto(k) \cup R
      BY <1>4, <1>11, <2>1
    <3>2. a.keys \ {p.cur} = (p.keys \cup R) \ {p.cur} /\ p.keys \subseteq a.keys
      BY <1>5, <2>1
    <3> HIDE DEF R
    <3>3. a.keys \ {NoRun} = (p.keys \cup R) \ {NoRun}
      BY <1>9, <3>2
    <3>4. a.cur \in {NoRun} \cup a.keys
      BY <1>5, <1>9, <2>1, <3>2
    <3> QED
      BY <1>9, <3>1, <3>3, <3>4
  <2>2. CASE ~Folded(p, id)
    BY <1>4, <1>5, <1>9, <1>11, <2>2
  <2> QED
    BY <2>1, <2>2
<1>13. RowsShown(a, id)
  BY <1>5, <1>8, <1>10, <1>12 DEF RowsShown
<1> QED
  BY <1>13 DEF a, id

LEMMA AllRowsShown ==
  ASSUME LogInv, NEW m \in Nat, Len(ledger) <= m, NEW ids, \A k \in 1..Len(ledger) : ids[k] = k,
         NEW w, Folding(w, m, ids)
  PROVE  \A k \in 0..Len(ledger) : RowsShown(w[k], k)
<1> DEFINE n == Len(ledger)
           S == {k \in 0..n : RowsShown(w[k], k)}
<1>1. n \in Nat
  BY LogFacts
<1>2. \A k \in 0..m : w[k] = IF k = 0 THEN Blank ELSE Apply(w[k - 1], ids[k])
  BY DEF Folding
<1>3. 0 \in S
  <2>1. w[0] = Blank
    BY <1>2
  <2>2. \A kind : Upto(0, kind) = {}
    BY DEF Upto
  <2>3. \A kind : Cardinality(Upto(0, kind)) = 0
    BY <2>2, FS_EmptySet
  <2>4. RunsUpto(0) = {}
    BY DEF RunsUpto
  <2>5. RowsShown(Blank, 0)
    BY <2>3, <2>4, BlankShown DEF RowsShown, Blank, NoRun
  <2> QED
    BY <1>1, <2>1, <2>5
<1>4. ASSUME NEW k \in 0..n, k < n, k \in S PROVE k + 1 \in S
  <2>1. w[k + 1] = Apply(w[k], k + 1)
    <3>1. k + 1 \in 0..m /\ k + 1 # 0 /\ (k + 1) - 1 = k /\ ids[k + 1] = k + 1
      BY <1>1, <1>4
    <3>2. w[k + 1] = Apply(w[(k + 1) - 1], ids[k + 1])
      BY <1>2, <3>1
    <3> QED
      BY <3>1, <3>2
  <2>2. RowsShown(Apply(w[k], k + 1), k + 1)
    BY <1>1, <1>4, NextRowShown
  <2> QED
    BY <1>1, <1>4, <2>1, <2>2
<1>5. \A k \in 0..n : k \in S
  <2> HIDE DEF S, n
  <2> QED
    BY <1>1, <1>3, <1>4, StepByStep
<1> QED
  BY <1>5

LEMMA ReadIsShown == ASSUME LogInv PROVE RowsShown(Project(Read), Len(ledger))
<1> DEFINE n == Len(ledger)
           w == CHOOSE v : Folding(v, n, Read)
<1>1. n \in Nat /\ DOMAIN ledger = 1..n
  BY LogFacts
<1>2. Read \in Seq(Nat) /\ Len(Read) = n /\ \A k \in 1..n : Read[k] = k
  BY <1>1 DEF Read
<1>3. Folding(w, n, Read)
  BY <1>1, FoldExists
<1>4. Project(Read) = w[n]
  BY <1>2 DEF Project, Folding
<1> HIDE DEF w
<1>5. RowsShown(w[n], n)
  BY <1>1, <1>2, <1>3, AllRowsShown
<1> QED
  BY <1>4, <1>5

\* A replay of the ledger shows no row again.
LEMMA ReplayShowsTheSame == ASSUME LogInv PROVE ReplayIsIdempotent
<1> DEFINE n == Len(ledger)
           doubled == Read \o Read
           w == CHOOSE v : Folding(v, n, Read)
           u == CHOOSE v : Folding(v, n + n, doubled)
<1>1. n \in Nat /\ n + n \in Nat /\ DOMAIN ledger = 1..n
  BY LogFacts
<1>2. Read \in Seq(Nat) /\ Len(Read) = n /\ \A k \in 1..n : Read[k] = k
  BY <1>1 DEF Read
<1>3. Len(doubled) = n + n /\ (\A k \in 1..n : doubled[k] = k) /\ \A k \in 1..n : doubled[n + k] = k
  <2>1. \A k \in 1..n : k \in 1..(n + n) /\ n + k \in 1..(n + n) /\ ~(n + k <= n) /\ (n + k) - n = k
    BY <1>1
  <2>2. Len(doubled) = n + n /\ \A k \in 1..(n + n) : doubled[k] = IF k <= n THEN Read[k] ELSE Read[k - n]
    BY <1>2
  <2> HIDE DEF doubled
  <2>3. \A k \in 1..n : k <= n /\ doubled[k] = k
    BY <1>2, <2>1, <2>2
  <2>4. \A k \in 1..n : doubled[n + k] = Read[k]
    BY <2>1, <2>2
  <2> QED
    BY <1>2, <2>2, <2>3, <2>4
<1>4. Folding(w, n, Read) /\ Folding(u, n + n, doubled)
  BY <1>1, FoldExists
<1>5. Project(Read) = w[n] /\ Project(doubled) = u[n + n]
  BY <1>2, <1>3 DEF Project, Folding
<1> HIDE DEF w, u, doubled
<1>6. \A k \in 0..n : w[k] = IF k = 0 THEN Blank ELSE Apply(w[k - 1], Read[k])
  BY <1>4 DEF Folding
<1>7. \A k \in 0..(n + n) : u[k] = IF k = 0 THEN Blank ELSE Apply(u[k - 1], doubled[k])
  BY <1>4 DEF Folding
<1>8. u[n] = w[n]
  <2> DEFINE S == {k \in 0..n : u[k] = w[k]}
  <2>1. 0 \in S
    BY <1>1, <1>6, <1>7
  <2>2. ASSUME NEW k \in 0..n, k < n, k \in S PROVE k + 1 \in S
    <3>1. k + 1 \in 1..n /\ k + 1 \in 0..n /\ k + 1 \in 0..(n + n) /\ (k + 1) - 1 = k /\ k + 1 # 0
      BY <1>1, <2>2
    <3>2. w[k + 1] = Apply(w[(k + 1) - 1], Read[k + 1])
          /\ u[k + 1] = Apply(u[(k + 1) - 1], doubled[k + 1])
      BY <1>6, <1>7, <3>1
    <3> QED
      BY <1>2, <1>3, <2>2, <3>1, <3>2
  <2>3. \A k \in 0..n : k \in S
    <3> HIDE DEF S, n
    <3> QED
      BY <1>1, <2>1, <2>2, StepByStep
  <2> QED
    BY <1>1, <2>3
<1>9. RowsShown(w[n], n)
  BY <1>1, <1>2, <1>4, AllRowsShown
<1>10. \A id \in 1..n : Apply(w[n], id) = w[n]
  <2>1. w[n] \in Shown /\ w[n].seen = {i \in 1..n : i \in hot /\ ledger[i].fact = 0}
    BY <1>9 DEF RowsShown
  <2>2. \A id \in 1..n : ~Folded(w[n], id)
    BY <2>1 DEF Folded
  <2> QED
    BY <2>2 DEF Apply
<1>11. u[n + n] = w[n]
  <2> DEFINE S == {k \in 0..n : u[n + k] = w[n]}
  <2>1. 0 \in S
    BY <1>1, <1>8
  <2>2. ASSUME NEW k \in 0..n, k < n, k \in S PROVE k + 1 \in S
    <3>1. k + 1 \in 1..n /\ n + (k + 1) \in 0..(n + n) /\ (n + (k + 1)) - 1 = n + k
          /\ n + (k + 1) # 0 /\ k + 1 \in 0..n
      BY <1>1, <2>2
    <3>2. u[n + (k + 1)] = Apply(u[(n + (k + 1)) - 1], doubled[n + (k + 1)])
      BY <1>7, <3>1
    <3>3. doubled[n + (k + 1)] = k + 1 /\ u[n + k] = w[n]
      BY <1>3, <2>2, <3>1
    <3>4. u[n + (k + 1)] = w[n]
      BY <1>10, <3>1, <3>2, <3>3
    <3> QED
      BY <3>1, <3>4
  <2>3. \A k \in 0..n : k \in S
    <3> HIDE DEF S, n
    <3> QED
      BY <1>1, <2>1, <2>2, StepByStep
  <2>4. n \in 0..n
    BY <1>1
  <2>5. n \in S
    BY <2>3, <2>4, Zenon
  <2> HIDE DEF n, w, u
  <2> QED
    BY <2>5, Zenon
<1> QED
  BY <1>5, <1>11 DEF ReplayIsIdempotent, doubled

\* When every frame is in the table, the counts are those of the tables.
LEMMA LandedLedgerShowsAll == ASSUME LogInv PROVE LandedLedgerAgrees
<1> SUFFICES ASSUME runOn = 0, flying = {}, cold = {}, used.faults = 0
             PROVE  RunsAgree /\ ToolsAgree
  BY DEF LandedLedgerAgrees
<1> DEFINE n == Len(ledger)
<1>1. n \in Nat /\ DOMAIN ledger = 1..n /\ hot = 1..n
  BY LogFacts DEF LogInv, Held
<1>2. PICK p : p = Project(Read)
  OBVIOUS
<1>3. RowsShown(p, n)
  BY <1>2, ReadIsShown
<1>4. \A kind : Upto(n, kind) = Landed(kind) /\ Flies(kind) = {}
  BY <1>1 DEF Upto, Landed, Flies
<1>5. \A kind : Told(kind) = Cardinality(Upto(n, kind))
  <2>1. \A kind : Cardinality(Landed(kind)) \in Nat
    BY LogFacts
  <2>2. Cardinality({}) = 0
    BY FS_EmptySet
  <2> SUFFICES ASSUME NEW kind PROVE Told(kind) = Cardinality(Upto(n, kind))
    OBVIOUS
  <2>3. Flies(kind) = {} /\ Landed(kind) = Upto(n, kind)
    BY <1>4
  <2>4. Cardinality(Flies(kind)) = 0 /\ Cardinality(Landed(kind)) = Cardinality(Upto(n, kind))
    BY <2>2, <2>3
  <2> QED
    BY <2>1, <2>4 DEF Told
<1>6. opened = FALSE
  BY Zenon DEF LogInv, LogTypes, Counted
<1>7. /\ Told("done") = toolTable.done /\ Told("fail") = toolTable.fail
      /\ Told("start") = toolTable.done + toolTable.fail
      /\ RunsTold = 1..Len(runTable)
  BY <1>6, LogFacts DEF LogInv, Counted
<1>8. ToolsAgree
  BY <1>2, <1>3, <1>5, <1>7 DEF ToolsAgree, RowsShown
<1>9. RunsTold = RunsUpto(n)
  BY <1>1 DEF RunsTold, RunsUpto
<1>10. RunsAgree
  <2>1. p.keys \ {NoRun} = (1..Len(runTable)) \ {NoRun} /\ DOMAIN runTable = 1..Len(runTable)
    BY <1>3, <1>7, <1>9, LogFacts DEF RowsShown
  <2>2. (1..Len(runTable)) \ {NoRun} = 1..Len(runTable)
    BY LogFacts DEF NoRun
  <2> QED
    BY <1>2, <2>1, <2>2 DEF RunsAgree
<1> QED
  BY <1>8, <1>10

\* The ledger of events, for any amount of work: a row stays in the ledger or
\* its archive, a view names the row of its fact, and a replay shows what the
\* tables hold, once (eventlog.js, mysql.js archiveBatch, projection.js).
THEOREM LogIsKept == LogSpec => []LogSafe
<1>1. LogInv => LogSafe
  <2> SUFFICES ASSUME LogInv PROVE LogSafe
    OBVIOUS
  <2>1. LogTypes /\ Held /\ Traced
    BY DEF LogInv
  <2>2. \A k \in DOMAIN facts : facts[k] \in -1..Len(ledger)
    BY SMTT(30), <2>1, LogFacts DEF LogTypes, Traced
  <2>3. LogTypeOK
    BY <2>1, <2>2 DEF LogTypeOK, LogTypes, Held
  <2>4. ViewsAreTraceable /\ ArchiveLosesNothing
    BY <2>1 DEF ViewsAreTraceable, ArchiveLosesNothing, Held, Traced
  <2> QED
    BY <2>3, <2>4, ReplayShowsTheSame, LandedLedgerShowsAll DEF LogSafe
<1> QED
  BY <1>1, LogKeepsOn, PTL

-----------------------------------------------------------------------------
(***************************************************************************)
(* The record of reads (ReadCache): what the lists of intervals are worth, *)
(* and the theorem that what is recorded stands in the context.            *)
(***************************************************************************)

\* A sorted list of intervals that neither touch nor overlap.
Canonical(list) ==
  list \in Seq(Interval) /\ \A k \in 1..(Len(list) - 1) : list[k][2] < list[k + 1][1]
Inside(x) == x[1]..(x[2] - 1)
PointsOf(spans) == UNION {Inside(x) : x \in spans}

\* What an interval of the file is made of.
LEMMA IntervalFacts ==
  /\ Size \in Nat
  /\ \A x \in Interval : x[1] \in 0..Size /\ x[2] \in 0..Size /\ x[1] < x[2] /\ x = <<x[1], x[2]>>
  /\ \A a, b \in 0..Size : a < b => <<a, b>> \in Interval
  /\ IsFiniteSet(Interval)
<1>1. Size \in Nat
  BY ReadAssumption
<1>2. \A x \in Interval : x[1] \in 0..Size /\ x[2] \in 0..Size /\ x[1] < x[2] /\ x = <<x[1], x[2]>>
  BY DEF Interval
<1>3. \A a, b \in 0..Size : a < b => <<a, b>> \in Interval
  BY DEF Interval
<1>4. IsFiniteSet(0..Size)
  BY <1>1, FS_Interval
<1>5. IsFiniteSet((0..Size) \X (0..Size))
  BY <1>4, FS_Product
<1>6. IsFiniteSet(Interval)
  BY <1>5, FS_Subset DEF Interval
<1> QED
  BY <1>1, <1>2, <1>3, <1>6

\* A point of a list is a point of one of its intervals.
LEMMA PointsIn ==
  ASSUME NEW list, NEW p
  PROVE  p \in Points(list) <=> \E k \in DOMAIN list : p \in Inside(list[k])
  BY DEF Points, Inside

\* Joining an interval that starts no earlier than the last one adds its points.
LEMMA JoinedIs ==
  ASSUME NEW out, Canonical(out), NEW x \in Interval, out # <<>> => Last(out)[1] <= x[1]
  PROVE  /\ Canonical(Joined(out, x))
         /\ Points(Joined(out, x)) = Points(out) \cup Inside(x)
         /\ Joined(out, x) # <<>> /\ Last(Joined(out, x))[1] <= x[1]
<1> DEFINE n == Len(out)
<1>0. n \in Nat /\ out \in Seq(Interval) /\ DOMAIN out = 1..n /\ \A k \in 1..n : out[k] \in Interval
  BY DEF Canonical
<1>n. n \in Nat
  BY <1>0
<1>o. \A k \in 1..(n - 1) : out[k][2] < out[k + 1][1]
  BY DEF Canonical
<1>1. /\ x[1] \in 0..Size /\ x[2] \in 0..Size /\ x[1] < x[2]
      /\ Size \in Nat
  BY IntervalFacts
<1>2. CASE out # <<>> /\ x[1] <= Last(out)[2]
  <2>1. n > 0 /\ Last(out) = out[n] /\ n \in 1..n
    BY <1>0, <1>2 DEF Last
  <2>2. /\ out[n][1] \in 0..Size /\ out[n][2] \in 0..Size /\ out[n][1] < out[n][2]
        /\ out[n][1] <= x[1] /\ x[1] <= out[n][2]
    BY <1>0, <1>2, <2>1, IntervalFacts
  <2> DEFINE y == <<out[n][1], Later(out[n][2], x[2])>>
             new == [out EXCEPT ![n] = y]
  <2>3. Joined(out, x) = new
    BY <1>2, <2>1 DEF Joined
  <2>4. /\ y[1] = out[n][1] /\ y[2] = Later(out[n][2], x[2])
        /\ Later(out[n][2], x[2]) \in 0..Size /\ out[n][1] < Later(out[n][2], x[2])
    BY <1>1, <2>2 DEF Later
  <2>5. y \in Interval
    BY <2>2, <2>4, IntervalFacts
  <2>6. Inside(y) = Inside(out[n]) \cup Inside(x)
    BY SMTT(30), <1>1, <2>2, <2>4 DEF Inside, Later
  <2> HIDE DEF y
  <2>7. /\ new \in Seq(Interval) /\ Len(new) = n /\ DOMAIN new = 1..n /\ new[n] = y
        /\ \A k \in 1..n : k # n => new[k] = out[k]
    <3>1. new \in [1..n -> Interval]
      BY <1>0, <2>5
    <3> QED
      BY <1>0, <2>1, <3>1
  <2> HIDE DEF new
  <2>8. Canonical(new)
    <3> SUFFICES ASSUME NEW k \in 1..(n - 1) PROVE new[k][2] < new[k + 1][1]
      BY <2>7 DEF Canonical
    <3>0. k \in 1..n /\ k # n /\ k + 1 \in 1..n
      <4> HIDE DEF n
      <4> QED
        BY <1>n
    <3>1. out[k][2] < out[k + 1][1] /\ k \in 1..n /\ k # n /\ k + 1 \in 1..n
      BY <1>o, <3>0
    <3>2. new[k + 1][1] = out[k + 1][1]
      BY <2>4, <2>7, <3>1
    <3> QED
      BY <2>7, <3>1, <3>2
  <2>9. Points(new) = Points(out) \cup Inside(x)
    <3> SUFFICES ASSUME NEW p PROVE p \in Points(new) <=> p \in Points(out) \cup Inside(x)
      OBVIOUS
    <3>1. p \in Points(new) <=> \E k \in 1..n : p \in Inside(new[k])
      BY <2>7, PointsIn
    <3>2. p \in Points(out) <=> \E k \in 1..n : p \in Inside(out[k])
      BY <1>0, PointsIn
    <3>3. \A k \in 1..n : k # n => Inside(new[k]) = Inside(out[k])
      BY <2>7
    <3>4. Inside(new[n]) = Inside(out[n]) \cup Inside(x)
      BY <2>6, <2>7
    <3> QED
      BY <2>1, <3>1, <3>2, <3>3, <3>4, Zenon
  <2>10. new # <<>> /\ Last(new)[1] <= x[1]
    <3>1. new # <<>> /\ Last(new) = y
      <4>1. Len(new) = n /\ n # 0 /\ new[n] = y
        <5>1. Len(new) = n /\ new[n] = y
          BY <2>7
        <5>2. n # 0
          BY <1>n, <2>1
        <5> QED
          BY <5>1, <5>2
      <4>2. Last(new) = new[Len(new)]
        BY DEF Last
      <4>3. new # <<>>
        <5>1. Len(<<>>) = 0
          OBVIOUS
        <5> QED
          BY <4>1, <5>1, Zenon
      <4> QED
        BY <4>1, <4>2, <4>3
    <3> QED
      BY <2>2, <2>4, <3>1
  <2> QED
    BY <2>3, <2>8, <2>9, <2>10
<1>3. CASE ~(out # <<>> /\ x[1] <= Last(out)[2])
  <2> DEFINE new == Append(out, x)
  <2>1. Joined(out, x) = new
    BY <1>3 DEF Joined
  <2>2. /\ new \in Seq(Interval) /\ Len(new) = n + 1 /\ DOMAIN new = 1..(n + 1) /\ new[n + 1] = x
        /\ \A k \in 1..n : new[k] = out[k]
    BY <1>0
  <2> HIDE DEF new
  <2>3. Canonical(new)
    <3> SUFFICES ASSUME NEW k \in 1..n PROVE new[k][2] < new[k + 1][1]
      BY <1>0, <2>2 DEF Canonical
    <3>1. CASE k = n
      <4>1. out # <<>> /\ Last(out) = out[n] /\ out[n] \in Interval
        BY <1>0, <3>1 DEF Last
      <4>2. ~(x[1] <= out[n][2]) /\ out[n][2] \in 0..Size
        BY <1>3, <4>1, IntervalFacts
      <4> QED
        BY <1>1, <2>2, <3>1, <4>2
    <3>2. CASE k # n
      <4>1. k \in 1..(n - 1) /\ k + 1 \in 1..n
        <5> HIDE DEF n
        <5> QED
          BY <1>n, <3>2
      <4> QED
        BY <1>o, <2>2, <4>1
    <3> QED
      BY <3>1, <3>2
  <2>4. Points(new) = Points(out) \cup Inside(x)
    <3> SUFFICES ASSUME NEW p PROVE p \in Points(new) <=> p \in Points(out) \cup Inside(x)
      OBVIOUS
    <3>1. p \in Points(new) <=> \E k \in 1..(n + 1) : p \in Inside(new[k])
      BY <2>2, PointsIn
    <3>2. p \in Points(out) <=> \E k \in 1..n : p \in Inside(out[k])
      BY <1>0, PointsIn
    <3>3. \A k \in 1..n : k \in 1..(n + 1) /\ Inside(new[k]) = Inside(out[k])
      BY <1>0, <2>2
    <3>4. Inside(new[n + 1]) = Inside(x) /\ n + 1 \in 1..(n + 1)
          /\ \A k \in 1..(n + 1) : k = n + 1 \/ k \in 1..n
      BY <1>0, <2>2
    <3> QED
      BY <3>1, <3>2, <3>3, <3>4, Zenon
  <2>5. new # <<>> /\ Last(new)[1] <= x[1]
    BY <1>0, <1>1, <2>2 DEF Last
  <2> QED
    BY <2>1, <2>3, <2>4, <2>5
<1> QED
  BY <1>2, <1>3

\* Of some intervals one starts first.
LEMMA FirstIs ==
  ASSUME NEW spans \in SUBSET Interval, spans # {}
  PROVE  FirstOf(spans) \in spans /\ \A y \in spans : FirstOf(spans)[1] <= y[1]
<1>0. \A x \in spans : x[1] \in Nat /\ x[2] \in Nat
  BY IntervalFacts
<1> DEFINE A == {x[1] : x \in spans}
<1>1. PICK a \in A : \A b \in A : a <= b
  <2>1. A \in SUBSET Nat /\ A # {}
    BY <1>0
  <2> HIDE DEF A
  <2> QED
    BY <2>1, LeastOf
<1>2. a \in Nat /\ \A y \in spans : a <= y[1]
  BY <1>0, <1>1
<1> DEFINE B == {x[2] : x \in {y \in spans : y[1] = a}}
<1>3. PICK b \in B : \A c \in B : b <= c
  <2>1. B \in SUBSET Nat /\ B # {}
    BY <1>0, <1>1
  <2> HIDE DEF B
  <2> QED
    BY <2>1, LeastOf
<1>4. PICK x \in spans : x[1] = a /\ x[2] = b
  BY <1>3
<1>5. \A y \in spans : StartsFirst(x, y)
  <2> SUFFICES ASSUME NEW y \in spans PROVE StartsFirst(x, y)
    OBVIOUS
  <2>1. a <= y[1] /\ y[1] \in Nat /\ (y[1] = a => b <= y[2])
    BY <1>0, <1>2, <1>3
  <2> QED
    BY <1>2, <1>4, <2>1 DEF StartsFirst
<1> DEFINE f == FirstOf(spans)
<1>6. f \in spans /\ \A y \in spans : StartsFirst(f, y)
  BY <1>5 DEF FirstOf
<1> HIDE DEF f
<1>7. \A y \in spans : f[1] <= y[1]
  BY <1>0, <1>6 DEF StartsFirst
<1> QED
  BY <1>6, <1>7 DEF f

-----------------------------------------------------------------------------
(* mergeIntervals: what is left of the spans and what has been put out.    *)

Merging(w, n, spans) ==
  w = [k \in 0..n |-> IF k = 0 THEN [left |-> spans, out |-> <<>>] ELSE Took(w[k - 1])]

\* The function MergeIntervals steps through exists for every length.
LEMMA MergingExists ==
  ASSUME NEW n \in Nat, NEW spans
  PROVE  \E w : Merging(w, n, spans)
<1> DEFINE S == {k \in 0..n : \E w : Merging(w, k, spans)}
<1>1. 0 \in S
  <2> DEFINE w == [j \in 0..0 |-> [left |-> spans, out |-> <<>>]]
  <2>1. w = [k \in 0..0 |-> IF k = 0 THEN [left |-> spans, out |-> <<>>] ELSE Took(w[k - 1])]
    OBVIOUS
  <2>2. Merging(w, 0, spans)
    BY <2>1 DEF Merging
  <2> HIDE DEF w
  <2> QED
    BY <2>2
<1>2. ASSUME NEW k \in 0..n, k < n, k \in S PROVE k + 1 \in S
  <2>1. PICK v : Merging(v, k, spans)
    BY <1>2
  <2>2. \A j \in 0..k : v[j] = IF j = 0 THEN [left |-> spans, out |-> <<>>] ELSE Took(v[j - 1])
    BY <2>1 DEF Merging
  <2> DEFINE w == [j \in 0..(k + 1) |-> IF j <= k THEN v[j] ELSE Took(v[k])]
  <2>3. (\A j \in 0..k : w[j] = v[j]) /\ w[k + 1] = Took(v[k])
        /\ w = [j \in 0..(k + 1) |-> w[j]]
    OBVIOUS
  <2> HIDE DEF w
  <2>4. \A j \in 0..(k + 1) : w[j] = IF j = 0 THEN [left |-> spans, out |-> <<>>] ELSE Took(w[j - 1])
    <3> SUFFICES ASSUME NEW j \in 0..(k + 1)
                 PROVE  w[j] = IF j = 0 THEN [left |-> spans, out |-> <<>>] ELSE Took(w[j - 1])
      OBVIOUS
    <3>1. CASE j = k + 1
      <4>1. j # 0 /\ j - 1 = k /\ k \in 0..k
        BY <3>1
      <4> QED
        BY <2>3, <3>1, <4>1
    <3>2. CASE j # k + 1
      <4>1. j \in 0..k /\ (j # 0 => j - 1 \in 0..k)
        BY <3>2
      <4>2. CASE j = 0
        BY <2>2, <2>3, <4>1, <4>2
      <4>3. CASE j # 0
        BY <2>2, <2>3, <4>1, <4>3
      <4> QED
        BY <4>2, <4>3
    <3> QED
      BY <3>1, <3>2
  <2>5. Merging(w, k + 1, spans)
    BY <2>3, <2>4 DEF Merging
  <2>6. k + 1 \in 0..n
    BY <1>2
  <2> QED
    BY <2>5, <2>6
<1>3. n \in S
  <2>1. \A k \in 0..n : k \in S
    <3> HIDE DEF S
    <3> QED
      BY <1>1, <1>2, StepByStep
  <2> QED
    BY <2>1
<1> QED
  BY <1>3

\* So far: every point is put out or left, and what is left starts later.
MergedSo(at, spans) ==
  /\ at.left \in SUBSET Interval
  /\ Canonical(at.out)
  /\ Points(at.out) \cup PointsOf(at.left) = PointsOf(spans)
  /\ at.out # <<>> => \A x \in at.left : Last(at.out)[1] <= x[1]

\* Taking the first of the intervals that are left keeps what MergedSo says.
LEMMA TookSo ==
  ASSUME NEW spans, NEW at, MergedSo(at, spans), at.left # {}
  PROVE  MergedSo(Took(at), spans) /\ Cardinality(Took(at).left) = Cardinality(at.left) - 1
<1> DEFINE x == FirstOf(at.left)
           rest == at.left \ {x}
           out == Joined(at.out, x)
<1>1. x \in at.left /\ x \in Interval /\ \A y \in at.left : x[1] <= y[1]
  BY FirstIs DEF MergedSo
<1>2. Took(at).left = rest /\ Took(at).out = out
  BY DEF Took
<1>3. rest \in SUBSET Interval /\ at.left = rest \cup {x}
  BY <1>1 DEF MergedSo
<1>4. Cardinality(rest) = Cardinality(at.left) - 1
  <2>1. IsFiniteSet(at.left)
    BY IntervalFacts, FS_Subset DEF MergedSo
  <2> QED
    BY <1>1, <2>1, FS_RemoveElement
<1>5. \A y \in rest : x[1] <= y[1]
  BY <1>1
<1> HIDE DEF x
<1>6. Canonical(out) /\ Points(out) = Points(at.out) \cup Inside(x) /\ Last(out)[1] <= x[1]
  <2>1. at.out # <<>> => Last(at.out)[1] <= x[1]
    BY <1>1 DEF MergedSo
  <2> QED
    BY <1>1, <2>1, JoinedIs DEF MergedSo
<1> HIDE DEF out, rest
<1>7. Points(out) \cup PointsOf(rest) = PointsOf(spans)
  BY <1>3, <1>6 DEF MergedSo, PointsOf
<1>8. \A y \in rest : Last(out)[1] <= y[1]
  <2> SUFFICES ASSUME NEW y \in rest PROVE Last(out)[1] <= y[1]
    OBVIOUS
  <2>1. x[1] \in Int /\ y[1] \in Int
    BY <1>1, <1>3, IntervalFacts
  <2>2. out # <<>> => Last(out) \in Interval
    BY <1>6 DEF Canonical, Last
  <2>3. out # <<>>
    BY <1>1, <1>6, JoinedIs DEF MergedSo, out
  <2>4. Last(out)[1] \in Int
    BY <2>2, <2>3, IntervalFacts
  <2> QED
    BY <1>5, <1>6, <2>1, <2>4
<1> QED
  BY <1>2, <1>3, <1>4, <1>6, <1>7, <1>8 DEF MergedSo

\* mergeIntervals (readcache.js:32-41): the list it makes is sorted, its
\* intervals neither touch nor overlap, and it has the points of what it got.
THEOREM MergeIs ==
  ASSUME NEW list \in Seq(Interval)
  PROVE  /\ Canonical(MergeIntervals(list))
         /\ Points(MergeIntervals(list)) = Points(list)
<1> DEFINE spans == Spans(list)
           n == Cardinality(spans)
           w == CHOOSE v : Merging(v, n, spans)
<1>1. DOMAIN list = 1..Len(list) /\ Len(list) \in Nat /\ \A k \in 1..Len(list) : list[k] \in Interval
  OBVIOUS
<1>2. spans = {list[k] : k \in DOMAIN list}
  BY <1>1, IntervalFacts DEF Spans, ToSet
<1>3. spans \in SUBSET Interval /\ IsFiniteSet(spans) /\ n \in Nat
  <2>1. spans \in SUBSET Interval
    BY <1>1, <1>2
  <2> HIDE DEF spans
  <2> QED
    BY <2>1, IntervalFacts, FS_Subset, FS_CardinalityType
<1>4. PointsOf(spans) = Points(list)
  BY <1>2 DEF PointsOf, Points, Inside
<1>5. MergeIntervals(list) = w[n].out
  BY DEF MergeIntervals, Merging
<1> HIDE DEF spans
<1>6. Merging(w, n, spans)
  <2> HIDE DEF n
  <2> QED
    BY <1>3, MergingExists
<1> HIDE DEF w
<1>7. \A k \in 0..n : w[k] = IF k = 0 THEN [left |-> spans, out |-> <<>>] ELSE Took(w[k - 1])
  BY <1>6 DEF Merging
<1> DEFINE S == {k \in 0..n : MergedSo(w[k], spans) /\ Cardinality(w[k].left) = n - k}
<1>8. 0 \in S
  <2>1. 0 \in 0..n /\ w[0] = [left |-> spans, out |-> <<>>]
    <3> HIDE DEF n
    <3> QED
      BY <1>3, <1>7
  <2>2. Canonical(<<>>) /\ Points(<<>>) = {}
    BY DEF Canonical, Points
  <2>3. MergedSo(w[0], spans)
    BY <1>3, <2>1, <2>2 DEF MergedSo
  <2>4. Cardinality(w[0].left) = n - 0
    BY <1>3, <2>1
  <2> QED
    BY <2>1, <2>3, <2>4
<1>9. ASSUME NEW k \in 0..n, k < n, k \in S PROVE k + 1 \in S
  <2>1. k + 1 \in 0..n /\ k + 1 # 0 /\ (k + 1) - 1 = k /\ n - k # 0 /\ (n - k) - 1 = n - (k + 1)
    <3> HIDE DEF n, S
    <3> QED
      BY <1>3, <1>9
  <2>2. MergedSo(w[k], spans) /\ Cardinality(w[k].left) = n - k
    BY <1>9
  <2>3. w[k].left # {}
    BY <2>1, <2>2, FS_EmptySet
  <2>4. w[k + 1] = Took(w[k])
    BY <1>7, <2>1
  <2> QED
    BY <2>1, <2>2, <2>3, <2>4, TookSo
<1>10. n \in S
  <2>1. \A k \in 0..n : k \in S
    <3> HIDE DEF S, n
    <3> QED
      BY <1>3, <1>8, <1>9, StepByStep
  <2>2. n \in 0..n
    <3> HIDE DEF n
    <3> QED
      BY <1>3
  <2> QED
    BY <2>1, <2>2
<1>11. MergedSo(w[n], spans) /\ Cardinality(w[n].left) = 0
  <2>1. n - n = 0
    <3> HIDE DEF n
    <3> QED
      BY <1>3
  <2> QED
    BY <1>10, <2>1
<1>12. w[n].left = {}
  <2>1. IsFiniteSet(w[n].left)
    BY <1>11, IntervalFacts, FS_Subset DEF MergedSo
  <2> QED
    BY <1>11, <2>1, FS_EmptySet
<1> QED
  BY <1>4, <1>5, <1>11, <1>12 DEF MergedSo, PointsOf

-----------------------------------------------------------------------------
(* subtractIntervals: the cursor passes the covered intervals one by one.  *)

\* In such a list every interval ends before each later one starts.
LEMMA CanonicalSorted ==
  ASSUME NEW list, Canonical(list)
  PROVE  \A i, j \in 1..Len(list) : i < j => list[i][2] < list[j][1]
<1> DEFINE n == Len(list)
<1>1. n \in Nat /\ \A k \in 1..n : list[k] \in Interval
  BY DEF Canonical
<1>2. \A k \in 1..(n - 1) : list[k][2] < list[k + 1][1]
  BY DEF Canonical
<1>3. \A k \in 1..n : list[k][1] \in Int /\ list[k][2] \in Int /\ list[k][1] < list[k][2]
  BY <1>1, IntervalFacts
<1>4. n \in Nat
  BY <1>1
<1> HIDE DEF n
<1> SUFFICES ASSUME NEW i \in 1..n PROVE \A j \in 1..n : i < j => list[i][2] < list[j][1]
  BY DEF n
<1> DEFINE S == {k \in 0..n : k > i => list[i][2] < list[k][1]}
<1>5. 0 \in S
  BY <1>4
<1>6. ASSUME NEW k \in 0..n, k < n, k \in S PROVE k + 1 \in S
  <2>1. CASE k = i
    BY <1>2, <1>4, <1>6, <2>1
  <2>2. CASE k > i
    <3>1. k \in 1..n /\ k + 1 \in 1..n /\ k \in 1..(n - 1)
      BY <1>4, <1>6, <2>2
    <3>2. list[i][2] < list[k][1] /\ list[k][2] < list[k + 1][1]
      BY <1>2, <1>6, <2>2, <3>1
    <3> QED
      BY <1>3, <1>4, <1>6, <3>1, <3>2
  <2>3. CASE ~(k = i) /\ ~(k > i)
    BY <1>4, <1>6, <2>3
  <2> QED
    BY <2>1, <2>2, <2>3
<1>7. \A k \in 0..n : k \in S
  <2> HIDE DEF S
  <2> QED
    BY <1>4, <1>5, <1>6, StepByStep
<1> QED
  BY <1>4, <1>7

Passing(w, n, cov, target) ==
  w = [k \in 0..n |-> IF k = 0 THEN [out |-> <<>>, cur |-> target[1]]
                      ELSE Passed(w[k - 1], cov[k], target)]

\* The function SubtractIntervals steps through exists for every length.
LEMMA PassingExists ==
  ASSUME NEW n \in Nat, NEW cov, NEW target
  PROVE  \E w : Passing(w, n, cov, target)
<1> DEFINE F == [out |-> <<>>, cur |-> target[1]]
           Go(v, k) == Passed(v, cov[k], target)
           S == {k \in 0..n : \E w : Passing(w, k, cov, target)}
<1>1. 0 \in S
  <2> DEFINE w == [j \in 0..0 |-> F]
  <2>1. w = [k \in 0..0 |-> IF k = 0 THEN F ELSE Go(w[k - 1], k)]
    OBVIOUS
  <2>2. Passing(w, 0, cov, target)
    BY <2>1 DEF Passing
  <2> HIDE DEF w
  <2> QED
    BY <2>2
<1>2. ASSUME NEW k \in 0..n, k < n, k \in S PROVE k + 1 \in S
  <2>1. PICK v : Passing(v, k, cov, target)
    BY <1>2
  <2>2. \A j \in 0..k : v[j] = IF j = 0 THEN F ELSE Go(v[j - 1], j)
    BY <2>1 DEF Passing
  <2> DEFINE w == [j \in 0..(k + 1) |-> IF j <= k THEN v[j] ELSE Go(v[k], k + 1)]
  <2>3. (\A j \in 0..k : w[j] = v[j]) /\ w[k + 1] = Go(v[k], k + 1)
        /\ w = [j \in 0..(k + 1) |-> w[j]]
    OBVIOUS
  <2> HIDE DEF w, Go, F
  <2>4. \A j \in 0..(k + 1) : w[j] = IF j = 0 THEN F ELSE Go(w[j - 1], j)
    <3> SUFFICES ASSUME NEW j \in 0..(k + 1)
                 PROVE  w[j] = IF j = 0 THEN F ELSE Go(w[j - 1], j)
      OBVIOUS
    <3>1. CASE j = k + 1
      <4>1. j # 0 /\ j - 1 = k /\ k \in 0..k
        BY <3>1
      <4> QED
        BY <2>3, <3>1, <4>1
    <3>2. CASE j # k + 1
      <4>1. j \in 0..k /\ (j # 0 => j - 1 \in 0..k)
        BY <3>2
      <4>2. CASE j = 0
        BY <2>2, <2>3, <4>1, <4>2
      <4>3. CASE j # 0
        BY <2>2, <2>3, <4>1, <4>3
      <4> QED
        BY <4>2, <4>3
    <3> QED
      BY <3>1, <3>2
  <2>5. Passing(w, k + 1, cov, target)
    BY <2>3, <2>4 DEF Passing, Go, F
  <2>6. k + 1 \in 0..n
    BY <1>2
  <2> QED
    BY <2>5, <2>6
<1>3. n \in S
  <2>1. \A k \in 0..n : k \in S
    <3> HIDE DEF S
    <3> QED
      BY <1>1, <1>2, StepByStep
  <2> QED
    BY <2>1
<1> QED
  BY <1>3

\* The points of a target that no interval covers, as far as the cursor got.
Open(target, cov, cur) ==
  {p \in Inside(target) : p < cur /\ \A j \in 1..Len(cov) : p \notin Inside(cov[j])}

PassedSo(at, k, cov, target) ==
  /\ at.out \in Seq(Interval) /\ at.cur \in 0..Size /\ at.cur >= target[1]
  /\ Points(at.out) = Open(target, cov, at.cur)
  /\ \A j \in 1..k : cov[j][2] <= at.cur \/ cov[j][1] >= target[2]
  /\ \A j \in (k + 1)..Len(cov) : at.cur = target[1] \/ at.cur < cov[j][1]

\* A list that grows by an interval grows by its points.
LEMMA PointsAppend ==
  ASSUME NEW list \in Seq(Interval), NEW x \in Interval
  PROVE  Append(list, x) \in Seq(Interval) /\ Points(Append(list, x)) = Points(list) \cup Inside(x)
<1> DEFINE n == Len(list)
           new == Append(list, x)
<1>1. /\ n \in Nat /\ DOMAIN list = 1..n
      /\ new \in Seq(Interval) /\ DOMAIN new = 1..(n + 1) /\ new[n + 1] = x
      /\ \A k \in 1..n : new[k] = list[k]
  OBVIOUS
<1> HIDE DEF n, new
<1>2. ASSUME NEW p PROVE p \in Points(new) <=> p \in Points(list) \cup Inside(x)
  <2>1. p \in Points(new) <=> \E k \in 1..(n + 1) : p \in Inside(new[k])
    BY <1>1, PointsIn
  <2>2. p \in Points(list) <=> \E k \in 1..n : p \in Inside(list[k])
    BY <1>1, PointsIn
  <2>3. \A k \in 1..n : k \in 1..(n + 1) /\ Inside(new[k]) = Inside(list[k])
    BY <1>1
  <2>4. Inside(new[n + 1]) = Inside(x) /\ n + 1 \in 1..(n + 1)
        /\ \A k \in 1..(n + 1) : k = n + 1 \/ k \in 1..n
    BY <1>1
  <2> QED
    BY <2>1, <2>2, <2>3, <2>4, Zenon
<1> QED
  BY <1>1, <1>2 DEF new

\* The cursor that passes one more interval keeps what PassedSo says.
LEMMA PassedStep ==
  ASSUME NEW cov, Canonical(cov), NEW target \in Interval,
         NEW k \in 0..Len(cov), k < Len(cov), NEW at, PassedSo(at, k, cov, target)
  PROVE  PassedSo(Passed(at, cov[k + 1], target), k + 1, cov, target)
<1> DEFINE c == cov[k + 1]
           n == Len(cov)
           cur == at.cur
<1>1. n \in Nat /\ k \in Nat /\ k + 1 \in 1..n /\ \A j \in 1..n : cov[j] \in Interval
  BY DEF Canonical
<1>2. /\ Size \in Nat /\ target[1] \in 0..Size /\ target[2] \in 0..Size /\ target[1] < target[2]
      /\ \A j \in 1..n : cov[j][1] \in 0..Size /\ cov[j][2] \in 0..Size /\ cov[j][1] < cov[j][2]
  BY <1>1, IntervalFacts
<1>3. c[1] \in 0..Size /\ c[2] \in 0..Size /\ c[1] < c[2]
  BY <1>1, <1>2
<1>4. \A j \in (k + 2)..n : c[2] < cov[j][1]
  <2> SUFFICES ASSUME NEW j \in (k + 2)..n PROVE c[2] < cov[j][1]
    OBVIOUS
  <2>1. j \in 1..n /\ k + 1 < j
    <3> HIDE DEF n
    <3> QED
      BY <1>1
  <2> QED
    BY <1>1, <2>1, CanonicalSorted
<1>5. /\ at.out \in Seq(Interval) /\ cur \in 0..Size /\ cur >= target[1]
      /\ Points(at.out) = Open(target, cov, cur)
      /\ \A j \in 1..k : cov[j][2] <= cur \/ cov[j][1] >= target[2]
      /\ \A j \in (k + 1)..n : cur = target[1] \/ cur < cov[j][1]
  BY DEF PassedSo
<1>6. \A j \in 1..(k + 1) : j = k + 1 \/ j \in 1..k
  BY <1>1
<1>7. \A j \in (k + 2)..n : j \in (k + 1)..n
  BY <1>1
<1>8. \A j \in 1..n : j \in 1..k \/ j = k + 1 \/ j \in (k + 2)..n
  <2> HIDE DEF n
  <2> QED
    BY <1>1
<1>9. (k + 1) + 1 = k + 2
  BY <1>1
<1> HIDE DEF n
<1>10. CASE c[2] <= cur \/ c[1] >= target[2]
  <2>1. Passed(at, c, target) = at
    BY <1>10 DEF Passed
  <2>2. \A j \in 1..(k + 1) : cov[j][2] <= cur \/ cov[j][1] >= target[2]
    BY <1>5, <1>6, <1>10
  <2>3. \A j \in (k + 2)..n : cur = target[1] \/ cur < cov[j][1]
    BY <1>5, <1>7
  <2> QED
    BY <1>5, <1>9, <2>1, <2>2, <2>3 DEF PassedSo, n
<1>11. CASE ~(c[2] <= cur) /\ ~(c[1] >= target[2])
  <2> DEFINE new == Passed(at, c, target)
  <2>1. new.cur = c[2]
    BY <1>3, <1>5, <1>11 DEF Passed, Later
  <2>2. new.out = IF c[1] > cur THEN Append(at.out, <<cur, Sooner(c[1], target[2])>>) ELSE at.out
    BY <1>11 DEF Passed
  <2>3. Sooner(c[1], target[2]) = c[1]
    BY <1>2, <1>3, <1>11 DEF Sooner
  <2>4. Open(target, cov, c[2]) = Open(target, cov, cur) \cup IF c[1] > cur THEN Inside(<<cur, c[1]>>) ELSE {}
    <3>1. ASSUME NEW p \in Inside(target), p < c[2], ~(p < cur)
          PROVE  (\A j \in 1..n : p \notin Inside(cov[j])) <=> p < c[1]
      <4>0. p \in Int /\ p >= target[1] /\ p < target[2]
        BY <1>2, <3>1 DEF Inside
      <4>1. ASSUME p < c[1], NEW j \in 1..n PROVE p \notin Inside(cov[j])
        <5>1. cov[j][1] \in Int /\ cov[j][2] \in Int
          BY <1>2
        <5>2. CASE j \in 1..k
          <6>1. cov[j][2] <= cur \/ cov[j][1] >= target[2]
            BY <1>5, <5>2
          <6>2. cur \in Int /\ target[2] \in Int /\ ~(p < cur)
            BY <1>2, <1>5, <3>1
          <6> HIDE DEF cur
          <6>3. ~(p >= cov[j][1] /\ p <= cov[j][2] - 1)
            BY <4>0, <5>1, <6>1, <6>2
          <6> QED
            BY <5>1, <6>3 DEF Inside
        <5>3. CASE j = k + 1
          BY <4>0, <4>1, <5>1, <5>3 DEF Inside
        <5>4. CASE j \in (k + 2)..n
          BY <1>3, <1>4, <3>1, <4>0, <5>1, <5>4 DEF Inside
        <5> QED
          BY <1>8, <5>2, <5>3, <5>4
      <4>2. ASSUME ~(p < c[1]) PROVE p \in Inside(cov[k + 1])
        BY <1>3, <3>1, <4>0, <4>2 DEF Inside
      <4> QED
        BY <1>1, <4>1, <4>2
    <3>2. ASSUME NEW p \in Inside(target), p < cur PROVE p < c[2]
      BY <1>2, <1>3, <1>5, <1>11, <3>2 DEF Inside
    <3>3. ASSUME c[1] > cur, NEW p \in Inside(<<cur, c[1]>>) PROVE p \in Inside(target) /\ p < c[1] /\ p < c[2] /\ ~(p < cur)
      <4>1. cur \in Int /\ c[1] \in Int /\ c[2] \in Int /\ target[1] \in Int /\ target[2] \in Int
            /\ cur >= target[1] /\ c[1] < target[2] /\ c[1] < c[2]
        BY SMTT(30), <1>2, <1>3, <1>5, <1>11
      <4> HIDE DEF cur, c
      <4>2. p \in cur..(c[1] - 1)
        BY <3>3 DEF Inside
      <4>3. p \in Int /\ p >= target[1] /\ p <= target[2] - 1 /\ p < c[1] /\ p < c[2] /\ ~(p < cur)
        BY <4>1, <4>2
      <4> QED
        BY <4>1, <4>3 DEF Inside
    <3>4. ASSUME NEW p \in Inside(target), ~(p < cur), p < c[1] PROVE c[1] > cur /\ p \in Inside(<<cur, c[1]>>)
      BY SMTT(30), <1>2, <1>3, <1>5, <3>4 DEF Inside
    <3>5. \A p \in Open(target, cov, c[2]) :
             p \in Open(target, cov, cur) \cup IF c[1] > cur THEN Inside(<<cur, c[1]>>) ELSE {}
      BY <3>1, <3>4 DEF Open, n
    <3>6. \A p \in Open(target, cov, cur) : p \in Open(target, cov, c[2])
      BY <3>2 DEF Open
    <3>7. c[1] > cur => \A p \in Inside(<<cur, c[1]>>) : p \in Open(target, cov, c[2])
      BY <3>1, <3>3 DEF Open, n
    <3> QED
      BY <3>5, <3>6, <3>7
  <2>5. new.out \in Seq(Interval) /\ Points(new.out) = Open(target, cov, c[2])
    <3>1. CASE c[1] > cur
      <4>1. <<cur, c[1]>> \in Interval
        BY <1>3, <1>5, <3>1, IntervalFacts
      <4> QED
        BY <1>5, <2>2, <2>3, <2>4, <3>1, <4>1, PointsAppend
    <3>2. CASE ~(c[1] > cur)
      BY <1>5, <2>2, <2>4, <3>2
    <3> QED
      BY <3>1, <3>2
  <2>6. \A j \in 1..(k + 1) : cov[j][2] <= c[2] \/ cov[j][1] >= target[2]
    <3> SUFFICES ASSUME NEW j \in 1..(k + 1) PROVE cov[j][2] <= c[2] \/ cov[j][1] >= target[2]
      OBVIOUS
    <3>1. CASE j = k + 1
      BY <1>3, <3>1
    <3>2. CASE j \in 1..k
      <4>1. j \in 1..n
        BY <1>1, <3>2
      <4>2. cov[j][2] \in Int /\ cov[j][1] \in Int
        BY <1>2, <4>1
      <4> QED
        BY <1>3, <1>5, <1>11, <3>2, <4>2
    <3> QED
      BY <1>6, <3>1, <3>2
  <2>7. c[2] >= target[1]
    BY <1>2, <1>3, <1>5, <1>11
  <2> HIDE DEF new
  <2> QED
    BY <1>3, <1>4, <1>9, <2>1, <2>5, <2>6, <2>7 DEF PassedSo, n, new
<1> QED
  BY <1>10, <1>11

\* subtractIntervals (readcache.js:44-58): what it returns are the points of the
\* target that are not covered, no more and no less.
THEOREM SubtractIs ==
  ASSUME NEW target \in Interval, NEW covered \in Seq(Interval)
  PROVE  /\ SubtractIntervals(target, covered) \in Seq(Interval)
         /\ Points(SubtractIntervals(target, covered)) = Inside(target) \ Points(covered)
<1> DEFINE cov == MergeIntervals(covered)
           n == Len(cov)
           w == CHOOSE v : Passing(v, n, cov, target)
           end == w[n]
<1>1. Canonical(cov) /\ Points(cov) = Points(covered)
  BY MergeIs
<1>2. SubtractIntervals(target, covered)
        = IF end.cur < target[2] THEN Append(end.out, <<end.cur, target[2]>>) ELSE end.out
  BY DEF SubtractIntervals, Passing
<1> HIDE DEF cov
<1>3. n \in Nat /\ \A j \in 1..n : cov[j] \in Interval
  BY <1>1 DEF Canonical
<1>4. Passing(w, n, cov, target)
  <2> HIDE DEF n
  <2> QED
    BY <1>3, PassingExists
<1> HIDE DEF w
<1>5. \A k \in 0..n : w[k] = IF k = 0 THEN [out |-> <<>>, cur |-> target[1]]
                             ELSE Passed(w[k - 1], cov[k], target)
  BY <1>4 DEF Passing
<1>6. /\ Size \in Nat /\ target[1] \in 0..Size /\ target[2] \in 0..Size /\ target[1] < target[2]
  BY IntervalFacts
<1> DEFINE S == {k \in 0..n : PassedSo(w[k], k, cov, target)}
<1>7. 0 \in S
  <2>1. 0 \in 0..n /\ w[0].out = <<>> /\ w[0].cur = target[1]
    <3> HIDE DEF n
    <3> QED
      BY <1>3, <1>5
  <2>2. Points(<<>>) = {}
    BY DEF Points
  <2>3. Open(target, cov, target[1]) = {}
    BY <1>6 DEF Open, Inside
  <2>4. PassedSo(w[0], 0, cov, target)
    BY <1>6, <2>1, <2>2, <2>3 DEF PassedSo
  <2> QED
    BY <2>1, <2>4
<1>8. ASSUME NEW k \in 0..n, k < n, k \in S PROVE k + 1 \in S
  <2>1. k + 1 \in 0..n /\ k + 1 # 0 /\ (k + 1) - 1 = k
    <3> HIDE DEF n, S
    <3> QED
      BY <1>3, <1>8
  <2>2. w[k + 1] = Passed(w[k], cov[k + 1], target)
    BY <1>5, <2>1
  <2>3. PassedSo(w[k + 1], k + 1, cov, target)
    BY <1>1, <1>8, <2>2, PassedStep
  <2> QED
    BY <2>1, <2>3
<1>9. PassedSo(end, n, cov, target)
  <2>1. \A k \in 0..n : k \in S
    <3> HIDE DEF S, n
    <3> QED
      BY <1>3, <1>7, <1>8, StepByStep
  <2>2. n \in 0..n
    <3> HIDE DEF n
    <3> QED
      BY <1>3
  <2> QED
    BY <2>1, <2>2
<1> DEFINE cur == end.cur
<1>10. /\ end.out \in Seq(Interval) /\ cur \in 0..Size /\ cur >= target[1]
       /\ Points(end.out) = Open(target, cov, cur)
       /\ \A j \in 1..n : cov[j][2] <= cur \/ cov[j][1] >= target[2]
  BY <1>9 DEF PassedSo
<1>11. \A p : p \in Points(cov) <=> \E j \in 1..n : p \in Inside(cov[j])
  <2>1. DOMAIN cov = 1..n
    BY <1>1 DEF Canonical
  <2> QED
    BY <2>1, PointsIn
<1> HIDE DEF end, n
<1>12. ASSUME NEW p \in Inside(target), ~(p < cur), NEW j \in 1..n PROVE p \notin Inside(cov[j])
  <2>1. cov[j][1] \in Int /\ cov[j][2] \in Int
    BY <1>3, IntervalFacts
  <2>2. cov[j][2] <= cur \/ cov[j][1] >= target[2]
    BY <1>10
  <2> QED
    BY SMTT(30), <1>6, <1>10, <1>12, <2>1, <2>2 DEF Inside
<1>13. Inside(target) \ Points(cov) = Open(target, cov, cur) \cup {p \in Inside(target) : ~(p < cur)}
  BY <1>11, <1>12 DEF Open, n
<1>14. CASE cur < target[2]
  <2>1. <<cur, target[2]>> \in Interval
    BY <1>6, <1>10, <1>14, IntervalFacts
  <2>2. Inside(<<cur, target[2]>>) = {p \in Inside(target) : ~(p < cur)}
    BY <1>6, <1>10, <1>14 DEF Inside
  <2> QED
    BY <1>1, <1>2, <1>10, <1>13, <1>14, <2>1, <2>2, PointsAppend
<1>15. CASE ~(cur < target[2])
  <2>1. {p \in Inside(target) : ~(p < cur)} = {}
    BY <1>6, <1>10, <1>15 DEF Inside
  <2> QED
    BY <1>1, <1>2, <1>10, <1>13, <1>15, <2>1
<1> QED
  BY <1>14, <1>15

\* Two lists put together have the points of both.
LEMMA PointsConcat ==
  ASSUME NEW one \in Seq(Interval), NEW two \in Seq(Interval)
  PROVE  one \o two \in Seq(Interval) /\ Points(one \o two) = Points(one) \cup Points(two)
<1> DEFINE a == Len(one)
           b == Len(two)
           both == one \o two
<1>1. a \in Nat /\ b \in Nat /\ DOMAIN one = 1..a /\ DOMAIN two = 1..b
  OBVIOUS
<1>2. /\ both \in Seq(Interval) /\ DOMAIN both = 1..(a + b)
      /\ \A k \in 1..a : both[k] = one[k]
      /\ \A k \in 1..b : both[a + k] = two[k]
  OBVIOUS
<1> HIDE DEF a, b, both
<1>3. \A k \in 1..(a + b) : k \in 1..a \/ \E j \in 1..b : k = a + j
  <2> SUFFICES ASSUME NEW k \in 1..(a + b), ~(k \in 1..a) PROVE k - a \in 1..b /\ k = a + (k - a)
    OBVIOUS
  <2> QED
    BY <1>1
<1>4. (\A k \in 1..a : k \in 1..(a + b)) /\ (\A k \in 1..b : a + k \in 1..(a + b))
  BY <1>1
<1>5. ASSUME NEW p PROVE p \in Points(both) <=> p \in Points(one) \cup Points(two)
  <2>1. p \in Points(both) <=> \E k \in 1..(a + b) : p \in Inside(both[k])
    BY <1>2, PointsIn
  <2>2. (p \in Points(one) <=> \E k \in 1..a : p \in Inside(one[k]))
        /\ (p \in Points(two) <=> \E k \in 1..b : p \in Inside(two[k]))
    BY <1>1, PointsIn
  <2>3. (\A k \in 1..a : Inside(both[k]) = Inside(one[k]))
        /\ (\A k \in 1..b : Inside(both[a + k]) = Inside(two[k]))
    BY <1>2
  <2> QED
    BY <1>3, <1>4, <2>1, <2>2, <2>3, Zenon
<1> QED
  BY <1>2, <1>5 DEF both

\* A list of one interval has its points.
LEMMA PointsOne ==
  ASSUME NEW x \in Interval
  PROVE  <<x>> \in Seq(Interval) /\ Points(<<x>>) = Inside(x)
<1>1. DOMAIN <<x>> = {1} /\ <<x>>[1] = x
  OBVIOUS
<1>2. \A p : p \in Points(<<x>>) <=> p \in Inside(x)
  BY <1>1, PointsIn
<1> QED
  BY <1>2

\* The empty list has none.
LEMMA NoPoints == <<>> \in Seq(Interval) /\ Points(<<>>) = {}
  BY DEF Points

\* The points of a list of intervals are points of the file.
LEMMA PointsOfFile ==
  ASSUME NEW list \in Seq(Interval) PROVE Points(list) \subseteq 0..(Size - 1)
<1>1. \A k \in DOMAIN list : list[k] \in Interval
  OBVIOUS
<1>2. ASSUME NEW x \in Interval PROVE Inside(x) \subseteq 0..(Size - 1)
  BY IntervalFacts DEF Inside
<1> QED
  BY <1>1, <1>2, PointsIn

\* -- the record -------------------------------------------------------------

Asks == [to : Reader, how : {"duplicate", "preview", "given"}, span : Interval]
Searches == [to : Reader, how : {"no search", "searched"}, span : Nat]

\* The state of the record: every answer asks about an interval of the file or
\* about an epoch, and no version, epoch or search is from the future.
ReadTypes ==
  /\ version \in 0..MaxVersion /\ epoch \in 0..version /\ searched \in SUBSET (0..epoch)
  /\ record \in [of : Int, iv : Seq(Interval)]
  /\ record.of \in -1..version
  /\ held \in [Reader -> SUBSET (0..(Size - 1))]
  /\ said \in {Nothing} \cup Asks \cup Searches
  /\ found \in [Reader -> -1..epoch]

\* What is recorded of the present version stands in every context.
HeldByAll == record.of = version => \A r \in Reader : Points(record.iv) \subseteq held[r]
SearchKept == epoch \in searched => \A r \in Reader : found[r] \in {-1, epoch}

ReadInv ==
  /\ ReadTypes /\ Canonical(record.iv) /\ HeldByAll /\ SearchKept
  /\ AskedIsInContext /\ RefusedSearchIsFresh

\* The invariant is at least as strong as the property of the run.
LEMMA ReadInvImplies ==
  ASSUME ReadInv PROVE ReadsSafe
<1>1. MaxVersion \in Nat /\ Reader # {}
  BY ReadAssumption
<1>2. said.how \in {"none", "duplicate", "preview", "given", "no search", "searched"}
  <2>1. said \in {Nothing} \cup Asks \cup Searches
    BY DEF ReadInv, ReadTypes
  <2>2. CASE said = Nothing
    BY <2>2 DEF Nothing
  <2>3. CASE said \in Asks
    BY <2>3 DEF Asks
  <2>4. CASE said \in Searches
    BY <2>4 DEF Searches
  <2> QED
    BY <2>1, <2>2, <2>3, <2>4
<1>3. ReadTypeOK
  <2>1. record.of \in -1..MaxVersion /\ epoch \in 0..MaxVersion
    BY <1>1 DEF ReadInv, ReadTypes
  <2> QED
    BY <1>2, <2>1 DEF ReadInv, ReadTypes, ReadTypeOK
<1>4. RecordIsCanonical
  BY DEF ReadInv, Canonical, RecordIsCanonical
<1>5. RecordIsHeld
  BY <1>1 DEF ReadInv, HeldByAll, RecordIsHeld
<1> QED
  BY <1>3, <1>4, <1>5 DEF ReadsSafe, ReadInv

\* The first state satisfies the invariant.
LEMMA ReadStarts == ReadInit => ReadInv
<1> SUFFICES ASSUME ReadInit PROVE ReadInv
  OBVIOUS
<1>1. MaxVersion \in Nat /\ Size \in Nat
  BY ReadAssumption
<1>2. ReadTypes
  BY <1>1, NoPoints DEF ReadInit, ReadTypes
<1>3. Canonical(record.iv)
  BY NoPoints DEF ReadInit, Canonical
<1>4. HeldByAll /\ SearchKept
  BY DEF ReadInit, HeldByAll, SearchKept
<1>5. said.how = "none"
  BY DEF ReadInit, Nothing
<1>6. AskedIsInContext /\ RefusedSearchIsFresh
  BY <1>5 DEF AskedIsInContext, RefusedSearchIsFresh
<1> QED
  BY <1>2, <1>3, <1>4, <1>6 DEF ReadInv

\* -- the steps ---------------------------------------------------------------

\* What counts as covered stands in every context.
LEMMA CoveredIs ==
  ASSUME ReadTypes, Canonical(record.iv), HeldByAll
  PROVE  Covered \in Seq(Interval) /\ \A r \in Reader : Points(Covered) \subseteq held[r]
<1>1. CASE record.of = version
  BY <1>1 DEF Covered, Canonical, HeldByAll
<1>2. CASE record.of # version
  BY <1>2, NoPoints DEF Covered
<1> QED
  BY <1>1, <1>2

\* What noteServed writes is a canonical list of the old points and the new.
LEMMA NotedIs ==
  ASSUME ReadTypes, Canonical(record.iv), HeldByAll, NEW spans \in Seq(Interval)
  PROVE  /\ Noted(spans) \in [of : Int, iv : Seq(Interval)]
         /\ Noted(spans).of = version /\ Canonical(Noted(spans).iv)
         /\ Points(Noted(spans).iv) = Points(Covered) \cup Points(spans)
<1> DEFINE iv == MergeIntervals(Covered \o spans)
<1>1. Covered \in Seq(Interval)
  BY CoveredIs
<1>2. Covered \o spans \in Seq(Interval) /\ Points(Covered \o spans) = Points(Covered) \cup Points(spans)
  BY <1>1, PointsConcat
<1>3. Canonical(iv) /\ Points(iv) = Points(Covered) \cup Points(spans)
  BY <1>2, MergeIs
<1>4. Noted(spans) = [of |-> version, iv |-> iv]
  BY DEF Noted
<1>5. version \in Int /\ iv \in Seq(Interval)
  BY <1>3 DEF ReadTypes, Canonical
<1> HIDE DEF iv
<1> QED
  BY <1>3, <1>4, <1>5

\* The gaps of a plan are what of the span is not covered, or all of it; a
\* repetition leaves little of the span open.
LEMMA PlanIs ==
  ASSUME ReadTypes, Canonical(record.iv), HeldByAll,
         NEW span \in Interval, NEW force \in BOOLEAN, NEW near \in BOOLEAN
  PROVE  LET plan == Plan(span, force, near)
         IN /\ plan.gaps \in Seq(Interval) /\ Points(plan.gaps) \subseteq Inside(span)
            /\ Inside(span) \subseteq Points(plan.gaps) \cup Points(Covered)
            /\ plan.duplicate =>
                 \/ Cardinality(Points(plan.gaps)) = 0
                 \/ Cardinality(Points(plan.gaps)) * NearDen < Length(span)
<1> DEFINE gaps == IF force THEN <<span>> ELSE SubtractIntervals(span, Covered)
           open == Cardinality(Points(gaps))
<1>1. Plan(span, force, near)
        = [gaps |-> gaps, duplicate |-> ~force /\ (open = 0 \/ (near /\ open * NearDen < Length(span)))]
  BY DEF Plan
<1>2. gaps \in Seq(Interval) /\ Points(gaps) \subseteq Inside(span)
      /\ Inside(span) \subseteq Points(gaps) \cup Points(Covered)
  <2>1. CASE force
    BY <2>1, PointsOne
  <2>2. CASE ~force
    BY <2>2, CoveredIs, SubtractIs
  <2> QED
    BY <2>1, <2>2
<1> HIDE DEF gaps
<1>3. Plan(span, force, near).gaps = gaps
  BY <1>1
<1>4. Plan(span, force, near).duplicate => open = 0 \/ open * NearDen < Length(span)
  <2> DEFINE few == open * NearDen < Length(span)
             none == open = 0
             again == ~force /\ (none \/ (near /\ few))
  <2>0. Plan(span, force, near) = [gaps |-> gaps, duplicate |-> again]
    BY <1>1
  <2> HIDE DEF again
  <2>1. Plan(span, force, near).duplicate = again
    BY <2>0
  <2> HIDE DEF few, none
  <2>2. Plan(span, force, near).duplicate => none \/ few
    BY <2>1, Zenon DEF again
  <2> QED
    BY <2>2 DEF few, none
<1> QED
  BY <1>2, <1>3, <1>4

\* What is left of a span outside a set that holds all but the gaps is no more
\* than the gaps.
LEMMA LittleLeft ==
  ASSUME NEW span \in Interval, NEW gaps \in Seq(Interval), NEW have,
         Inside(span) \subseteq Points(gaps) \cup have,
         \/ Cardinality(Points(gaps)) = 0
         \/ Cardinality(Points(gaps)) * NearDen < Length(span)
  PROVE  Cardinality(Inside(span) \ have) * NearDen < Length(span)
<1> DEFINE a == Cardinality(Inside(span) \ have)
           b == Cardinality(Points(gaps))
           n == Length(span)
<1>1. Size \in Nat /\ NearDen \in Nat
  BY ReadAssumption
<1>2. IsFiniteSet(Points(gaps))
  <2>1. IsFiniteSet(0..(Size - 1))
    BY <1>1, FS_Interval
  <2> QED
    BY <2>1, PointsOfFile, FS_Subset
<1>3. Inside(span) \ have \in SUBSET Points(gaps)
  OBVIOUS
<1>4. a \in Nat /\ b \in Nat /\ a <= b
  BY <1>2, <1>3, FS_Subset, FS_CardinalityType
<1>5. n \in Nat /\ n > 0
  BY IntervalFacts DEF Length
<1>6. b = 0 \/ b * NearDen < n
  OBVIOUS
<1> HIDE DEF a, b, n
<1>7. CASE b = 0
  <2>1. a = 0
    BY <1>4, <1>7
  <2> QED
    BY <1>1, <1>5, <2>1 DEF a, n
<1>8. CASE b * NearDen < n
  <2>1. a * NearDen <= b * NearDen
    <3>1. b = a + (b - a) /\ b - a \in Nat
      BY <1>4
    <3>2. \A x, y, z \in Nat : (x + y) * z = x * z + y * z
      OBVIOUS
    <3>3. \A x, y \in Nat : x * y \in Nat
      OBVIOUS
    <3>4. b * NearDen = a * NearDen + (b - a) * NearDen
      BY <1>1, <1>4, <3>1, <3>2
    <3>5. a * NearDen \in Nat /\ (b - a) * NearDen \in Nat
      BY <1>1, <1>4, <3>1, <3>3
    <3> DEFINE x == a * NearDen
               y == (b - a) * NearDen
               z == b * NearDen
    <3>6. z = x + y /\ x \in Nat /\ y \in Nat
      BY <3>4, <3>5
    <3> HIDE DEF x, y, z
    <3>7. x <= z
      BY <3>6
    <3> QED
      BY <3>7 DEF x, z
  <2>2. a * NearDen \in Int /\ b * NearDen \in Int
    BY <1>1, <1>4
  <2>3. \A x, y, z \in Int : x <= y /\ y < z => x < z
    OBVIOUS
  <2>4. a * NearDen < n
    BY <1>5, <1>8, <2>1, <2>2, <2>3
  <2> QED
    BY <2>4 DEF a, n
<1> QED
  BY <1>6, <1>7, <1>8

\* read_file keeps the invariant when the file is given whole.
LEMMA ReadFileKeeps ==
  ASSUME ReadInv, Size <= Cap, NEW r \in Reader, Reader = {r}, NEW force \in BOOLEAN, ReadFile(r, force)
  PROVE  ReadInv'
<1> DEFINE whole == <<0, Size>>
           plan == Plan(whole, force, FALSE)
<1>1. Size \in Nat /\ Size > 0 /\ whole \in Interval /\ whole[1] = 0 /\ whole[2] = Size
  BY ReadAssumption, IntervalFacts
<1>2. ReadTypes /\ Canonical(record.iv) /\ HeldByAll /\ SearchKept
  BY DEF ReadInv
<1>3. UNCHANGED <<version, epoch, searched, found>>
  BY DEF ReadFile
<1>4. Inside(whole) = 0..(Size - 1)
  BY <1>1 DEF Inside
<1>5. CASE plan.duplicate
  <2>1. said' = Said(r, "duplicate", whole) /\ UNCHANGED <<record, held>>
    BY <1>5 DEF ReadFile
  <2>2. plan.gaps \in Seq(Interval) /\ Inside(whole) \subseteq Points(plan.gaps) \cup Points(Covered)
        /\ (Cardinality(Points(plan.gaps)) = 0 \/ Cardinality(Points(plan.gaps)) * NearDen < Length(whole))
    BY <1>1, <1>2, <1>5, PlanIs
  <2>3. Points(Covered) \subseteq held[r]
    BY <1>2, CoveredIs
  <2> HIDE DEF plan
  <2>4. Cardinality(Inside(whole) \ held[r]) * NearDen < Length(whole)
    BY <1>1, <2>2, <2>3, LittleLeft
  <2>5. said' \in Asks /\ said'.to = r /\ said'.span = whole /\ said'.how = "duplicate"
    BY <1>1, <2>1 DEF Said, Asks
  <2> HIDE DEF whole
  <2>6. ReadTypes'
    BY <1>2, <1>3, <2>1, <2>5 DEF ReadTypes
  <2>7. HeldByAll' /\ SearchKept' /\ Canonical(record.iv)'
    BY <1>2, <1>3, <2>1 DEF HeldByAll, SearchKept
  <2>8. AskedIsInContext' /\ RefusedSearchIsFresh'
    BY <2>1, <2>4, <2>5 DEF AskedIsInContext, RefusedSearchIsFresh, Inside
  <2> QED
    BY <2>6, <2>7, <2>8 DEF ReadInv
<1>6. CASE ~plan.duplicate
  <2>1. said' = Said(r, "preview", whole) /\ record' = Noted(<<whole>>)
        /\ held' = [held EXCEPT ![r] = @ \cup Preview]
    BY <1>6 DEF ReadFile
  <2> HIDE DEF plan
  <2>2. <<whole>> \in Seq(Interval) /\ Points(<<whole>>) = Inside(whole)
    BY <1>1, PointsOne
  <2>3. said' \in Asks /\ said'.how = "preview"
    BY <1>1, <2>1 DEF Said, Asks
  <2>4. /\ record' \in [of : Int, iv : Seq(Interval)]
        /\ record'.of = version /\ Canonical(record'.iv)
        /\ Points(record'.iv) = Points(Covered) \cup Inside(whole)
    BY <1>2, <2>1, <2>2, NotedIs
  <2> HIDE DEF whole
  <2>5. Preview = 0..(Size - 1)
    BY DEF Preview
  <2>6. held' \in [Reader -> SUBSET (0..(Size - 1))]
    BY <1>2, <2>1, <2>5 DEF ReadTypes
  <2>7. held'[r] = held[r] \cup (0..(Size - 1))
    BY <1>2, <2>1, <2>5 DEF ReadTypes
  <2>8. ReadTypes'
    <3>1. record'.of \in -1..version'
      BY <1>2, <1>3, <2>4 DEF ReadTypes
    <3> QED
      BY <1>2, <1>3, <2>3, <2>4, <2>6, <3>1 DEF ReadTypes
  <2>9. Points(Covered) \subseteq held[r]
    BY <1>2, CoveredIs
  <2>10. Points(record'.iv) \subseteq held'[r]
    BY <1>4, <2>4, <2>7, <2>9
  <2>11. HeldByAll' /\ SearchKept' /\ Canonical(record.iv)'
    BY <1>2, <1>3, <2>4, <2>10 DEF HeldByAll, SearchKept
  <2>12. AskedIsInContext' /\ RefusedSearchIsFresh'
    BY <2>3 DEF AskedIsInContext, RefusedSearchIsFresh
  <2> QED
    BY <2>8, <2>11, <2>12 DEF ReadInv
<1> QED
  BY <1>5, <1>6

\* read_file_range keeps it: what it leaves out is recorded, so it is held.
LEMMA ReadRangeKeeps ==
  ASSUME ReadInv, NEW r \in Reader, Reader = {r}, NEW span \in Interval, NEW force \in BOOLEAN,
         ReadRange(r, span, force)
  PROVE  ReadInv'
<1> DEFINE plan == Plan(span, force, TRUE)
<1>2. ReadTypes /\ Canonical(record.iv) /\ HeldByAll /\ SearchKept
  BY DEF ReadInv
<1>3. UNCHANGED <<version, epoch, searched, found>>
  BY DEF ReadRange
<1>4. plan.gaps \in Seq(Interval) /\ Points(plan.gaps) \subseteq Inside(span)
      /\ Inside(span) \subseteq Points(plan.gaps) \cup Points(Covered)
  BY <1>2, PlanIs
<1>5. Points(Covered) \subseteq held[r]
  BY <1>2, CoveredIs
<1>6. CASE plan.duplicate
  <2>1. said' = Said(r, "duplicate", span) /\ UNCHANGED <<record, held>>
    BY <1>6 DEF ReadRange
  <2>2. Cardinality(Points(plan.gaps)) = 0 \/ Cardinality(Points(plan.gaps)) * NearDen < Length(span)
    BY <1>2, <1>6, PlanIs
  <2> HIDE DEF plan
  <2>4. Cardinality(Inside(span) \ held[r]) * NearDen < Length(span)
    BY <1>4, <1>5, <2>2, LittleLeft
  <2>5. said' \in Asks /\ said'.to = r /\ said'.span = span /\ said'.how = "duplicate"
    BY <2>1 DEF Said, Asks
  <2>6. ReadTypes'
    BY <1>2, <1>3, <2>1, <2>5 DEF ReadTypes
  <2>7. HeldByAll' /\ SearchKept' /\ Canonical(record.iv)'
    BY <1>2, <1>3, <2>1 DEF HeldByAll, SearchKept
  <2>8. AskedIsInContext' /\ RefusedSearchIsFresh'
    BY <2>1, <2>4, <2>5 DEF AskedIsInContext, RefusedSearchIsFresh, Inside
  <2> QED
    BY <2>6, <2>7, <2>8 DEF ReadInv
<1>7. CASE ~plan.duplicate
  <2> DEFINE new == Points(plan.gaps)
  <2>1. said' = Said(r, "given", span) /\ record' = Noted(plan.gaps)
        /\ held' = [held EXCEPT ![r] = @ \cup new]
    BY <1>7 DEF ReadRange
  <2>2. new \subseteq 0..(Size - 1)
    BY <1>4, PointsOfFile
  <2>3. said' \in Asks /\ said'.to = r /\ said'.span = span /\ said'.how = "given"
    BY <2>1 DEF Said, Asks
  <2> HIDE DEF plan
  <2>4. /\ record' \in [of : Int, iv : Seq(Interval)]
        /\ record'.of = version /\ Canonical(record'.iv)
        /\ Points(record'.iv) = Points(Covered) \cup new
    BY <1>2, <1>4, <2>1, NotedIs
  <2>5. new \subseteq Inside(span) /\ Inside(span) \subseteq new \cup held[r]
    BY <1>4, <1>5
  <2> HIDE DEF new
  <2>6. held' \in [Reader -> SUBSET (0..(Size - 1))]
    BY <1>2, <2>1, <2>2 DEF ReadTypes
  <2>7. held'[r] = held[r] \cup new
    BY <1>2, <2>1 DEF ReadTypes
  <2>8. ReadTypes'
    <3>1. record'.of \in -1..version'
      BY <1>2, <1>3, <2>4 DEF ReadTypes
    <3> QED
      BY <1>2, <1>3, <2>3, <2>4, <2>6, <3>1 DEF ReadTypes
  <2>9. Points(record'.iv) \subseteq held'[r]
    BY <1>5, <2>4, <2>7
  <2>10. HeldByAll' /\ SearchKept' /\ Canonical(record.iv)'
    BY <1>2, <1>3, <2>4, <2>9 DEF HeldByAll, SearchKept
  <2>11. Cardinality(Inside(span) \ held'[r]) * NearDen < Length(span)
    <3>1. Inside(span) \subseteq Points(<<>>) \cup held'[r]
      BY <2>5, <2>7
    <3>2. <<>> \in Seq(Interval) /\ Cardinality(Points(<<>>)) = 0
      BY NoPoints, FS_EmptySet
    <3> QED
      BY <3>1, <3>2, LittleLeft
  <2>12. AskedIsInContext' /\ RefusedSearchIsFresh'
    BY <2>3, <2>11 DEF AskedIsInContext, RefusedSearchIsFresh, Inside
  <2> QED
    BY <2>8, <2>10, <2>12 DEF ReadInv
<1> QED
  BY <1>6, <1>7

\* grep_search keeps it.
LEMMA SearchKeeps ==
  ASSUME ReadInv, NEW r \in Reader, Reader = {r}, NEW force \in BOOLEAN, Search(r, force)
  PROVE  ReadInv'
<1>1. ReadTypes /\ Canonical(record.iv) /\ HeldByAll /\ SearchKept
  BY DEF ReadInv
<1>2. UNCHANGED <<version, record, held, epoch>>
  BY DEF Search
<1>3. Canonical(record.iv)' /\ HeldByAll'
  BY <1>1, <1>2 DEF HeldByAll
<1>4. epoch \in Nat /\ epoch \in 0..epoch
  BY <1>1 DEF ReadTypes
<1>5. CASE Known /\ ~force
  <2>1. said' = Said(r, "no search", epoch) /\ UNCHANGED <<searched, found>>
    BY <1>5 DEF Search
  <2>2. said' \in Searches /\ said'.how = "no search" /\ said'.to = r
    BY <1>4, <2>1 DEF Said, Searches
  <2>3. ReadTypes'
    BY <1>1, <1>2, <2>1, <2>2 DEF ReadTypes
  <2>4. SearchKept'
    BY <1>1, <1>2, <2>1 DEF SearchKept
  <2>5. AskedIsInContext'
    BY <2>2 DEF AskedIsInContext
  <2>6. RefusedSearchIsFresh'
    BY <1>1, <1>2, <1>5, <2>1, <2>2 DEF RefusedSearchIsFresh, SearchKept, Known
  <2> QED
    BY <1>3, <2>3, <2>4, <2>5, <2>6 DEF ReadInv
<1>6. CASE ~(Known /\ ~force)
  <2>1. said' = Said(r, "searched", epoch) /\ searched' = searched \cup {epoch}
        /\ found' = [found EXCEPT ![r] = epoch]
    BY <1>6 DEF Search
  <2>2. said' \in Searches /\ said'.how = "searched"
    BY <1>4, <2>1 DEF Said, Searches
  <2>3. found' \in [Reader -> -1..epoch] /\ found'[r] = epoch
    BY <1>1, <1>4, <2>1 DEF ReadTypes
  <2>4. ReadTypes'
    BY <1>1, <1>2, <1>4, <2>1, <2>2, <2>3 DEF ReadTypes
  <2>5. SearchKept'
    BY <1>2, <2>3 DEF SearchKept
  <2>6. AskedIsInContext' /\ RefusedSearchIsFresh'
    BY <2>2 DEF AskedIsInContext, RefusedSearchIsFresh
  <2> QED
    BY <1>3, <2>4, <2>5, <2>6 DEF ReadInv
<1> QED
  BY <1>5, <1>6

\* A write makes another version, about which nothing is recorded.
LEMMA WriteKeeps ==
  ASSUME ReadInv, NEW own \in BOOLEAN, Write(own)
  PROVE  ReadInv'
<1>1. ReadTypes /\ Canonical(record.iv) /\ HeldByAll /\ SearchKept
  BY DEF ReadInv
<1>2. /\ version < MaxVersion /\ version' = version + 1 /\ epoch' = Bumped(own)
      /\ held' = [r \in Reader |-> {}] /\ said' = Nothing
      /\ UNCHANGED <<record, searched, found>>
  BY DEF Write
<1>3. MaxVersion \in Nat /\ version \in Nat /\ epoch \in Nat /\ epoch <= version
  BY <1>1, ReadAssumption DEF ReadTypes
<1>4. version' \in 0..MaxVersion /\ epoch' \in 0..version' /\ (epoch' = epoch \/ epoch' = epoch + 1)
  BY <1>2, <1>3 DEF Bumped
<1>5. 0..epoch \subseteq 0..epoch' /\ -1..epoch \subseteq -1..epoch' /\ -1..version \subseteq -1..version'
  BY <1>2, <1>3, <1>4
<1>6. ReadTypes'
  <2>1. searched' \in SUBSET (0..epoch') /\ record'.of \in -1..version' /\ found' \in [Reader -> -1..epoch']
    BY <1>1, <1>2, <1>5 DEF ReadTypes
  <2>2. held' \in [Reader -> SUBSET (0..(Size - 1))]
    BY <1>2
  <2> QED
    BY <1>1, <1>2, <1>4, <2>1, <2>2 DEF ReadTypes
<1>7. Canonical(record.iv)'
  BY <1>1, <1>2
<1>8. HeldByAll'
  <2>1. record.of # version + 1
    BY <1>1, <1>3 DEF ReadTypes
  <2> QED
    BY <1>2, <2>1 DEF HeldByAll
<1>9. SearchKept'
  <2>1. epoch' = epoch + 1 => epoch' \notin searched
    BY <1>1, <1>3 DEF ReadTypes
  <2> QED
    BY <1>1, <1>2, <1>4, <2>1 DEF SearchKept
<1>10. AskedIsInContext' /\ RefusedSearchIsFresh'
  BY <1>2 DEF AskedIsInContext, RefusedSearchIsFresh, Nothing
<1> QED
  BY <1>6, <1>7, <1>8, <1>9, <1>10 DEF ReadInv

\* A fold empties the context and the record together.
LEMMA FoldContextKeeps ==
  ASSUME ReadInv, NEW r \in Reader, Reader = {r}, FoldContext(r)
  PROVE  ReadInv'
<1>1. ReadTypes
  BY DEF ReadInv
<1>2. /\ held' = [held EXCEPT ![r] = {}] /\ found' = [found EXCEPT ![r] = -1]
      /\ record' = Cleared /\ said' = Nothing /\ UNCHANGED <<version, epoch, searched>>
  BY DEF FoldContext
<1>3. Cleared.of = -1 /\ Cleared.iv = <<>> /\ Cleared \in [of : Int, iv : Seq(Interval)]
  BY NoPoints DEF Cleared
<1>4. version \in Nat /\ epoch \in Nat
  BY <1>1 DEF ReadTypes
<1>5. found' \in [Reader -> -1..epoch] /\ found'[r] = -1 /\ held' \in [Reader -> SUBSET (0..(Size - 1))]
  BY <1>1, <1>2, <1>4 DEF ReadTypes
<1>6. ReadTypes'
  BY <1>1, <1>2, <1>3, <1>4, <1>5 DEF ReadTypes
<1>7. Canonical(record.iv)'
  BY <1>2, <1>3, NoPoints DEF Canonical
<1>8. HeldByAll' /\ SearchKept'
  BY <1>2, <1>3, <1>4, <1>5 DEF HeldByAll, SearchKept
<1>9. AskedIsInContext' /\ RefusedSearchIsFresh'
  BY <1>2 DEF AskedIsInContext, RefusedSearchIsFresh, Nothing
<1> QED
  BY <1>6, <1>7, <1>8, <1>9 DEF ReadInv

\* What a conversation records of its reads is true of its context: while one
\* context reads and no file exceeds what one answer may carry, a range that is
\* refused as a repetition stands in the context up to the near share, and a
\* search is refused only while nothing was written since its result
\* (readcache.js:5-24, 103-106).
THEOREM ReadsAreSafe ==
  ASSUME NEW reader, Reader = {reader}, Size <= Cap
  PROVE  ReadSpec => []ReadsSafe
<1>1. ReadInit => ReadInv
  BY ReadStarts
<1>2. ReadInv /\ [ReadNext]_readVars => ReadInv'
  <2> SUFFICES ASSUME ReadInv, [ReadNext]_readVars PROVE ReadInv'
    OBVIOUS
  <2>1. ASSUME NEW r \in Reader, NEW force \in BOOLEAN, ReadFile(r, force) PROVE ReadInv'
    BY <2>1, ReadFileKeeps
  <2>2. ASSUME NEW r \in Reader, NEW force \in BOOLEAN, Search(r, force) PROVE ReadInv'
    BY <2>2, SearchKeeps
  <2>3. ASSUME NEW r \in Reader, NEW force \in BOOLEAN, NEW span \in Interval, ReadRange(r, span, force)
        PROVE  ReadInv'
    BY <2>3, ReadRangeKeeps
  <2>4. ASSUME NEW own \in BOOLEAN, Write(own) PROVE ReadInv'
    BY <2>4, WriteKeeps
  <2>5. ASSUME NEW r \in Reader, FoldContext(r) PROVE ReadInv'
    BY <2>5, FoldContextKeeps
  <2>6. ASSUME UNCHANGED readVars PROVE ReadInv'
    <3>1. UNCHANGED <<version, record, held, said, epoch, searched, found>>
      BY <2>6 DEF readVars
    <3>2. ReadTypes' /\ HeldByAll' /\ SearchKept' /\ Canonical(record.iv)'
      BY <3>1 DEF ReadInv, ReadTypes, HeldByAll, SearchKept
    <3>3. AskedIsInContext' /\ RefusedSearchIsFresh'
      BY <3>1 DEF ReadInv, AskedIsInContext, RefusedSearchIsFresh
    <3> QED
      BY <3>2, <3>3 DEF ReadInv
  <2> QED
    BY <2>1, <2>2, <2>3, <2>4, <2>5, <2>6 DEF ReadNext
<1>3. ReadInv => ReadsSafe
  BY ReadInvImplies
<1> QED
  BY <1>1, <1>2, <1>3, PTL DEF ReadSpec

-----------------------------------------------------------------------------
(* The ring of events.  The argument: its items are in the order of their  *)
(* numbers and lose only their first ones, so what it carries is all that  *)
(* was emitted from its first number on, and the test for a gap is exact.  *)

StreamConstants == RingMax \in Nat

Items == [lo : Nat, hi : Nat, kind : {"think", "delta", "end"}]
InItem(it, n) == it.lo <= n /\ n <= it.hi
RingInv ==
  /\ ring \in Seq(Items) /\ Len(ring) <= RingMax /\ actSeq \in Nat /\ emitted \subseteq 1..actSeq
  /\ \A k \in 1..Len(ring) : ring[k].lo <= ring[k].hi /\ ring[k].hi <= actSeq
  /\ \A k, l \in 1..Len(ring) : k < l => ring[k].hi < ring[l].lo
  /\ Len(ring) # 0 =>
       \A n \in emitted : n >= ring[1].lo => \E k \in 1..Len(ring) : InItem(ring[k], n)
  /\ client \in {"off", "live", "cut"} => cursor \in Nat

LEMMA RingIsWhole == ASSUME RingInv PROVE RingIsSuffix /\ Len(ring) <= RingMax
<1> SUFFICES ASSUME ring # <<>>, NEW n \in emitted, n >= ring[1].lo PROVE n \in Carried(ring)
  BY DEF RingIsSuffix, RingInv
<1>1. ring \in Seq(Items) /\ Len(ring) # 0 /\ DOMAIN ring = 1..Len(ring)
  BY DEF RingInv
<1>2. PICK k \in DOMAIN ring : InItem(ring[k], n)
  BY <1>1 DEF RingInv
<1>3. ring[k] \in Items /\ n \in Nat
  BY <1>1 DEF RingInv
<1>4. n \in ring[k].lo..ring[k].hi
  BY <1>2, <1>3 DEF InItem, Items
<1>5. n \in UNION {ring[l].lo..ring[l].hi : l \in DOMAIN ring}
  BY <1>4
<1> QED
  BY <1>5 DEF Carried

\* An item that is pushed may push the first one out.
LEMMA PushedIs ==
  ASSUME StreamConstants, ring \in Seq(Items), Len(ring) <= RingMax, NEW item \in Items
  PROVE  /\ Pushed(item) \in Seq(Items) /\ Len(Pushed(item)) <= RingMax
         /\ \E b \in {0, 1} :
              /\ Len(Pushed(item)) = Len(ring) + 1 - b
              /\ \A k \in 1..Len(Pushed(item)) :
                   Pushed(item)[k] = IF k + b <= Len(ring) THEN ring[k + b] ELSE item
<1> DEFINE s == Append(ring, item)
           first == IF Len(s) > RingMax THEN Len(s) - RingMax + 1 ELSE 1
<1>1. s \in Seq(Items) /\ Len(s) = Len(ring) + 1 /\ Len(ring) \in Nat
      /\ \A k \in 1..(Len(ring) + 1) : s[k] = IF k <= Len(ring) THEN ring[k] ELSE item
  OBVIOUS
<1>2. Pushed(item) = SubSeq(s, first, Len(s))
  BY DEF Pushed, LastOf
<1>3. first \in {1, 2} /\ (first = 1 => Len(s) <= RingMax) /\ (first = 2 => Len(s) <= RingMax + 1)
  BY <1>1 DEF StreamConstants
<1> HIDE DEF s, first
<1>4. /\ SubSeq(s, first, Len(s)) \in Seq(Items) /\ Len(SubSeq(s, first, Len(s))) = Len(s) + 1 - first
      /\ \A k \in 1..(Len(s) + 1 - first) : SubSeq(s, first, Len(s))[k] = s[k + first - 1]
  BY <1>1, <1>3
<1>5. first - 1 \in {0, 1} /\ Len(Pushed(item)) = Len(ring) + 1 - (first - 1)
  BY <1>1, <1>2, <1>3, <1>4
<1>6. \A k \in 1..Len(Pushed(item)) :
        Pushed(item)[k] = IF k + (first - 1) <= Len(ring) THEN ring[k + (first - 1)] ELSE item
  <2> SUFFICES ASSUME NEW k \in 1..Len(Pushed(item))
               PROVE  Pushed(item)[k] =
                        IF k + (first - 1) <= Len(ring) THEN ring[k + (first - 1)] ELSE item
    OBVIOUS
  <2>1. k \in 1..(Len(s) + 1 - first) /\ k + (first - 1) \in 1..(Len(ring) + 1)
        /\ k + first - 1 = k + (first - 1)
    BY <1>1, <1>3, <1>5
  <2>2. Pushed(item)[k] = s[k + (first - 1)]
    BY <1>2, <1>4, <2>1
  <2> QED
    BY <1>1, <2>1, <2>2
<1>7. Len(Pushed(item)) <= RingMax
  BY <1>1, <1>3, <1>5 DEF StreamConstants
<1> QED
  BY <1>2, <1>4, <1>5, <1>6, <1>7

\* A new event is pushed.
LEMMA PushKeeps ==
  ASSUME StreamConstants, RingInv, NEW kind \in {"think", "delta", "end"},
         actSeq' = actSeq + 1, emitted' = emitted \cup {actSeq + 1},
         ring' = Pushed(Item(actSeq + 1, actSeq + 1, kind)),
         client' \in {"off", "live", "cut"} => cursor' \in Nat
  PROVE  RingInv'
<1> DEFINE item == Item(actSeq + 1, actSeq + 1, kind)
<1>1. item \in Items /\ item.lo = actSeq + 1 /\ item.hi = actSeq + 1 /\ actSeq \in Nat
  BY DEF Item, Items, RingInv
<1> HIDE DEF item
<1>2. ring' \in Seq(Items) /\ Len(ring') <= RingMax /\ ring' = Pushed(item)
  BY <1>1, PushedIs DEF item, RingInv
<1>3. PICK b \in {0, 1} :
        /\ Len(ring') = Len(ring) + 1 - b
        /\ \A k \in 1..Len(ring') : ring'[k] = IF k + b <= Len(ring) THEN ring[k + b] ELSE item
  BY <1>1, <1>2, PushedIs DEF RingInv
<1>4. Len(ring) \in Nat /\ \A k \in 1..Len(ring) : ring[k] \in Items
  BY DEF RingInv
<1>5. ASSUME NEW k \in 1..Len(ring')
      PROVE  /\ ring'[k].lo <= ring'[k].hi /\ ring'[k].hi <= actSeq'
             /\ k + b <= Len(ring) => ring'[k] = ring[k + b] /\ k + b \in 1..Len(ring)
             /\ ~(k + b <= Len(ring)) => ring'[k] = item
  <2>1. CASE k + b <= Len(ring)
    <3>1. k + b \in 1..Len(ring) /\ ring'[k] = ring[k + b]
      BY <1>3, <1>4, <2>1
    <3>2. ring[k + b].lo <= ring[k + b].hi /\ ring[k + b].hi <= actSeq /\ ring[k + b].hi \in Nat
      BY <1>4, <3>1 DEF RingInv, Items
    <3> QED
      BY <1>1, <2>1, <3>1, <3>2
  <2>2. CASE ~(k + b <= Len(ring))
    <3>1. ring'[k] = item
      BY <1>3, <2>2
    <3> QED
      BY <1>1, <2>2, <3>1
  <2> QED
    BY <2>1, <2>2
<1>6. ASSUME NEW k \in 1..Len(ring'), NEW l \in 1..Len(ring'), k < l
      PROVE  ring'[k].hi < ring'[l].lo
  <2>1. k + b <= Len(ring) /\ ring'[k] = ring[k + b] /\ k + b \in 1..Len(ring)
    <3>1. k + b <= Len(ring)
      BY <1>3, <1>4, <1>6
    <3> QED
      BY <1>5, <3>1
  <2>2. ring[k + b].hi \in Nat /\ ring[k + b].hi <= actSeq
    BY <1>4, <2>1 DEF RingInv, Items
  <2>3. CASE l + b <= Len(ring)
    <3>1. ring'[l] = ring[l + b] /\ l + b \in 1..Len(ring) /\ k + b < l + b
      BY <1>3, <1>5, <1>6, <2>3
    <3> QED
      BY <2>1, <3>1 DEF RingInv
  <2>4. CASE ~(l + b <= Len(ring))
    <3>1. ring'[l] = item
      BY <1>5, <2>4
    <3> QED
      BY <1>1, <2>1, <2>2, <3>1
  <2> QED
    BY <2>3, <2>4
<1>7. ASSUME Len(ring') # 0, NEW n \in emitted', n >= ring'[1].lo
      PROVE  \E k \in 1..Len(ring') : InItem(ring'[k], n)
  <2>1. CASE n = actSeq + 1
    <3>1. Len(ring') \in 1..Len(ring') /\ ring'[Len(ring')] = item
      BY <1>3, <1>4, <1>7
    <3> QED
      BY <1>1, <2>1, <3>1 DEF InItem
  <2>2. CASE n \in emitted
    <3>1. n \in Nat /\ n <= actSeq
      BY <2>2 DEF RingInv
    <3>2. Len(ring) >= 1 + b /\ ring'[1] = ring[1 + b]
      BY <1>1, <1>3, <1>4, <1>7, <3>1
    <3>3. n >= ring[1].lo
      <4>1. 1 \in 1..Len(ring) /\ 1 + b \in 1..Len(ring)
        BY <1>3, <1>4, <3>2
      <4>2. ring[1].lo <= ring[1].hi /\ ring[1] \in Items /\ ring[1 + b] \in Items
        BY <1>4, <4>1 DEF RingInv
      <4>3. b = 0 \/ ring[1].hi < ring[1 + b].lo
        BY <1>3, <4>1 DEF RingInv
      <4> QED
        BY <1>3, <1>7, <3>1, <3>2, <4>2, <4>3 DEF Items
    <3>4. PICK k \in 1..Len(ring) : InItem(ring[k], n)
      BY <2>2, <3>2, <3>3, <1>3 DEF RingInv
    <3>5. k >= 1 + b
      <4> SUFFICES ASSUME b = 1, k = 1 PROVE FALSE
        BY <1>3, <1>4, <3>4
      <4>1. 2 \in 1..Len(ring) /\ ring[k].hi < ring[2].lo
        BY <1>4, <3>2 DEF RingInv
      <4>2. ring[k] \in Items /\ ring[2] \in Items /\ n >= ring[2].lo /\ n <= ring[k].hi
        BY <1>4, <1>7, <3>2, <3>4, <4>1 DEF InItem
      <4> QED
        BY <3>1, <4>1, <4>2 DEF Items
    <3>6. k - b \in 1..Len(ring') /\ ring'[k - b] = ring[k]
      <4>1. k - b \in 1..Len(ring') /\ (k - b) + b = k /\ (k - b) + b <= Len(ring)
        BY <1>3, <1>4, <3>4, <3>5
      <4> QED
        BY <1>5, <4>1
    <3> QED
      BY <3>4, <3>6
  <2> QED
    BY <1>7, <2>1, <2>2
<1>8. actSeq' \in Nat /\ emitted' \subseteq 1..actSeq'
  BY <1>1 DEF RingInv
<1> QED
  BY <1>2, <1>5, <1>6, <1>7, <1>8 DEF RingInv

\* A thought is merged into the one before it.
LEMMA MergeKeeps ==
  ASSUME StreamConstants, RingInv, ring # <<>>,
         actSeq' = actSeq + 1, emitted' = emitted \cup {actSeq + 1},
         ring' = Merged(actSeq + 1),
         client' \in {"off", "live", "cut"} => cursor' \in Nat
  PROVE  RingInv'
<1> DEFINE last == Len(ring)
<1>1. /\ ring \in Seq(Items) /\ actSeq \in Nat /\ last \in 1..last
      /\ \A k \in 1..last : ring[k] \in Items
  BY DEF RingInv
<1>2. ring[last] \in Items /\ ring[last].lo <= ring[last].hi /\ ring[last].hi <= actSeq
  BY <1>1 DEF RingInv
<1> DEFINE grown == [ring[last] EXCEPT !.hi = actSeq + 1]
<1>3. grown \in Items /\ grown.lo = ring[last].lo /\ grown.hi = actSeq + 1
  BY <1>1, <1>2 DEF Items
<1>4. ring' = [ring EXCEPT ![last] = grown]
  BY DEF Merged
<1> HIDE DEF grown
<1>5. /\ ring' \in Seq(Items) /\ Len(ring') = last
      /\ \A k \in 1..last : ring'[k] = IF k = last THEN grown ELSE ring[k]
  BY <1>1, <1>3, <1>4
<1> HIDE DEF last
<1>6. \A k \in 1..last : /\ ring'[k].lo = ring[k].lo
                         /\ ring[k].lo <= ring[k].hi /\ ring[k].hi <= ring'[k].hi
                         /\ ring'[k].hi <= actSeq + 1 /\ (k # last => ring'[k] = ring[k])
  <2> SUFFICES ASSUME NEW k \in 1..last
               PROVE  /\ ring'[k].lo = ring[k].lo
                      /\ ring[k].lo <= ring[k].hi /\ ring[k].hi <= ring'[k].hi
                      /\ ring'[k].hi <= actSeq + 1 /\ (k # last => ring'[k] = ring[k])
    OBVIOUS
  <2>1. ring[k].lo <= ring[k].hi /\ ring[k].hi <= actSeq /\ ring[k] \in Items
    BY <1>1 DEF RingInv, last
  <2>2. CASE k = last
    <3>1. ring'[k] = grown /\ ring[k] = ring[last]
      BY <1>5, <2>2
    <3>2. /\ ring[k].lo \in Nat /\ ring[k].hi \in Nat /\ actSeq \in Nat
          /\ ring[k].lo = grown.lo /\ grown.hi = actSeq + 1
      BY <1>1, <1>3, <2>1, <3>1 DEF Items
    <3> QED
      BY <2>1, <2>2, <3>1, <3>2
  <2>3. CASE k # last
    <3>1. ring'[k] = ring[k]
      BY <1>5, <2>3
    <3> QED
      BY <1>1, <2>1, <2>3, <3>1 DEF Items
  <2> QED
    BY <2>2, <2>3
<1>7. \A k \in 1..last : ring'[k].lo <= ring'[k].hi /\ ring'[k].hi <= actSeq'
  <2> SUFFICES ASSUME NEW k \in 1..last PROVE ring'[k].lo <= ring'[k].hi /\ ring'[k].hi <= actSeq'
    OBVIOUS
  <2>1. ring[k] \in Items /\ ring'[k] \in Items
    BY <1>1, <1>5
  <2> QED
    BY <1>6, <2>1 DEF Items
<1>8. \A k, l \in 1..last : k < l => ring'[k].hi < ring'[l].lo
  <2> SUFFICES ASSUME NEW k \in 1..last, NEW l \in 1..last, k < l PROVE ring'[k].hi < ring'[l].lo
    OBVIOUS
  <2>1. k # last /\ ring[k].hi < ring[l].lo
    BY <1>1 DEF RingInv, last
  <2> QED
    BY <1>6, <2>1
<1>9. ASSUME NEW n \in emitted', n >= ring'[1].lo
      PROVE  \E k \in 1..last : InItem(ring'[k], n)
  <2>1. CASE n = actSeq + 1
    <3>1. last \in 1..last /\ ring'[last] = grown
      BY <1>1, <1>5
    <3>2. grown.lo <= n /\ n <= grown.hi
      BY <1>1, <1>2, <1>3, <2>1 DEF Items
    <3> QED
      BY <3>1, <3>2 DEF InItem
  <2>2. CASE n \in emitted
    <3>1. 1 \in 1..last /\ n >= ring[1].lo
      BY <1>1, <1>6, <1>9
    <3>2. PICK k \in 1..last : InItem(ring[k], n)
      BY <1>1, <2>2, <3>1 DEF RingInv, last
    <3>3. n \in Nat /\ ring[k] \in Items /\ ring'[k] \in Items
      BY <1>1, <1>5, <2>2, <3>2 DEF RingInv
    <3> QED
      BY <1>6, <3>2, <3>3 DEF InItem, Items
  <2> QED
    BY <1>9, <2>1, <2>2
<1>10. actSeq' \in Nat /\ emitted' \subseteq 1..actSeq' /\ Len(ring') <= RingMax
  BY <1>1, <1>5 DEF RingInv, last
<1> QED
  BY <1>5, <1>7, <1>8, <1>9, <1>10 DEF RingInv

\* The ring is left alone; other conversations may take numbers.
LEMMA RestKeeps ==
  ASSUME RingInv, UNCHANGED <<ring, emitted>>, actSeq' \in {actSeq, actSeq + 1},
         client' \in {"off", "live", "cut"} => cursor' \in Nat
  PROVE  RingInv'
<1>1. actSeq \in Nat /\ actSeq' \in Nat /\ actSeq <= actSeq'
  BY DEF RingInv
<1>2. emitted' \subseteq 1..actSeq'
  BY <1>1 DEF RingInv
<1>3. \A k \in 1..Len(ring') : ring'[k].lo <= ring'[k].hi /\ ring'[k].hi <= actSeq'
  <2> SUFFICES ASSUME NEW k \in 1..Len(ring)
               PROVE  ring[k].lo <= ring[k].hi /\ ring[k].hi <= actSeq'
    OBVIOUS
  <2>1. ring[k].lo <= ring[k].hi /\ ring[k].hi <= actSeq /\ ring[k] \in Items
    BY DEF RingInv
  <2> QED
    BY <1>1, <2>1 DEF Items
<1> QED
  BY <1>1, <1>2, <1>3 DEF RingInv

LEMMA EndKeeps ==
  ASSUME StreamConstants, RingInv, RingEnds,
         client' \in {"off", "live", "cut"} => cursor' \in Nat
  PROVE  RingInv'
<1>1. CASE ring = <<>>
  BY <1>1, RestKeeps DEF RingEnds
<1>2. CASE ring # <<>>
  BY <1>2, PushKeeps DEF RingEnds
<1> QED
  BY <1>1, <1>2

\* A client that resumes without a gap finds all that came behind its place.
LEMMA ResumeIsTrue ==
  ASSUME RingInv, Resume PROVE HelloIsTrue
<1> SUFFICES ASSUME client' = "follow", cursor > 0, NEW n \in emitted, n > cursor
             PROVE  n \in Carried(ring)
  BY DEF HelloIsTrue
<1>1. ring # <<>> /\ ~(cursor + 1 < ring[1].hi) /\ cursor \in Nat
  BY DEF Resume, StreamGap, RingInv
<1>2. ring[1] \in Items /\ ring[1].lo <= ring[1].hi /\ n \in Nat
  BY <1>1 DEF RingInv
<1>3. n >= ring[1].lo
  BY <1>1, <1>2 DEF Items
<1> QED
  BY <1>1, <1>3, RingIsWhole DEF RingIsSuffix

LEMMA StreamStep ==
  ASSUME StreamConstants, RingInv, [StreamNext]_streamVars
  PROVE  RingInv' /\ HelloIsTrue
<1>1. ASSUME NEW mine \in BOOLEAN, BeginRun(mine) PROVE RingInv' /\ HelloIsTrue
  <2>1. client' \in {"off", "live", "cut"} => cursor' \in Nat
    BY <1>1 DEF BeginRun, RingInv
  <2>2. client' # "follow" \/ client # "cut"
    BY <1>1 DEF BeginRun
  <2> QED
    BY <1>1, <2>1, <2>2, RestKeeps DEF BeginRun, HelloIsTrue
<1>2. ASSUME NEW kind \in {"think", "delta"}, NEW close \in BOOLEAN, Emit(kind, close)
      PROVE  RingInv' /\ HelloIsTrue
  <2>1. actSeq' = actSeq + 1 /\ emitted' = emitted \cup {actSeq + 1} /\ actSeq' \in Nat
    BY <1>2 DEF Emit, RingInv
  <2>2. (client' \in {"off", "live", "cut"} => cursor' \in Nat) /\ client' = client
    BY <1>2, <2>1 DEF Emit, Receive, view, RingInv
  <2>3. \/ ring # <<>> /\ ring' = Merged(actSeq + 1)
        \/ ring' = Pushed(Item(actSeq + 1, actSeq + 1, kind))
    BY <1>2 DEF Emit
  <2> QED
    BY <2>1, <2>2, <2>3, MergeKeeps, PushKeeps DEF HelloIsTrue
<1>3. ASSUME \E final \in Final : Concluded(final) PROVE RingInv' /\ HelloIsTrue
  <2>1. PICK final \in Final : Concluded(final)
    BY <1>3
  <2>2. /\ client' \in {"off", "live", "cut"} => cursor' \in Nat
        /\ client' # "follow" \/ client # "cut"
    BY <2>1 DEF Concluded, view, RingInv
  <2> QED
    BY <2>1, <2>2, EndKeeps DEF Concluded, HelloIsTrue
<1>4. CASE Broken
  <2>1. /\ client' \in {"off", "live", "cut"} => cursor' \in Nat
        /\ client' # "follow" \/ client # "cut"
    BY <1>4 DEF Broken, RingInv
  <2> QED
    BY <1>4, <2>1, EndKeeps DEF Broken, HelloIsTrue
<1>5. CASE Recycle
  <2>1. ring' = <<>> /\ ring' \in Seq(Items) /\ Len(ring') = 0
    BY <1>5 DEF Recycle
  <2>2. actSeq' = actSeq /\ emitted' = emitted /\ client' = client /\ cursor' = cursor
    BY <1>5 DEF Recycle, view
  <2> QED
    BY <2>1, <2>2 DEF RingInv, StreamConstants, HelloIsTrue
<1>6. CASE NextRound \/ Elsewhere
  BY <1>6, RestKeeps DEF NextRound, Elsewhere, view, HelloIsTrue, RingInv
<1>7. CASE Cut \/ Resume
  <2>1. RingInv'
    BY <1>7, RestKeeps DEF Cut, Resume, server, RingInv
  <2>2. CASE Cut
    BY <2>1, <2>2 DEF Cut, HelloIsTrue
  <2> QED
    BY <1>7, <2>1, <2>2, ResumeIsTrue
<1>8. CASE Pump
  <2>1. client' \in {"follow", "over"} /\ client = "follow"
        /\ UNCHANGED <<ring, emitted, actSeq>>
    BY <1>8 DEF Pump, server
  <2> QED
    BY <2>1, RestKeeps DEF HelloIsTrue
<1>9. CASE UNCHANGED streamVars
  BY <1>9, RestKeeps DEF streamVars, server, view, HelloIsTrue, RingInv
<1> QED
  BY <1>1, <1>2, <1>3, <1>4, <1>5, <1>6, <1>7, <1>8, <1>9 DEF StreamNext

\* Behind its first event the ring has all of them, for every limit and every
\* way its pages and its runs interleave (emitEv, clearActivity).
THEOREM RingIsKept == ASSUME StreamConstants PROVE StreamSpec => [](RingIsSuffix /\ Len(ring) <= RingMax)
<1>1. ASSUME StreamInit PROVE RingInv
  BY <1>1 DEF StreamInit, RingInv, StreamConstants
<1>2. RingInv /\ [StreamNext]_streamVars => RingInv'
  BY StreamStep
<1>3. RingInv => RingIsSuffix /\ Len(ring) <= RingMax
  BY RingIsWhole
<1> QED
  BY <1>1, <1>2, <1>3, PTL DEF StreamSpec

\* The first frame of a resumed stream tells the truth (streamGap).
THEOREM ResumesTruly == ASSUME StreamConstants PROVE StreamSpec => [][HelloIsTrue]_streamVars
<1>1. ASSUME StreamInit PROVE RingInv
  BY <1>1 DEF StreamInit, RingInv, StreamConstants
<1>2. RingInv /\ [StreamNext]_streamVars => RingInv' /\ [HelloIsTrue]_streamVars
  BY StreamStep
<1> QED
  BY <1>1, <1>2, PTL DEF StreamSpec
=============================================================================
