------------------------ MODULE ContractDriverProofs ------------------------
(***************************************************************************)
(* Proofs about the task-contract driver: what holds of the running set,   *)
(* the concurrency limit and the waiting and finished contracts for any    *)
(* number of contracts, call slots and overlapping ticks; and of the file  *)
(* the rows of a server without a database are saved in, for any number of *)
(* writers, batches and deaths; and of a release and the report it is      *)
(* judged against, for any number of collections, changes and faults.      *)
(***************************************************************************)
EXTENDS ContractDriver, JsonStore, Release, FiniteSetTheorems, TLAPS

-----------------------------------------------------------------------------
(* Well-typed writes.                                                      *)

LEMMA TopType == AttemptsTop \in Nat /\ 0 \in 0..AttemptsTop
BY DriverAssumption DEF AttemptsTop

LEMMA BumpType ==
  ASSUME NEW n \in 0..AttemptsTop
  PROVE  Bump(n) \in 0..AttemptsTop
BY TopType DEF Bump

\* A write to an existing row keeps the table well typed.
LEMMA UpdateType ==
  ASSUME TypeOK, NEW c \in Contract, NEW r \in Row, Update(c, r)
  PROVE  row' \in [Contract -> Row]
<1>1. [r EXCEPT !.fresh = TRUE] \in Row  BY DEF Row
<1> QED  BY <1>1 DEF TypeOK, Update

LEMMA SetStatusType ==
  ASSUME TypeOK, NEW c \in Contract, NEW st \in Status, setStatus(c, st)
  PROVE  row' \in [Contract -> Row]
<1>1. [row[c] EXCEPT !.status = st] \in Row  BY DEF TypeOK, Row
<1> QED  BY <1>1, UpdateType DEF setStatus

LEMMA SetStatusAttemptsType ==
  ASSUME TypeOK, NEW c \in Contract, NEW st \in Status, NEW n \in 0..AttemptsTop,
         setStatusAttempts(c, st, n)
  PROVE  row' \in [Contract -> Row]
<1>1. [row[c] EXCEPT !.status = st, !.attempts = n] \in Row  BY DEF TypeOK, Row
<1> QED  BY <1>1, UpdateType DEF setStatusAttempts

LEMMA NeedInputType ==
  ASSUME TypeOK, NEW c \in Contract, NEW k \in AskKind, needInput(c, k)
  PROVE  row' \in [Contract -> Row]
<1>1. [row[c] EXCEPT !.status = "need_input", !.ask = k] \in Row
  BY DEF TypeOK, Row, Status
<1> QED  BY <1>1, UpdateType DEF needInput

LEMMA StepType ==
  ASSUME TypeOK, NEW s \in Slot, NEW from, NEW to \in DrivePc, Step(s, from, to)
  PROVE  drive' \in [Slot -> DriveRec]
<1>1. [drive[s] EXCEPT !.pc = to] \in DriveRec  BY DEF TypeOK, DriveRec
<1> QED  BY <1>1 DEF TypeOK, Step

\* A round is executed for a contract, never for the 0 of a free slot.
ActiveHasContract == \A s \in Active : drive[s].id \in Contract

TypeInv == TypeOK /\ ActiveHasContract

LEMMA TypeInit == Init => TypeInv
<1>1. NoRow \in Row  BY TopType DEF NoRow, Row, Status, AskKind
<1>2. Free \in DriveRec
  BY TopType DEF Free, DriveRec, DrivePc, Hold, Status
<1>3. TickIdle \in TickRec  BY DEF TickIdle, TickRec
<1>4. Init => TypeOK
  BY <1>1, <1>2, <1>3, DriverAssumption DEF Init, TypeOK
<1>5. Init => ActiveHasContract  BY DEF Init, ActiveHasContract, Active, Free
<1> QED  BY <1>4, <1>5 DEF TypeInv

-----------------------------------------------------------------------------
(* Type correctness, by the kind of action.                                *)

LEMMA SameDrive ==
  ASSUME ActiveHasContract, drive' = drive
  PROVE  ActiveHasContract'
BY DEF ActiveHasContract, Active

LEMMA UserType ==
  ASSUME TypeInv, NEW c \in Contract, UserNext(c)
  PROVE  TypeInv'
<1> USE DEF TypeInv
<1>1. CASE \E atOnce \in BOOLEAN : Create(c, atOnce)
  <2>1. [row[c] EXCEPT !.status = "queued"] \in Row  BY DEF TypeOK, Row, Status
  <2>2. row' \in [Contract -> Row] /\ ripe' \subseteq Contract
    BY <1>1, <2>1 DEF Create, TypeOK
  <2>3. UNCHANGED <<conv, orphans, running, tick, drive, crashes, userVars>>
    BY <1>1 DEF Create
  <2> QED  BY <2>2, <2>3, SameDrive DEF TypeOK, userVars
<1>2. CASE RunAtArrives(c)
  BY <1>2, SameDrive DEF RunAtArrives, TypeOK, userVars
<1>3. CASE ListContracts(c)
  <2>1. seen' \in [Contract -> {"none", "need_input", "candidate_done"}]
    BY <1>3 DEF ListContracts, TypeOK
  <2> QED  BY <1>3, <2>1, SameDrive DEF ListContracts, TypeOK, dbVars
<1>4. CASE \E decision \in {"accept", "reject"} : confirm(c, decision)
  <2>1. [row[c] EXCEPT !.status = "done"] \in Row  BY DEF TypeOK, Row, Status
  <2>2. [row[c] EXCEPT !.status = "queued", !.attempts = 0] \in Row
    <3>1. row[c] \in Row /\ "queued" \in Status  BY DEF TypeOK, Status
    <3> QED  BY <3>1, TopType DEF Row
  <2>3. row' \in [Contract -> Row]
    BY <1>4, <2>1, <2>2, UpdateType DEF confirm
  <2>4. calls' \in 0..MaxCalls
    BY <1>4, DriverAssumption DEF confirm, Call, TypeOK
  <2>5. UNCHANGED <<ripe, conv, orphans, seen, reading, running, tick, drive, crashes>>
    BY <1>4 DEF confirm
  <2> QED  BY <2>3, <2>4, <2>5, SameDrive DEF TypeOK
<1>5. CASE answerRead(c)
  <2>1. row[c].ask \in AskKind  BY DEF TypeOK, Row
  <2>2. calls' \in 0..MaxCalls
    BY <1>5, DriverAssumption DEF answerRead, Call, TypeOK
  <2>3. reading' \in [Contract -> {"idle"} \cup AskKind]
    BY <1>5, <2>1 DEF answerRead, TypeOK
  <2> QED  BY <1>5, <2>2, <2>3, SameDrive DEF answerRead, TypeOK, dbVars
<1>6. CASE \E goOn \in BOOLEAN : answerWrite(c, goOn)
  <2>1. PICK goOn \in BOOLEAN : answerWrite(c, goOn)  BY <1>6
  <2>2. AnswerRow(c, goOn) \in Row
    <3>1. row[c] \in Row /\ {"queued", "candidate_done"} \subseteq Status /\ "none" \in AskKind
      BY DEF TypeOK, Status, AskKind
    <3> QED  BY <3>1, TopType DEF AnswerRow, Row
  <2>3. row' \in [Contract -> Row]  BY <2>1, <2>2, UpdateType DEF answerWrite
  <2> QED  BY <2>1, <2>3, SameDrive DEF answerWrite, TypeOK
<1>7. CASE deleteConversation(c)
  <2>1. [NoRow EXCEPT !.status = "deleted"] \in Row
    <3>1. "deleted" \in Status /\ "none" \in AskKind  BY DEF Status, AskKind
    <3> QED  BY <3>1, TopType DEF NoRow, Row
  <2>2. \A h \in Hold : Lose(h) \in Hold  BY DEF Lose, Hold
  <2>3. \A s \in Slot : [drive[s] EXCEPT !.hold = Lose(@)] \in DriveRec
    BY <2>2 DEF TypeOK, DriveRec
  <2>4. drive' \in [Slot -> DriveRec]
    BY <1>7, <2>3 DEF deleteConversation, TypeOK
  <2>5. \A d \in Due : [d EXCEPT !.hold = Lose(@)] \in Due  BY <2>2 DEF Due
  <2>6. \A t \in Ticker :
          [tick[t] EXCEPT !.due =
             {IF d.id = c THEN [d EXCEPT !.hold = Lose(@)] ELSE d : d \in @}] \in TickRec
    BY <2>5 DEF TypeOK, TickRec
  <2>7. tick' \in [Ticker -> TickRec]  BY <1>7, <2>6 DEF deleteConversation
  <2>8. \A s \in Slot : drive'[s].id = drive[s].id /\ drive'[s].pc = drive[s].pc
    BY <1>7 DEF deleteConversation, TypeOK, DriveRec
  <2>9. ActiveHasContract'  BY <2>8 DEF ActiveHasContract, Active
  <2>10. row' \in [Contract -> Row]  BY <1>7, <2>1 DEF deleteConversation, TypeOK
  <2>11. calls' \in 0..MaxCalls
    BY <1>7, DriverAssumption DEF deleteConversation, Call, TypeOK
  <2>12. conv' \in [Contract -> {"none", "open", "deleted"}]
    BY <1>7 DEF deleteConversation, TypeOK
  <2> QED  BY <1>7, <2>4, <2>7, <2>9, <2>10, <2>11, <2>12
           DEF deleteConversation, TypeOK
<1>8. CASE Age(c)
  <2>1. [row[c] EXCEPT !.fresh = FALSE] \in Row  BY DEF TypeOK, Row
  <2> QED  BY <1>8, <2>1, SameDrive DEF Age, TypeOK, userVars
<1> QED
  BY UserNext(c), <1>1, <1>2, <1>3, <1>4, <1>5, <1>6, <1>7, <1>8 DEF UserNext

LEMMA DueRowsType == TypeOK => DueRows \subseteq Due
<1> SUFFICES ASSUME TypeOK PROVE DueRows \subseteq Due  OBVIOUS
<1>1. \A c \in Contract : row[c].attempts \in 0..AttemptsTop  BY DEF TypeOK, Row
<1>2. Ready \subseteq Contract  BY DEF Ready, TypeOK
<1>3. SUFFICES ASSUME NEW c \in Contract
               PROVE  [id |-> c, hold |-> IF conv[c] = "open" THEN "held" ELSE "unset",
                       attempts |-> row[c].attempts] \in Due
  BY <1>2 DEF DueRows
<1> QED  BY <1>1 DEF Due, Hold

\* What entering a round does to the slots, and that it is well typed.
LEMMA EnterType ==
  ASSUME TypeInv, NEW s \in Slot, NEW d \in Due, Enter(s, d)
  PROVE  /\ running' \subseteq Contract
         /\ drive' \in [Slot -> DriveRec]
         /\ ActiveHasContract'
<1> DEFINE r == [Free EXCEPT !.pc = "claim", !.id = d.id, !.hold = d.hold,
                            !.attempts = d.attempts]
<1>1. d.id \in Contract /\ d.hold \in Hold /\ d.attempts \in 0..AttemptsTop  BY DEF Due
<1>2. "claim" \in DrivePc /\ "queued" \in Status  BY DEF DrivePc, Status
<1>3. r \in DriveRec /\ r.id = d.id  BY <1>1, <1>2 DEF Free, DriveRec
<1>4. drive' = [drive EXCEPT ![s] = r] /\ running' = running \cup {d.id}  BY DEF Enter
<1> HIDE DEF r
<1>5. running' \subseteq Contract /\ drive' \in [Slot -> DriveRec]
  BY <1>1, <1>3, <1>4 DEF TypeInv, TypeOK
<1>6. \A q \in Slot : drive'[q] = IF q = s THEN r ELSE drive[q]
  BY <1>4 DEF TypeInv, TypeOK
<1>7. ActiveHasContract'  BY <1>1, <1>3, <1>6 DEF TypeInv, ActiveHasContract, Active
<1> QED  BY <1>5, <1>7

LEMMA TickType ==
  ASSUME TypeInv, NEW t \in Ticker, TickNext(t)
  PROVE  TypeInv'
<1> USE DEF TypeInv
<1>0. tick[t] \in TickRec  BY DEF TypeOK
<1>1. CASE TickStart(t)
  <2>1. [tick[t] EXCEPT !.pc = "recover"] \in TickRec  BY <1>0 DEF TickRec
  <2>2. tick' \in [Ticker -> TickRec]  BY <1>1, <2>1 DEF TickStart, TypeOK
  <2> QED  BY <1>1, <2>2, SameDrive DEF TickStart, TypeOK, dbVars, userVars
<1>2. CASE TickRecover(t)
  <2>1. [tick[t] EXCEPT !.pc = "select"] \in TickRec  BY <1>0 DEF TickRec
  <2>2. tick' \in [Ticker -> TickRec]  BY <1>2, <2>1 DEF TickRecover, TypeOK
  <2>3. \A c \in Contract : [row[c] EXCEPT !.status = "queued", !.fresh = TRUE] \in Row
    <3>1. \A c \in Contract : row[c] \in Row  BY DEF TypeOK
    <3> QED  BY <3>1 DEF Row, Status
  <2>4. row' \in [Contract -> Row]  BY <1>2, <2>3 DEF TickRecover, TypeOK
  <2> QED  BY <1>2, <2>2, <2>4, SameDrive DEF TickRecover, TypeOK, userVars
<1>3. CASE TickSelect(t)
  <2>1. [pc |-> "loop", due |-> DueRows] \in TickRec  BY DueRowsType DEF TickRec
  <2>2. tick' \in [Ticker -> TickRec]  BY <1>3, <2>1 DEF TickSelect, TypeOK
  <2> QED  BY <1>3, <2>2, SameDrive DEF TickSelect, TypeOK, dbVars, userVars
<1>4. CASE TickDrive(t)
  <2>1. PICK d \in First(tick[t].due) :
          /\ tick' = [tick EXCEPT ![t].due = @ \ {d}]
          /\ \/ \E s \in Slot : driveContract(s, d)
             \/ d.id \in running /\ UNCHANGED <<running, drive>>
    BY <1>4 DEF TickDrive
  <2>2. tick[t].due \subseteq Due /\ d \in Due  BY <1>0, <2>1 DEF TickRec, First
  <2>3. [tick[t] EXCEPT !.due = @ \ {d}] \in TickRec  BY <1>0, <2>2 DEF TickRec
  <2>4. tick' \in [Ticker -> TickRec]  BY <2>1, <2>3 DEF TypeOK
  <2>5. /\ running' \subseteq Contract
        /\ drive' \in [Slot -> DriveRec]
        /\ ActiveHasContract'
    <3>1. CASE \E s \in Slot : driveContract(s, d)
      BY <2>2, <3>1, EnterType DEF driveContract
    <3>2. CASE UNCHANGED <<running, drive>>
      BY <3>2, SameDrive DEF TypeOK
    <3> QED  BY <2>1, <3>1, <3>2
  <2>6. UNCHANGED <<dbVars, userVars, crashes>>  BY <1>4 DEF TickDrive
  <2> QED  BY <2>4, <2>5, <2>6 DEF TypeOK, dbVars, userVars
<1>5. CASE TickEnd(t)
  <2>1. TickIdle \in TickRec  BY DEF TickIdle, TickRec
  <2>2. tick' \in [Ticker -> TickRec]  BY <1>5, <2>1 DEF TickEnd, TypeOK
  <2> QED  BY <1>5, <2>2, SameDrive DEF TickEnd, TypeOK, dbVars, userVars
<1> QED
  BY TickNext(t), <1>1, <1>2, <1>3, <1>4, <1>5 DEF TickNext

-----------------------------------------------------------------------------
(* The steps inside a round: who is active, and for whom, does not change. *)

SameRounds ==
  /\ running' = running
  /\ \A s \in Slot : drive'[s].id = drive[s].id
  /\ \A s \in Slot : drive'[s].pc = "free" <=> drive[s].pc = "free"

LEMMA SameRoundsActive ==
  ASSUME SameRounds
  PROVE  /\ Active' = Active
         /\ \A s \in Active : drive'[s].id = drive[s].id
BY DEF SameRounds, Active

LEMMA StepSame ==
  ASSUME TypeOK, NEW s \in Slot, NEW from, NEW to, from # "free", to # "free",
         Step(s, from, to), running' = running
  PROVE  SameRounds
<1> DEFINE r == [drive[s] EXCEPT !.pc = to]
<1>1. drive[s] \in DriveRec /\ drive[s].pc # "free"  BY DEF TypeOK, Step
<1>2. r.id = drive[s].id /\ r.pc = to  BY <1>1 DEF DriveRec
<1>3. drive' = [drive EXCEPT ![s] = r]  BY DEF Step
<1> HIDE DEF r
<1> QED  BY <1>1, <1>2, <1>3 DEF TypeOK, SameRounds

LEMMA ActiveContract ==
  ASSUME TypeInv, NEW s \in Slot, drive[s].pc # "free"
  PROVE  /\ drive[s].id \in Contract
         /\ drive[s] \in DriveRec
         /\ drive[s].attempts \in 0..AttemptsTop
         /\ Bump(drive[s].attempts) \in 0..AttemptsTop
<1>1. drive[s] \in DriveRec  BY DEF TypeInv, TypeOK
<1>2. drive[s].attempts \in 0..AttemptsTop  BY <1>1 DEF DriveRec
<1> QED  BY <1>1, <1>2, BumpType DEF TypeInv, ActiveHasContract, Active

LEMMA SameRoundsHas ==
  ASSUME ActiveHasContract, SameRounds
  PROVE  ActiveHasContract'
BY SameRoundsActive DEF ActiveHasContract

\* Every step of a round but the last keeps types and the assignment of slots.
RoundStep(s) ==
  \/ Claim(s) \/ findOrCreateConv(s)
  \/ AgentEnd(s) \/ Refresh(s) \/ Asked(s)
  \/ \E pass \in BOOLEAN : Accept(s, pass)
  \/ Conclude(s) \/ Cap(s) \/ Catch(s)
  \/ AgentNext(s)

LEMMA RoundStepType ==
  ASSUME TypeInv, NEW s \in Slot, RoundStep(s)
  PROVE  TypeInv' /\ SameRounds
<1> USE DEF TypeInv
<1>a. \A x \in DrivePc : drive[s].pc = x /\ x # "free" => drive[s].id \in Contract
  BY ActiveContract
<1>b. SUFFICES TypeOK' /\ SameRounds  BY SameRoundsHas
<1>p. {"claim", "conv", "agent", "refresh", "asked", "accept", "conclude", "cap",
       "failed", "exit"} \subseteq DrivePc
      /\ {"queued", "running", "need_input", "candidate_done", "done", "blocked"} \subseteq Status
      /\ {"none", "ask", "judge"} \subseteq AskKind
  BY DEF DrivePc, Status, AskKind
<1>1. CASE Claim(s)
  <2>1. Step(s, "claim", "conv") /\ setStatus(drive[s].id, "running")  BY <1>1 DEF Claim
  <2>2. drive[s].id \in Contract  BY <2>1, <1>a, <1>p DEF Step
  <2>3. row' \in [Contract -> Row]  BY <2>1, <2>2, <1>p, SetStatusType
  <2>4. drive' \in [Slot -> DriveRec]  BY <2>1, <1>p, StepType
  <2>5. UNCHANGED <<ripe, conv, orphans, userVars, running, tick, crashes>>
    BY <1>1 DEF Claim
  <2>6. SameRounds  BY <2>1, <2>5, StepSame
  <2> QED  BY <2>3, <2>4, <2>5, <2>6 DEF TypeOK, userVars
<1>2. CASE findOrCreateConv(s)
  <2>1. drive[s].id \in Contract /\ drive[s] \in DriveRec
    BY <1>2, ActiveContract DEF findOrCreateConv
  <2>2. \A h \in Hold : (IF h = "unset" THEN "held" ELSE h) \in Hold  BY DEF Hold
  <2>3. drive' \in [Slot -> DriveRec] /\ (running' = running => SameRounds)
    <3>1. drive' = [drive EXCEPT ![s] = [drive[s] EXCEPT !.pc = "agent",
                       !.hold = IF drive[s].hold = "unset" THEN "held" ELSE drive[s].hold]]
      BY <1>2 DEF findOrCreateConv, TypeOK
    <3>2. [drive[s] EXCEPT !.pc = "agent",
             !.hold = IF drive[s].hold = "unset" THEN "held" ELSE drive[s].hold] \in DriveRec
      BY <2>1, <2>2, <1>p DEF DriveRec
    <3> QED  BY <1>2, <3>1, <3>2, <2>1 DEF TypeOK, SameRounds, findOrCreateConv, DriveRec
  <2>4. conv' \in [Contract -> {"none", "open", "deleted"}]
    BY <1>2, <2>1 DEF findOrCreateConv, TypeOK
  <2>5. UNCHANGED <<row, ripe, orphans, userVars, running, tick, crashes>>
    BY <1>2 DEF findOrCreateConv
  <2> QED  BY <2>3, <2>4, <2>5 DEF TypeOK, userVars
<1>3. CASE AgentEnd(s)
  <2>1. Step(s, "agent", "refresh") /\ UNCHANGED <<dbVars, userVars, running, tick, crashes>>
    BY <1>3 DEF AgentEnd
  <2>2. drive' \in [Slot -> DriveRec]  BY <2>1, <1>p, StepType
  <2>3. SameRounds  BY <2>1, StepSame
  <2> QED  BY <2>1, <2>2, <2>3 DEF TypeOK, userVars, dbVars
<1>4. CASE Refresh(s)
  <2>1. drive[s].id \in Contract /\ drive[s] \in DriveRec  BY <1>4, ActiveContract DEF Refresh
  <2>2. PICK p \in {"asked", "accept", "conclude"}, st \in Status, n \in 0..AttemptsTop :
          drive' = [drive EXCEPT ![s] = [drive[s] EXCEPT !.pc = p, !.status = st, !.attempts = n]]
    <3>1. row[drive[s].id].status \in Status /\ row[drive[s].id].attempts \in 0..AttemptsTop
      BY <2>1 DEF TypeOK, Row
    <3>2. drive[s].attempts \in 0..AttemptsTop  BY <2>1 DEF DriveRec
    <3>3. \E g \in [status: Status, attempts: 0..AttemptsTop],
              p \in {"asked", "accept", "conclude"} :
            drive' = [drive EXCEPT ![s].pc = p, ![s].status = g.status,
                                   ![s].attempts = g.attempts]
      <4> DEFINE c == drive[s].id
                 got == IF Exists(c)
                        THEN [status |-> row[c].status, attempts |-> row[c].attempts]
                        ELSE [status |-> "queued", attempts |-> drive[s].attempts]
                 next == IF got.status = "need_input" THEN "asked"
                         ELSE IF drive[s].finished THEN "accept" ELSE "conclude"
      <4>1. got \in [status: Status, attempts: 0..AttemptsTop]
        BY <3>1, <3>2, <1>p
      <4>2. next \in {"asked", "accept", "conclude"}  OBVIOUS
      <4>3. drive' = [drive EXCEPT ![s].pc = next, ![s].status = got.status,
                                   ![s].attempts = got.attempts]
        BY <1>4 DEF Refresh
      <4> HIDE DEF got, next
      <4> QED  BY <4>1, <4>2, <4>3
    <3>4. PICK g \in [status: Status, attempts: 0..AttemptsTop],
               p \in {"asked", "accept", "conclude"} :
            drive' = [drive EXCEPT ![s].pc = p, ![s].status = g.status,
                                   ![s].attempts = g.attempts]
      BY <3>3
    <3>5. drive' = [drive EXCEPT ![s] = [drive[s] EXCEPT !.pc = p, !.status = g.status,
                                                          !.attempts = g.attempts]]
      BY <3>4 DEF TypeOK
    <3> QED  BY <3>5
  <2>3. [drive[s] EXCEPT !.pc = p, !.status = st, !.attempts = n] \in DriveRec
    BY <2>1, <1>p DEF DriveRec
  <2>4. UNCHANGED <<dbVars, userVars, running, tick, crashes>> /\ drive[s].pc = "refresh"
    BY <1>4 DEF Refresh
  <2>5. drive' \in [Slot -> DriveRec] /\ SameRounds
    BY <2>1, <2>2, <2>3, <2>4 DEF TypeOK, SameRounds, DriveRec
  <2> QED  BY <2>4, <2>5 DEF TypeOK, userVars, dbVars
<1>5. CASE Asked(s)
  <2>1. Step(s, "asked", "exit") /\ appendConvMsg(s)
        /\ UNCHANGED <<row, ripe, conv, userVars, running, tick, crashes>>
    BY <1>5 DEF Asked
  <2>2. drive' \in [Slot -> DriveRec]  BY <2>1, <1>p, StepType
  <2>3. SameRounds  BY <2>1, StepSame
  <2>4. orphans' \subseteq Contract
    BY <2>1, <1>a, <1>p DEF appendConvMsg, Step, TypeOK
  <2> QED  BY <2>1, <2>2, <2>3, <2>4 DEF TypeOK, userVars
<1>6. CASE \E pass \in BOOLEAN : Accept(s, pass)
  <2>1. PICK pass \in BOOLEAN : Accept(s, pass)  BY <1>6
  <2>2. drive[s].id \in Contract /\ Bump(drive[s].attempts) \in 0..AttemptsTop
    BY <2>1, ActiveContract DEF Accept, Step
  <2>3. row' \in [Contract -> Row]
    BY <2>1, <2>2, <1>p, SetStatusAttemptsType DEF Accept
  <2>4. Step(s, "accept", "cap") /\ appendConvMsg(s)
        /\ UNCHANGED <<ripe, conv, userVars, running, tick, crashes>>
    BY <2>1 DEF Accept
  <2>5. drive' \in [Slot -> DriveRec]  BY <2>4, <1>p, StepType
  <2>6. SameRounds  BY <2>4, StepSame
  <2>7. orphans' \subseteq Contract  BY <2>2, <2>4 DEF appendConvMsg, TypeOK
  <2>8.. UNCHANGED <<ripe, conv, seen, reading, calls, running, tick, crashes>>
    BY <2>4 DEF userVars
  <2> QED  BY <2>3, <2>5, <2>6, <2>7, <2>8 DEF TypeOK
<1>7. CASE Conclude(s)
  <2>1. drive[s].id \in Contract /\ Bump(drive[s].attempts) \in 0..AttemptsTop
    BY <1>7, ActiveContract DEF Conclude, Step
  <2>2. row' \in [Contract -> Row]
    BY <1>7, <2>1, <1>p, SetStatusAttemptsType, NeedInputType DEF Conclude
  <2>3. Step(s, "conclude", "cap") /\ appendConvMsg(s)
        /\ UNCHANGED <<ripe, conv, userVars, running, tick, crashes>>
    BY <1>7 DEF Conclude
  <2>4. drive' \in [Slot -> DriveRec]  BY <2>3, <1>p, StepType
  <2>5. SameRounds  BY <2>3, StepSame
  <2>6. orphans' \subseteq Contract  BY <2>1, <2>3 DEF appendConvMsg, TypeOK
  <2> QED  BY <2>2, <2>3, <2>4, <2>5, <2>6 DEF TypeOK, userVars
<1>8. CASE Cap(s)
  <2>1. Step(s, "cap", "exit")
        /\ UNCHANGED <<ripe, conv, orphans, userVars, running, tick, crashes>>
    BY <1>8 DEF Cap
  <2>2. row' \in [Contract -> Row]
    BY <1>8, <1>a, <1>p, SetStatusType DEF Cap, Step, TypeOK
  <2>3. drive' \in [Slot -> DriveRec]  BY <2>1, <1>p, StepType
  <2>4. SameRounds  BY <2>1, StepSame
  <2> QED  BY <2>1, <2>2, <2>3, <2>4 DEF TypeOK, userVars
<1>9. CASE Catch(s)
  <2>1. Step(s, "failed", "exit")
        /\ UNCHANGED <<ripe, conv, orphans, userVars, running, tick, crashes>>
    BY <1>9 DEF Catch
  <2>2. row' \in [Contract -> Row]
    BY <1>9, <1>a, <1>p, SetStatusType DEF Catch, Step, TypeOK
  <2>3. drive' \in [Slot -> DriveRec]  BY <2>1, <1>p, StepType
  <2>4. SameRounds  BY <2>1, StepSame
  <2> QED  BY <2>1, <2>2, <2>3, <2>4 DEF TypeOK, userVars
<1>10. CASE AgentNext(s)
  <2>1. drive' \in [Slot -> DriveRec] /\ (running' = running => SameRounds)
    <3>1. drive[s] \in DriveRec  BY DEF TypeOK
    <3>2. PICK r : /\ r \in DriveRec /\ r.id = drive[s].id
                   /\ r.pc # "free" /\ drive[s].pc # "free"
                   /\ drive' = [drive EXCEPT ![s] = r]
      <4>1. CASE AgentTool(s)
        <5>1. [drive[s] EXCEPT !.worked = TRUE] \in DriveRec  BY <3>1 DEF DriveRec
        <5> QED  BY <3>1, <4>1, <5>1 DEF AgentTool, DriveRec
      <4>2. CASE AgentAsk(s)
        <5>1. [drive[s] EXCEPT !.worked = TRUE] \in DriveRec  BY <3>1 DEF DriveRec
        <5> QED  BY <3>1, <4>2, <5>1 DEF AgentAsk, DriveRec
      <4>3. CASE AgentFinishTask(s)
        <5>1. [drive[s] EXCEPT !.worked = TRUE, !.finished = TRUE] \in DriveRec
          BY <3>1 DEF DriveRec
        <5>2. drive' = [drive EXCEPT ![s] = [drive[s] EXCEPT !.worked = TRUE, !.finished = TRUE]]
          BY <4>3 DEF AgentFinishTask, TypeOK
        <5> QED  BY <3>1, <4>3, <5>1, <5>2 DEF AgentFinishTask, DriveRec
      <4>4. CASE Throw(s)
        <5>1. [drive[s] EXCEPT !.pc = "failed"] \in DriveRec  BY <3>1, <1>p DEF DriveRec
        <5>2. drive[s].pc # "free" /\ drive' = [drive EXCEPT ![s] = [drive[s] EXCEPT !.pc = "failed"]]
          BY <4>4 DEF Throw
        <5> QED  BY <3>1, <5>1, <5>2 DEF DriveRec
      <4> QED  BY <1>10, <4>1, <4>2, <4>3, <4>4 DEF AgentNext
    <3> QED  BY <3>1, <3>2 DEF TypeOK, SameRounds
  <2>2. UNCHANGED <<ripe, conv, orphans, userVars, running, tick, crashes>>
    BY <1>10 DEF AgentNext, AgentTool, AgentAsk, AgentFinishTask, Throw, dbVars
  <2>3. row' \in [Contract -> Row]
    <3>1. CASE AgentAsk(s)
      <4>1. drive[s].id \in Contract /\ needInput(drive[s].id, "ask")
        BY <3>1, ActiveContract DEF AgentAsk
      <4> QED  BY <4>1, <1>p, NeedInputType
    <3>2. CASE UNCHANGED row  BY <3>2 DEF TypeOK
    <3> QED  BY <1>10, <3>1, <3>2 DEF AgentNext, AgentTool, AgentFinishTask, Throw, dbVars
  <2> QED  BY <2>1, <2>2, <2>3 DEF TypeOK, userVars
<1> QED
  BY RoundStep(s), <1>1, <1>2, <1>3, <1>4, <1>5, <1>6, <1>7, <1>8, <1>9, <1>10
  DEF RoundStep

LEMMA ExitType ==
  ASSUME TypeInv, NEW s \in Slot, Exit(s)
  PROVE  TypeInv'
<1>1. Free \in DriveRec  BY TopType DEF Free, DriveRec, DrivePc, Hold, Status
<1>2. drive' \in [Slot -> DriveRec]  BY <1>1 DEF Exit, TypeInv, TypeOK
<1>3. \A q \in Slot : drive'[q] = IF q = s THEN Free ELSE drive[q]
  BY DEF Exit, TypeInv, TypeOK
<1>4. ActiveHasContract'  BY <1>3 DEF TypeInv, ActiveHasContract, Active, Free
<1> QED  BY <1>2, <1>4 DEF Exit, TypeInv, TypeOK, dbVars, userVars

LEMMA CrashType ==
  ASSUME TypeInv, Crash
  PROVE  TypeInv'
<1>1. Free \in DriveRec  BY TopType DEF Free, DriveRec, DrivePc, Hold, Status
<1>2. TickIdle \in TickRec  BY DEF TickIdle, TickRec
<1>3. ActiveHasContract'  BY DEF Crash, ActiveHasContract, Active, Free
<1>4. crashes' \in 0..MaxCrashes  BY DriverAssumption DEF Crash, TypeInv, TypeOK
<1> QED  BY <1>1, <1>2, <1>3, <1>4 DEF Crash, TypeInv, TypeOK, dbVars

LEMMA TypeStep == TypeInv /\ [Next]_vars => TypeInv'
<1> SUFFICES ASSUME TypeInv, [Next]_vars  PROVE TypeInv'  OBVIOUS
<1>1. CASE \E c \in Contract : UserNext(c)  BY <1>1, UserType
<1>2. CASE \E t \in Ticker : TickNext(t)  BY <1>2, TickType
<1>3. CASE \E s \in Slot : RoundStep(s)  BY <1>3, RoundStepType
<1>4. CASE \E s \in Slot : Exit(s)  BY <1>4, ExitType
<1>5. CASE Crash  BY <1>5, CrashType
<1>6. CASE UNCHANGED vars
  BY <1>6 DEF vars, TypeInv, TypeOK, ActiveHasContract, Active
<1> QED  BY <1>1, <1>2, <1>3, <1>4, <1>5, <1>6 DEF Next, RoundNext, RoundStep

\* Type correctness of the driver: every statement, tick and API call leaves
\* rows, snapshots and the locals of the rounds in their domains.
THEOREM TypeCorrect == Spec => []TypeOK
<1>1. TypeInv => TypeOK  BY DEF TypeInv
<1> QED  BY <1>1, TypeInit, TypeStep, PTL DEF Spec

-----------------------------------------------------------------------------
(* The running set.                                                        *)

RunningInv == TypeInv /\ OneRoundPerContract /\ RunningIsExact

LEMMA SameRoundsRunning ==
  ASSUME OneRoundPerContract, RunningIsExact, SameRounds
  PROVE  OneRoundPerContract' /\ RunningIsExact'
<1>1. Active' = Active /\ (\A s \in Active : drive'[s].id = drive[s].id)
      /\ running' = running
  BY SameRoundsActive DEF SameRounds
<1>2. OneRoundPerContract'  BY <1>1 DEF OneRoundPerContract
<1>3. RunningIsExact'  BY <1>1 DEF RunningIsExact
<1> QED  BY <1>2, <1>3

\* A round is entered for a contract no other round is executing.
LEMMA EnterRunning ==
  ASSUME RunningInv, NEW s \in Slot, NEW d \in Due, driveContract(s, d)
  PROVE  /\ OneRoundPerContract' /\ RunningIsExact'
         /\ Active' = Active \cup {s} /\ s \notin Active
<1>0. drive \in [Slot -> DriveRec]  BY DEF RunningInv, TypeInv, TypeOK
<1>1. PICK r : r.id = d.id /\ r.pc = "claim" /\ drive' = [drive EXCEPT ![s] = r]
  BY DEF driveContract, Enter, Free
<1>2. /\ running' = running \cup {d.id}
      /\ d.id \notin running
      /\ s \notin Active
  BY DEF driveContract, Enter, Active
<1>3. \A q \in Slot : drive'[q] = IF q = s THEN r ELSE drive[q]  BY <1>0, <1>1
<1>4. Active' = Active \cup {s}  BY <1>1, <1>3 DEF Active
<1>5. \A q \in Active : drive'[q].id = drive[q].id /\ drive[q].id # d.id
  BY <1>2, <1>3 DEF RunningInv, RunningIsExact, Active
<1>6. drive'[s].id = d.id  BY <1>1, <1>3
<1>7. OneRoundPerContract'  BY <1>4, <1>5, <1>6 DEF RunningInv, OneRoundPerContract
<1>8. RunningIsExact'  BY <1>2, <1>4, <1>5, <1>6 DEF RunningInv, RunningIsExact
<1> QED  BY <1>2, <1>4, <1>7, <1>8

LEMMA ExitRunning ==
  ASSUME RunningInv, NEW s \in Slot, Exit(s)
  PROVE  /\ OneRoundPerContract' /\ RunningIsExact'
         /\ Active' = Active \ {s}
<1>0. drive \in [Slot -> DriveRec]  BY DEF RunningInv, TypeInv, TypeOK
<1>1. s \in Active /\ running' = running \ {drive[s].id}  BY DEF Exit, Active
<1>2. \A q \in Slot : drive'[q] = IF q = s THEN Free ELSE drive[q]  BY <1>0 DEF Exit
<1>3. Active' = Active \ {s}  BY <1>2 DEF Active, Free
<1>4. \A q \in Active \ {s} : drive'[q].id = drive[q].id /\ drive[q].id # drive[s].id
  BY <1>1, <1>2 DEF RunningInv, OneRoundPerContract, Active
<1>5. OneRoundPerContract'  BY <1>3, <1>4 DEF RunningInv, OneRoundPerContract
<1>6. RunningIsExact'  BY <1>1, <1>3, <1>4 DEF RunningInv, RunningIsExact
<1> QED  BY <1>3, <1>5, <1>6

LEMMA UserSame ==
  ASSUME TypeInv, NEW c \in Contract, UserNext(c)
  PROVE  SameRounds
<1>1. CASE deleteConversation(c)
  <2>1. \A s \in Slot : drive[s] \in DriveRec  BY DEF TypeInv, TypeOK
  <2> QED  BY <1>1, <2>1 DEF deleteConversation, SameRounds, DriveRec
<1>2. CASE UNCHANGED <<running, drive>>  BY <1>2 DEF SameRounds
<1> QED
  BY UserNext(c), <1>1, <1>2 DEF UserNext, Create, RunAtArrives, ListContracts, confirm,
     answerRead, answerWrite, Age

LEMMA RunningStep == RunningInv /\ [Next]_vars => RunningInv'
<1> SUFFICES ASSUME RunningInv, [Next]_vars
             PROVE  OneRoundPerContract' /\ RunningIsExact'
  BY TypeStep DEF RunningInv
<1> USE DEF RunningInv
<1>1. CASE \E c \in Contract : UserNext(c)  BY <1>1, UserSame, SameRoundsRunning
<1>2. ASSUME NEW t \in Ticker, TickNext(t)
      PROVE  OneRoundPerContract' /\ RunningIsExact'
  <2>1. CASE TickDrive(t)
    <3>1. PICK d \in First(tick[t].due) :
            \/ \E s \in Slot : driveContract(s, d)
            \/ UNCHANGED <<running, drive>>
      BY <2>1 DEF TickDrive
    <3>2. d \in Due
      <4>1. tick[t] \in TickRec  BY DEF TypeInv, TypeOK
      <4> QED  BY <3>1, <4>1 DEF TickRec, First
    <3>3. CASE \E s \in Slot : driveContract(s, d)  BY <3>2, <3>3, EnterRunning
    <3>4. CASE UNCHANGED <<running, drive>>
      BY <3>4, SameRoundsRunning DEF SameRounds
    <3> QED  BY <3>1, <3>3, <3>4
  <2>2. CASE UNCHANGED <<running, drive>>  BY <2>2, SameRoundsRunning DEF SameRounds
  <2> QED  BY <1>2, <2>1, <2>2 DEF TickNext, TickStart, TickRecover, TickSelect, TickEnd
<1>3. CASE \E s \in Slot : RoundStep(s)  BY <1>3, RoundStepType, SameRoundsRunning
<1>4. CASE \E s \in Slot : Exit(s)  BY <1>4, ExitRunning
<1>5. CASE Crash
  <2>1. Active' = {} /\ running' = {}  BY <1>5 DEF Crash, Active, Free
  <2> QED  BY <2>1 DEF OneRoundPerContract, RunningIsExact
<1>6. CASE UNCHANGED vars  BY <1>6, SameRoundsRunning DEF vars, SameRounds
<1> QED
  BY <1>1, <1>2, <1>3, <1>4, <1>5, <1>6 DEF Next, RoundNext, RoundStep

LEMMA RunningInit == Init => RunningInv
<1>1. Init => Active = {} /\ running = {}  BY DEF Init, Active, Free
<1> QED  BY <1>1, TypeInit DEF RunningInv, OneRoundPerContract, RunningIsExact

LEMMA RunningAlways == Spec => []RunningInv
BY RunningInit, RunningStep, PTL DEF Spec

\* No contract is ever executed by two rounds of the process, whatever the
\* overlap of ticks and however often a live round is requeued as stale.
THEOREM NoDoubleRound == Spec => []OneRoundPerContract
<1>1. RunningInv => OneRoundPerContract  BY DEF RunningInv
<1> QED  BY <1>1, RunningAlways, PTL

\* The running set of the driver is exactly the set of contracts in execution.
THEOREM RunningExact == Spec => []RunningIsExact
<1>1. RunningInv => RunningIsExact  BY DEF RunningInv
<1> QED  BY <1>1, RunningAlways, PTL

-----------------------------------------------------------------------------
(* The concurrency limit.                                                  *)

\* Rounds in execution and entries of the running set are the same number.
LEMMA ActiveCount ==
  ASSUME RunningInv
  PROVE  /\ IsFiniteSet(Active)
         /\ Cardinality(Active) \in Nat
         /\ Cardinality(running) = Cardinality(Active)
<1>1. IsFiniteSet(Active)  BY DriverAssumption, FS_Subset DEF Active
<1> DEFINE f == [s \in Active |-> drive[s].id]
<1>2. f \in [Active -> running]  BY DEF RunningInv, RunningIsExact
<1>3. \A r, s \in Active : f[r] = f[s] => r = s  BY DEF RunningInv, OneRoundPerContract
<1>4. \A c \in running : \E s \in Active : f[s] = c  BY DEF RunningInv, RunningIsExact
<1> HIDE DEF f
<1>5. f \in Bijection(Active, running)
  BY <1>2, <1>3, <1>4 DEF Bijection, Injection, Surjection, IsInjective
<1>6. ExistsBijection(Active, running)  BY <1>5 DEF ExistsBijection
<1> QED  BY <1>1, <1>6, FS_Bijection, FS_CardinalityType

LimitInv == RunningInv /\ ConcurrencyLimit

LEMMA LimitInit == Init => LimitInv
<1>1. Init => Active = {}  BY DEF Init, Active, Free
<1> QED  BY <1>1, RunningInit, FS_EmptySet, DriverAssumption DEF LimitInv, ConcurrencyLimit

LEMMA LimitStep == LimitInv /\ [Next]_vars => LimitInv'
<1> SUFFICES ASSUME LimitInv, [Next]_vars  PROVE ConcurrencyLimit'
  BY RunningStep DEF LimitInv
<1> USE DEF LimitInv, RunningInv
<1>0. IsFiniteSet(Active) /\ Cardinality(Active) \in Nat
      /\ Cardinality(running) = Cardinality(Active) /\ MaxRunning \in Nat
  BY ActiveCount, DriverAssumption
<1>a. ASSUME SameRounds PROVE ConcurrencyLimit'
  BY <1>a, SameRoundsActive DEF ConcurrencyLimit
<1>1. CASE \E c \in Contract : UserNext(c)  BY <1>1, <1>a, UserSame
<1>2. ASSUME NEW t \in Ticker, TickNext(t)
      PROVE  ConcurrencyLimit'
  <2>1. CASE TickDrive(t)
    <3>1. PICK d \in First(tick[t].due) :
            \/ \E s \in Slot : driveContract(s, d)
            \/ UNCHANGED <<running, drive>>
      BY <2>1 DEF TickDrive
    <3>2. d \in Due
      <4>1. tick[t] \in TickRec  BY DEF TypeInv, TypeOK
      <4> QED  BY <3>1, <4>1 DEF TickRec, First
    <3>3. CASE \E s \in Slot : driveContract(s, d)
      <4>1. PICK s \in Slot : driveContract(s, d)  BY <3>3
      <4>2. Active' = Active \cup {s} /\ s \notin Active  BY <3>2, <4>1, EnterRunning
      <4>3. Cardinality(Active') = Cardinality(Active) + 1  BY <1>0, <4>2, FS_AddElement
      <4>4. Cardinality(running) < MaxRunning  BY <2>1 DEF TickDrive
      <4> QED  BY <1>0, <4>3, <4>4 DEF ConcurrencyLimit
    <3>4. CASE UNCHANGED <<running, drive>>  BY <3>4, <1>a DEF SameRounds
    <3> QED  BY <3>1, <3>3, <3>4
  <2>2. CASE UNCHANGED <<running, drive>>  BY <2>2, <1>a DEF SameRounds
  <2> QED  BY <1>2, <2>1, <2>2 DEF TickNext, TickStart, TickRecover, TickSelect, TickEnd
<1>3. CASE \E s \in Slot : RoundStep(s)  BY <1>3, <1>a, RoundStepType
<1>4. CASE \E s \in Slot : Exit(s)
  <2>1. PICK s \in Slot : Active' = Active \ {s}  BY <1>4, ExitRunning
  <2>2. Cardinality(Active') <= Cardinality(Active) /\ Cardinality(Active') \in Nat
    <3>1. Active' \subseteq Active  BY <2>1
    <3>2. IsFiniteSet(Active') /\ Cardinality(Active') <= Cardinality(Active)
      BY <1>0, <3>1, FS_Subset
    <3> QED  BY <3>2, FS_CardinalityType
  <2> QED  BY <1>0, <2>2 DEF ConcurrencyLimit
<1>5. CASE Crash
  <2>1. Active' = {}  BY <1>5 DEF Crash, Active, Free
  <2> QED  BY <1>0, <2>1, FS_EmptySet DEF ConcurrencyLimit
<1>6. CASE UNCHANGED vars  BY <1>6, <1>a DEF vars, SameRounds
<1> QED
  BY <1>1, <1>2, <1>3, <1>4, <1>5, <1>6 DEF Next, RoundNext, RoundStep

\* The driver never executes more rounds at a time than its concurrency,
\* for any number of overlapping ticks and of call slots.
THEOREM PoolBounded == Spec => []ConcurrencyLimit
<1>1. LimitInv => ConcurrencyLimit  BY DEF LimitInv
<1> QED  BY <1>1, LimitInit, LimitStep, PTL DEF Spec

-----------------------------------------------------------------------------
(* What a step writes into the rows.                                       *)

\* A row that comes to ask does so with its question, and one that becomes done was
\* confirmed by a caller.
Written(c) ==
  /\ row'[c].status = "need_input" =>
       row'[c].ask # "none" \/ (row[c].status = "need_input" /\ row'[c].ask = row[c].ask)
  /\ row'[c].status = "done" /\ row[c].status # "done" =>
       seen[c] = "candidate_done" /\ calls' = calls + 1

LEMMA UpdateWrites ==
  ASSUME TypeOK, NEW c \in Contract, NEW r \in Row, Update(c, r),
         r.status = "need_input" => r.ask # "none" \/ (row[c].status = "need_input" /\ r.ask = row[c].ask),
         r.status = "done" /\ row[c].status # "done" => seen[c] = "candidate_done" /\ calls' = calls + 1
  PROVE  \A d \in Contract : Written(d)
<1> DEFINE q == [r EXCEPT !.fresh = TRUE]
<1>1. q.status = r.status /\ q.ask = r.ask
  BY DEF Row
<1>2. row' = [row EXCEPT ![c] = q] \/ row' = row
  BY DEF Update
<1> HIDE DEF q
<1>3. \A d \in Contract : row'[d] = row[d] \/ (d = c /\ row'[d] = q)
  BY <1>2 DEF TypeOK
<1> QED  BY <1>1, <1>3 DEF Written

\* Statuses written without a question, and not done.
LEMMA StatusWrites ==
  ASSUME TypeOK, NEW c \in Contract, NEW st \in {"queued", "running", "candidate_done", "blocked"},
         NEW n \in 0..AttemptsTop, setStatus(c, st) \/ setStatusAttempts(c, st, n)
  PROVE  \A d \in Contract : Written(d)
<1>1. row[c] \in Row /\ st \in Status
  BY DEF TypeOK, Status
<1>2. CASE setStatus(c, st)
  <2> DEFINE r == [row[c] EXCEPT !.status = st]
  <2>1. r \in Row /\ r.status = st  BY <1>1 DEF Row
  <2>2. Update(c, r)  BY <1>2 DEF setStatus
  <2> HIDE DEF r
  <2> QED  BY <2>1, <2>2, UpdateWrites
<1>3. CASE setStatusAttempts(c, st, n)
  <2> DEFINE r == [row[c] EXCEPT !.status = st, !.attempts = n]
  <2>1. r \in Row /\ r.status = st  BY <1>1 DEF Row
  <2>2. Update(c, r)  BY <1>3 DEF setStatusAttempts
  <2> HIDE DEF r
  <2> QED  BY <2>1, <2>2, UpdateWrites
<1> QED  BY <1>2, <1>3

LEMMA AskWrites ==
  ASSUME TypeOK, NEW c \in Contract, NEW kind \in {"ask", "judge"}, needInput(c, kind)
  PROVE  \A d \in Contract : Written(d)
<1> DEFINE r == [row[c] EXCEPT !.status = "need_input", !.ask = kind]
<1>1. r \in Row /\ r.status = "need_input" /\ r.ask = kind
  BY DEF TypeOK, Row, Status, AskKind
<1>2. Update(c, r)  BY DEF needInput
<1> HIDE DEF r
<1> QED  BY <1>1, <1>2, UpdateWrites

LEMMA UserWrites ==
  ASSUME TypeInv, NEW c \in Contract, UserNext(c)
  PROVE  \A d \in Contract : Written(d)
<1>1. TypeOK /\ row \in [Contract -> Row] /\ row[c] \in Row /\ 0 \in 0..AttemptsTop
  BY TopType DEF TypeInv, TypeOK
<1>2. CASE \E atOnce \in BOOLEAN : Create(c, atOnce)
  <2>1. row' = [row EXCEPT ![c].status = "queued"]  BY <1>2 DEF Create
  <2>2. \A d \in Contract : row'[d] = row[d] \/ row'[d].status = "queued"
    BY <1>1, <2>1 DEF Row
  <2> QED  BY <2>2 DEF Written
<1>3. CASE \E decision \in {"accept", "reject"} : confirm(c, decision)
  <2>1. PICK decision \in {"accept", "reject"} : confirm(c, decision)  BY <1>3
  <2> DEFINE r == IF decision = "accept" THEN [row[c] EXCEPT !.status = "done"]
                  ELSE [row[c] EXCEPT !.status = "queued", !.attempts = 0]
  <2>2. r \in Row /\ r.status \in {"done", "queued"}  BY <1>1 DEF Row, Status
  <2>3. Update(c, r) /\ seen[c] = "candidate_done" /\ calls' = calls + 1
    BY <2>1 DEF confirm, Call
  <2> HIDE DEF r
  <2> QED  BY <1>1, <2>2, <2>3, UpdateWrites
<1>4. CASE \E goOn \in BOOLEAN : answerWrite(c, goOn)
  <2>1. PICK goOn \in BOOLEAN : answerWrite(c, goOn)  BY <1>4
  <2> DEFINE r == AnswerRow(c, goOn)
  <2>2. r \in Row /\ r.status \in {"candidate_done", "queued"}
    BY <1>1 DEF AnswerRow, Row, Status, AskKind
  <2>3. Update(c, r)  BY <2>1 DEF answerWrite
  <2> HIDE DEF r
  <2> QED  BY <1>1, <2>2, <2>3, UpdateWrites
<1>5. CASE deleteConversation(c)
  <2> DEFINE q == [NoRow EXCEPT !.status = "deleted"]
  <2>1. q.status = "deleted"  BY DEF NoRow
  <2>2. row' = [row EXCEPT ![c] = q]  BY <1>5 DEF deleteConversation
  <2> HIDE DEF q
  <2>3. \A d \in Contract : row'[d] = row[d] \/ row'[d] = q  BY <1>1, <2>2
  <2> QED  BY <2>1, <2>3 DEF Written
<1>6. CASE Age(c)
  <2>1. row' = [row EXCEPT ![c].fresh = FALSE]  BY <1>6 DEF Age
  <2>2. \A d \in Contract : row'[d].status = row[d].status /\ row'[d].ask = row[d].ask
    BY <1>1, <2>1 DEF Row
  <2> QED  BY <2>2 DEF Written
<1>7. CASE RunAtArrives(c) \/ ListContracts(c) \/ answerRead(c)
  BY <1>7 DEF RunAtArrives, ListContracts, answerRead, dbVars, Written
<1> QED  BY <1>2, <1>3, <1>4, <1>5, <1>6, <1>7 DEF UserNext

LEMMA RowWrites == TypeInv /\ [Next]_vars => \A d \in Contract : Written(d)
<1> SUFFICES ASSUME TypeInv, [Next]_vars PROVE \A d \in Contract : Written(d)
  OBVIOUS
<1>1. TypeOK /\ row \in [Contract -> Row] /\ drive \in [Slot -> DriveRec]
  BY DEF TypeInv, TypeOK
<1>2. ASSUME UNCHANGED row PROVE \A d \in Contract : Written(d)
  BY <1>2 DEF Written
<1>3. ASSUME NEW t \in Ticker, TickNext(t) PROVE \A d \in Contract : Written(d)
  <2>1. CASE TickRecover(t)
    <3>1. \A d \in Contract : row'[d] = row[d] \/ row'[d].status = "queued"
      BY <1>1, <2>1 DEF TickRecover, Row
    <3> QED  BY <3>1 DEF Written
  <2>2. CASE ~TickRecover(t)
    BY <1>2, <1>3, <2>2 DEF TickNext, TickStart, TickSelect, TickDrive, TickEnd, dbVars
  <2> QED  BY <2>1, <2>2
<1>4. ASSUME NEW s \in Slot, RoundNext(s) \/ AgentNext(s) PROVE \A d \in Contract : Written(d)
  <2>1. drive[s].pc # "free" => drive[s].id \in Contract
    BY DEF TypeInv, ActiveHasContract, Active
  <2>2. Bump(drive[s].attempts) \in 0..AttemptsTop
    BY <1>1, BumpType DEF DriveRec
  <2>3. CASE Claim(s) \/ Cap(s) \/ Catch(s)
    <3>1. drive[s].pc # "free"  BY <2>3 DEF Claim, Cap, Catch, Step
    <3>2. (\E st \in {"queued", "running", "blocked"} : setStatus(drive[s].id, st)) \/ UNCHANGED row
      BY <2>3 DEF Claim, Cap, Catch
    <3> QED  BY <1>1, <1>2, <2>1, <3>1, <3>2, TopType, StatusWrites
  <2>4. CASE \E pass \in BOOLEAN : Accept(s, pass)
    <3>1. drive[s].pc # "free"  BY <2>4 DEF Accept, Step
    <3>2. \E st \in {"queued", "candidate_done"} :
            setStatusAttempts(drive[s].id, st, Bump(drive[s].attempts))
      BY <2>4 DEF Accept
    <3> QED  BY <1>1, <2>1, <2>2, <3>1, <3>2, StatusWrites
  <2>5. CASE Conclude(s)
    <3>1. drive[s].pc # "free"  BY <2>5 DEF Conclude, Step
    <3>2. needInput(drive[s].id, "judge")
          \/ setStatusAttempts(drive[s].id, "queued", Bump(drive[s].attempts))
      BY <2>5 DEF Conclude
    <3> QED  BY <1>1, <2>1, <2>2, <3>1, <3>2, StatusWrites, AskWrites
  <2>6. CASE AgentAsk(s)
    <3>1. drive[s].pc # "free" /\ needInput(drive[s].id, "ask")  BY <2>6 DEF AgentAsk
    <3> QED  BY <1>1, <2>1, <3>1, AskWrites
  <2>7. CASE findOrCreateConv(s) \/ AgentEnd(s) \/ Refresh(s) \/ Asked(s) \/ Exit(s)
             \/ AgentTool(s) \/ AgentFinishTask(s) \/ Throw(s)
    BY <1>2, <2>7 DEF findOrCreateConv, AgentEnd, Refresh, Asked, Exit, AgentTool,
       AgentFinishTask, Throw, dbVars
  <2> QED  BY <1>4, <2>3, <2>4, <2>5, <2>6, <2>7 DEF RoundNext, AgentNext
<1>5. CASE Crash \/ UNCHANGED vars
  BY <1>2, <1>5 DEF Crash, dbVars, vars
<1> QED  BY <1>3, <1>4, <1>5, UserWrites DEF Next

\* A contract that waits for its user carries the question it waits on, whatever order
\* the questions of its round, late answers, verdicts, requeues and crashes come in.
THEOREM AsksWithQuestion == Spec => []WaitingHasQuestion
<1>1. Init => WaitingHasQuestion
  BY DEF Init, WaitingHasQuestion, NoRow
<1>2. TypeInv /\ WaitingHasQuestion /\ [Next]_vars => WaitingHasQuestion'
  BY RowWrites DEF WaitingHasQuestion, Written
<1> QED  BY <1>1, <1>2, TypeInit, TypeStep, PTL DEF Spec

\* A contract becomes done only by the verdict of a caller who was shown it as a
\* candidate: neither a late round nor the recovery of a stale row closes one.
THEOREM OnlyUserCloses == Spec => DoneOnlyByConfirm
<1>1. TypeInv /\ [Next]_vars =>
        [\A c \in Contract : row[c].status # "done" /\ row'[c].status = "done"
           => seen[c] = "candidate_done" /\ calls' = calls + 1]_vars
  BY RowWrites DEF Written
<1> QED  BY <1>1, TypeInit, TypeStep, PTL DEF Spec, DoneOnlyByConfirm

-----------------------------------------------------------------------------
(* The JSON file.  The argument: saves are one after the other, a document *)
(* on its way to the file holds what the file holds and what its caller    *)
(* wrote, but for the rows a transaction has put its copy in the place of, *)
(* and every copy has of each other transaction both rows or none.         *)

\* A caller is a method that writes or a transaction.
StoreConstants == Writer \cap Batch = {}

SaveKinds == {"live", "frozen", "words"}
StoreTypes ==
  /\ memory \subseteq DocRow /\ file \subseteq DocRow /\ waiting \in Seq(Caller)
  /\ saves \in [DOMAIN saves -> [kind : SaveKinds, rows : SUBSET DocRow]]
  /\ DOMAIN saves \subseteq Caller /\ \A c, d \in DOMAIN saves : c = d
  /\ caller \in [Caller -> {"new", "open", "half", "saving", "done", "failed"}]
  /\ draft \in [Batch -> SUBSET DocRow]

\* A caller's rows in a document, but for what was overlaid.
Kept(c, rows) == CallRows(c) \ overlaid \subseteq rows
Queued == {waiting[i] : i \in DOMAIN waiting}
SavedInv ==
  /\ file \ overlaid \subseteq memory
  /\ \A c \in Queued : Kept(c, memory)
  /\ \A c \in DOMAIN saves :
       /\ Kept(c, Holds(saves[c])) /\ file \ overlaid \subseteq Holds(saves[c])
       /\ Holds(saves[c]) \ overlaid \subseteq memory
  /\ \A c \in Caller : At_(c, {"done"}) => Kept(c, file)

Whole(b, rows) == CallRows(b) \subseteq rows \/ CallRows(b) \cap rows = {}
WholeInv ==
  \A b \in Batch :
    /\ Whole(b, memory) /\ Whole(b, file)
    /\ \A c \in DOMAIN saves : Whole(b, Holds(saves[c]))
    /\ \A d \in Batch \ {b} : At_(d, {"open", "half"}) => Whole(b, draft[d])
    /\ At_(b, {"half"}) => <<b, 1>> \in draft[b]

StoreInv == StoreTypes /\ SavedInv /\ WholeInv

LEMMA RowsAre ==
  ASSUME StoreConstants
  PROVE  /\ \A w \in Writer : CallRows(w) = {<<w, 1>>} /\ w \in Caller
         /\ \A b \in Batch : CallRows(b) = {<<b, 1>>, <<b, 2>>} /\ b \in Caller
         /\ \A c \in Caller : CallRows(c) \subseteq DocRow
BY DEF StoreConstants, CallRows, Caller, DocRow

\* Other callers' rows are none of this one's.
LEMMA RowsApart ==
  ASSUME NEW b \in Batch, NEW d, d # b, NEW rows, NEW k
  PROVE  Whole(b, rows) <=> Whole(b, rows \cup {<<d, k>>})
<1>1. <<d, k>> \notin CallRows(b)
  BY DEF CallRows
<1> QED
  BY <1>1 DEF Whole

LEMMA QueueGrows ==
  ASSUME waiting \in Seq(Caller), NEW c \in Caller, waiting' = Append(waiting, c)
  PROVE  Queued' = Queued \cup {c}
<1>1. DOMAIN waiting = 1..Len(waiting) /\ Len(waiting) \in Nat
  OBVIOUS
<1>2. /\ DOMAIN waiting' = 1..(Len(waiting) + 1) /\ waiting'[Len(waiting) + 1] = c
      /\ \A i \in 1..Len(waiting) : waiting'[i] = waiting[i]
  OBVIOUS
<1>3. DOMAIN waiting' = DOMAIN waiting \cup {Len(waiting) + 1}
  BY <1>1, <1>2
<1> QED
  BY <1>1, <1>2, <1>3 DEF Queued

LEMMA QueueShrinks ==
  ASSUME waiting \in Seq(Caller), waiting # <<>>, waiting' = Tail(waiting)
  PROVE  Head(waiting) \in Queued /\ Queued' \subseteq Queued /\ waiting' \in Seq(Caller)
<1>1. DOMAIN waiting = 1..Len(waiting) /\ Len(waiting) \in Nat \ {0}
  OBVIOUS
<1>2. /\ DOMAIN waiting' = 1..(Len(waiting) - 1) /\ waiting' \in Seq(Caller)
      /\ \A i \in 1..(Len(waiting) - 1) : waiting'[i] = waiting[i + 1]
  OBVIOUS
<1>3. \A i \in DOMAIN waiting' : i + 1 \in DOMAIN waiting /\ waiting'[i] = waiting[i + 1]
  BY <1>1, <1>2
<1>4. Head(waiting) = waiting[1] /\ 1 \in DOMAIN waiting
  BY <1>1
<1> QED
  BY <1>2, <1>3, <1>4 DEF Queued

LEMMA StoreBegins == ASSUME StoreConstants, StoreInit PROVE StoreInv
<1>1. saves = [c \in {} |-> Live] /\ DOMAIN saves = {}
  BY DEF StoreInit
<1>2. StoreTypes
  <2>1. saves \in [DOMAIN saves -> [kind : SaveKinds, rows : SUBSET DocRow]]
    BY <1>1
  <2> QED
    BY <1>1, <2>1 DEF StoreInit, StoreTypes
<1>3. SavedInv /\ WholeInv
  BY <1>1 DEF StoreInit, SavedInv, WholeInv, Whole, At_, Caller, Queued
<1> QED
  BY <1>2, <1>3 DEF StoreInv

LEMMA WriteKeeps ==
  ASSUME StoreConstants, StoreInv, NEW w \in Writer, Write(w)
  PROVE  StoreInv'
<1> USE DEF StoreInv
<1>1. /\ memory' = memory \cup {<<w, 1>>} /\ waiting' = Append(waiting, w)
      /\ caller' = [caller EXCEPT ![w] = "saving"] /\ w \in Caller /\ CallRows(w) = {<<w, 1>>}
      /\ CallRows(w) \subseteq DocRow
      /\ UNCHANGED <<file, saves, draft, overlaid>>
  BY RowsAre DEF Write
<1>2. StoreTypes'
  <2>1. waiting' \in Seq(Caller)
    BY <1>1 DEF StoreTypes
  <2>2. caller' \in [Caller -> {"new", "open", "half", "saving", "done", "failed"}]
    BY <1>1 DEF StoreTypes
  <2> QED
    BY <1>1, <2>1, <2>2 DEF StoreTypes
<1>3. \A c \in DOMAIN saves : Holds(saves[c])' = Holds(saves[c]) \/ (Holds(saves[c])' = memory' /\ Holds(saves[c]) = memory)
  BY <1>1 DEF Holds
<1>4. \A c \in Caller : caller'[c] = caller[c] \/ (c = w /\ caller'[c] = "saving")
  BY <1>1 DEF StoreTypes
<1>5. SavedInv'
  <2>1. Queued' = Queued \cup {w} /\ Kept(w, memory)' /\ \A c \in Queued' : Kept(c, memory)'
    <3>1. Queued' = Queued \cup {w}
      BY <1>1, QueueGrows DEF StoreTypes
    <3> QED
      BY <1>1, <3>1 DEF SavedInv, Kept
  <2>2. \A c \in DOMAIN saves : /\ Kept(c, Holds(saves[c]))' /\ file \ overlaid \subseteq Holds(saves[c])'
                                /\ Holds(saves[c])' \ overlaid \subseteq memory'
    BY <1>1, <1>3 DEF SavedInv, Kept
  <2>3. \A c \in Caller : caller'[c] = "done" => Kept(c, file)'
    BY <1>1, <1>4 DEF SavedInv, Kept, At_
  <2> QED
    <3>1. file' \ overlaid' \subseteq memory'
      BY <1>1 DEF SavedInv
    <3> QED
      BY <1>1, <2>1, <2>2, <2>3, <3>1 DEF SavedInv, At_
<1>6. WholeInv'
  <2> SUFFICES ASSUME NEW b \in Batch
               PROVE  /\ Whole(b, memory') /\ Whole(b, file')
                      /\ \A c \in DOMAIN saves' : Whole(b, Holds(saves[c])')
                      /\ \A d \in Batch \ {b} : caller'[d] \in {"open", "half"} => Whole(b, draft'[d])
                      /\ caller'[b] = "half" => <<b, 1>> \in draft'[b]
    BY DEF WholeInv, Whole, At_
  <2>1. w # b
    BY DEF StoreConstants
  <2>2. Whole(b, memory')
    BY <1>1, <2>1, RowsApart DEF WholeInv
  <2>3. \A c \in DOMAIN saves' : Whole(b, Holds(saves[c])')
    BY <1>1, <1>3, <2>2 DEF WholeInv
  <2> QED
    BY <1>1, <1>4, <2>2, <2>3, RowsAre DEF WholeInv, At_
<1> QED
  BY <1>2, <1>5, <1>6

\* A transaction that goes on in its copy, or gives up.
LEMMA DraftsKeep ==
  ASSUME StoreConstants, StoreInv, NEW b \in Batch, Open(b) \/ Inner(b) \/ Rollback(b)
  PROVE  StoreInv'
<1> USE DEF StoreInv
<1>1. UNCHANGED <<memory, file, waiting, saves, overlaid>> /\ b \in Caller
  BY RowsAre DEF Open, Inner, Rollback, Target
<1>2. \/ /\ caller' = [caller EXCEPT ![b] = "open"] /\ draft' = [draft EXCEPT ![b] = memory]
      \/ /\ caller' = [caller EXCEPT ![b] = "half"] /\ caller[b] = "open"
         /\ draft' = [draft EXCEPT ![b] = draft[b] \cup {<<b, 1>>}]
      \/ caller' = [caller EXCEPT ![b] = "failed"] /\ draft' = draft
  BY DEF Open, Inner, Rollback, Target, At_, StoreTypes
<1>3. <<b, 1>> \in DocRow
  BY RowsAre
<1>4. StoreTypes'
  <2>1. caller' \in [Caller -> {"new", "open", "half", "saving", "done", "failed"}]
    BY <1>2 DEF StoreTypes
  <2>2. draft' \in [Batch -> SUBSET DocRow]
    BY <1>2, <1>3 DEF StoreTypes
  <2> QED
    BY <1>1, <2>1, <2>2 DEF StoreTypes
<1>5. \A c \in DOMAIN saves : Holds(saves[c])' = Holds(saves[c])
  BY <1>1 DEF Holds
<1>6. \A c \in Caller : caller'[c] = caller[c] \/ (c = b /\ caller'[c] # "done")
  BY <1>2 DEF StoreTypes
<1>7. SavedInv'
  BY <1>1, <1>5, <1>6 DEF SavedInv, Kept, Queued, At_
<1>8. WholeInv'
  <2>1. \A d \in Batch : d # b => caller'[d] = caller[d] /\ draft'[d] = draft[d]
    BY <1>2, RowsAre DEF StoreTypes
  <2>2. ASSUME NEW d \in Batch, d # b, caller'[b] \in {"open", "half"} PROVE Whole(d, draft'[b])
    <3>1. CASE draft' = [draft EXCEPT ![b] = memory]
      <4>1. draft'[b] = memory
        BY <3>1 DEF StoreTypes
      <4> QED
        BY <2>2, <4>1 DEF WholeInv
    <3>2. CASE caller[b] = "open" /\ draft' = [draft EXCEPT ![b] = draft[b] \cup {<<b, 1>>}]
      <4>1. draft'[b] = draft[b] \cup {<<b, 1>>} /\ Whole(d, draft[b])
        BY <2>2, <3>2 DEF WholeInv, StoreTypes, At_
      <4>2. Whole(d, draft[b] \cup {<<b, 1>>})
        BY <2>2, <4>1, RowsApart
      <4> QED
        BY <4>1, <4>2
    <3>3. CASE caller' = [caller EXCEPT ![b] = "failed"]
      BY <1>1, <2>2, <3>3 DEF StoreTypes
    <3> QED
      BY <1>2, <3>1, <3>2, <3>3
  <2>3. caller'[b] = "half" => <<b, 1>> \in draft'[b]
    BY <1>1, <1>2 DEF StoreTypes
  <2> SUFFICES ASSUME NEW d \in Batch
               PROVE  /\ Whole(d, memory') /\ Whole(d, file')
                      /\ \A c \in DOMAIN saves' : Whole(d, Holds(saves[c])')
                      /\ \A e \in Batch \ {d} : caller'[e] \in {"open", "half"} => Whole(d, draft'[e])
                      /\ caller'[d] = "half" => <<d, 1>> \in draft'[d]
    BY DEF WholeInv, Whole, At_
  <2>4. \A e \in Batch \ {d} : caller'[e] \in {"open", "half"} => Whole(d, draft'[e])
    BY <2>1, <2>2 DEF WholeInv, At_
  <2> QED
    BY <1>1, <1>5, <2>1, <2>3, <2>4 DEF WholeInv, At_
<1> QED
  BY <1>4, <1>7, <1>8

LEMMA CommitKeeps ==
  ASSUME StoreConstants, StoreInv, NEW b \in Batch, Commit(b)
  PROVE  StoreInv'
<1> USE DEF StoreInv
<1>1. /\ caller[b] = "half" /\ memory' = draft[b] \cup {<<b, 2>>}
      /\ saves' = [c \in DOMAIN saves |-> IF saves[c].kind = "live" THEN Frozen(memory) ELSE saves[c]]
      /\ overlaid' = overlaid \cup (memory \ draft[b])
      /\ waiting' = Append(waiting, b) /\ caller' = [caller EXCEPT ![b] = "saving"]
      /\ UNCHANGED <<file, draft>>
  BY DEF Commit, At_
<1>2. b \in Caller /\ CallRows(b) = {<<b, 1>>, <<b, 2>>} /\ CallRows(b) \subseteq DocRow
  BY RowsAre
<1>3. draft[b] \subseteq DocRow /\ memory \subseteq DocRow
  BY DEF StoreTypes
\* A save that had not been put in words goes on with the document of before.
<1>4. DOMAIN saves' = DOMAIN saves /\ \A c \in DOMAIN saves : Holds(saves[c])' = Holds(saves[c])
  <2> SUFFICES ASSUME NEW c \in DOMAIN saves PROVE Holds(saves[c])' = Holds(saves[c])
    BY <1>1
  <2>1. CASE saves[c].kind = "live"
    <3>1. saves'[c] = Frozen(memory)
      BY <1>1, <2>1
    <3> QED
      BY <2>1, <3>1 DEF Holds, Frozen
  <2>2. CASE saves[c].kind # "live"
    BY <1>1, <2>2 DEF Holds
  <2> QED
    BY <2>1, <2>2
<1>5. StoreTypes'
  <2>1. saves' \in [DOMAIN saves' -> [kind : SaveKinds, rows : SUBSET DocRow]]
    <3>1. \A c \in DOMAIN saves : saves'[c] \in [kind : SaveKinds, rows : SUBSET DocRow]
      BY <1>1, <1>3 DEF StoreTypes, Frozen, SaveKinds
    <3> QED
      BY <1>1, <3>1
  <2>2. caller' \in [Caller -> {"new", "open", "half", "saving", "done", "failed"}]
    BY <1>1 DEF StoreTypes
  <2>3. waiting' \in Seq(Caller)
    BY <1>1, <1>2 DEF StoreTypes
  <2>4. memory' \subseteq DocRow
    BY <1>1, <1>2, <1>3
  <2> QED
    BY <1>1, <1>4, <2>1, <2>2, <2>3, <2>4 DEF StoreTypes
<1>6. \A c \in Caller : caller'[c] = caller[c] \/ (c = b /\ caller'[c] = "saving")
  BY <1>1 DEF StoreTypes
<1>7. memory \ overlaid' \subseteq memory' /\ overlaid \subseteq overlaid'
  BY <1>1
<1>8. CallRows(b) \subseteq memory'
  BY <1>1, <1>2 DEF WholeInv, At_
<1>9. SavedInv'
  <2>1. file' \ overlaid' \subseteq memory'
    BY <1>1, <1>7 DEF SavedInv
  <2>2. \A c \in Queued' : Kept(c, memory)'
    <3>1. Queued' = Queued \cup {b}
      BY <1>1, <1>2, QueueGrows DEF StoreTypes
    <3> QED
      BY <1>7, <1>8, <3>1 DEF SavedInv, Kept
  <2>3. \A c \in DOMAIN saves : /\ Kept(c, Holds(saves[c]))'
                                /\ file' \ overlaid' \subseteq Holds(saves[c])'
                                /\ Holds(saves[c])' \ overlaid' \subseteq memory'
    BY <1>1, <1>4, <1>7 DEF SavedInv, Kept
  <2>4. \A c \in Caller : caller'[c] = "done" => Kept(c, file)'
    BY <1>1, <1>6, <1>7 DEF SavedInv, Kept, At_
  <2> QED
    BY <1>4, <2>1, <2>2, <2>3, <2>4 DEF SavedInv, At_
<1>10. WholeInv'
  <2> SUFFICES ASSUME NEW d \in Batch
               PROVE  /\ Whole(d, memory') /\ Whole(d, file')
                      /\ \A c \in DOMAIN saves' : Whole(d, Holds(saves[c])')
                      /\ \A e \in Batch \ {d} : caller'[e] \in {"open", "half"} => Whole(d, draft'[e])
                      /\ caller'[d] = "half" => <<d, 1>> \in draft'[d]
    BY DEF WholeInv, Whole, At_
  <2>1. Whole(d, memory')
    <3>1. CASE d = b
      BY <1>8, <3>1 DEF Whole
    <3>2. CASE d # b
      BY <1>1, <3>2, RowsApart DEF WholeInv, At_
    <3> QED
      BY <3>1, <3>2
  <2> QED
    BY <1>1, <1>4, <1>6, <2>1, RowsAre DEF WholeInv, At_
<1> QED
  BY <1>5, <1>9, <1>10

\* What has been saved and is kept does not change with the documents' callers.
LEMMA BeginKeeps ==
  ASSUME StoreConstants, StoreInv, Begin
  PROVE  StoreInv'
<1> USE DEF StoreInv
<1>0. PICK c : c = Head(waiting)
  OBVIOUS
<1>1. /\ waiting # <<>> /\ DOMAIN saves = {} /\ waiting' = Tail(waiting)
      /\ saves' = Put(saves, c, Live)
      /\ UNCHANGED <<memory, file, caller, draft, overlaid>>
  BY <1>0 DEF Begin, NoSave
<1>2. c \in Queued /\ Queued' \subseteq Queued /\ waiting' \in Seq(Caller) /\ c \in Caller
  <2>1. Head(waiting) \in Queued /\ Queued' \subseteq Queued /\ waiting' \in Seq(Caller)
    BY <1>1, QueueShrinks DEF StoreTypes
  <2>2. Queued \subseteq Caller
    BY DEF Queued, StoreTypes
  <2> QED
    BY <1>0, <2>1, <2>2
<1>3. DOMAIN saves' = {c} /\ saves'[c] = Live /\ saves' = [d \in {c} |-> Live]
  BY <1>1 DEF Put
<1>4. Holds(saves[c])' = memory'
  BY <1>3 DEF Holds, Live
<1>5. StoreTypes'
  <2>1. Live \in [kind : SaveKinds, rows : SUBSET DocRow]
    BY DEF Live, SaveKinds
  <2>2. saves' \in [DOMAIN saves' -> [kind : SaveKinds, rows : SUBSET DocRow]]
    BY <1>3, <2>1
  <2> QED
    BY <1>1, <1>2, <1>3, <2>2 DEF StoreTypes
<1>6. SavedInv'
  <2>1. \A d \in DOMAIN saves' : /\ Kept(d, Holds(saves[d]))' /\ file' \ overlaid' \subseteq Holds(saves[d])'
                                 /\ Holds(saves[d])' \ overlaid' \subseteq memory'
    BY <1>1, <1>2, <1>3, <1>4 DEF SavedInv, Kept
  <2> QED
    BY <1>1, <1>2, <2>1 DEF SavedInv, Kept, At_
<1>7. WholeInv'
  <2>1. \A b \in Batch, d \in DOMAIN saves' : Whole(b, Holds(saves[d]))'
    BY <1>1, <1>3, <1>4 DEF WholeInv, Whole
  <2> QED
    BY <1>1, <2>1 DEF WholeInv, Whole, At_
<1> QED
  BY <1>5, <1>6, <1>7

LEMMA SerializeKeeps ==
  ASSUME StoreConstants, StoreInv, NEW c \in DOMAIN saves, Serialize(c)
  PROVE  StoreInv'
<1> USE DEF StoreInv
<1> DEFINE words == [kind |-> "words", rows |-> Holds(saves[c])]
<1>1. /\ saves' = [saves EXCEPT ![c] = words] /\ file' = file
      /\ UNCHANGED <<memory, waiting, caller, draft, overlaid>>
  BY DEF Serialize, Scratch
<1>2. words.kind = "words" /\ words.rows = Holds(saves[c]) /\ Holds(saves[c]) \subseteq DocRow
  BY DEF StoreTypes, Holds
<1>3. words \in [kind : SaveKinds, rows : SUBSET DocRow]
  BY <1>2 DEF SaveKinds
<1> HIDE DEF words
<1>4. DOMAIN saves' = DOMAIN saves /\ \A d \in DOMAIN saves : Holds(saves[d])' = Holds(saves[d])
  BY <1>1, <1>2 DEF Holds, StoreTypes
<1>5. StoreTypes'
  <2>1. saves' \in [DOMAIN saves -> [kind : SaveKinds, rows : SUBSET DocRow]]
    BY <1>1, <1>3 DEF StoreTypes
  <2> QED
    BY <1>1, <1>4, <2>1 DEF StoreTypes
<1>6. SavedInv'
  BY <1>1, <1>4 DEF SavedInv, Kept, At_, Queued
<1>7. WholeInv'
  <2>1. \A b \in Batch, d \in DOMAIN saves' : Whole(b, Holds(saves[d]))'
    <3> SUFFICES ASSUME NEW b \in Batch, NEW d \in DOMAIN saves PROVE Whole(b, Holds(saves[d]))'
      BY <1>4
    <3>1. Whole(b, Holds(saves[d])) /\ Holds(saves[d])' = Holds(saves[d])
      BY <1>4 DEF WholeInv
    <3> QED
      BY <3>1 DEF Whole
  <2> QED
    BY <1>1, <2>1 DEF WholeInv, Whole, At_
<1> QED
  BY <1>5, <1>6, <1>7

LEMMA WithoutGives ==
  ASSUME StoreTypes, NEW c \in DOMAIN saves, saves' = Without(saves, c)
  PROVE  /\ DOMAIN saves' = {} /\ saves' \in [DOMAIN saves' -> [kind : SaveKinds, rows : SUBSET DocRow]]
<1>1. DOMAIN saves' = {}
  BY DEF StoreTypes, Without
<1> QED
  BY <1>1 DEF Without

LEMMA RenameKeeps ==
  ASSUME StoreConstants, StoreInv, NEW c \in DOMAIN saves, Rename(c)
  PROVE  StoreInv' /\ FileGoesForward
<1> USE DEF StoreInv
<1>1. /\ file' = Holds(saves[c]) /\ saves' = Without(saves, c)
      /\ caller' = [caller EXCEPT ![c] = "done"]
      /\ UNCHANGED <<memory, waiting, draft, overlaid>>
  BY DEF Rename, Holds
<1>2. DOMAIN saves' = {} /\ saves' \in [DOMAIN saves' -> [kind : SaveKinds, rows : SUBSET DocRow]]
  BY <1>1, WithoutGives
<1>3. file' \subseteq DocRow /\ file \ overlaid \subseteq file' /\ file' \ overlaid \subseteq memory
      /\ Kept(c, file') /\ \A b \in Batch : Whole(b, file')
  BY <1>1 DEF StoreTypes, Holds, SavedInv, WholeInv
<1>4. c \in Caller /\ \A d \in Caller : caller'[d] = caller[d] \/ (d = c /\ caller'[d] = "done")
  BY <1>1 DEF StoreTypes
<1>5. StoreTypes'
  BY <1>1, <1>2, <1>3 DEF StoreTypes
<1>6. SavedInv'
  <2>1. \A d \in Caller : caller'[d] = "done" => Kept(d, file)'
    BY <1>1, <1>3, <1>4 DEF SavedInv, Kept, At_
  <2> QED
    BY <1>1, <1>2, <1>3, <2>1 DEF SavedInv, Kept, At_, Queued
<1>7. WholeInv'
  BY <1>1, <1>2, <1>3, <1>4, RowsAre DEF WholeInv, Whole, At_
<1> QED
  BY <1>1, <1>3, <1>5, <1>6, <1>7 DEF FileGoesForward

LEMMA FailSaveKeeps ==
  ASSUME StoreConstants, StoreInv, NEW c \in DOMAIN saves, FailSave(c)
  PROVE  StoreInv'
<1> USE DEF StoreInv
<1>1. /\ saves' = Without(saves, c) /\ caller' = [caller EXCEPT ![c] = "failed"]
      /\ UNCHANGED <<memory, file, waiting, draft, overlaid>>
  BY DEF FailSave
<1>2. DOMAIN saves' = {} /\ saves' \in [DOMAIN saves' -> [kind : SaveKinds, rows : SUBSET DocRow]]
  BY <1>1, WithoutGives
<1>3. c \in Caller /\ \A d \in Caller : caller'[d] = caller[d] \/ (d = c /\ caller'[d] = "failed")
  BY <1>1 DEF StoreTypes
<1>4. StoreTypes'
  BY <1>1, <1>2 DEF StoreTypes
<1>5. SavedInv'
  BY <1>1, <1>2, <1>3 DEF SavedInv, Kept, At_, Queued
<1>6. WholeInv'
  BY <1>1, <1>2, <1>3, RowsAre DEF WholeInv, Whole, At_
<1> QED
  BY <1>4, <1>5, <1>6

\* The file is never half written: its rows are rows of the document.
LEMMA NotTorn == ASSUME StoreTypes PROVE FileIsWhole
<1>1. <<"torn", 0>> \notin DocRow
  <2>1. \A r \in DocRow : r[2] \in {1, 2}
    BY DEF DocRow, CallRows
  <2>2. <<"torn", 0>>[2] = 0
    OBVIOUS
  <2> QED
    BY <2>1, <2>2
<1> QED
  BY <1>1 DEF StoreTypes, FileIsWhole, Torn

LEMMA DieKeeps ==
  ASSUME StoreConstants, StoreInv, Die
  PROVE  StoreInv'
<1> USE DEF StoreInv
<1>1. /\ memory' = file /\ waiting' = <<>> /\ saves' = [c \in {} |-> Live]
      /\ caller' = [c \in Caller |-> IF caller[c] \in {"done", "failed", "new"} THEN caller[c] ELSE "failed"]
      /\ UNCHANGED <<file, draft, overlaid>>
  BY NotTorn DEF Die, FileIsWhole
<1>2. DOMAIN saves' = {} /\ saves' \in [DOMAIN saves' -> [kind : SaveKinds, rows : SUBSET DocRow]]
  BY <1>1
<1>3. \A c \in Caller : /\ caller'[c] \in {"new", "done", "failed"}
                        /\ caller'[c] = "done" => caller[c] = "done"
  BY <1>1
<1>4. StoreTypes'
  <2>1. caller' \in [Caller -> {"new", "open", "half", "saving", "done", "failed"}]
    BY <1>1, <1>3
  <2> QED
    BY <1>1, <1>2, <2>1 DEF StoreTypes
<1>5. SavedInv'
  BY <1>1, <1>2, <1>3 DEF SavedInv, Kept, At_, Queued
<1>6. WholeInv'
  BY <1>1, <1>2, <1>3, RowsAre DEF WholeInv, Whole, At_
<1> QED
  BY <1>4, <1>5, <1>6

LEMMA StoreStep ==
  ASSUME StoreConstants, StoreInv, [StoreNext]_storeVars
  PROVE  StoreInv' /\ FileGoesForward
<1>1. StoreInv'
  <2>1. CASE UNCHANGED storeVars
    <3>1. \A c \in DOMAIN saves : Holds(saves[c])' = Holds(saves[c])
      BY <2>1 DEF storeVars, Holds
    <3> QED
      BY <2>1, <3>1 DEF storeVars, StoreInv, StoreTypes, SavedInv, WholeInv, Kept, Whole, At_, Queued
  <2> QED
    BY <2>1, WriteKeeps, DraftsKeep, CommitKeeps, BeginKeeps, SerializeKeeps, RenameKeeps,
       FailSaveKeeps, DieKeeps DEF StoreNext
<1>2. FileGoesForward
  <2>1. CASE \E c \in DOMAIN saves : Rename(c)
    BY <2>1, RenameKeeps
  <2>2. CASE UNCHANGED file
    BY <2>2 DEF FileGoesForward
  <2> QED
    BY <2>1, <2>2 DEF StoreNext, storeVars, Write, Open, Inner, Commit, Rollback, Begin,
       Serialize, Scratch, FailSave, Die
<1> QED
  BY <1>1, <1>2

LEMMA StoreInvIsSafe ==
  ASSUME StoreConstants, StoreInv
  PROVE  StoreTypeOK /\ FileIsWhole /\ AckedIsDurable /\ AllOrNothing
<1> USE DEF StoreInv
<1>1. Cardinality(DOMAIN saves) <= 1
  <2>1. CASE DOMAIN saves = {}
    BY <2>1, FS_EmptySet
  <2>2. ASSUME NEW c \in DOMAIN saves PROVE Cardinality(DOMAIN saves) <= 1
    <3>1. DOMAIN saves = {c}
      BY DEF StoreTypes
    <3>2. Cardinality({c}) = 1
      BY FS_Singleton
    <3> QED
      BY <3>1, <3>2
  <2> QED
    BY <2>1, <2>2
<1>2. StoreTypeOK
  BY <1>1 DEF StoreTypes, StoreTypeOK
<1>3. AckedIsDurable
  BY DEF AckedIsDurable, SavedInv, Kept
<1>4. AllOrNothing
  BY DEF AllOrNothing, WholeInv, Whole
<1> QED
  BY <1>2, <1>3, <1>4, NotTorn

\* The file is always a whole document, holds what was acknowledged but for what
\* a transaction overlaid, has all of a transaction or nothing, and never goes
\* back (jsonfile.js:277, 311, 1259).
THEOREM StoreIsKept == ASSUME StoreConstants PROVE StoreSpec => [][StoreKept]_storeVars
<1>1. StoreInit => StoreInv
  BY StoreBegins
<1>2. StoreInv /\ [StoreNext]_storeVars => StoreInv' /\ FileGoesForward
  BY StoreStep
<1>3. StoreInv => StoreTypeOK /\ FileIsWhole /\ AckedIsDurable /\ AllOrNothing
  BY StoreInvIsSafe
<1>4. StoreInv' => (StoreTypeOK /\ FileIsWhole /\ AckedIsDurable /\ AllOrNothing)'
  BY <1>3, PTL
<1>5. StoreInv /\ [StoreNext]_storeVars => StoreInv' /\ [StoreKept]_storeVars
  BY <1>2, <1>4 DEF StoreKept
<1> QED
  BY <1>1, <1>5, PTL DEF StoreSpec

-----------------------------------------------------------------------------
(* The release.  The argument: of two commands that write under one name,  *)
(* one found the other with it, or the name says the second they both were *)
(* composed in; so what takes the baseline's place was composed before the *)
(* report that is judged, or in its second.                                *)

\* "Nothing" is no identity of a golden set, no name and no result.
Goldens == [identity : {None, 1, 2}, judged : BOOLEAN, passed : BOOLEAN]
ReportNames == {7, 30} \X {1, 2} \X Nat
ReleaseConstants == None \notin Nat \cup Goldens \cup ReportNames

Reports == [days : {7, 30}, code : {1, 2}, at : Nat, c4 : {0, Unread, Down},
            golden : Goldens, baselineRef : ReportNames \cup {None}, seq : Nat]
Working == [pc : {"golden", "read", "compose", "write", "judge", "judged", "released"},
            days : {7, 30}, failed : SUBSET {"golden", "metrics", "build"},
            golden : Goldens \cup {None}, c4 : {0, Unread, Down, None},
            report : Reports \cup {None}, name : ReportNames \cup {None},
            base : Reports \cup {None}]
Composed == {"write", "judge", "judged", "released"}

\* A report's name tells the second it was composed in, unless it is the first.
Fits(n, r) == n \in ReportNames /\ r \in Reports /\ n[3] \in {0, r.at}
WorkInv ==
  /\ now \in Nat \ {0} /\ made \in Nat /\ lost \in Nat
  /\ world \in [code : {1, 2}, set : {None, 1, 2}, passes : BOOLEAN, c4 : {0}]
  /\ proc \in [Command -> Working \cup {Resting}]
  /\ \A c \in Command : proc[c].pc \in Composed =>
       /\ Fits(proc[c].name, proc[c].report) /\ proc[c].golden = proc[c].report.golden
       /\ proc[c].report.days = proc[c].days
       /\ proc[c].report.at <= now /\ proc[c].report.seq <= made
  /\ \A c \in Command : proc[c].pc = "compose" =>
       proc[c].golden \in Goldens /\ proc[c].c4 \in {0, Unread, Down}
  /\ proc["report"].pc \in {"rest", "read", "compose", "write"}
FilesInv ==
  /\ \A n \in DOMAIN files : Fits(n, files[n]) /\ files[n].at <= now /\ files[n].seq <= made
  /\ PointerHolds
  /\ \A w \in written : Fits(w.name, w.report) /\ w.name \in DOMAIN files

\* Two that write under one name have been seen; a first name that is taken too.
NamesInv ==
  /\ \A c, o \in Command :
       proc[c].pc = "write" /\ proc[o].pc = "write" /\ c # o /\ proc[c].name = proc[o].name
         => proc[c].name \in overlap
  /\ \A c \in Command :
       proc[c].pc = "write" /\ proc[c].name[3] = 0 /\ proc[c].name \in DOMAIN files
         => proc[c].name \in overlap

\* What is in the baseline's place, or on its way there.
Before(b, r) == b.seq < r.seq \/ b.at = r.at
BaseInv ==
  LET r == proc["release"].report
      n == r.baselineRef
  IN proc["release"].pc \in {"write", "judge"} /\ n # None =>
       /\ n \in DOMAIN files /\ n[3] <= r.at /\ Before(files[n], r)
       /\ proc["report"].pc = "write" /\ proc["report"].name = n
            => Before(proc["report"].report, r)

\* What the golden sets said where the release ran them itself.
RanInv ==
  proc["release"].pc \in {"read", "compose"} \cup Composed =>
    \/ lost > 0
    \/ /\ proc["release"].golden \in Goldens
       /\ "golden" \in proc["release"].failed \/ goldenGatePass(proc["release"].golden)
VerdictInv ==
  LET p == proc["release"]
  IN p.pc \in {"judged", "released"} /\ p.report.c4 # Down =>
       "metrics" \in p.failed \/
       /\ p.report.golden.judged /\ p.base # None /\ p.base.days = p.days
       /\ p.report.c4 # Unread /\ Before(p.base, p.report)

\* One golden set, one outcome, as long as the shell is not touched.
Says(g, first) == g.passed => g.identity = 1 /\ first
SaysNot(g, first) == g.identity = 1 => g.passed = first
Steady(g, first) == Says(g, first) /\ SaysNot(g, first)
ShellInv ==
  ~touched => \E first \in BOOLEAN :
    /\ \A n \in DOMAIN files : Steady(files[n].golden, first)
    /\ \A c \in Command : proc[c].pc # "rest" /\ proc[c].golden # None =>
         Steady(proc[c].golden, first)
    /\ world.passes => world.set = 1 /\ first
    /\ world.set = 1 => world.passes = first

ReleaseInv == /\ WorkInv /\ FilesInv /\ NamesInv /\ BaseInv /\ RanInv
              /\ VerdictInv /\ ShellInv /\ ReportsKept

LEMMA AtIs ==
  ASSUME WorkInv, NEW c \in Command, NEW p \in Working \cup {Resting}, At(c, p)
  PROVE  /\ proc' \in [Command -> Working \cup {Resting}]
         /\ \A d \in Command : proc'[d] = IF d = c THEN p ELSE proc[d]
BY DEF WorkInv, At

LEMMA WorksIs ==
  ASSUME WorkInv, NEW c \in Command, proc[c].pc # "rest" PROVE proc[c] \in Working
BY DEF WorkInv, Resting

\* One command goes on; the clocks do not go back.
LEMMA WorkGoes ==
  ASSUME WorkInv, NEW c \in Command, NEW p \in Working \cup {Resting}, At(c, p),
         now' = now, made' \in Nat, made' >= made, lost' \in Nat, UNCHANGED world,
         p.pc \in Composed =>
           /\ Fits(p.name, p.report) /\ p.golden = p.report.golden
           /\ p.report.days = p.days /\ p.report.at <= now /\ p.report.seq <= made',
         p.pc = "compose" => p.golden \in Goldens /\ p.c4 \in {0, Unread, Down},
         c = "report" => p.pc \in {"rest", "read", "compose", "write"}
  PROVE  WorkInv'
<1>1. /\ proc' \in [Command -> Working \cup {Resting}]
      /\ \A d \in Command : proc'[d] = IF d = c THEN p ELSE proc[d]
  BY AtIs
<1>2. ASSUME NEW d \in Command, proc'[d].pc \in Composed
      PROVE  /\ Fits(proc'[d].name, proc'[d].report)
             /\ proc'[d].golden = proc'[d].report.golden
             /\ proc'[d].report.days = proc'[d].days
             /\ proc'[d].report.at <= now' /\ proc'[d].report.seq <= made'
  <2>1. CASE d = c
    BY <1>1, <1>2, <2>1
  <2>2. CASE d # c
    <3>1. proc'[d] = proc[d]
      BY <1>1, <2>2
    <3>2. /\ Fits(proc[d].name, proc[d].report) /\ proc[d].golden = proc[d].report.golden
          /\ proc[d].report.days = proc[d].days
          /\ proc[d].report.at <= now /\ proc[d].report.seq <= made /\ made \in Nat
      BY <1>2, <3>1 DEF WorkInv
    <3>3. proc[d].report.seq \in Nat
      BY <3>2 DEF Fits, Reports
    <3> QED
      BY <3>1, <3>2, <3>3
  <2> QED
    BY <2>1, <2>2
<1>3. \A d \in Command : proc'[d].pc = "compose" =>
        proc'[d].golden \in Goldens /\ proc'[d].c4 \in {0, Unread, Down}
  BY <1>1 DEF WorkInv
<1>4. proc'["report"].pc \in {"rest", "read", "compose", "write"}
  BY <1>1 DEF WorkInv, Command
<1> QED
  BY <1>1, <1>2, <1>3, <1>4 DEF WorkInv

LEMMA FilesStay ==
  ASSUME WorkInv, FilesInv, UNCHANGED <<files, pointer, written>>,
         now' \in Nat, now' >= now, made' \in Nat, made' >= made
  PROVE  FilesInv'
<1>1. ASSUME NEW n \in DOMAIN files
      PROVE  Fits(n, files[n]) /\ files[n].at <= now' /\ files[n].seq <= made'
  <2>1. Fits(n, files[n]) /\ files[n].at <= now /\ files[n].seq <= made
    BY DEF FilesInv
  <2>2. files[n].at \in Nat /\ files[n].seq \in Nat /\ now \in Nat /\ made \in Nat
    BY <2>1 DEF Fits, Reports, WorkInv
  <2> QED
    BY <2>1, <2>2
<1> QED
  BY <1>1 DEF FilesInv, PointerHolds

LEMMA NamesStay ==
  ASSUME NamesInv, UNCHANGED <<files, overlap>>,
         \A d \in Command : proc'[d].pc = "write" => proc[d].pc = "write"
                                                     /\ proc'[d].name = proc[d].name
  PROVE  NamesInv'
BY DEF NamesInv

LEMMA BaseStays ==
  ASSUME BaseInv, UNCHANGED files,
         proc'["release"].pc \in {"write", "judge"} =>
           /\ proc["release"].pc \in {"write", "judge"}
           /\ proc'["release"].report = proc["release"].report,
         proc'["report"].pc = "write" =>
           /\ proc["report"].pc = "write" /\ proc'["report"].name = proc["report"].name
           /\ proc'["report"].report = proc["report"].report
  PROVE  BaseInv'
BY DEF BaseInv, Before

LEMMA RanStays ==
  ASSUME RanInv, WorkInv, lost' \in {lost, lost + 1},
         proc'["release"].pc \in {"read", "compose"} \cup Composed =>
           /\ proc["release"].pc \in {"read", "compose"} \cup Composed
           /\ \/ proc'["release"].golden = proc["release"].golden
              \/ proc["release"].golden \notin Goldens
           /\ proc["release"].failed \subseteq proc'["release"].failed
  PROVE  RanInv'
<1>1. lost \in Nat
  BY DEF WorkInv
<1> QED
  BY <1>1 DEF RanInv, goldenGatePass

LEMMA VerdictStays ==
  ASSUME VerdictInv,
         proc'["release"].pc \in {"judged", "released"} =>
           /\ proc["release"].pc \in {"judged", "released"}
           /\ proc'["release"].report = proc["release"].report
           /\ proc'["release"].base = proc["release"].base
           /\ proc'["release"].days = proc["release"].days
           /\ proc["release"].failed \subseteq proc'["release"].failed
  PROVE  VerdictInv'
BY DEF VerdictInv, Before

\* What is said of a golden set now is what was said of it.
LEMMA ShellStays ==
  ASSUME ReleaseConstants, WorkInv, ShellInv, UNCHANGED <<files, touched, world>>,
         \A d \in Command : proc'[d].pc # "rest" /\ proc'[d].golden # None =>
           \/ proc[d].pc # "rest" /\ proc'[d].golden = proc[d].golden
           \/ proc'[d].golden \in {runGoldenGate, NotRun}
  PROVE  ShellInv'
<1> SUFFICES ASSUME ~touched
             PROVE  \E first \in BOOLEAN :
                      /\ \A n \in DOMAIN files : Steady(files[n].golden, first)
                      /\ \A c \in Command : proc'[c].pc # "rest" /\ proc'[c].golden # None =>
                           Steady(proc'[c].golden, first)
                      /\ world.passes => world.set = 1 /\ first
                      /\ world.set = 1 => world.passes = first
  BY DEF ShellInv, Steady, Says, SaysNot
<1>1. PICK first \in BOOLEAN :
        /\ \A n \in DOMAIN files : Steady(files[n].golden, first)
        /\ \A c \in Command : proc[c].pc # "rest" /\ proc[c].golden # None =>
             Steady(proc[c].golden, first)
        /\ world.passes => world.set = 1 /\ first
        /\ world.set = 1 => world.passes = first
  BY DEF ShellInv
<1>2. None # 1
  BY DEF ReleaseConstants
<1>3. Steady(NotRun, first)
  BY <1>2 DEF Steady, Says, SaysNot, NotRun
<1>4. Steady(runGoldenGate, first)
  <2>1. CASE world.set = None
    BY <1>2, <2>1 DEF Steady, Says, SaysNot, runGoldenGate
  <2>2. CASE world.set # None
    BY <1>1, <2>2 DEF Steady, Says, SaysNot, runGoldenGate
  <2> QED
    BY <2>1, <2>2
<1>5. \A c \in Command : proc'[c].pc # "rest" /\ proc'[c].golden # None =>
        Steady(proc'[c].golden, first)
  BY <1>1, <1>3, <1>4
<1> QED
  BY <1>1, <1>5

LEMMA KeptStay ==
  ASSUME ReportsKept, UNCHANGED <<files, written>>, overlap \subseteq overlap' PROVE ReportsKept'
BY DEF ReportsKept

LEMMA ReleaseStarts == ASSUME ReleaseConstants, ReleaseInit PROVE ReleaseInv
<1>1. /\ now = 1 /\ files = [n \in {} |-> None] /\ DOMAIN files = {} /\ pointer = None
      /\ proc = [c \in Command |-> Resting] /\ written = {} /\ overlap = {} /\ lost = 0
      /\ made = 0 /\ world \in [code : {1}, set : {None, 1}, passes : BOOLEAN, c4 : {0}]
      /\ world.set = None => ~world.passes
  BY DEF ReleaseInit
<1>2. \A c \in Command : proc[c] = Resting /\ proc[c].pc = "rest"
  BY <1>1 DEF Resting
<1>3. WorkInv
  <2>1. world \in [code : {1, 2}, set : {None, 1, 2}, passes : BOOLEAN, c4 : {0}]
    BY <1>1
  <2> QED
    BY <1>1, <1>2, <2>1 DEF WorkInv, Composed, Command
<1>4. FilesInv /\ ReportsKept
  BY <1>1 DEF FilesInv, PointerHolds, ReportsKept
<1>5. NamesInv /\ BaseInv /\ RanInv /\ VerdictInv
  BY <1>2 DEF NamesInv, BaseInv, RanInv, VerdictInv, Command, Composed
<1>6. ShellInv
  <2>1. world.passes \in BOOLEAN /\ world.set \in {None, 1}
    BY <1>1
  <2>2. /\ \A n \in DOMAIN files : Steady(files[n].golden, world.passes)
        /\ \A c \in Command : proc[c].pc # "rest" /\ proc[c].golden # None =>
             Steady(proc[c].golden, world.passes)
        /\ world.passes => world.set = 1 /\ world.passes
        /\ world.set = 1 => world.passes = world.passes
    BY <1>1, <1>2, <2>1
  <2> QED
    BY <2>1, <2>2 DEF ShellInv
<1> QED
  BY <1>3, <1>4, <1>5, <1>6 DEF ReleaseInv

LEMMA StartKeeps ==
  ASSUME ReleaseConstants, ReleaseInv, NEW c \in Command, NEW days \in {7, 30}, Start(c, days)
  PROVE  ReleaseInv'
<1> DEFINE p == [pc |-> IF c = "release" THEN "golden" ELSE "read", days |-> days, failed |-> {},
                 golden |-> None, c4 |-> None, report |-> None, name |-> None, base |-> None]
<1>1. /\ p \in Working /\ p.golden = None
      /\ p.pc = IF c = "release" THEN "golden" ELSE "read"
  BY DEF Working
<1>2. At(c, p) /\ UNCHANGED <<tree, files, pointer, written, overlap, made, lost>>
  BY DEF Start
<1> HIDE DEF p
<1>3. \A d \in Command : proc'[d] = IF d = c THEN p ELSE proc[d]
  BY <1>1, <1>2, AtIs DEF ReleaseInv
<1>4. c \in {"release", "report"} /\ "release" \in Command /\ "report" \in Command
  BY DEF Command
<1>5. WorkInv'
  BY <1>1, <1>2, <1>4, WorkGoes DEF ReleaseInv, WorkInv, Composed, tree
<1>6. FilesInv'
  BY <1>2, FilesStay DEF ReleaseInv, WorkInv, tree
<1>7. NamesInv' /\ BaseInv'
  BY <1>1, <1>2, <1>3, <1>4, NamesStay, BaseStays DEF ReleaseInv
<1>8. RanInv' /\ VerdictInv'
  BY <1>1, <1>2, <1>3, <1>4, RanStays, VerdictStays DEF ReleaseInv, Composed
<1>9. ShellInv'
  BY <1>1, <1>2, <1>3, <1>4, ShellStays DEF ReleaseInv, tree
<1>10. ReportsKept'
  BY <1>2, KeptStay DEF ReleaseInv
<1> QED
  BY <1>5, <1>6, <1>7, <1>8, <1>9, <1>10 DEF ReleaseInv

LEMMA GateIs == ASSUME WorkInv PROVE runGoldenGate \in Goldens /\ NotRun \in Goldens
BY DEF WorkInv, runGoldenGate, NotRun, Goldens

LEMMA GoldenStepKeeps ==
  ASSUME ReleaseConstants, ReleaseInv, NEW fails \in BOOLEAN, GoldenStep(fails)
  PROVE  ReleaseInv'
<1> DEFINE g == IF fails THEN None ELSE runGoldenGate
           f == IF ~fails /\ ~goldenGatePass(runGoldenGate) THEN {"golden"} ELSE {}
           p == [proc["release"] EXCEPT !.pc = "read", !.golden = g, !.failed = f]
<1>1. "release" \in Command /\ "report" \in Command /\ proc["release"] \in Working
      /\ proc["release"].pc = "golden" /\ lost \in Nat
  BY WorksIs DEF Command, GoldenStep, ReleaseInv, WorkInv
<1>2. g \in Goldens \cup {None} /\ f \in SUBSET {"golden", "metrics", "build"}
  BY GateIs DEF ReleaseInv
<1>3. p \in Working /\ p.pc = "read" /\ p.golden = g /\ p.failed = f
  <2> HIDE DEF g, f
  <2> QED
    BY <1>1, <1>2 DEF Working
<1>4. At("release", p) /\ UNCHANGED <<tree, files, pointer, written, overlap, started, made>>
      /\ LoseRead(fails)
  BY DEF GoldenStep
<1>5. lost' = IF fails THEN lost + 1 ELSE lost
  BY <1>4 DEF LoseRead
<1>6. g = None \/ g = runGoldenGate
  OBVIOUS
<1>7. ~fails => g \in Goldens /\ ("golden" \in f \/ goldenGatePass(g))
  BY GateIs DEF ReleaseInv
<1> HIDE DEF p, g, f
<1>8. \A d \in Command : proc'[d] = IF d = "release" THEN p ELSE proc[d]
  BY <1>1, <1>3, <1>4, AtIs DEF ReleaseInv
<1>9. WorkInv'
  BY <1>1, <1>3, <1>4, <1>5, WorkGoes DEF ReleaseInv, WorkInv, Composed, tree
<1>10. FilesInv'
  BY <1>4, FilesStay DEF ReleaseInv, WorkInv, tree
<1>11. NamesInv' /\ BaseInv'
  BY <1>1, <1>3, <1>4, <1>8, NamesStay, BaseStays DEF ReleaseInv
<1>12. RanInv'
  BY <1>1, <1>3, <1>5, <1>7, <1>8 DEF RanInv, goldenGatePass
<1>13. VerdictInv'
  BY <1>1, <1>3, <1>8, VerdictStays DEF ReleaseInv
<1>14. ShellInv'
  BY <1>1, <1>3, <1>4, <1>6, <1>8, ShellStays DEF ReleaseInv, tree
<1>15. ReportsKept'
  BY <1>4, KeptStay DEF ReleaseInv
<1> QED
  BY <1>9, <1>10, <1>11, <1>12, <1>13, <1>14, <1>15 DEF ReleaseInv

LEMMA CollectKeeps ==
  ASSUME ReleaseConstants, ReleaseInv, NEW c \in Command, NEW got \in {0, Unread, Down},
         NEW fails \in BOOLEAN, Collect(c, got, fails)
  PROVE  ReleaseInv'
<1> DEFINE g == IF proc[c].golden # None THEN proc[c].golden
                ELSE IF fails THEN NotRun ELSE runGoldenGate
           p == [proc[c] EXCEPT !.pc = "compose", !.c4 = got, !.golden = g]
<1>1. proc[c] \in Working /\ proc[c].pc = "read" /\ lost \in Nat
      /\ "release" \in Command /\ "report" \in Command
  BY WorksIs DEF Collect, ReleaseInv, WorkInv, Command
<1>2. g \in Goldens
  BY <1>1, GateIs DEF ReleaseInv, Working
<1>3. p \in Working /\ p.pc = "compose" /\ p.golden = g /\ p.failed = proc[c].failed /\ p.c4 = got
  <2> HIDE DEF g
  <2> QED
    BY <1>1, <1>2 DEF Working
<1>4. At(c, p) /\ UNCHANGED <<tree, files, pointer, written, overlap, started, made>>
      /\ lost' \in {lost, lost + 1}
  BY DEF Collect, LoseRead
<1>5. \/ g = proc[c].golden
      \/ proc[c].golden = None /\ g \in {runGoldenGate, NotRun}
  OBVIOUS
<1>6. proc[c].golden = None => proc[c].golden \notin Goldens
  BY DEF ReleaseConstants
<1> HIDE DEF p, g
<1>7. \A d \in Command : proc'[d] = IF d = c THEN p ELSE proc[d]
  BY <1>1, <1>3, <1>4, AtIs DEF ReleaseInv
<1>8. WorkInv'
  BY <1>1, <1>2, <1>3, <1>4, WorkGoes DEF ReleaseInv, WorkInv, Composed, tree
<1>9. FilesInv'
  BY <1>4, FilesStay DEF ReleaseInv, WorkInv, tree
<1>10. NamesInv' /\ BaseInv'
  BY <1>1, <1>3, <1>4, <1>7, NamesStay, BaseStays DEF ReleaseInv
<1>11. RanInv' /\ VerdictInv'
  BY <1>1, <1>3, <1>4, <1>5, <1>6, <1>7, RanStays, VerdictStays DEF ReleaseInv, Composed
<1>12. ShellInv'
  BY <1>1, <1>3, <1>4, <1>5, <1>7, ShellStays DEF ReleaseInv, tree
<1>13. ReportsKept'
  BY <1>4, KeptStay DEF ReleaseInv
<1> QED
  BY <1>8, <1>9, <1>10, <1>11, <1>12, <1>13 DEF ReleaseInv

\* A name: the first of a commit and its days, or one that tells the second.
LEMMA NameIs ==
  ASSUME NEW r \in Reports
  PROVE  /\ Fits(NameOf(r), r)
         /\ NameOf(r) \in DOMAIN files => NameOf(r)[3] = r.at
<1>1. r.days \in {7, 30} /\ r.code \in {1, 2} /\ r.at \in Nat
  BY DEF Reports
<1>2. <<r.days, r.code, 0>> \in ReportNames /\ <<r.days, r.code, r.at>> \in ReportNames
      /\ <<r.days, r.code, 0>>[3] = 0 /\ <<r.days, r.code, r.at>>[3] = r.at
  BY <1>1 DEF ReportNames
<1>3. CASE <<r.days, r.code, 0>> \in DOMAIN files
  BY <1>2, <1>3 DEF NameOf, Fits
<1>4. CASE <<r.days, r.code, 0>> \notin DOMAIN files
  BY <1>2, <1>4 DEF NameOf, Fits
<1> QED
  BY <1>3, <1>4

\* A report that is composed takes the second and the place of the last one.
LEMMA ReportIs ==
  ASSUME ReleaseConstants, WorkInv, FilesInv, NEW c \in Command, proc[c].pc = "compose"
  PROVE  /\ Report(c) \in Reports /\ Report(c).golden = proc[c].golden
         /\ Report(c).days = proc[c].days /\ Report(c).at = now
         /\ Report(c).seq = made + 1 /\ Report(c).baselineRef = pointer
<1>1. proc[c] \in Working /\ proc[c].golden \in Goldens /\ proc[c].c4 \in {0, Unread, Down}
  BY WorksIs DEF WorkInv
<1>2. world.code \in {1, 2} /\ now \in Nat /\ made + 1 \in Nat
  BY DEF WorkInv
<1>3. pointer \in ReportNames \cup {None}
  BY DEF FilesInv, PointerHolds, Fits
<1>4. proc[c].days \in {7, 30}
  BY <1>1 DEF Working
<1> QED
  BY <1>1, <1>2, <1>3, <1>4 DEF Report, Reports

LEMMA ComposeKeeps ==
  ASSUME ReleaseConstants, ReleaseInv, NEW c \in Command, Compose(c)
  PROVE  ReleaseInv'
<1> DEFINE r == Report(c)
           n == NameOf(Report(c))
           p == [proc[c] EXCEPT !.pc = "write", !.report = r, !.name = n]
<1>1. /\ proc[c] \in Working /\ proc[c].pc = "compose" /\ proc[c].golden \in Goldens
      /\ "release" \in Command /\ "report" \in Command /\ Command = {"release", "report"}
      /\ now \in Nat \ {0} /\ made \in Nat /\ lost \in Nat
  BY WorksIs DEF Compose, ReleaseInv, WorkInv, Command
<1>2. /\ r \in Reports /\ r.golden = proc[c].golden /\ r.days = proc[c].days /\ r.at = now
      /\ r.seq = made + 1 /\ r.baselineRef = pointer
  BY <1>1, ReportIs DEF ReleaseInv
<1>3. Fits(n, r) /\ (n \in DOMAIN files => n[3] = r.at) /\ n \in ReportNames
  BY <1>2, NameIs DEF Fits
<1>4. /\ At(c, p) /\ UNCHANGED <<tree, files, pointer, written, started, lost>>
      /\ made' = made + 1 /\ overlap \subseteq overlap'
      /\ (\E o \in Command \ {c} : proc[o].pc = "write" /\ proc[o].name = n) => n \in overlap'
  BY DEF Compose
<1> HIDE DEF r, n
<1>5. /\ p \in Working /\ p.pc = "write" /\ p.report = r /\ p.name = n
      /\ p.golden = proc[c].golden /\ p.days = proc[c].days /\ p.failed = proc[c].failed
  BY <1>1, <1>2, <1>3 DEF Working
<1> HIDE DEF p
<1>6. \A d \in Command : proc'[d] = IF d = c THEN p ELSE proc[d]
  BY <1>1, <1>4, <1>5, AtIs DEF ReleaseInv
<1>7. WorkInv'
  BY <1>1, <1>2, <1>3, <1>4, <1>5, WorkGoes DEF ReleaseInv, tree
<1>8. FilesInv'
  BY <1>1, <1>4, FilesStay DEF ReleaseInv, tree
<1>9. NamesInv'
  <2>1. ASSUME NEW d \in Command, NEW o \in Command, d # o,
               proc'[d].pc = "write", proc'[o].pc = "write", proc'[d].name = proc'[o].name
        PROVE  proc'[d].name \in overlap'
    <3>1. CASE d = c
      BY <1>4, <1>5, <1>6, <2>1, <3>1
    <3>2. CASE o = c
      BY <1>4, <1>5, <1>6, <2>1, <3>2
    <3>3. CASE d # c /\ o # c
      BY <1>4, <1>6, <2>1, <3>3 DEF ReleaseInv, NamesInv
    <3> QED
      BY <3>1, <3>2, <3>3
  <2>2. ASSUME NEW d \in Command, proc'[d].pc = "write", proc'[d].name[3] = 0,
               proc'[d].name \in DOMAIN files'
        PROVE  proc'[d].name \in overlap'
    <3>1. CASE d = c
      <4>1. n \in DOMAIN files /\ n[3] = 0
        BY <1>4, <1>5, <1>6, <2>2, <3>1
      <4> QED
        BY <1>1, <1>2, <1>3, <4>1
    <3>2. CASE d # c
      BY <1>4, <1>6, <2>2, <3>2 DEF ReleaseInv, NamesInv
    <3> QED
      BY <3>1, <3>2
  <2> QED
    BY <2>1, <2>2 DEF NamesInv
<1>10. BaseInv'
  <2>1. CASE c = "release"
    <3>1. /\ proc'["release"] = p /\ proc'["report"] = proc["report"]
          /\ files' = files /\ p.report = r /\ r.baselineRef = pointer
      BY <1>1, <1>2, <1>4, <1>5, <1>6, <2>1
    <3> SUFFICES ASSUME pointer # None
                 PROVE  /\ pointer \in DOMAIN files /\ pointer[3] <= r.at
                        /\ Before(files[pointer], r)
                        /\ proc["report"].pc = "write" => Before(proc["report"].report, r)
      BY <3>1 DEF BaseInv, Before
    <3>2. /\ pointer \in DOMAIN files /\ Fits(pointer, files[pointer])
          /\ files[pointer].at <= now /\ files[pointer].seq <= made
      BY DEF ReleaseInv, FilesInv, PointerHolds
    <3>3. files[pointer].at \in Nat /\ files[pointer].seq \in Nat
          /\ pointer[3] \in {0, files[pointer].at}
      BY <3>2 DEF Fits, Reports
    <3>4. proc["report"].pc = "write" => /\ proc["report"].report.seq <= made
                                         /\ proc["report"].report.seq \in Nat
      BY <1>1 DEF ReleaseInv, WorkInv, Composed, Fits, Reports
    <3> QED
      BY <1>1, <1>2, <3>2, <3>3, <3>4 DEF Before
  <2>2. CASE c = "report"
    <3> DEFINE s == proc["release"].report
               b == s.baselineRef
    <3>1. proc'["report"] = p /\ proc'["release"] = proc["release"] /\ files' = files
      BY <1>1, <1>4, <1>6, <2>2
    <3> SUFFICES ASSUME proc["release"].pc \in {"write", "judge"}, b # None
                 PROVE  /\ b \in DOMAIN files /\ b[3] <= s.at /\ Before(files[b], s)
                        /\ n = b => Before(r, s)
      BY <1>5, <3>1 DEF BaseInv, Before
    <3>2. b \in DOMAIN files /\ b[3] <= s.at /\ Before(files[b], s)
      BY DEF ReleaseInv, BaseInv
    <3>3. s.at <= now /\ s.at \in Nat
      BY <1>1 DEF ReleaseInv, WorkInv, Composed, Fits, Reports
    <3>4. n = b => s.at = r.at
      BY <1>1, <1>2, <1>3, <3>2, <3>3
    <3> QED
      BY <3>2, <3>4 DEF Before
  <2> QED
    BY <1>1, <2>1, <2>2
<1>11. RanInv' /\ VerdictInv'
  BY <1>1, <1>4, <1>5, <1>6, RanStays, VerdictStays DEF ReleaseInv, Composed
<1>12. ShellInv'
  BY <1>1, <1>4, <1>5, <1>6, ShellStays DEF ReleaseInv, tree
<1>13. ReportsKept'
  BY <1>4, KeptStay DEF ReleaseInv
<1> QED
  BY <1>7, <1>8, <1>9, <1>10, <1>11, <1>12, <1>13 DEF ReleaseInv

\* What a command may do once its report is named.
LEMMA NamedIs ==
  ASSUME WorkInv, NEW c \in Command, proc[c].pc \in Composed
  PROVE  /\ proc[c] \in Working /\ Fits(proc[c].name, proc[c].report)
         /\ proc[c].report \in Reports /\ proc[c].name \in ReportNames
         /\ proc[c].golden = proc[c].report.golden /\ proc[c].golden \in Goldens
         /\ proc[c].report.days = proc[c].days
         /\ proc[c].report.at <= now /\ proc[c].report.seq <= made
<1>1. proc[c] \in Working
  BY WorksIs DEF Composed
<1>2. Fits(proc[c].name, proc[c].report) /\ proc[c].golden = proc[c].report.golden
      /\ proc[c].report.days = proc[c].days
      /\ proc[c].report.at <= now /\ proc[c].report.seq <= made
  BY DEF WorkInv
<1> QED
  BY <1>1, <1>2 DEF Fits, Reports

LEMMA ReportKeeps ==
  ASSUME ReleaseConstants, ReleaseInv, NEW c \in Command, NEW fails \in BOOLEAN,
         WriteReport(c, fails)
  PROVE  ReleaseInv'
<1> DEFINE p == IF c = "release" THEN [proc[c] EXCEPT !.pc = "judge"] ELSE Resting
           r == proc[c].report
           n == proc[c].name
<1>1. /\ proc[c].pc = "write" /\ proc[c] \in Working /\ Fits(n, r) /\ r \in Reports
      /\ r.golden = proc[c].golden /\ r.golden \in Goldens /\ r.days = proc[c].days
      /\ r.at <= now /\ r.seq <= made /\ n \in ReportNames
      /\ "release" \in Command /\ "report" \in Command /\ Command = {"release", "report"}
      /\ now \in Nat \ {0} /\ made \in Nat /\ lost \in Nat
  BY NamedIs DEF WriteReport, ReleaseInv, WorkInv, Command, Composed
<1>2. /\ p \in Working \cup {Resting}
      /\ c = "release" => /\ p \in Working /\ p.pc = "judge" /\ p.report = r /\ p.name = n
                          /\ p.golden = proc[c].golden /\ p.days = proc[c].days
                          /\ p.failed = proc[c].failed
      /\ c # "release" => p.pc = "rest"
  BY <1>1 DEF Working, Resting
<1>3. /\ At(c, p) /\ UNCHANGED <<tree, overlap, started, made>> /\ lost' \in {lost, lost + 1}
      /\ \/ UNCHANGED <<files, pointer, written>>
         \/ /\ files' = [m \in DOMAIN files \cup {n} |-> IF m = n THEN r ELSE files[m]]
            /\ pointer' = n /\ written' = written \cup {[name |-> n, report |-> r]}
  BY DEF WriteReport, LoseRead
<1> HIDE DEF p
<1>4. \A d \in Command : proc'[d] = IF d = c THEN p ELSE proc[d]
  BY <1>2, <1>3, AtIs DEF ReleaseInv
<1>5. \/ UNCHANGED <<files, pointer, written>>
      \/ /\ DOMAIN files' = DOMAIN files \cup {n} /\ pointer' = n
         /\ \A m \in DOMAIN files' : files'[m] = IF m = n THEN r ELSE files[m]
         /\ written' = written \cup {[name |-> n, report |-> r]}
  BY <1>3
<1> HIDE DEF r, n
<1>6. WorkInv'
  BY <1>1, <1>2, <1>3, WorkGoes DEF ReleaseInv, tree, Composed, r, n
<1>7. FilesInv'
  <2>1. CASE UNCHANGED <<files, pointer, written>>
    BY <1>1, <1>3, <2>1, FilesStay DEF ReleaseInv, tree
  <2>2. CASE /\ DOMAIN files' = DOMAIN files \cup {n} /\ pointer' = n
             /\ \A m \in DOMAIN files' : files'[m] = IF m = n THEN r ELSE files[m]
             /\ written' = written \cup {[name |-> n, report |-> r]}
    <3>1. \A m \in DOMAIN files' :
            Fits(m, files'[m]) /\ files'[m].at <= now' /\ files'[m].seq <= made'
      BY <1>1, <1>3, <2>2 DEF ReleaseInv, FilesInv, tree
    <3>2. PointerHolds'
      BY <2>2 DEF PointerHolds
    <3>3. \A w \in written' : Fits(w.name, w.report) /\ w.name \in DOMAIN files'
      BY <1>1, <2>2 DEF ReleaseInv, FilesInv
    <3> QED
      BY <3>1, <3>2, <3>3 DEF FilesInv
  <2> QED
    BY <1>5, <2>1, <2>2
<1>8. NamesInv'
  <2>1. \A d \in Command : proc'[d].pc = "write" => d # c /\ proc'[d] = proc[d]
    BY <1>2, <1>4
  <2>2. ASSUME NEW d \in Command, proc'[d].pc = "write", proc'[d].name[3] = 0,
               proc'[d].name \in DOMAIN files'
        PROVE  proc'[d].name \in overlap'
    <3>1. d # c /\ proc'[d] = proc[d] /\ overlap' = overlap
      BY <1>3, <2>1, <2>2
    <3>2. CASE proc[d].name \in DOMAIN files
      BY <2>2, <3>1, <3>2 DEF ReleaseInv, NamesInv
    <3>3. CASE proc[d].name \notin DOMAIN files
      <4>1. proc[d].name = proc[c].name
        BY <1>5, <2>2, <3>1, <3>3 DEF n
      <4> QED
        BY <1>1, <2>2, <3>1, <4>1 DEF ReleaseInv, NamesInv
    <3> QED
      BY <3>2, <3>3
  <2>3. ASSUME NEW d \in Command, NEW o \in Command, d # o,
               proc'[d].pc = "write", proc'[o].pc = "write"
        PROVE  FALSE
    BY <1>1, <2>1, <2>3
  <2> QED
    BY <2>2, <2>3 DEF NamesInv
<1>9. BaseInv'
  <2> DEFINE s == proc["release"].report
             b == s.baselineRef
  <2> SUFFICES ASSUME proc'["release"].pc \in {"write", "judge"}, b # None,
                      proc'["release"].report = s, proc["release"].pc = "write" \/ c = "report",
                      proc["release"].pc \in {"write", "judge"}
               PROVE  /\ b \in DOMAIN files' /\ b[3] <= s.at /\ Before(files'[b], s)
                      /\ proc'["report"].pc = "write" /\ proc'["report"].name = b
                           => Before(proc'["report"].report, s)
    <3>1. /\ proc'["release"].pc \in {"write", "judge"} => proc["release"].pc \in {"write", "judge"}
          /\ proc'["release"].pc \in {"write", "judge"} => proc'["release"].report = s
          /\ proc["release"].pc = "write" \/ c = "report"
      BY <1>1, <1>2, <1>4 DEF r
    <3> QED
      BY <3>1 DEF BaseInv, Before
  <2>1. /\ b \in DOMAIN files /\ b[3] <= s.at /\ Before(files[b], s)
        /\ proc["report"].pc = "write" /\ proc["report"].name = b
             => Before(proc["report"].report, s)
    BY DEF ReleaseInv, BaseInv
  <2>2. proc'["report"].pc = "write" => proc'["report"] = proc["report"]
    BY <1>1, <1>2, <1>4
  <2>3. b \in DOMAIN files'
    BY <1>5, <2>1
  <2>4. Before(files'[b], s)
    <3>1. files'[b] = files[b] \/ (b = n /\ files'[b] = r)
      BY <1>5, <2>1, <2>3
    <3>2. b = n => Before(r, s)
      BY <1>1, <2>1 DEF Before, r, n
    <3> QED
      BY <2>1, <3>1, <3>2
  <2> QED
    BY <2>1, <2>2, <2>3, <2>4
<1>10. RanInv' /\ VerdictInv'
  BY <1>1, <1>2, <1>3, <1>4, RanStays, VerdictStays DEF ReleaseInv, Composed
<1>11. ShellInv'
  <2>1. CASE UNCHANGED files
    BY <1>1, <1>2, <1>3, <1>4, <2>1, ShellStays DEF ReleaseInv, tree
  <2>2. CASE \A m \in DOMAIN files' : /\ m = n => files'[m] = r
                                      /\ m # n => m \in DOMAIN files /\ files'[m] = files[m]
    <3> SUFFICES ASSUME ~touched
                 PROVE  \E first \in BOOLEAN :
                          /\ \A m \in DOMAIN files' : Steady(files'[m].golden, first)
                          /\ \A d \in Command : proc'[d].pc # "rest" /\ proc'[d].golden # None =>
                               Steady(proc'[d].golden, first)
                          /\ world.passes => world.set = 1 /\ first
                          /\ world.set = 1 => world.passes = first
      BY <1>3 DEF ShellInv, Steady, Says, SaysNot, tree
    <3>1. PICK first \in BOOLEAN :
            /\ \A m \in DOMAIN files : Steady(files[m].golden, first)
            /\ \A d \in Command : proc[d].pc # "rest" /\ proc[d].golden # None =>
                 Steady(proc[d].golden, first)
            /\ world.passes => world.set = 1 /\ first
            /\ world.set = 1 => world.passes = first
      BY DEF ReleaseInv, ShellInv
    <3>2. r.golden # None
      BY <1>1 DEF ReleaseConstants
    <3>3. Steady(r.golden, first)
      BY <1>1, <3>1, <3>2
    <3>4. \A m \in DOMAIN files' : Steady(files'[m].golden, first)
      BY <2>2, <3>1, <3>3
    <3>5. \A d \in Command : proc'[d].pc # "rest" /\ proc'[d].golden # None =>
            Steady(proc'[d].golden, first)
      BY <1>1, <1>2, <1>4, <3>1
    <3> QED
      BY <3>1, <3>4, <3>5
  <2> QED
    BY <1>5, <2>1, <2>2
<1>12. ReportsKept'
  <2>1. CASE UNCHANGED <<files, pointer, written>>
    BY <1>3, <2>1, KeptStay DEF ReleaseInv
  <2>2. CASE /\ DOMAIN files' = DOMAIN files \cup {n} /\ pointer' = n
             /\ \A m \in DOMAIN files' : files'[m] = IF m = n THEN r ELSE files[m]
             /\ written' = written \cup {[name |-> n, report |-> r]}
    <3> SUFFICES ASSUME NEW w \in written'
                 PROVE  \/ files'[w.name] = w.report
                        \/ w.name \in overlap'
                        \/ files'[w.name].at = w.report.at
      BY DEF ReportsKept
    <3>1. CASE w = [name |-> n, report |-> r]
      BY <2>2, <3>1
    <3>2. CASE w \in written /\ w.name # n
      <4>1. w.name \in DOMAIN files /\ files'[w.name] = files[w.name]
        BY <2>2, <3>2 DEF ReleaseInv, FilesInv
      <4> QED
        BY <1>3, <3>2, <4>1 DEF ReleaseInv, ReportsKept
    <3>3. CASE w \in written /\ w.name = n
      <4>1. n \in DOMAIN files /\ n[3] \in {0, w.report.at} /\ n[3] \in {0, r.at}
        BY <1>1, <3>3 DEF ReleaseInv, FilesInv, Fits
      <4>2. CASE n[3] = 0
        BY <1>1, <1>3, <3>3, <4>1, <4>2 DEF ReleaseInv, NamesInv, n
      <4>3. CASE n[3] # 0
        <5>1. w.report.at = r.at /\ files'[n] = r
          BY <2>2, <4>1, <4>3
        <5> QED
          BY <3>3, <5>1
      <4> QED
        BY <4>2, <4>3
    <3> QED
      BY <2>2, <3>1, <3>2, <3>3
  <2> QED
    BY <1>5, <2>1, <2>2
<1> QED
  BY <1>6, <1>7, <1>8, <1>9, <1>10, <1>11, <1>12 DEF ReleaseInv

LEMMA JudgeKeeps ==
  ASSUME ReleaseConstants, ReleaseInv, Judge PROVE ReleaseInv'
<1> DEFINE q == proc["release"]
           base == Baseline(q.report)
           blocked == q.report.c4 # Down /\ gateBlocks(evaluateGate(base, q.report))
           f == q.failed \cup (IF blocked THEN {"metrics"} ELSE {})
           p == [q EXCEPT !.pc = "judged", !.base = base, !.failed = f]
<1>1. /\ q.pc = "judge" /\ q \in Working /\ Fits(q.name, q.report) /\ q.report \in Reports
      /\ q.golden = q.report.golden /\ q.golden \in Goldens /\ q.report.days = q.days
      /\ q.report.at <= now /\ q.report.seq <= made
      /\ "release" \in Command /\ "report" \in Command
      /\ now \in Nat \ {0} /\ made \in Nat /\ lost \in Nat
  BY NamedIs DEF Judge, ReleaseInv, WorkInv, Command, Composed
<1>2. q.report.baselineRef \in DOMAIN files =>
        /\ q.report.baselineRef # None /\ base = files[q.report.baselineRef] /\ base \in Reports
        /\ Before(base, q.report)
  <2> SUFFICES ASSUME q.report.baselineRef \in DOMAIN files
               PROVE  /\ q.report.baselineRef # None /\ base = files[q.report.baselineRef]
                      /\ base \in Reports /\ Before(base, q.report)
    OBVIOUS
  <2>1. Fits(q.report.baselineRef, files[q.report.baselineRef])
    BY DEF ReleaseInv, FilesInv
  <2>2. q.report.baselineRef # None /\ base = files[q.report.baselineRef] /\ base \in Reports
    BY <2>1 DEF Fits, ReleaseConstants, Baseline
  <2> QED
    BY <1>1, <2>2 DEF ReleaseInv, BaseInv
<1>3. /\ base \in Reports \cup {None}
      /\ base # None => Before(base, q.report)
  <2>1. q.report.baselineRef \notin DOMAIN files => base = None
    BY DEF Baseline
  <2> QED
    BY <1>2, <2>1
<1>4. q.report.c4 # Down /\ "metrics" \notin f =>
        /\ q.report.golden.judged /\ base # None /\ base.days = q.days /\ q.report.c4 # Unread
  <2> SUFFICES ASSUME q.report.c4 # Down, "metrics" \notin f
               PROVE  /\ q.report.golden.judged /\ base # None /\ base.days = q.days
                      /\ q.report.c4 # Unread
    OBVIOUS
  <2> HIDE DEF base
  <2>1. evaluateGate(base, q.report) = "pass"
    BY DEF gateBlocks
  <2>2. /\ goldenInPlace(q.report) /\ c4InPlace(q.report) /\ compareWindows(base, q.report)
    BY <2>1 DEF evaluateGate
  <2> QED
    BY <1>1, <2>2 DEF goldenInPlace, c4InPlace, compareWindows
<1>5. q.failed \subseteq f /\ f \in SUBSET {"golden", "metrics", "build"}
  <2> HIDE DEF blocked
  <2>1. q.failed \in SUBSET {"golden", "metrics", "build"}
    BY <1>1 DEF Working
  <2> QED
    BY <2>1
<1>6. At("release", p)
      /\ UNCHANGED <<tree, files, pointer, written, overlap, started, made, lost>>
  BY DEF Judge
<1> HIDE DEF f, blocked, base
<1>7. /\ p \in Working /\ p.pc = "judged" /\ p.base = base /\ p.failed = f
      /\ p.golden = q.golden /\ p.report = q.report /\ p.name = q.name /\ p.days = q.days
  BY <1>1, <1>3, <1>5 DEF Working
<1> HIDE DEF p
<1>8. \A d \in Command : proc'[d] = IF d = "release" THEN p ELSE proc[d]
  BY <1>1, <1>6, <1>7, AtIs DEF ReleaseInv
<1>9. WorkInv'
  BY <1>1, <1>6, <1>7, WorkGoes DEF ReleaseInv, tree
<1>10. FilesInv'
  BY <1>1, <1>6, FilesStay DEF ReleaseInv, tree
<1>11. NamesInv' /\ BaseInv'
  BY <1>1, <1>6, <1>7, <1>8, NamesStay, BaseStays DEF ReleaseInv
<1>12. RanInv'
  BY <1>1, <1>5, <1>6, <1>7, <1>8, RanStays DEF ReleaseInv, Composed
<1>13. VerdictInv'
  <2>1. proc'["release"] = p
    BY <1>1, <1>8
  <2> QED
    BY <1>1, <1>3, <1>4, <1>7, <2>1 DEF VerdictInv, Before
<1>14. ShellInv'
  BY <1>1, <1>6, <1>7, <1>8, ShellStays DEF ReleaseInv, tree
<1>15. ReportsKept'
  BY <1>6, KeptStay DEF ReleaseInv
<1> QED
  BY <1>9, <1>10, <1>11, <1>12, <1>13, <1>14, <1>15 DEF ReleaseInv

LEMMA BuildKeeps ==
  ASSUME ReleaseConstants, ReleaseInv, NEW fails \in BOOLEAN, Build(fails) PROVE ReleaseInv'
<1> DEFINE q == proc["release"]
           f == q.failed \cup (IF fails THEN {"build"} ELSE {})
           p == [q EXCEPT !.pc = "released", !.failed = f]
<1>1. /\ q.pc = "judged" /\ q \in Working /\ Fits(q.name, q.report) /\ q.report \in Reports
      /\ q.golden = q.report.golden /\ q.golden \in Goldens /\ q.report.days = q.days
      /\ q.report.at <= now /\ q.report.seq <= made
      /\ "release" \in Command /\ "report" \in Command
      /\ now \in Nat \ {0} /\ made \in Nat /\ lost \in Nat
  BY NamedIs DEF Build, ReleaseInv, WorkInv, Command, Composed
<1>2. q.failed \subseteq f /\ f \in SUBSET {"golden", "metrics", "build"}
  BY <1>1 DEF Working
<1>3. At("release", p)
      /\ UNCHANGED <<tree, files, pointer, written, overlap, started, made, lost>>
  BY DEF Build
<1> HIDE DEF f
<1>4. /\ p \in Working /\ p.pc = "released" /\ p.base = q.base /\ p.failed = f
      /\ p.golden = q.golden /\ p.report = q.report /\ p.name = q.name /\ p.days = q.days
  BY <1>1, <1>2 DEF Working
<1> HIDE DEF p
<1>5. \A d \in Command : proc'[d] = IF d = "release" THEN p ELSE proc[d]
  BY <1>1, <1>3, <1>4, AtIs DEF ReleaseInv
<1>6. WorkInv'
  BY <1>1, <1>3, <1>4, WorkGoes DEF ReleaseInv, tree
<1>7. FilesInv'
  BY <1>1, <1>3, FilesStay DEF ReleaseInv, tree
<1>8. NamesInv' /\ BaseInv'
  BY <1>1, <1>3, <1>4, <1>5, NamesStay, BaseStays DEF ReleaseInv
<1>9. RanInv' /\ VerdictInv'
  BY <1>1, <1>2, <1>3, <1>4, <1>5, RanStays, VerdictStays DEF ReleaseInv, Composed
<1>10. ShellInv'
  BY <1>1, <1>3, <1>4, <1>5, ShellStays DEF ReleaseInv, tree
<1>11. ReportsKept'
  BY <1>3, KeptStay DEF ReleaseInv
<1> QED
  BY <1>6, <1>7, <1>8, <1>9, <1>10, <1>11 DEF ReleaseInv

LEMMA LeaveKeeps ==
  ASSUME ReleaseConstants, ReleaseInv, LeaveShell PROVE ReleaseInv'
<1>1. /\ "release" \in Command /\ "report" \in Command /\ Resting.pc = "rest"
      /\ now \in Nat \ {0} /\ made \in Nat /\ lost \in Nat
  BY DEF ReleaseInv, WorkInv, Command, Resting
<1>2. At("release", Resting)
      /\ UNCHANGED <<tree, files, pointer, written, overlap, started, made, lost>>
  BY DEF LeaveShell
<1>3. \A d \in Command : proc'[d] = IF d = "release" THEN Resting ELSE proc[d]
  BY <1>1, <1>2, AtIs DEF ReleaseInv
<1>4. WorkInv'
  BY <1>1, <1>2, WorkGoes DEF ReleaseInv, tree, Composed
<1>5. FilesInv'
  BY <1>1, <1>2, FilesStay DEF ReleaseInv, tree
<1>6. NamesInv' /\ BaseInv'
  BY <1>1, <1>2, <1>3, NamesStay, BaseStays DEF ReleaseInv
<1>7. RanInv' /\ VerdictInv'
  BY <1>1, <1>2, <1>3, RanStays, VerdictStays DEF ReleaseInv, Composed
<1>8. ShellInv'
  BY <1>1, <1>2, <1>3, ShellStays DEF ReleaseInv, tree
<1>9. ReportsKept'
  BY <1>2, KeptStay DEF ReleaseInv
<1> QED
  BY <1>4, <1>5, <1>6, <1>7, <1>8, <1>9 DEF ReleaseInv

\* The commands rest: the second, the commit, the golden set or the files change.
LEMMA WorldGoes ==
  ASSUME WorkInv, UNCHANGED <<proc, made, lost>>, now' \in {now, now + 1},
         world' \in [code : {1, 2}, set : {None, 1, 2}, passes : BOOLEAN, c4 : {0}]
  PROVE  WorkInv'
<1>1. now \in Nat \ {0} /\ now' \in Nat \ {0} /\ now <= now'
  BY DEF WorkInv
<1>2. ASSUME NEW c \in Command, proc[c].pc \in Composed PROVE proc[c].report.at <= now'
  <2>1. proc[c].report.at <= now /\ proc[c].report.at \in Nat
    BY <1>2 DEF WorkInv, Fits, Reports
  <2> QED
    BY <1>1, <2>1
<1> QED
  BY <1>1, <1>2 DEF WorkInv

LEMMA TickKeeps ==
  ASSUME ReleaseConstants, ReleaseInv, Tick \/ UNCHANGED releaseVars PROVE ReleaseInv'
<1>1. /\ now' \in {now, now + 1} /\ now \in Nat /\ made \in Nat
      /\ world \in [code : {1, 2}, set : {None, 1, 2}, passes : BOOLEAN, c4 : {0}]
      /\ UNCHANGED <<world, proposals, files, pointer, proc, written, overlap,
                     touched, started, made, lost, changes>>
  BY DEF Tick, releaseVars, ReleaseInv, WorkInv
<1>2. WorkInv'
  BY <1>1, WorldGoes DEF ReleaseInv
<1>3. FilesInv'
  BY <1>1, FilesStay DEF ReleaseInv
<1>4. NamesInv' /\ BaseInv'
  BY <1>1, NamesStay, BaseStays DEF ReleaseInv
<1>5. RanInv' /\ VerdictInv'
  BY <1>1 DEF ReleaseInv, RanInv, VerdictInv, goldenGatePass, Before
<1>6. ShellInv'
  BY <1>1 DEF ReleaseInv, ShellInv, Steady, Says, SaysNot
<1>7. ReportsKept'
  BY <1>1, KeptStay DEF ReleaseInv
<1> QED
  BY <1>2, <1>3, <1>4, <1>5, <1>6, <1>7 DEF ReleaseInv

LEMMA ChangeKeeps ==
  ASSUME ReleaseConstants, ReleaseInv, Change PROVE ReleaseInv'
<1>1. UNCHANGED <<now, proc, overlap, made, lost>> /\ now \in Nat /\ made \in Nat
      /\ world \in [code : {1, 2}, set : {None, 1, 2}, passes : BOOLEAN, c4 : {0}]
  BY DEF Change, ReleaseInv, WorkInv
<1>2. \/ /\ UNCHANGED <<files, pointer, written>>
         /\ world' \in [code : {1, 2}, set : {None, 1, 2}, passes : BOOLEAN, c4 : {0}]
         /\ \/ touched'
            \/ /\ UNCHANGED touched
               /\ \/ world'.set = world.set /\ world'.passes = world.passes
                  \/ world'.set = 2 /\ world'.passes = FALSE
      \/ /\ \A c \in Command : proc[c] = Resting
         /\ files' = [n \in {} |-> None] /\ pointer' = None /\ written' = {}
         /\ UNCHANGED <<world, touched>>
  BY <1>1 DEF Change
<1>3. WorkInv'
  BY <1>1, <1>2, WorldGoes DEF ReleaseInv
<1>4. RanInv' /\ VerdictInv'
  BY <1>1 DEF ReleaseInv, RanInv, VerdictInv, goldenGatePass, Before
<1>5. CASE UNCHANGED <<files, pointer, written>>
           /\ \/ touched'
              \/ /\ UNCHANGED touched
                 /\ \/ world'.set = world.set /\ world'.passes = world.passes
                    \/ world'.set = 2 /\ world'.passes = FALSE
  <2>1. FilesInv'
    BY <1>1, <1>5, FilesStay DEF ReleaseInv
  <2>2. NamesInv' /\ BaseInv'
    BY <1>1, <1>5, NamesStay, BaseStays DEF ReleaseInv
  <2>3. ReportsKept'
    BY <1>1, <1>5, KeptStay DEF ReleaseInv
  <2>4. ShellInv'
    <3> SUFFICES ASSUME ~touched', ~touched
                 PROVE  \E first \in BOOLEAN :
                          /\ \A n \in DOMAIN files : Steady(files[n].golden, first)
                          /\ \A c \in Command : proc[c].pc # "rest" /\ proc[c].golden # None =>
                               Steady(proc[c].golden, first)
                          /\ world'.passes => world'.set = 1 /\ first
                          /\ world'.set = 1 => world'.passes = first
      BY <1>1, <1>5 DEF ShellInv, Steady, Says, SaysNot
    <3>1. PICK first \in BOOLEAN :
            /\ \A n \in DOMAIN files : Steady(files[n].golden, first)
            /\ \A c \in Command : proc[c].pc # "rest" /\ proc[c].golden # None =>
                 Steady(proc[c].golden, first)
            /\ world.passes => world.set = 1 /\ first
            /\ world.set = 1 => world.passes = first
      BY DEF ReleaseInv, ShellInv
    <3>2. world'.passes => world'.set = 1 /\ first
      BY <1>5, <3>1
    <3>3. world'.set = 1 => world'.passes = first
      BY <1>5, <3>1
    <3> QED
      BY <3>1, <3>2, <3>3
  <2> QED
    BY <1>3, <1>4, <2>1, <2>2, <2>3, <2>4 DEF ReleaseInv
<1>6. CASE /\ \A c \in Command : proc[c] = Resting
           /\ files' = [n \in {} |-> None] /\ pointer' = None /\ written' = {}
           /\ UNCHANGED <<world, touched>>
  <2>1. DOMAIN files' = {} /\ "release" \in Command /\ \A c \in Command : proc'[c].pc = "rest"
    BY <1>1, <1>6 DEF Resting, Command
  <2>2. FilesInv' /\ ReportsKept'
    BY <1>6, <2>1 DEF FilesInv, PointerHolds, ReportsKept
  <2>3. NamesInv' /\ BaseInv'
    BY <2>1 DEF NamesInv, BaseInv
  <2>4. ShellInv'
    BY <1>6, <2>1 DEF ReleaseInv, ShellInv
  <2> QED
    BY <1>3, <1>4, <2>2, <2>3, <2>4 DEF ReleaseInv
<1> QED
  BY <1>2, <1>5, <1>6

LEMMA ReleaseKeeps ==
  ASSUME ReleaseConstants, ReleaseInv, [ReleaseNext]_releaseVars PROVE ReleaseInv'
BY StartKeeps, GoldenStepKeeps, CollectKeeps, ComposeKeeps, ReportKeeps, JudgeKeeps, BuildKeeps,
   LeaveKeeps, TickKeeps, ChangeKeeps DEF ReleaseNext

LEMMA ReleaseHolds == ASSUME ReleaseConstants, ReleaseInv PROVE ReleaseSafe
<1> DEFINE p == proc["release"]
<1>1. ASSUME Passed, p.report.c4 # Down
      PROVE  /\ p.report.golden.judged /\ p.base # None /\ p.base.days = p.days
             /\ p.report.c4 # Unread /\ Before(p.base, p.report)
             /\ p.golden = p.report.golden
             /\ p.golden.passed \/ lost > 0
  <2>1. p.pc = "released" /\ p.failed = {} /\ "release" \in Command
    BY <1>1 DEF Passed, Command
  <2>2. /\ p.report.golden.judged /\ p.base # None /\ p.base.days = p.days
        /\ p.report.c4 # Unread /\ Before(p.base, p.report)
    BY <1>1, <2>1 DEF ReleaseInv, VerdictInv
  <2>3. p.golden = p.report.golden
    BY <2>1, NamedIs DEF ReleaseInv, Composed
  <2>4. lost > 0 \/ goldenGatePass(p.golden)
    BY <2>1 DEF ReleaseInv, RanInv, Composed
  <2> QED
    BY <2>2, <2>3, <2>4 DEF goldenGatePass
<1>2. GoldenHeld
  BY <1>1 DEF GoldenHeld
<1>3. ComparedWithBefore
  BY <1>1 DEF ComparedWithBefore, Before
<1>4. BehaviourIsTheShells
  <2> SUFFICES ASSUME ~touched, NEW n \in DOMAIN files, NEW m \in DOMAIN files,
                      behaviorChanged(files[n], files[m])
               PROVE  FALSE
    BY DEF BehaviourIsTheShells
  <2>1. PICK first \in BOOLEAN : \A k \in DOMAIN files : Steady(files[k].golden, first)
    BY DEF ReleaseInv, ShellInv
  <2>2. files[n].golden \in Goldens /\ files[m].golden \in Goldens
    BY DEF ReleaseInv, FilesInv, Fits, Reports
  <2>3. /\ files[n].golden.identity = files[m].golden.identity
        /\ files[n].golden.passed # files[m].golden.passed
        /\ files[n].golden.passed \in BOOLEAN /\ files[m].golden.passed \in BOOLEAN
    BY <2>2 DEF behaviorChanged, setChanged, Goldens
  <2> QED
    BY <2>1, <2>3 DEF Steady, Says, SaysNot
<1> QED
  BY <1>2, <1>3, <1>4 DEF ReleaseSafe, ReleaseInv, FilesInv

\* A release that passed ran its golden sets and was compared with a report from
\* before; reports keep their files; and what differs between two of them is the
\* shell's doing (release.mjs 2.6 and 2.7, metrics-report.mjs, regression-gate.js).
THEOREM ReleaseIsSafe == ASSUME ReleaseConstants PROVE ReleaseSpec => []ReleaseSafe
<1>1. ReleaseInit => ReleaseInv
  BY ReleaseStarts
<1>2. ReleaseInv /\ [ReleaseNext]_releaseVars => ReleaseInv'
  BY ReleaseKeeps
<1>3. ReleaseInv => ReleaseSafe
  BY ReleaseHolds
<1> QED
  BY <1>1, <1>2, <1>3, PTL DEF ReleaseSpec
=============================================================================
