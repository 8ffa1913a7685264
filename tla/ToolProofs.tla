----------------------------- MODULE ToolProofs -----------------------------
(***************************************************************************)
(* Proofs about the agent's run and the parts of a tool call: the gate     *)
(* before a tool runs, the tree of sub-agents, the batches of one reply,   *)
(* the loop of rounds and one question to the model, for any rules and     *)
(* hooks, any number of calls and agents, any tools and any values of the  *)
(* limits; and about when the self evolution counts as proved, for any     *)
(* cycles, any reports and any acts of people on the board.                *)
(***************************************************************************)
EXTENDS ToolGate, SubAgents, ToolBatches, AgentLoop, LlmGateway, EvolutionExit,
        FiniteSetTheorems, SequenceTheorems, WellFoundedInduction, TLAPS

-----------------------------------------------------------------------------
(* The gate.  The argument: where a call stands says which hooks it has    *)
(* met; only the way through all of them, or an allow rule, leads to the   *)
(* run, and what is reported and recorded is fixed after it.               *)

Allowed == verdict = "allowed"

\* The codes of a call that never ran.
Refused == Door \cup {"TOOL_HOOK_BLOCKED", "TOOL_APPROVAL_DENIED",
                      "TOOL_APPROVAL_TIMEOUT", "ABORTED", "TOOL_QUEUED_UNATTENDED"}
Results == Refused \cup {"none", "done", "TOOL_ERROR", "TOOL_TIMEOUT", "THROWN"}

GateTypes ==
  /\ GateTypeOK
  /\ verdict \in {"pass", "allowed"} \cup Refused
  /\ result \in Results
  /\ rows \in [call : Results, rewrite : BOOLEAN]

\* Through the door and past the first hooks, unless a rule allows the call.
PastHooks ==
  /\ stage = "door" => hookAt = 0 /\ verdict = "pass"
  /\ stage \in {"hooks", "approval", "run", "wind"} \/ executed =>
       call.fault = "none" /\ verdict \in {"pass", "allowed"}
  /\ stage \in {"hooks", "approval"} => verdict = "pass"
  /\ verdict = "pass" /\ stage # "door" /\ hookAt > 0 =>
       /\ RuleVerdict(call.rules) # "deny"
       /\ \A k \in 1..hookAt - 1 : ~Stops(call.hooks[k])
  /\ verdict = "pass" /\ stage \notin {"door", "hooks"} => hookAt = Len(call.hooks) + 1

\* Where a call stands, whether its tool was entered, and what came of it.
RunAt ==
  /\ stage \in {"door", "hooks", "approval"} => ~executed
  /\ stage = "wind" => executed
  /\ stage \in {"door", "hooks", "approval", "run"} => result = "none"
  /\ stage \in {"wind", "ledger", "end"} =>
       \/ executed /\ result \in {"done", "TOOL_ERROR", "TOOL_TIMEOUT", "THROWN"}
       \/ ~executed /\ result \in Refused /\ verdict = result
  /\ expired => executed
  /\ stage \in {"wind", "ledger", "end"} =>
       (result = "done" => ~expired) /\ (result = "TOOL_TIMEOUT" => expired)
  /\ verdict = "pass" /\ (stage = "run" \/ executed) => ~(call.asks /\ call.autonomous)
  /\ result = "done" /\ call.mutating => ~searches
  /\ cutOff => userStop \/ expired
  /\ stage # "end" => rows.call = "none"
  /\ stage = "end" => \/ rows.call = result /\ rows.rewrite = rewritten
                      \/ rows.call = "none" /\ cutOff

GateInv == GateTypes /\ PastHooks /\ RunAt

LEMMA HooksType ==
  ASSUME call \in Call
  PROVE  /\ Len(call.hooks) \in Nat /\ DOMAIN call.hooks = 1..Len(call.hooks)
         /\ \A k \in 1..Len(call.hooks) : call.hooks[k] \in Hook
         /\ call.fault \in Door \cup {"none"}
         /\ call.bounded \in BOOLEAN /\ call.asks \in BOOLEAN
         /\ call.autonomous \in BOOLEAN /\ call.mutating \in BOOLEAN
<1>1. call.hooks \in SeqUpTo(Hook, MaxHooks)
  BY DEF Call
<1>2. PICK n \in 0..MaxHooks : call.hooks \in [1..n -> Hook]
  BY <1>1 DEF SeqUpTo
<1>3. n \in Nat
  BY <1>2, GateAssumption
<1>4. call.hooks \in Seq(Hook) /\ Len(call.hooks) = n
  BY <1>2, <1>3
<1> QED  BY <1>2, <1>3, <1>4 DEF Call

LEMMA GateStart == GateInit => GateInv
<1> SUFFICES ASSUME GateInit PROVE GateInv
  OBVIOUS
<1>1. Len(call.hooks) \in Nat
  BY HooksType DEF GateInit
<1>2. GateTypes
  <2>1. GateTypeOK
    <3>1. call \in Call /\ hookAt \in 0..Len(call.hooks) + 1 /\ stage = "door"
      BY <1>1 DEF GateInit
    <3>2. /\ rewritten \in BOOLEAN /\ userStop \in BOOLEAN /\ expired \in BOOLEAN
          /\ cutOff \in BOOLEAN /\ executed \in BOOLEAN /\ queuedAsk \in BOOLEAN
          /\ searches \in BOOLEAN
      BY DEF GateInit
    <3> QED  BY <3>1, <3>2 DEF GateTypeOK
  <2>2. verdict = "pass" /\ result = "none" /\ rows = [call |-> "none", rewrite |-> FALSE]
    BY DEF GateInit
  <2> QED  BY <2>1, <2>2 DEF GateTypes, Results
<1>3. PastHooks /\ RunAt
  BY DEF GateInit, PastHooks, RunAt, Refused
<1> QED  BY <1>2, <1>3 DEF GateInv

LEMMA DoorStep == ASSUME GateInv, EnterDoor PROVE GateInv'
<1>1. call \in Call /\ stage = "door" /\ hookAt = 0 /\ ~executed /\ rows.call = "none"
  BY DEF GateInv, GateTypes, GateTypeOK, PastHooks, RunAt, EnterDoor
<1>2. call.fault \in Door \cup {"none"} /\ Len(call.hooks) \in Nat
  BY <1>1, HooksType
<1>3. GateTypes'
  <2>1. verdict' \in {"pass"} \cup Refused /\ result' \in Results
    BY <1>2 DEF EnterDoor, Refused, Results
  <2>2. rewritten' \in BOOLEAN
    BY DEF EnterDoor
  <2> QED  BY <1>1, <2>1, <2>2 DEF EnterDoor, GateInv, GateTypes, GateTypeOK
<1>4. PastHooks'
  BY <1>1, <1>2 DEF EnterDoor, PastHooks, Door
<1>5. RunAt'
  <2>1. CASE call.fault = "none"
    BY <1>1, <2>1 DEF EnterDoor, GateInv, RunAt
  <2>2. CASE call.fault \in Door
    BY <1>1, <2>2 DEF EnterDoor, GateInv, RunAt, Door, Refused
  <2> QED  BY <1>2, <2>1, <2>2
<1> QED  BY <1>3, <1>4, <1>5 DEF GateInv

\* What the refusals have in common.
LEMMA BlockedStep ==
  ASSUME GateInv, NEW code \in Refused \ Door, Blocked(code), ~executed, stage # "end",
         hookAt' \in 0..Len(call.hooks) + 1, rewritten' \in BOOLEAN, queuedAsk' \in BOOLEAN,
         UNCHANGED <<call, userStop, expired, cutOff, executed, searches, rows>>
  PROVE  GateInv'
<1>1. code \notin {"pass", "allowed", "none", "done", "TOOL_TIMEOUT"} /\ code \in Refused
  BY DEF Refused, Door
<1>2. GateTypes'
  BY <1>1 DEF Blocked, GateInv, GateTypes, GateTypeOK, Results
<1>3. PastHooks'
  BY <1>1 DEF Blocked, GateInv, PastHooks
<1>4. RunAt'
  BY <1>1 DEF Blocked, GateInv, RunAt
<1> QED  BY <1>2, <1>3, <1>4 DEF GateInv

LEMMA RulesStep == ASSUME GateInv, ConsultRules PROVE GateInv'
<1>1. call \in Call /\ stage = "hooks" /\ hookAt = 0 /\ ~executed /\ verdict = "pass"
      /\ hookAt' = 1 /\ rewritten \in BOOLEAN /\ queuedAsk \in BOOLEAN
  BY DEF GateInv, GateTypes, GateTypeOK, PastHooks, RunAt, ConsultRules, HookAfter
<1>2. Len(call.hooks) \in Nat
  BY <1>1, HooksType
<1>3. CASE Blocked("TOOL_HOOK_BLOCKED")
  BY <1>1, <1>2, <1>3, BlockedStep DEF ConsultRules, Refused, Door
<1>4. CASE verdict' = "allowed" /\ stage' = "run" /\ UNCHANGED result
  <2>1. GateTypes'
    BY <1>1, <1>2, <1>4 DEF ConsultRules, GateInv, GateTypes, GateTypeOK
  <2>2. PastHooks'
    BY <1>1, <1>4 DEF ConsultRules, GateInv, PastHooks
  <2>3. RunAt'
    BY <1>1, <1>4 DEF ConsultRules, GateInv, RunAt
  <2> QED  BY <2>1, <2>2, <2>3 DEF GateInv
<1>5. CASE RuleVerdict(call.rules) = "none" /\ UNCHANGED <<verdict, stage, result>>
  <2>1. GateTypes'
    BY <1>1, <1>2, <1>5 DEF ConsultRules, GateInv, GateTypes, GateTypeOK
  <2>2. RuleVerdict(call.rules)' = RuleVerdict(call.rules)
    BY DEF ConsultRules
  <2>3. PastHooks'
    BY <1>1, <1>5, <2>2 DEF ConsultRules, GateInv, PastHooks
  <2>4. RunAt'
    BY <1>1, <1>5 DEF ConsultRules, GateInv, RunAt
  <2> QED  BY <2>1, <2>3, <2>4 DEF GateInv
<1> QED  BY <1>3, <1>4, <1>5 DEF ConsultRules

LEMMA HookStep == ASSUME GateInv, ConsultHook PROVE GateInv'
<1>1. call \in Call /\ stage = "hooks" /\ hookAt \in 1..Len(call.hooks) /\ ~executed
      /\ verdict = "pass" /\ hookAt' = hookAt + 1 /\ rewritten \in BOOLEAN /\ queuedAsk \in BOOLEAN
  BY DEF GateInv, GateTypes, GateTypeOK, PastHooks, RunAt, ConsultHook, HookAfter
<1>2. Len(call.hooks) \in Nat /\ hookAt' \in 0..Len(call.hooks) + 1
  BY <1>1, HooksType
<1>3. CASE Blocked("TOOL_HOOK_BLOCKED") /\ UNCHANGED rewritten
  BY <1>1, <1>2, <1>3, BlockedStep DEF ConsultHook, Refused, Door
<1>4. CASE ~Stops(call.hooks[hookAt]) /\ UNCHANGED <<verdict, stage, result>>
           /\ rewritten' = (rewritten \/ call.hooks[hookAt].does = "rewrite")
  <2>1. GateTypes'
    BY <1>2, <1>4 DEF ConsultHook, GateInv, GateTypes, GateTypeOK
  <2>2. \A k \in 1..hookAt' - 1 : k = hookAt \/ k \in 1..hookAt - 1
    BY <1>1
  <2>3. PastHooks'
    BY <1>1, <1>4, <2>2 DEF ConsultHook, GateInv, PastHooks, RuleVerdict, FirstHit, Stops
  <2>4. RunAt'
    BY <1>1, <1>4 DEF ConsultHook, GateInv, RunAt
  <2> QED  BY <2>1, <2>3, <2>4 DEF GateInv
<1> QED  BY <1>3, <1>4 DEF ConsultHook

LEMMA ApprovalStep == ASSUME GateInv, HooksOver \/ Approval PROVE GateInv'
<1>1. call \in Call /\ ~executed /\ verdict = "pass" /\ stage \in {"hooks", "approval"}
      /\ hookAt \in 0..Len(call.hooks) + 1 /\ rewritten \in BOOLEAN /\ queuedAsk \in BOOLEAN
      /\ call.fault = "none"
  BY DEF GateInv, GateTypes, GateTypeOK, PastHooks, RunAt, HooksOver, Approval
<1>2. Len(call.hooks) \in Nat
  BY <1>1, HooksType
<1>3. ASSUME NEW to \in {"approval", "run"}, stage' = to,
             hookAt = Len(call.hooks) + 1, UNCHANGED <<call, hookAt, verdict, rewritten, userStop, expired, cutOff,
                 executed, queuedAsk, result, searches, rows>>,
             to = "run" => ~(call.asks /\ call.autonomous)
      PROVE  GateInv'
  <2>1. GateTypes'
    BY <1>3 DEF GateInv, GateTypes, GateTypeOK
  <2>2. PastHooks'
    BY <1>1, <1>3 DEF GateInv, PastHooks, RuleVerdict, FirstHit, Stops
  <2>3. RunAt'
    BY <1>1, <1>3 DEF GateInv, RunAt
  <2> QED  BY <2>1, <2>2, <2>3 DEF GateInv
<1>4. CASE HooksOver
  BY <1>3, <1>4 DEF HooksOver
<1>5. CASE Approval
  <2>1. hookAt = Len(call.hooks) + 1 /\ stage = "approval"
    BY <1>1, <1>5 DEF Approval, GateInv, PastHooks
  <2>2. ASSUME NEW code \in Refused \ Door, Blocked(code) PROVE GateInv'
    BY <1>1, <1>5, <2>2, BlockedStep DEF Approval
  <2>3. CASE stage' = "run"
    <3>1. "run" # "ledger" /\ ~call.autonomous /\ UNCHANGED <<queuedAsk, verdict, result>>
      BY <1>5, <2>3 DEF Approval, Blocked, Unattended
    <3> QED  BY <1>3, <1>5, <2>1, <2>3, <3>1 DEF Approval
  <2> QED  BY <1>5, <2>2, <2>3 DEF Approval, Refused, Door
<1> QED  BY <1>4, <1>5

LEMMA RunStep == ASSUME GateInv, Run \/ Expire \/ UserStop PROVE GateInv'
<1>1. CASE Run
  <2>1. GateTypes'
    BY <1>1 DEF Run, GateInv, GateTypes, GateTypeOK
  <2>2. PastHooks'
    BY <1>1 DEF Run, GateInv, PastHooks, RuleVerdict, FirstHit, Stops
  <2>3. RunAt'
    BY <1>1 DEF Run, GateInv, RunAt
  <2> QED  BY <2>1, <2>2, <2>3 DEF GateInv
<1>2. CASE Expire
  <2>1. GateTypes'
    BY <1>2 DEF Expire, GateInv, GateTypes, GateTypeOK
  <2>2. PastHooks'
    BY <1>2 DEF Expire, GateInv, PastHooks, RuleVerdict, FirstHit, Stops
  <2>3. RunAt'
    BY <1>2 DEF Expire, GateInv, RunAt
  <2> QED  BY <2>1, <2>2, <2>3 DEF GateInv
<1>3. CASE UserStop
  <2>1. GateTypes'
    BY <1>3 DEF UserStop, GateInv, GateTypes, GateTypeOK
  <2>2. PastHooks'
    BY <1>3 DEF UserStop, GateInv, PastHooks, RuleVerdict, FirstHit, Stops
  <2>3. RunAt'
    BY <1>3 DEF UserStop, GateInv, RunAt
  <2> QED  BY <2>1, <2>2, <2>3 DEF GateInv
<1> QED  BY <1>1, <1>2, <1>3

LEMMA ReturnStep == ASSUME GateInv, Return PROVE GateInv'
<1>1. call \in Call /\ stage = "run" /\ executed /\ rows.call = "none" /\ searches \in BOOLEAN
  BY DEF GateInv, GateTypes, GateTypeOK, RunAt, Return
<1>2. UNCHANGED <<call, hookAt, verdict, rewritten, userStop, expired, cutOff, executed, queuedAsk, rows>>
  BY DEF Return
<1>3. /\ result' \in {"done", "TOOL_ERROR", "TOOL_TIMEOUT", "THROWN"} /\ stage' \in {"wind", "ledger"}
      /\ (result' = "done" => ~expired) /\ (result' = "TOOL_TIMEOUT" => expired)
      /\ result' = "done" /\ call.mutating => ~searches'
      /\ searches' \in BOOLEAN
  BY <1>1 DEF Return, Reported, Forgets
<1>4. GateTypes'
  BY <1>2, <1>3 DEF GateInv, GateTypes, GateTypeOK, Results
<1>5. PastHooks'
  BY <1>1, <1>2, <1>3 DEF GateInv, PastHooks, RuleVerdict, FirstHit, Stops
<1>6. RunAt'
  BY <1>1, <1>2, <1>3 DEF GateInv, RunAt
<1> QED  BY <1>4, <1>5, <1>6 DEF GateInv

LEMMA LedgerStep == ASSUME GateInv, AfterHooks \/ Ledger PROVE GateInv'
<1>1. CASE AfterHooks
  <2>1. GateTypes'
    BY <1>1 DEF AfterHooks, GateInv, GateTypes, GateTypeOK
  <2>2. PastHooks'
    BY <1>1 DEF AfterHooks, GateInv, PastHooks, RuleVerdict, FirstHit, Stops
  <2>3. RunAt'
    BY <1>1 DEF AfterHooks, GateInv, RunAt
  <2> QED  BY <2>1, <2>2, <2>3 DEF GateInv
<1>2. CASE Ledger
  <2>1. (rows' = rows /\ cutOff) \/ rows' = [call |-> result, rewrite |-> rewritten]
    BY <1>2 DEF Ledger, Unrecorded, GateRow
  <2>2. GateTypes'
    BY <1>2, <2>1 DEF Ledger, GateInv, GateTypes, GateTypeOK
  <2>3. PastHooks'
    BY <1>2 DEF Ledger, GateInv, PastHooks, RuleVerdict, FirstHit, Stops
  <2>4. RunAt'
    BY <1>2, <2>1 DEF Ledger, GateInv, RunAt
  <2> QED  BY <2>2, <2>3, <2>4 DEF GateInv
<1> QED  BY <1>1, <1>2

LEMMA GateSteps == GateInv /\ [GateNext]_gateVars => GateInv'
<1>1. GateInv /\ UNCHANGED gateVars => GateInv'
  BY DEF gateVars, GateInv, GateTypes, GateTypeOK, PastHooks, RunAt, RuleVerdict, FirstHit, Stops
<1> QED
  BY <1>1, DoorStep, RulesStep, HookStep, ApprovalStep, RunStep, ReturnStep, LedgerStep
     DEF GateNext, GateStep

LEMMA GateInvSafe == GateInv => GateSafe
<1> SUFFICES ASSUME GateInv PROVE GateSafe
  OBVIOUS
<1>1. GateTypeOK /\ call \in Call
  BY DEF GateInv, GateTypes, GateTypeOK
<1>2. RunsBehindGate
  <2> SUFFICES ASSUME executed, verdict # "allowed"
               PROVE  /\ RuleVerdict(call.rules) # "deny"
                      /\ \A k \in DOMAIN call.hooks :
                           /\ call.hooks[k].does # "stop"
                           /\ call.hooks[k].does = "fails" => call.hooks[k].failure = "open"
    BY DEF RunsBehindGate, GateInv, PastHooks
  <2>1. verdict = "pass" /\ stage \notin {"door", "hooks"} /\ hookAt = Len(call.hooks) + 1
    BY DEF GateInv, PastHooks, RunAt
  <2>2. Len(call.hooks) \in Nat /\ DOMAIN call.hooks = 1..Len(call.hooks)
        /\ \A k \in 1..Len(call.hooks) : call.hooks[k] \in Hook
    BY <1>1, HooksType
  <2>3. RuleVerdict(call.rules) # "deny" /\ \A k \in DOMAIN call.hooks : ~Stops(call.hooks[k])
    BY <2>1, <2>2 DEF GateInv, PastHooks
  <2> QED  BY <2>2, <2>3 DEF Stops, Hook
<1>3. UnattendedAsks
  BY DEF UnattendedAsks, GateInv, RunAt, PastHooks, Refused, Door
<1>4. RowsAreTrue
  BY DEF RowsAreTrue, GateInv, RunAt, Refused, Door
<1>5. EndedIsLedgered
  BY DEF EndedIsLedgered, GateInv, RunAt
<1>6. SearchesForgotten
  BY DEF SearchesForgotten, GateInv, RunAt
<1> QED  BY <1>1, <1>2, <1>3, <1>4, <1>5, <1>6 DEF GateSafe

\* Whatever rules and hooks a tool has and whenever the user stops or the deadline
\* fires: a tool runs only behind the whole gate, never unattended where an approval
\* is asked for, and what the ledger says of the call is what happened (execTool in
\* server/tools/index.js with hooks.js and deadline.js).
THEOREM GateIsSafe == GateSpec => []GateSafe
BY GateStart, GateSteps, GateInvSafe, PTL DEF GateSpec

-----------------------------------------------------------------------------
(* The tree of sub-agents.  The argument: what a child may use is part of  *)
(* what its parent may use, so the agents whose face holds that of i are   *)
(* closed under parents; a record that is final only changes by being      *)
(* pruned, and only final ones are.                                        *)

SubRec ==
  [parent : Nat, depth : Nat, face : SUBSET SubTool, list : SubList, quota : SubQuota,
   spent : Nat, status : {"running", "done", "error"},
   why : {"none", "answer", "guard", "thrown", "stopped"},
   refund : Int \cup {"none"}, pruned : BOOLEAN]

SubTypes ==
  /\ \E n \in Nat : Ids = 1..n
  /\ sub \in [Ids -> SubRec]
  /\ \A i \in Ids : sub[i].parent \in 0..i - 1
  /\ used \in [Ids -> SUBSET SubTool]
  /\ waitsFor \in [DOMAIN waitsFor -> Ids] /\ DOMAIN waitsFor \subseteq Agents
  /\ told = [i \in DOMAIN told |-> told[i]] /\ DOMAIN told \subseteq Ids
  /\ subStop \in BOOLEAN

\* What holds of one record.
SubOk(i) ==
  /\ used[i] \subseteq sub[i].face
  /\ sub[i].face \subseteq FaceOf(sub[i].parent)
  /\ sub[i].list # {} => sub[i].face \subseteq sub[i].list
  /\ sub[i].why \in {"guard", "thrown"} => sub[i].status = "error"
  /\ sub[i].status = "running" => ~sub[i].pruned
  /\ sub[i].quota > 0 => sub[i].spent <= sub[i].quota + 1

ToldOk(i) == told[i].status # "running" => told[i] = Outcome(i) /\ sub[i].status # "running"

SubInv ==
  /\ SubTypes
  /\ \A i \in Ids : SubOk(i)
  /\ \A i \in DOMAIN told : ToldOk(i)

LEMMA SubStart == SubInit => SubInv
<1> SUFFICES ASSUME SubInit PROVE SubInv
  OBVIOUS
<1>1. Ids = {} /\ DOMAIN waitsFor = {} /\ DOMAIN told = {} /\ DOMAIN used = {}
  BY DEF SubInit, Ids
<1>2. Ids = 1..0
  BY <1>1
<1>3. \A S : <<>> \in [{} -> S]
  <2>1. \A S : <<>> \in Seq(S) /\ Len(<<>>) = 0
    OBVIOUS
  <2> QED  BY <1>2, <2>1, LenProperties
<1>4. <<>> = [i \in {} |-> told[i]]
  BY <1>3
<1>5. SubTypes
  BY <1>1, <1>2, <1>3, <1>4 DEF SubInit, SubTypes
<1> QED  BY <1>1, <1>5 DEF SubInv

\* The next number is a new one.
LEMMA NextId ==
  ASSUME SubTypes
  PROVE  LET id == Cardinality(Ids) + 1 IN
         /\ id \in Nat \ {0} /\ id \notin Ids /\ Ids \cup {id} = 1..id
         /\ \A i \in Agents : i \in 0..id - 1
<1>1. PICK n \in Nat : Ids = 1..n
  BY DEF SubTypes
<1>2. Cardinality(Ids) = n
  BY <1>1, FS_Interval
<1> QED  BY <1>1, <1>2 DEF Agents

LEMMA SubInvSafe == SubInv => SubsSafe
<1> SUFFICES ASSUME SubInv PROVE SubsSafe
  OBVIOUS
<1>1. sub \in [Ids -> SubRec] /\ (\E n \in Nat : Ids = 1..n) /\ \A i \in Ids : SubOk(i)
  BY DEF SubInv, SubTypes
<1>2. SubTypeOK
  BY <1>1 DEF SubTypeOK, SubInv, SubTypes, SubRec
<1>3. FaceNarrows
  <2> SUFFICES ASSUME NEW i \in Ids, NEW a \in Above(i), sub[a].list # {}
               PROVE  used[i] \subseteq sub[a].list
    BY DEF FaceNarrows
  <2> DEFINE A == {b \in Ids : sub[i].face \subseteq sub[b].face}
  <2>1. ASSUME NEW b \in A, sub[b].parent # 0 PROVE sub[b].parent \in A
    <3>1. sub[b].parent \in 0..b - 1 /\ b \in Ids
      BY DEF SubInv, SubTypes
    <3>2. sub[b].parent \in Ids
      BY <1>1, <2>1, <3>1
    <3>3. sub[b].face \subseteq sub[sub[b].parent].face
      BY <1>1, <2>1, <3>1 DEF SubOk, FaceOf
    <3> QED  BY <3>2, <3>3
  <2>2. i \in A /\ WithParents(A) /\ A \in SUBSET Ids
    BY <2>1 DEF WithParents
  <2>3. a \in A
    BY <2>2 DEF Above
  <2> QED  BY <1>1, <2>3 DEF SubOk
<1>4. ToldIsFinal
  <2> SUFFICES ASSUME NEW i \in DOMAIN told, told[i].status # "running"
               PROVE  /\ told[i] = Outcome(i)
                      /\ sub[i].why \in {"guard", "thrown"} => told[i].degraded
    BY DEF ToldIsFinal
  <2>1. told[i] = Outcome(i) /\ SubOk(i)
    BY <1>1 DEF SubInv, SubTypes, ToldOk
  <2>2. told[i].degraded = (sub[i].status # "done")
    BY <2>1 DEF Outcome
  <2> QED  BY <2>1, <2>2 DEF SubOk
<1>5. RunningIsKept
  BY <1>1 DEF RunningIsKept, Running, Kept, SubOk
<1>6. QuotaHolds
  BY <1>1 DEF QuotaHolds, SubOk
<1> QED  BY <1>2, <1>3, <1>4, <1>5, <1>6 DEF SubsSafe

\* The tree only grows: who is above an agent and what it sees stay.
LEMMA FaceStays ==
  ASSUME SubTypes, NEW i \in Ids, Ids \subseteq Ids',
         \A j \in Ids : sub'[j].face = sub[j].face /\ sub'[j].parent = sub[j].parent
  PROVE  FaceOf(sub[i].parent)' = FaceOf(sub[i].parent)
<1>1. sub[i].parent \in 0..i - 1 /\ \E n \in Nat : Ids = 1..n
  BY DEF SubTypes
<1>2. sub[i].parent = 0 \/ sub[i].parent \in Ids
  BY <1>1
<1>3. sub'[i].parent = sub[i].parent
  OBVIOUS
<1> QED  BY <1>2, <1>3 DEF FaceOf

LEMMA PrunedFacts ==
  ASSUME SubTypes, NEW old, NEW i \in Ids
  PROVE  LET q == Pruned(old)[i] IN
         /\ q \in SubRec /\ q.parent = sub[i].parent /\ q.face = sub[i].face
         /\ q.list = sub[i].list /\ q.quota = sub[i].quota /\ q.spent = sub[i].spent
         /\ q.status = sub[i].status /\ q.why = sub[i].why /\ q.refund = sub[i].refund
         /\ q.status = "running" => q.pruned = sub[i].pruned
<1> DEFINE late == Finished \cap old
           rest == Prunable \ late
           over == {j \in rest : Cardinality({k \in rest : k > j}) >= SubMax}
           X == late \cup over
           q == [sub[i] EXCEPT !.pruned = @ \/ i \in X]
<1>1. X \subseteq Finished
  BY DEF Prunable
<1>2. Pruned(old)[i] = [sub[i] EXCEPT !.pruned = @ \/ i \in late \cup over]
  BY DEF Pruned
<1> HIDE DEF X
<1>3. i \in X => sub[i].status # "running"
  BY <1>1 DEF Finished
<1>4. sub[i] \in SubRec
  BY DEF SubTypes
<1>5. /\ q \in SubRec /\ q.parent = sub[i].parent /\ q.face = sub[i].face
      /\ q.list = sub[i].list /\ q.quota = sub[i].quota /\ q.spent = sub[i].spent
      /\ q.status = sub[i].status /\ q.why = sub[i].why /\ q.refund = sub[i].refund
      /\ q.pruned = (sub[i].pruned \/ i \in X)
  BY <1>4 DEF SubRec
<1>6. Pruned(old)[i] = q
  BY <1>2 DEF X
<1> HIDE DEF q
<1>7. q.status = "running" => q.pruned = sub[i].pruned
  <2>1. CASE i \in X
    BY <1>3, <1>5, <2>1
  <2>2. CASE i \notin X
    <3>1. sub[i].pruned \in BOOLEAN
      BY <1>4 DEF SubRec
    <3> QED  BY <1>5, <2>2, <3>1
  <2> QED  BY <2>1, <2>2
<1> QED  BY <1>5, <1>6, <1>7

LEMMA SpawnStep ==
  ASSUME SubInv, NEW p \in Agents, NEW list \in SubList, NEW quota \in SubQuota,
         NEW sync \in BOOLEAN, NEW old, Spawn(p, list, quota, sync, old)
  PROVE  SubInv'
<1> DEFINE id == Cardinality(Ids) + 1
           new == [parent |-> p, depth |-> DepthOf(p) + 1,
                   face |-> Narrowed(p, list), list |-> list,
                   quota |-> quota, spent |-> 0, status |-> "running",
                   why |-> "none", refund |-> "none", pruned |-> FALSE]
<1>1. SubTypes /\ id \in Nat \ {0} /\ id \notin Ids /\ Ids \cup {id} = 1..id /\ p \in 0..id - 1
  BY NextId DEF SubInv
<1>2. /\ sub' = [i \in Ids \cup {id} |-> IF i # id THEN Pruned(old)[i] ELSE new]
      /\ used' = [i \in Ids \cup {id} |-> IF i = id THEN {} ELSE used[i]]
      /\ waitsFor' = IF sync THEN [i \in DOMAIN waitsFor \cup {p} |-> IF i = p THEN id ELSE waitsFor[i]]
                             ELSE waitsFor
      /\ UNCHANGED <<told, subStop>>
  BY DEF Spawn
<1>3. new \in SubRec /\ new.face \subseteq FaceOf(p) /\ (list # {} => new.face \subseteq list)
  <2>1. FaceOf(p) \subseteq SubTool /\ DepthOf(p) \in Nat
    BY <1>1 DEF FaceOf, DepthOf, SubTypes, SubRec, Agents
  <2>2. Narrowed(p, list) \subseteq FaceOf(p) /\ (list # {} => Narrowed(p, list) \subseteq list)
    BY DEF Narrowed
  <2>3. p \in Nat /\ quota \in SubQuota /\ 0 \in Nat /\ DepthOf(p) + 1 \in Nat
        /\ Narrowed(p, list) \in SUBSET SubTool
    BY <1>1, <2>1, <2>2
  <2> QED  BY <2>2, <2>3 DEF SubRec
<1>4. /\ new.parent = p /\ new.list = list /\ new.status = "running" /\ ~new.pruned
      /\ new.why = "none" /\ new.spent = 0 /\ new.quota = quota
  OBVIOUS
<1> HIDE DEF new, id
<1>5. Ids' = Ids \cup {id} /\ sub'[id] = new /\ \A i \in Ids : sub'[i] = Pruned(old)[i]
  BY <1>1, <1>2 DEF Ids
<1>6. \A i \in Ids : /\ sub'[i] \in SubRec /\ sub'[i].parent = sub[i].parent
                     /\ sub'[i].face = sub[i].face
                     /\ sub'[i].list = sub[i].list /\ sub'[i].quota = sub[i].quota
                     /\ sub'[i].spent = sub[i].spent
                     /\ sub'[i].status = sub[i].status /\ sub'[i].why = sub[i].why
                     /\ sub'[i].refund = sub[i].refund
                     /\ sub'[i].status = "running" => sub'[i].pruned = sub[i].pruned
  BY <1>1, <1>5, PrunedFacts
<1>7. SubTypes'
  <2>1. Ids' = 1..id /\ id \in Nat
    BY <1>1, <1>5
  <2>2. sub' \in [Ids' -> SubRec]
    <3>1. \A i \in Ids' : sub'[i] \in SubRec
      BY <1>3, <1>5, <1>6
    <3>2. sub' = [i \in Ids' |-> sub'[i]]
      BY <1>2, <1>5
    <3> QED  BY <3>1, <3>2
  <2>3. \A i \in Ids' : sub'[i].parent \in 0..i - 1
    BY <1>1, <1>4, <1>5, <1>6 DEF SubTypes
  <2>4. used' \in [Ids' -> SUBSET SubTool]
    BY <1>1, <1>2, <1>5 DEF SubTypes
  <2>5. waitsFor' \in [DOMAIN waitsFor' -> Ids'] /\ DOMAIN waitsFor' \subseteq Agents'
    <3>1. CASE sync
      BY <1>1, <1>2, <1>5, <3>1 DEF SubTypes, Agents
    <3>2. CASE ~sync
      BY <1>1, <1>2, <1>5, <3>2 DEF SubTypes, Agents
    <3> QED  BY <3>1, <3>2
  <2>6. told' = [i \in DOMAIN told' |-> told'[i]] /\ DOMAIN told' \subseteq Ids' /\ subStop' \in BOOLEAN
    BY <1>1, <1>2, <1>5 DEF SubTypes
  <2> QED  BY <2>1, <2>2, <2>3, <2>4, <2>5, <2>6 DEF SubTypes
<1>8. ASSUME NEW i \in Ids' PROVE SubOk(i)'
  <2>1. CASE i = id
    <3>1. FaceOf(p)' = FaceOf(p)
      BY <1>1, <1>5, <1>6 DEF FaceOf, Agents
    <3>2. used'[id] = {} /\ sub'[id] = new
      BY <1>2, <1>5
    <3>3. quota \in Nat
      BY SubAssumption
    <3> QED  BY <1>3, <1>4, <2>1, <3>1, <3>2, <3>3 DEF SubOk
  <2>2. CASE i \in Ids
    <3>1. FaceOf(sub[i].parent)' = FaceOf(sub[i].parent)
      BY <1>1, <1>5, <1>6, <2>2, FaceStays
    <3>2. used'[i] = used[i] /\ SubOk(i)
      BY <1>1, <1>2, <2>2 DEF SubInv
    <3> QED  BY <1>6, <2>2, <3>1, <3>2 DEF SubOk
  <2> QED  BY <1>5, <2>1, <2>2
<1>9. ASSUME NEW i \in DOMAIN told' PROVE ToldOk(i)'
  <2>1. i \in Ids /\ ToldOk(i) /\ told' = told
    BY <1>1, <1>2, <1>9 DEF SubInv, SubTypes
  <2> QED  BY <1>6, <2>1 DEF ToldOk, Outcome
<1> QED  BY <1>7, <1>8, <1>9 DEF SubInv

\* A step that changes the record of one running sub-agent.
LEMMA OneSubStep ==
  ASSUME SubInv, NEW i \in Ids, NEW q \in SubRec, sub' = [sub EXCEPT ![i] = q],
         sub[i].status = "running",
         q.parent = sub[i].parent, q.face = sub[i].face, q.list = sub[i].list,
         q.quota = sub[i].quota, q.pruned = sub[i].pruned,
         q.why \in {"guard", "thrown"} => q.status = "error",
         q.quota > 0 => q.spent <= q.quota + 1,
         used' \in [Ids -> SUBSET SubTool], used'[i] \subseteq q.face,
         \A j \in Ids \ {i} : used'[j] = used[j],
         UNCHANGED <<waitsFor, told, subStop>>
  PROVE  SubInv'
<1>1. SubTypes /\ sub \in [Ids -> SubRec]
  BY DEF SubInv, SubTypes
<1>2. Ids' = Ids /\ sub'[i] = q /\ \A j \in Ids \ {i} : sub'[j] = sub[j]
  BY <1>1 DEF Ids
<1>3. SubTypes'
  <2>1. sub' \in [Ids' -> SubRec]
    BY <1>1, <1>2
  <2>2. \A j \in Ids' : sub'[j].parent \in 0..j - 1
    BY <1>1, <1>2 DEF SubTypes
  <2> QED  BY <1>1, <1>2, <2>1, <2>2 DEF SubTypes, Agents
<1>4. ASSUME NEW j \in Ids' PROVE SubOk(j)'
  <2>1. FaceOf(sub[j].parent)' = FaceOf(sub[j].parent)
    BY <1>1, <1>2, FaceStays
  <2>2. SubOk(j)
    BY <1>2 DEF SubInv
  <2>3. CASE j = i
    BY <1>2, <2>1, <2>2, <2>3 DEF SubOk
  <2>4. CASE j # i
    BY <1>2, <2>1, <2>2, <2>4 DEF SubOk
  <2> QED  BY <2>3, <2>4
<1>5. ASSUME NEW j \in DOMAIN told' PROVE ToldOk(j)'
  <2>1. j \in Ids /\ ToldOk(j) /\ told' = told
    BY <1>1, <1>5 DEF SubInv, SubTypes
  <2> QED  BY <1>2, <2>1 DEF ToldOk, Outcome
<1> QED  BY <1>3, <1>4, <1>5 DEF SubInv

LEMMA WorkStep ==
  ASSUME SubInv, NEW i \in Ids, NEW t \in SubTool, WorkRound(i, t)
  PROVE  SubInv'
<1> DEFINE q == [sub[i] EXCEPT !.spent = @ + 1]
<1>1. SubTypes /\ sub[i] \in SubRec /\ used \in [Ids -> SUBSET SubTool] /\ SubOk(i) /\ i # 0
  BY DEF SubInv, SubTypes
<1>2. sub' = [sub EXCEPT ![i] = q] /\ sub[i].status = "running"
  BY <1>1 DEF WorkRound, Free, Alive, SubTypes
<1>3. /\ q \in SubRec /\ q.parent = sub[i].parent /\ q.face = sub[i].face /\ q.list = sub[i].list
      /\ q.quota = sub[i].quota /\ q.pruned = sub[i].pruned /\ q.why = sub[i].why
      /\ q.status = sub[i].status /\ q.spent = sub[i].spent + 1
  BY <1>1 DEF SubRec
<1> HIDE DEF q
<1>4. q.quota > 0 => q.spent <= q.quota + 1
  <2>1. q.quota \in Nat /\ sub[i].spent \in Nat
    BY <1>1, <1>3, SubAssumption DEF SubRec
  <2> QED  BY <1>3, <2>1 DEF WorkRound, Affords
<1>5. /\ used' \in [Ids -> SUBSET SubTool] /\ used'[i] = used[i] \cup {t}
      /\ \A j \in Ids \ {i} : used'[j] = used[j]
  BY <1>1 DEF WorkRound
<1>6. used'[i] \subseteq q.face
  BY <1>1, <1>3, <1>5 DEF WorkRound, MayUse, SubOk
<1>7. UNCHANGED <<waitsFor, told, subStop>> /\ (q.why \in {"guard", "thrown"} => q.status = "error")
  BY <1>1, <1>3 DEF WorkRound, SubOk
<1> QED  BY <1>2, <1>3, <1>4, <1>5, <1>6, <1>7, OneSubStep

LEMMA SettleStep ==
  ASSUME SubInv, NEW i \in Agents, NEW how \in {"answer", "guard", "thrown", "stopped"}, Settle(i, how)
  PROVE  SubInv'
<1>1. SubTypes /\ i \in Ids /\ sub[i] \in SubRec /\ used \in [Ids -> SUBSET SubTool] /\ SubOk(i)
      /\ sub[i].status = "running"
  BY DEF SubInv, SubTypes, Settle, Free, Alive, Agents
<1> DEFINE back == IF sub[i].quota = 0 THEN "none"
                   ELSE IF how = "thrown" THEN sub[i].quota ELSE sub[i].quota - sub[i].spent
           q == [sub[i] EXCEPT !.status = Status(how), !.why = how, !.refund = back]
<1>2. sub' = [sub EXCEPT ![i] = q]
  BY <1>1 DEF Settle, SubTypes
<1>3. back \in Int \cup {"none"}
  <2>0. sub[i].quota \in SubQuota /\ sub[i].spent \in Nat
    BY <1>1 DEF SubRec
  <2>1. sub[i].quota \in Int /\ sub[i].spent \in Int
    BY <2>0, SubAssumption
  <2>2. sub[i].quota - sub[i].spent \in Int
    BY <2>1
  <2> QED  BY <2>1, <2>2
<1> HIDE DEF back
<1>4. Status(how) \in {"done", "error"} /\ (how \in {"guard", "thrown"} => Status(how) = "error")
  BY DEF Status
<1>5. /\ q \in SubRec /\ q.parent = sub[i].parent /\ q.face = sub[i].face /\ q.list = sub[i].list
      /\ q.quota = sub[i].quota /\ q.pruned = sub[i].pruned /\ q.why = how
      /\ q.status = Status(how) /\ q.spent = sub[i].spent
  BY <1>1, <1>3, <1>4 DEF SubRec
<1> HIDE DEF q
<1>6. UNCHANGED <<used, waitsFor, told, subStop>>
  BY DEF Settle
<1>7. used[i] \subseteq q.face /\ (q.quota > 0 => q.spent <= q.quota + 1)
  BY <1>1, <1>5 DEF SubOk
<1> QED  BY <1>1, <1>2, <1>4, <1>5, <1>6, <1>7, OneSubStep

LEMMA TellStep ==
  ASSUME SubInv, NEW i \in Ids, Tell(i, Outcome(i)), UNCHANGED <<sub, used, subStop>>,
         waitsFor' \in [DOMAIN waitsFor' -> Ids], DOMAIN waitsFor' \subseteq Agents
  PROVE  SubInv'
<1>1. SubTypes
  BY DEF SubInv
<1>2. DOMAIN told' = DOMAIN told \cup {i} /\ told'[i] = Outcome(i)
      /\ \A j \in DOMAIN told \ {i} : told'[j] = told[j]
  BY DEF Tell
<1>3. told' = [j \in DOMAIN told' |-> told'[j]]
  BY DEF Tell
<1>4. SubTypes'
  BY <1>1, <1>2, <1>3 DEF SubTypes, Ids, Agents
<1>5. ASSUME NEW j \in DOMAIN told' PROVE ToldOk(j)'
  <2>1. CASE j = i
    BY <1>2, <2>1 DEF ToldOk, Outcome
  <2>2. CASE j # i
    BY <1>2, <2>2 DEF ToldOk, Outcome, SubInv
  <2> QED  BY <2>1, <2>2
<1>6. \A j \in Ids' : SubOk(j)'
  BY DEF SubInv, SubOk, Ids, FaceOf
<1> QED  BY <1>4, <1>5, <1>6 DEF SubInv

LEMMA SubSteps == SubInv /\ [SubNext]_subVars => SubInv'
<1> SUFFICES ASSUME SubInv, [SubNext]_subVars PROVE SubInv'
  OBVIOUS
<1>1. ASSUME UNCHANGED <<sub, used, waitsFor, told>>, subStop' \in BOOLEAN PROVE SubInv'
  BY <1>1 DEF SubInv, SubTypes, SubOk, ToldOk, Outcome, Ids, Agents, FaceOf
<1>2. ASSUME NEW p \in Agents, WaitOver(p) PROVE SubInv'
  <2>1. SubTypes /\ waitsFor[p] \in Ids
    BY <1>2 DEF WaitOver, SubInv, SubTypes
  <2>2. waitsFor' \in [DOMAIN waitsFor' -> Ids] /\ DOMAIN waitsFor' \subseteq Agents
    BY <1>2, <2>1 DEF WaitOver, Unblock, SubTypes
  <2> QED  BY <1>2, <2>1, <2>2, TellStep DEF WaitOver
<1>3. ASSUME NEW p \in Agents, NEW i \in Ids, Join(p, i) PROVE SubInv'
  BY <1>3, TellStep DEF Join, SubInv, SubTypes
<1>4. CASE StopAll
  BY <1>1, <1>4 DEF StopAll
<1>5. CASE UNCHANGED subVars
  BY <1>1, <1>5 DEF subVars, SubInv, SubTypes
<1> QED  BY <1>2, <1>3, <1>4, <1>5, SpawnStep, WorkStep, SettleStep DEF SubNext, SubStep

\* However sub-agents nest, are waited for, asked about, stopped and pruned: none uses a
\* tool that some whitelist above it withholds, none overruns its quota by more than a
\* round, a running one can still be found, and what a caller is told of a final one is
\* what became of it (server/subagent.js, server/subtools.js).
THEOREM SubsAreSafe == SubSpec => []SubsSafe
BY SubStart, SubSteps, SubInvSafe, PTL DEF SubSpec

-----------------------------------------------------------------------------
(* The batches of one reply.  The argument: the plan cuts the calls, in    *)
(* their order, into runs of neighbours; the calls of the first batch of   *)
(* what is left of it are the only ones that can be busy.                  *)

\* A non-empty set of naturals has a least element.
LEMMA LeastNat ==
  ASSUME NEW S \in SUBSET Nat, S # {}
  PROVE  \E x \in S : \A y \in S : x <= y
<1> DEFINE R == {p \in Nat \X Nat : p[1] < p[2]}
<1>1. IsWellFoundedOn(R, Nat)
  BY NatLessThanWellFounded, Zenon DEF OpToRel
<1> HIDE DEF R
<1>2. PICK x \in S : \A y \in S : <<y, x>> \notin R
  BY <1>1, WFMin
<1>3. ASSUME NEW y \in S PROVE x <= y
  <2>1. y < x => <<y, x>> \in R
    BY DEF R
  <2> QED
    BY <1>2, <2>1
<1> QED
  BY <1>3

LEMMA ParIsPositive == Par \in Nat \ {0}
BY BatchesAssumption DEF Par

\* A batch: neighbours, no more than the pool runs, all safe unless it is one.
GoodBatch(b, hi, names) ==
  /\ b \in Seq(Nat) /\ Len(b) \in 1..Par /\ b[1] >= 1 /\ b[1] + Len(b) - 1 <= hi
  /\ \A i \in 1..Len(b) : b[i] = b[1] + i - 1
  /\ Len(b) > 1 => \A i \in 1..Len(b) : names[b[i]] \in Safe
\* Batches that cover lo..hi, each beginning where the one before ends.
Chained(bs, lo, hi, names) ==
  /\ bs \in Seq(Seq(Nat))
  /\ \A k \in 1..Len(bs) : GoodBatch(bs[k], hi, names)
  /\ \A k \in 1..(Len(bs) - 1) : bs[k + 1][1] = bs[k][1] + Len(bs[k])
  /\ bs = <<>> => lo = hi + 1
  /\ bs # <<>> => bs[1][1] = lo
  /\ bs # <<>> => bs[Len(bs)][1] + Len(bs[Len(bs)]) = hi + 1
Interval(s, lo, hi) ==
  s \in Seq(Nat) /\ Len(s) = hi - lo + 1 /\ \A i \in 1..Len(s) : s[i] = lo + i - 1

LEMMA ChainJoin ==
  ASSUME NEW names, NEW lo \in Nat, NEW mid \in Nat, NEW hi \in Nat, mid <= hi,
         NEW a, Chained(a, lo, mid, names), NEW b, Chained(b, mid + 1, hi, names)
  PROVE  Chained(a \o b, lo, hi, names)
<1> DEFINE c == a \o b
           m == Len(a)
           n == Len(b)
<1>1. m \in Nat /\ n \in Nat /\ a \in Seq(Seq(Nat)) /\ b \in Seq(Seq(Nat))
  BY DEF Chained
<1>2. c \in Seq(Seq(Nat)) /\ Len(c) = m + n
      /\ (\A k \in 1..m : c[k] = a[k]) /\ (\A k \in 1..n : c[m + k] = b[k])
  <2>1. c \in Seq(Seq(Nat)) /\ Len(c) = m + n
        /\ \A k \in 1..m + n : c[k] = IF k <= m THEN a[k] ELSE b[k - m]
    BY <1>1, ConcatProperties
  <2>2. \A k \in 1..n : m + k \in 1..m + n /\ ~(m + k <= m) /\ m + k - m = k
    BY <1>1
  <2>3. \A k \in 1..m : k \in 1..m + n /\ k <= m
    BY <1>1
  <2> HIDE DEF c
  <2>4. \A k \in 1..m : c[k] = a[k]
    BY <2>1, <2>3
  <2>5. \A k \in 1..n : c[m + k] = b[k]
    <3> SUFFICES ASSUME NEW k \in 1..n PROVE c[m + k] = b[k]
      OBVIOUS
    <3>1. c[m + k] = IF m + k <= m THEN a[m + k] ELSE b[m + k - m]
      BY SMTT(30), <2>1, <2>2
    <3> QED
      BY <3>1, <2>2
  <2> QED
    BY <2>1, <2>4, <2>5
<1> HIDE DEF c
<1>3. \A x : GoodBatch(x, mid, names) => GoodBatch(x, hi, names)
  <2> SUFFICES ASSUME NEW x, GoodBatch(x, mid, names) PROVE GoodBatch(x, hi, names)
    OBVIOUS
  <2>1. x \in Seq(Nat) /\ Len(x) \in 1..Par /\ x[1] >= 1 /\ x[1] + Len(x) - 1 <= mid
    BY DEF GoodBatch
  <2>2. x[1] \in Nat /\ Len(x) \in Nat
    BY <2>1
  <2>3. x[1] + Len(x) - 1 <= hi
    BY <2>1, <2>2
  <2> QED
    BY <2>3 DEF GoodBatch
<1>4. ASSUME NEW k \in 1..Len(c) PROVE GoodBatch(c[k], hi, names)
  <2>1. CASE k <= m
    BY <2>1, <1>1, <1>2, <1>3 DEF Chained
  <2>2. CASE ~(k <= m)
    <3>1. k - m \in 1..n /\ m + (k - m) = k
      BY <2>2, <1>1, <1>2
    <3> QED
      BY <3>1, <1>2 DEF Chained
  <2> QED
    BY <2>1, <2>2
<1>5. m # 0 => a # <<>> /\ a[1][1] = lo /\ a[m][1] + Len(a[m]) = mid + 1 /\ m \in 1..m /\ 1 \in 1..m
  BY <1>1 DEF Chained
<1>6. n # 0 => b # <<>> /\ b[1][1] = mid + 1 /\ b[n][1] + Len(b[n]) = hi + 1 /\ n \in 1..n /\ 1 \in 1..n
  BY <1>1 DEF Chained
<1>7. (m = 0 => lo = mid + 1) /\ (n = 0 => mid + 1 = hi + 1)
  BY <1>1 DEF Chained
<1>8. ASSUME NEW k \in 1..(Len(c) - 1) PROVE c[k + 1][1] = c[k][1] + Len(c[k])
  <2>1. CASE k < m
    <3>1. k \in 1..(m - 1) /\ k + 1 \in 1..m /\ k \in 1..m
      BY <2>1, <1>1
    <3> QED
      BY <3>1, <1>2 DEF Chained
  <2>2. CASE k = m
    <3>1. m # 0 /\ n # 0
      BY <2>2, <1>1, <1>2
    <3> QED
      BY <3>1, <2>2, <1>2, <1>5, <1>6
  <2>3. CASE k > m
    <3>1. k - m \in 1..(n - 1) /\ k - m \in 1..n /\ k - m + 1 \in 1..n
          /\ m + (k - m) = k /\ m + (k - m + 1) = k + 1
      BY SMTT(30), <2>3, <1>1, <1>2
    <3>2. c[k] = b[k - m] /\ c[k + 1] = b[k - m + 1]
      <4>1. c[m + (k - m)] = b[k - m] /\ c[m + (k - m + 1)] = b[k - m + 1]
        BY <3>1, <1>2
      <4> QED
        BY <4>1, <3>1
    <3> QED
      BY <3>1, <3>2 DEF Chained
  <2> QED
    BY <2>1, <2>2, <2>3, <1>1
<1>9. c = <<>> => lo = hi + 1
  <2>1. c = <<>> => m + n = 0
    BY <1>2
  <2> QED
    BY <2>1, <1>1, <1>7
<1>10. c # <<>> => c[1][1] = lo
  <2> SUFFICES ASSUME c # <<>> PROVE c[1][1] = lo
    OBVIOUS
  <2>1. m + n # 0
    BY <1>1, <1>2
  <2>2. CASE m # 0
    BY <2>2, <1>2, <1>5
  <2>3. CASE m = 0
    <3>1. n # 0 /\ m + 1 = 1
      BY <2>1, <2>3, <1>1
    <3> QED
      BY <3>1, <2>3, <1>2, <1>6, <1>7
  <2> QED
    BY <2>2, <2>3
<1>11. c # <<>> => c[Len(c)][1] + Len(c[Len(c)]) = hi + 1
  <2> SUFFICES ASSUME c # <<>> PROVE c[Len(c)][1] + Len(c[Len(c)]) = hi + 1
    OBVIOUS
  <2>1. m + n # 0
    BY <1>1, <1>2
  <2>2. CASE n # 0
    BY <2>2, <1>2, <1>6
  <2>3. CASE n = 0
    <3>1. m # 0 /\ Len(c) = m
      BY <2>1, <2>3, <1>1, <1>2
    <3> QED
      BY <3>1, <2>3, <1>2, <1>5, <1>7
  <2> QED
    BY <2>2, <2>3
<1> QED
  BY <1>2, <1>4, <1>8, <1>9, <1>10, <1>11 DEF Chained, c

LEMMA ChainOne ==
  ASSUME NEW names, NEW i \in Nat \ {0}
  PROVE  Chained(<<<<i>>>>, i, i, names)
<1> DEFINE b == <<i>>
           bs == <<b>>
<1>1. b \in Seq(Nat) /\ Len(b) = 1 /\ b[1] = i
  OBVIOUS
<1>2. GoodBatch(b, i, names)
  BY <1>1, ParIsPositive DEF GoodBatch
<1> HIDE DEF b
<1>3. bs \in Seq(Seq(Nat)) /\ Len(bs) = 1 /\ bs[1] = b /\ bs # <<>>
  BY <1>1
<1> HIDE DEF bs
<1>4. Chained(bs, i, i, names)
  <2>1. (\A k \in 1..Len(bs) : k = 1) /\ ~(\E k \in 1..(Len(bs) - 1) : TRUE)
    BY <1>3
  <2>2. bs[1][1] = i /\ bs[Len(bs)][1] + Len(bs[Len(bs)]) = i + 1
    BY <1>1, <1>3
  <2> QED
    BY <2>1, <2>2, <1>2, <1>3 DEF Chained
<1> QED
  BY <1>4 DEF bs, b

LEMMA ChainTail ==
  ASSUME NEW names, NEW lo \in Nat, NEW hi \in Nat, NEW bs, Chained(bs, lo, hi, names),
         bs # <<>>
  PROVE  Chained(Tail(bs), lo + Len(Head(bs)), hi, names)
<1> DEFINE t == Tail(bs)
           n == Len(bs)
<1>1. bs \in Seq(Seq(Nat)) /\ n \in Nat \ {0} /\ Head(bs) = bs[1] /\ bs[1] \in Seq(Nat)
  BY DEF Chained
<1>2. t \in Seq(Seq(Nat)) /\ Len(t) = n - 1 /\ \A k \in 1..(n - 1) : t[k] = bs[k + 1]
  BY <1>1
<1>3. Len(bs[1]) \in Nat /\ bs[1][1] = lo
  BY <1>1 DEF Chained
<1> HIDE DEF t
<1>4. \A k \in 1..Len(t) : GoodBatch(t[k], hi, names)
  <2>1. \A k \in 1..Len(t) : k + 1 \in 1..n /\ k \in 1..(n - 1)
    BY <1>1, <1>2
  <2>2. \A k \in 1..Len(t) : t[k] = bs[k + 1]
    BY <2>1, <1>2
  <2> QED
    BY <2>1, <2>2 DEF Chained
<1>5. \A k \in 1..(Len(t) - 1) : t[k + 1][1] = t[k][1] + Len(t[k])
  <2> SUFFICES ASSUME NEW k \in 1..(Len(t) - 1)
               PROVE  t[k + 1][1] = t[k][1] + Len(t[k])
    OBVIOUS
  <2>1. k + 1 \in 1..(n - 1) /\ k \in 1..(n - 1)
    BY <1>1, <1>2
  <2>2. t[k] = bs[k + 1] /\ t[k + 1] = bs[k + 1 + 1]
    BY <2>1, <1>2
  <2>3. bs[k + 1 + 1][1] = bs[k + 1][1] + Len(bs[k + 1])
    BY <2>1 DEF Chained
  <2> QED
    BY <2>2, <2>3
<1>6. CASE n = 1
  <2>1. t = <<>> /\ lo + Len(bs[1]) = hi + 1
    BY <1>1, <1>2, <1>3, <1>6 DEF Chained
  <2> QED
    BY <2>1, <1>1, <1>2, <1>4, <1>5 DEF Chained, t
<1>7. CASE n # 1
  <2>1. t # <<>> /\ 1 \in 1..(n - 1) /\ n - 1 \in 1..(n - 1) /\ n - 1 + 1 = n
    BY <1>1, <1>2, <1>7
  <2>2. t[1] = bs[1 + 1] /\ t[Len(t)] = bs[n]
    BY <2>1, <1>2
  <2>3. t[1][1] = lo + Len(bs[1])
    BY <2>1, <2>2, <1>3 DEF Chained
  <2>4. t[Len(t)][1] + Len(t[Len(t)]) = hi + 1
    BY <2>2, <1>1 DEF Chained
  <2> QED
    BY <2>1, <2>3, <2>4, <1>1, <1>2, <1>4, <1>5 DEF Chained, t
<1> QED
  BY <1>6, <1>7

LEMMA LessProduct ==
  ASSUME NEW d \in Nat \ {0}, NEW a \in Int, NEW b \in Int, a < b
  PROVE  a * d + d <= b * d
<1>1. (b - a - 1) * d >= 0
  BY SMTT(20)
<1>2. (b - a - 1) * d = b * d - a * d - d
  BY SMTT(20)
<1> QED
  BY <1>1, <1>2

\* How many slices there are.
LEMMA SliceCount ==
  ASSUME NEW d \in Nat \ {0}, NEW n \in Nat, NEW c, c = (n + d - 1) \div d
  PROVE  /\ c \in Nat /\ n <= c * d /\ c * d <= n + d - 1
         /\ \A k \in 1..c : (k - 1) * d \in Nat /\ (k - 1) * d < n /\ k * d = (k - 1) * d + d
         /\ \A k \in 1..(c - 1) : k * d < n
<1> DEFINE r == (n + d - 1) % d
<1>1. c \in Int
  BY SMTT(20)
<1>2. r \in 0..d - 1
  BY SMTT(20)
<1>3. n + d - 1 = d * c + r
  BY SMTT(20)
<1> HIDE DEF r
<1>4. n <= c * d /\ c * d <= n + d - 1 /\ c * d \in Int
  <2>1. d * c = c * d /\ c * d \in Int
    BY <1>1, SMTT(20)
  <2> QED
    BY <2>1, <1>2, <1>3
<1>5. c >= 0
  <2>1. c < 0 => c * d + d <= 0 * d
    BY <1>1, LessProduct
  <2>2. 0 * d = 0
    BY SMTT(20)
  <2> QED
    BY <2>1, <2>2, <1>1, <1>4
<1>6. ASSUME NEW k \in 1..c
      PROVE  (k - 1) * d \in Nat /\ (k - 1) * d < n /\ k * d = (k - 1) * d + d
  <2>1. (k - 1) * d + d <= c * d
    BY <1>1, LessProduct
  <2>2. k * d = (k - 1) * d + d /\ (k - 1) * d \in Int
    BY <1>1, SMTT(20)
  <2>3. (k - 1) * d >= 0
    BY <1>1, SMTT(20)
  <2> QED
    BY <2>1, <2>2, <2>3, <1>4
<1>7. ASSUME NEW k \in 1..(c - 1) PROVE k * d < n
  <2>1. k * d + d <= c * d
    BY <1>1, LessProduct
  <2>2. k * d \in Int
    BY <1>1, SMTT(20)
  <2> QED
    BY <2>1, <2>2, <1>4
<1> QED
  BY <1>1, <1>4, <1>5, <1>6, <1>7

LEMMA SlicesChain ==
  ASSUME NEW names, NEW lo \in Nat \ {0}, NEW hi \in Nat, lo <= hi + 1,
         NEW pool, Interval(pool, lo, hi),
         \A i \in 1..Len(pool) : names[pool[i]] \in Safe
  PROVE  Chained(Slices(pool), lo, hi, names)
<1> DEFINE n == Len(pool)
           P == Par
           c == (n + P - 1) \div P
           s == Slices(pool)
           B(k) == (k - 1) * P
           EndAt(k) == IF k * P < n THEN k * P ELSE n
<1>1. n \in Nat /\ n = hi - lo + 1 /\ pool \in Seq(Nat) /\ \A i \in 1..n : pool[i] = lo + i - 1
  BY DEF Interval
<1>2. P \in Nat \ {0}
  BY ParIsPositive
<1>3. s = [k \in 1..c |-> SubSeq(pool, B(k) + 1, EndAt(k))]
  BY DEF Slices
<1> HIDE DEF c, s, P, n
<1>4. /\ c \in Nat /\ n <= c * P /\ c * P \in Nat
      /\ \A k \in 1..c : B(k) \in Nat /\ B(k) < n /\ k * P = B(k) + P
      /\ \A k \in 1..(c - 1) : k * P < n
  <2>1. /\ c \in Nat /\ n <= c * P /\ c * P <= n + P - 1
        /\ \A k \in 1..c : (k - 1) * P \in Nat /\ (k - 1) * P < n /\ k * P = (k - 1) * P + P
        /\ \A k \in 1..(c - 1) : k * P < n
    BY <1>1, <1>2, SliceCount DEF c
  <2>2. c * P \in Nat
    BY <2>1, <1>2, SMTT(20)
  <2> QED
    BY <2>1, <2>2
<1>a. B(1) = 0 /\ \A k \in 1..(c - 1) : B(k + 1) = k * P
  <2>1. (1 - 1) * P = 0
    BY <1>2, SMTT(20)
  <2>2. \A k \in 1..(c - 1) : k + 1 - 1 = k
    BY <1>4
  <2> QED
    BY <2>1, <2>2
<1>b. (c = 0 => n = 0) /\ (c # 0 => EndAt(c) = n)
  <2>1. 0 * P = 0
    BY <1>2, SMTT(20)
  <2> QED
    BY <2>1, <1>1, <1>4
<1>c. \A k \in 1..(c - 1) : EndAt(k) = B(k) + P /\ B(k + 1) = B(k) + P
  <2> SUFFICES ASSUME NEW k \in 1..(c - 1) PROVE EndAt(k) = B(k) + P /\ B(k + 1) = B(k) + P
    OBVIOUS
  <2>1. k \in 1..c
    BY <1>4
  <2>2. k * P = B(k) + P
    BY <2>1, <1>4
  <2> QED
    BY <2>2, <1>4, <1>a
<1> HIDE DEF B
<1>5. ASSUME NEW k \in 1..c
      PROVE  /\ EndAt(k) \in Nat /\ B(k) + 1 <= EndAt(k) /\ EndAt(k) <= n
             /\ EndAt(k) <= B(k) + P
  BY <1>1, <1>2, <1>4
<1> HIDE DEF EndAt
<1>6. ASSUME NEW k \in 1..c
      PROVE  /\ s[k] \in Seq(Nat) /\ Len(s[k]) = EndAt(k) - B(k)
             /\ \A i \in 1..Len(s[k]) : s[k][i] = lo + B(k) + i - 1
                                        /\ B(k) + i \in 1..n
  <2> DEFINE f == B(k) + 1
             e == EndAt(k)
  <2>1. s[k] = SubSeq(pool, f, e)
    BY <1>3
  <2>2. f \in Nat \ {0} /\ e \in Nat /\ f <= e /\ e <= n /\ f = B(k) + 1
        /\ B(k) \in Nat
    BY <1>4, <1>5
  <2> HIDE DEF f, e
  <2>3. \A i \in f..e : pool[i] \in Nat
    <3> SUFFICES ASSUME NEW i \in f..e PROVE pool[i] \in Nat
      OBVIOUS
    <3>1. i \in 1..n
      BY <2>2, <1>1
    <3> QED
      BY <3>1, <1>1, ElementOfSeq DEF n
  <2>4. /\ s[k] \in Seq(Nat) /\ Len(s[k]) = e - f + 1
        /\ \A i \in 1..(e - f + 1) : s[k][i] = pool[f + i - 1]
    BY SMTT(30), <2>1, <2>2, <2>3, f \in Int, e \in Int, SubSeqProperties
  <2>5. Len(s[k]) = e - B(k)
    BY <2>2, <2>4
  <2>6. ASSUME NEW i \in 1..Len(s[k])
        PROVE  s[k][i] = lo + B(k) + i - 1 /\ B(k) + i \in 1..n
    <3>1. f + i - 1 \in 1..n /\ f + i - 1 = B(k) + i
      <4>1. i \in 1..(e - f + 1)
        BY <2>4
      <4>2. i \in Nat /\ 1 <= i /\ i <= e - f + 1 /\ n \in Nat
        BY <4>1, <2>2, <1>1
      <4>3. f + i - 1 = B(k) + i
        BY <4>2, <2>2
      <4>4. f + i - 1 >= 1 /\ f + i - 1 <= n /\ f + i - 1 \in Nat
        BY SMTT(30), <4>2, <2>2
      <4> QED
        BY <4>3, <4>4, <4>2
    <3>2. s[k][i] = pool[f + i - 1]
      BY <2>4
    <3>3. pool[f + i - 1] = lo + (f + i - 1) - 1
      BY <3>1, <1>1
    <3> QED
      BY SMTT(30), <3>1, <3>2, <3>3, <2>2
  <2> QED
    BY <2>4, <2>5, <2>6 DEF e
<1>7. ASSUME NEW k \in 1..c
      PROVE  /\ Len(s[k]) \in 1..P /\ s[k][1] = lo + B(k)
             /\ s[k][1] + Len(s[k]) = lo + EndAt(k)
  <2>1. Len(s[k]) \in 1..P
    <3>1. /\ EndAt(k) \in Nat /\ B(k) + 1 <= EndAt(k) /\ EndAt(k) <= B(k) + P
          /\ B(k) \in Nat /\ Len(s[k]) = EndAt(k) - B(k)
      BY <1>4, <1>5, <1>6
    <3> QED
      BY <3>1, <1>2
  <2>2. s[k][1] = lo + B(k) + 1 - 1
    BY SMTT(30), <2>1, <1>2, <1>6
  <2> QED
    BY SMTT(30), <2>1, <2>2, <1>4, <1>5, <1>6
<1>8. s \in Seq(Seq(Nat)) /\ Len(s) = c
  BY <1>3, <1>4, <1>6
<1>9. ASSUME NEW k \in 1..c PROVE GoodBatch(s[k], hi, names)
  <2>1. s[k] \in Seq(Nat) /\ Len(s[k]) \in 1..Par
    BY <1>6, <1>7 DEF P
  <2>2. s[k][1] >= 1 /\ s[k][1] + Len(s[k]) - 1 <= hi
    <3>1. /\ EndAt(k) \in Nat /\ EndAt(k) <= n /\ B(k) \in Nat /\ s[k][1] = lo + B(k)
          /\ s[k][1] + Len(s[k]) = lo + EndAt(k)
      BY <1>4, <1>5, <1>7
    <3>2. s[k][1] + Len(s[k]) - 1 <= hi
      BY SMTT(30), <3>1, <1>1
    <3> QED
      BY <3>1, <3>2
  <2>3. \A i \in 1..Len(s[k]) : s[k][i] = s[k][1] + i - 1
    BY <1>1, <1>4, <1>6, <1>7
  <2>4. \A i \in 1..Len(s[k]) : names[s[k][i]] \in Safe
    <3> SUFFICES ASSUME NEW i \in 1..Len(s[k]) PROVE names[s[k][i]] \in Safe
      OBVIOUS
    <3> DEFINE j == B(k) + i
    <3>1. j \in 1..n /\ s[k][i] = lo + B(k) + i - 1
      BY <1>6
    <3>2. s[k][i] = lo + j - 1
      <4>1. i \in Nat
        BY <1>7
      <4> QED
        BY SMTT(30), <3>1, <4>1, <1>4
    <3> HIDE DEF j
    <3>3. s[k][i] = pool[j]
      BY <3>1, <3>2, <1>1
    <3> QED
      BY <3>1, <3>3 DEF n
  <2> QED
    BY <2>1, <2>2, <2>3, <2>4 DEF GoodBatch
<1>10. ASSUME NEW k \in 1..(c - 1) PROVE s[k + 1][1] = s[k][1] + Len(s[k])
  <2>1. k \in 1..c /\ k + 1 \in 1..c
    BY <1>4
  <2> QED
    BY <2>1, <1>c, <1>7
<1>11. s = <<>> => lo = hi + 1
  BY <1>1, <1>8, <1>b
<1>12. s # <<>> => s[1][1] = lo /\ s[Len(s)][1] + Len(s[Len(s)]) = hi + 1
  <2> SUFFICES ASSUME s # <<>> PROVE s[1][1] = lo /\ s[Len(s)][1] + Len(s[Len(s)]) = hi + 1
    OBVIOUS
  <2>1. c # 0 /\ 1 \in 1..c /\ c \in 1..c
    BY <1>4, <1>8
  <2>2. s[1][1] = lo
    BY <2>1, <1>7, <1>a
  <2>3. s[c][1] + Len(s[c]) = lo + n
    BY <2>1, <1>7, <1>b
  <2> QED
    BY <2>2, <2>3, <1>1, <1>8
<1> QED
  BY <1>8, <1>9, <1>10, <1>11, <1>12 DEF Chained, s

\* What the loop has in hand after k calls: batches up to some call, and the
\* safe calls from there on.
InHand(a, k, names) ==
  /\ a \in [batches : Seq(Seq(Nat)), pool : Seq(Nat)]
  /\ \E m \in 0..k : /\ Chained(a.batches, 1, m, names) /\ Interval(a.pool, m + 1, k)
                     /\ \A i \in 1..Len(a.pool) : names[a.pool[i]] \in Safe
Empty == [batches |-> <<>>, pool |-> <<>>]

LEMMA EmptyInHand == ASSUME NEW names PROVE InHand(Empty, 0, names)
<1>1. Chained(<<>>, 1, 0, names) /\ Interval(<<>>, 1, 0)
  BY DEF Chained, Interval
<1>2. Empty \in [batches : Seq(Seq(Nat)), pool : Seq(Nat)]
      /\ Empty.batches = <<>> /\ Empty.pool = <<>>
  BY DEF Empty
<1> QED
  BY <1>1, <1>2 DEF InHand

LEMMA PlanStepInHand ==
  ASSUME NEW names, NEW k \in Nat, NEW a, InHand(a, k, names)
  PROVE  InHand(PlanStep(a, k + 1, names), k + 1, names)
<1> DEFINE i == k + 1
<1>0. i \in Nat \ {0} /\ i = k + 1
  OBVIOUS
<1> HIDE DEF i
<1>1. a \in [batches : Seq(Seq(Nat)), pool : Seq(Nat)]
  BY DEF InHand
<1>2. PICK m \in 0..k : /\ Chained(a.batches, 1, m, names) /\ Interval(a.pool, m + 1, k)
                        /\ \A j \in 1..Len(a.pool) : names[a.pool[j]] \in Safe
  BY DEF InHand
<1>3. m \in Nat /\ m + 1 \in Nat \ {0} /\ m <= k /\ m + 1 <= k + 1
  BY <1>2
<1>4. CASE names[i] \in Safe
  <2> DEFINE p == Append(a.pool, i)
             r == [a EXCEPT !.pool = p]
  <2>1. PlanStep(a, i, names) = r
    BY <1>4 DEF PlanStep
  <2>2. a.pool \in Seq(Nat) /\ Len(a.pool) = k - m
        /\ \A j \in 1..Len(a.pool) : a.pool[j] = m + 1 + j - 1
    <3>1. a.pool \in Seq(Nat)
      BY <1>1
    <3>2. Len(a.pool) = k - (m + 1) + 1
          /\ \A j \in 1..Len(a.pool) : a.pool[j] = m + 1 + j - 1
      BY <1>2 DEF Interval
    <3>3. k - (m + 1) + 1 = k - m
      BY <1>3
    <3> QED
      BY <3>1, <3>2, <3>3
  <2>3. p \in Seq(Nat) /\ Len(p) = k - m + 1 /\ p[k - m + 1] = i
        /\ \A j \in 1..(k - m) : p[j] = a.pool[j]
    BY <2>2, <1>0, <1>3
  <2> HIDE DEF p
  <2>4. r \in [batches : Seq(Seq(Nat)), pool : Seq(Nat)] /\ r.batches = a.batches /\ r.pool = p
    BY <1>1, <2>3
  <2> HIDE DEF r
  <2>5. Interval(p, m + 1, i)
    <3>1. Len(p) = i - (m + 1) + 1
      BY <2>3, <1>0, <1>3
    <3>2. ASSUME NEW j \in 1..Len(p) PROVE p[j] = m + 1 + j - 1
      <4>1. j \in Nat /\ (j \in 1..(k - m) \/ j = k - m + 1)
        BY <2>3, <1>3
      <4>2. CASE j \in 1..(k - m)
        BY <4>2, <2>2, <2>3
      <4>3. CASE j = k - m + 1
        BY <4>3, <2>3, <1>0, <1>3
      <4> QED
        BY <4>1, <4>2, <4>3
    <3> QED
      BY <3>1, <3>2, <2>3 DEF Interval
  <2>6. ASSUME NEW j \in 1..Len(p) PROVE names[p[j]] \in Safe
    <3>1. j \in 1..(k - m) \/ j = k - m + 1
      BY <2>3, <1>3
    <3> QED
      BY <3>1, <2>2, <2>3, <1>2, <1>4
  <2>7. m \in 0..i
    BY <1>0, <1>3
  <2> QED
    BY <2>1, <2>4, <2>5, <2>6, <2>7, <1>2 DEF InHand, i
<1>5. CASE names[i] \notin Safe
  <2> DEFINE b == a.batches \o Slices(a.pool)
             c == Append(b, <<i>>)
             r == [batches |-> c, pool |-> <<>>]
  <2>1. PlanStep(a, i, names) = r
    BY <1>5 DEF PlanStep
  <2>2. Chained(Slices(a.pool), m + 1, k, names)
    BY <1>2, <1>3, SlicesChain
  <2>3. Chained(b, 1, k, names)
    BY <2>2, <1>2, <1>3, 1 \in Nat, ChainJoin
  <2> HIDE DEF b
  <2>4. Chained(<<<<i>>>>, k + 1, i, names)
    BY <1>0, ChainOne
  <2>5. Chained(b \o <<<<i>>>>, 1, i, names)
    <3>1. k <= i /\ i \in Nat /\ 1 \in Nat
      BY <1>0
    <3> QED
      BY <3>1, <2>3, <2>4, ChainJoin
  <2>6. c = b \o <<<<i>>>>
    <3>1. b \in Seq(Seq(Nat)) /\ <<i>> \in Seq(Nat)
      BY <2>3, <1>0 DEF Chained
    <3> QED
      BY <3>1, AppendIsConcat
  <2>7. Chained(c, 1, i, names)
    BY <2>5, <2>6
  <2> HIDE DEF c
  <2>8. Interval(<<>>, i + 1, i)
    BY <1>0 DEF Interval
  <2>9. r \in [batches : Seq(Seq(Nat)), pool : Seq(Nat)] /\ r.batches = c /\ r.pool = <<>>
    BY <2>7 DEF Chained
  <2> HIDE DEF r
  <2>10. i \in 0..i /\ \A j \in 1..Len(r.pool) : FALSE
    BY <2>9, <1>0
  <2> QED
    BY <2>1, <2>7, <2>8, <2>9, <2>10 DEF InHand, i
<1> QED
  BY <1>4, <1>5 DEF i

\* The loop over the calls is well defined.
Accs(w, n, names) ==
  w = [k \in 0..n |-> IF k = 0 THEN Empty ELSE PlanStep(w[k - 1], k, names)]

LEMMA AccsExist == ASSUME NEW names, NEW n \in Nat PROVE \E w : Accs(w, n, names)
<1> DEFINE D == {k \in Nat : ~\E w : Accs(w, k, names)}
<1> SUFFICES ASSUME D # {} PROVE FALSE
  OBVIOUS
<1>1. PICK k \in D : \A y \in D : k <= y
  BY LeastNat
<1>2. k \in Nat /\ ~\E w : Accs(w, k, names)
  BY <1>1
<1>3. CASE k = 0
  <2> DEFINE w == [j \in 0..0 |-> Empty]
  <2>1. w = [j \in 0..0 |-> IF j = 0 THEN Empty ELSE PlanStep(w[j - 1], j, names)]
    OBVIOUS
  <2> QED
    BY <2>1, <1>2, <1>3 DEF Accs
<1>4. CASE k # 0
  <2>1. k - 1 \in Nat /\ ~(k <= k - 1)
    BY <1>2, <1>4
  <2>2. PICK v : Accs(v, k - 1, names)
    BY <2>1, <1>1
  <2> DEFINE w == [j \in 0..k |-> IF j < k THEN v[j] ELSE PlanStep(v[k - 1], k, names)]
  <2>3. \A j \in 0..k : w[j] = IF j = 0 THEN Empty ELSE PlanStep(w[j - 1], j, names)
    <3> SUFFICES ASSUME NEW j \in 0..k
                 PROVE  w[j] = IF j = 0 THEN Empty ELSE PlanStep(w[j - 1], j, names)
      OBVIOUS
    <3>1. \A x \in 0..(k - 1) : v[x] = IF x = 0 THEN Empty ELSE PlanStep(v[x - 1], x, names)
      BY <2>2 DEF Accs
    <3>2. \A x \in 0..(k - 1) : w[x] = v[x]
      BY <2>1
    <3>3. w[k] = PlanStep(v[k - 1], k, names)
      BY <1>2
    <3> HIDE DEF w
    <3>4. CASE j < k
      <4>1. j \in 0..(k - 1) /\ (j # 0 => j - 1 \in 0..(k - 1))
        BY <3>4, <1>2
      <4>2. CASE j = 0
        BY <4>1, <4>2, <3>1, <3>2
      <4>3. CASE j # 0
        BY <4>1, <4>3, <3>1, <3>2
      <4> QED
        BY <4>2, <4>3
    <3>5. CASE j = k
      BY <3>5, <3>2, <3>3, <2>1, <1>4
    <3> QED
      BY <3>4, <3>5, <1>2
  <2>4. Accs(w, k, names)
    <3>1. w = [j \in 0..k |-> w[j]]
      OBVIOUS
    <3> HIDE DEF w
    <3> QED
      BY <3>1, <2>3 DEF Accs
  <2> QED
    BY <2>4, <1>2
<1> QED
  BY <1>3, <1>4

LEMMA AccsInHand ==
  ASSUME NEW names, NEW n \in Nat, NEW w, Accs(w, n, names)
  PROVE  \A k \in 0..n : InHand(w[k], k, names)
<1> DEFINE D == {k \in 0..n : ~InHand(w[k], k, names)}
<1> SUFFICES ASSUME D # {} PROVE FALSE
  OBVIOUS
<1>1. PICK k \in D : \A y \in D : k <= y
  <2>1. D \in SUBSET Nat
    OBVIOUS
  <2> HIDE DEF D
  <2> QED
    BY <2>1, LeastNat
<1>2. k \in 0..n /\ ~InHand(w[k], k, names)
  BY <1>1
<1>3. \A j \in 0..n : w[j] = IF j = 0 THEN Empty ELSE PlanStep(w[j - 1], j, names)
  BY DEF Accs
<1>4. CASE k = 0
  BY <1>2, <1>3, <1>4, EmptyInHand
<1>5. CASE k # 0
  <2>1. k - 1 \in 0..n /\ k - 1 \in Nat /\ ~(k <= k - 1) /\ (k - 1) + 1 = k
    BY <1>2, <1>5
  <2>2. InHand(w[k - 1], k - 1, names)
    BY <2>1, <1>1
  <2>3. InHand(PlanStep(w[k - 1], (k - 1) + 1, names), (k - 1) + 1, names)
    BY <2>1, <2>2, PlanStepInHand
  <2>4. w[k] = PlanStep(w[k - 1], k, names)
    BY <1>2, <1>3, <1>5
  <2> QED
    BY <2>1, <2>3, <2>4, <1>2
<1> QED
  BY <1>4, <1>5

\* The plan of a reply covers its calls, in their order.
LEMMA PlannedChain ==
  ASSUME NEW names \in Seq(Name)
  PROVE  Chained(Planned(names), 1, Len(names), names)
<1> DEFINE n == Len(names)
           at == CHOOSE w : Accs(w, n, names)
           e == at[n]
<1>1. n \in Nat
  OBVIOUS
<1>2. Planned(names) = e.batches \o Slices(e.pool)
  BY DEF Planned, Accs, Empty
<1>3. Accs(at, n, names)
  BY <1>1, AccsExist
<1> HIDE DEF at, n
<1>4. InHand(e, n, names)
  BY <1>1, <1>3, AccsInHand
<1> HIDE DEF e
<1>5. PICK m \in 0..n : /\ Chained(e.batches, 1, m, names) /\ Interval(e.pool, m + 1, n)
                        /\ \A i \in 1..Len(e.pool) : names[e.pool[i]] \in Safe
  BY <1>4 DEF InHand
<1>6. m \in Nat /\ m + 1 \in Nat \ {0} /\ m <= n /\ m + 1 <= n + 1 /\ 1 \in Nat
  BY <1>1, <1>5
<1>7. Chained(Slices(e.pool), m + 1, n, names)
  BY <1>1, <1>5, <1>6, SlicesChain
<1> QED
  BY <1>1, <1>2, <1>5, <1>6, <1>7, ChainJoin DEF n

Done == Len(toolLog)
HeadEnd == IF plan = <<>> THEN Done ELSE Done + Len(Head(plan))
Calls == {"idle", "running", "asking", "done"}

BatchTypes ==
  /\ called \in Seq(Name) /\ Len(called) <= MaxBatch
  /\ state \in [Indices -> Calls] /\ seqOf \in [Indices -> Nat]
  /\ clock \in 0..MaxTime /\ waited \in Nat /\ waited <= clock
\* What is committed and what is left of the plan make up the reply; only the
\* first of the batches left has been started, or none of them.
Cut ==
  /\ Chained(plan, Done + 1, Len(called), called)
  /\ Interval(toolLog, 1, Done) /\ dispSeq \in {Done, HeadEnd}
Started ==
  /\ \A i \in Indices : state[i] = "idle" <=> i > dispSeq
  /\ \A i \in Indices : i <= Done => state[i] = "done"
  /\ \A i \in Indices : seqOf[i] = IF i <= dispSeq THEN i ELSE 0
  /\ \A i \in Indices : state[i] = "asking" => called[i] \in Asks
BatchInv == BatchTypes /\ Cut /\ Started

LEMMA HeadOfPlan ==
  ASSUME BatchInv
  PROVE  /\ Len(called) \in Nat /\ Indices = 1..Len(called) /\ Done \in Nat
         /\ HeadEnd \in Nat /\ Done <= HeadEnd /\ HeadEnd <= Len(called)
         /\ plan = <<>> => Done = Len(called)
         /\ plan # <<>> => /\ Interval(Head(plan), Done + 1, HeadEnd)
                           /\ HeadEnd - Done \in 1..Par /\ Len(Head(plan)) = HeadEnd - Done
                           /\ HeadEnd - Done > 1 =>
                                \A i \in (Done + 1)..HeadEnd : called[i] \in Safe
<1>1. Len(called) \in Nat /\ Indices = 1..Len(called) /\ Done \in Nat
  BY DEF BatchInv, BatchTypes, Cut, Interval, Indices, Done
<1>2. CASE plan = <<>>
  <2>1. Done + 1 = Len(called) + 1
    BY <1>2 DEF BatchInv, Cut, Chained
  <2> QED
    BY <1>1, <1>2, <2>1 DEF HeadEnd
<1>3. CASE plan # <<>>
  <2> DEFINE b == Head(plan)
  <2>1. plan \in Seq(Seq(Nat)) /\ 1 \in 1..Len(plan) /\ b = plan[1]
    BY <1>3 DEF BatchInv, Cut, Chained
  <2>2. GoodBatch(b, Len(called), called) /\ b[1] = Done + 1
    BY <1>3, <2>1 DEF BatchInv, Cut, Chained
  <2>3. HeadEnd = Done + Len(b)
    BY <1>3 DEF HeadEnd
  <2> HIDE DEF b
  <2>4. b \in Seq(Nat) /\ Len(b) \in 1..Par /\ Done + 1 + Len(b) - 1 <= Len(called)
        /\ \A i \in 1..Len(b) : b[i] = Done + 1 + i - 1
    BY <2>2 DEF GoodBatch
  <2>5. Len(b) \in Nat \ {0}
    BY <2>4, ParIsPositive
  <2>6. HeadEnd \in Nat /\ Done <= HeadEnd /\ HeadEnd <= Len(called)
        /\ HeadEnd - Done = Len(b) /\ Len(b) = HeadEnd - (Done + 1) + 1
    BY <2>3, <2>4, <2>5, <1>1
  <2>7. Interval(b, Done + 1, HeadEnd)
    BY <2>4, <2>6 DEF Interval
  <2>8. ASSUME HeadEnd - Done > 1, NEW i \in (Done + 1)..HeadEnd PROVE called[i] \in Safe
    <3>1. i - Done \in 1..Len(b) /\ Done + 1 + (i - Done) - 1 = i
      BY <2>5, <2>6, <1>1
    <3>2. b[i - Done] = i
      BY <3>1, <2>4
    <3>3. called[b[i - Done]] \in Safe
      BY <3>1, <2>2, <2>6, <2>8 DEF GoodBatch
    <3> QED
      BY <3>2, <3>3
  <2> QED
    BY <1>1, <1>3, <2>4, <2>6, <2>7, <2>8 DEF b
<1> QED
  BY <1>2, <1>3

\* A call that is busy is one of the first batch left.
LEMMA BusyInHead ==
  ASSUME BatchInv, NEW i \in Busy
  PROVE  plan # <<>> /\ i \in (Done + 1)..HeadEnd /\ dispSeq = HeadEnd
<1>1. i \in Indices /\ state[i] \in {"running", "asking"}
  BY DEF Busy
<1>2. i \in Nat /\ Done \in Nat /\ HeadEnd \in Nat /\ Done <= HeadEnd
      /\ (plan = <<>> => HeadEnd = Done)
  BY <1>1, HeadOfPlan DEF HeadEnd
<1>3. ~(i > dispSeq) /\ ~(i <= Done) /\ dispSeq \in {Done, HeadEnd}
  BY <1>1 DEF BatchInv, Started, Cut
<1> QED
  BY <1>2, <1>3

LEMMA BusyAlone ==
  ASSUME BatchInv
  PROVE  /\ IsFiniteSet(Busy) /\ Cardinality(Busy) <= Par /\ Cardinality(Busy) \in Nat
         /\ \A i \in Busy : called[i] \notin Safe => Busy = {i}
<1>1. Busy \subseteq (Done + 1)..HeadEnd
  BY BusyInHead
<1>2. Done \in Nat /\ HeadEnd \in Nat
  BY HeadOfPlan
<1>3. IsFiniteSet((Done + 1)..HeadEnd)
      /\ Cardinality((Done + 1)..HeadEnd) = IF Done + 1 > HeadEnd THEN 0 ELSE HeadEnd - (Done + 1) + 1
  BY <1>2, FS_Interval
<1>4. IsFiniteSet(Busy) /\ Cardinality(Busy) <= Cardinality((Done + 1)..HeadEnd)
      /\ Cardinality(Busy) \in Nat
  BY <1>1, <1>3, FS_Subset, FS_CardinalityType
<1>5. Cardinality(Busy) <= Par
  <2>1. CASE plan = <<>>
    <3>1. HeadEnd = Done
      BY <2>1 DEF HeadEnd
    <3> QED
      BY <3>1, <1>2, <1>3, <1>4, ParIsPositive
  <2>2. CASE plan # <<>>
    <3>1. HeadEnd - Done \in 1..Par
      BY <2>2, HeadOfPlan
    <3> QED
      BY <3>1, <1>2, <1>3, <1>4, ParIsPositive
  <2> QED
    BY <2>1, <2>2
<1>6. ASSUME NEW i \in Busy, called[i] \notin Safe PROVE Busy = {i}
  <2>1. plan # <<>> /\ i \in (Done + 1)..HeadEnd
    BY BusyInHead
  <2>2. HeadEnd - Done \in 1..Par /\ ~(HeadEnd - Done > 1)
    BY <2>1, <1>6, HeadOfPlan
  <2>3. \A j \in (Done + 1)..HeadEnd : j = i
    BY <2>1, <2>2, <1>2, ParIsPositive
  <2> QED
    BY <2>3, <1>1
<1> QED
  BY <1>4, <1>5, <1>6

LEMMA EntriesIn ==
  ASSUME NEW S, NEW T, NEW s \in Seq(S), \A i \in 1..Len(s) : s[i] \in T
  PROVE  s \in Seq(T)
<1>1. Len(s) \in Nat /\ s \in [1..Len(s) -> S]
  OBVIOUS
<1>2. s = [i \in 1..Len(s) |-> s[i]]
  BY <1>1
<1>3. s \in [1..Len(s) -> T]
  BY <1>1
<1> QED
  BY <1>1, <1>3

LEMMA BatchInvGives == BatchInv => BatchesSafe
<1> SUFFICES ASSUME BatchInv PROVE BatchesSafe
  OBVIOUS
<1>1. /\ Len(called) \in Nat /\ Indices = 1..Len(called) /\ Done \in Nat /\ HeadEnd \in Nat
      /\ Done <= HeadEnd /\ HeadEnd <= Len(called) /\ dispSeq \in {Done, HeadEnd}
      /\ dispSeq \in Nat
  BY HeadOfPlan DEF BatchInv, Cut
<1>2. BatchTypes /\ Cut /\ Started
  BY DEF BatchInv
<1>3. ToolTypeOK
  <2>1. called \in BoundedSeq(Name, MaxBatch)
    <3>1. called \in [1..Len(called) -> Name] /\ Len(called) \in 0..MaxBatch
      BY <1>1, <1>2, BatchesAssumption DEF BatchTypes
    <3> QED
      BY <3>1 DEF BoundedSeq, SeqOf
  <2>2. ASSUME NEW k \in DOMAIN plan PROVE plan[k] \in Seq(Indices)
    <3>1. plan \in Seq(Seq(Nat)) /\ k \in 1..Len(plan)
      BY <1>2 DEF Cut, Chained
    <3>2. GoodBatch(plan[k], Len(called), called)
      BY <3>1, <1>2 DEF Cut, Chained
    <3> DEFINE b == plan[k]
    <3> HIDE DEF b
    <3>3. b \in Seq(Nat) /\ Len(b) \in Nat /\ b[1] >= 1 /\ b[1] + Len(b) - 1 <= Len(called)
          /\ Len(b) \in 1..Par /\ \A i \in 1..Len(b) : b[i] = b[1] + i - 1
      BY <3>2 DEF GoodBatch, b
    <3>4. b[1] \in Nat
      BY <3>3, ParIsPositive
    <3>5. \A i \in 1..Len(b) : b[i] \in 1..Len(called)
      <4> SUFFICES ASSUME NEW i \in 1..Len(b) PROVE b[i] \in 1..Len(called)
        OBVIOUS
      <4>1. b[i] = b[1] + i - 1 /\ i \in Nat /\ 1 <= i /\ i <= Len(b)
        BY <3>3
      <4> DEFINE f == b[1]
                 l == Len(b)
                 c == Len(called)
      <4>2. f \in Nat /\ f >= 1 /\ l \in Nat /\ c \in Nat /\ f + l - 1 <= c
        BY <3>3, <3>4, <1>1
      <4>3. b[i] = f + i - 1 /\ i <= l
        BY <4>1
      <4> HIDE DEF f, l, c
      <4>4. b[i] \in 1..c
        BY <4>1, <4>2, <4>3
      <4> QED
        BY <4>4 DEF c
    <3>6. b \in Seq(1..Len(called))
      BY <3>3, <3>5, EntriesIn
    <3> QED
      BY <3>6, <1>1 DEF b
  <2>3. seqOf \in [Indices -> 0..dispSeq]
    <3>1. \A i \in Indices : seqOf[i] \in 0..dispSeq
      BY <1>1, <1>2 DEF Started
    <3> QED
      BY <3>1, <1>2 DEF BatchTypes
  <2>4. toolLog \in Seq(Indices)
    <3>1. toolLog \in Seq(Nat) /\ \A k \in 1..Len(toolLog) : toolLog[k] = 1 + k - 1
      BY <1>2 DEF Cut, Interval
    <3>2. \A k \in 1..Len(toolLog) : toolLog[k] \in 1..Len(called)
      BY <3>1, <1>1 DEF Done
    <3>3. toolLog \in Seq(1..Len(called))
      BY <3>1, <3>2, EntriesIn
    <3> QED
      BY <3>3, <1>1
  <2> QED
    BY <2>1, <2>2, <2>3, <2>4, <1>2 DEF ToolTypeOK, BatchTypes, Calls
<1>4. ExclusiveRunsAlone
  <2>1. ASSUME NEW i \in Busy, called[i] \notin Safe PROVE Cardinality(Busy) = 1
    <3>1. Busy = {i}
      BY <2>1, BusyAlone
    <3> QED
      BY <3>1, FS_Singleton
  <2> QED
    BY <2>1, BusyAlone DEF ExclusiveRunsAlone
<1>5. CommitsInModelOrder
  <2>1. \A k \in DOMAIN toolLog : toolLog[k] = k
    BY <1>2 DEF Cut, Interval
  <2>2. plan = <<>> => Len(toolLog) = Len(called)
    BY HeadOfPlan DEF Done
  <2> QED
    BY <2>1, <2>2 DEF CommitsInModelOrder
<1>6. NumbersAreUnique
  BY <1>1, <1>2 DEF NumbersAreUnique, Started
<1>7. WaitedWithinElapsed
  BY <1>2 DEF WaitedWithinElapsed, BatchTypes
<1> QED
  BY <1>3, <1>4, <1>5, <1>6, <1>7 DEF BatchesSafe

LEMMA HeadRange ==
  ASSUME BatchInv, plan # <<>>
  PROVE  /\ Range(Head(plan)) = (Done + 1)..HeadEnd
         /\ Head(plan) \in Seq(Nat) /\ Len(Head(plan)) = HeadEnd - Done
         /\ \A k \in 1..(HeadEnd - Done) : Head(plan)[k] = Done + k
         /\ Done + 1 \in (Done + 1)..HeadEnd /\ (Done + 1)..HeadEnd \subseteq Indices
<1> DEFINE b == Head(plan)
           d == Done
           e == HeadEnd
<1>1. /\ Interval(b, d + 1, e) /\ d \in Nat /\ e \in Nat /\ e - d \in 1..Par /\ d <= e
      /\ e <= Len(called) /\ Indices = 1..Len(called) /\ Len(called) \in Nat
  BY HeadOfPlan
<1> HIDE DEF b, d, e
<1>2. b \in Seq(Nat) /\ Len(b) = e - d
  BY <1>1 DEF Interval
<1>3. \A k \in 1..(e - d) : b[k] = d + k
  BY <1>1, <1>2 DEF Interval
<1>4. Range(b) = {b[k] : k \in 1..(e - d)}
  BY <1>2 DEF Range
<1>5. \A i \in (d + 1)..e : i - d \in 1..(e - d) /\ d + (i - d) = i
  BY <1>1
<1>6. \A k \in 1..(e - d) : d + k \in (d + 1)..e
  BY <1>1
<1>7. Range(b) = (d + 1)..e
  BY <1>3, <1>4, <1>5, <1>6
<1>8. d + 1 \in (d + 1)..e /\ (d + 1)..e \subseteq Indices
  BY <1>1, ParIsPositive
<1> QED
  BY <1>2, <1>3, <1>7, <1>8 DEF b, d, e

LEMMA ToolStart == ToolInit => BatchInv
<1> SUFFICES ASSUME ToolInit PROVE BatchInv
  OBVIOUS
<1>1. called \in Seq(Name) /\ Len(called) \in Nat /\ Len(called) <= MaxBatch
      /\ Indices = 1..Len(called)
  BY BatchesAssumption DEF ToolInit, BoundedSeq, SeqOf, Indices
<1>2. Done = 0 /\ toolLog = <<>>
  BY DEF ToolInit, Done
<1>3. BatchTypes
  BY <1>1, BatchesAssumption DEF ToolInit, BatchTypes, Calls, Indices
<1>4. Cut
  <2>1. Chained(plan, 1, Len(called), called)
    BY <1>1, PlannedChain DEF ToolInit
  <2>2. Interval(toolLog, 1, Done)
    BY <1>2 DEF Interval
  <2> QED
    BY <1>2, <2>1, <2>2 DEF Cut, ToolInit
<1>5. Started
  BY <1>1, <1>2 DEF Started, ToolInit, Indices
<1> QED
  BY <1>3, <1>4, <1>5 DEF BatchInv

LEMMA StartStep == ASSUME BatchInv, StartBatch PROVE BatchInv'
<1> DEFINE b == Head(plan)
           d == Done
           e == HeadEnd
<1>1. plan # <<>> /\ UNCHANGED <<called, plan, toolLog, clock, waited>>
      /\ \A i \in Range(b) : state[i] = "idle"
  BY DEF StartBatch
<1>2. /\ Range(b) = (d + 1)..e /\ b \in Seq(Nat) /\ Len(b) = e - d
      /\ \A k \in 1..(e - d) : b[k] = d + k
      /\ d + 1 \in (d + 1)..e /\ (d + 1)..e \subseteq Indices
  BY <1>1, HeadRange
<1>3. /\ Len(called) \in Nat /\ Indices = 1..Len(called) /\ d \in Nat /\ e \in Nat
      /\ d <= e /\ e <= Len(called) /\ e - d \in 1..Par
  BY <1>1, HeadOfPlan
<1>4. dispSeq \in {d, e} /\ BatchTypes /\ Started /\ Cut
  BY DEF BatchInv, Cut
<1>5. Done' = d /\ HeadEnd' = e /\ Indices' = Indices
  BY <1>1 DEF Done, HeadEnd, Indices
<1>6. /\ state' = [i \in Indices |-> IF i \in Range(b) THEN "running" ELSE state[i]]
      /\ seqOf' = [i \in Indices |-> IF i \in Range(b) THEN Numbered(b, i) ELSE seqOf[i]]
      /\ dispSeq' = dispSeq + Len(b)
  BY DEF StartBatch
<1> HIDE DEF b, d, e
<1>7. dispSeq = d /\ dispSeq' = e
  <2>1. state[d + 1] = "idle" /\ d + 1 \in Indices
    BY <1>1, <1>2
  <2>2. d + 1 > dispSeq
    BY <2>1, <1>4 DEF Started
  <2>3. dispSeq = d
    BY <2>2, <1>2, <1>3, <1>4
  <2> QED
    BY <2>3, <1>2, <1>3, <1>6
<1>8. \A i \in (d + 1)..e : Numbered(b, i) = i
  <2> SUFFICES ASSUME NEW i \in (d + 1)..e PROVE Numbered(b, i) = i
    OBVIOUS
  <2>1. i - d \in 1..(e - d) /\ i = d + (i - d) /\ DOMAIN b = 1..(e - d)
    BY <1>2, <1>3
  <2>2. b[i - d] = i
    BY <2>1, <1>2
  <2>3. \A k \in DOMAIN b : b[k] = i => k = i - d
    BY <2>1, <1>2, <1>3
  <2>4. (CHOOSE k \in DOMAIN b : b[k] = i) = i - d
    BY <2>1, <2>2, <2>3
  <2> QED
    BY <2>1, <2>4, <1>7 DEF Numbered
<1>9. /\ \A i \in Indices : i \in (d + 1)..e => state'[i] = "running" /\ seqOf'[i] = i
      /\ \A i \in Indices : i \notin (d + 1)..e => state'[i] = state[i] /\ seqOf'[i] = seqOf[i]
      /\ state' \in [Indices -> Calls] /\ seqOf' \in [Indices -> Nat]
  <2>1. state \in [Indices -> Calls] /\ seqOf \in [Indices -> Nat]
    BY <1>4 DEF BatchTypes
  <2>2. \A i \in Indices : i \in Nat
    BY <1>3
  <2>3. state' \in [Indices -> Calls]
    BY <2>1, <1>6 DEF Calls
  <2>4. seqOf' \in [Indices -> Nat]
    BY <2>1, <2>2, <1>2, <1>6, <1>8
  <2> QED
    BY <2>3, <2>4, <1>2, <1>6, <1>8
<1>10. BatchTypes'
  BY <1>1, <1>4, <1>5, <1>9 DEF BatchTypes
<1>11. Cut'
  BY <1>1, <1>4, <1>5, <1>7 DEF Cut, d, e
<1>12. Started'
  <2>0. /\ \A i \in Indices : state[i] = "idle" <=> i > d
        /\ \A i \in Indices : i <= d => state[i] = "done"
        /\ \A i \in Indices : seqOf[i] = IF i <= d THEN i ELSE 0
        /\ \A i \in Indices : state[i] = "asking" => called[i] \in Asks
    BY <1>4, <1>7 DEF Started, d
  <2>1. \A i \in Indices : state'[i] = "idle" <=> i > e
    BY <2>0, <1>3, <1>9
  <2>2. \A i \in Indices : i <= d => state'[i] = "done"
    BY <2>0, <1>3, <1>9
  <2>3. \A i \in Indices : seqOf'[i] = IF i <= e THEN i ELSE 0
    BY <2>0, <1>3, <1>9
  <2>4. \A i \in Indices : state'[i] = "asking" => called[i] \in Asks
    BY <2>0, <1>9
  <2> QED
    BY <2>1, <2>2, <2>3, <2>4, <1>1, <1>5, <1>7 DEF Started
<1> QED
  BY <1>10, <1>11, <1>12 DEF BatchInv

\* A call changes its state while it is busy.
LEMMA CallStep ==
  ASSUME BatchInv, NEW i \in Busy, NEW s \in {"running", "asking", "done"},
         s = "asking" => called[i] \in Asks, state' = [state EXCEPT ![i] = s],
         UNCHANGED <<called, plan, toolLog, seqOf, dispSeq, clock, waited>>
  PROVE  BatchInv'
<1>1. Done' = Done /\ HeadEnd' = HeadEnd /\ Indices' = Indices
  BY DEF Done, HeadEnd, Indices
<1>2. i \in Indices /\ i \in (Done + 1)..HeadEnd /\ dispSeq = HeadEnd
  BY BusyInHead DEF Busy
<1>3. Done \in Nat /\ HeadEnd \in Nat /\ BatchTypes /\ Cut /\ Started
  BY HeadOfPlan DEF BatchInv
<1>4. /\ state' \in [Indices -> Calls] /\ state'[i] = s
      /\ \A j \in Indices : j # i => state'[j] = state[j]
  BY <1>2, <1>3 DEF BatchTypes, Calls
<1>5. BatchTypes'
  BY <1>1, <1>3, <1>4 DEF BatchTypes
<1>6. Cut'
  BY <1>1, <1>3 DEF Cut
<1>7. Started'
  <2>1. \A j \in Indices : state'[j] = "idle" <=> j > dispSeq
    BY <1>2, <1>3, <1>4 DEF Started
  <2>2. \A j \in Indices : j <= Done => state'[j] = "done"
    BY <1>2, <1>3, <1>4 DEF Started
  <2>3. \A j \in Indices : state'[j] = "asking" => called[j] \in Asks
    BY <1>3, <1>4 DEF Started
  <2> QED
    BY <2>1, <2>2, <2>3, <1>1, <1>3 DEF Started
<1> QED
  BY <1>5, <1>6, <1>7 DEF BatchInv

LEMMA CommitStep == ASSUME BatchInv, CommitBatch PROVE BatchInv'
<1> DEFINE b == Head(plan)
           d == Done
           e == HeadEnd
<1>1. plan # <<>> /\ UNCHANGED <<called, state, seqOf, dispSeq, clock, waited>>
      /\ \A i \in Range(b) : state[i] = "done"
  BY DEF CommitBatch
<1>2. toolLog' = toolLog \o b /\ plan' = Tail(plan)
  BY DEF CommitBatch
<1>3. /\ Range(b) = (d + 1)..e /\ b \in Seq(Nat) /\ Len(b) = e - d
      /\ \A k \in 1..(e - d) : b[k] = d + k
      /\ d + 1 \in (d + 1)..e /\ (d + 1)..e \subseteq Indices
  BY <1>1, HeadRange
<1>4. /\ Len(called) \in Nat /\ Indices = 1..Len(called) /\ d \in Nat /\ e \in Nat
      /\ d <= e /\ e <= Len(called)
  BY <1>1, HeadOfPlan
<1>5. dispSeq \in {d, e} /\ BatchTypes /\ Started /\ Cut
  BY DEF BatchInv, Cut
<1>6. toolLog \in Seq(Nat) /\ Len(toolLog) = d /\ \A k \in 1..d : toolLog[k] = k
  BY <1>4, <1>5 DEF Cut, Interval, Done
<1>7. Chained(Tail(plan), d + 1 + Len(b), Len(called), called)
  <2>1. Chained(plan, d + 1, Len(called), called)
    BY <1>5 DEF Cut
  <2>2. d + 1 \in Nat
    BY <1>4
  <2> QED
    BY <2>1, <2>2, <1>1, <1>4, ChainTail
<1>8. \A i \in Indices : i <= d => state[i] = "done"
  BY <1>5 DEF Started
<1>9. \A i \in Indices : state[i] = "idle" <=> i > dispSeq
  BY <1>5 DEF Started
<1> HIDE DEF b, d, e
<1>10. dispSeq = e
  <2>1. state[d + 1] = "done" /\ d + 1 \in Indices
    BY <1>1, <1>3
  <2>2. ~(d + 1 > dispSeq)
    BY <2>1, <1>9
  <2> QED
    BY <2>2, <1>4, <1>5
<1>11. toolLog' \in Seq(Nat) /\ Len(toolLog') = e
       /\ \A k \in 1..e : toolLog'[k] = k
  <2>1. /\ toolLog \o b \in Seq(Nat) /\ Len(toolLog \o b) = d + (e - d)
        /\ \A k \in 1..(d + (e - d)) :
             (toolLog \o b)[k] = IF k <= d THEN toolLog[k] ELSE b[k - d]
    <3> DEFINE l == toolLog
               c == l \o b
    <3>1. l \in Seq(Nat) /\ Len(l) = d
      BY <1>6
    <3> HIDE DEF l
    <3>2. /\ l \o b \in Seq(Nat) /\ Len(l \o b) = Len(l) + Len(b)
          /\ \A k \in 1..Len(l) + Len(b) :
               (l \o b)[k] = IF k <= Len(l) THEN l[k] ELSE b[k - Len(l)]
      BY <1>3, <3>1, ConcatProperties
    <3>3. Len(l) = d /\ Len(b) = e - d
      BY <3>1, <1>3
    <3>4. \A k \in 1..(d + (e - d)) : (l \o b)[k] = IF k <= d THEN l[k] ELSE b[k - d]
      BY <3>2, <3>3
    <3> QED
      BY <3>2, <3>3, <3>4 DEF l
  <2>2. d + (e - d) = e
    BY <1>4
  <2>3. \A k \in 1..e : IF k <= d THEN k \in 1..d ELSE k - d \in 1..(e - d) /\ d + (k - d) = k
    BY <1>4
  <2> QED
    BY <2>1, <2>2, <2>3, <1>2, <1>3, <1>6
<1>12. Done' = e /\ Indices' = Indices
  BY <1>1, <1>11 DEF Done, Indices
<1>13. BatchTypes'
  BY <1>1, <1>5, <1>12 DEF BatchTypes
<1>14. Cut'
  <2>1. d + 1 + Len(b) = e + 1
    BY <1>3, <1>4
  <2>2. Chained(plan', e + 1, Len(called), called)
    BY <2>1, <1>2, <1>7
  <2>3. Interval(toolLog', 1, e)
    <3>1. e = e - 1 + 1 /\ \A k \in 1..e : k = 1 + k - 1
      BY <1>4
    <3> QED
      BY <3>1, <1>11 DEF Interval
  <2> QED
    BY <2>2, <2>3, <1>1, <1>10, <1>12 DEF Cut
<1>15. Started'
  <2>1. \A i \in Indices : i <= e => state[i] = "done"
    BY SMTT(30), <1>1, <1>3, <1>4, <1>8
  <2> QED
    BY <2>1, <1>1, <1>5, <1>12 DEF Started
<1> QED
  BY <1>13, <1>14, <1>15 DEF BatchInv

LEMMA TickStep == ASSUME BatchInv, Tick PROVE BatchInv'
<1> DEFINE A == {i \in Indices : state[i] = "asking"}
<1>1. /\ clock < MaxTime /\ clock' = clock + 1 /\ waited' = waited + Cardinality(A)
      /\ UNCHANGED <<called, plan, state, toolLog, seqOf, dispSeq>>
  BY DEF Tick
<1>2. A \subseteq Busy /\ \A i \in A : called[i] \notin Safe
  BY BatchesAssumption DEF BatchInv, Started, Busy
<1>3. Cardinality(A) \in 0..1
  <2>1. CASE A = {}
    BY <2>1, FS_EmptySet
  <2>2. CASE A # {}
    <3>1. PICK i \in A : TRUE
      BY <2>2
    <3>2. Busy = {i}
      BY <1>2, BusyAlone
    <3>3. A = {i}
      BY <1>2, <3>1, <3>2
    <3> QED
      BY <3>3, FS_Singleton
  <2> QED
    BY <2>1, <2>2
<1> HIDE DEF A
<1>4. BatchTypes'
  <2>1. BatchTypes /\ MaxTime \in Nat
    BY BatchesAssumption DEF BatchInv
  <2>2. clock' \in 0..MaxTime /\ waited' \in Nat /\ waited' <= clock'
    BY <2>1, <1>1, <1>3 DEF BatchTypes
  <2> QED
    BY <2>1, <2>2, <1>1 DEF BatchTypes, Indices
<1>5. Cut' /\ Started'
  BY <1>1 DEF BatchInv, Cut, Started, Done, HeadEnd, Indices
<1> QED
  BY <1>4, <1>5 DEF BatchInv

LEMMA BatchSteps == BatchInv /\ [ToolNext]_toolVars => BatchInv'
<1> SUFFICES ASSUME BatchInv, [ToolNext]_toolVars PROVE BatchInv'
  OBVIOUS
<1>1. CASE StartBatch
  BY <1>1, StartStep
<1>2. CASE CommitBatch
  BY <1>2, CommitStep
<1>3. ASSUME NEW i \in Indices, Answered(i) \/ Finish(i) \/ Ask(i) PROVE BatchInv'
  <2>1. i \in Busy
    BY <1>3 DEF Busy, Answered, Finish, Ask
  <2>2. UNCHANGED <<called, plan, toolLog, seqOf, dispSeq, clock, waited>>
    BY <1>3 DEF Answered, Finish, Ask
  <2>3. \E s \in {"running", "asking", "done"} :
          (s = "asking" => called[i] \in Asks) /\ state' = [state EXCEPT ![i] = s]
    BY <1>3 DEF Answered, Finish, Ask
  <2> QED
    BY <2>1, <2>2, <2>3, CallStep
<1>4. CASE Tick
  BY <1>4, TickStep
<1>5. CASE UNCHANGED toolVars
  BY <1>5 DEF toolVars, BatchInv, BatchTypes, Cut, Started, Done, HeadEnd, Indices
<1> QED
  BY <1>1, <1>2, <1>3, <1>4, <1>5 DEF ToolNext, ToolStep

\* Whatever the reply, the pool and the order the calls end in: a call that is
\* not declared safe runs alone, the results are committed in the order the
\* model gave, no display number is given twice, and the waiting taken off the
\* budget never exceeds the time that passed (agent.js:366-428, 976-989).
THEOREM BatchesAreSafe == ToolSpec => []BatchesSafe
<1>1. ToolInit => BatchInv
  BY ToolStart
<1>2. BatchInv /\ [ToolNext]_toolVars => BatchInv'
  BY BatchSteps
<1>3. BatchInv => BatchesSafe
  BY BatchInvGives
<1> QED
  BY <1>1, <1>2, <1>3, PTL DEF ToolSpec

-----------------------------------------------------------------------------
(* The loop.  LoopInv says what the run keeps between two requests: the    *)
(* context in which every call stands before its results and which only    *)
(* grows (ContextKept), the one request over the budget (MoneyKept), and   *)
(* the counts of rounds run, failed and saved (RunsKept).                  *)

Message == {Sys(tag) : tag \in Tag}
           \cup [role : {"user", "assistant", "tool"}, id : Nat, pos : Nat]

Complete(ms, i) ==
  \A j \in 1..ms[i].pos : i + j <= Len(ms) /\ ms[i + j] = Msg("tool", ms[i].id, j)
AllAnswered(ms, end) ==
  \A i \in 1..end : ms[i].role = "assistant" => Complete(ms, i)

LoopTypes ==
  /\ TypeOK
  /\ msgs \in Seq(Message) /\ sent \in Seq(Message) /\ collapsedAt \in Int
  /\ lastCalls \in Seq(Tool) /\ turns \in Nat
  /\ msgs # <<>> /\ msgs[1] = Sys("env")

ContextKept ==
  /\ pc \notin {"tools", "ended"} => AllAnswered(msgs, Len(msgs))
  /\ pc = "tools" => /\ msgs[Len(msgs)] = Msg("assistant", round, Len(reply.calls))
                     /\ AllAnswered(msgs, Len(msgs) - 1)
  /\ IsPrefix(sent, Core(msgs)) \/ pc = "ended" \/ (pc = "send" /\ collapsedAt = round)
  /\ ~broke

MoneyKept ==
  overCalls = 0 \/ (overCalls = 1 /\ Exhausted(cost)
                    /\ pc \in {"calling", "waiting", "fallback", "ended"})

RunsKept ==
  /\ FailN > 0 /\ fails >= FailN => failWarned
  /\ FailN > 0 /\ pc # "ended" => fails < 2 * FailN
  /\ FailN = 0 => fails = 0
  /\ FailuresWarned /\ UnverifiedMarked
  /\ saved = ran
  /\ pc = "tools" => turns = ran + 1
  /\ pc \notin {"tools", "ended"} => turns = ran

LoopInv == LoopTypes /\ ContextKept /\ MoneyKept /\ RunsKept

-----------------------------------------------------------------------------
(* The context: what is dropped of it are messages of the system, so every *)
(* call keeps its results behind it, and the conversation only grows.      *)

\* What holds at 0 and passes from each number to the next holds up to n.
LEMMA StepByStep ==
  ASSUME NEW n \in Nat, NEW S, 0 \in S, \A k \in 0..n : k < n /\ k \in S => k + 1 \in S
  PROVE  \A k \in 0..n : k \in S
<1> DEFINE D == {k \in 0..n : k \notin S}
<1> SUFFICES ASSUME D # {} PROVE FALSE
  OBVIOUS
<1>1. PICK k \in D : \A y \in D : k <= y
  <2>1. D \in SUBSET Nat
    OBVIOUS
  <2> HIDE DEF D
  <2> QED
    BY <2>1, LeastNat
<1>2. k \in 0..n /\ k # 0 /\ k - 1 \in 0..n /\ k - 1 < n /\ (k - 1) + 1 = k /\ ~(k <= k - 1)
  BY <1>1
<1>3. k - 1 \in S
  BY <1>1, <1>2
<1> QED
  BY <1>1, <1>2, <1>3

\* What is left of the first k messages, for each k up to n.
Left(w, n, ms, gone) ==
  w = [k \in 0..n |-> IF k = 0 THEN <<>>
                      ELSE IF ms[k] \in gone THEN w[k - 1] ELSE Append(w[k - 1], ms[k])]

LEMMA LeftExists == ASSUME NEW n \in Nat, NEW ms, NEW gone PROVE \E w : Left(w, n, ms, gone)
<1> DEFINE Next1(v, k) == IF ms[k] \in gone THEN v ELSE Append(v, ms[k])
           S == {k \in 0..n : \E w : Left(w, k, ms, gone)}
<1>1. 0 \in S
  <2> DEFINE w == [j \in 0..0 |-> <<>>]
  <2>1. w = [k \in 0..0 |-> IF k = 0 THEN <<>>
                      ELSE IF ms[k] \in gone THEN w[k - 1] ELSE Append(w[k - 1], ms[k])]
    OBVIOUS
  <2>2. Left(w, 0, ms, gone)
    BY <2>1 DEF Left
  <2> HIDE DEF w
  <2> QED
    BY <2>2
<1>2. ASSUME NEW k \in 0..n, k < n, k \in S PROVE k + 1 \in S
  <2>1. PICK v : Left(v, k, ms, gone)
    BY <1>2
  <2>2. \A j \in 0..k : v[j] = IF j = 0 THEN <<>> ELSE Next1(v[j - 1], j)
    BY <2>1 DEF Left
  <2> DEFINE w == [j \in 0..(k + 1) |-> IF j <= k THEN v[j] ELSE Next1(v[k], k + 1)]
  <2>3. (\A j \in 0..k : w[j] = v[j]) /\ w[k + 1] = Next1(v[k], k + 1)
        /\ w = [j \in 0..(k + 1) |-> w[j]]
    OBVIOUS
  <2> HIDE DEF w, Next1
  <2>4. \A j \in 0..(k + 1) : w[j] = IF j = 0 THEN <<>> ELSE Next1(w[j - 1], j)
    <3> SUFFICES ASSUME NEW j \in 0..(k + 1)
                 PROVE  w[j] = IF j = 0 THEN <<>> ELSE Next1(w[j - 1], j)
      OBVIOUS
    <3>1. CASE j = k + 1
      <4>1. j # 0 /\ j - 1 = k /\ k \in 0..k
        BY <3>1
      <4> QED
        BY <2>3, <3>1, <4>1
    <3>2. CASE j # k + 1
      <4>1. j \in 0..k /\ (j # 0 => j - 1 \in 0..k)
        BY <3>2
      <4>2. CASE j = 0
        BY <2>2, <2>3, <4>1, <4>2
      <4>3. CASE j # 0
        BY <2>2, <2>3, <4>1, <4>3
      <4> QED
        BY <4>2, <4>3
    <3> QED
      BY <3>1, <3>2
  <2>5. Left(w, k + 1, ms, gone)
    BY <2>3, <2>4 DEF Left, Next1
  <2> QED
    BY <1>2, <2>5
<1>3. \A k \in 0..n : k \in S
  <2> HIDE DEF S
  <2> QED
    BY <1>1, <1>2, StepByStep
<1> QED
  BY <1>3

Steps(w, n, ms, gone) ==
  /\ w[0] = <<>>
  /\ \A k \in 0..n : k < n =>
       w[k + 1] = IF ms[k + 1] \in gone THEN w[k] ELSE Append(w[k], ms[k + 1])

LEMMA LessSteps ==
  ASSUME NEW ms \in Seq(Message), NEW gone
  PROVE  \E w : Steps(w, Len(ms), ms, gone) /\ Less(ms, gone) = w[Len(ms)]
<1> DEFINE n == Len(ms)
           w == CHOOSE v : Left(v, n, ms, gone)
<1>1. n \in Nat
  BY LenProperties
<1>2. Left(w, n, ms, gone)
  BY <1>1, LeftExists
<1>3. Less(ms, gone) = w[n]
  BY DEF Less, Left
<1> HIDE DEF w
<1>4. \A k \in 0..n : w[k] = IF k = 0 THEN <<>>
                      ELSE IF ms[k] \in gone THEN w[k - 1] ELSE Append(w[k - 1], ms[k])
  BY <1>2 DEF Left
<1>5. w[0] = <<>>
  BY <1>1, <1>4
<1>6. ASSUME NEW k \in 0..n, k < n
      PROVE  w[k + 1] = IF ms[k + 1] \in gone THEN w[k] ELSE Append(w[k], ms[k + 1])
  <2>1. k + 1 \in 0..n /\ k + 1 # 0 /\ (k + 1) - 1 = k
    BY <1>1, <1>6
  <2>2. w[k + 1] = IF k + 1 = 0 THEN <<>>
                   ELSE IF ms[k + 1] \in gone THEN w[(k + 1) - 1] ELSE Append(w[(k + 1) - 1], ms[k + 1])
    BY <1>4, <2>1
  <2> QED
    BY <2>1, <2>2
<1> QED
  BY <1>3, <1>5, <1>6 DEF Steps

\* Only the messages themselves decide what is left of them.
LEMMA SameSteps ==
  ASSUME NEW n \in Nat, NEW ms, NEW ns, NEW gone, NEW w, NEW v, \A k \in 1..n : ms[k] = ns[k],
         Steps(w, n, ms, gone), Steps(v, n, ns, gone)
  PROVE  w[n] = v[n]
<1> DEFINE S == {k \in 0..n : w[k] = v[k]}
<1>1. 0 \in S
  BY DEF Steps
<1>2. ASSUME NEW k \in 0..n, k < n, k \in S PROVE k + 1 \in S
  <2>1. k + 1 \in 1..n /\ k + 1 \in 0..n /\ w[k] = v[k]
    BY <1>2
  <2>2. ms[k + 1] = ns[k + 1]
    BY <2>1
  <2> QED
    BY <1>2, <2>1, <2>2 DEF Steps
<1>3. \A k \in 0..n : k \in S
  <2> HIDE DEF S
  <2> QED
    BY <1>1, <1>2, StepByStep
<1> QED
  BY <1>3

LEMMA LeftType ==
  ASSUME NEW ms \in Seq(Message), NEW gone, NEW n \in Nat, n <= Len(ms), NEW w, Steps(w, n, ms, gone)
  PROVE  \A k \in 0..n : w[k] \in Seq(Message)
<1> DEFINE S == {k \in 0..n : w[k] \in Seq(Message)}
<1>1. 0 \in S
  <2>1. w[0] \in Seq(Message)
    BY DEF Steps
  <2>2. 0 \in 0..n
    OBVIOUS
  <2> QED
    BY <2>1, <2>2
<1>2. ASSUME NEW k \in 0..n, k < n, k \in S PROVE k + 1 \in S
  <2>1. k + 1 \in 1..Len(ms) /\ k + 1 \in 0..n /\ w[k] \in Seq(Message)
    BY <1>2
  <2>2. ms[k + 1] \in Message
    BY <2>1, ElementOfSeq
  <2>3. Append(w[k], ms[k + 1]) \in Seq(Message)
    BY <2>1, <2>2, AppendProperties
  <2> QED
    BY <1>2, <2>1, <2>3 DEF Steps
<1>3. \A k \in 0..n : k \in S
  <2> HIDE DEF S
  <2> QED
    BY <1>1, <1>2, StepByStep
<1> QED
  BY <1>3

LEMMA LessType ==
  ASSUME NEW ms \in Seq(Message), NEW gone PROVE Less(ms, gone) \in Seq(Message)
<1>1. PICK w : Steps(w, Len(ms), ms, gone) /\ Less(ms, gone) = w[Len(ms)]
  BY LessSteps
<1>2. Len(ms) \in Nat /\ Len(ms) <= Len(ms)
  BY LenProperties
<1>3. \A k \in 0..Len(ms) : w[k] \in Seq(Message)
  BY <1>1, <1>2, LeftType
<1> QED
  BY <1>1, <1>2, <1>3

LEMMA LessAppend ==
  ASSUME NEW ms \in Seq(Message), NEW m \in Message, NEW gone
  PROVE  Less(Append(ms, m), gone)
           = IF m \in gone THEN Less(ms, gone) ELSE Append(Less(ms, gone), m)
<1> DEFINE n == Len(ms)
           ns == Append(ms, m)
<1>1. n \in Nat /\ ns \in Seq(Message) /\ Len(ns) = n + 1 /\ ns[n + 1] = m /\ \A k \in 1..n : ns[k] = ms[k]
  BY AppendProperties, LenProperties
<1> HIDE DEF ns
<1>2. PICK w : Steps(w, n, ms, gone) /\ Less(ms, gone) = w[n]
  BY LessSteps
<1>3. PICK v : Steps(v, n + 1, ns, gone) /\ Less(ns, gone) = v[n + 1]
  BY <1>1, LessSteps
<1> HIDE DEF n
<1>4. Steps(v, n, ns, gone)
  <2>1. \A k \in 0..n : k \in 0..(n + 1) /\ (k < n => k < n + 1)
    BY <1>1
  <2> QED
    BY <1>3, <2>1 DEF Steps
<1>5. v[n] = w[n]
  BY <1>1, <1>2, <1>4, SameSteps
<1>6. v[n + 1] = IF ns[n + 1] \in gone THEN v[n] ELSE Append(v[n], ns[n + 1])
  <2>1. n \in 0..(n + 1) /\ n < n + 1
    BY <1>1
  <2> QED
    BY <1>3, <2>1 DEF Steps
<1>7. Less(ns, gone) = IF m \in gone THEN Less(ms, gone) ELSE Append(Less(ms, gone), m)
  BY <1>1, <1>2, <1>3, <1>5, <1>6
<1> QED
  BY <1>7 DEF ns
SysSet == {Sys(tag) : tag \in Tag}

LEMMA MessageFacts ==
  /\ \A tag \in Tag : Sys(tag) \in Message /\ Sys(tag).role = "system"
  /\ \A m \in SysSet : m \in Message /\ m.role = "system"
  /\ \A m \in Message : m \notin SysSet => m.pos \in Nat /\ m.id \in Nat /\ m.role # "system"
  /\ \A role \in {"user", "assistant", "tool"}, id \in Nat, pos \in Nat :
       /\ Msg(role, id, pos) \in Message /\ Msg(role, id, pos) \notin SysSet
       /\ Msg(role, id, pos).role = role /\ Msg(role, id, pos).pos = pos
       /\ Msg(role, id, pos).id = id
BY DEF Message, SysSet, Sys, Msg, Tag

\* The first k messages, and what is left of them: the calls have the results
\* that have come, and as many behind them.
From(ms, k, out, p, i) ==
  /\ out[p] = ms[i]
  /\ k - i = Len(out) - p \/ (k - i >= ms[i].pos /\ Len(out) - p >= ms[i].pos)
  /\ \A j \in 1..ms[i].pos : p + j <= Len(out) => out[p + j] = Msg("tool", ms[i].id, j)
KeptTo(ms, k, out) ==
  \A p \in 1..Len(out) : out[p].role = "assistant" => \E i \in 1..k : From(ms, k, out, p, i)

LEMMA KeptNext ==
  ASSUME NEW ms \in Seq(Message), AllAnswered(ms, Len(ms)), NEW gone \in SUBSET SysSet,
         NEW k \in Nat, k < Len(ms), NEW out \in Seq(Message), KeptTo(ms, k, out),
         NEW next, next = IF ms[k + 1] \in gone THEN out ELSE Append(out, ms[k + 1])
  PROVE  KeptTo(ms, k + 1, next)
<1> DEFINE m == ms[k + 1]
<1>1. k + 1 \in 1..Len(ms) /\ Len(ms) \in Nat /\ m \in Message /\ Len(out) \in Nat
  BY LenProperties, ElementOfSeq
<1>2. ASSUME NEW i \in 1..k, ms[i].role = "assistant"
      PROVE  /\ ms[i] \in Message /\ ms[i].pos \in Nat /\ ms[i].id \in Nat
             /\ \A j \in 1..ms[i].pos : i + j = k + 1 => m = Msg("tool", ms[i].id, j) /\ m \notin gone
  <2>1. i \in 1..Len(ms) /\ ms[i] \in Message
    BY <1>1, <1>2, ElementOfSeq
  <2>2. ms[i] \notin SysSet
    BY <1>2, MessageFacts
  <2>3. ms[i].pos \in Nat /\ ms[i].id \in Nat
    BY <2>1, <2>2, MessageFacts
  <2>4. Complete(ms, i)
    BY <1>2, <2>1 DEF AllAnswered
  <2>5. ASSUME NEW j \in 1..ms[i].pos, i + j = k + 1 PROVE m = Msg("tool", ms[i].id, j) /\ m \notin gone
    <3>1. m = Msg("tool", ms[i].id, j)
      BY <2>4, <2>5 DEF Complete
    <3>2. j \in Nat
      BY <2>3, <2>5
    <3>3. Msg("tool", ms[i].id, j) \notin SysSet
      BY <2>3, <3>2, MessageFacts
    <3> QED
      BY <3>1, <3>3
  <2> QED
    BY <2>1, <2>3, <2>5
<1>3. CASE m \in gone
  <2>1. next = out
    BY <1>3
  <2>2. ASSUME NEW p \in 1..Len(out), out[p].role = "assistant"
        PROVE  \E i \in 1..(k + 1) : From(ms, k + 1, out, p, i)
    <3>0. PICK i \in 1..k : From(ms, k, out, p, i)
      BY <2>2 DEF KeptTo
    <3>1. /\ out[p] = ms[i]
          /\ k - i = Len(out) - p \/ (k - i >= ms[i].pos /\ Len(out) - p >= ms[i].pos)
          /\ \A j \in 1..ms[i].pos : p + j <= Len(out) => out[p + j] = Msg("tool", ms[i].id, j)
      BY <3>0 DEF From
    <3>2. /\ ms[i].pos \in Nat
          /\ \A j \in 1..ms[i].pos : i + j = k + 1 => m = Msg("tool", ms[i].id, j) /\ m \notin gone
      BY <1>2, <2>2, <3>1
    <3>3. k - i >= ms[i].pos
      <4> SUFFICES ASSUME k - i < ms[i].pos PROVE FALSE
        BY <3>2
      <4>1. k + 1 - i \in 1..ms[i].pos /\ i + (k + 1 - i) = k + 1
        BY <3>2
      <4> QED
        BY <1>3, <3>2, <4>1
    <3>4. (k + 1) - i >= ms[i].pos /\ Len(out) - p >= ms[i].pos
      BY SMTT(30), <3>1, <3>2, <3>3
    <3>5. From(ms, k + 1, out, p, i)
      BY <3>1, <3>4 DEF From
    <3>6. i \in 1..(k + 1)
      OBVIOUS
    <3> QED
      BY <3>5, <3>6
  <2> QED
    BY <2>1, <2>2 DEF KeptTo
<1>4. CASE m \notin gone
  <2>1. /\ next = Append(out, m) /\ Len(next) = Len(out) + 1 /\ next[Len(out) + 1] = m
        /\ \A p \in 1..Len(out) : next[p] = out[p]
    BY <1>1, <1>4, AppendProperties
  <2>2. ASSUME NEW p \in 1..Len(next), next[p].role = "assistant"
        PROVE  \E i \in 1..(k + 1) : From(ms, k + 1, next, p, i)
    <3>1. CASE p = Len(out) + 1
      <4>1. next[p] = ms[k + 1] /\ (k + 1) - (k + 1) = Len(next) - p
        BY <2>1, <3>1
      <4>2. ms[k + 1].pos \in Nat
        BY <1>1, <2>2, <4>1, MessageFacts
      <4>3. \A j \in 1..ms[k + 1].pos : ~(p + j <= Len(next))
        BY <1>1, <2>1, <3>1, <4>2
      <4>4. From(ms, k + 1, next, p, k + 1)
        BY <4>1, <4>3 DEF From
      <4>5. k + 1 \in 1..(k + 1)
        OBVIOUS
      <4> QED
        BY <4>4, <4>5
    <3>2. CASE p \in 1..Len(out)
      <4>1. out[p].role = "assistant" /\ next[p] = out[p]
        BY <2>1, <2>2, <3>2
      <4>0. PICK i \in 1..k : From(ms, k, out, p, i)
        BY <3>2, <4>1 DEF KeptTo
      <4>2. /\ out[p] = ms[i]
            /\ k - i = Len(out) - p \/ (k - i >= ms[i].pos /\ Len(out) - p >= ms[i].pos)
            /\ \A j \in 1..ms[i].pos : p + j <= Len(out) => out[p + j] = Msg("tool", ms[i].id, j)
        BY <4>0 DEF From
      <4>3. /\ ms[i].pos \in Nat
            /\ \A j \in 1..ms[i].pos : i + j = k + 1 => m = Msg("tool", ms[i].id, j) /\ m \notin gone
        BY <1>2, <4>1, <4>2
      <4>4. (k + 1) - i = Len(next) - p \/ ((k + 1) - i >= ms[i].pos /\ Len(next) - p >= ms[i].pos)
        <5>1. Len(out) \in Nat /\ Len(next) = Len(out) + 1 /\ ms[i].pos \in Nat
          BY <1>1, <2>1, <4>3
        <5>2. k - i = Len(out) - p \/ (k - i >= ms[i].pos /\ Len(out) - p >= ms[i].pos)
          BY <4>2
        <5>3. k \in Nat /\ i \in Nat /\ p \in Nat
          BY <3>2
        <5> DEFINE a == Len(out)
                   b == ms[i].pos
                   c == Len(next)
        <5>4. a \in Nat /\ b \in Nat /\ c = a + 1 /\ (k - i = a - p \/ (k - i >= b /\ a - p >= b))
          BY <5>1, <5>2
        <5> HIDE DEF a, b, c, m
        <5>5. (k + 1) - i = c - p \/ ((k + 1) - i >= b /\ c - p >= b)
          BY <5>3, <5>4
        <5> QED
          BY <5>5 DEF a, b, c
      <4>5. ASSUME NEW j \in 1..ms[i].pos, p + j <= Len(next)
            PROVE  next[p + j] = Msg("tool", ms[i].id, j)
        <5>1. CASE p + j <= Len(out)
          <6>1. p + j \in 1..Len(out)
            BY <4>3, <5>1
          <6> QED
            BY <2>1, <4>2, <5>1, <6>1
        <5>2. CASE ~(p + j <= Len(out))
          <6>0. Len(out) \in Nat /\ p \in Nat /\ j \in Nat /\ p + j <= Len(out) + 1
            BY <1>1, <2>1, <4>3, <4>5
          <6>1. p + j = Len(out) + 1
            BY <5>2, <6>0
          <6>2. Len(out) - p < ms[i].pos
            BY <4>3, <6>0, <6>1
          <6>3. k - i = Len(out) - p
            BY SMTT(30), <4>2, <4>3, <6>2
          <6>4. i + j = k + 1
            BY <6>0, <6>1, <6>3
          <6> QED
            BY <2>1, <4>3, <6>1, <6>4
        <5> QED
          BY <5>1, <5>2
      <4>6. From(ms, k + 1, next, p, i)
        BY <4>1, <4>2, <4>4, <4>5 DEF From
      <4>7. i \in 1..(k + 1)
        OBVIOUS
      <4> QED
        BY <4>6, <4>7
    <3>3. p = Len(out) + 1 \/ p \in 1..Len(out)
      BY <1>1, <2>1
    <3> QED
      BY <3>1, <3>2, <3>3
  <2> QED
    BY <2>2 DEF KeptTo
<1> QED
  BY <1>3, <1>4

LEMMA LessAnswered ==
  ASSUME NEW ms \in Seq(Message), AllAnswered(ms, Len(ms)), NEW gone \in SUBSET SysSet
  PROVE  AllAnswered(Less(ms, gone), Len(Less(ms, gone)))
<1> DEFINE n == Len(ms)
<1>1. n \in Nat /\ n <= Len(ms)
  BY LenProperties
<1>2. PICK w : Steps(w, n, ms, gone) /\ Less(ms, gone) = w[n]
  BY LessSteps
<1>3. \A k \in 0..n : w[k] \in Seq(Message)
  BY <1>1, <1>2, LeftType
<1> DEFINE S == {k \in 0..n : KeptTo(ms, k, w[k])}
<1>4. 0 \in S
  <2>1. w[0] = <<>>
    BY <1>2 DEF Steps
  <2>2. KeptTo(ms, 0, <<>>)
    BY DEF KeptTo
  <2> QED
    BY <1>1, <2>1, <2>2
<1>5. ASSUME NEW k \in 0..n, k < n, k \in S PROVE k + 1 \in S
  <2>1. k \in Nat /\ k + 1 \in 0..n /\ w[k] \in Seq(Message) /\ KeptTo(ms, k, w[k])
    BY <1>1, <1>3, <1>5
  <2>2. w[k + 1] = IF ms[k + 1] \in gone THEN w[k] ELSE Append(w[k], ms[k + 1])
    BY <1>2, <1>5 DEF Steps
  <2>3. KeptTo(ms, k + 1, w[k + 1])
    BY <1>5, <2>1, <2>2, KeptNext
  <2> QED
    BY <2>1, <2>3
<1>6. \A k \in 0..n : k \in S
  <2> HIDE DEF S, n
  <2> QED
    BY <1>1, <1>4, <1>5, StepByStep
<1>7. KeptTo(ms, n, w[n]) /\ w[n] \in Seq(Message)
  BY <1>1, <1>3, <1>6
<1> DEFINE out == w[n]
<1>8. ASSUME NEW p \in 1..Len(out), out[p].role = "assistant" PROVE Complete(out, p)
  <2>0. PICK i \in 1..n : From(ms, n, out, p, i)
    BY <1>7, <1>8 DEF KeptTo
  <2>1. /\ out[p] = ms[i]
        /\ n - i = Len(out) - p \/ (n - i >= ms[i].pos /\ Len(out) - p >= ms[i].pos)
        /\ \A j \in 1..ms[i].pos : p + j <= Len(out) => out[p + j] = Msg("tool", ms[i].id, j)
    BY <2>0 DEF From
  <2>2. Complete(ms, i)
    BY <1>8, <2>1 DEF AllAnswered
  <2>3. ms[i].pos \in Nat
    BY <1>1, <1>8, <2>1, ElementOfSeq, MessageFacts
  <2>4. Len(out) \in Nat
    BY <1>7, LenProperties
  <2>5. n - i >= ms[i].pos
    <3>1. CASE ms[i].pos = 0
      BY <1>1, <3>1
    <3>2. CASE ms[i].pos # 0
      <4>1. ms[i].pos \in 1..ms[i].pos
        BY <2>3, <3>2
      <4>2. i + ms[i].pos <= n
        BY <2>2, <4>1 DEF Complete
      <4> QED
        BY <1>1, <2>3, <4>2
    <3> QED
      BY <3>1, <3>2
  <2>6. Len(out) - p >= ms[i].pos
    BY <2>1, <2>5
  <2>7. ASSUME NEW j \in 1..out[p].pos PROVE p + j <= Len(out) /\ out[p + j] = Msg("tool", out[p].id, j)
    <3>1. j \in 1..ms[i].pos
      BY <2>1, <2>7
    <3>2. p + j <= Len(out)
      BY <2>3, <2>4, <2>6, <3>1
    <3> QED
      BY <2>1, <3>1, <3>2
  <2> QED
    BY <2>7 DEF Complete
<1> QED
  BY <1>2, <1>8 DEF AllAnswered

\* What the next request sends: only a fold changes what was sent before.
LEMMA CoreIs == \A ms : Core(ms) = Less(ms, SysSet)
BY DEF Core, SysSet

LEMMA PrefixIs ==
  ASSUME NEW s \in Seq(Message), NEW t \in Seq(Message)
  PROVE  IsPrefix(s, t) <=> Len(s) <= Len(t) /\ \A i \in 1..Len(s) : s[i] = t[i]
<1>1. Len(s) \in Nat /\ Len(t) \in Nat
  BY LenProperties
<1>2. CASE Len(s) <= Len(t)
  <2>1. \A i \in 1..Len(s) : i \in 1..Len(t)
    BY <1>1, <1>2
  <2>2. /\ SubSeq(s, 1, Len(s)) \in Seq(Message) /\ SubSeq(t, 1, Len(s)) \in Seq(Message)
        /\ Len(SubSeq(s, 1, Len(s))) = Len(s) /\ Len(SubSeq(t, 1, Len(s))) = Len(s)
        /\ \A i \in 1..Len(s) : SubSeq(s, 1, Len(s))[i] = s[i] /\ SubSeq(t, 1, Len(s))[i] = t[i]
    BY <1>1, <1>2, <2>1
  <2>3. SubSeq(s, 1, Len(s)) = SubSeq(t, 1, Len(s)) <=> \A i \in 1..Len(s) : s[i] = t[i]
    <3>1. ASSUME SubSeq(s, 1, Len(s)) = SubSeq(t, 1, Len(s)) PROVE \A i \in 1..Len(s) : s[i] = t[i]
      BY <2>2, <3>1
    <3>2. ASSUME \A i \in 1..Len(s) : s[i] = t[i] PROVE SubSeq(s, 1, Len(s)) = SubSeq(t, 1, Len(s))
      <4>1. \A i \in 1..Len(s) : SubSeq(s, 1, Len(s))[i] = SubSeq(t, 1, Len(s))[i]
        BY <2>2, <3>2
      <4> QED
        BY <2>2, <4>1, SeqEqual
    <3> QED
      BY <3>1, <3>2
  <2> QED
    BY <1>2, <2>3 DEF IsPrefix
<1>3. CASE ~(Len(s) <= Len(t))
  BY <1>3 DEF IsPrefix
<1> QED
  BY <1>2, <1>3

LEMMA PrefixTrans ==
  ASSUME NEW s \in Seq(Message), NEW t \in Seq(Message), NEW u \in Seq(Message),
         IsPrefix(s, t), IsPrefix(t, u)
  PROVE  IsPrefix(s, u)
<1>1. Len(s) \in Nat /\ Len(t) \in Nat /\ Len(u) \in Nat
  BY LenProperties
<1>2. Len(s) <= Len(t) /\ \A i \in 1..Len(s) : s[i] = t[i]
  BY PrefixIs
<1>3. Len(t) <= Len(u) /\ \A i \in 1..Len(t) : t[i] = u[i]
  BY PrefixIs
<1>4. \A i \in 1..Len(s) : i \in 1..Len(t)
  BY <1>1, <1>2
<1>5. Len(s) <= Len(u) /\ \A i \in 1..Len(s) : s[i] = u[i]
  BY <1>1, <1>2, <1>3, <1>4
<1> QED
  BY <1>5, PrefixIs

LEMMA PrefixSame == ASSUME NEW s \in Seq(Message) PROVE IsPrefix(s, s)
<1>1. Len(s) <= Len(s)
  BY LenProperties
<1> QED
  BY <1>1, PrefixIs

LEMMA PrefixAppend ==
  ASSUME NEW s \in Seq(Message), NEW m \in Message PROVE IsPrefix(s, Append(s, m))
<1>1. Append(s, m) \in Seq(Message) /\ Len(Append(s, m)) = Len(s) + 1 /\ Len(s) \in Nat
      /\ \A i \in 1..Len(s) : Append(s, m)[i] = s[i]
  BY AppendProperties, LenProperties
<1>2. Len(s) <= Len(s) + 1
  BY <1>1
<1> QED
  BY <1>1, <1>2, PrefixIs

\* A message of the system is not part of it, another one is added to it.
LEMMA CoreAppend ==
  ASSUME NEW ms \in Seq(Message), NEW m \in Message
  PROVE  /\ m \in SysSet => Core(Append(ms, m)) = Core(ms)
         /\ IsPrefix(Core(ms), Core(Append(ms, m)))
<1>1. Core(ms) \in Seq(Message)
  BY LessType, CoreIs
<1>2. Core(Append(ms, m)) = IF m \in SysSet THEN Core(ms) ELSE Append(Core(ms), m)
  BY LessAppend, CoreIs
<1>3. CASE m \in SysSet
  BY <1>1, <1>2, <1>3, PrefixSame
<1>4. CASE m \notin SysSet
  BY <1>1, <1>2, <1>4, PrefixAppend
<1> QED
  BY <1>3, <1>4

LEMMA CoreWithout ==
  ASSUME NEW ms \in Seq(Message), NEW gone \in SUBSET SysSet
  PROVE  Core(Less(ms, gone)) = Core(ms)
<1> DEFINE n == Len(ms)
<1>1. n \in Nat /\ n <= Len(ms)
  BY LenProperties
<1>2. PICK w : Steps(w, n, ms, gone) /\ Less(ms, gone) = w[n]
  BY LessSteps
<1>3. PICK c : Steps(c, n, ms, SysSet) /\ Less(ms, SysSet) = c[n]
  BY LessSteps
<1>4. \A k \in 0..n : w[k] \in Seq(Message)
  BY <1>1, <1>2, LeftType
<1> DEFINE S == {k \in 0..n : Less(w[k], SysSet) = c[k]}
<1>5. 0 \in S
  <2>1. w[0] = <<>> /\ c[0] = <<>>
    BY <1>2, <1>3 DEF Steps
  <2>2. <<>> \in Seq(Message) /\ Len(<<>>) = 0
    OBVIOUS
  <2>3. PICK v : Steps(v, 0, <<>>, SysSet) /\ Less(<<>>, SysSet) = v[0]
    BY <2>2, LessSteps
  <2>4. Less(<<>>, SysSet) = <<>>
    BY <2>3 DEF Steps
  <2> QED
    BY <1>1, <2>1, <2>4
<1>6. ASSUME NEW k \in 0..n, k < n, k \in S PROVE k + 1 \in S
  <2>1. k + 1 \in 0..n /\ k + 1 \in 1..Len(ms) /\ w[k] \in Seq(Message) /\ Less(w[k], SysSet) = c[k]
    BY <1>1, <1>4, <1>6
  <2>2. w[k + 1] = IF ms[k + 1] \in gone THEN w[k] ELSE Append(w[k], ms[k + 1])
    BY <1>2, <1>6 DEF Steps
  <2>3. c[k + 1] = IF ms[k + 1] \in SysSet THEN c[k] ELSE Append(c[k], ms[k + 1])
    BY <1>3, <1>6 DEF Steps
  <2>4. ms[k + 1] \in Message
    BY <2>1, ElementOfSeq
  <2>5. Less(Append(w[k], ms[k + 1]), SysSet)
          = IF ms[k + 1] \in SysSet THEN c[k] ELSE Append(c[k], ms[k + 1])
    <3>1. Less(Append(w[k], ms[k + 1]), SysSet)
            = IF ms[k + 1] \in SysSet THEN Less(w[k], SysSet) ELSE Append(Less(w[k], SysSet), ms[k + 1])
      <4>1. \A u \in Seq(Message), m \in Message :
              Less(Append(u, m), SysSet)
                = IF m \in SysSet THEN Less(u, SysSet) ELSE Append(Less(u, SysSet), m)
        BY LessAppend
      <4> QED
        BY <2>1, <2>4, <4>1
    <3> QED
      BY <2>1, <3>1
  <2>6. Less(w[k + 1], SysSet) = c[k + 1]
    <3>1. CASE ms[k + 1] \in gone
      BY <2>1, <2>2, <2>3, <3>1
    <3>2. CASE ms[k + 1] \notin gone
      BY <2>2, <2>3, <2>5, <3>2
    <3> QED
      BY <3>1, <3>2
  <2> QED
    BY <2>1, <2>6
<1>7. \A k \in 0..n : k \in S
  <2> HIDE DEF S, n
  <2> QED
    BY <1>1, <1>5, <1>6, StepByStep
<1>8. Less(w[n], SysSet) = c[n]
  BY <1>1, <1>7
<1> QED
  BY <1>2, <1>3, <1>8, CoreIs

\* Messages put behind are sent behind.
LEMMA CoreConcat ==
  ASSUME NEW ms \in Seq(Message), NEW more \in Seq(Message)
  PROVE  IsPrefix(Core(ms), Core(ms \o more))
<1> DEFINE n == Len(ms)
           r == Len(more)
           all == ms \o more
<1>1. n \in Nat /\ r \in Nat /\ all \in Seq(Message) /\ Len(all) = n + r
      /\ \A k \in 1..n : all[k] = ms[k]
  BY LenProperties, ConcatProperties
<1> HIDE DEF all
<1>2. PICK w : Steps(w, n, ms, SysSet) /\ Less(ms, SysSet) = w[n]
  BY LessSteps
<1>3. PICK v : Steps(v, Len(all), all, SysSet) /\ Less(all, SysSet) = v[Len(all)]
  BY <1>1, LessSteps
<1> HIDE DEF n, r
<1>4. Steps(v, n, all, SysSet)
  <2>1. \A k \in 0..n : k \in 0..Len(all) /\ (k < n => k < Len(all))
    BY <1>1
  <2> QED
    BY <1>3, <2>1 DEF Steps
<1>5. v[n] = w[n]
  BY <1>1, <1>2, <1>4, SameSteps
<1>6. Len(all) \in Nat /\ Len(all) <= Len(all)
  BY <1>1
<1>7. \A k \in 0..Len(all) : v[k] \in Seq(Message)
  BY <1>1, <1>3, <1>6, LeftType
<1> DEFINE S == {k \in 0..r : IsPrefix(v[n], v[n + k])}
<1>8. 0 \in S
  <2>1. n + 0 = n /\ n \in 0..Len(all) /\ 0 \in 0..r
    BY <1>1
  <2>2. IsPrefix(v[n], v[n])
    BY <1>7, <2>1, PrefixSame
  <2> QED
    BY <2>1, <2>2
<1>9. ASSUME NEW k \in 0..r, k < r, k \in S PROVE k + 1 \in S
  <2>1. /\ k + 1 \in 0..r /\ n + k \in 0..Len(all) /\ n + k < Len(all) /\ n \in 0..Len(all)
        /\ (n + k) + 1 \in 1..Len(all) /\ (n + k) + 1 \in 0..Len(all) /\ (n + k) + 1 = n + (k + 1)
    BY <1>1, <1>9
  <2>2. v[(n + k) + 1] = IF all[(n + k) + 1] \in SysSet THEN v[n + k]
                         ELSE Append(v[n + k], all[(n + k) + 1])
    BY <1>3, <2>1 DEF Steps
  <2>3. all[(n + k) + 1] \in Message
    BY <1>1, <2>1, ElementOfSeq
  <2>4. v[n] \in Seq(Message) /\ v[n + k] \in Seq(Message) /\ v[(n + k) + 1] \in Seq(Message)
    BY <1>7, <2>1
  <2>5. IsPrefix(v[n + k], v[(n + k) + 1])
    BY <2>2, <2>3, <2>4, PrefixSame, PrefixAppend
  <2>6. IsPrefix(v[n], v[n + k])
    BY <1>9
  <2>7. IsPrefix(v[n], v[(n + k) + 1])
    BY <2>4, <2>5, <2>6, PrefixTrans
  <2> QED
    BY <2>1, <2>7
<1>10. \A k \in 0..r : k \in S
  <2> HIDE DEF S
  <2> QED
    BY <1>1, <1>8, <1>9, StepByStep
<1>11. r \in 0..r /\ n + r = Len(all)
  BY <1>1
<1>12. IsPrefix(v[n], v[Len(all)])
  BY <1>10, <1>11
<1> QED
  BY <1>2, <1>3, <1>5, <1>12, CoreIs DEF all, n

LEMMA LessFirst ==
  ASSUME NEW ms \in Seq(Message), ms # <<>>, NEW gone, ms[1] \notin gone
  PROVE  Less(ms, gone) # <<>> /\ Less(ms, gone)[1] = ms[1]
<1> DEFINE n == Len(ms)
<1>1. n \in Nat /\ n <= Len(ms) /\ 1 <= n
  BY LenProperties, EmptySeq
<1>2. PICK w : Steps(w, n, ms, gone) /\ Less(ms, gone) = w[n]
  BY LessSteps
<1>3. \A k \in 0..n : w[k] \in Seq(Message)
  BY <1>1, <1>2, LeftType
<1> DEFINE S == {k \in 0..n : k # 0 => Len(w[k]) >= 1 /\ w[k][1] = ms[1]}
<1>4. 0 \in S
  BY <1>1
<1>5. ASSUME NEW k \in 0..n, k < n, k \in S PROVE k + 1 \in S
  <2>1. k + 1 \in 0..n /\ k + 1 \in 1..Len(ms) /\ w[k] \in Seq(Message)
    BY <1>1, <1>3, <1>5
  <2>2. w[k + 1] = IF ms[k + 1] \in gone THEN w[k] ELSE Append(w[k], ms[k + 1])
    BY <1>2, <1>5 DEF Steps
  <2>3. ms[k + 1] \in Message
    BY <2>1, ElementOfSeq
  <2>4. Len(w[k]) \in Nat /\ Len(Append(w[k], ms[k + 1])) = Len(w[k]) + 1
        /\ (\A i \in 1..Len(w[k]) : Append(w[k], ms[k + 1])[i] = w[k][i])
        /\ Append(w[k], ms[k + 1])[Len(w[k]) + 1] = ms[k + 1]
    BY <2>1, <2>3, AppendProperties, LenProperties
  <2>5. Len(w[k + 1]) >= 1 /\ w[k + 1][1] = ms[1]
    <3>1. CASE k = 0
      <4>1. w[k] = <<>> /\ k + 1 = 1
        BY <1>2, <3>1 DEF Steps
      <4>2. w[k + 1] = Append(w[k], ms[k + 1]) /\ Len(w[k]) = 0
        BY <2>2, <4>1
      <4> QED
        BY <2>4, <4>1, <4>2
    <3>2. CASE k # 0
      <4>1. Len(w[k]) >= 1 /\ w[k][1] = ms[1] /\ 1 \in 1..Len(w[k])
        BY <1>5, <2>4, <3>2
      <4> QED
        BY <2>2, <2>4, <4>1
    <3> QED
      BY <3>1, <3>2
  <2> QED
    BY <2>1, <2>5
<1>6. \A k \in 0..n : k \in S
  <2> HIDE DEF S, n
  <2> QED
    BY <1>1, <1>4, <1>5, StepByStep
<1>7. Len(w[n]) >= 1 /\ w[n][1] = ms[1]
  BY <1>1, <1>6
<1>8. w[n] # <<>>
  BY <1>7
<1> QED
  BY <1>2, <1>7, <1>8

LEMMA AnsweredAppend ==
  ASSUME NEW ms \in Seq(Message), AllAnswered(ms, Len(ms)), NEW m \in Message
  PROVE  /\ AllAnswered(Append(ms, m), Len(ms))
         /\ m.role # "assistant" => AllAnswered(Append(ms, m), Len(Append(ms, m)))
<1> DEFINE out == Append(ms, m)
<1>1. /\ Len(ms) \in Nat /\ Len(out) = Len(ms) + 1 /\ out[Len(ms) + 1] = m
      /\ \A i \in 1..Len(ms) : out[i] = ms[i]
  BY AppendProperties, LenProperties
<1> HIDE DEF out
<1>2. ASSUME NEW i \in 1..Len(ms), out[i].role = "assistant" PROVE Complete(out, i)
  <2>1. out[i] = ms[i]
    BY <1>1
  <2>2. Complete(ms, i)
    BY <1>2, <2>1 DEF AllAnswered
  <2>3. ms[i].pos \in Nat
    BY <1>2, <2>1, ElementOfSeq, MessageFacts
  <2>4. ASSUME NEW j \in 1..ms[i].pos PROVE i + j <= Len(out) /\ out[i + j] = Msg("tool", ms[i].id, j)
    <3>1. i + j <= Len(ms) /\ ms[i + j] = Msg("tool", ms[i].id, j)
      BY <2>2 DEF Complete
    <3>2. i + j \in 1..Len(ms)
      BY <1>1, <2>3, <3>1
    <3> QED
      BY <1>1, <3>1, <3>2
  <2> QED
    BY <2>1, <2>4 DEF Complete
<1>3. ASSUME m.role # "assistant" PROVE AllAnswered(out, Len(out))
  <2>1. ASSUME NEW i \in 1..Len(out), out[i].role = "assistant" PROVE Complete(out, i)
    <3>1. i # Len(ms) + 1
      BY <1>1, <1>3, <2>1
    <3>2. i \in 1..Len(ms)
      BY <1>1, <3>1
    <3> QED
      BY <1>2, <2>1, <3>2
  <2> QED
    BY <2>1 DEF AllAnswered
<1>4. AllAnswered(out, Len(ms))
  BY <1>2 DEF AllAnswered
<1> QED
  BY <1>3, <1>4 DEF out

\* The context of a run always begins with its first message.
Context(ms) == ms \in Seq(Message) /\ ms # <<>> /\ ms[1] = Sys("env")

LEMMA ContextAppend ==
  ASSUME NEW ms, Context(ms), NEW m \in Message
  PROVE  Context(Append(ms, m))
<1>1. Len(ms) \in Nat /\ Len(ms) >= 1
  BY EmptySeq, LenProperties DEF Context
<1>2. 1 \in 1..Len(ms)
  BY <1>1
<1> QED
  BY <1>2, AppendProperties DEF Context

LEMMA ContextReplaced ==
  ASSUME NEW ms, Context(ms), NEW tag \in Tag \ {"env"}, NEW out, out = Append(Without(ms, tag), Sys(tag))
  PROVE  /\ Context(out) /\ Core(out) = Core(ms)
         /\ AllAnswered(ms, Len(ms)) => AllAnswered(out, Len(out))
<1> DEFINE rest == Less(ms, {Sys(tag)})
<1>1. ms \in Seq(Message) /\ ms # <<>> /\ ms[1] = Sys("env")
  BY DEF Context
<1>2. Sys(tag) \in Message /\ Sys(tag) \in SysSet /\ {Sys(tag)} \in SUBSET SysSet /\ Sys(tag).role = "system"
  BY MessageFacts DEF SysSet
<1>3. ms[1] \notin {Sys(tag)}
  BY <1>1 DEF Sys, Msg
<1>4. rest \in Seq(Message) /\ Core(rest) = Core(ms) /\ rest # <<>> /\ rest[1] = ms[1]
  BY <1>1, <1>2, <1>3, LessType, CoreWithout, LessFirst
<1>5. AllAnswered(ms, Len(ms)) => AllAnswered(rest, Len(rest))
  BY <1>1, <1>2, LessAnswered
<1>6. out = Append(rest, Sys(tag))
  BY DEF Without
<1> HIDE DEF rest
<1>7. Context(rest)
  BY <1>1, <1>4 DEF Context
<1>8. Context(out) /\ Core(out) = Core(ms)
  BY <1>2, <1>4, <1>6, <1>7, ContextAppend, CoreAppend
<1>9. AllAnswered(rest, Len(rest)) => AllAnswered(out, Len(out))
  BY <1>2, <1>4, <1>6, AnsweredAppend
<1> QED
  BY <1>5, <1>8, <1>9

\* The calls of a round and their results.
LEMMA ContextResults ==
  ASSUME NEW ms, Context(ms), NEW n \in Nat, NEW id \in Nat, NEW more,
         more = [i \in 1..n |-> Msg("tool", id, i)],
         ms[Len(ms)] = Msg("assistant", id, n), AllAnswered(ms, Len(ms) - 1)
  PROVE  /\ more \in Seq(Message) /\ Context(ms \o more)
         /\ AllAnswered(ms \o more, Len(ms \o more))
<1> DEFINE out == ms \o more
<1>1. ms \in Seq(Message) /\ ms # <<>> /\ ms[1] = Sys("env") /\ Len(ms) \in Nat /\ Len(ms) >= 1
  BY EmptySeq, LenProperties DEF Context
<1>2. \A i \in 1..n : Msg("tool", id, i) \in Message
  BY MessageFacts
<1>3. more \in Seq(Message) /\ Len(more) = n /\ \A i \in 1..n : more[i] = Msg("tool", id, i)
  <2>1. more \in [1..n -> Message]
    BY <1>2
  <2> QED
    BY <2>1
<1>4. /\ out \in Seq(Message) /\ Len(out) = Len(ms) + n
      /\ \A i \in 1..Len(ms) + n : out[i] = IF i <= Len(ms) THEN ms[i] ELSE more[i - Len(ms)]
  BY <1>1, <1>3, ConcatProperties
<1> HIDE DEF out
<1>5. \A i \in 1..Len(ms) : out[i] = ms[i]
  <2>1. \A i \in 1..Len(ms) : i \in 1..Len(ms) + n /\ i <= Len(ms)
    BY <1>1
  <2> QED
    BY <1>4, <2>1
<1>6. \A j \in 1..n : out[Len(ms) + j] = Msg("tool", id, j)
  <2>1. \A j \in 1..n : /\ Len(ms) + j \in 1..Len(ms) + n /\ ~(Len(ms) + j <= Len(ms))
                        /\ (Len(ms) + j) - Len(ms) = j
    BY <1>1
  <2> QED
    BY <1>3, <1>4, <2>1
<1>7. Context(out)
  <2>1. out # <<>> /\ out[1] = ms[1]
    BY <1>1, <1>4, <1>5
  <2> QED
    BY <1>1, <1>4, <2>1 DEF Context
<1>8. ASSUME NEW i \in 1..Len(out), out[i].role = "assistant" PROVE Complete(out, i)
  <2>1. i <= Len(ms)
    <3> SUFFICES ASSUME ~(i <= Len(ms)) PROVE FALSE
      OBVIOUS
    <3>1. i - Len(ms) \in 1..n /\ Len(ms) + (i - Len(ms)) = i
      BY <1>1, <1>4
    <3>2. out[i] = Msg("tool", id, i - Len(ms))
      BY <1>6, <3>1
    <3>3. out[i].role = "tool"
      BY <3>2 DEF Msg
    <3> QED
      BY <1>8, <3>3
  <2>2. CASE i = Len(ms)
    <3>1. out[i] = Msg("assistant", id, n)
      BY <1>1, <1>5, <2>2
    <3>2. out[i].pos = n /\ out[i].id = id
      BY <3>1 DEF Msg
    <3>3. \A j \in 1..n : i + j <= Len(out) /\ out[i + j] = Msg("tool", id, j)
      BY <1>1, <1>4, <1>6, <2>2
    <3> QED
      BY <3>2, <3>3 DEF Complete
  <2>3. CASE i # Len(ms)
    <3>1. i \in 1..(Len(ms) - 1) /\ i \in 1..Len(ms) /\ out[i] = ms[i]
      BY <1>1, <1>5, <2>1, <2>3
    <3>2. Complete(ms, i)
      BY <1>8, <3>1 DEF AllAnswered
    <3>3. ms[i].pos \in Nat
      BY <1>1, <1>8, <3>1, ElementOfSeq, MessageFacts
    <3>4. ASSUME NEW j \in 1..ms[i].pos PROVE i + j <= Len(out) /\ out[i + j] = Msg("tool", ms[i].id, j)
      <4>1. i + j <= Len(ms) /\ ms[i + j] = Msg("tool", ms[i].id, j)
        BY <3>2 DEF Complete
      <4>2. i + j \in 1..Len(ms)
        BY <1>1, <3>3, <4>1
      <4> QED
        BY <1>1, <1>4, <1>5, <4>1, <4>2
    <3> QED
      BY <3>1, <3>4 DEF Complete
  <2> QED
    BY <2>2, <2>3
<1> QED
  BY <1>3, <1>7, <1>8 DEF out, AllAnswered

\* A fold cuts the context between its first message and the last ones.
LEMMA ContextFolded ==
  ASSUME LoopTypes, Len(msgs) - Keep > 2
  PROVE  /\ Context(Folded)
         /\ AllAnswered(msgs, Len(msgs)) => AllAnswered(Folded, Len(Folded))
<1> DEFINE n == Len(msgs)
           tail == SubSeq(msgs, n - Keep + 1, n)
           front == <<msgs[1], Sys("folded")>>
<1>1. msgs \in Seq(Message) /\ msgs[1] = Sys("env") /\ n \in Nat /\ Keep \in Nat /\ n - Keep > 2
  BY LoopAssumption, LenProperties DEF LoopTypes
<1>2. front \in Seq(Message) /\ Len(front) = 2 /\ front[1] = Sys("env") /\ front[2] = Sys("folded")
  <2>1. Sys("env") \in Message /\ Sys("folded") \in Message
    BY MessageFacts DEF Tag
  <2> QED
    BY <1>1, <2>1
<1>3. /\ tail \in Seq(Message) /\ Len(tail) = Keep
      /\ \A i \in 1..Keep : tail[i] = msgs[n - Keep + i]
  <2>1. \A i \in (n - Keep + 1)..n : msgs[i] \in Message
    <3>1. \A i \in (n - Keep + 1)..n : i \in 1..n
      BY <1>1
    <3> QED
      BY <1>1, <3>1, ElementOfSeq
  <2>2. n - Keep + 1 \in Int /\ n \in Int
    BY <1>1
  <2>3. /\ tail \in Seq(Message)
        /\ Len(tail) = IF n - Keep + 1 <= n THEN n - (n - Keep + 1) + 1 ELSE 0
        /\ \A i \in 1..(n - (n - Keep + 1) + 1) : tail[i] = msgs[(n - Keep + 1) + i - 1]
    BY <2>1, <2>2, SubSeqProperties
  <2> HIDE DEF tail, n
  <2>4. n - (n - Keep + 1) + 1 = Keep /\ \A i \in 1..Keep : (n - Keep + 1) + i - 1 = n - Keep + i
    BY <1>1
  <2>5. Len(tail) = Keep
    BY <1>1, <2>3, <2>4
  <2>6. \A i \in 1..Keep : tail[i] = msgs[n - Keep + i]
    BY <2>3, <2>4
  <2> QED
    BY <2>3, <2>5, <2>6
<1>4. Folded = front \o tail
  BY DEF Folded
<1> HIDE DEF n, tail, front
<1> DEFINE out == front \o tail
<1>5. /\ out \in Seq(Message) /\ Len(out) = 2 + Keep
      /\ \A i \in 1..(2 + Keep) : out[i] = IF i <= 2 THEN front[i] ELSE tail[i - 2]
  <2>1. /\ out \in Seq(Message) /\ Len(out) = Len(front) + Len(tail)
        /\ \A i \in 1..(Len(front) + Len(tail)) :
             out[i] = IF i <= Len(front) THEN front[i] ELSE tail[i - Len(front)]
    BY <1>2, <1>3, ConcatProperties
  <2>2. Len(front) = 2 /\ Len(tail) = Keep
    BY <1>2, <1>3
  <2> QED
    BY <2>1, <2>2
<1> HIDE DEF out
<1>6. out[1] = Sys("env") /\ out[2] = Sys("folded")
  <2>1. 1 \in 1..(2 + Keep) /\ 2 \in 1..(2 + Keep)
    BY <1>1
  <2> QED
    BY <1>2, <1>5, <2>1
<1>7. \A i \in 3..(2 + Keep) : out[i] = msgs[n - Keep + (i - 2)]
  <2>1. \A i \in 3..(2 + Keep) : i \in 1..(2 + Keep) /\ ~(i <= 2) /\ i - 2 \in 1..Keep
    BY <1>1
  <2>2. \A i \in 3..(2 + Keep) : out[i] = tail[i - 2]
    BY <1>5, <2>1
  <2> QED
    BY <1>3, <2>1, <2>2
<1>8. Context(out)
  <2>1. out # <<>>
    BY <1>1, <1>5
  <2> QED
    BY <1>5, <1>6, <2>1 DEF Context
<1>9. ASSUME AllAnswered(msgs, n), NEW i \in 1..Len(out), out[i].role = "assistant"
      PROVE  Complete(out, i)
  <2>1. i \in 3..(2 + Keep)
    <3>1. Sys("env").role # "assistant" /\ Sys("folded").role # "assistant"
      BY DEF Sys, Msg
    <3>2. i # 1 /\ i # 2
      BY <1>6, <1>9, <3>1
    <3> QED
      BY <1>1, <1>5, <3>2
  <2> DEFINE h == n - Keep + (i - 2)
  <2>2. h \in 1..n /\ out[i] = msgs[h]
    BY <1>1, <1>7, <2>1
  <2>3. Complete(msgs, h)
    BY <1>9, <2>2 DEF AllAnswered
  <2>4. msgs[h].pos \in Nat
    BY <1>1, <1>9, <2>2, ElementOfSeq, MessageFacts DEF n
  <2>5. ASSUME NEW j \in 1..msgs[h].pos PROVE i + j <= Len(out) /\ out[i + j] = Msg("tool", msgs[h].id, j)
    <3>1. h + j <= n /\ msgs[h + j] = Msg("tool", msgs[h].id, j)
      BY <2>3 DEF Complete, n
    <3>2. j \in Nat
      BY <2>4
    <3>3. i + j \in 3..(2 + Keep) /\ n - Keep + ((i + j) - 2) = h + j
      BY <1>1, <2>1, <3>1, <3>2
    <3>4. out[i + j] = msgs[n - Keep + ((i + j) - 2)]
      BY <1>7, <3>3
    <3> QED
      BY <1>1, <1>5, <3>1, <3>3, <3>4
  <2> HIDE DEF h
  <2> QED
    BY <2>2, <2>5 DEF Complete
<1> QED
  BY <1>4, <1>8, <1>9 DEF out, AllAnswered, n

-----------------------------------------------------------------------------
(* The steps of a run. *)

LEMMA LoopConstants ==
  /\ MaxCalls \in Nat /\ RoundCap \in Nat /\ Budget \in Nat /\ SubBudget \in Nat
  /\ Keep \in Nat /\ FoldGap \in Nat /\ MaxRetries \in Nat /\ FakeLimit \in Nat
  /\ LoopGuard \in Nat /\ StallN \in Nat /\ FailN \in Nat
BY LoopAssumption

LEMMA CallsType ==
  ASSUME NEW r \in Reply
  PROVE  /\ r.calls \in Seq(Tool) /\ Len(r.calls) \in Nat
         /\ DOMAIN r.calls = 1..Len(r.calls) /\ \A i \in 1..Len(r.calls) : r.calls[i] \in Tool
<1>1. r.calls \in UNION {[1..m -> Tool] : m \in 0..MaxCalls}
  BY DEF Reply, BoundedSeq, SeqOf
<1>2. PICK m \in 0..MaxCalls : r.calls \in [1..m -> Tool]
  BY <1>1
<1>3. m \in Nat
  BY LoopConstants, <1>2
<1>4. r.calls \in Seq(Tool)
  BY <1>2, <1>3
<1> QED
  BY <1>4

LEMMA LoopStarts == Init => LoopInv
<1> SUFFICES ASSUME Init PROVE LoopInv
  OBVIOUS
<1>1. msgs = <<Sys("env"), Msg("user", 0, 1), Msg("assistant", 0, 0), Msg("user", 0, 2)>>
  BY DEF Init
<1>2. Sys("env") \in Message /\ Msg("user", 0, 1) \in Message /\ Msg("assistant", 0, 0) \in Message
      /\ Msg("user", 0, 2) \in Message
  BY MessageFacts DEF Tag
<1>3. Context(msgs) /\ Len(msgs) = 4
  <2>1. msgs \in Seq(Message) /\ Len(msgs) = 4 /\ msgs[1] = Sys("env")
    BY <1>1, <1>2
  <2> QED
    BY <2>1 DEF Context
<1>4. AllAnswered(msgs, Len(msgs))
  <2>1. ASSUME NEW i \in 1..4, msgs[i].role = "assistant" PROVE Complete(msgs, i)
    <3>1. msgs[1].role = "system" /\ msgs[2].role = "user" /\ msgs[4].role = "user"
      BY <1>1 DEF Sys, Msg
    <3>2. i = 3
      BY <2>1, <3>1
    <3>3. msgs[i].pos = 0
      BY <1>1, <3>2 DEF Msg
    <3> QED
      BY <3>3 DEF Complete
  <2> QED
    BY <1>3, <2>1 DEF AllAnswered
<1>5. NoReply \in Reply
  <2>1. <<>> \in [1..0 -> Tool]
    OBVIOUS
  <2>2. <<>> \in UNION {[1..m -> Tool] : m \in 0..MaxCalls}
    BY SMTT(30), <2>1, LoopConstants
  <2> QED
    BY <2>2 DEF NoReply, Reply, BoundedSeq, SeqOf
<1>6. [t \in Tool |-> Unseen] \in [Tool -> Result \cup {Unseen}]
  OBVIOUS
<1>7. TypeOK
  <2>1. /\ pc = "head" /\ unattended \in BOOLEAN /\ aborted \in BOOLEAN /\ broke \in BOOLEAN
        /\ failWarned \in BOOLEAN /\ outcome = "none"
    BY DEF Init
  <2>2. /\ round \in Nat /\ cost \in Nat /\ overCalls \in Nat /\ same \in Nat /\ stalled \in Nat
        /\ fails \in Nat /\ ran \in Nat /\ saved \in Nat /\ attempt \in 0..MaxRetries
        /\ fakes \in 0..FakeLimit
    BY LoopConstants DEF Init
  <2>3. reply \in Reply /\ seen \in [Tool -> Result \cup {Unseen}]
    BY <1>5, <1>6 DEF Init
  <2> QED
    BY <2>1, <2>2, <2>3 DEF TypeOK
<1>8. LoopTypes
  <2>1. sent = <<>> /\ lastCalls = <<>> /\ turns = 0 /\ collapsedAt = -FoldGap
    BY DEF Init
  <2>2. sent \in Seq(Message) /\ lastCalls \in Seq(Tool) /\ turns \in Nat /\ collapsedAt \in Int
    BY <2>1, LoopConstants
  <2> QED
    BY <1>3, <1>7, <2>2 DEF LoopTypes, Context
<1>9. ContextKept
  <2>1. Core(msgs) \in Seq(Message) /\ sent \in Seq(Message) /\ Len(sent) = 0
    BY <1>3, <1>8, LessType, CoreIs DEF Context, LoopTypes, Init
  <2>2. Len(sent) <= Len(Core(msgs)) /\ \A i \in 1..Len(sent) : sent[i] = Core(msgs)[i]
    BY <2>1, LenProperties
  <2>3. IsPrefix(sent, Core(msgs))
    BY <2>1, <2>2, PrefixIs
  <2> QED
    BY <1>4, <2>3 DEF ContextKept, Init
<1>10. MoneyKept /\ RunsKept
  BY LoopConstants DEF Init, MoneyKept, RunsKept, FailuresWarned, UnverifiedMarked
<1> QED
  BY <1>8, <1>9, <1>10 DEF LoopInv

\* What a step that does not touch the context keeps of it.
LEMMA StopKept == LoopInv /\ Stop => LoopInv'
<1> SUFFICES ASSUME LoopInv, Stop PROVE LoopInv'
  OBVIOUS
<1>1. UNCHANGED <<pc, unattended, round, attempt, reply, context, money, guards, trace, outcome>>
      /\ aborted' = TRUE
  BY DEF Stop
<1>2. LoopTypes'
  BY <1>1 DEF LoopInv, LoopTypes, TypeOK, context, money, guards, trace
<1>3. ContextKept'
  BY <1>1 DEF LoopInv, ContextKept, context
<1>4. MoneyKept' /\ RunsKept'
  BY <1>1 DEF LoopInv, MoneyKept, RunsKept, FailuresWarned, UnverifiedMarked, money, guards, trace,
    Exhausted
<1> QED
  BY <1>2, <1>3, <1>4 DEF LoopInv

LEMMA HeadKept == LoopInv /\ RoundHead => LoopInv'
<1> SUFFICES ASSUME LoopInv, RoundHead PROVE LoopInv'
  OBVIOUS
<1>1. UNCHANGED <<unattended, aborted, round, attempt, reply, sent, collapsedAt, broke, money, guards,
                  trace>> /\ pc = "head"
  BY DEF RoundHead
<1>2. \/ pc' = "ended" /\ outcome' \in {"stopped", "budget-sub", "fuse"} /\ msgs' = msgs
      \/ /\ pc' = "fold" /\ outcome' = outcome
         /\ msgs' = Append(Without(msgs, "snapshot"), Sys("snapshot"))
  BY DEF RoundHead, End
<1>3. LoopTypes /\ ContextKept /\ MoneyKept /\ RunsKept
  BY DEF LoopInv
<1>4. Context(msgs)
  BY <1>3 DEF LoopTypes, Context
<1>5. /\ Context(msgs') /\ Core(msgs') = Core(msgs)
      /\ AllAnswered(msgs, Len(msgs)) => AllAnswered(msgs', Len(msgs'))
  <2>1. CASE msgs' = msgs
    BY <1>4, <2>1
  <2>2. CASE msgs' = Append(Without(msgs, "snapshot"), Sys("snapshot"))
    <3>1. "snapshot" \in Tag \ {"env"}
      BY DEF Tag
    <3>2. \A tag \in Tag \ {"env"} : \A out :
            out = Append(Without(msgs, tag), Sys(tag)) =>
              /\ Context(out) /\ Core(out) = Core(msgs)
              /\ AllAnswered(msgs, Len(msgs)) => AllAnswered(out, Len(out))
      BY <1>4, ContextReplaced
    <3> QED
      BY <2>2, <3>1, <3>2
  <2> QED
    BY <1>2, <2>1, <2>2
<1>6. TypeOK'
  BY <1>1, <1>2, <1>3 DEF LoopTypes, TypeOK, money, guards, trace
<1>7. LoopTypes'
  BY <1>1, <1>3, <1>5, <1>6 DEF LoopTypes, Context, guards
<1>8. ContextKept'
  BY <1>1, <1>2, <1>3, <1>5 DEF ContextKept
<1>9. MoneyKept'
  BY <1>1, <1>2, <1>3 DEF MoneyKept, money, Exhausted
<1>10. RunsKept'
  BY <1>1, <1>2, <1>3 DEF RunsKept, FailuresWarned, UnverifiedMarked, guards, trace
<1> QED
  BY <1>7, <1>8, <1>9, <1>10 DEF LoopInv

LEMMA FoldKept == LoopInv /\ Fold => LoopInv'
<1> SUFFICES ASSUME LoopInv, Fold PROVE LoopInv'
  OBVIOUS
<1>1. UNCHANGED <<unattended, aborted, round, attempt, reply, sent, broke, overCalls, guards, trace,
                  outcome>> /\ pc = "fold" /\ pc' = "send"
  BY DEF Fold
<1>2. \/ UNCHANGED <<msgs, collapsedAt, cost>>
      \/ /\ Len(msgs) - Keep > 2 /\ msgs' = Folded /\ collapsedAt' = round
         /\ \E c \in 0..2 : cost' = cost + c
  BY DEF Fold, CanFold, FoldRound
<1>3. LoopTypes /\ ContextKept /\ MoneyKept /\ RunsKept
  BY DEF LoopInv
<1>4. Context(msgs) /\ collapsedAt \in Int /\ round \in Nat /\ cost \in Nat
  BY <1>3 DEF LoopTypes, Context, TypeOK
<1>5. /\ Context(msgs') /\ collapsedAt' \in Int /\ cost' \in Nat
      /\ AllAnswered(msgs, Len(msgs)) => AllAnswered(msgs', Len(msgs'))
      /\ msgs' = msgs \/ collapsedAt' = round
  <2>1. CASE UNCHANGED <<msgs, collapsedAt, cost>>
    BY <1>4, <2>1
  <2>2. CASE /\ Len(msgs) - Keep > 2 /\ msgs' = Folded /\ collapsedAt' = round
             /\ \E c \in 0..2 : cost' = cost + c
    <3>1. Context(Folded) /\ (AllAnswered(msgs, Len(msgs)) => AllAnswered(Folded, Len(Folded)))
      BY <1>3, <2>2, ContextFolded
    <3>2. collapsedAt' \in Int /\ cost' \in Nat
      BY <1>4, <2>2
    <3> QED
      BY <2>2, <3>1, <3>2
  <2> QED
    BY <1>2, <2>1, <2>2
<1>6. TypeOK'
  BY <1>1, <1>3, <1>5 DEF LoopTypes, TypeOK, guards, trace
<1>7. LoopTypes'
  BY <1>1, <1>3, <1>5, <1>6 DEF LoopTypes, Context, guards
<1>8. ContextKept'
  BY <1>1, <1>3, <1>5 DEF ContextKept
<1>9. MoneyKept'
  BY <1>1, <1>3 DEF MoneyKept
<1>10. RunsKept'
  BY <1>1, <1>3 DEF RunsKept, FailuresWarned, UnverifiedMarked, guards, trace
<1> QED
  BY <1>7, <1>8, <1>9, <1>10 DEF LoopInv

LEMMA SendKept == LoopInv /\ Send => LoopInv'
<1> SUFFICES ASSUME LoopInv, Send PROVE LoopInv'
  OBVIOUS
<1>1. UNCHANGED <<unattended, aborted, round, reply, msgs, collapsedAt, cost, guards, trace>>
      /\ pc = "send" /\ attempt' = 0 /\ sent' = Core(msgs)
      /\ broke' = (broke \/ (~IsPrefix(sent, Core(msgs)) /\ collapsedAt # round))
  BY DEF Send
<1>2. \/ pc' = "ended" /\ outcome' = "stopped" /\ overCalls' = overCalls
      \/ /\ pc' = "calling" /\ outcome' = outcome
         /\ overCalls' = IF Budget > 0 /\ cost > Budget THEN overCalls + 1 ELSE overCalls
  BY DEF Send, End
<1>3. LoopTypes /\ ContextKept /\ MoneyKept /\ RunsKept
  BY DEF LoopInv
<1>4. msgs \in Seq(Message) /\ Core(msgs) \in Seq(Message) /\ overCalls \in Nat /\ overCalls = 0
  BY <1>1, <1>3, LessType, CoreIs DEF LoopTypes, TypeOK, MoneyKept
<1>5. broke' = FALSE
  BY <1>1, <1>3 DEF ContextKept
<1>6. overCalls' \in Nat
  BY <1>2, <1>4
<1>7. TypeOK'
  BY <1>1, <1>2, <1>3, <1>5, <1>6, LoopConstants DEF LoopTypes, TypeOK, guards, trace
<1>8. LoopTypes'
  BY <1>1, <1>3, <1>4, <1>7 DEF LoopTypes, guards
<1>9. IsPrefix(sent', Core(msgs'))
  BY <1>1, <1>4, PrefixSame
<1>10. ContextKept'
  BY <1>1, <1>2, <1>3, <1>5, <1>9 DEF ContextKept
<1>11. MoneyKept'
  BY <1>1, <1>2, <1>4 DEF MoneyKept, Exhausted
<1>12. RunsKept'
  BY <1>1, <1>2, <1>3 DEF RunsKept, FailuresWarned, UnverifiedMarked, guards, trace
<1> QED
  BY <1>8, <1>10, <1>11, <1>12 DEF LoopInv

\* A reply is charged, and taken unless the budget is spent.
LEMMA RepliedFacts ==
  ASSUME LoopTypes, Replied
  PROVE  /\ reply' \in Reply /\ cost' \in Nat
         /\ \/ pc' = "ended" /\ outcome' = "budget" /\ Exhausted(cost')
            \/ pc' \in {"answer", "guards"} /\ outcome' = outcome /\ ~Exhausted(cost')
         /\ Exhausted(cost) => Exhausted(cost')
<1>1. PICK r \in Replies, c \in 0..1 :
        /\ reply' = r /\ cost' = cost + c
        /\ IF Exhausted(cost') THEN End("budget")
           ELSE pc' = (IF r.calls = <<>> THEN "answer" ELSE "guards") /\ UNCHANGED outcome
  BY DEF Replied
<1>2. cost \in Nat /\ Budget \in Nat
  BY LoopConstants DEF LoopTypes, TypeOK
<1>3. reply' \in Reply /\ cost' \in Nat /\ cost' >= cost
  BY <1>1, <1>2 DEF Replies
<1>4. Exhausted(cost) => Exhausted(cost')
  BY <1>2, <1>3 DEF Exhausted
<1>5. \/ pc' = "ended" /\ outcome' = "budget" /\ Exhausted(cost')
      \/ pc' \in {"answer", "guards"} /\ outcome' = outcome /\ ~Exhausted(cost')
  BY <1>1 DEF End
<1> QED
  BY <1>3, <1>4, <1>5

LEMMA RepliesKept == LoopInv /\ ModelReplies => LoopInv'
<1> SUFFICES ASSUME LoopInv, ModelReplies PROVE LoopInv'
  OBVIOUS
<1>1. UNCHANGED <<unattended, aborted, round, attempt, context, overCalls, guards, trace>>
      /\ pc = "calling" /\ Replied
  BY DEF ModelReplies
<1>2. LoopTypes /\ ContextKept /\ MoneyKept /\ RunsKept
  BY DEF LoopInv
<1>3. /\ reply' \in Reply /\ cost' \in Nat
      /\ \/ pc' = "ended" /\ outcome' = "budget" /\ Exhausted(cost')
         \/ pc' \in {"answer", "guards"} /\ outcome' = outcome /\ ~Exhausted(cost')
      /\ Exhausted(cost) => Exhausted(cost')
  BY <1>1, <1>2, RepliedFacts
<1>4. outcome = "none"
  BY <1>1, <1>2 DEF LoopTypes, TypeOK
<1>5. TypeOK'
  BY <1>1, <1>2, <1>3 DEF LoopTypes, TypeOK, context, guards, trace
<1>6. LoopTypes'
  BY <1>1, <1>2, <1>5 DEF LoopTypes, context, guards
<1>7. ContextKept'
  BY <1>1, <1>2, <1>3 DEF ContextKept, context
<1>8. MoneyKept'
  BY <1>1, <1>2, <1>3 DEF MoneyKept
<1>9. RunsKept'
  BY <1>1, <1>2, <1>3, <1>4 DEF RunsKept, FailuresWarned, UnverifiedMarked, guards, trace
<1> QED
  BY <1>6, <1>7, <1>8, <1>9 DEF LoopInv

LEMMA FailsKept == LoopInv /\ ModelFails => LoopInv'
<1> SUFFICES ASSUME LoopInv, ModelFails PROVE LoopInv'
  OBVIOUS
<1>1. UNCHANGED <<unattended, aborted, round, reply, context, money, guards, trace>> /\ pc = "calling"
  BY DEF ModelFails
<1>2. \/ pc' = "ended" /\ outcome' = "stopped" /\ attempt' = attempt
      \/ pc' = "waiting" /\ outcome' = outcome /\ attempt < MaxRetries /\ attempt' = attempt + 1
      \/ pc' = "fallback" /\ outcome' = outcome /\ attempt' = attempt
  BY DEF ModelFails, End, Attempts
<1>3. LoopTypes /\ ContextKept /\ MoneyKept /\ RunsKept
  BY DEF LoopInv
<1>4. attempt' \in 0..MaxRetries
  BY <1>2, <1>3, LoopConstants DEF LoopTypes, TypeOK
<1>5. TypeOK'
  BY <1>1, <1>2, <1>3, <1>4 DEF LoopTypes, TypeOK, context, money, guards, trace
<1>6. LoopTypes'
  BY <1>1, <1>3, <1>5 DEF LoopTypes, context, guards
<1>7. ContextKept'
  BY <1>1, <1>2, <1>3 DEF ContextKept, context
<1>8. MoneyKept'
  BY <1>1, <1>2, <1>3 DEF MoneyKept, money, Exhausted
<1>9. RunsKept'
  BY <1>1, <1>2, <1>3 DEF RunsKept, FailuresWarned, UnverifiedMarked, guards, trace
<1> QED
  BY <1>6, <1>7, <1>8, <1>9 DEF LoopInv

LEMMA RetryKept == LoopInv /\ Retry => LoopInv'
<1> SUFFICES ASSUME LoopInv, Retry PROVE LoopInv'
  OBVIOUS
<1>1. UNCHANGED <<unattended, aborted, round, attempt, reply, context, cost, overCalls, guards, trace>>
      /\ pc = "waiting"
  BY DEF Retry
<1>2. \/ pc' = "ended" /\ outcome' = "stopped"
      \/ pc' = "calling" /\ outcome' = outcome
  BY DEF Retry, End
<1>3. LoopTypes /\ ContextKept /\ MoneyKept /\ RunsKept
  BY DEF LoopInv
<1>5. TypeOK'
  BY <1>1, <1>2, <1>3 DEF LoopTypes, TypeOK, context, guards, trace
<1>6. LoopTypes'
  BY <1>1, <1>3, <1>5 DEF LoopTypes, context, guards
<1>7. ContextKept'
  BY <1>1, <1>2, <1>3 DEF ContextKept, context
<1>8. MoneyKept'
  BY <1>1, <1>2, <1>3 DEF MoneyKept, Exhausted
<1>9. RunsKept'
  BY <1>1, <1>2, <1>3 DEF RunsKept, FailuresWarned, UnverifiedMarked, guards, trace
<1> QED
  BY <1>6, <1>7, <1>8, <1>9 DEF LoopInv

LEMMA FallbackKept == LoopInv /\ Fallback => LoopInv'
<1> SUFFICES ASSUME LoopInv, Fallback PROVE LoopInv'
  OBVIOUS
<1>1. UNCHANGED <<unattended, aborted, round, attempt, context, overCalls, guards, trace>>
      /\ pc = "fallback"
  BY DEF Fallback
<1>2. LoopTypes /\ ContextKept /\ MoneyKept /\ RunsKept
  BY DEF LoopInv
<1>3. /\ reply' \in Reply /\ cost' \in Nat
      /\ \/ pc' = "ended" /\ outcome' \in {"budget", "stopped", "error"}
         \/ pc' \in {"answer", "guards"} /\ outcome' = outcome /\ ~Exhausted(cost')
      /\ Exhausted(cost) => Exhausted(cost')
  <2>1. CASE Replied
    BY <1>2, <2>1, RepliedFacts
  <2>2. CASE End("stopped") /\ UNCHANGED <<reply, cost>>
    BY <1>2, <2>2 DEF End, LoopTypes, TypeOK, Exhausted
  <2>3. CASE End("error") /\ UNCHANGED <<reply, cost>>
    BY <1>2, <2>3 DEF End, LoopTypes, TypeOK, Exhausted
  <2> QED
    BY <2>1, <2>2, <2>3 DEF Fallback
<1>4. outcome = "none"
  BY <1>1, <1>2 DEF LoopTypes, TypeOK
<1>5. TypeOK'
  BY <1>1, <1>2, <1>3 DEF LoopTypes, TypeOK, context, guards, trace
<1>6. LoopTypes'
  BY <1>1, <1>2, <1>5 DEF LoopTypes, context, guards
<1>7. ContextKept'
  BY <1>1, <1>2, <1>3 DEF ContextKept, context
<1>8. MoneyKept'
  BY <1>1, <1>2, <1>3 DEF MoneyKept
<1>9. RunsKept'
  BY <1>1, <1>2, <1>3, <1>4 DEF RunsKept, FailuresWarned, UnverifiedMarked, guards, trace
<1> QED
  BY <1>6, <1>7, <1>8, <1>9 DEF LoopInv

LEMMA AnswerKept == LoopInv /\ Answer => LoopInv'
<1> SUFFICES ASSUME LoopInv, Answer PROVE LoopInv'
  OBVIOUS
<1>1. UNCHANGED <<unattended, aborted, attempt, reply, sent, collapsedAt, broke, overCalls, lastCalls,
                  turns, same, seen, stalled, fails, failWarned, trace>> /\ pc = "answer"
  BY DEF Answer
<1>2. \E c \in 0..1 : cost' = cost + IF reply.long THEN c ELSE 0
  BY DEF Answer
<1>3. \/ /\ fakes < FakeLimit /\ fakes' = fakes + 1 /\ round' = round + 1 /\ pc' = "head"
         /\ msgs' = Append(msgs, Sys("retry")) /\ outcome' = outcome
      \/ /\ pc' = "ended" /\ fakes' = fakes /\ round' = round /\ msgs' = msgs
         /\ outcome' \in {"marked", "thought", "answer"}
         /\ outcome' = "answer" => ~Unverified
  <2>1. CASE Unverified /\ SentBack
    BY <2>1 DEF Answer, SentBack
  <2>2. CASE ~(Unverified /\ SentBack)
    <3>1. /\ End(IF Unverified THEN "marked"
                 ELSE IF reply.said = "nothing" /\ ran = 0 THEN "thought" ELSE "answer")
          /\ UNCHANGED <<fakes, round, msgs>>
      BY <2>2 DEF Answer
    <3> QED
      BY <3>1 DEF End
  <2> QED
    BY <2>1, <2>2
<1>4. LoopTypes /\ ContextKept /\ MoneyKept /\ RunsKept
  BY DEF LoopInv
<1>5. Context(msgs) /\ cost \in Nat /\ round \in Nat /\ fakes \in 0..FakeLimit /\ outcome = "none"
      /\ FakeLimit \in Nat
  BY <1>1, <1>4, LoopConstants DEF LoopTypes, Context, TypeOK
<1>6. cost' \in Nat
  BY <1>2, <1>5
<1>7. round' \in Nat /\ fakes' \in 0..FakeLimit
  BY <1>3, <1>5
<1>8. /\ Context(msgs') /\ Core(msgs') = Core(msgs)
      /\ AllAnswered(msgs, Len(msgs)) => AllAnswered(msgs', Len(msgs'))
  <2>1. CASE msgs' = msgs
    BY <1>5, <2>1
  <2>2. CASE msgs' = Append(msgs, Sys("retry"))
    <3>1. Sys("retry") \in Message /\ Sys("retry") \in SysSet /\ Sys("retry").role # "assistant"
      BY MessageFacts DEF Tag, SysSet
    <3>2. msgs \in Seq(Message)
      BY <1>5 DEF Context
    <3> QED
      BY <1>5, <2>2, <3>1, <3>2, ContextAppend, CoreAppend, AnsweredAppend
  <2> QED
    BY <1>3, <2>1, <2>2
<1>9. TypeOK'
  BY <1>1, <1>3, <1>4, <1>6, <1>7 DEF LoopTypes, TypeOK, trace
<1>10. LoopTypes'
  BY <1>1, <1>4, <1>8, <1>9 DEF LoopTypes, Context
<1>11. ContextKept'
  BY <1>1, <1>3, <1>4, <1>8 DEF ContextKept
<1>12. MoneyKept'
  BY <1>1, <1>4 DEF MoneyKept
<1>13. RunsKept'
  <2>1. FailuresWarned'
    BY <1>1, <1>3, <1>4, <1>5 DEF FailuresWarned
  <2>2. ran \in Nat /\ ran' = ran /\ reply' = reply
    BY <1>1, <1>4 DEF LoopTypes, TypeOK, trace
  <2>3. outcome' = "answer" => ~(reply.said = "claim" /\ ran = 0 /\ FakeLimit > 0)
    BY <1>3, <1>5 DEF Unverified
  <2>4. UnverifiedMarked'
    BY <2>2, <2>3 DEF UnverifiedMarked
  <2> QED
    BY <1>1, <1>3, <1>4, <2>1, <2>4 DEF RunsKept, trace
<1> QED
  BY <1>10, <1>11, <1>12, <1>13 DEF LoopInv

LEMMA GuardKept == LoopInv /\ Guard => LoopInv'
<1> SUFFICES ASSUME LoopInv, Guard PROVE LoopInv'
  OBVIOUS
<1>1. UNCHANGED <<unattended, aborted, round, attempt, reply, sent, collapsedAt, broke, money, seen,
                  stalled, fails, failWarned, fakes, trace>>
      /\ pc = "guards" /\ same' = Repeats /\ lastCalls' = reply.calls /\ turns' = turns + 1
  BY DEF Guard
<1>2. \/ pc' = "ended" /\ outcome' = "repeat" /\ msgs' = msgs
      \/ /\ pc' = "tools" /\ outcome' = outcome
         /\ msgs' = Append(msgs, Msg("assistant", round, Len(reply.calls)))
  BY DEF Guard, End
<1>3. LoopTypes /\ ContextKept /\ MoneyKept /\ RunsKept
  BY DEF LoopInv
<1>4. /\ Context(msgs) /\ round \in Nat /\ turns \in Nat /\ same \in Nat /\ outcome = "none"
      /\ reply \in Reply
  BY <1>1, <1>3 DEF LoopTypes, Context, TypeOK
<1>5. reply.calls \in Seq(Tool) /\ Len(reply.calls) \in Nat
  BY <1>4, CallsType
<1>6. same' \in Nat /\ lastCalls' \in Seq(Tool) /\ turns' \in Nat
  BY <1>1, <1>4, <1>5 DEF Repeats
<1> DEFINE m == Msg("assistant", round, Len(reply.calls))
<1>7. m \in Message /\ msgs \in Seq(Message)
  BY <1>4, <1>5, MessageFacts DEF Context
<1>8. CASE pc' = "ended"
  <2>1. msgs' = msgs /\ outcome' = "repeat"
    BY <1>2, <1>8
  <2>2. TypeOK'
    BY <1>1, <1>3, <1>6, <1>8, <2>1 DEF LoopTypes, TypeOK, money, trace
  <2>3. LoopTypes'
    BY <1>1, <1>3, <1>6, <2>1, <2>2 DEF LoopTypes
  <2>4. ContextKept' /\ MoneyKept'
    BY <1>1, <1>3, <1>8 DEF ContextKept, MoneyKept, money
  <2>5. RunsKept'
    BY <1>1, <1>3, <1>8, <2>1 DEF RunsKept, FailuresWarned, UnverifiedMarked, trace
  <2> QED
    BY <2>3, <2>4, <2>5 DEF LoopInv
<1>9. CASE pc' = "tools"
  <2>1. msgs' = Append(msgs, m) /\ outcome' = outcome
    BY <1>2, <1>9
  <2>2. /\ Len(msgs) \in Nat /\ Len(msgs') = Len(msgs) + 1 /\ msgs'[Len(msgs) + 1] = m
    BY <1>7, <2>1, AppendProperties, LenProperties
  <2>3. AllAnswered(msgs, Len(msgs)) => AllAnswered(msgs', Len(msgs))
    BY <1>7, <2>1, AnsweredAppend
  <2>4. Context(msgs') /\ IsPrefix(Core(msgs), Core(msgs'))
    BY <1>4, <1>7, <2>1, ContextAppend, CoreAppend
  <2>5. TypeOK'
    BY <1>1, <1>3, <1>6, <1>9, <2>1 DEF LoopTypes, TypeOK, money, trace
  <2>6. LoopTypes'
    BY <1>1, <1>3, <1>6, <2>4, <2>5 DEF LoopTypes, Context
  <2>7. IsPrefix(sent', Core(msgs'))
    <3>1. sent \in Seq(Message) /\ Core(msgs) \in Seq(Message) /\ Core(msgs') \in Seq(Message)
      BY <1>3, <1>7, <2>4, LessType, CoreIs DEF LoopTypes, Context
    <3>2. IsPrefix(sent, Core(msgs))
      BY <1>1, <1>3 DEF ContextKept
    <3> QED
      BY <1>1, <2>4, <3>1, <3>2, PrefixTrans
  <2>8. msgs'[Len(msgs')] = Msg("assistant", round', Len(reply'.calls))
    BY <1>1, <2>2
  <2>9. Len(msgs') - 1 = Len(msgs)
    BY <2>2
  <2>10. AllAnswered(msgs', Len(msgs') - 1)
    BY <1>1, <1>3, <2>3, <2>9 DEF ContextKept
  <2>11. ContextKept'
    BY <1>1, <1>3, <1>9, <2>7, <2>8, <2>10 DEF ContextKept
  <2>12. MoneyKept'
    BY <1>1, <1>3 DEF MoneyKept, money
  <2>13. RunsKept'
    BY <1>1, <1>3, <1>4, <1>9, <2>1 DEF RunsKept, FailuresWarned, UnverifiedMarked, trace
  <2> QED
    BY <2>6, <2>11, <2>12, <2>13 DEF LoopInv
<1> QED
  BY <1>2, <1>8, <1>9

LEMMA LastOfType ==
  ASSUME LoopTypes, NEW results \in [DOMAIN reply.calls -> Result], NEW t \in Tool
  PROVE  LastOf(t, Len(reply.calls), results) \in Result \cup {Unseen}
<1> DEFINE n == Len(reply.calls)
           at == CallsOf(t, n)
<1>1. n \in Nat /\ DOMAIN reply.calls = 1..n /\ seen \in [Tool -> Result \cup {Unseen}]
  BY CallsType DEF LoopTypes, TypeOK
<1>2. at \subseteq 1..n
  BY DEF CallsOf
<1>3. CASE at = {}
  BY <1>1, <1>3 DEF LastOf
<1>4. CASE at # {}
  <2> DEFINE last == CHOOSE i \in at : \A k \in at : k <= i
  <2>1. \E i \in at : \A k \in at : k <= i
    <3> DEFINE S == {n - i : i \in at}
    <3>1. S \in SUBSET Nat /\ S # {}
      BY <1>1, <1>2, <1>4
    <3>2. PICK x \in S : \A y \in S : x <= y
      <4> HIDE DEF S
      <4> QED
        BY <3>1, LeastNat
    <3>3. PICK i \in at : x = n - i
      BY <3>2
    <3>4. \A k \in at : n - i <= n - k
      BY <3>2, <3>3
    <3>5. \A k \in at : k \in 1..n /\ i \in 1..n
      BY <1>2
    <3>6. \A k \in at : k <= i
      BY <1>1, <3>4, <3>5
    <3> QED
      BY <3>6
  <2>2. last \in at
    BY <2>1
  <2>3. LastOf(t, n, results) = results[last]
    BY <1>4 DEF LastOf
  <2> HIDE DEF last
  <2> QED
    BY <1>1, <1>2, <2>2, <2>3
<1> QED
  BY <1>3, <1>4

LEMMA ToolsKept == LoopInv /\ Tools => LoopInv'
<1> SUFFICES ASSUME LoopInv, Tools PROVE LoopInv'
  OBVIOUS
<1>1. UNCHANGED <<unattended, aborted, attempt, sent, collapsedAt, broke, money, lastCalls, turns, same,
                  fakes>> /\ pc = "tools"
  BY DEF Tools
<1>2. LoopTypes /\ ContextKept /\ MoneyKept /\ RunsKept
  BY DEF LoopInv
<1> DEFINE n == Len(reply.calls)
<1>3. /\ Context(msgs) /\ round \in Nat /\ turns \in Nat /\ stalled \in Nat /\ fails \in Nat /\ ran \in Nat
      /\ outcome = "none" /\ failWarned \in BOOLEAN /\ n \in Nat /\ DOMAIN reply.calls = 1..n
  BY <1>1, <1>2, CallsType DEF LoopTypes, Context, TypeOK
<1>4. StallN \in Nat /\ FailN \in Nat
  BY LoopConstants
<1>5. PICK results \in [DOMAIN reply.calls -> Result] :
       LET judged == Judged(results)
           idle   == IF judged.progress THEN 0 ELSE stalled + 1
           failed == IF \E i \in DOMAIN results : results[i].ok THEN 0
                                                                ELSE fails + 1
           answers == Answers(results)
       IN /\ seen' = judged.seen /\ stalled' = idle
          /\ ran' = ran + 1 /\ saved' = Checkpoint /\ reply' = NoReply
          /\ \/ /\ StallN > 0 /\ idle >= StallN
                /\ End("stall") /\ msgs' = msgs \o answers
                /\ UNCHANGED <<fails, failWarned, round>>
             \/ /\ ~(StallN > 0 /\ idle >= StallN)
                /\ fails' = IF FailN > 0 THEN failed ELSE fails
                /\ failWarned' = \/ failWarned
                                 \/ FailN > 0 /\ Warns(failed)
                /\ IF FailN > 0 /\ failed >= 2 * FailN
                   THEN /\ End("fails") /\ msgs' = msgs \o answers
                        /\ UNCHANGED round
                   ELSE /\ pc' = "head" /\ round' = round + 1
                        /\ msgs' = Append(Without(msgs \o answers, "hint"),
                                          Sys("hint"))
                        /\ UNCHANGED outcome
  BY DEF Tools
<1> DEFINE judged == Judged(results)
           idle   == IF judged.progress THEN 0 ELSE stalled + 1
           failed == IF \E i \in DOMAIN results : results[i].ok THEN 0 ELSE fails + 1
           answers == Answers(results)
           out == msgs \o answers
<1>6. /\ seen' = judged.seen /\ stalled' = idle
      /\ ran' = ran + 1 /\ saved' = turns /\ reply' = NoReply
  BY <1>5 DEF Checkpoint
<1>7. \/ /\ pc' = "ended" /\ outcome' = "stall" /\ msgs' = out
         /\ fails' = fails /\ failWarned' = failWarned /\ round' = round
      \/ /\ fails' = IF FailN > 0 THEN failed ELSE fails
         /\ failWarned' = (failWarned \/ (FailN > 0 /\ Warns(failed)))
         /\ \/ /\ FailN > 0 /\ failed >= 2 * FailN
               /\ pc' = "ended" /\ outcome' = "fails" /\ msgs' = out /\ round' = round
            \/ /\ ~(FailN > 0 /\ failed >= 2 * FailN)
               /\ pc' = "head" /\ round' = round + 1 /\ outcome' = outcome
               /\ msgs' = Append(Without(out, "hint"), Sys("hint"))
  BY <1>5 DEF End
<1>8. seen' \in [Tool -> Result \cup {Unseen}]
  <2>1. judged.seen = [t \in Tool |-> LastOf(t, n, results)]
    BY DEF Judged
  <2>2. \A t \in Tool : LastOf(t, n, results) \in Result \cup {Unseen}
    BY <1>2, LastOfType
  <2> QED
    BY <1>6, <2>1, <2>2
<1>9. idle \in Nat /\ failed \in Nat /\ (failed = 0 \/ failed = fails + 1)
  BY <1>3
<1>10. NoReply \in Reply
  <2>1. <<>> \in [1..0 -> Tool]
    OBVIOUS
  <2>2. <<>> \in UNION {[1..m -> Tool] : m \in 0..MaxCalls}
    BY SMTT(30), <2>1, LoopConstants
  <2> QED
    BY <2>2 DEF NoReply, Reply, BoundedSeq, SeqOf
<1>11. answers = [i \in 1..n |-> Msg("tool", round, i)]
  <2>1. DOMAIN results = 1..n
    BY <1>3
  <2> QED
    BY <2>1 DEF Answers
<1>12. msgs[Len(msgs)] = Msg("assistant", round, n) /\ AllAnswered(msgs, Len(msgs) - 1)
       /\ IsPrefix(sent, Core(msgs)) /\ ~broke
  BY <1>1, <1>2 DEF ContextKept
<1> HIDE DEF judged, idle, failed, answers, out
<1>13. answers \in Seq(Message) /\ Context(out) /\ AllAnswered(out, Len(out))
  <2> HIDE DEF n
  <2> QED
    BY <1>3, <1>11, <1>12, ContextResults DEF out, n
<1>14. IsPrefix(sent, Core(out))
  <2>1. msgs \in Seq(Message) /\ sent \in Seq(Message) /\ out \in Seq(Message)
    BY <1>2, <1>13 DEF Context, LoopTypes
  <2>2. Core(msgs) \in Seq(Message) /\ Core(out) \in Seq(Message)
    BY <2>1, LessType, CoreIs
  <2>3. IsPrefix(Core(msgs), Core(out))
    BY <1>13, <2>1, CoreConcat DEF out
  <2> QED
    BY <1>12, <2>1, <2>2, <2>3, PrefixTrans
<1>15. /\ Context(msgs') /\ IsPrefix(sent', Core(msgs')) /\ AllAnswered(msgs', Len(msgs'))
  <2>1. CASE msgs' = out
    BY <1>1, <1>13, <1>14, <2>1
  <2>2. CASE msgs' = Append(Without(out, "hint"), Sys("hint"))
    <3>1. "hint" \in Tag \ {"env"}
      BY DEF Tag
    <3>2. \A tag \in Tag \ {"env"} : \A after :
            after = Append(Without(out, tag), Sys(tag)) =>
              /\ Context(after) /\ Core(after) = Core(out)
              /\ AllAnswered(out, Len(out)) => AllAnswered(after, Len(after))
      BY <1>13, ContextReplaced
    <3> QED
      BY <1>1, <1>13, <1>14, <2>2, <3>1, <3>2
  <2> QED
    BY <1>7, <2>1, <2>2
<1>16. /\ fails' \in Nat /\ failWarned' \in BOOLEAN /\ round' \in Nat
       /\ FailN > 0 /\ fails' >= FailN => failWarned'
       /\ FailN > 0 /\ pc' # "ended" => fails' < 2 * FailN
       /\ FailN = 0 => fails' = 0
       /\ outcome' = "fails" => failWarned'
  <2>1. /\ FailN > 0 /\ fails >= FailN => failWarned
        /\ FailN > 0 => fails < 2 * FailN
        /\ FailN = 0 => fails = 0
    BY <1>1, <1>2 DEF RunsKept
  <2>2. CASE /\ pc' = "ended" /\ outcome' = "stall" /\ msgs' = out
             /\ fails' = fails /\ failWarned' = failWarned /\ round' = round
    BY <1>3, <2>1, <2>2
  <2>3. CASE /\ fails' = IF FailN > 0 THEN failed ELSE fails
             /\ failWarned' = (failWarned \/ (FailN > 0 /\ Warns(failed)))
             /\ \/ /\ FailN > 0 /\ failed >= 2 * FailN
                   /\ pc' = "ended" /\ outcome' = "fails" /\ msgs' = out /\ round' = round
                \/ /\ ~(FailN > 0 /\ failed >= 2 * FailN)
                   /\ pc' = "head" /\ round' = round + 1 /\ outcome' = outcome
                   /\ msgs' = Append(Without(out, "hint"), Sys("hint"))
    <3>1. CASE FailN = 0
      BY <1>3, <1>4, <1>9, <2>1, <2>3, <3>1
    <3>2. CASE FailN > 0
      <4>1. fails' = failed /\ failWarned' = (failWarned \/ failed \in FailN..2 * FailN - 1)
        BY <2>3, <3>2 DEF Warns
      <4>2. failed >= 2 * FailN => fails >= FailN
        BY <1>3, <1>4, <1>9, <3>2
      <4>3. failed >= FailN => failWarned'
        <5>1. CASE failed >= 2 * FailN
          BY <2>1, <3>2, <4>1, <4>2, <5>1
        <5>2. CASE failed >= FailN /\ ~(failed >= 2 * FailN)
          <6>1. failed \in FailN..2 * FailN - 1
            BY <1>4, <1>9, <5>2
          <6>2. failWarned' = (failWarned \/ failed \in FailN..2 * FailN - 1)
            BY <4>1
          <6> QED
            BY <6>1, <6>2, Zenon
        <5> QED
          BY <5>1, <5>2
      <4>4. failed >= 2 * FailN => failed >= FailN
        BY <1>4, <1>9
      <4>5. /\ pc' # "ended" => failed < 2 * FailN
            /\ outcome' = "fails" => failed >= 2 * FailN
        BY <1>3, <1>4, <1>9, <2>3, <3>2
      <4>6. fails' \in Nat /\ failWarned' \in BOOLEAN /\ round' \in Nat
        BY <1>3, <1>9, <2>3, <4>1
      <4> QED
        BY <3>2, <4>1, <4>3, <4>4, <4>5, <4>6
    <3> QED
      BY <1>4, <3>1, <3>2
  <2> QED
    BY <1>7, <2>2, <2>3
<1>17. pc' \in {"head", "ended"} /\ outcome' \in {"none", "stall", "fails"}
       /\ (outcome' = "none") = (pc' # "ended")
  BY <1>3, <1>7
<1>18. TypeOK'
  <2>1. ran' \in Nat /\ saved' \in Nat /\ stalled' \in Nat /\ reply' \in Reply
    BY <1>3, <1>6, <1>9, <1>10
  <2> QED
    BY <1>1, <1>2, <1>8, <1>16, <1>17, <2>1 DEF LoopTypes, TypeOK, money
<1>19. LoopTypes'
  BY <1>1, <1>2, <1>15, <1>18 DEF LoopTypes, Context
<1>20. ContextKept'
  BY <1>1, <1>12, <1>15, <1>17 DEF ContextKept
<1>21. MoneyKept'
  BY <1>1, <1>2 DEF MoneyKept, money
<1>22. RunsKept'
  <2>1. saved' = ran' /\ turns' = ran'
    BY <1>1, <1>2, <1>6 DEF RunsKept
  <2> QED
    BY <1>16, <1>17, <2>1 DEF RunsKept, FailuresWarned, UnverifiedMarked
<1> QED
  BY <1>19, <1>20, <1>21, <1>22 DEF LoopInv

LEMMA LoopStays == LoopInv /\ UNCHANGED vars => LoopInv'
<1> SUFFICES ASSUME LoopInv, UNCHANGED vars PROVE LoopInv'
  OBVIOUS
<1>1. LoopTypes'
  BY DEF LoopInv, LoopTypes, TypeOK, vars, context, money, guards, trace
<1>2. ContextKept' /\ MoneyKept'
  BY DEF LoopInv, ContextKept, MoneyKept, Exhausted, vars, context, money, guards, trace
<1>3. RunsKept'
  BY DEF LoopInv, RunsKept, FailuresWarned, UnverifiedMarked, vars, context, money, guards, trace
<1> QED
  BY <1>1, <1>2, <1>3 DEF LoopInv

LEMMA LoopInvIsSafe == LoopInv => LoopSafe
<1> SUFFICES ASSUME LoopInv PROVE LoopSafe
  OBVIOUS
<1>1. TypeOK /\ NoUnexpectedBreak /\ OneRoundOverBudget
  BY DEF LoopInv, LoopTypes, ContextKept, MoneyKept, NoUnexpectedBreak, OneRoundOverBudget
<1>2. FailuresWarned /\ UnverifiedMarked /\ CheckpointCurrent
  BY DEF LoopInv, RunsKept, CheckpointCurrent
<1>3. CallsAnswered
  <2> SUFFICES ASSUME pc = "calling", NEW i \in DOMAIN msgs, msgs[i].role = "assistant",
                      NEW j \in 1..msgs[i].pos
               PROVE  i + j <= Len(msgs) /\ msgs[i + j] = Msg("tool", msgs[i].id, j)
    BY DEF CallsAnswered
  <2>1. i \in 1..Len(msgs)
    BY LenProperties DEF LoopInv, LoopTypes
  <2>2. Complete(msgs, i)
    BY <2>1 DEF LoopInv, ContextKept, AllAnswered
  <2> QED
    BY <2>2 DEF Complete
<1> QED
  BY <1>1, <1>2, <1>3 DEF LoopSafe

\* Every state of a run is safe (agent.js runAgent): whatever the model asks,
\* however its calls end and its context is folded, a request leaves no call
\* unanswered, its prefix breaks in no round but a fold's, at most one request
\* goes out over the budget, a run is suspended for failures after a warning
\* only, no unverified claim leaves unmarked, and the saved row is current.
THEOREM LoopIsSafe == Spec => []LoopSafe
<1>1. Init => LoopInv
  BY LoopStarts
<1>2. LoopInv /\ [Next]_vars => LoopInv'
  BY StopKept, HeadKept, FoldKept, SendKept, RepliesKept, FailsKept, RetryKept, FallbackKept,
    AnswerKept, GuardKept, ToolsKept, LoopStays DEF Next, Step
<1>3. LoopInv => LoopSafe
  BY LoopInvIsSafe
<1> QED
  BY <1>1, <1>2, <1>3, PTL DEF Spec

\* A stop is the last word (agent.js:616, cancellableDelay, the signal of a
\* request): once the user has stopped the run no request leaves any more.
THEOREM StopIsLast == Spec => StoppedSendsNothing
<1>1. [Next]_vars => (aborted /\ pc' = "calling" => pc = "calling")
  BY DEF Next, Step, Stop, RoundHead, Fold, Send, ModelReplies, ModelFails, Retry, Fallback, Answer,
    Guard, Tools, End, Replied, Cancelled, vars
<1>2. [][Next]_vars => [][aborted /\ pc' = "calling" => pc = "calling"]_vars
  BY <1>1, PTL
<1> QED
  BY <1>2 DEF Spec, StoppedSendsNothing

-----------------------------------------------------------------------------
(* One question to the model.  The invariant is inductive with the types   *)
(* of the slots; every step but a piece of a call only turns the question  *)
(* to another phase (Turned), and a piece is put where the sort puts it.   *)

SlotRec == [index : Index, parts : Seq(Nat)]
LlmTypes ==
  /\ LlmTypeOK
  /\ acc \in Seq(SlotRec)
  /\ answer \in [kind : {"none", "ok", "failed", "stopped"}, calls : Seq(SlotRec)]
LlmInv == LlmTypes /\ AccIsSent /\ WholeOrNone /\ WatchedWhileWaiting

\* The slots of a question stand in the order of their indices.
Sorted(slots) == \A m, n \in DOMAIN slots : m < n => slots[m].index < slots[n].index

\* Behind how many slots the sort puts a new one.
LEMMA LowerSlots ==
  ASSUME NEW slots \in Seq(SlotRec), Sorted(slots), NEW x \in Index
  PROVE  \E k \in 0..Len(slots) :
           /\ Cardinality({n \in DOMAIN slots : slots[n].index < x}) = k
           /\ \A n \in DOMAIN slots : slots[n].index < x <=> n <= k
<1> DEFINE S == {n \in 1..(Len(slots) + 1) : n = Len(slots) + 1 \/ ~(slots[n].index < x)}
<1>0. Len(slots) \in Nat /\ DOMAIN slots = 1..Len(slots)
  OBVIOUS
<1>1. S \in SUBSET Nat /\ S # {}
  BY <1>0
<1>2. PICK f \in S : \A y \in S : f <= y
  BY <1>1, LeastNat
<1>3. f \in 1..(Len(slots) + 1) /\ (f = Len(slots) + 1 \/ ~(slots[f].index < x))
  BY <1>2
<1>4. ASSUME NEW n \in DOMAIN slots PROVE slots[n].index < x <=> n <= f - 1
  <2>0. n \in 1..Len(slots) /\ n \in Nat
    BY <1>0
  <2>1. CASE n <= f - 1
    <3>1. n \notin S
      BY <1>2, <1>3, <2>0, <2>1, <1>0
    <3> QED
      BY <3>1, <2>0, <2>1, <1>0
  <2>2. CASE ~(n <= f - 1)
    <3>1. f \in 1..Len(slots) /\ f <= n /\ ~(slots[f].index < x)
      BY <1>3, <2>0, <2>2, <1>0
    <3>2. slots[f].index \in Nat /\ slots[n].index \in Nat /\ x \in Nat
      <4>1. slots[f] \in SlotRec /\ slots[n] \in SlotRec
        BY <3>1, <2>0
      <4> QED
        BY <4>1, LlmAssumption DEF SlotRec
    <3>3. slots[f].index <= slots[n].index
      BY <3>1, <3>2, <1>0, <2>0 DEF Sorted
    <3> QED
      BY <3>1, <3>2, <3>3, <2>2
  <2> QED
    BY <2>1, <2>2
<1>5. f - 1 \in 0..Len(slots)
  BY <1>0, <1>3
<1>6. {n \in DOMAIN slots : slots[n].index < x} = 1..(f - 1)
  BY <1>0, <1>4, <1>5
<1>7. Cardinality(1..(f - 1)) = f - 1
  BY <1>5, <1>0, FS_Interval
<1> QED
  BY <1>4, <1>5, <1>6, <1>7

LEMMA PlacedIs ==
  ASSUME NEW slots \in Seq(SlotRec), Sorted(slots), NEW slot \in SlotRec
  PROVE  \E k \in 0..Len(slots) :
           /\ Placed(slots, slot) \in Seq(SlotRec)
           /\ Len(Placed(slots, slot)) = Len(slots) + 1
           /\ Placed(slots, slot)[k + 1] = slot
           /\ \A n \in 1..k : Placed(slots, slot)[n] = slots[n]
           /\ \A n \in (k + 1)..Len(slots) : Placed(slots, slot)[n + 1] = slots[n]
           /\ \A n \in 1..Len(slots) : slots[n].index < slot.index <=> n <= k
<1>1. slot.index \in Index
  BY DEF SlotRec
<1>2. PICK k \in 0..Len(slots) :
           /\ Cardinality({n \in DOMAIN slots : slots[n].index < slot.index}) = k
           /\ \A n \in DOMAIN slots : slots[n].index < slot.index <=> n <= k
  BY <1>1, LowerSlots
<1> DEFINE a == SubSeq(slots, 1, k)
           b == SubSeq(slots, k + 1, Len(slots))
<1>3. Placed(slots, slot) = a \o <<slot>> \o b
  BY <1>2 DEF Placed
<1>4. /\ a \in Seq(SlotRec) /\ Len(a) = k /\ \A n \in 1..k : a[n] = slots[n]
      /\ Len(slots) \in Nat /\ k \in Nat /\ k <= Len(slots)
  BY SubSeqProperties
<1>5. /\ b \in Seq(SlotRec) /\ Len(b) = Len(slots) - k
      /\ \A n \in 1..(Len(slots) - k) : b[n] = slots[k + n]
  BY <1>4, SubSeqProperties
<1> HIDE DEF a, b
<1>6. /\ (a \o <<slot>>) \in Seq(SlotRec) /\ Len(a \o <<slot>>) = k + 1
      /\ \A n \in 1..k : (a \o <<slot>>)[n] = a[n]
      /\ (a \o <<slot>>)[k + 1] = slot
  BY <1>4
<1> DEFINE c == a \o <<slot>>
<1>7. c \in Seq(SlotRec) /\ Len(c) = k + 1 /\ (\A n \in 1..k : c[n] = a[n]) /\ c[k + 1] = slot
  BY <1>6
<1>8. Placed(slots, slot) = c \o b
  BY <1>3
<1> HIDE DEF c
<1>9. /\ (c \o b) \in Seq(SlotRec) /\ Len(c \o b) = Len(slots) + 1
      /\ \A n \in 1..(k + 1) : (c \o b)[n] = c[n]
  <2>1. (c \o b) \in Seq(SlotRec) /\ Len(c \o b) = Len(c) + Len(b)
    BY <1>5, <1>7, ConcatProperties
  <2>2. \A n \in 1..(Len(c) + Len(b)) : (c \o b)[n] = IF n <= Len(c) THEN c[n] ELSE b[n - Len(c)]
    BY <1>5, <1>7, ConcatProperties
  <2> QED
    BY <1>4, <1>5, <1>7, <2>1, <2>2
<1>10. \A n \in (k + 1)..Len(slots) : (c \o b)[n + 1] = slots[n]
  <2> SUFFICES ASSUME NEW n \in (k + 1)..Len(slots) PROVE (c \o b)[n + 1] = slots[n]
    OBVIOUS
  <2>1. n - k \in 1..(Len(slots) - k) /\ k + (n - k) = n /\ (k + 1) + (n - k) = n + 1
        /\ n - k \in 1..Len(b) /\ n + 1 \in (Len(c) + 1)..(Len(c) + Len(b)) /\ (n + 1) - Len(c) = n - k
    BY <1>4, <1>5, <1>7
  <2>2. (c \o b)[n + 1] = b[n - k]
    <3>1. \A j \in 1..(Len(c) + Len(b)) : (c \o b)[j] = IF j <= Len(c) THEN c[j] ELSE b[j - Len(c)]
      BY <1>5, <1>7, ConcatProperties
    <3>2. n + 1 \in 1..(Len(c) + Len(b)) /\ ~(n + 1 <= Len(c))
      BY <1>4, <1>5, <1>7
    <3> QED
      BY <2>1, <3>1, <3>2
  <2>3. b[n - k] = slots[k + (n - k)]
    BY <1>5, <2>1
  <2> QED
    BY <2>1, <2>2, <2>3
<1>11. (c \o b)[k + 1] = slot /\ \A n \in 1..k : (c \o b)[n] = slots[n]
  BY <1>4, <1>7, <1>9
<1>12. \A n \in 1..Len(slots) : slots[n].index < slot.index <=> n <= k
  BY <1>2
<1> QED
  BY <1>8, <1>9, <1>10, <1>11, <1>12
\* AccIsSent of any slots and any count of pieces.
Holds(slots, pieces) ==
  /\ \A n \in DOMAIN slots : slots[n].parts = [k \in 1..pieces[slots[n].index] |-> k - 1]
  /\ Sorted(slots)
  /\ \A i \in Index : pieces[i] > 0 <=> SlotsOf(slots, i) # {}

\* A piece more, put where it belongs, keeps the slots exactly what was sent.
LEMMA PlacedHolds ==
  ASSUME NEW slots \in Seq(SlotRec), NEW pieces \in [Index -> Nat], Holds(slots, pieces),
         NEW i \in Index, SlotsOf(slots, i) = {}
  PROVE  /\ Placed(slots, Slot(i, pieces[i])) \in Seq(SlotRec)
         /\ Holds(Placed(slots, Slot(i, pieces[i])), [pieces EXCEPT ![i] = @ + 1])
<1> DEFINE slot == Slot(i, pieces[i])
           more == [pieces EXCEPT ![i] = @ + 1]
           new == Placed(slots, slot)
<1>0. Len(slots) \in Nat /\ DOMAIN slots = 1..Len(slots)
  OBVIOUS
<1>1. pieces[i] = 0
  BY DEF Holds
<1>2. slot \in SlotRec /\ slot.index = i /\ slot.parts = <<0>>
  BY <1>1 DEF Slot, SlotRec
<1>3. more \in [Index -> Nat] /\ more[i] = 1 /\ \A j \in Index : j # i => more[j] = pieces[j]
  BY <1>1
<1>4. \A n \in 1..Len(slots) : slots[n] \in SlotRec /\ slots[n].index \in Index /\ slots[n].index # i
  <2> SUFFICES ASSUME NEW n \in 1..Len(slots)
               PROVE  slots[n] \in SlotRec /\ slots[n].index \in Index /\ slots[n].index # i
    OBVIOUS
  <2>1. slots[n] \in SlotRec
    OBVIOUS
  <2> QED
    BY <2>1, <1>0 DEF SlotRec, SlotsOf
<1>5. Sorted(slots)
  BY DEF Holds
<1> HIDE DEF slot, more
<1>6. PICK k \in 0..Len(slots) :
           /\ new \in Seq(SlotRec) /\ Len(new) = Len(slots) + 1 /\ new[k + 1] = slot
           /\ \A n \in 1..k : new[n] = slots[n]
           /\ \A n \in (k + 1)..Len(slots) : new[n + 1] = slots[n]
           /\ \A n \in 1..Len(slots) : slots[n].index < slot.index <=> n <= k
  BY <1>2, <1>5, PlacedIs
<1> HIDE DEF new
\* The old slot at a place of the new ones, but for the new one's.
<1> DEFINE Old(n) == IF n <= k THEN n ELSE n - 1
<1>7. \A n \in 1..(Len(slots) + 1) : n # k + 1 => Old(n) \in 1..Len(slots) /\ new[n] = slots[Old(n)]
  <2> SUFFICES ASSUME NEW n \in 1..(Len(slots) + 1), n # k + 1
               PROVE  Old(n) \in 1..Len(slots) /\ new[n] = slots[Old(n)]
    OBVIOUS
  <2>1. CASE n <= k
    BY <1>6, <2>1, <1>0
  <2>2. CASE ~(n <= k)
    <3>1. n - 1 \in (k + 1)..Len(slots) /\ (n - 1) + 1 = n /\ Old(n) = n - 1 /\ n - 1 \in 1..Len(slots)
      BY <2>2, <1>0, <1>6
    <3> QED
      BY <1>6, <3>1
  <2> QED
    BY <2>1, <2>2
<1>8. DOMAIN new = 1..(Len(slots) + 1)
  BY <1>0, <1>6
<1>9. \A n \in DOMAIN new : new[n].parts = [p \in 1..more[new[n].index] |-> p - 1]
  <2> SUFFICES ASSUME NEW n \in 1..(Len(slots) + 1)
               PROVE  new[n].parts = [p \in 1..more[new[n].index] |-> p - 1]
    BY <1>8
  <2>1. CASE n = k + 1
    <3>1. <<0>> = [p \in 1..1 |-> p - 1]
      OBVIOUS
    <3> QED
      BY <1>2, <1>3, <1>6, <2>1, <3>1
  <2>2. CASE n # k + 1
    <3>1. PICK o \in 1..Len(slots) : new[n] = slots[o]
      BY <1>7, <2>2
    <3>2. slots[o].parts = [p \in 1..pieces[slots[o].index] |-> p - 1]
      BY <3>1, <1>0 DEF Holds
    <3>3. more[slots[o].index] = pieces[slots[o].index]
      BY <1>3, <1>4, <3>1
    <3> QED
      BY <3>1, <3>2, <3>3
  <2> QED
    BY <2>1, <2>2
<1>10. Sorted(new)
  <2> SUFFICES ASSUME NEW m \in 1..(Len(slots) + 1), NEW n \in 1..(Len(slots) + 1), m < n
               PROVE  new[m].index < new[n].index
    BY <1>8 DEF Sorted
  <2>0. /\ \A o \in 1..Len(slots) : slots[o].index \in Nat
        /\ i \in Nat /\ slot.index = i
    BY <1>2, <1>4, LlmAssumption
  <2>1. CASE m = k + 1
    <3>1. Old(n) \in 1..Len(slots) /\ new[n] = slots[Old(n)] /\ ~(Old(n) <= k)
      BY <1>7, <2>1, <1>0, <1>6
    <3>2. ~(slots[Old(n)].index < i) /\ slots[Old(n)].index # i /\ slots[Old(n)].index \in Nat
      BY <1>4, <1>6, <2>0, <3>1
    <3>3. new[m] = slot
      BY <1>6, <2>1
    <3> QED
      BY <2>0, <3>1, <3>2, <3>3
  <2>2. CASE n = k + 1
    <3>1. Old(m) \in 1..Len(slots) /\ new[m] = slots[Old(m)] /\ Old(m) <= k
      BY <1>7, <2>2, <1>0, <1>6
    <3>2. slots[Old(m)].index < i
      BY <1>6, <2>0, <3>1
    <3> QED
      BY <1>6, <2>0, <2>2, <3>1, <3>2
  <2>3. CASE m # k + 1 /\ n # k + 1
    <3>1. /\ Old(m) \in 1..Len(slots) /\ new[m] = slots[Old(m)]
          /\ Old(n) \in 1..Len(slots) /\ new[n] = slots[Old(n)]
      BY <1>7, <2>3
    <3>2. Old(m) < Old(n)
      BY <2>3, <1>0, <1>6
    <3> QED
      BY <1>0, <1>5, <3>1, <3>2 DEF Sorted
  <2> QED
    BY <2>1, <2>2, <2>3
<1>11. \A j \in Index : more[j] > 0 <=> SlotsOf(new, j) # {}
  <2> SUFFICES ASSUME NEW j \in Index PROVE more[j] > 0 <=> SlotsOf(new, j) # {}
    OBVIOUS
  <2>1. CASE j = i
    <3>1. k + 1 \in DOMAIN new /\ new[k + 1].index = i
      BY <1>2, <1>6, <1>8, <1>0
    <3> QED
      BY <1>3, <2>1, <3>1 DEF SlotsOf
  <2>2. CASE j # i
    <3>1. more[j] = pieces[j] /\ (pieces[j] > 0 <=> SlotsOf(slots, j) # {})
      BY <1>3, <2>2 DEF Holds
    <3>2. ASSUME NEW o \in 1..Len(slots), slots[o].index = j PROVE SlotsOf(new, j) # {}
      <4>1. CASE o <= k
        <5>1. o \in DOMAIN new /\ new[o].index = j
          BY <1>0, <1>6, <1>8, <3>2, <4>1
        <5> QED
          BY <5>1 DEF SlotsOf
      <4>2. CASE ~(o <= k)
        <5>1. o + 1 \in DOMAIN new /\ new[o + 1].index = j
          BY <1>0, <1>6, <1>8, <3>2, <4>2
        <5> QED
          BY <5>1 DEF SlotsOf
      <4> QED
        BY <4>1, <4>2
    <3>3. ASSUME NEW n \in 1..(Len(slots) + 1), new[n].index = j PROVE SlotsOf(slots, j) # {}
      <4>1. n # k + 1
        BY <1>2, <1>6, <2>2, <3>3
      <4>2. Old(n) \in 1..Len(slots) /\ slots[Old(n)].index = j
        BY <1>7, <3>3, <4>1
      <4> QED
        BY <1>0, <4>2 DEF SlotsOf
    <3> QED
      BY <1>0, <1>8, <3>1, <3>2, <3>3 DEF SlotsOf
  <2> QED
    BY <2>1, <2>2
<1>12. new \in Seq(SlotRec) /\ Holds(new, more)
  BY <1>6, <1>9, <1>10, <1>11 DEF Holds
<1> QED
  BY <1>12 DEF new, slot, more

LEMMA LongerHolds ==
  ASSUME NEW slots \in Seq(SlotRec), NEW pieces \in [Index -> Nat], Holds(slots, pieces),
         NEW i \in Index, SlotsOf(slots, i) # {}
  PROVE  /\ Longer(slots, i, pieces[i]) \in Seq(SlotRec)
         /\ Holds(Longer(slots, i, pieces[i]), [pieces EXCEPT ![i] = @ + 1])
<1> DEFINE p == pieces[i]
           more == [pieces EXCEPT ![i] = @ + 1]
           new == Longer(slots, i, p)
<1>0. Len(slots) \in Nat /\ DOMAIN slots = 1..Len(slots)
  OBVIOUS
<1>1. more \in [Index -> Nat] /\ more[i] = p + 1 /\ p \in Nat /\ \A j \in Index : j # i => more[j] = pieces[j]
  OBVIOUS
<1>2. new = [n \in 1..Len(slots) |->
          IF slots[n].index = i THEN [slots[n] EXCEPT !.parts = Append(@, p)] ELSE slots[n]]
  BY <1>0 DEF Longer
<1> HIDE DEF p, more, new
<1>3. ASSUME NEW n \in 1..Len(slots)
      PROVE  /\ new[n] \in SlotRec /\ new[n].index = slots[n].index /\ slots[n].index \in Index
             /\ new[n].parts = [j \in 1..more[slots[n].index] |-> j - 1]
  <2>1. slots[n] \in SlotRec /\ slots[n].index \in Index /\ slots[n].parts \in Seq(Nat)
        /\ slots[n].parts = [j \in 1..pieces[slots[n].index] |-> j - 1]
    <3>1. slots[n] \in SlotRec
      OBVIOUS
    <3> QED
      BY <3>1, <1>0 DEF Holds, SlotRec
  <2>2. CASE slots[n].index # i
    BY <1>1, <1>2, <2>1, <2>2
  <2>3. CASE slots[n].index = i
    <3> DEFINE q == [slots[n] EXCEPT !.parts = Append(@, p)]
    <3>1. new[n] = q
      BY <1>2, <2>3
    <3>2. Append(slots[n].parts, p) \in Seq(Nat)
      BY <1>1, <2>1
    <3>3. q \in SlotRec /\ q.index = slots[n].index /\ q.parts = Append(slots[n].parts, p)
      BY <2>1, <3>2 DEF SlotRec
    <3>4. slots[n].parts = [j \in 1..p |-> j - 1]
      BY <2>1, <2>3 DEF p
    <3>5. Append([j \in 1..p |-> j - 1], p) = [j \in 1..(p + 1) |-> j - 1]
      <4> DEFINE f == [j \in 1..p |-> j - 1]
      <4>1. f \in Seq(Nat) /\ Len(f) = p /\ \A j \in 1..p : f[j] = j - 1
        BY <1>1
      <4> HIDE DEF f
      <4>2. Append(f, p) \in Seq(Nat) /\ Len(Append(f, p)) = p + 1
            /\ \A j \in 1..(p + 1) : Append(f, p)[j] = j - 1
        BY <1>1, <4>1
      <4> QED
        BY <4>2 DEF f
    <3> QED
      BY <1>1, <2>1, <2>3, <3>1, <3>3, <3>4, <3>5
  <2> QED
    BY <2>2, <2>3
<1>4. new \in Seq(SlotRec) /\ Len(new) = Len(slots) /\ DOMAIN new = 1..Len(slots)
  <2>1. new \in [1..Len(slots) -> SlotRec]
    BY <1>2, <1>3
  <2> QED
    BY <2>1, <1>0
<1>5. \A n \in DOMAIN new : new[n].parts = [j \in 1..more[new[n].index] |-> j - 1]
  BY <1>3, <1>4
<1>6. Sorted(new)
  BY <1>0, <1>3, <1>4 DEF Holds, Sorted
<1>7. \A j \in Index : SlotsOf(new, j) = SlotsOf(slots, j)
  BY <1>0, <1>3, <1>4 DEF SlotsOf
<1>8. \A j \in Index : more[j] > 0 <=> SlotsOf(new, j) # {}
  <2> SUFFICES ASSUME NEW j \in Index PROVE more[j] > 0 <=> SlotsOf(new, j) # {}
    OBVIOUS
  <2>1. CASE j = i
    <3>1. more[j] > 0
      BY <1>1, <2>1
    <3> QED
      BY <1>7, <2>1, <3>1
  <2>2. CASE j # i
    BY <1>1, <1>7, <2>2 DEF Holds
  <2> QED
    BY <2>1, <2>2
<1>9. new \in Seq(SlotRec) /\ Holds(new, more)
  BY <1>4, <1>5, <1>6, <1>8 DEF Holds
<1> QED
  BY <1>9 DEF new, p, more

LEMMA SentHolds == LlmTypes => (AccIsSent <=> Holds(acc, given))
  BY DEF AccIsSent, Holds, Sorted, LlmTypes

LEMMA LlmStarts == LlmInit => LlmInv
<1> SUFFICES ASSUME LlmInit PROVE LlmInv
  OBVIOUS
<1>1. acc = <<>> /\ acc \in Seq(SlotRec)
  BY DEF LlmInit
<1>a. /\ answer \in [kind : {"none", "ok", "failed", "stopped"}, calls : Seq(SlotRec)]
      /\ answer.kind = "none" /\ answer.calls = <<>>
  BY DEF LlmInit
<1>b. given \in [Index -> 0..(Pieces + 1)] /\ tries \in 0..Retries
  BY LlmAssumption DEF LlmInit
<1>2. LlmTypes
  BY <1>1, <1>a, <1>b DEF LlmInit, LlmTypes, LlmTypeOK
<1>3. AccIsSent
  BY <1>1 DEF LlmInit, AccIsSent, SlotsOf
<1>4. WholeOrNone /\ WatchedWhileWaiting
  <2>1. DOMAIN answer.calls = {}
    BY <1>a
  <2>2. WholeOrNone
    BY <2>1 DEF WholeOrNone
  <2> QED
    BY <2>2 DEF LlmInit, WatchedWhileWaiting
<1> QED
  BY <1>2, <1>3, <1>4 DEF LlmInv

Kinds == {"none", "ok", "failed", "stopped"}
Calm == {"ready", "body", "delay", "once", "over"}

\* What a step that puts no piece in its slot may do to the question.
Turned ==
  /\ stop' \in BOOLEAN
  /\ \/ phase' \in Calm /\ timer' = FALSE /\ ear' = FALSE
     \/ phase' \in {"fetch", "read"} /\ timer' = TRUE /\ ear' = TRUE
  /\ tries' \in 0..Retries
  /\ \/ acc' = acc /\ given' = given
     \/ acc' = <<>> /\ given' = [i \in Index |-> 0]
  /\ \/ answer' = answer /\ (phase' = "over") = (phase = "over")
     \/ /\ phase' = "over"
        /\ \E kind \in Kinds \ {"none"} :
             \/ answer' = [kind |-> kind, calls |-> <<>>]
             \/ answer' = [kind |-> kind, calls |-> acc] /\ Finalizes(acc)

LEMMA TurnedKept == LlmInv /\ Turned => LlmInv'
<1> SUFFICES ASSUME LlmInv, Turned PROVE LlmInv'
  OBVIOUS
<1>1. LlmTypes /\ AccIsSent /\ WholeOrNone /\ WatchedWhileWaiting
  BY DEF LlmInv
<1>2. acc' \in Seq(SlotRec) /\ given' \in [Index -> 0..(Pieces + 1)]
  <2>1. <<>> \in Seq(SlotRec) /\ [i \in Index |-> 0] \in [Index -> 0..(Pieces + 1)]
    BY LlmAssumption
  <2> QED
    BY <1>1, <2>1 DEF Turned, LlmTypes, LlmTypeOK
<1>3. AccIsSent'
  <2>1. CASE acc' = acc /\ given' = given
    BY <1>1, <2>1 DEF AccIsSent, SlotsOf
  <2>2. CASE acc' = <<>> /\ given' = [i \in Index |-> 0]
    BY <2>2 DEF AccIsSent, SlotsOf
  <2> QED
    BY <2>1, <2>2 DEF Turned
<1>4. /\ answer' \in [kind : Kinds, calls : Seq(SlotRec)]
      /\ (answer'.kind = "none") = (phase' # "over")
      /\ WholeOrNone'
  <2>1. CASE answer' = answer /\ (phase' = "over") = (phase = "over")
    BY <1>1, <2>1 DEF LlmTypes, LlmTypeOK, WholeOrNone, Kinds, Whole, Bare
  <2>2. ASSUME NEW kind \in Kinds \ {"none"}, phase' = "over",
               answer' = [kind |-> kind, calls |-> <<>>]
        PROVE  /\ answer' \in [kind : Kinds, calls : Seq(SlotRec)]
               /\ (answer'.kind = "none") = (phase' # "over")
               /\ WholeOrNone'
    BY <2>2 DEF WholeOrNone, Kinds
  <2>3. ASSUME NEW kind \in Kinds \ {"none"}, phase' = "over",
               answer' = [kind |-> kind, calls |-> acc], Finalizes(acc)
        PROVE  /\ answer' \in [kind : Kinds, calls : Seq(SlotRec)]
               /\ (answer'.kind = "none") = (phase' # "over")
               /\ WholeOrNone'
    BY <1>1, <2>3 DEF WholeOrNone, Kinds, Finalizes, LlmTypes, Whole, Bare
  <2> QED
    BY <2>1, <2>2, <2>3 DEF Turned
<1>5. LlmTypeOK'
  <2>1. phase' \in {"ready", "fetch", "body", "read", "delay", "once", "over"}
        /\ timer' \in BOOLEAN /\ ear' \in BOOLEAN
    BY DEF Turned, Calm
  <2> QED
    BY <1>2, <1>4, <2>1 DEF LlmTypeOK, Turned, Kinds
<1>6. WatchedWhileWaiting'
  BY DEF Turned, Calm, WatchedWhileWaiting
<1> QED
  BY <1>2, <1>3, <1>4, <1>5, <1>6 DEF LlmInv, LlmTypes, Kinds

LEMMA FailsTurn ==
  ASSUME LlmInv, NEW err, Fails(err), phase # "over" PROVE Turned
<1>1. LlmTypeOK
  BY DEF LlmInv, LlmTypes
<1>2. timer' = FALSE /\ ear' = FALSE
  BY DEF Fails, Silenced
<1>3. ASSUME NEW kind \in Kinds \ {"none"}, Over(kind, <<>>) PROVE Turned
  BY <1>1, <1>2, <1>3 DEF Over, Turned, Calm, LlmTypeOK
<1>4. CASE Again(err) /\ phase' \in {"delay", "ready"} /\ tries' = tries + 1
           /\ UNCHANGED <<stop, given, acc, answer>>
  <2>1. tries' \in 0..Retries
    BY <1>1, <1>4, LlmAssumption DEF Again, LlmTypeOK
  <2> QED
    BY <1>1, <1>2, <1>4, <2>1 DEF Turned, Calm, LlmTypeOK
<1>5. CASE phase' = "once" /\ UNCHANGED <<stop, given, acc, tries, answer>>
  BY <1>1, <1>2, <1>5 DEF Turned, Calm, LlmTypeOK
<1> QED
  BY <1>3, <1>4, <1>5 DEF Fails, Kinds

LEMMA FrameKept == LlmInv /\ Frame => LlmInv'
<1> SUFFICES ASSUME LlmInv, Frame PROVE LlmInv'
  OBVIOUS
<1>1. LlmTypes /\ AccIsSent /\ WholeOrNone /\ WatchedWhileWaiting /\ phase = "read"
  BY DEF LlmInv, Frame
<1>2. PICK i \in Index : /\ given[i] <= Pieces
                         /\ given' = [given EXCEPT ![i] = @ + 1]
                         /\ acc' = Accumulated(acc, i, given[i])
  BY DEF Frame
<1>3. given \in [Index -> Nat] /\ acc \in Seq(SlotRec) /\ given[i] \in Nat
  BY <1>1, LlmAssumption DEF LlmTypes, LlmTypeOK
<1>4. Holds(acc, given)
  BY <1>1, SentHolds
<1>5. acc' \in Seq(SlotRec) /\ Holds(acc', given')
  <2>1. CASE SlotsOf(acc, i) = {}
    BY <1>2, <1>3, <1>4, <2>1, PlacedHolds DEF Accumulated
  <2>2. CASE SlotsOf(acc, i) # {}
    BY <1>2, <1>3, <1>4, <2>2, LongerHolds DEF Accumulated
  <2> QED
    BY <2>1, <2>2
<1>6. given' \in [Index -> 0..(Pieces + 1)]
  BY <1>1, <1>2, LlmAssumption DEF LlmTypes, LlmTypeOK
<1>7. timer' = TRUE /\ ear' = TRUE /\ UNCHANGED <<phase, stop, tries, answer>>
  BY <1>1 DEF Frame, Armed, WatchedWhileWaiting
<1>8. LlmTypes'
  BY <1>1, <1>5, <1>6, <1>7 DEF LlmTypes, LlmTypeOK
<1>9. AccIsSent'
  BY <1>5 DEF AccIsSent, Holds, Sorted
<1>10. WholeOrNone' /\ WatchedWhileWaiting'
  BY <1>1, <1>7 DEF WholeOrNone, WatchedWhileWaiting, Whole, Bare
<1> QED
  BY <1>8, <1>9, <1>10 DEF LlmInv

LEMMA LlmStepsKept == LlmInv /\ [LlmNext]_llmVars => LlmInv'
<1> SUFFICES ASSUME LlmInv, [LlmNext]_llmVars PROVE LlmInv'
  OBVIOUS
<1>1. LlmTypeOK /\ WatchedWhileWaiting
  BY DEF LlmInv, LlmTypes
<1>2. CASE Frame
  BY <1>2, FrameKept
<1>3. CASE Request
  <2>1. CASE Fails("stopped")
    BY <1>3, <2>1, FailsTurn, TurnedKept DEF Request
  <2>2. CASE phase' = "fetch" /\ ear' = TRUE /\ timer' = TRUE
             /\ given' = [i \in Index |-> 0] /\ acc' = <<>> /\ UNCHANGED <<stop, tries, answer>>
    BY <1>1, <1>3, <2>2, TurnedKept DEF Request, Turned, LlmTypeOK
  <2> QED
    BY <1>3, <2>1, <2>2, TurnedKept DEF Request
<1>4. CASE Connect
  BY <1>1, <1>4, TurnedKept DEF Connect, Turned, LlmTypeOK, WatchedWhileWaiting
<1>5. CASE Disconnect
  BY <1>5, FailsTurn, TurnedKept DEF Disconnect
<1>6. CASE Refuse
  BY <1>1, <1>6, TurnedKept DEF Refuse, Silenced, Turned, Calm, LlmTypeOK
<1>7. CASE ReadError
  BY <1>7, FailsTurn, TurnedKept DEF ReadError
<1>8. CASE StreamEnds
  <2>1. CASE Finalizes(acc) /\ Silenced /\ Over("ok", acc)
    <3>1. Turned
      BY <1>1, <2>1 DEF Silenced, Over, Turned, Calm, Kinds, LlmTypeOK
    <3> QED
      BY <3>1, TurnedKept
  <2>2. CASE Fails("broken")
    BY <1>8, <2>2, FailsTurn, TurnedKept DEF StreamEnds
  <2> QED
    BY <1>8, <2>1, <2>2 DEF StreamEnds
<1>9. CASE Silence
  BY <1>9, FailsTurn, TurnedKept DEF Silence
<1>10. CASE DelayOver
  BY <1>1, <1>10, TurnedKept DEF DelayOver, Turned, Calm, LlmTypeOK, WatchedWhileWaiting
<1>11. CASE Once
  <2>1. timer' = FALSE /\ ear' = FALSE
    BY <1>1, <1>11 DEF Once, WatchedWhileWaiting, LlmTypeOK
  <2>2. Turned
    BY <1>1, <1>11, <2>1 DEF Once, Over, Turned, Calm, Kinds, LlmTypeOK
  <2> QED
    BY <2>2, TurnedKept
<1>12. CASE StopTurn
  <2>1. timer \in BOOLEAN /\ ear = timer /\ (timer <=> phase \in {"fetch", "read"}) /\ stop' = TRUE
        /\ tries' \in 0..Retries /\ acc' = acc /\ given' = given
    BY <1>1, <1>12 DEF StopTurn, WatchedWhileWaiting, LlmTypeOK
  <2>2. CASE ear /\ Told("stopped") /\ Silenced
    <3>1. Turned
      BY <2>1, <2>2 DEF Told, Silenced, Turned, Calm, Kinds
    <3> QED
      BY <3>1, TurnedKept
  <2>3. ASSUME NEW kind \in Kinds \ {"none"}, ~ear, Told(kind), UNCHANGED <<ear, timer>> PROVE LlmInv'
    <3>1. Turned
      BY <2>1, <2>3 DEF Told, Turned, Calm
    <3> QED
      BY <3>1, TurnedKept
  <2>4. CASE ~ear /\ phase \notin {"delay", "once"} /\ UNCHANGED <<phase, ear, timer, answer>>
    <3>1. Turned
      BY <1>1, <2>1, <2>4 DEF Turned, Calm, LlmTypeOK
    <3> QED
      BY <3>1, TurnedKept
  <2> QED
    BY <1>12, <2>2, <2>3, <2>4 DEF StopTurn, Kinds
<1>13. CASE UNCHANGED llmVars
  <2>1. Turned
    BY <1>1, <1>13 DEF llmVars, Turned, Calm, LlmTypeOK, WatchedWhileWaiting
  <2> QED
    BY <2>1, TurnedKept
<1> QED
  BY <1>2, <1>3, <1>4, <1>5, <1>6, <1>7, <1>8, <1>9, <1>10, <1>11, <1>12, <1>13
    DEF LlmNext, LlmSteps

\* Every state of a question to the model is safe (llm/gateway.js): the slots
\* hold what was sent of each call, a call is handed on whole or not at all,
\* and a timer and the stop watch exactly while a server is waited for.
THEOREM QuestionIsSafe == LlmSpec => []LlmSafe
<1>1. LlmInv => LlmSafe
  BY DEF LlmInv, LlmTypes, LlmSafe
<1> QED
  BY <1>1, LlmStarts, LlmStepsKept, PTL DEF LlmSpec

\* A stop is the last word of a question (gateway.js:366, agent.js:749): under
\* it no request leaves, neither a retry nor the question without a stream.
THEOREM StopAsksNothing == LlmSpec => NothingAskedStopped
<1>1. [LlmNext]_llmVars => (stop /\ phase' # phase => phase' \notin {"fetch", "once"})
  <2> SUFFICES ASSUME [LlmNext]_llmVars, stop, phase' # phase PROVE phase' \notin {"fetch", "once"}
    OBVIOUS
  <2>1. ASSUME NEW err, Fails(err) PROVE phase' \notin {"fetch", "once"}
    BY <2>1 DEF Fails, Over
  <2> QED
    BY <2>1 DEF LlmNext, LlmSteps, Request, Barred, Connect, Disconnect, Refuse, ReadError, Frame,
      StreamEnds, Silence, DelayOver, Once, StopTurn, Over, Told, llmVars
<1>2. [][LlmNext]_llmVars => [][stop /\ phase' # phase => phase' \notin {"fetch", "once"}]_llmVars
  BY <1>1, PTL
<1> QED
  BY <1>2 DEF LlmSpec, NothingAskedStopped

-----------------------------------------------------------------------------
(* The exit of the self evaluation.  The argument: only a person's act     *)
(* leaves a trace, the only one about goals is left where a person made    *)
(* the goal, and a name of the archive tells the report that has it.       *)

BoardRow == [source : {"selfeval", "benchmark"}, by : {"engine", "person"},
             status : {"active", "waiting", "adopted", "refused", "paused"}]
ArchiveReports == [days : {7, 30}, content : Content]
\* "Nothing" is neither a report's content nor a row.
ExitConstants == None \notin Content \cup BoardRow

SourceOf == [demands |-> "benchmark", goals |-> "selfeval"]
Trace == {[action |-> "goal_create", table |-> "goals"],
          [action |-> "demand_status", table |-> "demands"]}
BoardInv ==
  /\ board \in [Table -> BoardRow \cup {None}]
  /\ \A t \in Table : board[t] # None => board[t].source = SourceOf[t]
  /\ audit \subseteq Trace
  /\ [action |-> "goal_create", table |-> "goals"] \in audit =>
       board["goals"] # None /\ board["goals"].by = "person"
  /\ \A r \in landed : r.table \in Table /\ r.source = SourceOf[r.table]
ArchiveInv ==
  /\ \A n \in DOMAIN archive : /\ archive[n] \in ArchiveReports
                               /\ n[1] = archive[n].days /\ n[2] \in {None, archive[n].content}
  /\ ArchiveKept
ExitInv == BoardInv /\ ArchiveInv

LEMMA BoardStarts == ASSUME ExitConstants, ExitInit PROVE ExitInv
<1>1. BoardInv
  BY DEF ExitInit, BoardInv, ExitConstants
<1>2. ArchiveInv
  BY DEF ExitInit, ArchiveInv, ArchiveKept
<1> QED
  BY <1>1, <1>2 DEF ExitInv

LEMMA BoardKeeps == ASSUME ExitConstants, BoardInv, [ExitNext]_exitVars PROVE BoardInv'
<1>1. ASSUME NEW t \in Table, Propose(t) PROVE BoardInv'
  <2> DEFINE new == IF t = "goals"
                    THEN [source |-> "selfeval", status |-> "active", by |-> "engine"]
                    ELSE [source |-> "benchmark", status |-> "waiting", by |-> "engine"]
  <2>1. new \in BoardRow /\ new.source = SourceOf[t]
    BY <1>1 DEF BoardRow, SourceOf, Table
  <2>2. board' = [board EXCEPT ![t] = new] /\ board[t] = None /\ UNCHANGED <<audit, landed>>
    BY <1>1 DEF Propose, ledger
  <2> HIDE DEF new
  <2>3. board' \in [Table -> BoardRow \cup {None}]
        /\ \A u \in Table : board'[u] = IF u = t THEN new ELSE board[u]
    BY <1>1, <2>1, <2>2 DEF BoardInv
  <2>4. [action |-> "goal_create", table |-> "goals"] \in audit => t # "goals"
    BY <2>2 DEF BoardInv
  <2> QED
    BY <2>1, <2>2, <2>3, <2>4 DEF BoardInv, Table
<1>2. CASE CreateGoal
  <2> DEFINE new == [source |-> "selfeval", status |-> "active", by |-> "person"]
  <2>1. new \in BoardRow /\ new.source = SourceOf["goals"] /\ new.by = "person" /\ new # None
    BY DEF BoardRow, SourceOf, ExitConstants
  <2>2. board' = [board EXCEPT !["goals"] = new] /\ UNCHANGED landed
        /\ audit' = audit \cup {[action |-> "goal_create", table |-> "goals"]}
    BY <1>2 DEF CreateGoal, ledger
  <2> HIDE DEF new
  <2>3. board' \in [Table -> BoardRow \cup {None}]
        /\ \A u \in Table : board'[u] = IF u = "goals" THEN new ELSE board[u]
    BY <2>1, <2>2 DEF BoardInv
  <2>4. audit' \subseteq Trace
    BY <2>2 DEF BoardInv, Trace
  <2> QED
    BY <2>1, <2>2, <2>3, <2>4 DEF BoardInv, Table
<1>3. ASSUME NEW s \in {"adopted", "refused"}, DecideDemand(s) PROVE BoardInv'
  <2> DEFINE new == [board["demands"] EXCEPT !.status = s]
  <2>1. board["demands"] \in BoardRow /\ board["demands"].source = SourceOf["demands"]
    BY <1>3 DEF DecideDemand, BoardInv, Table
  <2>2. new \in BoardRow /\ new.source = SourceOf["demands"]
    BY <2>1 DEF BoardRow
  <2>3. board' = [board EXCEPT !["demands"] = new] /\ UNCHANGED landed
        /\ audit' = audit \cup {[action |-> "demand_status", table |-> "demands"]}
    BY <1>3 DEF DecideDemand, ledger
  <2> HIDE DEF new
  <2>4. board' \in [Table -> BoardRow \cup {None}]
        /\ \A u \in Table : board'[u] = IF u = "demands" THEN new ELSE board[u]
    BY <2>2, <2>3 DEF BoardInv
  <2>5. audit' \subseteq Trace
    BY <2>3 DEF BoardInv, Trace
  <2>6. [action |-> "goal_create", table |-> "goals"] \in audit' =>
          [action |-> "goal_create", table |-> "goals"] \in audit
    BY <2>3
  <2> QED
    BY <2>2, <2>3, <2>4, <2>5, <2>6 DEF BoardInv, Table
<1>4. ASSUME NEW s \in {"active", "paused"}, PatchGoal(s) PROVE BoardInv'
  <2> DEFINE new == [board["goals"] EXCEPT !.status = s]
  <2>1. board["goals"] \in BoardRow /\ board["goals"].source = SourceOf["goals"]
    BY <1>4 DEF PatchGoal, BoardInv, Table
  <2>2. new \in BoardRow /\ new.source = SourceOf["goals"] /\ new.by = board["goals"].by
    BY <2>1 DEF BoardRow
  <2>3. board' = [board EXCEPT !["goals"] = new] /\ UNCHANGED <<audit, landed>> /\ new # None
    BY <1>4, <2>2 DEF PatchGoal, ledger, ExitConstants
  <2> HIDE DEF new
  <2>4. board' \in [Table -> BoardRow \cup {None}]
        /\ \A u \in Table : board'[u] = IF u = "goals" THEN new ELSE board[u]
    BY <2>2, <2>3 DEF BoardInv
  <2> QED
    BY <2>2, <2>3, <2>4 DEF BoardInv, Table
<1>5. ASSUME NEW r \in ArchiveReports, Archive(r) PROVE BoardInv'
  BY <1>5 DEF Archive, ledger, BoardInv
<1>6. ASSUME NEW t \in Table, NEW ref, NEW base, Record(t, ref, base) PROVE BoardInv'
  <2>1. UNCHANGED <<board, audit>> /\ board[t].source = SourceOf[t]
    BY <1>6 DEF Record, BoardInv
  <2>2. \A r \in landed' : r.table \in Table /\ r.source = SourceOf[r.table]
    <3>1. ASSUME NEW r \in landed' PROVE r \in landed \/ (r.table = t /\ r.source = board[t].source)
      BY <1>6 DEF Record
    <3> QED
      BY <2>1, <3>1 DEF BoardInv
  <2> QED
    BY <2>1, <2>2 DEF BoardInv
<1>7. CASE UNCHANGED exitVars
  BY <1>7 DEF exitVars, BoardInv
<1>8. ASSUME NEW d \in {7, 30}, NEW k \in Content PROVE [days |-> d, content |-> k] \in ArchiveReports
  BY DEF ArchiveReports
<1> QED
  BY <1>1, <1>2, <1>3, <1>4, <1>5, <1>6, <1>7, <1>8 DEF ExitNext

LEMMA ArchiveKeeps == ASSUME ExitConstants, ArchiveInv, [ExitNext]_exitVars PROVE ArchiveInv'
<1>1. ASSUME NEW r \in ArchiveReports, Archive(r) PROVE ArchiveInv'
  <2> DEFINE n == NameOf(r)
  <2>1. /\ n \in {<<r.days, None>>, <<r.days, r.content>>}
        /\ n = <<r.days, None>> => n \notin DOMAIN archive
        /\ r.content # None
    BY DEF NameOf, ArchiveReports, ExitConstants
  <2>2. n[1] = r.days /\ n[2] \in {None, r.content}
    BY <2>1
  <2>3. /\ archive' = [m \in DOMAIN archive \cup {n} |-> IF m = n THEN r ELSE archive[m]]
        /\ put' = put \cup {[name |-> n, report |-> r]}
    BY <1>1 DEF Archive
  <2> HIDE DEF n
  <2>4. DOMAIN archive' = DOMAIN archive \cup {n}
        /\ \A m \in DOMAIN archive' : archive'[m] = IF m = n THEN r ELSE archive[m]
    BY <2>3
  <2>5. n \in DOMAIN archive => archive[n] = r
    <3> SUFFICES ASSUME n \in DOMAIN archive PROVE archive[n] = r
      OBVIOUS
    <3>1. n = <<r.days, r.content>> /\ n[1] = r.days /\ n[2] = r.content
      BY <2>1
    <3>2. archive[n] \in ArchiveReports /\ archive[n].days = r.days /\ archive[n].content = r.content
      BY <2>1, <3>1 DEF ArchiveInv
    <3> QED
      BY <3>2 DEF ArchiveReports
  <2>6. \A m \in DOMAIN archive' : /\ archive'[m] \in ArchiveReports
                                   /\ m[1] = archive'[m].days
                                   /\ m[2] \in {None, archive'[m].content}
    BY <2>2, <2>4 DEF ArchiveInv
  <2>7. ASSUME NEW w \in put' PROVE w.name \in DOMAIN archive' /\ archive'[w.name] = w.report
    <3>1. CASE w \in put
      BY <2>4, <2>5, <3>1 DEF ArchiveInv, ArchiveKept
    <3>2. CASE w = [name |-> n, report |-> r]
      BY <2>4, <3>2
    <3> QED
      BY <2>3, <2>7, <3>1, <3>2
  <2> QED
    BY <2>6, <2>7 DEF ArchiveInv, ArchiveKept
<1>2. ASSUME NEW d \in {7, 30}, NEW k \in Content PROVE [days |-> d, content |-> k] \in ArchiveReports
  BY DEF ArchiveReports
<1>3. CASE UNCHANGED <<archive, put>>
  BY <1>3 DEF ArchiveInv, ArchiveKept
<1>4. UNCHANGED <<archive, put>> \/ \E r \in ArchiveReports : Archive(r)
  BY <1>2 DEF ExitNext, exitVars, Propose, CreateGoal, DecideDemand, PatchGoal, Record
<1> QED
  BY <1>1, <1>3, <1>4

\* What passes has passed each of the four checks.
LEMMA PassIs ==
  ASSUME evaluateM3Exit = "pass"
  PROVE  checkLanded = "pass" /\ checkComparison = "pass" /\ checkApproval = "pass"
<1>1. "fail" \notin Checks /\ "undecided" \notin Checks
  BY DEF evaluateM3Exit
<1>2. /\ checkLanded \in {"fail", "undecided", "pass"}
      /\ checkComparison \in {"fail", "undecided", "pass"}
      /\ checkApproval \in {"fail", "undecided", "pass"}
  BY DEF checkLanded, checkComparison, checkApproval
<1> QED
  BY <1>1, <1>2 DEF Checks

LEMMA ExitHolds == ASSUME ExitConstants, ExitInv PROVE ExitSafe
<1>1. NoSelfRelease
  <2> SUFFICES ASSUME evaluateM3Exit = "pass"
               PROVE  /\ board["goals"].by = "person"
                      /\ [action |-> "demand_status", table |-> "demands"] \in audit
                      /\ \A r \in landed : archive[r.ref].days = archive[r.baselineRef].days
                      /\ {r.table : r \in landed} = Table
    BY DEF NoSelfRelease
  <2>1. /\ M3_REQUIRED_SOURCES \subseteq {r.source : r \in landed}
        /\ \A r \in landed : compareWindows(r) /\ Approved(r)
    BY PassIs DEF checkLanded, checkComparison, checkApproval
  <2>2. \E r \in landed : r.source = "benchmark"
    BY <2>1 DEF M3_REQUIRED_SOURCES
  <2>3. \E r \in landed : r.source = "selfeval"
    BY <2>1 DEF M3_REQUIRED_SOURCES
  <2>4. \A r \in landed : r.table \in {"demands", "goals"} /\ r.source = SourceOf[r.table]
    BY DEF ExitInv, BoardInv, Table
  <2>5. PICK d \in landed : d.table = "demands"
    BY <2>2, <2>4 DEF SourceOf
  <2>6. PICK g \in landed : g.table = "goals"
    BY <2>3, <2>4 DEF SourceOf
  <2>7. \A e \in audit : e \in Trace
    BY DEF ExitInv, BoardInv
  <2>8. [action |-> "demand_status", table |-> "demands"] \in audit
    BY <2>1, <2>5, <2>7 DEF Approved, Trace
  <2>9. [action |-> "goal_create", table |-> "goals"] \in audit
    BY <2>1, <2>6, <2>7 DEF Approved, Trace
  <2>10. {r.table : r \in landed} = Table
    BY <2>4, <2>5, <2>6 DEF Table
  <2> QED
    BY <2>1, <2>8, <2>9, <2>10 DEF ExitInv, BoardInv, compareWindows
<1>2. NoDataIsUndecided
  <2> SUFFICES ASSUME landed = {} PROVE evaluateM3Exit = "undecided"
    BY DEF NoDataIsUndecided
  <2>1. checkLanded = "undecided" /\ checkComparison = "undecided"
        /\ checkApproval = "undecided" /\ checkCycles \in {"undecided", "pass"}
    BY DEF checkLanded, checkComparison, checkApproval, checkCycles
  <2> QED
    BY <2>1 DEF evaluateM3Exit, Checks
<1> QED
  BY <1>1, <1>2 DEF ExitSafe, ExitInv, ArchiveInv

\* Self evolution counts as proved only where people decided, with reports of
\* the same days, and no report in the archive is taken over (m3-gate.js).
THEOREM ExitIsSafe == ASSUME ExitConstants PROVE ExitSpec => []ExitSafe
<1>1. ExitInit => ExitInv
  BY BoardStarts
<1>2. ExitInv /\ [ExitNext]_exitVars => ExitInv'
  BY BoardKeeps, ArchiveKeeps DEF ExitInv
<1>3. ExitInv => ExitSafe
  BY ExitHolds
<1> QED
  BY <1>1, <1>2, <1>3, PTL DEF ExitSpec
=============================================================================
