------------------------------ MODULE ToolGate ------------------------------
(***************************************************************************)
(* One tool call on its way through execTool (server/tools/index.js): the  *)
(* refusals at the door, the hooks before (server/tools/hooks.js), the     *)
(* approval, the run under its declared deadline (server/tools/deadline.js)*)
(* and the ledger.  Who asks and who answers is the module Cards; here an  *)
(* approval is granted, refused or cut off by the user's stop.             *)
(***************************************************************************)
EXTENDS Integers, Sequences, FiniteSets

CONSTANTS
  MaxHooks,   \* hooks registered for the tool behind the access rules
  MaxRules    \* access rules

ASSUME GateAssumption == MaxHooks \in Nat /\ MaxRules \in Nat

VARIABLES
  call,       \* what is fixed when the call begins
  stage,      \* door, hooks, approval, run, wind, ledger, end
  hookAt,     \* hooks already consulted
  verdict,    \* what the gate decided: pass, allowed, or a failure code
  rewritten,  \* the arguments differ from what the model asked for
  userStop,   \* ctx.__signal is aborted
  expired,    \* the deadline fired while the tool ran
  cutOff,     \* eff.__signal is aborted
  executed,   \* the tool's code was entered
  queuedAsk,  \* an approval was queued for an absent user
  result,     \* what the model gets: none, done, or a failure code
  searches,   \* searches of the conversation are still vouched for
  rows        \* tool_calls rows and hook:rewrite rows written for the call

gateVars == <<call, stage, hookAt, verdict, rewritten, userStop, expired,
              cutOff, executed, queuedAsk, result, searches, rows>>

Door == {"TOOL_SCOPE_DENIED", "TOOL_UNKNOWN", "TOOL_SHELL_DENIED",
         "TOOL_PERMISSION_DENIED", "TOOL_ARGS_INVALID",
         "TOOL_ARGS_PLACEHOLDER", "TOOL_PATH_DENIED"}
HookResult == {"nothing", "stop", "rewrite", "fails"}
Hook == [failure : {"closed", "open"}, does : HookResult]
Rule == [hit : BOOLEAN, action : {"allow", "deny"}]

SeqUpTo(S, n) == UNION {[1..k -> S] : k \in 0..n}

Call == [fault : Door \cup {"none"},    \* the first refusal it meets
         normal : BOOLEAN,              \* a relative path is made absolute
         rules : SeqUpTo(Rule, MaxRules),
         hooks : SeqUpTo(Hook, MaxHooks),
         asks : BOOLEAN,                \* needsApproval
         autonomous : BOOLEAN,
         bounded : BOOLEAN,             \* the tool declares timeoutMs
         mutating : BOOLEAN]            \* it is one of MUTATING_FILES

GateInit ==
  /\ call \in Call
  /\ stage = "door" /\ hookAt = 0 /\ verdict = "pass"
  /\ rewritten = FALSE /\ userStop = FALSE /\ expired = FALSE
  /\ cutOff = FALSE /\ executed = FALSE /\ queuedAsk = FALSE
  /\ result = "none" /\ searches = TRUE
  /\ rows = [call |-> "none", rewrite |-> FALSE]

\* The user stops the run: whatever signal the call listens to is aborted, as
\* long as the call is still hooked up to it.
UserStop ==
  /\ ~userStop /\ stage # "end" /\ userStop' = TRUE
  /\ cutOff' = IF stage = "wind" /\ call.bounded THEN cutOff ELSE TRUE
  /\ UNCHANGED <<call, stage, hookAt, verdict, rewritten, expired, executed,
                 queuedAsk, result, searches, rows>>

\* The checks before anything else, in their order; the first one that
\* refuses gives the code.  Inside the workspace a relative path is resolved.
EnterDoor ==
  /\ stage = "door"
  /\ verdict' = IF call.fault = "none" THEN "pass" ELSE call.fault
  /\ stage' = IF call.fault = "none" THEN "hooks" ELSE "ledger"
  /\ result' = IF call.fault = "none" THEN "none" ELSE call.fault
  /\ rewritten' = (call.normal /\ call.fault = "none")
  /\ UNCHANGED <<call, hookAt, userStop, expired, cutOff, executed, queuedAsk,
                 searches, rows>>

\* access_rules_guard: the first rule that applies decides.
FirstHit(rules) ==
  CHOOSE k \in DOMAIN rules :
    rules[k].hit /\ \A j \in 1..k - 1 : ~rules[j].hit
RuleVerdict(rules) ==
  IF \E k \in DOMAIN rules : rules[k].hit THEN rules[FirstHit(rules)].action
                                          ELSE "none"

\* One hook after the other: an allow rule skips the others, a stop ends the
\* chain, and a hook that throws or times out does what it declared.
Blocked(code) == verdict' = code /\ result' = code /\ stage' = "ledger"
\* Mutant: the access rules are consulted as the second hook.
HookAfter_Rules == hookAt + 2
HookAfter == hookAt + 1
ConsultRules ==
  /\ stage = "hooks" /\ hookAt = 0
  /\ LET says == RuleVerdict(call.rules)
     IN \/ says = "allow" /\ verdict' = "allowed" /\ stage' = "run"
           /\ UNCHANGED result
        \/ says = "deny" /\ Blocked("TOOL_HOOK_BLOCKED")
        \/ says = "none" /\ UNCHANGED <<verdict, stage, result>>
  /\ hookAt' = HookAfter
  /\ UNCHANGED <<call, rewritten, userStop, expired, cutOff, executed,
                 queuedAsk, searches, rows>>
\* Mutant: a hook that fails is skipped whatever it declared.
Stops_ByItself(h) == h.does = "stop"
Stops(h) == h.does = "stop" \/ (h.does = "fails" /\ h.failure = "closed")
ConsultHook ==
  /\ stage = "hooks" /\ hookAt \in 1..Len(call.hooks)
  /\ LET h == call.hooks[hookAt]
     IN \/ /\ Stops(h)
           /\ Blocked("TOOL_HOOK_BLOCKED") /\ UNCHANGED rewritten
        \/ /\ ~Stops(h)
           /\ rewritten' = (rewritten \/ h.does = "rewrite")
           /\ UNCHANGED <<verdict, stage, result>>
  /\ hookAt' = HookAfter
  /\ UNCHANGED <<call, userStop, expired, cutOff, executed, queuedAsk,
                 searches, rows>>
HooksOver ==
  /\ stage = "hooks" /\ hookAt = Len(call.hooks) + 1
  /\ stage' = IF call.asks THEN "approval" ELSE "run"
  /\ UNCHANGED <<call, hookAt, verdict, rewritten, userStop, expired, cutOff,
                 executed, queuedAsk, result, searches, rows>>

\* Mutant: unattended calls wait for the user like any other.
Unattended_Never == FALSE
Unattended == call.autonomous

\* Nobody is there: the approval is queued and the call refused.  Otherwise
\* the call waits for an answer, its timer, or the user's stop.
Approval ==
  /\ stage = "approval"
  /\ \/ /\ Unattended /\ queuedAsk' = TRUE
        /\ Blocked("TOOL_QUEUED_UNATTENDED")
     \/ /\ ~Unattended /\ UNCHANGED queuedAsk
        /\ \/ stage' = "run" /\ UNCHANGED <<verdict, result>>
           \/ Blocked("TOOL_APPROVAL_DENIED")
           \/ Blocked("TOOL_APPROVAL_TIMEOUT")
           \/ userStop /\ Blocked("ABORTED")
  /\ UNCHANGED <<call, hookAt, rewritten, userStop, expired, cutOff, executed,
                 searches, rows>>

\* tool.run is entered, with the signal of the deadline when it declares one.
Run ==
  /\ stage = "run" /\ ~executed
  /\ executed' = TRUE
  /\ UNCHANGED <<call, stage, hookAt, verdict, rewritten, userStop, expired,
                 cutOff, queuedAsk, result, searches, rows>>
Expire ==
  /\ stage = "run" /\ executed /\ call.bounded /\ ~expired
  /\ expired' = TRUE /\ cutOff' = TRUE
  /\ UNCHANGED <<call, stage, hookAt, verdict, rewritten, userStop, executed,
                 queuedAsk, result, searches, rows>>
\* Mutant: a result that comes after the deadline is kept.
Reported_AsIs(what) == what
Reported(what) == IF expired THEN "TOOL_TIMEOUT" ELSE what
\* Mutant: the searches are forgotten only when the change failed.
Forgets_OnError(what) == call.mutating /\ what # "done"
Forgets(what) == call.mutating /\ what = "done"
\* The tool returns or throws; a result behind the deadline is replaced, and a
\* success of a tool that changes files ends the trust in earlier searches.
Return ==
  /\ stage = "run" /\ executed
  /\ \/ \E what \in {"done", "TOOL_ERROR"} :
          /\ result' = Reported(what) /\ stage' = "wind"
          /\ searches' = (searches /\ ~Forgets(result'))
     \/ /\ result' = "THROWN" /\ stage' = "ledger" /\ UNCHANGED searches
  /\ UNCHANGED <<call, hookAt, verdict, rewritten, userStop, expired, cutOff,
                 executed, queuedAsk, rows>>
\* The hooks after observe.
AfterHooks ==
  /\ stage = "wind" /\ stage' = "ledger"
  /\ UNCHANGED <<call, hookAt, verdict, rewritten, userStop, expired, cutOff,
                 executed, queuedAsk, result, searches, rows>>

\* Mutant: a refusal returns before the ledger is written.
Unrecorded_Refusals == cutOff \/ ~executed
\* Mutant: the arguments are recorded as the model gave them.
GateRow_AsAsked == [call |-> result, rewrite |-> FALSE]
GateRow == [call |-> result, rewrite |-> rewritten]
Unrecorded == cutOff
\* The ledger, unless the signal of the call is aborted.
Ledger ==
  /\ stage = "ledger" /\ stage' = "end"
  /\ rows' = IF Unrecorded THEN rows ELSE GateRow
  /\ UNCHANGED <<call, hookAt, verdict, rewritten, userStop, expired, cutOff,
                 executed, queuedAsk, result, searches>>

GateStep == EnterDoor \/ ConsultRules \/ ConsultHook \/ HooksOver \/ Approval
            \/ Run \/ Expire \/ Return \/ AfterHooks \/ Ledger
GateNext == UserStop \/ GateStep
GateSpec == GateInit /\ [][GateNext]_gateVars
-----------------------------------------------------------------------------
GateTypeOK ==
  /\ call \in Call /\ hookAt \in 0..Len(call.hooks) + 1
  /\ stage \in {"door", "hooks", "approval", "run", "wind", "ledger", "end"}
  /\ \A b \in {rewritten, userStop, expired, cutOff, executed, queuedAsk,
               searches} : b \in BOOLEAN

\* A tool runs only behind the whole gate: nothing at the door refused it, and
\* no hook that was not skipped by an allow rule stopped it or failed closed.
RunsBehindGate ==
  executed =>
    /\ call.fault = "none"
    /\ verdict # "allowed" =>
         /\ RuleVerdict(call.rules) # "deny"
         /\ \A k \in DOMAIN call.hooks :
              /\ call.hooks[k].does # "stop"
              /\ call.hooks[k].does = "fails" => call.hooks[k].failure = "open"

\* What needs an approval never runs unattended without a rule that allows it,
\* and then the question waits for the user.
UnattendedAsks ==
  call.asks /\ call.autonomous /\ stage = "end" /\ verdict # "allowed" =>
    ~executed /\ (queuedAsk \/ verdict # "pass")

\* A row says what happened: only a run that ended well is done, a refusal
\* never ran, and arguments that were changed are recorded as changed.
RowsAreTrue ==
  /\ rows.call = "done" => executed /\ ~expired
  /\ rows.call = "TOOL_TIMEOUT" => expired
  /\ rows.call \in Door \cup {"TOOL_HOOK_BLOCKED", "TOOL_APPROVAL_DENIED",
                              "TOOL_APPROVAL_TIMEOUT", "ABORTED",
                              "TOOL_QUEUED_UNATTENDED"} => ~executed
  /\ rows.call # "none" => rows.rewrite = rewritten

\* A call that ended without a stop of the user and within its deadline left a
\* row (tools/index.js:1679: a refusal must not slip past the ledger).
EndedIsLedgered ==
  stage = "end" /\ ~userStop /\ ~expired => rows.call = result

\* A result that reports a change of files never leaves an earlier search
\* vouched for (index.js:1853).
SearchesForgotten == result = "done" /\ call.mutating => ~searches

\* What a call keeps on its way through the gate: the parts above.
GateSafe ==
  /\ GateTypeOK /\ RunsBehindGate /\ UnattendedAsks /\ RowsAreTrue
  /\ EndedIsLedgered /\ SearchesForgotten
=============================================================================
