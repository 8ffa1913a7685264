------------------------------ MODULE AgentLoop ------------------------------
(***************************************************************************)
(* One run of the agent (server/agent.js runAgent): the rounds in which it *)
(* checks its guards, folds the early context, asks the model, and either  *)
(* answers or runs the tools the model asked for.  A message is kept as    *)
(* its role and the round that wrote it; what the model says is reduced to *)
(* the calls it makes and to whether it claims work that no tool did.  The *)
(* tools of a round are one step: their order and overlap are the module   *)
(* ToolBatches, the gate of each call is the module ToolGate.              *)
(***************************************************************************)
EXTENDS Integers, Sequences, SequencesExt

CONSTANTS
  Tool,        \* tool signatures (name and arguments)
  Changing,    \* the ones of STATE_CHANGING_TOOLS
  MaxCalls,    \* calls in one reply
  RoundCap,    \* settings.round_cap
  Budget,      \* the effective task budget, in units of one call's cost
  SubBudget,   \* the share a parent gave this run, 0 when none
  Keep,        \* messages a fold keeps
  FoldGap,     \* rounds between two folds
  MaxRetries,  \* settings.llm_max_retries
  FakeLimit,   \* settings.fake_continue_warn
  LoopGuard,   \* settings.loop_guard
  StallN,      \* settings.progress_stall_n
  FailN,       \* settings.fail_guard_n
  MaxRound     \* bound: rounds explored of an attended run

ASSUME LoopAssumption ==
  {MaxCalls, RoundCap, Budget, SubBudget, Keep, FoldGap, MaxRetries, FakeLimit,
   LoopGuard, StallN, FailN, MaxRound} \subseteq Nat

VARIABLES
  pc,          \* where the run is
  unattended,  \* ctx.__autonomous
  aborted,     \* ctx.__signal
  round,
  attempt,     \* model retries of this round
  reply,       \* what the model answered this round
  msgs,        \* the context
  sent,        \* prevCore: the non-system messages of the last request
  collapsedAt, \* collapseRound, also the round of the last fold
  broke,       \* an unexpected prefix break was recorded (C4)
  cost,        \* cumCost
  overCalls,   \* requests begun when cost was already over the budget
  lastCalls,   \* the last entry of callHistory
  turns,       \* its length
  same,        \* noProgressCount
  seen,        \* progress.js: last result of each signature
  stalled,
  fails,       \* consecutiveFail
  failWarned,
  fakes,       \* fakeWarnCount
  ran,         \* rounds whose tools were executed
  saved,       \* rounds in the run's checkpoint row
  outcome      \* how the run ended

context == <<msgs, sent, collapsedAt, broke>>
money   == <<cost, overCalls>>
guards  == <<lastCalls, turns, same, seen, stalled, fails, failWarned, fakes>>
trace   == <<ran, saved>>
vars == <<pc, unattended, aborted, round, attempt, reply, context, money,
          guards, trace, outcome>>

Result == {[ok |-> TRUE, hash |-> 1], [ok |-> TRUE, hash |-> 2],
           [ok |-> FALSE, hash |-> 1]}
Unseen == [ok |-> FALSE, hash |-> 0]

\* What the model may answer: calls, or text that is plain, that claims work
\* (the test for a claim or a promise in a task), or nothing but reasoning;
\* and whether it stopped at the length limit.
Reply ==
  [calls : BoundedSeq(Tool, MaxCalls), said : {"plain", "claim", "nothing"},
   long : BOOLEAN]
Replies == {r \in Reply : /\ r.calls # <<>> => r.said = "plain" /\ ~r.long
                          /\ r.long => r.said = "plain" \/ r.said = "claim"}
NoReply == [calls |-> <<>>, said |-> "nothing", long |-> FALSE]

Msg(role, id, pos) == [role |-> role, id |-> id, pos |-> pos]
Tag == {"env", "snapshot", "folded", "retry", "hint"}
Sys(tag) == Msg("system", tag, 0)
\* The messages without those of a set.
Less(ms, gone) ==
  LET kept[i \in 0..Len(ms)] ==
        IF i = 0 THEN <<>>
        ELSE IF ms[i] \in gone THEN kept[i - 1] ELSE Append(kept[i - 1], ms[i])
  IN kept[Len(ms)]
Core(ms) == Less(ms, {Sys(tag) : tag \in Tag})
\* The latest message of a kind replaces the earlier one (snapshot, hint).
Without(ms, tag) == Less(ms, {Sys(tag)})

Init ==
  /\ pc = "head" /\ unattended \in BOOLEAN /\ aborted = FALSE
  /\ round = 0 /\ attempt = 0 /\ reply = NoReply
  /\ msgs = <<Sys("env"), Msg("user", 0, 1), Msg("assistant", 0, 0),
              Msg("user", 0, 2)>>
  /\ sent = <<>> /\ collapsedAt = -FoldGap /\ broke = FALSE
  /\ cost = 0 /\ overCalls = 0
  /\ lastCalls = <<>> /\ turns = 0 /\ same = 0
  /\ seen = [t \in Tool |-> Unseen] /\ stalled = 0
  /\ fails = 0 /\ failWarned = FALSE /\ fakes = 0
  /\ ran = 0 /\ saved = 0 /\ outcome = "none"

End(how) == pc' = "ended" /\ outcome' = how

\* The user stops the run, or the client leaves.
Stop ==
  /\ pc # "ended" /\ ~aborted
  /\ aborted' = TRUE
  /\ UNCHANGED <<pc, unattended, round, attempt, reply, context, money,
                 guards, trace, outcome>>

EffSubBudget ==
  IF SubBudget > 0 /\ Budget > 0
  THEN IF SubBudget < Budget THEN SubBudget ELSE Budget
  ELSE SubBudget

\* The fuses on rounds and time bind an unattended run only (fuseDecision).
Fused(late) == unattended /\ (late \/ (RoundCap > 0 /\ round >= RoundCap))

\* Mutant: a stopped run is left where it is.
HeadStops_Never == FALSE
HeadStops == aborted
\* The head of a round: stop, the share of a sub-agent, the fuses; then the
\* snapshot of this round replaces the one of the last.
RoundHead ==
  /\ pc = "head"
  /\ \/ HeadStops /\ End("stopped") /\ UNCHANGED msgs
     \/ /\ ~aborted /\ EffSubBudget > 0 /\ cost > EffSubBudget
        /\ End("budget-sub") /\ UNCHANGED msgs
     \/ /\ ~aborted /\ ~(EffSubBudget > 0 /\ cost > EffSubBudget)
        /\ \E late \in BOOLEAN :
             IF Fused(late) THEN End("fuse") /\ UNCHANGED msgs
             ELSE /\ pc' = "fold" /\ UNCHANGED outcome
                  /\ msgs' = Append(Without(msgs, "snapshot"), Sys("snapshot"))
  /\ UNCHANGED <<unattended, aborted, round, attempt, reply, sent,
                 collapsedAt, broke, money, guards, trace>>

\* maybeCollapseEarly: everything between the head and the last Keep messages
\* becomes one summary, paid by one model call, when there is enough text.
CanFold == round - collapsedAt >= FoldGap /\ Len(msgs) - Keep > 2
\* Mutant: the round of the fold is not remembered.
FoldRound_Kept == collapsedAt
FoldRound == round
Folded == <<msgs[1], Sys("folded")>>
          \o SubSeq(msgs, Len(msgs) - Keep + 1, Len(msgs))
Fold ==
  /\ pc = "fold" /\ pc' = "send"
  /\ \/ UNCHANGED <<msgs, collapsedAt, cost>>
     \/ /\ CanFold
        /\ msgs' = Folded /\ collapsedAt' = FoldRound
        /\ \E c \in 0..2 : cost' = cost + c
  /\ UNCHANGED <<unattended, aborted, round, attempt, reply, sent, broke,
                 overCalls, guards, trace, outcome>>

\* The request goes out: the prefix is compared with the last one, and a
\* signal that is already aborted ends the run before anything is sent.
Send ==
  /\ pc = "send"
  /\ sent' = Core(msgs)
  /\ broke' = (broke \/ (~IsPrefix(sent, Core(msgs)) /\ collapsedAt # round))
  /\ \/ aborted /\ End("stopped") /\ UNCHANGED overCalls
     \/ /\ ~aborted /\ pc' = "calling" /\ UNCHANGED outcome
        /\ overCalls' = IF Budget > 0 /\ cost > Budget THEN overCalls + 1
                                                     ELSE overCalls
  /\ attempt' = 0
  /\ UNCHANGED <<unattended, aborted, round, reply, msgs, collapsedAt, cost,
                 guards, trace>>

\* Mutant: the budget is looked at when a round begins only.
Exhausted_Never(spent) == FALSE
Exhausted(spent) == Budget > 0 /\ spent > Budget
\* The model answered: the call is charged, and a run over its budget is
\* suspended before the answer is used.
Replied ==
  \E r \in Replies, c \in 0..1 :
    /\ reply' = r /\ cost' = cost + c
    /\ IF Exhausted(cost') THEN End("budget")
       ELSE /\ pc' = IF r.calls = <<>> THEN "answer" ELSE "guards"
            /\ UNCHANGED outcome

ModelReplies ==
  /\ pc = "calling" /\ Replied
  /\ UNCHANGED <<unattended, aborted, round, attempt, context, overCalls,
                 guards, trace>>

\* Mutant: a retry that fails before its first byte is not counted.
Attempts_Kept == attempt
Attempts == attempt + 1
\* The stream fails: stopped by the user, retryable, or to the fallback.
ModelFails ==
  /\ pc = "calling"
  /\ \/ aborted /\ End("stopped") /\ UNCHANGED attempt
     \/ /\ attempt < MaxRetries
        /\ attempt' = Attempts /\ pc' = "waiting" /\ UNCHANGED outcome
     \/ pc' = "fallback" /\ UNCHANGED <<attempt, outcome>>
  /\ UNCHANGED <<unattended, aborted, round, reply, context, money, guards,
                 trace>>

\* Mutant: the wait is not cancelled.
Cancelled_Never == FALSE
Cancelled == aborted
\* The wait before a retry can be cancelled (cancellableDelay).
Retry ==
  /\ pc = "waiting"
  /\ \/ Cancelled /\ End("stopped")
     \/ ~Cancelled /\ pc' = "calling" /\ UNCHANGED outcome
  /\ UNCHANGED <<unattended, aborted, round, attempt, reply, context, cost,
                 overCalls, guards, trace>>

\* One call without streaming, under the same signal; when it fails too the
\* error of the stream is thrown.
Fallback ==
  /\ pc = "fallback"
  /\ \/ ~aborted /\ Replied
     \/ aborted /\ End("stopped") /\ UNCHANGED <<reply, cost>>
     \/ ~aborted /\ End("error") /\ UNCHANGED <<reply, cost>>
  /\ UNCHANGED <<unattended, aborted, round, attempt, context, overCalls,
                 guards, trace>>

\* Mutant: an answer is sent back as often as it claims.
SentBack_Always == TRUE
SentBack == fakes < FakeLimit
\* Mutant: an answer that was sent back is believed.
Unverified_FirstTime == reply.said = "claim" /\ ran = 0 /\ fakes = 0 /\ FakeLimit > 0
Unverified == reply.said = "claim" /\ ran = 0 /\ FakeLimit > 0
\* No call: the text, continued while it hits the length limit, ends the run,
\* unless it claims work while no tool has run.
Answer ==
  /\ pc = "answer"
  /\ \E c \in 0..1 : cost' = cost + IF reply.long THEN c ELSE 0
  /\ IF Unverified /\ SentBack
     THEN /\ fakes' = fakes + 1 /\ round' = round + 1 /\ pc' = "head"
          /\ msgs' = Append(msgs, Sys("retry")) /\ UNCHANGED outcome
     ELSE /\ End(IF Unverified THEN "marked"
                 ELSE IF reply.said = "nothing" /\ ran = 0 THEN "thought"
                 ELSE "answer")
          /\ UNCHANGED <<fakes, round, msgs>>
  /\ UNCHANGED <<unattended, aborted, attempt, reply, sent, collapsedAt, broke,
                 overCalls, lastCalls, turns, same, seen, stalled, fails,
                 failWarned, trace>>

\* The same calls as the round before, LoopGuard times over: suspended before
\* they run.  (The reminders on the way change nothing but the text.)
Repeats == IF lastCalls = reply.calls THEN same + 1 ELSE 0
Guard ==
  /\ pc = "guards"
  /\ same' = Repeats /\ lastCalls' = reply.calls /\ turns' = turns + 1
  /\ IF LoopGuard > 0 /\ Repeats >= LoopGuard
     THEN End("repeat") /\ UNCHANGED msgs
     ELSE /\ pc' = "tools" /\ UNCHANGED outcome
          /\ msgs' = Append(msgs, Msg("assistant", round, Len(reply.calls)))
  /\ UNCHANGED <<unattended, aborted, round, attempt, reply, sent,
                 collapsedAt, broke, money, seen, stalled, fails, failWarned,
                 fakes, trace>>

\* judgeRound: a call is progress when it changed something, is new, succeeds
\* after a failure, or returns something else than the last time, which may
\* have been in this very round.
CallsOf(tool, end) == {i \in 1..end : reply.calls[i] = tool}
LastOf(tool, end, results) ==
  LET at == CallsOf(tool, end)
  IN IF at = {} THEN seen[tool] ELSE results[CHOOSE i \in at : \A k \in at : k <= i]
Judge(i, results) ==
  LET last == LastOf(reply.calls[i], i - 1, results)
      now  == results[i]
  IN \/ reply.calls[i] \in Changing /\ now.ok
     \/ last = Unseen
     \/ ~last.ok /\ now.ok
     \/ last.hash # now.hash
Judged(results) ==
  [seen |-> [t \in Tool |-> LastOf(t, Len(reply.calls), results)],
   progress |-> \E i \in DOMAIN results : Judge(i, results)]

\* Mutant: the result of a call that failed is not appended.
Answers_Ok(results) ==
  SelectSeq([i \in DOMAIN results |-> Msg("tool", round, i)],
            LAMBDA m : results[m.pos].ok)
Answers(results) == [i \in DOMAIN results |-> Msg("tool", round, i)]
\* Mutant: the warning comes behind the round that suspends.
Warns_Late(failed) == failed > 2 * FailN
Warns(failed) == failed \in FailN..2 * FailN - 1
\* Mutant: the row is written before the tools of the round have run.
Checkpoint_Early == turns - 1
Checkpoint == turns
\* The tools run and are committed in the model's order, the run's row is
\* saved, and the round is judged: no progress StallN rounds in a row, or only
\* failures 2 * FailN rounds in a row after a warning at FailN, suspends.
Tools ==
  /\ pc = "tools"
  /\ \E results \in [DOMAIN reply.calls -> Result] :
       LET judged == Judged(results)
           idle   == IF judged.progress THEN 0 ELSE stalled + 1
           failed == IF \E i \in DOMAIN results : results[i].ok THEN 0
                                                                ELSE fails + 1
           answers == Answers(results)
       IN /\ seen' = judged.seen /\ stalled' = idle
          /\ ran' = ran + 1 /\ saved' = Checkpoint /\ reply' = NoReply
          /\ \/ /\ StallN > 0 /\ idle >= StallN
                /\ End("stall") /\ msgs' = msgs \o answers
                /\ UNCHANGED <<fails, failWarned, round>>
             \/ /\ ~(StallN > 0 /\ idle >= StallN)
                /\ fails' = IF FailN > 0 THEN failed ELSE fails
                /\ failWarned' = \/ failWarned
                                 \/ FailN > 0 /\ Warns(failed)
                /\ IF FailN > 0 /\ failed >= 2 * FailN
                   THEN /\ End("fails") /\ msgs' = msgs \o answers
                        /\ UNCHANGED round
                   ELSE /\ pc' = "head" /\ round' = round + 1
                        /\ msgs' = Append(Without(msgs \o answers, "hint"),
                                          Sys("hint"))
                        /\ UNCHANGED outcome
  /\ UNCHANGED <<unattended, aborted, attempt, sent, collapsedAt, broke, money,
                 lastCalls, turns, same, fakes>>

\* The rounds of an attended run are explored up to MaxRound.
Step == \/ (unattended \/ round < MaxRound \/ aborted) /\ RoundHead
        \/ Fold \/ Send \/ ModelReplies \/ ModelFails \/ Retry \/ Fallback
        \/ Answer \/ Guard \/ Tools
Next == Stop \/ Step

Spec == Init /\ [][Next]_vars
\* Every wait of a round has a watchdog: the model's first byte and idle
\* timers, the deadline or the answer of a tool.
FairSpec == Spec /\ WF_vars(Step)
-----------------------------------------------------------------------------
TypeOK ==
  /\ pc \in {"head", "fold", "send", "calling", "waiting", "fallback",
             "answer", "guards", "tools", "ended"}
  /\ unattended \in BOOLEAN /\ aborted \in BOOLEAN /\ broke \in BOOLEAN
  /\ round \in Nat /\ attempt \in 0..MaxRetries /\ reply \in Reply
  /\ cost \in Nat /\ overCalls \in Nat
  /\ same \in Nat /\ stalled \in Nat /\ fails \in Nat /\ fakes \in 0..FakeLimit
  /\ seen \in [Tool -> Result \cup {Unseen}] /\ failWarned \in BOOLEAN
  /\ ran \in Nat /\ saved \in Nat /\ (outcome = "none") = (pc # "ended")

\* A request never leaves a call unanswered: behind an assistant message with
\* calls stand the results of all of them, in the model's order, however the
\* context was folded (agent.js:931-987).
CallsAnswered ==
  pc = "calling" =>
    \A i \in DOMAIN msgs : msgs[i].role = "assistant" =>
      \A j \in 1..msgs[i].pos :
        i + j <= Len(msgs) /\ msgs[i + j] = Msg("tool", msgs[i].id, j)

\* Between two requests the conversation only grows, except in the round of a
\* fold: the C4 ledger of unexpected prefix breaks stays empty (agent.js:700).
NoUnexpectedBreak == ~broke

\* A run whose cost is over the budget makes at most one more request: what
\* can push it over without the check behind a reply is a fold or the
\* continuation of an answer that is then sent back.
OneRoundOverBudget == overCalls <= 1

\* A run is suspended for failing rounds only after the model was told to
\* change its approach (agent.js:1053-1061).
FailuresWarned == outcome = "fails" => failWarned

\* An answer that claims work in a run that executed no tool leaves only with
\* the mark that nothing was verified (agent.js:844-870).
UnverifiedMarked ==
  outcome = "answer" /\ reply.said = "claim" /\ FakeLimit > 0 => ran > 0

\* Whenever a round ends, the saved row counts exactly the rounds whose tools
\* ran (agent.js:1012-1028: it used to be written before the tools).
CheckpointCurrent == pc \in {"head", "ended"} => saved = ran

\* Once the user has stopped the run, nothing more is asked of the model's
\* stream: not by a round, a retry, or an answer sent back.
StoppedSendsNothing == [][aborted /\ pc' = "calling" => pc = "calling"]_vars

\* A stopped run ends, and an unattended one ends by itself under the cap.
StopEnds == aborted ~> pc = "ended"
UnattendedEnds == unattended ~> pc = "ended"

\* What every state of a run satisfies: the parts above.
LoopSafe ==
  /\ TypeOK /\ CallsAnswered /\ NoUnexpectedBreak /\ OneRoundOverBudget
  /\ FailuresWarned /\ UnverifiedMarked /\ CheckpointCurrent

\* What the steps of a run do: a stop is the last word, and every run that was
\* stopped or has nobody to watch it comes to its end.
LoopEnds == StoppedSendsNothing /\ StopEnds /\ UnattendedEnds
=============================================================================
