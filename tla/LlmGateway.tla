----------------------------- MODULE LlmGateway ------------------------------
(***************************************************************************)
(* One question of the agent loop to a model (server/llm/gateway.js and    *)
(* the retry loop of server/agent.js): a streamed call watched by a timer  *)
(* and by the user's stop, its pieces of tool calls put together, its      *)
(* failure classified, retried after a wait that can be stopped, and at    *)
(* last asked again without streaming.                                     *)
(***************************************************************************)
EXTENDS Integers, Sequences, FiniteSets

CONSTANTS
  Index,     \* the indices of the tool calls the model sends
  Pieces,    \* pieces of arguments of each call, sent after its name
  Retries    \* llm_max_retries

ASSUME LlmAssumption == /\ Index \subseteq Nat /\ Pieces \in Nat /\ Retries \in Nat

VARIABLES
  phase,     \* where the question is
  stop,      \* the user has stopped the turn
  ear,       \* the call listens to the stop
  timer,     \* the timer of the first byte, then of silence
  given,      \* pieces the model has sent of each call, its name the first
  acc,       \* the slots put together from them
  tries, answer

llmVars == <<phase, stop, ear, timer, given, acc, tries, answer>>

LlmInit ==
  /\ phase = "ready" /\ stop = FALSE /\ ear = FALSE /\ timer = FALSE
  /\ given = [i \in Index |-> 0] /\ acc = <<>> /\ tries = 0
  /\ answer = [kind |-> "none", calls |-> <<>>]

\* accumulateToolDeltas: a slot for each index, in their order: the slots are
\* sorted behind every new one.  Every piece has its number, the name is 0.
SlotsOf(slots, i) == {n \in DOMAIN slots : slots[n].index = i}
Slot(i, p) == [index |-> i, parts |-> <<p>>]
\* The slots with one more, where the sort puts it.
Placed(slots, slot) ==
  LET lower == Cardinality({n \in DOMAIN slots : slots[n].index < slot.index})
  IN SubSeq(slots, 1, lower) \o <<slot>> \o SubSeq(slots, lower + 1, Len(slots))
Longer(slots, i, p) ==
  [n \in DOMAIN slots |->
    IF slots[n].index = i THEN [slots[n] EXCEPT !.parts = Append(@, p)] ELSE slots[n]]
\* Mutant: a new slot stays behind the others.
Accumulated_Unsorted(slots, i, p) ==
  IF SlotsOf(slots, i) = {} THEN Append(slots, Slot(i, p)) ELSE Longer(slots, i, p)
Accumulated(slots, i, p) ==
  IF SlotsOf(slots, i) = {} THEN Placed(slots, Slot(i, p)) ELSE Longer(slots, i, p)

\* finalizeToolCalls: arguments that do not parse are thrown; none at all are
\* read as an empty object.
Whole(slot) == slot.parts = [n \in 1..(Pieces + 1) |-> n - 1]
Bare(slot) == slot.parts = <<0>>
Finalizes_Always(slots) == TRUE
Finalizes(slots) == \A n \in DOMAIN slots : Whole(slots[n]) \/ Bare(slots[n])

\* llmRetryDecision: an answer cut short by silence has no status and a
\* message no rule knows.
Retryable_Stopped(err) == err \in {"network", "idle", "status", "limited", "stopped"}
Retryable(err) == err \in {"network", "idle", "status", "limited"}

Again_OneMore(err) == Retryable(err) /\ tries <= Retries
Again(err) == Retryable(err) /\ tries < Retries

\* The end of the question, whatever it was.
Over(kind, calls) ==
  /\ phase' = "over" /\ answer' = [kind |-> kind, calls |-> calls]
  /\ UNCHANGED <<stop, given, acc, tries>>

\* cleanup: the timer and the listener go on every way out of the call.
Silenced_TimerLeft == ear' = FALSE /\ UNCHANGED timer
Silenced == timer' = FALSE /\ ear' = FALSE

\* The catch of the agent loop: the user's stop, a retry at once or after the
\* wait the server asked for, or the question without a stream.
Fails(err) ==
  /\ Silenced
  /\ \/ err = "stopped" /\ ~Retryable(err) /\ Over("stopped", <<>>)
     \/ /\ Again(err)
        /\ IF err = "limited" /\ stop THEN Over("stopped", <<>>)
           ELSE /\ phase' = IF err = "limited" THEN "delay" ELSE "ready"
                /\ tries' = tries + 1 /\ UNCHANGED <<stop, given, acc, answer>>
     \/ /\ err # "stopped" /\ ~Again(err)
        /\ IF stop THEN Over("failed", <<>>)
           ELSE phase' = "once" /\ UNCHANGED <<stop, given, acc, tries, answer>>

\* A request leaves with the first-byte timer armed; under a stop it does not.
Barred_Never == FALSE
Barred == stop
Request ==
  /\ phase = "ready"
  /\ IF Barred THEN Fails("stopped")
     ELSE /\ phase' = "fetch" /\ ear' = TRUE /\ timer' = TRUE
          /\ given' = [i \in Index |-> 0] /\ acc' = <<>>
          /\ UNCHANGED <<stop, tries, answer>>

Connect == phase = "fetch" /\ phase' = "read"
           /\ UNCHANGED <<stop, ear, timer, given, acc, tries, answer>>
\* The connection fails, before or in the middle of the answer.
Disconnect == phase \in {"fetch", "read"} /\ Fails("network")
\* An answer that is no success: the call lets go of its timer and of the
\* stop, and then reads the body of the error.
Refuse == phase = "fetch" /\ phase' = "body" /\ Silenced
          /\ UNCHANGED <<stop, given, acc, tries, answer>>
ReadError == phase = "body" /\ \E err \in {"status", "limited", "fatal"} : Fails(err)

Armed_Not == timer' = FALSE
Armed == timer' = TRUE
Frame ==
  /\ phase = "read"
  /\ \E i \in Index :
       /\ given[i] <= Pieces
       /\ given' = [given EXCEPT ![i] = @ + 1]
       /\ acc' = Accumulated(acc, i, given[i])
  /\ Armed /\ UNCHANGED <<phase, stop, ear, tries, answer>>
\* The end of the stream: the model may have been cut at its longest output.
StreamEnds ==
  /\ phase = "read"
  /\ IF Finalizes(acc) THEN Silenced /\ Over("ok", acc) ELSE Fails("broken")

Silence == timer /\ \/ phase = "fetch" /\ Fails("idle")
                    \/ phase = "read" /\ Fails("cut")

DelayOver == phase = "delay" /\ phase' = "ready"
             /\ UNCHANGED <<stop, ear, timer, given, acc, tries, answer>>
\* chatOnceWithTools: it answers, fails or times out; its failure is not
\* retried, and a stop makes it fail.
Once == phase = "once" /\ UNCHANGED <<ear, timer>>
        /\ (Over("ok", <<>>) \/ Over("failed", <<>>))

\* The user's stop, heard where somebody listens.
Told(kind) == phase' = "over" /\ answer' = [kind |-> kind, calls |-> <<>>]
StopTurn ==
  /\ ~stop /\ stop' = TRUE
  /\ \/ ear /\ Told("stopped") /\ Silenced
     \/ ~ear /\ phase = "delay" /\ Told("stopped") /\ UNCHANGED <<ear, timer>>
     \/ ~ear /\ phase = "once" /\ Told("failed") /\ UNCHANGED <<ear, timer>>
     \/ ~ear /\ phase \notin {"delay", "once"} /\ UNCHANGED <<phase, ear, timer, answer>>
  /\ UNCHANGED <<given, acc, tries>>

LlmSteps == \/ Request \/ Connect \/ Disconnect \/ Refuse \/ ReadError \/ Frame
            \/ StreamEnds \/ Silence \/ DelayOver \/ Once
LlmNext == LlmSteps \/ StopTurn
\* What the clock and the loop do; the server owes nothing but the body of an
\* error, that nothing watches.
LlmFairness == /\ WF_llmVars(Request) /\ WF_llmVars(Silence) /\ WF_llmVars(DelayOver)
               /\ WF_llmVars(Once) /\ WF_llmVars(ReadError)
LlmSpec == LlmInit /\ [][LlmNext]_llmVars /\ LlmFairness
-----------------------------------------------------------------------------
\* The state has its type, and the attempts stay within the setting.
LlmTypeOK ==
  /\ phase \in {"ready", "fetch", "body", "read", "delay", "once", "over"}
  /\ {stop, ear, timer} \subseteq BOOLEAN
  /\ given \in [Index -> 0..(Pieces + 1)] /\ tries \in 0..Retries
  /\ answer.kind \in {"none", "ok", "failed", "stopped"}
  /\ (answer.kind = "none") = (phase # "over")

\* However the pieces of several calls are mixed in the stream, the slots hold
\* of each call exactly what was sent, in the order sent, and stand in the
\* order of their indices (gateway.js:296).
AccIsSent ==
  /\ \A n \in DOMAIN acc : acc[n].parts = [k \in 1..given[acc[n].index] |-> k - 1]
  /\ \A m, n \in DOMAIN acc : m < n => acc[m].index < acc[n].index
  /\ \A i \in Index : given[i] > 0 <=> SlotsOf(acc, i) # {}

\* A stream cut at any piece never gives a call with a part of its arguments:
\* they are whole or none (gateway.js:316).
WholeOrNone ==
  \A n \in DOMAIN answer.calls : Whole(answer.calls[n]) \/ Bare(answer.calls[n])

\* A call that waits for the server is watched: a timer runs and the stop is
\* heard; outside of it no timer is left to fire in a later call.
WatchedWhileWaiting == (timer <=> phase \in {"fetch", "read"}) /\ ear = timer

\* After the user's stop no request leaves any more, neither a retry nor the
\* question without a stream (gateway.js:366, agent.js:749).
NothingAskedStopped == [][stop /\ phase' # phase => phase' \notin {"fetch", "once"}]_llmVars

\* A stop ends the question, whatever the server does (agent.js:718).
StopIsHeard == stop ~> phase = "over"

\* A server that falls silent at any stage does not hold the turn for ever: the
\* question ends by itself (gateway.js:370).
QuestionEnds == <>(phase = "over")

\* What every state of a question satisfies: the parts above.
LlmSafe == LlmTypeOK /\ AccIsSent /\ WholeOrNone /\ WatchedWhileWaiting
=============================================================================
