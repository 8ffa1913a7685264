------------------------------- MODULE Cards --------------------------------
(***************************************************************************)
(* Questions and approvals (server/asks.js, server/approval.js,            *)
(* server/cards.js, and the tools that wait for them in                    *)
(* server/tools/index.js).                                                 *)
(*                                                                         *)
(* A tool call that needs a person puts a card in a queue and waits for a  *)
(* verdict: an answer from the browser or the channel, the card's timer,   *)
(* or its own poll that finds the turn stopped.  A handler or a timer, with *)
(* the continuations its promise wakes, is one step.                       *)
(***************************************************************************)
EXTENDS Integers, Sequences, FiniteSets, SequencesExt

CONSTANTS
  Card,          \* tool calls that may put up a card
  Turn, Conv, ConvOf,
  Unattended,    \* the turns of contracts and schedules
  GuardTool,     \* tools whose manifest says approval
  CommandTool,   \* tools of the command subsystem
  Calls,         \* the calls that are made: [tool, permission, enforcement, allowed]
  None,
  MaxCrashes     \* bound: process restarts

ASSUME CardsAssumption ==
  /\ ConvOf \in [Turn -> Conv] /\ Unattended \subseteq Turn
  /\ "ask_user" \notin GuardTool \cup CommandTool
  /\ MaxCrashes \in Nat
  /\ None \notin {"ask", "guard", "sandbox", "approve", "reject", "other", "timeout",
                  "aborted"}

VARIABLES
  card,             \* the call each card belongs to, and what became of it
  pending,          \* the two pending Maps, in order of insertion
  sandboxApproved,  \* conversations with a confirmed unconfined command
  stopped,          \* turns whose signal is aborted
  told,             \* history: the answers acknowledged, per card
  crashes

vars == <<card, pending, sandboxApproved, stopped, told, crashes>>

Kind == {"ask", "guard", "sandbox"}
\* A word of approval may also be an option of a question.
Answers(kind) == IF kind = "ask" THEN {"approve", "other"} ELSE {"approve", "reject"}
Verdict == {"approve", "reject", "other", "timeout", "aborted"}
CardRec == [pc: {"unused", "waiting", "closed", "lost"}, call: Calls \cup {None},
            kind: Kind \cup {None}, turn: Turn \cup {None}, born: Nat,
            verdict: Verdict \cup {None}, outcome: {"ran", "chosen", "refused", None}]
Unused == [pc |-> "unused", call |-> None, kind |-> None, turn |-> None, born |-> 0,
           verdict |-> None, outcome |-> None]
Lost == [Unused EXCEPT !.pc = "lost"]

QueueOf(kind) == IF kind = "ask" THEN "ask" ELSE "approval"
At(queue, c) == CHOOSE i \in DOMAIN queue : queue[i] = c
Waiting == {c \in Card : card[c].pc = "waiting"}
Queued == ToSet(pending["ask"]) \cup ToSet(pending["approval"])
ConvOfCard(c) == ConvOf[card[c].turn]

TypeOK ==
  /\ card \in [Card -> CardRec]
  /\ DOMAIN pending = {"ask", "approval"}
  /\ \A q \in {"ask", "approval"} : pending[q] \in Seq(Card) /\ IsInjective(pending[q])
  /\ sandboxApproved \subseteq Conv
  /\ stopped \subseteq Turn
  /\ told \in [Card -> SUBSET Verdict]
  /\ crashes \in 0..MaxCrashes

Init ==
  /\ card = [c \in Card |-> Unused]
  /\ pending = [q \in {"ask", "approval"} |-> <<>>]
  /\ sandboxApproved = {} /\ stopped = {}
  /\ told = [c \in Card |-> {}]
  /\ crashes = 0

-----------------------------------------------------------------------------
(* Calling the tool.                                                       *)

\* The kind of card the call needs, if any.  The guard axis answers first; a
\* command that would run unconfined is asked once in a conversation.
needsApproval(call, approved) ==
  CASE call.tool = "ask_user" -> "ask"
    [] call.permission = "guard" /\ call.tool \in GuardTool -> "guard"
    [] call.tool \in CommandTool /\ ~(call.permission = "guard" /\ call.tool \in GuardTool)
         /\ call.permission # "full" /\ call.enforcement = "none" /\ ~approved -> "sandbox"
    [] OTHER -> None

Fresh(c, t, call, kind) == [Unused EXCEPT !.call = call, !.turn = t, !.kind = kind]

\* A rule of the administrator lets the call pass, or no card is needed.
CallRuns(c, t, call) ==
  LET kind == needsApproval(call, ConvOf[t] \in sandboxApproved)
  IN  /\ card[c].pc = "unused"
      /\ kind # "ask"
      /\ call.allowed \/ kind = None
      /\ card' = [card EXCEPT ![c] = [Fresh(c, t, call, kind) EXCEPT !.pc = "closed",
                                                              !.outcome = "ran"]]
      /\ UNCHANGED <<pending, sandboxApproved, stopped, told, crashes>>

AsksPerson(t, call) ==
  LET kind == needsApproval(call, ConvOf[t] \in sandboxApproved)
  IN  kind # None /\ (kind = "ask" \/ ~call.allowed)

\* Nobody is there: the question goes to the contract, the call is refused.
CallQueued(c, t, call) ==
  /\ card[c].pc = "unused"
  /\ t \in Unattended
  /\ AsksPerson(t, call)
  /\ card' = [card EXCEPT ![c] = [Fresh(c, t, call, None) EXCEPT !.pc = "closed",
                                                          !.outcome = "refused"]]
  /\ UNCHANGED <<pending, sandboxApproved, stopped, told, crashes>>

\* Only the order of the cards that wait matters; two may be created in the same
\* millisecond.
Born == {b \in UNION {{card[d].born, card[d].born + 1} : d \in Card} :
           \A d \in Card : card[d].born <= b}

\* createAsk, createApproval.
CallWaits(c, t, call) ==
  LET kind == needsApproval(call, ConvOf[t] \in sandboxApproved)
  IN  /\ card[c].pc = "unused"
      /\ t \notin Unattended
      /\ AsksPerson(t, call)
      /\ \E born \in Born :
           card' = [card EXCEPT ![c] = [Fresh(c, t, call, kind) EXCEPT !.pc = "waiting",
                                                                !.born = born]]
      /\ pending' = [pending EXCEPT ![QueueOf(kind)] = Append(@, c)]
      /\ UNCHANGED <<sandboxApproved, stopped, told, crashes>>

-----------------------------------------------------------------------------
(* The verdict.                                                            *)

\* Mutant: a question returns whatever ended its wait.
Outcome_PassesOn(kind, v) ==
  CASE kind = "ask" -> v
    [] kind # "ask" /\ v = "approve" -> "ran"
    [] OTHER -> "refused"

\* What the waiting tool makes of it.
Outcome(kind, v) ==
  CASE kind = "ask" -> IF v \in {"timeout", "aborted"} THEN "refused" ELSE "chosen"
    [] kind # "ask" /\ v = "approve" -> "ran"
    [] OTHER -> "refused"

\* Mutant: any verdict on the card confirms the session.
Wakes_AlwaysMarks(c, v) ==
  /\ card' = [card EXCEPT ![c].pc = "closed", ![c].born = 0, ![c].verdict = v,
                          ![c].outcome = Outcome(card[c].kind, v)]
  /\ sandboxApproved' = sandboxApproved
       \cup (IF card[c].kind = "sandbox" THEN {ConvOfCard(c)} ELSE {})

\* The tool resumes: only an approval confirms the session.
Wakes(c, v) ==
  /\ card' = [card EXCEPT ![c].pc = "closed", ![c].born = 0, ![c].verdict = v,
                          ![c].outcome = Outcome(card[c].kind, v)]
  /\ sandboxApproved' = sandboxApproved
       \cup (IF card[c].kind = "sandbox" /\ v = "approve" THEN {ConvOfCard(c)} ELSE {})

\* Mutant: a decided card stays in the Map.
Delete_Keeps(c) == pending' = pending
Delete(c) ==
  pending' = [pending EXCEPT ![QueueOf(card[c].kind)] =
                IF c \in ToSet(@) THEN RemoveAt(@, At(@, c)) ELSE @]

\* decideAsk, decideApproval: an answer to a card that is gone is not acknowledged.
decide(c, v) ==
  /\ c \in Queued
  /\ Delete(c)
  /\ Wakes(c, v)
  /\ told' = [told EXCEPT ![c] = @ \cup {v}]
  /\ UNCHANGED <<stopped, crashes>>

\* POST /api/asks/:id, POST /api/approvals/:id.
HttpAnswer(c, v) == v \in Answers(card[c].kind) /\ decide(c, v)

\* The listing of a conversation: by creation time, then questions first.
Before(c, d) ==
  LET listing == pending["ask"] \o pending["approval"]
  IN  \/ card[c].born < card[d].born
      \/ card[c].born = card[d].born /\ At(listing, c) < At(listing, d)

\* answerCard: the oldest card of the conversation the text can answer.
ChannelAnswer(conv, text) ==
  LET fits == {c \in Queued : ConvOfCard(c) = conv /\ text \in Answers(card[c].kind)}
  IN  \E c \in fits : (\A d \in fits \ {c} : Before(c, d)) /\ decide(c, text)

\* Mutant: the timer takes the card out and wakes nobody.
Timeout_WakesNobody(c) ==
  /\ c \in Queued
  /\ Delete(c)
  /\ UNCHANGED <<card, sandboxApproved, stopped, told, crashes>>

\* The ten minutes of a question, the five of an approval.
Timeout(c) ==
  /\ c \in Queued
  /\ Delete(c)
  /\ Wakes(c, "timeout")
  /\ UNCHANGED <<stopped, told, crashes>>

\* Mutant: the approval gate does not look at the signal.
Poll_AsksOnly(c) ==
  /\ c \in Waiting
  /\ card[c].kind = "ask" /\ card[c].turn \in stopped
  /\ Delete(c)
  /\ Wakes(c, "aborted")
  /\ UNCHANGED <<stopped, told, crashes>>

\* Mutant: the tool gives up without cancelling its card.
Poll_NoCancel(c) ==
  /\ c \in Waiting
  /\ card[c].turn \in stopped
  /\ Wakes(c, "aborted")
  /\ UNCHANGED <<pending, stopped, told, crashes>>

\* Every 800 ms the waiting tool looks at its turn's signal.
Poll(c) ==
  /\ c \in Waiting
  /\ card[c].turn \in stopped
  /\ Delete(c)
  /\ Wakes(c, "aborted")
  /\ UNCHANGED <<stopped, told, crashes>>

StopTurn(t) ==
  /\ stopped' = stopped \cup {t}
  /\ UNCHANGED <<card, pending, sandboxApproved, told, crashes>>

\* Queues, waits and confirmations are memory: the calls that waited are lost, the
\* numbers of those that ended serve for new ones.
Crash ==
  /\ crashes < MaxCrashes /\ crashes' = crashes + 1
  /\ card' = [c \in Card |-> IF c \in Waiting THEN Lost ELSE Unused]
  /\ pending' = [q \in {"ask", "approval"} |-> <<>>]
  /\ sandboxApproved' = {} /\ stopped' = {}
  /\ told' = [c \in Card |-> {}]

CardNext(c) ==
  \/ \E t \in Turn, call \in Calls :
       CallRuns(c, t, call) \/ CallQueued(c, t, call) \/ CallWaits(c, t, call)
  \/ \E v \in Verdict : HttpAnswer(c, v)
  \/ Timeout(c) \/ Poll(c)

Next ==
  \/ \E c \in Card : CardNext(c)
  \/ \E conv \in Conv, v \in Verdict : ChannelAnswer(conv, v)
  \/ \E t \in Turn : StopTurn(t)
  \/ Crash

Spec == Init /\ [][Next]_vars

-----------------------------------------------------------------------------
(* Properties.                                                             *)

\* Whoever is told that his answer was taken gave the verdict the tool gets:
\* of the browser, the channel, the timer and the stop, one decides.
AcknowledgedDecides ==
  \A c \in Card : told[c] \subseteq {card[c].verdict}

\* The queue lists exactly the cards a tool waits for: none is left behind to
\* swallow a later message of its conversation, none waits unanswerably.
QueueIsWaiting == Queued = Waiting

\* Since the process started: a controlled tool ran only on an approval of its
\* own card; an unconfined command on one for its own call or for another
\* unconfined command of its conversation.
RunsOnlyApproved ==
  \A c \in Card :
    card[c].pc = "closed" /\ card[c].outcome = "ran" /\ ~card[c].call.allowed =>
      LET call == card[c].call
          Approved(d) == card[d].pc = "closed" /\ told[d] = {"approve"}
      IN  IF call.permission = "guard" /\ call.tool \in GuardTool
          THEN Approved(c)
          ELSE call.tool \in CommandTool /\ call.permission # "full"
                 /\ call.enforcement = "none"
               => \E d \in Card : /\ Approved(d)
                                  /\ card[d].kind = "sandbox"
                                  /\ ConvOfCard(d) = ConvOfCard(c)

\* A stop ends the waits of its turn by their poll alone, whatever the timers and
\* the people do.
StopEndsWait(c) == (c \in Waiting /\ card[c].turn \in stopped) ~> c \notin Waiting

\* With the card's timer, a tool that waits resumes though nobody answers or stops.
WaitEnds(c) == WF_vars(Timeout(c)) => (c \in Waiting ~> c \notin Waiting)

\* What the cards and their queue keep of each other: the parts above.
CardsSafe == TypeOK /\ AcknowledgedDecides /\ QueueIsWaiting
=============================================================================
