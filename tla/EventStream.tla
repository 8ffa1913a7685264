----------------------------- MODULE EventStream -----------------------------
(***************************************************************************)
(* The events of a conversation's runs on their way to a client: the ring  *)
(* of activity (server/agent.js emitEv, clearActivity, activitySince,      *)
(* streamGap), the stream of the request that runs the turn and the stream *)
(* that resumes it (server/index.js), and the client that rebuilds the     *)
(* answer (src/api.js streamChat, src/eventstream.js).  An event is its    *)
(* number; numbers are shared by all conversations.  A delta is a piece of *)
(* the answer, a thought may be merged into the one before it.             *)
(***************************************************************************)
EXTENDS Integers, Sequences, FiniteSets, SequencesExt

CONSTANTS
  RingMax,     \* ACT_MAX
  SliceMax,    \* limit of activitySince
  IdleTicks,   \* empty ticks behind which a resumed stream ends
  MaxSeq,      \* bound on actSeq
  MaxRuns      \* bound on the runs of the conversation

VARIABLES
  ring,      \* the ring's items: the events from lo to hi that it carries
  actSeq,
  running,   \* a run of the conversation is on
  runs,
  timers,    \* pending deletions of the ring, one for each run that ended
  emitted,   \* the conversation's events so far
  piece,     \* roundStreamed: the deltas of the present round
  stored,    \* the answer the client's run saved while it listened
  client,    \* off, live, cut, follow, reload, settled, over
  cursor,    \* lastSeq of its view, the place a resumed stream has reached
  got,       \* events it has received
  twice,     \* events it has received twice
  answer,    \* its concatenation of deltas
  quiet      \* empty ticks in a row

server == <<ring, actSeq, running, runs, timers, emitted, piece, stored>>
view   == <<client, cursor, got, twice, answer, quiet>>
streamVars == <<server, view>>

Item(lo, hi, kind) == [lo |-> lo, hi |-> hi, kind |-> kind]
Carried(items) == (UNION {items[k].lo..items[k].hi : k \in DOMAIN items}) \cap emitted
LastOf(items, n) == SubSeq(items, IF Len(items) > n THEN Len(items) - n + 1 ELSE 1,
                           Len(items))
\* Mutant: the ring is never trimmed.
Pushed_NoTrim(item) == Append(ring, item)
Pushed(item) == LastOf(Append(ring, item), RingMax)

\* What the answer consists of besides deltas.
Head_ == -1
Tail_ == -2
Other == -3

StreamInit ==
  /\ ring = <<>> /\ actSeq = 0 /\ running = FALSE /\ runs = 0 /\ timers = 0
  /\ emitted = {} /\ piece = <<>> /\ stored = <<>>
  /\ client = "off" /\ cursor = 0 /\ got = {} /\ twice = {} /\ answer = <<>>
  /\ quiet = 0

\* A turn begins, of this client or of another page.
BeginRun(mine) ==
  /\ ~running /\ runs < MaxRuns
  /\ running' = TRUE /\ runs' = runs + 1 /\ piece' = <<>>
  /\ mine => client = "off"
  /\ client' = IF mine THEN "live" ELSE client
  /\ UNCHANGED <<ring, actSeq, timers, emitted, stored, cursor, got, twice,
                 answer, quiet>>

\* emitEv: the event enters the ring, a thought close behind another one is
\* merged into it, and goes out to the request's stream.
Receive(kind) ==
  IF client # "live" THEN UNCHANGED view
  ELSE /\ cursor' = actSeq' /\ got' = got \cup {actSeq'}
       /\ answer' = IF kind = "delta" THEN Append(answer, actSeq') ELSE answer
       /\ UNCHANGED <<client, twice, quiet>>
\* Mutant: a merged thought takes the number of the last one only.
Merged_Replaced(n) == [ring EXCEPT ![Len(ring)] = Item(n, n, "think")]
Merged(n) == [ring EXCEPT ![Len(ring)].hi = n]
Emit(kind, close) ==
  LET n == actSeq + 1
      merges == kind = "think" /\ close /\ ring # <<>> /\ Last(ring).kind = "think"
  IN /\ running /\ actSeq < MaxSeq
     /\ actSeq' = n /\ emitted' = emitted \cup {n}
     /\ ring' = IF merges THEN Merged(n)
                ELSE Pushed(Item(n, n, kind))
     /\ piece' = IF kind = "delta" THEN Append(piece, n) ELSE piece
     /\ Receive(kind)
     /\ UNCHANGED <<running, runs, timers, stored>>
\* The model asked for tools: what it streamed belongs to no answer.
NextRound ==
  /\ running /\ piece # <<>> /\ piece' = <<>>
  /\ UNCHANGED <<ring, actSeq, running, runs, timers, emitted, stored, view>>
\* An event of another conversation.
Elsewhere ==
  /\ actSeq < MaxSeq /\ actSeq' = actSeq + 1
  /\ UNCHANGED <<ring, running, runs, timers, emitted, piece, stored, view>>

\* The answer to be saved: what was streamed, with something put before it or
\* behind it, or something else; streamPatch finds what is missing.
Final == {piece, <<Head_>> \o piece, piece \o <<Tail_>>,
          <<Head_>> \o piece \o <<Tail_>>, <<Other>>}
Patch(final) ==
  CASE final = piece                -> <<>>
    [] final = <<Head_>> \o piece   -> <<Head_>>
    [] final = piece \o <<Tail_>>   -> <<Tail_>>
    [] final = <<Other>>            -> <<Other>>
    [] OTHER                        -> <<Head_, Tail_>>
\* clearActivity: the ring gets its own end of the run, and a timer deletes it
\* a minute later, whatever it holds by then.
RingEnds ==
  /\ ring' = IF ring = <<>> THEN ring ELSE Pushed(Item(actSeq + 1, actSeq + 1, "end"))
  /\ actSeq' = IF ring = <<>> THEN actSeq ELSE actSeq + 1
  /\ emitted' = IF ring = <<>> THEN emitted ELSE emitted \cup {actSeq + 1}
  /\ timers' = timers + 1 /\ running' = FALSE
Concluded(final) ==
  /\ running /\ RingEnds
  /\ IF client = "live"
     THEN /\ client' = "settled" /\ stored' = final
          /\ answer' = answer \o Patch(final)
          /\ UNCHANGED <<cursor, got, twice, quiet>>
     ELSE UNCHANGED <<stored, view>>
  /\ UNCHANGED <<runs, piece>>
\* Stopped or failed: a note is saved instead of an answer.
Broken ==
  /\ running /\ RingEnds
  /\ client' = IF client = "live" THEN "settled" ELSE client
  /\ UNCHANGED <<runs, piece, stored, cursor, got, twice, answer, quiet>>
Recycle ==
  /\ timers > 0 /\ timers' = timers - 1 /\ ring' = <<>>
  /\ UNCHANGED <<actSeq, running, runs, emitted, piece, stored, view>>

\* The connection breaks before the turn has ended.
Cut ==
  /\ client = "live" /\ client' = "cut"
  /\ UNCHANGED <<server, cursor, got, twice, answer, quiet>>
\* GET /stream: the first frame says whether the next event is still there.
\* Mutant: a ring that is gone has no gap.
StreamGap_Gone == cursor > 0 /\ ring # <<>> /\ cursor + 1 < ring[1].hi
StreamGap == cursor > 0 /\ (ring = <<>> \/ cursor + 1 < ring[1].hi)
Resume ==
  /\ client = "cut" /\ client' = IF StreamGap THEN "reload" ELSE "follow"
  /\ UNCHANGED <<server, cursor, got, twice, answer, quiet>>
\* Every half second: what the ring has behind the cursor, the last SliceMax.
\* Mutant: the event at the cursor is sent again.
Since_Inclusive == LastOf(SelectSeq(ring, LAMBDA it : it.hi >= cursor), SliceMax)
Since == LastOf(SelectSeq(ring, LAMBDA it : it.hi > cursor), SliceMax)
Pump ==
  /\ client = "follow"
  /\ IF Since # <<>>
     THEN /\ cursor' = Last(Since).hi /\ quiet' = 0
          /\ twice' = twice \cup (got \cap Carried(Since))
          /\ got' = got \cup Carried(Since)
          /\ answer' = answer \o [k \in DOMAIN SelectSeq(Since, LAMBDA it : it.kind = "delta")
                                  |-> SelectSeq(Since, LAMBDA it : it.kind = "delta")[k].hi]
          /\ UNCHANGED client
     ELSE /\ quiet' = quiet + 1
          /\ client' = IF quiet' >= IdleTicks THEN "over" ELSE client
          /\ UNCHANGED <<cursor, got, twice, answer>>
  /\ UNCHANGED server

StreamNext ==
  \/ \E mine \in BOOLEAN : BeginRun(mine)
  \/ \E kind \in {"think", "delta"}, close \in BOOLEAN : Emit(kind, close)
  \/ NextRound \/ Elsewhere \/ (\E final \in Final : Concluded(final)) \/ Broken
  \/ Recycle \/ Cut \/ Resume \/ Pump
StreamSpec == StreamInit /\ [][StreamNext]_streamVars
-----------------------------------------------------------------------------
StreamTypeOK ==
  /\ Len(ring) <= RingMax /\ emitted \subseteq 1..actSeq
  /\ running \in BOOLEAN /\ timers \in 0..MaxRuns
  /\ client \in {"off", "live", "cut", "follow", "reload", "settled", "over"}
  /\ got \subseteq emitted /\ twice \subseteq got /\ quiet \in 0..IdleTicks

\* The ring loses events from its head only: behind its first one it has all of
\* them, which is what makes the test for a gap exact (agent.js:138-139).
RingIsSuffix ==
  ring # <<>> => \A n \in emitted : n >= ring[1].lo => n \in Carried(ring)

\* A resumed stream that reports no gap begins with the next event: all that
\* came behind the place the client names still is in the ring (agent.js:132).
HelloIsTrue ==
  client = "cut" /\ client' = "follow" /\ cursor > 0
    => {n \in emitted : n > cursor} \subseteq Carried(ring)

\* No piece of the answer is appended twice by resuming.
NoPieceTwice ==
  \A i, j \in DOMAIN answer : i # j => answer[i] # answer[j]

\* What a step of the stream of a turn keeps for a client that comes back: the
\* parts above.
StreamKept == (StreamTypeOK /\ RingIsSuffix /\ NoPieceTwice)' /\ HelloIsTrue
=============================================================================
