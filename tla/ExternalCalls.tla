--------------------------- MODULE ExternalCalls ----------------------------
(***************************************************************************)
(* The platform called from outside: scripts/rw-jsonrpc.mjs and            *)
(* scripts/rw-mcp-server.mjs log in, make a conversation unless one is     *)
(* named, ask a question and read the stream of the turn in chunks until   *)
(* it has ended or they have waited long enough.  A caller who breaks off  *)
(* makes the platform stop the turn (server/index.js, POST /api/chat).     *)
(* Both clients take one call after the other here; what runs at the same  *)
(* time is the turn on the platform, and what an earlier call left there.  *)
(***************************************************************************)
EXTENDS Naturals, Sequences, FiniteSets, SequencesExt

CONSTANTS
  MaxAsked,    \* bound: calls of the client
  MaxPieces,   \* bound: pieces of an answer
  MaxMishaps   \* bound: sessions that end, users who stop, requests and turns that fail

VARIABLES
  token,     \* what the client holds: "none", "good", "stale"
  call,      \* the call it is in
  convs,     \* conversations there are
  replies,   \* turns it runs for the client: [conv, state, why, pieces, heard]
  wire,      \* frames on their way, for each turn
  stored,    \* assistant rows of each conversation: the turns they are of
  answer,    \* the last thing the caller was told
  mishaps

extVars == <<token, call, convs, replies, wire, stored, answer, mishaps>>

Nobody == 0
AtRest == [pc |-> "idle", given |-> FALSE, conv |-> Nobody, turn |-> Nobody,
         content |-> 0, read |-> {}, expired |-> FALSE, status |-> "none"]
NoAnswer == [status |-> "none", turn |-> Nobody, of |-> Nobody, whole |-> FALSE,
             read |-> {}, given |-> FALSE, expired |-> FALSE]

ExtInit ==
  /\ token = "none" /\ call = AtRest /\ convs = 1 /\ replies = <<>> /\ wire = <<>>
  /\ stored = [c \in 1..MaxAsked + 1 |-> <<>>] /\ answer = NoAnswer /\ mishaps = 0

Mishap == mishaps < MaxMishaps /\ mishaps' = mishaps + 1
client == <<token, call, answer>>
platform == <<convs, replies, wire, stored>>

CallAt(pc) == call.pc = pc
\* The caller is told; of is the turn whose text it is given, whole that nothing
\* of that text is missing.
Tell(status, of, whole, read) ==
  /\ answer' = [status |-> status, turn |-> call.turn, of |-> of, whole |-> whole,
                read |-> read, given |-> call.given, expired |-> call.expired]
  /\ call' = AtRest
Throw(status) == Tell(status, Nobody, FALSE, call.read)

-----------------------------------------------------------------------------
(* The client.                                                             *)

Begin ==
  /\ CallAt("idle") /\ Len(replies) < MaxAsked
  /\ \/ \E c \in 1..convs : call' = [AtRest EXCEPT !.pc = "chat", !.given = TRUE, !.conv = c]
     \/ convs <= MaxAsked /\ call' = [AtRest EXCEPT !.pc = "make"]
  /\ UNCHANGED <<token, platform, answer, mishaps>>

\* api: a client without a token logs in, one that is answered 401 does so once more.
\* The login may be refused, or the platform be gone.
Make ==
  /\ CallAt("make")
  /\ \/ /\ convs' = convs + 1 /\ token' = "good"
        /\ call' = [call EXCEPT !.pc = "chat", !.conv = convs']
        /\ UNCHANGED <<answer, mishaps>>
     \/ /\ Mishap /\ Throw("refused") /\ token' \in {"none", token} \ {"stale"}
        /\ UNCHANGED convs
  /\ UNCHANGED <<replies, wire, stored>>

\* chatStream: it logs in without a token only; what a 401 says here is thrown.
Chat ==
  /\ CallAt("chat")
  /\ \/ /\ token = "stale" /\ Throw("401") /\ UNCHANGED <<token, replies, wire, mishaps>>
     \/ /\ token # "stale" /\ token' = "good"
        /\ replies' = Append(replies, [conv |-> call.conv, state |-> "runs", why |-> "none",
                                   pieces |-> 0, heard |-> TRUE])
        /\ wire' = Append(wire, <<>>)
        /\ call' = [call EXCEPT !.pc = "read", !.turn = Len(replies')]
        /\ UNCHANGED <<answer, mishaps>>
     \/ token # "stale" /\ Mishap /\ Throw("refused") /\ UNCHANGED <<token, replies, wire>>
  /\ UNCHANGED <<convs, stored>>

Ends == {"done", "saved", "stopped", "error"}

\* What the caller is told of the turn, from what has been read of it.
StatusOf(seen) ==
  IF seen \cap {"saved", "stopped", "error"} # {}
  THEN CHOOSE s \in {"saved", "stopped", "error"} : s \in seen
  ELSE "unknown"

\* An answer that is still empty is looked for in the history.
Conclude(status, c) ==
  IF c.content = 0 THEN call' = [c EXCEPT !.pc = "back", !.status = status] /\ UNCHANGED answer
  ELSE /\ answer' = [status |-> status, turn |-> c.turn, of |-> c.turn,
                     whole |-> c.content = replies[c.turn].pieces, read |-> c.read,
                     given |-> c.given, expired |-> c.expired]
       /\ call' = AtRest

\* The pieces of text among frames.
Deltas(frames) == Cardinality({i \in DOMAIN frames : frames[i] = "delta"})

\* A chunk holds one or more frames.  Reading goes on until one of them ends the turn;
\* a turn that failed says so in a frame of its own.
Read ==
  /\ CallAt("read") /\ wire[call.turn] # <<>>
  /\ \E j \in 1..Len(wire[call.turn]) :
       LET chunk == SubSeq(wire[call.turn], 1, j)
           seen == call.read \cup Range(chunk)
           next == [call EXCEPT !.read = seen,
                                !.content = @ + Deltas(chunk)]
       IN /\ wire' = [wire EXCEPT ![call.turn] =
                               IF seen \cap Ends = {} THEN SubSeq(@, j + 1, Len(@)) ELSE <<>>]
          /\ IF seen \cap Ends = {} THEN call' = next /\ UNCHANGED <<replies, answer>>
             ELSE /\ replies' = [replies EXCEPT ![call.turn].heard = FALSE]
                  /\ IF "failed" \in seen
                     THEN Tell("failed", Nobody, FALSE, seen)
                     ELSE Conclude(StatusOf(seen), next)
  /\ UNCHANGED <<token, convs, stored, mishaps>>

\* Enough waited: the stream is broken off, and the platform stops the turn.
HungUp(t) == [t EXCEPT !.heard = FALSE,
  !.why = IF t.why = "none" /\ t.state = "runs" THEN "disconnect" ELSE t.why]
Timeout ==
  /\ CallAt("read") /\ replies' = [replies EXCEPT ![call.turn] = HungUp(@)] /\ Conclude("timeout", call)
  /\ wire' = [wire EXCEPT ![call.turn] = <<>>]
  /\ UNCHANGED <<token, convs, stored, mishaps>>

\* GET the messages: the last of the assistant's, or nothing when that fails too.
LastOf(c) == IF stored[c] = <<>> THEN Nobody ELSE Last(stored[c])
Back ==
  /\ CallAt("back")
  /\ \/ /\ Tell(call.status, LastOf(call.conv), LastOf(call.conv) # Nobody, call.read)
        /\ token' = "good" /\ UNCHANGED mishaps
     \/ /\ Mishap /\ Tell(call.status, Nobody, FALSE, call.read)
        /\ token' \in {"none", token} \ {"stale"}
  /\ UNCHANGED platform

-----------------------------------------------------------------------------
(* The platform.                                                           *)

\* The frames of turn n, when somebody reads them.
Sends(n, frames) ==
  wire' = IF replies[n].heard THEN [wire EXCEPT ![n] = @ \o frames] ELSE wire
Stores(n) == stored' = [stored EXCEPT ![replies[n].conv] = Append(@, n)]

Piece(n) ==
  /\ replies[n].state = "runs" /\ replies[n].why = "none" /\ replies[n].pieces < MaxPieces
  /\ replies' = [replies EXCEPT ![n].pieces = @ + 1] /\ Sends(n, <<"delta">>)
  /\ UNCHANGED <<client, convs, stored, mishaps>>

\* The answer is in the history before done is sent; run_end waits for the record of
\* the delivery.
Save(n) ==
  /\ replies[n].state = "runs" /\ replies[n].why = "none" /\ replies[n].pieces > 0
  /\ replies' = [replies EXCEPT ![n].state = "saved"] /\ Stores(n) /\ Sends(n, <<"done">>)
  /\ UNCHANGED <<client, convs, mishaps>>
RunEnd(n) ==
  /\ replies[n].state = "saved"
  /\ replies' = [replies EXCEPT ![n].state = "over", ![n].why = "saved"] /\ Sends(n, <<"saved">>)
  /\ UNCHANGED <<client, convs, stored, mishaps>>

\* A turn that was stopped, or broke: a row that says so, then the end.
Stopped(n) ==
  /\ replies[n].state = "runs" /\ replies[n].why \in {"user", "disconnect"}
  /\ replies' = [replies EXCEPT ![n].state = "over"] /\ Stores(n) /\ Sends(n, <<"stopped">>)
  /\ UNCHANGED <<client, convs, mishaps>>
Broke(n) ==
  /\ replies[n].state = "runs" /\ Mishap
  /\ replies' = [replies EXCEPT ![n].state = "over", ![n].why = "failed"]
  /\ Stores(n) /\ Sends(n, <<"failed", "error">>)
  /\ UNCHANGED <<client, convs>>

UserStops(n) ==
  /\ replies[n].state = "runs" /\ replies[n].why = "none" /\ Mishap
  /\ replies' = [replies EXCEPT ![n].why = "user"]
  /\ UNCHANGED <<client, convs, wire, stored>>

\* The session ends.
Expire ==
  /\ token = "good" /\ Mishap /\ token' = "stale"
  /\ call' = IF CallAt("idle") THEN call ELSE [call EXCEPT !.expired = TRUE]
  /\ UNCHANGED <<platform, answer>>

ExtNext ==
  \/ Begin \/ Make \/ Chat \/ Read \/ Timeout \/ Back \/ Expire
  \/ \E n \in DOMAIN replies :
       Piece(n) \/ Save(n) \/ RunEnd(n) \/ Stopped(n) \/ Broke(n) \/ UserStops(n)

ExtSpec == ExtInit /\ [][ExtNext]_extVars

-----------------------------------------------------------------------------
\* A turn whose end was read is never reported as one that was not waited for, and
\* what is reported of it is what became of it: "unknown" is said of a turn that was
\* answered and kept (rw-jsonrpc.mjs:89-96).
StatusIsTrue ==
  LET n == answer.turn
  IN /\ answer.status = "timeout" => answer.read \cap Ends = {}
     /\ answer.status \in {"saved", "unknown"} => replies[n].state \in {"saved", "over"}
                                                   /\ n \in Range(stored[replies[n].conv])
     /\ answer.status = "stopped" => replies[n].why = "user"
     /\ answer.status = "failed" => replies[n].why = "failed"
     /\ answer.status \notin {"error"}

\* An answer is the whole text of the caller's own turn.  Of a turn that was stopped
\* before it said anything, or not waited for, the last row of the history is given
\* instead, which may be of another turn.
ContentIsOwn ==
  /\ answer.status \in {"saved", "unknown"} => answer.of = answer.turn /\ answer.whole
  /\ answer.of \notin {Nobody, answer.turn} =>
       \/ answer.status = "timeout"
       \/ answer.status = "stopped" /\ \E n \in 1..answer.turn - 1 : replies[n].why # "saved"

\* A question is refused for the session's sake only when no request of the same call
\* logged in again: the conversation was named by the caller, or the session ended
\* between the two requests (rw-jsonrpc.mjs:68).
RefusedOnlyStale == answer.status = "401" => answer.given \/ answer.expired

OutsideSafe == StatusIsTrue /\ ContentIsOwn /\ RefusedOnlyStale
=============================================================================
