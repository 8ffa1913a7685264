------------------------------ MODULE RpcServer ------------------------------
(***************************************************************************)
(* The line protocol on stdin and stdout (server/jsonrpc.js, and with the  *)
(* same loop server/mcp-server.js).  Each chunk of input starts a listener *)
(* that takes lines out of one shared buffer and awaits the answer to      *)
(* each, so several listeners may take lines in turn.                      *)
(***************************************************************************)
EXTENDS Integers, Sequences

CONSTANT MaxFrames   \* lines of input

ASSUME RpcAssumption == MaxFrames \in Nat

VARIABLES
  input,      \* the lines, by what they hold
  arrived,    \* halves of lines that have arrived
  taken,      \* lines taken out of the buffer
  listener,   \* the listeners: the line each awaits, 0 when it has returned
  active,     \* the listener that runs, 0 when all wait
  written     \* the replies in order: the line, the id, what it says

rpcVars == <<input, arrived, taken, listener, active, written>>

Frames == {"call", "fails", "unknown", "params", "batch", "scalar", "garbage",
           "note", "badnote"}
Lines == arrived \div 2
Reply(f, id, says) == [line |-> f, id |-> id, says |-> says]

RpcInit ==
  /\ input \in [1..MaxFrames -> Frames]
  /\ arrived = 0 /\ taken = 0 /\ listener = <<>> /\ active = 0 /\ written = <<>>

\* dispatch: a handler that throws gives a result, the protocol's errors are
\* for what is no valid call, and without an id nothing is replied.
IsNote_Valid(f) == input[f] = "note"
IsNote(f) == input[f] \in {"note", "badnote"}
Failed_Error(f) == Reply(f, "own", "error")
Failed(f) == Reply(f, "own", "result")
Replies(f) ==
  CASE IsNote(f) -> <<>>
    [] input[f] = "scalar" -> <<>>
    [] input[f] = "batch" -> <<Reply(f, "null", "error")>>
    [] input[f] = "call" -> <<Reply(f, "own", "result")>>
    [] input[f] = "fails" -> <<Failed(f)>>
    [] OTHER -> <<Reply(f, "own", "error")>>

\* A chunk: one half of a line or more.
Arrive ==
  /\ active = 0 /\ arrived < 2 * MaxFrames
  /\ arrived' \in (arrived + 1)..(2 * MaxFrames)
  /\ listener' = Append(listener, 0) /\ active' = Len(listener')
  /\ UNCHANGED <<input, taken, written>>

\* The loop of a listener up to its next wait: it takes what is in the buffer
\* at that moment, and replies at once to what is not JSON.
More_Single == taken < Lines /\ listener[active] = 0
More == taken < Lines
NextLine_Skips == taken + 2
NextLine == taken + 1
TakeLine ==
  /\ active # 0 /\ More /\ taken' = NextLine
  /\ IF input[NextLine] = "garbage"
     THEN /\ written' = Append(written, Reply(NextLine, "null", "error"))
          /\ UNCHANGED <<listener, active>>
     ELSE /\ listener' = [listener EXCEPT ![active] = NextLine] /\ active' = 0
          /\ UNCHANGED written
  /\ UNCHANGED <<input, arrived>>
Return ==
  /\ active # 0 /\ ~More
  /\ listener' = [listener EXCEPT ![active] = 0] /\ active' = 0
  /\ UNCHANGED <<input, arrived, taken, written>>

\* The answer to a line: it is written and the listener goes on.
Answer(l) ==
  /\ active = 0 /\ listener[l] # 0
  /\ written' = written \o Replies(listener[l])
  /\ active' = l
  /\ UNCHANGED <<input, arrived, taken, listener>>

RpcNext == Arrive \/ TakeLine \/ Return \/ \E l \in DOMAIN listener : Answer(l)
RpcSpec == RpcInit /\ [][RpcNext]_rpcVars
-----------------------------------------------------------------------------
Awaited == {listener[l] : l \in DOMAIN listener} \ {0}
Settled(f) == f <= taken /\ (f \notin Awaited \/ \E l \in DOMAIN listener : listener[l] = f /\ active = l)
RepliesTo(f) == {n \in DOMAIN written : written[n].line = f}

\* The state has its type.
RpcTypeOK ==
  /\ arrived \in 0..(2 * MaxFrames) /\ taken \in 0..Lines
  /\ active \in 0..Len(listener)
  /\ \A l \in DOMAIN listener : listener[l] \in 0..taken

\* Of every line that is done with, whichever listener took it, there is one
\* reply in all, and none to a notification, valid or not (jsonrpc.js:225).
RepliedOnce ==
  \A f \in 1..taken :
    IF ~Settled(f) THEN RepliesTo(f) = {}
    ELSE \E S \in SUBSET DOMAIN written :
           S = RepliesTo(f) /\ (IF input[f] \in {"note", "badnote", "scalar"} THEN S = {}
                                ELSE \E n \in S : S = {n})

\* A caller tells what it must not send again from what did not work: only the
\* first is an error of the protocol (jsonrpc.js:26).
FailureIsResult ==
  \A n \in DOMAIN written :
    (written[n].says = "result") = (input[written[n].line] \in {"call", "fails"})

\* No line is left in the buffer when every listener has returned, however the
\* lines were cut into chunks.  Behind a line that is awaited the others wait.
NothingLeft == active = 0 /\ Awaited = {} => taken = Lines

\* What the server owes each line it reads: the parts above.
RpcSafe == RpcTypeOK /\ RepliedOnce /\ FailureIsResult /\ NothingLeft
=============================================================================
