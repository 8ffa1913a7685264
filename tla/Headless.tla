------------------------------ MODULE Headless ------------------------------
(***************************************************************************)
(* A task run without the server (scripts/rw-run.mjs): one process parses  *)
(* its command line, prepares the storage, puts the task into a            *)
(* conversation, runs the agent in it, and prints one line.  It shares the *)
(* tables with the server, which may run a turn in the same conversation,  *)
(* delete it or be started again meanwhile: nothing tells the two apart.   *)
(* The rows of running tasks are those of server/runtrack.js.              *)
(***************************************************************************)
EXTENDS Naturals, Sequences, FiniteSets, SequencesExt

CONSTANTS
  Nil,        \* no value, no id
  MaxArgs,     \* bound: words of a command line that is only parsed
  MaxTurns,    \* bound: turns of the server
  MaxUpsets    \* bound: failures, deletions, starts of the server and kills, together

VARIABLES
  argv,      \* the command line
  head,      \* the process
  printed,   \* what it wrote to stdout
  conv,      \* the conversation: "none" until one is made, "there", "gone"
  messages,  \* rows: [id, role, by]
  runRow,    \* rows of agent_runs for the conversation: status and who has taken it up
  calls,     \* rows of tool_calls: [by, message]
  web,       \* the server's turn: where it is and the row it took up
  overlap,   \* both were at work in the conversation at one time
  turns, upsets

headVars == <<argv, head, printed, conv, messages, runRow, calls, web, overlap,
              turns, upsets>>

-----------------------------------------------------------------------------
(* The command line.                                                       *)

Word == {"--help", "--quiet", "--task", "--conversation", "--", "--typo", "text", "7"}
Dashed == {"--help", "--quiet", "--task", "--conversation", "--", "--typo"}

Unparsed == [state |-> "ok", need |-> Nil, only |-> FALSE, help |-> FALSE,
             task |-> Nil, conversation |-> Nil]

\* The same, with the word behind an option taken whatever it is.
Parsed_TakesAll(p, w) ==
  CASE p.state = "bad" -> p
    [] p.need # Nil -> [p EXCEPT !.need = Nil, !.task = IF p.need = "--task" THEN w ELSE @,
                                  !.conversation = IF p.need = "--task" THEN @ ELSE w]
    [] ~p.only /\ w = "--" -> [p EXCEPT !.only = TRUE]
    [] ~p.only /\ w = "--help" -> [p EXCEPT !.help = TRUE]
    [] ~p.only /\ w = "--quiet" -> p
    [] ~p.only /\ w \in {"--task", "--conversation"} -> [p EXCEPT !.need = w]
    [] ~p.only /\ w \in Dashed -> [p EXCEPT !.state = "bad"]
    [] OTHER -> IF p.task # Nil THEN [p EXCEPT !.state = "bad"] ELSE [p EXCEPT !.task = w]

\* One word: the value an option waits for, an option, or the task.
Parsed(p, w) ==
  CASE p.state = "bad" -> p
    [] p.need # Nil ->
         IF w \in Dashed THEN [p EXCEPT !.state = "bad"]
         ELSE [p EXCEPT !.need = Nil, !.task = IF p.need = "--task" THEN w ELSE @,
                        !.conversation = IF p.need = "--task" THEN @ ELSE w]
    [] ~p.only /\ w = "--" -> [p EXCEPT !.only = TRUE]
    [] ~p.only /\ w = "--help" -> [p EXCEPT !.help = TRUE]
    [] ~p.only /\ w = "--quiet" -> p
    [] ~p.only /\ w \in {"--task", "--conversation"} -> [p EXCEPT !.need = w]
    [] ~p.only /\ w \in Dashed -> [p EXCEPT !.state = "bad"]
    [] OTHER -> IF p.task # Nil THEN [p EXCEPT !.state = "bad"] ELSE [p EXCEPT !.task = w]

\* parseArgs: the values are judged last, and not at all when help was asked for.
parseArgs(words) ==
  LET p == FoldLeft(Parsed, Unparsed, words)
  IN IF p.state = "bad" \/ p.need # Nil THEN [do |-> "bad", task |-> Nil, conversation |-> Nil]
     ELSE IF p.help THEN [do |-> "help", task |-> Nil, conversation |-> Nil]
     ELSE IF p.conversation \notin {Nil, "7"} \/ p.task = Nil
          THEN [do |-> "bad", task |-> Nil, conversation |-> Nil]
     ELSE [do |-> "run", task |-> p.task, conversation |-> p.conversation]

-----------------------------------------------------------------------------
\* Lines that are run: with the conversation that is there, and without one.
RunLines == {<<"text">>, <<"--conversation", "7", "text">>}
Free == [pc |-> "idle", run |-> Nil, message |-> Nil]

HeadInit ==
  /\ argv \in SeqOf(Word, MaxArgs) \cup RunLines
  /\ head = [pc |-> "start", run |-> Nil, message |-> Nil, outcome |-> Nil,
             sent |-> {}, exit |-> Nil]
  /\ printed = <<>> /\ messages = {} /\ runRow = <<>> /\ calls = {}
  /\ conv = IF argv \in RunLines THEN "there" ELSE "none"
  /\ web = Free /\ overlap = FALSE /\ turns = 0 /\ upsets = 0

Upset == upsets < MaxUpsets /\ upsets' = upsets + 1
server == <<web, turns>>
tables == <<conv, messages, runRow, calls>>

HeadAt(pc) == head.pc = pc
Goes(pc) == head' = [head EXCEPT !.pc = pc]
Works(a) == IF a = "head" THEN head.pc \in {"ensure", "agent", "save", "attach", "mark"}
            ELSE web.pc # "idle"

\* The line on stdout and the code of the process.
OutLine(ok, status, message) == [ok |-> ok, status |-> status, message |-> message]
Prints(ok, status, message) ==
  /\ printed' = Append(printed, OutLine(ok, status, message))
  /\ head' = [head EXCEPT !.pc = "over",
                          !.exit = IF ok THEN 0 ELSE IF status = "bad_usage" THEN 2 ELSE 1]
Fails == Prints(FALSE, "failed", Nil)

\* main: a command line that is wrong, or that asks for help, touches nothing.
Main ==
  /\ HeadAt("start")
  /\ LET p == parseArgs(argv)
     IN CASE p.do = "bad"  -> Prints(FALSE, "bad_usage", Nil)
          [] p.do = "help" -> Prints(TRUE, "usage", Nil)
          [] p.do = "run"  -> Goes("boot") /\ UNCHANGED printed
  /\ UNCHANGED <<argv, tables, server, overlap, upsets>>

\* bootstrapStorage, and resolveConversation: the one asked for must be there, or
\* one is made.  Without the database, or an account, the process ends.
Resolve ==
  /\ HeadAt("boot") /\ argv \in RunLines
  /\ \/ Upset /\ Fails /\ UNCHANGED conv
     \/ /\ UNCHANGED upsets
        /\ IF parseArgs(argv).conversation = Nil THEN conv' = "there" /\ Goes("ask") /\ UNCHANGED printed
           ELSE IF conv = "there" THEN Goes("ask") /\ UNCHANGED <<conv, printed>>
           ELSE Fails /\ UNCHANGED conv
  /\ UNCHANGED <<argv, messages, runRow, calls, server, overlap>>

NewMessage(role, by) == [id |-> Cardinality(messages) + 1, role |-> role, by |-> by]
\* INSERT ... SELECT ... FROM conversations: nothing is put beneath what is gone.
Inserted(role, by) == IF conv = "there" THEN messages \cup {NewMessage(role, by)} ELSE messages

\* The task goes into the history before the agent is asked; the history is sent.
Ask ==
  /\ HeadAt("ask")
  /\ \/ Upset /\ Fails /\ UNCHANGED messages
     \/ /\ UNCHANGED <<upsets, printed>>
        /\ messages' = Inserted("user", "head")
        /\ head' = [head EXCEPT !.pc = "ensure", !.sent = messages']
  /\ overlap' = (overlap \/ Works("web"))
  /\ UNCHANGED <<argv, conv, runRow, calls, server>>

\* ensureRun: a row that runs is shared, one that was left is taken up again.
Latest == Len(runRow)
Ensured(a) ==
  IF Latest > 0 /\ runRow[Latest].status \in {"running", "interrupted", "paused"}
  THEN [runRow EXCEPT ![Latest] = [status |-> "running", by |-> runRow[Latest].by \cup {a}]]
  ELSE Append(runRow, [status |-> "running", by |-> {a}])

Ensure ==
  /\ HeadAt("ensure")
  /\ \/ Upset /\ Goes("agent") /\ UNCHANGED runRow
     \/ /\ UNCHANGED upsets /\ runRow' = Ensured("head")
        /\ head' = [head EXCEPT !.pc = "agent", !.run = Len(runRow')]
  /\ UNCHANGED <<argv, printed, conv, messages, calls, server, overlap>>

\* runAgent: tools are called, and it ends, is held or paused, or throws.  What throws
\* leaves its row of agent_runs as it is.
Agent ==
  /\ HeadAt("agent")
  /\ \/ /\ Cardinality({c \in calls : c.by = "head"}) = 0
        /\ calls' = calls \cup {[by |-> "head", message |-> Nil]}
        /\ UNCHANGED <<head, printed, upsets>>
     \/ \E o \in {"saved", "guard", "paused"} :
          /\ head' = [head EXCEPT !.pc = "save", !.outcome = o]
          /\ UNCHANGED <<calls, printed, upsets>>
     \/ Upset /\ Fails /\ UNCHANGED calls
  /\ UNCHANGED <<argv, conv, messages, runRow, server, overlap>>

\* The answer; an insert that fails is told on stderr only.
Save ==
  /\ HeadAt("save")
  /\ \/ Upset /\ Goes("mark") /\ UNCHANGED messages
     \/ /\ UNCHANGED upsets /\ messages' = Inserted("assistant", "head")
        /\ head' = IF conv = "there"
                   THEN [head EXCEPT !.pc = "attach", !.message = NewMessage("assistant", "head").id]
                   ELSE [head EXCEPT !.pc = "mark"]
  /\ UNCHANGED <<argv, printed, conv, runRow, calls, server, overlap>>

\* The calls that belong to no message yet, whoever made them.
AttachedTo(m) == {IF c.message = Nil THEN [c EXCEPT !.message = m] ELSE c : c \in calls}

Attach ==
  /\ HeadAt("attach") /\ calls' = AttachedTo(head.message) /\ Goes("mark")
  /\ UNCHANGED <<argv, printed, conv, messages, runRow, server, overlap, upsets>>

Marked(n, status) ==
  IF n \in DOMAIN runRow /\ runRow[n].status # "deleted"
  THEN [runRow EXCEPT ![n].status = status] ELSE runRow

\* The row is marked, then the line is printed: what it names has been written.
Mark ==
  /\ HeadAt("mark")
  /\ \/ Upset /\ UNCHANGED runRow
     \/ /\ UNCHANGED upsets
        /\ runRow' = Marked(head.run, IF head.outcome = "paused" THEN "paused" ELSE "completed")
  /\ Prints(head.outcome = "saved", head.outcome, head.message)
  /\ UNCHANGED <<argv, conv, messages, calls, server, overlap>>

Kill ==
  /\ head.pc \notin {"start", "over", "dead"} /\ Upset /\ Goes("dead")
  /\ UNCHANGED <<argv, printed, tables, server, overlap>>

-----------------------------------------------------------------------------
(* The server: a turn in the same conversation, its deletion, a start.      *)

WebStart ==
  /\ web.pc = "idle" /\ conv = "there" /\ turns < MaxTurns /\ turns' = turns + 1
  /\ argv \in RunLines
  /\ messages' = Inserted("user", "web") /\ runRow' = Ensured("web")
  /\ web' = [pc |-> "agent", run |-> Len(runRow'), message |-> Nil]
  /\ overlap' = (overlap \/ Works("head"))
  /\ UNCHANGED <<argv, head, printed, conv, calls, upsets>>

WebCall ==
  /\ web.pc = "agent" /\ ~\E c \in calls : c.by = "web"
  /\ calls' = calls \cup {[by |-> "web", message |-> Nil]}
  /\ UNCHANGED <<argv, head, printed, conv, messages, runRow, server, overlap, upsets>>

WebMark ==
  /\ web.pc = "agent" /\ web' = [web EXCEPT !.pc = "save"]
  /\ \E status \in {"completed", "paused", "interrupted"} : runRow' = Marked(web.run, status)
  /\ UNCHANGED <<argv, head, printed, conv, messages, calls, overlap, turns, upsets>>

WebSave ==
  /\ web.pc = "save" /\ messages' = Inserted("assistant", "web")
  /\ web' = IF conv = "there" THEN [web EXCEPT !.pc = "attach", !.message = NewMessage("assistant", "web").id]
            ELSE Free
  /\ UNCHANGED <<argv, head, printed, conv, runRow, calls, overlap, turns, upsets>>

WebAttach ==
  /\ web.pc = "attach" /\ calls' = AttachedTo(web.message) /\ web' = Free
  /\ UNCHANGED <<argv, head, printed, conv, messages, runRow, overlap, turns, upsets>>

\* DELETE of the conversation: its row first, then what hangs beneath it.
DeleteConv ==
  /\ conv = "there" /\ head.pc # "start" /\ Upset /\ conv' = "going"
  /\ UNCHANGED <<argv, head, printed, messages, runRow, calls, server, overlap>>
DeleteRows ==
  /\ conv = "going" /\ conv' = "gone" /\ messages' = {} /\ calls' = {}
  /\ runRow' = [i \in DOMAIN runRow |-> [runRow[i] EXCEPT !.status = "deleted"]]
  /\ UNCHANGED <<argv, head, printed, server, overlap, upsets>>

\* The server starts again: its turn is gone, and every row that runs is interrupted,
\* also the row of a process that is still at work.
Boot ==
  /\ argv \in RunLines /\ Upset /\ web' = Free
  /\ runRow' = [i \in DOMAIN runRow |->
                  IF runRow[i].status = "running" THEN [runRow[i] EXCEPT !.status = "interrupted"]
                  ELSE runRow[i]]
  /\ UNCHANGED <<argv, head, printed, conv, messages, calls, overlap, turns>>

HeadNext ==
  \/ Main \/ Resolve \/ Ask \/ Ensure \/ Agent \/ Save \/ Attach \/ Mark \/ Kill
  \/ WebStart \/ WebCall \/ WebMark \/ WebSave \/ WebAttach
  \/ DeleteConv \/ DeleteRows \/ Boot

HeadSpec == HeadInit /\ [][HeadNext]_headVars

-----------------------------------------------------------------------------
\* An option is never taken for a task unless "--" said so, nor for a value; two
\* tasks on one line are refused unless an option gave the second.
ArgsAreRead ==
  LET p == parseArgs(argv)
      ddash == {i \in DOMAIN argv : argv[i] = "--"}
  IN head.pc = "start" =>
     /\ p.do = "run" /\ p.task \in Dashed =>
          \E i \in ddash, j \in DOMAIN argv : i < j /\ argv[j] = p.task
     /\ p.conversation \in {Nil, "7"}
     /\ p.do # "bad" => \A i \in DOMAIN argv :
          argv[i] \in {"--task", "--conversation"} /\ (\A k \in ddash : i < k) =>
             i < Len(argv) /\ argv[i + 1] \notin Dashed

\* A process that ended by itself printed one line, whatever failed on the way, and
\* its code says what the line says.
OneLine ==
  /\ Len(printed) = (IF head.pc = "over" THEN 1 ELSE 0)
  /\ head.pc = "over" =>
       /\ head.exit = 0 <=> printed[1].ok
       /\ head.exit = 2 <=> printed[1].status = "bad_usage"

\* What the line names is in the history, unless the conversation was deleted; the
\* task was put there before the agent was asked, and was sent.
DurableFirst ==
  /\ head.pc = "over" /\ head.message # Nil /\ conv = "there" =>
       [id |-> head.message, role |-> "assistant", by |-> "head"] \in messages
  /\ head.pc \in {"agent", "save", "attach", "mark"} /\ conv = "there" =>
       \E m \in head.sent : m.role = "user" /\ m.by = "head"
  /\ conv = "gone" => messages = {}

\* A message has the calls of its own run, unless both were at work at one time or a
\* run before it left calls behind.
CallsOfOwn ==
  \A c \in calls : c.message # Nil =>
    \/ overlap
    \/ \E m \in messages : m.id = c.message /\ m.by = c.by
    \/ upsets > 0

\* A row that runs is somebody's who works, or was left by one who threw, was killed
\* or could not mark it; and a row is shared only when both were at work at one time.
RunRowsTrue ==
  \A i \in DOMAIN runRow :
    /\ runRow[i].status = "running" =>
         \/ head.run = i /\ Works("head")
         \/ web.run = i /\ web.pc = "agent"
         \/ upsets > 0
    /\ runRow[i].status \in {"completed", "paused"} /\ ~overlap /\ upsets = 0 =>
         ~(head.run = i /\ Works("head")) /\ ~(web.run = i /\ web.pc = "agent")

HeadSafe == ArgsAreRead /\ OneLine /\ DurableFirst /\ CallsOfOwn /\ RunRowsTrue
=============================================================================
