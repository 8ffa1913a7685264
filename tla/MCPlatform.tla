----------------------------- MODULE MCPlatform ------------------------------
(***************************************************************************)
(* One scheduled task, the parts of the platform around the agent, the     *)
(* page of the browser and the two media of the storage, for one run of    *)
(* TLC.  They share no state: a behaviour takes the steps of one of them.  *)
(* The parts that are proved about are extended and have variables of      *)
(* their own; the others are instances that have g1, g2, ... for their     *)
(* variables, in the order of their modules; in seven of them the media    *)
(* are given the writes of some of their tables.                           *)
(***************************************************************************)
EXTENDS Scheduler, ChannelTurns, Undo, Migrations, RpcServer, EventLog

CONSTANTS None, RingMax, SliceMax, IdleTicks, MaxSeq, MaxRuns, Writer, Batch,
          MaxKilled, Null, Missing, MaxOps, MaxDays, Week, Owner, TraceMax, Name,
          PageConv, MaxTexts, Nothing, MaxStreams, MaxOpens, Round, Threshold,
          Unread, MaxDeletes, GoalTitle, Automated, BMAX, MaxActs, MaxLines, Down,
          MaxReports, MaxTrouble, Cycle, MaxArchived, MaxRecords, MaxArgs,
          MaxTurns, MaxUpsets, MaxAsked, MaxPieces, MaxMishaps,
          Unreadable, NoTable, Undeclared, BlankText, Ref, Placeholder

\* Two minutes in three, and never (only an edit gives that one).
Crons == {{}, {1, 2}}

VARIABLES which, g1, g2, g3, g4, g5, g6, g7, g8, g9, g10, g11, g12, g13, g14,
          g15, g16

\* The variables a part has no use for.
Idle16 == g16 = 0
Idle15 == g15 = 0 /\ Idle16
Idle14 == g14 = 0 /\ Idle15
Idle13 == g13 = 0 /\ Idle14
Idle12 == g12 = 0 /\ Idle13
Idle11 == g11 = 0 /\ Idle12
Idle10 == g10 = 0 /\ Idle11
Idle9 == g9 = 0 /\ Idle10
Idle7 == g7 = 0 /\ g8 = 0 /\ Idle9
Idle6 == g6 = 0 /\ Idle7
Idle1 == g1 = 0 /\ g2 = 0 /\ g3 = 0 /\ g4 = 0 /\ g5 = 0 /\ Idle6
still1 == <<g1, g2, g3, g4, g5, g6, g7, g8, g9, g10, g11, g12, g13, g14, g15,
           g16>>
still6 == <<g6, g7, g8, g9, g10, g11, g12, g13, g14, g15, g16>>
still7 == <<g7, g8, g9, g10, g11, g12, g13, g14, g15, g16>>
still9 == <<g9, g10, g11, g12, g13, g14, g15, g16>>
still11 == <<g11, g12, g13, g14, g15, g16>>
still12 == <<g12, g13, g14, g15, g16>>
still13 == <<g13, g14, g15, g16>>
still14 == <<g14, g15, g16>>
still15 == <<g15, g16>>

Stream == INSTANCE EventStream WITH
  ring <- g1, actSeq <- g2, running <- g3, runs <- g4, timers <- g5,
  emitted <- g6, piece <- g7, stored <- g8, client <- g9, cursor <- g10,
  got <- g11, twice <- g12, answer <- g13, quiet <- g14
Store == INSTANCE JsonStore WITH
  memory <- g1, file <- g2, waiting <- g3, saves <- g4, caller <- g5,
  draft <- g6, overlaid <- g7, killed <- g8
Page == INSTANCE ChatPage WITH
  cur <- g1, curRef <- g2, busy <- g3, busyRef <- g4, input <- g5,
  drafts <- g6, queue <- g7, streams <- g8, busyConv <- g9, making <- g10,
  deleting <- g11, listed <- g12, clicks <- g13, entered <- g14,
  flushed <- g15, owed <- g16

\* Names that differ in case only are one to the databases.
LOCAL Small(n) == IF n = "Ann" THEN "ann" ELSE n
Rows == INSTANCE MediaRows WITH
  Fold <- Small, file <- g1, base <- g2, today <- g3, writes <- g4, told <- g5
Records == INSTANCE MediaRecords WITH
  file <- g1, base <- g2, today <- g3, writes <- g4, told <- g5
\* Two rows are enough to be summed, counted and put in order.
Sums == INSTANCE MediaRecords WITH
  MaxOps <- 2, file <- g1, base <- g2, today <- g3, writes <- g4, told <- g5

\* Self evaluation.
Eval == INSTANCE SelfEval WITH
  UsageRow <- Round,
  facts <- g1, live <- g2, rest <- g3, lines <- g4, stage <- g5, known <- g6,
  ledger <- g7, samples <- g8, toAsk <- g9, told <- g10, missed <- g11,
  tier <- g12, fired <- g13, deleted <- g14, faults <- g15
Proposing == INSTANCE Proposals WITH
  Run <- Writer, Key <- GoalTitle, MaxStarts <- 2, input <- g1, runs <- g2, demands <- g3,
  goals <- g4, adminAccount <- g5, crossed <- g6, starts <- g7, acts <- g8
Releasing == INSTANCE Release WITH
  MaxTime <- 2, now <- g1, world <- g2, proposals <- g3, files <- g4,
  pointer <- g5, proc <- g6, written <- g7, overlap <- g8, touched <- g9,
  started <- g10, made <- g11, lost <- g12, changes <- g13
Exit == INSTANCE EvolutionExit WITH
  board <- g1, audit <- g2, archive <- g3, put <- g4, cycles <- g5,
  landed <- g6

\* The platform used from outside the server.
Script == INSTANCE Headless WITH
  Nil <- None, argv <- g1, head <- g2, printed <- g3, conv <- g4, messages <- g5,
  runRow <- g6, calls <- g7, web <- g8, overlap <- g9, turns <- g10,
  upsets <- g11
Outside == INSTANCE ExternalCalls WITH
  token <- g1, call <- g2, convs <- g3, replies <- g4, wire <- g5, stored <- g6,
  answer <- g7, mishaps <- g8

\* The registry of tools.
\* Two built-in tools, and every way the next manifest differs from the first:
\* a row switched off, gone, wrong, unfounded or new, a level unknown or gone,
\* other limits with no table of their own, or nothing that can be read.
MCBuiltIn == <<"read_file", "write_file">>
On(limit, fault) == [on |-> TRUE, fault |-> fault, limit |-> limit]
Off == [on |-> FALSE, fault |-> "none", limit |-> 9]
Both(r, w) == "read_file" :> r @@ "write_file" :> w
Plain == On(Undeclared, "none")
Delivered == [rows |-> Both(Plain, On(9, "none")), table |-> Both("read", "write")]
MCManifests == {
  Delivered, Unreadable,
  [rows |-> Both(Plain, Off), table |-> Both("write", "write")],
  [rows |-> "read_file" :> Plain, table |-> "read_file" :> "read"],
  [rows |-> Both(On(7, "none"), On(7, "none")), table |-> NoTable],
  [rows |-> Both(On(7, "field"), Plain), table |-> Both("full", "full")],
  [rows |-> Both(On(7, "prefix"), Plain), table |-> Both("full", "full")],
  [rows |-> Both(Plain, Plain) @@ "ghost" :> Plain, table |-> Both("full", "full") @@ "ghost" :> "read"],
  [rows |-> Both(Plain, Plain), table |-> Both("read", "admin")],
  [rows |-> Both(Plain, Plain), table |-> "read_file" :> "full"]}
\* Two connectors, one of which may be declared twice, and the servers of tools.
MCIds == <<"c1", "c2", "mcp">>
Http(s, names) == [source |-> s, names |-> names, fault |-> "none"]
MCHttp == {<<>>, <<Http("c1", <<"conn_a">>)>>,
           <<Http("c1", <<"conn_a">>), Http("c1", <<"conn_b">>)>>,
           <<Http("c1", <<"conn_a", "conn_b">>), Http("c2", <<"conn_b">>)>>}
MCServer == {<<>>, <<"mcp_s">>, <<"mcp_s", "mcp_s">>}
Tools == INSTANCE ToolRegistry WITH
  BuiltIn <- MCBuiltIn, Manifests <- MCManifests, FirstManifest <- Delivered,
  SourceIds <- MCIds, HttpLists <- MCHttp, ServerTools <- MCServer,
  MaxSaves <- 2, MaxPasses <- 2, MaxStops <- 1,
  manifest <- g1, touched <- g2, imported <- g3, active <- g4, entry <- g5,
  policy <- g6, sources <- g7, tools <- g8, up <- g9, connectors <- g10,
  keys <- g11, reading <- g12, applied <- g13, used <- g14

\* The keys the servers of tools start with.
\* The scripts move and change three of them, of which .env has one and the shell
\* another; the pages show one.
MCDotEnv == "a" :> Nothing @@ "b" :> "v" @@ "c" :> Nothing
MCShell == "a" :> Nothing @@ "b" :> Nothing @@ "c" :> "v"
NoKeys == "a" :> Nothing @@ "b" :> Nothing @@ "c" :> Nothing
MCDocuments == {NoKeys, "a" :> BlankText @@ "b" :> "u" @@ "c" :> Nothing}
MCSettings ==
  {<<"a" :> "u" @@ "b" :> "u" @@ "c" :> "u", "a" :> t @@ "b" :> Nothing @@ "c" :> Nothing>> :
     t \in {"v", Nothing}}
Moved == INSTANCE Credentials WITH
  Servers <- 1..2, Keys <- {"a", "b", "c"}, Plain <- {"u", "v"}, Env <- MCShell,
  DotEnv <- MCDotEnv, Documents <- MCDocuments, Settings <- MCSettings, Admins <- {},
  MaxMoves <- 2, MaxChanges <- 1, MaxSends <- 0, MaxFailures <- 1,
  document <- g1, settings <- g2, migration <- g3, rotation <- g4, page <- g5,
  saving <- g6, rotated <- g7, raced <- g8, gone <- g9, counts <- g10
Shown == INSTANCE Credentials WITH
  Servers <- 1..2, Keys <- {"a"}, Plain <- {"u"}, Env <- "a" :> Nothing,
  DotEnv <- "a" :> Nothing, Documents <- {"a" :> Nothing},
  Settings <- {<<"a" :> "u", "a" :> Nothing>>}, Admins <- {"a1", "a2"},
  MaxMoves <- 1, MaxChanges <- 1, MaxSends <- 2, MaxFailures <- 0,
  document <- g1, settings <- g2, migration <- g3, rotation <- g4, page <- g5,
  saving <- g6, rotated <- g7, raced <- g8, gone <- g9, counts <- g10

\* The process on its host: its sandbox, its background commands, its restarts.
\* Two runners, of which each is absent, isolates, lets a probe write outside,
\* or only tells it that it could not.
MCChain == <<"bwrap", "unshare">>
MCHosts ==
  {[kind |-> "bwrap" :> b @@ "unshare" :> u, strict |-> s, atLoad |-> s] :
     b, u \in {"broken", "isolates", "leaks", "lies"}, s \in BOOLEAN}
BareHost == [kind |-> "bwrap" :> "broken" @@ "unshare" :> "broken", strict |-> FALSE,
             atLoad |-> FALSE]
Sandbox == INSTANCE HostProcess WITH
  Chain <- MCChain, Hosts <- MCHosts, Jobs <- {}, Turns <- {}, Chats <- {}, MaxProbes <- 3,
  MaxCommands <- 2, MaxKills <- 0, MaxStops <- 1, MaxTimeouts <- 1,
  host <- g1, up <- g2, probes <- g3, inFlight <- g4, cache <- g5, inside <- g6,
  outside <- g7, ledger <- g8, ran <- g9, disturbed <- g10, jobs <- g11, turns <- g12,
  restart <- g13, counts <- g14
Commands == INSTANCE HostProcess WITH
  Chain <- MCChain, Hosts <- {BareHost}, Jobs <- {"j1", "j2"}, Turns <- {}, Chats <- {},
  MaxProbes <- 1, MaxCommands <- 0, MaxKills <- 2, MaxStops <- 1, MaxTimeouts <- 1,
  host <- g1, up <- g2, probes <- g3, inFlight <- g4, cache <- g5, inside <- g6,
  outside <- g7, ledger <- g8, ran <- g9, disturbed <- g10, jobs <- g11, turns <- g12,
  restart <- g13, counts <- g14
Restarts == INSTANCE HostProcess WITH
  Chain <- MCChain, Hosts <- {BareHost}, Jobs <- {}, Turns <- {"t1", "t2", "t3"},
  Chats <- {"t1", "t2"}, MaxProbes <- 1, MaxCommands <- 0, MaxKills <- 0, MaxStops <- 1,
  MaxTimeouts <- 0,
  host <- g1, up <- g2, probes <- g3, inFlight <- g4, cache <- g5, inside <- g6,
  outside <- g7, ledger <- g8, ran <- g9, disturbed <- g10, jobs <- g11, turns <- g12,
  restart <- g13, counts <- g14

ownVars == <<schedVars, chanVars, undoVars, migVars, rpcVars, logVars>>
guestVars == <<which, still1>>
platformVars == <<ownVars, guestVars>>

GuestInit ==
  \/ which \in {"scheduler", "channel", "undo", "start", "rpc", "log"} /\ Idle1
  \/ which = "stream" /\ Stream!StreamInit /\ Idle15
  \/ which = "store" /\ Store!StoreInit /\ Idle9
  \/ which = "headless" /\ Script!HeadInit /\ Idle12
  \/ which = "outside" /\ Outside!ExtInit /\ Idle9
  \/ which = "page" /\ Page!PageInit
  \/ which = "evaluation" /\ Eval!EvalInit /\ Idle16
  \/ which = "proposals" /\ Proposing!PropInit /\ Idle9
  \/ which = "release" /\ Releasing!ReleaseInit /\ Idle14
  \/ which = "exit" /\ Exit!ExitInit /\ Idle7
  \/ which = "tools" /\ Tools!RegistryInit /\ Idle15
  \/ which = "keys" /\ Moved!CredentialsInit /\ Idle11
  \/ which = "shown" /\ Shown!CredentialsInit /\ Idle11
  \/ which = "sandbox" /\ Sandbox!HostInit /\ Idle15
  \/ which = "jobs" /\ Commands!HostInit /\ Idle15
  \/ which = "restart" /\ Restarts!HostInit /\ Idle15
  \/ /\ which \in {"chats", "logins", "deliveries", "knowledge", "usage", "audit",
                   "runs"}
     /\ Rows!MediaInit /\ Idle6

\* A part that is not chosen begins in one state only.
PlatformInit ==
  /\ GuestInit
  /\ which # "undo" => disk = [f \in File |-> Absent]
  /\ which # "start" => tables = {}
  /\ which # "rpc" => input = [f \in 1..MaxFrames |-> "call"]
  /\ SchedInit /\ ChanInit /\ UndoInit /\ MigInit /\ RpcInit /\ LogInit

GuestNext ==
  \/ which = "stream" /\ Stream!StreamNext /\ UNCHANGED still15
  \/ which = "store" /\ Store!StoreNext /\ UNCHANGED still9
  \/ which = "headless" /\ Script!HeadNext /\ UNCHANGED still12
  \/ which = "outside" /\ Outside!ExtNext /\ UNCHANGED still9
  \/ which = "page" /\ Page!PageNext
  \/ which = "evaluation" /\ Eval!EvalNext /\ UNCHANGED g16
  \/ which = "proposals" /\ Proposing!PropNext /\ UNCHANGED still9
  \/ which = "release" /\ Releasing!ReleaseNext /\ UNCHANGED still14
  \/ which = "exit" /\ Exit!ExitNext /\ UNCHANGED still7
  \/ which = "tools" /\ Tools!RegistryNext /\ UNCHANGED still15
  \/ which = "keys" /\ Moved!CredentialsNext /\ UNCHANGED still11
  \/ which = "shown" /\ Shown!CredentialsNext /\ UNCHANGED still11
  \/ which = "sandbox" /\ Sandbox!HostNext /\ UNCHANGED still15
  \/ which = "jobs" /\ Commands!HostNext /\ UNCHANGED still15
  \/ which = "restart" /\ Restarts!HostNext /\ UNCHANGED still15
  \/ which = "chats" /\ Rows!ChatNext /\ UNCHANGED still6
  \/ which = "logins" /\ Rows!LoginNext /\ UNCHANGED still6
  \/ which = "deliveries" /\ Rows!DeliveryNext /\ UNCHANGED still6
  \/ which = "knowledge" /\ Records!KnowledgeNext /\ UNCHANGED still6
  \/ which = "usage" /\ Sums!UsageNext /\ UNCHANGED still6
  \/ which = "audit" /\ Sums!AuditNext /\ UNCHANGED still6
  \/ which = "runs" /\ Records!RunNext /\ UNCHANGED still6

PlatformNext ==
  \/ /\ which = "scheduler" /\ SchedNext
     /\ UNCHANGED <<chanVars, undoVars, migVars, rpcVars, logVars, guestVars>>
  \/ /\ which = "channel" /\ ChanNext
     /\ UNCHANGED <<schedVars, undoVars, migVars, rpcVars, logVars, guestVars>>
  \/ /\ which = "undo" /\ UndoNext
     /\ UNCHANGED <<schedVars, chanVars, migVars, rpcVars, logVars, guestVars>>
  \/ /\ which = "start" /\ MigNext
     /\ UNCHANGED <<schedVars, chanVars, undoVars, rpcVars, logVars, guestVars>>
  \/ /\ which = "rpc" /\ RpcNext
     /\ UNCHANGED <<schedVars, chanVars, undoVars, migVars, logVars, guestVars>>
  \/ /\ which = "log" /\ LogNext
     /\ UNCHANGED <<schedVars, chanVars, undoVars, migVars, rpcVars, guestVars>>
  \/ GuestNext /\ UNCHANGED <<ownVars, which>>

PlatformSpec == PlatformInit /\ [][PlatformNext]_platformVars
-----------------------------------------------------------------------------
\* What each part promises of its own states, and what its steps keep.
GuestsKept == [][/\ which = "stream" => Stream!StreamKept
                 /\ which = "store" => Store!StoreKept
                 /\ which = "keys" => Moved!KeysKept
                 /\ which = "shown" => Shown!KeysKept]_guestVars

\* What a server offers follows what is declared; the keys it is started with
\* resolve and stay as they were changed; a command is confined where the sandbox
\* says so, listed as running while it runs, and a restart is ordered once.
HostSafe == /\ which = "tools" => Tools!ToolFaceSafe
            /\ which = "keys" => Moved!KeysSafe
            /\ which = "shown" => Shown!KeysSafe
            /\ which = "sandbox" => Sandbox!ProcessSafe
            /\ which = "jobs" => Commands!ProcessSafe
            /\ which = "restart" => Restarts!ProcessSafe

\* The page sends what was typed in its order; the task run without a server
\* and the clients of the HTTP interface tell their callers what happened.
ClientsSafe == /\ which = "page" => Page!QueueInOrder
               /\ which = "headless" => Script!HeadSafe
               /\ which = "outside" => Outside!OutsideSafe

\* What is read of the system's own work, what is proposed of it, what a release
\* asks and when the whole counts as proved.
EvolutionSafe == /\ which = "evaluation" => Eval!EvalSafe
                 /\ which = "proposals" => Proposing!ProposeSafe
                 /\ which = "release" => Releasing!ReleaseSafe
                 /\ which = "exit" => Exit!ExitSafe

\* Whichever medium a server runs on, callers are told the same of
\* conversations, messages and tool calls; the same names and keys are taken,
\* the same sessions let in, the same deliveries found and listed; the same
\* knowledge is shown to a conversation, and the same is summed and looked back
\* on of usage, audit, events and runs (storage/index.js:1-40).
MediaSame == /\ which = "chats" => Rows!ChatsSame
             /\ which = "logins" => Rows!LoginsSame
             /\ which = "deliveries" => Rows!DeliveriesSame
             /\ which = "knowledge" => Records!KnowledgeSame
             /\ which = "usage" => Sums!UsageSame
             /\ which = "audit" => Sums!AuditSame
             /\ which = "runs" => Records!RunsSame
=============================================================================
