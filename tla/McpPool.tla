------------------------------- MODULE McpPool -------------------------------
(***************************************************************************)
(* Servers of tools outside the process (server/mcp.js): their processes,  *)
(* the pool of clients, and the two passes that fill it and copy it to the *)
(* tool face (server/connectors.js), the watchdog's of every minute and    *)
(* the reload an administrator asks for after an edit of the declaration.  *)
(***************************************************************************)
EXTENDS Integers, Sequences, SequencesExt, FiniteSets

CONSTANTS
  Source,       \* ids of declared servers
  MaxProcs,     \* bound on processes started
  MaxEdits,     \* bound on edits of the declaration
  MaxExits,     \* bound on processes that exit by themselves
  MaxHung,      \* bound on handshakes that time out with the process alive
  MaxReloads    \* bound on reloads

ASSUME McpAssumption == IsFiniteSet(Source)

VARIABLES
  declared,   \* settings.mcp_servers
  pool,       \* the client of each source: its process, 0 for none
  procs,      \* the processes in the order started
  pass,       \* the two passes
  face,       \* the sources whose tools are registered
  asked,      \* history: the reload since the last edit, if the watchdog's pass
              \* crossed it or not
  spent       \* edits, exits, hung handshakes and reloads so far

mcpVars == <<declared, pool, procs, pass, face, asked, spent>>

Pass == {"watchdog", "reload"}
Idle == [pc |-> "idle", list |-> <<>>, proc |-> 0]
Orders(S) == {q \in [1..Cardinality(S) -> S] : \A i, j \in DOMAIN q : q[i] = q[j] => i = j}
Spend(k) == spent' = [spent EXCEPT ![k] = @ + 1]
InPool == {s \in Source : pool[s] # 0}
Ready(s) == pool[s] # 0 /\ procs[pool[s]].ready

McpInit ==
  /\ declared = Source /\ pool = [s \in Source |-> 0] /\ procs = <<>> /\ face = {}
  /\ pass = [p \in Pass |-> Idle] /\ asked = "no"
  /\ spent = [edits |-> 0, exits |-> 0, hung |-> 0, reloads |-> 0]

EditSources ==
  /\ spent.edits < MaxEdits /\ Spend("edits")
  /\ \E s \in Source : declared' = (declared \ {s}) \union ({s} \ declared)
  /\ asked' = "no"
  /\ UNCHANGED <<pool, procs, pass, face>>

\* reconnectMissingDeclared: nothing to do while every declared source has a
\* client, whatever state the client is in.
Missing_Started == IF procs = <<>> THEN declared ELSE {}
Missing == declared \ InPool
Watch ==
  /\ pass["watchdog"].pc = "idle" /\ Missing # {}
  /\ pass' = [pass EXCEPT !["watchdog"].pc = "list"]
  /\ asked' = IF pass["reload"].pc # "idle" THEN "crossed" ELSE asked
  /\ UNCHANGED <<declared, pool, procs, face, spent>>

\* reloadDeclaredSources: every client is let go of before any is made.
LetGo_Declared == InPool \intersect declared
LetGo == InPool
Reload ==
  /\ spent.reloads < MaxReloads /\ Spend("reloads")
  /\ pass["reload"].pc = "idle"
  /\ asked' = IF pass["watchdog"].pc = "idle" THEN "alone" ELSE "crossed"
  /\ pass' = [pass EXCEPT !["reload"].pc = "list"]
  /\ procs' = [i \in DOMAIN procs |->
                 IF \E s \in LetGo : pool[s] = i THEN [procs[i] EXCEPT !.alive = FALSE]
                 ELSE procs[i]]
  /\ pool' = [s \in Source |-> IF s \in LetGo THEN 0 ELSE pool[s]]
  /\ UNCHANGED <<declared, face>>

\* connectConfiguredMcps: the declaration is read once, its sources connected
\* one after the other.
ReadList(p) ==
  /\ pass[p].pc = "list"
  /\ \E q \in Orders(declared) :
       pass' = [pass EXCEPT ![p].pc = "next", ![p].list = q]
  /\ UNCHANGED <<declared, pool, procs, face, spent, asked>>
NextSource(p) ==
  /\ pass[p].pc = "next"
  /\ pass' = IF pass[p].list = <<>> THEN [pass EXCEPT ![p].pc = "sync"]
             ELSE IF pool[Head(pass[p].list)] # 0
                  THEN [pass EXCEPT ![p].list = Tail(@)]
                  ELSE [pass EXCEPT ![p].pc = "spawn"]
  /\ UNCHANGED <<declared, pool, procs, face, spent, asked>>
\* connectMcp, after the wait for the sandbox: the process may not start.
Spawn(p) ==
  /\ pass[p].pc = "spawn" /\ Len(procs) < MaxProcs
  /\ LET s == Head(pass[p].list) IN
       /\ procs' = Append(procs, [id |-> s, alive |-> TRUE, heard |-> FALSE, ready |-> FALSE])
       /\ pool' = [pool EXCEPT ![s] = Len(procs')]
       /\ pass' = [pass EXCEPT ![p].pc = "shake", ![p].proc = Len(procs')]
  /\ UNCHANGED <<declared, face, spent, asked>>
NoSpawn(p) ==
  /\ pass[p].pc = "spawn" /\ spent.exits < MaxExits /\ Spend("exits")
  /\ pass' = [pass EXCEPT ![p].pc = "next", ![p].list = Tail(@)]
  /\ pool' = [pool EXCEPT ![Head(pass[p].list)] = 0]
  /\ UNCHANGED <<declared, procs, face, asked>>
After_Kept(p) == [pass EXCEPT ![p].pc = "next", ![p].list = Tail(@)]
After(p) == [pass EXCEPT ![p].pc = "next", ![p].list = Tail(@), ![p].proc = 0]
\* The handshake and the list of tools, or their time limit.
Shaken(p) ==
  /\ pass[p].pc = "shake"
  /\ LET i == pass[p].proc IN
       \/ procs[i].alive /\ procs' = [procs EXCEPT ![i].ready = TRUE] /\ UNCHANGED spent
       \/ ~procs[i].alive /\ procs[i].heard /\ UNCHANGED <<procs, spent>>
       \/ procs[i].alive /\ spent.hung < MaxHung /\ Spend("hung") /\ UNCHANGED procs
  /\ pass' = After(p)
  /\ UNCHANGED <<declared, pool, face, asked>>
\* syncMcpTools(listMcpClients()): the face is replaced by the pool's tools.
Sync(p) ==
  /\ pass[p].pc = "sync" /\ face' = {s \in Source : Ready(s)}
  /\ pass' = [pass EXCEPT ![p] = Idle]
  /\ UNCHANGED <<declared, pool, procs, spent, asked>>

ExitProc ==
  /\ spent.exits < MaxExits /\ Spend("exits")
  /\ \E i \in DOMAIN procs :
       procs[i].alive /\ procs' = [procs EXCEPT ![i].alive = FALSE]
  /\ UNCHANGED <<declared, pool, pass, face, asked>>
\* The 'exit' event comes later; only its own client is taken out of the pool.
Removes_Any(i) == TRUE
Removes_Never(i) == FALSE
Removes(i) == pool[procs[i].id] = i
HearExit ==
  /\ \E i \in DOMAIN procs :
       /\ ~procs[i].alive /\ ~procs[i].heard
       /\ procs' = [procs EXCEPT ![i].heard = TRUE]
       /\ pool' = IF Removes(i) THEN [pool EXCEPT ![procs[i].id] = 0] ELSE pool
  /\ UNCHANGED <<declared, pass, face, spent, asked>>

PassSteps(p) == ReadList(p) \/ NextSource(p) \/ Spawn(p) \/ Shaken(p) \/ Sync(p)
McpNext ==
  \/ EditSources \/ Watch \/ Reload \/ ExitProc \/ HearExit
  \/ \E p \in Pass : PassSteps(p) \/ NoSpawn(p)
\* The interval and the passes go on, exits are heard of.
McpFairness == /\ WF_mcpVars(Watch) /\ WF_mcpVars(HearExit)
               /\ \A p \in Pass : WF_mcpVars(PassSteps(p))
McpSpec == McpInit /\ [][McpNext]_mcpVars /\ McpFairness
-----------------------------------------------------------------------------
\* The state has its type, and a pooled client is of its source.
McpTypeOK ==
  /\ declared \subseteq Source /\ face \subseteq Source
  /\ \A s \in Source : pool[s] \in 0..Len(procs) /\ (pool[s] # 0 => procs[pool[s]].id = s)
  /\ \A p \in Pass : pass[p].proc \in 0..Len(procs) /\ (pass[p].pc = "shake" <=> pass[p].proc # 0)

\* While no pass moves a living client keeps its place in the pool: the exit
\* of an older process of its source, heard late, does not take it out
\* (mcp.js:71).
LivingStays ==
  [][pass' = pass => \A s \in Source : pool[s] # 0 /\ procs[pool[s]].alive
                                       => pool'[s] = pool[s]]_mcpVars

\* A client in the pool without its tools is one whose handshake is on, or
\* whose exit is about to be heard: only one that hung stays there for good.
NoEmptyClient ==
  spent.hung = 0 =>
    \A s \in Source : pool[s] # 0 /\ ~Ready(s) =>
      \/ \E p \in Pass : pass[p].proc = pool[s]
      \/ ~procs[pool[s]].alive /\ ~procs[pool[s]].heard

\* What the declaration keeps naming is in the tool face again and again,
\* whatever processes exit: the watchdog brings it back (connectors.js:324).
\* A handshake that timed out with the process alive is the exception.
ComesBack ==
  \A s \in Source :
    <>[](s \in declared /\ spent.hung = 0) => []<>(s \in face)

\* A source whose declaration is gone leaves the tool face with the reload that
\* follows and does not come back, unless a pass of the watchdog with the old
\* list crosses the reload (connectors.js:373).
UnloadedIsGone ==
  (\A p \in Pass : pass[p].pc = "idle") /\ asked = "alone" => face \subseteq declared

\* What every state of the pool satisfies: the parts above.
McpSafe == McpTypeOK /\ NoEmptyClient /\ UnloadedIsGone
=============================================================================
