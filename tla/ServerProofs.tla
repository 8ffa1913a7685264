---------------------------- MODULE ServerProofs ----------------------------
(***************************************************************************)
(* Proofs about the servers: the servers of tools outside the process, the *)
(* server that answers lines itself, the start of the platform's own       *)
(* server with its database, what its process does to its host, and the    *)
(* clients that call the platform from outside.  They hold for any finite  *)
(* set of declared sources, any number of processes, exits, edits and      *)
(* reloads, any lines of input, any number of starts that die and          *)
(* statements that fail, any runners, commands, jobs, turns and calls.     *)
(***************************************************************************)
EXTENDS McpPool, RpcServer, Migrations, HostProcess, ExternalCalls, FunctionTheorems,
        FiniteSetTheorems, SequenceTheorems, WellFoundedInduction, TLAPS

-----------------------------------------------------------------------------
(* The pool of tool servers.  The argument: a process whose exit has been  *)
(* heard of is in nobody's place; and after a reload that the watchdog did *)
(* not cross, whatever is pooled, listed or registered is declared.        *)

Procs == [id : Source, alive : BOOLEAN, heard : BOOLEAN, ready : BOOLEAN]
PassState == [pc : {"idle", "list", "next", "spawn", "shake", "sync"},
              list : Seq(Source), proc : Nat]

Spent == [edits : Nat, exits : Nat, hung : Nat, reloads : Nat]

McpTypes ==
  /\ McpTypeOK
  /\ procs \in Seq(Procs) /\ pool \in [Source -> Nat]
  /\ pass \in [Pass -> PassState]
  /\ spent \in Spent
  /\ \A p \in Pass : /\ pass[p].pc \in {"idle", "list"} => pass[p].list = <<>>
                     /\ pass[p].pc \in {"spawn", "shake"} => pass[p].list # <<>>

\* An exit is heard of once, and takes the process out of the pool.
ExitsHeard ==
  \A i \in DOMAIN procs :
    procs[i].heard => ~procs[i].alive /\ \A s \in Source : pool[s] # i

Listed(p) == {pass[p].list[k] : k \in DOMAIN pass[p].list}
\* Since the reload nothing was done but from the declaration it read.
SinceReload ==
  asked = "alone" =>
    /\ pass["reload"].pc = "idle" \/ pass["watchdog"].pc = "idle"
    /\ InPool \subseteq declared
    /\ \A p \in Pass : Listed(p) \subseteq declared
    /\ pass["reload"].pc = "idle" => face \subseteq declared

McpInv == McpTypes /\ ExitsHeard /\ NoEmptyClient /\ SinceReload

LEMMA PassesDiffer == /\ "watchdog" \in Pass /\ "reload" \in Pass
                      /\ \A p \in Pass : p = "watchdog" \/ p = "reload"
BY DEF Pass

LEMMA ProcType ==
  ASSUME McpInv, NEW i \in 1..Len(procs)
  PROVE  /\ DOMAIN procs = 1..Len(procs) /\ Len(procs) \in Nat
         /\ procs[i] \in Procs
         /\ procs[i].id \in Source /\ procs[i].alive \in BOOLEAN
         /\ procs[i].heard \in BOOLEAN /\ procs[i].ready \in BOOLEAN
<1>1. procs \in Seq(Procs)
  BY DEF McpInv, McpTypes
<1>2. DOMAIN procs = 1..Len(procs) /\ Len(procs) \in Nat /\ procs[i] \in Procs
  BY <1>1
<1> QED  BY <1>2 DEF Procs

LEMMA McpStart == McpInit => McpInv
<1> SUFFICES ASSUME McpInit PROVE McpInv
  OBVIOUS
<1>1. Idle \in PassState /\ Idle.pc = "idle" /\ Idle.list = <<>> /\ Idle.proc = 0
  BY DEF Idle, PassState
<1>2. /\ \A p \in Pass : pass[p] = Idle
      /\ pass \in [Pass -> PassState]
  <2>1. pass = [p \in Pass |-> Idle]
    BY DEF McpInit
  <2> HIDE DEF Idle
  <2> QED  BY <1>1, <2>1
<1> HIDE DEF Idle
<1>3. \A s \in Source : pool[s] = 0
  BY DEF McpInit
<1>4. procs = <<>> /\ Len(procs) = 0 /\ procs \in Seq(Procs) /\ DOMAIN procs = {}
  BY DEF McpInit
<1>5. McpTypes
  <2>1. McpTypeOK
    BY <1>1, <1>2, <1>3, <1>4 DEF McpInit, McpTypeOK
  <2> QED  BY <1>1, <1>2, <1>4, <2>1 DEF McpInit, McpTypes, Spent
<1>6. ExitsHeard /\ NoEmptyClient
  BY <1>3, <1>4 DEF ExitsHeard, NoEmptyClient
<1>7. SinceReload
  BY DEF McpInit, SinceReload
<1> QED  BY <1>5, <1>6, <1>7 DEF McpInv

LEMMA TailElements ==
  ASSUME NEW S, NEW l \in Seq(S), l # <<>>
  PROVE  /\ Tail(l) \in Seq(S)
         /\ {Tail(l)[k] : k \in DOMAIN Tail(l)} \subseteq {l[k] : k \in DOMAIN l}
<1>1. /\ Len(l) \in Nat /\ DOMAIN l = 1..Len(l) /\ Len(l) # 0
      /\ Tail(l) \in Seq(S) /\ DOMAIN Tail(l) = 1..Len(l) - 1
  OBVIOUS
<1>2. ASSUME NEW k \in 1..Len(l) - 1
      PROVE  k + 1 \in 1..Len(l) /\ Tail(l)[k] = l[k + 1]
  BY <1>1, <1>2
<1> QED  BY <1>1, <1>2

LEMMA SpendStep ==
  ASSUME spent \in Spent, NEW k \in {"edits", "exits", "hung", "reloads"}, Spend(k)
  PROVE  /\ spent' \in Spent /\ (k # "hung" => spent'.hung = spent.hung)
         /\ (k = "hung" => spent'.hung # 0)
BY DEF Spend, Spent

\* A pass goes on and nothing but its place changes.
LEMMA PassMoves ==
  ASSUME McpInv, NEW p \in Pass, pass'[p].proc = pass[p].proc,
         pass' \in [Pass -> PassState],
         \A r \in Pass : r # p => pass'[r] = pass[r],
         pass'[p].pc = "shake" <=> pass[p].pc = "shake",
         pass'[p].pc \in {"idle", "list"} => pass'[p].list = <<>>,
         pass'[p].pc \in {"spawn", "shake"} => pass'[p].list # <<>>,
         UNCHANGED <<declared, pool, procs, face, spent>>,
         asked' = "alone" => /\ asked = "alone"
                             /\ Listed(p)' \subseteq declared
                             /\ pass'["reload"].pc = "idle" => pass["reload"].pc = "idle"
                             /\ pass'["reload"].pc = "idle" \/ pass'["watchdog"].pc = "idle"
  PROVE  McpInv'
<1>1. McpTypes'
  <2>1. McpTypeOK'
    BY DEF McpInv, McpTypes, McpTypeOK
  <2> QED  BY <2>1 DEF McpInv, McpTypes
<1>2. ExitsHeard'
  BY DEF McpInv, ExitsHeard
<1>3. NoEmptyClient'
  BY DEF McpInv, NoEmptyClient, Ready
<1>4. SinceReload'
  <2>1. \A r \in Pass : r # p => Listed(r)' = Listed(r)
    BY DEF Listed
  <2> QED  BY <2>1, PassesDiffer DEF McpInv, SinceReload, InPool
<1> QED  BY <1>1, <1>2, <1>3, <1>4 DEF McpInv

LEMMA EditStep == ASSUME McpInv, EditSources PROVE McpInv'
<1>1. spent \in Spent
      /\ declared \subseteq Source
  BY DEF McpInv, McpTypes, McpTypeOK
<1>2. /\ spent' \in Spent
      /\ spent'.hung = spent.hung
  BY <1>1, SpendStep DEF EditSources
<1>3. declared' \subseteq Source
  BY <1>1 DEF EditSources
<1>4. McpTypes'
  BY <1>2, <1>3 DEF EditSources, McpInv, McpTypes, McpTypeOK
<1>5. ExitsHeard' /\ NoEmptyClient'
  BY <1>2 DEF EditSources, McpInv, ExitsHeard, NoEmptyClient, Ready
<1>6. SinceReload'
  BY DEF EditSources, SinceReload
<1> QED  BY <1>4, <1>5, <1>6 DEF McpInv

LEMMA WatchStep == ASSUME McpInv, Watch PROVE McpInv'
<1>1. pass \in [Pass -> PassState] /\ "watchdog" \in Pass
      /\ pass["watchdog"].pc = "idle" /\ pass["watchdog"].list = <<>>
  BY PassesDiffer DEF McpInv, McpTypes, Watch
<1>2. /\ pass' \in [Pass -> PassState] /\ pass'["watchdog"].pc = "list"
      /\ pass'["watchdog"].list = pass["watchdog"].list
      /\ pass'["watchdog"].proc = pass["watchdog"].proc
      /\ \A r \in Pass : r # "watchdog" => pass'[r] = pass[r]
  BY <1>1 DEF Watch, PassState
<1>3. asked' = "alone" => asked = "alone" /\ pass["reload"].pc = "idle"
  BY DEF Watch
<1>4. Listed("watchdog")' = Listed("watchdog")
  BY <1>2 DEF Listed
<1>5. pass'["reload"] = pass["reload"]
  BY <1>2, PassesDiffer
<1>6. asked' = "alone" => Listed("watchdog")' \subseteq declared
  BY <1>1, <1>3, <1>4 DEF McpInv, SinceReload
<1>7. UNCHANGED <<declared, pool, procs, face, spent>>
  BY DEF Watch
<1> QED  BY <1>1, <1>2, <1>3, <1>5, <1>6, <1>7, PassMoves

LEMMA ReadListStep == ASSUME McpInv, NEW p \in Pass, ReadList(p) PROVE McpInv'
<1>1. pass \in [Pass -> PassState] /\ declared \subseteq Source
  BY DEF McpInv, McpTypes, McpTypeOK
<1>2. PICK q \in Orders(declared) :
        pass' = [pass EXCEPT ![p].pc = "next", ![p].list = q]
  BY DEF ReadList
<1>3. Cardinality(declared) \in Nat
  BY <1>1, McpAssumption, FS_Subset, FS_CardinalityType
<1>4. q \in Seq(Source) /\ DOMAIN q = 1..Cardinality(declared)
      /\ \A k \in DOMAIN q : q[k] \in declared
  BY <1>1, <1>3 DEF Orders
<1>5. /\ pass' \in [Pass -> PassState] /\ pass'[p].pc = "next" /\ pass'[p].list = q
      /\ pass'[p].proc = pass[p].proc
      /\ \A r \in Pass : r # p => pass'[r] = pass[r]
  BY <1>1, <1>2, <1>4 DEF PassState
<1>6. Listed(p)' \subseteq declared
  BY <1>4, <1>5 DEF Listed
<1>7. UNCHANGED <<declared, pool, procs, face, spent, asked>> /\ pass[p].pc = "list"
  BY DEF ReadList
<1>8. asked = "alone" => pass["reload"].pc = "idle" \/ pass["watchdog"].pc = "idle"
  BY DEF McpInv, SinceReload
<1>9. pass'["reload"].pc = "idle" => pass["reload"].pc = "idle"
  BY <1>5, PassesDiffer
<1>10. asked = "alone" => pass'["reload"].pc = "idle" \/ pass'["watchdog"].pc = "idle"
  BY <1>5, <1>7, <1>8, PassesDiffer
<1> QED  BY <1>5, <1>6, <1>7, <1>9, <1>10, PassMoves

LEMMA NextSourceStep == ASSUME McpInv, NEW p \in Pass, NextSource(p) PROVE McpInv'
<1>1. pass \in [Pass -> PassState] /\ pass[p].list \in Seq(Source) /\ pass[p].pc = "next"
  BY DEF McpInv, McpTypes, PassState, NextSource
<1>2. UNCHANGED <<declared, pool, procs, face, spent, asked>>
  BY DEF NextSource
<1>3. /\ pass' \in [Pass -> PassState] /\ pass'[p].pc \in {"next", "spawn", "sync"}
      /\ pass'[p].proc = pass[p].proc
      /\ \A r \in Pass : r # p => pass'[r] = pass[r]
      /\ pass'[p].pc = "spawn" => pass'[p].list # <<>>
      /\ \/ pass'[p].list = pass[p].list
         \/ pass[p].list # <<>> /\ pass'[p].list = Tail(pass[p].list)
  <2>1. CASE pass[p].list = <<>>
    BY <1>1, <2>1 DEF NextSource, PassState
  <2>2. CASE pass[p].list # <<>> /\ pool[Head(pass[p].list)] # 0
    <3>1. Tail(pass[p].list) \in Seq(Source)
      BY <1>1, <2>2
    <3>2. pass' = [pass EXCEPT ![p].list = Tail(@)]
      BY <2>2 DEF NextSource
    <3> QED  BY <1>1, <2>2, <3>1, <3>2 DEF PassState
  <2>3. CASE pass[p].list # <<>> /\ ~(pool[Head(pass[p].list)] # 0)
    <3>1. pass' = [pass EXCEPT ![p].pc = "spawn"]
      BY <2>3 DEF NextSource
    <3>2. pass'[p].list = pass[p].list /\ pass'[p].pc = "spawn"
      BY <1>1, <3>1 DEF PassState
    <3> HIDE <2>3
    <3>3. /\ pass' \in [Pass -> PassState] /\ pass'[p].proc = pass[p].proc
          /\ \A r \in Pass : r # p => pass'[r] = pass[r]
      BY <1>1, <3>1 DEF PassState
    <3> QED  BY <2>3, <3>2, <3>3
  <2> QED  BY <2>1, <2>2, <2>3
<1>4. Listed(p)' \subseteq Listed(p)
  <2> DEFINE l == pass[p].list
  <2>1. l # <<>> => {Tail(l)[k] : k \in DOMAIN Tail(l)} \subseteq {l[k] : k \in DOMAIN l}
    BY <1>1, TailElements
  <2>2. CASE pass'[p].list = l
    BY <2>2 DEF Listed
  <2>3. CASE l # <<>> /\ pass'[p].list = Tail(l)
    BY <2>1, <2>3 DEF Listed
  <2> QED  BY <1>3, <2>2, <2>3
<1>5. asked = "alone" => /\ pass["reload"].pc = "idle" \/ pass["watchdog"].pc = "idle"
                         /\ Listed(p) \subseteq declared
  BY DEF McpInv, SinceReload
<1>6. pass'["reload"].pc = "idle" => pass["reload"].pc = "idle"
  BY <1>3, PassesDiffer
<1>7. asked = "alone" => pass'["reload"].pc = "idle" \/ pass'["watchdog"].pc = "idle"
  BY <1>1, <1>3, <1>5, PassesDiffer
<1> QED  BY <1>1, <1>2, <1>3, <1>4, <1>5, <1>6, <1>7, PassMoves

LEMMA SyncStep == ASSUME McpInv, NEW p \in Pass, Sync(p) PROVE McpInv'
<1>1. pass \in [Pass -> PassState] /\ pass[p].proc = 0
  BY DEF McpInv, McpTypes, McpTypeOK, Sync
<1>2. Idle \in PassState /\ Idle.pc = "idle" /\ Idle.list = <<>> /\ Idle.proc = 0
  BY DEF Idle, PassState
<1>3. /\ pass' \in [Pass -> PassState] /\ pass'[p].pc = "idle" /\ pass'[p].list = <<>>
      /\ pass'[p].proc = 0
      /\ \A r \in Pass : r # p => pass'[r] = pass[r]
  <2> HIDE DEF Idle
  <2> QED  BY <1>1, <1>2 DEF Sync
<1>4. UNCHANGED <<declared, pool, procs, spent, asked>> /\ face' = {s \in Source : Ready(s)}
  BY DEF Sync
<1>5. McpTypes'
  <2>1. McpTypeOK'
    BY <1>1, <1>3, <1>4 DEF Sync, McpInv, McpTypes, McpTypeOK
  <2> QED  BY <1>3, <1>4, <2>1 DEF McpInv, McpTypes
<1>6. ExitsHeard' /\ NoEmptyClient'
  BY <1>1, <1>3, <1>4 DEF McpInv, ExitsHeard, NoEmptyClient, Ready
<1>7. SinceReload'
  <2>1. face' \subseteq InPool
    BY <1>4 DEF Ready, InPool
  <2>2. Listed(p)' = {} /\ \A r \in Pass : r # p => Listed(r)' = Listed(r)
    BY <1>3 DEF Listed
  <2> QED  BY <1>3, <1>4, <2>1, <2>2, PassesDiffer DEF McpInv, SinceReload, InPool
<1> QED  BY <1>5, <1>6, <1>7 DEF McpInv

\* A new process takes the place of whatever client its source had.
LEMMA SpawnStep == ASSUME McpInv, NEW p \in Pass, Spawn(p) PROVE McpInv'
<1> DEFINE s == Head(pass[p].list)
           n == Len(procs) + 1
           born == [id |-> s, alive |-> TRUE, heard |-> FALSE, ready |-> FALSE]
<1>1. /\ pass \in [Pass -> PassState] /\ pass[p].list \in Seq(Source)
      /\ pass[p].pc = "spawn" /\ pass[p].list # <<>> /\ pass[p].proc = 0
      /\ procs \in Seq(Procs) /\ Len(procs) \in Nat /\ DOMAIN procs = 1..Len(procs)
      /\ pool \in [Source -> Nat]
      /\ \A t \in Source : pool[t] \in 0..Len(procs)
  BY DEF McpInv, McpTypes, McpTypeOK, PassState, Spawn
<1>2. s \in Source /\ s \in Listed(p)
  <2>1. s = pass[p].list[1] /\ 1 \in DOMAIN pass[p].list
    BY <1>1
  <2> QED  BY <1>1, <2>1 DEF Listed
<1>3. born \in Procs /\ born.id = s /\ born.alive /\ ~born.heard /\ ~born.ready
  BY <1>2 DEF Procs
<1>4. UNCHANGED <<declared, face, spent, asked>> /\ procs' = Append(procs, born)
  BY DEF Spawn
<1> HIDE DEF born
<1>5. /\ procs' \in Seq(Procs) /\ Len(procs') = n /\ n \in Nat /\ n # 0
      /\ DOMAIN procs' = 1..n /\ procs'[n] = born
      /\ \A i \in 1..Len(procs) : procs'[i] = procs[i]
  BY <1>1, <1>3, <1>4
<1>6. pool' = [pool EXCEPT ![s] = n]
      /\ pass' = [pass EXCEPT ![p].pc = "shake", ![p].proc = n]
  BY <1>5 DEF Spawn
<1> HIDE DEF s, n
<1>7. /\ pool' \in [Source -> Nat] /\ pool'[s] = n
      /\ \A t \in Source : t # s => pool'[t] = pool[t]
  BY <1>1, <1>2, <1>5, <1>6
<1>8. /\ pass' \in [Pass -> PassState] /\ pass'[p].pc = "shake"
      /\ pass'[p].proc = n /\ pass'[p].list = pass[p].list
      /\ \A r \in Pass : r # p => pass'[r] = pass[r]
  BY <1>1, <1>5, <1>6 DEF PassState
<1>9. \A i \in 1..Len(procs) : i # n /\ i \in 1..n
  BY <1>1, <1>5 DEF n
<1>10. McpTypes'
  <2>1. ASSUME NEW t \in Source
        PROVE  pool'[t] \in 0..n /\ (pool'[t] # 0 => procs'[pool'[t]].id = t)
    <3>1. CASE t = s
      BY <1>3, <1>5, <1>7, <3>1
    <3>2. CASE t # s
      <4>1. pool[t] # 0 => pool[t] \in 1..Len(procs) /\ procs[pool[t]].id = t
        BY <1>1 DEF McpInv, McpTypes, McpTypeOK
      <4> QED  BY <1>5, <1>7, <1>9, <3>2, <4>1
    <3> QED  BY <3>1, <3>2
  <2>2. ASSUME NEW r \in Pass
        PROVE  pass'[r].proc \in 0..n /\ (pass'[r].pc = "shake" <=> pass'[r].proc # 0)
    <3>1. pass[r].proc \in 0..Len(procs) /\ (pass[r].pc = "shake" <=> pass[r].proc # 0)
      BY DEF McpInv, McpTypes, McpTypeOK
    <3>2. pass[r].proc \in 0..n
      BY <1>1, <1>5, <3>1 DEF n
    <3> QED  BY <1>5, <1>8, <3>1, <3>2
  <2>3. McpTypeOK'
    BY <1>4, <1>5, <2>1, <2>2 DEF McpInv, McpTypes, McpTypeOK
  <2> QED  BY <1>1, <1>4, <1>5, <1>7, <1>8, <2>3 DEF McpInv, McpTypes
<1>11. ExitsHeard'
  <2> SUFFICES ASSUME NEW i \in 1..n, procs'[i].heard
               PROVE  ~procs'[i].alive /\ \A t \in Source : pool'[t] # i
    BY <1>5 DEF ExitsHeard
  <2>1. i \in 1..Len(procs)
    BY <1>1, <1>3, <1>5 DEF n
  <2> QED  BY <1>1, <1>5, <1>7, <1>9, <2>1 DEF McpInv, ExitsHeard
<1>12. NoEmptyClient'
  <2> SUFFICES ASSUME spent.hung = 0, NEW t \in Source, pool'[t] # 0, ~procs'[pool'[t]].ready
               PROVE  \/ \E r \in Pass : pass'[r].proc = pool'[t]
                      \/ ~procs'[pool'[t]].alive /\ ~procs'[pool'[t]].heard
    BY <1>4 DEF NoEmptyClient, Ready
  <2>1. CASE t = s
    BY <1>7, <1>8, <2>1
  <2>2. CASE t # s
    <3>1. pool'[t] = pool[t] /\ pool[t] \in 1..Len(procs) /\ procs'[pool[t]] = procs[pool[t]]
      BY <1>1, <1>5, <1>7, <2>2
    <3>2. \/ \E r \in Pass : pass[r].proc = pool[t]
          \/ ~procs[pool[t]].alive /\ ~procs[pool[t]].heard
      BY <3>1 DEF McpInv, NoEmptyClient, Ready
    <3>3. \A r \in Pass : pass[r].proc = pool[t] => pass'[r] = pass[r]
      BY <1>1, <1>8, <3>1
    <3> QED  BY <3>1, <3>2, <3>3
  <2> QED  BY <2>1, <2>2
<1>13. SinceReload'
  <2>1. \A r \in Pass : Listed(r)' = Listed(r)
    <3>1. \A r \in Pass : pass'[r].list = pass[r].list
      BY <1>8
    <3> QED  BY <3>1 DEF Listed
  <2>2. InPool' \subseteq InPool \cup {s}
    BY <1>7 DEF InPool
  <2>3. \A r \in Pass : pass'[r].pc = "idle" <=> pass[r].pc = "idle"
    BY <1>1, <1>8
  <2> QED  BY <1>2, <1>4, <2>1, <2>2, <2>3, PassesDiffer DEF McpInv, SinceReload
<1> QED  BY <1>10, <1>11, <1>12, <1>13 DEF McpInv

\* A pass is done with a source: what it waited for is ready, heard of, or hung.
LEMMA DoneStep ==
  ASSUME McpInv, NEW p \in Pass, pass[p].pc \in {"spawn", "shake"}, pass' = After(p)
  PROVE  /\ pass' \in [Pass -> PassState] /\ pass'[p].pc = "next" /\ pass'[p].proc = 0
         /\ \A r \in Pass : r # p => pass'[r] = pass[r]
         /\ Listed(p)' \subseteq Listed(p)
         /\ \A r \in Pass : pass'[r].pc = "idle" <=> pass[r].pc = "idle"
<1>1. pass \in [Pass -> PassState] /\ pass[p].list \in Seq(Source) /\ pass[p].list # <<>>
  BY DEF McpInv, McpTypes, PassState
<1> DEFINE l == pass[p].list
<1>2. /\ Tail(l) \in Seq(Source)
      /\ {Tail(l)[k] : k \in DOMAIN Tail(l)} \subseteq {l[k] : k \in DOMAIN l}
  BY <1>1, TailElements
<1>3. /\ pass' \in [Pass -> PassState] /\ pass'[p].pc = "next" /\ pass'[p].proc = 0
      /\ pass'[p].list = Tail(l)
      /\ \A r \in Pass : r # p => pass'[r] = pass[r]
  BY <1>1, <1>2 DEF After, PassState
<1>4. Listed(p)' \subseteq Listed(p)
  BY <1>2, <1>3 DEF Listed
<1> QED  BY <1>3, <1>4

LEMMA NoSpawnStep == ASSUME McpInv, NEW p \in Pass, NoSpawn(p) PROVE McpInv'
<1>1. /\ pass \in [Pass -> PassState] /\ pass[p].list \in Seq(Source)
      /\ pass[p].pc = "spawn" /\ pass[p].list # <<>> /\ pass[p].proc = 0
      /\ pool \in [Source -> Nat]
      /\ spent \in Spent
  BY DEF McpInv, McpTypes, McpTypeOK, PassState, NoSpawn
<1> DEFINE s == Head(pass[p].list)
<1>2. s \in Source
  BY <1>1
<1>3. /\ spent' \in Spent
      /\ spent'.hung = spent.hung
  <2>1. Spend("exits")
    BY DEF NoSpawn
  <2> QED  BY <1>1, <2>1, SpendStep
<1>4. pass' = After(p)
  <2>1. pass' = [pass EXCEPT ![p].pc = "next", ![p].list = Tail(@)]
    BY DEF NoSpawn
  <2>2. [pass EXCEPT ![p].pc = "next", ![p].list = Tail(@), ![p].proc = 0]
          = [pass EXCEPT ![p].pc = "next", ![p].list = Tail(@)]
    BY <1>1 DEF PassState
  <2> QED  BY <2>1, <2>2 DEF After
<1>5. /\ pass' \in [Pass -> PassState] /\ pass'[p].pc = "next" /\ pass'[p].proc = 0
      /\ \A r \in Pass : r # p => pass'[r] = pass[r]
      /\ Listed(p)' \subseteq Listed(p)
      /\ \A r \in Pass : pass'[r].pc = "idle" <=> pass[r].pc = "idle"
  BY <1>1, <1>4, DoneStep
<1>6. UNCHANGED <<declared, procs, face, asked>> /\ pool' = [pool EXCEPT ![s] = 0]
  BY DEF NoSpawn
<1> HIDE DEF s
<1>7. /\ pool' \in [Source -> Nat]
      /\ \A t \in Source : pool'[t] # 0 => pool'[t] = pool[t]
      /\ \A t \in Source : pool'[t] \in {0, pool[t]}
  BY <1>1, <1>2, <1>6
<1>8. McpTypes'
  <2>1. \A t \in Source : pool[t] \in 0..Len(procs) /\ (pool[t] # 0 => procs[pool[t]].id = t)
    BY DEF McpInv, McpTypes, McpTypeOK
  <2>2. procs \in Seq(Procs) /\ Len(procs) \in Nat
    BY DEF McpInv, McpTypes
  <2>3. \A t \in Source : pool'[t] \in 0..Len(procs) /\ (pool'[t] # 0 => procs[pool'[t]].id = t)
    BY <1>7, <2>1, <2>2
  <2>4. \A r \in Pass : pass'[r].proc \in 0..Len(procs)
                        /\ (pass'[r].pc = "shake" <=> pass'[r].proc # 0)
    BY <1>5, <2>2 DEF McpInv, McpTypes, McpTypeOK
  <2>5. McpTypeOK'
    BY <1>6, <2>3, <2>4 DEF McpInv, McpTypes, McpTypeOK
  <2> QED  BY <1>3, <1>5, <1>6, <1>7, <2>5 DEF McpInv, McpTypes
<1>9. ExitsHeard'
  <2>1. procs \in Seq(Procs) /\ Len(procs) \in Nat /\ DOMAIN procs = 1..Len(procs)
    BY DEF McpInv, McpTypes
  <2> QED  BY <1>6, <1>7, <2>1 DEF McpInv, ExitsHeard
<1>10. NoEmptyClient'
  <2> SUFFICES ASSUME spent.hung = 0, NEW t \in Source, pool'[t] # 0, ~procs[pool'[t]].ready
               PROVE  \/ \E r \in Pass : pass'[r].proc = pool'[t]
                      \/ ~procs[pool'[t]].alive /\ ~procs[pool'[t]].heard
    BY <1>3, <1>6 DEF NoEmptyClient, Ready
  <2>1. pool'[t] = pool[t] /\ pool[t] # 0
    BY <1>7
  <2>2. \/ \E r \in Pass : pass[r].proc = pool[t]
        \/ ~procs[pool[t]].alive /\ ~procs[pool[t]].heard
    BY <2>1 DEF McpInv, NoEmptyClient, Ready
  <2>3. \A r \in Pass : pass[r].proc = pool[t] => pass'[r] = pass[r]
    BY <1>1, <1>5, <2>1
  <2> QED  BY <2>1, <2>2, <2>3
<1>11. SinceReload'
  <2>1. InPool' \subseteq InPool
    BY <1>7 DEF InPool
  <2>2. \A r \in Pass : Listed(r)' \subseteq Listed(r)
    <3>1. \A r \in Pass : r # p => Listed(r)' = Listed(r)
      BY <1>5 DEF Listed
    <3> QED  BY <1>5, <3>1
  <2> QED  BY <1>5, <1>6, <2>1, <2>2, PassesDiffer DEF McpInv, SinceReload
<1> QED  BY <1>8, <1>9, <1>10, <1>11 DEF McpInv

LEMMA ShakenStep == ASSUME McpInv, NEW p \in Pass, Shaken(p) PROVE McpInv'
<1> DEFINE i == pass[p].proc
<1>1. /\ pass \in [Pass -> PassState] /\ pass[p].pc = "shake"
      /\ procs \in Seq(Procs) /\ Len(procs) \in Nat /\ DOMAIN procs = 1..Len(procs)
      /\ spent \in Spent
      /\ pass' = After(p)
      /\ UNCHANGED <<declared, pool, face, asked>>
  BY DEF McpInv, McpTypes, Shaken
<1>2. i \in 1..Len(procs)
  BY <1>1 DEF McpInv, McpTypes, McpTypeOK
<1>3. /\ pass' \in [Pass -> PassState] /\ pass'[p].pc = "next" /\ pass'[p].proc = 0
      /\ \A r \in Pass : r # p => pass'[r] = pass[r]
      /\ Listed(p)' \subseteq Listed(p)
      /\ \A r \in Pass : pass'[r].pc = "idle" <=> pass[r].pc = "idle"
  BY <1>1, DoneStep
<1>4. /\ procs' \in Seq(Procs) /\ Len(procs') = Len(procs) /\ DOMAIN procs' = DOMAIN procs
      /\ \A k \in 1..Len(procs) : procs'[k].id = procs[k].id
      /\ \A k \in 1..Len(procs) : procs'[k].alive = procs[k].alive
      /\ \A k \in 1..Len(procs) : procs'[k].heard = procs[k].heard
      /\ \A k \in 1..Len(procs) : k # i => procs'[k] = procs[k]
  <2>1. CASE procs' = [procs EXCEPT ![i].ready = TRUE]
    <3>1. procs[i] \in Procs
      BY <1>1, <1>2
    <3> DEFINE q == [procs[i] EXCEPT !.ready = TRUE]
    <3>2. q \in Procs /\ q.id = procs[i].id /\ q.alive = procs[i].alive
          /\ q.heard = procs[i].heard
      BY <3>1 DEF Procs
    <3>3. procs' = [procs EXCEPT ![i] = q]
      BY <2>1
    <3> HIDE DEF q
    <3> QED  BY <1>1, <1>2, <3>2, <3>3
  <2>2. CASE UNCHANGED procs
    BY <1>1, <2>2
  <2> QED  BY <2>1, <2>2 DEF Shaken
<1>5. spent' \in Spent
  BY <1>1, SpendStep DEF Shaken
<1>6. \/ spent'.hung # 0
      \/ spent' = spent /\ procs'[i].ready
      \/ spent' = spent /\ ~procs[i].alive /\ procs[i].heard
  <2>1. CASE procs[i].alive /\ procs' = [procs EXCEPT ![i].ready = TRUE] /\ UNCHANGED spent
    <3>1. procs'[i].ready
      <4>1. procs[i] \in Procs
        BY <1>1, <1>2
      <4>2. procs'[i] = [procs[i] EXCEPT !.ready = TRUE]
        BY <1>1, <1>2, <2>1
      <4> QED  BY <4>1, <4>2 DEF Procs
    <3> QED  BY <2>1, <3>1
  <2>2. CASE ~procs[i].alive /\ procs[i].heard /\ UNCHANGED <<procs, spent>>
    BY <2>2
  <2>3. CASE Spend("hung")
    BY <1>1, <2>3, SpendStep
  <2> QED  BY <2>1, <2>2, <2>3 DEF Shaken
<1> HIDE DEF i
<1>7. McpTypes'
  <2>1. \A t \in Source : pool[t] \in 0..Len(procs) /\ (pool[t] # 0 => procs'[pool[t]].id = t)
    <3>1. \A t \in Source : pool[t] \in 0..Len(procs) /\ (pool[t] # 0 => procs[pool[t]].id = t)
      BY DEF McpInv, McpTypes, McpTypeOK
    <3>2. \A t \in Source : pool[t] # 0 => pool[t] \in 1..Len(procs)
      BY <1>1, <3>1
    <3> QED  BY <1>4, <3>1, <3>2
  <2>2. \A r \in Pass : pass'[r].proc \in 0..Len(procs)
                        /\ (pass'[r].pc = "shake" <=> pass'[r].proc # 0)
    BY <1>1, <1>3 DEF McpInv, McpTypes, McpTypeOK
  <2>3. McpTypeOK'
    BY <1>1, <1>4, <2>1, <2>2 DEF McpInv, McpTypes, McpTypeOK
  <2> QED  BY <1>1, <1>3, <1>4, <1>5, <2>3 DEF McpInv, McpTypes
<1>8. ExitsHeard'
  BY <1>1, <1>4 DEF McpInv, ExitsHeard
<1>9. NoEmptyClient'
  <2> SUFFICES ASSUME spent'.hung = 0, NEW t \in Source, pool[t] # 0, ~procs'[pool[t]].ready
               PROVE  \/ \E r \in Pass : pass'[r].proc = pool[t]
                      \/ ~procs'[pool[t]].alive /\ ~procs'[pool[t]].heard
    BY <1>1 DEF NoEmptyClient, Ready
  <2>1. pool[t] \in 1..Len(procs) /\ spent' = spent
    BY <1>1, <1>6 DEF McpInv, McpTypes, McpTypeOK
  <2>2. pool[t] # i
    BY <1>1, <1>2, <1>6, <2>1 DEF McpInv, ExitsHeard
  <2>3. \/ \E r \in Pass : pass[r].proc = pool[t]
        \/ ~procs[pool[t]].alive /\ ~procs[pool[t]].heard
    BY <1>4, <2>1, <2>2 DEF McpInv, NoEmptyClient, Ready
  <2>4. \A r \in Pass : pass[r].proc = pool[t] => r # p
    BY <2>2 DEF i
  <2> QED  BY <1>3, <1>4, <2>1, <2>3, <2>4
<1>10. SinceReload'
  <2>1. InPool' = InPool
    BY <1>1 DEF InPool
  <2>2. \A r \in Pass : Listed(r)' \subseteq Listed(r)
    <3>1. \A r \in Pass : r # p => Listed(r)' = Listed(r)
      BY <1>3 DEF Listed
    <3> QED  BY <1>3, <3>1
  <2> QED  BY <1>1, <1>3, <2>1, <2>2, PassesDiffer DEF McpInv, SinceReload
<1> QED  BY <1>7, <1>8, <1>9, <1>10 DEF McpInv

\* What the processes keep, whoever dies and whoever hears of it.
LEMMA ReloadStep == ASSUME McpInv, Reload PROVE McpInv'
<1>1. /\ pass \in [Pass -> PassState] /\ "reload" \in Pass
      /\ procs \in Seq(Procs) /\ Len(procs) \in Nat /\ DOMAIN procs = 1..Len(procs)
      /\ pool \in [Source -> Nat] /\ spent \in Spent
      /\ pass["reload"].pc = "idle" /\ pass["reload"].list = <<>>
  BY PassesDiffer DEF McpInv, McpTypes, Reload
<1>2. spent' \in Spent
  BY <1>1, SpendStep DEF Reload
<1>3. /\ pass' \in [Pass -> PassState] /\ pass'["reload"].pc = "list"
      /\ pass'["reload"].list = <<>> /\ pass'["reload"].proc = pass["reload"].proc
      /\ \A r \in Pass : r # "reload" => pass'[r] = pass[r]
  BY <1>1 DEF Reload, PassState
<1>4. \A s \in Source : pool'[s] = 0
  BY <1>1 DEF Reload, LetGo, InPool
<1>5. pool' \in [Source -> Nat]
  <2>1. pool' = [s \in Source |-> IF s \in LetGo THEN 0 ELSE pool[s]]
    BY DEF Reload
  <2> QED  BY <1>1, <2>1
<1> DEFINE Gone(i) == \E s \in LetGo : pool[s] = i
           dead(i) == [procs[i] EXCEPT !.alive = FALSE]
<1>6. \A i \in 1..Len(procs) : /\ dead(i) \in Procs /\ dead(i).heard = procs[i].heard
                               /\ ~dead(i).alive /\ procs[i] \in Procs
  <2>1. \A i \in 1..Len(procs) : procs[i] \in Procs
    BY <1>1
  <2> QED  BY <2>1 DEF Procs
<1>7. procs' = [i \in 1..Len(procs) |-> IF Gone(i) THEN dead(i) ELSE procs[i]]
  BY <1>1 DEF Reload
<1> HIDE DEF Gone, dead
<1>8. /\ procs' \in [1..Len(procs) -> Procs]
      /\ \A i \in 1..Len(procs) : procs'[i] = IF Gone(i) THEN dead(i) ELSE procs[i]
  BY <1>6, <1>7
<1>9. procs' \in Seq(Procs) /\ Len(procs') = Len(procs) /\ DOMAIN procs' = 1..Len(procs)
  BY <1>1, <1>8
<1>10. McpTypes'
  <2>1. \A r \in Pass : pass'[r].proc \in 0..Len(procs)
                        /\ (pass'[r].pc = "shake" <=> pass'[r].proc # 0)
    BY <1>1, <1>3 DEF McpInv, McpTypes, McpTypeOK
  <2>2. \A s \in Source : pool'[s] \in 0..Len(procs)
    BY <1>1, <1>4
  <2>3. UNCHANGED <<declared, face>>
    BY DEF Reload
  <2>4. McpTypeOK'
    BY <1>4, <1>9, <2>1, <2>2, <2>3 DEF McpInv, McpTypes, McpTypeOK
  <2> QED  BY <1>2, <1>3, <1>5, <1>9, <2>4 DEF McpInv, McpTypes
<1>11. ExitsHeard'
  <2> SUFFICES ASSUME NEW i \in 1..Len(procs), procs'[i].heard
               PROVE  ~procs'[i].alive /\ \A s \in Source : pool'[s] # i
    BY <1>9 DEF ExitsHeard
  <2>1. procs[i].heard
    BY <1>6, <1>8
  <2>2. ~procs[i].alive
    BY <1>1, <2>1 DEF McpInv, ExitsHeard
  <2> QED  BY <1>1, <1>4, <1>6, <1>8, <2>2
<1>12. NoEmptyClient'
  BY <1>4 DEF NoEmptyClient
<1>13. SinceReload'
  <2> SUFFICES ASSUME asked' = "alone"
               PROVE  /\ pass'["reload"].pc = "idle" \/ pass'["watchdog"].pc = "idle"
                      /\ InPool' \subseteq declared
                      /\ \A p \in Pass : Listed(p)' \subseteq declared
    BY <1>3 DEF Reload, SinceReload
  <2>1. pass["watchdog"].pc = "idle" /\ "watchdog" \in Pass
    BY PassesDiffer DEF Reload
  <2>2. pass'["watchdog"] = pass["watchdog"] /\ pass["watchdog"].list = <<>>
    BY <1>3, <2>1 DEF McpInv, McpTypes
  <2>3. InPool' = {}
    BY <1>4 DEF InPool
  <2>4. \A p \in Pass : pass'[p].list = <<>>
    BY <1>3, <2>2, PassesDiffer
  <2>5. \A p \in Pass : Listed(p)' = {}
    BY <2>4 DEF Listed
  <2> QED  BY <2>1, <2>2, <2>3, <2>5
<1> QED  BY <1>10, <1>11, <1>12, <1>13 DEF McpInv

\* A process whose record changes where an exit, or the news of it, changes it.
LEMMA OneProcess ==
  ASSUME procs \in Seq(Procs), NEW i \in 1..Len(procs), NEW q \in Procs,
         q.id = procs[i].id, q.ready = procs[i].ready, procs' = [procs EXCEPT ![i] = q]
  PROVE  /\ procs' \in Seq(Procs) /\ Len(procs') = Len(procs) /\ procs'[i] = q
         /\ DOMAIN procs' = 1..Len(procs)
         /\ \A k \in 1..Len(procs) : k # i => procs'[k] = procs[k]
         /\ \A k \in 1..Len(procs) : procs'[k].id = procs[k].id
         /\ \A k \in 1..Len(procs) : procs'[k].ready = procs[k].ready
OBVIOUS

LEMMA ExitStep == ASSUME McpInv, ExitProc PROVE McpInv'
<1>1. /\ procs \in Seq(Procs) /\ Len(procs) \in Nat /\ DOMAIN procs = 1..Len(procs)
      /\ spent \in Spent
  BY DEF McpInv, McpTypes
<1>2. PICK i \in 1..Len(procs) : procs[i].alive /\ procs' = [procs EXCEPT ![i].alive = FALSE]
  BY <1>1 DEF ExitProc
<1> DEFINE q == [procs[i] EXCEPT !.alive = FALSE]
<1>3. /\ q \in Procs /\ q.id = procs[i].id /\ q.ready = procs[i].ready
      /\ q.heard = procs[i].heard /\ ~q.alive
  <2>1. procs[i] \in Procs
    BY <1>1
  <2> QED  BY <2>1 DEF Procs
<1>4. procs' = [procs EXCEPT ![i] = q]
  BY <1>2
<1> HIDE DEF q
<1>5. /\ procs' \in Seq(Procs) /\ Len(procs') = Len(procs) /\ procs'[i] = q
      /\ DOMAIN procs' = 1..Len(procs)
      /\ \A k \in 1..Len(procs) : k # i => procs'[k] = procs[k]
      /\ \A k \in 1..Len(procs) : procs'[k].id = procs[k].id
      /\ \A k \in 1..Len(procs) : procs'[k].ready = procs[k].ready
  BY <1>1, <1>3, <1>4, OneProcess
<1>6. ~procs[i].heard
  BY <1>1, <1>2 DEF McpInv, ExitsHeard
<1>7. spent' \in Spent /\ spent'.hung = spent.hung
  <2>1. Spend("exits")
    BY DEF ExitProc
  <2> QED  BY <1>1, <2>1, SpendStep
<1>8. UNCHANGED <<declared, pool, pass, face, asked>>
  BY DEF ExitProc
<1>9. \A s \in Source : pool[s] \in 0..Len(procs) /\ (pool[s] # 0 => procs[pool[s]].id = s)
  BY DEF McpInv, McpTypes, McpTypeOK
<1>10. \A s \in Source : pool[s] # 0 => pool[s] \in 1..Len(procs)
  BY <1>1, <1>9
<1>11. McpTypes'
  <2>1. McpTypeOK'
    BY <1>5, <1>8, <1>9, <1>10 DEF McpInv, McpTypes, McpTypeOK
  <2> QED  BY <1>5, <1>7, <1>8, <2>1 DEF McpInv, McpTypes
<1>12. ExitsHeard'
  BY <1>1, <1>3, <1>5, <1>6, <1>8 DEF McpInv, ExitsHeard
<1>13. NoEmptyClient'
  <2> SUFFICES ASSUME spent.hung = 0, NEW t \in Source, pool[t] # 0, ~procs'[pool[t]].ready
               PROVE  \/ \E r \in Pass : pass[r].proc = pool[t]
                      \/ ~procs'[pool[t]].alive /\ ~procs'[pool[t]].heard
    BY <1>7, <1>8 DEF NoEmptyClient, Ready
  <2>1. pool[t] \in 1..Len(procs)
    BY <1>10
  <2>2. \/ \E r \in Pass : pass[r].proc = pool[t]
        \/ ~procs[pool[t]].alive /\ ~procs[pool[t]].heard
    BY <1>5, <2>1 DEF McpInv, NoEmptyClient, Ready
  <2> QED  BY <1>3, <1>5, <1>6, <2>1, <2>2
<1>14. SinceReload'
  BY <1>8 DEF McpInv, SinceReload, InPool, Listed
<1> QED  BY <1>11, <1>12, <1>13, <1>14 DEF McpInv

LEMMA HearStep == ASSUME McpInv, HearExit PROVE McpInv'
<1>1. /\ procs \in Seq(Procs) /\ Len(procs) \in Nat /\ DOMAIN procs = 1..Len(procs)
      /\ pool \in [Source -> Nat]
  BY DEF McpInv, McpTypes
<1>2. PICK i \in 1..Len(procs) :
        /\ ~procs[i].alive /\ ~procs[i].heard
        /\ procs' = [procs EXCEPT ![i].heard = TRUE]
        /\ pool' = IF Removes(i) THEN [pool EXCEPT ![procs[i].id] = 0] ELSE pool
  BY <1>1 DEF HearExit
<1> DEFINE q == [procs[i] EXCEPT !.heard = TRUE]
<1>3. /\ q \in Procs /\ q.id = procs[i].id /\ q.ready = procs[i].ready
      /\ q.heard /\ ~q.alive /\ procs[i].id \in Source
  <2>1. procs[i] \in Procs
    BY <1>1
  <2> QED  BY <1>2, <2>1 DEF Procs
<1>4. procs' = [procs EXCEPT ![i] = q]
  BY <1>2
<1> HIDE DEF q
<1>5. /\ procs' \in Seq(Procs) /\ Len(procs') = Len(procs) /\ procs'[i] = q
      /\ DOMAIN procs' = 1..Len(procs)
      /\ \A k \in 1..Len(procs) : k # i => procs'[k] = procs[k]
      /\ \A k \in 1..Len(procs) : procs'[k].id = procs[k].id
      /\ \A k \in 1..Len(procs) : procs'[k].ready = procs[k].ready
  BY <1>1, <1>3, <1>4, OneProcess
<1>6. UNCHANGED <<declared, pass, face, spent, asked>>
  BY DEF HearExit
<1>7. \A s \in Source : pool[s] \in 0..Len(procs) /\ (pool[s] # 0 => procs[pool[s]].id = s)
  BY DEF McpInv, McpTypes, McpTypeOK
<1>8. /\ pool' \in [Source -> Nat]
      /\ \A s \in Source : pool'[s] # 0 => pool'[s] = pool[s]
      /\ \A s \in Source : pool'[s] \in {0, pool[s]}
  <2>1. pool' = [pool EXCEPT ![procs[i].id] = 0] \/ pool' = pool
    BY <1>2
  <2> QED  BY <1>1, <1>3, <2>1
<1>9. \A s \in Source : pool'[s] # i
  <2> SUFFICES ASSUME NEW s \in Source, pool[s] = i PROVE pool'[s] # i
    BY <1>1, <1>8
  <2>1. procs[i].id = s
    BY <1>1, <1>7
  <2>2. Removes(i)
    BY <2>1 DEF Removes
  <2>3. pool' = [pool EXCEPT ![s] = 0]
    BY <1>2, <2>1, <2>2
  <2> QED  BY <1>1, <2>3
<1>10. \A s \in Source : pool[s] # 0 => pool[s] \in 1..Len(procs)
  BY <1>1, <1>7
<1>11. McpTypes'
  <2>1. \A s \in Source : pool'[s] \in 0..Len(procs) /\ (pool'[s] # 0 => procs'[pool'[s]].id = s)
    BY <1>1, <1>5, <1>7, <1>8, <1>10
  <2>2. McpTypeOK'
    BY <1>5, <1>6, <2>1 DEF McpInv, McpTypes, McpTypeOK
  <2> QED  BY <1>5, <1>6, <1>8, <2>2 DEF McpInv, McpTypes
<1>12. ExitsHeard'
  <2> SUFFICES ASSUME NEW k \in 1..Len(procs), procs'[k].heard
               PROVE  ~procs'[k].alive /\ \A s \in Source : pool'[s] # k
    BY <1>5 DEF ExitsHeard
  <2>1. CASE k = i
    BY <1>3, <1>5, <1>9, <2>1
  <2>2. CASE k # i
    <3>1. procs'[k] = procs[k]
      BY <1>5, <2>2
    <3>2. ~procs[k].alive /\ \A s \in Source : pool[s] # k
      BY <1>1, <3>1 DEF McpInv, ExitsHeard
    <3> QED  BY <1>1, <1>8, <3>1, <3>2
  <2> QED  BY <2>1, <2>2
<1>13. NoEmptyClient'
  <2> SUFFICES ASSUME spent.hung = 0, NEW t \in Source, pool'[t] # 0, ~procs'[pool'[t]].ready
               PROVE  \/ \E r \in Pass : pass[r].proc = pool'[t]
                      \/ ~procs'[pool'[t]].alive /\ ~procs'[pool'[t]].heard
    BY <1>6 DEF NoEmptyClient, Ready
  <2>1. pool'[t] = pool[t] /\ pool[t] \in 1..Len(procs) /\ pool[t] # i
    BY <1>8, <1>9, <1>10
  <2>2. procs'[pool[t]] = procs[pool[t]]
    BY <1>5, <2>1
  <2>3. \/ \E r \in Pass : pass[r].proc = pool[t]
        \/ ~procs[pool[t]].alive /\ ~procs[pool[t]].heard
    BY <2>1, <2>2 DEF McpInv, NoEmptyClient, Ready
  <2> QED  BY <2>1, <2>2, <2>3
<1>14. SinceReload'
  <2>1. InPool' \subseteq InPool
    BY <1>8 DEF InPool
  <2> QED  BY <1>6, <2>1 DEF McpInv, SinceReload, Listed
<1> QED  BY <1>11, <1>12, <1>13, <1>14 DEF McpInv

LEMMA McpStep == McpInv /\ [McpNext]_mcpVars => McpInv'
<1> SUFFICES ASSUME McpInv, [McpNext]_mcpVars PROVE McpInv'
  OBVIOUS
<1>1. CASE EditSources \/ Watch \/ Reload \/ ExitProc \/ HearExit
  BY <1>1, EditStep, WatchStep, ReloadStep, ExitStep, HearStep
<1>2. CASE \E p \in Pass : PassSteps(p) \/ NoSpawn(p)
  BY <1>2, ReadListStep, NextSourceStep, SpawnStep, NoSpawnStep, ShakenStep, SyncStep
    DEF PassSteps
<1>3. CASE UNCHANGED mcpVars
  <2>1. McpTypes'
    BY <1>3 DEF mcpVars, McpInv, McpTypes, McpTypeOK
  <2>2. ExitsHeard' /\ NoEmptyClient'
    BY <1>3 DEF mcpVars, McpInv, ExitsHeard, NoEmptyClient, Ready
  <2>3. SinceReload'
    BY <1>3 DEF mcpVars, McpInv, SinceReload, InPool, Listed
  <2> QED  BY <2>1, <2>2, <2>3 DEF McpInv
<1> QED  BY <1>1, <1>2, <1>3 DEF McpNext

\* In every state of the pool a pooled client is of its source, a client without
\* its tools is one whose handshake is on or whose exit is about to be heard,
\* and what a reload unloaded is gone (mcp.js:60-90, connectors.js:318-395).
THEOREM ServersAreSafe == McpSpec => []McpSafe
<1>1. McpInv => McpSafe
  <2> SUFFICES ASSUME McpInv PROVE McpSafe
    OBVIOUS
  <2>1. UnloadedIsGone
    BY PassesDiffer DEF McpInv, SinceReload, UnloadedIsGone
  <2> QED  BY <2>1 DEF McpInv, McpTypes, McpSafe
<1>2. McpInit => McpInv
  BY McpStart
<1> QED  BY <1>1, <1>2, McpStep, PTL DEF McpSpec

\* A living client keeps its place in the pool while no pass moves: the exit of
\* an older process of its source, heard late, does not take it out (mcp.js:71).
THEOREM LivingKeepsItsPlace == McpSpec => LivingStays
<1>1. ASSUME McpInv, McpNext, pass' = pass,
             NEW s \in Source, pool[s] # 0, procs[pool[s]].alive
      PROVE  pool'[s] = pool[s]
  <2>1. pass \in [Pass -> PassState] /\ DOMAIN procs = 1..Len(procs)
        /\ pool \in [Source -> Nat] /\ procs \in Seq(Procs)
        /\ procs[pool[s]].id = s /\ pool[s] \in 1..Len(procs)
    <3>1. procs \in Seq(Procs) /\ pass \in [Pass -> PassState] /\ pool \in [Source -> Nat]
      BY <1>1 DEF McpInv, McpTypes
    <3>2. pool[s] \in 0..Len(procs) /\ procs[pool[s]].id = s
      BY <1>1 DEF McpInv, McpTypes, McpTypeOK
    <3> QED  BY <1>1, <3>1, <3>2
  <2>2. ~Reload
    <3> SUFFICES ASSUME Reload PROVE FALSE
      OBVIOUS
    <3>1. pass["reload"].pc = "idle" /\ pass' = [pass EXCEPT !["reload"].pc = "list"]
      BY DEF Reload
    <3>2. pass'["reload"].pc = "list"
      BY <2>1, <3>1, PassesDiffer DEF PassState
    <3> QED  BY <1>1, <3>1, <3>2
  <2>3. ASSUME NEW p \in Pass PROVE ~Spawn(p) /\ ~NoSpawn(p)
    <3>1. pass[p] \in PassState
      BY <2>1
    <3>2. Spawn(p) => pass[p].pc = "spawn" /\ pass'[p].pc = "shake"
      BY <2>1, <3>1 DEF Spawn, PassState
    <3>3. NoSpawn(p) => pass[p].pc = "spawn" /\ pass'[p].pc = "next"
      BY <2>1, <3>1 DEF NoSpawn, PassState
    <3> QED  BY <1>1, <3>2, <3>3
  <2>4. CASE HearExit
    <3>1. PICK i \in 1..Len(procs) :
            /\ ~procs[i].alive
            /\ pool' = IF Removes(i) THEN [pool EXCEPT ![procs[i].id] = 0] ELSE pool
      BY <2>1, <2>4 DEF HearExit
    <3>2. CASE Removes(i)
      <4>1. pool[procs[i].id] = i
        BY <3>2 DEF Removes
      <4>2. procs[i].id # s
        BY <1>1, <3>1, <4>1
      <4> QED  BY <2>1, <3>1, <3>2, <4>2
    <3>3. CASE ~Removes(i)
      BY <3>1, <3>3
    <3> QED  BY <3>2, <3>3
  <2>5. CASE EditSources \/ Watch \/ ExitProc
    BY <2>5 DEF EditSources, Watch, ExitProc
  <2>6. ASSUME NEW p \in Pass, PassSteps(p) \/ NoSpawn(p) PROVE pool'[s] = pool[s]
    BY <2>3, <2>6 DEF PassSteps, ReadList, NextSource, Shaken, Sync
  <2> QED  BY <1>1, <2>2, <2>4, <2>5, <2>6 DEF McpNext
<1>2. McpInit => McpInv
  BY McpStart
<1>3. McpInv /\ [McpNext]_mcpVars
        => [pass' = pass => \A s \in Source : pool[s] # 0 /\ procs[pool[s]].alive
                                             => pool'[s] = pool[s]]_mcpVars
  BY <1>1
<1> QED  BY <1>2, <1>3, McpStep, PTL DEF McpSpec, LivingStays
-----------------------------------------------------------------------------
(* The line protocol. *)

Quiet == {"note", "badnote", "scalar"}
Said == [line : Nat, id : {"own", "null"}, says : {"result", "error"}]
\* No two listeners await the same line.
TheirOwn == \A l, m \in DOMAIN listener : listener[l] = listener[m] /\ listener[l] # 0 => l = m
Owed(f) ==
  /\ ~Settled(f) \/ input[f] \in Quiet => RepliesTo(f) = {}
  /\ Settled(f) /\ input[f] \notin Quiet => \E n \in DOMAIN written : RepliesTo(f) = {n}
RpcInv ==
  /\ input \in [1..MaxFrames -> Frames] /\ arrived \in 0..(2 * MaxFrames)
  /\ taken \in 0..Lines /\ listener \in Seq(Nat) /\ active \in 0..Len(listener)
  /\ \A l \in DOMAIN listener : listener[l] <= taken
  /\ written \in Seq(Said) /\ \A n \in DOMAIN written : written[n].line \in 1..taken
  /\ TheirOwn /\ (\A f \in 1..taken : Owed(f)) /\ FailureIsResult /\ NothingLeft

LEMMA LinesAre ==
  ASSUME RpcInv
  PROVE  /\ arrived \in Nat /\ Lines \in 0..MaxFrames /\ taken \in Nat /\ taken <= Lines
         /\ DOMAIN listener = 1..Len(listener) /\ Len(listener) \in Nat /\ active \in Nat
         /\ DOMAIN written = 1..Len(written) /\ Len(written) \in Nat
         /\ \A l \in DOMAIN listener : listener[l] \in 0..taken
         /\ \A g \in 1..taken : g \in 1..MaxFrames
<1>1. MaxFrames \in Nat /\ arrived \in 0..(2 * MaxFrames) /\ taken \in 0..Lines
  BY RpcAssumption DEF RpcInv
<1>2. arrived \in Nat /\ Lines \in Nat /\ Lines <= MaxFrames
  BY <1>1 DEF Lines
<1>3. listener \in Seq(Nat) /\ written \in Seq(Said) /\ active \in 0..Len(listener)
      /\ \A l \in DOMAIN listener : listener[l] <= taken
  BY DEF RpcInv
<1>4. \A l \in DOMAIN listener : listener[l] \in 0..taken
  BY <1>1, <1>2, <1>3
<1>5. \A g \in 1..taken : g \in 1..MaxFrames
  BY <1>1, <1>2
<1> QED
  BY <1>1, <1>2, <1>3, <1>4, <1>5

LEMMA RpcInvGives == RpcInv => RpcSafe
<1> SUFFICES ASSUME RpcInv PROVE RpcSafe
  OBVIOUS
<1>1. RpcTypeOK
  BY LinesAre DEF RpcInv, RpcTypeOK
<1>2. RepliedOnce
  <2> SUFFICES ASSUME NEW f \in 1..taken
               PROVE  IF ~Settled(f) THEN RepliesTo(f) = {}
                      ELSE \E S \in SUBSET DOMAIN written :
                             S = RepliesTo(f)
                             /\ (IF input[f] \in {"note", "badnote", "scalar"} THEN S = {}
                                 ELSE \E n \in S : S = {n})
    BY DEF RepliedOnce
  <2>1. Owed(f) /\ RepliesTo(f) \in SUBSET DOMAIN written
    BY DEF RpcInv, RepliesTo
  <2> QED
    BY <2>1 DEF Owed, Quiet
<1> QED
  BY <1>1, <1>2 DEF RpcInv, RpcSafe

\* While no listener runs, the settled lines are those no listener awaits.
LEMMA SettledIs ==
  ASSUME RpcInv, NEW f \in 1..taken
  PROVE  Settled(f) <=> \A l \in DOMAIN listener : listener[l] = f => active = l
<1>1. f # 0 /\ f <= taken
  BY LinesAre
<1> QED
  BY <1>1 DEF Settled, Awaited, RpcInv, TheirOwn

LEMMA RpcStart == RpcInit => RpcInv
<1> SUFFICES ASSUME RpcInit PROVE RpcInv
  OBVIOUS
<1>1. /\ input \in [1..MaxFrames -> Frames] /\ arrived = 0 /\ taken = 0 /\ listener = <<>>
      /\ active = 0 /\ written = <<>> /\ MaxFrames \in Nat
  BY RpcAssumption DEF RpcInit
<1>2. Lines = 0
  BY <1>1 DEF Lines
<1> QED
  BY <1>1, <1>2 DEF RpcInv, TheirOwn, FailureIsResult, NothingLeft

LEMMA ArriveStep == ASSUME RpcInv, Arrive PROVE RpcInv'
<1> DEFINE n == Len(listener)
<1>1. /\ active = 0 /\ arrived' \in (arrived + 1)..(2 * MaxFrames)
      /\ listener' = Append(listener, 0) /\ active' = Len(listener')
      /\ UNCHANGED <<input, taken, written>>
  BY DEF Arrive
<1>2. /\ arrived \in Nat /\ taken \in Nat /\ taken <= Lines /\ DOMAIN listener = 1..n /\ n \in Nat
      /\ MaxFrames \in Nat /\ Lines \in Nat /\ listener \in Seq(Nat)
  BY LinesAre, RpcAssumption DEF RpcInv
<1>3. /\ listener' \in Seq(Nat) /\ DOMAIN listener' = 1..(n + 1) /\ Len(listener') = n + 1
      /\ listener'[n + 1] = 0
      /\ \A l \in 1..n : listener'[l] = listener[l]
  BY <1>1, <1>2
<1> HIDE DEF n
<1>4. arrived' \in 0..(2 * MaxFrames) /\ taken \in 0..Lines'
  <2>1. \A a, b \in Nat : a <= b => a \div 2 <= b \div 2 /\ b \div 2 \in Nat
    OBVIOUS
  <2>2. arrived' \in Nat /\ arrived <= arrived' /\ arrived' <= 2 * MaxFrames
    BY <1>1, <1>2
  <2>3. Lines <= Lines' /\ Lines' \in Nat
    BY <1>2, <2>1, <2>2 DEF Lines
  <2> QED
    BY <1>2, <2>2, <2>3
<1>5. active' = n + 1 /\ active' # 0
  BY <1>1, <1>2, <1>3
<1>6. \A l \in 1..(n + 1) : l \in 1..n \/ l = n + 1
  BY <1>2
<1>7. TheirOwn' /\ \A l \in DOMAIN listener' : listener'[l] <= taken
  <2>1. \A l \in 1..n : listener[l] <= taken
    BY <1>2 DEF RpcInv
  <2>2. \A l, m \in 1..n : listener[l] = listener[m] /\ listener[l] # 0 => l = m
    BY <1>2 DEF RpcInv, TheirOwn
  <2>3. \A l \in 1..(n + 1) : listener'[l] <= taken
    BY <1>2, <1>3, <1>6, <2>1
  <2>4. \A l, m \in 1..(n + 1) : listener'[l] = listener'[m] /\ listener'[l] # 0 => l = m
    BY <1>3, <1>6, <2>2
  <2> QED
    BY <1>3, <2>3, <2>4 DEF TheirOwn
<1>8. ASSUME NEW f \in 1..taken PROVE Owed(f)'
  <2>1. Owed(f) /\ f # 0 /\ f <= taken
    BY <1>2 DEF RpcInv
  <2>2. Settled(f)' <=> Settled(f)
    <3>1. Settled(f) <=> \A l \in 1..n : listener[l] # f
      BY SMTT(30), <1>1, <1>2, SettledIs
    <3>2. Settled(f)' <=> \A l \in 1..(n + 1) : listener'[l] = f => active' = l
      BY <1>1, <1>3, <1>7, <2>1 DEF Settled, Awaited, TheirOwn
    <3> QED
      BY <3>1, <3>2, <1>2, <1>3, <1>5, <1>6, <2>1
  <2> QED
    BY <1>1, <2>1, <2>2 DEF Owed, RepliesTo
<1>9. NothingLeft' /\ FailureIsResult'
  BY <1>1, <1>5 DEF RpcInv, NothingLeft, FailureIsResult
<1> QED
  BY <1>1, <1>3, <1>4, <1>5, <1>7, <1>8, <1>9 DEF RpcInv

\* A listener that runs goes on to await another line, or none.
LEMMA Moves ==
  ASSUME RpcInv, active # 0, NEW g \in Nat, listener' = [listener EXCEPT ![active] = g],
         active' = 0, g = 0 \/ g = taken + 1,
         taken' = IF g = 0 THEN taken ELSE g, taken' <= Lines,
         g = 0 => taken = Lines,
         UNCHANGED <<input, arrived, written>>
  PROVE  RpcInv'
<1>1. /\ arrived \in Nat /\ taken \in Nat /\ taken <= Lines
      /\ DOMAIN listener = 1..Len(listener) /\ Len(listener) \in Nat
      /\ Lines \in Nat /\ listener \in Seq(Nat) /\ active \in 1..Len(listener)
      /\ \A l \in DOMAIN listener : listener[l] \in 0..taken
  BY LinesAre DEF RpcInv
<1>2. /\ listener' \in Seq(Nat) /\ Len(listener') = Len(listener)
      /\ DOMAIN listener' = DOMAIN listener /\ listener'[active] = g
      /\ \A l \in DOMAIN listener : l # active => listener'[l] = listener[l]
  BY <1>1
<1>3. taken' \in Nat /\ taken <= taken' /\ taken' \in 0..Lines /\ Lines' = Lines
  BY <1>1 DEF Lines
<1>4. \A l \in DOMAIN listener' : listener'[l] <= taken'
  BY <1>1, <1>2, <1>3
<1>5. TheirOwn'
  <2> SUFFICES ASSUME NEW l \in DOMAIN listener, NEW m \in DOMAIN listener,
                      listener'[l] = listener'[m], listener'[l] # 0
               PROVE  l = m
    BY <1>2 DEF TheirOwn
  <2>1. CASE l # active /\ m # active
    BY <1>2, <2>1 DEF RpcInv, TheirOwn
  <2>2. ASSUME NEW k \in DOMAIN listener, k # active, g # 0 PROVE listener'[k] # g
    BY <1>1, <1>2, <2>2
  <2> QED
    BY <1>2, <2>1, <2>2
<1>6. ASSUME NEW f \in 1..taken' PROVE Owed(f)'
  <2>1. f \in Nat /\ f # 0 /\ f <= taken'
    BY <1>3
  <2>2. Settled(f)' <=> \A l \in DOMAIN listener : listener'[l] # f
    BY <1>1, <1>2, <2>1 DEF Settled, Awaited
  <2>3. CASE f = taken + 1
    <3>1. g = f
      BY <1>1, <2>1, <2>3
    <3>2. ~Settled(f)'
      BY <1>1, <1>2, <2>2, <3>1
    <3>3. RepliesTo(f)' = {}
      <4>1. \A n \in DOMAIN written : written[n].line \in 1..taken
        BY DEF RpcInv
      <4> QED
        BY <1>1, <2>3, <4>1 DEF RepliesTo
    <3> QED
      BY <3>2, <3>3 DEF Owed
  <2>4. CASE f # taken + 1
    <3>1. f \in 1..taken /\ f # g
      BY <1>1, <2>1, <2>4
    <3>2. Owed(f)
      BY <3>1 DEF RpcInv
    <3>3. Settled(f) <=> \A l \in DOMAIN listener : listener[l] = f => active = l
      BY <3>1, SettledIs
    <3>4. Settled(f)' <=> Settled(f)
      BY <1>1, <1>2, <2>2, <3>1, <3>3
    <3> QED
      BY <3>2, <3>4 DEF Owed, RepliesTo
  <2> QED
    BY <2>3, <2>4
<1>7. \A n \in DOMAIN written : written[n].line \in 1..taken'
  BY <1>1, <1>3 DEF RpcInv
<1>8. NothingLeft'
  <2>1. CASE g = 0
    BY <1>3, <2>1 DEF NothingLeft
  <2>2. CASE g # 0
    <3>1. g \in Awaited'
      BY <1>1, <1>2, <2>2 DEF Awaited
    <3> QED
      BY <3>1 DEF NothingLeft
  <2> QED
    BY <2>1, <2>2
<1>9. FailureIsResult'
  BY DEF RpcInv, FailureIsResult
<1>10. active' \in 0..Len(listener') /\ arrived' \in 0..(2 * MaxFrames)
  BY <1>1, <1>2 DEF RpcInv
<1> QED
  BY <1>2, <1>3, <1>4, <1>5, <1>6, <1>7, <1>8, <1>9, <1>10 DEF RpcInv

LEMMA ReturningStep == ASSUME RpcInv, Return PROVE RpcInv'
<1>1. /\ active # 0 /\ ~More /\ listener' = [listener EXCEPT ![active] = 0] /\ active' = 0
      /\ UNCHANGED <<input, arrived, taken, written>>
  BY DEF Return
<1>2. taken = Lines /\ taken <= Lines
  BY <1>1, LinesAre DEF More
<1> QED
  BY <1>1, <1>2, Moves

\* One more reply, to a line that had none and is owed one.
LEMMA Writes ==
  ASSUME RpcInv, NEW r \in Said, written' = Append(written, r)
  PROVE  /\ written' \in Seq(Said) /\ DOMAIN written' = 1..(Len(written) + 1)
         /\ \A n \in DOMAIN written' :
              \/ n \in DOMAIN written /\ written'[n] = written[n]
              \/ n = Len(written) + 1 /\ written'[n] = r
         /\ \A n \in DOMAIN written : written'[n] = written[n]
         /\ DOMAIN written \subseteq DOMAIN written' /\ Len(written) + 1 \in DOMAIN written'
         /\ Len(written) + 1 \notin DOMAIN written
         /\ \A f : f # r.line => RepliesTo(f)' = RepliesTo(f)
         /\ RepliesTo(r.line) = {} => RepliesTo(r.line)' = {Len(written) + 1}
<1>1. written \in Seq(Said) /\ DOMAIN written = 1..Len(written) /\ Len(written) \in Nat
  BY LinesAre DEF RpcInv
<1>2. /\ written' \in Seq(Said) /\ DOMAIN written' = 1..(Len(written) + 1)
      /\ written'[Len(written) + 1] = r /\ \A n \in DOMAIN written : written'[n] = written[n]
  BY <1>1
<1>3. \A n \in 1..(Len(written) + 1) : n \in 1..Len(written) \/ n = Len(written) + 1
  BY <1>1
<1>4. DOMAIN written \subseteq DOMAIN written' /\ Len(written) + 1 \in DOMAIN written'
      /\ Len(written) + 1 \notin DOMAIN written
  BY <1>1, <1>2
<1>5. \A n \in DOMAIN written' :
        \/ n \in DOMAIN written /\ written'[n] = written[n]
        \/ n = Len(written) + 1 /\ written'[n] = r
  BY <1>1, <1>2, <1>3
<1>6. ASSUME NEW f, f # r.line PROVE RepliesTo(f)' = RepliesTo(f)
  BY <1>2, <1>4, <1>5, <1>6 DEF RepliesTo
<1>7. ASSUME NEW f, f = r.line, RepliesTo(f) = {} PROVE RepliesTo(f)' = {Len(written) + 1}
  BY <1>2, <1>4, <1>5, <1>7 DEF RepliesTo
<1> QED
  BY <1>2, <1>4, <1>5, <1>6, <1>7

LEMMA TakeStep == ASSUME RpcInv, TakeLine PROVE RpcInv'
<1>0. PICK g : g = taken + 1
  OBVIOUS
<1>1. /\ active # 0 /\ taken < Lines /\ taken' = g /\ UNCHANGED <<input, arrived>>
  BY <1>0 DEF TakeLine, More, NextLine
<1>2. /\ arrived \in Nat /\ taken \in Nat /\ taken <= Lines /\ Lines \in Nat /\ g \in Nat
      /\ \A l \in DOMAIN listener : listener[l] \in 0..taken
      /\ \A f \in 1..taken : f \in 1..MaxFrames
  BY <1>0, LinesAre
<1>3. CASE input[g] = "garbage"
  <2>0. PICK r : r = Reply(g, "null", "error")
    OBVIOUS
  <2>1. written' = Append(written, r) /\ UNCHANGED <<listener, active>>
    BY <1>0, <1>3, <2>0 DEF TakeLine, NextLine
  <2>2. r \in Said /\ r.line = g /\ r.says = "error"
    BY <1>2, <2>0 DEF Reply, Said
  <2>3. /\ written' \in Seq(Said)
        /\ \A n \in DOMAIN written' :
             \/ n \in DOMAIN written /\ written'[n] = written[n]
             \/ n = Len(written) + 1 /\ written'[n] = r
        /\ Len(written) + 1 \in DOMAIN written'
        /\ \A f : f # r.line => RepliesTo(f)' = RepliesTo(f)
        /\ RepliesTo(r.line) = {} => RepliesTo(r.line)' = {Len(written) + 1}
    BY <2>1, <2>2, Writes
  <2>4. \A n \in DOMAIN written : written[n].line \in 1..taken
    BY DEF RpcInv
  <2>5. RepliesTo(g) = {}
    BY <1>0, <1>2, <2>4 DEF RepliesTo
  <2>6. \A n \in DOMAIN written' : written'[n].line \in 1..taken'
    BY <1>0, <1>1, <1>2, <2>2, <2>3, <2>4
  <2>7. Lines' = Lines /\ taken' \in 0..Lines
    BY <1>0, <1>1, <1>2 DEF Lines
  <2>8. ASSUME NEW f \in 1..taken' PROVE Owed(f)'
    <3>1. Settled(f)' <=> f <= taken' /\ (f \notin Awaited
            \/ \E l \in DOMAIN listener : listener[l] = f /\ active = l)
      BY <2>1 DEF Settled, Awaited
    <3>2. CASE f = g
      <4>1. f \notin Awaited
        BY <1>0, <1>2, <3>2 DEF Awaited
      <4>2. Settled(f)'
        BY <1>0, <1>1, <1>2, <3>1, <3>2, <4>1
      <4>3. input[f] \notin Quiet
        BY <1>3, <3>2 DEF Quiet
      <4>4. RepliesTo(f)' = {Len(written) + 1}
        BY <2>2, <2>3, <2>5, <3>2
      <4> QED
        BY <1>1, <2>3, <4>2, <4>3, <4>4 DEF Owed
    <3>3. CASE f # g
      <4>1. f \in 1..taken /\ f <= taken'
        BY <1>0, <1>1, <1>2, <3>3
      <4>2. Owed(f) /\ RepliesTo(f)' = RepliesTo(f)
        BY <2>2, <2>3, <3>3, <4>1 DEF RpcInv
      <4>3. Settled(f)' <=> Settled(f)
        BY <1>2, <3>1, <4>1 DEF Settled
      <4>4. DOMAIN written \subseteq DOMAIN written'
        BY <2>1, <2>2, Writes
      <4> QED
        BY <1>1, <4>2, <4>3, <4>4 DEF Owed
    <3> QED
      BY <3>2, <3>3
  <2>9. FailureIsResult'
    <3>1. \A n \in DOMAIN written :
            (written[n].says = "result") = (input[written[n].line] \in {"call", "fails"})
      BY DEF RpcInv, FailureIsResult
    <3>2. (r.says = "result") = (input[r.line] \in {"call", "fails"})
      BY <1>3, <2>2
    <3> QED
      BY <1>1, <2>3, <3>1, <3>2 DEF FailureIsResult
  <2>10. NothingLeft' /\ TheirOwn'
    BY <1>1, <2>1 DEF NothingLeft, RpcInv, TheirOwn
  <2>11. \A l \in DOMAIN listener' : listener'[l] <= taken'
    BY <1>0, <1>1, <1>2, <2>1
  <2> QED
    BY <1>1, <2>1, <2>3, <2>6, <2>7, <2>8, <2>9, <2>10, <2>11 DEF RpcInv
<1>4. CASE input[g] # "garbage"
  <2>1. /\ listener' = [listener EXCEPT ![active] = g] /\ active' = 0
        /\ UNCHANGED <<input, arrived, written>>
    BY <1>0, <1>4 DEF TakeLine, NextLine
  <2>2. g # 0 /\ g <= Lines
    BY <1>0, <1>1, <1>2
  <2> QED
    BY <1>0, <1>1, <1>2, <2>1, <2>2, Moves
<1> QED
  BY <1>3, <1>4

\* What is replied to a line.
LEMMA RepliesAre ==
  ASSUME NEW f \in Nat
  PROVE  \/ input[f] \in Quiet /\ Replies(f) = <<>>
         \/ /\ input[f] \notin Quiet
            /\ \E r \in Said : /\ Replies(f) = <<r>> /\ r.line = f
                               /\ (r.says = "result") = (input[f] \in {"call", "fails"})
<1>1. \A i \in {"own", "null"}, s \in {"result", "error"} :
        /\ Reply(f, i, s) \in Said /\ Reply(f, i, s).line = f /\ Reply(f, i, s).says = s
  BY DEF Reply, Said
<1>2. CASE input[f] \in {"note", "badnote"}
  BY <1>2 DEF Replies, IsNote, Quiet
<1>3. CASE input[f] = "scalar"
  BY <1>3 DEF Replies, IsNote, Quiet
<1>4. CASE input[f] = "batch"
  <2>1. Replies(f) = <<Reply(f, "null", "error")>> /\ input[f] \notin Quiet
    BY <1>4 DEF Replies, IsNote, Quiet
  <2> QED
    BY <1>1, <1>4, <2>1
<1>5. CASE input[f] = "call" \/ input[f] = "fails"
  <2>1. Replies(f) = <<Reply(f, "own", "result")>> /\ input[f] \notin Quiet
    BY <1>5 DEF Replies, IsNote, Quiet, Failed
  <2> QED
    BY <1>1, <1>5, <2>1
<1>6. CASE input[f] \notin {"note", "badnote", "scalar", "batch", "call", "fails"}
  <2>1. Replies(f) = <<Reply(f, "own", "error")>> /\ input[f] \notin Quiet
    BY <1>6 DEF Replies, IsNote, Quiet
  <2> QED
    BY <1>1, <1>6, <2>1
<1> QED
  BY <1>2, <1>3, <1>4, <1>5, <1>6

LEMMA AnsweringStep ==
  ASSUME RpcInv, NEW l \in DOMAIN listener, Answer(l)
  PROVE  RpcInv'
<1>0. PICK f : f = listener[l]
  OBVIOUS
<1>1. /\ active = 0 /\ f # 0 /\ written' = written \o Replies(f) /\ active' = l
      /\ UNCHANGED <<input, arrived, taken, listener>>
  BY <1>0 DEF Answer
<1>2. /\ taken \in Nat /\ taken <= Lines /\ Lines \in Nat
      /\ \A m \in DOMAIN listener : listener[m] \in 0..taken
      /\ DOMAIN listener = 1..Len(listener) /\ Len(listener) \in Nat
      /\ DOMAIN written = 1..Len(written) /\ Len(written) \in Nat /\ written \in Seq(Said)
  BY LinesAre DEF RpcInv
<1>3. f \in 1..taken /\ f \in Nat
  BY <1>0, <1>1, <1>2
<1>4. ~Settled(f) /\ RepliesTo(f) = {}
  <2>1. ~Settled(f)
    BY <1>0, <1>1, <1>2, <1>3, SettledIs
  <2> QED
    BY <1>3, <2>1 DEF RpcInv, Owed
<1>5. \A g \in 1..taken : g # f => (Settled(g)' <=> Settled(g))
  <2> SUFFICES ASSUME NEW g \in 1..taken, g # f PROVE Settled(g)' <=> Settled(g)
    OBVIOUS
  <2>1. Settled(g) <=> \A m \in DOMAIN listener : listener[m] = g => active = m
    BY SettledIs
  <2>2. Settled(g)' <=> \A m \in DOMAIN listener : listener[m] # g
    <3>1. g <= taken /\ g # 0
      BY <1>2
    <3> QED
      BY <1>0, <1>1, <3>1 DEF Settled, Awaited
  <2> QED
    BY <1>1, <1>2, <2>1, <2>2
<1>6. Settled(f)'
  BY <1>0, <1>1, <1>2, <1>3 DEF Settled
<1>7. /\ Lines' = Lines /\ TheirOwn' /\ NothingLeft' /\ active' \in 0..Len(listener')
      /\ arrived' \in 0..(2 * MaxFrames)
  <2>1. TheirOwn' /\ arrived' \in 0..(2 * MaxFrames)
    BY <1>1 DEF RpcInv, TheirOwn
  <2>2. l # 0 /\ l \in 0..Len(listener)
    BY <1>2
  <2> QED
    BY <1>1, <2>1, <2>2 DEF Lines, NothingLeft
<1>8. CASE input[f] \in Quiet /\ Replies(f) = <<>>
  <2>1. written' = written
    BY <1>1, <1>2, <1>8
  <2>2. \A g \in 1..taken : Owed(g)'
    <3> SUFFICES ASSUME NEW g \in 1..taken PROVE Owed(g)'
      OBVIOUS
    <3>1. Owed(g)
      BY DEF RpcInv
    <3> QED
      BY <1>1, <1>4, <1>5, <1>8, <2>1, <3>1 DEF Owed, RepliesTo
  <2> QED
    BY <1>1, <1>7, <2>1, <2>2 DEF RpcInv, FailureIsResult
<1>9. ASSUME input[f] \notin Quiet, NEW r \in Said, Replies(f) = <<r>>, r.line = f,
             (r.says = "result") = (input[f] \in {"call", "fails"})
      PROVE  RpcInv'
  <2>1. written' = Append(written, r)
    BY <1>1, <1>2, <1>9, AppendIsConcat
  <2>2. /\ written' \in Seq(Said)
        /\ \A n \in DOMAIN written' :
             \/ n \in DOMAIN written /\ written'[n] = written[n]
             \/ n = Len(written) + 1 /\ written'[n] = r
        /\ DOMAIN written \subseteq DOMAIN written' /\ Len(written) + 1 \in DOMAIN written'
        /\ \A g : g # r.line => RepliesTo(g)' = RepliesTo(g)
        /\ RepliesTo(r.line) = {} => RepliesTo(r.line)' = {Len(written) + 1}
    BY <2>1, Writes
  <2>3. ASSUME NEW g \in 1..taken PROVE Owed(g)'
    <3>1. Owed(g)
      BY DEF RpcInv
    <3>2. CASE g = f
      <4>1. RepliesTo(f)' = {Len(written) + 1}
        BY <1>4, <1>9, <2>2
      <4> QED
        BY <1>1, <1>6, <1>9, <2>2, <3>2, <4>1 DEF Owed
    <3>3. CASE g # f
      <4>1. RepliesTo(g)' = RepliesTo(g) /\ (Settled(g)' <=> Settled(g))
        BY <1>5, <1>9, <2>2, <3>3
      <4> QED
        BY <1>1, <2>2, <3>1, <4>1 DEF Owed
    <3> QED
      BY <3>2, <3>3
  <2>4. \A n \in DOMAIN written' : written'[n].line \in 1..taken
    BY <1>3, <1>9, <2>2 DEF RpcInv
  <2>5. FailureIsResult'
    <3>1. \A n \in DOMAIN written :
            (written[n].says = "result") = (input[written[n].line] \in {"call", "fails"})
      BY DEF RpcInv, FailureIsResult
    <3> QED
      BY <1>1, <1>9, <2>2, <3>1 DEF FailureIsResult
  <2> QED
    BY <1>1, <1>7, <2>2, <2>3, <2>4, <2>5 DEF RpcInv
<1> QED
  BY <1>3, <1>8, <1>9, RepliesAre

\* However the input is cut and however long each answer takes: every line
\* that is done with has its one reply, and none if it is a notification; only
\* what is no valid call is told as an error of the protocol; and no line is
\* left behind (jsonrpc.js:26, 225).
THEOREM LinesAreAnswered == RpcSpec => []RpcSafe
<1>1. RpcInv /\ [RpcNext]_rpcVars => RpcInv'
  <2> SUFFICES ASSUME RpcInv, [RpcNext]_rpcVars PROVE RpcInv'
    OBVIOUS
  <2>1. CASE UNCHANGED rpcVars
    <3>1. UNCHANGED <<input, arrived, taken, listener, active, written>>
      BY <2>1 DEF rpcVars
    <3>2. \A f \in 1..taken : Owed(f)' <=> Owed(f)
      BY <3>1 DEF Owed, Settled, Awaited, RepliesTo
    <3>3. TheirOwn' /\ FailureIsResult' /\ NothingLeft' /\ Lines' = Lines
      BY <3>1 DEF RpcInv, TheirOwn, FailureIsResult, NothingLeft, Lines, Awaited
    <3> QED
      BY <3>1, <3>2, <3>3 DEF RpcInv
  <2> QED
    BY <2>1, ArriveStep, TakeStep, ReturningStep, AnsweringStep DEF RpcNext
<1> QED
  BY <1>1, RpcStart, RpcInvGives, PTL DEF RpcSpec
-----------------------------------------------------------------------------
(* The start of a server and its database. *)

TableNames == {"messages", "audit_log", "tool_calls", "events", "contract_events"}
Stages == {"off", "schema", "ledger", "mark", "chain", "up"}
\* What a statement puts into the database, unless it makes a table.
Put(k, i) == <<Versions[k].statements[i].table, Versions[k].statements[i].column>>
MakesTable(k, i) == Versions[k].statements[i].creates
LastPart(k) == Len(Versions[k].statements)

LEMMA TheTables ==
  /\ Len(Tables) = 5 /\ DOMAIN Tables = 1..5 /\ Core \in TableNames
  /\ \A i \in 1..5 : Tables[i] \in TableNames
  /\ \A t \in TableNames : \E i \in 1..5 : Tables[i] = t
  /\ {Tables[i] : i \in DOMAIN Tables} = TableNames
<1>1. /\ Len(Tables) = 5 /\ DOMAIN Tables = 1..5 /\ Core \in TableNames
      /\ Tables[1] = "messages" /\ Tables[2] = "audit_log" /\ Tables[3] = "tool_calls"
      /\ Tables[4] = "events" /\ Tables[5] = "contract_events"
  BY DEF Tables, TableNames, Core
<1>2. \A i \in 1..5 : i = 1 \/ i = 2 \/ i = 3 \/ i = 4 \/ i = 5
  OBVIOUS
<1>3. \A i \in 1..5 : Tables[i] \in TableNames
  BY <1>1, <1>2 DEF TableNames
<1>4. \A t \in TableNames : \E i \in 1..5 : Tables[i] = t
  BY <1>1 DEF TableNames
<1> QED
  BY <1>1, <1>3, <1>4

LEMMA TheSteps ==
  /\ Steps = 1..5 /\ Len(Versions) = 5
  /\ Versions[1].tolerates /\ ~Versions[2].tolerates /\ ~Versions[3].tolerates
  /\ ~Versions[4].tolerates /\ Versions[5].tolerates
  /\ LastPart(1) = 1 /\ Put(1, 1) = <<"messages", "reasoning">> /\ ~MakesTable(1, 1)
  /\ LastPart(2) = 1 /\ Put(2, 1) = <<"tool_calls", "error_code">> /\ ~MakesTable(2, 1)
  /\ LastPart(3) = 1 /\ Put(3, 1) = <<"events", "all">> /\ MakesTable(3, 1)
  /\ LastPart(4) = 2 /\ Put(4, 1) = <<"contract_events", "event_id">> /\ ~MakesTable(4, 1)
  /\ Put(4, 2) = <<"contract_events", "uk_ce_event">> /\ ~MakesTable(4, 2)
  /\ LastPart(5) = 1 /\ Put(5, 1) = <<"audit_log", "idx_audit_time">> /\ ~MakesTable(5, 1)
  /\ \A k \in Steps : DOMAIN Versions[k].statements = 1..LastPart(k)
<1>1. \A k \in 1..5 : k = 1 \/ k = 2 \/ k = 3 \/ k = 4 \/ k = 5
  OBVIOUS
<1> QED
  BY <1>1 DEF Steps, Versions, LastPart, Put, MakesTable, Adds, Creates

LEMMA WhatIsAdded ==
  /\ AddedBy(1) = {<<"messages", "reasoning">>}
  /\ AddedBy(2) = {<<"tool_calls", "error_code">>}
  /\ AddedBy(3) = {}
  /\ AddedBy(4) = {<<"contract_events", "event_id">>, <<"contract_events", "uk_ce_event">>}
  /\ AddedBy(5) = {<<"audit_log", "idx_audit_time">>}
<1> DEFINE W == {<<t, "all">> : t \in TableNames}
<1>1. \A k \in 1..5 : AddedBy(k) = {Put(k, i) : i \in 1..LastPart(k)} \ W
  BY TheTables, TheSteps DEF AddedBy, Put
<1>2. \A x \in W : x[2] = "all"
  OBVIOUS
<1>3. <<"events", "all">> \in W
  BY DEF TableNames
<1> HIDE DEF W
<1>4. \A i \in 1..1 : i = 1
  OBVIOUS
<1>5. \A i \in 1..2 : i = 1 \/ i = 2
  OBVIOUS
<1> QED
  BY <1>1, <1>2, <1>3, <1>4, <1>5, TheSteps

\* The statements of a step that make no table are what it adds.
LEMMA Added ==
  /\ \A k \in Steps : LastPart(k) \in 1..2
  /\ \A k \in Steps : \A x : x \in AddedBy(k) <=>
       \E i \in 1..LastPart(k) : ~MakesTable(k, i) /\ x = Put(k, i)
  /\ \A k \in Steps : \A i \in 1..LastPart(k) : Put(k, i)[1] \in TableNames
  /\ \A k \in Steps : \A i, j \in 1..LastPart(k) : Put(k, i) = Put(k, j) => i = j
  /\ \A k, l \in Steps : \A x : x \in AddedBy(k) /\ x \in AddedBy(l) => k = l
<1>1. \A k \in Steps : k = 1 \/ k = 2 \/ k = 3 \/ k = 4 \/ k = 5
  BY TheSteps
<1>2. \A i \in 1..1 : i = 1
  OBVIOUS
<1>3. \A i \in 1..2 : i = 1 \/ i = 2
  OBVIOUS
<1>4. 1 \in 1..1 /\ 1 \in 1..2 /\ 2 \in 1..2
  OBVIOUS
<1>5. \A k \in Steps : LastPart(k) \in 1..2
  BY <1>1, <1>4, TheSteps
<1>6. ASSUME NEW k \in Steps, NEW x
      PROVE  x \in AddedBy(k) <=> \E i \in 1..LastPart(k) : ~MakesTable(k, i) /\ x = Put(k, i)
  BY <1>1, <1>2, <1>3, <1>4, TheSteps, WhatIsAdded
<1>7. \A k \in Steps : \A i \in 1..LastPart(k) : Put(k, i)[1] \in TableNames
  BY <1>1, <1>2, <1>3, TheSteps DEF TableNames
<1>8. ASSUME NEW k \in Steps, NEW i \in 1..LastPart(k), NEW j \in 1..LastPart(k),
             Put(k, i) = Put(k, j)
      PROVE  i = j
  BY <1>1, <1>2, <1>3, <1>8, TheSteps
<1>9. ASSUME NEW k \in Steps, NEW l \in Steps, NEW x, x \in AddedBy(k), x \in AddedBy(l)
      PROVE  k = l
  BY <1>1, <1>9, WhatIsAdded
<1> QED
  BY <1>5, <1>6, <1>7, <1>8, <1>9

LEMMA Final ==
  /\ \A t : \A x : x \in FinalOf(t) <=> x[1] = t /\ \E k \in Steps : x \in AddedBy(k)
  /\ \A x : x \in FinalShape <=> \E k \in Steps : x \in AddedBy(k)
  /\ \A k \in Steps : \A x \in AddedBy(k) : x[1] \in TableNames
<1>1. \A s : s \in Statements <=>
        \E k \in Steps : \E i \in 1..LastPart(k) : s = Versions[k].statements[i]
  BY TheSteps DEF Statements
<1>2. \A k \in Steps : \A i \in 1..LastPart(k) :
        Put(k, i) = <<Versions[k].statements[i].table, Versions[k].statements[i].column>>
        /\ Put(k, i)[1] = Versions[k].statements[i].table
  BY DEF Put
<1>3. ASSUME NEW t, NEW x
      PROVE  x \in FinalOf(t) <=> x[1] = t /\ \E k \in Steps : x \in AddedBy(k)
  <2>1. x \in FinalOf(t) <=>
          \E s \in Statements : ~s.creates /\ s.table = t /\ x = <<s.table, s.column>>
    BY DEF FinalOf
  <2>2. x \in FinalOf(t) <=>
          \E k \in Steps : \E i \in 1..LastPart(k) :
            ~MakesTable(k, i) /\ Put(k, i)[1] = t /\ x = Put(k, i)
    BY <2>1, <1>1, <1>2 DEF MakesTable
  <2> QED
    BY <2>2, Added
<1>4. \A k \in Steps : \A x \in AddedBy(k) : x[1] \in TableNames
  BY Added
<1>5. ASSUME NEW x PROVE x \in FinalShape <=> \E k \in Steps : x \in AddedBy(k)
  <2>1. x \in FinalShape <=> \E t \in TableNames : x \in FinalOf(t)
    BY TheTables DEF FinalShape
  <2> QED
    BY <2>1, <1>3, <1>4
<1> QED
  BY <1>3, <1>4, <1>5

\* A non-empty set of naturals has a least element.
LEMMA LeastNat ==
  ASSUME NEW S \in SUBSET Nat, S # {}
  PROVE  \E x \in S : \A y \in S : x <= y
<1> DEFINE R == {p \in Nat \X Nat : p[1] < p[2]}
<1>1. IsWellFoundedOn(R, Nat)
  BY NatLessThanWellFounded, Zenon DEF OpToRel
<1> HIDE DEF R
<1>2. PICK x \in S : \A y \in S : <<y, x>> \notin R
  BY <1>1, WFMin
<1>3. ASSUME NEW y \in S PROVE x <= y
  <2>1. y < x => <<y, x>> \in R
    BY DEF R
  <2> QED
    BY <1>2, <2>1
<1> QED
  BY <1>3

LEMMA NextOfIs ==
  ASSUME NEW S \in SUBSET Steps, S # {}
  PROVE  NextOf(S) \in S /\ \A j \in S : NextOf(S) <= j
<1>1. S \in SUBSET Nat
  BY TheSteps
<1>2. \E k \in S : \A j \in S : k <= j
  BY <1>1, LeastNat
<1> QED
  BY <1>2 DEF NextOf

\* A database none of whose tables is older than this release has its shape.
Whole == \A t \in tables : FinalOf(t) \subseteq shape
FreshIsWhole == Core \notin tables \/ new => Whole
Before(k) == 1..(k - 1) \subseteq applied
\* Where the start is, and what it has made of the step it is at.
Place ==
  /\ stage \in {"schema", "ledger", "mark", "chain"} /\ ~new => Core \in tables
  /\ stage = "ledger" => step = 1
  /\ stage = "mark" => new /\ Before(step)
  /\ stage = "chain" => /\ ~new /\ step \notin applied /\ Before(step)
                        /\ part \in 1..(LastPart(step) + 1)
                        /\ \A i \in 1..(part - 1) : MakesTable(step, i) \/ Put(step, i) \in shape
\* What is left to do of a strict step the database does not have yet.
Open(k) == \A x \in AddedBy(k) : x \notin shape
OpenFrom(k, p) == \A i \in p..LastPart(k) : MakesTable(k, i) \/ Put(k, i) \notin shape
Sound ==
  sound =>
    /\ stage \in {"schema", "ledger", "mark", "chain"} => broken = 0
    /\ stage = "schema" => \A j \in 1..(step - 1) : Tables[j] \in tables
    /\ stage \in {"ledger", "mark", "chain"} => tables = TableNames
    /\ stage \in {"schema", "ledger", "chain"} /\ ~new =>
         \A k \in Steps \ applied : ~Versions[k].tolerates =>
           /\ \A x \in AddedBy(k) : x[1] \in tables
           /\ IF stage = "chain" /\ k = step THEN OpenFrom(k, part) ELSE Open(k)
StartInv ==
  /\ MigTypeOK /\ RecordedInOrder /\ RecordedIsDone /\ SoundStartCompletes
  /\ FreshIsWhole /\ Place /\ Sound

LEMMA StartTypes ==
  ASSUME StartInv
  PROVE  /\ tables \subseteq TableNames /\ shape \subseteq FinalShape /\ applied \subseteq 1..5
         /\ step \in 1..5 /\ part \in 1..3 /\ broken \in 0..5
         /\ Steps = 1..5 /\ new \in BOOLEAN /\ sound \in BOOLEAN
         /\ stage \in {"off", "schema", "ledger", "mark", "chain", "up"}
BY TheTables, TheSteps DEF StartInv, MigTypeOK

LEMMA DatabaseFound == MigInit => StartInv
<1> SUFFICES ASSUME MigInit PROVE StartInv
  OBVIOUS
<1>0. /\ stage = "off" /\ new = FALSE /\ step = 1 /\ part = 1 /\ broken = 0 /\ sound = FALSE
  BY DEF MigInit
<1>1. Place /\ Sound /\ SoundStartCompletes
  BY <1>0 DEF Place, Sound, SoundStartCompletes
<1>2. CASE tables = {} /\ shape = {} /\ applied = {}
  <2>1. MigTypeOK
    <3>1. new \in BOOLEAN /\ sound \in BOOLEAN
      BY <1>0, Zenon
    <3>2. stage \in {"off", "schema", "ledger", "mark", "chain", "up"}
          /\ broken \in Steps \union {0} /\ step \in 1..5 /\ part \in 1..3
      BY <1>0
    <3> QED
      BY <1>2, <3>1, <3>2 DEF MigTypeOK
  <2>2. RecordedInOrder /\ RecordedIsDone /\ FreshIsWhole
    BY <1>2 DEF RecordedInOrder, RecordedIsDone, FreshIsWhole, Whole
  <2> QED
    BY <1>1, <2>1, <2>2 DEF StartInv
<1>3. CASE \E k \in 0..Len(Versions), index \in BOOLEAN :
             /\ tables = {"messages", "audit_log", "tool_calls", "contract_events"}
                         \union (IF k >= 3 THEN {"events"} ELSE {})
             /\ shape = (UNION {AddedBy(j) : j \in 1..k})
                        \union (IF index THEN {<<"audit_log", "idx_audit_time">>} ELSE {})
             /\ applied = 1..k
  <2>1. PICK k \in 0..Len(Versions), index \in BOOLEAN :
             /\ tables = {"messages", "audit_log", "tool_calls", "contract_events"}
                         \union (IF k >= 3 THEN {"events"} ELSE {})
             /\ shape = (UNION {AddedBy(j) : j \in 1..k})
                        \union (IF index THEN {<<"audit_log", "idx_audit_time">>} ELSE {})
             /\ applied = 1..k
    BY <1>3
  <2>2. k \in 0..5 /\ 1..k \subseteq Steps /\ Steps = 1..5
    BY TheSteps
  <2>3. tables \subseteq TableNames /\ Core \in tables
    BY <2>1 DEF TableNames, Core
  <2>4. shape \subseteq FinalShape
    <3>1. <<"audit_log", "idx_audit_time">> \in FinalShape
      BY WhatIsAdded, TheSteps, Final
    <3>2. \A j \in 1..k : AddedBy(j) \subseteq FinalShape
      BY <2>2, Final
    <3> SUFFICES ASSUME NEW x \in shape PROVE x \in FinalShape
      OBVIOUS
    <3>3. CASE index
      <4> DEFINE A == UNION {AddedBy(j) : j \in 1..k}
                 B == {<<"audit_log", "idx_audit_time">>}
      <4>1. shape = A \union B
        BY <2>1, <3>3
      <4> HIDE DEF A, B
      <4>2. x \in A \/ x \in B
        BY <4>1
      <4>3. x \in A => x \in FinalShape
        BY <3>2 DEF A
      <4>4. x \in B => x \in FinalShape
        BY <3>1 DEF B
      <4> QED
        BY <4>2, <4>3, <4>4
    <3>4. CASE ~index
      <4>1. shape = (UNION {AddedBy(j) : j \in 1..k}) \union {}
        BY <2>1, <3>4, Zenon
      <4> QED
        BY <3>2, <4>1
    <3> QED
      BY <3>3, <3>4
  <2>5. RecordedInOrder
    BY <2>1, <2>2 DEF RecordedInOrder
  <2>6. RecordedIsDone
    BY <2>1 DEF RecordedIsDone
  <2>7. MigTypeOK
    <3>1. applied \subseteq Steps /\ {Tables[i] : i \in DOMAIN Tables} = TableNames
      BY <2>1, <2>2, TheTables
    <3>2. new \in BOOLEAN /\ sound \in BOOLEAN
      BY <1>0, Zenon
    <3>3. stage \in {"off", "schema", "ledger", "mark", "chain", "up"}
          /\ broken \in Steps \union {0} /\ step \in 1..5 /\ part \in 1..3
      BY <1>0
    <3> QED
      BY <3>1, <3>2, <3>3, <2>3, <2>4 DEF MigTypeOK
  <2> QED
    BY <1>0, <1>1, <2>3, <2>5, <2>6, <2>7 DEF StartInv, FreshIsWhole
<1> QED
  BY <1>2, <1>3 DEF MigInit

LEMMA BootStep == ASSUME StartInv, Boot PROVE StartInv'
<1>1. /\ new' = (Core \notin tables) /\ stage' = "schema" /\ step' = 1 /\ broken' = 0
      /\ sound' = ~HalfDone /\ UNCHANGED <<tables, shape, applied, part, cuts>>
  BY DEF Boot, FreshDb
<1>2. MigTypeOK'
  <2>1. sound' \in BOOLEAN /\ new' \in BOOLEAN
    BY <1>1 DEF HalfDone
  <2> QED
    BY <1>1, <2>1, TheTables, TheSteps DEF StartInv, MigTypeOK
<1>3. RecordedInOrder' /\ RecordedIsDone' /\ SoundStartCompletes' /\ FreshIsWhole'
  BY <1>1
    DEF StartInv, RecordedInOrder, RecordedIsDone, SoundStartCompletes, FreshIsWhole, Whole
<1>4. Place'
  BY <1>1 DEF Place
<1>5. Sound'
  <2> SUFFICES ASSUME sound' PROVE Sound'
    BY DEF Sound
  <2>1. ~HalfDone
    BY <1>1
  <2>2. ASSUME ~new', NEW k \in Steps \ applied, ~Versions[k].tolerates
        PROVE  /\ \A x \in AddedBy(k) : x[1] \in tables
               /\ Open(k)
    BY <1>1, <2>1, <2>2 DEF HalfDone, Open
  <2>3. \A j \in 1..(1 - 1) : FALSE
    OBVIOUS
  <2> QED
    BY <1>1, <2>2, <2>3 DEF Sound, Open
<1> QED
  BY <1>2, <1>3, <1>4, <1>5 DEF StartInv

\* A table that is made brings all its columns; the others are left alone.
Made(t) == /\ tables' = tables \union {t}
           /\ shape' = (IF t \in tables THEN shape ELSE shape \union FinalOf(t))
LEMMA TableMade ==
  ASSUME StartInv, NEW t \in TableNames, Made(t), applied' = applied
  PROVE  /\ tables' \subseteq TableNames /\ shape' \subseteq FinalShape
         /\ shape \subseteq shape' /\ (Whole => Whole') /\ RecordedIsDone'
         /\ \A x : x[1] \in tables /\ x \notin shape => x \notin shape'
<1>1. tables \subseteq TableNames /\ shape \subseteq FinalShape
  BY StartTypes
<1>2. \A x \in FinalOf(t) : x[1] = t /\ x \in FinalShape
  BY Final
<1>3. tables' \subseteq TableNames /\ shape' \subseteq FinalShape /\ shape \subseteq shape'
  BY <1>1, <1>2 DEF Made
<1>4. Whole => Whole'
  BY <1>3 DEF Whole, Made
<1>5. RecordedIsDone'
  <2> SUFFICES ASSUME NEW k \in applied, NEW x \in AddedBy(k), x[1] \in tables'
               PROVE  x \in shape'
    BY DEF RecordedIsDone
  <2>1. CASE x[1] \in tables
    BY <1>3, <2>1 DEF StartInv, RecordedIsDone
  <2>2. CASE x[1] \notin tables
    <3>1. k \in Steps
      BY StartTypes
    <3>2. x[1] = t /\ x \in FinalOf(t)
      BY <2>2, <3>1, Final DEF Made
    <3> QED
      BY <2>2, <3>2 DEF Made
  <2> QED
    BY <2>1, <2>2
<1>6. \A x : x[1] \in tables /\ x \notin shape => x \notin shape'
  BY <1>2 DEF Made
<1> QED
  BY <1>3, <1>4, <1>5, <1>6

LEMMA ToLedgerIs ==
  ASSUME StartInv, stage = "schema", ToLedger
  PROVE  \/ step < 5 /\ step' = step + 1 /\ stage' = "schema"
         \/ step = 5 /\ step' = 1 /\ stage' = "ledger"
BY StartTypes, TheTables DEF ToLedger, MoreTables

LEMMA MakeTableStep == ASSUME StartInv, MakeTable PROVE StartInv'
<1>1. /\ stage = "schema" /\ Made(Tables[step])
      /\ UNCHANGED <<applied, new, part, broken, cuts, starts, sound>>
  BY DEF MakeTable, Made
<1>2. \/ step < 5 /\ step' = step + 1 /\ stage' = "schema"
      \/ step = 5 /\ step' = 1 /\ stage' = "ledger"
  BY ToLedgerIs DEF MakeTable
<1> DEFINE t == Tables[step]
<1>3. t \in TableNames /\ step \in 1..5
  BY StartTypes, TheTables
<1>4. /\ tables' \subseteq TableNames /\ shape' \subseteq FinalShape
      /\ shape \subseteq shape' /\ (Whole => Whole') /\ RecordedIsDone'
      /\ \A x : x[1] \in tables /\ x \notin shape => x \notin shape'
  BY <1>1, <1>3, TableMade
<1>5. tables' = tables \union {t}
  BY <1>1 DEF Made
<1>6. MigTypeOK'
  <2>1. /\ stage' \in {"off", "schema", "ledger", "mark", "chain", "up"} /\ step' \in 1..5
        /\ applied' \subseteq 1..5 /\ part' \in 1..3 /\ broken' \in 0..5
        /\ new' \in BOOLEAN /\ sound' \in BOOLEAN
    BY <1>1, <1>2, <1>3, StartTypes
  <2> QED
    BY <1>4, <2>1, TheTables, TheSteps DEF MigTypeOK
<1>7. RecordedInOrder' /\ SoundStartCompletes'
  BY <1>1, <1>2 DEF StartInv, RecordedInOrder, SoundStartCompletes
<1>8. FreshIsWhole'
  BY <1>1, <1>4, <1>5 DEF StartInv, FreshIsWhole
<1>9. Place'
  BY <1>1, <1>2, <1>5 DEF StartInv, Place
<1>10. Sound'
  <2> SUFFICES ASSUME sound PROVE Sound'
    BY <1>1 DEF Sound
  <2>1. /\ broken = 0 /\ \A j \in 1..(step - 1) : Tables[j] \in tables
        /\ ~new => \A k \in Steps \ applied : ~Versions[k].tolerates =>
                     (\A x \in AddedBy(k) : x[1] \in tables) /\ Open(k)
    BY <1>1 DEF StartInv, Sound
  <2>2. \A j \in 1..step : Tables[j] \in tables'
    BY <1>3, <1>5, <2>1
  <2>3. ~new => \A k \in Steps \ applied : ~Versions[k].tolerates =>
                  (\A x \in AddedBy(k) : x[1] \in tables') /\ Open(k)'
    BY <1>4, <1>5, <2>1 DEF Open
  <2>4. CASE step < 5 /\ step' = step + 1 /\ stage' = "schema"
    <3>1. step' - 1 = step
      BY <1>3, <2>4
    <3> QED
      BY <1>1, <2>1, <2>2, <2>3, <2>4, <3>1 DEF Sound
  <2>5. CASE step = 5 /\ step' = 1 /\ stage' = "ledger"
    <3>1. tables' = TableNames
      BY <1>4, <2>2, <2>5, TheTables
    <3> QED
      BY <1>1, <2>1, <2>3, <2>5, <3>1 DEF Sound
  <2> QED
    BY <1>2, <2>4, <2>5
<1> QED
  BY <1>4, <1>6, <1>7, <1>8, <1>9, <1>10 DEF StartInv

LEMMA TableFailsStep == ASSUME StartInv, TableFails PROVE StartInv'
<1>1. /\ stage = "schema" /\ sound' = FALSE
      /\ UNCHANGED <<tables, shape, applied, new, part, broken, starts>>
  BY DEF TableFails
<1>2. \/ step < 5 /\ step' = step + 1 /\ stage' = "schema"
      \/ step = 5 /\ step' = 1 /\ stage' = "ledger"
  BY ToLedgerIs DEF TableFails
<1>3. MigTypeOK'
  <2>1. /\ stage' \in {"off", "schema", "ledger", "mark", "chain", "up"} /\ step' \in 1..5
    BY <1>2, StartTypes
  <2> QED
    BY <1>1, <2>1, TheTables, TheSteps DEF MigTypeOK, StartInv
<1>4. RecordedInOrder' /\ RecordedIsDone' /\ SoundStartCompletes' /\ FreshIsWhole' /\ Sound'
  BY <1>1
    DEF StartInv, RecordedInOrder, RecordedIsDone, SoundStartCompletes, FreshIsWhole, Whole,
        Sound
<1>5. Place'
  BY <1>1, <1>2 DEF StartInv, Place
<1> QED
  BY <1>3, <1>4, <1>5 DEF StartInv

\* The chain goes on with the first step that is missing.
LEMMA GoesOn ==
  ASSUME applied' \subseteq Steps, GoOn(Steps \ applied')
  PROVE  \/ applied' = Steps /\ stage' = "up" /\ step' = step /\ part' = part
         \/ /\ stage' = "chain" /\ step' \in Steps \ applied' /\ part' = 1
            /\ 1..(step' - 1) \subseteq applied'
<1> DEFINE S == Steps \ applied'
<1>1. CASE S = {}
  BY <1>1 DEF GoOn
<1>2. CASE S # {}
  <2>1. stage' = "chain" /\ step' = NextOf(S) /\ part' = 1
    BY <1>2 DEF GoOn
  <2>2. S \in SUBSET Steps
    OBVIOUS
  <2> HIDE DEF S
  <2>3. NextOf(S) \in S /\ \A j \in S : NextOf(S) <= j
    BY <1>2, <2>2, NextOfIs
  <2>4. step' \in Steps \ applied' /\ \A j \in Steps \ applied' : step' <= j
    BY <2>1, <2>3 DEF S
  <2>5. ASSUME NEW j \in 1..(step' - 1) PROVE j \in applied'
    <3>1. step' \in 1..5 /\ Steps = 1..5
      BY <2>4, TheSteps
    <3>0. \A m \in 1..5 : \A i \in 1..(m - 1) : i \in 1..5 /\ ~(m <= i)
      OBVIOUS
    <3>2. j \in 1..5 /\ ~(step' <= j)
      BY <3>0, <3>1
    <3> QED
      BY <3>1, <3>2, <2>4
  <2> QED
    BY <2>1, <2>4, <2>5
<1> QED
  BY <1>1, <1>2

\* A database that has every table and every step has its final shape.
LEMMA Complete ==
  ASSUME tables = TableNames, applied = Steps, RecordedIsDone, shape \subseteq FinalShape
  PROVE  shape = FinalShape
BY Final DEF RecordedIsDone

LEMMA OpenFromStart == ASSUME NEW k \in Steps, Open(k) PROVE OpenFrom(k, 1)
BY Added DEF Open, OpenFrom

LEMMA LedgerStep == ASSUME StartInv, Ledger PROVE StartInv'
<1>1. /\ stage = "ledger" /\ step = 1
      /\ UNCHANGED <<tables, shape, applied, new, broken, cuts, starts, sound>>
  BY DEF Ledger, StartInv, Place
<1>2. CASE new
  <2>1. stage' = "mark" /\ step' = 1 /\ part' = part
    BY <1>1, <1>2 DEF Ledger
  <2>2. MigTypeOK'
    BY <1>1, <2>1, TheTables, TheSteps DEF MigTypeOK, StartInv
  <2>3. Place'
    <3>1. 1..(1 - 1) = {}
      OBVIOUS
    <3> QED
      BY <1>1, <1>2, <2>1, <3>1 DEF Place, Before
  <2>4. Sound'
    BY <1>1, <2>1 DEF Sound, StartInv
  <2> QED
    BY <1>1, <2>1, <2>2, <2>3, <2>4
      DEF StartInv, RecordedInOrder, RecordedIsDone, SoundStartCompletes, FreshIsWhole, Whole
<1>3. CASE ~new
  <2>0. applied' = applied /\ applied \subseteq Steps /\ GoOn(Steps \ applied')
    BY <1>1, <1>3, StartTypes DEF Ledger
  <2>1. \/ applied = Steps /\ stage' = "up" /\ step' = step /\ part' = part
        \/ /\ stage' = "chain" /\ step' \in Steps \ applied /\ part' = 1
           /\ 1..(step' - 1) \subseteq applied
    BY <2>0, GoesOn
  <2>2. MigTypeOK'
    <3>1. stage' \in Stages /\ step' \in 1..5 /\ part' \in 1..3
      BY <2>1, StartTypes DEF Stages
    <3> QED
      BY <1>1, <3>1, TheTables, TheSteps DEF MigTypeOK, StartInv, Stages
  <2>3. RecordedInOrder' /\ RecordedIsDone' /\ FreshIsWhole'
    BY <1>1 DEF StartInv, RecordedInOrder, RecordedIsDone, FreshIsWhole, Whole
  <2>4. CASE applied = Steps /\ stage' = "up" /\ step' = step /\ part' = part
    <3>1. sound => broken = 0 /\ shape = FinalShape
      BY <1>1, <2>4, Complete, StartTypes DEF StartInv, Sound
    <3> QED
      BY <1>1, <2>2, <2>3, <2>4, <3>1 DEF StartInv, SoundStartCompletes, Place, Sound
  <2>5. CASE /\ stage' = "chain" /\ step' \in Steps \ applied /\ part' = 1
             /\ 1..(step' - 1) \subseteq applied
    <3>1. Place'
      <4>1. \A i \in 1..(1 - 1) : FALSE
        OBVIOUS
      <4>2. LastPart(step') \in 1..2
        BY <2>5, Added
      <4>3. 1 \in 1..(LastPart(step') + 1)
        BY <4>2
      <4> QED
        BY <1>1, <1>3, <2>5, <4>1, <4>3 DEF Place, Before, StartInv, LastPart
    <3>2. Sound'
      <4> SUFFICES ASSUME sound PROVE Sound'
        BY <1>1 DEF Sound
      <4>1. /\ broken = 0 /\ tables = TableNames
            /\ \A k \in Steps \ applied : ~Versions[k].tolerates =>
                 (\A x \in AddedBy(k) : x[1] \in tables) /\ Open(k)
        BY <1>1, <1>3 DEF StartInv, Sound
      <4>2. \A k \in Steps \ applied : ~Versions[k].tolerates => OpenFrom(k, 1)
        BY <4>1, OpenFromStart
      <4>3. \A k \in Steps \ applied : ~Versions[k].tolerates =>
              (\A x \in AddedBy(k) : x[1] \in tables') /\ Open(k)' /\ OpenFrom(k, 1)'
        BY <1>1, <4>1, <4>2 DEF Open, OpenFrom
      <4> QED
        BY <1>1, <2>5, <4>1, <4>3 DEF Sound, OpenFrom
    <3> QED
      BY <1>1, <2>2, <2>3, <2>5, <3>1, <3>2 DEF StartInv, SoundStartCompletes
  <2> QED
    BY <2>1, <2>4, <2>5
<1> QED
  BY <1>2, <1>3

\* The steps recorded stay the beginning of the chain.
LEMMA RecordedNext ==
  ASSUME RecordedInOrder, NEW k \in Steps, Before(k), applied' = applied \union {k}
  PROVE  RecordedInOrder' /\ 1..k \subseteq applied'
<1>1. \A j \in 1..5 : 1..j \subseteq 1..(j - 1) \union {j}
  OBVIOUS
<1>2. 1..k \subseteq applied'
  BY <1>1, TheSteps DEF Before
<1> QED
  BY <1>2 DEF RecordedInOrder

LEMMA MarkingStep == ASSUME StartInv, MarkStep PROVE StartInv'
<1>1. /\ stage = "mark" /\ applied' = applied \union {step} /\ new /\ Before(step) /\ Whole
      /\ UNCHANGED <<tables, shape, new, part, broken, cuts, starts, sound>>
  BY DEF MarkStep, StartInv, Place, FreshIsWhole
<1>2. step \in Steps /\ Steps = 1..5
  BY StartTypes
<1>3. \/ step < 5 /\ step' = step + 1 /\ stage' = "mark"
      \/ step = 5 /\ step' = step /\ stage' = "up"
  BY <1>1, <1>2, TheSteps DEF MarkStep
<1>4. RecordedInOrder' /\ 1..step \subseteq applied'
  BY <1>1, <1>2, RecordedNext DEF StartInv
<1>5. RecordedIsDone'
  <2> SUFFICES ASSUME NEW k \in applied', NEW x \in AddedBy(k), x[1] \in tables
               PROVE  x \in shape
    BY <1>1 DEF RecordedIsDone
  <2>1. CASE k \in applied
    BY <2>1 DEF StartInv, RecordedIsDone
  <2>2. CASE k = step
    BY <1>1, <1>2, <2>2, Final DEF Whole
  <2> QED
    BY <1>1, <2>1, <2>2
<1>6. MigTypeOK'
  <2>1. stage' \in Stages /\ step' \in 1..5 /\ applied' \subseteq Steps
    BY <1>1, <1>2, <1>3, StartTypes DEF Stages
  <2> QED
    BY <1>1, <2>1 DEF MigTypeOK, StartInv, Stages
<1>7. Place' /\ FreshIsWhole'
  <2>1. step < 5 => 1..(step + 1 - 1) = 1..step
    BY <1>2
  <2>2. stage' = "mark" => 1..(step' - 1) \subseteq applied'
    <3> SUFFICES ASSUME stage' = "mark" PROVE 1..(step' - 1) \subseteq applied'
      OBVIOUS
    <3>1. step < 5 /\ step' = step + 1
      BY <1>3
    <3>2. step' - 1 = step
      BY <1>2, <3>1
    <3> QED
      BY <1>4, <3>2
  <2>3. FreshIsWhole'
    BY <1>1 DEF FreshIsWhole, Whole
  <2>4. stage' \in {"mark", "up"}
    BY <1>3
  <2> QED
    BY <1>1, <2>2, <2>3, <2>4 DEF Place, Before
<1>8. Sound'
  BY <1>1, <1>3 DEF Sound, StartInv
<1>9. SoundStartCompletes'
  <2> SUFFICES ASSUME stage' = "up", sound
               PROVE  broken = 0 /\ applied' = Steps /\ shape = FinalShape
    BY <1>1 DEF SoundStartCompletes
  <2>1. broken = 0 /\ tables = TableNames
    BY <1>1 DEF StartInv, Sound
  <2>2. applied' = Steps
    BY <1>2, <1>3, <1>4, <1>6 DEF MigTypeOK
  <2>3. \A x \in FinalShape : x \in shape
    BY <1>1, <2>1, Final DEF Whole
  <2>4. shape \subseteq FinalShape
    BY StartTypes
  <2> QED
    BY <2>1, <2>2, <2>3, <2>4
<1> QED
  BY <1>4, <1>5, <1>6, <1>7, <1>8, <1>9 DEF StartInv

\* The statement a start is at.
LEMMA StatementIs ==
  ASSUME StartInv, InChain
  PROVE  /\ step \in Steps \ applied /\ part \in 1..LastPart(step) /\ LastPart(step) \in 1..2
         /\ (Statement.creates <=> MakesTable(step, part))
         /\ <<Statement.table, Statement.column>> = Put(step, part)
         /\ Statement.table = Put(step, part)[1] /\ Statement.table \in TableNames
         /\ (There <=> Put(step, part) \in shape)
         /\ (~Statement.creates => Put(step, part) \in AddedBy(step))
         /\ ~new /\ Before(step) /\ Core \in tables /\ stage = "chain"
         /\ \A i \in 1..(part - 1) : MakesTable(step, i) \/ Put(step, i) \in shape
<1>1. stage = "chain" /\ part <= LastPart(step) /\ step \in Steps /\ part \in 1..3
  BY StartTypes DEF InChain, LastPart
<1>2. /\ ~new /\ step \notin applied /\ Before(step) /\ Core \in tables
      /\ \A i \in 1..(part - 1) : MakesTable(step, i) \/ Put(step, i) \in shape
  BY <1>1 DEF StartInv, Place
<1>3. part \in 1..LastPart(step) /\ LastPart(step) \in 1..2
  BY <1>1, Added
<1>4. /\ (Statement.creates <=> MakesTable(step, part))
      /\ <<Statement.table, Statement.column>> = Put(step, part)
      /\ Statement.table = Put(step, part)[1]
  BY DEF Statement, MakesTable, Put
<1>5. Statement.table \in TableNames /\ (~Statement.creates => Put(step, part) \in AddedBy(step))
  BY <1>1, <1>3, <1>4, Added
<1>6. There <=> Put(step, part) \in shape
  BY <1>4 DEF There
<1> QED
  BY <1>1, <1>2, <1>3, <1>4, <1>5, <1>6

\* A statement that is over: it took effect, or what it makes was there.
LEMMA StatementOver ==
  ASSUME StartInv, InChain, tables \subseteq tables', tables' \subseteq TableNames,
         shape \subseteq shape', shape' \subseteq FinalShape, RecordedIsDone', Whole => Whole',
         MakesTable(step, part) \/ Put(step, part) \in shape',
         \A x : x[1] \in tables /\ x \notin shape /\ x # Put(step, part) => x \notin shape',
         part' = part + 1, sound' \in BOOLEAN, sound' => sound,
         UNCHANGED <<applied, stage, new, step, broken>>
  PROVE  StartInv'
<1>1. /\ step \in Steps \ applied /\ part \in 1..LastPart(step) /\ LastPart(step) \in 1..2
      /\ ~new /\ Before(step) /\ Core \in tables /\ stage = "chain"
      /\ \A i \in 1..(part - 1) : MakesTable(step, i) \/ Put(step, i) \in shape
  BY StatementIs
<1>2. MigTypeOK /\ RecordedInOrder /\ FreshIsWhole /\ Sound
  BY DEF StartInv
<1>3. part' \in 1..3 /\ part' \in 1..(LastPart(step) + 1) /\ part' - 1 = part
  BY <1>1
<1>4. MigTypeOK'
  <2>1. tables' \subseteq {Tables[i] : i \in DOMAIN Tables}
    BY TheTables
  <2> QED
    BY <1>2, <1>3, <2>1 DEF MigTypeOK
<1>5. RecordedInOrder' /\ FreshIsWhole' /\ SoundStartCompletes'
  BY <1>1, <1>2 DEF RecordedInOrder, FreshIsWhole, SoundStartCompletes
<1>6. Place'
  <2>1. \A i \in 1..part : MakesTable(step, i) \/ Put(step, i) \in shape'
    <3>1. \A i \in 1..part : i = part \/ i \in 1..(part - 1)
      BY <1>1
    <3> QED
      BY <1>1, <3>1
  <2> QED
    BY <1>1, <1>3, <2>1 DEF Place, Before, LastPart, MakesTable, Put
<1>7. Sound'
  <2> SUFFICES ASSUME sound' PROVE Sound'
    BY DEF Sound
  <2>1. /\ broken = 0 /\ tables = TableNames
        /\ \A k \in Steps \ applied : ~Versions[k].tolerates =>
             /\ \A x \in AddedBy(k) : x[1] \in tables
             /\ IF k = step THEN OpenFrom(k, part) ELSE Open(k)
    BY <1>1, <1>2 DEF Sound
  <2>2. tables' = tables
    BY <2>1
  <2>3. ASSUME NEW k \in Steps \ applied, ~Versions[k].tolerates, k # step PROVE Open(k)'
    <3> SUFFICES ASSUME NEW x \in AddedBy(k) PROVE x \notin shape'
      BY DEF Open
    <3>1. x[1] \in tables /\ x \notin shape
      BY <2>1, <2>3 DEF Open
    <3>2. x # Put(step, part)
      <4>1. CASE MakesTable(step, part)
        <5>1. step = 3 /\ part = 1
          <6>1. step = 1 \/ step = 2 \/ step = 3 \/ step = 4 \/ step = 5
            BY <1>1, TheSteps
          <6>2. \A i \in 1..1 : i = 1
            OBVIOUS
          <6>3. \A i \in 1..2 : i = 1 \/ i = 2
            OBVIOUS
          <6> QED
            BY <1>1, <4>1, <6>1, <6>2, <6>3, TheSteps
        <5>2. Put(step, part) = <<"events", "all">>
          BY <5>1, TheSteps
        <5>3. k \in 1..5
          BY TheSteps
        <5>4. k = 1 \/ k = 2 \/ k = 3 \/ k = 4 \/ k = 5
          BY <5>3
        <5> QED
          BY <5>2, <5>4, WhatIsAdded
      <4>2. CASE ~MakesTable(step, part)
        <5>1. Put(step, part) \in AddedBy(step)
          BY <1>1, <4>2, Added
        <5> QED
          BY <1>1, <2>3, <5>1, Added
      <4> QED
        BY <4>1, <4>2
    <3> QED
      BY <3>1, <3>2
  <2>4. ASSUME ~Versions[step].tolerates, NEW i \in (part + 1)..LastPart(step),
               ~MakesTable(step, i)
        PROVE  Put(step, i) \notin shape'
    <3>1. i \in part..LastPart(step) /\ i \in 1..LastPart(step) /\ i # part
      BY <1>1
    <3>2. Put(step, i) \notin shape
      BY <1>1, <2>1, <2>4, <3>1 DEF OpenFrom
    <3>3. Put(step, i) \in AddedBy(step)
      BY <1>1, <2>4, <3>1, Added
    <3>4. Put(step, i)[1] \in tables
      BY <1>1, <2>1, <2>4, <3>3
    <3>5. Put(step, i) # Put(step, part)
      BY <1>1, <3>1, Added
    <3> QED
      BY <3>2, <3>4, <3>5
  <2>5. ~Versions[step].tolerates =>
          \A i \in part'..LastPart(step) : MakesTable(step, i) \/ Put(step, i) \notin shape'
    BY <2>4
  <2>6. \A k \in Steps \ applied : ~Versions[k].tolerates =>
             /\ \A x \in AddedBy(k) : x[1] \in tables'
             /\ IF k = step' THEN \A i \in part'..LastPart(k) : MakesTable(k, i) \/ Put(k, i) \notin shape'
                ELSE Open(k)'
    BY <2>1, <2>2, <2>3, <2>5
  <2> QED
    BY <1>1, <2>1, <2>2, <2>6 DEF Sound, OpenFrom, Open
<1> QED
  BY <1>4, <1>5, <1>6, <1>7 DEF StartInv

LEMMA RunStepOfChain == ASSUME StartInv, Run PROVE StartInv'
<1> DEFINE t == Statement.table
           p == Put(step, part)
<1>1. /\ InChain
      /\ IF Statement.creates THEN Made(t)
         ELSE shape' = shape \union {<<Statement.table, Statement.column>>} /\ UNCHANGED tables
      /\ part' = part + 1
      /\ UNCHANGED <<applied, stage, new, step, broken, cuts, starts, sound>>
  BY DEF Run, Made
<1>2. /\ (Statement.creates <=> MakesTable(step, part))
      /\ <<Statement.table, Statement.column>> = p /\ t \in TableNames
      /\ (~Statement.creates => p \in AddedBy(step)) /\ step \in Steps
  BY <1>1, StatementIs
<1>3. tables \subseteq TableNames /\ shape \subseteq FinalShape /\ sound' \in BOOLEAN
  BY <1>1, StartTypes
<1> HIDE DEF t, p
<1>4. /\ tables \subseteq tables' /\ tables' \subseteq TableNames
      /\ shape \subseteq shape' /\ shape' \subseteq FinalShape
      /\ RecordedIsDone' /\ (Whole => Whole')
      /\ MakesTable(step, part) \/ p \in shape'
      /\ \A x : x[1] \in tables /\ x \notin shape /\ x # p => x \notin shape'
  <2>1. CASE Statement.creates
    <3>1. Made(t) /\ applied' = applied
      BY <1>1, <2>1
    <3>2. /\ tables' \subseteq TableNames /\ shape' \subseteq FinalShape
          /\ shape \subseteq shape' /\ (Whole => Whole') /\ RecordedIsDone'
          /\ \A x : x[1] \in tables /\ x \notin shape => x \notin shape'
      BY <1>2, <3>1, TableMade
    <3>3. tables \subseteq tables'
      BY <3>1 DEF Made
    <3> QED
      BY <1>2, <2>1, <3>2, <3>3
  <2>2. CASE ~Statement.creates
    <3>1. shape' = shape \union {p} /\ tables' = tables /\ applied' = applied
      BY <1>1, <1>2, <2>2
    <3>2. p \in FinalShape
      BY <1>2, <2>2, Final
    <3>3. RecordedIsDone' /\ (Whole => Whole')
      BY <3>1 DEF StartInv, RecordedIsDone, Whole
    <3> QED
      BY <1>3, <3>1, <3>2, <3>3
  <2> QED
    BY <2>1, <2>2
<1> QED
  BY <1>1, <1>3, <1>4, StatementOver DEF p

LEMMA PassOverStep == ASSUME StartInv, PassOver PROVE StartInv'
<1>1. PICK error \in {"exists", "other"} : Strikes(error) /\ Swallowed(error)
  BY DEF PassOver
<1>2. InChain /\ ~Statement.creates /\ There /\ UNCHANGED <<cuts, sound>>
  BY <1>1 DEF Strikes, Swallowed
<1>3. part' = part + 1 /\ UNCHANGED <<tables, shape, applied, stage, new, step, broken, starts>>
  BY DEF PassOver
<1>4. Put(step, part) \in shape
  BY <1>2, StatementIs
<1>5. tables \subseteq TableNames /\ shape \subseteq FinalShape /\ sound' \in BOOLEAN
  BY <1>2, StartTypes
<1>6. RecordedIsDone' /\ (Whole => Whole')
  BY <1>3 DEF StartInv, RecordedIsDone, Whole
<1> QED
  BY <1>2, <1>3, <1>4, <1>5, <1>6, StatementOver

LEMMA FailsStep == ASSUME StartInv, Fails PROVE StartInv'
<1>1. broken' = step /\ stage' = "up"
      /\ UNCHANGED <<tables, shape, applied, new, starts, step, part>>
  BY DEF Fails, AfterFailure
<1>2. /\ InChain
      /\ ~sound' \/ (sound' = sound /\ ~Statement.creates
                     /\ ((There /\ ~Versions[step].tolerates) \/ Statement.table \notin tables))
      /\ sound' \in BOOLEAN
  <2>1. CASE \E error \in {"exists", "other"} : Strikes(error) /\ ~Swallowed(error)
    BY <2>1, StartTypes DEF Strikes, Swallowed
  <2>2. CASE InChain /\ ~Statement.creates /\ Statement.table \notin tables
             /\ UNCHANGED <<cuts, sound>>
    BY <2>2, StartTypes
  <2> QED
    BY <2>1, <2>2 DEF Fails
<1>3. /\ step \in Steps \ applied /\ part \in 1..LastPart(step) /\ ~new /\ stage = "chain"
      /\ (Statement.creates <=> MakesTable(step, part))
      /\ (There <=> Put(step, part) \in shape)
      /\ Statement.table \in TableNames /\ LastPart(step) \in 1..2
  BY <1>2, StatementIs
<1>4. ~sound'
  <2> SUFFICES ASSUME sound' PROVE FALSE
    OBVIOUS
  <2>1. sound /\ ~Statement.creates
        /\ ((There /\ ~Versions[step].tolerates) \/ Statement.table \notin tables)
    BY <1>2
  <2>2. tables = TableNames /\ (~Versions[step].tolerates => OpenFrom(step, part))
    BY <1>3, <2>1 DEF StartInv, Sound
  <2>3. There /\ OpenFrom(step, part)
    BY <1>3, <2>1, <2>2
  <2>4. part \in part..LastPart(step)
    BY <1>3
  <2> QED
    BY <1>3, <2>1, <2>3, <2>4 DEF OpenFrom
<1>5. MigTypeOK'
  BY <1>1, <1>2, <1>3, TheTables, TheSteps DEF MigTypeOK, StartInv
<1>6. RecordedInOrder' /\ RecordedIsDone' /\ FreshIsWhole' /\ SoundStartCompletes'
  BY <1>1, <1>4
    DEF StartInv, RecordedInOrder, RecordedIsDone, FreshIsWhole, Whole, SoundStartCompletes
<1>7. Place' /\ Sound'
  BY <1>1, <1>4 DEF Place, Sound
<1> QED
  BY <1>5, <1>6, <1>7 DEF StartInv

LEMMA RecordStep == ASSUME StartInv, Record PROVE StartInv'
<1>1. /\ stage = "chain" /\ part > LastPart(step) /\ applied' = applied \union {step}
      /\ GoOn(Steps \ applied')
      /\ UNCHANGED <<tables, shape, new, broken, cuts, starts, sound>>
  BY DEF Record, LastPart
<1>2. /\ ~new /\ step \notin applied /\ Before(step) /\ part \in 1..(LastPart(step) + 1)
      /\ \A i \in 1..(part - 1) : MakesTable(step, i) \/ Put(step, i) \in shape
      /\ Core \in tables
  BY <1>1 DEF StartInv, Place
<1>3. step \in Steps /\ Steps = 1..5 /\ applied \subseteq Steps /\ LastPart(step) \in 1..2
  BY StartTypes, Added
<1>4. AddedBy(step) \subseteq shape
  <2>1. part - 1 = LastPart(step)
    BY <1>1, <1>2, <1>3
  <2> QED
    BY <1>2, <1>3, <2>1, Added
<1>5. RecordedInOrder' /\ applied' \subseteq Steps
  BY <1>1, <1>2, <1>3, RecordedNext DEF StartInv
<1>6. RecordedIsDone'
  BY <1>1, <1>4 DEF StartInv, RecordedIsDone
<1>7. \/ applied' = Steps /\ stage' = "up" /\ step' = step /\ part' = part
      \/ /\ stage' = "chain" /\ step' \in Steps \ applied' /\ part' = 1
         /\ 1..(step' - 1) \subseteq applied'
  BY <1>1, <1>5, GoesOn
<1>8. MigTypeOK'
  <2>1. stage' \in Stages /\ step' \in 1..5 /\ part' \in 1..3
    BY <1>3, <1>7, StartTypes DEF Stages
  <2> QED
    BY <1>1, <1>5, <2>1 DEF MigTypeOK, StartInv, Stages
<1>9. FreshIsWhole'
  BY <1>1, <1>2 DEF FreshIsWhole
<1>10. CASE applied' = Steps /\ stage' = "up" /\ step' = step /\ part' = part
  <2>1. sound => broken = 0 /\ tables = TableNames
    BY <1>1 DEF StartInv, Sound
  <2>2. sound => shape' = FinalShape
    <3>1. tables = TableNames => \A x \in FinalShape : x \in shape
      BY <1>1, <1>6, <1>10, Final DEF RecordedIsDone
    <3> QED
      BY <1>1, <2>1, <3>1, StartTypes
  <2> QED
    BY <1>1, <1>5, <1>6, <1>8, <1>9, <1>10, <2>1, <2>2
      DEF StartInv, SoundStartCompletes, Place, Sound
<1>11. CASE /\ stage' = "chain" /\ step' \in Steps \ applied' /\ part' = 1
            /\ 1..(step' - 1) \subseteq applied'
  <2>1. Place'
    <3>1. \A i \in 1..(1 - 1) : FALSE
      OBVIOUS
    <3>2. LastPart(step') \in 1..2
      BY <1>11, Added
    <3>3. 1 \in 1..(LastPart(step') + 1)
      BY <3>2
    <3> QED
      BY <1>1, <1>2, <1>11, <3>1, <3>3 DEF Place, Before, LastPart
  <2>2. Sound'
    <3> SUFFICES ASSUME sound PROVE Sound'
      BY <1>1 DEF Sound
    <3>1. /\ broken = 0 /\ tables = TableNames
          /\ \A k \in Steps \ applied : ~Versions[k].tolerates =>
               /\ \A x \in AddedBy(k) : x[1] \in tables
               /\ k # step => Open(k)
      BY <1>1, <1>2 DEF StartInv, Sound
    <3>2. \A k \in Steps \ applied' : ~Versions[k].tolerates =>
               /\ \A x \in AddedBy(k) : x[1] \in tables
               /\ Open(k) /\ OpenFrom(k, 1)
      BY <1>1, <3>1, OpenFromStart
    <3>3. \A k \in Steps \ applied' : ~Versions[k].tolerates =>
            (\A x \in AddedBy(k) : x[1] \in tables') /\ Open(k)' /\ OpenFrom(k, 1)'
      BY <1>1, <3>2 DEF Open, OpenFrom
    <3> QED
      BY <1>1, <1>11, <3>1, <3>3 DEF Sound, OpenFrom
  <2> QED
    BY <1>1, <1>5, <1>6, <1>8, <1>9, <1>11, <2>1, <2>2 DEF StartInv, SoundStartCompletes
<1> QED
  BY <1>7, <1>10, <1>11

LEMMA CutStep == ASSUME StartInv, CutStart PROVE StartInv'
<1>1. stage' = "off" /\ sound' = FALSE
      /\ UNCHANGED <<tables, shape, applied, new, step, part, broken, starts>>
  BY DEF CutStart
<1>2. MigTypeOK'
  BY <1>1, TheTables, TheSteps DEF MigTypeOK, StartInv
<1> QED
  BY <1>1, <1>2
    DEF StartInv, RecordedInOrder, RecordedIsDone, FreshIsWhole, Whole, SoundStartCompletes,
        Place, Sound

LEMMA MigSteps == StartInv /\ [MigNext]_migVars => StartInv'
<1> SUFFICES ASSUME StartInv, [MigNext]_migVars PROVE StartInv'
  OBVIOUS
<1>1. CASE UNCHANGED migVars
  <2>1. MigTypeOK'
    BY <1>1 DEF migVars, StartInv, MigTypeOK
  <2>2. RecordedInOrder' /\ RecordedIsDone' /\ FreshIsWhole' /\ SoundStartCompletes'
    BY <1>1 DEF migVars, StartInv, RecordedInOrder, RecordedIsDone, FreshIsWhole, Whole,
        SoundStartCompletes
  <2>3. Place' /\ Sound'
    BY <1>1 DEF migVars, StartInv, Place, Before, Sound, Open, OpenFrom, Put, MakesTable, LastPart
  <2> QED
    BY <2>1, <2>2, <2>3 DEF StartInv
<1> QED
  BY <1>1, BootStep, MakeTableStep, TableFailsStep, LedgerStep, MarkingStep, RunStepOfChain,
     PassOverStep, FailsStep, RecordStep, CutStep DEF MigNext

\* From an empty disk or the database any earlier release left, through starts
\* that die or fail at any statement: no step is recorded over a missing one,
\* none before what it adds is there, and a start that found nothing half done
\* and met no fault leaves the whole chain recorded and the final shape
\* (db.js:582, migrations.js:312).
THEOREM DatabaseIsMigrated == MigSpec => []MigSafe
<1>1. StartInv => MigSafe
  BY DEF StartInv, MigSafe
<1> QED
  BY <1>1, DatabaseFound, MigSteps, PTL DEF MigSpec

-----------------------------------------------------------------------------
(* The process on its host.  The argument for its sandbox: a probe that     *)
(* nothing disturbs finds its own file; a runner that is found has passed   *)
(* the look at the host, which no runner passes once one has leaked.        *)

Runner == {Chain[n] : n \in 1..Len(Chain)}
Behaviour == {"broken", "isolates", "leaks", "lies"}
\* The hosts are those of any runners that do any of these, in any order.
HostConstants ==
  /\ MaxProbes \in Nat /\ Len(Chain) \in Nat \ {0} /\ None \notin Runner /\ None \notin Turns
  /\ Hosts \subseteq [kind : [Runner -> Behaviour], strict : BOOLEAN, atLoad : BOOLEAN]

ProbeState == [at : {"none", "next", "written", "passed", "tried", "over"}, next : Nat,
               found : Runner \cup {None}, guard : BOOLEAN]

\* What is known of a probe, where the file inside is there (i), the file outside
\* is (o), and probes have been disturbed (d).
ProbeGood(p, i, o, d) ==
  /\ p \in ProbeState
  /\ p.at \in {"next", "written", "passed"} => p.next \in 1..Len(Chain)
  /\ p.at = "tried" => p.next = Len(Chain) + 1
  /\ p.found # None => host.kind[p.found] = "isolates"
  /\ p.at = "written" => Kind(p) # "broken" /\ (d \/ i)
  /\ p.at = "passed" => Kind(p) = "isolates" \/ o
  /\ p.at # "none" /\ p.found = None =>
       d \/ o \/ \A n \in 1..(p.next - 1) : host.kind[Chain[n]] # "isolates"

LEMMA RunnerKinds ==
  ASSUME HostConstants, host \in Hosts
  PROVE  /\ host.kind \in [Runner -> Behaviour] /\ host.strict \in BOOLEAN
         /\ \A n \in 1..Len(Chain) : Chain[n] \in Runner
BY DEF HostConstants, Runner

LEMMA UntriedGood ==
  ASSUME HostConstants, NEW i, NEW o, NEW d PROVE ProbeGood(Untried, i, o, d)
BY DEF ProbeGood, Untried, ProbeState

LEMMA BegunGood ==
  ASSUME HostConstants, NEW i, NEW o, NEW d, NEW g \in BOOLEAN
  PROVE  /\ ProbeGood([Untried EXCEPT !.at = "next", !.guard = g], i, o, d)
         /\ [Untried EXCEPT !.at = "next", !.guard = g].at = "next"
         /\ [Untried EXCEPT !.at = "next", !.guard = g].guard = g
<1> DEFINE q == [Untried EXCEPT !.at = "next", !.guard = g]
<1>1. q \in ProbeState /\ q.at = "next" /\ q.next = 1 /\ q.found = None /\ q.guard = g
  BY DEF Untried, ProbeState
<1> HIDE DEF q
<1>2. Len(Chain) \in Nat \ {0}
  BY DEF HostConstants
<1>3. ProbeGood(q, i, o, d)
  BY <1>1, <1>2 DEF ProbeGood
<1> QED
  BY <1>1, <1>3 DEF q

LEMMA OnToGives ==
  ASSUME NEW p \in ProbeState, NEW f \in Runner \cup {None}
  PROVE  /\ OnTo(p, f) \in ProbeState /\ OnTo(p, f).next = p.next + 1
         /\ OnTo(p, f).at = (IF p.next = Len(Chain) THEN "tried" ELSE "next")
         /\ OnTo(p, f).found = (IF p.found = None THEN f ELSE p.found)
         /\ OnTo(p, f).guard = p.guard
<1> DEFINE q == OnTo(p, f)
           a == IF p.next = Len(Chain) THEN "tried" ELSE "next"
           g == IF p.found = None THEN f ELSE p.found
<1>1. p.next + 1 \in Nat /\ a \in {"tried", "next"} /\ g \in Runner \cup {None}
  BY DEF ProbeState
<1>2. q = [p EXCEPT !.next = p.next + 1, !.at = a, !.found = g]
  BY DEF OnTo
<1> HIDE DEF a, g
<1>3. q.next = p.next + 1 /\ q.at = a /\ q.found = g /\ q.guard = p.guard /\ q \in ProbeState
  BY <1>1, <1>2 DEF ProbeState
<1> QED
  BY <1>3 DEF a, g

LEMMA OnToGood ==
  ASSUME HostConstants, NEW p, NEW i, NEW o \in BOOLEAN, NEW d \in BOOLEAN,
         ProbeGood(p, i, o, d),
         p.at \in {"next", "written", "passed"}, NEW f \in Runner \cup {None},
         f # None => host.kind[f] = "isolates", NEW i2, NEW o2, NEW d2,
         o => o2, d => d2, f = None => d2 \/ o2 \/ Kind(p) # "isolates"
  PROVE  ProbeGood(OnTo(p, f), i2, o2, d2)
<1> DEFINE q == OnTo(p, f)
<1>1. p \in ProbeState /\ p.next \in 1..Len(Chain) /\ Len(Chain) \in Nat
  BY DEF ProbeGood, HostConstants
<1>2. /\ q \in ProbeState /\ q.next = p.next + 1
      /\ q.at = (IF p.next = Len(Chain) THEN "tried" ELSE "next")
      /\ q.found = IF p.found = None THEN f ELSE p.found
  BY <1>1, OnToGives
<1> HIDE DEF q
<1>3. q.at = "next" => q.next \in 1..Len(Chain)
  BY <1>1, <1>2
<1>4. q.at = "tried" => q.next = Len(Chain) + 1
  BY <1>1, <1>2
<1>5. q.found # None => host.kind[q.found] = "isolates"
  BY <1>2 DEF ProbeGood
<1>6. ASSUME q.found = None, ~d2, ~o2
      PROVE  \A n \in 1..(q.next - 1) : host.kind[Chain[n]] # "isolates"
  <2>1. p.found = None /\ f = None
    BY <1>2, <1>6
  <2>2. Kind(p) # "isolates" /\ host.kind[Chain[p.next]] # "isolates"
    BY <1>6, <2>1 DEF Kind
  <2>3. p.at # "none" /\ ~d /\ ~o
    BY <1>6
  <2>4. \A n \in 1..(p.next - 1) : host.kind[Chain[n]] # "isolates"
    BY <2>1, <2>3 DEF ProbeGood
  <2>5. \A n \in 1..(q.next - 1) : n \in 1..(p.next - 1) \/ n = p.next
    BY <1>1, <1>2
  <2> QED
    BY <2>2, <2>4, <2>5
<1>7. q.at \in {"tried", "next"}
  BY <1>2
<1>8. ProbeGood(q, i2, o2, d2)
  BY <1>2, <1>3, <1>4, <1>5, <1>6, <1>7 DEF ProbeGood
<1> QED
  BY <1>8 DEF q

\* A probe stays good when the others leave traces outside or disturb it, and
\* when the file inside is taken away, if that is a disturbance.
LEMMA StaysGood ==
  ASSUME NEW p, NEW i, NEW o, NEW d, ProbeGood(p, i, o, d), NEW i2, NEW o2, NEW d2,
         o => o2, d => d2, p.at = "written" /\ i => d2 \/ i2
  PROVE  ProbeGood(p, i2, o2, d2)
BY DEF ProbeGood

Told == IF ledger.told THEN 1 ELSE 0

ProbesInv ==
  /\ host \in Hosts /\ up \in {"down", "loaded", "guarding", "up", "refused"}
  /\ inFlight \in 0..MaxProbes
  /\ inside \in BOOLEAN /\ outside \in BOOLEAN /\ disturbed \in BOOLEAN
  /\ probes = [k \in 1..MaxProbes |-> probes[k]]
  /\ \A k \in 1..MaxProbes : ProbeGood(probes[k], inside, outside, disturbed)
  /\ disturbed \/ \A k, l \in Running : k = l
  /\ \A k \in 1..MaxProbes : probes[k].guard =>
       up \notin {"down", "loaded"} /\ (k \in Running => up = "guarding")
  /\ \A k, l \in 1..MaxProbes : probes[k].guard /\ probes[l].guard => k = l

VerdictInv ==
  /\ cache # None => cache.runner \in Runner \cup {None}
  /\ cache # None /\ cache.runner # None => host.kind[cache.runner] = "isolates"
  /\ NotFoundIsRight

CommandInv ==
  /\ StrictNeverBare
  /\ ran.how \in {"none", "full", "bare", "confined", "refused"}
  /\ ran.how = "confined" => ran.runner \in Runner /\ host.kind[ran.runner] = "isolates"
  /\ ledger \in [told : BOOLEAN, lines : Nat]
  /\ ran.how = "bare" => ledger.told
  /\ ledger.lines = Told \/ (ledger.lines = Told + 1 /\ up = "up")

SandboxInv == ProbesInv /\ VerdictInv /\ CommandInv

LEMMA SandboxBegin == ASSUME HostConstants, HostInit PROVE SandboxInv
<1>1. \A k \in 1..MaxProbes : probes[k] = Untried
  BY DEF HostInit
<1>2. \A k \in 1..MaxProbes : ProbeGood(probes[k], inside, outside, disturbed)
  BY <1>1, UntriedGood
<1>3. Running = {}
  BY <1>1 DEF HostInit, Running, Untried
<1>4. probes = [k \in 1..MaxProbes |-> probes[k]] /\ \A k \in 1..MaxProbes : ~probes[k].guard
  BY <1>1 DEF HostInit, Untried
<1>5. /\ host \in Hosts /\ up = "down" /\ inFlight = 0 /\ cache = None /\ inside = FALSE
      /\ outside = FALSE /\ disturbed = FALSE /\ ran.how = "none"
      /\ ledger = [told |-> FALSE, lines |-> 0] /\ MaxProbes \in Nat
  BY DEF HostInit, NotRun, HostConstants
<1>6. NotFoundIsRight /\ StrictNeverBare /\ ledger.lines = Told
  BY <1>5 DEF NotFoundIsRight, StrictNeverBare, Told
<1>7. inFlight \in 0..MaxProbes /\ ledger \in [told : BOOLEAN, lines : Nat] /\ ~ledger.told
  BY <1>5
<1>8. ProbesInv
  BY <1>2, <1>3, <1>4, <1>5, <1>7 DEF ProbesInv
<1> QED
  BY <1>5, <1>6, <1>7, <1>8 DEF SandboxInv, VerdictInv, CommandInv

\* The probes stay good while nothing they depend on changes.
LEMMA ProbesStand ==
  ASSUME ProbesInv, up' = up \/ (up = "down" /\ up' = "loaded"),
         UNCHANGED <<host, probes, inFlight, inside, outside, disturbed>>
  PROVE  ProbesInv'
<1>1. \A k \in 1..MaxProbes : ProbeGood(probes[k], inside, outside, disturbed)'
  BY DEF ProbesInv, ProbeGood, Kind
<1>2. Running' = Running
  BY DEF Running
<1> QED
  BY <1>1, <1>2 DEF ProbesInv

LEMMA ProbeBegins ==
  ASSUME HostConstants, ProbesInv, NEW g \in BOOLEAN, Probe(g),
         UNCHANGED <<host, inside, outside>>,
         up' \in {"down", "loaded", "guarding", "up", "refused"},
         g => up = "loaded" /\ up' = "guarding",
         ~g => up' = up \/ (up = "down" /\ up' = "loaded")
  PROVE  ProbesInv' /\ (disturbed => disturbed')
<1> DEFINE q == [Untried EXCEPT !.at = "next", !.guard = g]
<1>1. PICK k \in Unused : /\ probes' = [probes EXCEPT ![k] = q] /\ inFlight' = k
                          /\ disturbed' = (disturbed \/ Running # {})
  BY DEF Probe
<1>2. k \in 1..MaxProbes /\ DOMAIN probes = 1..MaxProbes /\ probes[k].at = "none"
  BY DEF Unused, ProbesInv
<1>3. \A l \in 1..MaxProbes : probes'[l] = IF l = k THEN q ELSE probes[l]
  BY <1>1, <1>2
<1>4. probes' = [l \in 1..MaxProbes |-> probes'[l]] /\ DOMAIN probes' = 1..MaxProbes
  BY <1>1 DEF ProbesInv
<1>5. disturbed' \in BOOLEAN /\ (disturbed => disturbed') /\ inFlight' \in 0..MaxProbes
  BY <1>1, <1>2 DEF ProbesInv, HostConstants
<1>6. q.guard = g /\ q.at = "next" /\ ProbeGood(q, inside, outside, disturbed')
  BY BegunGood
<1> HIDE DEF q
<1>7. ASSUME NEW l \in 1..MaxProbes
      PROVE  ProbeGood(probes[l], inside, outside, disturbed)'
  <2>1. ProbeGood(probes[l], inside, outside, disturbed)
    BY DEF ProbesInv
  <2>2. ProbeGood(probes[l], inside, outside, disturbed')
    BY <1>5, <2>1, StaysGood
  <2>3. ProbeGood(probes'[l], inside, outside, disturbed')
    BY <1>3, <1>6, <2>2
  <2> QED
    BY <2>3 DEF ProbeGood, Kind
<1>8. Running' = Running \cup {k}
  BY <1>2, <1>3, <1>4, <1>6 DEF Running
<1>9. disturbed' \/ \A l, m \in Running' : l = m
  BY <1>1, <1>8
<1>10. \A l \in 1..MaxProbes : l \in Running' => l \in Running \/ l = k
  BY <1>8
<1>11. CASE g
  <2>1. \A l \in 1..MaxProbes : ~probes[l].guard
    BY <1>11 DEF ProbesInv
  <2>2. /\ \A l \in 1..MaxProbes : probes'[l].guard => l = k
        /\ up' = "guarding"
    BY <1>3, <1>11, <2>1
  <2> QED
    BY <1>4, <1>5, <1>7, <1>9, <2>2 DEF ProbesInv
<1>12. CASE ~g
  <2>1. \A l \in 1..MaxProbes : probes'[l].guard => probes[l].guard /\ l # k
    BY <1>3, <1>6, <1>12
  <2>2. \A l \in 1..MaxProbes : probes'[l].guard =>
          up' \notin {"down", "loaded"} /\ (l \in Running' => up' = "guarding")
    BY <1>10, <1>12, <2>1 DEF ProbesInv
  <2> QED
    BY <1>4, <1>5, <1>7, <1>9, <2>1, <2>2 DEF ProbesInv
<1> QED
  BY <1>5, <1>11, <1>12

LEMMA VerdictStands ==
  ASSUME VerdictInv, UNCHANGED <<host, cache>>, outside => outside', disturbed => disturbed'
  PROVE  VerdictInv'
<1>1. Isolating' = Isolating
  BY DEF Isolating
<1> QED
  BY <1>1 DEF VerdictInv, NotFoundIsRight

LEMMA CommandStands ==
  ASSUME CommandInv, UNCHANGED <<host, ran, ledger>>, up' = up \/ (up # "up" /\ up' # "up")
  PROVE  CommandInv'
<1>1. Isolating' = Isolating /\ Told' = Told
  BY DEF Isolating, Told
<1> QED
  BY <1>1 DEF CommandInv, StrictNeverBare

LEMMA LoadStep == ASSUME HostConstants, SandboxInv, Load PROVE SandboxInv'
<1>1. /\ up = "down" /\ up' = "loaded"
      /\ UNCHANGED <<host, cache, inside, outside, ledger, ran>>
      /\ Probe(FALSE) \/ UNCHANGED <<probes, inFlight, disturbed>>
  BY DEF Load
<1>2. ProbesInv' /\ (disturbed => disturbed')
  <2>1. ProbesInv
    BY DEF SandboxInv
  <2>2. CASE Probe(FALSE)
    BY <1>1, <2>1, <2>2, ProbeBegins
  <2>3. CASE UNCHANGED <<probes, inFlight, disturbed>>
    BY <1>1, <2>1, <2>3, ProbesStand
  <2> QED
    BY <1>1, <2>2, <2>3
<1> QED
  BY <1>1, <1>2, VerdictStands, CommandStands DEF SandboxInv

LEMMA GuardStep == ASSUME HostConstants, SandboxInv, Guard PROVE SandboxInv'
<1>1. /\ up = "loaded" /\ up' = "guarding" /\ Probe(TRUE)
      /\ UNCHANGED <<host, cache, inside, outside, ledger, ran>>
  BY DEF Guard
<1>2. ProbesInv' /\ (disturbed => disturbed')
  BY <1>1, ProbeBegins DEF SandboxInv
<1> QED
  BY <1>1, <1>2, VerdictStands, CommandStands DEF SandboxInv

LEMMA BareStep ==
  ASSUME CommandInv, HostConstants, host \in Hosts, Bare, UNCHANGED <<host, up>>
  PROVE  CommandInv'
<1>1. Isolating' = Isolating
  BY DEF Isolating
<1>2. CASE host.strict
  <2>1. ran'.how = "refused" /\ ledger' = ledger
    BY <1>2 DEF Bare, AuditedOnce
  <2> QED
    BY <1>1, <2>1 DEF CommandInv, StrictNeverBare, Told
<1>3. CASE ~host.strict /\ ledger.told
  <2>1. ran'.how = "bare" /\ ledger' = ledger
    BY <1>3 DEF Bare, AuditedOnce
  <2> QED
    BY <1>1, <1>3, <2>1 DEF CommandInv, StrictNeverBare, Told
<1>4. CASE ~host.strict /\ ~ledger.told
  <2>1. ran'.how = "bare" /\ ledger' = [told |-> TRUE, lines |-> ledger.lines + 1]
    BY <1>4 DEF Bare, AuditedOnce
  <2>2. Told = 0 /\ Told' = 1
    BY <1>4, <2>1 DEF Told
  <2>3. ledger.lines \in Nat /\ (ledger.lines = 0 \/ (ledger.lines = 1 /\ up = "up"))
    BY <2>2 DEF CommandInv
  <2>4. ledger' \in [told : BOOLEAN, lines : Nat] /\ (ledger'.lines = Told' \/ (ledger'.lines = Told' + 1 /\ up' = "up"))
    BY <2>1, <2>2, <2>3
  <2>5. ledger'.told /\ ran'.how = "bare"
    BY <2>1
  <2>6. StrictNeverBare'
    BY <1>4 DEF StrictNeverBare
  <2> QED
    BY <2>4, <2>5, <2>6 DEF CommandInv
<1> QED
  BY <1>2, <1>3, <1>4

LEMMA ConfineStep ==
  ASSUME HostConstants, SandboxInv, NEW full \in BOOLEAN, Confine(full),
         UNCHANGED <<host, up, cache, inside, outside>>
  PROVE  SandboxInv'
<1>1. host \in Hosts /\ up \in {"down", "loaded", "guarding", "up", "refused"}
  BY DEF SandboxInv, ProbesInv
<1>2. CASE full
  <2>1. ran'.how = "full" /\ UNCHANGED <<probes, inFlight, disturbed, ledger>>
    BY <1>2 DEF Confine
  <2>2. CommandInv'
    BY <2>1 DEF SandboxInv, CommandInv, StrictNeverBare, Isolating, Told
  <2> QED
    BY <2>1, <2>2, ProbesStand, VerdictStands DEF SandboxInv
<1>3. CASE ~full /\ cache # None /\ cache.runner # None
  <2>1. ran' = [how |-> "confined", runner |-> cache.runner]
        /\ UNCHANGED <<probes, inFlight, disturbed, ledger>>
    BY <1>3 DEF Confine
  <2>2. ran'.how = "confined" /\ ran'.runner \in Runner /\ host.kind[ran'.runner] = "isolates"
    BY <1>3, <2>1 DEF SandboxInv, VerdictInv
  <2>3. CommandInv'
    BY <2>1, <2>2 DEF SandboxInv, CommandInv, StrictNeverBare, Isolating, Told
  <2> QED
    BY <2>1, <2>3, ProbesStand, VerdictStands DEF SandboxInv
<1>4. CASE ~full /\ cache # None /\ cache.runner = None
  <2>1. Bare /\ UNCHANGED <<probes, inFlight, disturbed>>
    BY <1>4 DEF Confine
  <2> QED
    BY <1>1, <2>1, BareStep, ProbesStand, VerdictStands DEF SandboxInv
<1>5. CASE ~full /\ cache = None
  <2>1. Bare /\ (UNCHANGED <<probes, inFlight, disturbed>> \/ Probe(FALSE))
    BY <1>5 DEF Confine
  <2>2. ProbesInv' /\ (disturbed => disturbed')
    <3>1. ProbesInv
      BY DEF SandboxInv
    <3>2. CASE Probe(FALSE)
      BY <1>1, <3>1, <3>2, ProbeBegins
    <3>3. CASE UNCHANGED <<probes, inFlight, disturbed>>
      BY <3>1, <3>3, ProbesStand
    <3> QED
      BY <2>1, <3>2, <3>3
  <2> QED
    BY <1>1, <2>1, <2>2, BareStep, VerdictStands DEF SandboxInv
<1> QED
  BY <1>2, <1>3, <1>4, <1>5

LEMMA OneProbe ==
  ASSUME HostConstants, ProbesInv, NEW k \in Running, NEW q,
         probes' = [probes EXCEPT ![k] = q], host' = host, inFlight' \in 0..MaxProbes,
         inside' \in BOOLEAN, outside' \in BOOLEAN, disturbed' \in BOOLEAN,
         outside => outside', disturbed => disturbed',
         ProbeGood(q, inside', outside', disturbed'), q.guard = probes[k].guard,
         up' = up \/ (up' \in {"up", "refused"} /\ q.at = "over" /\ probes[k].guard)
  PROVE  ProbesInv'
<1>1. k \in 1..MaxProbes /\ DOMAIN probes = 1..MaxProbes
  BY DEF Running, ProbesInv
<1>2. \A l \in 1..MaxProbes : probes'[l] = IF l = k THEN q ELSE probes[l]
  BY <1>1
<1>3. probes' = [l \in 1..MaxProbes |-> probes'[l]] /\ DOMAIN probes' = 1..MaxProbes
  BY DEF ProbesInv
<1>4. Running' \subseteq Running
  BY <1>1, <1>2, <1>3 DEF Running
<1>5. disturbed' \/ \A l, m \in Running' : l = m
  BY <1>4 DEF ProbesInv
<1>6. ASSUME NEW l \in 1..MaxProbes
      PROVE  ProbeGood(probes[l], inside, outside, disturbed)'
  <2>1. CASE l = k
    BY <1>2, <2>1 DEF ProbeGood, Kind
  <2>2. CASE l # k
    <3>1. ProbeGood(probes[l], inside, outside, disturbed) /\ probes'[l] = probes[l]
      BY <1>2, <2>2 DEF ProbesInv
    <3>2. probes[l].at = "written" => l \in Running
      BY <1>1 DEF Running
    <3>3. probes[l].at = "written" => disturbed
      BY <2>2, <3>2 DEF ProbesInv
    <3>4. ProbeGood(probes[l], inside', outside', disturbed')
      BY <3>1, <3>3, StaysGood
    <3> QED
      BY <3>1, <3>4 DEF ProbeGood, Kind
  <2> QED
    BY <2>1, <2>2
<1>7. \A l \in 1..MaxProbes : probes'[l].guard = probes[l].guard
  BY <1>2
<1>8. up' \in {"down", "loaded", "guarding", "up", "refused"}
  BY DEF ProbesInv
<1>9. ASSUME NEW l \in 1..MaxProbes, probes'[l].guard
      PROVE  up' \notin {"down", "loaded"} /\ (l \in Running' => up' = "guarding")
  <2>1. probes[l].guard
    BY <1>7, <1>9
  <2>2. up \notin {"down", "loaded"} /\ (l \in Running => up = "guarding")
    BY <2>1 DEF ProbesInv
  <2>3. CASE up' = up
    BY <1>4, <2>2, <2>3
  <2>4. CASE up' \in {"up", "refused"} /\ q.at = "over" /\ probes[k].guard
    <3>1. l = k
      BY <1>1, <2>1, <2>4 DEF ProbesInv
    <3>2. l \notin Running'
      BY <1>2, <1>3, <2>4, <3>1 DEF Running
    <3> QED
      BY <2>4, <3>2
  <2> QED
    BY <2>3, <2>4
<1>10. \A l, m \in 1..MaxProbes : probes'[l].guard /\ probes'[m].guard => l = m
  BY <1>7 DEF ProbesInv
<1> QED
  BY <1>3, <1>5, <1>6, <1>8, <1>9, <1>10 DEF ProbesInv

LEMMA ProbeKnown ==
  ASSUME HostConstants, ProbesInv, NEW k \in DOMAIN probes
  PROVE  /\ k \in 1..MaxProbes /\ ProbeGood(probes[k], inside, outside, disturbed)
         /\ probes[k] \in ProbeState
         /\ probes[k].at \in {"next", "written", "passed", "tried"} => k \in Running
         /\ probes[k].at \in {"next", "written", "passed"} =>
              /\ probes[k].next \in 1..Len(Chain) /\ Chain[probes[k].next] \in Runner
              /\ Kind(probes[k]) \in Behaviour
<1>1. k \in 1..MaxProbes /\ ProbeGood(probes[k], inside, outside, disturbed)
  BY DEF ProbesInv
<1>2. probes[k] \in ProbeState
  BY <1>1 DEF ProbeGood
<1>3. probes[k].at \in {"next", "written", "passed", "tried"} => k \in Running
  BY DEF Running
<1>4. ASSUME probes[k].at \in {"next", "written", "passed"}
      PROVE  /\ probes[k].next \in 1..Len(Chain) /\ Chain[probes[k].next] \in Runner
             /\ Kind(probes[k]) \in Behaviour
  <2>1. probes[k].next \in 1..Len(Chain)
    BY <1>1, <1>4 DEF ProbeGood
  <2>2. Chain[probes[k].next] \in Runner
    BY <2>1 DEF Runner
  <2> QED
    BY <2>1, <2>2, RunnerKinds DEF ProbesInv, Kind
<1> QED
  BY <1>1, <1>2, <1>3, <1>4

LEMMA TryStep ==
  ASSUME HostConstants, SandboxInv, NEW k \in DOMAIN probes, TryRunner(k) PROVE SandboxInv'
<1> DEFINE p == probes[k]
<1>1. /\ p.at = "next" /\ UNCHANGED <<host, up, inFlight, cache, outside, ledger, ran, disturbed>>
  BY DEF TryRunner
<1>2. ProbesInv
  BY DEF SandboxInv
<1>3. /\ ProbeGood(p, inside, outside, disturbed) /\ p \in ProbeState /\ k \in Running
      /\ Kind(p) \in Behaviour /\ p.next \in 1..Len(Chain)
  BY <1>1, <1>2, ProbeKnown
<1>4. /\ inside \in BOOLEAN /\ outside \in BOOLEAN /\ disturbed \in BOOLEAN
      /\ inFlight \in 0..MaxProbes
  BY <1>2 DEF ProbesInv
<1>5. CASE Kind(p) = "broken"
  <2>1. probes' = [probes EXCEPT ![k] = OnTo(p, None)] /\ inside' = inside
    BY <1>5 DEF TryRunner
  <2>2. ProbeGood(OnTo(p, None), inside', outside', disturbed')
    BY <1>1, <1>3, <1>4, <1>5, OnToGood
  <2>3. OnTo(p, None).guard = p.guard
    BY <1>3, OnToGives
  <2> QED
    BY <1>1, <1>2, <1>3, <1>4, <2>1, <2>2, <2>3, OneProbe, VerdictStands, CommandStands
      DEF SandboxInv
<1>6. CASE Kind(p) # "broken"
  <2> DEFINE q == [p EXCEPT !.at = "written"]
  <2>1. probes' = [probes EXCEPT ![k] = q] /\ inside' = TRUE
    BY <1>6 DEF TryRunner
  <2>2. q \in ProbeState /\ q.at = "written" /\ q.next = p.next /\ q.found = p.found
        /\ q.guard = p.guard
    BY <1>3 DEF ProbeState
  <2> HIDE DEF q
  <2>3. ProbeGood(q, inside', outside', disturbed')
    BY <1>1, <1>3, <1>6, <2>1, <2>2 DEF ProbeGood, Kind
  <2> QED
    BY <1>1, <1>2, <1>3, <1>4, <2>1, <2>2, <2>3, OneProbe, VerdictStands, CommandStands
      DEF SandboxInv
<1> QED
  BY <1>5, <1>6

LEMMA CheckStep ==
  ASSUME HostConstants, SandboxInv, NEW k \in DOMAIN probes, CheckRunner(k) PROVE SandboxInv'
<1> DEFINE p == probes[k]
<1>1. /\ p.at = "written" /\ inside' = FALSE
      /\ outside' = (outside \/ (inside /\ Kind(p) \in {"leaks", "lies"}))
      /\ UNCHANGED <<host, up, inFlight, cache, ledger, ran, disturbed>>
  BY DEF CheckRunner
<1>2. ProbesInv
  BY DEF SandboxInv
<1>3. /\ ProbeGood(p, inside, outside, disturbed) /\ p \in ProbeState /\ k \in Running
      /\ Kind(p) \in Behaviour /\ p.next \in 1..Len(Chain)
  BY <1>1, <1>2, ProbeKnown
<1>4. /\ inside \in BOOLEAN /\ outside \in BOOLEAN /\ disturbed \in BOOLEAN
      /\ inFlight \in 0..MaxProbes
  BY <1>2 DEF ProbesInv
<1>5. outside' \in BOOLEAN /\ (outside => outside') /\ Kind(p) # "broken" /\ (disturbed \/ inside)
  BY <1>1, <1>3, <1>4 DEF ProbeGood
<1>6. CASE inside /\ Kind(p) # "leaks"
  <2> DEFINE q == [p EXCEPT !.at = "passed"]
  <2>1. probes' = [probes EXCEPT ![k] = q]
    BY <1>6 DEF CheckRunner
  <2>2. q \in ProbeState /\ q.at = "passed" /\ q.next = p.next /\ q.found = p.found
        /\ q.guard = p.guard
    BY <1>3 DEF ProbeState
  <2> HIDE DEF q
  <2>3. Kind(p) = "isolates" \/ outside'
    BY <1>1, <1>3, <1>5, <1>6 DEF Behaviour
  <2>4. ProbeGood(q, inside', outside', disturbed')
    BY <1>1, <1>3, <1>5, <2>2, <2>3 DEF ProbeGood, Kind
  <2> QED
    BY <1>1, <1>2, <1>3, <1>4, <1>5, <2>1, <2>2, <2>4, OneProbe, VerdictStands, CommandStands
      DEF SandboxInv
<1>7. CASE ~(inside /\ Kind(p) # "leaks")
  <2>1. probes' = [probes EXCEPT ![k] = OnTo(p, None)]
    BY <1>7 DEF CheckRunner
  <2>2. disturbed' \/ outside' \/ Kind(p) # "isolates"
    BY <1>1, <1>5, <1>7
  <2>3. ProbeGood(OnTo(p, None), inside', outside', disturbed')
    BY <1>1, <1>3, <1>4, <1>5, <2>2, OnToGood
  <2>4. OnTo(p, None).guard = p.guard
    BY <1>3, OnToGives
  <2> QED
    BY <1>1, <1>2, <1>3, <1>4, <1>5, <2>1, <2>3, <2>4, OneProbe, VerdictStands, CommandStands
      DEF SandboxInv
<1> QED
  BY <1>6, <1>7

LEMMA LookStep ==
  ASSUME HostConstants, SandboxInv, NEW k \in DOMAIN probes, LookAtHost(k) PROVE SandboxInv'
<1> DEFINE p == probes[k]
           f == CrossCheck(p)
<1>1. /\ p.at = "passed" /\ probes' = [probes EXCEPT ![k] = OnTo(p, f)]
      /\ UNCHANGED <<host, up, inFlight, cache, inside, outside, ledger, ran, disturbed>>
  BY DEF LookAtHost
<1>2. ProbesInv
  BY DEF SandboxInv
<1>3. /\ ProbeGood(p, inside, outside, disturbed) /\ p \in ProbeState /\ k \in Running
      /\ Chain[p.next] \in Runner
  BY <1>1, <1>2, ProbeKnown
<1>4. /\ inside \in BOOLEAN /\ outside \in BOOLEAN /\ disturbed \in BOOLEAN
      /\ inFlight \in 0..MaxProbes
  BY <1>2 DEF ProbesInv
<1>5. f = IF outside THEN None ELSE Chain[p.next]
  BY DEF CrossCheck
<1>6. Kind(p) = "isolates" \/ outside
  BY <1>1, <1>3 DEF ProbeGood
<1>7. f \in Runner \cup {None} /\ (f # None => host.kind[f] = "isolates")
  BY <1>3, <1>5, <1>6 DEF Kind
<1>8. f = None => outside
  BY <1>3, <1>5 DEF HostConstants
<1> HIDE DEF f
<1>9. ProbeGood(OnTo(p, f), inside', outside', disturbed')
  BY <1>1, <1>3, <1>4, <1>7, <1>8, OnToGood
<1>10. OnTo(p, f).guard = p.guard
  BY <1>3, <1>7, OnToGives
<1> QED
  BY <1>1, <1>2, <1>3, <1>4, <1>9, <1>10, OneProbe, VerdictStands, CommandStands DEF SandboxInv

LEMMA TimeoutStep ==
  ASSUME HostConstants, SandboxInv, NEW k \in DOMAIN probes, ProbeTimesOut(k) PROVE SandboxInv'
<1> DEFINE p == probes[k]
<1>1. /\ p.at = "written" /\ probes' = [probes EXCEPT ![k] = OnTo(p, None)] /\ disturbed' = TRUE
      /\ UNCHANGED <<host, up, inFlight, cache, inside, outside, ledger, ran>>
  BY DEF ProbeTimesOut
<1>2. ProbesInv
  BY DEF SandboxInv
<1>3. /\ ProbeGood(p, inside, outside, disturbed) /\ p \in ProbeState /\ k \in Running
  BY <1>1, <1>2, ProbeKnown
<1>4. /\ inside \in BOOLEAN /\ outside \in BOOLEAN /\ disturbed \in BOOLEAN
      /\ inFlight \in 0..MaxProbes
  BY <1>2 DEF ProbesInv
<1>5. ProbeGood(OnTo(p, None), inside', outside', disturbed')
  BY <1>1, <1>3, <1>4, OnToGood
<1>6. OnTo(p, None).guard = p.guard
  BY <1>3, OnToGives
<1> QED
  BY <1>1, <1>2, <1>3, <1>4, <1>5, <1>6, OneProbe, VerdictStands, CommandStands DEF SandboxInv

LEMMA EndProbeStep ==
  ASSUME HostConstants, SandboxInv, NEW k \in DOMAIN probes, EndProbe(k) PROVE SandboxInv'
<1> DEFINE p == probes[k]
           q == [p EXCEPT !.at = "over"]
<1>1. /\ p.at = "tried" /\ probes' = [probes EXCEPT ![k] = q] /\ inFlight' = 0
      /\ cache' = [runner |-> p.found]
      /\ UNCHANGED <<host, inside, outside, ran, disturbed>>
  BY DEF EndProbe
<1>2. \/ ~p.guard /\ UNCHANGED <<up, ledger>>
      \/ p.guard /\ p.found # None /\ up' = "up" /\ UNCHANGED ledger
      \/ p.guard /\ p.found = None /\ host.strict /\ up' = "refused" /\ UNCHANGED ledger
      \/ p.guard /\ p.found = None /\ ~host.strict /\ up' = "up"
         /\ ledger' = [ledger EXCEPT !.lines = @ + 1]
  BY DEF EndProbe
<1>3. ProbesInv /\ VerdictInv /\ CommandInv /\ host \in Hosts
  BY DEF SandboxInv, ProbesInv
<1>4. /\ ProbeGood(p, inside, outside, disturbed) /\ p \in ProbeState /\ k \in Running
      /\ k \in 1..MaxProbes
  BY <1>1, <1>3, ProbeKnown
<1>5. /\ inside \in BOOLEAN /\ outside \in BOOLEAN /\ disturbed \in BOOLEAN
      /\ inFlight' \in 0..MaxProbes
  BY <1>1, <1>3 DEF ProbesInv, HostConstants
<1>6. q \in ProbeState /\ q.at = "over" /\ q.next = p.next /\ q.found = p.found
      /\ q.guard = p.guard
  BY <1>4 DEF ProbeState
<1> HIDE DEF q
<1>7. ProbeGood(q, inside', outside', disturbed')
  BY <1>1, <1>4, <1>6 DEF ProbeGood
<1>8. ProbesInv'
  BY <1>1, <1>2, <1>3, <1>4, <1>5, <1>6, <1>7, OneProbe
<1>9. /\ p.found \in Runner \cup {None} /\ (p.found # None => host.kind[p.found] = "isolates")
      /\ p.guard => up = "guarding"
  <2>1. p.guard => up = "guarding"
    BY <1>3, <1>4 DEF ProbesInv
  <2> QED
    BY <1>4, <2>1 DEF ProbeGood, ProbeState
<1>10. /\ DOMAIN host.kind = Runner /\ Isolating' = Isolating
       /\ p.found # None => Isolating # {}
  BY <1>1, <1>3, <1>9, RunnerKinds DEF Isolating
<1>11. p.found = None => disturbed \/ outside \/ Isolating = {}
  <2> SUFFICES ASSUME p.found = None, ~disturbed, ~outside, NEW c \in Isolating PROVE FALSE
    OBVIOUS
  <2>1. c \in Runner /\ host.kind[c] = "isolates"
    BY <1>10 DEF Isolating
  <2>2. PICK n \in 1..Len(Chain) : c = Chain[n]
    BY <2>1 DEF Runner
  <2>3. p.next = Len(Chain) + 1 /\ Len(Chain) \in Nat
    BY <1>1, <1>4 DEF ProbeGood, HostConstants
  <2>4. \A m \in 1..(p.next - 1) : host.kind[Chain[m]] # "isolates"
    BY <1>1, <1>4 DEF ProbeGood
  <2> QED
    BY <2>1, <2>2, <2>3, <2>4
<1>12. VerdictInv'
  <2>1. cache'.runner = p.found
    BY <1>1
  <2> QED
    BY <1>1, <1>9, <1>10, <1>11, <2>1 DEF VerdictInv, NotFoundIsRight
<1>13. CommandInv'
  <2>1. CASE UNCHANGED <<up, ledger>>
    BY <1>1, <1>3, <2>1, CommandStands
  <2>2. CASE p.guard /\ p.found # None /\ up' = "up" /\ UNCHANGED ledger
    <3>1. Told' = Told /\ up # "up"
      BY <1>9, <2>2 DEF Told
    <3> QED
      BY <1>1, <1>3, <1>10, <2>2, <3>1 DEF CommandInv, StrictNeverBare
  <2>3. CASE p.guard /\ host.strict /\ up' = "refused" /\ UNCHANGED ledger
    <3>1. up # "up"
      BY <1>9, <2>3
    <3> QED
      BY <1>1, <1>3, <2>3, <3>1, CommandStands
  <2>4. CASE p.guard /\ ~host.strict /\ up' = "up" /\ ledger' = [ledger EXCEPT !.lines = @ + 1]
    <3>1. ledger.lines = Told /\ ledger.told \in BOOLEAN /\ Told \in Nat
      BY <1>3, <1>9, <2>4 DEF CommandInv, Told
    <3>2. StrictNeverBare'
      BY <1>1, <2>4 DEF StrictNeverBare
    <3>3. /\ ledger \in [told : BOOLEAN, lines : Nat] /\ ledger.lines + 1 \in Nat
      BY <1>3 DEF CommandInv
    <3>4. /\ ledger'.told = ledger.told /\ ledger'.lines = ledger.lines + 1
          /\ ledger' \in [told : BOOLEAN, lines : Nat]
      BY <2>4, <3>3
    <3> QED
      BY <1>1, <1>3, <2>4, <3>1, <3>2, <3>4 DEF CommandInv, Told
  <2> QED
    BY <1>2, <2>1, <2>2, <2>3, <2>4
<1> QED
  BY <1>8, <1>12, <1>13 DEF SandboxInv

LEMMA StopSandbox == ASSUME HostConstants, SandboxInv, Stop PROVE SandboxInv'
<1>1. /\ up' = "down" /\ probes' = [k \in DOMAIN probes |-> Untried] /\ inFlight' = 0
      /\ cache' = None /\ disturbed' = (disturbed \/ Running # {})
      /\ ledger' = [told |-> FALSE, lines |-> 0] /\ ran' = NotRun
      /\ UNCHANGED <<host, inside, outside>>
  BY DEF Stop
<1>2. /\ host \in Hosts /\ inside \in BOOLEAN /\ outside \in BOOLEAN /\ disturbed' \in BOOLEAN
      /\ DOMAIN probes = 1..MaxProbes /\ inFlight' \in 0..MaxProbes
  BY <1>1 DEF SandboxInv, ProbesInv, HostConstants
<1>3. \A k \in 1..MaxProbes : probes'[k] = Untried
  BY <1>1, <1>2
<1>4. \A k \in 1..MaxProbes : ProbeGood(probes'[k], inside, outside, disturbed')
  BY <1>3, UntriedGood
<1>5. \A k \in 1..MaxProbes : ProbeGood(probes[k], inside, outside, disturbed)'
  BY <1>1, <1>4 DEF ProbeGood, Kind
<1>6. probes' = [k \in 1..MaxProbes |-> probes'[k]] /\ DOMAIN probes' = 1..MaxProbes
  BY <1>1, <1>2
<1>7. Running' = {} /\ \A k \in 1..MaxProbes : ~probes'[k].guard
  BY <1>3, <1>6 DEF Running, Untried
<1>8. ProbesInv'
  BY <1>1, <1>2, <1>5, <1>6, <1>7 DEF ProbesInv
<1>9. /\ ran'.how = "none" /\ ledger'.lines = 0 /\ Told' = 0
      /\ ledger' \in [told : BOOLEAN, lines : Nat]
  BY <1>1 DEF NotRun, Told
<1>10. StrictNeverBare' /\ NotFoundIsRight'
  BY <1>1, <1>9 DEF StrictNeverBare, NotFoundIsRight
<1> QED
  BY <1>1, <1>8, <1>9, <1>10 DEF SandboxInv, VerdictInv, CommandInv

LEMMA SandboxStands ==
  ASSUME SandboxInv, UNCHANGED <<host, up, sandboxVars>> PROVE SandboxInv'
<1>1. UNCHANGED <<host, up, probes, inFlight, cache, inside, outside, ledger, ran, disturbed>>
  BY DEF sandboxVars
<1> QED
  BY <1>1, ProbesStand, VerdictStands, CommandStands DEF SandboxInv

LEMMA SandboxSteps ==
  ASSUME HostConstants PROVE SandboxInv /\ [HostNext]_hostVars => SandboxInv'
<1> SUFFICES ASSUME SandboxInv, [HostNext]_hostVars PROVE SandboxInv'
  OBVIOUS
<1>1. CASE UNCHANGED hostVars
  BY <1>1, SandboxStands DEF hostVars
<1>2. CASE RunCommand
  BY <1>2, ConfineStep DEF RunCommand
<1>3. CASE GiveRestart
  BY <1>3, SandboxStands DEF GiveRestart
<1>4. ASSUME NEW j \in Jobs, RunLongTask(j) PROVE SandboxInv'
  BY <1>4, ConfineStep DEF RunLongTask
<1>5. ASSUME NEW j \in Jobs,
             JobSaved(j) \/ JobEnds(j) \/ WriteStatus(j) \/ Kill(j) \/ MarkStale(j)
      PROVE  SandboxInv'
  BY <1>5, SandboxStands DEF JobSaved, JobEnds, WriteStatus, Kill, MarkStale
<1>6. ASSUME NEW t \in Turns, BeginTurn(t) \/ AskReload(t) \/ EndTurn(t) PROVE SandboxInv'
  BY <1>6, SandboxStands DEF BeginTurn, AskReload, EndTurn
<1> QED
  BY <1>1, <1>2, <1>3, <1>4, <1>5, <1>6, LoadStep, GuardStep, StopSandbox, TryStep, CheckStep,
     LookStep, TimeoutStep, EndProbeStep DEF HostNext

-----------------------------------------------------------------------------
(* Its background commands: one that ends unheard of ended early.          *)

Status == {"exited", "killed", "gone"}
Job == [process : {"none", "alive", "dead"}, memory : {"none", "running", "exited"},
        row : {"none", "running", "stale"} \cup Status, saving : BOOLEAN, heard : BOOLEAN,
        early : BOOLEAN, writes : SUBSET Status]

\* Nobody listens before the row is written, and who is listed in memory is
\* listened to afterwards; an end that nobody heard is an early one.
JobGood(r) ==
  /\ r \in Job
  /\ r.saving => ~r.heard /\ (r.process = "dead" => r.early)
  /\ r.process = "alive" /\ ~r.saving /\ r.memory # "none" => r.heard
  /\ r.memory = "exited" \/ r.row \in {"exited", "gone"} \/ "exited" \in r.writes
       \/ "gone" \in r.writes => r.process = "dead"
  /\ r.process = "dead" =>
       /\ r.memory = "running" => r.early
       /\ r.row = "running" /\ r.memory # "none" => r.early \/ r.writes # {}

JobsInv == jobs = [j \in Jobs |-> jobs[j]] /\ \A j \in Jobs : JobGood(jobs[j])

LEMMA NoJobGood == JobGood(NoJob)
BY DEF JobGood, NoJob, Job, Status

LEMMA StartedGood ==
  JobGood([NoJob EXCEPT !.process = "alive", !.memory = "running", !.saving = TRUE])
BY DEF JobGood, NoJob, Job, Status

LEMMA PrunedGood == ASSUME NEW r, JobGood(r) PROVE JobGood([r EXCEPT !.memory = "none"])
<1> DEFINE q == [r EXCEPT !.memory = "none"]
<1>1. q \in Job /\ q.memory = "none" /\ q.process = r.process /\ q.row = r.row
      /\ q.saving = r.saving /\ q.heard = r.heard /\ q.early = r.early /\ q.writes = r.writes
  BY DEF JobGood, Job
<1> HIDE DEF q
<1>2. JobGood(q)
  BY <1>1 DEF JobGood
<1> QED  BY <1>2 DEF q

LEMMA RunLongStep == ASSUME JobsInv, NEW k \in Jobs, RunLongTask(k) PROVE JobsInv'
<1>1. PICK old \in SUBSET {i \in Jobs : jobs[i].memory = "exited"} :
        jobs' = [i \in Jobs |->
                  IF i = k /\ ran'.how # "refused"
                  THEN [NoJob EXCEPT !.process = "alive", !.memory = "running", !.saving = TRUE]
                  ELSE IF i \in old THEN [jobs[i] EXCEPT !.memory = "none"] ELSE jobs[i]]
  BY DEF RunLongTask, Prunable
<1>2. ASSUME NEW i \in Jobs PROVE JobGood(jobs'[i])
  <2>1. JobGood(jobs[i])
    BY DEF JobsInv
  <2>2. \/ jobs'[i] = [NoJob EXCEPT !.process = "alive", !.memory = "running", !.saving = TRUE]
        \/ jobs'[i] = [jobs[i] EXCEPT !.memory = "none"]
        \/ jobs'[i] = jobs[i]
    BY <1>1
  <2> QED
    BY <2>1, <2>2, StartedGood, PrunedGood
<1> QED
  BY <1>1, <1>2 DEF JobsInv

\* One command changes and is good.
LEMMA OneJob ==
  ASSUME JobsInv, NEW k \in Jobs, NEW q, JobGood(q), jobs' = [jobs EXCEPT ![k] = q]
  PROVE  JobsInv'
<1>1. \A j \in Jobs : jobs'[j] = IF j = k THEN q ELSE jobs[j]
  BY DEF JobsInv
<1>2. jobs' = [j \in Jobs |-> jobs'[j]]
  BY DEF JobsInv
<1> QED
  BY <1>1, <1>2 DEF JobsInv

LEMMA SavedStep == ASSUME JobsInv, NEW k \in Jobs, JobSaved(k) PROVE JobsInv'
<1> DEFINE r == jobs[k]
           a == r.process = "alive"
           p == [r EXCEPT !.saving = FALSE, !.row = "running", !.heard = a]
           q == [r EXCEPT !.saving = FALSE, !.heard = a]
<1>1. JobGood(r) /\ r.saving
  BY DEF JobsInv, JobSaved
<1>2. jobs' = [jobs EXCEPT ![k] = p] \/ jobs' = [jobs EXCEPT ![k] = q]
  BY DEF JobSaved, JobsInv
<1>3. p \in Job /\ p.memory = r.memory /\ p.process = r.process /\ p.row = "running"
      /\ p.saving = FALSE /\ p.heard = a /\ p.early = r.early /\ p.writes = r.writes
  BY <1>1 DEF JobGood, Job
<1>4. q \in Job /\ q.memory = r.memory /\ q.process = r.process /\ q.row = r.row
      /\ q.saving = FALSE /\ q.heard = a /\ q.early = r.early /\ q.writes = r.writes
  BY <1>1 DEF JobGood, Job
<1>5. r.memory \in {"none", "running", "exited"}
  BY <1>1 DEF JobGood, Job
<1> HIDE DEF p, q
<1>6. JobGood(p)
  BY <1>1, <1>3, <1>5 DEF JobGood
<1>7. JobGood(q)
  BY <1>1, <1>4, <1>5 DEF JobGood
<1> QED
  BY <1>2, <1>6, <1>7, OneJob

LEMMA EndsStep == ASSUME JobsInv, NEW k \in Jobs, JobEnds(k) PROVE JobsInv'
<1> DEFINE r == jobs[k]
           m == IF r.memory = "none" THEN r.memory ELSE "exited"
           p == [r EXCEPT !.process = "dead", !.memory = m, !.writes = r.writes \cup {"exited"}]
           q == [r EXCEPT !.process = "dead", !.early = r.saving]
<1>1. JobGood(r) /\ r.process = "alive"
  BY DEF JobsInv, JobEnds
<1>2. CASE r.heard
  <2>1. jobs' = [jobs EXCEPT ![k] = p]
    BY <1>2 DEF JobEnds, Ended
  <2>2. p \in Job /\ p.memory = m /\ p.process = "dead" /\ p.row = r.row
        /\ p.saving = r.saving /\ p.heard = r.heard /\ p.early = r.early
        /\ p.writes = r.writes \cup {"exited"}
    BY <1>1 DEF JobGood, Job, Status
  <2> HIDE DEF p
  <2>3. JobGood(p)
    BY <1>1, <1>2, <2>2 DEF JobGood
  <2> QED  BY <2>1, <2>3, OneJob
<1>3. CASE ~r.heard
  <2>1. jobs' = [jobs EXCEPT ![k] = q]
    BY <1>3 DEF JobEnds, Ended
  <2>2. q \in Job /\ q.memory = r.memory /\ q.process = "dead" /\ q.row = r.row
        /\ q.saving = r.saving /\ q.heard = r.heard /\ q.early = r.saving
        /\ q.writes = r.writes
    BY <1>1 DEF JobGood, Job
  <2> HIDE DEF q
  <2>3. r.saving \/ r.memory = "none"
    BY <1>1, <1>3 DEF JobGood
  <2>4. JobGood(q)
    BY <1>1, <1>3, <2>2, <2>3 DEF JobGood
  <2> QED  BY <2>1, <2>4, OneJob
<1> QED  BY <1>2, <1>3

LEMMA WriteStep == ASSUME JobsInv, NEW k \in Jobs, WriteStatus(k) PROVE JobsInv'
<1> DEFINE r == jobs[k]
<1>1. JobGood(r)
  BY DEF JobsInv
<1>2. PICK status \in r.writes :
        jobs' = [jobs EXCEPT ![k].writes = @ \ {status},
                             ![k].row = IF @ = "none" THEN @ ELSE status]
  BY DEF WriteStatus
<1> DEFINE n == IF r.row = "none" THEN r.row ELSE status
           q == [r EXCEPT !.writes = r.writes \ {status}, !.row = n]
<1>3. jobs' = [jobs EXCEPT ![k] = q]
  BY <1>2 DEF JobsInv
<1>4. status \in Status /\ r.writes \ {status} \in SUBSET Status
  BY <1>1, <1>2 DEF JobGood, Job
<1>5. q \in Job /\ q.memory = r.memory /\ q.process = r.process /\ q.row = n
      /\ q.saving = r.saving /\ q.heard = r.heard /\ q.early = r.early
      /\ q.writes = r.writes \ {status}
  BY <1>1, <1>4 DEF JobGood, Job
<1> HIDE DEF q
<1>6. JobGood(q)
  BY <1>1, <1>2, <1>4, <1>5 DEF JobGood, Status
<1> QED
  BY <1>3, <1>6, OneJob

LEMMA KillStep == ASSUME JobsInv, NEW k \in Jobs, Kill(k) PROVE JobsInv'
<1> DEFINE r == jobs[k]
           news == IF r.process = "alive" THEN "killed" ELSE "gone"
           q == [r EXCEPT !.writes = r.writes \cup {news}]
<1>1. JobGood(r) /\ r.process # "none"
  BY DEF JobsInv, Kill
<1>2. jobs' = [jobs EXCEPT ![k] = q]
  BY DEF Kill, JobsInv
<1>3. q \in Job /\ q.memory = r.memory /\ q.process = r.process /\ q.row = r.row
      /\ q.saving = r.saving /\ q.heard = r.heard /\ q.early = r.early
      /\ q.writes = r.writes \cup {news}
  BY <1>1 DEF JobGood, Job, Status
<1>4. r.process \in {"alive", "dead"}
  BY <1>1 DEF JobGood, Job
<1> HIDE DEF q
<1>5. JobGood(q)
  BY <1>1, <1>3, <1>4 DEF JobGood
<1> QED
  BY <1>2, <1>5, OneJob

LEMMA StaleStep == ASSUME JobsInv, NEW k \in Jobs, MarkStale(k) PROVE JobsInv'
<1> DEFINE r == jobs[k]
           q == [r EXCEPT !.row = "stale"]
<1>1. JobGood(r)
  BY DEF JobsInv
<1>2. jobs' = [jobs EXCEPT ![k] = q]
  BY DEF MarkStale, JobsInv
<1>3. q \in Job /\ q.memory = r.memory /\ q.process = r.process /\ q.row = "stale"
      /\ q.saving = r.saving /\ q.heard = r.heard /\ q.early = r.early
      /\ q.writes = r.writes
  BY <1>1 DEF JobGood, Job
<1> HIDE DEF q
<1>4. JobGood(q)
  BY <1>1, <1>3 DEF JobGood
<1> QED
  BY <1>2, <1>4, OneJob

LEMMA StopJobs == ASSUME JobsInv, Stop PROVE JobsInv'
<1>1. PICK ended \in SUBSET Jobs :
        jobs' = [j \in Jobs |-> [jobs[j] EXCEPT
                  !.process = IF j \in ended /\ @ = "alive" THEN "dead" ELSE @,
                  !.memory = "none", !.saving = FALSE, !.heard = FALSE, !.writes = {}]]
  BY DEF Stop
<1>2. ASSUME NEW j \in Jobs PROVE JobGood(jobs'[j])
  <2> DEFINE r == jobs[j]
             d == IF j \in ended /\ r.process = "alive" THEN "dead" ELSE r.process
             q == [r EXCEPT !.process = d, !.memory = "none", !.saving = FALSE, !.heard = FALSE,
                            !.writes = {}]
  <2>1. JobGood(r)
    BY DEF JobsInv
  <2>2. jobs'[j] = q
    BY <1>1
  <2>3. q \in Job /\ q.memory = "none" /\ q.process = d /\ q.row = r.row
        /\ q.saving = FALSE /\ q.heard = FALSE /\ q.early = r.early /\ q.writes = {}
    BY <2>1 DEF JobGood, Job
  <2> HIDE DEF q
  <2>4. JobGood(q)
    BY <2>1, <2>3 DEF JobGood
  <2> QED  BY <2>2, <2>4
<1> QED
  BY <1>1, <1>2 DEF JobsInv

LEMMA JobsSteps == JobsInv /\ [HostNext]_hostVars => JobsInv'
<1> SUFFICES ASSUME JobsInv, [HostNext]_hostVars PROVE JobsInv'
  OBVIOUS
<1>1. CASE UNCHANGED jobs
  BY <1>1 DEF JobsInv
<1>2. UNCHANGED hostVars => UNCHANGED jobs
  BY DEF hostVars
<1>3. Load \/ Guard \/ RunCommand \/ GiveRestart => UNCHANGED jobs
  BY DEF Load, Guard, RunCommand, GiveRestart
<1>4. ASSUME NEW k \in DOMAIN probes
      PROVE  TryRunner(k) \/ CheckRunner(k) \/ LookAtHost(k) \/ ProbeTimesOut(k) \/ EndProbe(k)
               => UNCHANGED jobs
  BY DEF TryRunner, CheckRunner, LookAtHost, ProbeTimesOut, EndProbe
<1>5. ASSUME NEW t \in Turns PROVE BeginTurn(t) \/ AskReload(t) \/ EndTurn(t) => UNCHANGED jobs
  BY DEF BeginTurn, AskReload, EndTurn
<1> QED
  BY <1>1, <1>2, <1>3, <1>4, <1>5, RunLongStep, SavedStep, EndsStep, WriteStep, KillStep,
     StaleStep, StopJobs DEF HostNext

-----------------------------------------------------------------------------
(* Its restart: the first request that is taken is the last one.           *)

Ordered == [asked : Turns \cup {None}, scheduled : BOOLEAN, timer : Turns \cup {None},
            given : Nat, joined : BOOLEAN]
Pending == IF restart.timer = None THEN 0 ELSE 1

RestartInv ==
  /\ None \notin Turns /\ turns \subseteq Turns /\ restart \in Ordered
  /\ restart.given + Pending <= 1
  /\ ~restart.scheduled => restart.given = 0 /\ restart.timer = None
  /\ \A t \in turns : restart.asked \in turns /\ t # restart.asked => restart.joined
  /\ restart.timer \in turns => restart.joined

LEMMA RestartBegin == ASSUME None \notin Turns, HostInit PROVE RestartInv
BY DEF HostInit, RestartInv, NoRestart, Ordered, Pending

LEMMA BeginStep == ASSUME RestartInv, NEW t \in Turns, BeginTurn(t) PROVE RestartInv'
<1> DEFINE q == [restart EXCEPT !.joined = @ \/ {restart.asked, restart.timer} # {None}]
<1>1. restart' = q /\ turns' = turns \cup {t} /\ restart \in Ordered
  BY DEF BeginTurn, RestartInv
<1>2. /\ q \in Ordered /\ q.asked = restart.asked /\ q.timer = restart.timer
      /\ q.given = restart.given /\ q.scheduled = restart.scheduled
      /\ q.joined = (restart.joined \/ {restart.asked, restart.timer} # {None})
  BY <1>1 DEF Ordered
<1> HIDE DEF q
<1>3. turns' \subseteq Turns
  BY <1>1 DEF RestartInv
<1>4. q.asked # None \/ q.timer # None => q.joined
  BY <1>2
<1>5. q.asked \in turns' \/ q.timer \in turns' => q.joined
  BY <1>3, <1>4 DEF RestartInv
<1> QED
  BY <1>1, <1>2, <1>3, <1>5 DEF RestartInv, Pending

LEMMA AskStep == ASSUME RestartInv, NEW t \in Turns, AskReload(t) PROVE RestartInv'
<1> DEFINE q == [restart EXCEPT !.asked = t, !.joined = @ /\ restart.timer # None]
<1>1. restart' = q /\ turns' = turns /\ turns = {t} /\ restart \in Ordered
  BY DEF AskReload, RestartInv
<1>2. /\ q \in Ordered /\ q.asked = t /\ q.timer = restart.timer
      /\ q.given = restart.given /\ q.scheduled = restart.scheduled
      /\ q.joined = (restart.joined /\ restart.timer # None)
  BY <1>1 DEF Ordered
<1> HIDE DEF q
<1>3. q.timer \in turns => q.joined
  BY <1>1, <1>2 DEF RestartInv
<1> QED
  BY <1>1, <1>2, <1>3 DEF RestartInv, Pending

LEMMA EndStep == ASSUME RestartInv, NEW t \in Turns, EndTurn(t) PROVE RestartInv'
<1>1. restart \in Ordered /\ turns' = turns \ {t} /\ t \in turns
  BY DEF EndTurn, RestartInv
<1>2. turns' \subseteq Turns
  BY <1>1 DEF RestartInv
<1>3. CASE restart' = restart
  BY <1>1, <1>2, <1>3 DEF RestartInv, Pending
<1>4. CASE restart' = Scheduled(restart) /\ restart.asked # None /\ restart.scheduled
  <2> DEFINE q == [restart EXCEPT !.asked = None]
  <2>1. restart' = q
    BY <1>4 DEF Scheduled
  <2>2. /\ q \in Ordered /\ q.asked = None /\ q.timer = restart.timer
        /\ q.given = restart.given /\ q.scheduled = restart.scheduled
        /\ q.joined = restart.joined
    BY <1>1 DEF Ordered
  <2> HIDE DEF q
  <2> QED
    BY <1>1, <1>2, <2>1, <2>2 DEF RestartInv, Pending
<1>5. CASE restart' = Scheduled(restart) /\ restart.asked # None /\ ~restart.scheduled
  <2> DEFINE q == [restart EXCEPT !.asked = None, !.scheduled = TRUE, !.timer = restart.asked]
  <2>1. restart' = q
    BY <1>5 DEF Scheduled
  <2>2. /\ q \in Ordered /\ q.asked = None /\ q.timer = restart.asked
        /\ q.given = restart.given /\ q.scheduled = TRUE
        /\ q.joined = restart.joined
    BY <1>1 DEF Ordered
  <2> HIDE DEF q
  <2>3. restart.given = 0 /\ restart.asked # None
    BY <1>5 DEF RestartInv
  <2>4. restart.asked \in turns' => restart.joined
    BY <1>1 DEF RestartInv
  <2> QED
    BY <1>1, <1>2, <2>1, <2>2, <2>3, <2>4 DEF RestartInv, Pending
<1> QED
  BY <1>3, <1>4, <1>5 DEF EndTurn

LEMMA GiveStep == ASSUME RestartInv, GiveRestart PROVE RestartInv'
<1> DEFINE q == [restart EXCEPT !.timer = None, !.given = @ + 1]
<1>1. restart' = q /\ turns' = turns /\ restart.timer # None /\ restart \in Ordered
  BY DEF GiveRestart, RestartInv
<1>2. /\ q.asked = restart.asked /\ q.timer = None
      /\ q.given = restart.given + 1 /\ q.scheduled = restart.scheduled
      /\ q.joined = restart.joined
  BY <1>1 DEF Ordered
<1>3. restart.given + 1 \in Nat
  BY <1>1 DEF Ordered
<1>4. q \in Ordered
  BY <1>1, <1>3 DEF Ordered
<1> HIDE DEF q
<1> QED
  BY <1>1, <1>2, <1>3, <1>4 DEF RestartInv, Pending, Ordered

LEMMA RestartSteps == RestartInv /\ [HostNext]_hostVars => RestartInv'
<1> SUFFICES ASSUME RestartInv, [HostNext]_hostVars PROVE RestartInv'
  OBVIOUS
<1>1. CASE UNCHANGED <<turns, restart>>
  BY <1>1 DEF RestartInv, Pending
<1>2. CASE Stop
  <2>1. turns' = {} /\ restart' = NoRestart
    BY <1>2 DEF Stop
  <2> QED
    BY <2>1 DEF RestartInv, NoRestart, Ordered, Pending
<1>3. UNCHANGED hostVars => UNCHANGED <<turns, restart>>
  BY DEF hostVars
<1>4. Load \/ Guard \/ RunCommand => UNCHANGED <<turns, restart>>
  BY DEF Load, Guard, RunCommand
<1>5. ASSUME NEW k \in DOMAIN probes
      PROVE  TryRunner(k) \/ CheckRunner(k) \/ LookAtHost(k) \/ ProbeTimesOut(k) \/ EndProbe(k)
               => UNCHANGED <<turns, restart>>
  BY DEF TryRunner, CheckRunner, LookAtHost, ProbeTimesOut, EndProbe
<1>6. ASSUME NEW j \in Jobs
      PROVE  RunLongTask(j) \/ JobSaved(j) \/ JobEnds(j) \/ WriteStatus(j) \/ Kill(j) \/ MarkStale(j)
               => UNCHANGED <<turns, restart>>
  BY DEF RunLongTask, JobSaved, JobEnds, WriteStatus, Kill, MarkStale
<1> QED
  BY <1>1, <1>2, <1>3, <1>4, <1>5, <1>6, BeginStep, AskStep, EndStep, GiveStep DEF HostNext

-----------------------------------------------------------------------------
ProcessInv == SandboxInv /\ JobsInv /\ RestartInv

LEMMA ProcessBegins == ASSUME HostConstants, HostInit PROVE ProcessInv
<1>1. None \notin Turns
  BY DEF HostConstants
<1>2. JobsInv
  BY NoJobGood DEF HostInit, JobsInv
<1> QED
  BY <1>1, <1>2, SandboxBegin, RestartBegin DEF ProcessInv

LEMMA ProcessGives == ASSUME HostConstants, ProcessInv PROVE ProcessSafe
<1>1. SandboxInv /\ JobsInv /\ RestartInv /\ ProbesInv /\ VerdictInv /\ CommandInv
  BY DEF ProcessInv, SandboxInv
<1>2. host \in Hosts /\ DOMAIN host.kind = Runner
  BY <1>1, RunnerKinds DEF ProbesInv
<1>3. NeverFalselyConfined
  BY <1>1, <1>2 DEF CommandInv, NeverFalselyConfined, Isolating
<1>4. BareIsTold
  BY <1>1 DEF CommandInv, BareIsTold, Told
<1>5. \A j \in Jobs : JobGood(jobs[j])
  BY <1>1 DEF JobsInv
<1>6. RunningIsTrue
  BY <1>5 DEF JobGood, RunningIsTrue
<1>7. EndedIsTrue
  BY <1>5 DEF JobGood, EndedIsTrue
<1>8. RestartOnce
  BY <1>1 DEF RestartInv, RestartOnce, Pending
<1>9. \A j \in Jobs :
        /\ jobs[j].memory \in {"none", "running", "exited"}
        /\ jobs[j].row \in {"none", "running", "exited", "killed", "gone", "stale"}
  BY <1>5 DEF JobGood, Job, Status
<1>10. restart.asked \in Turns \cup {None} /\ restart.timer \in Turns \cup {None}
  BY <1>1 DEF RestartInv, Ordered
<1>11. HostTypeOK
  BY <1>1, <1>9, <1>10 DEF HostTypeOK, ProbesInv, CommandInv, RestartInv
<1> QED
  BY <1>1, <1>3, <1>4, <1>6, <1>7, <1>8, <1>11
    DEF ProcessSafe, CommandInv, VerdictInv

\* Whatever runners the host has, whatever they do, however many probes meet and
\* commands run: a command is confined only by a runner that isolates, none runs
\* bare where the sandbox is required, and one that does is told of; what is
\* listed of a background command is true but for an end nobody heard; and the
\* restart is ordered once, after the turn that asked unless another one began
\* (backends/index.js:98, sandbox/index.js:118, tools/index.js:602, index.js:84).
THEOREM HostIsKept == ASSUME HostConstants PROVE HostSpec => []ProcessSafe
<1>1. HostInit => ProcessInv
  BY ProcessBegins
<1>2. ProcessInv /\ [HostNext]_hostVars => ProcessInv'
  BY SandboxSteps, JobsSteps, RestartSteps DEF ProcessInv
<1>3. ProcessInv => ProcessSafe
  BY ProcessGives
<1> QED
  BY <1>1, <1>2, <1>3, PTL DEF HostSpec

-----------------------------------------------------------------------------
(* The platform called from outside. The argument: a turn is heard exactly *)
(* while the call that asked for it reads, and it is the last there is;    *)
(* its pieces come before its end, and what has been read of it and what   *)
(* is under way are together all of them; and a turn nobody hears any more *)
(* that has not ended does not end well.                                   *)

ExtConstants == MaxAsked \in Nat

Frame == {"delta", "done", "saved", "stopped", "failed", "error"}
Asked == [conv : 1..MaxAsked + 1, state : {"runs", "saved", "over"},
          why : {"none", "user", "disconnect", "failed", "saved"},
          pieces : Nat, heard : BOOLEAN]
Asking == [pc : {"idle", "make", "chat", "read", "back"}, given : BOOLEAN, conv : Nat,
           turn : Nat, content : Nat, read : SUBSET Frame, expired : BOOLEAN,
           status : {"none", "stopped", "timeout"}]

\* A turn that was answered and is kept, and one that is over and was not.
Kept(n) == replies[n].state = "saved" \/ (replies[n].state = "over" /\ replies[n].why = "saved")
Spoilt(n) == replies[n].state = "over" /\ replies[n].why # "saved"
Rows(n) == Range(stored[replies[n].conv])

ExtTypeInv ==
  /\ token \in {"none", "good", "stale"} /\ convs \in 1..MaxAsked + 1
  /\ call \in Asking /\ replies \in Seq(Asked)
  /\ wire \in Seq(Seq(Frame)) /\ Len(wire) = Len(replies)
  /\ stored \in [1..MaxAsked + 1 -> Seq(Nat)]
CallInv ==
  /\ call.pc = "make" => convs <= MaxAsked
  /\ call.pc = "chat" => /\ call.conv \in 1..MaxAsked + 1
                         /\ token = "stale" => call.given \/ call.expired
  /\ call.pc \in {"make", "chat"} => call.content = 0 /\ call.read = {}
  /\ call.pc \in {"read", "back"} =>
       /\ call.turn = Len(replies) /\ call.turn \in DOMAIN replies
       /\ replies[call.turn].conv = call.conv
TurnInv ==
  \A n \in DOMAIN replies :
    /\ replies[n].heard <=> call.pc = "read" /\ n = call.turn
    /\ replies[n].state = "runs" /\ replies[n].why = "none" => replies[n].heard
    /\ replies[n].heard => replies[n].why # "disconnect"
    /\ replies[n].state = "runs" => replies[n].why \in {"none", "user", "disconnect"}
    /\ replies[n].state = "saved" => replies[n].why = "none"
    /\ replies[n].state = "over" => replies[n].why # "none"
    /\ Kept(n) => replies[n].pieces > 0 /\ n \in Rows(n)

\* What a frame says of the turn.
Says(f, n) ==
  /\ f \in {"done", "saved"} => Kept(n)
  /\ f = "stopped" => replies[n].state = "over" /\ replies[n].why = "user"
  /\ f \in {"failed", "error"} => replies[n].state = "over" /\ replies[n].why = "failed"
WireOf(n, w) ==
  /\ \A i \in DOMAIN w : Says(w[i], n)
  /\ \A i, j \in DOMAIN w : i < j /\ w[j] = "delta" => w[i] = "delta"
  /\ \A j \in DOMAIN w : w[j] = "error" =>
       "failed" \in call.read \/ \E i \in DOMAIN w : i < j /\ w[i] = "failed"
  /\ call.content + Deltas(w) = replies[n].pieces
  /\ call.read \cap Ends = {} /\ \A f \in call.read : Says(f, n)
WireInv == call.pc = "read" => WireOf(call.turn, wire[call.turn])

\* The last row of a conversation, once the turn asked for was stopped.
LastIs(n) ==
  LET rows == stored[replies[n].conv]
  IN rows # <<>> /\ (Last(rows) = n \/ \E m \in 1..n - 1 : Spoilt(m))
BackInv ==
  /\ call.pc \in {"read", "back"} /\ replies[call.turn].state = "over" /\ replies[call.turn].why = "user"
       => LastIs(call.turn)
  /\ call.pc = "back" =>
       /\ call.status = "timeout" => call.read \cap Ends = {}
       /\ call.status = "stopped" => replies[call.turn].state = "over" /\ replies[call.turn].why = "user"
       /\ call.status # "none"

ToldOf(a) ==
  /\ a.status \in {"none", "refused", "401", "failed", "saved", "unknown", "stopped", "timeout"}
  /\ a.status \in {"saved", "unknown"} => /\ a.turn \in DOMAIN replies /\ Kept(a.turn)
                                          /\ a.of = a.turn /\ a.whole
  /\ a.status = "stopped" => /\ a.turn \in DOMAIN replies /\ replies[a.turn].state = "over"
                             /\ replies[a.turn].why = "user"
  /\ a.status = "failed" => /\ a.turn \in DOMAIN replies /\ replies[a.turn].state = "over"
                            /\ replies[a.turn].why = "failed"
  /\ a.status = "timeout" => a.read \cap Ends = {}
  /\ a.status = "401" => a.given \/ a.expired
  /\ a.of \notin {Nobody, a.turn} =>
       \/ a.status = "timeout"
       \/ a.status = "stopped" /\ \E m \in 1..a.turn - 1 : Spoilt(m)
AnswerInv == ToldOf(answer)

ExtInv == ExtTypeInv /\ CallInv /\ TurnInv /\ WireInv /\ BackInv /\ AnswerInv

LEMMA DeltasAre == ASSUME NEW w \in Seq(Frame)
  PROVE  /\ {i \in DOMAIN w : w[i] = "delta"} \subseteq 1..Len(w)
         /\ IsFiniteSet({i \in DOMAIN w : w[i] = "delta"}) /\ Deltas(w) \in Nat
<1>1. {i \in DOMAIN w : w[i] = "delta"} \subseteq 1..Len(w)
  OBVIOUS
<1>2. IsFiniteSet(1..Len(w))
  BY FS_Interval
<1>3. IsFiniteSet({i \in DOMAIN w : w[i] = "delta"})
  BY <1>1, <1>2, FS_Subset
<1> QED
  BY <1>1, <1>3, FS_CardinalityType DEF Deltas

LEMMA NoDeltas == Deltas(<<>>) = 0
<1>1. {i \in DOMAIN <<>> : <<>>[i] = "delta"} = {}
  OBVIOUS
<1> QED
  BY <1>1, FS_EmptySet DEF Deltas

\* The pieces of a chunk and of what is left are those of the wire.
LEMMA DeltasCut ==
  ASSUME NEW w \in Seq(Frame), NEW j \in 1..Len(w)
  PROVE  Deltas(SubSeq(w, 1, j)) + Deltas(SubSeq(w, j + 1, Len(w))) = Deltas(w)
<1> DEFINE u == SubSeq(w, 1, j)
           v == SubSeq(w, j + 1, Len(w))
           A == {i \in DOMAIN u : u[i] = "delta"}
           B == {i \in DOMAIN v : v[i] = "delta"}
           C == {i \in DOMAIN w : w[i] = "delta"}
           D == {i \in C : i > j}
<1>1. /\ u \in Seq(Frame) /\ Len(u) = j /\ \A i \in 1..j : u[i] = w[i]
      /\ v \in Seq(Frame) /\ Len(v) = Len(w) - j /\ \A i \in 1..Len(w) - j : v[i] = w[j + i]
  OBVIOUS
<1>2. IsFiniteSet(A) /\ IsFiniteSet(B) /\ IsFiniteSet(C)
  BY <1>1, DeltasAre
<1>3. IsFiniteSet(D) /\ D \subseteq C
  BY <1>2, FS_Subset
<1>4. C = A \cup D /\ A \cap D = {}
  BY <1>1
<1>5. Cardinality(C) = Cardinality(A) + Cardinality(D)
  <2> HIDE DEF A, C, D
  <2>1. Cardinality(A \cup D) = Cardinality(A) + Cardinality(D) - Cardinality(A \cap D)
    BY <1>2, <1>3, FS_Union
  <2>2. Cardinality(A) \in Nat /\ Cardinality(D) \in Nat /\ Cardinality({}) = 0
    BY <1>2, <1>3, FS_EmptySet, FS_CardinalityType
  <2>3. Cardinality(C) = Cardinality(A \cup D) /\ Cardinality(A \cap D) = Cardinality({})
    BY <1>4, Zenon
  <2> QED
    BY <2>1, <2>2, <2>3
<1>6. Cardinality(B) = Cardinality(D)
  <2> DEFINE f == [i \in B |-> i + j]
  <2>1. \A i \in B : i + j \in D
    BY <1>1
  <2>2. \A d \in D : d - j \in B /\ (d - j) + j = d
    BY <1>1
  <2>3. f \in Bijection(B, D)
    <3>1. f \in [B -> D]
      BY <2>1
    <3>2. \A a, b \in B : f[a] = f[b] => a = b
      <4>1. B \subseteq Nat
        BY <1>1
      <4> QED
        BY <4>1
    <3>3. \A d \in D : \E b \in B : f[b] = d
      BY <2>2
    <3>4. f \in Injection(B, D)
      BY <3>1, <3>2 DEF Injection, IsInjective
    <3>5. f \in Surjection(B, D)
      BY <3>1, <3>3 DEF Surjection
    <3> QED
      BY <3>4, <3>5 DEF Bijection
  <2> HIDE DEF B, D, f
  <2>4. ExistsBijection(B, D)
    BY <2>3 DEF ExistsBijection
  <2> QED
    BY <2>4, <1>2, FS_Bijection
<1>7. Cardinality(A) \in Nat /\ Cardinality(B) \in Nat
  BY <1>2, FS_CardinalityType
<1> QED
  BY <1>5, <1>6, <1>7 DEF Deltas

LEMMA DeltasGrow ==
  ASSUME NEW w \in Seq(Frame), NEW f \in Frame
  PROVE  Deltas(w \o <<f>>) = (IF f = "delta" THEN Deltas(w) + 1 ELSE Deltas(w))
<1> DEFINE u == w \o <<f>>
           A == {i \in DOMAIN w : w[i] = "delta"}
           B == {i \in DOMAIN u : u[i] = "delta"}
<1>1. u \in Seq(Frame) /\ Len(u) = Len(w) + 1 /\ u[Len(w) + 1] = f /\ \A i \in 1..Len(w) : u[i] = w[i]
  OBVIOUS
<1>2. IsFiniteSet(A) /\ A \subseteq 1..Len(w) /\ Len(w) + 1 \notin A
  BY DeltasAre
<1>3. CASE f = "delta"
  <2>1. B = A \cup {Len(w) + 1}
    BY <1>1, <1>3
  <2> QED
    BY <2>1, <1>2, <1>3, FS_AddElement DEF Deltas
<1>4. CASE f # "delta"
  <2>1. B = A
    BY <1>1, <1>4
  <2> QED
    BY <2>1, <1>4 DEF Deltas
<1> QED
  BY <1>3, <1>4

-----------------------------------------------------------------------------
LEMMA ExtStarts == ASSUME ExtConstants, ExtInit PROVE ExtInv
<1>1. call = AtRest /\ AtRest \in Asking /\ call.pc = "idle"
  BY DEF ExtInit, AtRest, Asking, Nobody
<1>2. replies = <<>> /\ wire = <<>> /\ convs = 1 /\ token = "none"
  BY DEF ExtInit
<1>3. stored \in [1..MaxAsked + 1 -> Seq(Nat)]
  BY DEF ExtInit
<1>4. ExtTypeInv
  BY <1>1, <1>2, <1>3 DEF ExtTypeInv, ExtConstants
<1>5. answer = NoAnswer /\ NoAnswer.status = "none" /\ NoAnswer.of = Nobody
  BY DEF ExtInit, NoAnswer
<1>6. AnswerInv
  BY <1>5 DEF AnswerInv, ToldOf
<1> QED
  BY <1>1, <1>2, <1>4, <1>6 DEF ExtInv, CallInv, TurnInv, WireInv, BackInv

\* A turn that is over stays so, and one that was answered stays answered.
Forward ==
  /\ DOMAIN replies \subseteq DOMAIN replies'
  /\ \A n \in DOMAIN replies :
       /\ Kept(n) => Kept(n)'
       /\ replies[n].state = "over" => replies'[n].state = "over" /\ replies'[n].why = replies[n].why

LEMMA ToldStays == ASSUME NEW a, ToldOf(a), Forward, replies \in Seq(Asked)
  PROVE ToldOf(a)'
<1>1. a.status \in {"saved", "unknown"} => a.turn \in DOMAIN replies' /\ Kept(a.turn)'
  BY DEF ToldOf, Forward
<1>2. a.status = "stopped" =>
        a.turn \in DOMAIN replies' /\ replies'[a.turn].state = "over" /\ replies'[a.turn].why = "user"
  BY DEF ToldOf, Forward
<1>3. a.status = "failed" =>
        a.turn \in DOMAIN replies' /\ replies'[a.turn].state = "over" /\ replies'[a.turn].why = "failed"
  BY DEF ToldOf, Forward
<1>4. a.status = "stopped" => \A m \in 1..a.turn - 1 : Spoilt(m) => Spoilt(m)'
  <2> SUFFICES ASSUME a.status = "stopped", NEW m \in 1..a.turn - 1, Spoilt(m) PROVE Spoilt(m)'
    OBVIOUS
  <2>1. m \in DOMAIN replies
    BY DEF ToldOf
  <2> QED
    BY <2>1 DEF Forward, Spoilt
<1> QED
  BY <1>1, <1>2, <1>3, <1>4 DEF ToldOf

LEMMA TellKeeps == ASSUME NEW a, ToldOf(a), Forward, replies \in Seq(Asked), answer' = a PROVE AnswerInv'
BY ToldStays DEF AnswerInv

LEMMA StillForward == ASSUME UNCHANGED <<replies, stored>> PROVE Forward
BY DEF Forward, Kept

\* Steps of the client while it does not read and is not about to.
LEMMA RestsQuiet ==
  ASSUME ExtConstants, ExtInv, call.pc # "read", call' \in Asking, call'.pc \in {"idle", "make", "chat"},
         token' \in {"none", "good", "stale"}, convs' \in 1..MaxAsked + 1,
         UNCHANGED <<replies, wire, stored>>, CallInv',
         NEW a, ToldOf(a), answer' = a
  PROVE  ExtInv'
<1>1. ExtTypeInv'
  BY DEF ExtInv, ExtTypeInv
<1>2. TurnInv'
  BY DEF ExtInv, TurnInv, Kept, Rows
<1>3. WireInv' /\ BackInv'
  BY DEF WireInv, BackInv
<1>4. AnswerInv'
  BY TellKeeps, StillForward DEF ExtInv, ExtTypeInv
<1> QED
  BY <1>1, <1>2, <1>3, <1>4 DEF ExtInv

LEMMA IdleIs == AtRest \in Asking /\ AtRest.pc = "idle" /\ AtRest.content = 0 /\ AtRest.read = {}
BY DEF AtRest, Asking, Nobody

LEMMA ThrowTells ==
  ASSUME ExtInv, NEW status \in {"refused", "401"}, status = "401" => call.given \/ call.expired,
         Throw(status)
  PROVE  ToldOf(answer')
<1>1. answer' = [status |-> status, turn |-> call.turn, of |-> Nobody, whole |-> FALSE,
                 read |-> call.read, given |-> call.given, expired |-> call.expired]
  BY DEF Throw, Tell
<1>2. answer'.status = status /\ answer'.of = Nobody /\ answer'.given = call.given
      /\ answer'.expired = call.expired
  BY <1>1
<1> HIDE DEF Nobody
<1> QED
  BY <1>2 DEF ToldOf

LEMMA BeginKeeps == ASSUME ExtConstants, ExtInv, Begin PROVE ExtInv'
<1>1. UNCHANGED <<token, replies, wire, stored, convs, answer>> /\ call.pc = "idle"
  BY DEF Begin, platform, CallAt
<1>2. convs \in 1..MaxAsked + 1 /\ token \in {"none", "good", "stale"}
  BY DEF ExtInv, ExtTypeInv
<1>3. call' \in Asking /\ call'.pc \in {"make", "chat"} /\ CallInv'
  <2>1. CASE \E c \in 1..convs : call' = [AtRest EXCEPT !.pc = "chat", !.given = TRUE, !.conv = c]
    <3>1. PICK c \in 1..convs : call' = [AtRest EXCEPT !.pc = "chat", !.given = TRUE, !.conv = c]
      BY <2>1
    <3>2. c \in 1..MaxAsked + 1 /\ c \in Nat
      BY <1>2 DEF ExtConstants
    <3>3. call' = [pc |-> "chat", given |-> TRUE, conv |-> c, turn |-> 0, content |-> 0,
                   read |-> {}, expired |-> FALSE, status |-> "none"]
      BY <3>1 DEF AtRest, Nobody
    <3>4. call' \in Asking
      BY <3>2, <3>3 DEF Asking
    <3>5. call'.pc = "chat" /\ call'.given /\ call'.conv = c /\ call'.content = 0 /\ call'.read = {}
      BY <3>3
    <3> QED
      BY <3>2, <3>4, <3>5 DEF CallInv
  <2>2. CASE convs <= MaxAsked /\ call' = [AtRest EXCEPT !.pc = "make"]
    <3>1. call' = [pc |-> "make", given |-> FALSE, conv |-> 0, turn |-> 0, content |-> 0,
                   read |-> {}, expired |-> FALSE, status |-> "none"]
      BY <2>2 DEF AtRest, Nobody
    <3>2. call' \in Asking
      BY <3>1 DEF Asking
    <3>3. call'.pc = "make" /\ call'.content = 0 /\ call'.read = {}
      BY <3>1
    <3> QED
      BY <2>2, <3>2, <3>3, <1>1 DEF CallInv
  <2> QED
    BY <2>1, <2>2 DEF Begin
<1>4. ToldOf(answer)
  BY DEF ExtInv, AnswerInv
<1> QED
  BY <1>1, <1>2, <1>3, <1>4, RestsQuiet

LEMMA MakeKeeps == ASSUME ExtConstants, ExtInv, Make PROVE ExtInv'
<1>1. UNCHANGED <<replies, wire, stored>> /\ call.pc = "make"
  BY DEF Make, CallAt
<1>2. convs \in 1..MaxAsked + 1 /\ token \in {"none", "good", "stale"} /\ call \in Asking
      /\ convs <= MaxAsked /\ ToldOf(answer) /\ call.content = 0 /\ call.read = {}
  BY <1>1 DEF ExtInv, ExtTypeInv, CallInv, AnswerInv
<1>3. CASE convs' = convs + 1 /\ token' = "good" /\ UNCHANGED answer
           /\ call' = [call EXCEPT !.pc = "chat", !.conv = convs']
  <2>1. convs' \in 1..MaxAsked + 1 /\ convs' \in Nat
    BY <1>2, <1>3 DEF ExtConstants
  <2>2. PICK c \in 1..MaxAsked + 1 : c \in Nat /\ c = convs'
    BY <2>1
  <2> DEFINE q == [call EXCEPT !.pc = "chat", !.conv = c]
  <2>3. q \in Asking
    BY <1>2, <2>2 DEF Asking
  <2>4. q.pc = "chat" /\ q.conv = c /\ q.content = 0 /\ q.read = {}
    BY <1>2 DEF Asking
  <2>5. call' = q
    BY <1>3, <2>2
  <2> HIDE DEF q
  <2>6. CallInv'
    BY <2>2, <2>4, <2>5, <1>3 DEF CallInv
  <2> QED
    BY <1>1, <1>2, <1>3, <2>1, <2>3, <2>4, <2>5, <2>6, RestsQuiet
<1>4. CASE Throw("refused") /\ token' \in {"none", token} \ {"stale"} /\ UNCHANGED convs
  <2>1. call' = AtRest
    BY <1>4 DEF Throw, Tell
  <2>2. CallInv'
    BY <2>1, IdleIs DEF CallInv
  <2>3. ToldOf(answer')
    BY <1>4, ThrowTells
  <2> QED
    BY <1>1, <1>2, <1>4, <2>1, <2>2, <2>3, IdleIs, RestsQuiet
<1> QED
  BY <1>3, <1>4 DEF Make

LEMMA ChatKeeps == ASSUME ExtConstants, ExtInv, Chat PROVE ExtInv'
<1>1. UNCHANGED <<convs, stored>> /\ call.pc = "chat"
  BY DEF Chat, CallAt
<1>2. /\ convs \in 1..MaxAsked + 1 /\ token \in {"none", "good", "stale"} /\ call \in Asking
      /\ ToldOf(answer) /\ call.content = 0 /\ call.read = {} /\ call.conv \in 1..MaxAsked + 1
      /\ token = "stale" => call.given \/ call.expired
  BY <1>1 DEF ExtInv, ExtTypeInv, CallInv, AnswerInv
<1>3. CASE UNCHANGED <<token, replies, wire>> /\ ((token = "stale" /\ Throw("401")) \/ Throw("refused"))
  <2>1. call' = AtRest
    BY <1>3 DEF Throw, Tell
  <2>2. CallInv'
    BY <2>1, IdleIs DEF CallInv
  <2>3. ToldOf(answer')
    BY <1>2, <1>3, ThrowTells
  <2> QED
    BY <1>1, <1>2, <1>3, <2>1, <2>2, <2>3, IdleIs, RestsQuiet
<1>4. CASE /\ token' = "good"
           /\ replies' = Append(replies, [conv |-> call.conv, state |-> "runs", why |-> "none",
                                      pieces |-> 0, heard |-> TRUE])
           /\ wire' = Append(wire, <<>>)
           /\ call' = [call EXCEPT !.pc = "read", !.turn = Len(replies')]
           /\ UNCHANGED answer
  <2> DEFINE t == [conv |-> call.conv, state |-> "runs", why |-> "none", pieces |-> 0, heard |-> TRUE]
  <2>1. t \in Asked
    BY <1>2 DEF Asked
  <2>2. t.conv = call.conv /\ t.state = "runs" /\ t.why = "none" /\ t.pieces = 0 /\ t.heard
    OBVIOUS
  <2>3. replies' = Append(replies, t)
    BY <1>4
  <2> HIDE DEF t
  <2>4. replies \in Seq(Asked) /\ wire \in Seq(Seq(Frame)) /\ Len(wire) = Len(replies) /\ Len(replies) \in Nat
    BY DEF ExtInv, ExtTypeInv
  <2>5. PICK l \in Nat : l = Len(replies) + 1
    BY <2>4
  <2>6. /\ replies' \in Seq(Asked) /\ Len(replies') = l /\ replies'[l] = t /\ l \in DOMAIN replies'
        /\ \A n \in DOMAIN replies : n \in DOMAIN replies' /\ replies'[n] = replies[n] /\ n # l
        /\ \A n \in DOMAIN replies' : n \in DOMAIN replies \/ n = l
    BY <2>1, <2>3, <2>4, <2>5
  <2>7. wire' \in Seq(Seq(Frame)) /\ Len(wire') = Len(replies') /\ wire'[l] = <<>>
    BY <1>4, <2>4, <2>5, <2>6
  <2> DEFINE q == [call EXCEPT !.pc = "read", !.turn = l]
  <2>8. /\ q \in Asking /\ q.pc = "read" /\ q.turn = l /\ q.conv = call.conv
        /\ q.content = 0 /\ q.read = {}
    BY <1>2, <2>5 DEF Asking
  <2>9. call' = q
    BY <1>4, <2>5, <2>6
  <2> HIDE DEF q
  <2>10. ExtTypeInv'
    BY <1>1, <1>2, <1>4, <2>6, <2>7, <2>8, <2>9 DEF ExtInv, ExtTypeInv
  <2>11. CallInv'
    BY <2>2, <2>6, <2>8, <2>9 DEF CallInv
  <2>12. TurnInv'
    <3>1. \A n \in DOMAIN replies : ~replies[n].heard
      BY <1>1 DEF ExtInv, TurnInv
    <3> QED
      BY <3>1, <1>1, <2>2, <2>6, <2>8, <2>9 DEF ExtInv, TurnInv, Kept, Rows
  <2>13. WireInv'
    BY <2>2, <2>6, <2>7, <2>8, <2>9, NoDeltas DEF WireInv, WireOf
  <2>14. BackInv'
    BY <2>2, <2>6, <2>8, <2>9 DEF BackInv
  <2>15. Forward
    BY <1>1, <2>6 DEF Forward, Kept
  <2>16. AnswerInv'
    BY <1>2, <1>4, <2>4, <2>15, TellKeeps
  <2> QED
    BY <2>10, <2>11, <2>12, <2>13, <2>14, <2>16 DEF ExtInv
<1> QED
  BY <1>3, <1>4 DEF Chat

\* The stream is not read any more.
LEMMA Unheard ==
  ASSUME ExtConstants, ExtInv, call.pc = "read", NEW n, n = call.turn, NEW q \in Asked,
         q.conv = replies[n].conv, q.state = replies[n].state, q.pieces = replies[n].pieces, ~q.heard,
         \/ q.why = replies[n].why /\ (q.state = "runs" => q.why # "none")
         \/ replies[n].state = "runs" /\ replies[n].why = "none" /\ q.why = "disconnect",
         replies' = [replies EXCEPT ![n] = q], wire' = [wire EXCEPT ![n] = <<>>],
         UNCHANGED <<token, convs, stored>>, NEW c \in Asking, call' = c,
         c.pc = "idle" \/ (/\ c.pc = "back" /\ c.turn = n /\ c.conv = call.conv
                           /\ c.status \in {"stopped", "timeout"}
                           /\ (c.status = "timeout" => c.read \cap Ends = {})
                           /\ (c.status = "stopped" =>
                                 replies[n].state = "over" /\ replies[n].why = "user")),
         NEW a, answer' = a, ToldOf(a)
  PROVE  ExtInv'
<1>1. /\ replies \in Seq(Asked) /\ wire \in Seq(Seq(Frame)) /\ Len(wire) = Len(replies)
      /\ n = Len(replies) /\ n \in DOMAIN replies /\ replies[n].conv = call.conv
  BY DEF ExtInv, ExtTypeInv, CallInv
<1>2. /\ replies' \in Seq(Asked) /\ Len(replies') = Len(replies) /\ DOMAIN replies' = DOMAIN replies
      /\ replies'[n] = q /\ \A m \in DOMAIN replies : m # n => replies'[m] = replies[m]
  BY <1>1
<1>3. <<>> \in Seq(Frame)
  OBVIOUS
<1>4. wire' \in Seq(Seq(Frame)) /\ Len(wire') = Len(wire)
  BY <1>1, <1>3
<1>5. ExtTypeInv'
  BY <1>1, <1>2, <1>4 DEF ExtInv, ExtTypeInv
<1>6. CallInv'
  BY <1>1, <1>2 DEF CallInv
<1>7. TurnInv'
  <2> SUFFICES ASSUME NEW m \in DOMAIN replies
      PROVE  /\ replies'[m].heard <=> call'.pc = "read" /\ m = call'.turn
             /\ replies'[m].state = "runs" /\ replies'[m].why = "none" => replies'[m].heard
             /\ replies'[m].heard => replies'[m].why # "disconnect"
             /\ replies'[m].state = "runs" => replies'[m].why \in {"none", "user", "disconnect"}
             /\ replies'[m].state = "saved" => replies'[m].why = "none"
             /\ replies'[m].state = "over" => replies'[m].why # "none"
             /\ Kept(m)' => replies'[m].pieces > 0 /\ m \in Rows(m)'
    BY <1>2 DEF TurnInv
  <2>1. CASE m = n
    BY <2>1, <1>1, <1>2 DEF ExtInv, TurnInv, Kept, Rows
  <2>2. CASE m # n
    BY <2>2, <1>1, <1>2 DEF ExtInv, TurnInv, Kept, Rows
  <2> QED
    BY <2>1, <2>2
<1>8. WireInv'
  BY DEF WireInv
<1>9. Forward
  BY <1>1, <1>2 DEF Forward, Kept
<1>10. BackInv'
  <2>1. c.pc = "back" /\ q.state = "over" => q.why = replies[n].why
    OBVIOUS
  <2>2. c.pc = "back" /\ q.state = "over" /\ q.why = "user" => LastIs(n)
    BY <2>1, <1>1 DEF ExtInv, BackInv
  <2>3. LastIs(n) => LastIs(n)'
    BY <1>1, <1>2 DEF LastIs, Spoilt
  <2> QED
    BY <1>2, <2>1, <2>2, <2>3 DEF BackInv
<1>11. AnswerInv'
  BY <1>1, <1>9, TellKeeps
<1> QED
  BY <1>5, <1>6, <1>7, <1>8, <1>10, <1>11 DEF ExtInv

\* What the caller is given when reading has come to an end.
LEMMA Concluded ==
  ASSUME ExtConstants, ExtInv, call.pc = "read", NEW n, n = call.turn, NEW d \in Asking,
         d.turn = n, d.conv = call.conv,
         NEW status \in {"saved", "unknown", "stopped", "timeout"}, Conclude(status, d),
         status \in {"saved", "unknown"} => Kept(n) /\ d.content = replies[n].pieces,
         status = "stopped" => replies[n].state = "over" /\ replies[n].why = "user",
         status = "timeout" => d.read \cap Ends = {}
  PROVE  \E c, a :
           /\ c \in Asking /\ call' = c /\ answer' = a /\ ToldOf(a)
           /\ c.pc = "idle" \/ (/\ c.pc = "back" /\ c.turn = n /\ c.conv = call.conv
                                /\ c.status \in {"stopped", "timeout"}
                                /\ (c.status = "timeout" => c.read \cap Ends = {})
                                /\ (c.status = "stopped" =>
                                      replies[n].state = "over" /\ replies[n].why = "user"))
<1>1. n \in DOMAIN replies /\ replies \in Seq(Asked) /\ ToldOf(answer)
  BY DEF ExtInv, CallInv, ExtTypeInv, AnswerInv
<1>2. CASE d.content = 0
  <2>1. status \in {"stopped", "timeout"}
    BY <1>1, <1>2 DEF ExtInv, TurnInv
  <2> DEFINE c == [d EXCEPT !.pc = "back", !.status = status]
  <2>2. /\ c \in Asking /\ c.pc = "back" /\ c.turn = n /\ c.conv = call.conv
        /\ c.status = status /\ c.read = d.read
    BY <2>1 DEF Asking
  <2>3. call' = c /\ answer' = answer
    BY <1>2 DEF Conclude
  <2> HIDE DEF c
  <2> QED
    BY <1>1, <2>1, <2>2, <2>3
<1>3. CASE d.content # 0
  <2> DEFINE a == [status |-> status, turn |-> d.turn, of |-> d.turn,
                   whole |-> d.content = replies[d.turn].pieces, read |-> d.read,
                   given |-> d.given, expired |-> d.expired]
  <2>1. /\ a.status = status /\ a.turn = n /\ a.of = n /\ a.read = d.read
        /\ a.whole = (d.content = replies[n].pieces)
    OBVIOUS
  <2>2. answer' = a /\ call' = AtRest
    BY <1>3 DEF Conclude
  <2> HIDE DEF a
  <2>3. ToldOf(a)
    BY <1>1, <2>1 DEF ToldOf
  <2> QED
    BY <2>2, <2>3, IdleIs
<1> QED
  BY <1>2, <1>3

LEMMA TimeoutKeeps == ASSUME ExtConstants, ExtInv, Timeout PROVE ExtInv'
<1>1. PICK n : n = call.turn
  OBVIOUS
<1>2. /\ call.pc = "read" /\ replies' = [replies EXCEPT ![n] = HungUp(@)] /\ Conclude("timeout", call)
      /\ wire' = [wire EXCEPT ![n] = <<>>] /\ UNCHANGED <<token, convs, stored>>
  BY <1>1 DEF Timeout, CallAt
<1>3. n \in DOMAIN replies /\ replies \in Seq(Asked) /\ replies[n] \in Asked /\ call \in Asking
  BY <1>1, <1>2 DEF ExtInv, CallInv, ExtTypeInv
<1> DEFINE q == HungUp(replies[n])
<1>4. /\ q \in Asked /\ q.conv = replies[n].conv /\ q.state = replies[n].state
      /\ q.pieces = replies[n].pieces /\ ~q.heard
      /\ q.why = IF replies[n].why = "none" /\ replies[n].state = "runs" THEN "disconnect" ELSE replies[n].why
  BY <1>3 DEF Asked, HungUp
<1>5. replies' = [replies EXCEPT ![n] = q]
  BY <1>2
<1> HIDE DEF q
<1>6. call.read \cap Ends = {}
  BY <1>2 DEF ExtInv, WireInv, WireOf
<1>7. PICK c, a :
           /\ c \in Asking /\ call' = c /\ answer' = a /\ ToldOf(a)
           /\ c.pc = "idle" \/ (/\ c.pc = "back" /\ c.turn = n /\ c.conv = call.conv
                                /\ c.status \in {"stopped", "timeout"}
                                /\ (c.status = "timeout" => c.read \cap Ends = {})
                                /\ (c.status = "stopped" =>
                                      replies[n].state = "over" /\ replies[n].why = "user"))
  BY <1>1, <1>2, <1>3, <1>6, Concluded
<1>8. \/ q.why = replies[n].why /\ (q.state = "runs" => q.why # "none")
      \/ replies[n].state = "runs" /\ replies[n].why = "none" /\ q.why = "disconnect"
  BY <1>4
<1>9. UNCHANGED <<token, convs, stored>> /\ wire' = [wire EXCEPT ![n] = <<>>] /\ call.pc = "read"
  BY <1>2
<1>10. /\ q \in Asked /\ q.conv = replies[n].conv /\ q.state = replies[n].state
       /\ q.pieces = replies[n].pieces /\ ~q.heard
  BY <1>4
<1> QED
  BY <1>1, <1>5, <1>7, <1>8, <1>9, <1>10, Unheard

\* What reading on leaves of the stream.
CutAt(w, j, u, v) ==
  /\ u \in Seq(Frame) /\ Len(u) = j /\ \A i \in 1..j : u[i] = w[i]
  /\ v \in Seq(Frame) /\ Len(v) = Len(w) - j /\ \A i \in 1..Len(w) - j : v[i] = w[j + i]
  /\ Range(u) = {w[i] : i \in 1..j} /\ DOMAIN u = 1..j /\ DOMAIN v = 1..(Len(w) - j)
  /\ Deltas(u) + Deltas(v) = Deltas(w) /\ Deltas(u) \in Nat /\ Deltas(v) \in Nat

LEMMA ReadOn ==
  ASSUME NEW w \in Seq(Frame), NEW j \in 1..Len(w), NEW u, u = SubSeq(w, 1, j),
         NEW v, v = SubSeq(w, j + 1, Len(w))
  PROVE  CutAt(w, j, u, v)
<1>1. /\ u \in Seq(Frame) /\ Len(u) = j /\ \A i \in 1..j : u[i] = w[i]
      /\ v \in Seq(Frame) /\ Len(v) = Len(w) - j /\ \A i \in 1..Len(w) - j : v[i] = w[j + i]
      /\ DOMAIN u = 1..j /\ DOMAIN v = 1..(Len(w) - j)
  <2>1. Len(w) \in Nat /\ j \in 1..Len(w)
    OBVIOUS
  <2>2. u \in Seq(Frame) /\ Len(u) = j /\ DOMAIN u = 1..j
    BY <2>1
  <2>3. \A i \in 1..j : u[i] = w[i]
    BY <2>1
  <2>4. v \in Seq(Frame) /\ Len(v) = Len(w) - j /\ DOMAIN v = 1..(Len(w) - j)
    BY <2>1
  <2>5. \A i \in 1..Len(w) - j : v[i] = w[j + i]
    BY <2>1
  <2> QED
    BY <2>2, <2>3, <2>4, <2>5
<1>2. Range(u) = {w[i] : i \in 1..j}
  BY <1>1 DEF Range
<1>3. Deltas(u) + Deltas(v) = Deltas(w)
  BY DeltasCut
<1>4. Deltas(u) \in Nat /\ Deltas(v) \in Nat
  BY <1>1, DeltasAre
<1> QED
  BY <1>1, <1>2, <1>3, <1>4 DEF CutAt

LEMMA ReadKeeps == ASSUME ExtConstants, ExtInv, Read PROVE ExtInv'
<1>1. PICK n : n = call.turn
  OBVIOUS
<1>2. /\ call.pc = "read" /\ n \in DOMAIN replies /\ replies \in Seq(Asked) /\ replies[n] \in Asked
      /\ n = Len(replies) /\ wire \in Seq(Seq(Frame)) /\ Len(wire) = Len(replies) /\ call \in Asking
      /\ replies[n].conv = call.conv
  BY <1>1 DEF Read, CallAt, ExtInv, ExtTypeInv, CallInv
<1>3. PICK w \in Seq(Frame) : w = wire[n]
  BY <1>2
<1>4. WireOf(n, w) /\ UNCHANGED <<token, convs, stored, mishaps>>
  BY <1>1, <1>2, <1>3 DEF Read, ExtInv, WireInv
<1>5. PICK j \in 1..Len(w) :
        LET chunk == SubSeq(w, 1, j)
            seen == call.read \cup Range(chunk)
            next == [call EXCEPT !.read = seen, !.content = @ + Deltas(chunk)]
        IN /\ wire' = [wire EXCEPT ![n] =
                               IF seen \cap Ends = {} THEN SubSeq(@, j + 1, Len(@)) ELSE <<>>]
           /\ IF seen \cap Ends = {} THEN call' = next /\ UNCHANGED <<replies, answer>>
              ELSE /\ replies' = [replies EXCEPT ![n].heard = FALSE]
                   /\ IF "failed" \in seen
                      THEN Tell("failed", Nobody, FALSE, seen)
                      ELSE Conclude(StatusOf(seen), next)
  BY <1>1, <1>3 DEF Read
<1>6. PICK u, v : u = SubSeq(w, 1, j) /\ v = SubSeq(w, j + 1, Len(w))
  OBVIOUS
<1>7. /\ u \in Seq(Frame) /\ Len(u) = j /\ \A i \in 1..j : u[i] = w[i]
      /\ v \in Seq(Frame) /\ Len(v) = Len(w) - j /\ \A i \in 1..Len(w) - j : v[i] = w[j + i]
      /\ Range(u) = {w[i] : i \in 1..j} /\ DOMAIN u = 1..j /\ DOMAIN v = 1..(Len(w) - j)
      /\ Deltas(u) + Deltas(v) = Deltas(w) /\ Deltas(u) \in Nat /\ Deltas(v) \in Nat
  <2>1. w \in Seq(Frame) /\ j \in 1..Len(w)
    BY <1>3, <1>5
  <2>2. CutAt(w, j, u, v)
    BY <2>1, <1>6, ReadOn
  <2> QED
    BY <2>2 DEF CutAt
<1>8. PICK seen : seen = call.read \cup Range(u)
  OBVIOUS
<1>9. seen \subseteq Frame
  BY <1>2, <1>7, <1>8 DEF Asking
<1>10. \A f \in seen : Says(f, n)
  <2> SUFFICES ASSUME NEW f \in seen PROVE Says(f, n)
    OBVIOUS
  <2>1. CASE f \in call.read
    BY <2>1, <1>4 DEF WireOf
  <2>2. CASE f \in Range(u)
    <3>1. PICK i \in 1..j : f = w[i]
      BY <2>2, <1>7
    <3>2. i \in DOMAIN w
      BY <1>3, <1>5
    <3> QED
      BY <3>1, <3>2, <1>4 DEF WireOf
  <2> QED
    BY <2>1, <2>2, <1>8
<1> DEFINE next == [call EXCEPT !.read = seen, !.content = @ + Deltas(u)]
<1>11. /\ next \in Asking /\ next.pc = "read" /\ next.turn = n /\ next.conv = call.conv
       /\ next.read = seen /\ next.content = call.content + Deltas(u)
       /\ next.given = call.given /\ next.expired = call.expired
  <2>1. Deltas(u) \in Nat
    BY <1>7
  <2>2. call \in Asking /\ call.turn = n /\ call.pc = "read" /\ call.content \in Nat
    BY <1>1, <1>2 DEF Asking
  <2>3. call.content + Deltas(u) \in Nat
    BY <2>1, <2>2
  <2> QED
    BY <2>2, <2>3, <1>9 DEF Asking
<1>12. CASE seen \cap Ends = {}
  <2>1. wire' = [wire EXCEPT ![n] = v] /\ call' = next /\ UNCHANGED <<replies, answer>>
    BY <1>3, <1>5, <1>6, <1>8, <1>12
  <2> HIDE DEF next
  <2>2. wire' \in Seq(Seq(Frame)) /\ Len(wire') = Len(wire) /\ wire'[n] = v
    BY <1>2, <1>7, <2>1
  <2>3. ExtTypeInv'
    BY <1>4, <1>11, <2>1, <2>2 DEF ExtInv, ExtTypeInv
  <2>4. CallInv'
    BY <1>1, <1>2, <1>11, <2>1 DEF CallInv
  <2>5. TurnInv'
    BY <1>1, <1>2, <1>4, <1>11, <2>1 DEF ExtInv, TurnInv, Kept, Rows
  <2>6. WireInv'
    <3>1. \A i \in DOMAIN v : v[i] = w[j + i] /\ j + i \in DOMAIN w
      BY <1>7
    <3>2. \A i \in DOMAIN v : Says(v[i], n)'
      BY <1>4, <3>1, <2>1 DEF WireOf, Says, Kept
    <3>3. \A i, k \in DOMAIN v : i < k /\ v[k] = "delta" => v[i] = "delta"
      <4> SUFFICES ASSUME NEW i \in DOMAIN v, NEW k \in DOMAIN v, i < k, v[k] = "delta"
                   PROVE  v[i] = "delta"
        OBVIOUS
      <4>1. j + i < j + k
        BY <1>7
      <4> QED
        BY <4>1, <1>4, <3>1 DEF WireOf
    <3>4. \A k \in DOMAIN v : v[k] = "error" =>
            "failed" \in seen \/ \E i \in DOMAIN v : i < k /\ v[i] = "failed"
      <4> SUFFICES ASSUME NEW k \in DOMAIN v, v[k] = "error", "failed" \notin seen
                   PROVE  \E i \in DOMAIN v : i < k /\ v[i] = "failed"
        OBVIOUS
      <4>1. PICK i \in DOMAIN w : i < j + k /\ w[i] = "failed"
        BY <1>4, <1>8, <3>1 DEF WireOf
      <4>2. i \notin 1..j
        BY <4>1, <1>7, <1>8
      <4>3. i - j \in DOMAIN v /\ i - j < k /\ v[i - j] = w[j + (i - j)] /\ j + (i - j) = i
        BY <4>1, <4>2, <1>7
      <4> QED
        BY <4>1, <4>3
    <3>5. next.content + Deltas(v) = replies[n].pieces
      <4>1. call.content \in Nat /\ call.content + Deltas(w) = replies[n].pieces
        BY <1>2, <1>4 DEF Asking, WireOf
      <4> QED
        BY <4>1, <1>7, <1>11
    <3>6. \A f \in seen : Says(f, n)'
      BY <1>10, <2>1 DEF Says, Kept
    <3>7. wire'[call'.turn] = v /\ call'.turn = n /\ call'.read = seen /\ call'.content = next.content
      BY <1>11, <2>1, <2>2
    <3>8. WireOf(n, v)'
      BY <1>12, <2>1, <3>2, <3>3, <3>4, <3>5, <3>6, <3>7 DEF WireOf
    <3> QED
      BY <3>7, <3>8 DEF WireInv
  <2>7. BackInv'
    BY <1>1, <1>2, <1>4, <1>11, <2>1 DEF ExtInv, BackInv, LastIs, Spoilt
  <2>8. AnswerInv'
    BY <1>4, <2>1 DEF ExtInv, AnswerInv, ToldOf, Kept, Spoilt
  <2> QED
    BY <2>3, <2>4, <2>5, <2>6, <2>7, <2>8 DEF ExtInv
<1>13. CASE seen \cap Ends # {}
  <2> DEFINE q == [replies[n] EXCEPT !.heard = FALSE]
  <2>1. /\ q \in Asked /\ q.conv = replies[n].conv /\ q.state = replies[n].state
        /\ q.pieces = replies[n].pieces /\ ~q.heard /\ q.why = replies[n].why
    BY <1>2 DEF Asked
  <2>2. replies' = [replies EXCEPT ![n] = q] /\ wire' = [wire EXCEPT ![n] = <<>>]
    BY <1>5, <1>6, <1>8, <1>13
  <2> HIDE DEF q
  <2>3. PICK f \in seen : f \in Ends \cup {"error"} /\ f \in {"done", "saved", "stopped", "error"}
    BY <1>13 DEF Ends
  <2>4. q.state = "runs" => q.why # "none"
    BY <1>10, <2>1, <2>3 DEF Says, Kept
  <2>5. CASE "failed" \in seen
    <3> DEFINE a == [status |-> "failed", turn |-> call.turn, of |-> Nobody, whole |-> FALSE,
                     read |-> seen, given |-> call.given, expired |-> call.expired]
    <3>1. a.status = "failed" /\ a.turn = n /\ a.of = Nobody
      BY <1>1
    <3>2. answer' = a /\ call' = AtRest
      BY <1>5, <1>6, <1>8, <1>13, <2>5 DEF Tell
    <3> HIDE DEF a
    <3>3. replies[n].state = "over" /\ replies[n].why = "failed"
      BY <1>10, <2>5 DEF Says
    <3>4. ToldOf(a)
      BY <1>2, <3>1, <3>3 DEF ToldOf
    <3> QED
      BY <1>1, <1>2, <1>4, <2>1, <2>2, <2>4, <3>2, <3>4, IdleIs, Unheard
  <2>6. CASE "failed" \notin seen
    <3>1. Conclude(StatusOf(seen), next)
      BY <1>5, <1>6, <1>8, <1>13, <2>6
    <3> HIDE DEF next
    <3>2. "error" \notin seen
      <4> SUFFICES ASSUME "error" \in seen PROVE FALSE
        OBVIOUS
      <4>1. "error" \notin call.read
        BY <1>4 DEF WireOf, Ends
      <4>2. PICK k \in 1..j : w[k] = "error"
        BY <4>1, <1>7, <1>8
      <4>3. k \in DOMAIN w
        BY <1>7
      <4>4. "failed" \notin call.read
        BY <2>6, <1>8
      <4>5. PICK i \in DOMAIN w : i < k /\ w[i] = "failed"
        BY <1>4, <4>2, <4>3, <4>4 DEF WireOf
      <4>6. i \in 1..j
        BY <4>5, <1>7
      <4> QED
        BY <4>5, <4>6, <2>6, <1>7, <1>8
    <3>3. f \in {"done", "saved", "stopped"}
      BY <2>3, <3>2
    <3>4. PICK status : status = StatusOf(seen)
      OBVIOUS
    <3>5. /\ status \in {"saved", "unknown", "stopped"}
          /\ status = "saved" => "saved" \in seen
          /\ status = "stopped" => "stopped" \in seen
          /\ status = "unknown" => "done" \in seen
      <4>1. CASE seen \cap {"saved", "stopped", "error"} # {}
        <5>1. StatusOf(seen) = CHOOSE s \in {"saved", "stopped", "error"} : s \in seen
          BY <4>1 DEF StatusOf
        <5>2. \E s \in {"saved", "stopped", "error"} : s \in seen
          BY <4>1
        <5>3. StatusOf(seen) \in {"saved", "stopped", "error"} /\ StatusOf(seen) \in seen
          BY <5>1, <5>2
        <5> QED
          BY <5>3, <3>2, <3>4
      <4>2. CASE seen \cap {"saved", "stopped", "error"} = {}
        BY <4>2, <3>3, <3>4 DEF StatusOf
      <4> QED
        BY <4>1, <4>2
    <3>6. status \in {"saved", "unknown"} => Kept(n) /\ next.content = replies[n].pieces
      <4> SUFFICES ASSUME status \in {"saved", "unknown"}
                   PROVE  Kept(n) /\ next.content = replies[n].pieces
        OBVIOUS
      <4>1. PICK g \in seen : g \in {"saved", "done"}
        BY <3>5
      <4>2. Kept(n)
        BY <1>10, <4>1 DEF Says
      <4>3. g \notin call.read
        BY <4>1, <1>4 DEF WireOf, Ends
      <4>4. PICK k \in 1..j : w[k] = g
        BY <4>1, <4>3, <1>7, <1>8
      <4>5. \A i \in DOMAIN v : v[i] # "delta"
        <5> SUFFICES ASSUME NEW i \in DOMAIN v, v[i] = "delta" PROVE FALSE
          OBVIOUS
        <5>1. w[j + i] = "delta" /\ j + i \in DOMAIN w /\ k \in DOMAIN w /\ k < j + i
          <6>1. i \in 1..(Len(w) - j) /\ Len(w) \in Nat /\ j \in 1..Len(w) /\ k \in 1..j
            BY <1>7, <4>4, <1>3, <1>5
          <6>2. j + i \in 1..Len(w) /\ k \in 1..Len(w) /\ k < j + i
            BY <6>1
          <6>3. w[j + i] = v[i]
            BY <6>1, <1>7
          <6> QED
            BY <6>2, <6>3, <1>3
        <5>2. w[k] = "delta"
          BY <5>1, <1>4 DEF WireOf
        <5> QED
          BY <5>2, <4>1, <4>4
      <4>6. {i \in DOMAIN v : v[i] = "delta"} = {}
        BY <4>5
      <4>7. Deltas(v) = 0
        BY <4>6, FS_EmptySet DEF Deltas
      <4>8. call.content \in Nat /\ call.content + Deltas(w) = replies[n].pieces
        BY <1>2, <1>4 DEF Asking, WireOf
      <4> QED
        BY <4>2, <4>7, <4>8, <1>7, <1>11
    <3>7. status = "stopped" => replies[n].state = "over" /\ replies[n].why = "user"
      BY <3>5, <1>10 DEF Says
    <3>8. Conclude(status, next) /\ status \in {"saved", "unknown", "stopped", "timeout"}
          /\ status # "timeout"
      BY <3>1, <3>4, <3>5
    <3>9. PICK c, a :
           /\ c \in Asking /\ call' = c /\ answer' = a /\ ToldOf(a)
           /\ c.pc = "idle" \/ (/\ c.pc = "back" /\ c.turn = n /\ c.conv = call.conv
                                /\ c.status \in {"stopped", "timeout"}
                                /\ (c.status = "timeout" => c.read \cap Ends = {})
                                /\ (c.status = "stopped" =>
                                      replies[n].state = "over" /\ replies[n].why = "user"))
      BY <1>1, <1>2, <1>11, <3>6, <3>7, <3>8, Concluded
    <3> QED
      BY <1>1, <1>2, <1>4, <2>1, <2>2, <2>4, <3>9, Unheard
  <2> QED
    BY <2>5, <2>6
<1> QED
  BY <1>12, <1>13

LEMMA BackKeeps == ASSUME ExtConstants, ExtInv, Back PROVE ExtInv'
<1>1. /\ call.pc = "back" /\ UNCHANGED platform /\ call' = AtRest
      /\ token' \in {"none", "good", "stale"}
  BY DEF Back, CallAt, Tell, ExtInv, ExtTypeInv
<1>2. PICK n : n = call.turn
  OBVIOUS
<1>3. /\ n = Len(replies) /\ n \in DOMAIN replies /\ replies[n].conv = call.conv /\ replies \in Seq(Asked)
      /\ call.status \in {"stopped", "timeout"}
      /\ call.status = "timeout" => call.read \cap Ends = {}
      /\ call.status = "stopped" => replies[n].state = "over" /\ replies[n].why = "user" /\ LastIs(n)
      /\ convs \in 1..MaxAsked + 1
  BY <1>1, <1>2 DEF ExtInv, ExtTypeInv, CallInv, BackInv, Asking
<1>4. PICK of, whole : /\ Tell(call.status, of, whole, call.read)
                       /\ of = Nobody \/ of = LastOf(call.conv)
  BY DEF Back
<1> DEFINE a == [status |-> call.status, turn |-> n, of |-> of, whole |-> whole,
                 read |-> call.read, given |-> call.given, expired |-> call.expired]
<1>5. a.status = call.status /\ a.turn = n /\ a.of = of /\ a.read = call.read
  OBVIOUS
<1>6. answer' = a
  BY <1>2, <1>4 DEF Tell
<1> HIDE DEF a
<1>7. call.status = "stopped" /\ of \notin {Nobody, n} => \E m \in 1..n - 1 : Spoilt(m)
  <2> SUFFICES ASSUME call.status = "stopped", of \notin {Nobody, n} PROVE \E m \in 1..n - 1 : Spoilt(m)
    OBVIOUS
  <2>1. of = Last(stored[replies[n].conv])
    BY <1>3, <1>4 DEF LastOf, LastIs
  <2> QED
    BY <2>1, <1>3 DEF LastIs
<1>8. ToldOf(a)
  BY <1>3, <1>5, <1>7 DEF ToldOf
<1>9. CallInv'
  BY <1>1, IdleIs DEF CallInv
<1> QED
  BY <1>1, <1>3, <1>6, <1>8, <1>9, IdleIs, RestsQuiet DEF platform

LEMMA ExpireKeeps == ASSUME ExtConstants, ExtInv, Expire PROVE ExtInv'
<1>1. token' = "stale" /\ UNCHANGED <<convs, replies, wire, stored, answer>>
  BY DEF Expire, platform
<1>2. call \in Asking
  BY DEF ExtInv, ExtTypeInv
<1> DEFINE q == [call EXCEPT !.expired = TRUE]
<1>3. /\ q \in Asking /\ q.pc = call.pc /\ q.given = call.given /\ q.conv = call.conv
      /\ q.turn = call.turn /\ q.content = call.content /\ q.read = call.read
      /\ q.status = call.status /\ q.expired
  BY <1>2 DEF Asking
<1>4. call' = IF call.pc = "idle" THEN call ELSE q
  BY DEF Expire, CallAt
<1> HIDE DEF q
<1>5. /\ call' \in Asking /\ call'.pc = call.pc /\ call'.given = call.given
      /\ call'.conv = call.conv /\ call'.turn = call.turn /\ call'.content = call.content
      /\ call'.read = call.read /\ call'.status = call.status
      /\ call'.pc # "idle" => call'.expired
  BY <1>2, <1>3, <1>4
<1>6. ExtTypeInv' /\ CallInv'
  BY <1>1, <1>5 DEF ExtInv, ExtTypeInv, CallInv
<1>7. TurnInv' /\ BackInv'
  BY <1>1, <1>5 DEF ExtInv, TurnInv, BackInv, Kept, Rows, LastIs, Spoilt
<1>8. WireInv'
  BY <1>1, <1>5 DEF ExtInv, WireInv, WireOf, Says, Kept
<1>9. AnswerInv'
  BY <1>1 DEF ExtInv, AnswerInv, ToldOf, Kept, Spoilt
<1> QED
  BY <1>6, <1>7, <1>8, <1>9 DEF ExtInv

-----------------------------------------------------------------------------
\* A step of turn n on the platform, whatever it sends: rows are added by a turn
\* that ends or is heard.
Advances(n, q) ==
  /\ replies' = [replies EXCEPT ![n] = q]
  /\ q.conv = replies[n].conv /\ q.heard = replies[n].heard /\ replies[n].state # "over"
  /\ replies[n].state = "saved" => q.state = "over" /\ q.why = "saved"
  /\ q.state = "runs" /\ q.why = "none" => q.heard
  /\ q.heard => q.why # "disconnect"
  /\ q.state = "runs" => q.why \in {"none", "user", "disconnect"}
  /\ q.state = "saved" => q.why = "none"
  /\ q.state = "over" => q.why # "none"
Leaves(n, q) ==
  \/ /\ stored' = stored
     /\ q.state = "over" => q.why = "saved"
     /\ q.state \in {"saved", "over"} => replies[n].state = "saved" /\ q.pieces = replies[n].pieces
  \/ /\ stored' = [stored EXCEPT ![replies[n].conv] = Append(@, n)]
     /\ \/ q.state = "over" /\ q.why # "saved"
        \/ q.state = "saved" /\ q.pieces > 0 /\ replies[n].heard

LEMMA RowsGrow ==
  ASSUME ExtTypeInv, NEW n \in DOMAIN replies, NEW q \in Asked, Advances(n, q), Leaves(n, q)
  PROVE  /\ stored' \in [1..MaxAsked + 1 -> Seq(Nat)]
         /\ \A c \in 1..MaxAsked + 1 :
              /\ Range(stored[c]) \subseteq Range(stored'[c])
              /\ stored[c] # <<>> => stored'[c] # <<>>
              /\ stored'[c] # <<>> => stored'[c] = stored[c] \/ Last(stored'[c]) = n
         /\ stored' # stored => /\ n \in Range(stored'[q.conv]) /\ stored'[q.conv] # <<>>
                                /\ Last(stored'[q.conv]) = n
<1>1. n \in Nat /\ replies[n].conv \in 1..MaxAsked + 1 /\ q.conv = replies[n].conv
  <2>1. replies \in Seq(Asked)
    BY DEF ExtTypeInv
  <2>2. n \in Nat /\ replies[n] \in Asked
    BY <2>1
  <2>3. replies[n].conv \in 1..MaxAsked + 1
    BY <2>2 DEF Asked
  <2> QED
    BY <2>2, <2>3 DEF Advances
<1>2. stored \in [1..MaxAsked + 1 -> Seq(Nat)]
  BY DEF ExtTypeInv
<1>3. CASE stored' = stored
  BY <1>2, <1>3
<1>4. CASE stored' = [stored EXCEPT ![replies[n].conv] = Append(@, n)]
  <2>1. PICK d \in 1..MaxAsked + 1 : d = replies[n].conv
    BY <1>1
  <2>2. PICK rows \in Seq(Nat) : rows = stored[d]
    BY <1>2, <2>1
  <2>3. PICK more : more = Append(rows, n)
    OBVIOUS
  <2>4. /\ more \in Seq(Nat) /\ Len(more) = Len(rows) + 1 /\ more[Len(more)] = n /\ more # <<>>
        /\ \A i \in 1..Len(rows) : more[i] = rows[i]
    BY <1>1, <2>2, <2>3
  <2>5. Last(more) = n
    BY <2>4 DEF Last
  <2>6. Range(rows) \subseteq Range(more) /\ n \in Range(more)
    <3>1. DOMAIN rows = 1..Len(rows) /\ DOMAIN more = 1..Len(more) /\ Len(rows) \in Nat
      BY <2>2, <2>4
    <3>2. \A i \in DOMAIN rows : i \in DOMAIN more /\ more[i] = rows[i]
      BY <2>4, <3>1
    <3>3. Len(more) \in DOMAIN more
      BY <2>4, <3>1
    <3> QED
      BY <2>4, <3>2, <3>3 DEF Range
  <2>7. stored' = [stored EXCEPT ![d] = more]
    BY <1>4, <2>1, <2>2, <2>3
  <2>8. stored' \in [1..MaxAsked + 1 -> Seq(Nat)] /\ stored'[d] = more
        /\ \A c \in 1..MaxAsked + 1 : c # d => stored'[c] = stored[c]
    BY <1>2, <2>4, <2>7
  <2> QED
    BY <1>1, <2>1, <2>2, <2>4, <2>5, <2>6, <2>8
<1> QED
  BY <1>3, <1>4 DEF Leaves

LEMMA MoveKeeps ==
  ASSUME ExtConstants, ExtInv, NEW n \in DOMAIN replies, NEW q \in Asked, Advances(n, q), Leaves(n, q),
         wire' \in Seq(Seq(Frame)), Len(wire') = Len(wire),
         UNCHANGED client, convs' = convs,
         NEW w, w = wire'[n], replies[n].heard => WireOf(n, w)',
         ~replies[n].heard => wire' = wire
  PROVE  ExtInv'
<1>1. /\ replies \in Seq(Asked) /\ wire \in Seq(Seq(Frame)) /\ Len(wire) = Len(replies)
      /\ UNCHANGED <<token, call, answer>> /\ ToldOf(answer) /\ ExtTypeInv
  BY DEF ExtInv, ExtTypeInv, AnswerInv, client
<1>2. /\ replies' \in Seq(Asked) /\ Len(replies') = Len(replies) /\ DOMAIN replies' = DOMAIN replies
      /\ replies'[n] = q /\ \A m \in DOMAIN replies : m # n => replies'[m] = replies[m]
  BY <1>1 DEF Advances
<1>3. /\ stored' \in [1..MaxAsked + 1 -> Seq(Nat)]
      /\ \A c \in 1..MaxAsked + 1 :
           /\ Range(stored[c]) \subseteq Range(stored'[c])
           /\ stored[c] # <<>> => stored'[c] # <<>>
           /\ stored'[c] # <<>> => stored'[c] = stored[c] \/ Last(stored'[c]) = n
      /\ stored' # stored => /\ n \in Range(stored'[q.conv]) /\ stored'[q.conv] # <<>>
                             /\ Last(stored'[q.conv]) = n
  BY <1>1, RowsGrow
<1>4. \A m \in DOMAIN replies : replies[m].conv \in 1..MaxAsked + 1 /\ replies'[m].conv = replies[m].conv
  <2>1. \A m \in DOMAIN replies : replies[m] \in Asked
    BY <1>1
  <2> QED
    BY <1>2, <2>1 DEF Asked, Advances
<1>5. ExtTypeInv'
  BY <1>1, <1>2, <1>3 DEF ExtTypeInv
<1>6. CallInv'
  BY <1>1, <1>2, <1>4 DEF ExtInv, CallInv
<1>7. \A m \in DOMAIN replies : Kept(m) => Kept(m)' /\ replies'[m].pieces > 0 /\ m \in Rows(m)'
  <2> SUFFICES ASSUME NEW m \in DOMAIN replies, Kept(m)
               PROVE  Kept(m)' /\ replies'[m].pieces > 0 /\ m \in Rows(m)'
    OBVIOUS
  <2>1. replies[m].pieces > 0 /\ m \in Range(stored'[replies'[m].conv])
    BY <1>3, <1>4 DEF ExtInv, TurnInv, Rows
  <2>2. CASE m = n
    <3>1. replies[n].state = "saved" /\ q.state = "over" /\ q.why = "saved"
      BY <2>2 DEF Kept, Advances
    <3>2. q.pieces = replies[n].pieces
      BY <3>1 DEF Leaves
    <3> QED
      BY <1>2, <2>1, <2>2, <3>1, <3>2 DEF Kept, Rows
  <2>3. CASE m # n
    BY <1>2, <2>1, <2>3 DEF Kept, Rows
  <2> QED
    BY <2>2, <2>3
<1>8. q.state = "saved" \/ (q.state = "over" /\ q.why = "saved") => q.pieces > 0 /\ n \in Rows(n)'
  <2> SUFFICES ASSUME q.state = "saved" \/ (q.state = "over" /\ q.why = "saved")
               PROVE  q.pieces > 0 /\ n \in Rows(n)'
    OBVIOUS
  <2>1. CASE replies[n].state = "saved"
    BY <2>1, <1>2, <1>7 DEF Kept
  <2>2. CASE replies[n].state # "saved"
    <3>1. q.pieces > 0 /\ stored' = [stored EXCEPT ![replies[n].conv] = Append(@, n)]
      BY <2>2 DEF Leaves
    <3>2. stored' # stored
      <4>1. PICK d \in 1..MaxAsked + 1 : d = replies[n].conv
        BY <1>4
      <4>2. stored[d] \in Seq(Nat) /\ stored'[d] = Append(stored[d], n)
        BY <1>1, <3>1, <4>1 DEF ExtTypeInv
      <4>3. n \in Nat
        BY <1>1
      <4>4. Len(stored'[d]) = Len(stored[d]) + 1 /\ Len(stored[d]) \in Nat
        BY <4>2, <4>3
      <4>5. Len(stored'[d]) # Len(stored[d])
        BY <4>4
      <4> QED
        BY <4>5
    <3> QED
      BY <1>2, <1>3, <3>1, <3>2 DEF Rows
  <2> QED
    BY <2>1, <2>2
<1>9. TurnInv'
  <2> SUFFICES ASSUME NEW m \in DOMAIN replies
      PROVE  /\ replies'[m].heard <=> call'.pc = "read" /\ m = call'.turn
             /\ replies'[m].state = "runs" /\ replies'[m].why = "none" => replies'[m].heard
             /\ replies'[m].heard => replies'[m].why # "disconnect"
             /\ replies'[m].state = "runs" => replies'[m].why \in {"none", "user", "disconnect"}
             /\ replies'[m].state = "saved" => replies'[m].why = "none"
             /\ replies'[m].state = "over" => replies'[m].why # "none"
             /\ Kept(m)' => replies'[m].pieces > 0 /\ m \in Rows(m)'
    BY <1>2 DEF TurnInv
  <2>1. replies[m].heard <=> call.pc = "read" /\ m = call.turn
    BY DEF ExtInv, TurnInv
  <2>2. CASE m = n
    BY <2>1, <2>2, <1>1, <1>2, <1>8 DEF Advances, Kept
  <2>3. CASE m # n
    <3>1. Kept(m)' => Kept(m)
      BY <1>2, <2>3 DEF Kept
    <3> QED
      BY <2>1, <2>3, <3>1, <1>1, <1>2, <1>7 DEF ExtInv, TurnInv
  <2> QED
    BY <2>2, <2>3
<1>10. WireInv'
  <2> SUFFICES ASSUME call.pc = "read" PROVE WireOf(call.turn, wire[call.turn])'
    BY <1>1 DEF WireInv
  <2>1. PICK m \in DOMAIN replies : m = call.turn
    BY DEF ExtInv, CallInv
  <2>2. replies[m].heard
    BY <2>1 DEF ExtInv, TurnInv
  <2>3. CASE m = n
    <3>1. WireOf(n, w)' /\ call' = call /\ w = wire'[call.turn]
      BY <2>1, <2>2, <2>3, <1>1
    <3> QED
      BY <3>1, <2>1, <2>3
  <2>4. CASE m # n
    <3>1. ~replies[n].heard
      BY <2>1, <2>4 DEF ExtInv, TurnInv
    <3>2. wire' = wire /\ replies'[m] = replies[m]
      BY <3>1, <2>4, <1>2
    <3>3. WireOf(m, wire[m])
      BY <2>1 DEF ExtInv, WireInv
    <3> QED
      BY <3>2, <3>3, <2>1, <1>1 DEF WireOf, Says, Kept
  <2> QED
    BY <2>3, <2>4
<1>11. Forward
  BY <1>2, <1>7 DEF Forward, Advances
<1>12. BackInv'
  <2> SUFFICES ASSUME call.pc \in {"read", "back"}
      PROVE  /\ replies'[call.turn].state = "over" /\ replies'[call.turn].why = "user" => LastIs(call.turn)'
             /\ call.pc = "back" /\ call.status = "stopped" =>
                  replies'[call.turn].state = "over" /\ replies'[call.turn].why = "user"
    BY <1>1 DEF ExtInv, BackInv
  <2>1. PICK m \in DOMAIN replies : m = call.turn /\ m = Len(replies)
    BY DEF ExtInv, CallInv
  <2>2. call.pc = "back" /\ call.status = "stopped" => replies'[m].state = "over" /\ replies'[m].why = "user"
    BY <1>11, <2>1 DEF ExtInv, BackInv, Forward
  <2>3. ASSUME replies'[m].state = "over", replies'[m].why = "user" PROVE LastIs(m)'
    <3>1. PICK d \in 1..MaxAsked + 1 : d = replies[m].conv /\ d = replies'[m].conv
      BY <1>4
    <3>2. CASE m = n
      <4>1. q.state = "over" /\ q.why = "user"
        BY <2>3, <3>2, <1>2
      <4>2. stored' # stored
        <5>1. stored' = [stored EXCEPT ![replies[n].conv] = Append(@, n)]
          BY <4>1 DEF Leaves
        <5>2. stored[d] \in Seq(Nat) /\ stored'[d] = Append(stored[d], n) /\ n \in Nat
          <6>1. stored \in [1..MaxAsked + 1 -> Seq(Nat)] /\ n \in Nat
            BY <1>1 DEF ExtTypeInv
          <6>2. d = replies[n].conv
            BY <3>1, <3>2
          <6> QED
            BY <6>1, <6>2, <5>1
        <5>3. Len(stored'[d]) = Len(stored[d]) + 1 /\ Len(stored[d]) \in Nat
          BY <5>2
        <5>4. Len(stored'[d]) # Len(stored[d])
          BY <5>3
        <5> QED
          BY <5>4
      <4> QED
        BY <4>2, <1>2, <1>3, <3>2 DEF LastIs
    <3>3. CASE m # n
      <4>1. replies[m].state = "over" /\ replies[m].why = "user"
        BY <2>3, <3>3, <1>2
      <4>2. LastIs(m)
        BY <2>1, <4>1 DEF ExtInv, BackInv
      <4>3. n \in 1..m - 1 /\ \A k \in 1..m - 1 : k \in DOMAIN replies
        BY <1>1, <2>1, <3>3
      <4>4. \A k \in 1..m - 1 : Spoilt(k) => Spoilt(k)'
        BY <1>11, <4>3 DEF Forward, Spoilt
      <4>5. stored'[d] # <<>>
        BY <4>2, <3>1, <1>3 DEF LastIs
      <4>6. CASE stored'[d] = stored[d]
        BY <4>2, <4>4, <4>5, <4>6, <3>1 DEF LastIs
      <4>7. CASE stored'[d] # stored[d]
        <5>1. stored' # stored
          BY <4>7
        <5>2. ~replies[n].heard
          BY <2>1, <3>3 DEF ExtInv, TurnInv
        <5>3. q.state = "over" /\ q.why # "saved"
          BY <5>1, <5>2 DEF Leaves
        <5>4. Spoilt(n)'
          BY <5>3, <1>2 DEF Spoilt
        <5> QED
          BY <4>3, <4>5, <5>4, <3>1 DEF LastIs
      <4> QED
        BY <4>6, <4>7
    <3> QED
      BY <3>2, <3>3
  <2> QED
    BY <2>1, <2>2, <2>3, <1>1
<1>13. AnswerInv'
  BY <1>1, <1>11, TellKeeps
<1> QED
  BY <1>5, <1>6, <1>9, <1>10, <1>12, <1>13 DEF ExtInv

LEMMA SumsAgree ==
  ASSUME NEW a \in Nat, NEW b \in Nat, NEW c \in Nat, NEW d \in Nat, NEW e \in Nat,
         a + d = b, e + b = d + c
  PROVE  a + e = c
OBVIOUS

LEMMA WireGrows ==
  ASSUME ExtInv, NEW n \in DOMAIN replies, replies[n].heard, NEW q \in Asked, Advances(n, q),
         UNCHANGED client, NEW w \in Seq(Frame), w = wire[n],
         NEW fs \in Seq(Frame), NEW u, u = w \o fs,
         Deltas(u) + replies[n].pieces = Deltas(w) + q.pieces, Deltas(u) \in Nat,
         \A i \in DOMAIN fs : Says(fs[i], n)',
         (\A i \in DOMAIN fs : fs[i] # "delta") \/ (q.state = "runs" /\ fs = <<"delta">>),
         \A j \in DOMAIN fs : fs[j] = "error" => \E i \in DOMAIN fs : i < j /\ fs[i] = "failed"
  PROVE  WireOf(n, u)'
<1>1. /\ call.pc = "read" /\ n = call.turn /\ WireOf(n, w) /\ call' = call
      /\ replies \in Seq(Asked) /\ replies[n] \in Asked /\ call \in Asking
  BY DEF ExtInv, ExtTypeInv, TurnInv, WireInv, client
<1>2. replies'[n] = q
  BY <1>1 DEF Advances
<1>3. \A f : Says(f, n) => Says(f, n)'
  BY <1>2 DEF Says, Kept, Advances
<1>4. /\ Len(u) = Len(w) + Len(fs) /\ DOMAIN u = 1..Len(u) /\ Len(w) \in Nat /\ Len(fs) \in Nat
      /\ \A i \in 1..Len(w) : u[i] = w[i]
      /\ \A i \in 1..Len(fs) : u[Len(w) + i] = fs[i]
      /\ DOMAIN w = 1..Len(w) /\ DOMAIN fs = 1..Len(fs)
  OBVIOUS
<1>5. \A k \in DOMAIN u : k \notin DOMAIN w => k - Len(w) \in DOMAIN fs /\ u[k] = fs[k - Len(w)]
  <2> SUFFICES ASSUME NEW k \in DOMAIN u, k \notin DOMAIN w
               PROVE  k - Len(w) \in DOMAIN fs /\ u[k] = fs[k - Len(w)]
    OBVIOUS
  <2>1. k - Len(w) \in 1..Len(fs) /\ Len(w) + (k - Len(w)) = k
    <3>1. k \in 1..(Len(w) + Len(fs)) /\ k \notin 1..Len(w) /\ Len(w) \in Nat /\ Len(fs) \in Nat
      BY <1>4
    <3> QED
      BY <3>1
  <2>2. u[Len(w) + (k - Len(w))] = fs[k - Len(w)]
    BY <2>1, <1>4
  <2> QED
    BY <2>1, <2>2, <1>4
<1>6. \A k \in DOMAIN u : k \in DOMAIN w => u[k] = w[k]
  BY <1>4
<1>7. \A k \in DOMAIN u : Says(u[k], n)'
  <2> SUFFICES ASSUME NEW k \in DOMAIN u PROVE Says(u[k], n)'
    OBVIOUS
  <2>1. CASE k \in DOMAIN w
    <3>1. Says(w[k], n)
      BY <2>1, <1>1 DEF WireOf
    <3> QED
      BY <2>1, <3>1, <1>3, <1>6
  <2>2. CASE k \notin DOMAIN w
    BY <2>2, <1>5
  <2> QED
    BY <2>1, <2>2
<1>8. \A i, j \in DOMAIN u : i < j /\ u[j] = "delta" => u[i] = "delta"
  <2> SUFFICES ASSUME NEW i \in DOMAIN u, NEW j \in DOMAIN u, i < j, u[j] = "delta" PROVE u[i] = "delta"
    OBVIOUS
  <2>1. CASE j \in DOMAIN w
    <3>1. i \in DOMAIN w
      BY <2>1, <1>4
    <3> QED
      BY <2>1, <3>1, <1>1, <1>6 DEF WireOf
  <2>2. CASE j \notin DOMAIN w
    <3>1. q.state = "runs" /\ fs = <<"delta">>
      BY <2>2, <1>5
    <3>2. j = Len(w) + 1
      BY <2>2, <3>1, <1>4
    <3>3. i \in DOMAIN w
      BY <3>2, <1>4
    <3>4. replies[n].state = "runs"
      BY <3>1, <1>1 DEF Advances, Asked
    <3>5. w[i] \in Frame /\ Says(w[i], n)
      BY <3>3, <1>1 DEF WireOf
    <3>6. w[i] = "delta"
      BY <3>4, <3>5 DEF Says, Kept, Frame
    <3> QED
      BY <3>3, <3>6, <1>6
  <2> QED
    BY <2>1, <2>2
<1>9. \A j \in DOMAIN u : u[j] = "error" =>
        "failed" \in call.read \/ \E i \in DOMAIN u : i < j /\ u[i] = "failed"
  <2> SUFFICES ASSUME NEW j \in DOMAIN u, u[j] = "error", "failed" \notin call.read
               PROVE  \E i \in DOMAIN u : i < j /\ u[i] = "failed"
    OBVIOUS
  <2>1. CASE j \in DOMAIN w
    <3>1. PICK i \in DOMAIN w : i < j /\ w[i] = "failed"
      BY <2>1, <1>1, <1>6 DEF WireOf
    <3>2. i \in DOMAIN u
      BY <1>4
    <3> QED
      BY <3>1, <3>2, <1>6
  <2>2. CASE j \notin DOMAIN w
    <3>1. PICK i \in DOMAIN fs : i < j - Len(w) /\ fs[i] = "failed"
      BY <2>2, <1>5
    <3>2. i \in 1..Len(fs) /\ j \in 1..(Len(w) + Len(fs)) /\ Len(w) \in Nat /\ Len(fs) \in Nat
      BY <3>1, <1>4
    <3>3. Len(w) + i \in 1..(Len(w) + Len(fs)) /\ Len(w) + i < j
      <4>1. PICK a \in Nat, b \in Nat : a = Len(w) /\ b = Len(fs)
        BY <3>2
      <4>2. i \in 1..b /\ j \in Int /\ i < j - a
        BY <3>1, <3>2, <4>1
      <4>3. a + i \in 1..(a + b) /\ a + i < j
        BY <4>2
      <4> QED
        BY <4>1, <4>3
    <3>4. Len(w) + i \in DOMAIN u /\ Len(w) + i < j /\ u[Len(w) + i] = "failed"
      BY <3>1, <3>2, <3>3, <1>4
    <3> QED
      BY <3>4
  <2> QED
    BY <2>1, <2>2
<1>10. call.content + Deltas(u) = q.pieces
  <2>1. call.content \in Nat /\ replies[n].pieces \in Nat /\ q.pieces \in Nat
    BY <1>1 DEF Asking, Asked
  <2>2. call.content + Deltas(w) = replies[n].pieces /\ Deltas(w) \in Nat
    BY <1>1, DeltasAre DEF WireOf
  <2>3. Deltas(u) + replies[n].pieces = Deltas(w) + q.pieces /\ Deltas(u) \in Nat
    BY DeltasAre
  <2>4. PICK a \in Nat, b \in Nat, c \in Nat, d \in Nat, e \in Nat :
          /\ a = call.content /\ b = replies[n].pieces /\ c = q.pieces
          /\ d = Deltas(w) /\ e = Deltas(u)
    BY <2>1, <2>2, <2>3
  <2>5. a + d = b /\ e + b = d + c
    BY <2>2, <2>3, <2>4
  <2>6. a + e = c
    BY <2>5, SumsAgree
  <2> QED
    BY <2>4, <2>6
<1>11. call.read \cap Ends = {} /\ \A f \in call.read : Says(f, n)'
  BY <1>1, <1>3 DEF WireOf
<1>12. call' = call
  BY <1>1
<1> QED
  BY <1>2, <1>7, <1>8, <1>9, <1>10, <1>11, <1>12 DEF WireOf

\* What a turn sends reaches the wire, when it is heard.
LEMMA SendKeeps ==
  ASSUME ExtConstants, ExtInv, NEW n \in DOMAIN replies, NEW q \in Asked, Advances(n, q), Leaves(n, q),
         UNCHANGED client, convs' = convs, NEW fs \in Seq(Frame),
         wire' = IF replies[n].heard THEN [wire EXCEPT ![n] = @ \o fs] ELSE wire,
         \A w \in Seq(Frame) : Deltas(w \o fs) + replies[n].pieces = Deltas(w) + q.pieces,
         \A i \in DOMAIN fs : Says(fs[i], n)',
         (\A i \in DOMAIN fs : fs[i] # "delta") \/ (q.state = "runs" /\ fs = <<"delta">>),
         \A j \in DOMAIN fs : fs[j] = "error" => \E i \in DOMAIN fs : i < j /\ fs[i] = "failed"
  PROVE  ExtInv'
<1>1. wire \in Seq(Seq(Frame)) /\ Len(wire) = Len(replies) /\ replies \in Seq(Asked)
  BY DEF ExtInv, ExtTypeInv
<1>2. PICK w \in Seq(Frame) : w = wire[n]
  BY <1>1
<1>3. PICK u \in Seq(Frame) : u = w \o fs
  <2>1. w \in Seq(Frame) /\ fs \in Seq(Frame)
    BY <1>2
  <2>2. w \o fs \in Seq(Frame)
    BY <2>1
  <2> QED
    BY <2>2
<1>4. CASE replies[n].heard
  <2>1. wire' = [wire EXCEPT ![n] = u]
    BY <1>2, <1>3, <1>4
  <2>2. wire' \in Seq(Seq(Frame)) /\ Len(wire') = Len(wire) /\ wire'[n] = u
    <3>1. u \in Seq(Frame) /\ n \in 1..Len(wire) /\ DOMAIN wire = 1..Len(wire)
      BY <1>1, <1>3
    <3> DEFINE S == Seq(Frame)
    <3>2. wire \in Seq(S) /\ u \in S
      BY <1>1, <3>1
    <3> HIDE DEF S
    <3>3. [wire EXCEPT ![n] = u] \in Seq(S) /\ Len([wire EXCEPT ![n] = u]) = Len(wire)
          /\ [wire EXCEPT ![n] = u][n] = u
      BY <3>1, <3>2
    <3> QED
      BY <3>3, <2>1 DEF S
  <2>3. Deltas(u) + replies[n].pieces = Deltas(w) + q.pieces /\ Deltas(u) \in Nat
    BY <1>2, <1>3, DeltasAre
  <2>4. WireOf(n, u)'
    BY <1>2, <1>3, <1>4, <2>3, WireGrows
  <2> QED
    BY <1>4, <2>2, <2>4, MoveKeeps
<1>5. CASE ~replies[n].heard
  <2>1. wire' = wire
    BY <1>5
  <2>2. PICK x : x = wire'[n]
    OBVIOUS
  <2> QED
    BY <1>1, <1>5, <2>1, <2>2, MoveKeeps
<1> QED
  BY <1>4, <1>5

LEMMA DeltasOther ==
  ASSUME NEW w \in Seq(Frame), NEW f \in Frame, f # "delta"
  PROVE  Deltas(w \o <<f>>) = Deltas(w) /\ Deltas(w) \in Nat
BY DeltasGrow, DeltasAre

LEMMA DeltasOfFailure ==
  ASSUME NEW w \in Seq(Frame) PROVE Deltas(w \o <<"failed", "error">>) = Deltas(w) /\ Deltas(w) \in Nat
<1>1. w \o <<"failed">> \in Seq(Frame)
  BY DEF Frame
<1>2. w \o <<"failed", "error">> = (w \o <<"failed">>) \o <<"error">>
  OBVIOUS
<1>3. Deltas(w \o <<"failed">>) = Deltas(w) /\ Deltas(w) \in Nat
  BY DeltasOther DEF Frame
<1>4. Deltas((w \o <<"failed">>) \o <<"error">>) = Deltas(w \o <<"failed">>)
  BY <1>1, DeltasOther DEF Frame
<1> QED
  BY <1>2, <1>3, <1>4

LEMMA TurnIs ==
  ASSUME ExtInv, NEW n \in DOMAIN replies
  PROVE  /\ replies \in Seq(Asked) /\ replies[n] \in Asked /\ replies[n].pieces \in Nat
         /\ replies[n].state = "runs" /\ replies[n].why = "none" => replies[n].heard
         /\ replies[n].heard => replies[n].why # "disconnect"
         /\ replies[n].state = "runs" => replies[n].why \in {"none", "user", "disconnect"}
         /\ replies[n].state = "saved" => replies[n].why = "none"
<1>1. replies \in Seq(Asked)
  BY DEF ExtInv, ExtTypeInv
<1>2. replies[n] \in Asked
  BY <1>1
<1>3. replies[n].pieces \in Nat
  BY <1>2 DEF Asked
<1>4. TurnInv
  BY DEF ExtInv
<1> QED
  BY <1>1, <1>2, <1>3, <1>4 DEF TurnInv

LEMMA PieceKeeps == ASSUME ExtConstants, ExtInv, NEW n \in DOMAIN replies, Piece(n) PROVE ExtInv'
<1> DEFINE q == [replies[n] EXCEPT !.pieces = @ + 1]
<1>1. /\ q \in Asked /\ q.conv = replies[n].conv /\ q.heard = replies[n].heard
      /\ q.state = replies[n].state /\ q.why = replies[n].why /\ q.pieces = replies[n].pieces + 1
  <2>1. replies[n] \in Asked /\ replies[n].pieces \in Nat
    BY TurnIs
  <2>2. PICK m \in Nat : m = replies[n].pieces + 1
    BY <2>1
  <2>3. q = [replies[n] EXCEPT !.pieces = m]
    BY <2>2
  <2> HIDE DEF q
  <2> QED
    BY <2>1, <2>2, <2>3 DEF Asked
<1>2. replies' = [replies EXCEPT ![n] = q] /\ replies[n].state = "runs" /\ replies[n].why = "none"
  BY DEF Piece
<1> HIDE DEF q
<1>3. Advances(n, q) /\ Leaves(n, q)
  BY <1>1, <1>2, TurnIs DEF Advances, Leaves, Piece
<1>4. UNCHANGED client /\ convs' = convs
      /\ wire' = IF replies[n].heard THEN [wire EXCEPT ![n] = @ \o <<"delta">>] ELSE wire
  BY DEF Piece, Sends
<1>5. \A w \in Seq(Frame) : Deltas(w \o <<"delta">>) + replies[n].pieces = Deltas(w) + q.pieces
  <2> SUFFICES ASSUME NEW w \in Seq(Frame)
               PROVE  Deltas(w \o <<"delta">>) + replies[n].pieces = Deltas(w) + q.pieces
    OBVIOUS
  <2>1. Deltas(w \o <<"delta">>) = Deltas(w) + 1 /\ Deltas(w) \in Nat
    BY DeltasGrow, DeltasAre DEF Frame
  <2>2. PICK a \in Nat, b \in Nat : a = Deltas(w) /\ b = replies[n].pieces
    BY <2>1, TurnIs
  <2>3. q.pieces = b + 1
    BY <1>1, <2>2
  <2>4. (a + 1) + b = a + (b + 1)
    BY <2>2
  <2> QED
    BY <2>1, <2>2, <2>3, <2>4
<1>6. /\ <<"delta">> \in Seq(Frame) /\ DOMAIN <<"delta">> = {1} /\ <<"delta">>[1] = "delta"
      /\ Says("delta", n)'
  BY DEF Frame, Says
<1> QED
  BY <1>1, <1>2, <1>3, <1>4, <1>5, <1>6, SendKeeps

LEMMA SaveKeeps == ASSUME ExtConstants, ExtInv, NEW n \in DOMAIN replies, Save(n) PROVE ExtInv'
<1> DEFINE q == [replies[n] EXCEPT !.state = "saved"]
<1>1. /\ q \in Asked /\ q.conv = replies[n].conv /\ q.heard = replies[n].heard
      /\ q.state = "saved" /\ q.why = replies[n].why /\ q.pieces = replies[n].pieces
  BY TurnIs DEF Asked
<1>2. replies' = [replies EXCEPT ![n] = q] /\ replies[n].state = "runs" /\ replies[n].why = "none"
      /\ replies[n].pieces > 0 /\ stored' = [stored EXCEPT ![replies[n].conv] = Append(@, n)]
  BY DEF Save, Stores
<1> HIDE DEF q
<1>3. Advances(n, q) /\ Leaves(n, q)
  BY <1>1, <1>2, TurnIs DEF Advances, Leaves
<1>4. UNCHANGED client /\ convs' = convs
      /\ wire' = IF replies[n].heard THEN [wire EXCEPT ![n] = @ \o <<"done">>] ELSE wire
  BY DEF Save, Sends
<1>5. \A w \in Seq(Frame) : Deltas(w \o <<"done">>) + replies[n].pieces = Deltas(w) + q.pieces
  BY <1>1, DeltasOther DEF Frame
<1>6. replies'[n] = q
  BY <1>2, TurnIs
<1>7. /\ <<"done">> \in Seq(Frame) /\ DOMAIN <<"done">> = {1} /\ <<"done">>[1] = "done"
      /\ Says("done", n)'
  BY <1>1, <1>6 DEF Frame, Says, Kept
<1> QED
  BY <1>1, <1>3, <1>4, <1>5, <1>7, SendKeeps

LEMMA RunEndKeeps == ASSUME ExtConstants, ExtInv, NEW n \in DOMAIN replies, RunEnd(n) PROVE ExtInv'
<1> DEFINE q == [replies[n] EXCEPT !.state = "over", !.why = "saved"]
<1>1. /\ q \in Asked /\ q.conv = replies[n].conv /\ q.heard = replies[n].heard
      /\ q.state = "over" /\ q.why = "saved" /\ q.pieces = replies[n].pieces
  BY TurnIs DEF Asked
<1>2. replies' = [replies EXCEPT ![n] = q] /\ replies[n].state = "saved" /\ stored' = stored
  <2>1. replies' = [replies EXCEPT ![n].state = "over", ![n].why = "saved"]
    BY DEF RunEnd
  <2> QED
    BY <2>1, TurnIs DEF RunEnd
<1> HIDE DEF q
<1>3. Advances(n, q) /\ Leaves(n, q)
  BY <1>1, <1>2, TurnIs DEF Advances, Leaves
<1>4. UNCHANGED client /\ convs' = convs
      /\ wire' = IF replies[n].heard THEN [wire EXCEPT ![n] = @ \o <<"saved">>] ELSE wire
  BY DEF RunEnd, Sends
<1>5. \A w \in Seq(Frame) : Deltas(w \o <<"saved">>) + replies[n].pieces = Deltas(w) + q.pieces
  BY <1>1, DeltasOther DEF Frame
<1>6. replies'[n] = q
  BY <1>2, TurnIs
<1>7. /\ <<"saved">> \in Seq(Frame) /\ DOMAIN <<"saved">> = {1} /\ <<"saved">>[1] = "saved"
      /\ Says("saved", n)'
  BY <1>1, <1>6 DEF Frame, Says, Kept
<1> QED
  BY <1>1, <1>3, <1>4, <1>5, <1>7, SendKeeps

LEMMA StoppedKeeps == ASSUME ExtConstants, ExtInv, NEW n \in DOMAIN replies, Stopped(n) PROVE ExtInv'
<1> DEFINE q == [replies[n] EXCEPT !.state = "over"]
<1>1. /\ q \in Asked /\ q.conv = replies[n].conv /\ q.heard = replies[n].heard
      /\ q.state = "over" /\ q.why = replies[n].why /\ q.pieces = replies[n].pieces
  BY TurnIs DEF Asked
<1>2. replies' = [replies EXCEPT ![n] = q] /\ replies[n].state = "runs" /\ replies[n].why \in {"user", "disconnect"}
      /\ stored' = [stored EXCEPT ![replies[n].conv] = Append(@, n)]
  BY DEF Stopped, Stores
<1> HIDE DEF q
<1>3. Advances(n, q) /\ Leaves(n, q)
  BY <1>1, <1>2, TurnIs DEF Advances, Leaves
<1>4. UNCHANGED client /\ convs' = convs
      /\ wire' = IF replies[n].heard THEN [wire EXCEPT ![n] = @ \o <<"stopped">>] ELSE wire
  BY DEF Stopped, Sends
<1>5. \A w \in Seq(Frame) : Deltas(w \o <<"stopped">>) + replies[n].pieces = Deltas(w) + q.pieces
  BY <1>1, DeltasOther DEF Frame
<1>6. replies'[n] = q
  BY <1>2, TurnIs
<1>7. CASE replies[n].heard
  <2>1. /\ <<"stopped">> \in Seq(Frame) /\ DOMAIN <<"stopped">> = {1} /\ <<"stopped">>[1] = "stopped"
        /\ Says("stopped", n)'
    BY <1>1, <1>2, <1>6, <1>7, TurnIs DEF Frame, Says, Kept
  <2> QED
    BY <1>1, <1>3, <1>4, <1>5, <2>1, SendKeeps
<1>8. CASE ~replies[n].heard
  <2>1. wire' = wire /\ wire \in Seq(Seq(Frame))
    BY <1>4, <1>8 DEF ExtInv, ExtTypeInv
  <2>2. PICK x : x = wire'[n]
    OBVIOUS
  <2> QED
    BY <1>1, <1>3, <1>4, <1>8, <2>1, <2>2, MoveKeeps
<1> QED
  BY <1>7, <1>8

LEMMA BrokeKeeps == ASSUME ExtConstants, ExtInv, NEW n \in DOMAIN replies, Broke(n) PROVE ExtInv'
<1> DEFINE q == [replies[n] EXCEPT !.state = "over", !.why = "failed"]
           fs == <<"failed", "error">>
<1>1. /\ q \in Asked /\ q.conv = replies[n].conv /\ q.heard = replies[n].heard
      /\ q.state = "over" /\ q.why = "failed" /\ q.pieces = replies[n].pieces
  BY TurnIs DEF Asked
<1>2. replies' = [replies EXCEPT ![n] = q] /\ replies[n].state = "runs"
      /\ stored' = [stored EXCEPT ![replies[n].conv] = Append(@, n)]
  <2>1. replies' = [replies EXCEPT ![n].state = "over", ![n].why = "failed"]
    BY DEF Broke
  <2> QED
    BY <2>1, TurnIs DEF Broke, Stores
<1> HIDE DEF q
<1>3. Advances(n, q) /\ Leaves(n, q)
  BY <1>1, <1>2, TurnIs DEF Advances, Leaves
<1>4. UNCHANGED client /\ convs' = convs
      /\ wire' = IF replies[n].heard THEN [wire EXCEPT ![n] = @ \o fs] ELSE wire
  BY DEF Broke, Sends
<1>5. \A w \in Seq(Frame) : Deltas(w \o fs) + replies[n].pieces = Deltas(w) + q.pieces
  BY <1>1, DeltasOfFailure
<1>6. replies'[n] = q
  BY <1>2, TurnIs
<1>7. /\ fs \in Seq(Frame) /\ DOMAIN fs = {1, 2} /\ fs[1] = "failed" /\ fs[2] = "error"
      /\ Says("failed", n)' /\ Says("error", n)'
  BY <1>1, <1>6 DEF Frame, Says, Kept
<1> HIDE DEF fs
<1>8. /\ \A i \in DOMAIN fs : Says(fs[i], n)' /\ fs[i] # "delta"
      /\ \A j \in DOMAIN fs : fs[j] = "error" => \E i \in DOMAIN fs : i < j /\ fs[i] = "failed"
  BY <1>7
<1> QED
  BY <1>1, <1>3, <1>4, <1>5, <1>7, <1>8, SendKeeps

LEMMA UserStopsKeeps == ASSUME ExtConstants, ExtInv, NEW n \in DOMAIN replies, UserStops(n) PROVE ExtInv'
<1> DEFINE q == [replies[n] EXCEPT !.why = "user"]
<1>1. /\ q \in Asked /\ q.conv = replies[n].conv /\ q.heard = replies[n].heard
      /\ q.state = replies[n].state /\ q.why = "user" /\ q.pieces = replies[n].pieces
  BY TurnIs DEF Asked
<1>2. replies' = [replies EXCEPT ![n] = q] /\ replies[n].state = "runs" /\ stored' = stored
      /\ replies[n].why = "none" /\ wire' = wire /\ UNCHANGED client /\ convs' = convs
  BY DEF UserStops
<1> HIDE DEF q
<1>3. Advances(n, q) /\ Leaves(n, q)
  BY <1>1, <1>2, TurnIs DEF Advances, Leaves
<1>4. PICK w : w = wire'[n]
  OBVIOUS
<1>5. replies[n].heard => WireOf(n, w)'
  <2> SUFFICES ASSUME replies[n].heard PROVE WireOf(n, w)'
    OBVIOUS
  <2>1. call.pc = "read" /\ n = call.turn /\ WireOf(n, w) /\ call' = call
    BY <1>2, <1>4 DEF ExtInv, TurnInv, WireInv, client
  <2>2. replies'[n] = q
    BY <1>2, TurnIs
  <2>3. \A f : Says(f, n) => Says(f, n)'
    BY <1>1, <1>2, <2>2 DEF Says, Kept
  <2> QED
    BY <1>1, <2>1, <2>2, <2>3 DEF WireOf
<1>6. wire' \in Seq(Seq(Frame)) /\ Len(wire') = Len(wire)
  BY <1>2 DEF ExtInv, ExtTypeInv
<1> QED
  BY <1>1, <1>2, <1>3, <1>4, <1>5, <1>6, MoveKeeps

\* Whatever is stopped, lost or fails, a caller from outside is told what became of the
\* turn asked for, gets the whole text of that turn as its answer, and is refused for
\* the session's sake only when it did not log in again (scripts/rw-jsonrpc.mjs,
\* scripts/rw-mcp-server.mjs).
THEOREM OutsideIsSafe == ASSUME ExtConstants PROVE ExtSpec => []OutsideSafe
<1>1. ExtInit => ExtInv
  BY ExtStarts
<1>2. ExtInv /\ [ExtNext]_extVars => ExtInv'
  <2> SUFFICES ASSUME ExtInv, [ExtNext]_extVars PROVE ExtInv'
    OBVIOUS
  <2>1. CASE UNCHANGED extVars
    BY <2>1 DEF extVars, ExtInv, ExtTypeInv, CallInv, TurnInv, WireInv, WireOf, BackInv, AnswerInv,
                ToldOf, Says, Kept, Rows, Spoilt, LastIs
  <2>2. CASE Begin \/ Make \/ Chat \/ Read \/ Timeout \/ Back \/ Expire
    BY <2>2, BeginKeeps, MakeKeeps, ChatKeeps, ReadKeeps, TimeoutKeeps, BackKeeps, ExpireKeeps
  <2>3. CASE \E n \in DOMAIN replies :
               Piece(n) \/ Save(n) \/ RunEnd(n) \/ Stopped(n) \/ Broke(n) \/ UserStops(n)
    BY <2>3, PieceKeeps, SaveKeeps, RunEndKeeps, StoppedKeeps, BrokeKeeps, UserStopsKeeps
  <2> QED
    BY <2>1, <2>2, <2>3 DEF ExtNext
<1>3. ExtInv => OutsideSafe
  <2> SUFFICES ASSUME ExtInv PROVE OutsideSafe
    OBVIOUS
  <2>1. ToldOf(answer) /\ replies \in Seq(Asked)
    BY DEF ExtInv, AnswerInv, ExtTypeInv
  <2>2. StatusIsTrue
    <3>1. answer.status \in {"saved", "unknown"} =>
            /\ replies[answer.turn].state \in {"saved", "over"}
            /\ answer.turn \in Range(stored[replies[answer.turn].conv])
      BY <2>1 DEF ToldOf, Kept, Rows, ExtInv, TurnInv
    <3> QED
      BY <2>1, <3>1 DEF StatusIsTrue, ToldOf
  <2>3. ContentIsOwn
    BY <2>1 DEF ContentIsOwn, ToldOf, Spoilt
  <2>4. RefusedOnlyStale
    BY <2>1 DEF RefusedOnlyStale, ToldOf
  <2> QED
    BY <2>2, <2>3, <2>4 DEF OutsideSafe
<1> QED
  BY <1>1, <1>2, <1>3, PTL DEF ExtSpec
=============================================================================
