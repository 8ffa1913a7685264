------------------------------ MODULE SubAgents ------------------------------
(***************************************************************************)
(* Sub-agents of a turn (server/subagent.js, and the tools subagent,       *)
(* subagent_fork, subagent_fanout, subagent_join and subagent_output of    *)
(* server/tools/index.js): a record per sub-agent in the map subs, a run   *)
(* of the agent loop behind it, callers that wait for it or ask later.     *)
(* Agent 0 is the turn; a unit of cost is what one round of a run costs.   *)
(***************************************************************************)
EXTENDS Integers, FiniteSets

CONSTANTS
  SubTool,     \* tools of the account
  MaxSubs,     \* bound: sub-agents spawned
  MaxDepth,    \* settings.subagent_max_depth
  SubMax,      \* finished records kept
  SubList,     \* whitelists a caller may give, {} for none
  SubQuota,    \* quotas a caller may give, 0 for none
  MaxSpent     \* bound on the rounds of a run

ASSUME SubAssumption == SubQuota \subseteq Nat /\ MaxSubs \in Nat

VARIABLES
  sub,      \* the record and the context of each sub-agent spawned so far
  used,     \* tools each sub-agent has executed
  waitsFor, \* the agents whose tool call is blocked in waitSub, and for whom
  told,     \* what the caller was told about each sub-agent
  subStop   \* the signal they share with the turn is aborted

subVars == <<sub, used, waitsFor, told, subStop>>

Ids == DOMAIN sub
Agents == Ids \cup {0}
Running == {i \in Ids : sub[i].status = "running"}
Finished == {i \in Ids : sub[i].status # "running"}
Kept == {i \in Ids : ~sub[i].pruned}

\* narrowEnabled and the whitelist: what a child is given is cut out of what
\* its parent has; no whitelist is the parent's face.
DepthOf(i) == IF i = 0 THEN 0 ELSE sub[i].depth
FaceOf(i) == IF i = 0 THEN SubTool ELSE sub[i].face
\* Mutant: no whitelist means every tool of the account.
Narrowed_NoList(i, list) == IF list = {} THEN SubTool ELSE FaceOf(i) \cap list
Narrowed(i, list) == IF list = {} THEN FaceOf(i) ELSE FaceOf(i) \cap list
\* ctx.noSubagent.
MaySpawn(i) == DepthOf(i) < MaxDepth
Alive(i) == IF i = 0 THEN TRUE ELSE sub[i].status = "running"
Free(i) == Alive(i) /\ i \notin DOMAIN waitsFor

SubInit ==
  /\ sub = <<>> /\ used = <<>>
  /\ waitsFor = <<>> /\ told = <<>> /\ subStop = FALSE

\* Mutant: the limit counts and takes running records too.
Prunable_Any == Kept
Prunable == Finished \cap Kept
\* pruneSubs: records behind their time to live, then the oldest finished ones
\* over the limit; a running one is never taken.
Pruned(old) ==
  LET expired == Finished \cap old
      rest    == Prunable \ expired
      over    == {i \in rest : Cardinality({j \in rest : j > i}) >= SubMax}
  IN [i \in Ids |-> [sub[i] EXCEPT !.pruned = @ \/ i \in expired \cup over]]

\* spawnSubagent, called by a tool of agent p; a synchronous call waits.  (The
\* limit of eight at a time is asked for by subagent and subagent_fanout, not
\* by subagent_fork: it is no condition here.)
Spawn(p, list, quota, sync, old) ==
  LET id == Cardinality(Ids) + 1
  IN /\ Free(p) /\ MaySpawn(p) /\ Cardinality(Ids) < MaxSubs
     /\ sub' = [i \in Ids \cup {id} |->
                  IF i # id THEN Pruned(old)[i]
                  ELSE [parent |-> p, depth |-> DepthOf(p) + 1,
                        face |-> Narrowed(p, list), list |-> list,
                        quota |-> quota, spent |-> 0, status |-> "running",
                        why |-> "none", refund |-> "none", pruned |-> FALSE]]
     /\ used' = [i \in Ids \cup {id} |-> IF i = id THEN {} ELSE used[i]]
     /\ waitsFor' = IF sync THEN [i \in DOMAIN waitsFor \cup {p} |->
                                    IF i = p THEN id ELSE waitsFor[i]]
                            ELSE waitsFor
     /\ UNCHANGED <<told, subStop>>

\* A round of agent i: a call is paid, and a tool it sees may be executed
\* (the whitelist at the door of execTool, the enabled set in a hook).
MayUse(i, t) ==
  t \in sub[i].face /\ (sub[i].list = {} \/ t \in sub[i].list)
\* Mutant: the quota is looked at one round late.
Affords_Late(i) == sub[i].quota > 0 => sub[i].spent <= sub[i].quota + 1
Affords(i) == sub[i].quota > 0 => sub[i].spent <= sub[i].quota
WorkRound(i, t) ==
  /\ Free(i) /\ MayUse(i, t) /\ sub[i].spent < MaxSpent /\ Affords(i)
  /\ used' = [used EXCEPT ![i] = @ \cup {t}]
  /\ sub' = [sub EXCEPT ![i].spent = @ + 1]
  /\ UNCHANGED <<waitsFor, told, subStop>>

\* Mutant: a stopped run gets a status that no reader knows.
Status_Stopped(how) == IF how \in {"guard", "thrown"} THEN "error"
                       ELSE IF how = "stopped" THEN "stopped" ELSE "done"
Status(how) == IF how \in {"guard", "thrown"} THEN "error" ELSE "done"
\* settle: a run that was suspended by a guard is a failure, one that threw
\* is charged nothing, and any other return is done.
Settle(i, how) ==
  /\ Free(i) /\ i # 0
  /\ how = "stopped" => subStop
  /\ how = "guard" => sub[i].quota > 0 /\ sub[i].spent > sub[i].quota
  /\ sub' = [sub EXCEPT
       ![i].status = Status(how),
       ![i].why = how,
       ![i].refund = IF sub[i].quota = 0 THEN "none"
                     ELSE IF how = "thrown" THEN sub[i].quota
                     ELSE sub[i].quota - sub[i].spent]
  /\ UNCHANGED <<used, waitsFor, told, subStop>>

\* Mutant: only a run that still goes on is degraded.
Outcome_Final(i) ==
  [status |-> sub[i].status, degraded |-> sub[i].status = "running",
   refund |-> sub[i].refund]
\* subagentOutcome.
Outcome(i) ==
  [status |-> sub[i].status, degraded |-> sub[i].status # "done",
   refund |-> sub[i].refund]
\* waitSub returns: the record is final, or 900 seconds have passed.
Tell(i, what) ==
  told' = [j \in DOMAIN told \cup {i} |-> IF j = i THEN what ELSE told[j]]
Unblock(p) ==
  waitsFor' = [i \in DOMAIN waitsFor \ {p} |-> waitsFor[i]]
WaitOver(p) ==
  /\ p \in DOMAIN waitsFor
  /\ Tell(waitsFor[p], Outcome(waitsFor[p])) /\ Unblock(p)
  /\ UNCHANGED <<sub, used, subStop>>
\* subagent_join or subagent_output of a record that is known and final.
Join(p, i) ==
  /\ Free(p) /\ i \in Finished \cap Kept
  /\ Tell(i, Outcome(i))
  /\ UNCHANGED <<sub, used, waitsFor, subStop>>
StopAll == ~subStop /\ subStop' = TRUE /\ UNCHANGED <<sub, used, waitsFor, told>>

SubStep(i) ==
  \/ \E how \in {"answer", "guard", "thrown", "stopped"} : Settle(i, how)
  \/ WaitOver(i)
SubNext ==
  \/ StopAll
  \/ \E p \in Agents, list \in SubList, quota \in SubQuota,
        sync \in BOOLEAN, old \in {{}, Finished} :
       Spawn(p, list, quota, sync, old)
  \/ \E i \in Agents : SubStep(i) \/ \E j \in Ids : Join(i, j)
  \/ \E i \in Ids, t \in SubTool : WorkRound(i, t)
SubSpec == SubInit /\ [][SubNext]_subVars
-----------------------------------------------------------------------------
SubTypeOK ==
  /\ DOMAIN used = Ids /\ DOMAIN waitsFor \subseteq Agents
  /\ DOMAIN told \subseteq Ids /\ subStop \in BOOLEAN
  /\ \A i \in Ids : /\ sub[i].parent \in 0..i - 1 /\ sub[i].spent \in Nat
                    /\ sub[i].status \in {"running", "done", "error"}

\* An agent executes only tools that every agent above it may execute
\* (subtools.js:3-9: it can only get narrower).
WithParents(A) == \A a \in A : sub[a].parent # 0 => sub[a].parent \in A
Above(i) ==
  {a \in Ids : \A A \in SUBSET Ids : i \in A /\ WithParents(A) => a \in A}
FaceNarrows ==
  \A i \in Ids : \A a \in Above(i) :
    sub[a].list = {} \/ used[i] \subseteq sub[a].list

\* What the caller was told of a sub-agent that is final is what became of it,
\* and a suspended or failed one is told as degraded (subagent.js:79-113).
ToldIsFinal ==
  \A i \in DOMAIN told :
    /\ told[i].status # "running" => told[i] = Outcome(i)
    /\ sub[i].why \in {"guard", "thrown"} /\ told[i].status # "running"
         => told[i].degraded

\* A running sub-agent is never pruned: its caller can still find it.
RunningIsKept == Running \subseteq Kept

\* A sub-agent overruns its quota by one round at most.
QuotaHolds ==
  \A i \in Ids : sub[i].quota > 0 => sub[i].spent <= sub[i].quota + 1

\* What the tree of agents keeps: the parts above.
SubsSafe ==
  SubTypeOK /\ FaceNarrows /\ ToldIsFinal /\ RunningIsKept /\ QuotaHolds
=============================================================================
