----------------------------- MODULE ToolBatches -----------------------------
(***************************************************************************)
(* How the tool calls of one reply run (server/toolbatch.js                *)
(* planToolBatches, server/agent.js runToolBatches, execOne, commitOne):   *)
(* calls declared safe run together in pools of at most MaxPar, any other  *)
(* call runs alone, and the results are committed in the order the model   *)
(* gave.  A call may wait for a person (an approval, ask_user); the time   *)
(* waited is taken off the run's time budget (cumWaitMs), one unit of it   *)
(* per tick of a clock that counts the time of this reply.                 *)
(***************************************************************************)
EXTENDS Integers, Sequences, FiniteSets, SequencesExt

CONSTANTS
  Name,      \* tool names
  Safe,      \* the ones declared parallelSafe
  Asks,      \* the ones that may wait for a person
  MaxBatch,  \* calls in one reply
  MaxPar,    \* settings.max_parallel_tools, 0 for one at a time
  MaxTime    \* bound on the clock

ASSUME BatchesAssumption ==
  /\ Safe \subseteq Name /\ Asks \subseteq Name
  /\ MaxBatch \in Nat /\ MaxPar \in Nat /\ MaxTime \in Nat
  \* The manifest declares no tool that asks as parallelSafe.
  /\ Asks \cap Safe = {}

VARIABLES
  called,    \* the names of the calls of the reply, in the model's order
  plan,      \* the batches still to run, each a set of indices
  state,     \* of each call: waiting to start, running, asking, done
  toolLog,   \* indices in the order they were committed
  seqOf,     \* display number of each started call, 0 before
  dispSeq,
  clock, waited

toolVars == <<called, plan, state, toolLog, seqOf, dispSeq, clock, waited>>

Indices == DOMAIN called
Par == IF MaxPar >= 1 THEN MaxPar ELSE 1

\* planToolBatches, as the loop does it: a pool of safe calls that is cut into
\* slices of Par when an exclusive call, or the end, flushes it.
Slices(pool) ==
  [k \in 1..(Len(pool) + Par - 1) \div Par |->
     SubSeq(pool, (k - 1) * Par + 1,
            IF k * Par < Len(pool) THEN k * Par ELSE Len(pool))]
\* Mutant: an exclusive call does not flush the pool before it.
PlanStep_NoFlush(acc, i, names) ==
  IF names[i] \in Safe THEN [acc EXCEPT !.pool = Append(@, i)]
                       ELSE [acc EXCEPT !.batches = Append(@, <<i>>)]
\* Mutant: every call is pooled.
PlanStep_AllSafe(acc, i, names) == [acc EXCEPT !.pool = Append(@, i)]
PlanStep(acc, i, names) ==
  IF names[i] \in Safe
  THEN [acc EXCEPT !.pool = Append(@, i)]
  ELSE [batches |-> Append(acc.batches \o Slices(acc.pool), <<i>>),
        pool |-> <<>>]
Planned(names) ==
  LET acc[k \in 0..Len(names)] ==
        IF k = 0 THEN [batches |-> <<>>, pool |-> <<>>] ELSE PlanStep(acc[k - 1], k, names)
      end == acc[Len(names)]
  IN end.batches \o Slices(end.pool)

ToolInit ==
  /\ called \in BoundedSeq(Name, MaxBatch)
  /\ plan = Planned(called)
  /\ state = [i \in DOMAIN called |-> "idle"]
  /\ toolLog = <<>> /\ seqOf = [i \in DOMAIN called |-> 0] /\ dispSeq = 0
  /\ clock = 0 /\ waited = 0

\* Mutant: the display number is read once for the batch.
Numbered_Once(batch, i) == dispSeq + 1
\* Mutant: counted from the end of the batch.
Numbered_Behind(batch, i) == dispSeq + Len(batch) + 1
\* ++dispSeq, in the order of the batch.
Numbered(batch, i) == dispSeq + CHOOSE k \in DOMAIN batch : batch[k] = i

\* execOne starts: Promise.all starts every call of the batch in order, before
\* any of them can end.
StartBatch ==
  /\ plan # <<>> /\ \A i \in Range(Head(plan)) : state[i] = "idle"
  /\ LET batch == Head(plan)
     IN /\ state' = [i \in Indices |->
                       IF i \in Range(batch) THEN "running" ELSE state[i]]
        /\ seqOf' = [i \in Indices |->
                       IF i \in Range(batch)
                       THEN Numbered(batch, i) ELSE seqOf[i]]
        /\ dispSeq' = dispSeq + Len(batch)
  /\ UNCHANGED <<called, plan, toolLog, clock, waited>>

\* __onWait("start") and __onWait("end").
Ask(i) ==
  /\ state[i] = "running" /\ called[i] \in Asks
  /\ state' = [state EXCEPT ![i] = "asking"]
  /\ UNCHANGED <<called, plan, toolLog, seqOf, dispSeq, clock, waited>>
Answered(i) ==
  /\ state[i] = "asking"
  /\ state' = [state EXCEPT ![i] = "running"]
  /\ UNCHANGED <<called, plan, toolLog, seqOf, dispSeq, clock, waited>>
Finish(i) ==
  /\ state[i] = "running"
  /\ state' = [state EXCEPT ![i] = "done"]
  /\ UNCHANGED <<called, plan, toolLog, seqOf, dispSeq, clock, waited>>

\* The batch is over: its calls are committed, in its order.
CommitBatch ==
  /\ plan # <<>> /\ \A i \in Range(Head(plan)) : state[i] = "done"
  /\ toolLog' = toolLog \o Head(plan) /\ plan' = Tail(plan)
  /\ UNCHANGED <<called, state, seqOf, dispSeq, clock, waited>>

\* Time passes; every call that asks counts it as waited.
Tick ==
  /\ clock < MaxTime /\ \E i \in Indices : state[i] \in {"running", "asking"}
  /\ clock' = clock + 1
  /\ waited' = waited + Cardinality({i \in Indices : state[i] = "asking"})
  /\ UNCHANGED <<called, plan, state, toolLog, seqOf, dispSeq>>

ToolStep == StartBatch \/ CommitBatch
            \/ \E i \in Indices : Answered(i) \/ Finish(i)
ToolNext == ToolStep \/ Tick \/ \E i \in Indices : Ask(i)

ToolSpec == ToolInit /\ [][ToolNext]_toolVars
-----------------------------------------------------------------------------
ToolTypeOK ==
  /\ called \in BoundedSeq(Name, MaxBatch)
  /\ \A k \in DOMAIN plan : plan[k] \in Seq(Indices)
  /\ state \in [Indices -> {"idle", "running", "asking", "done"}]
  /\ seqOf \in [Indices -> 0..dispSeq] /\ clock \in 0..MaxTime
  /\ toolLog \in Seq(Indices) /\ waited \in Nat

Busy == {i \in Indices : state[i] \in {"running", "asking"}}

\* A call that is not declared safe never runs beside another, and no more
\* than the pool run at a time (agent.js:366-383).
ExclusiveRunsAlone ==
  /\ Cardinality(Busy) <= Par
  /\ (\E i \in Busy : called[i] \notin Safe) => Cardinality(Busy) = 1

\* The results are committed in the model's order, each once, whatever order
\* the calls of a pool end in (agent.js:976-989).
CommitsInModelOrder ==
  /\ \A k \in DOMAIN toolLog : toolLog[k] = k
  /\ plan = <<>> => Len(toolLog) = Len(called)

\* No display number is given twice (agent.js:423).
NumbersAreUnique ==
  \A i, j \in Indices : seqOf[i] # 0 /\ seqOf[i] = seqOf[j] => i = j

\* The time taken off the budget never exceeds the time that passed: the waits
\* of one reply do not overlap, because what asks is not declared safe
\* (agent.js:426-428, tools/manifest.js).
WaitedWithinElapsed == waited <= clock

\* What the calls of one reply keep, in whatever order they end: the parts above.
BatchesSafe ==
  /\ ToolTypeOK /\ ExclusiveRunsAlone /\ CommitsInModelOrder
  /\ NumbersAreUnique /\ WaitedWithinElapsed
=============================================================================
