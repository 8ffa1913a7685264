----------------------------- MODULE Proposals ------------------------------
(***************************************************************************)
(* Self evaluation, the proposing half: rules that fired, candidates parsed *)
(* from documents and lines of feedback become proposals, sorted and held  *)
(* to the iron law (selfeval/propose.js, priority.js); a run with --write  *)
(* puts them into extension_demands or evo_goals (selfeval/write.js), where *)
(* people decide (the routes of the evolution board).  Neither table has a *)
(* unique key: a batch is written once by looking for its fingerprint      *)
(* first.  Texts are left out; a proposal is its source and its key.       *)
(***************************************************************************)
EXTENDS Naturals, FiniteSets, SequencesExt

CONSTANTS
  Run,        \* command lines that run selfeval-propose.mjs
  Key,        \* normalised titles
  Automated,  \* keys whose text asks the machine to act on its own
  BMAX,       \* candidates of one batch that become proposals (20)
  Missing,    \* a document that cannot be read
  MaxStarts,  \* bound: runs started
  MaxActs,    \* bound: acts of people
  MaxLines    \* bound: lines of a document

VARIABLES
  input,    \* what the batch is made of
  runs,     \* run -> where it is and what it still writes
  demands,  \* rows of extension_demands
  goals,    \* rows of evo_goals
  adminAccount,  \* the account goals are written for exists
  crossed,  \* fingerprints looked for by a run while another was about to write them
  starts, acts

propVars == <<input, runs, demands, goals, adminAccount, crossed, starts, acts>>

-----------------------------------------------------------------------------
(* Documents.  A line is an open or ticked item, a heading of a section     *)
(* that is or is not about borrowing, or a plain one.                      *)

Item(mark, key, no) == [mark |-> mark, key |-> key, rejected |-> no]
Line == {Item(m, k, b) : m \in {"open", "done"}, k \in Key, b \in BOOLEAN}
        \cup {Item(m, CHOOSE k \in Key : TRUE, FALSE) : m \in {"borrow", "other"}}

\* The same, without a look at what is there.
Add_Twice(keys, l) == IF l.rejected THEN keys ELSE Append(keys, l.key)

\* A title seen before in the same document, or that the document says no to, is dropped.
Add(keys, l) == IF l.rejected \/ Contains(keys, l.key) THEN keys ELSE Append(keys, l.key)

\* parseListDoc: the open items.
parseListDoc(doc) ==
  FoldLeft(LAMBDA keys, l : IF l.mark = "open" THEN Add(keys, l) ELSE keys, <<>>, doc)

\* parseReportDoc: the numbered items of sections about borrowing, ticked or not.
parseReportDoc(doc) ==
  FoldLeft(LAMBDA s, l :
             IF l.mark \in {"borrow", "other"} THEN [s EXCEPT !.in = l.mark = "borrow"]
             ELSE IF s.in THEN [s EXCEPT !.keys = Add(@, l)] ELSE s,
           [in |-> FALSE, keys |-> <<>>], doc).keys

\* A document that cannot be read is an error in the notes, not an empty list.
collectBenchmarkCandidates(in) ==
  IF in.doc = Missing THEN <<>>
  ELSE IF in.kind = "list" THEN parseListDoc(in.doc) ELSE parseReportDoc(in.doc)

-----------------------------------------------------------------------------
(* Proposals.                                                              *)

\* The table a source's proposals go to.
ROUTING == [selfeval |-> "goals", benchmark |-> "demands", feedback |-> "demands"]

\* toProposal: rules but R1 meet a criterion, everything else is undecided.
toProposal(src, key) ==
  [src |-> src, key |-> key, table |-> ROUTING[src],
   satisfied |-> src = "selfeval" /\ key # "R1"]

\* The seeds in the order buildProposals takes them.
Seeds(in) ==
  LET of(src, keys) == [i \in DOMAIN keys |-> toProposal(src, keys[i])]
      bench == collectBenchmarkCandidates(in)
  IN of("selfeval", in.rules)
     \o of("benchmark", SubSeq(bench, 1, IF Len(bench) < BMAX THEN Len(bench) ELSE BMAX))
     \o of("feedback", in.feedback)

\* The rank by where a proposal comes from.
rank_Source(p) == IF p.src = "feedback" THEN 0 ELSE 1

\* sortProposals: what meets a criterion first, in order of input within a rank.
rank(p) == IF p.satisfied THEN 0 ELSE 1
sortProposals(list) ==
  SelectSeq(list, LAMBDA p : rank(p) = 0) \o SelectSeq(list, LAMBDA p : rank(p) = 1)

\* checkIronLaw: a text that asks for automation is no proposal.
checkIronLaw(p) == p.key \notin Automated

buildProposals(in) ==
  LET sorted == sortProposals(Seeds(in))
  IN [proposals |-> SelectSeq(sorted, checkIronLaw),
      rejected  |-> SelectSeq(sorted, LAMBDA p : ~checkIronLaw(p)),
      notes     |-> (IF Len(collectBenchmarkCandidates(in)) > BMAX THEN {"cut"} ELSE {})
                    \cup (IF in.doc = Missing THEN {"unread"} ELSE {})]

-----------------------------------------------------------------------------
fingerprint(p) == <<p.src, p.key>>
BoardRow(p, id, status) == [id |-> id, fp |-> fingerprint(p), status |-> status, by |-> "run"]

Idle == [pc |-> "idle", todo |-> <<>>]

\* Any short document without a write, or a few that are written.
SomeInput(docs) ==
  [rules : {<<>>, <<"R1">>, <<"R1", "R2">>}, doc : docs, kind : {"list", "report"},
   feedback : {<<>>, <<CHOOSE k \in Key : TRUE>>}, write : {FALSE}]
Written ==
  {[rules |-> <<"R1", "R2">>, doc |-> <<Item("open", k, FALSE)>>, kind |-> "list",
    feedback |-> f, write |-> TRUE] :
      k \in Key, f \in {<<>>, <<CHOOSE l \in Key : TRUE, CHOOSE l \in Key : TRUE>>}}

PropInit ==
  /\ input \in SomeInput(SeqOf(Line, MaxLines) \cup {Missing}) \cup Written
  /\ runs = [r \in Run |-> Idle] /\ demands = {} /\ goals = {}
  /\ adminAccount \in (IF input.write THEN BOOLEAN ELSE {TRUE})
  /\ crossed = {} /\ starts = 0 /\ acts = 0

board == <<demands, goals, acts>>
Rows == demands \cup goals
NewId == 1 + Max({0} \cup {w.id : w \in Rows})

\* The proposal a run is at.
Current(r) == Head(runs[r].todo)
Step(r, pc) == runs' = [runs EXCEPT ![r].pc = pc]
Past(r) == runs' = [runs EXCEPT ![r] = IF Len(@.todo) = 1 THEN Idle
                                       ELSE [pc |-> "demands", todo |-> Tail(@.todo)]]

\* A dry run only prints.
StartRun(r) ==
  /\ runs[r] = Idle /\ starts < MaxStarts /\ starts' = starts + 1
  /\ LET todo == buildProposals(input).proposals
     IN runs' = [runs EXCEPT ![r] = IF input.write /\ todo # <<>>
                                    THEN [pc |-> "demands", todo |-> todo] ELSE Idle]
  /\ UNCHANGED <<input, board, adminAccount, crossed>>

\* findExisting, first query: the demands whose content has the mark.
FindDemand(r) ==
  /\ runs[r].pc = "demands"
  /\ LET fp == fingerprint(Current(r))
     IN /\ IF \E d \in demands : d.fp = fp THEN Past(r) ELSE Step(r, "goals")
        /\ crossed' = IF \E o \in Run \ {r} : /\ runs[o].pc \in {"goals", "insert"}
                                              /\ fingerprint(Current(o)) = fp
                      THEN crossed \cup {fp} ELSE crossed
  /\ UNCHANGED <<input, board, adminAccount, starts>>

\* findExisting before it knew the goals
FindGoal_DemandsOnly(r) ==
  /\ runs[r].pc = "goals"
  /\ IF Current(r).table = "goals" /\ ~adminAccount THEN Past(r) ELSE Step(r, "insert")
  /\ UNCHANGED <<input, board, adminAccount, crossed, starts>>

\* Second query: the goals.  A goal also needs an account, whose absence is told.
FindGoal(r) ==
  /\ runs[r].pc = "goals"
  /\ IF \/ \E g \in goals : g.fp = fingerprint(Current(r))
        \/ Current(r).table = "goals" /\ ~adminAccount
     THEN Past(r) ELSE Step(r, "insert")
  /\ UNCHANGED <<input, board, adminAccount, crossed, starts>>

\* The INSERT: a demand waits, a goal is active.
Insert(r) ==
  /\ runs[r].pc = "insert" /\ Past(r)
  /\ IF Current(r).table = "demands"
     THEN demands' = demands \cup {BoardRow(Current(r), NewId, "waiting")} /\ UNCHANGED goals
     ELSE goals' = goals \cup {BoardRow(Current(r), NewId, "active")} /\ UNCHANGED demands
  /\ UNCHANGED <<input, acts, adminAccount, crossed, starts>>

\* The command is stopped by hand.
StopRun(r) ==
  /\ runs[r] # Idle /\ runs' = [runs EXCEPT ![r] = Idle]
  /\ UNCHANGED <<input, board, adminAccount, crossed, starts>>

-----------------------------------------------------------------------------
(* People.                                                                 *)

Acts == acts < MaxActs /\ acts' = acts + 1 /\ input.write
        /\ UNCHANGED <<input, runs, adminAccount, crossed, starts>>

\* PATCH /api/extensions/demands/:id/status
DecideDemand(d, status) ==
  /\ Acts /\ d.status # status
  /\ demands' = (demands \ {d}) \cup {[d EXCEPT !.status = status]}
  /\ UNCHANGED goals

\* PATCH /api/evo/goals/:id: a new description loses the mark.
PatchGoal(g, descr) ==
  /\ Acts /\ UNCHANGED demands
  /\ IF descr
     THEN /\ g.fp # <<>>
          /\ goals' = (goals \ {g}) \cup {[g EXCEPT !.fp = <<>>]}
     ELSE /\ g.status = "active"
          /\ goals' = (goals \ {g}) \cup {[g EXCEPT !.status = "paused"]}

DeleteGoal(g) ==
  /\ Acts /\ goals' = goals \ {g} /\ UNCHANGED demands

\* intake_submit, or POST /api/extensions/:key/demand: a demand without a mark.
Intake ==
  /\ Acts /\ UNCHANGED goals
  /\ demands' = demands \cup {[id |-> NewId, fp |-> <<>>, status |-> "waiting", by |-> "person"]}

PropNext ==
  \/ \E r \in Run : StartRun(r) \/ FindDemand(r) \/ FindGoal(r) \/ Insert(r) \/ StopRun(r)
  \/ \E d \in demands, s \in {"waiting", "taken", "refused"} : DecideDemand(d, s)
  \/ \E g \in goals : DeleteGoal(g) \/ \E b \in BOOLEAN : PatchGoal(g, b)
  \/ Intake

PropSpec == PropInit /\ [][PropNext]_propVars

-----------------------------------------------------------------------------
\* A batch written again, in full or after it was stopped half way, and whatever
\* people decided meanwhile, leaves one row of each proposal, unless two runs
\* looked for it at the same time.
OncePerBatch ==
  \A a, b \in Rows : a.fp = b.fp /\ a.fp # <<>> => a = b \/ a.fp \in crossed

\* What a batch puts forward: nothing twice from one document, nothing that asks
\* for automation, nothing dropped without a word, and what meets a criterion
\* before what is undecided, each rank in the order it came in.
BatchInOrder ==
  LET b == buildProposals(input)
      all == b.proposals \o b.rejected
      bench == SelectSeq(all, LAMBDA p : p.src = "benchmark")
      seeds == Seeds(input)
      ord(p) == CHOOSE i \in DOMAIN seeds : seeds[i] = p
  IN starts = 0 =>
     /\ IsInjective(bench)
     /\ \A i \in DOMAIN b.proposals : b.proposals[i].key \notin Automated
     /\ ToSet(all) = ToSet(seeds) /\ Len(all) = Len(seeds)
     /\ \A i, j \in DOMAIN b.proposals :
          i < j => LET p == b.proposals[i]
                       q == b.proposals[j]
                   IN /\ q.satisfied => p.satisfied
                      /\ p.satisfied = q.satisfied => ord(p) <= ord(q)
     /\ "cut" \in b.notes <=> Len(bench) < Len(collectBenchmarkCandidates(input))
     /\ input.doc # Missing =>
          \A i \in DOMAIN input.doc :
            /\ input.doc[i].mark = "open" /\ ~input.doc[i].rejected /\ input.kind = "list"
            => Contains(collectBenchmarkCandidates(input), input.doc[i].key)

ProposeSafe == OncePerBatch /\ BatchInOrder
=============================================================================
