---------------------------- MODULE HostProcess ------------------------------
(***************************************************************************)
(* What the process of the server does to its host: it probes for a        *)
(* sandbox (server/sandbox/), runs the commands of the agent inside one    *)
(* (server/exec/local.js), keeps track of those that run in the background *)
(* (server/tools/index.js) and restarts itself (server/restart.js).        *)
(* Probes are processes too: two of them use the same files of the host.   *)
(***************************************************************************)
EXTENDS Naturals, Sequences, FiniteSets

CONSTANTS
  Chain,         \* the sandbox runners of the platform, the preferred one first
  Hosts,         \* the hosts: what its runners do, strict or not, probed on load
  None,
  Jobs,          \* the commands run in the background, by their process
  Turns, Chats,  \* turns of the agent, those of POST /api/chat among them
  MaxProbes,     \* bound on probes of one process
  MaxCommands,   \* bound on commands
  MaxKills,      \* bound on kills
  MaxStops,      \* bound on ends of the process
  MaxTimeouts    \* bound on probes that time out and statements that fail

VARIABLES
  host,          \* the host and the environment
  up,            \* "down", "loaded" (sandbox/), "guarding", "up", "refused"
  probes,        \* the probes of this process
  inFlight,      \* probe-state.js: the probe the next one would wait for
  cache,         \* probe-state.js: the last verdict
  inside,        \* the file a probe writes to the workspace is there
  outside,       \* the file it tries to write to / is there
  ledger,        \* this process has told of a command not confined; its lines
  ran,           \* how the last command was run
  disturbed,     \* history: two probes at one time, or one timed out
  jobs,          \* the background commands
  turns,         \* the turns that run
  restart,       \* the request, the timer, the commands given
  counts         \* commands, kills, ends, timeouts so far

sandboxVars == <<probes, inFlight, cache, inside, outside, ledger, ran, disturbed>>
hostVars == <<host, up, sandboxVars, jobs, turns, restart, counts>>

Untried == [at |-> "none", next |-> 1, found |-> None, guard |-> FALSE]
NotRun == [how |-> "none", runner |-> None]
NoJob == [process |-> "none", memory |-> "none", row |-> "none", saving |-> FALSE,
          heard |-> FALSE, early |-> FALSE, writes |-> {}]
NoRestart == [asked |-> None, scheduled |-> FALSE, timer |-> None, given |-> 0, joined |-> FALSE]

HostInit ==
  /\ host \in Hosts /\ up = "down"
  /\ probes = [k \in 1..MaxProbes |-> Untried] /\ inFlight = 0 /\ cache = None
  /\ inside = FALSE /\ outside = FALSE /\ ledger = [told |-> FALSE, lines |-> 0]
  /\ ran = NotRun /\ disturbed = FALSE
  /\ jobs = [j \in Jobs |-> NoJob] /\ turns = {} /\ restart = NoRestart
  /\ counts = [commands |-> 0, kills |-> 0, stops |-> 0, timeouts |-> 0]

Count(what, bound) == counts[what] < bound /\ counts' = [counts EXCEPT ![what] = @ + 1]
-----------------------------------------------------------------------------
(* probe-state.js, backends/index.js: the probes                           *)

Running == {k \in DOMAIN probes : probes[k].at \notin {"none", "over"}}
Unused == {k \in DOMAIN probes : probes[k].at = "none"}

\* probe: a forced one starts beside one that is under way, whose place it takes.
Probe(guard) ==
  \E k \in Unused :
    /\ \A l \in Unused : k <= l
    /\ probes' = [probes EXCEPT ![k] = [Untried EXCEPT !.at = "next", !.guard = guard]]
    /\ inFlight' = k /\ disturbed' = (disturbed \/ Running # {})

\* The module of the sandbox is loaded, for a command or for the guard.
Load ==
  /\ up = "down" /\ up' = "loaded"
  /\ IF host.atLoad THEN Probe(FALSE) ELSE UNCHANGED <<probes, inFlight, disturbed>>
  /\ UNCHANGED <<host, cache, inside, outside, ledger, ran, jobs, turns, restart, counts>>
\* guard: probes anew, whatever is known.
Guard ==
  /\ up = "loaded" /\ up' = "guarding" /\ Probe(TRUE)
  /\ UNCHANGED <<host, cache, inside, outside, ledger, ran, jobs, turns, restart, counts>>

\* probeCandidates: the next runner of the chain, with the first that passed.
OnTo(p, found) ==
  [p EXCEPT !.next = @ + 1, !.at = IF p.next = Len(Chain) THEN "tried" ELSE "next",
            !.found = IF @ = None THEN found ELSE @]
Kind(p) == host.kind[Chain[p.next]]

\* PROBE_SCRIPT inside the runner, if it is there and starts: a file in the
\* workspace is written ...
TryRunner(k) ==
  /\ probes[k].at = "next"
  /\ IF Kind(probes[k]) = "broken"
     THEN probes' = [probes EXCEPT ![k] = OnTo(probes[k], None)] /\ UNCHANGED inside
     ELSE probes' = [probes EXCEPT ![k].at = "written"] /\ inside' = TRUE
  /\ UNCHANGED <<host, up, inFlight, cache, outside, ledger, ran, disturbed, jobs, turns,
                 restart, counts>>
\* ... and must be there, and one outside must not be writable; the first is removed.
CheckRunner(k) ==
  LET p == probes[k] IN
  /\ p.at = "written" /\ inside' = FALSE
  /\ outside' = (outside \/ (inside /\ Kind(p) \in {"leaks", "lies"}))
  /\ probes' = [probes EXCEPT ![k] = IF inside /\ Kind(p) # "leaks"
                                     THEN [p EXCEPT !.at = "passed"] ELSE OnTo(p, None)]
  /\ UNCHANGED <<host, up, inFlight, cache, ledger, ran, disturbed, jobs, turns, restart, counts>>
\* Mutant: the host is looked at for the first runner only.
CrossCheck_First(p) == IF p.next = 1 /\ outside THEN None ELSE Chain[p.next]
\* hostCrossCheck: the file outside is looked for on the host, for each runner.
CrossCheck(p) == IF outside THEN None ELSE Chain[p.next]
LookAtHost(k) ==
  /\ probes[k].at = "passed"
  /\ probes' = [probes EXCEPT ![k] = OnTo(probes[k], CrossCheck(probes[k]))]
  /\ UNCHANGED <<host, up, inFlight, cache, inside, outside, ledger, ran, disturbed, jobs,
                 turns, restart, counts>>
ProbeTimesOut(k) ==
  /\ probes[k].at = "written" /\ Count("timeouts", MaxTimeouts)
  /\ probes' = [probes EXCEPT ![k] = OnTo(probes[k], None)] /\ disturbed' = TRUE
  /\ UNCHANGED <<host, up, inFlight, cache, inside, outside, ledger, ran, jobs, turns, restart>>

\* The verdict; startupGuard refuses to go on without a runner, or tells of it.
EndProbe(k) ==
  /\ probes[k].at = "tried"
  /\ probes' = [probes EXCEPT ![k].at = "over"]
  /\ cache' = [runner |-> probes[k].found] /\ inFlight' = 0
  /\ IF ~probes[k].guard THEN UNCHANGED <<up, ledger>>
     ELSE IF probes[k].found # None THEN up' = "up" /\ UNCHANGED ledger
     ELSE IF host.strict THEN up' = "refused" /\ UNCHANGED ledger
     ELSE up' = "up" /\ ledger' = [ledger EXCEPT !.lines = @ + 1]
  /\ UNCHANGED <<host, inside, outside, ran, disturbed, jobs, turns, restart, counts>>
-----------------------------------------------------------------------------
(* confine and confinedArgv: one command                                   *)

\* auditDegradeOnce: one line in the life of a process.
AuditedOnce == IF ledger.told THEN ledger ELSE [told |-> TRUE, lines |-> ledger.lines + 1]
\* unconfined: refused where the sandbox is required; else told of, once.
Bare ==
  IF host.strict THEN ran' = [how |-> "refused", runner |-> None] /\ UNCHANGED ledger
  ELSE ran' = [how |-> "bare", runner |-> None] /\ ledger' = AuditedOnce
\* A full session is not confined.  Without a verdict the command does not wait
\* for one, and starts a probe if none is under way.
Confine(full) ==
  CASE full -> ran' = [how |-> "full", runner |-> None]
               /\ UNCHANGED <<probes, inFlight, disturbed, ledger>>
    [] ~full /\ cache # None /\ cache.runner # None ->
         ran' = [how |-> "confined", runner |-> cache.runner]
         /\ UNCHANGED <<probes, inFlight, disturbed, ledger>>
    [] ~full /\ cache # None /\ cache.runner = None ->
         Bare /\ UNCHANGED <<probes, inFlight, disturbed>>
    [] OTHER -> /\ Bare
                /\ IF inFlight # 0 THEN UNCHANGED <<probes, inFlight, disturbed>> ELSE Probe(FALSE)

RunCommand ==
  /\ up \in {"loaded", "guarding", "up"} /\ Count("commands", MaxCommands)
  /\ \E full \in BOOLEAN : Confine(full)
  /\ UNCHANGED <<host, up, cache, inside, outside, jobs, turns, restart>>
-----------------------------------------------------------------------------
(* run_long_task, kill_process, job_list                                   *)

\* pruneJobs drops some of those that have exited, by their age and number.
Prunable == {i \in Jobs : jobs[i].memory = "exited"}
\* The process is started, its row is being written, and its end is not listened
\* for before that is done.
RunLongTask(j) ==
  /\ up = "up" /\ jobs[j].process = "none" /\ \E full \in BOOLEAN : Confine(full)
  /\ \E old \in SUBSET Prunable :
       jobs' = [i \in Jobs |->
                  IF i = j /\ ran'.how # "refused"
                  THEN [NoJob EXCEPT !.process = "alive", !.memory = "running", !.saving = TRUE]
                  ELSE IF i \in old THEN [jobs[i] EXCEPT !.memory = "none"] ELSE jobs[i]]
  /\ UNCHANGED <<host, up, cache, inside, outside, turns, restart, counts>>
\* jobDbUpsert, which may fail; child.on('exit').
JobSaved(j) ==
  /\ jobs[j].saving
  /\ \/ jobs' = [jobs EXCEPT ![j].saving = FALSE, ![j].row = "running",
                             ![j].heard = jobs[j].process = "alive"] /\ UNCHANGED counts
     \/ /\ Count("timeouts", MaxTimeouts)
        /\ jobs' = [jobs EXCEPT ![j].saving = FALSE, ![j].heard = jobs[j].process = "alive"]
  /\ UNCHANGED <<host, up, sandboxVars, turns, restart>>
Ended(r) ==
  IF r.heard THEN [r EXCEPT !.process = "dead", !.memory = IF @ = "none" THEN @ ELSE "exited",
                            !.writes = @ \cup {"exited"}]
  ELSE [r EXCEPT !.process = "dead", !.early = r.saving]
JobEnds(j) ==
  /\ jobs[j].process = "alive" /\ jobs' = [jobs EXCEPT ![j] = Ended(jobs[j])]
  /\ UNCHANGED <<host, up, sandboxVars, turns, restart, counts>>
\* jobDbSetStatus is not waited for: two of them may arrive in either order.
WriteStatus(j) ==
  /\ \E status \in jobs[j].writes :
       jobs' = [jobs EXCEPT ![j].writes = @ \ {status},
                            ![j].row = IF @ = "none" THEN @ ELSE status]
  /\ UNCHANGED <<host, up, sandboxVars, turns, restart, counts>>
\* killTree: a signal, which the process may ignore, or the news that it is gone.
Kill(j) ==
  /\ up = "up" /\ jobs[j].process # "none" /\ Count("kills", MaxKills)
  /\ jobs' = [jobs EXCEPT ![j].writes =
                @ \cup {IF jobs[j].process = "alive" THEN "killed" ELSE "gone"}]
  /\ UNCHANGED <<host, up, sandboxVars, turns, restart>>
-----------------------------------------------------------------------------
(* reload_platform, maybeSelfRestart                                       *)

\* A turn is not named like the one a request or the timer stands for.
BeginTurn(t) ==
  /\ up = "up" /\ t \notin turns \cup {restart.asked, restart.timer}
  /\ turns' = turns \cup {t}
  /\ restart' = [restart EXCEPT !.joined = @ \/ {restart.asked, restart.timer} # {None}]
  /\ UNCHANGED <<host, up, sandboxVars, jobs, counts>>
\* Refused while another turn runs.
AskReload(t) ==
  /\ turns = {t}
  /\ restart' = [restart EXCEPT !.asked = t, !.joined = @ /\ restart.timer # None]
  /\ UNCHANGED <<host, up, sandboxVars, jobs, turns, counts>>
\* Mutant: nothing remembers that a restart is under way.
Scheduled_Again(r) == [r EXCEPT !.asked = None, !.timer = r.asked]
\* takeRestart: the request is taken at the end of a chat, whoever made it, and
\* dropped if one was scheduled before.
Scheduled(r) ==
  IF r.scheduled THEN [r EXCEPT !.asked = None]
  ELSE [r EXCEPT !.asked = None, !.scheduled = TRUE, !.timer = r.asked]
EndTurn(t) ==
  /\ t \in turns /\ turns' = turns \ {t}
  /\ restart' = IF t \in Chats /\ restart.asked # None THEN Scheduled(restart) ELSE restart
  /\ UNCHANGED <<host, up, sandboxVars, jobs, counts>>
\* Two seconds later: the command, which may fail.
GiveRestart ==
  /\ restart.timer # None
  /\ restart' = [restart EXCEPT !.timer = None, !.given = @ + 1]
  /\ UNCHANGED <<host, up, sandboxVars, jobs, turns, counts>>

\* The process ends, by that command or otherwise: the files stay, and so do
\* some of the background commands, which nobody listens to any more.
Stop ==
  /\ up # "down" /\ Count("stops", MaxStops) /\ up' = "down"
  /\ probes' = [k \in DOMAIN probes |-> Untried] /\ inFlight' = 0 /\ cache' = None
  /\ disturbed' = (disturbed \/ Running # {})
  /\ ledger' = [told |-> FALSE, lines |-> 0] /\ ran' = NotRun
  /\ \E ended \in SUBSET Jobs :
       jobs' = [j \in Jobs |-> [jobs[j] EXCEPT
                  !.process = IF j \in ended /\ @ = "alive" THEN "dead" ELSE @,
                  !.memory = "none", !.saving = FALSE, !.heard = FALSE, !.writes = {}]]
  /\ turns' = {} /\ restart' = NoRestart
  /\ UNCHANGED <<host, inside, outside>>
\* The start marks some of the rows that say "running": a day old, no output.
MarkStale(j) ==
  /\ up = "down" /\ jobs[j].row = "running"
  /\ jobs' = [jobs EXCEPT ![j].row = "stale"]
  /\ UNCHANGED <<host, up, sandboxVars, turns, restart, counts>>
-----------------------------------------------------------------------------
HostNext ==
  \/ Load \/ Guard \/ RunCommand \/ GiveRestart \/ Stop
  \/ \E k \in DOMAIN probes :
       TryRunner(k) \/ CheckRunner(k) \/ LookAtHost(k) \/ ProbeTimesOut(k) \/ EndProbe(k)
  \/ \E j \in Jobs : RunLongTask(j) \/ JobSaved(j) \/ JobEnds(j) \/ WriteStatus(j) \/ Kill(j)
                     \/ MarkStale(j)
  \/ \E t \in Turns : BeginTurn(t) \/ AskReload(t) \/ EndTurn(t)
HostSpec == HostInit /\ [][HostNext]_hostVars

HostTypeOK ==
  /\ host \in Hosts /\ up \in {"down", "loaded", "guarding", "up", "refused"}
  /\ inFlight \in 0..MaxProbes /\ turns \subseteq Turns
  /\ ran.how \in {"none", "full", "bare", "confined", "refused"}
  /\ restart.asked \in Turns \cup {None} /\ restart.timer \in Turns \cup {None}
  /\ \A j \in Jobs :
       /\ jobs[j].memory \in {"none", "running", "exited"}
       /\ jobs[j].row \in {"none", "running", "exited", "killed", "gone", "stale"}
-----------------------------------------------------------------------------
Isolating == {c \in DOMAIN host.kind : host.kind[c] = "isolates"}

\* A command is run as confined only by a runner that isolates
\* (backends/index.js:98-106): a runner that lets a probe write outside is never
\* taken, nor one whose probe only says it could not.
NeverFalselyConfined == ran.how = "confined" => ran.runner \in Isolating

\* Where the sandbox is required no command runs without, but in a full session,
\* and the server serves only if there is one (sandbox/index.js:118).
StrictNeverBare == host.strict => ran.how # "bare" /\ (up = "up" => Isolating # {})

\* A command that ran without is told of in the ledger, at most once and once
\* more for the start (degrade.js:80-86).
BareIsTold ==
  /\ ran.how = "bare" => ledger.told
  /\ ledger.lines = (IF ledger.told THEN 1 ELSE 0) \/ (ledger.lines = (IF ledger.told THEN 2 ELSE 1) /\ up = "up")

\* A probe that finds no runner was right, or met another one, timed out, or met
\* what a runner that does not isolate had left in / (linux.js:156-163).
NotFoundIsRight ==
  cache # None /\ cache.runner = None => disturbed \/ outside \/ Isolating = {}

\* A background command is listed as running after its end only if it ended while
\* its row was written, before anyone listened, or a restart came in between, or
\* the row is about to change (tools/index.js:602-606).
RunningIsTrue ==
  \A j \in Jobs : jobs[j].process = "dead" =>
    /\ jobs[j].memory = "running" => jobs[j].early
    /\ jobs[j].row = "running" /\ jobs[j].memory # "none" => jobs[j].early \/ jobs[j].writes # {}
\* One that is listed as ended has ended; one that was killed may live on.
EndedIsTrue ==
  \A j \in Jobs : jobs[j].memory = "exited" \/ jobs[j].row \in {"exited", "gone"}
                    => jobs[j].process = "dead"

\* The restart is ordered once in the life of a process (index.js:84-88), and the
\* turn that asked has ended by then, unless another one began meanwhile.
RestartOnce ==
  /\ restart.given + (IF restart.timer = None THEN 0 ELSE 1) <= 1
  /\ restart.timer \in turns => restart.joined

\* What every state of the process satisfies: the parts above.
ProcessSafe ==
  /\ HostTypeOK /\ NeverFalselyConfined /\ StrictNeverBare /\ BareIsTold /\ NotFoundIsRight
  /\ RunningIsTrue /\ EndedIsTrue /\ RestartOnce
=============================================================================
