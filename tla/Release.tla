------------------------------ MODULE Release -------------------------------
(***************************************************************************)
(* The two gates a release goes through (scripts/release.mjs, 2.6 and 2.7): *)
(* the golden sets of the enabled shell must pass, and the metrics gate     *)
(* wants golden sets and the prefix ledger in place and a report from       *)
(* before to compare with (selfeval/regression-gate.js).  Each collection   *)
(* writes a report of its own under tmp/metrics and moves a pointer         *)
(* (scripts/metrics-report.mjs), be it of a release or started by hand.     *)
(* What the metrics say is left out but for the ledger's count: the gates   *)
(* only ask whether something was read.                                     *)
(***************************************************************************)
EXTENDS Naturals, FiniteSets

CONSTANTS
  None,        \* nothing: no report, no golden set, no pointer
  Unread,      \* the ledger could not be read
  Down,        \* the database could not be reached
  MaxReports,  \* bound: collections started
  MaxTime,     \* bound: seconds
  MaxTrouble   \* bound: reads and writes that fail, and acts of people, together

VARIABLES
  now,        \* the second
  world,      \* the commit, the golden set and how the shell does on it, the ledger
  proposals,  \* tmp/metrics/proposals.json: none, or with or without a baseline
  files,      \* tmp/metrics: name -> report
  pointer,    \* tmp/metrics/latest.json: the name of the last report, or None
  proc,       \* the two commands: release.mjs, and metrics-report.mjs by hand
  written,    \* every report that was written since tmp was last emptied, with its name
  overlap,    \* names that two commands had chosen before either wrote
  touched,    \* the shell does otherwise on its golden set than at first
  started, made,     \* collections begun, and reports composed
  lost, changes

releaseVars == <<now, world, proposals, files, pointer, proc, written, overlap,
                 touched, started, made, lost, changes>>

Command == {"release", "report"}
Resting == [pc |-> "rest"]

-----------------------------------------------------------------------------
(* Golden sets.                                                            *)

\* runGoldenGate: of the enabled shell, the set's identity and the outcome; a
\* shell without a set is skipped.
runGoldenGate == IF world.set = None THEN [identity |-> None, judged |-> FALSE, passed |-> FALSE]
                 ELSE [identity |-> world.set, judged |-> TRUE, passed |-> world.passes]
NotRun == [identity |-> None, judged |-> FALSE, passed |-> FALSE]

\* goldenGatePass: nothing judged is no failure.
goldenGatePass(g) == g.judged => g.passed

\* diffGolden: of two sets nothing is said about behaviour.
setChanged(a, b) == a.golden.identity # b.golden.identity
behaviorChanged_AnySet(a, b) == a.golden.passed # b.golden.passed
behaviorChanged(a, b) ==
  ~setChanged(a, b) /\ a.golden.passed # b.golden.passed

-----------------------------------------------------------------------------
(* Reports and the metrics gate.                                           *)

goldenInPlace(r) == r.golden.judged
c4InPlace(r) == r.c4 \notin {Unread, Down}

\* compareWindows: without a report from before, or over other days, there is nothing
\* to compare.
compareWindows(base, r) == base # None /\ base.days = r.days

\* A proposal counts when it names a baseline and there is one.
Compared(base) == proposals = None \/ (proposals = "named" /\ base # None)

\* evaluateGate
evaluateGate(base, r) ==
  IF ~(goldenInPlace(r) /\ c4InPlace(r) /\ Compared(base)) THEN "fail"
  ELSE IF ~compareWindows(base, r) THEN "undecided" ELSE "pass"

\* gateBlocks: only a pass lets through.
gateBlocks(verdict) == verdict # "pass"

-----------------------------------------------------------------------------
ReleaseInit ==
  /\ now = 1
  /\ world \in {w \in [code : {1}, set : {None, 1}, passes : BOOLEAN, c4 : {0}] :
                 w.set = None => ~w.passes}
  /\ proposals \in IF world.passes THEN {"named", "bare"} ELSE {None}
  /\ files = [n \in {} |-> None] /\ pointer = None
  /\ proc = [c \in Command |-> Resting]
  /\ written = {} /\ overlap = {} /\ touched = FALSE /\ started = 0 /\ made = 0
  /\ lost = 0 /\ changes = 0

LoseRead(yes) == IF yes THEN lost + changes < MaxTrouble /\ lost' = lost + 1 ELSE UNCHANGED lost
tree == <<now, world, proposals, touched, changes>>
At(c, p) == proc' = [proc EXCEPT ![c] = p]

\* release.mjs checks the golden sets first; metrics-report.mjs goes and collects.
Start(c, days) ==
  /\ proc[c].pc = "rest" /\ started < MaxReports /\ started' = started + 1
  /\ At(c, [pc |-> IF c = "release" THEN "golden" ELSE "read", days |-> days, failed |-> {},
            golden |-> None, c4 |-> None, report |-> None, name |-> None, base |-> None])
  /\ c = "release" => days = 7
  /\ UNCHANGED <<tree, files, pointer, written, overlap, made, lost>>

\* Step 2.6.  A database that does not answer is no failure, and is asked again in 2.7.
GoldenStep(fails) ==
  /\ proc["release"].pc = "golden" /\ LoseRead(fails)
  /\ At("release",
        [proc["release"] EXCEPT
           !.pc = "read", !.golden = IF fails THEN None ELSE runGoldenGate,
           !.failed = IF ~fails /\ ~goldenGatePass(runGoldenGate) THEN {"golden"} ELSE {}])
  /\ UNCHANGED <<tree, files, pointer, written, overlap, started, made>>

\* collectReport: the metrics, whose ledger alone may be unreadable; then the golden
\* sets, unless the release has run them.
Collect(c, got, fails) ==
  /\ proc[c].pc = "read" /\ got \in {world.c4, Unread, Down}
  /\ fails => proc[c].golden = None /\ got # Unread
  /\ LoseRead(got # world.c4 \/ fails)
  /\ At(c, [proc[c] EXCEPT
              !.pc = "compose", !.c4 = got,
              !.golden = IF proc[c].golden # None THEN proc[c].golden
                         ELSE IF fails THEN NotRun ELSE runGoldenGate])
  /\ UNCHANGED <<tree, files, pointer, written, overlap, started, made>>

\* What the pointer names is the baseline.
Report(c) == [days |-> proc[c].days, code |-> world.code, at |-> now, c4 |-> proc[c].c4,
              golden |-> proc[c].golden, baselineRef |-> pointer, seq |-> made + 1]

\* The name is snapshot.json, whether the file is there or not.
NameOf_First(r) == <<r.days, r.code, 0>>

\* The name is snapshot.json, or has the second in it when that file is there.
NameOf(r) == LET first == <<r.days, r.code, 0>>
             IN IF first \in DOMAIN files THEN <<r.days, r.code, r.at>> ELSE first

Compose(c) ==
  /\ proc[c].pc = "compose" /\ made' = made + 1
  /\ LET r == Report(c)
     IN /\ At(c, [proc[c] EXCEPT !.pc = "write", !.report = r, !.name = NameOf(r)])
        /\ overlap' = overlap \cup
             (IF \E o \in Command \ {c} : proc[o].pc = "write" /\ proc[o].name = NameOf(r)
              THEN {NameOf(r)} ELSE {})
  /\ UNCHANGED <<tree, files, pointer, written, started, lost>>

\* writeMetricsSnapshot.  A release judges a report it could not write all the same.
WriteReport(c, fails) ==
  /\ proc[c].pc = "write" /\ LoseRead(fails)
  /\ At(c, IF c = "release" THEN [proc[c] EXCEPT !.pc = "judge"] ELSE Resting)
  /\ IF fails THEN UNCHANGED <<files, pointer, written>>
     ELSE /\ files' = [n \in DOMAIN files \cup {proc[c].name} |->
                         IF n = proc[c].name THEN proc[c].report ELSE files[n]]
          /\ pointer' = proc[c].name
          /\ written' = written \cup {[name |-> proc[c].name, report |-> proc[c].report]}
  /\ UNCHANGED <<tree, overlap, started, made>>

\* Step 2.7.  Without a database nothing is judged, and nothing is blocked.
Baseline(r) == IF r.baselineRef \in DOMAIN files THEN files[r.baselineRef] ELSE None
Judge ==
  /\ proc["release"].pc = "judge"
  /\ LET p == proc["release"]
         base == Baseline(p.report)
         blocked == p.report.c4 # Down /\ gateBlocks(evaluateGate(base, p.report))
     IN At("release", [p EXCEPT
                         !.pc = "judged", !.base = base,
                         !.failed = p.failed \cup (IF blocked THEN {"metrics"} ELSE {})])
  /\ UNCHANGED <<tree, files, pointer, written, overlap, started, made, lost>>

\* The build, and the end of the command.
Build(fails) ==
  /\ proc["release"].pc = "judged"
  /\ LET p == proc["release"]
     IN At("release", [p EXCEPT !.pc = "released",
                                !.failed = p.failed \cup (IF fails THEN {"build"} ELSE {})])
  /\ UNCHANGED <<tree, files, pointer, written, overlap, started, made, lost>>

LeaveShell ==
  /\ proc["release"].pc = "released" /\ At("release", Resting)
  /\ UNCHANGED <<tree, files, pointer, written, overlap, started, made, lost>>

Tick == /\ now < MaxTime /\ now' = now + 1
        /\ UNCHANGED <<world, proposals, files, pointer, proc, written, overlap,
                       touched, started, made, lost, changes>>

\* People commit, add cases to the golden set, break or mend the shell, empty tmp
\* between two commands.
Change ==
  /\ lost + changes < MaxTrouble /\ changes' = changes + 1
  /\ \/ /\ \/ world' = [world EXCEPT !.code = 2] /\ UNCHANGED touched
           \/ world.set # None /\ world' = [world EXCEPT !.set = 2, !.passes = FALSE]
              /\ UNCHANGED touched
           \/ world' = [world EXCEPT !.passes = ~@] /\ touched' = TRUE
        /\ UNCHANGED <<files, pointer, written>>
     \/ /\ DOMAIN files # {} /\ \A c \in Command : proc[c] = Resting
        /\ files' = [n \in {} |-> None] /\ pointer' = None
        /\ written' = {} /\ UNCHANGED <<world, touched>>
  /\ UNCHANGED <<now, proposals, proc, overlap, started, made, lost>>

ReleaseNext ==
  \/ \E c \in Command, days \in {7, 30} : Start(c, days)
  \/ \E fails \in BOOLEAN : GoldenStep(fails) \/ Build(fails)
  \/ \E c \in Command, got \in {0, Unread, Down}, fails \in BOOLEAN : Collect(c, got, fails)
  \/ \E c \in Command, fails \in BOOLEAN : WriteReport(c, fails)
  \/ \E c \in Command : Compose(c)
  \/ Judge \/ LeaveShell \/ Tick \/ Change

ReleaseSpec == ReleaseInit /\ [][ReleaseNext]_releaseVars

-----------------------------------------------------------------------------
Passed == proc["release"].pc = "released" /\ proc["release"].failed = {}

\* A release that passed with a database ran its golden sets and passed them, unless
\* step 2.6 could not reach the database: then the sets 2.7 runs may fail unseen.
GoldenHeld ==
  Passed /\ proc["release"].report.c4 # Down =>
    LET g == proc["release"].golden
    IN g.judged /\ (g.passed \/ lost > 0)

\* It was compared with a report of the same days that was collected before it; a
\* collection of the same second, or itself, may have taken that one's place.
ComparedWithBefore ==
  Passed /\ proc["release"].report.c4 # Down =>
    LET p == proc["release"]
    IN /\ p.base # None /\ p.base.days = p.days /\ p.report.c4 # Unread
       /\ p.base.seq < p.report.seq \/ p.base.at = p.report.at

\* A report keeps its file: another one takes it only when both were collected in
\* one second for one commit and window, or chose it before either wrote.
ReportsKept ==
  \A w \in written :
    \/ files[w.name] = w.report
    \/ w.name \in overlap
    \/ files[w.name].at = w.report.at

\* The pointer names a report that is there.
PointerHolds == pointer # None => pointer \in DOMAIN files

\* Two reports differ in behaviour only when the shell itself was changed: neither a
\* case added to the golden set nor a run that was lost is taken for it.
BehaviourIsTheShells ==
  \A n, m \in DOMAIN files : behaviorChanged(files[n], files[m]) => touched

ReleaseSafe == GoldenHeld /\ ComparedWithBefore /\ ReportsKept /\ PointerHolds
               /\ BehaviourIsTheShells
=============================================================================
