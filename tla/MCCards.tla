------------------------------ MODULE MCCards -------------------------------
(***************************************************************************)
(* The questions and approvals that wait for an answer, and the scheduler  *)
(* with room for one run, for one run of TLC.  They share no state: a      *)
(* behaviour takes the steps of one of them, the other stands still.       *)
(***************************************************************************)
EXTENDS Cards, Scheduler, TLC

CONSTANTS c1, t1, t2, v1, v2

VARIABLE part

MCConvOf == t1 :> v1 @@ t2 :> v2

Call(tool, permission) ==
  [tool |-> tool, permission |-> permission, enforcement |-> "none", allowed |-> FALSE]

\* A question; a command under the guard axis; the same under the sandbox axis.
MCCalls == {Call("ask_user", "write"), Call("run_command", "guard"),
            Call("run_command", "write")}

\* Two minutes in three, and never (only an edit gives that one).
MCCron == {{}, {1, 2}}

SuiteInit == part \in {"cards", "schedule"} /\ Init /\ SchedInit

SuiteNext ==
  \/ part = "cards" /\ Next /\ UNCHANGED <<part, schedVars>>
  \/ part = "schedule" /\ SchedNext /\ UNCHANGED <<part, vars>>

\* The poll of a tool that waits keeps firing; the interval of the scheduler
\* keeps firing, statements resolve, an unattended run is fused and returns,
\* time passes.
SuiteSpec ==
  /\ SuiteInit /\ [][SuiteNext]_<<part, vars, schedVars>>
  /\ \A c \in Card : WF_vars(part = "cards" /\ Poll(c))
  /\ \A k \in Ticker : WF_schedVars(part = "schedule" /\ TickNext(k))
  /\ \A x \in Slot : WF_schedVars(part = "schedule" /\ RunNext(x))
  /\ WF_schedVars(part = "schedule" /\ Tock)
-----------------------------------------------------------------------------
\* Nobody waits for ever (asks.js, approval.js: the poll and the timer of a
\* card).  Cards are interchangeable: what holds of one holds of each.
WaitsEnd == StopEndsWait(c1) /\ WaitEnds(c1)

\* A due task is run, through the limit, a scan that throws and a crash.
DueTasksRun == part = "schedule" => DueStarts
=============================================================================
