----------------------------- MODULE Deliveries -----------------------------
(***************************************************************************)
(* Delivery records behind the Idempotency-Key (server/deliveries.js over  *)
(* the deliveries table of either storage).                                *)
(*                                                                         *)
(* A request looks its key up, then inserts or claims a row, then executes *)
(* and writes the row to its end; each of these is a statement of its own, *)
(* so other requests, a lost write or a crash fall in between.  The rows   *)
(* survive a crash, the requests do not.                                   *)
(***************************************************************************)
EXTENDS Naturals

CONSTANTS
  Request,     \* incoming calls
  Key,         \* idempotency keys (with the account, which is part of the key)
  Body,        \* request fingerprints
  None,        \* no key, no row, no response
  MaxCrashes,  \* bound: process crashes
  MaxLost      \* bound: finish writes that fail or are skipped

ASSUME DeliveriesAssumption ==
  /\ None \notin Request \cup Key \cup Body
  /\ MaxCrashes \in Nat
  /\ MaxLost \in Nat

VARIABLES
  row,      \* the deliveries row of each key
  req,      \* the requests
  crashes, lost

vars == <<row, req, crashes, lost>>

Row == [state: {"none", "running", "succeeded", "failed"},
        body: Body \cup {None}, response: Request \cup {None}]
NoRow == [state |-> "none", body |-> None, response |-> None]

\* holds and ok are history: the request owns the running row of its key, its
\* execution has reached its successful end.
Req == [pc: {"new", "lookup", "claim", "insert", "execute", "finish", "closed"},
        key: Key \cup {None}, body: Body \cup {None},
        reply: {"none", "in_progress", "key_reused", "replay", "executed", "error"},
        replayed: Request \cup {None}, holds: BOOLEAN, ok: BOOLEAN]
NewReq == [pc |-> "new", key |-> None, body |-> None, reply |-> "none",
           replayed |-> None, holds |-> FALSE, ok |-> FALSE]

TypeOK ==
  /\ row \in [Key -> Row]
  /\ req \in [Request -> Req]
  /\ crashes \in 0..MaxCrashes
  /\ lost \in 0..MaxLost

Init ==
  /\ row = [k \in Key |-> NoRow]
  /\ req = [r \in Request |-> NewReq]
  /\ crashes = 0
  /\ lost = 0

-----------------------------------------------------------------------------
(* beginDelivery.                                                          *)

\* A call with a key looks it up; a call without one executes right away (the
\* row a channel turn inserts then is never looked up).
Arrive(r, k, b) ==
  /\ req[r].pc = "new"
  /\ req' = [req EXCEPT ![r].pc = IF k = None THEN "execute" ELSE "lookup",
                        ![r].key = k, ![r].body = b]
  /\ UNCHANGED <<row, crashes, lost>>

Reply(r, answer) ==
  req' = [req EXCEPT ![r].pc = "closed", ![r].reply = answer]

\* Mutant: the fingerprint is not compared.
SameRequest_Any(r) == TRUE

SameRequest(r) == row[req[r].key].body = req[r].body

\* findByKey and the decision on what it returned.
findByKey(r) ==
  /\ req[r].pc = "lookup"
  /\ LET hit == row[req[r].key]
     IN  \/ /\ hit.state = "none"
            /\ req' = [req EXCEPT ![r].pc = "insert"]
         \/ /\ hit.state # "none" /\ ~SameRequest(r)
            /\ Reply(r, "key_reused")
         \/ /\ hit.state = "succeeded" /\ SameRequest(r)
            /\ req' = [req EXCEPT ![r].pc = "closed", ![r].reply = "replay",
                                  ![r].replayed = hit.response]
         \/ /\ hit.state = "running" /\ SameRequest(r)
            /\ Reply(r, "in_progress")
         \/ /\ hit.state = "failed" /\ SameRequest(r)
            /\ req' = [req EXCEPT ![r].pc = "claim"]
  /\ UNCHANGED <<row, crashes, lost>>

Granted(r) == req' = [req EXCEPT ![r].pc = "execute", ![r].holds = TRUE]

\* Mutant: the UPDATE names the id alone.
claimRetry_AnyState(r) ==
  /\ req[r].pc = "claim"
  /\ row' = [row EXCEPT ![req[r].key].state = "running", ![req[r].key].body = req[r].body]
  /\ Granted(r)
  /\ UNCHANGED <<crashes, lost>>

\* UPDATE ... WHERE id=? AND state='failed': one of several resends gets it.
claimRetry(r) ==
  /\ req[r].pc = "claim"
  /\ LET k == req[r].key
     IN  \/ /\ row[k].state = "failed"
            /\ row' = [row EXCEPT ![k].state = "running", ![k].body = req[r].body]
            /\ Granted(r)
         \/ /\ row[k].state # "failed"
            /\ Reply(r, "in_progress")
            /\ UNCHANGED row
  /\ UNCHANGED <<crashes, lost>>

\* Mutant: no unique key on (account, idem_key).
insert_NoUniqueKey(r) ==
  /\ req[r].pc = "insert"
  /\ row' = [row EXCEPT ![req[r].key] = [NoRow EXCEPT !.state = "running", !.body = req[r].body]]
  /\ Granted(r)
  /\ UNCHANGED <<crashes, lost>>

\* INSERT under the unique key: a duplicate is answered as in progress.
insert(r) ==
  /\ req[r].pc = "insert"
  /\ LET k == req[r].key
     IN  \/ /\ row[k].state = "none"
            /\ row' = [row EXCEPT ![k] = [state |-> "running", body |-> req[r].body,
                                          response |-> None]]
            /\ Granted(r)
         \/ /\ row[k].state # "none"
            /\ Reply(r, "in_progress")
            /\ UNCHANGED row
  /\ UNCHANGED <<crashes, lost>>

\* A statement of beginDelivery fails: the call ends before it did anything.
BeginThrows(r) ==
  /\ req[r].pc \in {"lookup", "claim", "insert"}
  /\ Reply(r, "error")
  /\ UNCHANGED <<row, crashes, lost>>

-----------------------------------------------------------------------------
(* The execution behind the record, and finishDelivery.                    *)

\* The turn ends: its answer is saved, or it was refused, stopped or failed.
Execute(r, ok) ==
  /\ req[r].pc = "execute"
  /\ req' = [req EXCEPT ![r].pc = IF req[r].key = None THEN "closed" ELSE "finish",
                        ![r].ok = ok, ![r].reply = "executed"]
  /\ UNCHANGED <<row, crashes, lost>>

\* Mutant: only the state is written, not the response.
FinishedRow_StateOnly(r) ==
  [row[req[r].key] EXCEPT !.state = IF req[r].ok THEN "succeeded" ELSE "failed"]

\* Mutant: a state no reader knows is written.
FinishedRow_Unknown(r) == [row[req[r].key] EXCEPT !.state = "done"]

\* All six fields are written: a failure clears the response.
FinishedRow(r) ==
  IF req[r].ok
  THEN [row[req[r].key] EXCEPT !.state = "succeeded", !.response = r]
  ELSE [row[req[r].key] EXCEPT !.state = "failed", !.response = None]

\* The UPDATE names the row by id alone, whatever its state or owner.
finishDelivery(r) ==
  /\ req[r].pc = "finish"
  /\ row' = [row EXCEPT ![req[r].key] = FinishedRow(r)]
  /\ req' = [req EXCEPT ![r].pc = "closed", ![r].holds = FALSE]
  /\ UNCHANGED <<crashes, lost>>

\* The write fails and the error is swallowed, or an exception of the stopped
\* path skips it.
FinishLost(r) ==
  /\ req[r].pc = "finish"
  /\ lost < MaxLost
  /\ lost' = lost + 1
  /\ req' = [req EXCEPT ![r].pc = "closed"]
  /\ UNCHANGED <<row, crashes>>

Crash ==
  /\ crashes < MaxCrashes
  /\ crashes' = crashes + 1
  /\ req' = [r \in Request |-> IF req[r].pc = "new" THEN req[r]
                               ELSE [req[r] EXCEPT !.pc = "closed"]]
  /\ UNCHANGED <<row, lost>>

-----------------------------------------------------------------------------

RequestNext(r) ==
  \/ \E k \in Key \cup {None}, b \in Body : Arrive(r, k, b)
  \/ findByKey(r) \/ claimRetry(r) \/ insert(r) \/ BeginThrows(r)
  \/ \E ok \in BOOLEAN : Execute(r, ok)
  \/ finishDelivery(r) \/ FinishLost(r)

Next == (\E r \in Request : RequestNext(r)) \/ Crash

Spec == Init /\ [][Next]_vars
-----------------------------------------------------------------------------
(* Properties.                                                             *)

Executing(r) == req[r].key # None /\ req[r].pc \in {"execute", "finish"}

\* The work behind a key is never executed by two requests at a time, however
\* their lookups, claims and inserts interleave and whatever was lost before.
OneExecution ==
  \A r, s \in Request :
    Executing(r) /\ Executing(s) /\ req[r].key = req[s].key => r = s

\* Work that reached its successful end is not executed again, even if its
\* end was never recorded or the process crashed before recording it.
NoRepeatAfterSuccess ==
  [][\A r, s \in Request :
        Executing(r)' /\ ~Executing(r) /\ req[s].ok => req[s].key # req'[r].key]_vars

\* A replayed answer is the answer of a request that succeeded with the same
\* key and the same body.
ReplayFaithful ==
  \A r \in Request :
    req[r].reply = "replay" =>
      LET s == req[r].replayed
      IN  /\ s \in Request
          /\ req[s].ok /\ req[s].key = req[r].key /\ req[s].body = req[r].body

-----------------------------------------------------------------------------
(* The records implement the promise about keys.                           *)

Holder(k) == CHOOSE r \in Request : req[r].holds /\ req[r].key = k

LedgerOf(k) ==
  CASE row[k].state = "running"   -> [state |-> "busy", by |-> Holder(k)]
    [] row[k].state = "succeeded" -> [state |-> "settled", by |-> row[k].response]
    [] OTHER                      -> [state |-> "open", by |-> None]

Promise == INSTANCE OnceOnly WITH
             ledger <- [k \in Key |-> LedgerOf(k)],
             told   <- [r \in Request |-> req[r].replayed]

\* Rows and requests refine the key ledger: one owner at a time, settled once.
OnceOnlySpec == Promise!Spec
=============================================================================
