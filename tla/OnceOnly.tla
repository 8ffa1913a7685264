------------------------------ MODULE OnceOnly ------------------------------
(***************************************************************************)
(* What a caller of the platform is promised about an idempotency key: the *)
(* work behind a key is taken by one request at a time; a request that     *)
(* gave up leaves the key to be taken again; once the work has been done   *)
(* the key is settled for ever, and whoever comes back with it is told the *)
(* result of the request that did it.                                      *)
(***************************************************************************)
CONSTANTS Request, Key, None

VARIABLES
  ledger,   \* each key: "open", "busy" or "settled", and the request behind it
  told      \* each request: the request whose result it was given, or None

vars == <<ledger, told>>

Open == [state |-> "open", by |-> None]

Init ==
  /\ ledger = [k \in Key |-> Open]
  /\ told = [r \in Request |-> None]

Take(r, k) ==
  /\ ledger[k] = Open
  /\ ledger' = [ledger EXCEPT ![k] = [state |-> "busy", by |-> r]]
  /\ UNCHANGED told

GiveUp(r, k) ==
  /\ ledger[k] = [state |-> "busy", by |-> r]
  /\ ledger' = [ledger EXCEPT ![k] = Open]
  /\ UNCHANGED told

Settle(r, k) ==
  /\ ledger[k] = [state |-> "busy", by |-> r]
  /\ ledger' = [ledger EXCEPT ![k].state = "settled"]
  /\ UNCHANGED told

Replay(r, k) ==
  /\ ledger[k].state = "settled"
  /\ told[r] = None
  /\ told' = [told EXCEPT ![r] = ledger[k].by]
  /\ UNCHANGED ledger

Next ==
  \E r \in Request, k \in Key :
    Take(r, k) \/ GiveUp(r, k) \/ Settle(r, k) \/ Replay(r, k)

Spec == Init /\ [][Next]_vars
=============================================================================
