-------------------------- MODULE DeliveriesProofs --------------------------
(***************************************************************************)
(* Proofs about the delivery records, for any number of requests, keys,    *)
(* crashes and lost writes.                                                *)
(*                                                                         *)
(* The argument: a request that executes owns the running row of its key.  *)
(* Only the two statements that make a row running give ownership away,    *)
(* and both find the row in another state, so an owned row has one owner;  *)
(* a lost write or a crash leaves the row running and owned for ever.      *)
(***************************************************************************)
EXTENDS Deliveries, TLAPS

\* What a request may claim about itself at each point of its life.
StageInv ==
  \A r \in Request :
    /\ req[r].pc \in {"new", "lookup", "claim", "insert"} => ~req[r].holds /\ ~req[r].ok
    /\ req[r].pc = "execute" => ~req[r].ok
    /\ req[r].pc \in {"lookup", "claim", "insert", "finish"} => req[r].key # None
    /\ req[r].pc = "claim" => /\ row[req[r].key].state # "none"
                              /\ row[req[r].key].body = req[r].body
    /\ Executing(r) => req[r].holds
    /\ req[r].reply # "replay" => req[r].replayed = None
    /\ req[r].pc # "closed" => req[r].reply # "replay"

\* An owned row is running, carries its owner's fingerprint and has one owner.
OwnerInv ==
  /\ \A r \in Request : req[r].holds =>
       /\ req[r].key # None
       /\ row[req[r].key].state = "running"
       /\ row[req[r].key].body = req[r].body
  /\ \A r, s \in Request : req[r].holds /\ req[s].holds /\ req[r].key = req[s].key => r = s
  /\ \A k \in Key : row[k].state = "running" =>
       \E r \in Request : req[r].holds /\ req[r].key = k

\* Success is in the row, or will for ever be owned.
SuccessInv ==
  /\ \A r \in Request : req[r].ok /\ req[r].key # None =>
       req[r].holds \/ row[req[r].key].state = "succeeded"
  /\ \A k \in Key : row[k].state = "succeeded" =>
       /\ row[k].response \in Request
       /\ req[row[k].response].ok
       /\ req[row[k].response].key = k
       /\ req[row[k].response].body = row[k].body

Inv == TypeOK /\ StageInv /\ OwnerInv /\ SuccessInv /\ ReplayFaithful

LEMMA InvInit == Init => Inv
BY DeliveriesAssumption DEF Init, Inv, TypeOK, StageInv, OwnerInv, SuccessInv, ReplayFaithful,
   NewReq, NoRow, Row, Req, Executing

LEMMA ArriveInv ==
  ASSUME Inv, NEW r \in Request, NEW k \in Key \cup {None}, NEW b \in Body, Arrive(r, k, b)
  PROVE  Inv'
<1> DEFINE q == [req[r] EXCEPT !.pc = IF k = None THEN "execute" ELSE "lookup",
                              !.key = k, !.body = b]
<1>1. req[r] \in Req /\ req[r].pc = "new"  BY DEF Inv, TypeOK, Arrive
<1>2. /\ q \in Req /\ q.key = k /\ q.body = b /\ q.holds = req[r].holds /\ q.ok = req[r].ok
      /\ q.reply = req[r].reply /\ q.replayed = req[r].replayed
      /\ q.pc = IF k = None THEN "execute" ELSE "lookup"
  BY <1>1 DEF Req
<1>3. req' = [req EXCEPT ![r] = q] /\ UNCHANGED <<row, crashes, lost>>
  BY DEF Arrive, Inv, TypeOK
<1> HIDE DEF q
<1>4. \A s \in Request : req'[s] = IF s = r THEN q ELSE req[s]  BY <1>3 DEF Inv, TypeOK
<1>5. TypeOK'  BY <1>2, <1>3 DEF Inv, TypeOK
<1>6. ~req[r].holds /\ ~req[r].ok /\ req[r].reply # "replay"  BY <1>1 DEF Inv, StageInv
<1>7. StageInv'  BY <1>2, <1>3, <1>4, <1>6 DEF Inv, StageInv, Executing
<1>8. OwnerInv'  BY <1>2, <1>3, <1>4, <1>6 DEF Inv, OwnerInv
<1>9. SuccessInv'  BY <1>2, <1>3, <1>4, <1>6 DEF Inv, SuccessInv
<1>10. ReplayFaithful'  BY <1>2, <1>4, <1>6 DEF Inv, ReplayFaithful
<1> QED  BY <1>5, <1>7, <1>8, <1>9, <1>10 DEF Inv

\* A step of one request that changes neither the rows, nor its key and body,
\* nor what it owns and has done.
LEMMA QuietStep ==
  ASSUME Inv, NEW r \in Request, NEW q \in Req,
         req' = [req EXCEPT ![r] = q], row' = row,
         crashes' \in 0..MaxCrashes, lost' \in 0..MaxLost,
         q.key = req[r].key, q.body = req[r].body, q.holds = req[r].holds, q.ok = req[r].ok,
         req[r].key # None,
         q.pc \in {"insert", "claim"} => ~q.holds /\ ~q.ok /\ q.reply # "replay",
         q.pc \in {"insert", "claim", "closed"},
         q.pc = "claim" => row[q.key].state # "none" /\ row[q.key].body = q.body,
         q.reply # "replay" => q.replayed = None,
         q.reply = "replay" =>
           /\ q.replayed \in Request
           /\ req[q.replayed].ok /\ req[q.replayed].key = q.key /\ req[q.replayed].body = q.body
  PROVE  Inv'
<1>1. \A s \in Request : req'[s] = IF s = r THEN q ELSE req[s]  BY DEF Inv, TypeOK
<1>2. TypeOK'  BY DEF Inv, TypeOK
<1>3. StageInv'  BY <1>1 DEF Inv, StageInv, Executing
<1>4. OwnerInv'  BY <1>1 DEF Inv, OwnerInv
<1>5. SuccessInv'
  <2>1. \A s \in Request : /\ req'[s].ok = req[s].ok /\ req'[s].key = req[s].key
                           /\ req'[s].body = req[s].body /\ req'[s].holds = req[s].holds
    BY <1>1
  <2> QED  BY <2>1 DEF Inv, SuccessInv
<1>6. ReplayFaithful'
  <2>1. \A s \in Request : /\ req'[s].ok = req[s].ok /\ req'[s].key = req[s].key
                           /\ req'[s].body = req[s].body
    BY <1>1
  <2> QED  BY <1>1, <2>1 DEF Inv, ReplayFaithful
<1> QED  BY <1>2, <1>3, <1>4, <1>5, <1>6 DEF Inv

LEMMA CloseInv ==
  ASSUME Inv, NEW r \in Request, NEW answer \in {"in_progress", "key_reused", "error"},
         Reply(r, answer), req[r].pc \in {"lookup", "claim", "insert"},
         UNCHANGED <<row, crashes, lost>>
  PROVE  Inv'
<1> DEFINE q == [req[r] EXCEPT !.pc = "closed", !.reply = answer]
<1>1. req[r] \in Req  BY DEF Inv, TypeOK
<1>2. /\ q \in Req /\ q.pc = "closed" /\ q.reply = answer
      /\ q.key = req[r].key /\ q.body = req[r].body /\ q.holds = req[r].holds
      /\ q.ok = req[r].ok /\ q.replayed = req[r].replayed
  BY <1>1 DEF Req
<1>3. req' = [req EXCEPT ![r] = q]  BY DEF Reply, Inv, TypeOK
<1> HIDE DEF q
<1>4. req[r].key # None /\ req[r].replayed = None  BY DEF Inv, StageInv
<1>5. crashes' \in 0..MaxCrashes /\ lost' \in 0..MaxLost  BY DEF Inv, TypeOK
<1> QED  BY <1>2, <1>3, <1>4, <1>5, QuietStep

LEMMA FindInv ==
  ASSUME Inv, NEW r \in Request, findByKey(r)
  PROVE  Inv'
<1> DEFINE k == req[r].key
<1>1. /\ req[r] \in Req /\ req[r].pc = "lookup" /\ k \in Key
      /\ ~req[r].holds /\ ~req[r].ok /\ req[r].replayed = None /\ req[r].reply # "replay"
  BY DEF findByKey, Inv, TypeOK, StageInv, Req
<1>2. /\ row' = row /\ crashes' \in 0..MaxCrashes /\ lost' \in 0..MaxLost
  BY DEF findByKey, Inv, TypeOK
<1>3. CASE row[k].state = "none" /\ req' = [req EXCEPT ![r].pc = "insert"]
  <2> DEFINE q == [req[r] EXCEPT !.pc = "insert"]
  <2>1. /\ q \in Req /\ q.pc = "insert" /\ q.reply = req[r].reply
        /\ q.key = req[r].key /\ q.body = req[r].body /\ q.holds = req[r].holds
        /\ q.ok = req[r].ok /\ q.replayed = req[r].replayed
    BY <1>1 DEF Req
  <2>2. req' = [req EXCEPT ![r] = q]  BY <1>3
  <2> HIDE DEF q
  <2> QED  BY <1>1, <1>2, <2>1, <2>2, DeliveriesAssumption, QuietStep
<1>4. CASE row[k].state = "failed" /\ SameRequest(r) /\ req' = [req EXCEPT ![r].pc = "claim"]
  <2> DEFINE q == [req[r] EXCEPT !.pc = "claim"]
  <2>1. /\ q \in Req /\ q.pc = "claim" /\ q.reply = req[r].reply
        /\ q.key = req[r].key /\ q.body = req[r].body /\ q.holds = req[r].holds
        /\ q.ok = req[r].ok /\ q.replayed = req[r].replayed
    BY <1>1 DEF Req
  <2>2. req' = [req EXCEPT ![r] = q]  BY <1>4
  <2>3. row[k].state # "none" /\ row[k].body = req[r].body  BY <1>4 DEF SameRequest
  <2> HIDE DEF q
  <2> QED  BY <1>1, <1>2, <2>1, <2>2, <2>3, DeliveriesAssumption, QuietStep
<1>5. CASE /\ row[k].state = "succeeded" /\ SameRequest(r)
           /\ req' = [req EXCEPT ![r].pc = "closed", ![r].reply = "replay",
                                 ![r].replayed = row[k].response]
  <2>1. /\ row[k].response \in Request
        /\ req[row[k].response].ok
        /\ req[row[k].response].key = k
        /\ req[row[k].response].body = req[r].body
    BY <1>1, <1>5 DEF Inv, SuccessInv, SameRequest
  <2> DEFINE q == [req[r] EXCEPT !.pc = "closed", !.reply = "replay",
                                 !.replayed = row[k].response]
  <2>2. /\ q \in Req /\ q.pc = "closed" /\ q.reply = "replay"
        /\ q.key = req[r].key /\ q.body = req[r].body /\ q.holds = req[r].holds
        /\ q.ok = req[r].ok /\ q.replayed = row[k].response
    BY <1>1, <2>1 DEF Req
  <2>3. req' = [req EXCEPT ![r] = q]  BY <1>5 DEF Inv, TypeOK
  <2> HIDE DEF q
  <2> QED  BY <1>1, <1>2, <2>1, <2>2, <2>3, DeliveriesAssumption, QuietStep
<1>6. CASE Reply(r, "in_progress") \/ Reply(r, "key_reused")
  BY <1>1, <1>6, CloseInv DEF findByKey
<1> QED  BY <1>3, <1>4, <1>5, <1>6 DEF findByKey

\* A row that nobody owns is made running for the request that found it so.
LEMMA GrantInv ==
  ASSUME Inv, NEW r \in Request, NEW w \in Row,
         req[r].pc \in {"claim", "insert"}, Granted(r),
         row[req[r].key].state = IF req[r].pc = "claim" THEN "failed" ELSE "none",
         row' = [row EXCEPT ![req[r].key] = w],
         w.state = "running", w.body = req[r].body,
         UNCHANGED <<crashes, lost>>
  PROVE  Inv' /\ (\A s \in Request : ~(req[s].key = req[r].key /\ (req[s].holds \/ req[s].ok)))
<1> DEFINE q == [req[r] EXCEPT !.pc = "execute", !.holds = TRUE]
           k == req[r].key
<1>1. /\ req[r] \in Req /\ k \in Key /\ k # None
      /\ ~req[r].holds /\ ~req[r].ok /\ req[r].replayed = None /\ req[r].reply # "replay"
  BY DeliveriesAssumption DEF Inv, TypeOK, StageInv, Req
<1>2. /\ q \in Req /\ q.pc = "execute" /\ q.holds /\ q.key = k /\ q.body = req[r].body
      /\ q.ok = req[r].ok /\ q.replayed = req[r].replayed /\ q.reply = req[r].reply
  BY <1>1 DEF Req
<1>3. req' = [req EXCEPT ![r] = q]  BY DEF Granted, Inv, TypeOK
<1> HIDE DEF q
<1>4. \A s \in Request : req'[s] = IF s = r THEN q ELSE req[s]  BY <1>3 DEF Inv, TypeOK
<1>5. \A j \in Key : row'[j] = IF j = k THEN w ELSE row[j]  BY DEF Inv, TypeOK
<1>6. \A s \in Request : req[s].key = k => ~req[s].holds /\ ~req[s].ok
  BY <1>1 DEF Inv, OwnerInv, SuccessInv
<1>7. TypeOK'  BY <1>2, <1>3 DEF Inv, TypeOK
<1>8. \A s \in Request : req[s].key # None => req[s].key \in Key  BY DEF Inv, TypeOK, Req
<1>9. \A s \in Request : s # r /\ req[s].pc = "claim" /\ req[s].key = k => w.body = req[s].body
  BY <1>1 DEF Inv, StageInv
<1>10. StageInv'
  BY <1>1, <1>2, <1>4, <1>5, <1>8, <1>9 DEF Inv, StageInv, Executing
<1>11. OwnerInv'
  <2>1. \A s \in Request : req'[s].holds =>
          req'[s].key # None /\ row'[req'[s].key].state = "running"
          /\ row'[req'[s].key].body = req'[s].body
    BY <1>1, <1>2, <1>4, <1>5, <1>6, <1>8 DEF Inv, OwnerInv
  <2>2. \A s, t \in Request : req'[s].holds /\ req'[t].holds /\ req'[s].key = req'[t].key => s = t
    BY <1>2, <1>4, <1>6 DEF Inv, OwnerInv
  <2>3. \A j \in Key : row'[j].state = "running" => \E s \in Request : req'[s].holds /\ req'[s].key = j
    <3> TAKE j \in Key
    <3>1. CASE j = k  BY <1>2, <1>4, <3>1
    <3>2. CASE j # k
      <4> HAVE row'[j].state = "running"
      <4>1. PICK s \in Request : req[s].holds /\ req[s].key = j
        BY <1>5, <3>2 DEF Inv, OwnerInv
      <4> QED  BY <1>4, <3>2, <4>1
    <3> QED  BY <3>1, <3>2
  <2> QED  BY <2>1, <2>2, <2>3 DEF OwnerInv
<1>12. SuccessInv'
  <2>1. \A s \in Request : /\ req'[s].ok = req[s].ok /\ req'[s].key = req[s].key
                           /\ req'[s].body = req[s].body
    BY <1>2, <1>4
  <2>2. \A s \in Request : req'[s].ok /\ req'[s].key # None =>
          req'[s].holds \/ row'[req'[s].key].state = "succeeded"
    BY <1>1, <1>4, <1>5, <1>6, <1>8, <2>1 DEF Inv, SuccessInv
  <2>3. \A j \in Key : row'[j].state = "succeeded" => j # k /\ row'[j] = row[j]
    BY <1>5
  <2> QED  BY <2>1, <2>2, <2>3 DEF Inv, SuccessInv
<1>13. ReplayFaithful'
  <2>1. \A s \in Request : /\ req'[s].ok = req[s].ok /\ req'[s].key = req[s].key
                           /\ req'[s].body = req[s].body /\ req'[s].reply = req[s].reply
                           /\ req'[s].replayed = req[s].replayed
    BY <1>2, <1>4
  <2> QED  BY <2>1 DEF Inv, ReplayFaithful
<1> QED  BY <1>6, <1>7, <1>10, <1>11, <1>12, <1>13 DEF Inv

LEMMA ClaimInv ==
  ASSUME Inv, NEW r \in Request, claimRetry(r)
  PROVE  Inv'
<1> DEFINE k == req[r].key
           w == [row[k] EXCEPT !.state = "running", !.body = req[r].body]
<1>1. /\ req[r].pc = "claim" /\ k \in Key /\ row[k] \in Row /\ req[r].body \in Body \cup {None}
  BY DEF claimRetry, Inv, TypeOK, StageInv, Req
<1>2. CASE row[k].state = "failed" /\ Granted(r)
           /\ row' = [row EXCEPT ![k].state = "running", ![k].body = req[r].body]
  <2>1. w \in Row /\ w.state = "running" /\ w.body = req[r].body  BY <1>1 DEF Row
  <2>2. row' = [row EXCEPT ![k] = w]  BY <1>2 DEF Inv, TypeOK
  <2> HIDE DEF w
  <2> QED  BY <1>1, <1>2, <2>1, <2>2, GrantInv DEF claimRetry
<1>3. CASE Reply(r, "in_progress") /\ UNCHANGED row
  BY <1>1, <1>3, CloseInv DEF claimRetry
<1> QED  BY <1>2, <1>3 DEF claimRetry

LEMMA InsertInv ==
  ASSUME Inv, NEW r \in Request, insert(r)
  PROVE  Inv'
<1> DEFINE k == req[r].key
           w == [state |-> "running", body |-> req[r].body, response |-> None]
<1>1. /\ req[r].pc = "insert" /\ k \in Key /\ req[r].body \in Body \cup {None}
  BY DEF insert, Inv, TypeOK, StageInv, Req
<1>2. CASE row[k].state = "none" /\ Granted(r) /\ row' = [row EXCEPT ![k] = w]
  <2>1. w \in Row /\ w.state = "running" /\ w.body = req[r].body  BY <1>1 DEF Row
  <2> HIDE DEF w
  <2> QED  BY <1>1, <1>2, <2>1, GrantInv DEF insert
<1>3. CASE Reply(r, "in_progress") /\ UNCHANGED row
  BY <1>1, <1>3, CloseInv DEF insert
<1> QED  BY <1>2, <1>3 DEF insert

\* The execution ends: only pc, reply and ok of its request change.
LEMMA ExecuteInv ==
  ASSUME Inv, NEW r \in Request, NEW ok \in BOOLEAN, Execute(r, ok)
  PROVE  Inv'
<1> DEFINE q == [req[r] EXCEPT !.pc = IF req[r].key = None THEN "closed" ELSE "finish",
                               !.ok = ok, !.reply = "executed"]
<1>1. req[r] \in Req /\ req[r].pc = "execute" /\ req[r].replayed = None /\ ~req[r].ok
      /\ (req[r].key # None => req[r].holds) /\ (req[r].holds => req[r].key # None)
  BY DEF Inv, TypeOK, Execute, StageInv, Executing, OwnerInv
<1>2. /\ q \in Req /\ q.key = req[r].key /\ q.body = req[r].body /\ q.holds = req[r].holds
      /\ q.reply = "executed" /\ q.replayed = req[r].replayed
      /\ q.pc = IF req[r].key = None THEN "closed" ELSE "finish"
  BY <1>1 DEF Req
<1>3. req' = [req EXCEPT ![r] = q] /\ UNCHANGED <<row, crashes, lost>>
  BY DEF Execute, Inv, TypeOK
<1> HIDE DEF q
<1>4. \A s \in Request : req'[s] = IF s = r THEN q ELSE req[s]  BY <1>3 DEF Inv, TypeOK
<1>5. TypeOK'  BY <1>2, <1>3 DEF Inv, TypeOK
<1>6. StageInv'  BY <1>1, <1>2, <1>3, <1>4 DEF Inv, StageInv, Executing
<1>7. OwnerInv'
  <2>1. \A s \in Request : /\ req'[s].key = req[s].key /\ req'[s].body = req[s].body
                           /\ req'[s].holds = req[s].holds
    BY <1>2, <1>4
  <2> QED  BY <1>3, <2>1 DEF Inv, OwnerInv
<1>8. SuccessInv'
  <2>1. \A s \in Request : s # r => req'[s] = req[s]  BY <1>4
  <2>2. \A k \in Key : row[k].state = "succeeded" => row[k].response # r
    BY <1>1 DEF Inv, SuccessInv
  <2>3. req'[r].ok /\ req'[r].key # None => req'[r].holds  BY <1>1, <1>2, <1>4
  <2> QED  BY <1>3, <2>1, <2>2, <2>3 DEF Inv, SuccessInv
<1>9. ReplayFaithful'
  <2>1. \A s \in Request : req[s].reply = "replay" => s # r /\ req[s].replayed # r
    BY <1>1 DEF Inv, StageInv, ReplayFaithful
  <2> QED  BY <1>2, <1>4, <2>1 DEF Inv, ReplayFaithful
<1> QED  BY <1>5, <1>6, <1>7, <1>8, <1>9 DEF Inv

\* The owner writes the end of its row.
LEMMA FinishInv ==
  ASSUME Inv, NEW r \in Request, finishDelivery(r)
  PROVE  Inv'
<1> DEFINE q == [req[r] EXCEPT !.pc = "closed", !.holds = FALSE]
           k == req[r].key
           w == FinishedRow(r)
<1>1. /\ req[r] \in Req /\ req[r].pc = "finish" /\ k \in Key /\ k # None
      /\ req[r].holds /\ row[k] \in Row /\ row[k].body = req[r].body
      /\ req[r].reply # "replay" /\ req[r].replayed = None
  BY DEF finishDelivery, Inv, TypeOK, StageInv, OwnerInv, Executing, Req
<1>2. /\ q \in Req /\ q.pc = "closed" /\ ~q.holds /\ q.key = k /\ q.body = req[r].body
      /\ q.ok = req[r].ok /\ q.replayed = req[r].replayed /\ q.reply = req[r].reply
  BY <1>1 DEF Req
<1>3. /\ w \in Row /\ w.body = req[r].body
      /\ req[r].ok => w.state = "succeeded" /\ w.response = r
      /\ ~req[r].ok => w.state = "failed"
  BY <1>1 DEF FinishedRow, Row
<1>4. req' = [req EXCEPT ![r] = q] /\ row' = [row EXCEPT ![k] = w] /\ UNCHANGED <<crashes, lost>>
  BY DEF finishDelivery, Inv, TypeOK
<1> HIDE DEF q, w
<1>5. \A s \in Request : req'[s] = IF s = r THEN q ELSE req[s]  BY <1>4 DEF Inv, TypeOK
<1>6. \A j \in Key : row'[j] = IF j = k THEN w ELSE row[j]  BY <1>4 DEF Inv, TypeOK
<1>7. TypeOK'  BY <1>2, <1>3, <1>4 DEF Inv, TypeOK
<1>8. \A s \in Request : req[s].key # None => req[s].key \in Key  BY DEF Inv, TypeOK, Req
<1>9. \A s \in Request : s # r /\ req[s].key = k => ~req[s].holds /\ ~req[s].ok
  BY <1>1 DEF Inv, OwnerInv, SuccessInv
<1>10. StageInv'
  <2>1. w.state # "none"  BY <1>3
  <2>2. \A s \in Request : req[s].pc = "claim" /\ req[s].key = k => w.body = req[s].body
    BY <1>1, <1>3 DEF Inv, StageInv
  <2> QED  BY <1>1, <1>2, <1>5, <1>6, <1>8, <2>1, <2>2 DEF Inv, StageInv, Executing
<1>11. OwnerInv'
  <2>1. \A s \in Request : req'[s].holds => s # r /\ req'[s] = req[s] /\ req[s].key # k
    BY <1>2, <1>5, <1>9
  <2>2. \A s \in Request : req'[s].holds =>
          req'[s].key # None /\ row'[req'[s].key].state = "running"
          /\ row'[req'[s].key].body = req'[s].body
    BY <1>6, <1>8, <2>1 DEF Inv, OwnerInv
  <2>3. \A s, t \in Request : req'[s].holds /\ req'[t].holds /\ req'[s].key = req'[t].key => s = t
    BY <2>1 DEF Inv, OwnerInv
  <2>4. \A j \in Key : row'[j].state = "running" => \E s \in Request : req'[s].holds /\ req'[s].key = j
    <3> TAKE j \in Key
    <3> HAVE row'[j].state = "running"
    <3>1. j # k  BY <1>3, <1>6
    <3>2. PICK s \in Request : req[s].holds /\ req[s].key = j
      BY <1>6, <3>1 DEF Inv, OwnerInv
    <3> QED  BY <1>5, <3>1, <3>2
  <2> QED  BY <2>2, <2>3, <2>4 DEF OwnerInv
<1>12. SuccessInv'
  <2>1. \A s \in Request : /\ req'[s].ok = req[s].ok /\ req'[s].key = req[s].key
                           /\ req'[s].body = req[s].body
    BY <1>2, <1>5
  <2>2. \A s \in Request : req'[s].ok /\ req'[s].key # None =>
          req'[s].holds \/ row'[req'[s].key].state = "succeeded"
    BY <1>1, <1>3, <1>5, <1>6, <1>8, <1>9, <2>1 DEF Inv, SuccessInv
  <2>3. \A j \in Key : row'[j].state = "succeeded" =>
          /\ row'[j].response \in Request
          /\ req'[row'[j].response].ok
          /\ req'[row'[j].response].key = j
          /\ req'[row'[j].response].body = row'[j].body
    <3> TAKE j \in Key
    <3>1. CASE j = k  BY <1>3, <1>6, <2>1, <3>1
    <3>2. CASE j # k  BY <1>6, <2>1, <3>2 DEF Inv, SuccessInv
    <3> QED  BY <3>1, <3>2
  <2> QED  BY <2>2, <2>3 DEF SuccessInv
<1>13. ReplayFaithful'
  <2>1. \A s \in Request : /\ req'[s].ok = req[s].ok /\ req'[s].key = req[s].key
                           /\ req'[s].body = req[s].body /\ req'[s].reply = req[s].reply
                           /\ req'[s].replayed = req[s].replayed
    BY <1>2, <1>5
  <2> QED  BY <2>1 DEF Inv, ReplayFaithful
<1> QED  BY <1>7, <1>10, <1>11, <1>12, <1>13 DEF Inv

\* Requests end where they are: what they own and have done stays.
LEMMA CutInv ==
  ASSUME Inv, NEW C \in SUBSET Request,
         \A r \in C : req[r].pc # "new",
         req' = [r \in Request |-> IF r \in C THEN [req[r] EXCEPT !.pc = "closed"] ELSE req[r]],
         row' = row, crashes' \in 0..MaxCrashes, lost' \in 0..MaxLost
  PROVE  Inv'
<1>1. \A s \in Request : req[s] \in Req  BY DEF Inv, TypeOK
<1>2. \A s \in Request : /\ req'[s].ok = req[s].ok /\ req'[s].key = req[s].key
                         /\ req'[s].body = req[s].body /\ req'[s].holds = req[s].holds
                         /\ req'[s].reply = req[s].reply /\ req'[s].replayed = req[s].replayed
                         /\ req'[s].pc = (IF s \in C THEN "closed" ELSE req[s].pc)
                         /\ req'[s] \in Req
  BY <1>1 DEF Req
<1>3. TypeOK'  BY <1>2 DEF Inv, TypeOK
<1>4. StageInv'  BY <1>2 DEF Inv, StageInv, Executing
<1>5. OwnerInv'  BY <1>2 DEF Inv, OwnerInv
<1>6. SuccessInv'  BY <1>2 DEF Inv, SuccessInv
<1>7. ReplayFaithful'  BY <1>2 DEF Inv, ReplayFaithful
<1> QED  BY <1>3, <1>4, <1>5, <1>6, <1>7 DEF Inv

LEMMA InvStep == Inv /\ [Next]_vars => Inv'
<1> SUFFICES ASSUME Inv, [Next]_vars  PROVE Inv'  OBVIOUS
<1>1. ASSUME NEW r \in Request, RequestNext(r)  PROVE Inv'
  <2>1. CASE \E k \in Key \cup {None}, b \in Body : Arrive(r, k, b)  BY <2>1, ArriveInv
  <2>2. CASE findByKey(r)  BY <2>2, FindInv
  <2>3. CASE claimRetry(r)  BY <2>3, ClaimInv
  <2>4. CASE insert(r)  BY <2>4, InsertInv
  <2>5. CASE BeginThrows(r)  BY <2>5, CloseInv DEF BeginThrows
  <2>6. CASE \E ok \in BOOLEAN : Execute(r, ok)  BY <2>6, ExecuteInv
  <2>7. CASE finishDelivery(r)  BY <2>7, FinishInv
  <2>8. CASE FinishLost(r)
    <3>1. req' = [s \in Request |-> IF s \in {r} THEN [req[s] EXCEPT !.pc = "closed"] ELSE req[s]]
      BY <2>8 DEF FinishLost, Inv, TypeOK
    <3>2. crashes' \in 0..MaxCrashes /\ lost' \in 0..MaxLost /\ row' = row
      BY <2>8, DeliveriesAssumption DEF FinishLost, Inv, TypeOK
    <3>3. {r} \in SUBSET Request /\ \A s \in {r} : req[s].pc # "new"  BY <2>8 DEF FinishLost
    <3> QED  BY <3>1, <3>2, <3>3, CutInv
  <2> QED  BY <1>1, <2>1, <2>2, <2>3, <2>4, <2>5, <2>6, <2>7, <2>8 DEF RequestNext
<1>2. CASE Crash
  <2> DEFINE C == {r \in Request : req[r].pc # "new"}
  <2>1. req' = [r \in Request |-> IF r \in C THEN [req[r] EXCEPT !.pc = "closed"] ELSE req[r]]
    BY <1>2 DEF Crash
  <2>2. crashes' \in 0..MaxCrashes /\ lost' \in 0..MaxLost /\ row' = row
    BY <1>2, DeliveriesAssumption DEF Crash, Inv, TypeOK
  <2>3. C \in SUBSET Request /\ \A r \in C : req[r].pc # "new"  OBVIOUS
  <2> HIDE DEF C
  <2> QED  BY <2>1, <2>2, <2>3, CutInv
<1>3. CASE UNCHANGED vars
  BY <1>3 DEF vars, Inv, TypeOK, StageInv, OwnerInv, SuccessInv, ReplayFaithful, Executing
<1> QED  BY <1>1, <1>2, <1>3 DEF Next

LEMMA InvAlways == Spec => []Inv
BY InvInit, InvStep, PTL DEF Spec

\* Two requests never execute the work of one key at the same time.
THEOREM OneAtATime == Spec => []OneExecution
<1>1. Inv => OneExecution  BY DEF Inv, StageInv, OwnerInv, OneExecution, Executing
<1> QED  BY <1>1, InvAlways, PTL

\* Every replayed answer is that of a successful request with the same key
\* and the same body.
THEOREM ReplaysAreFaithful == Spec => []ReplayFaithful
<1>1. Inv => ReplayFaithful  BY DEF Inv
<1> QED  BY <1>1, InvAlways, PTL

-----------------------------------------------------------------------------
(* No repeat after success.                                                *)

\* Only a granted claim or insert makes a request execute, and it is granted
\* on a row that is neither running nor succeeded.
LEMMA GrantsOnly ==
  ASSUME Inv, [Next]_vars, NEW r \in Request, Executing(r)', ~Executing(r)
  PROVE  /\ row[req[r].key].state \in {"none", "failed"}
         /\ req'[r].key = req[r].key /\ req[r].key # None
<1>0. \A q \in Request : req[q] \in Req  BY DEF Inv, TypeOK
<1>1. ASSUME NEW q \in Request, RequestNext(q)
      PROVE  /\ row[req[r].key].state \in {"none", "failed"}
             /\ req'[r].key = req[r].key /\ req[r].key # None
  <2>1. q # r => req'[r] = req[r]
    BY <1>1 DEF RequestNext, Arrive, findByKey, claimRetry, insert, BeginThrows, Execute,
       finishDelivery, FinishLost, Reply, Granted, Inv, TypeOK
  <2>2. q = r  BY <2>1 DEF Executing
  <2>3. CASE Granted(r)
    <3>1. req'[r].key = req[r].key  BY <1>0, <2>3 DEF Granted, Inv, TypeOK, Req
    <3>2. req'[r].key # None  BY DEF Executing
    <3>3. claimRetry(r) \/ insert(r)
      <4>1. req'[r].pc = "execute" /\ req'[r].holds
        BY <1>0, <2>3 DEF Granted, Inv, TypeOK, Req
      <4>2. ~Execute(r, TRUE) /\ ~Execute(r, FALSE)
        BY <3>1, <3>2 DEF Execute, Executing
      <4>3. ~findByKey(r) /\ ~BeginThrows(r) /\ ~finishDelivery(r) /\ ~FinishLost(r)
        BY <1>0, <4>1 DEF findByKey, BeginThrows, finishDelivery, FinishLost, Reply, Inv, TypeOK, Req
      <4>4. \A k \in Key \cup {None}, b \in Body : ~Arrive(r, k, b)
        <5> SUFFICES ASSUME NEW k \in Key \cup {None}, NEW b \in Body, Arrive(r, k, b)
                     PROVE  FALSE
          OBVIOUS
        <5>1. req'[r].holds = req[r].holds  BY <1>0 DEF Arrive, Inv, TypeOK, Req
        <5>2. ~req[r].holds  BY DEF Arrive, Inv, StageInv
        <5> QED  BY <4>1, <5>1, <5>2
      <4> QED  BY <1>1, <2>2, <4>2, <4>3, <4>4 DEF RequestNext
    <3>4. row[req[r].key].state \in {"none", "failed"}
      <4>1. \A a : Reply(r, a) => req'[r].pc = "closed"
        BY <1>0 DEF Reply, Inv, TypeOK, Req
      <4>2. req'[r].pc # "closed"  BY DEF Executing
      <4> QED  BY <3>3, <4>1, <4>2 DEF claimRetry, insert
    <3> QED  BY <3>1, <3>2, <3>4
  <2>4. CASE ~Granted(r)
    <3>1. CASE \E k \in Key \cup {None}, b \in Body : Arrive(r, k, b)
      <4>1. PICK k \in Key \cup {None}, b \in Body : Arrive(r, k, b)  BY <3>1
      <4>2. req'[r].key = k /\ req'[r].pc = IF k = None THEN "execute" ELSE "lookup"
        BY <1>0, <4>1 DEF Arrive, Inv, TypeOK, Req
      <4> QED  BY <4>2 DEF Executing
    <3>2. CASE \E ok \in BOOLEAN : Execute(r, ok)
      <4>1. PICK ok \in BOOLEAN : Execute(r, ok)  BY <3>2
      <4>2. req'[r].key = req[r].key  BY <1>0, <4>1 DEF Execute, Inv, TypeOK, Req
      <4> QED  BY <4>1, <4>2 DEF Execute, Executing
    <3>3. CASE findByKey(r) \/ claimRetry(r) \/ insert(r) \/ BeginThrows(r)
               \/ finishDelivery(r) \/ FinishLost(r)
      <4>1. req'[r].pc \in {"insert", "claim", "closed"}
        BY <1>0, <2>4, <3>3 DEF findByKey, claimRetry, insert, BeginThrows, finishDelivery,
           FinishLost, Reply, Inv, TypeOK, Req
      <4> QED  BY <4>1 DEF Executing
    <3> QED  BY <1>1, <2>2, <3>1, <3>2, <3>3 DEF RequestNext
  <2> QED  BY <2>3, <2>4
<1>2. ~Crash
  <2> SUFFICES ASSUME Crash PROVE FALSE  OBVIOUS
  <2>1. req'[r].pc \in {"new", "closed"}  BY <1>0 DEF Crash, Req
  <2> QED  BY <2>1 DEF Executing
<1>3. ~UNCHANGED vars  BY DEF vars, Executing
<1> QED  BY <1>1, <1>2, <1>3 DEF Next

\* Work that has succeeded is never executed again under its key, though its
\* end may have been lost and processes may have crashed.
THEOREM SuccessIsFinal == Spec => NoRepeatAfterSuccess
<1>1. Inv /\ [Next]_vars =>
        \A r, s \in Request : Executing(r)' /\ ~Executing(r) /\ req[s].ok => req[s].key # req'[r].key
  <2> SUFFICES ASSUME Inv, [Next]_vars, NEW r \in Request, NEW s \in Request,
                      Executing(r)', ~Executing(r), req[s].ok, req[s].key = req'[r].key
               PROVE  FALSE
    OBVIOUS
  <2>1. row[req[s].key].state \in {"none", "failed"} /\ req[s].key # None  BY GrantsOnly
  <2> QED  BY <2>1 DEF Inv, OwnerInv, SuccessInv
<1> QED  BY <1>1, InvAlways, PTL DEF Spec, NoRepeatAfterSuccess

-----------------------------------------------------------------------------
(* The refinement of the key ledger.                                       *)

LEMMA HolderIs ==
  ASSUME Inv, NEW k \in Key, NEW r \in Request, req[r].holds, req[r].key = k
  PROVE  Holder(k) = r
<1>1. \A s \in Request : req[s].holds /\ req[s].key = k => s = r  BY DEF Inv, OwnerInv
<1> QED  BY <1>1 DEF Holder

LEMMA HolderIsNext ==
  ASSUME Inv', NEW k \in Key, NEW r \in Request, req'[r].holds, req'[r].key = k
  PROVE  Holder(k)' = r
<1>1. \A s \in Request : req'[s].holds /\ req'[s].key = k => s = r  BY DEF Inv, OwnerInv
<1> QED  BY <1>1 DEF Holder

\* A key whose row and ownership a step leaves alone keeps its ledger entry.
LEMMA SameLedger ==
  ASSUME Inv, Inv', NEW k \in Key, row'[k] = row[k],
         \A s \in Request : req[s].holds /\ req[s].key = k => req'[s].holds /\ req'[s].key = k
  PROVE  LedgerOf(k)' = LedgerOf(k)
<1>1. CASE row[k].state = "running"
  <2>1. PICK s \in Request : req[s].holds /\ req[s].key = k  BY <1>1 DEF Inv, OwnerInv
  <2>2. Holder(k) = s /\ Holder(k)' = s  BY <2>1, HolderIs, HolderIsNext
  <2> QED  BY <1>1, <2>2 DEF LedgerOf
<1>2. CASE row[k].state # "running"  BY <1>2 DEF LedgerOf
<1> QED  BY <1>1, <1>2

\* A step that leaves every row, every ownership and every replay alone.
LEMMA StutterStep ==
  ASSUME Inv, Inv', row' = row,
         \A s \in Request : /\ req'[s].replayed = req[s].replayed
                            /\ req[s].holds => req'[s].holds /\ req'[s].key = req[s].key
  PROVE  UNCHANGED Promise!vars
<1>1. \A k \in Key : LedgerOf(k)' = LedgerOf(k)  BY SameLedger
<1> QED  BY <1>1 DEF Promise!vars

LEMMA TakeStep ==
  ASSUME Inv, Inv', NEW r \in Request, NEW k \in Key, req[r].key = k,
         claimRetry(r) \/ insert(r), Granted(r),
         row[k].state \in {"none", "failed"}, row'[k].state = "running",
         \A j \in Key : j # k => row'[j] = row[j]
  PROVE  Promise!Take(r, k)
<1>0. req[r] \in Req  BY DEF Inv, TypeOK, StageInv, Req, claimRetry, insert
<1>1. /\ req'[r].holds /\ req'[r].key = k /\ req'[r].replayed = req[r].replayed
      /\ \A s \in Request : s # r => req'[s] = req[s]
  BY <1>0 DEF Granted, Inv, TypeOK, Req
<1>2. LedgerOf(k) = [state |-> "open", by |-> None]  BY DEF LedgerOf
<1>3. LedgerOf(k)' = [state |-> "busy", by |-> r]
  BY <1>0, <1>1, HolderIsNext DEF LedgerOf
<1>4. \A j \in Key : j # k => LedgerOf(j)' = LedgerOf(j)
  <2> TAKE j \in Key
  <2> HAVE j # k
  <2>1. \A s \in Request : req[s].holds /\ req[s].key = j => req'[s].holds /\ req'[s].key = j
    BY <1>1
  <2> QED  BY <2>1, SameLedger
<1>5. \A s \in Request : req'[s].replayed = req[s].replayed  BY <1>1
<1> QED  BY <1>0, <1>2, <1>3, <1>4, <1>5 DEF Promise!Take, Promise!Open

LEMMA FinishStep ==
  ASSUME Inv, Inv', NEW r \in Request, NEW k \in Key, req[r].key = k, finishDelivery(r)
  PROVE  Promise!Settle(r, k) \/ Promise!GiveUp(r, k)
<1>0. /\ req[r] \in Req /\ req[r].holds /\ row[k].state = "running"
      /\ row[k] \in Row
  <2>1. req[r].pc = "finish"
    BY DEF finishDelivery
  <2>2. TypeOK /\ StageInv /\ OwnerInv
    BY DEF Inv
  <2>3. req[r].key # None
    BY <2>1, <2>2 DEF StageInv
  <2>4. req[r].holds
    BY <2>1, <2>2, <2>3 DEF StageInv, Executing
  <2>5. row[k].state = "running"
    BY <2>2, <2>4 DEF OwnerInv
  <2> QED
    BY <2>2, <2>4, <2>5 DEF TypeOK
<1>1. /\ req'[r].replayed = req[r].replayed
      /\ \A s \in Request : s # r => req'[s] = req[s]
  BY <1>0 DEF finishDelivery, Inv, TypeOK, Req
<1>2. /\ row'[k] = FinishedRow(r)
      /\ \A j \in Key : j # k => row'[j] = row[j]
  BY <1>0 DEF finishDelivery, Inv, TypeOK
<1>3. LedgerOf(k) = [state |-> "busy", by |-> r]  BY <1>0, HolderIs DEF LedgerOf
<1>4. \A j \in Key : j # k => LedgerOf(j)' = LedgerOf(j)
  <2> TAKE j \in Key
  <2> HAVE j # k
  <2>1. \A s \in Request : req[s].holds /\ req[s].key = j => req'[s].holds /\ req'[s].key = j
    BY <1>1
  <2> QED  BY <1>2, <2>1, SameLedger
<1>5. \A s \in Request : req'[s].replayed = req[s].replayed  BY <1>1
<1>6. CASE req[r].ok
  <2>1. row'[k].state = "succeeded" /\ row'[k].response = r
    BY <1>0, <1>2, <1>6 DEF FinishedRow, Row
  <2>2. LedgerOf(k)' = [state |-> "settled", by |-> r]  BY <2>1 DEF LedgerOf
  <2>3. [j \in Key |-> LedgerOf(j)]' =
          [[j \in Key |-> LedgerOf(j)] EXCEPT ![k].state = "settled"]
    <3>1. [LedgerOf(k) EXCEPT !.state = "settled"] = LedgerOf(k)'  BY <1>3, <2>2
    <3>2. [[j \in Key |-> LedgerOf(j)] EXCEPT ![k].state = "settled"] =
            [j \in Key |-> IF j = k THEN [LedgerOf(k) EXCEPT !.state = "settled"] ELSE LedgerOf(j)]
      OBVIOUS
    <3> QED  BY <1>4, <3>1, <3>2
  <2>4. [s \in Request |-> req[s].replayed]' = [s \in Request |-> req[s].replayed]  BY <1>5
  <2> QED  BY <1>3, <2>3, <2>4 DEF Promise!Settle
<1>7. CASE ~req[r].ok
  <2>1. row'[k].state = "failed"  BY <1>0, <1>2, <1>7 DEF FinishedRow, Row
  <2>2. LedgerOf(k)' = [state |-> "open", by |-> None]  BY <2>1 DEF LedgerOf
  <2>3. [j \in Key |-> LedgerOf(j)]' =
          [[j \in Key |-> LedgerOf(j)] EXCEPT ![k] = [state |-> "open", by |-> None]]
    BY <1>4, <2>2
  <2>4. [s \in Request |-> req[s].replayed]' = [s \in Request |-> req[s].replayed]  BY <1>5
  <2> QED  BY <1>3, <2>3, <2>4 DEF Promise!GiveUp, Promise!Open
<1> QED  BY <1>6, <1>7

LEMMA ReplayStep ==
  ASSUME Inv, Inv', NEW r \in Request, NEW k \in Key, req[r].key = k, req[r].pc = "lookup", row' = row,
         row[k].state = "succeeded",
         req' = [req EXCEPT ![r].pc = "closed", ![r].reply = "replay",
                            ![r].replayed = row[k].response]
  PROVE  Promise!Replay(r, k)
<1>0. req[r] \in Req /\ req[r].replayed = None
  BY DEF Inv, TypeOK, StageInv, Req
<1>1. /\ req'[r].replayed = row[k].response /\ req'[r].holds = req[r].holds /\ req'[r].key = k
      /\ \A s \in Request : s # r => req'[s] = req[s]
  BY <1>0 DEF Inv, TypeOK, Req
<1>2. \A j \in Key : LedgerOf(j)' = LedgerOf(j)
  <2> TAKE j \in Key
  <2>1. \A s \in Request : req[s].holds /\ req[s].key = j => req'[s].holds /\ req'[s].key = j
    BY <1>1
  <2> QED  BY <2>1, SameLedger
<1>3. LedgerOf(k) = [state |-> "settled", by |-> row[k].response]  BY DEF LedgerOf
<1>4. \A s \in Request : s # r => req'[s].replayed = req[s].replayed  BY <1>1
<1>5. [s \in Request |-> req[s].replayed]' =
        [[s \in Request |-> req[s].replayed] EXCEPT ![r] = row[k].response]
  BY <1>1, <1>4
<1>6. [j \in Key |-> LedgerOf(j)]' = [j \in Key |-> LedgerOf(j)]  BY <1>2
<1>7. /\ [j \in Key |-> LedgerOf(j)][k].state = "settled"
      /\ [j \in Key |-> LedgerOf(j)][k].by = row[k].response
      /\ [s \in Request |-> req[s].replayed][r] = None
  BY <1>0, <1>3
<1> QED  BY <1>5, <1>6, <1>7 DEF Promise!Replay

LEMMA RequestRefines ==
  ASSUME Inv, Inv', NEW r \in Request, RequestNext(r)
  PROVE  Promise!Next \/ UNCHANGED Promise!vars
<1>0. \A q \in Request : req[q] \in Req  BY DEF Inv, TypeOK
<1>a. ASSUME NEW k \in Key, Promise!Take(r, k) \/ Promise!GiveUp(r, k) \/ Promise!Settle(r, k)
                           \/ Promise!Replay(r, k)
      PROVE  Promise!Next
  BY <1>a DEF Promise!Next
<1>b. req[r].pc \in {"lookup", "claim", "insert", "finish"} => req[r].key \in Key
  BY <1>0 DEF Inv, StageInv, Req
<1>1. CASE \E k \in Key \cup {None}, b \in Body : Arrive(r, k, b)
  <2>1. \A s \in Request : /\ req'[s].replayed = req[s].replayed
                           /\ req'[s].holds = req[s].holds
                           /\ s # r => req'[s] = req[s]
    BY <1>0, <1>1 DEF Arrive, Inv, TypeOK, Req
  <2>2. ~req[r].holds  BY <1>1 DEF Arrive, Inv, StageInv
  <2>3. row' = row  BY <1>1 DEF Arrive
  <2> QED  BY <2>1, <2>2, <2>3, StutterStep
<1>2. ASSUME NEW answer, Reply(r, answer), row' = row
      PROVE  UNCHANGED Promise!vars
  <2>1. \A s \in Request : /\ req'[s].replayed = req[s].replayed
                           /\ req'[s].holds = req[s].holds /\ req'[s].key = req[s].key
    BY <1>0, <1>2 DEF Reply, Inv, TypeOK, Req
  <2> QED  BY <1>2, <2>1, StutterStep
<1>3. CASE findByKey(r)
  <2>1. CASE req' = [req EXCEPT ![r].pc = "insert"] \/ req' = [req EXCEPT ![r].pc = "claim"]
    <3>1. \A s \in Request : /\ req'[s].replayed = req[s].replayed
                             /\ req'[s].holds = req[s].holds /\ req'[s].key = req[s].key
      BY <1>0, <2>1 DEF Inv, TypeOK, Req
    <3> QED  BY <1>3, <3>1, StutterStep DEF findByKey
  <2>2. CASE /\ row[req[r].key].state = "succeeded"
             /\ req' = [req EXCEPT ![r].pc = "closed", ![r].reply = "replay",
                                   ![r].replayed = row[req[r].key].response]
    BY <1>3, <1>a, <1>b, <2>2, ReplayStep DEF findByKey
  <2> QED  BY <1>2, <1>3, <2>1, <2>2 DEF findByKey
<1>4. CASE claimRetry(r)
  <2>1. CASE /\ row[req[r].key].state = "failed" /\ Granted(r)
             /\ row' = [row EXCEPT ![req[r].key].state = "running", ![req[r].key].body = req[r].body]
    <3>1. /\ row'[req[r].key].state = "running"
          /\ \A j \in Key : j # req[r].key => row'[j] = row[j]
      BY <1>4, <1>b, <2>1 DEF claimRetry, Inv, TypeOK, Row
    <3> QED  BY <1>4, <1>a, <1>b, <2>1, <3>1, TakeStep DEF claimRetry
  <2> QED  BY <1>2, <1>4, <2>1 DEF claimRetry
<1>5. CASE insert(r)
  <2>1. CASE /\ row[req[r].key].state = "none" /\ Granted(r)
             /\ row' = [row EXCEPT ![req[r].key] = [state |-> "running", body |-> req[r].body,
                                                    response |-> None]]
    <3>1. /\ row'[req[r].key].state = "running"
          /\ \A j \in Key : j # req[r].key => row'[j] = row[j]
      BY <1>5, <1>b, <2>1 DEF insert, Inv, TypeOK
    <3> QED  BY <1>5, <1>a, <1>b, <2>1, <3>1, TakeStep DEF insert
  <2> QED  BY <1>2, <1>5, <2>1 DEF insert
<1>6. CASE BeginThrows(r)  BY <1>2, <1>6 DEF BeginThrows
<1>7. CASE \E ok \in BOOLEAN : Execute(r, ok)
  <2>1. \A s \in Request : /\ req'[s].replayed = req[s].replayed
                           /\ req'[s].holds = req[s].holds /\ req'[s].key = req[s].key
    BY <1>0, <1>7 DEF Execute, Inv, TypeOK, Req
  <2> QED  BY <1>7, <2>1, StutterStep DEF Execute
<1>8. CASE finishDelivery(r)
  BY <1>8, <1>a, <1>b, FinishStep DEF finishDelivery
<1>9. CASE FinishLost(r)
  <2>1. \A s \in Request : /\ req'[s].replayed = req[s].replayed
                           /\ req'[s].holds = req[s].holds /\ req'[s].key = req[s].key
    BY <1>0, <1>9 DEF FinishLost, Inv, TypeOK, Req
  <2> QED  BY <1>9, <2>1, StutterStep DEF FinishLost
<1> QED
  BY RequestNext(r), <1>1, <1>3, <1>4, <1>5, <1>6, <1>7, <1>8, <1>9 DEF RequestNext

\* The delivery records implement the key ledger: rows, requests, crashes and
\* lost writes never show a caller anything the ledger would not.
THEOREM Refinement == Spec => OnceOnlySpec
<1>1. Init => Promise!Init
  BY DEF Init, Promise!Init, Promise!Open, LedgerOf, NoRow, NewReq
<1>2. Inv /\ Inv' /\ [Next]_vars => Promise!Next \/ UNCHANGED Promise!vars
  <2> SUFFICES ASSUME Inv, Inv', [Next]_vars  PROVE Promise!Next \/ UNCHANGED Promise!vars
    OBVIOUS
  <2>1. CASE Crash
    <3>1. \A s \in Request : /\ req'[s].replayed = req[s].replayed
                             /\ req'[s].holds = req[s].holds /\ req'[s].key = req[s].key
      <4>1. \A s \in Request : req[s] \in Req  BY DEF Inv, TypeOK
      <4> QED  BY <2>1, <4>1 DEF Crash, Req
    <3> QED  BY <2>1, <3>1, StutterStep DEF Crash
  <2>2. CASE UNCHANGED vars  BY <2>2, StutterStep DEF vars
  <2> QED  BY <2>1, <2>2, RequestRefines DEF Next
<1> QED  BY <1>1, <1>2, InvAlways, PTL DEF Spec, OnceOnlySpec, Promise!Spec
=============================================================================
