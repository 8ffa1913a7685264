---------------------------- MODULE CardsProofs -----------------------------
(***************************************************************************)
(* Proofs about the questions and approvals, for any number of cards,      *)
(* turns, conversations, calls and restarts; about the keys the servers of *)
(* tools are started with; about the tools that are offered; about the     *)
(* proposals that are put before people; and about the task that is run    *)
(* without the server.                                                     *)
(*                                                                         *)
(* Of the cards: a card waits as long as it is an entry of the queue of    *)
(* its kind, each handler that takes the entry out closes the card in the  *)
(* same step, and a card that has not been closed has not been decided.    *)
(* So whoever finds the entry is the first and only one to decide.         *)
(***************************************************************************)
EXTENDS Cards, Credentials, ToolRegistry, Proposals, Headless, FiniteSetTheorems,
        SequenceTheorems, TLAPS

\* A card is an entry of the queue of its kind exactly while its tool waits.
QueueInv ==
  /\ \A q \in {"ask", "approval"} : \A i \in DOMAIN pending[q] :
       /\ card[pending[q][i]].pc = "waiting"
       /\ QueueOf(card[pending[q][i]].kind) = q
  /\ \A c \in Waiting : c \in ToSet(pending[QueueOf(card[c].kind)])

\* Whose a card is and what has been decided of it.
DecidedInv ==
  \A c \in Card :
    /\ card[c].pc \in {"waiting", "closed"} => card[c].call \in Calls /\ card[c].turn \in Turn
    /\ card[c].pc = "waiting" => card[c].kind \in Kind
    /\ card[c].pc # "closed" => told[c] = {} /\ card[c].verdict = None
    /\ told[c] \subseteq {card[c].verdict}

Guarded(call) == call.permission = "guard" /\ call.tool \in GuardTool
Unconfined(call) ==
  call.tool \in CommandTool /\ call.permission # "full" /\ call.enforcement = "none"
Approved(c) == card[c].pc = "closed" /\ told[c] = {"approve"}

\* What stands behind a call that ran, and behind a confirmed conversation.
RanInv ==
  /\ \A c \in Card : card[c].kind = "guard" => Guarded(card[c].call)
  /\ \A c \in Card :
       card[c].pc = "closed" /\ card[c].outcome = "ran" /\ ~card[c].call.allowed =>
         \/ card[c].kind \in {"guard", "sandbox"} /\ Approved(c)
         \/ /\ ~Guarded(card[c].call)
            /\ Unconfined(card[c].call) => ConvOfCard(c) \in sandboxApproved
  /\ \A held \in sandboxApproved : \E d \in Card :
       Approved(d) /\ card[d].kind = "sandbox" /\ ConvOfCard(d) = held

Inv == TypeOK /\ QueueInv /\ DecidedInv /\ RanInv

-----------------------------------------------------------------------------
(* The queues.                                                             *)

\* Without one of its entries a queue has the others, each still once.
LEMMA RemoveAtEntry ==
  ASSUME NEW S, NEW s \in Seq(S), IsInjective(s), NEW i \in DOMAIN s
  PROVE  /\ RemoveAt(s, i) \in Seq(S)
         /\ IsInjective(RemoveAt(s, i))
         /\ ToSet(RemoveAt(s, i)) = ToSet(s) \ {s[i]}
<1> DEFINE n == Len(s)
           r == RemoveAt(s, i)
<1>1. n \in Nat /\ DOMAIN s = 1..n /\ i \in 1..n /\ \A j \in 1..n : s[j] \in S
  BY LenProperties, ElementOfSeq
<1>2. /\ SubSeq(s, 1, i - 1) \in Seq(S)
      /\ Len(SubSeq(s, 1, i - 1)) = i - 1
      /\ \A j \in 1..(i - 1) : SubSeq(s, 1, i - 1)[j] = s[j]
  BY <1>1, SubSeqProperties
<1>3. /\ SubSeq(s, i + 1, n) \in Seq(S)
      /\ Len(SubSeq(s, i + 1, n)) = n - i
      /\ \A j \in 1..(n - i) : SubSeq(s, i + 1, n)[j] = s[i + j]
  <2>1. \A j \in (i + 1)..n : s[j] \in S
    BY <1>1
  <2>2. /\ SubSeq(s, i + 1, n) \in Seq(S)
        /\ Len(SubSeq(s, i + 1, n)) = IF i + 1 <= n THEN n - (i + 1) + 1 ELSE 0
        /\ \A j \in 1..(n - (i + 1) + 1) : SubSeq(s, i + 1, n)[j] = s[i + 1 + j - 1]
    BY <1>1, <2>1, i + 1 \in Int, n \in Int, SubSeqProperties
  <2>3. (IF i + 1 <= n THEN n - (i + 1) + 1 ELSE 0) = n - i /\ n - (i + 1) + 1 = n - i
    BY <1>1
  <2>4. \A j \in 1..(n - i) : i + 1 + j - 1 = i + j
    BY <1>1
  <2> HIDE DEF n
  <2> QED  BY <2>2, <2>3, <2>4
<1>4. /\ r \in Seq(S) /\ Len(r) = n - 1
      /\ \A j \in 1..(n - 1) : r[j] = IF j <= i - 1 THEN s[j] ELSE s[j + 1]
  <2> DEFINE a == SubSeq(s, 1, i - 1)
             b == SubSeq(s, i + 1, n)
  <2>1. r = a \o b
    BY DEF RemoveAt
  <2>2. /\ a \o b \in Seq(S) /\ Len(a \o b) = Len(a) + Len(b)
        /\ \A j \in 1..(Len(a) + Len(b)) :
             (a \o b)[j] = IF j <= Len(a) THEN a[j] ELSE b[j - Len(a)]
    BY <1>2, <1>3, ConcatProperties
  <2> HIDE DEF a, b, r
  <2>3. Len(a) + Len(b) = n - 1
    BY <1>1, <1>2, <1>3 DEF a, b
  <2>4. ASSUME NEW j \in 1..(n - 1)
        PROVE  r[j] = IF j <= i - 1 THEN s[j] ELSE s[j + 1]
    <3>1. CASE j <= i - 1
      <4>0. j \in 1..(i - 1) /\ Len(a) = i - 1 /\ j \in 1..(Len(a) + Len(b))
        BY <1>1, <1>2, <2>3, <3>1 DEF a, b
      <4>1. r[j] = a[j] /\ j \in 1..(i - 1)
        BY <2>1, <2>2, <3>1, <4>0
      <4> QED  BY <1>2, <3>1, <4>1 DEF a
    <3>2. CASE ~(j <= i - 1)
      <4>0. Len(a) = i - 1 /\ j \in 1..(Len(a) + Len(b))
        BY <1>2, <2>3 DEF a
      <4>4. j - (i - 1) \in 1..(n - i)
        BY <1>1, <3>2
      <4>1. r[j] = b[j - (i - 1)] /\ j - (i - 1) \in 1..(n - i)
        BY <2>1, <2>2, <3>2, <4>0, <4>4
      <4>2. b[j - (i - 1)] = s[i + (j - (i - 1))]
        BY <1>3, <4>1 DEF b
      <4>3. i + (j - (i - 1)) = j + 1
        BY <1>1
      <4> QED  BY <3>2, <4>1, <4>2, <4>3
    <3> QED  BY <3>1, <3>2
  <2> QED  BY <2>1, <2>2, <2>3, <2>4
<1> HIDE DEF r, n
<1>5. DOMAIN r = 1..(n - 1)
  BY <1>1, <1>4, LenProperties
<1> DEFINE k(j) == IF j <= i - 1 THEN j ELSE j + 1
<1>9. \A j \in 1..(n - 1) : k(j) \in 1..n /\ k(j) # i /\ r[j] = s[k(j)]
  BY <1>1, <1>4
<1>6. IsInjective(r)
  <2>1. \A j, l \in 1..(n - 1) : k(j) = k(l) => j = l
    BY <1>1
  <2> HIDE DEF k
  <2>2. \A j, l \in 1..(n - 1) : r[j] = r[l] => k(j) = k(l)
    BY <1>1, <1>9 DEF IsInjective
  <2> QED  BY <1>5, <2>1, <2>2 DEF IsInjective
<1>7. ToSet(r) = ToSet(s) \ {s[i]}
  <2>1. ASSUME NEW e \in ToSet(r)
        PROVE  e \in ToSet(s) \ {s[i]}
    <3>1. PICK j \in 1..(n - 1) : e = r[j]
      BY <1>5 DEF ToSet
    <3>2. k(j) \in 1..n /\ k(j) # i /\ e = s[k(j)]
      BY <1>9, <3>1
    <3> HIDE DEF k
    <3> QED  BY <1>1, <3>2 DEF ToSet, IsInjective
  <2>2. ASSUME NEW e \in ToSet(s), e # s[i]
        PROVE  e \in ToSet(r)
    <3>1. PICK l \in 1..n : e = s[l]
      BY <1>1 DEF ToSet
    <3> DEFINE j == IF l <= i - 1 THEN l ELSE l - 1
    <3>2. l # i
      BY <2>2, <3>1
    <3>3. j \in 1..(n - 1) /\ k(j) = l
      BY <1>1, <3>2
    <3>4. e = r[j]
      BY <1>9, <3>1, <3>3
    <3> HIDE DEF j
    <3> QED  BY <1>5, <3>3, <3>4 DEF ToSet
  <2> QED  BY <2>1, <2>2
<1> QED  BY <1>4, <1>6, <1>7 DEF r

\* A queue with one more card has it once, when it did not have it.
LEMMA AppendEntry ==
  ASSUME NEW S, NEW s \in Seq(S), IsInjective(s), NEW e \in S, e \notin ToSet(s)
  PROVE  /\ Append(s, e) \in Seq(S)
         /\ IsInjective(Append(s, e))
         /\ ToSet(Append(s, e)) = ToSet(s) \cup {e}
<1> DEFINE n == Len(s)
           r == Append(s, e)
<1>1. n \in Nat /\ DOMAIN s = 1..n
  BY LenProperties
<1>2. /\ r \in Seq(S) /\ Len(r) = n + 1
      /\ \A i \in 1..n : r[i] = s[i]
      /\ r[n + 1] = e
  BY AppendProperties
<1> HIDE DEF n, r
<1>3. DOMAIN r = 1..(n + 1)
  BY <1>2, LenProperties
<1>4. \A i \in 1..n : s[i] # e
  BY <1>1 DEF ToSet
<1>5. IsInjective(r)
  <2> SUFFICES ASSUME NEW i \in 1..(n + 1), NEW j \in 1..(n + 1), r[i] = r[j]
               PROVE  i = j
    BY <1>3 DEF IsInjective
  <2>1. CASE i = n + 1 /\ j = n + 1
    BY <2>1
  <2>2. CASE i = n + 1 /\ j \in 1..n
    BY <1>2, <1>4, <2>2
  <2>3. CASE i \in 1..n /\ j = n + 1
    BY <1>2, <1>4, <2>3
  <2>4. CASE i \in 1..n /\ j \in 1..n
    BY <1>1, <1>2, <2>4 DEF IsInjective
  <2> QED  BY <1>1, <2>1, <2>2, <2>3, <2>4
<1>6. ToSet(r) = ToSet(s) \cup {e}
  <2>1. ASSUME NEW f \in ToSet(r) PROVE f \in ToSet(s) \cup {e}
    <3>1. PICK i \in 1..(n + 1) : f = r[i]
      BY <1>3 DEF ToSet
    <3>2. CASE i = n + 1
      BY <1>2, <3>1, <3>2
    <3>3. CASE i \in 1..n
      BY <1>1, <1>2, <3>1, <3>3 DEF ToSet
    <3> QED  BY <1>1, <3>2, <3>3
  <2>2. ASSUME NEW f \in ToSet(s) PROVE f \in ToSet(r)
    <3>1. PICK i \in 1..n : f = s[i]
      BY <1>1 DEF ToSet
    <3>2. i \in 1..(n + 1) /\ f = r[i]
      BY <1>1, <1>2, <3>1
    <3> QED  BY <1>3, <3>2 DEF ToSet
  <2>3. e \in ToSet(r)
    <3>1. n + 1 \in 1..(n + 1)
      BY <1>1
    <3> QED  BY <1>2, <1>3, <3>1 DEF ToSet
  <2> QED  BY <2>1, <2>2, <2>3
<1> QED  BY <1>2, <1>5, <1>6 DEF r

-----------------------------------------------------------------------------
(* The invariant.                                                          *)

LEMMA InvInit == Init => Inv
<1> SUFFICES ASSUME Init PROVE Inv
  OBVIOUS
<1>1. \A q \in {"ask", "approval"} : DOMAIN pending[q] = {} /\ pending[q] \in Seq(Card)
  BY EmptySeq DEF Init
<1>2. \A c \in Card : card[c] = Unused /\ told[c] = {}
  BY DEF Init
<1>3. Unused \in CardRec
  BY DEF Unused, CardRec
<1>4. TypeOK
  BY <1>1, <1>2, <1>3, CardsAssumption DEF Init, TypeOK, IsInjective
<1>5. QueueInv
  BY <1>1, <1>2 DEF QueueInv, Waiting, Unused
<1>6. DecidedInv
  BY <1>2 DEF DecidedInv, Unused
<1>7. RanInv
  BY <1>2, CardsAssumption DEF Init, RanInv, Unused
<1> QED  BY <1>4, <1>5, <1>6, <1>7 DEF Inv

\* A waiting card is decided: its entry goes and it is closed, in one step.
LEMMA CloseInv ==
  ASSUME Inv, NEW c \in Waiting, NEW v \in Verdict, Delete(c), Wakes(c, v),
         told' = [told EXCEPT ![c] = @ \cup {v}] \/ (told' = told /\ v # "approve"),
         UNCHANGED <<stopped, crashes>>
  PROVE  Inv'
<1> DEFINE k == card[c].kind
           q == QueueOf(k)
           r == [card[c] EXCEPT !.pc = "closed", !.born = 0, !.verdict = v,
                                !.outcome = Outcome(k, v)]
<1>1. /\ TypeOK /\ c \in Card /\ card[c] \in CardRec /\ card[c].pc = "waiting"
      /\ k \in Kind /\ q \in {"ask", "approval"} /\ c \in ToSet(pending[q])
      /\ card[c].call \in Calls /\ card[c].turn \in Turn /\ told[c] = {}
  BY DEF Inv, TypeOK, QueueInv, DecidedInv, Waiting, QueueOf, Kind
<1>2. Outcome(k, v) \in {"ran", "chosen", "refused"} /\ (Outcome(k, v) = "ran" => v = "approve" /\ k # "ask")
  BY DEF Outcome
<1>3. /\ card' = [card EXCEPT ![c] = r] /\ r \in CardRec
      /\ r.pc = "closed" /\ r.verdict = v /\ r.outcome = Outcome(k, v)
      /\ r.kind = k /\ r.turn = card[c].turn /\ r.call = card[c].call
  <2>1. card' = [card EXCEPT ![c] = r]
    BY <1>1 DEF Wakes, TypeOK
  <2>2. r \in CardRec /\ r.pc = "closed" /\ r.verdict = v /\ r.outcome = Outcome(k, v)
        /\ r.kind = k /\ r.turn = card[c].turn /\ r.call = card[c].call
    BY <1>1, <1>2 DEF CardRec
  <2> QED  BY <2>1, <2>2
<1> HIDE DEF r
<1>4. card'[c] = r /\ \A d \in Card \ {c} : card'[d] = card[d]
  BY <1>1, <1>3 DEF TypeOK
<1>5. /\ told'[c] \subseteq {v} /\ (v = "approve" => told'[c] = {"approve"})
      /\ \A d \in Card \ {c} : told'[d] = told[d]
      /\ told' \in [Card -> SUBSET Verdict]
  BY <1>1 DEF TypeOK
<1>6. PICK i \in DOMAIN pending[q] : pending[q][i] = c
  BY <1>1 DEF ToSet
<1>7. /\ At(pending[q], c) \in DOMAIN pending[q] /\ pending[q][At(pending[q], c)] = c
  BY <1>6 DEF At
<1> DEFINE s == RemoveAt(pending[q], At(pending[q], c))
<1>8. pending' = [pending EXCEPT ![q] = s]
  BY <1>1 DEF Delete
<1>9. s \in Seq(Card) /\ IsInjective(s) /\ ToSet(s) = ToSet(pending[q]) \ {c}
  BY <1>1, <1>7, RemoveAtEntry DEF TypeOK
<1> HIDE DEF s
<1>10. /\ DOMAIN pending' = {"ask", "approval"} /\ pending'[q] = s
       /\ \A p \in {"ask", "approval"} \ {q} : pending'[p] = pending[p]
  BY <1>1, <1>8 DEF TypeOK
<1>11. ConvOf[card[c].turn] \in Conv
  BY <1>1, CardsAssumption
<1>12. TypeOK'
  <2>1. card' \in [Card -> CardRec]
    BY <1>1, <1>3 DEF TypeOK
  <2>2. \A p \in {"ask", "approval"} : pending'[p] \in Seq(Card) /\ IsInjective(pending'[p])
    BY <1>1, <1>9, <1>10 DEF TypeOK
  <2>3. sandboxApproved' \subseteq Conv
    BY <1>1, <1>11 DEF TypeOK, Wakes, ConvOfCard
  <2> QED  BY <1>1, <1>5, <1>10, <2>1, <2>2, <2>3 DEF TypeOK
<1>13. QueueInv'
  <2>1. ASSUME NEW p \in {"ask", "approval"}, NEW j \in DOMAIN pending'[p]
        PROVE  /\ pending'[p][j] \in Card /\ card'[pending'[p][j]].pc = "waiting"
               /\ QueueOf(card'[pending'[p][j]].kind) = p
    <3>1. pending'[p][j] \in ToSet(pending[p]) \ {c}
      <4>1. CASE p = q
        BY <1>9, <1>10, <2>1, <4>1 DEF ToSet
      <4>2. CASE p # q
        <5>1. pending'[p] = pending[p]
          BY <1>10, <4>2
        <5>2. c \notin ToSet(pending[p])
          BY <4>2 DEF Inv, QueueInv, ToSet
        <5> QED  BY <2>1, <5>1, <5>2 DEF ToSet
      <4> QED  BY <4>1, <4>2
    <3>2. PICK l \in DOMAIN pending[p] : pending'[p][j] = pending[p][l] /\ pending[p][l] # c
      BY <3>1 DEF ToSet
    <3>3. pending[p][l] \in Card
      BY <1>1, LenProperties, ElementOfSeq DEF TypeOK
    <3> QED  BY <1>4, <3>2, <3>3 DEF Inv, QueueInv
  <2>2. ASSUME NEW d \in Card, card'[d].pc = "waiting"
        PROVE  d \in ToSet(pending'[QueueOf(card'[d].kind)])
    <3>1. d # c /\ card'[d] = card[d] /\ d \in Waiting
      BY <1>3, <1>4, <2>2 DEF Waiting
    <3>2. QueueOf(card[d].kind) \in {"ask", "approval"} /\ d \in ToSet(pending[QueueOf(card[d].kind)])
      BY <3>1 DEF Inv, QueueInv, QueueOf
    <3> QED  BY <1>9, <1>10, <3>1, <3>2
  <2> QED  BY <2>1, <2>2 DEF QueueInv, Waiting
<1>14. DecidedInv'
  BY <1>1, <1>3, <1>4, <1>5 DEF Inv, DecidedInv
<1>15. RanInv'
  <2>1. ASSUME NEW d \in Card, card'[d].kind = "guard"
        PROVE  Guarded(card'[d].call)
    BY <1>3, <1>4, <2>1 DEF Inv, RanInv
  <2>2. ConvOfCard(c)' = ConvOfCard(c) /\ \A d \in Card : ConvOfCard(d)' = ConvOfCard(d)
    BY <1>1, <1>3, <1>4 DEF ConvOfCard
  <2>3. \A d \in Card : Approved(d) => Approved(d)' /\ d # c
    BY <1>1, <1>4, <1>5 DEF Approved
  <2>4. sandboxApproved \subseteq sandboxApproved'
    BY DEF Wakes
  <2>5. ASSUME NEW d \in Card, card'[d].pc = "closed", card'[d].outcome = "ran",
               ~card'[d].call.allowed
        PROVE  \/ card'[d].kind \in {"guard", "sandbox"} /\ Approved(d)'
               \/ /\ ~Guarded(card'[d].call)
                  /\ Unconfined(card'[d].call) => ConvOfCard(d)' \in sandboxApproved'
    <3>1. CASE d = c
      BY <1>1, <1>2, <1>3, <1>4, <1>5, <2>5, <3>1 DEF Approved, Kind
    <3>2. CASE d # c
      BY <1>4, <2>2, <2>3, <2>4, <2>5, <3>2 DEF Inv, RanInv
    <3> QED  BY <3>1, <3>2
  <2>6. ASSUME NEW held \in sandboxApproved'
        PROVE  \E d \in Card : Approved(d)' /\ card'[d].kind = "sandbox" /\ ConvOfCard(d)' = held
    <3>1. CASE held \in sandboxApproved
      <4>1. PICK d \in Card : Approved(d) /\ card[d].kind = "sandbox" /\ ConvOfCard(d) = held
        BY <3>1 DEF Inv, RanInv
      <4> QED  BY <1>4, <2>2, <2>3, <4>1
    <3>2. CASE held \notin sandboxApproved
      <4>1. k = "sandbox" /\ v = "approve" /\ held = ConvOfCard(c)
        BY <3>2 DEF Wakes
      <4>2. Approved(c)' /\ card'[c].kind = "sandbox"
        BY <1>3, <1>4, <1>5, <4>1 DEF Approved
      <4> QED  BY <1>1, <2>2, <4>1, <4>2
    <3> QED  BY <3>1, <3>2
  <2> QED  BY <2>1, <2>5, <2>6 DEF RanInv
<1> QED  BY <1>12, <1>13, <1>14, <1>15 DEF Inv

\* A call's card at its creation.
LEMMA FreshCard ==
  ASSUME NEW c, NEW t \in Turn, NEW call \in Calls, NEW kind \in Kind \cup {None}
  PROVE  /\ Fresh(c, t, call, kind) \in CardRec
         /\ Fresh(c, t, call, kind).call = call
         /\ Fresh(c, t, call, kind).kind = kind
         /\ Fresh(c, t, call, kind).turn = t
         /\ Fresh(c, t, call, kind).verdict = None
BY DEF Fresh, Unused, CardRec

\* A call that needs no person, or finds none: its card is closed unseen.
LEMMA PassInv ==
  ASSUME Inv, NEW c \in Card, NEW t \in Turn, NEW call \in Calls,
         CallRuns(c, t, call) \/ CallQueued(c, t, call)
  PROVE  Inv'
<1> DEFINE needed == needsApproval(call, ConvOf[t] \in sandboxApproved)
<1>1. needed \in Kind \cup {None} /\ None \notin Kind
  BY CardsAssumption DEF needsApproval, Kind
<1>2. /\ needed = None => ~Guarded(call) /\ (Unconfined(call) => ConvOf[t] \in sandboxApproved)
      /\ needed = "guard" => Guarded(call)
  BY <1>1, CardsAssumption DEF needsApproval, Guarded, Unconfined, Kind
<1> HIDE DEF needed
<1>3. PICK kind \in Kind \cup {None}, outcome \in {"ran", "refused"} :
        /\ card' = [card EXCEPT ![c] = [Fresh(c, t, call, kind) EXCEPT !.pc = "closed",
                                                                !.outcome = outcome]]
        /\ outcome = "ran" => kind = needed /\ (call.allowed \/ needed = None)
        /\ outcome = "refused" => kind = None
  <2>1. CASE CallRuns(c, t, call)
    BY <1>1, <2>1, Zenon DEF CallRuns, needed
  <2>2. CASE CallQueued(c, t, call)
    BY <2>2, Zenon DEF CallQueued
  <2> QED  BY <2>1, <2>2
<1> DEFINE f == Fresh(c, t, call, kind)
           r == [f EXCEPT !.pc = "closed", !.outcome = outcome]
<1>16. f \in CardRec /\ f.call = call /\ f.kind = kind /\ f.turn = t /\ f.verdict = None
  BY FreshCard
<1>5. card' = [card EXCEPT ![c] = r]
  BY <1>3
<1> HIDE DEF f
<1>4. /\ r \in CardRec /\ r.pc = "closed" /\ r.call = call /\ r.kind = kind /\ r.turn = t
      /\ r.verdict = None /\ r.outcome = outcome
  BY <1>16 DEF CardRec
<1> HIDE DEF r
<1>6. TypeOK /\ card'[c] = r /\ \A d \in Card \ {c} : card'[d] = card[d]
  BY <1>5 DEF Inv, TypeOK
<1>7. /\ card[c].pc = "unused" /\ told[c] = {}
      /\ UNCHANGED <<pending, sandboxApproved, stopped, told, crashes>>
  <2>1. card[c].pc = "unused" /\ UNCHANGED <<pending, sandboxApproved, stopped, told, crashes>>
    BY DEF CallRuns, CallQueued
  <2> QED  BY <2>1 DEF Inv, DecidedInv
<1>8. TypeOK'
  BY <1>4, <1>5, <1>6, <1>7 DEF TypeOK
<1>9. QueueInv'
  <2>1. ASSUME NEW p \in {"ask", "approval"}, NEW j \in DOMAIN pending[p]
        PROVE  card'[pending[p][j]] = card[pending[p][j]]
    <3>1. pending[p][j] \in Card /\ card[pending[p][j]].pc = "waiting"
      BY <1>6, LenProperties, ElementOfSeq DEF TypeOK, Inv, QueueInv
    <3> QED  BY <1>6, <1>7, <3>1
  <2>2. Waiting' = Waiting /\ c \notin Waiting
    BY <1>4, <1>6, <1>7 DEF Waiting
  <2>3. \A d \in Waiting : card'[d] = card[d]
    BY <1>6, <2>2 DEF Waiting
  <2> QED  BY <1>7, <2>1, <2>2, <2>3 DEF Inv, QueueInv
<1>10. DecidedInv'
  BY <1>4, <1>6, <1>7 DEF Inv, DecidedInv
<1>11. RanInv'
  <2>1. \A d \in Card \ {c} : ConvOfCard(d)' = ConvOfCard(d) /\ (Approved(d) => Approved(d)')
    BY <1>6, <1>7 DEF ConvOfCard, Approved
  <2>2. ~Approved(c) /\ ConvOfCard(c)' = ConvOf[t]
    BY <1>4, <1>6, <1>7 DEF Approved, ConvOfCard
  <2>3. kind = "guard" => Guarded(call)
    BY <1>2, <1>3, CardsAssumption
  <2>4. outcome = "ran" /\ ~call.allowed =>
          ~Guarded(call) /\ (Unconfined(call) => ConvOf[t] \in sandboxApproved)
    BY <1>2, <1>3
  <2>5. \A d \in Card : card'[d].kind = "guard" => Guarded(card'[d].call)
    BY <1>4, <1>6, <2>3 DEF Inv, RanInv
  <2>6. ASSUME NEW d \in Card, card'[d].pc = "closed", card'[d].outcome = "ran",
               ~card'[d].call.allowed
        PROVE  \/ card'[d].kind \in {"guard", "sandbox"} /\ Approved(d)'
               \/ /\ ~Guarded(card'[d].call)
                  /\ Unconfined(card'[d].call) => ConvOfCard(d)' \in sandboxApproved'
    <3>1. CASE d = c
      BY <1>4, <1>6, <1>7, <2>2, <2>4, <2>6, <3>1
    <3>2. CASE d # c
      BY <1>6, <1>7, <2>1, <2>6, <3>2 DEF Inv, RanInv
    <3> QED  BY <3>1, <3>2
  <2>7. \A held \in sandboxApproved' : \E d \in Card :
           Approved(d)' /\ card'[d].kind = "sandbox" /\ ConvOfCard(d)' = held
    BY <1>6, <1>7, <2>1, <2>2 DEF Inv, RanInv
  <2> QED  BY <2>5, <2>6, <2>7 DEF RanInv
<1> QED  BY <1>8, <1>9, <1>10, <1>11 DEF Inv

\* A call that waits is a new entry of its queue.
LEMMA WaitInv ==
  ASSUME Inv, NEW c \in Card, NEW t \in Turn, NEW call \in Calls, CallWaits(c, t, call)
  PROVE  Inv'
<1> DEFINE kind == needsApproval(call, ConvOf[t] \in sandboxApproved)
           q == QueueOf(kind)
<1>1. /\ kind \in Kind /\ q \in {"ask", "approval"} /\ q = QueueOf(kind)
      /\ kind = "guard" => Guarded(call)
  BY CardsAssumption DEF CallWaits, AsksPerson, needsApproval, Kind, QueueOf, Guarded
<1>2. pending' = [pending EXCEPT ![q] = Append(@, c)]
  BY DEF CallWaits
<1>3. PICK born \in Born : card' = [card EXCEPT ![c] = [Fresh(c, t, call, kind) EXCEPT
                                                         !.pc = "waiting", !.born = born]]
  BY DEF CallWaits
<1> HIDE DEF kind, q
<1>4. born \in Nat
  <2>1. \A d \in Card : card[d].born \in Nat /\ card[d].born + 1 \in Nat
    BY DEF Inv, TypeOK, CardRec
  <2> QED  BY <1>3, <2>1 DEF Born
<1> DEFINE f == Fresh(c, t, call, kind)
           r == [f EXCEPT !.pc = "waiting", !.born = born]
<1>16. f \in CardRec /\ f.call = call /\ f.kind = kind /\ f.turn = t /\ f.verdict = None
  BY <1>1, FreshCard
<1>5. card' = [card EXCEPT ![c] = r]
  BY <1>3
<1> HIDE DEF f
<1>6. /\ r \in CardRec /\ r.pc = "waiting" /\ r.call = call /\ r.kind = kind /\ r.turn = t
      /\ r.verdict = None
  BY <1>4, <1>16 DEF CardRec
<1> HIDE DEF r
<1>7. TypeOK /\ card'[c] = r /\ \A d \in Card \ {c} : card'[d] = card[d]
  BY <1>5 DEF Inv, TypeOK
<1>8. /\ card[c].pc = "unused" /\ told[c] = {}
      /\ UNCHANGED <<sandboxApproved, stopped, told, crashes>>
  <2>1. card[c].pc = "unused" /\ UNCHANGED <<sandboxApproved, stopped, told, crashes>>
    BY DEF CallWaits
  <2> QED  BY <2>1 DEF Inv, DecidedInv
<1>9. \A p \in {"ask", "approval"} : \A i \in DOMAIN pending[p] :
        pending[p][i] \in Card \ {c} /\ card'[pending[p][i]] = card[pending[p][i]]
  <2> TAKE p \in {"ask", "approval"}
  <2> TAKE i \in DOMAIN pending[p]
  <2>1. pending[p][i] \in Card /\ card[pending[p][i]].pc = "waiting"
    BY <1>7, LenProperties, ElementOfSeq DEF TypeOK, Inv, QueueInv
  <2> QED  BY <1>7, <1>8, <2>1
<1>10. /\ Append(pending[q], c) \in Seq(Card) /\ IsInjective(Append(pending[q], c))
       /\ ToSet(Append(pending[q], c)) = ToSet(pending[q]) \cup {c}
  <2>1. c \notin ToSet(pending[q])
    BY <1>1, <1>9 DEF ToSet
  <2> QED  BY <1>1, <1>7, <2>1, AppendEntry DEF TypeOK
<1>11. /\ DOMAIN pending' = {"ask", "approval"} /\ pending'[q] = Append(pending[q], c)
       /\ \A p \in {"ask", "approval"} \ {q} : pending'[p] = pending[p]
  BY <1>1, <1>2, <1>7 DEF TypeOK
<1>12. TypeOK'
  BY <1>5, <1>6, <1>7, <1>8, <1>10, <1>11 DEF TypeOK
<1>13. QueueInv'
  <2>1. ASSUME NEW p \in {"ask", "approval"}, NEW j \in DOMAIN pending'[p]
        PROVE  /\ card'[pending'[p][j]].pc = "waiting"
               /\ QueueOf(card'[pending'[p][j]].kind) = p
    <3>1. CASE pending'[p][j] = c
      <4>1. p = q
        BY <1>9, <1>11, <2>1, <3>1
      <4> QED  BY <1>1, <1>6, <1>7, <3>1, <4>1
    <3>2. CASE pending'[p][j] # c
      <4>1. pending'[p][j] \in ToSet(pending[p])
        <5>1. CASE p = q
          BY <1>10, <1>11, <2>1, <3>2, <5>1 DEF ToSet
        <5>2. CASE p # q
          BY <1>11, <2>1, <5>2 DEF ToSet
        <5> QED  BY <5>1, <5>2
      <4>2. PICK i \in DOMAIN pending[p] : pending'[p][j] = pending[p][i]
        BY <4>1 DEF ToSet
      <4> QED  BY <1>9, <4>2 DEF Inv, QueueInv
    <3> QED  BY <3>1, <3>2
  <2>2. ASSUME NEW d \in Card, card'[d].pc = "waiting"
        PROVE  d \in ToSet(pending'[QueueOf(card'[d].kind)])
    <3>1. CASE d = c
      BY <1>1, <1>6, <1>7, <1>10, <1>11, <3>1
    <3>2. CASE d # c
      <4>1. card'[d] = card[d] /\ d \in Waiting
        BY <1>7, <2>2, <3>2 DEF Waiting
      <4>2. QueueOf(card[d].kind) \in {"ask", "approval"}
            /\ d \in ToSet(pending[QueueOf(card[d].kind)])
        BY <4>1 DEF Inv, QueueInv, QueueOf
      <4> QED  BY <1>10, <1>11, <4>1, <4>2
    <3> QED  BY <3>1, <3>2
  <2> QED  BY <2>1, <2>2 DEF QueueInv, Waiting
<1>14. DecidedInv'
  BY <1>1, <1>6, <1>7, <1>8 DEF Inv, DecidedInv
<1>15. RanInv'
  <2>1. \A d \in Card \ {c} : ConvOfCard(d)' = ConvOfCard(d) /\ (Approved(d) => Approved(d)')
    BY <1>7, <1>8 DEF ConvOfCard, Approved
  <2>2. ~Approved(c)
    BY <1>8 DEF Approved
  <2>3. \A d \in Card : card'[d].kind = "guard" => Guarded(card'[d].call)
    BY <1>1, <1>6, <1>7 DEF Inv, RanInv
  <2>4. ASSUME NEW d \in Card, card'[d].pc = "closed", card'[d].outcome = "ran",
               ~card'[d].call.allowed
        PROVE  \/ card'[d].kind \in {"guard", "sandbox"} /\ Approved(d)'
               \/ /\ ~Guarded(card'[d].call)
                  /\ Unconfined(card'[d].call) => ConvOfCard(d)' \in sandboxApproved'
    <3>1. d # c
      BY <1>6, <1>7, <2>4
    <3> QED  BY <1>7, <1>8, <2>1, <2>4, <3>1 DEF Inv, RanInv
  <2>5. \A held \in sandboxApproved' : \E d \in Card :
           Approved(d)' /\ card'[d].kind = "sandbox" /\ ConvOfCard(d)' = held
    BY <1>7, <1>8, <2>1, <2>2 DEF Inv, RanInv
  <2> QED  BY <2>3, <2>4, <2>5 DEF RanInv
<1> QED  BY <1>12, <1>13, <1>14, <1>15 DEF Inv

\* Whoever finds the entry of a card decides it while its tool waits.
LEMMA QueuedWaits == Inv => Queued = Waiting
<1> SUFFICES ASSUME Inv PROVE Queued = Waiting
  OBVIOUS
<1>1. \A q \in {"ask", "approval"} : ToSet(pending[q]) \subseteq Waiting
  <2> TAKE q \in {"ask", "approval"}
  <2>1. \A i \in DOMAIN pending[q] : pending[q][i] \in Card
    BY LenProperties, ElementOfSeq DEF Inv, TypeOK
  <2> QED  BY <2>1 DEF Inv, QueueInv, Waiting, ToSet
<1>2. \A c \in Waiting : c \in Queued
  BY DEF Inv, QueueInv, Queued, QueueOf
<1> QED  BY <1>1, <1>2 DEF Queued

LEMMA DecideInv ==
  ASSUME Inv, NEW c \in Card, NEW v \in Verdict, decide(c, v)
  PROVE  Inv'
BY QueuedWaits, CloseInv DEF decide

LEMMA CardNextInv ==
  ASSUME Inv, NEW c \in Card, CardNext(c)
  PROVE  Inv'
<1>1. CASE \E t \in Turn, call \in Calls :
             CallRuns(c, t, call) \/ CallQueued(c, t, call) \/ CallWaits(c, t, call)
  BY <1>1, PassInv, WaitInv
<1>2. CASE \E v \in Verdict : HttpAnswer(c, v)
  BY <1>2, DecideInv DEF HttpAnswer
<1>3. CASE Timeout(c)
  BY <1>3, QueuedWaits, CloseInv DEF Timeout, Verdict
<1>4. CASE Poll(c)
  BY <1>4, CloseInv DEF Poll, Verdict
<1> QED  BY <1>1, <1>2, <1>3, <1>4 DEF CardNext

LEMMA StopTurnInv ==
  ASSUME Inv, NEW t \in Turn, StopTurn(t)
  PROVE  Inv'
<1>1. TypeOK'
  BY DEF Inv, TypeOK, StopTurn
<1>2. QueueInv' /\ DecidedInv' /\ RanInv'
  BY DEF Inv, QueueInv, DecidedInv, RanInv, StopTurn, Waiting, Approved, ConvOfCard
<1> QED  BY <1>1, <1>2 DEF Inv

LEMMA CrashInv ==
  ASSUME Inv, Crash
  PROVE  Inv'
<1>1. \A q \in {"ask", "approval"} : DOMAIN pending'[q] = {} /\ pending'[q] \in Seq(Card)
  BY EmptySeq DEF Crash
<1>2. \A c \in Card : /\ card'[c] \in {Unused, Lost} /\ card'[c].pc \in {"unused", "lost"}
                      /\ card'[c].kind = None /\ card'[c].verdict = None /\ told'[c] = {}
  BY DEF Crash, Unused, Lost
<1>3. Unused \in CardRec /\ Lost \in CardRec
  BY DEF Unused, Lost, CardRec
<1>4. TypeOK'
  BY <1>1, <1>2, <1>3, CardsAssumption DEF Crash, Inv, TypeOK, IsInjective
<1>5. QueueInv'
  BY <1>1, <1>2 DEF QueueInv, Waiting
<1>6. DecidedInv'
  BY <1>2 DEF DecidedInv
<1>7. RanInv'
  BY <1>2, CardsAssumption DEF Crash, RanInv
<1> QED  BY <1>4, <1>5, <1>6, <1>7 DEF Inv

LEMMA InvStep == Inv /\ [Next]_vars => Inv'
<1> SUFFICES ASSUME Inv, [Next]_vars PROVE Inv'
  OBVIOUS
<1>1. CASE \E c \in Card : CardNext(c)
  BY <1>1, CardNextInv
<1>2. CASE \E held \in Conv, v \in Verdict : ChannelAnswer(held, v)
  <2>1. PICK held \in Conv, v \in Verdict : ChannelAnswer(held, v)
    BY <1>2
  <2>2. PICK c \in Queued : decide(c, v)
    BY <2>1 DEF ChannelAnswer
  <2>3. c \in Card
    BY <2>2, QueuedWaits DEF Waiting
  <2> QED  BY <2>2, <2>3, DecideInv
<1>3. CASE \E t \in Turn : StopTurn(t)
  BY <1>3, StopTurnInv
<1>4. CASE Crash
  BY <1>4, CrashInv
<1>5. CASE UNCHANGED vars
  <2>1. TypeOK'
    BY <1>5 DEF Inv, TypeOK, vars
  <2>2. QueueInv' /\ DecidedInv' /\ RanInv'
    BY <1>5 DEF Inv, QueueInv, DecidedInv, RanInv, vars, Waiting, Approved, ConvOfCard
  <2> QED  BY <2>1, <2>2 DEF Inv
<1> QED  BY <1>1, <1>2, <1>3, <1>4, <1>5 DEF Next

LEMMA InvHolds == Spec => []Inv
BY InvInit, InvStep, PTL DEF Spec

-----------------------------------------------------------------------------
\* The browser, the channel, the timer and the stop may answer a card in any
\* order and at any moment: who is told that his answer was taken decided it, and
\* no entry outlives the wait it stands for (asks.js, approval.js, cards.js).
THEOREM CardsAreSafe == Spec => []CardsSafe
<1>1. Inv => CardsSafe
  BY QueuedWaits DEF Inv, CardsSafe, AcknowledgedDecides, QueueIsWaiting, DecidedInv
<1> QED  BY <1>1, InvHolds, PTL

\* No tool that must be approved runs without its own approval, and no command
\* runs unconfined in a conversation nobody has confirmed since the process
\* started (tools/index.js, the two gates before execution).
THEOREM OnlyApprovedRuns == Spec => []RunsOnlyApproved
<1>1. Inv => RunsOnlyApproved
  <2> SUFFICES ASSUME Inv, NEW c \in Card, card[c].pc = "closed", card[c].outcome = "ran",
                      ~card[c].call.allowed
               PROVE  IF Guarded(card[c].call) THEN Approved(c)
                      ELSE Unconfined(card[c].call)
                           => \E d \in Card : /\ Approved(d)
                                              /\ card[d].kind = "sandbox"
                                              /\ ConvOfCard(d) = ConvOfCard(c)
    BY DEF RunsOnlyApproved, Guarded, Unconfined, Approved
  <2>1. CASE card[c].kind \in {"guard", "sandbox"} /\ Approved(c)
    BY <2>1 DEF Inv, RanInv
  <2>2. CASE ~Guarded(card[c].call) /\ (Unconfined(card[c].call) => ConvOfCard(c) \in sandboxApproved)
    BY <2>2 DEF Inv, RanInv
  <2> QED  BY <2>1, <2>2 DEF Inv, RanInv
<1> QED  BY <1>1, InvHolds, PTL
-----------------------------------------------------------------------------
(* The keys of the servers of tools.  The argument: while the two scripts  *)
(* do not write the document at one time, each writes it as it is, with    *)
(* one line more or changed, so a line never goes away and a reference     *)
(* that led to a key still does; and the migration's copy of the settings  *)
(* differs from them by references only, unless the page saved meanwhile.  *)

KeyConstants ==
  /\ Nothing # BlankText /\ Nothing # Ref /\ Nothing # Placeholder /\ BlankText # Ref
  /\ BlankText # Placeholder /\ Ref # Placeholder
  /\ Nothing \notin Plain /\ BlankText \notin Plain /\ Ref \notin Plain /\ Placeholder \notin Plain
  /\ Env \in [Keys -> Plain \cup {Nothing}] /\ DotEnv \in [Keys -> Plain \cup {Nothing}]
  /\ Documents \subseteq [Keys -> Plain \cup {Nothing, BlankText}]
  /\ Settings \subseteq [Servers -> [Keys -> Plain \cup {Nothing, BlankText}]]

Walk == [at : {"walk"}, next : Settled, store : [Keys -> Text],
         todo : SUBSET (Servers \X Keys), changed : BOOLEAN]
Moves == {NoMigration} \cup [at : {"read"}, next : Settled] \cup Walk
         \cup [at : {"write"}, walk : Walk, s : Servers, k : Keys, held : [Keys -> Text]]
Changes == {NoRotation} \cup [at : {"write"}, k : Keys, text : Plain, held : [Keys -> Text]]

\* A page shows no references.
Pages == [Servers -> [Keys -> Text]]
KeysTypes ==
  /\ document \in [Keys -> Text] /\ settings \in Settled
  /\ migration \in Moves /\ rotation \in Changes
  /\ page \in [Admins -> Pages \cup {Nothing}] /\ saving \in [Admins -> Settled \cup {Nothing}]
  /\ rotated \in [Keys -> Plain \cup {Nothing}] /\ raced \subseteq {"document", "settings"}

\* The migration's copy of the settings, and of the document.
Copy == IF migration.at = "write" THEN migration.walk ELSE migration
\* A line that is there and empty, or a key.
Found(k) == document[k] = BlankText \/ Secret(k) # Nothing

\* About to be moved: a text that is one, and that the document has no line for.
MovingInv ==
  migration.at = "write" =>
    /\ migration.walk.next[migration.s][migration.k] \notin {Ref, Nothing, BlankText}
    /\ migration.walk.store[migration.k] = Nothing /\ Env[migration.k] = Nothing

\* The document as the scripts know it is the document as it is.
DocumentInv ==
  "document" \notin raced =>
    /\ migration.at = "write" => migration.held = document
    /\ rotation.at = "write" => rotation.held = document
    /\ migration.at \in {"walk", "write"} =>
         \A k \in Keys : Copy.store[k] = Nothing <=> document[k] = Nothing
    /\ \A k \in Keys : rotated[k] # Nothing => document[k] = rotated[k]

\* References, wherever they are kept, lead somewhere.
RefsInv ==
  "document" \notin raced =>
    \A s \in Servers, k \in Keys :
      /\ settings[s][k] = Ref => Found(k)
      /\ \A a \in Admins : saving[a] # Nothing /\ saving[a][s][k] = Ref => Found(k)
      /\ migration.at # "none" /\ Copy.next[s][k] = Ref => Found(k)

\* The copy of the settings differs from them by references.
CopyInv ==
  "settings" \notin raced /\ migration.at # "none" =>
    \A s \in Servers, k \in Keys : Copy.next[s][k] \in {Ref, settings[s][k]}

TakenAway(k) == \E t \in Servers : <<t, k>> \in gone
PlaceholderInv ==
  \A s \in Servers, k \in Keys :
    /\ settings[s][k] = Placeholder => TakenAway(k)
    /\ migration.at # "none" /\ Copy.next[s][k] = Placeholder => TakenAway(k)
    /\ \A a \in Admins :
         /\ page[a] # Nothing /\ page[a][s][k] = Placeholder =>
              settings[s][k] # Nothing \/ TakenAway(k)
         /\ saving[a] # Nothing /\ saving[a][s][k] = Placeholder =>
              TakenAway(k) \/ \E t \in Servers : saving[a][t][k] = Nothing /\ settings[t][k] # Nothing

KeysInv == KeysTypes /\ MovingInv /\ DocumentInv /\ RefsInv /\ CopyInv /\ PlaceholderInv

LEMMA KeysBegin == ASSUME KeyConstants, CredentialsInit PROVE KeysInv
<1>1. /\ document \in [Keys -> Plain \cup {Nothing, BlankText}]
      /\ settings \in [Servers -> [Keys -> Plain \cup {Nothing, BlankText}]]
      /\ migration = NoMigration /\ migration.at = "none"
      /\ rotation = NoRotation /\ rotation.at = "none"
      /\ \A a \in Admins : page[a] = Nothing /\ saving[a] = Nothing
      /\ page = [a \in Admins |-> Nothing] /\ saving = [a \in Admins |-> Nothing]
      /\ rotated = [k \in Keys |-> Nothing] /\ raced = {}
  BY DEF CredentialsInit, KeyConstants, NoMigration, NoRotation
<1>2. KeysTypes
  BY <1>1 DEF KeysTypes, Pages, Settled, Text, Moves, Changes
<1>3. \A s \in Servers, k \in Keys : settings[s][k] \notin {Ref, Placeholder}
  BY <1>1 DEF KeyConstants
<1>4. MovingInv /\ DocumentInv /\ CopyInv
  BY <1>1 DEF MovingInv, DocumentInv, CopyInv
<1> QED
  BY <1>1, <1>2, <1>3, <1>4 DEF KeysInv, RefsInv, PlaceholderInv

\* What the copy is, at each stage of a migration.
LEMMA CopyIs ==
  ASSUME KeysTypes
  PROVE  /\ migration.at \in {"none", "read", "walk", "write"}
         /\ migration.at = "none" <=> migration = NoMigration
         /\ migration.at = "read" => Copy = migration /\ migration.next \in Settled
         /\ migration.at = "walk" => Copy = migration /\ migration \in Walk
         /\ migration.at = "write" =>
              /\ Copy = migration.walk /\ migration.walk \in Walk /\ migration.s \in Servers
              /\ migration.k \in Keys /\ migration.held \in [Keys -> Text]
         /\ migration.at # "none" => Copy.next \in Settled
<1>1. CASE migration = NoMigration
  BY <1>1 DEF NoMigration
<1>2. CASE migration \in [at : {"read"}, next : Settled]
  BY <1>2 DEF NoMigration, Copy
<1>3. CASE migration \in Walk
  BY <1>3 DEF NoMigration, Copy, Walk
<1>4. CASE migration \in [at : {"write"}, walk : Walk, s : Servers, k : Keys, held : [Keys -> Text]]
  <2>1. migration.at = "write" /\ migration.walk \in Walk /\ migration.s \in Servers
        /\ migration.k \in Keys /\ migration.held \in [Keys -> Text]
    BY <1>4
  <2>2. Copy = migration.walk /\ migration.walk.next \in Settled
    BY <2>1 DEF Copy, Walk
  <2> QED
    BY <2>1, <2>2 DEF NoMigration
<1> QED
  BY <1>1, <1>2, <1>3, <1>4 DEF KeysTypes, Moves

LEMMA RotationIs ==
  ASSUME KeysTypes
  PROVE  /\ rotation.at \in {"none", "write"} /\ (rotation.at = "none" <=> rotation = NoRotation)
         /\ rotation.at = "write" =>
              rotation.k \in Keys /\ rotation.text \in Plain /\ rotation.held \in [Keys -> Text]
BY DEF KeysTypes, Changes, NoRotation

LEMMA ReferredGives ==
  ASSUME NEW m \in Walk, NEW s \in Servers, NEW k \in Keys
  PROVE  /\ Referred(m, s, k) \in Walk /\ Referred(m, s, k).store = m.store
         /\ \A t \in Servers, l \in Keys :
              Referred(m, s, k).next[t][l] = IF t = s /\ l = k THEN Ref ELSE m.next[t][l]
<1> DEFINE n == [m.next EXCEPT ![s][k] = Ref]
           d == m.todo \ {<<s, k>>}
<1>1. m.next \in Settled /\ d \in SUBSET (Servers \X Keys)
  BY DEF Walk
<1>2. n \in Settled /\ \A t \in Servers, l \in Keys :
                          n[t][l] = IF t = s /\ l = k THEN Ref ELSE m.next[t][l]
  BY <1>1 DEF Settled
<1>3. Referred(m, s, k) = [m EXCEPT !.next = n, !.todo = d, !.changed = TRUE]
  BY DEF Referred, Walk
<1> HIDE DEF n, d
<1>4. Referred(m, s, k).next = n /\ Referred(m, s, k).store = m.store
  BY <1>3 DEF Walk
<1>5. Referred(m, s, k) \in Walk
  BY <1>1, <1>2, <1>3 DEF Walk
<1> QED
  BY <1>2, <1>4, <1>5

LEMMA PassedGives ==
  ASSUME NEW m \in Walk, NEW s \in Servers, NEW k \in Keys
  PROVE  /\ Passed(m, s, k) \in Walk /\ Passed(m, s, k).store = m.store
         /\ Passed(m, s, k).next = m.next
<1> DEFINE d == m.todo \ {<<s, k>>}
<1>1. d \in SUBSET (Servers \X Keys)
  BY DEF Walk
<1>2. Passed(m, s, k) = [m EXCEPT !.todo = d]
  BY DEF Passed
<1> HIDE DEF d
<1> QED
  BY <1>1, <1>2 DEF Walk

LEMMA FoundStays ==
  ASSUME KeyConstants, KeysTypes, NEW k \in Keys, NEW text, text \notin {Nothing, BlankText},
         document' = document \/ document' = [document EXCEPT ![k] = text],
         NEW l \in Keys, Found(l)
  PROVE  Found(l)'
<1>1. Env[l] \in Plain \cup {Nothing} /\ DotEnv[l] \in Plain \cup {Nothing}
  BY DEF KeyConstants
<1>2. document'[l] = document[l] \/ document'[l] \notin {Nothing, BlankText}
  BY DEF KeysTypes
<1> QED
  BY <1>1, <1>2 DEF Found, Secret

\* A document that is known has a line where it is found to have one.
LEMMA LineIsFound ==
  ASSUME KeyConstants, NEW k \in Keys, document[k] # Nothing
  PROVE  Found(k)
BY DEF Found, Secret, KeyConstants

LEMMA ReadSettingsKeeps ==
  ASSUME KeyConstants, KeysInv, ReadSettings
  PROVE  KeysInv'
<1> USE DEF KeysInv
<1>1. /\ migration' = [at |-> "read", next |-> settings] /\ migration'.at = "read"
      /\ migration'.next = settings
      /\ UNCHANGED <<document, settings, rotation, page, saving, rotated, raced, gone>>
  BY DEF ReadSettings
<1>2. KeysTypes'
  BY <1>1 DEF KeysTypes, Moves
<1>3. Copy' = migration' /\ Copy'.next = settings
  BY <1>1 DEF Copy
<1>4. \A k \in Keys : (Found(k)' <=> Found(k)) /\ (TakenAway(k)' <=> TakenAway(k))
  BY <1>1 DEF Found, Secret, TakenAway
<1>5. MovingInv' /\ DocumentInv' /\ CopyInv'
  BY <1>1, <1>3 DEF MovingInv, DocumentInv, CopyInv
<1>6. RefsInv'
  BY <1>1, <1>3, <1>4 DEF RefsInv
<1>7. PlaceholderInv'
  BY <1>1, <1>3, <1>4 DEF PlaceholderInv
<1> QED
  BY <1>2, <1>5, <1>6, <1>7

LEMMA ReadDocumentKeeps ==
  ASSUME KeyConstants, KeysInv, ReadDocument
  PROVE  KeysInv'
<1> USE DEF KeysInv
<1>1. /\ migration.at = "read"
      /\ migration' = [at |-> "walk", next |-> migration.next, store |-> document,
                       todo |-> Servers \X Keys, changed |-> FALSE]
      /\ migration'.at = "walk" /\ migration'.next = migration.next
      /\ migration'.store = document
      /\ UNCHANGED <<document, settings, rotation, page, saving, rotated, raced, gone>>
  BY DEF ReadDocument
<1>2. Copy = migration /\ migration.next \in Settled
  BY <1>1, CopyIs
<1>3. KeysTypes'
  <2>1. migration' \in Walk
    BY <1>1, <1>2 DEF KeysTypes, Walk
  <2> QED
    BY <1>1, <2>1 DEF KeysTypes, Moves
<1>4. Copy' = migration' /\ Copy'.next = Copy.next /\ Copy'.store = document
  BY <1>1, <1>2 DEF Copy
<1>5. \A k \in Keys : (Found(k)' <=> Found(k)) /\ (TakenAway(k)' <=> TakenAway(k))
  BY <1>1 DEF Found, Secret, TakenAway
<1>6. MovingInv' /\ CopyInv'
  BY <1>1, <1>4 DEF MovingInv, CopyInv
<1>7. DocumentInv'
  BY <1>1, <1>4 DEF DocumentInv
<1>8. RefsInv'
  BY <1>1, <1>4, <1>5 DEF RefsInv
<1>9. PlaceholderInv'
  BY <1>1, <1>4, <1>5 DEF PlaceholderInv
<1> QED
  BY <1>3, <1>6, <1>7, <1>8, <1>9

LEMMA VisitKeeps ==
  ASSUME KeyConstants, KeysInv, VisitVariable
  PROVE  KeysInv'
<1> USE DEF KeysInv
<1>1. PICK s \in Servers, k \in Keys :
        migration' = CASE Done(migration, s, k) -> Referred(migration, s, k)
                       [] Refused(migration, s, k) -> Passed(migration, s, k)
                       [] OTHER -> [at |-> "write", walk |-> migration, s |-> s, k |-> k,
                                    held |-> document]
  BY DEF VisitVariable
<1>2. /\ migration.at = "walk"
      /\ UNCHANGED <<document, settings, rotation, page, saving, rotated, raced, gone>>
  BY DEF VisitVariable
<1>3. Copy = migration /\ migration \in Walk /\ migration.next \in Settled
  BY <1>2, CopyIs
<1>4. \A l \in Keys : (Found(l)' <=> Found(l)) /\ (TakenAway(l)' <=> TakenAway(l))
  BY <1>2 DEF Found, Secret, TakenAway
\* In each case: what the copy of the settings and of the document become.
<1>5. /\ migration' \in Moves /\ migration'.at \in {"walk", "write"}
      /\ Copy'.store = migration.store
      /\ \A t \in Servers, l \in Keys :
           Copy'.next[t][l] = migration.next[t][l]
             \/ (t = s /\ l = k /\ Copy'.next[t][l] = Ref /\ Done(migration, s, k))
      /\ migration'.at = "write" =>
           /\ migration'.held = document /\ migration'.walk = migration
           /\ migration'.s = s /\ migration'.k = k
           /\ ~Done(migration, s, k) /\ ~Refused(migration, s, k)
  <2>1. CASE Done(migration, s, k)
    <3>0. migration' = Referred(migration, s, k)
      BY <1>1, <2>1 DEF Refused
    <3>1. migration' = Referred(migration, s, k) /\ Referred(migration, s, k) \in Walk
      BY <1>3, <3>0, ReferredGives
    <3>2. migration'.at = "walk" /\ Copy' = Referred(migration, s, k)
      BY <3>1 DEF Walk, Copy
    <3>3. /\ Referred(migration, s, k).store = migration.store
          /\ \A t \in Servers, l \in Keys :
               Referred(migration, s, k).next[t][l] = IF t = s /\ l = k THEN Ref
                                                     ELSE migration.next[t][l]
      BY <1>3, ReferredGives
    <3> QED
      BY <2>1, <3>1, <3>2, <3>3 DEF Moves
  <2>2. CASE ~Done(migration, s, k) /\ Refused(migration, s, k)
    <3>1. migration' = Passed(migration, s, k) /\ Passed(migration, s, k) \in Walk
          /\ Passed(migration, s, k).store = migration.store
          /\ Passed(migration, s, k).next = migration.next
      BY <1>1, <1>3, <2>2, PassedGives
    <3>2. migration'.at = "walk" /\ Copy' = Passed(migration, s, k)
      BY <3>1 DEF Walk, Copy
    <3> QED
      BY <2>2, <3>1, <3>2 DEF Moves
  <2>3. CASE ~Done(migration, s, k) /\ ~Refused(migration, s, k)
    <3>1. migration' = [at |-> "write", walk |-> migration, s |-> s, k |-> k, held |-> document]
      BY <1>1, <2>3
    <3>2. Copy' = migration /\ migration'.at = "write"
      BY <3>1 DEF Copy
    <3>3. document \in [Keys -> Text]
      BY DEF KeysTypes
    <3>4. migration' \in Moves
      BY <1>3, <3>1, <3>3 DEF Moves
    <3> QED
      BY <2>3, <3>1, <3>2, <3>4
  <2> QED
    BY <2>1, <2>2, <2>3
<1>6. KeysTypes'
  BY <1>2, <1>5 DEF KeysTypes
<1>7. MovingInv'
  BY <1>5 DEF MovingInv, Done, Refused
<1>8. DocumentInv'
  BY <1>2, <1>3, <1>5 DEF DocumentInv
<1>9. CopyInv'
  BY <1>2, <1>3, <1>5 DEF CopyInv
<1>10. ASSUME "document" \notin raced, Done(migration, s, k) PROVE Found(k)
  <2>1. CASE migration.next[s][k] = Ref
    BY <1>2, <1>3, <1>10, <2>1 DEF RefsInv
  <2>2. CASE migration.store[k] # Nothing
    BY <1>2, <1>3, <1>10, <2>2, LineIsFound DEF DocumentInv
  <2> QED
    BY <1>10, <2>1, <2>2 DEF Done
<1>11. RefsInv'
  BY <1>2, <1>3, <1>4, <1>5, <1>10 DEF RefsInv
<1>12. PlaceholderInv'
  <2>1. Ref # Placeholder
    BY DEF KeyConstants
  <2>2. \A t \in Servers, l \in Keys : Copy'.next[t][l] = Placeholder => TakenAway(l)'
    BY <1>2, <1>3, <1>4, <1>5, <2>1 DEF PlaceholderInv
  <2> QED
    BY <1>2, <1>4, <2>2 DEF PlaceholderInv
<1> QED
  BY <1>6, <1>7, <1>8, <1>9, <1>11, <1>12

LEMMA MoveKeeps ==
  ASSUME KeyConstants, KeysInv, MoveKey
  PROVE  KeysInv'
<1> USE DEF KeysInv
<1> DEFINE m == migration.walk
           s == migration.s
           k == migration.k
           text == m.next[s][k]
           stored == [m EXCEPT !.store[k] = text]
<1>1. /\ migration.at = "write"
      /\ \/ document' = [migration.held EXCEPT ![k] = text] /\ migration' = Referred(stored, s, k)
            /\ raced' = raced \cup IF rotation.at = "write" THEN {"document"} ELSE {}
         \/ migration' = Passed(m, s, k) /\ UNCHANGED <<document, raced>>
      /\ UNCHANGED <<settings, rotation, page, saving, rotated, gone>>
  BY DEF MoveKey
<1>2. Copy = m /\ m \in Walk /\ s \in Servers /\ k \in Keys /\ migration.held \in [Keys -> Text]
      /\ m.next \in Settled
  BY <1>1, CopyIs
<1>3. text \in Text /\ text \notin {Ref, Nothing, BlankText} /\ m.store[k] = Nothing /\ Env[k] = Nothing
  BY <1>1, <1>2 DEF MovingInv, Settled
<1>4. stored \in Walk /\ stored.next = m.next /\ stored.store = [m.store EXCEPT ![k] = text]
  <2> DEFINE st == [m.store EXCEPT ![k] = text]
  <2>1. st \in [Keys -> Text]
    BY <1>2, <1>3 DEF Walk
  <2>2. stored = [m EXCEPT !.store = st]
    BY <1>2 DEF Walk
  <2> HIDE DEF st
  <2> QED
    BY <1>2, <2>1, <2>2 DEF Walk
<1> HIDE DEF stored, text, m, s, k
<1>5. migration' \in Walk /\ migration'.at = "walk" /\ Copy' = migration'
  <2>1. Passed(m, s, k) \in Walk
    BY <1>2, PassedGives
  <2>2. Referred(stored, s, k) \in Walk
    BY <1>2, <1>4, ReferredGives
  <2>3. migration' \in Walk
    BY <1>1, <2>1, <2>2
  <2> QED
    BY <2>3 DEF Walk, Copy
<1>6. KeysTypes'
  <2>1. document' \in [Keys -> Text]
    BY <1>1, <1>2, <1>3 DEF KeysTypes
  <2>2. migration' \in Moves
    BY <1>5 DEF Moves
  <2>3. raced' \subseteq {"document", "settings"}
    BY <1>1 DEF KeysTypes
  <2> QED
    BY <1>1, <2>1, <2>2, <2>3 DEF KeysTypes
<1>7. \A t \in Servers, l \in Keys :
        \/ Copy'.next[t][l] = Copy.next[t][l]
        \/ t = s /\ l = k /\ Copy'.next[t][l] = Ref /\ document' = [migration.held EXCEPT ![k] = text]
  <2>1. CASE migration' = Referred(stored, s, k) /\ document' = [migration.held EXCEPT ![k] = text]
    <3>1. \A t \in Servers, l \in Keys :
            Referred(stored, s, k).next[t][l] = IF t = s /\ l = k THEN Ref ELSE stored.next[t][l]
      BY <1>2, <1>4, ReferredGives
    <3>2. Copy'.next = Referred(stored, s, k).next /\ Copy.next = stored.next
      BY <1>2, <1>4, <1>5, <2>1
    <3> QED
      BY <2>1, <3>1, <3>2
  <2>2. CASE migration' = Passed(m, s, k)
    <3>1. Passed(m, s, k).next = m.next
      BY <1>2, PassedGives
    <3>2. Copy'.next = Copy.next
      BY <1>2, <1>5, <2>2, <3>1
    <3> QED
      BY <3>2
  <2> QED
    BY <1>1, <2>1, <2>2
\* Unless both scripts are at work, one line is added where there was none.
<1>8. ASSUME "document" \notin raced'
      PROVE  /\ "document" \notin raced /\ document[k] = Nothing /\ migration.held = document
             /\ document' = document \/ (document' = [document EXCEPT ![k] = text] /\ rotation.at # "write")
  <2>1. "document" \notin raced /\ migration.held = document
    BY <1>1, <1>8 DEF DocumentInv
  <2>2. document[k] = Nothing
    BY <1>1, <1>2, <1>3, <2>1 DEF DocumentInv
  <2> QED
    BY <1>1, <1>8, <2>1, <2>2
<1>9. ASSUME "document" \notin raced', NEW l \in Keys, Found(l) PROVE Found(l)'
  BY <1>2, <1>3, <1>8, <1>9, FoundStays
<1>10. MovingInv' /\ CopyInv'
  BY <1>1, <1>2, <1>5, <1>7 DEF MovingInv, CopyInv
<1>11. DocumentInv'
  <2> SUFFICES ASSUME "document" \notin raced' PROVE DocumentInv!2'
    BY DEF DocumentInv
  <2>1. rotation'.at = "write" => rotation'.held = document'
    BY <1>1, <1>8 DEF DocumentInv
  <2>2. \A l \in Keys : migration'.store[l] = Nothing <=> document'[l] = Nothing
    <3>1. \A l \in Keys : m.store[l] = Nothing <=> document[l] = Nothing
      BY <1>1, <1>2, <1>8 DEF DocumentInv
    <3>2. CASE migration' = Referred(stored, s, k) /\ document' = [migration.held EXCEPT ![k] = text]
      <4>1. migration'.store = [m.store EXCEPT ![k] = text]
        BY <1>2, <1>4, <3>2, ReferredGives
      <4>2. document' = [document EXCEPT ![k] = text]
        BY <1>8, <3>2
      <4>3. m.store \in [Keys -> Text] /\ document \in [Keys -> Text]
        BY <1>2 DEF Walk, KeysTypes
      <4> QED
        BY <1>3, <3>1, <4>1, <4>2, <4>3
    <3>3. CASE migration' = Passed(m, s, k) /\ UNCHANGED document
      BY <1>2, <3>1, <3>3, PassedGives
    <3> QED
      BY <1>1, <3>2, <3>3
  <2>3. \A l \in Keys : rotated'[l] # Nothing => document'[l] = rotated'[l]
    BY <1>1, <1>2, <1>8 DEF DocumentInv, KeysTypes
  <2> QED
    BY <1>5, <2>1, <2>2, <2>3
<1>12. RefsInv'
  <2> SUFFICES ASSUME "document" \notin raced', NEW t \in Servers, NEW l \in Keys
               PROVE  /\ settings'[t][l] = Ref => Found(l)'
                      /\ \A a \in Admins : saving'[a] # Nothing /\ saving'[a][t][l] = Ref => Found(l)'
                      /\ Copy'.next[t][l] = Ref => Found(l)'
    BY <1>5 DEF RefsInv
  <2>1. Found(l) => Found(l)'
    BY <1>9
  <2>2. /\ settings[t][l] = Ref => Found(l)
        /\ \A a \in Admins : saving[a] # Nothing /\ saving[a][t][l] = Ref => Found(l)
        /\ Copy.next[t][l] = Ref => Found(l)
    BY <1>1, <1>8 DEF RefsInv
  <2>3. ASSUME l = k, document' = [migration.held EXCEPT ![k] = text] PROVE Found(l)'
    <3>1. document'[l] = text
      BY <1>2, <2>3
    <3> QED
      BY <1>3, <3>1 DEF Found, Secret, KeyConstants
  <2> QED
    BY <1>1, <1>7, <2>1, <2>2, <2>3
<1>13. PlaceholderInv'
  <2>1. Ref # Placeholder /\ \A l \in Keys : TakenAway(l)' <=> TakenAway(l)
    BY <1>1 DEF TakenAway, KeyConstants
  <2>2. \A t \in Servers, l \in Keys : Copy'.next[t][l] = Placeholder => TakenAway(l)'
    BY <1>1, <1>7, <2>1 DEF PlaceholderInv
  <2> QED
    BY <1>1, <2>1, <2>2 DEF PlaceholderInv
<1> QED
  BY <1>6, <1>10, <1>11, <1>12, <1>13

\* What a write of the settings takes away is remembered.
LEMMA ReplacedGives ==
  ASSUME NEW next, Replaced(next), NEW t \in Servers, NEW l \in Keys
  PROVE  /\ settings' = next /\ (TakenAway(l) => TakenAway(l)')
         /\ settings[t][l] # Nothing => next[t][l] # Nothing \/ TakenAway(l)'
<1>1. <<t, l>> \in Servers \X Keys
  OBVIOUS
<1>2. gone \subseteq gone'
  BY DEF Replaced
<1>3. ASSUME settings[t][l] # Nothing, next[t][l] = Nothing PROVE <<t, l>> \in gone'
  <2>1. <<t, l>>[1] = t /\ <<t, l>>[2] = l
    OBVIOUS
  <2> QED
    BY <1>1, <1>3, <2>1 DEF Replaced
<1> QED
  BY <1>2, <1>3 DEF Replaced, TakenAway

LEMMA WriteSettingsKeeps ==
  ASSUME KeyConstants, KeysInv, WriteSettings
  PROVE  KeysInv'
<1> USE DEF KeysInv
<1> DEFINE next == IF migration.changed THEN migration.next ELSE settings
<1>1. /\ migration.at = "walk" /\ migration' = NoMigration /\ Replaced(next)
      /\ settings' = next /\ raced \subseteq raced' /\ raced' \subseteq raced \cup {"settings"}
      /\ UNCHANGED <<document, rotation, page, saving, rotated>>
  BY DEF WriteSettings, Replaced
<1>2. Copy = migration /\ migration.next \in Settled
  BY <1>1, CopyIs
<1>3. \A t \in Servers, l \in Keys : next[t][l] \in {settings[t][l], Copy.next[t][l]}
  BY <1>2
<1>4. next \in Settled
  BY <1>2 DEF KeysTypes
<1> HIDE DEF next
<1>5. migration'.at = "none"
  BY <1>1 DEF NoMigration
<1>6. KeysTypes'
  <2>1. migration' \in Moves
    BY <1>1 DEF Moves
  <2> QED
    BY <1>1, <1>4, <2>1 DEF KeysTypes
<1>7. \A l \in Keys : (Found(l)' <=> Found(l))
  BY <1>1 DEF Found, Secret
<1>8. MovingInv' /\ CopyInv'
  BY <1>5 DEF MovingInv, CopyInv
<1>9. DocumentInv'
  BY <1>1, <1>5 DEF DocumentInv
<1>10. RefsInv'
  BY <1>1, <1>3, <1>5, <1>7 DEF RefsInv
<1>11. PlaceholderInv'
  <2> SUFFICES ASSUME NEW t \in Servers, NEW l \in Keys
               PROVE  /\ settings'[t][l] = Placeholder => TakenAway(l)'
                      /\ \A a \in Admins :
                           /\ page'[a] # Nothing /\ page'[a][t][l] = Placeholder =>
                                settings'[t][l] # Nothing \/ TakenAway(l)'
                           /\ saving'[a] # Nothing /\ saving'[a][t][l] = Placeholder =>
                                TakenAway(l)' \/ \E u \in Servers : saving'[a][u][l] = Nothing
                                                             /\ settings'[u][l] # Nothing
    BY <1>5 DEF PlaceholderInv
  <2>1. /\ TakenAway(l) => TakenAway(l)'
        /\ \A u \in Servers : settings[u][l] # Nothing => settings'[u][l] # Nothing \/ TakenAway(l)'
    BY <1>1, ReplacedGives
  <2>2. settings'[t][l] = Placeholder => TakenAway(l)'
    BY <1>1, <1>3, <2>1 DEF PlaceholderInv
  <2>3. ASSUME NEW a \in Admins
        PROVE  /\ page'[a] # Nothing /\ page'[a][t][l] = Placeholder =>
                    settings'[t][l] # Nothing \/ TakenAway(l)'
               /\ saving'[a] # Nothing /\ saving'[a][t][l] = Placeholder =>
                    TakenAway(l)' \/ \E u \in Servers : saving'[a][u][l] = Nothing
                                                 /\ settings'[u][l] # Nothing
    BY <1>1, <2>1 DEF PlaceholderInv
  <2> QED
    BY <2>2, <2>3
<1> QED
  BY <1>6, <1>8, <1>9, <1>10, <1>11

\* Steps that leave document, settings and pages alone and forget what was held.
LEMMA ForgettingKeeps ==
  ASSUME KeyConstants, KeysInv,
         UNCHANGED <<document, settings, page, saving, rotated, raced, gone>>,
         \/ migration' = NoMigration /\ rotation' = rotation
         \/ /\ migration' = migration
            /\ \/ rotation' = rotation \/ rotation' = NoRotation
               \/ \E k \in Keys, v \in Plain :
                    rotation' = [at |-> "write", k |-> k, text |-> v, held |-> document]
  PROVE  KeysInv'
<1> USE DEF KeysInv
<1>1. \/ migration' = NoMigration /\ migration'.at = "none"
      \/ migration' = migration /\ Copy' = Copy
  BY DEF NoMigration, Copy
<1>2. \/ rotation' = NoRotation /\ rotation'.at = "none"
      \/ rotation' = rotation
      \/ rotation'.at = "write" /\ rotation'.held = document
  BY DEF NoRotation
<1>3. rotation' \in Changes
  BY DEF Changes, KeysTypes
<1>4. migration' \in Moves
  BY DEF Moves, KeysTypes
<1>5. KeysTypes'
  BY <1>3, <1>4 DEF KeysTypes
<1>6. \A l \in Keys : (Found(l)' <=> Found(l)) /\ (TakenAway(l)' <=> TakenAway(l))
  BY DEF Found, Secret, TakenAway
<1>7. MovingInv'
  BY <1>1 DEF MovingInv
<1>8. CopyInv'
  BY <1>1 DEF CopyInv
<1>9. DocumentInv'
  BY <1>1, <1>2 DEF DocumentInv
<1>10. RefsInv'
  BY <1>1, <1>6 DEF RefsInv
<1>11. PlaceholderInv'
  BY <1>1, <1>6 DEF PlaceholderInv
<1> QED
  BY <1>5, <1>7, <1>8, <1>9, <1>10, <1>11

LEMMA ChangeKeyKeeps ==
  ASSUME KeyConstants, KeysInv, ChangeKey
  PROVE  KeysInv'
<1> USE DEF KeysInv
<1> DEFINE k == rotation.k
           text == rotation.text
<1>1. /\ rotation.at = "write" /\ rotation' = NoRotation /\ rotation'.at = "none"
      /\ document' = [rotation.held EXCEPT ![k] = text] /\ rotated' = [rotated EXCEPT ![k] = text]
      /\ raced' = raced \cup IF Ahead(k) THEN {"document"} ELSE {}
      /\ UNCHANGED <<settings, migration, page, saving, gone>>
  BY DEF ChangeKey, NoRotation
<1>2. k \in Keys /\ text \in Plain /\ rotation.held \in [Keys -> Text]
  BY <1>1, RotationIs
<1>3. text \notin {Nothing, BlankText} /\ text \in Text
  BY <1>2 DEF KeyConstants, Text
<1> HIDE DEF k, text
<1>4. KeysTypes'
  <2>1. document' \in [Keys -> Text] /\ rotated' \in [Keys -> Plain \cup {Nothing}]
    BY <1>1, <1>2, <1>3 DEF KeysTypes
  <2>2. rotation' \in Changes
    BY <1>1 DEF Changes
  <2> QED
    BY <1>1, <2>1, <2>2 DEF KeysTypes
<1>5. Copy' = Copy
  BY <1>1 DEF Copy
<1>6. ASSUME "document" \notin raced'
      PROVE  "document" \notin raced /\ document' = [document EXCEPT ![k] = text] /\ ~Ahead(k)
  BY <1>1, <1>6 DEF DocumentInv
<1>7. ASSUME "document" \notin raced', NEW l \in Keys, Found(l) PROVE Found(l)'
  BY <1>2, <1>3, <1>6, <1>7, FoundStays
<1>8. MovingInv'
  BY <1>1 DEF MovingInv
<1>9. CopyInv'
  <2>1. "settings" \in raced <=> "settings" \in raced'
    BY <1>1
  <2> QED
    BY <1>1, <1>5, <2>1 DEF CopyInv
<1>10. DocumentInv'
  <2> SUFFICES ASSUME "document" \notin raced' PROVE DocumentInv!2'
    BY DEF DocumentInv
  <2>1. migration.at # "write" /\ (migration.at = "walk" => migration.store[k] # Nothing)
    BY <1>6 DEF Ahead
  <2>2. ASSUME migration.at = "walk", NEW l \in Keys
        PROVE  Copy.store[l] = Nothing <=> document'[l] = Nothing
    <3>1. Copy.store[l] = Nothing <=> document[l] = Nothing
      BY <1>6, <2>2 DEF DocumentInv
    <3>2. Copy.store[k] # Nothing
      BY <2>1, <2>2 DEF Copy
    <3> QED
      BY <1>2, <1>3, <1>6, <3>1, <3>2 DEF KeysTypes
  <2>3. \A l \in Keys : rotated'[l] # Nothing => document'[l] = rotated'[l]
    BY <1>1, <1>2, <1>6 DEF DocumentInv, KeysTypes
  <2> QED
    BY <1>1, <1>5, <2>1, <2>2, <2>3
<1>11. RefsInv'
  BY <1>1, <1>5, <1>6, <1>7 DEF RefsInv
<1>12. PlaceholderInv'
  BY <1>1, <1>5 DEF PlaceholderInv, TakenAway
<1> QED
  BY <1>4, <1>8, <1>9, <1>10, <1>11, <1>12

LEMMA OpenPageKeeps ==
  ASSUME KeyConstants, KeysInv, NEW a \in Admins, OpenPage(a)
  PROVE  KeysInv'
<1> USE DEF KeysInv
<1> DEFINE shown == [s \in Servers |-> [k \in Keys |-> Shown(settings[s][k])]]
<1>1. /\ page' = [page EXCEPT ![a] = shown]
      /\ UNCHANGED <<document, settings, migration, rotation, saving, rotated, raced, gone>>
  BY DEF OpenPage
<1>2. ASSUME NEW s \in Servers, NEW k \in Keys
      PROVE  /\ shown[s][k] \in Text /\ shown[s][k] = Shown(settings[s][k])
             /\ shown[s][k] = Placeholder => settings[s][k] # Nothing
  <2>1. settings[s][k] \in Text \cup {Ref}
    BY DEF KeysTypes, Settled
  <2> QED
    BY <2>1 DEF Shown, Text, KeyConstants
<1>3. shown \in Pages
  BY <1>2 DEF Pages
<1> HIDE DEF shown
<1>4. KeysTypes'
  BY <1>1, <1>3 DEF KeysTypes
<1>5. Copy' = Copy /\ \A l \in Keys : (Found(l)' <=> Found(l)) /\ (TakenAway(l)' <=> TakenAway(l))
  BY <1>1 DEF Copy, Found, Secret, TakenAway
<1>6. MovingInv' /\ CopyInv' /\ DocumentInv'
  BY <1>1, <1>5 DEF MovingInv, CopyInv, DocumentInv
<1>7. RefsInv'
  BY <1>1, <1>5 DEF RefsInv
<1>8. \A b \in Admins : page'[b] = page[b] \/ page'[b] = shown
  BY <1>1 DEF KeysTypes
<1>9. PlaceholderInv'
  BY <1>1, <1>2, <1>5, <1>8 DEF PlaceholderInv
<1> QED
  BY <1>4, <1>6, <1>7, <1>9

\* A form sent has a placeholder only where the page showed one, or for a server
\* renamed, which then lacks the variable.
LEMMA FormGives ==
  ASSUME KeyConstants, NEW shown \in Pages, NEW form \in Forms(shown)
  PROVE  /\ form \in Pages
         /\ \A t \in Servers, l \in Keys :
              form[t][l] = Placeholder =>
                \/ shown[t][l] = Placeholder
                \/ \E u \in Servers : shown[u][l] = Placeholder /\ form[u][l] = Nothing
<1>1. CASE \E s \in Servers, k \in Keys, text \in Plain \cup {Nothing} : form = Edited(shown, s, k, text)
  <2>1. PICK s \in Servers, k \in Keys, text \in Plain \cup {Nothing} :
          form = [shown EXCEPT ![s][k] = text]
    BY <1>1 DEF Edited
  <2>2. text \in Text /\ text # Placeholder
    BY DEF Text, KeyConstants
  <2>3. \A t \in Servers, l \in Keys : form[t][l] = IF t = s /\ l = k THEN text ELSE shown[t][l]
    BY <2>1 DEF Pages
  <2>4. form \in Pages
    BY <2>1, <2>2 DEF Pages
  <2> QED
    BY <2>2, <2>3, <2>4
<1>2. CASE \E s, t \in Servers : form = Renamed(shown, s, t)
  <2>1. PICK s \in Servers, t \in Servers : form = Renamed(shown, s, t)
    BY <1>2
  <2> DEFINE none == [k \in Keys |-> Nothing]
  <2>2. form = [[shown EXCEPT ![t] = shown[s]] EXCEPT ![s] = none]
    BY <2>1 DEF Renamed
  <2>3. none \in [Keys -> Text] /\ \A l \in Keys : none[l] = Nothing
    BY DEF Text
  <2> HIDE DEF none
  <2>4. form \in Pages
    BY <2>2, <2>3 DEF Pages
  <2>5. \A u \in Servers : form[u] = IF u = s THEN none ELSE IF u = t THEN shown[s] ELSE shown[u]
    BY <2>2 DEF Pages
  <2>6. Nothing # Placeholder
    BY DEF KeyConstants
  <2> QED
    BY <2>3, <2>4, <2>5, <2>6
<1> QED
  BY <1>1, <1>2 DEF Forms

LEMMA SendPageKeeps ==
  ASSUME KeyConstants, KeysInv, NEW a \in Admins, SendPage(a)
  PROVE  KeysInv'
<1> USE DEF KeysInv
<1>1. PICK form \in Forms(page[a]) : saving' = [saving EXCEPT ![a] = Unredacted(form)]
  BY DEF SendPage
<1>2. /\ page[a] # Nothing /\ page' = [page EXCEPT ![a] = Nothing]
      /\ UNCHANGED <<document, settings, migration, rotation, rotated, raced, gone>>
  BY DEF SendPage
<1>3. page[a] \in Pages /\ settings \in Settled
  BY <1>2 DEF KeysTypes
<1> DEFINE sent == Unredacted(form)
<1>4. ASSUME NEW t \in Servers, NEW l \in Keys
      PROVE  /\ sent[t][l] = IF form[t][l] = Placeholder /\ settings[t][l] # Nothing
                             THEN settings[t][l] ELSE form[t][l]
             /\ sent[t][l] \in Text \cup {Ref}
  <2>1. form \in Pages
    BY <1>3, FormGives
  <2> QED
    BY <1>3, <2>1 DEF Unredacted, Settled, Pages
<1>5. sent \in Settled
  <2>1. sent = [t \in Servers |-> [l \in Keys |-> sent[t][l]]]
    BY DEF Unredacted
  <2> QED
    BY <1>4, <2>1 DEF Settled
<1> HIDE DEF sent
<1>6. KeysTypes'
  BY <1>1, <1>2, <1>5 DEF KeysTypes, sent
<1>7. Copy' = Copy /\ \A l \in Keys : (Found(l)' <=> Found(l)) /\ (TakenAway(l)' <=> TakenAway(l))
  BY <1>2 DEF Copy, Found, Secret, TakenAway
<1>8. MovingInv' /\ CopyInv' /\ DocumentInv'
  BY <1>2, <1>7 DEF MovingInv, CopyInv, DocumentInv
<1>9. \A b \in Admins : /\ saving'[b] = saving[b] \/ saving'[b] = sent
                        /\ page'[b] = page[b] \/ page'[b] = Nothing
  BY <1>1, <1>2 DEF KeysTypes, sent
<1>10. \A t \in Servers, l \in Keys : form[t][l] # Ref
  <2>1. Ref \notin Text
    BY DEF KeyConstants, Text
  <2> QED
    BY <1>3, <2>1, FormGives DEF Pages
<1>11. RefsInv'
  <2> SUFFICES ASSUME "document" \notin raced, NEW t \in Servers, NEW l \in Keys,
                      NEW b \in Admins, saving'[b][t][l] = Ref, saving'[b] # Nothing
               PROVE  Found(l)
    BY <1>2, <1>7 DEF RefsInv
  <2>1. CASE saving'[b] = saving[b]
    BY <2>1 DEF RefsInv
  <2>2. CASE saving'[b] = sent
    BY <1>4, <1>10, <2>2 DEF RefsInv
  <2> QED
    BY <1>9, <2>1, <2>2
<1>12. PlaceholderInv'
  <2> SUFFICES ASSUME NEW t \in Servers, NEW l \in Keys, NEW b \in Admins,
                      saving'[b] = sent, sent[t][l] = Placeholder
               PROVE  TakenAway(l) \/ \E u \in Servers : sent[u][l] = Nothing /\ settings[u][l] # Nothing
    BY <1>2, <1>7, <1>9 DEF PlaceholderInv
  <2>1. CASE settings[t][l] # Nothing
    <3>1. settings[t][l] = Placeholder
      BY <1>4, <2>1
    <3> QED
      BY <3>1 DEF PlaceholderInv
  <2>2. CASE settings[t][l] = Nothing
    <3>1. form[t][l] = Placeholder
      BY <1>4, <2>2
    <3>2. CASE page[a][t][l] = Placeholder
      BY <1>2, <2>2, <3>2 DEF PlaceholderInv
    <3>3. CASE \E u \in Servers : page[a][u][l] = Placeholder /\ form[u][l] = Nothing
      <4>1. PICK u \in Servers : page[a][u][l] = Placeholder /\ form[u][l] = Nothing
        BY <3>3
      <4>2. sent[u][l] = Nothing
        BY <1>4, <4>1 DEF KeyConstants
      <4>3. settings[u][l] # Nothing \/ TakenAway(l)
        BY <1>2, <4>1 DEF PlaceholderInv
      <4> QED
        BY <4>2, <4>3
    <3> QED
      BY <1>3, <3>1, <3>2, <3>3, FormGives
  <2> QED
    BY <2>1, <2>2
<1> QED
  BY <1>6, <1>8, <1>11, <1>12

LEMMA SavePageKeeps ==
  ASSUME KeyConstants, KeysInv, NEW a \in Admins, SavePage(a)
  PROVE  KeysInv'
<1> USE DEF KeysInv
<1>1. /\ saving[a] # Nothing /\ Replaced(saving[a]) /\ settings' = saving[a]
      /\ saving' = [saving EXCEPT ![a] = Nothing]
      /\ raced \subseteq raced' /\ raced' \subseteq raced \cup {"settings"}
      /\ migration # NoMigration => "settings" \in raced'
      /\ UNCHANGED <<document, migration, rotation, page, rotated>>
  BY DEF SavePage, Replaced
<1>2. saving[a] \in Settled
  BY <1>1 DEF KeysTypes
<1>3. KeysTypes'
  BY <1>1, <1>2 DEF KeysTypes
<1>4. Copy' = Copy /\ \A l \in Keys : Found(l)' <=> Found(l)
  BY <1>1 DEF Copy, Found, Secret
<1>5. MovingInv' /\ DocumentInv'
  BY <1>1, <1>4 DEF MovingInv, DocumentInv
<1>6. CopyInv'
  BY <1>1, CopyIs DEF CopyInv
<1>7. \A b \in Admins : saving'[b] = saving[b] \/ saving'[b] = Nothing
  BY <1>1 DEF KeysTypes
<1>8. RefsInv'
  BY <1>1, <1>4, <1>7 DEF RefsInv
<1>9. PlaceholderInv'
  <2> SUFFICES ASSUME NEW t \in Servers, NEW l \in Keys
               PROVE  /\ settings'[t][l] = Placeholder => TakenAway(l)'
                      /\ migration'.at # "none" /\ Copy'.next[t][l] = Placeholder => TakenAway(l)'
                      /\ \A b \in Admins :
                           /\ page'[b] # Nothing /\ page'[b][t][l] = Placeholder =>
                                settings'[t][l] # Nothing \/ TakenAway(l)'
                           /\ saving'[b] # Nothing /\ saving'[b][t][l] = Placeholder =>
                                TakenAway(l)' \/ \E u \in Servers : saving'[b][u][l] = Nothing
                                                             /\ settings'[u][l] # Nothing
    BY DEF PlaceholderInv
  <2>1. /\ TakenAway(l) => TakenAway(l)'
        /\ \A u \in Servers : settings[u][l] # Nothing => settings'[u][l] # Nothing \/ TakenAway(l)'
    BY <1>1, ReplacedGives
  <2>2. settings'[t][l] = Placeholder => TakenAway(l)'
    BY <1>1, <2>1 DEF PlaceholderInv
  <2>3. migration'.at # "none" /\ Copy'.next[t][l] = Placeholder => TakenAway(l)'
    BY <1>1, <1>4, <2>1 DEF PlaceholderInv
  <2>4. ASSUME NEW b \in Admins
        PROVE  page'[b] # Nothing /\ page'[b][t][l] = Placeholder => settings'[t][l] # Nothing \/ TakenAway(l)'
    BY <1>1, <2>1 DEF PlaceholderInv
  <2>5. ASSUME NEW b \in Admins, saving'[b] # Nothing, saving'[b][t][l] = Placeholder
        PROVE  TakenAway(l)' \/ \E u \in Servers : saving'[b][u][l] = Nothing /\ settings'[u][l] # Nothing
    BY <1>7, <2>1, <2>5 DEF PlaceholderInv
  <2> QED
    BY <2>2, <2>3, <2>4, <2>5
<1> QED
  BY <1>3, <1>5, <1>6, <1>8, <1>9

LEMMA KeysStep ==
  ASSUME KeyConstants, KeysInv, [CredentialsNext]_credentialVars
  PROVE  KeysInv'
<1>1. CASE UNCHANGED credentialVars
  BY <1>1, ForgettingKeeps DEF credentialVars
<1>2. CASE MigrationEnds \/ StartRotation \/ RotationFails
  BY <1>2, ForgettingKeeps DEF MigrationEnds, StartRotation, RotationFails
<1>3. CASE \E a \in Admins : OpenPage(a) \/ SendPage(a) \/ SavePage(a)
  BY <1>3, OpenPageKeeps, SendPageKeeps, SavePageKeeps
<1> QED
  BY <1>1, <1>2, <1>3, ReadSettingsKeeps, ReadDocumentKeeps, VisitKeeps, MoveKeeps,
     WriteSettingsKeeps, ChangeKeyKeeps DEF CredentialsNext

LEMMA KeysInvIsSafe == ASSUME KeysInv PROVE KeysSafe
<1> USE DEF KeysInv
<1>1. CredentialsTypeOK
  <2>1. \A shown \in Pages : shown \in Settled
    BY DEF Pages, Settled
  <2>2. /\ \A a \in Admins : page[a] # Nothing => page[a] \in Settled
        /\ \A a \in Admins : saving[a] # Nothing => saving[a] \in Settled
    BY <2>1 DEF KeysTypes
  <2> QED
    BY <2>2, CopyIs, RotationIs DEF KeysTypes, CredentialsTypeOK
<1>2. RefsResolve
  BY DEF RefsResolve, RefsInv, Found
<1>3. RotationStands
  BY DEF RotationStands, DocumentInv
<1>4. PlaceholderIsOfGone
  BY DEF PlaceholderIsOfGone, PlaceholderInv, TakenAway
<1> QED
  BY <1>1, <1>2, <1>3, <1>4 DEF KeysSafe

LEMMA KeysAreInv == ASSUME KeyConstants PROVE CredentialsSpec => []KeysInv
<1>1. CredentialsInit => KeysInv
  BY KeysBegin
<1>2. KeysInv /\ [CredentialsNext]_credentialVars => KeysInv'
  BY KeysStep
<1> QED
  BY <1>1, <1>2, PTL DEF CredentialsSpec

\* Every reference a start finds in the settings leads to a key, a key that was
\* changed stays changed, and a placeholder is saved only for what was taken away,
\* as far as KeysSafe says (credentials.js:313-345, server/index.js:1939).
THEOREM KeysAreSafe == ASSUME KeyConstants PROVE CredentialsSpec => []KeysSafe
<1>1. KeysInv => KeysSafe
  BY KeysInvIsSafe
<1> QED
  BY <1>1, KeysAreInv, PTL

\* Moving a key to the document.
LEMMA MoveKeyKept ==
  ASSUME KeyConstants, KeysInv, MoveKey, raced' = {}, NEW s \in Servers, NEW k \in Keys
  PROVE  KeyKept(s, k)
<1> DEFINE m == migration.walk
           text == m.next[migration.s][migration.k]
<1>1. CASE UNCHANGED document
  BY <1>1 DEF MoveKey, KeyKept, Resolved, Secret
<1>2. CASE document' = [migration.held EXCEPT ![migration.k] = text]
  <2>1. /\ migration.at = "write" /\ UNCHANGED settings /\ raced \subseteq raced'
        /\ migration.k \in Keys /\ migration.s \in Servers /\ Copy = m
    BY CopyIs DEF MoveKey, KeysInv
  <2>2. raced = {}
    BY <2>1
  <2>3. document' = [document EXCEPT ![migration.k] = text] /\ document \in [Keys -> Text]
    BY <1>2, <2>1, <2>2 DEF KeysInv, DocumentInv, KeysTypes
  <2>4. document[migration.k] = Nothing /\ Env[migration.k] = Nothing /\ text \notin {Ref, Nothing, BlankText}
    BY <2>1, <2>2 DEF KeysInv, DocumentInv, MovingInv
  <2>5. settings[migration.s][migration.k] = text
    BY <2>1, <2>2, <2>4 DEF KeysInv, CopyInv
  <2>6. CASE k # migration.k
    BY <2>1, <2>3, <2>6 DEF KeyKept, Resolved, Secret
  <2>7. CASE k = migration.k /\ DotEnv[k] # Nothing
    BY <2>3, <2>4, <2>7 DEF KeyKept
  <2>8. CASE k = migration.k /\ DotEnv[k] = Nothing
    <3>1. Secret(k) = Nothing /\ Secret(k)' = text
      BY <2>3, <2>4, <2>8 DEF Secret
    <3>2. settings[s][k] # Ref
      BY <2>2, <2>4, <2>8, <3>1 DEF KeysInv, RefsInv, Found, KeyConstants
    <3>3. Resolved(s, k) = settings[s][k] /\ Resolved(s, k)' = text
      BY <2>1, <2>4, <3>1, <3>2 DEF Resolved
    <3>4. CASE settings[s][k] = text
      BY <3>3, <3>4 DEF KeyKept
    <3>5. CASE settings[s][k] # text
      <4>1. settings[migration.s][k] \notin {Nothing, settings[s][k]} /\ document'[k] # document[k]
        BY <2>3, <2>4, <2>5, <2>8, <3>5
      <4> QED
        BY <2>1, <4>1 DEF KeyKept
    <3> QED
      BY <3>4, <3>5
  <2> QED
    BY <2>6, <2>7, <2>8
<1> QED
  BY <1>1, <1>2 DEF MoveKey

\* Writing the references to the settings.
LEMMA WriteSettingsKept ==
  ASSUME KeyConstants, KeysInv, WriteSettings, raced' = {}, NEW s \in Servers, NEW k \in Keys
  PROVE  KeyKept(s, k)
<1>1. /\ migration.at = "walk" /\ UNCHANGED document /\ raced = {} /\ Copy = migration
      /\ settings' = settings \/ settings' = migration.next
  BY CopyIs DEF WriteSettings, Replaced, KeysInv
<1>2. Secret(k)' = Secret(k)
  BY <1>1 DEF Secret
<1>3. CASE settings'[s][k] = settings[s][k]
  BY <1>2, <1>3 DEF KeyKept, Resolved
<1>4. CASE settings'[s][k] = Ref
  <2>1. Found(k) \/ settings'[s][k] = settings[s][k]
    BY <1>1, <1>4 DEF KeysInv, RefsInv
  <2> QED
    BY <1>2, <1>3, <1>4, <2>1 DEF KeyKept, Resolved, Found
<1> QED
  BY <1>1, <1>3, <1>4 DEF KeysInv, CopyInv

\* The migration gives a server another key only where KeyKept says so
\* (credentials.js:322-327).
THEOREM MigrationKeepsKeys ==
  ASSUME KeyConstants PROVE CredentialsSpec => [][KeysKept]_credentialVars
<1>1. KeysInv /\ [CredentialsNext]_credentialVars => [KeysKept]_credentialVars
  <2> SUFFICES ASSUME KeysInv, raced' = {}, NEW s \in Servers, NEW k \in Keys,
                      ReadDocument \/ VisitVariable \/ MoveKey \/ WriteSettings
               PROVE  KeyKept(s, k)
    BY DEF KeysKept
  <2>1. CASE ReadDocument \/ VisitVariable
    BY <2>1 DEF ReadDocument, VisitVariable, KeyKept, Resolved, Secret
  <2> QED
    BY <2>1, MoveKeyKept, WriteSettingsKept
<1> QED
  BY <1>1, KeysAreInv, PTL DEF CredentialsSpec
-----------------------------------------------------------------------------
(* The registry of tools.  The argument: only a version whose own rows are *)
(* right comes in force, and whatever a reload or a rebuild tries, it ends *)
(* with the entries written from the version in force once more.           *)

\* The server is delivered with a manifest it starts from.
Delivered == Boots(FirstManifest) /\ Undeclared \notin PermissionLevels

\* A version whose fields, rows and levels are right; whether it assembles depends
\* on nothing else but the permissions of the tools it does not list.
Good(text) == BadFields(text) = {} /\ Untrue(text) = {} /\ NotGranted(text) = {}

FaceInv ==
  up => /\ policy = Derived(active) /\ Good(active)
        /\ \A n \in Enabled(active) : entry[n] = policy[n]
        /\ Sound => tools = Combined(active, sources)

\* A process that is not there has registered nothing and read nothing.
DownInv == ~up => sources = Nowhere /\ reading = {}

RegistryInv == FaceInv /\ DownInv

\* Writing the entries twice is writing them once.
LEMMA AttachedTwice ==
  ASSUME NEW text, NEW entries
  PROVE  /\ Attached(text, Attached(text, entries)) = Attached(text, entries)
         /\ Assembles(text, Attached(text, entries)) <=> Assembles(text, entries)
         /\ Assembles(text, entries) => Untrue(text) = {} /\ NotGranted(text) = {}
         /\ Enabled(text) \subseteq Names =>
              \A n \in Enabled(text) : Attached(text, entries)[n] = Derived(text)[n]
<1>1. Attached(text, Attached(text, entries)) = Attached(text, entries)
  BY DEF Attached
<1>2. Assembles(text, entries) => Untrue(text) = {} /\ NotGranted(text) = {}
  BY DEF Assembles, Problems
<1>3. ASSUME Enabled(text) \subseteq Names, NEW n \in Enabled(text)
      PROVE  Attached(text, entries)[n] = Derived(text)[n]
  BY <1>3 DEF Attached, Derived
<1> QED
  BY <1>1, <1>2, <1>3 DEF Assembles

LEMMA GoodIsKnown == ASSUME NEW text, Good(text) PROVE Enabled(text) \subseteq Names
BY DEF Good, Untrue

\* A server that starts.
LEMMA StartGivesFace ==
  ASSUME up', NEW text, BadFields(text) = {}, Assembles(text, Raw), active' = text,
         policy' = Derived(text), entry' = Attached(text, Raw), sources' = Nowhere,
         tools' = Combined(text, Nowhere)
  PROVE  FaceInv'
<1>1. Good(text)
  BY AttachedTwice DEF Good
<1>2. \A n \in Enabled(text) : Attached(text, Raw)[n] = Derived(text)[n]
  BY <1>1, AttachedTwice, GoodIsKnown
<1> QED
  BY <1>1, <1>2 DEF FaceInv

\* The tools are put together again.
LEMMA RebuiltKeepsFace ==
  ASSUME FaceInv, NEW srcs, Rebuilt(srcs), UNCHANGED <<active, policy, up>>
  PROVE  FaceInv'
<1> SUFFICES ASSUME up PROVE FaceInv'
  BY DEF FaceInv
<1>1. Good(active) /\ policy = Derived(active)
  BY DEF FaceInv
<1>2. entry' = Attached(active, entry) /\ sources' = srcs
      /\ tools' = IF Sound THEN Combined(active, srcs) ELSE tools
  BY DEF Rebuilt
<1>3. \A n \in Enabled(active) : entry'[n] = policy[n]
  BY <1>1, <1>2, AttachedTwice, GoodIsKnown
<1>4. Sound' <=> Sound
  BY <1>2, AttachedTwice DEF Sound
<1> QED
  BY <1>1, <1>2, <1>3, <1>4 DEF FaceInv

LEMMA ApplyManifestKeepsFace ==
  ASSUME FaceInv, ApplyManifest
  PROVE  FaceInv'
<1> SUFFICES ASSUME up PROVE FaceInv'
  BY DEF ApplyManifest, FaceInv
<1>1. PICK text \in imported :
        LET next == Complete(text) IN
        \/ /\ BadFields(next) = {} /\ Assembles(next, entry)
           /\ active' = next /\ policy' = Derived(next) /\ entry' = Attached(next, entry)
           /\ tools' = Combined(next, sources)
        \/ RolledBack(next)
  BY DEF ApplyManifest
<1> DEFINE next == Complete(text)
<1>2. UNCHANGED <<sources, up>>
  BY DEF ApplyManifest
<1> HIDE DEF next
<1>3. CASE /\ BadFields(next) = {} /\ Assembles(next, entry)
           /\ active' = next /\ policy' = Derived(next) /\ entry' = Attached(next, entry)
           /\ tools' = Combined(next, sources)
  <2>1. Good(next)
    BY <1>3, AttachedTwice DEF Good
  <2>2. \A n \in Enabled(next) : entry'[n] = policy'[n]
    BY <1>3, <2>1, AttachedTwice, GoodIsKnown
  <2> QED
    BY <1>2, <1>3, <2>1, <2>2 DEF FaceInv
<1>4. CASE RolledBack(next)
  <2>1. /\ entry' = Attached(active, Tried(next)) /\ policy' = Derived(active) /\ active' = active
        /\ tools' = IF Assembles(active, Tried(next)) THEN Combined(active, sources) ELSE tools
    BY <1>4 DEF RolledBack
  <2>2. Good(active)
    BY DEF FaceInv
  <2>3. \A n \in Enabled(active) : entry'[n] = policy'[n]
    BY <2>1, <2>2, AttachedTwice, GoodIsKnown
  <2>4. Sound' => Assembles(active, Tried(next))
    BY <2>1, AttachedTwice DEF Sound
  <2> QED
    BY <1>2, <2>1, <2>2, <2>3, <2>4 DEF FaceInv
<1> QED
  BY <1>1, <1>3, <1>4 DEF next

LEMMA FaceStep ==
  ASSUME Delivered, RegistryInv, [RegistryNext]_registryVars
  PROVE  FaceInv'
<1> USE DEF RegistryInv
<1>1. CASE UNCHANGED <<active, entry, policy, sources, tools, up>>
  BY <1>1 DEF FaceInv, Sound
<1>2. CASE SyncServers
  BY <1>2, RebuiltKeepsFace DEF SyncServers
<1>3. CASE ApplyConnectors
  <2>1. PICK list \in reading :
          Rebuilt(FoldLeft(Visit, [srcs |-> sources, over |-> FALSE], list \o Unlisted(list)).srcs)
    BY <1>3 DEF ApplyConnectors
  <2> QED
    BY <1>3, <2>1, RebuiltKeepsFace DEF ApplyConnectors
<1>4. CASE StopServer
  BY <1>4 DEF StopServer, FaceInv
<1>5. CASE StartServer
  BY <1>5, StartGivesFace DEF StartServer, Boots, DownInv
<1> QED
  BY <1>1, <1>2, <1>3, <1>4, <1>5, ApplyManifestKeepsFace
     DEF RegistryNext, registryVars, SaveManifest, ImportManifest, ReadConnectors, EditConnectors

LEMMA DownStep ==
  ASSUME RegistryInv, [RegistryNext]_registryVars
  PROVE  DownInv'
<1> USE DEF RegistryInv, DownInv
<1>1. CASE UNCHANGED <<sources, reading, up>>
  BY <1>1
<1>2. CASE ReadConnectors \/ SyncServers \/ ApplyConnectors
  BY <1>2 DEF ReadConnectors, SyncServers, ApplyConnectors
<1>3. CASE StopServer \/ StartServer
  BY <1>3 DEF StopServer, StartServer
<1> QED
  BY <1>1, <1>2, <1>3
     DEF RegistryNext, registryVars, SaveManifest, ImportManifest, ApplyManifest, RolledBack, EditConnectors

LEMMA RegistryIsInv == ASSUME Delivered PROVE RegistrySpec => []RegistryInv
<1>1. RegistryInit => RegistryInv
  <2> SUFFICES ASSUME RegistryInit PROVE RegistryInv
    OBVIOUS
  <2> DEFINE t == FirstManifest
  <2>1. BadFields(t) = {} /\ Assembles(t, Raw) /\ Good(t)
    BY AttachedTwice DEF Delivered, Boots, Good
  <2>2. \A n \in Enabled(t) : Attached(t, Raw)[n] = Derived(t)[n]
    BY <2>1, AttachedTwice, GoodIsKnown
  <2> QED
    BY <2>1, <2>2 DEF RegistryInit, RegistryInv, FaceInv, DownInv
<1>2. RegistryInv /\ [RegistryNext]_registryVars => RegistryInv'
  BY FaceStep, DownStep DEF RegistryInv
<1> QED
  BY <1>1, <1>2, PTL DEF RegistrySpec

\* The tools offered are those of the version in force and of the sources, with what
\* that version declares, whatever was refused before (registry.js:428-436).
THEOREM FaceIsInForce == ASSUME Delivered PROVE RegistrySpec => []FaceInForce
<1>1. RegistryInv => FaceInForce
  BY GoodIsKnown DEF RegistryInv, FaceInv, FaceInForce
<1> QED
  BY <1>1, RegistryIsInv, PTL

\* What is in force loads again, unless an entry has lost its permission to a
\* version that listed the tool and declared none for it (registry.js:334).
THEOREM ReloadsAgain == ASSUME Delivered PROVE RegistrySpec => []CanGoBack
<1>1. Delivered /\ RegistryInv => CanGoBack
  <2> SUFFICES ASSUME Delivered, RegistryInv, up
               PROVE  /\ BadFields(active) = {}
                      /\ Sound \/ \E n \in Names \ Enabled(active) : entry[n].permission = Undeclared
    BY DEF CanGoBack
  <2>1. Good(active)
    BY DEF RegistryInv, FaceInv
  <2>2. ASSUME \A n \in Names \ Enabled(active) : entry[n].permission # Undeclared,
               NEW n \in Names
        PROVE  Attached(active, entry)[n].permission # Undeclared
    <3>1. CASE n \in Enabled(active)
      <4>1. Grant(active, n) \in PermissionLevels
        BY <2>1, <3>1 DEF Good, NotGranted
      <4> QED
        BY <3>1, <4>1 DEF Attached, Delivered
    <3>2. CASE n \notin Enabled(active)
      BY <2>2, <3>2 DEF Attached
    <3> QED
      BY <3>1, <3>2
  <2>3. ASSUME \A n \in Names \ Enabled(active) : entry[n].permission # Undeclared
        PROVE  Sound
    BY <2>1, <2>2, <2>3 DEF Sound, Assembles, Problems, NoPermission, Good
  <2> QED
    BY <2>1, <2>3 DEF Good
<1> QED
  BY <1>1, RegistryIsInv, PTL

\* Versions that declare a permission for each tool they list.
Granting ==
  /\ FirstManifest \in Manifests
  /\ \A text \in Manifests \ {Unreadable} :
       text.table # NoTable /\ \A n \in Enabled(text) : Grant(text, n) # Undeclared

GrantedInv ==
  /\ manifest \in Manifests /\ imported \subseteq Manifests \ {Unreadable}
  /\ \A n \in Enabled(active) : Grant(active, n) # Undeclared
  /\ up => \A n \in Names : entry[n].permission # Undeclared

LEMMA AttachedGrants ==
  ASSUME NEW text, \A n \in Enabled(text) : Grant(text, n) # Undeclared,
         NEW entries, \A n \in Names : entries[n].permission # Undeclared
  PROVE  \A n \in Names : Attached(text, entries)[n].permission # Undeclared
<1> SUFFICES ASSUME NEW n \in Names PROVE Attached(text, entries)[n].permission # Undeclared
  OBVIOUS
<1>1. CASE n \in Enabled(text)
  BY <1>1 DEF Attached
<1>2. CASE n \notin Enabled(text)
  BY <1>2 DEF Attached
<1> QED
  BY <1>1, <1>2

LEMMA StartGrants ==
  ASSUME NEW text, Boots(text)
  PROVE  /\ text # Unreadable
         /\ \A n \in Names : Attached(text, Raw)[n].permission # Undeclared
BY DEF Boots, Assembles, Problems, NoPermission

LEMMA GrantedStep ==
  ASSUME Granting, GrantedInv, [RegistryNext]_registryVars
  PROVE  GrantedInv'
<1> USE DEF GrantedInv
<1>1. CASE UNCHANGED registryVars \/ ReadConnectors \/ EditConnectors \/ StopServer
  BY <1>1 DEF registryVars, ReadConnectors, EditConnectors, StopServer
<1>2. CASE SaveManifest \/ ImportManifest
  BY <1>2 DEF SaveManifest, ImportManifest
<1>3. CASE SyncServers \/ ApplyConnectors
  <2>1. entry' = Attached(active, entry) /\ UNCHANGED <<manifest, imported, active, up>>
    BY <1>3 DEF SyncServers, ApplyConnectors, Rebuilt
  <2> QED
    BY <2>1, AttachedGrants
<1>4. CASE StartServer
  BY <1>4, StartGrants DEF StartServer, Granting
<1>5. CASE ApplyManifest
  <2>1. PICK text \in imported :
          \/ active' = Complete(text) /\ entry' = Attached(Complete(text), entry)
          \/ RolledBack(Complete(text))
    BY <1>5 DEF ApplyManifest
  <2>2. UNCHANGED <<manifest, up>> /\ imported' \subseteq imported
    BY <1>5 DEF ApplyManifest
  <2>3. Complete(text) = text /\ \A n \in Enabled(text) : Grant(text, n) # Undeclared
    BY DEF Granting, Complete
  <2>4. up => \A n \in Names : Attached(text, entry)[n].permission # Undeclared
    BY <2>3, AttachedGrants
  <2>5. up => \A n \in Names : Tried(text)[n].permission # Undeclared
    BY <2>4 DEF Tried
  <2>6. up => \A n \in Names : Attached(active, Tried(text))[n].permission # Undeclared
    BY <2>5, AttachedGrants
  <2>7. CASE active' = text /\ entry' = Attached(text, entry)
    BY <2>2, <2>3, <2>4, <2>7
  <2>8. CASE RolledBack(text)
    BY <2>2, <2>6, <2>8 DEF RolledBack
  <2> QED
    BY <2>1, <2>3, <2>7, <2>8
<1> QED
  BY <1>1, <1>2, <1>3, <1>4, <1>5 DEF RegistryNext

\* Where every version declares a permission for each tool it lists, what is in
\* force always assembles: each reload either takes effect or leaves the tools as
\* they were, and each rebuild follows the sources (manifest.js, registry.js:334).
THEOREM GrantedAssembles ==
  ASSUME Delivered, Granting PROVE RegistrySpec => [](up => Sound)
<1>1. RegistryInit => GrantedInv
  <2> SUFFICES ASSUME RegistryInit PROVE GrantedInv
    OBVIOUS
  <2>1. FirstManifest # Unreadable /\ \A n \in Names : Attached(FirstManifest, Raw)[n].permission # Undeclared
    BY StartGrants DEF Delivered
  <2> QED
    BY <2>1 DEF RegistryInit, GrantedInv, Granting
<1>2. GrantedInv /\ [RegistryNext]_registryVars => GrantedInv'
  BY GrantedStep
<1>3. GrantedInv /\ CanGoBack => (up => Sound)
  BY DEF GrantedInv, CanGoBack
<1> QED
  BY <1>1, <1>2, <1>3, ReloadsAgain, PTL DEF RegistrySpec

-----------------------------------------------------------------------------
(* The proposals that are written.  The argument: a run that has looked    *)
(* for a fingerprint and not found it is alone in having done so, or the   *)
(* fingerprint is one that was crossed for; so whoever inserts it inserts  *)
(* the only row.                                                           *)

Looking == {"goals", "insert"}
Fp(r) == fingerprint(Current(r))
RowsInv ==
  /\ \A w \in Rows : w = [id |-> w.id, fp |-> w.fp, status |-> w.status, by |-> w.by]
  /\ \A w \in demands : w.status \in {"waiting", "taken", "refused"}
  /\ \A w \in goals : w.status \in {"active", "paused"}
RunsInv ==
  /\ runs = [r \in Run |-> [pc |-> runs[r].pc, todo |-> runs[r].todo]]
  /\ \A r, o \in Run : runs[r].pc \in Looking /\ runs[o].pc \in Looking /\ Fp(r) = Fp(o) =>
       r = o \/ Fp(r) \in crossed
FreeInv ==
  \A r \in Run :
    /\ runs[r].pc \in Looking => Fp(r) \in crossed \/ \A d \in demands : d.fp # Fp(r)
    /\ runs[r].pc = "insert" => Fp(r) \in crossed \/ \A g \in goals : g.fp # Fp(r)
BatchInv == RowsInv /\ RunsInv /\ FreeInv /\ OncePerBatch

LEMMA BatchStarts == ASSUME PropInit PROVE BatchInv
BY DEF PropInit, BatchInv, RowsInv, RunsInv, FreeInv, OncePerBatch, Rows, Idle, Looking

\* A mark is never empty.
LEMMA FpMarked == \A p : fingerprint(p) # <<>>
BY DEF fingerprint

\* What one step does to the runs.
LEMMA StepAt ==
  ASSUME RunsInv, NEW r \in Run, NEW pc, Step(r, pc)
  PROVE  /\ runs' = [q \in Run |-> [pc |-> runs'[q].pc, todo |-> runs'[q].todo]]
         /\ \A o \in Run : Fp(o)' = Fp(o)
         /\ \A o \in Run \ {r} : runs'[o] = runs[o]
         /\ runs'[r].pc = pc
<1> DEFINE s == [runs[r] EXCEPT !.pc = pc]
<1>1. runs[r] = [pc |-> runs[r].pc, todo |-> runs[r].todo] /\ DOMAIN runs = Run
  BY DEF RunsInv
<1>2. s = [pc |-> s.pc, todo |-> s.todo] /\ s.pc = pc /\ s.todo = runs[r].todo
  BY <1>1
<1>3. runs' = [runs EXCEPT ![r] = s]
  BY DEF Step
<1> HIDE DEF s
<1>4. runs'[r] = s /\ (\A o \in Run \ {r} : runs'[o] = runs[o]) /\ DOMAIN runs' = Run
  BY <1>1, <1>3
<1>5. \A o \in Run : runs'[o].todo = runs[o].todo
  BY <1>2, <1>4
<1>6. \A q \in Run : runs'[q] = [pc |-> runs'[q].pc, todo |-> runs'[q].todo]
  BY <1>2, <1>4 DEF RunsInv
<1>7. runs' = [q \in Run |-> runs'[q]]
  BY <1>3, <1>4
<1> QED
  BY <1>2, <1>4, <1>5, <1>6, <1>7 DEF Fp, Current

LEMMA RunPast ==
  ASSUME RunsInv, NEW r \in Run, Past(r)
  PROVE  /\ runs' = [q \in Run |-> [pc |-> runs'[q].pc, todo |-> runs'[q].todo]]
         /\ \A o \in Run \ {r} : runs'[o] = runs[o] /\ Fp(o)' = Fp(o)
         /\ runs'[r].pc \notin Looking
<1> DEFINE s == IF Len(runs[r].todo) = 1 THEN Idle
                ELSE [pc |-> "demands", todo |-> Tail(runs[r].todo)]
<1>1. DOMAIN runs = Run
  BY DEF RunsInv
<1>2. s = [pc |-> s.pc, todo |-> s.todo] /\ s.pc \notin Looking
  BY DEF Idle, Looking
<1>3. runs' = [runs EXCEPT ![r] = s]
  BY DEF Past
<1> HIDE DEF s
<1>4. runs'[r] = s /\ (\A o \in Run \ {r} : runs'[o] = runs[o]) /\ DOMAIN runs' = Run
  BY <1>1, <1>3
<1>5. \A q \in Run : runs'[q] = [pc |-> runs'[q].pc, todo |-> runs'[q].todo]
  BY <1>2, <1>4 DEF RunsInv
<1>6. runs' = [q \in Run |-> runs'[q]]
  BY <1>3, <1>4
<1> QED
  BY <1>2, <1>4, <1>5, <1>6 DEF Fp, Current

\* The runs and what they look for when one of them leaves off.
LEMMA PastKeeps ==
  ASSUME BatchInv, NEW r \in Run, Past(r), crossed \subseteq crossed',
         demands' \subseteq demands, goals' \subseteq goals
  PROVE  BatchInv'
<1>1. RunsInv'
  BY RunPast DEF BatchInv, RunsInv, Looking
<1>2. FreeInv'
  BY RunPast DEF BatchInv, FreeInv, Looking
<1>3. RowsInv' /\ OncePerBatch'
  BY DEF BatchInv, RowsInv, OncePerBatch, Rows
<1> QED
  BY <1>1, <1>2, <1>3 DEF BatchInv

LEMMA StartKeeps == ASSUME BatchInv, NEW r \in Run, StartRun(r) PROVE BatchInv'
<1> DEFINE todo == buildProposals(input).proposals
           s == IF input.write /\ todo # <<>> THEN [pc |-> "demands", todo |-> todo] ELSE Idle
<1>1. runs' = [runs EXCEPT ![r] = s] /\ UNCHANGED <<demands, goals, crossed>>
  BY DEF StartRun, board
<1>2. s = [pc |-> s.pc, todo |-> s.todo] /\ s.pc \notin Looking
  BY DEF Idle, Looking
<1> HIDE DEF s
<1>3. runs'[r] = s /\ (\A o \in Run \ {r} : runs'[o] = runs[o]) /\ DOMAIN runs' = Run
  BY <1>1 DEF BatchInv, RunsInv
<1>4. \A q \in Run : runs'[q] = [pc |-> runs'[q].pc, todo |-> runs'[q].todo]
  BY <1>2, <1>3 DEF BatchInv, RunsInv
<1>5. runs' = [q \in Run |-> [pc |-> runs'[q].pc, todo |-> runs'[q].todo]]
  BY <1>1, <1>3, <1>4
<1>6. (\A o \in Run \ {r} : Fp(o)' = Fp(o)) /\ runs'[r].pc \notin Looking
  BY <1>2, <1>3 DEF Fp, Current
<1>7. RunsInv'
  BY <1>1, <1>3, <1>5, <1>6 DEF BatchInv, RunsInv
<1>8. FreeInv'
  BY <1>1, <1>3, <1>6 DEF BatchInv, FreeInv, Looking
<1> QED
  BY <1>1, <1>7, <1>8 DEF BatchInv, RowsInv, OncePerBatch, Rows

LEMMA StopKeeps == ASSUME BatchInv, NEW r \in Run, StopRun(r) PROVE BatchInv'
<1>1. runs' = [runs EXCEPT ![r] = Idle] /\ UNCHANGED <<demands, goals, crossed>>
  BY DEF StopRun, board
<1>2. Idle = [pc |-> Idle.pc, todo |-> Idle.todo] /\ Idle.pc \notin Looking
  BY DEF Idle, Looking
<1>3. runs'[r] = Idle /\ (\A o \in Run \ {r} : runs'[o] = runs[o]) /\ DOMAIN runs' = Run
  BY <1>1 DEF BatchInv, RunsInv
<1>4. \A q \in Run : runs'[q] = [pc |-> runs'[q].pc, todo |-> runs'[q].todo]
  BY <1>2, <1>3 DEF BatchInv, RunsInv
<1>5. runs' = [q \in Run |-> [pc |-> runs'[q].pc, todo |-> runs'[q].todo]]
  BY <1>1, <1>3, <1>4
<1>6. (\A o \in Run \ {r} : Fp(o)' = Fp(o)) /\ runs'[r].pc \notin Looking
  BY <1>2, <1>3 DEF Fp, Current
<1>7. RunsInv'
  BY <1>1, <1>3, <1>5, <1>6 DEF BatchInv, RunsInv
<1>8. FreeInv'
  BY <1>1, <1>3, <1>6 DEF BatchInv, FreeInv, Looking
<1> QED
  BY <1>1, <1>7, <1>8 DEF BatchInv, RowsInv, OncePerBatch, Rows

LEMMA FindDemandKeeps == ASSUME BatchInv, NEW r \in Run, FindDemand(r) PROVE BatchInv'
<1>1. UNCHANGED <<demands, goals>> /\ crossed \subseteq crossed'
  BY DEF FindDemand, board
<1>2. CASE \E d \in demands : d.fp = Fp(r)
  <2>1. Past(r)
    BY <1>2 DEF FindDemand, Fp
  <2> QED
    BY <1>1, <2>1, PastKeeps
<1>3. CASE \A d \in demands : d.fp # Fp(r)
  <2>1. Step(r, "goals")
    BY <1>3 DEF FindDemand, Fp
  <2>2. RunsInv
    BY DEF BatchInv
  <2>3. \A o \in Run : Fp(o)' = Fp(o)
    BY <2>1, <2>2, StepAt
  <2>4. \A o \in Run \ {r} : runs[o].pc \in Looking /\ Fp(o) = Fp(r) => Fp(r) \in crossed'
    BY DEF FindDemand, Fp, Looking
  <2>5. RunsInv'
    BY <1>1, <2>1, <2>2, <2>3, <2>4, StepAt DEF RunsInv
  <2>6. FreeInv'
    BY <1>1, <1>3, <2>1, <2>2, <2>3, StepAt DEF BatchInv, FreeInv
  <2> QED
    BY <1>1, <2>5, <2>6 DEF BatchInv, RowsInv, OncePerBatch, Rows
<1> QED
  BY <1>2, <1>3

LEMMA FindGoalKeeps == ASSUME BatchInv, NEW r \in Run, FindGoal(r) PROVE BatchInv'
<1>1. UNCHANGED <<demands, goals, crossed>> /\ runs[r].pc = "goals"
  BY DEF FindGoal, board
<1>2. CASE Past(r)
  BY <1>1, <1>2, PastKeeps
<1>3. CASE (\A g \in goals : g.fp # Fp(r)) /\ Step(r, "insert")
  <2>1. RunsInv /\ Step(r, "insert")
    BY <1>3 DEF BatchInv
  <2>2. \A o \in Run : Fp(o)' = Fp(o)
    BY <2>1, StepAt
  <2>3. RunsInv'
    BY <1>1, <2>1, <2>2, StepAt DEF RunsInv, Looking
  <2>4. FreeInv'
    BY <1>1, <1>3, <2>1, <2>2, StepAt DEF BatchInv, FreeInv, Looking
  <2> QED
    BY <1>1, <2>3, <2>4 DEF BatchInv, RowsInv, OncePerBatch, Rows
<1> QED
  BY <1>2, <1>3 DEF FindGoal, Fp

LEMMA InsertKeeps == ASSUME BatchInv, NEW r \in Run, Insert(r) PROVE BatchInv'
<1>1. UNCHANGED crossed /\ runs[r].pc = "insert" /\ Past(r) /\ RunsInv
  BY DEF Insert, BatchInv
<1>2. PICK w : /\ w.fp = Fp(r) /\ w = [id |-> w.id, fp |-> w.fp, status |-> w.status, by |-> w.by]
               /\ \/ w.status = "waiting" /\ demands' = demands \cup {w} /\ goals' = goals
                  \/ w.status = "active" /\ goals' = goals \cup {w} /\ demands' = demands
  <2>1. CASE Current(r).table = "demands"
    <3> DEFINE v == BoardRow(Current(r), NewId, "waiting")
    <3>1. v.fp = Fp(r) /\ v = [id |-> v.id, fp |-> v.fp, status |-> v.status, by |-> v.by]
          /\ v.status = "waiting"
      BY DEF BoardRow, Fp
    <3>2. demands' = demands \cup {v} /\ goals' = goals
      BY <2>1 DEF Insert
    <3> HIDE DEF v
    <3> QED
      BY <3>1, <3>2
  <2>2. CASE Current(r).table # "demands"
    <3> DEFINE v == BoardRow(Current(r), NewId, "active")
    <3>1. v.fp = Fp(r) /\ v = [id |-> v.id, fp |-> v.fp, status |-> v.status, by |-> v.by]
          /\ v.status = "active"
      BY DEF BoardRow, Fp
    <3>2. goals' = goals \cup {v} /\ demands' = demands
      BY <2>2 DEF Insert
    <3> HIDE DEF v
    <3> QED
      BY <3>1, <3>2
  <2> QED
    BY <2>1, <2>2
<1>3. RowsInv'
  BY <1>2 DEF BatchInv, RowsInv, Rows
<1>4. Fp(r) \in crossed \/ \A v \in Rows : v.fp # Fp(r)
  BY <1>1 DEF BatchInv, FreeInv, Looking, Rows
<1>5. OncePerBatch'
  <2>1. Rows' \subseteq Rows \cup {w}
    BY <1>2 DEF Rows
  <2> SUFFICES ASSUME NEW a \in Rows', NEW b \in Rows', a.fp = b.fp, a.fp # <<>>
               PROVE  a = b \/ a.fp \in crossed
    BY <1>1 DEF OncePerBatch
  <2>2. CASE a \in Rows /\ b \in Rows
    BY <2>2 DEF BatchInv, OncePerBatch
  <2>3. CASE a = w \/ b = w
    BY <1>2, <1>4, <2>1, <2>3
  <2> QED
    BY <2>1, <2>2, <2>3
<1>6. RunsInv'
  BY <1>1, RunPast DEF RunsInv
<1>7. FreeInv'
  <2> SUFFICES ASSUME NEW o \in Run, runs'[o].pc \in Looking
               PROVE  /\ Fp(o)' \in crossed \/ \A d \in demands' : d.fp # Fp(o)'
                      /\ runs'[o].pc = "insert" =>
                           Fp(o)' \in crossed \/ \A g \in goals' : g.fp # Fp(o)'
    BY <1>1 DEF FreeInv, Looking
  <2>1. o # r /\ runs'[o] = runs[o] /\ Fp(o)' = Fp(o)
    BY <1>1, RunPast
  <2>2. Fp(o) # Fp(r) \/ Fp(o) \in crossed
    BY <1>1, <2>1 DEF RunsInv, Looking
  <2> QED
    BY <1>2, <2>1, <2>2 DEF BatchInv, FreeInv
<1> QED
  BY <1>3, <1>5, <1>6, <1>7 DEF BatchInv

\* What people do touches one row, and makes none with a mark.
Marks(rows, before) == \A v \in rows : v.fp = <<>> \/ \E u \in before : u.fp = v.fp

LEMMA PeopleFree ==
  ASSUME BatchInv, runs' = runs, crossed' = crossed, Marks(demands', demands), Marks(goals', goals)
  PROVE  RunsInv' /\ FreeInv'
<1>1. RunsInv' /\ \A r \in Run : Fp(r)' = Fp(r) /\ Fp(r) # <<>>
  BY FpMarked DEF BatchInv, RunsInv, Fp, Current
<1>2. FreeInv'
  BY <1>1 DEF BatchInv, FreeInv, Marks
<1> QED
  BY <1>1, <1>2

LEMMA RowChanged ==
  ASSUME BatchInv, crossed' = crossed, NEW u \in Rows, NEW v, v.fp = <<>> \/ v.fp = u.fp,
         Rows' \subseteq (Rows \ {u}) \cup {v}
  PROVE  OncePerBatch'
<1> SUFFICES ASSUME NEW a \in Rows', NEW b \in Rows', a.fp = b.fp, a.fp # <<>>, a # b
             PROVE  a.fp \in crossed
  BY DEF OncePerBatch
<1>1. \A p, q \in Rows : p.fp = q.fp /\ p.fp = a.fp => p = q \/ a.fp \in crossed
  BY DEF BatchInv, OncePerBatch
<1>2. CASE a \in Rows /\ b \in Rows
  BY <1>1, <1>2
<1>3. CASE a = v /\ b \in Rows \ {u}
  BY <1>1, <1>3
<1>4. CASE b = v /\ a \in Rows \ {u}
  BY <1>1, <1>4
<1> QED
  BY <1>2, <1>3, <1>4

LEMMA DecideKeeps ==
  ASSUME BatchInv, NEW d \in demands, NEW s \in {"waiting", "taken", "refused"}, DecideDemand(d, s)
  PROVE  BatchInv'
<1> DEFINE v == [d EXCEPT !.status = s]
<1>1. d = [id |-> d.id, fp |-> d.fp, status |-> d.status, by |-> d.by]
  BY DEF BatchInv, RowsInv, Rows
<1>2. v = [id |-> v.id, fp |-> v.fp, status |-> v.status, by |-> v.by] /\ v.status = s /\ v.fp = d.fp
  BY <1>1
<1>3. demands' = (demands \ {d}) \cup {v} /\ goals' = goals /\ runs' = runs /\ crossed' = crossed
  BY DEF DecideDemand, Acts
<1> HIDE DEF v
<1>4. d \notin goals /\ d \in Rows
  BY DEF BatchInv, RowsInv, Rows
<1>5. Rows' \subseteq (Rows \ {d}) \cup {v}
  BY <1>3, <1>4 DEF Rows
<1>6. RowsInv'
  BY <1>2, <1>3 DEF BatchInv, RowsInv, Rows
<1>7. OncePerBatch'
  BY <1>2, <1>3, <1>4, <1>5, RowChanged
<1>8. RunsInv' /\ FreeInv'
  BY <1>2, <1>3, PeopleFree DEF Marks
<1> QED
  BY <1>6, <1>7, <1>8 DEF BatchInv

LEMMA GoalKeeps ==
  ASSUME BatchInv, NEW g \in goals, NEW b \in BOOLEAN, PatchGoal(g, b)
  PROVE  BatchInv'
<1> DEFINE v == IF b THEN [g EXCEPT !.fp = <<>>] ELSE [g EXCEPT !.status = "paused"]
<1>1. g = [id |-> g.id, fp |-> g.fp, status |-> g.status, by |-> g.by]
      /\ g.status \in {"active", "paused"}
  BY DEF BatchInv, RowsInv, Rows
<1>2. v = [id |-> v.id, fp |-> v.fp, status |-> v.status, by |-> v.by]
      /\ v.status \in {"active", "paused"} /\ (v.fp = <<>> \/ v.fp = g.fp)
  BY <1>1
<1>3. goals' = (goals \ {g}) \cup {v} /\ demands' = demands /\ runs' = runs /\ crossed' = crossed
  BY DEF PatchGoal, Acts
<1> HIDE DEF v
<1>4. g \notin demands /\ g \in Rows
  BY DEF BatchInv, RowsInv, Rows
<1>5. Rows' \subseteq (Rows \ {g}) \cup {v}
  BY <1>3, <1>4 DEF Rows
<1>6. RowsInv'
  BY <1>2, <1>3 DEF BatchInv, RowsInv, Rows
<1>7. OncePerBatch'
  BY <1>2, <1>3, <1>4, <1>5, RowChanged
<1>8. RunsInv' /\ FreeInv'
  BY <1>2, <1>3, PeopleFree DEF Marks
<1> QED
  BY <1>6, <1>7, <1>8 DEF BatchInv

LEMMA DroppedKeeps == ASSUME BatchInv, NEW g \in goals, DeleteGoal(g) PROVE BatchInv'
<1>1. goals' = goals \ {g} /\ demands' = demands /\ runs' = runs /\ crossed' = crossed
  BY DEF DeleteGoal, Acts
<1>2. RowsInv' /\ OncePerBatch'
  BY <1>1 DEF BatchInv, RowsInv, OncePerBatch, Rows
<1> QED
  BY <1>1, <1>2, PeopleFree DEF BatchInv, Marks

LEMMA IntakeKeeps == ASSUME BatchInv, Intake PROVE BatchInv'
<1> DEFINE v == [id |-> NewId, fp |-> <<>>, status |-> "waiting", by |-> "person"]
<1>1. v = [id |-> v.id, fp |-> v.fp, status |-> v.status, by |-> v.by]
      /\ v.fp = <<>> /\ v.status = "waiting"
  OBVIOUS
<1>2. demands' = demands \cup {v} /\ goals' = goals /\ runs' = runs /\ crossed' = crossed
  BY DEF Intake, Acts
<1> HIDE DEF v
<1>3. RowsInv' /\ Rows' \subseteq Rows \cup {v}
  BY <1>1, <1>2 DEF BatchInv, RowsInv, Rows
<1>4. OncePerBatch'
  BY <1>1, <1>2, <1>3 DEF BatchInv, OncePerBatch
<1>5. RunsInv' /\ FreeInv'
  BY <1>1, <1>2, PeopleFree DEF Marks
<1> QED
  BY <1>3, <1>4, <1>5 DEF BatchInv

\* A batch leaves one row of each proposal, however often it is written, stopped and
\* written again and whatever people decide meanwhile, unless two runs looked for the
\* proposal at the same time (selfeval/write.js): neither table has a unique key.
THEOREM BatchIsOnce == PropSpec => []OncePerBatch
<1>1. PropInit => BatchInv
  BY BatchStarts
<1>2. BatchInv /\ [PropNext]_propVars => BatchInv'
  <2> SUFFICES ASSUME BatchInv, [PropNext]_propVars PROVE BatchInv'
    OBVIOUS
  <2>1. ASSUME NEW r \in Run,
               StartRun(r) \/ FindDemand(r) \/ FindGoal(r) \/ Insert(r) \/ StopRun(r)
        PROVE  BatchInv'
    BY <2>1, StartKeeps, FindDemandKeeps, FindGoalKeeps, InsertKeeps, StopKeeps
  <2>2. ASSUME NEW d \in demands, NEW s \in {"waiting", "taken", "refused"}, DecideDemand(d, s)
        PROVE  BatchInv'
    BY <2>2, DecideKeeps
  <2>3. ASSUME NEW g \in goals, DeleteGoal(g) \/ \E b \in BOOLEAN : PatchGoal(g, b)
        PROVE  BatchInv'
    BY <2>3, GoalKeeps, DroppedKeeps
  <2>4. CASE UNCHANGED propVars
    BY <2>4 DEF propVars, BatchInv, RowsInv, RunsInv, FreeInv, OncePerBatch, Rows, Fp, Current
  <2> QED
    BY <2>1, <2>2, <2>3, <2>4, IntakeKeeps DEF PropNext
<1>3. BatchInv => OncePerBatch
  BY DEF BatchInv
<1> QED
  BY <1>1, <1>2, <1>3, PTL DEF PropSpec

-----------------------------------------------------------------------------
(* The task run without the server.  The argument: nothing is printed      *)
(* before the process ends; a conversation that has gone does not come     *)
(* back, so what was written beneath it stays as long as it is there; and  *)
(* unless both were at work at one time, a call without a message and a    *)
(* row that runs are of the only one who works.                            *)

\* "No value" is no id.
HeadConstants == Nil \notin Nat \cup {"saved", "guard", "paused"}

Id == Nat \cup {Nil}
HeadPc == {"start", "boot", "ask", "ensure", "agent", "save", "attach", "mark", "over", "dead"}
Messages == [id : Nat, role : {"user", "assistant"}, by : {"head", "web"}]
Heads == [pc : HeadPc, run : Id, message : Id, outcome : {Nil, "saved", "guard", "paused"},
          sent : SUBSET Messages, exit : {Nil, 0, 1, 2}]
Webs == [pc : {"idle", "agent", "save", "attach"}, run : Id, message : Id]
RunRow == [status : {"running", "completed", "paused", "interrupted", "deleted"},
           by : SUBSET {"head", "web"}]
Turned == {"save", "attach", "mark"}
Answer(m, by) == [id |-> m, role |-> "assistant", by |-> by]

TypeInv ==
  /\ head \in Heads /\ web \in Webs /\ upsets \in Nat /\ overlap \in BOOLEAN
  /\ runRow \in Seq(RunRow) /\ messages \subseteq Messages /\ IsFiniteSet(messages)
  /\ calls \subseteq [by : {"head", "web"}, message : Id]
  /\ conv \in {"none", "there", "going", "gone"}
PlaceInv ==
  /\ argv \in RunLines /\ upsets = 0 => conv = "there"
  /\ argv \notin RunLines => web.pc = "idle" /\ head.pc \in {"start", "boot", "over", "dead"}
  /\ head.pc \in {"start", "boot", "ask", "ensure"} => head.run = Nil
  /\ head.pc \in {"start", "boot", "ask", "ensure", "agent", "save"} => head.message = Nil
  /\ head.pc \in Turned => head.outcome # Nil
  /\ head.pc = "attach" => head.message # Nil
  /\ web.pc = "attach" => web.message # Nil
  /\ Works("head") /\ Works("web") => overlap
LineInv == OneLine /\ (head.pc # "over" => printed = <<>>)
HistoryInv ==
  /\ head.message # Nil /\ conv = "there" => Answer(head.message, "head") \in messages
  /\ web.pc = "attach" /\ upsets = 0 => Answer(web.message, "web") \in messages
  /\ head.pc \in {"ensure", "agent"} \cup Turned /\ conv = "there" =>
       \E m \in head.sent : m.role = "user" /\ m.by = "head"
  /\ conv = "gone" => messages = {}
CallsInv ==
  /\ CallsOfOwn
  /\ ~overlap /\ upsets = 0 => \A c \in calls : c.message = Nil =>
       \/ c.by = "head" /\ head.pc \in {"agent", "save", "attach"}
       \/ c.by = "web" /\ web.pc # "idle"
HeadInv == TypeInv /\ PlaceInv /\ LineInv /\ HistoryInv /\ CallsInv /\ RunRowsTrue

LEMMA HeadStarts == ASSUME HeadConstants, HeadInit PROVE HeadInv
<1>1. TypeInv
  <2>1. IsFiniteSet(messages)
    BY FS_EmptySet DEF HeadInit
  <2>2. head \in Heads
    BY DEF HeadInit, Heads, HeadPc, Id
  <2>3. web \in Webs
    BY DEF HeadInit, Webs, Id, Free
  <2>4. runRow \in Seq(RunRow) /\ messages \subseteq Messages
        /\ calls \subseteq [by : {"head", "web"}, message : Id]
    BY DEF HeadInit
  <2>5. conv \in {"none", "there", "going", "gone"} /\ upsets \in Nat /\ overlap \in BOOLEAN
    BY DEF HeadInit
  <2> QED
    BY <2>1, <2>2, <2>3, <2>4, <2>5 DEF TypeInv
<1>2. PlaceInv
  BY DEF HeadInit, PlaceInv, Works, Free, Turned
<1>3. LineInv /\ HistoryInv
  BY DEF HeadInit, LineInv, OneLine, HistoryInv, Turned, Free
<1>4. CallsInv /\ RunRowsTrue
  BY DEF HeadInit, CallsInv, CallsOfOwn, RunRowsTrue
<1> QED
  BY <1>1, <1>2, <1>3, <1>4 DEF HeadInv

-----------------------------------------------------------------------------
(* What the operators of the steps return.                                 *)

LEMMA GoesTo ==
  ASSUME TypeInv, NEW pc \in HeadPc, Goes(pc)
  PROVE  /\ head' \in Heads /\ head'.pc = pc
         /\ head'.run = head.run /\ head'.message = head.message
         /\ head'.outcome = head.outcome /\ head'.sent = head.sent /\ head'.exit = head.exit
BY DEF TypeInv, Goes, Heads

LEMMA PrintsOne ==
  ASSUME TypeInv, printed = <<>>, NEW ok \in BOOLEAN, NEW status, NEW message,
         ok => status # "bad_usage", Prints(ok, status, message)
  PROVE  /\ head' \in Heads /\ head'.pc = "over"
         /\ head'.run = head.run /\ head'.message = head.message
         /\ head'.outcome = head.outcome /\ head'.sent = head.sent
         /\ LineInv'
<1>1. head' \in Heads /\ head'.pc = "over"
      /\ head'.run = head.run /\ head'.message = head.message
      /\ head'.outcome = head.outcome /\ head'.sent = head.sent
      /\ head'.exit = IF ok THEN 0 ELSE IF status = "bad_usage" THEN 2 ELSE 1
  BY DEF TypeInv, Prints, Heads, HeadPc
<1>2. printed' = <<OutLine(ok, status, message)>>
  BY DEF Prints
<1>3. Len(printed') = 1 /\ printed'[1].ok = ok /\ printed'[1].status = status
  BY <1>2 DEF OutLine
<1> QED
  BY <1>1, <1>3 DEF LineInv, OneLine

LEMMA InsertedIs ==
  ASSUME TypeInv, NEW role \in {"user", "assistant"}, NEW by \in {"head", "web"}
  PROVE  /\ Inserted(role, by) \subseteq Messages /\ IsFiniteSet(Inserted(role, by))
         /\ messages \subseteq Inserted(role, by)
         /\ NewMessage(role, by) \in Messages
         /\ NewMessage(role, by) = [id |-> NewMessage(role, by).id, role |-> role, by |-> by]
         /\ conv = "there" => NewMessage(role, by) \in Inserted(role, by)
         /\ conv # "there" => Inserted(role, by) = messages
<1>1. Cardinality(messages) \in Nat
  BY FS_CardinalityType DEF TypeInv
<1>2. NewMessage(role, by) \in Messages
      /\ NewMessage(role, by) = [id |-> NewMessage(role, by).id, role |-> role, by |-> by]
  BY <1>1 DEF NewMessage, Messages
<1>3. IsFiniteSet(messages \cup {NewMessage(role, by)})
  BY FS_AddElement DEF TypeInv
<1> QED
  BY <1>2, <1>3 DEF Inserted, TypeInv

LEMMA EnsuredIs ==
  ASSUME TypeInv, NEW a \in {"head", "web"}
  PROVE  /\ Ensured(a) \in Seq(RunRow) /\ Len(Ensured(a)) \in DOMAIN Ensured(a)
         /\ Len(Ensured(a)) \in Nat
         /\ Ensured(a)[Len(Ensured(a))].status = "running"
         /\ \A i \in DOMAIN Ensured(a) :
              i # Len(Ensured(a)) => i \in DOMAIN runRow /\ Ensured(a)[i] = runRow[i]
<1>1. runRow \in Seq(RunRow) /\ Len(runRow) \in Nat /\ DOMAIN runRow = 1..Len(runRow)
  BY DEF TypeInv
<1>2. CASE Latest > 0 /\ runRow[Latest].status \in {"running", "interrupted", "paused"}
  <2> DEFINE q == [status |-> "running", by |-> runRow[Latest].by \cup {a}]
             e == [runRow EXCEPT ![Latest] = q]
  <2>1. Latest \in 1..Len(runRow) /\ runRow[Latest] \in RunRow
    BY <1>1, <1>2 DEF Latest
  <2>2. q \in RunRow /\ q.status = "running"
    BY <2>1 DEF RunRow
  <2>3. Ensured(a) = e
    BY <1>2 DEF Ensured
  <2> HIDE DEF q
  <2>4. e \in Seq(RunRow) /\ Len(e) = Latest /\ DOMAIN e = DOMAIN runRow
        /\ e[Latest] = q /\ \A i \in DOMAIN runRow : i # Latest => e[i] = runRow[i]
    BY <1>1, <2>1, <2>2 DEF Latest
  <2> HIDE DEF e
  <2> QED
    BY <1>1, <2>1, <2>2, <2>3, <2>4
<1>3. CASE ~(Latest > 0 /\ runRow[Latest].status \in {"running", "interrupted", "paused"})
  <2> DEFINE q == [status |-> "running", by |-> {a}]
             e == Append(runRow, q)
  <2>1. q \in RunRow /\ q.status = "running"
    BY DEF RunRow
  <2>2. Ensured(a) = e
    BY <1>3 DEF Ensured
  <2> HIDE DEF q
  <2>3. e \in Seq(RunRow) /\ Len(e) = Len(runRow) + 1 /\ e[Len(runRow) + 1] = q
        /\ DOMAIN e = 1..(Len(runRow) + 1)
        /\ \A i \in 1..Len(runRow) : e[i] = runRow[i]
    BY <1>1, <2>1
  <2> HIDE DEF e
  <2> QED
    BY <1>1, <2>1, <2>2, <2>3
<1> QED
  BY <1>2, <1>3

LEMMA MarkedIs ==
  ASSUME TypeInv, NEW n \in Id, NEW status \in {"completed", "paused", "interrupted"}
  PROVE  /\ Marked(n, status) \in Seq(RunRow) /\ DOMAIN Marked(n, status) = DOMAIN runRow
         /\ \A i \in DOMAIN runRow :
              /\ i = n => Marked(n, status)[i].status \in {status, "deleted"}
              /\ i # n => Marked(n, status)[i] = runRow[i]
<1>1. runRow \in Seq(RunRow) /\ Len(runRow) \in Nat /\ DOMAIN runRow = 1..Len(runRow)
  BY DEF TypeInv
<1>2. CASE n \in DOMAIN runRow /\ runRow[n].status # "deleted"
  <2> DEFINE q == [runRow[n] EXCEPT !.status = status]
             e == [runRow EXCEPT ![n] = q]
  <2>0. runRow[n] \in RunRow
    BY <1>1, <1>2
  <2>1. q \in RunRow /\ q.status = status
    BY <2>0 DEF RunRow
  <2>2. Marked(n, status) = e
    BY <1>2 DEF Marked
  <2> HIDE DEF q
  <2>3. e \in Seq(RunRow) /\ DOMAIN e = DOMAIN runRow
        /\ e[n] = q /\ \A i \in DOMAIN runRow : i # n => e[i] = runRow[i]
    BY <1>1, <1>2, <2>1
  <2> HIDE DEF e
  <2> QED
    BY <2>1, <2>2, <2>3
<1>3. CASE ~(n \in DOMAIN runRow /\ runRow[n].status # "deleted")
  BY <1>1, <1>3 DEF Marked
<1> QED
  BY <1>2, <1>3

LEMMA AttachedIs ==
  ASSUME TypeInv, NEW m \in Id
  PROVE  /\ AttachedTo(m) \subseteq [by : {"head", "web"}, message : Id]
         /\ \A c \in AttachedTo(m) :
              \/ c \in calls /\ c.message # Nil
              \/ \E d \in calls : d.message = Nil /\ c.by = d.by /\ c.message = m
<1> SUFFICES ASSUME NEW c \in AttachedTo(m)
             PROVE  /\ c \in [by : {"head", "web"}, message : Id]
                    /\ \/ c \in calls /\ c.message # Nil
                       \/ \E d \in calls : d.message = Nil /\ c.by = d.by /\ c.message = m
  OBVIOUS
<1>1. PICK d \in calls : c = IF d.message = Nil THEN [d EXCEPT !.message = m] ELSE d
  BY DEF AttachedTo
<1>2. d \in [by : {"head", "web"}, message : Id]
  BY DEF TypeInv
<1> QED
  BY <1>1, <1>2

-----------------------------------------------------------------------------
(* The process.                                                            *)

LEMMA UpsetMoves == ASSUME TypeInv, Upset PROVE upsets' \in Nat /\ upsets' > 0
BY DEF TypeInv, Upset

LEMMA UpsetFrees == ASSUME upsets' > 0 PROVE CallsInv' /\ RunRowsTrue'
BY DEF CallsInv, CallsOfOwn, RunRowsTrue

LEMMA Silent ==
  ASSUME LineInv, head.pc # "over", head'.pc # "over", printed' = printed
  PROVE  LineInv'
BY DEF LineInv, OneLine

\* The process ends, which is an upset when it was at work.
LEMMA Quits ==
  ASSUME HeadConstants, HeadInv, head' \in Heads, head'.pc \in {"over", "dead"},
         head'.run = head.run, head'.message = head.message, LineInv',
         UNCHANGED <<argv, conv, messages, runRow, calls, web>>,
         overlap' \in BOOLEAN, overlap => overlap', upsets' \in Nat,
         upsets' > 0 \/ (upsets' = upsets /\ head.pc \in {"start", "boot"})
  PROVE  HeadInv'
<1>1. TypeInv'
  BY DEF HeadInv, TypeInv
<1>2. PlaceInv'
  BY DEF HeadInv, PlaceInv, Works, Turned
<1>3. HistoryInv'
  BY DEF HeadInv, HistoryInv, Turned
<1>4. CallsInv' /\ RunRowsTrue'
  <2>1. CASE upsets' > 0
    BY <2>1, UpsetFrees
  <2>2. CASE upsets' = upsets /\ head.pc \in {"start", "boot"}
    <3>1. CallsInv'
      BY <2>2 DEF HeadInv, CallsInv, CallsOfOwn
    <3>2. RunRowsTrue'
      BY <2>2 DEF HeadInv, RunRowsTrue, Works
    <3> QED
      BY <3>1, <3>2
  <2> QED
    BY <2>1, <2>2
<1> QED
  BY <1>1, <1>2, <1>3, <1>4 DEF HeadInv

LEMMA FailsQuits ==
  ASSUME HeadInv, head.pc # "over", Fails
  PROVE  /\ head' \in Heads /\ head'.pc = "over"
         /\ head'.run = head.run /\ head'.message = head.message /\ LineInv'
<1>1. TypeInv /\ printed = <<>>
  BY DEF HeadInv, LineInv
<1> QED
  BY <1>1, PrintsOne DEF Fails

LEMMA MainKeeps == ASSUME HeadConstants, HeadInv, Main PROVE HeadInv'
<1>1. /\ head.pc = "start" /\ upsets' = upsets /\ overlap' = overlap
      /\ UNCHANGED <<argv, conv, messages, runRow, calls, web>>
  BY DEF Main, HeadAt, tables, server
<1>2. TypeInv /\ printed = <<>> /\ upsets \in Nat /\ overlap \in BOOLEAN
  BY <1>1 DEF HeadInv, LineInv, TypeInv
<1>3. parseArgs(argv).do \in {"bad", "help", "run"}
  BY DEF parseArgs
<1>4. CASE parseArgs(argv).do = "bad"
  <2>1. Prints(FALSE, "bad_usage", Nil)
    BY <1>4 DEF Main
  <2>2. head' \in Heads /\ head'.pc = "over" /\ head'.run = head.run
        /\ head'.message = head.message /\ LineInv'
    BY <1>2, <2>1, PrintsOne
  <2> QED
    BY <1>1, <1>2, <2>2, Quits
<1>5. CASE parseArgs(argv).do = "help"
  <2>1. Prints(TRUE, "usage", Nil)
    BY <1>5 DEF Main
  <2>2. head' \in Heads /\ head'.pc = "over" /\ head'.run = head.run
        /\ head'.message = head.message /\ LineInv'
    BY <1>2, <2>1, PrintsOne
  <2> QED
    BY <1>1, <1>2, <2>2, Quits
<1>6. CASE parseArgs(argv).do = "run"
  <2>1. Goes("boot") /\ printed' = printed
    BY <1>6 DEF Main
  <2>2. "boot" \in HeadPc
    BY DEF HeadPc
  <2>3. head' \in Heads /\ head'.pc = "boot" /\ head'.run = head.run
        /\ head'.message = head.message
    BY <1>2, <2>1, <2>2, GoesTo
  <2>4. TypeInv'
    BY <1>1, <2>3 DEF HeadInv, TypeInv
  <2>5. PlaceInv'
    BY <1>1, <2>3 DEF HeadInv, PlaceInv, Works, Turned
  <2>6. LineInv' /\ HistoryInv'
    BY <1>1, <2>1, <2>3, Silent DEF HeadInv, HistoryInv, Turned
  <2>7. CallsInv'
    BY <1>1, <2>3 DEF HeadInv, CallsInv, CallsOfOwn
  <2>8. RunRowsTrue'
    BY <1>1, <2>3 DEF HeadInv, RunRowsTrue, Works
  <2> QED
    BY <2>4, <2>5, <2>6, <2>7, <2>8 DEF HeadInv
<1> QED
  BY <1>3, <1>4, <1>5, <1>6

LEMMA ResolveKeeps == ASSUME HeadConstants, HeadInv, Resolve PROVE HeadInv'
<1>1. /\ head.pc = "boot" /\ argv \in RunLines /\ overlap' = overlap
      /\ UNCHANGED <<argv, messages, runRow, calls, web>>
  BY DEF Resolve, HeadAt, server
<1>2. TypeInv /\ upsets \in Nat /\ overlap \in BOOLEAN
  BY DEF HeadInv, TypeInv
<1>3. CASE Fails /\ conv' = conv
  <2>1. upsets' \in Nat /\ (upsets' > 0 \/ upsets' = upsets)
    BY <1>2, UpsetMoves DEF Resolve
  <2>2. head' \in Heads /\ head'.pc = "over" /\ head'.run = head.run
        /\ head'.message = head.message /\ LineInv'
    BY <1>1, <1>3, FailsQuits
  <2> QED
    BY <1>1, <1>2, <1>3, <2>1, <2>2, Quits
<1>4. CASE Goes("ask") /\ conv' = "there" /\ printed' = printed /\ upsets' = upsets
  <2>1. "ask" \in HeadPc
    BY DEF HeadPc
  <2>2. head' \in Heads /\ head'.pc = "ask" /\ head'.run = head.run
        /\ head'.message = head.message
    BY <1>2, <1>4, <2>1, GoesTo
  <2>3. TypeInv'
    BY <1>1, <1>4, <2>2 DEF HeadInv, TypeInv
  <2>4. PlaceInv'
    BY <1>1, <1>4, <2>2 DEF HeadInv, PlaceInv, Works, Turned
  <2>5. LineInv'
    BY <1>1, <1>4, <2>2, Silent DEF HeadInv
  <2>6. HistoryInv'
    BY <1>1, <1>4, <2>2 DEF HeadInv, HistoryInv, PlaceInv, Turned
  <2>7. CallsInv'
    BY <1>1, <1>4, <2>2 DEF HeadInv, CallsInv, CallsOfOwn
  <2>8. RunRowsTrue'
    BY <1>1, <1>4, <2>2 DEF HeadInv, RunRowsTrue, Works
  <2> QED
    BY <2>3, <2>4, <2>5, <2>6, <2>7, <2>8 DEF HeadInv
<1> QED
  BY <1>3, <1>4 DEF Resolve

LEMMA AskKeeps == ASSUME HeadConstants, HeadInv, Ask PROVE HeadInv'
<1>1. /\ head.pc = "ask" /\ overlap' = (overlap \/ Works("web"))
      /\ UNCHANGED <<argv, conv, runRow, calls, web>>
  BY DEF Ask, HeadAt, server
<1>2. TypeInv /\ upsets \in Nat /\ overlap' \in BOOLEAN
  BY <1>1 DEF HeadInv, TypeInv, Works
<1>3. CASE Upset /\ Fails /\ messages' = messages
  <2>1. upsets' \in Nat /\ upsets' > 0
    BY <1>2, <1>3, UpsetMoves
  <2>2. head' \in Heads /\ head'.pc = "over" /\ head'.run = head.run
        /\ head'.message = head.message /\ LineInv'
    BY <1>1, <1>3, FailsQuits
  <2>3. UNCHANGED <<argv, conv, messages, runRow, calls, web>> /\ (overlap => overlap')
    BY <1>1, <1>3
  <2> QED
    BY <1>2, <2>1, <2>2, <2>3, Quits
<1>4. CASE /\ upsets' = upsets /\ printed' = printed /\ messages' = Inserted("user", "head")
           /\ head' = [head EXCEPT !.pc = "ensure", !.sent = messages']
  <2>1. /\ messages' \subseteq Messages /\ IsFiniteSet(messages') /\ messages \subseteq messages'
        /\ (conv = "there" => \E m \in messages' : m.role = "user" /\ m.by = "head")
        /\ (conv # "there" => messages' = messages)
    <3>1. conv = "there" => NewMessage("user", "head") \in messages'
          /\ NewMessage("user", "head").role = "user" /\ NewMessage("user", "head").by = "head"
      BY <1>2, <1>4, InsertedIs DEF NewMessage
    <3> QED
      BY <1>2, <1>4, <3>1, InsertedIs
  <2>2. head' \in Heads /\ head'.pc = "ensure" /\ head'.run = head.run
        /\ head'.message = head.message /\ head'.sent = messages'
    BY <1>2, <1>4, <2>1 DEF TypeInv, Heads, HeadPc
  <2>3. TypeInv'
    BY <1>1, <1>2, <1>4, <2>1, <2>2 DEF HeadInv, TypeInv
  <2>4. PlaceInv'
    BY <1>1, <1>4, <2>2 DEF HeadInv, PlaceInv, Works, Turned
  <2>5. LineInv'
    BY <1>1, <1>4, <2>2, Silent DEF HeadInv
  <2>6. HistoryInv'
    BY <1>1, <1>4, <2>1, <2>2 DEF HeadInv, HistoryInv, PlaceInv, Turned
  <2>7. CallsInv'
    BY <1>1, <1>4, <2>1, <2>2 DEF HeadInv, CallsInv, CallsOfOwn
  <2>8. RunRowsTrue'
    <3>1. \A i \in DOMAIN runRow : head'.run # i
      BY <1>1, <1>2, <2>2 DEF TypeInv, HeadInv, PlaceInv, HeadConstants
    <3> QED
      BY <1>1, <1>4, <2>2, <3>1 DEF HeadInv, RunRowsTrue, Works
  <2> QED
    BY <2>3, <2>4, <2>5, <2>6, <2>7, <2>8 DEF HeadInv
<1> QED
  BY <1>3, <1>4 DEF Ask

LEMMA EnsureKeeps == ASSUME HeadConstants, HeadInv, Ensure PROVE HeadInv'
<1>1. /\ head.pc = "ensure" /\ overlap' = overlap /\ printed' = printed
      /\ UNCHANGED <<argv, conv, messages, calls, web>>
  BY DEF Ensure, HeadAt, server
<1>2. TypeInv /\ upsets \in Nat /\ "agent" \in HeadPc
  BY DEF HeadInv, TypeInv, HeadPc
<1>3. CASE Upset /\ Goes("agent") /\ runRow' = runRow
  <2>1. upsets' \in Nat /\ upsets' > 0
    BY <1>2, <1>3, UpsetMoves
  <2>2. head' \in Heads /\ head'.pc = "agent" /\ head'.run = head.run
        /\ head'.message = head.message /\ head'.sent = head.sent
    BY <1>2, <1>3, GoesTo
  <2>3. TypeInv'
    BY <1>1, <1>3, <2>1, <2>2 DEF HeadInv, TypeInv
  <2>4. PlaceInv'
    BY <1>1, <2>1, <2>2 DEF HeadInv, PlaceInv, Works, Turned
  <2>5. LineInv'
    BY <1>1, <2>2, Silent DEF HeadInv
  <2>6. HistoryInv'
    BY <1>1, <2>1, <2>2 DEF HeadInv, HistoryInv, Turned
  <2> QED
    BY <2>1, <2>3, <2>4, <2>5, <2>6, UpsetFrees DEF HeadInv
<1>4. CASE /\ upsets' = upsets /\ runRow' = Ensured("head")
           /\ head' = [head EXCEPT !.pc = "agent", !.run = Len(runRow')]
  <2>1. /\ runRow' \in Seq(RunRow) /\ Len(runRow') \in DOMAIN runRow' /\ Len(runRow') \in Nat
        /\ runRow'[Len(runRow')].status = "running"
        /\ \A i \in DOMAIN runRow' :
             i # Len(runRow') => i \in DOMAIN runRow /\ runRow'[i] = runRow[i]
    BY <1>2, <1>4, EnsuredIs
  <2>2. head' \in Heads /\ head'.pc = "agent" /\ head'.run = Len(runRow')
        /\ head'.message = head.message /\ head'.sent = head.sent
    BY <1>2, <1>4, <2>1 DEF TypeInv, Heads, HeadPc, Id
  <2>3. TypeInv'
    BY <1>1, <1>4, <2>1, <2>2 DEF HeadInv, TypeInv
  <2>4. PlaceInv'
    BY <1>1, <1>4, <2>2 DEF HeadInv, PlaceInv, Works, Turned
  <2>5. LineInv'
    BY <1>1, <2>2, Silent DEF HeadInv
  <2>6. HistoryInv'
    BY <1>1, <1>4, <2>2 DEF HeadInv, HistoryInv, Turned
  <2>7. CallsInv'
    BY <1>1, <1>4, <2>2 DEF HeadInv, CallsInv, CallsOfOwn
  <2>8. RunRowsTrue'
    <3> SUFFICES ASSUME NEW i \in DOMAIN runRow'
                 PROVE  /\ runRow'[i].status = "running" =>
                             \/ head'.run = i
                             \/ web.run = i /\ web.pc = "agent"
                             \/ upsets > 0
                        /\ runRow'[i].status \in {"completed", "paused"} /\ ~overlap /\ upsets = 0 =>
                             ~(head'.run = i) /\ ~(web.run = i /\ web.pc = "agent")
      BY <1>1, <1>4, <2>2 DEF RunRowsTrue, Works
    <3>1. CASE i = Len(runRow')
      BY <2>1, <2>2, <3>1
    <3>2. CASE i # Len(runRow')
      <4>1. i \in DOMAIN runRow /\ runRow'[i] = runRow[i] /\ head.run # i
        BY <1>1, <1>2, <2>1, <3>2 DEF TypeInv, HeadInv, PlaceInv, HeadConstants
      <4> QED
        BY <2>2, <3>2, <4>1 DEF HeadInv, RunRowsTrue
    <3> QED
      BY <3>1, <3>2
  <2> QED
    BY <2>3, <2>4, <2>5, <2>6, <2>7, <2>8 DEF HeadInv
<1> QED
  BY <1>3, <1>4 DEF Ensure

\* The process goes on with what it has.
LEMMA GoesOn ==
  ASSUME HeadConstants, HeadInv, head' \in Heads, printed' = printed,
         head.pc \in {"agent", "save", "attach"}, head'.pc \in Turned,
         head'.run = head.run, head'.sent = head.sent, head'.pc = "save" => head'.message = Nil,
         head'.outcome # Nil, head'.pc = "attach" => head'.message # Nil,
         upsets' = upsets \/ upsets' > 0, UNCHANGED <<argv, conv, web, overlap>>
  PROVE  /\ PlaceInv' /\ LineInv'
         /\ runRow' = runRow /\ upsets' = upsets => RunRowsTrue'
<1>1. PlaceInv'
  BY DEF HeadInv, PlaceInv, Works, Turned
<1>2. LineInv'
  BY Silent DEF HeadInv, Turned
<1>3. runRow' = runRow /\ upsets' = upsets => RunRowsTrue'
  BY DEF HeadInv, RunRowsTrue, Works, Turned
<1> QED
  BY <1>1, <1>2, <1>3

LEMMA AgentKeeps == ASSUME HeadConstants, HeadInv, Agent PROVE HeadInv'
<1>1. /\ head.pc = "agent" /\ overlap' = overlap
      /\ UNCHANGED <<argv, conv, messages, runRow, web>>
  BY DEF Agent, HeadAt, server
<1>2. TypeInv /\ upsets \in Nat /\ overlap \in BOOLEAN /\ head.message = Nil
  BY <1>1 DEF HeadInv, TypeInv, PlaceInv
<1>3. CASE calls' = calls \cup {[by |-> "head", message |-> Nil]}
           /\ UNCHANGED <<head, printed, upsets>>
  <2>1. TypeInv'
    BY <1>1, <1>2, <1>3 DEF TypeInv, Id
  <2>2. PlaceInv' /\ LineInv' /\ HistoryInv'
    BY <1>1, <1>3 DEF HeadInv, PlaceInv, LineInv, OneLine, HistoryInv, Works
  <2>3. CallsInv'
    BY <1>1, <1>3 DEF HeadInv, CallsInv, CallsOfOwn
  <2>4. RunRowsTrue'
    BY <1>1, <1>3 DEF HeadInv, RunRowsTrue, Works
  <2> QED
    BY <2>1, <2>2, <2>3, <2>4 DEF HeadInv
<1>4. ASSUME NEW o \in {"saved", "guard", "paused"},
             head' = [head EXCEPT !.pc = "save", !.outcome = o],
             UNCHANGED <<calls, printed, upsets>>
      PROVE  HeadInv'
  <2>1. head' \in Heads /\ head'.pc = "save" /\ head'.run = head.run
        /\ head'.message = head.message /\ head'.sent = head.sent /\ head'.outcome = o
    BY <1>2, <1>4 DEF TypeInv, Heads, HeadPc
  <2>2. o # Nil
    BY DEF HeadConstants
  <2>3. PlaceInv' /\ LineInv' /\ RunRowsTrue'
    BY <1>1, <1>2, <1>4, <2>1, <2>2, GoesOn DEF Turned
  <2>4. TypeInv'
    BY <1>1, <1>2, <1>4, <2>1 DEF TypeInv
  <2>5. HistoryInv'
    BY <1>1, <1>2, <1>4, <2>1 DEF HeadInv, HistoryInv, Turned
  <2>6. CallsInv'
    BY <1>1, <1>4, <2>1 DEF HeadInv, CallsInv, CallsOfOwn
  <2> QED
    BY <2>3, <2>4, <2>5, <2>6 DEF HeadInv
<1>5. CASE Upset /\ Fails /\ calls' = calls
  <2>1. upsets' \in Nat /\ upsets' > 0
    BY <1>2, <1>5, UpsetMoves
  <2>2. head' \in Heads /\ head'.pc = "over" /\ head'.run = head.run
        /\ head'.message = head.message /\ LineInv'
    BY <1>1, <1>5, FailsQuits
  <2>3. UNCHANGED <<argv, conv, messages, runRow, calls, web>> /\ (overlap => overlap')
    BY <1>1, <1>5
  <2> QED
    BY <1>1, <1>2, <2>1, <2>2, <2>3, Quits
<1> QED
  BY <1>3, <1>4, <1>5 DEF Agent

LEMMA SaveKeeps == ASSUME HeadConstants, HeadInv, Save PROVE HeadInv'
<1>1. /\ head.pc = "save" /\ overlap' = overlap /\ printed' = printed
      /\ UNCHANGED <<argv, conv, runRow, calls, web>>
  BY DEF Save, HeadAt, server
<1>2. TypeInv /\ upsets \in Nat /\ head.message = Nil /\ head.outcome # Nil /\ "mark" \in HeadPc
  BY <1>1 DEF HeadInv, TypeInv, PlaceInv, Turned, HeadPc
<1>3. CASE Upset /\ Goes("mark") /\ messages' = messages
  <2>1. upsets' \in Nat /\ upsets' > 0
    BY <1>2, <1>3, UpsetMoves
  <2>2. head' \in Heads /\ head'.pc = "mark" /\ head'.run = head.run
        /\ head'.message = head.message /\ head'.sent = head.sent /\ head'.outcome = head.outcome
    BY <1>2, <1>3, GoesTo
  <2>3. PlaceInv' /\ LineInv'
    BY <1>1, <1>2, <2>1, <2>2, GoesOn DEF Turned
  <2>4. TypeInv'
    BY <1>1, <1>2, <1>3, <2>1, <2>2 DEF TypeInv
  <2>5. HistoryInv'
    BY <1>1, <1>2, <1>3, <2>1, <2>2 DEF HeadInv, HistoryInv, Turned
  <2> QED
    BY <2>1, <2>3, <2>4, <2>5, UpsetFrees DEF HeadInv
<1>4. CASE /\ upsets' = upsets /\ messages' = Inserted("assistant", "head")
           /\ conv = "there"
           /\ head' = [head EXCEPT !.pc = "attach",
                                   !.message = NewMessage("assistant", "head").id]
  <2> DEFINE m == NewMessage("assistant", "head")
  <2>1. /\ messages' \subseteq Messages /\ IsFiniteSet(messages') /\ messages \subseteq messages'
        /\ m \in Messages /\ m = Answer(m.id, "head") /\ m \in messages'
    BY <1>2, <1>4, InsertedIs DEF Answer
  <2>2. head' = [head EXCEPT !.pc = "attach", !.message = m.id]
    BY <1>4
  <2> HIDE DEF m
  <2>3. m.id \in Nat
    BY <2>1 DEF Messages
  <2>4. head' \in Heads /\ head'.pc = "attach" /\ head'.run = head.run
        /\ head'.message = m.id /\ head'.sent = head.sent /\ head'.outcome = head.outcome
    BY <1>2, <2>2, <2>3 DEF TypeInv, Heads, HeadPc, Id
  <2>5. m.id # Nil
    BY <2>3 DEF HeadConstants
  <2>6. PlaceInv' /\ LineInv' /\ RunRowsTrue'
    BY <1>1, <1>2, <1>4, <2>4, <2>5, GoesOn DEF Turned
  <2>7. TypeInv'
    BY <1>1, <1>2, <1>4, <2>1, <2>4 DEF TypeInv
  <2>8. HistoryInv'
    <3>1. Answer(head'.message, "head") \in messages'
      BY <2>1, <2>4
    <3> QED
      BY <1>1, <1>4, <2>1, <2>4, <3>1 DEF HeadInv, HistoryInv, Turned
  <2>9. CallsInv'
    BY <1>1, <1>4, <2>1, <2>4 DEF HeadInv, CallsInv, CallsOfOwn
  <2> QED
    BY <2>6, <2>7, <2>8, <2>9 DEF HeadInv
<1>5. CASE /\ upsets' = upsets /\ messages' = Inserted("assistant", "head")
           /\ conv # "there" /\ head' = [head EXCEPT !.pc = "mark"]
  <2>1. messages' = messages
    BY <1>2, <1>5, InsertedIs
  <2>2. head' \in Heads /\ head'.pc = "mark" /\ head'.run = head.run
        /\ head'.message = head.message /\ head'.sent = head.sent /\ head'.outcome = head.outcome
    BY <1>2, <1>5 DEF TypeInv, Heads, HeadPc
  <2>3. upsets' > 0
    BY <1>1, <1>2, <1>5 DEF HeadInv, PlaceInv
  <2>4. PlaceInv' /\ LineInv'
    BY <1>1, <1>2, <1>5, <2>2, GoesOn DEF Turned
  <2>5. TypeInv'
    BY <1>1, <1>2, <1>5, <2>1, <2>2 DEF TypeInv
  <2>6. HistoryInv'
    BY <1>1, <1>2, <1>5, <2>1, <2>2 DEF HeadInv, HistoryInv, Turned
  <2> QED
    BY <2>3, <2>4, <2>5, <2>6, UpsetFrees DEF HeadInv
<1> QED
  BY <1>3, <1>4, <1>5 DEF Save

LEMMA AttachKeeps == ASSUME HeadConstants, HeadInv, Attach PROVE HeadInv'
<1>1. /\ head.pc = "attach" /\ overlap' = overlap /\ printed' = printed
      /\ UNCHANGED <<argv, conv, messages, runRow, web, upsets>>
      /\ calls' = AttachedTo(head.message) /\ Goes("mark")
  BY DEF Attach, HeadAt, server
<1>2. TypeInv /\ head.message # Nil /\ head.message \in Id /\ head.outcome # Nil /\ "mark" \in HeadPc
  BY <1>1 DEF HeadInv, TypeInv, PlaceInv, Turned, HeadPc, Heads
<1>3. head' \in Heads /\ head'.pc = "mark" /\ head'.run = head.run
      /\ head'.message = head.message /\ head'.sent = head.sent /\ head'.outcome = head.outcome
  BY <1>1, <1>2, GoesTo
<1>4. PlaceInv' /\ LineInv' /\ RunRowsTrue'
  BY <1>1, <1>2, <1>3, GoesOn DEF Turned
<1>5. calls' \subseteq [by : {"head", "web"}, message : Id]
      /\ \A c \in calls' :
           \/ c \in calls /\ c.message # Nil
           \/ \E d \in calls : d.message = Nil /\ c.by = d.by /\ c.message = head.message
  BY <1>1, <1>2, AttachedIs
<1>6. TypeInv' /\ HistoryInv'
  BY <1>1, <1>2, <1>3, <1>5 DEF HeadInv, TypeInv, HistoryInv, Turned
<1>7. CallsInv'
  <2>1. CASE overlap \/ upsets # 0
    BY <1>1, <1>2, <2>1 DEF TypeInv, CallsInv, CallsOfOwn
  <2>2. CASE ~overlap /\ upsets = 0
    <3>1. web.pc = "idle" /\ conv = "there"
      BY <1>1, <2>2 DEF HeadInv, PlaceInv, Works
    <3>2. Answer(head.message, "head") \in messages
      BY <1>2, <3>1 DEF HeadInv, HistoryInv
    <3>3. \A d \in calls : d.message = Nil => d.by = "head"
      BY <2>2, <3>1 DEF HeadInv, CallsInv
    <3>4. \A c \in calls' : c.message # Nil /\ \E m \in messages : m.id = c.message /\ m.by = c.by
      <4> SUFFICES ASSUME NEW c \in calls'
                   PROVE  c.message # Nil /\ \E m \in messages : m.id = c.message /\ m.by = c.by
        OBVIOUS
      <4>1. CASE c \in calls /\ c.message # Nil
        BY <2>2, <4>1 DEF HeadInv, CallsInv, CallsOfOwn
      <4>2. CASE c.by = "head" /\ c.message = head.message
        BY <1>2, <3>2, <4>2 DEF Answer
      <4> QED
        BY <1>5, <3>3, <4>1, <4>2
    <3> QED
      BY <1>1, <3>4 DEF CallsInv, CallsOfOwn
  <2> QED
    BY <2>1, <2>2
<1> QED
  BY <1>4, <1>6, <1>7 DEF HeadInv

LEMMA MarkKeeps == ASSUME HeadConstants, HeadInv, Mark PROVE HeadInv'
<1>1. /\ head.pc = "mark" /\ overlap' = overlap
      /\ UNCHANGED <<argv, conv, messages, calls, web>>
      /\ Prints(head.outcome = "saved", head.outcome, head.message)
  BY DEF Mark, HeadAt, server
<1>2. TypeInv /\ printed = <<>> /\ upsets \in Nat /\ overlap \in BOOLEAN /\ head.run \in Id
  BY <1>1 DEF HeadInv, LineInv, TypeInv, Heads
<1>3. head' \in Heads /\ head'.pc = "over" /\ head'.run = head.run
      /\ head'.message = head.message /\ LineInv'
  <2> DEFINE ok == head.outcome = "saved"
  <2>1. ok \in BOOLEAN /\ (ok => head.outcome # "bad_usage")
    OBVIOUS
  <2>2. Prints(ok, head.outcome, head.message)
    BY <1>1
  <2> HIDE DEF ok
  <2> QED
    BY <1>2, <2>1, <2>2, PrintsOne
<1>4. CASE Upset /\ runRow' = runRow
  <2>1. upsets' \in Nat /\ upsets' > 0
    BY <1>2, <1>4, UpsetMoves
  <2>2. UNCHANGED <<argv, conv, messages, runRow, calls, web>> /\ (overlap => overlap')
    BY <1>1, <1>4
  <2> QED
    BY <1>1, <1>2, <1>3, <2>1, <2>2, Quits
<1>5. ASSUME NEW status \in {"completed", "paused"}, runRow' = Marked(head.run, status),
             upsets' = upsets
      PROVE  HeadInv'
  <2>1. /\ runRow' \in Seq(RunRow) /\ DOMAIN runRow' = DOMAIN runRow
        /\ \A i \in DOMAIN runRow : /\ i = head.run => runRow'[i].status \in {status, "deleted"}
                                    /\ i # head.run => runRow'[i] = runRow[i]
    BY <1>2, <1>5, MarkedIs
  <2>2. TypeInv'
    BY <1>1, <1>2, <1>3, <1>5, <2>1 DEF TypeInv
  <2>3. PlaceInv'
    BY <1>1, <1>3, <1>5 DEF HeadInv, PlaceInv, Works, Turned
  <2>4. HistoryInv'
    BY <1>1, <1>3, <1>5 DEF HeadInv, HistoryInv, Turned
  <2>5. CallsInv'
    BY <1>1, <1>3, <1>5 DEF HeadInv, CallsInv, CallsOfOwn
  <2>6. RunRowsTrue'
    <3>1. ~overlap /\ upsets = 0 => web.pc = "idle"
      BY <1>1 DEF HeadInv, PlaceInv, Works
    <3> SUFFICES ASSUME NEW i \in DOMAIN runRow, upsets = 0
                 PROVE  /\ runRow'[i].status = "running" => web.run = i /\ web.pc = "agent"
                        /\ runRow'[i].status \in {"completed", "paused"} /\ ~overlap =>
                             ~(web.run = i /\ web.pc = "agent")
      BY <1>1, <1>2, <1>3, <1>5, <2>1 DEF RunRowsTrue, Works, TypeInv
    <3>2. CASE i = head.run
      BY <2>1, <3>1, <3>2
    <3>3. CASE i # head.run
      BY <2>1, <3>1, <3>3 DEF HeadInv, RunRowsTrue
    <3> QED
      BY <3>2, <3>3
  <2> QED
    BY <1>3, <2>2, <2>3, <2>4, <2>5, <2>6 DEF HeadInv
<1> QED
  BY <1>4, <1>5 DEF Mark

LEMMA KillKeeps == ASSUME HeadConstants, HeadInv, Kill PROVE HeadInv'
<1>1. /\ head.pc # "over" /\ Upset /\ Goes("dead") /\ overlap' = overlap
      /\ UNCHANGED <<argv, conv, messages, runRow, calls, web, printed>>
  BY DEF Kill, tables, server
<1>2. TypeInv /\ overlap \in BOOLEAN /\ "dead" \in HeadPc
  BY DEF HeadInv, TypeInv, HeadPc
<1>3. upsets' \in Nat /\ upsets' > 0
  BY <1>1, <1>2, UpsetMoves
<1>4. head' \in Heads /\ head'.pc = "dead" /\ head'.run = head.run
      /\ head'.message = head.message
  BY <1>1, <1>2, GoesTo
<1>5. LineInv'
  BY <1>1, <1>4, Silent DEF HeadInv
<1> QED
  BY <1>1, <1>2, <1>3, <1>4, <1>5, Quits

-----------------------------------------------------------------------------
(* The server.                                                             *)

\* What the server does leaves the process and its line alone.
LEMMA ServerLeaves ==
  ASSUME HeadInv, UNCHANGED <<argv, head, printed>>
  PROVE  LineInv' /\ Works("head")' = Works("head")
BY DEF HeadInv, LineInv, OneLine, Works

LEMMA WebStartKeeps == ASSUME HeadConstants, HeadInv, WebStart PROVE HeadInv'
<1>1. /\ web.pc = "idle" /\ conv = "there" /\ argv \in RunLines
      /\ messages' = Inserted("user", "web") /\ runRow' = Ensured("web")
      /\ web' = [pc |-> "agent", run |-> Len(runRow'), message |-> Nil]
      /\ overlap' = (overlap \/ Works("head"))
      /\ UNCHANGED <<argv, head, printed, conv, calls, upsets>>
  BY DEF WebStart
<1>2. TypeInv /\ overlap' \in BOOLEAN
  BY <1>1 DEF HeadInv, TypeInv, Works
<1>3. messages' \subseteq Messages /\ IsFiniteSet(messages') /\ messages \subseteq messages'
  BY <1>1, <1>2, InsertedIs
<1>4. /\ runRow' \in Seq(RunRow) /\ Len(runRow') \in DOMAIN runRow' /\ Len(runRow') \in Nat
      /\ runRow'[Len(runRow')].status = "running"
      /\ \A i \in DOMAIN runRow' :
           i # Len(runRow') => i \in DOMAIN runRow /\ runRow'[i] = runRow[i]
  BY <1>1, <1>2, EnsuredIs
<1>5. web' \in Webs /\ web'.pc = "agent" /\ web'.run = Len(runRow')
  BY <1>1, <1>4 DEF Webs, Id
<1>6. TypeInv'
  BY <1>1, <1>2, <1>3, <1>4, <1>5 DEF TypeInv
<1>7. PlaceInv'
  BY <1>1, <1>5 DEF HeadInv, PlaceInv, Works
<1>8. LineInv'
  BY <1>1, ServerLeaves
<1>9. HistoryInv'
  BY <1>1, <1>3, <1>5 DEF HeadInv, HistoryInv
<1>10. CallsInv'
  BY <1>1, <1>3, <1>5 DEF HeadInv, CallsInv, CallsOfOwn
<1>11. RunRowsTrue'
  <2> SUFFICES ASSUME NEW i \in DOMAIN runRow'
               PROVE  /\ runRow'[i].status = "running" =>
                           (head.run = i /\ Works("head")) \/ web'.run = i \/ upsets > 0
                      /\ runRow'[i].status \in {"completed", "paused"} /\ ~overlap' /\ upsets = 0 =>
                           ~(head.run = i /\ Works("head")) /\ ~(web'.run = i)
    BY <1>1, <1>5, ServerLeaves DEF RunRowsTrue
  <2>1. CASE i = Len(runRow')
    BY <1>4, <1>5, <2>1
  <2>2. CASE i # Len(runRow')
    <3>1. i \in DOMAIN runRow /\ runRow'[i] = runRow[i] /\ web'.run # i
      BY <1>4, <1>5, <2>2
    <3>2. overlap => overlap'
      BY <1>1
    <3> QED
      BY <1>1, <3>1, <3>2 DEF HeadInv, RunRowsTrue
  <2> QED
    BY <2>1, <2>2
<1> QED
  BY <1>6, <1>7, <1>8, <1>9, <1>10, <1>11 DEF HeadInv

LEMMA WebCallKeeps == ASSUME HeadConstants, HeadInv, WebCall PROVE HeadInv'
<1>1. /\ web.pc = "agent" /\ calls' = calls \cup {[by |-> "web", message |-> Nil]}
      /\ UNCHANGED <<argv, head, printed, conv, messages, runRow, web, overlap, upsets>>
  BY DEF WebCall, server
<1>2. TypeInv' /\ PlaceInv' /\ HistoryInv'
  <2>1. TypeInv'
    BY <1>1 DEF HeadInv, TypeInv, Id
  <2>2. PlaceInv'
    BY <1>1 DEF HeadInv, PlaceInv, Works
  <2>3. HistoryInv'
    BY <1>1 DEF HeadInv, HistoryInv
  <2> QED
    BY <2>1, <2>2, <2>3
<1>3. CallsInv'
  BY <1>1 DEF HeadInv, CallsInv, CallsOfOwn
<1>4. RunRowsTrue'
  BY <1>1 DEF HeadInv, RunRowsTrue, Works
<1> QED
  BY <1>1, <1>2, <1>3, <1>4, ServerLeaves DEF HeadInv

LEMMA WebMarkKeeps == ASSUME HeadConstants, HeadInv, WebMark PROVE HeadInv'
<1>1. /\ web.pc = "agent" /\ web' = [web EXCEPT !.pc = "save"]
      /\ UNCHANGED <<argv, head, printed, conv, messages, calls, overlap, upsets>>
  BY DEF WebMark
<1>2. PICK status \in {"completed", "paused", "interrupted"} : runRow' = Marked(web.run, status)
  BY DEF WebMark
<1>3. TypeInv /\ web \in Webs /\ web.run \in Id
  BY DEF HeadInv, TypeInv, Webs
<1>4. /\ runRow' \in Seq(RunRow) /\ DOMAIN runRow' = DOMAIN runRow
      /\ \A i \in DOMAIN runRow : /\ i = web.run => runRow'[i].status \in {status, "deleted"}
                                  /\ i # web.run => runRow'[i] = runRow[i]
  BY <1>2, <1>3, MarkedIs
<1>5. web' \in Webs /\ web'.pc = "save" /\ web'.run = web.run /\ web'.message = web.message
  BY <1>1, <1>3 DEF Webs
<1>6. TypeInv'
  BY <1>1, <1>3, <1>4, <1>5 DEF TypeInv
<1>7. PlaceInv'
  BY <1>1, <1>5 DEF HeadInv, PlaceInv, Works
<1>8. HistoryInv'
  BY <1>1, <1>5 DEF HeadInv, HistoryInv
<1>9. CallsInv'
  BY <1>1, <1>5 DEF HeadInv, CallsInv, CallsOfOwn
<1>10. RunRowsTrue'
  <2>1. ~overlap => ~Works("head")
    BY <1>1 DEF HeadInv, PlaceInv, Works
  <2> SUFFICES ASSUME NEW i \in DOMAIN runRow, upsets = 0
               PROVE  /\ runRow'[i].status = "running" => head.run = i /\ Works("head")
                      /\ runRow'[i].status \in {"completed", "paused"} /\ ~overlap =>
                           ~(head.run = i /\ Works("head"))
    BY <1>1, <1>3, <1>4, <1>5, ServerLeaves DEF RunRowsTrue, TypeInv
  <2>2. CASE i = web.run
    BY <1>4, <2>1, <2>2
  <2>3. CASE i # web.run
    BY <1>4, <2>1, <2>3 DEF HeadInv, RunRowsTrue
  <2> QED
    BY <2>2, <2>3
<1> QED
  BY <1>1, <1>6, <1>7, <1>8, <1>9, <1>10, ServerLeaves DEF HeadInv

\* The server's turn ends: it never ran at its end.
LEMMA WebRows ==
  ASSUME HeadInv, web.pc # "agent", web'.pc # "agent",
         UNCHANGED <<argv, head, printed, runRow, overlap, upsets>>
  PROVE  RunRowsTrue'
BY DEF HeadInv, RunRowsTrue, Works

LEMMA WebSaveKeeps == ASSUME HeadConstants, HeadInv, WebSave PROVE HeadInv'
<1>1. /\ web.pc = "save" /\ messages' = Inserted("assistant", "web")
      /\ UNCHANGED <<argv, head, printed, conv, runRow, calls, overlap, upsets>>
  BY DEF WebSave
<1>2. TypeInv /\ web \in Webs
  BY DEF HeadInv, TypeInv
<1> DEFINE m == NewMessage("assistant", "web")
<1>3. /\ messages' \subseteq Messages /\ IsFiniteSet(messages') /\ messages \subseteq messages'
      /\ m \in Messages /\ m = Answer(m.id, "web")
      /\ (conv = "there" => m \in messages') /\ (conv # "there" => messages' = messages)
  BY <1>1, <1>2, InsertedIs DEF Answer
<1>4. web' = IF conv = "there" THEN [web EXCEPT !.pc = "attach", !.message = m.id] ELSE Free
  BY DEF WebSave
<1> HIDE DEF m
<1>5. m.id \in Nat /\ m.id # Nil
  BY <1>3 DEF Messages, HeadConstants
<1>6. web' \in Webs /\ web'.pc \in {"idle", "attach"}
      /\ (web'.pc = "attach" => conv = "there" /\ web'.message = m.id)
      /\ (web'.pc = "idle" => conv # "there")
  BY <1>2, <1>4, <1>5 DEF Webs, Free, Id
<1>7. TypeInv'
  BY <1>1, <1>2, <1>3, <1>6 DEF TypeInv
<1>8. PlaceInv'
  BY <1>1, <1>5, <1>6 DEF HeadInv, PlaceInv, Works
<1>9. HistoryInv'
  <2>1. web'.pc = "attach" => Answer(web'.message, "web") \in messages'
    BY <1>3, <1>6
  <2> QED
    BY <1>1, <1>3, <2>1 DEF HeadInv, HistoryInv
<1>10. CallsInv'
  <2>1. web'.pc = "idle" => upsets # 0
    BY <1>1, <1>6 DEF HeadInv, PlaceInv
  <2> QED
    BY <1>1, <1>2, <1>3, <1>6, <2>1 DEF HeadInv, CallsInv, CallsOfOwn, TypeInv
<1>11. RunRowsTrue'
  BY <1>1, <1>6, WebRows
<1> QED
  BY <1>1, <1>7, <1>8, <1>9, <1>10, <1>11, ServerLeaves DEF HeadInv

LEMMA WebAttachKeeps == ASSUME HeadConstants, HeadInv, WebAttach PROVE HeadInv'
<1>1. /\ web.pc = "attach" /\ calls' = AttachedTo(web.message) /\ web' = Free
      /\ UNCHANGED <<argv, head, printed, conv, messages, runRow, overlap, upsets>>
  BY DEF WebAttach
<1>2. TypeInv /\ web.message \in Id /\ web.message # Nil
  BY <1>1 DEF HeadInv, TypeInv, Webs, PlaceInv
<1>3. web' \in Webs /\ web'.pc = "idle"
  BY <1>1 DEF Webs, Free, Id
<1>4. calls' \subseteq [by : {"head", "web"}, message : Id]
      /\ \A c \in calls' :
           \/ c \in calls /\ c.message # Nil
           \/ \E d \in calls : d.message = Nil /\ c.by = d.by /\ c.message = web.message
  BY <1>1, <1>2, AttachedIs
<1>5. TypeInv'
  BY <1>1, <1>2, <1>3, <1>4 DEF TypeInv
<1>6. PlaceInv' /\ HistoryInv'
  BY <1>1, <1>3 DEF HeadInv, PlaceInv, HistoryInv, Works
<1>7. CallsInv'
  <2>1. CASE overlap \/ upsets # 0
    BY <1>1, <1>2, <2>1 DEF TypeInv, CallsInv, CallsOfOwn
  <2>2. CASE ~overlap /\ upsets = 0
    <3>1. ~Works("head")
      BY <1>1, <2>2 DEF HeadInv, PlaceInv, Works
    <3>2. Answer(web.message, "web") \in messages
      BY <1>1, <2>2 DEF HeadInv, HistoryInv
    <3>3. \A d \in calls : d.message = Nil => d.by = "web"
      BY <2>2, <3>1 DEF HeadInv, CallsInv, Works
    <3>4. \A c \in calls' : c.message # Nil /\ \E m \in messages : m.id = c.message /\ m.by = c.by
      <4> SUFFICES ASSUME NEW c \in calls'
                   PROVE  c.message # Nil /\ \E m \in messages : m.id = c.message /\ m.by = c.by
        OBVIOUS
      <4>1. CASE c \in calls /\ c.message # Nil
        BY <2>2, <4>1 DEF HeadInv, CallsInv, CallsOfOwn
      <4>2. CASE c.by = "web" /\ c.message = web.message
        BY <1>2, <3>2, <4>2 DEF Answer
      <4> QED
        BY <1>4, <3>3, <4>1, <4>2
    <3> QED
      BY <1>1, <3>4 DEF CallsInv, CallsOfOwn
  <2> QED
    BY <2>1, <2>2
<1>8. RunRowsTrue'
  BY <1>1, <1>3, WebRows
<1> QED
  BY <1>1, <1>5, <1>6, <1>7, <1>8, ServerLeaves DEF HeadInv

LEMMA DeleteKeeps == ASSUME HeadConstants, HeadInv, DeleteConv PROVE HeadInv'
<1>1. /\ conv = "there" /\ head.pc # "start" /\ Upset /\ conv' = "going"
      /\ UNCHANGED <<argv, head, printed, messages, runRow, calls, web, overlap>>
  BY DEF DeleteConv, server
<1>2. upsets' \in Nat /\ upsets' > 0
  BY <1>1, UpsetMoves DEF HeadInv
<1>3. TypeInv' /\ PlaceInv' /\ HistoryInv'
  BY <1>1, <1>2 DEF HeadInv, TypeInv, PlaceInv, HistoryInv, Works
<1> QED
  BY <1>1, <1>2, <1>3, UpsetFrees, ServerLeaves DEF HeadInv

LEMMA RowChanges ==
  \A r \in RunRow, st \in {"deleted", "interrupted"} : [r EXCEPT !.status = st] \in RunRow
BY DEF RunRow

LEMMA DeleteRowsKeeps == ASSUME HeadConstants, HeadInv, DeleteRows PROVE HeadInv'
<1>1. /\ conv = "going" /\ conv' = "gone" /\ messages' = {} /\ calls' = {}
      /\ runRow' = [i \in DOMAIN runRow |-> [runRow[i] EXCEPT !.status = "deleted"]]
      /\ UNCHANGED <<argv, head, printed, web, overlap, upsets>>
  BY DEF DeleteRows, server
<1>2. upsets \in Nat /\ IsFiniteSet({}) /\ TypeInv
  BY FS_EmptySet DEF HeadInv, TypeInv
<1>3. runRow' \in Seq(RunRow)
  <2>1. runRow \in Seq(RunRow) /\ Len(runRow) \in Nat /\ DOMAIN runRow = 1..Len(runRow)
    BY <1>2 DEF TypeInv
  <2>2. ASSUME NEW i \in DOMAIN runRow
        PROVE  [runRow[i] EXCEPT !.status = "deleted"] \in RunRow
    <3>1. runRow[i] \in RunRow
      BY <2>1
    <3> QED
      BY <3>1, RowChanges
  <2> QED
    BY <1>1, <2>1, <2>2
<1>4. TypeInv'
  BY <1>1, <1>2, <1>3 DEF TypeInv
<1>5. PlaceInv'
  BY <1>1, <1>2 DEF HeadInv, PlaceInv, Works
<1>6. argv \in RunLines => upsets > 0
  BY <1>1, <1>2 DEF HeadInv, PlaceInv
<1>7. HistoryInv'
  BY <1>1, <1>2, <1>6 DEF HeadInv, HistoryInv, PlaceInv
<1>8. CallsInv'
  BY <1>1 DEF CallsInv, CallsOfOwn
<1>9. RunRowsTrue'
  <2>1. \A i \in DOMAIN runRow' : runRow'[i].status = "deleted"
    <3>1. \A i \in DOMAIN runRow : runRow[i] \in RunRow
      BY <1>2 DEF TypeInv
    <3> QED
      BY <1>1, <3>1 DEF RunRow
  <2> QED
    BY <2>1 DEF RunRowsTrue
<1> QED
  BY <1>1, <1>4, <1>5, <1>7, <1>8, <1>9, ServerLeaves DEF HeadInv

LEMMA BootKeeps == ASSUME HeadConstants, HeadInv, Boot PROVE HeadInv'
<1>1. /\ Upset /\ web' = Free
      /\ runRow' = [i \in DOMAIN runRow |->
                      IF runRow[i].status = "running" THEN [runRow[i] EXCEPT !.status = "interrupted"]
                      ELSE runRow[i]]
      /\ UNCHANGED <<argv, head, printed, conv, messages, calls, overlap>>
  BY DEF Boot
<1>2. upsets' \in Nat /\ upsets' > 0 /\ TypeInv
  BY <1>1, UpsetMoves DEF HeadInv
<1>3. web' \in Webs /\ web'.pc = "idle"
  BY <1>1 DEF Webs, Free, Id
<1>4. runRow' \in Seq(RunRow)
  <2>1. runRow \in Seq(RunRow) /\ Len(runRow) \in Nat /\ DOMAIN runRow = 1..Len(runRow)
    BY <1>2 DEF TypeInv
  <2>2. ASSUME NEW i \in DOMAIN runRow
        PROVE  /\ runRow[i] \in RunRow
               /\ [runRow[i] EXCEPT !.status = "interrupted"] \in RunRow
    <3>1. runRow[i] \in RunRow
      BY <2>1
    <3> QED
      BY <3>1, RowChanges
  <2> QED
    BY <1>1, <2>1, <2>2
<1>5. TypeInv'
  BY <1>1, <1>2, <1>3, <1>4 DEF TypeInv
<1>6. PlaceInv' /\ HistoryInv'
  BY <1>1, <1>2, <1>3 DEF HeadInv, PlaceInv, HistoryInv, Works
<1> QED
  BY <1>1, <1>2, <1>5, <1>6, UpsetFrees, ServerLeaves DEF HeadInv

\* A task run without the server prints one line however it ends, and exits with the code
\* the line tells; what the line names is in the history; a message has the calls of its
\* own run, and a row that runs is of one who works, unless it shared the conversation
\* with a turn of the server or something failed (scripts/rw-run.mjs, server/runtrack.js).
THEOREM HeadlessIsTrue ==
  ASSUME HeadConstants
  PROVE  HeadSpec => [](OneLine /\ DurableFirst /\ CallsOfOwn /\ RunRowsTrue)
<1>1. HeadInit => HeadInv
  BY HeadStarts
<1>2. HeadInv /\ [HeadNext]_headVars => HeadInv'
  <2> SUFFICES ASSUME HeadInv, [HeadNext]_headVars PROVE HeadInv'
    OBVIOUS
  <2>1. CASE Main \/ Resolve \/ Ask \/ Ensure \/ Agent \/ Save \/ Attach \/ Mark \/ Kill
    BY <2>1, MainKeeps, ResolveKeeps, AskKeeps, EnsureKeeps, AgentKeeps, SaveKeeps,
       AttachKeeps, MarkKeeps, KillKeeps
  <2>2. CASE WebStart \/ WebCall \/ WebMark \/ WebSave \/ WebAttach
    BY <2>2, WebStartKeeps, WebCallKeeps, WebMarkKeeps, WebSaveKeeps, WebAttachKeeps
  <2>3. CASE DeleteConv \/ DeleteRows \/ Boot
    BY <2>3, DeleteKeeps, DeleteRowsKeeps, BootKeeps
  <2>4. CASE UNCHANGED headVars
    <3>1. UNCHANGED <<argv, head, printed, conv, messages, runRow, calls, web, overlap, upsets>>
      BY <2>4 DEF headVars
    <3>2. TypeInv' /\ LineInv'
      BY <3>1, ServerLeaves DEF HeadInv, TypeInv
    <3>3. PlaceInv' /\ HistoryInv'
      BY <3>1 DEF HeadInv, PlaceInv, HistoryInv, Works
    <3>4. CallsInv' /\ RunRowsTrue'
      BY <3>1 DEF HeadInv, CallsInv, CallsOfOwn, RunRowsTrue, Works
    <3> QED
      BY <3>2, <3>3, <3>4 DEF HeadInv
  <2> QED
    BY <2>1, <2>2, <2>3, <2>4 DEF HeadNext
<1>3. HeadInv => OneLine /\ DurableFirst /\ CallsOfOwn /\ RunRowsTrue
  BY DEF HeadInv, LineInv, HistoryInv, CallsInv, DurableFirst, Turned, Answer
<1> QED
  BY <1>1, <1>2, <1>3, PTL DEF HeadSpec
=============================================================================
