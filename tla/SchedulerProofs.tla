--------------------------- MODULE SchedulerProofs ---------------------------
(***************************************************************************)
(* Proofs about the scheduled tasks, for any tasks, cron expressions,      *)
(* length of a minute and of a period, limit of runs and length of time.   *)
(***************************************************************************)
EXTENDS Scheduler, FiniteSetTheorems, WellFoundedInduction, TLAPS

-----------------------------------------------------------------------------
(* Least elements, products and remainders.                                *)

\* A non-empty set of naturals has a least element.
LEMMA LeastOf ==
  ASSUME NEW S \in SUBSET Nat, S # {}
  PROVE  Min(S) \in S /\ \A y \in S : Min(S) <= y
<1> DEFINE R == {p \in Nat \X Nat : p[1] < p[2]}
<1>1. IsWellFoundedOn(R, Nat)
  BY NatLessThanWellFounded, Zenon DEF OpToRel
<1> HIDE DEF R
<1>2. PICK x \in S : \A y \in S : <<y, x>> \notin R
  BY <1>1, WFMin
<1>3. ASSUME NEW y \in S PROVE x <= y
  <2>1. y < x => <<y, x>> \in R
    BY DEF R
  <2> QED  BY <1>2, <2>1
<1> QED  BY <1>3 DEF Min

\* So has a non-empty set of integers with a bound a greatest one.
LEMMA GreatestOf ==
  ASSUME NEW hi \in Int, NEW S \in SUBSET Int, S # {}, \A y \in S : y <= hi
  PROVE  Max(S) \in S /\ \A y \in S : Max(S) >= y
<1> DEFINE D == {n \in Nat : hi - n \in S}
<1>1. D # {}
  <2>1. PICK y \in S : TRUE
    OBVIOUS
  <2>2. hi - y \in Nat /\ hi - (hi - y) = y
    BY <2>1
  <2> QED  BY <2>1, <2>2
<1>2. Min(D) \in D /\ \A n \in D : Min(D) <= n
  BY <1>1, LeastOf
<1> DEFINE m == hi - Min(D)
<1>3. m \in S
  BY <1>2
<1>4. ASSUME NEW y \in S PROVE m >= y
  <2>1. hi - y \in Nat /\ hi - (hi - y) = y
    OBVIOUS
  <2>2. hi - y \in D
    BY <2>1
  <2> HIDE DEF D
  <2>3. Min(D) <= hi - y /\ Min(D) \in Nat
    BY <1>2, <2>2 DEF D
  <2> QED  BY <2>3
<1> HIDE DEF m
<1> QED  BY <1>3, <1>4 DEF Max

LEMMA Product ==
  ASSUME NEW d \in Nat \ {0}, NEW a \in Int, NEW b \in Int, a < b
  PROVE  a * d + d <= b * d
<1>1. (b - a - 1) * d >= 0
  BY SMTT(20)
<1>2. (b - a - 1) * d = b * d - a * d - d
  BY SMTT(20)
<1> QED  BY <1>1, <1>2

LEMMA Quotient ==
  ASSUME NEW d \in Nat \ {0}, NEW a \in Int
  PROVE  /\ a \div d \in Int /\ a % d \in 0..d - 1
         /\ a = (a \div d) * d + (a % d)
<1>1. a \div d \in Int
  BY SMTT(20)
<1>2. a % d \in 0..d - 1
  BY SMTT(20)
<1>3. a = d * (a \div d) + (a % d)
  BY SMTT(20)
<1> QED  BY <1>1, <1>2, <1>3

\* The quotient and the remainder are the only ones.
LEMMA Division ==
  ASSUME NEW d \in Nat \ {0}, NEW q \in Int, NEW r \in 0..d - 1
  PROVE  (q * d + r) \div d = q /\ (q * d + r) % d = r
<1> DEFINE a == q * d + r
           p == a \div d
           s == a % d
<1>1. a \in Int /\ a = q * d + r
  BY SMTT(20)
<1>2. p \in Int /\ s \in 0..d - 1 /\ a = p * d + s
  BY <1>1, Quotient
<1> HIDE DEF a, p, s
<1>3. q * d \in Int /\ p * d \in Int
  BY <1>2
<1>4. ~(p < q)
  <2>1. p < q => p * d + d <= q * d
    BY <1>2, Product
  <2> QED  BY <1>1, <1>2, <1>3, <2>1
<1>5. ~(q < p)
  <2>1. q < p => q * d + d <= p * d
    BY <1>2, Product
  <2> QED  BY <1>1, <1>2, <1>3, <2>1
<1>6. p = q
  BY <1>2, <1>4, <1>5
<1>7. s = r
  BY <1>1, <1>2, <1>3, <1>6
<1> QED  BY <1>6, <1>7 DEF p, s, a

\* A unit of time a minute later lies in a later minute.
LEMMA LaterMinute ==
  ASSUME NEW d \in Nat \ {0}, NEW t \in Int, NEW u \in Int, u >= t + d
  PROVE  u \div d > t \div d
<1> DEFINE a == t \div d
           b == u \div d
<1>1. a \in Int /\ t % d \in 0..d - 1 /\ t = a * d + (t % d)
  BY Quotient
<1>2. b \in Int /\ u % d \in 0..d - 1 /\ u = b * d + (u % d)
  BY Quotient
<1> DEFINE r == t % d
           s == u % d
<1> HIDE DEF a, b, r, s
<1>3. a * d \in Int /\ b * d \in Int
  BY <1>1, <1>2
<1>4. t = a * d + r /\ u = b * d + s /\ r \in 0..d - 1 /\ s \in 0..d - 1
  BY <1>1, <1>2 DEF r, s
<1>5. CASE b < a
  <2>1. b * d + d <= a * d
    BY <1>1, <1>2, <1>5, Product
  <2> QED  BY <1>3, <1>4, <2>1
<1>6. CASE b = a
  BY <1>3, <1>4, <1>6
<1>7. b > a
  BY <1>1, <1>2, <1>5, <1>6
<1> QED  BY <1>7 DEF a, b

-----------------------------------------------------------------------------
(* Cron expressions.                                                       *)

LEMMA PeriodType == /\ Period \in Nat \ {0} /\ Minute \in Nat \ {0}
                    /\ \A c \in Cron : c \subseteq 0..Period - 1
BY SchedulerAssumption

\* Among the minutes of a period from any minute on, and of a period before it,
\* there is one that an expression matches.
LEMMA InEveryPeriod ==
  ASSUME NEW c \in Cron, c # {}, NEW q \in Int
  PROVE  /\ \E j \in 0..Period - 1 : (q + j) % Period \in c
         /\ \E m \in q - Period..q : m % Period \in c
<1> DEFINE P == Period
           a == q \div P
           b == q % P
<1>1. PICK i \in c : TRUE
  OBVIOUS
<1>2. P \in Nat \ {0} /\ i \in 0..P - 1
  BY <1>1, PeriodType
<1> HIDE DEF P
<1>3. a \in Int /\ b \in 0..P - 1 /\ q = a * P + b
  BY <1>2, Quotient
<1> HIDE DEF a, b
<1>4. /\ (a * P + i) % P = i /\ ((a + 1) * P + i) % P = i /\ ((a - 1) * P + i) % P = i
  BY <1>2, <1>3, Division
<1>5. /\ a * P \in Int /\ (a + 1) * P = a * P + P /\ (a - 1) * P = a * P - P
  BY <1>2, <1>3, SMTT(20)
<1>6. \E j \in 0..P - 1 : (q + j) % P \in c
  <2>1. CASE i >= b
    <3>1. i - b \in 0..P - 1 /\ q + (i - b) = a * P + i
      BY <1>2, <1>3, <1>5, <2>1
    <3> QED  BY <1>4, <3>1
  <2>2. CASE i < b
    <3>1. P + i - b \in 0..P - 1 /\ q + (P + i - b) = (a + 1) * P + i
      BY <1>2, <1>3, <1>5, <2>2
    <3> QED  BY <1>4, <3>1
  <2> QED  BY <1>2, <1>3, <2>1, <2>2
<1>7. \E m \in q - P..q : m % P \in c
  <2>1. CASE i <= b
    <3>1. a * P + i \in q - P..q
      BY <1>2, <1>3, <1>5, <2>1
    <3> QED  BY <1>4, <3>1
  <2>2. CASE i > b
    <3>1. (a - 1) * P + i \in q - P..q
      BY <1>2, <1>3, <1>5, <2>2
    <3> QED  BY <1>4, <3>1
  <2> QED  BY <1>2, <1>3, <2>1, <2>2
<1> QED  BY <1>6, <1>7 DEF P

\* The next run is a time from the present one on, for an expression that
\* matches anything.
LEMMA NextRun ==
  ASSUME NEW c \in Cron, NEW from \in Nat
  PROVE  /\ cronToNext(c, from) \in Nat \cup {Unset}
         /\ cronToNext(c, from) # Unset => cronToNext(c, from) >= from
         /\ c # {} => cronToNext(c, from) # Unset
<1> DEFINE q == from \div Minute
           hits == {i \in 0..(Period - 1) : Matches(c, q + i)}
<1>1. q \in Int
  BY PeriodType, Quotient
<1>2. hits \in SUBSET Nat
  OBVIOUS
<1>3. hits # {} => Min(hits) \in Nat
  BY <1>2, LeastOf
<1>4. hits # {} => Minute * Min(hits) \in Nat
  BY <1>3, PeriodType
<1>5. c # {} => hits # {}
  <2>1. c # {} => \E j \in 0..Period - 1 : (q + j) % Period \in c
    BY <1>1, InEveryPeriod
  <2> QED  BY <2>1 DEF Matches
<1>6. cronToNext(c, from) = IF hits = {} THEN Unset ELSE from + Minute * Min(hits)
  BY DEF cronToNext
<1>7. Unset \notin Nat
  BY SchedulerAssumption
<1> HIDE DEF hits
<1>8. CASE hits = {}
  BY <1>5, <1>6, <1>8
<1>9. CASE hits # {}
  <2> DEFINE n == Minute * Min(hits)
  <2>1. n \in Nat
    BY <1>4, <1>9
  <2> HIDE DEF n
  <2>2. cronToNext(c, from) = from + n
    BY <1>6, <1>9 DEF n
  <2> QED  BY <1>7, <2>1, <2>2
<1> QED  BY <1>8, <1>9

\* The push goes at least a minute on.
LEMMA AdvancePast ==
  ASSUME NEW c \in Cron, NEW t \in Nat
  PROVE  Advance(c, t) \in Nat /\ Advance(c, t) >= t + Minute
<1> DEFINE first  == cronToNext(c, t)
           anchor == IF first = Unset THEN t + Minute ELSE Latest(first, t + Minute)
           after  == cronToNext(c, anchor + Minute)
<1>1. first \in Nat \cup {Unset} /\ t + Minute \in Nat
  BY NextRun, PeriodType
<1> HIDE DEF first
<1>2. anchor \in Nat /\ anchor >= t + Minute
  BY <1>1, PeriodType DEF Latest
<1> HIDE DEF anchor
<1>3. after \in Nat \cup {Unset}
  <2>1. anchor + Minute \in Nat
    BY <1>2, PeriodType
  <2> QED  BY <2>1, NextRun
<1> HIDE DEF after
<1>4. Advance(c, t) = IF after # Unset THEN Latest(after, anchor) ELSE anchor
  BY DEF Advance, first, anchor, after
<1> QED  BY <1>1, <1>2, <1>3, <1>4, PeriodType DEF Latest

\* The point a run is for is not later than the present minute.
LEMMA PointBefore ==
  ASSUME NEW c \in Cron, NEW t \in Nat
  PROVE  /\ Point(c, t) \in Int \cup {Unset}
         /\ c # {} => Point(c, t) \in Int /\ Point(c, t) <= t \div Minute
<1> DEFINE q == t \div Minute
           past == {m \in (q - Period)..q : Matches(c, m)}
<1>1. q \in Int /\ Period \in Nat
  BY PeriodType, Quotient
<1>2. Point(c, t) = IF past = {} THEN Unset ELSE Max(past)
  BY DEF Point
<1> HIDE DEF q
<1>3. past \in SUBSET Int /\ \A m \in past : m <= q
  BY <1>1
<1>4. c # {} => past # {}
  <2>1. c # {} => \E m \in q - Period..q : m % Period \in c
    BY <1>1, InEveryPeriod
  <2> QED  BY <2>1 DEF Matches
<1> HIDE DEF past
<1>5. past # {} => Max(past) \in past
  BY <1>1, <1>3, GreatestOf
<1>6. past # {} => Max(past) \in Int /\ Max(past) <= q
  BY <1>3, <1>5
<1> QED  BY <1>2, <1>4, <1>6 DEF q

-----------------------------------------------------------------------------
(* The scans and the runs.  The argument: the count and the in-flight set  *)
(* are those of the scheduled runs; a scan that pushes a task has seen it  *)
(* out of the set and the count below the limit, and nothing but a push    *)
(* adds to them.  As long as nobody edits a task every task has its next   *)
(* run, so that nothing but a push or the end of a run writes it.          *)

PushIsSound ==
  \A k \in Ticker : tick[k].pc = "push" =>
    /\ tick[k].cur \in Seen /\ tick[k].cur.task \notin inFlight
    /\ schedulerRunning < MaxRunning
    /\ tick[k].next >= now + Minute

RunsKnown == \A x \in Executing : run[x].task \in Task /\ run[x].cron \in Cron

\* While nobody has called the routes.
Calm ==
  calls = 0 =>
    /\ \A t \in Task : /\ row[t].exists /\ ~row[t].half
                       /\ row[t].next_run # Unset /\ row[t].cron # {}
    /\ \A k \in Ticker : /\ tick[k].pc = "fill" => tick[k].rows = {}
                         /\ \A s \in tick[k].rows : s.cron # {}
                         /\ tick[k].pc = "push" => tick[k].cur.cron # {}
    /\ \A x \in Executing : /\ run[x].cron # {} /\ ~run[x].manual
                            /\ run[x].pc = "write" => run[x].next # Unset

Inv == /\ SchedTypeOK /\ ConcurrencyLimit /\ OneScheduledRun /\ CountersExact
       /\ PushedPastPoint /\ PushIsSound /\ RunsKnown /\ Calm

Faults == faults \in 0..MaxFaults

LEMMA Apart == /\ Unset \notin Nat /\ Unset \notin Int /\ Unset \notin Seen /\ Unset \notin Task
               /\ \A k, l \in Ticker : k = l
               /\ Slot \subseteq Nat /\ IsFiniteSet(Slot)
BY SchedulerAssumption

\* The scheduled runs are finitely many.
LEMMA ScheduledIsFinite ==
  /\ Scheduled \subseteq Slot /\ Executing \subseteq Slot
  /\ IsFiniteSet(Scheduled) /\ Cardinality(Scheduled) \in Nat
  /\ Cardinality(Scheduled) <= Cardinality(Slot) /\ Cardinality(Slot) \in Nat
<1>1. Scheduled \subseteq Slot /\ Executing \subseteq Slot
  BY DEF Scheduled, Executing
<1> QED  BY <1>1, Apart, FS_Subset, FS_CardinalityType

\* The one scan of the process goes on.
LEMMA OneTick ==
  ASSUME SchedTypeOK, NEW k \in Ticker, NEW q \in TickRec, tick' = [tick EXCEPT ![k] = q]
  PROVE  tick' \in [Ticker -> TickRec] /\ \A l \in Ticker : tick'[l] = q
<1>1. tick \in [Ticker -> TickRec]
  BY DEF SchedTypeOK
<1> QED  BY <1>1, Apart

LEMMA TickFields ==
  ASSUME SchedTypeOK, NEW k \in Ticker
  PROVE  /\ tick[k] \in TickRec /\ tick[k].rows \in SUBSET Seen
         /\ tick[k].cur \in Seen \cup {Unset} /\ tick[k].last \in Nat /\ tick[k].next \in Nat
         /\ tick[k].pc \in {"idle", "fill", "loop", "push"}
BY DEF SchedTypeOK, TickRec, Time

LEMMA RowFields ==
  ASSUME SchedTypeOK, NEW t \in Task
  PROVE  /\ row[t] \in Row /\ row[t].exists \in BOOLEAN /\ row[t].enabled \in BOOLEAN
         /\ row[t].cron \in Cron /\ row[t].next_run \in Nat \cup {Unset}
         /\ row[t].half \in BOOLEAN
BY DEF SchedTypeOK, Row, Time

LEMMA RunFields ==
  ASSUME SchedTypeOK, NEW x \in Slot
  PROVE  /\ run[x] \in RunRec /\ run[x].pc \in {"free", "agent", "write", "exit"}
         /\ run[x].task \in Task \cup {Unset} /\ run[x].cron \in Cron \cup {Unset}
         /\ run[x].manual \in BOOLEAN /\ run[x].next \in Nat \cup {Unset}
BY DEF SchedTypeOK, RunRec, Time

\* A scan that writes nothing but its own place.
LEMMA TickOnly ==
  ASSUME Inv, NEW k \in Ticker, NEW q \in TickRec, tick' = [tick EXCEPT ![k] = q],
         UNCHANGED <<row, run, schedulerRunning, inFlight, now, lastPoint, calls>>, Faults',
         q.pc = "push" => /\ q.cur \in Seen /\ q.cur.task \notin inFlight
                          /\ schedulerRunning < MaxRunning /\ q.next >= now + Minute,
         calls = 0 => /\ q.pc = "fill" => q.rows = {}
                      /\ \A s \in q.rows : s.cron # {}
                      /\ q.pc = "push" => q.cur.cron # {}
  PROVE  Inv'
<1>1. tick' \in [Ticker -> TickRec] /\ \A l \in Ticker : tick'[l] = q
  BY OneTick DEF Inv
<1>2. SchedTypeOK'
  BY <1>1 DEF Inv, SchedTypeOK, Faults
<1>3. ConcurrencyLimit' /\ OneScheduledRun' /\ CountersExact' /\ RunsKnown'
  BY DEF Inv, ConcurrencyLimit, OneScheduledRun, CountersExact, RunsKnown, Scheduled, Executing
<1>4. PushedPastPoint'
  BY DEF Inv, PushedPastPoint, Scheduled, Executing
<1>5. PushIsSound'
  BY <1>1 DEF PushIsSound
<1>6. Calm'
  BY <1>1 DEF Inv, Calm, Executing
<1> QED  BY <1>2, <1>3, <1>4, <1>5, <1>6 DEF Inv

\* What a scan reads of the rows.
LEMMA ReadOf ==
  ASSUME SchedTypeOK, NEW U \in SUBSET Task
  PROVE  {[task |-> t, cron |-> row[t].cron] : t \in U} \in SUBSET Seen
BY RowFields DEF Seen

LEMMA TickStartStep == ASSUME Inv, NEW k \in Ticker, TickStart(k) PROVE Inv'
<1> DEFINE U == {u \in Task : Enabled(u) /\ row[u].next_run = Unset}
           seen == {[task |-> t, cron |-> row[t].cron] : t \in U}
           q == [tick[k] EXCEPT !.pc = "fill", !.last = now, !.rows = seen]
<1>1. SchedTypeOK /\ seen \in SUBSET Seen /\ now \in Nat
  BY ReadOf, SchedulerAssumption DEF Inv, SchedTypeOK
<1>2. calls = 0 => seen = {}
  BY DEF Inv, Calm
<1>3. tick' = [tick EXCEPT ![k] = q]
  BY <1>1, TickFields DEF TickStart
<1> HIDE DEF seen
<1>4. q \in TickRec /\ q.pc = "fill" /\ q.rows = seen
  BY <1>1, TickFields DEF TickRec, Time
<1> HIDE DEF q
<1>5. UNCHANGED <<row, run, schedulerRunning, inFlight, now, lastPoint, calls, faults>>
  BY DEF TickStart
<1> QED  BY <1>1, <1>2, <1>3, <1>4, <1>5, TickOnly DEF Faults, SchedTypeOK

LEMMA TickSelectStep == ASSUME Inv, NEW k \in Ticker, TickSelect(k) PROVE Inv'
<1> DEFINE U == {u \in Task : Due(u)}
           seen == {[task |-> t, cron |-> row[t].cron] : t \in U}
           q == [tick[k] EXCEPT !.pc = "loop", !.rows = seen]
<1>1. SchedTypeOK /\ seen \in SUBSET Seen
  BY ReadOf DEF Inv
<1>2. calls = 0 => \A s \in seen : s.cron # {}
  BY DEF Inv, Calm
<1>3. tick' = [tick EXCEPT ![k] = q]
  BY <1>1, TickFields DEF TickSelect
<1> HIDE DEF seen
<1>4. q \in TickRec /\ q.pc = "loop" /\ q.rows = seen
  BY <1>1, TickFields DEF TickRec, Time
<1> HIDE DEF q
<1>5. UNCHANGED <<row, run, schedulerRunning, inFlight, now, lastPoint, calls, faults>>
  BY DEF TickSelect
<1> QED  BY <1>1, <1>2, <1>3, <1>4, <1>5, TickOnly DEF Faults, SchedTypeOK

LEMMA TickTakeStep == ASSUME Inv, NEW k \in Ticker, TickTake(k) PROVE Inv'
<1>1. SchedTypeOK /\ now \in Nat /\ schedulerRunning \in Nat
  BY ScheduledIsFinite, SchedulerAssumption DEF Inv, SchedTypeOK
<1>2. schedulerRunning < MaxRunning
  BY <1>1, SchedulerAssumption DEF TickTake, AtLimit
<1>3. PICK s \in tick[k].rows :
        tick' = [tick EXCEPT ![k].rows = @ \ {s},
                     ![k].pc   = IF Skips(s.task) THEN "loop" ELSE "push",
                     ![k].cur  = IF Skips(s.task) THEN Unset ELSE s,
                     ![k].next = IF Skips(s.task) THEN 0 ELSE Advance(s.cron, now)]
  BY DEF TickTake
<1>4. s \in Seen /\ s.task \in Task /\ s.cron \in Cron
  BY <1>1, TickFields DEF Seen
<1> DEFINE next == Advance(s.cron, now)
<1>5. next \in Nat /\ next >= now + Minute
  BY <1>1, <1>4, AdvancePast
<1> DEFINE q == [tick[k] EXCEPT !.rows = @ \ {s},
                     !.pc   = IF Skips(s.task) THEN "loop" ELSE "push",
                     !.cur  = IF Skips(s.task) THEN Unset ELSE s,
                     !.next = IF Skips(s.task) THEN 0 ELSE next]
<1>6. tick' = [tick EXCEPT ![k] = q]
  BY <1>3
<1> HIDE DEF next
<1>7. /\ q \in TickRec /\ q.rows \subseteq tick[k].rows
      /\ q.pc \in {"loop", "push"}
      /\ q.pc = "push" => ~Skips(s.task) /\ q.cur = s /\ q.next = next
  <2>1. CASE Skips(s.task)
    BY <1>1, <2>1, TickFields DEF TickRec, Time
  <2>2. CASE ~Skips(s.task)
    BY <1>1, <1>4, <1>5, <2>2, TickFields DEF TickRec, Time
  <2> QED  BY <2>1, <2>2
<1> HIDE DEF q
<1>8. q.pc = "push" => /\ q.cur \in Seen /\ q.cur.task \notin inFlight
                       /\ schedulerRunning < MaxRunning /\ q.next >= now + Minute
  BY <1>2, <1>4, <1>5, <1>7 DEF Skips
<1>9. calls = 0 => /\ \A r \in tick[k].rows : r.cron # {}
                   /\ s.cron # {}
  BY DEF Inv, Calm
<1>10. UNCHANGED <<row, run, schedulerRunning, inFlight, now, lastPoint, calls, faults>>
  BY DEF TickTake
<1>11. calls = 0 => /\ q.pc = "fill" => q.rows = {}
                    /\ \A r \in q.rows : r.cron # {}
                    /\ q.pc = "push" => q.cur.cron # {}
  BY <1>7, <1>9
<1> QED  BY <1>1, <1>6, <1>7, <1>8, <1>10, <1>11, TickOnly DEF Faults, SchedTypeOK

LEMMA TickOverStep ==
  ASSUME Inv, NEW k \in Ticker, TickEnd(k) \/ TickThrows(k)
  PROVE  Inv'
<1>1. SchedTypeOK
  BY DEF Inv
<1>2. PICK c \in {tick[k].cur, Unset}, n \in {tick[k].next, 0} :
        tick' = [tick EXCEPT ![k] = [tick[k] EXCEPT !.pc = "idle", !.rows = {},
                                                    !.cur = c, !.next = n]]
  <2>1. CASE TickEnd(k)
    <3>1. tick' = [tick EXCEPT ![k].pc = "idle", ![k].rows = {}]
      BY <2>1 DEF TickEnd
    <3>2. [tick[k] EXCEPT !.pc = "idle", !.rows = {}]
            = [tick[k] EXCEPT !.pc = "idle", !.rows = {}, !.cur = tick[k].cur,
                              !.next = tick[k].next]
      BY <1>1, TickFields DEF TickRec
    <3>3. tick' = [tick EXCEPT ![k] = [tick[k] EXCEPT !.pc = "idle", !.rows = {}]]
      BY <3>1
    <3> QED  BY <3>2, <3>3
  <2>2. CASE TickThrows(k)
    BY <2>2 DEF TickThrows
  <2> QED  BY <2>1, <2>2
<1> DEFINE q == [tick[k] EXCEPT !.pc = "idle", !.rows = {}, !.cur = c, !.next = n]
<1>3. q \in TickRec /\ q.pc = "idle" /\ q.rows = {}
  <2>1. c \in Seen \cup {Unset} /\ n \in Nat
    BY <1>1, TickFields
  <2>2. tick[k] \in TickRec
    BY <1>1, TickFields
  <2> QED  BY <2>1, <2>2 DEF TickRec, Time
<1>4. tick' = [tick EXCEPT ![k] = q]
  BY <1>2
<1> HIDE DEF q
<1>5. UNCHANGED <<row, run, schedulerRunning, inFlight, now, lastPoint, calls>>
  BY DEF TickEnd, TickThrows
<1>6. Faults'
  BY <1>1, SchedulerAssumption DEF TickEnd, TickThrows, Fault, Faults, SchedTypeOK
<1> QED  BY <1>3, <1>4, <1>5, <1>6, TickOnly

-----------------------------------------------------------------------------
(* The steps that write rows.                                              *)

\* What writing the next run of a task changes.
LEMMA NextWritten ==
  ASSUME SchedTypeOK, NEW t \in Task, NEW n \in Nat \cup {Unset}, SetNext(t, n)
  PROVE  /\ row' \in [Task -> Row]
         /\ \A u \in Task : /\ row'[u].exists = row[u].exists /\ row'[u].half = row[u].half
                            /\ row'[u].cron = row[u].cron
                            /\ u # t => row'[u] = row[u]
         /\ row[t].exists => row'[t].next_run = n
<1>1. row \in [Task -> Row] /\ row[t] \in Row
  BY DEF SchedTypeOK
<1> DEFINE q == [row[t] EXCEPT !.next_run = n]
<1>2. /\ q \in Row /\ q.exists = row[t].exists /\ q.half = row[t].half
      /\ q.cron = row[t].cron /\ q.next_run = n
  BY <1>1 DEF Row, Time
<1>3. \/ row' = [row EXCEPT ![t] = q]
      \/ row' = row /\ ~row[t].exists
  <2>1. CASE row[t].exists
    BY <2>1 DEF SetNext
  <2>2. CASE ~row[t].exists
    BY <2>2 DEF SetNext
  <2> QED  BY <2>1, <2>2
<1> HIDE DEF q
<1>4. CASE row' = [row EXCEPT ![t] = q]
  <2>1. row' \in [Task -> Row] /\ row'[t] = q /\ \A u \in Task : u # t => row'[u] = row[u]
    BY <1>1, <1>2, <1>4
  <2> QED  BY <1>2, <2>1
<1>5. CASE row' = row /\ ~row[t].exists
  BY <1>1, <1>5
<1> QED  BY <1>3, <1>4, <1>5

LEMMA TickFillStep == ASSUME Inv, NEW k \in Ticker, TickFill(k) PROVE Inv'
<1>1. SchedTypeOK /\ now \in Nat
  BY SchedulerAssumption DEF Inv, SchedTypeOK
<1>2. PICK s \in tick[k].rows :
        /\ tick' = [tick EXCEPT ![k].rows = @ \ {s}]
        /\ IF cronToNext(s.cron, now) = Unset THEN UNCHANGED row
           ELSE SetNext(s.task, cronToNext(s.cron, now))
  BY DEF TickFill
<1>3. tick[k].pc = "fill" /\ UNCHANGED <<run, schedulerRunning, inFlight, now, lastPoint, calls, faults>>
  BY DEF TickFill
<1>4. s \in Seen /\ s.task \in Task /\ s.cron \in Cron
  BY <1>1, TickFields DEF Seen
<1>5. calls # 0
  BY <1>2, <1>3 DEF Inv, Calm
<1> DEFINE q == [tick[k] EXCEPT !.rows = @ \ {s}]
<1>6. q \in TickRec /\ q.pc = "fill"
  BY <1>1, <1>3, TickFields DEF TickRec, Time
<1>7. tick' = [tick EXCEPT ![k] = q]
  BY <1>2
<1> HIDE DEF q
<1>8. tick' \in [Ticker -> TickRec] /\ \A l \in Ticker : tick'[l].pc = "fill"
  BY <1>1, <1>6, <1>7, OneTick
<1>9. row' \in [Task -> Row]
  <2>1. CASE cronToNext(s.cron, now) = Unset
    BY <1>1, <1>2, <2>1 DEF SchedTypeOK
  <2>2. CASE cronToNext(s.cron, now) # Unset
    <3>1. cronToNext(s.cron, now) \in Nat \cup {Unset}
      BY <1>1, <1>4, NextRun
    <3> QED  BY <1>1, <1>2, <1>4, <2>2, <3>1, NextWritten
  <2> QED  BY <2>1, <2>2
<1>10. SchedTypeOK'
  BY <1>3, <1>8, <1>9 DEF Inv, SchedTypeOK
<1>11. ConcurrencyLimit' /\ OneScheduledRun' /\ CountersExact' /\ RunsKnown'
  BY <1>3 DEF Inv, ConcurrencyLimit, OneScheduledRun, CountersExact, RunsKnown, Scheduled, Executing
<1>12. PushedPastPoint' /\ Calm'
  BY <1>3, <1>5 DEF PushedPastPoint, Calm
<1>13. PushIsSound'
  BY <1>8 DEF PushIsSound
<1> QED  BY <1>10, <1>11, <1>12, <1>13 DEF Inv

\* A free place is found while there is one.
LEMMA FreePlace ==
  ASSUME Executing # Slot
  PROVE  Min(Slot \ Executing) \in Slot \ Executing
<1>1. Slot \ Executing # {} /\ Slot \ Executing \in SUBSET Nat
  BY ScheduledIsFinite, Apart
<1> QED  BY <1>1, LeastOf

\* What a place that is taken changes of the executions.
LEMMA PlaceTaken ==
  ASSUME SchedTypeOK, NEW x \in Slot \ Executing, NEW r \in RunRec, r.pc = "agent",
         run' = [run EXCEPT ![x] = r]
  PROVE  /\ run' \in [Slot -> RunRec] /\ run'[x] = r
         /\ \A y \in Slot : y # x => run'[y] = run[y]
         /\ Executing' = Executing \cup {x}
         /\ Scheduled' = IF r.manual THEN Scheduled ELSE Scheduled \cup {x}
         /\ x \notin Scheduled
<1>1. run \in [Slot -> RunRec]
  BY DEF SchedTypeOK
<1>2. run' \in [Slot -> RunRec] /\ run'[x] = r /\ \A y \in Slot : y # x => run'[y] = run[y]
  BY <1>1
<1>3. Executing' = Executing \cup {x}
  BY <1>2 DEF Executing
<1> QED  BY <1>2, <1>3 DEF Scheduled, Executing

LEMMA TickPushStep == ASSUME Inv, NEW k \in Ticker, TickPush(k) PROVE Inv'
<1> DEFINE s == tick[k].cur
           n == tick[k].next
<1>1. /\ SchedTypeOK /\ now \in Nat /\ tick[k].pc = "push"
      /\ s \in Seen /\ s.task \in Task /\ s.cron \in Cron
      /\ s.task \notin inFlight /\ schedulerRunning < MaxRunning
      /\ n \in Nat /\ n >= now + Minute
  BY SchedulerAssumption, TickFields DEF Inv, SchedTypeOK, TickPush, PushIsSound, Seen
<1>2. /\ SetNext(s.task, n) /\ schedulerRunning' = schedulerRunning + 1
      /\ inFlight' = inFlight \cup {s.task} /\ Starts(s, FALSE)
      /\ lastPoint' = [lastPoint EXCEPT ![s.task] = Point(s.cron, now)]
      /\ tick' = [tick EXCEPT ![k].pc = "loop", ![k].cur = Unset, ![k].next = 0]
      /\ UNCHANGED <<now, calls, faults>>
  BY DEF TickPush
<1> HIDE DEF s, n
<1>3. PICK x \in Slot \ Executing, r \in RunRec :
         /\ run' = [run EXCEPT ![x] = r]
         /\ r.pc = "agent" /\ r.task = s.task /\ r.cron = s.cron /\ r.manual = FALSE
  <2> DEFINE y == Min(Slot \ Executing)
             e == [pc |-> "agent", task |-> s.task, cron |-> s.cron,
                   manual |-> FALSE, next |-> Unset]
  <2>1. y \in Slot \ Executing /\ run' = [run EXCEPT ![y] = e]
    BY <1>2, FreePlace DEF Starts
  <2>2. e \in RunRec /\ e.pc = "agent" /\ e.task = s.task /\ e.cron = s.cron
        /\ e.manual = FALSE
    BY <1>1 DEF RunRec, Time
  <2> HIDE DEF y, e
  <2> QED  BY <2>1, <2>2
<1>4. /\ run' \in [Slot -> RunRec] /\ run'[x] = r
      /\ \A y \in Slot : y # x => run'[y] = run[y]
      /\ Executing' = Executing \cup {x} /\ Scheduled' = Scheduled \cup {x}
      /\ x \notin Scheduled
  BY <1>1, <1>3, PlaceTaken
<1>5. /\ row' \in [Task -> Row]
      /\ \A u \in Task : /\ row'[u].exists = row[u].exists /\ row'[u].half = row[u].half
                         /\ row'[u].cron = row[u].cron
                         /\ u # s.task => row'[u] = row[u]
      /\ row[s.task].exists => row'[s.task].next_run = n
  BY <1>1, <1>2, NextWritten
<1> DEFINE q == [tick[k] EXCEPT !.pc = "loop", !.cur = Unset, !.next = 0]
<1>6. q \in TickRec /\ q.pc = "loop" /\ q.rows = tick[k].rows
  BY <1>1, TickFields DEF TickRec, Time
<1>7. tick' = [tick EXCEPT ![k] = q]
  BY <1>2
<1> HIDE DEF q
<1>8. tick' \in [Ticker -> TickRec] /\ \A l \in Ticker : tick'[l] = q
  BY <1>1, <1>6, <1>7, OneTick
<1>9. /\ schedulerRunning = Cardinality(Scheduled)
      /\ inFlight = {run[y].task : y \in Scheduled}
      /\ IsFiniteSet(Scheduled) /\ Cardinality(Scheduled) \in Nat /\ Scheduled \subseteq Slot
  BY ScheduledIsFinite DEF Inv, CountersExact
<1>10. Cardinality(Scheduled') = Cardinality(Scheduled) + 1
  BY <1>4, <1>9, FS_AddElement
<1>11. Cardinality(Scheduled') \in 0..Cardinality(Slot)
  <2>1. Scheduled' \subseteq Slot
    BY <1>4, <1>9
  <2>2. Cardinality(Scheduled') <= Cardinality(Slot) /\ Cardinality(Slot) \in Nat
    BY <2>1, Apart, FS_Subset, FS_CardinalityType
  <2> QED  BY <1>9, <1>10, <2>2
<1>12. CountersExact'
  <2>1. {run'[y].task : y \in Scheduled'} = inFlight \cup {s.task}
    <3>1. \A y \in Scheduled : run'[y].task = run[y].task
      BY <1>4, <1>9
    <3> QED  BY <1>3, <1>4, <1>9, <3>1
  <2> QED  BY <1>2, <1>9, <1>10, <2>1 DEF CountersExact
<1>13. ConcurrencyLimit'
  BY <1>1, <1>9, <1>10, SchedulerAssumption DEF ConcurrencyLimit
<1>14. OneScheduledRun'
  <2> SUFFICES ASSUME NEW y \in Scheduled', NEW z \in Scheduled', run'[y].task = run'[z].task
               PROVE  y = z
    BY DEF OneScheduledRun
  <2>1. \A w \in Scheduled : run'[w].task = run[w].task /\ run[w].task # s.task
    BY <1>1, <1>4, <1>9
  <2>2. run'[x].task = s.task
    BY <1>3, <1>4
  <2>3. \A v, w \in Scheduled : run[v].task = run[w].task => v = w
    BY DEF Inv, OneScheduledRun
  <2> QED  BY <1>4, <2>1, <2>2, <2>3
<1>15. Point(s.cron, now) \in Int \cup {Unset}
       /\ (s.cron # {} => Point(s.cron, now) \in Int /\ Point(s.cron, now) <= now \div Minute)
  BY <1>1, PointBefore
<1>16. /\ lastPoint' \in [Task -> Int \cup {Unset}] /\ lastPoint'[s.task] = Point(s.cron, now)
       /\ \A u \in Task : u # s.task => lastPoint'[u] = lastPoint[u]
  <2>1. lastPoint \in [Task -> Int \cup {Unset}]
    BY <1>1 DEF SchedTypeOK
  <2> DEFINE pt == Point(s.cron, now)
  <2>2. pt \in Int \cup {Unset} /\ lastPoint' = [lastPoint EXCEPT ![s.task] = pt]
    BY <1>2, <1>15
  <2> HIDE DEF pt
  <2>3. lastPoint'[s.task] = pt
    BY <1>1, <2>1, <2>2
  <2> QED  BY <1>1, <2>1, <2>2, <2>3 DEF pt
<1>17. SchedTypeOK'
  <2>1. schedulerRunning' \in 0..Cardinality(Slot)
    BY <1>2, <1>9, <1>10, <1>11
  <2>2. inFlight' \subseteq Task
    BY <1>1, <1>2 DEF SchedTypeOK
  <2> QED  BY <1>1, <1>2, <1>4, <1>5, <1>8, <1>16, <2>1, <2>2 DEF SchedTypeOK
<1>18. calls = 0 => /\ s.cron # {} /\ row[s.task].exists
                    /\ \A u \in Task : /\ row[u].exists /\ ~row[u].half
                                       /\ row[u].next_run # Unset /\ row[u].cron # {}
                    /\ \A z \in tick[k].rows : z.cron # {}
                    /\ \A y \in Executing : /\ run[y].cron # {} /\ ~run[y].manual
                                            /\ run[y].pc = "write" => run[y].next # Unset
  BY <1>1 DEF Inv, Calm, s
<1>19. PushedPastPoint'
  <2> SUFFICES ASSUME NEW y \in Scheduled', run'[y].pc = "agent", calls = 0
               PROVE  /\ row'[run'[y].task].next_run # Unset
                      /\ row'[run'[y].task].next_run \div Minute > lastPoint'[run'[y].task]
    BY <1>2 DEF PushedPastPoint
  <2>1. CASE y = x
    <3>1. run'[y].task = s.task
      BY <1>3, <1>4, <2>1
    <3>2. row'[s.task].next_run = n /\ n # Unset
      BY <1>1, <1>5, <1>18, Apart
    <3>3. n \div Minute > now \div Minute
      BY <1>1, PeriodType, LaterMinute
    <3>4. n \div Minute \in Int /\ now \div Minute \in Int
      BY <1>1, PeriodType, Quotient
    <3> QED  BY <1>15, <1>16, <1>18, <3>1, <3>2, <3>3, <3>4
  <2>2. CASE y # x
    <3>1. y \in Scheduled /\ run'[y] = run[y]
      BY <1>4, <1>9, <2>2
    <3>2. run[y].task # s.task /\ run[y].task \in Task
      BY <1>1, <1>9, <3>1 DEF SchedTypeOK
    <3>3. row'[run[y].task] = row[run[y].task] /\ lastPoint'[run[y].task] = lastPoint[run[y].task]
      BY <1>5, <1>16, <3>2
    <3> QED  BY <3>1, <3>3 DEF Inv, PushedPastPoint
  <2> QED  BY <2>1, <2>2
<1>20. PushIsSound'
  BY <1>6, <1>8 DEF PushIsSound
<1>21. RunsKnown'
  BY <1>1, <1>3, <1>4, ScheduledIsFinite DEF Inv, RunsKnown
<1>22. Calm'
  <2> SUFFICES ASSUME calls = 0 PROVE Calm'
    BY <1>2 DEF Calm
  <2>1. \A u \in Task : row'[u].next_run # Unset
    BY <1>1, <1>5, <1>18, Apart
  <2>2. \A y \in Executing' : /\ run'[y].cron # {} /\ ~run'[y].manual
                              /\ run'[y].pc = "write" => run'[y].next # Unset
    BY <1>3, <1>4, <1>18, ScheduledIsFinite
  <2>3. \A u \in Task : /\ row'[u].exists /\ ~row'[u].half
                        /\ row'[u].next_run # Unset /\ row'[u].cron # {}
    BY <1>5, <1>18, <2>1
  <2>4. \A l \in Ticker : /\ tick'[l].pc = "loop" /\ tick'[l].rows = tick[k].rows
    BY <1>6, <1>8
  <2>5. \A l \in Ticker :
          /\ tick'[l].pc = "fill" => tick'[l].rows = {}
          /\ \A z \in tick'[l].rows : z.cron # {}
          /\ tick'[l].pc = "push" => tick'[l].cur.cron # {}
    BY <1>18, <2>4
  <2> HIDE <1>2
  <2> QED  BY <2>2, <2>3, <2>5 DEF Calm
<1> QED  BY <1>12, <1>13, <1>14, <1>17, <1>19, <1>20, <1>21, <1>22 DEF Inv

-----------------------------------------------------------------------------
(* The steps of a run.                                                     *)

LEMMA RunGoesOn ==
  ASSUME Inv, NEW x \in Executing, NEW q \in RunRec, run' = [run EXCEPT ![x] = q],
         q.pc \in {"write", "exit"}, q.task = run[x].task, q.cron = run[x].cron,
         q.manual = run[x].manual,
         UNCHANGED <<tick, schedulerRunning, inFlight, now, lastPoint, calls>>, Faults',
         row' \in [Task -> Row],
         calls = 0 =>
           /\ \A t \in Task : /\ row'[t].exists /\ ~row'[t].half
                              /\ row'[t].next_run # Unset /\ row'[t].cron # {}
           /\ q.pc = "write" => q.next # Unset
           /\ \A y \in Scheduled \ {x} : row'[run[y].task] = row[run[y].task]
  PROVE  Inv'
<1>1. run \in [Slot -> RunRec] /\ x \in Slot /\ Executing \subseteq Slot /\ run[x].pc # "free"
  BY ScheduledIsFinite DEF Inv, SchedTypeOK, Executing
<1>2. /\ run' \in [Slot -> RunRec] /\ run'[x] = q
      /\ \A y \in Slot : y # x => run'[y] = run[y]
  BY <1>1
<1>3. Executing' = Executing
  BY <1>1, <1>2 DEF Executing
<1>4. /\ \A y \in Slot : run'[y].task = run[y].task
      /\ \A y \in Slot : run'[y].cron = run[y].cron
      /\ \A y \in Slot : run'[y].manual = run[y].manual
  BY <1>1, <1>2
<1>5. Scheduled' = Scheduled /\ Scheduled \subseteq Slot
  BY <1>1, <1>3, <1>4, ScheduledIsFinite DEF Scheduled
<1>6. SchedTypeOK'
  BY <1>2 DEF Inv, SchedTypeOK, Faults
<1>7. ConcurrencyLimit'
  BY <1>5 DEF Inv, ConcurrencyLimit
<1>8. CountersExact'
  <2>1. {run'[y].task : y \in Scheduled'} = {run[y].task : y \in Scheduled}
    BY <1>4, <1>5
  <2> QED  BY <1>5, <2>1 DEF Inv, CountersExact
<1>9. OneScheduledRun'
  BY <1>4, <1>5 DEF Inv, OneScheduledRun
<1>10. PushedPastPoint'
  <2> SUFFICES ASSUME NEW y \in Scheduled, run'[y].pc = "agent", calls = 0
               PROVE  /\ row'[run'[y].task].next_run # Unset
                      /\ row'[run'[y].task].next_run \div Minute > lastPoint[run'[y].task]
    BY <1>5 DEF PushedPastPoint
  <2>1. y # x /\ run'[y] = run[y]
    BY <1>2, <1>5
  <2>2. row'[run[y].task] = row[run[y].task]
    BY <2>1
  <2> QED  BY <2>1, <2>2 DEF Inv, PushedPastPoint
<1>11. PushIsSound'
  BY DEF Inv, PushIsSound
<1>12. RunsKnown'
  BY <1>1, <1>3, <1>4 DEF Inv, RunsKnown
<1>13. Calm'
  <2> SUFFICES ASSUME calls = 0 PROVE Calm'
    BY DEF Calm
  <2>1. \A y \in Executing' : /\ run'[y].cron # {} /\ ~run'[y].manual
                              /\ run'[y].pc = "write" => run'[y].next # Unset
    BY <1>1, <1>2, <1>3, <1>4 DEF Inv, Calm
  <2>2. \A k \in Ticker :
          /\ tick[k].pc = "fill" => tick[k].rows = {}
          /\ \A s \in tick[k].rows : s.cron # {}
          /\ tick[k].pc = "push" => tick[k].cur.cron # {}
    BY DEF Inv, Calm
  <2> QED  BY <2>1, <2>2 DEF Calm
<1> QED  BY <1>6, <1>7, <1>8, <1>9, <1>10, <1>11, <1>12, <1>13 DEF Inv

LEMMA RunKnown ==
  ASSUME Inv, NEW x \in Slot, run[x].pc # "free"
  PROVE  /\ x \in Executing /\ run[x].task \in Task /\ run[x].cron \in Cron
         /\ run[x] \in RunRec /\ run[x].next \in Nat \cup {Unset}
         /\ calls = 0 =>
              /\ run[x].cron # {} /\ ~run[x].manual
              /\ run[x].pc = "write" => run[x].next # Unset
              /\ \A t \in Task : /\ row[t].exists /\ ~row[t].half
                                 /\ row[t].next_run # Unset /\ row[t].cron # {}
<1>1. x \in Executing
  BY DEF Executing
<1>2. run[x].task \in Task /\ run[x].cron \in Cron
  BY <1>1 DEF Inv, RunsKnown
<1>3. run[x] \in RunRec /\ run[x].next \in Nat \cup {Unset}
  BY RunFields DEF Inv
<1> QED  BY <1>1, <1>2, <1>3 DEF Inv, Calm

LEMMA RunEndsStep == ASSUME Inv, NEW x \in Slot, RunEnds(x) PROVE Inv'
<1> DEFINE n == cronToNext(run[x].cron, now)
           q == [run[x] EXCEPT !.pc = "write", !.next = n]
<1>1. SchedTypeOK /\ now \in Nat /\ run[x].pc = "agent"
  BY SchedulerAssumption DEF Inv, SchedTypeOK, RunEnds
<1>2. /\ x \in Executing /\ run[x].cron \in Cron /\ run[x] \in RunRec
      /\ calls = 0 => /\ run[x].cron # {}
                      /\ \A t \in Task : /\ row[t].exists /\ ~row[t].half
                                         /\ row[t].next_run # Unset /\ row[t].cron # {}
  BY <1>1, RunKnown
<1>3. n \in Nat \cup {Unset} /\ (run[x].cron # {} => n # Unset)
  BY <1>1, <1>2, NextRun
<1>4. run' = [run EXCEPT ![x] = q]
  BY DEF RunEnds
<1> HIDE DEF n
<1>5. /\ q \in RunRec /\ q.pc = "write" /\ q.task = run[x].task /\ q.cron = run[x].cron
      /\ q.manual = run[x].manual /\ q.next = n
  BY <1>2, <1>3 DEF RunRec, Time
<1> HIDE DEF q
<1>6. UNCHANGED <<row, tick, schedulerRunning, inFlight, now, lastPoint, calls, faults>>
  BY DEF RunEnds
<1>7. row' \in [Task -> Row] /\ Faults'
  BY <1>1, <1>6 DEF SchedTypeOK, Faults
<1>8. calls = 0 =>
        /\ \A t \in Task : /\ row'[t].exists /\ ~row'[t].half
                           /\ row'[t].next_run # Unset /\ row'[t].cron # {}
        /\ q.pc = "write" => q.next # Unset
        /\ \A y \in Scheduled \ {x} : row'[run[y].task] = row[run[y].task]
  BY <1>2, <1>3, <1>5, <1>6
<1> QED  BY <1>2, <1>4, <1>5, <1>6, <1>7, <1>8, RunGoesOn

LEMMA RunWritesStep ==
  ASSUME Inv, NEW x \in Slot, RunWrites(x) \/ RunThrows(x)
  PROVE  Inv'
<1> DEFINE q == [run[x] EXCEPT !.pc = "exit"]
<1>1. SchedTypeOK /\ run[x].pc = "write"
  BY DEF Inv, RunWrites, RunThrows
<1>2. /\ x \in Executing /\ run[x].task \in Task /\ run[x] \in RunRec
      /\ run[x].next \in Nat \cup {Unset}
      /\ calls = 0 => /\ run[x].next # Unset
                      /\ \A t \in Task : /\ row[t].exists /\ ~row[t].half
                                         /\ row[t].next_run # Unset /\ row[t].cron # {}
  BY <1>1, RunKnown
<1>3. run' = [run EXCEPT ![x] = q]
  BY DEF RunWrites, RunThrows
<1>4. /\ q \in RunRec /\ q.pc = "exit" /\ q.task = run[x].task /\ q.cron = run[x].cron
      /\ q.manual = run[x].manual
  BY <1>2 DEF RunRec, Time
<1> HIDE DEF q
<1>5. UNCHANGED <<tick, schedulerRunning, inFlight, now, lastPoint, calls>> /\ Faults'
  BY <1>1, SchedulerAssumption DEF RunWrites, RunThrows, Fault, Faults, SchedTypeOK
<1>6. \/ UNCHANGED row
      \/ ~run[x].manual /\ SetNext(run[x].task, run[x].next)
  <2>1. CASE run[x].manual
    BY <2>1 DEF RunWrites, RunThrows
  <2>2. CASE ~run[x].manual
    BY <2>2 DEF RunWrites, RunThrows
  <2> QED  BY <2>1, <2>2
<1>7. CASE UNCHANGED row
  <2>1. row' \in [Task -> Row]
    BY <1>1, <1>7 DEF SchedTypeOK
  <2>2. calls = 0 =>
          /\ \A t \in Task : /\ row'[t].exists /\ ~row'[t].half
                             /\ row'[t].next_run # Unset /\ row'[t].cron # {}
          /\ q.pc = "write" => q.next # Unset
          /\ \A y \in Scheduled \ {x} : row'[run[y].task] = row[run[y].task]
    BY <1>2, <1>4, <1>7
  <2> QED  BY <1>2, <1>3, <1>4, <1>5, <2>1, <2>2, RunGoesOn
<1>8. CASE ~run[x].manual /\ SetNext(run[x].task, run[x].next)
  <2>1. /\ row' \in [Task -> Row]
        /\ \A u \in Task : /\ row'[u].exists = row[u].exists /\ row'[u].half = row[u].half
                           /\ row'[u].cron = row[u].cron
                           /\ u # run[x].task => row'[u] = row[u]
        /\ row[run[x].task].exists => row'[run[x].task].next_run = run[x].next
    BY <1>1, <1>2, <1>8, NextWritten
  <2>2. x \in Scheduled
    BY <1>2, <1>8 DEF Scheduled
  <2>3. \A y \in Scheduled \ {x} : run[y].task # run[x].task /\ run[y].task \in Task
    <3>1. \A y \in Scheduled : run[y].task \in Task
      BY DEF Inv, RunsKnown, Scheduled
    <3> QED  BY <2>2, <3>1 DEF Inv, OneScheduledRun
  <2>4. calls = 0 =>
          /\ \A t \in Task : /\ row'[t].exists /\ ~row'[t].half
                             /\ row'[t].next_run # Unset /\ row'[t].cron # {}
          /\ q.pc = "write" => q.next # Unset
          /\ \A y \in Scheduled \ {x} : row'[run[y].task] = row[run[y].task]
    BY <1>2, <1>4, <2>1, <2>3
  <2> QED  BY <1>2, <1>3, <1>4, <1>5, <2>1, <2>4, RunGoesOn
<1> QED  BY <1>6, <1>7, <1>8

\* A run that ends is counted out, with its task.
LEMMA RunExitsStep == ASSUME Inv, NEW x \in Slot, RunExits(x) PROVE Inv'
<1>1. SchedTypeOK /\ run[x].pc = "exit" /\ run \in [Slot -> RunRec]
  BY DEF Inv, SchedTypeOK, RunExits
<1>2. Free \in RunRec /\ Free.pc = "free"
  BY DEF Free, RunRec, Time
<1> HIDE DEF Free
<1>3. /\ run' \in [Slot -> RunRec] /\ run'[x] = Free
      /\ \A y \in Slot : y # x => run'[y] = run[y]
  BY <1>1, <1>2 DEF RunExits
<1>4. x \in Executing /\ Executing' = Executing \ {x}
  BY <1>1, <1>2, <1>3 DEF Executing
<1>5. Scheduled' = Scheduled \ {x} /\ (x \in Scheduled <=> ~run[x].manual)
  BY <1>3, <1>4, ScheduledIsFinite DEF Scheduled
<1>6. UNCHANGED <<row, tick, now, lastPoint, calls, faults>>
  BY DEF RunExits
<1>7. /\ schedulerRunning = Cardinality(Scheduled)
      /\ inFlight = {run[y].task : y \in Scheduled}
      /\ IsFiniteSet(Scheduled) /\ Cardinality(Scheduled) \in Nat /\ Scheduled \subseteq Slot
      /\ Cardinality(Scheduled) <= Cardinality(Slot) /\ Cardinality(Slot) \in Nat
  BY ScheduledIsFinite DEF Inv, CountersExact
<1>8. {run'[y].task : y \in Scheduled'} = {run[y].task : y \in Scheduled \ {x}}
  BY <1>3, <1>5, <1>7
<1>9. /\ schedulerRunning' = Cardinality(Scheduled') /\ schedulerRunning' \in Nat
      /\ schedulerRunning' <= schedulerRunning
      /\ inFlight' = {run'[y].task : y \in Scheduled'} /\ inFlight' \subseteq inFlight
  <2>1. CASE run[x].manual
    <3>1. UNCHANGED <<schedulerRunning, inFlight>> /\ Scheduled' = Scheduled
      BY <1>5, <2>1 DEF RunExits
    <3>2. Scheduled \ {x} = Scheduled
      BY <1>5, <2>1
    <3>3. inFlight = {run'[y].task : y \in Scheduled'}
      BY <1>7, <1>8, <3>2
    <3>4. /\ schedulerRunning' = Cardinality(Scheduled') /\ schedulerRunning' \in Nat
          /\ schedulerRunning' <= schedulerRunning
      BY <1>7, <3>1
    <3>5. inFlight' = {run'[y].task : y \in Scheduled'} /\ inFlight' \subseteq inFlight
      BY <3>1, <3>3
    <3> QED  BY <3>4, <3>5
  <2>2. CASE ~run[x].manual
    <3>1. Cardinality(Scheduled') = Cardinality(Scheduled) - 1
      BY <1>5, <1>7, <2>2, FS_RemoveElement
    <3>2. Cardinality(Scheduled) > 0
      BY <1>5, <1>7, <2>2, FS_EmptySet
    <3>3. schedulerRunning' = schedulerRunning - 1 /\ inFlight' = inFlight \ {run[x].task}
      BY <1>7, <2>2, <3>2 DEF RunExits
    <3>4. \A y \in Scheduled \ {x} : run[y].task # run[x].task
      BY <1>5, <2>2 DEF Inv, OneScheduledRun
    <3>5. inFlight \ {run[x].task} = {run[y].task : y \in Scheduled \ {x}}
      BY <1>7, <3>4
    <3>6. inFlight' = {run'[y].task : y \in Scheduled'}
      BY <1>7, <1>8, <3>3, <3>5
    <3>7. inFlight' \subseteq inFlight
      BY <3>3
    <3>8. schedulerRunning \in Nat /\ schedulerRunning > 0
      BY <1>7, <3>2
    <3>9. schedulerRunning' \in Nat /\ schedulerRunning' <= schedulerRunning
      BY <3>3, <3>8
    <3>10. schedulerRunning' = Cardinality(Scheduled')
      BY <1>7, <3>1, <3>3
    <3> QED  BY <3>6, <3>7, <3>9, <3>10
  <2> QED  BY <2>1, <2>2
<1>10. SchedTypeOK'
  <2>1. schedulerRunning' \in 0..Cardinality(Slot)
    BY <1>7, <1>9
  <2> QED  BY <1>1, <1>3, <1>6, <1>9, <2>1 DEF SchedTypeOK
<1>11. ConcurrencyLimit' /\ CountersExact'
  BY <1>7, <1>9, SchedulerAssumption DEF Inv, ConcurrencyLimit, CountersExact
<1>12. OneScheduledRun' /\ PushedPastPoint'
  BY <1>3, <1>5, <1>6, <1>7 DEF Inv, OneScheduledRun, PushedPastPoint
<1>13. PushIsSound'
  <2> SUFFICES ASSUME NEW k \in Ticker, tick[k].pc = "push"
               PROVE  /\ tick[k].cur \in Seen /\ tick[k].cur.task \notin inFlight'
                      /\ schedulerRunning' < MaxRunning
                      /\ tick[k].next >= now + Minute
    BY <1>6 DEF PushIsSound
  <2>1. /\ tick[k].cur \in Seen /\ tick[k].cur.task \notin inFlight
        /\ schedulerRunning < MaxRunning
        /\ tick[k].next >= now + Minute
    BY DEF Inv, PushIsSound
  <2>2. schedulerRunning' < MaxRunning
    BY <1>7, <1>9, <2>1, SchedulerAssumption
  <2> QED  BY <1>9, <2>1, <2>2
<1>14. RunsKnown'
  BY <1>3, <1>4, ScheduledIsFinite DEF Inv, RunsKnown
<1>15. Calm'
  <2>1. calls = 0 => \A y \in Executing' : /\ run'[y].cron # {} /\ ~run'[y].manual
                                           /\ run'[y].pc = "write" => run'[y].next # Unset
    BY <1>3, <1>4, ScheduledIsFinite DEF Inv, Calm
  <2> QED  BY <1>6, <2>1 DEF Inv, Calm
<1> QED  BY <1>10, <1>11, <1>12, <1>13, <1>14, <1>15 DEF Inv

-----------------------------------------------------------------------------
(* The routes, the clock and the process.                                  *)

\* A call of a route that leaves the runs alone.
LEMMA RouteStep ==
  ASSUME Inv, NEW t \in Task,
         \/ DeleteTask(t)
         \/ \E on \in BOOLEAN : PatchEnabled(t, on)
         \/ \E c \in Cron : PatchCron(t, c)
         \/ PatchCronNext(t)
  PROVE  Inv'
<1>1. /\ SchedTypeOK /\ row \in [Task -> Row] /\ row[t] \in Row /\ now \in Nat
      /\ calls \in 0..MaxCalls /\ MaxCalls \in Nat
  BY SchedulerAssumption, RowFields DEF Inv, SchedTypeOK
<1>2. UNCHANGED <<tick, run, schedulerRunning, inFlight, now, lastPoint, faults>>
  BY DEF DeleteTask, PatchEnabled, PatchCron, PatchCronNext
<1>3. row' \in [Task -> Row]
  <2>1. CASE DeleteTask(t)
    <3> DEFINE q == [row[t] EXCEPT !.exists = FALSE]
    <3>1. q \in Row
      BY <1>1 DEF Row
    <3>2. row' = [row EXCEPT ![t] = q]
      BY <2>1 DEF DeleteTask
    <3> HIDE DEF q
    <3> QED  BY <1>1, <3>1, <3>2
  <2>2. ASSUME NEW on \in BOOLEAN, PatchEnabled(t, on) PROVE row' \in [Task -> Row]
    <3> DEFINE n == IF on THEN Unset ELSE row[t].next_run
               q == [row[t] EXCEPT !.enabled = on, !.next_run = n]
    <3>1. n \in Nat \cup {Unset}
      BY <1>1, RowFields
    <3>2. row' = [row EXCEPT ![t] = q]
      BY <2>2 DEF PatchEnabled
    <3> HIDE DEF n
    <3>3. q \in Row
      BY <1>1, <3>1 DEF Row, Time
    <3> HIDE DEF q
    <3> QED  BY <1>1, <3>2, <3>3
  <2>3. ASSUME NEW c \in Cron, PatchCron(t, c) PROVE row' \in [Task -> Row]
    <3> DEFINE q == [row[t] EXCEPT !.cron = c, !.half = TRUE]
    <3>1. q \in Row
      BY <1>1 DEF Row
    <3>2. row' = [row EXCEPT ![t] = q]
      BY <2>3 DEF PatchCron
    <3> HIDE DEF q
    <3> QED  BY <1>1, <3>1, <3>2
  <2>4. CASE PatchCronNext(t)
    <3> DEFINE n == IF row[t].exists THEN cronToNext(row[t].cron, now) ELSE row[t].next_run
               q == [row[t] EXCEPT !.half = FALSE, !.next_run = n]
    <3>1. n \in Nat \cup {Unset}
      BY <1>1, RowFields, NextRun
    <3>2. row' = [row EXCEPT ![t] = q]
      BY <2>4 DEF PatchCronNext
    <3> HIDE DEF n
    <3>3. q \in Row
      BY <1>1, <3>1 DEF Row, Time
    <3> HIDE DEF q
    <3> QED  BY <1>1, <3>2, <3>3
  <2> QED  BY <2>1, <2>2, <2>3, <2>4
<1>4. calls' # 0 /\ calls' \in 0..MaxCalls
  <2>1. CASE PatchCronNext(t)
    <3>1. calls' = calls /\ row[t].half
      BY <2>1 DEF PatchCronNext
    <3> QED  BY <1>1, <3>1 DEF Inv, Calm
  <2>2. CASE ApiCall(t)
    BY <1>1, <2>2 DEF ApiCall
  <2> QED  BY <2>1, <2>2 DEF DeleteTask, PatchEnabled, PatchCron
<1>5. SchedTypeOK'
  BY <1>1, <1>2, <1>3, <1>4 DEF SchedTypeOK
<1>6. ConcurrencyLimit' /\ OneScheduledRun' /\ CountersExact' /\ RunsKnown'
  BY <1>2 DEF Inv, ConcurrencyLimit, OneScheduledRun, CountersExact, RunsKnown, Scheduled, Executing
<1>7. PushedPastPoint' /\ Calm'
  BY <1>4 DEF PushedPastPoint, Calm
<1>8. PushIsSound'
  BY <1>2 DEF Inv, PushIsSound
<1> QED  BY <1>5, <1>6, <1>7, <1>8 DEF Inv

\* A manual run takes a place, and neither the count nor the in-flight set.
LEMMA RunOnceStep == ASSUME Inv, NEW t \in Task, RunOnce(t) PROVE Inv'
<1>1. /\ SchedTypeOK /\ row[t].cron \in Cron /\ calls \in 0..MaxCalls /\ MaxCalls \in Nat
  BY SchedulerAssumption, RowFields DEF Inv, SchedTypeOK
<1>2. /\ UNCHANGED <<row, tick, schedulerRunning, inFlight, now, lastPoint, faults>>
      /\ calls' # 0 /\ calls' \in 0..MaxCalls
  BY <1>1 DEF RunOnce, ApiCall
<1>3. PICK x \in Slot \ Executing, r \in RunRec :
         /\ run' = [run EXCEPT ![x] = r]
         /\ r.pc = "agent" /\ r.task = t /\ r.cron = row[t].cron /\ r.manual = TRUE
  <2> DEFINE y == Min(Slot \ Executing)
             e == [pc |-> "agent", task |-> t, cron |-> row[t].cron,
                   manual |-> TRUE, next |-> Unset]
  <2>1. y \in Slot \ Executing /\ run' = [run EXCEPT ![y] = e]
    BY FreePlace DEF RunOnce, Starts
  <2>2. e \in RunRec /\ e.pc = "agent" /\ e.task = t /\ e.cron = row[t].cron
        /\ e.manual = TRUE
    BY <1>1 DEF RunRec, Time
  <2> HIDE DEF y, e
  <2> QED  BY <2>1, <2>2
<1>4. /\ run' \in [Slot -> RunRec] /\ run'[x] = r
      /\ \A y \in Slot : y # x => run'[y] = run[y]
      /\ Executing' = Executing \cup {x} /\ Scheduled' = Scheduled
      /\ x \notin Scheduled
  BY <1>1, <1>3, PlaceTaken
<1>5. \A y \in Scheduled : run'[y] = run[y]
  BY <1>4, ScheduledIsFinite
<1>6. SchedTypeOK'
  BY <1>1, <1>2, <1>4 DEF SchedTypeOK
<1>7. {run'[y].task : y \in Scheduled'} = {run[y].task : y \in Scheduled}
  BY <1>4, <1>5
<1>8. ConcurrencyLimit' /\ OneScheduledRun' /\ CountersExact'
  BY <1>2, <1>4, <1>5, <1>7 DEF Inv, ConcurrencyLimit, OneScheduledRun, CountersExact
<1>9. RunsKnown'
  BY <1>1, <1>3, <1>4, ScheduledIsFinite DEF Inv, RunsKnown
<1>10. PushedPastPoint' /\ Calm'
  BY <1>2 DEF PushedPastPoint, Calm
<1>11. PushIsSound'
  BY <1>2 DEF Inv, PushIsSound
<1> QED  BY <1>6, <1>8, <1>9, <1>10, <1>11 DEF Inv

LEMMA TockStep == ASSUME Inv, Tock PROVE Inv'
<1>1. SchedTypeOK'
  BY SchedulerAssumption DEF Inv, SchedTypeOK, Tock
<1>2. ConcurrencyLimit' /\ OneScheduledRun' /\ CountersExact' /\ RunsKnown'
  BY DEF Inv, ConcurrencyLimit, OneScheduledRun, CountersExact, RunsKnown, Scheduled,
         Executing, Tock
<1>3. PushedPastPoint' /\ Calm'
  BY DEF Inv, PushedPastPoint, Calm, Scheduled, Executing, Tock
<1>4. PushIsSound'
  BY DEF PushIsSound, Tock
<1> QED  BY <1>1, <1>2, <1>3, <1>4 DEF Inv

LEMMA CrashStep == ASSUME Inv, SchedCrash PROVE Inv'
<1>1. SchedTypeOK /\ now \in Nat /\ row \in [Task -> Row]
  BY SchedulerAssumption DEF Inv, SchedTypeOK
<1> DEFINE q == [pc |-> "idle", rows |-> {}, cur |-> Unset, last |-> now, next |-> 0]
<1>2. q \in TickRec /\ q.pc = "idle" /\ q.rows = {}
  BY <1>1 DEF TickRec, Time
<1>3. tick' = [k \in Ticker |-> q]
  BY DEF SchedCrash
<1> HIDE DEF q
<1>4. tick' \in [Ticker -> TickRec] /\ \A k \in Ticker : tick'[k] = q
  BY <1>2, <1>3
<1>5. Free \in RunRec /\ Free.pc = "free"
  BY DEF Free, RunRec, Time
<1> HIDE DEF Free
<1>6. run' \in [Slot -> RunRec] /\ \A x \in Slot : run'[x] = Free
  BY <1>5 DEF SchedCrash
<1>7. Executing' = {} /\ Scheduled' = {}
  BY <1>5, <1>6 DEF Scheduled, Executing
<1> DEFINE over(t) == [row[t] EXCEPT !.half = FALSE]
<1>8. \A t \in Task : /\ over(t) \in Row /\ over(t).exists = row[t].exists
                      /\ over(t).next_run = row[t].next_run /\ over(t).cron = row[t].cron
                      /\ ~over(t).half
  <2>1. \A t \in Task : row[t] \in Row
    BY <1>1
  <2> QED  BY <2>1 DEF Row
<1>9. row' = [t \in Task |-> over(t)]
  BY DEF SchedCrash
<1> HIDE DEF over
<1>10. row' \in [Task -> Row] /\ \A t \in Task : row'[t] = over(t)
  BY <1>8, <1>9
<1>11. schedulerRunning' = 0 /\ inFlight' = {} /\ UNCHANGED <<now, lastPoint, calls>>
  BY DEF SchedCrash
<1>12. Faults'
  BY <1>1, SchedulerAssumption DEF SchedCrash, Fault, Faults, SchedTypeOK
<1>13. SchedTypeOK'
  BY <1>1, <1>4, <1>6, <1>10, <1>11, <1>12, ScheduledIsFinite DEF SchedTypeOK, Faults
<1>14. ConcurrencyLimit' /\ OneScheduledRun' /\ CountersExact' /\ RunsKnown' /\ PushedPastPoint'
  <2>1. Cardinality({}) = 0
    BY FS_EmptySet
  <2> QED  BY <1>7, <1>11, <2>1, SchedulerAssumption
        DEF ConcurrencyLimit, OneScheduledRun, CountersExact, RunsKnown, PushedPastPoint
<1>15. PushIsSound'
  BY <1>2, <1>4 DEF PushIsSound
<1>16. Calm'
  <2> SUFFICES ASSUME calls = 0 PROVE Calm'
    BY <1>11 DEF Calm
  <2>1. \A t \in Task : /\ row'[t].exists /\ ~row'[t].half
                        /\ row'[t].next_run # Unset /\ row'[t].cron # {}
    BY <1>8, <1>10 DEF Inv, Calm
  <2> QED  BY <1>2, <1>4, <1>7, <2>1 DEF Calm
<1> QED  BY <1>13, <1>14, <1>15, <1>16 DEF Inv

LEMMA StartHolds == SchedInit => Inv
<1> SUFFICES ASSUME SchedInit PROVE Inv
  OBVIOUS
<1>1. PICK cron \in [Task -> Cron \ {{}}] :
        row = [t \in Task |-> [exists |-> TRUE, enabled |-> TRUE, cron |-> cron[t],
                               next_run |-> cronToNext(cron[t], 0), half |-> FALSE]]
  BY DEF SchedInit
<1> DEFINE first(t) == [exists |-> TRUE, enabled |-> TRUE, cron |-> cron[t],
                        next_run |-> cronToNext(cron[t], 0), half |-> FALSE]
<1>2. \A t \in Task : /\ first(t) \in Row /\ first(t).exists /\ ~first(t).half
                      /\ first(t).next_run # Unset /\ first(t).cron # {}
  <2> SUFFICES ASSUME NEW t \in Task
               PROVE  /\ first(t) \in Row /\ first(t).exists /\ ~first(t).half
                      /\ first(t).next_run # Unset /\ first(t).cron # {}
    OBVIOUS
  <2>1. cron[t] \in Cron /\ cron[t] # {}
    BY <1>1
  <2>2. cronToNext(cron[t], 0) \in Nat \cup {Unset} /\ cronToNext(cron[t], 0) # Unset
    BY <2>1, NextRun
  <2> QED  BY <2>1, <2>2 DEF Row, Time
<1>3. row = [t \in Task |-> first(t)]
  BY <1>1
<1> HIDE DEF first
<1>4. row \in [Task -> Row] /\ \A t \in Task : row[t] = first(t)
  BY <1>2, <1>3
<1> DEFINE q == [pc |-> "idle", rows |-> {}, cur |-> Unset, last |-> Birth, next |-> 0]
<1>5. q \in TickRec /\ q.pc = "idle" /\ q.rows = {}
  BY SchedulerAssumption DEF TickRec, Time
<1>6. tick = [k \in Ticker |-> q]
  BY DEF SchedInit
<1> HIDE DEF q
<1>7. tick \in [Ticker -> TickRec] /\ \A k \in Ticker : tick[k] = q
  BY <1>5, <1>6
<1>8. Free \in RunRec /\ Free.pc = "free"
  BY DEF Free, RunRec, Time
<1> HIDE DEF Free
<1>9. run \in [Slot -> RunRec] /\ \A x \in Slot : run[x] = Free
  BY <1>8 DEF SchedInit
<1>10. Executing = {} /\ Scheduled = {}
  BY <1>8, <1>9 DEF Scheduled, Executing
<1>11. schedulerRunning = 0 /\ inFlight = {} /\ calls = 0 /\ faults = 0
  BY DEF SchedInit
<1>12. now \in 0..MaxTime /\ lastPoint \in [Task -> Int \cup {Unset}]
  BY SchedulerAssumption DEF SchedInit
<1>13. SchedTypeOK
  BY <1>4, <1>7, <1>9, <1>11, <1>12, ScheduledIsFinite, SchedulerAssumption DEF SchedTypeOK
<1>14. ConcurrencyLimit /\ OneScheduledRun /\ CountersExact /\ RunsKnown /\ PushedPastPoint
  <2>1. Cardinality({}) = 0
    BY FS_EmptySet
  <2> QED  BY <1>10, <1>11, <2>1, SchedulerAssumption
        DEF ConcurrencyLimit, OneScheduledRun, CountersExact, RunsKnown, PushedPastPoint
<1>15. PushIsSound
  BY <1>5, <1>7 DEF PushIsSound
<1>16. Calm
  BY <1>2, <1>4, <1>5, <1>7, <1>10 DEF Calm
<1> QED  BY <1>13, <1>14, <1>15, <1>16 DEF Inv

LEMMA StepHolds == Inv /\ [SchedNext]_schedVars => Inv'
<1> SUFFICES ASSUME Inv, [SchedNext]_schedVars PROVE Inv'
  OBVIOUS
<1>1. ASSUME NEW k \in Ticker, TickNext(k) \/ TickThrows(k) PROVE Inv'
  BY <1>1, TickStartStep, TickFillStep, TickSelectStep, TickTakeStep, TickPushStep, TickOverStep
    DEF TickNext
<1>2. ASSUME NEW x \in Slot, RunNext(x) \/ RunThrows(x) PROVE Inv'
  BY <1>2, RunEndsStep, RunWritesStep, RunExitsStep DEF RunNext
<1>3. ASSUME NEW t \in Task, UserNext(t) PROVE Inv'
  BY <1>3, RunOnceStep, RouteStep DEF UserNext
<1>4. CASE UNCHANGED schedVars
  <2>1. SchedTypeOK' /\ PushIsSound'
    BY <1>4 DEF schedVars, Inv, SchedTypeOK, PushIsSound
  <2>2. ConcurrencyLimit' /\ OneScheduledRun' /\ CountersExact' /\ RunsKnown'
    BY <1>4 DEF schedVars, Inv, ConcurrencyLimit, OneScheduledRun, CountersExact, RunsKnown,
                Scheduled, Executing
  <2>3. PushedPastPoint' /\ Calm'
    BY <1>4 DEF schedVars, Inv, PushedPastPoint, Calm, Scheduled, Executing
  <2> QED  BY <2>1, <2>2, <2>3 DEF Inv
<1> QED  BY <1>1, <1>2, <1>3, <1>4, TockStep, CrashStep DEF SchedNext

\* In every state of the schedule no task has two scheduled runs, the count and
\* the in-flight set are those of the runs in progress, and the next run of a
\* task that runs is past the point it runs for (scheduler.js:182-224).
THEOREM ScheduleIsSafe == SchedSpec => []SchedulerSafe
<1>1. Inv => SchedulerSafe
  BY DEF Inv, SchedulerSafe
<1> QED  BY <1>1, StartHolds, StepHolds, PTL DEF SchedSpec

\* The schedule never has more runs in progress than it may (scheduler.js:192).
THEOREM LimitIsKept == SchedSpec => []ConcurrencyLimit
<1>1. Inv => ConcurrencyLimit
  BY DEF Inv
<1> QED  BY <1>1, StartHolds, StepHolds, PTL DEF SchedSpec
=============================================================================
