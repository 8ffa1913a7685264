------------------------------- MODULE Media --------------------------------
(***************************************************************************)
(* What the two media of the storage interface (server/storage/index.js)   *)
(* share: jsonfile.js keeps the rows of a table in an object of the file,  *)
(* mysql.js in a table of the database.  MediaRows and MediaRecords give   *)
(* every write to both and compare what both answer.                       *)
(* A row is numbered by the write that made it: the database also spends a *)
(* number on an insert that fails, the file does not, and no caller        *)
(* compares the numbers of the two.                                        *)
(***************************************************************************)
EXTENDS Integers, FiniteSets, SequencesExt

CONSTANTS
  Null,          \* NULL of the database, null of JavaScript
  Missing,       \* a field the row in the file does not have
  MaxOps,     \* bound on the writes of a behaviour
  MaxDays,       \* bound on the days it lasts
  Week           \* the days of a window when the caller names none

VARIABLES
  file,          \* the rows of each table in the file
  base,          \* the rows of each table in the database
  today, writes,
  told           \* what the two answered to the last write

mediaVars == <<file, base, today, writes, told>>

Table == {"conv", "msg", "call", "account", "session", "setting", "delivery",
          "knowledge", "usage", "audit", "event", "run"}
MediaInit ==
  /\ file = [t \in Table |-> {}] /\ base = [t \in Table |-> {}]
  /\ today = 1 /\ writes = 0 /\ told = <<0, 0>>

NewId == writes + 1

\* A write is given to both media.
Write(f, s) ==
  /\ writes < MaxOps /\ writes' = writes + 1
  /\ file' = f.rows /\ base' = s.rows /\ told' = <<f.ans, s.ans>>
  /\ UNCHANGED today
Midnight == today < MaxDays /\ today' = today + 1
            /\ UNCHANGED <<file, base, writes, told>>

\* A window of d days, cut between two days.
Recent(r, d) == today - r.day < d
DaysOf(d) == IF d > 0 THEN d ELSE Week

\* rowsOf: the rows of a table of the file, by ascending id.
RowsOf(rows) == SetToSortSeq(rows, LAMBDA a, b : a.id < b.id)
\* ORDER BY id and ORDER BY id DESC.
Ascending(rows)  == SetToSortSeq(rows, LAMBDA a, b : a.id < b.id)
Descending(rows) == SetToSortSeq(rows, LAMBDA a, b : a.id > b.id)

\* slice(0, n) and LIMIT n: only a positive limit cuts.
Slice(s, n) == IF n \in 1..Len(s) THEN SubSeq(s, 1, n) ELSE s
Limit(s, n) == IF n \in 1..Len(s) THEN SubSeq(s, 1, n) ELSE s

Ids(s) == [i \in DOMAIN s |-> s[i].id]

\* Number(v): what the file's comparisons make of a field.
NumberOf(v) == IF v = Null THEN 0 ELSE v
\* v ?? null
OrNull(v) == IF v = Missing THEN Null ELSE v
\* =  of the database, which is not true of a NULL.
SqlEq(a, b) == a # Null /\ b # Null /\ a = b

\* A write: the rows it leaves and what it answers.
Answer(rows, a) == [rows |-> rows, ans |-> a]
\* The rows that fit, changed by the patch.
Patched(rows, Fits(_), Patch(_)) == {IF Fits(r) THEN Patch(r) ELSE r : r \in rows}
CountOf(rows, Fits(_)) == Cardinality({r \in rows : Fits(r)})

\* Both media give the same answer to every write.
SameAnswer == told[1] = told[2]
=============================================================================
