------------------------------ MODULE JsonStore ------------------------------
(***************************************************************************)
(* The storage that needs no database (server/storage/jsonfile.js): all    *)
(* rows in memory, every write saving the whole document to one file, by a *)
(* temporary file and a rename, one save after the other.  Rows are        *)
(* abstract: each writer inserts its own, a transaction two.               *)
(***************************************************************************)
EXTENDS Integers, Sequences, FiniteSets

CONSTANTS
  Writer,        \* calls of a method that writes
  Batch,         \* calls of tx
  MaxKilled      \* bound on crashes of the process

VARIABLES
  memory,    \* the rows of holder.doc
  file,      \* what the file holds, Torn when half written
  waiting,   \* the saves of the chain not yet begun, by their callers
  saves,     \* the saves in flight: the document each will write
  caller,    \* where each call is
  draft,     \* the rows of the copy a transaction works on
  overlaid,  \* history: rows a transaction put its copy in the place of
  killed

storeVars == <<memory, file, waiting, saves, caller, draft, overlaid, killed>>

Caller == Writer \union Batch
CallRows(c) == IF c \in Writer THEN {<<c, 1>>} ELSE {<<c, 1>>, <<c, 2>>}
Torn == {<<"torn", 0>>}
DocRow == UNION {CallRows(c) : c \in Caller}
Live == [kind |-> "live", rows |-> {}]
Frozen(rows) == [kind |-> "frozen", rows |-> rows]
At_(c, pcs) == caller[c] \in pcs

StoreInit ==
  /\ memory = {} /\ file = {} /\ waiting = <<>> /\ overlaid = {} /\ killed = 0
  /\ saves = [c \in {} |-> Live]
  /\ caller = [c \in Caller |-> "new"] /\ draft = [b \in Batch |-> {}]

\* The rows of a document on its way to the file.
Holds(s) == IF s.kind = "live" THEN memory ELSE s.rows
Put(f, c, x) == [d \in DOMAIN f \union {c} |-> IF d = c THEN x ELSE f[d]]
Without(f, c) == [d \in DOMAIN f \ {c} |-> f[d]]

\* A method puts its row in memory and its save in the chain, in one step.
Write(w) ==
  /\ At_(w, {"new"})
  /\ memory' = memory \union CallRows(w)
  /\ waiting' = Append(waiting, w) /\ caller' = [caller EXCEPT ![w] = "saving"]
  /\ UNCHANGED <<file, saves, draft, overlaid, killed>>

\* tx: a copy of the document, writes to it with awaits between, and the copy
\* put in the place of the document, or thrown away.
Open(b) ==
  /\ At_(b, {"new"})
  /\ draft' = [draft EXCEPT ![b] = memory]
  /\ caller' = [caller EXCEPT ![b] = "open"]
  /\ UNCHANGED <<memory, file, waiting, saves, overlaid, killed>>
Target_Memory(b, k) == memory' = memory \union {<<b, k>>} /\ draft' = [draft EXCEPT ![b] = @ \union {<<b, k>>}]
Target(b, k) == draft' = [draft EXCEPT ![b] = @ \union {<<b, k>>}] /\ UNCHANGED memory
Inner(b) ==
  /\ At_(b, {"open"}) /\ Target(b, 1)
  /\ caller' = [caller EXCEPT ![b] = "half"]
  /\ UNCHANGED <<file, waiting, saves, overlaid, killed>>
Commit(b) ==
  /\ At_(b, {"half"}) /\ memory' = draft[b] \union {<<b, 2>>}
  /\ saves' = [c \in DOMAIN saves |->
                 IF saves[c].kind = "live" THEN Frozen(memory) ELSE saves[c]]
  /\ overlaid' = overlaid \union (memory \ draft[b])
  /\ waiting' = Append(waiting, b) /\ caller' = [caller EXCEPT ![b] = "saving"]
  /\ UNCHANGED <<file, draft, killed>>
Rollback(b) ==
  /\ At_(b, {"open", "half"}) /\ caller' = [caller EXCEPT ![b] = "failed"]
  /\ UNCHANGED <<memory, file, waiting, saves, draft, overlaid, killed>>

\* The chain: the next save begins when the one before it has ended.
NoSave_Always == TRUE
NoSave == DOMAIN saves = {}
Begin ==
  /\ waiting # <<>> /\ NoSave
  /\ saves' = Put(saves, Head(waiting), Live) /\ waiting' = Tail(waiting)
  /\ UNCHANGED <<memory, file, caller, draft, overlaid, killed>>
\* saveDoc, after the directory is made: the document is put in words, and
\* written to a temporary file; the file itself is touched by the rename.
Scratch_InPlace == Torn
Scratch == file
Serialize(c) ==
  /\ saves[c].kind \in {"live", "frozen"}
  /\ saves' = [saves EXCEPT ![c] = [kind |-> "words", rows |-> Holds(saves[c])]]
  /\ file' = Scratch
  /\ UNCHANGED <<memory, waiting, caller, draft, overlaid, killed>>
Rename(c) ==
  /\ saves[c].kind = "words"
  /\ file' = saves[c].rows /\ saves' = Without(saves, c)
  /\ caller' = [caller EXCEPT ![c] = "done"]
  /\ UNCHANGED <<memory, waiting, draft, overlaid, killed>>
\* The save fails: its caller is told so, the chain and the memory go on.
FailSave(c) ==
  /\ saves' = Without(saves, c) /\ caller' = [caller EXCEPT ![c] = "failed"]
  /\ UNCHANGED <<memory, file, waiting, draft, overlaid, killed>>
Die ==
  /\ killed < MaxKilled /\ killed' = killed + 1
  /\ memory' = (IF file = Torn THEN {} ELSE file)
  /\ waiting' = <<>> /\ saves' = [c \in {} |-> Live]
  /\ caller' = [c \in Caller |-> IF caller[c] \in {"done", "failed", "new"}
                                 THEN caller[c] ELSE "failed"]
  /\ UNCHANGED <<file, draft, overlaid>>

StoreNext ==
  \/ \E w \in Writer : Write(w)
  \/ \E b \in Batch : Open(b) \/ Inner(b) \/ Commit(b) \/ Rollback(b)
  \/ Begin \/ \E c \in DOMAIN saves : Serialize(c) \/ Rename(c) \/ FailSave(c)
  \/ Die
StoreSpec == StoreInit /\ [][StoreNext]_storeVars
-----------------------------------------------------------------------------
\* The state has its type; at most one save is in flight.
StoreTypeOK ==
  /\ memory \subseteq DocRow /\ file \subseteq DocRow \union Torn
  /\ \A c \in Caller : caller[c] \in {"new", "open", "half", "saving", "done", "failed"}
  /\ DOMAIN saves \subseteq Caller /\ Cardinality(DOMAIN saves) <= 1

\* Whenever the process dies, the file is a whole document (jsonfile.js:277).
FileIsWhole == file # Torn

\* A call that returned has its rows in the file.  Only a transaction begun
\* before can take them away: it puts its copy in the place of the document
\* (jsonfile.js:1259).
AckedIsDurable ==
  \A c \in Caller : At_(c, {"done"}) => CallRows(c) \ overlaid \subseteq file

\* The file never goes back to an older document: a row once in it stays
\* there (jsonfile.js:311).
FileGoesForward == file \ overlaid' \subseteq file'

\* Of a transaction the file holds all or nothing, before and after a crash
\* (storage/index.js:23).
AllOrNothing == \A b \in Batch : CallRows(b) \subseteq file \/ CallRows(b) \intersect file = {}

\* What a step of the store keeps, over failures and a crash: the parts above.
StoreKept ==
  /\ (StoreTypeOK /\ FileIsWhole /\ AckedIsDurable /\ AllOrNothing)'
  /\ FileGoesForward
=============================================================================
