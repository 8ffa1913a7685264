------------------------------ MODULE ReadCache ------------------------------
(***************************************************************************)
(* Repeated reads and searches of a conversation are answered with a note  *)
(* that the text is already in the context (server/readcache.js, called by *)
(* read_file, read_file_range and grep_search in server/tools/index.js and *)
(* cleared by a fold in server/agent.js).  One file is modelled: a point   *)
(* is one of its characters, an interval <<s, e>> the points s..e-1.  The  *)
(* record is kept per conversation; a reader is a context that reads in it:*)
(* the run of the turn, or a sub-agent.                                    *)
(***************************************************************************)
EXTENDS Integers, Sequences, FiniteSets, SequencesExt

CONSTANTS
  Reader,      \* the contexts of the conversation
  Size,        \* points of the file
  Cap,         \* READ_INLINE_CHARS
  NearDen,     \* 1 / nearRatio
  MaxVersion   \* bound on changes of the file

ASSUME ReadAssumption ==
  /\ Size \in Nat \ {0} /\ Cap \in Nat /\ NearDen \in Nat \ {0}
  /\ MaxVersion \in Nat /\ Reader # {}

VARIABLES
  version,   \* of the file: its mtime and size
  record,    \* bucket(cid, path): the version it is about and the intervals
  held,      \* points of the present version in each reader's context
  said,      \* the last answer: to whom, how, about which points
  epoch,     \* grepState: writes of the conversation
  searched,  \* epochs for which a search of the directory is recorded
  found      \* epoch whose search result stands in each context, -1 for none

readVars == <<version, record, held, said, epoch, searched, found>>

Interval == {x \in (0..Size) \X (0..Size) : x[1] < x[2]}
Points(list) == UNION {list[k][1]..list[k][2] - 1 : k \in DOMAIN list}
Length(x) == x[2] - x[1]
Later(a, b) == IF a > b THEN a ELSE b
Sooner(a, b) == IF a < b THEN a ELSE b

\* mergeIntervals: sorted by their start, overlapping and adjacent ones joined.
\* Mutant: intervals that only touch stay apart.
Joined_Overlapping(out, x) ==
  IF out # <<>> /\ x[1] < Last(out)[2]
  THEN [out EXCEPT ![Len(out)] = <<Last(out)[1], Later(Last(out)[2], x[2])>>]
  ELSE Append(out, x)
Joined(out, x) ==
  IF out # <<>> /\ x[1] <= Last(out)[2]
  THEN [out EXCEPT ![Len(out)] = <<Last(out)[1], Later(Last(out)[2], x[2])>>]
  ELSE Append(out, x)
StartsFirst(a, b) == a[1] < b[1] \/ (a[1] = b[1] /\ a[2] <= b[2])
FirstOf(spans) == CHOOSE x \in spans : \A y \in spans : StartsFirst(x, y)
Took(at) == [left |-> at.left \ {FirstOf(at.left)},
             out |-> Joined(at.out, FirstOf(at.left))]
Spans(list) == {x \in ToSet(list) : x[2] > x[1]}
MergeIntervals(list) ==
  LET merged[k \in 0..Cardinality(Spans(list))] ==
        IF k = 0 THEN [left |-> Spans(list), out |-> <<>>] ELSE Took(merged[k - 1])
  IN merged[Cardinality(Spans(list))].out

\* subtractIntervals: the cursor runs over the target, past what is covered.
Passed(at, c, target) ==
  IF c[2] <= at.cur \/ c[1] >= target[2] THEN at
  ELSE [out |-> IF c[1] > at.cur
                THEN Append(at.out, <<at.cur, Sooner(c[1], target[2])>>)
                ELSE at.out,
        cur |-> Later(at.cur, c[2])]
SubtractIntervals(target, covered) ==
  LET cov == MergeIntervals(covered)
      passed[k \in 0..Len(cov)] ==
        IF k = 0 THEN [out |-> <<>>, cur |-> target[1]]
        ELSE Passed(passed[k - 1], cov[k], target)
      end == passed[Len(cov)]
  IN IF end.cur < target[2] THEN Append(end.out, <<end.cur, target[2]>>)
                            ELSE end.out

\* planRead: a record about another version of the file counts for nothing.
\* Mutant: the version is not compared.
Covered_AnyVersion == record.iv
Covered == IF record.of = version THEN record.iv ELSE <<>>
Plan(span, force, near) ==
  LET gaps == IF force THEN <<span>> ELSE SubtractIntervals(span, Covered)
      open == Cardinality(Points(gaps))
  IN [gaps |-> gaps,
      duplicate |-> ~force /\ (open = 0 \/ (near /\ open * NearDen < Length(span)))]

\* noteServed.
Noted(spans) == [of |-> version, iv |-> MergeIntervals(Covered \o spans)]

\* lineAlignedPreview: six tenths of the cap from the head, three from the tail.
Preview ==
  IF Size <= Cap THEN 0..Size - 1
  ELSE 0..(Cap * 6) \div 10 - 1 \cup (Size - (Cap * 3) \div 10)..Size - 1

Said(r, how, span) == [to |-> r, how |-> how, span |-> span]
Nothing == [how |-> "none"]

ReadInit ==
  /\ version = 0 /\ record = [of |-> -1, iv |-> <<>>]
  /\ held = [r \in Reader |-> {}] /\ said = Nothing
  /\ epoch = 0 /\ searched = {} /\ found = [r \in Reader |-> -1]

\* read_file: the whole file is noted, a preview of it may be all that is given.
ReadFile(r, force) ==
  LET whole == <<0, Size>>
      plan  == Plan(whole, force, FALSE)
  IN /\ IF plan.duplicate
        THEN said' = Said(r, "duplicate", whole) /\ UNCHANGED <<record, held>>
        ELSE /\ said' = Said(r, "preview", whole)
             /\ record' = Noted(<<whole>>)
             /\ held' = [held EXCEPT ![r] = @ \cup Preview]
     /\ UNCHANGED <<version, epoch, searched, found>>

\* read_file_range: only what is not covered is given.
ReadRange(r, span, force) ==
  LET plan == Plan(span, force, TRUE)
  IN /\ IF plan.duplicate
        THEN said' = Said(r, "duplicate", span) /\ UNCHANGED <<record, held>>
        ELSE /\ said' = Said(r, "given", span)
             /\ record' = Noted(plan.gaps)
             /\ held' = [held EXCEPT ![r] = @ \cup Points(plan.gaps)]
     /\ UNCHANGED <<version, epoch, searched, found>>

\* Mutant: a search is known however much was written since.
Known_Ever == searched # {}
Known == epoch \in searched
\* grep_search, for results long enough to be worth a note.
Search(r, force) ==
  /\ IF Known /\ ~force
     THEN said' = Said(r, "no search", epoch) /\ UNCHANGED <<searched, found>>
     ELSE /\ said' = Said(r, "searched", epoch)
          /\ searched' = searched \cup {epoch}
          /\ found' = [found EXCEPT ![r] = epoch]
  /\ UNCHANGED <<version, record, held, epoch>>

\* Mutant: a write is counted where the tool runs and where it ends.
Bumped_Twice(own) == IF own THEN epoch + 2 ELSE epoch
Bumped(own) == IF own THEN epoch + 1 ELSE epoch
\* A tool of the conversation writes the file (markWritten), or somebody else.
Write(own) ==
  /\ version < MaxVersion /\ version' = version + 1
  /\ epoch' = Bumped(own)
  /\ held' = [r \in Reader |-> {}] /\ said' = Nothing
  /\ UNCHANGED <<record, searched, found>>

\* Mutant: a fold leaves the record of reads alone.
Cleared_Never == record
Cleared == [of |-> -1, iv |-> <<>>]
\* A fold takes the early rounds out of one context and clears the reads.
FoldContext(r) ==
  /\ held' = [held EXCEPT ![r] = {}] /\ found' = [found EXCEPT ![r] = -1]
  /\ record' = Cleared /\ said' = Nothing
  /\ UNCHANGED <<version, epoch, searched>>

ReadNext ==
  \/ \E r \in Reader, force \in BOOLEAN :
       \/ ReadFile(r, force) \/ Search(r, force)
       \/ \E span \in Interval : ReadRange(r, span, force)
  \/ \E own \in BOOLEAN : Write(own)
  \/ \E r \in Reader : FoldContext(r)
ReadSpec == ReadInit /\ [][ReadNext]_readVars
-----------------------------------------------------------------------------
ReadTypeOK ==
  /\ version \in 0..MaxVersion /\ record.of \in -1..MaxVersion
  /\ held \in [Reader -> SUBSET (0..Size - 1)]
  /\ said.how \in {"none", "duplicate", "preview", "given", "no search",
                    "searched"}
  /\ epoch \in 0..MaxVersion /\ searched \subseteq 0..epoch
  /\ found \in [Reader -> -1..epoch]

\* The record is a sorted list of intervals that neither touch nor overlap.
RecordIsCanonical ==
  /\ \A k \in DOMAIN record.iv : record.iv[k] \in Interval
  /\ \A k \in 1..Len(record.iv) - 1 : record.iv[k][2] < record.iv[k + 1][1]

\* What a request of a range asked for stands in the context of the reader when
\* it has been answered, given now or refused as a repetition, up to the share
\* of a near repetition (readcache.js:5-24).
AskedIsInContext ==
  said.how \in {"duplicate", "given"} =>
    Cardinality((said.span[1]..said.span[2] - 1) \ held[said.to]) * NearDen
      < Length(said.span)

\* The record says only what has been given (noteServed, readcache.js:97).
RecordIsHeld ==
  record.of = version => Points(record.iv) \subseteq UNION {held[r] : r \in Reader}

\* A search is refused as a repetition only while the conversation has written
\* nothing since the result that is in the context (readcache.js:103-106).
RefusedSearchIsFresh ==
  said.how = "no search" => found[said.to] \in {-1, epoch}

\* What the record of a file keeps: the parts above.  Of a file larger than one
\* answer may carry a preview is given and the whole noted: AskedIsInContext and
\* RecordIsHeld are about the others (Size <= Cap).
ReadsSafe ==
  /\ ReadTypeOK /\ RecordIsCanonical /\ RefusedSearchIsFresh
  /\ Size <= Cap => AskedIsInContext /\ RecordIsHeld
=============================================================================
