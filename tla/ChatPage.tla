------------------------------ MODULE ChatPage ------------------------------
(***************************************************************************)
(* The chat page of the browser (src/Chat.jsx): the conversation    *)
(* the text in the input box, the drafts, the queue of messages typed      *)
(* while a run is on, and the streams of the runs the page started.  An    *)
(* action is the code between two awaits, with the React updates it asks   *)
(* for.  A ref that an effect copies from the state (curRef, busyRef) lags *)
(* behind it after an update that no click made: Effects is that copy.     *)
(* What the page shows of a conversation is left out, and with it what     *)
(* loading and frames only put on the screen; of a text, that it is there. *)
(***************************************************************************)
EXTENDS Naturals, Sequences, FiniteSets, SequencesExt

CONSTANTS
  PageConv,    \* conversations
  MaxTexts,    \* bound on the entries of the queue, ever
  Nothing,     \* null
  MaxStreams,  \* bound on the messages sent
  MaxOpens     \* bound on switches, stops and deletes (the first opening is free)

VARIABLES
  cur, curRef,     \* the conversation and the ref that follows it
  busy, busyRef,
  input,           \* the box has a text (inputRef is set along with it)
  drafts,          \* the conversations with a draft
  queue,           \* entries [conv, uid]
  streams,         \* calls of streamChat: what for, and how far they are
  busyConv,        \* the conversation a run is on in
  making,          \* newConv under way: the conversation it was clicked in
  deleting,        \* delConv under way: [id, cur when it was clicked]
  listed,          \* conversations that exist
  clicks,
  entered,         \* history: number of entries the queue was given
  flushed,         \* history: the entries sent from the queue, in order
  owed             \* history: entries a run's end should have sent

screen  == <<cur, curRef, busy, busyRef>>
texts   == <<input, drafts, queue, entered, flushed>>
calls   == <<streams, busyConv, making, deleting, listed>>
pageVars == <<screen, texts, calls, clicks, owed>>

PageInit ==
  /\ cur = Nothing /\ curRef = Nothing /\ busy = FALSE /\ busyRef = FALSE
  /\ input = FALSE /\ drafts = {}
  /\ queue = <<>> /\ entered = 0 /\ flushed = <<>>
  /\ streams = <<>> /\ busyConv = Nothing /\ making = {} /\ deleting = {}
  /\ listed = {CHOOSE c \in PageConv : TRUE}
  /\ clicks = 0 /\ owed = {}

Click == clicks < MaxOpens /\ clicks' = clicks + 1
FirstOr == Click \/ (cur = Nothing /\ UNCHANGED clicks)
OfConv(c, q) == SelectSeq(q, LAMBDA e : e.conv = c)
Without(q, i) == SubSeq(q, 1, i - 1) \o SubSeq(q, i + 1, Len(q))

\* abortRef is the latest call.
abortRef == Len(streams)
Opened(c) == [conv |-> c, told |-> FALSE, stopping |-> FALSE, live |-> TRUE]
Ended == [conv |-> Nothing, told |-> FALSE, stopping |-> FALSE, live |-> FALSE]
\* runText, after the calls that are there: the box and the draft are emptied,
\* the request goes out.
runText(c, before) ==
  /\ Len(before) < MaxStreams
  /\ streams' = Append(before, Opened(c))
  /\ busyConv' = c
  /\ busyRef' = TRUE /\ busy' = TRUE
  /\ input' = FALSE /\ drafts' = drafts \ {c}

\* The place of the first entry of the conversation shown.
\* Mutant: the first entry of the queue is sent, whose ever it is.
Due_Head(c) == 1
Due(c) == CHOOSE i \in DOMAIN queue :
            /\ queue[i].conv = c
            /\ \A j \in 1..(i - 1) : queue[j].conv # c
MayFlush == ~busyRef /\ curRef # Nothing /\ OfConv(curRef, queue) # <<>>
flushQueue(before) ==
  LET e == queue[Due(curRef)] IN
  /\ MayFlush
  /\ queue' = Without(queue, Due(curRef))
  /\ flushed' = Append(flushed, [sent |-> curRef, entry |-> e])
  /\ owed' = owed \ {e}
  /\ runText(curRef, before)

\* The user types into the empty box, or empties it.
Type ==
  /\ cur # Nothing /\ ~input /\ input' = TRUE
  /\ UNCHANGED <<screen, drafts, queue, entered, flushed, calls, clicks, owed>>
Erase ==
  /\ cur # Nothing /\ input /\ Click /\ input' = FALSE
  /\ UNCHANGED <<screen, drafts, queue, entered, flushed, calls, owed>>

\* send: into the queue while a run is on, at once otherwise.
Enqueue ==
  LET e == [conv |-> cur, uid |-> entered] IN
  /\ cur # Nothing /\ input /\ busyRef /\ entered < MaxTexts
  /\ queue' = Append(queue, e) /\ entered' = entered + 1
  /\ input' = FALSE /\ drafts' = drafts \ {cur}
  /\ UNCHANGED <<screen, flushed, calls, clicks, owed>>
Send ==
  /\ cur # Nothing /\ input /\ ~busyRef
  /\ runText(cur, streams)
  /\ UNCHANGED <<cur, curRef, queue, entered, flushed, making,
                 deleting, listed, clicks, owed>>
\* The button of the queue, shown while the page is not busy.
FlushClick ==
  /\ ~busy /\ cur # Nothing /\ OfConv(cur, queue) # <<>>
  /\ flushQueue(streams)
  /\ UNCHANGED <<cur, curRef, entered, making, deleting, listed, clicks>>
RemoveQueueAt(i) ==
  /\ i \in DOMAIN queue /\ queue[i].conv = cur /\ Click
  /\ queue' = Without(queue, i) /\ owed' = owed \ {queue[i]}
  /\ UNCHANGED <<screen, input, drafts, entered, flushed, calls>>
ClearQueue ==
  /\ cur # Nothing /\ OfConv(cur, queue) # <<>> /\ Click
  /\ queue' = SelectSeq(queue, LAMBDA e : e.conv # cur)
  /\ owed' = {e \in owed : e.conv # cur}
  /\ UNCHANGED <<screen, input, drafts, entered, flushed, calls>>

\* openConv up to its await: the text of the conversation left is kept, the
\* draft of the one opened comes back.  A click's effects run along with it.
OpenConv(id) ==
  /\ id \in listed /\ FirstOr
  /\ drafts' = IF cur # Nothing /\ cur # id /\ input THEN drafts \cup {cur} ELSE drafts
  /\ input' = (id \in drafts)
  /\ cur' = id /\ curRef' = id /\ busyRef' = busy
  /\ UNCHANGED <<busy, queue, entered, flushed, streams, busyConv, making,
                 deleting, listed, owed>>
\* newConv up to its awaits, and behind them; it knows the conversation of
\* the click, and the box as it is now.
NewConv ==
  /\ making = {} /\ listed # PageConv /\ FirstOr /\ making' = {cur}
  /\ UNCHANGED <<screen, texts, streams, busyConv, deleting, listed, owed>>
NewConvMade(from, id) ==
  /\ from \in making /\ making' = {} /\ id \in PageConv \ listed
  /\ listed' = listed \cup {id}
  /\ drafts' = IF from # Nothing /\ input THEN drafts \cup {from} ELSE drafts
  /\ cur' = id /\ input' = FALSE
  /\ UNCHANGED <<curRef, busy, busyRef, queue, entered, flushed, streams,
                 busyConv, deleting, clicks, owed>>

\* delConv up to its await.  The latest call is aborted when the conversation
\* is the one it is on in, or the one shown.
Over(k) == [streams EXCEPT ![k] = Ended]
Free == busy' = FALSE /\ busyConv' = Nothing
DelConv(id) ==
  /\ id \in listed /\ Click
  /\ deleting' = deleting \cup {[id |-> id, cur |-> cur]}
  /\ IF abortRef # 0 /\ (busyConv = id \/ curRef = id) /\ streams[abortRef].live
     THEN streams' = Over(abortRef) /\ Free
     ELSE UNCHANGED <<streams, busy, busyConv>>
  /\ UNCHANGED <<cur, curRef, busyRef, texts, making,
                 listed, owed>>
DropEntries(id) == SelectSeq(queue, LAMBDA e : e.conv # id)
DelConvDone(d) ==
  /\ d \in deleting /\ deleting' = deleting \ {d}
  /\ listed' = listed \ {d.id}
  /\ drafts' = drafts \ {d.id}
  /\ queue' = DropEntries(d.id) /\ owed' = {e \in owed : e.conv # d.id}
  /\ IF cur = d.id /\ d.cur = d.id
     THEN cur' = Nothing /\ input' = FALSE
     ELSE UNCHANGED <<cur, input>>
  /\ UNCHANGED <<curRef, busy, busyRef, entered, flushed, streams,
                 busyConv, making, clicks>>

\* stopGen: the page is free at once, the call is aborted 300 ms later.
StopGen ==
  /\ busy /\ Click /\ Free
  /\ streams' = IF abortRef = 0 THEN streams
                ELSE [streams EXCEPT ![abortRef].stopping = streams[abortRef].live]
  /\ busyRef' = FALSE /\ curRef' = cur /\ owed' = {}
  /\ UNCHANGED <<cur, texts, making, deleting, listed>>
StopTimer(k) ==
  /\ k \in DOMAIN streams /\ streams[k].stopping
  /\ streams' = Over(k) /\ Free
  /\ UNCHANGED <<cur, curRef, busyRef, texts, making,
                 deleting, listed, clicks, owed>>
Flowing(k) == k \in DOMAIN streams /\ streams[k].live
\* The end of a run that was not stopped owes the conversation shown the first
\* of its entries.
Owes(k) == IF ~streams[k].stopping /\ OfConv(curRef, queue) # <<>>
           THEN owed \cup {queue[Due(curRef)]} ELSE owed
\* onDone: the queue is looked at in the same breath as setBusy(false), while
\* busyRef waits for the effects.
Done(k) ==
  LET told == [streams EXCEPT ![k].told = TRUE] IN
  /\ Flowing(k) /\ ~streams[k].told
  /\ \/ flushQueue(told)
     \/ /\ ~MayFlush /\ streams' = told /\ Free /\ owed' = Owes(k)
        /\ UNCHANGED <<busyRef, input, drafts, queue, flushed>>
  /\ UNCHANGED <<cur, curRef, entered, making, deleting, listed, clicks>>
\* onError: the run ended with an error, the queue stays.
ErrorFrame(k) ==
  /\ Flowing(k) /\ ~streams[k].told /\ Free
  /\ streams' = [streams EXCEPT ![k].told = TRUE]
  /\ UNCHANGED <<cur, curRef, busyRef, texts, making,
                 deleting, listed, clicks, owed>>
\* The request fails: the text comes back if nothing had been answered, and
\* the queue is looked at.
Fails(k, answered) ==
  LET s == streams[k]
      back == curRef = s.conv /\ ~answered
  IN
  /\ Flowing(k)
  /\ \/ flushQueue(Over(k))
     \/ /\ ~MayFlush /\ streams' = Over(k) /\ Free
        /\ input' = (input \/ back)
        /\ drafts' = IF back THEN drafts \cup {s.conv} ELSE drafts
        /\ UNCHANGED <<busyRef, queue, flushed, owed>>
  /\ UNCHANGED <<cur, curRef, entered, making, deleting, listed, clicks>>

\* The effects behind a rendering.
Effects ==
  /\ <<curRef, busyRef>> # <<cur, busy>> /\ curRef' = cur /\ busyRef' = busy
  /\ UNCHANGED <<cur, busy, texts, calls, clicks, owed>>

User ==
  \/ Type \/ Erase \/ Enqueue \/ Send \/ FlushClick \/ ClearQueue \/ StopGen \/ NewConv
  \/ \E i \in DOMAIN queue : RemoveQueueAt(i)
  \/ \E c \in PageConv : OpenConv(c) \/ DelConv(c)
Answers ==
  \/ \E from \in making, c \in PageConv : NewConvMade(from, c)
  \/ \E d \in deleting : DelConvDone(d)
Frames == \E k \in DOMAIN streams :
  \/ Done(k) \/ ErrorFrame(k) \/ StopTimer(k)
  \/ \E answered \in BOOLEAN : Fails(k, answered)
PageNext == User \/ Answers \/ Frames \/ Effects

PageSpec == PageInit /\ [][PageNext]_pageVars
\* Requests are answered, runs end, and React runs the effects it has promised.
PageLive == PageSpec /\ WF_pageVars(Effects)
                     /\ \A k \in 1..MaxStreams : WF_pageVars(Done(k))

\* What left the queue by itself went to the conversation it was typed in, in
\* the order it was typed there, each entry once (Chat.jsx: flushQueue, delConv).
QueueInOrder ==
  /\ \A i \in DOMAIN flushed : flushed[i].sent = flushed[i].entry.conv
  /\ \A i, j \in DOMAIN flushed :
       i < j /\ flushed[i].sent = flushed[j].sent
         => flushed[i].entry.uid < flushed[j].entry.uid

\* "The queue: what is typed during a run is sent by itself when the run ends"
\* (Chat.jsx:259): the entry the end of a run should send is sent at last.
QueueGoesOn == owed # {} ~> owed = {}
=============================================================================
