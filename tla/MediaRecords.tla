---------------------------- MODULE MediaRecords ----------------------------
(***************************************************************************)
(* Usage, audit, events, the records of runs and the knowledge entries in  *)
(* the file (jsonfile.js) and in the database (mysql.js): rows that are    *)
(* added and then counted, summed and looked back on, or read by what they *)
(* say of who may see them.                                                *)
(***************************************************************************)
EXTENDS Media, FiniteSetsExt

Payer == {1, 2, Null}          \* accounts a use is charged to
Talk == {1, Null}              \* a conversation; some rows have none

Total(rows, Of(_)) == MapThenSumSet(Of, rows)
-----------------------------------------------------------------------------
(* usage                                                                   *)

\* Costs are whole units of what the database keeps (DECIMAL(10,4)).
UsageRow(a, c, run, kind) ==
  [id |-> NewId, account |-> a, conv |-> c, run |-> run, kind |-> kind, cost |-> 2 * NewId,
   hit |-> NewId, miss |-> 1, day |-> today]
FileCharge(a, c, run, kind) ==
  Answer([file EXCEPT !["usage"] = @ \cup {UsageRow(a, c, run, kind)}], NewId)
SqlCharge(a, c, run, kind) ==
  Answer([base EXCEPT !["usage"] = @ \cup {UsageRow(a, c, run, kind)}], NewId)

FileUsedBy(a) == {r \in file["usage"] : NumberOf(r.account) = a}
SqlUsedBy(a)  == {r \in base["usage"] : SqlEq(r.account, a)}

FileSumByConv(c) ==
  LET rows == {r \in file["usage"] : NumberOf(r.conv) = c}
  IN <<Cardinality(rows), Total(rows, LAMBDA r : r.cost)>>
SqlSumByConv(c) ==
  LET rows == {r \in base["usage"] : SqlEq(r.conv, c)}
  IN <<Cardinality(rows), Total(rows, LAMBDA r : r.cost)>>

\* Mutant: a row of no run counts as a run.
FileSumByAccount_Null(a) ==
  [total |-> Total(FileUsedBy(a), LAMBDA r : r.cost),
   runs |-> Cardinality({r.run : r \in FileUsedBy(a)}),
   convs |-> Cardinality({r.conv : r \in FileUsedBy(a)})]
\* summaryByAccount: what was spent, on how many runs, in how many conversations.
FileSumByAccount(a) ==
  [total |-> Total(FileUsedBy(a), LAMBDA r : r.cost),
   runs |-> Cardinality({r.run : r \in FileUsedBy(a)} \ {Null, Missing}),
   convs |-> Cardinality({r.conv : r \in FileUsedBy(a)} \ {Null, Missing})]
SqlSumByAccount(a) ==
  [total |-> Total(SqlUsedBy(a), LAMBDA r : r.cost),
   runs |-> Cardinality({r.run : r \in SqlUsedBy(a)} \ {Null}),
   convs |-> Cardinality({r.conv : r \in SqlUsedBy(a)} \ {Null})]

\* roundRowsByAccount: the rounds of the last days, in these conversations;
\* Null is no condition, the empty set lets nothing through.
FileRoundsOf(a, d, convs) ==
  {r \in FileUsedBy(a) : /\ r.kind = "round" /\ Recent(r, DaysOf(d))
                         /\ convs = Null \/ NumberOf(r.conv) \in convs}
SqlRoundsOf(a, d, convs) ==
  {r \in SqlUsedBy(a) : /\ r.kind = "round" /\ Recent(r, DaysOf(d))
                        /\ convs = Null \/ (r.conv # Null /\ r.conv \in convs)}
\* dailyByAccount: the same by the day, in their order.
Daily(rows) ==
  LET days == SetToSortSeq({r.day : r \in rows}, LAMBDA x, y : x < y)
      Of(d) == {r \in rows : r.day = d}
  IN [i \in DOMAIN days |-> <<days[i], Total(Of(days[i]), LAMBDA r : r.hit), Cardinality(Of(days[i]))>>]
FileDaily(a, d) == Daily(FileRoundsOf(a, d, Null))
SqlDaily(a, d)  == Daily(SqlRoundsOf(a, d, Null))
\* roundRows: of all accounts, the oldest first.
FileRounds(d, n) ==
  Slice(SelectSeq(RowsOf(file["usage"]), LAMBDA r : r.kind = "round" /\ Recent(r, DaysOf(d))), n)
SqlRounds(d, n) ==
  Limit(Ascending({r \in base["usage"] : r.kind = "round" /\ Recent(r, DaysOf(d))}), n)

UsageNext ==
  \/ Midnight
  \/ \E a \in Payer, c \in Talk, run \in {Null, 1}, kind \in {"round", "title"} :
       Write(FileCharge(a, c, run, kind), SqlCharge(a, c, run, kind))

\* Whichever medium a server runs on, the same is spent by an account and in a
\* conversation, and the same rounds are counted in the same days.
UsageSame ==
  /\ SameAnswer
  /\ \A c \in Talk \ {Null} : FileSumByConv(c) = SqlSumByConv(c)
  /\ \A a \in Payer \ {Null} :
       /\ FileSumByAccount(a) = SqlSumByAccount(a)
       /\ \A d \in 0..2 : /\ FileDaily(a, d) = SqlDaily(a, d)
                          /\ \A convs \in {Null, {}, {1}} :
                               {r.id : r \in FileRoundsOf(a, d, convs)} = {r.id : r \in SqlRoundsOf(a, d, convs)}
  /\ \A d \in 0..2, n \in 0..2 : Ids(FileRounds(d, n)) = Ids(SqlRounds(d, n))
-----------------------------------------------------------------------------
(* audit: an action begins with what it is about; its detail may name a    *)
(* conversation, and begins with a reason                                  *)

Action == {<<"prefix", "exempt">>, <<"prefix", "invalidate">>, <<"task", "run">>}
Detail == {[word |-> "first", names |-> Null], [word |-> "later", names |-> 1],
           [word |-> "first", names |-> 12]}
\* detail LIKE '%conv=1%' is true of conv=12 as well.
Names(detail, c) == detail.names # Null /\ (detail.names = c \/ (c = 1 /\ detail.names = 12))
StartsWith(action, p) == p = Null \/ action[1] = p
Since(r, d) == d > 0 => Recent(r, d)

AuditRow(act, detail, c) == [id |-> NewId, action |-> act, detail |-> detail, conv |-> c, day |-> today]
FileNote(act, detail, c) == Answer([file EXCEPT !["audit"] = @ \cup {AuditRow(act, detail, c)}], NewId)
SqlNote(act, detail, c)  == Answer([base EXCEPT !["audit"] = @ \cup {AuditRow(act, detail, c)}], NewId)

LastOf(s) == IF s = <<>> THEN Null ELSE Last(s).detail
FirstOf(s) == IF s = <<>> THEN Null ELSE Head(s).detail
FileLastDetail(c, act) ==
  LastOf(RowsOf({r \in file["audit"] : NumberOf(r.conv) = c /\ r.action = act}))
SqlLastDetail(c, act) ==
  FirstOf(Limit(Descending({r \in base["audit"] : SqlEq(r.conv, c) /\ r.action = act}), 1))
FileLastByAction(act) == LastOf(RowsOf({r \in file["audit"] : r.action = act}))
SqlLastByAction(act)  == FirstOf(Limit(Descending({r \in base["audit"] : r.action = act}), 1))

\* Per action how many rows: of these actions, or of those with this beginning.
Tally(rows, Of(_)) == {<<k, CountOf(rows, LAMBDA r : Of(r) = k)>> : k \in {Of(r) : r \in rows}}
FileCountByAction(acts) == Tally({r \in file["audit"] : acts = Null \/ r.action \in acts}, LAMBDA r : r.action)
SqlCountByAction(acts)  == Tally({r \in base["audit"] : acts = Null \/ r.action \in acts}, LAMBDA r : r.action)
FileCountByPrefix(p, d) == Tally({r \in file["audit"] : StartsWith(r.action, p) /\ Since(r, d)}, LAMBDA r : r.action)
SqlCountByPrefix(p, d)  == Tally({r \in base["audit"] : StartsWith(r.action, p) /\ Since(r, d)}, LAMBDA r : r.action)
FileCountByWord(act, d) ==
  Tally({r \in file["audit"] : r.action = act /\ Since(r, d)}, LAMBDA r : r.detail.word)
SqlCountByWord(act, d) ==
  Tally({r \in base["audit"] : r.action = act /\ Since(r, d)}, LAMBDA r : r.detail.word)

\* traceByConversation: the rows of a conversation and those that name it.
FileLookBack(c, n) ==
  Slice(Reverse(RowsOf({r \in file["audit"] : NumberOf(r.conv) = c \/ Names(r.detail, c)})), n)
SqlLookBack(c, n) ==
  Limit(Descending({r \in base["audit"] : SqlEq(r.conv, c) \/ Names(r.detail, c)}), n)
FileConvsByPrefix(p) ==
  {r.conv : r \in {x \in file["audit"] : StartsWith(x.action, p) /\ x.conv \notin {Null, Missing}}}
SqlConvsByPrefix(p) == {r.conv : r \in {x \in base["audit"] : StartsWith(x.action, p) /\ x.conv # Null}}
FileRecentBy(p, acts, d, n) ==
  Slice(Reverse(RowsOf({r \in file["audit"] : /\ StartsWith(r.action, p) /\ Since(r, d)
                                              /\ acts = {} \/ r.action \in acts})), n)
SqlRecentBy(p, acts, d, n) ==
  Limit(Descending({r \in base["audit"] : /\ StartsWith(r.action, p) /\ Since(r, d)
                                          /\ acts = {} \/ r.action \in acts}), n)
\* timeRange: the first and the last day; archiveStats: how many rows, since when.
Range2(rows) == IF rows = {} THEN <<Null, Null>> ELSE <<Min({r.day : r \in rows}), Max({r.day : r \in rows})>>
FileTimeRange(p, d) == Range2({r \in file["audit"] : StartsWith(r.action, p) /\ Since(r, d)})
SqlTimeRange(p, d)  == Range2({r \in base["audit"] : StartsWith(r.action, p) /\ Since(r, d)})
FileStats == <<Cardinality(file["audit"]), Range2(file["audit"])[1]>>
SqlStats  == <<Cardinality(base["audit"]), Range2(base["audit"])[1]>>

\* GET /api/audit: the route joins conditions; the file knows those of a text,
\* of days and of a column, and refuses the one of a category.
Unsupported == <<"STORAGE_UNSUPPORTED">>
Fits(r, q) == /\ q.text # Null => Names(r.detail, q.text)
              /\ Since(r, q.days)
              /\ q.conv # Null => NumberOf(r.conv) = q.conv
SqlFits(r, q) == /\ q.text # Null => Names(r.detail, q.text)
                 /\ Since(r, q.days)
                 /\ q.conv # Null => SqlEq(r.conv, q.conv)
                 /\ q.cat # Null => StartsWith(r.action, q.cat)
FileAdminRows(q, n) ==
  IF q.cat # Null THEN Unsupported
  ELSE Ids(Slice(Reverse(RowsOf({r \in file["audit"] : Fits(r, q)})), n))
SqlAdminRows(q, n) == Ids(Limit(Descending({r \in base["audit"] : SqlFits(r, q)}), n))

AuditNext ==
  \/ Midnight
  \/ \E act \in Action, detail \in Detail, c \in Talk :
       Write(FileNote(act, detail, c), SqlNote(act, detail, c))

\* What the page is asked: for a text, for the last days, for a conversation.
Query(cats) == [text : {Null, 1, 12}, days : 0..1, conv : {Null, 1}, cat : cats]
\* Whichever medium a server runs on, the same is remembered of an action and of
\* a conversation, and the same rows are counted, in the same days.
AuditSame ==
  /\ SameAnswer /\ FileStats = SqlStats
  /\ \A act \in Action :
       /\ FileLastByAction(act) = SqlLastByAction(act)
       /\ \A c \in Talk \ {Null} : FileLastDetail(c, act) = SqlLastDetail(c, act)
       /\ \A d \in 0..1 : FileCountByWord(act, d) = SqlCountByWord(act, d)
  /\ \A acts \in {Null, {}, {<<"task", "run">>}, Action} : FileCountByAction(acts) = SqlCountByAction(acts)
  /\ \A p \in {Null, "prefix", "task"} :
       /\ p # Null => FileConvsByPrefix(p) = SqlConvsByPrefix(p)
       /\ \A d \in 0..1 :
            /\ p # Null => FileCountByPrefix(p, d) = SqlCountByPrefix(p, d)
            /\ FileTimeRange(p, d) = SqlTimeRange(p, d)
            /\ \A acts \in {{}, {<<"task", "run">>}} :
                 Ids(FileRecentBy(p, acts, d, 2)) = Ids(SqlRecentBy(p, acts, d, 2))
  /\ \A c \in Talk \ {Null} : Ids(FileLookBack(c, 2)) = Ids(SqlLookBack(c, 2))
  /\ \A q \in Query({Null}) : FileAdminRows(q, 2) = SqlAdminRows(q, 2)
-----------------------------------------------------------------------------
(* events and the records of runs                                          *)

FileEvent(c) == Answer([file EXCEPT !["event"] = @ \cup {[id |-> NewId, conv |-> c]}], NewId)
SqlEvent(c)  == Answer([base EXCEPT !["event"] = @ \cup {[id |-> NewId, conv |-> c]}], NewId)
FileRead(c, after, n) ==
  Slice(RowsOf({r \in file["event"] : NumberOf(r.conv) = c /\ r.id > after}), n)
SqlRead(c, after, n) ==
  Limit(Ascending({r \in base["event"] : SqlEq(r.conv, c) /\ r.id > after}), n)

FileStart(c) ==
  Answer([file EXCEPT !["run"] = @ \cup {[id |-> NewId, conv |-> c, status |-> "running"]}], NewId)
SqlStart(c) ==
  Answer([base EXCEPT !["run"] = @ \cup {[id |-> NewId, conv |-> c, status |-> "running"]}], NewId)
FileEnd(i, st) ==
  Answer([file EXCEPT !["run"] = Patched(@, LAMBDA r : r.id = i, LAMBDA r : [r EXCEPT !.status = st])], 0)
SqlEnd(i, st) ==
  Answer([base EXCEPT !["run"] = Patched(@, LAMBDA r : r.id = i, LAMBDA r : [r EXCEPT !.status = st])], 0)
FileLatest(c) ==
  LET rows == RowsOf({r \in file["run"] : NumberOf(r.conv) = c})
  IN IF rows = <<>> THEN Null ELSE <<Last(rows).id, Last(rows).status>>
SqlLatest(c) ==
  LET rows == Limit(Descending({r \in base["run"] : SqlEq(r.conv, c)}), 1)
  IN IF rows = <<>> THEN Null ELSE <<Head(rows).id, Head(rows).status>>

RunNext ==
  \/ \E c \in Talk : Write(FileEvent(c), SqlEvent(c))
  \/ \E c \in Talk \ {Null} : Write(FileStart(c), SqlStart(c))
  \/ \E i \in 1..writes, st \in {"completed", "interrupted"} : Write(FileEnd(i, st), SqlEnd(i, st))

\* Whichever medium a server runs on, a reader that goes on behind an event gets
\* the same events, none twice, and a conversation has the same latest run.
RunsSame ==
  /\ SameAnswer
  /\ \A c \in Talk \ {Null} :
       /\ FileLatest(c) = SqlLatest(c)
       /\ \A after \in 0..writes, n \in 0..2 : Ids(FileRead(c, after, n)) = Ids(SqlRead(c, after, n))
-----------------------------------------------------------------------------
(* knowledge: an entry belongs to an account, and within it to all its     *)
(* conversations, to those of a shell, or to one                           *)

Account == 1..2
Place == {[scope |-> "global", shell |-> Null, conv |-> Null],
          [scope |-> "shell", shell |-> 1, conv |-> Null],
          [scope |-> "conv", shell |-> Null, conv |-> 1]}
Title == {"x", "y"}
Status == {"active", "obsolete"}
Kind == {"fact", "doc"}

FileKnown(a) == {r \in file["knowledge"] : NumberOf(r.account) = a}
SqlKnown(a)  == {r \in base["knowledge"] : SqlEq(r.account, a)}

FileLearn(a, p, k, t) ==
  Answer([file EXCEPT !["knowledge"] = @ \cup
            {[id |-> NewId, account |-> a, place |-> p, kind |-> k, title |-> t, body |-> NewId,
              status |-> "active", related |-> Missing, since |-> NewId]}], NewId)
SqlLearn(a, p, k, t) ==
  Answer([base EXCEPT !["knowledge"] = @ \cup
            {[id |-> NewId, account |-> a, place |-> p, kind |-> k, title |-> t, body |-> NewId,
              status |-> "active", related |-> Null, since |-> NewId]}], NewId)

\* findByTitle: the newest of the same account, place, kind and title.
FileFindByTitle(a, p, k, t) ==
  LET hits == RowsOf({r \in FileKnown(a) : r.place = p /\ r.kind = k /\ r.title = t})
  IN IF hits = <<>> THEN Null ELSE Last(hits).id
SqlFindByTitle(a, p, k, t) ==
  LET hits == Limit(Descending({r \in SqlKnown(a) : r.place = p /\ r.kind = k /\ r.title = t}), 1)
  IN IF hits = <<>> THEN Null ELSE Head(hits).id

\* update: kb_add's revision makes the entry the newest fact.
FileRevise(i) ==
  LET fits == {r \in file["knowledge"] : r.id = i} IN
  Answer([file EXCEPT !["knowledge"] = Patched(@, LAMBDA r : r \in fits,
            LAMBDA r : [r EXCEPT !.body = NewId, !.status = "active", !.since = NewId])], fits # {})
SqlRevise(i) ==
  LET fits == {r \in base["knowledge"] : r.id = i} IN
  Answer([base EXCEPT !["knowledge"] = Patched(@, LAMBDA r : r \in fits,
            LAMBDA r : [r EXCEPT !.body = NewId, !.status = "active", !.since = NewId])], fits # {})

\* updateOwned and remove: within the bounds of an account.
FileUpdateOwned(i, a, st) ==
  LET fits == {r \in FileKnown(a) : r.id = i} IN
  Answer([file EXCEPT !["knowledge"] = Patched(@, LAMBDA r : r \in fits,
            LAMBDA r : [r EXCEPT !.status = st])], fits # {})
SqlUpdateOwned(i, a, st) ==
  LET fits == {r \in SqlKnown(a) : r.id = i} IN
  Answer([base EXCEPT !["knowledge"] = Patched(@, LAMBDA r : r \in fits,
            LAMBDA r : [r EXCEPT !.status = st])], fits # {})
FileForget(i, a) ==
  LET fits == {r \in FileKnown(a) : r.id = i} IN
  Answer([file EXCEPT !["knowledge"] = @ \ fits], fits # {})
SqlForget(i, a) ==
  LET fits == {r \in SqlKnown(a) : r.id = i} IN
  Answer([base EXCEPT !["knowledge"] = @ \ fits], fits # {})

\* Mutant: whatever has become of the entry.
FileVisible_AnyStatus(a, s, c) ==
  {r \in FileKnown(a) : \/ r.place.scope = "global"
                        \/ r.place.scope = "shell" /\ r.place.shell = s
                        \/ r.place.scope = "conv" /\ r.place.conv = (IF c = Null THEN -1 ELSE c)}
\* What a conversation c with the shell s sees of an account's entries: the
\* file asks again what kbVisibleWhere puts in the query.
FileVisible(a, s, c) ==
  {r \in FileKnown(a) : /\ r.status = "active"
                        /\ \/ r.place.scope = "global"
                           \/ r.place.scope = "shell" /\ r.place.shell = s
                           \/ r.place.scope = "conv" /\ r.place.conv = (IF c = Null THEN -1 ELSE c)}
SqlVisible(a, s, c) ==
  {r \in SqlKnown(a) : /\ \/ r.place.scope = "global"
                          \/ r.place.scope = "shell" /\ r.place.shell = s
                          \/ r.place.scope = "conv" /\ SqlEq(r.place.conv, IF c = Null THEN -1 ELSE c)
                       /\ r.status = "active"}

FileVisibleList(a, s, c, n) == Slice(Reverse(RowsOf(FileVisible(a, s, c))), n)
SqlVisibleList(a, s, c, n)  == Limit(Descending(SqlVisible(a, s, c)), n)
FileForgetVisible(i, a, s, c) ==
  LET fits == {r \in FileVisible(a, s, c) : r.id = i} IN
  Answer([file EXCEPT !["knowledge"] = @ \ fits], fits # {})
SqlForgetVisible(i, a, s, c) ==
  LET fits == {r \in SqlVisible(a, s, c) : r.id = i} IN
  Answer([base EXCEPT !["knowledge"] = @ \ fits], fits # {})

\* adminList: what the filters let through, newest first; Null is no filter.
FileAdminList(a, sc, s, st, n) ==
  Slice(Reverse(RowsOf({r \in FileKnown(a) :
          /\ sc = Null \/ r.place.scope = sc
          /\ sc = "shell" /\ s # Null => NumberOf(r.place.shell) = s
          /\ st = Null \/ r.status = st})), n)
SqlAdminList(a, sc, s, st, n) ==
  Limit(Descending({r \in SqlKnown(a) :
          /\ sc = Null \/ r.place.scope = sc
          /\ sc = "shell" /\ s # Null => SqlEq(r.place.shell, s)
          /\ st = Null \/ r.status = st}), n)

KnowledgeNext ==
  \/ \E a \in Account, p \in Place, k \in Kind, t \in Title : Write(FileLearn(a, p, k, t), SqlLearn(a, p, k, t))
  \/ \E i \in 1..writes :
       \/ Write(FileRevise(i), SqlRevise(i))
       \/ \E a \in Account :
            \/ \E st \in Status : Write(FileUpdateOwned(i, a, st), SqlUpdateOwned(i, a, st))
            \/ Write(FileForget(i, a), SqlForget(i, a))
            \/ \E s \in {Null, 1}, c \in {Null, 1, 2} :
                 Write(FileForgetVisible(i, a, s, c), SqlForgetVisible(i, a, s, c))

\* Whichever medium a server runs on, a conversation is shown the same entries
\* and no other account's, and a title taught again is the same entry.
KnowledgeSame ==
  /\ SameAnswer
  /\ \A a \in Account :
       /\ {r.id : r \in FileKnown(a)} = {r.id : r \in SqlKnown(a)}
       /\ \A p \in Place, k \in Kind, t \in Title : FileFindByTitle(a, p, k, t) = SqlFindByTitle(a, p, k, t)
       /\ \A s \in {Null, 1}, c \in {Null, 1, 2}, n \in 0..1 :
            LET seen == FileVisibleList(a, s, c, n)
                Shown(q) == [i \in DOMAIN q |-> <<q[i].id, q[i].place.scope, q[i].title, q[i].body>>]
            IN /\ Shown(seen) = Shown(SqlVisibleList(a, s, c, n))
               /\ \A i \in DOMAIN seen : seen[i].account = a /\ seen[i].status = "active"
       /\ \A sc \in {Null, "shell", "conv"}, s \in {Null, 1}, st \in Status \cup {Null} :
            Ids(FileAdminList(a, sc, s, st, 0)) = Ids(SqlAdminList(a, sc, s, st, 0))
       /\ Ids(FileAdminList(a, Null, Null, Null, 1)) = Ids(SqlAdminList(a, Null, Null, Null, 1))
=============================================================================
