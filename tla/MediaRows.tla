----------------------------- MODULE MediaRows ------------------------------
(***************************************************************************)
(* The rows that are found again and changed, in the file (jsonfile.js)    *)
(* and in the database (mysql.js): conversations, messages and tool calls; *)
(* accounts, login sessions, settings and delivery records, the tables     *)
(* with a key of their own.  The database compares text without regard to  *)
(* case; so does the file for the names of accounts, and for no other key. *)
(***************************************************************************)
EXTENDS Media

CONSTANTS
  Owner,         \* accounts that own conversations
  TraceMax,      \* rows of a trace whose limit is no positive integer
  Name,          \* names of accounts as they are typed
  Fold(_)        \* the name in small letters

Conv == 1..2            \* numbers of conversations, whether one has them or not
Role == {"user", "assistant"}
ToolName == {"kb_add", "other"}
\* A call: its tool, its status, its failure code.
Called == {<<"kb_add", "done", Null>>, <<"kb_add", "fail", "DENIED">>, <<"other", "fail", Null>>}
-----------------------------------------------------------------------------
(* conversations                                                           *)

FileConv(c) == {r \in file.conv : r.id = c}
FileOwned(c, a) == {r \in FileConv(c) : OrNull(r.account) = OrNull(a)}
SqlConv(c) == {r \in base.conv : r.id = c}
SqlOwned(c, a) == {r \in base.conv : r.id = c /\ SqlEq(r.account, a)}

\* create: a column the caller leaves out gets its default in the database.
FileCreate(a, ch) ==
  Answer([file EXCEPT !.conv = @ \cup
            {[id |-> NewId, account |-> a, channel |-> ch, title |-> "new", upd |-> NewId]}], NewId)
SqlCreate(a, ch) ==
  Answer([base EXCEPT !.conv = @ \cup
            {[id |-> NewId, account |-> a, channel |-> IF ch = Missing THEN "web" ELSE ch,
              title |-> "new", upd |-> NewId]}], NewId)

FileRename(c, a, t) ==
  Answer([file EXCEPT !.conv = Patched(@, LAMBDA r : r \in FileOwned(c, a),
                                       LAMBDA r : [r EXCEPT !.title = t, !.upd = NewId])], 0)
SqlRename(c, a, t) ==
  Answer([base EXCEPT !.conv = Patched(@, LAMBDA r : r \in SqlOwned(c, a),
                                       LAMBDA r : [r EXCEPT !.title = t, !.upd = NewId])], 0)

FileTouch(c) ==
  Answer([file EXCEPT !.conv = Patched(@, LAMBDA r : r \in FileConv(c),
                                       LAMBDA r : [r EXCEPT !.upd = NewId])], 0)
SqlTouch(c) ==
  Answer([base EXCEPT !.conv = Patched(@, LAMBDA r : r \in SqlConv(c),
                                       LAMBDA r : [r EXCEPT !.upd = NewId])], 0)

FileRemove(c) == Answer([file EXCEPT !.conv = @ \ FileConv(c)], Cardinality(FileConv(c)))
SqlRemove(c)  == Answer([base EXCEPT !.conv = @ \ SqlConv(c)], Cardinality(SqlConv(c)))

\* listByAccount: one's own, and the channels' that are nobody's, newest first.
FileListByAccount(a) ==
  SetToSortSeq({r \in file.conv : \/ OrNull(r.account) = OrNull(a)
                                  \/ r.channel \notin {Null, Missing, "web"} /\ OrNull(r.account) = Null},
               LAMBDA x, y : x.upd > y.upd)
SqlListByAccount(a) ==
  SetToSortSeq({r \in base.conv : \/ SqlEq(r.account, a)
                                  \/ r.channel \notin {Null, "web"} /\ r.account = Null},
               LAMBDA x, y : x.upd > y.upd)
-----------------------------------------------------------------------------
(* messages                                                                *)

FileMsgs(c) == {r \in file.msg : NumberOf(r.conv) = c}
SqlMsgs(c) == {r \in base.msg : SqlEq(r.conv, c)}

FileAppend(c, role, text) ==
  Answer([file EXCEPT !.msg = @ \cup {[id |-> NewId, conv |-> c, role |-> role, content |-> text]}],
         NewId)
SqlAppend(c, role, text) ==
  Answer([base EXCEPT !.msg = @ \cup {[id |-> NewId, conv |-> c, role |-> role,
                                       content |-> OrNull(text)]}], NewId)
\* guardAppend: nothing is written to a conversation that is gone.
FileGuardAppend(c, role, text) ==
  IF FileConv(c) = {} THEN Answer(file, 0) ELSE FileAppend(c, role, text)
SqlGuardAppend(c, role, text) ==
  IF SqlConv(c) = {} THEN Answer(base, 0) ELSE SqlAppend(c, role, text)
FileRemoveMsgs(c) == Answer([file EXCEPT !.msg = @ \ FileMsgs(c)], Cardinality(FileMsgs(c)))
SqlRemoveMsgs(c)  == Answer([base EXCEPT !.msg = @ \ SqlMsgs(c)], Cardinality(SqlMsgs(c)))

FileList(c, n) == Slice(RowsOf(FileMsgs(c)), n)
SqlList(c, n)  == Limit(Ascending(SqlMsgs(c)), n)

\* Mutant: the window first and the roles after it.
FileRecent_Late(c, n, roles) ==
  LET rows == Slice(Reverse(RowsOf(FileMsgs(c))), n)
  IN IF roles = {} THEN rows ELSE SelectSeq(rows, LAMBDA r : r.role \in roles)
\* recent: the newest first, of the roles asked for; no role asks for all.
FileRecent(c, n, roles) ==
  LET rows == IF roles = {} THEN FileMsgs(c) ELSE {r \in FileMsgs(c) : r.role \in roles}
  IN Slice(Reverse(RowsOf(rows)), n)
SqlRecent(c, n, roles) ==
  Limit(Descending({r \in SqlMsgs(c) : roles = {} \/ r.role \in roles}), n)

FileCount(c, role) == CountOf(FileMsgs(c), LAMBDA r : role = Null \/ r.role = role)
SqlCount(c, role)  == CountOf(SqlMsgs(c), LAMBDA r : role = Null \/ r.role = role)

\* history: a text that is missing or NULL is the empty text.
Said(r) == [id |-> r.id, role |-> r.role,
            content |-> IF r.content \in {Null, Missing} THEN "" ELSE r.content]
FileHistory(c) == LET s == RowsOf(FileMsgs(c)) IN [i \in DOMAIN s |-> Said(s[i])]
SqlHistory(c)  == LET s == Ascending(SqlMsgs(c)) IN [i \in DOMAIN s |-> Said(s[i])]
-----------------------------------------------------------------------------
(* tool calls                                                              *)

FileCalls(c) == {r \in file.call : NumberOf(r.conv) = c}
SqlCalls(c) == {r \in base.call : SqlEq(r.conv, c)}

FileAppendCall(c, e) ==
  Answer([file EXCEPT !.call = @ \cup
            {[id |-> NewId, conv |-> c, tool |-> e[1], status |-> e[2], code |-> e[3],
              msg |-> Missing, day |-> today]}], NewId)
SqlAppendCall(c, e) ==
  Answer([base EXCEPT !.call = @ \cup
            {[id |-> NewId, conv |-> c, tool |-> e[1], status |-> e[2], code |-> e[3],
              msg |-> Null, day |-> today]}], NewId)

\* Mutant: the field that is missing is not taken for one that is null.
FileAttach_NullOnly(c, m) ==
  LET free == {r \in FileCalls(c) : r.msg = Null} IN
  Answer([file EXCEPT !.call = Patched(@, LAMBDA r : r \in free, LAMBDA r : [r EXCEPT !.msg = m])],
         Cardinality(free))
\* attachToMessage: only the calls nobody has claimed.
FileAttach(c, m) ==
  LET free == {r \in FileCalls(c) : r.msg \in {Null, Missing}} IN
  Answer([file EXCEPT !.call = Patched(@, LAMBDA r : r \in free, LAMBDA r : [r EXCEPT !.msg = m])],
         Cardinality(free))
SqlAttach(c, m) ==
  LET free == {r \in SqlCalls(c) : r.msg = Null} IN
  Answer([base EXCEPT !.call = Patched(@, LAMBDA r : r \in free, LAMBDA r : [r EXCEPT !.msg = m])],
         Cardinality(free))

FileRemoveCalls(c) == Answer([file EXCEPT !.call = @ \ FileCalls(c)], Cardinality(FileCalls(c)))
SqlRemoveCalls(c)  == Answer([base EXCEPT !.call = @ \ SqlCalls(c)], Cardinality(SqlCalls(c)))

FileCallList(c, n)   == Slice(RowsOf(FileCalls(c)), n)
SqlCallList(c, n)    == Limit(Ascending(SqlCalls(c)), n)
FileCallRecent(c, n) == Slice(Reverse(RowsOf(FileCalls(c))), n)
SqlCallRecent(c, n)  == Limit(Descending(SqlCalls(c)), n)
FileTrace(c, n) == Slice(Reverse(RowsOf(FileCalls(c))), IF n > 0 THEN n ELSE TraceMax)
SqlTrace(c, n)  == Limit(Descending(SqlCalls(c)), IF n > 0 THEN n ELSE TraceMax)

\* countByTool: the knowledge tools a conversation used, in the last days or ever.
FileCountByTool(c, tools, d) ==
  CountOf(FileCalls(c), LAMBDA r : r.tool \in tools /\ (d > 0 => Recent(r, d)))
SqlCountByTool(c, tools, d) ==
  CountOf(SqlCalls(c), LAMBDA r : r.tool \in tools /\ (d > 0 => Recent(r, d)))

\* failureTotals: calls of conversations apart from those of none.
FileTotals(d) ==
  LET rows == {r \in file.call : Recent(r, DaysOf(d))}
      real == {r \in rows : r.conv \notin {Null, Missing} /\ r.conv > 0}
      Bad(r) == r.status = "fail"
  IN [calls |-> Cardinality(real), fails |-> CountOf(real, Bad),
      probes |-> Cardinality(rows \ real), probeFails |-> CountOf(rows \ real, Bad)]
SqlTotals(d) ==
  LET rows == {r \in base.call : Recent(r, DaysOf(d))}
      real == {r \in rows : r.conv # Null /\ r.conv > 0}
      probe == {r \in rows : r.conv # Null /\ r.conv <= 0}
      Bad(r) == r.status = "fail"
  IN [calls |-> Cardinality(real), fails |-> CountOf(real, Bad),
      probes |-> Cardinality(probe), probeFails |-> CountOf(probe, Bad)]

FileFailed(d) == {r \in file.call : /\ r.status = "fail" /\ r.conv \notin {Null, Missing}
                                    /\ r.conv > 0 /\ Recent(r, DaysOf(d))}
SqlFailed(d)  == {r \in base.call : /\ r.status = "fail" /\ r.conv # Null
                                    /\ r.conv > 0 /\ Recent(r, DaysOf(d))}
\* failByCode: per code how many calls failed, of how many tools; no code is a code.
ByCode(rows) ==
  {[code |-> c, n |-> CountOf(rows, LAMBDA r : r.code = c),
    tools |-> Cardinality({r.tool : r \in {x \in rows : x.code = c}})] : c \in {r.code : r \in rows}}
FileFailByCode(d) == ByCode(FileFailed(d))
SqlFailByCode(d)  == ByCode(SqlFailed(d))
\* failByTool: per tool and code; the caller's limit cuts the most frequent.
FileFailByTool(d) ==
  {[tool |-> k[1], code |-> k[2], n |-> CountOf(FileFailed(d), LAMBDA r : <<r.tool, r.code>> = k)] :
     k \in {<<r.tool, r.code>> : r \in FileFailed(d)}}
SqlFailByTool(d) ==
  {[tool |-> k[1], code |-> k[2], n |-> CountOf(SqlFailed(d), LAMBDA r : <<r.tool, r.code>> = k)] :
     k \in {<<r.tool, r.code>> : r \in SqlFailed(d)}}
-----------------------------------------------------------------------------
ChatNext ==
  \/ Midnight
  \/ \E a \in Owner \cup {Null}, ch \in {Missing, "feishu"} : Write(FileCreate(a, ch), SqlCreate(a, ch))
  \/ \E c \in Conv :
       \/ \E a \in Owner : Write(FileRename(c, a, "t"), SqlRename(c, a, "t"))
       \/ Write(FileTouch(c), SqlTouch(c))
       \/ Write(FileRemove(c), SqlRemove(c))
       \/ Write(FileRemoveMsgs(c), SqlRemoveMsgs(c))
       \/ Write(FileRemoveCalls(c), SqlRemoveCalls(c))
       \/ Write(FileAttach(c, NewId), SqlAttach(c, NewId))
       \/ \E m \in {<<"user", "hello">>, <<"assistant", Missing>>} :
            \/ Write(FileAppend(c, m[1], m[2]), SqlAppend(c, m[1], m[2]))
            \/ Write(FileGuardAppend(c, m[1], m[2]), SqlGuardAppend(c, m[1], m[2]))
  \/ \E c \in Conv \cup {Null}, e \in Called : Write(FileAppendCall(c, e), SqlAppendCall(c, e))
-----------------------------------------------------------------------------
Days == 0..2
Limits == 0..2

\* Both show an account the same conversations in the same order, and give the
\* same one, or none, to who asks for one of his own.
SameConversations ==
  \A a \in Owner :
    /\ Ids(FileListByAccount(a)) = Ids(SqlListByAccount(a))
    /\ \A c \in Conv : /\ {r.title : r \in FileOwned(c, a)} = {r.title : r \in SqlOwned(c, a)}
                       /\ (FileConv(c) = {}) = (SqlConv(c) = {})

\* Both read back the same messages: whole, the newest of the roles asked for,
\* their number, and the history the model is sent, text by text.
SameMessages ==
  \A c \in Conv :
    /\ FileHistory(c) = SqlHistory(c)
    /\ \A n \in Limits :
         /\ Ids(FileList(c, n)) = Ids(SqlList(c, n))
         /\ \A roles \in SUBSET Role : Ids(FileRecent(c, n, roles)) = Ids(SqlRecent(c, n, roles))
    /\ \A role \in Role \cup {Null} : FileCount(c, role) = SqlCount(c, role)

\* Both read back the same tool calls and count the same failures; of the
\* calls of no conversation the database reports only those numbered 0 or less,
\* the file those without a number too.
SameCalls ==
  /\ \A c \in Conv : /\ \A n \in Limits :
                          /\ Ids(FileCallList(c, n)) = Ids(SqlCallList(c, n))
                          /\ Ids(FileCallRecent(c, n)) = Ids(SqlCallRecent(c, n))
                          /\ Ids(FileTrace(c, n)) = Ids(SqlTrace(c, n))
                     /\ \A d \in Days, tools \in SUBSET ToolName :
                          FileCountByTool(c, tools, d) = SqlCountByTool(c, tools, d)
  /\ \A d \in Days :
       LET f == FileTotals(d)
           s == SqlTotals(d)
           nobodys == {r \in file.call : r.conv = Null /\ Recent(r, DaysOf(d))}
       IN /\ f.calls = s.calls /\ f.fails = s.fails
          /\ f.probes = s.probes + Cardinality(nobodys)
          /\ FileFailByCode(d) = SqlFailByCode(d)
          /\ FileFailByTool(d) = SqlFailByTool(d)

\* Whichever medium a server runs on, callers are told the same of
\* conversations, messages and tool calls.
ChatsSame == SameAnswer /\ SameConversations /\ SameMessages /\ SameCalls
-----------------------------------------------------------------------------
Login == {"s", "t"}             \* tokens of sessions
Setting == {"k", "l"}
Key == {"i", "j"}               \* idempotency keys
Hash == {"h", "g"}              \* fingerprints of requests
Client == 1..2                  \* accounts that deliver
Refused == "ER_DUP_ENTRY"
-----------------------------------------------------------------------------
(* accounts: a name is taken whatever the case it is written in            *)

\* Mutant: the name is compared as it is typed.
FileByName_Exact(n) == {r \in file["account"] : r.name = n}
FileByName(n) == {r \in file["account"] : Fold(r.name) = Fold(n)}
SqlByName(n) == {r \in base["account"] : Fold(r.name) = Fold(n)}

RoleOf(role) == IF role = Missing THEN "user" ELSE role
FileNewAccount(n, role) ==
  IF FileByName(n) # {} THEN Answer(file, Refused)
  ELSE Answer([file EXCEPT !["account"] = @ \cup {[id |-> NewId, name |-> n, role |-> RoleOf(role)]}],
              NewId)
SqlNewAccount(n, role) ==
  IF SqlByName(n) # {} THEN Answer(base, Refused)
  ELSE Answer([base EXCEPT !["account"] = @ \cup {[id |-> NewId, name |-> n, role |-> RoleOf(role)]}],
              NewId)
-----------------------------------------------------------------------------
(* sessions: the medium reckons when one is over                           *)

FileLogIn(tok, a, d) ==
  IF \E r \in file["session"] : r.token = tok THEN Answer(file, Refused)
  ELSE Answer([file EXCEPT !["session"] = @ \cup {[token |-> tok, account |-> a, over |-> today + d]}], 0)
SqlLogIn(tok, a, d) ==
  IF \E r \in base["session"] : r.token = tok THEN Answer(base, Refused)
  ELSE Answer([base EXCEPT !["session"] = @ \cup {[token |-> tok, account |-> a, over |-> today + d]}], 0)
FileLogOut(tok) == Answer([file EXCEPT !["session"] = {r \in @ : r.token # tok}], 0)
SqlLogOut(tok)  == Answer([base EXCEPT !["session"] = {r \in @ : r.token # tok}], 0)

\* findValid: the account of a session that is not over, and of no other.
FileFindValid(tok) ==
  {r \in file["account"] : \E s \in file["session"] :
     s.token = tok /\ s.over > today /\ s.account = r.id}
SqlFindValid(tok) ==
  {r \in base["account"] : \E s \in base["session"] :
     s.token = tok /\ s.account = r.id /\ s.over > today}
-----------------------------------------------------------------------------
(* settings: one value for a key, the last                                 *)

FileSet(k, v) ==
  Answer([file EXCEPT !["setting"] = {r \in @ : r.key # k} \cup {[key |-> k, value |-> v]}], 0)
SqlSet(k, v) ==
  IF \E r \in base["setting"] : r.key = k
  THEN Answer([base EXCEPT !["setting"] = {IF r.key = k THEN [r EXCEPT !.value = v] ELSE r : r \in @}], 0)
  ELSE Answer([base EXCEPT !["setting"] = @ \cup {[key |-> k, value |-> v]}], 0)
FileGetMany(keys) == {<<r.key, r.value>> : r \in {x \in file["setting"] : x.key \in keys}}
SqlGetMany(keys) == {<<r.key, r.value>> : r \in {x \in base["setting"] : x.key \in keys}}
-----------------------------------------------------------------------------
(* deliveries: one row for an account's key                                *)

DeliveryRow(a, k, h) == [id |-> NewId, account |-> a, key |-> k, hash |-> h, state |-> "running",
                         attempts |-> 1]
FileByKey(a, k) == {r \in file["delivery"] : r.account = a /\ r.key = k}
SqlByKey(a, k) == {r \in base["delivery"] : r.account = a /\ SqlEq(r.key, k)}

\* insert: the database's row without a key has no fingerprint either.
FileInsert(a, k, h) ==
  IF k # Null /\ FileByKey(a, k) # {} THEN Answer(file, Refused)
  ELSE Answer([file EXCEPT !["delivery"] = @ \cup {DeliveryRow(a, k, h)}], NewId)
SqlInsert(a, k, h) ==
  IF SqlByKey(a, k) # {} THEN Answer(base, Refused)
  ELSE Answer([base EXCEPT !["delivery"] = @ \cup {DeliveryRow(a, k, IF k = Null THEN Null ELSE h)}],
              NewId)

\* claimRetry: a failed one is taken up again, once.
Claimed(r, h) == [r EXCEPT !.state = "running", !.attempts = @ + 1, !.hash = IF h = Null THEN @ ELSE h]
FileClaim(i, h) ==
  LET fits == {r \in file["delivery"] : r.id = i /\ r.state = "failed"} IN
  Answer([file EXCEPT !["delivery"] = Patched(@, LAMBDA r : r \in fits, LAMBDA r : Claimed(r, h))],
         fits # {})
SqlClaim(i, h) ==
  LET fits == {r \in base["delivery"] : r.id = i /\ r.state = "failed"} IN
  Answer([base EXCEPT !["delivery"] = Patched(@, LAMBDA r : r \in fits, LAMBDA r : Claimed(r, h))],
         fits # {})
FileFinish(i, st) ==
  Answer([file EXCEPT !["delivery"] = Patched(@, LAMBDA r : r.id = i, LAMBDA r : [r EXCEPT !.state = st])], 0)
SqlFinish(i, st) ==
  Answer([base EXCEPT !["delivery"] = Patched(@, LAMBDA r : r.id = i, LAMBDA r : [r EXCEPT !.state = st])], 0)

\* Mutant: the window first and the account after it.
FileDeliveries_Late(st, n, a) ==
  SelectSeq(Slice(SetToSortSeq({r \in file["delivery"] : st = Null \/ r.state = st},
                               LAMBDA x, y : x.id > y.id), n),
            LAMBDA r : a = Null \/ r.account = a)
\* list: the newest of an account, or of all, in a state, or in any.
FileDeliveries(st, n, a) ==
  Slice(SetToSortSeq({r \in file["delivery"] : (st = Null \/ r.state = st) /\ (a = Null \/ r.account = a)},
                     LAMBDA x, y : x.id > y.id), n)
SqlDeliveries(st, n, a) ==
  Limit(Descending({r \in base["delivery"] : (st = Null \/ r.state = st) /\ (a = Null \/ SqlEq(r.account, a))}),
        n)
-----------------------------------------------------------------------------
Ending == {"completed", "failed"}
LoginNext ==
  \/ Midnight
  \/ \E n \in Name, role \in {Missing, "admin"} : Write(FileNewAccount(n, role), SqlNewAccount(n, role))
  \/ \E tok \in Login :
       \/ \E r \in file["account"] : Write(FileLogIn(tok, r.id, 1), SqlLogIn(tok, r.id, 1))
       \/ Write(FileLogOut(tok), SqlLogOut(tok))
  \/ \E k \in Setting, v \in {0, 1} : Write(FileSet(k, v), SqlSet(k, v))
DeliveryNext ==
  \/ \E a \in Client, k \in Key \cup {Null}, h \in Hash : Write(FileInsert(a, k, h), SqlInsert(a, k, h))
  \/ \E i \in 1..writes :
       \/ \E h \in {Null} \cup Hash : Write(FileClaim(i, h), SqlClaim(i, h))
       \/ \E st \in Ending : Write(FileFinish(i, st), SqlFinish(i, st))
-----------------------------------------------------------------------------
\* Whichever medium a server runs on, the same names are taken, the same
\* sessions let in to the same account, and the same settings are read.
LoginsSame ==
  /\ SameAnswer
  /\ \A n \in Name : {<<r.id, r.role>> : r \in FileByName(n)} = {<<r.id, r.role>> : r \in SqlByName(n)}
  /\ \A n \in Name : Cardinality(FileByName(n)) <= 1
  /\ \A tok \in Login : {r.id : r \in FileFindValid(tok)} = {r.id : r \in SqlFindValid(tok)}
  /\ \A keys \in SUBSET Setting : FileGetMany(keys) = SqlGetMany(keys)

\* The same requests find their record, with the same fingerprint and number of
\* attempts, and the same records are listed for an account.
DeliveriesSame ==
  /\ SameAnswer
  /\ \A a \in Client, k \in Key : FileByKey(a, k) = SqlByKey(a, k) /\ Cardinality(FileByKey(a, k)) <= 1
  /\ \A st \in Ending \cup {Null, "running"}, n \in 0..2, a \in Client \cup {Null} :
       Ids(FileDeliveries(st, n, a)) = Ids(SqlDeliveries(st, n, a))
=============================================================================
