----------------------------- MODULE Credentials -----------------------------
(***************************************************************************)
(* The keys the servers of tools are started with.  They are settings      *)
(* (mcp_servers[].env): in plain text, or as a reference to a document of  *)
(* credentials (server/credentials.js) to which a script moves them        *)
(* (scripts/migrate-c18.mjs) and in which another one changes them         *)
(* (scripts/rw-cred-rotate.mjs).  The settings page shows a placeholder    *)
(* for them (server/index.js).  The scripts are processes of their own and *)
(* nothing keeps them, or two saves of the page, apart; what each did      *)
(* while another was at work is remembered in "raced".                     *)
(* A document that is malformed or that others may read stops what needs   *)
(* it, which is one of the failures of a write below.                      *)
(***************************************************************************)
EXTENDS Naturals

CONSTANTS
  Servers,       \* ids of servers of tools
  Keys,          \* names of their variables that look like keys
  Plain,         \* texts of keys
  Nothing,       \* no value
  BlankText,     \* the empty string
  Ref,           \* in the settings: the credential of the variable's own name
  Placeholder,   \* what the page shows for a key
  Env, DotEnv,   \* [Keys -> Plain \cup {Nothing}], what the shell and .env provide
  Documents, Settings, \* what the document and the settings may hold at first
  Admins,        \* pages open at a time
  MaxMoves, MaxChanges, \* bounds on starts of the one script and the other
  MaxSends,      \* bound on saves of the page
  MaxFailures    \* bound on failures

VARIABLES
  document,      \* [Keys -> text]: the lines of .credentials.yaml
  settings,      \* [Servers -> [Keys -> text]]
  migration,     \* the script that moves the keys
  rotation,      \* the script that changes one
  page,          \* what a page shows, once it is open
  saving,        \* what a save is about to write
  rotated,       \* history: the text each key was last changed to
  raced,         \* history: what was written while someone had read it before
  gone,          \* history: the variables a write of the settings took away
  counts         \* starts, saves and failures so far

credentialVars == <<document, settings, migration, rotation, page, saving, rotated,
                    raced, gone, counts>>

\* getSecret: the environment, the document, .env; an empty line is none.
Secret(k) ==
  CASE Env[k] # Nothing -> Env[k]
    [] Env[k] = Nothing /\ document[k] \notin {Nothing, BlankText} -> document[k]
    [] OTHER -> DotEnv[k]
\* resolveEnvValue: a reference must resolve; where a credential has the name of
\* the variable, it counts and not what the settings say.
Resolved(s, k) ==
  IF settings[s][k] # Ref /\ Secret(k) = Nothing THEN settings[s][k] ELSE Secret(k)

Text == Plain \cup {Nothing, BlankText, Placeholder}
Settled == [Servers -> [Keys -> Text \cup {Ref}]]
NoMigration == [at |-> "none"]
NoRotation == [at |-> "none"]

CredentialsInit ==
  /\ document \in Documents /\ settings \in Settings
  /\ migration = NoMigration /\ rotation = NoRotation
  /\ page = [a \in Admins |-> Nothing] /\ saving = [a \in Admins |-> Nothing]
  /\ rotated = [k \in Keys |-> Nothing] /\ raced = {} /\ gone = {}
  /\ counts = [moves |-> 0, changes |-> 0, saves |-> 0, failures |-> 0]

Counted(what, bound) == counts[what] < bound /\ counts' = [counts EXCEPT ![what] = @ + 1]
-----------------------------------------------------------------------------
(* migrateMcpSecrets                                                       *)

ReadSettings ==
  /\ migration = NoMigration /\ Counted("moves", MaxMoves)
  /\ migration' = [at |-> "read", next |-> settings]
  /\ UNCHANGED <<document, settings, rotation, page, saving, rotated, raced, gone>>

ReadDocument ==
  /\ migration.at = "read"
  /\ migration' = [at |-> "walk", next |-> migration.next, store |-> document,
                   todo |-> Servers \X Keys, changed |-> FALSE]
  /\ UNCHANGED <<document, settings, rotation, page, saving, rotated, raced, gone, counts>>

\* What becomes of a variable: a reference counts as done, and so does one the
\* document had a line for when it was read, be it an empty one.
Referred(m, s, k) == [m EXCEPT !.next[s][k] = Ref, !.todo = @ \ {<<s, k>>}, !.changed = TRUE]
Passed(m, s, k) == [m EXCEPT !.todo = @ \ {<<s, k>>}]
Done(m, s, k) == m.next[s][k] = Ref \/ (m.next[s][k] # Nothing /\ m.store[k] # Nothing)
\* setSecret refuses an empty text, and a key the environment provides.
Refused(m, s, k) == ~Done(m, s, k) /\ (m.next[s][k] \in {Nothing, BlankText} \/ Env[k] # Nothing)

VisitVariable ==
  /\ migration.at = "walk"
  /\ \E s \in Servers, k \in Keys :
       /\ <<s, k>> \in migration.todo
       /\ migration' =
            CASE Done(migration, s, k) -> Referred(migration, s, k)
              [] Refused(migration, s, k) -> Passed(migration, s, k)
              [] OTHER -> [at |-> "write", walk |-> migration, s |-> s, k |-> k, held |-> document]
  /\ UNCHANGED <<document, settings, rotation, page, saving, rotated, raced, gone, counts>>

\* writeStore: the whole document as it was read, with one line more, by a
\* rename; if that fails the variable stays as it is.
MoveKey ==
  /\ migration.at = "write"
  /\ LET m == migration.walk  s == migration.s  k == migration.k IN
     \/ /\ document' = [migration.held EXCEPT ![k] = m.next[s][k]]
        /\ migration' = Referred([m EXCEPT !.store[k] = m.next[s][k]], s, k)
        /\ raced' = raced \cup IF rotation.at = "write" THEN {"document"} ELSE {}
        /\ UNCHANGED counts
     \/ /\ Counted("failures", MaxFailures)
        /\ migration' = Passed(m, s, k) /\ UNCHANGED <<document, raced>>
  /\ UNCHANGED <<settings, rotation, page, saving, rotated, gone>>

\* What is written to the settings replaces them whole.
Replaced(next) ==
  /\ settings' = next
  /\ gone' = gone \cup {c \in Servers \X Keys : next[c[1]][c[2]] = Nothing
                                                /\ settings[c[1]][c[2]] # Nothing}
\* The settings as they were read, with the references; nothing if there is none.
WriteSettings ==
  /\ migration.at = "walk" /\ migration.todo = {}
  /\ Replaced(IF migration.changed THEN migration.next ELSE settings)
  /\ migration' = NoMigration
  /\ raced' = raced \cup IF \E a \in Admins : saving[a] # Nothing THEN {"settings"} ELSE {}
  /\ UNCHANGED <<document, rotation, page, saving, rotated, counts>>
\* It is killed, or the database does not answer.
MigrationEnds ==
  /\ migration # NoMigration /\ Counted("failures", MaxFailures)
  /\ migration' = NoMigration
  /\ UNCHANGED <<document, settings, rotation, page, saving, rotated, raced, gone>>
-----------------------------------------------------------------------------
(* rotateSecret                                                            *)

\* setSecret again: an empty text and a key of the environment are refused.
StartRotation ==
  /\ rotation = NoRotation /\ Counted("changes", MaxChanges)
  /\ \E k \in Keys, v \in Plain :
       Env[k] = Nothing /\ rotation' = [at |-> "write", k |-> k, text |-> v, held |-> document]
  /\ UNCHANGED <<document, settings, migration, page, saving, rotated, raced, gone>>
\* A migration that has read the document and found no line of k, or is about
\* to write what it read.
Ahead(k) == migration.at = "write" \/ (migration.at = "walk" /\ migration.store[k] = Nothing)
\* The ledger line that follows may fail and changes nothing.
ChangeKey ==
  /\ rotation.at = "write"
  /\ document' = [rotation.held EXCEPT ![rotation.k] = rotation.text]
  /\ rotated' = [rotated EXCEPT ![rotation.k] = rotation.text]
  /\ rotation' = NoRotation
  /\ raced' = raced \cup IF Ahead(rotation.k) THEN {"document"} ELSE {}
  /\ UNCHANGED <<settings, migration, page, saving, gone, counts>>
RotationFails ==
  /\ rotation # NoRotation /\ Counted("failures", MaxFailures)
  /\ rotation' = NoRotation
  /\ UNCHANGED <<document, settings, migration, page, saving, rotated, raced, gone>>
-----------------------------------------------------------------------------
(* the settings page                                                       *)

\* redactMcpServers
Shown(text) == IF text \in {Nothing, BlankText} THEN text ELSE Placeholder
OpenPage(a) ==
  /\ page[a] = Nothing
  /\ page' = [page EXCEPT ![a] = [s \in Servers |-> [k \in Keys |-> Shown(settings[s][k])]]]
  /\ UNCHANGED <<document, settings, migration, rotation, saving, rotated, raced, gone, counts>>

\* What the page sends: a variable edited or taken away, or a server renamed.
Edited(shown, s, k, text) == [shown EXCEPT ![s][k] = text]
Renamed(shown, s, t) == [shown EXCEPT ![t] = shown[s], ![s] = [k \in Keys |-> Nothing]]
Forms(shown) ==
  {Edited(shown, s, k, text) : s \in Servers, k \in Keys, text \in Plain \cup {Nothing}}
  \cup {Renamed(shown, s, t) : s \in Servers,
                               t \in {u \in Servers : \A k \in Keys : shown[u][k] = Nothing}}

\* unredactMcpServers: a placeholder stands for what the server of that id has
\* in the settings as they are now, which are written a moment later.
Unredacted(form) ==
  [s \in Servers |-> [k \in Keys |->
     IF form[s][k] = Placeholder /\ settings[s][k] # Nothing THEN settings[s][k] ELSE form[s][k]]]
SendPage(a) ==
  /\ page[a] # Nothing /\ saving[a] = Nothing /\ Counted("saves", MaxSends)
  /\ \E form \in Forms(page[a]) : saving' = [saving EXCEPT ![a] = Unredacted(form)]
  /\ page' = [page EXCEPT ![a] = Nothing]
  /\ UNCHANGED <<document, settings, migration, rotation, rotated, raced, gone>>
SavePage(a) ==
  /\ saving[a] # Nothing
  /\ Replaced(saving[a]) /\ saving' = [saving EXCEPT ![a] = Nothing]
  /\ raced' = raced \cup IF migration # NoMigration \/ \E b \in Admins \ {a} : saving[b] # Nothing
                         THEN {"settings"} ELSE {}
  /\ UNCHANGED <<document, migration, rotation, page, rotated, counts>>
-----------------------------------------------------------------------------
CredentialsNext ==
  \/ ReadSettings \/ ReadDocument \/ VisitVariable \/ MoveKey \/ WriteSettings \/ MigrationEnds
  \/ StartRotation \/ ChangeKey \/ RotationFails
  \/ \E a \in Admins : OpenPage(a) \/ SendPage(a) \/ SavePage(a)
CredentialsSpec == CredentialsInit /\ [][CredentialsNext]_credentialVars

CredentialsTypeOK ==
  /\ document \in [Keys -> Text] /\ settings \in Settled
  /\ migration.at \in {"none", "read", "walk", "write"} /\ rotation.at \in {"none", "write"}
  /\ \A a \in Admins : page[a] # Nothing => page[a] \in Settled
  /\ \A a \in Admins : saving[a] # Nothing => saving[a] \in Settled
  /\ rotated \in [Keys -> Plain \cup {Nothing}] /\ raced \subseteq {"document", "settings"}

\* Whenever a start looks, each reference leads to a key (credentials.js:313-345):
\* unless the two scripts wrote the document at one time, and but for a line that
\* is there and empty.
RefsResolve ==
  "document" \notin raced =>
    \A s \in Servers, k \in Keys :
      settings[s][k] = Ref /\ document[k] # BlankText => Secret(k) # Nothing

\* A key that was changed stays changed: what a later migration finds in the
\* settings does not take its place (credentials.js:324), unless both ran at once.
RotationStands ==
  "document" \notin raced =>
    \A k \in Keys : rotated[k] # Nothing => document[k] = rotated[k]

\* The placeholder is saved for a key only where a write took the variable away
\* that a page still showed, or in renaming its server (server/index.js:1939).
PlaceholderIsOfGone ==
  \A s \in Servers, k \in Keys :
    settings[s][k] = Placeholder => \E t \in Servers : <<t, k>> \in gone

\* What every state of the keys satisfies: the parts above.
KeysSafe == CredentialsTypeOK /\ RefsResolve /\ RotationStands /\ PlaceholderIsOfGone

\* The migration gives a server another key than before only where it writes a
\* key .env has another text for, or one two servers had two texts for; what it
\* writes to the settings changes the key of none (credentials.js:322-327).
KeyKept(s, k) ==
  \/ Resolved(s, k)' = Resolved(s, k) \/ document[k] = BlankText
  \/ /\ MoveKey /\ document'[k] # document[k]
     /\ DotEnv[k] # Nothing \/ \E t \in Servers : settings[t][k] \notin {Nothing, settings[s][k]}
KeysKept ==
  (ReadDocument \/ VisitVariable \/ MoveKey \/ WriteSettings) /\ raced' = {}
    => \A s \in Servers, k \in Keys : KeyKept(s, k)
=============================================================================
