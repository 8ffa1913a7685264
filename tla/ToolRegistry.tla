---------------------------- MODULE ToolRegistry -----------------------------
(***************************************************************************)
(* The tools a server offers (server/tools/registry.js): the built-in ones *)
(* the manifest lists (tools/manifest.js), which is read again when its    *)
(* file changes, and the ones registered from outside, by the servers of   *)
(* tools and by the HTTP connectors (server/connectors.js).                *)
(* The entries of built-in tools are objects the tool list refers to:      *)
(* what a refused manifest wrote on them would be seen by the next call.   *)
(* No implementation writes a permission or a time limit of its own.       *)
(***************************************************************************)
EXTENDS Naturals, Sequences, SequencesExt, FiniteSets

CONSTANTS
  BuiltIn,       \* the names of the implementations, in their order
  Manifests,     \* the versions of the manifest file
  FirstManifest, \* the one the server was delivered with
  Unreadable,    \* a version that does not parse or exports no manifest
  NoTable,       \* the permissions of a version that exports none
  Undeclared,    \* no permission, no time limit
  SourceIds,     \* the sources from outside, in the order of their ids
  HttpLists,     \* versions of settings.connectors: sequences of [source, names, fault]
  ServerTools,   \* what the connected servers of tools may list, all together
  MaxSaves,      \* bound on edits of the manifest, the settings, credentials
  MaxPasses,     \* bound on passes over the connectors
  MaxStops       \* bound on restarts

VARIABLES
  manifest,      \* what manifest.js holds
  touched,       \* its watcher has heard of a change
  imported,      \* versions imported and not applied yet
  active,        \* activeManifest and activePermissions
  entry,         \* the implementations as the registry left them
  policy,        \* TOOL_POLICY, by the names of MANIFEST_NAMES
  sources,       \* dynamicSources
  tools,         \* TOOLS
  up,            \* the server runs
  connectors,    \* settings.connectors
  keys,          \* the connectors whose credential is configured
  reading,       \* lists of connectors read and not applied yet
  applied,       \* history: the connectors of the list applied last
  used           \* saves, passes and restarts so far

registryVars == <<manifest, touched, imported, active, entry, policy, sources, tools, up,
                  connectors, keys, reading, applied, used>>

Names == Range(BuiltIn)
Ids == Range(SourceIds)
PermissionLevels == {"read", "write", "full", "global"}

\* A row of TOOL_MANIFEST: the tool is in force or switched off, with a time limit
\* or without, and with a field that is wrong ("field"), one that denies that the
\* tool is part of the prefix ("prefix"), or neither.
Row(r) == r.on \in BOOLEAN /\ r.fault \in {"none", "field", "prefix"} /\ r.limit \in Nat \cup {Undeclared}
\* TOOL_PERMISSIONS: a level for each tool, or for some, or anything.
Table(text) == text.table = NoTable \/ DOMAIN text.table \subseteq Names \cup DOMAIN text.rows

\* ENABLED: a row counts unless it is switched off.
Enabled(text) == {n \in DOMAIN text.rows : text.rows[n].on}
Grant(text, n) == IF text.table # NoTable /\ n \in DOMAIN text.table THEN text.table[n] ELSE Undeclared

\* validateManifest: the rows whose own fields are wrong.
BadFields(text) == {n \in Enabled(text) : text.rows[n].fault = "field"}

\* refillDerived
Derived(text) ==
  [n \in Enabled(text) |-> [permission |-> Grant(text, n), limit |-> text.rows[n].limit]]

\* assembleStatic, its first pass: what is declared is written on the entries.
Attached(text, entries) ==
  [n \in Names |-> IF n \in Enabled(text)
                   THEN [permission |-> Grant(text, n), limit |-> text.rows[n].limit]
                   ELSE entries[n]]
\* entryProblems, after that pass: every implementation, listed or not, is asked
\* for its permission.
NoPermission(entries) == {n \in Names : entries[n].permission = Undeclared}
\* Rows of tools there is no implementation of, rows that say a tool is not part
\* of the prefix of a request, which every tool that is loaded is.
Untrue(text) == (Enabled(text) \ Names) \cup {n \in Enabled(text) : text.rows[n].fault = "prefix"}
\* validatePermissions: of the tools that are loaded each is granted a level.
NotGranted(text) == {n \in Enabled(text) \cap Names : Grant(text, n) \notin PermissionLevels}
Problems(text, entries) == NoPermission(entries) \cup Untrue(text) \cup NotGranted(text)
Assembles(text, entries) == Problems(text, Attached(text, entries)) = {}

\* combine: the built-in tools in their order, then the sources by their ids.
External(srcs) == FlattenSeq([i \in DOMAIN SourceIds |-> srcs[SourceIds[i]]])
Combined(text, srcs) == SelectSeq(BuiltIn, LAMBDA n : n \in Enabled(text)) \o External(srcs)

Raw == [n \in Names |-> [permission |-> Undeclared, limit |-> Undeclared]]
Nowhere == [s \in Ids |-> <<>>]

RegistryInit ==
  /\ manifest = FirstManifest /\ touched = FALSE /\ imported = {} /\ up = TRUE
  /\ active = FirstManifest /\ policy = Derived(FirstManifest)
  /\ entry = Attached(FirstManifest, Raw) /\ sources = Nowhere
  /\ tools = Combined(FirstManifest, Nowhere)
  /\ connectors = <<>> /\ keys = Ids \ {"mcp"} /\ reading = {} /\ applied = {}
  /\ used = [saves |-> 0, passes |-> 0, stops |-> 0]

Use(k, bound) == used[k] < bound /\ used' = [used EXCEPT ![k] = @ + 1]
-----------------------------------------------------------------------------
(* the manifest                                                            *)

\* The file changes; the change is heard of, and acted on a moment later.
SaveManifest ==
  /\ Use("saves", MaxSaves)
  /\ \E text \in Manifests \ {manifest} : manifest' = text
  /\ touched' = up
  /\ UNCHANGED <<imported, active, entry, policy, sources, tools, up, connectors, keys,
                 reading, applied>>

\* reloadManifest, the import: what it reads is applied when it has resolved.
ImportManifest ==
  /\ touched /\ touched' = FALSE
  /\ imported' = imported \cup ({manifest} \ {Unreadable})
  /\ UNCHANGED <<manifest, active, entry, policy, sources, tools, up, connectors, keys,
                 reading, applied, used>>

\* The version in force when this one comes with no table of permissions.
Complete(text) == IF text.table = NoTable THEN [text EXCEPT !.table = active.table] ELSE text

\* Mutant: what the refused version wrote on the entries stays there.
RolledBack_Left(next) ==
  /\ entry' = Attached(next, entry)
  /\ UNCHANGED <<active, policy, tools>>
\* The catch: the derived tables are filled and the entries written again from
\* the version that was in force; the catch itself may throw.
Tried(next) == IF BadFields(next) # {} THEN entry ELSE Attached(next, entry)
RolledBack(next) ==
  /\ entry' = Attached(active, Tried(next))
  /\ policy' = Derived(active)
  /\ tools' = IF Assembles(active, Tried(next)) THEN Combined(active, sources) ELSE tools
  /\ UNCHANGED active
\* reloadManifest, the rest, in one go.
ApplyManifest ==
  /\ \E text \in imported :
       LET next == Complete(text) IN
       /\ imported' = imported \ {text}
       /\ \/ /\ BadFields(next) = {} /\ Assembles(next, entry)
             /\ active' = next /\ policy' = Derived(next) /\ entry' = Attached(next, entry)
             /\ tools' = Combined(next, sources)
          \/ /\ BadFields(next) # {} \/ ~Assembles(next, entry)
             /\ RolledBack(next)
  /\ UNCHANGED <<manifest, touched, sources, up, connectors, keys, reading, applied, used>>
-----------------------------------------------------------------------------
(* the sources from outside                                                *)

\* registerDynamicTools: all of a source or nothing, no name twice, none that
\* a loaded built-in tool or another source has.
Clashes_OwnOnly(srcs, id, names) == \E i, j \in DOMAIN names : i # j /\ names[i] = names[j]
Clashes(srcs, id, names) ==
  \/ \E i, j \in DOMAIN names : i # j /\ names[i] = names[j]
  \/ \E n \in Range(names) : \/ n \in Names \cap DOMAIN policy
                             \/ \E s \in Ids \ {id} : n \in Range(srcs[s])
Registered(srcs, id, names) ==
  IF Clashes(srcs, id, names) THEN srcs ELSE [srcs EXCEPT ![id] = names]

\* rebuild: the tools are put together again, the entries written again, unless
\* the version in force no longer assembles: then the list stays as it was.
Sound == Assembles(active, entry)
Rebuilt(srcs) ==
  /\ sources' = srcs /\ entry' = Attached(active, entry)
  /\ tools' = IF Sound THEN Combined(active, srcs) ELSE tools

\* syncMcpTools: whatever the servers connected now list; a server that lists
\* a name twice is an error before anything is registered.
SyncServers ==
  /\ up /\ Use("passes", MaxPasses)
  /\ \E names \in ServerTools : Rebuilt(Registered(sources, "mcp", names))
  /\ UNCHANGED <<manifest, touched, imported, active, policy, up, connectors, keys, reading,
                 applied>>

\* validateConnectors: one that is declared twice, offers nothing or an action
\* twice, or is wrong in another field makes the whole list invalid.
IdsOf(list) == {list[i].source : i \in DOMAIN list}
Valid(list) ==
  /\ \A i, j \in DOMAIN list : i # j => list[i].source # list[j].source
  /\ \A i \in DOMAIN list : /\ list[i].fault = "none" /\ list[i].names # <<>>
                            /\ IsInjective(list[i].names)

\* connectConfiguredConnectors reads the list, which throws if it is not valid,
\* and connects the servers of tools in it, which takes a while; then it goes
\* through the HTTP ones in one go: one whose credential is missing loses its
\* tools, and so does one not listed.  A rebuild that throws ends it there.
ReadConnectors ==
  /\ up /\ Use("passes", MaxPasses) /\ Valid(connectors)
  /\ reading' = reading \cup {connectors}
  /\ UNCHANGED <<manifest, touched, imported, active, entry, policy, sources, tools, up,
                 connectors, keys, applied>>
\* Mutant: what is not listed is left alone.
Unlisted_Kept(list) == <<>>
Unlisted(list) ==
  LET gone == SelectSeq(SourceIds, LAMBDA s : s # "mcp" /\ s \notin IdsOf(list))
  IN [i \in DOMAIN gone |-> [source |-> gone[i], names |-> <<>>]]
\* One connector: its tools are registered, refused or taken back.
Visit(acc, c) ==
  LET has == c.source \in keys /\ c.names # <<>>
      next == IF has THEN Registered(acc.srcs, c.source, c.names) ELSE [acc.srcs EXCEPT ![c.source] = <<>>]
      rebuilds == IF has THEN ~Clashes(acc.srcs, c.source, c.names) ELSE acc.srcs[c.source] # <<>>
  IN IF acc.over THEN acc ELSE [srcs |-> next, over |-> ~Sound /\ rebuilds]
ApplyConnectors ==
  /\ \E list \in reading :
       LET end == FoldLeft(Visit, [srcs |-> sources, over |-> FALSE], list \o Unlisted(list)) IN
       /\ reading' = reading \ {list} /\ Rebuilt(end.srcs)
       /\ applied' = IdsOf(list) \cup (IF end.over THEN applied ELSE {})
  /\ UNCHANGED <<manifest, touched, imported, active, policy, up, connectors, keys, used>>

EditConnectors ==
  /\ Use("saves", MaxSaves)
  /\ \/ \E list \in HttpLists \ {connectors} : connectors' = list /\ UNCHANGED keys
     \/ \E c \in Ids \ {"mcp"} : keys' = (keys \ {c}) \cup ({c} \ keys) /\ UNCHANGED connectors
  /\ UNCHANGED <<manifest, touched, imported, active, entry, policy, sources, tools, up,
                 reading, applied>>
-----------------------------------------------------------------------------
\* The process ends, and with it all but the files and the settings.
StopServer ==
  /\ up /\ Use("stops", MaxStops) /\ up' = FALSE
  /\ touched' = FALSE /\ imported' = {} /\ reading' = {} /\ applied' = {}
  /\ entry' = Raw /\ sources' = Nowhere /\ tools' = <<>>
  /\ UNCHANGED <<manifest, active, policy, connectors, keys>>
\* It starts when the manifest of the day loads: unlike a reload, a start has no
\* entries of before, so every implementation must be listed.
Boots(text) ==
  /\ text # Unreadable /\ text.table # NoTable
  /\ BadFields(text) = {} /\ Assembles(text, Raw)
StartServer ==
  /\ ~up /\ Boots(manifest) /\ up' = TRUE
  /\ active' = manifest /\ policy' = Derived(manifest) /\ entry' = Attached(manifest, Raw)
  /\ tools' = Combined(manifest, Nowhere)
  /\ UNCHANGED <<manifest, touched, imported, sources, connectors, keys, reading, applied, used>>

RegistryTypeOK ==
  /\ manifest \in Manifests /\ touched \in BOOLEAN /\ up \in BOOLEAN
  /\ imported \subseteq Manifests \ {Unreadable}
  /\ \A text \in imported \cup {active} : \A n \in DOMAIN text.rows : Row(text.rows[n])
  /\ \A text \in imported \cup {active} : Table(text)
  /\ connectors \in HttpLists /\ reading \subseteq HttpLists
  /\ keys \subseteq Ids /\ applied \subseteq Ids
  /\ DOMAIN entry = Names /\ DOMAIN sources = Ids

RegistryNext ==
  \/ SaveManifest \/ ImportManifest \/ ApplyManifest
  \/ SyncServers \/ ReadConnectors \/ ApplyConnectors \/ EditConnectors
  \/ StopServer \/ StartServer
RegistrySpec == RegistryInit /\ [][RegistryNext]_registryVars
-----------------------------------------------------------------------------
\* The tools offered are those of the version in force and of the sources, each
\* built-in one with the permission and the limit that version declares:
\* nothing is left of a version that was refused (registry.js:428-436).  Only a
\* version in force that no longer assembles keeps the tools from following.
FaceInForce ==
  up => /\ policy = Derived(active) /\ Enabled(active) \subseteq Names
        /\ \A n \in Enabled(active) : entry[n] = policy[n]
        /\ Sound => tools = Combined(active, sources)

\* What a reload leaves loads again, but for one thing: a version that lists again
\* a tool no longer in force and declares no permission for it takes from its
\* entry the permission a start once wrote (registry.js:334).
CanGoBack ==
  up => /\ BadFields(active) = {}
        /\ Sound \/ \E n \in Names \ Enabled(active) : entry[n].permission = Undeclared

\* In any case the built-in tools offered are those of the version in force, and
\* no name is offered twice (registry.js:284-289).
BuiltInAsDeclared ==
  up => /\ SelectSeq(tools, LAMBDA n : n \in Names) = Combined(active, Nowhere)
        /\ IsInjective(tools)

\* A connector the list applied last does not name has no tools (connectors.js:304).
UnlistedIsGone == \A s \in Ids \ {"mcp"} : sources[s] # <<>> => s \in applied

\* What every state of the registry satisfies: the parts above.
ToolFaceSafe == RegistryTypeOK /\ FaceInForce /\ CanGoBack /\ BuiltInAsDeclared /\ UnlistedIsGone
=============================================================================
