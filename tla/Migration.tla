------------------------------- MODULE Migration -------------------------------
(***************************************************************************)
(* Bringing a data directory up to the format this build reads             *)
(* (migration.rs and its fourteen steps): the configuration file, the      *)
(* databases management.sqlite and wish.sqlite, and format.json with the   *)
(* version.  The process may end, or a write fail, between any two writes. *)
(* A directory holds one session and at most one group.  What the steps    *)
(* only lay out anew (4 and 8, VACUUM) is left out.                        *)
(***************************************************************************)
EXTENDS Naturals, Sequences

CONSTANTS
  Versions,   \* the formats a directory may have when it is first opened
  MaxStops    \* bound: crashes, failed writes and exits

ASSUME MigrationAssumption == Versions \subseteq Nat /\ MaxStops \in Nat

VARIABLES
  directory,  \* what the disk holds
  work,       \* what the steps made of it, in memory and in open transactions
  backups,    \* the copies taken before migrating
  migrating,  \* "off", the next thing `run` does, or "serving"
  stops,
  first,      \* the directory as this build found it first
  chosen      \* what the user set MCP to for new sessions, once it served

migration_vars == <<directory, work, backups, migrating, stops, first, chosen>>

Latest == 14
Unmarked == 0   \* no format.json
Switch == {"mcp", "web_search", "skills", "sessions", "history"}
\* The format since which a switch exists.
Since == [mcp |-> 0, web_search |-> 2, skills |-> 7, sessions |-> 9, history |-> 14]

-----------------------------------------------------------------------------
(* The steps.  OrInsert is the map entry's or_insert: a value there stays. *)

OrInsert(switches, name, value) ==
  [switches EXCEPT ![name] = IF @ = "absent" THEN value ELSE @]

InDefaults(d, switches) == IF d.config.tools THEN [d EXCEPT !.config.on = switches] ELSE d

\* A record without tool switches stops the migration.
InRecords(d, switches) ==
  IF ~ d.management.there THEN d
  ELSE IF ~ d.management.sound THEN [d EXCEPT !.failed = TRUE]
  ELSE [d EXCEPT !.management.on = switches]

McpSwitch(d) ==
  InRecords(InDefaults(d, [d.config.on EXCEPT !["mcp"] = "on"]),
            [d.management.on EXCEPT !["mcp"] = "on"])

AddCodexSearch(d) ==
  [d EXCEPT !.config.search = IF @ = "none" /\ d.config.codex THEN "borrowed" ELSE @]

WebSearch(d) ==
  InRecords(AddCodexSearch(InDefaults(d, OrInsert(d.config.on, "web_search", "on"))),
            OrInsert(d.management.on, "web_search", "off"))

\* A batch that a session's state names stays.
ToolBatches(d) == [d EXCEPT !.wish.batches = @ \ {"left"}]

ShortOutcomes(d) == [d EXCEPT !.management.outcome = "short"]

\* The lists named by the queue and the generations stay; a session that names no
\* generations is left alone, and a generation without a list stops the migration.
StandbyLists(d) ==
  IF d.wish.generations = "broken" THEN [d EXCEPT !.failed = TRUE]
  ELSE IF d.wish.generations = "unknown" THEN d
  ELSE [d EXCEPT !.wish.lists = @ \ {"left"}]

SwitchOn(d, name) ==
  InRecords(InDefaults(d, OrInsert(d.config.on, name, "on")), OrInsert(d.management.on, name, "on"))

SkillsSwitch(d) == SwitchOn(d, "skills")
SessionsSwitch(d) == SwitchOn(d, "sessions")

MessageAuthor == {"user", "wish", "session"}

\* The messages of some authors.
SaidBy(authors, log) ==
  LET said[i \in 0 .. Len(log)] ==
        IF i = 0 THEN <<>>
        ELSE IF log[i] \in authors THEN Append(said[i - 1], log[i]) ELSE said[i - 1]
  IN  said[Len(log)]

SaidByMembers(log) == SaidBy({"user", "session"}, log)

\* move_group: INSERT OR IGNORE of the messages, then the session goes from both.
GroupTables(d) ==
  IF ~ d.management.there \/ d.management.group # "session" THEN d
  ELSE [d EXCEPT !.management.group = "tables",
                 !.management.log = SaidByMembers(d.wish.entries),
                 !.wish.entries = <<>>]

FreeGroups(d) ==
  [d EXCEPT !.config.limit = FALSE,
            !.management.log = IF d.management.notes THEN SaidBy(MessageAuthor \ {"wish"}, @) ELSE @,
            !.management.notes = FALSE]

InFolders(d) == [d EXCEPT !.management.folders = d.management.there]

AnthropicUserAgent(d) == [d EXCEPT !.config.agent = "own"]

HistoryDelivery(d) == InDefaults(d, OrInsert(d.config.on, "history", "on"))

MigrationStep(d, i) ==
  CASE i = 1 -> McpSwitch(d)        [] i = 2 -> WebSearch(d)
    [] i = 3 -> ToolBatches(d)      [] i = 5 -> ShortOutcomes(d)
    [] i = 6 -> StandbyLists(d)     [] i = 7 -> SkillsSwitch(d)
    [] i = 9 -> SessionsSwitch(d)   [] i = 10 -> GroupTables(d)
    [] i = 11 -> FreeGroups(d)      [] i = 12 -> InFolders(d)
    [] i = 13 -> AnthropicUserAgent(d) [] i = 14 -> HistoryDelivery(d)
    [] OTHER -> d

\* The steps behind `from`, in order, until one fails.
ApplySteps(from, d) ==
  LET done[i \in 0 .. Latest] ==
        IF i = 0 THEN d
        ELSE LET before == done[i - 1]
             IN  IF i <= from \/ before.failed THEN before ELSE MigrationStep(before, i)
  IN  done[Latest]

-----------------------------------------------------------------------------
(* run. *)

HasDatabase(d) == d.management.there \/ d.wish.there

\* plan: nothing to do, a new directory to mark, a newer one to refuse, or steps to run.
Plan ==
  /\ migrating = "off"
  /\ \/ /\ directory.version = Latest
        /\ migrating' = "serving" /\ UNCHANGED directory
     \/ /\ directory.version = Unmarked /\ ~ HasDatabase(directory)
        /\ migrating' = "serving" /\ directory' = [directory EXCEPT !.version = Latest]
     \/ /\ directory.version = Unmarked => HasDatabase(directory)
        /\ directory.version < Latest
        /\ migrating' = "back_up" /\ UNCHANGED directory
  /\ UNCHANGED <<work, backups, stops, first, chosen>>

BackUp ==
  /\ migrating = "back_up"
  /\ backups' = backups \cup {directory}
  /\ migrating' = "apply_steps"
  /\ UNCHANGED <<directory, work, stops, first, chosen>>

\* A step that fails rolls the transactions back and ends the start.
RunSteps ==
  /\ migrating = "apply_steps"
  /\ LET done == ApplySteps(directory.version, directory)
     IN  IF done.failed THEN migrating' = "refused" /\ UNCHANGED work
         ELSE migrating' = "commit_wish" /\ work' = done
  /\ UNCHANGED <<directory, backups, stops, first, chosen>>

CommitWish ==
  /\ migrating = "commit_wish"
  /\ directory' = [directory EXCEPT !.wish = work.wish]
  /\ migrating' = "commit_management"
  /\ UNCHANGED <<work, backups, stops, first, chosen>>

CommitManagement ==
  /\ migrating = "commit_management"
  /\ directory' = [directory EXCEPT !.management = work.management]
  /\ migrating' = "commit"
  /\ UNCHANGED <<work, backups, stops, first, chosen>>

\* Mutant: the version is recorded before the configuration is replaced.
CommitEarly ==
  /\ \/ /\ migrating = "commit"
        /\ directory' = [directory EXCEPT !.version = Latest]
        /\ migrating' = "write_version"
     \/ /\ migrating = "write_version"
        /\ directory' = [directory EXCEPT !.config = work.config]
        /\ migrating' = "serving"
  /\ UNCHANGED <<work, backups, stops, first, chosen>>

\* The configuration, when the steps changed it; then the version.
Commit ==
  /\ \/ /\ migrating = "commit"
        /\ directory' = [directory EXCEPT !.config = work.config]
        /\ migrating' = "write_version"
     \/ /\ migrating = "write_version"
        /\ directory' = [directory EXCEPT !.version = Latest]
        /\ migrating' = "serving"
  /\ UNCHANGED <<work, backups, stops, first, chosen>>

\* The process ends, or what it does next fails and the start with it.
Stop ==
  /\ migrating \notin {"off", "refused"} /\ stops < MaxStops
  /\ migrating' = "off" /\ stops' = stops + 1 /\ work' = first
  /\ UNCHANGED <<directory, backups, first, chosen>>

\* Later the user sets a switch (Settings).
Choose ==
  /\ migrating = "serving" /\ chosen = "none" /\ directory.config.tools
  /\ chosen' = "off"
  /\ directory' = [directory EXCEPT !.config.on["mcp"] = "off"]
  /\ UNCHANGED <<work, backups, migrating, stops, first>>

-----------------------------------------------------------------------------
(* A directory as a build of its format left it: `old` with everything that    *)
(* later steps clear away, `early` with switches set by hand before their time;*)
(* `dbs` are the databases it has, empty for a new one.                        *)

Switches(version, early, value) ==
  [s \in Switch |-> IF early \/ Since[s] <= version THEN value ELSE "absent"]

Built(version, old, early, tools, dbs, sound, generations) ==
  LET grouped == old /\ version \in {9, 10} /\ "management" \in dbs
      log == <<"user", "wish", "session">>
  IN  [version |-> version, failed |-> FALSE,
       config |-> [tools |-> tools, on |-> Switches(version, early, "off"), codex |-> old,
                   search |-> IF early THEN "own" ELSE "none",
                   limit |-> old /\ version < 11, agent |-> IF old /\ version < 13 THEN "claude" ELSE "own"],
       management |-> [there |-> "management" \in dbs, sound |-> sound,
                       on |-> Switches(version, FALSE, "off"),
                       outcome |-> IF old /\ version < 5 /\ "management" \in dbs THEN "whole" ELSE "short",
                       group |-> IF ~ grouped THEN "none" ELSE IF version = 9 THEN "session" ELSE "tables",
                       log |-> IF grouped /\ version = 10 THEN log ELSE <<>>,
                       notes |-> grouped /\ version = 10,
                       folders |-> version >= 12 /\ "management" \in dbs],
       wish |-> [there |-> "wish" \in dbs, generations |-> generations,
                 batches |-> IF old /\ version < 3 /\ "wish" \in dbs THEN {"named", "left"} ELSE {"named"},
                 lists |-> IF old /\ version < 6 /\ "wish" \in dbs THEN {"named", "left"} ELSE {"named"},
                 entries |-> IF grouped /\ version = 9 /\ "wish" \in dbs THEN log ELSE <<>>]]

MigrationInit ==
  /\ \E version \in Versions, old, early, tools, sound \in BOOLEAN,
        dbs \in SUBSET {"management", "wish"},
        generations \in {"named", "unknown", "broken"} :
       /\ sound \/ ("management" \in dbs /\ version < 9)
       /\ generations = "named" \/ ("wish" \in dbs /\ version < 6)
       /\ directory = Built(version, old, early, tools, dbs, sound, generations)
  /\ work = directory /\ first = directory
  /\ backups = {} /\ migrating = "off" /\ stops = 0 /\ chosen = "none"

MigrationNext ==
  Plan \/ BackUp \/ RunSteps \/ CommitWish \/ CommitManagement \/ Commit \/ Stop \/ Choose

MigrationSpec == MigrationInit /\ [][MigrationNext]_migration_vars

-----------------------------------------------------------------------------
(* The reference: what the directory is when each step is done once, each     *)
(* field by itself.                                                           *)

NewDirectory == first.version = Unmarked /\ ~ HasDatabase(first)

Behind(i) == first.version < i /\ ~ NewDirectory

WantedDefault(s) ==
  IF ~ first.config.tools THEN first.config.on[s]
  ELSE IF s = "mcp" /\ chosen # "none" THEN chosen
  ELSE IF s = "mcp" /\ Behind(1) THEN "on"
  ELSE IF first.config.on[s] = "absent" /\ ~ NewDirectory THEN "on" ELSE first.config.on[s]

WantedRecorded(s) ==
  IF ~ first.management.there THEN first.management.on[s]
  ELSE IF s = "mcp" /\ Behind(1) THEN "on"
  ELSE IF first.management.on[s] # "absent" \/ s = "history" THEN first.management.on[s]
  ELSE IF s = "web_search" THEN "off" ELSE "on"

WantedConfig ==
  [tools |-> first.config.tools, codex |-> first.config.codex,
   on |-> [s \in Switch |-> WantedDefault(s)],
   search |-> IF Behind(2) /\ first.config.search = "none" /\ first.config.codex THEN "borrowed"
              ELSE first.config.search,
   limit |-> first.config.limit /\ ~ Behind(11),
   agent |-> IF Behind(13) THEN "own" ELSE first.config.agent]

WantedManagement ==
  [there |-> first.management.there, sound |-> first.management.sound,
   on |-> [s \in Switch |-> WantedRecorded(s)],
   outcome |-> IF Behind(5) THEN "short" ELSE first.management.outcome,
   group |-> IF first.management.group = "session" THEN "tables" ELSE first.management.group,
   log |-> SaidByMembers(first.wish.entries \o first.management.log),
   notes |-> FALSE, folders |-> first.management.there]

WantedWish ==
  [there |-> first.wish.there, generations |-> first.wish.generations,
   batches |-> IF Behind(3) THEN {"named"} ELSE first.wish.batches,
   lists |-> IF Behind(6) /\ first.wish.generations = "named" THEN {"named"} ELSE first.wish.lists,
   entries |-> <<>>]

Wanted ==
  [version |-> Latest, failed |-> FALSE,
   config |-> WantedConfig, management |-> WantedManagement, wish |-> WantedWish]

\* A program that serves reads a directory of its own format, which is what the
\* steps make of the first one when each is done once, however often the process
\* ended between the commits, the configuration and the version; what the user
\* set since is not undone by a later start.  The messages of a group may be gone
\* only when a copy holds them.  A directory that cannot be migrated, or that a
\* newer build wrote, is never written.
MigratedWhole ==
  /\ migrating = "serving" =>
       \/ directory = Wanted
       \/ /\ [directory EXCEPT !.management.log = Wanted.management.log] = Wanted
          /\ directory.management.log = <<>>
          /\ \E copy \in backups : copy.wish.entries = first.wish.entries
  /\ migrating = "refused" => directory = first
  /\ first.version > Latest => directory = first /\ migrating = "off"
=============================================================================
