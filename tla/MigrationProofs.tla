---------------------------- MODULE MigrationProofs ----------------------------
(***************************************************************************)
(* A data directory is migrated whole, for every format it may have and    *)
(* any number of crashes between the writes (Migration).  First what the   *)
(* steps make of a directory, one field by itself, by induction on them;   *)
(* then that doing them again on a directory half of which is committed    *)
(* makes the same, but for the messages of a group that moved; then the    *)
(* invariant.  Induction comes first: on the natural numbers and on finite *)
(* sets, with the statement to be proved given as the set of what it holds *)
(* of; both follow from the numbers being well-founded.                    *)
(***************************************************************************)
EXTENDS Migration, FiniteSets, FiniteSetTheorems, WellFoundedInduction, SequenceTheorems, TLAPS

-----------------------------------------------------------------------------
(* Induction. *)

\* What holds of zero and is handed on holds of every number.
LEMMA Reached ==
  ASSUME NEW S \in SUBSET Nat, 0 \in S, \A n \in S : n + 1 \in S
  PROVE  S = Nat
<1>1. SUFFICES ASSUME Nat \ S # {} PROVE FALSE
  OBVIOUS
<1> DEFINE R == OpToRel(<, Nat)
<1>2. IsWellFoundedOn(R, Nat)
  BY NatLessThanWellFounded
<1>3. PICK n \in Nat \ S : \A m \in Nat \ S : ~ (<<m, n>> \in R)
  <2> HIDE DEF R
  <2> QED BY <1>1, <1>2, WFMin
<1>4. \A m \in Nat \ S : ~ (m < n)
  BY <1>3 DEF OpToRel
<1>5. n - 1 \in Nat /\ n - 1 \in S
  BY <1>4
<1> QED
  BY <1>5

\* What holds of no elements and survives one more holds of a finite set.
LEMMA BuiltUp ==
  ASSUME NEW S, IsFiniteSet(S), NEW Q \in SUBSET (SUBSET S), {} \in Q,
         \A T \in Q : \A x \in S \ T : T \cup {x} \in Q
  PROVE  S \in Q
<1> DEFINE Reach == {n \in Nat : \A T \in SUBSET S : Cardinality(T) = n => T \in Q}
<1>1. 0 \in Reach
  <2>1. ASSUME NEW T \in SUBSET S, Cardinality(T) = 0 PROVE T = {}
    BY <2>1, FS_Subset, FS_EmptySet
  <2> QED BY <2>1
<1>2. ASSUME NEW n \in Reach PROVE n + 1 \in Reach
  <2>1. ASSUME NEW T \in SUBSET S, Cardinality(T) = n + 1 PROVE T \in Q
    <3>1. IsFiniteSet(T) /\ T # {}
      BY <2>1, FS_Subset, FS_EmptySet
    <3>2. PICK x \in T : TRUE
      BY <3>1
    <3>3. Cardinality(T \ {x}) = n
      <4>1. Cardinality(T \ {x}) = Cardinality(T) - 1
        BY <3>1, <3>2, FS_RemoveElement
      <4> QED BY <2>1, <4>1
    <3>4. T \ {x} \in Q
      BY <3>3
    <3>5. T = (T \ {x}) \cup {x} /\ x \in S \ (T \ {x})
      BY <3>2
    <3> QED BY <3>4, <3>5
  <2> QED BY <2>1
<1> HIDE DEF Reach
<1>3. Reach = Nat
  <2>1. Reach \in SUBSET Nat
    BY DEF Reach
  <2> QED BY <1>1, <1>2, <2>1, Reached
<1>4. Cardinality(S) \in Nat
  BY FS_CardinalityType
<1> QED BY <1>3, <1>4 DEF Reach

-----------------------------------------------------------------------------
(* The steps. *)

\* The value, under a name the provers leave alone inside a record.
No == FALSE

\* What the first n steps make of a part, one field by itself.
Due(n, v, i) == v < i /\ i <= n

Filled(on, name, value, due) == IF due /\ on[name] = "absent" THEN value ELSE on[name]

ConfigAt(n, v, d) ==
  LET c == d.config
      due(i) == Due(n, v, i)
      tools(i) == c.tools /\ due(i)
  IN  [tools |-> c.tools, codex |-> c.codex,
       on |-> [mcp |-> IF tools(1) THEN "on" ELSE c.on["mcp"],
               web_search |-> Filled(c.on, "web_search", "on", tools(2)),
               skills |-> Filled(c.on, "skills", "on", tools(7)),
               sessions |-> Filled(c.on, "sessions", "on", tools(9)),
               history |-> Filled(c.on, "history", "on", tools(14))],
       search |-> IF due(2) /\ c.search = "none" /\ c.codex THEN "borrowed" ELSE c.search,
       limit |-> IF due(11) THEN No ELSE c.limit,
       agent |-> IF due(13) THEN "own" ELSE c.agent]

GroupMoves(n, v, d) == Due(n, v, 10) /\ d.management.there /\ d.management.group = "session"

WithoutNotes(log) == SaidBy(MessageAuthor \ {"wish"}, log)

LogAt(n, v, d) ==
  LET log == IF GroupMoves(n, v, d) THEN SaidByMembers(d.wish.entries) ELSE d.management.log
  IN  IF Due(n, v, 11) /\ d.management.notes THEN WithoutNotes(log) ELSE log

ManagementAt(n, v, d) ==
  LET m == d.management
      due(i) == Due(n, v, i)
      there(i) == m.there /\ due(i)
  IN  [there |-> m.there, sound |-> m.sound,
       on |-> [mcp |-> IF there(1) THEN "on" ELSE m.on["mcp"],
               web_search |-> Filled(m.on, "web_search", "off", there(2)),
               skills |-> Filled(m.on, "skills", "on", there(7)),
               sessions |-> Filled(m.on, "sessions", "on", there(9)),
               history |-> m.on["history"]],
       outcome |-> IF due(5) THEN "short" ELSE m.outcome,
       group |-> IF GroupMoves(n, v, d) THEN "tables" ELSE m.group,
       log |-> LogAt(n, v, d),
       notes |-> IF due(11) THEN No ELSE m.notes,
       folders |-> IF due(12) THEN m.there ELSE m.folders]

Named(s) == s \ {"left"}

WishAt(n, v, d) ==
  [there |-> d.wish.there, generations |-> d.wish.generations,
   batches |-> IF Due(n, v, 3) THEN Named(d.wish.batches) ELSE d.wish.batches,
   lists |-> IF Due(n, v, 6) /\ d.wish.generations # "unknown" THEN Named(d.wish.lists) ELSE d.wish.lists,
   entries |-> IF GroupMoves(n, v, d) THEN <<>> ELSE d.wish.entries]

\* A step fails on a record without switches or a generation without its list.
Failing(n, v, d) ==
  \/ d.management.there /\ ~ d.management.sound /\ \E i \in {1, 2, 7, 9} : Due(n, v, i)
  \/ d.wish.generations = "broken" /\ Due(n, v, 6)

After(n, v, d) ==
  [version |-> d.version, failed |-> No, config |-> ConfigAt(n, v, d),
   management |-> ManagementAt(n, v, d), wish |-> WishAt(n, v, d)]

\* A step that is not due changes nothing.
LEMMA NotDue ==
  ASSUME NEW n \in Nat, NEW v \in Nat, n + 1 <= v, NEW d
  PROVE  /\ After(n + 1, v, d) = After(n, v, d)
         /\ Failing(n + 1, v, d) <=> Failing(n, v, d)
<1>1. \A i \in Nat : Due(n + 1, v, i) <=> Due(n, v, i)
  BY DEF Due
<1>2. ConfigAt(n + 1, v, d) = ConfigAt(n, v, d)
  BY <1>1 DEF ConfigAt
<1>3. GroupMoves(n + 1, v, d) <=> GroupMoves(n, v, d)
  BY <1>1 DEF GroupMoves
<1>4. ManagementAt(n + 1, v, d) = ManagementAt(n, v, d)
  BY <1>1, <1>3 DEF ManagementAt, LogAt
<1>5. WishAt(n + 1, v, d) = WishAt(n, v, d)
  BY <1>1, <1>3 DEF WishAt
<1> QED BY <1>1, <1>2, <1>4, <1>5 DEF After, Failing

\* The next step is due, and no other changes that.
LEMMA DueNow ==
  ASSUME NEW i \in Nat, NEW n \in Nat, i = n + 1, NEW v \in Nat, v < i
  PROVE  /\ \A k \in Nat : k # i => (Due(i, v, k) <=> Due(n, v, k))
         /\ Due(i, v, i) /\ ~ Due(n, v, i)
  BY DEF Due

\* The parts a step leaves alone.
LEMMA PartsLeft ==
  ASSUME NEW i \in Nat, NEW n \in Nat, i = n + 1, NEW v \in Nat, v < i, NEW d
  PROVE  /\ i \notin {1, 2, 7, 9, 11, 13, 14} => ConfigAt(i, v, d) = ConfigAt(n, v, d)
         /\ i \notin {3, 6, 10} => WishAt(i, v, d) = WishAt(n, v, d)
         /\ i \notin {10, 11} => LogAt(i, v, d) = LogAt(n, v, d) /\ (GroupMoves(i, v, d) <=> GroupMoves(n, v, d))
         /\ i \notin {1, 2, 5, 7, 9, 10, 11, 12} => ManagementAt(i, v, d) = ManagementAt(n, v, d)
         /\ i \notin {1, 2, 6, 7, 9} => (Failing(i, v, d) <=> Failing(n, v, d))
<1>1. \A k \in Nat : k # i => (Due(i, v, k) <=> Due(n, v, k))
  BY DueNow
<1>2. i \notin {1, 2, 7, 9, 11, 13, 14} => ConfigAt(i, v, d) = ConfigAt(n, v, d)
  BY <1>1 DEF ConfigAt
<1>3. i # 10 => (GroupMoves(i, v, d) <=> GroupMoves(n, v, d))
  BY <1>1 DEF GroupMoves
<1>4. i \notin {3, 6, 10} => WishAt(i, v, d) = WishAt(n, v, d)
  BY <1>1, <1>3 DEF WishAt
<1>5. i \notin {10, 11} => LogAt(i, v, d) = LogAt(n, v, d)
  BY <1>1, <1>3 DEF LogAt
<1>6. i \notin {1, 2, 5, 7, 9, 10, 11, 12} => ManagementAt(i, v, d) = ManagementAt(n, v, d)
  BY <1>1, <1>3, <1>5 DEF ManagementAt
<1>7. i \notin {1, 2, 6, 7, 9} => (Failing(i, v, d) <=> Failing(n, v, d))
  BY <1>1 DEF Failing
<1> QED BY <1>2, <1>3, <1>4, <1>5, <1>6, <1>7

\* A directory of these parts.
Whole(version, config, management, wish) ==
  [version |-> version, failed |-> No, config |-> config, management |-> management, wish |-> wish]

\* The switches of the configuration are set where it has tools.
LEMMA InDefaultsIs ==
  ASSUME NEW version, NEW config, NEW management, NEW wish, NEW on, NEW next,
         config.tools => next = [config EXCEPT !.on = on],
         ~ config.tools => next = config
  PROVE  InDefaults(Whole(version, config, management, wish), on) =
           Whole(version, next, management, wish)
  BY DEF InDefaults, Whole

\* A record without switches is an error.
LEMMA InRecordsFails ==
  ASSUME NEW version, NEW config, NEW management, NEW wish, NEW on,
         management.there, ~ management.sound
  PROVE  InRecords(Whole(version, config, management, wish), on).failed = TRUE
  BY DEF InRecords, Whole

\* The switches of the records are set where there are some.
LEMMA InRecordsIs ==
  ASSUME NEW version, NEW config, NEW management, NEW wish, NEW on, NEW next,
         ~ (management.there /\ ~ management.sound),
         management.there => next = [management EXCEPT !.on = on],
         ~ management.there => next = management
  PROVE  InRecords(Whole(version, config, management, wish), on) = Whole(version, config, next, wish)
  BY DEF InRecords, Whole

\* What the steps that set one field make of its part.
LEMMA BatchesSet ==
  ASSUME NEW version, NEW c, NEW m, NEW w, NEW next, next = [w EXCEPT !.batches = Named(w.batches)]
  PROVE  ToolBatches(Whole(version, c, m, w)) = Whole(version, c, m, next)
  BY DEF ToolBatches, Named, Whole

\* The outcomes.
LEMMA OutcomesSet ==
  ASSUME NEW version, NEW c, NEW m, NEW w, NEW next, next = [m EXCEPT !.outcome = "short"]
  PROVE  ShortOutcomes(Whole(version, c, m, w)) = Whole(version, c, next, w)
  BY DEF ShortOutcomes, Whole

\* The folders.
LEMMA FoldersSet ==
  ASSUME NEW version, NEW c, NEW m, NEW w, NEW next, next = [m EXCEPT !.folders = m.there]
  PROVE  InFolders(Whole(version, c, m, w)) = Whole(version, c, next, w)
  BY DEF InFolders, Whole

\* The name of the program.
LEMMA AgentSet ==
  ASSUME NEW version, NEW c, NEW m, NEW w, NEW next, next = [c EXCEPT !.agent = "own"]
  PROVE  AnthropicUserAgent(Whole(version, c, m, w)) = Whole(version, next, m, w)
  BY DEF AnthropicUserAgent, Whole

\* The account to search with.
LEMMA SearchSet ==
  ASSUME NEW version, NEW c, NEW m, NEW w, NEW next,
         next = [c EXCEPT !.search = IF c.search = "none" /\ c.codex THEN "borrowed" ELSE c.search]
  PROVE  AddCodexSearch(Whole(version, c, m, w)) = Whole(version, next, m, w)
  BY DEF AddCodexSearch, Whole

\* A generation without a list stops the step.
LEMMA ListsFail ==
  ASSUME NEW version, NEW c, NEW m, NEW w, w.generations = "broken"
  PROVE  StandbyLists(Whole(version, c, m, w)).failed = TRUE
  BY DEF StandbyLists, Whole

\* Lists that no session names go, unless it names no generations.
LEMMA ListsSet ==
  ASSUME NEW version, NEW c, NEW m, NEW w, w.generations # "broken", NEW next,
         w.generations = "unknown" => next = w,
         w.generations # "unknown" => next = [w EXCEPT !.lists = Named(w.lists)]
  PROVE  StandbyLists(Whole(version, c, m, w)) = Whole(version, c, m, next)
  BY DEF StandbyLists, Named, Whole

\* The record of a group that moved to tables, and of one without notes.
InTables(m, log) == [m EXCEPT !.group = "tables", !.log = log]
Unnoted(m, log) == [m EXCEPT !.log = log, !.notes = No]

\* A group that is a session moves to tables.
LEMMA TablesSet ==
  ASSUME NEW version, NEW c, NEW m, NEW w, m.there, m.group = "session",
         NEW mnext, mnext = InTables(m, SaidByMembers(w.entries)),
         NEW wnext, wnext = [w EXCEPT !.entries = <<>>]
  PROVE  GroupTables(Whole(version, c, m, w)) = Whole(version, c, mnext, wnext)
  BY DEF GroupTables, InTables, Whole

\* Any other stays.
LEMMA TablesLeft ==
  ASSUME NEW version, NEW c, NEW m, NEW w, ~ (m.there /\ m.group = "session")
  PROVE  GroupTables(Whole(version, c, m, w)) = Whole(version, c, m, w)
  BY DEF GroupTables, Whole

\* The limit goes, and the notes of the program.
LEMMA NotesSet ==
  ASSUME NEW version, NEW c, NEW m, NEW w, NEW cnext, cnext = [c EXCEPT !.limit = No],
         NEW mnext,
         mnext = Unnoted(m, IF m.notes THEN WithoutNotes(m.log) ELSE m.log)
  PROVE  FreeGroups(Whole(version, c, m, w)) = Whole(version, cnext, mnext, w)
<1> DEFINE r == Whole(version, c, m, w)
           log == IF m.notes THEN WithoutNotes(m.log) ELSE m.log
<1>1. r.management = m /\ r.config = c
  BY DEF Whole
<1>2. [[r EXCEPT !.config = cnext] EXCEPT !.management = mnext] = Whole(version, cnext, mnext, w)
  <2>1. [r EXCEPT !.config = cnext] = Whole(version, cnext, m, w)
    BY DEF Whole
  <2>2. [Whole(version, cnext, m, w) EXCEPT !.management = mnext] = Whole(version, cnext, mnext, w)
    BY DEF Whole
  <2> QED BY <2>1, <2>2
<1> HIDE DEF r
<1>3. FreeGroups(r) = [r EXCEPT !.config.limit = No,
                                !.management.log = IF r.management.notes THEN WithoutNotes(@) ELSE @,
                                !.management.notes = No]
  BY DEF FreeGroups, No, WithoutNotes
<1>4. FreeGroups(r) = [r EXCEPT !.config.limit = No, !.management.log = log, !.management.notes = No]
  BY <1>1, <1>3
<1>5. FreeGroups(r) = [[r EXCEPT !.config = cnext] EXCEPT !.management = mnext]
  BY <1>1, <1>4 DEF Unnoted
<1> QED BY <1>2, <1>5 DEF r

\* Both, for the switches of the configuration and of the records.
LEMMA SwitchesSet ==
  ASSUME NEW version, NEW c, NEW m, NEW wish, NEW con, NEW mon, NEW cnext, NEW mnext,
         c.tools => cnext = [c EXCEPT !.on = con], ~ c.tools => cnext = c,
         m.there => mnext = [m EXCEPT !.on = mon], ~ m.there => mnext = m,
         ~ (m.there /\ ~ m.sound)
  PROVE  InRecords(InDefaults(Whole(version, c, m, wish), con), mon) = Whole(version, cnext, mnext, wish)
<1>1. InDefaults(Whole(version, c, m, wish), con) = Whole(version, cnext, m, wish)
  BY InDefaultsIs
<1>2. InRecords(Whole(version, cnext, m, wish), mon) = Whole(version, cnext, mnext, wish)
  BY InRecordsIs
<1> QED BY <1>1, <1>2

\* A record without switches stops the step.
LEMMA SwitchesFail ==
  ASSUME NEW version, NEW c, NEW m, NEW wish, NEW con, NEW mon, m.there, ~ m.sound
  PROVE  InRecords(InDefaults(Whole(version, c, m, wish), con), mon).failed = TRUE
<1> DEFINE next == IF c.tools THEN [c EXCEPT !.on = con] ELSE c
<1>1. (c.tools => next = [c EXCEPT !.on = con]) /\ (~ c.tools => next = c)
  OBVIOUS
<1> HIDE DEF next
<1>2. InDefaults(Whole(version, c, m, wish), con) = Whole(version, next, m, wish)
  BY <1>1, InDefaultsIs
<1>3. InRecords(Whole(version, next, m, wish), mon).failed = TRUE
  BY InRecordsFails
<1> QED BY <1>2, <1>3

\* Step 1: MCP is on.
LEMMA McpStep ==
  ASSUME NEW v \in Nat, v < 1, NEW d, NEW r, r = After(0, v, d), ~ Failing(0, v, d)
  PROVE  /\ Failing(1, v, d) => McpSwitch(r).failed = TRUE
         /\ ~ Failing(1, v, d) => McpSwitch(r) = After(1, v, d)
<1> DEFINE C(i) == ConfigAt(i, v, d)
           M(i) == ManagementAt(i, v, d)
           W(i) == WishAt(i, v, d)
           con == [r.config.on EXCEPT !["mcp"] = "on"]
           mon == [r.management.on EXCEPT !["mcp"] = "on"]
<1>1. /\ \A k \in Nat : k # 1 => (Due(1, v, k) <=> Due(0, v, k))
      /\ Due(1, v, 1) /\ ~ Due(0, v, 1)
  BY DueNow
<1>2. /\ C(0).tools => C(1) = [C(0) EXCEPT !.on = con]
      /\ ~ C(0).tools => C(1) = C(0)
  BY <1>1 DEF After, ConfigAt
<1>3. LogAt(0, v, d) = LogAt(1, v, d) /\ (GroupMoves(0, v, d) <=> GroupMoves(1, v, d)) /\ W(0) = W(1)
  BY PartsLeft
<1>4. /\ M(0).there => M(1) = [M(0) EXCEPT !.on = mon]
      /\ ~ M(0).there => M(1) = M(0)
  BY <1>1, <1>3 DEF After, ManagementAt
<1>5. r = Whole(d.version, C(0), M(0), W(0))
  BY DEF After, Whole
<1>6. Failing(1, v, d) <=> M(0).there /\ ~ M(0).sound
  BY <1>1 DEF Failing, ManagementAt
<1>7. McpSwitch(r) = InRecords(InDefaults(r, con), mon)
  BY DEF McpSwitch
<1> HIDE DEF con, mon, C, M, W
<1>8. CASE Failing(1, v, d)
  <2>1. M(0).there /\ ~ M(0).sound
    BY <1>6, <1>8
  <2>2. McpSwitch(r).failed = TRUE
    BY <1>5, <1>7, <2>1, SwitchesFail
  <2> QED BY <1>8, <2>2
<1>9. CASE ~ Failing(1, v, d)
  <2>1. ~ (M(0).there /\ ~ M(0).sound)
    BY <1>6, <1>9
  <2>2. McpSwitch(r) = Whole(d.version, C(1), M(1), W(0))
    BY <1>2, <1>4, <1>5, <1>7, <2>1, SwitchesSet
  <2>3. McpSwitch(r) = After(1, v, d)
    BY <1>3, <2>2 DEF After, Whole, C, M, W
  <2> QED BY <1>9, <2>3
<1> QED BY <1>8, <1>9

\* Step 7: skills are on, where nothing is said of them.
LEMMA SkillsStep ==
  ASSUME NEW v \in Nat, v < 7, NEW d, NEW r, r = After(6, v, d), ~ Failing(6, v, d)
  PROVE  /\ Failing(7, v, d) => SkillsSwitch(r).failed = TRUE
         /\ ~ Failing(7, v, d) => SkillsSwitch(r) = After(7, v, d)
<1> DEFINE C(i) == ConfigAt(i, v, d)
           M(i) == ManagementAt(i, v, d)
           W(i) == WishAt(i, v, d)
           con == OrInsert(r.config.on, "skills", "on")
           mon == OrInsert(r.management.on, "skills", "on")
<1>1. /\ \A k \in Nat : k # 7 => (Due(7, v, k) <=> Due(6, v, k))
      /\ Due(7, v, 7) /\ ~ Due(6, v, 7)
  BY DueNow
<1>2. /\ C(6).tools => C(7) = [C(6) EXCEPT !.on = con]
      /\ ~ C(6).tools => C(7) = C(6)
  BY <1>1 DEF After, ConfigAt, OrInsert, Filled
<1>3. LogAt(6, v, d) = LogAt(7, v, d) /\ (GroupMoves(6, v, d) <=> GroupMoves(7, v, d)) /\ W(6) = W(7)
  BY PartsLeft
<1>4. /\ M(6).there => M(7) = [M(6) EXCEPT !.on = mon]
      /\ ~ M(6).there => M(7) = M(6)
  BY <1>1, <1>3 DEF After, ManagementAt, OrInsert, Filled
<1>5. r = Whole(d.version, C(6), M(6), W(6))
  BY DEF After, Whole
<1>6. Failing(7, v, d) <=> M(6).there /\ ~ M(6).sound
  BY <1>1 DEF Failing, ManagementAt
<1>7. SkillsSwitch(r) = InRecords(InDefaults(r, con), mon)
  BY DEF SkillsSwitch, SwitchOn
<1> HIDE DEF con, mon, C, M, W
<1>8. CASE Failing(7, v, d)
  <2>1. M(6).there /\ ~ M(6).sound
    BY <1>6, <1>8
  <2>2. SkillsSwitch(r).failed = TRUE
    BY <1>5, <1>7, <2>1, SwitchesFail
  <2> QED BY <1>8, <2>2
<1>9. CASE ~ Failing(7, v, d)
  <2>1. ~ (M(6).there /\ ~ M(6).sound)
    BY <1>6, <1>9
  <2>2. SkillsSwitch(r) = Whole(d.version, C(7), M(7), W(6))
    BY <1>2, <1>4, <1>5, <1>7, <2>1, SwitchesSet
  <2>3. SkillsSwitch(r) = After(7, v, d)
    BY <1>3, <2>2 DEF After, Whole, C, M, W
  <2> QED BY <1>9, <2>3
<1> QED BY <1>8, <1>9

\* Step 9: so are sessions.
LEMMA SessionsStep ==
  ASSUME NEW v \in Nat, v < 9, NEW d, NEW r, r = After(8, v, d), ~ Failing(8, v, d)
  PROVE  /\ Failing(9, v, d) => SessionsSwitch(r).failed = TRUE
         /\ ~ Failing(9, v, d) => SessionsSwitch(r) = After(9, v, d)
<1> DEFINE C(i) == ConfigAt(i, v, d)
           M(i) == ManagementAt(i, v, d)
           W(i) == WishAt(i, v, d)
           con == OrInsert(r.config.on, "sessions", "on")
           mon == OrInsert(r.management.on, "sessions", "on")
<1>1. /\ \A k \in Nat : k # 9 => (Due(9, v, k) <=> Due(8, v, k))
      /\ Due(9, v, 9) /\ ~ Due(8, v, 9)
  BY DueNow
<1>2. /\ C(8).tools => C(9) = [C(8) EXCEPT !.on = con]
      /\ ~ C(8).tools => C(9) = C(8)
  BY <1>1 DEF After, ConfigAt, OrInsert, Filled
<1>3. LogAt(8, v, d) = LogAt(9, v, d) /\ (GroupMoves(8, v, d) <=> GroupMoves(9, v, d)) /\ W(8) = W(9)
  BY PartsLeft
<1>4. /\ M(8).there => M(9) = [M(8) EXCEPT !.on = mon]
      /\ ~ M(8).there => M(9) = M(8)
  BY <1>1, <1>3 DEF After, ManagementAt, OrInsert, Filled
<1>5. r = Whole(d.version, C(8), M(8), W(8))
  BY DEF After, Whole
<1>6. Failing(9, v, d) <=> M(8).there /\ ~ M(8).sound
  BY <1>1 DEF Failing, ManagementAt
<1>7. SessionsSwitch(r) = InRecords(InDefaults(r, con), mon)
  BY DEF SessionsSwitch, SwitchOn
<1> HIDE DEF con, mon, C, M, W
<1>8. CASE Failing(9, v, d)
  <2>1. M(8).there /\ ~ M(8).sound
    BY <1>6, <1>8
  <2>2. SessionsSwitch(r).failed = TRUE
    BY <1>5, <1>7, <2>1, SwitchesFail
  <2> QED BY <1>8, <2>2
<1>9. CASE ~ Failing(9, v, d)
  <2>1. ~ (M(8).there /\ ~ M(8).sound)
    BY <1>6, <1>9
  <2>2. SessionsSwitch(r) = Whole(d.version, C(9), M(9), W(8))
    BY <1>2, <1>4, <1>5, <1>7, <2>1, SwitchesSet
  <2>3. SessionsSwitch(r) = After(9, v, d)
    BY <1>3, <2>2 DEF After, Whole, C, M, W
  <2> QED BY <1>9, <2>3
<1> QED BY <1>8, <1>9

\* Step 2: the web search is on for new sessions and off for those there are, where nothing is
\* said of it, and searches with the account there is.
LEMMA WebSearchStep ==
  ASSUME NEW v \in Nat, v < 2, NEW d, NEW r, r = After(1, v, d), ~ Failing(1, v, d)
  PROVE  /\ Failing(2, v, d) => WebSearch(r).failed = TRUE
         /\ ~ Failing(2, v, d) => WebSearch(r) = After(2, v, d)
<1> DEFINE C(i) == ConfigAt(i, v, d)
           M(i) == ManagementAt(i, v, d)
           W(i) == WishAt(i, v, d)
           con == OrInsert(r.config.on, "web_search", "on")
           mon == OrInsert(r.management.on, "web_search", "off")
           between == IF C(1).tools THEN [C(1) EXCEPT !.on = con] ELSE C(1)
<1>1. /\ \A k \in Nat : k # 2 => (Due(2, v, k) <=> Due(1, v, k))
      /\ Due(2, v, 2) /\ ~ Due(1, v, 2)
  BY DueNow
<1>2. C(2) = [between EXCEPT !.search = IF between.search = "none" /\ between.codex THEN "borrowed" ELSE between.search]
  BY <1>1 DEF After, ConfigAt, OrInsert, Filled
<1>3. LogAt(1, v, d) = LogAt(2, v, d) /\ (GroupMoves(1, v, d) <=> GroupMoves(2, v, d)) /\ W(1) = W(2)
  BY PartsLeft
<1>4. /\ M(1).there => M(2) = [M(1) EXCEPT !.on = mon]
      /\ ~ M(1).there => M(2) = M(1)
  BY <1>1, <1>3 DEF After, ManagementAt, OrInsert, Filled
<1>5. r = Whole(d.version, C(1), M(1), W(1))
  BY DEF After, Whole
<1>6. Failing(2, v, d) <=> M(1).there /\ ~ M(1).sound
  BY <1>1 DEF Failing, ManagementAt
<1>7. WebSearch(r) = InRecords(AddCodexSearch(InDefaults(r, con)), mon)
  BY DEF WebSearch
<1>8. (C(1).tools => between = [C(1) EXCEPT !.on = con]) /\ (~ C(1).tools => between = C(1))
  OBVIOUS
<1> HIDE DEF con, mon, between, C, M, W
<1>9. InDefaults(r, con) = Whole(d.version, between, M(1), W(1))
  BY <1>5, <1>8, InDefaultsIs
<1>10. AddCodexSearch(Whole(d.version, between, M(1), W(1))) = Whole(d.version, C(2), M(1), W(1))
  BY <1>2, SearchSet
<1>11. WebSearch(r) = InRecords(Whole(d.version, C(2), M(1), W(1)), mon)
  BY <1>7, <1>9, <1>10
<1>12. CASE Failing(2, v, d)
  <2>1. M(1).there /\ ~ M(1).sound
    BY <1>6, <1>12
  <2>2. WebSearch(r).failed = TRUE
    BY <1>11, <2>1, InRecordsFails
  <2> QED BY <1>12, <2>2
<1>13. CASE ~ Failing(2, v, d)
  <2>1. ~ (M(1).there /\ ~ M(1).sound)
    BY <1>6, <1>13
  <2>2. WebSearch(r) = Whole(d.version, C(2), M(2), W(1))
    BY <1>4, <1>11, <2>1, InRecordsIs
  <2>3. WebSearch(r) = After(2, v, d)
    BY <1>3, <2>2 DEF After, Whole, C, M, W
  <2> QED BY <1>13, <2>3
<1> QED BY <1>12, <1>13

\* Step 3: batches that no session names go.
LEMMA BatchesStep ==
  ASSUME NEW v \in Nat, v < 3, NEW d, NEW r, r = After(2, v, d), ~ Failing(2, v, d)
  PROVE  ~ Failing(3, v, d) /\ ToolBatches(r) = After(3, v, d)
<1> DEFINE C(i) == ConfigAt(i, v, d)
           M(i) == ManagementAt(i, v, d)
           W(i) == WishAt(i, v, d)
<1>1. /\ \A k \in Nat : k # 3 => (Due(3, v, k) <=> Due(2, v, k))
      /\ Due(3, v, 3) /\ ~ Due(2, v, 3)
  BY DueNow
<1>2. C(3) = C(2) /\ M(3) = M(2) /\ ~ Failing(3, v, d) /\ (GroupMoves(3, v, d) <=> GroupMoves(2, v, d))
  BY PartsLeft
<1>3. W(3) = [W(2) EXCEPT !.batches = Named(W(2).batches)]
  BY <1>1, <1>2 DEF WishAt
<1>4. r = Whole(d.version, C(2), M(2), W(2))
  BY DEF After, Whole
<1> HIDE DEF C, M, W
<1>5. ToolBatches(r) = Whole(d.version, C(3), M(3), W(3))
  BY <1>2, <1>3, <1>4, BatchesSet
<1> QED BY <1>2, <1>5 DEF After, Whole, C, M, W

\* Step 5: outcomes are cut short.
LEMMA OutcomesStep ==
  ASSUME NEW v \in Nat, v < 5, NEW d, NEW r, r = After(4, v, d), ~ Failing(4, v, d)
  PROVE  ~ Failing(5, v, d) /\ ShortOutcomes(r) = After(5, v, d)
<1> DEFINE C(i) == ConfigAt(i, v, d)
           M(i) == ManagementAt(i, v, d)
           W(i) == WishAt(i, v, d)
<1>1. /\ \A k \in Nat : k # 5 => (Due(5, v, k) <=> Due(4, v, k))
      /\ Due(5, v, 5) /\ ~ Due(4, v, 5)
  BY DueNow
<1>2. /\ C(5) = C(4) /\ W(5) = W(4) /\ ~ Failing(5, v, d)
      /\ LogAt(5, v, d) = LogAt(4, v, d) /\ (GroupMoves(5, v, d) <=> GroupMoves(4, v, d))
  BY PartsLeft
<1>3. M(5) = [M(4) EXCEPT !.outcome = "short"]
  BY <1>1, <1>2 DEF ManagementAt
<1>4. r = Whole(d.version, C(4), M(4), W(4))
  BY DEF After, Whole
<1> HIDE DEF C, M, W
<1>5. ShortOutcomes(r) = Whole(d.version, C(5), M(5), W(5))
  BY <1>2, <1>3, <1>4, OutcomesSet
<1> QED BY <1>2, <1>5 DEF After, Whole, C, M, W

\* Step 6: lists that no session names go, unless it names no generations.
LEMMA ListsStep ==
  ASSUME NEW v \in Nat, v < 6, NEW d, NEW r, r = After(5, v, d), ~ Failing(5, v, d)
  PROVE  /\ Failing(6, v, d) => StandbyLists(r).failed = TRUE
         /\ ~ Failing(6, v, d) => StandbyLists(r) = After(6, v, d)
<1> DEFINE C(i) == ConfigAt(i, v, d)
           M(i) == ManagementAt(i, v, d)
           W(i) == WishAt(i, v, d)
<1>1. /\ \A k \in Nat : k # 6 => (Due(6, v, k) <=> Due(5, v, k))
      /\ Due(6, v, 6) /\ ~ Due(5, v, 6)
  BY DueNow
<1>2. C(6) = C(5) /\ M(6) = M(5) /\ (GroupMoves(6, v, d) <=> GroupMoves(5, v, d))
  BY PartsLeft
<1>3. /\ W(5).generations # "unknown" => W(6) = [W(5) EXCEPT !.lists = Named(W(5).lists)]
      /\ W(5).generations = "unknown" => W(6) = W(5)
  BY <1>1, <1>2 DEF WishAt
<1>4. r = Whole(d.version, C(5), M(5), W(5))
  BY DEF After, Whole
<1>5. Failing(6, v, d) <=> W(5).generations = "broken"
  BY <1>1 DEF Failing, WishAt
<1> HIDE DEF C, M, W
<1>6. W(5).generations = "broken" => StandbyLists(r).failed = TRUE
  BY <1>4, ListsFail
<1>7. W(5).generations # "broken" => StandbyLists(r) = Whole(d.version, C(6), M(6), W(6))
  BY <1>2, <1>3, <1>4, ListsSet
<1> QED BY <1>5, <1>6, <1>7 DEF After, Whole, C, M, W

\* Step 10: a group that was a session gets its tables.
LEMMA GroupTablesStep ==
  ASSUME NEW v \in Nat, v < 10, NEW d, NEW r, r = After(9, v, d), ~ Failing(9, v, d)
  PROVE  ~ Failing(10, v, d) /\ GroupTables(r) = After(10, v, d)
<1> DEFINE C(i) == ConfigAt(i, v, d)
           M(i) == ManagementAt(i, v, d)
           W(i) == WishAt(i, v, d)
<1>1. /\ \A k \in Nat : k # 10 => (Due(10, v, k) <=> Due(9, v, k))
      /\ Due(10, v, 10) /\ ~ Due(9, v, 10)
  BY DueNow
<1>2. C(10) = C(9) /\ ~ Failing(10, v, d)
  BY PartsLeft
<1>3. ~ GroupMoves(9, v, d) /\ ~ Due(9, v, 11) /\ ~ Due(10, v, 11)
  BY <1>1 DEF GroupMoves, Due
<1>4. GroupMoves(10, v, d) <=> M(9).there /\ M(9).group = "session"
  BY <1>1, <1>3 DEF GroupMoves, ManagementAt
<1>5. GroupMoves(10, v, d) => /\ M(10) = InTables(M(9), SaidByMembers(W(9).entries))
                         /\ W(10) = [W(9) EXCEPT !.entries = <<>>]
  <2>1. GroupMoves(10, v, d) => LogAt(10, v, d) = SaidByMembers(W(9).entries)
    BY <1>3 DEF LogAt, WishAt
  <2>2. ASSUME GroupMoves(10, v, d) PROVE M(10) = InTables(M(9), LogAt(10, v, d))
    <3> DEFINE with(log) == [there |-> M(9).there, sound |-> M(9).sound, on |-> M(9).on,
                     outcome |-> M(9).outcome, group |-> "tables", log |-> log,
                     notes |-> M(9).notes, folders |-> M(9).folders]
               between == [M(9) EXCEPT !.group = "tables"]
    <3>1. between = with(M(9).log)
      BY DEF ManagementAt
    <3>2. M(10) = with(LogAt(10, v, d))
      BY <1>1, <1>3, <2>2 DEF ManagementAt
    <3> HIDE DEF between, M
    <3>3. [between EXCEPT !.log = LogAt(10, v, d)] = with(LogAt(10, v, d))
      BY <3>1
    <3>4. M(10) = [between EXCEPT !.log = LogAt(10, v, d)]
      BY <3>2, <3>3
    <3> QED BY <3>4 DEF between, InTables
  <2>3. GroupMoves(10, v, d) => W(10) = [W(9) EXCEPT !.entries = <<>>]
    BY <1>1, <1>3 DEF WishAt
  <2> HIDE DEF M, W
  <2> QED BY <2>1, <2>2, <2>3
<1>6. ~ GroupMoves(10, v, d) => M(10) = M(9) /\ W(10) = W(9)
  <2>1. ~ GroupMoves(10, v, d) => LogAt(10, v, d) = LogAt(9, v, d)
    BY <1>3 DEF LogAt
  <2>2. ~ GroupMoves(10, v, d) => M(10) = M(9)
    BY <1>1, <1>3, <2>1 DEF ManagementAt
  <2>3. ~ GroupMoves(10, v, d) => W(10) = W(9)
    BY <1>1, <1>3 DEF WishAt
  <2> QED BY <2>2, <2>3
<1>7. r = Whole(d.version, C(9), M(9), W(9))
  BY DEF After, Whole
<1> HIDE DEF C, M, W
<1>8. CASE GroupMoves(10, v, d)
  <2>1. M(9).there /\ M(9).group = "session"
    BY <1>4, <1>8
  <2>2. GroupTables(r) = Whole(d.version, C(10), M(10), W(10))
    <3>1. M(10) = InTables(M(9), SaidByMembers(W(9).entries))
      BY <1>5, <1>8
    <3>2. W(10) = [W(9) EXCEPT !.entries = <<>>]
      BY <1>5, <1>8
    <3>3. GroupTables(Whole(d.version, C(9), M(9), W(9))) = Whole(d.version, C(9), M(10), W(10))
      BY <2>1, <3>1, <3>2, TablesSet
    <3> QED BY <1>2, <1>7, <3>3
  <2> QED BY <1>2, <2>2 DEF After, Whole, C, M, W
<1>9. CASE ~ GroupMoves(10, v, d)
  <2>1. GroupTables(r) = r
    BY <1>4, <1>7, <1>9, TablesLeft
  <2> QED BY <1>2, <1>6, <1>7, <1>9, <2>1 DEF After, Whole, C, M, W
<1> QED BY <1>8, <1>9

\* Step 11: groups have no limit, and no notes of the program.
LEMMA FreeGroupsStep ==
  ASSUME NEW v \in Nat, v < 11, NEW d, NEW r, r = After(10, v, d), ~ Failing(10, v, d)
  PROVE  ~ Failing(11, v, d) /\ FreeGroups(r) = After(11, v, d)
<1> DEFINE C(i) == ConfigAt(i, v, d)
           M(i) == ManagementAt(i, v, d)
           W(i) == WishAt(i, v, d)
<1>1. /\ \A k \in Nat : k # 11 => (Due(11, v, k) <=> Due(10, v, k))
      /\ Due(11, v, 11) /\ ~ Due(10, v, 11)
  BY DueNow
<1>2. W(11) = W(10) /\ ~ Failing(11, v, d)
  BY PartsLeft
<1>3. GroupMoves(11, v, d) <=> GroupMoves(10, v, d)
  BY <1>1 DEF GroupMoves
<1>4. C(11) = [C(10) EXCEPT !.limit = No]
  BY <1>1 DEF ConfigAt
<1>5. LogAt(11, v, d) = IF M(10).notes THEN WithoutNotes(LogAt(10, v, d)) ELSE LogAt(10, v, d)
  BY <1>1, <1>3 DEF ManagementAt, LogAt
<1>6. M(11) = Unnoted(M(10), LogAt(11, v, d))
  <2> DEFINE with(notes) == [there |-> M(10).there, sound |-> M(10).sound, on |-> M(10).on,
                     outcome |-> M(10).outcome, group |-> M(10).group, log |-> LogAt(11, v, d),
                     notes |-> notes, folders |-> M(10).folders]
             between == [M(10) EXCEPT !.log = LogAt(11, v, d)]
  <2>1. between = with(M(10).notes)
    BY DEF ManagementAt
  <2>2. M(11) = with(No)
    BY <1>1, <1>3 DEF ManagementAt
  <2> HIDE DEF between, M
  <2>3. [between EXCEPT !.notes = No] = with(No)
    BY <2>1
  <2>4. M(11) = [between EXCEPT !.notes = No]
    BY <2>2, <2>3
  <2> QED BY <2>4 DEF between, Unnoted
<1>7. M(10).log = LogAt(10, v, d)
  BY DEF ManagementAt
<1>8. r = Whole(d.version, C(10), M(10), W(10))
  BY DEF After, Whole
<1> HIDE DEF C, M, W
<1>9. FreeGroups(r) = Whole(d.version, C(11), M(11), W(11))
  <2>1. M(11) = Unnoted(M(10), IF M(10).notes THEN WithoutNotes(M(10).log) ELSE M(10).log)
    BY <1>5, <1>6, <1>7
  <2>2. FreeGroups(Whole(d.version, C(10), M(10), W(10))) = Whole(d.version, C(11), M(11), W(10))
    BY <1>4, <2>1, NotesSet
  <2> QED BY <1>2, <1>8, <2>2
<1> QED BY <1>2, <1>9 DEF After, Whole, C, M, W

\* Step 12: the list has its folders.
LEMMA InFoldersStep ==
  ASSUME NEW v \in Nat, v < 12, NEW d, NEW r, r = After(11, v, d), ~ Failing(11, v, d)
  PROVE  ~ Failing(12, v, d) /\ InFolders(r) = After(12, v, d)
<1> DEFINE C(i) == ConfigAt(i, v, d)
           M(i) == ManagementAt(i, v, d)
           W(i) == WishAt(i, v, d)
<1>1. /\ \A k \in Nat : k # 12 => (Due(12, v, k) <=> Due(11, v, k))
      /\ Due(12, v, 12) /\ ~ Due(11, v, 12)
  BY DueNow
<1>2. /\ C(12) = C(11) /\ W(12) = W(11) /\ ~ Failing(12, v, d)
      /\ LogAt(12, v, d) = LogAt(11, v, d) /\ (GroupMoves(12, v, d) <=> GroupMoves(11, v, d))
  BY PartsLeft
<1>3. M(12) = [M(11) EXCEPT !.folders = M(11).there]
  BY <1>1, <1>2 DEF ManagementAt
<1>4. r = Whole(d.version, C(11), M(11), W(11))
  BY DEF After, Whole
<1> HIDE DEF C, M, W
<1>5. InFolders(r) = Whole(d.version, C(12), M(12), W(12))
  BY <1>2, <1>3, <1>4, FoldersSet
<1> QED BY <1>2, <1>5 DEF After, Whole, C, M, W

\* Step 13: the program names itself.
LEMMA AgentStep ==
  ASSUME NEW v \in Nat, v < 13, NEW d, NEW r, r = After(12, v, d), ~ Failing(12, v, d)
  PROVE  ~ Failing(13, v, d) /\ AnthropicUserAgent(r) = After(13, v, d)
<1> DEFINE C(i) == ConfigAt(i, v, d)
           M(i) == ManagementAt(i, v, d)
           W(i) == WishAt(i, v, d)
<1>1. /\ \A k \in Nat : k # 13 => (Due(13, v, k) <=> Due(12, v, k))
      /\ Due(13, v, 13) /\ ~ Due(12, v, 13)
  BY DueNow
<1>2. M(13) = M(12) /\ W(13) = W(12) /\ ~ Failing(13, v, d)
  BY PartsLeft
<1>3. C(13) = [C(12) EXCEPT !.agent = "own"]
  BY <1>1 DEF ConfigAt
<1>4. r = Whole(d.version, C(12), M(12), W(12))
  BY DEF After, Whole
<1> HIDE DEF C, M, W
<1>5. AnthropicUserAgent(r) = Whole(d.version, C(13), M(13), W(13))
  BY <1>2, <1>3, <1>4, AgentSet
<1> QED BY <1>2, <1>5 DEF After, Whole, C, M, W

\* Step 14: history is delivered to new sessions, where nothing is said of it.
LEMMA HistoryStep ==
  ASSUME NEW v \in Nat, v < 14, NEW d, NEW r, r = After(13, v, d), ~ Failing(13, v, d)
  PROVE  ~ Failing(14, v, d) /\ HistoryDelivery(r) = After(14, v, d)
<1> DEFINE C(i) == ConfigAt(i, v, d)
           M(i) == ManagementAt(i, v, d)
           W(i) == WishAt(i, v, d)
           con == OrInsert(r.config.on, "history", "on")
<1>1. /\ \A k \in Nat : k # 14 => (Due(14, v, k) <=> Due(13, v, k))
      /\ Due(14, v, 14) /\ ~ Due(13, v, 14)
  BY DueNow
<1>2. M(14) = M(13) /\ W(14) = W(13) /\ ~ Failing(14, v, d)
  BY PartsLeft
<1>3. /\ C(13).tools => C(14) = [C(13) EXCEPT !.on = con]
      /\ ~ C(13).tools => C(14) = C(13)
  BY <1>1 DEF After, ConfigAt, OrInsert, Filled
<1>4. r = Whole(d.version, C(13), M(13), W(13))
  BY DEF After, Whole
<1>5. HistoryDelivery(r) = InDefaults(r, con)
  BY DEF HistoryDelivery
<1> HIDE DEF con, C, M, W
<1>6. HistoryDelivery(r) = Whole(d.version, C(14), M(14), W(14))
  BY <1>2, <1>3, <1>4, <1>5, InDefaultsIs
<1> QED BY <1>2, <1>6 DEF After, Whole, C, M, W

\* One step.
LEMMA StepIs ==
  ASSUME NEW v \in Nat, NEW n \in 0 .. 13, v < n + 1, NEW d, NEW r, r = After(n, v, d), ~ Failing(n, v, d)
  PROVE  /\ Failing(n + 1, v, d) => MigrationStep(r, n + 1).failed = TRUE
         /\ ~ Failing(n + 1, v, d) => MigrationStep(r, n + 1) = After(n + 1, v, d)
<1>1. CASE n = 0
  <2>1. MigrationStep(r, n + 1) = McpSwitch(r)
    BY <1>1 DEF MigrationStep
  <2>2. v < 1 /\ r = After(0, v, d) /\ ~ Failing(0, v, d) /\ n + 1 = 1
    BY <1>1
  <2>3. /\ Failing(1, v, d) => McpSwitch(r).failed = TRUE
        /\ ~ Failing(1, v, d) => McpSwitch(r) = After(1, v, d)
    BY <2>2, McpStep
  <2> QED BY <2>1, <2>2, <2>3
<1>2. CASE n = 1
  <2>1. MigrationStep(r, n + 1) = WebSearch(r)
    BY <1>2 DEF MigrationStep
  <2>2. v < 2 /\ r = After(1, v, d) /\ ~ Failing(1, v, d) /\ n + 1 = 2
    BY <1>2
  <2>3. /\ Failing(2, v, d) => WebSearch(r).failed = TRUE
        /\ ~ Failing(2, v, d) => WebSearch(r) = After(2, v, d)
    BY <2>2, WebSearchStep
  <2> QED BY <2>1, <2>2, <2>3
<1>3. CASE n = 2
  BY <1>3, BatchesStep DEF MigrationStep
<1>4. CASE n \in {3, 7}
  <2>1. ConfigAt(n + 1, v, d) = ConfigAt(n, v, d)
    BY <1>4, PartsLeft
  <2>2. ManagementAt(n + 1, v, d) = ManagementAt(n, v, d)
    BY <1>4, PartsLeft
  <2>3. WishAt(n + 1, v, d) = WishAt(n, v, d)
    BY <1>4, PartsLeft
  <2>4. ~ Failing(n + 1, v, d)
    BY <1>4, PartsLeft
  <2>5. MigrationStep(r, n + 1) = r
    BY <1>4 DEF MigrationStep
  <2> QED BY <2>1, <2>2, <2>3, <2>4, <2>5 DEF After
<1>5. CASE n = 4
  BY <1>5, OutcomesStep DEF MigrationStep
<1>6. CASE n = 5
  <2>1. MigrationStep(r, n + 1) = StandbyLists(r)
    BY <1>6 DEF MigrationStep
  <2>2. v < 6 /\ r = After(5, v, d) /\ ~ Failing(5, v, d) /\ n + 1 = 6
    BY <1>6
  <2>3. /\ Failing(6, v, d) => StandbyLists(r).failed = TRUE
        /\ ~ Failing(6, v, d) => StandbyLists(r) = After(6, v, d)
    BY <2>2, ListsStep
  <2> QED BY <2>1, <2>2, <2>3
<1>7. CASE n = 6
  <2>1. MigrationStep(r, n + 1) = SkillsSwitch(r)
    BY <1>7 DEF MigrationStep
  <2>2. v < 7 /\ r = After(6, v, d) /\ ~ Failing(6, v, d) /\ n + 1 = 7
    BY <1>7
  <2>3. /\ Failing(7, v, d) => SkillsSwitch(r).failed = TRUE
        /\ ~ Failing(7, v, d) => SkillsSwitch(r) = After(7, v, d)
    BY <2>2, SkillsStep
  <2> QED BY <2>1, <2>2, <2>3
<1>8. CASE n = 8
  <2>1. MigrationStep(r, n + 1) = SessionsSwitch(r)
    BY <1>8 DEF MigrationStep
  <2>2. v < 9 /\ r = After(8, v, d) /\ ~ Failing(8, v, d) /\ n + 1 = 9
    BY <1>8
  <2>3. /\ Failing(9, v, d) => SessionsSwitch(r).failed = TRUE
        /\ ~ Failing(9, v, d) => SessionsSwitch(r) = After(9, v, d)
    BY <2>2, SessionsStep
  <2> QED BY <2>1, <2>2, <2>3
<1>9. CASE n = 9
  BY <1>9, GroupTablesStep DEF MigrationStep
<1>10. CASE n = 10
  BY <1>10, FreeGroupsStep DEF MigrationStep
<1>11. CASE n = 11
  BY <1>11, InFoldersStep DEF MigrationStep
<1>12. CASE n = 12
  BY <1>12, AgentStep DEF MigrationStep
<1>13. CASE n = 13
  BY <1>13, HistoryStep DEF MigrationStep
<1>14. n \in {0, 1, 2, 3, 4, 5, 6, 7, 8, 9, 10, 11, 12, 13}
  OBVIOUS
<1> QED BY <1>1, <1>2, <1>3, <1>4, <1>5, <1>6, <1>7, <1>8, <1>9, <1>10, <1>11, <1>12, <1>13, <1>14

\* What a step makes of what is done so far.
StepOf(v, i, before) ==
  IF i <= v \/ before.failed THEN before ELSE MigrationStep(before, i)

\* The equation of the steps.
Succeed(g, v, d, n) == \A i \in 0 .. n : g[i] = IF i = 0 THEN d ELSE StepOf(v, i, g[i - 1])

\* Some function satisfies it.
LEMMA StepsExist ==
  ASSUME NEW v, NEW d, NEW n \in Nat
  PROVE  \E g : Succeed(g, v, d, n)
<1> DEFINE S == {k \in Nat : \E g : Succeed(g, v, d, k)}
<1>1. 0 \in S
  <2>1. Succeed([i \in {0} |-> d], v, d, 0)
    BY DEF Succeed
  <2> QED BY <2>1
<1>2. ASSUME NEW k \in S PROVE k + 1 \in S
  <2>1. PICK g : Succeed(g, v, d, k)
    BY <1>2
  <2> DEFINE h == [i \in 0 .. k + 1 |-> IF i = k + 1 THEN StepOf(v, k + 1, g[k]) ELSE g[i]]
  <2>2. ASSUME NEW i \in 0 .. k + 1
        PROVE  h[i] = IF i = 0 THEN d ELSE StepOf(v, i, h[i - 1])
    <3>1. k \in Nat
      OBVIOUS
    <3>2. CASE i = k + 1
      <4>1. h[k] = g[k] /\ i # 0 /\ i - 1 = k
        BY <3>1, <3>2
      <4>2. h[i] = StepOf(v, k + 1, g[k])
        BY <3>2
      <4> QED BY <3>2, <4>1, <4>2
    <3>3. CASE i # k + 1
      <4>1. i \in 0 .. k /\ h[i] = g[i]
        BY <3>1, <3>3
      <4>2. i # 0 => i - 1 \in 0 .. k + 1 /\ i - 1 # k + 1
        BY <3>1, <4>1
      <4>3. i # 0 => h[i - 1] = g[i - 1]
        BY <4>2
      <4>4. g[i] = IF i = 0 THEN d ELSE StepOf(v, i, g[i - 1])
        BY <2>1, <4>1 DEF Succeed
      <4> QED BY <4>1, <4>3, <4>4
    <3> QED BY <3>2, <3>3
  <2> HIDE DEF h
  <2>3. Succeed(h, v, d, k + 1)
    BY <2>2 DEF Succeed
  <2>4. k + 1 \in Nat
    OBVIOUS
  <2> QED BY <2>3, <2>4
<1>3. S = Nat
  <2>1. S \in SUBSET Nat
    OBVIOUS
  <2> HIDE DEF S
  <2> QED BY <1>1, <1>2, <2>1, Reached
<1> QED BY <1>3

\* The steps are applied one after the other.
LEMMA ApplyIs ==
  ASSUME NEW v, NEW d
  PROVE  \E g : Succeed(g, v, d, Latest) /\ ApplySteps(v, d) = g[Latest]
<1> DEFINE Q(g) == g = [i \in 0 .. Latest |-> IF i = 0 THEN d
                          ELSE IF i <= v \/ g[i - 1].failed THEN g[i - 1] ELSE MigrationStep(g[i - 1], i)]
           g == CHOOSE h : Q(h)
<1>1. \E h : Q(h)
  <2>1. PICK f : Succeed(f, v, d, Latest)
    BY StepsExist DEF Latest
  <2> DEFINE h == [i \in 0 .. Latest |-> f[i]]
  <2>2. ASSUME NEW i \in 0 .. Latest
        PROVE  h[i] = IF i = 0 THEN d
                      ELSE IF i <= v \/ h[i - 1].failed THEN h[i - 1] ELSE MigrationStep(h[i - 1], i)
    <3>1. i # 0 => i - 1 \in 0 .. Latest
      BY DEF Latest
    <3>2. i # 0 => h[i - 1] = f[i - 1]
      BY <3>1
    <3>3. f[i] = IF i = 0 THEN d ELSE StepOf(v, i, f[i - 1])
      BY <2>1 DEF Succeed
    <3> QED BY <3>2, <3>3 DEF StepOf
  <2>3. h = [i \in 0 .. Latest |-> h[i]]
    OBVIOUS
  <2> HIDE DEF h
  <2>4. Q(h)
    BY <2>2, <2>3
  <2> QED BY <2>4
<1>2. Q(g)
  BY <1>1
<1>3. ApplySteps(v, d) = g[Latest]
  BY DEF ApplySteps
<1> HIDE DEF g
<1>4. Succeed(g, v, d, Latest)
  BY <1>2 DEF Succeed, StepOf
<1> QED BY <1>3, <1>4

\* What all of them make of a directory: every field by itself, unless one of them fails.
LEMMA AppliedIs ==
  ASSUME NEW v \in Nat, NEW d, d = After(0, v, d)
  PROVE  /\ Failing(Latest, v, d) => ApplySteps(v, d).failed = TRUE
         /\ ~ Failing(Latest, v, d) => ApplySteps(v, d) = After(Latest, v, d)
<1>1. PICK g : Succeed(g, v, d, Latest) /\ ApplySteps(v, d) = g[Latest]
  BY ApplyIs
<1> DEFINE Fine(n) == /\ Failing(n, v, d) => g[n].failed = TRUE
                      /\ ~ Failing(n, v, d) => g[n] = After(n, v, d)
           S == {n \in Nat : n <= 14 => Fine(n)}
<1>2. 0 \in S
  <2>1. ~ Failing(0, v, d)
    BY DEF Failing, Due
  <2>2. g[0] = d
    BY <1>1 DEF Succeed, Latest
  <2> QED BY <2>1, <2>2
<1>3. ASSUME NEW n \in S PROVE n + 1 \in S
  <2>1. SUFFICES ASSUME n + 1 <= 14 PROVE Fine(n + 1)
    <3> HIDE DEF Fine
    <3> QED OBVIOUS
  <2>2. n \in 0 .. 13 /\ n \in Nat /\ Fine(n)
    BY <1>3, <2>1
  <2>3. g[n + 1] = StepOf(v, n + 1, g[n])
    BY <1>1, <2>2 DEF Succeed, Latest
  <2>4. CASE Failing(n, v, d)
    <3>1. Failing(n + 1, v, d)
      BY <2>2, <2>4 DEF Failing, Due
    <3> QED BY <2>2, <2>3, <2>4, <3>1 DEF StepOf
  <2>5. CASE ~ Failing(n, v, d) /\ n + 1 <= v
    <3>1. g[n + 1] = After(n, v, d)
      BY <2>2, <2>3, <2>5 DEF StepOf
    <3> QED BY <2>2, <2>5, <3>1, NotDue
  <2>6. CASE ~ Failing(n, v, d) /\ ~ (n + 1 <= v)
    <3>1. g[n] = After(n, v, d) /\ ~ g[n].failed
      BY <2>2, <2>6 DEF After, No
    <3>2. g[n + 1] = MigrationStep(g[n], n + 1)
      BY <2>3, <2>6, <3>1 DEF StepOf
    <3>3. v < n + 1
      BY <2>2, <2>6
    <3> QED BY <2>2, <2>6, <3>1, <3>2, <3>3, StepIs
  <2> QED BY <2>4, <2>5, <2>6
<1> HIDE DEF S
<1>4. S = Nat
  <2>1. S \in SUBSET Nat
    BY DEF S
  <2> QED BY <1>2, <1>3, <2>1, Reached
<1> QED BY <1>1, <1>4 DEF S, Latest

-----------------------------------------------------------------------------
(* The invariant. *)

\* What all steps make of the directory found first, and its records without the messages.
Done == After(Latest, first.version, first)
Gone(m) == [m EXCEPT !.log = <<>>]

\* A copy holds the messages of the group.
Copied == \E copy \in backups : copy.wish.entries = first.wish.entries

\* What is known of the directory found first.
Possible ==
  LET v == first.version
      c == first.config
      m == first.management
      w == first.wish
  IN  /\ v \in Nat /\ first = After(0, v, first)
      /\ c.limit \in BOOLEAN /\ m.there \in BOOLEAN /\ m.notes \in BOOLEAN
      /\ \A s \in Switch : c.on[s] = "absent" \/ m.on[s] = "absent" => v < Since[s]
      /\ m.folders = (v >= 12 /\ m.there)
      /\ m.group = "session" => m.there /\ v = 9
      /\ m.group # "session" => w.entries = <<>>
      /\ m.notes => v = 10
      /\ ~ m.notes => m.log = <<>>
      /\ m.log \in Seq(MessageAuthor) /\ w.entries \in Seq(MessageAuthor)
      /\ w.generations \in {"named", "unknown", "broken"}
      /\ w.batches \in {{"named"}, {"named", "left"}}
      /\ w.lists \in {{"named"}, {"named", "left"}}

Committing == {"commit_wish", "commit_management", "commit", "write_version"}

\* Where the directory stands: a newer one, a new one, one with steps to do, one that is done.
Newer == first.version > Latest /\ directory = first /\ migrating = "off"

Unwritten == NewDirectory /\ directory = first /\ migrating = "off" /\ chosen = "none"

Underway ==
  LET d == directory
  IN  /\ first.version < Latest /\ ~ NewDirectory /\ chosen = "none"
      /\ d = Whole(first.version, d.config, d.management, d.wish)
      /\ d.wish \in {first.wish, Done.wish}
      /\ d.management \in {first.management, Done.management, Gone(Done.management)}
      /\ d.config \in {first.config, Done.config}
      /\ d.management # first.management => d.wish = Done.wish
      /\ d # first => Copied /\ ~ Failing(Latest, first.version, first)
      /\ migrating \in {"off", "back_up", "apply_steps", "refused"} \cup Committing
      /\ migrating = "refused" => d = first
      /\ migrating = "apply_steps" => Copied
      /\ migrating \in Committing =>
           /\ Copied /\ ~ Failing(Latest, first.version, first)
           /\ work.config = Done.config /\ work.wish = Done.wish
           /\ work.management \in {Done.management, Gone(Done.management)}
           /\ migrating # "commit_wish" => d.wish = Done.wish
           /\ migrating \in {"commit", "write_version"} => d.management = work.management
           /\ migrating = "write_version" => d.config = Done.config

Settled ==
  /\ first.version <= Latest /\ migrating \in {"off", "serving"}
  /\ directory = Whole(Latest, WantedConfig, directory.management, WantedWish)
  /\ \/ directory.management = WantedManagement
     \/ directory.management = Gone(WantedManagement) /\ Copied

MigrationInv == Possible /\ (Newer \/ Unwritten \/ Underway \/ Settled)

-----------------------------------------------------------------------------
(* What is known of the first directory, and what is wanted of it. *)

\* Of no messages none is kept.
LEMMA NothingSaid ==
  ASSUME NEW authors
  PROVE  SaidBy(authors, <<>>) = <<>>
<1> DEFINE log == <<>>
           Q(g) == g = [i \in 0 .. Len(log) |->
                          IF i = 0 THEN <<>>
                          ELSE IF log[i] \in authors THEN Append(g[i - 1], log[i]) ELSE g[i - 1]]
           g == CHOOSE h : Q(h)
<1>1. Q([i \in 0 .. 0 |-> <<>>])
  <2>1. \A i \in 0 .. 0 : i = 0
    OBVIOUS
  <2>2. Len(log) = 0
    OBVIOUS
  <2> QED BY <2>1, <2>2
<1>2. Q(g)
  <2> HIDE DEF Q
  <2> QED BY <1>1
<1>3. SaidBy(authors, <<>>) = g[Len(log)]
  BY DEF SaidBy
<1>4. Len(log) = 0 /\ 0 \in 0 .. Len(log)
  OBVIOUS
<1> HIDE DEF g, log
<1> QED BY <1>2, <1>3, <1>4

\* Whoever is not the program is a member.
LEMMA MembersAreOthers ==
  ASSUME NEW log
  PROVE  WithoutNotes(log) = SaidByMembers(log)
<1>1. MessageAuthor \ {"wish"} = {"user", "session"}
  BY DEF MessageAuthor
<1> QED BY <1>1 DEF WithoutNotes, SaidByMembers

\* A record of switches, one by one.
LEMMA SwitchRecord ==
  ASSUME NEW f, f = [s \in Switch |-> f[s]]
  PROVE  f = [mcp |-> f["mcp"], web_search |-> f["web_search"], skills |-> f["skills"],
              sessions |-> f["sessions"], history |-> f["history"]]
  BY DEF Switch

\* Before any step a directory is what it is.
LEMMA Untouched ==
  ASSUME NEW v \in Nat, NEW d, NEW c, NEW m, NEW w, d = Whole(v, c, m, w),
         c = [tools |-> c.tools, codex |-> c.codex, on |-> c.on, search |-> c.search,
              limit |-> c.limit, agent |-> c.agent],
         c.on = [s \in Switch |-> c.on[s]],
         m = [there |-> m.there, sound |-> m.sound, on |-> m.on, outcome |-> m.outcome, group |-> m.group,
              log |-> m.log, notes |-> m.notes, folders |-> m.folders],
         m.on = [s \in Switch |-> m.on[s]],
         w = [there |-> w.there, generations |-> w.generations, batches |-> w.batches, lists |-> w.lists,
              entries |-> w.entries]
  PROVE  d = After(0, v, d)
<1>1. \A i \in 1 .. 14 : ~ Due(0, v, i)
  BY DEF Due
<1>2. d.version = v /\ d.config = c /\ d.management = m /\ d.wish = w
  BY DEF Whole
<1>3. ConfigAt(0, v, d) = c
  <2>1. c.on = [mcp |-> c.on["mcp"], web_search |-> c.on["web_search"], skills |-> c.on["skills"],
                sessions |-> c.on["sessions"], history |-> c.on["history"]]
    BY SwitchRecord
  <2>2. ConfigAt(0, v, d) =
          [tools |-> c.tools, codex |-> c.codex,
           on |-> [mcp |-> c.on["mcp"], web_search |-> c.on["web_search"], skills |-> c.on["skills"],
                   sessions |-> c.on["sessions"], history |-> c.on["history"]],
           search |-> c.search, limit |-> c.limit, agent |-> c.agent]
    BY <1>1, <1>2 DEF ConfigAt, Filled
  <2> QED BY <2>1, <2>2
<1>4. ~ GroupMoves(0, v, d)
  BY <1>1 DEF GroupMoves
<1>5. ManagementAt(0, v, d) = m
  <2>1. m.on = [mcp |-> m.on["mcp"], web_search |-> m.on["web_search"], skills |-> m.on["skills"],
                sessions |-> m.on["sessions"], history |-> m.on["history"]]
    BY SwitchRecord
  <2>2. ManagementAt(0, v, d) =
          [there |-> m.there, sound |-> m.sound,
           on |-> [mcp |-> m.on["mcp"], web_search |-> m.on["web_search"], skills |-> m.on["skills"],
                   sessions |-> m.on["sessions"], history |-> m.on["history"]],
           outcome |-> m.outcome, group |-> m.group, log |-> m.log, notes |-> m.notes, folders |-> m.folders]
    BY <1>1, <1>2, <1>4 DEF ManagementAt, LogAt, Filled
  <2> QED BY <2>1, <2>2
<1>6. WishAt(0, v, d) = w
  BY <1>1, <1>2, <1>4 DEF WishAt
<1> QED BY <1>2, <1>3, <1>5, <1>6 DEF After, Whole

\* What a build leaves is possible.
LEMMA FirstPossible ==
  ASSUME MigrationAssumption, MigrationInit
  PROVE  Possible
<1>1. PICK version \in Versions, old \in BOOLEAN, early \in BOOLEAN, tools \in BOOLEAN, sound \in BOOLEAN,
           dbs \in SUBSET {"management", "wish"}, generations \in {"named", "unknown", "broken"} :
           first = Built(version, old, early, tools, dbs, sound, generations)
  BY DEF MigrationInit
<1> DEFINE v == first.version
           c == first.config
           m == first.management
           w == first.wish
           grouped == old /\ version \in {9, 10} /\ "management" \in dbs
           said == <<"user", "wish", "session">>
<1>2. version \in Nat
  BY DEF MigrationAssumption
<1>3. /\ first = [version |-> v, failed |-> No, config |-> c, management |-> m, wish |-> w]
      /\ v = version
  BY <1>1 DEF Built, No
<1>4. /\ c = [tools |-> c.tools, codex |-> c.codex, on |-> c.on, search |-> c.search,
              limit |-> c.limit, agent |-> c.agent]
      /\ c.on = Switches(version, early, "off")
      /\ c.limit = (old /\ version < 11)
  BY <1>1 DEF Built
<1>5. /\ m = [there |-> m.there, sound |-> m.sound, on |-> m.on, outcome |-> m.outcome, group |-> m.group,
              log |-> m.log, notes |-> m.notes, folders |-> m.folders]
      /\ m.on = Switches(version, FALSE, "off")
      /\ m.there = ("management" \in dbs)
      /\ m.group = IF ~ grouped THEN "none" ELSE IF version = 9 THEN "session" ELSE "tables"
      /\ m.log = IF grouped /\ version = 10 THEN said ELSE <<>>
      /\ m.notes = (grouped /\ version = 10)
      /\ m.folders = (version >= 12 /\ "management" \in dbs)
  BY <1>1 DEF Built
<1>6. /\ w = [there |-> w.there, generations |-> w.generations, batches |-> w.batches, lists |-> w.lists,
              entries |-> w.entries]
      /\ w.batches = IF old /\ version < 3 /\ "wish" \in dbs THEN {"named", "left"} ELSE {"named"}
      /\ w.lists = IF old /\ version < 6 /\ "wish" \in dbs THEN {"named", "left"} ELSE {"named"}
      /\ w.entries = IF grouped /\ version = 9 /\ "wish" \in dbs THEN said ELSE <<>>
  BY <1>1 DEF Built
<1>7. /\ c.on = [s \in Switch |-> c.on[s]] /\ m.on = [s \in Switch |-> m.on[s]]
      /\ \A s \in Switch : c.on[s] = "absent" \/ m.on[s] = "absent" => ~ (Since[s] <= version)
  BY <1>4, <1>5 DEF Switches
<1>8. \A s \in Switch : Since[s] \in Nat
  BY DEF Since, Switch
<1>9. said \in Seq(MessageAuthor)
  BY DEF MessageAuthor
<1> HIDE DEF said
<1>10. first = After(0, v, first)
  <2>1. first = Whole(v, c, m, w)
    BY <1>3 DEF Whole
  <2>2. v \in Nat
    BY <1>2, <1>3
  <2> HIDE DEF v, c, m, w
  <2> QED BY <1>4, <1>5, <1>6, <1>7, <2>1, <2>2, Untouched
<1>11. c.limit \in BOOLEAN /\ m.there \in BOOLEAN /\ m.notes \in BOOLEAN /\ v \in Nat
  BY <1>2, <1>3, <1>4, <1>5
<1>12. \A s \in Switch : c.on[s] = "absent" \/ m.on[s] = "absent" => v < Since[s]
  BY <1>2, <1>3, <1>7, <1>8
<1>13. /\ m.folders = (v >= 12 /\ m.there)
       /\ m.group = "session" => m.there /\ v = 9
       /\ m.group # "session" => w.entries = <<>>
       /\ m.notes => v = 10
       /\ ~ m.notes => m.log = <<>>
  BY <1>2, <1>3, <1>5, <1>6
<1>14. m.log \in Seq(MessageAuthor) /\ w.entries \in Seq(MessageAuthor)
  BY <1>5, <1>6, <1>9
<1>15. w.batches \in {{"named"}, {"named", "left"}} /\ w.lists \in {{"named"}, {"named", "left"}}
  BY <1>6
<1>16. w.generations \in {"named", "unknown", "broken"}
  BY <1>1 DEF Built
<1> QED BY <1>10, <1>11, <1>12, <1>13, <1>14, <1>15, <1>16 DEF Possible

\* The steps done once make the directory that is wanted.
LEMMA DoneWanted ==
  ASSUME Possible, first.version <= Latest, ~ NewDirectory, chosen = "none",
         ~ Failing(Latest, first.version, first)
  PROVE  Done.config = WantedConfig /\ Done.management = WantedManagement /\ Done.wish = WantedWish
<1> DEFINE v == first.version
           c == first.config
           m == first.management
           w == first.wish
<1>1. \A i \in 1 .. 14 : /\ Due(Latest, v, i) <=> v < i
                         /\ Behind(i) <=> v < i
  BY DEF Possible, Due, Behind, Latest
<1>2. /\ Done.config = ConfigAt(Latest, v, first) /\ Done.management = ManagementAt(Latest, v, first)
      /\ Done.wish = WishAt(Latest, v, first)
  BY DEF Done, After
<1>3. /\ v \in Nat /\ c.limit \in BOOLEAN /\ m.there \in BOOLEAN /\ m.notes \in BOOLEAN
      /\ \A s \in Switch : c.on[s] = "absent" \/ m.on[s] = "absent" => v < Since[s]
  BY DEF Possible
<1>4. /\ ~ (c.on["mcp"] = "absent") /\ ~ (m.on["mcp"] = "absent")
      /\ c.on["web_search"] = "absent" \/ m.on["web_search"] = "absent" => v < 2
      /\ c.on["skills"] = "absent" \/ m.on["skills"] = "absent" => v < 7
      /\ c.on["sessions"] = "absent" \/ m.on["sessions"] = "absent" => v < 9
      /\ c.on["history"] = "absent" \/ m.on["history"] = "absent" => v < 14
  BY <1>3 DEF Switch, Since
<1>5. Done.config = WantedConfig
  <2> DEFINE f == [s \in Switch |-> WantedDefault(s)]
             due(i) == c.tools /\ Due(Latest, v, i)
  <2>1. f = [mcp |-> f["mcp"], web_search |-> f["web_search"], skills |-> f["skills"],
             sessions |-> f["sessions"], history |-> f["history"]]
    BY SwitchRecord
  <2>2. /\ f["mcp"] = IF due(1) THEN "on" ELSE c.on["mcp"]
        /\ f["web_search"] = Filled(c.on, "web_search", "on", due(2))
        /\ f["skills"] = Filled(c.on, "skills", "on", due(7))
        /\ f["sessions"] = Filled(c.on, "sessions", "on", due(9))
        /\ f["history"] = Filled(c.on, "history", "on", due(14))
    BY <1>1, <1>4 DEF WantedDefault, Filled, Switch
  <2>3. (IF Due(Latest, v, 11) THEN No ELSE c.limit) = (c.limit /\ ~ Behind(11))
    <3>1. Due(Latest, v, 11) <=> Behind(11)
      BY <1>1
    <3> QED BY <1>3, <3>1, Zenon DEF No
  <2> HIDE DEF f
  <2>4. WantedConfig =
          [tools |-> c.tools, codex |-> c.codex, on |-> f,
           search |-> IF Due(Latest, v, 2) /\ c.search = "none" /\ c.codex THEN "borrowed" ELSE c.search,
           limit |-> IF Due(Latest, v, 11) THEN No ELSE c.limit,
           agent |-> IF Due(Latest, v, 13) THEN "own" ELSE c.agent]
    BY <1>1, <2>3 DEF WantedConfig, f
  <2> QED BY <1>2, <2>1, <2>2, <2>4 DEF ConfigAt
<1>6. Done.management = WantedManagement
  <2> DEFINE f == [s \in Switch |-> WantedRecorded(s)]
             due(i) == m.there /\ Due(Latest, v, i)
  <2>1. f = [mcp |-> f["mcp"], web_search |-> f["web_search"], skills |-> f["skills"],
             sessions |-> f["sessions"], history |-> f["history"]]
    BY SwitchRecord
  <2>2. /\ f["mcp"] = IF due(1) THEN "on" ELSE m.on["mcp"]
        /\ f["web_search"] = Filled(m.on, "web_search", "off", due(2))
        /\ f["skills"] = Filled(m.on, "skills", "on", due(7))
        /\ f["sessions"] = Filled(m.on, "sessions", "on", due(9))
        /\ f["history"] = m.on["history"]
    BY <1>1, <1>4 DEF WantedRecorded, Filled, Switch
  <2>3. GroupMoves(Latest, v, first) <=> m.group = "session"
    BY <1>1 DEF GroupMoves, Possible
  <2>4. LogAt(Latest, v, first) = SaidByMembers(w.entries \o m.log)
    <3>1. CASE m.group = "session"
      <4>1. ~ m.notes /\ m.log = <<>> /\ w.entries \in Seq(MessageAuthor)
        BY <3>1 DEF Possible
      <4>2. w.entries \o m.log = w.entries
        BY <4>1, ConcatEmptySeq
      <4> QED BY <2>3, <3>1, <4>1, <4>2 DEF LogAt
    <3>2. CASE m.group # "session" /\ m.notes
      <4>1. w.entries = <<>> /\ m.log \in Seq(MessageAuthor) /\ v = 10
        BY <3>2 DEF Possible
      <4>2. w.entries \o m.log = m.log
        BY <4>1, ConcatEmptySeq
      <4>3. Due(Latest, v, 11)
        BY <1>1, <4>1
      <4> QED BY <2>3, <3>2, <4>2, <4>3, MembersAreOthers DEF LogAt
    <3>3. CASE m.group # "session" /\ ~ m.notes
      <4>1. w.entries \o m.log = <<>> /\ m.log = <<>>
        BY <3>3 DEF Possible
      <4> QED BY <2>3, <3>3, <4>1, NothingSaid DEF LogAt, SaidByMembers
    <3> QED BY <3>1, <3>2, <3>3
  <2>5. (IF Due(Latest, v, 11) THEN No ELSE m.notes) = No
    BY <1>1, <1>3 DEF No, Possible
  <2>6. (IF Due(Latest, v, 12) THEN m.there ELSE m.folders) = m.there
    BY <1>1, <1>3 DEF Possible
  <2> HIDE DEF f
  <2>7. ManagementAt(Latest, v, first) =
          [there |-> m.there, sound |-> m.sound, on |-> f,
           outcome |-> IF Behind(5) THEN "short" ELSE m.outcome,
           group |-> IF m.group = "session" THEN "tables" ELSE m.group,
           log |-> SaidByMembers(w.entries \o m.log), notes |-> No, folders |-> m.there]
    BY <1>1, <2>1, <2>2, <2>3, <2>4, <2>5, <2>6 DEF ManagementAt
  <2> QED BY <1>2, <2>7 DEF WantedManagement, f, No
<1>7. Done.wish = WantedWish
  <2>0. Named({"named"}) = {"named"} /\ Named({"named", "left"}) = {"named"}
    BY DEF Named
  <2>1. (IF Due(Latest, v, 3) THEN Named(w.batches) ELSE w.batches) = IF Behind(3) THEN {"named"} ELSE w.batches
    <3>1. Due(Latest, v, 3) <=> Behind(3)
      BY <1>1
    <3>2. w.batches = {"named"} \/ w.batches = {"named", "left"}
      BY DEF Possible
    <3>3. Named(w.batches) = {"named"}
      BY <2>0, <3>2
    <3> HIDE DEF v, w
    <3> QED BY <3>1, <3>3
  <2>2. v < 6 => w.generations # "broken"
    BY <1>1 DEF Failing
  <2>3. (IF Due(Latest, v, 6) /\ w.generations # "unknown" THEN Named(w.lists) ELSE w.lists)
          = IF Behind(6) /\ w.generations = "named" THEN {"named"} ELSE w.lists
    <3>1. Due(Latest, v, 6) <=> Behind(6)
      BY <1>1
    <3>2. w.lists = {"named"} \/ w.lists = {"named", "left"}
      BY DEF Possible
    <3>3. Named(w.lists) = {"named"}
      BY <2>0, <3>2
    <3>4. Due(Latest, v, 6) => (w.generations # "unknown" <=> w.generations = "named")
      BY <1>1, <2>2 DEF Possible
    <3> HIDE DEF v, w
    <3> QED BY <3>1, <3>3, <3>4
  <2>4. (IF GroupMoves(Latest, v, first) THEN <<>> ELSE w.entries) = <<>>
    BY <1>1 DEF Possible, GroupMoves
  <2> QED BY <1>2, <2>1, <2>3, <2>4 DEF WishAt, WantedWish
<1> QED BY <1>5, <1>6, <1>7

\* A new directory is wanted as it is.
LEMMA NewWanted ==
  ASSUME Possible, NewDirectory, chosen = "none"
  PROVE  first.config = WantedConfig /\ first.management = WantedManagement /\ first.wish = WantedWish
<1> DEFINE v == first.version
           c == first.config
           m == first.management
           w == first.wish
<1>1. v = 0 /\ ~ m.there /\ ~ w.there /\ \A i \in Nat : ~ Behind(i)
  BY DEF NewDirectory, Behind, HasDatabase, Unmarked
<1>2. /\ first = After(0, v, first) /\ c.limit \in BOOLEAN /\ m.there \in BOOLEAN /\ m.notes \in BOOLEAN
  BY DEF Possible
<1>3. c = ConfigAt(0, v, first) /\ m = ManagementAt(0, v, first) /\ w = WishAt(0, v, first)
  BY <1>2 DEF After
<1>4. m.group # "session" /\ w.entries = <<>> /\ ~ m.notes /\ m.log = <<>> /\ m.folders = m.there
  BY <1>1, <1>2 DEF Possible
<1>5. \A i \in 1 .. 14 : ~ Due(0, v, i)
  BY <1>1 DEF Due
<1>6. c = WantedConfig
  <2> DEFINE f == [s \in Switch |-> WantedDefault(s)]
  <2>1. f = [mcp |-> f["mcp"], web_search |-> f["web_search"], skills |-> f["skills"],
             sessions |-> f["sessions"], history |-> f["history"]]
    BY SwitchRecord
  <2>2. \A s \in Switch : f[s] = c.on[s]
    BY <1>1 DEF WantedDefault
  <2>3. /\ f["mcp"] = c.on["mcp"] /\ f["web_search"] = c.on["web_search"] /\ f["skills"] = c.on["skills"]
        /\ f["sessions"] = c.on["sessions"] /\ f["history"] = c.on["history"]
    BY <2>2 DEF Switch
  <2>4. (c.limit /\ ~ Behind(11)) = c.limit
    <3>1. ~ Behind(11)
      BY <1>1
    <3> QED BY <1>2, <3>1, Zenon
  <2> HIDE DEF f
  <2>5. WantedConfig = [tools |-> c.tools, codex |-> c.codex, on |-> f, search |-> c.search,
                        limit |-> c.limit, agent |-> c.agent]
    BY <1>1, <2>4 DEF WantedConfig, f
  <2>6. ConfigAt(0, v, first) = [tools |-> c.tools, codex |-> c.codex, on |-> f, search |-> c.search,
                                 limit |-> c.limit, agent |-> c.agent]
    BY <1>5, <2>1, <2>3 DEF ConfigAt, Filled
  <2> QED BY <1>3, <2>5, <2>6
<1>7. m = WantedManagement
  <2> DEFINE f == [s \in Switch |-> WantedRecorded(s)]
  <2>1. f = [mcp |-> f["mcp"], web_search |-> f["web_search"], skills |-> f["skills"],
             sessions |-> f["sessions"], history |-> f["history"]]
    BY SwitchRecord
  <2>2. \A s \in Switch : f[s] = m.on[s]
    BY <1>1 DEF WantedRecorded
  <2>3. /\ f["mcp"] = m.on["mcp"] /\ f["web_search"] = m.on["web_search"] /\ f["skills"] = m.on["skills"]
        /\ f["sessions"] = m.on["sessions"] /\ f["history"] = m.on["history"]
    BY <2>2 DEF Switch
  <2>4. SaidByMembers(w.entries \o m.log) = m.log
    <3>1. w.entries \o m.log = <<>>
      BY <1>4
    <3> QED BY <1>4, <3>1, NothingSaid DEF SaidByMembers
  <2>5. m.notes = No
    BY <1>2, <1>4 DEF No
  <2>6. ~ GroupMoves(0, v, first)
    BY <1>5 DEF GroupMoves
  <2> HIDE DEF f
  <2>7. ManagementAt(0, v, first) =
          [there |-> m.there, sound |-> m.sound, on |-> f, outcome |-> m.outcome, group |-> m.group,
           log |-> m.log, notes |-> m.notes, folders |-> m.folders]
    BY <1>5, <2>1, <2>3, <2>6 DEF ManagementAt, LogAt, Filled
  <2>8. WantedManagement =
          [there |-> m.there, sound |-> m.sound, on |-> f, outcome |-> m.outcome, group |-> m.group,
           log |-> m.log, notes |-> No, folders |-> m.there]
    BY <1>1, <1>4, <2>4 DEF WantedManagement, f, No
  <2> QED BY <1>3, <1>4, <2>5, <2>7, <2>8
<1>8. w = WantedWish
  <2>1. WishAt(0, v, first) =
          [there |-> w.there, generations |-> w.generations, batches |-> w.batches, lists |-> w.lists,
           entries |-> w.entries]
    BY <1>5 DEF WishAt, GroupMoves
  <2>2. WantedWish =
          [there |-> w.there, generations |-> w.generations, batches |-> w.batches, lists |-> w.lists,
           entries |-> w.entries]
    BY <1>1, <1>4 DEF WantedWish
  <2> QED BY <1>3, <2>1, <2>2
<1> QED BY <1>6, <1>7, <1>8

-----------------------------------------------------------------------------
(* The steps, done again. *)

\* A record of the switches is a function on them.
LEMMA SwitchFunction ==
  ASSUME NEW a, NEW b, NEW c, NEW d, NEW e, NEW f,
         f = [mcp |-> a, web_search |-> b, skills |-> c, sessions |-> d, history |-> e]
  PROVE  f = [s \in Switch |-> f[s]]
  BY DEF Switch

\* The fields of a part, after any number of steps.
ConfigFields(c) ==
  /\ c = [tools |-> c.tools, codex |-> c.codex, on |-> c.on, search |-> c.search,
          limit |-> c.limit, agent |-> c.agent]
  /\ c.on = [s \in Switch |-> c.on[s]]

ManagementFields(m) ==
  /\ m = [there |-> m.there, sound |-> m.sound, on |-> m.on, outcome |-> m.outcome, group |-> m.group,
          log |-> m.log, notes |-> m.notes, folders |-> m.folders]
  /\ m.on = [s \in Switch |-> m.on[s]]

WishFields(w) ==
  w = [there |-> w.there, generations |-> w.generations, batches |-> w.batches, lists |-> w.lists,
       entries |-> w.entries]

\* A part made by steps has its fields.
LEMMA PartsShaped ==
  ASSUME NEW n, NEW v, NEW d
  PROVE  /\ ConfigFields(ConfigAt(n, v, d)) /\ WishFields(WishAt(n, v, d))
         /\ ManagementFields(ManagementAt(n, v, d))
<1>1. ConfigFields(ConfigAt(n, v, d))
  <2> DEFINE c == ConfigAt(n, v, d)
  <2>1. c = [tools |-> c.tools, codex |-> c.codex, on |-> c.on, search |-> c.search,
             limit |-> c.limit, agent |-> c.agent]
    BY DEF ConfigAt
  <2>2. c.on = [mcp |-> IF d.config.tools /\ Due(n, v, 1) THEN "on" ELSE d.config.on["mcp"],
                web_search |-> Filled(d.config.on, "web_search", "on", d.config.tools /\ Due(n, v, 2)),
                skills |-> Filled(d.config.on, "skills", "on", d.config.tools /\ Due(n, v, 7)),
                sessions |-> Filled(d.config.on, "sessions", "on", d.config.tools /\ Due(n, v, 9)),
                history |-> Filled(d.config.on, "history", "on", d.config.tools /\ Due(n, v, 14))]
    BY DEF ConfigAt
  <2>3. c.on = [s \in Switch |-> c.on[s]]
    BY <2>2, SwitchFunction
  <2> HIDE DEF c
  <2> QED BY <2>1, <2>3 DEF ConfigFields, c
<1>2. ManagementFields(ManagementAt(n, v, d))
  <2> DEFINE m == ManagementAt(n, v, d)
  <2>1. m = [there |-> m.there, sound |-> m.sound, on |-> m.on, outcome |-> m.outcome, group |-> m.group,
             log |-> m.log, notes |-> m.notes, folders |-> m.folders]
    BY DEF ManagementAt
  <2>2. m.on = [mcp |-> IF d.management.there /\ Due(n, v, 1) THEN "on" ELSE d.management.on["mcp"],
                web_search |-> Filled(d.management.on, "web_search", "off", d.management.there /\ Due(n, v, 2)),
                skills |-> Filled(d.management.on, "skills", "on", d.management.there /\ Due(n, v, 7)),
                sessions |-> Filled(d.management.on, "sessions", "on", d.management.there /\ Due(n, v, 9)),
                history |-> d.management.on["history"]]
    BY DEF ManagementAt
  <2>3. m.on = [s \in Switch |-> m.on[s]]
    BY <2>2, SwitchFunction
  <2> QED BY <2>1, <2>3 DEF ManagementFields
<1>3. WishFields(WishAt(n, v, d))
  BY DEF WishAt, WishFields
<1> QED BY <1>1, <1>2, <1>3

\* What a directory without its messages keeps.
LEMMA GoneIs ==
  ASSUME NEW m, ManagementFields(m), NEW g, g = Gone(m)
  PROVE  /\ ManagementFields(g)
         /\ g.there = m.there /\ g.sound = m.sound /\ g.on = m.on /\ g.outcome = m.outcome
         /\ g.group = m.group /\ g.log = <<>> /\ g.notes = m.notes /\ g.folders = m.folders
         /\ g = [there |-> m.there, sound |-> m.sound, on |-> m.on, outcome |-> m.outcome, group |-> m.group,
                 log |-> <<>>, notes |-> m.notes, folders |-> m.folders]
<1>1. g = [there |-> m.there, sound |-> m.sound, on |-> m.on, outcome |-> m.outcome, group |-> m.group,
           log |-> <<>>, notes |-> m.notes, folders |-> m.folders]
  BY DEF ManagementFields, Gone
<1> QED BY <1>1 DEF ManagementFields

\* The steps may be done again on a configuration they were done on.
LEMMA ConfigAgain ==
  ASSUME NEW v, NEW d, NEW e, d.config \in {e.config, ConfigAt(Latest, v, e)}
  PROVE  ConfigAt(Latest, v, d) = ConfigAt(Latest, v, e)
<1>1. CASE d.config = e.config
  BY <1>1 DEF ConfigAt
<1>2. CASE d.config = ConfigAt(Latest, v, e)
  <2> DEFINE c == e.config
             x == d.config
             due(i) == Due(Latest, v, i)
             tools(i) == c.tools /\ due(i)
  <2>1. /\ x.tools = c.tools /\ x.codex = c.codex
        /\ x.search = IF due(2) /\ c.search = "none" /\ c.codex THEN "borrowed" ELSE c.search
        /\ x.limit = IF due(11) THEN No ELSE c.limit
        /\ x.agent = IF due(13) THEN "own" ELSE c.agent
    BY <1>2 DEF ConfigAt
  <2>2. /\ x.on["mcp"] = IF tools(1) THEN "on" ELSE c.on["mcp"]
        /\ x.on["web_search"] = Filled(c.on, "web_search", "on", tools(2))
        /\ x.on["skills"] = Filled(c.on, "skills", "on", tools(7))
        /\ x.on["sessions"] = Filled(c.on, "sessions", "on", tools(9))
        /\ x.on["history"] = Filled(c.on, "history", "on", tools(14))
    BY <1>2 DEF ConfigAt
  <2>3. /\ (IF tools(1) THEN "on" ELSE x.on["mcp"]) = IF tools(1) THEN "on" ELSE c.on["mcp"]
        /\ Filled(x.on, "web_search", "on", tools(2)) = Filled(c.on, "web_search", "on", tools(2))
        /\ Filled(x.on, "skills", "on", tools(7)) = Filled(c.on, "skills", "on", tools(7))
        /\ Filled(x.on, "sessions", "on", tools(9)) = Filled(c.on, "sessions", "on", tools(9))
        /\ Filled(x.on, "history", "on", tools(14)) = Filled(c.on, "history", "on", tools(14))
    BY <2>2 DEF Filled
  <2>4. /\ (IF due(2) /\ x.search = "none" /\ x.codex THEN "borrowed" ELSE x.search) = x.search
        /\ (IF due(11) THEN No ELSE x.limit) = x.limit
        /\ (IF due(13) THEN "own" ELSE x.agent) = x.agent
    BY <2>1
  <2> QED BY <2>1, <2>3, <2>4 DEF ConfigAt
<1> QED BY <1>1, <1>2

\* A group that is a session moves when its turn comes; then none is, and no message is left there.
LEMMA DoneGroup ==
  ASSUME Possible, first.version < Latest
  PROVE  /\ GroupMoves(Latest, first.version, first) <=> first.management.group = "session"
         /\ Done.management.group # "session" /\ ~ Done.management.notes
         /\ Done.wish.entries = <<>>
<1> DEFINE v == first.version
<1>1. GroupMoves(Latest, v, first) <=> first.management.group = "session"
  BY DEF GroupMoves, Possible, Due, Latest
<1>2. Done.management.group = IF GroupMoves(Latest, v, first) THEN "tables" ELSE first.management.group
  BY DEF Done, After, ManagementAt
<1>3. Done.management.notes = IF Due(Latest, v, 11) THEN No ELSE first.management.notes
  BY DEF Done, After, ManagementAt
<1>4. ~ Done.management.notes
  BY <1>3 DEF Possible, Due, Latest, No
<1>5. Done.wish.entries = IF GroupMoves(Latest, v, first) THEN <<>> ELSE first.wish.entries
  BY DEF Done, After, WishAt
<1> QED BY <1>1, <1>2, <1>4, <1>5 DEF Possible

\* The same for the messages of sessions.
LEMMA WishAgain ==
  ASSUME Possible, first.version < Latest, NEW d,
         d.wish \in {first.wish, Done.wish},
         d.management \in {first.management, Done.management, Gone(Done.management)},
         d.management # first.management => d.wish = Done.wish
  PROVE  WishAt(Latest, first.version, d) = Done.wish
<1> DEFINE v == first.version
           w == first.wish
           x == d.wish
<1>1. CASE d.wish = first.wish /\ d.management = first.management
  BY <1>1 DEF WishAt, GroupMoves, Done, After
<1>2. CASE d.wish = Done.wish
  <2>1. /\ Done.wish = WishAt(Latest, v, first) /\ x.entries = <<>>
    BY <1>2, DoneGroup DEF Done, After
  <2>2. \A s : Named(Named(s)) = Named(s)
    BY DEF Named
  <2>3. /\ x.there = w.there /\ x.generations = w.generations
        /\ x.batches = IF Due(Latest, v, 3) THEN Named(w.batches) ELSE w.batches
        /\ x.lists = IF Due(Latest, v, 6) /\ w.generations # "unknown" THEN Named(w.lists) ELSE w.lists
    BY <1>2, <2>1 DEF WishAt
  <2>4. /\ (IF Due(Latest, v, 3) THEN Named(x.batches) ELSE x.batches) = x.batches
        /\ (IF Due(Latest, v, 6) /\ x.generations # "unknown" THEN Named(x.lists) ELSE x.lists) = x.lists
        /\ (IF GroupMoves(Latest, v, d) THEN <<>> ELSE x.entries) = x.entries
    BY <2>1, <2>2, <2>3
  <2>5. WishFields(x)
    BY <1>2, <2>1, PartsShaped
  <2> QED BY <1>2, <2>4, <2>5 DEF WishAt, WishFields
<1> QED BY <1>1, <1>2

\* The records that steps were done on.
LEMMA RecordsAgain ==
  ASSUME Possible, first.version < Latest, NEW d,
         d.management \in {Done.management, Gone(Done.management)}
  PROVE  ManagementAt(Latest, first.version, d) = d.management
<1> DEFINE v == first.version
           m == first.management
           x == Done.management
           y == d.management
           due(i) == Due(Latest, v, i)
           there(i) == m.there /\ due(i)
<1>1. x = ManagementAt(Latest, v, first) /\ ManagementFields(x)
  BY PartsShaped DEF Done, After
<1>2. /\ x.there = m.there
      /\ x.outcome = IF due(5) THEN "short" ELSE m.outcome
      /\ x.folders = IF due(12) THEN m.there ELSE m.folders
      /\ x.on["mcp"] = IF there(1) THEN "on" ELSE m.on["mcp"]
      /\ x.on["web_search"] = Filled(m.on, "web_search", "off", there(2))
      /\ x.on["skills"] = Filled(m.on, "skills", "on", there(7))
      /\ x.on["sessions"] = Filled(m.on, "sessions", "on", there(9))
  BY <1>1 DEF ManagementAt
<1>3. x.group # "session" /\ ~ x.notes /\ (x.notes = IF due(11) THEN No ELSE m.notes)
  BY <1>1, DoneGroup DEF ManagementAt
<1> HIDE DEF x
<1>4. /\ ManagementFields(y)
      /\ y.there = x.there /\ y.sound = x.sound /\ y.on = x.on /\ y.outcome = x.outcome
      /\ y.group = x.group /\ y.notes = x.notes /\ y.folders = x.folders
  <2>1. CASE y = x
    BY <1>1, <2>1
  <2>2. CASE y = Gone(x)
    BY <1>1, <2>2, GoneIs
  <2> QED BY <2>1, <2>2 DEF x
<1>5. ~ GroupMoves(Latest, v, d) /\ LogAt(Latest, v, d) = y.log
  BY <1>3, <1>4 DEF GroupMoves, LogAt
<1>6. y.on = [mcp |-> y.on["mcp"], web_search |-> y.on["web_search"], skills |-> y.on["skills"],
              sessions |-> y.on["sessions"], history |-> y.on["history"]]
  BY <1>4, SwitchRecord DEF ManagementFields
<1>7. /\ (IF y.there /\ due(1) THEN "on" ELSE y.on["mcp"]) = y.on["mcp"]
      /\ Filled(y.on, "web_search", "off", y.there /\ due(2)) = y.on["web_search"]
      /\ Filled(y.on, "skills", "on", y.there /\ due(7)) = y.on["skills"]
      /\ Filled(y.on, "sessions", "on", y.there /\ due(9)) = y.on["sessions"]
  BY <1>2, <1>4 DEF Filled
<1>8. /\ (IF due(5) THEN "short" ELSE y.outcome) = y.outcome
      /\ (IF due(12) THEN y.there ELSE y.folders) = y.folders
  BY <1>2, <1>4
<1>9. (IF due(11) THEN No ELSE y.notes) = y.notes
  BY <1>3, <1>4
<1>10. ManagementAt(Latest, v, d) =
         [there |-> y.there, sound |-> y.sound,
          on |-> [mcp |-> y.on["mcp"], web_search |-> y.on["web_search"], skills |-> y.on["skills"],
                  sessions |-> y.on["sessions"], history |-> y.on["history"]],
          outcome |-> y.outcome, group |-> y.group, log |-> y.log, notes |-> y.notes, folders |-> y.folders]
  BY <1>5, <1>7, <1>8, <1>9 DEF ManagementAt
<1> QED BY <1>4, <1>6, <1>10 DEF ManagementFields

\* Records the steps were not done on, when the group's messages may have gone with the first commit.
LEMMA RecordsOnce ==
  ASSUME Possible, first.version < Latest, NEW d, d.management = first.management,
         d.wish \in {first.wish, Done.wish}
  PROVE  ManagementAt(Latest, first.version, d) \in {Done.management, Gone(Done.management)}
<1> DEFINE v == first.version
           m == first.management
           x == Done.management
<1>1. x = ManagementAt(Latest, v, first) /\ ManagementFields(x) /\ x.log = LogAt(Latest, v, first)
  <2>1. x = ManagementAt(Latest, v, first)
    BY DEF Done, After
  <2> QED BY <2>1, PartsShaped DEF ManagementAt
<1>2. GroupMoves(Latest, v, d) <=> GroupMoves(Latest, v, first)
  BY DEF GroupMoves
<1>3. CASE d.wish = first.wish \/ ~ GroupMoves(Latest, v, first)
  <2>1. LogAt(Latest, v, d) = LogAt(Latest, v, first)
    BY <1>2, <1>3 DEF LogAt
  <2>2. ManagementAt(Latest, v, d) = ManagementAt(Latest, v, first)
    BY <1>2, <2>1 DEF ManagementAt
  <2> QED BY <1>1, <2>2
<1>4. CASE d.wish = Done.wish /\ GroupMoves(Latest, v, first)
  <2>1. m.group = "session" /\ d.wish.entries = <<>>
    BY <1>4, DoneGroup
  <2>2. ~ m.notes
    BY <2>1 DEF Possible
  <2>3. LogAt(Latest, v, d) = <<>>
    BY <1>2, <1>4, <2>1, <2>2, NothingSaid DEF LogAt, SaidByMembers
  <2> DEFINE g == Gone(x)
             y == ManagementAt(Latest, v, d)
  <2>4. g = [there |-> x.there, sound |-> x.sound, on |-> x.on, outcome |-> x.outcome, group |-> x.group,
             log |-> <<>>, notes |-> x.notes, folders |-> x.folders]
    BY <1>1, GoneIs
  <2>5. /\ y.there = x.there /\ y.sound = x.sound /\ y.on = x.on /\ y.outcome = x.outcome
        /\ y.group = x.group /\ y.notes = x.notes /\ y.folders = x.folders
    BY <1>1, <1>2 DEF ManagementAt
  <2>6. y.log = <<>> /\ ManagementFields(y)
    BY <2>3, PartsShaped DEF ManagementAt
  <2> HIDE DEF g, x, y
  <2>7. y = g
    BY <2>4, <2>5, <2>6 DEF ManagementFields
  <2> QED BY <2>7 DEF g, x, y
<1> QED BY <1>3, <1>4

\* What the steps make of a directory some of whose parts they were done on already.
LEMMA Reapplied ==
  ASSUME Possible, first.version < Latest, NEW d,
         d = Whole(first.version, d.config, d.management, d.wish),
         d.wish \in {first.wish, Done.wish},
         d.management \in {first.management, Done.management, Gone(Done.management)},
         d.config \in {first.config, Done.config},
         d.management # first.management => d.wish = Done.wish
  PROVE  /\ d.management.there = first.management.there /\ d.wish.there = first.wish.there
         /\ Failing(Latest, first.version, first) => ApplySteps(first.version, d).failed = TRUE
         /\ ~ Failing(Latest, first.version, first) =>
              LET done == ApplySteps(first.version, d)
              IN  /\ ~ done.failed /\ done.config = Done.config /\ done.wish = Done.wish
                  /\ done.management \in {Done.management, Gone(Done.management)}
<1> DEFINE v == first.version
           x == Done.management
<1>1. v \in Nat /\ first = After(0, v, first)
  BY DEF Possible
<1>2. first.config = ConfigAt(0, v, first) /\ first.management = ManagementAt(0, v, first)
      /\ first.wish = WishAt(0, v, first)
  BY <1>1 DEF After
<1>3. Done.config = ConfigAt(Latest, v, first) /\ x = ManagementAt(Latest, v, first)
      /\ Done.wish = WishAt(Latest, v, first)
  BY DEF Done, After
<1>4. /\ ConfigFields(first.config) /\ ConfigFields(Done.config)
      /\ ManagementFields(first.management) /\ ManagementFields(x)
      /\ WishFields(first.wish) /\ WishFields(Done.wish)
  BY <1>2, <1>3, PartsShaped
<1>5. x.there = first.management.there /\ x.sound = first.management.sound
  BY <1>3 DEF ManagementAt
<1>6. /\ Done.wish.generations = first.wish.generations /\ Done.wish.there = first.wish.there
  BY <1>3 DEF WishAt
<1>7. /\ Gone(x).there = x.there /\ Gone(x).sound = x.sound /\ ManagementFields(Gone(x))
  <2> HIDE DEF x
  <2> QED BY <1>4, GoneIs
<1> HIDE DEF x
<1>8. /\ d.management.there = first.management.there /\ d.management.sound = first.management.sound
      /\ ManagementFields(d.management)
  BY <1>4, <1>5, <1>7 DEF x
<1>9. d.wish.generations = first.wish.generations /\ d.wish.there = first.wish.there /\ WishFields(d.wish)
  BY <1>4, <1>6
<1>10. ConfigFields(d.config)
  BY <1>4
<1>11. d = After(0, v, d)
  <2> DEFINE c == d.config
             m == d.management
             w == d.wish
  <2>1. d = Whole(v, c, m, w) /\ ConfigFields(c) /\ ManagementFields(m) /\ WishFields(w)
    BY <1>8, <1>9, <1>10
  <2> HIDE DEF c, m, w
  <2> QED BY <1>1, <2>1, Untouched DEF ConfigFields, ManagementFields, WishFields
<1>12. Failing(Latest, v, d) <=> Failing(Latest, v, first)
  BY <1>8, <1>9 DEF Failing
<1>13. Failing(Latest, v, first) => ApplySteps(v, d).failed = TRUE
  BY <1>1, <1>11, <1>12, AppliedIs
<1>14. ASSUME ~ Failing(Latest, v, first)
       PROVE  LET done == ApplySteps(v, d)
              IN  /\ ~ done.failed /\ done.config = Done.config /\ done.wish = Done.wish
                  /\ done.management \in {x, Gone(x)}
  <2>1. ApplySteps(v, d) = After(Latest, v, d)
    BY <1>1, <1>11, <1>12, <1>14, AppliedIs
  <2>2. ConfigAt(Latest, v, d) = Done.config
    BY <1>3, ConfigAgain
  <2>3. WishAt(Latest, v, d) = Done.wish
    BY WishAgain
  <2>4. ManagementAt(Latest, v, d) \in {x, Gone(x)}
    <3>1. CASE d.management = first.management
      BY <3>1, RecordsOnce DEF x
    <3>2. CASE d.management \in {x, Gone(x)}
      BY <3>2, RecordsAgain DEF x
    <3> QED BY <3>1, <3>2 DEF x
  <2> QED BY <2>1, <2>2, <2>3, <2>4 DEF After, No
<1> QED BY <1>8, <1>9, <1>13, <1>14 DEF x

-----------------------------------------------------------------------------
(* The actions. *)

\* At the start nothing is written.
LEMMA MigrationStart ==
  ASSUME MigrationAssumption, MigrationInit
  PROVE  MigrationInv
<1>1. Possible
  BY FirstPossible
<1>2. directory = first /\ migrating = "off" /\ chosen = "none"
  BY DEF MigrationInit
<1> DEFINE v == first.version
<1>3. /\ v \in Nat /\ first = After(0, v, first)
  BY <1>1 DEF Possible
<1>4. first = Whole(v, first.config, first.management, first.wish)
  BY <1>3 DEF After, Whole
<1>5. CASE v > Latest
  BY <1>1, <1>2, <1>5 DEF MigrationInv, Newer
<1>6. CASE NewDirectory
  BY <1>1, <1>2, <1>6 DEF MigrationInv, Unwritten
<1>7. CASE v < Latest /\ ~ NewDirectory
  <2>1. Underway
    BY <1>2, <1>4, <1>7 DEF Underway, Committing
  <2> QED BY <1>1, <2>1 DEF MigrationInv
<1>8. CASE v = Latest
  <2>1. ~ NewDirectory
    BY <1>8 DEF NewDirectory, Latest, Unmarked
  <2>2. \A i \in 1 .. 14 : ~ Due(Latest, v, i) /\ ~ Due(0, v, i)
    BY <1>8 DEF Due, Latest
  <2>3. GroupMoves(Latest, v, first) <=> GroupMoves(0, v, first)
    BY <2>2 DEF GroupMoves
  <2>4. ConfigAt(Latest, v, first) = ConfigAt(0, v, first)
    BY <2>2 DEF ConfigAt
  <2>5. ManagementAt(Latest, v, first) = ManagementAt(0, v, first)
    BY <2>2, <2>3 DEF ManagementAt, LogAt
  <2>6. WishAt(Latest, v, first) = WishAt(0, v, first)
    BY <2>2, <2>3 DEF WishAt
  <2>7. Done = first
    BY <1>3, <2>4, <2>5, <2>6 DEF Done, After
  <2>8. ~ Failing(Latest, v, first)
    BY <2>2 DEF Failing
  <2>9. /\ first.config = WantedConfig /\ first.management = WantedManagement /\ first.wish = WantedWish
    <3>1. v <= Latest
      BY <1>8 DEF Latest
    <3> QED BY <1>1, <1>2, <2>1, <2>7, <2>8, <3>1, DoneWanted
  <2>10. Settled
    <3>1. v <= Latest
      BY <1>8 DEF Latest
    <3> QED BY <1>2, <1>4, <1>8, <2>9, <3>1 DEF Settled
  <2> QED BY <1>1, <2>10 DEF MigrationInv
<1> QED BY <1>3, <1>5, <1>6, <1>7, <1>8 DEF Latest

\* What depends on the first directory, the choice and the copies stays with them.
LEMMA FirstStays ==
  ASSUME UNCHANGED <<first, chosen>>
  PROVE  /\ Possible => Possible'
         /\ UNCHANGED <<Done, NewDirectory, WantedConfig, WantedManagement, WantedWish>>
         /\ Failing(Latest, first.version, first)' <=> Failing(Latest, first.version, first)
<1>1. Possible => Possible'
  BY DEF Possible
<1>2. UNCHANGED <<Done, NewDirectory>>
  BY DEF Done, NewDirectory
<1>3. /\ \A i \in Nat : Behind(i)' <=> Behind(i)
      /\ \A s : WantedDefault(s)' = WantedDefault(s) /\ WantedRecorded(s)' = WantedRecorded(s)
  BY DEF Behind, NewDirectory, WantedDefault, WantedRecorded
<1>4. UNCHANGED <<WantedConfig, WantedManagement, WantedWish>>
  BY <1>3 DEF WantedConfig, WantedManagement, WantedWish
<1> QED BY <1>1, <1>2, <1>4

\* Starting: nothing to do, a new directory marked, a newer one refused, or steps to run.
LEMMA PlanKeeps ==
  ASSUME MigrationInv, Plan
  PROVE  MigrationInv'
<1>1. UNCHANGED <<first, chosen, work, backups>> /\ migrating = "off" /\ Possible
  BY DEF Plan, MigrationInv
<1>2. /\ Possible' /\ UNCHANGED <<Done, NewDirectory, WantedConfig, WantedManagement, WantedWish, Copied>>
      /\ Failing(Latest, first.version, first)' <=> Failing(Latest, first.version, first)
  BY <1>1, FirstStays DEF Copied
<1>3. first.version \in Nat /\ first = Whole(first.version, first.config, first.management, first.wish)
  BY <1>1 DEF Possible, After, Whole
<1>4. CASE Newer
  BY <1>3, <1>4 DEF Newer, Plan, Latest, Unmarked
<1>5. CASE Unwritten
  <2>1. directory = first /\ directory.version = Unmarked /\ ~ HasDatabase(directory) /\ chosen = "none"
    BY <1>5 DEF Unwritten, NewDirectory
  <2>2. migrating' = "serving" /\ directory' = [directory EXCEPT !.version = Latest]
    BY <2>1 DEF Plan, Latest, Unmarked
  <2>3. directory' = Whole(Latest, first.config, first.management, first.wish)
    BY <1>3, <2>1, <2>2 DEF Whole
  <2>4. first.config = WantedConfig /\ first.management = WantedManagement /\ first.wish = WantedWish
    BY <1>1, <1>5, <2>1, NewWanted DEF Unwritten
  <2>5. first.version <= Latest
    BY <2>1 DEF Latest, Unmarked
  <2>6. directory'.management = first.management
    BY <2>3 DEF Whole
  <2>7. Settled'
    BY <1>1, <1>2, <2>2, <2>3, <2>4, <2>5, <2>6 DEF Settled
  <2> QED BY <1>2, <2>7 DEF MigrationInv
<1>6. CASE Underway
  <2>1. /\ directory.management.there = first.management.there /\ directory.wish.there = first.wish.there
        /\ directory.version = first.version
    <3>1. directory.version = first.version
      BY <1>6 DEF Underway, Whole
    <3> QED BY <1>1, <1>6, <3>1, Reapplied DEF Underway
  <2>2. first.version < Latest /\ ~ NewDirectory
    BY <1>6 DEF Underway
  <2>3. migrating' = "back_up" /\ UNCHANGED directory
    BY <1>3, <2>1, <2>2 DEF Plan, NewDirectory, HasDatabase, Latest
  <2>4. Underway'
    BY <1>1, <1>2, <1>6, <2>3 DEF Underway, Committing
  <2> QED BY <1>2, <2>4 DEF MigrationInv
<1>7. CASE Settled
  <2>1. directory.version = Latest
    BY <1>7 DEF Settled, Whole
  <2>2. migrating' = "serving" /\ UNCHANGED directory
    BY <2>1 DEF Plan, Latest, Unmarked
  <2>3. Settled'
    BY <1>1, <1>2, <1>7, <2>2 DEF Settled
  <2> QED BY <1>2, <2>3 DEF MigrationInv
<1> QED BY <1>4, <1>5, <1>6, <1>7 DEF MigrationInv

\* What the steps of a start have in common: only a directory under way is migrated.
LEMMA StepsUnderway ==
  ASSUME MigrationInv, migrating \in {"back_up", "apply_steps", "refused"} \cup Committing,
         UNCHANGED <<first, chosen>>
  PROVE  /\ Underway /\ Possible'
         /\ UNCHANGED <<Done, NewDirectory, WantedConfig, WantedManagement, WantedWish>>
         /\ Failing(Latest, first.version, first)' <=> Failing(Latest, first.version, first)
<1>1. migrating \notin {"off", "serving"}
  BY DEF Committing
<1>2. Underway
  BY <1>1 DEF MigrationInv, Newer, Unwritten, Settled
<1> QED BY <1>2, FirstStays DEF MigrationInv

\* The copy is taken before anything is written.
LEMMA BackUpKeeps ==
  ASSUME MigrationInv, BackUp
  PROVE  MigrationInv'
<1>1. /\ migrating = "back_up" /\ migrating' = "apply_steps" /\ backups' = backups \cup {directory}
      /\ UNCHANGED <<directory, work, first, chosen>>
  BY DEF BackUp
<1>2. /\ Underway /\ Possible'
      /\ UNCHANGED <<Done, NewDirectory>>
      /\ Failing(Latest, first.version, first)' <=> Failing(Latest, first.version, first)
  BY <1>1, StepsUnderway
<1>3. Copied => Copied'
  BY <1>1 DEF Copied
<1>4. Copied'
  <2>1. CASE directory = first
    BY <1>1, <2>1 DEF Copied
  <2>2. CASE directory # first
    BY <1>2, <1>3, <2>2 DEF Underway
  <2> QED BY <2>1, <2>2
<1>5. Underway'
  BY <1>1, <1>2, <1>4 DEF Underway, Committing
<1> QED BY <1>2, <1>5 DEF MigrationInv

\* The steps make what is wanted of the parts, or the start is refused.
LEMMA RunStepsKeeps ==
  ASSUME MigrationInv, RunSteps
  PROVE  MigrationInv'
<1> DEFINE done == ApplySteps(directory.version, directory)
<1>1. /\ migrating = "apply_steps" /\ UNCHANGED <<directory, backups, first, chosen>>
      /\ IF done.failed THEN migrating' = "refused" /\ UNCHANGED work
         ELSE migrating' = "commit_wish" /\ work' = done
  BY DEF RunSteps
<1>2. /\ Underway /\ Possible'
      /\ UNCHANGED <<Done, NewDirectory>>
      /\ Failing(Latest, first.version, first)' <=> Failing(Latest, first.version, first)
  BY <1>1, StepsUnderway
<1>3. UNCHANGED Copied
  BY <1>1 DEF Copied
<1>4. directory.version = first.version
  BY <1>2 DEF Underway, Whole
<1>5. /\ Failing(Latest, first.version, first) => done.failed = TRUE
      /\ ~ Failing(Latest, first.version, first) =>
              /\ ~ done.failed /\ done.config = Done.config /\ done.wish = Done.wish
              /\ done.management \in {Done.management, Gone(Done.management)}
  BY <1>2, <1>4, Reapplied DEF Underway, MigrationInv
<1> HIDE DEF done
<1>6. Underway'
  <2>1. CASE Failing(Latest, first.version, first)
    <3>1. migrating' = "refused" /\ directory = first
      BY <1>1, <1>2, <1>5, <2>1 DEF Underway
    <3> QED BY <1>1, <1>2, <1>3, <3>1 DEF Underway, Committing
  <2>2. CASE ~ Failing(Latest, first.version, first)
    <3>1. migrating' = "commit_wish" /\ work' = done
      BY <1>1, <1>5, <2>2
    <3> QED BY <1>1, <1>2, <1>3, <1>5, <2>2, <3>1 DEF Underway, Committing
  <2> QED BY <2>1, <2>2
<1> QED BY <1>2, <1>6 DEF MigrationInv

\* The first database is committed.
LEMMA CommitWishKeeps ==
  ASSUME MigrationInv, CommitWish
  PROVE  MigrationInv'
<1>1. /\ migrating = "commit_wish" /\ migrating' = "commit_management"
      /\ directory' = [directory EXCEPT !.wish = work.wish]
      /\ UNCHANGED <<work, backups, first, chosen>>
  BY DEF CommitWish
<1>2. /\ Underway /\ Possible'
      /\ UNCHANGED <<Done, NewDirectory>>
      /\ Failing(Latest, first.version, first)' <=> Failing(Latest, first.version, first)
  BY <1>1, StepsUnderway DEF Committing
<1>3. UNCHANGED Copied
  BY <1>1 DEF Copied
<1>4. /\ directory = Whole(first.version, directory.config, directory.management, directory.wish)
      /\ work.wish = Done.wish
  BY <1>1, <1>2 DEF Underway, Committing
<1>5. directory' = Whole(first.version, directory.config, directory.management, Done.wish)
  BY <1>1, <1>4 DEF Whole
<1>6. directory'.config = directory.config /\ directory'.management = directory.management /\ directory'.wish = Done.wish
  BY <1>5 DEF Whole
<1>7. Underway'
  BY <1>1, <1>2, <1>3, <1>5, <1>6 DEF Underway, Committing
<1> QED BY <1>2, <1>7 DEF MigrationInv

\* Then the second.
LEMMA CommitManagementKeeps ==
  ASSUME MigrationInv, CommitManagement
  PROVE  MigrationInv'
<1>1. /\ migrating = "commit_management" /\ migrating' = "commit"
      /\ directory' = [directory EXCEPT !.management = work.management]
      /\ UNCHANGED <<work, backups, first, chosen>>
  BY DEF CommitManagement
<1>2. /\ Underway /\ Possible'
      /\ UNCHANGED <<Done, NewDirectory>>
      /\ Failing(Latest, first.version, first)' <=> Failing(Latest, first.version, first)
  BY <1>1, StepsUnderway DEF Committing
<1>3. UNCHANGED Copied
  BY <1>1 DEF Copied
<1>4. directory = Whole(first.version, directory.config, directory.management, directory.wish)
  BY <1>2 DEF Underway
<1>5. directory' = Whole(first.version, directory.config, work.management, directory.wish)
  BY <1>1, <1>4 DEF Whole
<1>6. directory'.config = directory.config /\ directory'.management = work.management /\ directory'.wish = directory.wish
  BY <1>5 DEF Whole
<1>7. Underway'
  BY <1>1, <1>2, <1>3, <1>5, <1>6 DEF Underway, Committing
<1> QED BY <1>2, <1>7 DEF MigrationInv

\* Then the configuration, and last the version.
LEMMA CommitKeeps ==
  ASSUME MigrationInv, Commit
  PROVE  MigrationInv'
<1>1. migrating \in {"commit", "write_version"} /\ UNCHANGED <<work, backups, first, chosen>>
  BY DEF Commit
<1>2. /\ Underway /\ Possible'
      /\ UNCHANGED <<Done, NewDirectory, WantedConfig, WantedManagement, WantedWish>>
      /\ Failing(Latest, first.version, first)' <=> Failing(Latest, first.version, first)
  BY <1>1, StepsUnderway DEF Committing
<1>3. UNCHANGED Copied
  BY <1>1 DEF Copied
<1>4. /\ directory = Whole(first.version, directory.config, directory.management, directory.wish)
      /\ work.config = Done.config /\ directory.wish = Done.wish
      /\ directory.management \in {Done.management, Gone(Done.management)}
      /\ Copied /\ ~ Failing(Latest, first.version, first)
      /\ migrating = "write_version" => directory.config = Done.config
  BY <1>1, <1>2 DEF Underway, Committing
<1>5. CASE migrating = "commit"
  <2>1. directory' = [directory EXCEPT !.config = work.config] /\ migrating' = "write_version"
    BY <1>5 DEF Commit
  <2>2. directory' = Whole(first.version, Done.config, directory.management, directory.wish)
    BY <1>4, <2>1 DEF Whole
  <2>3. /\ directory'.config = Done.config /\ directory'.management = directory.management
        /\ directory'.wish = directory.wish
    BY <2>2 DEF Whole
  <2>4. Underway'
    BY <1>1, <1>2, <1>3, <1>5, <2>1, <2>2, <2>3 DEF Underway, Committing
  <2> QED BY <1>2, <2>4 DEF MigrationInv
<1>6. CASE migrating = "write_version"
  <2>1. directory' = [directory EXCEPT !.version = Latest] /\ migrating' = "serving"
    BY <1>6 DEF Commit
  <2>2. directory' = Whole(Latest, Done.config, directory.management, Done.wish)
    BY <1>4, <1>6, <2>1 DEF Whole
  <2>3. first.version <= Latest
    BY <1>2 DEF Underway, Possible, Latest, MigrationInv
  <2>4. Done.config = WantedConfig /\ Done.management = WantedManagement /\ Done.wish = WantedWish
    BY <1>2, <1>4, <2>3, DoneWanted DEF Underway, MigrationInv
  <2>5. directory'.management = directory.management
    BY <2>2 DEF Whole
  <2>6. directory.management = WantedManagement \/ (directory.management = Gone(WantedManagement) /\ Copied)
    BY <1>4, <2>4
  <2>7. Settled'
    BY <1>1, <1>2, <1>3, <2>1, <2>2, <2>3, <2>4, <2>5, <2>6 DEF Settled
  <2> QED BY <1>2, <2>7 DEF MigrationInv
<1> QED BY <1>1, <1>5, <1>6

\* The process may end anywhere.
LEMMA StopKeeps ==
  ASSUME MigrationInv, Stop
  PROVE  MigrationInv'
<1>1. migrating \notin {"off", "refused"} /\ migrating' = "off" /\ UNCHANGED <<directory, backups, first, chosen>>
  BY DEF Stop
<1>2. /\ Possible' /\ UNCHANGED <<Done, NewDirectory, WantedConfig, WantedManagement, WantedWish, Copied>>
      /\ Failing(Latest, first.version, first)' <=> Failing(Latest, first.version, first)
  BY <1>1, FirstStays DEF Copied, MigrationInv
<1>3. CASE Underway
  <2>1. Underway'
    BY <1>1, <1>2, <1>3 DEF Underway, Committing
  <2> QED BY <1>2, <2>1 DEF MigrationInv
<1>4. CASE Settled
  <2>1. Settled'
    BY <1>1, <1>2, <1>4 DEF Settled
  <2> QED BY <1>2, <2>1 DEF MigrationInv
<1> QED BY <1>1, <1>3, <1>4 DEF MigrationInv, Newer, Unwritten

\* What the user sets is wanted from then on.
LEMMA ChooseKeeps ==
  ASSUME MigrationInv, Choose
  PROVE  MigrationInv'
<1>1. /\ migrating = "serving" /\ chosen = "none" /\ directory.config.tools /\ chosen' = "off"
      /\ directory' = [directory EXCEPT !.config.on["mcp"] = "off"]
      /\ UNCHANGED <<work, backups, migrating, first>>
  BY DEF Choose
<1>2. Settled /\ Possible
  BY <1>1 DEF MigrationInv, Newer, Unwritten, Underway, Committing
<1>3. Possible' /\ UNCHANGED <<NewDirectory, Copied>>
  BY <1>1, <1>2 DEF Possible, Copied, NewDirectory
<1>4. \A i \in Nat : Behind(i)' <=> Behind(i)
  BY <1>1 DEF Behind, NewDirectory
<1>5. UNCHANGED <<WantedManagement, WantedWish>>
  <2>1. \A s : WantedRecorded(s)' = WantedRecorded(s)
    BY <1>1, <1>4 DEF WantedRecorded
  <2> QED BY <1>1, <1>4, <2>1 DEF WantedManagement, WantedWish
<1>6. /\ directory = Whole(Latest, WantedConfig, directory.management, WantedWish)
      /\ directory.config = WantedConfig
  BY <1>2 DEF Settled, Whole
<1>7. first.config.tools
  BY <1>1, <1>6 DEF WantedConfig
<1> DEFINE f == [s \in Switch |-> WantedDefault(s)]
           g == [s \in Switch |-> WantedDefault(s)']
           wanted(on) == [tools |-> first.config.tools, codex |-> first.config.codex, on |-> on,
                          search |-> WantedConfig.search, limit |-> WantedConfig.limit,
                          agent |-> WantedConfig.agent]
<1>8. g = [f EXCEPT !["mcp"] = "off"]
  BY <1>1, <1>3, <1>4, <1>7 DEF WantedDefault, Switch
<1>9. WantedConfig = wanted(f)
  BY DEF WantedConfig
<1>10. WantedConfig' = wanted(g)
  BY <1>1, <1>4 DEF WantedConfig
<1> HIDE DEF f, g
<1>11. [WantedConfig EXCEPT !.on["mcp"] = "off"] = WantedConfig'
  BY <1>8, <1>9, <1>10
<1>12. directory' = Whole(Latest, WantedConfig', directory.management, WantedWish)
  <2>1. directory' = [directory EXCEPT !.config = [WantedConfig EXCEPT !.on["mcp"] = "off"]]
    BY <1>1, <1>6
  <2> QED BY <1>6, <1>11, <2>1 DEF Whole
<1>13. directory'.management = directory.management
  BY <1>12 DEF Whole
<1>14. Settled'
  BY <1>1, <1>2, <1>3, <1>5, <1>12, <1>13 DEF Settled
<1> QED BY <1>3, <1>14 DEF MigrationInv

\* Every step keeps it.
LEMMA MigrationStepKeeps ==
  ASSUME MigrationInv, [MigrationNext]_migration_vars
  PROVE  MigrationInv'
<1>1. CASE UNCHANGED migration_vars
  <2>1. /\ UNCHANGED <<directory, work, backups, migrating, first, chosen>>
    BY <1>1 DEF migration_vars
  <2>2. /\ Possible' /\ UNCHANGED <<Done, NewDirectory, WantedConfig, WantedManagement, WantedWish, Copied>>
        /\ Failing(Latest, first.version, first)' <=> Failing(Latest, first.version, first)
    BY <2>1, FirstStays DEF Copied, MigrationInv
  <2>3. (Newer => Newer') /\ (Unwritten => Unwritten')
    BY <2>1, <2>2 DEF Newer, Unwritten
  <2>4. Underway => Underway'
    BY <2>1, <2>2 DEF Underway
  <2>5. Settled => Settled'
    BY <2>1, <2>2 DEF Settled
  <2> QED BY <2>2, <2>3, <2>4, <2>5 DEF MigrationInv
<1> QED BY <1>1, PlanKeeps, BackUpKeeps, RunStepsKeeps, CommitWishKeeps, CommitManagementKeeps,
           CommitKeeps, StopKeeps, ChooseKeeps DEF MigrationNext

\* It says what a program that serves needs.
LEMMA MigrationWhole ==
  ASSUME MigrationInv
  PROVE  MigratedWhole
<1>1. first.version \in Nat
  BY DEF MigrationInv, Possible
<1>2. Wanted = Whole(Latest, WantedConfig, WantedManagement, WantedWish)
  BY DEF Wanted, Whole, No
<1>3. ASSUME migrating = "serving"
      PROVE  \/ directory = Wanted
             \/ /\ [directory EXCEPT !.management.log = Wanted.management.log] = Wanted
                /\ directory.management.log = <<>>
                /\ \E copy \in backups : copy.wish.entries = first.wish.entries
  <2>1. Settled
    BY <1>3 DEF MigrationInv, Newer, Unwritten, Underway, Committing
  <2>2. CASE directory.management = WantedManagement
    BY <1>2, <2>1, <2>2 DEF Settled
  <2>3. CASE directory.management = Gone(WantedManagement) /\ Copied
    <3> DEFINE m == WantedManagement
               g == Gone(m)
    <3>1. Wanted.management = m
      BY <1>2 DEF Whole
    <3>2. [g EXCEPT !.log = m.log] = m
      BY DEF Gone, WantedManagement
    <3>3. g.log = <<>>
      BY DEF Gone, WantedManagement
    <3>4. directory = Whole(Latest, WantedConfig, g, WantedWish)
      BY <2>1, <2>3 DEF Settled
    <3> HIDE DEF m, g
    <3>5. [directory EXCEPT !.management.log = m.log] = Whole(Latest, WantedConfig, m, WantedWish)
      <4>1. directory.management = g
        BY <3>4 DEF Whole
      <4>2. [directory EXCEPT !.management.log = m.log] = [directory EXCEPT !.management = [g EXCEPT !.log = m.log]]
        BY <4>1
      <4> QED BY <3>2, <3>4, <4>2 DEF Whole
    <3>6. directory.management.log = <<>>
      BY <3>3, <3>4 DEF Whole
    <3> QED BY <1>2, <2>3, <3>1, <3>5, <3>6 DEF m, Copied
  <2> QED BY <2>1, <2>2, <2>3 DEF Settled
<1>4. migrating = "refused" => directory = first
  BY DEF MigrationInv, Newer, Unwritten, Underway, Settled
<1>5. first.version > Latest => directory = first /\ migrating = "off"
  BY <1>1 DEF MigrationInv, Newer, Unwritten, Underway, Settled, NewDirectory, Unmarked, Latest
<1> QED BY <1>3, <1>4, <1>5 DEF MigratedWhole

\* A program that serves reads a directory of its own format, which the fourteen steps made of the
\* first one as if each was done once, wherever and however often `run` was cut short before; the
\* messages of a group are gone only if a copy has them, and a directory that cannot be migrated,
\* or that a newer build wrote, is never written.
THEOREM DirectoryIsWhole == MigrationSpec => []MigratedWhole
<1>1. MigrationInit => MigrationInv
  BY MigrationStart, MigrationAssumption
<1>2. MigrationInv /\ [MigrationNext]_migration_vars => MigrationInv'
  BY MigrationStepKeeps
<1>3. MigrationInv => MigratedWhole
  BY MigrationWhole
<1> QED BY <1>1, <1>2, <1>3, PTL DEF MigrationSpec

=============================================================================
