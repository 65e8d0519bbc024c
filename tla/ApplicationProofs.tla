--------------------------- MODULE ApplicationProofs ---------------------------
(***************************************************************************)
(* What the application keeps for its sessions, proved for every number of *)
(* folders, sessions, groups, commands, files, messages, drafts and        *)
(* uploads: the list is a tree (Folders), a post reaches whom it is for,   *)
(* once (Groups), what a session goes by is stored (SessionFiles), and     *)
(* what is uploaded keeps its quota (Drafts).  Each has an inductive       *)
(* invariant of its own; with that of the data directory (Migration,       *)
(* proved in MigrationProofs) they hold together of the application, whose *)
(* parts share no state.                                                   *)
(***************************************************************************)
EXTENDS Application, MigrationProofs, SequenceTheorems, TLAPS

-----------------------------------------------------------------------------
(* Folders. *)

\* The list with its types is inductive as it stands.
FoldersInv == FolderTypeOK /\ ListIsATree

\* Nothing is in the list but items, and they are at its root.
LEMMA FoldersStart ==
  ASSUME FolderInit
  PROVE  FoldersInv
  BY FolderAssumption DEF FolderInit, FoldersInv, FolderTypeOK, ListIsATree, Where, Entries, Places

\* What is above a folder is closed under taking the parent.
LEMMA Climbs ==
  ASSUME FolderTypeOK, NEW where \in Where, NEW g \in folders, Within(where, g)
  PROVE  Within(where, place_of[g])
  BY DEF Within, FolderTypeOK, Where

\* A new folder closes no loop: nothing was in it.
LEMMA CreateKeeps ==
  ASSUME FoldersInv, NEW f \in Folder, NEW where \in Where, CreateFolder(f, where)
  PROVE  FoldersInv'
<1> USE FolderAssumption DEF FoldersInv, CreateFolder, Where, Places
<1>1. FolderTypeOK'
  BY DEF FolderTypeOK
<1>2. \A e \in Entries' : place_of'[e] \in Places'
  BY DEF FolderTypeOK, ListIsATree, Entries
<1>3. ASSUME NEW loop \in SUBSET folders', loop # {}
      PROVE  \E g \in loop : place_of'[g] \notin loop
  <2>1. CASE f \notin loop
    <3>1. loop \in SUBSET folders
      BY <2>1
    <3>2. PICK g \in loop : place_of[g] \notin loop
      BY <1>3, <3>1 DEF ListIsATree
    <3> QED BY <3>1, <3>2, <2>1 DEF FolderTypeOK
  <2>2. CASE loop = {f}
    BY <2>2 DEF FolderTypeOK
  <2>3. CASE f \in loop /\ loop \ {f} # {}
    <3>1. loop \ {f} \in SUBSET folders
      OBVIOUS
    <3>2. PICK g \in loop \ {f} : place_of[g] \notin loop \ {f}
      BY <2>3, <3>1 DEF ListIsATree
    <3>3. place_of[g] # f
      BY <3>1, <3>2 DEF ListIsATree, Entries
    <3> QED BY <3>2, <3>3 DEF FolderTypeOK
  <2> QED BY <2>1, <2>2, <2>3
<1> QED BY <1>1, <1>2, <1>3 DEF ListIsATree

\* What a deleted folder held is put where it was, so a loop without it was a loop with it.
LEMMA DeleteKeeps ==
  ASSUME FoldersInv, NEW f \in Folder, DeleteFolder(f)
  PROVE  FoldersInv'
<1> USE FolderAssumption DEF FoldersInv, DeleteFolder, Where, Places
<1>0. place_of[f] # f
  <2>1. {f} \in SUBSET folders /\ {f} # {}
    OBVIOUS
  <2> QED BY <2>1 DEF ListIsATree
<1>1. FolderTypeOK'
  BY DEF FolderTypeOK
<1>2. \A e \in Entries' : place_of'[e] \in Places'
  BY <1>0 DEF FolderTypeOK, ListIsATree, Entries
<1>3. ASSUME NEW loop \in SUBSET folders', loop # {}
      PROVE  \E g \in loop : place_of'[g] \notin loop
  <2>1. PICK g \in loop : place_of[g] \notin loop
    BY <1>3 DEF ListIsATree
  <2>2. loop \cup {f} \in SUBSET folders /\ loop \cup {f} # {}
    OBVIOUS
  <2>3. PICK h \in loop \cup {f} : place_of[h] \notin loop \cup {f}
    BY <2>2 DEF ListIsATree
  <2>4. CASE place_of[g] # f
    BY <2>1, <2>4 DEF FolderTypeOK
  <2>5. CASE place_of[g] = f /\ h = f
    BY <2>1, <2>3, <2>5 DEF FolderTypeOK
  <2>6. CASE h # f
    BY <2>3, <2>6 DEF FolderTypeOK
  <2> QED BY <2>4, <2>5, <2>6
<1> QED BY <1>1, <1>2, <1>3 DEF ListIsATree

\* A loop made by a move would go through where the entries were put, and what is above that
\* was not moved: the part of the loop above it was a loop before.
LEMMA PlaceKeeps ==
  ASSUME FoldersInv, NEW moved \in SUBSET (Folder \cup Item), NEW where \in Where,
         PlaceEntries(moved, where)
  PROVE  FoldersInv'
<1> USE FolderAssumption DEF FoldersInv, PlaceEntries, Where, Places
<1>1. FolderTypeOK'
  BY DEF FolderTypeOK
<1>2. \A e \in Entries' : place_of'[e] \in Places'
  BY DEF FolderTypeOK, ListIsATree, Entries
<1>3. ASSUME NEW loop \in SUBSET folders', loop # {}, \A g \in loop : place_of'[g] \in loop
      PROVE  FALSE
  <2>1. CASE loop \cap moved = {}
    <3>1. \A g \in loop : place_of[g] \in loop
      BY <1>3, <2>1 DEF FolderTypeOK
    <3> QED BY <1>3, <3>1 DEF ListIsATree
  <2>2. CASE loop \cap moved # {}
    <3> DEFINE above == {x \in loop : Within(where, x)}
    <3>1. where \in loop
      BY <1>3, <2>2 DEF FolderTypeOK
    <3>2. where \in above
      BY <3>1 DEF Within
    <3>3. ASSUME NEW x \in above PROVE place_of[x] \in above
      <4>1. x \notin moved
        BY <3>1, <3>3
      <4>2. place_of[x] \in loop
        BY <4>1, <1>3, <3>3 DEF FolderTypeOK
      <4>3. Within(where, place_of[x])
        BY <3>3, Climbs
      <4> QED BY <4>2, <4>3
    <3>4. above \in SUBSET folders /\ above # {}
      BY <3>2
    <3> HIDE DEF above
    <3> QED BY <3>3, <3>4 DEF ListIsATree
  <2> QED BY <2>1, <2>2
<1> QED BY <1>1, <1>2, <1>3 DEF ListIsATree

\* Every step keeps the list a tree.
LEMMA FoldersStep ==
  ASSUME FoldersInv, [FolderNext]_folder_vars
  PROVE  FoldersInv'
<1>1. CASE FolderNext
  BY <1>1, CreateKeeps, DeleteKeeps, PlaceKeeps DEF FolderNext
<1>2. CASE UNCHANGED folder_vars
  BY <1>2 DEF folder_vars, FoldersInv, FolderTypeOK, ListIsATree, Entries, Places
<1> QED BY <1>1, <1>2

\* However folders are made, moved and deleted, by any number of callers, every entry of the
\* list is in a place that is there and under the root (create, place, delete of the folders).
THEOREM TreeIsKept == FolderSpec => []ListIsATree
<1>1. FolderInit => FoldersInv
  BY FoldersStart
<1>2. FoldersInv /\ [FolderNext]_folder_vars => FoldersInv'
  BY FoldersStep
<1>3. FoldersInv => ListIsATree
  BY DEF FoldersInv
<1> QED BY <1>1, <1>2, <1>3, PTL DEF FolderSpec

-----------------------------------------------------------------------------
(* Groups. *)

\* What is kept of a group.
GroupRecord == [there : BOOLEAN, members : SUBSET Peer, log : Seq(Command)]

\* What is kept of a command on groups.
CommandRecord ==
  [kind : CommandKind \cup {"none"},
   pc : {"none", "pair", "make", "gather", "append", "tell", "write", "ok", "failed"},
   by : Author, other : SUBSET Peer, at : SUBSET Group, view : SUBSET Peer, targets : SUBSET Peer]

\* The shapes of the groups' variables.
GroupShape ==
  /\ session \in [Peer -> {"live", "erased", "gone"}]
  /\ group \in [Group -> GroupRecord]
  /\ inbox \in [Peer -> Seq(Command)]
  /\ cmd \in [Command -> CommandRecord]

\* The session was told of the post.
Told(p, c) == \E i \in DOMAIN inbox[p] : inbox[p][i] = c

\* The transcript of the group has it.
Logged(g, c) == \E i \in DOMAIN group[g].log : group[g].log[i] = c

\* Nothing is in an inbox twice.
OnceEach(p) == \A i, j \in DOMAIN inbox[p] : inbox[p][i] = inbox[p][j] => i = j

\* Whom the command's post is for.
Meant(c) == cmd[c].view \ {cmd[c].by}

\* Only a send tells, only another kind writes.
KindTrue(c) ==
  /\ cmd[c].pc = "none" => cmd[c].kind = "none"
  /\ cmd[c].pc \in {"pair", "gather", "append", "tell"} => cmd[c].kind = "send"
  /\ cmd[c].pc = "write" => cmd[c].kind # "send"

\* Whoever is live among them is still to be told, or was told.
Served(c) ==
  /\ cmd[c].pc \in {"append", "tell"} => cmd[c].targets \subseteq Meant(c)
  /\ cmd[c].pc = "append" => \A p \in Meant(c) : Live(p) => p \in cmd[c].targets
  /\ cmd[c].pc = "tell" => \A p \in Meant(c) : Live(p) => p \in cmd[c].targets \/ Told(p, c)
  /\ cmd[c].pc = "ok" /\ cmd[c].kind = "send" => \A p \in Meant(c) : Live(p) => Told(p, c)

\* The command's groups that are there have it in their transcripts.
InTranscript(c) == \A g \in cmd[c].at : group[g].there => Logged(g, c)

\* Whoever was told was to be, and is not told again.
RightlyTold(p, c) ==
  Told(p, c) => /\ cmd[c].kind = "send" /\ cmd[c].pc \in {"tell", "ok", "failed"}
                /\ p \in Meant(c) /\ p \notin cmd[c].targets
                /\ InTranscript(c)

\* The inductive invariant of the groups: where a command is says who has been told.
GroupInv ==
  /\ GroupShape
  /\ \A p \in Peer : OnceEach(p)
  /\ \A c \in Command : KindTrue(c) /\ Served(c) /\ (cmd[c].pc = "tell" => InTranscript(c))
  /\ \A p \in Peer, c \in Command : RightlyTold(p, c)

\* Positions of a thing that is in an inbox once.
LEMMA CopiesOnce ==
  ASSUME GroupShape, NEW p \in Peer, NEW c \in Command, OnceEach(p)
  PROVE  Copies(p, c) = IF Told(p, c) THEN 1 ELSE 0
<1> DEFINE places == {i \in DOMAIN inbox[p] : inbox[p][i] = c}
<1>1. CASE Told(p, c)
  <2>1. PICK i \in DOMAIN inbox[p] : inbox[p][i] = c
    BY <1>1 DEF Told
  <2>2. places = {i}
    BY <2>1 DEF OnceEach
  <2>3. Cardinality(places) = 1
    BY <2>2, FS_Singleton
  <2> QED BY <1>1, <2>3 DEF Copies
<1>2. CASE ~ Told(p, c)
  <2>1. places = {}
    BY <1>2 DEF Told
  <2>2. Cardinality(places) = 0
    BY <2>1, FS_EmptySet
  <2> QED BY <1>2, <2>2 DEF Copies
<1> QED BY <1>1, <1>2

\* It says enough: whoever is told is told once, and whoever a finished post is for was told.
LEMMA GroupInvDelivers ==
  ASSUME GroupInv
  PROVE  PostDelivered
<1> SUFFICES ASSUME NEW c \in Command, NEW p \in Peer
             PROVE  /\ Copies(p, c) <= 1
                    /\ p = cmd[c].by => Copies(p, c) = 0
                    /\ cmd[c].kind = "send" /\ cmd[c].pc = "ok" /\ Live(p)
                         => (Copies(p, c) = 1 <=> p \in cmd[c].view \ {cmd[c].by})
                    /\ Copies(p, c) > 0 =>
                         \A g \in cmd[c].at : group[g].there =>
                           \E i \in DOMAIN group[g].log : group[g].log[i] = c
  BY DEF PostDelivered
<1>1. Copies(p, c) = IF Told(p, c) THEN 1 ELSE 0
  BY CopiesOnce DEF GroupInv
<1>2. RightlyTold(p, c) /\ Served(c)
  BY DEF GroupInv
<1> QED BY <1>1, <1>2 DEF RightlyTold, Served, Meant, InTranscript, Logged

\* The record of a group there is not, and of one just made.
LEMMA NewGroup ==
  /\ NoGroup \in GroupRecord
  /\ \A members \in SUBSET Peer :
       [NoGroup EXCEPT !.there = TRUE, !.members = members] \in GroupRecord
<1>1. NoGroup \in GroupRecord
  BY DEF NoGroup, GroupRecord
<1>2. \A members \in SUBSET Peer :
        [NoGroup EXCEPT !.there = TRUE, !.members = members] \in GroupRecord
  BY <1>1 DEF GroupRecord
<1> QED BY <1>1, <1>2

\* At first nobody was told of anything.
LEMMA GroupStart ==
  ASSUME GroupInit
  PROVE  GroupInv
<1>1. GroupShape
  <2>1. group \in [Group -> GroupRecord]
    BY NewGroup DEF GroupInit
  <2> QED BY <2>1 DEF GroupInit, GroupShape, CommandRecord, Author, CommandKind
<1>2. \A p \in Peer : inbox[p] = <<>>
  BY DEF GroupInit
<1>3. \A c \in Command : cmd[c].pc = "none" /\ cmd[c].kind = "none"
  BY DEF GroupInit
<1>4. \A p \in Peer : OnceEach(p) /\ \A c \in Command : ~ Told(p, c)
  BY <1>2 DEF OnceEach, Told
<1>5. \A c \in Command : KindTrue(c) /\ Served(c)
  BY <1>3 DEF KindTrue, Served
<1> QED BY <1>1, <1>3, <1>4, <1>5 DEF GroupInv, RightlyTold

\* The transcripts other commands go by keep what they have.
OthersLogged(c) ==
  \A d \in Command \ {c}, g \in Group :
    g \in cmd[d].at /\ group'[g].there => group[g].there /\ (Logged(g, d) => Logged(g, d)')

\* A step of one command that tells nobody keeps what holds of the others.
LEMMA OneCommand ==
  ASSUME GroupInv, NEW c \in Command, NEW s \in CommandRecord,
         cmd' = [cmd EXCEPT ![c] = s], UNCHANGED <<session, inbox>>,
         group' \in [Group -> GroupRecord], OthersLogged(c),
         KindTrue(c)', Served(c)', cmd'[c].pc = "tell" => InTranscript(c)',
         \A p \in Peer : RightlyTold(p, c)'
  PROVE  GroupInv'
<1>1. GroupShape'
  BY DEF GroupInv, GroupShape
<1>2. \A p \in Peer : OnceEach(p)'
  BY DEF GroupInv, OnceEach
<1>3. ASSUME NEW d \in Command \ {c}
      PROVE  cmd'[d] = cmd[d] /\ (InTranscript(d) => InTranscript(d)')
  BY DEF GroupInv, GroupShape, CommandRecord, OthersLogged, InTranscript
<1>4. ASSUME NEW d \in Command \ {c}
      PROVE  KindTrue(d)' /\ Served(d)' /\ (cmd'[d].pc = "tell" => InTranscript(d)')
  BY <1>3 DEF GroupInv, KindTrue, Served, Meant, Told, Live
<1>5. ASSUME NEW p \in Peer, NEW d \in Command \ {c}
      PROVE  RightlyTold(p, d)'
  BY <1>3 DEF GroupInv, RightlyTold, Meant, Told
<1> QED BY <1>1, <1>2, <1>4, <1>5 DEF GroupInv

\* A command that has not begun to tell, and does not now, has told nobody.
LEMMA QuietCommand ==
  ASSUME GroupInv, NEW c \in Command, cmd[c].pc \notin {"tell", "ok", "failed"}, UNCHANGED inbox
  PROVE  \A p \in Peer : ~ Told(p, c)' /\ RightlyTold(p, c)'
BY DEF GroupInv, RightlyTold, Told

\* A command that changes no group.
LEMMA GroupsAlone ==
  ASSUME GroupInv, NEW c \in Command, UNCHANGED group
  PROVE  group' \in [Group -> GroupRecord] /\ OthersLogged(c)
BY DEF GroupInv, GroupShape, OthersLogged, Logged

\* How a command ends.
LEMMA EndKeeps ==
  ASSUME GroupInv, NEW c \in Command, NEW outcome \in {"ok", "failed"}, Ends(c, outcome),
         UNCHANGED <<session, inbox>>, group' \in [Group -> GroupRecord], OthersLogged(c),
         cmd[c].kind = "send" => UNCHANGED group,
         cmd[c].kind = "send" /\ outcome = "ok" => cmd[c].pc = "tell" /\ cmd[c].targets = {}
  PROVE  GroupInv'
<1> DEFINE s == [cmd[c] EXCEPT !.pc = outcome, !.targets = {}, !.other = {},
                      !.view = IF cmd[c].kind = "send" THEN cmd[c].view ELSE {},
                      !.at = IF cmd[c].kind = "send" THEN cmd[c].at ELSE {}]
<1>0. cmd[c] \in CommandRecord /\ cmd \in [Command -> CommandRecord]
  BY DEF GroupInv, GroupShape
<1>1. s \in CommandRecord
  BY <1>0 DEF CommandRecord
<1>2. cmd' = [cmd EXCEPT ![c] = s]
  BY DEF Ends
<1>3. /\ s.pc = outcome /\ s.kind = cmd[c].kind /\ s.by = cmd[c].by
      /\ s.kind = "send" => s.view = cmd[c].view /\ s.at = cmd[c].at
      /\ s.targets = {}
  BY <1>0 DEF CommandRecord
<1> HIDE DEF s
<1>4. cmd'[c] = s
  BY <1>0, <1>1, <1>2
<1>5. KindTrue(c)' /\ (cmd'[c].pc = "tell" => InTranscript(c)')
  BY <1>3, <1>4 DEF KindTrue
<1>6. Served(c)'
  BY <1>3, <1>4 DEF Served, GroupInv, Meant, Told, Live
<1>7. \A p \in Peer : RightlyTold(p, c)'
  BY <1>3, <1>4 DEF GroupInv, RightlyTold, Meant, Told, InTranscript, Logged
<1> QED BY <1>1, <1>2, <1>5, <1>6, <1>7, OneCommand

\* A command is refused.
LEMMA RefusedKeeps ==
  ASSUME GroupInv, NEW c \in Command, Refused(c)
  PROVE  GroupInv'
BY EndKeeps, GroupsAlone DEF Refused, GroupInv, KindTrue

\* A command begins, or goes on before it tells anyone.
LEMMA BeforeTelling ==
  ASSUME GroupInv, NEW c \in Command, NEW s \in CommandRecord, cmd' = [cmd EXCEPT ![c] = s],
         UNCHANGED <<session, inbox>>, group' \in [Group -> GroupRecord], OthersLogged(c),
         cmd[c].pc \notin {"tell", "ok", "failed"},
         \/ s.pc \in {"pair", "gather"} /\ s.kind = "send"
         \/ s.pc = "make"
         \/ s.pc \in {"write", "ok"} /\ s.kind # "send"
  PROVE  GroupInv'
<1>1. cmd'[c] = s
  BY DEF GroupInv, GroupShape
<1>2. KindTrue(c)' /\ Served(c)' /\ (cmd'[c].pc = "tell" => InTranscript(c)')
  BY <1>1 DEF KindTrue, Served
<1>3. \A p \in Peer : RightlyTold(p, c)'
  BY QuietCommand
<1> QED BY <1>2, <1>3, OneCommand

\* A command on a group begins.
LEMMA OnGroupKeeps ==
  ASSUME GroupInv, NEW c \in Command, OnGroup(c)
  PROVE  GroupInv'
<1>1. PICK kind \in {"send", "add", "leave", "remove"}, who \in Author, g \in Group, p \in Peer :
       /\ Authorized(who)
       /\ group[g].there
       /\ kind \in {"send", "add"} => who \in group[g].members \cup {"user"}
       /\ kind = "leave" => who # "user"
       /\ kind = "remove" => who = "user"
       /\ kind = "add" => Live(p)
       /\ cmd' = [cmd EXCEPT ![c] =
            [@ EXCEPT !.kind = kind, !.at = {g}, !.view = group[g].members,
                      !.by = IF kind \in {"send", "leave"} THEN who ELSE cmd[c].by,
                      !.other = IF kind = "add" THEN {p} ELSE {},
                      !.pc = IF kind = "send" THEN "gather" ELSE "write"]]
  BY DEF OnGroup
<1> DEFINE s == [cmd[c] EXCEPT !.kind = kind, !.at = {g}, !.view = group[g].members,
                      !.by = IF kind \in {"send", "leave"} THEN who ELSE cmd[c].by,
                      !.other = IF kind = "add" THEN {p} ELSE {},
                      !.pc = IF kind = "send" THEN "gather" ELSE "write"]
<1>2. cmd[c] \in CommandRecord /\ group[g].members \subseteq Peer
  BY DEF GroupInv, GroupShape, GroupRecord
<1>3. s \in CommandRecord
  BY <1>2 DEF CommandRecord, CommandKind
<1>4. s.kind = kind /\ s.pc = IF kind = "send" THEN "gather" ELSE "write"
  BY <1>2 DEF CommandRecord
<1>5. cmd' = [cmd EXCEPT ![c] = s]
  BY <1>1
<1> HIDE DEF s
<1> QED BY <1>3, <1>4, <1>5, BeforeTelling, GroupsAlone DEF OnGroup

\* A command on another session begins.
LEMMA OnSessionKeeps ==
  ASSUME GroupInv, NEW c \in Command, OnSession(c)
  PROVE  GroupInv'
<1>1. PICK who \in Peer, p \in Peer :
       cmd' = [cmd EXCEPT ![c] =
            [@ EXCEPT !.kind = "send", !.by = who, !.other = {p}, !.pc = "pair"]]
  BY DEF OnSession
<1> DEFINE s == [cmd[c] EXCEPT !.kind = "send", !.by = who, !.other = {p}, !.pc = "pair"]
<1>2. cmd[c] \in CommandRecord
  BY DEF GroupInv, GroupShape
<1>3. s \in CommandRecord
  BY <1>2 DEF CommandRecord, CommandKind, Author
<1>4. s.kind = "send" /\ s.pc = "pair"
  BY <1>2 DEF CommandRecord
<1>5. cmd' = [cmd EXCEPT ![c] = s]
  BY <1>1
<1> HIDE DEF s
<1> QED BY <1>3, <1>4, <1>5, BeforeTelling, GroupsAlone DEF OnSession

\* A command that makes a group begins.
LEMMA OnNewKeeps ==
  ASSUME GroupInv, NEW c \in Command, OnNew(c)
  PROVE  GroupInv'
<1>1. PICK members \in SUBSET Peer :
       cmd' = [cmd EXCEPT ![c] =
            [@ EXCEPT !.kind = "create", !.other = members, !.pc = "make"]]
  BY DEF OnNew
<1> DEFINE s == [cmd[c] EXCEPT !.kind = "create", !.other = members, !.pc = "make"]
<1>2. cmd[c] \in CommandRecord
  BY DEF GroupInv, GroupShape
<1>3. s \in CommandRecord
  BY <1>2 DEF CommandRecord, CommandKind
<1>4. s.pc = "make"
  BY <1>2 DEF CommandRecord
<1>5. cmd' = [cmd EXCEPT ![c] = s]
  BY <1>1
<1> HIDE DEF s
<1> QED BY <1>3, <1>4, <1>5, BeforeTelling, GroupsAlone DEF OnNew

\* The group of two sessions is looked up, or is to be made.
LEMMA FindPairKeeps ==
  ASSUME GroupInv, NEW c \in Command, FindPair(c)
  PROVE  GroupInv'
<1>1. cmd[c] \in CommandRecord /\ cmd[c].pc = "pair" /\ cmd[c].kind = "send"
  BY DEF GroupInv, GroupShape, FindPair, KindTrue
<1>2. PICK s \in CommandRecord : /\ cmd' = [cmd EXCEPT ![c] = s]
                                 /\ \/ s.pc = "gather" /\ s.kind = "send"
                                    \/ s.pc = "make"
  <2>1. CASE cmd' = [cmd EXCEPT ![c].pc = "make"]
    <3>1. [cmd[c] EXCEPT !.pc = "make"] \in CommandRecord
      BY <1>1 DEF CommandRecord
    <3> QED BY <3>1, <2>1, <1>1 DEF CommandRecord
  <2>2. ASSUME NEW g \in Group,
               cmd' = [cmd EXCEPT ![c] =
                         [@ EXCEPT !.at = {g}, !.view = group[g].members, !.pc = "gather"]]
        PROVE  \E s \in CommandRecord : /\ cmd' = [cmd EXCEPT ![c] = s]
                                        /\ s.pc = "gather" /\ s.kind = "send"
    <3>1. group[g].members \subseteq Peer
      BY DEF GroupInv, GroupShape, GroupRecord
    <3>2. [cmd[c] EXCEPT !.at = {g}, !.view = group[g].members, !.pc = "gather"] \in CommandRecord
      BY <1>1, <3>1 DEF CommandRecord
    <3> QED BY <3>2, <2>2, <1>1 DEF CommandRecord
  <2> QED BY <2>1, <2>2 DEF FindPair
<1> QED BY <1>1, <1>2, BeforeTelling, GroupsAlone DEF FindPair

\* A group made under an identifier no command has been given is in no other command's way.
LEMMA CreateGroupKeeps ==
  ASSUME GroupInv, NEW c \in Command, CreateGroup(c)
  PROVE  GroupInv'
<1> DEFINE members == cmd[c].other \cup ({cmd[c].by} \ {"user"})
<1>1. cmd[c] \in CommandRecord /\ group \in [Group -> GroupRecord] /\ cmd[c].pc = "make"
  BY DEF GroupInv, GroupShape, CreateGroup
<1>2. members \subseteq Peer
  BY <1>1 DEF CommandRecord, Author
<1> HIDE DEF members
<1>3. CASE Ends(c, "failed") /\ UNCHANGED group
  BY <1>3, EndKeeps, GroupsAlone DEF CreateGroup
<1>4. ASSUME NEW g \in Group, \A d \in Command : g \notin cmd[d].at,
             group' = [group EXCEPT ![g] = [NoGroup EXCEPT !.there = TRUE, !.members = members]],
             cmd' = [cmd EXCEPT ![c] =
                     [@ EXCEPT !.at = {g}, !.view = members, !.other = {},
                               !.pc = IF cmd[c].kind = "send" THEN "gather" ELSE "ok"]]
      PROVE  GroupInv'
  <2> DEFINE s == [cmd[c] EXCEPT !.at = {g}, !.view = members, !.other = {},
                               !.pc = IF cmd[c].kind = "send" THEN "gather" ELSE "ok"]
  <2>1. s \in CommandRecord
    BY <1>1, <1>2 DEF CommandRecord
  <2>2. s.kind = cmd[c].kind /\ s.pc = IF cmd[c].kind = "send" THEN "gather" ELSE "ok"
    BY <1>1 DEF CommandRecord
  <2>3. cmd' = [cmd EXCEPT ![c] = s]
    BY <1>4
  <2> HIDE DEF s
  <2>4. [NoGroup EXCEPT !.there = TRUE, !.members = members] \in GroupRecord
    BY <1>2, NewGroup
  <2>5. group' \in [Group -> GroupRecord]
    BY <1>1, <1>4, <2>4
  <2>6. OthersLogged(c)
    BY <1>1, <1>4 DEF OthersLogged, Logged
  <2> QED BY <1>1, <2>1, <2>2, <2>3, <2>5, <2>6, BeforeTelling DEF CreateGroup
<1> QED BY <1>3, <1>4 DEF CreateGroup, members

\* The membership of a group is written, or the group goes.
LEMMA WriteGroupKeeps ==
  ASSUME GroupInv, NEW c \in Command, WriteGroup(c)
  PROVE  GroupInv'
<1>1. cmd[c] \in CommandRecord /\ group \in [Group -> GroupRecord] /\ cmd[c].kind # "send"
  BY DEF GroupInv, GroupShape, WriteGroup, KindTrue
<1>2. PICK g \in cmd[c].at :
       \/ ~ group[g].there /\ Ends(c, "failed") /\ UNCHANGED group
       \/ /\ group[g].there /\ cmd[c].kind = "remove"
          /\ Ends(c, "ok")
          /\ group' = [group EXCEPT ![g] = NoGroup]
       \/ /\ group[g].there /\ cmd[c].kind \in {"add", "leave"}
          /\ LET members == IF cmd[c].kind = "add" THEN cmd[c].view \cup cmd[c].other
                                                   ELSE cmd[c].view \ {cmd[c].by}
             IN IF Listed(members)
                THEN Ends(c, "ok") /\ group' = [group EXCEPT ![g].members = members]
                ELSE Ends(c, "failed") /\ UNCHANGED group
  BY DEF WriteGroup
<1>3. CASE UNCHANGED group /\ Ends(c, "failed")
  BY <1>1, <1>3, EndKeeps, GroupsAlone DEF WriteGroup
<1>4. CASE Ends(c, "ok") /\ group' = [group EXCEPT ![g] = NoGroup]
  <2>1. group' \in [Group -> GroupRecord]
    BY <1>1, <1>4, NewGroup
  <2>2. OthersLogged(c)
    BY <1>1, <1>4 DEF OthersLogged, Logged, NoGroup, GroupRecord
  <2> QED BY <1>1, <1>4, <2>1, <2>2, EndKeeps DEF WriteGroup
<1>5. ASSUME NEW members \in SUBSET Peer, Ends(c, "ok"), group[g].there,
             group' = [group EXCEPT ![g].members = members]
      PROVE  GroupInv'
  <2>1. group' \in [Group -> GroupRecord]
    BY <1>1, <1>5 DEF GroupRecord
  <2>2. OthersLogged(c)
    BY <1>1, <1>5 DEF OthersLogged, Logged, GroupRecord
  <2> QED BY <1>1, <1>5, <2>1, <2>2, EndKeeps DEF WriteGroup
<1>6. cmd[c].view \cup cmd[c].other \in SUBSET Peer /\ cmd[c].view \ {cmd[c].by} \in SUBSET Peer
  BY <1>1 DEF CommandRecord
<1> QED BY <1>2, <1>3, <1>4, <1>5, <1>6

\* Whom the post is for is read from the group as it is now.
LEMMA GatherKeeps ==
  ASSUME GroupInv, NEW c \in Command, Gather(c)
  PROVE  GroupInv'
<1> DEFINE s == [cmd[c] EXCEPT !.targets = {p \in cmd[c].view \ {cmd[c].by} : Live(p)},
                              !.pc = "append"]
<1>1. cmd[c] \in CommandRecord /\ cmd \in [Command -> CommandRecord] /\ cmd[c].pc = "gather"
      /\ cmd[c].kind = "send"
  BY DEF GroupInv, GroupShape, Gather, KindTrue
<1>2. s \in CommandRecord
  BY <1>1 DEF CommandRecord
<1>3. /\ s.pc = "append" /\ s.kind = "send" /\ s.view = cmd[c].view /\ s.by = cmd[c].by
      /\ s.targets = {p \in cmd[c].view \ {cmd[c].by} : Live(p)}
  BY <1>1 DEF CommandRecord
<1>4. cmd' = [cmd EXCEPT ![c] = s]
  BY DEF Gather
<1> HIDE DEF s
<1>5. cmd'[c] = s
  BY <1>1, <1>4
<1>6. KindTrue(c)' /\ (cmd'[c].pc = "tell" => InTranscript(c)')
  BY <1>3, <1>5 DEF KindTrue
<1>7. Served(c)'
  BY <1>3, <1>5 DEF Served, Meant, Live, Gather
<1>8. \A p \in Peer : RightlyTold(p, c)'
  BY <1>1, QuietCommand DEF Gather
<1> QED BY <1>2, <1>4, <1>6, <1>7, <1>8, OneCommand, GroupsAlone DEF Gather

\* The last place of a sequence that was appended to holds what was appended.
LEMMA AppendedLast ==
  ASSUME NEW S, NEW q \in Seq(S), NEW e \in S
  PROVE  /\ Append(q, e) \in Seq(S)
         /\ \E i \in DOMAIN Append(q, e) : Append(q, e)[i] = e
         /\ \A x : (\E i \in DOMAIN q : q[i] = x) => \E i \in DOMAIN Append(q, e) : Append(q, e)[i] = x
<1>1. Len(q) + 1 \in DOMAIN Append(q, e) /\ Append(q, e)[Len(q) + 1] = e
  OBVIOUS
<1>2. \A i \in DOMAIN q : i \in DOMAIN Append(q, e) /\ Append(q, e)[i] = q[i]
  OBVIOUS
<1> QED BY <1>1, <1>2

\* The post is put in the transcript before anyone is told.
LEMMA AppendMessageKeeps ==
  ASSUME GroupInv, NEW c \in Command, AppendMessage(c)
  PROVE  GroupInv'
<1> DEFINE s == [cmd[c] EXCEPT !.pc = "tell"]
<1>1. /\ cmd[c] \in CommandRecord /\ cmd \in [Command -> CommandRecord] /\ cmd[c].pc = "append"
      /\ cmd[c].kind = "send" /\ group \in [Group -> GroupRecord]
  BY DEF GroupInv, GroupShape, AppendMessage, KindTrue
<1>2. s \in CommandRecord
  BY <1>1 DEF CommandRecord
<1>3. /\ s.pc = "tell" /\ s.kind = "send" /\ s.view = cmd[c].view /\ s.by = cmd[c].by
      /\ s.targets = cmd[c].targets /\ s.at = cmd[c].at
  BY <1>1 DEF CommandRecord
<1>4. cmd' = [cmd EXCEPT ![c] = s]
  BY DEF AppendMessage
<1> HIDE DEF s
<1>5. cmd'[c] = s
  BY <1>1, <1>4
<1>6. KindTrue(c)'
  BY <1>3, <1>5 DEF KindTrue
<1>7. Served(c)'
  BY <1>1, <1>3, <1>5 DEF GroupInv, Served, Meant, Live, AppendMessage
<1>8. \A p \in Peer : RightlyTold(p, c)'
  BY <1>1, QuietCommand DEF AppendMessage
<1>9. ASSUME NEW g \in Group
      PROVE  /\ group'[g] = IF g \in cmd[c].at THEN [group[g] EXCEPT !.log = Append(@, c)]
                                                ELSE group[g]
             /\ group'[g] \in GroupRecord
             /\ group'[g].there = group[g].there
             /\ \A d \in Command : Logged(g, d) => Logged(g, d)'
             /\ g \in cmd[c].at => Logged(g, c)'
  <2>1. group[g] \in GroupRecord /\ group[g].log \in Seq(Command)
    BY <1>1 DEF GroupRecord
  <2>2. group'[g] = IF g \in cmd[c].at THEN [group[g] EXCEPT !.log = Append(@, c)] ELSE group[g]
    BY DEF AppendMessage
  <2>3. group'[g].log = IF g \in cmd[c].at THEN Append(group[g].log, c) ELSE group[g].log
    BY <2>1, <2>2 DEF GroupRecord
  <2>4. group'[g] \in GroupRecord /\ group'[g].there = group[g].there
    <3>1. Append(group[g].log, c) \in Seq(Command)
      BY <2>1, AppendedLast
    <3> QED BY <2>1, <2>2, <3>1 DEF GroupRecord
  <2>5. (\A d \in Command : Logged(g, d) => Logged(g, d)') /\ (g \in cmd[c].at => Logged(g, c)')
    BY <2>1, <2>3, AppendedLast DEF Logged
  <2> QED BY <2>2, <2>4, <2>5
<1>10. group' \in [Group -> GroupRecord]
  BY <1>9 DEF AppendMessage
<1>11. OthersLogged(c)
  BY <1>9 DEF OthersLogged
<1>12. InTranscript(c)'
  BY <1>3, <1>5, <1>9, <1>1 DEF InTranscript, CommandRecord
<1> QED BY <1>2, <1>4, <1>6, <1>7, <1>8, <1>10, <1>11, <1>12, OneCommand DEF AppendMessage

\* A member is told once: it leaves those still to be told as its inbox takes the post.
LEMMA TellOneKeeps ==
  ASSUME GroupInv, NEW c \in Command, cmd[c].pc = "tell", NEW p \in cmd[c].targets, Live(p),
         inbox' = [inbox EXCEPT ![p] = Append(@, c)],
         cmd' = [cmd EXCEPT ![c].targets = @ \ {p}],
         UNCHANGED <<session, group>>
  PROVE  GroupInv'
<1> DEFINE s == [cmd[c] EXCEPT !.targets = @ \ {p}]
<1>1. /\ cmd[c] \in CommandRecord /\ cmd \in [Command -> CommandRecord] /\ p \in Peer
      /\ cmd[c].kind = "send" /\ inbox \in [Peer -> Seq(Command)] /\ inbox[p] \in Seq(Command)
      /\ p \in Meant(c)
  BY DEF GroupInv, GroupShape, KindTrue, Served, CommandRecord
<1>2. s \in CommandRecord
  BY <1>1 DEF CommandRecord
<1>3. /\ s.pc = "tell" /\ s.kind = "send" /\ s.view = cmd[c].view /\ s.by = cmd[c].by
      /\ s.targets = cmd[c].targets \ {p} /\ s.at = cmd[c].at
  BY <1>1 DEF CommandRecord
<1>4. cmd' = [cmd EXCEPT ![c] = s]
  OBVIOUS
<1> HIDE DEF s
<1>5. cmd'[c] = s /\ \A d \in Command \ {c} : cmd'[d] = cmd[d]
  BY <1>1, <1>4
<1>6. Append(inbox[p], c) \in Seq(Command)
  BY <1>1, AppendedLast
<1>7. GroupShape'
  BY <1>1, <1>2, <1>4, <1>6 DEF GroupInv, GroupShape
<1>8. ~ Told(p, c)
  BY <1>1 DEF GroupInv, RightlyTold
<1>9. inbox'[p] = Append(inbox[p], c) /\ \A q \in Peer \ {p} : inbox'[q] = inbox[q]
  BY <1>1
<1>10. ASSUME NEW q \in Peer PROVE OnceEach(q)'
  <2>1. CASE q # p
    BY <2>1, <1>9 DEF GroupInv, OnceEach
  <2>2. CASE q = p
    <3>1. ASSUME NEW i \in DOMAIN inbox'[p], NEW j \in DOMAIN inbox'[p],
                 inbox'[p][i] = inbox'[p][j]
          PROVE  i = j
      <4>1. i \in 1 .. Len(inbox[p]) + 1 /\ j \in 1 .. Len(inbox[p]) + 1
        BY <1>1, <1>9, <3>1
      <4>2. \A k \in 1 .. Len(inbox[p]) : inbox'[p][k] = inbox[p][k] /\ inbox[p][k] # c
        BY <1>1, <1>8, <1>9 DEF Told
      <4>3. inbox'[p][Len(inbox[p]) + 1] = c
        BY <1>1, <1>9
      <4>4. \A k, l \in 1 .. Len(inbox[p]) : inbox[p][k] = inbox[p][l] => k = l
        BY <1>1 DEF GroupInv, OnceEach
      <4> QED BY <1>1, <4>1, <4>2, <4>3, <4>4, <3>1
    <3> QED BY <2>2, <3>1 DEF OnceEach
  <2> QED BY <2>1, <2>2
<1>11. ASSUME NEW q \in Peer, NEW d \in Command
       PROVE  Told(q, d)' <=> Told(q, d) \/ (q = p /\ d = c)
  <2>1. CASE q # p
    BY <2>1, <1>9 DEF Told
  <2>2. CASE q = p
    <3>0. \A i \in DOMAIN inbox[p] : i \in DOMAIN inbox'[p] /\ inbox'[p][i] = inbox[p][i]
      BY <1>1, <1>9
    <3>1. Told(p, d) => Told(p, d)'
      BY <3>0 DEF Told
    <3>2. Told(p, c)'
      BY <1>1, <1>9, AppendedLast DEF Told
    <3>3. Told(p, d)' /\ d # c => Told(p, d)
      BY <1>1, <1>9 DEF Told
    <3> QED BY <2>2, <3>1, <3>2, <3>3
  <2> QED BY <2>1, <2>2
<1>12. \A d \in Command : InTranscript(d)' <=> InTranscript(d)
  BY <1>3, <1>5 DEF InTranscript, Logged
<1>13. ASSUME NEW d \in Command
       PROVE  KindTrue(d)' /\ Served(d)' /\ (cmd'[d].pc = "tell" => InTranscript(d)')
  <2>1. KindTrue(d) /\ Served(d) /\ (cmd[d].pc = "tell" => InTranscript(d))
    BY DEF GroupInv
  <2>2. CASE d = c
    <3>1. KindTrue(d)'
      BY <2>1, <2>2, <1>3, <1>5 DEF KindTrue
    <3>2. Served(d)'
      BY <2>1, <2>2, <1>1, <1>3, <1>5, <1>11 DEF Served, Meant, Live, CommandRecord
    <3> QED BY <2>1, <2>2, <3>1, <3>2, <1>12
  <2>3. CASE d # c
    <3>1. KindTrue(d)'
      BY <2>1, <2>3, <1>5 DEF KindTrue
    <3>2. Served(d)'
      BY <2>1, <2>3, <1>1, <1>5, <1>11, <1>7 DEF Served, Meant, Live, GroupShape, CommandRecord
    <3> QED BY <2>1, <2>3, <3>1, <3>2, <1>5, <1>12
  <2> QED BY <2>2, <2>3
<1>14. ASSUME NEW q \in Peer, NEW d \in Command PROVE RightlyTold(q, d)'
  <2>1. RightlyTold(q, d) /\ InTranscript(c)
    BY DEF GroupInv
  <2> QED BY <2>1, <1>1, <1>3, <1>5, <1>11, <1>12 DEF RightlyTold, Meant
<1> QED BY <1>7, <1>10, <1>13, <1>14 DEF GroupInv

\* One of those the post is for is told, or has gone.
LEMMA TellKeeps ==
  ASSUME GroupInv, NEW c \in Command, Tell(c)
  PROVE  GroupInv'
<1>1. CASE cmd[c].targets = {} /\ Ends(c, "ok") /\ UNCHANGED inbox
  BY <1>1, EndKeeps, GroupsAlone DEF Tell
<1>2. CASE Ends(c, "failed") /\ UNCHANGED inbox
  BY <1>2, EndKeeps, GroupsAlone DEF Tell
<1>3. ASSUME NEW p \in cmd[c].targets, Live(p),
             inbox' = [inbox EXCEPT ![p] = Append(@, c)],
             cmd' = [cmd EXCEPT ![c].targets = @ \ {p}]
      PROVE  GroupInv'
  BY <1>3, TellOneKeeps DEF Tell
<1> QED BY <1>1, <1>2, <1>3 DEF Tell

\* Whoever is not live any more need not be told, and what it was told is gone with it.
LEMMA DeleteSessionKeeps ==
  ASSUME GroupInv, NEW p \in Peer, DeleteSession(p)
  PROVE  GroupInv'
<1>1. /\ inbox' = [inbox EXCEPT ![p] = <<>>] /\ session' = [session EXCEPT ![p] = "erased"]
      /\ UNCHANGED <<group, cmd>> /\ Live(p)
  BY DEF DeleteSession
<1>2. GroupShape'
  BY <1>1 DEF GroupInv, GroupShape
<1>3. inbox'[p] = <<>> /\ \A q \in Peer \ {p} : inbox'[q] = inbox[q]
  BY <1>1 DEF GroupInv, GroupShape
<1>4. ~ Live(p)' /\ \A q \in Peer \ {p} : Live(q)' <=> Live(q)
  BY <1>1 DEF GroupInv, GroupShape, Live
<1>5. \A q \in Peer : OnceEach(q)'
  BY <1>3 DEF GroupInv, OnceEach
<1>6. \A c \in Command : ~ Told(p, c)' /\ \A q \in Peer \ {p} : Told(q, c)' <=> Told(q, c)
  BY <1>3 DEF Told
<1>7. \A c \in Command : InTranscript(c)' <=> InTranscript(c)
  BY <1>1 DEF InTranscript, Logged
<1>8. ASSUME NEW c \in Command
      PROVE  KindTrue(c)' /\ Served(c)' /\ (cmd'[c].pc = "tell" => InTranscript(c)')
  <2>1. KindTrue(c) /\ Served(c) /\ (cmd[c].pc = "tell" => InTranscript(c))
    BY DEF GroupInv
  <2>2. cmd[c].view \subseteq Peer
    BY DEF GroupInv, GroupShape, CommandRecord
  <2> QED BY <2>1, <2>2, <1>1, <1>4, <1>6, <1>7 DEF KindTrue, Served, Meant
<1>9. ASSUME NEW q \in Peer, NEW c \in Command PROVE RightlyTold(q, c)'
  <2>1. RightlyTold(q, c)
    BY DEF GroupInv
  <2> QED BY <2>1, <1>1, <1>6, <1>7 DEF RightlyTold, Meant
<1> QED BY <1>2, <1>5, <1>8, <1>9 DEF GroupInv

\* A session that is erased leaves its groups.
LEMMA LeaveGroupsKeeps ==
  ASSUME GroupInv, NEW p \in Peer, LeaveGroups(p)
  PROVE  GroupInv'
<1>1. /\ session' = [session EXCEPT ![p] = "gone"] /\ UNCHANGED <<inbox, cmd>>
      /\ group' = [g \in Group |-> [group[g] EXCEPT !.members = @ \ {p}]] /\ session[p] = "erased"
  BY DEF LeaveGroups
<1>2. \A g \in Group : /\ group'[g] \in GroupRecord /\ group'[g].there = group[g].there
                       /\ group'[g].log = group[g].log
  BY <1>1 DEF GroupInv, GroupShape, GroupRecord
<1>3. GroupShape'
  BY <1>1, <1>2 DEF GroupInv, GroupShape
<1>4. \A q \in Peer : Live(q)' <=> Live(q)
  BY <1>1 DEF GroupInv, GroupShape, Live
<1>5. ASSUME NEW c \in Command PROVE InTranscript(c)' <=> InTranscript(c)
  <2>1. cmd[c].at \subseteq Group
    BY DEF GroupInv, GroupShape, CommandRecord
  <2>2. \A g \in Group : Logged(g, c)' <=> Logged(g, c)
    BY <1>2 DEF Logged
  <2> QED BY <1>1, <1>2, <2>1, <2>2 DEF InTranscript
<1>6. ASSUME NEW c \in Command
      PROVE  KindTrue(c)' /\ Served(c)' /\ (cmd'[c].pc = "tell" => InTranscript(c)')
  <2>1. KindTrue(c) /\ Served(c) /\ (cmd[c].pc = "tell" => InTranscript(c))
    BY DEF GroupInv
  <2>2. cmd[c].view \subseteq Peer
    BY DEF GroupInv, GroupShape, CommandRecord
  <2> QED BY <2>1, <2>2, <1>1, <1>4, <1>5 DEF KindTrue, Served, Meant, Told
<1>7. ASSUME NEW q \in Peer PROVE OnceEach(q)' /\ \A c \in Command : RightlyTold(q, c)'
  BY <1>1, <1>5 DEF GroupInv, RightlyTold, Meant, Told, OnceEach
<1> QED BY <1>3, <1>6, <1>7 DEF GroupInv

\* Every step keeps the invariant.
LEMMA GroupStep ==
  ASSUME GroupInv, [GroupNext]_group_vars
  PROVE  GroupInv'
<1>1. CASE GroupNext
  BY <1>1, RefusedKeeps, OnGroupKeeps, OnSessionKeeps, OnNewKeeps, FindPairKeeps, CreateGroupKeeps,
     WriteGroupKeeps, GatherKeeps, AppendMessageKeeps, TellKeeps, DeleteSessionKeeps,
     LeaveGroupsKeeps DEF GroupNext
<1>2. CASE UNCHANGED group_vars
  BY <1>2 DEF group_vars, GroupInv, GroupShape, OnceEach, KindTrue, Served, RightlyTold, Told,
              InTranscript, Logged, Meant, Live
<1> QED BY <1>1, <1>2

\* A post reaches everyone it is for once, its author never, and nobody before the transcript
\* has it, whatever other commands and deletions do meanwhile (send_peer, append_message).
THEOREM PostsAreDelivered == GroupSpec => []PostDelivered
<1>1. GroupInit => GroupInv
  BY GroupStart
<1>2. GroupInv /\ [GroupNext]_group_vars => GroupInv'
  BY GroupStep
<1>3. GroupInv => PostDelivered
  BY GroupInvDelivers
<1> QED BY <1>1, <1>2, <1>3, PTL DEF GroupSpec

-----------------------------------------------------------------------------
(* The files of a session. *)

\* The shapes of the variables of a session's files.
FilesShape ==
  /\ form \in FileForm
  /\ bytes \in SUBSET Blob /\ described \in SUBSET Blob /\ crossed \in SUBSET Blob
  /\ library \in [Blob -> {"absent", "hidden", "shown"}]
  /\ messages \in Seq(Message)
  /\ job \in {"none", "working", "done"}
  /\ upload \in [pc : {"idle", "stored", "described"}, blob : Blob]
  /\ input \in [pc : {"idle", "read", "stored", "recorded"}, blob : Blob]
  /\ prune \in [pc : {"idle", "released", "chosen"}, names : SUBSET (Blob \cup {Job})]

\* A message names what it needs.
NeedsNamed == \A i \in DOMAIN messages : messages[i].needs \subseteq messages[i].names

\* What an upload or an input under way goes by is there, unless it crossed.
UploadHolds ==
  /\ upload.pc = "stored" => upload.blob \in bytes \cup crossed
  /\ upload.pc = "described" => ContainsBlob(upload.blob) \/ upload.blob \in crossed

\* What an input under way has read and stored is there, unless it crossed.
InputHolds ==
  /\ input.pc # "idle" => ContainsBlob(input.blob) \/ input.blob \in crossed
  /\ input.pc \in {"stored", "recorded"} /\ IsImage(input.blob) =>
       form.sent[input.blob] \in bytes \cup crossed

\* What a prune is about to remove is in use by nothing, unless it crossed.
PruneHolds ==
  prune.pc # "idle" =>
    /\ job # "working"
    /\ \A b \in (prune.names \cap Blob) \ crossed :
         /\ ~ Handling(b) /\ b \notin Images
         /\ prune.pc = "chosen" =>
              library[b] # "shown" /\ (job = "done" /\ b = form.artifact => Job \in prune.names)

\* The inductive invariant of a session's files.
FilesInv == FilesShape /\ NeedsNamed /\ FilesTrue /\ UploadHolds /\ InputHolds /\ PruneHolds

\* Nothing begins with anything stored, shown or under way.
LEMMA FilesStart ==
  ASSUME FilesInit
  PROVE  FilesInv
<1>1. Blob # {} /\ form \in FileForm
  BY FilesAssumption DEF FilesInit, FileForm
<1>2. AtRest.pc = "idle" /\ AtRest.blob \in Blob /\ AtRest = [pc |-> "idle", blob |-> AtRest.blob]
  BY <1>1 DEF AtRest, AtStep
<1>3. FilesShape
  BY <1>1, <1>2 DEF FilesInit, FilesShape
<1>4. NeedsNamed /\ Images = {}
  BY DEF FilesInit, NeedsNamed, Images, InUse
<1>5. FilesTrue
  BY <1>4 DEF FilesInit, FilesTrue, FilesKept, ListingTrue
<1> QED BY <1>2, <1>3, <1>4, <1>5 DEF FilesInv, FilesInit, UploadHolds, InputHolds, PruneHolds

\* An operation that is no longer under way.
LEMMA Resting ==
  ASSUME FilesShape
  PROVE  AtRest \in [pc : {"idle"}, blob : Blob] /\ AtRest.pc = "idle"
<1>1. Blob # {}
  BY DEF FilesShape, FileForm
<1> QED BY <1>1 DEF AtRest, AtStep

\* Images are needed by messages and nothing else.
LEMMA SameMessages ==
  ASSUME UNCHANGED messages
  PROVE  Images' = Images /\ (NeedsNamed => NeedsNamed')
BY DEF Images, InUse, NeedsNamed

\* Rows are kept of a directory only while it does not change.
LEMMA ListingKept ==
  ASSUME ListingTrue, DirectoryChanges \/ UNCHANGED <<rows, bytes, described, library, form>>
  PROVE  ListingTrue'
BY DEF ListingTrue, DirectoryChanges, Scanned, ContainsBlob

\* An upload's bytes are stored.
LEMMA UploadStoredKeeps ==
  ASSUME FilesInv, NEW b \in Blob, UploadStored(b)
  PROVE  FilesInv'
<1> USE DEF FilesInv
<1>1. FilesShape'
  BY DEF FilesShape, UploadStored, AtStep, BeginFileWork, Meets
<1>2. Images' = Images /\ NeedsNamed'
  BY SameMessages DEF UploadStored
<1>3. ListingTrue'
  BY ListingKept DEF UploadStored, FilesTrue
<1>4. FilesKept'
  BY <1>2 DEF FilesTrue, FilesKept, FilesShape, FileForm, ContainsBlob, UploadStored, UploadHolds,
     InputHolds, AtStep, Meets
<1>5. UploadHolds'
  BY DEF UploadHolds, FilesShape, FileForm, ContainsBlob, UploadStored, AtStep, Meets
<1>6. InputHolds'
  BY DEF InputHolds, IsImage, FilesShape, FileForm, ContainsBlob, UploadStored, AtStep, Meets
<1>7. PruneHolds'
  BY <1>2 DEF PruneHolds, FilesShape, FileForm, Handling, Removing, UploadStored, AtStep, Meets
<1> QED BY <1>1, <1>2, <1>3, <1>4, <1>5, <1>6, <1>7 DEF FilesTrue

\* An upload is described.
LEMMA UploadDescribedKeeps ==
  ASSUME FilesInv, NEW b \in Blob, UploadDescribed(b)
  PROVE  FilesInv'
<1> USE DEF FilesInv
<1>1. FilesShape'
  BY DEF FilesShape, UploadDescribed, AtStep, BeginFileWork, Meets
<1>2. Images' = Images /\ NeedsNamed'
  BY SameMessages DEF UploadDescribed
<1>3. ListingTrue'
  BY ListingKept DEF UploadDescribed, FilesTrue
<1>4. FilesKept'
  BY <1>2 DEF FilesTrue, FilesKept, FilesShape, FileForm, ContainsBlob, UploadDescribed,
     UploadHolds, InputHolds, AtStep, Meets
<1>5. UploadHolds'
  BY DEF UploadHolds, FilesShape, FileForm, ContainsBlob, UploadDescribed, AtStep, Meets
<1>6. InputHolds'
  BY DEF InputHolds, IsImage, FilesShape, FileForm, ContainsBlob, UploadDescribed, AtStep, Meets
<1>7. PruneHolds'
  BY <1>2 DEF PruneHolds, FilesShape, FileForm, Handling, Removing, UploadDescribed, AtStep, Meets
<1> QED BY <1>1, <1>2, <1>3, <1>4, <1>5, <1>6, <1>7 DEF FilesTrue

\* An upload is entered in the library.
LEMMA UploadRecordedKeeps ==
  ASSUME FilesInv, NEW temporary \in BOOLEAN, UploadRecorded(temporary)
  PROVE  FilesInv'
<1> USE DEF FilesInv
<1>1. FilesShape'
  BY Resting DEF FilesShape, UploadRecorded, AtStep, BeginFileWork, Meets
<1>2. Images' = Images /\ NeedsNamed'
  BY SameMessages DEF UploadRecorded
<1>3. ListingTrue'
  BY ListingKept DEF UploadRecorded, FilesTrue
<1>4. FilesKept'
  BY Resting, <1>2 DEF FilesTrue, FilesKept, FilesShape, FileForm, ContainsBlob, UploadRecorded,
     UploadHolds, InputHolds, AtStep, Meets
<1>5. UploadHolds'
  BY Resting DEF UploadHolds, FilesShape, FileForm, ContainsBlob, UploadRecorded, AtStep, Meets
<1>6. InputHolds'
  BY Resting DEF InputHolds, IsImage, FilesShape, FileForm, ContainsBlob, UploadRecorded, AtStep,
     Meets
<1>7. PruneHolds'
  BY Resting, <1>2 DEF PruneHolds, FilesShape, FileForm, Handling, Removing, UploadRecorded,
     AtStep, Meets
<1> QED BY <1>1, <1>2, <1>3, <1>4, <1>5, <1>6, <1>7 DEF FilesTrue

\* An upload is given up.
LEMMA UploadDroppedKeeps ==
  ASSUME FilesInv, UploadDropped
  PROVE  FilesInv'
<1> USE DEF FilesInv
<1>1. FilesShape'
  BY Resting DEF FilesShape, UploadDropped, AtStep, BeginFileWork, Meets
<1>2. Images' = Images /\ NeedsNamed'
  BY SameMessages DEF UploadDropped
<1>3. ListingTrue'
  BY ListingKept DEF UploadDropped, FilesTrue
<1>4. FilesKept'
  BY Resting, <1>2 DEF FilesTrue, FilesKept, FilesShape, FileForm, ContainsBlob, UploadDropped,
     UploadHolds, InputHolds, AtStep, Meets
<1>5. UploadHolds'
  BY Resting DEF UploadHolds, FilesShape, FileForm, ContainsBlob, UploadDropped, AtStep, Meets
<1>6. InputHolds'
  BY Resting DEF InputHolds, IsImage, FilesShape, FileForm, ContainsBlob, UploadDropped, AtStep,
     Meets
<1>7. PruneHolds'
  BY Resting, <1>2 DEF PruneHolds, FilesShape, FileForm, Handling, Removing, UploadDropped,
     AtStep, Meets
<1> QED BY <1>1, <1>2, <1>3, <1>4, <1>5, <1>6, <1>7 DEF FilesTrue

\* An input names a stored file.
LEMMA InputReadKeeps ==
  ASSUME FilesInv, NEW b \in Blob, InputRead(b)
  PROVE  FilesInv'
<1> USE DEF FilesInv
<1>1. FilesShape'
  BY DEF FilesShape, InputRead, AtStep, BeginFileWork, Meets, FileForm
<1>2. Images' = Images /\ NeedsNamed'
  BY SameMessages DEF InputRead
<1>3. ListingTrue'
  BY ListingKept DEF InputRead, FilesTrue
<1>4. FilesKept'
  BY <1>2 DEF FilesTrue, FilesKept, FilesShape, FileForm, ContainsBlob, InputRead, UploadHolds,
     InputHolds, AtStep, Meets, FileForm
<1>5. UploadHolds'
  BY DEF UploadHolds, FilesShape, FileForm, ContainsBlob, InputRead, AtStep, Meets, FileForm
<1>6. InputHolds'
  BY DEF InputHolds, IsImage, FilesShape, FileForm, ContainsBlob, InputRead, AtStep, Meets, FileForm
<1>7. PruneHolds'
  BY <1>2 DEF PruneHolds, FilesShape, FileForm, Handling, Removing, InputRead, AtStep, Meets,
     FileForm
<1> QED BY <1>1, <1>2, <1>3, <1>4, <1>5, <1>6, <1>7 DEF FilesTrue

\* What is sent of it is stored.
LEMMA InputStoredKeeps ==
  ASSUME FilesInv, InputStored
  PROVE  FilesInv'
<1> USE DEF FilesInv
<1>1. FilesShape'
  BY DEF FilesShape, InputStored, AtStep, BeginFileWork, Meets, IsImage, FileForm
<1>2. Images' = Images /\ NeedsNamed'
  BY SameMessages DEF InputStored
<1>3. ListingTrue'
  BY ListingKept DEF InputStored, FilesTrue
<1>4. FilesKept'
  BY <1>2 DEF FilesTrue, FilesKept, FilesShape, FileForm, ContainsBlob, InputStored, UploadHolds,
     InputHolds, AtStep, Meets, IsImage, FileForm
<1>5. UploadHolds'
  BY DEF UploadHolds, FilesShape, FileForm, ContainsBlob, InputStored, AtStep, Meets, IsImage,
     FileForm
<1>6. InputHolds'
  BY DEF InputHolds, IsImage, FilesShape, FileForm, ContainsBlob, InputStored, AtStep, Meets,
     IsImage, FileForm
<1>7. PruneHolds'
  BY <1>2 DEF PruneHolds, FilesShape, FileForm, Handling, Removing, InputStored, AtStep, Meets,
     IsImage, FileForm
<1> QED BY <1>1, <1>2, <1>3, <1>4, <1>5, <1>6, <1>7 DEF FilesTrue

\* It is entered in the library.
LEMMA InputRecordedKeeps ==
  ASSUME FilesInv, InputRecorded
  PROVE  FilesInv'
<1> USE DEF FilesInv
<1>1. FilesShape'
  BY DEF FilesShape, InputRecorded, AtStep, BeginFileWork, Meets
<1>2. Images' = Images /\ NeedsNamed'
  BY SameMessages DEF InputRecorded
<1>3. ListingTrue'
  BY ListingKept DEF InputRecorded, FilesTrue
<1>4. FilesKept'
  BY <1>2 DEF FilesTrue, FilesKept, FilesShape, FileForm, ContainsBlob, InputRecorded,
     UploadHolds, InputHolds, AtStep, Meets
<1>5. UploadHolds'
  BY DEF UploadHolds, FilesShape, FileForm, ContainsBlob, InputRecorded, AtStep, Meets
<1>6. InputHolds'
  BY DEF InputHolds, IsImage, FilesShape, FileForm, ContainsBlob, InputRecorded, AtStep, Meets
<1>7. PruneHolds'
  BY <1>2 DEF PruneHolds, FilesShape, FileForm, Handling, Removing, InputRecorded, AtStep, Meets
<1> QED BY <1>1, <1>2, <1>3, <1>4, <1>5, <1>6, <1>7 DEF FilesTrue

\* The input is given up.
LEMMA InputDroppedKeeps ==
  ASSUME FilesInv, InputDropped
  PROVE  FilesInv'
<1> USE DEF FilesInv
<1>1. FilesShape'
  BY Resting DEF FilesShape, InputDropped, AtStep, BeginFileWork, Meets
<1>2. Images' = Images /\ NeedsNamed'
  BY SameMessages DEF InputDropped
<1>3. ListingTrue'
  BY ListingKept DEF InputDropped, FilesTrue
<1>4. FilesKept'
  BY Resting, <1>2 DEF FilesTrue, FilesKept, FilesShape, FileForm, ContainsBlob, InputDropped,
     UploadHolds, InputHolds, AtStep, Meets
<1>5. UploadHolds'
  BY Resting DEF UploadHolds, FilesShape, FileForm, ContainsBlob, InputDropped, AtStep, Meets
<1>6. InputHolds'
  BY Resting DEF InputHolds, IsImage, FilesShape, FileForm, ContainsBlob, InputDropped, AtStep,
     Meets
<1>7. PruneHolds'
  BY Resting, <1>2 DEF PruneHolds, FilesShape, FileForm, Handling, Removing, InputDropped, AtStep,
     Meets
<1> QED BY <1>1, <1>2, <1>3, <1>4, <1>5, <1>6, <1>7 DEF FilesTrue

\* A media job stores its artifact.
LEMMA JobStoresKeeps ==
  ASSUME FilesInv, JobStores
  PROVE  FilesInv'
<1> USE DEF FilesInv
<1>1. FilesShape'
  BY DEF FilesShape, JobStores, AtStep, BeginFileWork, Meets, FileForm
<1>2. Images' = Images /\ NeedsNamed'
  BY SameMessages DEF JobStores
<1>3. ListingTrue'
  BY ListingKept DEF JobStores, FilesTrue
<1>4. FilesKept'
  BY <1>2 DEF FilesTrue, FilesKept, FilesShape, FileForm, ContainsBlob, JobStores, UploadHolds,
     InputHolds, AtStep, Meets, FileForm
<1>5. UploadHolds'
  BY DEF UploadHolds, FilesShape, FileForm, ContainsBlob, JobStores, AtStep, Meets, FileForm
<1>6. InputHolds'
  BY DEF InputHolds, IsImage, FilesShape, FileForm, ContainsBlob, JobStores, AtStep, Meets, FileForm
<1>7. PruneHolds'
  BY <1>2 DEF PruneHolds, FilesShape, FileForm, Handling, Removing, JobStores, AtStep, Meets,
     FileForm
<1> QED BY <1>1, <1>2, <1>3, <1>4, <1>5, <1>6, <1>7 DEF FilesTrue

\* A file is shown or hidden.
LEMMA UpdateLibraryKeeps ==
  ASSUME FilesInv, NEW b \in Blob, NEW choice \in {"hidden", "shown"}, UpdateLibrary(b, choice)
  PROVE  FilesInv'
<1> USE DEF FilesInv
<1>1. FilesShape'
  BY DEF FilesShape, UpdateLibrary, AtStep, BeginFileWork, Meets
<1>2. Images' = Images /\ NeedsNamed'
  BY SameMessages DEF UpdateLibrary
<1>3. ListingTrue'
  BY ListingKept DEF UpdateLibrary, FilesTrue
<1>4. FilesKept'
  BY <1>2 DEF FilesTrue, FilesKept, FilesShape, FileForm, ContainsBlob, UpdateLibrary,
     UploadHolds, InputHolds, AtStep, Meets
<1>5. UploadHolds'
  BY DEF UploadHolds, FilesShape, FileForm, ContainsBlob, UpdateLibrary, AtStep, Meets
<1>6. InputHolds'
  BY DEF InputHolds, IsImage, FilesShape, FileForm, ContainsBlob, UpdateLibrary, AtStep, Meets
<1>7. PruneHolds'
  BY <1>2 DEF PruneHolds, FilesShape, FileForm, Handling, Removing, UpdateLibrary, AtStep, Meets
<1> QED BY <1>1, <1>2, <1>3, <1>4, <1>5, <1>6, <1>7 DEF FilesTrue

\* A file is deleted, if nothing handles or needs it.
LEMMA DeleteFileKeeps ==
  ASSUME FilesInv, NEW b \in Blob, DeleteFile(b)
  PROVE  FilesInv'
<1> USE DEF FilesInv
<1>1. FilesShape'
  BY DEF FilesShape, DeleteFile, AtStep, BeginFileWork, Meets, Handling
<1>2. Images' = Images /\ NeedsNamed'
  BY SameMessages DEF DeleteFile
<1>3. ListingTrue'
  BY ListingKept DEF DeleteFile, FilesTrue
<1>4. FilesKept'
  BY <1>2 DEF FilesTrue, FilesKept, FilesShape, FileForm, ContainsBlob, DeleteFile, UploadHolds,
     InputHolds, AtStep, Meets, Handling
<1>5. UploadHolds'
  BY DEF UploadHolds, FilesShape, FileForm, ContainsBlob, DeleteFile, AtStep, Meets, Handling
<1>6. InputHolds'
  BY DEF InputHolds, IsImage, FilesShape, FileForm, ContainsBlob, DeleteFile, AtStep, Meets,
     Handling
<1>7. PruneHolds'
  BY <1>2 DEF PruneHolds, FilesShape, FileForm, Handling, Removing, DeleteFile, AtStep, Meets,
     Handling
<1> QED BY <1>1, <1>2, <1>3, <1>4, <1>5, <1>6, <1>7 DEF FilesTrue

\* A prune chooses what nothing uses.
LEMMA PruneChosenKeeps ==
  ASSUME FilesInv, PruneChosen
  PROVE  FilesInv'
<1> USE DEF FilesInv
<1>1. FilesShape'
  BY DEF FilesShape, PruneChosen
<1>2. Images' = Images /\ NeedsNamed'
  BY SameMessages DEF PruneChosen
<1>3. ListingTrue'
  BY ListingKept DEF PruneChosen, FilesTrue
<1>4. FilesKept'
  BY <1>2 DEF FilesTrue, FilesKept, ContainsBlob, PruneChosen
<1>5. UploadHolds' /\ InputHolds'
  BY DEF UploadHolds, InputHolds, IsImage, ContainsBlob, PruneChosen
<1>6. PruneHolds'
  <2>1. /\ prune.pc = "released" /\ prune' = [pc |-> "chosen", names |-> prune.names \ Retained]
        /\ UNCHANGED <<form, library, job, upload, input, crossed>>
    BY DEF PruneChosen
  <2>2. prune'.pc = "chosen" /\ prune'.names = prune.names \ Retained
    BY <2>1
  <2>3. job # "working"
    BY <2>1 DEF PruneHolds
  <2>4. ASSUME NEW b \in (prune'.names \cap Blob) \ crossed
        PROVE  /\ ~ Handling(b)' /\ b \notin Images'
               /\ library[b] # "shown"
               /\ job = "done" /\ b = form.artifact => Job \in prune'.names
    <3>1. ~ Handling(b) /\ b \notin Images
      BY <2>1, <2>2 DEF PruneHolds
    <3>2. b \notin Retained
      BY <2>2
    <3>3. library[b] # "shown" /\ (job = "done" /\ b = form.artifact => Job \in prune.names)
      BY <3>2 DEF Retained
    <3>4. Job \notin Retained
      BY FilesAssumption DEF Retained, FilesShape, FileForm
    <3>5. ~ Handling(b)'
      BY <2>1, <3>1 DEF Handling
    <3> QED BY <1>2, <2>2, <3>1, <3>3, <3>4, <3>5
  <2> QED BY <2>1, <2>2, <2>3, <2>4 DEF PruneHolds
<1> QED BY <1>1, <1>2, <1>3, <1>4, <1>5, <1>6 DEF FilesTrue

\* A prune removes what it has chosen.
LEMMA PruneRemovesKeeps ==
  ASSUME FilesInv, PruneRemoves
  PROVE  FilesInv'
<1> USE DEF FilesInv
<1> DEFINE gone == prune.names \cap bytes
<1>0. /\ prune.pc = "chosen" /\ bytes' = bytes \ gone /\ described' = described \ gone
      /\ job' = IF Job \in prune.names THEN "none" ELSE job
      /\ prune' = [pc |-> "idle", names |-> {}]
      /\ UNCHANGED <<form, library, messages, upload, input, crossed>>
  BY DEF PruneRemoves
<1>1. FilesShape'
  BY <1>0 DEF FilesShape
<1>2. Images' = Images /\ NeedsNamed'
  BY <1>0, SameMessages
<1>3. ListingTrue'
  BY ListingKept DEF PruneRemoves, FilesTrue
<1>4. ASSUME NEW b \in gone \ crossed
      PROVE  /\ ~ Handling(b) /\ b \notin Images /\ library[b] # "shown"
             /\ b = form.artifact => job' = "none"
  BY <1>0 DEF PruneHolds, FilesShape
<1> HIDE DEF gone
<1>5. \A b \in Blob \ gone : ContainsBlob(b) => ContainsBlob(b)'
  BY <1>0 DEF ContainsBlob
<1>6. FilesKept'
  BY <1>0, <1>2, <1>4, <1>5 DEF FilesTrue, FilesKept, FilesShape, FileForm
<1>7. UploadHolds'
  BY <1>0, <1>4, <1>5 DEF UploadHolds, FilesShape, Handling
<1>8. InputHolds'
  <2>1. input.blob \in Blob /\ form.sent[input.blob] \in Blob
    BY DEF FilesShape, FileForm
  <2> QED BY <1>0, <1>4, <1>5, <2>1 DEF InputHolds, IsImage, Handling
<1>9. PruneHolds'
  BY <1>0 DEF PruneHolds
<1> QED BY <1>1, <1>2, <1>3, <1>6, <1>7, <1>8, <1>9 DEF FilesTrue

\* A reading of the directory changes nothing it reads.
LEMMA ListKeeps ==
  ASSUME FilesInv, ListBegins \/ ListEnds
  PROVE  FilesInv'
<1> USE DEF FilesInv
<1>1. UNCHANGED <<form, bytes, described, library, messages, job, upload, input, prune, crossed>>
  BY DEF ListBegins, ListEnds
<1>2. FilesShape' /\ NeedsNamed' /\ Images' = Images
  BY <1>1, SameMessages DEF FilesShape
<1>3. ListingTrue'
  BY <1>1 DEF FilesTrue, ListingTrue, Scanned, ContainsBlob, ListBegins, ListEnds
<1>4. FilesKept' /\ UploadHolds' /\ InputHolds' /\ PruneHolds'
  BY <1>1, <1>2 DEF FilesTrue, FilesKept, UploadHolds, InputHolds, PruneHolds, ContainsBlob,
     IsImage,
                    Handling
<1> QED BY <1>2, <1>3, <1>4 DEF FilesTrue

\* What a message needs, once there is one more.
LEMMA OneMoreMessage ==
  ASSUME FilesInv, NEW m \in Message, m.needs \subseteq m.names, messages' = Append(messages, m)
  PROVE  messages' \in Seq(Message) /\ NeedsNamed' /\ Images' \subseteq Images \cup m.needs
<1> USE DEF FilesInv
<1>1. messages \in Seq(Message)
  BY DEF FilesShape
<1>2. messages' \in Seq(Message) /\ DOMAIN messages' = DOMAIN messages \cup {Len(messages) + 1}
  BY <1>1
<1>3. /\ messages'[Len(messages) + 1] = m
      /\ \A i \in DOMAIN messages : messages'[i] = messages[i]
  BY <1>1
<1>4. NeedsNamed'
  BY <1>2, <1>3 DEF NeedsNamed
<1>5. ASSUME NEW b \in Images' PROVE b \in Images \cup m.needs
  BY <1>2, <1>3, <1>5 DEF Images, InUse
<1> QED BY <1>2, <1>4, <1>5

\* The input becomes a message, which needs what is sent of the file.
LEMMA InputQueuedKeeps ==
  ASSUME FilesInv, InputQueued
  PROVE  FilesInv'
<1> USE DEF FilesInv
<1> DEFINE image == IF IsImage(input.blob) THEN {form.sent[input.blob]} ELSE {}
           m == [names |-> {input.blob} \cup image, needs |-> image, place |-> "queued"]
<1>0. /\ input.pc = "recorded" /\ messages' = Append(messages, m) /\ input' = AtRest
      /\ UNCHANGED <<form, bytes, described, library, job, upload, prune, rows, crossed>>
  BY DEF InputQueued
<1>1. image \subseteq Blob /\ input.blob \in Blob
  BY DEF FilesShape, FileForm
<1>2. image \subseteq bytes \cup crossed
  BY <1>0 DEF InputHolds
<1>3. \A b \in image : Handling(b)
  BY <1>0 DEF Handling
<1> HIDE DEF image
<1>4. m \in Message /\ m.needs = image /\ m.needs \subseteq m.names
  BY <1>1 DEF Message
<1> HIDE DEF m
<1>5. messages' \in Seq(Message) /\ NeedsNamed' /\ Images' \subseteq Images \cup image
  BY <1>0, <1>4, OneMoreMessage
<1>6. FilesShape'
  BY <1>0, <1>5, Resting DEF FilesShape
<1>7. ListingTrue'
  BY <1>0, ListingKept DEF FilesTrue
<1>8. FilesKept'
  BY <1>0, <1>2, <1>5 DEF FilesTrue, FilesKept, ContainsBlob
<1>9. UploadHolds' /\ InputHolds'
  BY <1>0, Resting DEF UploadHolds, InputHolds, ContainsBlob
<1>10. \A b \in Blob : Handling(b)' => Handling(b)
  BY <1>0, Resting DEF Handling
<1>11. PruneHolds'
  BY <1>0, <1>3, <1>5, <1>10 DEF PruneHolds
<1> QED BY <1>5, <1>6, <1>7, <1>8, <1>9, <1>11 DEF FilesTrue

\* The job's result becomes a message.
LEMMA JobEndsKeeps ==
  ASSUME FilesInv, JobEnds
  PROVE  FilesInv'
<1> USE DEF FilesInv
<1> DEFINE m == [names |-> {form.artifact, Job}, needs |-> {}, place |-> "context"]
<1>0. /\ job = "working" /\ job' = "done" /\ messages' = Append(messages, m)
      /\ UNCHANGED <<form, bytes, described, library, upload, input, prune, rows, crossed>>
  BY DEF JobEnds
<1>1. m \in Message /\ m.needs = {} /\ m.needs \subseteq m.names
  BY DEF Message, FilesShape, FileForm
<1> HIDE DEF m
<1>2. messages' \in Seq(Message) /\ NeedsNamed' /\ Images' \subseteq Images
  BY <1>0, <1>1, OneMoreMessage
<1>3. FilesShape'
  BY <1>0, <1>2 DEF FilesShape
<1>4. FilesTrue'
  BY <1>0, <1>2, ListingKept DEF FilesTrue, FilesKept, ContainsBlob
<1>5. UploadHolds' /\ InputHolds' /\ PruneHolds'
  BY <1>0 DEF UploadHolds, InputHolds, PruneHolds, ContainsBlob, IsImage
<1> QED BY <1>2, <1>3, <1>4, <1>5

\* A message that is moved, to a place where nothing more is needed than before, is as it was.
LEMMA MovesKeeps ==
  ASSUME FilesInv, NEW from \in {"queued", "context"}, NEW to \in {"context", "past"},
         Moves(from, to)
  PROVE  FilesInv'
<1> USE DEF FilesInv
<1>0. PICK i \in DOMAIN messages :
        messages[i].place = from /\ messages' = [messages EXCEPT ![i].place = to]
  BY DEF Moves
<1>1. /\ prune.pc = "idle"
      /\ UNCHANGED <<form, bytes, described, library, job, upload, input, prune, rows, crossed>>
  BY DEF Moves
<1>2. messages \in Seq(Message) /\ messages[i] \in Message
  BY DEF FilesShape
<1>3. messages' \in Seq(Message) /\ DOMAIN messages' = DOMAIN messages
  <2>1. [messages[i] EXCEPT !.place = to] \in Message
    BY <1>2 DEF Message
  <2> QED BY <1>0, <1>2, <2>1
<1>4. \A k \in DOMAIN messages :
        /\ messages'[k].needs = messages[k].needs /\ messages'[k].names = messages[k].names
        /\ messages'[k].place # messages[k].place => k = i
  BY <1>0, <1>2 DEF Message
<1>5. NeedsNamed'
  BY <1>3, <1>4 DEF NeedsNamed
<1>6. Images' \subseteq Images
  BY <1>0, <1>3, <1>4 DEF Images, InUse
<1>7. FilesShape'
  BY <1>1, <1>3 DEF FilesShape
<1>8. FilesTrue'
  BY <1>1, <1>6, ListingKept DEF FilesTrue, FilesKept, ContainsBlob
<1>9. UploadHolds' /\ InputHolds' /\ PruneHolds'
  BY <1>1 DEF UploadHolds, InputHolds, PruneHolds, ContainsBlob, IsImage
<1> QED BY <1>5, <1>7, <1>8, <1>9

\* A prune takes the names of what it releases and nothing kept has: whatever is needed is kept,
\* and what an operation under way is about has crossed.
LEMMA PruneHistoryKeeps ==
  ASSUME FilesInv, PruneHistory
  PROVE  FilesInv'
<1> USE DEF FilesInv
<1>0. PICK before \in 1 .. Len(messages) :
       LET gone == {i \in 1 .. before : messages[i].place = "past"}
       IN  /\ gone # {}
           /\ prune' = [pc |-> "released", names |-> ReleasedNames(gone)]
           /\ messages' = [i \in DOMAIN messages |->
                             IF i \in gone THEN [messages[i] EXCEPT !.place = "released"]
                             ELSE messages[i]]
           /\ Crosses(ReleasedNames(gone) \cap Blob)
  BY DEF PruneHistory
<1> DEFINE gone == {i \in 1 .. before : messages[i].place = "past"}
<1>1. /\ prune' = [pc |-> "released", names |-> ReleasedNames(gone)]
      /\ messages' = [i \in DOMAIN messages |->
                        IF i \in gone THEN [messages[i] EXCEPT !.place = "released"]
                        ELSE messages[i]]
      /\ Crosses(ReleasedNames(gone) \cap Blob)
      /\ UNCHANGED <<form, bytes, described, library, job, upload, input, rows>>
      /\ job # "working"
  BY <1>0 DEF PruneHistory, Prunable
<1>2. messages \in Seq(Message)
  BY DEF FilesShape
<1>3. gone \subseteq DOMAIN messages /\ \A i \in gone : messages[i].place = "past"
  BY <1>2
<1> HIDE DEF gone
<1>4. ASSUME NEW i \in DOMAIN messages
      PROVE  /\ messages'[i] \in Message
             /\ messages'[i].needs = messages[i].needs /\ messages'[i].names = messages[i].names
             /\ messages'[i].place \in {"queued", "context"} =>
                  i \notin gone /\ messages[i].place = messages'[i].place
  <2>1. messages[i] \in Message
    BY <1>2
  <2>2. messages'[i] = IF i \in gone THEN [messages[i] EXCEPT !.place = "released"] ELSE messages[i]
    BY <1>1
  <2>3. CASE i \in gone
    <3>1. messages'[i] = [messages[i] EXCEPT !.place = "released"]
      BY <2>2, <2>3
    <3> QED BY <2>1, <3>1 DEF Message
  <2>4. CASE i \notin gone
    BY <2>1, <2>2, <2>4
  <2> QED BY <2>3, <2>4
<1>5. DOMAIN messages' = DOMAIN messages /\ messages' \in Seq(Message)
  <2>1. messages' \in [1 .. Len(messages) -> Message]
    BY <1>1, <1>2, <1>4
  <2> QED BY <2>1, <1>2, SeqDef
<1>6. NeedsNamed'
  BY <1>4, <1>5 DEF NeedsNamed
<1>7. Images' \subseteq Images
  BY <1>4, <1>5 DEF Images, InUse
<1>8. Images' \cap ReleasedNames(gone) = {}
  BY <1>4, <1>5 DEF Images, InUse, ReleasedNames, NamesOf, NeedsNamed
<1>9. ReleasedNames(gone) \subseteq Blob \cup {Job}
  <2>1. ASSUME NEW i \in DOMAIN messages PROVE messages[i].names \subseteq Blob \cup {Job}
    <3>1. messages[i] \in Message
      BY <1>2
    <3> QED BY <3>1 DEF Message
  <2> QED BY <1>3, <2>1 DEF ReleasedNames, NamesOf
<1>10. /\ crossed \subseteq crossed' /\ crossed' \subseteq Blob
       /\ \A b \in (ReleasedNames(gone) \cap Blob) \ crossed' : ~ Handling(b)
  BY <1>1 DEF Crosses, FilesShape
<1>11. prune'.pc = "released" /\ prune'.names = ReleasedNames(gone)
  BY <1>1
<1>12. FilesShape'
  BY <1>1, <1>5, <1>9, <1>10 DEF FilesShape
<1>13. FilesTrue'
  BY <1>1, <1>7, <1>10, ListingKept DEF FilesTrue, FilesKept, ContainsBlob
<1>14. UploadHolds' /\ InputHolds'
  BY <1>1, <1>10 DEF UploadHolds, InputHolds, ContainsBlob, IsImage
<1>15. \A b \in Blob : Handling(b)' => Handling(b)
  BY <1>1 DEF Handling
<1>16. PruneHolds'
  BY <1>1, <1>8, <1>10, <1>11, <1>15 DEF PruneHolds
<1> QED BY <1>6, <1>12, <1>13, <1>14, <1>16

\* Every step keeps the invariant.
LEMMA FilesStep ==
  ASSUME FilesInv, [FilesNext]_files_vars
  PROVE  FilesInv'
<1>1. CASE FilesNext
  BY <1>1, UploadStoredKeeps, UploadDescribedKeeps, UploadRecordedKeeps, UploadDroppedKeeps,
     InputReadKeeps, InputStoredKeeps, InputRecordedKeeps, InputQueuedKeeps, InputDroppedKeeps,
     MovesKeeps, JobStoresKeeps, JobEndsKeeps, UpdateLibraryKeeps, DeleteFileKeeps,
     PruneHistoryKeeps, PruneChosenKeeps, PruneRemovesKeeps, ListKeeps DEF FilesNext
<1>2. CASE UNCHANGED files_vars
  <2>1. UNCHANGED <<form, bytes, described, library, messages, job, upload, input, prune, rows,
                    crossed>>
    BY <1>2 DEF files_vars
  <2>2. NeedsNamed' /\ Images' = Images /\ ListingTrue'
    BY <2>1, SameMessages, ListingKept DEF FilesInv, FilesTrue
  <2> QED BY <2>1, <2>2 DEF FilesInv, FilesShape, FilesTrue, FilesKept, UploadHolds, InputHolds,
                            PruneHolds, ContainsBlob, IsImage, Handling
<1> QED BY <1>1, <1>2

\* Whatever uploads, inputs, deletions and prunes a session has, in whatever order their steps
\* come, what it goes by is stored, and a listing tells what is there.
THEOREM FilesAreTrue == FilesSpec => []FilesTrue
<1>1. FilesInit => FilesInv
  BY FilesStart
<1>2. FilesInv /\ [FilesNext]_files_vars => FilesInv'
  BY FilesStep
<1>3. FilesInv => FilesTrue
  BY DEF FilesInv
<1> QED BY <1>1, <1>2, <1>3, PTL DEF FilesSpec

-----------------------------------------------------------------------------
(* Slots. *)

\* One session's slot by itself.
SlotSpec == SlotInit /\ [][SlotNext]_slot_vars

\* The steps at which a request has a reference to the slot.
ArcStep ==
  {"open", "index", "insert", "update_lock", "session_lock", "check", "edit", "persist", "save",
   "quiesce", "erase", "mark", "unlist", "uncache", "files", "place"}

\* The steps of a request that has made the session.
CreatingStep ==
  {"open", "index", "insert", "place", "rollback", "erase", "mark", "unlist", "files", "done"}

\* A request is at a step of its kind, and has a reference to the slot where the code has one.
StepTrue(r) ==
  /\ req[r].kind = "none" <=> req[r].pc = "none"
  /\ req[r].pc \in {"update_lock", "edit"} => req[r].kind \in {"rename", "update"}
  /\ req[r].pc = "session_lock" => req[r].kind \in {"update", "publish", "delete"}
  /\ req[r].pc = "check" => req[r].kind = "update"
  /\ req[r].pc \in {"persist", "save"} => req[r].kind \in {"publish", "touch"}
  /\ req[r].pc \in {"quiesce", "uncache"} => req[r].kind = "delete"
  /\ req[r].pc \in {"erase", "mark", "unlist", "files"} => req[r].kind \in {"delete", "create"}
  /\ req[r].pc \in {"creation_lock", "prepare", "store", "place", "rollback"} =>
       req[r].kind = "create"
  /\ req[r].arc <=> req[r].pc \in ArcStep
  /\ req[r].creating => req[r].kind = "create" /\ req[r].pc \in CreatingStep
  /\ /\ req[r].kind = "create"
     /\ req[r].pc \in {"erase", "mark", "unlist", "files", "place", "rollback"}
     => req[r].creating
  /\ req[r].outcome # "none" => req[r].pc = "done"
  /\ req[r].pc = "none" => ~ req[r].dropped

\* Nobody but r knows the slot yet.
Alone(r) == req[r].arc /\ (req[r].creating \/ req[r].pc \in {"open", "index", "insert", "place"})

\* A slot in use can be found, unless it is deleted or nobody was told of it yet.
OwnersTrue ==
  /\ slot.state = "none" => slot = NoSlot
  /\ cached \/ worker \/ retired => slot.state = "held"
  /\ slot.state = "held" => cached \/ retired \/ slot.deleted \/ \E r \in Request : Alone(r)
  /\ \A r \in Request : req[r].arc =>
       slot.state = "held" /\ (cached \/ slot.deleted \/ Alone(r))
  /\ \A r \in Request : Alone(r) =>
       ~ cached /\ ~ worker /\ ~ retired /\ \A q \in Request : q # r => ~ req[q].arc

\* The locks a request holds while its future is polled.
LocksTrue(r) ==
  ~ req[r].dropped =>
    /\ \/ req[r].pc \in {"again", "revive", "read", "load"}
       \/ req[r].pc \in {"open", "index", "insert"} /\ ~ req[r].creating
       => lock["opening"] = r
    /\ req[r].pc \in {"check", "edit"} \/ (req[r].pc = "session_lock" /\ req[r].kind = "update")
       => lock["update"] = r
    /\ req[r].kind = "create" /\ req[r].pc \notin {"none", "creation_lock", "done"}
       => lock["creation"] = r

\* What r knows of the storage and of the row.
StoredOf(r) ==
  /\ \/ req[r].pc \in {"open", "index", "insert", "place"}
     \/ req[r].pc = "erase" /\ req[r].creating
     => stored /\ ~ slot.deleted
  /\ req[r].pc \in {"mark", "unlist", "uncache", "files"} => ~ stored
  /\ req[r].pc \in {"unlist", "uncache", "files"} => slot.deleted
  /\ req[r].pc \in {"uncache", "files"} => ~ index.there
  /\ req[r].creating /\ req[r].pc \in {"place", "insert", "erase"} => index.there

\* A deleted slot has no storage, and any other has it, or is about to be marked.
StoredTrue ==
  /\ slot.deleted => ~ stored
  /\ slot.state = "held" /\ ~ slot.deleted => stored \/ \E r \in Request : req[r].pc = "mark"
  /\ \A r \in Request : StoredOf(r)

\* An edit was made after its request was dropped.
DroppedEdit == \E q \in Request : req[q].outcome = "edited" /\ req[q].dropped

\* What r knows of revisions: what it read is not outdated when it is used.
RevisionsOf(r) ==
  /\ req[r].pc = "load" /\ ~ req[r].dropped /\ index.there => index.rev <= req[r].seen \/ cached
  /\ req[r].pc \in {"open", "index"} /\ req[r].creating => slot.rev = 0
  /\ req[r].pc = "index" => ~ req[r].dropped
  /\ req[r].pc = "save" => ~ slot.deleted /\ req[r].seen = slot.rev
  /\ req[r].pc \notin {"edit", "done"} => req[r].match = req[r].base
  /\ req[r].pc = "edit" /\ ~ req[r].dropped =>
       req[r].match = req[r].base \/ req[r].base \subseteq {slot.rev} \/ DroppedEdit

\* The row is never ahead of the slot, but for a slot that is about to write it or to go.
RevisionsTrue ==
  /\ index.there /\ slot.state = "held" /\ ~ slot.deleted =>
       \/ index.rev <= slot.rev
       \/ \E r \in Request : req[r].pc \in {"open", "index"} /\ (req[r].creating \/ req[r].dropped)
  /\ \A r \in Request : RevisionsOf(r)

\* What r relies on after it looked and did not find the slot.
FoundOf(r) ==
  /\ req[r].pc \in {"prepare", "store"} => ~ stored /\ (slot.state = "held" => slot.deleted)
  /\ req[r].pc \in {"revive", "read", "load"} /\ ~ req[r].dropped => ~ cached
  /\ req[r].pc \in {"read", "load"} /\ ~ req[r].dropped => ~ retired

\* As long as nobody has made the session, what is not listed is not there.
FoundTrue ==
  (\A r \in Request : ~ req[r].creating) =>
    /\ stored => index.there
    /\ slot.state = "held" /\ ~ index.there => slot.deleted
    /\ \A r \in Request : FoundOf(r)

\* The requests that are between two of the writes that remove or make the session.
TakingAway(r) == req[r].pc \in {"mark", "unlist", "uncache", "files"}

\* The request that makes the session has stored it.
Placing(r) == req[r].creating /\ req[r].pc # "done"

\* The request makes the session, and nobody else can.
Making(r) == req[r].pc = "store" \/ Placing(r)

\* What the request that makes the session has done so far.
ListOf(r) ==
  /\ req[r].kind \in {"create", "delete"} => ~ req[r].dropped
  /\ Making(r) /\ req[r].pc \in {"store", "open", "index", "place", "insert", "erase"} =>
       blobs \/ \E q \in Request : req[q].outcome = "deleted"
  /\ req[r].pc \in {"prepare", "store"} => ~ stored

\* Unless somebody is between two writes, row, storage and files agree.
ListTrue ==
  disturbed \/
    /\ index.there = stored \/ \E r \in Request : TakingAway(r) \/ Placing(r)
    /\ \/ blobs = stored
       \/ \E r \in Request : TakingAway(r) \/ Making(r)
       \/ \E q, r \in Request : req[q].outcome = "deleted" /\ req[r].outcome = "created"
    /\ \A r \in Request : ListOf(r)

\* The inductive invariant of a slot.
SlotInv ==
  /\ SlotTypeOK
  /\ \A r \in Request : StepTrue(r)
  /\ OwnersTrue
  /\ \A r \in Request : LocksTrue(r)
  /\ StoredTrue /\ RevisionsTrue /\ FoundTrue /\ ListTrue

\* A slot at its start.
LEMMA SlotStart == SlotInit => SlotInv
<1> SUFFICES ASSUME SlotInit PROVE SlotInv
  OBVIOUS
<1>1. SlotTypeOK
  <2>1. req \in [Request -> Requests]
    BY DEF SlotInit, Requests, Step, IfMatch, Outcome
  <2>2. /\ lock \in [Lock -> Request \cup {"free"}]
        /\ slot \in [state : {"none", "held", "dropping"}, deleted : BOOLEAN, rev : Nat]
        /\ index \in [there : BOOLEAN, rev : Nat]
    BY DEF SlotInit, NoSlot
  <2>3. failures \in 0 .. MaxFaults
    BY SlotAssumption DEF SlotInit
  <2>4. /\ stored \in BOOLEAN /\ blobs \in BOOLEAN /\ cached \in BOOLEAN /\ retired \in BOOLEAN
        /\ worker \in BOOLEAN /\ disturbed \in BOOLEAN
    BY DEF SlotInit
  <2> QED
    BY <2>1, <2>2, <2>3, <2>4 DEF SlotTypeOK
<1>2. \A r \in Request :
        /\ req[r].kind = "none" /\ req[r].pc = "none" /\ ~ req[r].arc /\ ~ req[r].creating
        /\ ~ req[r].dropped /\ req[r].match = req[r].base /\ req[r].outcome = "none"
  BY DEF SlotInit
<1>3. /\ slot = NoSlot /\ ~ cached /\ ~ retired /\ ~ worker /\ index.there = stored /\ blobs = stored
      /\ slot.state = "none" /\ ~ slot.deleted
  BY DEF SlotInit, NoSlot
<1>4. (\A r \in Request : StepTrue(r)) /\ OwnersTrue /\ \A r \in Request : LocksTrue(r)
  BY <1>2, <1>3 DEF StepTrue, OwnersTrue, LocksTrue, Alone, ArcStep
<1>5. StoredTrue /\ RevisionsTrue /\ FoundTrue /\ ListTrue
  BY <1>2, <1>3 DEF StoredTrue, StoredOf, RevisionsTrue, RevisionsOf, FoundTrue, FoundOf, ListTrue,
     ListOf, Making, Placing, TakingAway
<1> QED
  BY <1>1, <1>4, <1>5 DEF SlotInv

\* r goes on, and nothing else happens to it but what it has read.
Walks(r, pc) ==
  /\ \A q \in Request : q # r => req'[q] = req[q]
  /\ req'[r].pc = pc /\ req'[r].arc = req[r].arc /\ req'[r].creating = req[r].creating
  /\ req'[r].dropped = req[r].dropped /\ req'[r].outcome = req[r].outcome

\* The locks of others stay theirs.
OthersLocks(r) == \A l \in Lock, q \in Request : q # r /\ lock[l] = q => lock'[l] = q

\* r plays the same part for the others as before.
SamePart(r) ==
  /\ Alone(r) <=> Alone(r)'
  /\ req[r].pc # "mark"
  /\ req[r].pc \in {"open", "index"} => req'[r].pc \in {"open", "index"}
  /\ Making(r) \/ TakingAway(r) => (Making(r) \/ TakingAway(r))'
  /\ Placing(r) \/ TakingAway(r) => (Placing(r) \/ TakingAway(r))'

\* A request that only goes on disturbs nobody else: what matters is what it relies on itself.
LEMMA WalkKeeps ==
  ASSUME SlotInv, NEW r \in Request, NEW pc, Walks(r, pc), SlotTypeOK', OthersLocks(r), SamePart(r),
         UNCHANGED <<Files, Held, Rest>>,
         StepTrue(r)', LocksTrue(r)', StoredOf(r)', RevisionsOf(r)',
         (\A q \in Request : ~ req[q].creating) => FoundOf(r)', disturbed \/ ListOf(r)'
  PROVE  SlotInv'
<1> USE DEF Files, Held, Rest
<1>1. \A q \in Request : q # r => req'[q] = req[q]
  BY DEF Walks
<1>2. req'[r].pc = pc /\ req'[r].arc = req[r].arc /\ req'[r].creating = req[r].creating
      /\ req'[r].dropped = req[r].dropped /\ req'[r].outcome = req[r].outcome
  BY DEF Walks
<1>3. (\A q \in Request : StepTrue(q))'
  BY <1>1 DEF SlotInv, StepTrue
<1>4. OwnersTrue'
  BY <1>1, <1>2 DEF SlotInv, OwnersTrue, Alone, SamePart
<1>5. (\A q \in Request : LocksTrue(q))'
  BY <1>1 DEF SlotInv, LocksTrue, OthersLocks, Lock
<1>6. StoredTrue'
  BY <1>1, <1>2 DEF SlotInv, StoredTrue, StoredOf, SamePart
<1>7. DroppedEdit' <=> DroppedEdit
  BY <1>1, <1>2 DEF DroppedEdit
<1>8. RevisionsTrue'
  BY <1>1, <1>2, <1>7 DEF SlotInv, RevisionsTrue, RevisionsOf, SamePart
<1>9. FoundTrue'
  BY <1>1, <1>2 DEF SlotInv, FoundTrue, FoundOf
<1>10. ListTrue'
  BY <1>1, <1>2 DEF SlotInv, ListTrue, ListOf, SamePart, Making, Placing, TakingAway
<1> QED
  BY <1>3, <1>4, <1>5, <1>6, <1>8, <1>9, <1>10 DEF SlotInv

\* What a request's going on to another step changes.
LEMMA GoesFacts ==
  ASSUME SlotTypeOK, NEW r \in Request, NEW pc \in Step, Goes(r, pc)
  PROVE  /\ req' \in [Request -> Requests] /\ Walks(r, pc)
         /\ req'[r].kind = req[r].kind /\ req'[r].match = req[r].match
         /\ req'[r].base = req[r].base /\ req'[r].seen = req[r].seen
<1>1. req \in [Request -> Requests] /\ req[r] \in Requests
  BY DEF SlotTypeOK
<1>2. /\ req' = [req EXCEPT ![r] = [req[r] EXCEPT !.pc = pc]]
      /\ [req[r] EXCEPT !.pc = pc] \in Requests
  BY <1>1 DEF Goes, Requests
<1> QED
  BY <1>1, <1>2 DEF Walks, Requests

\* What taking a lock changes.
LEMMA AcquireFacts ==
  ASSUME SlotTypeOK, NEW r \in Request, NEW pc \in Step, NEW name \in Lock, Acquire(r, name, pc)
  PROVE  /\ lock' \in [Lock -> Request \cup {"free"}] /\ OthersLocks(r)
         /\ lock'[name] = r
         /\ \A l \in Lock : lock[l] = r => lock'[l] = r
         /\ Goes(r, pc)
  BY SlotAssumption DEF SlotTypeOK, Acquire, OthersLocks

\* What giving back locks changes.
LEMMA UnlockFacts ==
  ASSUME SlotTypeOK, NEW r \in Request, NEW names, lock' = Unlocked(r, names)
  PROVE  /\ lock' \in [Lock -> Request \cup {"free"}] /\ OthersLocks(r)
         /\ \A l \in Lock : l \notin names => lock'[l] = lock[l]
  BY DEF SlotTypeOK, Unlocked, OthersLocks

\* r is answered; its references and guards are gone.
Quits(r, outcome) ==
  /\ \A q \in Request : q # r => req'[q] = req[q]
  /\ req'[r].pc = "done" /\ ~ req'[r].arc /\ req'[r].creating = req[r].creating
  /\ req'[r].kind = req[r].kind /\ req'[r].dropped = req[r].dropped
  /\ req'[r].match = req[r].match /\ req'[r].base = req[r].base
  /\ req'[r].outcome = outcome

\* The slot goes with the last reference.
LetsGo(r) ==
  /\ slot'.deleted = slot.deleted /\ slot'.rev = slot.rev
  /\ \/ slot' = slot /\ retired' = retired
     \/ /\ slot.state = "held" /\ ~ Shared(r) /\ req[r].arc
        /\ slot'.state = "dropping" /\ retired' = FALSE
  /\ req[r].arc /\ ~ Shared(r) => slot'.state # "held"

\* What the record of an answered request is.
LEMMA EndedFacts ==
  ASSUME SlotTypeOK, NEW r \in Request, NEW outcome \in Outcome,
         req' = [req EXCEPT ![r] = Ended(r, outcome)]
  PROVE  req' \in [Request -> Requests] /\ Quits(r, outcome)
<1>1. req \in [Request -> Requests] /\ req[r] \in Requests
  BY DEF SlotTypeOK
<1>2. Ended(r, outcome) \in Requests
  BY <1>1 DEF Ended, Requests, Step
<1> QED
  BY <1>1, <1>2 DEF Quits, Requests, Ended

\* What answering a request changes.
LEMMA EndFacts ==
  ASSUME SlotTypeOK, NEW r \in Request, NEW outcome \in Outcome, End(r, outcome)
  PROVE  /\ req' \in [Request -> Requests] /\ Quits(r, outcome)
         /\ lock' \in [Lock -> Request \cup {"free"}] /\ OthersLocks(r)
         /\ slot' \in [state : {"none", "held", "dropping"}, deleted : BOOLEAN, rev : Nat]
         /\ retired' \in BOOLEAN
         /\ LetsGo(r)
<1>1. req' \in [Request -> Requests] /\ Quits(r, outcome)
  BY EndedFacts DEF End
<1>2. lock' \in [Lock -> Request \cup {"free"}] /\ OthersLocks(r)
  BY UnlockFacts DEF End
<1>3. slot \in [state : {"none", "held", "dropping"}, deleted : BOOLEAN, rev : Nat]
      /\ retired \in BOOLEAN
  BY DEF SlotTypeOK
<1>4. /\ slot' \in [state : {"none", "held", "dropping"}, deleted : BOOLEAN, rev : Nat]
      /\ retired' \in BOOLEAN
      /\ LetsGo(r)
  BY <1>3 DEF End, LetGo, LetsGo
<1> QED
  BY <1>1, <1>2, <1>4

\* An answered request leaves what the others rely on, the files aside.
LEMMA SlotEndKeeps ==
  ASSUME SlotInv, NEW r \in Request, NEW outcome \in Outcome, End(r, outcome),
         req[r].pc \notin {"done", "none", "mark"},
         outcome # "none",
         UNCHANGED <<stored, index, cached, worker>>,
         blobs' \in BOOLEAN, disturbed' \in BOOLEAN, failures' \in 0 .. MaxFaults
  PROVE  /\ SlotTypeOK' /\ (\A q \in Request : StepTrue(q))' /\ OwnersTrue'
         /\ (\A q \in Request : LocksTrue(q))' /\ StoredTrue' /\ RevisionsTrue' /\ FoundTrue'
<1>1. /\ req' \in [Request -> Requests] /\ Quits(r, outcome)
      /\ lock' \in [Lock -> Request \cup {"free"}] /\ OthersLocks(r)
      /\ slot' \in [state : {"none", "held", "dropping"}, deleted : BOOLEAN, rev : Nat]
      /\ retired' \in BOOLEAN
      /\ LetsGo(r)
  BY EndFacts DEF SlotInv
<1>2. SlotTypeOK'
  BY <1>1 DEF SlotInv, SlotTypeOK
<1>3. /\ \A q \in Request : q # r => req'[q] = req[q]
      /\ req'[r].pc = "done" /\ ~ req'[r].arc /\ req'[r].creating = req[r].creating
      /\ req'[r].kind = req[r].kind /\ req'[r].dropped = req[r].dropped
      /\ req'[r].match = req[r].match /\ req'[r].base = req[r].base
      /\ req'[r].outcome = outcome
  BY <1>1 DEF Quits
<1>4. StepTrue(r) /\ ~ Alone(r)' /\ req[r].outcome = "none"
  BY <1>3 DEF SlotInv, Alone, StepTrue
<1>5. (\A q \in Request : StepTrue(q))'
  BY <1>3, <1>4 DEF SlotInv, StepTrue, ArcStep, CreatingStep
<1>6. Alone(r) => slot'.state # "held"
  BY <1>1 DEF SlotInv, OwnersTrue, LetsGo, Shared, Alone
<1>7. OwnersTrue'
  <2>1. (slot.state = "none" => slot = NoSlot)'
    BY <1>1 DEF SlotInv, OwnersTrue, LetsGo
  <2>2. (cached \/ worker \/ retired => slot.state = "held")'
    BY <1>1 DEF SlotInv, OwnersTrue, LetsGo, Shared
  <2>3. (slot.state = "held" =>
           cached \/ retired \/ slot.deleted \/ \E q \in Request : Alone(q))'
    BY <1>1, <1>3, <1>6 DEF SlotInv, OwnersTrue, LetsGo, Alone
  <2>4. \A q \in Request : req'[q].arc =>
           slot'.state = "held" /\ (cached' \/ slot'.deleted \/ Alone(q)')
    BY <1>1, <1>3 DEF SlotInv, OwnersTrue, LetsGo, Shared, Alone
  <2>5. \A q \in Request : Alone(q)' =>
           ~ cached' /\ ~ worker' /\ ~ retired' /\ \A p \in Request : p # q => ~ req'[p].arc
    BY <1>1, <1>3 DEF SlotInv, OwnersTrue, LetsGo, Alone
  <2> QED
    BY <2>1, <2>2, <2>3, <2>4, <2>5 DEF OwnersTrue
<1>8. (\A q \in Request : LocksTrue(q))'
  BY <1>1, <1>3 DEF SlotInv, LocksTrue, OthersLocks, Lock
<1>9. StoredTrue'
  BY <1>1, <1>3 DEF SlotInv, StoredTrue, StoredOf, LetsGo
<1>10. DroppedEdit => DroppedEdit'
  BY <1>3, <1>4 DEF DroppedEdit
<1>11. RevisionsTrue'
  <2>1. req[r].pc \in {"open", "index"} => Alone(r)
    BY <1>4 DEF StepTrue, Alone, ArcStep
  <2> QED
    BY <1>1, <1>3, <1>6, <1>10, <2>1 DEF SlotInv, RevisionsTrue, RevisionsOf, LetsGo
<1>12. FoundTrue'
  BY <1>1, <1>3 DEF SlotInv, FoundTrue, FoundOf, LetsGo
<1> QED
  BY <1>2, <1>5, <1>7, <1>8, <1>9, <1>11, <1>12

\* The files and the row are as true as before when a request is answered that was not between
\* two writes, or when it is put down that it was.
LEMMA EndKeepsList ==
  ASSUME SlotInv, NEW r \in Request, NEW outcome \in Outcome, End(r, outcome),
         req[r].pc \notin {"done", "none", "mark"},
         outcome # "none",
         UNCHANGED <<stored, index, blobs, cached, worker>>,
         disturbed' \in BOOLEAN, disturbed => disturbed', failures' \in 0 .. MaxFaults,
         disturbed' \/ (~ Making(r) /\ ~ TakingAway(r))
  PROVE  SlotInv'
<1>1. Quits(r, outcome)
  BY EndFacts DEF SlotInv
<1>2. blobs' \in BOOLEAN
  BY DEF SlotInv, SlotTypeOK
<1>3. req[r].outcome = "none"
  BY DEF SlotInv, StepTrue
<1>4. ListTrue'
  BY <1>1, <1>3 DEF SlotInv, Quits, ListTrue, ListOf, Making, Placing, TakingAway
<1> QED
  BY <1>2, <1>4, SlotEndKeeps DEF SlotInv

\* A request begins.
LEMMA BeginKeeps ==
  ASSUME SlotInv, NEW r \in Request, Begin(r)
  PROVE  SlotInv'
<1>1. PICK kind \in Kind, match \in {{}, {index.rev}} :
        req' = [req EXCEPT
            ![r] = [@ EXCEPT !.kind = kind, !.match = match, !.base = match,
                             !.pc = IF kind = "create" THEN "creation_lock" ELSE "look"]]
  BY DEF Begin
<1>2. UNCHANGED <<Files, Held, Rest, lock, failures>> /\ req[r].pc = "none"
  BY DEF Begin, At
<1>3. req \in [Request -> Requests] /\ req[r] \in Requests /\ match \in IfMatch
  BY DEF SlotInv, SlotTypeOK, IfMatch
<1> DEFINE pc == IF kind = "create" THEN "creation_lock" ELSE "look"
           new == [req[r] EXCEPT !.kind = kind, !.match = match, !.base = match, !.pc = pc]
<1>4. new \in Requests
  BY <1>3 DEF Requests, Step, GetStep, Kind
<1>5. req' \in [Request -> Requests] /\ Walks(r, pc)
      /\ req'[r].kind = kind /\ req'[r].match = match /\ req'[r].base = match
  BY <1>1, <1>3, <1>4 DEF Walks, Requests
<1>6. SlotTypeOK'
  BY <1>2, <1>5 DEF SlotInv, SlotTypeOK, Files, Held, Rest
<1>7. OthersLocks(r) /\ StepTrue(r) /\ ~ req[r].dropped
  BY <1>2 DEF OthersLocks, SlotInv, Begin, At, Closure
<1> HIDE DEF new, pc
<1>8. pc \in {"look", "creation_lock"} /\ (pc = "creation_lock" <=> kind = "create") /\ kind # "none"
  BY DEF pc, Kind
<1>9. ~ req[r].arc /\ ~ req[r].creating /\ req[r].outcome = "none"
  BY <1>2, <1>7 DEF StepTrue, ArcStep, CreatingStep
<1>10. StepTrue(r)'
  BY <1>5, <1>8, <1>9 DEF Walks, StepTrue, ArcStep
<1>11. SamePart(r) /\ LocksTrue(r)'
  BY <1>2, <1>5, <1>8, <1>9 DEF Walks, SamePart, LocksTrue, Alone, Making, Placing, TakingAway
<1>12. StoredOf(r)' /\ RevisionsOf(r)' /\ FoundOf(r)' /\ ListOf(r)'
  BY <1>5, <1>7, <1>8, <1>9 DEF Walks, StoredOf, RevisionsOf, FoundOf, ListOf, Making, Placing
<1> QED
  BY <1>2, <1>5, <1>6, <1>7, <1>10, <1>11, <1>12, WalkKeeps

\* A request that steps on from pc to next, with a lock it takes or without, and reads nothing.
Steps(r, pc, next) ==
  /\ req[r].pc = pc
  /\ Goes(r, next)
  /\ UNCHANGED <<Files, Held, Rest>>
  /\ lock' \in [Lock -> Request \cup {"free"}] /\ OthersLocks(r)
  /\ failures' \in 0 .. MaxFaults

\* What holds of such a step whatever it is.
LEMMA StepsFacts ==
  ASSUME SlotInv, NEW r \in Request, NEW pc \in Step, NEW next \in Step, Steps(r, pc, next)
  PROVE  /\ SlotTypeOK' /\ Walks(r, next) /\ OthersLocks(r)
         /\ UNCHANGED <<Files, Held, Rest>>
         /\ req[r].pc = pc /\ req'[r].pc = next
         /\ req'[r].kind = req[r].kind /\ req'[r].match = req[r].match
         /\ req'[r].base = req[r].base /\ req'[r].seen = req[r].seen
         /\ req'[r].arc = req[r].arc /\ req'[r].creating = req[r].creating
         /\ req'[r].dropped = req[r].dropped /\ req'[r].outcome = req[r].outcome
         /\ StepTrue(r) /\ LocksTrue(r) /\ StoredOf(r) /\ RevisionsOf(r)
         /\ (\A q \in Request : ~ req[q].creating) => FoundOf(r)
         /\ disturbed \/ ListOf(r)
<1>1. /\ req' \in [Request -> Requests] /\ Walks(r, next)
      /\ req'[r].kind = req[r].kind /\ req'[r].match = req[r].match
      /\ req'[r].base = req[r].base /\ req'[r].seen = req[r].seen
  BY GoesFacts DEF Steps, SlotInv
<1>2. SlotTypeOK'
  BY <1>1 DEF Steps, SlotInv, SlotTypeOK, Files, Held, Rest
<1> QED
  BY <1>1, <1>2 DEF Steps, Walks, SlotInv, StoredTrue, RevisionsTrue, FoundTrue, ListTrue

\* The cache had no slot.
LEMMA MissKeeps ==
  ASSUME SlotInv, NEW r \in Request, NEW pc, NEW next,
         <<pc, next>> \in {<<"look", "queue">>, <<"again", "revive">>},
         Steps(r, pc, next), ~ cached, UNCHANGED lock
  PROVE  SlotInv'
<1>1. pc \in Step /\ next \in Step
  BY DEF Step, GetStep
<1>2. StepTrue(r)' /\ SamePart(r) /\ LocksTrue(r)'
  BY <1>1, StepsFacts
     DEF StepTrue, SamePart, LocksTrue, Alone, Making, Placing, TakingAway, ArcStep, CreatingStep
<1>3. StoredOf(r)' /\ RevisionsOf(r)' /\ FoundOf(r)' /\ (disturbed \/ ListOf(r)')
  BY <1>1, StepsFacts DEF StepTrue, StoredOf, RevisionsOf, FoundOf, ListOf, Making, Placing, CreatingStep, Rest
<1> QED
  BY <1>1, <1>2, <1>3, StepsFacts, WalkKeeps

\* Nobody else makes the session while r does, unless something was disturbed.
LEMMA OneMaker ==
  ASSUME SlotInv, ~ disturbed, NEW r \in Request, NEW q \in Request, Making(q),
         req[r].kind = "create", req[r].pc \notin {"none", "creation_lock", "done"}
  PROVE  q = r
<1>1. /\ ListOf(q) /\ ListOf(r) /\ StepTrue(q) /\ LocksTrue(q) /\ LocksTrue(r)
  BY DEF SlotInv, ListTrue
<1>2. req[q].kind = "create" /\ req[q].pc \notin {"none", "creation_lock", "done"}
  BY <1>1 DEF Making, Placing, StepTrue, CreatingStep
<1> QED
  BY <1>1, <1>2 DEF LocksTrue, ListOf

\* A request that found nothing is answered, or goes on to make the session.
LEMMA MissingKeeps ==
  ASSUME SlotInv, NEW r \in Request, Missing(r), UNCHANGED <<Files, Rest, failures>>,
         req[r].pc \in {"look", "again", "revive", "read", "load"},
         slot.deleted \/ ~ index.there \/ (slot.state = "none" /\ ~ stored)
  PROVE  SlotInv'
<1>1. ASSUME req[r].kind # "create" PROVE SlotInv'
  <2>1. End(r, "not_found") /\ "not_found" \in Outcome
    BY <1>1 DEF Missing, Outcome
  <2>2. ~ Making(r) /\ ~ TakingAway(r) /\ disturbed' \in BOOLEAN /\ failures' \in 0 .. MaxFaults
    BY <1>1 DEF SlotInv, SlotTypeOK, StepTrue, Making, Placing, TakingAway, Rest
  <2> QED
    BY <2>1, <2>2, EndKeepsList DEF Files, Rest
<1>2. ASSUME req[r].kind = "create" PROVE SlotInv'
  <2>1. Goes(r, "prepare") /\ lock' = Unlocked(r, {"opening"}) /\ UNCHANGED Held
    BY <1>2 DEF Missing
  <2>2. /\ lock' \in [Lock -> Request \cup {"free"}] /\ OthersLocks(r)
        /\ lock'["creation"] = lock["creation"]
    BY <2>1, UnlockFacts DEF SlotInv, Lock
  <2>3. Steps(r, req[r].pc, "prepare") /\ req[r].pc \in Step /\ "prepare" \in Step
    BY <2>1, <2>2 DEF Steps, SlotInv, SlotTypeOK, Step, GetStep, Rest
  <2>4. StepTrue(r)' /\ SamePart(r) /\ LocksTrue(r)'
    BY <1>2, <2>2, <2>3, StepsFacts
       DEF StepTrue, SamePart, LocksTrue, Alone, Making, Placing, TakingAway, ArcStep, CreatingStep
  <2>5. (\A q \in Request : ~ req[q].creating) => ~ stored /\ (slot.state = "held" => slot.deleted)
    BY DEF SlotInv, FoundTrue, StoredTrue
  <2>6. disturbed \/ ~ stored
    <3> SUFFICES ASSUME ~ disturbed, ~ index.there PROVE ~ stored
      BY DEF SlotInv, StoredTrue
    <3>1. \A q \in Request : Making(q) => q = r
      BY <1>2, OneMaker
    <3>2. ~ Making(r)
      BY DEF SlotInv, StepTrue, CreatingStep, Making, Placing
    <3>3. \A q \in Request : ~ Placing(q)
      BY <3>1, <3>2 DEF Making
    <3> QED
      BY <3>3 DEF SlotInv, SlotTypeOK, ListTrue, StoredTrue, StoredOf, TakingAway
  <2>7. StoredOf(r)' /\ RevisionsOf(r)'
    BY <2>3, <2>4, StepsFacts DEF StepTrue, StoredOf, RevisionsOf, CreatingStep
  <2>8. /\ (\A q \in Request : ~ req[q].creating) => FoundOf(r)'
        /\ disturbed \/ ListOf(r)'
    <3>1. stored' = stored /\ slot' = slot /\ ~ Making(r)'
      BY <2>1, <2>3, <2>4, StepsFacts DEF Files, Held, Making, Placing, StepTrue, CreatingStep
    <3> QED
      BY <2>3, <2>5, <2>6, <3>1, StepsFacts DEF FoundOf, ListOf, Making, Placing
  <2> QED
    BY <2>3, <2>4, <2>7, <2>8, StepsFacts, WalkKeeps
<1> QED
  BY <1>1, <1>2

\* A request that got the slot uses it, or a creation answers with it.
LEMMA GotKeeps ==
  ASSUME SlotInv, NEW r \in Request, Got(r), cached' = TRUE,
         UNCHANGED <<Files, Held, worker, disturbed, failures>>,
         slot.state = "held", ~ slot.deleted, ~ req[r].creating, ~ req[r].dropped,
         \/ req[r].pc \in {"look", "again"} /\ cached
         \/ req[r].pc = "revive" /\ retired
         \/ req[r].pc = "insert"
  PROVE  SlotInv'
<1> USE DEF Files, Held
<1>1. req \in [Request -> Requests] /\ req[r] \in Requests /\ StepTrue(r)
  BY DEF SlotInv, SlotTypeOK
<1> DEFINE Moved ==
           /\ req' \in [Request -> Requests] /\ \A q \in Request : q # r => req'[q] = req[q]
           /\ req'[r].kind = req[r].kind /\ ~ req'[r].creating /\ ~ req'[r].dropped
           /\ req'[r].match = req[r].match /\ req'[r].base = req[r].base
           /\ req'[r].pc \in {"done", "update_lock", "session_lock", "persist"}
           /\ req'[r].pc = "update_lock" => req[r].kind \in {"rename", "update"}
           /\ req'[r].pc = "session_lock" => req[r].kind \in {"publish", "delete"}
           /\ req'[r].pc = "persist" => req[r].kind = "touch"
           /\ req'[r].arc <=> req'[r].pc # "done"
           /\ req'[r].outcome # "none" => req'[r].pc = "done"
           /\ lock' \in [Lock -> Request \cup {"free"}] /\ OthersLocks(r)
<1>2. Moved
  <2>1. ASSUME req[r].kind = "create" PROVE Moved
    <3>1. PICK outcome \in {"replayed", "conflict"} : req' = [req EXCEPT ![r] = Ended(r, outcome)]
      BY <2>1 DEF Got
    <3>2. req' \in [Request -> Requests] /\ Quits(r, outcome)
      BY <3>1, EndedFacts DEF SlotInv, Outcome
    <3>3. lock' \in [Lock -> Request \cup {"free"}] /\ OthersLocks(r)
      BY <2>1, UnlockFacts DEF Got, SlotInv
    <3> QED
      BY <3>2, <3>3 DEF Quits
  <2>2. ASSUME req[r].kind # "create" PROVE Moved
    <3>1. /\ req' = [req EXCEPT ![r] = [@ EXCEPT !.arc = TRUE, !.pc = Operation(req[r].kind)]]
          /\ lock' = Unlocked(r, {"opening"})
      BY <2>2 DEF Got
    <3>2. lock' \in [Lock -> Request \cup {"free"}] /\ OthersLocks(r)
      BY <3>1, UnlockFacts DEF SlotInv
    <3>3. req[r].kind \in {"rename", "update", "publish", "touch", "delete"} /\ req[r].outcome = "none"
      BY <1>1, <2>2 DEF StepTrue, Requests, Kind
    <3>4. /\ Operation(req[r].kind) \in {"update_lock", "session_lock", "persist"}
          /\ Operation(req[r].kind) = "update_lock" => req[r].kind \in {"rename", "update"}
          /\ Operation(req[r].kind) = "session_lock" => req[r].kind \in {"publish", "delete"}
          /\ Operation(req[r].kind) = "persist" => req[r].kind = "touch"
      BY <3>3 DEF Operation
    <3> HIDE DEF Operation
    <3>5. [req[r] EXCEPT !.arc = TRUE, !.pc = Operation(req[r].kind)] \in Requests
      BY <1>1, <3>4 DEF Requests, Step
    <3>6. /\ req' \in [Request -> Requests] /\ \A q \in Request : q # r => req'[q] = req[q]
          /\ req'[r] = [req[r] EXCEPT !.arc = TRUE, !.pc = Operation(req[r].kind)]
      BY <1>1, <3>1, <3>5
    <3>7. /\ req'[r].pc = Operation(req[r].kind) /\ req'[r].arc /\ req'[r].kind = req[r].kind
          /\ req'[r].creating = req[r].creating /\ req'[r].dropped = req[r].dropped
          /\ req'[r].match = req[r].match /\ req'[r].base = req[r].base
          /\ req'[r].outcome = req[r].outcome
      BY <1>1, <3>6 DEF Requests
    <3> QED
      BY <3>2, <3>3, <3>4, <3>6, <3>7
  <2> QED
    BY <2>1, <2>2
<1>3. SlotTypeOK'
  BY <1>2 DEF SlotInv, SlotTypeOK
<1>4. req[r].outcome = "none" /\ (req[r].arc <=> req[r].pc = "insert")
  BY <1>1 DEF StepTrue, ArcStep
<1>5. (\A q \in Request : StepTrue(q))'
  BY <1>1, <1>2 DEF SlotInv, StepTrue, ArcStep
<1>6. \A q \in Request : q # r => ~ Alone(q)
  BY <1>1, <1>4 DEF SlotInv, OwnersTrue, Alone
<1>7. OwnersTrue'
  BY <1>2, <1>4, <1>6 DEF SlotInv, OwnersTrue, Alone
<1>8. (\A q \in Request : LocksTrue(q))'
  BY <1>1, <1>2 DEF SlotInv, LocksTrue, OthersLocks, Lock
<1>9. StoredTrue'
  BY <1>2 DEF SlotInv, StoredTrue, StoredOf
<1>10. RevisionsTrue'
  <2>1. DroppedEdit => DroppedEdit'
    BY <1>2, <1>4 DEF DroppedEdit
  <2> QED
    BY <1>2, <2>1 DEF SlotInv, RevisionsTrue, RevisionsOf
<1>11. FoundTrue'
  <2>1. \A q \in Request : q # r /\ ~ req[q].dropped /\ req[q].pc \in {"revive", "read", "load"} =>
           cached \/ (req[r].pc = "revive" /\ lock["opening"] # r)
    BY DEF SlotInv, LocksTrue
  <2> QED
    BY <1>2, <2>1 DEF SlotInv, FoundTrue, FoundOf, LocksTrue
<1>12. ListTrue'
  BY <1>2, <1>4 DEF SlotInv, ListTrue, ListOf, Making, Placing, TakingAway
<1> QED
  BY <1>3, <1>5, <1>7, <1>8, <1>9, <1>10, <1>11, <1>12 DEF SlotInv

\* The cache is looked at.
LEMMA LookInCacheKeeps ==
  ASSUME SlotInv, NEW r \in Request, LookInCache(r)
  PROVE  SlotInv'
<1>1. /\ req[r].pc \in {"look", "again"} /\ ~ req[r].dropped
      /\ UNCHANGED <<Files, Rest, failures>>
  BY DEF LookInCache, At, Closure
<1>2. ASSUME cached, slot.deleted PROVE SlotInv'
  BY <1>1, <1>2, MissingKeeps DEF LookInCache
<1>3. ASSUME cached, ~ slot.deleted PROVE SlotInv'
  <2>1. Got(r) /\ UNCHANGED Held /\ slot.state = "held" /\ ~ req[r].creating
    BY <1>1, <1>3 DEF LookInCache, SlotInv, OwnersTrue, StepTrue, CreatingStep
  <2> QED
    BY <1>1, <1>3, <2>1, GotKeeps DEF Rest
<1>4. ASSUME ~ cached PROVE SlotInv'
  <2> DEFINE next == IF req[r].pc = "look" THEN "queue" ELSE "revive"
  <2>1. Goes(r, next) /\ UNCHANGED <<lock, Held>>
    BY <1>4 DEF LookInCache
  <2>2. Steps(r, req[r].pc, next)
    BY <1>1, <2>1 DEF Steps, SlotInv, SlotTypeOK, OthersLocks
  <2>3. <<req[r].pc, next>> \in {<<"look", "queue">>, <<"again", "revive">>}
    BY <1>1
  <2> QED
    BY <1>4, <2>1, <2>2, <2>3, MissKeeps
<1> QED
  BY <1>2, <1>3, <1>4

\* A lock is taken and nothing else done.
LEMMA TakeKeeps ==
  ASSUME SlotInv, NEW r \in Request, NEW pc, NEW name, NEW next, Steps(r, pc, next),
         Acquire(r, name, next), name \in Lock,
         \/ pc = "queue" /\ name = "opening" /\ next = "again"
         \/ pc = "creation_lock" /\ name = "creation" /\ next = "look"
         \/ pc = "update_lock" /\ name = "update" /\ next = "session_lock" /\ req[r].kind = "update"
         \/ pc = "update_lock" /\ name = "update" /\ next = "edit" /\ req[r].kind # "update"
         \/ pc = "session_lock" /\ next = "check" /\ req[r].kind = "update"
         \/ pc = "session_lock" /\ next = "persist" /\ req[r].kind = "publish"
         \/ pc = "session_lock" /\ next = "quiesce" /\ req[r].kind = "delete"
         \/ pc = "place" /\ next = "erase"
  PROVE  SlotInv'
<1>1. pc \in Step /\ next \in Step
  BY DEF Step, GetStep
<1>2. lock'[name] = r /\ \A l \in Lock : lock[l] = r => lock'[l] = r
  BY <1>1, AcquireFacts DEF SlotInv
<1>3. StepTrue(r)'
  BY <1>1, StepsFacts DEF StepTrue, ArcStep, CreatingStep
<1>4. SamePart(r)
  BY <1>1, StepsFacts DEF StepTrue, SamePart, Alone, Making, Placing, TakingAway, ArcStep, CreatingStep
<1>5. LocksTrue(r)'
  BY <1>1, <1>2, StepsFacts DEF StepTrue, LocksTrue, ArcStep, CreatingStep, Lock
<1>6. StoredOf(r)' /\ RevisionsOf(r)'
  BY <1>1, StepsFacts DEF StepTrue, StoredOf, RevisionsOf, ArcStep, CreatingStep, Files, Held, Rest
<1>7. FoundOf(r)'
  BY <1>1, StepsFacts DEF FoundOf
<1>8. disturbed \/ ListOf(r)'
  <2>1. (\E q \in Request : req[q].outcome = "deleted") => \E q \in Request : req'[q].outcome = "deleted"
    BY <1>1, StepsFacts DEF Walks
  <2> QED
    BY <1>1, <2>1, StepsFacts DEF StepTrue, ListOf, Making, Placing, CreatingStep, Files
<1> QED
  BY <1>1, <1>3, <1>4, <1>5, <1>6, <1>7, <1>8, StepsFacts, WalkKeeps

\* A step that takes a lock is such a step.
LEMMA TakeIsStep ==
  ASSUME SlotInv, NEW r \in Request, NEW name \in Lock, NEW next \in Step, Acquire(r, name, next),
         UNCHANGED <<Files, Held, Rest, failures>>
  PROVE  Steps(r, req[r].pc, next)
<1>1. lock' \in [Lock -> Request \cup {"free"}] /\ OthersLocks(r) /\ Goes(r, next)
  BY AcquireFacts DEF SlotInv
<1> QED
  BY <1>1 DEF Steps, SlotInv, SlotTypeOK

\* The three locks that requests wait for.
LEMMA TakingKeeps ==
  ASSUME SlotInv, NEW r \in Request, TakeOpening(r) \/ TakeCreation(r) \/ TakeUpdate(r)
  PROVE  SlotInv'
<1>1. ASSUME TakeOpening(r) PROVE SlotInv'
  <2>1. /\ Acquire(r, "opening", "again") /\ UNCHANGED <<Files, Held, Rest, failures>>
        /\ req[r].pc = "queue" /\ "opening" \in Lock /\ "again" \in Step
    BY <1>1 DEF TakeOpening, At, Lock, Step, GetStep
  <2> QED
    BY <2>1, TakeIsStep, TakeKeeps
<1>2. ASSUME TakeCreation(r) PROVE SlotInv'
  <2>1. /\ Acquire(r, "creation", "look") /\ UNCHANGED <<Files, Held, Rest, failures>>
        /\ req[r].pc = "creation_lock" /\ "creation" \in Lock /\ "look" \in Step
    BY <1>2 DEF TakeCreation, At, Lock, Step, GetStep
  <2> QED
    BY <2>1, TakeIsStep, TakeKeeps
<1>3. ASSUME TakeUpdate(r) PROVE SlotInv'
  <2> DEFINE next == IF req[r].kind = "update" THEN "session_lock" ELSE "edit"
  <2>1. /\ Acquire(r, "update", next) /\ UNCHANGED <<Files, Held, Rest, failures>>
        /\ req[r].pc = "update_lock" /\ "update" \in Lock /\ next \in Step
    BY <1>3 DEF TakeUpdate, At, Lock, Step
  <2> QED
    BY <2>1, TakeIsStep, TakeKeeps
<1> QED
  BY <1>1, <1>2, <1>3

\* A slot the cache gave up is looked for.
LEMMA ReviveKeeps ==
  ASSUME SlotInv, NEW r \in Request, Revive(r)
  PROVE  SlotInv'
<1>1. /\ req[r].pc = "revive" /\ ~ req[r].dropped
      /\ UNCHANGED <<Files, worker, disturbed, failures>>
  BY DEF Revive, At, Closure
<1>2. ASSUME retired, slot.state = "held", slot.deleted PROVE SlotInv'
  BY <1>1, <1>2, MissingKeeps DEF Revive, Rest
<1>3. ASSUME retired, slot.state = "held", ~ slot.deleted PROVE SlotInv'
  <2>1. Got(r) /\ UNCHANGED Held /\ cached' = TRUE /\ ~ req[r].creating
    BY <1>1, <1>3 DEF Revive, SlotInv, StepTrue, CreatingStep
  <2> QED
    BY <1>1, <1>3, <2>1, GotKeeps
<1>4. ASSUME ~ (retired /\ slot.state = "held") PROVE SlotInv'
  <2>1. Goes(r, "read") /\ UNCHANGED <<lock, Held, cached>> /\ ~ retired
    BY <1>4 DEF Revive, SlotInv, OwnersTrue
  <2>2. Steps(r, "revive", "read") /\ "revive" \in Step /\ "read" \in Step
    BY <1>1, <2>1 DEF Steps, SlotInv, SlotTypeOK, OthersLocks, Step, GetStep, Rest
  <2>3. StepTrue(r)' /\ SamePart(r) /\ LocksTrue(r)'
    BY <2>1, <2>2, StepsFacts
       DEF StepTrue, SamePart, LocksTrue, Alone, Making, Placing, TakingAway, ArcStep, CreatingStep
  <2>4. StoredOf(r)' /\ RevisionsOf(r)' /\ (disturbed \/ ListOf(r)')
    BY <2>2, <2>3, StepsFacts DEF StepTrue, StoredOf, RevisionsOf, ListOf, Making, Placing, CreatingStep
  <2>5. (\A q \in Request : ~ req[q].creating) => FoundOf(r)'
    BY <1>1, <2>1, <2>2, StepsFacts DEF FoundOf, Held
  <2> QED
    BY <2>2, <2>3, <2>4, <2>5, StepsFacts, WalkKeeps
<1> QED
  BY <1>2, <1>3, <1>4

\* The row is read.
LEMMA ReadIndexKeeps ==
  ASSUME SlotInv, NEW r \in Request, ReadIndex(r)
  PROVE  SlotInv'
<1>1. req[r].pc = "read" /\ UNCHANGED <<Files, Rest, failures>>
  BY DEF ReadIndex, At
<1>2. ASSUME ~ index.there PROVE SlotInv'
  BY <1>1, <1>2, MissingKeeps DEF ReadIndex
<1>3. ASSUME index.there PROVE SlotInv'
  <2>1. /\ req' = [req EXCEPT ![r] = [@ EXCEPT !.pc = "load", !.seen = index.rev]]
        /\ UNCHANGED <<lock, Held>>
    BY <1>3 DEF ReadIndex
  <2>2. req \in [Request -> Requests] /\ req[r] \in Requests /\ index.rev \in Nat
    BY DEF SlotInv, SlotTypeOK
  <2>3. [req[r] EXCEPT !.pc = "load", !.seen = index.rev] \in Requests
    BY <2>2 DEF Requests, Step, GetStep
  <2>4. /\ req' \in [Request -> Requests] /\ Walks(r, "load") /\ req'[r].kind = req[r].kind
        /\ req'[r].match = req[r].match /\ req'[r].base = req[r].base /\ req'[r].seen = index.rev
    BY <2>1, <2>2, <2>3 DEF Walks, Requests
  <2>5. SlotTypeOK' /\ OthersLocks(r)
    BY <1>1, <2>1, <2>4 DEF SlotInv, SlotTypeOK, OthersLocks, Files, Held, Rest
  <2>6. /\ StepTrue(r) /\ LocksTrue(r) /\ RevisionsOf(r) /\ (disturbed \/ ListOf(r))
        /\ (\A q \in Request : ~ req[q].creating) => FoundOf(r)
    BY DEF SlotInv, RevisionsTrue, FoundTrue, ListTrue
  <2>7. StepTrue(r)' /\ SamePart(r) /\ LocksTrue(r)'
    BY <1>1, <2>1, <2>4, <2>6
       DEF Walks, StepTrue, SamePart, LocksTrue, Alone, Making, Placing, TakingAway, ArcStep, CreatingStep
  <2>8. index'.rev <= req'[r].seen
    BY <1>1, <2>2, <2>4 DEF Files
  <2>9. StoredOf(r)' /\ RevisionsOf(r)' /\ (disturbed \/ ListOf(r)')
    BY <1>1, <2>4, <2>6, <2>8
       DEF Walks, StepTrue, StoredOf, RevisionsOf, ListOf, Making, Placing, CreatingStep
  <2>10. (\A q \in Request : ~ req[q].creating) => FoundOf(r)'
    BY <1>1, <2>1, <2>4, <2>6 DEF Walks, FoundOf, Held, Rest
  <2> QED
    BY <1>1, <2>1, <2>4, <2>5, <2>7, <2>9, <2>10, WalkKeeps
<1> QED
  BY <1>2, <1>3

\* The session is opened: r alone has the slot then.
LEMMA OpenedKeeps ==
  ASSUME SlotInv, NEW r \in Request, req[r].pc = "load", slot.state = "none", stored,
         Opened(r, req[r].seen),
         req' = [req EXCEPT ![r] = [@ EXCEPT !.pc = "open", !.arc = TRUE]],
         UNCHANGED <<lock, Files, Rest, failures>>
  PROVE  SlotInv'
<1> USE DEF Files, Rest
<1>1. /\ req \in [Request -> Requests] /\ req[r] \in Requests /\ req[r].seen \in Nat
      /\ index.rev \in Nat
  BY DEF SlotInv, SlotTypeOK, Requests
<1>2. [req[r] EXCEPT !.pc = "open", !.arc = TRUE] \in Requests
  BY <1>1 DEF Requests, Step, GetStep
<1>3. /\ req' \in [Request -> Requests] /\ \A q \in Request : q # r => req'[q] = req[q]
      /\ req'[r].kind = req[r].kind /\ req'[r].match = req[r].match /\ req'[r].base = req[r].base
      /\ req'[r].pc = "open" /\ req'[r].arc /\ req'[r].creating = req[r].creating
      /\ req'[r].dropped = req[r].dropped /\ req'[r].outcome = req[r].outcome
  BY <1>1, <1>2 DEF Requests
<1>4. /\ slot' \in [state : {"none", "held", "dropping"}, deleted : BOOLEAN, rev : Nat]
      /\ slot'.state = "held" /\ ~ slot'.deleted /\ slot'.rev = req[r].seen /\ retired' = retired
  BY <1>1 DEF Opened
<1>5. SlotTypeOK'
  BY <1>3, <1>4 DEF SlotInv, SlotTypeOK
<1>6. StepTrue(r) /\ ~ req[r].creating /\ ~ cached /\ ~ worker /\ ~ retired
  BY DEF SlotInv, StepTrue, CreatingStep, OwnersTrue
<1>7. \A q \in Request : ~ req[q].arc
  BY DEF SlotInv, OwnersTrue
<1>8. (\A q \in Request : StepTrue(q))'
  BY <1>3, <1>6 DEF SlotInv, StepTrue, ArcStep, CreatingStep
<1>9. OwnersTrue'
  BY <1>3, <1>4, <1>6, <1>7 DEF OwnersTrue, Alone
<1>10. (\A q \in Request : LocksTrue(q))'
  BY <1>3, <1>6 DEF SlotInv, LocksTrue
<1>11. \A q \in Request : req[q].pc \notin ArcStep
  BY <1>7 DEF SlotInv, StepTrue
<1>12. StoredTrue'
  BY <1>3, <1>4, <1>6, <1>11 DEF SlotInv, StoredTrue, StoredOf, ArcStep
<1>13. RevisionsTrue'
  <2>1. DroppedEdit' <=> DroppedEdit
    BY <1>3 DEF DroppedEdit
  <2>2. req[r].dropped \/ ~ index.there \/ index.rev <= req[r].seen
    BY <1>6 DEF SlotInv, RevisionsTrue, RevisionsOf
  <2>3. \/ ~ (index.there /\ slot.state = "held" /\ ~ slot.deleted)' \/ (index.rev <= slot.rev)'
        \/ \E q \in Request : (req[q].pc \in {"open", "index"} /\ (req[q].creating \/ req[q].dropped))'
    BY <1>3, <1>4, <2>2
  <2>4. \A q \in Request : RevisionsOf(q)'
    BY <1>3, <1>4, <1>6, <1>11, <2>1 DEF SlotInv, RevisionsTrue, RevisionsOf, ArcStep
  <2> QED
    BY <2>3, <2>4 DEF RevisionsTrue
<1>14. FoundTrue'
  BY <1>3, <1>4, <1>6 DEF SlotInv, FoundTrue, FoundOf
<1>15. ListTrue'
  <2>1. \A q \in Request : req'[q].outcome = req[q].outcome
    BY <1>3
  <2>2. \A q \in Request : (Making(q)' <=> Making(q)) /\ (Placing(q)' <=> Placing(q))
                          /\ (TakingAway(q)' <=> TakingAway(q))
    BY <1>3, <1>6 DEF Making, Placing, TakingAway
  <2>3. \A q \in Request : ListOf(q) => ListOf(q)'
    BY <1>3, <1>6, <2>1, <2>2 DEF ListOf, Making, Placing
  <2> QED
    BY <2>1, <2>2, <2>3 DEF SlotInv, ListTrue
<1> QED
  BY <1>5, <1>8, <1>9, <1>10, <1>12, <1>13, <1>14, <1>15 DEF SlotInv

\* Session::load, whichever way it ends.
LEMMA LoadKeeps ==
  ASSUME SlotInv, NEW r \in Request, Load(r)
  PROVE  SlotInv'
<1>1. req[r].pc = "load" /\ UNCHANGED <<Files, Rest, failures>>
  BY DEF Load, At
<1>2. ASSUME End(r, "busy") PROVE SlotInv'
  <2>1. /\ ~ Making(r) /\ ~ TakingAway(r) /\ disturbed' \in BOOLEAN /\ failures' \in 0 .. MaxFaults
        /\ "busy" \in Outcome
    BY <1>1 DEF SlotInv, SlotTypeOK, StepTrue, CreatingStep, Making, Placing, TakingAway, Rest, Outcome
  <2> QED
    BY <1>1, <1>2, <2>1, EndKeepsList DEF Files, Rest
<1>3. ASSUME slot.state = "none", ~ stored, Missing(r) PROVE SlotInv'
  BY <1>1, <1>3, MissingKeeps
<1> QED
  BY <1>1, <1>2, <1>3, OpenedKeeps DEF Load

\* What an opening that failed leaves.
LEMMA OpenFailsKeeps ==
  ASSUME SlotInv, NEW r \in Request, req[r].pc \in {"open", "index"}, OpenFails(r)
  PROVE  SlotInv'
<1> USE DEF Files, Rest
<1>1. /\ req \in [Request -> Requests] /\ req[r] \in Requests /\ StepTrue(r)
  BY DEF SlotInv, SlotTypeOK
<1>2. /\ UNCHANGED <<Files, Rest>> /\ slot' = NoSlot /\ retired' = FALSE
      /\ failures' \in 0 .. MaxFaults
  BY SlotAssumption DEF OpenFails, Fails, SlotInv, SlotTypeOK
<1> DEFINE next == IF req[r].creating THEN "rollback" ELSE "done"
           Moved ==
           /\ req' \in [Request -> Requests] /\ \A q \in Request : q # r => req'[q] = req[q]
           /\ req'[r].kind = req[r].kind /\ req'[r].match = req[r].match /\ req'[r].base = req[r].base
           /\ req'[r].pc = next /\ ~ req'[r].arc /\ req'[r].creating = req[r].creating
           /\ req'[r].dropped = req[r].dropped
           /\ next = "done" \/ req'[r].outcome = req[r].outcome
           /\ req'[r].outcome \in {"failed", "none"}
           /\ lock' \in [Lock -> Request \cup {"free"}] /\ OthersLocks(r)
           /\ next = "rollback" => lock' = lock
<1>3. Moved
  <2>1. ASSUME ~ req[r].creating PROVE Moved
    <3>1. req' = [req EXCEPT ![r] = Ended(r, "failed")] /\ lock' = Unlocked(r, Lock)
      BY <2>1 DEF OpenFails
    <3>2. req' \in [Request -> Requests] /\ Quits(r, "failed")
      BY <3>1, EndedFacts DEF SlotInv, Outcome
    <3> QED
      BY <2>1, <3>1, <3>2, UnlockFacts DEF Quits, SlotInv
  <2>2. ASSUME req[r].creating PROVE Moved
    <3>1. /\ req' = [req EXCEPT ![r] = [@ EXCEPT !.pc = "rollback", !.arc = FALSE]]
          /\ UNCHANGED lock
      BY <2>2 DEF OpenFails
    <3>2. [req[r] EXCEPT !.pc = "rollback", !.arc = FALSE] \in Requests
      BY <1>1 DEF Requests, Step
    <3>3. req[r].outcome = "none"
      BY <1>1 DEF StepTrue
    <3> QED
      BY <1>1, <2>2, <3>1, <3>2, <3>3 DEF Requests, OthersLocks, SlotInv, SlotTypeOK
  <2> QED
    BY <2>1, <2>2
<1>4. slot'.state = "none" /\ ~ slot'.deleted /\ slot'.rev = 0
      /\ slot' \in [state : {"none", "held", "dropping"}, deleted : BOOLEAN, rev : Nat]
  BY <1>2 DEF NoSlot
<1>5. SlotTypeOK'
  BY <1>2, <1>3, <1>4 DEF SlotInv, SlotTypeOK
<1>6. /\ Alone(r) /\ ~ cached /\ ~ worker /\ stored
      /\ \A q \in Request : q # r => ~ req[q].arc
  BY <1>1 DEF SlotInv, OwnersTrue, Alone, StepTrue, ArcStep, StoredTrue, StoredOf
<1>7. \A q \in Request : q # r => req[q].pc \notin ArcStep
  BY <1>6 DEF SlotInv, StepTrue
<1>8. next \in {"rollback", "done"} /\ (next = "rollback" <=> req[r].creating)
  OBVIOUS
<1> HIDE DEF next
<1>9. (\A q \in Request : StepTrue(q))'
  BY <1>1, <1>3, <1>8 DEF SlotInv, StepTrue, ArcStep, CreatingStep
<1>10. OwnersTrue'
  BY <1>2, <1>3, <1>4, <1>6 DEF OwnersTrue, Alone
<1>11. (\A q \in Request : LocksTrue(q))'
  BY <1>3, <1>8 DEF SlotInv, LocksTrue, OthersLocks, Lock
<1>12. StoredTrue'
  BY <1>2, <1>3, <1>4, <1>7, <1>8 DEF SlotInv, StoredTrue, StoredOf, ArcStep
<1>13. RevisionsTrue'
  <2>1. req[r].outcome = "none"
    BY <1>1 DEF StepTrue
  <2>2. DroppedEdit => DroppedEdit'
    BY <1>3, <2>1 DEF DroppedEdit
  <2>3. \A q \in Request : RevisionsOf(q)'
    BY <1>2, <1>3, <1>4, <1>7, <1>8, <2>2 DEF SlotInv, RevisionsTrue, RevisionsOf, ArcStep
  <2> QED
    BY <1>4, <2>3 DEF RevisionsTrue
<1>14. FoundTrue'
  BY <1>2, <1>3, <1>4, <1>6, <1>8 DEF SlotInv, FoundTrue, FoundOf
<1>15. ListTrue'
  <2>1. \A q \in Request : req[q].outcome # "none" => req'[q].outcome = req[q].outcome
    BY <1>1, <1>3 DEF StepTrue
  <2>2. \A q \in Request : (Making(q)' <=> Making(q)) /\ (Placing(q)' <=> Placing(q))
                          /\ (TakingAway(q)' <=> TakingAway(q))
    BY <1>3, <1>8 DEF Making, Placing, TakingAway
  <2>3. \A q \in Request : ListOf(q) => ListOf(q)'
    BY <1>2, <1>3, <1>8, <2>1, <2>2 DEF ListOf
  <2> QED
    BY <1>2, <2>1, <2>2, <2>3 DEF SlotInv, ListTrue
<1> QED
  BY <1>5, <1>9, <1>10, <1>11, <1>12, <1>13, <1>14, <1>15 DEF SlotInv

\* The row is written by whoever opened the slot.
LEMMA RowWrittenKeeps ==
  ASSUME SlotInv, NEW r \in Request, At(r, "index"),
         Goes(r, IF req[r].creating THEN "place" ELSE "insert"),
         index' = [there |-> TRUE, rev |-> slot.rev],
         UNCHANGED <<stored, blobs, Held, Rest, lock, failures>>
  PROVE  SlotInv'
<1> USE DEF Held, Rest
<1> DEFINE next == IF req[r].creating THEN "place" ELSE "insert"
<1>1. /\ req' \in [Request -> Requests] /\ Walks(r, next)
      /\ req'[r].kind = req[r].kind /\ req'[r].match = req[r].match
      /\ req'[r].base = req[r].base /\ req'[r].seen = req[r].seen
  BY GoesFacts DEF SlotInv, Step, GetStep
<1>2. /\ StepTrue(r) /\ req[r].pc = "index" /\ ~ req[r].dropped /\ slot.rev \in Nat
      /\ index'.there /\ index'.rev = slot.rev
  BY DEF SlotInv, At, Closure, SlotTypeOK
<1>3. SlotTypeOK'
  BY <1>1, <1>2 DEF SlotInv, SlotTypeOK
<1>4. next \in {"place", "insert"} /\ (next = "place" <=> req[r].creating)
  OBVIOUS
<1> HIDE DEF next
<1>5. /\ \A q \in Request : q # r => req'[q] = req[q]
      /\ req'[r].pc = next /\ req'[r].arc = req[r].arc /\ req'[r].creating = req[r].creating
      /\ req'[r].dropped = req[r].dropped /\ req'[r].outcome = req[r].outcome
  BY <1>1 DEF Walks
<1>6. /\ Alone(r) /\ ~ cached /\ ~ worker /\ stored /\ ~ slot.deleted /\ slot.state = "held"
      /\ \A q \in Request : q # r => ~ req[q].arc
  BY <1>2 DEF SlotInv, OwnersTrue, Alone, StepTrue, ArcStep, StoredTrue, StoredOf
<1>7. \A q \in Request : q # r => req[q].pc \notin ArcStep
  BY <1>6 DEF SlotInv, StepTrue
<1>8. (\A q \in Request : StepTrue(q))'
  BY <1>1, <1>2, <1>4, <1>5 DEF SlotInv, StepTrue, ArcStep, CreatingStep
<1>9. OwnersTrue'
  BY <1>2, <1>4, <1>5, <1>6 DEF SlotInv, OwnersTrue, Alone
<1>10. (\A q \in Request : LocksTrue(q))'
  BY <1>1, <1>2, <1>4, <1>5 DEF SlotInv, LocksTrue
<1>11. StoredTrue'
  BY <1>2, <1>4, <1>5, <1>6, <1>7 DEF SlotInv, StoredTrue, StoredOf, ArcStep
<1>12. RevisionsTrue'
  <2>1. DroppedEdit' <=> DroppedEdit
    BY <1>5 DEF DroppedEdit
  <2>2. index'.rev <= slot'.rev
    BY <1>2
  <2>3. \A q \in Request : q # r /\ req[q].pc = "load" /\ ~ req[q].dropped =>
          slot.rev = 0 /\ req[q].seen \in Nat
    BY <1>2, <1>4 DEF SlotInv, LocksTrue, RevisionsTrue, RevisionsOf, SlotTypeOK, Requests
  <2>4. \A q \in Request : q # r /\ req[q].pc = "load" /\ ~ req[q].dropped => index'.rev <= req[q].seen
    BY <1>2, <2>3
  <2>5. \A q \in Request : RevisionsOf(q)'
    BY <1>1, <1>2, <1>4, <1>5, <1>7, <2>1, <2>4 DEF SlotInv, RevisionsTrue, RevisionsOf, ArcStep
  <2> QED
    BY <2>2, <2>5 DEF RevisionsTrue
<1>13. FoundTrue'
  BY <1>2, <1>4, <1>5 DEF SlotInv, FoundTrue, FoundOf
<1>14. ListTrue'
  <2>1. \A q \in Request : req'[q].outcome = req[q].outcome
    BY <1>5
  <2>2. \A q \in Request : (Making(q)' <=> Making(q)) /\ (Placing(q)' <=> Placing(q))
                          /\ (TakingAway(q)' <=> TakingAway(q))
    BY <1>2, <1>4, <1>5 DEF Making, Placing, TakingAway
  <2>3. \A q \in Request : ListOf(q) => ListOf(q)'
    BY <1>1, <1>2, <1>4, <1>5, <2>1, <2>2 DEF ListOf
  <2> QED
    BY <1>2, <1>6, <2>1, <2>2, <2>3 DEF SlotInv, ListTrue
<1> QED
  BY <1>3, <1>8, <1>9, <1>10, <1>11, <1>12, <1>13, <1>14 DEF SlotInv

\* App::open_slot, whichever way it ends.
LEMMA OpenSlotKeeps ==
  ASSUME SlotInv, NEW r \in Request, OpenSlot(r)
  PROVE  SlotInv'
<1>1. req[r].pc \in {"open", "index"} /\ ~ req[r].dropped
  BY DEF OpenSlot, At, Closure
<1>2. ASSUME At(r, "open"), Goes(r, "index"), Works, UNCHANGED <<Files, Held, Rest, lock>>
      PROVE SlotInv'
  <2>1. Steps(r, "open", "index") /\ "open" \in Step /\ "index" \in Step
    BY <1>2 DEF Steps, SlotInv, SlotTypeOK, OthersLocks, Step, GetStep, Works, At
  <2>2. StepTrue(r)' /\ SamePart(r) /\ LocksTrue(r)'
    BY <1>2, <2>1, StepsFacts
       DEF StepTrue, SamePart, LocksTrue, Alone, Making, Placing, TakingAway, ArcStep, CreatingStep
  <2>3. StoredOf(r)' /\ RevisionsOf(r)' /\ FoundOf(r)'
    BY <1>1, <2>1, StepsFacts DEF StepTrue, StoredOf, RevisionsOf, FoundOf, CreatingStep, Files, Held
  <2>4. disturbed \/ ListOf(r)'
    <3>1. (\E q \in Request : req[q].outcome = "deleted") => \E q \in Request : req'[q].outcome = "deleted"
      BY <2>1, StepsFacts DEF Walks
    <3> QED
      BY <2>1, <3>1, StepsFacts DEF ListOf, Making, Placing, Files
  <2> QED
    BY <2>1, <2>2, <2>3, <2>4, StepsFacts, WalkKeeps
<1> QED
  BY <1>1, <1>2, OpenFailsKeeps, RowWrittenKeeps DEF OpenSlot, Works

\* The slot a creation made is put into the cache, and the creation answered.
LEMMA CreatedKeeps ==
  ASSUME SlotInv, NEW r \in Request, At(r, "insert"), req[r].creating, cached' = TRUE,
         req' = [req EXCEPT ![r] = Ended(r, "created")], lock' = Unlocked(r, Lock),
         UNCHANGED <<Files, Held, worker, disturbed, failures>>
  PROVE  SlotInv'
<1> USE DEF Files, Held
<1>1. /\ req' \in [Request -> Requests] /\ Quits(r, "created")
      /\ lock' \in [Lock -> Request \cup {"free"}] /\ OthersLocks(r)
  BY EndedFacts, UnlockFacts DEF SlotInv, Outcome
<1>2. SlotTypeOK'
  BY <1>1 DEF SlotInv, SlotTypeOK
<1>3. /\ \A q \in Request : q # r => req'[q] = req[q]
      /\ req'[r].pc = "done" /\ ~ req'[r].arc /\ req'[r].creating
      /\ req'[r].kind = req[r].kind /\ req'[r].dropped = req[r].dropped
      /\ req'[r].outcome = "created"
  BY <1>1 DEF Quits
<1>4. StepTrue(r) /\ req[r].pc = "insert" /\ req[r].outcome = "none" /\ req[r].kind = "create"
  BY DEF SlotInv, StepTrue, At
<1>5. /\ Alone(r) /\ slot.state = "held" /\ stored /\ ~ slot.deleted /\ index.there
      /\ \A q \in Request : q # r => ~ req[q].arc
  BY <1>4 DEF SlotInv, OwnersTrue, Alone, StepTrue, ArcStep, StoredTrue, StoredOf
<1>6. \A q \in Request : q # r => req[q].pc \notin ArcStep
  BY <1>5 DEF SlotInv, StepTrue
<1>7. (\A q \in Request : StepTrue(q))'
  BY <1>3, <1>4 DEF SlotInv, StepTrue, ArcStep, CreatingStep
<1>8. OwnersTrue'
  BY <1>3, <1>5 DEF SlotInv, OwnersTrue, Alone
<1>9. (\A q \in Request : LocksTrue(q))'
  BY <1>1, <1>3 DEF SlotInv, LocksTrue, OthersLocks, Lock
<1>10. StoredTrue'
  BY <1>3, <1>5 DEF SlotInv, StoredTrue, StoredOf
<1>11. RevisionsTrue'
  <2>1. DroppedEdit => DroppedEdit'
    BY <1>3, <1>4 DEF DroppedEdit
  <2>2. \A q \in Request : RevisionsOf(q)'
    BY <1>3, <2>1 DEF SlotInv, RevisionsTrue, RevisionsOf
  <2> QED
    BY <1>3, <1>4, <2>2 DEF SlotInv, RevisionsTrue
<1>12. FoundTrue'
  BY <1>3 DEF FoundTrue
<1>13. ListTrue'
  <2> SUFFICES ASSUME ~ disturbed PROVE ListTrue'
    BY DEF ListTrue
  <2>1. \A q \in Request : req[q].outcome # "none" => req'[q].outcome = req[q].outcome
    BY <1>3, <1>4
  <2>2. \A q \in Request : ListOf(q)'
    BY <1>3, <1>4, <2>1 DEF SlotInv, ListTrue, ListOf, Making, Placing
  <2>3. blobs \/ \E q \in Request : req[q].outcome = "deleted"
    BY <1>4 DEF SlotInv, ListTrue, ListOf, Making, Placing
  <2>4. (blobs = stored)' \/ \E q, p \in Request : (req[q].outcome = "deleted" /\ req[p].outcome = "created")'
    BY <1>3, <1>5, <2>1, <2>3 DEF SlotInv, SlotTypeOK
  <2> QED
    BY <1>5, <2>2, <2>4 DEF ListTrue, SlotInv, SlotTypeOK
<1> QED
  BY <1>2, <1>7, <1>8, <1>9, <1>10, <1>11, <1>12, <1>13 DEF SlotInv

\* The opened slot is put into the cache.
LEMMA InsertInCacheKeeps ==
  ASSUME SlotInv, NEW r \in Request, InsertInCache(r)
  PROVE  SlotInv'
<1>1. /\ At(r, "insert") /\ req[r].pc = "insert" /\ ~ req[r].dropped /\ cached' = TRUE
      /\ UNCHANGED <<Files, Held, worker, disturbed, failures>>
  BY DEF InsertInCache, At, Closure
<1>2. slot.state = "held" /\ ~ slot.deleted
  BY <1>1 DEF SlotInv, OwnersTrue, StepTrue, ArcStep, StoredTrue, StoredOf
<1>3. ASSUME req[r].creating PROVE SlotInv'
  BY <1>1, <1>3, CreatedKeeps DEF InsertInCache
<1>4. ASSUME ~ req[r].creating PROVE SlotInv'
  BY <1>1, <1>2, <1>4, GotKeeps DEF InsertInCache
<1> QED
  BY <1>3, <1>4

\* The session's mutex is taken, or not.
LEMMA LockIdleKeeps ==
  ASSUME SlotInv, NEW r \in Request, LockIdle(r)
  PROVE  SlotInv'
<1>1. /\ req[r].pc = "session_lock" /\ ~ req[r].dropped /\ UNCHANGED <<Files, Rest, failures>>
      /\ req[r].kind \in {"update", "publish", "delete"}
  BY DEF LockIdle, At, Closure, SlotInv, StepTrue
<1> DEFINE next == [update |-> "check", publish |-> "persist", delete |-> "quiesce"][req[r].kind]
<1>2. ASSUME Acquire(r, "mutex", next), UNCHANGED Held PROVE SlotInv'
  <2>1. next \in Step /\ "mutex" \in Lock
    BY <1>1 DEF Step, Lock
  <2>2. \/ next = "check" /\ req[r].kind = "update"
        \/ next = "persist" /\ req[r].kind = "publish"
        \/ next = "quiesce" /\ req[r].kind = "delete"
    BY <1>1
  <2> HIDE DEF next
  <2> QED
    BY <1>1, <1>2, <2>1, <2>2, TakeIsStep, TakeKeeps
<1>3. ASSUME req[r].kind = "update", Goes(r, "edit"), UNCHANGED <<lock, Held>> PROVE SlotInv'
  <2>1. Steps(r, "session_lock", "edit") /\ "session_lock" \in Step /\ "edit" \in Step
    BY <1>1, <1>3 DEF Steps, SlotInv, SlotTypeOK, OthersLocks, Step
  <2>2. StepTrue(r)' /\ SamePart(r) /\ LocksTrue(r)'
    BY <1>1, <1>3, <2>1, StepsFacts
       DEF StepTrue, SamePart, LocksTrue, Alone, Making, Placing, TakingAway, ArcStep, CreatingStep
  <2>3. StoredOf(r)' /\ RevisionsOf(r)' /\ FoundOf(r)' /\ (disturbed \/ ListOf(r)')
    BY <1>1, <2>1, StepsFacts
       DEF StepTrue, StoredOf, RevisionsOf, FoundOf, ListOf, Making, Placing, CreatingStep
  <2> QED
    BY <2>1, <2>2, <2>3, StepsFacts, WalkKeeps
<1>4. ASSUME End(r, "conflict") PROVE SlotInv'
  <2>1. /\ ~ Making(r) /\ ~ TakingAway(r) /\ disturbed' \in BOOLEAN /\ failures' \in 0 .. MaxFaults
        /\ "conflict" \in Outcome
    BY <1>1 DEF SlotInv, SlotTypeOK, StepTrue, CreatingStep, Making, Placing, TakingAway, Rest, Outcome
  <2> QED
    BY <1>1, <1>4, <2>1, EndKeepsList DEF Files, Rest
<1> QED
  BY <1>2, <1>3, <1>4 DEF LockIdle

\* A request that is refused, or fails, before it wrote anything.
LEMMA SlotRefusedKeeps ==
  ASSUME SlotInv, NEW r \in Request, NEW outcome \in Outcome, outcome # "none", End(r, outcome),
         req[r].pc \in {"check", "edit", "persist", "save", "quiesce", "erase"}, ~ req[r].creating,
         UNCHANGED <<Files, Rest>>, Works \/ Fails
  PROVE  SlotInv'
<1>1. /\ ~ Making(r) /\ ~ TakingAway(r) /\ disturbed' \in BOOLEAN /\ failures' \in 0 .. MaxFaults
  BY SlotAssumption DEF SlotInv, SlotTypeOK, Making, Placing, TakingAway, Rest, Works, Fails
<1> QED
  BY <1>1, EndKeepsList DEF Files, Rest

\* update_idle compares the revision.
LEMMA CheckRevisionKeeps ==
  ASSUME SlotInv, NEW r \in Request, CheckRevision(r)
  PROVE  SlotInv'
<1>1. /\ req[r].pc = "check" /\ ~ req[r].dropped /\ UNCHANGED <<Files, Rest, failures>>
      /\ StepTrue(r) /\ ~ req[r].creating
  BY DEF CheckRevision, At, Closure, SlotInv, StepTrue, CreatingStep
<1>2. ASSUME End(r, "not_found") \/ End(r, "conflict") PROVE SlotInv'
  BY <1>1, <1>2, SlotRefusedKeeps DEF Works, Outcome
<1>3. ASSUME Matches(r), req' = [req EXCEPT ![r] = [@ EXCEPT !.pc = "edit", !.match = {}]],
             UNCHANGED <<lock, Held>>
      PROVE  SlotInv'
  <2>1. req \in [Request -> Requests] /\ req[r] \in Requests /\ {} \in IfMatch
    BY DEF SlotInv, SlotTypeOK, IfMatch
  <2>2. [req[r] EXCEPT !.pc = "edit", !.match = {}] \in Requests
    BY <2>1 DEF Requests, Step
  <2>3. /\ req' \in [Request -> Requests] /\ Walks(r, "edit") /\ req'[r].kind = req[r].kind
        /\ req'[r].base = req[r].base
    BY <1>3, <2>1, <2>2 DEF Walks, Requests
  <2>4. SlotTypeOK' /\ OthersLocks(r)
    BY <1>1, <1>3, <2>3 DEF SlotInv, SlotTypeOK, OthersLocks, Files, Held, Rest
  <2>5. StepTrue(r)' /\ SamePart(r) /\ LocksTrue(r)'
    BY <1>1, <1>3, <2>3
       DEF SlotInv, Walks, StepTrue, SamePart, LocksTrue, Alone, Making, Placing, TakingAway, ArcStep
  <2>6. req'[r].base \subseteq {slot'.rev}
    BY <1>1, <1>3, <2>3 DEF SlotInv, RevisionsTrue, RevisionsOf, Matches, Held
  <2>7. StoredOf(r)' /\ RevisionsOf(r)' /\ FoundOf(r)' /\ ListOf(r)'
    BY <1>1, <2>3, <2>5, <2>6 DEF Walks, StepTrue, StoredOf, RevisionsOf, FoundOf, ListOf, Making, Placing
  <2> QED
    BY <1>1, <1>3, <2>3, <2>4, <2>5, <2>7, WalkKeeps
<1> QED
  BY <1>2, <1>3 DEF CheckRevision

\* The row and the descriptor are changed.
LEMMA EditedKeeps ==
  ASSUME SlotInv, NEW r \in Request, At(r, "edit"), NoReader, ~ slot.deleted,
         index' = [there |-> TRUE, rev |-> slot.rev + 1],
         req' = [req EXCEPT ![r] = [Ended(r, "edited") EXCEPT !.seen = slot.rev + 1]],
         lock' = Unlocked(r, Lock),
         slot' = [slot EXCEPT !.rev = @ + 1, !.state = IF Shared(r) THEN "held" ELSE "dropping"],
         retired' = (retired /\ Shared(r)),
         UNCHANGED <<stored, blobs, Rest, failures>>
  PROVE  SlotInv'
<1> USE DEF Rest
<1>1. /\ StepTrue(r) /\ req[r].pc = "edit" /\ req[r].arc /\ ~ req[r].creating /\ ~ Alone(r)
      /\ req[r].outcome = "none"
  BY DEF SlotInv, At, StepTrue, ArcStep, CreatingStep, Alone
<1>2. slot.state = "held" /\ cached /\ Shared(r)
  BY <1>1 DEF SlotInv, OwnersTrue, Shared
<1>3. /\ req \in [Request -> Requests] /\ req[r] \in Requests /\ slot.rev \in Nat
      /\ slot \in [state : {"none", "held", "dropping"}, deleted : BOOLEAN, rev : Nat]
      /\ retired \in BOOLEAN
  BY DEF SlotInv, SlotTypeOK
<1>4. /\ slot'.state = "held" /\ ~ slot'.deleted /\ slot'.rev = slot.rev + 1 /\ retired' = retired
      /\ slot' \in [state : {"none", "held", "dropping"}, deleted : BOOLEAN, rev : Nat]
      /\ index' \in [there : BOOLEAN, rev : Nat]
      /\ index'.there /\ index'.rev = slot.rev + 1
  <2>1. slot' = [slot EXCEPT !.rev = @ + 1, !.state = "held"] /\ retired' = retired
    BY <1>2, <1>3
  <2>2. slot.rev + 1 \in Nat
    BY <1>3
  <2> QED
    BY <1>3, <2>1, <2>2
<1>5. [Ended(r, "edited") EXCEPT !.seen = slot.rev + 1] \in Requests
  <2>1. Ended(r, "edited") \in Requests
    BY <1>3 DEF Requests, Ended, Step, Outcome
  <2>2. slot.rev + 1 \in Nat
    BY <1>3
  <2> QED
    BY <2>1, <2>2 DEF Requests
<1>6. /\ req' \in [Request -> Requests] /\ \A q \in Request : q # r => req'[q] = req[q]
      /\ req'[r].pc = "done" /\ ~ req'[r].arc /\ req'[r].creating = req[r].creating
      /\ req'[r].kind = req[r].kind /\ req'[r].dropped = req[r].dropped
      /\ req'[r].outcome = "edited"
  BY <1>3, <1>5 DEF Requests, Ended
<1>7. lock' \in [Lock -> Request \cup {"free"}] /\ OthersLocks(r)
  BY UnlockFacts DEF SlotInv
<1>8. SlotTypeOK'
  BY <1>4, <1>6, <1>7 DEF SlotInv, SlotTypeOK
<1>9. (\A q \in Request : StepTrue(q))'
  BY <1>1, <1>6 DEF SlotInv, StepTrue, ArcStep
<1>10. OwnersTrue'
  BY <1>2, <1>4, <1>6 DEF SlotInv, OwnersTrue, Alone
<1>11. (\A q \in Request : LocksTrue(q))'
  BY <1>6, <1>7 DEF SlotInv, LocksTrue, OthersLocks, Lock
<1>12. StoredTrue'
  BY <1>1, <1>2, <1>4, <1>6 DEF SlotInv, StoredTrue, StoredOf
<1>13. RevisionsTrue'
  <2>1. \A q \in Request : q # r /\ req[q].pc = "edit" /\ ~ req[q].dropped => DroppedEdit'
    <3>1. \A q \in Request : q # r /\ req[q].pc = "edit" /\ ~ req[q].dropped => req[r].dropped
      BY <1>1 DEF SlotInv, LocksTrue
    <3> QED
      BY <1>6, <3>1 DEF DroppedEdit
  <2>2. index'.rev <= slot'.rev
    BY <1>3, <1>4
  <2>3. \A q \in Request : ~ (req[q].pc \in {"open", "index"})
    BY <1>1 DEF SlotInv, OwnersTrue, StepTrue, Alone, ArcStep
  <2>4. \A q \in Request : RevisionsOf(q)'
    BY <1>2, <1>6, <2>1, <2>3 DEF SlotInv, RevisionsTrue, RevisionsOf, NoReader
  <2> QED
    BY <2>2, <2>4 DEF RevisionsTrue
<1>14. FoundTrue'
  BY <1>1, <1>2, <1>4, <1>6 DEF SlotInv, FoundTrue, FoundOf
<1>15. ListTrue'
  <2>1. \A q \in Request : req[q].outcome # "none" => req'[q].outcome = req[q].outcome
    BY <1>1, <1>6
  <2>2. \A q \in Request : (Making(q)' <=> Making(q)) /\ (Placing(q)' <=> Placing(q))
                          /\ (TakingAway(q)' <=> TakingAway(q))
    BY <1>1, <1>6 DEF Making, Placing, TakingAway
  <2>3. \A q \in Request : ListOf(q) => ListOf(q)'
    BY <1>1, <1>6, <2>1, <2>2 DEF ListOf
  <2>4. stored \/ \E q \in Request : TakingAway(q)
    BY <1>2 DEF SlotInv, StoredTrue, TakingAway
  <2> QED
    BY <1>4, <2>1, <2>2, <2>3, <2>4 DEF SlotInv, SlotTypeOK, ListTrue
<1> QED
  BY <1>8, <1>9, <1>10, <1>11, <1>12, <1>13, <1>14, <1>15 DEF SlotInv

\* SessionSlot::edit_descriptor, whichever way it ends.
LEMMA EditDescriptorKeeps ==
  ASSUME SlotInv, NEW r \in Request, EditDescriptor(r)
  PROVE  SlotInv'
<1>1. /\ At(r, "edit") /\ req[r].pc = "edit" /\ NoReader /\ UNCHANGED <<stored, blobs, Rest>>
      /\ ~ req[r].creating
  BY DEF EditDescriptor, At, SlotInv, StepTrue, CreatingStep
<1>2. ASSUME End(r, "not_found") \/ End(r, "conflict") \/ End(r, "failed"), Works \/ Fails,
             UNCHANGED index
      PROVE  SlotInv'
  BY <1>1, <1>2, SlotRefusedKeeps DEF Outcome, Files
<1> QED
  BY <1>1, <1>2, EditedKeeps DEF EditDescriptor, Works

\* A save of the row begins.
LEMMA PersistIndexKeeps ==
  ASSUME SlotInv, NEW r \in Request, PersistIndex(r)
  PROVE  SlotInv'
<1>1. /\ req[r].pc = "persist" /\ UNCHANGED <<Files, Rest, failures>>
      /\ StepTrue(r) /\ ~ req[r].creating
  BY DEF PersistIndex, At, SlotInv, StepTrue, CreatingStep
<1>2. ASSUME slot.deleted PROVE SlotInv'
  BY <1>1, <1>2, SlotRefusedKeeps DEF PersistIndex, Works, Outcome
<1>3. ASSUME ~ slot.deleted PROVE SlotInv'
  <2>1. /\ req' = [req EXCEPT ![r] = [@ EXCEPT !.pc = "save", !.seen = slot.rev]]
        /\ UNCHANGED <<lock, Held>>
    BY <1>3 DEF PersistIndex
  <2>2. req \in [Request -> Requests] /\ req[r] \in Requests /\ slot.rev \in Nat
    BY DEF SlotInv, SlotTypeOK
  <2>3. [req[r] EXCEPT !.pc = "save", !.seen = slot.rev] \in Requests
    BY <2>2 DEF Requests, Step
  <2>4. /\ req' \in [Request -> Requests] /\ Walks(r, "save") /\ req'[r].kind = req[r].kind
        /\ req'[r].base = req[r].base /\ req'[r].match = req[r].match /\ req'[r].seen = slot.rev
    BY <2>1, <2>2, <2>3 DEF Walks, Requests
  <2>5. SlotTypeOK' /\ OthersLocks(r)
    BY <1>1, <2>1, <2>4 DEF SlotInv, SlotTypeOK, OthersLocks, Files, Held, Rest
  <2>6. StepTrue(r)' /\ SamePart(r) /\ LocksTrue(r)'
    BY <1>1, <2>4
       DEF SlotInv, Walks, StepTrue, SamePart, LocksTrue, Alone, Making, Placing, TakingAway, ArcStep
  <2>7. RevisionsOf(r)'
    BY <1>1, <1>3, <2>1, <2>4 DEF SlotInv, RevisionsTrue, RevisionsOf, Walks, Held
  <2>8. StoredOf(r)' /\ FoundOf(r)' /\ ListOf(r)'
    BY <1>1, <2>4, <2>6 DEF Walks, StepTrue, StoredOf, FoundOf, ListOf, Making, Placing
  <2> QED
    BY <1>1, <2>1, <2>4, <2>5, <2>6, <2>7, <2>8, WalkKeeps
<1> QED
  BY <1>2, <1>3

\* The row is saved as it was when the save began, which is as the slot still is.
LEMMA SavedKeeps ==
  ASSUME SlotInv, NEW r \in Request, At(r, "save"), End(r, "saved"),
         index' = [there |-> TRUE, rev |-> req[r].seen],
         UNCHANGED <<stored, blobs, Rest, failures>>
  PROVE  SlotInv'
<1> USE DEF Rest
<1>1. /\ StepTrue(r) /\ req[r].pc = "save" /\ req[r].arc /\ ~ req[r].creating /\ ~ Alone(r)
      /\ req[r].outcome = "none" /\ ~ slot.deleted /\ req[r].seen = slot.rev
  BY DEF SlotInv, At, StepTrue, ArcStep, CreatingStep, Alone, RevisionsTrue, RevisionsOf
<1>2. slot.state = "held" /\ cached /\ Shared(r) /\ slot.rev \in Nat
  BY <1>1 DEF SlotInv, OwnersTrue, Shared, SlotTypeOK
<1>3. /\ req' \in [Request -> Requests] /\ Quits(r, "saved")
      /\ lock' \in [Lock -> Request \cup {"free"}] /\ OthersLocks(r)
  BY EndFacts DEF SlotInv, Outcome
<1>4. /\ UNCHANGED <<slot, retired>>
      /\ index' \in [there : BOOLEAN, rev : Nat] /\ index'.there /\ index'.rev = slot.rev
  BY <1>1, <1>2 DEF End, LetGo
<1>5. /\ \A q \in Request : q # r => req'[q] = req[q]
      /\ req'[r].pc = "done" /\ ~ req'[r].arc /\ req'[r].creating = req[r].creating
      /\ req'[r].kind = req[r].kind /\ req'[r].dropped = req[r].dropped
      /\ req'[r].outcome = "saved"
  BY <1>3 DEF Quits
<1>6. SlotTypeOK'
  BY <1>3, <1>4 DEF SlotInv, SlotTypeOK
<1>7. (\A q \in Request : StepTrue(q))'
  BY <1>1, <1>5 DEF SlotInv, StepTrue, ArcStep
<1>8. OwnersTrue'
  BY <1>2, <1>4, <1>5 DEF SlotInv, OwnersTrue, Alone
<1>9. (\A q \in Request : LocksTrue(q))'
  BY <1>3, <1>5 DEF SlotInv, LocksTrue, OthersLocks, Lock
<1>10. StoredTrue'
  BY <1>1, <1>2, <1>4, <1>5 DEF SlotInv, StoredTrue, StoredOf
<1>11. RevisionsTrue'
  <2>1. DroppedEdit => DroppedEdit'
    BY <1>1, <1>5 DEF DroppedEdit
  <2>2. index'.rev <= slot'.rev
    BY <1>2, <1>4
  <2>3. \A q \in Request : RevisionsOf(q)'
    BY <1>2, <1>4, <1>5, <2>1 DEF SlotInv, RevisionsTrue, RevisionsOf
  <2> QED
    BY <2>2, <2>3 DEF RevisionsTrue
<1>12. FoundTrue'
  BY <1>1, <1>2, <1>4, <1>5 DEF SlotInv, FoundTrue, FoundOf
<1>13. ListTrue'
  <2>1. \A q \in Request : req[q].outcome # "none" => req'[q].outcome = req[q].outcome
    BY <1>1, <1>5
  <2>2. \A q \in Request : (Making(q)' <=> Making(q)) /\ (Placing(q)' <=> Placing(q))
                          /\ (TakingAway(q)' <=> TakingAway(q))
    BY <1>1, <1>5 DEF Making, Placing, TakingAway
  <2>3. \A q \in Request : ListOf(q) => ListOf(q)'
    BY <1>1, <1>5, <2>1, <2>2 DEF ListOf
  <2>4. stored \/ \E q \in Request : TakingAway(q)
    BY <1>1, <1>2 DEF SlotInv, StoredTrue, TakingAway
  <2> QED
    BY <1>4, <2>1, <2>2, <2>3, <2>4 DEF SlotInv, SlotTypeOK, ListTrue
<1> QED
  BY <1>6, <1>7, <1>8, <1>9, <1>10, <1>11, <1>12, <1>13 DEF SlotInv

\* SessionSlot::persist_index, whichever way it ends.
LEMMA SaveIndexKeeps ==
  ASSUME SlotInv, NEW r \in Request, SaveIndex(r)
  PROVE  SlotInv'
<1>1. At(r, "save") /\ req[r].pc = "save" /\ ~ req[r].creating /\ UNCHANGED <<stored, blobs, Rest>>
  BY DEF SaveIndex, At, SlotInv, StepTrue, CreatingStep
<1>2. ASSUME Fails, End(r, "failed"), UNCHANGED index PROVE SlotInv'
  BY <1>1, <1>2, SlotRefusedKeeps DEF Outcome, Files
<1> QED
  BY <1>1, <1>2, SavedKeeps DEF SaveIndex, Works

\* A deletion waits for the session's work to end.
LEMMA QuiesceKeeps ==
  ASSUME SlotInv, NEW r \in Request, Quiesce(r)
  PROVE  SlotInv'
<1>1. /\ req[r].pc = "quiesce" /\ ~ req[r].creating /\ UNCHANGED <<Files, Rest>> /\ StepTrue(r)
      /\ req[r].kind = "delete"
  BY DEF Quiesce, At, SlotInv, StepTrue, CreatingStep
<1>2. ASSUME End(r, "not_found") \/ End(r, "failed"), Works \/ Fails PROVE SlotInv'
  BY <1>1, <1>2, SlotRefusedKeeps DEF Outcome
<1>3. ASSUME Goes(r, "erase"), Works, UNCHANGED <<lock, Held>> PROVE SlotInv'
  <2>1. Steps(r, "quiesce", "erase") /\ "quiesce" \in Step /\ "erase" \in Step
    BY <1>1, <1>3 DEF Steps, SlotInv, SlotTypeOK, OthersLocks, Step, Works
  <2>2. StepTrue(r)' /\ SamePart(r) /\ LocksTrue(r)'
    BY <1>1, <2>1, StepsFacts
       DEF StepTrue, SamePart, LocksTrue, Alone, Making, Placing, TakingAway, ArcStep, CreatingStep
  <2>3. StoredOf(r)' /\ RevisionsOf(r)' /\ FoundOf(r)' /\ (disturbed \/ ListOf(r)')
    BY <1>1, <2>1, StepsFacts
       DEF StepTrue, StoredOf, RevisionsOf, FoundOf, ListOf, Making, Placing, CreatingStep
  <2> QED
    BY <2>1, <2>2, <2>3, StepsFacts, WalkKeeps
<1> QED
  BY <1>2, <1>3 DEF Quiesce

\* The session leaves the storage.
LEMMA EraseKeeps ==
  ASSUME SlotInv, NEW r \in Request, Erase(r)
  PROVE  SlotInv'
<1>1. /\ req[r].pc = "erase" /\ UNCHANGED <<index, blobs, cached, worker>> /\ StepTrue(r)
  BY DEF Erase, At, SlotInv
<1>2. ASSUME Fails, End(r, "failed"), UNCHANGED stored, disturbed' = (disturbed \/ req[r].creating)
      PROVE  SlotInv'
  <2>1. /\ failures' \in 0 .. MaxFaults /\ disturbed' \in BOOLEAN /\ "failed" \in Outcome
        /\ (disturbed => disturbed') /\ (disturbed' \/ (~ Making(r) /\ ~ TakingAway(r)))
    BY <1>1, <1>2, SlotAssumption
       DEF SlotInv, SlotTypeOK, Requests, Fails, Outcome, TakingAway, Making, Placing
  <2> QED
    BY <1>1, <1>2, <2>1, EndKeepsList
<1>3. ASSUME Works, Goes(r, "mark"), stored' = FALSE, UNCHANGED <<lock, Held, disturbed>>
      PROVE  SlotInv'
  <2> USE DEF Held
  <2>1. /\ req' \in [Request -> Requests] /\ Walks(r, "mark")
        /\ req'[r].kind = req[r].kind /\ req'[r].match = req[r].match /\ req'[r].base = req[r].base
    BY <1>3, GoesFacts DEF SlotInv, Step
  <2>2. SlotTypeOK'
    BY <1>1, <1>3, <2>1 DEF SlotInv, SlotTypeOK, Works
  <2>3. /\ \A q \in Request : q # r => req'[q] = req[q]
        /\ req'[r].pc = "mark" /\ req'[r].arc = req[r].arc /\ req'[r].creating = req[r].creating
        /\ req'[r].dropped = req[r].dropped /\ req'[r].outcome = req[r].outcome
    BY <2>1 DEF Walks
  <2>4. req[r].arc /\ \A q \in Request : q # r => ~ Alone(q)
    BY <1>1 DEF SlotInv, OwnersTrue, StepTrue, ArcStep
  <2>5. \A q \in Request : q # r => req[q].pc \notin {"open", "index", "insert", "place"}
          /\ ~ (req[q].pc = "erase" /\ req[q].creating)
    BY <2>4 DEF SlotInv, StepTrue, ArcStep, Alone
  <2>6. (\A q \in Request : StepTrue(q))'
    BY <1>1, <2>1, <2>3 DEF SlotInv, StepTrue, ArcStep, CreatingStep
  <2>7. OwnersTrue'
    BY <1>1, <1>3, <2>3, <2>4 DEF SlotInv, OwnersTrue, Alone
  <2>8. (\A q \in Request : LocksTrue(q))'
    BY <1>1, <1>3, <2>1, <2>3 DEF SlotInv, LocksTrue
  <2>9. StoredTrue'
    BY <1>1, <1>3, <2>3, <2>5 DEF SlotInv, StoredTrue, StoredOf
  <2>10. DroppedEdit' <=> DroppedEdit
    BY <2>3 DEF DroppedEdit
  <2>11. RevisionsTrue'
    BY <1>1, <1>3, <2>1, <2>3, <2>10 DEF SlotInv, RevisionsTrue, RevisionsOf
  <2>12. FoundTrue'
    BY <1>1, <1>3, <2>3 DEF SlotInv, FoundTrue, FoundOf
  <2>13. ListTrue'
    BY <1>1, <1>3, <2>1, <2>3 DEF SlotInv, ListTrue, ListOf, Making, Placing, TakingAway
  <2> QED
    BY <2>2, <2>6, <2>7, <2>8, <2>9, <2>11, <2>12, <2>13 DEF SlotInv
<1> QED
  BY <1>2, <1>3 DEF Erase

\* The slot is marked, and no save of the row is under way or comes later.
LEMMA MarkDeletedKeeps ==
  ASSUME SlotInv, NEW r \in Request, MarkDeleted(r)
  PROVE  SlotInv'
<1> USE DEF Files, Rest
<1>1. /\ req[r].pc = "mark" /\ NoReader /\ Goes(r, "unlist") /\ StepTrue(r)
      /\ UNCHANGED <<Files, retired, Rest, lock, failures>>
  BY DEF MarkDeleted, At, SlotInv
<1>2. /\ req' \in [Request -> Requests] /\ Walks(r, "unlist")
      /\ req'[r].kind = req[r].kind /\ req'[r].match = req[r].match /\ req'[r].base = req[r].base
  BY <1>1, GoesFacts DEF SlotInv, Step
<1>3. /\ slot' \in [state : {"none", "held", "dropping"}, deleted : BOOLEAN, rev : Nat]
      /\ slot'.deleted /\ slot'.state = slot.state /\ slot'.rev = slot.rev
  BY DEF MarkDeleted, SlotInv, SlotTypeOK
<1>4. SlotTypeOK'
  BY <1>1, <1>2, <1>3 DEF SlotInv, SlotTypeOK
<1>5. /\ \A q \in Request : q # r => req'[q] = req[q]
      /\ req'[r].pc = "unlist" /\ req'[r].arc = req[r].arc /\ req'[r].creating = req[r].creating
      /\ req'[r].dropped = req[r].dropped /\ req'[r].outcome = req[r].outcome
  BY <1>2 DEF Walks
<1>6. req[r].arc /\ slot.state = "held" /\ \A q \in Request : q # r => ~ Alone(q)
  BY <1>1 DEF SlotInv, OwnersTrue, StepTrue, ArcStep
<1>7. \A q \in Request : q # r => req[q].pc \notin {"open", "index", "insert", "place"}
        /\ ~ (req[q].pc = "erase" /\ req[q].creating)
  BY <1>6 DEF SlotInv, StepTrue, ArcStep, Alone
<1>8. (\A q \in Request : StepTrue(q))'
  BY <1>1, <1>2, <1>5 DEF SlotInv, StepTrue, ArcStep, CreatingStep
<1>9. OwnersTrue'
  BY <1>1, <1>3, <1>5, <1>6 DEF SlotInv, OwnersTrue, Alone
<1>10. (\A q \in Request : LocksTrue(q))'
  BY <1>1, <1>2, <1>5 DEF SlotInv, LocksTrue
<1>11. StoredTrue'
  BY <1>1, <1>3, <1>5, <1>7 DEF SlotInv, StoredTrue, StoredOf
<1>12. DroppedEdit' <=> DroppedEdit
  BY <1>5 DEF DroppedEdit
<1>13. RevisionsTrue'
  BY <1>1, <1>2, <1>3, <1>5, <1>12 DEF SlotInv, RevisionsTrue, RevisionsOf, NoReader
<1>14. FoundTrue'
  BY <1>1, <1>3, <1>5 DEF SlotInv, FoundTrue, FoundOf
<1>15. ListTrue'
  BY <1>1, <1>2, <1>5 DEF SlotInv, ListTrue, ListOf, Making, Placing, TakingAway
<1> QED
  BY <1>4, <1>8, <1>9, <1>10, <1>11, <1>13, <1>14, <1>15 DEF SlotInv

\* The row goes.
LEMMA UnlistKeeps ==
  ASSUME SlotInv, NEW r \in Request, Unlist(r)
  PROVE  SlotInv'
<1>1. /\ req[r].pc = "unlist" /\ UNCHANGED <<stored, blobs, cached, worker>> /\ StepTrue(r)
      /\ ~ stored /\ slot.deleted
  BY DEF Unlist, At, SlotInv, StoredTrue, StoredOf
<1>2. ASSUME Fails, End(r, "failed"), disturbed' = TRUE, UNCHANGED index PROVE SlotInv'
  <2>1. failures' \in 0 .. MaxFaults /\ "failed" \in Outcome
    BY <1>2, SlotAssumption DEF SlotInv, SlotTypeOK, Fails, Outcome
  <2> QED
    BY <1>1, <1>2, <2>1, EndKeepsList
<1>3. ASSUME Works, Goes(r, IF req[r].creating THEN "files" ELSE "uncache"),
             index' = [there |-> FALSE, rev |-> 0], lock' = Unlocked(r, {"mutex"}),
             UNCHANGED <<Held, disturbed>>
      PROVE  SlotInv'
  <2> USE DEF Held
  <2> DEFINE next == IF req[r].creating THEN "files" ELSE "uncache"
  <2>1. /\ req' \in [Request -> Requests] /\ Walks(r, next)
        /\ req'[r].kind = req[r].kind /\ req'[r].match = req[r].match /\ req'[r].base = req[r].base
    BY <1>3, GoesFacts DEF SlotInv, Step
  <2>2. /\ lock' \in [Lock -> Request \cup {"free"}] /\ OthersLocks(r)
        /\ lock'["creation"] = lock["creation"]
    BY <1>3, UnlockFacts DEF SlotInv, Lock
  <2>3. ~ index'.there /\ index' \in [there : BOOLEAN, rev : Nat]
    BY <1>3
  <2>4. SlotTypeOK'
    BY <1>1, <1>3, <2>1, <2>2, <2>3 DEF SlotInv, SlotTypeOK, Works
  <2>5. next \in {"files", "uncache"} /\ (next = "files" <=> req[r].creating)
    OBVIOUS
  <2> HIDE DEF next
  <2>6. /\ \A q \in Request : q # r => req'[q] = req[q]
        /\ req'[r].pc = next /\ req'[r].arc = req[r].arc /\ req'[r].creating = req[r].creating
        /\ req'[r].dropped = req[r].dropped /\ req'[r].outcome = req[r].outcome
    BY <2>1 DEF Walks
  <2>7. req[r].arc /\ \A q \in Request : q # r => ~ Alone(q)
    BY <1>1 DEF SlotInv, OwnersTrue, StepTrue, ArcStep
  <2>8. \A q \in Request : q # r => req[q].pc \notin {"open", "index", "insert", "place"}
          /\ ~ (req[q].pc = "erase" /\ req[q].creating)
    BY <2>7 DEF SlotInv, StepTrue, ArcStep, Alone
  <2>9. (\A q \in Request : StepTrue(q))'
    BY <1>1, <2>1, <2>5, <2>6 DEF SlotInv, StepTrue, ArcStep, CreatingStep
  <2>10. OwnersTrue'
    BY <1>1, <1>3, <2>5, <2>6, <2>7 DEF SlotInv, OwnersTrue, Alone
  <2>11. (\A q \in Request : LocksTrue(q))'
    BY <1>1, <2>1, <2>2, <2>5, <2>6 DEF SlotInv, LocksTrue, OthersLocks, Lock
  <2>12. StoredTrue'
    BY <1>1, <1>3, <2>3, <2>5, <2>6, <2>8 DEF SlotInv, StoredTrue, StoredOf
  <2>13. DroppedEdit' <=> DroppedEdit
    BY <2>6 DEF DroppedEdit
  <2>14. RevisionsTrue'
    BY <1>1, <1>3, <2>1, <2>3, <2>5, <2>6, <2>13 DEF SlotInv, RevisionsTrue, RevisionsOf
  <2>15. FoundTrue'
    BY <1>1, <1>3, <2>5, <2>6 DEF SlotInv, FoundTrue, FoundOf
  <2>16. ListTrue'
    <3>1. TakingAway(r)' /\ \A q \in Request : req'[q].outcome = req[q].outcome
      BY <2>5, <2>6 DEF TakingAway
    <3>2. \A q \in Request : ListOf(q) => ListOf(q)'
      BY <1>1, <2>1, <2>5, <2>6, <3>1 DEF ListOf, Making, Placing
    <3> QED
      BY <1>3, <3>1, <3>2 DEF SlotInv, ListTrue
  <2> QED
    BY <2>4, <2>9, <2>10, <2>11, <2>12, <2>14, <2>15, <2>16 DEF SlotInv
<1> QED
  BY <1>2, <1>3 DEF Unlist

\* The cache gives up the deleted slot.
LEMMA UncacheKeeps ==
  ASSUME SlotInv, NEW r \in Request, Uncache(r)
  PROVE  SlotInv'
<1> USE DEF Files, Held
<1>1. /\ req[r].pc = "uncache" /\ cached' = FALSE /\ Goes(r, "files") /\ StepTrue(r)
      /\ UNCHANGED <<Files, Held, worker, disturbed, lock, failures>>
      /\ ~ stored /\ slot.deleted /\ ~ index.there
  BY DEF Uncache, At, SlotInv, StoredTrue, StoredOf
<1>2. /\ req' \in [Request -> Requests] /\ Walks(r, "files")
      /\ req'[r].kind = req[r].kind /\ req'[r].match = req[r].match /\ req'[r].base = req[r].base
  BY <1>1, GoesFacts DEF SlotInv, Step
<1>3. SlotTypeOK'
  BY <1>1, <1>2 DEF SlotInv, SlotTypeOK
<1>4. /\ \A q \in Request : q # r => req'[q] = req[q]
      /\ req'[r].pc = "files" /\ req'[r].arc = req[r].arc /\ req'[r].creating = req[r].creating
      /\ req'[r].dropped = req[r].dropped /\ req'[r].outcome = req[r].outcome
  BY <1>2 DEF Walks
<1>5. (\A q \in Request : StepTrue(q))'
  BY <1>1, <1>2, <1>4 DEF SlotInv, StepTrue, ArcStep, CreatingStep
<1>6. OwnersTrue'
  BY <1>1, <1>4 DEF SlotInv, OwnersTrue, Alone
<1>7. (\A q \in Request : LocksTrue(q))'
  BY <1>1, <1>2, <1>4 DEF SlotInv, LocksTrue
<1>8. StoredTrue'
  BY <1>1, <1>4 DEF SlotInv, StoredTrue, StoredOf
<1>9. DroppedEdit' <=> DroppedEdit
  BY <1>4 DEF DroppedEdit
<1>10. RevisionsTrue'
  BY <1>1, <1>2, <1>4, <1>9 DEF SlotInv, RevisionsTrue, RevisionsOf
<1>11. FoundTrue'
  BY <1>1, <1>4 DEF SlotInv, FoundTrue, FoundOf
<1>12. ListTrue'
  BY <1>1, <1>2, <1>4 DEF SlotInv, ListTrue, ListOf, Making, Placing, TakingAway
<1> QED
  BY <1>3, <1>5, <1>6, <1>7, <1>8, <1>10, <1>11, <1>12 DEF SlotInv

\* The files go, and the deletion is answered.
LEMMA RemoveFilesKeeps ==
  ASSUME SlotInv, NEW r \in Request, RemoveFiles(r)
  PROVE  SlotInv'
<1> DEFINE outcome == IF req[r].creating THEN "failed" ELSE "deleted"
<1>1. /\ req[r].pc = "files" /\ blobs' = FALSE /\ End(r, outcome) /\ outcome \in Outcome
      /\ UNCHANGED <<stored, index, Rest, failures>> /\ StepTrue(r)
      /\ ~ stored /\ ~ index.there
  BY DEF RemoveFiles, At, SlotInv, StoredTrue, StoredOf, Outcome
<1>2. outcome # "none" /\ disturbed' \in BOOLEAN /\ failures' \in 0 .. MaxFaults
  BY <1>1 DEF SlotInv, SlotTypeOK, Rest
<1>3. Quits(r, outcome)
  BY <1>1, EndFacts DEF SlotInv
<1>4. outcome = "deleted" <=> ~ req[r].creating
  OBVIOUS
<1> HIDE DEF outcome
<1>5. ListTrue'
  <2> SUFFICES ASSUME ~ disturbed PROVE ListTrue'
    BY <1>1 DEF ListTrue, Rest
  <2>1. /\ \A q \in Request : q # r => req'[q] = req[q]
        /\ req'[r].pc = "done" /\ req'[r].outcome = outcome
        /\ req'[r].kind = req[r].kind /\ req'[r].dropped = req[r].dropped
    BY <1>3 DEF Quits
  <2>2. \A q \in Request : q # r /\ Making(q) => ~ req[r].creating
    BY <1>1, OneMaker DEF StepTrue
  <2>3. (\E q \in Request : q # r /\ Making(q)) => \E q \in Request : req'[q].outcome = "deleted"
    BY <1>4, <2>1, <2>2
  <2>4. \A q \in Request : ListOf(q) /\ q # r => ListOf(q)'
    BY <1>1, <2>1, <2>3 DEF ListOf, Making, Placing
  <2>5. ListOf(r) => ListOf(r)'
    BY <2>1 DEF ListOf, Making, Placing
  <2>6. index'.there = stored' /\ blobs' = stored'
    BY <1>1 DEF SlotInv, SlotTypeOK
  <2> QED
    BY <2>4, <2>5, <2>6 DEF SlotInv, ListTrue
<1> QED
  BY <1>1, <1>2, <1>5, SlotEndKeeps DEF SlotInv, Rest

\* The files of a session that is to be made are there, or it is refused.
LEMMA PrepareKeeps ==
  ASSUME SlotInv, NEW r \in Request, Prepare(r)
  PROVE  SlotInv'
<1>1. /\ req[r].pc = "prepare" /\ ~ req[r].dropped /\ UNCHANGED <<stored, index, Rest, failures>>
      /\ StepTrue(r) /\ req[r].kind = "create" /\ ~ req[r].creating /\ ~ req[r].arc
      /\ req[r].outcome = "none"
  BY DEF Prepare, At, Closure, SlotInv, StepTrue, CreatingStep, ArcStep
<1>2. ASSUME blobs' = TRUE, Goes(r, "store"), UNCHANGED <<lock, Held>> PROVE SlotInv'
  <2> USE DEF Held, Rest
  <2>1. /\ req' \in [Request -> Requests] /\ Walks(r, "store")
        /\ req'[r].kind = req[r].kind /\ req'[r].match = req[r].match /\ req'[r].base = req[r].base
    BY <1>2, GoesFacts DEF SlotInv, Step
  <2>2. SlotTypeOK'
    BY <1>1, <1>2, <2>1 DEF SlotInv, SlotTypeOK
  <2>3. /\ \A q \in Request : q # r => req'[q] = req[q]
        /\ req'[r].pc = "store" /\ req'[r].arc = req[r].arc /\ req'[r].creating = req[r].creating
        /\ req'[r].dropped = req[r].dropped /\ req'[r].outcome = req[r].outcome
    BY <2>1 DEF Walks
  <2>4. (\A q \in Request : StepTrue(q))'
    BY <1>1, <2>1, <2>3 DEF SlotInv, StepTrue, ArcStep, CreatingStep
  <2>5. OwnersTrue'
    BY <1>1, <1>2, <2>3 DEF SlotInv, OwnersTrue, Alone
  <2>6. (\A q \in Request : LocksTrue(q))'
    BY <1>1, <1>2, <2>1, <2>3 DEF SlotInv, LocksTrue
  <2>7. StoredTrue'
    BY <1>1, <1>2, <2>3 DEF SlotInv, StoredTrue, StoredOf
  <2>8. DroppedEdit' <=> DroppedEdit
    BY <2>3 DEF DroppedEdit
  <2>9. RevisionsTrue'
    BY <1>1, <1>2, <2>1, <2>3, <2>8 DEF SlotInv, RevisionsTrue, RevisionsOf
  <2>10. FoundTrue'
    BY <1>1, <1>2, <2>3 DEF SlotInv, FoundTrue, FoundOf
  <2>11. ListTrue'
    <3>1. Making(r)'
      BY <2>3 DEF Making, Placing
    <3>2. \A q \in Request : ListOf(q) => ListOf(q)'
      BY <1>1, <1>2, <2>1, <2>3 DEF ListOf, Making, Placing
    <3>3. \A q \in Request : (Placing(q) => Placing(q)') /\ (TakingAway(q) => TakingAway(q)')
      BY <1>1, <2>3 DEF Placing, TakingAway
    <3> QED
      BY <1>1, <3>1, <3>2, <3>3 DEF SlotInv, ListTrue
  <2> QED
    BY <2>2, <2>4, <2>5, <2>6, <2>7, <2>9, <2>10, <2>11 DEF SlotInv
<1>3. ASSUME End(r, "invalid"), blobs' = FALSE \/ blobs' = blobs PROVE SlotInv'
  <2>1. "invalid" \in Outcome /\ blobs' \in BOOLEAN /\ disturbed' \in BOOLEAN /\ failures' \in 0 .. MaxFaults
    BY <1>1, <1>3 DEF SlotInv, SlotTypeOK, Rest, Outcome
  <2>2. Quits(r, "invalid")
    BY <1>3, <2>1, EndFacts DEF SlotInv
  <2>3. ListTrue'
    <3> SUFFICES ASSUME ~ disturbed PROVE ListTrue'
      BY <1>1 DEF ListTrue, Rest
    <3>1. /\ \A q \in Request : q # r => req'[q] = req[q]
          /\ req'[r].pc = "done" /\ req'[r].kind = req[r].kind /\ req'[r].dropped = req[r].dropped
          /\ req'[r].creating = req[r].creating
      BY <2>2 DEF Quits
    <3>2. ~ Making(r) /\ \A q \in Request : ~ Making(q)
      BY <1>1, OneMaker DEF Making, Placing
    <3>3. \A q \in Request : ~ Placing(q)
      BY <3>2 DEF Making
    <3>4. \A q \in Request : ListOf(q) => ListOf(q)'
      BY <1>1, <3>1, <3>2 DEF ListOf, Making, Placing
    <3>5. ~ stored /\ blobs \in BOOLEAN
      BY <1>1 DEF SlotInv, SlotTypeOK, ListTrue, ListOf
    <3>6. \A q \in Request : req[q].outcome # "none" => req'[q].outcome = req[q].outcome
      BY <1>1, <3>1
    <3>7. \A q \in Request : TakingAway(q) => TakingAway(q)'
      BY <1>1, <3>1 DEF TakingAway
    <3>8. blobs' = stored' \/ blobs' = blobs
      BY <1>1, <1>3, <3>5 DEF SlotInv, SlotTypeOK
    <3> QED
      BY <1>1, <3>2, <3>3, <3>4, <3>6, <3>7, <3>8 DEF SlotInv, ListTrue
  <2> QED
    BY <1>1, <1>3, <2>1, <2>3, SlotEndKeeps DEF SlotInv, Rest
<1> QED
  BY <1>2, <1>3 DEF Prepare

\* A creation that the storage refuses takes its files back.
LEMMA StoreRefusedKeeps ==
  ASSUME SlotInv, NEW r \in Request, req[r].pc = "store", NEW outcome \in Outcome, outcome # "none",
         blobs' = FALSE, End(r, outcome), UNCHANGED <<stored, index, Rest, failures>>
  PROVE  SlotInv'
<1>1. StepTrue(r) /\ req[r].kind = "create" /\ req[r].outcome = "none"
  BY DEF SlotInv, StepTrue
<1>2. blobs' \in BOOLEAN /\ disturbed' \in BOOLEAN /\ failures' \in 0 .. MaxFaults
  BY DEF SlotInv, SlotTypeOK, Rest
<1>3. Quits(r, outcome)
  BY EndFacts DEF SlotInv
<1>4. ListTrue'
  <2> SUFFICES ASSUME ~ disturbed PROVE ListTrue'
    BY DEF ListTrue, Rest
  <2>1. /\ \A q \in Request : q # r => req'[q] = req[q]
        /\ req'[r].pc = "done" /\ req'[r].kind = req[r].kind /\ req'[r].dropped = req[r].dropped
    BY <1>3 DEF Quits
  <2>2. \A q \in Request : Making(q) => q = r
    BY <1>1, OneMaker
  <2>3. \A q \in Request : ListOf(q) => ListOf(q)'
    BY <2>1, <2>2 DEF ListOf, Making, Placing
  <2>4. ~ stored
    BY DEF SlotInv, ListTrue, ListOf
  <2>5. \A q \in Request : TakingAway(q) => TakingAway(q)'
    BY <2>1 DEF TakingAway
  <2>6. \A q \in Request : ~ Placing(q)
    BY <1>1, <2>2 DEF Making, Placing, StepTrue, CreatingStep
  <2> QED
    BY <2>3, <2>4, <2>5, <2>6 DEF SlotInv, SlotTypeOK, ListTrue
<1> QED
  BY <1>2, <1>4, SlotEndKeeps DEF SlotInv, Rest

\* Session::create_initialized: the session is stored, and r alone has its slot.
LEMMA StoredKeeps ==
  ASSUME SlotInv, NEW r \in Request, req[r].pc = "store", slot.state = "none", ~ stored,
         Opened(r, 0), stored' = TRUE,
         req' = [req EXCEPT ![r] = [@ EXCEPT !.pc = "open", !.arc = TRUE, !.creating = TRUE]],
         UNCHANGED <<index, blobs, lock, Rest, failures>>
  PROVE  SlotInv'
<1> USE DEF Rest
<1>1. /\ req \in [Request -> Requests] /\ req[r] \in Requests /\ StepTrue(r)
      /\ req[r].kind = "create" /\ req[r].outcome = "none"
  BY DEF SlotInv, SlotTypeOK, StepTrue
<1>2. [req[r] EXCEPT !.pc = "open", !.arc = TRUE, !.creating = TRUE] \in Requests
  BY <1>1 DEF Requests, Step, GetStep
<1>3. /\ req' \in [Request -> Requests] /\ \A q \in Request : q # r => req'[q] = req[q]
      /\ req'[r].kind = req[r].kind /\ req'[r].match = req[r].match /\ req'[r].base = req[r].base
      /\ req'[r].pc = "open" /\ req'[r].arc /\ req'[r].creating
      /\ req'[r].dropped = req[r].dropped /\ req'[r].outcome = req[r].outcome
  BY <1>1, <1>2 DEF Requests
<1>4. /\ slot' \in [state : {"none", "held", "dropping"}, deleted : BOOLEAN, rev : Nat]
      /\ slot'.state = "held" /\ ~ slot'.deleted /\ slot'.rev = 0 /\ retired' = retired
  BY DEF Opened
<1>5. SlotTypeOK'
  BY <1>3, <1>4 DEF SlotInv, SlotTypeOK
<1>6. ~ cached /\ ~ worker /\ ~ retired /\ \A q \in Request : ~ req[q].arc
  BY DEF SlotInv, OwnersTrue
<1>7. \A q \in Request : req[q].pc \notin ArcStep
  BY <1>6 DEF SlotInv, StepTrue
<1>8. (\A q \in Request : StepTrue(q))'
  BY <1>1, <1>3 DEF SlotInv, StepTrue, ArcStep, CreatingStep
<1>9. OwnersTrue'
  BY <1>3, <1>4, <1>6 DEF OwnersTrue, Alone
<1>10. (\A q \in Request : LocksTrue(q))'
  BY <1>1, <1>3 DEF SlotInv, LocksTrue
<1>11. StoredTrue'
  BY <1>3, <1>4, <1>7 DEF SlotInv, StoredTrue, StoredOf, ArcStep
<1>12. RevisionsTrue'
  <2>1. DroppedEdit' <=> DroppedEdit
    BY <1>3 DEF DroppedEdit
  <2>2. \A q \in Request : RevisionsOf(q)'
    BY <1>3, <1>4, <1>7, <2>1 DEF SlotInv, RevisionsTrue, RevisionsOf, ArcStep
  <2> QED
    BY <1>3, <2>2 DEF RevisionsTrue
<1>13. FoundTrue'
  BY <1>3 DEF FoundTrue
<1>14. ListTrue'
  <2> SUFFICES ASSUME ~ disturbed PROVE ListTrue'
    BY DEF ListTrue
  <2>1. \A q \in Request : req'[q].outcome = req[q].outcome
    BY <1>3
  <2>2. Making(r)' /\ Placing(r)' /\ Making(r)
    BY <1>3 DEF Making, Placing
  <2>3. \A q \in Request : q # r => req[q].pc \notin {"prepare", "store"}
    BY <2>2, OneMaker DEF SlotInv, StepTrue
  <2>4. \A q \in Request : ListOf(q)'
    BY <1>3, <2>1, <2>2, <2>3 DEF SlotInv, ListTrue, ListOf, Making, Placing
  <2> QED
    BY <2>2, <2>4 DEF ListTrue
<1> QED
  BY <1>5, <1>8, <1>9, <1>10, <1>11, <1>12, <1>13, <1>14 DEF SlotInv

\* Session::create_initialized, whichever way it ends.
LEMMA StoreKeeps ==
  ASSUME SlotInv, NEW r \in Request, Store(r)
  PROVE  SlotInv'
<1>1. req[r].pc = "store" /\ UNCHANGED <<index, Rest, failures>>
  BY DEF Store, At
<1>2. ASSUME blobs' = FALSE, UNCHANGED stored,
             End(r, IF slot.state # "none" THEN "busy" ELSE "conflict")
      PROVE  SlotInv'
  BY <1>1, <1>2, StoreRefusedKeeps DEF Outcome
<1> QED
  BY <1>1, <1>2, StoredKeeps DEF Store

\* A creation whose slot did not open is taken back.
LEMMA RollbackKeeps ==
  ASSUME SlotInv, NEW r \in Request, Rollback(r)
  PROVE  SlotInv'
<1>1. /\ req[r].pc = "rollback" /\ End(r, "failed") /\ UNCHANGED <<cached, worker>> /\ StepTrue(r)
      /\ req[r].creating /\ req[r].kind = "create" /\ ~ req[r].arc /\ "failed" \in Outcome
      /\ req[r].outcome = "none"
  BY DEF Rollback, At, SlotInv, StepTrue, ArcStep, Outcome
<1>2. ASSUME disturbed' = TRUE, Works \/ Fails, UNCHANGED Files PROVE SlotInv'
  <2>1. failures' \in 0 .. MaxFaults
    BY <1>2, SlotAssumption DEF SlotInv, SlotTypeOK, Fails, Works
  <2> QED
    BY <1>1, <1>2, <2>1, EndKeepsList DEF Files
<1>3. ASSUME slot.state = "none", Works, UNCHANGED disturbed,
             stored' = FALSE, blobs' = FALSE, index' = [there |-> FALSE, rev |-> 0]
      PROVE  SlotInv'
  <2>1. /\ req' \in [Request -> Requests] /\ Quits(r, "failed")
        /\ lock' \in [Lock -> Request \cup {"free"}] /\ OthersLocks(r)
        /\ UNCHANGED <<slot, retired>>
    BY <1>1, EndFacts DEF SlotInv, End, LetGo
  <2>2. ~ index'.there /\ index' \in [there : BOOLEAN, rev : Nat]
    BY <1>3
  <2>3. SlotTypeOK'
    BY <1>1, <1>3, <2>1, <2>2 DEF SlotInv, SlotTypeOK, Works
  <2>4. /\ \A q \in Request : q # r => req'[q] = req[q]
        /\ req'[r].pc = "done" /\ ~ req'[r].arc /\ req'[r].creating
        /\ req'[r].kind = req[r].kind /\ req'[r].dropped = req[r].dropped
        /\ req'[r].outcome = "failed"
    BY <1>1, <2>1 DEF Quits
  <2>5. \A q \in Request : ~ req[q].arc
    BY <1>3 DEF SlotInv, OwnersTrue
  <2>6. \A q \in Request : req[q].pc \notin ArcStep
    BY <2>5 DEF SlotInv, StepTrue
  <2>7. (\A q \in Request : StepTrue(q))'
    BY <1>1, <2>4 DEF SlotInv, StepTrue, ArcStep, CreatingStep
  <2>8. OwnersTrue'
    BY <1>1, <1>3, <2>1, <2>4, <2>5 DEF SlotInv, OwnersTrue, Alone
  <2>9. (\A q \in Request : LocksTrue(q))'
    BY <2>1, <2>4 DEF SlotInv, LocksTrue, OthersLocks, Lock
  <2>10. StoredTrue'
    BY <1>3, <2>1, <2>4, <2>6 DEF SlotInv, StoredTrue, StoredOf, ArcStep
  <2>11. RevisionsTrue'
    <3>1. DroppedEdit => DroppedEdit'
      BY <1>1, <2>4 DEF DroppedEdit
    <3>2. \A q \in Request : RevisionsOf(q)'
      BY <2>2, <2>4, <2>6, <3>1 DEF SlotInv, RevisionsTrue, RevisionsOf, ArcStep
    <3> QED
      BY <2>2, <3>2 DEF RevisionsTrue
  <2>12. FoundTrue'
    BY <2>4 DEF FoundTrue
  <2>13. ListTrue'
    <3> SUFFICES ASSUME ~ disturbed PROVE ListTrue'
      BY <1>3 DEF ListTrue
    <3>1. \A q \in Request : Making(q) => q = r
      BY <1>1, OneMaker
    <3>2. \A q \in Request : ListOf(q) => ListOf(q)'
      BY <1>3, <2>4, <3>1 DEF ListOf, Making, Placing
    <3>3. index'.there = stored' /\ blobs' = stored'
      BY <1>3
    <3> QED
      BY <3>2, <3>3 DEF SlotInv, ListTrue
  <2> QED
    BY <2>3, <2>7, <2>8, <2>9, <2>10, <2>11, <2>12, <2>13 DEF SlotInv
<1> QED
  BY <1>1, <1>2, <1>3 DEF Rollback

\* The session is put into its folder, or taken back through its slot.
LEMMA PlaceInFolderKeeps ==
  ASSUME SlotInv, NEW r \in Request, Place(r)
  PROVE  SlotInv'
<1>1. /\ req[r].pc = "place" /\ ~ req[r].dropped /\ UNCHANGED <<Files, Held, Rest, failures>>
      /\ StepTrue(r) /\ req[r].creating
  BY DEF Place, At, Closure, Works, SlotInv, StepTrue
<1>2. ASSUME Acquire(r, "mutex", "erase") PROVE SlotInv'
  <2>1. "mutex" \in Lock /\ "erase" \in Step
    BY DEF Lock, Step
  <2> QED
    BY <1>1, <1>2, <2>1, TakeIsStep, TakeKeeps
<1>3. ASSUME Goes(r, "insert"), UNCHANGED lock PROVE SlotInv'
  <2>1. Steps(r, "place", "insert") /\ "place" \in Step /\ "insert" \in Step
    BY <1>1, <1>3 DEF Steps, SlotInv, SlotTypeOK, OthersLocks, Step, GetStep
  <2>2. StepTrue(r)' /\ SamePart(r) /\ LocksTrue(r)'
    BY <1>1, <1>3, <2>1, StepsFacts
       DEF StepTrue, SamePart, LocksTrue, Alone, Making, Placing, TakingAway, ArcStep, CreatingStep
  <2>3. StoredOf(r)' /\ RevisionsOf(r)' /\ FoundOf(r)'
    BY <1>1, <2>1, StepsFacts DEF StepTrue, StoredOf, RevisionsOf, FoundOf, Files, Held
  <2>4. disturbed \/ ListOf(r)'
    <3>1. (\E q \in Request : req[q].outcome = "deleted") => \E q \in Request : req'[q].outcome = "deleted"
      BY <2>1, StepsFacts DEF Walks
    <3> QED
      BY <2>1, <3>1, StepsFacts DEF ListOf, Making, Placing, Files
  <2> QED
    BY <2>1, <2>2, <2>3, <2>4, StepsFacts, WalkKeeps
<1> QED
  BY <1>2, <1>3 DEF Place

\* The future of a request goes, at any of its steps.
LEMMA DropRequestKeeps ==
  ASSUME SlotInv, NEW r \in Request, DropRequest(r)
  PROVE  SlotInv'
<1>1. /\ req[r].pc \notin {"none", "done"} /\ ~ req[r].dropped
      /\ disturbed' = (disturbed \/ req[r].kind \in {"create", "delete"})
      /\ UNCHANGED <<Files, cached, worker, failures>>
      /\ StepTrue(r) /\ disturbed' \in BOOLEAN /\ failures' \in 0 .. MaxFaults
      /\ (disturbed => disturbed')
  BY DEF DropRequest, SlotInv, SlotTypeOK
<1>2. ASSUME req[r].pc \notin Closure PROVE SlotInv'
  <2>1. End(r, "dropped") /\ "dropped" \in Outcome /\ req[r].pc # "mark"
    BY <1>2 DEF DropRequest, Outcome, Closure
  <2>2. disturbed' \/ (~ Making(r) /\ ~ TakingAway(r))
    BY <1>1 DEF StepTrue, Making, Placing, TakingAway
  <2> QED
    BY <1>1, <2>1, <2>2, EndKeepsList DEF Files
<1>3. ASSUME req[r].pc \in Closure PROVE SlotInv'
  <2> USE DEF Files, Held
  <2>1. /\ req' = [req EXCEPT ![r].dropped = TRUE] /\ lock' = Unlocked(r, Lock \ {"mutex"})
        /\ UNCHANGED Held
    BY <1>3 DEF DropRequest
  <2>2. req \in [Request -> Requests] /\ req[r] \in Requests
    BY DEF SlotInv, SlotTypeOK
  <2>3. [req[r] EXCEPT !.dropped = TRUE] \in Requests
    BY <2>2 DEF Requests
  <2>4. /\ req' \in [Request -> Requests] /\ \A q \in Request : q # r => req'[q] = req[q]
        /\ req'[r] = [req[r] EXCEPT !.dropped = TRUE]
    BY <2>1, <2>2, <2>3
  <2>5. /\ req'[r].kind = req[r].kind /\ req'[r].match = req[r].match /\ req'[r].base = req[r].base
        /\ req'[r].pc = req[r].pc /\ req'[r].arc = req[r].arc /\ req'[r].creating = req[r].creating
        /\ req'[r].dropped /\ req'[r].outcome = req[r].outcome /\ req'[r].seen = req[r].seen
    BY <2>2, <2>4 DEF Requests
  <2>6. lock' \in [Lock -> Request \cup {"free"}] /\ OthersLocks(r)
    BY <2>1, UnlockFacts DEF SlotInv
  <2>7. SlotTypeOK'
    BY <1>1, <2>1, <2>4, <2>6 DEF SlotInv, SlotTypeOK
  <2>8. (\A q \in Request : StepTrue(q))'
    <3>1. StepTrue(r)'
      BY <1>1, <2>5 DEF StepTrue
    <3>2. \A q \in Request : q # r => StepTrue(q)'
      BY <2>4 DEF SlotInv, StepTrue
    <3> QED
      BY <3>1, <3>2
  <2>9. OwnersTrue'
    BY <1>1, <2>1, <2>4, <2>5 DEF SlotInv, OwnersTrue, Alone
  <2>10. (\A q \in Request : LocksTrue(q))'
    <3>1. LocksTrue(r)'
      BY <2>5 DEF LocksTrue
    <3>2. \A q \in Request : q # r => LocksTrue(q)'
      BY <2>4, <2>6 DEF SlotInv, LocksTrue, OthersLocks, Lock
    <3> QED
      BY <3>1, <3>2
  <2>11. StoredTrue'
    BY <1>1, <2>1, <2>4, <2>5 DEF SlotInv, StoredTrue, StoredOf
  <2>12. RevisionsTrue'
    <3>1. DroppedEdit => DroppedEdit'
      BY <2>4, <2>5 DEF DroppedEdit
    <3>2. req[r].pc # "index"
      BY <1>3 DEF Closure
    <3> QED
      BY <1>1, <2>1, <2>4, <2>5, <3>1, <3>2 DEF SlotInv, RevisionsTrue, RevisionsOf
  <2>13. FoundTrue'
    BY <1>1, <2>1, <2>4, <2>5 DEF SlotInv, FoundTrue, FoundOf
  <2>14. ListTrue'
    <3>1. \A q \in Request : req'[q].outcome = req[q].outcome
      BY <2>4, <2>5
    <3>2. \A q \in Request : (Making(q)' <=> Making(q)) /\ (Placing(q)' <=> Placing(q))
                          /\ (TakingAway(q)' <=> TakingAway(q))
      BY <2>4, <2>5 DEF Making, Placing, TakingAway
    <3>3. disturbed' \/ \A q \in Request : ListOf(q) => ListOf(q)'
      BY <1>1, <2>4, <2>5, <3>1, <3>2 DEF ListOf
    <3> QED
      BY <1>1, <3>1, <3>2, <3>3 DEF SlotInv, ListTrue
  <2> QED
    BY <2>7, <2>8, <2>9, <2>10, <2>11, <2>12, <2>13, <2>14 DEF SlotInv
<1> QED
  BY <1>2, <1>3

\* What a closure hands to nobody is let go.
LEMMA AbandonKeeps ==
  ASSUME SlotInv, NEW r \in Request, Abandon(r)
  PROVE  SlotInv'
<1>1. /\ req[r].dropped /\ req[r].pc \notin Closure \cup {"done"} /\ End(r, "dropped")
      /\ UNCHANGED <<Files, Rest, failures>> /\ StepTrue(r)
      /\ disturbed' \in BOOLEAN /\ failures' \in 0 .. MaxFaults /\ "dropped" \in Outcome
  BY DEF Abandon, SlotInv, SlotTypeOK, Rest, Outcome
<1>2. req[r].pc \notin {"done", "none", "mark"}
  BY <1>1 DEF StepTrue, Closure
<1>3. disturbed' \/ (~ Making(r) /\ ~ TakingAway(r))
  BY <1>1 DEF SlotInv, ListTrue, ListOf, StepTrue, Making, Placing, TakingAway, Rest
<1> QED
  BY <1>1, <1>2, <1>3, EndKeepsList DEF Files, Rest

\* Nothing happens to a request: what its owners do to the slot is all.
LEMMA AroundKeeps ==
  ASSUME SlotInv, Released \/ WorkerUpgrades \/ WorkerEnds \/ Reap
  PROVE  SlotInv'
<1> USE DEF Files, Held, Rest
<1>1. UNCHANGED <<Files, disturbed, lock, req, failures>>
  BY DEF Released, WorkerUpgrades, WorkerEnds, Reap
<1>2. /\ slot \in [state : {"none", "held", "dropping"}, deleted : BOOLEAN, rev : Nat]
      /\ cached \in BOOLEAN /\ retired \in BOOLEAN /\ worker \in BOOLEAN /\ OwnersTrue
  BY DEF SlotInv, SlotTypeOK
<1> DEFINE Around ==
           /\ slot' \in [state : {"none", "held", "dropping"}, deleted : BOOLEAN, rev : Nat]
           /\ cached' \in BOOLEAN /\ retired' \in BOOLEAN /\ worker' \in BOOLEAN /\ OwnersTrue'
           /\ \/ slot' = slot
              \/ /\ slot'.state = "dropping" /\ slot'.deleted = slot.deleted
                 /\ slot'.rev = slot.rev
              \/ /\ slot' = NoSlot
           /\ slot' = slot \/ \A q \in Request : ~ req[q].arc
           /\ cached' => cached
           /\ cached /\ ~ cached' => \A q \in Request : req[q].pc # "load" /\ ~ req[q].arc
           /\ retired' => retired \/ cached
<1>3. ASSUME Released PROVE Around
  BY <1>1, <1>2, <1>3 DEF Released, OwnersTrue, NoSlot, Alone
<1>4. ASSUME WorkerUpgrades PROVE Around
  BY <1>1, <1>2, <1>4 DEF WorkerUpgrades, OwnersTrue, Alone
<1>5. ASSUME WorkerEnds PROVE Around
  BY <1>1, <1>2, <1>5 DEF WorkerEnds, OwnersTrue, Alone
<1>6. ASSUME Reap PROVE Around
  <2>1. /\ cached /\ ~ cached' /\ ~ worker /\ slot.state = "held"
        /\ \A q \in Request : ~ req[q].arc /\ req[q].pc # "load"
    BY <1>2, <1>6 DEF Reap, OwnersTrue
  <2>2. ASSUME slot' = NoSlot, retired' = FALSE, UNCHANGED worker PROVE Around
    BY <1>1, <1>2, <1>6, <2>1, <2>2 DEF Reap, OwnersTrue, NoSlot, Alone
  <2>3. ASSUME worker' = TRUE, retired' = TRUE, UNCHANGED slot PROVE Around
    BY <1>1, <1>2, <1>6, <2>1, <2>3 DEF Reap, OwnersTrue, Alone
  <2> QED
    BY <1>6, <2>2, <2>3 DEF Reap
<1>7. Around
  BY <1>3, <1>4, <1>5, <1>6
<1> HIDE DEF Around
<1>8. SlotTypeOK' /\ OwnersTrue'
  BY <1>1, <1>7 DEF Around, SlotInv, SlotTypeOK
<1>9. (\A q \in Request : StepTrue(q))' /\ (\A q \in Request : LocksTrue(q))'
  BY <1>1 DEF SlotInv, StepTrue, LocksTrue
<1>10. slot' = slot \/ \A q \in Request : req[q].pc \notin ArcStep
  BY <1>7 DEF Around, SlotInv, StepTrue
<1>11. StoredTrue'
  BY <1>1, <1>7, <1>10 DEF Around, SlotInv, StoredTrue, StoredOf, NoSlot, ArcStep
<1>12. RevisionsTrue'
  BY <1>1, <1>7, <1>10 DEF Around, SlotInv, RevisionsTrue, RevisionsOf, DroppedEdit, NoSlot, ArcStep
<1>13. FoundTrue'
  BY <1>1, <1>7, <1>10 DEF Around, SlotInv, FoundTrue, FoundOf, NoSlot, ArcStep
<1>14. ListTrue'
  BY <1>1 DEF SlotInv, ListTrue, ListOf, Making, Placing, TakingAway
<1> QED
  BY <1>8, <1>9, <1>11, <1>12, <1>13, <1>14 DEF SlotInv

\* Every step keeps the invariant.
LEMMA SlotStep ==
  ASSUME SlotInv, [SlotNext]_slot_vars
  PROVE  SlotInv'
<1>1. ASSUME UNCHANGED slot_vars PROVE SlotInv'
  BY <1>1 DEF slot_vars, SlotInv, SlotTypeOK, StepTrue, OwnersTrue, Alone, LocksTrue, StoredTrue,
     StoredOf, RevisionsTrue, RevisionsOf, DroppedEdit, FoundTrue, FoundOf, ListTrue, ListOf, Making,
     Placing, TakingAway
<1>2. ASSUME NEW r \in Request, Begin(r) \/ RequestStep(r) \/ DropRequest(r) PROVE SlotInv'
  <2>1. ASSUME Getting(r) PROVE SlotInv'
    BY <2>1, LookInCacheKeeps, TakingKeeps, ReviveKeeps, ReadIndexKeeps, LoadKeeps, OpenSlotKeeps,
       InsertInCacheKeeps DEF Getting
  <2>2. ASSUME Editing(r) PROVE SlotInv'
    BY <2>2, TakingKeeps, LockIdleKeeps, CheckRevisionKeeps, EditDescriptorKeeps, PersistIndexKeeps,
       SaveIndexKeeps DEF Editing
  <2>3. ASSUME Deleting(r) PROVE SlotInv'
    BY <2>3, QuiesceKeeps, EraseKeeps, MarkDeletedKeeps, UnlistKeeps, UncacheKeeps, RemoveFilesKeeps
       DEF Deleting
  <2>4. ASSUME Creating(r) PROVE SlotInv'
    BY <2>4, TakingKeeps, PrepareKeeps, StoreKeeps, RollbackKeeps, PlaceInFolderKeeps DEF Creating
  <2> QED
    BY <1>2, <2>1, <2>2, <2>3, <2>4, BeginKeeps, AbandonKeeps, DropRequestKeeps DEF RequestStep
<1> QED
  BY <1>1, <1>2, AroundKeeps DEF SlotNext

\* SlotInv holds of every state of the slot, for any number of requests and failures.
THEOREM SlotsSafe == SlotSpec => []SlotInv
  BY SlotStart, SlotStep, PTL DEF SlotSpec

\* Once nobody makes or deletes the session, row, storage and files agree.
LEMMA ListedIfSafe ==
  ASSUME SlotInv
  PROVE  ListedAsStored
<1> SUFFICES ASSUME ~ disturbed,
                    \A r \in Request : req[r].kind \in {"create", "delete"} => req[r].pc \in {"none", "done"}
             PROVE  /\ index.there = stored
                    /\ \/ blobs = stored
                       \/ \E q, r \in Request : req[q].outcome = "deleted" /\ req[r].outcome = "created"
  BY DEF ListedAsStored
<1>1. \A r \in Request : ~ TakingAway(r) /\ ~ Making(r) /\ ~ Placing(r)
  BY DEF SlotInv, StepTrue, TakingAway, Making, Placing
<1> QED
  BY <1>1 DEF SlotInv, ListTrue

\* A session is listed exactly if it is stored, whatever requests raced, failed or were dropped:
\* no late save of the row brings a deleted session back (mark_deleted), and a creation that fails
\* leaves nothing (create_session).
THEOREM ListedIsStored == SlotSpec => []ListedAsStored
  BY SlotsSafe, ListedIfSafe, PTL

\* A request that goes on is not answered.
LEMMA GoesUnanswered ==
  ASSUME SlotTypeOK, NEW r \in Request, NEW pc, Goes(r, pc), NEW q \in Request
  PROVE  req'[q].outcome = req[q].outcome
  BY DEF SlotTypeOK, Goes, Requests

\* An answer is the request's own.
LEMMA AnswerIs ==
  ASSUME SlotTypeOK, NEW r \in Request, NEW o, req' = [req EXCEPT ![r] = Ended(r, o)],
         NEW q \in Request, req'[q].outcome # req[q].outcome
  PROVE  q = r /\ req'[q].outcome = o
  BY DEF SlotTypeOK, Ended, Requests

\* Which steps tell a request that it edited the session, or that the session is open elsewhere.
LEMMA WhoAnswers ==
  ASSUME SlotInv, SlotNext, NEW q \in Request, req'[q].outcome # req[q].outcome
  PROVE  /\ req'[q].outcome = "edited" => EditDescriptor(q)
         /\ req'[q].outcome = "busy" => Load(q) \/ Store(q)
<1> DEFINE Other == req'[q].outcome \notin {"edited", "busy"}
<1>1. SlotTypeOK
  BY DEF SlotInv
<1>2. PICK r \in Request : Begin(r) \/ RequestStep(r) \/ DropRequest(r)
  BY DEF SlotNext, Released, WorkerUpgrades, WorkerEnds, Reap
<1>3. ASSUME NEW o \in Outcome \ {"edited", "busy"}, End(r, o) PROVE Other
  BY <1>1, <1>3, AnswerIs DEF End
<1>4. ASSUME Missing(r) PROVE Other
  BY <1>1, <1>3, <1>4, GoesUnanswered DEF Missing, Outcome
<1>5. ASSUME Got(r) PROVE Other
  <2>1. ASSUME req' = [req EXCEPT ![r] = [@ EXCEPT !.arc = TRUE, !.pc = Operation(req[r].kind)]]
        PROVE  Other
    BY <1>1, <2>1 DEF SlotTypeOK, Requests
  <2> QED
    BY <1>1, <1>5, <2>1, AnswerIs DEF Got
<1>6. ASSUME Begin(r) PROVE Other
  BY <1>1, <1>6 DEF Begin, SlotTypeOK, Requests
<1>7. ASSUME LookInCache(r) \/ TakeOpening(r) \/ Revive(r) PROVE Other
  BY <1>1, <1>4, <1>5, <1>7, GoesUnanswered DEF LookInCache, TakeOpening, Revive, Acquire
<1>8. ASSUME ReadIndex(r) PROVE Other
  <2>1. ASSUME req' = [req EXCEPT ![r] = [@ EXCEPT !.pc = "load", !.seen = index.rev]] PROVE Other
    BY <1>1, <2>1 DEF SlotTypeOK, Requests
  <2> QED
    BY <1>4, <1>8, <2>1 DEF ReadIndex
<1>9. ASSUME OpenSlot(r) PROVE Other
  <2>1. ASSUME OpenFails(r) PROVE Other
    <3>1. ASSUME req' = [req EXCEPT ![r] = [@ EXCEPT !.pc = "rollback", !.arc = FALSE]] PROVE Other
      BY <1>1, <3>1 DEF SlotTypeOK, Requests
    <3> QED
      BY <1>1, <2>1, <3>1, AnswerIs DEF OpenFails
  <2> QED
    BY <1>1, <1>9, <2>1, GoesUnanswered DEF OpenSlot
<1>10. ASSUME InsertInCache(r) PROVE Other
  BY <1>1, <1>5, <1>10, AnswerIs DEF InsertInCache
<1>11. ASSUME Load(r) PROVE Other \/ (q = r /\ req'[q].outcome = "busy")
  <2>1. ASSUME End(r, "busy") PROVE q = r /\ req'[q].outcome = "busy"
    BY <1>1, <2>1, AnswerIs DEF End
  <2>2. ASSUME req' = [req EXCEPT ![r] = [@ EXCEPT !.pc = "open", !.arc = TRUE]] PROVE Other
    BY <1>1, <2>2 DEF SlotTypeOK, Requests
  <2> QED
    BY <1>4, <1>11, <2>1, <2>2 DEF Load
<1>12. ASSUME TakeUpdate(r) \/ LockIdle(r) PROVE Other
  BY <1>1, <1>3, <1>12, GoesUnanswered DEF TakeUpdate, LockIdle, Acquire, Outcome
<1>13. ASSUME CheckRevision(r) PROVE Other
  <2>1. ASSUME req' = [req EXCEPT ![r] = [@ EXCEPT !.pc = "edit", !.match = {}]] PROVE Other
    BY <1>1, <2>1 DEF SlotTypeOK, Requests
  <2> QED
    BY <1>3, <1>13, <2>1 DEF CheckRevision, Outcome
<1>14. ASSUME EditDescriptor(r) PROVE Other \/ (q = r /\ req'[q].outcome = "edited")
  <2>1. ASSUME req' = [req EXCEPT ![r] = [Ended(r, "edited") EXCEPT !.seen = slot.rev + 1]]
        PROVE  q = r /\ req'[q].outcome = "edited"
    BY <1>1, <2>1 DEF SlotTypeOK, Ended, Requests
  <2> QED
    BY <1>3, <1>14, <2>1 DEF EditDescriptor, Outcome
<1>15. ASSUME PersistIndex(r) PROVE Other
  <2>1. ASSUME req' = [req EXCEPT ![r] = [@ EXCEPT !.pc = "save", !.seen = slot.rev]] PROVE Other
    BY <1>1, <2>1 DEF SlotTypeOK, Requests
  <2> QED
    BY <1>3, <1>15, <2>1 DEF PersistIndex, Outcome
<1>16. ASSUME SaveIndex(r) PROVE Other
  BY <1>3, <1>16 DEF SaveIndex, Outcome
<1>17. ASSUME Deleting(r) PROVE Other
  BY <1>1, <1>3, <1>17, GoesUnanswered
     DEF Deleting, Quiesce, Erase, MarkDeleted, Unlist, Uncache, RemoveFiles, Outcome
<1>18. ASSUME TakeCreation(r) \/ Prepare(r) \/ Rollback(r) \/ Place(r) PROVE Other
  BY <1>1, <1>3, <1>18, GoesUnanswered
     DEF TakeCreation, Prepare, Rollback, Place, Acquire, Outcome
<1>19. ASSUME Store(r) PROVE Other \/ (q = r /\ req'[q].outcome = "busy")
  <2>1. ASSUME NEW o \in {"busy", "conflict"}, End(r, o)
        PROVE  q = r /\ req'[q].outcome \in {"busy", "conflict"}
    BY <1>1, <2>1, AnswerIs DEF End
  <2>2. ASSUME req' = [req EXCEPT ![r] = [@ EXCEPT !.pc = "open", !.arc = TRUE, !.creating = TRUE]]
        PROVE  Other
    BY <1>1, <2>2 DEF SlotTypeOK, Requests
  <2> QED
    BY <1>19, <2>1, <2>2 DEF Store
<1>20. ASSUME Abandon(r) \/ DropRequest(r) PROVE Other
  <2>1. ASSUME req' = [req EXCEPT ![r].dropped = TRUE] PROVE Other
    BY <1>1, <2>1 DEF SlotTypeOK, Requests
  <2> QED
    BY <1>3, <1>20, <2>1 DEF Abandon, DropRequest, Outcome
<1> QED
  BY <1>2, <1>6, <1>7, <1>8, <1>9, <1>10, <1>11, <1>12, <1>13, <1>14, <1>15, <1>16, <1>17, <1>18,
     <1>19, <1>20 DEF RequestStep, Getting, Editing, Creating

\* The row only changes at the steps that write it.
LEMMA WhoWrites ==
  ASSUME SlotInv, SlotNext, index' # index
  PROVE  \E r \in Request :
           \/ OpenSlot(r) /\ req[r].pc = "index" /\ index' = [there |-> TRUE, rev |-> slot.rev]
              /\ req'[r].pc # "index"
           \/ EditDescriptor(r) /\ index' = [there |-> TRUE, rev |-> slot.rev + 1]
           \/ SaveIndex(r) /\ index' = [there |-> TRUE, rev |-> req[r].seen]
           \/ index' = [there |-> FALSE, rev |-> 0]
<1>1. PICK r \in Request : Begin(r) \/ RequestStep(r) \/ DropRequest(r)
  BY DEF SlotNext, Released, WorkerUpgrades, WorkerEnds, Reap, Files
<1> DEFINE Goal ==
           \/ OpenSlot(r) /\ req[r].pc = "index" /\ index' = [there |-> TRUE, rev |-> slot.rev]
              /\ req'[r].pc # "index"
           \/ EditDescriptor(r) /\ index' = [there |-> TRUE, rev |-> slot.rev + 1]
           \/ SaveIndex(r) /\ index' = [there |-> TRUE, rev |-> req[r].seen]
           \/ index' = [there |-> FALSE, rev |-> 0]
<1> SUFFICES Goal
  OBVIOUS
<1>2. ~ Begin(r) /\ ~ DropRequest(r) /\ ~ Abandon(r)
  BY DEF Begin, DropRequest, Abandon, Files
<1>3. ASSUME OpenSlot(r) PROVE Goal
  <2>1. /\ At(r, "index") /\ Goes(r, IF req[r].creating THEN "place" ELSE "insert")
        /\ index' = [there |-> TRUE, rev |-> slot.rev]
    BY <1>3 DEF OpenSlot, OpenFails, Files
  <2>2. Walks(r, IF req[r].creating THEN "place" ELSE "insert")
    BY <2>1, GoesFacts DEF SlotInv, Step, GetStep
  <2> QED
    BY <1>3, <2>1, <2>2 DEF Walks, At
<1>4. ASSUME Getting(r), ~ OpenSlot(r) PROVE FALSE
  BY <1>4 DEF Getting, LookInCache, TakeOpening, Revive, ReadIndex, Load, InsertInCache, Files
<1>5. ASSUME Editing(r) PROVE Goal
  BY <1>5 DEF Editing, TakeUpdate, LockIdle, CheckRevision, EditDescriptor, PersistIndex, SaveIndex, Files
<1>6. ASSUME Deleting(r) PROVE Goal
  BY <1>6 DEF Deleting, Quiesce, Erase, MarkDeleted, Unlist, Uncache, RemoveFiles, Files
<1>7. ASSUME Creating(r) PROVE Goal
  BY <1>7 DEF Creating, TakeCreation, Prepare, Store, Rollback, Place, Files
<1> QED
  BY <1>1, <1>2, <1>3, <1>4, <1>5, <1>6, <1>7 DEF RequestStep

\* No write of the row takes it back, but for a session made anew.
LEMMA RowGoesOn ==
  ASSUME SlotInv, SlotNext, index.there, index'.there
  PROVE  \/ index'.rev >= index.rev
         \/ \E r \in Request : req[r].creating /\ req[r].pc = "index" /\ req'[r].pc # "index"
<1>1. index.rev \in Nat /\ slot.rev \in Nat
  BY DEF SlotInv, SlotTypeOK
<1>2. ASSUME index' = index PROVE index'.rev >= index.rev
  BY <1>1, <1>2
<1>3. ASSUME NEW r \in Request, req[r].pc = "index", ~ req[r].creating,
             index' = [there |-> TRUE, rev |-> slot.rev]
      PROVE  index'.rev >= index.rev
  <2>1. /\ Alone(r) /\ slot.state = "held" /\ ~ slot.deleted /\ ~ req[r].dropped
        /\ \A q \in Request : q # r => ~ req[q].arc
    BY <1>3 DEF SlotInv, StepTrue, ArcStep, Alone, OwnersTrue, StoredTrue, StoredOf, RevisionsTrue,
       RevisionsOf
  <2>2. \A q \in Request : q # r => req[q].pc \notin {"open", "index"}
    BY <2>1 DEF SlotInv, StepTrue, ArcStep
  <2>3. index.rev <= slot.rev
    BY <1>3, <2>1, <2>2 DEF SlotInv, RevisionsTrue
  <2> QED
    BY <1>1, <1>3, <2>3
<1>4. ASSUME NEW r \in Request, req[r].pc \in {"edit", "save"}, ~ slot.deleted
      PROVE  index.rev <= slot.rev
  <2>1. req[r].arc /\ ~ Alone(r) /\ slot.state = "held"
    BY <1>4 DEF SlotInv, StepTrue, ArcStep, CreatingStep, Alone, OwnersTrue
  <2>2. \A q \in Request : req[q].pc \notin {"open", "index"}
    BY <2>1 DEF SlotInv, StepTrue, ArcStep, Alone, OwnersTrue
  <2> QED
    BY <1>4, <2>1, <2>2 DEF SlotInv, RevisionsTrue
<1>5. ASSUME NEW r \in Request, EditDescriptor(r), index' = [there |-> TRUE, rev |-> slot.rev + 1],
             index' # index
      PROVE  index'.rev >= index.rev
  <2>1. req[r].pc = "edit" /\ ~ slot.deleted
    BY <1>5 DEF EditDescriptor, At
  <2>2. index.rev <= slot.rev
    BY <1>4, <2>1
  <2> QED
    BY <1>1, <1>5, <2>2
<1>6. ASSUME NEW r \in Request, SaveIndex(r), index' = [there |-> TRUE, rev |-> req[r].seen]
      PROVE  index'.rev >= index.rev
  <2>1. req[r].pc = "save" /\ ~ slot.deleted /\ req[r].seen = slot.rev
    BY <1>6 DEF SaveIndex, At, SlotInv, RevisionsTrue, RevisionsOf
  <2>2. index.rev <= slot.rev
    BY <1>4, <2>1
  <2> QED
    BY <1>1, <1>6, <2>1, <2>2
<1> QED
  BY <1>2, <1>3, <1>5, <1>6, WhoWrites

\* An edit is of the revision its request named.
LEMMA EditIsOfBase ==
  ASSUME SlotInv, SlotNext, NEW r \in Request, req'[r].outcome = "edited",
         req[r].outcome # "edited", ~ req[r].dropped, ~ DroppedEdit
  PROVE  req[r].base \subseteq {slot.rev}
<1>1. EditDescriptor(r)
  BY WhoAnswers
<1>2. req[r].pc = "edit" /\ Matches(r)
  <2>1. SlotTypeOK
    BY DEF SlotInv
  <2>2. ASSUME NEW o \in {"not_found", "conflict", "failed"}, End(r, o) PROVE FALSE
    BY <2>1, <2>2, AnswerIs DEF End
  <2> QED
    BY <1>1, <2>2 DEF EditDescriptor, At
<1> QED
  BY <1>2 DEF SlotInv, RevisionsTrue, RevisionsOf, Matches

\* No step loses an edit.
LEMMA EditsStep ==
  ASSUME SlotInv, [SlotNext]_slot_vars
  PROVE  [/\ \/ ~ index.there \/ ~ index'.there \/ index'.rev >= index.rev
             \/ \E r \in Request : req[r].creating /\ req[r].pc = "index" /\ req'[r].pc # "index"
          /\ \A r \in Request :
               /\ req'[r].outcome = "edited" /\ req[r].outcome # "edited" /\ ~ req[r].dropped
               /\ ~ (\E q \in Request : req[q].outcome = "edited" /\ req[q].dropped)
               => req[r].base \subseteq {slot.rev}
         ]_slot_vars
  BY RowGoesOn, EditIsOfBase DEF DroppedEdit

\* An edit made against a revision follows that revision, and the row never goes back, for any
\* number of requests that edit, save, open and delete the session (edit_descriptor, update_idle).
THEOREM EditsAreKept == SlotSpec => EditsKept
<1>1. SlotInv /\ [SlotNext]_slot_vars =>
        [/\ \/ ~ index.there \/ ~ index'.there \/ index'.rev >= index.rev
            \/ \E r \in Request : req[r].creating /\ req[r].pc = "index" /\ req'[r].pc # "index"
         /\ \A r \in Request :
              /\ req'[r].outcome = "edited" /\ req[r].outcome # "edited" /\ ~ req[r].dropped
              /\ ~ (\E q \in Request : req[q].outcome = "edited" /\ req[q].dropped)
              => req[r].base \subseteq {slot.rev}
        ]_slot_vars
  BY EditsStep
<1> QED
  BY <1>1, SlotsSafe, PTL DEF SlotSpec, EditsKept

\* Who is told that the session is open elsewhere met its creation, its deletion, its last owner's
\* going or a dropped request.
LEMMA BusyWhy ==
  ASSUME SlotInv, SlotNext, NEW r \in Request, req'[r].outcome = "busy", req[r].outcome # "busy"
  PROVE  \/ req[r].dropped
         \/ slot.state = "dropping"
         \/ \E q \in Request \ {r} : req[q].creating \/ (req[q].arc /\ req[q].dropped)
         \/ slot.deleted
<1>1. Load(r) \/ Store(r)
  BY WhoAnswers
<1>2. /\ req[r].pc \in {"load", "store"} /\ slot.state # "none" /\ SlotTypeOK /\ StepTrue(r)
      /\ ~ req[r].creating /\ ~ req[r].arc
  <2>1. SlotTypeOK /\ StepTrue(r) /\ req[r].pc \in {"load", "store"}
    BY <1>1 DEF SlotInv, Load, Store, At
  <2>2. ASSUME slot.state = "none" PROVE FALSE
    <3>1. ASSUME NEW o \in {"not_found", "conflict"}, End(r, o) PROVE FALSE
      BY <2>1, <3>1, AnswerIs DEF End
    <3>2. ~ Missing(r)
      BY <2>1, <3>1, GoesUnanswered DEF Missing
    <3>3. ASSUME req' = [req EXCEPT ![r] = [@ EXCEPT !.pc = "open", !.arc = TRUE]]
          PROVE  FALSE
      BY <2>1, <3>3 DEF SlotTypeOK, Requests
    <3>4. ASSUME req' = [req EXCEPT ![r] = [@ EXCEPT !.pc = "open", !.arc = TRUE, !.creating = TRUE]]
          PROVE  FALSE
      BY <2>1, <3>4 DEF SlotTypeOK, Requests
    <3> QED
      BY <1>1, <2>2, <3>1, <3>2, <3>3, <3>4 DEF Load, Store
  <2> QED
    BY <2>1, <2>2 DEF StepTrue, ArcStep, CreatingStep
<1> SUFFICES ASSUME ~ req[r].dropped, slot.state = "held", ~ slot.deleted,
                    \A q \in Request \ {r} : ~ req[q].creating
             PROVE  \E q \in Request \ {r} : req[q].arc /\ req[q].dropped
  BY <1>2 DEF SlotTypeOK
<1>3. \A q \in Request : ~ req[q].creating
  BY <1>2
<1>4. FoundOf(r)
  BY <1>3 DEF SlotInv, FoundTrue
<1>5. req[r].pc = "load" /\ ~ cached /\ ~ retired
  BY <1>2, <1>4 DEF FoundOf
<1>6. PICK q \in Request : Alone(q)
  BY <1>5 DEF SlotInv, OwnersTrue
<1>7. q # r /\ req[q].arc /\ req[q].pc \in {"open", "index", "insert", "place"}
  BY <1>2, <1>3, <1>6 DEF Alone
<1>8. req[q].dropped
  BY <1>3, <1>5, <1>7 DEF SlotInv, LocksTrue, StepTrue
<1> QED
  BY <1>7, <1>8

\* A slot in use is found: nobody is told that the session is open elsewhere while it merely is in
\* use, for any number of requests and however the cache, its weak references and the workers of
\* the session come and go (reap_sessions, get_session).
THEOREM UsedSlotsAreFound == SlotSpec => FoundWhileHeld
<1>1. SlotInv /\ [SlotNext]_slot_vars =>
        [\A r \in Request :
           req'[r].outcome = "busy" /\ req[r].outcome # "busy" =>
             \/ req[r].dropped
             \/ slot.state = "dropping"
             \/ \E q \in Request \ {r} : req[q].creating \/ (req[q].arc /\ req[q].dropped)
             \/ slot.deleted
        ]_slot_vars
  BY BusyWhy
<1> QED
  BY <1>1, SlotsSafe, PTL DEF SlotSpec, FoundWhileHeld

-----------------------------------------------------------------------------
(* Drafts: the sums its quota is about. *)

\* The equation of the sum.
Adds(g, f, S) ==
  g = [s \in SUBSET S |-> IF s = {} THEN 0
                          ELSE f[CHOOSE x \in s : TRUE] + g[s \ {CHOOSE x \in s : TRUE}]]

\* There is such a function on the parts of a finite set.
LEMMA AddsExists ==
  ASSUME NEW f, NEW S, IsFiniteSet(S)
  PROVE  \E g : Adds(g, f, S)
<1> DEFINE one(s) == CHOOSE x \in s : TRUE
           Upto(g, n) == \A s \in SUBSET S : Cardinality(s) <= n =>
                           g[s] = IF s = {} THEN 0 ELSE f[one(s)] + g[s \ {one(s)}]
           Reach == {n \in Nat : \E g : Upto(g, n)}
<1>0. ASSUME NEW s \in SUBSET S
      PROVE  /\ Cardinality(s) \in Nat /\ IsFiniteSet(s)
             /\ s # {} => one(s) \in s /\ Cardinality(s \ {one(s)}) = Cardinality(s) - 1
             /\ Cardinality(s) <= 0 => s = {}
             /\ Cardinality({}) = 0
  <2>1. IsFiniteSet(s) /\ Cardinality(s) \in Nat
    BY FS_Subset, FS_CardinalityType
  <2>2. s # {} => one(s) \in s
    OBVIOUS
  <2>3. s # {} => Cardinality(s \ {one(s)}) = Cardinality(s) - 1
    <3> HIDE DEF one
    <3> QED BY <2>1, <2>2, FS_RemoveElement
  <2>4. Cardinality(s) <= 0 => s = {}
    BY <2>1, FS_EmptySet
  <2> QED BY <2>1, <2>2, <2>3, <2>4, FS_EmptySet
<1>1. 0 \in Reach
  <2> DEFINE g == [s \in SUBSET S |-> 0]
  <2>1. Upto(g, 0)
    BY <1>0
  <2> HIDE DEF g, Upto
  <2> QED BY <2>1
<1>2. ASSUME NEW n \in Reach PROVE n + 1 \in Reach
  <2>1. PICK g : Upto(g, n)
    BY <1>2
  <2> DEFINE h == [s \in SUBSET S |-> IF Cardinality(s) <= n THEN g[s]
                                     ELSE f[one(s)] + g[s \ {one(s)}]]
  <2>2. ASSUME NEW s \in SUBSET S, Cardinality(s) <= n + 1
        PROVE  h[s] = IF s = {} THEN 0 ELSE f[one(s)] + h[s \ {one(s)}]
    <3> HIDE DEF one
    <3>1. n \in Nat
      OBVIOUS
    <3>2. CASE s = {}
      <4>1. Cardinality(s) <= n
        BY <3>1, <3>2, FS_EmptySet
      <4> QED BY <2>1, <3>2, <4>1
    <3>3. CASE s # {}
      <4>1. one(s) \in s /\ Cardinality(s \ {one(s)}) = Cardinality(s) - 1 /\ Cardinality(s) \in Nat
        BY <1>0, <3>3
      <4>2. s \ {one(s)} \in SUBSET S /\ Cardinality(s \ {one(s)}) <= n
        BY <2>2, <3>1, <4>1
      <4>3. h[s \ {one(s)}] = g[s \ {one(s)}]
        BY <4>2
      <4>4. h[s] = f[one(s)] + g[s \ {one(s)}]
        BY <2>1, <3>3
      <4> QED BY <3>3, <4>3, <4>4
    <3> QED BY <3>2, <3>3
  <2>3. Upto(h, n + 1)
    BY <2>2
  <2>4. n + 1 \in Nat
    OBVIOUS
  <2> HIDE DEF h, Upto
  <2> QED BY <2>3, <2>4
<1>3. Reach = Nat
  <2>1. Reach \in SUBSET Nat
    OBVIOUS
  <2> HIDE DEF Reach
  <2> QED BY <1>1, <1>2, <2>1, Reached
<1>4. Cardinality(S) \in Reach
  BY <1>0, <1>3
<1>5. PICK g : Upto(g, Cardinality(S))
  BY <1>4
<1> DEFINE h == [s \in SUBSET S |-> g[s]]
<1>6. ASSUME NEW s \in SUBSET S
      PROVE  h[s] = IF s = {} THEN 0 ELSE f[one(s)] + h[s \ {one(s)}]
  <2>1. Cardinality(s) <= Cardinality(S)
    BY FS_Subset
  <2>2. g[s] = IF s = {} THEN 0 ELSE f[one(s)] + g[s \ {one(s)}]
    BY <1>5, <2>1
  <2> HIDE DEF one
  <2> QED BY <2>2
<1>7. h = [s \in SUBSET S |-> IF s = {} THEN 0 ELSE f[one(s)] + h[s \ {one(s)}]]
  <2> HIDE DEF one
  <2>1. h = [s \in SUBSET S |-> h[s]]
    OBVIOUS
  <2> HIDE DEF h
  <2> QED BY <1>6, <2>1
<1>8. Adds(h, f, S)
  BY <1>7 DEF Adds
<1> QED BY <1>8

\* A total is what it gives the whole set.
LEMMA TotalAdds ==
  ASSUME NEW f, NEW S, IsFiniteSet(S)
  PROVE  \E g : Adds(g, f, S) /\ Total(f, S) = g[S]
<1> DEFINE g == CHOOSE h : Adds(h, f, S)
<1>1. Adds(g, f, S)
  BY AddsExists
<1>2. Total(f, S) = g[S]
  BY DEF Total, MapThenSumSet, MapThenFoldSet, Adds
<1> QED BY <1>1, <1>2

\* Two sums of one function agree where both are defined.
LEMMA AddsAgree ==
  ASSUME NEW f, NEW S, IsFiniteSet(S), NEW T \in SUBSET S, NEW g, NEW h,
         Adds(g, f, S), Adds(h, f, T)
  PROVE  g[T] = h[T]
<1> DEFINE one(s) == CHOOSE x \in s : TRUE
           Reach == {n \in Nat : \A s \in SUBSET T : Cardinality(s) = n => g[s] = h[s]}
<1>1. ASSUME NEW s \in SUBSET T
      PROVE  /\ s # {} => one(s) \in s
             /\ g[s] = IF s = {} THEN 0 ELSE f[one(s)] + g[s \ {one(s)}]
             /\ h[s] = IF s = {} THEN 0 ELSE f[one(s)] + h[s \ {one(s)}]
  BY DEF Adds
<1> HIDE DEF one
<1>2. IsFiniteSet(T)
  BY FS_Subset
<1>3. 0 \in Reach
  <2>1. ASSUME NEW s \in SUBSET T, Cardinality(s) = 0 PROVE s = {}
    BY <1>2, <2>1, FS_Subset, FS_EmptySet
  <2> QED BY <1>1, <2>1
<1>4. ASSUME NEW n \in Reach PROVE n + 1 \in Reach
  <2>1. ASSUME NEW s \in SUBSET T, Cardinality(s) = n + 1 PROVE g[s] = h[s]
    <3>1. IsFiniteSet(s) /\ s # {}
      BY <1>2, <2>1, FS_Subset, FS_EmptySet
    <3>2. Cardinality(s \ {one(s)}) = Cardinality(s) - 1
      BY <1>1, <3>1, FS_RemoveElement
    <3>3. Cardinality(s \ {one(s)}) = n /\ s \ {one(s)} \in SUBSET T
      BY <2>1, <3>2
    <3>4. g[s \ {one(s)}] = h[s \ {one(s)}]
      BY <3>3
    <3> QED BY <1>1, <3>1, <3>4
  <2> QED BY <2>1
<1> HIDE DEF Reach
<1>5. Reach = Nat
  <2>1. Reach \in SUBSET Nat
    BY DEF Reach
  <2> QED BY <1>3, <1>4, <2>1, Reached
<1>6. Cardinality(T) \in Nat /\ T \in SUBSET T
  BY <1>2, FS_CardinalityType
<1> QED BY <1>5, <1>6 DEF Reach

\* Nothing adds up to nothing.
LEMMA TotalEmpty == ASSUME NEW f PROVE Total(f, {}) = 0
<1>1. PICK g : Adds(g, f, {}) /\ Total(f, {}) = g[{}]
  BY FS_EmptySet, TotalAdds
<1> QED BY <1>1 DEF Adds

\* One element is taken first.
LEMMA TotalOne ==
  ASSUME NEW f, NEW S, IsFiniteSet(S), S # {}
  PROVE  \E x \in S : Total(f, S) = f[x] + Total(f, S \ {x})
<1> DEFINE x == CHOOSE y \in S : TRUE
<1>1. PICK g : Adds(g, f, S) /\ Total(f, S) = g[S]
  BY TotalAdds
<1>2. IsFiniteSet(S \ {x})
  BY FS_Subset
<1>3. PICK h : Adds(h, f, S \ {x}) /\ Total(f, S \ {x}) = h[S \ {x}]
  BY <1>2, TotalAdds
<1>4. g[S] = f[x] + g[S \ {x}]
  BY <1>1 DEF Adds
<1>5. x \in S
  OBVIOUS
<1> HIDE DEF x
<1>6. S \ {x} \in SUBSET S
  OBVIOUS
<1>7. g[S \ {x}] = h[S \ {x}]
  BY <1>1, <1>3, <1>6, AddsAgree
<1> QED BY <1>1, <1>3, <1>4, <1>5, <1>7

\* A sum of numbers is a number.
LEMMA TotalType ==
  ASSUME NEW D, NEW f \in [D -> Nat], NEW S \in SUBSET D, IsFiniteSet(S)
  PROVE  Total(f, S) \in Nat
<1> DEFINE Reach == {n \in Nat : \A T \in SUBSET S : Cardinality(T) = n => Total(f, T) \in Nat}
<1>1. 0 \in Reach
  <2>1. ASSUME NEW T \in SUBSET S, Cardinality(T) = 0 PROVE T = {}
    BY <2>1, FS_Subset, FS_EmptySet
  <2> QED BY <2>1, TotalEmpty
<1>2. ASSUME NEW n \in Reach PROVE n + 1 \in Reach
  <2>1. ASSUME NEW T \in SUBSET S, Cardinality(T) = n + 1 PROVE Total(f, T) \in Nat
    <3>1. IsFiniteSet(T) /\ T # {}
      BY <2>1, FS_Subset, FS_EmptySet
    <3>2. PICK x \in T : Total(f, T) = f[x] + Total(f, T \ {x})
      BY <3>1, TotalOne
    <3>3. Cardinality(T \ {x}) = Cardinality(T) - 1
      BY <3>1, FS_RemoveElement
    <3>4. Cardinality(T \ {x}) = n /\ T \ {x} \in SUBSET S
      BY <2>1, <3>3
    <3>5. Total(f, T \ {x}) \in Nat /\ f[x] \in Nat
      BY <3>4
    <3> QED BY <3>2, <3>5
  <2> QED BY <2>1
<1> HIDE DEF Reach
<1>3. Reach = Nat
  <2>1. Reach \in SUBSET Nat
    BY DEF Reach
  <2> QED BY <1>1, <1>2, <2>1, Reached
<1>4. Cardinality(S) \in Nat /\ S \in SUBSET S
  BY FS_CardinalityType
<1> QED BY <1>3, <1>4 DEF Reach

\* Any element of a sum may be taken first.
LEMMA TotalAny ==
  ASSUME NEW D, NEW f \in [D -> Nat], NEW S \in SUBSET D, IsFiniteSet(S)
  PROVE  /\ Total(f, S) \in Nat
         /\ \A y \in S : Total(f, S) = f[y] + Total(f, S \ {y})
<1> DEFINE Fine(T) == /\ Total(f, T) \in Nat
                      /\ \A y \in T : Total(f, T) = f[y] + Total(f, T \ {y})
           Reach == {n \in Nat : \A T \in SUBSET S : Cardinality(T) = n => Fine(T)}
<1>1. 0 \in Reach
  <2>1. ASSUME NEW T \in SUBSET S, Cardinality(T) = 0 PROVE T = {}
    BY <2>1, FS_Subset, FS_EmptySet
  <2>2. Fine({})
    BY TotalEmpty
  <2> HIDE DEF Fine
  <2> QED BY <2>1, <2>2
<1>2. ASSUME NEW n \in Reach PROVE n + 1 \in Reach
  <2>1. ASSUME NEW T \in SUBSET S, Cardinality(T) = n + 1 PROVE Fine(T)
    <3>1. IsFiniteSet(T) /\ T # {}
      BY <2>1, FS_Subset, FS_EmptySet
    <3>2. ASSUME NEW y \in T PROVE Fine(T \ {y})
      <4>1. Cardinality(T \ {y}) = Cardinality(T) - 1
        BY <3>1, FS_RemoveElement
      <4>2. Cardinality(T \ {y}) = n /\ T \ {y} \in SUBSET S
        BY <2>1, <4>1
      <4> HIDE DEF Fine
      <4> QED BY <4>2
    <3>3. PICK x \in T : Total(f, T) = f[x] + Total(f, T \ {x})
      BY <3>1, TotalOne
    <3>4. Total(f, T \ {x}) \in Nat /\ f[x] \in Nat
      BY <3>2
    <3>5. ASSUME NEW y \in T PROVE Total(f, T) = f[y] + Total(f, T \ {y})
      <4>1. CASE y = x
        BY <3>3, <4>1
      <4>2. CASE y # x
        <5>1. y \in T \ {x} /\ x \in T \ {y} /\ (T \ {x}) \ {y} = (T \ {y}) \ {x}
          BY <4>2
        <5>2. /\ Total(f, T \ {x}) = f[y] + Total(f, (T \ {y}) \ {x})
              /\ Total(f, T \ {y}) = f[x] + Total(f, (T \ {y}) \ {x})
          BY <3>2, <5>1
        <5>3. IsFiniteSet(T \ {y}) /\ Total(f, T \ {y}) \in Nat
          BY <3>1, <3>2, FS_Subset
        <5>4. (T \ {y}) \ {x} \in SUBSET S /\ f[y] \in Nat
          OBVIOUS
        <5>5. IsFiniteSet((T \ {y}) \ {x}) /\ (T \ {y}) \ {x} \in SUBSET D
          BY <3>1, FS_Subset
        <5>6. Total(f, (T \ {y}) \ {x}) \in Nat
          BY <5>5, TotalType
        <5> QED BY <3>3, <3>4, <5>2, <5>4, <5>6
      <4> QED BY <4>1, <4>2
    <3>6. Total(f, T) \in Nat
      BY <3>3, <3>4
    <3> QED BY <3>5, <3>6
  <2> HIDE DEF Fine
  <2> QED BY <2>1
<1> HIDE DEF Reach
<1>3. Reach = Nat
  <2>1. Reach \in SUBSET Nat
    BY DEF Reach
  <2> QED BY <1>1, <1>2, <2>1, Reached
<1>4. Cardinality(S) \in Nat /\ S \in SUBSET S
  BY FS_CardinalityType
<1> QED BY <1>3, <1>4 DEF Reach

\* The sum over one element more.
LEMMA TotalMore ==
  ASSUME NEW D, NEW f \in [D -> Nat], NEW S \in SUBSET D, IsFiniteSet(S), NEW x \in D \ S
  PROVE  Total(f, S \cup {x}) = f[x] + Total(f, S)
<1>1. IsFiniteSet(S \cup {x}) /\ S \cup {x} \in SUBSET D /\ (S \cup {x}) \ {x} = S
  BY FS_AddElement
<1> QED BY <1>1, TotalAny

\* The sum grows with what is summed.
LEMMA TotalAtMost ==
  ASSUME NEW D, NEW f \in [D -> Nat], NEW g \in [D -> Nat], NEW S \in SUBSET D, IsFiniteSet(S),
         \A x \in S : f[x] <= g[x]
  PROVE  Total(f, S) <= Total(g, S)
<1> DEFINE Q == {T \in SUBSET S : Total(f, T) <= Total(g, T)}
<1>1. {} \in Q
  BY TotalEmpty
<1>2. ASSUME NEW T \in Q, NEW x \in S \ T PROVE T \cup {x} \in Q
  <2>1. IsFiniteSet(T) /\ T \in SUBSET D /\ x \in D \ T
    BY FS_Subset
  <2>2. Total(f, T) \in Nat /\ Total(g, T) \in Nat /\ f[x] \in Nat /\ g[x] \in Nat
    BY <2>1, TotalType
  <2>3. /\ Total(f, T \cup {x}) = f[x] + Total(f, T)
        /\ Total(g, T \cup {x}) = g[x] + Total(g, T)
    BY <2>1, TotalMore
  <2> QED BY <2>2, <2>3
<1> HIDE DEF Q
<1>3. S \in Q
  <2>1. Q \in SUBSET (SUBSET S)
    BY DEF Q
  <2> QED BY <1>1, <1>2, <2>1, BuiltUp
<1> QED BY <1>3 DEF Q

\* The sum over two sets apart.
LEMMA TotalApart ==
  ASSUME NEW D, NEW f \in [D -> Nat], NEW S \in SUBSET D, NEW U \in SUBSET D,
         IsFiniteSet(S), IsFiniteSet(U), S \cap U = {}
  PROVE  Total(f, S \cup U) = Total(f, S) + Total(f, U)
<1> DEFINE Q == {T \in SUBSET S : Total(f, T \cup U) = Total(f, T) + Total(f, U)}
<1>1. {} \in Q
  <2>1. {} \cup U = U /\ Total(f, U) \in Nat
    BY TotalType
  <2> QED BY <2>1, TotalEmpty
<1>2. ASSUME NEW T \in Q, NEW x \in S \ T PROVE T \cup {x} \in Q
  <2>1. /\ IsFiniteSet(T) /\ T \in SUBSET D /\ x \in D \ T
        /\ IsFiniteSet(T \cup U) /\ T \cup U \in SUBSET D /\ x \in D \ (T \cup U)
    BY FS_Subset, FS_Union
  <2>2. Total(f, T) \in Nat /\ Total(f, U) \in Nat /\ f[x] \in Nat
    BY <2>1, TotalType
  <2>3. /\ Total(f, T \cup {x}) = f[x] + Total(f, T)
        /\ Total(f, (T \cup U) \cup {x}) = f[x] + Total(f, T \cup U)
    <3>1. Total(f, T \cup {x}) = f[x] + Total(f, T)
      BY <2>1, TotalMore
    <3>2. Total(f, (T \cup U) \cup {x}) = f[x] + Total(f, T \cup U)
      BY <2>1, TotalMore
    <3> QED BY <3>1, <3>2
  <2>4. (T \cup {x}) \cup U = (T \cup U) \cup {x} /\ T \cup {x} \in SUBSET S
    OBVIOUS
  <2>5. Total(f, T \cup U) = Total(f, T) + Total(f, U)
    OBVIOUS
  <2>6. Total(f, (T \cup {x}) \cup U) = Total(f, (T \cup U) \cup {x})
    BY <2>4, Zenon
  <2>7. Total(f, (T \cup {x}) \cup U) = Total(f, T \cup {x}) + Total(f, U)
    BY <2>2, <2>3, <2>5, <2>6
  <2> QED BY <2>4, <2>7
<1> HIDE DEF Q
<1>3. S \in Q
  <2>1. Q \in SUBSET (SUBSET S)
    BY DEF Q
  <2> QED BY <1>1, <1>2, <2>1, BuiltUp
<1> QED BY <1>3 DEF Q

\* The sum depends on what is summed only.
LEMMA TotalSame ==
  ASSUME NEW D, NEW f \in [D -> Nat], NEW g \in [D -> Nat], NEW S \in SUBSET D, IsFiniteSet(S),
         \A x \in S : f[x] = g[x]
  PROVE  Total(f, S) = Total(g, S)
<1>1. Total(f, S) \in Nat /\ Total(g, S) \in Nat
  BY TotalType
<1>2. \A x \in S : f[x] <= g[x] /\ g[x] <= f[x]
  OBVIOUS
<1>3. Total(f, S) <= Total(g, S) /\ Total(g, S) <= Total(f, S)
  BY <1>2, TotalAtMost
<1> QED BY <1>1, <1>3

\* A sum of zeros.
LEMMA TotalZero ==
  ASSUME NEW D, NEW f \in [D -> Nat], NEW S \in SUBSET D, IsFiniteSet(S), \A x \in S : f[x] = 0
  PROVE  Total(f, S) = 0
<1> DEFINE Q == {T \in SUBSET S : Total(f, T) = 0}
<1>1. {} \in Q
  BY TotalEmpty
<1>2. ASSUME NEW T \in Q, NEW x \in S \ T PROVE T \cup {x} \in Q
  <2>1. IsFiniteSet(T) /\ T \in SUBSET D /\ x \in D \ T
    BY FS_Subset
  <2>2. Total(f, T \cup {x}) = f[x] + Total(f, T)
    BY <2>1, TotalMore
  <2> QED BY <2>2
<1> HIDE DEF Q
<1>3. S \in Q
  <2>1. Q \in SUBSET (SUBSET S)
    BY DEF Q
  <2> QED BY <1>1, <1>2, <2>1, BuiltUp
<1> QED BY <1>3 DEF Q

\* The sum of a part is at most the sum.
LEMMA TotalPart ==
  ASSUME NEW D, NEW f \in [D -> Nat], NEW S \in SUBSET D, IsFiniteSet(S), NEW T \in SUBSET S
  PROVE  Total(f, T) <= Total(f, S)
<1>1. IsFiniteSet(T) /\ IsFiniteSet(S \ T) /\ S = T \cup (S \ T)
  BY FS_Subset
<1>2. Total(f, T) \in Nat /\ Total(f, S \ T) \in Nat
  BY <1>1, TotalType
<1>3. Total(f, T \cup (S \ T)) = Total(f, T) + Total(f, S \ T)
  BY <1>1, TotalApart
<1>4. Total(f, S) = Total(f, T \cup (S \ T))
  BY <1>1, Zenon
<1> QED BY <1>2, <1>3, <1>4

\* What is counted twice adds up.
LEMMA TotalPlus ==
  ASSUME NEW D, NEW f \in [D -> Nat], NEW g \in [D -> Nat], NEW h \in [D -> Nat],
         NEW S \in SUBSET D, IsFiniteSet(S), \A x \in S : h[x] = f[x] + g[x]
  PROVE  Total(h, S) = Total(f, S) + Total(g, S)
<1> DEFINE Q == {T \in SUBSET S : Total(h, T) = Total(f, T) + Total(g, T)}
<1>1. {} \in Q
  BY TotalEmpty
<1>2. ASSUME NEW T \in Q, NEW x \in S \ T PROVE T \cup {x} \in Q
  <2>1. IsFiniteSet(T) /\ T \in SUBSET D /\ x \in D \ T
    BY FS_Subset
  <2>2. Total(f, T) \in Nat /\ Total(g, T) \in Nat /\ f[x] \in Nat /\ g[x] \in Nat
    BY <2>1, TotalType
  <2>3. Total(f, T \cup {x}) = f[x] + Total(f, T)
    BY <2>1, TotalMore
  <2>4. Total(g, T \cup {x}) = g[x] + Total(g, T)
    BY <2>1, TotalMore
  <2>5. Total(h, T \cup {x}) = h[x] + Total(h, T)
    BY <2>1, TotalMore
  <2> QED BY <2>2, <2>3, <2>4, <2>5
<1> HIDE DEF Q
<1>3. S \in Q
  <2>1. Q \in SUBSET (SUBSET S)
    BY DEF Q
  <2> QED BY <1>1, <1>2, <2>1, BuiltUp
<1> QED BY <1>3 DEF Q

\* What is counted for some and not for the others.
LEMMA TotalOnly ==
  ASSUME NEW D, NEW f \in [D -> Nat], NEW g \in [D -> Nat], NEW S \in SUBSET D, IsFiniteSet(S),
         NEW T \in SUBSET S, \A x \in T : g[x] = f[x], \A x \in S \ T : g[x] = 0
  PROVE  Total(g, S) = Total(f, T)
<1>1. IsFiniteSet(T) /\ IsFiniteSet(S \ T) /\ S = T \cup (S \ T)
  BY FS_Subset
<1>2. Total(g, S) = Total(g, T \cup (S \ T))
  BY <1>1, Zenon
<1>3. Total(g, T \cup (S \ T)) = Total(g, T) + Total(g, S \ T)
  BY <1>1, TotalApart
<1>4. Total(g, S \ T) = 0
  BY <1>1, TotalZero
<1>5. Total(g, T) = Total(f, T)
  BY <1>1, TotalSame
<1>6. Total(g, T) \in Nat
  BY <1>1, TotalType
<1> QED BY <1>2, <1>3, <1>4, <1>5, <1>6

-----------------------------------------------------------------------------
(* Drafts. *)

\* What a draft may come to hold: what it has, and what an upload to it may still write.
Saving(d) == \E u \in Upload : up[u].pc = "save" /\ d \in up[u].draft
Potential == [d \in Draft |-> disk[d] + (IF Saving(d) THEN reservation[d].bytes ELSE 0)]

\* What the inventory counts for it.
Reserved(d) == IF d \in Active THEN reservation[d].bytes ELSE 0
Charge == [d \in Draft |-> (IF d \in known THEN sizes[d] ELSE 0) + Reserved(d)]

Busy(u) == up[u].pc \notin {"none", "done"}
Writes(u) == up[u].pc \in {"save", "enter"}
Scanning == inventory = "reaper" \/ \E u \in Upload : up[u].pc = "scan"

\* An upload has one draft, which no other has; whoever is being admitted has the inventory.
UploadsTrue ==
  /\ \A u \in Upload : Busy(u) => \E d \in Draft : up[u].draft = {d}
  /\ \A u, v \in Upload : Busy(u) /\ Busy(v) /\ u # v => up[u].draft \cap up[v].draft = {}
  /\ \A u \in Upload : up[u].pc \in {"inspect", "scan", "admit"} => inventory = u

\* The reservations that are active are those of the uploads that write.
ReservationsTrue ==
  /\ \A u \in Upload : Writes(u) =>
       \A d \in up[u].draft :
         /\ d \in Active /\ d \notin adopted /\ d \in known
         /\ reservation[d].bytes = up[u].allowance + DescriptorBytes
  /\ \A d \in Active : \E u \in Upload : Writes(u) /\ d \in up[u].draft

\* An inspection leaves out what is reserved, and notices when a reservation ends under it.
ScanTrue ==
  Scanning =>
    /\ Active \subseteq skipped /\ known \subseteq skipped /\ ~ loaded
    /\ ~ dirty => skipped = Active
    /\ dirty /\ inventory # "reaper" => slipped

\* The inventory counts at least what the drafts may come to hold: always for those that are
\* written, and for all of them while it is up to date or an upload is admitted by it.
Counted ==
  /\ \A d \in Active : Potential[d] <= sizes[d] + reservation[d].bytes
  /\ (loaded /\ ~ dirty) \/ (\E u \in Upload : up[u].pc = "admit") =>
       \A d \in Draft \ adopted : Potential[d] <= Charge[d]

DraftsInv ==
  /\ DraftTypeOK /\ UploadsTrue /\ ReservationsTrue /\ ScanTrue
  /\ ~ slipped => Counted /\ Total(Potential, Draft \ adopted) <= MaxBytes

\* Both are numbers, and what a draft may come to hold is at least what it has.
LEMMA CountsType ==
  ASSUME DraftTypeOK
  PROVE  /\ Potential \in [Draft -> Nat] /\ Charge \in [Draft -> Nat]
         /\ \A d \in Draft : disk[d] <= Potential[d]
         /\ \A d \in Draft : ~ Saving(d) => Potential[d] = disk[d]
         /\ \A d \in Draft : Saving(d) => Potential[d] = disk[d] + reservation[d].bytes
  BY DEF DraftTypeOK, Potential, Charge, Reserved

\* The quota is kept of what the inventory counts.
LEMMA BytesCharged ==
  ASSUME DraftTypeOK
  PROVE  Total(Charge, Draft) = Bytes /\ Bytes \in Nat
<1> DEFINE entered == [d \in Draft |-> IF d \in known THEN sizes[d] ELSE 0]
           asked == [d \in Draft |-> reservation[d].bytes]
           held == [d \in Draft |-> Reserved(d)]
<1>1. /\ entered \in [Draft -> Nat] /\ asked \in [Draft -> Nat] /\ held \in [Draft -> Nat]
      /\ sizes \in [Draft -> Nat] /\ known \in SUBSET Draft /\ Active \in SUBSET Draft
      /\ Charge \in [Draft -> Nat] /\ IsFiniteSet(Draft) /\ Draft \in SUBSET Draft
  BY DraftAssumption DEF DraftTypeOK, Charge, Reserved, Active
<1>2. \A d \in Draft : Charge[d] = entered[d] + held[d]
  BY DEF Charge
<1>3. /\ \A d \in known : entered[d] = sizes[d]
      /\ \A d \in Draft \ known : entered[d] = 0
      /\ \A d \in Active : held[d] = asked[d]
      /\ \A d \in Draft \ Active : held[d] = 0
  BY <1>1 DEF Reserved
<1> HIDE DEF entered, held
<1>4. Total(Charge, Draft) = Total(entered, Draft) + Total(held, Draft)
  BY <1>1, <1>2, TotalPlus
<1>5. Total(entered, Draft) = Total(sizes, known)
  BY <1>1, <1>3, TotalOnly
<1>6. Total(held, Draft) = Total(asked, Active)
  <2> HIDE DEF asked
  <2> QED BY <1>1, <1>3, TotalOnly
<1>7. Total(Charge, Draft) \in Nat
  BY <1>1, TotalType
<1> QED BY <1>4, <1>5, <1>6, <1>7 DEF Bytes

\* No draft may come to hold more than before.
LEMMA NoMore ==
  ASSUME DraftTypeOK, DraftTypeOK', adopted \subseteq adopted',
         \A d \in Draft \ adopted' : Potential'[d] <= Potential[d],
         Total(Potential, Draft \ adopted) <= MaxBytes
  PROVE  Total(Potential', Draft \ adopted') <= MaxBytes
<1> DEFINE before == Potential
           after == Potential'
<1>1. before \in [Draft -> Nat] /\ after \in [Draft -> Nat]
  BY CountsType DEF DraftTypeOK, Potential, Saving
<1>2. /\ Draft \ adopted \in SUBSET Draft /\ Draft \ adopted' \in SUBSET (Draft \ adopted)
      /\ Draft \ adopted' \in SUBSET Draft
      /\ IsFiniteSet(Draft \ adopted) /\ IsFiniteSet(Draft \ adopted')
  BY DraftAssumption, FS_Subset
<1>3. \A d \in Draft \ adopted' : after[d] <= before[d]
  OBVIOUS
<1> HIDE DEF before, after
<1>4. Total(after, Draft \ adopted') <= Total(before, Draft \ adopted')
  BY <1>1, <1>2, <1>3, TotalAtMost
<1>5. Total(before, Draft \ adopted') <= Total(before, Draft \ adopted)
  BY <1>1, <1>2, TotalPart
<1>6. /\ Total(after, Draft \ adopted') \in Nat /\ Total(before, Draft \ adopted') \in Nat
      /\ Total(before, Draft \ adopted) \in Nat /\ MaxBytes \in Nat
  BY <1>1, <1>2, TotalType, DraftAssumption
<1>7. Total(before, Draft \ adopted) <= MaxBytes
  BY DEF before
<1>8. Total(after, Draft \ adopted') <= MaxBytes
  BY <1>4, <1>5, <1>6, <1>7
<1> QED BY <1>8 DEF after

\* No draft has anything.
LEMMA DraftsStart == ASSUME DraftInit PROVE DraftsInv
<1>1. DraftTypeOK
  BY DEF DraftInit, DraftTypeOK, NoReservation
<1>2. UploadsTrue /\ ReservationsTrue /\ ScanTrue
  BY DraftAssumption DEF DraftInit, UploadsTrue, ReservationsTrue, ScanTrue, Busy, Writes, Active, Scanning,
         NoReservation
<1>3. \A d \in Draft : Potential[d] = 0 /\ Potential[d] <= Charge[d] /\ d \notin Active
  BY DEF DraftInit, Potential, Charge, Saving, Reserved, Active, NoReservation
<1>4. Counted
  BY <1>3 DEF Counted, DraftInit, Active
<1>5. Total(Potential, Draft \ adopted) = 0
  <2>1. Potential \in [Draft -> Nat] /\ IsFiniteSet(Draft \ adopted) /\ Draft \ adopted \in SUBSET Draft
    BY <1>1, CountsType, DraftAssumption, FS_Subset
  <2> QED BY <1>3, <2>1, TotalZero
<1> QED BY <1>1, <1>2, <1>4, <1>5, DraftAssumption DEF DraftsInv

\* An upload takes the inventory: one that is up to date counts everything already.
LEMMA TakeInventoryKeeps ==
  ASSUME DraftsInv, NEW u \in Upload, TakeInventory(u)
  PROVE  DraftsInv'
<1> USE DEF DraftsInv
<1>1. PICK d \in Draft :
        /\ ~ Owned(d)
        /\ up' = [up EXCEPT ![u] = [@ EXCEPT !.draft = {d},
                                            !.pc = IF ~ loaded \/ dirty THEN "inspect" ELSE "admit"]]
  BY DEF TakeInventory
<1>2. /\ up[u].pc = "none" /\ inventory = "free" /\ inventory' = u
      /\ UNCHANGED <<disk, adopted, sizes, known, loaded, dirty, reservation, skipped, slipped>>
  BY DEF TakeInventory, UploadAt
<1>3. DraftTypeOK'
  BY <1>1, <1>2 DEF DraftTypeOK
<1>4. /\ up'[u].draft = {d} /\ up'[u].pc \in {"inspect", "admit"}
      /\ up'[u].pc = "admit" => loaded /\ ~ dirty
      /\ \A v \in Upload : v # u => up'[v] = up[v]
  BY <1>1, <1>2 DEF DraftTypeOK
<1>5. UploadsTrue'
  BY <1>1, <1>2, <1>4, DraftAssumption DEF UploadsTrue, Busy, Owned
<1>6. Active' = Active
  BY <1>2 DEF Active
<1>7. ReservationsTrue'
  BY <1>2, <1>4, <1>6 DEF ReservationsTrue, Writes
<1>8. ~ Scanning' /\ ScanTrue'
  BY <1>2, <1>4, DraftAssumption DEF ScanTrue, Scanning, UploadsTrue
<1>9. Potential' = Potential /\ Charge' = Charge
  <2>1. \A e \in Draft : Saving(e)' <=> Saving(e)
    BY <1>2, <1>4 DEF Saving
  <2> QED BY <1>2, <1>6, <2>1 DEF Potential, Charge, Reserved
<1>10. ~ slipped => Counted'
  <2>1. \A v \in Upload : up[v].pc # "admit"
    BY <1>2, DraftAssumption DEF UploadsTrue
  <2> QED BY <1>2, <1>4, <1>6, <1>9, <2>1 DEF Counted
<1> QED BY <1>2, <1>3, <1>5, <1>7, <1>8, <1>9, <1>10

\* An inspection begins, by the reaper or by an upload: what is reserved stays counted.
LEMMA InspectBeginsKeeps ==
  ASSUME DraftsInv, InspectBegins,
         \/ inventory = "free" /\ inventory' = "reaper" /\ UNCHANGED up
         \/ \E u \in Upload : UploadAt(u, "inspect") /\ UploadGoes(u, "scan") /\ UNCHANGED inventory
  PROVE  DraftsInv'
<1> USE DEF DraftsInv
<1>1. /\ loaded' = FALSE /\ dirty' = FALSE /\ known' = known \cap Active /\ skipped' = Active
      /\ reservation' = [d \in Draft |-> IF d \in Active THEN reservation[d] ELSE NoReservation]
      /\ UNCHANGED <<disk, adopted, sizes, slipped>>
  BY DEF InspectBegins
<1>2. DraftTypeOK'
  <2>1. /\ known' \subseteq Draft /\ skipped' \subseteq Draft
        /\ reservation' \in [Draft -> [state : {"none", "active", "over"}, bytes : Nat]]
    BY <1>1 DEF DraftTypeOK, NoReservation, Active
  <2>2. /\ inventory' \in Upload \cup {"free", "reaper"}
        /\ up' \in [Upload -> [draft : SUBSET Draft, allowance : Nat,
                              pc : {"none", "inspect", "scan", "admit", "save", "enter", "done"}]]
    BY DEF DraftTypeOK, UploadAt, UploadGoes
  <2>3. {loaded', dirty', slipped'} \subseteq BOOLEAN
    BY <1>1, Zenon DEF DraftTypeOK
  <2>4. disk' \in [Draft -> Nat] /\ sizes' \in [Draft -> Nat] /\ adopted' \subseteq Draft
    BY <1>1 DEF DraftTypeOK
  <2> QED BY <2>1, <2>2, <2>3, <2>4, Zenon DEF DraftTypeOK
<1>3. Active' = Active /\ \A d \in Active : reservation'[d] = reservation[d]
  BY <1>1 DEF Active, NoReservation, DraftTypeOK
<1>4. \A u \in Upload : /\ up'[u].draft = up[u].draft /\ up'[u].allowance = up[u].allowance
                        /\ \/ up'[u].pc = up[u].pc
                           \/ up[u].pc = "inspect" /\ up'[u].pc = "scan"
  BY DEF UploadAt, UploadGoes, DraftTypeOK
<1>5. inventory' = inventory \/ (inventory = "free" /\ UNCHANGED up)
  OBVIOUS
<1>6. UploadsTrue'
  <2>1. \A u \in Upload : Busy(u)' <=> Busy(u)
    BY <1>4 DEF Busy
  <2>2. \A u \in Upload : up'[u].pc \in {"inspect", "scan", "admit"} => inventory' = u
    BY <1>4, <1>5, DraftAssumption DEF UploadsTrue
  <2> QED BY <1>4, <2>1, <2>2 DEF UploadsTrue
<1>7. \A u \in Upload : Writes(u)' <=> Writes(u)
  BY <1>4 DEF Writes
<1>8. ReservationsTrue'
  BY <1>1, <1>3, <1>4, <1>7 DEF ReservationsTrue
<1>9. ScanTrue'
  BY <1>1, <1>3 DEF ScanTrue
<1>10. \A d \in Draft : Potential'[d] = Potential[d]
  <2>1. \A d \in Draft : Saving(d)' <=> Saving(d)
    BY <1>4 DEF Saving
  <2>2. \A d \in Draft : Saving(d) => d \in Active
    BY DEF Saving, ReservationsTrue, Writes
  <2> QED BY <1>1, <1>3, <2>1, <2>2 DEF Potential
<1>11. ~ slipped => Counted'
  <2>1. \A u \in Upload : up'[u].pc # "admit"
    BY <1>4, <1>5, DraftAssumption DEF UploadsTrue, UploadAt, UploadGoes, DraftTypeOK
  <2>2. Active \subseteq Draft
    BY DEF Active
  <2> QED BY <1>1, <1>3, <1>10, <2>1, <2>2 DEF Counted
<1>12. ~ slipped => Total(Potential', Draft \ adopted') <= MaxBytes
  <2>1. \A d \in Draft : Potential[d] \in Nat
    BY CountsType
  <2>2. \A d \in Draft \ adopted' : Potential'[d] <= Potential[d]
    BY <1>10, <2>1
  <2> QED BY <1>1, <1>2, <2>2, NoMore
<1> QED BY <1>1, <1>2, <1>6, <1>8, <1>9, <1>11, <1>12

\* An inspection ends: what was measured is counted as it is, what was too old is gone.
LEMMA InspectEndsKeeps ==
  ASSUME DraftsInv, NEW incoming, InspectEnds(incoming),
         \/ inventory = "reaper" /\ inventory' = "free" /\ UNCHANGED up
         \/ \E u \in Upload : UploadAt(u, "scan") /\ UploadGoes(u, "admit") /\ UNCHANGED inventory
  PROVE  DraftsInv'
<1> USE DEF DraftsInv
<1>1. PICK old \in SUBSET (Pending \ (skipped \cup incoming)) :
        /\ disk' = [d \in Draft |-> IF d \in old THEN 0 ELSE disk[d]]
        /\ sizes' = [d \in Draft |-> IF d \in Pending \ (skipped \cup old) THEN disk[d] ELSE sizes[d]]
        /\ known' = known \cup (Pending \ (skipped \cup old))
        /\ loaded' /\ UNCHANGED <<adopted, dirty, reservation, skipped, slipped>>
  BY DEF InspectEnds
<1>2. Scanning
  BY DEF Scanning, UploadAt
<1>3. Active \subseteq skipped /\ known \subseteq skipped /\ (~ dirty => skipped = Active)
  BY <1>2 DEF ScanTrue
<1>4. old \subseteq Draft /\ old \cap skipped = {} /\ Pending \subseteq Draft
  BY <1>1 DEF Pending
<1>5. DraftTypeOK'
  BY <1>1, <1>4 DEF DraftTypeOK, UploadAt, UploadGoes
<1>6. Active' = Active
  BY <1>1 DEF Active
<1>7. \A u \in Upload : /\ up'[u].draft = up[u].draft /\ up'[u].allowance = up[u].allowance
                        /\ \/ up'[u].pc = up[u].pc
                           \/ up[u].pc = "scan" /\ up'[u].pc = "admit"
  BY DEF UploadAt, UploadGoes, DraftTypeOK
<1>8. inventory' = inventory \/ (inventory = "reaper" /\ UNCHANGED up)
  OBVIOUS
<1>9. UploadsTrue'
  <2>1. \A u \in Upload : Busy(u)' <=> Busy(u)
    BY <1>7 DEF Busy
  <2>2. \A u \in Upload : up'[u].pc \in {"inspect", "scan", "admit"} => inventory' = u
    BY <1>7, <1>8, DraftAssumption DEF UploadsTrue
  <2> QED BY <1>7, <2>1, <2>2 DEF UploadsTrue
<1>10. \A u \in Upload : Writes(u)' <=> Writes(u)
  BY <1>7 DEF Writes
<1>11. ReservationsTrue'
  BY <1>1, <1>6, <1>7, <1>10 DEF ReservationsTrue
<1>12. ~ Scanning'
  BY <1>7, <1>8, DraftAssumption DEF Scanning, UploadsTrue, UploadAt, UploadGoes, DraftTypeOK
<1>13. \A d \in Draft : Saving(d)' <=> Saving(d)
  BY <1>7 DEF Saving
<1>14. \A d \in Draft : Saving(d) => d \in Active
  BY DEF Saving, ReservationsTrue, Writes
<1>15. \A d \in Draft : /\ Potential[d] \in Nat
                        /\ Potential'[d] = IF d \in old THEN 0 ELSE Potential[d]
  <2>1. ASSUME NEW d \in Draft
        PROVE  Potential'[d] = IF d \in old THEN 0 ELSE Potential[d]
    <3>1. CASE d \in old
      <4>1. ~ Saving(d) /\ disk'[d] = 0
        BY <1>1, <1>3, <1>4, <1>14, <3>1
      <4> QED BY <1>13, <3>1, <4>1 DEF Potential
    <3>2. CASE d \notin old
      BY <1>1, <1>13, <3>2 DEF Potential
    <3> QED BY <3>1, <3>2
  <2> QED BY <2>1, CountsType
<1>16. ~ slipped => Counted'
  <2> SUFFICES ASSUME ~ slipped PROVE Counted'
    OBVIOUS
  <2>1. \A d \in Active : d \notin old /\ sizes'[d] = sizes[d] /\ d \in Draft
    BY <1>1, <1>3, <1>4 DEF Active
  <2>2. \A d \in Active : Potential'[d] <= sizes'[d] + reservation'[d].bytes
    BY <1>1, <1>15, <2>1 DEF Counted
  <2>3. ASSUME (loaded' /\ ~ dirty') \/ \E u \in Upload : up'[u].pc = "admit"
        PROVE  ~ dirty
    <3>1. CASE inventory = "reaper"
      <4>1. \A u \in Upload : up'[u].pc # "admit"
        BY <1>7, <3>1, DraftAssumption DEF UploadsTrue
      <4> QED BY <1>1, <2>3, <4>1
    <3>2. CASE inventory # "reaper"
      BY <1>2, <3>2 DEF ScanTrue
    <3> QED BY <3>1, <3>2
  <2>4. ASSUME ~ dirty, NEW d \in Draft \ adopted' PROVE Potential'[d] <= Charge'[d]
    <3>1. Charge'[d] = (IF d \in known' THEN sizes'[d] ELSE 0) + (IF d \in Active THEN reservation[d].bytes ELSE 0)
      BY <1>1, <1>6 DEF Charge, Reserved
    <3>2. disk[d] \in Nat /\ sizes'[d] \in Nat /\ reservation[d].bytes \in Nat
      BY <1>1, <1>5 DEF DraftTypeOK
    <3>3. CASE d \in Active
      <4>1. d \in known
        BY <3>3 DEF ReservationsTrue
      <4>2. d \in known'
        BY <1>1, <4>1
      <4> QED BY <1>1, <2>2, <3>1, <3>3, <4>2
    <3>4. CASE d \notin Active
      <4>1. d \notin skipped /\ Potential[d] = disk[d]
        BY <1>3, <1>14, <2>4, <3>4, CountsType
      <4>2. CASE d \in old \/ disk[d] = 0
        BY <1>15, <3>1, <3>2, <3>4, <4>1, <4>2
      <4>3. CASE d \notin old /\ disk[d] # 0
        <5>1. d \in Pending \ (skipped \cup old)
          BY <1>1, <3>2, <4>1, <4>3 DEF Pending
        <5>2. d \in known' /\ sizes'[d] = disk[d]
          BY <1>1, <5>1
        <5> QED BY <1>15, <3>1, <3>2, <3>4, <4>1, <4>3, <5>2
      <4> QED BY <4>2, <4>3
    <3> QED BY <3>3, <3>4
  <2> QED BY <1>6, <2>2, <2>3, <2>4 DEF Counted
<1>17. ~ slipped => Total(Potential', Draft \ adopted') <= MaxBytes
  <2>1. \A d \in Draft \ adopted' : Potential'[d] <= Potential[d]
    BY <1>15
  <2> QED BY <1>1, <1>5, <2>1, NoMore
<1> QED BY <1>1, <1>5, <1>9, <1>11, <1>12, <1>16, <1>17 DEF ScanTrue

\* An upload is refused, or dropped before it is admitted.
LEMMA UploadRefusedKeeps ==
  ASSUME DraftsInv, NEW u \in Upload, UploadAt(u, "admit"), inventory' = "free",
         UploadGoes(u, "done"),
         UNCHANGED <<disk, adopted, sizes, known, loaded, dirty, reservation, skipped, slipped>>
  PROVE  DraftsInv'
<1> USE DEF DraftsInv
<1>1. DraftTypeOK'
  BY DEF DraftTypeOK, UploadGoes
<1>2. /\ up[u].pc = "admit" /\ up'[u].pc = "done" /\ inventory = u
      /\ \A v \in Upload : v # u => up'[v] = up[v]
  BY DEF DraftTypeOK, UploadGoes, UploadAt, UploadsTrue
<1>3. UploadsTrue'
  BY <1>2, DraftAssumption DEF UploadsTrue, Busy
<1>4. Active' = Active
  BY DEF Active
<1>5. ReservationsTrue'
  BY <1>2, <1>4 DEF ReservationsTrue, Writes
<1>6. ScanTrue'
  BY <1>2, DraftAssumption DEF ScanTrue, Scanning, UploadsTrue
<1>7. Potential' = Potential /\ Charge' = Charge
  <2>1. \A e \in Draft : Saving(e)' <=> Saving(e)
    BY <1>2 DEF Saving
  <2> QED BY <1>4, <2>1 DEF Potential, Charge, Reserved
<1>8. ~ slipped => Counted'
  BY <1>2, <1>4, <1>7 DEF Counted
<1> QED BY <1>1, <1>3, <1>5, <1>6, <1>7, <1>8

\* An upload is admitted: it may write what the quota has left, and that is reserved.
LEMMA AdmittedKeeps ==
  ASSUME DraftsInv, NEW u \in Upload, NEW d \in up[u].draft, NEW allowance,
         UploadAt(u, "admit"), inventory' = "free",
         d \notin adopted, Bytes + DescriptorBytes < MaxBytes,
         allowance = MinOf(MaxBytes - Bytes - DescriptorBytes, MaxUpload),
         up' = [up EXCEPT ![u] = [@ EXCEPT !.pc = "save", !.allowance = allowance]],
         reservation' = [reservation EXCEPT
                           ![d] = [state |-> "active", bytes |-> allowance + DescriptorBytes]],
         known' = known \cup {d}, sizes' = [sizes EXCEPT ![d] = IF d \in known THEN @ ELSE 0],
         UNCHANGED <<disk, adopted, loaded, dirty, skipped, slipped>>
  PROVE  DraftsInv'
<1> USE DEF DraftsInv
<1>1. Bytes \in Nat /\ Total(Charge, Draft) = Bytes
  BY BytesCharged
<1>2. {MaxBytes, MaxUpload, DescriptorBytes} \subseteq Nat
  BY DraftAssumption
<1>3. allowance \in Nat /\ Bytes + allowance + DescriptorBytes <= MaxBytes
  BY <1>1, <1>2 DEF MinOf
<1>4. up[u].draft = {d} /\ d \in Draft /\ up[u].pc = "admit" /\ inventory = u
  BY DEF UploadAt, UploadsTrue, Busy
<1>5. DraftTypeOK'
  <2>1. allowance + DescriptorBytes \in Nat
    BY <1>2, <1>3
  <2>2. reservation' \in [Draft -> [state : {"none", "active", "over"}, bytes : Nat]]
    BY <1>4, <2>1 DEF DraftTypeOK
  <2>3. up' \in [Upload -> [draft : SUBSET Draft, allowance : Nat,
                           pc : {"none", "inspect", "scan", "admit", "save", "enter", "done"}]]
    BY <1>3, <1>4 DEF DraftTypeOK
  <2> QED BY <1>4, <2>2, <2>3 DEF DraftTypeOK
<1>6. /\ up'[u].pc = "save" /\ up'[u].draft = {d} /\ up'[u].allowance = allowance
      /\ \A v \in Upload : v # u => up'[v] = up[v]
  BY <1>4 DEF DraftTypeOK
<1>7. \A v \in Upload : Writes(v) => v # u /\ d \notin up[v].draft
  BY <1>4 DEF UploadsTrue, Busy, Writes
<1>8. d \notin Active /\ Active' = Active \cup {d}
  BY <1>4, <1>7 DEF Active, ReservationsTrue, DraftTypeOK
<1>9. \A e \in Draft : e # d => reservation'[e] = reservation[e] /\ sizes'[e] = sizes[e]
  BY DEF DraftTypeOK
<1>10. reservation'[d].bytes = allowance + DescriptorBytes
  BY <1>4 DEF DraftTypeOK
<1>11. UploadsTrue'
  <2>1. \A v \in Upload : Busy(v)' <=> Busy(v)
    BY <1>4, <1>6 DEF Busy
  <2>2. \A v \in Upload : up'[v].draft = up[v].draft
    BY <1>4, <1>6
  <2>3. \A v \in Upload : up'[v].pc \in {"inspect", "scan", "admit"} => FALSE
    BY <1>4, <1>6 DEF UploadsTrue
  <2> QED BY <2>1, <2>2, <2>3 DEF UploadsTrue
<1>12. ReservationsTrue'
  <2>1. ASSUME NEW v \in Upload, Writes(v)', NEW e \in up'[v].draft
        PROVE  e \in Active' /\ e \notin adopted' /\ e \in known'
               /\ reservation'[e].bytes = up'[v].allowance + DescriptorBytes
    <3>1. CASE v = u
      BY <1>6, <1>8, <1>10, <3>1
    <3>2. CASE v # u
      <4>1. Writes(v) /\ up'[v] = up[v] /\ e # d
        BY <1>6, <1>7, <2>1, <3>2 DEF Writes
      <4>2. e \in Active /\ e \in Draft
        BY <2>1, <4>1 DEF ReservationsTrue, Active
      <4> QED BY <1>8, <1>9, <2>1, <4>1, <4>2 DEF ReservationsTrue
    <3> QED BY <3>1, <3>2
  <2>2. ASSUME NEW e \in Active' PROVE \E v \in Upload : Writes(v)' /\ e \in up'[v].draft
    <3>1. CASE e = d
      BY <1>6, <3>1 DEF Writes
    <3>2. CASE e # d
      <4>1. PICK v \in Upload : Writes(v) /\ e \in up[v].draft
        BY <1>8, <3>2 DEF ReservationsTrue
      <4> QED BY <1>6, <1>7, <4>1 DEF Writes
    <3> QED BY <3>1, <3>2
  <2> QED BY <2>1, <2>2 DEF ReservationsTrue
<1>13. ScanTrue'
  <2>1. ~ Scanning'
    BY <1>4, <1>6, DraftAssumption DEF Scanning, UploadsTrue
  <2> QED BY <2>1 DEF ScanTrue
<1>14. SUFFICES ASSUME ~ slipped
                PROVE  Counted' /\ Total(Potential', Draft \ adopted') <= MaxBytes
  BY <1>5, <1>11, <1>12, <1>13
<1>15. \A e \in Draft \ adopted : Potential[e] <= Charge[e]
  BY <1>4, <1>14 DEF Counted
<1>16. \A e \in Draft : e # d => (Saving(e)' <=> Saving(e))
  BY <1>4, <1>6 DEF Saving
<1>17. ~ Saving(d) /\ Saving(d)'
  BY <1>4, <1>6, <1>7 DEF Saving, Writes
<1>18. /\ Potential \in [Draft -> Nat] /\ Charge \in [Draft -> Nat]
       /\ Potential[d] = disk[d] /\ disk[d] \in Nat
       /\ Charge[d] = IF d \in known THEN sizes[d] ELSE 0
  BY <1>4, <1>8, <1>17, CountsType DEF Charge, Reserved, DraftTypeOK
<1>19. \A e \in Draft : e # d => Potential'[e] = Potential[e] /\ Charge'[e] = Charge[e]
  BY <1>8, <1>9, <1>16 DEF Potential, Charge, Reserved
<1>20. Potential'[d] = Potential[d] + (allowance + DescriptorBytes)
  BY <1>4, <1>10, <1>17, <1>18 DEF Potential
<1>21. sizes'[d] = Charge[d] /\ Charge'[d] = Charge[d] + (allowance + DescriptorBytes)
  <2>1. sizes'[d] = IF d \in known THEN sizes[d] ELSE 0
    BY <1>4 DEF DraftTypeOK
  <2> QED BY <1>4, <1>8, <1>10, <1>18, <2>1 DEF Charge, Reserved
<1>22. Counted'
  <2>1. ASSUME NEW e \in Active' PROVE Potential'[e] <= sizes'[e] + reservation'[e].bytes
    <3>1. CASE e = d
      BY <1>2, <1>3, <1>4, <1>10, <1>15, <1>18, <1>20, <1>21, <3>1
    <3>2. CASE e # d
      <4>1. e \in Active /\ e \in Draft
        BY <1>8, <3>2 DEF Active
      <4> QED BY <1>9, <1>14, <1>19, <3>2, <4>1 DEF Counted
    <3> QED BY <3>1, <3>2
  <2>2. ASSUME NEW e \in Draft \ adopted PROVE Potential'[e] <= Charge'[e]
    BY <1>2, <1>3, <1>15, <1>18, <1>19, <1>20, <1>21
  <2> QED BY <2>1, <2>2 DEF Counted
<1>23. Total(Potential', Draft \ adopted') <= MaxBytes
  <2> DEFINE pending == Draft \ adopted
             others == pending \ {d}
             after == Potential'
  <2>1. /\ pending \in SUBSET Draft /\ others \in SUBSET Draft /\ d \in pending
        /\ IsFiniteSet(pending) /\ IsFiniteSet(others) /\ IsFiniteSet(Draft)
        /\ others \in SUBSET pending
    BY <1>4, DraftAssumption, FS_Subset
  <2>2. after \in [Draft -> Nat]
    BY <1>5, CountsType DEF DraftTypeOK, Potential
  <2>3. after[d] = Potential[d] + (allowance + DescriptorBytes)
        /\ \A e \in others : after[e] = Potential[e]
    BY <1>19, <1>20, <2>1
  <2> HIDE DEF after, pending
  <2>4. Total(after, pending) = after[d] + Total(after, others)
    BY <2>1, <2>2, TotalAny
  <2>5. Total(Potential, pending) = Potential[d] + Total(Potential, others)
    BY <1>18, <2>1, TotalAny
  <2>6. Total(after, others) = Total(Potential, others)
    BY <1>18, <2>1, <2>2, <2>3, TotalSame
  <2>7. Total(Potential, pending) <= Total(Charge, pending)
    BY <1>15, <1>18, <2>1, TotalAtMost DEF pending
  <2>8. Total(Charge, pending) <= Total(Charge, Draft)
    BY <1>18, <2>1, TotalPart
  <2>9. /\ Total(Potential, others) \in Nat /\ Total(Potential, pending) \in Nat
        /\ Total(Charge, pending) \in Nat /\ Potential[d] \in Nat
    BY <1>18, <2>1, TotalType
  <2>10. Total(after, pending) = Total(Potential, pending) + (allowance + DescriptorBytes)
    BY <1>2, <1>3, <2>3, <2>4, <2>5, <2>6, <2>9
  <2>11. Total(after, pending) <= MaxBytes
    BY <1>1, <1>2, <1>3, <2>7, <2>8, <2>9, <2>10
  <2> QED BY <2>11 DEF after, pending
<1> QED BY <1>22, <1>23

\* The stream is written, within what is reserved for it.
LEMMA SaveKeeps ==
  ASSUME DraftsInv, NEW u \in Upload, Save(u)
  PROVE  DraftsInv'
<1> USE DEF DraftsInv
<1>1. PICK d \in up[u].draft, written \in 1 .. up[u].allowance :
        disk' = [disk EXCEPT ![d] = @ + written + DescriptorBytes]
  BY DEF Save
<1>2. /\ up[u].pc = "save" /\ UploadGoes(u, "enter")
      /\ UNCHANGED <<adopted, sizes, known, loaded, dirty, reservation, inventory, skipped, slipped>>
  BY DEF Save, UploadAt
<1>3. DescriptorBytes \in Nat /\ up[u].allowance \in Nat
  BY DraftAssumption DEF DraftTypeOK
<1>4. up[u].draft = {d} /\ d \in Draft /\ Writes(u)
  BY <1>1, <1>2 DEF UploadsTrue, Busy, Writes
<1>5. DraftTypeOK'
  <2>1. disk' \in [Draft -> Nat]
    BY <1>1, <1>3, <1>4 DEF DraftTypeOK
  <2> QED BY <1>2, <2>1 DEF DraftTypeOK, UploadGoes
<1>6. /\ up'[u].pc = "enter" /\ \A v \in Upload : up'[v].draft = up[v].draft /\ up'[v].allowance = up[v].allowance
      /\ \A v \in Upload : v # u => up'[v] = up[v]
  BY <1>2 DEF DraftTypeOK, UploadGoes
<1>7. UploadsTrue'
  <2>1. \A v \in Upload : Busy(v)' <=> Busy(v)
    BY <1>2, <1>6 DEF Busy
  <2> QED BY <1>2, <1>6, <2>1 DEF UploadsTrue
<1>8. Active' = Active /\ \A v \in Upload : Writes(v)' <=> Writes(v)
  BY <1>2, <1>6 DEF Active, Writes
<1>9. ReservationsTrue'
  BY <1>2, <1>6, <1>8 DEF ReservationsTrue
<1>10. ScanTrue'
  <2>1. Scanning' <=> Scanning
    BY <1>2, <1>6 DEF Scanning
  <2> QED BY <1>2, <1>8, <2>1 DEF ScanTrue
<1>11. Saving(d) /\ ~ Saving(d)' /\ \A e \in Draft : e # d => (Saving(e)' <=> Saving(e))
  <2>1. ~ Saving(d)'
    BY <1>2, <1>4, <1>6 DEF Saving, UploadsTrue, Busy
  <2> QED BY <1>2, <1>4, <1>6, <2>1 DEF Saving
<1>12. \A e \in Draft : Potential[e] \in Nat /\ Potential'[e] <= Potential[e]
  <2>1. Potential \in [Draft -> Nat] /\ Potential[d] = disk[d] + reservation[d].bytes
    BY <1>4, <1>11, CountsType
  <2>2. Potential'[d] = disk[d] + written + DescriptorBytes
    BY <1>1, <1>2, <1>3, <1>4, <1>11 DEF Potential, DraftTypeOK
  <2>3. reservation[d].bytes = up[u].allowance + DescriptorBytes /\ disk[d] \in Nat
    BY <1>4 DEF ReservationsTrue, DraftTypeOK
  <2>4. Potential'[d] <= Potential[d]
    BY <1>1, <1>3, <2>1, <2>2, <2>3
  <2>5. \A e \in Draft : e # d => Potential'[e] = Potential[e]
    BY <1>1, <1>2, <1>11 DEF Potential, DraftTypeOK
  <2> QED BY <2>1, <2>4, <2>5
<1>13. ~ slipped => Counted'
  <2>1. Charge' = Charge
    BY <1>2, <1>8 DEF Charge, Reserved
  <2>2. \A v \in Upload : up'[v].pc = "admit" => up[v].pc = "admit"
    BY <1>6
  <2>3. \A e \in Draft : /\ Charge[e] \in Nat /\ Potential'[e] \in Nat /\ Potential[e] \in Nat
                         /\ sizes[e] + reservation[e].bytes \in Nat
    <3>1. Charge \in [Draft -> Nat] /\ Potential \in [Draft -> Nat]
      BY CountsType
    <3>2. Potential' \in [Draft -> Nat]
      BY <1>5 DEF DraftTypeOK, Potential
    <3> QED BY <3>1, <3>2 DEF DraftTypeOK
  <2>4. Active \subseteq Draft
    BY DEF Active
  <2> QED BY <1>2, <1>8, <1>12, <2>1, <2>2, <2>3, <2>4 DEF Counted
<1>14. ~ slipped => Total(Potential', Draft \ adopted') <= MaxBytes
  BY <1>2, <1>5, <1>12, NoMore
<1> QED BY <1>2, <1>5, <1>7, <1>9, <1>10, <1>13, <1>14

\* The upload is entered, as large as it is, and its reservation taken back.
LEMMA EnterKeeps ==
  ASSUME DraftsInv, NEW u \in Upload, Enter(u)
  PROVE  DraftsInv'
<1> USE DEF DraftsInv
<1>1. PICK d \in up[u].draft :
        /\ sizes' = [sizes EXCEPT ![d] = disk[d]] /\ known' = known \cup {d}
        /\ reservation' = [reservation EXCEPT ![d] = NoReservation]
  BY DEF Enter
<1>2. /\ up[u].pc = "enter" /\ UploadGoes(u, "done") /\ inventory = "free"
      /\ UNCHANGED <<disk, adopted, loaded, dirty, inventory, skipped, slipped>>
  BY DEF Enter, UploadAt
<1>3. up[u].draft = {d} /\ d \in Draft /\ Writes(u) /\ d \in known
  BY <1>1, <1>2 DEF UploadsTrue, Busy, Writes, ReservationsTrue
<1>4. DraftTypeOK'
  <2>1. reservation' \in [Draft -> [state : {"none", "active", "over"}, bytes : Nat]]
        /\ sizes' \in [Draft -> Nat]
    BY <1>1, <1>3 DEF DraftTypeOK, NoReservation
  <2> QED BY <1>1, <1>2, <1>3, <2>1 DEF DraftTypeOK, UploadGoes
<1>5. /\ up'[u].pc = "done"
      /\ \A v \in Upload : up'[v].draft = up[v].draft /\ up'[v].allowance = up[v].allowance
      /\ \A v \in Upload : v # u => up'[v] = up[v]
  BY <1>2 DEF DraftTypeOK, UploadGoes
<1>6. UploadsTrue'
  <2>1. \A v \in Upload : Busy(v)' => Busy(v)
    BY <1>2, <1>5 DEF Busy
  <2> QED BY <1>2, <1>5, <2>1 DEF UploadsTrue
<1>7. /\ Active' = Active \ {d}
      /\ \A e \in Draft : e # d => reservation'[e] = reservation[e] /\ sizes'[e] = sizes[e]
      /\ sizes'[d] = disk[d] /\ reservation'[d].bytes = 0
  BY <1>1, <1>3 DEF Active, DraftTypeOK, NoReservation
<1>8. \A v \in Upload : (Writes(v)' <=> Writes(v) /\ v # u) /\ (Writes(v) /\ v # u => d \notin up[v].draft)
  BY <1>3, <1>5 DEF Writes, UploadsTrue, Busy
<1>9. ReservationsTrue'
  <2>1. ASSUME NEW v \in Upload, Writes(v)', NEW e \in up'[v].draft
        PROVE  e \in Active' /\ e \notin adopted' /\ e \in known'
               /\ reservation'[e].bytes = up'[v].allowance + DescriptorBytes
    <3>1. Writes(v) /\ v # u /\ e \in up[v].draft /\ e # d
      BY <1>5, <1>8, <2>1
    <3>2. e \in Active /\ e \in Draft
      BY <3>1 DEF ReservationsTrue, Active
    <3> QED BY <1>1, <1>2, <1>5, <1>7, <3>1, <3>2 DEF ReservationsTrue
  <2>2. ASSUME NEW e \in Active' PROVE \E v \in Upload : Writes(v)' /\ e \in up'[v].draft
    <3>1. PICK v \in Upload : Writes(v) /\ e \in up[v].draft
      BY <1>7, <2>2 DEF ReservationsTrue
    <3> QED BY <1>3, <1>5, <1>7, <1>8, <2>2, <3>1
  <2> QED BY <2>1, <2>2 DEF ReservationsTrue
<1>10. ScanTrue'
  <2>1. ~ Scanning'
    BY <1>2, <1>5, DraftAssumption DEF Scanning, UploadsTrue
  <2> QED BY <2>1 DEF ScanTrue
<1>11. \A e \in Draft : (Saving(e)' <=> Saving(e)) /\ ~ Saving(d)
  <2>1. \A v \in Upload : up'[v].pc = "save" <=> up[v].pc = "save"
    BY <1>2, <1>5
  <2>2. \A v \in Upload : up[v].pc = "save" => d \notin up[v].draft
    BY <1>2, <1>8 DEF Writes
  <2> QED BY <1>5, <2>1, <2>2 DEF Saving
<1>12. /\ Potential \in [Draft -> Nat] /\ Potential[d] = disk[d] /\ Potential' = Potential
  <2>1. Potential \in [Draft -> Nat] /\ Potential[d] = disk[d]
    BY <1>3, <1>11, CountsType
  <2>2. \A e \in Draft : Potential'[e] = Potential[e]
    BY <1>2, <1>7, <1>11 DEF Potential
  <2>3. Potential' = Potential
    BY <2>2 DEF Potential
  <2> QED BY <2>1, <2>3
<1>13. ~ slipped => Counted'
  <2> SUFFICES ASSUME ~ slipped PROVE Counted'
    OBVIOUS
  <2>1. \A e \in Active' : Potential'[e] <= sizes'[e] + reservation'[e].bytes
    <3>1. Active \subseteq Draft
      BY DEF Active
    <3> QED BY <1>7, <1>12, <3>1 DEF Counted
  <2>2. \A v \in Upload : up'[v].pc # "admit" /\ up[v].pc # "admit"
    BY <1>2, <1>5, DraftAssumption DEF UploadsTrue
  <2>3. ASSUME loaded, ~ dirty, NEW e \in Draft \ adopted PROVE Potential'[e] <= Charge'[e]
    <3>1. CASE e = d
      <4>1. Charge'[d] = disk[d] + 0
        BY <1>1, <1>3, <1>7 DEF Charge, Reserved
      <4> QED BY <1>3, <1>12, <3>1, <4>1
    <3>2. CASE e # d
      <4>1. Charge'[e] = Charge[e]
        BY <1>1, <1>7, <3>2 DEF Charge, Reserved
      <4> QED BY <1>12, <2>3, <4>1 DEF Counted
    <3> QED BY <3>1, <3>2
  <2> QED BY <1>2, <2>1, <2>2, <2>3 DEF Counted
<1> QED BY <1>2, <1>4, <1>6, <1>9, <1>10, <1>12, <1>13

\* An upload is dropped: its reservation is over, and the inventory out of date.
LEMMA DropUploadKeeps ==
  ASSUME DraftsInv, NEW u \in Upload, DropUpload(u)
  PROVE  DraftsInv'
<1> USE DEF DraftsInv
<1>1. /\ Writes(u) /\ dirty' = TRUE /\ UploadGoes(u, "done")
      /\ reservation' = [d \in Draft |-> IF d \in up[u].draft THEN [reservation[d] EXCEPT !.state = "over"]
                                                              ELSE reservation[d]]
      /\ slipped' = (slipped \/ \E v \in Upload : up[v].pc \in {"scan", "admit"})
      /\ UNCHANGED <<disk, adopted, sizes, known, loaded, inventory, skipped>>
  BY DEF DropUpload, Writes
<1>2. PICK d \in Draft : up[u].draft = {d}
  BY <1>1 DEF UploadsTrue, Busy, Writes
<1>3. DraftTypeOK'
  <2>1. reservation' \in [Draft -> [state : {"none", "active", "over"}, bytes : Nat]]
    BY <1>1 DEF DraftTypeOK
  <2>2. {loaded', dirty', slipped'} \subseteq BOOLEAN
    <3>1. slipped' \in BOOLEAN
      BY <1>1, Zenon DEF DraftTypeOK
    <3> QED BY <1>1, <3>1, Zenon DEF DraftTypeOK
  <2>3. up' \in [Upload -> [draft : SUBSET Draft, allowance : Nat,
                            pc : {"none", "inspect", "scan", "admit", "save", "enter", "done"}]]
    BY <1>1 DEF DraftTypeOK, UploadGoes
  <2>4. /\ disk' \in [Draft -> Nat] /\ sizes' \in [Draft -> Nat]
        /\ adopted' \subseteq Draft /\ known' \subseteq Draft /\ skipped' \subseteq Draft
        /\ inventory' \in Upload \cup {"free", "reaper"}
    BY <1>1, Zenon DEF DraftTypeOK
  <2> QED BY <2>1, <2>2, <2>3, <2>4, Zenon DEF DraftTypeOK
<1>4. /\ up'[u].pc = "done"
      /\ \A v \in Upload : up'[v].draft = up[v].draft /\ up'[v].allowance = up[v].allowance
      /\ \A v \in Upload : v # u => up'[v] = up[v]
  BY <1>1 DEF DraftTypeOK, UploadGoes
<1>5. UploadsTrue'
  <2>1. \A v \in Upload : Busy(v)' => Busy(v)
    BY <1>1, <1>4 DEF Busy, Writes
  <2> QED BY <1>1, <1>4, <2>1 DEF UploadsTrue
<1>6. /\ Active' = Active \ {d}
      /\ \A e \in Draft : e # d => reservation'[e] = reservation[e]
  BY <1>1, <1>2 DEF Active, DraftTypeOK
<1>7. \A v \in Upload : (Writes(v)' <=> Writes(v) /\ v # u) /\ (Writes(v) /\ v # u => d \notin up[v].draft)
  BY <1>1, <1>2, <1>4 DEF Writes, UploadsTrue, Busy
<1>8. ReservationsTrue'
  <2>1. ASSUME NEW v \in Upload, Writes(v)', NEW e \in up'[v].draft
        PROVE  e \in Active' /\ e \notin adopted' /\ e \in known'
               /\ reservation'[e].bytes = up'[v].allowance + DescriptorBytes
    <3>1. Writes(v) /\ v # u /\ e \in up[v].draft /\ e # d
      BY <1>4, <1>7, <2>1
    <3>2. e \in Active /\ e \in Draft
      BY <3>1 DEF ReservationsTrue, Active
    <3> QED BY <1>1, <1>4, <1>6, <3>1, <3>2 DEF ReservationsTrue
  <2>2. ASSUME NEW e \in Active' PROVE \E v \in Upload : Writes(v)' /\ e \in up'[v].draft
    <3>1. PICK v \in Upload : Writes(v) /\ e \in up[v].draft
      BY <1>6, <2>2 DEF ReservationsTrue
    <3> QED BY <1>2, <1>4, <1>6, <1>7, <2>2, <3>1
  <2> QED BY <2>1, <2>2 DEF ReservationsTrue
<1>9. ScanTrue'
  <2>1. Scanning' => Scanning /\ (inventory # "reaper" => slipped')
    BY <1>1, <1>4 DEF Scanning, Writes
  <2> QED BY <1>1, <1>6, <2>1 DEF ScanTrue
<1>10. \A e \in Draft : Potential[e] \in Nat /\ Potential'[e] <= Potential[e]
                        /\ (e # d => Potential'[e] = Potential[e])
  <2>1. \A e \in Draft : Saving(e)' => Saving(e) /\ e # d
    BY <1>4, <1>7 DEF Saving, Writes
  <2>2. \A e \in Draft : e # d => (Saving(e)' <=> Saving(e))
    BY <1>2, <1>4 DEF Saving
  <2>3. Potential \in [Draft -> Nat] /\ disk[d] <= Potential[d]
    BY CountsType
  <2>4. Potential'[d] = disk[d]
    BY <1>1, <2>1 DEF Potential, DraftTypeOK
  <2>5. \A e \in Draft : e # d => Potential'[e] = Potential[e]
    BY <1>1, <1>6, <2>2 DEF Potential
  <2> QED BY <2>3, <2>4, <2>5
<1>11. ~ slipped' => Counted'
  <2> SUFFICES ASSUME ~ slipped' PROVE Counted'
    OBVIOUS
  <2>1. ~ slipped /\ \A v \in Upload : up[v].pc # "admit"
    BY <1>1
  <2>2. \A v \in Upload : up'[v].pc # "admit"
    BY <1>4, <2>1
  <2>3. \A e \in Active' : Potential'[e] <= sizes'[e] + reservation'[e].bytes
    <3>1. Active \subseteq Draft
      BY DEF Active
    <3> QED BY <1>1, <1>6, <1>10, <2>1, <3>1 DEF Counted
  <2> QED BY <1>1, <2>2, <2>3 DEF Counted
<1>12. ~ slipped' => Total(Potential', Draft \ adopted') <= MaxBytes
  <2>1. ~ slipped' => ~ slipped
    BY <1>1
  <2> QED BY <1>1, <1>3, <1>10, <2>1, NoMore
<1> QED BY <1>3, <1>5, <1>8, <1>9, <1>11, <1>12

\* A draft becomes a session: it is no longer counted.
LEMMA AdoptKeeps ==
  ASSUME DraftsInv, NEW d \in Draft, Adopt(d)
  PROVE  DraftsInv'
<1> USE DEF DraftsInv
<1>1. /\ ~ Owned(d) /\ inventory = "free" /\ adopted' = adopted \cup {d} /\ known' = known \ {d}
      /\ UNCHANGED <<disk, sizes, loaded, dirty, reservation, inventory, skipped, up, slipped>>
  BY DEF Adopt
<1>2. DraftTypeOK' /\ UploadsTrue'
  BY <1>1 DEF DraftTypeOK, UploadsTrue, Busy
<1>3. d \notin Active /\ Active' = Active
  BY <1>1 DEF ReservationsTrue, Owned, Writes, Active
<1>4. ReservationsTrue'
  <2>1. \A v \in Upload : (Writes(v)' <=> Writes(v)) /\ (Writes(v) => d \notin up[v].draft)
    BY <1>1 DEF Writes, Owned
  <2> QED BY <1>1, <1>3, <2>1 DEF ReservationsTrue
<1>5. ScanTrue'
  <2>1. ~ Scanning'
    BY <1>1, DraftAssumption DEF Scanning, UploadsTrue
  <2> QED BY <2>1 DEF ScanTrue
<1>6. Potential' = Potential /\ \A e \in Draft : e # d => Charge'[e] = Charge[e]
  BY <1>1, <1>3 DEF Potential, Saving, Charge, Reserved
<1>7. ~ slipped => Counted'
  BY <1>1, <1>3, <1>6 DEF Counted
<1>8. ~ slipped => Total(Potential', Draft \ adopted') <= MaxBytes
  <2>1. \A e \in Draft : Potential[e] \in Nat
    BY CountsType
  <2>2. \A e \in Draft \ adopted' : Potential'[e] <= Potential[e]
    BY <1>6, <2>1
  <2> QED BY <1>1, <1>2, <2>2, NoMore
<1> QED BY <1>1, <1>2, <1>4, <1>5, <1>7, <1>8

\* Every step keeps the invariant.
LEMMA DraftsStep ==
  ASSUME DraftsInv, [DraftNext]_draft_vars
  PROVE  DraftsInv'
<1>1. ASSUME NEW u \in Upload, Admit(u) PROVE DraftsInv'
  <2>1. PICK d \in up[u].draft :
       \/ /\ UploadGoes(u, "done")
          /\ UNCHANGED <<known, sizes, reservation>>
       \/ /\ d \notin adopted
          /\ Bytes + DescriptorBytes < MaxBytes
          /\ LET allowance == MinOf(MaxBytes - Bytes - DescriptorBytes, MaxUpload)
             IN /\ up' = [up EXCEPT ![u] = [@ EXCEPT !.pc = "save", !.allowance = allowance]]
                /\ reservation' = [reservation EXCEPT
                     ![d] = [state |-> "active", bytes |-> allowance + DescriptorBytes]]
          /\ known' = known \cup {d}
          /\ sizes' = [sizes EXCEPT ![d] = IF d \in known THEN @ ELSE 0]
    BY <1>1 DEF Admit
  <2>2. /\ UploadAt(u, "admit") /\ inventory' = "free"
        /\ UNCHANGED <<disk, adopted, loaded, dirty, skipped, slipped>>
    BY <1>1 DEF Admit
  <2> QED BY <2>1, <2>2, UploadRefusedKeeps, AdmittedKeeps
<1>2. ASSUME NEW u \in Upload, Inspect(u) PROVE DraftsInv'
  BY <1>2, InspectBeginsKeeps, InspectEndsKeeps DEF Inspect
<1>3. CASE ReaperInspects
  BY <1>3, InspectBeginsKeeps, InspectEndsKeeps DEF ReaperInspects
<1>4. ASSUME NEW u \in Upload, DropAdmission(u) PROVE DraftsInv'
  BY <1>4, UploadRefusedKeeps DEF DropAdmission
<1>5. CASE UNCHANGED draft_vars
  BY <1>5 DEF draft_vars, DraftsInv, DraftTypeOK, UploadsTrue, ReservationsTrue, ScanTrue, Counted,
              Busy, Writes, Scanning, Active, Potential, Charge, Saving, Reserved
<1> QED
  BY <1>1, <1>2, <1>3, <1>4, <1>5, TakeInventoryKeeps, SaveKeeps, EnterKeeps, DropUploadKeeps,
     AdoptKeeps DEF DraftNext

\* What uploads and their remains may come to hold keeps the quota.
LEMMA DraftsBounded ==
  ASSUME DraftsInv
  PROVE  PendingBounded
<1>1. SUFFICES ASSUME ~ slipped PROVE Total(disk, Draft \ adopted) <= MaxBytes
  BY DEF PendingBounded
<1>2. /\ disk \in [Draft -> Nat] /\ Potential \in [Draft -> Nat]
      /\ \A d \in Draft : disk[d] <= Potential[d]
      /\ Draft \ adopted \in SUBSET Draft /\ IsFiniteSet(Draft \ adopted)
  BY CountsType, DraftAssumption, FS_Subset DEF DraftsInv, DraftTypeOK
<1>3. Total(disk, Draft \ adopted) <= Total(Potential, Draft \ adopted)
  BY <1>2, TotalAtMost
<1>4. /\ Total(disk, Draft \ adopted) \in Nat /\ Total(Potential, Draft \ adopted) \in Nat
      /\ MaxBytes \in Nat
  BY <1>2, TotalType, DraftAssumption
<1> QED BY <1>1, <1>3, <1>4 DEF DraftsInv

\* What is pending keeps the quota, for any number of drafts and uploads, of any size, that run
\* together, are cut off half way or are found by an inspection, unless an upload was dropped
\* during the very admission of another one (upload_stream, Reservation::drop, inspect).
THEOREM QuotaIsKept == DraftSpec => []PendingBounded
<1>1. DraftInit => DraftsInv
  BY DraftsStart
<1>2. DraftsInv /\ [DraftNext]_draft_vars => DraftsInv'
  BY DraftsStep
<1>3. DraftsInv => PendingBounded
  BY DraftsBounded
<1> QED BY <1>1, <1>2, <1>3, PTL DEF DraftSpec

-----------------------------------------------------------------------------
(* The application. *)

\* The parts' invariants, side by side.
ApplicationInv ==
  part \in Part /\ FoldersInv /\ GroupInv /\ FilesInv /\ SlotInv /\ DraftsInv /\ MigrationInv

\* A step of one part leaves the others where they are.
LEMMA ApplicationStep ==
  ASSUME ApplicationInv, [ApplicationNext]_app_vars
  PROVE  ApplicationInv'
<1>1. part' = part
  BY DEF ApplicationNext, app_vars
<1>2. [FolderNext]_folder_vars
  BY DEF ApplicationNext, app_vars
<1>3. [GroupNext]_group_vars
  BY DEF ApplicationNext, app_vars
<1>4. [FilesNext]_files_vars
  BY DEF ApplicationNext, app_vars
<1>5. [SlotNext]_slot_vars
  BY DEF ApplicationNext, app_vars
<1>6. [DraftNext]_draft_vars
  BY DEF ApplicationNext, app_vars
<1>7. [MigrationNext]_migration_vars
  BY DEF ApplicationNext, app_vars
<1>8. DraftsInv' /\ MigrationInv'
  BY <1>6, <1>7, DraftsStep, MigrationStepKeeps DEF ApplicationInv
<1> QED
  BY <1>1, <1>2, <1>3, <1>4, <1>5, <1>8, FoldersStep, GroupStep, FilesStep, SlotStep
     DEF ApplicationInv

\* In the application too, whichever part a behaviour is about: the list is a tree, posts are
\* delivered, files are true, what is listed is stored, uploads keep their quota, and the
\* directory that is served was migrated whole.
THEOREM ApplicationSafe ==
  ApplicationSpec => [](/\ ListIsATree /\ PostDelivered /\ FilesTrue /\ ListedAsStored
                        /\ PendingBounded /\ MigratedWhole)
<1>1. ApplicationInit => ApplicationInv
  BY FoldersStart, GroupStart, FilesStart, SlotStart, DraftsStart, MigrationStart, MigrationAssumption
     DEF ApplicationInit, ApplicationInv
<1>2. ApplicationInv /\ [ApplicationNext]_app_vars => ApplicationInv'
  BY ApplicationStep
<1>3. ApplicationInv => /\ ListIsATree /\ PostDelivered /\ FilesTrue /\ ListedAsStored
                        /\ PendingBounded /\ MigratedWhole
  BY GroupInvDelivers, ListedIfSafe, DraftsBounded, MigrationWhole
     DEF ApplicationInv, FoldersInv, FilesInv
<1> QED BY <1>1, <1>2, <1>3, PTL DEF ApplicationSpec

=============================================================================
