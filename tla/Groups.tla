-------------------------------- MODULE Groups ---------------------------------
(***************************************************************************)
(* Groups and the messages sessions send each other (application/groups.rs,*)
(* application/peer_commands.rs, storage/management/groups.rs).  A command *)
(* reads the group it names, works on what it read, and writes; sessions   *)
(* are deleted meanwhile.  What a message says, and the order of members,  *)
(* are left out; the user's requests are the commands of the author user.  *)
(***************************************************************************)
EXTENDS Naturals, FiniteSets, Sequences

CONSTANTS
  Peer,       \* the sessions
  Group,      \* the identifiers of groups
  Command     \* the commands under way; a post is known by its command

ASSUME GroupAssumption == Peer # {} /\ "user" \notin Peer

VARIABLES
  session,    \* of each session: live, erased (not found any more, still a member), gone
  group,      \* the records of the groups
  inbox,      \* the messages queued for each session
  cmd         \* the commands

group_vars == <<session, group, inbox, cmd>>

Author == Peer \cup {"user"}

CommandKind == {"send", "create", "add", "leave", "remove"}

NoGroup == [there |-> FALSE, members |-> {}, log |-> <<>>]

GroupTypeOK ==
  /\ session \in [Peer -> {"live", "erased", "gone"}]
  /\ \A g \in Group : /\ group[g].there \in BOOLEAN /\ group[g].members \subseteq Peer
                      /\ group[g].log \in Seq(Command)
  /\ \A p \in Peer : inbox[p] \in Seq(Command)
  /\ \A c \in Command :
       /\ cmd[c].kind \in CommandKind \cup {"none"}
       /\ cmd[c].pc \in {"none", "pair", "make", "gather", "append", "tell", "write", "ok", "failed"}
       /\ cmd[c].by \in Author /\ cmd[c].other \subseteq Peer /\ cmd[c].at \subseteq Group
       /\ cmd[c].view \subseteq Peer /\ cmd[c].targets \subseteq Peer

GroupInit ==
  /\ session = [p \in Peer |-> "live"]
  /\ \E g \in Group, members \in SUBSET Peer :
       group = [h \in Group |-> IF h = g THEN [NoGroup EXCEPT !.there = TRUE, !.members = members]
                                         ELSE NoGroup]
  /\ inbox = [p \in Peer |-> <<>>]
  /\ cmd = [c \in Command |->
              [kind |-> "none", pc |-> "none", by |-> "user", other |-> {}, at |-> {},
               view |-> {}, targets |-> {}]]

-----------------------------------------------------------------------------
(* What a command does first: the permission of its session, and the target it names. *)

Live(p) == session[p] = "live"

\* A command is answered; of a post, what it was about is kept.
Ends(c, outcome) ==
  cmd' = [cmd EXCEPT ![c] =
            [@ EXCEPT !.pc = outcome, !.targets = {}, !.other = {},
                      !.view = IF cmd[c].kind = "send" THEN cmd[c].view ELSE {},
                      !.at = IF cmd[c].kind = "send" THEN cmd[c].at ELSE {}]]

\* authorized: the user, or a session that is there and may manage sessions.
Authorized(who) == who # "user" => Live(who)

Refused(c) ==
  /\ cmd[c].pc = "none"
  /\ Ends(c, "failed")
  /\ UNCHANGED <<session, group, inbox>>

\* resolve finds a group: its record is what the rest of the command works on.  Only a member
\* sends or brings others in; leaving does not ask.
OnGroup(c) ==
  /\ cmd[c].pc = "none"
  /\ \E kind \in {"send", "add", "leave", "remove"}, who \in Author, g \in Group, p \in Peer :
       /\ Authorized(who)
       /\ group[g].there
       /\ kind \in {"send", "add"} => who \in group[g].members \cup {"user"}
       /\ kind = "leave" => who # "user"
       /\ kind = "remove" => who = "user"
       /\ kind = "add" => Live(p)
       /\ cmd' = [cmd EXCEPT ![c] =
            [@ EXCEPT !.kind = kind, !.at = {g}, !.view = group[g].members,
                      !.by = IF kind \in {"send", "leave"} THEN who ELSE cmd[c].by,
                      !.other = IF kind = "add" THEN {p} ELSE {},
                      !.pc = IF kind = "send" THEN "gather" ELSE "write"]]
  /\ UNCHANGED <<session, group, inbox>>

\* resolve finds a session, not the asking one.
OnSession(c) ==
  /\ cmd[c].pc = "none"
  /\ \E who, p \in Peer :
       /\ Authorized(who) /\ Live(p) /\ who # p
       /\ cmd' = [cmd EXCEPT ![c] =
            [@ EXCEPT !.kind = "send", !.by = who, !.other = {p}, !.pc = "pair"]]
  /\ UNCHANGED <<session, group, inbox>>

\* create_group_inner: the asking session and those it names.
OnNew(c) ==
  /\ cmd[c].pc = "none"
  /\ \E members \in SUBSET Peer :
       /\ \A p \in members : Live(p)
       /\ cmd' = [cmd EXCEPT ![c] =
            [@ EXCEPT !.kind = "create", !.other = members, !.pc = "make"]]
  /\ UNCHANGED <<session, group, inbox>>

-----------------------------------------------------------------------------
(* Records and members. *)

\* App::group_of_two: the group of exactly the two, if there is one.
FindPair(c) ==
  /\ cmd[c].pc = "pair"
  /\ LET two == cmd[c].other \cup {cmd[c].by}
         pairs == {g \in Group : group[g].there /\ group[g].members = two}
     IN IF pairs = {}
        THEN cmd' = [cmd EXCEPT ![c].pc = "make"]
        ELSE \E g \in pairs :
               cmd' = [cmd EXCEPT ![c] =
                         [@ EXCEPT !.at = {g}, !.view = group[g].members, !.pc = "gather"]]
  /\ UNCHANGED <<session, group, inbox>>

\* check_members, against the index: a session being deleted is still there until its row goes.
Listed(members) == \A p \in members : session[p] = "live"

\* App::create_group: the members as checked, kept under an identifier of its own.
CreateGroup(c) ==
  /\ cmd[c].pc = "make"
  /\ LET members == cmd[c].other \cup ({cmd[c].by} \ {"user"})
     IN \/ ~ Listed(members) /\ Ends(c, "failed") /\ UNCHANGED group
        \/ /\ Listed(members)
           /\ \E g \in Group :
                /\ ~ group[g].there /\ group[g].log = <<>>
                /\ \A d \in Command : g \notin cmd[d].at
                /\ group' = [group EXCEPT ![g] = [NoGroup EXCEPT !.there = TRUE,
                                                                !.members = members]]
                /\ cmd' = [cmd EXCEPT ![c] =
                     [@ EXCEPT !.at = {g}, !.view = members, !.other = {},
                               !.pc = IF cmd[c].kind = "send" THEN "gather" ELSE "ok"]]
  /\ UNCHANGED <<session, inbox>>

\* App::update_group with the members made from what was read, and App::delete_group.
WriteGroup(c) ==
  /\ cmd[c].pc = "write"
  /\ \E g \in cmd[c].at :
       \/ ~ group[g].there /\ Ends(c, "failed") /\ UNCHANGED group
       \/ /\ group[g].there /\ cmd[c].kind = "remove"
          /\ Ends(c, "ok")
          /\ group' = [group EXCEPT ![g] = NoGroup]
       \/ /\ group[g].there /\ cmd[c].kind \in {"add", "leave"}
          /\ LET members == IF cmd[c].kind = "add" THEN cmd[c].view \cup cmd[c].other
                                                   ELSE cmd[c].view \ {cmd[c].by}
             IN IF Listed(members)
                THEN Ends(c, "ok") /\ group' = [group EXCEPT ![g].members = members]
                ELSE Ends(c, "failed") /\ UNCHANGED group
  /\ UNCHANGED <<session, inbox>>

-----------------------------------------------------------------------------
(* App::post *)

\* Mutant: the author is told too.
GatherAll(c) ==
  /\ cmd[c].pc = "gather"
  /\ cmd' = [cmd EXCEPT ![c] =
       [@ EXCEPT !.targets = {p \in cmd[c].view : Live(p)}, !.pc = "append"]]
  /\ UNCHANGED <<session, group, inbox>>

\* Every other member that can be found.
Gather(c) ==
  /\ cmd[c].pc = "gather"
  /\ cmd' = [cmd EXCEPT ![c] =
       [@ EXCEPT !.targets = {p \in cmd[c].view \ {cmd[c].by} : Live(p)}, !.pc = "append"]]
  /\ UNCHANGED <<session, group, inbox>>

\* The transcript takes the message before anyone is told.  A group that was deleted meanwhile
\* has a transcript no one lists.
AppendMessage(c) ==
  /\ cmd[c].pc = "append"
  /\ group' = [g \in Group |-> IF g \in cmd[c].at THEN [group[g] EXCEPT !.log = Append(@, c)]
                                                  ELSE group[g]]
  /\ cmd' = [cmd EXCEPT ![c].pc = "tell"]
  /\ UNCHANGED <<session, inbox>>

\* The members are told one after the other; a queue that is gone ends the post.
Tell(c) ==
  /\ cmd[c].pc = "tell"
  /\ \/ cmd[c].targets = {} /\ Ends(c, "ok") /\ UNCHANGED inbox
     \/ \E p \in cmd[c].targets :
          IF Live(p)
          THEN /\ inbox' = [inbox EXCEPT ![p] = Append(@, c)]
               /\ cmd' = [cmd EXCEPT ![c].targets = @ \ {p}]
          ELSE Ends(c, "failed") /\ UNCHANGED inbox
  /\ UNCHANGED <<session, group>>

-----------------------------------------------------------------------------
(* A session is deleted: first it is not found any more, then it leaves its groups. *)

DeleteSession(p) ==
  /\ Live(p)
  /\ session' = [session EXCEPT ![p] = "erased"]
  /\ inbox' = [inbox EXCEPT ![p] = <<>>]
  /\ UNCHANGED <<group, cmd>>

LeaveGroups(p) ==
  /\ session[p] = "erased"
  /\ session' = [session EXCEPT ![p] = "gone"]
  /\ group' = [g \in Group |-> [group[g] EXCEPT !.members = @ \ {p}]]
  /\ UNCHANGED <<inbox, cmd>>

GroupNext ==
  \/ \E c \in Command :
       \/ Refused(c) \/ OnGroup(c) \/ OnSession(c) \/ OnNew(c) \/ FindPair(c) \/ CreateGroup(c)
       \/ WriteGroup(c) \/ Gather(c) \/ AppendMessage(c) \/ Tell(c)
  \/ \E p \in Peer : DeleteSession(p) \/ LeaveGroups(p)

GroupSpec == GroupInit /\ [][GroupNext]_group_vars

-----------------------------------------------------------------------------
(* Properties. *)

Copies(p, c) == Cardinality({i \in DOMAIN inbox[p] : inbox[p][i] = c})

\* A post that is acknowledged has reached every other member its sender saw that is still there,
\* once, and never its author; and nobody is told what its transcript does not have, unless the
\* group has been deleted (App::post).
PostDelivered ==
  \A c \in Command, p \in Peer :
    /\ Copies(p, c) <= 1
    /\ p = cmd[c].by => Copies(p, c) = 0
    /\ cmd[c].kind = "send" /\ cmd[c].pc = "ok" /\ Live(p)
         => (Copies(p, c) = 1 <=> p \in cmd[c].view \ {cmd[c].by})
    /\ Copies(p, c) > 0 =>
         \A g \in cmd[c].at : group[g].there => \E i \in DOMAIN group[g].log : group[g].log[i] = c

=============================================================================
