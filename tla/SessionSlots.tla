----------------------------- MODULE SessionSlots ------------------------------
(***************************************************************************)
(* One session as the application keeps it (application/app.rs,            *)
(* session.rs, session_edit.rs, session_creation.rs): its stored record,   *)
(* its row in the index, its files, and the open slot that requests share  *)
(* through the cache.  Requests open, edit, delete and create it, each one *)
(* holding the locks the code takes in the order it takes them, and the    *)
(* future of each may be dropped at an await, which leaves a closure that  *)
(* already runs on a blocking thread to its end.                           *)
(***************************************************************************)
EXTENDS Naturals

CONSTANTS
  Request,
  MaxFaults    \* how many writes fail

ASSUME SlotAssumption == MaxFaults \in Nat /\ {"free"} \cap Request = {}

VARIABLES
  stored,     \* the session's object is in the storage
  index,      \* its row of the index: whether it is there, and the revision it tells
  blobs,      \* its directory of files is there
  slot,       \* the open session: none, held, or dropping (no owner left, storage not yet told)
  cached,     \* App.sessions has the slot
  retired,    \* App.retired_sessions has a weak reference to the slot
  worker,     \* a worker of the session has upgraded its weak reference to the slot
  lock,       \* who holds the locks
  req,        \* the requests
  disturbed,  \* a creation or deletion was dropped, or failed half way
  failures    \* the failed writes so far

slot_vars ==
  <<stored, index, blobs, slot, cached, retired, worker, lock, req, disturbed, failures>>

\* rename stands for every edit under the update lock alone, publish for every change under the
\* session's mutex, touch for what needs neither.
Kind == {"rename", "update", "publish", "touch", "delete", "create"}

\* opening is the lock of get_session for this session, mutex the session's own.
Lock == {"opening", "creation", "update", "mutex"}

GetStep == {"look", "queue", "again", "revive", "read", "load", "open", "index", "insert"}
Step ==
  GetStep \cup
  {"none", "update_lock", "session_lock", "check", "edit", "persist", "save", "quiesce", "erase",
   "mark", "unlist", "uncache", "files", "creation_lock", "prepare", "store", "place",
   "rollback", "done"}

\* What runs on a blocking thread, and so to its end.
Closure ==
  {"read", "load", "edit", "persist", "save", "erase", "mark", "unlist", "store", "rollback"}

\* The revision an If-Match names, if there is one: a set of at most one.
IfMatch == SUBSET Nat

\* What a request is told: its answer, or the kind of its error.
Outcome ==
  {"none", "replayed", "conflict", "not_found", "busy", "failed", "created", "edited", "saved",
   "deleted", "invalid", "dropped"}

Requests ==
  [kind : Kind \cup {"none"}, pc : Step, arc : BOOLEAN, creating : BOOLEAN, dropped : BOOLEAN,
   match : IfMatch, base : IfMatch, seen : Nat, outcome : Outcome]

SlotTypeOK ==
  /\ stored \in BOOLEAN /\ blobs \in BOOLEAN /\ cached \in BOOLEAN /\ retired \in BOOLEAN
  /\ worker \in BOOLEAN /\ disturbed \in BOOLEAN
  /\ index \in [there : BOOLEAN, rev : Nat]
  /\ slot \in [state : {"none", "held", "dropping"}, deleted : BOOLEAN, rev : Nat]
  /\ lock \in [Lock -> Request \cup {"free"}]
  /\ req \in [Request -> Requests]
  /\ failures \in 0 .. MaxFaults

NoSlot == [state |-> "none", deleted |-> FALSE, rev |-> 0]

\* A session that is not open yet, or none.
SlotInit ==
  /\ stored \in BOOLEAN
  /\ index = [there |-> stored, rev |-> 0]
  /\ blobs = stored
  /\ slot = NoSlot
  /\ cached = FALSE /\ retired = FALSE /\ worker = FALSE /\ disturbed = FALSE
  /\ lock = [l \in Lock |-> "free"]
  /\ req = [r \in Request |->
              [kind |-> "none", pc |-> "none", arc |-> FALSE, creating |-> FALSE,
               dropped |-> FALSE, match |-> {}, base |-> {}, seen |-> 0,
               outcome |-> "none"]]
  /\ failures = 0

-----------------------------------------------------------------------------
(* References and locks. *)

\* The slot and its weak reference once r, the worker or the cache has let go of it.
Shared(r) == cached \/ worker \/ \E q \in Request \ {r} : req[q].arc

LetGo(r) ==
  IF req[r].arc /\ ~ Shared(r) /\ slot.state = "held"
  THEN slot' = [slot EXCEPT !.state = "dropping"] /\ retired' = FALSE
  ELSE UNCHANGED <<slot, retired>>

Unlocked(r, names) ==
  [l \in Lock |-> IF l \in names /\ lock[l] = r THEN "free" ELSE lock[l]]

\* The request is answered: its guards and its reference to the slot are dropped.
Ended(r, outcome) ==
  [req[r] EXCEPT !.pc = "done", !.arc = FALSE, !.outcome = outcome]

End(r, outcome) ==
  /\ req' = [req EXCEPT ![r] = Ended(r, outcome)]
  /\ lock' = Unlocked(r, Lock)
  /\ LetGo(r)

Goes(r, pc) == req' = [req EXCEPT ![r].pc = pc]

At(r, pc) == req[r].pc = pc /\ (req[r].dropped => pc \in Closure)

Acquire(r, name, pc) ==
  /\ lock[name] = "free"
  /\ lock' = [lock EXCEPT ![name] = r]
  /\ Goes(r, pc)

\* A write fails.
Fails == failures < MaxFaults /\ failures' = failures + 1
Works == UNCHANGED failures

\* What most steps leave alone.
Files == <<stored, index, blobs>>
Held == <<slot, retired>>
Rest == <<cached, worker, disturbed>>

-----------------------------------------------------------------------------
(* App::get_session *)

Begin(r) ==
  /\ At(r, "none")
  /\ \E kind \in Kind, match \in {{}, {index.rev}} :
       /\ match # {} => kind \in {"rename", "update"} /\ index.there
       /\ req' = [req EXCEPT
            ![r] = [@ EXCEPT !.kind = kind, !.match = match, !.base = match,
                             !.pc = IF kind = "create" THEN "creation_lock" ELSE "look"]]
  /\ UNCHANGED <<Files, Held, Rest, lock, failures>>

\* What the request does with the session it got: a creation that finds one answers with it, or
\* with a conflict if it was made from other input.
Operation(kind) ==
  [rename |-> "update_lock", update |-> "update_lock", publish |-> "session_lock",
   touch |-> "persist", delete |-> "session_lock"][kind]

Got(r) ==
  \/ /\ req[r].kind = "create"
     /\ \E outcome \in {"replayed", "conflict"} :
          req' = [req EXCEPT ![r] = Ended(r, outcome)]
     /\ lock' = Unlocked(r, Lock)
  \/ /\ req[r].kind # "create"
     /\ req' = [req EXCEPT ![r] = [@ EXCEPT !.arc = TRUE, !.pc = Operation(req[r].kind)]]
     /\ lock' = Unlocked(r, {"opening"})

\* Nothing to get: a creation goes on.
Missing(r) ==
  IF req[r].kind = "create"
  THEN Goes(r, "prepare") /\ lock' = Unlocked(r, {"opening"}) /\ UNCHANGED Held
  ELSE End(r, "not_found")

\* The cache is looked at without the opening lock, and again with it.
LookInCache(r) ==
  /\ \/ At(r, "look") \/ At(r, "again")
  /\ IF cached
     THEN IF slot.deleted THEN Missing(r) ELSE Got(r) /\ UNCHANGED Held
     ELSE Goes(r, IF req[r].pc = "look" THEN "queue" ELSE "revive") /\ UNCHANGED <<lock, Held>>
  /\ UNCHANGED <<Files, Rest, failures>>

TakeOpening(r) ==
  /\ At(r, "queue")
  /\ Acquire(r, "opening", "again")
  /\ UNCHANGED <<Files, Held, Rest, failures>>

\* Mutant: a slot the cache gave up is not looked for.
ReviveNothing(r) ==
  /\ At(r, "revive")
  /\ Goes(r, "read")
  /\ UNCHANGED <<Files, Held, Rest, lock, failures>>

\* A slot the cache gave up and somebody still uses goes back into the cache.
Revive(r) ==
  /\ At(r, "revive")
  /\ IF retired /\ slot.state = "held"
     THEN IF slot.deleted
          THEN Missing(r) /\ UNCHANGED cached
          ELSE Got(r) /\ cached' = TRUE /\ UNCHANGED Held
     ELSE Goes(r, "read") /\ UNCHANGED <<lock, Held, cached>>
  /\ UNCHANGED <<Files, worker, disturbed, failures>>

ReadIndex(r) ==
  /\ At(r, "read")
  /\ IF index.there
     THEN /\ req' = [req EXCEPT ![r] = [@ EXCEPT !.pc = "load", !.seen = index.rev]]
          /\ UNCHANGED <<lock, Held>>
     ELSE Missing(r)
  /\ UNCHANGED <<Files, Rest, failures>>

\* Session::load: the storage admits one owner of a session.
Opened(r, rev) ==
  /\ slot' = [state |-> "held", deleted |-> FALSE, rev |-> rev]
  /\ UNCHANGED retired

Load(r) ==
  /\ At(r, "load")
  /\ \/ slot.state # "none" /\ End(r, "busy")
     \/ slot.state = "none" /\ ~ stored /\ Missing(r)
     \/ /\ slot.state = "none" /\ stored
        /\ Opened(r, req[r].seen)
        /\ req' = [req EXCEPT ![r] = [@ EXCEPT !.pc = "open", !.arc = TRUE]]
        /\ UNCHANGED lock
  /\ UNCHANGED <<Files, Rest, failures>>

\* A slot that could not be opened goes, with its owner, before anything else is done.
OpenFails(r) ==
  /\ Fails
  /\ slot' = NoSlot /\ retired' = FALSE
  /\ IF req[r].creating
     THEN req' = [req EXCEPT ![r] = [@ EXCEPT !.pc = "rollback", !.arc = FALSE]] /\ UNCHANGED lock
     ELSE req' = [req EXCEPT ![r] = Ended(r, "failed")] /\ lock' = Unlocked(r, Lock)
  /\ UNCHANGED <<Files, Rest>>

\* App::open_slot: the tools are made and the state settled, then the row is saved.
OpenSlot(r) ==
  /\ At(r, "open") \/ At(r, "index")
  /\ \/ OpenFails(r)
     \/ /\ At(r, "open") /\ Goes(r, "index")
        /\ Works
        /\ UNCHANGED <<Files, Held, Rest, lock>>
     \/ /\ At(r, "index") /\ Goes(r, IF req[r].creating THEN "place" ELSE "insert")
        /\ index' = [there |-> TRUE, rev |-> slot.rev]
        /\ Works
        /\ UNCHANGED <<stored, blobs, Held, Rest, lock>>

InsertInCache(r) ==
  /\ At(r, "insert")
  /\ cached' = TRUE
  /\ IF req[r].creating
     THEN /\ req' = [req EXCEPT ![r] = Ended(r, "created")]
          /\ lock' = Unlocked(r, Lock)
     ELSE Got(r)
  /\ UNCHANGED <<Files, Held, worker, disturbed, failures>>

-----------------------------------------------------------------------------
(* The operations: edits, and saves of the row. *)

TakeUpdate(r) ==
  /\ At(r, "update_lock")
  /\ Acquire(r, "update", IF req[r].kind = "update" THEN "session_lock" ELSE "edit")
  /\ UNCHANGED <<Files, Held, Rest, failures>>

\* SessionSlot::lock_idle: the session, unless it stays taken too long.  An update then stages
\* its selection if it is no more than that.
LockIdle(r) ==
  /\ At(r, "session_lock")
  /\ \/ /\ Acquire(r, "mutex", [update |-> "check", publish |-> "persist",
                                delete |-> "quiesce"][req[r].kind])
        /\ UNCHANGED Held
     \/ lock["mutex"] # "free" /\ req[r].kind = "update" /\ Goes(r, "edit")
        /\ UNCHANGED <<lock, Held>>
     \/ lock["mutex"] # "free" /\ End(r, "conflict")
  /\ UNCHANGED <<Files, Rest, failures>>

Matches(r) == req[r].match \subseteq {slot.rev}

\* update_idle compares the revision before it makes its changes, and edits whatever it is then.
CheckRevision(r) ==
  /\ At(r, "check")
  /\ \/ slot.deleted /\ End(r, "not_found")
     \/ ~ slot.deleted /\ ~ Matches(r) /\ End(r, "conflict")
     \/ /\ ~ slot.deleted /\ Matches(r)
        /\ req' = [req EXCEPT ![r] = [@ EXCEPT !.pc = "edit", !.match = {}]]
        /\ UNCHANGED <<lock, Held>>
  /\ UNCHANGED <<Files, Rest, failures>>

\* Nobody reads the descriptor: its write lock can be had.
NoReader == \A q \in Request : req[q].pc # "save"

\* Mutant: the row is saved after the descriptor's lock was released.
EditAmongReaders(r) ==
  /\ At(r, "edit")
  /\ ~ slot.deleted /\ Matches(r) /\ Works
  /\ index' = [there |-> TRUE, rev |-> slot.rev + 1]
  /\ req' = [req EXCEPT ![r] = [Ended(r, "edited") EXCEPT !.seen = slot.rev + 1]]
  /\ lock' = Unlocked(r, Lock)
  /\ slot' = [slot EXCEPT !.rev = @ + 1, !.state = IF Shared(r) THEN "held" ELSE "dropping"]
  /\ retired' = (retired /\ Shared(r))
  /\ UNCHANGED <<stored, blobs, Rest>>

\* SessionSlot::edit_descriptor, under the descriptor's write lock: the row first, then the slot.
EditDescriptor(r) ==
  /\ At(r, "edit")
  /\ NoReader
  /\ \/ slot.deleted /\ End(r, "not_found") /\ Works /\ UNCHANGED index
     \/ ~ slot.deleted /\ ~ Matches(r) /\ End(r, "conflict") /\ Works /\ UNCHANGED index
     \/ ~ slot.deleted /\ Matches(r) /\ Fails /\ End(r, "failed") /\ UNCHANGED index
     \/ /\ ~ slot.deleted /\ Matches(r) /\ Works
        /\ index' = [there |-> TRUE, rev |-> slot.rev + 1]
        /\ req' = [req EXCEPT ![r] = [Ended(r, "edited") EXCEPT !.seen = slot.rev + 1]]
        /\ lock' = Unlocked(r, Lock)
        /\ slot' = [slot EXCEPT !.rev = @ + 1, !.state = IF Shared(r) THEN "held" ELSE "dropping"]
        /\ retired' = (retired /\ Shared(r))
  /\ UNCHANGED <<stored, blobs, Rest>>

\* SessionSlot::persist_index: under the descriptor's read lock, live, and then saved.
PersistIndex(r) ==
  /\ At(r, "persist")
  /\ IF slot.deleted
     THEN End(r, "not_found")
     ELSE /\ req' = [req EXCEPT ![r] = [@ EXCEPT !.pc = "save", !.seen = slot.rev]]
          /\ UNCHANGED <<lock, Held>>
  /\ UNCHANGED <<Files, Rest, failures>>

SaveIndex(r) ==
  /\ At(r, "save")
  /\ \/ Fails /\ End(r, "failed") /\ UNCHANGED index
     \/ Works /\ End(r, "saved") /\ index' = [there |-> TRUE, rev |-> req[r].seen]
  /\ UNCHANGED <<stored, blobs, Rest>>

-----------------------------------------------------------------------------
(* session_edit::delete *)

\* The background tools and the commands of the session end.
Quiesce(r) ==
  /\ At(r, "quiesce")
  /\ \/ slot.deleted /\ End(r, "not_found") /\ Works
     \/ ~ slot.deleted /\ Goes(r, "erase") /\ Works /\ UNCHANGED <<lock, Held>>
     \/ ~ slot.deleted /\ Fails /\ End(r, "failed")
  /\ UNCHANGED <<Files, Rest>>

\* Session::delete
Erase(r) ==
  /\ At(r, "erase")
  /\ \/ Fails /\ End(r, "failed") /\ UNCHANGED stored
        /\ disturbed' = (disturbed \/ req[r].creating)
     \/ Works /\ Goes(r, "mark") /\ stored' = FALSE /\ UNCHANGED <<lock, Held, disturbed>>
  /\ UNCHANGED <<index, blobs, cached, worker>>

\* Mutant: marked without the write lock of the descriptor.
MarkAmongReaders(r) ==
  /\ At(r, "mark")
  /\ slot' = [slot EXCEPT !.deleted = TRUE]
  /\ Goes(r, "unlist")
  /\ UNCHANGED <<Files, retired, Rest, lock, failures>>

\* SessionSlot::mark_deleted, under the descriptor's write lock.
MarkDeleted(r) ==
  /\ At(r, "mark")
  /\ NoReader
  /\ slot' = [slot EXCEPT !.deleted = TRUE]
  /\ Goes(r, "unlist")
  /\ UNCHANGED <<Files, retired, Rest, lock, failures>>

\* ManagementStore::delete; the session's guard goes with the closure.
Unlist(r) ==
  /\ At(r, "unlist")
  /\ \/ Fails /\ End(r, "failed") /\ disturbed' = TRUE /\ UNCHANGED index
     \/ /\ Works
        /\ Goes(r, IF req[r].creating THEN "files" ELSE "uncache")
        /\ index' = [there |-> FALSE, rev |-> 0]
        /\ lock' = Unlocked(r, {"mutex"})
        /\ UNCHANGED <<Held, disturbed>>
  /\ UNCHANGED <<stored, blobs, cached, worker>>

Uncache(r) ==
  /\ At(r, "uncache")
  /\ cached' = FALSE
  /\ Goes(r, "files")
  /\ UNCHANGED <<Files, Held, worker, disturbed, lock, failures>>

\* The files go last; the slot, and with it the session's owner, is there until then.
RemoveFiles(r) ==
  /\ At(r, "files")
  /\ blobs' = FALSE
  /\ End(r, IF req[r].creating THEN "failed" ELSE "deleted")
  /\ UNCHANGED <<stored, index, Rest, failures>>

-----------------------------------------------------------------------------
(* App::create_session, for the id its first input names. *)

TakeCreation(r) ==
  /\ At(r, "creation_lock")
  /\ Acquire(r, "creation", "look")
  /\ UNCHANGED <<Files, Held, Rest, failures>>

\* The request is valid and its attachments become files; else they go.
Prepare(r) ==
  /\ At(r, "prepare")
  /\ \/ blobs' = TRUE /\ Goes(r, "store") /\ UNCHANGED <<lock, Held>>
     \/ blobs' = FALSE /\ End(r, "invalid")
     \/ UNCHANGED blobs /\ End(r, "invalid")
  /\ UNCHANGED <<stored, index, Rest, failures>>

\* Session::create_initialized, in one transaction; refused, the files go.
Store(r) ==
  /\ At(r, "store")
  /\ \/ /\ slot.state # "none" \/ stored
        /\ blobs' = FALSE
        /\ End(r, IF slot.state # "none" THEN "busy" ELSE "conflict")
        /\ UNCHANGED stored
     \/ /\ slot.state = "none" /\ ~ stored
        /\ Opened(r, 0)
        /\ stored' = TRUE
        /\ req' = [req EXCEPT ![r] = [@ EXCEPT !.pc = "open", !.arc = TRUE, !.creating = TRUE]]
        /\ UNCHANGED <<blobs, lock>>
  /\ UNCHANGED <<index, Rest, failures>>

\* The slot could not be opened: the session is loaded and deleted again, unless that fails too.
Rollback(r) ==
  /\ At(r, "rollback")
  /\ End(r, "failed")
  /\ \/ slot.state = "none" /\ Works /\ UNCHANGED disturbed
        /\ stored' = FALSE /\ blobs' = FALSE /\ index' = [there |-> FALSE, rev |-> 0]
     \/ slot.state # "none" /\ Works /\ disturbed' = TRUE /\ UNCHANGED Files
     \/ Fails /\ disturbed' = TRUE /\ UNCHANGED Files
  /\ UNCHANGED <<cached, worker>>

\* The folder it was made for may have gone: then it is deleted through its slot.
Place(r) ==
  /\ At(r, "place")
  /\ \/ Goes(r, "insert") /\ Works /\ UNCHANGED lock
     \/ Acquire(r, "mutex", "erase") /\ Works
  /\ UNCHANGED <<Files, Held, Rest>>

-----------------------------------------------------------------------------
(* What happens around the requests. *)

\* The future of a request is dropped: its guards go, but a closure keeps what it owns, the
\* session's among them.
DropRequest(r) ==
  /\ req[r].pc \notin {"none", "done"} /\ ~ req[r].dropped
  /\ disturbed' = (disturbed \/ req[r].kind \in {"create", "delete"})
  /\ IF req[r].pc \in Closure
     THEN /\ req' = [req EXCEPT ![r].dropped = TRUE]
          /\ lock' = Unlocked(r, Lock \ {"mutex"})
          /\ UNCHANGED Held
     ELSE End(r, "dropped")
  /\ UNCHANGED <<Files, cached, worker, failures>>

\* What a closure hands to a future that is gone is dropped.
Abandon(r) ==
  /\ req[r].dropped /\ req[r].pc \notin Closure \cup {"done"}
  /\ End(r, "dropped")
  /\ UNCHANGED <<Files, Rest, failures>>

\* The last owner is gone, and now the storage knows.
Released ==
  /\ slot.state = "dropping"
  /\ slot' = NoSlot
  /\ UNCHANGED <<Files, retired, Rest, lock, req, failures>>

\* A worker of the session upgrades its reference, and lets it go.
WorkerUpgrades ==
  /\ ~ worker /\ slot.state = "held" /\ (cached \/ retired)
  /\ worker' = TRUE
  /\ UNCHANGED <<Files, Held, cached, disturbed, lock, req, failures>>

WorkerEnds ==
  /\ worker
  /\ worker' = FALSE
  /\ IF cached \/ \E r \in Request : req[r].arc
     THEN UNCHANGED Held
     ELSE slot' = [slot EXCEPT !.state = "dropping"] /\ retired' = FALSE
  /\ UNCHANGED <<Files, cached, disturbed, lock, req, failures>>

\* App::reap_sessions, under the lock of the cache: an idle slot only the cache holds leaves it,
\* and its owner is released, unless a worker upgrades its reference just then.  A slot is idle
\* for minutes, a request between its two reads of the storage for an instant.
Reap ==
  /\ cached /\ ~ worker /\ lock["mutex"] = "free"
  /\ \A r \in Request : ~ req[r].arc /\ req[r].pc # "load"
  /\ cached' = FALSE
  /\ \/ slot' = NoSlot /\ retired' = FALSE /\ UNCHANGED worker
     \/ worker' = TRUE /\ retired' = TRUE /\ UNCHANGED slot
  /\ UNCHANGED <<Files, disturbed, lock, req, failures>>

-----------------------------------------------------------------------------
(* The specification. *)

Getting(r) ==
  \/ LookInCache(r) \/ TakeOpening(r) \/ Revive(r) \/ ReadIndex(r) \/ Load(r) \/ OpenSlot(r)
  \/ InsertInCache(r)

Editing(r) ==
  \/ TakeUpdate(r) \/ LockIdle(r) \/ CheckRevision(r) \/ EditDescriptor(r) \/ PersistIndex(r)
  \/ SaveIndex(r)

Deleting(r) == Quiesce(r) \/ Erase(r) \/ MarkDeleted(r) \/ Unlist(r) \/ Uncache(r) \/ RemoveFiles(r)

Creating(r) == TakeCreation(r) \/ Prepare(r) \/ Store(r) \/ Rollback(r) \/ Place(r)

RequestStep(r) ==
  Getting(r) \/ Editing(r) \/ Deleting(r) \/ Creating(r) \/ Abandon(r)

SlotNext ==
  \/ \E r \in Request : Begin(r) \/ RequestStep(r) \/ DropRequest(r)
  \/ Released \/ WorkerUpgrades \/ WorkerEnds \/ Reap

-----------------------------------------------------------------------------
(* Properties. *)

\* Once no creation or deletion is under way a session is listed exactly if it is stored, and has
\* its files: no late save of the row brings a deleted session back (mark_deleted: "so none can
\* resurrect the deleted index"), and a creation that fails leaves nothing (create_session),
\* unless its request was dropped or its cleanup failed.  Only the files of a session made anew
\* while it was still being deleted may go with the deletion: they are prepared before the
\* session's owner is claimed.
ListedAsStored ==
  \/ disturbed
  \/ \E r \in Request :
       req[r].kind \in {"create", "delete"} /\ req[r].pc \notin {"none", "done"}
  \/ /\ index.there = stored
     /\ \/ blobs = stored
        \/ \E q, r \in Request : req[q].outcome = "deleted" /\ req[r].outcome = "created"

\* An edit made against a revision follows that revision and no other, though the update of an idle
\* session compares it well before it edits (update_idle); and what the row tells never goes back
\* to an earlier revision (edit_descriptor, persist_index, get_session), but for a session made
\* anew over the row that a failed deletion left.  The edit of a request that was dropped goes on
\* without the update lock, and may come between.
EditsKept ==
  [][/\ \/ ~ index.there \/ ~ index'.there \/ index'.rev >= index.rev
        \/ \E r \in Request : req[r].creating /\ req[r].pc = "index" /\ req'[r].pc # "index"
     /\ \A r \in Request :
          /\ req'[r].outcome = "edited" /\ req[r].outcome # "edited" /\ ~ req[r].dropped
          /\ ~ (\E q \in Request : req[q].outcome = "edited" /\ req[q].dropped)
          => req[r].base \subseteq {slot.rev}
    ]_slot_vars

\* A request is told the session is open elsewhere only while its last owner is being dropped, or
\* when it met the creation or the deletion of the session (reap_sessions, get_session): a slot
\* the cache has given up is found again as long as anyone uses it.
FoundWhileHeld ==
  [][\A r \in Request :
       req'[r].outcome = "busy" /\ req[r].outcome # "busy" =>
         \/ req[r].dropped
         \/ slot.state = "dropping"
         \/ \E q \in Request \ {r} : req[q].creating \/ (req[q].arc /\ req[q].dropped)
         \/ slot.deleted
    ]_slot_vars

=============================================================================
