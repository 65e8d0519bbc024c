-------------------------------- MODULE Drafts ---------------------------------
(***************************************************************************)
(* Attachments uploaded before their session exists                        *)
(* (application/draft_uploads.rs): the inventory of pending directories,   *)
(* the reservations of uploads under way, and the quota both keep.  An     *)
(* upload holds its draft's lock to its end and the inventory's only while *)
(* it is admitted and while it is entered; its request may be dropped at   *)
(* any await.                                                              *)
(***************************************************************************)
EXTENDS Naturals, FiniteSets, FiniteSetsExt

CONSTANTS
  Draft, Upload,
  MaxDrafts, MaxBytes, MaxUpload, DescriptorBytes

ASSUME DraftAssumption ==
  /\ {MaxDrafts, MaxBytes, MaxUpload, DescriptorBytes} \subseteq Nat \ {0}
  /\ IsFiniteSet(Draft)
  /\ {"free", "reaper"} \cap Upload = {}

VARIABLES
  disk,         \* the bytes in the directory of each draft
  adopted,      \* the drafts that became sessions
  sizes,        \* DraftInventory.sizes, on the drafts in known
  known,
  loaded, dirty,
  reservation,  \* DraftInventory.reservations: the bytes, and whether the upload still runs
  inventory,    \* who holds the inventory
  skipped,      \* the drafts an inspection leaves to their reservations
  up,           \* the uploads
  slipped       \* an upload was dropped while another one was being admitted

draft_vars ==
  <<disk, adopted, sizes, known, loaded, dirty, reservation, inventory, skipped, up, slipped>>

DraftTypeOK ==
  /\ disk \in [Draft -> Nat] /\ sizes \in [Draft -> Nat]
  /\ adopted \subseteq Draft /\ known \subseteq Draft /\ skipped \subseteq Draft
  /\ {loaded, dirty, slipped} \subseteq BOOLEAN
  /\ reservation \in [Draft -> [state : {"none", "active", "over"}, bytes : Nat]]
  /\ inventory \in Upload \cup {"free", "reaper"}
  /\ up \in [Upload -> [draft : SUBSET Draft, allowance : Nat,
                        pc : {"none", "inspect", "scan", "admit", "save", "enter", "done"}]]

NoReservation == [state |-> "none", bytes |-> 0]

DraftInit ==
  /\ disk = [d \in Draft |-> 0] /\ sizes = [d \in Draft |-> 0]
  /\ adopted = {} /\ known = {} /\ skipped = {}
  /\ loaded = FALSE /\ dirty = FALSE /\ slipped = FALSE
  /\ reservation = [d \in Draft |-> NoReservation]
  /\ inventory = "free"
  /\ up = [u \in Upload |-> [draft |-> {}, allowance |-> 0, pc |-> "none"]]

UploadAt(u, pc) == up[u].pc = pc
UploadGoes(u, pc) == up' = [up EXCEPT ![u].pc = pc]

\* lock_owner: uploads to one draft, and its adoption, follow each other.
Owned(d) == \E u \in Upload : d \in up[u].draft /\ up[u].pc \notin {"none", "done"}

Active == {d \in Draft : reservation[d].state = "active"}

-----------------------------------------------------------------------------
(* inspect: the directories that are no session's are measured, and those too old go. *)

InspectBegins ==
  /\ loaded' = FALSE /\ dirty' = FALSE
  /\ reservation' = [d \in Draft |-> IF d \in Active THEN reservation[d] ELSE NoReservation]
  /\ known' = known \cap Active
  /\ skipped' = Active
  /\ UNCHANGED <<disk, adopted, sizes, slipped>>

Pending == {d \in Draft : disk[d] > 0 /\ d \notin adopted}

InspectEnds(incoming) ==
  \E old \in SUBSET (Pending \ (skipped \cup incoming)) :
    LET measured == Pending \ (skipped \cup old)
    IN /\ disk' = [d \in Draft |-> IF d \in old THEN 0 ELSE disk[d]]
       /\ sizes' = [d \in Draft |-> IF d \in measured THEN disk[d] ELSE sizes[d]]
       /\ known' = known \cup measured
       /\ loaded' = TRUE
       /\ UNCHANGED <<adopted, dirty, reservation, skipped, slipped>>

\* start_reaper: every hour, whatever the inventory says.
ReaperInspects ==
  \/ inventory = "free" /\ inventory' = "reaper" /\ InspectBegins /\ UNCHANGED up
  \/ inventory = "reaper" /\ inventory' = "free" /\ InspectEnds({}) /\ UNCHANGED up

-----------------------------------------------------------------------------
(* upload_stream *)

TakeInventory(u) ==
  /\ UploadAt(u, "none") /\ inventory = "free"
  /\ \E d \in Draft :
       /\ ~ Owned(d)
       /\ up' = [up EXCEPT ![u] = [@ EXCEPT !.draft = {d},
                                           !.pc = IF ~ loaded \/ dirty THEN "inspect" ELSE "admit"]]
  /\ inventory' = u
  /\ UNCHANGED <<disk, adopted, sizes, known, loaded, dirty, reservation, skipped, slipped>>

Inspect(u) ==
  /\ UNCHANGED inventory
  /\ \/ UploadAt(u, "inspect") /\ InspectBegins /\ UploadGoes(u, "scan")
     \/ UploadAt(u, "scan") /\ InspectEnds(up[u].draft) /\ UploadGoes(u, "admit")

Total(count, drafts) == MapThenSumSet(LAMBDA d : count[d], drafts)

\* Mutant: uploads under way are not counted.
BytesKnown == Total(sizes, known)

\* What is pending or reserved.
Bytes == Total(sizes, known) + Total([d \in Draft |-> reservation[d].bytes], Active)

MinOf(a, b) == IF a < b THEN a ELSE b

\* Refused at the quota; an upload to a session that exists is none of the inventory's business.
Admit(u) ==
  /\ UploadAt(u, "admit")
  /\ inventory' = "free"
  /\ \E d \in up[u].draft :
       \/ /\ \/ d \in adopted
             \/ Cardinality(known \ {d}) >= MaxDrafts
             \/ Bytes + DescriptorBytes >= MaxBytes
          /\ UploadGoes(u, "done")
          /\ UNCHANGED <<known, sizes, reservation>>
       \/ /\ d \notin adopted
          /\ Cardinality(known \ {d}) < MaxDrafts
          /\ Bytes + DescriptorBytes < MaxBytes
          /\ LET allowance == MinOf(MaxBytes - Bytes - DescriptorBytes, MaxUpload)
             IN /\ up' = [up EXCEPT ![u] = [@ EXCEPT !.pc = "save", !.allowance = allowance]]
                /\ reservation' = [reservation EXCEPT
                     ![d] = [state |-> "active", bytes |-> allowance + DescriptorBytes]]
          /\ known' = known \cup {d}
          /\ sizes' = [sizes EXCEPT ![d] = IF d \in known THEN @ ELSE 0]
  /\ UNCHANGED <<disk, adopted, loaded, dirty, skipped, slipped>>

\* blobs::save_upload_stream: the bytes and their description, if the stream keeps the allowance.
Save(u) ==
  /\ UploadAt(u, "save")
  /\ \E d \in up[u].draft, bytes \in 1 .. up[u].allowance :
       disk' = [disk EXCEPT ![d] = @ + bytes + DescriptorBytes]
  /\ UploadGoes(u, "enter")
  /\ UNCHANGED <<adopted, sizes, known, loaded, dirty, reservation, inventory, skipped, slipped>>

\* The directory is measured and entered, and the reservation taken back.
Enter(u) ==
  /\ UploadAt(u, "enter") /\ inventory = "free"
  /\ \E d \in up[u].draft :
       /\ sizes' = [sizes EXCEPT ![d] = disk[d]]
       /\ known' = known \cup {d}
       /\ reservation' = [reservation EXCEPT ![d] = NoReservation]
  /\ UploadGoes(u, "done")
  /\ UNCHANGED <<disk, adopted, loaded, dirty, inventory, skipped, slipped>>

\* Reservation::drop, when the stream fails or the request is dropped: the next admission measures
\* what the upload left.
DropUpload(u) ==
  /\ up[u].pc \in {"save", "enter"}
  /\ dirty' = TRUE
  /\ reservation' = [d \in Draft |-> IF d \in up[u].draft THEN [reservation[d] EXCEPT !.state = "over"]
                                                          ELSE reservation[d]]
  /\ slipped' = (slipped \/ \E v \in Upload : up[v].pc \in {"scan", "admit"})
  /\ UploadGoes(u, "done")
  /\ UNCHANGED <<disk, adopted, sizes, known, loaded, inventory, skipped>>

DropAdmission(u) ==
  /\ UploadAt(u, "admit")
  /\ inventory' = "free"
  /\ UploadGoes(u, "done")
  /\ UNCHANGED <<disk, adopted, sizes, known, loaded, dirty, reservation, skipped, slipped>>

\* create_session takes the draft's files as its own: DraftInventory::adopted.
Adopt(d) ==
  /\ d \notin adopted /\ ~ Owned(d) /\ inventory = "free"
  /\ adopted' = adopted \cup {d}
  /\ known' = known \ {d}
  /\ UNCHANGED <<disk, sizes, loaded, dirty, reservation, inventory, skipped, up, slipped>>

DraftNext ==
  \/ \E u \in Upload :
       \/ TakeInventory(u) \/ Inspect(u) \/ Admit(u) \/ Save(u) \/ Enter(u)
       \/ DropUpload(u) \/ DropAdmission(u)
  \/ ReaperInspects
  \/ \E d \in Draft : Adopt(d)

DraftSpec == DraftInit /\ [][DraftNext]_draft_vars

-----------------------------------------------------------------------------
(* Properties. *)

\* What is pending keeps the quota, whatever uploads run together, are cut off half way or are
\* found by an inspection (upload_stream, Reservation::drop, inspect), except where an upload was
\* dropped during the very admission of another one, which had looked for such a drop before.
PendingBounded ==
  slipped \/ Total(disk, Draft \ adopted) <= MaxBytes

=============================================================================
