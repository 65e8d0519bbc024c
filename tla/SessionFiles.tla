----------------------------- MODULE SessionFiles -----------------------------
(***************************************************************************)
(* The files a session keeps (storage/blobs.rs, blobs/, attachments.rs,    *)
(* input.rs, storage_cleanup.rs, session/history/prune.rs).  A file is     *)
(* named by the hash of its bytes.  An upload puts the bytes in place,     *)
(* then its description, then its entry in the user's Library; an input    *)
(* reads descriptions, stores its images in the form the model takes,      *)
(* enters what it brings in the Library and is then queued; a prune        *)
(* releases what the context has moved past, in the database first, and    *)
(* then the files only that named.  Nothing spans these steps: a deletion  *)
(* checks what is queued and in context, and takes effect, at once.        *)
(***************************************************************************)
EXTENDS Naturals, Sequences, FiniteSets

CONSTANTS Blob,         \* names of files
          Job,          \* the name of a media job
          FileForms,    \* what the files are, as FileForm
          MaxMessages,  \* bound on messages
          MaxBegun      \* bound on operations

\* The form each image is sent in, itself or a smaller copy; the names that are
\* links to files elsewhere; and the file a media job makes.
FileForm == [sent : [Blob -> Blob], links : SUBSET Blob, artifact : Blob]

ASSUME FilesAssumption ==
  FileForms \subseteq FileForm /\ Job \notin Blob /\ MaxMessages \in Nat /\ MaxBegun \in Nat

VARIABLES form,       \* what the files are
          bytes,      \* files whose bytes are stored
          described,  \* files, or links, with a description
          library,    \* what the Library says of each: nothing, hidden or shown
          messages,   \* messages and events: what they name and need, and where they are
          job,        \* the record of the media job
          upload,     \* an upload or link under way
          input,      \* an input under way
          prune,      \* a prune under way
          listing,    \* a reading of the directory under way
          rows,       \* the indexed rows of this directory's revision, in a set
          crossed,    \* files two operations under way at once were about
          begun       \* how many operations were begun

files_vars == <<form, bytes, described, library, messages, job, upload, input, prune,
                listing, rows, crossed, begun>>

Message == [names : SUBSET (Blob \cup {Job}), needs : SUBSET Blob,
            place : {"queued", "context", "past", "released"}]

AtStep(pc, blob) == [pc |-> pc, blob |-> blob]
AtRest == AtStep("idle", CHOOSE b \in Blob : TRUE)

FilesTypeOK ==
  /\ form \in FileForms
  /\ bytes \subseteq Blob /\ described \subseteq Blob /\ crossed \subseteq Blob
  /\ library \in [Blob -> {"absent", "hidden", "shown"}]
  /\ \A i \in DOMAIN messages : messages[i] \in Message
  /\ job \in {"none", "working", "done"}

---------------------------------------------------------------------------
BeginFileWork == begun < MaxBegun /\ begun' = begun + 1

\* used_entries: what the two generations and the queue hold.
InUse == {i \in DOMAIN messages : messages[i].place \in {"queued", "context"}}
Images == UNION {messages[i].needs : i \in InUse}

\* contains: stored bytes, or the description of a link.
ContainsBlob(b) == b \in bytes \/ (b \in form.links /\ b \in described)

\* What a catalog's reading of the directory comes to.
Scanned == [b \in {c \in Blob : ContainsBlob(c)} |-> library[b]]

\* Every change in the directory changes its revision: an index of another
\* revision is not used, nor is one kept of a directory that changed meanwhile.
DirectoryChanges == rows' = {} /\ listing' = IF listing = "idle" THEN "idle" ELSE "stale"

\* Operations under way that are about a file.
Handling(b) ==
  \/ upload.pc # "idle" /\ upload.blob = b
  \/ input.pc # "idle" /\ b \in {input.blob, form.sent[input.blob]}
Removing(b) == prune.pc # "idle" /\ b \in prune.names

Crosses(gone) == crossed' = crossed \cup {b \in gone : Handling(b)}
Meets(came) == crossed' = crossed \cup {b \in came : Removing(b)}

---------------------------------------------------------------------------
\* save_upload_stream: the bytes, staged under another name, take their place ...
UploadStored(b) ==
  /\ upload.pc = "idle" /\ b \notin form.links
  /\ BeginFileWork
  /\ bytes' = bytes \cup {b}
  /\ upload' = AtStep("stored", b)
  /\ DirectoryChanges /\ Meets({b})
  /\ UNCHANGED <<form, described, library, messages, job, input, prune>>

\* ... and then their description.  A link has nothing else.
UploadDescribed(b) ==
  /\ \/ upload = AtStep("stored", b) /\ UNCHANGED begun
     \/ upload.pc = "idle" /\ b \in form.links /\ BeginFileWork
  /\ described' = described \cup {b}
  /\ upload' = AtStep("described", b)
  /\ DirectoryChanges /\ Meets({b})
  /\ UNCHANGED <<form, bytes, library, messages, job, input, prune>>

\* record_upload: an explicit upload shows the file; a temporary one changes
\* nothing that is known of it.
UploadRecorded(temporary) ==
  /\ upload.pc = "described"
  /\ library' = [library EXCEPT ![upload.blob] =
                   IF ~ temporary THEN "shown" ELSE IF @ = "absent" THEN "hidden" ELSE @]
  /\ upload' = AtRest
  /\ DirectoryChanges
  /\ UNCHANGED <<form, bytes, described, messages, job, input, prune, crossed, begun>>

UploadDropped ==
  /\ upload.pc # "idle"
  /\ upload' = AtRest
  /\ UNCHANGED <<form, bytes, described, library, messages, job, input, prune, listing, rows,
                 crossed, begun>>

---------------------------------------------------------------------------
\* message: the description of an attachment is read; without one it is refused.
InputRead(b) ==
  /\ input.pc = "idle" /\ Len(messages) < MaxMessages
  /\ b \in described
  /\ b \notin form.links => b \in bytes
  /\ BeginFileWork
  /\ input' = AtStep("read", b)
  /\ Meets({b, form.sent[b]})
  /\ UNCHANGED <<form, bytes, described, library, messages, job, upload, prune, listing, rows>>

IsImage(b) == b \notin form.links

\* save_image_bytes: an image is stored as it will be sent, unless it already is.
InputStored ==
  /\ input.pc = "read"
  /\ IF IsImage(input.blob) /\ form.sent[input.blob] \notin bytes
     THEN bytes' = bytes \cup {form.sent[input.blob]} /\ DirectoryChanges
     ELSE UNCHANGED <<bytes, listing, rows>>
  /\ input' = [input EXCEPT !.pc = "stored"]
  /\ UNCHANGED <<form, described, library, messages, job, upload, prune, crossed, begun>>

\* record_input: what the Library does not know is shown; a choice stays.
InputRecorded ==
  /\ input.pc = "stored"
  /\ IF library[input.blob] = "absent"
     THEN library' = [library EXCEPT ![input.blob] = "shown"] /\ DirectoryChanges
     ELSE UNCHANGED <<library, listing, rows>>
  /\ input' = [input EXCEPT !.pc = "recorded"]
  /\ UNCHANGED <<form, bytes, described, messages, job, upload, prune, crossed, begun>>

InputQueued ==
  /\ input.pc = "recorded"
  /\ LET image == IF IsImage(input.blob) THEN {form.sent[input.blob]} ELSE {}
     IN  messages' = Append(messages, [names |-> {input.blob} \cup image, needs |-> image,
                                       place |-> "queued"])
  /\ input' = AtRest
  /\ UNCHANGED <<form, bytes, described, library, job, upload, prune, listing, rows, crossed, begun>>

\* The request is dropped or refused before it is queued.
InputDropped ==
  /\ input.pc # "idle"
  /\ input' = AtRest
  /\ UNCHANGED <<form, bytes, described, library, messages, job, upload, prune, listing, rows,
                 crossed, begun>>

\* A run takes the queue into the context; a new generation leaves messages
\* behind.  Neither happens while a prune holds the session.
Moves(from, to) ==
  /\ prune.pc = "idle"
  /\ \E i \in DOMAIN messages :
       messages[i].place = from /\ messages' = [messages EXCEPT ![i].place = to]
  /\ UNCHANGED <<form, bytes, described, library, job, upload, input, prune, listing, rows,
                 crossed, begun>>

---------------------------------------------------------------------------
\* A media job stores what it made, and its call's answer names both.  A session
\* with work in the background is not pruned.
JobStores ==
  /\ job = "none" /\ prune.pc = "idle" /\ Len(messages) < MaxMessages
  /\ bytes' = bytes \cup {form.artifact}
  /\ job' = "working"
  /\ DirectoryChanges
  /\ UNCHANGED <<form, described, library, messages, upload, input, prune, crossed, begun>>

JobEnds ==
  /\ job = "working" /\ Len(messages) < MaxMessages
  /\ job' = "done"
  /\ messages' = Append(messages, [names |-> {form.artifact, Job}, needs |-> {}, place |-> "context"])
  /\ UNCHANGED <<form, bytes, described, library, upload, input, prune, listing, rows, crossed, begun>>

---------------------------------------------------------------------------
\* update_library, of a file that is there.
UpdateLibrary(b, choice) ==
  /\ ContainsBlob(b) /\ library[b] # choice
  /\ BeginFileWork
  /\ library' = [library EXCEPT ![b] = choice]
  /\ DirectoryChanges /\ Meets({b})
  /\ UNCHANGED <<form, bytes, described, messages, job, upload, input, prune>>

\* delete: unless the context or the queue needs the image.
DeleteFile(b) ==
  /\ b \notin Images
  /\ b \in bytes \/ b \in described
  /\ BeginFileWork
  /\ bytes' = bytes \ {b} /\ described' = described \ {b}
  /\ library' = [library EXCEPT ![b] = "absent"]
  /\ DirectoryChanges
  /\ crossed' = crossed \cup {c \in {b} : Handling(c) \/ (job # "none" /\ c = form.artifact)}
  /\ UNCHANGED <<form, messages, job, upload, input, prune>>

---------------------------------------------------------------------------
NamesOf(which) == UNION {messages[i].names : i \in which}

\* Mutant: whatever a released message named goes with it.
ReleasedNamesAll(gone) == NamesOf(gone)

\* select_released: what the released messages name, and nothing kept does.
ReleasedNames(gone) ==
  NamesOf(gone) \ NamesOf({i \in DOMAIN messages \ gone : messages[i].place # "released"})

\* prune: a session that runs, or works in the background, is skipped.
Prunable == prune.pc = "idle" /\ job # "working"

\* prune_history, in one transaction: messages out of use, the older ones or all.
PruneHistory ==
  /\ Prunable
  /\ BeginFileWork
  /\ \E before \in 1 .. Len(messages) :
       LET gone == {i \in 1 .. before : messages[i].place = "past"}
       IN  /\ gone # {}
           /\ prune' = [pc |-> "released", names |-> ReleasedNames(gone)]
           /\ messages' = [i \in DOMAIN messages |->
                             IF i \in gone THEN [messages[i] EXCEPT !.place = "released"]
                             ELSE messages[i]]
           /\ Crosses(ReleasedNames(gone) \cap Blob)
  /\ UNCHANGED <<form, bytes, described, library, job, upload, input, listing, rows>>

\* What the Library shows stays, and what a job made that is not released with it.
Retained ==
  {b \in Blob : library[b] = "shown"} \cup
    (IF job = "none" \/ (job = "done" /\ Job \in prune.names) THEN {} ELSE {form.artifact})

PruneChosen ==
  /\ prune.pc = "released"
  /\ prune' = [pc |-> "chosen", names |-> prune.names \ Retained]
  /\ UNCHANGED <<form, bytes, described, library, messages, job, upload, input, listing, rows,
                 crossed, begun>>

\* release_resources: the files that are there, each with its description; and
\* the job's record.
PruneRemoves ==
  /\ prune.pc = "chosen"
  /\ LET gone == prune.names \cap bytes
     IN  bytes' = bytes \ gone /\ described' = described \ gone
  /\ job' = IF Job \in prune.names THEN "none" ELSE job
  /\ prune' = [pc |-> "idle", names |-> {}]
  /\ DirectoryChanges
  /\ UNCHANGED <<form, library, messages, upload, input, crossed, begun>>

---------------------------------------------------------------------------
\* catalog::indexed: the rows kept of this revision serve; otherwise the
\* directory is read ...
ListBegins ==
  /\ listing = "idle" /\ rows = {}
  /\ BeginFileWork
  /\ listing' = "reading"
  /\ UNCHANGED <<form, bytes, described, library, messages, job, upload, input, prune, rows, crossed>>

\* ... and what was read is kept if the directory is as it was.
ListEnds ==
  /\ listing # "idle"
  /\ rows' = IF listing = "reading" THEN {Scanned} ELSE {}
  /\ listing' = "idle"
  /\ UNCHANGED <<form, bytes, described, library, messages, job, upload, input, prune, crossed, begun>>

FilesInit ==
  /\ form \in FileForms
  /\ bytes = {} /\ described = {} /\ crossed = {} /\ rows = {}
  /\ library = [b \in Blob |-> "absent"]
  /\ messages = <<>> /\ job = "none" /\ listing = "idle" /\ begun = 0
  /\ upload = AtRest /\ input = AtRest
  /\ prune = [pc |-> "idle", names |-> {}]

FilesNext ==
  \/ \E b \in Blob :
       \/ UploadStored(b) \/ UploadDescribed(b) \/ InputRead(b) \/ DeleteFile(b)
       \/ \E choice \in {"hidden", "shown"} : UpdateLibrary(b, choice)
  \/ \E temporary \in BOOLEAN : UploadRecorded(temporary)
  \/ UploadDropped
  \/ InputStored \/ InputRecorded \/ InputQueued \/ InputDropped
  \/ Moves("queued", "context") \/ Moves("context", "past")
  \/ JobStores \/ JobEnds
  \/ PruneHistory \/ PruneChosen \/ PruneRemoves
  \/ ListBegins \/ ListEnds

FilesSpec == FilesInit /\ [][FilesNext]_files_vars

\* Every image the context or the queue needs is stored, every file the Library
\* shows is there, and so is what a job that is still on record made: neither a
\* deletion nor a prune takes what something else still goes by.  The exceptions
\* are files an upload, an input or a change of the Library was about at the very
\* moment a prune or a deletion removed them, which nothing prevents.
FilesKept ==
  /\ Images \subseteq bytes \cup crossed
  /\ \A b \in Blob \ crossed : library[b] = "shown" => ContainsBlob(b)
  /\ job # "none" => form.artifact \in bytes \cup crossed

\* Rows that would serve a listing are what the directory holds, with the choices
\* the Library has of them now, whatever changed while they were read.
ListingTrue == \A kept \in rows : kept = Scanned

\* What a session goes by is there, and what a listing shows is what is there:
\* FilesKept and ListingTrue together (storage_cleanup.rs, catalog.rs).
FilesTrue == FilesKept /\ ListingTrue

=============================================================================
