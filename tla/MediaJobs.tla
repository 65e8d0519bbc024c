----------------------------- MODULE MediaJobs -----------------------------
(***************************************************************************)
(* Durable media generation.  A tool call that runs a generation, and any  *)
(* later call for its status, work on one job record on disk under the     *)
(* job's lock.  The record says "submitting" before the paid request goes  *)
(* out; from then on no call submits again, whatever is lost: status calls *)
(* query the service, download the artifact and its subtitles, and finish. *)
(*                                                                         *)
(* A call may be dropped at any await (the tool is cancelled, the server   *)
(* shuts down), saving a record may fail, and the process may die.  What a *)
(* dropped save was about to publish is gone before the lock is released   *)
(* (the temporary file is removed first), so a save happens in one step.   *)
(* Configuration and accounts are read once per call and may have changed  *)
(* in between: a call picks the services it finds ready.                   *)
(***************************************************************************)
EXTENDS MediaServices

CONSTANTS Jobs, Callers,
          Offers,           \* the calls there may be, by name: requests for each job, images, transcription
          Order,            \* the configured services, in priority order
          MaxActive,        \* jobs of a session that may be under way (256)
          SubmitPermits,    \* submissions at a time (2)
          StatusPermits,    \* queries at a time (4)
          DownloadPermits,  \* downloads at a time (2)
          MaxDownloads      \* bound on the transfers counted per job

ASSUME MediaAssumption ==
  /\ MaxActive \in Nat \ {0} /\ SubmitPermits \in Nat \ {0}
  /\ StatusPermits \in Nat \ {0} /\ DownloadPermits \in Nat \ {0}
  /\ MaxDownloads \in Nat

VARIABLES offered,   \* the name of the offer the calls are from
          record,    \* the job records on disk
          upstream,  \* what the service really does with a job
          paid,      \* paid requests sent for a job
          sent,      \* what the last of them was
          downloads, \* complete transfers of a job's artifact
          caller     \* the calls under way

mediaVars == <<offered, record, upstream, paid, sent, downloads, caller>>
OfferNames == DOMAIN Offers
Offer == [o \in OfferNames |-> Offers[o]]
Requests == UNION {Offer[o].jobs[j] : o \in OfferNames, j \in Jobs}
Configured == {Order[i] : i \in DOMAIN Order}

NoJob == "no job"

\* An input of a request, and the job that made it, if one of these did.
Input ==
  [role : Roles, source : {"blob", "url", "job", "voice"}, from : Jobs \cup {"none"}]

ASSUME RequestAssumption ==
  /\ NoJob \notin Jobs /\ Configured \subseteq DOMAIN Services
  /\ \A q \in Requests : q.inputs \in Seq(Input)

NoRecord == [phase |-> "none"]
NoPlan == [service |-> "none"]
NotSent == [service |-> "none", mode |-> "none", routed |-> FALSE, whole |-> TRUE]
Terminal == {"succeeded", "failed", "outcome_unknown"}
Active == {"submitting", "running", "downloading"}

Job(plan) ==
  [phase |-> "submitting", service |-> plan.service, task |-> FALSE, url |-> FALSE,
   subtitle |-> FALSE, artifact |-> FALSE, timestamps |-> FALSE, error |-> FALSE, polled |-> FALSE]

Resting == {"idle", "rejected"}
Rest(pc, charged) ==
  [pc |-> pc, op |-> "none", job |-> NoJob, rec |-> NoRecord, plan |-> NoPlan,
   charged |-> charged, attempts |-> 0]

Holders(pcs) == {c \in Callers : caller[c].pc \in pcs}
DiskVars == <<offered, record, upstream, paid, sent, downloads>>
HoldsLock(c, j) == caller[c].job = j /\ caller[c].pc \notin Resting \cup {"waiting"}

\* A call gives its result.  Only a rejection is remembered, with what it cost.
Return(c, result) ==
  caller' = [caller EXCEPT ![c] = IF result = "rejected" THEN Rest("rejected", @.charged)
                                  ELSE Rest("idle", FALSE)]
GoTo(c, pc, rec) == caller' = [caller EXCEPT ![c].pc = pc, ![c].rec = rec]
SaveJob(j, rec) == record' = [record EXCEPT ![j] = rec]

MediaInit ==
  /\ offered \in OfferNames
  /\ record = [j \in Jobs |-> NoRecord]
  /\ upstream = [j \in Jobs |-> "none"]
  /\ paid = [j \in Jobs |-> 0]
  /\ sent = [j \in Jobs |-> NotSent]
  /\ downloads = [j \in Jobs |-> 0]
  /\ caller = [c \in Callers |-> Rest("idle", FALSE)]

-----------------------------------------------------------------------------
(* A call for a job waits for the job's lock, then reads the record. *)

CallJob(c, op, j) ==
  /\ caller[c].pc \in Resting
  /\ caller' = [caller EXCEPT ![c] = [Rest("waiting", FALSE) EXCEPT !.op = op, !.job = j]]
  /\ UNCHANGED DiskVars

Entering(c) ==
  /\ caller[c].pc = "waiting"
  /\ \A d \in Callers : ~HoldsLock(d, caller[c].job)

Here(c) == record[caller[c].job]

\* status of a job nobody ran
StatusMissing(c) ==
  /\ Entering(c) /\ caller[c].op = "status" /\ Here(c) = NoRecord
  /\ Return(c, "rejected")
  /\ UNCHANGED DiskVars

\* A record left submitting: the call that wrote it is gone.
AdvanceInterrupted(c) ==
  /\ Entering(c) /\ Here(c).phase = "submitting"
  /\ \/ /\ SaveJob(caller[c].job, [Here(c) EXCEPT !.phase = "outcome_unknown", !.error = TRUE])
        /\ Return(c, "ok")
     \/ /\ UNCHANGED record
        /\ Return(c, "rejected")
  /\ UNCHANGED <<offered, upstream, paid, sent, downloads>>

\* Nothing to do, or the last poll was less than five seconds ago.
AdvanceAtRest(c) ==
  /\ Entering(c) /\ Here(c) # NoRecord
  /\ Here(c).phase \in Terminal \/ (Here(c).phase # "submitting" /\ Here(c).polled)
  /\ Return(c, "ok")
  /\ UNCHANGED DiskVars

AdvancePolls(c) ==
  /\ Entering(c) /\ Here(c).phase \in {"running", "downloading"}
  /\ LET rec == [Here(c) EXCEPT !.polled = TRUE]
     IN \/ /\ SaveJob(caller[c].job, rec)
           /\ GoTo(c, IF rec.phase = "running" \/ (rec.error /\ rec.task)
                      THEN "query_queue" ELSE "download_queue", rec)
        \/ /\ UNCHANGED record
           /\ Return(c, "rejected")
  /\ UNCHANGED <<offered, upstream, paid, sent, downloads>>

-----------------------------------------------------------------------------
(* The query, the download, the end. *)

Queries(c) ==
  /\ caller[c].pc = "query_queue"
  /\ Cardinality(Holders({"querying"})) < StatusPermits
  /\ GoTo(c, "querying", caller[c].rec)
  /\ UNCHANGED DiskVars

\* The account is gone, the query fails, or its answer cannot be read.
QueryFails(c) ==
  /\ caller[c].pc = "querying"
  /\ Return(c, "rejected")
  /\ UNCHANGED DiskVars

\* What a service calls a task that is running, done or failed.
Words(state) ==
  IF state = "running" THEN {"queued", "processing", "RUNNING", "generating"}
  ELSE IF state = "done" THEN {"succeeded", "done", "SUCCESS"}
  ELSE {"failed", "moderated", "expired", "FAILED"}

QueryAnswers(c, word) ==
  LET j == caller[c].job
      status == DecodeStatus(caller[c].rec.service, word)
      rec == [caller[c].rec EXCEPT
                !.phase = IF status = "complete" THEN "downloading"
                          ELSE IF status = "failed" THEN "failed" ELSE @,
                !.url = @ \/ status = "complete",
                !.error = @ \/ status = "failed"]
  IN /\ caller[c].pc = "querying" /\ word \in Words(upstream[j]) /\ status # "retained"
     /\ \/ /\ SaveJob(j, rec)
           /\ IF rec.phase = "downloading" THEN GoTo(c, "download_queue", rec) ELSE Return(c, "ok")
        \/ /\ UNCHANGED record
           /\ Return(c, "rejected")
     /\ UNCHANGED <<offered, upstream, paid, sent, downloads>>

Downloading == {"downloading", "subtitles", "finishing"}

Downloads(c) ==
  /\ caller[c].pc = "download_queue"
  /\ Cardinality(Holders(Downloading)) < DownloadPermits
  /\ GoTo(c, "downloading", caller[c].rec)
  /\ UNCHANGED DiskVars

\* An artifact on record is not fetched again; a fetched one is recorded
\* before anything else is tried.
Download(c) ==
  LET j == caller[c].job
      rec == caller[c].rec
      stored == [rec EXCEPT !.artifact = TRUE]
  IN /\ caller[c].pc = "downloading"
     /\ \/ /\ rec.artifact
           /\ GoTo(c, "subtitles", rec)
           /\ UNCHANGED <<record, downloads>>
        \/ /\ ~rec.artifact /\ downloads[j] < MaxDownloads
           /\ downloads' = [downloads EXCEPT ![j] = @ + 1]
           /\ \/ SaveJob(j, stored) /\ GoTo(c, "subtitles", stored)
              \/ UNCHANGED record /\ GoTo(c, "finishing", [stored EXCEPT !.error = TRUE])
        \/ /\ ~rec.artifact
           /\ GoTo(c, "finishing", [rec EXCEPT !.error = TRUE])
           /\ UNCHANGED <<record, downloads>>
     /\ UNCHANGED <<offered, upstream, paid, sent>>

\* Mutant: subtitles that cannot be had are passed over.
SkipsSubtitles(c) ==
  /\ caller[c].pc = "subtitles"
  /\ GoTo(c, "finishing", [caller[c].rec EXCEPT !.phase = "succeeded", !.error = FALSE])
  /\ UNCHANGED DiskVars

Subtitles(c) ==
  LET rec == caller[c].rec
      done == [rec EXCEPT !.phase = "succeeded", !.error = FALSE]
  IN /\ caller[c].pc = "subtitles"
     /\ \/ ~(rec.subtitle /\ ~rec.timestamps) /\ GoTo(c, "finishing", done)
        \/ /\ rec.subtitle /\ ~rec.timestamps
           /\ \/ GoTo(c, "finishing", [done EXCEPT !.timestamps = TRUE])
              \/ GoTo(c, "finishing", [rec EXCEPT !.error = TRUE])
     /\ UNCHANGED DiskVars

FinishDownload(c) ==
  /\ caller[c].pc = "finishing"
  /\ \/ SaveJob(caller[c].job, caller[c].rec) /\ Return(c, "ok")
     \/ UNCHANGED record /\ Return(c, "rejected")
  /\ UNCHANGED <<offered, upstream, paid, sent, downloads>>

-----------------------------------------------------------------------------
(* A run that finds no record chooses a service. *)

ExtensionOf(service) ==
  IF service \in Xai THEN "xai" ELSE IF service \in Runway THEN "runway"
  ELSE IF service \in {"seedance", "seedance25"} THEN "seedance" ELSE service

\* The mode as the caller, or the tool for it, gives it.
ModeOf(q) ==
  IF q.extension = "xai" THEN XaiOperation(q.mode, q.inputs)
  ELSE IF q.extension = "runway" THEN RunwayOperation(q.mode, q.inputs)
  ELSE IF q.mode = "omitted" THEN InferMode(q.inputs) ELSE q.mode

\* The services of a request's extension that take it.  Sound has no inputs.
Accepting ==
  [q \in Requests |->
     {s \in Configured : ExtensionOf(s) = q.extension /\ (q.kind = "video" => Preflight(s, ModeOf(q), q.inputs))}]

\* The URL the service gave for a file it made itself in an earlier job.
SourceUrl(input, service) ==
  /\ input.from \in Jobs
  /\ record[input.from].phase = "succeeded" /\ record[input.from].service = service
  /\ record[input.from].artifact /\ record[input.from].url

SourceTask(input, service) ==
  /\ input.from \in Jobs
  /\ record[input.from].phase = "succeeded" /\ record[input.from].service = service
  /\ record[input.from].task

SendsBlob(service, input) == MediaType(input.role) \in Services[service].blobs

\* Routing looks at every local file: sent along, or known by its URL.
RoutableBlobs(service, q) ==
  \A i \in DOMAIN q.inputs :
    q.inputs[i].source = "blob" => SendsBlob(service, q.inputs[i]) \/ SourceUrl(q.inputs[i], service)

\* The first service in order that is ready and takes the request.
Routed(q, ready) ==
  LET fit == {i \in DOMAIN Order : /\ Order[i] \in Accepting[q] \cap ready
                                   /\ q.kind = "video" => RoutableBlobs(Order[i], q)}
  IN {Order[i] : i \in {i \in fit : \A k \in fit : i <= k}}

Plan(q, service, routed) ==
  [service |-> service, kind |-> q.kind, mode |-> ModeOf(q), inputs |-> q.inputs,
   delivery |-> q.delivery, routed |-> routed]

MayRun(c) == Entering(c) /\ caller[c].op = "run" /\ Here(c) = NoRecord

Refuse(c) ==
  /\ MayRun(c)
  /\ Return(c, "rejected")
  /\ UNCHANGED DiskVars

\* With no service named the order decides, else the named one must take it.
Route(c, q) ==
  /\ MayRun(c)
  /\ \/ \E ready \in SUBSET {s \in Configured : ExtensionOf(s) = q.extension} :
         \E s \in Routed(q, ready) :
           caller' = [caller EXCEPT ![c].pc = "submit_queue", ![c].plan = Plan(q, s, TRUE)]
     \/ \E s \in Accepting[q] :
           caller' = [caller EXCEPT ![c].pc = "submit_queue", ![c].plan = Plan(q, s, FALSE)]
  /\ UNCHANGED DiskVars

Submitting == {"resolving", "recording", "posting", "answered", "asr_posting"}

Submits(c) ==
  /\ caller[c].pc = "submit_queue"
  /\ Cardinality(Holders(Submitting)) < SubmitPermits
  /\ GoTo(c, "resolving", caller[c].rec)
  /\ UNCHANGED DiskVars

Made(j) == record[j] # NoRecord /\ record[j].artifact

Resolvable(service, input) ==
  CASE input.source \in {"voice", "url"} -> TRUE
    [] input.source = "job" -> SourceTask(input, service)
    [] input.source = "blob" -> /\ input.from \in Jobs => Made(input.from)
                               /\ (SendsBlob(service, input) \/ SourceUrl(input, service))

CountActive == Cardinality({j \in Jobs : record[j].phase \in Active})

\* The request as it goes out, and how its answer comes back.
DraftOf(plan) ==
  [service |-> plan.service, kind |-> plan.kind, mode |-> plan.mode, routed |-> plan.routed,
   delivery |-> plan.delivery,
   whole |-> plan.kind = "video" => BodyOf(plan.service, plan.mode, plan.inputs).carried = DOMAIN plan.inputs]

\* Inputs become URIs (some are uploaded), the body is written, and then the
\* active jobs are counted.
Resolve(c) ==
  LET plan == caller[c].plan
  IN /\ caller[c].pc = "resolving"
     /\ \/ /\ \A i \in DOMAIN plan.inputs : Resolvable(plan.service, plan.inputs[i])
           /\ CountActive < MaxActive
           /\ caller' = [caller EXCEPT ![c].pc = "recording", ![c].rec = Job(plan), ![c].plan = DraftOf(plan)]
        \/ Return(c, "rejected")
     /\ UNCHANGED DiskVars

\* Mutant: a record that cannot be saved does not stop the submission.
SubmitsUnrecorded(c) ==
  /\ caller[c].pc = "recording"
  /\ SaveJob(caller[c].job, caller[c].rec) \/ UNCHANGED record
  /\ GoTo(c, "posting", caller[c].rec)
  /\ UNCHANGED <<offered, upstream, paid, sent, downloads>>

RecordSubmitting(c) ==
  /\ caller[c].pc = "recording"
  /\ \/ SaveJob(caller[c].job, caller[c].rec) /\ GoTo(c, "posting", caller[c].rec)
     \/ UNCHANGED record /\ Return(c, "rejected")
  /\ UNCHANGED <<offered, upstream, paid, sent, downloads>>

\* What the caller makes of the answer, if it gets and can read one.
Answered(rec, plan) ==
  IF plan.kind = "video" THEN {[rec EXCEPT !.phase = "running", !.task = TRUE]}
  ELSE IF plan.delivery = "stream" THEN {[rec EXCEPT !.phase = "succeeded", !.artifact = TRUE]}
  ELSE IF plan.delivery = "timed"
       THEN {[rec EXCEPT !.phase = "succeeded", !.artifact = TRUE, !.timestamps = TRUE]}
  ELSE {[rec EXCEPT !.phase = "downloading", !.url = TRUE, !.subtitle = b] : b \in BOOLEAN}

\* With the sound stored, its timestamps may still fail to be.
Unanswered(rec, plan) ==
  {[rec EXCEPT !.phase = "outcome_unknown", !.error = TRUE, !.artifact = a] :
     a \in IF plan.delivery = "timed" THEN BOOLEAN ELSE {FALSE}}

\* The paid request: taken or not, and answered or not.
Post(c) ==
  LET j == caller[c].job
      plan == caller[c].plan
  IN /\ caller[c].pc = "posting"
     /\ paid' = [paid EXCEPT ![j] = @ + 1]
     /\ sent' = [sent EXCEPT ![j] = [service |-> plan.service, mode |-> plan.mode,
                                     routed |-> plan.routed, whole |-> plan.whole]]
     /\ \E taken \in BOOLEAN,
           rec \in Answered(caller[c].rec, plan) \cup Unanswered(caller[c].rec, plan) :
          /\ rec.phase # "outcome_unknown" \/ rec.artifact => taken
          /\ upstream' = [upstream EXCEPT ![j] = IF ~taken THEN "none"
                                               ELSE IF plan.kind = "video" THEN "running" ELSE "done"]
          /\ caller' = [caller EXCEPT ![c].pc = "answered", ![c].rec = rec, ![c].plan = NoPlan,
                                      ![c].charged = taken]
     /\ UNCHANGED <<offered, record, downloads>>

\* A result that cannot be recorded is reported unknown and stays submitting.
RecordAnswer(c) ==
  /\ caller[c].pc = "answered"
  /\ SaveJob(caller[c].job, caller[c].rec) \/ UNCHANGED record
  /\ Return(c, "ok")
  /\ UNCHANGED <<offered, upstream, paid, sent, downloads>>

-----------------------------------------------------------------------------
(* The service works on a task; calls are dropped; the process dies. *)

UpstreamEnds(j) ==
  /\ upstream[j] = "running"
  /\ \E end \in {"done", "failed"} : upstream' = [upstream EXCEPT ![j] = end]
  /\ UNCHANGED <<offered, record, paid, sent, downloads, caller>>

Drop(c) ==
  /\ caller[c].pc \notin Resting
  /\ Return(c, "dropped")
  /\ UNCHANGED DiskVars

Crash ==
  /\ \E c \in Callers : caller[c].pc \notin Resting
  /\ caller' = [c \in Callers |-> Rest("idle", FALSE)]
  /\ UNCHANGED DiskVars

Asked(c) == IF caller[c].job \in Jobs THEN Offer[offered].jobs[caller[c].job] ELSE {}
Offering == {j \in Jobs : Offer[offered].jobs[j] # {}}

JobStep(c) ==
  \/ StatusMissing(c) \/ AdvanceInterrupted(c) \/ AdvanceAtRest(c) \/ AdvancePolls(c)
  \/ Queries(c) \/ QueryFails(c)
  \/ \E word \in UNION {Words(state) : state \in {"running", "done", "failed"}} : QueryAnswers(c, word)
  \/ Downloads(c) \/ Download(c) \/ Subtitles(c) \/ FinishDownload(c)
  \/ Refuse(c) \/ \E q \in Asked(c) : Route(c, q)
  \/ Submits(c) \/ Resolve(c) \/ RecordSubmitting(c) \/ Post(c) \/ RecordAnswer(c)

JobNext ==
  \/ \E c \in Callers : \/ \E j \in Offering, op \in {"run", "status"} : CallJob(c, op, j)
                        \/ JobStep(c) \/ Drop(c)
  \/ \E j \in Jobs : UpstreamEnds(j)
  \/ Crash

=============================================================================
