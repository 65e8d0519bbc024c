----------------------------- MODULE PaidCalls -----------------------------
(***************************************************************************)
(* Calls that pay for what they do without a job record: image generation, *)
(* and transcription, which shares the submission permits of the jobs.     *)
(* Such a call must tell the model whether it was rejected, and may safely *)
(* be made again, or its outcome is unknown.                               *)
(*                                                                         *)
(* An image call sends one paid request and then only queries, each query  *)
(* tried three times.  It has ten minutes; what it reports when they are   *)
(* over depends on whether the paid request had been begun.                *)
(***************************************************************************)
EXTENDS MediaJobs, ImageServices

CONSTANTS ImageConfigured, \* the configured image services
          ImagePermits     \* image calls at a time (2)

ASSUME PaidAssumption == ImagePermits \in Nat \ {0}

QueryAttempts == 3

ImageRequests == UNION {Offer[o].images : o \in OfferNames}

ASSUME ImageAssumption ==
  /\ ImageConfigured \subseteq DOMAIN ImageDrivers
  /\ \A q \in ImageRequests :
       q.images \in Seq({"local", "remote"}) /\ q.overlay \in Overlays /\ q.references \in Nat

AcceptingImages == [q \in ImageRequests |-> {d \in ImageConfigured : AcceptsImages(d, q)}]

ImageWorking == {"image_preparing", "image_posting", "image_querying", "image_storing"}

CallImage(c, q) ==
  /\ caller[c].pc \in Resting
  /\ caller' = [caller EXCEPT ![c] =
       IF WellFormedImages(q)
       THEN [Rest("image_queue", FALSE) EXCEPT !.op = "image", !.plan = [service |-> "none", request |-> q]]
       ELSE Rest("rejected", FALSE)]
  /\ UNCHANGED DiskVars

\* A named service is taken as it is, else the first that is ready and accepts
\* the request: any that accepts it, with those before it not ready.
ImageRoutes(c) ==
  /\ caller[c].pc = "image_queue"
  /\ Cardinality(Holders(ImageWorking)) < ImagePermits
  /\ \/ \E named \in BOOLEAN :
          \E d \in IF named THEN ImageConfigured ELSE AcceptingImages[caller[c].plan.request] :
            caller' = [caller EXCEPT ![c].pc = "image_preparing", ![c].plan.service = d]
     \/ Return(c, "rejected")
  /\ UNCHANGED DiskVars

\* The request is checked against the model again, its images are loaded,
\* prepared and uploaded, and the draft is written; each may fail.  Then the
\* paid request is begun, which the service may take.
ImagePrepares(c) ==
  LET plan == caller[c].plan
      draft == WithImages(plan.service, plan.request)
  IN /\ caller[c].pc = "image_preparing"
     /\ \/ /\ AcceptsImages(plan.service, plan.request) /\ draft.ok
           /\ \E taken \in BOOLEAN :
                caller' = [caller EXCEPT ![c].pc = "image_posting", ![c].charged = taken,
                             ![c].plan = [service |-> plan.service, whole |-> CarriesAll(draft, plan.request)]]
        \/ Return(c, "rejected")
     /\ UNCHANGED DiskVars

\* What a service may say to the paid request, to a query, and at the end.
FirstWords == {"sample", "id", "IN_QUEUE", "starting", "task", "QUEUED", "data", "output", "candidates",
               "steps", "outputs", "images", "image", "error"}
LaterWords == {"sample", "Pending", "Failed", "images", "COMPLETED", "succeeded", "processing", "failed",
               "done", "generating", "expired", "SUCCESS", "RUNNING", "FAILED"}

\* After a reply the call goes on, or ends with its outcome unknown.
ImageDecoded(c, reply) ==
  IF reply \in {"complete", "pending"}
  THEN caller' = [caller EXCEPT ![c].pc = IF reply = "complete" THEN "image_storing" ELSE "image_querying",
                                ![c].attempts = 0]
  ELSE Return(c, "unknown")

ImagePosts(c) ==
  /\ caller[c].pc = "image_posting"
  /\ \/ /\ caller[c].charged
        /\ \E word \in FirstWords : ImageDecoded(c, DecodeImages(caller[c].plan.service, word))
     \/ Return(c, "unknown")
  /\ UNCHANGED DiskVars

\* A query that fails is made again, up to three times in all.
ImageQueries(c) ==
  /\ caller[c].pc = "image_querying"
  /\ \/ \E word \in LaterWords : ImageDecoded(c, DecodeImages(caller[c].plan.service, word))
     \/ IF caller[c].attempts + 1 < QueryAttempts
        THEN caller' = [caller EXCEPT ![c].attempts = @ + 1]
        ELSE Return(c, "unknown")
  /\ UNCHANGED DiskVars

\* The images are fetched, checked and stored.
ImageStores(c) ==
  /\ caller[c].pc = "image_storing"
  /\ \E result \in {"ok", "unknown"} : Return(c, result)
  /\ UNCHANGED DiskVars

\* Ten minutes are over: rejected until the paid request is begun.
ImageTimesOut(c) ==
  /\ caller[c].pc \in ImageWorking
  /\ Return(c, IF caller[c].pc = "image_preparing" THEN "rejected" ELSE "unknown")
  /\ UNCHANGED DiskVars

-----------------------------------------------------------------------------
(* Transcription: one paid request, its answer stored with the session. *)

CallTranscription(c) ==
  /\ caller[c].pc \in Resting /\ Offer[offered].transcription
  /\ caller' = [caller EXCEPT ![c] = [Rest("asr_queue", FALSE) EXCEPT !.op = "transcribe"]]
  /\ UNCHANGED DiskVars

\* The file, the service, its account and the request are checked in turn.
TranscriptionStarts(c) ==
  /\ caller[c].pc = "asr_queue"
  /\ Cardinality(Holders(Submitting)) < SubmitPermits
  /\ \/ GoTo(c, "asr_posting", NoRecord)
     \/ Return(c, "rejected")
  /\ UNCHANGED DiskVars

\* A refusal below 500 is a rejection; nothing else that goes wrong is.
AnswerClass(answer) ==
  IF answer = "refused" THEN "rejected"
  ELSE IF answer = "stored" THEN "ok" ELSE "unknown"

\* A service that refuses the request has not taken it.
TranscriptionPosts(c) ==
  /\ caller[c].pc = "asr_posting"
  /\ \E taken \in BOOLEAN, answer \in {"lost", "server_error", "refused", "unreadable", "not_stored", "stored"} :
       /\ answer \in {"unreadable", "not_stored", "stored"} => taken
       /\ answer = "refused" => ~taken
       /\ caller' = [caller EXCEPT ![c] = IF AnswerClass(answer) = "rejected" THEN Rest("rejected", taken)
                                          ELSE Rest("idle", FALSE)]
  /\ UNCHANGED DiskVars

-----------------------------------------------------------------------------
PaidStep(c) ==
  \/ \E q \in Offer[offered].images : CallImage(c, q)
  \/ ImageRoutes(c) \/ ImagePrepares(c) \/ ImagePosts(c) \/ ImageQueries(c)
  \/ ImageStores(c) \/ ImageTimesOut(c)
  \/ CallTranscription(c) \/ TranscriptionStarts(c) \/ TranscriptionPosts(c)

MediaNext == JobNext \/ \E c \in Callers : PaidStep(c)
MediaSpec == MediaInit /\ [][MediaNext]_mediaVars

-----------------------------------------------------------------------------
(* Properties. *)

MediaTypeOK ==
  /\ offered \in OfferNames
  /\ \A j \in Jobs : /\ record[j].phase \in Active \cup Terminal \cup {"none"}
                    /\ upstream[j] \in {"none", "running", "done", "failed"}
                    /\ paid[j] \in Nat /\ downloads[j] \in 0..MaxDownloads
  /\ \A c \in Callers : caller[c].charged \in BOOLEAN /\ caller[c].attempts \in 0..(QueryAttempts - 1)

\* However calls are dropped, repeated or cut off by a crash, a job is paid
\* for at most once, and never without a record that says so; and a call reported
\* as rejected, and so as safe to repeat, was not charged, whether it failed, was
\* refused or ran out of time.
PaidOnce ==
  /\ \A j \in Jobs : paid[j] <= 1 /\ (paid[j] = 1 => record[j] # NoRecord)
  /\ \A c \in Callers : caller[c].pc = "rejected" => ~caller[c].charged

\* What the record claims is so: a job that succeeded has its artifact and,
\* where there are subtitles, its timestamps; a job that failed did fail at
\* the service; a job that runs was taken and paid for.
PhaseTrue ==
  \A j \in Jobs :
    LET rec == record[j]
    IN /\ rec.phase = "succeeded" => rec.artifact /\ (rec.subtitle => rec.timestamps)
       /\ rec.phase = "failed" => upstream[j] = "failed"
       /\ rec.phase \in {"running", "downloading"} => paid[j] = 1 /\ upstream[j] # "none"

\* Whatever service the order or the caller picks, the paid request carries
\* every input the request has.
InputsCarried ==
  /\ \A j \in Jobs : sent[j].whole
  /\ \A c \in Callers : caller[c].pc \in {"image_posting", "image_querying"} => caller[c].plan.whole

=============================================================================
