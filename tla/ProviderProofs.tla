--------------------------- MODULE ProviderProofs ---------------------------
(***************************************************************************)
(* What goes to the providers and what comes back, proved for every number *)
(* of jobs, calls, services, inputs and pieces: a job is paid for once,    *)
(* its record is true, and the one paid request carries every input, since *)
(* what a contract accepts the body has a place for; and what the promise  *)
(* of a model's answer means: order without holes or repetitions, and      *)
(* settled output that stays.                                              *)
(***************************************************************************)
EXTENDS PaidCalls, LogicalAnswer, FiniteSetTheorems, TLAPS

-----------------------------------------------------------------------------
(* What a body carries. *)

\* A list of inputs.
InputList == Seq(Input)

\* The positions of some roles, counted.
LEMMA NoneCounted ==
  ASSUME NEW inputs \in InputList, NEW roles, Count(inputs, roles) = 0
  PROVE  At(inputs, roles) = {}
<1>1. DOMAIN inputs = 1 .. Len(inputs) /\ Len(inputs) \in Nat
  BY DEF InputList
<1>2. IsFiniteSet(DOMAIN inputs)
  BY <1>1, FS_Interval
<1>3. IsFiniteSet(At(inputs, roles))
  BY <1>2, FS_Subset DEF At
<1> QED
  BY <1>3, FS_EmptySet DEF Count

\* Where there is one there are some.
LEMMA SomeCounted ==
  ASSUME NEW inputs, NEW roles, Count(inputs, roles) = 1
  PROVE  At(inputs, roles) # {}
  BY FS_EmptySet DEF Count

\* What luma accepts it sends.
LEMMA LumaCarries ==
  ASSUME NEW inputs \in InputList, NEW mode, LumaContract(mode, inputs)
  PROVE  LumaBody(mode, inputs).carried = DOMAIN inputs
<1>1. mode \in {"text", "frames", "edit", "extend"}
  BY DEF LumaContract, ValidateSources, LumaVideo, Capabilities, Frames
<1>2. \A i \in DOMAIN inputs : inputs[i].role \in {"first_frame", "last_frame", "source_video"}
  BY DEF LumaContract, ValidateSources, LumaVideo, Capabilities, Frames
<1>3. CASE mode = "text"
  <2>1. inputs = << >>
    BY <1>3 DEF LumaContract, ModeInputs
  <2> QED
    BY <1>3, <2>1 DEF LumaBody, Body
<1>4. CASE mode = "frames"
  <2>1. \A i \in DOMAIN inputs : inputs[i].role \in {"first_frame", "last_frame"}
    BY <1>4 DEF LumaContract, ModeInputs, OnlyRoles, Frames, At
  <2> QED
    BY <1>4, <2>1 DEF LumaBody, Body, At
<1>5. CASE mode = "edit"
  <2>1. At(inputs, {"last_frame"}) = {} /\ At(inputs, {"source_video"}) # {}
    BY <1>5, NoneCounted, SomeCounted DEF LumaContract, ModeInputs
  <2> QED
    BY <1>2, <1>5, <2>1 DEF LumaBody, Body, At
<1>6. CASE mode = "extend"
  <2>1. At(inputs, {"first_frame"}) = {} /\ At(inputs, {"source_video"}) # {}
    BY <1>6, NoneCounted, SomeCounted DEF LumaContract, ModeInputs
  <2> QED
    BY <1>2, <1>6, <2>1 DEF LumaBody, Body, At
<1> QED
  BY <1>1, <1>3, <1>4, <1>5, <1>6

\* What xAI's models accept they send, if there is a body at all.
LEMMA XaiCarries ==
  ASSUME NEW inputs \in InputList, NEW mode, NEW service \in Xai, XaiContract(service, mode, inputs),
         XaiBody(service, mode, inputs).ok
  PROVE  XaiBody(service, mode, inputs).carried = DOMAIN inputs
<1>0. mode \in Modes
  BY DEF XaiContract, ValidateSources, Services, Xai, XaiModern, XaiLite, XaiClassic, Capabilities,
         Modes
<1>1. CASE mode \in {"edit", "extend"}
  <2>1. Len(inputs) = 1 /\ DOMAIN inputs = {1}
    BY <1>1 DEF XaiContract, InputList
  <2> QED
    BY <1>1, <2>1 DEF XaiBody, Body, NoBody
<1>2. CASE mode \in {"text", "frames", "reference"}
  <2>1. \A i \in DOMAIN inputs :
          inputs[i].role \in {"reference_image", "last_frame", "keyframe", "reference_voice",
                              "first_frame"}
    BY <1>2 DEF XaiContract, OnlyRoles, At, Frames
  <2> QED
    BY <1>2, <2>1 DEF XaiBody, Body, NoBody, At
<1> QED
  BY <1>0, <1>1, <1>2 DEF Modes

\* What RunningHub accepts it sends, if there is a body at all.
LEMMA RunningHubCarries ==
  ASSUME NEW inputs \in InputList, NEW mode, RunningHubContract(mode, inputs),
         RunningHubBody(mode, inputs).ok
  PROVE  RunningHubBody(mode, inputs).carried = DOMAIN inputs
<1>0. mode \in Modes
  BY DEF RunningHubContract, ValidateSources, RunningHubVideo, Capabilities
<1>1. CASE mode = "text"
  <2>1. inputs = << >>
    BY <1>1 DEF RunningHubContract, ModeInputs
  <2> QED
    BY <1>1, <2>1 DEF RunningHubBody, Body
<1>2. CASE mode = "frames"
  BY <1>2 DEF RunningHubBody, Body, NoBody
<1>3. CASE mode = "reference"
  <2>1. \A i \in DOMAIN inputs : inputs[i].role \in References
    BY <1>3 DEF RunningHubContract, ModeInputs, OnlyRoles, At
  <2> QED
    BY <1>3, <2>1 DEF RunningHubBody, Body, At
<1>4. CASE mode \in {"edit", "extend"}
  <2>1. \A i \in DOMAIN inputs : inputs[i].role \in Frames \cup References \cup {"source_video"}
    BY DEF RunningHubContract, ValidateSources, RunningHubVideo, Capabilities
  <2>2. \A i \in DOMAIN inputs : inputs[i].role \notin Frames
    BY <1>4 DEF RunningHubContract, At
  <2>3. At(inputs, References \cup {"source_video"}) = DOMAIN inputs
    BY <2>1, <2>2 DEF At
  <2> QED
    BY <1>4, <2>3 DEF RunningHubBody, Body
<1> QED
  BY <1>0, <1>1, <1>2, <1>3, <1>4 DEF Modes

\* What Xiaoyunque accepts it sends.
LEMMA XiaoyunqueCarries ==
  ASSUME NEW inputs \in InputList, NEW mode, XiaoyunqueContract(mode, inputs)
  PROVE  XiaoyunqueBody(inputs).carried = DOMAIN inputs
<1>1. \A i \in DOMAIN inputs : inputs[i].role \in {"reference_image", "reference_video"}
  BY DEF XiaoyunqueContract, ValidateSources, XiaoyunqueVideo, Capabilities
<1> QED
  BY <1>1 DEF XiaoyunqueBody, Body, At

\* Whatever model takes a request, the body it sends has every input of it: no input is accepted
\* and then left out (validate, body of every driver of the extensions).
THEOREM BodiesAreWhole ==
  ASSUME NEW service \in DOMAIN Services, NEW mode, NEW inputs \in InputList,
         Preflight(service, mode, inputs)
  PROVE  BodyOf(service, mode, inputs).carried = DOMAIN inputs
<1>1. CASE service \in Runway
  <2>1. BodyOf(service, mode, inputs) = RunwayPlanBody(mode, inputs)
    BY <1>1 DEF BodyOf, Runway, Xai
  <2> QED
    BY <2>1 DEF Preflight, RunwayPlanBody, Body, NoBody
<1>2. CASE service \in Xai
  <2>1. /\ BodyOf(service, mode, inputs) = XaiBody(service, mode, inputs)
        /\ Contract(service, mode, inputs) = XaiContract(service, mode, inputs)
    BY <1>2 DEF BodyOf, Contract, Runway, Xai
  <2> QED
    BY <1>2, <2>1, XaiCarries DEF Preflight, Runway, Xai
<1>3. CASE service = "luma"
  BY <1>3, LumaCarries DEF Preflight, BodyOf, Contract, Runway, Xai
<1>4. CASE service = "minimax" \/ service \in {"seedance", "seedance25"}
  BY <1>4 DEF BodyOf, Runway, Xai, MiniMaxBody, SeedanceBody, Body
<1>5. CASE service = "runninghub"
  BY <1>5, RunningHubCarries DEF Preflight, BodyOf, Contract, Runway, Xai
<1>6. CASE service = "xiaoyunque"
  BY <1>6, XiaoyunqueCarries DEF Preflight, BodyOf, Contract, Runway, Xai
<1> QED
  BY <1>1, <1>2, <1>3, <1>4, <1>5, <1>6 DEF Services, Runway, Xai

\* Whatever image model accepts a well-formed request, its draft has every image, the overlay and
\* the references of it (with_images of every driver).
THEOREM DraftsAreWhole ==
  ASSUME NEW driver \in DOMAIN ImageDrivers, NEW q, WellFormedImages(q), AcceptsImages(driver, q),
         q.images \in Seq({"local", "remote"}), q.overlay \in Overlays, q.references \in Nat,
         WithImages(driver, q).ok
  PROVE  CarriesAll(WithImages(driver, q), q)
<1> DEFINE caps == ImageDrivers[driver]
<1>0. AcceptsReferenceCount(caps, Len(q.images))
  BY DEF AcceptsImages
<1>1. q.overlay # "none" => q.overlay \in caps.overlays
  BY DEF AcceptsImages, OverlayEditing
<1>2. driver # "novelai" => q.references = 0
  BY DEF AcceptsImages, PreciseReferences
<1>3. \A o \in Overlays : o = "none" \/ o = "mask" \/ o = "markup"
  BY DEF Overlays
<1>4. CASE driver = "bfl_fill"
  BY <1>0, <1>2, <1>4 DEF WithImages, BflFillDraft, Draft, NoDraft, CarriesAll
<1>5. CASE driver = "openai"
  BY <1>0, <1>2, <1>5 DEF WithImages, OpenaiDraft, Draft, NoDraft, CarriesAll, WellFormedImages
<1>6. CASE driver = "novelai"
  <2>1. caps.limit = 1 /\ caps.overlays = {}
    BY <1>6 DEF ImageDrivers, NovelaiImages, ImageCapabilities
  <2>2. q.overlay = "none" /\ Len(q.images) <= 1
    BY <1>0, <1>1, <2>1 DEF AcceptsReferenceCount
  <2>3. [i \in DOMAIN q.images \cap {1} |-> q.images[i]] = q.images
    BY <2>2
  <2> QED
    BY <1>0, <1>6, <2>2, <2>3 DEF WithImages, NovelaiDraft, Draft, NoDraft, CarriesAll
<1>7. CASE driver \in DOMAIN ImageDrivers \ {"bfl_fill", "openai", "novelai"}
  <2>1. q.overlay = "none"
    <3>1. caps.overlays = {}
      BY <1>7 DEF ImageDrivers, ImageCapabilities, PlainImages, WanImages, BflImages, BflFill,
         GeminiImages, InteractionsImages, JimengImages, NovelaiImages, OpenaiImages, CodexImages,
         RunninghubImages, SeedreamImages, XaiImages
    <3> QED
      BY <1>1, <3>1
  <2>2. q.references = 0
    BY <1>2, <1>7
  <2>3. ASSUME driver \in {"wan", "bfl", "gemini", "interactions", "jimeng", "codex", "runninghub",
                           "seedream", "xai"}
        PROVE  CarriesAll(WithImages(driver, q), q)
    BY <1>0, <2>1, <2>2, <2>3 DEF WithImages, WanDraft, BflDraft, GeminiDraft, InteractionsDraft,
       JimengDraft, CodexDraft, RunninghubDraft, SeedreamDraft, XaiImageDraft, Draft, NoDraft,
       CarriesAll
  <2>4. ASSUME driver \in {"fal", "replicate", "siliconflow", "stability", "together"}
        PROVE  CarriesAll(WithImages(driver, q), q)
    BY <1>0, <2>1, <2>2, <2>4 DEF WithImages, DefaultDraft, Draft, NoDraft, CarriesAll
  <2> QED
    BY <1>7, <2>3, <2>4 DEF ImageDrivers
<1> QED
  BY <1>4, <1>5, <1>6, <1>7

-----------------------------------------------------------------------------
(* The invariant. *)

\* A job's record, once there is one.
JobRecord ==
  [phase : Active \cup Terminal, service : DOMAIN Services, task : BOOLEAN, url : BOOLEAN,
   subtitle : BOOLEAN, artifact : BOOLEAN, timestamps : BOOLEAN, error : BOOLEAN, polled : BOOLEAN]

\* What a call plans: a request with a service that takes it, ...
Planned == UNION {{Plan(q, s, b) : s \in Accepting[q], b \in BOOLEAN} : q \in Requests}

\* ... the request as it goes out, whole, ...
Drafted == {p \in {DraftOf(plan) : plan \in Planned} : p.whole}

\* ... images, before and after their service is chosen, ...
ImageAsked ==
  UNION {{[service |-> d, request |-> q] : d \in ImageConfigured \cup {"none"}} :
           q \in {r \in ImageRequests : WellFormedImages(r)}}

\* ... and images as they go out, whole.
ImageDrafted == {[service |-> d, whole |-> TRUE] : d \in ImageConfigured}

\* The steps of a call that holds its job's lock.
Holding ==
  {"query_queue", "querying", "download_queue", "downloading", "subtitles", "finishing",
   "submit_queue", "resolving", "recording", "posting", "answered"}

\* The other steps, of a call that has no job.
Jobless == Resting \cup ImageWorking \cup {"image_queue", "asr_queue", "asr_posting"}

\* A call.
Call ==
  [pc : Holding \cup Jobless \cup {"waiting"},
   op : {"none", "run", "status", "image", "transcribe"}, job : Jobs \cup {NoJob},
   rec : {NoRecord} \cup JobRecord,
   plan : {NoPlan} \cup Planned \cup Drafted \cup ImageAsked \cup ImageDrafted,
   charged : BOOLEAN, attempts : 0 .. (QueryAttempts - 1)]

\* The types of all of it.
MediaData ==
  /\ offered \in OfferNames
  /\ record \in [Jobs -> {NoRecord} \cup JobRecord]
  /\ upstream \in [Jobs -> {"none", "running", "done", "failed"}]
  /\ paid \in [Jobs -> {0, 1}]
  /\ DOMAIN sent = Jobs
  /\ downloads \in [Jobs -> 0 .. MaxDownloads]
  /\ caller \in [Callers -> Call]

\* What a call has at its step, and what it may have cost so far.
CallTrue(c) ==
  /\ caller[c].pc \in Jobless <=> caller[c].job = NoJob
  /\ caller[c].charged =>
       caller[c].pc \in {"answered", "image_posting", "image_querying", "image_storing"}
  /\ caller[c].pc \in {"submit_queue", "resolving"} => caller[c].plan \in Planned
  /\ caller[c].pc \in {"recording", "posting"} => caller[c].plan \in Drafted
  /\ caller[c].pc \in {"image_queue", "image_preparing"} => caller[c].plan \in ImageAsked
  /\ caller[c].pc = "image_preparing" => caller[c].plan.service \in ImageConfigured
  /\ caller[c].pc \in {"image_posting", "image_querying"} => caller[c].plan \in ImageDrafted

\* A job that has succeeded is complete.
Complete(rec) == rec.phase = "succeeded" => rec.artifact /\ (rec.subtitle => rec.timestamps)

\* What the holder of a job's lock knows of it: the record is as the call has read or written it.
HolderTrue(c) ==
  LET j == caller[c].job
      rec == caller[c].rec
  IN /\ caller[c].pc \in {"query_queue", "querying"} =>
          rec = record[j] /\ rec.phase \in {"running", "downloading"}
     /\ caller[c].pc \in {"download_queue", "downloading"} =>
          rec = record[j] /\ rec.phase = "downloading"
     /\ caller[c].pc = "subtitles" => rec = record[j] /\ rec.phase = "downloading" /\ rec.artifact
     /\ caller[c].pc = "finishing" =>
          /\ record[j].phase = "downloading"
          /\ rec \in JobRecord /\ rec.phase \in {"downloading", "succeeded"} /\ Complete(rec)
     /\ caller[c].pc \in {"submit_queue", "resolving", "recording"} => record[j] = NoRecord
     /\ caller[c].pc = "recording" => rec \in JobRecord
     /\ caller[c].pc \in {"recording", "posting"} =>
          rec.phase = "submitting" /\ ~ rec.subtitle /\ ~ rec.artifact
     /\ caller[c].pc = "posting" => rec = record[j] /\ paid[j] = 0
     /\ caller[c].pc = "answered" =>
          /\ record[j].phase = "submitting" /\ paid[j] = 1
          /\ rec \in JobRecord /\ Complete(rec)
          /\ rec.phase \in {"running", "downloading", "succeeded", "outcome_unknown"}
          /\ rec.phase \in {"running", "downloading"} => upstream[j] # "none"

\* What a record tells of its job, and nobody but the holder can have sent the request.
RecordTrue(j) ==
  /\ record[j] = NoRecord => paid[j] = 0
  /\ Complete(record[j])
  /\ record[j].phase = "failed" => upstream[j] = "failed"
  /\ record[j].phase \in {"running", "downloading"} => paid[j] = 1 /\ upstream[j] # "none"
  /\ sent[j].whole

\* No two calls hold the lock of one job.
OneHolder == \A c, d \in Callers, j \in Jobs : HoldsLock(c, j) /\ HoldsLock(d, j) => c = d

\* The inductive invariant of media jobs and paid calls.
MediaInv ==
  /\ MediaData /\ OneHolder
  /\ \A c \in Callers : CallTrue(c) /\ HolderTrue(c)
  /\ \A j \in Jobs : RecordTrue(j)

-----------------------------------------------------------------------------
(* One step of a call. *)

\* The disk and the services, as far as their types go.
DiskData ==
  /\ offered \in OfferNames
  /\ record \in [Jobs -> {NoRecord} \cup JobRecord]
  /\ upstream \in [Jobs -> {"none", "running", "done", "failed"}]
  /\ paid \in [Jobs -> {0, 1}]
  /\ DOMAIN sent = Jobs
  /\ downloads \in [Jobs -> 0 .. MaxDownloads]

\* Everything of the jobs but j stays.
OnlyJob(j) ==
  \A i \in Jobs : i # j => /\ record'[i] = record[i] /\ upstream'[i] = upstream[i]
                           /\ paid'[i] = paid[i] /\ sent'[i] = sent[i]

\* Nobody else holds the lock of c's job.
Alone(c) == \A d \in Callers : d # c => ~ HoldsLock(d, caller[c].job)

\* The step of one call leaves the others what they know, as long as it only touches its own job
\* and nobody else holds that.
LEMMA CallKeeps ==
  ASSUME MediaInv, NEW c \in Callers, DiskData', caller' \in [Callers -> Call],
         \A d \in Callers : d # c => caller'[d] = caller[d],
         OnlyJob(caller[c].job), caller[c].job \in Jobs => Alone(c),
         \A j \in Jobs : j = caller[c].job => RecordTrue(j)',
         \/ caller'[c].job = NoJob \/ caller'[c].pc = "waiting"
         \/ caller'[c].job = caller[c].job /\ caller[c].job \in Jobs,
         CallTrue(c)', HolderTrue(c)'
  PROVE  MediaInv'
<1>1. MediaData'
  BY DEF DiskData, MediaData
<1>2. ASSUME NEW d \in Callers, d # c PROVE CallTrue(d)' /\ HolderTrue(d)'
  <2>1. caller'[d] = caller[d] /\ CallTrue(d) /\ HolderTrue(d)
    BY <1>2 DEF MediaInv
  <2>2. CallTrue(d)'
    BY <2>1 DEF CallTrue
  <2>3. CASE caller[d].pc \in Holding
    <3>1. caller[d].job \in Jobs
      BY <2>1, <2>3 DEF MediaInv, MediaData, Call, CallTrue, Holding, Jobless, Resting, ImageWorking
    <3>2. caller[d].job # caller[c].job
      BY <1>2, <2>3, <3>1 DEF Alone, HoldsLock, Holding, Resting
    <3> QED
      BY <2>1, <2>2, <3>1, <3>2 DEF OnlyJob, HolderTrue
  <2>4. CASE caller[d].pc \notin Holding
    BY <2>1, <2>2, <2>4 DEF HolderTrue, Holding
  <2> QED
    BY <2>3, <2>4
<1>3. ASSUME NEW j \in Jobs PROVE RecordTrue(j)'
  <2>1. CASE j = caller[c].job
    BY <2>1
  <2>2. CASE j # caller[c].job
    BY <2>2 DEF OnlyJob, MediaInv, RecordTrue
  <2> QED
    BY <2>1, <2>2
<1>4. OneHolder'
  <2> SUFFICES ASSUME NEW a \in Callers, NEW b \in Callers, NEW j \in Jobs, HoldsLock(a, j)',
                      HoldsLock(b, j)', a # b
               PROVE  FALSE
    BY DEF OneHolder
  <2>1. ASSUME NEW d \in Callers, d # c, HoldsLock(d, j)' PROVE HoldsLock(d, j)
    BY <2>1 DEF HoldsLock
  <2>2. ASSUME HoldsLock(c, j)' PROVE \A d \in Callers : d # c => ~ HoldsLock(d, j)
    BY <2>2, RequestAssumption DEF HoldsLock, Alone
  <2> QED
    BY <2>1, <2>2 DEF MediaInv, OneHolder
<1> QED
  BY <1>1, <1>2, <1>3, <1>4 DEF MediaInv

\* A holder is alone, ...
LEMMA HolderAlone ==
  ASSUME MediaInv, NEW c \in Callers, caller[c].pc \in Holding
  PROVE  caller[c].job \in Jobs /\ Alone(c)
<1>1. caller[c].job \in Jobs
  BY DEF MediaInv, MediaData, Call, CallTrue, Holding, Jobless, Resting, ImageWorking
<1>2. HoldsLock(c, caller[c].job)
  BY DEF HoldsLock, Holding, Resting
<1> QED
  BY <1>1, <1>2 DEF MediaInv, OneHolder, Alone

\* ... and so is a call that enters.
LEMMA EntersAlone ==
  ASSUME MediaInv, NEW c \in Callers, Entering(c)
  PROVE  caller[c].job \in Jobs /\ Alone(c) /\ caller[c].pc = "waiting" /\ ~ caller[c].charged
<1>1. caller[c].job \in Jobs
  BY DEF Entering, MediaInv, MediaData, Call, CallTrue, Jobless, Resting, ImageWorking
<1> QED
  BY <1>1 DEF Entering, Alone, MediaInv, CallTrue

\* A call that gives its result has nothing any more.
LEMMA Returns ==
  ASSUME MediaInv, NEW c \in Callers, NEW result, Return(c, result),
         result = "rejected" => ~ caller[c].charged
  PROVE  /\ caller' \in [Callers -> Call] /\ \A d \in Callers : d # c => caller'[d] = caller[d]
         /\ caller'[c].job = NoJob /\ CallTrue(c)' /\ HolderTrue(c)'
<1>0. caller \in [Callers -> Call]
  BY DEF MediaInv, MediaData
<1>1. \A b \in BOOLEAN, pc \in Resting : Rest(pc, b) \in Call
  BY DEF Rest, Call, Resting, Jobless, QueryAttempts
<1>2. caller[c].charged \in BOOLEAN
  BY <1>0 DEF Call
<1>3. PICK pc \in Resting : caller' = [caller EXCEPT ![c] = Rest(pc, FALSE)]
  BY <1>0, <1>2 DEF Return, Resting
<1>4. caller'[c] = Rest(pc, FALSE)
  BY <1>0, <1>3
<1>5. CallTrue(c)' /\ HolderTrue(c)'
  BY <1>4 DEF CallTrue, HolderTrue, Rest, Resting, Jobless
<1> QED
  BY <1>0, <1>1, <1>3, <1>4, <1>5 DEF Rest

\* A call that gives its result, with what it did to its job.
LEMMA ReturnKeeps ==
  ASSUME MediaInv, NEW c \in Callers, NEW result, Return(c, result),
         result = "rejected" => ~ caller[c].charged,
         DiskData', OnlyJob(caller[c].job), caller[c].job \in Jobs => Alone(c),
         \A j \in Jobs : j = caller[c].job => RecordTrue(j)'
  PROVE  MediaInv'
  BY Returns, CallKeeps

\* Nothing happens to the jobs.
LEMMA DiskStays ==
  ASSUME MediaInv, UNCHANGED <<offered, record, upstream, paid, sent, downloads>>, NEW j
  PROVE  DiskData' /\ OnlyJob(j) /\ (j \in Jobs => RecordTrue(j)')
  BY DEF MediaInv, MediaData, DiskData, OnlyJob, RecordTrue

\* A call that only gives its result, however it had got on.
LEMMA ReturnOnly ==
  ASSUME MediaInv, NEW c \in Callers, NEW result, Return(c, result),
         result = "rejected" => ~ caller[c].charged, UNCHANGED DiskVars
  PROVE  MediaInv'
<1>1. UNCHANGED <<offered, record, upstream, paid, sent, downloads>>
  BY DEF DiskVars
<1>2. DiskData' /\ \A j : OnlyJob(j) /\ (j \in Jobs => RecordTrue(j)')
  BY <1>1, DiskStays
<1>3. /\ caller' \in [Callers -> Call] /\ \A d \in Callers : d # c => caller'[d] = caller[d]
      /\ caller'[c].job = NoJob /\ CallTrue(c)' /\ HolderTrue(c)'
  BY Returns
<1>4. MediaData'
  BY <1>2, <1>3 DEF MediaData, DiskData
<1>5. ASSUME NEW d \in Callers PROVE CallTrue(d)' /\ HolderTrue(d)'
  BY <1>1, <1>3 DEF MediaInv, CallTrue, HolderTrue
<1>6. OneHolder'
  BY <1>3, RequestAssumption DEF MediaInv, OneHolder, HoldsLock
<1> QED
  BY <1>2, <1>4, <1>5, <1>6 DEF MediaInv

\* A call that goes on.
LEMMA Going ==
  ASSUME MediaInv, NEW c \in Callers, NEW pc \in Holding \cup Jobless \cup {"waiting"},
         NEW rec \in {NoRecord} \cup JobRecord, GoTo(c, pc, rec)
  PROVE  /\ caller' \in [Callers -> Call] /\ \A d \in Callers : d # c => caller'[d] = caller[d]
         /\ caller'[c].pc = pc /\ caller'[c].rec = rec /\ caller'[c].job = caller[c].job
         /\ caller'[c].plan = caller[c].plan /\ caller'[c].charged = caller[c].charged
<1>0. caller \in [Callers -> Call]
  BY DEF MediaInv, MediaData
<1>1. caller[c] \in Call
  BY <1>0
<1>2. [caller[c] EXCEPT !.pc = pc, !.rec = rec] \in Call
  BY <1>1 DEF Call
<1>3. caller' = [caller EXCEPT ![c] = [caller[c] EXCEPT !.pc = pc, !.rec = rec]]
  BY <1>0, <1>1 DEF GoTo, Call
<1> QED
  BY <1>0, <1>1, <1>2, <1>3 DEF Call

-----------------------------------------------------------------------------
(* The steps on a record that is there. *)

\* A call that goes on with its job, leaving the disk alone.
LEMMA GoOnly ==
  ASSUME MediaInv, NEW c \in Callers, NEW pc \in Holding, caller[c].pc \in Holding \cup {"waiting"},
         caller[c].pc = "waiting" => Entering(c),
         caller' \in [Callers -> Call], \A d \in Callers : d # c => caller'[d] = caller[d],
         caller'[c].job = caller[c].job, UNCHANGED DiskVars, CallTrue(c)', HolderTrue(c)'
  PROVE  MediaInv'
<1>1. UNCHANGED <<offered, record, upstream, paid, sent, downloads>>
  BY DEF DiskVars
<1>2. DiskData' /\ \A j : OnlyJob(j) /\ (j \in Jobs => RecordTrue(j)')
  BY <1>1, DiskStays
<1>3. caller[c].job \in Jobs /\ Alone(c)
  BY HolderAlone, EntersAlone
<1> QED
  BY <1>2, <1>3, CallKeeps

\* Saving a record changes that job's record.
LEMMA Saves ==
  ASSUME MediaInv, NEW j \in Jobs, NEW rec \in JobRecord, SaveJob(j, rec),
         UNCHANGED <<offered, upstream, paid, sent, downloads>>
  PROVE  DiskData' /\ OnlyJob(j) /\ record'[j] = rec
  BY DEF MediaInv, MediaData, DiskData, OnlyJob, SaveJob

\* A record of the kind that is there.
LEMMA RecordThere ==
  ASSUME MediaInv, NEW j \in Jobs, record[j].phase # "none"
  PROVE  record[j] \in JobRecord
  BY DEF MediaInv, MediaData, NoRecord

\* The types of a call.
LEMMA CallTyped ==
  ASSUME MediaInv, NEW c \in Callers
  PROVE  /\ caller[c] \in Call /\ caller[c].rec \in {NoRecord} \cup JobRecord
         /\ CallTrue(c) /\ HolderTrue(c)
  BY DEF MediaInv, MediaData, Call

\* Steps that only end a call.
LEMMA EndingKeeps ==
  ASSUME MediaInv, NEW c \in Callers,
         \/ StatusMissing(c) \/ AdvanceAtRest(c) \/ QueryFails(c) \/ Refuse(c) \/ Drop(c)
  PROVE  MediaInv'
<1>1. caller[c].pc \in {"waiting", "querying"} => ~ caller[c].charged
  BY CallTyped DEF CallTrue
<1>2. CASE StatusMissing(c)
  BY <1>1, <1>2, ReturnOnly DEF StatusMissing, Entering
<1>3. CASE AdvanceAtRest(c)
  BY <1>3, ReturnOnly DEF AdvanceAtRest
<1>4. CASE QueryFails(c)
  BY <1>1, <1>4, ReturnOnly DEF QueryFails
<1>5. CASE Refuse(c)
  BY <1>1, <1>5, ReturnOnly DEF Refuse, MayRun, Entering
<1>6. CASE Drop(c)
  BY <1>6, ReturnOnly DEF Drop
<1> QED
  BY <1>2, <1>3, <1>4, <1>5, <1>6

\* What was under way when the process died, or the call was dropped, is unknown.
LEMMA AdvanceInterruptedKeeps ==
  ASSUME MediaInv, NEW c \in Callers, AdvanceInterrupted(c)
  PROVE  MediaInv'
<1> DEFINE j == caller[c].job
           rec == [record[j] EXCEPT !.phase = "outcome_unknown", !.error = TRUE]
<1>1. Entering(c) /\ record[j].phase = "submitting"
  BY DEF AdvanceInterrupted, Here
<1>2. j \in Jobs /\ Alone(c) /\ ~ caller[c].charged
  BY <1>1, EntersAlone
<1>3. record[j] \in JobRecord
  BY <1>1, <1>2, RecordThere
<1>4. rec \in JobRecord /\ rec.phase = "outcome_unknown"
  BY <1>3 DEF JobRecord, Terminal
<1>5. CASE SaveJob(j, rec) /\ Return(c, "ok")
  <2>1. DiskData' /\ OnlyJob(j) /\ record'[j] = rec
    BY <1>2, <1>4, <1>5, Saves DEF AdvanceInterrupted
  <2>2. sent' = sent
    BY DEF AdvanceInterrupted
  <2>3. ASSUME NEW i \in Jobs, i = j PROVE RecordTrue(i)'
    <3>1. RecordTrue(i)
      BY DEF MediaInv
    <3>2. record'[i].phase = "outcome_unknown"
      BY <1>4, <2>1, <2>3
    <3> QED
      BY <2>2, <3>1, <3>2 DEF RecordTrue, Complete, NoRecord
  <2> QED
    BY <1>2, <1>5, <2>1, <2>3, ReturnKeeps
<1>6. CASE UNCHANGED record /\ Return(c, "rejected")
  BY <1>2, <1>6, ReturnOnly DEF AdvanceInterrupted, DiskVars
<1> QED
  BY <1>5, <1>6 DEF AdvanceInterrupted, Here

\* A poll is on record before it is made.
LEMMA AdvancePollsKeeps ==
  ASSUME MediaInv, NEW c \in Callers, AdvancePolls(c)
  PROVE  MediaInv'
<1> DEFINE j == caller[c].job
           rec == [record[j] EXCEPT !.polled = TRUE]
           pc == IF rec.phase = "running" \/ (rec.error /\ rec.task)
                 THEN "query_queue" ELSE "download_queue"
<1>1. Entering(c) /\ record[j].phase \in {"running", "downloading"}
  BY DEF AdvancePolls, Here
<1>2. j \in Jobs /\ Alone(c) /\ ~ caller[c].charged
  BY <1>1, EntersAlone
<1>3. record[j] \in JobRecord
  BY <1>1, <1>2, RecordThere
<1>4. rec \in JobRecord /\ rec.phase = record[j].phase
  BY <1>3 DEF JobRecord
<1>5. CASE SaveJob(j, rec) /\ GoTo(c, pc, rec)
  <2>1. DiskData' /\ OnlyJob(j) /\ record'[j] = rec
    BY <1>2, <1>4, <1>5, Saves DEF AdvancePolls
  <2>2. UNCHANGED <<upstream, paid, sent>>
    BY DEF AdvancePolls
  <2>3. ASSUME NEW i \in Jobs, i = j PROVE RecordTrue(i)'
    <3>1. RecordTrue(i)
      BY DEF MediaInv
    <3>2. record'[i].phase = record[i].phase /\ record'[i].phase \in {"running", "downloading"}
      BY <1>1, <1>4, <2>1, <2>3
    <3> QED
      BY <2>2, <3>1, <3>2 DEF RecordTrue, Complete, NoRecord
  <2>4. pc \in Holding
    BY DEF Holding
  <2>5. /\ caller' \in [Callers -> Call] /\ \A d \in Callers : d # c => caller'[d] = caller[d]
        /\ caller'[c].pc = pc /\ caller'[c].rec = rec /\ caller'[c].job = j
        /\ ~ caller'[c].charged
    BY <1>2, <1>4, <1>5, <2>4, Going
  <2>6. CallTrue(c)'
    BY <1>2, <2>5, RequestAssumption DEF CallTrue, Jobless, Resting, ImageWorking
  <2>7. HolderTrue(c)'
    BY <1>1, <1>4, <2>1, <2>5 DEF HolderTrue
  <2> QED
    BY <1>2, <2>1, <2>3, <2>5, <2>6, <2>7, CallKeeps
<1>6. CASE UNCHANGED record /\ Return(c, "rejected")
  BY <1>2, <1>6, ReturnOnly DEF AdvancePolls, DiskVars
<1> QED
  BY <1>5, <1>6 DEF AdvancePolls, Here

\* A call that waited for a permit goes on with what it had.
LEMMA PermitKeeps ==
  ASSUME MediaInv, NEW c \in Callers, Queries(c) \/ Downloads(c) \/ Submits(c)
  PROVE  MediaInv'
<1>1. PICK pc \in {"querying", "downloading", "resolving"} :
        /\ GoTo(c, pc, caller[c].rec) /\ UNCHANGED DiskVars
        /\ pc = "querying" => caller[c].pc = "query_queue"
        /\ pc = "downloading" => caller[c].pc = "download_queue"
        /\ pc = "resolving" => caller[c].pc = "submit_queue"
  BY DEF Queries, Downloads, Submits
<1>2. pc \in Holding /\ caller[c].pc \in Holding
  BY <1>1 DEF Holding
<1>3. caller[c].rec \in {NoRecord} \cup JobRecord /\ CallTrue(c) /\ HolderTrue(c)
  BY CallTyped
<1>4. /\ caller' \in [Callers -> Call] /\ \A d \in Callers : d # c => caller'[d] = caller[d]
      /\ caller'[c].pc = pc /\ caller'[c].rec = caller[c].rec /\ caller'[c].job = caller[c].job
      /\ caller'[c].plan = caller[c].plan /\ caller'[c].charged = caller[c].charged
  BY <1>1, <1>2, <1>3, Going
<1>5. CallTrue(c)'
  BY <1>1, <1>3, <1>4 DEF CallTrue, Jobless, Resting, ImageWorking
<1>6. HolderTrue(c)'
  BY <1>1, <1>3, <1>4 DEF HolderTrue, DiskVars
<1>7. caller[c].pc # "waiting"
  BY <1>1
<1> QED
  BY <1>1, <1>2, <1>4, <1>5, <1>6, <1>7, GoOnly

\* Only the words of a failed task are read as a failure.
LEMMA FailureIsTold ==
  ASSUME NEW service \in DOMAIN Services, NEW state \in {"running", "done", "failed"},
         NEW word \in Words(state), DecodeStatus(service, word) = "failed"
  PROVE  state = "failed"
<1> SUFFICES ASSUME state # "failed" PROVE FALSE
  OBVIOUS
<1>1. word \in {"queued", "processing", "RUNNING", "generating", "succeeded", "done", "SUCCESS"}
  BY DEF Words
<1>2. CommonStatus(word) # "failed"
  BY <1>1 DEF CommonStatus
<1>3. XaiStatus(word) # "failed" /\ SeedanceStatus(word) # "failed"
  BY <1>1, <1>2 DEF XaiStatus, SeedanceStatus
<1>4. RunningHubStatus(word) # "failed" /\ XiaoyunqueStatus(word) # "failed"
  BY <1>1 DEF RunningHubStatus, XiaoyunqueStatus
<1>5. CASE service \in Runway \cup {"luma", "minimax"}
  BY <1>2, <1>5 DEF DecodeStatus, Runway, Xai, RunwayStatus, LumaStatus, MiniMaxStatus
<1>6. CASE service \in Xai \cup {"seedance", "seedance25"}
  BY <1>3, <1>6 DEF DecodeStatus, Runway, Xai
<1>7. CASE service \in {"runninghub", "xiaoyunque"}
  BY <1>4, <1>7 DEF DecodeStatus, Runway, Xai
<1> QED
  BY <1>5, <1>6, <1>7 DEF Services, Runway, Xai

\* The answer to a query is recorded, and a finished task's artifact comes next.
LEMMA QueryAnswersKeeps ==
  ASSUME MediaInv, NEW c \in Callers, NEW word, QueryAnswers(c, word)
  PROVE  MediaInv'
<1> DEFINE j == caller[c].job
           old == caller[c].rec
           status == DecodeStatus(old.service, word)
           rec == [old EXCEPT
                     !.phase = IF status = "complete" THEN "downloading"
                               ELSE IF status = "failed" THEN "failed" ELSE @,
                     !.url = @ \/ status = "complete",
                     !.error = @ \/ status = "failed"]
<1>1. caller[c].pc = "querying" /\ word \in Words(upstream[j])
  BY DEF QueryAnswers
<1>2. j \in Jobs /\ Alone(c)
  BY <1>1, HolderAlone DEF Holding
<1>3. /\ CallTrue(c) /\ HolderTrue(c) /\ RecordTrue(j)
      /\ ~ caller[c].charged /\ old = record[j] /\ old.phase \in {"running", "downloading"}
  BY <1>1, <1>2, CallTyped DEF CallTrue, HolderTrue, MediaInv
<1>4. old \in JobRecord /\ paid[j] = 1 /\ upstream[j] \in {"running", "done", "failed"}
  BY <1>2, <1>3, RecordThere DEF RecordTrue, MediaInv, MediaData
<1>5. rec \in JobRecord /\ rec.phase \in {"running", "downloading", "failed"}
      /\ (rec.phase = "failed" => status = "failed")
  BY <1>3, <1>4 DEF JobRecord, Active, Terminal
<1>6. rec.phase = "failed" => upstream[j] = "failed"
  BY <1>1, <1>4, <1>5, FailureIsTold DEF JobRecord
<1>7. \/ /\ SaveJob(j, rec)
         /\ IF rec.phase = "downloading" THEN GoTo(c, "download_queue", rec) ELSE Return(c, "ok")
      \/ /\ UNCHANGED record
         /\ Return(c, "rejected")
  BY DEF QueryAnswers
<1>8. UNCHANGED <<offered, upstream, paid, sent, downloads>>
  BY DEF QueryAnswers
<1> HIDE DEF rec, status, old
<1>9. CASE SaveJob(j, rec)
  <2>1. DiskData' /\ OnlyJob(j) /\ record'[j] = rec
    BY <1>2, <1>5, <1>8, <1>9, Saves
  <2>2. ASSUME NEW i \in Jobs, i = j PROVE RecordTrue(i)'
    <3>1. record'[i].phase \in {"running", "downloading", "failed"}
          /\ (record'[i].phase = "failed" => upstream[i] = "failed")
          /\ paid[i] = 1 /\ upstream[i] # "none" /\ sent[i].whole
      BY <1>3, <1>4, <1>5, <1>6, <2>1, <2>2 DEF RecordTrue
    <3> QED
      BY <1>8, <3>1 DEF RecordTrue, Complete, NoRecord
  <2>3. CASE rec.phase = "downloading" /\ GoTo(c, "download_queue", rec)
    <3>1. /\ caller' \in [Callers -> Call] /\ \A d \in Callers : d # c => caller'[d] = caller[d]
          /\ caller'[c].pc = "download_queue" /\ caller'[c].rec = rec /\ caller'[c].job = j
          /\ ~ caller'[c].charged
      BY <1>3, <1>5, <2>3, Going DEF Holding
    <3>2. CallTrue(c)'
      BY <1>2, <3>1, RequestAssumption DEF CallTrue, Jobless, Resting, ImageWorking
    <3>3. HolderTrue(c)'
      BY <2>1, <2>3, <3>1 DEF HolderTrue
    <3> QED
      BY <1>2, <2>1, <2>2, <3>1, <3>2, <3>3, CallKeeps
  <2>4. CASE Return(c, "ok")
    BY <1>2, <2>1, <2>2, <2>4, ReturnKeeps
  <2>5. CASE UNCHANGED record /\ Return(c, "rejected")
    BY <1>3, <1>8, <2>5, ReturnOnly DEF DiskVars
  <2> QED
    BY <1>7, <2>3, <2>4, <2>5
<1>10. CASE UNCHANGED record /\ Return(c, "rejected")
  BY <1>3, <1>8, <1>10, ReturnOnly DEF DiskVars
<1> QED
  BY <1>7, <1>9, <1>10

\* A record that says downloading was paid for.
LEMMA DownloadingPaid ==
  ASSUME MediaInv, NEW c \in Callers,
         caller[c].pc \in {"downloading", "subtitles", "finishing"}
  PROVE  /\ caller[c].job \in Jobs /\ Alone(c) /\ ~ caller[c].charged
         /\ caller[c].rec \in JobRecord
         /\ record[caller[c].job].phase = "downloading" /\ RecordTrue(caller[c].job)
<1>1. caller[c].job \in Jobs /\ Alone(c)
  BY HolderAlone DEF Holding
<1>2. CallTrue(c) /\ HolderTrue(c) /\ RecordTrue(caller[c].job)
  BY <1>1, CallTyped DEF MediaInv
<1>3. record[caller[c].job].phase = "downloading"
  BY <1>2 DEF HolderTrue
<1>4. record[caller[c].job] \in JobRecord
  BY <1>1, <1>3, RecordThere
<1> QED
  BY <1>1, <1>2, <1>3, <1>4 DEF CallTrue, HolderTrue

\* A step of the download, whatever it saved: the record stays what it was, or is complete.
LEMMA DownloadKeepsIf ==
  ASSUME MediaInv, NEW c \in Callers,
         caller[c].pc \in {"downloading", "subtitles", "finishing"},
         UNCHANGED <<offered, upstream, paid, sent>>, downloads' \in [Jobs -> 0 .. MaxDownloads],
         NEW rec \in JobRecord, SaveJob(caller[c].job, rec) \/ UNCHANGED record,
         rec.phase \in {"downloading", "succeeded"}, Complete(rec)
  PROVE  /\ DiskData' /\ OnlyJob(caller[c].job)
         /\ \A j \in Jobs : j = caller[c].job => RecordTrue(j)'
<1> DEFINE j == caller[c].job
<1>1. j \in Jobs /\ record[j].phase = "downloading" /\ RecordTrue(j)
  BY DownloadingPaid
<1>2. DiskData' /\ OnlyJob(j)
  BY <1>1 DEF MediaInv, MediaData, DiskData, OnlyJob, SaveJob
<1>3. record'[j] = rec \/ record'[j] = record[j]
  BY <1>1 DEF MediaInv, MediaData, SaveJob
<1>4. ASSUME NEW i \in Jobs, i = j PROVE RecordTrue(i)'
  <2>1. Complete(record[i])
    BY <1>1, <1>4 DEF RecordTrue
  <2>2. record'[i].phase \in {"downloading", "succeeded"} /\ Complete(record'[i])
    BY <1>1, <1>3, <1>4, <2>1
  <2>3. paid[i] = 1 /\ upstream[i] # "none" /\ sent[i].whole
    BY <1>1, <1>4 DEF RecordTrue
  <2> QED
    BY <2>2, <2>3 DEF RecordTrue, Complete, NoRecord
<1> QED
  BY <1>2, <1>4

\* The artifact is fetched, and recorded before anything else is tried.
LEMMA DownloadKeeps ==
  ASSUME MediaInv, NEW c \in Callers, Download(c)
  PROVE  MediaInv'
<1> DEFINE j == caller[c].job
           rec == caller[c].rec
           stored == [rec EXCEPT !.artifact = TRUE]
<1>1. caller[c].pc = "downloading" /\ UNCHANGED <<offered, upstream, paid, sent>>
  BY DEF Download
<1>2. j \in Jobs /\ Alone(c) /\ ~ caller[c].charged /\ rec \in JobRecord
      /\ record[j].phase = "downloading"
  BY <1>1, DownloadingPaid
<1>3. rec = record[j] /\ rec.phase = "downloading"
  BY <1>1, CallTyped DEF HolderTrue
<1>4. /\ stored \in JobRecord /\ stored.phase = "downloading" /\ stored.artifact
      /\ [stored EXCEPT !.error = TRUE] \in JobRecord /\ [rec EXCEPT !.error = TRUE] \in JobRecord
      /\ [stored EXCEPT !.error = TRUE].phase = "downloading"
      /\ [rec EXCEPT !.error = TRUE].phase = "downloading"
  BY <1>2, <1>3 DEF JobRecord
<1>5. downloads' \in [Jobs -> 0 .. MaxDownloads]
  <2>1. CASE downloads' = downloads
    BY <2>1 DEF MediaInv, MediaData
  <2>2. CASE downloads[j] < MaxDownloads /\ downloads' = [downloads EXCEPT ![j] = @ + 1]
    <3>1. downloads \in [Jobs -> 0 .. MaxDownloads] /\ MaxDownloads \in Nat
      BY MediaAssumption DEF MediaInv, MediaData
    <3>2. downloads[j] + 1 \in 0 .. MaxDownloads
      BY <1>2, <2>2, <3>1
    <3> QED
      BY <1>2, <2>2, <3>1, <3>2
  <2> QED
    BY <2>1, <2>2 DEF Download
<1>6. \E new \in JobRecord, pc \in {"subtitles", "finishing"} :
        /\ GoTo(c, pc, new) /\ new.phase = "downloading"
        /\ pc = "subtitles" => new.artifact /\ record' = [record EXCEPT ![j] = new]
        /\ pc = "finishing" => UNCHANGED record
  <2>1. CASE rec.artifact /\ GoTo(c, "subtitles", rec) /\ UNCHANGED record
    <3>1. record \in [Jobs -> {NoRecord} \cup JobRecord]
      BY DEF MediaInv, MediaData
    <3>2. record = [record EXCEPT ![j] = rec]
      BY <1>2, <1>3, <3>1
    <3> QED
      BY <1>2, <1>3, <2>1, <3>2
  <2>2. CASE SaveJob(j, stored) /\ GoTo(c, "subtitles", stored)
    BY <1>4, <2>2 DEF SaveJob
  <2>3. CASE UNCHANGED record /\ GoTo(c, "finishing", [stored EXCEPT !.error = TRUE])
    BY <1>4, <2>3
  <2>4. CASE UNCHANGED record /\ GoTo(c, "finishing", [rec EXCEPT !.error = TRUE])
    BY <1>4, <2>4
  <2> QED
    BY <2>1, <2>2, <2>3, <2>4 DEF Download
<1>7. PICK new \in JobRecord, pc \in {"subtitles", "finishing"} :
        /\ GoTo(c, pc, new) /\ new.phase = "downloading"
        /\ pc = "subtitles" => new.artifact /\ record' = [record EXCEPT ![j] = new]
        /\ pc = "finishing" => UNCHANGED record
  BY <1>6
<1>8. Complete(new)
  BY <1>7 DEF Complete
<1>9. SaveJob(j, new) \/ UNCHANGED record
  BY <1>7 DEF SaveJob
<1>10. DiskData' /\ OnlyJob(j) /\ \A i \in Jobs : i = j => RecordTrue(i)'
  BY <1>1, <1>5, <1>7, <1>8, <1>9, DownloadKeepsIf
<1>11. /\ caller' \in [Callers -> Call] /\ \A d \in Callers : d # c => caller'[d] = caller[d]
       /\ caller'[c].pc = pc /\ caller'[c].rec = new /\ caller'[c].job = j
       /\ ~ caller'[c].charged
  <2>1. pc \in Holding \cup Jobless \cup {"waiting"} /\ new \in {NoRecord} \cup JobRecord
    BY DEF Holding
  <2>2. GoTo(c, pc, new)
    BY <1>7
  <2> HIDE DEF rec, stored
  <2> QED
    BY <1>2, <2>1, <2>2, Going
<1>12. CallTrue(c)'
  BY <1>2, <1>11, RequestAssumption DEF CallTrue, Jobless, Resting, ImageWorking
<1>13. HolderTrue(c)'
  <2>1. pc = "subtitles" => record'[j] = new
    BY <1>2, <1>7 DEF MediaInv, MediaData
  <2>2. pc = "finishing" => record'[j].phase = "downloading"
    BY <1>2, <1>7
  <2> QED
    BY <1>7, <1>8, <1>11, <2>1, <2>2 DEF HolderTrue
<1> QED
  BY <1>2, <1>10, <1>11, <1>12, <1>13, CallKeeps

\* Subtitles follow the artifact; without them the job is not done.
LEMMA SubtitlesKeeps ==
  ASSUME MediaInv, NEW c \in Callers, Subtitles(c)
  PROVE  MediaInv'
<1> DEFINE j == caller[c].job
           rec == caller[c].rec
           done == [rec EXCEPT !.phase = "succeeded", !.error = FALSE]
<1>1. caller[c].pc = "subtitles" /\ UNCHANGED DiskVars
  BY DEF Subtitles
<1>2. j \in Jobs /\ ~ caller[c].charged /\ rec \in JobRecord /\ record[j].phase = "downloading"
  BY <1>1, DownloadingPaid
<1>3. rec.phase = "downloading" /\ rec.artifact
  BY <1>1, CallTyped DEF HolderTrue
<1>4. \E new \in JobRecord :
        /\ GoTo(c, "finishing", new) /\ new.phase \in {"downloading", "succeeded"} /\ Complete(new)
  <2>1. CASE ~(rec.subtitle /\ ~rec.timestamps) /\ GoTo(c, "finishing", done)
    <3>1. done \in JobRecord /\ done.phase = "succeeded" /\ Complete(done)
      BY <1>2, <1>3, <2>1 DEF JobRecord, Complete, Terminal
    <3> QED
      BY <2>1, <3>1
  <2>2. CASE GoTo(c, "finishing", [done EXCEPT !.timestamps = TRUE])
    <3>1. /\ [done EXCEPT !.timestamps = TRUE] \in JobRecord
          /\ [done EXCEPT !.timestamps = TRUE].phase = "succeeded"
          /\ Complete([done EXCEPT !.timestamps = TRUE])
      BY <1>2, <1>3 DEF JobRecord, Complete, Terminal
    <3> QED
      BY <2>2, <3>1
  <2>3. CASE GoTo(c, "finishing", [rec EXCEPT !.error = TRUE])
    <3>1. /\ [rec EXCEPT !.error = TRUE] \in JobRecord
          /\ [rec EXCEPT !.error = TRUE].phase = "downloading"
          /\ Complete([rec EXCEPT !.error = TRUE])
      BY <1>2, <1>3 DEF JobRecord, Complete
    <3> QED
      BY <2>3, <3>1
  <2> QED
    BY <2>1, <2>2, <2>3 DEF Subtitles
<1>5. PICK new \in JobRecord :
        /\ GoTo(c, "finishing", new) /\ new.phase \in {"downloading", "succeeded"} /\ Complete(new)
  BY <1>4
<1>6. /\ caller' \in [Callers -> Call] /\ \A d \in Callers : d # c => caller'[d] = caller[d]
      /\ caller'[c].pc = "finishing" /\ caller'[c].rec = new /\ caller'[c].job = j
      /\ ~ caller'[c].charged
  <2>1. "finishing" \in Holding \cup Jobless \cup {"waiting"} /\ new \in {NoRecord} \cup JobRecord
    BY DEF Holding
  <2> HIDE DEF rec, done
  <2> QED
    BY <1>2, <1>5, <2>1, Going
<1>7. CallTrue(c)'
  BY <1>2, <1>6, RequestAssumption DEF CallTrue, Jobless, Resting, ImageWorking
<1>8. HolderTrue(c)'
  BY <1>1, <1>2, <1>5, <1>6 DEF HolderTrue, DiskVars
<1>9. caller[c].pc \in Holding /\ caller[c].pc # "waiting"
  BY <1>1 DEF Holding
<1> QED
  BY <1>1, <1>6, <1>7, <1>8, <1>9, GoOnly

\* The end of the download is recorded, or the record stays downloading.
LEMMA FinishDownloadKeeps ==
  ASSUME MediaInv, NEW c \in Callers, FinishDownload(c)
  PROVE  MediaInv'
<1>1. caller[c].pc = "finishing" /\ UNCHANGED <<offered, upstream, paid, sent, downloads>>
  BY DEF FinishDownload
<1>2. caller[c].job \in Jobs /\ Alone(c) /\ ~ caller[c].charged /\ caller[c].rec \in JobRecord
  BY <1>1, DownloadingPaid
<1>3. caller[c].rec.phase \in {"downloading", "succeeded"} /\ Complete(caller[c].rec)
  BY <1>1, CallTyped DEF HolderTrue
<1>4. downloads' \in [Jobs -> 0 .. MaxDownloads]
  BY <1>1 DEF MediaInv, MediaData
<1>5. SaveJob(caller[c].job, caller[c].rec) \/ UNCHANGED record
  BY DEF FinishDownload
<1>6. /\ DiskData' /\ OnlyJob(caller[c].job)
      /\ \A j \in Jobs : j = caller[c].job => RecordTrue(j)'
  BY <1>1, <1>2, <1>3, <1>4, <1>5, DownloadKeepsIf
<1>7. PICK result : Return(c, result)
  BY DEF FinishDownload
<1> QED
  BY <1>2, <1>6, <1>7, ReturnKeeps

-----------------------------------------------------------------------------
(* A submission. *)

\* A call whose step changes its plan.
LEMMA Changing ==
  ASSUME MediaInv, NEW c \in Callers, NEW k \in Call, caller' = [caller EXCEPT ![c] = k]
  PROVE  /\ caller' \in [Callers -> Call] /\ \A d \in Callers : d # c => caller'[d] = caller[d]
         /\ caller'[c] = k
  BY DEF MediaInv, MediaData

\* Whatever service is chosen takes the request.
LEMMA RoutedAccepts ==
  ASSUME NEW q \in Requests, NEW ready, NEW s \in Routed(q, ready)
  PROVE  s \in Accepting[q]
  BY DEF Routed

\* A call that found no record has a service that takes its request.
LEMMA RouteKeeps ==
  ASSUME MediaInv, NEW c \in Callers, NEW q \in Requests, Route(c, q)
  PROVE  MediaInv'
<1> DEFINE j == caller[c].job
<1>1. Entering(c) /\ record[j] = NoRecord /\ UNCHANGED DiskVars
  BY DEF Route, MayRun, Here
<1>2. j \in Jobs /\ Alone(c) /\ ~ caller[c].charged /\ caller[c].pc = "waiting"
  BY <1>1, EntersAlone
<1>3. PICK s \in Accepting[q], b \in BOOLEAN :
        caller' = [caller EXCEPT ![c].pc = "submit_queue", ![c].plan = Plan(q, s, b)]
  BY RoutedAccepts DEF Route
<1>4. Plan(q, s, b) \in Planned
  BY DEF Planned
<1> DEFINE plan == Plan(q, s, b)
           k == [caller[c] EXCEPT !.pc = "submit_queue", !.plan = plan]
<1> HIDE DEF plan
<1>5. caller[c] \in Call /\ caller \in [Callers -> Call]
  BY DEF MediaInv, MediaData
<1>6. k \in Call
  BY <1>4, <1>5 DEF Call, Holding, plan
<1>7. caller' = [caller EXCEPT ![c] = k]
  BY <1>3, <1>5 DEF plan, Call
<1>8. /\ k.pc = "submit_queue" /\ k.job = j /\ ~ k.charged /\ k.plan \in Planned
  BY <1>2, <1>4, <1>5 DEF Call, plan
<1> HIDE DEF k
<1>9. /\ caller' \in [Callers -> Call] /\ \A d \in Callers : d # c => caller'[d] = caller[d]
      /\ caller'[c] = k
  BY <1>6, <1>7, Changing
<1>10. CallTrue(c)'
  BY <1>2, <1>8, <1>9, RequestAssumption DEF CallTrue, Jobless, Resting, ImageWorking
<1>11. HolderTrue(c)'
  BY <1>1, <1>8, <1>9 DEF HolderTrue, DiskVars
<1>12. "submit_queue" \in Holding
  BY DEF Holding
<1> QED
  BY <1>1, <1>2, <1>8, <1>9, <1>10, <1>11, <1>12, GoOnly

\* A planned request goes out whole.
LEMMA DraftWhole ==
  ASSUME NEW plan \in Planned
  PROVE  DraftOf(plan) \in Drafted /\ plan.service \in DOMAIN Services
<1>1. PICK q \in Requests : \E s \in Accepting[q], b \in BOOLEAN : plan = Plan(q, s, b)
  BY DEF Planned
<1>2. PICK s \in Accepting[q], b \in BOOLEAN : plan = Plan(q, s, b)
  BY <1>1
<1>3. s \in DOMAIN Services /\ (q.kind = "video" => Preflight(s, ModeOf(q), q.inputs))
  BY RequestAssumption DEF Accepting
<1>4. q.inputs \in InputList
  BY RequestAssumption DEF InputList
<1>5. plan.service = s /\ plan.kind = q.kind /\ plan.mode = ModeOf(q) /\ plan.inputs = q.inputs
  BY <1>2 DEF Plan
<1>6. plan.kind = "video" =>
        BodyOf(plan.service, plan.mode, plan.inputs).carried = DOMAIN plan.inputs
  BY <1>3, <1>4, <1>5, BodiesAreWhole
<1>7. DraftOf(plan).whole
  BY <1>6 DEF DraftOf
<1> QED
  BY <1>3, <1>5, <1>7 DEF Drafted

\* The body is written, and nothing is recorded yet.
LEMMA ResolveKeeps ==
  ASSUME MediaInv, NEW c \in Callers, Resolve(c)
  PROVE  MediaInv'
<1> DEFINE j == caller[c].job
<1>1. caller[c].pc = "resolving" /\ UNCHANGED DiskVars
  BY DEF Resolve
<1>2. j \in Jobs
  BY <1>1, HolderAlone DEF Holding
<1>3. ~ caller[c].charged /\ caller[c].plan \in Planned /\ record[j] = NoRecord
  BY <1>1, CallTyped DEF CallTrue, HolderTrue
<1>4. CASE Return(c, "rejected")
  BY <1>1, <1>3, <1>4, ReturnOnly
<1> DEFINE draft == DraftOf(caller[c].plan)
           rec == Job(caller[c].plan)
           k == [caller[c] EXCEPT !.pc = "recording", !.rec = rec, !.plan = draft]
<1>5. draft \in Drafted /\ caller[c].plan.service \in DOMAIN Services
  BY <1>3, DraftWhole
<1>6. rec \in JobRecord /\ rec.phase = "submitting" /\ ~ rec.subtitle /\ ~ rec.artifact
  BY <1>5 DEF Job, JobRecord, Active
<1>7. CASE caller' = [caller EXCEPT ![c].pc = "recording", ![c].rec = rec, ![c].plan = draft]
  <2> HIDE DEF draft, rec
  <2>1. caller[c] \in Call /\ caller \in [Callers -> Call]
    BY DEF MediaInv, MediaData
  <2>2. k \in Call
    BY <1>5, <1>6, <2>1 DEF Call, Holding
  <2>3. caller' = [caller EXCEPT ![c] = k]
    BY <1>7, <2>1 DEF Call
  <2>4. k.pc = "recording" /\ k.job = j /\ ~ k.charged /\ k.plan = draft /\ k.rec = rec
    BY <1>3, <2>1 DEF Call
  <2> HIDE DEF k
  <2>5. /\ caller' \in [Callers -> Call] /\ \A d \in Callers : d # c => caller'[d] = caller[d]
        /\ caller'[c] = k
    BY <2>2, <2>3, Changing
  <2>6. CallTrue(c)'
    BY <1>2, <1>5, <2>4, <2>5, RequestAssumption DEF CallTrue, Jobless, Resting, ImageWorking
  <2>7. HolderTrue(c)'
    BY <1>1, <1>3, <1>6, <2>4, <2>5 DEF HolderTrue, DiskVars
  <2>8. "recording" \in Holding /\ caller[c].pc \in Holding /\ caller[c].pc # "waiting"
    BY <1>1 DEF Holding
  <2> QED
    BY <1>1, <2>4, <2>5, <2>6, <2>7, <2>8, GoOnly
<1> QED
  BY <1>4, <1>7 DEF Resolve

\* The job is on record before it is paid for.
LEMMA RecordSubmittingKeeps ==
  ASSUME MediaInv, NEW c \in Callers, RecordSubmitting(c)
  PROVE  MediaInv'
<1> DEFINE j == caller[c].job
           rec == caller[c].rec
<1>1. caller[c].pc = "recording" /\ UNCHANGED <<offered, upstream, paid, sent, downloads>>
  BY DEF RecordSubmitting
<1>2. j \in Jobs /\ Alone(c)
  BY <1>1, HolderAlone DEF Holding
<1>3. /\ ~ caller[c].charged /\ caller[c].plan \in Drafted /\ record[j] = NoRecord
      /\ rec \in JobRecord /\ rec.phase = "submitting" /\ ~ rec.subtitle /\ ~ rec.artifact
  BY <1>1, CallTyped DEF CallTrue, HolderTrue
<1>4. RecordTrue(j) /\ paid[j] = 0
  BY <1>2, <1>3 DEF MediaInv, RecordTrue
<1>5. CASE SaveJob(j, rec) /\ GoTo(c, "posting", rec)
  <2>1. DiskData' /\ OnlyJob(j) /\ record'[j] = rec
    BY <1>1, <1>2, <1>3, <1>5, Saves
  <2>2. ASSUME NEW i \in Jobs, i = j PROVE RecordTrue(i)'
    <3>1. record'[i].phase = "submitting" /\ sent[i].whole
      BY <1>3, <1>4, <2>1, <2>2 DEF RecordTrue
    <3> QED
      BY <1>1, <3>1 DEF RecordTrue, Complete, NoRecord
  <2>3. /\ caller' \in [Callers -> Call] /\ \A d \in Callers : d # c => caller'[d] = caller[d]
        /\ caller'[c].pc = "posting" /\ caller'[c].rec = rec /\ caller'[c].job = j
        /\ caller'[c].plan = caller[c].plan /\ ~ caller'[c].charged
    BY <1>3, <1>5, Going DEF Holding
  <2>4. CallTrue(c)'
    BY <1>2, <1>3, <2>3, RequestAssumption DEF CallTrue, Jobless, Resting, ImageWorking
  <2>5. HolderTrue(c)'
    BY <1>1, <1>3, <1>4, <2>1, <2>3 DEF HolderTrue
  <2> QED
    BY <1>2, <2>1, <2>2, <2>3, <2>4, <2>5, CallKeeps
<1>6. CASE UNCHANGED record /\ Return(c, "rejected")
  BY <1>1, <1>3, <1>6, ReturnOnly DEF DiskVars
<1> QED
  BY <1>5, <1>6 DEF RecordSubmitting

\* What a call makes of an answer, or of none, is a record: complete, if it says so.
LEMMA AnswerIsRecord ==
  ASSUME NEW rec \in JobRecord, ~ rec.subtitle, NEW plan,
         NEW new \in Answered(rec, plan) \cup Unanswered(rec, plan)
  PROVE  /\ new \in JobRecord /\ Complete(new)
         /\ new.phase \in {"running", "downloading", "succeeded", "outcome_unknown"}
<1>1. CASE new = [rec EXCEPT !.phase = "running", !.task = TRUE]
  BY <1>1 DEF JobRecord, Complete, Active
<1>2. CASE new = [rec EXCEPT !.phase = "succeeded", !.artifact = TRUE]
  BY <1>2 DEF JobRecord, Complete, Terminal
<1>3. CASE new = [rec EXCEPT !.phase = "succeeded", !.artifact = TRUE, !.timestamps = TRUE]
  BY <1>3 DEF JobRecord, Complete, Terminal
<1>4. CASE \E b \in BOOLEAN :
             new = [rec EXCEPT !.phase = "downloading", !.url = TRUE, !.subtitle = b]
  <2>1. PICK b \in BOOLEAN : new = [rec EXCEPT !.phase = "downloading", !.url = TRUE, !.subtitle = b]
    BY <1>4
  <2> QED
    BY <2>1 DEF JobRecord, Complete, Active
<1>5. CASE \E a \in BOOLEAN :
             new = [rec EXCEPT !.phase = "outcome_unknown", !.error = TRUE, !.artifact = a]
  <2>1. PICK a \in BOOLEAN :
          new = [rec EXCEPT !.phase = "outcome_unknown", !.error = TRUE, !.artifact = a]
    BY <1>5
  <2> QED
    BY <2>1 DEF JobRecord, Complete, Terminal
<1> QED
  BY <1>1, <1>2, <1>3, <1>4, <1>5 DEF Answered, Unanswered

\* The paid request is sent once: the job was on record, and unpaid.
LEMMA PostKeeps ==
  ASSUME MediaInv, NEW c \in Callers, Post(c)
  PROVE  MediaInv'
<1> DEFINE j == caller[c].job
           plan == caller[c].plan
           old == caller[c].rec
<1>1. caller[c].pc = "posting" /\ UNCHANGED <<offered, record, downloads>>
  BY DEF Post
<1>2. j \in Jobs /\ Alone(c)
  BY <1>1, HolderAlone DEF Holding
<1>3. /\ plan \in Drafted /\ plan.whole /\ old = record[j] /\ paid[j] = 0
      /\ old.phase = "submitting" /\ ~ old.subtitle
  BY <1>1, CallTyped DEF CallTrue, HolderTrue, Drafted
<1>4. old \in JobRecord
  BY <1>2, <1>3, RecordThere
<1>5. PICK taken \in BOOLEAN, rec \in Answered(old, plan) \cup Unanswered(old, plan) :
        /\ rec.phase # "outcome_unknown" \/ rec.artifact => taken
        /\ upstream' = [upstream EXCEPT ![j] = IF ~taken THEN "none"
                                             ELSE IF plan.kind = "video" THEN "running" ELSE "done"]
        /\ caller' = [caller EXCEPT ![c].pc = "answered", ![c].rec = rec, ![c].plan = NoPlan,
                                    ![c].charged = taken]
  BY DEF Post
<1>6. /\ rec \in JobRecord /\ Complete(rec)
      /\ rec.phase \in {"running", "downloading", "succeeded", "outcome_unknown"}
  BY <1>3, <1>4, AnswerIsRecord
<1>7. /\ upstream' \in [Jobs -> {"none", "running", "done", "failed"}]
      /\ \A i \in Jobs : i # j => upstream'[i] = upstream[i]
      /\ taken => upstream'[j] # "none"
  BY <1>2, <1>5 DEF MediaInv, MediaData
<1>8. paid' \in [Jobs -> {0, 1}] /\ paid'[j] = 1 /\ \A i \in Jobs : i # j => paid'[i] = paid[i]
  <2>1. paid \in [Jobs -> {0, 1}] /\ paid' = [paid EXCEPT ![j] = @ + 1]
    BY DEF MediaInv, MediaData, Post
  <2>2. paid' = [paid EXCEPT ![j] = 1]
    BY <1>2, <1>3, <2>1
  <2> QED
    BY <1>2, <2>1, <2>2
<1>9. /\ DOMAIN sent' = Jobs /\ sent'[j].whole /\ \A i \in Jobs : i # j => sent'[i] = sent[i]
  <2>1. /\ DOMAIN sent = Jobs
        /\ sent' = [sent EXCEPT ![j] = [service |-> plan.service, mode |-> plan.mode,
                                        routed |-> plan.routed, whole |-> plan.whole]]
    BY DEF MediaInv, MediaData, Post
  <2> QED
    BY <1>2, <1>3, <2>1
<1>10. DiskData' /\ OnlyJob(j)
  BY <1>1, <1>7, <1>8, <1>9 DEF MediaInv, MediaData, DiskData, OnlyJob
<1>11. ASSUME NEW i \in Jobs, i = j PROVE RecordTrue(i)'
  <2>1. record'[i].phase = "submitting" /\ sent'[i].whole
    BY <1>1, <1>3, <1>9, <1>11
  <2> QED
    BY <2>1 DEF RecordTrue, Complete, NoRecord
<1> DEFINE k == [caller[c] EXCEPT !.pc = "answered", !.rec = rec, !.plan = NoPlan, !.charged = taken]
<1>12. caller[c] \in Call /\ caller \in [Callers -> Call]
  BY DEF MediaInv, MediaData
<1>13. k \in Call
  BY <1>6, <1>12 DEF Call, Holding
<1>14. caller' = [caller EXCEPT ![c] = k]
  BY <1>5, <1>12 DEF Call
<1>15. k.pc = "answered" /\ k.job = j /\ k.rec = rec
  BY <1>12 DEF Call
<1> HIDE DEF k
<1>16. /\ caller' \in [Callers -> Call] /\ \A d \in Callers : d # c => caller'[d] = caller[d]
       /\ caller'[c] = k
  BY <1>13, <1>14, Changing
<1>17. CallTrue(c)'
  BY <1>2, <1>15, <1>16, RequestAssumption DEF CallTrue, Jobless, Resting, ImageWorking
<1>18. HolderTrue(c)'
  <2>1. rec.phase \in {"running", "downloading"} => upstream'[j] # "none"
    BY <1>5, <1>7
  <2>2. record'[j].phase = "submitting" /\ paid'[j] = 1
    BY <1>1, <1>3, <1>8
  <2> QED
    BY <1>6, <1>15, <1>16, <2>1, <2>2 DEF HolderTrue
<1> QED
  BY <1>2, <1>10, <1>11, <1>15, <1>16, <1>17, <1>18, CallKeeps

\* The answer is recorded, or the record stays submitting.
LEMMA RecordAnswerKeeps ==
  ASSUME MediaInv, NEW c \in Callers, RecordAnswer(c)
  PROVE  MediaInv'
<1> DEFINE j == caller[c].job
           rec == caller[c].rec
<1>1. /\ caller[c].pc = "answered" /\ UNCHANGED <<offered, upstream, paid, sent, downloads>>
      /\ Return(c, "ok")
  BY DEF RecordAnswer
<1>2. j \in Jobs /\ Alone(c)
  BY <1>1, HolderAlone DEF Holding
<1>3. /\ paid[j] = 1 /\ rec \in JobRecord /\ Complete(rec)
      /\ rec.phase \in {"running", "downloading", "succeeded", "outcome_unknown"}
      /\ rec.phase \in {"running", "downloading"} => upstream[j] # "none"
  BY <1>1, CallTyped DEF HolderTrue
<1>4. CASE SaveJob(j, rec)
  <2>1. DiskData' /\ OnlyJob(j) /\ record'[j] = rec
    BY <1>1, <1>2, <1>3, <1>4, Saves
  <2>2. ASSUME NEW i \in Jobs, i = j PROVE RecordTrue(i)'
    <3>1. sent[i].whole
      BY DEF MediaInv, RecordTrue
    <3>2. Complete(record'[i]) /\ record'[i].phase # "none" /\ record'[i].phase # "failed"
          /\ (record'[i].phase \in {"running", "downloading"} => upstream[i] # "none")
      BY <1>3, <2>1, <2>2
    <3> QED
      BY <1>1, <1>3, <2>2, <3>1, <3>2 DEF RecordTrue, Complete, NoRecord
  <2> QED
    BY <1>1, <1>2, <2>1, <2>2, ReturnKeeps
<1>5. CASE UNCHANGED record
  BY <1>1, <1>5, ReturnOnly DEF DiskVars
<1> QED
  BY <1>4, <1>5 DEF RecordAnswer

-----------------------------------------------------------------------------
(* Calls without a job, and what happens to all. *)

\* A call that has no job, or gets one to wait for.
LEMMA JoblessKeeps ==
  ASSUME MediaInv, NEW c \in Callers, caller[c].pc \in Jobless, UNCHANGED DiskVars,
         caller' \in [Callers -> Call], \A d \in Callers : d # c => caller'[d] = caller[d],
         caller'[c].pc \in Jobless \cup {"waiting"}, CallTrue(c)'
  PROVE  MediaInv'
<1>1. UNCHANGED <<offered, record, upstream, paid, sent, downloads>>
  BY DEF DiskVars
<1>2. DiskData' /\ \A j : OnlyJob(j) /\ (j \in Jobs => RecordTrue(j)')
  BY <1>1, DiskStays
<1>3. caller[c].job = NoJob /\ caller[c].job \notin Jobs
  BY CallTyped, RequestAssumption DEF CallTrue
<1>4. caller'[c].job = NoJob \/ caller'[c].pc = "waiting"
  BY DEF CallTrue
<1>5. HolderTrue(c)'
  BY DEF HolderTrue, Jobless, Resting, ImageWorking
<1> QED
  BY <1>2, <1>3, <1>4, <1>5, CallKeeps

\* A call begins without a failed query.
LEMMA NoAttempts == 0 \in 0 .. (QueryAttempts - 1)
  BY DEF QueryAttempts

\* A call at its beginning has no job, and cost nothing.
LEMMA FreshCall ==
  ASSUME NEW pc \in Jobless \cup {"waiting"}
  PROVE  /\ Rest(pc, FALSE) \in Call /\ Rest(pc, FALSE).pc = pc /\ Rest(pc, FALSE).job = NoJob
         /\ Rest(pc, FALSE).charged = FALSE
  BY NoAttempts DEF Rest, Call

\* A call begins.
LEMMA CallJobKeeps ==
  ASSUME MediaInv, NEW c \in Callers, NEW op \in {"run", "status"}, NEW j \in Jobs, CallJob(c, op, j)
  PROVE  MediaInv'
<1> DEFINE k == [Rest("waiting", FALSE) EXCEPT !.op = op, !.job = j]
<1>0. /\ Rest("waiting", FALSE) \in Call /\ Rest("waiting", FALSE).pc = "waiting"
      /\ Rest("waiting", FALSE).job = NoJob /\ Rest("waiting", FALSE).charged = FALSE
  BY FreshCall
<1>1. k \in Call /\ k.pc = "waiting" /\ k.job = j /\ ~ k.charged
  BY <1>0 DEF Call
<1>2. caller' = [caller EXCEPT ![c] = k] /\ UNCHANGED DiskVars /\ caller[c].pc \in Jobless
  BY DEF CallJob, Jobless
<1> HIDE DEF k
<1>3. /\ caller' \in [Callers -> Call] /\ \A d \in Callers : d # c => caller'[d] = caller[d]
      /\ caller'[c] = k
  BY <1>1, <1>2, Changing
<1>4. CallTrue(c)'
  BY <1>1, <1>3, RequestAssumption DEF CallTrue, Jobless, Resting, ImageWorking
<1> QED
  BY <1>1, <1>2, <1>3, <1>4, JoblessKeeps

\* A call for images begins with a well-formed request, or is rejected.
LEMMA CallImageKeeps ==
  ASSUME MediaInv, NEW c \in Callers, NEW q \in ImageRequests, CallImage(c, q)
  PROVE  MediaInv'
<1> DEFINE plan == [service |-> "none", request |-> q]
           asks == [Rest("image_queue", FALSE) EXCEPT !.op = "image", !.plan = plan]
<1>1. caller[c].pc \in Jobless /\ UNCHANGED DiskVars
  BY DEF CallImage, Jobless
<1>2. ASSUME NEW k \in Call, caller' = [caller EXCEPT ![c] = k], k.job = NoJob, ~ k.charged,
             k.pc = "rejected" \/ (k.pc = "image_queue" /\ k.plan \in ImageAsked)
      PROVE  MediaInv'
  <2>1. /\ caller' \in [Callers -> Call] /\ \A d \in Callers : d # c => caller'[d] = caller[d]
        /\ caller'[c] = k
    BY <1>2, Changing
  <2>2. CallTrue(c)'
    BY <1>2, <2>1 DEF CallTrue, Jobless, Resting
  <2>3. k.pc \in Jobless
    BY <1>2 DEF Jobless, Resting
  <2> QED
    BY <1>1, <2>1, <2>2, <2>3, JoblessKeeps
<1>3. CASE WellFormedImages(q) /\ caller' = [caller EXCEPT ![c] = asks]
  <2>1. plan \in ImageAsked
    BY <1>3 DEF ImageAsked
  <2> HIDE DEF plan
  <2>2. /\ Rest("image_queue", FALSE) \in Call /\ Rest("image_queue", FALSE).pc = "image_queue"
        /\ Rest("image_queue", FALSE).job = NoJob /\ Rest("image_queue", FALSE).charged = FALSE
    BY FreshCall DEF Jobless
  <2>3. asks \in Call /\ asks.job = NoJob /\ ~ asks.charged /\ asks.pc = "image_queue"
        /\ asks.plan = plan
    BY <2>1, <2>2 DEF Call
  <2> QED
    BY <1>2, <1>3, <2>1, <2>3
<1>4. CASE caller' = [caller EXCEPT ![c] = Rest("rejected", FALSE)]
  <2>1. /\ Rest("rejected", FALSE) \in Call /\ Rest("rejected", FALSE).job = NoJob
        /\ ~ Rest("rejected", FALSE).charged /\ Rest("rejected", FALSE).pc = "rejected"
    BY DEF Rest, Call, QueryAttempts, Jobless, Resting
  <2> QED
    BY <1>2, <1>4, <2>1
<1> QED
  BY <1>3, <1>4 DEF CallImage

\* An image service is chosen.
LEMMA ImageRoutesKeeps ==
  ASSUME MediaInv, NEW c \in Callers, ImageRoutes(c)
  PROVE  MediaInv'
<1>1. caller[c].pc = "image_queue" /\ UNCHANGED DiskVars
  BY DEF ImageRoutes
<1>2. /\ caller[c].pc \in Jobless /\ caller[c].plan \in ImageAsked /\ caller[c].job = NoJob
      /\ ~ caller[c].charged
  BY <1>1, CallTyped DEF CallTrue, Jobless
<1>3. CASE Return(c, "rejected")
  BY <1>1, <1>2, <1>3, ReturnOnly
<1>4. ASSUME NEW d \in ImageConfigured,
             caller' = [caller EXCEPT ![c].pc = "image_preparing", ![c].plan.service = d]
      PROVE  MediaInv'
  <2>0. PICK q \in {r \in ImageRequests : WellFormedImages(r)} :
          caller[c].plan \in {[service |-> s, request |-> q] : s \in ImageConfigured \cup {"none"}}
    BY <1>2 DEF ImageAsked
  <2>1. PICK s \in ImageConfigured \cup {"none"} : caller[c].plan = [service |-> s, request |-> q]
    BY <2>0
  <2> DEFINE plan == [service |-> d, request |-> q]
             k == [caller[c] EXCEPT !.pc = "image_preparing", !.plan = plan]
  <2>2. plan \in ImageAsked /\ plan.service = d
    BY <2>0 DEF ImageAsked
  <2>3. caller[c] \in Call /\ caller \in [Callers -> Call]
    BY DEF MediaInv, MediaData
  <2>4. [caller[c].plan EXCEPT !.service = d] = plan
    BY <2>1
  <2>5. caller' = [caller EXCEPT ![c] = k]
    BY <1>4, <2>3, <2>4 DEF Call
  <2> HIDE DEF plan
  <2>6. k \in Call /\ k.pc = "image_preparing" /\ k.plan = plan /\ k.job = NoJob /\ ~ k.charged
    BY <1>2, <2>2, <2>3 DEF Call, Jobless, ImageWorking
  <2> HIDE DEF k
  <2>7. /\ caller' \in [Callers -> Call] /\ \A e \in Callers : e # c => caller'[e] = caller[e]
        /\ caller'[c] = k
    BY <2>5, <2>6, Changing
  <2>8. CallTrue(c)'
    BY <2>2, <2>6, <2>7 DEF CallTrue, Jobless, ImageWorking
  <2>9. k.pc \in Jobless
    BY <2>6 DEF Jobless, ImageWorking
  <2> QED
    BY <1>1, <1>2, <2>7, <2>8, <2>9, JoblessKeeps
<1>5. \A q \in ImageRequests : AcceptingImages[q] \subseteq ImageConfigured
  BY DEF AcceptingImages
<1>6. caller[c].plan.request \in ImageRequests
  BY <1>2 DEF ImageAsked
<1> QED
  BY <1>3, <1>4, <1>5, <1>6 DEF ImageRoutes

\* The request for images that goes out is whole.
LEMMA ImagePreparesKeeps ==
  ASSUME MediaInv, NEW c \in Callers, ImagePrepares(c)
  PROVE  MediaInv'
<1> DEFINE plan == caller[c].plan
           draft == WithImages(plan.service, plan.request)
<1>1. caller[c].pc = "image_preparing" /\ UNCHANGED DiskVars
  BY DEF ImagePrepares
<1>2. /\ caller[c].pc \in Jobless /\ plan \in ImageAsked /\ caller[c].job = NoJob
      /\ ~ caller[c].charged /\ plan.service \in ImageConfigured
  BY <1>1, CallTyped DEF CallTrue, Jobless, ImageWorking
<1>3. CASE Return(c, "rejected")
  BY <1>1, <1>2, <1>3, ReturnOnly
<1>4. ASSUME AcceptsImages(plan.service, plan.request), draft.ok, NEW taken \in BOOLEAN,
             caller' = [caller EXCEPT ![c].pc = "image_posting", ![c].charged = taken,
                          ![c].plan = [service |-> plan.service,
                                       whole |-> CarriesAll(draft, plan.request)]]
      PROVE  MediaInv'
  <2>1. plan.request \in ImageRequests /\ WellFormedImages(plan.request)
    BY <1>2 DEF ImageAsked
  <2>2. plan.service \in DOMAIN ImageDrivers
    BY <1>2, ImageAssumption
  <2>3. CarriesAll(draft, plan.request)
    BY <1>4, <2>1, <2>2, ImageAssumption, DraftsAreWhole
  <2>4. CarriesAll(draft, plan.request) = TRUE
    BY <2>3 DEF CarriesAll
  <2> DEFINE out == [service |-> plan.service, whole |-> TRUE]
             k == [caller[c] EXCEPT !.pc = "image_posting", !.charged = taken, !.plan = out]
  <2>5. out \in ImageDrafted
    BY <1>2 DEF ImageDrafted
  <2>6. caller[c] \in Call /\ caller \in [Callers -> Call]
    BY DEF MediaInv, MediaData
  <2>7. [service |-> plan.service, whole |-> CarriesAll(draft, plan.request)] = out
    BY <2>4
  <2>8. caller' = [caller EXCEPT ![c] = k]
    <3> HIDE DEF out, draft
    <3>1. caller' = [caller EXCEPT ![c].pc = "image_posting", ![c].charged = taken, ![c].plan = out]
      BY <1>4, <2>7
    <3> QED
      BY <2>6, <3>1 DEF Call
  <2> HIDE DEF out
  <2>9. k \in Call /\ k.pc = "image_posting" /\ k.plan = out /\ k.job = NoJob
    BY <1>2, <2>5, <2>6 DEF Call, Jobless, ImageWorking
  <2> HIDE DEF k
  <2>10. /\ caller' \in [Callers -> Call] /\ \A e \in Callers : e # c => caller'[e] = caller[e]
         /\ caller'[c] = k
    BY <2>8, <2>9, Changing
  <2>11. CallTrue(c)'
    BY <2>5, <2>9, <2>10 DEF CallTrue, Jobless, ImageWorking
  <2>12. k.pc \in Jobless
    BY <2>9 DEF Jobless, ImageWorking
  <2> QED
    BY <1>1, <1>2, <2>10, <2>11, <2>12, JoblessKeeps
<1> QED
  BY <1>3, <1>4 DEF ImagePrepares

\* After a reply to the paid request, or to a query, the call only queries and stores.
LEMMA ImageDecodedKeeps ==
  ASSUME MediaInv, NEW c \in Callers, caller[c].pc \in {"image_posting", "image_querying"},
         UNCHANGED DiskVars, NEW reply, ImageDecoded(c, reply)
  PROVE  MediaInv'
<1>1. caller[c].pc \in Jobless /\ caller[c].plan \in ImageDrafted /\ caller[c].job = NoJob
  BY CallTyped DEF CallTrue, Jobless, ImageWorking
<1>2. CASE Return(c, "unknown")
  BY <1>2, ReturnOnly
<1>3. ASSUME NEW pc \in {"image_storing", "image_querying"},
             caller' = [caller EXCEPT ![c].pc = pc, ![c].attempts = 0]
      PROVE  MediaInv'
  <2> DEFINE k == [caller[c] EXCEPT !.pc = pc, !.attempts = 0]
  <2>1. caller[c] \in Call /\ caller \in [Callers -> Call]
    BY DEF MediaInv, MediaData
  <2>2. caller' = [caller EXCEPT ![c] = k]
    BY <1>3, <2>1 DEF Call
  <2>3. /\ k \in Call /\ k.pc = pc /\ k.plan = caller[c].plan /\ k.job = NoJob
    BY <1>1, <2>1, NoAttempts DEF Call, Jobless, ImageWorking
  <2> HIDE DEF k
  <2>4. /\ caller' \in [Callers -> Call] /\ \A d \in Callers : d # c => caller'[d] = caller[d]
        /\ caller'[c] = k
    BY <2>2, <2>3, Changing
  <2>5. CallTrue(c)'
    BY <1>1, <2>3, <2>4 DEF CallTrue, Jobless, ImageWorking
  <2>6. k.pc \in Jobless
    BY <2>3 DEF Jobless, ImageWorking
  <2> QED
    BY <1>1, <2>4, <2>5, <2>6, JoblessKeeps
<1> QED
  BY <1>2, <1>3 DEF ImageDecoded

\* The steps after an image request was begun: none of them says that it was rejected.
LEMMA ImageStepsKeep ==
  ASSUME MediaInv, NEW c \in Callers,
         ImagePosts(c) \/ ImageQueries(c) \/ ImageStores(c) \/ ImageTimesOut(c)
  PROVE  MediaInv'
<1>1. CASE ImagePosts(c)
  BY <1>1, ReturnOnly, ImageDecodedKeeps DEF ImagePosts
<1>2. CASE ImageQueries(c)
  <2>1. caller[c].pc = "image_querying" /\ UNCHANGED DiskVars
    BY <1>2 DEF ImageQueries
  <2>2. ASSUME caller[c].attempts + 1 < QueryAttempts,
               caller' = [caller EXCEPT ![c].attempts = @ + 1]
        PROVE  MediaInv'
    <3> DEFINE n == caller[c].attempts + 1
               k == [caller[c] EXCEPT !.attempts = n]
    <3>1. caller[c] \in Call /\ caller \in [Callers -> Call]
      BY DEF MediaInv, MediaData
    <3>2. n \in 0 .. (QueryAttempts - 1)
      BY <2>2, <3>1 DEF Call, QueryAttempts
    <3>3. caller' = [caller EXCEPT ![c] = k]
      BY <2>2, <3>1 DEF Call
    <3> HIDE DEF n
    <3>4. /\ k \in Call /\ k.pc = caller[c].pc /\ k.plan = caller[c].plan /\ k.job = caller[c].job
          /\ k.charged = caller[c].charged
      BY <3>1, <3>2 DEF Call
    <3> HIDE DEF k
    <3>5. /\ caller' \in [Callers -> Call] /\ \A d \in Callers : d # c => caller'[d] = caller[d]
          /\ caller'[c] = k
      BY <3>3, <3>4, Changing
    <3>6. CallTrue(c)'
      BY <3>4, <3>5, CallTyped DEF CallTrue
    <3>7. caller[c].pc \in Jobless
      BY <2>1 DEF Jobless, ImageWorking
    <3> QED
      BY <2>1, <3>4, <3>5, <3>6, <3>7, JoblessKeeps
  <2> QED
    BY <1>2, <2>1, <2>2, ReturnOnly, ImageDecodedKeeps DEF ImageQueries
<1>3. CASE ImageStores(c)
  BY <1>3, ReturnOnly DEF ImageStores
<1>4. CASE ImageTimesOut(c)
  <2>1. caller[c].pc = "image_preparing" => ~ caller[c].charged
    BY CallTyped DEF CallTrue
  <2> QED
    BY <1>4, <2>1, ReturnOnly DEF ImageTimesOut
<1> QED
  BY <1>1, <1>2, <1>3, <1>4

\* A transcription.
LEMMA TranscriptionKeeps ==
  ASSUME MediaInv, NEW c \in Callers,
         CallTranscription(c) \/ TranscriptionStarts(c) \/ TranscriptionPosts(c)
  PROVE  MediaInv'
<1>0. caller[c] \in Call /\ caller \in [Callers -> Call] /\ CallTrue(c)
  BY CallTyped DEF MediaInv, MediaData
<1>1. UNCHANGED DiskVars /\ caller[c].pc \in Jobless /\ caller[c].job = NoJob
  BY <1>0 DEF CallTranscription, TranscriptionStarts, TranscriptionPosts, Jobless, CallTrue
<1>2. ASSUME NEW k \in Call, caller' = [caller EXCEPT ![c] = k], k.job = NoJob, ~ k.charged,
             k.pc \in Resting \cup {"asr_queue", "asr_posting"}
      PROVE  MediaInv'
  <2>1. /\ caller' \in [Callers -> Call] /\ \A d \in Callers : d # c => caller'[d] = caller[d]
        /\ caller'[c] = k
    BY <1>2, Changing
  <2>2. CallTrue(c)' /\ k.pc \in Jobless
    BY <1>2, <2>1 DEF CallTrue, Jobless, Resting
  <2> QED
    BY <1>1, <2>1, <2>2, JoblessKeeps
<1>3. \A pc \in Resting : /\ Rest(pc, FALSE) \in Call /\ Rest(pc, FALSE).job = NoJob
                          /\ ~ Rest(pc, FALSE).charged /\ Rest(pc, FALSE).pc = pc
  BY DEF Rest, Call, QueryAttempts, Jobless, Resting
<1>4. CASE CallTranscription(c)
  <2> DEFINE k == [Rest("asr_queue", FALSE) EXCEPT !.op = "transcribe"]
  <2>0. /\ Rest("asr_queue", FALSE) \in Call /\ Rest("asr_queue", FALSE).pc = "asr_queue"
        /\ Rest("asr_queue", FALSE).job = NoJob /\ Rest("asr_queue", FALSE).charged = FALSE
    BY FreshCall DEF Jobless
  <2>1. k \in Call /\ k.job = NoJob /\ ~ k.charged /\ k.pc = "asr_queue"
    BY <2>0 DEF Call
  <2>2. caller' = [caller EXCEPT ![c] = k]
    BY <1>4 DEF CallTranscription
  <2> HIDE DEF k
  <2> QED
    BY <1>2, <2>1, <2>2
<1>5. CASE TranscriptionStarts(c)
  <2>1. ~ caller[c].charged
    BY <1>0, <1>5 DEF TranscriptionStarts, CallTrue
  <2>2. CASE GoTo(c, "asr_posting", NoRecord)
    <3> DEFINE k == [caller[c] EXCEPT !.pc = "asr_posting", !.rec = NoRecord]
    <3>1. k \in Call /\ k.job = NoJob /\ ~ k.charged /\ k.pc = "asr_posting"
      BY <1>0, <1>1, <2>1 DEF Call, Jobless
    <3>2. caller' = [caller EXCEPT ![c] = k]
      BY <1>0, <2>2 DEF GoTo, Call
    <3> HIDE DEF k
    <3> QED
      BY <1>2, <3>1, <3>2
  <2>3. CASE Return(c, "rejected")
    BY <1>1, <2>1, <2>3, ReturnOnly
  <2> QED
    BY <1>5, <2>2, <2>3 DEF TranscriptionStarts
<1>6. CASE TranscriptionPosts(c)
  <2>1. PICK taken \in BOOLEAN,
             answer \in {"lost", "server_error", "refused", "unreadable", "not_stored", "stored"} :
          /\ answer = "refused" => ~taken
          /\ caller' = [caller EXCEPT ![c] = IF AnswerClass(answer) = "rejected"
                                             THEN Rest("rejected", taken) ELSE Rest("idle", FALSE)]
    BY <1>6 DEF TranscriptionPosts
  <2>2. AnswerClass(answer) = "rejected" => ~ taken
    BY <2>1 DEF AnswerClass
  <2>3. PICK pc \in Resting : caller' = [caller EXCEPT ![c] = Rest(pc, FALSE)]
    BY <2>1, <2>2 DEF Resting
  <2> QED
    BY <1>2, <1>3, <2>3
<1> QED
  BY <1>4, <1>5, <1>6

\* The service ends a task: what the records say stays true.
LEMMA UpstreamEndsKeeps ==
  ASSUME MediaInv, NEW j \in Jobs, UpstreamEnds(j)
  PROVE  MediaInv'
<1>1. UNCHANGED <<offered, record, paid, sent, downloads, caller>> /\ upstream[j] = "running"
  BY DEF UpstreamEnds
<1>2. upstream \in [Jobs -> {"none", "running", "done", "failed"}]
  BY DEF MediaInv, MediaData
<1>3. PICK end \in {"done", "failed"} : upstream' = [upstream EXCEPT ![j] = end]
  BY DEF UpstreamEnds
<1>4. /\ upstream' \in [Jobs -> {"none", "running", "done", "failed"}]
      /\ \A i \in Jobs : /\ upstream[i] # "none" => upstream'[i] # "none"
                         /\ upstream[i] = "failed" => upstream'[i] = "failed"
  BY <1>1, <1>2, <1>3
<1>5. MediaData' /\ OneHolder'
  BY <1>1, <1>4 DEF MediaInv, MediaData, OneHolder, HoldsLock
<1>6. ASSUME NEW c \in Callers PROVE CallTrue(c)' /\ HolderTrue(c)'
  <2>1. CallTrue(c) /\ HolderTrue(c) /\ (caller[c].pc \in Holding => caller[c].job \in Jobs)
    BY CallTyped, HolderAlone
  <2> QED
    BY <1>1, <1>4, <2>1 DEF CallTrue, HolderTrue, Holding
<1>7. ASSUME NEW i \in Jobs PROVE RecordTrue(i)'
  BY <1>1, <1>4 DEF MediaInv, RecordTrue
<1> QED
  BY <1>5, <1>6, <1>7 DEF MediaInv

\* The process dies: the records stay, and no call holds anything.
LEMMA CrashKeeps ==
  ASSUME MediaInv, Crash
  PROVE  MediaInv'
<1>1. UNCHANGED <<offered, record, upstream, paid, sent, downloads>>
  BY DEF Crash, DiskVars
<1>2. caller' = [c \in Callers |-> Rest("idle", FALSE)]
  BY DEF Crash
<1>3. Rest("idle", FALSE) \in Call
  BY DEF Rest, Call, QueryAttempts, Jobless, Resting
<1>4. MediaData' /\ OneHolder'
  BY <1>1, <1>2, <1>3 DEF MediaInv, MediaData, OneHolder, HoldsLock, Rest, Resting
<1>5. ASSUME NEW c \in Callers PROVE CallTrue(c)' /\ HolderTrue(c)'
  BY <1>2 DEF CallTrue, HolderTrue, Rest, Jobless, Resting
<1>6. ASSUME NEW i \in Jobs PROVE RecordTrue(i)'
  BY <1>1 DEF MediaInv, RecordTrue
<1> QED
  BY <1>4, <1>5, <1>6 DEF MediaInv

\* Nobody has called.
LEMMA MediaStart == MediaInit => MediaInv
<1> SUFFICES ASSUME MediaInit PROVE MediaInv
  OBVIOUS
<1>1. Rest("idle", FALSE) \in Call
  BY DEF Rest, Call, QueryAttempts, Jobless, Resting
<1>2. MediaData /\ OneHolder
  BY <1>1, MediaAssumption DEF MediaInit, MediaData, OneHolder, HoldsLock, Rest, Resting
<1>3. ASSUME NEW c \in Callers PROVE CallTrue(c) /\ HolderTrue(c)
  BY DEF MediaInit, CallTrue, HolderTrue, Rest, Jobless, Resting
<1>4. ASSUME NEW j \in Jobs PROVE RecordTrue(j)
  BY DEF MediaInit, RecordTrue, Complete, NoRecord, NotSent
<1> QED
  BY <1>2, <1>3, <1>4 DEF MediaInv

\* Every step keeps the invariant.
LEMMA MediaStep == MediaInv /\ [MediaNext]_mediaVars => MediaInv'
<1> SUFFICES ASSUME MediaInv, [MediaNext]_mediaVars PROVE MediaInv'
  OBVIOUS
<1>1. offered \in OfferNames
  BY DEF MediaInv, MediaData
<1>2. ASSUME NEW c \in Callers, JobStep(c) PROVE MediaInv'
  <2>1. Asked(c) \subseteq Requests
    BY <1>1 DEF Asked, Requests
  <2> QED
    BY <1>2, <2>1, EndingKeeps, AdvanceInterruptedKeeps, AdvancePollsKeeps, PermitKeeps,
       QueryAnswersKeeps, DownloadKeeps, SubtitlesKeeps, FinishDownloadKeeps, RouteKeeps,
       ResolveKeeps, RecordSubmittingKeeps, PostKeeps, RecordAnswerKeeps DEF JobStep
<1>3. ASSUME NEW c \in Callers, PaidStep(c) PROVE MediaInv'
  <2>1. Offer[offered].images \subseteq ImageRequests
    BY <1>1 DEF ImageRequests
  <2> QED
    BY <1>3, <2>1, CallImageKeeps, ImageRoutesKeeps, ImagePreparesKeeps, ImageStepsKeep,
       TranscriptionKeeps DEF PaidStep
<1>4. CASE JobNext
  BY <1>2, <1>4, CallJobKeeps, EndingKeeps, UpstreamEndsKeeps, CrashKeeps DEF JobNext, Offering
<1>5. CASE UNCHANGED mediaVars
  <2>1. UNCHANGED <<offered, record, upstream, paid, sent, downloads, caller>>
    BY <1>5 DEF mediaVars
  <2>2. MediaData' /\ OneHolder'
    BY <2>1 DEF MediaInv, MediaData, OneHolder, HoldsLock
  <2>3. ASSUME NEW c \in Callers PROVE CallTrue(c)' /\ HolderTrue(c)'
    BY <2>1 DEF MediaInv, CallTrue, HolderTrue
  <2>4. ASSUME NEW j \in Jobs PROVE RecordTrue(j)'
    BY <2>1 DEF MediaInv, RecordTrue
  <2> QED
    BY <2>2, <2>3, <2>4 DEF MediaInv
<1> QED
  BY <1>3, <1>4, <1>5 DEF MediaNext

-----------------------------------------------------------------------------
(* The theorems. *)

\* The invariant of media jobs and paid calls, for every number of jobs and calls that are dropped,
\* fail to save or die at any point (MediaGeneration, its job files and its lock).
THEOREM MediaSafe == MediaSpec => []MediaInv
  BY MediaStart, MediaStep, PTL DEF MediaSpec

\* A job is paid for at most once and never off the record, and what is reported as rejected was not
\* charged, whatever is dropped, lost, repeated or cut off.
THEOREM JobsArePaidOnce == MediaSpec => []PaidOnce
<1>1. MediaInv => PaidOnce
  <2> SUFFICES ASSUME MediaInv PROVE PaidOnce
    OBVIOUS
  <2>1. ASSUME NEW j \in Jobs PROVE paid[j] <= 1 /\ (paid[j] = 1 => record[j] # NoRecord)
    BY DEF MediaInv, MediaData, RecordTrue
  <2>2. ASSUME NEW c \in Callers PROVE caller[c].pc = "rejected" => ~caller[c].charged
    BY DEF MediaInv, CallTrue
  <2> QED
    BY <2>1, <2>2 DEF PaidOnce
<1> QED
  BY <1>1, MediaSafe, PTL

\* What a job's record says is so: succeeded jobs are complete, failed ones failed at the service,
\* and running ones were taken and paid for.
THEOREM RecordsAreTrue == MediaSpec => []PhaseTrue
<1>1. MediaInv => PhaseTrue
  BY DEF MediaInv, RecordTrue, Complete, PhaseTrue
<1> QED
  BY <1>1, MediaSafe, PTL

\* Every paid request carries every input of its request, for lists of every length and whatever
\* services are configured, in whatever order.
THEOREM InputsAreCarried == MediaSpec => []InputsCarried
<1>1. MediaInv => InputsCarried
  <2> SUFFICES ASSUME MediaInv PROVE InputsCarried
    OBVIOUS
  <2>1. ASSUME NEW c \in Callers, caller[c].pc \in {"image_posting", "image_querying"}
        PROVE  caller[c].plan.whole
    BY <2>1 DEF MediaInv, CallTrue, ImageDrafted
  <2> QED
    BY <2>1 DEF MediaInv, RecordTrue, InputsCarried
<1> QED
  BY <1>1, MediaSafe, PTL

-----------------------------------------------------------------------------
(* The answer of a model. *)

\* The length of an answer given in pieces.
LEMMA PiecesLength ==
  ASSUME NEW n \in Nat
  PROVE  Pieces(n) \in Seq(Nat) /\ Len(Pieces(n)) = n
BY DEF Pieces

\* An answer begins in order.
LEMMA InitInOrder ==
  ASSUME Length \in Nat, AnswerInit
  PROVE  AnswerInOrder
<1>1. <<>> = Pieces(0)
  BY DEF Pieces
<1> QED
  BY <1>1 DEF AnswerInit, AnswerInOrder

(* A step leaves the answer in sight ordered, and covering what is settled. *)
LEMMA NextInOrder ==
  ASSUME Length \in Nat, AnswerInOrder, [AnswerNext]_answer_vars
  PROVE  AnswerInOrder'
<1>0. shown \in Seq(Nat) /\ shown = Pieces(Len(shown)) /\ Len(shown) \in Nat /\ Len(shown) <= Length
      /\ settled \in 0 .. Len(shown)
  BY DEF AnswerInOrder
<1>1. CASE Extend
  <2>1. PICK n \in Len(shown) .. Length : shown' = Pieces(n)
    BY <1>1 DEF Extend
  <2>2. n \in Nat
    BY <2>1, <1>0
  <2> QED
    BY <1>0, <1>1, <2>1, <2>2, PiecesLength DEF Extend, AnswerInOrder
<1>2. CASE SettleMore
  BY <1>0, <1>2 DEF SettleMore, AnswerInOrder
<1>3. CASE TakeBack
  BY <1>0, <1>3, PiecesLength DEF TakeBack, AnswerInOrder
<1>4. CASE \E end \in Outcome : Conclude(end)
  <2>1. CASE shown' = <<>> /\ settled' = 0
    <3>1. <<>> = Pieces(0)
      BY DEF Pieces
    <3> QED
      BY <2>1, <3>1 DEF AnswerInOrder
  <2>2. CASE /\ \E n \in Len(shown) .. Length : shown' = Pieces(n)
             /\ settled' \in settled .. Len(shown')
    <3>1. PICK n \in Len(shown) .. Length : shown' = Pieces(n)
      BY <2>2
    <3>2. n \in Nat
      BY <3>1, <1>0
    <3> QED
      BY <1>0, <2>2, <3>1, <3>2, PiecesLength DEF AnswerInOrder
  <2> QED
    BY <1>4, <2>1, <2>2 DEF Conclude
<1>5. CASE UNCHANGED answer_vars
  BY <1>5 DEF answer_vars, AnswerInOrder
<1> QED
  BY <1>1, <1>2, <1>3, <1>4, <1>5 DEF AnswerNext

(* The pieces a watcher sees are the beginning of the answer, in order and  *)
(* each once, at every moment of a call.                                    *)
THEOREM AnswerAlwaysInOrder ==
  ASSUME Length \in Nat
  PROVE  AnswerSpec => []AnswerInOrder
<1>1. AnswerInit => AnswerInOrder
  BY InitInOrder
<1>2. AnswerInOrder /\ [AnswerNext]_answer_vars => AnswerInOrder'
  BY NextInOrder
<1> QED
  BY <1>1, <1>2, PTL DEF AnswerSpec

(* No step but a failure of the call takes settled pieces out of sight.     *)
THEOREM SettledOutputStays ==
  ASSUME Length \in Nat
  PROVE  AnswerSpec => SettledStays
<1>1. ASSUME AnswerInOrder, AnswerInOrder', [AnswerNext]_answer_vars
      PROVE  [outcome' # "failed" => settled <= Len(shown') /\ settled <= settled']_answer_vars
  <2>1. settled \in Nat /\ settled' \in Nat /\ settled' <= Len(shown')
    BY <1>1 DEF AnswerInOrder
  <2>2. CASE Extend \/ TakeBack
    BY <1>1, <2>1, <2>2 DEF Extend, TakeBack
  <2>3. CASE SettleMore
    BY <1>1, <2>1, <2>3 DEF SettleMore
  <2>4. CASE \E end \in Outcome : Conclude(end)
    BY <1>1, <2>1, <2>4 DEF Conclude
  <2> QED
    BY <1>1, <2>2, <2>3, <2>4 DEF AnswerNext
<1>2. AnswerSpec => []AnswerInOrder
  BY AnswerAlwaysInOrder
<1> QED
  BY <1>1, <1>2, PTL DEF AnswerSpec, SettledStays
=============================================================================
