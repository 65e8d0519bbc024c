--------------------------- MODULE MediaServices ---------------------------
(***************************************************************************)
(* What the video extensions accept and send.  A driver states the modes,  *)
(* input roles and local files a model takes, validates the inputs of a    *)
(* request, and writes them into the body of the one paid request.         *)
(*                                                                         *)
(* A request is [mode, inputs]; an input is [role, source], its source one *)
(* of a session blob, a public URL, an earlier job, or a preset voice.     *)
(* Prompts, durations, resolutions and ratios are left out: the requests   *)
(* here have the ones their service takes.  A body is the set of the       *)
(* positions of the inputs it carries; a refused request has no body.      *)
(***************************************************************************)
EXTENDS Naturals, Sequences, FiniteSets

Modes == {"text", "frames", "reference", "edit", "extend"}
Roles == {"first_frame", "last_frame", "keyframe", "reference_image",
          "reference_video", "reference_audio", "reference_voice", "source_video"}

MediaType(role) ==
  IF role \in {"first_frame", "last_frame", "keyframe", "reference_image"} THEN "image"
  ELSE IF role \in {"reference_audio", "reference_voice"} THEN "audio" ELSE "video"

Frames == {"first_frame", "last_frame"}
References == {"reference_image", "reference_video", "reference_audio"}
At(inputs, roles) == {i \in DOMAIN inputs : inputs[i].role \in roles}
Count(inputs, roles) == Cardinality(At(inputs, roles))
OnlyRoles(inputs, roles) == At(inputs, roles) = DOMAIN inputs

(***************************************************************************)
(* The capabilities of each model: its modes, its roles, and the kinds of  *)
(* local file that may be sent as a blob.                                  *)
(***************************************************************************)
Capabilities(modes, roles, blobs) == [modes |-> modes, roles |-> roles, blobs |-> blobs]

LumaVideo == Capabilities({"text", "frames", "edit", "extend"}, Frames \cup {"source_video"}, {})
XaiModern == Capabilities({"text", "frames", "reference"},
                          Frames \cup {"keyframe", "reference_image", "reference_voice"}, {"image"})
XaiLite == Capabilities({"text", "frames"}, {"first_frame"}, {"image"})
XaiClassic == Capabilities(Modes, {"first_frame", "reference_image", "source_video"}, {"image", "video"})
MiniMaxVideo == Capabilities({"text", "frames", "reference"}, Frames \cup References,
                             {"image", "video", "audio"})
SeedanceVideo == Capabilities({"text", "frames", "reference"},
                              Frames \cup References \cup {"source_video"}, {"image", "audio"})
Seedance25Video == [SeedanceVideo EXCEPT !.modes = Modes]
RunningHubVideo == Capabilities(Modes, Frames \cup References \cup {"source_video"},
                                {"image", "video", "audio"})
XiaoyunqueVideo == Capabilities({"text", "reference"}, {"reference_image", "reference_video"}, {})
RunwayGeneration == Capabilities({"text", "frames"}, {"first_frame"}, {"image"})
RunwayAleph == Capabilities({"edit"}, Frames \cup {"source_video"}, {"image", "video"})

Services == [luma |-> LumaVideo, xai |-> XaiModern, xai_lite |-> XaiLite, xai_classic |-> XaiClassic,
             minimax |-> MiniMaxVideo, seedance |-> SeedanceVideo, seedance25 |-> Seedance25Video,
             runninghub |-> RunningHubVideo, xiaoyunque |-> XiaoyunqueVideo,
             gen45 |-> RunwayGeneration, aleph |-> RunwayAleph]
Xai == {"xai", "xai_lite", "xai_classic"}
Runway == {"gen45", "aleph"}

(***************************************************************************)
(* Validation of a request's inputs.                                       *)
(***************************************************************************)
\* Only a job of Luma's can be named as a source, and only to be extended.
ValidateSources(caps, mode, inputs, allow_job) ==
  /\ mode \in caps.modes
  /\ Len(inputs) <= 50
  /\ \A i \in DOMAIN inputs :
       /\ inputs[i].role \in caps.roles
       /\ (inputs[i].role = "reference_voice") <=> (inputs[i].source = "voice")
       /\ inputs[i].source = "job" => allow_job /\ mode = "extend" /\ inputs[i].role = "source_video"
  /\ \A role \in Frames \cup {"source_video"} : Count(inputs, {role}) <= 1

\* What every contract but xAI's asks of a mode's inputs.
ModeInputs(mode, inputs) ==
  /\ mode = "text" => inputs = << >>
  /\ mode = "frames" => inputs # << >> /\ OnlyRoles(inputs, Frames)
  /\ mode = "reference" => inputs # << >> /\ OnlyRoles(inputs, References)
  /\ mode \in {"edit", "extend"} => Count(inputs, {"source_video"}) = 1

ReferenceLimits(inputs, images, videos, audios) ==
  /\ Count(inputs, {"reference_image"}) <= images
  /\ Count(inputs, {"reference_video", "source_video"}) <= videos
  /\ Count(inputs, {"reference_audio"}) <= audios

\* Mutant: a last frame is let through for an edit, which has no place for it.
AnyEditFrame(mode, inputs) ==
  /\ ValidateSources(LumaVideo, mode, inputs, TRUE)
  /\ ModeInputs(mode, inputs)
  /\ mode = "extend" => \E i \in At(inputs, {"source_video"}) : inputs[i].source = "job"
  /\ mode = "extend" => Count(inputs, {"first_frame"}) = 0
  /\ ReferenceLimits(inputs, 9, 3, 3)

LumaContract(mode, inputs) ==
  /\ ValidateSources(LumaVideo, mode, inputs, TRUE)
  /\ ModeInputs(mode, inputs)
  /\ mode = "extend" => \E i \in At(inputs, {"source_video"}) : inputs[i].source = "job"
  /\ mode = "edit" => Count(inputs, {"last_frame"}) = 0
  /\ mode = "extend" => Count(inputs, {"first_frame"}) = 0
  /\ ReferenceLimits(inputs, 9, 3, 3)

XaiContract(service, mode, inputs) ==
  /\ ValidateSources(Services[service], mode, inputs, FALSE)
  /\ mode = "text" => inputs = << >>
  /\ mode \in {"frames", "reference"} => inputs # << >>
  /\ mode = "frames" => OnlyRoles(inputs, Frames \cup {"keyframe"})
  /\ mode = "reference" => OnlyRoles(inputs, {"reference_image", "reference_voice"}
                                     \cup (IF service = "xai" THEN Frames \cup {"keyframe"} ELSE {}))
  /\ mode \in {"edit", "extend"} => Len(inputs) = 1 /\ Count(inputs, {"source_video"}) = 1
  /\ Count(inputs, {"keyframe"}) <= 4
  /\ Count(inputs, {"reference_voice"}) <= 3
  /\ Count(inputs, {"reference_image"}) <= IF service = "xai" THEN 14 ELSE 7

MiniMaxContract(mode, inputs) ==
  /\ ValidateSources(MiniMaxVideo, mode, inputs, FALSE)
  /\ ModeInputs(mode, inputs)
  /\ mode = "frames" => Count(inputs, {"first_frame"}) = 1
  /\ ReferenceLimits(inputs, 9, 3, 3)

SeedanceContract(service, mode, inputs) ==
  /\ ValidateSources(Services[service], mode, inputs, FALSE)
  /\ ModeInputs(mode, inputs)
  /\ mode = "frames" => Count(inputs, {"first_frame"}) = 1
  /\ mode \in {"edit", "extend"} => At(inputs, Frames) = {}
  /\ IF service = "seedance25" THEN ReferenceLimits(inputs, 30, 10, 10) ELSE ReferenceLimits(inputs, 9, 3, 3)
  /\ service = "seedance" /\ Count(inputs, {"reference_audio"}) > 0
       => Count(inputs, {"reference_image", "reference_video"}) > 0

RunningHubContract(mode, inputs) ==
  /\ ValidateSources(RunningHubVideo, mode, inputs, FALSE)
  /\ ModeInputs(mode, inputs)
  /\ mode = "frames" => Count(inputs, {"first_frame"}) = 1
  /\ mode \in {"edit", "extend"} => At(inputs, Frames) = {}
  /\ ReferenceLimits(inputs, 30, 10, 10)

XiaoyunqueContract(mode, inputs) ==
  /\ ValidateSources(XiaoyunqueVideo, mode, inputs, FALSE)
  /\ ModeInputs(mode, inputs)

(***************************************************************************)
(* The body each driver writes: the inputs it carries, or no body.         *)
(***************************************************************************)
Body(carried) == [ok |-> TRUE, carried |-> carried]
NoBody == [ok |-> FALSE, carried |-> {}]

\* An extension starts from the source job, an edit from the source video.
LumaBody(mode, inputs) ==
  LET source == At(inputs, {"source_video"})
      first == At(inputs, {"first_frame"})
      last == At(inputs, {"last_frame"})
  IN IF mode = "edit" THEN (IF source = {} THEN NoBody ELSE Body(source \cup first))
     ELSE IF mode \in {"frames", "extend"} THEN Body(last \cup IF source = {} THEN first ELSE source)
     ELSE Body({})

XaiBody(service, mode, inputs) ==
  LET modern == service = "xai"
      voices == At(inputs, {"reference_voice"})
      guides == At(inputs, {"reference_image", "last_frame", "keyframe"}) \cup voices
  IN IF mode \in {"edit", "extend"}
     THEN IF service = "xai_classic" /\ Len(inputs) = 1 /\ At(inputs, {"source_video"}) # {}
          THEN Body({1}) ELSE NoBody
     ELSE IF \/ ~modern /\ At(inputs, {"reference_voice", "keyframe", "last_frame"}) # {}
             \/ ~modern /\ guides # {} /\ At(inputs, {"first_frame"}) # {}
             \/ service = "xai_lite" /\ guides # {}
             \/ Cardinality(voices) > 3
             \/ Count(inputs, {"keyframe"}) > 4
             \/ Count(inputs, {"reference_image"}) > (IF modern THEN 14 ELSE 7)
          THEN NoBody ELSE Body(guides \cup At(inputs, {"first_frame"}))

MiniMaxBody(inputs) == Body(DOMAIN inputs)
SeedanceBody(inputs) == Body(DOMAIN inputs)

RunningHubBody(mode, inputs) ==
  IF mode = "text" THEN Body({})
  ELSE IF mode = "frames" THEN (IF OnlyRoles(inputs, Frames) THEN Body(DOMAIN inputs) ELSE NoBody)
  ELSE Body(At(inputs, References \cup {"source_video"}))

XiaoyunqueBody(inputs) == Body(At(inputs, {"reference_image", "reference_video"}))

\* Runway's tool sends a plan of its own.  It has guidance images follow
\* the source video, and nothing in it looks at the model.
RunwayPlanBody(mode, inputs) ==
  IF mode = "edit"
  THEN IF /\ Len(inputs) \in 1..6 /\ inputs[1].role = "source_video"
          /\ \A i \in 2..Len(inputs) : inputs[i].role = "reference_image"
       THEN Body(DOMAIN inputs) ELSE NoBody
  ELSE IF Len(inputs) <= 1 /\ OnlyRoles(inputs, {"first_frame"}) THEN Body(DOMAIN inputs) ELSE NoBody

BodyOf(service, mode, inputs) ==
  CASE service \in Runway -> RunwayPlanBody(mode, inputs)
    [] service \in Xai -> XaiBody(service, mode, inputs)
    [] service = "luma" -> LumaBody(mode, inputs)
    [] service = "minimax" -> MiniMaxBody(inputs)
    [] service = "runninghub" -> RunningHubBody(mode, inputs)
    [] service = "xiaoyunque" -> XiaoyunqueBody(inputs)
    [] service \in {"seedance", "seedance25"} -> SeedanceBody(inputs)

Contract(service, mode, inputs) ==
  CASE service \in Xai -> XaiContract(service, mode, inputs)
    [] service = "luma" -> LumaContract(mode, inputs)
    [] service = "minimax" -> MiniMaxContract(mode, inputs)
    [] service = "runninghub" -> RunningHubContract(mode, inputs)
    [] service = "xiaoyunque" -> XiaoyunqueContract(mode, inputs)
    [] service \in {"seedance", "seedance25"} -> SeedanceContract(service, mode, inputs)

(***************************************************************************)
(* The mode of a request: named by the caller, or read off its inputs.     *)
(* xAI's tool and Runway's derive it from the action and its arguments.    *)
(***************************************************************************)
InferMode(inputs) ==
  IF inputs = << >> THEN "text"
  ELSE IF At(inputs, {"source_video"}) # {} THEN "edit"
  ELSE IF At(inputs, References \cup {"reference_voice"}) # {} THEN "reference"
  ELSE "frames"

XaiOperation(action, inputs) ==
  IF action # "generate" THEN action
  ELSE IF At(inputs, {"reference_image", "reference_voice"}) # {} THEN "reference"
  ELSE IF inputs # << >> THEN "frames" ELSE "text"

RunwayOperation(action, inputs) ==
  IF action # "generate" THEN action ELSE IF inputs = << >> THEN "text" ELSE "frames"

\* A plan is built as it is; every other request meets the contract first.
Preflight(service, mode, inputs) ==
  /\ service \in Runway \/ Contract(service, mode, inputs)
  /\ BodyOf(service, mode, inputs).ok

(***************************************************************************)
(* The answer to a query for the task.  A word the driver does not know    *)
(* leaves the job as it is.                                                *)
(***************************************************************************)
CommonStatus(word) ==
  IF word \in {"succeeded", "completed", "done"} THEN "complete"
  ELSE IF word \in {"failed", "cancelled", "canceled"} THEN "failed"
  ELSE IF word \in {"queued", "pending", "running", "processing", "throttled", "dreaming"} THEN "pending"
  ELSE "retained"

LumaStatus(word) == CommonStatus(word)
MiniMaxStatus(word) == CommonStatus(word)
RunwayStatus(word) == CommonStatus(word)
XaiStatus(word) == IF word = "moderated" THEN "failed" ELSE CommonStatus(word)
SeedanceStatus(word) == IF word = "expired" THEN "failed" ELSE CommonStatus(word)

RunningHubStatus(word) ==
  IF word = "SUCCESS" THEN "complete" ELSE IF word = "FAILED" THEN "failed"
  ELSE IF word \in {"RUNNING", "QUEUED"} THEN "pending" ELSE "retained"

XiaoyunqueStatus(word) ==
  IF word = "done" THEN "complete"
  ELSE IF word \in {"not_found", "expired", "refused_code"} THEN "failed"
  ELSE IF word \in {"processing", "in_queue", "generating"} THEN "pending" ELSE "retained"

DecodeStatus(service, word) ==
  CASE service \in Runway -> RunwayStatus(word)
    [] service \in Xai -> XaiStatus(word)
    [] service = "luma" -> LumaStatus(word)
    [] service = "minimax" -> MiniMaxStatus(word)
    [] service = "runninghub" -> RunningHubStatus(word)
    [] service = "xiaoyunque" -> XiaoyunqueStatus(word)
    [] service \in {"seedance", "seedance25"} -> SeedanceStatus(word)

=============================================================================
