--------------------------- MODULE ImageServices ---------------------------
(***************************************************************************)
(* What the image extensions accept, send and read back.                   *)
(*                                                                         *)
(* A request is [images, overlay, references, options]: its source images, *)
(* each a file of the session ("local") or a public URL ("remote"), an     *)
(* overlay for the first of them, the number of precise references, and    *)
(* whether it names options of its own.  Prompts, option values and pixels *)
(* are left out.  A draft says which of the inputs it carries.             *)
(***************************************************************************)
EXTENDS Naturals, Sequences, FiniteSets

Overlays == {"none", "mask", "markup"}

ImageCapabilities(limit, local, remote, required, overlays, options) ==
  [limit |-> limit, local |-> local, remote |-> remote, required |-> required,
   overlays |-> overlays, options |-> options]

\* A driver that states no capabilities takes no image and no option.
PlainImages == ImageCapabilities(0, FALSE, FALSE, FALSE, {}, FALSE)
WanImages == ImageCapabilities(9, TRUE, TRUE, FALSE, {}, TRUE)
BflImages == ImageCapabilities(8, TRUE, TRUE, FALSE, {}, TRUE)
BflFill == ImageCapabilities(1, TRUE, FALSE, TRUE, {"mask"}, TRUE)
GeminiImages == ImageCapabilities(14, TRUE, FALSE, FALSE, {}, TRUE)
InteractionsImages == ImageCapabilities(14, TRUE, FALSE, FALSE, {}, TRUE)
JimengImages == ImageCapabilities(14, FALSE, TRUE, FALSE, {}, FALSE)
NovelaiImages == ImageCapabilities(1, TRUE, FALSE, FALSE, {}, TRUE)
OpenaiImages == ImageCapabilities(16, TRUE, TRUE, FALSE, {"mask", "markup"}, TRUE)
CodexImages == ImageCapabilities(14, TRUE, FALSE, FALSE, {}, FALSE)
RunninghubImages == ImageCapabilities(10, TRUE, TRUE, FALSE, {}, TRUE)
SeedreamImages == ImageCapabilities(8, TRUE, TRUE, FALSE, {}, FALSE)
XaiImages == ImageCapabilities(5, TRUE, TRUE, FALSE, {}, TRUE)

ImageDrivers ==
  [wan |-> WanImages, bfl |-> BflImages, bfl_fill |-> BflFill, gemini |-> GeminiImages,
   interactions |-> InteractionsImages, jimeng |-> JimengImages, novelai |-> NovelaiImages,
   openai |-> OpenaiImages, codex |-> CodexImages, runninghub |-> RunninghubImages,
   seedream |-> SeedreamImages, xai |-> XaiImages, fal |-> PlainImages, replicate |-> PlainImages,
   siliconflow |-> PlainImages, stability |-> PlainImages, together |-> PlainImages]

PreciseReferences(driver) == driver = "novelai"

AcceptsReferenceCount(caps, n) == n <= caps.limit /\ (caps.required => n = 1)
AcceptsInput(caps, source) == caps.limit > 0 /\ IF source = "remote" THEN caps.remote ELSE caps.local
OverlayEditing(caps, overlay) == caps.limit > 0 /\ overlay \in caps.overlays

\* What a request asks of the model, in routing and again before it is sent.
AcceptsImages(driver, q) ==
  LET caps == ImageDrivers[driver]
  IN /\ q.overlay # "none" => OverlayEditing(caps, q.overlay)
     /\ q.references > 0 => PreciseReferences(driver)
     /\ q.options => caps.options
     /\ AcceptsReferenceCount(caps, Len(q.images))
     /\ \A i \in DOMAIN q.images : AcceptsInput(caps, q.images[i])

\* Checked before a service is chosen: an overlay lies on a local first image.
WellFormedImages(q) ==
  /\ Len(q.images) <= 16 /\ q.references <= 8
  /\ q.overlay # "none" => q.images # << >> /\ q.images[1] = "local"

(***************************************************************************)
(* The draft of the one paid request.  A driver without capabilities takes *)
(* the default, which refuses every input.                                 *)
(***************************************************************************)
Draft(images, overlay, references) ==
  [ok |-> TRUE, images |-> images, overlay |-> overlay, references |-> references]
NoDraft == [ok |-> FALSE, images |-> << >>, overlay |-> "none", references |-> 0]

AllLocal(images) == \A i \in DOMAIN images : images[i] = "local"

DefaultDraft(q) ==
  IF q.images # << >> \/ q.references > 0 \/ q.overlay # "none" THEN NoDraft ELSE Draft(<< >>, "none", 0)

WanDraft(q) == IF Len(q.images) > 9 THEN NoDraft ELSE Draft(q.images, "none", 0)

BflDraft(q) == IF Len(q.images) > 8 THEN NoDraft ELSE Draft(q.images, "none", 0)

BflFillDraft(q) ==
  IF q.references > 0 \/ q.images # <<"local">> THEN NoDraft ELSE Draft(q.images, q.overlay, 0)

GeminiDraft(q) == IF AllLocal(q.images) THEN Draft(q.images, "none", 0) ELSE NoDraft
InteractionsDraft(q) == IF AllLocal(q.images) THEN Draft(q.images, "none", 0) ELSE NoDraft

JimengDraft(q) ==
  IF \E i \in DOMAIN q.images : q.images[i] = "local" THEN NoDraft ELSE Draft(q.images, "none", 0)

NovelaiDraft(q) ==
  IF (q.images # << >> /\ q.images[1] = "remote") \/ (q.references > 0 /\ Len(q.images) > 1)
  THEN NoDraft ELSE Draft([i \in DOMAIN q.images \cap {1} |-> q.images[i]], "none", q.references)

OpenaiDraft(q) ==
  IF Len(q.images) > 16 THEN NoDraft
  ELSE Draft(q.images, IF q.images = << >> THEN "none" ELSE q.overlay, 0)

CodexDraft(q) ==
  IF q.references > 0 \/ q.overlay # "none" \/ Len(q.images) > 14 \/ ~AllLocal(q.images)
  THEN NoDraft ELSE Draft(q.images, "none", 0)

\* Local images are uploaded first, so all are URLs by then.
RunninghubDraft(q) == IF Len(q.images) > 10 THEN NoDraft ELSE Draft(q.images, "none", 0)
SeedreamDraft(q) == Draft(q.images, "none", 0)
XaiImageDraft(q) == IF Len(q.images) > 5 THEN NoDraft ELSE Draft(q.images, "none", 0)

WithImages(driver, q) ==
  IF ~AcceptsReferenceCount(ImageDrivers[driver], Len(q.images)) THEN NoDraft
  ELSE CASE driver = "wan" -> WanDraft(q)
         [] driver = "bfl" -> BflDraft(q)
         [] driver = "bfl_fill" -> BflFillDraft(q)
         [] driver = "gemini" -> GeminiDraft(q)
         [] driver = "interactions" -> InteractionsDraft(q)
         [] driver = "jimeng" -> JimengDraft(q)
         [] driver = "novelai" -> NovelaiDraft(q)
         [] driver = "openai" -> OpenaiDraft(q)
         [] driver = "codex" -> CodexDraft(q)
         [] driver = "runninghub" -> RunninghubDraft(q)
         [] driver = "seedream" -> SeedreamDraft(q)
         [] driver = "xai" -> XaiImageDraft(q)
         [] OTHER -> DefaultDraft(q)

\* The paid request holds everything the caller gave.
CarriesAll(draft, q) ==
  draft.images = q.images /\ draft.overlay = q.overlay /\ draft.references = q.references

(***************************************************************************)
(* A reply is complete, failed, or names what to query next.  Only three   *)
(* drivers are told a URL and two a task; the others answer at once.       *)
(***************************************************************************)
BflDecode(word) ==
  IF word = "sample" THEN "complete"
  ELSE IF word \in {"Error", "Failed", "Request Moderated"} THEN "failed"
  ELSE IF word \in {"id", "Pending"} THEN "pending" ELSE "failed"

\* A queue that says COMPLETED is asked for the result in turn.
FalDecode(word) ==
  IF word = "images" THEN "complete" ELSE IF word = "error" THEN "failed"
  ELSE IF word \in {"IN_QUEUE", "COMPLETED"} THEN "pending" ELSE "failed"

ReplicateDecode(word) ==
  IF word = "succeeded" THEN "complete" ELSE IF word \in {"failed", "canceled"} THEN "failed"
  ELSE IF word \in {"starting", "processing"} THEN "pending" ELSE "failed"

JimengDecode(word) ==
  IF word = "done" THEN "complete" ELSE IF word \in {"not_found", "expired"} THEN "failed"
  ELSE IF word \in {"task", "in_queue", "generating"} THEN "pending" ELSE "failed"

RunninghubDecode(word) ==
  IF word = "SUCCESS" THEN "complete" ELSE IF word = "FAILED" THEN "failed"
  ELSE IF word \in {"QUEUED", "RUNNING"} THEN "pending" ELSE "failed"

\* The others answer at once, with the images under a key of their own.
Immediate(word, key) == IF word = key THEN "complete" ELSE "failed"
WanDecode(word) == Immediate(word, "output")
GeminiDecode(word) == Immediate(word, "candidates")
InteractionsDecode(word) == IF word \in {"output_image", "steps", "outputs"} THEN "complete" ELSE "failed"
NovelaiDecode(word) == Immediate(word, "images")
OpenaiDecode(word) == Immediate(word, "data")
CodexDecode(word) == Immediate(word, "data")
SeedreamDecode(word) == Immediate(word, "data")
SiliconflowDecode(word) == Immediate(word, "images")
StabilityDecode(word) == Immediate(word, "image")
TogetherDecode(word) == Immediate(word, "data")
XaiDecode(word) == Immediate(word, "data")

DecodeImages(driver, word) ==
  CASE driver \in {"bfl", "bfl_fill"} -> BflDecode(word)
    [] driver = "fal" -> FalDecode(word)
    [] driver = "replicate" -> ReplicateDecode(word)
    [] driver = "jimeng" -> JimengDecode(word)
    [] driver = "runninghub" -> RunninghubDecode(word)
    [] driver = "wan" -> WanDecode(word)
    [] driver = "gemini" -> GeminiDecode(word)
    [] driver = "interactions" -> InteractionsDecode(word)
    [] driver = "novelai" -> NovelaiDecode(word)
    [] driver = "openai" -> OpenaiDecode(word)
    [] driver = "codex" -> CodexDecode(word)
    [] driver = "seedream" -> SeedreamDecode(word)
    [] driver = "siliconflow" -> SiliconflowDecode(word)
    [] driver = "stability" -> StabilityDecode(word)
    [] driver = "together" -> TogetherDecode(word)
    [] driver = "xai" -> XaiDecode(word)
=============================================================================
