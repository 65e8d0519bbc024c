------------------------------ MODULE MCMedia ------------------------------
(* Two jobs and two calls: j1 may be any request of one extension over a   *)
(* palette of inputs, j2 a plain one whose artifact j1 may use.            *)
EXTENDS PaidCalls, TLC

CONSTANTS j1, j2, c1, c2

MCJobs == {j1, j2}
MCCallers == {c1, c2}
MCOrder == <<"gen45", "aleph", "xai_lite", "xai_classic", "xai", "seedance", "seedance25", "luma",
             "minimax", "runninghub", "xiaoyunque">>
MCImageConfigured == DOMAIN ImageDrivers

Given(role, source, from) == [role |-> role, source |-> source, from |-> from]
Palette ==
  {Given(role, "url", "none") : role \in Roles \ {"reference_voice"}}
  \cup {Given("reference_voice", "voice", "none"), Given("source_video", "blob", j2),
        Given("first_frame", "blob", "none"), Given("source_video", "blob", "none"),
        Given("source_video", "job", j2)}
InputLists == UNION {[1..n -> Palette] : n \in 0..2}

Video(extension, mode, inputs) ==
  [kind |-> "video", extension |-> extension, mode |-> mode, inputs |-> inputs, delivery |-> "task"]
Sound(extension, delivery) ==
  [kind |-> "sound", extension |-> extension, mode |-> "text", inputs |-> << >>, delivery |-> delivery]

\* What callers can write: a mode or none, and for two tools an action.
Named(extension) ==
  IF extension = "xai" THEN {"generate", "edit", "extend"}
  ELSE IF extension = "runway" THEN {"generate", "edit"} ELSE Modes \cup {"omitted"}

Taken(q) == \E s \in Configured : ExtensionOf(s) = q.extension /\ Preflight(s, ModeOf(q), q.inputs)
Asking(extension) ==
  {q \in {Video(extension, mode, inputs) : mode \in Named(extension), inputs \in InputLists} : Taken(q)}

Calls(first, second, images, transcription) ==
  [jobs |-> (j1 :> first @@ j2 :> second), images |-> images, transcription |-> transcription]

Extensions == {"luma", "xai", "minimax", "seedance", "runninghub", "xiaoyunque", "runway"}
Plain(extension) == {Video(extension, "text", << >>)}

ImageLists == UNION {[1..n -> {"local", "remote"}] : n \in 0..2}
ImageAsks == [images : ImageLists, overlay : Overlays, references : 0..1, options : BOOLEAN]

MCOffers ==
  [e \in Extensions |-> Calls(Asking(e), IF e = "luma" THEN Plain(e) ELSE {}, {}, FALSE)]
  @@ [sound |-> Calls({Sound("minimax", d) : d \in {"stream", "timed", "link"}}, {}, {}, TRUE),
      images |-> Calls({}, {}, ImageAsks, FALSE)]

MCSymmetry == Permutations(MCCallers)
=============================================================================
