------------------------------- MODULE Settings -------------------------------
(***************************************************************************)
(* The configuration file and the credentials kept in it (config_file.rs,  *)
(* app.rs, accounts.rs, credentials.rs, browser_login.rs,                  *)
(* copilot_login.rs).  Three kinds of writer save the whole file: the      *)
(* settings page, the worker that renews tokens, and a person's sign-in.   *)
(* Each reads the configuration, works on its copy for as long as it takes *)
(* and saves it at the revision it read, which must be the one in memory   *)
(* and on disk.  A save whose request is dropped stops where it waits,     *)
(* while a rename already handed to the file system goes on.               *)
(*                                                                         *)
(* The file is what it says of the settings and of one account's token;    *)
(* its revision, the hash of its bytes, is that content.                   *)
(***************************************************************************)
EXTENDS Naturals, Sequences, FiniteSets

CONSTANTS Page,          \* settings pages, each saved once
          Renewal,       \* the worker that renews tokens
          Delivery,      \* ways a sign-in's code reaches the application
          MaxAttempts,   \* bound on sign-ins
          MaxTokens,     \* bound on tokens ever issued
          MaxTries,      \* how often saving credentials is tried
          MaxRestarts    \* bound on restarts and edits by hand

\* The code of a browser sign-in reaches the application by the browser's
\* redirect, by a request of the person who pastes it, or both; that a device
\* sign-in was approved, by polling.
ASSUME SettingsAssumption ==
  /\ Delivery \subseteq [attempt : 1 .. MaxAttempts, by : {"redirect", "pasted", "polled"}]
  /\ MaxAttempts \in Nat /\ MaxTokens \in Nat \ {0} /\ MaxRestarts \in Nat
  /\ MaxTries \in Nat \ {0}
  /\ Renewal \notin Page \cup Delivery /\ Page \cap Delivery = {}

VARIABLES file,      \* what is on disk
          held,      \* the configuration in memory, with its revision
          runtime,   \* the accounts and clients built from one
          lock,      \* who holds the configuration: a set of at most one writer
          strays,    \* renames of dropped saves, still to happen
          issued,    \* the tokens services gave out
          attempt,   \* the current sign-in, and what kind of account it is for
          turn,      \* who holds the sign-in: a set of at most one delivery
          writer,    \* what each writer is doing
          aside      \* what happened aside from saves: [restarts, unsettled, strayed];
                     \* unsettled once the file went ahead of memory, strayed
                     \* once a dropped save left its rename behind

settings_vars ==
  <<file, held, runtime, lock, strays, issued, attempt, turn, writer, aside>>

Writer == Page \cup {Renewal} \cup Delivery

Redacted == 0
Token == 1 .. MaxTokens
Setting == Page \cup {"first", "by hand"}
Content == [setting : Setting, token : Token]

Idle == [pc |-> "idle", base |-> {}, next |-> {}, token |-> 0, from |-> 0, tries |-> 0]

LoginStatus == {"none", "pending", "processing", "complete", "failed", "expired"}

SettingsTypeOK ==
  /\ file \in Content /\ held \in Content /\ runtime \in Content
  /\ lock \subseteq Writer /\ turn \subseteq Delivery
  /\ Cardinality(lock) <= 1 /\ Cardinality(turn) <= 1
  /\ attempt.id \in 0 .. MaxAttempts /\ attempt.status \in LoginStatus
  /\ attempt.kind \in {"codex", "google", "copilot"}
  /\ Len(issued) <= MaxTokens

The(set) == CHOOSE x \in set : TRUE

End(w) == writer' = [writer EXCEPT ![w] = [Idle EXCEPT !.pc = IF w = Renewal THEN "idle" ELSE "done"]]

\* A service gives out a token: typed in, for a sign-in, or for an older token.
Issue(kind, from) ==
  /\ Len(issued) < MaxTokens
  /\ issued' = Append(issued, [kind |-> kind, from |-> from])

---------------------------------------------------------------------------
\* redact: a page is shown the settings, and that there is a token.
RedactedOf(content) == [content EXCEPT !.token = Redacted]

\* restore: a secret sent back as it was shown is the one in memory.
Restored(sent) == [sent EXCEPT !.token = IF @ = Redacted THEN held.token ELSE @]

\* The settings page reads the configuration with its revision ...
OpenPage(p) ==
  /\ writer[p].pc = "idle"
  /\ lock = {}
  /\ writer' = [writer EXCEPT ![p].pc = "editing", ![p].base = {held},
                  ![p].next = {RedactedOf(held)}]
  /\ UNCHANGED <<file, held, runtime, lock, strays, issued, attempt, turn, aside>>

\* ... and sends it back with a setting changed, and perhaps a key typed in.
SubmitPage(p) ==
  /\ writer[p].pc = "editing"
  /\ \/ /\ writer' = [writer EXCEPT ![p].pc = "asking", ![p].next = {[The(@) EXCEPT !.setting = p]}]
        /\ UNCHANGED issued
     \/ /\ Issue("typed", 0)
        /\ writer' = [writer EXCEPT ![p].pc = "asking",
                        ![p].next = {[setting |-> p, token |-> Len(issued) + 1]}]
  /\ UNCHANGED <<file, held, runtime, lock, strays, attempt, turn, aside>>

---------------------------------------------------------------------------
\* save_config: one save at a time.
SaveBegins(w) ==
  /\ writer[w].pc = "asking"
  /\ lock = {}
  /\ lock' = {w}
  /\ writer' = [writer EXCEPT ![w].pc = "checking"]
  /\ UNCHANGED <<file, held, runtime, strays, issued, attempt, turn, aside>>

\* What a save that was refused or did not go through leads to: the page is
\* told; credentials are tried again after a conflict; a sign-in fails.
SaveRefused(w, conflict) ==
  IF w \notin Page /\ conflict /\ writer[w].tries + 1 < MaxTries
  THEN /\ writer' = [writer EXCEPT ![w].pc = "reading", ![w].tries = @ + 1]
       /\ UNCHANGED turn
  ELSE IF w \in Delivery
  THEN writer' = [writer EXCEPT ![w].pc = "failing"] /\ turn' = turn \ {w}
  ELSE End(w) /\ UNCHANGED turn

\* Mutant: only the revision in memory is compared.
ConflictsInMemory(w) == writer[w].base # {held}

\* The file is read and compared.
Conflicts(w) == writer[w].base # {held} \/ writer[w].base # {file}

SaveConflicts(w) ==
  /\ writer[w].pc = "checking"
  /\ Conflicts(w)
  /\ lock' = {}
  /\ SaveRefused(w, TRUE)
  /\ UNCHANGED <<file, held, runtime, strays, issued, attempt, aside>>

\* prepare_config refuses what does not check out, and a write may fail; nothing
\* has changed then.
SaveInvalid(w) ==
  /\ writer[w].pc \in {"checking", "writing"}
  /\ writer[w].pc = "checking" => ~ Conflicts(w)
  /\ lock' = {}
  /\ SaveRefused(w, FALSE)
  /\ UNCHANGED <<file, held, runtime, strays, issued, attempt, aside>>

\* Mutant: the new configuration is taken before it is written.
SaveTakenEarly(w) ==
  /\ writer[w].pc = "checking"
  /\ ~ Conflicts(w)
  /\ held' = Restored(The(writer[w].next))
  /\ writer' = [writer EXCEPT ![w].pc = "writing", ![w].next = {Restored(The(@))}]
  /\ UNCHANGED <<file, runtime, lock, strays, issued, attempt, turn, aside>>

SaveChecked(w) ==
  /\ writer[w].pc = "checking"
  /\ ~ Conflicts(w)
  /\ writer' = [writer EXCEPT ![w].pc = "writing", ![w].next = {Restored(The(@))}]
  /\ UNCHANGED <<file, held, runtime, lock, strays, issued, attempt, turn, aside>>

\* write_atomic: the new file takes the old one's place whole.
SaveRenamed(w) ==
  /\ writer[w].pc = "writing"
  /\ file' = The(writer[w].next)
  /\ writer' = [writer EXCEPT ![w].pc = "renamed"]
  /\ UNCHANGED <<held, runtime, lock, strays, issued, attempt, turn, aside>>

\* It becomes the configuration in memory, and what it describes is put in place.
SaveApplied(w) ==
  /\ writer[w].pc = "renamed"
  /\ held' = The(writer[w].next)
  /\ runtime' = The(writer[w].next)
  /\ lock' = {}
  /\ IF w \in Delivery
     THEN writer' = [writer EXCEPT ![w].pc = "finishing"] /\ turn' = turn \ {w}
     ELSE End(w) /\ UNCHANGED turn
  /\ UNCHANGED <<file, strays, issued, attempt, aside>>

\* The request is dropped: the page's, or the one that pasted a redirect, whose
\* sign-in is then never finished.  A rename it had begun may still happen.
SaveDropped(w) ==
  /\ w \in Page \/ (w \in Delivery /\ w.by = "pasted")
  /\ writer[w].pc \notin {"idle", "editing", "done"}
  /\ lock' = lock \ {w}
  /\ turn' = turn \ {w}
  /\ strays' \in {strays, IF writer[w].pc = "writing" THEN strays \cup writer[w].next ELSE strays}
  /\ aside' = [aside EXCEPT !.unsettled = @ \/ writer[w].pc = "renamed" \/ strays' # strays,
                             !.strayed = @ \/ strays' # strays]
  /\ End(w)
  /\ UNCHANGED <<file, held, runtime, issued, attempt>>

StrayRename(content) ==
  /\ file' = content
  /\ strays' = strays \ {content}
  /\ UNCHANGED <<held, runtime, lock, issued, attempt, turn, writer, aside>>

\* A person edits the file itself, at any moment but the one between a save's
\* look at the file and its rename, where the edit would be lost.
EditByHand ==
  /\ aside.restarts < MaxRestarts
  /\ \A w \in lock : writer[w].pc # "writing"
  /\ file.setting # "by hand"
  /\ file' = [file EXCEPT !.setting = "by hand"]
  /\ aside' = [aside EXCEPT !.restarts = @ + 1, !.unsettled = TRUE]
  /\ UNCHANGED <<held, runtime, lock, strays, issued, attempt, turn, writer>>

\* The application ends anywhere and reads the file when it starts.
RestartApplication ==
  /\ aside.restarts < MaxRestarts
  /\ held' = file /\ runtime' = file
  /\ lock' = {} /\ turn' = {} /\ strays' = {}
  /\ attempt' = [attempt EXCEPT !.status = "none"]
  /\ writer' = [w \in Writer |-> IF writer[w].pc = "idle" THEN Idle ELSE [Idle EXCEPT !.pc = "done"]]
  /\ aside' = [restarts |-> aside.restarts + 1, unsettled |-> FALSE, strayed |-> FALSE]
  /\ UNCHANGED <<file, issued>>

---------------------------------------------------------------------------
\* refresh_due: a token in use is about to run out.
RenewalDue ==
  /\ writer[Renewal].pc = "idle"
  /\ writer' = [writer EXCEPT ![Renewal].pc = "refreshing", ![Renewal].from = runtime.token]
  /\ UNCHANGED <<file, held, runtime, lock, strays, issued, attempt, turn, aside>>

\* refresh_credentials: the service answers with a new token, or not at all; a
\* failure is backed off.
Refreshed ==
  /\ writer[Renewal].pc = "refreshing"
  /\ \/ /\ Issue("renewal", writer[Renewal].from)
        /\ writer' = [writer EXCEPT ![Renewal].pc = "reading",
                        ![Renewal].token = Len(issued) + 1]
     \/ End(Renewal) /\ UNCHANGED issued
  /\ UNCHANGED <<file, held, runtime, lock, strays, attempt, turn, aside>>

\* save_credentials_if_current: the account as it is now, unless a renewal finds
\* that another token has taken the place of the one it renewed.
ReadCurrent(w) ==
  /\ writer[w].pc = "reading"
  /\ lock = {}
  /\ IF w = Renewal /\ held.token # writer[w].from
     THEN End(w)
     ELSE writer' = [writer EXCEPT ![w].pc = "asking", ![w].base = {held},
                       ![w].next = {[held EXCEPT !.token = writer[w].token]}]
  /\ UNCHANGED <<file, held, runtime, lock, strays, issued, attempt, turn, aside>>

---------------------------------------------------------------------------
\* begin: a new sign-in takes the place of the one before, even if its callback
\* cannot be set up.
LoginBegins ==
  /\ turn = {}
  /\ attempt.id < MaxAttempts
  /\ \E status \in {"pending", "none"} :
       /\ status = "none" => attempt.kind # "copilot"
       /\ attempt' = [attempt EXCEPT !.id = @ + 1, !.status = status]
  /\ UNCHANGED <<file, held, runtime, lock, strays, issued, turn, writer, aside>>

Current(d) == attempt.id = d.attempt

\* claim: the code of a sign-in is used once, by whichever delivery comes
\* first, and only in time.
Claim(d) ==
  IF Current(d) /\ attempt.status = "pending"
  THEN \/ /\ attempt' = [attempt EXCEPT !.status = "processing"]
          /\ writer' = [writer EXCEPT ![d].pc = "exchanging"]
       \/ attempt' = [attempt EXCEPT !.status = "expired"] /\ End(d)
  ELSE End(d) /\ UNCHANGED attempt

Arrives(d, by) ==
  /\ attempt.kind # "copilot" /\ d.by = by
  /\ writer[d].pc = "idle" /\ d.attempt <= attempt.id
  /\ turn = {}
  /\ UNCHANGED <<file, held, runtime, lock, strays, issued, turn, aside>>

\* receive_callback: the browser comes back with a code, with nothing of use, or
\* to say that the person declined.
LoginRedirected(d) ==
  /\ Arrives(d, "redirect")
  /\ \/ Claim(d)
     \/ End(d) /\ UNCHANGED attempt
     \/ /\ Current(d) /\ attempt.status \in {"pending", "processing"}
        /\ attempt' = [attempt EXCEPT !.status = "failed"]
        /\ End(d)

\* complete: what a person pasted is of the current sign-in, or is refused.
LoginPasted(d) ==
  /\ Arrives(d, "pasted")
  /\ \/ Current(d) /\ attempt.status = "pending" /\ Claim(d)
     \/ End(d) /\ UNCHANGED attempt

\* wait_for_approval: the person approves, or the service refuses or the code
\* runs out, or nothing is left to wait for once another took its place.
DevicePolled(d) ==
  /\ attempt.kind = "copilot" /\ d.by = "polled"
  /\ writer[d].pc = "idle" /\ d.attempt <= attempt.id
  /\ IF Current(d)
     THEN \E pc \in {"exchanging", "failing"} : writer' = [writer EXCEPT ![d].pc = pc]
     ELSE End(d)
  /\ UNCHANGED <<file, held, runtime, lock, strays, issued, attempt, turn, aside>>

\* Whether each issuer gives tokens for a code.  A Google sign-in also needs a
\* project, and stops looking for one when another takes its place.
CodexTokens(d) == BOOLEAN
CopilotTokens(d) == BOOLEAN
GoogleTokens(d) == IF Current(d) THEN BOOLEAN ELSE {FALSE}

IssuersTokens(d) ==
  IF attempt.kind = "google" THEN GoogleTokens(d)
  ELSE IF attempt.kind = "codex" THEN CodexTokens(d) ELSE CopilotTokens(d)

CodeExchanged(d) ==
  /\ writer[d].pc = "exchanging"
  /\ \/ /\ TRUE \in IssuersTokens(d)
        /\ Issue("sign-in", d.attempt)
        /\ writer' = [writer EXCEPT ![d].pc = "persisting", ![d].token = Len(issued) + 1]
     \/ writer' = [writer EXCEPT ![d].pc = "failing"] /\ UNCHANGED issued
  /\ UNCHANGED <<file, held, runtime, lock, strays, attempt, turn, aside>>

\* persist_if_active: the sign-in is held while its token is saved.
PersistIfActive(d) ==
  /\ writer[d].pc = "persisting"
  /\ turn = {}
  /\ IF Current(d) /\ attempt.status = IF d.by = "polled" THEN "pending" ELSE "processing"
     THEN turn' = {d} /\ writer' = [writer EXCEPT ![d].pc = "reading"]
     ELSE writer' = [writer EXCEPT ![d].pc = "failing"] /\ UNCHANGED turn
  /\ UNCHANGED <<file, held, runtime, lock, strays, issued, attempt, aside>>

\* finish: the current sign-in learns how it went.
LoginFinished(d) ==
  /\ writer[d].pc \in {"finishing", "failing"}
  /\ turn = {}
  /\ attempt' = IF Current(d) /\ attempt.status \in {"pending", "processing"}
                THEN [attempt EXCEPT !.status =
                        IF writer[d].pc = "finishing" THEN "complete" ELSE "failed"]
                ELSE attempt
  /\ End(d)
  /\ UNCHANGED <<file, held, runtime, lock, strays, issued, turn, aside>>

---------------------------------------------------------------------------
SettingsInit ==
  /\ issued = <<[kind |-> "typed", from |-> 0]>>
  /\ file = [setting |-> "first", token |-> 1] /\ held = file /\ runtime = file
  /\ lock = {} /\ turn = {} /\ strays = {}
  /\ attempt \in [id : {0}, status : {"none"}, kind : {"codex", "google", "copilot"}]
  /\ writer = [w \in Writer |-> Idle]
  /\ aside = [restarts |-> 0, unsettled |-> FALSE, strayed |-> FALSE]

SaveStep(w) ==
  \/ SaveBegins(w) \/ SaveConflicts(w) \/ SaveInvalid(w) \/ SaveChecked(w)
  \/ SaveRenamed(w) \/ SaveApplied(w) \/ SaveDropped(w)

SettingsNext ==
  \/ \E w \in Writer : SaveStep(w)
  \/ \E p \in Page : OpenPage(p) \/ SubmitPage(p)
  \/ \E content \in strays : StrayRename(content)
  \/ EditByHand \/ RestartApplication
  \/ RenewalDue \/ Refreshed \/ LoginBegins
  \/ \E w \in Writer \ Page : ReadCurrent(w)
  \/ \E d \in Delivery :
       \/ LoginRedirected(d) \/ LoginPasted(d) \/ DevicePolled(d)
       \/ CodeExchanged(d) \/ PersistIfActive(d) \/ LoginFinished(d)

SettingsSpec == SettingsInit /\ [][SettingsNext]_settings_vars

\* Where a token may come from when it takes another's place.
MayReplace(old, new) ==
  \/ new = old
  \/ issued[new].kind = "typed"
  \/ issued[new].kind = "renewal" /\ issued[new].from = old
  \/ issued[new].kind = "sign-in" /\ issued[new].from = attempt.id

\* Every save replaces exactly the configuration it was made from, so none
\* undoes another, an edit by hand included; and a token takes another's place
\* only when a person typed it, when it renews that very token, or when it
\* belongs to the latest sign-in.  The exceptions are a person's edit itself,
\* and a dropped save that left its rename behind: it may land after another's.
SavesFollow ==
  [][file' # file =>
       \/ aside' # aside
       \/ aside.strayed
       \/ \E w \in lock : writer[w].base = {file} /\ MayReplace(file.token, file'.token)]_settings_vars

\* Whenever no save is under way, memory and what runs are what the file says,
\* whether saves succeeded, were refused, failed or were dropped before they
\* wrote; the exceptions are a file edited by hand and a save dropped once its
\* rename had begun.
FileAsHeld == lock = {} /\ ~ aside.unsettled => file = held /\ held = runtime

=============================================================================
