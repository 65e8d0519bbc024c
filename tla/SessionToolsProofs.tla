-------------------------- MODULE SessionToolsProofs --------------------------
(***************************************************************************)
(* The tools of a session that wait, for every number of tasks, questions, *)
(* faults and deaths of the server.  The inductive invariant says of each  *)
(* task where its supervisor, its record, its process, its call and its    *)
(* report may be together (Good), and of each question who holds its reply *)
(* channel (AskTrue).  The steps are taken apart twice: first what a       *)
(* record becomes (lemmas ...Good), then what a step makes of the whole    *)
(* state (lemmas ...Keeps), which adds that no ended record is written     *)
(* again.                                                                  *)
(***************************************************************************)
EXTENDS SessionTools, TLAPS

\* Where a user's request to put a task in the background is.
RequestState == {"none", "persisting", "claiming", "done"}

\* The supervisor, the status and the record of a task agree.
TaskTrue(r) ==
  /\ r.supervisor \in {"opening", "waiting", "draining"} =>
       r.status = "running" /\ r.record \in {"absent", "running"}
  /\ r.supervisor = "publishing" =>
       r.status = "running" /\ r.record \in {"absent", "running", Verdict(r)}
  /\ r.supervisor = "done" =>
       /\ r.status \in {"exited", "killed", "unknown"}
       /\ r.record \in {"absent", "running", r.status, "removed"}
  /\ r.supervisor = "none" =>
       r.status # "running" /\ (r.status = "none" \/ r.record \in {r.status, "removed"})
  /\ r.supervisor \in {"draining", "publishing"} /\ ~ r.broken => r.process = "dead"
  /\ r.status \in {"exited", "killed"} \/ r.record \in {"exited", "killed"} =>
       r.process \in {"none", "dead"}

\* The call is under way.
Waits(c) == c.pc \notin {"none", "refused", "done", "failed", "dropped"}

\* A process whose supervisor waits is held, in the background or about to be killed.
Observed(r, c) ==
  r.process \in {"up", "lingering"} /\ r.supervisor \in {"opening", "waiting"} =>
    (Waits(c) /\ ~ c.returned) \/ r.background \/ r.kills # {} \/ r.grace

\* Where a call and a request are, given the task.
CallTrue(r, c, q) ==
  /\ c.pc \in {"none", "refused"} =>
       /\ r.supervisor = "none" /\ r.process = "none" /\ r.status = "none"
       /\ r.record = "absent" /\ ~ c.returned
  /\ Waits(c) => r.supervisor # "none"
  /\ q \in {"persisting", "claiming"} => r.supervisor # "none"
  /\ c.pc = "reading" /\ c.tool = "shell" => r.background \/ r.status # "running"
  /\ c.pc = "yielding" => r.background
  /\ c.pc = "persisting" => r.background \/ r.status # "running"
  /\ c.pc \in {"reporting", "claiming"} => c.returned
  /\ Observed(r, c)

\* One of those who notify claims, and one worker waits.
ReportTrue(r, c, q, p) ==
  /\ c.pc = "claiming" => p.claimed /\ p.worker = "none" /\ p.finished = 0 /\ q # "claiming"
  /\ q = "claiming" => p.claimed /\ p.worker = "none" /\ p.finished = 0
  /\ p.worker = "waiting" => p.claimed /\ p.finished = 0 /\ r.supervisor # "none"
  /\ ~ p.claimed /\ r.supervisor # "none" => p.worker = "none" /\ p.finished = 0
  /\ c.pc \in {"none", "refused"} =>
       ~ p.claimed /\ ~ p.marker /\ p.worker = "none" /\ p.finished = 0
  /\ p.finished < 2

\* The shapes of the shell's variables.
ShellShape ==
  /\ registered \subseteq Task
  /\ task \in [Task -> Execution]
  /\ call \in [Task -> ShellCall]
  /\ report \in [Task -> Reporting]
  /\ request \in [Task -> RequestState]

\* What holds of one task with its call, its request and its report.
Good(r, c, q, p) == TaskTrue(r) /\ CallTrue(r, c, q) /\ ReportTrue(r, c, q, p)

\* The inductive invariant of the commands: a registered task is one that was started, and
\* nobody watches a process while the server is down.
ShellInv ==
  /\ ShellShape
  /\ \A t \in Task : Good(task[t], call[t], request[t], report[t])
  /\ \A t \in registered : task[t].status # "none"
  /\ life = "down" => \A t \in Task : task[t].supervisor = "none"

\* What a call may return with the reply channel's content among it.
Outcome == {"none", "nothing", "answers", "skip", "timed_out", "cancelled", "failed"}

\* A call that waits for an answer.
QuestionCall ==
  [pc : {"none", "waiting", "leaving", "done"}, timeout : BOOLEAN, cancelled : BOOLEAN,
   replied : {"nothing", "answers", "skip"}, outcome : Outcome]

\* What a user may be told of an answer.
Delivery == {"now", "later", "dropped", "error"}

\* The shapes of the forms and their calls.
AskShape ==
  /\ form \in [Question -> FormState]
  /\ wait \in [Question -> QuestionCall]
  /\ given \in [Question -> SUBSET Delivery]

\* The form, the call and what the user was told agree: whoever holds the reply channel decides
\* how the answer goes.
AskTrue(f, w, g) ==
  /\ w.pc = "none" => f = "none" /\ g = {} /\ w.replied = "nothing"
  /\ f = "open" => /\ w.pc \in {"waiting", "leaving"} /\ g = {} /\ w.replied = "nothing"
                   /\ w.pc = "leaving" => w.outcome = "cancelled"
  /\ f = "answered" => w.pc \in {"waiting", "leaving"}
  /\ f = "timed_out" => w.pc = "done" /\ w.outcome = "timed_out" /\ g = {}
  /\ "now" \in g => /\ g = {"now"}
                    /\ w.pc \in {"leaving", "done"} => w.outcome \in {w.replied, "cancelled"}
  /\ g \cap {"later", "dropped", "error"} # {} => w.pc = "done" /\ w.outcome = "timed_out"

\* The inductive invariant of the questions.
AskInv == AskShape /\ \A q \in Question : AskTrue(form[q], wait[q], given[q])

\* The inductive invariant of the tools of a session.
ToolsInv == ShellInv /\ AskInv

\* A record that has ended stays as it is, or goes.
KeepsEnd(r, s) == r.record \in Ended => s.record \in {r.record, "removed"}

\* s is r, but for its kill requests, of which it has no fewer.
MoreKills(r, s) ==
  /\ s \in Execution
  /\ s.status = r.status /\ s.background = r.background /\ s.process = r.process
  /\ s.supervisor = r.supervisor /\ s.killed = r.killed /\ s.grace = r.grace
  /\ s.broken = r.broken /\ s.record = r.record
  /\ r.kills \subseteq s.kills

\* A kill request leaves everything else of the task, and reaches a supervisor that still waits.
LEMMA SentMore ==
  ASSUME NEW r \in Execution, NEW mode \in {"graceful", "force"}
  PROVE  /\ MoreKills(r, Sent(r, mode)) /\ MoreKills(r, Terminated(r, mode))
         /\ r.supervisor \in {"opening", "waiting"} => Sent(r, mode).kills # {}
<1> DEFINE s == [r EXCEPT !.kills = @ \cup {mode}]
<1>1. s \in Execution
  BY DEF Execution
<1>2. MoreKills(r, s) /\ s.kills # {}
  BY <1>1 DEF MoreKills, Execution
<1>3. MoreKills(r, r)
  BY DEF MoreKills
<1> QED BY <1>2, <1>3 DEF Sent, Terminated

\* Kill requests break nothing.
LEMMA MoreKillsGood ==
  ASSUME NEW r \in Execution, NEW s \in Execution, MoreKills(r, s), NEW c \in ShellCall,
         NEW q \in RequestState, NEW p \in Reporting,
         Good(r, c, q, p)
  PROVE  Good(s, c, q, p) /\ KeepsEnd(r, s)
BY DEF MoreKills, Good, TaskTrue, CallTrue, ReportTrue, Observed, Verdict, KeepsEnd

\* A record written while nobody publishes a verdict is as true as the task.
LEMMA PersistedGood ==
  ASSUME NEW r \in Execution, NEW c \in ShellCall, NEW q \in RequestState, NEW p \in Reporting,
         Good(r, c, q, p), r.supervisor \notin {"none", "publishing"}
  PROVE  LET s == Persisted(r)
         IN  /\ s \in Execution /\ Good(s, c, q, p) /\ KeepsEnd(r, s)
             /\ s.supervisor = r.supervisor /\ s.status = r.status /\ s.background = r.background
<1> DEFINE s == [r EXCEPT !.record = r.status]
<1>0. r.status # "none"
  BY DEF Good, TaskTrue, Execution
<1>1. s \in Execution
  BY <1>0 DEF Execution
<1>2. /\ s.status = r.status /\ s.background = r.background /\ s.process = r.process
      /\ s.supervisor = r.supervisor /\ s.killed = r.killed /\ s.grace = r.grace
      /\ s.broken = r.broken /\ s.kills = r.kills /\ s.record = r.status
  BY DEF Execution
<1> HIDE DEF s
<1>3. TaskTrue(s) /\ KeepsEnd(r, s)
  BY <1>0, <1>2 DEF Good, TaskTrue, Verdict, KeepsEnd, Execution, Ended
<1>5. CallTrue(s, c, q)
  BY <1>0, <1>2 DEF Good, TaskTrue, CallTrue, Observed
<1>6. ReportTrue(s, c, q, p)
  BY <1>2 DEF Good, ReportTrue
<1>4. KeepsEnd(r, r)
  BY DEF KeepsEnd
<1> QED BY <1>1, <1>2, <1>3, <1>4, <1>5, <1>6 DEF Persisted, s, Good

\* The supervisor begins to wait.
LEMMA WaitingGood ==
  ASSUME NEW r \in Execution, NEW c \in ShellCall, NEW q \in RequestState, NEW p \in Reporting,
         Good(r, c, q, p),
         r.supervisor = "opening"
  PROVE  LET s == [r EXCEPT !.supervisor = "waiting"]
         IN  /\ s \in Execution /\ Good(s, c, q, p) /\ KeepsEnd(r, s)
             /\ s.status = r.status /\ s.supervisor = "waiting"
<1> DEFINE s == [r EXCEPT !.supervisor = "waiting"]
<1>1. s \in Execution
  BY DEF Execution, Verdict, Ended
<1>2. /\ s.status = r.status /\ s.background = r.background /\ s.kills = r.kills
      /\ s.process = r.process /\ s.killed = r.killed /\ s.grace = r.grace
      /\ s.broken = r.broken /\ s.record = r.record /\ s.supervisor = "waiting"
  BY DEF Execution
<1> HIDE DEF s
<1>3. TaskTrue(s)
  BY <1>2 DEF Good, TaskTrue, Verdict, Execution, Ended
<1>4. CallTrue(s, c, q)
  BY <1>2 DEF Good, TaskTrue, CallTrue, Observed, Waits, Execution
<1>5. ReportTrue(s, c, q, p) /\ KeepsEnd(r, s)
  BY <1>2 DEF Good, TaskTrue, ReportTrue, KeepsEnd, Ended, Verdict, Execution
<1> QED BY <1>1, <1>2, <1>3, <1>4, <1>5 DEF s, Good

\* The group cannot be reached.
LEMMA SignalGood ==
  ASSUME NEW r \in Execution, NEW c \in ShellCall, NEW q \in RequestState, NEW p \in Reporting,
         Good(r, c, q, p),
         NEW left \in {"lingering", "dead"}, r.supervisor = "waiting"
  PROVE  LET s == [r EXCEPT !.supervisor = "draining", !.broken = TRUE, !.killed = TRUE,
                            !.process = IF r.process = "up" THEN left ELSE r.process]
         IN  /\ s \in Execution /\ Good(s, c, q, p) /\ KeepsEnd(r, s)
             /\ s.status = r.status /\ s.supervisor = "draining"
<1> DEFINE s == [r EXCEPT !.supervisor = "draining", !.broken = TRUE, !.killed = TRUE,
                          !.process = IF r.process = "up" THEN left ELSE r.process]
<1>1. s \in Execution
  BY DEF Execution, Verdict, Ended
<1>2. /\ s.status = r.status /\ s.background = r.background /\ s.kills = r.kills
      /\ s.grace = r.grace /\ s.record = r.record /\ s.supervisor = "draining"
      /\ s.broken = TRUE /\ s.killed = TRUE
      /\ (s.process = IF r.process = "up" THEN left ELSE r.process)
  BY DEF Execution
<1> HIDE DEF s
<1>3. TaskTrue(s)
  BY <1>2 DEF Good, TaskTrue, Verdict, Execution, Ended
<1>4. CallTrue(s, c, q)
  BY <1>2 DEF Good, TaskTrue, CallTrue, Observed, Waits, Execution
<1>5. ReportTrue(s, c, q, p) /\ KeepsEnd(r, s)
  BY <1>2 DEF Good, TaskTrue, ReportTrue, KeepsEnd, Ended, Verdict, Execution
<1> QED BY <1>1, <1>2, <1>3, <1>4, <1>5 DEF s, Good

\* A forced kill.
LEMMA ForcedGood ==
  ASSUME NEW r \in Execution, NEW c \in ShellCall, NEW q \in RequestState, NEW p \in Reporting,
         Good(r, c, q, p),
         NEW mode \in r.kills, r.supervisor = "waiting", mode = "force"
  PROVE  LET s == [r EXCEPT !.kills = r.kills \ {mode}, !.killed = TRUE,
                            !.process = "dead", !.grace = FALSE]
         IN  /\ s \in Execution /\ Good(s, c, q, p) /\ KeepsEnd(r, s)
             /\ s.status = r.status /\ s.supervisor = r.supervisor
<1> DEFINE s == [r EXCEPT !.kills = r.kills \ {mode}, !.killed = TRUE,
                          !.process = "dead", !.grace = FALSE]
<1>1. s \in Execution
  BY DEF Execution, Verdict, Ended
<1>2. /\ s.status = r.status /\ s.background = r.background /\ s.supervisor = r.supervisor
      /\ s.broken = r.broken /\ s.record = r.record /\ s.kills = r.kills \ {mode}
      /\ s.killed = TRUE /\ s.process = "dead" /\ s.grace = FALSE
  BY DEF Execution
<1> HIDE DEF s
<1>3. TaskTrue(s)
  BY <1>2 DEF Good, TaskTrue, Verdict, Execution, Ended
<1>4. CallTrue(s, c, q)
  BY <1>2 DEF Good, TaskTrue, CallTrue, Observed, Waits, Execution
<1>5. ReportTrue(s, c, q, p) /\ KeepsEnd(r, s)
  BY <1>2 DEF Good, TaskTrue, ReportTrue, KeepsEnd, Ended, Verdict, Execution
<1> QED BY <1>1, <1>2, <1>3, <1>4, <1>5 DEF s, Good

\* A kill that gives the group time.
LEMMA GracefulGood ==
  ASSUME NEW r \in Execution, NEW c \in ShellCall, NEW q \in RequestState, NEW p \in Reporting,
         Good(r, c, q, p),
         NEW mode \in r.kills, r.supervisor = "waiting"
  PROVE  LET s == [r EXCEPT !.kills = r.kills \ {mode}, !.killed = TRUE, !.grace = TRUE]
         IN  /\ s \in Execution /\ Good(s, c, q, p) /\ KeepsEnd(r, s)
             /\ s.status = r.status /\ s.supervisor = r.supervisor
<1> DEFINE s == [r EXCEPT !.kills = r.kills \ {mode}, !.killed = TRUE, !.grace = TRUE]
<1>1. s \in Execution
  BY DEF Execution, Verdict, Ended
<1>2. /\ s.status = r.status /\ s.background = r.background /\ s.process = r.process
      /\ s.supervisor = r.supervisor /\ s.broken = r.broken /\ s.record = r.record
      /\ s.kills = r.kills \ {mode} /\ s.killed = TRUE /\ s.grace = TRUE
  BY DEF Execution
<1> HIDE DEF s
<1>3. TaskTrue(s)
  BY <1>2 DEF Good, TaskTrue, Verdict, Execution, Ended
<1>4. CallTrue(s, c, q)
  BY <1>2 DEF Good, TaskTrue, CallTrue, Observed, Waits, Execution
<1>5. ReportTrue(s, c, q, p) /\ KeepsEnd(r, s)
  BY <1>2 DEF Good, TaskTrue, ReportTrue, KeepsEnd, Ended, Verdict, Execution
<1> QED BY <1>1, <1>2, <1>3, <1>4, <1>5 DEF s, Good

\* The grace is over.
LEMMA GraceGood ==
  ASSUME NEW r \in Execution, NEW c \in ShellCall, NEW q \in RequestState, NEW p \in Reporting,
         Good(r, c, q, p),
         r.supervisor = "waiting"
  PROVE  LET s == [r EXCEPT !.process = "dead", !.grace = FALSE]
         IN  /\ s \in Execution /\ Good(s, c, q, p) /\ KeepsEnd(r, s)
             /\ s.status = r.status /\ s.supervisor = r.supervisor
<1> DEFINE s == [r EXCEPT !.process = "dead", !.grace = FALSE]
<1>1. s \in Execution
  BY DEF Execution, Verdict, Ended
<1>2. /\ s.status = r.status /\ s.background = r.background /\ s.kills = r.kills
      /\ s.supervisor = r.supervisor /\ s.killed = r.killed /\ s.broken = r.broken
      /\ s.record = r.record /\ s.process = "dead" /\ s.grace = FALSE
  BY DEF Execution
<1> HIDE DEF s
<1>3. TaskTrue(s)
  BY <1>2 DEF Good, TaskTrue, Verdict, Execution, Ended
<1>4. CallTrue(s, c, q)
  BY <1>2 DEF Good, TaskTrue, CallTrue, Observed, Waits, Execution
<1>5. ReportTrue(s, c, q, p) /\ KeepsEnd(r, s)
  BY <1>2 DEF Good, TaskTrue, ReportTrue, KeepsEnd, Ended, Verdict, Execution
<1> QED BY <1>1, <1>2, <1>3, <1>4, <1>5 DEF s, Good

\* The shell has exited, and its group is killed.
LEMMA ChildGood ==
  ASSUME NEW r \in Execution, NEW c \in ShellCall, NEW q \in RequestState, NEW p \in Reporting,
         Good(r, c, q, p),
         r.supervisor = "waiting"
  PROVE  LET s == [r EXCEPT !.supervisor = "draining", !.process = "dead"]
         IN  /\ s \in Execution /\ Good(s, c, q, p) /\ KeepsEnd(r, s)
             /\ s.status = r.status /\ s.supervisor = "draining"
<1> DEFINE s == [r EXCEPT !.supervisor = "draining", !.process = "dead"]
<1>1. s \in Execution
  BY DEF Execution, Verdict, Ended
<1>2. /\ s.status = r.status /\ s.background = r.background /\ s.kills = r.kills
      /\ s.killed = r.killed /\ s.grace = r.grace /\ s.broken = r.broken
      /\ s.record = r.record /\ s.supervisor = "draining" /\ s.process = "dead"
  BY DEF Execution
<1> HIDE DEF s
<1>3. TaskTrue(s)
  BY <1>2 DEF Good, TaskTrue, Verdict, Execution, Ended
<1>4. CallTrue(s, c, q)
  BY <1>2 DEF Good, TaskTrue, CallTrue, Observed, Waits, Execution
<1>5. ReportTrue(s, c, q, p) /\ KeepsEnd(r, s)
  BY <1>2 DEF Good, TaskTrue, ReportTrue, KeepsEnd, Ended, Verdict, Execution
<1> QED BY <1>1, <1>2, <1>3, <1>4, <1>5 DEF s, Good

\* The shell has exited, and its group cannot be killed.
LEMMA ChildBrokenGood ==
  ASSUME NEW r \in Execution, NEW c \in ShellCall, NEW q \in RequestState, NEW p \in Reporting,
         Good(r, c, q, p),
         r.supervisor = "waiting"
  PROVE  LET s == [r EXCEPT !.supervisor = "draining", !.broken = TRUE]
         IN  /\ s \in Execution /\ Good(s, c, q, p) /\ KeepsEnd(r, s)
             /\ s.status = r.status /\ s.supervisor = "draining"
<1> DEFINE s == [r EXCEPT !.supervisor = "draining", !.broken = TRUE]
<1>1. s \in Execution
  BY DEF Execution, Verdict, Ended
<1>2. /\ s.status = r.status /\ s.background = r.background /\ s.kills = r.kills
      /\ s.process = r.process /\ s.killed = r.killed /\ s.grace = r.grace
      /\ s.record = r.record /\ s.supervisor = "draining" /\ s.broken = TRUE
  BY DEF Execution
<1> HIDE DEF s
<1>3. TaskTrue(s)
  BY <1>2 DEF Good, TaskTrue, Verdict, Execution, Ended
<1>4. CallTrue(s, c, q)
  BY <1>2 DEF Good, TaskTrue, CallTrue, Observed, Waits, Execution
<1>5. ReportTrue(s, c, q, p) /\ KeepsEnd(r, s)
  BY <1>2 DEF Good, TaskTrue, ReportTrue, KeepsEnd, Ended, Verdict, Execution
<1> QED BY <1>1, <1>2, <1>3, <1>4, <1>5 DEF s, Good

\* The verdict is saved.
LEMMA SavedGood ==
  ASSUME NEW r \in Execution, NEW c \in ShellCall, NEW q \in RequestState, NEW p \in Reporting,
         Good(r, c, q, p),
         r.supervisor = "draining"
  PROVE  LET s == [r EXCEPT !.supervisor = "publishing", !.record = Verdict(r)]
         IN  /\ s \in Execution /\ Good(s, c, q, p) /\ KeepsEnd(r, s)
             /\ s.status = r.status /\ s.supervisor = "publishing"
<1> DEFINE s == [r EXCEPT !.supervisor = "publishing", !.record = Verdict(r)]
<1>1. s \in Execution
  BY DEF Execution, Verdict, Ended
<1>2. /\ s.status = r.status /\ s.background = r.background /\ s.kills = r.kills
      /\ s.process = r.process /\ s.killed = r.killed /\ s.grace = r.grace
      /\ s.broken = r.broken /\ s.supervisor = "publishing" /\ s.record = Verdict(r)
  BY DEF Execution
<1> HIDE DEF s
<1>3. TaskTrue(s)
  BY <1>2 DEF Good, TaskTrue, Verdict, Execution, Ended
<1>4. CallTrue(s, c, q)
  BY <1>2 DEF Good, TaskTrue, CallTrue, Observed, Waits, Execution
<1>5. ReportTrue(s, c, q, p) /\ KeepsEnd(r, s)
  BY <1>2 DEF Good, TaskTrue, ReportTrue, KeepsEnd, Ended, Verdict, Execution
<1> QED BY <1>1, <1>2, <1>3, <1>4, <1>5 DEF s, Good

\* The verdict is not saved.
LEMMA UnsavedGood ==
  ASSUME NEW r \in Execution, NEW c \in ShellCall, NEW q \in RequestState, NEW p \in Reporting,
         Good(r, c, q, p),
         r.supervisor = "draining"
  PROVE  LET s == [r EXCEPT !.supervisor = "publishing"]
         IN  /\ s \in Execution /\ Good(s, c, q, p) /\ KeepsEnd(r, s)
             /\ s.status = r.status /\ s.supervisor = "publishing"
<1> DEFINE s == [r EXCEPT !.supervisor = "publishing"]
<1>1. s \in Execution
  BY DEF Execution, Verdict, Ended
<1>2. /\ s.status = r.status /\ s.background = r.background /\ s.kills = r.kills
      /\ s.process = r.process /\ s.killed = r.killed /\ s.grace = r.grace
      /\ s.broken = r.broken /\ s.record = r.record /\ s.supervisor = "publishing"
  BY DEF Execution
<1> HIDE DEF s
<1>3. TaskTrue(s)
  BY <1>2 DEF Good, TaskTrue, Verdict, Execution, Ended
<1>4. CallTrue(s, c, q)
  BY <1>2 DEF Good, TaskTrue, CallTrue, Observed, Waits, Execution
<1>5. ReportTrue(s, c, q, p) /\ KeepsEnd(r, s)
  BY <1>2 DEF Good, TaskTrue, ReportTrue, KeepsEnd, Ended, Verdict, Execution
<1> QED BY <1>1, <1>2, <1>3, <1>4, <1>5 DEF s, Good

\* The verdict is published.
LEMMA PublishedGood ==
  ASSUME NEW r \in Execution, NEW c \in ShellCall, NEW q \in RequestState, NEW p \in Reporting,
         Good(r, c, q, p),
         r.supervisor = "publishing"
  PROVE  LET s == [r EXCEPT !.supervisor = "done", !.status = Verdict(r), !.kills = {},
                            !.grace = FALSE, !.killed = FALSE, !.broken = FALSE]
         IN  /\ s \in Execution /\ Good(s, c, q, p) /\ KeepsEnd(r, s)
             /\ s.status = Verdict(r) /\ s.supervisor = "done"
<1> DEFINE s == [r EXCEPT !.supervisor = "done", !.status = Verdict(r), !.kills = {},
                          !.grace = FALSE, !.killed = FALSE, !.broken = FALSE]
<1>1. s \in Execution
  BY DEF Execution, Verdict, Ended
<1>2. /\ s.background = r.background /\ s.process = r.process /\ s.record = r.record
      /\ s.supervisor = "done" /\ s.status = Verdict(r) /\ s.kills = {}
      /\ s.grace = FALSE /\ s.killed = FALSE /\ s.broken = FALSE
  BY DEF Execution
<1> HIDE DEF s
<1>3. TaskTrue(s)
  BY <1>2 DEF Good, TaskTrue, Verdict, Execution, Ended
<1>4. CallTrue(s, c, q)
  BY <1>2 DEF Good, TaskTrue, CallTrue, Observed, Waits, Execution
<1>5. ReportTrue(s, c, q, p) /\ KeepsEnd(r, s)
  BY <1>2 DEF Good, TaskTrue, ReportTrue, KeepsEnd, Ended, Verdict, Execution
<1> QED BY <1>1, <1>2, <1>3, <1>4, <1>5 DEF s, Good

\* The shell exits.
LEMMA ExitGood ==
  ASSUME NEW r \in Execution, NEW c \in ShellCall, NEW q \in RequestState, NEW p \in Reporting,
         Good(r, c, q, p),
         NEW left \in {"lingering", "dead"}, r.process = "up"
  PROVE  LET s == [r EXCEPT !.process = left]
         IN  /\ s \in Execution /\ Good(s, c, q, p) /\ KeepsEnd(r, s)
             /\ s.status = r.status /\ s.supervisor = r.supervisor
<1> DEFINE s == [r EXCEPT !.process = left]
<1>1. s \in Execution
  BY DEF Execution, Verdict, Ended
<1>2. /\ s.status = r.status /\ s.background = r.background /\ s.kills = r.kills
      /\ s.supervisor = r.supervisor /\ s.killed = r.killed /\ s.grace = r.grace
      /\ s.broken = r.broken /\ s.record = r.record /\ s.process = left
  BY DEF Execution
<1> HIDE DEF s
<1>3. TaskTrue(s)
  BY <1>2 DEF Good, TaskTrue, Verdict, Execution, Ended
<1>4. CallTrue(s, c, q)
  BY <1>2 DEF Good, TaskTrue, CallTrue, Observed, Waits, Execution
<1>5. ReportTrue(s, c, q, p) /\ KeepsEnd(r, s)
  BY <1>2 DEF Good, TaskTrue, ReportTrue, KeepsEnd, Ended, Verdict, Execution
<1> QED BY <1>1, <1>2, <1>3, <1>4, <1>5 DEF s, Good

\* The record is removed.
LEMMA RemovedGood ==
  ASSUME NEW r \in Execution, NEW c \in ShellCall, NEW q \in RequestState, NEW p \in Reporting,
         Good(r, c, q, p),
         r.status \notin {"none", "running"}
  PROVE  LET s == [r EXCEPT !.record = "removed"]
         IN  /\ s \in Execution /\ Good(s, c, q, p) /\ KeepsEnd(r, s)
             /\ s.status = r.status /\ s.supervisor = r.supervisor
<1> DEFINE s == [r EXCEPT !.record = "removed"]
<1>1. s \in Execution
  BY DEF Execution, Verdict, Ended
<1>2. /\ s.status = r.status /\ s.background = r.background /\ s.kills = r.kills
      /\ s.process = r.process /\ s.supervisor = r.supervisor /\ s.killed = r.killed
      /\ s.grace = r.grace /\ s.broken = r.broken /\ s.record = "removed"
  BY DEF Execution
<1> HIDE DEF s
<1>3. TaskTrue(s)
  BY <1>2 DEF Good, TaskTrue, Verdict, Execution, Ended
<1>4. CallTrue(s, c, q)
  BY <1>2 DEF Good, TaskTrue, CallTrue, Observed, Waits, Execution
<1>5. ReportTrue(s, c, q, p) /\ KeepsEnd(r, s)
  BY <1>2 DEF Good, TaskTrue, ReportTrue, KeepsEnd, Ended, Verdict, Execution
<1> QED BY <1>1, <1>2, <1>3, <1>4, <1>5 DEF s, Good

\* The task is put in the background.
LEMMA BackgroundGood ==
  ASSUME NEW r \in Execution, NEW c \in ShellCall, NEW q \in RequestState, NEW p \in Reporting,
         Good(r, c, q, p)
  PROVE  LET s == [r EXCEPT !.background = TRUE]
         IN  /\ s \in Execution /\ Good(s, c, q, p) /\ KeepsEnd(r, s)
             /\ s.status = r.status /\ s.supervisor = r.supervisor
<1> DEFINE s == [r EXCEPT !.background = TRUE]
<1>1. s \in Execution
  BY DEF Execution, Verdict, Ended
<1>2. /\ s.status = r.status /\ s.kills = r.kills /\ s.process = r.process
      /\ s.supervisor = r.supervisor /\ s.killed = r.killed /\ s.grace = r.grace
      /\ s.broken = r.broken /\ s.record = r.record /\ s.background = TRUE
  BY DEF Execution
<1> HIDE DEF s
<1>3. TaskTrue(s)
  BY <1>2 DEF Good, TaskTrue, Verdict, Execution, Ended
<1>4. CallTrue(s, c, q)
  BY <1>2 DEF Good, TaskTrue, CallTrue, Observed, Waits, Execution
<1>5. ReportTrue(s, c, q, p) /\ KeepsEnd(r, s)
  BY <1>2 DEF Good, TaskTrue, ReportTrue, KeepsEnd, Ended, Verdict, Execution
<1> QED BY <1>1, <1>2, <1>3, <1>4, <1>5 DEF s, Good

-----------------------------------------------------------------------------
(* Calls. *)

\* A call that is still under way has moved, and lets go of its command only where the command
\* has ended or is in the background.
LEMMA CallMoves ==
  ASSUME NEW r \in Execution, NEW c \in ShellCall, NEW q \in RequestState, NEW p \in Reporting,
         Good(r, c, q, p), NEW d \in ShellCall, Waits(c), Waits(d), d.pc # "claiming",
         d.returned => c.returned \/ r.background \/ r.status # "running",
         d.pc = "reading" /\ d.tool = "shell" => r.background \/ r.status # "running",
         d.pc = "yielding" => r.background,
         d.pc = "persisting" => r.background \/ r.status # "running",
         d.pc = "reporting" => d.returned
  PROVE  Good(r, d, q, p)
<1>1. CallTrue(r, d, q)
  BY DEF Good, TaskTrue, CallTrue, Observed, Waits
<1>2. ReportTrue(r, d, q, p)
  BY DEF Good, ReportTrue, Waits
<1> QED BY <1>1, <1>2 DEF Good

\* What Going makes of a call.
LEMMA GoingFields ==
  ASSUME NEW c \in ShellCall,
         NEW pc \in {"none", "refused", "waiting", "stopping", "yielding", "reading", "settling",
                     "persisting", "reporting", "claiming", "done", "failed", "dropped"}
  PROVE  LET d == Going(c, pc)
         IN  /\ d \in ShellCall /\ d.pc = pc /\ d.tool = c.tool /\ d.hard = c.hard
             /\ d.returned => c.returned
             /\ pc \notin {"done", "failed", "dropped"} => d.returned = c.returned
<1>1. [c EXCEPT !.pc = pc] \in ShellCall /\ [c EXCEPT !.pc = pc].pc = pc
      /\ [c EXCEPT !.pc = pc].tool = c.tool /\ [c EXCEPT !.pc = pc].hard = c.hard
      /\ [c EXCEPT !.pc = pc].returned = c.returned
  BY DEF ShellCall
<1> DEFINE e == [c EXCEPT !.pc = pc, !.cancelled = FALSE, !.returned = FALSE]
<1>2. e \in ShellCall /\ e.pc = pc /\ e.tool = c.tool /\ e.hard = c.hard /\ ~ e.returned
  BY DEF ShellCall
<1> QED BY <1>1, <1>2 DEF Going

\* A call that ends without its command kills it, unless it runs in the background.
LEMMA CallEnds ==
  ASSUME NEW r \in Execution, NEW c \in ShellCall, NEW q \in RequestState, NEW p \in Reporting,
         Good(r, c, q, p), NEW pc \in {"failed", "dropped"}, Waits(c),
         NEW returned \in BOOLEAN, returned => c.returned \/ r.background \/ r.status # "running"
  PROVE  LET s == Abandoned(r, returned)
         IN  s \in Execution /\ Good(s, Going(c, pc), q, p) /\ KeepsEnd(r, s)
<1> DEFINE s == Abandoned(r, returned)  d == Going(c, pc)
<1>1. MoreKills(r, s) /\ s \in Execution
  <2>1. MoreKills(r, r)
    BY DEF MoreKills
  <2> QED BY <2>1, SentMore DEF Abandoned, MoreKills
<1>2. Good(s, c, q, p) /\ KeepsEnd(r, s)
  BY <1>1, MoreKillsGood
<1>3. r.supervisor \in {"opening", "waiting"} =>
        returned \/ r.background \/ s.kills # {}
  BY SentMore DEF Abandoned
<1>4. d \in ShellCall /\ d.pc = pc
  BY GoingFields
<1> HIDE DEF s, d
<1>5. Observed(s, d)
  BY <1>1, <1>3 DEF MoreKills, Observed, Good, TaskTrue, CallTrue
<1>6. CallTrue(s, d, q)
  BY <1>2, <1>4, <1>5 DEF Good, CallTrue, Waits
<1>7. ReportTrue(s, d, q, p)
  BY <1>2, <1>4 DEF Good, ReportTrue
<1> QED BY <1>1, <1>2, <1>6, <1>7 DEF Good, s, d

\* A call that has let go of its command ends.
LEMMA CallDone ==
  ASSUME NEW r \in Execution, NEW c \in ShellCall, NEW q \in RequestState, NEW p \in Reporting,
         Good(r, c, q, p), c.pc \in {"reporting", "claiming"}
  PROVE  LET d == Going(c, "done") IN d \in ShellCall /\ Good(r, d, q, p)
<1> DEFINE d == Going(c, "done")
<1>1. d \in ShellCall /\ d.pc = "done"
  BY GoingFields
<1> HIDE DEF d
<1>2. CallTrue(r, d, q)
  BY <1>1 DEF Good, CallTrue, Observed, Waits
<1>3. ReportTrue(r, d, q, p)
  BY <1>1 DEF Good, ReportTrue
<1> QED BY <1>1, <1>2, <1>3 DEF Good, d

-----------------------------------------------------------------------------
(* Steps about one task. *)

\* One task, its call, its request and its report become these.
Moved(t, r, c, q, p) ==
  /\ task' = [task EXCEPT ![t] = r] /\ call' = [call EXCEPT ![t] = c]
  /\ request' = [request EXCEPT ![t] = q] /\ report' = [report EXCEPT ![t] = p]

\* The step leaves the record of every ended task.
EndsKept == \A t \in Task : KeepsEnd(task[t], task'[t])

\* A step about one task keeps the invariant when what it leaves of that task is good.
LEMMA OneTask ==
  ASSUME ShellInv, NEW t \in Task, NEW r \in Execution, NEW c \in ShellCall,
         NEW q \in RequestState, NEW p \in Reporting, Moved(t, r, c, q, p),
         Good(r, c, q, p), KeepsEnd(task[t], r), r.status = "none" => task[t].status = "none",
         registered' \subseteq registered \/ (registered' = registered \cup {t} /\ r.status # "none"),
         life' = life, life = "down" => r.supervisor = "none"
  PROVE  ShellInv' /\ EndsKept
<1> USE DEF ShellInv, ShellShape, Moved
<1>1. ShellShape'
  OBVIOUS
<1>2. /\ task'[t] = r /\ call'[t] = c /\ request'[t] = q /\ report'[t] = p
      /\ \A u \in Task \ {t} : /\ task'[u] = task[u] /\ call'[u] = call[u]
                              /\ request'[u] = request[u] /\ report'[u] = report[u]
  OBVIOUS
<1>3. \A u \in Task : Good(task'[u], call'[u], request'[u], report'[u])
  BY <1>2
<1>4. EndsKept
  BY <1>2 DEF EndsKept, KeepsEnd
<1>5. \A u \in registered' : task'[u].status # "none"
  BY <1>2
<1>6. life' = "down" => \A u \in Task : task'[u].supervisor = "none"
  BY <1>2
<1> HIDE DEF Moved
<1> QED BY <1>1, <1>3, <1>4, <1>5, <1>6

\* What holds of one task.
LEMMA Here ==
  ASSUME ShellInv, NEW t \in Task
  PROVE  /\ task[t] \in Execution /\ call[t] \in ShellCall /\ request[t] \in RequestState
         /\ report[t] \in Reporting
         /\ Good(task[t], call[t], request[t], report[t])
         /\ t \in registered => task[t].status # "none"
         /\ life = "down" => task[t].supervisor = "none"
BY DEF ShellInv, ShellShape

\* A step of the task alone.
LEMMA TaskAlone ==
  ASSUME ShellInv, NEW t \in Task, NEW s \in Execution, task' = [task EXCEPT ![t] = s],
         UNCHANGED <<call, report, request>>, life' = life,
         Good(s, call[t], request[t], report[t]), KeepsEnd(task[t], s),
         s.status = "none" => task[t].status = "none",
         registered' \subseteq registered, life = "down" => s.supervisor = "none"
  PROVE  ShellInv' /\ EndsKept
<1>1. Moved(t, s, call[t], request[t], report[t])
  BY DEF Moved, ShellInv, ShellShape
<1> QED BY <1>1, Here, OneTask

\* The supervisor's own steps.
LEMMA SupervisorKeeps ==
  ASSUME ShellInv, NEW t \in Task, SupervisorStep(t), UNCHANGED call_vars,
         life' = life, life # "down"
  PROVE  ShellInv' /\ EndsKept
<1> DEFINE r == task[t]
<1>0. /\ r \in Execution /\ Good(r, call[t], request[t], report[t]) /\ task \in [Task -> Execution]
      /\ call[t] \in ShellCall /\ request[t] \in RequestState /\ report[t] \in Reporting
      /\ UNCHANGED <<call, report, request>> /\ registered' = registered
  BY Here DEF ShellInv, ShellShape, call_vars, SupervisorStep, OpenRecord, ChildExits, FinalSave,
              Publish
<1>1. CASE OpenRecord(t)
  <2>0. r.supervisor = "opening"
    BY <1>1 DEF OpenRecord
  <2>1. CASE task' = [task EXCEPT ![t] = [Persisted(@) EXCEPT !.supervisor = "waiting"]]
    <3> DEFINE k == Persisted(r)  s == [k EXCEPT !.supervisor = "waiting"]
    <3>1. /\ k \in Execution /\ Good(k, call[t], request[t], report[t]) /\ KeepsEnd(r, k)
          /\ k.supervisor = r.supervisor /\ k.status = r.status
      BY <1>0, <2>0, PersistedGood
    <3> HIDE DEF k
    <3>2. /\ s \in Execution /\ Good(s, call[t], request[t], report[t]) /\ KeepsEnd(k, s)
          /\ s.status = k.status
      BY <1>0, <2>0, <3>1, WaitingGood
    <3>3. KeepsEnd(r, s)
      BY <1>0, <2>0, <3>1, <3>2 DEF KeepsEnd, Good, TaskTrue, Ended
    <3>4. task' = [task EXCEPT ![t] = s]
      BY <2>1 DEF k
    <3> HIDE DEF s
    <3> QED BY <1>0, <3>1, <3>2, <3>3, <3>4, TaskAlone
  <2>2. CASE task' = [task EXCEPT ![t].supervisor = "waiting"]
    <3> DEFINE s == [r EXCEPT !.supervisor = "waiting"]
    <3>1. /\ s \in Execution /\ Good(s, call[t], request[t], report[t]) /\ KeepsEnd(r, s)
          /\ s.status = r.status
      BY <1>0, <2>0, WaitingGood
    <3>2. task' = [task EXCEPT ![t] = s]
      BY <2>2
    <3> HIDE DEF s
    <3> QED BY <1>0, <3>1, <3>2, TaskAlone
  <2> QED BY <1>1, <2>1, <2>2 DEF OpenRecord
<1>2. CASE ChildExits(t)
  <2>0. r.supervisor = "waiting" /\ r.status = "running"
    BY <1>0, <1>2 DEF ChildExits, Good, TaskTrue
  <2>1. CASE task' = [task EXCEPT ![t].supervisor = "draining", ![t].process = "dead"]
    <3> DEFINE s == [r EXCEPT !.supervisor = "draining", !.process = "dead"]
    <3>1. /\ s \in Execution /\ Good(s, call[t], request[t], report[t]) /\ KeepsEnd(r, s)
          /\ s.status = r.status
      BY <1>0, <2>0, ChildGood
    <3>2. task' = [task EXCEPT ![t] = s]
      BY <1>0, <2>1
    <3> HIDE DEF s
    <3> QED BY <1>0, <3>1, <3>2, TaskAlone
  <2>2. CASE task' = [task EXCEPT ![t].supervisor = "draining", ![t].broken = TRUE]
    <3> DEFINE s == [r EXCEPT !.supervisor = "draining", !.broken = TRUE]
    <3>1. /\ s \in Execution /\ Good(s, call[t], request[t], report[t]) /\ KeepsEnd(r, s)
          /\ s.status = r.status
      BY <1>0, <2>0, ChildBrokenGood
    <3>2. task' = [task EXCEPT ![t] = s]
      BY <1>0, <2>2
    <3> HIDE DEF s
    <3> QED BY <1>0, <3>1, <3>2, TaskAlone
  <2> QED BY <1>2, <2>1, <2>2 DEF ChildExits
<1>3. CASE FinalSave(t)
  <2>0. r.supervisor = "draining" /\ r.status = "running"
    BY <1>0, <1>3 DEF FinalSave, Good, TaskTrue
  <2>1. CASE task' = [task EXCEPT ![t].supervisor = "publishing", ![t].record = Verdict(task[t])]
    <3> DEFINE s == [r EXCEPT !.supervisor = "publishing", !.record = Verdict(r)]
    <3>1. /\ s \in Execution /\ Good(s, call[t], request[t], report[t]) /\ KeepsEnd(r, s)
          /\ s.status = r.status
      BY <1>0, <2>0, SavedGood
    <3>2. task' = [task EXCEPT ![t] = s]
      BY <1>0, <2>1
    <3> HIDE DEF s
    <3> QED BY <1>0, <3>1, <3>2, TaskAlone
  <2>2. CASE task' = [task EXCEPT ![t].supervisor = "publishing"]
    <3> DEFINE s == [r EXCEPT !.supervisor = "publishing"]
    <3>1. /\ s \in Execution /\ Good(s, call[t], request[t], report[t]) /\ KeepsEnd(r, s)
          /\ s.status = r.status
      BY <1>0, <2>0, UnsavedGood
    <3>2. task' = [task EXCEPT ![t] = s]
      BY <1>0, <2>2
    <3> HIDE DEF s
    <3> QED BY <1>0, <3>1, <3>2, TaskAlone
  <2> QED BY <1>3, <2>1, <2>2 DEF FinalSave
<1>4. CASE Publish(t)
  <2>0. r.supervisor = "publishing"
    BY <1>4 DEF Publish
  <2> DEFINE s == [r EXCEPT !.supervisor = "done", !.status = Verdict(r), !.kills = {},
                            !.grace = FALSE, !.killed = FALSE, !.broken = FALSE]
  <2>1. /\ s \in Execution /\ Good(s, call[t], request[t], report[t]) /\ KeepsEnd(r, s)
        /\ s.status = Verdict(r)
    BY <1>0, <2>0, PublishedGood
  <2>2. task' = [task EXCEPT ![t] = s]
    BY <1>0, <1>4 DEF Publish
  <2> HIDE DEF s
  <2> QED BY <1>0, <2>1, <2>2, TaskAlone DEF Verdict
<1> QED BY <1>1, <1>2, <1>3, <1>4 DEF SupervisorStep

\* A signal that does not reach the group.
LEMMA SignalFailsKeeps ==
  ASSUME ShellInv, NEW t \in Task, SignalFails(t), task[t].supervisor = "waiting",
         UNCHANGED <<registered, call, report, request>>, life' = life, life # "down"
  PROVE  ShellInv' /\ EndsKept
<1>0. task \in [Task -> Execution]
  BY DEF ShellInv, ShellShape
<1>1. PICK left \in {"lingering", "dead"} :
       task' = [task EXCEPT ![t].supervisor = "draining", ![t].broken = TRUE, ![t].killed = TRUE,
                            ![t].process = IF @ = "up" THEN left ELSE @]
  BY DEF SignalFails
<1> DEFINE r == task[t]
           s == [r EXCEPT !.supervisor = "draining", !.broken = TRUE, !.killed = TRUE,
                          !.process = IF r.process = "up" THEN left ELSE r.process]
<1>2. /\ s \in Execution /\ Good(s, call[t], request[t], report[t]) /\ KeepsEnd(r, s)
      /\ s.status = r.status
  BY Here, SignalGood
<1>3. task' = [task EXCEPT ![t] = s]
  BY <1>0, <1>1
<1> HIDE DEF s
<1> QED BY <1>2, <1>3, TaskAlone

\* The supervisor reads a kill request.
LEMMA ReceiveKillKeeps ==
  ASSUME ShellInv, NEW t \in Task, ReceiveKill(t), UNCHANGED call_vars,
         life' = life, life # "down"
  PROVE  ShellInv' /\ EndsKept
<1>0. /\ task \in [Task -> Execution] /\ task[t].supervisor = "waiting"
      /\ UNCHANGED <<registered, call, report, request>>
  BY DEF ShellInv, ShellShape, ReceiveKill, call_vars
<1>1. PICK mode \in task[t].kills :
       \/ task' = [task EXCEPT ![t].kills = @ \ {mode},
                               ![t].killed = TRUE,
                               ![t].process = IF mode = "force" THEN "dead" ELSE @,
                               ![t].grace = (mode # "force")]
       \/ SignalFails(t)
  BY DEF ReceiveKill
<1> DEFINE r == task[t]
<1>2. CASE SignalFails(t)
  BY <1>0, <1>2, SignalFailsKeeps
<1>3. CASE mode = "force" /\ ~ SignalFails(t)
  <2> DEFINE s == [r EXCEPT !.kills = r.kills \ {mode}, !.killed = TRUE, !.process = "dead",
                            !.grace = FALSE]
  <2>1. /\ s \in Execution /\ Good(s, call[t], request[t], report[t]) /\ KeepsEnd(r, s)
        /\ s.status = r.status
    BY <1>0, <1>3, Here, ForcedGood
  <2>2. task' = [task EXCEPT ![t] = s]
    BY <1>0, <1>1, <1>3
  <2> HIDE DEF s
  <2> QED BY <1>0, <2>1, <2>2, TaskAlone
<1>4. CASE mode # "force" /\ ~ SignalFails(t)
  <2> DEFINE s == [r EXCEPT !.kills = r.kills \ {mode}, !.killed = TRUE, !.grace = TRUE]
  <2>1. /\ s \in Execution /\ Good(s, call[t], request[t], report[t]) /\ KeepsEnd(r, s)
        /\ s.status = r.status
    BY <1>0, Here, GracefulGood
  <2>2. task' = [task EXCEPT ![t] = s]
    <3>1. task' = [task EXCEPT ![t].kills = @ \ {mode}, ![t].killed = TRUE,
                               ![t].process = IF mode = "force" THEN "dead" ELSE @,
                               ![t].grace = (mode # "force")]
      BY <1>1, <1>4
    <3>2. task' = [task EXCEPT ![t] = [r EXCEPT !.kills = r.kills \ {mode}, !.killed = TRUE,
                               !.process = IF mode = "force" THEN "dead" ELSE r.process,
                               !.grace = (mode # "force")]]
      BY <1>0, <3>1
    <3>3. [r EXCEPT !.kills = r.kills \ {mode}, !.killed = TRUE,
                    !.process = IF mode = "force" THEN "dead" ELSE r.process,
                    !.grace = (mode # "force")] = s
      BY <1>4, Here DEF Execution
    <3> QED BY <3>2, <3>3
  <2> HIDE DEF s
  <2> QED BY <1>0, <2>1, <2>2, TaskAlone
<1> QED BY <1>2, <1>3, <1>4

\* The grace of a kill request ends.
LEMMA GraceEndsKeeps ==
  ASSUME ShellInv, NEW t \in Task, GraceEnds(t), UNCHANGED call_vars,
         life' = life, life # "down"
  PROVE  ShellInv' /\ EndsKept
<1>0. /\ task \in [Task -> Execution] /\ task[t].supervisor = "waiting"
      /\ UNCHANGED <<registered, call, report, request>>
  BY DEF ShellInv, ShellShape, GraceEnds, call_vars
<1> DEFINE r == task[t]
<1>1. CASE SignalFails(t)
  BY <1>0, <1>1, SignalFailsKeeps
<1>2. CASE task' = [task EXCEPT ![t].process = "dead", ![t].grace = FALSE]
  <2> DEFINE s == [r EXCEPT !.process = "dead", !.grace = FALSE]
  <2>1. /\ s \in Execution /\ Good(s, call[t], request[t], report[t]) /\ KeepsEnd(r, s)
        /\ s.status = r.status
    BY <1>0, Here, GraceGood
  <2>2. task' = [task EXCEPT ![t] = s]
    BY <1>0, <1>2
  <2> HIDE DEF s
  <2> QED BY <1>0, <2>1, <2>2, TaskAlone
<1> QED BY <1>1, <1>2 DEF GraceEnds

\* A process may exit with nobody there to see it.
LEMMA ShellExitsKeeps ==
  ASSUME ShellInv, NEW t \in Task, ShellExits(t), UNCHANGED call_vars, life' = life
  PROVE  ShellInv' /\ EndsKept
<1>0. UNCHANGED <<registered, call, report, request>> /\ task[t].process = "up"
  BY DEF ShellExits, call_vars
<1>1. PICK left \in {"lingering", "dead"} : task' = [task EXCEPT ![t].process = left]
  BY DEF ShellExits
<1> DEFINE r == task[t]  s == [r EXCEPT !.process = left]
<1>2. /\ s \in Execution /\ Good(s, call[t], request[t], report[t]) /\ KeepsEnd(r, s)
      /\ s.status = r.status /\ s.supervisor = r.supervisor
  BY <1>0, Here, ExitGood
<1>3. task' = [task EXCEPT ![t] = s]
  BY <1>1
<1> HIDE DEF s
<1> QED BY <1>0, <1>2, <1>3, Here, TaskAlone

\* Someone asks for the task to be killed.
LEMMA MoreKillsKeeps ==
  ASSUME ShellInv, NEW t \in Task, NEW s, MoreKills(task[t], s), task' = [task EXCEPT ![t] = s],
         UNCHANGED <<registered, call, report, request>>, life' = life
  PROVE  ShellInv' /\ EndsKept
<1>1. /\ s \in Execution /\ s.status = task[t].status /\ s.supervisor = task[t].supervisor
  BY DEF MoreKills
<1>2. Good(s, call[t], request[t], report[t]) /\ KeepsEnd(task[t], s)
  BY <1>1, Here, MoreKillsGood
<1> QED BY <1>1, <1>2, Here, TaskAlone

\* The capture gives up.
LEMMA CaptureFailsKeeps ==
  ASSUME ShellInv, NEW t \in Task, CaptureFails(t), UNCHANGED call_vars, life' = life
  PROVE  ShellInv' /\ EndsKept
BY Here, SentMore, MoreKillsKeeps DEF CaptureFails, call_vars

\* The user kills a task.
LEMMA KillTaskKeeps ==
  ASSUME ShellInv, NEW t \in Task, KillTask(t), life' = life
  PROVE  ShellInv' /\ EndsKept
<1>1. PICK mode \in {"graceful", "force"} : task' = [task EXCEPT ![t] = Terminated(@, mode)]
  BY DEF KillTask
<1>2. UNCHANGED <<registered, call, report, request>>
  BY DEF KillTask, call_vars
<1> QED BY <1>1, <1>2, Here, SentMore, MoreKillsKeeps

\* The user removes a task.
LEMMA RemoveTaskKeeps ==
  ASSUME ShellInv, NEW t \in Task, RemoveTask(t), UNCHANGED call_vars, life' = life
  PROVE  ShellInv' /\ EndsKept
<1>0. /\ UNCHANGED <<call, report, request>> /\ registered' \subseteq registered
      /\ task[t].status \notin {"none", "running"} /\ task \in [Task -> Execution]
  BY Here DEF RemoveTask, call_vars, Running, ShellInv, ShellShape
<1> DEFINE r == task[t]  s == [r EXCEPT !.record = "removed"]
<1>1. CASE task' = [task EXCEPT ![t].record = "removed"]
  <2>1. /\ s \in Execution /\ Good(s, call[t], request[t], report[t]) /\ KeepsEnd(r, s)
        /\ s.status = r.status /\ s.supervisor = r.supervisor
    BY <1>0, Here, RemovedGood
  <2>2. task' = [task EXCEPT ![t] = s]
    BY <1>1
  <2> HIDE DEF s
  <2> QED BY <1>0, <2>1, <2>2, Here, TaskAlone
<1>2. CASE task' = task
  <2>1. task' = [task EXCEPT ![t] = r]
    BY <1>0, <1>2
  <2> QED BY <1>0, <2>1, Here, TaskAlone DEF KeepsEnd
<1> QED BY <1>1, <1>2 DEF RemoveTask

\* The user puts a task in the background.
LEMMA AskBackgroundKeeps ==
  ASSUME ShellInv, NEW t \in Task, AskBackground(t), life' = life
  PROVE  ShellInv' /\ EndsKept
<1> DEFINE r == task[t]  s == [r EXCEPT !.background = TRUE]
<1>0. /\ r.status = "running" /\ request[t] = "none" /\ task' = [task EXCEPT ![t] = s]
      /\ request' = [request EXCEPT ![t] = "persisting"]
      /\ UNCHANGED <<registered, call, report>>
  BY DEF AskBackground, Running
<1>1. /\ s \in Execution /\ Good(s, call[t], request[t], report[t]) /\ KeepsEnd(r, s)
      /\ s.status = r.status /\ s.supervisor = r.supervisor
  BY Here, BackgroundGood
<1> HIDE DEF s
<1>2. r.supervisor # "none"
  BY <1>0, Here DEF Good, TaskTrue
<1>3. Good(s, call[t], "persisting", report[t])
  BY <1>0, <1>1, <1>2 DEF Good, CallTrue, ReportTrue
<1>4. Moved(t, s, call[t], "persisting", report[t])
  BY <1>0 DEF Moved, ShellInv, ShellShape
<1> QED BY <1>0, <1>1, <1>2, <1>3, <1>4, Here, OneTask DEF RequestState
-----------------------------------------------------------------------------
(* Steps of a call. *)

\* A step of a call and its task.
LEMMA CallAndTask ==
  ASSUME ShellInv, NEW t \in Task, NEW s \in Execution, NEW d \in ShellCall,
         task' = [task EXCEPT ![t] = s], call' = [call EXCEPT ![t] = d],
         UNCHANGED <<registered, report, request>>, life' = life,
         Good(s, d, request[t], report[t]), KeepsEnd(task[t], s),
         s.status = task[t].status, s.supervisor = task[t].supervisor
  PROVE  ShellInv' /\ EndsKept
<1>1. Moved(t, s, d, request[t], report[t])
  BY DEF Moved, ShellInv, ShellShape
<1> QED BY <1>1, Here, OneTask

\* A step of a call alone.
LEMMA CallAlone ==
  ASSUME ShellInv, NEW t \in Task, NEW d \in ShellCall, call' = [call EXCEPT ![t] = d],
         UNCHANGED <<registered, task, report, request>>, life' = life,
         Good(task[t], d, request[t], report[t])
  PROVE  ShellInv' /\ EndsKept
<1>1. task' = [task EXCEPT ![t] = task[t]] /\ KeepsEnd(task[t], task[t])
  BY DEF ShellInv, ShellShape, KeepsEnd
<1> QED BY <1>1, Here, CallAndTask

\* A call ends without its command, which may have been asked to end before.
LEMMA CallEndsKeeps ==
  ASSUME ShellInv, NEW t \in Task, NEW r, MoreKills(task[t], r), NEW pc \in {"failed", "dropped"},
         Pending(t), NEW returned \in BOOLEAN,
         returned => call[t].returned \/ task[t].background \/ task[t].status # "running",
         To(t, pc), task' = [task EXCEPT ![t] = Abandoned(r, returned)],
         UNCHANGED <<registered, report, request>>, life' = life
  PROVE  ShellInv' /\ EndsKept
<1> DEFINE s == Abandoned(r, returned)  d == Going(call[t], pc)
<1>1. /\ r \in Execution /\ r.status = task[t].status /\ r.supervisor = task[t].supervisor
      /\ r.background = task[t].background
  BY DEF MoreKills
<1>2. Good(r, call[t], request[t], report[t]) /\ KeepsEnd(task[t], r)
  BY <1>1, Here, MoreKillsGood
<1>3. Waits(call[t])
  BY DEF Waits, Pending
<1>4. s \in Execution /\ Good(s, d, request[t], report[t]) /\ KeepsEnd(r, s)
  BY <1>1, <1>2, <1>3, Here, CallEnds
<1>5. s.status = r.status /\ s.supervisor = r.supervisor /\ s.record = r.record
  <2>1. MoreKills(r, r)
    BY <1>1 DEF MoreKills
  <2> QED BY <1>1, <2>1, SentMore DEF Abandoned, MoreKills
<1>6. d \in ShellCall
  BY Here, GoingFields
<1>7. KeepsEnd(task[t], s)
  BY <1>5 DEF KeepsEnd, MoreKills
<1>8. call' = [call EXCEPT ![t] = d]
  BY DEF To
<1> HIDE DEF s, d
<1> QED BY <1>1, <1>4, <1>5, <1>6, <1>7, <1>8, CallAndTask DEF s

\* An error ends the call.
LEMMA FailsKeeps ==
  ASSUME ShellInv, NEW t \in Task, NEW r, MoreKills(task[t], r), Pending(t), Fails(t, r), CallOnly,
         life' = life
  PROVE  ShellInv' /\ EndsKept
<1>1. call[t].returned \in BOOLEAN
  BY Here DEF ShellCall
<1> QED BY <1>1, CallEndsKeeps DEF Fails, CallOnly

\* No kill request is more than none.
LEMMA NoKills ==
  ASSUME ShellInv, NEW t \in Task
  PROVE  MoreKills(task[t], task[t])
BY Here DEF MoreKills

\* A command that is not started.
LEMMA RefuseKeeps ==
  ASSUME ShellInv, NEW t \in Task, Refuse(t), life' = life
  PROVE  ShellInv' /\ EndsKept
<1> DEFINE c == call[t]  d == Going(c, "refused")
<1>0. /\ c \in ShellCall /\ c.pc = "none" /\ call' = [call EXCEPT ![t] = d]
      /\ Good(task[t], c, request[t], report[t])
      /\ UNCHANGED <<registered, task, report, request>>
  BY Here DEF Refuse, To
<1>1. d \in ShellCall /\ d.pc = "refused" /\ d.returned = c.returned
  BY <1>0, GoingFields
<1> HIDE DEF d
<1>2. Good(task[t], d, request[t], report[t])
  BY <1>0, <1>1 DEF Good, CallTrue, ReportTrue, Observed, Waits
<1> QED BY <1>0, <1>1, <1>2, CallAlone

\* A command is started, and its call holds it.
LEMMA StartKeeps ==
  ASSUME ShellInv, NEW t \in Task, Start(t), life' = life, life # "down"
  PROVE  ShellInv' /\ EndsKept
<1> DEFINE c == call[t]  r == task[t]
<1>1. PICK tt \in {"shell", "start"}, hard \in {"none", "armed"} :
        call' = [call EXCEPT ![t].pc = "waiting", ![t].tool = tt, ![t].hard = hard]
  BY DEF Start
<1> DEFINE d == [c EXCEPT !.pc = "waiting", !.tool = tt, !.hard = hard]
           s == [r EXCEPT !.status = "running", !.process = "up", !.supervisor = "opening"]
<1>2. /\ call' = [call EXCEPT ![t] = d] /\ task' = [task EXCEPT ![t] = s]
      /\ registered' = registered \cup {t} /\ UNCHANGED <<report, request>> /\ c.pc = "none"
  BY <1>1 DEF Start, Spawned, ShellInv, ShellShape
<1>3. d \in ShellCall /\ d.pc = "waiting" /\ d.returned = c.returned
  BY Here DEF ShellCall
<1>4. /\ s \in Execution /\ s.status = "running" /\ s.process = "up" /\ s.supervisor = "opening"
      /\ s.record = r.record
  BY Here DEF Execution
<1> HIDE DEF d, s
<1>5. TaskTrue(s) /\ KeepsEnd(r, s)
  BY <1>2, <1>4, Here DEF Good, TaskTrue, CallTrue, KeepsEnd
<1>6. CallTrue(s, d, request[t])
  BY <1>2, <1>3, <1>4, Here DEF Good, CallTrue, Observed, Waits
<1>7. ReportTrue(s, d, request[t], report[t])
  BY <1>2, <1>3, <1>4, Here DEF Good, ReportTrue
<1>8. Moved(t, s, d, request[t], report[t])
  BY <1>2 DEF Moved, ShellInv, ShellShape
<1>9. Good(s, d, request[t], report[t])
  BY <1>5, <1>6, <1>7 DEF Good
<1> QED BY <1>2, <1>3, <1>4, <1>5, <1>8, <1>9, Here, OneTask

\* The run of a call is interrupted.
LEMMA CancelCallKeeps ==
  ASSUME ShellInv, NEW t \in Task, CancelCall(t), life' = life
  PROVE  ShellInv' /\ EndsKept
<1> DEFINE c == call[t]  d == [c EXCEPT !.cancelled = TRUE]
<1>0. /\ c \in ShellCall /\ call' = [call EXCEPT ![t] = d]
      /\ Good(task[t], c, request[t], report[t])
      /\ UNCHANGED <<registered, task, report, request>>
  BY Here DEF CancelCall, CallOnly
<1>1. d \in ShellCall /\ d.pc = c.pc /\ d.tool = c.tool /\ d.returned = c.returned
  BY <1>0 DEF ShellCall
<1> HIDE DEF d
<1>2. Good(task[t], d, request[t], report[t])
  BY <1>0, <1>1 DEF Good, CallTrue, ReportTrue, Observed, Waits
<1> QED BY <1>0, <1>1, <1>2, CallAlone

\* The future of a call is dropped at any await.
LEMMA DropCallKeeps ==
  ASSUME ShellInv, NEW t \in Task, DropCall(t), life' = life
  PROVE  ShellInv' /\ EndsKept
<1>1. call[t].returned \in BOOLEAN
  BY Here DEF ShellCall
<1> QED BY <1>1, NoKills, CallEndsKeeps DEF DropCall, CallOnly

\* A call goes on at pc, after it has perhaps asked for its command to end.
LEMMA GoingKeeps ==
  ASSUME ShellInv, NEW t \in Task, NEW s, MoreKills(task[t], s),
         NEW pc \in {"waiting", "stopping", "yielding", "reading", "settling", "persisting"},
         Pending(t), To(t, pc), task' = [task EXCEPT ![t] = s],
         pc = "reading" /\ call[t].tool = "shell" =>
           task[t].background \/ task[t].status # "running",
         pc = "yielding" => task[t].background,
         pc = "persisting" => task[t].background \/ task[t].status # "running",
         UNCHANGED <<registered, report, request>>, life' = life
  PROVE  ShellInv' /\ EndsKept
<1> DEFINE c == call[t]  d == Going(c, pc)
<1>1. /\ s \in Execution /\ s.status = task[t].status /\ s.supervisor = task[t].supervisor
      /\ s.background = task[t].background
  BY DEF MoreKills
<1>2. Good(s, c, request[t], report[t]) /\ KeepsEnd(task[t], s)
  BY <1>1, Here, MoreKillsGood
<1>3. d \in ShellCall /\ d.pc = pc /\ d.tool = c.tool /\ d.returned = c.returned
  BY Here, GoingFields
<1>4. call' = [call EXCEPT ![t] = d]
  BY DEF To
<1> HIDE DEF d
<1>5. Waits(c) /\ Waits(d)
  BY <1>3 DEF Waits, Pending
<1>6. Good(s, d, request[t], report[t])
  BY <1>1, <1>2, <1>3, <1>5, Here, CallMoves
<1> QED BY <1>1, <1>2, <1>3, <1>4, <1>6, CallAndTask

\* The call sees that it is cancelled.
LEMMA SeeCancellationKeeps ==
  ASSUME ShellInv, NEW t \in Task, SeeCancellation(t), life' = life
  PROVE  ShellInv' /\ EndsKept
<1>1. MoreKills(task[t], Terminated(task[t], "graceful"))
  BY Here, SentMore
<1> QED BY <1>1, GoingKeeps DEF SeeCancellation, CallOnly, Pending

\* A call goes on at pc, and nothing else moves.
LEMMA GoingAlone ==
  ASSUME ShellInv, NEW t \in Task,
         NEW pc \in {"waiting", "stopping", "reading", "settling"},
         Pending(t), To(t, pc), UNCHANGED task,
         pc = "reading" /\ call[t].tool = "shell" =>
           task[t].background \/ task[t].status # "running",
         UNCHANGED <<registered, report, request>>, life' = life
  PROVE  ShellInv' /\ EndsKept
<1>1. task' = [task EXCEPT ![t] = task[t]]
  BY DEF ShellInv, ShellShape
<1> QED BY <1>1, NoKills, GoingKeeps

\* The call sees the exit.
LEMMA SeeExitKeeps ==
  ASSUME ShellInv, NEW t \in Task, SeeExit(t), life' = life
  PROVE  ShellInv' /\ EndsKept
<1>0. Pending(t) /\ CallOnly
  BY DEF SeeExit, Pending
<1>1. CASE Fails(t, task[t])
  BY <1>0, <1>1, NoKills, FailsKeeps
<1>2. CASE To(t, "reading") /\ UNCHANGED task
  BY <1>0, <1>2, GoingAlone DEF SeeExit, CallOnly, Running
<1> QED BY <1>1, <1>2 DEF SeeExit

\* The call sees that its command is in the background.
LEMMA SeeBackgroundKeeps ==
  ASSUME ShellInv, NEW t \in Task, SeeBackground(t), life' = life
  PROVE  ShellInv' /\ EndsKept
BY GoingAlone DEF SeeBackground, Pending, CallOnly

\* The soft timeout: the call still holds its command when it goes on.
LEMMA SoftTimeoutKeeps ==
  ASSUME ShellInv, NEW t \in Task, SoftTimeout(t), life' = life
  PROVE  ShellInv' /\ EndsKept
BY GoingAlone DEF SoftTimeout, Pending, CallOnly

\* The capture cannot be read.
LEMMA CaptureUnreadableKeeps ==
  ASSUME ShellInv, NEW t \in Task, CaptureUnreadable(t), life' = life
  PROVE  ShellInv' /\ EndsKept
<1>1. MoreKills(task[t], Terminated(task[t], "force"))
  BY Here, SentMore
<1> QED BY <1>1, FailsKeeps DEF CaptureUnreadable, Pending

\* The call's command is put in the background, or recorded, and the call goes on at pc.
LEMMA ChangedGoing ==
  ASSUME ShellInv, NEW t \in Task, NEW s \in Execution,
         Good(s, call[t], request[t], report[t]), KeepsEnd(task[t], s),
         s.status = task[t].status, s.supervisor = task[t].supervisor,
         NEW pc \in {"yielding", "reading", "persisting"}, Pending(t), To(t, pc),
         task' = [task EXCEPT ![t] = s],
         pc \in {"yielding", "reading"} => s.background,
         pc = "persisting" => s.background \/ s.status # "running",
         UNCHANGED <<registered, report, request>>, life' = life
  PROVE  ShellInv' /\ EndsKept
<1> DEFINE c == call[t]  d == Going(c, pc)
<1>3. d \in ShellCall /\ d.pc = pc /\ d.tool = c.tool /\ d.returned = c.returned
  BY Here, GoingFields
<1>4. call' = [call EXCEPT ![t] = d]
  BY DEF To
<1> HIDE DEF d
<1>5. Waits(c) /\ Waits(d)
  BY <1>3 DEF Waits, Pending
<1>6. Good(s, d, request[t], report[t])
  BY <1>3, <1>5, Here, CallMoves
<1> QED BY <1>3, <1>4, <1>6, CallAndTask

\* Input for the session arrives.
LEMMA SeeInputKeeps ==
  ASSUME ShellInv, NEW t \in Task, SeeInput(t), life' = life
  PROVE  ShellInv' /\ EndsKept
<1>0. Pending(t) /\ CallOnly
  BY DEF SeeInput, Pending
<1>1. CASE Fails(t, task[t])
  BY <1>0, <1>1, NoKills, FailsKeeps
<1>2. CASE task' = [task EXCEPT ![t].background = TRUE] /\ To(t, "yielding")
  <2> DEFINE r == task[t]  s == [r EXCEPT !.background = TRUE]
  <2>1. /\ s \in Execution /\ Good(s, call[t], request[t], report[t]) /\ KeepsEnd(r, s)
        /\ s.status = r.status /\ s.supervisor = r.supervisor
    BY Here, BackgroundGood
  <2>2. s.background /\ task' = [task EXCEPT ![t] = s]
    BY <1>2, Here DEF Execution
  <2> HIDE DEF s
  <2> QED BY <1>0, <1>2, <2>1, <2>2, ChangedGoing DEF CallOnly
<1> QED BY <1>1, <1>2 DEF SeeInput

\* The command put in the background for input is recorded.
LEMMA YieldKeeps ==
  ASSUME ShellInv, NEW t \in Task, Yield(t), life' = life
  PROVE  ShellInv' /\ EndsKept
<1>0. Pending(t) /\ CallOnly
  BY DEF Yield, Pending
<1>1. CASE Fails(t, task[t])
  BY <1>0, <1>1, NoKills, FailsKeeps
<1>2. CASE CanPersist(t) /\ task' = [task EXCEPT ![t] = Persisted(@)] /\ To(t, "reading")
  <2> DEFINE r == task[t]  s == Persisted(r)
  <2>0. r.supervisor \notin {"none", "publishing"} /\ r.background
    BY <1>2, Here DEF CanPersist, Unlocked, Good, CallTrue, Yield, Waits
  <2>1. /\ s \in Execution /\ Good(s, call[t], request[t], report[t]) /\ KeepsEnd(r, s)
        /\ s.status = r.status /\ s.supervisor = r.supervisor /\ s.background = r.background
    BY <2>0, Here, PersistedGood
  <2>2. task' = [task EXCEPT ![t] = s]
    BY <1>2
  <2> HIDE DEF s
  <2> QED BY <1>0, <1>2, <2>0, <2>1, <2>2, ChangedGoing DEF CallOnly
<1> QED BY <1>1, <1>2 DEF Yield

\* The hard deadline fires, wherever the call is.
LEMMA HardDeadlineKeeps ==
  ASSUME ShellInv, NEW t \in Task, HardDeadline(t), life' = life
  PROVE  ShellInv' /\ EndsKept
<1> DEFINE c == call[t]  d == [c EXCEPT !.hard = "fired"]  s == Terminated(task[t], "graceful")
<1>1. MoreKills(task[t], s)
  BY Here, SentMore
<1>2. /\ s \in Execution /\ s.status = task[t].status /\ s.supervisor = task[t].supervisor
  BY <1>1 DEF MoreKills
<1>3. /\ call' = [call EXCEPT ![t] = d] /\ task' = [task EXCEPT ![t] = s]
      /\ UNCHANGED <<registered, report, request>>
  BY DEF HardDeadline, CallOnly
<1>4. d \in ShellCall /\ d.pc = c.pc /\ d.tool = c.tool /\ d.returned = c.returned
  BY Here DEF ShellCall
<1> HIDE DEF d, s
<1>5. Good(s, c, request[t], report[t]) /\ KeepsEnd(task[t], s)
  BY <1>1, <1>2, Here, MoreKillsGood
<1>6. Good(s, d, request[t], report[t])
  BY <1>4, <1>5 DEF Good, CallTrue, ReportTrue, Observed, Waits
<1> QED BY <1>2, <1>3, <1>4, <1>5, <1>6, CallAndTask

\* The output is read; the shell call lets go here, of a command that has ended or is in the
\* background.
LEMMA ReadKeeps ==
  ASSUME ShellInv, NEW t \in Task, Read(t), life' = life
  PROVE  ShellInv' /\ EndsKept
<1> DEFINE c == call[t]  r == task[t]
<1>0. /\ Pending(t) /\ Waits(c) /\ c.pc = "reading" /\ Told(t) \in {"running", "ended"}
      /\ UNCHANGED <<registered, report, request>>
  BY DEF Read, Pending, Waits, CallOnly, Told
<1>1. CASE /\ c.tool = "shell" /\ UNCHANGED task
           /\ call' = [call EXCEPT ![t].pc = "reporting", ![t].returned = TRUE, ![t].told = Told(t)]
  <2> DEFINE d == [c EXCEPT !.pc = "reporting", !.returned = TRUE, !.told = Told(t)]
  <2>1. call' = [call EXCEPT ![t] = d]
    BY <1>1
  <2>2. d \in ShellCall /\ d.pc = "reporting" /\ d.returned
    BY <1>0, Here DEF ShellCall
  <2> HIDE DEF d
  <2>3. r.background \/ r.status # "running"
    BY <1>0, <1>1, Here DEF Good, CallTrue
  <2>4. Waits(d)
    BY <2>2 DEF Waits
  <2>5. Good(r, d, request[t], report[t])
    BY <1>0, <2>2, <2>3, <2>4, Here, CallMoves
  <2> QED BY <1>0, <1>1, <2>1, <2>2, <2>5, CallAlone
<1>2. CASE task' = [task EXCEPT ![t] = Terminated(@, "graceful")] /\ To(t, "stopping")
  <2>1. MoreKills(task[t], Terminated(task[t], "graceful"))
    BY Here, SentMore
  <2> QED BY <1>0, <1>2, <2>1, GoingKeeps
<1>3. CASE UNCHANGED task /\ call' = [call EXCEPT ![t].pc = "settling", ![t].told = Told(t)]
  <2> DEFINE d == [c EXCEPT !.pc = "settling", !.told = Told(t)]
  <2>1. call' = [call EXCEPT ![t] = d]
    BY <1>3
  <2>2. d \in ShellCall /\ d.pc = "settling" /\ d.returned = c.returned
    BY <1>0, Here DEF ShellCall
  <2> HIDE DEF d
  <2>4. Waits(d)
    BY <2>2 DEF Waits
  <2>5. Good(r, d, request[t], report[t])
    BY <1>0, <2>2, <2>4, Here, CallMoves
  <2> QED BY <1>0, <1>3, <2>1, <2>2, <2>5, CallAlone
<1>4. CASE To(t, "failed") /\ task' = [task EXCEPT ![t] = Abandoned(@, c.tool = "shell")]
  <2> DEFINE returned == c.tool = "shell"
  <2>1. returned => task[t].background \/ task[t].status # "running"
    BY <1>0, Here DEF Good, CallTrue
  <2>2. returned \in BOOLEAN /\ task' = [task EXCEPT ![t] = Abandoned(task[t], returned)]
    BY <1>4
  <2> HIDE DEF returned
  <2> QED BY <1>0, <1>4, <2>1, <2>2, NoKills, CallEndsKeeps
<1> QED BY <1>1, <1>2, <1>3, <1>4 DEF Read

\* `start` leaves its command in the background.
LEMMA SettleKeeps ==
  ASSUME ShellInv, NEW t \in Task, Settle(t), life' = life
  PROVE  ShellInv' /\ EndsKept
<1> DEFINE r == task[t]
<1>0. /\ Pending(t) /\ To(t, "persisting") /\ UNCHANGED <<registered, report, request>>
      /\ task' = [task EXCEPT ![t].background = @ \/ Running(t)] /\ task \in [Task -> Execution]
  BY DEF Settle, Pending, CallOnly, ShellInv, ShellShape
<1>1. CASE Running(t)
  <2> DEFINE s == [r EXCEPT !.background = TRUE]
  <2>1. /\ s \in Execution /\ Good(s, call[t], request[t], report[t]) /\ KeepsEnd(r, s)
        /\ s.status = r.status /\ s.supervisor = r.supervisor
    BY Here, BackgroundGood
  <2>2. s.background /\ task' = [task EXCEPT ![t] = s]
    BY <1>0, <1>1, Here DEF Execution
  <2> HIDE DEF s
  <2> QED BY <1>0, <2>1, <2>2, ChangedGoing
<1>2. CASE ~ Running(t)
  <2>1. (r.background \/ Running(t)) = r.background
    BY <1>2, Here DEF Execution
  <2>2. task' = [task EXCEPT ![t].background = r.background]
    BY <1>0, <2>1
  <2>3. [r EXCEPT !.background = r.background] = r
    BY Here DEF Execution
  <2>4. task' = [task EXCEPT ![t] = r]
    BY <2>2, <2>3
  <2>5. KeepsEnd(r, r)
    BY DEF KeepsEnd
  <2> QED BY <1>0, <1>2, <2>4, <2>5, Here, ChangedGoing DEF Running
<1> QED BY <1>1, <1>2

\* `start` records its command, and lets go of it.
LEMMA PersistKeeps ==
  ASSUME ShellInv, NEW t \in Task, Persist(t), life' = life
  PROVE  ShellInv' /\ EndsKept
<1> DEFINE r == task[t]  c == call[t]
<1>0. Pending(t) /\ Waits(c) /\ CallOnly /\ c.pc = "persisting"
  BY DEF Persist, Pending, Waits
<1>1. CASE Fails(t, task[t])
  BY <1>0, <1>1, NoKills, FailsKeeps
<1>2. CASE /\ CanPersist(t) /\ task' = [task EXCEPT ![t] = Persisted(@)]
           /\ call' = [call EXCEPT ![t].pc = "reporting", ![t].returned = TRUE]
  <2> DEFINE s == Persisted(r)  d == [c EXCEPT !.pc = "reporting", !.returned = TRUE]
  <2>0. r.supervisor \notin {"none", "publishing"} /\ (r.background \/ r.status # "running")
    BY <1>0, <1>2, Here DEF CanPersist, Unlocked, Good, CallTrue
  <2>1. /\ s \in Execution /\ Good(s, c, request[t], report[t]) /\ KeepsEnd(r, s)
        /\ s.status = r.status /\ s.supervisor = r.supervisor /\ s.background = r.background
    BY <2>0, Here, PersistedGood
  <2>2. task' = [task EXCEPT ![t] = s] /\ call' = [call EXCEPT ![t] = d]
    BY <1>2
  <2>3. d \in ShellCall /\ d.pc = "reporting" /\ d.returned
    BY Here DEF ShellCall
  <2> HIDE DEF s, d
  <2>4. Waits(d)
    BY <2>3 DEF Waits
  <2>5. Good(s, d, request[t], report[t])
    BY <1>0, <2>0, <2>1, <2>3, <2>4, Here, CallMoves
  <2> QED BY <1>0, <2>1, <2>2, <2>3, <2>5, CallAndTask DEF CallOnly
<1> QED BY <1>1, <1>2 DEF Persist

-----------------------------------------------------------------------------
(* Steps of the report. *)

\* A step of those who notify, and the report.
LEMMA ReportMoves ==
  ASSUME ShellInv, NEW t \in Task, NEW s \in Execution, NEW c \in ShellCall,
         NEW q \in RequestState, NEW p \in Reporting, Moved(t, s, c, q, p),
         Good(s, c, q, p), KeepsEnd(task[t], s), s.status = task[t].status,
         s.supervisor = task[t].supervisor, UNCHANGED <<registered, life>>
  PROVE  ShellInv' /\ EndsKept
BY Here, OneTask

\* The end is claimed by one of those who notify.
LEMMA ClaimedFields ==
  ASSUME NEW p \in Reporting
  PROVE  LET e == Claimed(p)
         IN  /\ e \in Reporting /\ e.claimed /\ e.marker = p.marker /\ e.finished = p.finished
             /\ e.worker = p.worker
BY DEF Claimed, Reporting

\* The call claims the report, or finds it claimed.
LEMMA NotifyKeeps ==
  ASSUME ShellInv, NEW t \in Task, Notify(t), life' = life
  PROVE  ShellInv' /\ EndsKept
<1> DEFINE r == task[t]  c == call[t]  q == request[t]  p == report[t]
<1>0. /\ c.pc = "reporting" /\ UNCHANGED <<registered, task, request>>
      /\ task' = [task EXCEPT ![t] = r] /\ request' = [request EXCEPT ![t] = q]
      /\ KeepsEnd(r, r) /\ Good(r, c, q, p)
  BY Here DEF Notify, task_vars, ShellInv, ShellShape, KeepsEnd
<1>1. CASE ~ p.claimed /\ To(t, "claiming") /\ report' = [report EXCEPT ![t] = Claimed(@)]
  <2> DEFINE d == Going(c, "claiming")  e == Claimed(p)
  <2>1. d \in ShellCall /\ d.pc = "claiming" /\ d.tool = c.tool /\ d.returned = c.returned
    BY Here, GoingFields
  <2>2. /\ e \in Reporting /\ e.claimed /\ e.marker = p.marker /\ e.finished = p.finished
        /\ e.worker = p.worker
    BY Here, ClaimedFields
  <2>3. call' = [call EXCEPT ![t] = d] /\ report' = [report EXCEPT ![t] = e]
    BY <1>1 DEF To
  <2> HIDE DEF d, e
  <2>4. CallTrue(r, d, q)
    BY <1>0, <2>1 DEF Good, CallTrue, Observed, Waits
  <2>5. ReportTrue(r, d, q, e)
    BY <1>0, <1>1, <2>1, <2>2 DEF Good, CallTrue, ReportTrue, Waits
  <2>6. Good(r, d, q, e)
    BY <1>0, <2>4, <2>5 DEF Good
  <2>7. Moved(t, r, d, q, e)
    BY <1>0, <2>3 DEF Moved
  <2> QED BY <1>0, <2>1, <2>2, <2>6, <2>7, Here, ReportMoves
<1>2. CASE To(t, "done") /\ UNCHANGED report
  <2>1. LET d == Going(c, "done") IN d \in ShellCall /\ Good(r, d, q, p)
    BY <1>0, Here, CallDone
  <2> QED BY <1>0, <1>2, <2>1, CallAlone DEF To
<1> QED BY <1>1, <1>2 DEF Notify

\* What the journalled, or unjournalled, transfer leaves.
LEMMA WatchedFields ==
  ASSUME ShellInv, NEW t \in Task, Watched(t)
  PROVE  \E e \in Reporting : /\ report' = [report EXCEPT ![t] = e] /\ e.worker = "waiting"
                             /\ e.claimed = report[t].claimed /\ e.finished = report[t].finished
<1> DEFINE p == report[t]  e == [p EXCEPT !.marker = TRUE, !.worker = "waiting"]
           f == [p EXCEPT !.worker = "waiting"]
<1>1. /\ e \in Reporting /\ f \in Reporting /\ e.worker = "waiting" /\ f.worker = "waiting"
      /\ e.claimed = p.claimed /\ f.claimed = p.claimed /\ e.finished = p.finished
      /\ f.finished = p.finished
  BY Here DEF Reporting
<1>2. report' = [report EXCEPT ![t] = e] \/ report' = [report EXCEPT ![t] = f]
  BY DEF Watched
<1> HIDE DEF e, f
<1> QED BY <1>1, <1>2

\* The call's worker begins to wait.
LEMMA WatchKeeps ==
  ASSUME ShellInv, NEW t \in Task, Watch(t), life' = life
  PROVE  ShellInv' /\ EndsKept
<1> DEFINE r == task[t]  c == call[t]  q == request[t]  p == report[t]  d == Going(c, "done")
<1>0. /\ c.pc = "claiming" /\ UNCHANGED <<registered, task, request>>
      /\ task' = [task EXCEPT ![t] = r] /\ request' = [request EXCEPT ![t] = q]
      /\ KeepsEnd(r, r) /\ Good(r, c, q, p) /\ call' = [call EXCEPT ![t] = d]
  BY Here DEF Watch, To, ShellInv, ShellShape, KeepsEnd
<1>1. PICK e \in Reporting : /\ report' = [report EXCEPT ![t] = e] /\ e.worker = "waiting"
                             /\ e.claimed = p.claimed /\ e.finished = p.finished
  BY WatchedFields DEF Watch
<1>2. d \in ShellCall /\ Good(r, d, q, p) /\ d.pc = "done"
  BY <1>0, Here, CallDone, GoingFields
<1> HIDE DEF d
<1>3. Good(r, d, q, e)
  <2>1. r.supervisor # "none"
    BY <1>0 DEF Good, CallTrue, Waits
  <2> QED BY <1>0, <1>1, <1>2, <2>1 DEF Good, ReportTrue
<1>4. Moved(t, r, d, q, e)
  BY <1>0, <1>1 DEF Moved
<1> QED BY <1>0, <1>1, <1>2, <1>3, <1>4, Here, ReportMoves

\* The request records the task, and claims the report or finds it claimed.
LEMMA RequestPersistsKeeps ==
  ASSUME ShellInv, NEW t \in Task, RequestPersists(t), life' = life
  PROVE  ShellInv' /\ EndsKept
<1> DEFINE r == task[t]  c == call[t]  p == report[t]
<1>0. /\ request[t] = "persisting" /\ UNCHANGED <<registered, call>>
      /\ call' = [call EXCEPT ![t] = c] /\ KeepsEnd(r, r) /\ Good(r, c, "persisting", p)
      /\ r.supervisor # "none" /\ "persisting" \in RequestState /\ "done" \in RequestState
      /\ "claiming" \in RequestState
  BY Here DEF RequestPersists, ShellInv, ShellShape, KeepsEnd, RequestState, Good, CallTrue
<1>1. CASE UNCHANGED <<task, report>> /\ request' = [request EXCEPT ![t] = "done"]
  <2>1. Good(r, c, "done", p)
    BY <1>0 DEF Good, CallTrue, ReportTrue
  <2>2. Moved(t, r, c, "done", p)
    BY <1>0, <1>1 DEF Moved, ShellInv, ShellShape
  <2> QED BY <1>0, <2>1, <2>2, Here, ReportMoves
<1>2. CASE /\ CanPersist(t) /\ task' = [task EXCEPT ![t] = Persisted(@)]
           /\ request' = [request EXCEPT ![t] = "done"] /\ UNCHANGED report
  <2> DEFINE s == Persisted(r)
  <2>1. /\ s \in Execution /\ Good(s, c, "persisting", p) /\ KeepsEnd(r, s)
        /\ s.supervisor = r.supervisor /\ s.status = r.status
    BY <1>0, <1>2, Here, PersistedGood DEF CanPersist, Unlocked
  <2>2. Moved(t, s, c, "done", p)
    BY <1>0, <1>2 DEF Moved, ShellInv, ShellShape
  <2> HIDE DEF s
  <2>3. Good(s, c, "done", p)
    BY <2>1 DEF Good, CallTrue, ReportTrue
  <2> QED BY <1>0, <2>1, <2>2, <2>3, Here, ReportMoves
<1>3. CASE /\ CanPersist(t) /\ task' = [task EXCEPT ![t] = Persisted(@)] /\ ~ p.claimed
           /\ request' = [request EXCEPT ![t] = "claiming"]
           /\ report' = [report EXCEPT ![t] = Claimed(@)]
  <2> DEFINE s == Persisted(r)  e == Claimed(p)
  <2>1. /\ s \in Execution /\ Good(s, c, "persisting", p) /\ KeepsEnd(r, s)
        /\ s.supervisor = r.supervisor /\ s.status = r.status
    BY <1>0, <1>3, Here, PersistedGood DEF CanPersist, Unlocked
  <2>2. Moved(t, s, c, "claiming", e)
    BY <1>0, <1>3 DEF Moved
  <2>3. /\ e \in Reporting /\ e.claimed /\ e.marker = p.marker /\ e.finished = p.finished
        /\ e.worker = p.worker
    BY Here, ClaimedFields
  <2> HIDE DEF s, e
  <2>4. CallTrue(s, c, "claiming")
    BY <1>0, <2>1 DEF Good, CallTrue
  <2>5. ReportTrue(s, c, "claiming", e)
    BY <1>0, <1>3, <2>1, <2>3 DEF Good, CallTrue, ReportTrue
  <2>6. Good(s, c, "claiming", e)
    BY <2>1, <2>4, <2>5 DEF Good
  <2> QED BY <1>0, <2>1, <2>2, <2>3, <2>6, Here, ReportMoves
<1> QED BY <1>1, <1>2, <1>3 DEF RequestPersists

\* The request's worker begins to wait.
LEMMA RequestWatchesKeeps ==
  ASSUME ShellInv, NEW t \in Task, RequestWatches(t), life' = life
  PROVE  ShellInv' /\ EndsKept
<1> DEFINE r == task[t]  c == call[t]  p == report[t]
<1>0. /\ request[t] = "claiming" /\ UNCHANGED <<registered, task, call>>
      /\ task' = [task EXCEPT ![t] = r] /\ call' = [call EXCEPT ![t] = c]
      /\ request' = [request EXCEPT ![t] = "done"] /\ "done" \in RequestState
      /\ KeepsEnd(r, r) /\ Good(r, c, "claiming", p)
  BY Here DEF RequestWatches, ShellInv, ShellShape, KeepsEnd, RequestState
<1>1. PICK e \in Reporting : /\ report' = [report EXCEPT ![t] = e] /\ e.worker = "waiting"
                             /\ e.claimed = p.claimed /\ e.finished = p.finished
  BY WatchedFields DEF RequestWatches
<1>2. CallTrue(r, c, "done")
  BY <1>0 DEF Good, CallTrue
<1>3. ReportTrue(r, c, "done", e)
  BY <1>0, <1>1 DEF Good, CallTrue, ReportTrue
<1>4. Good(r, c, "done", e)
  BY <1>0, <1>2, <1>3 DEF Good
<1>5. Moved(t, r, c, "done", e)
  BY <1>0, <1>1 DEF Moved
<1> QED BY <1>0, <1>1, <1>4, <1>5, Here, ReportMoves

\* The one worker reports the end, or gives up.
LEMMA WorkerReportsKeeps ==
  ASSUME ShellInv, NEW t \in Task, WorkerReports(t), life' = life
  PROVE  ShellInv' /\ EndsKept
<1>z. PICK one \in 0 .. 2 : one = 1
  OBVIOUS
<1> DEFINE r == task[t]  c == call[t]  p == report[t]  q == request[t]
           e == [p EXCEPT !.worker = "done", !.finished = one]
           f == [p EXCEPT !.worker = "stopped"]
<1>0. /\ p.worker = "waiting" /\ UNCHANGED <<registered, task, call, request>>
      /\ task' = [task EXCEPT ![t] = r] /\ call' = [call EXCEPT ![t] = c]
      /\ request' = [request EXCEPT ![t] = q]
      /\ KeepsEnd(r, r) /\ Good(r, c, q, p) /\ p \in Reporting
  BY Here DEF WorkerReports, ShellInv, ShellShape, KeepsEnd
<1>1. p.finished = 0 /\ p.claimed
  BY <1>0 DEF Good, ReportTrue
<1>2. p.finished + 1 = 1
  BY <1>1
<1>3. report' = [report EXCEPT ![t] = e] \/ report' = [report EXCEPT ![t] = f]
  <2>1. PICK n : n = p.finished + 1
    OBVIOUS
  <2>2. \/ report' = [report EXCEPT ![t].worker = "done", ![t].finished = n]
        \/ report' = [report EXCEPT ![t].worker = "stopped"]
    BY <2>1 DEF WorkerReports
  <2> QED BY <1>z, <1>2, <2>1, <2>2
<1>4. /\ e \in Reporting /\ f \in Reporting /\ e.claimed /\ f.claimed /\ e.finished = one
      /\ f.finished = p.finished /\ e.worker = "done" /\ f.worker = "stopped"
  BY <1>0, <1>1 DEF Reporting
<1> HIDE DEF e, f
<1>5. ReportTrue(r, c, q, e) /\ ReportTrue(r, c, q, f)
  BY <1>z, <1>0, <1>1, <1>4 DEF Good, ReportTrue
<1>6. Good(r, c, q, e) /\ Good(r, c, q, f)
  BY <1>0, <1>5 DEF Good
<1>7. Moved(t, r, c, q, e) \/ Moved(t, r, c, q, f)
  BY <1>0, <1>3 DEF Moved
<1> QED BY <1>0, <1>4, <1>6, <1>7, Here, ReportMoves

-----------------------------------------------------------------------------
(* Steps about every task. *)

\* The shutdown interrupts a call.
LEMMA CancelledGood ==
  ASSUME NEW r \in Execution, NEW c \in ShellCall, NEW q \in RequestState, NEW p \in Reporting,
         Good(r, c, q, p), NEW b
  PROVE  LET d == [c EXCEPT !.cancelled = c.cancelled \/ b]
         IN  d \in ShellCall /\ Good(r, d, q, p)
<1> DEFINE d == [c EXCEPT !.cancelled = c.cancelled \/ b]
<1>1. (c.cancelled \/ b) \in BOOLEAN
  OBVIOUS
<1>2. PICK e \in BOOLEAN : d = [c EXCEPT !.cancelled = e]
  BY <1>1
<1>3. d \in ShellCall /\ d.pc = c.pc /\ d.tool = c.tool /\ d.returned = c.returned
  BY <1>2 DEF ShellCall
<1> HIDE DEF d
<1>4. Good(r, d, q, p)
  BY <1>3 DEF Good, CallTrue, ReportTrue, Observed, Waits
<1> QED BY <1>3, <1>4 DEF d

\* The shutdown interrupts every call.
LEMMA BeginShutdownKeeps ==
  ASSUME ShellInv, BeginShutdown
  PROVE  ShellInv' /\ EndsKept
<1>0. /\ UNCHANGED <<registered, task, report, request>> /\ life' # "down"
      /\ call' = [t \in Task |-> [call[t] EXCEPT !.cancelled = @ \/ Heeds(t)]]
  BY DEF BeginShutdown, task_vars
<1>1. ASSUME NEW t \in Task
      PROVE  call'[t] \in ShellCall /\ Good(task[t], call'[t], request[t], report[t])
  <2>1. call'[t] = [call[t] EXCEPT !.cancelled = call[t].cancelled \/ Heeds(t)]
    BY <1>0
  <2> QED BY <2>1, Here, CancelledGood
<1>2. call' \in [Task -> ShellCall]
  BY <1>0, <1>1
<1>3. ShellShape'
  BY <1>0, <1>2 DEF ShellInv, ShellShape
<1>4. EndsKept
  BY <1>0 DEF EndsKept, KeepsEnd
<1> QED BY <1>0, <1>1, <1>3, <1>4 DEF ShellInv

\* The shutdown kills every command.
LEMMA StopCommandsKeeps ==
  ASSUME ShellInv, StopCommands
  PROVE  ShellInv' /\ EndsKept
<1>0. /\ UNCHANGED <<registered, call, report, request>> /\ life' # "down"
      /\ task' = [t \in Task |->
                    IF t \in registered THEN Terminated(task[t], "force") ELSE task[t]]
  BY DEF StopCommands, CloseRegistry, call_vars
<1>1. ASSUME NEW t \in Task
      PROVE  /\ task'[t] \in Execution /\ task'[t].status = task[t].status
             /\ Good(task'[t], call[t], request[t], report[t]) /\ KeepsEnd(task[t], task'[t])
  <2>1. MoreKills(task[t], task'[t])
    BY <1>0, Here, NoKills, SentMore
  <2>2. task'[t] \in Execution /\ task'[t].status = task[t].status
    BY <2>1 DEF MoreKills
  <2> QED BY <2>1, <2>2, Here, MoreKillsGood
<1>2. task' \in [Task -> Execution]
  BY <1>0, <1>1
<1>3. ShellShape'
  BY <1>0, <1>2 DEF ShellInv, ShellShape
<1>4. EndsKept
  BY <1>1 DEF EndsKept
<1>5. \A t \in registered' : task'[t].status # "none"
  BY <1>0, <1>1 DEF ShellInv, ShellShape
<1> QED BY <1>0, <1>1, <1>3, <1>4, <1>5 DEF ShellInv

\* What the end of the server leaves of a task.
LEMMA LostGood ==
  ASSUME NEW r \in Execution, NEW c \in ShellCall, NEW q \in RequestState, NEW p \in Reporting,
         Good(r, c, q, p), NEW under, under <=> Waits(c)
  PROVE  LET s == Lost(r)
             d == [IF under THEN Going(c, "dropped") ELSE c EXCEPT !.hard = "none"]
             o == IF q = "none" THEN "none" ELSE "done"
             e == [p EXCEPT !.claimed = FALSE, !.worker = "none"]
         IN  /\ s \in Execution /\ d \in ShellCall /\ o \in RequestState /\ e \in Reporting
             /\ Good(s, d, o, e) /\ KeepsEnd(r, s) /\ s.supervisor = "none"
<1> DEFINE s == Lost(r)  k == IF under THEN Going(c, "dropped") ELSE c
           d == [k EXCEPT !.hard = "none"]
           o == IF q = "none" THEN "none" ELSE "done"
           e == [p EXCEPT !.claimed = FALSE, !.worker = "none"]
<1>1. /\ s \in Execution /\ s.status = "none" /\ s.background = FALSE /\ s.supervisor = "none"
      /\ s.process = r.process /\ s.record = r.record
  BY DEF Lost, Unborn, Execution
<1>2. k \in ShellCall /\ ~ Waits(k) /\ (k.pc \in {"none", "refused"} => k = c)
  BY GoingFields DEF Waits
<1> HIDE DEF k
<1>3. d \in ShellCall /\ d.pc = k.pc /\ d.returned = k.returned
  BY <1>2 DEF ShellCall
<1>4. o \in {"none", "done"} /\ o \in RequestState
  BY DEF RequestState
<1>5. /\ e \in Reporting /\ ~ e.claimed /\ e.worker = "none" /\ e.marker = p.marker
      /\ e.finished = p.finished
  BY DEF Reporting
<1> HIDE DEF s, d, o, e
<1>6. TaskTrue(s) /\ KeepsEnd(r, s)
  BY <1>1 DEF Good, TaskTrue, KeepsEnd
<1>7. CallTrue(s, d, o)
  BY <1>1, <1>2, <1>3, <1>4 DEF Good, CallTrue, Observed, Waits
<1>8. ReportTrue(s, d, o, e)
  BY <1>1, <1>2, <1>3, <1>4, <1>5 DEF Good, ReportTrue, Waits
<1>9. Good(s, d, o, e)
  BY <1>6, <1>7, <1>8 DEF Good
<1> QED BY <1>1, <1>3, <1>4, <1>5, <1>6, <1>9 DEF s, k, d, o, e

\* The server ends, or the session is unloaded: whatever was under way is gone.
LEMMA MemoryLostKeeps ==
  ASSUME ShellInv, MemoryLost
  PROVE  ShellInv' /\ EndsKept
<1>0. /\ registered' = {}
      /\ task' = [t \in Task |-> Lost(task[t])]
      /\ call' = [t \in Task |->
                   [IF Pending(t) THEN Going(call[t], "dropped") ELSE call[t] EXCEPT !.hard = "none"]]
      /\ report' = [t \in Task |-> [report[t] EXCEPT !.claimed = FALSE, !.worker = "none"]]
      /\ request' = [t \in Task |-> IF request[t] = "none" THEN "none" ELSE "done"]
  BY DEF MemoryLost, TasksLost
<1>1. ASSUME NEW t \in Task
      PROVE  /\ task'[t] \in Execution /\ call'[t] \in ShellCall /\ request'[t] \in RequestState
             /\ report'[t] \in Reporting /\ Good(task'[t], call'[t], request'[t], report'[t])
             /\ KeepsEnd(task[t], task'[t]) /\ task'[t].supervisor = "none"
  <2>1. Pending(t) <=> Waits(call[t])
    BY DEF Pending, Waits
  <2>2. /\ task'[t] = Lost(task[t])
        /\ call'[t] = [IF Pending(t) THEN Going(call[t], "dropped") ELSE call[t]
                       EXCEPT !.hard = "none"]
        /\ report'[t] = [report[t] EXCEPT !.claimed = FALSE, !.worker = "none"]
        /\ request'[t] = IF request[t] = "none" THEN "none" ELSE "done"
    BY <1>0
  <2> DEFINE s == Lost(task[t])
             d == [IF Pending(t) THEN Going(call[t], "dropped") ELSE call[t] EXCEPT !.hard = "none"]
             o == IF request[t] = "none" THEN "none" ELSE "done"
             e == [report[t] EXCEPT !.claimed = FALSE, !.worker = "none"]
  <2>3. /\ s \in Execution /\ d \in ShellCall /\ o \in RequestState /\ e \in Reporting
        /\ Good(s, d, o, e) /\ KeepsEnd(task[t], s) /\ s.supervisor = "none"
    BY <2>1, Here, LostGood
  <2>4. task'[t] = s /\ call'[t] = d /\ request'[t] = o /\ report'[t] = e
    BY <2>2
  <2> HIDE DEF s, d, o, e
  <2> QED BY <2>3, <2>4
<1>2. ShellShape'
  BY <1>0, <1>1 DEF ShellShape
<1> QED BY <1>0, <1>1, <1>2 DEF ShellInv, EndsKept

\* What the opening of the session makes of a task that was recorded.
LEMMA RestoredGood ==
  ASSUME NEW r \in Execution, NEW c \in ShellCall, NEW q \in RequestState, NEW p \in Reporting,
         Good(r, c, q, p), r.supervisor = "none", r.record \notin {"absent", "removed"}
  PROVE  LET s == Restored(r)
         IN  /\ s \in Execution /\ Good(s, c, q, p) /\ KeepsEnd(r, s) /\ s.status # "none"
             /\ s.supervisor = "none"
<1> DEFINE settled == IF r.record = "running" THEN "interrupted" ELSE r.record
           s == [r EXCEPT !.status = settled, !.record = settled, !.background = TRUE]
<1>0. settled \in Ended /\ (r.record \in Ended => settled = r.record)
      /\ (settled \in {"exited", "killed"} => r.record \in {"exited", "killed"})
  BY DEF Execution, Ended
<1> HIDE DEF settled
<1>1. /\ s \in Execution /\ s.status = settled /\ s.record = settled /\ s.supervisor = "none"
      /\ s.process = r.process
  BY <1>0 DEF Execution
<1> HIDE DEF s
<1>2. settled \notin {"none", "running"}
  BY <1>0 DEF Ended
<1>3. TaskTrue(s) /\ KeepsEnd(r, s)
  BY <1>0, <1>1, <1>2 DEF Good, TaskTrue, KeepsEnd
<1>4. CallTrue(s, c, q)
  BY <1>1 DEF Good, CallTrue, Observed, Waits
<1>5. ReportTrue(s, c, q, p)
  BY <1>1 DEF Good, ReportTrue
<1> QED BY <1>1, <1>2, <1>3, <1>4, <1>5 DEF Good, Restored, s, settled

\* What the opening of the session makes of a report.
LEMMA RecoveredGood ==
  ASSUME NEW r \in Execution, NEW c \in ShellCall, NEW q \in RequestState, NEW p \in Reporting,
         Good(r, c, q, p), r.supervisor = "none"
  PROVE  LET e == Recovered(p) IN e \in Reporting /\ Good(r, c, q, e)
<1>1. CASE ~ (p.marker /\ p.finished = 0)
  BY <1>1 DEF Recovered
<1>2. CASE p.marker /\ p.finished = 0
  <2>1. PICK one \in 0 .. 2 : one = 1
    OBVIOUS
  <2> DEFINE e == [p EXCEPT !.finished = one]
  <2>2. /\ e \in Reporting /\ e.claimed = p.claimed /\ e.marker = p.marker /\ e.finished = one
        /\ e.worker = p.worker
    BY DEF Reporting
  <2>3. e = Recovered(p)
    BY <1>2, <2>1 DEF Recovered
  <2> HIDE DEF e
  <2>4. ReportTrue(r, c, q, e)
    BY <1>2, <2>1, <2>2 DEF Good, CallTrue, ReportTrue, Waits
  <2> QED BY <2>2, <2>3, <2>4 DEF Good
<1> QED BY <1>1, <1>2

\* The session is opened again, from the records and the journal.
LEMMA ReopenKeeps ==
  ASSUME ShellInv, Reopen
  PROVE  ShellInv' /\ EndsKept
<1>0. /\ registered' = Recorded /\ UNCHANGED <<call, request>> /\ life = "down" /\ life' = "open"
      /\ task' = [t \in Task |-> IF t \in Recorded THEN Restored(task[t]) ELSE task[t]]
      /\ report' = [t \in Task |-> Recovered(report[t])]
  BY DEF Reopen, TasksRestored
<1>1. ASSUME NEW t \in Task
      PROVE  /\ task'[t] \in Execution /\ report'[t] \in Reporting
             /\ Good(task'[t], call[t], request[t], report'[t]) /\ KeepsEnd(task[t], task'[t])
             /\ t \in Recorded => task'[t].status # "none"
  <2> DEFINE s == task'[t]
  <2>1. /\ s \in Execution /\ Good(s, call[t], request[t], report[t]) /\ KeepsEnd(task[t], s)
        /\ (t \in Recorded => s.status # "none") /\ s.supervisor = "none"
    <3>1. CASE t \in Recorded
      <4>1. task[t].record \notin {"absent", "removed"} /\ s = Restored(task[t])
        BY <1>0, <3>1 DEF Recorded
      <4> HIDE DEF s
      <4> QED BY <1>0, <4>1, Here, RestoredGood
    <3>2. CASE t \notin Recorded
      <4>1. s = task[t]
        BY <1>0, <3>2
      <4> QED BY <1>0, <3>2, <4>1, Here DEF KeepsEnd
    <3> QED BY <3>1, <3>2
  <2>2. report'[t] = Recovered(report[t])
    BY <1>0
  <2> HIDE DEF s
  <2>3. report'[t] \in Reporting /\ Good(s, call[t], request[t], report'[t])
    BY <2>1, <2>2, Here, RecoveredGood
  <2> QED BY <2>1, <2>3 DEF s
<1>2. ShellShape'
  BY <1>0, <1>1 DEF ShellInv, ShellShape, Recorded
<1>3. \A t \in registered' : task'[t].status # "none"
  BY <1>0, <1>1 DEF Recorded
<1> QED BY <1>0, <1>1, <1>2, <1>3 DEF ShellInv, EndsKept

-----------------------------------------------------------------------------
(* Questions. *)

\* A step about one question, which may cost others their forms.
LEMMA OneQuestion ==
  ASSUME AskInv, NEW q \in Question, NEW w \in QuestionCall, NEW g \in SUBSET Delivery,
         wait' = [wait EXCEPT ![q] = w], given' = [given EXCEPT ![q] = g],
         form' \in [Question -> FormState], AskTrue(form'[q], w, g),
         \A p \in Question \ {q} : form'[p] \in {form[p], "none"}
  PROVE  AskInv'
<1>1. AskShape'
  BY DEF AskInv, AskShape
<1>2. ASSUME NEW p \in Question
      PROVE  AskTrue(form'[p], wait'[p], given'[p])
  <2>1. CASE p = q
    BY <2>1 DEF AskInv, AskShape
  <2>2. CASE p # q
    <3>1. wait'[p] = wait[p] /\ given'[p] = given[p] /\ form'[p] \in {form[p], "none"}
      BY <2>2 DEF AskInv, AskShape
    <3>2. AskTrue(form[p], wait[p], given[p])
      BY DEF AskInv
    <3> QED BY <3>1, <3>2 DEF AskTrue
  <2> QED BY <2>1, <2>2
<1> QED BY <1>1, <1>2 DEF AskInv

\* What holds of one question.
LEMMA HereAsked ==
  ASSUME AskInv, NEW q \in Question
  PROVE  /\ form[q] \in FormState /\ wait[q] \in QuestionCall /\ given[q] \in SUBSET Delivery
         /\ AskTrue(form[q], wait[q], given[q]) /\ form \in [Question -> FormState]
         /\ wait \in [Question -> QuestionCall] /\ given \in [Question -> SUBSET Delivery]
         /\ given = [given EXCEPT ![q] = given[q]]
BY DEF AskInv, AskShape

\* A form is refused.
LEMMA RefuseFormKeeps ==
  ASSUME AskInv, NEW q \in Question, RefuseForm(q)
  PROVE  AskInv'
<1> DEFINE v == [wait[q] EXCEPT !.pc = "done", !.outcome = "failed"]
<1>1. v \in QuestionCall /\ v.pc = "done" /\ v.outcome = "failed"
  BY HereAsked DEF QuestionCall, Outcome
<1>2. /\ wait' = [wait EXCEPT ![q] = v] /\ UNCHANGED <<form, given>> /\ wait[q].pc = "none"
  BY DEF RefuseForm, Returns
<1> HIDE DEF v
<1>3. AskTrue(form[q], v, given[q])
  BY <1>1, <1>2, HereAsked DEF AskTrue
<1> QED BY <1>1, <1>2, <1>3, HereAsked, OneQuestion

\* A form is opened, at the cost perhaps of another.
LEMMA AskKeeps ==
  ASSUME AskInv, NEW q \in Question, Ask(q)
  PROVE  AskInv'
<1>1. PICK timeout \in BOOLEAN :
        wait' = [wait EXCEPT ![q].pc = "waiting", ![q].timeout = timeout]
  BY DEF Ask
<1> DEFINE v == [wait[q] EXCEPT !.pc = "waiting", !.timeout = timeout]
<1>2. v \in QuestionCall /\ v.pc = "waiting" /\ v.replied = wait[q].replied
  BY HereAsked DEF QuestionCall
<1>3. wait' = [wait EXCEPT ![q] = v] /\ wait[q].pc = "none" /\ given' = given
  BY <1>1 DEF Ask
<1>4. /\ form' \in [Question -> FormState] /\ form'[q] = "open"
      /\ \A p \in Question \ {q} : form'[p] \in {form[p], "none"}
  BY HereAsked DEF Ask, FormState
<1> HIDE DEF v
<1>5. AskTrue(form'[q], v, given[q])
  BY <1>2, <1>3, <1>4, HereAsked DEF AskTrue
<1> QED BY <1>2, <1>3, <1>4, <1>5, HereAsked, OneQuestion

\* The call of one question moves, and its form stays or is closed.
LEMMA CallOfQuestion ==
  ASSUME AskInv, NEW q \in Question, NEW v \in QuestionCall, NEW f \in FormState,
         wait' = [wait EXCEPT ![q] = v], form' = [form EXCEPT ![q] = f], given' = given,
         AskTrue(f, v, given[q])
  PROVE  AskInv'
<1>1. /\ form' \in [Question -> FormState] /\ form'[q] = f
      /\ \A p \in Question \ {q} : form'[p] \in {form[p], "none"}
  BY HereAsked
<1> QED BY <1>1, HereAsked, OneQuestion

\* The call is cancelled, and has not seen it.
LEMMA CancelQuestionKeeps ==
  ASSUME AskInv, NEW q \in Question, CancelQuestion(q)
  PROVE  AskInv'
<1> DEFINE v == [wait[q] EXCEPT !.cancelled = TRUE]
<1>1. /\ v \in QuestionCall /\ v.pc = wait[q].pc /\ v.replied = wait[q].replied
      /\ v.outcome = wait[q].outcome
  BY HereAsked DEF QuestionCall
<1>2. wait' = [wait EXCEPT ![q] = v] /\ given' = given /\ form' = [form EXCEPT ![q] = form[q]]
  BY HereAsked DEF CancelQuestion
<1> HIDE DEF v
<1>3. AskTrue(form[q], v, given[q])
  BY <1>1, HereAsked DEF AskTrue
<1> QED BY <1>1, <1>2, <1>3, HereAsked, CallOfQuestion

\* The call sees the answer.
LEMMA SeeReplyKeeps ==
  ASSUME AskInv, NEW q \in Question, SeeReply(q)
  PROVE  AskInv'
<1> DEFINE v == [wait[q] EXCEPT !.pc = "leaving", !.outcome = wait[q].replied]
<1>0. wait[q].replied \in Outcome
  BY HereAsked DEF QuestionCall, Outcome
<1>1. /\ v \in QuestionCall /\ v.pc = "leaving" /\ v.replied = wait[q].replied
      /\ v.outcome = wait[q].replied
  BY <1>0, HereAsked DEF QuestionCall
<1>2. /\ wait' = [wait EXCEPT ![q] = v] /\ given' = given /\ form' = [form EXCEPT ![q] = form[q]]
      /\ wait[q].pc = "waiting" /\ wait[q].replied # "nothing"
  BY HereAsked DEF SeeReply, Leaves
<1> HIDE DEF v
<1>3. AskTrue(form[q], v, given[q])
  BY <1>1, <1>2, HereAsked DEF AskTrue
<1> QED BY <1>1, <1>2, <1>3, HereAsked, CallOfQuestion

\* The timeout finds the reply channel, or the answer that took it.
LEMMA ExpireKeeps ==
  ASSUME AskInv, NEW q \in Question, Expire(q)
  PROVE  AskInv'
<1>0. wait[q].replied \in Outcome /\ wait[q].pc = "waiting" /\ given' = given
  BY HereAsked DEF QuestionCall, Outcome, Expire
<1>1. CASE form[q] = "open"
  <2> DEFINE v == [wait[q] EXCEPT !.pc = "done", !.outcome = "timed_out"]
  <2>1. v \in QuestionCall /\ v.pc = "done" /\ v.outcome = "timed_out"
    BY HereAsked DEF QuestionCall, Outcome
  <2>2. wait' = [wait EXCEPT ![q] = v] /\ form' = [form EXCEPT ![q] = "timed_out"]
    BY <1>1 DEF Expire, Returns
  <2> HIDE DEF v
  <2>3. AskTrue("timed_out", v, given[q]) /\ "timed_out" \in FormState
    BY <1>1, <2>1, HereAsked DEF AskTrue, FormState
  <2> QED BY <1>0, <2>1, <2>2, <2>3, CallOfQuestion
<1>2. CASE form[q] # "open"
  <2> DEFINE v == [wait[q] EXCEPT !.pc = "leaving", !.outcome = wait[q].replied]
  <2>1. /\ v \in QuestionCall /\ v.pc = "leaving" /\ v.replied = wait[q].replied
        /\ v.outcome = wait[q].replied
    BY <1>0, HereAsked DEF QuestionCall
  <2>2. wait' = [wait EXCEPT ![q] = v] /\ form' = [form EXCEPT ![q] = form[q]]
    BY <1>2, HereAsked DEF Expire, Leaves
  <2> HIDE DEF v
  <2>3. AskTrue(form[q], v, given[q])
    BY <1>0, <1>2, <2>1, HereAsked DEF AskTrue
  <2> QED BY <1>0, <2>1, <2>2, <2>3, HereAsked, CallOfQuestion
<1> QED BY <1>1, <1>2

\* The call sees that it is cancelled, and no answer.
LEMMA SeeCancelledKeeps ==
  ASSUME AskInv, NEW q \in Question, SeeCancelled(q)
  PROVE  AskInv'
<1> DEFINE v == [wait[q] EXCEPT !.pc = "leaving", !.outcome = "cancelled"]
<1>1. /\ v \in QuestionCall /\ v.pc = "leaving" /\ v.replied = wait[q].replied
      /\ v.outcome = "cancelled"
  BY HereAsked DEF QuestionCall, Outcome
<1>2. /\ wait' = [wait EXCEPT ![q] = v] /\ given' = given /\ form' = [form EXCEPT ![q] = form[q]]
      /\ wait[q].pc = "waiting" /\ wait[q].replied = "nothing"
  BY HereAsked DEF SeeCancelled, Leaves
<1> HIDE DEF v
<1>3. AskTrue(form[q], v, given[q])
  BY <1>1, <1>2, HereAsked DEF AskTrue
<1> QED BY <1>1, <1>2, <1>3, HereAsked, CallOfQuestion

\* The call closes its form.
LEMMA LeaveKeeps ==
  ASSUME AskInv, NEW q \in Question, Leave(q)
  PROVE  AskInv'
<1> DEFINE v == [wait[q] EXCEPT !.pc = "done", !.outcome = wait[q].outcome]
<1>0. wait[q].outcome \in Outcome
  BY HereAsked DEF QuestionCall
<1>1. /\ v \in QuestionCall /\ v.pc = "done" /\ v.replied = wait[q].replied
      /\ v.outcome = wait[q].outcome
  BY <1>0, HereAsked DEF QuestionCall
<1>2. /\ wait' = [wait EXCEPT ![q] = v] /\ given' = given /\ form' = [form EXCEPT ![q] = "none"]
      /\ wait[q].pc = "leaving"
  BY DEF Leave, Returns, Close
<1> HIDE DEF v
<1>3. AskTrue("none", v, given[q]) /\ "none" \in FormState
  BY <1>1, <1>2, HereAsked DEF AskTrue, FormState
<1> QED BY <1>1, <1>2, <1>3, CallOfQuestion

\* The future of the call is dropped.
LEMMA DropQuestionKeeps ==
  ASSUME AskInv, NEW q \in Question, DropQuestion(q)
  PROVE  AskInv'
<1> DEFINE v == [wait[q] EXCEPT !.pc = "done", !.outcome = "cancelled"]
<1>1. v \in QuestionCall /\ v.pc = "done" /\ v.outcome = "cancelled"
  BY HereAsked DEF QuestionCall, Outcome
<1>2. /\ wait' = [wait EXCEPT ![q] = v] /\ given' = given /\ form' = [form EXCEPT ![q] = "none"]
      /\ wait[q].pc \in {"waiting", "leaving"}
  BY DEF DropQuestion, Returns, Close
<1> HIDE DEF v
<1>3. AskTrue("none", v, given[q]) /\ "none" \in FormState
  BY <1>1, <1>2, HereAsked DEF AskTrue, FormState
<1> QED BY <1>1, <1>2, <1>3, CallOfQuestion

\* The answer takes the reply channel.
LEMMA AnswerNowKeeps ==
  ASSUME AskInv, NEW q \in Question, AnswerNow(q)
  PROVE  AskInv'
<1>1. PICK reply \in {"answers", "skip"} :
        wait' = [wait EXCEPT ![q].replied = reply] /\ Says(q, "now")
  BY DEF AnswerNow
<1> DEFINE v == [wait[q] EXCEPT !.replied = reply]
<1>2. /\ v \in QuestionCall /\ v.pc = wait[q].pc /\ v.replied = reply
      /\ v.outcome = wait[q].outcome
  BY HereAsked DEF QuestionCall
<1>3. /\ wait' = [wait EXCEPT ![q] = v] /\ given' = [given EXCEPT ![q] = given[q] \cup {"now"}]
      /\ form' = [form EXCEPT ![q] = "answered"] /\ form[q] = "open"
  BY <1>1 DEF AnswerNow, Says
<1>4. given[q] = {} /\ given[q] \cup {"now"} = {"now"}
  BY <1>3, HereAsked DEF AskTrue
<1>5. /\ form' \in [Question -> FormState] /\ form'[q] = "answered"
      /\ \A p \in Question \ {q} : form'[p] \in {form[p], "none"}
  BY <1>3, HereAsked DEF FormState
<1> HIDE DEF v
<1>6. AskTrue("answered", v, {"now"}) /\ {"now"} \in SUBSET Delivery
  BY <1>2, <1>3, HereAsked DEF AskTrue, Delivery
<1> QED BY <1>2, <1>3, <1>4, <1>5, <1>6, OneQuestion

\* The answer to a form that timed out follows as a message.
LEMMA AnswerLateKeeps ==
  ASSUME AskInv, NEW q \in Question, AnswerLate(q)
  PROVE  AskInv'
<1>1. PICK how \in {"later", "dropped", "error"} : given' = [given EXCEPT ![q] = @ \cup {how}]
  BY DEF AnswerLate, Says
<1>2. /\ wait' = [wait EXCEPT ![q] = wait[q]] /\ form' = [form EXCEPT ![q] = "none"]
      /\ form[q] = "timed_out"
  BY HereAsked DEF AnswerLate, Close
<1>3. given[q] = {} /\ given[q] \cup {how} = {how}
  BY <1>2, HereAsked DEF AskTrue
<1>4. given' = [given EXCEPT ![q] = {how}]
  BY <1>1, <1>3
<1>5. /\ form' \in [Question -> FormState] /\ form'[q] = "none"
      /\ \A p \in Question \ {q} : form'[p] \in {form[p], "none"}
  BY <1>2, HereAsked DEF FormState
<1>6. AskTrue("none", wait[q], {how}) /\ {how} \in SUBSET Delivery
  BY <1>2, HereAsked DEF AskTrue, Delivery
<1> QED BY <1>2, <1>4, <1>5, <1>6, HereAsked, OneQuestion

\* The forms are gone with the process.
LEMMA FormsLostKeeps ==
  ASSUME AskInv, FormsLost
  PROVE  AskInv'
<1>0. /\ form' = [q \in Question |-> "none"] /\ given' = given
      /\ wait' = [q \in Question |->
                    IF wait[q].pc \in {"waiting", "leaving"}
                    THEN [wait[q] EXCEPT !.pc = "done", !.outcome = "cancelled"] ELSE wait[q]]
  BY DEF FormsLost
<1>1. ASSUME NEW q \in Question
      PROVE  wait'[q] \in QuestionCall /\ AskTrue("none", wait'[q], given[q])
  <2>1. CASE wait[q].pc \in {"waiting", "leaving"}
    <3> DEFINE v == [wait[q] EXCEPT !.pc = "done", !.outcome = "cancelled"]
    <3>1. v \in QuestionCall /\ v.pc = "done" /\ v.outcome = "cancelled"
      BY HereAsked DEF QuestionCall, Outcome
    <3>2. wait'[q] = v
      BY <1>0, <2>1
    <3> HIDE DEF v
    <3> QED BY <2>1, <3>1, <3>2, HereAsked DEF AskTrue
  <2>2. CASE wait[q].pc \notin {"waiting", "leaving"}
    BY <1>0, <2>2, HereAsked DEF AskTrue
  <2> QED BY <2>1, <2>2
<1>2. AskShape'
  BY <1>0, <1>1 DEF AskInv, AskShape, FormState
<1> QED BY <1>0, <1>1, <1>2 DEF AskInv

\* The shutdown interrupts every waiting call.
LEMMA InterruptKeeps ==
  ASSUME AskInv, BeginShutdown
  PROVE  AskInv'
<1>0. /\ form' = form /\ given' = given
      /\ wait' = [q \in Question |-> [wait[q] EXCEPT !.cancelled = @ \/ wait[q].pc = "waiting"]]
  BY DEF BeginShutdown
<1>1. ASSUME NEW q \in Question
      PROVE  wait'[q] \in QuestionCall /\ AskTrue(form[q], wait'[q], given[q])
  <2>1. (wait[q].cancelled \/ wait[q].pc = "waiting") \in BOOLEAN
    OBVIOUS
  <2>2. PICK b \in BOOLEAN : wait'[q] = [wait[q] EXCEPT !.cancelled = b]
    BY <1>0, <2>1
  <2> DEFINE v == [wait[q] EXCEPT !.cancelled = b]
  <2>3. /\ v \in QuestionCall /\ v.pc = wait[q].pc /\ v.replied = wait[q].replied
        /\ v.outcome = wait[q].outcome
    BY HereAsked DEF QuestionCall
  <2> HIDE DEF v
  <2>4. AskTrue(form[q], v, given[q])
    BY <2>3, HereAsked DEF AskTrue
  <2> QED BY <2>2, <2>3, <2>4 DEF v
<1>2. AskShape'
  BY <1>0, <1>1 DEF AskInv, AskShape
<1> QED BY <1>0, <1>1, <1>2 DEF AskInv

-----------------------------------------------------------------------------
(* The specification. *)

\* No question moves while a command does.
LEMMA AskUnmoved ==
  ASSUME AskInv, UNCHANGED <<form, wait, given>>
  PROVE  AskInv'
BY DEF AskInv, AskShape

\* No command moves while a question does.
LEMMA ShellUnmoved ==
  ASSUME ShellInv, UNCHANGED <<registered, task, call, report, request, life>>
  PROVE  ShellInv' /\ EndsKept
BY DEF ShellInv, ShellShape, EndsKept, KeepsEnd

\* A step of one task's command, call, request or report.
LEMMA TaskStepKeeps ==
  ASSUME ShellInv, NEW t \in Task,
         \/ ShellCallBegins(t) \/ UserStep(t) \/ Supervised(t) \/ KillSeen(t) \/ GraceOver(t)
         \/ CallRuns(t) \/ ShellHappens(t) \/ DeadlineFires(t)
  PROVE  ShellInv' /\ EndsKept /\ UNCHANGED <<form, wait, given>>
<1>0. life' = life /\ UNCHANGED <<form, wait, given>>
  BY DEF ShellCallBegins, UserStep, Supervised, KillSeen, GraceOver, CallRuns, ShellHappens,
         DeadlineFires, ShellOnly, ask_vars, life_vars
<1>1. CASE ShellCallBegins(t)
  BY <1>0, <1>1, StartKeeps, RefuseKeeps DEF ShellCallBegins
<1>2. CASE UserStep(t)
  BY <1>0, <1>2, AskBackgroundKeeps, KillTaskKeeps, RemoveTaskKeeps DEF UserStep
<1>3. CASE Supervised(t)
  BY <1>0, <1>3, SupervisorKeeps DEF Supervised
<1>4. CASE KillSeen(t)
  BY <1>0, <1>4, ReceiveKillKeeps DEF KillSeen
<1>5. CASE GraceOver(t)
  BY <1>0, <1>5, GraceEndsKeeps DEF GraceOver
<1>6. CASE CallRuns(t)
  <2>1. CASE CallStep(t)
    BY <1>0, <2>1, SeeCancellationKeeps, SeeExitKeeps, SeeBackgroundKeeps, YieldKeeps, ReadKeeps,
       SettleKeeps, PersistKeeps, NotifyKeeps, WatchKeeps DEF CallStep
  <2>2. CASE RequestStep(t)
    BY <1>0, <2>2, RequestPersistsKeeps, RequestWatchesKeeps DEF RequestStep
  <2>3. CASE WorkerReports(t)
    BY <1>0, <2>3, WorkerReportsKeeps
  <2> QED BY <1>6, <2>1, <2>2, <2>3 DEF CallRuns
<1>7. CASE ShellHappens(t)
  BY <1>0, <1>7, CancelCallKeeps, DropCallKeeps, SeeInputKeeps, SoftTimeoutKeeps,
     CaptureUnreadableKeeps, CaptureFailsKeeps, ShellExitsKeeps DEF ShellHappens
<1>8. CASE DeadlineFires(t)
  BY <1>0, <1>8, HardDeadlineKeeps DEF DeadlineFires
<1> QED BY <1>0, <1>1, <1>2, <1>3, <1>4, <1>5, <1>6, <1>7, <1>8

\* A step of one question.
LEMMA QuestionStepKeeps ==
  ASSUME AskInv, NEW q \in Question,
         QuestionBegins(q) \/ Answer(q) \/ QuestionRuns(q) \/ QuestionHappens(q)
  PROVE  AskInv' /\ UNCHANGED <<registered, task, call, report, request, life>>
<1>0. UNCHANGED <<registered, task, call, report, request, life>>
  BY DEF QuestionBegins, Answer, QuestionRuns, QuestionHappens, AskOnly, shell_vars, task_vars,
         call_vars, life_vars
<1>1. CASE QuestionBegins(q)
  BY <1>0, <1>1, AskKeeps, RefuseFormKeeps DEF QuestionBegins
<1>2. CASE Answer(q)
  BY <1>0, <1>2, AnswerNowKeeps, AnswerLateKeeps DEF Answer
<1>3. CASE QuestionRuns(q)
  BY <1>0, <1>3, SeeReplyKeeps, SeeCancelledKeeps, LeaveKeeps DEF QuestionRuns, QuestionStep
<1>4. CASE QuestionHappens(q)
  BY <1>0, <1>4, CancelQuestionKeeps, ExpireKeeps, DropQuestionKeeps DEF QuestionHappens
<1> QED BY <1>0, <1>1, <1>2, <1>3, <1>4

\* The inductive invariant holds at first ...
LEMMA ToolsStart ==
  ASSUME ToolsInit
  PROVE  ToolsInv
<1>1. /\ registered = {} /\ life = "open" /\ task = [t \in Task |-> Unborn]
      /\ call = [t \in Task |-> [pc |-> "none", tool |-> "shell", cancelled |-> FALSE,
                                 returned |-> FALSE, hard |-> "none", told |-> "nothing"]]
      /\ report = [t \in Task |-> [claimed |-> FALSE, marker |-> FALSE, finished |-> 0,
                                   worker |-> "none"]]
      /\ request = [t \in Task |-> "none"]
  BY DEF ToolsInit, ShellInit, TaskInit
<1>2. ShellShape
  <2>1. Unborn \in Execution
    BY DEF Unborn, Execution, Ended
  <2> QED BY <1>1, <2>1 DEF ShellShape, ShellCall, Reporting, RequestState
<1>3. ASSUME NEW t \in Task
      PROVE  Good(task[t], call[t], request[t], report[t])
  <2>1. TaskTrue(task[t])
    BY <1>1 DEF TaskTrue, Unborn
  <2>2. CallTrue(task[t], call[t], request[t])
    BY <1>1 DEF CallTrue, Unborn, Waits, Observed
  <2>3. ReportTrue(task[t], call[t], request[t], report[t])
    BY <1>1 DEF ReportTrue, Unborn
  <2> QED BY <2>1, <2>2, <2>3 DEF Good
<1>4. AskShape
  BY DEF ToolsInit, AskInit, AskShape, FormState, QuestionCall, Outcome
<1>5. \A q \in Question : AskTrue(form[q], wait[q], given[q])
  BY DEF ToolsInit, AskInit, AskTrue
<1> QED BY <1>1, <1>2, <1>3, <1>4, <1>5 DEF ToolsInv, ShellInv, AskInv

\* ... and is kept by every step, which leaves the record of an ended task as it is.
LEMMA ToolsStep ==
  ASSUME ToolsInv, [ToolsNext]_tool_vars
  PROVE  ToolsInv' /\ EndsKept
<1> USE DEF ToolsInv
<1>1. ASSUME NEW t \in Task,
             \/ ShellCallBegins(t) \/ UserStep(t) \/ Supervised(t) \/ KillSeen(t) \/ GraceOver(t)
             \/ CallRuns(t) \/ ShellHappens(t) \/ DeadlineFires(t)
      PROVE  ToolsInv' /\ EndsKept
  BY <1>1, TaskStepKeeps, AskUnmoved
<1>2. ASSUME NEW q \in Question,
             QuestionBegins(q) \/ Answer(q) \/ QuestionRuns(q) \/ QuestionHappens(q)
      PROVE  ToolsInv' /\ EndsKept
  BY <1>2, QuestionStepKeeps, ShellUnmoved
<1>3. CASE BeginShutdown
  BY <1>3, BeginShutdownKeeps, InterruptKeeps
<1>4. CASE MemoryLost
  BY <1>4, MemoryLostKeeps, FormsLostKeeps DEF MemoryLost
<1>5. CASE StopCommands
  BY <1>5, StopCommandsKeeps, AskUnmoved DEF StopCommands, ask_vars
<1>6. CASE Reopen
  BY <1>6, ReopenKeeps, AskUnmoved DEF Reopen, ask_vars
<1>7. CASE UNCHANGED tool_vars
  BY <1>7, ShellUnmoved, AskUnmoved
     DEF tool_vars, shell_vars, task_vars, call_vars, ask_vars, life_vars
<1>8. CASE Crash \/ Unload \/ Exit
  BY <1>4, <1>8 DEF Crash, Unload, Exit
<1> QED BY <1>1, <1>2, <1>3, <1>5, <1>6, <1>7, <1>8 DEF ToolsNext, LifeStep

\* The tools are sound in every reachable state.
THEOREM ToolsSafe == ToolsSpec => []ToolsInv
<1>1. ToolsInit => ToolsInv
  BY ToolsStart
<1>2. ToolsInv /\ [ToolsNext]_tool_vars => ToolsInv'
  BY ToolsStep
<1> QED BY <1>1, <1>2, PTL DEF ToolsSpec

\* No command runs unobserved, and none that is said to have ended has left a process behind
\* (Foreground::drop, supervise): for any number of tasks, requests, faults and deaths of the
\* server.
THEOREM CommandsAreWatched == ToolsSpec => []NoStrayProcess
<1>1. ASSUME ToolsInv
      PROVE  NoStrayProcess
  <2> SUFFICES ASSUME NEW t \in Task
               PROVE  /\ Alive(t) /\ task[t].supervisor \in {"opening", "waiting"}
                           => Held(t) \/ task[t].background \/ task[t].kills # {} \/ task[t].grace
                      /\ {task[t].status, task[t].record} \cap {"exited", "killed"} # {}
                           => ~ Alive(t)
    BY DEF NoStrayProcess
  <2>1. Good(task[t], call[t], request[t], report[t])
    BY <1>1, Here DEF ToolsInv
  <2>2. Observed(task[t], call[t]) /\ TaskTrue(task[t])
    BY <2>1 DEF Good, CallTrue
  <2>3. Alive(t) /\ task[t].supervisor \in {"opening", "waiting"}
          => Held(t) \/ task[t].background \/ task[t].kills # {} \/ task[t].grace
    BY <2>2 DEF Observed, Alive, Held, Pending, Waits
  <2>4. {task[t].status, task[t].record} \cap {"exited", "killed"} # {} => ~ Alive(t)
    BY <2>2 DEF TaskTrue, Alive
  <2> QED BY <2>3, <2>4
<1> QED BY <1>1, ToolsSafe, PTL

\* The record of a task that has ended never says again that it runs, whoever writes it last
\* (Execution::persist against the last save of supervise).
THEOREM EndsAreKept == ToolsSpec => EndedForGood
<1>1. ASSUME ToolsInv, [ToolsNext]_tool_vars
      PROVE  \A t \in Task :
               task[t].record \in Ended => task'[t].record \in {task[t].record, "removed"}
  BY <1>1, ToolsStep DEF EndsKept, KeepsEnd
<1> QED BY <1>1, ToolsSafe, PTL DEF ToolsSpec, EndedForGood

\* No end of a command is reported twice, though its call, a request of the user and the opening
\* of the session all report (claim_notification, recover).
THEOREM EndsReportedOnce == ToolsSpec => [](\A t \in Task : report[t].finished < 2)
<1>1. ASSUME ToolsInv
      PROVE  \A t \in Task : report[t].finished < 2
  BY <1>1, Here DEF ToolsInv, Good, ReportTrue
<1> QED BY <1>1, ToolsSafe, PTL

\* An answer arrives exactly once (answer against expire and CloseOnDrop).
THEOREM AnswersDoArrive == ToolsSpec => []AnswersArrive
<1>1. ASSUME ToolsInv
      PROVE  AnswersArrive
  BY <1>1 DEF ToolsInv, AskInv, AskTrue, AnswersArrive
<1> QED BY <1>1, ToolsSafe, PTL
=============================================================================
