------------------------------ MODULE WebServices ------------------------------
(***************************************************************************)
(* Web search and page fetch (application/search.rs, fetch.rs,             *)
(* extensions/shared/read.rs, read_budget.rs).  A question waits for one   *)
(* of a few permits, takes the configuration of that moment, and asks its  *)
(* providers in order, each with retries, until one answers.  The          *)
(* configuration may be replaced and accounts may come and go meanwhile,   *)
(* and the whole question has a time to end in.                            *)
(***************************************************************************)
EXTENDS Naturals, Sequences, FiniteSets

CONSTANTS Question,      \* questions, each asked once
          WebProvider,   \* configured services
          WebConfigs,    \* configurations that are applied, as WebConfig
          WebPermits,    \* read_budget.rs PERMITS
          MaxWebTries    \* attempts at one provider

VARIABLES web,        \* the configuration: the order of the providers and which are on
          signed_in,  \* the providers whose account can be used
          question    \* what each question is doing

web_vars == <<web, signed_in, question>>

\* validate: the order names each provider at most once.
WebOrder ==
  {order \in UNION {[1 .. n -> WebProvider] : n \in 0 .. Cardinality(WebProvider)} :
     \A i, j \in DOMAIN order : order[i] = order[j] => i = j}
WebConfig == [order : WebOrder, on : SUBSET WebProvider]

ASSUME WebAssumption ==
  /\ IsFiniteSet(WebProvider)
  /\ WebConfigs \subseteq WebConfig /\ WebConfigs # {}
  /\ WebPermits \in Nat \ {0} /\ MaxWebTries \in Nat \ {0}

Unanswered == [pc |-> "idle", named |-> {}, accounts |-> {}, state |-> {},
               left |-> <<>>, tries |-> 0, failures |-> <<>>]

\* A question names one provider or none, and has one configuration or none yet.
Named == {{}} \cup {{p} : p \in WebProvider}
Taken == {{}} \cup {{config} : config \in WebConfig}
WebPc == {"idle", "waiting", "asking", "refused", "answered", "failed", "late"}

\* What a question remembers: what it names, the accounts it took along, its
\* configuration, whom it is still to try, and who failed.
Asked ==
  [pc : WebPc, named : Named, accounts : SUBSET WebProvider, state : Taken,
   left : Seq(WebProvider), tries : 0 .. MaxWebTries, failures : Seq(WebProvider)]

WebTypeOK ==
  web \in WebConfig /\ signed_in \subseteq WebProvider /\ question \in [Question -> Asked]

Admitted == {q \in Question : question[q].pc = "asking"}

\* A tool call or a check asks, of every provider or of one it names; it takes
\* the accounts along.
WebAsk(q, named) ==
  /\ question[q].pc = "idle"
  /\ question' = [question EXCEPT ![q].pc = "waiting", ![q].named = named,
                    ![q].accounts = signed_in]
  /\ UNCHANGED <<web, signed_in>>

\* A permit is free, and the question takes the configuration as it is.  One
\* that names a provider which is off is refused.
WebAdmit(q) ==
  /\ question[q].pc = "waiting"
  /\ Cardinality(Admitted) < WebPermits
  /\ question' =
       [question EXCEPT
          ![q].state = {web},
          ![q].pc = IF question[q].named \subseteq web.on THEN "asking" ELSE "refused",
          ![q].left = IF question[q].named = {} THEN web.order
                      ELSE <<CHOOSE p \in question[q].named : TRUE>>]
  /\ UNCHANGED <<web, signed_in>>

TheState(asked) == CHOOSE state \in asked.state : TRUE

\* A provider that is off is passed over.
WebSkip(q) ==
  /\ question[q].pc = "asking"
  /\ question[q].left # <<>>
  /\ Head(question[q].left) \notin TheState(question[q]).on
  /\ question' = [question EXCEPT ![q].left = Tail(@)]
  /\ UNCHANGED <<web, signed_in>>

Asks(q) ==
  /\ question[q].pc = "asking"
  /\ question[q].left # <<>>
  /\ Head(question[q].left) \in TheState(question[q]).on

Usable(q) == Head(question[q].left) \in question[q].accounts

\* An attempt that could succeed if it were made again.
WebRetry(q) ==
  /\ Asks(q) /\ Usable(q)
  /\ question[q].tries + 1 < MaxWebTries
  /\ question' = [question EXCEPT ![q].tries = @ + 1]
  /\ UNCHANGED <<web, signed_in>>

\* Mutant: the first provider that fails ends the question.
WebStopsThere(q) ==
  /\ Asks(q)
  /\ question' = [question EXCEPT ![q].left = <<>>, ![q].tries = 0,
                    ![q].failures = Append(@, Head(question[q].left))]
  /\ UNCHANGED <<web, signed_in>>

\* The provider cannot be used, refuses, does not answer in time, keeps failing
\* or has nothing to show: its reason is kept and the next one is asked.
WebGiveUp(q) ==
  /\ Asks(q)
  /\ question' = [question EXCEPT ![q].left = Tail(@), ![q].tries = 0,
                    ![q].failures = Append(@, Head(question[q].left))]
  /\ UNCHANGED <<web, signed_in>>

WebAnswers(q) ==
  /\ Asks(q) /\ Usable(q)
  /\ question' = [question EXCEPT ![q].pc = "answered"]
  /\ UNCHANGED <<web, signed_in>>

\* Nobody is left to ask: the question fails with everyone's reason.
WebFail(q) ==
  /\ question[q].pc = "asking"
  /\ question[q].left = <<>>
  /\ question' = [question EXCEPT ![q].pc = "failed"]
  /\ UNCHANGED <<web, signed_in>>

\* The time for the whole question, its wait included, is over; or the caller is
\* gone.
WebOutOfTime(q) ==
  /\ question[q].pc \in {"waiting", "asking"}
  /\ question' = [question EXCEPT ![q].pc = "late"]
  /\ UNCHANGED <<web, signed_in>>

\* apply: a new configuration replaces the old whole.
WebApply(config) ==
  /\ web' = config
  /\ UNCHANGED <<signed_in, question>>

AccountChanges(p) ==
  /\ signed_in' \in {signed_in \cup {p}, signed_in \ {p}}
  /\ UNCHANGED <<web, question>>

WebInit ==
  /\ web \in WebConfigs /\ signed_in = WebProvider
  /\ question = [q \in Question |-> Unanswered]

WebStep(q) ==
  \/ \E named \in Named : WebAsk(q, named)
  \/ WebAdmit(q) \/ WebSkip(q) \/ WebRetry(q) \/ WebGiveUp(q) \/ WebAnswers(q)
  \/ WebFail(q) \/ WebOutOfTime(q)

WebNext ==
  \/ \E q \in Question : WebStep(q)
  \/ \E config \in WebConfigs : WebApply(config)
  \/ \E p \in WebProvider : AccountChanges(p)

WebSpec == WebInit /\ [][WebNext]_web_vars

\* The providers a question is to try, in order.
OrderOf(asked) ==
  IF asked.named = {} THEN TheState(asked).order
  ELSE <<CHOOSE p \in asked.named : TRUE>>

\* Those who said no are the ones of the first n that are on, each once and in order.
AreFirst(said, order, on, n) ==
  /\ {said[i] : i \in DOMAIN said} = {order[i] : i \in 1 .. n} \cap on
  /\ \A i, j \in DOMAIN said :
       i < j => \E a, b \in 1 .. n : a < b /\ said[i] = order[a] /\ said[j] = order[b]

AskedFirst(asked, n) == AreFirst(asked.failures, OrderOf(asked), TheState(asked).on, n)

\* A question fails only once every provider that was on when it began was
\* asked and said why not, each once and in the order of that configuration;
\* and an answer comes from the first of them that had one.  Configurations
\* applied while it runs change nothing about it.
WebAsksAll ==
  \A q \in Question :
    LET asked == question[q]
    IN  /\ asked.pc = "failed" => AskedFirst(asked, Len(OrderOf(asked)))
        /\ asked.pc = "answered" =>
             \E n \in DOMAIN OrderOf(asked) :
               /\ Head(asked.left) = OrderOf(asked)[n]
               /\ Head(asked.left) \in TheState(asked).on
               /\ AskedFirst(asked, n - 1)

=============================================================================
