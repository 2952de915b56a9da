---------------------------- MODULE Confirmation ----------------------------
(***************************************************************************)
(* Confirmation of payment intents (packages/payments-core): beginIn makes  *)
(* the intent processing and creates its attempt under the lock of the      *)
(* intent, execute asks the provider outside every transaction, and what    *)
(* execute leaves open is closed by the provider's webhook, which reaches   *)
(* resolveFromProvider through the inbox, or first swept to indeterminate.  *)
(*                                                                          *)
(* Each attempt has two processes: the request that executes it, once, and  *)
(* the inbox handler of its webhook.  Every SQL transaction is one step.    *)
(***************************************************************************)
EXTENDS Ledger

CONSTANTS
  Intents,       \* payment intents, already created
  Attempts,      \* attempt rows that may be created
  Amount,        \* amount of each intent
  Fee,           \* platformFee of that amount
  MerchantOf,    \* merchant_id of each intent
  InboxAttempts, \* maxAttempts of the inbox processor
  MaxFaults,     \* bound on process crashes and failed transactions
  NoIntent       \* not an intent

\* FlatBpsFeeSchedule; capturePayment refuses a fee that takes all of it.
ASSUME ConfirmationAssumption ==
  /\ Amount \in [Intents -> Nat \ {0}]
  /\ Fee \in [Intents -> Nat]
  /\ \A i \in Intents : Fee[i] < Amount[i]
  /\ MerchantOf \in [Intents -> Merchants]
  /\ InboxAttempts \in Nat \ {0}
  /\ MaxFaults \in Nat
  /\ NoIntent \notin Intents

\* A table has finitely many rows.
ASSUME FinitelyManyIntents == IsFiniteSet(Intents)

VARIABLES
  istatus,   \* payment_intents.status
  captured,  \* payment_intents.amount_captured
  status,    \* payment_attempts.status; "none" before the insert
  target,    \* payment_attempts.intent_id
  recent,    \* submitted_at is within the last five minutes
  provider,  \* what the provider did with the attempt: external truth
  event,     \* provider_events.status of the attempt's webhook
  tries,     \* provider_events.attempts
  pc,        \* where the two processes of an attempt stand
  faults     \* crashes and failed transactions so far

intentVars == <<istatus, captured>>
rowVars == <<status, target, recent>>
inboxVars == <<event, tries>>
vars == <<ledgerVars, intentVars, rowVars, provider, inboxVars, pc, faults>>

Processes == Attempts \X {"execute", "resolve"}
Executor(a) == <<a, "execute">>
Resolver(a) == <<a, "resolve">>

\* Statuses an intent reaches: requires_payment_method and
\* requires_confirmation are passed through inside beginIn's transaction.
IntentStatuses == {"created", "processing", "succeeded", "failed", "canceled",
                   "partially_refunded", "refunded"}
Confirmable == {"created"}
Paid == {"succeeded", "partially_refunded", "refunded"}
Open == {"submitting", "submitted", "indeterminate"}
Points == {"idle", "read", "submit", "await", "approved", "declined",
           "accepted", "unknown"}

\* payment_attempt_transitions among the statuses the service writes.
Transitions ==
  {<<"submitting", to>> : to \in {"submitted", "succeeded", "failed", "indeterminate"}}
    \cup ({"submitted", "indeterminate"} \X {"succeeded", "failed"})

CaptureKey(a) == <<"attempt", a, "capture">>
AttemptsOf(i) == {a \in Attempts : target[a] = i}

Init ==
  /\ LedgerInit
  /\ istatus = [i \in Intents |-> "created"]
  /\ captured = [i \in Intents |-> 0]
  /\ status = [a \in Attempts |-> "none"]
  /\ target = [a \in Attempts |-> NoIntent]
  /\ recent = [a \in Attempts |-> FALSE]
  /\ provider = [a \in Attempts |-> "unsent"]
  /\ event = [a \in Attempts |-> "none"]
  /\ tries = [a \in Attempts |-> 0]
  /\ pc = [k \in Processes |-> "idle"]
  /\ faults = 0

-----------------------------------------------------------------------------
Goto(k, point) == pc' = [pc EXCEPT ![k] = point]

\* Bug: the status of the intent is not checked under its lock.
BeginAnyStatus(a, i) ==
  /\ status[a] = "none"
  /\ istatus[i] \in Confirmable \cup {"processing"}
  /\ istatus' = [istatus EXCEPT ![i] = "processing"]
  /\ status' = [status EXCEPT ![a] = "submitting"]
  /\ target' = [target EXCEPT ![a] = i]
  /\ recent' = [recent EXCEPT ![a] = TRUE]
  /\ Goto(Executor(a), "read")
  /\ UNCHANGED <<ledgerVars, captured, provider, inboxVars, faults>>

\* Phase 1: one transaction that holds the lock of the intent.
BeginIn(a, i) ==
  /\ status[a] = "none"
  /\ istatus[i] \in Confirmable
  /\ istatus' = [istatus EXCEPT ![i] = "processing"]
  /\ status' = [status EXCEPT ![a] = "submitting"]
  /\ target' = [target EXCEPT ![a] = i]
  /\ recent' = [recent EXCEPT ![a] = TRUE]
  /\ Goto(Executor(a), "read")
  /\ UNCHANGED <<ledgerVars, captured, provider, inboxVars, faults>>

\* POST .../cancel: the FSM has no way to canceled out of processing.
CancelIntent(i) ==
  /\ istatus[i] \in Confirmable
  /\ istatus' = [istatus EXCEPT ![i] = "canceled"]
  /\ UNCHANGED <<ledgerVars, captured, rowVars, provider, inboxVars, pc, faults>>

-----------------------------------------------------------------------------
(* Phase 2: execute. *)

Read(a) ==
  /\ pc[Executor(a)] = "read"
  /\ Goto(Executor(a), IF status[a] = "submitting" THEN "submit" ELSE "idle")
  /\ UNCHANGED <<ledgerVars, intentVars, rowVars, provider, inboxVars, faults>>

\* submitPayment leaves the process, or the circuit is open and it does not.
Submit(a) ==
  /\ pc[Executor(a)] = "submit"
  /\ provider' = [provider EXCEPT ![a] = "inflight"]
  /\ Goto(Executor(a), "await")
  /\ UNCHANGED <<ledgerVars, intentVars, rowVars, inboxVars, faults>>

CircuitOpen(a) ==
  /\ pc[Executor(a)] = "submit"
  /\ Goto(Executor(a), "declined")
  /\ UNCHANGED <<ledgerVars, intentVars, rowVars, provider, inboxVars, faults>>

\* Bug: an unknown outcome is assumed to be a refusal.
AnswerByAssumption(a) ==
  /\ pc[Executor(a)] = "await"
  /\ Goto(Executor(a), IF provider[a] = "approved" THEN "approved" ELSE "declined")
  /\ UNCHANGED <<ledgerVars, intentVars, rowVars, provider, inboxVars, faults>>

\* The verdict, an asynchronous acceptance, or a throw or timeout.
Answer(a) ==
  /\ pc[Executor(a)] = "await"
  /\ \/ provider[a] = "approved" /\ Goto(Executor(a), "approved")
     \/ provider[a] = "declined" /\ Goto(Executor(a), "declined")
     \/ \E point \in {"accepted", "unknown"} : Goto(Executor(a), point)
  /\ UNCHANGED <<ledgerVars, intentVars, rowVars, provider, inboxVars, faults>>

\* Bug: a late answer overwrites what the inbox or the sweep recorded.
RecordOpenAnyway(a) ==
  /\ pc[Executor(a)] \in {"accepted", "unknown"}
  /\ status' = [status EXCEPT ![a] = "submitted"]
  /\ Goto(Executor(a), "idle")
  /\ UNCHANGED <<ledgerVars, intentVars, target, recent, provider, inboxVars, faults>>

\* UPDATE ... WHERE status = 'submitting': no row if a sweep came first.
RecordOpen(a) ==
  /\ pc[Executor(a)] \in {"accepted", "unknown"}
  /\ status' =
       [status EXCEPT ![a] =
          IF @ # "submitting" THEN @
          ELSE IF pc[Executor(a)] = "accepted" THEN "submitted" ELSE "indeterminate"]
  /\ Goto(Executor(a), "idle")
  /\ UNCHANGED <<ledgerVars, intentVars, target, recent, provider, inboxVars, faults>>

\* Both triggers must accept the outcome, or its transaction rolls back.
Legal(a, to) == <<status[a], to>> \in Transitions /\ istatus[target[a]] = "processing"

\* transitionIn, under the lock of the intent.
TransitionIn(i, to) == istatus' = [istatus EXCEPT ![i] = to]

Resolve(a, to) ==
  /\ Legal(a, to)
  /\ status' = [status EXCEPT ![a] = to]
  /\ TransitionIn(target[a], to)
  /\ UNCHANGED <<target, recent>>

\* What the inbox does with the handler's outcome: a throw leaves the event to
\* the next retry, or dead once its attempts are spent.
Processed(a, k) ==
  /\ event' = IF k = Resolver(a) THEN [event EXCEPT ![a] = "processed"] ELSE event
  /\ UNCHANGED tries
Thrown(a, k) ==
  /\ event' = IF k = Resolver(a) /\ tries[a] >= InboxAttempts
              THEN [event EXCEPT ![a] = "dead"] ELSE event
  /\ UNCHANGED tries

\* capturePayment: the entries, the attempt, the intent and amount_captured in
\* one transaction; a replayed key returns the first posting and does nothing.
RecordApproved(a, k) ==
  LET i == target[a]
      legs == CapturePayment(MerchantOf[i], Amount[i], Fee[i])
  IN
  /\ pc[k] = "approved"
  /\ \/ /\ Post(CaptureKey(a), legs)
        /\ Resolve(a, "succeeded")
        /\ captured' = [captured EXCEPT ![i] = Amount[i]]
        /\ Processed(a, k)
     \/ /\ CaptureKey(a) \in journal \/ ~Legal(a, "succeeded")
        /\ IF CaptureKey(a) \in journal THEN Processed(a, k) ELSE Thrown(a, k)
        /\ UNCHANGED <<ledgerVars, intentVars, rowVars>>
  /\ Goto(k, "idle")
  /\ UNCHANGED <<provider, faults>>

RecordDeclined(a, k) ==
  /\ pc[k] = "declined"
  /\ \/ /\ Resolve(a, "failed")
        /\ Processed(a, k)
     \/ /\ ~Legal(a, "failed")
        /\ UNCHANGED <<istatus, rowVars>>
        /\ Thrown(a, k)
  /\ Goto(k, "idle")
  /\ UNCHANGED <<ledgerVars, captured, provider, faults>>

-----------------------------------------------------------------------------
(* Verified resolution through the inbox, and the watchdog. *)

\* Claim and handler: resolveFromProvider reads the attempt in a transaction of
\* its own.  A terminal attempt is ignored; one still submitting is a throw.
ResolveFromProvider(a) ==
  /\ pc[Resolver(a)] = "idle"
  /\ event[a] = "pending" /\ tries[a] < InboxAttempts
  /\ tries' = [tries EXCEPT ![a] = @ + 1]
  /\ \/ /\ status[a] \in {"submitted", "indeterminate"}
        /\ Goto(Resolver(a), provider[a])
        /\ UNCHANGED event
     \/ /\ status[a] \in {"succeeded", "failed"}
        /\ event' = [event EXCEPT ![a] = "processed"]
        /\ UNCHANGED pc
     \/ /\ status[a] = "submitting"
        /\ event' = [event EXCEPT ![a] = IF tries'[a] = InboxAttempts THEN "dead" ELSE @]
        /\ UNCHANGED pc
  /\ UNCHANGED <<ledgerVars, intentVars, rowVars, provider, faults>>

\* The zombie sweep of the inbox: the last attempt died with its process.
Exhaust(a) ==
  /\ pc[Resolver(a)] = "idle"
  /\ event[a] = "pending" /\ tries[a] >= InboxAttempts
  /\ event' = [event EXCEPT ![a] = "dead"]
  /\ UNCHANGED <<ledgerVars, intentVars, rowVars, provider, tries, pc, faults>>

\* replayDeadProviderEvents: the audited operation of an operator.
ReplayDead(a) ==
  /\ event[a] = "dead"
  /\ event' = [event EXCEPT ![a] = "pending"]
  /\ tries' = [tries EXCEPT ![a] = 0]
  /\ UNCHANGED <<ledgerVars, intentVars, rowVars, provider, pc, faults>>

\* Bug: the comparison with the five minutes is reversed.
SweepRecent ==
  LET stale == {a \in Attempts : status[a] = "submitting" /\ recent[a]} IN
  /\ stale # {}
  /\ status' = [a \in Attempts |-> IF a \in stale THEN "indeterminate" ELSE status[a]]
  /\ UNCHANGED <<ledgerVars, intentVars, target, recent, provider, inboxVars, pc, faults>>

\* sweep_payment_attempts: one statement over every stale submitting row.
Sweep ==
  LET stale == {a \in Attempts : status[a] = "submitting" /\ ~recent[a]} IN
  /\ stale # {}
  /\ status' = [a \in Attempts |-> IF a \in stale THEN "indeterminate" ELSE status[a]]
  /\ UNCHANGED <<ledgerVars, intentVars, target, recent, provider, inboxVars, pc, faults>>

-----------------------------------------------------------------------------
(* The environment. *)

ProviderDecides(a) ==
  /\ provider[a] = "inflight"
  /\ \E verdict \in {"approved", "declined"} :
       provider' = [provider EXCEPT ![a] = verdict]
  /\ UNCHANGED <<ledgerVars, intentVars, rowVars, inboxVars, pc, faults>>

\* The webhook of a decided attempt is ingested; repeats of it are duplicates.
Ingest(a) ==
  /\ provider[a] \in {"approved", "declined"}
  /\ event[a] = "none"
  /\ event' = [event EXCEPT ![a] = "pending"]
  /\ UNCHANGED <<ledgerVars, intentVars, rowVars, provider, tries, pc, faults>>

\* Five minutes pass since submitted_at; execute may still be running.
Age(a) ==
  /\ recent[a]
  /\ recent' = [recent EXCEPT ![a] = FALSE]
  /\ UNCHANGED <<ledgerVars, intentVars, status, target, provider, inboxVars, pc, faults>>

\* A process dies or its transaction fails: what it had not committed is gone.
Crash(k) ==
  /\ faults < MaxFaults
  /\ pc[k] # "idle"
  /\ faults' = faults + 1
  /\ Goto(k, "idle")
  /\ UNCHANGED <<ledgerVars, intentVars, rowVars, provider, inboxVars>>

-----------------------------------------------------------------------------
Execute(a) ==
  \/ Read(a) \/ Submit(a) \/ CircuitOpen(a) \/ Answer(a) \/ RecordOpen(a)
  \/ RecordApproved(a, Executor(a)) \/ RecordDeclined(a, Executor(a))

Inbox(a) ==
  \/ ResolveFromProvider(a) \/ Exhaust(a)
  \/ RecordApproved(a, Resolver(a)) \/ RecordDeclined(a, Resolver(a))

\* Everything but beginIn, which the checkout wraps in a check of its own.
Progress ==
  \/ \E a \in Attempts :
       \/ Execute(a) \/ Inbox(a) \/ ReplayDead(a)
       \/ ProviderDecides(a) \/ Ingest(a) \/ Age(a)
  \/ \E i \in Intents : CancelIntent(i)
  \/ \E k \in Processes : Crash(k)
  \/ Sweep

Next ==
  \/ \E a \in Attempts, i \in Intents : BeginIn(a, i)
  \/ Progress

Spec == Init /\ [][Next]_vars

\* Processes make progress, the jobs of the worker run at an interval, time
\* passes and a provider that decided delivers its webhook.  Buyers, operators
\* and the provider's decision owe nothing.
Fairness ==
  /\ \A a \in Attempts :
       WF_vars(Execute(a)) /\ WF_vars(Inbox(a)) /\ WF_vars(Ingest(a)) /\ WF_vars(Age(a))
  /\ WF_vars(Sweep)

FairSpec == Spec /\ Fairness

-----------------------------------------------------------------------------
TypeOK ==
  /\ balance \in [Accounts -> Int]
  /\ journal \subseteq {CaptureKey(a) : a \in Attempts}
  /\ istatus \in [Intents -> IntentStatuses]
  /\ captured \in [Intents -> Nat]
  /\ status \in [Attempts -> {"none", "succeeded", "failed"} \cup Open]
  /\ target \in [Attempts -> Intents \cup {NoIntent}]
  /\ recent \in [Attempts -> BOOLEAN]
  /\ provider \in [Attempts -> {"unsent", "inflight", "approved", "declined"}]
  /\ event \in [Attempts -> {"none", "pending", "processed", "dead"}]
  /\ tries \in [Attempts -> 0..InboxAttempts]
  /\ pc \in [Processes -> Points]
  /\ faults \in 0..MaxFaults

\* Intent, attempt and journal close together or not at all, whether execute or
\* the inbox records the outcome and whatever the sweep did in between: an
\* intent is paid exactly when an attempt of its was captured, it is failed
\* exactly when one was declined, and it is processing exactly while one is open.
IntentAgrees ==
  \A i \in Intents :
    /\ istatus[i] \in Paid <=> \E a \in AttemptsOf(i) : status[a] = "succeeded"
    /\ istatus[i] = "failed" <=> \E a \in AttemptsOf(i) : status[a] = "failed"
    /\ istatus[i] = "processing" <=> \E a \in AttemptsOf(i) : status[a] \in Open
    /\ captured[i] = IF istatus[i] \in Paid THEN Amount[i] ELSE 0
    /\ \A a \in AttemptsOf(i) : status[a] = "succeeded" <=> CaptureKey(a) \in journal

\* However many confirmations race, over the API or the hosted page, and even
\* against a cancellation, the provider is asked for an intent's money once.
OneCharge ==
  \A a, b \in Attempts :
    provider[a] # "unsent" /\ provider[b] # "unsent" /\ target[a] = target[b] => a = b

\* A final status is the provider's word, whoever heard it first: a payment
\* that succeeded was approved, and one that failed was never charged nor will be.
OutcomeIsVerified ==
  \A a \in Attempts :
    /\ status[a] = "succeeded" => provider[a] = "approved"
    /\ status[a] = "failed" => provider[a] \in {"unsent", "declined"}

\* What the ledger says the provider owes is what was captured, and it is split
\* between the merchants and the platform with nothing lost or made up.
CapturesAreSplit ==
  LET paid(m) == {i \in Intents : istatus[i] \in Paid /\ MerchantOf[i] = m}
      grown(x) == balance[x] - OpeningBalance[x]
  IN
  /\ grown(Platform("provider.clearing")) = Total(captured, Intents)
  /\ \A m \in Merchants :
       grown(Of("merchant.pending", m)) = Total(captured, paid(m)) - Total(Fee, paid(m))
  /\ grown(Platform("platform.fees"))
       = Total(Fee, {i \in Intents : istatus[i] \in Paid})

\* Every payment is booked once, on the intent, on its attempt and in the ledger.
ChargesAreBooked == IntentAgrees /\ CapturesAreSplit

\* An attempt whose process died between beginIn and the provider's answer does
\* not stay submitting: the sweep makes it resolvable.
SubmittingIsLeft ==
  \A a \in Attempts : status[a] = "submitting" ~> status[a] # "submitting"

\* A charge the provider approved and told us about ends in the ledger: its
\* webhook is retried rather than lost while phase 2 is still in flight.
ApprovedIsCaptured ==
  \A a \in Attempts :
    provider[a] = "approved" /\ event[a] = "pending" ~> status[a] = "succeeded"
=============================================================================
