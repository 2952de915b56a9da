---------------------------- MODULE CheckoutProofs ----------------------------
(***************************************************************************)
(* Confirmation and hosted checkout for every number of intents, attempts   *)
(* and sessions: an intent is charged once, a final status is the           *)
(* provider's word, rows and journal close together, and a session closes   *)
(* on the truth, and what was captured is split in the ledger.              *)
(***************************************************************************)
EXTENDS Checkout, LedgerProofs

Statuses == {"none", "succeeded", "failed"} \cup Open

TypeInv ==
  /\ istatus \in [Intents -> IntentStatuses]
  /\ captured \in [Intents -> Nat]
  /\ status \in [Attempts -> Statuses]
  /\ target \in [Attempts -> Intents \cup {NoIntent}]
  /\ provider \in [Attempts -> {"unsent", "inflight", "approved", "declined"}]
  /\ event \in [Attempts -> {"none", "pending", "processed", "dead"}]
  /\ pc \in [Processes -> Points]

\* The lock of the intent: whoever began an attempt took the intent out of
\* created for good, so that no second attempt of it was ever begun.
OwnInv ==
  /\ \A a \in Attempts :
       IF status[a] = "none"
       THEN provider[a] = "unsent" /\ pc[Executor(a)] = "idle"
       ELSE target[a] \in Intents /\ istatus[target[a]] \notin {"created", "canceled"}
  /\ \A a, b \in Attempts :
       status[a] # "none" /\ status[b] # "none" /\ target[a] = target[b] => a = b

\* What each process knows of the provider stays true until it is recorded.
WordInv ==
  \A a \in Attempts :
    /\ pc[Executor(a)] = "read" => provider[a] = "unsent"
    /\ pc[Executor(a)] = "submit" => provider[a] = "unsent" /\ status[a] # "failed"
    /\ pc[Executor(a)] = "approved" => provider[a] = "approved"
    /\ pc[Executor(a)] = "declined" => provider[a] \in {"unsent", "declined"}
    /\ event[a] # "none" => provider[a] \in {"approved", "declined"}
    /\ pc[Resolver(a)] = "approved" => provider[a] = "approved"
    /\ pc[Resolver(a)] = "declined" => provider[a] = "declined"
    /\ status[a] = "succeeded" => provider[a] = "approved"
    /\ status[a] = "failed" => provider[a] \in {"unsent", "declined"}

\* A paid intent has been captured, and captured it stays.
PaidInv == \A i \in Intents : istatus[i] \in Paid => captured[i] = Amount[i]

Inv == TypeInv /\ OwnInv /\ WordInv /\ PaidInv

USE ConfirmationAssumption

LEMMA ProcessesDiffer ==
  ASSUME NEW a \in Attempts
  PROVE  /\ Executor(a) \in Processes /\ Resolver(a) \in Processes
         /\ \A b \in Attempts : Executor(a) # Resolver(b) /\ Resolver(a) # Executor(b)
         /\ \A b \in Attempts : a # b => Executor(a) # Executor(b) /\ Resolver(a) # Resolver(b)
  BY DEF Executor, Resolver, Processes

LEMMA InitInv == Init => Inv
<1> SUFFICES ASSUME Init PROVE Inv
  OBVIOUS
<1>1. TypeInv
  BY DEF Init, TypeInv, IntentStatuses, Statuses, Points
<1>2. \A a \in Attempts : pc[Executor(a)] = "idle" /\ pc[Resolver(a)] = "idle"
  BY ProcessesDiffer DEF Init
<1>3. OwnInv /\ WordInv /\ PaidInv
  BY <1>2 DEF Init, OwnInv, WordInv, PaidInv, Paid
<1> QED
  BY <1>1, <1>3 DEF Inv

LEMMA BeginKeeps ==
  ASSUME Inv, NEW a \in Attempts, NEW i \in Intents, BeginIn(a, i)
  PROVE  Inv'
<1> USE ProcessesDiffer DEF Inv
<1>1. /\ status[a] = "none" /\ istatus[i] = "created"
      /\ istatus' = [istatus EXCEPT ![i] = "processing"]
      /\ status' = [status EXCEPT ![a] = "submitting"]
      /\ target' = [target EXCEPT ![a] = i]
      /\ pc' = [pc EXCEPT ![Executor(a)] = "read"]
      /\ captured' = captured /\ provider' = provider /\ event' = event
  BY DEF BeginIn, Confirmable, Goto, inboxVars
<1>2. TypeInv'
  BY <1>1 DEF TypeInv, IntentStatuses, Statuses, Open, Points
<1>3. \A b \in Attempts : status[b] # "none" => target[b] # i
  BY <1>1 DEF OwnInv
<1>4. OwnInv'
  BY <1>1, <1>3 DEF OwnInv, TypeInv
<1>5. provider[a] = "unsent"
  BY <1>1 DEF OwnInv
<1>6. WordInv'
  BY <1>1, <1>5 DEF WordInv, TypeInv
<1>7. PaidInv'
  BY <1>1 DEF PaidInv, TypeInv, Paid
<1> QED
  BY <1>2, <1>4, <1>6, <1>7

\* A step of a process that changes nothing but where it stands.
LEMMA MoveKeeps ==
  ASSUME Inv, NEW a \in Attempts, NEW k \in {Executor(a), Resolver(a)}, NEW point \in Points,
         pc' = [pc EXCEPT ![k] = point],
         UNCHANGED <<istatus, captured, status, target, provider>>,
         event' \in [Attempts -> {"none", "pending", "processed", "dead"}],
         \A b \in Attempts :
           event'[b] # "none" => event[b] # "none" \/ provider[b] \in {"approved", "declined"},
         status[a] = "none" => point = "idle",
         point = "read" => k = Executor(a) /\ provider[a] = "unsent",
         point = "submit" => k = Executor(a) /\ provider[a] = "unsent" /\ status[a] # "failed",
         point = "approved" => provider[a] = "approved",
         point = "declined" => IF k = Executor(a) THEN provider[a] \in {"unsent", "declined"}
                                                  ELSE provider[a] = "declined"
  PROVE  Inv'
<1> USE ProcessesDiffer DEF Inv
<1>1. TypeInv'
  BY DEF TypeInv
<1>2. \A b \in Attempts : pc'[Executor(b)] = IF k = Executor(b) THEN point ELSE pc[Executor(b)]
  BY DEF TypeInv
<1>3. \A b \in Attempts : pc'[Resolver(b)] = IF k = Resolver(b) THEN point ELSE pc[Resolver(b)]
  BY DEF TypeInv
<1>4. OwnInv'
  BY <1>2 DEF OwnInv
<1>5. WordInv'
  BY <1>2, <1>3 DEF WordInv
<1>6. PaidInv'
  BY DEF PaidInv
<1> QED
  BY <1>1, <1>4, <1>5, <1>6

\* The outcome of attempt a is recorded, or its transaction is rolled back.
LEMMA ResolveKeeps ==
  ASSUME Inv, NEW a \in Attempts, NEW k \in {Executor(a), Resolver(a)}, NEW to,
         pc' = [pc EXCEPT ![k] = "idle"],
         Resolve(a, to), provider' = provider,
         event' \in [Attempts -> {"none", "pending", "processed", "dead"}],
         \A b \in Attempts :
           event'[b] # "none" => event[b] # "none" \/ provider[b] \in {"approved", "declined"},
         \/ /\ to = "succeeded" /\ pc[k] = "approved"
            /\ captured' = [captured EXCEPT ![target[a]] = Amount[target[a]]]
         \/ to = "failed" /\ pc[k] = "declined" /\ captured' = captured
  PROVE  Inv'
<1> USE ProcessesDiffer DEF Inv
<1>1. /\ status[a] # "none" /\ target[a] \in Intents
      /\ istatus[target[a]] = "processing"
      /\ status' = [status EXCEPT ![a] = to]
      /\ istatus' = [istatus EXCEPT ![target[a]] = to]
      /\ target' = target
  <2>1. <<status[a], to>> \in Transitions /\ istatus[target[a]] = "processing"
    BY DEF Resolve, TransitionIn, Legal
  <2>2. status[a] # "none"
    BY <2>1 DEF Transitions
  <2> QED
    BY <2>1, <2>2 DEF OwnInv, Resolve, TransitionIn
<1>2. TypeInv'
  BY <1>1 DEF TypeInv, Statuses, Points, IntentStatuses
<1>3. \A b \in Attempts : pc'[Executor(b)] \in {"idle", pc[Executor(b)]}
  BY DEF TypeInv
<1>4. \A b \in Attempts : pc'[Resolver(b)] \in {"idle", pc[Resolver(b)]}
  BY DEF TypeInv
<1>5. OwnInv'
  BY <1>1, <1>3 DEF OwnInv, TypeInv
<1>6. /\ to = "succeeded" => provider[a] = "approved"
      /\ to = "failed" => provider[a] \in {"unsent", "declined"}
  BY DEF WordInv
<1>7. pc'[Executor(a)] # "submit"
  BY <1>3, <1>6 DEF WordInv, TypeInv
<1>8. WordInv'
  BY <1>1, <1>3, <1>4, <1>6, <1>7 DEF WordInv, TypeInv
<1>9. PaidInv'
  BY <1>1 DEF PaidInv, TypeInv, Paid
<1> QED
  BY <1>2, <1>5, <1>8, <1>9

-----------------------------------------------------------------------------
\* Steps that leave every process where it stands.
LEMMA OtherKeeps ==
  ASSUME Inv,
         \/ \E i \in Intents : CancelIntent(i)
         \/ \E a \in Attempts : ReplayDead(a) \/ Exhaust(a) \/ ProviderDecides(a)
                                  \/ Ingest(a) \/ Age(a)
         \/ Sweep
  PROVE  Inv'
<1> USE DEF Inv, ledgerVars, intentVars, rowVars, inboxVars
<1>1. ASSUME NEW i \in Intents, CancelIntent(i) PROVE Inv'
  <2>1. istatus[i] = "created" /\ istatus' = [istatus EXCEPT ![i] = "canceled"]
        /\ UNCHANGED <<captured, status, target, provider, event, pc>>
    BY <1>1 DEF CancelIntent, Confirmable
  <2>2. TypeInv'
    BY <2>1 DEF TypeInv, IntentStatuses
  <2>3. OwnInv' /\ WordInv'
    BY <2>1 DEF OwnInv, WordInv, TypeInv
  <2>4. PaidInv'
    BY <2>1 DEF PaidInv, TypeInv, Paid
  <2> QED
    BY <2>2, <2>3, <2>4
<1>2. ASSUME NEW a \in Attempts, ReplayDead(a) \/ Exhaust(a) \/ Ingest(a) PROVE Inv'
  <2>1. /\ event[a] # "none" \/ provider[a] \in {"approved", "declined"}
        /\ \E e \in {"pending", "dead"} : event' = [event EXCEPT ![a] = e]
        /\ UNCHANGED <<istatus, captured, status, target, provider, pc>>
    BY <1>2 DEF ReplayDead, Exhaust, Ingest
  <2>2. TypeInv'
    BY <2>1 DEF TypeInv
  <2>3. OwnInv' /\ WordInv' /\ PaidInv'
    BY <2>1 DEF OwnInv, WordInv, TypeInv, PaidInv
  <2> QED
    BY <2>2, <2>3
<1>3. ASSUME NEW a \in Attempts, ProviderDecides(a) PROVE Inv'
  <2>1. /\ provider[a] = "inflight"
        /\ \E verdict \in {"approved", "declined"} : provider' = [provider EXCEPT ![a] = verdict]
        /\ UNCHANGED <<istatus, captured, status, target, event, pc>>
    BY <1>3 DEF ProviderDecides
  <2>2. TypeInv'
    BY <2>1 DEF TypeInv
  <2>3. OwnInv' /\ WordInv' /\ PaidInv'
    BY <2>1 DEF OwnInv, WordInv, TypeInv, PaidInv
  <2> QED
    BY <2>2, <2>3
<1>4. ASSUME NEW a \in Attempts, Age(a) PROVE Inv'
  BY <1>4 DEF Age, TypeInv, OwnInv, WordInv, PaidInv
<1>5. CASE Sweep
  <2>1. UNCHANGED <<istatus, captured, target, provider, event, pc>>
    BY <1>5 DEF Sweep
  <2>2. /\ status' \in [Attempts -> Statuses]
        /\ \A a \in Attempts : \/ status'[a] = status[a]
                               \/ status[a] = "submitting" /\ status'[a] = "indeterminate"
    BY <1>5 DEF Sweep, TypeInv, Statuses, Open
  <2>3. TypeInv'
    BY <2>1, <2>2 DEF TypeInv
  <2>4. OwnInv' /\ WordInv' /\ PaidInv'
    BY <2>1, <2>2 DEF OwnInv, WordInv, PaidInv
  <2> QED
    BY <2>3, <2>4
<1> QED
  BY <1>1, <1>2, <1>3, <1>4, <1>5

\* Phase 2, up to the answer.
LEMMA ExecuteKeeps ==
  ASSUME Inv, NEW a \in Attempts, Read(a) \/ CircuitOpen(a) \/ Answer(a)
  PROVE  Inv'
<1> USE DEF Inv, intentVars, rowVars, inboxVars, Goto
<1>1. \E point \in Points :
        /\ pc' = [pc EXCEPT ![Executor(a)] = point]
        /\ status[a] = "none" => point = "idle"
        /\ point # "read"
        /\ point = "submit" => provider[a] = "unsent" /\ status[a] # "failed"
        /\ point = "approved" => provider[a] = "approved"
        /\ point = "declined" => provider[a] \in {"unsent", "declined"}
  BY DEF Read, CircuitOpen, Answer, Points, WordInv, OwnInv
<1>2. UNCHANGED <<istatus, captured, status, target, provider, event>>
  BY DEF Read, CircuitOpen, Answer
<1> QED
  BY <1>1, <1>2, MoveKeeps DEF TypeInv

LEMMA SubmitKeeps ==
  ASSUME Inv, NEW a \in Attempts, Submit(a)
  PROVE  Inv'
<1> USE ProcessesDiffer DEF Inv, intentVars, rowVars, inboxVars, Goto
<1>1. /\ pc[Executor(a)] = "submit"
      /\ provider' = [provider EXCEPT ![a] = "inflight"]
      /\ pc' = [pc EXCEPT ![Executor(a)] = "await"]
      /\ UNCHANGED <<istatus, captured, status, target, event>>
  BY DEF Submit
<1>2. status[a] # "none" /\ status[a] # "failed" /\ provider[a] = "unsent"
  BY <1>1 DEF OwnInv, WordInv
<1>3. TypeInv'
  BY <1>1 DEF TypeInv, Points
<1>4. OwnInv' /\ PaidInv'
  BY <1>1, <1>2 DEF OwnInv, PaidInv, TypeInv
<1>5. WordInv'
  BY <1>1, <1>2 DEF WordInv, TypeInv
<1> QED
  BY <1>3, <1>4, <1>5

LEMMA RecordOpenKeeps ==
  ASSUME Inv, NEW a \in Attempts, RecordOpen(a)
  PROVE  Inv'
<1> USE ProcessesDiffer DEF Inv, intentVars, rowVars, inboxVars, Goto
<1>1. /\ pc[Executor(a)] \in {"accepted", "unknown"}
      /\ pc' = [pc EXCEPT ![Executor(a)] = "idle"]
      /\ UNCHANGED <<istatus, captured, target, provider, event>>
  BY DEF RecordOpen
<1>2. \E s \in {status[a], "submitted", "indeterminate"} : status' = [status EXCEPT ![a] = s]
  BY DEF RecordOpen, TypeInv
<1>3. status[a] # "none"
  BY <1>1 DEF OwnInv
<1>4. TypeInv'
  BY <1>1, <1>2 DEF TypeInv, Points, Statuses, Open
<1>5. OwnInv' /\ PaidInv'
  BY <1>1, <1>2, <1>3 DEF OwnInv, PaidInv, TypeInv
<1>6. WordInv'
  BY <1>1, <1>2 DEF WordInv, TypeInv
<1> QED
  BY <1>4, <1>5, <1>6

LEMMA RecordKeeps ==
  ASSUME Inv, NEW a \in Attempts, NEW k \in {Executor(a), Resolver(a)},
         RecordApproved(a, k) \/ RecordDeclined(a, k)
  PROVE  Inv'
<1> USE DEF Inv, intentVars, rowVars, Goto
<1>1. pc' = [pc EXCEPT ![k] = "idle"] /\ provider' = provider
  BY DEF RecordApproved, RecordDeclined
<1>2. /\ event' \in [Attempts -> {"none", "pending", "processed", "dead"}]
      /\ \A b \in Attempts :
           event'[b] # "none" => event[b] # "none" \/ provider[b] \in {"approved", "declined"}
  <2>1. k = Resolver(a) => provider[a] \in {"approved", "declined"}
    BY DEF RecordApproved, RecordDeclined, WordInv
  <2>2. Processed(a, k) \/ Thrown(a, k)
    BY DEF RecordApproved, RecordDeclined
  <2> QED
    BY <2>1, <2>2 DEF Processed, Thrown, TypeInv
<1>3. CASE UNCHANGED <<istatus, captured, status, target>>
  BY <1>1, <1>2, <1>3, MoveKeeps DEF Points
<1>4. CASE RecordApproved(a, k) /\ ~UNCHANGED <<istatus, captured, status, target>>
  <2>1. /\ Resolve(a, "succeeded") /\ pc[k] = "approved"
        /\ captured' = [captured EXCEPT ![target[a]] = Amount[target[a]]]
    BY <1>4 DEF RecordApproved
  <2> QED
    BY <1>1, <1>2, <2>1, ResolveKeeps
<1>5. CASE RecordDeclined(a, k) /\ ~UNCHANGED <<istatus, captured, status, target>>
  <2>1. Resolve(a, "failed") /\ pc[k] = "declined" /\ captured' = captured
    BY <1>5 DEF RecordDeclined
  <2> QED
    BY <1>1, <1>2, <2>1, ResolveKeeps
<1> QED
  BY <1>3, <1>4, <1>5

LEMMA ResolveFromProviderKeeps ==
  ASSUME Inv, NEW a \in Attempts, ResolveFromProvider(a)
  PROVE  Inv'
<1> USE ProcessesDiffer DEF Inv, intentVars, rowVars, Goto
<1>1. /\ event[a] = "pending"
      /\ UNCHANGED <<istatus, captured, status, target, provider>>
  BY DEF ResolveFromProvider
<1>2. provider[a] \in {"approved", "declined"}
  BY <1>1 DEF WordInv
<1>3. \E e \in {event[a], "processed", "dead"} : event' = [event EXCEPT ![a] = e]
  BY DEF ResolveFromProvider, TypeInv
<1>4. \E point \in Points :
        /\ pc' = [pc EXCEPT ![Resolver(a)] = point]
        /\ point = pc[Resolver(a)] \/ (status[a] # "none" /\ point = provider[a])
        /\ point \in {"idle", "approved", "declined"}
  BY <1>2 DEF ResolveFromProvider, TypeInv, Points
<1>5. /\ event' \in [Attempts -> {"none", "pending", "processed", "dead"}]
      /\ \A b \in Attempts :
           event'[b] # "none" => event[b] # "none" \/ provider[b] \in {"approved", "declined"}
  BY <1>1, <1>3 DEF TypeInv
<1>6. pc[Resolver(a)] = "idle"
  BY DEF ResolveFromProvider
<1> QED
  BY <1>1, <1>2, <1>4, <1>5, <1>6, MoveKeeps

LEMMA CrashKeeps ==
  ASSUME Inv, NEW k \in Processes, Crash(k)
  PROVE  Inv'
<1> USE DEF Inv, intentVars, rowVars, inboxVars, Goto
<1>1. PICK a \in Attempts : k \in {Executor(a), Resolver(a)}
  BY DEF Processes, Executor, Resolver
<1>2. /\ pc' = [pc EXCEPT ![k] = "idle"]
      /\ UNCHANGED <<istatus, captured, status, target, provider, event>>
  BY DEF Crash
<1> QED
  BY <1>1, <1>2, MoveKeeps DEF TypeInv, Points

LEMMA ProgressKeeps == ASSUME Inv, Progress PROVE Inv'
<1>1. ASSUME NEW a \in Attempts, Execute(a) PROVE Inv'
  BY <1>1, ExecuteKeeps, SubmitKeeps, RecordOpenKeeps, RecordKeeps DEF Execute
<1>2. ASSUME NEW a \in Attempts, Inbox(a) PROVE Inv'
  BY <1>2, ResolveFromProviderKeeps, OtherKeeps, RecordKeeps DEF Inbox
<1> QED
  BY <1>1, <1>2, OtherKeeps, CrashKeeps DEF Progress

LEMMA StutterKeeps == ASSUME Inv, UNCHANGED vars PROVE Inv'
  BY DEF Inv, TypeInv, OwnInv, WordInv, PaidInv, vars, intentVars, rowVars, inboxVars

LEMMA StepInv == ASSUME Inv, [Next]_vars PROVE Inv'
  BY BeginKeeps, ProgressKeeps, StutterKeeps DEF Next

LEMMA InvImplies == Inv => OneCharge /\ OutcomeIsVerified
  BY DEF Inv, OwnInv, WordInv, OneCharge, OutcomeIsVerified

-----------------------------------------------------------------------------
(* What the rows and the journal say of one payment. *)

\* IntentAgrees attempt by attempt, with the fact that every intent that was
\* confirmed has an attempt.
AgreeInv ==
  /\ \A a \in Attempts :
       IF status[a] = "none"
       THEN target[a] = NoIntent /\ CaptureKey(a) \notin journal
       ELSE /\ status[a] = "succeeded" <=> istatus[target[a]] \in Paid
            /\ status[a] = "failed" <=> istatus[target[a]] = "failed"
            /\ status[a] \in Open <=> istatus[target[a]] = "processing"
            /\ status[a] = "succeeded" <=> CaptureKey(a) \in journal
  /\ \A i \in Intents :
       /\ istatus[i] \notin {"created", "canceled"} =>
            \E a \in Attempts : status[a] # "none" /\ target[a] = i
       /\ captured[i] = IF istatus[i] \in Paid THEN Amount[i] ELSE 0

LEMMA AgreeInit == Init => AgreeInv
  BY DEF Init, LedgerInit, AgreeInv, Paid

LEMMA BeginAgrees ==
  ASSUME Inv, AgreeInv, NEW a \in Attempts, NEW i \in Intents, BeginIn(a, i)
  PROVE  AgreeInv'
<1> USE DEF Inv, AgreeInv
<1>1. /\ status[a] = "none" /\ istatus[i] = "created"
      /\ istatus' = [istatus EXCEPT ![i] = "processing"]
      /\ status' = [status EXCEPT ![a] = "submitting"]
      /\ target' = [target EXCEPT ![a] = i]
      /\ captured' = captured /\ journal' = journal
  BY DEF BeginIn, Confirmable, ledgerVars
<1>2. \A b \in Attempts : status[b] # "none" => target[b] # i
  BY <1>1 DEF OwnInv
<1>3. \A b \in Attempts \ {a} : status'[b] = status[b] /\ target'[b] = target[b]
  BY <1>1 DEF TypeInv
<1>4. \A j \in Intents \ {i} : istatus'[j] = istatus[j]
  BY <1>1 DEF TypeInv
<1>5. status'[a] = "submitting" /\ target'[a] = i /\ istatus'[i] = "processing"
  BY <1>1 DEF TypeInv
<1>6. \A b \in Attempts \ {a} : status[b] # "none" => target[b] \in Intents \ {i}
  BY <1>2 DEF OwnInv
<1> QED
  BY <1>1, <1>3, <1>4, <1>5, <1>6 DEF Paid, Open

LEMMA ResolveAgrees ==
  ASSUME Inv, AgreeInv, NEW a \in Attempts, NEW to, Resolve(a, to),
         \/ /\ to = "succeeded" /\ journal' = journal \cup {CaptureKey(a)}
            /\ captured' = [captured EXCEPT ![target[a]] = Amount[target[a]]]
         \/ to = "failed" /\ journal' = journal /\ captured' = captured
  PROVE  AgreeInv'
<1> USE DEF Inv, AgreeInv
<1>1. <<status[a], to>> \in Transitions /\ istatus[target[a]] = "processing"
      /\ status' = [status EXCEPT ![a] = to]
      /\ istatus' = [istatus EXCEPT ![target[a]] = to]
      /\ target' = target
  BY DEF Resolve, TransitionIn, Legal
<1>2. status[a] \in Open
  BY <1>1 DEF Transitions, Open
<1>3. status[a] # "none" /\ target[a] \in Intents
  BY <1>2 DEF Open, OwnInv
<1>4. \A b \in Attempts : status[b] # "none" /\ b # a =>
        target[b] \in Intents /\ target[b] # target[a]
  BY <1>3 DEF OwnInv
<1>5. \A b \in Attempts : b # a => CaptureKey(b) # CaptureKey(a)
  BY DEF CaptureKey
<1>6. \A b \in Attempts \ {a} : status'[b] = status[b]
                                /\ (CaptureKey(b) \in journal' <=> CaptureKey(b) \in journal)
  BY <1>1, <1>5 DEF TypeInv
<1>7. status'[a] = to /\ istatus'[target[a]] = to
  BY <1>1, <1>3 DEF TypeInv
<1>8. \A j \in Intents : j # target[a] => istatus'[j] = istatus[j] /\ captured'[j] = captured[j]
  BY <1>1 DEF TypeInv
<1>9. captured'[target[a]] = IF to \in Paid THEN Amount[target[a]] ELSE 0
  BY <1>1, <1>3 DEF TypeInv, Paid
<1>10. to = "succeeded" <=> CaptureKey(a) \in journal'
  BY <1>2, <1>3 DEF Open
<1> QED
  BY <1>1, <1>3, <1>4, <1>6, <1>7, <1>8, <1>9, <1>10 DEF Paid, Open

\* A step that closes nothing: attempts stay open, intents neither paid nor not.
LEMMA OpenAgrees ==
  ASSUME Inv, AgreeInv, UNCHANGED <<captured, target, journal>>,
         status' \in [Attempts -> Statuses], istatus' \in [Intents -> IntentStatuses],
         \A a \in Attempts : status'[a] = status[a] \/ {status[a], status'[a]} \subseteq Open,
         \A i \in Intents : \/ istatus'[i] = istatus[i]
                            \/ {istatus[i], istatus'[i]} \subseteq Paid
                            \/ istatus[i] = "created" /\ istatus'[i] = "canceled"
  PROVE  AgreeInv'
<1> USE DEF Inv, AgreeInv
<1>1. \A a \in Attempts : status[a] # "none" =>
        target[a] \in Intents /\ istatus[target[a]] # "created"
  BY DEF OwnInv
<1>2. \A a \in Attempts : status[a] = "none" <=> status'[a] = "none"
  BY DEF Open
<1> QED
  BY <1>1, <1>2 DEF Paid, Open

LEMMA AgreeStep == ASSUME Inv, AgreeInv, [Next]_vars PROVE AgreeInv'
<1> USE DEF Inv, ledgerVars, intentVars, rowVars
<1>1. ASSUME NEW a \in Attempts, NEW k, RecordApproved(a, k) PROVE AgreeInv'
  <2>1. CASE UNCHANGED <<ledgerVars, intentVars, rowVars>>
    BY <2>1, OpenAgrees DEF TypeInv
  <2>2. CASE /\ Post(CaptureKey(a), CapturePayment(MerchantOf[target[a]], Amount[target[a]],
                                                   Fee[target[a]]))
             /\ Resolve(a, "succeeded")
             /\ captured' = [captured EXCEPT ![target[a]] = Amount[target[a]]]
    BY <2>2, ResolveAgrees DEF Post
  <2> QED
    BY <1>1, <2>1, <2>2 DEF RecordApproved
<1>2. ASSUME NEW a \in Attempts, NEW k, RecordDeclined(a, k) PROVE AgreeInv'
  <2>1. CASE Resolve(a, "failed")
    BY <1>2, <2>1, ResolveAgrees DEF RecordDeclined
  <2>2. CASE UNCHANGED <<istatus, rowVars>>
    BY <1>2, <2>2, OpenAgrees DEF TypeInv, RecordDeclined
  <2> QED
    BY <1>2, <2>1, <2>2 DEF RecordDeclined
<1>3. ASSUME NEW a \in Attempts, RecordOpen(a) PROVE AgreeInv'
  <2>1. \E s \in {status[a], "submitted", "indeterminate"} :
          status' = [status EXCEPT ![a] = s] /\ (s = status[a] \/ status[a] = "submitting")
    BY <1>3 DEF RecordOpen, TypeInv
  <2>2. /\ status' \in [Attempts -> Statuses]
        /\ \A b \in Attempts : status'[b] = status[b] \/ {status[b], status'[b]} \subseteq Open
    BY <2>1 DEF TypeInv, Statuses, Open
  <2> QED
    BY <1>3, <2>2, OpenAgrees DEF RecordOpen, TypeInv
<1>4. CASE Sweep
  <2>1. /\ status' \in [Attempts -> Statuses]
        /\ \A b \in Attempts : status'[b] = status[b] \/ {status[b], status'[b]} \subseteq Open
    BY <1>4 DEF Sweep, TypeInv, Statuses, Open
  <2> QED
    BY <1>4, <2>1, OpenAgrees DEF Sweep, TypeInv
<1>5. ASSUME NEW i \in Intents, CancelIntent(i) PROVE AgreeInv'
  <2>1. /\ istatus' \in [Intents -> IntentStatuses]
        /\ \A j \in Intents : \/ istatus'[j] = istatus[j]
                              \/ istatus[j] = "created" /\ istatus'[j] = "canceled"
    BY <1>5 DEF CancelIntent, Confirmable, TypeInv, IntentStatuses
  <2> QED
    BY <1>5, <2>1, OpenAgrees DEF CancelIntent, TypeInv
<1>6. CASE UNCHANGED <<istatus, captured, status, target, journal>>
  BY <1>6, OpenAgrees DEF TypeInv
<1> QED
  BY <1>1, <1>2, <1>3, <1>4, <1>5, <1>6, BeginAgrees
     DEF Next, Progress, Execute, Inbox, Read, Submit, CircuitOpen, Answer,
         ResolveFromProvider, Exhaust, ReplayDead, ProviderDecides, Ingest, Age, Crash, vars

LEMMA AgreeImplies == Inv /\ AgreeInv => IntentAgrees
<1> SUFFICES ASSUME Inv, AgreeInv, NEW i \in Intents
             PROVE  /\ istatus[i] \in Paid <=> \E a \in AttemptsOf(i) : status[a] = "succeeded"
                    /\ istatus[i] = "failed" <=> \E a \in AttemptsOf(i) : status[a] = "failed"
                    /\ istatus[i] = "processing" <=> \E a \in AttemptsOf(i) : status[a] \in Open
                    /\ captured[i] = IF istatus[i] \in Paid THEN Amount[i] ELSE 0
                    /\ \A a \in AttemptsOf(i) : status[a] = "succeeded" <=> CaptureKey(a) \in journal
  BY DEF IntentAgrees
<1>1. \A a \in AttemptsOf(i) : a \in Attempts /\ status[a] # "none" /\ target[a] = i
  BY DEF AttemptsOf, AgreeInv
<1>2. istatus[i] \notin {"created", "canceled"} => \E a \in AttemptsOf(i) : status[a] # "none"
  BY DEF AttemptsOf, AgreeInv
<1> QED
  BY <1>1, <1>2 DEF AgreeInv, Paid

-----------------------------------------------------------------------------
(* The sessions. *)

\* What a session knows, and what it told the buyer, stays true.
SessionInv ==
  /\ session \in [Sessions -> {"none", "open", "completed", "expired"}]
  /\ wraps \in [Sessions -> Intents \cup {NoIntent}]
  /\ lapsed \in [Sessions -> BOOLEAN]
  /\ seen \in [Sessions -> IntentStatuses \cup {NoRead}]
  /\ \A s \in Sessions :
       /\ session[s] # "none" \/ seen[s] # NoRead => wraps[s] \in Intents
       /\ session[s] = "completed" \/ seen[s] = "succeeded"
            => captured[wraps[s]] = Amount[wraps[s]]
       /\ session[s] = "expired" => lapsed[s]

CheckoutInv == Inv /\ SessionInv

LEMMA CheckoutInitInv == CheckoutInit => CheckoutInv
  BY InitInv, CheckoutAssumption
     DEF CheckoutInit, CheckoutInv, SessionInv, IntentStatuses

\* amount_captured is written once, with the amount of the intent.
LEMMA CapturedStays ==
  ASSUME Inv, [Next]_vars
  PROVE  \A i \in Intents : captured[i] = Amount[i] => captured'[i] = Amount[i]
<1>1. UNCHANGED captured \/ \E i : captured' = [captured EXCEPT ![i] = Amount[i]]
  <2>1. ASSUME NEW a \in Attempts, NEW i \in Intents, BeginIn(a, i) PROVE UNCHANGED captured
    BY <2>1 DEF BeginIn
  <2>2. ASSUME NEW a \in Attempts, NEW k, RecordApproved(a, k)
        PROVE  UNCHANGED captured \/ \E i : captured' = [captured EXCEPT ![i] = Amount[i]]
    BY <2>2 DEF RecordApproved, intentVars
  <2>3. ASSUME NEW a \in Attempts, Execute(a), ~RecordApproved(a, Executor(a))
        PROVE  UNCHANGED captured
    BY <2>3 DEF Execute, Read, Submit, CircuitOpen, Answer, RecordOpen, RecordDeclined, intentVars
  <2>4. ASSUME NEW a \in Attempts, Inbox(a), ~RecordApproved(a, Resolver(a))
        PROVE  UNCHANGED captured
    BY <2>4 DEF Inbox, ResolveFromProvider, Exhaust, RecordDeclined, intentVars
  <2>5. CASE UNCHANGED vars
    BY <2>5 DEF vars, intentVars
  <2> QED
    BY <2>1, <2>2, <2>3, <2>4, <2>5
       DEF Next, Progress, ReplayDead, ProviderDecides, Ingest, Age, CancelIntent, Crash,
           Sweep, intentVars
<1> QED
  BY <1>1 DEF Inv, TypeInv

\* A step of the payment under the sessions.
LEMMA PaymentKeeps ==
  ASSUME CheckoutInv, [Next]_vars, UNCHANGED sessionVars
  PROVE  CheckoutInv'
<1>1. Inv'
  BY StepInv DEF CheckoutInv
<1>2. \A s \in Sessions : wraps[s] \in Intents /\ captured[wraps[s]] = Amount[wraps[s]]
                            => captured'[wraps[s]] = Amount[wraps[s]]
  BY CapturedStays DEF CheckoutInv
<1>3. SessionInv'
  BY <1>2, CheckoutAssumption DEF CheckoutInv, SessionInv, IntentStatuses, sessionVars
<1> QED
  BY <1>1, <1>3 DEF CheckoutInv

\* A step of a session over an unchanged payment.
LEMMA SessionKeeps ==
  ASSUME CheckoutInv, NEW s \in Sessions,
         \/ \E i \in Intents : CreateIn(s, i) \/ CreateSessionFromLink(s, i)
         \/ Insert(s) \/ SyncRead(s) \/ SyncWrite(s) \/ Lapse(s)
  PROVE  CheckoutInv'
<1>1. UNCHANGED vars
  BY DEF CreateIn, CreateSessionFromLink, Insert, SyncRead, SyncWrite, Lapse
<1>2. Inv'
  BY <1>1, StutterKeeps DEF CheckoutInv
<1>3. istatus' = istatus /\ captured' = captured
  BY <1>1 DEF vars, intentVars
<1>4. ASSUME NEW i \in Intents, CreateIn(s, i) PROVE SessionInv'
  BY <1>3, <1>4, CheckoutAssumption
     DEF CreateIn, CheckoutInv, Inv, TypeInv, SessionInv, OpenForCheckout, Confirmable,
         IntentStatuses
<1>5. ASSUME Insert(s) PROVE SessionInv'
  BY <1>3, <1>5, CheckoutAssumption DEF Insert, CheckoutInv, SessionInv, IntentStatuses
<1>6. ASSUME SyncRead(s) PROVE SessionInv'
  BY <1>3, <1>6
     DEF SyncRead, Unlocked, CheckoutInv, Inv, TypeInv, PaidInv, Paid, SessionInv
<1>7. ASSUME SyncWrite(s) PROVE SessionInv'
  BY <1>3, <1>7, CheckoutAssumption DEF SyncWrite, CheckoutInv, SessionInv, IntentStatuses
<1>8. ASSUME Lapse(s) PROVE SessionInv'
  BY <1>3, <1>8 DEF Lapse, CheckoutInv, SessionInv
<1>9. ASSUME NEW i \in Intents, CreateSessionFromLink(s, i) PROVE SessionInv'
  BY <1>3, <1>9, CheckoutAssumption
     DEF CreateSessionFromLink, CheckoutInv, SessionInv, IntentStatuses
<1> QED
  BY <1>2, <1>4, <1>5, <1>6, <1>7, <1>8, <1>9 DEF CheckoutInv

LEMMA ConfirmKeeps ==
  ASSUME CheckoutInv, NEW s \in Sessions, NEW a \in Attempts, ConfirmByClientSecret(s, a)
  PROVE  CheckoutInv'
<1>1. wraps[s] \in Intents
  BY DEF ConfirmByClientSecret, Unlocked, CheckoutInv, SessionInv
<1> QED
  BY <1>1, PaymentKeeps DEF ConfirmByClientSecret, Next

LEMMA SweepSessionsKeeps == ASSUME CheckoutInv, SweepSessions PROVE CheckoutInv'
<1>1. Inv' /\ captured' = captured
  BY StutterKeeps DEF SweepSessions, CheckoutInv, vars, intentVars
<1>2. \A s \in ToComplete : captured[wraps[s]] = Amount[wraps[s]]
  BY DEF ToComplete, CheckoutInv, SessionInv, Inv, PaidInv, Paid
<1>3. \A s \in ToExpire : lapsed[s]
  BY DEF ToExpire
<1>4. \A s \in ToComplete \cup ToExpire : session[s] = "open"
  BY DEF ToComplete, ToExpire
<1>5. SessionInv'
  BY <1>1, <1>2, <1>3, <1>4 DEF SweepSessions, CheckoutInv, SessionInv
<1> QED
  BY <1>1, <1>5 DEF CheckoutInv

LEMMA RefundKeeps == ASSUME CheckoutInv, NEW i \in Intents, Refund(i) PROVE CheckoutInv'
<1>1. \E to \in Paid : istatus[i] \in Paid /\ istatus' = [istatus EXCEPT ![i] = to]
  BY DEF Refund, RefundTransitions, Paid
<1>2. UNCHANGED <<captured, status, target, provider, event, pc, session, wraps, lapsed, seen>>
  BY DEF Refund, rowVars, inboxVars, sessionVars
<1>3. TypeInv'
  BY <1>1, <1>2 DEF CheckoutInv, Inv, TypeInv, Paid, IntentStatuses
<1>4. OwnInv' /\ PaidInv'
  BY <1>1, <1>2 DEF CheckoutInv, Inv, TypeInv, OwnInv, PaidInv, Paid
<1>5. WordInv' /\ SessionInv'
  BY <1>2 DEF CheckoutInv, Inv, WordInv, SessionInv
<1> QED
  BY <1>3, <1>4, <1>5 DEF CheckoutInv, Inv

LEMMA CheckoutStepInv == ASSUME CheckoutInv, [CheckoutNext]_checkoutVars PROVE CheckoutInv'
  BY PaymentKeeps, SessionKeeps, ConfirmKeeps, SweepSessionsKeeps, RefundKeeps
     DEF CheckoutNext, checkoutVars

LEMMA CheckoutSafe == CheckoutSpec => []CheckoutInv
  BY CheckoutInitInv, CheckoutStepInv, PTL DEF CheckoutSpec

\* The provider is asked once for the money of an intent, however many requests
\* and hosted pages confirm it and whoever crashes in between.
THEOREM ChargedOnce == (Spec => []OneCharge) /\ (CheckoutSpec => []OneCharge)
<1>1. Spec => []OneCharge
  BY InitInv, StepInv, InvImplies, PTL DEF Spec
<1>2. CheckoutInv => OneCharge
  BY InvImplies DEF CheckoutInv
<1> QED
  BY <1>1, <1>2, CheckoutSafe, PTL

\* A payment that succeeded was approved, one that failed was not and will not
\* be, whichever of execute and the inbox recorded it.
THEOREM VerdictByTheProvider ==
  (Spec => []OutcomeIsVerified) /\ (CheckoutSpec => []OutcomeIsVerified)
<1>1. Spec => []OutcomeIsVerified
  BY InitInv, StepInv, InvImplies, PTL DEF Spec
<1>2. CheckoutInv => OutcomeIsVerified
  BY InvImplies DEF CheckoutInv
<1> QED
  BY <1>1, <1>2, CheckoutSafe, PTL

\* A completed session has been paid in full and an expired one had lapsed,
\* though both are decided on a read of the intent without its lock.
THEOREM SessionsTellTheTruth == CheckoutSpec => []SessionOutcome
<1>1. CheckoutInv => SessionOutcome
  BY DEF CheckoutInv, SessionInv, SessionOutcome
<1> QED
  BY <1>1, CheckoutSafe, PTL

LEMMA CheckoutAgreeStep ==
  ASSUME CheckoutInv, AgreeInv, [CheckoutNext]_checkoutVars
  PROVE  AgreeInv'
<1> USE DEF CheckoutInv
<1>1. CASE [Next]_vars
  BY <1>1, AgreeStep
<1>2. ASSUME NEW s \in Sessions, NEW a \in Attempts, ConfirmByClientSecret(s, a)
      PROVE  AgreeInv'
  <2>1. wraps[s] \in Intents
    BY <1>2 DEF ConfirmByClientSecret, Unlocked, SessionInv
  <2> QED
    BY <1>2, <2>1, BeginAgrees DEF ConfirmByClientSecret
<1>3. ASSUME NEW i \in Intents, Refund(i) PROVE AgreeInv'
  <2>1. \E to \in Paid : istatus[i] \in Paid /\ istatus' = [istatus EXCEPT ![i] = to]
    BY <1>3 DEF Refund, RefundTransitions, Paid
  <2>2. /\ istatus' \in [Intents -> IntentStatuses]
        /\ \A j \in Intents : istatus'[j] = istatus[j] \/ {istatus[j], istatus'[j]} \subseteq Paid
    BY <2>1 DEF Inv, TypeInv, Paid, IntentStatuses
  <2> QED
    BY <1>3, <2>2, OpenAgrees DEF Refund, ledgerVars, rowVars, Inv, TypeInv
<1>4. CASE UNCHANGED vars
  BY <1>4, AgreeStep
<1> QED
  BY <1>1, <1>2, <1>3, <1>4
     DEF CheckoutNext, checkoutVars, CreateIn, CreateSessionFromLink, Insert, SyncRead, SyncWrite,
         Lapse, SweepSessions

\* The intent, its attempts and its capture in the journal close together or not
\* at all: each transaction of confirmation writes the three, whichever process
\* gets to record the outcome, and a refund later leaves them so.
THEOREM BookedTogether == (Spec => []IntentAgrees) /\ (CheckoutSpec => []IntentAgrees)
<1>1. Spec => [](Inv /\ AgreeInv)
  BY InitInv, StepInv, AgreeInit, AgreeStep, PTL DEF Spec
<1>2. CheckoutInit => AgreeInv
  BY AgreeInit DEF CheckoutInit
<1>3. CheckoutSpec => [](CheckoutInv /\ AgreeInv)
  BY <1>2, CheckoutInitInv, CheckoutStepInv, CheckoutAgreeStep, PTL DEF CheckoutSpec
<1>4. CheckoutInv /\ AgreeInv => IntentAgrees
  BY AgreeImplies DEF CheckoutInv
<1> QED
  BY <1>1, <1>3, <1>4, AgreeImplies, PTL

-----------------------------------------------------------------------------
(* What was captured is in the ledger, split between merchants and platform. *)

PaidIntents == {i \in Intents : istatus[i] \in Paid}
PaidOf(m) == {i \in Intents : istatus[i] \in Paid /\ MerchantOf[i] = m}

\* CapturesAreSplit, account by account.
SplitInv ==
  /\ balance \in [Accounts -> Int]
  /\ balance[Platform("provider.clearing")]
       = OpeningBalance[Platform("provider.clearing")] + Total(captured, Intents)
  /\ \A m \in Merchants :
       balance[Of("merchant.pending", m)]
         = OpeningBalance[Of("merchant.pending", m)]
             + Total(captured, PaidOf(m)) - Total(Fee, PaidOf(m))
  /\ balance[Platform("platform.fees")]
       = OpeningBalance[Platform("platform.fees")] + Total(Fee, PaidIntents)

LEMMA CaptureAccounts ==
  /\ Platform("provider.clearing") \in Accounts
  /\ Platform("platform.fees") \in Accounts
  /\ Platform("provider.clearing") # Platform("platform.fees")
  /\ \A m \in Merchants : Of("merchant.pending", m) \in Accounts
  /\ \A m : /\ Of("merchant.pending", m) # Platform("provider.clearing")
            /\ Of("merchant.pending", m) # Platform("platform.fees")
  /\ \A m, n : Of("merchant.pending", m) = Of("merchant.pending", n) => m = n
  BY DEF Accounts, Of, Platform, MerchantCodes, PlatformCodes

\* Every set of intents has sums.
LEMMA IntentTotals ==
  ASSUME TypeInv, NEW S \in SUBSET Intents
  PROVE  /\ IsFiniteSet(S)
         /\ \A i \in S : captured[i] \in Nat /\ Fee[i] \in Nat
         /\ Total(captured, S) \in Nat /\ Total(Fee, S) \in Nat
<1>1. IsFiniteSet(S) /\ \A i \in S : captured[i] \in Nat /\ Fee[i] \in Nat
  BY FinitelyManyIntents, FS_Subset DEF TypeInv
<1>2. QED
  BY <1>1, TotalType

\* The sums are integers wherever they stand in an equation.
LEMMA SplitImplies == TypeInv /\ SplitInv => CapturesAreSplit
<1> SUFFICES ASSUME TypeInv, SplitInv PROVE CapturesAreSplit
  OBVIOUS
<1>1. \A x \in Accounts : OpeningBalance[x] \in Int
  BY OpeningAssumption
<1>2. balance[Platform("provider.clearing")] - OpeningBalance[Platform("provider.clearing")]
        = Total(captured, Intents)
  BY <1>1, CaptureAccounts, IntentTotals DEF SplitInv
<1>3. ASSUME NEW m \in Merchants
      PROVE  balance[Of("merchant.pending", m)] - OpeningBalance[Of("merchant.pending", m)]
               = Total(captured, PaidOf(m)) - Total(Fee, PaidOf(m))
  <2>1. Total(captured, PaidOf(m)) \in Nat /\ Total(Fee, PaidOf(m)) \in Nat
    BY IntentTotals DEF PaidOf
  <2>2. QED
    BY <1>1, <2>1, CaptureAccounts DEF SplitInv
<1>4. balance[Platform("platform.fees")] - OpeningBalance[Platform("platform.fees")]
        = Total(Fee, PaidIntents)
  <2>1. Total(Fee, PaidIntents) \in Nat
    BY IntentTotals DEF PaidIntents
  <2>2. QED
    BY <1>1, <2>1, CaptureAccounts DEF SplitInv
<1>5. QED
  BY <1>2, <1>3, <1>4 DEF CapturesAreSplit, PaidOf, PaidIntents

LEMMA SplitInit == Init => SplitInv
<1> SUFFICES ASSUME Init PROVE SplitInv
  OBVIOUS
<1>1. PaidIntents = {} /\ \A m : PaidOf(m) = {}
  BY DEF Init, PaidIntents, PaidOf, Paid
<1>2. Total(captured, Intents) = 0
  <2>1. \A i \in Intents : captured[i] = 0
    BY DEF Init
  <2>2. Units(captured, Intents) = {}
    BY <2>1 DEF Units
  <2>3. QED
    BY <2>2, FS_EmptySet DEF Total
<1>3. balance = OpeningBalance
  BY DEF Init, LedgerInit
<1>4. \A x \in Accounts : OpeningBalance[x] \in Int
  BY OpeningAssumption
<1>5. Total(Fee, PaidIntents) = 0 /\ \A m : Total(Fee, PaidOf(m)) = 0 /\ Total(captured, PaidOf(m)) = 0
  BY <1>1, TotalOfNone
<1>6. balance \in [Accounts -> Int]
  BY <1>3, OpeningAssumption
<1>7. QED
  BY <1>2, <1>3, <1>4, <1>5, <1>6, CaptureAccounts DEF SplitInv

\* A step that captures nothing.
LEMMA SplitKept ==
  ASSUME SplitInv, UNCHANGED <<balance, captured>>,
         \A i \in Intents : istatus'[i] \in Paid <=> istatus[i] \in Paid
  PROVE  SplitInv'
<1>1. PaidIntents' = PaidIntents /\ \A m : PaidOf(m)' = PaidOf(m)
  BY DEF PaidIntents, PaidOf
<1>2. QED
  BY <1>1 DEF SplitInv

\* A capture: the intent was not paid, and now it is, in full.
LEMMA SplitCapture ==
  ASSUME TypeInv, SplitInv, NEW i \in Intents, NEW key,
         istatus[i] \notin Paid, captured[i] = 0,
         istatus' = [istatus EXCEPT ![i] = "succeeded"],
         captured' = [captured EXCEPT ![i] = Amount[i]],
         Post(key, CapturePayment(MerchantOf[i], Amount[i], Fee[i]))
  PROVE  SplitInv'
<1>0. PICK m \in Merchants : m = MerchantOf[i]
  OBVIOUS
<1>1. Amount[i] \in Nat /\ Fee[i] \in Nat /\ BalanceType
  BY DEF SplitInv, BalanceType
<1>2. /\ captured' \in [Intents -> Nat] /\ captured'[i] = Amount[i]
      /\ \A j \in Intents \ {i} : captured'[j] = captured[j]
  BY <1>1 DEF TypeInv
<1>3. /\ PaidIntents' = PaidIntents \cup {i} /\ i \notin PaidIntents
      /\ PaidOf(m)' = PaidOf(m) \cup {i} /\ i \notin PaidOf(m)
      /\ \A n \in Merchants : n # m => PaidOf(n)' = PaidOf(n) /\ i \notin PaidOf(n)
  BY <1>0 DEF TypeInv, PaidIntents, PaidOf, Paid
<1>4. Total(captured', Intents) = Total(captured, Intents) + Amount[i]
  <2>1. \A j \in Intents : captured[j] \in Nat /\ captured'[j] \in Nat
    BY <1>2 DEF TypeInv
  <2>2. IsFiniteSet(Intents)
    BY FinitelyManyIntents
  <2>3. PICK before : before = captured
    OBVIOUS
  <2>4. PICK after : after = captured'
    OBVIOUS
  <2>5. /\ \A j \in Intents : before[j] \in Nat /\ after[j] \in Nat
        /\ \A j \in Intents \ {i} : after[j] = before[j]
    BY <1>2, <2>1, <2>3, <2>4
  <2>6. Total(after, Intents) = Total(before, Intents) - before[i] + after[i]
    BY <2>2, <2>5, TotalUpdate
  <2>7. QED
    BY <1>1, <1>2, <2>3, <2>4, <2>6, IntentTotals
<1>5. \A n \in Merchants : Total(captured', PaidOf(n)) = Total(captured, PaidOf(n))
  <2>1. ASSUME NEW n \in Merchants
        PROVE  \A j \in PaidOf(n) : captured'[j] = captured[j]
    BY <1>2, <1>3 DEF PaidOf
  <2>2. QED
    BY <2>1, TotalCongruence
<1>6. Total(captured', PaidOf(m) \cup {i}) = Total(captured, PaidOf(m)) + Amount[i]
  <2>1. IsFiniteSet(PaidOf(m)) /\ \A j \in PaidOf(m) : captured'[j] \in Nat
    BY <1>2, IntentTotals DEF PaidOf
  <2>2. Total(captured', PaidOf(m) \cup {i}) = Total(captured', PaidOf(m)) + captured'[i]
    BY <1>1, <1>2, <1>3, <2>1, TotalAdd, ZenonT(40)
  <2>3. QED
    BY <1>2, <1>5, <2>2
<1>7. /\ Total(Fee, PaidOf(m) \cup {i}) = Total(Fee, PaidOf(m)) + Fee[i]
      /\ Total(Fee, PaidIntents \cup {i}) = Total(Fee, PaidIntents) + Fee[i]
  <2>1. /\ IsFiniteSet(PaidOf(m)) /\ \A j \in PaidOf(m) : Fee[j] \in Nat
        /\ IsFiniteSet(PaidIntents) /\ \A j \in PaidIntents : Fee[j] \in Nat
    BY IntentTotals DEF PaidOf, PaidIntents
  <2>2. QED
    BY <1>1, <1>3, <2>1, TotalAdd
<1>8. /\ balance' \in [Accounts -> Int]
      /\ balance'[Platform("provider.clearing")] = balance[Platform("provider.clearing")] + Amount[i]
      /\ balance'[Of("merchant.pending", m)]
           = balance[Of("merchant.pending", m)] + Amount[i] - Fee[i]
      /\ \A n \in Merchants : n # m =>
           balance'[Of("merchant.pending", n)] = balance[Of("merchant.pending", n)]
      /\ balance'[Platform("platform.fees")] = balance[Platform("platform.fees")] + Fee[i]
  <2>1. balance' = Applied(CapturePayment(m, Amount[i], Fee[i]))
    BY <1>0 DEF Post
  <2>2. /\ balance' \in [Accounts -> Int]
        /\ \A x \in Accounts :
             balance'[x] = CASE x = Platform("provider.clearing") -> balance[x] + Amount[i]
                             [] x = Of("merchant.pending", m) -> balance[x] + Amount[i] - Fee[i]
                             [] x = Platform("platform.fees") -> balance[x] + Fee[i]
                             [] OTHER -> balance[x]
    <3>1. PICK a \in Int, fee \in Int : a = Amount[i] /\ fee = Fee[i]
      BY <1>1
    <3>2. /\ Applied(CapturePayment(m, a, fee)) \in [Accounts -> Int]
          /\ \A x \in Accounts :
               Applied(CapturePayment(m, a, fee))[x]
                 = CASE x = Platform("provider.clearing") -> balance[x] + a
                     [] x = Of("merchant.pending", m) -> balance[x] + a - fee
                     [] x = Platform("platform.fees") -> balance[x] + fee
                     [] OTHER -> balance[x]
      BY <1>1, CaptureApplied, ZenonT(40)
    <3>3. balance' = Applied(CapturePayment(m, a, fee))
      BY <2>1, <3>1
    <3>4. QED
      BY <3>1, <3>2, <3>3
  <2>3. QED
    BY <2>2, CaptureAccounts
<1>9. \A n \in Merchants : Total(captured, PaidOf(n)) \in Nat /\ Total(Fee, PaidOf(n)) \in Nat
  BY IntentTotals DEF PaidOf
<1>10. /\ Total(captured, Intents) \in Nat /\ Total(Fee, PaidIntents) \in Nat
       /\ \A x \in Accounts : OpeningBalance[x] \in Int
  BY IntentTotals, OpeningAssumption DEF PaidIntents
<1>11. ASSUME NEW n \in Merchants
       PROVE  balance'[Of("merchant.pending", n)]
                = OpeningBalance[Of("merchant.pending", n)]
                    + Total(captured', PaidOf(n)') - Total(Fee, PaidOf(n)')
  <2>1. balance[Of("merchant.pending", n)]
          = OpeningBalance[Of("merchant.pending", n)]
              + Total(captured, PaidOf(n)) - Total(Fee, PaidOf(n))
    BY DEF SplitInv
  <2>2. OpeningBalance[Of("merchant.pending", n)] \in Int
    BY <1>10, CaptureAccounts
  <2>3. CASE n = m
    <3>1. PaidOf(n)' = PaidOf(m) \cup {i}
      BY <1>3, <2>3
    <3>2. /\ Total(captured', PaidOf(n)') = Total(captured, PaidOf(n)) + Amount[i]
          /\ Total(Fee, PaidOf(n)') = Total(Fee, PaidOf(n)) + Fee[i]
      BY <1>6, <1>7, <2>3, <3>1
    <3>3. balance'[Of("merchant.pending", n)]
            = balance[Of("merchant.pending", n)] + Amount[i] - Fee[i]
      BY <1>8, <2>3
    <3>4. QED
      BY <1>1, <1>9, <2>1, <2>2, <3>2, <3>3
  <2>4. CASE n # m
    BY <1>3, <1>5, <1>8, <2>1, <2>4
  <2>5. QED
    BY <2>3, <2>4
<1>12. /\ balance'[Platform("provider.clearing")]
            = OpeningBalance[Platform("provider.clearing")] + Total(captured', Intents)
       /\ balance'[Platform("platform.fees")]
            = OpeningBalance[Platform("platform.fees")] + Total(Fee, PaidIntents')
  BY <1>1, <1>3, <1>4, <1>7, <1>8, <1>10, CaptureAccounts DEF SplitInv
<1>13. QED
  BY <1>8, <1>11, <1>12 DEF SplitInv

LEMMA SplitStep == ASSUME Inv, AgreeInv, SplitInv, [Next]_vars PROVE SplitInv'
<1> USE DEF Inv, ledgerVars, intentVars, rowVars
<1>1. ASSUME NEW a \in Attempts, NEW k, RecordApproved(a, k) PROVE SplitInv'
  <2>1. CASE UNCHANGED <<ledgerVars, intentVars, rowVars>>
    BY <2>1, SplitKept
  <2>2. CASE /\ Post(CaptureKey(a), CapturePayment(MerchantOf[target[a]], Amount[target[a]],
                                                   Fee[target[a]]))
             /\ Resolve(a, "succeeded")
             /\ captured' = [captured EXCEPT ![target[a]] = Amount[target[a]]]
    <3>1. /\ istatus[target[a]] = "processing" /\ status[a] \in Open
          /\ istatus' = [istatus EXCEPT ![target[a]] = "succeeded"]
      BY <2>2 DEF Resolve, TransitionIn, Legal, Transitions, Open
    <3>2. target[a] \in Intents
      BY <3>1 DEF OwnInv, Open
    <3>3. captured[target[a]] = 0 /\ istatus[target[a]] \notin Paid
      BY <3>1, <3>2 DEF AgreeInv, Paid
    <3> QED
      BY <2>2, <3>1, <3>2, <3>3, SplitCapture
  <2> QED
    BY <1>1, <2>1, <2>2 DEF RecordApproved
<1>2. ASSUME NEW a \in Attempts, NEW k, RecordDeclined(a, k) PROVE SplitInv'
  <2>1. CASE Resolve(a, "failed")
    <3>1. /\ istatus[target[a]] = "processing" /\ status[a] \in Open
          /\ istatus' = [istatus EXCEPT ![target[a]] = "failed"]
      BY <2>1 DEF Resolve, TransitionIn, Legal, Transitions, Open
    <3> QED
      BY <1>2, <3>1, SplitKept DEF RecordDeclined, TypeInv, Paid
  <2>2. CASE UNCHANGED <<istatus, rowVars>>
    BY <1>2, <2>2, SplitKept DEF RecordDeclined
  <2> QED
    BY <1>2, <2>1, <2>2 DEF RecordDeclined
<1>3. ASSUME NEW a \in Attempts, NEW i \in Intents, BeginIn(a, i) PROVE SplitInv'
  BY <1>3, SplitKept DEF BeginIn, Confirmable, TypeInv, Paid
<1>4. ASSUME NEW i \in Intents, CancelIntent(i) PROVE SplitInv'
  BY <1>4, SplitKept DEF CancelIntent, Confirmable, TypeInv, Paid
<1>5. CASE UNCHANGED <<balance, captured, istatus>>
  BY <1>5, SplitKept
<1> QED
  BY <1>1, <1>2, <1>3, <1>4, <1>5
     DEF Next, Progress, Execute, Inbox, Read, Submit, CircuitOpen, Answer, RecordOpen, Sweep,
         ResolveFromProvider, Exhaust, ReplayDead, ProviderDecides, Ingest, Age, Crash, vars

\* Confirming through a session begins an attempt; a refund leaves a paid
\* intent paid and, here, the ledger alone.
LEMMA CheckoutSplitStep ==
  ASSUME CheckoutInv, AgreeInv, SplitInv, [CheckoutNext]_checkoutVars
  PROVE  SplitInv'
<1> USE DEF CheckoutInv
<1>1. CASE [Next]_vars
  BY <1>1, SplitStep
<1>2. ASSUME NEW s \in Sessions, NEW a \in Attempts, ConfirmByClientSecret(s, a)
      PROVE  SplitInv'
  <2>1. wraps[s] \in Intents
    BY <1>2 DEF ConfirmByClientSecret, Unlocked, SessionInv
  <2>2. BeginIn(a, wraps[s])
    BY <1>2 DEF ConfirmByClientSecret
  <2> QED
    BY <2>1, <2>2, SplitStep DEF Next
<1>3. ASSUME NEW i \in Intents, Refund(i) PROVE SplitInv'
  BY <1>3, SplitKept DEF Refund, RefundTransitions, ledgerVars, Inv, TypeInv, Paid
<1>4. CASE UNCHANGED vars
  BY <1>4, SplitStep
<1> QED
  BY <1>1, <1>2, <1>3, <1>4
     DEF CheckoutNext, checkoutVars, CreateIn, CreateSessionFromLink, Insert, SyncRead, SyncWrite,
         Lapse, SweepSessions

\* Every payment is booked once and in full: what the provider owes is what the
\* intents say was captured, and each merchant and the platform have their part.
THEOREM ChargesBooked == (Spec => []ChargesAreBooked) /\ (CheckoutSpec => []ChargesAreBooked)
<1>1. Spec => [](Inv /\ AgreeInv /\ SplitInv)
  BY InitInv, StepInv, AgreeInit, AgreeStep, SplitInit, SplitStep, PTL DEF Spec
<1>2. CheckoutInit => AgreeInv /\ SplitInv
  BY AgreeInit, SplitInit DEF CheckoutInit
<1>3. CheckoutSpec => [](CheckoutInv /\ AgreeInv /\ SplitInv)
  BY <1>2, CheckoutInitInv, CheckoutStepInv, CheckoutAgreeStep, CheckoutSplitStep, PTL
     DEF CheckoutSpec
<1>4. Inv /\ AgreeInv /\ SplitInv => ChargesAreBooked
  BY AgreeImplies, SplitImplies DEF Inv, ChargesAreBooked
<1>5. CheckoutInv /\ AgreeInv /\ SplitInv => ChargesAreBooked
  BY <1>4 DEF CheckoutInv
<1> QED
  BY <1>1, <1>3, <1>4, <1>5, PTL
=============================================================================
