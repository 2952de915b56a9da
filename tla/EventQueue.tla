----------------------------- MODULE EventQueue -----------------------------
(***************************************************************************)
(* The two queues that the worker process drains from PostgreSQL with the   *)
(* same protocol: outbox_events by OutboxRelay (packages/outbox) and        *)
(* provider_events by InboxProcessor (packages/inbox).  Every SQL statement *)
(* is one step; publish and handler calls happen between statements, under  *)
(* a lease that is nothing but a next_attempt_at in the future.  A lease or *)
(* a backoff may run out at any moment, also while its worker is slow.      *)
(***************************************************************************)
EXTENDS Integers, FiniteSets

CONSTANTS
  Events,       \* rows that may be inserted
  Bodies,       \* what the events may carry, a set of functions
  Workers,      \* cycles of the relay or of the processor, one per process
  MaxAttempts,  \* opts.maxAttempts
  BatchSize,    \* opts.batchSize
  MaxReplays,   \* bound: events that an operator replays, once each
  NoRow         \* no event in hand

ASSUME QueueAssumption ==
  /\ Bodies \subseteq [Events -> {"valid", "poison", "unhandled"}]
  /\ MaxAttempts \in Nat \ {0}
  /\ BatchSize \in Nat \ {0}
  /\ MaxReplays \in Nat

VARIABLES
  queue,     \* "outbox" or "inbox": the table of this behaviour
  body,      \* what each event carries: "valid", "poison" or "unhandled"
  status,    \* "absent" before the insert; "settled" is delivered, or
             \* processed or ignored
  attempts,  \* attempts of the row
  due,       \* next_attempt_at <= now()
  batch,     \* rows each worker claimed and has not finished
  cur,       \* the row in its hand
  at,        \* "next", "done", "failed" or "filed"
  done,      \* events that the publisher or the handler carried out
  dlq,       \* events with a copy in raw_provider_payloads_dlq
  tries,     \* history: claims of each event
  budget     \* history: attempts granted by its insert and its replays

rowVars == <<status, attempts, due>>
workerVars == <<batch, cur, at>>
effectVars == <<done, dlq>>
historyVars == <<tries, budget>>
vars == <<queue, body, rowVars, workerVars, effectVars, historyVars>>

Claim == [row : Events, attempt : 1..MaxAttempts]

Init ==
  /\ queue \in {"outbox", "inbox"}
  /\ body \in Bodies
  /\ queue = "outbox" => \A e \in Events : body[e] # "unhandled"
  /\ status = [e \in Events |-> "absent"]
  /\ attempts = [e \in Events |-> 0]
  /\ due = [e \in Events |-> FALSE]
  /\ batch = [w \in Workers |-> {}]
  /\ cur = [w \in Workers |-> NoRow]
  /\ at = [w \in Workers |-> "next"]
  /\ done = {}
  /\ dlq = {}
  /\ tries = [e \in Events |-> 0]
  /\ budget = [e \in Events |-> 0]

-----------------------------------------------------------------------------
Insert(e) ==
  /\ status[e] = "absent"
  /\ status' = [status EXCEPT ![e] = "pending"]
  /\ due' = [due EXCEPT ![e] = TRUE]
  /\ budget' = [budget EXCEPT ![e] = @ + MaxAttempts]
  /\ UNCHANGED <<queue, body, attempts, workerVars, effectVars, tries>>

\* An outbox event is inserted with the change it announces ...
Emit(e) == queue = "outbox" /\ Insert(e)

\* ... and a signed webhook on its first arrival: ON CONFLICT DO NOTHING.
Ingest(e) == queue = "inbox" /\ Insert(e)

\* replayDeadOutboxEvents, and replayDeadProviderEvents.
Replay(e) ==
  /\ status[e] = "dead"
  /\ budget[e] = MaxAttempts
  /\ Cardinality({f \in Events : budget[f] > MaxAttempts}) < MaxReplays
  /\ status' = [status EXCEPT ![e] = "pending"]
  /\ attempts' = [attempts EXCEPT ![e] = 0]
  /\ due' = [due EXCEPT ![e] = TRUE]
  /\ budget' = [budget EXCEPT ![e] = @ + MaxAttempts]
  /\ UNCHANGED <<queue, body, workerVars, effectVars, tries>>

\* A lease or a backoff runs out.
Elapse(e) ==
  /\ status[e] = "pending"
  /\ ~due[e]
  /\ due' = [due EXCEPT ![e] = TRUE]
  /\ UNCHANGED <<queue, body, status, attempts, workerVars, effectVars, historyVars>>

-----------------------------------------------------------------------------
\* Bug: a row is finished whatever became of it meanwhile.
MarkAlways(e, s) == status' = [status EXCEPT ![e] = s]

\* Every write of a worker that ends an attempt says AND status = 'pending'.
Mark(e, s) ==
  status' = [status EXCEPT ![e] = IF @ = "pending" THEN s ELSE @]

Take(w, r, point) ==
  /\ at[w] = "next"
  /\ r \in batch[w]
  /\ cur' = [cur EXCEPT ![w] = r]
  /\ at' = [at EXCEPT ![w] = point]
  /\ UNCHANGED batch

\* The row in hand is left: the next one of the batch follows.
Leave(w) ==
  /\ batch' = [batch EXCEPT ![w] = @ \ {cur[w]}]
  /\ cur' = [cur EXCEPT ![w] = NoRow]
  /\ at' = [at EXCEPT ![w] = "next"]

Zombies == {e \in Events : status[e] = "pending" /\ attempts[e] >= MaxAttempts /\ due[e]}

\* Bug: the sweep is missing.
SweepNothing(w) == FALSE /\ UNCHANGED vars

\* Rows whose last claim ran out without a result.
SweepZombies(w) ==
  /\ batch[w] = {}
  /\ Zombies # {}
  /\ status' = [e \in Events |-> IF e \in Zombies THEN "dead" ELSE status[e]]
  /\ UNCHANGED <<queue, body, attempts, due, workerVars, effectVars, historyVars>>

Eligible == {e \in Events : status[e] = "pending" /\ attempts[e] < MaxAttempts /\ due[e]}

\* The claim leaves out what is locked, and the lease starts for the whole
\* batch.
ClaimBatch(w) ==
  /\ batch[w] = {}
  /\ \E S \in (SUBSET Eligible) \ {{}} :
       /\ Cardinality(S) <= BatchSize
       /\ attempts' = [e \in Events |-> IF e \in S THEN attempts[e] + 1 ELSE attempts[e]]
       /\ due' = [e \in Events |-> e \notin S /\ due[e]]
       /\ batch' = [batch EXCEPT ![w] = {[row |-> e, attempt |-> attempts[e] + 1] : e \in S}]
       /\ tries' = [e \in Events |-> IF e \in S THEN tries[e] + 1 ELSE tries[e]]
  /\ UNCHANGED <<queue, body, status, cur, at, effectVars, budget>>

-----------------------------------------------------------------------------
\* publisher.publish or the handler succeeds ...
Publish(w, r) ==
  /\ Take(w, r, "done")
  /\ body[r.row] = "valid"
  /\ done' = done \cup {r.row}
  /\ UNCHANGED <<queue, body, rowVars, dlq, historyVars>>

\* ... or throws, before or after its effect was committed.
PublishFails(w, r) ==
  /\ Take(w, r, "failed")
  /\ body[r.row] = "valid"
  /\ done' \in {done, done \cup {r.row}}
  /\ UNCHANGED <<queue, body, rowVars, dlq, historyVars>>

\* delivered, or processed or ignored.  The write is in the same try as the
\* publication: when it fails, the attempt failed.
MarkSettled(w) ==
  /\ at[w] = "done"
  /\ \/ Mark(cur[w].row, "settled") /\ Leave(w)
     \/ at' = [at EXCEPT ![w] = "failed"] /\ UNCHANGED <<status, batch, cur>>
  /\ UNCHANGED <<queue, body, attempts, due, effectVars, historyVars>>

\* The attempt counts are those of the claim, not those of the row now.
BackOff(w) ==
  LET r == cur[w] IN
  /\ at[w] = "failed"
  /\ r.attempt < MaxAttempts
  /\ due' = [due EXCEPT ![r.row] = @ /\ status[r.row] # "pending"]
  /\ Leave(w)
  /\ UNCHANGED <<queue, body, status, attempts, effectVars, historyVars>>

GiveUp(w) ==
  /\ at[w] = "failed"
  /\ cur[w].attempt >= MaxAttempts
  /\ Mark(cur[w].row, "dead")
  /\ Leave(w)
  /\ UNCHANGED <<queue, body, attempts, due, effectVars, historyVars>>

Bury(w, r) ==
  /\ at[w] = "next"
  /\ r \in batch[w]
  /\ Mark(r.row, "dead")
  /\ batch' = [batch EXCEPT ![w] = @ \ {r}]
  /\ UNCHANGED <<queue, body, attempts, due, cur, at, effectVars, historyVars>>

\* The relay buries an invalid envelope at once ...
BuryPoison(w, r) == body[r.row] = "poison" /\ Bury(w, r)

\* Bug: an event that does not parse is buried before it is filed.
BuryUnfiled(w, r) ==
  /\ body[r.row] # "valid"
  /\ Bury(w, r)

\* ... and the processor an event of a provider without a handler; but one
\* that does not parse is copied to the DLQ first, in a statement of its own.
BuryUnhandled(w, r) == body[r.row] = "unhandled" /\ Bury(w, r)

FileInDlq(w, r) ==
  /\ Take(w, r, "filed")
  /\ body[r.row] = "poison"
  /\ dlq' = dlq \cup {r.row}
  /\ UNCHANGED <<queue, body, rowVars, done, historyVars>>

BuryFiled(w) ==
  /\ at[w] = "filed"
  /\ Mark(cur[w].row, "dead")
  /\ Leave(w)
  /\ UNCHANGED <<queue, body, attempts, due, effectVars, historyVars>>

\* The process dies, or a write of its catch fails and the cycle is aborted:
\* the rest of the batch stays claimed until its lease runs out.
Crash(w) ==
  /\ batch[w] # {}
  /\ batch' = [batch EXCEPT ![w] = {}]
  /\ cur' = [cur EXCEPT ![w] = NoRow]
  /\ at' = [at EXCEPT ![w] = "next"]
  /\ UNCHANGED <<queue, body, rowVars, effectVars, historyVars>>

\* runOnce of OutboxRelay, statement by statement ...
RelayCycle(w) ==
  /\ queue = "outbox"
  /\ \/ SweepZombies(w) \/ ClaimBatch(w)
     \/ \E r \in batch[w] : Publish(w, r) \/ PublishFails(w, r) \/ BuryPoison(w, r)
     \/ MarkSettled(w) \/ BackOff(w) \/ GiveUp(w)

\* ... and of InboxProcessor.
ProcessorCycle(w) ==
  /\ queue = "inbox"
  /\ \/ SweepZombies(w) \/ ClaimBatch(w)
     \/ \E r \in batch[w] :
          \/ Publish(w, r) \/ PublishFails(w, r)
          \/ BuryUnhandled(w, r) \/ FileInDlq(w, r)
     \/ MarkSettled(w) \/ BackOff(w) \/ GiveUp(w) \/ BuryFiled(w)

Next ==
  \/ \E e \in Events : Emit(e) \/ Ingest(e) \/ Replay(e) \/ Elapse(e)
  \/ \E w \in Workers : RelayCycle(w) \/ ProcessorCycle(w) \/ Crash(w)

\* The timers run and every await ends; nobody has to replay or to crash.
Fairness ==
  /\ \A e \in Events : WF_vars(Elapse(e))
  /\ \A w \in Workers : WF_vars(RelayCycle(w) \/ ProcessorCycle(w))

Spec == Init /\ [][Next]_vars

FairSpec == Spec /\ Fairness

-----------------------------------------------------------------------------
\* Types, and that a worker has a row in hand exactly while it works on one.
TypeOK ==
  /\ queue \in {"outbox", "inbox"}
  /\ body \in [Events -> {"valid", "poison", "unhandled"}]
  /\ status \in [Events -> {"absent", "pending", "settled", "dead"}]
  /\ attempts \in [Events -> 0..MaxAttempts]
  /\ due \in [Events -> BOOLEAN]
  /\ batch \in [Workers -> SUBSET Claim]
  /\ cur \in [Workers -> Claim \cup {NoRow}]
  /\ at \in [Workers -> {"next", "done", "failed", "filed"}]
  /\ \A w \in Workers : (at[w] = "next" /\ cur[w] = NoRow) \/ cur[w] \in batch[w]
  /\ done \in SUBSET Events
  /\ dlq \in SUBSET Events
  /\ tries \in [Events -> Nat]
  /\ budget \in [Events -> Nat]

\* An invalid provider event is dead before its attempts ran out only with a
\* copy in the DLQ, whoever buried it and however often it was replayed.
PoisonIsFiled ==
  \A e \in Events :
    queue = "inbox" /\ body[e] = "poison" /\ status[e] = "dead" /\ attempts[e] < MaxAttempts
      => e \in dlq

Promise == INSTANCE AtLeastOnce WITH
  deliverable <- {e \in Events : body[e] = "valid"}, Budget <- MaxAttempts

\* Through crashes, expired leases, workers that write late and replays, an
\* event is settled only if it was carried out, tried within its budget and
\* given up only when the budget was spent or nobody can handle it.
PromiseSpec == Promise!Spec

\* No event stays pending: not when its last claimer died, nor when others
\* keep arriving.
EventSettles == []<>(\A e \in Events : status[e] # "pending")
=============================================================================
