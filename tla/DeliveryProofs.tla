---------------------------- MODULE DeliveryProofs ----------------------------
(***************************************************************************)
(* Proofs about the deliveries of events, for every number of them, of      *)
(* workers, endpoints and rows, batch size, attempt limit and number of     *)
(* replays: the queues keep the promise of AtLeastOnce, the inbox buries no *)
(* invalid event without a copy, and the webhooks lose no fan-out and sign  *)
(* what their receivers can verify.                                         *)
(***************************************************************************)
EXTENDS MCDelivery, TLAPS

-----------------------------------------------------------------------------
(* What DeliverySpec says of the two machines. *)

LEMMA DeliveryInits == DeliveryInit => Init /\ Hooks!Init
  BY DEF DeliveryInit

LEMMA DeliverySteps ==
  [DeliveryNext]_deliveryVars => [Next]_vars /\ [Hooks!Next]_(Hooks!vars)
  BY DEF DeliveryNext, deliveryVars, hookVars, Hooks!vars, Hooks!endpointVars, Hooks!rowVars,
         Hooks!workerVars

LEMMA DeliverySafety == DeliverySpec => DeliveryInit /\ [][DeliveryNext]_deliveryVars
  BY DEF DeliverySpec

-----------------------------------------------------------------------------
(* The queues. *)

RowInv ==
  /\ status \in [Events -> {"absent", "pending", "settled", "dead"}]
  /\ attempts \in [Events -> 0..MaxAttempts]
  /\ tries \in [Events -> Nat]
  /\ budget \in [Events -> Nat]
  /\ done \in SUBSET Events
  /\ dlq \in SUBSET Events
  /\ body \in [Events -> {"valid", "poison", "unhandled"}]

WorkerInv ==
  /\ batch \in [Workers -> SUBSET Claim]
  /\ cur \in [Workers -> Claim \cup {NoRow}]
  /\ at \in [Workers -> {"next", "done", "failed", "filed"}]
  /\ \A w \in Workers : at[w] # "next" => cur[w] \in batch[w]

\* What is left of the budget covers the attempts that the row still has.
BudgetInv ==
  \A e \in Events :
    /\ attempts[e] <= tries[e]
    /\ status[e] = "absent" => tries[e] = 0
    /\ status[e] # "absent" => tries[e] + MaxAttempts <= budget[e] + attempts[e]

\* A claim is one of the tries of its event, also when it has been lost since,
\* and where the worker stands tells what it did with the event in its hand.
ClaimInv ==
  \A w \in Workers :
    /\ \A r \in batch[w] : r.attempt <= tries[r.row]
    /\ at[w] = "done" => cur[w].row \in done
    /\ at[w] \in {"done", "failed"} => body[cur[w].row] = "valid"
    /\ at[w] = "filed" => body[cur[w].row] = "poison" /\ cur[w].row \in dlq

Inv == RowInv /\ WorkerInv /\ BudgetInv /\ ClaimInv /\ PoisonIsFiled

USE QueueAssumption

LEMMA ClaimFields ==
  ASSUME NEW r \in Claim
  PROVE  /\ r.row \in Events /\ r.attempt \in Nat /\ 1 <= r.attempt
         /\ r.attempt <= MaxAttempts
  BY DEF Claim

LEMMA InitInv == Init => Inv
<1> SUFFICES ASSUME Init PROVE Inv
  OBVIOUS
<1>1. RowInv /\ BudgetInv
  BY DEF Init, RowInv, BudgetInv
<1>2. WorkerInv /\ ClaimInv
  BY DEF Init, WorkerInv, ClaimInv
<1>3. PoisonIsFiled
  BY DEF Init, PoisonIsFiled
<1> QED
  BY <1>1, <1>2, <1>3 DEF Inv

\* An event enters or is revived.
LEMMA EnterKeeps ==
  ASSUME Inv, NEW e \in Events, Insert(e) \/ Replay(e)
  PROVE  Inv'
<1> USE DEF Inv
<1>1. /\ status[e] \in {"absent", "dead"}
      /\ status' = [status EXCEPT ![e] = "pending"]
      /\ budget' = [budget EXCEPT ![e] = @ + MaxAttempts]
      /\ UNCHANGED <<queue, body, batch, cur, at, done, dlq, tries>>
      /\ \/ status[e] = "absent" /\ attempts' = attempts
         \/ status[e] = "dead" /\ attempts' = [attempts EXCEPT ![e] = 0]
  BY DEF Insert, Replay, workerVars, effectVars
<1>2. RowInv'
  BY <1>1 DEF RowInv
<1>3. WorkerInv' /\ ClaimInv'
  BY <1>1 DEF WorkerInv, ClaimInv
<1>4. BudgetInv'
  BY <1>1 DEF BudgetInv, RowInv
<1>5. PoisonIsFiled'
  BY <1>1 DEF PoisonIsFiled, RowInv
<1> QED
  BY <1>2, <1>3, <1>4, <1>5

\* Rows are marked and a worker moves on, or loses what it had in hand.
LEMMA MarkKeeps ==
  ASSUME Inv, NEW w \in Workers, NEW S \in SUBSET Events, NEW to \in {"settled", "dead"},
         status' = [e \in Events |-> IF e \in S /\ status[e] = "pending" THEN to ELSE status[e]],
         queue = "inbox" /\ to = "dead" =>
           \A e \in S : body[e] = "poison" /\ attempts[e] < MaxAttempts => e \in dlq,
         UNCHANGED <<queue, body, attempts, done, dlq, tries, budget>>,
         \A v \in Workers \ {w} : batch'[v] = batch[v] /\ cur'[v] = cur[v] /\ at'[v] = at[v],
         WorkerInv', batch'[w] \subseteq batch[w],
         at'[w] \in {"next", "failed"},
         at'[w] = "failed" => at[w] \in {"done", "failed"} /\ cur'[w] = cur[w]
  PROVE  Inv'
<1> USE DEF Inv
<1>1. RowInv'
  BY DEF RowInv
<1>2. BudgetInv'
  BY DEF BudgetInv, RowInv
<1>3. ClaimInv'
  BY DEF ClaimInv
<1>4. PoisonIsFiled'
  BY DEF PoisonIsFiled, RowInv
<1> QED
  BY <1>1, <1>2, <1>3, <1>4

\* The next event of the batch is taken and something is done with it.
LEMMA TakeKeeps ==
  ASSUME Inv, NEW w \in Workers, NEW r \in batch[w],
         Publish(w, r) \/ PublishFails(w, r) \/ FileInDlq(w, r)
  PROVE  Inv'
<1> USE DEF Inv, rowVars, historyVars
<1>1. r \in Claim
  BY DEF WorkerInv
<1>2. PICK point \in {"done", "failed", "filed"} : Take(w, r, point)
  BY DEF Publish, PublishFails, FileInDlq
<1>3. /\ at' = [at EXCEPT ![w] = point] /\ cur' = [cur EXCEPT ![w] = r] /\ batch' = batch
      /\ at[w] = "next"
  BY <1>2 DEF Take
<1>4. /\ UNCHANGED <<queue, body, status, attempts, tries, budget>>
      /\ done \subseteq done' /\ dlq \subseteq dlq'
      /\ done' \subseteq done \cup {r.row} /\ dlq' \subseteq dlq \cup {r.row}
  BY DEF Publish, PublishFails, FileInDlq
<1>5. /\ at'[w] = "done" => r.row \in done'
      /\ at'[w] \in {"done", "failed"} => body[r.row] = "valid"
      /\ at'[w] = "filed" => body[r.row] = "poison" /\ r.row \in dlq'
  BY <1>3 DEF Publish, PublishFails, FileInDlq, Take, WorkerInv
<1>6. RowInv'
  BY <1>1, <1>4, ClaimFields DEF RowInv
<1>7. WorkerInv'
  BY <1>1, <1>3 DEF WorkerInv
<1>8. BudgetInv' /\ PoisonIsFiled'
  BY <1>4 DEF BudgetInv, PoisonIsFiled
<1>9. ClaimInv'
  BY <1>3, <1>4, <1>5 DEF ClaimInv, WorkerInv
<1> QED
  BY <1>6, <1>7, <1>8, <1>9

LEMMA ClaimBatchKeeps ==
  ASSUME Inv, NEW w \in Workers, ClaimBatch(w)
  PROVE  Inv'
<1> USE DEF Inv, effectVars
<1>1. PICK S \in SUBSET Eligible :
        /\ attempts' = [e \in Events |-> IF e \in S THEN attempts[e] + 1 ELSE attempts[e]]
        /\ batch' = [batch EXCEPT ![w] = {[row |-> e, attempt |-> attempts[e] + 1] : e \in S}]
        /\ tries' = [e \in Events |-> IF e \in S THEN tries[e] + 1 ELSE tries[e]]
  BY DEF ClaimBatch
<1>2. batch[w] = {} /\ UNCHANGED <<queue, body, status, cur, at, done, dlq, budget>>
  BY DEF ClaimBatch
<1>3. \A e \in S : e \in Events /\ status[e] = "pending" /\ attempts[e] < MaxAttempts
  BY DEF Eligible
<1>4. RowInv'
  BY <1>1, <1>2, <1>3 DEF RowInv
<1>5. \A r \in batch'[w] : r \in Claim /\ r.attempt <= tries'[r.row]
  <2> SUFFICES ASSUME NEW e \in S
               PROVE  /\ [row |-> e, attempt |-> attempts[e] + 1] \in Claim
                      /\ attempts[e] + 1 <= tries'[e]
    BY <1>1 DEF WorkerInv
  <2> QED
    BY <1>1, <1>3 DEF Claim, RowInv, BudgetInv
<1>6. at[w] = "next"
  BY <1>2 DEF WorkerInv
<1>7. WorkerInv'
  BY <1>1, <1>2, <1>5, <1>6 DEF WorkerInv
<1>8. BudgetInv'
  BY <1>1, <1>2, <1>3 DEF BudgetInv, RowInv
<1>9. \A v \in Workers : \A r \in batch'[v] : r.attempt <= tries'[r.row]
  <2> SUFFICES ASSUME NEW v \in Workers, v # w, NEW r \in batch[v]
               PROVE  r.attempt <= tries'[r.row]
    BY <1>1, <1>5 DEF WorkerInv
  <2>1. r \in Claim
    BY DEF WorkerInv
  <2> QED
    BY <1>1, <2>1, ClaimFields DEF ClaimInv, RowInv
<1>10. ClaimInv'
  BY <1>2, <1>9 DEF ClaimInv
<1>11. PoisonIsFiled'
  BY <1>1, <1>2, <1>3 DEF PoisonIsFiled, RowInv
<1> QED
  BY <1>4, <1>7, <1>8, <1>10, <1>11

LEMMA SweepKeeps == ASSUME Inv, NEW w \in Workers, SweepZombies(w) PROVE Inv'
<1> USE DEF Inv, workerVars, effectVars, historyVars
<1>1. /\ status' = [e \in Events |-> IF e \in Zombies /\ status[e] = "pending" THEN "dead"
                                     ELSE status[e]]
      /\ UNCHANGED <<queue, body, attempts, batch, cur, at, done, dlq, tries, budget>>
  BY DEF SweepZombies, Zombies
<1>2. RowInv'
  BY <1>1 DEF RowInv
<1>3. WorkerInv' /\ ClaimInv'
  BY <1>1 DEF WorkerInv, ClaimInv
<1>4. BudgetInv'
  BY <1>1 DEF BudgetInv, RowInv
<1>5. PoisonIsFiled'
  BY <1>1 DEF PoisonIsFiled, Zombies, RowInv
<1> QED
  BY <1>2, <1>3, <1>4, <1>5

\* A worker ends its work on the event in its hand.
LEMMA EndKeeps ==
  ASSUME Inv, NEW w \in Workers,
         MarkSettled(w) \/ BackOff(w) \/ GiveUp(w) \/ BuryFiled(w)
  PROVE  Inv'
<1> USE DEF Inv, effectVars, historyVars
<1>1. /\ at[w] # "next" /\ cur[w] \in Claim /\ cur[w].row \in Events
      /\ UNCHANGED <<queue, body, attempts, done, dlq, tries, budget>>
  BY ClaimFields DEF MarkSettled, BackOff, GiveUp, BuryFiled, WorkerInv
<1>2. \/ Leave(w)
      \/ /\ at[w] = "done" /\ at' = [at EXCEPT ![w] = "failed"]
         /\ UNCHANGED <<status, batch, cur>>
  BY DEF MarkSettled, BackOff, GiveUp, BuryFiled
<1>3. /\ WorkerInv' /\ batch'[w] \subseteq batch[w]
      /\ \A v \in Workers \ {w} : batch'[v] = batch[v] /\ cur'[v] = cur[v] /\ at'[v] = at[v]
      /\ at'[w] \in {"next", "failed"}
      /\ at'[w] = "failed" => at[w] \in {"done", "failed"} /\ cur'[w] = cur[w]
  BY <1>2 DEF Leave, WorkerInv
<1> DEFINE Marked(S, to) ==
             /\ status' = [e \in Events |-> IF e \in S /\ status[e] = "pending" THEN to
                                            ELSE status[e]]
             /\ queue = "inbox" /\ to = "dead" =>
                  \A e \in S : body[e] = "poison" /\ attempts[e] < MaxAttempts => e \in dlq
<1>4. \E S \in SUBSET Events, to \in {"settled", "dead"} : Marked(S, to)
  <2>1. {} \in SUBSET Events /\ {cur[w].row} \in SUBSET Events
    BY <1>1
  <2>2. CASE UNCHANGED status
    <3>1. Marked({}, "settled")
      BY <2>2 DEF RowInv
    <3> HIDE DEF Marked
    <3> QED
      BY <2>1, <3>1
  <2>3. CASE MarkSettled(w) /\ ~UNCHANGED status
    <3>1. Marked({cur[w].row}, "settled")
      BY <1>1, <2>3 DEF MarkSettled, Mark, RowInv
    <3> HIDE DEF Marked
    <3> QED
      BY <2>1, <3>1
  <2>4. CASE GiveUp(w) \/ BuryFiled(w)
    <3>1. body[cur[w].row] = "poison" => cur[w].row \in dlq
      BY <2>4 DEF GiveUp, BuryFiled, ClaimInv
    <3>2. Marked({cur[w].row}, "dead")
      BY <1>1, <2>4, <3>1 DEF GiveUp, BuryFiled, Mark, RowInv
    <3> HIDE DEF Marked
    <3> QED
      BY <2>1, <3>2
  <2> QED
    BY <2>2, <2>3, <2>4 DEF MarkSettled, BackOff, GiveUp, BuryFiled
<1> QED
  BY <1>1, <1>3, <1>4, MarkKeeps

\* An event that nobody can handle is buried, or a worker loses its batch.
LEMMA DropKeeps ==
  ASSUME Inv, NEW w \in Workers,
         \/ \E r \in batch[w] : (queue = "outbox" /\ BuryPoison(w, r)) \/ BuryUnhandled(w, r)
         \/ Crash(w)
  PROVE  Inv'
<1> USE DEF Inv, effectVars, historyVars, rowVars
<1>1. UNCHANGED <<queue, body, attempts, done, dlq, tries, budget>>
  BY DEF BuryPoison, BuryUnhandled, Bury, Crash
<1>2. /\ WorkerInv' /\ batch'[w] \subseteq batch[w]
      /\ \A v \in Workers \ {w} : batch'[v] = batch[v] /\ cur'[v] = cur[v] /\ at'[v] = at[v]
      /\ at'[w] = "next"
  BY DEF BuryPoison, BuryUnhandled, Bury, Crash, WorkerInv
<1> DEFINE Buried(S) ==
             /\ status' = [e \in Events |-> IF e \in S /\ status[e] = "pending" THEN "dead"
                                            ELSE status[e]]
             /\ queue = "inbox" => \A e \in S : body[e] # "poison"
<1>3. \E S \in SUBSET Events : Buried(S)
  <2>1. CASE Crash(w)
    <3>1. Buried({})
      BY <2>1 DEF Crash, RowInv
    <3> HIDE DEF Buried
    <3> QED
      BY <3>1
  <2>2. ASSUME NEW r \in batch[w],
               (queue = "outbox" /\ BuryPoison(w, r)) \/ BuryUnhandled(w, r)
        PROVE  \E S \in SUBSET Events : Buried(S)
    <3>1. r.row \in Events
      BY ClaimFields DEF WorkerInv
    <3>2. queue = "inbox" => body[r.row] # "poison"
      BY <2>2 DEF BuryPoison, BuryUnhandled
    <3>3. Buried({r.row})
      BY <2>2, <3>1, <3>2 DEF BuryPoison, BuryUnhandled, Bury, Mark, RowInv
    <3> HIDE DEF Buried
    <3> QED
      BY <3>1, <3>3
  <2> QED
    BY <2>1, <2>2
<1> QED
  BY <1>1, <1>2, <1>3, MarkKeeps

LEMMA StepInv == ASSUME Inv, [Next]_vars PROVE Inv'
<1>1. ASSUME NEW e \in Events, Emit(e) \/ Ingest(e) \/ Replay(e) PROVE Inv'
  BY <1>1, EnterKeeps DEF Emit, Ingest
<1>2. ASSUME NEW e \in Events, Elapse(e) PROVE Inv'
  BY <1>2 DEF Elapse, Inv, RowInv, WorkerInv, BudgetInv, ClaimInv, PoisonIsFiled,
              workerVars, effectVars, historyVars
<1>3. ASSUME NEW w \in Workers, RelayCycle(w) \/ ProcessorCycle(w) \/ Crash(w) PROVE Inv'
  BY <1>3, SweepKeeps, ClaimBatchKeeps, TakeKeeps, EndKeeps, DropKeeps
     DEF RelayCycle, ProcessorCycle
<1>4. CASE UNCHANGED vars
  BY <1>4 DEF vars, Inv, RowInv, WorkerInv, BudgetInv, ClaimInv, PoisonIsFiled,
              rowVars, workerVars, effectVars, historyVars
<1> QED
  BY <1>1, <1>2, <1>3, <1>4 DEF Next

\* The inbox buries an invalid event before its attempts ran out only once a
\* copy of it is filed, for any number of events, processes and replays.
THEOREM NoPoisonUnfiled == (Spec => []PoisonIsFiled) /\ (DeliverySpec => []PoisonIsFiled)
  BY InitInv, StepInv, DeliveryInits, DeliverySteps, DeliverySafety, PTL DEF Spec, Inv

-----------------------------------------------------------------------------
(* The refinement of AtLeastOnce, step by step. *)

LEMMA EnterImplements ==
  ASSUME Inv, NEW e \in Events, Insert(e) \/ Replay(e)
  PROVE  Promise!Enter(e)
<1> USE DEF Inv, Promise!Enter, Promise!Move, workerVars, effectVars
<1>1. status' = [f \in Events |-> IF f \in {e} THEN "pending" ELSE status[f]]
  BY DEF Insert, Replay, RowInv
<1> QED
  BY <1>1 DEF Insert, Replay, RowInv

LEMMA ClaimImplements ==
  ASSUME Inv, NEW w \in Workers, ClaimBatch(w)
  PROVE  \E S \in SUBSET Events : Promise!Try(S)
<1> USE DEF Inv, effectVars
<1>1. PICK S \in SUBSET Eligible :
        tries' = [e \in Events |-> IF e \in S THEN tries[e] + 1 ELSE tries[e]]
  BY DEF ClaimBatch
<1>2. \A e \in S : e \in Events /\ status[e] = "pending" /\ attempts[e] < MaxAttempts
  BY DEF Eligible
<1>3. \A e \in S : tries[e] < budget[e]
  BY <1>2 DEF BudgetInv, RowInv
<1>4. Promise!Try(S)
  BY <1>1, <1>2, <1>3 DEF Promise!Try, ClaimBatch
<1> QED
  BY <1>2, <1>4

LEMMA EffectImplements ==
  ASSUME Inv, NEW w \in Workers, NEW r \in batch[w],
         Publish(w, r) \/ PublishFails(w, r) \/ FileInDlq(w, r)
  PROVE  Promise!Effect(r.row) \/ UNCHANGED Promise!vars
<1> USE DEF Inv, rowVars, historyVars
<1>1. r \in Claim
  BY DEF WorkerInv
<1>2. r.row \in Events /\ tries[r.row] > 0
  BY <1>1, ClaimFields DEF ClaimInv, RowInv
<1> QED
  BY <1>2 DEF Promise!Effect, Promise!vars, Publish, PublishFails, FileInDlq

\* A mark on events that nobody may handle, or whose budget was spent.
LEMMA GiveUpImplements ==
  ASSUME Inv, NEW S \in SUBSET Events,
         status' = [e \in Events |-> IF e \in S THEN "dead" ELSE status[e]],
         \A e \in S : status[e] = "pending",
         \A e \in S : body[e] = "valid" => tries[e] >= MaxAttempts,
         UNCHANGED <<body, done, tries, budget>>
  PROVE  Promise!GiveUp(S)
  BY DEF Promise!GiveUp, Promise!Move

LEMMA MarkedDead ==
  ASSUME Inv, NEW e \in Events, Mark(e, "dead"),
         body[e] = "valid" => tries[e] >= MaxAttempts,
         UNCHANGED <<body, done, tries, budget>>
  PROVE  (\E S \in SUBSET Events : Promise!GiveUp(S)) \/ UNCHANGED Promise!vars
<1> USE DEF Inv
<1>1. CASE status[e] = "pending"
  <2>1. status' = [f \in Events |-> IF f \in {e} THEN "dead" ELSE status[f]]
    BY <1>1 DEF Mark, RowInv
  <2>2. Promise!GiveUp({e})
    BY <1>1, <2>1, GiveUpImplements
  <2> QED
    BY <2>2
<1>2. CASE status[e] # "pending"
  BY <1>2 DEF Mark, RowInv, Promise!vars
<1> QED
  BY <1>1, <1>2

LEMMA EndImplements ==
  ASSUME Inv, NEW w \in Workers,
         MarkSettled(w) \/ BackOff(w) \/ GiveUp(w) \/ BuryFiled(w)
  PROVE  \/ \E e \in Events : Promise!Settle(e)
         \/ \E S \in SUBSET Events : Promise!GiveUp(S)
         \/ UNCHANGED Promise!vars
<1> USE DEF Inv, effectVars, historyVars
<1>1. /\ at[w] # "next" /\ cur[w] \in Claim /\ cur[w].row \in Events
      /\ cur[w].attempt <= tries[cur[w].row] /\ cur[w].attempt \in Nat
  BY ClaimFields DEF MarkSettled, BackOff, GiveUp, BuryFiled, WorkerInv, ClaimInv
<1>2. CASE MarkSettled(w)
  <2>1. CASE status' = status
    BY <1>2, <2>1 DEF MarkSettled, Promise!vars
  <2>2. CASE status' # status
    <3>1. Mark(cur[w].row, "settled")
      BY <1>2, <2>2 DEF MarkSettled
    <3>2. status' = [f \in Events |-> IF f \in {cur[w].row} THEN "settled" ELSE status[f]]
          /\ status[cur[w].row] = "pending"
      BY <1>1, <2>2, <3>1 DEF Mark, RowInv
    <3>3. cur[w].row \in done
      BY <1>2 DEF MarkSettled, ClaimInv
    <3>4. Promise!Settle(cur[w].row)
      BY <1>2, <3>2, <3>3 DEF Promise!Settle, Promise!Move, MarkSettled
    <3> QED
      BY <1>1, <3>4
  <2> QED
    BY <2>1, <2>2
<1>3. CASE BackOff(w)
  BY <1>3 DEF BackOff, Promise!vars
<1>4. CASE GiveUp(w) \/ BuryFiled(w)
  <2>1. Mark(cur[w].row, "dead") /\ UNCHANGED <<body, done, tries, budget>>
    BY <1>4 DEF GiveUp, BuryFiled
  <2>2. body[cur[w].row] = "valid" => tries[cur[w].row] >= MaxAttempts
    BY <1>1, <1>4 DEF GiveUp, BuryFiled, ClaimInv, RowInv
  <2> QED
    BY <1>1, <2>1, <2>2, MarkedDead
<1> QED
  BY <1>2, <1>3, <1>4

LEMMA DropImplements ==
  ASSUME Inv, NEW w \in Workers,
         \/ SweepZombies(w)
         \/ \E r \in batch[w] : BuryPoison(w, r) \/ BuryUnhandled(w, r)
         \/ Crash(w)
  PROVE  (\E S \in SUBSET Events : Promise!GiveUp(S)) \/ UNCHANGED Promise!vars
<1> USE DEF Inv, effectVars, historyVars, rowVars, workerVars
<1>1. CASE SweepZombies(w)
  <2>1. \A e \in Zombies : status[e] = "pending" /\ tries[e] >= MaxAttempts /\ e \in Events
    BY DEF Zombies, BudgetInv, RowInv
  <2>2. Zombies \in SUBSET Events /\ UNCHANGED <<body, done, tries, budget>>
        /\ status' = [e \in Events |-> IF e \in Zombies THEN "dead" ELSE status[e]]
    BY <1>1, <2>1 DEF SweepZombies
  <2>3. Promise!GiveUp(Zombies)
    BY <2>1, <2>2, GiveUpImplements
  <2> QED
    BY <2>2, <2>3
<1>2. ASSUME NEW r \in batch[w], BuryPoison(w, r) \/ BuryUnhandled(w, r)
      PROVE  (\E S \in SUBSET Events : Promise!GiveUp(S)) \/ UNCHANGED Promise!vars
  <2>1. r.row \in Events
    BY ClaimFields DEF WorkerInv
  <2>2. Mark(r.row, "dead") /\ body[r.row] # "valid" /\ UNCHANGED <<body, done, tries, budget>>
    BY <1>2 DEF BuryPoison, BuryUnhandled, Bury
  <2> QED
    BY <2>1, <2>2, MarkedDead
<1>3. CASE Crash(w)
  BY <1>3 DEF Crash, Promise!vars
<1> QED
  BY <1>1, <1>2, <1>3

LEMMA StepImplements == ASSUME Inv, [Next]_vars PROVE [Promise!Next]_(Promise!vars)
<1>1. ASSUME NEW e \in Events, Emit(e) \/ Ingest(e) \/ Replay(e) PROVE Promise!Next
  BY <1>1, EnterImplements DEF Emit, Ingest, Promise!Next
<1>2. ASSUME NEW e \in Events, Elapse(e) PROVE UNCHANGED Promise!vars
  BY <1>2 DEF Elapse, Promise!vars, effectVars, historyVars
<1>3. ASSUME NEW w \in Workers, NEW r \in batch[w],
             Publish(w, r) \/ PublishFails(w, r) \/ FileInDlq(w, r)
      PROVE  Promise!Next \/ UNCHANGED Promise!vars
  <2>1. r.row \in Events
    BY ClaimFields DEF Inv, WorkerInv
  <2> QED
    BY <1>3, <2>1, EffectImplements DEF Promise!Next
<1>4. ASSUME NEW w \in Workers, RelayCycle(w) \/ ProcessorCycle(w) \/ Crash(w)
      PROVE  Promise!Next \/ UNCHANGED Promise!vars
  <2>1. ClaimBatch(w) => Promise!Next
    BY ClaimImplements DEF Promise!Next
  <2>2. MarkSettled(w) \/ BackOff(w) \/ GiveUp(w) \/ BuryFiled(w)
          => Promise!Next \/ UNCHANGED Promise!vars
    BY EndImplements DEF Promise!Next
  <2>3. SweepZombies(w) \/ (\E r \in batch[w] : BuryPoison(w, r) \/ BuryUnhandled(w, r)) \/ Crash(w)
          => Promise!Next \/ UNCHANGED Promise!vars
    BY DropImplements DEF Promise!Next
  <2> QED
    BY <1>3, <1>4, <2>1, <2>2, <2>3 DEF RelayCycle, ProcessorCycle
<1>5. CASE UNCHANGED vars
  BY <1>5 DEF vars, Promise!vars, rowVars, effectVars, historyVars
<1> QED
  BY <1>1, <1>2, <1>4, <1>5 DEF Next

\* Whatever crashes, expires or writes late, the relay and the processor carry
\* an event out before they settle it, spend its budget before they give a
\* handleable one up, and try none more often than its budget allows.
THEOREM QueueImplementsAtLeastOnce == (Spec => PromiseSpec) /\ (DeliverySpec => PromiseSpec)
<1>1. Init => Promise!Init
  BY DEF Init, Promise!Init
<1>2. Spec => PromiseSpec
  BY <1>1, InitInv, StepInv, StepImplements, PTL DEF Spec, PromiseSpec, Promise!Spec
<1>3. DeliverySpec => PromiseSpec
  BY <1>1, InitInv, StepInv, StepImplements, DeliveryInits, DeliverySteps, DeliverySafety, PTL
     DEF PromiseSpec, Promise!Spec
<1> QED
  BY <1>2, <1>3
-----------------------------------------------------------------------------
(* Webhooks. *)

RowStatuses == {"absent", "pending", "delivered", "dead"}

HookTypes ==
  /\ about = [r \in Rows |-> about[r]]
  /\ rowStatus \in [Rows -> RowStatuses]
  /\ rowAttempts \in [Rows -> 0 .. MaxAttempts]
  /\ rowDue = [r \in Rows |-> rowDue[r]]
  /\ claimed \in [Deliverers -> SUBSET Hooks!Claim]
  /\ posting = [w \in Deliverers |-> posting[w]]
  /\ step \in [Deliverers -> {"next", "loaded", "answered", "failed"}]
  /\ signed = [w \in Deliverers |-> signed[w]]

\* A claim is of a row that exists, and one of the attempts counted there.
ClaimsCounted ==
  \A w \in Deliverers : \A c \in claimed[w] :
    rowStatus[c.row] # "absent" /\ c.attempt <= rowAttempts[c.row]

\* What is posted is a claim, and an answer is that of a receiver that accepted.
PostIsClaimed ==
  \A w \in Deliverers :
    /\ step[w] # "next" => posting[w] \in claimed[w]
    /\ step[w] = "answered" => about[posting[w].row] \in received

HookInv == HookTypes /\ ClaimsCounted /\ PostIsClaimed /\ NothingLost

LEMMA HookClaim ==
  ASSUME NEW c \in Hooks!Claim
  PROVE  c.row \in Rows /\ c.attempt \in 1 .. MaxAttempts
  BY DEF Hooks!Claim

LEMMA HookInit == Hooks!Init => HookInv
  BY DEF Hooks!Init, HookInv, HookTypes, RowStatuses, ClaimsCounted, PostIsClaimed,
     NothingLost, Hooks!NothingLost

\* An insert gives every pair a pending row and leaves the rows there were.
LEMMA Inserted ==
  ASSUME HookTypes, NEW pairs, Hooks!Insert(pairs)
  PROVE  /\ about' = [r \in Rows |-> about'[r]]
         /\ rowStatus' \in [Rows -> RowStatuses]
         /\ rowDue' = [r \in Rows |-> rowDue'[r]]
         /\ rowAttempts' = rowAttempts
         /\ \A r \in Rows : rowStatus[r] # "absent" =>
              rowStatus'[r] = rowStatus[r] /\ about'[r] = about[r]
         /\ \A r \in Rows : rowStatus[r] = "absent" => rowStatus'[r] \in {"absent", "pending"}
         /\ \A x \in pairs : \E r \in Rows : about'[r] = x /\ rowStatus'[r] = "pending"
<1> DEFINE row == CHOOSE f \in Hooks!Placements(pairs) : TRUE
           new == {row[x] : x \in pairs}
           pairOf(r) == CHOOSE x \in pairs : row[x] = r
<1>1. row \in Hooks!Placements(pairs)
  BY DEF Hooks!Insert
<1>2. /\ about' = [r \in Rows |-> IF r \in new THEN pairOf(r) ELSE about[r]]
      /\ rowStatus' = [r \in Rows |-> IF r \in new THEN "pending" ELSE rowStatus[r]]
      /\ rowDue' = [r \in Rows |-> r \in new \/ rowDue[r]]
      /\ rowAttempts' = rowAttempts
  BY DEF Hooks!Insert
<1> HIDE DEF row
<1>3. /\ \A x \in pairs : row[x] \in Rows /\ rowStatus[row[x]] = "absent"
      /\ \A x, y \in pairs : row[x] = row[y] => x = y
  BY <1>1 DEF Hooks!Placements
<1>4. \A x \in pairs : pairOf(row[x]) = x
  BY <1>3
<1>5. \A x \in pairs : about'[row[x]] = x /\ rowStatus'[row[x]] = "pending"
  BY <1>2, <1>3, <1>4
<1>6. \A r \in Rows : rowStatus[r] # "absent" => r \notin new
  BY <1>3
<1> HIDE DEF new, pairOf
<1>7. \A r \in Rows : rowStatus[r] # "absent" =>
              rowStatus'[r] = rowStatus[r] /\ about'[r] = about[r]
  BY <1>2, <1>6
<1>8. /\ about' = [r \in Rows |-> about'[r]]
      /\ rowDue' = [r \in Rows |-> rowDue'[r]]
  BY <1>2
<1>9. /\ rowStatus' \in [Rows -> RowStatuses]
      /\ \A r \in Rows : rowStatus[r] = "absent" => rowStatus'[r] \in {"absent", "pending"}
  BY <1>2 DEF HookTypes, RowStatuses
<1> QED
  BY <1>2, <1>3, <1>5, <1>7, <1>8, <1>9

\* A step after which fewer receivers may be lost: what was expected still is
\* somewhere when rows keep what they are about, and none ends without reason.
LEMMA InsertKeeps ==
  ASSUME HookInv, NEW pairs, Hooks!Insert(pairs),
         expected' \subseteq expected \cup pairs,
         UNCHANGED <<active, received, claimed, posting, step, signed>>
  PROVE  HookInv'
<1> USE DEF HookInv
<1>1. HookTypes'
  BY Inserted DEF HookTypes
<1>2. ClaimsCounted' /\ PostIsClaimed'
  BY Inserted, HookClaim DEF HookTypes, ClaimsCounted, PostIsClaimed
<1>3. ASSUME NEW x \in expected'
      PROVE  \/ x \in received'
             \/ \E r \in Rows :
                  /\ about'[r] = x
                  /\ \/ rowStatus'[r] = "pending"
                     \/ rowStatus'[r] = "dead"
                          /\ (x[2] \notin active' \/ rowAttempts'[r] = MaxAttempts)
  <2>1. CASE x \in pairs
    BY <2>1, Inserted
  <2>2. CASE x \in expected
    BY <2>2, Inserted DEF NothingLost, Hooks!NothingLost
  <2> QED
    BY <2>1, <2>2
<1>4. \A r \in Rows : rowStatus'[r] = "delivered" => about'[r] \in received'
  <2>1. \A r \in Rows : rowStatus'[r] = "delivered" => rowStatus[r] = "delivered" /\ about'[r] = about[r]
    BY Inserted DEF HookTypes
  <2> QED
    BY <2>1 DEF NothingLost, Hooks!NothingLost
<1> QED
  BY <1>1, <1>2, <1>3, <1>4 DEF NothingLost, Hooks!NothingLost

\* Steps of operators, receivers and time that touch no row and no worker.
LEMMA ElsewhereKeeps ==
  ASSUME HookInv, active' \subseteq active,
         UNCHANGED <<expected, received, about, rowStatus, rowAttempts, claimed, posting, step,
                    signed>>,
         rowDue' = [r \in Rows |-> rowDue'[r]]
  PROVE  HookInv'
  BY DEF HookInv, HookTypes, ClaimsCounted, PostIsClaimed, NothingLost, Hooks!NothingLost

LEMMA HookClaimBatchKeeps ==
  ASSUME HookInv, NEW w \in Deliverers, Hooks!ClaimBatch(w)
  PROVE  HookInv'
<1> USE QueueAssumption DEF HookInv
<1>1. PICK S \in SUBSET Hooks!Eligible :
        /\ rowAttempts' = [r \in Rows |-> IF r \in S THEN rowAttempts[r] + 1 ELSE rowAttempts[r]]
        /\ rowDue' = [r \in Rows |-> r \notin S /\ rowDue[r]]
        /\ claimed' = [claimed EXCEPT
                         ![w] = {[row |-> r, attempt |-> rowAttempts[r] + 1] : r \in S}]
  BY DEF Hooks!ClaimBatch
<1>2. /\ claimed[w] = {}
      /\ UNCHANGED <<expected, active, received, about, rowStatus, posting, step, signed>>
  BY DEF Hooks!ClaimBatch, Hooks!endpointVars
<1>3. \A r \in S : r \in Rows /\ rowStatus[r] = "pending" /\ rowAttempts[r] + 1 \in 1 .. MaxAttempts
  <2>1. \A r \in S : r \in Rows /\ rowStatus[r] = "pending" /\ rowAttempts[r] < MaxAttempts
    BY DEF Hooks!Eligible
  <2>2. \A r \in Rows : rowAttempts[r] \in 0 .. MaxAttempts
    BY DEF HookTypes
  <2> QED
    BY <2>1, <2>2
<1>4. /\ rowAttempts' \in [Rows -> 0 .. MaxAttempts]
      /\ \A r \in Rows : rowAttempts[r] <= rowAttempts'[r]
      /\ \A r \in Rows : rowStatus[r] # "pending" => rowAttempts'[r] = rowAttempts[r]
      /\ \A r \in S : rowAttempts'[r] = rowAttempts[r] + 1
  BY <1>1, <1>3 DEF HookTypes
<1>5. {[row |-> r, attempt |-> rowAttempts[r] + 1] : r \in S} \in SUBSET Hooks!Claim
  BY <1>3 DEF Hooks!Claim
<1>6. HookTypes'
  BY <1>1, <1>2, <1>4, <1>5 DEF HookTypes
<1>7. ClaimsCounted'
  <2>1. ASSUME NEW v \in Deliverers, NEW c \in claimed'[v]
        PROVE  rowStatus'[c.row] # "absent" /\ c.attempt <= rowAttempts'[c.row]
    <3>1. CASE v = w
      <4>1. PICK r \in S : c = [row |-> r, attempt |-> rowAttempts[r] + 1]
        BY <1>1, <2>1, <3>1 DEF HookTypes
      <4>2. c.row = r /\ c.attempt = rowAttempts[r] + 1
        BY <4>1
      <4> QED
        BY <1>2, <1>3, <1>4, <4>2 DEF HookTypes
    <3>2. CASE v # w
      <4>1. c \in claimed[v] /\ c \in Hooks!Claim
        BY <1>1, <2>1, <3>2 DEF HookTypes
      <4>2. /\ rowStatus[c.row] # "absent" /\ c.attempt <= rowAttempts[c.row]
            /\ c.row \in Rows /\ c.attempt \in Int
        BY <4>1, HookClaim DEF ClaimsCounted
      <4> QED
        BY <1>2, <1>4, <4>2 DEF HookTypes
    <3> QED
      BY <3>1, <3>2
  <2> QED
    BY <2>1 DEF ClaimsCounted
<1>8. PostIsClaimed'
  BY <1>1, <1>2 DEF PostIsClaimed, HookTypes
<1>9. NothingLost'
  BY <1>2, <1>4 DEF NothingLost, Hooks!NothingLost
<1> QED
  BY <1>6, <1>7, <1>8, <1>9

\* An attempt ends: its row stays pending, is delivered as its receiver
\* accepted it, or is dead for a reason.
LEMMA AttemptEnds ==
  ASSUME HookInv, NEW w \in Deliverers, NEW c \in claimed[w], NEW s \in RowStatuses,
         Hooks!Mark(c.row, s), Hooks!Leave(w, c),
         s \in {"delivered", "dead"},
         s = "delivered" => about[c.row] \in received,
         s = "dead" => about[c.row][2] \notin active \/ rowAttempts[c.row] = MaxAttempts,
         UNCHANGED <<expected, active, received, about, rowAttempts>>,
         rowDue' = [r \in Rows |-> rowDue'[r]]
  PROVE  HookInv'
<1> USE DEF HookInv
<1>1. c.row \in Rows
  BY HookClaim DEF HookTypes
<1>2. rowStatus' = [rowStatus EXCEPT ![c.row] = IF @ = "pending" THEN s ELSE @]
  BY DEF Hooks!Mark
<1>3. /\ claimed' = [claimed EXCEPT ![w] = @ \ {c}]
      /\ step' = [step EXCEPT ![w] = "next"]
      /\ posting' = [posting EXCEPT ![w] = NoRow]
      /\ signed' = [signed EXCEPT ![w] = {}]
  BY DEF Hooks!Leave, Hooks!Go
<1>4. HookTypes'
  BY <1>2, <1>3 DEF HookTypes, RowStatuses
<1>5. ClaimsCounted'
  BY <1>1, <1>2, <1>3, HookClaim DEF HookTypes, ClaimsCounted
<1>6. PostIsClaimed'
  BY <1>3 DEF HookTypes, PostIsClaimed
<1>7. \A r \in Rows : \/ rowStatus'[r] = rowStatus[r]
                      \/ r = c.row /\ rowStatus'[r] = s /\ rowStatus[r] = "pending"
  BY <1>2 DEF HookTypes
<1>8. NothingLost'
  BY <1>7 DEF NothingLost, Hooks!NothingLost
<1> QED
  BY <1>4, <1>5, <1>6, <1>8

\* The worker goes on with a claim, or lets go of what it holds.
LEMMA WorkerMoves ==
  ASSUME HookInv, NEW w \in Deliverers, NEW c, NEW point, NEW sig, Hooks!Go(w, c, point, sig),
         claimed' \in [Deliverers -> SUBSET Hooks!Claim],
         \A v \in Deliverers : claimed'[v] \subseteq claimed[v],
         \A v \in Deliverers : v # w => claimed'[v] = claimed[v],
         point \in {"next", "loaded", "answered", "failed"},
         point # "next" => c \in claimed'[w],
         point = "answered" => about[c.row] \in received',
         received \subseteq received',
         UNCHANGED <<expected, active, about, rowStatus, rowAttempts>>,
         rowDue' = [r \in Rows |-> rowDue'[r]]
  PROVE  HookInv'
<1> USE DEF HookInv
<1>1. /\ step' = [step EXCEPT ![w] = point]
      /\ posting' = [posting EXCEPT ![w] = c]
      /\ signed' = [signed EXCEPT ![w] = sig]
  BY DEF Hooks!Go
<1>2. HookTypes'
  BY <1>1 DEF HookTypes
<1>3. ClaimsCounted'
  BY DEF ClaimsCounted
<1>4. PostIsClaimed'
  BY <1>1 DEF PostIsClaimed, HookTypes
<1>5. NothingLost'
  BY DEF NothingLost, Hooks!NothingLost
<1> QED
  BY <1>2, <1>3, <1>4, <1>5

LEMMA CycleKeeps ==
  ASSUME HookInv, NEW w \in Deliverers, Hooks!Cycle(w) \/ Hooks!Crash(w)
  PROVE  HookInv'
<1> USE QueueAssumption DEF HookInv
<1>0. rowDue = [r \in Rows |-> rowDue[r]] /\ claimed \in [Deliverers -> SUBSET Hooks!Claim]
  BY DEF HookTypes
<1>1. CASE Hooks!ClaimBatch(w)
  BY <1>1, HookClaimBatchKeeps
<1>2. ASSUME NEW c \in claimed[w], Hooks!LoadEndpoint(w, c) PROVE HookInv'
  <2>1. UNCHANGED <<expected, active, received, about, rowAttempts, rowDue>>
    BY <1>2 DEF Hooks!LoadEndpoint, Hooks!endpointVars
  <2>2. CASE Hooks!EndpointOf(c.row) \notin active /\ Hooks!Mark(c.row, "dead") /\ Hooks!Leave(w, c)
    BY <1>0, <2>1, <2>2, AttemptEnds DEF Hooks!EndpointOf, RowStatuses
  <2>3. CASE /\ UNCHANGED <<rowStatus, claimed>>
             /\ \/ Hooks!Go(w, c, "loaded", Hooks!Signatures(Hooks!EndpointOf(c.row)))
                \/ Hooks!Go(w, c, "failed", {})
    BY <1>0, <2>1, <2>3, WorkerMoves
  <2> QED
    BY <1>2, <2>2, <2>3 DEF Hooks!LoadEndpoint
<1>3. CASE Hooks!Post(w)
  <2>1. /\ UNCHANGED <<expected, active, about, rowStatus, rowAttempts, rowDue, claimed>>
        /\ posting[w] \in claimed[w]
    BY <1>3 DEF Hooks!Post, Hooks!endpointVars, Hooks!rowVars, PostIsClaimed
  <2>2. CASE /\ received' = received \cup {about[posting[w].row]}
             /\ Hooks!Go(w, posting[w], "answered", {}) \/ Hooks!Go(w, posting[w], "failed", {})
    BY <1>0, <2>1, <2>2, WorkerMoves
  <2>3. CASE Hooks!Go(w, posting[w], "failed", {}) /\ UNCHANGED received
    BY <1>0, <2>1, <2>3, WorkerMoves
  <2> QED
    BY <1>3, <2>2, <2>3 DEF Hooks!Post
<1>4. CASE Hooks!FinishDelivered(w)
  <2>1. /\ UNCHANGED <<expected, active, received, about, rowAttempts, rowDue>>
        /\ posting[w] \in claimed[w] /\ about[posting[w].row] \in received
    BY <1>4 DEF Hooks!FinishDelivered, Hooks!endpointVars, PostIsClaimed
  <2>2. CASE Hooks!Mark(posting[w].row, "delivered") /\ Hooks!Leave(w, posting[w])
    BY <1>0, <2>1, <2>2, AttemptEnds DEF RowStatuses
  <2>3. CASE Hooks!Go(w, posting[w], "failed", {}) /\ UNCHANGED <<rowStatus, claimed>>
    BY <1>0, <2>1, <2>3, WorkerMoves
  <2> QED
    BY <1>4, <2>2, <2>3 DEF Hooks!FinishDelivered
<1>5. CASE Hooks!ScheduleRetryOrDead(w)
  <2>1. /\ UNCHANGED <<expected, active, received, about, rowAttempts>>
        /\ posting[w] \in claimed[w] /\ Hooks!Leave(w, posting[w])
    BY <1>5 DEF Hooks!ScheduleRetryOrDead, Hooks!endpointVars, PostIsClaimed
  <2>2. CASE posting[w].attempt >= MaxAttempts /\ Hooks!Mark(posting[w].row, "dead") /\ UNCHANGED rowDue
    <3>1. /\ posting[w].row \in Rows /\ posting[w].attempt \in Int
          /\ posting[w].attempt <= rowAttempts[posting[w].row]
      BY <1>0, <2>1, HookClaim DEF ClaimsCounted
    <3>2. rowAttempts[posting[w].row] = MaxAttempts
      BY <2>2, <3>1 DEF HookTypes
    <3> QED
      BY <1>0, <2>1, <2>2, <3>2, AttemptEnds DEF RowStatuses
  <2>3. CASE /\ rowDue' = [rowDue EXCEPT
                             ![posting[w].row] = @ /\ rowStatus[posting[w].row] # "pending"]
             /\ UNCHANGED rowStatus
    <3>1. rowDue' = [r \in Rows |-> rowDue'[r]]
      BY <1>0, <2>3
    <3>2. /\ claimed' = [claimed EXCEPT ![w] = @ \ {posting[w]}]
          /\ Hooks!Go(w, NoRow, "next", {})
      BY <2>1 DEF Hooks!Leave
    <3> QED
      BY <1>0, <2>1, <2>3, <3>1, <3>2, WorkerMoves
  <2> QED
    BY <1>5, <2>2, <2>3 DEF Hooks!ScheduleRetryOrDead
<1>6. CASE Hooks!Crash(w)
  <2>1. /\ UNCHANGED <<expected, active, received, about, rowStatus, rowAttempts, rowDue>>
        /\ claimed' = [claimed EXCEPT ![w] = {}]
        /\ Hooks!Go(w, NoRow, "next", {})
    BY <1>6 DEF Hooks!Crash, Hooks!endpointVars, Hooks!rowVars
  <2> QED
    BY <1>0, <2>1, WorkerMoves
<1> QED
  BY <1>1, <1>2, <1>3, <1>4, <1>5, <1>6 DEF Hooks!Cycle

LEMMA HookStep == ASSUME HookInv, [Hooks!Next]_(Hooks!vars) PROVE HookInv'
<1> USE DEF Hooks!endpointVars, Hooks!rowVars, Hooks!workerVars
<1>1. ASSUME NEW o \in Topics, Hooks!FanOut(o) PROVE HookInv'
  BY <1>1, InsertKeeps DEF Hooks!FanOut
<1>2. ASSUME NEW r \in Rows, Hooks!Resend(r) PROVE HookInv'
  BY <1>2, InsertKeeps DEF Hooks!Resend
<1>3. ASSUME NEW r \in Rows, Hooks!Elapse(r) PROVE HookInv'
  BY <1>3, ElsewhereKeeps DEF Hooks!Elapse, HookInv, HookTypes
<1>4. ASSUME NEW p \in Endpoints,
             Hooks!RotateSecret(p) \/ Hooks!Adopt(p) \/ Hooks!GraceEnds(p) \/ Hooks!Disable(p)
      PROVE  HookInv'
  BY <1>4, ElsewhereKeeps
     DEF Hooks!RotateSecret, Hooks!Adopt, Hooks!GraceEnds, Hooks!Disable, HookInv, HookTypes
<1>5. CASE UNCHANGED Hooks!vars
  BY <1>5, ElsewhereKeeps DEF Hooks!vars, HookInv, HookTypes
<1> QED
  BY <1>1, <1>2, <1>3, <1>4, <1>5, CycleKeeps DEF Hooks!Next

-----------------------------------------------------------------------------
(* What the receiver holds verifies. *)

\* The receiver is behind by one rotation at most, and only within its window.
ReceiverInv ==
  /\ active \subseteq Endpoints
  /\ grace = [p \in Endpoints |-> grace[p]]
  /\ secret \in [Endpoints -> Int]
  /\ holds \in [Endpoints -> Int]
  /\ \A p \in Endpoints : holds[p] = secret[p] \/ (grace[p] /\ holds[p] = secret[p] - 1)

LEMMA ReceiverInit == Hooks!Init => ReceiverInv
  BY DEF Hooks!Init, ReceiverInv

LEMMA ReceiverStep ==
  ASSUME ~EarlyRotation, ReceiverInv, [Hooks!Next]_(Hooks!vars)
  PROVE  ReceiverInv'
<1> USE DEF ReceiverInv, Hooks!endpointVars
<1>1. ASSUME NEW p \in Endpoints, Hooks!RotateSecret(p) PROVE ReceiverInv'
  <2>1. /\ secret' = [secret EXCEPT ![p] = @ + 1] /\ grace' = [grace EXCEPT ![p] = TRUE]
        /\ active' = active /\ holds' = holds
        /\ grace[p] => EarlyRotation
    BY <1>1 DEF Hooks!RotateSecret
  <2>2. holds[p] = secret[p]
    BY <2>1
  <2>3. grace' = [q \in Endpoints |-> grace'[q]] /\ grace'[p]
        /\ \A q \in Endpoints : q # p => grace'[q] = grace[q]
    BY <2>1
  <2>4. secret' \in [Endpoints -> Int] /\ secret'[p] - 1 = secret[p]
        /\ \A q \in Endpoints : q # p => secret'[q] = secret[q]
    BY <2>1
  <2>5. ASSUME NEW q \in Endpoints
        PROVE  holds'[q] = secret'[q] \/ (grace'[q] /\ holds'[q] = secret'[q] - 1)
    <3>1. CASE q = p
      BY <2>1, <2>2, <2>3, <2>4, <3>1
    <3>2. CASE q # p
      BY <2>1, <2>3, <2>4, <3>2
    <3> QED
      BY <3>1, <3>2
  <2> QED
    BY <2>1, <2>3, <2>4, <2>5
<1>2. ASSUME NEW p \in Endpoints, Hooks!Adopt(p) PROVE ReceiverInv'
  BY <1>2 DEF Hooks!Adopt
<1>3. ASSUME NEW p \in Endpoints, Hooks!GraceEnds(p) PROVE ReceiverInv'
  BY <1>3 DEF Hooks!GraceEnds
<1>4. ASSUME NEW p \in Endpoints, Hooks!Disable(p) PROVE ReceiverInv'
  BY <1>4 DEF Hooks!Disable
<1>5. CASE UNCHANGED Hooks!endpointVars
  BY <1>5
<1> QED
  BY <1>1, <1>2, <1>3, <1>4, <1>5
     DEF Hooks!Next, Hooks!vars, Hooks!FanOut, Hooks!Resend, Hooks!Elapse, Hooks!Cycle,
         Hooks!ClaimBatch, Hooks!LoadEndpoint, Hooks!Post, Hooks!FinishDelivered,
         Hooks!ScheduleRetryOrDead, Hooks!Crash

\* A post that is signed verifies with the version that its receiver holds.
SignedForHolder ==
  \A w \in Deliverers :
    step[w] = "next" /\ step'[w] = "loaded"
      => holds[Hooks!EndpointOf(posting'[w].row)] \in signed'[w]

LEMMA SignedVerifies ==
  ASSUME HookTypes, ReceiverInv, [Hooks!Next]_(Hooks!vars)
  PROVE  SignedForHolder
<1> SUFFICES ASSUME NEW w \in Deliverers, step[w] = "next", step'[w] = "loaded"
             PROVE  holds[Hooks!EndpointOf(posting'[w].row)] \in signed'[w]
  BY DEF SignedForHolder
<1>1. PICK v \in Deliverers : Hooks!Cycle(v) \/ Hooks!Crash(v)
  BY DEF Hooks!Next, Hooks!vars, Hooks!workerVars, Hooks!FanOut, Hooks!Resend, Hooks!Elapse,
         Hooks!RotateSecret, Hooks!Adopt, Hooks!GraceEnds, Hooks!Disable
<1>2. PICK c \in claimed[v] : Hooks!LoadEndpoint(v, c) /\ v = w
  <2>1. ~Hooks!ClaimBatch(v)
    BY DEF Hooks!ClaimBatch
  <2>2. ~Hooks!Post(v)
    BY DEF Hooks!Post, Hooks!Go, HookTypes
  <2>3. ~Hooks!FinishDelivered(v) /\ ~Hooks!ScheduleRetryOrDead(v) /\ ~Hooks!Crash(v)
    BY DEF Hooks!FinishDelivered, Hooks!ScheduleRetryOrDead, Hooks!Crash, Hooks!Go,
           Hooks!Leave, HookTypes
  <2>4. ASSUME NEW c \in claimed[v], Hooks!LoadEndpoint(v, c) PROVE v = w
    BY <2>4 DEF Hooks!LoadEndpoint, Hooks!Go, Hooks!Leave, HookTypes
  <2> QED
    BY <1>1, <2>1, <2>2, <2>3, <2>4 DEF Hooks!Cycle
<1>3. /\ Hooks!EndpointOf(c.row) \in active
      /\ Hooks!Go(w, c, "loaded", Hooks!Signatures(Hooks!EndpointOf(c.row)))
  BY <1>2 DEF Hooks!LoadEndpoint, Hooks!Go, Hooks!Leave, HookTypes
<1>4. /\ posting'[w] = c /\ about' = about
      /\ signed'[w] = Hooks!Signatures(Hooks!EndpointOf(c.row))
  BY <1>2, <1>3 DEF Hooks!Go, Hooks!LoadEndpoint, HookTypes
<1> QED
  BY <1>3, <1>4 DEF Hooks!Signatures, Hooks!EndpointOf, ReceiverInv

-----------------------------------------------------------------------------
(* What the webhooks promise. *)

LEMMA HookSafe == DeliverySpec => []HookInv
  BY DeliveryInits, DeliverySteps, DeliverySafety, HookInit, HookStep, PTL

\* No merchant's event is lost in the fan-out: for every receiver that was
\* active then it was accepted, is still to be posted, or died for a reason.
THEOREM NoFanOutLost == DeliverySpec => []NothingLost
  BY HookSafe, PTL DEF HookInv

\* The post of a merchant that follows its rotations always verifies: it must
\* not rotate again while the window of the last one is open.
THEOREM SignaturesVerify == ASSUME ~EarlyRotation PROVE DeliverySpec => SignedForReceiver
<1>1. ReceiverInv /\ [DeliveryNext]_deliveryVars => ReceiverInv'
  BY ReceiverStep, DeliverySteps
<1>2. HookInv /\ ReceiverInv /\ [DeliveryNext]_deliveryVars => [SignedForHolder]_(Hooks!vars)
  BY SignedVerifies, DeliverySteps DEF HookInv
<1>3. DeliveryInit => ReceiverInv
  BY DeliveryInits, ReceiverInit
<1>4. DeliverySpec => [][SignedForHolder]_(Hooks!vars)
  BY <1>1, <1>2, <1>3, HookSafe, DeliverySafety, PTL
<1> QED
  BY <1>4, PTL DEF SignedForReceiver, Hooks!SignedForReceiver, SignedForHolder
=============================================================================
