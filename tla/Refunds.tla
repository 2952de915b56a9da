------------------------------- MODULE Refunds -------------------------------
(***************************************************************************)
(* Refunds of packages/payments-core: a refund reserves a part of what an   *)
(* intent captured, execute reserves the money in the ledger and asks the   *)
(* provider outside every transaction, and a verified source closes what    *)
(* execute left open.  Each refund has two processes: the request that      *)
(* executes it, once, and whoever resolves it from the provider's word.     *)
(* The intents are already paid and their money already available.          *)
(***************************************************************************)
EXTENDS Ledger

CONSTANTS
  RefundIds,   \* rows that may be created
  Intents,     \* paid payment intents
  Captured,    \* amount_captured of each intent
  MerchantOf,  \* merchant_id of each intent
  Amounts,     \* amounts a request may ask for
  MaxFaults    \* bound on process crashes and failed transactions

ASSUME RefundAssumption ==
  /\ Captured \in [Intents -> Nat \ {0}]
  /\ MerchantOf \in [Intents -> Merchants]
  /\ Amounts \subseteq Nat \ {0}
  /\ MaxFaults \in Nat

\* A table has finitely many rows, and no money is reserved before them.
ASSUME FreshRefunds ==
  /\ IsFiniteSet(RefundIds)
  /\ \A m \in Merchants : OpeningBalance[Of("refund.liability", m)] = 0

VARIABLES
  status,    \* refunds.status; "none" before the insert
  intent,    \* refunds.payment_intent_id
  amount,    \* refunds.amount
  istatus,   \* payment_intents.status
  refunded,  \* payment_intents.amount_refunded
  provider,  \* what the provider did with the refund: external truth
  pc,        \* where the two processes of a refund stand
  faults     \* crashes and failed transactions so far

rowVars == <<status, intent, amount>>
intentVars == <<istatus, refunded>>
vars == <<ledgerVars, rowVars, intentVars, provider, pc, faults>>

Processes == RefundIds \X {"execute", "resolve"}
Executor(r) == <<r, "execute">>
Resolver(r) == <<r, "resolve">>

Statuses == {"none", "created", "processing", "indeterminate",
             "succeeded", "failed", "canceled"}
Points == {"idle", "read", "reserve", "cancel", "submit", "await",
           "approved", "declined", "unknown"}

\* refund_transitions, enforced by the trigger refunds_fsm_guard.
Transitions ==
  {<<"created", "processing">>, <<"created", "canceled">>,
   <<"processing", "succeeded">>, <<"processing", "failed">>,
   <<"processing", "indeterminate">>,
   <<"indeterminate", "succeeded">>, <<"indeterminate", "failed">>}

\* The part of payment_intent_transitions that a refund can ask for.
IntentTransitions ==
  {<<"succeeded", "partially_refunded">>, <<"succeeded", "refunded">>,
   <<"partially_refunded", "refunded">>,
   <<"partially_refunded", "partially_refunded">>}

Key(r, step) == <<"refund", r, step>>
Requested(r) == Key(r, "request") \in journal
Settled(r) == Key(r, "settle") \in journal
Canceled(r) == Key(r, "cancel") \in journal

\* The merchant whose money a refund returns.
PayerOf(r) == MerchantOf[intent[r]]
SumOfAmounts(S) == Total(amount, S)

Init ==
  /\ LedgerInit
  /\ status = [r \in RefundIds |-> "none"]
  /\ intent \in [RefundIds -> Intents]
  /\ amount = [r \in RefundIds |-> 0]
  /\ istatus = [i \in Intents |-> "succeeded"]
  /\ refunded = [i \in Intents |-> 0]
  /\ provider = [r \in RefundIds |-> "unsent"]
  /\ pc = [k \in Processes |-> "idle"]
  /\ faults = 0

-----------------------------------------------------------------------------
Goto(k, point) == pc' = [pc EXCEPT ![k] = point]

Legal(r, to) == <<status[r], to>> \in Transitions

\* transitionRefund: UPDATE ... WHERE id, under the FSM trigger.
Move(r, to) ==
  /\ Legal(r, to)
  /\ status' = [status EXCEPT ![r] = to]
  /\ UNCHANGED <<intent, amount>>

\* Phase 1, beginIn: one transaction that holds the lock of the intent.  What
\* is in flight is what the query counts: created and processing rows.
Remaining(i) ==
  Captured[i] - refunded[i]
    - SumOfAmounts({r \in RefundIds : intent[r] = i /\ status[r] \in {"created", "processing"}})

BeginIn(r) ==
  LET i == intent[r] IN
  /\ status[r] = "none"
  /\ istatus[i] \in {"succeeded", "partially_refunded"}
  /\ \E a \in Amounts \cup {Remaining(i)} :
       /\ 0 < a /\ a <= Remaining(i)
       /\ amount' = [amount EXCEPT ![r] = a]
  /\ status' = [status EXCEPT ![r] = "created"]
  /\ Goto(Executor(r), "read")
  /\ UNCHANGED <<ledgerVars, intent, intentVars, provider, faults>>

-----------------------------------------------------------------------------
(* Phase 2: execute. *)

\* The best-effort read that decides where execute starts.  Nothing but this
\* process moves a row out of created, so it finds it there.
Read(r) ==
  /\ pc[Executor(r)] = "read"
  /\ status[r] = "created"
  /\ Goto(Executor(r), "reserve")
  /\ UNCHANGED <<ledgerVars, rowVars, intentVars, provider, faults>>

\* requestRefund: posted with the transition, or the merchant is short of funds.
Reserve(r) ==
  LET legs == RequestRefund(PayerOf(r), amount[r]) IN
  /\ pc[Executor(r)] = "reserve"
  /\ \/ /\ Post(Key(r, "request"), legs)
        /\ Move(r, "processing")
        /\ Goto(Executor(r), "submit")
     \/ /\ ~Covered(legs)
        /\ Goto(Executor(r), "cancel")
        /\ UNCHANGED <<ledgerVars, rowVars>>
  /\ UNCHANGED <<intentVars, provider, faults>>

\* InsufficientBalanceError was caught: a second transaction cancels the row.
Cancel(r) ==
  /\ pc[Executor(r)] = "cancel"
  /\ Move(r, "canceled")
  /\ Goto(Executor(r), "idle")
  /\ UNCHANGED <<ledgerVars, intentVars, provider, faults>>

\* refundPayment leaves the process, or the circuit is open and it does not.
Submit(r) ==
  /\ pc[Executor(r)] = "submit"
  /\ provider' = [provider EXCEPT ![r] = "inflight"]
  /\ Goto(Executor(r), "await")
  /\ UNCHANGED <<ledgerVars, rowVars, intentVars, faults>>

CircuitOpen(r) ==
  /\ pc[Executor(r)] = "submit"
  /\ Goto(Executor(r), "declined")
  /\ UNCHANGED <<ledgerVars, rowVars, intentVars, provider, faults>>

\* Bug: an unknown outcome is assumed to be a refusal.
AnswerByAssumption(r) ==
  /\ pc[Executor(r)] = "await"
  /\ Goto(Executor(r), IF provider[r] = "refunded" THEN "approved" ELSE "declined")
  /\ UNCHANGED <<ledgerVars, rowVars, intentVars, provider, faults>>

\* The answer, or a throw, a timeout or pending: the outcome is unknown.
Answer(r) ==
  /\ pc[Executor(r)] = "await"
  /\ \/ provider[r] = "refunded" /\ Goto(Executor(r), "approved")
     \/ provider[r] = "refused" /\ Goto(Executor(r), "declined")
     \/ Goto(Executor(r), "unknown")
  /\ UNCHANGED <<ledgerVars, rowVars, intentVars, provider, faults>>

\* settleRefund, the refund's and the intent's rows in one transaction: the
\* CHECK of amount_refunded and both FSMs can still roll all of it back.

\* Bug: the refund that is being recorded is not counted.
TargetBefore(i, a) ==
  IF refunded[i] = Captured[i] THEN "refunded" ELSE "partially_refunded"

TargetOf(i, a) ==
  IF refunded[i] + a = Captured[i] THEN "refunded" ELSE "partially_refunded"

RefundFits(r) ==
  LET i == intent[r] IN
  /\ refunded[i] + amount[r] <= Captured[i]
  /\ <<istatus[i], TargetOf(i, amount[r])>> \in IntentTransitions

RecordSucceeded(r, k) ==
  LET i == intent[r]
      legs == SettleRefund(PayerOf(r), amount[r])
  IN
  /\ pc[k] = "approved"
  /\ \/ /\ Post(Key(r, "settle"), legs)
        /\ Move(r, "succeeded")
        /\ RefundFits(r)
        /\ refunded' = [refunded EXCEPT ![i] = @ + amount[r]]
        /\ istatus' = [istatus EXCEPT ![i] = TargetOf(i, amount[r])]
     \/ /\ \/ Settled(r)
           \/ ~Covered(legs) \/ ~Legal(r, "succeeded") \/ ~RefundFits(r)
        /\ UNCHANGED <<ledgerVars, rowVars, intentVars>>
  /\ Goto(k, "idle")
  /\ UNCHANGED <<provider, faults>>

RecordFailed(r, k) ==
  LET legs == CancelRefundReservation(PayerOf(r), amount[r]) IN
  /\ pc[k] = "declined"
  /\ \/ Post(Key(r, "cancel"), legs) /\ Move(r, "failed")
     \/ /\ Canceled(r) \/ ~Covered(legs) \/ ~Legal(r, "failed")
        /\ UNCHANGED <<ledgerVars, rowVars>>
  /\ Goto(k, "idle")
  /\ UNCHANGED <<intentVars, provider, faults>>

RecordIndeterminate(r) ==
  /\ pc[Executor(r)] = "unknown"
  /\ \/ Move(r, "indeterminate")
     \/ ~Legal(r, "indeterminate") /\ UNCHANGED rowVars
  /\ Goto(Executor(r), "idle")
  /\ UNCHANGED <<ledgerVars, intentVars, provider, faults>>

\* resolveFromProvider, on the word of a provider that has decided: the read,
\* then the record above.  Terminal and created rows change nothing.
ResolveFromProvider(r) ==
  /\ pc[Resolver(r)] = "idle"
  /\ provider[r] \in {"refunded", "refused"}
  /\ status[r] \in {"processing", "indeterminate"}
  /\ Goto(Resolver(r), IF provider[r] = "refunded" THEN "approved" ELSE "declined")
  /\ UNCHANGED <<ledgerVars, rowVars, intentVars, provider, faults>>

-----------------------------------------------------------------------------
(* The environment. *)

ProviderDecides(r) ==
  /\ provider[r] = "inflight"
  /\ \E verdict \in {"refunded", "refused"} :
       provider' = [provider EXCEPT ![r] = verdict]
  /\ UNCHANGED <<ledgerVars, rowVars, intentVars, pc, faults>>

\* A process dies or its transaction fails: what it had not committed is gone.
\* Nobody runs execute again.
Crash(k) ==
  /\ faults < MaxFaults
  /\ pc[k] # "idle"
  /\ faults' = faults + 1
  /\ Goto(k, "idle")
  /\ UNCHANGED <<ledgerVars, rowVars, intentVars, provider>>

Next ==
  \/ \E r \in RefundIds :
       \/ BeginIn(r) \/ Read(r) \/ Reserve(r) \/ Cancel(r)
       \/ Submit(r) \/ CircuitOpen(r) \/ Answer(r)
       \/ \E k \in {Executor(r), Resolver(r)} : RecordSucceeded(r, k) \/ RecordFailed(r, k)
       \/ RecordIndeterminate(r)
       \/ ResolveFromProvider(r) \/ ProviderDecides(r)
  \/ \E k \in Processes : Crash(k)

Spec == Init /\ [][Next]_vars

-----------------------------------------------------------------------------
TypeOK ==
  /\ balance \in [Accounts -> Int]
  /\ journal \subseteq {Key(r, step) : r \in RefundIds, step \in {"request", "settle", "cancel"}}
  /\ status \in [RefundIds -> Statuses]
  /\ intent \in [RefundIds -> Intents]
  /\ amount \in [RefundIds -> Nat]
  /\ istatus \in [Intents -> {"succeeded", "partially_refunded", "refunded"}]
  /\ refunded \in [Intents -> Nat]
  /\ provider \in [RefundIds -> {"unsent", "inflight", "refunded", "refused"}]
  /\ pc \in [Processes -> Points]
  /\ faults \in 0..MaxFaults

\* The intent's counters are those of its refunds: what it says was refunded is
\* the sum of the refunds that succeeded, it never exceeds what was captured,
\* and its status is refunded exactly when nothing is left.
IntentAgrees ==
  \A i \in Intents :
    /\ refunded[i] = SumOfAmounts({r \in RefundIds : intent[r] = i /\ status[r] = "succeeded"})
    /\ refunded[i] <= Captured[i]
    /\ istatus[i] = IF refunded[i] = 0 THEN "succeeded"
                    ELSE IF refunded[i] = Captured[i] THEN "refunded"
                    ELSE "partially_refunded"

\* refund.liability of a merchant holds exactly its refunds whose outcome is
\* open: a refund that was never reserved is not settled from another's money.
LiabilityBacked ==
  \A m \in Merchants :
    balance[Of("refund.liability", m)]
      = SumOfAmounts({r \in RefundIds :
                        PayerOf(r) = m /\ status[r] \in {"processing", "indeterminate"}})

\* What a merchant's refunds took from an intent and what they still hold of
\* the merchant's money are the refunds' rows, neither more nor less.
RefundsAreBooked == IntentAgrees /\ LiabilityBacked

\* A final status is the provider's word, whoever heard it first: a refund that
\* succeeded was refunded, one that failed or was canceled never will be.
OutcomeIsVerified ==
  \A r \in RefundIds :
    /\ status[r] = "succeeded" => provider[r] = "refunded"
    /\ status[r] = "failed" => provider[r] \in {"unsent", "refused"}
    /\ status[r] = "canceled" => provider[r] = "unsent"

\* What the refunds of an intent that have not failed add up to never exceeds
\* what it captured.
NoOverRefund ==
  \A i \in Intents :
    SumOfAmounts({r \in RefundIds :
                    /\ intent[r] = i
                    /\ status[r] \in {"created", "processing", "indeterminate", "succeeded"}})
      <= Captured[i]

-----------------------------------------------------------------------------
\* What the journal says of a refund's money, as a reservation.
phase ==
  [r \in RefundIds |->
     CASE Settled(r) -> "committed"
       [] Canceled(r) -> "returned"
       [] Requested(r) /\ ~Settled(r) /\ ~Canceled(r) -> "held"
       [] OTHER -> "none"]

Money == INSTANCE Reservation WITH
  Items <- RefundIds,
  Owners <- Merchants,
  Stakes <- UNION {1 .. Captured[i] : i \in Intents},
  Opening <- [m \in Merchants |-> OpeningBalance[Of("merchant.available", m)]],
  stake <- [r \in RefundIds |-> IF Requested(r) THEN <<PayerOf(r), amount[r]>> ELSE <<>>],
  free <- [m \in Merchants |-> balance[Of("merchant.available", m)]]

\* The money a refund reserves leaves the merchant once and has a single fate.
ReservationSpec == Money!Spec
=============================================================================
