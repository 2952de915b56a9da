------------------------------- MODULE Payouts -------------------------------
(***************************************************************************)
(* Payouts of packages/payments-core: a row per payout, the two-phase       *)
(* execute that emits the money and then talks to the bank outside every    *)
(* transaction, the verified resolution by webhook, the sweep of stuck      *)
(* in_transit rows and the leased re-drive of stuck requested rows.         *)
(*                                                                          *)
(* A worker is a process that runs service code: API requests and inbox     *)
(* handlers (Workers \ Redrivers) and PayoutsRedriver jobs (Redrivers).     *)
(* Its pc stands between two transactions or around the bank call; every    *)
(* SQL transaction is one step.  Time is the flag recent: a row is recent   *)
(* until five minutes pass since its updated_at.                            *)
(***************************************************************************)
EXTENDS Ledger

CONSTANTS
  PayoutIds,    \* rows that may be created
  Amounts,      \* amounts a request may ask for, in minor units
  Workers,      \* processes that run the service
  Redrivers,    \* those that run PayoutsRedriver
  MaxBatch,     \* rows claimed by one claim_stuck_payouts call
  Settlements,  \* transfers of the provider to the platform's bank account
  MaxFaults,    \* bound on process crashes and failed transactions
  LeaseHolds,   \* TRUE: no drive of a payout outlives the five-minute lease
  NoJob         \* not a payout

ASSUME PayoutAssumption ==
  /\ Amounts \subseteq Nat \ {0}
  /\ Redrivers \subseteq Workers
  /\ MaxBatch \in Nat \ {0}
  /\ MaxFaults \in Nat
  /\ LeaseHolds \in BOOLEAN
  /\ NoJob \notin PayoutIds

\* A table has finitely many rows, and no payout is in transit before them.
ASSUME FreshPayouts ==
  /\ IsFiniteSet(PayoutIds)
  /\ OpeningBalance[Platform("payout.in_transit")] = 0

VARIABLES
  status,   \* payouts.status; "none" before the insert
  owner,    \* payouts.merchant_id
  amount,   \* payouts.amount
  recent,   \* updated_at is within the last five minutes
  bank,     \* what the bank did with the payout: external truth
  pc,       \* where each worker stands
  job,      \* payout each worker is executing or resolving
  backlog,  \* rows a redriver claimed and has not executed yet
  budget,   \* the available balance beginIn read, until it compares it
  faults    \* crashes and failed transactions so far

rowVars == <<status, owner, amount, recent>>
workerVars == <<pc, job, backlog, budget>>
vars == <<ledgerVars, rowVars, bank, workerVars, faults>>

Statuses == {"none", "requested", "in_transit", "paid", "failed", "indeterminate"}
BankStates == {"unsent", "inflight", "paid", "refused"}
Points == {"idle", "check", "insert", "read", "emit", "reject", "submit", "await",
           "approved", "declined", "unknown"}

\* payout_transitions, enforced by the trigger payouts_fsm_guard.
Transitions ==
  {<<"requested", "in_transit">>, <<"requested", "failed">>,
   <<"in_transit", "paid">>, <<"in_transit", "failed">>,
   <<"in_transit", "indeterminate">>,
   <<"indeterminate", "paid">>, <<"indeterminate", "failed">>}

Key(p, step) == <<"payout", p, step>>
SettlementKey(s) == <<"provider", s, "settlement">>
Emitted(p) == Key(p, "emit") \in journal
Settled(p) == Key(p, "settle") \in journal
Returned(p) == Key(p, "fail") \in journal

SumOfAmounts(S) == Total(amount, S)

Init ==
  /\ LedgerInit
  /\ status = [p \in PayoutIds |-> "none"]
  /\ owner \in [PayoutIds -> Merchants]
  /\ amount = [p \in PayoutIds |-> 0]
  /\ recent = [p \in PayoutIds |-> FALSE]
  /\ bank = [p \in PayoutIds |-> "unsent"]
  /\ pc = [w \in Workers |-> "idle"]
  /\ job = [w \in Workers |-> NoJob]
  /\ backlog = [w \in Workers |-> {}]
  /\ budget = [w \in Workers |-> 0]
  /\ faults = 0

-----------------------------------------------------------------------------
Goto(w, point) == pc' = [pc EXCEPT ![w] = point]

\* The worker is done with its payout, by success or by an error it logged.
Finish(w) ==
  /\ Goto(w, "idle")
  /\ job' = [job EXCEPT ![w] = NoJob]
  /\ UNCHANGED <<backlog, budget>>

Free(w) == pc[w] = "idle" /\ backlog[w] = {}

Legal(p, to) == <<status[p], to>> \in Transitions

\* transition: UPDATE ... WHERE id, under the FSM trigger.
Move(p, to) ==
  /\ Legal(p, to)
  /\ status' = [status EXCEPT ![p] = to]
  /\ recent' = [recent EXCEPT ![p] = TRUE]
  /\ UNCHANGED <<owner, amount>>

\* A posting with the row's transition in its onPosted: both or neither.  A
\* replayed key, an uncovered account or an illegal transition changes nothing.
Applies(p, step, legs, to) ==
  Key(p, step) \notin journal /\ Covered(legs) /\ Legal(p, to)

PostAndMove(p, step, legs, to) ==
  \/ Post(Key(p, step), legs) /\ Move(p, to)
  \/ ~Applies(p, step, legs, to) /\ UNCHANGED <<ledgerVars, rowVars>>

-----------------------------------------------------------------------------
(* Phase 1: the API request. *)

\* beginIn reads the merchant's available projection, without any lock ...
BeginIn(w, p) ==
  /\ w \notin Redrivers /\ Free(w)
  /\ status[p] = "none"
  /\ \A v \in Workers : job[v] # p
  /\ job' = [job EXCEPT ![w] = p]
  /\ budget' = [budget EXCEPT ![w] = balance[Of("merchant.available", owner[p])]]
  /\ Goto(w, "check")
  /\ UNCHANGED <<ledgerVars, rowVars, bank, backlog, faults>>

\* ... then, in a second snapshot, the merchant's requested payouts: an amount
\* that does not fit is refused (InsufficientPayoutBalanceError) ...
CheckFunds(w) ==
  LET p == job[w]
      committed == {q \in PayoutIds : status[q] = "requested" /\ owner[q] = owner[p]}
  IN
  /\ pc[w] = "check"
  /\ \E a \in Amounts :
       \/ /\ a <= budget[w] - SumOfAmounts(committed)
          /\ amount' = [amount EXCEPT ![p] = a]
          /\ Goto(w, "insert")
          /\ UNCHANGED job
       \/ /\ a > budget[w] - SumOfAmounts(committed)
          /\ Goto(w, "idle")
          /\ job' = [job EXCEPT ![w] = NoJob]
          /\ UNCHANGED amount
  /\ budget' = [budget EXCEPT ![w] = 0]
  /\ UNCHANGED <<ledgerVars, status, owner, recent, bank, backlog, faults>>

\* ... and the row commits; the same process goes on to execute it.
Insert(w) ==
  LET p == job[w] IN
  /\ pc[w] = "insert"
  /\ status' = [status EXCEPT ![p] = "requested"]
  /\ recent' = [recent EXCEPT ![p] = TRUE]
  /\ Goto(w, "read")
  /\ UNCHANGED <<ledgerVars, owner, amount, bank, job, backlog, budget, faults>>

-----------------------------------------------------------------------------
(* Phase 2: execute. *)

\* The best-effort read that decides where execute starts.
Read(w) ==
  LET p == job[w] IN
  /\ pc[w] = "read"
  /\ \/ status[p] = "requested" /\ Goto(w, "emit") /\ UNCHANGED <<job, backlog, budget>>
     \/ status[p] = "in_transit" /\ Goto(w, "submit") /\ UNCHANGED <<job, backlog, budget>>
     \/ status[p] \notin {"requested", "in_transit"} /\ Finish(w)
  /\ UNCHANGED <<ledgerVars, rowVars, bank, faults>>

\* Bug: the emission is posted without its onPosted.
EmitWithoutRow(w) ==
  /\ pc[w] = "emit"
  /\ Post(Key(job[w], "emit"), EmitPayout(owner[job[w]], amount[job[w]]))
  /\ Goto(w, "submit")
  /\ UNCHANGED <<rowVars, job, backlog, budget, bank, faults>>

\* emitPayout: posted with the transition, replayed, short of funds, or
\* rolled back by the trigger (which ends this execute).
Emit(w) ==
  LET p == job[w]
      legs == EmitPayout(owner[p], amount[p])
  IN
  /\ pc[w] = "emit"
  /\ \/ /\ Post(Key(p, "emit"), legs) /\ Move(p, "in_transit")
        /\ Goto(w, "submit") /\ UNCHANGED <<job, backlog, budget>>
     \/ /\ Emitted(p)
        /\ Goto(w, "submit") /\ UNCHANGED <<ledgerVars, rowVars, job, backlog, budget>>
     \/ /\ ~Emitted(p) /\ ~Covered(legs)
        /\ Goto(w, "reject") /\ UNCHANGED <<ledgerVars, rowVars, job, backlog, budget>>
     \/ /\ ~Emitted(p) /\ Covered(legs) /\ ~Legal(p, "in_transit")
        /\ Finish(w) /\ UNCHANGED <<ledgerVars, rowVars>>
  /\ UNCHANGED <<bank, faults>>

\* InsufficientBalanceError was caught: a second transaction fails the row.
Reject(w) ==
  LET p == job[w] IN
  /\ pc[w] = "reject"
  /\ \/ Move(p, "failed")
     \/ ~Legal(p, "failed") /\ UNCHANGED rowVars
  /\ Finish(w)
  /\ UNCHANGED <<ledgerVars, bank, faults>>

\* submitPayout leaves the process ...
Submit(w) ==
  LET p == job[w] IN
  /\ pc[w] = "submit"
  /\ bank' = [bank EXCEPT ![p] = IF @ = "unsent" THEN "inflight" ELSE @]
  /\ Goto(w, "await")
  /\ UNCHANGED <<ledgerVars, rowVars, job, backlog, budget, faults>>

\* ... or the circuit is open and it is never sent: same path as a decline.
CircuitOpen(w) ==
  /\ pc[w] = "submit"
  /\ Goto(w, "declined")
  /\ UNCHANGED <<ledgerVars, rowVars, bank, job, backlog, budget, faults>>

\* Bug: an unknown outcome is assumed.
AnswerByAssumption(w) ==
  /\ pc[w] = "await"
  /\ \E verdict \in {"approved", "declined"} : Goto(w, verdict)
  /\ UNCHANGED <<ledgerVars, rowVars, bank, job, backlog, budget, faults>>

\* The answer, or a throw, a timeout or pending: the outcome is unknown.
Answer(w) ==
  LET p == job[w] IN
  /\ pc[w] = "await"
  /\ \/ bank[p] = "paid" /\ Goto(w, "approved")
     \/ bank[p] = "refused" /\ Goto(w, "declined")
     \/ Goto(w, "unknown")
  /\ UNCHANGED <<ledgerVars, rowVars, bank, job, backlog, budget, faults>>

RecordPaid(w) ==
  LET p == job[w] IN
  /\ pc[w] = "approved"
  /\ PostAndMove(p, "settle", SettlePayout(amount[p]), "paid")
  /\ Finish(w)
  /\ UNCHANGED <<bank, faults>>

RecordFailed(w) ==
  LET p == job[w] IN
  /\ pc[w] = "declined"
  /\ PostAndMove(p, "fail", FailPayout(owner[p], amount[p]), "failed")
  /\ Finish(w)
  /\ UNCHANGED <<bank, faults>>

RecordIndeterminate(w) ==
  LET p == job[w] IN
  /\ pc[w] = "unknown"
  /\ \/ Move(p, "indeterminate")
     \/ ~Legal(p, "indeterminate") /\ UNCHANGED rowVars
  /\ Finish(w)
  /\ UNCHANGED <<ledgerVars, bank, faults>>

-----------------------------------------------------------------------------
(* Verified resolution, watchdog and re-drive. *)

\* resolveFromProvider, from the webhook of a bank that has decided: the read
\* in one transaction, the record in the next (the steps above).  A terminal
\* row is ignored and a requested one makes the inbox retry: no state changes.
ResolveFromProvider(w, p) ==
  /\ w \notin Redrivers /\ Free(w)
  /\ bank[p] \in {"paid", "refused"}
  /\ status[p] \in {"in_transit", "indeterminate"}
  /\ job' = [job EXCEPT ![w] = p]
  /\ Goto(w, IF bank[p] = "paid" THEN "approved" ELSE "declined")
  /\ UNCHANGED <<ledgerVars, rowVars, bank, backlog, budget, faults>>

\* Bug: the comparison with the five minutes is reversed.
SweepRecent ==
  LET stale == {p \in PayoutIds : status[p] = "in_transit" /\ recent[p]} IN
  /\ stale # {}
  /\ status' = [p \in PayoutIds |-> IF p \in stale THEN "indeterminate" ELSE status[p]]
  /\ UNCHANGED <<ledgerVars, owner, amount, recent, bank, workerVars, faults>>

\* sweep_payouts: one statement over every stale in_transit row.
Sweep ==
  LET stale == {p \in PayoutIds : status[p] = "in_transit" /\ ~recent[p]} IN
  /\ stale # {}
  /\ status' = [p \in PayoutIds |-> IF p \in stale THEN "indeterminate" ELSE status[p]]
  /\ recent' = [p \in PayoutIds |-> p \in stale \/ recent[p]]
  /\ UNCHANGED <<ledgerVars, owner, amount, bank, workerVars, faults>>

\* Bug: the comparison with the five minutes is reversed.
ClaimRecent(w) ==
  /\ w \in Redrivers /\ Free(w)
  /\ \E p \in PayoutIds :
       /\ status[p] = "requested" /\ recent[p]
       /\ backlog' = [backlog EXCEPT ![w] = {p}]
  /\ UNCHANGED <<ledgerVars, rowVars, bank, pc, job, budget, faults>>

\* claim_stuck_payouts: leases a batch by touching updated_at.
ClaimStuck(w) ==
  LET stuck == {p \in PayoutIds : status[p] = "requested" /\ ~recent[p]} IN
  /\ w \in Redrivers /\ Free(w)
  /\ \E batch \in SUBSET stuck :
       /\ batch # {}
       /\ Cardinality(batch) <= MaxBatch
       /\ backlog' = [backlog EXCEPT ![w] = batch]
       /\ recent' = [p \in PayoutIds |-> p \in batch \/ recent[p]]
  /\ UNCHANGED <<ledgerVars, status, owner, amount, bank, pc, job, budget, faults>>

\* The redriver executes its batch one row after the other.
Drive(w) ==
  /\ pc[w] = "idle"
  /\ \E p \in backlog[w] :
       /\ job' = [job EXCEPT ![w] = p]
       /\ backlog' = [backlog EXCEPT ![w] = @ \ {p}]
  /\ Goto(w, "read")
  /\ UNCHANGED <<ledgerVars, rowVars, bank, budget, faults>>

-----------------------------------------------------------------------------
(* The environment. *)

BankDecides(p) ==
  /\ bank[p] = "inflight"
  /\ \E verdict \in {"paid", "refused"} : bank' = [bank EXCEPT ![p] = verdict]
  /\ UNCHANGED <<ledgerVars, rowVars, workerVars, faults>>

\* receiveProviderSettlement: the cash that payouts are paid from.
ProviderSettles(s) ==
  /\ \E a \in Amounts : Post(SettlementKey(s), ReceiveProviderSettlement(a))
  /\ UNCHANGED <<rowVars, bank, workerVars, faults>>

\* A process has the payout in hand.  Recording the bank's approval does not
\* count: it is repeated for as long as the cash is missing.
Driven(p) ==
  \E w \in Workers : p \in backlog[w] \/ (job[w] = p /\ pc[w] # "approved")

\* Five minutes pass since the row was last updated.  Nothing in the code
\* bounds how long an execute or a batch takes: LeaseHolds assumes it.
Age(p) ==
  /\ recent[p]
  /\ LeaseHolds => ~Driven(p)
  /\ recent' = [recent EXCEPT ![p] = FALSE]
  /\ UNCHANGED <<ledgerVars, status, owner, amount, bank, workerVars, faults>>

\* The process dies: what it had not committed is gone.
Crash(w) ==
  /\ faults < MaxFaults
  /\ ~Free(w)
  /\ faults' = faults + 1
  /\ Goto(w, "idle")
  /\ job' = [job EXCEPT ![w] = NoJob]
  /\ backlog' = [backlog EXCEPT ![w] = {}]
  /\ budget' = [budget EXCEPT ![w] = 0]
  /\ UNCHANGED <<ledgerVars, rowVars, bank>>

\* A transaction fails for infrastructure reasons; the batch goes on.
Abort(w) ==
  /\ faults < MaxFaults
  /\ pc[w] \in {"read", "emit", "reject", "approved", "declined", "unknown"}
  /\ faults' = faults + 1
  /\ Finish(w)
  /\ UNCHANGED <<ledgerVars, rowVars, bank>>

-----------------------------------------------------------------------------
Execute(w) ==
  \/ Read(w) \/ Emit(w) \/ Reject(w) \/ Submit(w) \/ CircuitOpen(w) \/ Answer(w)
  \/ RecordPaid(w) \/ RecordFailed(w) \/ RecordIndeterminate(w)

Next ==
  \/ \E w \in Workers :
       \/ \E p \in PayoutIds : BeginIn(w, p) \/ ResolveFromProvider(w, p)
       \/ CheckFunds(w) \/ Insert(w)
       \/ Execute(w)
       \/ ClaimStuck(w) \/ Drive(w)
       \/ Crash(w) \/ Abort(w)
  \/ Sweep
  \/ \E p \in PayoutIds : BankDecides(p) \/ Age(p)
  \/ \E s \in Settlements : ProviderSettles(s)

Spec == Init /\ [][Next]_vars

\* Processes make progress, the jobs of the worker run at an interval and time
\* passes; requests, the bank and the provider owe nothing.
Fairness ==
  /\ \A w \in Workers :
       WF_vars(Execute(w)) /\ WF_vars(ClaimStuck(w)) /\ WF_vars(Drive(w))
  /\ WF_vars(Sweep)
  /\ \A p \in PayoutIds : WF_vars(Age(p))

FairSpec == Spec /\ Fairness

-----------------------------------------------------------------------------
TypeOK ==
  /\ balance \in [Accounts -> Int]
  /\ journal \subseteq {Key(p, step) : p \in PayoutIds, step \in {"emit", "settle", "fail"}}
                     \cup {SettlementKey(s) : s \in Settlements}
  /\ status \in [PayoutIds -> Statuses]
  /\ owner \in [PayoutIds -> Merchants]
  /\ amount \in [PayoutIds -> Nat]
  /\ recent \in [PayoutIds -> BOOLEAN]
  /\ bank \in [PayoutIds -> BankStates]
  /\ pc \in [Workers -> Points]
  /\ job \in [Workers -> PayoutIds \cup {NoJob}]
  /\ backlog \in [Workers -> SUBSET PayoutIds]
  /\ budget \in [Workers -> Int]
  /\ faults \in 0..MaxFaults

\* The row and the journal tell the same story at every commit, whoever drives,
\* resolves, sweeps or re-drives the payout and however stale what they read
\* is: a payout is emitted before it is in flight, it is settled exactly when
\* it is paid, and it is never both settled and returned.
JournalAgrees ==
  \A p \in PayoutIds :
    /\ status[p] \in {"none", "requested"} => ~Emitted(p)
    /\ status[p] \in {"in_transit", "indeterminate", "paid"} => Emitted(p)
    /\ Settled(p) <=> status[p] = "paid"
    /\ Returned(p) => Emitted(p) /\ status[p] = "failed"

\* Payouts whose outcome is open.
OpenPayouts == {p \in PayoutIds : status[p] \in {"in_transit", "indeterminate"}}

\* payout.in_transit holds exactly the open payouts: no money is stranded there
\* by a failed payout or taken from it for another one.
InTransitBacked ==
  balance[Platform("payout.in_transit")] = SumOfAmounts(OpenPayouts)

\* A payout is recorded as paid only if the bank paid it.
PaidMeansBankPaid == \A p \in PayoutIds : status[p] = "paid" => bank[p] = "paid"

\* Money given back to the merchant never went out, nor can it still go out:
\* a request that reached the bank is not returned on the word of a later one.
ReturnedMeansNotPaid ==
  \A p \in PayoutIds : status[p] = "failed" => bank[p] \in {"unsent", "refused"}

\* Two processes never have the same payout before the bank at once.
OneBankContact ==
  \A v, w \in Workers :
    v # w /\ pc[v] = "await" /\ pc[w] = "await" => job[v] # job[w]

\* While drives end within their lease, the bank hears of a payout from one
\* process at a time, and what a refusal gives back has not been paid.
NoDoubleDrive == OneBankContact /\ ReturnedMeansNotPaid

\* The books hold the money of the payouts and nothing else: what is in transit
\* belongs to open payouts and no account paid out more than it had, although
\* the checks are made in transactions that end before the money moves.
PayoutsAreBooked == InTransitBacked /\ NoOverdraft

\* A request whose process died before it emitted the money is re-driven: a
\* requested payout does not wait forever.
RequestedIsDriven ==
  \A p \in PayoutIds : status[p] = "requested" ~> status[p] # "requested"

\* A payout whose process died while the bank was being asked is closed by the
\* bank's word or handed to the operators as indeterminate.
InTransitIsClosed ==
  \A p \in PayoutIds : status[p] = "in_transit" ~> status[p] # "in_transit"

\* Whatever a process was doing when it died, no payout is left where only that
\* process would have gone on.
PayoutsMoveOn == RequestedIsDriven /\ InTransitIsClosed

-----------------------------------------------------------------------------
\* What the journal says of a payout's money, as a reservation.
phase ==
  [p \in PayoutIds |->
     CASE Settled(p) -> "committed"
       [] Returned(p) -> "returned"
       [] Emitted(p) /\ ~Settled(p) /\ ~Returned(p) -> "held"
       [] OTHER -> "none"]

Money == INSTANCE Reservation WITH
  Items <- PayoutIds,
  Owners <- Merchants,
  Stakes <- Amounts,
  Opening <- [m \in Merchants |-> OpeningBalance[Of("merchant.available", m)]],
  stake <- [p \in PayoutIds |-> IF Emitted(p) THEN <<owner[p], amount[p]>> ELSE <<>>],
  free <- [m \in Merchants |-> balance[Of("merchant.available", m)]]

\* Whatever the workers do, and even when two of them drive the same payout,
\* the money of a payout leaves the merchant once and has a single fate.
ReservationSpec == Money!Spec
=============================================================================
