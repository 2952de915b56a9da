---------------------------- MODULE PayoutsProofs ----------------------------
(***************************************************************************)
(* Safety of Payouts for any number of payouts, workers and merchants.      *)
(* What needs the lease assumption names it as a hypothesis.                *)
(***************************************************************************)
EXTENDS Payouts, LedgerProofs

\* A worker that stands at one of these points has seen the emission commit.
Sent == {"submit", "await", "approved", "declined", "unknown"}

\* What each worker's local state says of the rows, the journal and the bank.
WorkerInv ==
  \A w \in Workers :
    /\ pc[w] # "idle" => job[w] \in PayoutIds
    /\ pc[w] = "idle" => job[w] = NoJob
    /\ pc[w] \in {"check", "insert"} => status[job[w]] = "none"
    /\ pc[w] = "insert" => amount[job[w]] \in Amounts
    /\ pc[w] \notin {"idle", "check", "insert"} => status[job[w]] # "none"
    /\ pc[w] \in Sent => Emitted(job[w])
    /\ pc[w] = "approved" => bank[job[w]] = "paid"
    /\ \A p \in backlog[w] : status[p] # "none"

\* A row that is not stored yet belongs to the request that will store it.
OneRequest ==
  \A v, w \in Workers :
    pc[w] \in {"check", "insert"} /\ job[v] = job[w] => v = w

AmountInv == \A p \in PayoutIds : status[p] # "none" => amount[p] \in Amounts

\* The inductive invariant.
Inv ==
  /\ TypeOK
  /\ WorkerInv
  /\ OneRequest
  /\ AmountInv
  /\ JournalAgrees
  /\ PaidMeansBankPaid
  /\ NoOverdraft

-----------------------------------------------------------------------------
\* Distinct payouts and steps have distinct idempotency keys.
LEMMA KeysDiffer ==
  /\ \A p, q, s, t : Key(p, s) = Key(q, t) => p = q /\ s = t
  /\ \A p, s, x : SettlementKey(x) # Key(p, s)
  BY DEF Key, SettlementKey

\* The accounts of the four postings are accounts of the chart.
LEMMA PayoutAccounts ==
  /\ Platform("payout.in_transit") \in Accounts
  /\ Platform("platform.cash") \in Accounts
  /\ Platform("provider.clearing") \in Accounts
  /\ Platform("platform.cash") # Platform("payout.in_transit")
  /\ Platform("platform.cash") # Platform("provider.clearing")
  /\ \A m \in Merchants :
       /\ Of("merchant.available", m) \in Accounts
       /\ Of("merchant.available", m) # Platform("payout.in_transit")
  BY DEF Accounts, Of, Platform, MerchantCodes, PlatformCodes

\* A payout's posting or a settlement keeps every guarded account covered.
LEMMA PostKeepsBalances ==
  ASSUME TypeOK, NoOverdraft, AmountInv, NEW key,
         \/ \E p \in PayoutIds :
              /\ status[p] # "none"
              /\ \/ Post(key, EmitPayout(owner[p], amount[p]))
                 \/ Post(key, SettlePayout(amount[p]))
                 \/ Post(key, FailPayout(owner[p], amount[p]))
         \/ \E a \in Amounts : Post(key, ReceiveProviderSettlement(a))
         \/ UNCHANGED ledgerVars
  PROVE  balance' \in [Accounts -> Int] /\ NoOverdraft'
<1>1. \A p \in PayoutIds : owner[p] \in Merchants /\ (status[p] # "none" => amount[p] \in Int)
  BY PayoutAssumption DEF TypeOK, AmountInv
<1>2. BalanceType
  BY DEF BalanceType, TypeOK
<1>3. ASSUME NEW p \in PayoutIds, status[p] # "none",
             Post(key, EmitPayout(owner[p], amount[p]))
      PROVE  BalanceType' /\ NoOverdraft'
  BY <1>1, <1>2, <1>3, PayoutAccounts, CoveredPosting DEF Post, EmitPayout
<1>4. ASSUME NEW p \in PayoutIds, status[p] # "none", Post(key, SettlePayout(amount[p]))
      PROVE  BalanceType' /\ NoOverdraft'
  BY <1>1, <1>2, <1>4, PayoutAccounts, CoveredPosting DEF Post, SettlePayout
<1>5. ASSUME NEW p \in PayoutIds, status[p] # "none",
             Post(key, FailPayout(owner[p], amount[p]))
      PROVE  BalanceType' /\ NoOverdraft'
  BY <1>1, <1>2, <1>5, PayoutAccounts, CoveredPosting DEF Post, FailPayout
<1>6. ASSUME NEW a \in Amounts, Post(key, ReceiveProviderSettlement(a))
      PROVE  BalanceType' /\ NoOverdraft'
  <2>1. a \in Int
    BY PayoutAssumption
  <2>2. QED
    BY <1>2, <1>6, <2>1, PayoutAccounts, CoveredPosting DEF Post, ReceiveProviderSettlement
<1>7. ASSUME UNCHANGED ledgerVars
      PROVE  BalanceType' /\ NoOverdraft'
  BY <1>2, <1>7 DEF ledgerVars, BalanceType, NoOverdraft
<1>8. QED
  BY <1>3, <1>4, <1>5, <1>6, <1>7 DEF BalanceType

\* The types of the columns of a row.
RowTypes ==
  /\ status \in [PayoutIds -> Statuses]
  /\ owner \in [PayoutIds -> Merchants]
  /\ amount \in [PayoutIds -> Nat]
  /\ recent \in [PayoutIds -> BOOLEAN]

\* A transition of a row keeps the types of its columns.
LEMMA MoveKeepsTypes ==
  ASSUME TypeOK, NEW p \in PayoutIds, NEW to \in Statuses,
         Move(p, to) \/ UNCHANGED rowVars
  PROVE  RowTypes'
<1>1. CASE Move(p, to)
  <2>1. status' \in [PayoutIds -> Statuses]
    BY <1>1 DEF Move, TypeOK
  <2>2. recent' \in [PayoutIds -> BOOLEAN]
    BY <1>1 DEF Move, TypeOK
  <2>3. QED
    BY <1>1, <2>1, <2>2 DEF RowTypes, Move, TypeOK
<1>2. CASE UNCHANGED rowVars
  BY <1>2 DEF RowTypes, rowVars, TypeOK
<1>3. QED
  BY <1>1, <1>2

-----------------------------------------------------------------------------
\* Nothing is requested, sent or posted at the start.
LEMMA InvInit == Init => Inv
<1> SUFFICES ASSUME Init PROVE Inv
  OBVIOUS
<1> USE OpeningAssumption, PayoutAssumption DEF Init, LedgerInit
<1>1. TypeOK
  BY DEF TypeOK, Statuses, BankStates, Points
<1>2. WorkerInv /\ OneRequest /\ AmountInv
  BY DEF WorkerInv, OneRequest, AmountInv, Sent
<1>3. JournalAgrees /\ PaidMeansBankPaid
  BY DEF JournalAgrees, PaidMeansBankPaid, Emitted, Settled, Returned
<1>4. NoOverdraft
  BY DEF NoOverdraft
<1>5. QED
  BY <1>1, <1>2, <1>3, <1>4 DEF Inv

\* The invariant speaks of nothing but the variables.
LEMMA InvStutters == Inv /\ UNCHANGED vars => Inv'
  BY DEF vars, ledgerVars, rowVars, workerVars, Inv, TypeOK, WorkerInv, OneRequest,
         AmountInv, JournalAgrees, PaidMeansBankPaid, NoOverdraft, Emitted, Settled,
         Returned

\* Every action keeps the invariant: one step per action.
LEMMA InvStep == Inv /\ Next => Inv'
<1> SUFFICES ASSUME Inv, Next PROVE Inv'
  OBVIOUS
<1> USE KeysDiffer, PayoutAssumption DEF Inv, ledgerVars, rowVars, workerVars
<1>1. ASSUME NEW w \in Workers, NEW p \in PayoutIds, BeginIn(w, p) PROVE Inv'
  <2>1. TypeOK' /\ NoOverdraft'
    BY <1>1, PayoutAccounts DEF BeginIn, Goto, Free, TypeOK, WorkerInv, Statuses,
       Points, NoOverdraft
  <2>2. WorkerInv' /\ OneRequest' /\ AmountInv'
    BY <1>1 DEF BeginIn, Goto, Free, TypeOK, WorkerInv, OneRequest, AmountInv,
       Sent, Emitted
  <2>3. JournalAgrees' /\ PaidMeansBankPaid'
    BY <1>1 DEF BeginIn, Goto, Free, TypeOK, WorkerInv, JournalAgrees,
       PaidMeansBankPaid, Emitted, Settled, Returned, Sent
  <2>4. QED
    BY <2>1, <2>2, <2>3
<1>2. ASSUME NEW w \in Workers, CheckFunds(w) PROVE Inv'
  <2>1. TypeOK' /\ NoOverdraft'
    BY <1>2 DEF CheckFunds, Goto, TypeOK, WorkerInv, Statuses, Points, NoOverdraft
  <2>2. WorkerInv' /\ OneRequest' /\ AmountInv'
    BY <1>2 DEF CheckFunds, Goto, TypeOK, WorkerInv, OneRequest, AmountInv, Sent,
       Emitted
  <2>3. JournalAgrees' /\ PaidMeansBankPaid'
    BY <1>2 DEF CheckFunds, Goto, TypeOK, WorkerInv, JournalAgrees,
       PaidMeansBankPaid, Emitted, Settled, Returned, Sent
  <2>4. QED
    BY <2>1, <2>2, <2>3
<1>3. ASSUME NEW w \in Workers, Insert(w) PROVE Inv'
  BY <1>3 DEF Insert, Goto, TypeOK, WorkerInv, OneRequest, AmountInv,
     JournalAgrees, PaidMeansBankPaid, Statuses, Points, BankStates, Sent, Emitted,
     Settled, Returned, NoOverdraft
<1>4. ASSUME NEW w \in Workers, Read(w) PROVE Inv'
  BY <1>4 DEF Read, Goto, Finish, TypeOK, WorkerInv, OneRequest, AmountInv,
     JournalAgrees, PaidMeansBankPaid, Statuses, Points, BankStates, Sent, Emitted,
     Settled, Returned, NoOverdraft
<1>5. ASSUME NEW w \in Workers, Emit(w) PROVE Inv'
  <2>1. balance' \in [Accounts -> Int] /\ NoOverdraft'
    BY <1>5, PostKeepsBalances, SMTT(20) DEF Emit, TypeOK, WorkerInv, Sent
  <2>2. journal' \subseteq {Key(q, step) : q \in PayoutIds, step \in {"emit", "settle", "fail"}}
                         \cup {SettlementKey(x) : x \in Settlements}
    BY <1>5 DEF Emit, TypeOK, WorkerInv, Post
  <2>3. RowTypes'
    BY <1>5, MoveKeepsTypes DEF Emit, TypeOK, WorkerInv, Statuses
  <2>4. TypeOK'
    BY <1>5, <2>1, <2>2, <2>3 DEF Emit, Goto, Finish, TypeOK, RowTypes, WorkerInv,
       Points
  <2>5. WorkerInv' /\ OneRequest' /\ AmountInv'
    BY <1>5 DEF Emit, Goto, Finish, Move, Legal, Transitions, TypeOK, WorkerInv,
       OneRequest, AmountInv, Sent, Emitted, Post
  <2>6. JournalAgrees' /\ PaidMeansBankPaid'
    BY <1>5 DEF Emit, Goto, Finish, Move, Legal, Transitions, TypeOK, WorkerInv,
       JournalAgrees, PaidMeansBankPaid, Emitted, Settled, Returned, Sent, Post
  <2>7. QED
    BY <2>1, <2>4, <2>5, <2>6
<1>6. ASSUME NEW w \in Workers, Reject(w) PROVE Inv'
  <2>1. RowTypes'
    BY <1>6, MoveKeepsTypes DEF Reject, TypeOK, WorkerInv, Statuses
  <2>2. TypeOK' /\ NoOverdraft'
    BY <1>6, <2>1 DEF Reject, Goto, Finish, TypeOK, RowTypes, WorkerInv, Points,
       NoOverdraft
  <2>3. WorkerInv' /\ OneRequest' /\ AmountInv'
    BY <1>6 DEF Reject, Goto, Finish, Move, Legal, Transitions, TypeOK, WorkerInv,
       OneRequest, AmountInv, Sent, Emitted
  <2>4. JournalAgrees' /\ PaidMeansBankPaid'
    BY <1>6 DEF Reject, Goto, Finish, Move, Legal, Transitions, TypeOK, WorkerInv,
       JournalAgrees, PaidMeansBankPaid, Emitted, Settled, Returned, Sent
  <2>5. QED
    BY <2>2, <2>3, <2>4
<1>7. ASSUME NEW w \in Workers, Submit(w) PROVE Inv'
  BY <1>7 DEF Submit, Goto, TypeOK, WorkerInv, OneRequest, AmountInv,
     JournalAgrees, PaidMeansBankPaid, Statuses, Points, BankStates, Sent, Emitted,
     Settled, Returned, NoOverdraft
<1>8. ASSUME NEW w \in Workers, CircuitOpen(w) PROVE Inv'
  BY <1>8 DEF CircuitOpen, Goto, TypeOK, WorkerInv, OneRequest, AmountInv,
     JournalAgrees, PaidMeansBankPaid, Statuses, Points, BankStates, Sent, Emitted,
     Settled, Returned, NoOverdraft
<1>9. ASSUME NEW w \in Workers, Answer(w) PROVE Inv'
  BY <1>9 DEF Answer, Goto, TypeOK, WorkerInv, OneRequest, AmountInv,
     JournalAgrees, PaidMeansBankPaid, Statuses, Points, BankStates, Sent, Emitted,
     Settled, Returned, NoOverdraft
<1>10. ASSUME NEW w \in Workers, RecordPaid(w) PROVE Inv'
  <2>1. balance' \in [Accounts -> Int] /\ NoOverdraft'
    <3> DEFINE p == job[w]
    <3>1. p \in PayoutIds /\ status[p] # "none"
      BY <1>10 DEF RecordPaid, WorkerInv
    <3>2. Post(Key(p, "settle"), SettlePayout(amount[p])) \/ UNCHANGED ledgerVars
      BY <1>10 DEF RecordPaid, PostAndMove
    <3>3. QED
      BY <3>1, <3>2, PostKeepsBalances
  <2>2. journal' \subseteq {Key(q, step) : q \in PayoutIds, step \in {"emit", "settle", "fail"}}
                         \cup {SettlementKey(x) : x \in Settlements}
    BY <1>10 DEF RecordPaid, PostAndMove, TypeOK, WorkerInv, Post
  <2>3. RowTypes'
    BY <1>10, MoveKeepsTypes DEF RecordPaid, PostAndMove, TypeOK, WorkerInv,
       Statuses
  <2>4. TypeOK'
    BY <1>10, <2>1, <2>2, <2>3 DEF RecordPaid, PostAndMove, Goto, Finish, TypeOK,
       RowTypes, WorkerInv, Points
  <2>5. WorkerInv' /\ OneRequest' /\ AmountInv'
    BY <1>10 DEF RecordPaid, PostAndMove, Goto, Finish, Move, Legal, Transitions,
       TypeOK, WorkerInv, OneRequest, AmountInv, Sent, Emitted, Post
  <2>6. JournalAgrees' /\ PaidMeansBankPaid'
    BY <1>10 DEF RecordPaid, PostAndMove, Goto, Finish, Move, Legal, Transitions,
       TypeOK, WorkerInv, JournalAgrees, PaidMeansBankPaid, Emitted, Settled,
       Returned, Sent, Post
  <2>7. QED
    BY <2>1, <2>4, <2>5, <2>6
<1>11. ASSUME NEW w \in Workers, RecordFailed(w) PROVE Inv'
  <2>1. balance' \in [Accounts -> Int] /\ NoOverdraft'
    BY <1>11, PostKeepsBalances, SMTT(20) DEF RecordFailed, PostAndMove, TypeOK, WorkerInv,
       Sent
  <2>2. journal' \subseteq {Key(q, step) : q \in PayoutIds, step \in {"emit", "settle", "fail"}}
                         \cup {SettlementKey(x) : x \in Settlements}
    BY <1>11 DEF RecordFailed, PostAndMove, TypeOK, WorkerInv, Post
  <2>3. RowTypes'
    BY <1>11, MoveKeepsTypes DEF RecordFailed, PostAndMove, TypeOK, WorkerInv,
       Statuses
  <2>4. TypeOK'
    BY <1>11, <2>1, <2>2, <2>3 DEF RecordFailed, PostAndMove, Goto, Finish, TypeOK,
       RowTypes, WorkerInv, Points
  <2>5. WorkerInv' /\ OneRequest' /\ AmountInv'
    BY <1>11 DEF RecordFailed, PostAndMove, Goto, Finish, Move, Legal, Transitions,
       TypeOK, WorkerInv, OneRequest, AmountInv, Sent, Emitted, Post
  <2>6. JournalAgrees' /\ PaidMeansBankPaid'
    BY <1>11 DEF RecordFailed, PostAndMove, Goto, Finish, Move, Legal, Transitions,
       TypeOK, WorkerInv, JournalAgrees, PaidMeansBankPaid, Emitted, Settled,
       Returned, Sent, Post
  <2>7. QED
    BY <2>1, <2>4, <2>5, <2>6
<1>12. ASSUME NEW w \in Workers, RecordIndeterminate(w) PROVE Inv'
  <2>1. RowTypes'
    BY <1>12, MoveKeepsTypes DEF RecordIndeterminate, TypeOK, WorkerInv, Statuses
  <2>2. TypeOK' /\ NoOverdraft'
    BY <1>12, <2>1, SMTT(20) DEF RecordIndeterminate, Goto, Finish, TypeOK, RowTypes,
       WorkerInv, Points, NoOverdraft
  <2>3. WorkerInv' /\ OneRequest' /\ AmountInv'
    BY <1>12 DEF RecordIndeterminate, Goto, Finish, Move, Legal, Transitions,
       TypeOK, WorkerInv, OneRequest, AmountInv, Sent, Emitted
  <2>4. JournalAgrees' /\ PaidMeansBankPaid'
    BY <1>12 DEF RecordIndeterminate, Goto, Finish, Move, Legal, Transitions,
       TypeOK, WorkerInv, JournalAgrees, PaidMeansBankPaid, Emitted, Settled,
       Returned, Sent
  <2>5. QED
    BY <2>2, <2>3, <2>4
<1>13. ASSUME NEW w \in Workers, NEW p \in PayoutIds, ResolveFromProvider(w, p) PROVE Inv'
  BY <1>13 DEF ResolveFromProvider, Goto, Free, TypeOK, WorkerInv, OneRequest,
     AmountInv, JournalAgrees, PaidMeansBankPaid, Statuses, Points, BankStates,
     Sent, Emitted, Settled, Returned, NoOverdraft
<1>14. ASSUME NEW w \in Workers, ClaimStuck(w) PROVE Inv'
  BY <1>14 DEF ClaimStuck, Free, TypeOK, WorkerInv, OneRequest, AmountInv,
     JournalAgrees, PaidMeansBankPaid, Statuses, Points, BankStates, Sent, Emitted,
     Settled, Returned, NoOverdraft
<1>15. ASSUME NEW w \in Workers, Drive(w) PROVE Inv'
  BY <1>15 DEF Drive, Goto, TypeOK, WorkerInv, OneRequest, AmountInv,
     JournalAgrees, PaidMeansBankPaid, Statuses, Points, BankStates, Sent, Emitted,
     Settled, Returned, NoOverdraft
<1>16. ASSUME NEW w \in Workers, Crash(w) PROVE Inv'
  BY <1>16 DEF Crash, Goto, TypeOK, WorkerInv, OneRequest, AmountInv,
     JournalAgrees, PaidMeansBankPaid, Statuses, Points, BankStates, Sent, Emitted,
     Settled, Returned, NoOverdraft
<1>17. ASSUME NEW w \in Workers, Abort(w) PROVE Inv'
  BY <1>17 DEF Abort, Goto, Finish, TypeOK, WorkerInv, OneRequest, AmountInv,
     JournalAgrees, PaidMeansBankPaid, Statuses, Points, BankStates, Sent, Emitted,
     Settled, Returned, NoOverdraft
<1>18. ASSUME Sweep PROVE Inv'
  BY <1>18 DEF Sweep, TypeOK, WorkerInv, OneRequest, AmountInv, JournalAgrees,
     PaidMeansBankPaid, Statuses, Points, BankStates, Sent, Emitted, Settled,
     Returned, NoOverdraft
<1>19. ASSUME NEW p \in PayoutIds, BankDecides(p) PROVE Inv'
  BY <1>19 DEF BankDecides, TypeOK, WorkerInv, OneRequest, AmountInv,
     JournalAgrees, PaidMeansBankPaid, Statuses, Points, BankStates, Sent, Emitted,
     Settled, Returned, NoOverdraft
<1>20. ASSUME NEW p \in PayoutIds, Age(p) PROVE Inv'
  BY <1>20 DEF Age, TypeOK, WorkerInv, OneRequest, AmountInv, JournalAgrees,
     PaidMeansBankPaid, Statuses, Points, BankStates, Sent, Emitted, Settled,
     Returned, NoOverdraft
<1>21. ASSUME NEW s \in Settlements, ProviderSettles(s) PROVE Inv'
  <2>1. balance' \in [Accounts -> Int] /\ NoOverdraft'
    BY <1>21, PostKeepsBalances DEF ProviderSettles, TypeOK, WorkerInv, Sent
  <2>2. journal' \subseteq {Key(q, step) : q \in PayoutIds, step \in {"emit", "settle", "fail"}}
                         \cup {SettlementKey(x) : x \in Settlements}
    BY <1>21 DEF ProviderSettles, TypeOK, WorkerInv, Post
  <2>3. TypeOK'
    BY <1>21, <2>1, <2>2 DEF ProviderSettles, TypeOK
  <2>4. WorkerInv' /\ OneRequest' /\ AmountInv'
    BY <1>21 DEF ProviderSettles, TypeOK, WorkerInv, OneRequest, AmountInv, Sent,
       Emitted, Post
  <2>5. JournalAgrees' /\ PaidMeansBankPaid'
    BY <1>21 DEF ProviderSettles, TypeOK, WorkerInv, JournalAgrees,
       PaidMeansBankPaid, Emitted, Settled, Returned, Sent, Post
  <2>6. QED
    BY <2>1, <2>3, <2>4, <2>5
<1>22. QED
  BY <1>1, <1>2, <1>3, <1>4, <1>5, <1>6, <1>7, <1>8, <1>9, <1>10, <1>11,
     <1>12, <1>13, <1>14, <1>15, <1>16, <1>17, <1>18, <1>19, <1>20, <1>21 DEF Next, Execute

-----------------------------------------------------------------------------
\* Inv holds in every reachable state: where each worker stands agrees with the
\* row, the journal and the bank of the payout it drives.
THEOREM Invariance == Spec => []Inv
<1>1. Inv /\ [Next]_vars => Inv'
  BY InvStep, InvStutters
<1>2. QED
  BY InvInit, <1>1, PTL DEF Spec

\* Every variable of the service keeps its type.
THEOREM TypeCorrect == Spec => []TypeOK
  BY Invariance, PTL DEF Inv

\* Row and journal agree at every commit, for any number of workers and payouts.
THEOREM JournalAgreement == Spec => []JournalAgrees
  BY Invariance, PTL DEF Inv

\* No payout is recorded as paid unless the bank paid it.
THEOREM PaidByTheBank == Spec => []PaidMeansBankPaid
  BY Invariance, PTL DEF Inv

\* No interleaving of payouts and settlements overdraws an account.
THEOREM NeverOverdrawn == Spec => []NoOverdraft
  BY Invariance, PTL DEF Inv

-----------------------------------------------------------------------------
(* One drive at a time, while no drive outlives its lease. *)

\* A worker owns a payout from the moment it takes or claims it until it has
\* recorded, or knows, what the bank says.
Before == {"check", "insert", "read", "emit", "reject", "submit", "await"}
Owns(w, p) == p \in backlog[w] \/ (job[w] = p /\ pc[w] \in Before)

OneOwner == \A v, w \in Workers, p \in PayoutIds : Owns(v, p) /\ Owns(w, p) => v = w

\* What a redriver claimed stays requested until it drives it.
ClaimsStand ==
  \A w \in Workers : \A p \in backlog[w] : job[w] # p /\ status[p] = "requested"

\* The lease: a stored row that somebody owns was updated recently.
OwnedIsRecent ==
  \A w \in Workers, p \in PayoutIds : Owns(w, p) /\ status[p] # "none" => recent[p]

\* What an owner knows of its row and of the bank.
OwnerKnows ==
  \A w \in Workers :
    /\ pc[w] \in {"read", "emit", "reject"} => status[job[w]] = "requested"
    /\ pc[w] = "submit" =>
         /\ status[job[w]] = "in_transit"
         /\ bank[job[w]] = "unsent"
         /\ \A v \in Workers : job[v] = job[w] => v = w
    /\ pc[w] \in {"await", "unknown"} => bank[job[w]] # "unsent"
    /\ pc[w] = "declined" => bank[job[w]] \in {"unsent", "refused"}

\* The bank hears of a payout after its money was set aside, never before.
SentAfterEmission == \A p \in PayoutIds : ~Emitted(p) => bank[p] = "unsent"

DriveInv ==
  /\ OneOwner
  /\ ClaimsStand
  /\ OwnedIsRecent
  /\ OwnerKnows
  /\ SentAfterEmission
  /\ ReturnedMeansNotPaid

LEMMA DriveInit == Init => DriveInv
  BY DEF Init, LedgerInit, DriveInv, OneOwner, ClaimsStand, OwnedIsRecent, OwnerKnows,
     SentAfterEmission, ReturnedMeansNotPaid, Owns, Before, Emitted

LEMMA DriveStutters == DriveInv /\ UNCHANGED vars => DriveInv'
  BY DEF vars, ledgerVars, rowVars, workerVars, DriveInv, OneOwner, ClaimsStand,
     OwnedIsRecent, OwnerKnows, SentAfterEmission, ReturnedMeansNotPaid, Owns, Before,
     Emitted

LEMMA DriveStep == LeaseHolds /\ Inv /\ DriveInv /\ Next => DriveInv'
<1> SUFFICES ASSUME LeaseHolds, Inv, DriveInv, Next PROVE DriveInv'
  OBVIOUS
<1> USE KeysDiffer, PayoutAssumption DEF Inv, TypeOK, WorkerInv, DriveInv, ledgerVars,
   rowVars, workerVars, Goto, Emitted
<1>1. ASSUME NEW w \in Workers, NEW p \in PayoutIds, BeginIn(w, p) PROVE DriveInv'
  BY <1>1 DEF BeginIn, Free, OneOwner, ClaimsStand, OwnedIsRecent, OwnerKnows,
     SentAfterEmission, ReturnedMeansNotPaid, JournalAgrees, PaidMeansBankPaid, Owns,
     Before, Sent
<1>2. ASSUME NEW w \in Workers, CheckFunds(w) PROVE DriveInv'
  BY <1>2, SMTT(20) DEF CheckFunds, OneOwner, ClaimsStand, OwnedIsRecent, OwnerKnows,
     SentAfterEmission, ReturnedMeansNotPaid, JournalAgrees, PaidMeansBankPaid, Owns,
     Before, Sent
<1>3. ASSUME NEW w \in Workers, Insert(w) PROVE DriveInv'
  BY <1>3 DEF Insert, OneOwner, ClaimsStand, OwnedIsRecent, OwnerKnows,
     SentAfterEmission, ReturnedMeansNotPaid, JournalAgrees, PaidMeansBankPaid, Owns,
     Before, Sent
<1>4. ASSUME NEW w \in Workers, Read(w) PROVE DriveInv'
  BY <1>4 DEF Read, Finish, OneOwner, ClaimsStand, OwnedIsRecent, OwnerKnows,
     SentAfterEmission, ReturnedMeansNotPaid, JournalAgrees, PaidMeansBankPaid, Owns,
     Before, Sent
<1>5. ASSUME NEW w \in Workers, Emit(w) PROVE DriveInv'
  <2>1. OneOwner'
    BY <1>5 DEF Emit, Post, Move, Legal, Finish, OneOwner, ClaimsStand,
       OwnedIsRecent, OwnerKnows, Owns, Before
  <2>2. ClaimsStand'
    BY <1>5 DEF Emit, Post, Move, Legal, Finish, OneOwner, ClaimsStand,
       OwnedIsRecent, OwnerKnows, Owns, Before
  <2>3. OwnedIsRecent'
    BY <1>5 DEF Emit, Post, Move, Legal, Finish, OneOwner, ClaimsStand,
       OwnedIsRecent, OwnerKnows, Owns, Before
  <2>4. OwnerKnows'
    <3>1. pc[w] = "emit" /\ status[job[w]] = "requested" /\ ~Emitted(job[w])
      BY <1>5 DEF Emit, OwnerKnows, JournalAgrees
    <3>2. \A v \in Workers : job[v] = job[w] /\ pc[v] \in Before => v = w
      BY <1>5, <3>1 DEF Emit, OneOwner, Owns, Before
    <3>3. \A v \in Workers : job[v] = job[w] => v = w
      BY <3>1, <3>2 DEF Before, Sent, Points
    <3>4. CASE UNCHANGED status
      BY <1>5, <3>1, <3>4 DEF Emit, Post, Move, Legal, Transitions, Finish, OwnerKnows
    <3>5. CASE Move(job[w], "in_transit") /\ pc' = [pc EXCEPT ![w] = "submit"]
               /\ UNCHANGED job
      BY <1>5, <3>1, <3>3, <3>5 DEF Emit, Move, OwnerKnows, SentAfterEmission
    <3>6. QED
      BY <1>5, <3>4, <3>5 DEF Emit
  <2>5. SentAfterEmission' /\ ReturnedMeansNotPaid'
    BY <1>5 DEF Emit, Post, Move, Legal, Finish, OwnerKnows, SentAfterEmission,
       ReturnedMeansNotPaid, JournalAgrees, Sent, PaidMeansBankPaid
  <2>6. QED
    BY <2>1, <2>2, <2>3, <2>4, <2>5
<1>6. ASSUME NEW w \in Workers, Reject(w) PROVE DriveInv'
  BY <1>6 DEF Reject, Move, Finish, OneOwner, ClaimsStand, OwnedIsRecent, OwnerKnows,
     SentAfterEmission, ReturnedMeansNotPaid, JournalAgrees, PaidMeansBankPaid, Owns,
     Before, Sent
<1>7. ASSUME NEW w \in Workers, Submit(w) PROVE DriveInv'
  BY <1>7 DEF Submit, OneOwner, ClaimsStand, OwnedIsRecent, OwnerKnows,
     SentAfterEmission, ReturnedMeansNotPaid, JournalAgrees, PaidMeansBankPaid, Owns,
     Before, Sent
<1>8. ASSUME NEW w \in Workers, CircuitOpen(w) PROVE DriveInv'
  BY <1>8 DEF CircuitOpen, OneOwner, ClaimsStand, OwnedIsRecent, OwnerKnows,
     SentAfterEmission, ReturnedMeansNotPaid, JournalAgrees, PaidMeansBankPaid, Owns,
     Before, Sent
<1>9. ASSUME NEW w \in Workers, Answer(w) PROVE DriveInv'
  BY <1>9 DEF Answer, OneOwner, ClaimsStand, OwnedIsRecent, OwnerKnows,
     SentAfterEmission, ReturnedMeansNotPaid, JournalAgrees, PaidMeansBankPaid, Owns,
     Before, Sent
<1>10. ASSUME NEW w \in Workers, RecordPaid(w) PROVE DriveInv'
  <2>1. OneOwner'
    BY <1>10 DEF RecordPaid, PostAndMove, Post, Move, Legal, Transitions, Finish,
       OneOwner, ClaimsStand, OwnedIsRecent, OwnerKnows, Owns, Before
  <2>2. ClaimsStand'
    BY <1>10 DEF RecordPaid, PostAndMove, Post, Move, Legal, Transitions, Finish,
       OneOwner, ClaimsStand, OwnedIsRecent, OwnerKnows, Owns, Before
  <2>3. OwnedIsRecent'
    BY <1>10 DEF RecordPaid, PostAndMove, Post, Move, Legal, Transitions, Finish,
       OneOwner, ClaimsStand, OwnedIsRecent, OwnerKnows, Owns, Before
  <2>4. OwnerKnows'
    BY <1>10 DEF RecordPaid, PostAndMove, Post, Move, Legal, Transitions, Finish,
       OneOwner, ClaimsStand, OwnedIsRecent, OwnerKnows, SentAfterEmission,
       JournalAgrees, Owns, Before, Sent
  <2>5. SentAfterEmission' /\ ReturnedMeansNotPaid'
    BY <1>10 DEF RecordPaid, PostAndMove, Post, Move, Legal, Transitions, Finish,
       OwnerKnows, SentAfterEmission, ReturnedMeansNotPaid, JournalAgrees, Sent,
       PaidMeansBankPaid
  <2>6. QED
    BY <2>1, <2>2, <2>3, <2>4, <2>5
<1>11. ASSUME NEW w \in Workers, RecordFailed(w) PROVE DriveInv'
  BY <1>11 DEF RecordFailed, PostAndMove, Post, Move, Legal, Transitions, Finish,
     OneOwner, ClaimsStand, OwnedIsRecent, OwnerKnows, SentAfterEmission,
     ReturnedMeansNotPaid, JournalAgrees, PaidMeansBankPaid, Owns, Before, Sent
<1>12. ASSUME NEW w \in Workers, RecordIndeterminate(w) PROVE DriveInv'
  BY <1>12 DEF RecordIndeterminate, Move, Legal, Transitions, Finish, OneOwner,
     ClaimsStand, OwnedIsRecent, OwnerKnows, SentAfterEmission, ReturnedMeansNotPaid,
     JournalAgrees, PaidMeansBankPaid, Owns, Before, Sent
<1>13. ASSUME NEW w \in Workers, NEW p \in PayoutIds, ResolveFromProvider(w, p) PROVE DriveInv'
  BY <1>13 DEF ResolveFromProvider, Free, OneOwner, ClaimsStand, OwnedIsRecent,
     OwnerKnows, SentAfterEmission, ReturnedMeansNotPaid, JournalAgrees,
     PaidMeansBankPaid, Owns, Before, Sent
<1>14. ASSUME NEW w \in Workers, ClaimStuck(w) PROVE DriveInv'
  <2>1. OneOwner'
    BY <1>14 DEF ClaimStuck, Free, OneOwner, ClaimsStand, OwnedIsRecent, OwnerKnows,
       Owns, Before
  <2>2. ClaimsStand'
    BY <1>14 DEF ClaimStuck, Free, OneOwner, ClaimsStand, OwnedIsRecent, OwnerKnows,
       Owns, Before
  <2>3. OwnedIsRecent'
    <3>1. PICK batch \in SUBSET PayoutIds :
            /\ backlog' = [backlog EXCEPT ![w] = batch]
            /\ \A p \in PayoutIds : p \in batch \/ recent[p] => recent'[p]
      BY <1>14 DEF ClaimStuck
    <3>2. UNCHANGED <<status, pc, job>>
      BY <1>14 DEF ClaimStuck
    <3>3. \A v \in Workers, p \in PayoutIds : Owns(v, p)' => Owns(v, p) \/ p \in batch
      BY <3>1, <3>2 DEF Owns
    <3>4. QED
      BY <3>1, <3>2, <3>3 DEF OwnedIsRecent
  <2>4. OwnerKnows'
    BY <1>14 DEF ClaimStuck, Free, OneOwner, ClaimsStand, OwnedIsRecent, OwnerKnows,
       SentAfterEmission, JournalAgrees, Owns, Before, Sent
  <2>5. SentAfterEmission' /\ ReturnedMeansNotPaid'
    BY <1>14 DEF ClaimStuck, Free, OwnerKnows, SentAfterEmission,
       ReturnedMeansNotPaid, JournalAgrees, Sent, PaidMeansBankPaid
  <2>6. QED
    BY <2>1, <2>2, <2>3, <2>4, <2>5
<1>15. ASSUME NEW w \in Workers, Drive(w) PROVE DriveInv'
  BY <1>15 DEF Drive, OneOwner, ClaimsStand, OwnedIsRecent, OwnerKnows,
     SentAfterEmission, ReturnedMeansNotPaid, JournalAgrees, PaidMeansBankPaid, Owns,
     Before, Sent
<1>16. ASSUME NEW w \in Workers, Crash(w) PROVE DriveInv'
  BY <1>16 DEF Crash, OneOwner, ClaimsStand, OwnedIsRecent, OwnerKnows,
     SentAfterEmission, ReturnedMeansNotPaid, JournalAgrees, PaidMeansBankPaid, Owns,
     Before, Sent
<1>17. ASSUME NEW w \in Workers, Abort(w) PROVE DriveInv'
  BY <1>17 DEF Abort, Finish, OneOwner, ClaimsStand, OwnedIsRecent, OwnerKnows,
     SentAfterEmission, ReturnedMeansNotPaid, JournalAgrees, PaidMeansBankPaid, Owns,
     Before, Sent
<1>18. ASSUME Sweep PROVE DriveInv'
  BY <1>18 DEF Sweep, OneOwner, ClaimsStand, OwnedIsRecent, OwnerKnows,
     SentAfterEmission, ReturnedMeansNotPaid, JournalAgrees, PaidMeansBankPaid, Owns,
     Before, Sent
<1>19. ASSUME NEW p \in PayoutIds, BankDecides(p) PROVE DriveInv'
  BY <1>19 DEF BankDecides, OneOwner, ClaimsStand, OwnedIsRecent, OwnerKnows,
     SentAfterEmission, ReturnedMeansNotPaid, JournalAgrees, PaidMeansBankPaid, Owns,
     Before, Sent
<1>20. ASSUME NEW p \in PayoutIds, Age(p) PROVE DriveInv'
  BY <1>20 DEF Age, Driven, OneOwner, ClaimsStand, OwnedIsRecent, OwnerKnows,
     SentAfterEmission, ReturnedMeansNotPaid, JournalAgrees, PaidMeansBankPaid, Owns,
     Before, Sent
<1>21. ASSUME NEW s \in Settlements, ProviderSettles(s) PROVE DriveInv'
  BY <1>21 DEF ProviderSettles, Post, OneOwner, ClaimsStand, OwnedIsRecent,
     OwnerKnows, SentAfterEmission, ReturnedMeansNotPaid, JournalAgrees,
     PaidMeansBankPaid, Owns, Before, Sent
<1>22. QED
  BY <1>1, <1>2, <1>3, <1>4, <1>5, <1>6, <1>7, <1>8, <1>9, <1>10, <1>11, <1>12, <1>13,
     <1>14, <1>15, <1>16, <1>17, <1>18, <1>19, <1>20, <1>21 DEF Next, Execute

\* While drives end within their lease, the bank hears of a payout from one
\* process at a time, and what a refusal gives back was not paid.
THEOREM OneDriveAtATime ==
  ASSUME LeaseHolds
  PROVE  Spec => []NoDoubleDrive
<1>1. Inv /\ DriveInv /\ [Next]_vars => DriveInv'
  BY DriveStep, DriveStutters
<1>2. Inv /\ DriveInv => NoDoubleDrive
  BY DEF Inv, WorkerInv, DriveInv, OneOwner, Owns, Before, NoDoubleDrive, OneBankContact
<1>3. QED
  BY Invariance, DriveInit, <1>1, <1>2, PTL DEF Spec

-----------------------------------------------------------------------------
(* What is in transit belongs to open payouts. *)

InTransit == Platform("payout.in_transit")

\* The open payouts are finitely many and have amounts.
LEMMA OpenTotals ==
  ASSUME Inv
  PROVE  /\ IsFiniteSet(OpenPayouts)
         /\ \A p \in PayoutIds : amount[p] \in Nat
         /\ balance[InTransit] \in Int
         /\ SumOfAmounts(OpenPayouts) \in Nat
<1>1. IsFiniteSet(OpenPayouts)
  BY FreshPayouts, FS_Subset DEF OpenPayouts
<1>2. \A p \in PayoutIds : amount[p] \in Nat
  BY DEF Inv, TypeOK
<1>3. balance[InTransit] \in Int
  BY PayoutAccounts DEF Inv, TypeOK, InTransit
<1>4. SumOfAmounts(OpenPayouts) \in Nat
  BY <1>1, <1>2, TotalType DEF SumOfAmounts, OpenPayouts
<1>5. QED
  BY <1>1, <1>2, <1>3, <1>4

\* A step that opens and closes no payout and posts nothing to the account.
LEMMA SameOpen ==
  ASSUME InTransitBacked, balance'[InTransit] = balance[InTransit],
         OpenPayouts' = OpenPayouts,
         \A p \in OpenPayouts : amount'[p] = amount[p]
  PROVE  InTransitBacked'
<1>1. Total(amount', OpenPayouts) = Total(amount, OpenPayouts)
  BY TotalCongruence
<1>2. QED
  BY <1>1 DEF InTransitBacked, SumOfAmounts, InTransit

\* An emission opens a payout and puts its amount in transit.
LEMMA OneMoreOpen ==
  ASSUME Inv, InTransitBacked, NEW p \in PayoutIds, status[p] = "requested",
         Move(p, "in_transit"), NEW key, Post(key, EmitPayout(owner[p], amount[p]))
  PROVE  InTransitBacked'
<1>1. OpenPayouts' = OpenPayouts \cup {p} /\ p \notin OpenPayouts /\ amount' = amount
  BY DEF Move, Inv, TypeOK, OpenPayouts
<1>2. Total(amount, OpenPayouts \cup {p}) = Total(amount, OpenPayouts) + amount[p]
  BY <1>1, OpenTotals, TotalAdd DEF OpenPayouts
<1>3. balance'[InTransit] = balance[InTransit] + amount[p]
  <2>1. ~DebitNormal(InTransit)
    BY DEF DebitNormal, DebitNormalCodes, InTransit, Platform
  <2>2. BalanceType /\ owner[p] \in Merchants /\ amount[p] \in Int
    BY DEF BalanceType, Inv, TypeOK
  <2>3. QED
    BY <2>1, <2>2, PayoutAccounts, LiabilityCredited DEF Post, EmitPayout, InTransit
<1>4. QED
  BY <1>1, <1>2, <1>3 DEF InTransitBacked, SumOfAmounts, InTransit

\* The record of an outcome closes a payout and takes its amount out again.
LEMMA OneLessOpen ==
  ASSUME Inv, InTransitBacked, NEW p \in OpenPayouts, NEW to \in {"paid", "failed"},
         Move(p, to), NEW key,
         \/ Post(key, SettlePayout(amount[p]))
         \/ Post(key, FailPayout(owner[p], amount[p]))
  PROVE  InTransitBacked'
<1>1. OpenPayouts' = OpenPayouts \ {p} /\ p \in PayoutIds /\ amount' = amount
  BY DEF Move, Inv, TypeOK, OpenPayouts
<1>2. Total(amount, OpenPayouts \ {p}) = Total(amount, OpenPayouts) - amount[p]
  BY OpenTotals, TotalRemove DEF OpenPayouts
<1>3. balance'[InTransit] = balance[InTransit] - amount[p]
  <2>1. ~DebitNormal(InTransit)
    BY DEF DebitNormal, DebitNormalCodes, InTransit, Platform
  <2>2. BalanceType /\ owner[p] \in Merchants /\ amount[p] \in Int
    BY <1>1 DEF BalanceType, Inv, TypeOK
  <2>3. CASE Post(key, SettlePayout(amount[p]))
    BY <2>1, <2>2, <2>3, PayoutAccounts, LiabilityDebited DEF Post, SettlePayout, InTransit
  <2>4. CASE Post(key, FailPayout(owner[p], amount[p]))
    BY <2>1, <2>2, <2>4, PayoutAccounts, LiabilityDebited DEF Post, FailPayout, InTransit
  <2>5. QED
    BY <2>3, <2>4
<1>4. QED
  BY <1>1, <1>2, <1>3 DEF InTransitBacked, SumOfAmounts, InTransit

LEMMA BackedInit == Init => InTransitBacked
<1>1. ASSUME Init PROVE OpenPayouts = {} /\ balance[InTransit] = 0
  BY <1>1, FreshPayouts DEF Init, LedgerInit, OpenPayouts, InTransit
<1>2. QED
  BY <1>1, TotalOfNone DEF InTransitBacked, SumOfAmounts, InTransit

LEMMA BackedStep ==
  Inv /\ DriveInv /\ InTransitBacked /\ [Next]_vars => InTransitBacked'
<1> SUFFICES ASSUME Inv, DriveInv, InTransitBacked, [Next]_vars PROVE InTransitBacked'
  OBVIOUS
<1> USE DEF ledgerVars, rowVars
<1>1. ASSUME UNCHANGED <<ledgerVars, rowVars>> PROVE InTransitBacked'
  BY <1>1 DEF InTransitBacked, OpenPayouts, SumOfAmounts
<1>2. ASSUME UNCHANGED <<balance, amount>>, OpenPayouts' = OpenPayouts
      PROVE  InTransitBacked'
  BY <1>2, SameOpen
<1>3. ASSUME NEW w \in Workers, CheckFunds(w) PROVE InTransitBacked'
  <2>1. \A p \in OpenPayouts : amount'[p] = amount[p]
    BY <1>3 DEF CheckFunds, Inv, TypeOK, WorkerInv, OpenPayouts
  <2>2. QED
    BY <1>3, <2>1, SameOpen DEF CheckFunds, OpenPayouts
<1>4. ASSUME NEW w \in Workers, Insert(w) PROVE InTransitBacked'
  BY <1>2, <1>4 DEF Insert, Inv, TypeOK, WorkerInv, OpenPayouts
<1>5. ASSUME NEW w \in Workers, Emit(w) PROVE InTransitBacked'
  <2>1. job[w] \in PayoutIds /\ status[job[w]] = "requested"
    BY <1>5 DEF Emit, Inv, WorkerInv, DriveInv, OwnerKnows
  <2>2. QED
    BY <1>1, <1>5, <2>1, OneMoreOpen DEF Emit
<1>6. ASSUME NEW w \in Workers, Reject(w) PROVE InTransitBacked'
  <2>1. job[w] \in PayoutIds /\ status[job[w]] = "requested"
    BY <1>6 DEF Reject, Inv, WorkerInv, DriveInv, OwnerKnows
  <2>2. QED
    BY <1>1, <1>2, <1>6, <2>1 DEF Reject, Move, Inv, TypeOK, OpenPayouts
<1>7. ASSUME NEW w \in Workers, RecordPaid(w) PROVE InTransitBacked'
  <2>1. Legal(job[w], "paid") => job[w] \in OpenPayouts
    BY <1>7 DEF RecordPaid, Legal, Transitions, Inv, WorkerInv, OpenPayouts
  <2>2. QED
    BY <1>1, <1>7, <2>1, OneLessOpen DEF RecordPaid, PostAndMove, Move
<1>8. ASSUME NEW w \in Workers, RecordFailed(w) PROVE InTransitBacked'
  <2>1. Legal(job[w], "failed") => job[w] \in OpenPayouts
    BY <1>8 DEF RecordFailed, Legal, Transitions, Inv, WorkerInv, JournalAgrees, Sent,
       OpenPayouts
  <2>2. QED
    BY <1>1, <1>8, <2>1, OneLessOpen DEF RecordFailed, PostAndMove, Move
<1>9. ASSUME NEW w \in Workers, RecordIndeterminate(w) PROVE InTransitBacked'
  <2>1. CASE Move(job[w], "indeterminate")
    <3>1. OpenPayouts' = OpenPayouts
      BY <1>9, <2>1 DEF RecordIndeterminate, Move, Legal, Transitions, Inv, TypeOK,
         WorkerInv, OpenPayouts
    <3>2. QED
      BY <1>2, <1>9, <2>1, <3>1 DEF RecordIndeterminate, Move
  <2>2. QED
    BY <1>1, <1>9, <2>1 DEF RecordIndeterminate
<1>10. ASSUME Sweep PROVE InTransitBacked'
  BY <1>2, <1>10 DEF Sweep, OpenPayouts
<1>11. ASSUME NEW w \in Workers, ClaimStuck(w) PROVE InTransitBacked'
  BY <1>2, <1>11 DEF ClaimStuck, OpenPayouts
<1>12. ASSUME NEW p \in PayoutIds, Age(p) PROVE InTransitBacked'
  BY <1>2, <1>12 DEF Age, OpenPayouts
<1>13. ASSUME NEW s \in Settlements, ProviderSettles(s) PROVE InTransitBacked'
  <2>1. PICK a \in Amounts : Post(SettlementKey(s), ReceiveProviderSettlement(a))
    BY <1>13 DEF ProviderSettles
  <2>2. a \in Int /\ BalanceType
    BY PayoutAssumption DEF Inv, TypeOK, BalanceType
  <2>3. InTransit \notin {Platform("platform.cash"), Platform("provider.clearing")}
    BY DEF InTransit, Platform
  <2>4. balance'[InTransit] = balance[InTransit]
    BY <2>1, <2>2, <2>3, PayoutAccounts, MovementApplied
    DEF Post, ReceiveProviderSettlement, InTransit
  <2>5. QED
    BY <1>13, <2>4, SameOpen DEF ProviderSettles, OpenPayouts
<1>14. CASE UNCHANGED vars
  BY <1>1, <1>14 DEF vars
<1>15. CASE Next
  BY <1>1, <1>3, <1>4, <1>5, <1>6, <1>7, <1>8, <1>9, <1>10, <1>11, <1>12, <1>13, <1>15
  DEF Next, Execute, BeginIn, Read, Submit, CircuitOpen, Answer, ResolveFromProvider,
      Drive, Crash, Abort, BankDecides
<1>16. QED
  BY <1>14, <1>15

\* While drives end within their lease, the money in transit is that of the
\* open payouts and no account pays out more than it has.
THEOREM InTransitIsBacked ==
  ASSUME LeaseHolds
  PROVE  Spec => []PayoutsAreBooked
<1>1. Inv /\ DriveInv /\ [Next]_vars => DriveInv'
  BY DriveStep, DriveStutters
<1>2. Inv /\ InTransitBacked => PayoutsAreBooked
  BY DEF Inv, PayoutsAreBooked
<1>3. QED
  BY Invariance, DriveInit, <1>1, BackedInit, BackedStep, <1>2, PTL DEF Spec

-----------------------------------------------------------------------------
(* Payouts implements Reservation. *)

stakes == [p \in PayoutIds |-> IF Emitted(p) THEN <<owner[p], amount[p]>> ELSE <<>>]
available == [m \in Merchants |-> balance[Of("merchant.available", m)]]

\* The initial states of Payouts are initial states of Reservation.
LEMMA RefinementInit == Init => Money!Init
  BY DEF Init, LedgerInit, Money!Init, phase, Emitted, Settled, Returned

\* A step that posts nothing and rewrites no emitted amount is a stutter.
LEMMA RefinementStutter ==
  ASSUME UNCHANGED <<ledgerVars, owner>>,
         \A p \in PayoutIds : Emitted(p) => amount'[p] = amount[p]
  PROVE  UNCHANGED Money!vars
<1>1. phase' = phase
  BY DEF ledgerVars, phase, Emitted, Settled, Returned
<1>2. stakes' = stakes
  BY DEF ledgerVars, stakes, Emitted
<1>3. available' = available
  BY DEF ledgerVars, available
<1>4. QED
  BY <1>1, <1>2, <1>3 DEF Money!vars, stakes, available

\* The posting of an emission takes the amount from what its owner has free.
LEMMA RefinementHold ==
  ASSUME Inv, NEW p \in PayoutIds, status[p] # "none",
         Post(Key(p, "emit"), EmitPayout(owner[p], amount[p])),
         UNCHANGED <<owner, amount>>
  PROVE  \E o \in Merchants, a \in Amounts : Money!Hold(p, o, a)
<1>1. /\ owner[p] \in Merchants /\ amount[p] \in Int /\ BalanceType
      /\ amount[p] > 0
  BY PayoutAssumption DEF Inv, TypeOK, AmountInv, BalanceType
<1>a. journal' = journal \cup {Key(p, "emit")} /\ ~Emitted(p)
  BY DEF Post, Emitted
<1>b. ~Settled(p) /\ ~Returned(p)
  BY <1>a DEF Inv, TypeOK, JournalAgrees, Statuses
<1>2. \A q \in PayoutIds :
        /\ Key(q, "emit") \in journal' <=> Key(q, "emit") \in journal \/ q = p
        /\ Key(q, "settle") \in journal' <=> Key(q, "settle") \in journal
        /\ Key(q, "fail") \in journal' <=> Key(q, "fail") \in journal
  BY <1>a, KeysDiffer
<1>3. phase[p] = "none" /\ phase' = [phase EXCEPT ![p] = "held"]
  <2>1. phase[p] = "none"
    BY <1>a, <1>b DEF phase
  <2>2. phase'[p] = "held"
    BY <1>2, <1>a, <1>b DEF phase, Emitted, Settled, Returned
  <2>3. \A q \in PayoutIds : q # p => phase'[q] = phase[q]
    BY <1>2 DEF phase, Emitted, Settled, Returned
  <2>4. QED
    BY <2>1, <2>2, <2>3 DEF phase
<1>4. stakes' = [stakes EXCEPT ![p] = <<owner[p], amount[p]>>]
  BY <1>2 DEF stakes, Emitted
<1>5. DEFINE x == Of("merchant.available", owner[p])
<1>6. x \in Guarded(EmitPayout(owner[p], amount[p])) /\ ~DebitNormal(x)
  BY <1>1 DEF Guarded, EmitPayout, Movement, Delta, DebitNormal, DebitNormalCodes, Of, Platform
<1>c. \A y \in Accounts \ {Platform("payout.in_transit")} :
        balance'[y] = IF y = x THEN balance[x] - amount[p] ELSE balance[y]
  <2>1. /\ x \in Accounts /\ Platform("payout.in_transit") \in Accounts
        /\ x # Platform("payout.in_transit")
    BY <1>1, PayoutAccounts
  <2>2. balance' = Applied(EmitPayout(owner[p], amount[p]))
    BY DEF Post
  <2>3. EmitPayout(owner[p], amount[p]) = Movement(x, Platform("payout.in_transit"), amount[p])
    BY DEF EmitPayout
  <2>4. QED
    BY <1>1, <1>6, <2>1, <2>2, <2>3, LiabilityDebited
<1>7. available' = [available EXCEPT ![owner[p]] = @ - amount[p]]
  <2>1. \A m \in Merchants :
          balance'[Of("merchant.available", m)]
            = IF m = owner[p] THEN balance[x] - amount[p]
              ELSE balance[Of("merchant.available", m)]
    <3>1. \A m \in Merchants : Of("merchant.available", m) = x => m = owner[p]
      BY DEF Of
    <3>2. QED
      BY <1>c, <3>1, PayoutAccounts
  <2>2. QED
    BY <2>1 DEF available
<1>8. amount[p] <= available[owner[p]]
  <2>1. balance'[x] >= 0
    BY <1>6 DEF Post, Covered
  <2>2. balance'[x] = balance[x] - amount[p]
    BY <1>1, <1>c, PayoutAccounts
  <2>3. balance[x] \in Int
    BY <1>1, PayoutAccounts DEF BalanceType
  <2>4. QED
    BY <1>1, <2>1, <2>2, <2>3 DEF available
<1>9. PICK o \in Merchants, a \in Amounts : o = owner[p] /\ a = amount[p]
  BY DEF Inv, TypeOK, AmountInv
<1>10. Money!Hold(p, o, a)
  BY <1>3, <1>4, <1>7, <1>8, <1>9 DEF Money!Hold, stakes, available
<1>11. QED
  BY <1>10

\* The posting of a settlement touches nobody's free money.
LEMMA RefinementCommit ==
  ASSUME Inv, NEW p \in PayoutIds, Emitted(p), Legal(p, "paid"),
         Post(Key(p, "settle"), SettlePayout(amount[p])),
         UNCHANGED <<owner, amount>>
  PROVE  Money!Commit(p)
<1>1. /\ amount[p] \in Int /\ BalanceType /\ status[p] \in {"in_transit", "indeterminate"}
  BY PayoutAssumption DEF Inv, TypeOK, AmountInv, BalanceType, Legal, Transitions
<1>2. journal' = journal \cup {Key(p, "settle")} /\ ~Settled(p) /\ ~Returned(p)
  BY <1>1 DEF Post, Inv, JournalAgrees, Settled
<1>3. \A q \in PayoutIds :
        /\ Key(q, "emit") \in journal' <=> Key(q, "emit") \in journal
        /\ Key(q, "settle") \in journal' <=> Key(q, "settle") \in journal \/ q = p
        /\ Key(q, "fail") \in journal' <=> Key(q, "fail") \in journal
  BY <1>2, KeysDiffer
<1>4. phase[p] = "held" /\ phase' = [phase EXCEPT ![p] = "committed"]
  <2>1. phase[p] = "held"
    BY <1>2 DEF phase
  <2>2. phase'[p] = "committed"
    BY <1>3, <1>2 DEF phase, Emitted, Settled, Returned
  <2>3. \A q \in PayoutIds : q # p => phase'[q] = phase[q]
    BY <1>3 DEF phase, Emitted, Settled, Returned
  <2>4. QED
    BY <2>1, <2>2, <2>3 DEF phase
<1>5. stakes' = stakes
  BY <1>3 DEF stakes, Emitted
<1>6. available' = available
  <2>1. \A m \in Merchants :
          Of("merchant.available", m)
            \notin {Platform("payout.in_transit"), Platform("platform.cash")}
    BY DEF Of, Platform
  <2>2. balance' = Applied(SettlePayout(amount[p]))
    BY DEF Post
  <2>3. \A m \in Merchants :
          balance'[Of("merchant.available", m)] = balance[Of("merchant.available", m)]
    BY <2>1, <2>2, PayoutAccounts DEF Applied, Movement, SettlePayout
  <2>4. QED
    BY <2>3 DEF available
<1>7. QED
  BY <1>4, <1>5, <1>6 DEF Money!Commit, stakes, available

\* The posting of a failure gives its owner the whole stake back.
LEMMA RefinementReturn ==
  ASSUME Inv, NEW p \in PayoutIds, Emitted(p), Legal(p, "failed"),
         Post(Key(p, "fail"), FailPayout(owner[p], amount[p])),
         UNCHANGED <<owner, amount>>
  PROVE  Money!Return(p)
<1>1. /\ amount[p] \in Int /\ owner[p] \in Merchants /\ BalanceType
      /\ status[p] \in {"requested", "in_transit", "indeterminate"}
  BY PayoutAssumption DEF Inv, TypeOK, AmountInv, BalanceType, Legal, Transitions
<1>2. journal' = journal \cup {Key(p, "fail")} /\ ~Settled(p) /\ ~Returned(p)
  BY <1>1 DEF Post, Inv, JournalAgrees, Returned
<1>3. \A q \in PayoutIds :
        /\ Key(q, "emit") \in journal' <=> Key(q, "emit") \in journal
        /\ Key(q, "settle") \in journal' <=> Key(q, "settle") \in journal
        /\ Key(q, "fail") \in journal' <=> Key(q, "fail") \in journal \/ q = p
  BY <1>2, KeysDiffer
<1>4. phase[p] = "held" /\ phase' = [phase EXCEPT ![p] = "returned"]
  <2>1. phase[p] = "held"
    BY <1>2 DEF phase
  <2>2. phase'[p] = "returned"
    BY <1>3, <1>2 DEF phase, Emitted, Settled, Returned
  <2>3. \A q \in PayoutIds : q # p => phase'[q] = phase[q]
    BY <1>3 DEF phase, Emitted, Settled, Returned
  <2>4. QED
    BY <2>1, <2>2, <2>3 DEF phase
<1>5. stakes' = stakes /\ stakes[p] = <<owner[p], amount[p]>>
  BY <1>3 DEF stakes, Emitted
<1>6. DEFINE x == Of("merchant.available", owner[p])
<1>7. \A y \in Accounts \ {Platform("payout.in_transit")} :
        balance'[y] = IF y = x THEN balance[x] + amount[p] ELSE balance[y]
  <2>1. /\ x \in Accounts /\ Platform("payout.in_transit") \in Accounts
        /\ x # Platform("payout.in_transit")
    BY <1>1, PayoutAccounts
  <2>2. balance' = Applied(FailPayout(owner[p], amount[p]))
    BY DEF Post
  <2>3. FailPayout(owner[p], amount[p]) = Movement(Platform("payout.in_transit"), x, amount[p])
    BY DEF FailPayout
  <2>4. ~DebitNormal(x)
    BY DEF DebitNormal, DebitNormalCodes, Of
  <2>5. QED
    BY <1>1, <2>1, <2>2, <2>3, <2>4, LiabilityCredited
<1>8. available' = [available EXCEPT ![owner[p]] = @ + amount[p]]
  <2>1. \A m \in Merchants : Of("merchant.available", m) = x => m = owner[p]
    BY DEF Of
  <2>2. \A m \in Merchants :
          balance'[Of("merchant.available", m)]
            = IF m = owner[p] THEN balance[x] + amount[p]
              ELSE balance[Of("merchant.available", m)]
    BY <1>7, <2>1, PayoutAccounts
  <2>3. QED
    BY <2>2 DEF available
<1>9. QED
  BY <1>4, <1>5, <1>8 DEF Money!Return, stakes, available

\* Every step of Payouts is a step of Reservation or stutters.
LEMMA RefinementStep == Inv /\ [Next]_vars => [Money!Next]_(Money!vars)
<1> SUFFICES ASSUME Inv, [Next]_vars PROVE Money!Next \/ UNCHANGED Money!vars
  OBVIOUS
<1>1. ASSUME NEW w \in Workers, Emit(w) PROVE Money!Next \/ UNCHANGED Money!vars
  <2>1. job[w] \in PayoutIds /\ status[job[w]] # "none"
    BY <1>1 DEF Inv, WorkerInv, Emit
  <2>2. CASE Post(Key(job[w], "emit"), EmitPayout(owner[job[w]], amount[job[w]]))
             /\ UNCHANGED <<owner, amount>>
    BY <2>1, <2>2, RefinementHold DEF Money!Next
  <2>3. CASE UNCHANGED <<ledgerVars, owner, amount>>
    BY <2>3, RefinementStutter
  <2>4. QED
    BY <1>1, <2>2, <2>3 DEF Emit, Move, rowVars
<1>2. ASSUME NEW w \in Workers, RecordPaid(w) PROVE Money!Next \/ UNCHANGED Money!vars
  <2>1. job[w] \in PayoutIds /\ Emitted(job[w])
    BY <1>2 DEF Inv, WorkerInv, RecordPaid, Sent
  <2>2. CASE /\ Post(Key(job[w], "settle"), SettlePayout(amount[job[w]]))
             /\ Legal(job[w], "paid") /\ UNCHANGED <<owner, amount>>
    BY <2>1, <2>2, RefinementCommit DEF Money!Next
  <2>3. CASE UNCHANGED <<ledgerVars, owner, amount>>
    BY <2>3, RefinementStutter
  <2>4. QED
    BY <1>2, <2>2, <2>3 DEF RecordPaid, PostAndMove, Move, rowVars
<1>3. ASSUME NEW w \in Workers, RecordFailed(w) PROVE Money!Next \/ UNCHANGED Money!vars
  <2>1. job[w] \in PayoutIds /\ Emitted(job[w])
    BY <1>3 DEF Inv, WorkerInv, RecordFailed, Sent
  <2>2. CASE /\ Post(Key(job[w], "fail"), FailPayout(owner[job[w]], amount[job[w]]))
             /\ Legal(job[w], "failed") /\ UNCHANGED <<owner, amount>>
    BY <2>1, <2>2, RefinementReturn DEF Money!Next
  <2>3. CASE UNCHANGED <<ledgerVars, owner, amount>>
    BY <2>3, RefinementStutter
  <2>4. QED
    BY <1>3, <2>2, <2>3 DEF RecordFailed, PostAndMove, Move, rowVars
<1>4. ASSUME NEW s \in Settlements, ProviderSettles(s) PROVE UNCHANGED Money!vars
  <2>1. PICK a \in Amounts : Post(SettlementKey(s), ReceiveProviderSettlement(a))
    BY <1>4 DEF ProviderSettles
  <2>2. \A q, step : Key(q, step) \in journal' <=> Key(q, step) \in journal
    BY <2>1, KeysDiffer DEF Post
  <2>3. \A m \in Merchants :
          Of("merchant.available", m)
            \notin {Platform("platform.cash"), Platform("provider.clearing")}
    BY DEF Of, Platform
  <2>4. a \in Int /\ BalanceType
    BY PayoutAssumption DEF Inv, TypeOK, BalanceType
  <2>5. \A m \in Merchants :
          balance'[Of("merchant.available", m)] = balance[Of("merchant.available", m)]
    BY <2>1, <2>3, <2>4, PayoutAccounts, MovementApplied DEF Post, ReceiveProviderSettlement
  <2>6. phase' = phase
    BY <2>2 DEF phase, Emitted, Settled, Returned
  <2>7. stakes' = stakes
    BY <1>4, <2>2 DEF stakes, Emitted, ProviderSettles, rowVars
  <2>8. available' = available
    BY <2>5 DEF available
  <2>9. QED
    BY <2>6, <2>7, <2>8 DEF Money!vars, stakes, available
<1>5. ASSUME NEW w \in Workers, CheckFunds(w) PROVE UNCHANGED Money!vars
  <2>1. job[w] \in PayoutIds /\ ~Emitted(job[w])
    BY <1>5 DEF Inv, WorkerInv, JournalAgrees, CheckFunds
  <2>2. \A q \in PayoutIds : Emitted(q) => amount'[q] = amount[q]
    BY <1>5, <2>1 DEF Inv, TypeOK, CheckFunds
  <2>3. QED
    BY <1>5, <2>2, RefinementStutter DEF CheckFunds
<1>6. ASSUME UNCHANGED <<ledgerVars, owner, amount>> PROVE UNCHANGED Money!vars
  BY <1>6, RefinementStutter
<1>7. CASE UNCHANGED vars
  BY <1>6, <1>7 DEF vars, rowVars
<1>8. CASE Next
  BY <1>1, <1>2, <1>3, <1>4, <1>5, <1>6, <1>8
  DEF Next, Execute, BeginIn, Insert, Read, Reject, Submit, CircuitOpen, Answer,
      RecordIndeterminate, ResolveFromProvider, ClaimStuck, Drive, Crash, Abort, Sweep,
      BankDecides, Age, Move, rowVars
<1>9. QED
  BY <1>7, <1>8

\* Whatever the interleaving, and with no assumption on the lease, a payout's
\* money leaves what its merchant has free at most once and for one outcome.
THEOREM PayoutsImplementReservation == Spec => ReservationSpec
<1>1. Inv /\ [Next]_vars => [Money!Next]_(Money!vars)
  BY RefinementStep
<1>2. QED
  BY Invariance, RefinementInit, <1>1, PTL DEF Spec, ReservationSpec, Money!Spec
=============================================================================
