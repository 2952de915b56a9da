--------------------------- MODULE RefundsProofs ---------------------------
(***************************************************************************)
(* Safety of Refunds for any number of refunds, intents and merchants.      *)
(***************************************************************************)
EXTENDS Refunds, LedgerProofs

\* An execute that stands at one of these points saw the reservation commit.
Sent == {"submit", "await", "approved", "declined", "unknown"}

\* Where execute stands agrees with the row, the journal and the provider.
ExecutorInv ==
  \A r \in RefundIds :
    /\ pc[Executor(r)] \in {"read", "reserve", "cancel"} => status[r] = "created"
    /\ pc[Executor(r)] \in Sent => Requested(r)
    /\ pc[Executor(r)] = "submit" => provider[r] = "unsent" /\ status[r] = "processing"
    /\ pc[Executor(r)] = "approved" => provider[r] = "refunded"
    /\ pc[Executor(r)] = "declined" => provider[r] \in {"unsent", "refused"}

\* Whoever resolves a refund does so on a word the provider has given.
ResolverInv ==
  \A r \in RefundIds :
    /\ pc[Resolver(r)] \in {"idle", "approved", "declined"}
    /\ pc[Resolver(r)] = "approved" => provider[r] = "refunded" /\ Requested(r)
    /\ pc[Resolver(r)] = "declined" => provider[r] = "refused" /\ Requested(r)

\* Row and journal tell the same story: money is reserved while a refund is
\* processing, and it is settled or given back exactly when the row says so.
JournalInv ==
  \A r \in RefundIds :
    /\ Requested(r) <=> status[r] \in {"processing", "indeterminate", "succeeded", "failed"}
    /\ Settled(r) <=> status[r] = "succeeded"
    /\ Canceled(r) <=> status[r] = "failed"

\* The provider hears of a refund after its money was reserved, never before.
SentAfterRequest == \A r \in RefundIds : ~Requested(r) => provider[r] = "unsent"

\* A stored refund asks for a part of what its intent captured.
AmountInv ==
  \A r \in RefundIds : status[r] # "none" => amount[r] \in 1 .. Captured[intent[r]]

\* The inductive invariant.
Inv ==
  /\ TypeOK
  /\ ExecutorInv
  /\ ResolverInv
  /\ JournalInv
  /\ SentAfterRequest
  /\ AmountInv
  /\ OutcomeIsVerified
  /\ NoOverdraft

-----------------------------------------------------------------------------
\* Distinct refunds and steps have distinct idempotency keys.
LEMMA KeysDiffer == \A r, q, s, t : Key(r, s) = Key(q, t) => r = q /\ s = t
  BY DEF Key

\* Every refund has two processes of its own.
LEMMA TwoProcesses ==
  /\ \A r \in RefundIds : Executor(r) \in Processes /\ Resolver(r) \in Processes
  /\ \A k \in Processes : \E r \in RefundIds : k \in {Executor(r), Resolver(r)}
  /\ \A r, q : Executor(r) # Resolver(q)
  /\ \A r, q : Executor(r) = Executor(q) => r = q
  /\ \A r, q : Resolver(r) = Resolver(q) => r = q
  BY DEF Executor, Resolver, Processes

\* The accounts of the three postings are accounts of the chart.
LEMMA RefundAccounts ==
  /\ Platform("provider.clearing") \in Accounts
  /\ \A m \in Merchants :
       /\ Of("merchant.available", m) \in Accounts
       /\ Of("refund.liability", m) \in Accounts
       /\ Of("merchant.available", m) # Of("refund.liability", m)
       /\ Of("refund.liability", m) # Platform("provider.clearing")
       /\ Of("merchant.available", m) # Platform("provider.clearing")
  /\ \A m, n : /\ Of("merchant.available", m) # Of("refund.liability", n)
               /\ Of("merchant.available", m) = Of("merchant.available", n) => m = n
               /\ Of("refund.liability", m) = Of("refund.liability", n) => m = n
  /\ \A m : /\ ~DebitNormal(Of("merchant.available", m))
            /\ ~DebitNormal(Of("refund.liability", m))
  BY DEF Accounts, Of, Platform, MerchantCodes, PlatformCodes, DebitNormal, DebitNormalCodes

\* What a stored refund posts: its merchant and its amount are known.
LEMMA RowFacts ==
  ASSUME TypeOK, AmountInv, NEW r \in RefundIds
  PROVE  /\ intent[r] \in Intents /\ PayerOf(r) \in Merchants
         /\ amount[r] \in Nat
         /\ Captured[intent[r]] \in Nat
         /\ status[r] # "none" => amount[r] > 0
<1>1. intent[r] \in Intents /\ amount[r] \in Nat
  BY DEF TypeOK
<1>2. Captured[intent[r]] \in Nat /\ PayerOf(r) \in Merchants
  BY <1>1, RefundAssumption DEF PayerOf
<1>3. QED
  BY <1>1, <1>2 DEF AmountInv

\* A refund's posting keeps every guarded account covered.
LEMMA PostKeepsBalances ==
  ASSUME TypeOK, NoOverdraft, AmountInv, NEW r \in RefundIds, NEW key,
         \/ Post(key, RequestRefund(PayerOf(r), amount[r]))
         \/ Post(key, SettleRefund(PayerOf(r), amount[r]))
         \/ Post(key, CancelRefundReservation(PayerOf(r), amount[r]))
         \/ UNCHANGED ledgerVars
  PROVE  balance' \in [Accounts -> Int] /\ NoOverdraft'
<1> DEFINE m == PayerOf(r)
<1>1. m \in Merchants /\ amount[r] \in Int
  BY RowFacts
<1>2. BalanceType
  BY DEF BalanceType, TypeOK
<1> HIDE DEF m
<1>3. CASE Post(key, RequestRefund(m, amount[r]))
  BY <1>1, <1>2, <1>3, RefundAccounts, CoveredPosting DEF Post, RequestRefund, BalanceType
<1>4. CASE Post(key, SettleRefund(m, amount[r]))
  BY <1>1, <1>2, <1>4, RefundAccounts, CoveredPosting DEF Post, SettleRefund, BalanceType
<1>5. CASE Post(key, CancelRefundReservation(m, amount[r]))
  BY <1>1, <1>2, <1>5, RefundAccounts, CoveredPosting
  DEF Post, CancelRefundReservation, BalanceType
<1>6. CASE UNCHANGED ledgerVars
  BY <1>2, <1>6 DEF ledgerVars, BalanceType, NoOverdraft
<1>7. QED
  BY <1>3, <1>4, <1>5, <1>6 DEF m

\* What is left of an intent never exceeds what it captured.
LEMMA RemainingBound ==
  ASSUME TypeOK, NEW i \in Intents
  PROVE  Remaining(i) \in Int /\ Remaining(i) <= Captured[i]
<1> DEFINE S == {r \in RefundIds : intent[r] = i /\ status[r] \in {"created", "processing"}}
<1>1. IsFiniteSet(S) /\ \A r \in S : amount[r] \in Nat
  BY FreshRefunds, FS_Subset DEF TypeOK
<1>2. SumOfAmounts(S) \in Nat
  BY <1>1, TotalType DEF SumOfAmounts
<1>3. Captured[i] \in Nat /\ refunded[i] \in Nat
  BY RefundAssumption DEF TypeOK
<1>4. Remaining(i) = Captured[i] - refunded[i] - SumOfAmounts(S)
  BY DEF Remaining
<1> HIDE DEF S
<1>5. QED
  BY <1>2, <1>3, <1>4

-----------------------------------------------------------------------------
\* Nothing is asked for, sent or posted at the start.
LEMMA InvInit == Init => Inv
<1> SUFFICES ASSUME Init PROVE Inv
  OBVIOUS
<1> USE OpeningAssumption, RefundAssumption DEF Init, LedgerInit
<1>1. TypeOK
  BY DEF TypeOK, Statuses, Points
<1>2. ExecutorInv /\ ResolverInv
  BY TwoProcesses DEF ExecutorInv, ResolverInv, Sent
<1>3. JournalInv /\ SentAfterRequest /\ AmountInv /\ OutcomeIsVerified
  BY DEF JournalInv, SentAfterRequest, AmountInv, OutcomeIsVerified, Requested, Settled,
     Canceled
<1>4. NoOverdraft
  BY DEF NoOverdraft
<1>5. QED
  BY <1>1, <1>2, <1>3, <1>4 DEF Inv

\* The invariant speaks of nothing but the variables.
LEMMA InvStutters == Inv /\ UNCHANGED vars => Inv'
  BY DEF vars, ledgerVars, rowVars, intentVars, Inv, TypeOK, ExecutorInv, ResolverInv,
     JournalInv, SentAfterRequest, AmountInv, OutcomeIsVerified, NoOverdraft, Requested,
     Settled, Canceled

\* Every action keeps the invariant: one step per action.
LEMMA InvStep == Inv /\ Next => Inv'
<1> SUFFICES ASSUME Inv, Next PROVE Inv'
  OBVIOUS
<1> USE KeysDiffer, TwoProcesses, RefundAssumption
    DEF Inv, ledgerVars, rowVars, intentVars, Goto, Requested, Settled, Canceled
<1>1. ASSUME NEW r \in RefundIds, BeginIn(r) PROVE Inv'
  <2>1. balance' \in [Accounts -> Int] /\ NoOverdraft'
    BY <1>1 DEF BeginIn, TypeOK, NoOverdraft
  <2>2. TypeOK'
    BY <1>1, <2>1 DEF BeginIn, TypeOK, Statuses, Points
  <2>3. ExecutorInv'
    BY <1>1 DEF BeginIn, TypeOK, ExecutorInv, ResolverInv, JournalInv, SentAfterRequest,
       Sent
  <2>4. ResolverInv'
    BY <1>1 DEF BeginIn, TypeOK, ExecutorInv, ResolverInv, JournalInv, SentAfterRequest,
       Sent
  <2>5. JournalInv'
    BY <1>1 DEF BeginIn, TypeOK, ExecutorInv, ResolverInv, JournalInv, Sent
  <2>6. SentAfterRequest' /\ AmountInv'
    <3>1. intent[r] \in Intents
      BY DEF TypeOK
    <3>2. PICK a \in Amounts \cup {Remaining(intent[r])} :
            0 < a /\ a <= Remaining(intent[r]) /\ amount' = [amount EXCEPT ![r] = a]
      BY <1>1 DEF BeginIn
    <3>3. a \in 1 .. Captured[intent[r]]
      BY <3>1, <3>2, RemainingBound
    <3>4. QED
      BY <1>1, <3>2, <3>3 DEF BeginIn, TypeOK, JournalInv, SentAfterRequest, AmountInv
  <2>7. OutcomeIsVerified'
    BY <1>1 DEF BeginIn, TypeOK, ExecutorInv, ResolverInv, JournalInv, SentAfterRequest,
       OutcomeIsVerified, Sent
  <2>8. QED
    BY <2>1, <2>2, <2>3, <2>4, <2>5, <2>6, <2>7
<1>2. ASSUME NEW r \in RefundIds, Read(r) PROVE Inv'
  <2>1. balance' \in [Accounts -> Int] /\ NoOverdraft'
    BY <1>2 DEF Read, TypeOK, NoOverdraft
  <2>2. TypeOK'
    BY <1>2, <2>1 DEF Read, TypeOK, Statuses, Points
  <2>3. ExecutorInv'
    BY <1>2 DEF Read, TypeOK, ExecutorInv, ResolverInv, JournalInv, SentAfterRequest,
       Sent
  <2>4. ResolverInv'
    BY <1>2 DEF Read, TypeOK, ExecutorInv, ResolverInv, JournalInv, SentAfterRequest,
       Sent
  <2>5. JournalInv'
    BY <1>2 DEF Read, TypeOK, ExecutorInv, ResolverInv, JournalInv, Sent
  <2>6. SentAfterRequest' /\ AmountInv'
    BY <1>2 DEF Read, TypeOK, ExecutorInv, JournalInv, SentAfterRequest, AmountInv, Sent
  <2>7. OutcomeIsVerified'
    BY <1>2 DEF Read, TypeOK, ExecutorInv, ResolverInv, JournalInv, SentAfterRequest,
       OutcomeIsVerified, Sent
  <2>8. QED
    BY <2>1, <2>2, <2>3, <2>4, <2>5, <2>6, <2>7
<1>3. ASSUME NEW r \in RefundIds, Reserve(r) PROVE Inv'
  <2>1. balance' \in [Accounts -> Int] /\ NoOverdraft'
    BY <1>3, PostKeepsBalances DEF Reserve
  <2>2. TypeOK'
    BY <1>3, <2>1 DEF Reserve, Post, Move, Legal, Transitions, TypeOK, Statuses, Points
  <2>3. ExecutorInv'
    BY <1>3 DEF Reserve, Post, Move, Legal, Transitions, TypeOK, ExecutorInv,
       ResolverInv, JournalInv, SentAfterRequest, Sent
  <2>4. ResolverInv'
    BY <1>3 DEF Reserve, Post, Move, Legal, Transitions, TypeOK, ExecutorInv,
       ResolverInv, JournalInv, SentAfterRequest, Sent
  <2>5. JournalInv'
    BY <1>3 DEF Reserve, Post, Move, Legal, Transitions, TypeOK, ExecutorInv,
       ResolverInv, JournalInv, Sent
  <2>6. SentAfterRequest' /\ AmountInv'
    BY <1>3 DEF Reserve, Post, Move, Legal, Transitions, TypeOK, ExecutorInv,
       JournalInv, SentAfterRequest, AmountInv, Sent
  <2>7. OutcomeIsVerified'
    BY <1>3 DEF Reserve, Post, Move, Legal, Transitions, TypeOK, ExecutorInv,
       ResolverInv, JournalInv, SentAfterRequest, OutcomeIsVerified, Sent
  <2>8. QED
    BY <2>1, <2>2, <2>3, <2>4, <2>5, <2>6, <2>7
<1>4. ASSUME NEW r \in RefundIds, Cancel(r) PROVE Inv'
  <2>1. balance' \in [Accounts -> Int] /\ NoOverdraft'
    BY <1>4 DEF Cancel, TypeOK, NoOverdraft
  <2>2. TypeOK'
    BY <1>4, <2>1 DEF Cancel, Move, Legal, Transitions, TypeOK, Statuses, Points
  <2>3. ExecutorInv'
    BY <1>4 DEF Cancel, Move, Legal, Transitions, TypeOK, ExecutorInv, ResolverInv,
       JournalInv, SentAfterRequest, Sent
  <2>4. ResolverInv'
    BY <1>4 DEF Cancel, Move, Legal, Transitions, TypeOK, ExecutorInv, ResolverInv,
       JournalInv, SentAfterRequest, Sent
  <2>5. JournalInv'
    BY <1>4 DEF Cancel, Move, Legal, Transitions, TypeOK, ExecutorInv, ResolverInv,
       JournalInv, Sent
  <2>6. SentAfterRequest' /\ AmountInv'
    BY <1>4 DEF Cancel, Move, Legal, Transitions, TypeOK, ExecutorInv, JournalInv,
       SentAfterRequest, AmountInv, Sent
  <2>7. OutcomeIsVerified'
    BY <1>4 DEF Cancel, Move, Legal, Transitions, TypeOK, ExecutorInv, ResolverInv,
       JournalInv, SentAfterRequest, OutcomeIsVerified, Sent
  <2>8. QED
    BY <2>1, <2>2, <2>3, <2>4, <2>5, <2>6, <2>7
<1>5. ASSUME NEW r \in RefundIds, Submit(r) PROVE Inv'
  <2>1. balance' \in [Accounts -> Int] /\ NoOverdraft'
    BY <1>5 DEF Submit, TypeOK, NoOverdraft
  <2>2. TypeOK'
    BY <1>5, <2>1 DEF Submit, TypeOK, Statuses, Points
  <2>3. ExecutorInv'
    BY <1>5 DEF Submit, TypeOK, ExecutorInv, ResolverInv, JournalInv, SentAfterRequest,
       Sent
  <2>4. ResolverInv'
    BY <1>5 DEF Submit, TypeOK, ExecutorInv, ResolverInv, JournalInv, SentAfterRequest,
       Sent
  <2>5. JournalInv'
    BY <1>5 DEF Submit, TypeOK, ExecutorInv, ResolverInv, JournalInv, Sent
  <2>6. SentAfterRequest' /\ AmountInv'
    BY <1>5 DEF Submit, TypeOK, ExecutorInv, JournalInv, SentAfterRequest, AmountInv,
       Sent
  <2>7. OutcomeIsVerified'
    BY <1>5 DEF Submit, TypeOK, ExecutorInv, ResolverInv, JournalInv, SentAfterRequest,
       OutcomeIsVerified, Sent
  <2>8. QED
    BY <2>1, <2>2, <2>3, <2>4, <2>5, <2>6, <2>7
<1>6. ASSUME NEW r \in RefundIds, CircuitOpen(r) PROVE Inv'
  <2>1. balance' \in [Accounts -> Int] /\ NoOverdraft'
    BY <1>6 DEF CircuitOpen, TypeOK, NoOverdraft
  <2>2. TypeOK'
    BY <1>6, <2>1 DEF CircuitOpen, TypeOK, Statuses, Points
  <2>3. ExecutorInv'
    BY <1>6 DEF CircuitOpen, TypeOK, ExecutorInv, ResolverInv, JournalInv,
       SentAfterRequest, Sent
  <2>4. ResolverInv'
    BY <1>6 DEF CircuitOpen, TypeOK, ExecutorInv, ResolverInv, JournalInv,
       SentAfterRequest, Sent
  <2>5. JournalInv'
    BY <1>6 DEF CircuitOpen, TypeOK, ExecutorInv, ResolverInv, JournalInv, Sent
  <2>6. SentAfterRequest' /\ AmountInv'
    BY <1>6 DEF CircuitOpen, TypeOK, ExecutorInv, JournalInv, SentAfterRequest,
       AmountInv, Sent
  <2>7. OutcomeIsVerified'
    BY <1>6 DEF CircuitOpen, TypeOK, ExecutorInv, ResolverInv, JournalInv,
       SentAfterRequest, OutcomeIsVerified, Sent
  <2>8. QED
    BY <2>1, <2>2, <2>3, <2>4, <2>5, <2>6, <2>7
<1>7. ASSUME NEW r \in RefundIds, Answer(r) PROVE Inv'
  <2>1. balance' \in [Accounts -> Int] /\ NoOverdraft'
    BY <1>7 DEF Answer, TypeOK, NoOverdraft
  <2>2. TypeOK'
    BY <1>7, <2>1 DEF Answer, TypeOK, Statuses, Points
  <2>3. ExecutorInv'
    BY <1>7 DEF Answer, TypeOK, ExecutorInv, ResolverInv, JournalInv, SentAfterRequest,
       Sent
  <2>4. ResolverInv'
    BY <1>7 DEF Answer, TypeOK, ExecutorInv, ResolverInv, JournalInv, SentAfterRequest,
       Sent
  <2>5. JournalInv'
    BY <1>7 DEF Answer, TypeOK, ExecutorInv, ResolverInv, JournalInv, Sent
  <2>6. SentAfterRequest' /\ AmountInv'
    BY <1>7 DEF Answer, TypeOK, ExecutorInv, JournalInv, SentAfterRequest, AmountInv,
       Sent
  <2>7. OutcomeIsVerified'
    BY <1>7 DEF Answer, TypeOK, ExecutorInv, ResolverInv, JournalInv, SentAfterRequest,
       OutcomeIsVerified, Sent
  <2>8. QED
    BY <2>1, <2>2, <2>3, <2>4, <2>5, <2>6, <2>7
<1>8. ASSUME NEW r \in RefundIds, NEW k \in {Executor(r), Resolver(r)}, RecordSucceeded(r, k) PROVE Inv'
  <2>1. balance' \in [Accounts -> Int] /\ NoOverdraft'
    BY <1>8, PostKeepsBalances DEF RecordSucceeded
  <2>2. TypeOK'
    <3>1. refunded' \in [Intents -> Nat]
      BY <1>8, RowFacts DEF RecordSucceeded, TypeOK
    <3>2. istatus' \in [Intents -> {"succeeded", "partially_refunded", "refunded"}]
      BY <1>8 DEF RecordSucceeded, TargetOf, TypeOK
    <3>3. /\ status' \in [RefundIds -> Statuses]
          /\ journal' \subseteq {Key(q, step) : q \in RefundIds, step \in {"request", "settle", "cancel"}}
      BY <1>8 DEF RecordSucceeded, Post, Move, TypeOK, Statuses
    <3>4. QED
      BY <1>8, <2>1, <3>1, <3>2, <3>3 DEF RecordSucceeded, Move, TypeOK, Points
  <2>3. ExecutorInv'
    BY <1>8 DEF RecordSucceeded, Post, Move, Legal, Transitions, TypeOK, ExecutorInv,
       ResolverInv, JournalInv, SentAfterRequest, Sent
  <2>4. ResolverInv'
    BY <1>8 DEF RecordSucceeded, Post, Move, Legal, Transitions, TypeOK, ExecutorInv,
       ResolverInv, JournalInv, SentAfterRequest, Sent
  <2>5. JournalInv'
    BY <1>8 DEF RecordSucceeded, Post, Move, Legal, Transitions, TypeOK, ExecutorInv,
       ResolverInv, JournalInv, Sent
  <2>6. SentAfterRequest' /\ AmountInv'
    BY <1>8 DEF RecordSucceeded, Post, Move, Legal, Transitions, TypeOK, ExecutorInv,
       JournalInv, SentAfterRequest, AmountInv, Sent
  <2>7. OutcomeIsVerified'
    BY <1>8 DEF RecordSucceeded, Post, Move, Legal, Transitions, TypeOK, ExecutorInv,
       ResolverInv, JournalInv, SentAfterRequest, OutcomeIsVerified, Sent
  <2>8. QED
    BY <2>1, <2>2, <2>3, <2>4, <2>5, <2>6, <2>7
<1>9. ASSUME NEW r \in RefundIds, NEW k \in {Executor(r), Resolver(r)}, RecordFailed(r, k) PROVE Inv'
  <2>1. balance' \in [Accounts -> Int] /\ NoOverdraft'
    BY <1>9, PostKeepsBalances DEF RecordFailed
  <2>2. TypeOK'
    BY <1>9, <2>1 DEF RecordFailed, Post, Move, Legal, Transitions, TypeOK, Statuses,
       Points
  <2>3. ExecutorInv'
    BY <1>9 DEF RecordFailed, Post, Move, Legal, Transitions, TypeOK, ExecutorInv,
       ResolverInv, JournalInv, SentAfterRequest, Sent
  <2>4. ResolverInv'
    BY <1>9 DEF RecordFailed, Post, Move, Legal, Transitions, TypeOK, ExecutorInv,
       ResolverInv, JournalInv, SentAfterRequest, Sent
  <2>5. JournalInv'
    BY <1>9 DEF RecordFailed, Post, Move, Legal, Transitions, TypeOK, ExecutorInv,
       ResolverInv, JournalInv, Sent
  <2>6. SentAfterRequest' /\ AmountInv'
    BY <1>9 DEF RecordFailed, Post, Move, Legal, Transitions, TypeOK, ExecutorInv,
       JournalInv, SentAfterRequest, AmountInv, Sent
  <2>7. OutcomeIsVerified'
    BY <1>9 DEF RecordFailed, Post, Move, Legal, Transitions, TypeOK, ExecutorInv,
       ResolverInv, JournalInv, SentAfterRequest, OutcomeIsVerified, Sent
  <2>8. QED
    BY <2>1, <2>2, <2>3, <2>4, <2>5, <2>6, <2>7
<1>10. ASSUME NEW r \in RefundIds, RecordIndeterminate(r) PROVE Inv'
  <2>1. balance' \in [Accounts -> Int] /\ NoOverdraft'
    BY <1>10 DEF RecordIndeterminate, TypeOK, NoOverdraft
  <2>2. TypeOK'
    BY <1>10, <2>1 DEF RecordIndeterminate, Move, Legal, Transitions, TypeOK, Statuses,
       Points
  <2>3. ExecutorInv'
    BY <1>10 DEF RecordIndeterminate, Move, Legal, Transitions, TypeOK, ExecutorInv,
       ResolverInv, JournalInv, SentAfterRequest, Sent
  <2>4. ResolverInv'
    BY <1>10 DEF RecordIndeterminate, Move, Legal, Transitions, TypeOK, ExecutorInv,
       ResolverInv, JournalInv, SentAfterRequest, Sent
  <2>5. JournalInv'
    BY <1>10 DEF RecordIndeterminate, Move, Legal, Transitions, TypeOK, ExecutorInv,
       ResolverInv, JournalInv, Sent
  <2>6. SentAfterRequest' /\ AmountInv'
    BY <1>10 DEF RecordIndeterminate, Move, Legal, Transitions, TypeOK, ExecutorInv,
       JournalInv, SentAfterRequest, AmountInv, Sent
  <2>7. OutcomeIsVerified'
    BY <1>10 DEF RecordIndeterminate, Move, Legal, Transitions, TypeOK, ExecutorInv,
       ResolverInv, JournalInv, SentAfterRequest, OutcomeIsVerified, Sent
  <2>8. QED
    BY <2>1, <2>2, <2>3, <2>4, <2>5, <2>6, <2>7
<1>11. ASSUME NEW r \in RefundIds, ResolveFromProvider(r) PROVE Inv'
  <2>1. balance' \in [Accounts -> Int] /\ NoOverdraft'
    BY <1>11 DEF ResolveFromProvider, TypeOK, NoOverdraft
  <2>2. TypeOK'
    BY <1>11, <2>1 DEF ResolveFromProvider, TypeOK, Statuses, Points
  <2>3. ExecutorInv'
    BY <1>11 DEF ResolveFromProvider, TypeOK, ExecutorInv, ResolverInv, JournalInv,
       SentAfterRequest, Sent
  <2>4. ResolverInv'
    BY <1>11 DEF ResolveFromProvider, TypeOK, ExecutorInv, ResolverInv, JournalInv,
       SentAfterRequest, Sent
  <2>5. JournalInv'
    BY <1>11 DEF ResolveFromProvider, TypeOK, ExecutorInv, ResolverInv, JournalInv, Sent
  <2>6. SentAfterRequest' /\ AmountInv'
    BY <1>11 DEF ResolveFromProvider, TypeOK, ExecutorInv, JournalInv, SentAfterRequest,
       AmountInv, Sent
  <2>7. OutcomeIsVerified'
    BY <1>11 DEF ResolveFromProvider, TypeOK, ExecutorInv, ResolverInv, JournalInv,
       SentAfterRequest, OutcomeIsVerified, Sent
  <2>8. QED
    BY <2>1, <2>2, <2>3, <2>4, <2>5, <2>6, <2>7
<1>12. ASSUME NEW r \in RefundIds, ProviderDecides(r) PROVE Inv'
  <2>1. balance' \in [Accounts -> Int] /\ NoOverdraft'
    BY <1>12 DEF ProviderDecides, TypeOK, NoOverdraft
  <2>2. TypeOK'
    BY <1>12, <2>1 DEF ProviderDecides, TypeOK, Statuses, Points
  <2>3. ExecutorInv'
    BY <1>12 DEF ProviderDecides, TypeOK, ExecutorInv, ResolverInv, JournalInv,
       SentAfterRequest, Sent
  <2>4. ResolverInv'
    BY <1>12 DEF ProviderDecides, TypeOK, ExecutorInv, ResolverInv, JournalInv,
       SentAfterRequest, Sent
  <2>5. JournalInv'
    BY <1>12 DEF ProviderDecides, TypeOK, ExecutorInv, ResolverInv, JournalInv, Sent
  <2>6. SentAfterRequest' /\ AmountInv'
    BY <1>12 DEF ProviderDecides, TypeOK, ExecutorInv, JournalInv, SentAfterRequest,
       AmountInv, Sent
  <2>7. OutcomeIsVerified'
    BY <1>12 DEF ProviderDecides, TypeOK, ExecutorInv, ResolverInv, JournalInv,
       SentAfterRequest, OutcomeIsVerified, Sent
  <2>8. QED
    BY <2>1, <2>2, <2>3, <2>4, <2>5, <2>6, <2>7
<1>13. ASSUME NEW k \in Processes, Crash(k) PROVE Inv'
  <2>1. balance' \in [Accounts -> Int] /\ NoOverdraft'
    BY <1>13 DEF Crash, TypeOK, NoOverdraft
  <2>2. TypeOK'
    BY <1>13, <2>1 DEF Crash, TypeOK, Statuses, Points
  <2>3. ExecutorInv'
    BY <1>13 DEF Crash, TypeOK, ExecutorInv, ResolverInv, JournalInv, SentAfterRequest,
       Sent
  <2>4. ResolverInv'
    BY <1>13 DEF Crash, TypeOK, ExecutorInv, ResolverInv, JournalInv, SentAfterRequest,
       Sent
  <2>5. JournalInv'
    BY <1>13 DEF Crash, TypeOK, ExecutorInv, ResolverInv, JournalInv, Sent
  <2>6. SentAfterRequest' /\ AmountInv'
    BY <1>13 DEF Crash, TypeOK, ExecutorInv, JournalInv, SentAfterRequest, AmountInv,
       Sent
  <2>7. OutcomeIsVerified'
    BY <1>13 DEF Crash, TypeOK, ExecutorInv, ResolverInv, JournalInv, SentAfterRequest,
       OutcomeIsVerified, Sent
  <2>8. QED
    BY <2>1, <2>2, <2>3, <2>4, <2>5, <2>6, <2>7
<1>14. QED
  BY <1>1, <1>2, <1>3, <1>4, <1>5, <1>6, <1>7, <1>8, <1>9, <1>10, <1>11, <1>12, <1>13
     DEF Next

-----------------------------------------------------------------------------
\* Inv holds in every reachable state: where each process stands agrees with
\* the row, the journal and the provider of its refund.
THEOREM Invariance == Spec => []Inv
<1>1. Inv /\ [Next]_vars => Inv'
  BY InvStep, InvStutters
<1>2. QED
  BY InvInit, <1>1, PTL DEF Spec

\* Every variable of the service keeps its type.
THEOREM TypeCorrect == Spec => []TypeOK
  BY Invariance, PTL DEF Inv

\* A refund ends as the provider says, whoever heard it first: what failed or
\* was canceled was not refunded and never will be.
THEOREM VerdictByTheProvider == Spec => []OutcomeIsVerified
  BY Invariance, PTL DEF Inv

\* No interleaving of refunds overdraws an account.
THEOREM NeverOverdrawn == Spec => []NoOverdraft
  BY Invariance, PTL DEF Inv

-----------------------------------------------------------------------------
(* The counters of the intents and the reserved money are those of the rows. *)

SucceededOf(i) == {r \in RefundIds : intent[r] = i /\ status[r] = "succeeded"}
OpenOf(m) ==
  {r \in RefundIds : PayerOf(r) = m /\ status[r] \in {"processing", "indeterminate"}}

\* Any set of refunds has a sum.
LEMMA RefundTotals ==
  ASSUME TypeOK, NEW S \in SUBSET RefundIds
  PROVE  /\ IsFiniteSet(S)
         /\ \A r \in S : amount[r] \in Nat
         /\ SumOfAmounts(S) \in Nat
<1>1. IsFiniteSet(S) /\ \A r \in S : amount[r] \in Nat
  BY FreshRefunds, FS_Subset DEF TypeOK
<1>2. QED
  BY <1>1, TotalType DEF SumOfAmounts

\* One more refund in a set adds its amount; one less takes it away.
LEMMA SumChanges ==
  ASSUME TypeOK, NEW S \in SUBSET RefundIds, NEW r \in RefundIds
  PROVE  /\ r \notin S => SumOfAmounts(S \cup {r}) = SumOfAmounts(S) + amount[r]
         /\ r \in S => SumOfAmounts(S \ {r}) = SumOfAmounts(S) - amount[r]
<1>1. /\ IsFiniteSet(S) /\ \A q \in S : amount[q] \in Nat
      /\ amount[r] \in Nat
  BY RefundTotals DEF TypeOK
<1>2. QED
  BY <1>1, TotalAdd, TotalRemove DEF SumOfAmounts

\* A step that changes no stored row, no counter and no reservation.
LEMMA BooksKept ==
  ASSUME Inv, RefundsAreBooked, UNCHANGED <<intentVars, intent>>,
         \A m \in Merchants :
           balance'[Of("refund.liability", m)] = balance[Of("refund.liability", m)],
         \A i \in Intents : SucceededOf(i)' = SucceededOf(i),
         \A m \in Merchants : OpenOf(m)' = OpenOf(m),
         \A r \in RefundIds : status[r] \notin {"none", "created"} => amount'[r] = amount[r]
  PROVE  RefundsAreBooked'
<1>1. \A i \in Intents : Total(amount', SucceededOf(i)) = Total(amount, SucceededOf(i))
  BY TotalCongruence DEF SucceededOf
<1>2. \A m \in Merchants : Total(amount', OpenOf(m)) = Total(amount, OpenOf(m))
  BY TotalCongruence DEF OpenOf
<1>3. IntentAgrees'
  <2>1. ASSUME NEW i \in Intents
        PROVE  refunded[i] = Total(amount', SucceededOf(i)')
    BY <1>1 DEF RefundsAreBooked, IntentAgrees, SumOfAmounts, SucceededOf
  <2>2. QED
    BY <2>1 DEF RefundsAreBooked, IntentAgrees, SumOfAmounts, SucceededOf, intentVars
<1>4. LiabilityBacked'
  <2>1. ASSUME NEW m \in Merchants
        PROVE  balance[Of("refund.liability", m)] = Total(amount', OpenOf(m)')
    BY <1>2 DEF RefundsAreBooked, LiabilityBacked, SumOfAmounts, OpenOf
  <2>2. QED
    BY <2>1 DEF LiabilityBacked, SumOfAmounts, OpenOf
<1>5. QED
  BY <1>3, <1>4 DEF RefundsAreBooked

\* A reservation opens a refund and moves its amount to its merchant's liability.
LEMMA OneMoreOpen ==
  ASSUME Inv, RefundsAreBooked, NEW r \in RefundIds, status[r] = "created",
         Move(r, "processing"), UNCHANGED intentVars,
         NEW key, Post(key, RequestRefund(PayerOf(r), amount[r]))
  PROVE  RefundsAreBooked'
<1>0. PICK m \in Merchants : m = PayerOf(r)
  BY RowFacts DEF Inv
<1>1. amount[r] \in Int /\ BalanceType
  BY DEF Inv, TypeOK, BalanceType
<1>2. /\ UNCHANGED <<intent, amount>>
      /\ OpenOf(m)' = OpenOf(m) \cup {r} /\ r \notin OpenOf(m)
      /\ \A n \in Merchants : n # m => OpenOf(n)' = OpenOf(n)
      /\ \A i \in Intents : SucceededOf(i)' = SucceededOf(i)
  BY <1>0 DEF Move, Inv, TypeOK, OpenOf, SucceededOf, PayerOf
<1>3. IntentAgrees'
  <2>1. \A i \in Intents : refunded[i] = SumOfAmounts(SucceededOf(i)')
    BY <1>2 DEF RefundsAreBooked, IntentAgrees, SucceededOf
  <2>2. QED
    BY <1>2, <2>1 DEF RefundsAreBooked, IntentAgrees, SumOfAmounts, SucceededOf, intentVars
<1>4. SumOfAmounts(OpenOf(m) \cup {r}) = SumOfAmounts(OpenOf(m)) + amount[r]
  BY <1>2, SumChanges DEF OpenOf, Inv
<1>5. \A n \in Merchants :
        balance'[Of("refund.liability", n)]
          = balance[Of("refund.liability", n)] + (IF n = m THEN amount[r] ELSE 0)
  <2>1. balance' = Applied(Movement(Of("merchant.available", m), Of("refund.liability", m), amount[r]))
    BY <1>0 DEF Post, RequestRefund
  <2>2. \A y \in Accounts : y # Of("merchant.available", m) =>
          balance'[y] = IF y = Of("refund.liability", m) THEN balance[y] + amount[r] ELSE balance[y]
    BY <1>1, <2>1, RefundAccounts, LiabilityCredited
  <2>3. \A n \in Merchants : balance[Of("refund.liability", n)] \in Int
    BY RefundAccounts DEF BalanceType, Inv, TypeOK
  <2>4. QED
    BY <2>2, <2>3, RefundAccounts
<1>6. LiabilityBacked'
  <2>1. ASSUME NEW n \in Merchants
        PROVE  balance'[Of("refund.liability", n)] = SumOfAmounts(OpenOf(n)')
    <3>1. balance[Of("refund.liability", n)] = SumOfAmounts(OpenOf(n))
      BY DEF RefundsAreBooked, LiabilityBacked, OpenOf
    <3>2. balance[Of("refund.liability", n)] \in Int
      BY RefundAccounts DEF Inv, TypeOK
    <3>3. QED
      BY <1>1, <1>2, <1>4, <1>5, <3>1, <3>2
  <2>2. QED
    BY <1>2, <2>1 DEF LiabilityBacked, SumOfAmounts, OpenOf
<1>7. QED
  BY <1>3, <1>6 DEF RefundsAreBooked

\* The record of an outcome closes a refund and takes its amount out again;
\* a success adds it to what its intent has refunded.
LEMMA OneLessOpen ==
  ASSUME Inv, RefundsAreBooked, NEW r \in RefundIds,
         status[r] \in {"processing", "indeterminate"}, NEW key,
         \/ /\ Post(key, SettleRefund(PayerOf(r), amount[r])) /\ Move(r, "succeeded")
            /\ RefundFits(r)
            /\ refunded' = [refunded EXCEPT ![intent[r]] = @ + amount[r]]
            /\ istatus' = [istatus EXCEPT ![intent[r]] = TargetOf(intent[r], amount[r])]
         \/ /\ Post(key, CancelRefundReservation(PayerOf(r), amount[r])) /\ Move(r, "failed")
            /\ UNCHANGED intentVars
  PROVE  RefundsAreBooked'
<1>0. PICK m \in Merchants, j \in Intents : m = PayerOf(r) /\ j = intent[r]
  BY RowFacts DEF Inv
<1>1. amount[r] \in Nat /\ amount[r] > 0 /\ BalanceType /\ Captured[j] \in Nat
  BY <1>0, RowFacts DEF Inv, TypeOK, BalanceType
<1>2. /\ UNCHANGED <<intent, amount>>
      /\ OpenOf(m)' = OpenOf(m) \ {r} /\ r \in OpenOf(m)
      /\ \A n \in Merchants : n # m => OpenOf(n)' = OpenOf(n)
  BY <1>0 DEF Move, Inv, TypeOK, OpenOf, PayerOf
<1>3. SumOfAmounts(OpenOf(m) \ {r}) = SumOfAmounts(OpenOf(m)) - amount[r]
  BY <1>2, SumChanges DEF OpenOf, Inv
<1>4. \A n \in Merchants :
        balance'[Of("refund.liability", n)]
          = balance[Of("refund.liability", n)] - (IF n = m THEN amount[r] ELSE 0)
  <2>1. \E other \in {Platform("provider.clearing"), Of("merchant.available", m)} :
          balance' = Applied(Movement(Of("refund.liability", m), other, amount[r]))
    BY <1>0 DEF Post, SettleRefund, CancelRefundReservation
  <2>2. \A n \in Merchants :
          balance'[Of("refund.liability", n)]
            = IF n = m THEN balance[Of("refund.liability", n)] - amount[r]
              ELSE balance[Of("refund.liability", n)]
    <3>1. PICK other \in {Platform("provider.clearing"), Of("merchant.available", m)} :
            balance' = Applied(Movement(Of("refund.liability", m), other, amount[r]))
      BY <2>1
    <3>2. /\ other \in Accounts /\ other # Of("refund.liability", m)
          /\ \A n : other # Of("refund.liability", n)
      BY <1>1, RefundAccounts DEF Of, Platform
    <3>3. \A y \in Accounts : y # other =>
            balance'[y] = IF y = Of("refund.liability", m) THEN balance[y] - amount[r] ELSE balance[y]
      BY <1>1, <3>1, <3>2, RefundAccounts, LiabilityDebited
    <3>4. QED
      BY <3>2, <3>3, RefundAccounts
  <2>3. \A n \in Merchants : balance[Of("refund.liability", n)] \in Int
    BY RefundAccounts DEF BalanceType, Inv, TypeOK
  <2>4. QED
    BY <2>2, <2>3
<1>5. LiabilityBacked'
  <2>1. ASSUME NEW n \in Merchants
        PROVE  balance'[Of("refund.liability", n)] = SumOfAmounts(OpenOf(n)')
    <3>1. balance[Of("refund.liability", n)] = SumOfAmounts(OpenOf(n))
      BY DEF RefundsAreBooked, LiabilityBacked, OpenOf
    <3>2. balance[Of("refund.liability", n)] \in Int
      BY RefundAccounts DEF Inv, TypeOK
    <3>3. CASE n = m
      BY <1>1, <1>2, <1>3, <1>4, <3>1, <3>2, <3>3
    <3>4. CASE n # m
      BY <1>2, <1>4, <3>1, <3>2, <3>4
    <3>5. QED
      BY <3>3, <3>4
  <2>2. QED
    BY <1>2, <2>1 DEF LiabilityBacked, SumOfAmounts, OpenOf
<1>6. CASE UNCHANGED intentVars /\ Move(r, "failed")
  <2>1. \A i \in Intents : SucceededOf(i)' = SucceededOf(i)
    BY <1>6 DEF Move, Inv, TypeOK, SucceededOf
  <2>2. \A i \in Intents : refunded[i] = SumOfAmounts(SucceededOf(i)')
    BY <2>1 DEF RefundsAreBooked, IntentAgrees, SucceededOf
  <2>3. IntentAgrees'
    BY <1>2, <1>6, <2>1, <2>2
    DEF RefundsAreBooked, IntentAgrees, SumOfAmounts, SucceededOf, intentVars
  <2>4. QED
    BY <1>5, <2>3 DEF RefundsAreBooked
<1>7. CASE /\ Move(r, "succeeded") /\ RefundFits(r)
           /\ refunded' = [refunded EXCEPT ![j] = @ + amount[r]]
           /\ istatus' = [istatus EXCEPT ![j] = TargetOf(j, amount[r])]
  <2>1. /\ SucceededOf(j)' = SucceededOf(j) \cup {r} /\ r \notin SucceededOf(j)
        /\ \A i \in Intents : i # j => SucceededOf(i)' = SucceededOf(i)
    BY <1>0, <1>7 DEF Move, Inv, TypeOK, SucceededOf
  <2>2. SumOfAmounts(SucceededOf(j) \cup {r}) = SumOfAmounts(SucceededOf(j)) + amount[r]
    BY <2>1, SumChanges DEF SucceededOf, Inv
  <2>3. \A i \in Intents : refunded[i] \in Nat /\ refunded[i] = SumOfAmounts(SucceededOf(i))
    BY DEF Inv, TypeOK, RefundsAreBooked, IntentAgrees, SucceededOf
  <2>4. /\ refunded'[j] = refunded[j] + amount[r]
        /\ \A i \in Intents : i # j => refunded'[i] = refunded[i] /\ istatus'[i] = istatus[i]
        /\ istatus'[j] = TargetOf(j, amount[r])
        /\ refunded[j] + amount[r] <= Captured[j]
    BY <1>0, <1>1, <1>7 DEF Inv, TypeOK, RefundFits
  <2>5. ASSUME NEW i \in Intents
        PROVE  /\ refunded'[i] = SumOfAmounts(SucceededOf(i)')
               /\ refunded'[i] <= Captured[i]
               /\ istatus'[i] = IF refunded'[i] = 0 THEN "succeeded"
                                ELSE IF refunded'[i] = Captured[i] THEN "refunded"
                                ELSE "partially_refunded"
    <3>1. CASE i = j
      BY <1>1, <2>1, <2>2, <2>3, <2>4, <3>1 DEF TargetOf
    <3>2. CASE i # j
      BY <2>1, <2>3, <2>4, <3>2 DEF RefundsAreBooked, IntentAgrees
    <3>3. QED
      BY <3>1, <3>2
  <2>6. IntentAgrees'
    BY <1>2, <2>5 DEF IntentAgrees, SumOfAmounts, SucceededOf
  <2>7. QED
    BY <1>5, <2>6 DEF RefundsAreBooked
<1>8. QED
  BY <1>0, <1>6, <1>7

LEMMA BookedInit == Init => RefundsAreBooked
<1> SUFFICES ASSUME Init PROVE RefundsAreBooked
  OBVIOUS
<1>1. /\ \A i : {r \in RefundIds : intent[r] = i /\ status[r] = "succeeded"} = {}
      /\ \A m : {r \in RefundIds : PayerOf(r) = m /\ status[r] \in {"processing", "indeterminate"}} = {}
  BY DEF Init
<1>2. IntentAgrees
  <2>1. ASSUME NEW i \in Intents
        PROVE  /\ refunded[i] = 0 /\ istatus[i] = "succeeded" /\ 0 <= Captured[i]
               /\ SumOfAmounts({r \in RefundIds : intent[r] = i /\ status[r] = "succeeded"}) = 0
    <3>1. refunded[i] = 0 /\ istatus[i] = "succeeded" /\ 0 <= Captured[i]
      BY RefundAssumption DEF Init
    <3>2. SumOfAmounts({r \in RefundIds : intent[r] = i /\ status[r] = "succeeded"}) = 0
      BY <1>1, TotalOfNone DEF SumOfAmounts
    <3>3. QED
      BY <3>1, <3>2
  <2>2. QED
    BY <2>1 DEF IntentAgrees
<1>3. LiabilityBacked
  BY <1>1, TotalOfNone, FreshRefunds DEF Init, LedgerInit, LiabilityBacked, SumOfAmounts
<1>4. QED
  BY <1>2, <1>3 DEF RefundsAreBooked

LEMMA BookedStep == Inv /\ RefundsAreBooked /\ [Next]_vars => RefundsAreBooked'
<1> SUFFICES ASSUME Inv, RefundsAreBooked, [Next]_vars PROVE RefundsAreBooked'
  OBVIOUS
<1> USE DEF ledgerVars, rowVars, intentVars
<1>1. ASSUME UNCHANGED <<ledgerVars, rowVars, intentVars>> PROVE RefundsAreBooked'
  BY <1>1 DEF RefundsAreBooked, IntentAgrees, LiabilityBacked, SumOfAmounts, PayerOf
<1>2. ASSUME NEW r \in RefundIds, BeginIn(r) PROVE RefundsAreBooked'
  <2>1. /\ \A i : SucceededOf(i)' = SucceededOf(i)
        /\ \A m : OpenOf(m)' = OpenOf(m)
        /\ \A q \in RefundIds : status[q] \notin {"none", "created"} => amount'[q] = amount[q]
    BY <1>2 DEF BeginIn, Inv, TypeOK, SucceededOf, OpenOf, PayerOf
  <2>2. QED
    BY <1>2, <2>1, BooksKept DEF BeginIn
<1>3. ASSUME NEW r \in RefundIds, Reserve(r) PROVE RefundsAreBooked'
  <2>1. status[r] = "created"
    BY <1>3 DEF Reserve, Inv, ExecutorInv
  <2>2. QED
    BY <1>1, <1>3, <2>1, OneMoreOpen DEF Reserve
<1>4. ASSUME NEW r \in RefundIds, Cancel(r) \/ RecordIndeterminate(r) PROVE RefundsAreBooked'
  <2>1. CASE UNCHANGED <<ledgerVars, rowVars, intentVars>>
    BY <1>1, <2>1
  <2>2. CASE \E to \in {"canceled", "indeterminate"} : Move(r, to) /\ UNCHANGED <<ledgerVars, intentVars>>
    <3>1. /\ \A i : SucceededOf(i)' = SucceededOf(i)
          /\ \A m : OpenOf(m)' = OpenOf(m)
      BY <1>4, <2>2 DEF Cancel, RecordIndeterminate, Move, Legal, Transitions, Inv, TypeOK,
         ExecutorInv, SucceededOf, OpenOf, PayerOf
    <3>2. QED
      BY <2>2, <3>1, BooksKept DEF Move
  <2>3. QED
    BY <1>4, <2>1, <2>2 DEF Cancel, RecordIndeterminate
<1>5. ASSUME NEW r \in RefundIds, NEW k \in {Executor(r), Resolver(r)}, RecordSucceeded(r, k)
      PROVE  RefundsAreBooked'
  <2>1. Legal(r, "succeeded") => status[r] \in {"processing", "indeterminate"}
    BY DEF Legal, Transitions
  <2>2. QED
    BY <1>1, <1>5, <2>1, OneLessOpen DEF RecordSucceeded, Move
<1>6. ASSUME NEW r \in RefundIds, NEW k \in {Executor(r), Resolver(r)}, RecordFailed(r, k)
      PROVE  RefundsAreBooked'
  <2>1. Legal(r, "failed") => status[r] \in {"processing", "indeterminate"}
    BY DEF Legal, Transitions
  <2>2. QED
    BY <1>1, <1>6, <2>1, OneLessOpen DEF RecordFailed, Move
<1>7. CASE UNCHANGED vars
  BY <1>1, <1>7 DEF vars
<1>8. CASE Next
  BY <1>1, <1>2, <1>3, <1>4, <1>5, <1>6, <1>8
  DEF Next, Read, Submit, CircuitOpen, Answer, ResolveFromProvider, ProviderDecides, Crash
<1>9. QED
  BY <1>7, <1>8

\* What an intent says was refunded is the sum of its refunds that succeeded
\* and no more than it captured; what a merchant owes its buyers is the sum of
\* its refunds whose outcome is open.
THEOREM BooksAreTheRows == Spec => []RefundsAreBooked
  BY Invariance, BookedInit, BookedStep, PTL DEF Spec

-----------------------------------------------------------------------------
(* Refunds implements Reservation. *)

stakes == [r \in RefundIds |-> IF Requested(r) THEN <<PayerOf(r), amount[r]>> ELSE <<>>]
available == [m \in Merchants |-> balance[Of("merchant.available", m)]]

\* The initial states of Refunds are initial states of Reservation.
LEMMA RefinementInit == Init => Money!Init
  BY DEF Init, LedgerInit, Money!Init, phase, Requested, Settled, Canceled

\* A step that posts nothing and rewrites no reserved amount is a stutter.
LEMMA RefinementStutter ==
  ASSUME UNCHANGED <<ledgerVars, intent>>,
         \A r \in RefundIds : Requested(r) => amount'[r] = amount[r]
  PROVE  UNCHANGED Money!vars
<1>1. phase' = phase
  BY DEF ledgerVars, phase, Requested, Settled, Canceled
<1>2. stakes' = stakes
  BY DEF ledgerVars, stakes, Requested, PayerOf
<1>3. available' = available
  BY DEF ledgerVars, available
<1>4. QED
  BY <1>1, <1>2, <1>3 DEF Money!vars, stakes, available

\* A posted key changes the phase of its refund and of no other.
LEMMA PhaseChanges ==
  ASSUME TypeOK, NEW r \in RefundIds, NEW step \in {"request", "settle", "cancel"},
         journal' = journal \cup {Key(r, step)}
  PROVE  /\ \A q \in RefundIds : q # r => phase'[q] = phase[q]
         /\ \A q \in RefundIds :
              /\ Requested(q)' <=> Requested(q) \/ (q = r /\ step = "request")
              /\ Settled(q)' <=> Settled(q) \/ (q = r /\ step = "settle")
              /\ Canceled(q)' <=> Canceled(q) \/ (q = r /\ step = "cancel")
<1>1. \A q \in RefundIds :
        /\ Requested(q)' <=> Requested(q) \/ (q = r /\ step = "request")
        /\ Settled(q)' <=> Settled(q) \/ (q = r /\ step = "settle")
        /\ Canceled(q)' <=> Canceled(q) \/ (q = r /\ step = "cancel")
  BY KeysDiffer DEF Requested, Settled, Canceled
<1>2. QED
  BY <1>1 DEF phase

\* The posting of a reservation takes the amount from what its payer has free.
LEMMA RefinementHold ==
  ASSUME Inv, NEW r \in RefundIds, status[r] = "created",
         Post(Key(r, "request"), RequestRefund(PayerOf(r), amount[r])),
         UNCHANGED <<intent, amount>>
  PROVE  Money!Next
<1>0. PICK m \in Merchants, a \in UNION {1 .. Captured[i] : i \in Intents} :
        m = PayerOf(r) /\ a = amount[r]
  BY RowFacts DEF Inv, AmountInv
<1>1. a \in Int /\ BalanceType
  BY <1>0 DEF Inv, TypeOK, BalanceType
<1>2. ~Requested(r) /\ ~Settled(r) /\ ~Canceled(r)
  BY DEF Inv, JournalInv
<1>3. phase[r] = "none" /\ phase' = [phase EXCEPT ![r] = "held"]
  BY <1>2, PhaseChanges DEF Post, phase, Inv
<1>4. stakes' = [stakes EXCEPT ![r] = <<m, a>>]
  BY <1>0, PhaseChanges DEF Post, stakes, Inv, PayerOf
<1>5. /\ balance' = Applied(Movement(Of("merchant.available", m), Of("refund.liability", m), a))
      /\ Of("merchant.available", m) \in Guarded(Movement(Of("merchant.available", m), Of("refund.liability", m), a))
  BY <1>0, RefundAccounts, RowFacts DEF Post, RequestRefund, Guarded, Movement, Delta, Inv
<1>6. \A y \in Accounts : y # Of("refund.liability", m) =>
        balance'[y] = IF y = Of("merchant.available", m) THEN balance[y] - a ELSE balance[y]
  BY <1>1, <1>5, RefundAccounts, LiabilityDebited
<1>7. available' = [available EXCEPT ![m] = @ - a]
  BY <1>6, RefundAccounts DEF available
<1>8. a <= available[m]
  <2>1. balance'[Of("merchant.available", m)] >= 0
    BY <1>0, <1>5, RefundAccounts DEF Post, Covered, RequestRefund
  <2>2. balance'[Of("merchant.available", m)] = balance[Of("merchant.available", m)] - a
    BY <1>6, RefundAccounts
  <2>3. balance[Of("merchant.available", m)] \in Int
    BY <1>1, RefundAccounts DEF BalanceType
  <2>4. QED
    BY <1>1, <2>1, <2>2, <2>3 DEF available
<1>9. Money!Hold(r, m, a)
  BY <1>3, <1>4, <1>7, <1>8 DEF Money!Hold, stakes, available
<1>10. QED
  BY <1>9 DEF Money!Next

\* The posting of a settlement touches nobody's free money.
LEMMA RefinementCommit ==
  ASSUME Inv, NEW r \in RefundIds, status[r] \in {"processing", "indeterminate"},
         Post(Key(r, "settle"), SettleRefund(PayerOf(r), amount[r])),
         UNCHANGED <<intent, amount>>
  PROVE  Money!Next
<1>0. PICK m \in Merchants : m = PayerOf(r)
  BY RowFacts DEF Inv
<1>1. amount[r] \in Int /\ BalanceType
  BY DEF Inv, TypeOK, BalanceType
<1>2. Requested(r) /\ ~Settled(r) /\ ~Canceled(r)
  BY DEF Inv, JournalInv
<1>3. phase[r] = "held" /\ phase' = [phase EXCEPT ![r] = "committed"]
  BY <1>2, PhaseChanges, ZenonT(40) DEF Post, phase, Inv
<1>4. stakes' = stakes
  BY PhaseChanges DEF Post, stakes, Inv, PayerOf
<1>5. balance' = Applied(Movement(Of("refund.liability", m), Platform("provider.clearing"), amount[r]))
  BY <1>0 DEF Post, SettleRefund
<1>6. \A n \in Merchants :
        balance'[Of("merchant.available", n)] = balance[Of("merchant.available", n)]
  <2>1. \A y \in Accounts : y # Platform("provider.clearing") =>
          balance'[y] = IF y = Of("refund.liability", m) THEN balance[y] - amount[r] ELSE balance[y]
    BY <1>1, <1>5, RefundAccounts, LiabilityDebited
  <2>2. QED
    BY <2>1, RefundAccounts
<1>7. available' = available
  BY <1>6 DEF available
<1>8. Money!Commit(r)
  BY <1>3, <1>4, <1>7 DEF Money!Commit, stakes, available
<1>9. QED
  BY <1>8 DEF Money!Next

\* The posting of a cancellation gives its payer the whole stake back.
LEMMA RefinementReturn ==
  ASSUME Inv, NEW r \in RefundIds, status[r] \in {"processing", "indeterminate"},
         Post(Key(r, "cancel"), CancelRefundReservation(PayerOf(r), amount[r])),
         UNCHANGED <<intent, amount>>
  PROVE  Money!Next
<1>0. PICK m \in Merchants : m = PayerOf(r)
  BY RowFacts DEF Inv
<1>1. amount[r] \in Int /\ BalanceType
  BY DEF Inv, TypeOK, BalanceType
<1>2. Requested(r) /\ ~Settled(r) /\ ~Canceled(r)
  BY DEF Inv, JournalInv
<1>3. phase[r] = "held" /\ phase' = [phase EXCEPT ![r] = "returned"]
  BY <1>2, PhaseChanges DEF Post, phase, Inv
<1>4. stakes' = stakes /\ stakes[r] = <<m, amount[r]>>
  BY <1>0, <1>2, PhaseChanges DEF Post, stakes, Inv, PayerOf
<1>5. balance' = Applied(Movement(Of("refund.liability", m), Of("merchant.available", m), amount[r]))
  BY <1>0 DEF Post, CancelRefundReservation
<1>6. \A y \in Accounts : y # Of("refund.liability", m) =>
        balance'[y] = IF y = Of("merchant.available", m) THEN balance[y] + amount[r] ELSE balance[y]
  BY <1>1, <1>5, RefundAccounts, LiabilityCredited
<1>7. available' = [available EXCEPT ![m] = @ + amount[r]]
  BY <1>6, RefundAccounts, ZenonT(40) DEF available
<1>8. Money!Return(r)
  BY <1>3, <1>4, <1>7 DEF Money!Return, stakes, available
<1>9. QED
  BY <1>8 DEF Money!Next

\* Every step of Refunds is a step of Reservation or stutters.
LEMMA RefinementStep == Inv /\ [Next]_vars => [Money!Next]_(Money!vars)
<1> SUFFICES ASSUME Inv, [Next]_vars PROVE Money!Next \/ UNCHANGED Money!vars
  OBVIOUS
<1> USE DEF rowVars
<1>1. ASSUME UNCHANGED <<ledgerVars, intent, amount>> PROVE UNCHANGED Money!vars
  BY <1>1, RefinementStutter
<1>2. ASSUME NEW r \in RefundIds, BeginIn(r) PROVE UNCHANGED Money!vars
  <2>1. \A q \in RefundIds : Requested(q) => amount'[q] = amount[q]
    BY <1>2 DEF BeginIn, Inv, TypeOK, JournalInv
  <2>2. QED
    BY <1>2, <2>1, RefinementStutter DEF BeginIn
<1>3. ASSUME NEW r \in RefundIds, Reserve(r) PROVE Money!Next \/ UNCHANGED Money!vars
  <2>1. status[r] = "created"
    BY <1>3 DEF Reserve, Inv, ExecutorInv
  <2>2. QED
    BY <1>1, <1>3, <2>1, RefinementHold DEF Reserve, Move
<1>4. ASSUME NEW r \in RefundIds, NEW k \in {Executor(r), Resolver(r)}, RecordSucceeded(r, k)
      PROVE  Money!Next \/ UNCHANGED Money!vars
  <2>1. Legal(r, "succeeded") => status[r] \in {"processing", "indeterminate"}
    BY DEF Legal, Transitions
  <2>2. QED
    BY <1>1, <1>4, <2>1, RefinementCommit DEF RecordSucceeded, Move
<1>5. ASSUME NEW r \in RefundIds, NEW k \in {Executor(r), Resolver(r)}, RecordFailed(r, k)
      PROVE  Money!Next \/ UNCHANGED Money!vars
  <2>1. Legal(r, "failed") => status[r] \in {"processing", "indeterminate"}
    BY DEF Legal, Transitions
  <2>2. QED
    BY <1>1, <1>5, <2>1, RefinementReturn DEF RecordFailed, Move
<1>6. CASE UNCHANGED vars
  BY <1>1, <1>6 DEF vars
<1>7. CASE Next
  BY <1>1, <1>2, <1>3, <1>4, <1>5, <1>7
  DEF Next, Read, Cancel, Submit, CircuitOpen, Answer, RecordIndeterminate,
      ResolveFromProvider, ProviderDecides, Crash, Move
<1>8. QED
  BY <1>6, <1>7

\* The money a refund reserves leaves what its merchant has free once and has
\* one fate, whoever records it and however often.
THEOREM RefundsImplementReservation == Spec => ReservationSpec
  BY Invariance, RefinementInit, RefinementStep, PTL DEF Spec, ReservationSpec, Money!Spec
=====
