------------------------------- MODULE Ledger -------------------------------
(***************************************************************************)
(* The double-entry ledger of packages/ledger, seen by the payment          *)
(* services: one tenant, one currency, balances as the projections of       *)
(* balance_projections and the journal as the set of idempotency keys of    *)
(* ledger_transactions.  A posting is one SQL transaction: the key, the     *)
(* entries, the projections and the caller's onPosted rows commit together  *)
(* or not at all, so it is one step here.                                   *)
(***************************************************************************)
EXTENDS Integers, FiniteSets

CONSTANTS
  Merchants,      \* merchants of the tenant
  OpeningBalance  \* projection of every account when the behaviour starts

\* CHART_OF_ACCOUNTS: codes with one account per tenant and currency, codes
\* with one account per merchant, and the sides and types the guard uses.
PlatformCodes ==
  {"provider.clearing", "provider.receivable", "provider.payable",
   "provider.fees", "platform.fees", "platform.cash", "payout.in_transit",
   "suspense", "recon.differences"}

MerchantCodes ==
  {"merchant.pending", "merchant.available", "merchant.reserve",
   "refund.liability", "dispute.reserve"}

DebitNormalCodes ==
  {"provider.clearing", "provider.receivable", "provider.fees",
   "platform.cash", "suspense", "recon.differences"}

TransitoryCodes == {"suspense", "recon.differences"}

\* accountName: the physical account of a code.
Platform(code) == <<code, "platform">>
Of(code, m) == <<code, m>>

Accounts == (PlatformCodes \X {"platform"}) \cup (MerchantCodes \X Merchants)

DebitNormal(a) == a[1] \in DebitNormalCodes
Transitory(a) == a[1] \in TransitoryCodes

ASSUME OpeningAssumption == OpeningBalance \in [Accounts -> Nat]

VARIABLES
  balance,  \* balance_projections.available, per account
  journal   \* idempotency keys of the committed ledger transactions

ledgerVars == <<balance, journal>>

LedgerInit ==
  /\ balance = OpeningBalance
  /\ journal = {}

\* SUM(amount) over a set of rows: their minor units, counted one by one.
Units(amounts, S) == UNION {{i} \X (1 .. amounts[i]) : i \in S}
Total(amounts, S) == Cardinality(Units(amounts, S))

-----------------------------------------------------------------------------
\* A transaction's entries as a function from accounts to signed amounts,
\* debits positive.  Every transaction of the services touches an account once.
Movement(debit, credit, amount) ==
  [a \in {debit, credit} |-> IF a = debit THEN amount ELSE -amount]

\* An entry on the natural side of an account increases its projection.
Delta(legs, a) == IF DebitNormal(a) THEN legs[a] ELSE -legs[a]

Applied(legs) ==
  [a \in Accounts |->
     IF a \in DOMAIN legs THEN balance[a] + Delta(legs, a) ELSE balance[a]]

\* twoLegged guards the accounts that the transaction decreases.
Guarded(legs) == {a \in DOMAIN legs : Delta(legs, a) < 0}

\* Bug: the balance is checked as it was before the posting.
CoveredBefore(legs) == \A a \in Guarded(legs) : balance[a] >= 0

\* Negated: InsufficientBalanceError, and the transaction rolls back.
Covered(legs) == \A a \in Guarded(legs) : Applied(legs)[a] >= 0

\* postOnce, when it inserts its key; a replayed key has no effect at all.
Post(key, legs) ==
  /\ key \notin journal
  /\ Covered(legs)
  /\ balance' = Applied(legs)
  /\ journal' = journal \cup {key}

\* Bug: the fee is not taken from the merchant's part.
CaptureGross(m, amount, fee) ==
  [a \in {Platform("provider.clearing"), Of("merchant.pending", m), Platform("platform.fees")} |->
     CASE a = Platform("provider.clearing") -> amount
       [] a = Of("merchant.pending", m) -> -amount
       [] a = Platform("platform.fees") -> -fee]

\* capturePayment; the provider bills its own fee apart (Fp is zero here).
CapturePayment(m, amount, fee) ==
  [a \in {Platform("provider.clearing"), Of("merchant.pending", m), Platform("platform.fees")} |->
     CASE a = Platform("provider.clearing") -> amount
       [] a = Of("merchant.pending", m) -> fee - amount
       [] a = Platform("platform.fees") -> -fee]

\* The two-legged operations of PostingService the services below use.
ReceiveProviderSettlement(amount) ==
  Movement(Platform("platform.cash"), Platform("provider.clearing"), amount)

EmitPayout(m, amount) ==
  Movement(Of("merchant.available", m), Platform("payout.in_transit"), amount)
SettlePayout(amount) ==
  Movement(Platform("payout.in_transit"), Platform("platform.cash"), amount)

\* Bug: what was in transit is returned to the wrong account.
FailToPending(m, amount) ==
  Movement(Platform("payout.in_transit"), Of("merchant.pending", m), amount)

FailPayout(m, amount) ==
  Movement(Platform("payout.in_transit"), Of("merchant.available", m), amount)

RequestRefund(m, amount) ==
  Movement(Of("merchant.available", m), Of("refund.liability", m), amount)

\* Bug: the merchant is charged again instead of its reservation.
SettleFromAvailable(m, amount) ==
  Movement(Of("merchant.available", m), Platform("provider.clearing"), amount)

SettleRefund(m, amount) ==
  Movement(Of("refund.liability", m), Platform("provider.clearing"), amount)

\* Bug: what was reserved is returned to the wrong account.
CancelToPending(m, amount) ==
  Movement(Of("refund.liability", m), Of("merchant.pending", m), amount)

CancelRefundReservation(m, amount) ==
  Movement(Of("refund.liability", m), Of("merchant.available", m), amount)

OpenDispute(m, amount) ==
  Movement(Of("merchant.available", m), Of("dispute.reserve", m), amount)

\* Bug: what was held is returned to the wrong account.
WinToPending(m, amount) ==
  Movement(Of("dispute.reserve", m), Of("merchant.pending", m), amount)

WinDispute(m, amount) ==
  Movement(Of("dispute.reserve", m), Of("merchant.available", m), amount)

LoseDispute(m, amount) ==
  Movement(Of("dispute.reserve", m), Platform("provider.clearing"), amount)

-----------------------------------------------------------------------------
\* No account that a posting can decrease is ever overdrawn: what a merchant
\* spent, reserved or is being paid cannot be spent again, whatever the order
\* in which the postings commit (guard AUD-P1-010).
NoOverdraft == \A a \in Accounts : ~Transitory(a) => balance[a] >= 0
=============================================================================
