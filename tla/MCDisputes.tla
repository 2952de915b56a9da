----------------------------- MODULE MCDisputes -----------------------------
(***************************************************************************)
(* Small instances of Disputes: one merchant with 3 available, of which the *)
(* provider still owes 2; the bank's dispute b1 is for 2, any other for 1.  *)
(***************************************************************************)
EXTENDS Disputes, TLC

CONSTANTS m1, b1, charge

MCAmount == [b \in BankDisputes |-> IF b = b1 THEN 2 ELSE 1]
MCMerchantOf == [b \in BankDisputes |-> m1]

\* The bank quotes the dispute's reference or none, or also the charge's.
MCDisputeQuotes == [b \in BankDisputes |-> {b, NoRef}]
MCChargeQuotes == [b \in BankDisputes |-> {b, charge}]

MCOpening ==
  [a \in Accounts |->
     CASE a = Of("merchant.available", m1) -> 3
       [] a = Platform("provider.clearing") -> 2
       [] OTHER -> 0]

MCSymmetry == Permutations(DisputeIds) \cup Permutations(Handlers)
=============================================================================
