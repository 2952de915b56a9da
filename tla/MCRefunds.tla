------------------------------ MODULE MCRefunds ------------------------------
(***************************************************************************)
(* Small instances of Refunds: one merchant, an intent that captured 3 and, *)
(* of it, 3 still in the provider's clearing; the merchant has one more     *)
(* unit available from elsewhere.                                           *)
(***************************************************************************)
EXTENDS Refunds, TLC

CONSTANTS m1, i1, Spare

MCCaptured == [i \in Intents |-> IF i = i1 THEN 3 ELSE 1]
MCMerchantOf == [i \in Intents |-> m1]

MCOpening ==
  [a \in Accounts |->
     CASE a = Of("merchant.available", m1) -> 3 + Spare
       [] a = Platform("provider.clearing") -> 3 + Spare
       [] OTHER -> 0]

MCSymmetry == Permutations(RefundIds)
=============================================================================
