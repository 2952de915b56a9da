------------------------------ MODULE MCPayouts ------------------------------
(***************************************************************************)
(* Small instances of Payouts: one merchant that has 3 available, captured  *)
(* and released earlier; of the provider's clearing, 2 is already cash.     *)
(***************************************************************************)
EXTENDS Payouts, TLC

CONSTANTS m1

MCOpening ==
  [a \in Accounts |->
     CASE a = Of("merchant.available", m1) -> 3
       [] a = Platform("platform.cash") -> 2
       [] a = Platform("provider.clearing") -> 1
       [] OTHER -> 0]

MCSymmetry == Permutations(PayoutIds) \cup Permutations(Workers \ Redrivers)
=============================================================================
