--------------------------- MODULE MCConfirmation ---------------------------
(***************************************************************************)
(* Small instances of Confirmation: one merchant, intents worth 3 at two    *)
(* per cent.                                                                *)
(***************************************************************************)
EXTENDS Confirmation, Fees, TLC

CONSTANTS m1

MCAmount == [i \in Intents |-> 3]
MCFee == [i \in Intents |-> PlatformFee(MCAmount[i], 200)]
MCMerchantOf == [i \in Intents |-> m1]
MCOpening == [a \in Accounts |-> 0]

MCSymmetry == Permutations(Attempts)
=============================================================================
