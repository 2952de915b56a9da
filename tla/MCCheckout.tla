----------------------------- MODULE MCCheckout -----------------------------
(***************************************************************************)
(* Small instances of Checkout: one merchant, one intent worth 3 at two per *)
(* cent, wrapped by every session.                                          *)
(***************************************************************************)
EXTENDS Checkout, Fees, TLC

CONSTANTS m1

MCAmount == [i \in Intents |-> 3]
MCFee == [i \in Intents |-> PlatformFee(MCAmount[i], 200)]
MCMerchantOf == [i \in Intents |-> m1]
MCOpening == [a \in Accounts |-> 0]

\* The two shares are the amount, and the fee is the product rounded up
\* (the comment at pricing.ts:30 says rounded).
ASSUME FeesAddUp ==
  \A amount \in 1 .. 120, bps \in {0, 1, 200, 5000, 9999, Whole} :
    LET fee == PlatformFee(amount, bps) IN
    /\ fee + MerchantNet(amount, bps) = amount
    /\ Whole * (fee - 1) < amount * bps /\ amount * bps <= Whole * fee

MCSymmetry == Permutations(Attempts) \cup Permutations(Sessions)
=============================================================================
