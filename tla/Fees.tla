-------------------------------- MODULE Fees --------------------------------
(***************************************************************************)
(* The platform's fee of a payment: FlatBpsFeeSchedule.platformFee          *)
(* (payments-core/src/pricing.ts) is the first of the two shares into which *)
(* Money.allocate (money/src/money.ts) splits the amount.                   *)
(***************************************************************************)
EXTENDS Integers

\* Basis points of the whole amount; a fee is configured in 0 .. Whole.
Whole == 10000

\* Division in bigint drops the fraction of a share ...
Share(amount, bps) == (amount * bps) \div Whole

\* ... and the units that the two shares leave ...
Remainder(amount, bps) == amount - Share(amount, bps) - Share(amount, Whole - bps)

\* ... are handed out in turn, from the first share on.
PlatformFee(amount, bps) == Share(amount, bps) + (Remainder(amount, bps) + 1) \div 2
MerchantNet(amount, bps) == Share(amount, Whole - bps) + Remainder(amount, bps) \div 2
=============================================================================
