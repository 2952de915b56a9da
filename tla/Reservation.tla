---------------------------- MODULE Reservation ----------------------------
(***************************************************************************)
(* What payouts, refunds and disputes promise about the money they take     *)
(* from a merchant's available balance.  An item (a payout, a refund, a     *)
(* dispute) may hold a part of what its owner has free, and from then on    *)
(* that part has exactly one fate: it is committed (it leaves the merchant  *)
(* for good) or it is returned in full.  Nothing is held twice, committed   *)
(* twice, or both committed and returned, and nobody holds more than what   *)
(* is free.                                                                 *)
(***************************************************************************)
EXTENDS Integers

CONSTANTS
  Items,    \* payouts, refunds or disputes
  Owners,   \* merchants
  Stakes,   \* amounts an item may hold
  Opening   \* what each owner has free at the start

VARIABLES
  phase,  \* "none", "held", "committed" or "returned"
  stake,  \* <<owner, amount>> of what the item held, <<>> before that
  free    \* what each owner has free

vars == <<phase, stake, free>>

Init ==
  /\ phase = [i \in Items |-> "none"]
  /\ stake = [i \in Items |-> <<>>]
  /\ free = Opening

Hold(i, o, a) ==
  /\ phase[i] = "none"
  /\ a <= free[o]
  /\ phase' = [phase EXCEPT ![i] = "held"]
  /\ stake' = [stake EXCEPT ![i] = <<o, a>>]
  /\ free' = [free EXCEPT ![o] = @ - a]

Commit(i) ==
  /\ phase[i] = "held"
  /\ phase' = [phase EXCEPT ![i] = "committed"]
  /\ UNCHANGED <<stake, free>>

Return(i) ==
  /\ phase[i] = "held"
  /\ phase' = [phase EXCEPT ![i] = "returned"]
  /\ free' = [free EXCEPT ![stake[i][1]] = @ + stake[i][2]]
  /\ UNCHANGED stake

Next ==
  \E i \in Items :
    \/ \E o \in Owners, a \in Stakes : Hold(i, o, a)
    \/ Commit(i)
    \/ Return(i)

Spec == Init /\ [][Next]_vars
=============================================================================
