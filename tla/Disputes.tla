------------------------------ MODULE Disputes ------------------------------
(***************************************************************************)
(* Disputes of packages/payments-core: the bank opens a dispute and decides *)
(* it, both through webhooks that the inbox hands over at least once; the   *)
(* money is held apart in between.  A handler is a process of the inbox,    *)
(* and every SQL transaction is one step.                                   *)
(***************************************************************************)
EXTENDS Ledger

CONSTANTS
  BankDisputes,  \* disputes the bank may open, each a provider_ref of its own
  DisputeIds,    \* rows that may be created
  Amount,        \* amount of each of the bank's disputes
  MerchantOf,    \* merchant of each of the bank's disputes
  Quotes,        \* provider_refs the bank may quote when it decides each one
  Handlers,      \* processes of the inbox
  NoRef          \* the optional provider_ref, left out

ASSUME DisputeAssumption ==
  /\ Amount \in [BankDisputes -> Nat \ {0}]
  /\ MerchantOf \in [BankDisputes -> Merchants]
  /\ DOMAIN Quotes = BankDisputes
  /\ NoRef \notin BankDisputes

VARIABLES
  status,  \* disputes.status; "none" before the insert
  cause,   \* the bank's dispute the row was opened for
  ref,     \* disputes.provider_ref
  bank,    \* what the bank decided: external truth
  pc,      \* where each handler stands
  subject, \* bank's dispute or row it is handling
  quote    \* provider_ref of the event it is handling

rowVars == <<status, cause, ref>>
handlerVars == <<pc, subject, quote>>
vars == <<ledgerVars, rowVars, bank, handlerVars>>

Refs == BankDisputes \cup {NoRef} \cup UNION {Quotes[b] : b \in BankDisputes}
Pending == {"open", "under_review"}

\* dispute_transitions, enforced by the trigger disputes_fsm_guard.
Transitions == {<<"open", "under_review">>} \cup (Pending \X {"won", "lost"})

Key(d, step) == <<"dispute", d, step>>
Opened(d) == Key(d, "open") \in journal
Won(d) == Key(d, "win") \in journal
Lost(d) == Key(d, "lose") \in journal

PayerOf(d) == MerchantOf[cause[d]]
AmountOf(d) == Amount[cause[d]]

Init ==
  /\ LedgerInit
  /\ status = [d \in DisputeIds |-> "none"]
  /\ cause = [d \in DisputeIds |-> NoRef]
  /\ ref = [d \in DisputeIds |-> NoRef]
  /\ bank = [b \in BankDisputes |-> "open"]
  /\ pc = [h \in Handlers |-> "idle"]
  /\ subject = [h \in Handlers |-> NoRef]
  /\ quote = [h \in Handlers |-> NoRef]

-----------------------------------------------------------------------------
Goto(h, point, item, r) ==
  /\ pc' = [pc EXCEPT ![h] = point]
  /\ subject' = [subject EXCEPT ![h] = item]
  /\ quote' = [quote EXCEPT ![h] = r]

Finish(h) == Goto(h, "idle", NoRef, NoRef)

\* Bug: the unique index is missing.
UniqueNever(d, r) == TRUE

\* disputes_provider_ref_uniq, for a row that takes the reference r.
Unique(d, r) == r # NoRef => \A e \in DisputeIds \ {d} : ref[e] # r

\* openFromProvider: a reference already seen is a no-op (findByProviderRef) ...
OpenFromProvider(h, b) ==
  /\ pc[h] = "idle"
  /\ \A d \in DisputeIds : ref[d] # b
  /\ Goto(h, "check", b, b)
  /\ UNCHANGED <<ledgerVars, rowVars, bank>>

\* ... open reads the available balance in a second transaction ...
CheckFunds(h) ==
  LET b == subject[h] IN
  /\ pc[h] = "check"
  /\ IF Amount[b] <= balance[Of("merchant.available", MerchantOf[b])]
     THEN Goto(h, "hold", b, b)
     ELSE Finish(h)
  /\ UNCHANGED <<ledgerVars, rowVars, bank>>

\* ... and the third holds the money and inserts the row.  Short of funds or
\* beaten to the reference, all of it rolls back.
Hold(h, d) ==
  LET b == subject[h]
      legs == OpenDispute(MerchantOf[b], Amount[b])
  IN
  /\ pc[h] = "hold"
  /\ status[d] = "none"
  /\ \/ /\ Post(Key(d, "open"), legs)
        /\ Unique(d, b)
        /\ status' = [status EXCEPT ![d] = "open"]
        /\ cause' = [cause EXCEPT ![d] = b]
        /\ ref' = [ref EXCEPT ![d] = b]
     \/ /\ ~Covered(legs) \/ ~Unique(d, b)
        /\ UNCHANGED <<ledgerVars, rowVars>>
  /\ Finish(h)
  /\ UNCHANGED bank

\* submitEvidence, under the lock of the row; under_review already is a no-op.
SubmitEvidence(d) ==
  /\ status[d] = "open"
  /\ status' = [status EXCEPT ![d] = "under_review"]
  /\ UNCHANGED <<ledgerVars, cause, ref, bank, handlerVars>>

\* resolve reads the row in one transaction; a terminal one is ignored ...
Resolve(h, d) ==
  /\ pc[h] = "idle"
  /\ status[d] \in Pending
  /\ bank[cause[d]] # "open"
  /\ \E r \in Quotes[cause[d]] : Goto(h, "record", d, r)
  /\ UNCHANGED <<ledgerVars, rowVars, bank>>

\* Bug: the two keys are swapped.
StepSwapped(verdict) == IF verdict = "won" THEN "lose" ELSE "win"

\* The posting's idempotency key is named after the movement.
StepOf(verdict) == IF verdict = "won" THEN "win" ELSE "lose"

\* ... and records the verdict in the next: recordWon or recordLost, and the
\* reference quoted replaces the row's.  A replayed key does nothing.
RecordVerdict(h) ==
  LET d == subject[h]
      verdict == bank[cause[d]]
      step == StepOf(verdict)
      legs == IF verdict = "won" THEN WinDispute(PayerOf(d), AmountOf(d))
                                 ELSE LoseDispute(PayerOf(d), AmountOf(d))
  IN
  /\ pc[h] = "record"
  /\ \/ /\ Post(Key(d, step), legs)
        /\ <<status[d], verdict>> \in Transitions
        /\ Unique(d, quote[h])
        /\ status' = [status EXCEPT ![d] = verdict]
        /\ ref' = [ref EXCEPT ![d] = IF quote[h] = NoRef THEN @ ELSE quote[h]]
        /\ UNCHANGED cause
     \/ /\ \/ Key(d, step) \in journal \/ ~Covered(legs)
           \/ <<status[d], verdict>> \notin Transitions \/ ~Unique(d, quote[h])
        /\ UNCHANGED <<ledgerVars, rowVars>>
  /\ Finish(h)
  /\ UNCHANGED bank

-----------------------------------------------------------------------------
(* The environment. *)

BankDecides(b) ==
  /\ bank[b] = "open"
  /\ \E verdict \in {"won", "lost"} : bank' = [bank EXCEPT ![b] = verdict]
  /\ UNCHANGED <<ledgerVars, rowVars, handlerVars>>

\* The handler dies or its transaction fails; the event will be handed again.
Crash(h) ==
  /\ pc[h] # "idle"
  /\ Finish(h)
  /\ UNCHANGED <<ledgerVars, rowVars, bank>>

Next ==
  \/ \E h \in Handlers :
       \/ \E b \in BankDisputes : OpenFromProvider(h, b)
       \/ CheckFunds(h)
       \/ \E d \in DisputeIds : Hold(h, d) \/ Resolve(h, d)
       \/ RecordVerdict(h) \/ Crash(h)
  \/ \E d \in DisputeIds : SubmitEvidence(d)
  \/ \E b \in BankDisputes : BankDecides(b)

Spec == Init /\ [][Next]_vars

-----------------------------------------------------------------------------
TypeOK ==
  /\ balance \in [Accounts -> Int]
  /\ journal \subseteq {Key(d, step) : d \in DisputeIds, step \in {"open", "win", "lose"}}
  /\ status \in [DisputeIds -> {"none", "won", "lost"} \cup Pending]
  /\ cause \in [DisputeIds -> BankDisputes \cup {NoRef}]
  /\ ref \in [DisputeIds -> Refs]
  /\ bank \in [BankDisputes -> {"open", "won", "lost"}]
  /\ pc \in [Handlers -> {"idle", "check", "hold", "record"}]
  /\ subject \in [Handlers -> BankDisputes \cup DisputeIds \cup {NoRef}]
  /\ quote \in [Handlers -> Refs]

\* The row and the journal tell the same story, and a closed dispute is what
\* the bank decided: nothing is both given back and forfeited.
VerdictIsTheBanks ==
  \A d \in DisputeIds :
    /\ Opened(d) <=> status[d] # "none"
    /\ Won(d) <=> status[d] = "won"
    /\ Lost(d) <=> status[d] = "lost"
    /\ status[d] \in {"won", "lost"} => bank[cause[d]] = status[d]

\* A dispute of the bank holds the merchant's money once, however often and in
\* however many events the bank says it was opened.
HeldOnce ==
  \A d, e \in DisputeIds : cause[d] # NoRef /\ cause[d] = cause[e] => d = e

-----------------------------------------------------------------------------
\* What the journal says of a dispute's money, as a reservation.
phase ==
  [d \in DisputeIds |->
     CASE Lost(d) -> "committed"
       [] Won(d) -> "returned"
       [] Opened(d) /\ ~Won(d) /\ ~Lost(d) -> "held"
       [] OTHER -> "none"]

Money == INSTANCE Reservation WITH
  Items <- DisputeIds,
  Owners <- Merchants,
  Stakes <- {Amount[b] : b \in BankDisputes},
  Opening <- [m \in Merchants |-> OpeningBalance[Of("merchant.available", m)]],
  stake <- [d \in DisputeIds |-> IF Opened(d) THEN <<PayerOf(d), AmountOf(d)>> ELSE <<>>],
  free <- [m \in Merchants |-> balance[Of("merchant.available", m)]]

\* The money a dispute holds leaves the merchant once and has a single fate.
ReservationSpec == Money!Spec
=============================================================================
