------------------------------ MODULE Checkout ------------------------------
(***************************************************************************)
(* Hosted checkout sessions over the confirmation of payment intents: the   *)
(* hosted page confirms the intent of its session, and a session closes     *)
(* lazily when the page asks for it or by the sweep of the worker.  The     *)
(* merchant can meanwhile confirm, cancel and refund the intent over the    *)
(* API: several sessions may wrap the same intent.                          *)
(***************************************************************************)
EXTENDS Confirmation

CONSTANTS
  Sessions,  \* checkout session rows that may be created
  NoRead     \* no transaction of the session has read its intent

ASSUME CheckoutAssumption == NoRead \notin IntentStatuses

VARIABLES
  session,  \* checkout_sessions.status; "none" before the insert
  wraps,    \* checkout_sessions.payment_intent_id
  lapsed,   \* expires_at has passed
  seen      \* intent status in the snapshot of the session's transaction

sessionVars == <<session, wraps, lapsed, seen>>
checkoutVars == <<vars, sessionVars>>

\* INTENT_OPEN_FOR_CHECKOUT.
OpenForCheckout == Confirmable \cup {"processing"}

\* payment_intent_transitions out of a paid intent.
RefundTransitions ==
  {<<"succeeded", "partially_refunded">>, <<"succeeded", "refunded">>,
   <<"partially_refunded", "refunded">>}

CheckoutInit ==
  /\ Init
  /\ session = [s \in Sessions |-> "none"]
  /\ wraps = [s \in Sessions |-> NoIntent]
  /\ lapsed = [s \in Sessions |-> FALSE]
  /\ seen = [s \in Sessions |-> NoRead]

-----------------------------------------------------------------------------
\* createIn reads the intent's status without a lock ...
CreateIn(s, i) ==
  /\ session[s] = "none" /\ seen[s] = NoRead
  /\ istatus[i] \in OpenForCheckout
  /\ wraps' = [wraps EXCEPT ![s] = i]
  /\ seen' = [seen EXCEPT ![s] = istatus[i]]
  /\ UNCHANGED <<vars, session, lapsed>>

\* ... and inserts the session, whatever became of the intent meanwhile.
Insert(s) ==
  /\ session[s] = "none" /\ seen[s] # NoRead
  /\ session' = [session EXCEPT ![s] = "open"]
  /\ seen' = [seen EXCEPT ![s] = NoRead]
  /\ UNCHANGED <<vars, wraps, lapsed>>

\* An intent nobody has touched stands for one that is created now.
Untouched(i) ==
  /\ istatus[i] = "created"
  /\ \A s \in Sessions : wraps[s] # i
  /\ \A a \in Attempts : target[a] # i

\* createSessionFromLink: an opened payment link makes an intent and its session
\* in one transaction.
CreateSessionFromLink(s, i) ==
  /\ session[s] = "none" /\ seen[s] = NoRead
  /\ Untouched(i)
  /\ session' = [session EXCEPT ![s] = "open"]
  /\ wraps' = [wraps EXCEPT ![s] = i]
  /\ UNCHANGED <<vars, lapsed, seen>>

\* Nobody else holds the lock of the session's row.
Unlocked(s) == session[s] # "none" /\ seen[s] = NoRead

\* Phase 1 of the hosted confirmation, under the lock of the session: the TTL
\* is not looked at.  Phase 2 is execute.
ConfirmByClientSecret(s, a) ==
  /\ Unlocked(s)
  /\ session[s] = "open"
  /\ BeginIn(a, wraps[s])
  /\ UNCHANGED sessionVars

\* syncStatusIn locks the session and reads its intent, without a lock ...
SyncRead(s) ==
  /\ Unlocked(s)
  /\ seen' = [seen EXCEPT ![s] = istatus[wraps[s]]]
  /\ UNCHANGED <<vars, session, wraps, lapsed>>

\* Bug: a session is completed once its payment has begun.
SyncWriteEarly(s) ==
  /\ session[s] = "open" /\ seen[s] \in {"processing", "succeeded"}
  /\ session' = [session EXCEPT ![s] = "completed"]
  /\ seen' = [seen EXCEPT ![s] = NoRead]
  /\ UNCHANGED <<vars, wraps, lapsed>>

\* ... and closes it by what it read: a success wins over the TTL.
SyncWrite(s) ==
  /\ session[s] # "none" /\ seen[s] # NoRead
  /\ session' =
       [session EXCEPT ![s] =
          IF @ # "open" THEN @
          ELSE IF seen[s] = "succeeded" THEN "completed"
          ELSE IF lapsed[s] THEN "expired" ELSE @]
  /\ seen' = [seen EXCEPT ![s] = NoRead]
  /\ UNCHANGED <<vars, wraps, lapsed>>

\* sweep_checkout_sessions: one statement, once it has the lock of every row.
ToComplete == {s \in Sessions : session[s] = "open" /\ istatus[wraps[s]] = "succeeded"}

\* Bug: the sweep leaves the lapsed sessions to the page.
NoneToExpire == {}

ToExpire == {s \in Sessions :
               session[s] = "open" /\ lapsed[s] /\ istatus[wraps[s]] # "succeeded"}

SweepSessions ==
  /\ \A s \in Sessions : session[s] # "none" => Unlocked(s)
  /\ ToComplete \cup ToExpire # {}
  /\ session' = [s \in Sessions |->
                   IF s \in ToComplete THEN "completed"
                   ELSE IF s \in ToExpire THEN "expired" ELSE session[s]]
  /\ UNCHANGED <<vars, wraps, lapsed, seen>>

-----------------------------------------------------------------------------
(* The environment. *)

Lapse(s) ==
  /\ session[s] = "open" /\ ~lapsed[s]
  /\ lapsed' = [lapsed EXCEPT ![s] = TRUE]
  /\ UNCHANGED <<vars, session, wraps, seen>>

\* A refund of the intent succeeds: what RefundService does to its status.
Refund(i) ==
  /\ \E to \in IntentStatuses :
       /\ <<istatus[i], to>> \in RefundTransitions
       /\ istatus' = [istatus EXCEPT ![i] = to]
  /\ UNCHANGED <<ledgerVars, captured, rowVars, provider, inboxVars, pc, faults, sessionVars>>

-----------------------------------------------------------------------------
CheckoutNext ==
  \/ Next /\ UNCHANGED sessionVars
  \/ \E s \in Sessions :
       \/ \E i \in Intents : CreateIn(s, i) \/ CreateSessionFromLink(s, i)
       \/ Insert(s)
       \/ \E a \in Attempts : ConfirmByClientSecret(s, a)
       \/ SyncRead(s) \/ SyncWrite(s)
       \/ Lapse(s)
  \/ SweepSessions
  \/ \E i \in Intents : Refund(i)

CheckoutSpec == CheckoutInit /\ [][CheckoutNext]_checkoutVars

\* Transactions end, the sweep runs at an interval and time passes; no buyer
\* owes a visit.  The sweep waits for row locks, which are held again and
\* again while a page polls: it gets them all at once often enough.
CheckoutFairness ==
  /\ \A s \in Sessions :
       WF_checkoutVars(SyncWrite(s)) /\ WF_checkoutVars(Lapse(s))
  /\ SF_checkoutVars(SweepSessions)

CheckoutFairSpec == CheckoutSpec /\ CheckoutFairness /\ Fairness

-----------------------------------------------------------------------------
CheckoutTypeOK ==
  /\ TypeOK
  /\ session \in [Sessions -> {"none", "open", "completed", "expired"}]
  /\ wraps \in [Sessions -> Intents \cup {NoIntent}]
  /\ lapsed \in [Sessions -> BOOLEAN]
  /\ seen \in [Sessions -> IntentStatuses \cup {NoRead}]

\* What the page tells the buyer is true however stale the read it closed the
\* session on: a completed session has been paid, an expired one had lapsed.
SessionOutcome ==
  \A s \in Sessions :
    /\ session[s] = "completed" => captured[wraps[s]] = Amount[wraps[s]]
    /\ session[s] = "expired" => lapsed[s]

\* A session whose page is never polled again does not stay open.
SessionCloses ==
  \A s \in Sessions : session[s] = "open" ~> session[s] \in {"completed", "expired"}

\* Nobody has to come back for a payment: neither the session nor the attempt of
\* a buyer, or of a process, that is gone stays open.
SessionsMoveOn == SessionCloses /\ SubmittingIsLeft
=============================================================================
