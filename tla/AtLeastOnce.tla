---------------------------- MODULE AtLeastOnce ----------------------------
(***************************************************************************)
(* What a queue of events kept in a table promises, whoever works on it:    *)
(* the outbox relay, the inbox processor and the webhook deliverer.  An     *)
(* event is settled only after its effect took place at least once, it is   *)
(* tried no more often than its budget allows, and it is given up only when *)
(* a whole budget was spent on it or it can never be handled.  A settled    *)
(* event stays settled.                                                     *)
(***************************************************************************)
EXTENDS Integers

CONSTANTS
  Events,  \* rows of the table
  Budget   \* attempts that an event is given on entry and on each revival

VARIABLES
  deliverable,  \* events that a worker may handle with success, for good
  status,       \* "absent", "pending", "settled" or "dead"
  done,         \* events whose effect took place
  tries,        \* attempts started on each event
  budget        \* attempts ever granted to each event

vars == <<deliverable, status, done, tries, budget>>

Init ==
  /\ deliverable \in SUBSET Events
  /\ status = [e \in Events |-> "absent"]
  /\ done = {}
  /\ tries = [e \in Events |-> 0]
  /\ budget = [e \in Events |-> 0]

Move(S, from, to) ==
  /\ \A e \in S : status[e] = from
  /\ status' = [e \in Events |-> IF e \in S THEN to ELSE status[e]]

Enter(e) ==
  /\ \/ Move({e}, "absent", "pending")
     \/ Move({e}, "dead", "pending")
  /\ budget' = [budget EXCEPT ![e] = @ + Budget]
  /\ UNCHANGED <<deliverable, done, tries>>

Try(S) ==
  /\ \A e \in S : status[e] = "pending" /\ tries[e] < budget[e]
  /\ tries' = [e \in Events |-> IF e \in S THEN tries[e] + 1 ELSE tries[e]]
  /\ UNCHANGED <<deliverable, status, done, budget>>

\* The effect may come late: its worker may have lost the event meanwhile.
Effect(e) ==
  /\ tries[e] > 0
  /\ e \in deliverable
  /\ done' = done \cup {e}
  /\ UNCHANGED <<deliverable, status, tries, budget>>

Settle(e) ==
  /\ e \in done
  /\ Move({e}, "pending", "settled")
  /\ UNCHANGED <<deliverable, done, tries, budget>>

GiveUp(S) ==
  /\ \A e \in S : e \in deliverable => tries[e] >= Budget
  /\ Move(S, "pending", "dead")
  /\ UNCHANGED <<deliverable, done, tries, budget>>

Next ==
  \/ \E e \in Events : Enter(e) \/ Effect(e) \/ Settle(e)
  \/ \E S \in SUBSET Events : Try(S) \/ GiveUp(S)

Spec == Init /\ [][Next]_vars
=============================================================================
