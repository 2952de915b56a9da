----------------------------- MODULE MCDelivery -----------------------------
(***************************************************************************)
(* The two queues of events (EventQueue) and the webhooks they lead to      *)
(* (Webhooks), one machine per behaviour.  What crosses from one to the     *)
(* other is that an event may be published more than once, which Webhooks   *)
(* has as an action of its own (FanOut, MaxPublishes times).                *)
(***************************************************************************)
EXTENDS MCEventQueue

CONSTANTS
  Topics, Endpoints, Rows, Deliverers, MaxPublishes, MaxRotations, EarlyRotation, MaxCrashes

VARIABLES
  machine,
  publishes, expected, active, secret, grace, holds, received, about,
  rowStatus, rowAttempts, rowDue, claimed, posting, step, signed, crashes

Hooks == INSTANCE Webhooks WITH
  Events <- Topics, status <- rowStatus, attempts <- rowAttempts, due <- rowDue,
  batch <- claimed, cur <- posting, at <- step

hookVars == <<publishes, expected, active, secret, grace, holds, received, about,
              rowStatus, rowAttempts, rowDue, claimed, posting, step, signed, crashes>>
deliveryVars == <<machine, vars, hookVars>>

\* The queues treat valid events alike: the inbox is run with one that is not.
DeliveryInit ==
  /\ machine \in {"queues", "webhooks"}
  /\ Init
  /\ IF machine = "webhooks"
       THEN queue = "outbox" /\ body = CHOOSE b \in Bodies : TRUE
       ELSE queue = "inbox" => \E e \in Events : body[e] # "valid"
  /\ Hooks!Init

DeliveryNext ==
  \/ machine = "queues" /\ Next /\ UNCHANGED <<machine, hookVars>>
  \/ machine = "webhooks" /\ Hooks!Next /\ UNCHANGED <<machine, vars>>

DeliverySpec ==
  /\ DeliveryInit /\ [][DeliveryNext]_deliveryVars
  /\ \/ machine = "queues" /\ Fairness
     \/ machine = "webhooks" /\ Hooks!Fairness

NothingLost == Hooks!NothingLost
SignedForReceiver == Hooks!SignedForReceiver
RowEndsOrIsZombie == machine = "webhooks" => Hooks!RowEndsOrIsZombie
EveryEventSettles == machine = "queues" => EventSettles
=============================================================================
