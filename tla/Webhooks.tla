------------------------------ MODULE Webhooks ------------------------------
(***************************************************************************)
(* Outgoing webhooks of packages/webhooks: the relay's publisher fans an    *)
(* outbox event out to the active endpoints of its merchant, WebhookDeliverer*)
(* posts each row under a lease, and operators resend, rotate secrets and   *)
(* disable endpoints meanwhile.  The merchant's receiver is external: it    *)
(* may be down, answer late, and refuses what it cannot verify.             *)
(***************************************************************************)
EXTENDS Integers, FiniteSets

CONSTANTS
  Events,        \* outbox events with a public topic
  Endpoints,     \* webhook_endpoints subscribed to them
  Rows,          \* rows of webhook_events that may be inserted
  Deliverers,    \* cycles of WebhookDeliverer, one per process
  BatchSize,     \* batchSize
  MaxAttempts,   \* RETRY_SCHEDULE_MS.length
  MaxPublishes,  \* bound: times the relay hands over one event
  MaxRotations,  \* bound: rotations of one endpoint's secret
  EarlyRotation, \* may a secret be rotated again while the window is open
  MaxCrashes,    \* bound: cycles of the deliverer that die
  NoRow          \* no row in hand

VARIABLES
  publishes,  \* times each event was fanned out
  expected,   \* history: <<event, endpoint>> that a fan-out found active
  active,     \* endpoints not disabled
  secret,     \* version of each endpoint's secret
  grace,      \* prev_secret_expires_at > now()
  holds,      \* version with which the merchant verifies: external
  received,   \* <<event, endpoint>> that a receiver accepted: external
  about,      \* the <<event, endpoint>> of each row
  status, attempts, due,  \* columns of the row; due is next_attempt_at <= now()
  batch, cur, at,         \* rows claimed, the one in hand and how far it is
  signed,     \* versions that signed the post in hand
  crashes     \* cycles that died

endpointVars == <<active, secret, grace, holds>>
rowVars == <<about, status, attempts, due>>
workerVars == <<batch, cur, at, signed>>
vars == <<publishes, expected, endpointVars, received, rowVars, workerVars, crashes>>

Pair == Events \X Endpoints
Claim == [row : Rows, attempt : 1..MaxAttempts]

Init ==
  /\ publishes = [o \in Events |-> 0]
  /\ expected = {}
  /\ active = Endpoints
  /\ secret = [p \in Endpoints |-> 0]
  /\ grace = [p \in Endpoints |-> FALSE]
  /\ holds = [p \in Endpoints |-> 0]
  /\ received = {}
  /\ about = [r \in Rows |-> <<>>]
  /\ status = [r \in Rows |-> "absent"]
  /\ attempts = [r \in Rows |-> 0]
  /\ due = [r \in Rows |-> FALSE]
  /\ batch = [w \in Deliverers |-> {}]
  /\ cur = [w \in Deliverers |-> NoRow]
  /\ at = [w \in Deliverers |-> "next"]
  /\ signed = [w \in Deliverers |-> {}]
  /\ crashes = 0

-----------------------------------------------------------------------------
\* A new row for each pair, pending and due; their ids are arbitrary.
Placements(pairs) ==
  {f \in [pairs -> {r \in Rows : status[r] = "absent"}] :
     \A x, y \in pairs : f[x] = f[y] => x = y}

Insert(pairs) ==
  LET row == CHOOSE f \in Placements(pairs) : TRUE
      pairOf(r) == CHOOSE x \in pairs : row[x] = r
      new == {row[x] : x \in pairs}
  IN
  /\ Placements(pairs) # {}
  /\ about' = [r \in Rows |-> IF r \in new THEN pairOf(r) ELSE about[r]]
  /\ status' = [r \in Rows |-> IF r \in new THEN "pending" ELSE status[r]]
  /\ due' = [r \in Rows |-> r \in new \/ due[r]]
  /\ UNCHANGED attempts

\* One row per active endpoint, in one statement.  The relay publishes again
\* after a crash and does not know what it had inserted.
FanOut(o) ==
  /\ publishes[o] < MaxPublishes
  /\ publishes' = [publishes EXCEPT ![o] = @ + 1]
  /\ expected' = expected \cup ({o} \X active)
  /\ Insert({o} \X active)
  /\ UNCHANGED <<endpointVars, received, workerVars, crashes>>

\* Resending copies a dead row into a new one; the dead row stays.
Resend(r) ==
  /\ status[r] = "dead"
  /\ Insert({about[r]})
  /\ UNCHANGED <<publishes, expected, endpointVars, received, workerVars, crashes>>

\* The merchant's operator rotates the secret ...
RotateSecret(p) ==
  /\ p \in active
  /\ secret[p] < MaxRotations
  /\ grace[p] => EarlyRotation
  /\ secret' = [secret EXCEPT ![p] = @ + 1]
  /\ grace' = [grace EXCEPT ![p] = TRUE]
  /\ UNCHANGED <<publishes, expected, active, holds, received, rowVars, workerVars, crashes>>

\* ... and the receiver takes it over before the window ends.
Adopt(p) ==
  /\ holds[p] # secret[p]
  /\ holds' = [holds EXCEPT ![p] = secret[p]]
  /\ UNCHANGED <<publishes, expected, active, secret, grace, received, rowVars, workerVars, crashes>>

GraceEnds(p) ==
  /\ grace[p]
  /\ holds[p] = secret[p]
  /\ grace' = [grace EXCEPT ![p] = FALSE]
  /\ UNCHANGED <<publishes, expected, active, secret, holds, received, rowVars, workerVars, crashes>>

Disable(p) ==
  /\ p \in active
  /\ active' = active \ {p}
  /\ UNCHANGED <<publishes, expected, secret, grace, holds, received, rowVars, workerVars, crashes>>

Elapse(r) ==
  /\ status[r] = "pending"
  /\ ~due[r]
  /\ due' = [due EXCEPT ![r] = TRUE]
  /\ UNCHANGED <<publishes, expected, endpointVars, received, about, status, attempts,
                 workerVars, crashes>>

-----------------------------------------------------------------------------
EndpointOf(r) == about[r][2]

\* Writes that end an attempt say AND status = 'pending'.
Mark(r, s) ==
  status' = [status EXCEPT ![r] = IF @ = "pending" THEN s ELSE @]

Go(w, c, point, sig) ==
  /\ cur' = [cur EXCEPT ![w] = c]
  /\ at' = [at EXCEPT ![w] = point]
  /\ signed' = [signed EXCEPT ![w] = sig]

Leave(w, c) ==
  /\ batch' = [batch EXCEPT ![w] = @ \ {c}]
  /\ Go(w, NoRow, "next", {})

\* Bug: an off-by-one claims no row for its last attempt.
EligibleEarly == {r \in Rows : status[r] = "pending" /\ attempts[r] < MaxAttempts - 1 /\ due[r]}

Eligible == {r \in Rows : status[r] = "pending" /\ attempts[r] < MaxAttempts /\ due[r]}

ClaimBatch(w) ==
  /\ batch[w] = {}
  /\ \E S \in (SUBSET Eligible) \ {{}} :
       /\ Cardinality(S) <= BatchSize
       /\ attempts' = [r \in Rows |-> IF r \in S THEN attempts[r] + 1 ELSE attempts[r]]
       /\ due' = [r \in Rows |-> r \notin S /\ due[r]]
       /\ batch' = [batch EXCEPT ![w] = {[row |-> r, attempt |-> attempts[r] + 1] : r \in S}]
  /\ UNCHANGED <<publishes, expected, endpointVars, received, about, status,
                 cur, at, signed, crashes>>

\* Bug: once rotated, only the new secret signs.
SignaturesNewOnly(p) == {secret[p]}

\* The current secret signs, and within the window also the one before it.
Signatures(p) == {secret[p]} \cup (IF grace[p] THEN {secret[p] - 1} ELSE {})

\* The endpoint is read.  Disabled, its row dies without touching the network;
\* active, its secrets sign the post; a refused address or an unreadable
\* secret fails the attempt.
LoadEndpoint(w, c) ==
  LET p == EndpointOf(c.row) IN
  /\ at[w] = "next"
  /\ c \in batch[w]
  /\ \/ /\ p \notin active
        /\ Mark(c.row, "dead")
        /\ Leave(w, c)
     \/ /\ p \in active
        /\ \/ Go(w, c, "loaded", Signatures(p))
           \/ Go(w, c, "failed", {})
        /\ UNCHANGED <<status, batch>>
  /\ UNCHANGED <<publishes, expected, endpointVars, received, about, attempts, due, crashes>>

\* verifyWebhookDelivery: the receiver finds a signature of the secret it holds.
Verifies(w) == holds[EndpointOf(cur[w].row)] \in signed[w]

\* The post: accepted and answered 2xx, accepted with the answer lost, or
\* neither.  Other addresses are tried only while nothing was sent.
Post(w) ==
  LET c == cur[w] IN
  /\ at[w] = "loaded"
  /\ \/ /\ Verifies(w)
        /\ received' = received \cup {about[c.row]}
        /\ Go(w, c, "answered", {}) \/ Go(w, c, "failed", {})
     \/ Go(w, c, "failed", {}) /\ UNCHANGED received
  /\ UNCHANGED <<publishes, expected, endpointVars, rowVars, batch, crashes>>

\* finish: when the write fails, the attempt counts as failed.
FinishDelivered(w) ==
  /\ at[w] = "answered"
  /\ \/ Mark(cur[w].row, "delivered") /\ Leave(w, cur[w])
     \/ Go(w, cur[w], "failed", {}) /\ UNCHANGED <<status, batch>>
  /\ UNCHANGED <<publishes, expected, endpointVars, received, about, attempts, due, crashes>>

\* Bug: a failed attempt is the last one.
DeadAtOnce(w) ==
  /\ at[w] = "failed"
  /\ Mark(cur[w].row, "dead")
  /\ Leave(w, cur[w])
  /\ UNCHANGED <<publishes, expected, endpointVars, received, about, attempts, due, crashes>>

ScheduleRetryOrDead(w) ==
  LET c == cur[w] IN
  /\ at[w] = "failed"
  /\ \/ /\ c.attempt >= MaxAttempts
        /\ Mark(c.row, "dead")
        /\ UNCHANGED due
     \/ /\ c.attempt < MaxAttempts
        /\ due' = [due EXCEPT ![c.row] = @ /\ status[c.row] # "pending"]
        /\ UNCHANGED status
  /\ Leave(w, c)
  /\ UNCHANGED <<publishes, expected, endpointVars, received, about, attempts, crashes>>

Crash(w) ==
  /\ batch[w] # {}
  /\ crashes < MaxCrashes
  /\ crashes' = crashes + 1
  /\ batch' = [batch EXCEPT ![w] = {}]
  /\ Go(w, NoRow, "next", {})
  /\ UNCHANGED <<publishes, expected, endpointVars, received, rowVars>>

\* runOnce.
Cycle(w) ==
  \/ ClaimBatch(w)
  \/ \E c \in batch[w] : LoadEndpoint(w, c)
  \/ Post(w) \/ FinishDelivered(w) \/ ScheduleRetryOrDead(w)

Next ==
  \/ \E o \in Events : FanOut(o)
  \/ \E p \in Endpoints : RotateSecret(p) \/ Adopt(p) \/ GraceEnds(p) \/ Disable(p)
  \/ \E r \in Rows : Resend(r) \/ Elapse(r)
  \/ \E w \in Deliverers : Cycle(w) \/ Crash(w)

Fairness ==
  /\ \A r \in Rows : WF_vars(Elapse(r))
  /\ \A w \in Deliverers : WF_vars(Cycle(w))

Spec == Init /\ [][Next]_vars

FairSpec == Spec /\ Fairness

-----------------------------------------------------------------------------
\* No fan-out is lost: whatever a fan-out found an active endpoint for was
\* accepted there, or some row of it is still to be posted, or one died after
\* its last attempt or with its endpoint; and a delivered row was accepted.
NothingLost ==
  /\ \A x \in expected :
       \/ x \in received
       \/ \E r \in Rows :
            /\ about[r] = x
            /\ \/ status[r] = "pending"
               \/ status[r] = "dead" /\ (x[2] \notin active \/ attempts[r] = MaxAttempts)
  /\ \A r \in Rows : status[r] = "delivered" => about[r] \in received

\* While the receiver follows each rotation within its window, a post is
\* always signed with the version the receiver holds when it is signed.
SignedForReceiver ==
  [][\A w \in Deliverers :
       at[w] = "next" /\ at'[w] = "loaded" => holds[EndpointOf(cur'[w].row)] \in signed'[w]]_vars

\* A row claimed for the last time by a cycle that died.
Zombie(r) ==
  /\ attempts[r] = MaxAttempts
  /\ \A w \in Deliverers : \A c \in batch[w] : c.row # r

\* Every row is delivered or dead in the end, save those a dead cycle held on
\* their last attempt.
RowEndsOrIsZombie == []<>(\A r \in Rows : status[r] # "pending" \/ Zombie(r))
=============================================================================
