----------------------------- MODULE RateLimit -----------------------------
(***************************************************************************)
(* The fixed windows before login, registration, second factor and webhooks *)
(* of the providers: a request meets one bucket per rule, in order.  Time   *)
(* is a number of ticks; buckets are in the memory of one process or in     *)
(* Redis, where a script makes a hit atomic and an outage lets all pass.    *)
(***************************************************************************)
EXTENDS Integers, Sequences, FiniteSets

CONSTANTS
  Requesters,  \* requests under way at a time
  Checks,      \* the buckets a request meets, in order
  Quota,       \* rule.max
  Width,       \* rule.windowMs, in ticks
  MaxCuts      \* bound: outages of Redis

RateLimitAssumption == {Quota, Width} \subseteq Nat \ {0} /\ MaxCuts \in Nat

NoTtl == -1

VARIABLES
  backend,  \* "memory" or "redis"
  count,    \* per bucket, hits of its window; 0 when there is none
  ttl,      \* per bucket, ticks until its window ends
  next,     \* per request, the check it comes to; 0 when it is not there
  reachable,  \* Redis answers
  cuts,
  passed,   \* per bucket, hits let through in each of the last Width ticks
  told      \* per bucket, ticks left of the shortest wait a refusal asked for

vars == <<backend, count, ttl, next, reachable, cuts, passed, told>>

Buckets == {Checks[i] : i \in 1..Len(Checks)}

\* A key of Redis may have lost its expiry to an earlier version of the script.
Init ==
  /\ backend \in {"memory", "redis"}
  /\ count \in [Buckets -> 0..Quota]
  /\ ttl = [b \in Buckets |-> IF count[b] = 0 THEN 0 ELSE NoTtl]
  /\ backend = "memory" => \A b \in Buckets : count[b] = 0
  /\ next = [r \in Requesters |-> 0]
  /\ reachable = TRUE /\ cuts = 0
  /\ passed = [b \in Buckets |-> [t \in 1..Width |-> 0]]
  /\ told = [b \in Buckets |-> 0]

-----------------------------------------------------------------------------
Arrive(r) ==
  /\ next[r] = 0
  /\ next' = [next EXCEPT ![r] = 1]
  /\ UNCHANGED <<backend, count, ttl, reachable, cuts, passed, told>>

\* Bug: every hit starts the window anew.
TtlOfEveryHit(b) == Width

\* The first hit of a window sets its end; a refusal repairs one that is missing.
TtlAfterHit(b) ==
  IF count[b] = 0 \/ (count[b] >= Quota /\ ttl[b] = NoTtl) THEN Width ELSE ttl[b]

\* hit, on the bucket of the check the request has come to: the loop of
\* rateLimit goes on to the next check, and ends at the first refusal.
Hit(r) ==
  LET b == Checks[next[r]]
      passes == count[b] < Quota
  IN /\ next[r] # 0
     /\ backend = "redis" => reachable
     /\ count' = [count EXCEPT ![b] = IF @ <= Quota THEN @ + 1 ELSE @]
     /\ ttl' = [ttl EXCEPT ![b] = TtlAfterHit(b)]
     /\ passed' = IF passes THEN [passed EXCEPT ![b][1] = @ + 1] ELSE passed
     /\ told' = IF passes \/ told[b] \in 1..TtlAfterHit(b) THEN told
                ELSE [told EXCEPT ![b] = TtlAfterHit(b)]
     /\ next' = [next EXCEPT ![r] = IF passes /\ @ < Len(Checks) THEN @ + 1 ELSE 0]
     /\ UNCHANGED <<backend, reachable, cuts>>

\* The script fails: onError is told, and the request passes this check.
FailOpen(r) ==
  /\ next[r] # 0 /\ backend = "redis" /\ ~reachable
  /\ next' = [next EXCEPT ![r] = IF @ < Len(Checks) THEN @ + 1 ELSE 0]
  /\ UNCHANGED <<backend, count, ttl, reachable, cuts, passed, told>>

-----------------------------------------------------------------------------
(* The environment. *)

\* Windows that end are swept, or expire.
Tick ==
  /\ ttl' = [b \in Buckets |-> IF ttl[b] > 0 THEN ttl[b] - 1 ELSE ttl[b]]
  /\ count' = [b \in Buckets |-> IF ttl[b] = 1 THEN 0 ELSE count[b]]
  /\ told' = [b \in Buckets |-> IF told[b] > 0 THEN told[b] - 1 ELSE 0]
  /\ passed' = [b \in Buckets |->
                  [t \in 1..Width |-> IF t = 1 THEN 0 ELSE passed[b][t - 1]]]
  /\ UNCHANGED <<backend, next, reachable, cuts>>

Cut ==
  /\ backend = "redis" /\ reachable /\ cuts < MaxCuts
  /\ reachable' = FALSE /\ cuts' = cuts + 1
  /\ UNCHANGED <<backend, count, ttl, next, passed, told>>

Heal ==
  /\ ~reachable
  /\ reachable' = TRUE
  /\ UNCHANGED <<backend, count, ttl, next, cuts, passed, told>>

Next ==
  \/ \E r \in Requesters : Arrive(r) \/ Hit(r) \/ FailOpen(r)
  \/ Tick \/ Cut \/ Heal

Spec == Init /\ [][Next]_vars

-----------------------------------------------------------------------------
\* The hits let through within the last Width ticks: when, and which of them.
Recent(b) == UNION {{t} \X (1 .. passed[b][t]) : t \in 1..Width}

\* In a span of one window's length two can meet, of which one was open before.
SpanBounded == \A b \in Buckets : Cardinality(Recent(b)) < 2 * Quota

\* Whoever waits as long as a refusal said finds a new window.
WaitIsEnough == \A b \in Buckets : count[b] > Quota => 0 < ttl[b] /\ ttl[b] <= told[b]

\* The limit is one, and it ends: whatever else is tried meanwhile, and whatever
\* state a bucket was left in.
LimitsHold == SpanBounded /\ WaitIsEnough
=============================================================================
