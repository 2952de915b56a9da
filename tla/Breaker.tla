------------------------------ MODULE Breaker ------------------------------
(***************************************************************************)
(* The circuit breaker of one process before one provider                   *)
(* (payments-core/src/resilience.ts).  Every call of guarded() runs up to   *)
(* its await in one step and goes on when the provider answers or the       *)
(* timeout wins; other calls run in between, on the same three fields.      *)
(***************************************************************************)
EXTENDS Naturals, FiniteSets

CONSTANTS
  Callers,           \* calls that can be under way at once
  FailureThreshold,  \* consecutive failures that open the circuit
  MaxOutages         \* bound: times the provider goes down

VARIABLES
  circuit,   \* state
  failures,  \* consecutiveFailures, counted up to the threshold
  cooled,    \* cooldownMs have passed since openedAt
  call,      \* "idle", "answering", "doomed" to fail or time out, "refused"
  up,        \* the provider answers the requests it gets now
  outages    \* history: times it went down, for the bound

vars == <<circuit, failures, cooled, call, up, outages>>

Init ==
  /\ circuit = "closed"
  /\ failures = 0
  /\ cooled = FALSE
  /\ call = [c \in Callers |-> "idle"]
  /\ up = TRUE
  /\ outages = 0

-----------------------------------------------------------------------------
\* CircuitOpenError: nothing was sent.
Refuse(c) ==
  /\ call[c] = "idle"
  /\ circuit = "open" /\ ~cooled
  /\ call' = [call EXCEPT ![c] = "refused"]
  /\ UNCHANGED <<circuit, failures, cooled, up, outages>>

\* The request goes out; after the cooldown it is a probe, and so is every
\* other that comes before the first of them has ended.
Send(c) ==
  /\ call[c] = "idle"
  /\ circuit = "open" => cooled
  /\ circuit' = IF circuit = "open" THEN "half_open" ELSE circuit
  /\ call' = [call EXCEPT ![c] = IF up THEN "answering" ELSE "doomed"]
  /\ UNCHANGED <<failures, cooled, up, outages>>

\* Bug: an answer clears the count and forgets the circuit.
AnswerForgets(c) ==
  /\ call[c] = "answering"
  /\ failures' = 0
  /\ call' = [call EXCEPT ![c] = "idle"]
  /\ UNCHANGED <<circuit, cooled, up, outages>>

\* Any answer, of whichever call, closes the circuit.
Answered(c) ==
  /\ call[c] = "answering"
  /\ circuit' = "closed"
  /\ failures' = 0
  /\ call' = [call EXCEPT ![c] = "idle"]
  /\ UNCHANGED <<cooled, up, outages>>

\* Does this failure open the circuit, or open it again?
Opens == circuit = "half_open" \/ failures + 1 >= FailureThreshold

Failed(c) ==
  /\ call[c] = "doomed"
  /\ failures' = IF failures < FailureThreshold THEN failures + 1 ELSE failures
  /\ circuit' = IF Opens THEN "open" ELSE circuit
  /\ cooled' = IF Opens THEN FALSE ELSE cooled
  /\ call' = [call EXCEPT ![c] = "idle"]
  /\ UNCHANGED <<up, outages>>

-----------------------------------------------------------------------------
Cool ==
  /\ circuit = "open"
  /\ ~cooled
  /\ cooled' = TRUE
  /\ UNCHANGED <<circuit, failures, call, up, outages>>

\* The caller of a refused request comes back, or somebody else calls.
Return(c) ==
  /\ call[c] = "refused"
  /\ call' = [call EXCEPT ![c] = "idle"]
  /\ UNCHANGED <<circuit, failures, cooled, up, outages>>

GoDown ==
  /\ up
  /\ outages < MaxOutages
  /\ up' = FALSE
  /\ outages' = outages + 1
  /\ UNCHANGED <<circuit, failures, cooled, call>>

ComeUp ==
  /\ ~up
  /\ up' = TRUE
  /\ UNCHANGED <<circuit, failures, cooled, call, outages>>

Serve(c) == Refuse(c) \/ Send(c) \/ Answered(c) \/ Failed(c) \/ Return(c)

Next ==
  \/ \E c \in Callers : Serve(c)
  \/ Cool \/ GoDown \/ ComeUp

\* Calls end by their timeout, time passes, and there is somebody who pays.
Fairness ==
  /\ \A c \in Callers : WF_vars(Serve(c))
  /\ WF_vars(Cool)

Spec == Init /\ [][Next]_vars /\ Fairness

-----------------------------------------------------------------------------
\* Once the provider is up for good the circuit closes for good, although
\* calls of the outage are still failing and each of their failures may open
\* it again: neither refused calls nor stragglers keep the provider cut off.
CircuitRecovers == <>[]up => <>[](circuit = "closed")
=============================================================================
