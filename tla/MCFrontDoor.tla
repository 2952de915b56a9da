----------------------------- MODULE MCFrontDoor -----------------------------
(***************************************************************************)
(* The machines a request meets around a payment service, one per           *)
(* behaviour: the form it is sent from (Console), the limits of its rate    *)
(* (RateLimit), the account of the person who logs in (Access), the keys    *)
(* under which the platform keeps secrets while they are changed            *)
(* (KeyRotation), the idempotent execution (Requests), the way to a first   *)
(* merchant (Onboarding), the records of the organization and their trail   *)
(* (Records) and the circuit before the provider (Breaker).                 *)
(* They share no state, so nothing is lost by not interleaving them.        *)
(***************************************************************************)
EXTENDS Access

CONSTANTS
  Processes, Rows, Clients, Payloads, MaxFaults, Tabs, Slugs, Names, MaxDeaths,
  Callers, FailureThreshold, MaxOutages,
  MaxClicks, MaxLost,
  Requesters, Quota, Width, MaxCuts,
  Handlers, Merchants, Customers, Keys, Links, Parked, PageSize, MaxEvents, Together, Timed,
  MaxClock

VARIABLES
  machine,
  kind, target, config, row, cursor, gate,
  payload, client, answer, key, effects, life, faults,
  form, at, org, merchants, chart, holder, first, late, deaths,
  circuit, failures, cooled, call, up, outages,
  page, phase, conf, idem, clicks, modal, password, requests, done, fresh, strong, lost,
  backend, count, ttl, next, reachable, cuts, passed, told,
  record, trail, tx, clock, nextId, walk, stale

KeyRotation == INSTANCE KeyRotation
Requests == INSTANCE Requests
Onboarding == INSTANCE Onboarding
Breaker == INSTANCE Breaker
Console == INSTANCE Console WITH form <- page, effects <- done
RateLimit == INSTANCE RateLimit WITH Checks <- <<"login:email", "login:ip">>
Records == INSTANCE Records

\* The assumptions under which the theorems about these machines hold.
ASSUME FrontDoorAssumption ==
  /\ AccessAssumption
  /\ Requests!RequestsAssumption
  /\ Onboarding!OnboardingAssumption
  /\ Console!ConsoleAssumption
  /\ RateLimit!RateLimitAssumption
  /\ Records!RecordsAssumption

keyVars == <<kind, target, config, row, cursor, gate>>
requestVars == <<payload, client, answer, key, effects, life, faults>>
onboardingVars == <<form, at, org, merchants, chart, holder, first, late, deaths>>
breakerVars == <<circuit, failures, cooled, call, up, outages>>
consoleVars == <<page, phase, conf, idem, clicks, modal, password, requests, done,
                 fresh, strong, lost>>
limitVars == <<backend, count, ttl, next, reachable, cuts, passed, told>>
recordVars == <<record, trail, tx, clock, nextId, walk, stale>>
othersOfConsole ==
  <<vars, keyVars, requestVars, onboardingVars, breakerVars, limitVars, recordVars>>
doorVars == <<machine, othersOfConsole, consoleVars>>

\* A machine that does not run has one initial state.
DoorInit ==
  /\ machine \in {"access", "keys", "requests", "onboarding", "breaker", "console", "limits",
                 "records"}
  /\ Init
  /\ KeyRotation!Init
  /\ machine # "keys" => kind = "mfa"
  /\ Requests!Init
  /\ machine # "requests" => payload = [c \in Clients |-> CHOOSE p \in Payloads : TRUE]
  /\ Onboarding!Init
  /\ machine # "onboarding" =>
       /\ form = [t \in Tabs |-> CHOOSE f \in [slug : Slugs, name : Names] : TRUE]
       /\ org = [s \in Slugs |-> "nobody"]
  /\ Breaker!Init
  /\ Console!Init
  /\ machine # "console" => page = Console!CreateRefundForm /\ fresh /\ ~strong
  /\ RateLimit!Init
  /\ machine # "limits" =>
       backend = "memory" /\ \A b \in DOMAIN count : count[b] = 0
  /\ Records!Init

AccessNext ==
  machine = "access" /\ Next
    /\ UNCHANGED <<machine, keyVars, requestVars, onboardingVars, breakerVars, consoleVars,
                   limitVars, recordVars>>
KeysNext ==
  machine = "keys" /\ KeyRotation!Next
    /\ UNCHANGED <<machine, vars, requestVars, onboardingVars, breakerVars, consoleVars,
                   limitVars, recordVars>>
RequestsNext ==
  machine = "requests" /\ Requests!Next
    /\ UNCHANGED <<machine, vars, keyVars, onboardingVars, breakerVars, consoleVars,
                   limitVars, recordVars>>
OnboardingNext ==
  machine = "onboarding" /\ Onboarding!Next
    /\ UNCHANGED <<machine, vars, keyVars, requestVars, breakerVars, consoleVars,
                   limitVars, recordVars>>
BreakerNext ==
  machine = "breaker" /\ Breaker!Next
    /\ UNCHANGED <<machine, vars, keyVars, requestVars, onboardingVars, consoleVars,
                   limitVars, recordVars>>
ConsoleNext ==
  machine = "console" /\ Console!Next /\ UNCHANGED <<machine, othersOfConsole>>
LimitsNext ==
  machine = "limits" /\ RateLimit!Next
    /\ UNCHANGED <<machine, vars, keyVars, requestVars, onboardingVars, breakerVars,
                   consoleVars, recordVars>>
RecordsNext ==
  machine = "records" /\ Records!Next
    /\ UNCHANGED <<machine, vars, keyVars, requestVars, onboardingVars, breakerVars,
                   consoleVars, limitVars>>

DoorNext ==
  \/ AccessNext \/ KeysNext \/ RequestsNext \/ OnboardingNext \/ BreakerNext
  \/ ConsoleNext \/ LimitsNext \/ RecordsNext

DoorSpec ==
  /\ DoorInit /\ [][DoorNext]_doorVars
  /\ \/ machine \in {"access", "onboarding", "console", "limits", "records"}
     \/ machine = "keys" /\ KeyRotation!Fairness
     \/ machine = "requests" /\ Requests!Fairness
     \/ machine = "breaker" /\ Breaker!Fairness

EveryProcessReads == KeyRotation!EveryProcessReads
EffectOncePerKey == Requests!EffectOncePerKey
OnboardedOnce == Onboarding!OnboardedOnce
ConfirmedOnce == Console!ConfirmedOnce
LimitsHold == RateLimit!LimitsHold
RecordsHold == Records!RecordsHold

\* Nobody waits forever: a rotation of keys ends, a request is answered, and a
\* provider that has come back is called again.
EveryoneIsServed ==
  /\ machine = "keys" => KeyRotation!RotationEnds
  /\ machine = "requests" => Requests!EveryoneIsAnswered
  /\ machine = "breaker" => Breaker!CircuitRecovers
=============================================================================
