----------------------------- MODULE Lifecycle -----------------------------
(***************************************************************************)
(* The life of a process.  The worker proves that it can reach its database,*)
(* starts the jobs its configuration enables, and on a signal stops them and*)
(* ends its pools; the API listens, and on a signal closes its server, which*)
(* waits for the requests under way, before it ends its own.  A job works in*)
(* cycles, one at a time.  What a cycle or a request does to the database is*)
(* in the module of its component, here it is the sequence of pools it takes*)
(* connections from.  The pools are those of pg: an ended one refuses, and  *)
(* is ended once all of its connections are returned.                       *)
(***************************************************************************)
EXTENDS Integers, Sequences, FiniteSets

CONSTANTS
  Size,        \* connections of a pool
  JobsEnabled  \* bound: jobs or requests of one behaviour

VARIABLES
  enabled,   \* the jobs of this configuration, or the requests of the API
  life,      \* "up", or how the process ended: "exited", "failed", "crashed"
  signalled, \* shutdown has been called
  ending,    \* pools whose end() has been called
  timer,     \* the job has its interval, or the server listens
  stopped,   \* stop() was called
  step,      \* the use of a pool the cycle or request has come to
  at         \* "idle", or where that use is: "asks", "queued", "holds"

vars == <<enabled, life, signalled, ending, timer, stopped, step, at>>

-----------------------------------------------------------------------------
(* The cycles of the worker, and the requests of the API. *)

OutboxRelay             == <<"relay", "relay">>
ProjectionDriftWatcher  == <<"worker">>
TechnicalPurgeJob       == <<"worker">>
InboxProcessor          == <<"inbox", "app", "inbox">>
AttemptsWatchdog        == <<"worker">>
CheckoutSessionWatchdog == <<"worker">>
ReconciliationWatchdog  == <<"worker">>
PayoutsWatchdog         == <<"worker">>
PayoutsRedriver         == <<"worker", "app">>
DisputesWatchdog        == <<"worker">>
IdempotencyWatchdog     == <<"worker">>
LedgerCheckpointer      == <<"worker">>
LedgerChainAnchorer     == <<"worker">>
WebhookDeliverer        == <<"webhook", "webhook">>

SessionRequest    == <<"auth", "app", "app">>
ApiKeyRequest     == <<"app", "app">>
OnboardingRequest == <<"auth", "admin">>

\* checkReady and the relay's own SELECT 1, before anything is started.
Boot == <<"worker", "relay">>

Uses ==
  [relay |-> OutboxRelay, drift |-> ProjectionDriftWatcher,
   purge |-> TechnicalPurgeJob, inbox |-> InboxProcessor,
   attempts |-> AttemptsWatchdog, checkout |-> CheckoutSessionWatchdog,
   reconciliation |-> ReconciliationWatchdog, payouts |-> PayoutsWatchdog,
   redriver |-> PayoutsRedriver, disputes |-> DisputesWatchdog,
   idempotency |-> IdempotencyWatchdog, checkpointer |-> LedgerCheckpointer,
   anchorer |-> LedgerChainAnchorer, deliverer |-> WebhookDeliverer,
   session |-> SessionRequest, apiKey |-> ApiKeyRequest,
   onboarding |-> OnboardingRequest, main |-> Boot]

Requests == {"session", "apiKey", "onboarding"}
Jobs == DOMAIN Uses \ {"main"}
Running == enabled \cup {"main"}
IsApi == enabled \subseteq Requests

Pool(j) == Uses[j][step[j]]
Holders(p) == {j \in Running : at[j] = "holds" /\ Pool(j) = p}

\* Bug: the pool that was added for the inbox and the re-driver is forgotten.
EndedButOne == {"worker", "relay", "inbox", "webhook"}

EndedPools == {"worker", "relay", "inbox", "app", "webhook"}

ApiPools == {"app", "auth", "admin"}

Init ==
  /\ enabled \in {E \in (SUBSET Requests) \cup (SUBSET (Jobs \ Requests)) :
                    Cardinality(E) = JobsEnabled}
  /\ life = "up" /\ signalled = FALSE /\ ending = {}
  /\ timer = [j \in Jobs |-> FALSE] /\ stopped = [j \in Jobs |-> FALSE]
  /\ step = [j \in DOMAIN Uses |-> 1]
  /\ at = [j \in DOMAIN Uses |->
            IF j # "main" THEN "idle" ELSE IF IsApi THEN "listens" ELSE "asks"]

-----------------------------------------------------------------------------
(* Cycles and boot. *)

\* A cycle that fails is logged, and the next one tries again; a boot that
\* fails ends the process.
Fail(j) ==
  /\ at' = [at EXCEPT ![j] = "idle"] /\ step' = [step EXCEPT ![j] = 1]
  /\ life' = IF j = "main" THEN "failed" ELSE life
  /\ UNCHANGED timer

\* At the end of the boot every enabled job is started, unless it was stopped,
\* and the server accepts requests, unless it was closed.
Finish(j) ==
  /\ at' = [at EXCEPT ![j] = "idle"] /\ step' = [step EXCEPT ![j] = 1]
  /\ timer' = IF j = "main" THEN [k \in Jobs |-> k \in enabled /\ ~stopped[k]] ELSE timer
  /\ UNCHANGED life

\* The boot of the API is app.listen.
Listen ==
  /\ life = "up" /\ at["main"] = "listens"
  /\ Finish("main") \/ Fail("main")
  /\ UNCHANGED <<enabled, signalled, ending, stopped>>

\* The interval fires, or a request arrives.
Tick(j) ==
  /\ life = "up" /\ timer[j] /\ at[j] = "idle"
  /\ at' = [at EXCEPT ![j] = "asks"]
  /\ UNCHANGED <<enabled, life, signalled, ending, timer, stopped, step>>

Ask(j) ==
  /\ life = "up" /\ at[j] = "asks"
  /\ \/ Pool(j) \in ending /\ Fail(j)
     \/ /\ Pool(j) \notin ending
        /\ at' = [at EXCEPT ![j] =
                    IF Cardinality(Holders(Pool(j))) < Size THEN "holds" ELSE "queued"]
        /\ UNCHANGED <<life, timer, step>>
  /\ UNCHANGED <<enabled, signalled, ending, stopped>>

\* A pool that is ending serves nobody who waits.
Serve(j) ==
  /\ life = "up" /\ at[j] = "queued"
  /\ Pool(j) \notin ending /\ Cardinality(Holders(Pool(j))) < Size
  /\ at' = [at EXCEPT ![j] = "holds"]
  /\ UNCHANGED <<enabled, life, signalled, ending, timer, stopped, step>>

\* connectionTimeoutMillis, or a statement that fails.
Break(j) ==
  /\ life = "up" /\ at[j] \in {"queued", "holds"}
  /\ Fail(j)
  /\ UNCHANGED <<enabled, signalled, ending, stopped>>

Release(j) ==
  /\ life = "up" /\ at[j] = "holds"
  /\ \/ step[j] = Len(Uses[j]) /\ Finish(j)
     \/ /\ step[j] < Len(Uses[j])
        /\ step' = [step EXCEPT ![j] = @ + 1]
        /\ at' = [at EXCEPT ![j] = "asks"]
        /\ UNCHANGED <<life, timer>>
  /\ UNCHANGED <<enabled, signalled, ending, stopped>>

-----------------------------------------------------------------------------
(* shutdown. *)

\* Worker: every job is stopped and every pool told to end, in one turn of the
\* loop.  API: app.close, which accepts nothing more and waits.
Shutdown ==
  /\ life = "up" /\ ~signalled
  /\ signalled' = TRUE
  /\ stopped' = [j \in Jobs |-> TRUE] /\ timer' = [j \in Jobs |-> FALSE]
  /\ ending' = IF IsApi THEN {} ELSE EndedPools
  /\ UNCHANGED <<enabled, life, step, at>>

\* Bug: the pools are ended without waiting for app.close.
EndApiPoolsAtOnce ==
  /\ life = "up" /\ IsApi /\ signalled /\ ending = {}
  /\ ending' = ApiPools
  /\ UNCHANGED <<enabled, life, signalled, timer, stopped, step, at>>

\* app.close has returned.
EndApiPools ==
  /\ life = "up" /\ IsApi /\ signalled /\ ending = {}
  /\ \A j \in enabled : at[j] = "idle"
  /\ ending' = ApiPools
  /\ UNCHANGED <<enabled, life, signalled, timer, stopped, step, at>>

\* A second signal ends the pools of the worker again, which rejects, and
\* nobody catches it; the API returns, by shuttingDown.
ShutdownAgain ==
  /\ life = "up" /\ ~IsApi /\ signalled
  /\ life' = "crashed"
  /\ UNCHANGED <<enabled, signalled, ending, timer, stopped, step, at>>

Exit ==
  /\ life = "up" /\ ending # {} /\ \A p \in ending : Holders(p) = {}
  /\ life' = "exited"
  /\ UNCHANGED <<enabled, signalled, ending, timer, stopped, step, at>>

Next ==
  \/ \E j \in enabled : Tick(j)
  \/ \E j \in Running : Ask(j) \/ Serve(j) \/ Break(j) \/ Release(j)
  \/ Listen \/ Shutdown \/ EndApiPools \/ ShutdownAgain \/ Exit

\* Statements end, by their answer or by a timeout.  That some of them always
\* does is enough: after the signal no cycle and no request begins.
Fairness ==
  /\ WF_vars(\E j \in Running : Ask(j) \/ Break(j) \/ Release(j))
  /\ WF_vars(EndApiPools \/ Exit)

Spec == Init /\ [][Next]_vars /\ Fairness

-----------------------------------------------------------------------------
\* The process does not exit in the middle of a statement, ...
ExitIsClean == life = "exited" => \A j \in Running : at[j] # "holds"

\* ... a job that is stopped begins no other cycle, however boot and signal fall
\* together, ...
StoppedStays ==
  [][\A j \in Jobs : stopped[j] /\ at[j] = "idle" => at'[j] = "idle"]_vars

\* ... a request that was accepted finds its pools as they were, ...
RequestsAreServed ==
  \A j \in enabled \cap Requests : at[j] # "idle" => ending = {}

\* ... and whoever waits for the process to end does not wait for a job.
SignalEnds == signalled ~> life # "up"
=============================================================================
