------------------------------ MODULE Requests ------------------------------
(***************************************************************************)
(* Idempotent requests (packages/idempotency/src/index.ts) of the clients   *)
(* that share one key on one endpoint, the purge of expired keys            *)
(* (purge_technical_data, 0015) and the failures between them: a process    *)
(* that dies, a handler that throws, an answer that is lost.  The claim,    *)
(* the handler's effect and the stored response are one transaction.        *)
(***************************************************************************)
EXTENDS Integers, FiniteSets

CONSTANTS
  Clients,    \* clients that use the key, each until it has an answer
  Payloads,   \* request hashes they send
  MaxFaults   \* bound: crashes, handler errors, lost answers, purges

NoKey == [hash |-> "none"]

\* No request has the hash by which the absence of a row is told.
RequestsAssumption == NoKey.hash \notin Payloads

VARIABLES
  payload,  \* what each client sends, always the same
  client,   \* "idle", "claiming", "handler", "reading", "done"
  answer,   \* its last answer: a kind, and the effect a response describes
  key,      \* the committed row of idempotency_keys
  effects,  \* history: committed effects, each with its hash and key's life
  life,     \* history: keys purged so far
  faults    \* history: faults so far, for the bound

vars == <<payload, client, answer, key, effects, life, faults>>

Silence == [is |-> "none"]

Init ==
  /\ payload \in [Clients -> Payloads]
  /\ client = [c \in Clients |-> "idle"]
  /\ answer = [c \in Clients |-> Silence]
  /\ key = NoKey
  /\ effects = {}
  /\ life = 0
  /\ faults = 0

\* The claim of an open transaction: an INSERT of the key waits for it.
InFlight == \E c \in Clients : client[c] = "handler"

Answered(c, a) ==
  /\ client' = [client EXCEPT ![c] = IF a.is = "retry" THEN "idle" ELSE "done"]
  /\ answer' = [answer EXCEPT ![c] = a]

-----------------------------------------------------------------------------
\* FluviaClient.request: one request, with the key that the caller passes again
\* when it repeats the call.
Send(c) ==
  /\ client[c] = "idle"
  /\ client' = [client EXCEPT ![c] = "claiming"]
  /\ UNCHANGED <<payload, answer, key, effects, life, faults>>

\* Bug: a committed claim without a response is left behind by a crash.
ClaimCommits(c) ==
  /\ client[c] = "claiming"
  /\ ~InFlight
  /\ client' = [client EXCEPT ![c] = IF key = NoKey THEN "handler" ELSE "reading"]
  /\ key' = IF key = NoKey THEN [hash |-> payload[c], effect |-> {}] ELSE key
  /\ UNCHANGED <<payload, answer, effects, life, faults>>

\* INSERT ... ON CONFLICT DO NOTHING: the key is this transaction's, or it was
\* committed before.
Claim(c) ==
  /\ client[c] = "claiming"
  /\ ~InFlight
  /\ client' = [client EXCEPT ![c] = IF key = NoKey THEN "handler" ELSE "reading"]
  /\ UNCHANGED <<payload, answer, key, effects, life, faults>>

\* 55P03, the lock_timeout of the wait: 409, and the client tries again.
ClaimTimesOut(c) ==
  /\ client[c] = "claiming"
  /\ InFlight
  /\ Answered(c, [is |-> "retry"])
  /\ UNCHANGED <<payload, key, effects, life, faults>>

\* The handler's effect, the stored response and the commit.
Commit(c) ==
  LET effect == [hash |-> payload[c], life |-> life, by |-> c]
  IN /\ client[c] = "handler"
     /\ effects' = effects \cup {effect}
     /\ key' = [hash |-> payload[c], effect |-> {effect}]
     /\ Answered(c, [is |-> "response", effect |-> {effect}])
     /\ UNCHANGED <<payload, life, faults>>

\* Bug: whoever knows the key gets its response.
ReplayAnyway(c) == [is |-> "response", effect |-> key.effect]

\* The row of a committed key, read by a statement of its own: it may have
\* been purged since the INSERT met it, and that is answered as a reuse.
Replay(c) ==
  IF key.hash # payload[c] THEN [is |-> "reuse"]
  ELSE IF key.effect = {} THEN [is |-> "retry"]
  ELSE [is |-> "response", effect |-> key.effect]

Read(c) ==
  /\ client[c] = "reading"
  /\ Answered(c, Replay(c))
  /\ UNCHANGED <<payload, key, effects, life, faults>>

-----------------------------------------------------------------------------
Fault == faults < MaxFaults /\ faults' = faults + 1

\* The process dies, or the handler throws: the transaction is rolled back
\* and the client sends the request again.
RollBack(c) ==
  /\ Fault
  /\ client[c] \in {"claiming", "handler", "reading"}
  /\ client' = [client EXCEPT ![c] = "idle"]
  /\ UNCHANGED <<payload, answer, key, effects, life>>

\* The client never sees its answer and sends the request again.
LoseAnswer(c) ==
  /\ Fault
  /\ client[c] = "done"
  /\ client' = [client EXCEPT ![c] = "idle"]
  /\ answer' = [answer EXCEPT ![c] = Silence]
  /\ UNCHANGED <<payload, key, effects, life>>

\* The retention is over and purge_technical_data deletes the key.
Purge ==
  /\ Fault
  /\ key # NoKey
  /\ key' = NoKey
  /\ life' = life + 1
  /\ UNCHANGED <<payload, client, answer, effects>>

-----------------------------------------------------------------------------
Serve(c) == Send(c) \/ Claim(c) \/ ClaimTimesOut(c) \/ Commit(c) \/ Read(c)

Next ==
  \/ \E c \in Clients : Serve(c) \/ RollBack(c) \/ LoseAnswer(c)
  \/ Purge

\* Clients retry, and the transaction that holds the key's claim goes on.
Fairness == \A c \in Clients : WF_vars(Serve(c)) /\ WF_vars(Commit(c))

Spec == Init /\ [][Next]_vars /\ Fairness

-----------------------------------------------------------------------------
\* Within the retention of a key its effect is committed once, however many
\* requests race with it, die or are repeated, and every response, first or
\* replayed, describes the effect of the very request it answers.
EffectOncePerKey ==
  /\ \A e, f \in effects : e.life = f.life => e = f
  /\ \A c \in Clients : answer[c].is = "response" =>
       /\ answer[c].effect # {}
       /\ \A e \in answer[c].effect : e \in effects /\ e.hash = payload[c]

\* Everyone who keeps trying is told something final.
EveryoneIsAnswered == <>[](\A c \in Clients : client[c] = "done")
=============================================================================
