---------------------------- MODULE PostingEngine ----------------------------
(***************************************************************************)
(* LedgerService of packages/ledger, statement by statement: postOnce and   *)
(* its retries, reverseTransaction, verifyProjection and rebuildProjection  *)
(* as concurrent SQL transactions over PostgreSQL's locks and unique        *)
(* indexes, in READ COMMITTED.  Ledger makes a posting one atomic step;     *)
(* AtomicPosting below says that this code earns it.  An account has one    *)
(* bucket here, available, the only one the services use.                   *)
(***************************************************************************)
EXTENDS Ledger

CONSTANTS
  Callers,     \* requests in progress, each in its process
  Calls,       \* what they may ask for, a set of functions
  Rank,        \* order of the accounts' ids
  Auditors,    \* runs of verifyProjection or rebuildProjection
  Audited,     \* accounts they are run on
  MaxRetries,  \* options.maxRetries
  MaxAgain,    \* bound: times a caller repeats a request it has no answer to
  MaxAborts,   \* bound: transactions that time out, die or lose their answer
  None         \* reverses nothing

ASSUME EngineAssumption ==
  /\ Rank \in [Accounts -> Nat]
  /\ \A a, b \in Accounts : Rank[a] = Rank[b] => a = b
  /\ \A f \in Calls, c \in Callers :
       /\ DOMAIN f[c].legs \subseteq Accounts
       /\ \A a \in DOMAIN f[c].legs : f[c].legs[a] \in Int
  /\ Audited \subseteq Accounts
  /\ Callers \cap Auditors = {}
  /\ {MaxRetries, MaxAgain, MaxAborts} \subseteq Nat

VARIABLES
  call,     \* each caller's request: key, legs and the key it reverses
  posted,   \* ledger_transactions with their ledger_entries
  version,  \* balance_projections.version
  at,       \* how far each process is
  holds,    \* rows of ledger_accounts that its transaction has locked
  seen,     \* versions read, or the account and the sum an auditor recomputed
  retries,  \* attempts of postTransaction that were retried
  again,    \* calls repeated with the same key
  answer,   \* what each process returned
  aborts    \* transactions lost

engineVars == <<call, posted, version, at, holds, seen, retries, again, answer, aborts>>
vars == <<ledgerVars, engineVars>>

Processes == Callers \cup Auditors

Entry(c) == IF call[c].reverses = None THEN "claiming" ELSE "looking"

Init ==
  /\ LedgerInit
  /\ call \in Calls
  /\ posted = {}
  /\ version = [a \in Accounts |-> 0]
  /\ at = [p \in Processes |-> IF p \in Callers THEN Entry(p) ELSE "idle"]
  /\ holds = [p \in Processes |-> {}]
  /\ seen = [p \in Processes |-> <<>>]
  /\ retries = [c \in Callers |-> 0]
  /\ again = [c \in Callers |-> 0]
  /\ answer = [p \in Processes |-> "none"]
  /\ aborts = 0

-----------------------------------------------------------------------------
Transaction(key) == CHOOSE t \in posted : t.key = key

Reversals(key) == {t \in posted : t.reverses = key}

\* The caller's entries; those of a reversal mirror the original's, which is
\* committed and immutable once it was looked up.
Legs(c) ==
  IF call[c].reverses = None
    THEN call[c].legs
    ELSE LET original == Transaction(call[c].reverses).legs
         IN  [a \in DOMAIN original |-> -original[a]]

\* The process's transaction ends, its locks go, and it returns.
Return(p, result) ==
  /\ at' = [at EXCEPT ![p] = "returned"]
  /\ answer' = [answer EXCEPT ![p] = result]
  /\ holds' = [holds EXCEPT ![p] = {}]

GoTo(p, point) ==
  /\ at' = [at EXCEPT ![p] = point]
  /\ UNCHANGED <<holds, answer>>

\* Bug: a repeated reversal takes its own posting for another's.
LookUpAgain(c) ==
  LET key == call[c].reverses IN
  /\ at[c] = "looking"
  /\ IF key \notin journal \/ Transaction(key).reverses # None \/ Reversals(key) # {}
       THEN Return(c, "refused")
       ELSE GoTo(c, "claiming")
  /\ UNCHANGED <<ledgerVars, call, posted, version, seen, retries, again, aborts>>

\* reverseTransaction reads the original in a transaction of its own.
LookUp(c) ==
  LET key == call[c].reverses IN
  /\ at[c] = "looking"
  /\ IF \/ key \notin journal
        \/ Transaction(key).reverses # None
        \/ \E t \in Reversals(key) : t.key # call[c].key
       THEN Return(c, "refused")
       ELSE GoTo(c, "claiming")
  /\ UNCHANGED <<ledgerVars, call, posted, version, seen, retries, again, aborts>>

\* Rows of ledger_transactions inserted and not committed yet: an insert that
\* conflicts with one of them waits for its transaction.
InFlight(c) == at[c] \in {"locking", "locked", "read"}

Waits(c) ==
  \E d \in Callers \ {c} :
    /\ InFlight(d)
    /\ \/ call[d].key = call[c].key
       \/ call[c].reverses # None /\ call[d].reverses = call[c].reverses

\* Bug: a call goes on whose key was posted already.
ClaimAnyKey(c) ==
  /\ at[c] = "claiming"
  /\ ~Waits(c)
  /\ IF call[c].reverses # None /\ Reversals(call[c].reverses) # {}
       THEN Return(c, "refused")
       ELSE GoTo(c, "locking")
  /\ UNCHANGED <<ledgerVars, call, posted, version, seen, retries, again, aborts>>

\* INSERT ... ON CONFLICT (idempotency_key) DO NOTHING inserts the row, unless
\* the index ledger_transactions_reverses_once refuses it.
Claim(c) ==
  /\ at[c] = "claiming"
  /\ call[c].key \notin journal
  /\ ~Waits(c)
  /\ IF call[c].reverses # None /\ Reversals(call[c].reverses) # {}
       THEN Return(c, "refused")
       ELSE GoTo(c, "locking")
  /\ UNCHANGED <<ledgerVars, call, posted, version, seen, retries, again, aborts>>

\* Bug: the key alone makes a replay.
ReplayAnything(c) ==
  /\ at[c] = "claiming"
  /\ call[c].key \in journal
  /\ Return(c, "posted")
  /\ UNCHANGED <<ledgerVars, call, posted, version, seen, retries, again, aborts>>

\* The key exists: the entries and their cause decide between the original
\* posting and a conflict.
Replay(c) ==
  /\ at[c] = "claiming"
  /\ call[c].key \in journal
  /\ LET t == Transaction(call[c].key)
         same == t.reverses = call[c].reverses /\ t.legs = Legs(c)
     IN  Return(c, IF same THEN "posted" ELSE "conflict")
  /\ UNCHANGED <<ledgerVars, call, posted, version, seen, retries, again, aborts>>

Free(a) == \A p \in Processes : a \notin holds[p]

Missing(c) == DOMAIN Legs(c) \ holds[c]

\* Bug: the accounts are locked in the order of the entries.
NextLocksUnsorted(c) == Missing(c)

\* SELECT ... ORDER BY id FOR UPDATE.
NextLocks(c) == {a \in Missing(c) : \A b \in Missing(c) : Rank[a] <= Rank[b]}

LockAccount(c) ==
  /\ at[c] = "locking"
  /\ \E a \in NextLocks(c) :
       /\ Free(a)
       /\ holds' = [holds EXCEPT ![c] = @ \cup {a}]
       /\ at' = [at EXCEPT ![c] = IF Missing(c) = {a} THEN "locked" ELSE @]
  /\ UNCHANGED <<ledgerVars, call, posted, version, seen, retries, again, answer, aborts>>

ReadVersions(c) ==
  /\ at[c] = "locked"
  /\ seen' = [seen EXCEPT ![c] = [a \in DOMAIN Legs(c) |-> version[a]]]
  /\ GoTo(c, "read")
  /\ UNCHANGED <<ledgerVars, call, posted, version, retries, again, aborts>>

Current(c) == \A a \in DOMAIN seen[c] : seen[c][a] = version[a]

\* A retryable error rolls back, and postTransaction begins again.
Retry(c) ==
  /\ holds' = [holds EXCEPT ![c] = {}]
  /\ IF retries[c] < MaxRetries
       THEN /\ at' = [at EXCEPT ![c] = "claiming"]
            /\ retries' = [retries EXCEPT ![c] = @ + 1]
            /\ UNCHANGED answer
       ELSE /\ at' = [at EXCEPT ![c] = "returned"]
            /\ answer' = [answer EXCEPT ![c] = "exhausted"]
            /\ UNCHANGED retries

\* Entries, projections, outbox event and onPosted commit together; the
\* connection may be lost just then.
Commit(c) ==
  /\ at[c] = "read"
  /\ Current(c)
  /\ Post(call[c].key, Legs(c))
  /\ posted' = posted \cup
       {[key |-> call[c].key, legs |-> Legs(c), reverses |-> call[c].reverses]}
  /\ version' = [a \in Accounts |-> IF a \in DOMAIN Legs(c) THEN version[a] + 1 ELSE version[a]]
  /\ \/ Return(c, "posted") /\ UNCHANGED aborts
     \/ aborts < MaxAborts /\ aborts' = aborts + 1 /\ Return(c, "unknown")
  /\ UNCHANGED <<call, seen, retries, again>>

\* The update of the projections fails: a protected account would be
\* overdrawn, or a version moved (OptimisticLockError), which takes a writer
\* without the account's lock.
UpdateFails(c) ==
  /\ at[c] = "read"
  /\ IF Current(c)
       THEN ~Covered(Legs(c)) /\ Return(c, "insufficient") /\ UNCHANGED retries
       ELSE Retry(c)
  /\ UNCHANGED <<ledgerVars, call, posted, version, seen, again, aborts>>

\* lock_timeout while the transaction waits, for a row or for an account.
LockTimeout(c) ==
  /\ aborts < MaxAborts
  /\ \/ at[c] = "claiming" /\ Waits(c)
     \/ at[c] = "locking" /\ \A a \in NextLocks(c) : ~Free(a)
  /\ aborts' = aborts + 1
  /\ Retry(c)
  /\ UNCHANGED <<ledgerVars, call, posted, version, seen, again>>

\* The process dies or loses its connection, or onPosted throws.
Die(c) ==
  /\ aborts < MaxAborts
  /\ InFlight(c)
  /\ aborts' = aborts + 1
  /\ Return(c, "unknown")
  /\ UNCHANGED <<ledgerVars, call, posted, version, seen, retries, again>>

\* Its caller asks again with the same key.
Again(c) ==
  /\ answer[c] \in {"unknown", "exhausted"}
  /\ again[c] < MaxAgain
  /\ again' = [again EXCEPT ![c] = @ + 1]
  /\ retries' = [retries EXCEPT ![c] = 0]
  /\ answer' = [answer EXCEPT ![c] = "none"]
  /\ at' = [at EXCEPT ![c] = Entry(c)]
  /\ UNCHANGED <<ledgerVars, call, posted, version, holds, seen, aborts>>

-----------------------------------------------------------------------------
\* Bug: the auditor does not take the account's lock.
AuditUnlocked(p, a) ==
  /\ at[p] = "idle"
  /\ seen' = [seen EXCEPT ![p] = <<a>>]
  /\ at' = [at EXCEPT ![p] = "audit"]
  /\ UNCHANGED <<ledgerVars, call, posted, version, holds, retries, again, answer, aborts>>

\* verifyProjection and rebuildProjection lock the account ...
AuditLock(p, a) ==
  /\ at[p] = "idle"
  /\ Free(a)
  /\ holds' = [holds EXCEPT ![p] = {a}]
  /\ seen' = [seen EXCEPT ![p] = <<a>>]
  /\ at' = [at EXCEPT ![p] = "audit"]
  /\ UNCHANGED <<ledgerVars, call, posted, version, retries, again, answer, aborts>>

\* The opening balance and the account's entries, those on its natural side
\* added and the others taken away.
Increases(T, a) ==
  [t \in T |-> IF a \in DOMAIN t.legs /\ Delta(t.legs, a) > 0 THEN Delta(t.legs, a) ELSE 0]
Decreases(T, a) ==
  [t \in T |-> IF a \in DOMAIN t.legs /\ Delta(t.legs, a) < 0 THEN -Delta(t.legs, a) ELSE 0]

SumOf(T, a) ==
  OpeningBalance[a] + Total(Increases(T, a), T) - Total(Decreases(T, a), T)

\* ... sum its entries in one statement ...
Recompute(p) ==
  LET a == seen[p][1] IN
  /\ at[p] = "audit"
  /\ seen' = [seen EXCEPT ![p] = <<a, SumOf(posted, a)>>]
  /\ GoTo(p, "summed")
  /\ UNCHANGED <<ledgerVars, call, posted, version, retries, again, aborts>>

\* ... and compare the projection with the sum, or overwrite it.
Verify(p) ==
  /\ at[p] = "summed"
  /\ Return(p, IF balance[seen[p][1]] = seen[p][2] THEN "matches" ELSE "drift")
  /\ UNCHANGED <<ledgerVars, call, posted, version, seen, retries, again, aborts>>

Rebuild(p) ==
  LET a == seen[p][1] IN
  /\ at[p] = "summed"
  /\ balance' = [balance EXCEPT ![a] = seen[p][2]]
  /\ version' = [version EXCEPT ![a] = @ + 1]
  /\ Return(p, IF balance[a] = seen[p][2] THEN "matches" ELSE "drift")
  /\ UNCHANGED <<journal, call, posted, seen, retries, again, aborts>>

-----------------------------------------------------------------------------
Step(c) ==
  \/ LookUp(c) \/ Claim(c) \/ Replay(c) \/ LockAccount(c) \/ ReadVersions(c)
  \/ Commit(c) \/ UpdateFails(c)

AuditStep(p) == Recompute(p) \/ Verify(p) \/ Rebuild(p)

Next ==
  \/ \E c \in Callers : Step(c) \/ LockTimeout(c) \/ Die(c) \/ Again(c)
  \/ \E p \in Auditors : AuditStep(p) \/ \E a \in Audited : AuditLock(p, a)

\* Processes go on; neither a timeout nor the deadlock detector has to help.
Fairness ==
  /\ \A c \in Callers : WF_vars(Step(c))
  /\ \A p \in Auditors : WF_vars(AuditStep(p))

Spec == Init /\ [][Next]_vars

FairSpec == Spec /\ Fairness

-----------------------------------------------------------------------------
\* The atomic ledger that the payment modules are written over: a key is
\* posted once, never past a guard, a transaction is undone once, and neither
\* replays, retries nor rebuilds move a balance.
AtomicPosting ==
  /\ LedgerInit
  /\ [][\E c \in Callers :
          /\ call[c].reverses # None =>
               call[c].reverses \in journal /\ Reversals(call[c].reverses) = {}
          /\ Post(call[c].key, Legs(c))]_ledgerVars

\* The call's own posting is in the journal.
Done(c) ==
  \E t \in posted :
    t.key = call[c].key /\ t.reverses = call[c].reverses /\ t.legs = Legs(c)

\* There is nothing to undo: the original is absent, an undoing itself, or
\* undone under another key.
NothingToUndo(c) ==
  /\ call[c].reverses # None
  /\ \A t \in posted : t.key = call[c].reverses =>
       t.reverses # None \/ \E u \in Reversals(t.key) : u.key # call[c].key

\* The entries in the journal leave too little on a guarded account.
TooLittle(c) ==
  \E a \in Guarded(Legs(c)) : SumOf(posted, a) + Delta(Legs(c), a) < 0

\* What a caller was told stays true: "posted" means that exactly its entries
\* are in the journal, "conflict" that others are under its key.
AnswersStayTrue ==
  \A c \in Callers :
    LET mine == {t \in posted : t.key = call[c].key} IN
    /\ answer[c] = "posted" =>
         mine = {[key |-> call[c].key, legs |-> Legs(c), reverses |-> call[c].reverses]}
    /\ answer[c] = "conflict" =>
         \E t \in mine : t.reverses # call[c].reverses \/ t.legs # Legs(c)

\* A denial is true when it is given, although the answer to an earlier attempt
\* may be lost: nothing of the call was posted; "refused" means that there is
\* nothing to undo, "insufficient" that the journal does not cover it.
DenialIsTrue(c) ==
  /\ answer'[c] \in {"refused", "insufficient", "exhausted"} => ~Done(c)
  /\ answer'[c] = "refused" => NothingToUndo(c)
  /\ answer'[c] = "insufficient" => TooLittle(c)

\* What a caller is told is true, whoever did the work.
AnswersAreTrue ==
  /\ []AnswersStayTrue
  /\ [][\A c \in Callers : answer'[c] # answer[c] => DenialIsTrue(c)]_vars

\* An audit never reports a drift that is not there: no posting commits
\* between its two reads.
NoFalseDrift == \A p \in Auditors : answer[p] # "drift"

\* Every call is answered although calls share keys, accounts and originals:
\* locks in the order of ids never wait in a circle.
AllAnswered == []<>(\A c \in Callers : at[c] = "returned")
=============================================================================
