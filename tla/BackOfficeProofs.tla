-------------------------- MODULE BackOfficeProofs --------------------------
(***************************************************************************)
(* Proofs about the machines of MCBackOffice: that the SQL transactions of  *)
(* the ledger engine implement the atomic posting of Ledger and answer      *)
(* truly, that the hash chain verifies whenever one looks, that the         *)
(* reconciliation compares every line and books what was decided, and that  *)
(* a process ends between statements.  Each machine has its inductive       *)
(* invariant, EngineInv, ChainInv, ReportInv and ProcessInv; a step of the  *)
(* office is a step of one machine.                                         *)
(***************************************************************************)
EXTENDS MCBackOffice, LedgerProofs, WellFoundedInduction, Sequences
-----------------------------------------------------------------------------
(* The engine that posts. *)

Points == {"idle", "looking", "claiming", "locking", "locked", "read", "returned", "audit",
           "summed"}

EngineTypes ==
  /\ call \in Calls
  /\ at \in [Processes -> Points]
  /\ holds \in [Processes -> SUBSET Accounts]
  /\ seen = [p \in Processes |-> seen[p]]
  /\ answer = [p \in Processes |-> answer[p]]
  /\ balance \in [Accounts -> Int]
  /\ \A p \in Processes : at[p] # "returned" => answer[p] = "none"
  /\ \A p \in Auditors : at[p] \in {"idle", "audit", "summed", "returned"}

\* The journal is the set of the keys of what was posted, each posted once.
PostedOnce ==
  /\ IsFiniteSet(posted)
  /\ journal = {t.key : t \in posted}
  /\ \A t \in posted :
       /\ t = [key |-> t.key, legs |-> t.legs, reverses |-> t.reverses]
       /\ DOMAIN t.legs \subseteq Accounts
       /\ \A a \in DOMAIN t.legs : t.legs[a] \in Int
  /\ \A t, u \in posted : t.key = u.key => t = u

\* A reversal that is under way or was accepted has an original.
OriginalKnown ==
  \A c \in Callers :
    call[c].reverses # None /\ at[c] # "looking" /\ answer[c] # "refused"
      => call[c].reverses \in journal

\* A transaction in flight is alone with its key and its original.
AloneInFlight ==
  \A c \in Callers : InFlight(c) =>
    /\ call[c].key \notin journal
    /\ call[c].reverses # None => Reversals(call[c].reverses) = {}
    /\ \A d \in Callers : d # c /\ InFlight(d) =>
         /\ call[d].key # call[c].key
         /\ call[c].reverses # None => call[d].reverses # call[c].reverses

\* An account has one holder, and a posting holds its accounts before it reads.
LocksHeld ==
  /\ \A p, q \in Processes : p # q => holds[p] \cap holds[q] = {}
  /\ \A c \in Callers : at[c] \in {"locked", "read"} => DOMAIN Legs(c) \subseteq holds[c]

\* The projections are the sums of the entries, and what an auditor that holds
\* the account has summed is the sum still.
SumsAgree ==
  /\ \A a \in Accounts : balance[a] = SumOf(posted, a)
  /\ \A p \in Auditors :
       /\ at[p] \in {"audit", "summed"} => seen[p][1] \in Accounts /\ holds[p] = {seen[p][1]}
       /\ at[p] = "summed" => seen[p][2] = balance[seen[p][1]]

EngineInv ==
  /\ EngineTypes /\ PostedOnce /\ OriginalKnown /\ AloneInFlight /\ LocksHeld /\ SumsAgree
  /\ AnswersStayTrue /\ NoFalseDrift

LEMMA EngineInit == Init => EngineInv
<1> SUFFICES ASSUME Init PROVE EngineInv
  OBVIOUS
<1> USE EngineAssumption, OpeningAssumption DEF Init, LedgerInit, Processes
<1>1. EngineTypes
  BY DEF EngineTypes, Points, Entry
<1>2. PostedOnce
  BY FS_EmptySet DEF PostedOnce
<1>3. \A c \in Callers : call[c].reverses # None => at[c] = "looking"
  BY DEF Entry
<1>4. OriginalKnown /\ AloneInFlight /\ LocksHeld
  BY <1>3 DEF OriginalKnown, AloneInFlight, LocksHeld, InFlight, Entry
<1>5. SumsAgree
  <2>1. \A a \in Accounts : OpeningBalance[a] \in Int /\ SumOf({}, a) = OpeningBalance[a]
    BY TotalOfNone DEF SumOf
  <2> QED
    BY <2>1 DEF SumsAgree
<1>6. AnswersStayTrue /\ NoFalseDrift
  BY DEF AnswersStayTrue, NoFalseDrift
<1> QED
  BY <1>1, <1>2, <1>4, <1>5, <1>6 DEF EngineInv

\* What a caller may be told.
TrueAnswer(c, result) ==
  LET mine == {t \in posted : t.key = call[c].key} IN
  /\ result = "posted" =>
       mine = {[key |-> call[c].key, legs |-> Legs(c), reverses |-> call[c].reverses]}
  /\ result = "conflict" =>
       \E t \in mine : t.reverses # call[c].reverses \/ t.legs # Legs(c)

LEMMA AnswerByAnswer == AnswersStayTrue <=> \A c \in Callers : TrueAnswer(c, answer[c])
  BY DEF AnswersStayTrue, TrueAnswer

\* The claim of a key that nobody holds, for an original that nobody undid.
FreshClaim(c) ==
  /\ call[c].key \notin journal
  /\ ~Waits(c)
  /\ call[c].reverses # None => Reversals(call[c].reverses) = {}

\* A step of one process, which leaves the others where they are ...
Moves(c) ==
  /\ at' \in [Processes -> Points]
  /\ holds' \in [Processes -> SUBSET Accounts]
  /\ seen' = [p \in Processes |-> seen'[p]]
  /\ answer' = [p \in Processes |-> answer'[p]]
  /\ \A p \in Processes : p # c =>
       at'[p] = at[p] /\ holds'[p] = holds[p] /\ seen'[p] = seen[p] /\ answer'[p] = answer[p]

\* ... and after which this one holds and says what it may.
Sound(c) ==
  /\ \A p \in Processes : p # c => holds'[c] \cap holds[p] = {}
  /\ at'[c] # "returned" => answer'[c] = "none"
  /\ at'[c] \in {"locked", "read"} => DOMAIN Legs(c) \subseteq holds'[c]
  /\ call[c].reverses # None /\ at'[c] # "looking"
       => answer'[c] = "refused" \/ call[c].reverses \in journal
  /\ at'[c] \in {"locking", "locked", "read"} => InFlight(c) \/ FreshClaim(c)
  /\ TrueAnswer(c, answer'[c])

\* A caller goes on, and posts nothing.
LEMMA CallerMoves ==
  ASSUME EngineInv, UNCHANGED <<ledgerVars, call, posted>>, NEW c \in Callers,
         Moves(c), Sound(c)
  PROVE  EngineInv'
<1> USE DEF EngineInv, ledgerVars, Moves
<1>0. c \in Processes /\ c \notin Auditors /\ Auditors \subseteq Processes
  BY EngineAssumption DEF Processes
<1>2. \A d : Legs(d)' = Legs(d)
  BY DEF Legs, Transaction
<1>3. EngineTypes'
  BY <1>0 DEF EngineTypes, Sound
<1>4. PostedOnce'
  BY DEF PostedOnce
<1>5. OriginalKnown'
  BY <1>0 DEF OriginalKnown, Processes, Sound
<1>6. AloneInFlight'
  <2>1. \A d \in Callers : d # c => (InFlight(d)' <=> InFlight(d))
    BY <1>0 DEF InFlight, Processes
  <2>2. InFlight(c)' => InFlight(c) \/ FreshClaim(c)
    BY DEF InFlight, Sound
  <2>3. \A k : Reversals(k)' = Reversals(k)
    BY DEF Reversals
  <2>4. ASSUME InFlight(c)'
        PROVE  /\ call[c].key \notin journal
               /\ call[c].reverses # None => Reversals(call[c].reverses) = {}
               /\ \A d \in Callers : d # c /\ InFlight(d) =>
                    /\ call[d].key # call[c].key
                    /\ call[c].reverses # None => call[d].reverses # call[c].reverses
    <3>1. CASE InFlight(c)
      BY <3>1 DEF AloneInFlight
    <3>2. CASE FreshClaim(c)
      BY <3>2 DEF FreshClaim, Waits
    <3> QED
      BY <2>2, <2>4, <3>1, <3>2
  <2>5. ASSUME NEW d \in Callers, d # c, InFlight(d)
        PROVE  /\ call[d].key \notin journal
               /\ call[d].reverses # None => Reversals(call[d].reverses) = {}
               /\ \A e \in Callers : e # d /\ InFlight(e)' =>
                    /\ call[e].key # call[d].key
                    /\ call[d].reverses # None => call[e].reverses # call[d].reverses
    <3>1. /\ call[d].key \notin journal
          /\ call[d].reverses # None => Reversals(call[d].reverses) = {}
          /\ \A e \in Callers : e # d /\ InFlight(e) =>
               /\ call[e].key # call[d].key
               /\ call[d].reverses # None => call[e].reverses # call[d].reverses
      BY <2>5 DEF AloneInFlight
    <3>2. ASSUME InFlight(c)'
          PROVE  /\ call[c].key # call[d].key
                 /\ call[d].reverses # None => call[c].reverses # call[d].reverses
      BY <2>4, <2>5, <3>2
    <3> QED
      BY <2>1, <3>1, <3>2
  <2> QED
    BY <2>1, <2>3, <2>4, <2>5 DEF AloneInFlight
<1>7. LocksHeld'
  <2>1. \A p, q \in Processes : p # q => holds'[p] \cap holds'[q] = {}
    BY DEF LocksHeld, Sound
  <2>2. \A d \in Callers : at'[d] \in {"locked", "read"} => DOMAIN Legs(d)' \subseteq holds'[d]
    BY <1>0, <1>2 DEF LocksHeld, Processes, Sound
  <2> QED
    BY <2>1, <2>2 DEF LocksHeld
<1>8. SumsAgree'
  <2>1. \A a : SumOf(posted, a)' = SumOf(posted, a)
    BY DEF SumOf, Increases, Decreases
  <2> QED
    BY <1>0, <2>1 DEF SumsAgree
<1>9. AnswersStayTrue'
  <2>1. \A d \in Callers : TrueAnswer(d, answer'[d])
    BY AnswerByAnswer DEF Processes, Sound
  <2> QED
    BY <1>2, <2>1 DEF TrueAnswer, AnswersStayTrue
<1>10. NoFalseDrift'
  BY <1>0 DEF NoFalseDrift
<1> QED
  BY <1>3, <1>4, <1>5, <1>6, <1>7, <1>8, <1>9, <1>10

\* A key that was posted has its one transaction.
LEMMA PostedKey ==
  ASSUME PostedOnce, NEW key \in journal
  PROVE  /\ Transaction(key) \in posted /\ Transaction(key).key = key
         /\ {t \in posted : t.key = key} = {Transaction(key)}
         /\ Transaction(key) = [key |-> key, legs |-> Transaction(key).legs,
                                reverses |-> Transaction(key).reverses]
<1>1. \E t \in posted : t.key = key
  BY DEF PostedOnce
<1>2. Transaction(key) \in posted /\ Transaction(key).key = key
  BY <1>1 DEF Transaction
<1>3. \A t \in posted : t.key = key => t = Transaction(key)
  BY <1>2 DEF PostedOnce
<1> QED
  BY <1>2, <1>3 DEF PostedOnce

\* What a caller posts is entries of accounts.
LEMMA LegsType ==
  ASSUME EngineInv, NEW c \in Callers,
         call[c].reverses # None => call[c].reverses \in journal
  PROVE  DOMAIN Legs(c) \subseteq Accounts /\ \A a \in DOMAIN Legs(c) : Legs(c)[a] \in Int
<1>1. CASE call[c].reverses = None
  BY <1>1, EngineAssumption DEF EngineInv, EngineTypes, Legs
<1>2. CASE call[c].reverses # None
  <2>1. Transaction(call[c].reverses) \in posted
    BY <1>2, PostedKey DEF EngineInv
  <2>2. PICK original : original = Transaction(call[c].reverses).legs
    OBVIOUS
  <2>3. /\ DOMAIN original \subseteq Accounts
        /\ \A a \in DOMAIN original : original[a] \in Int
    BY <2>1, <2>2 DEF EngineInv, PostedOnce
  <2>4. Legs(c) = [a \in DOMAIN original |-> -original[a]]
    BY <1>2, <2>2 DEF Legs
  <2> QED
    BY <2>3, <2>4
<1> QED
  BY <1>1, <1>2

\* A caller's functions change at the caller only.
LEMMA CallerUpdates ==
  ASSUME EngineInv, NEW c \in Callers,
         at' = at \/ \E x \in Points : at' = [at EXCEPT ![c] = x],
         holds' = holds \/ \E x \in SUBSET Accounts : holds' = [holds EXCEPT ![c] = x],
         seen' = seen \/ \E x : seen' = [seen EXCEPT ![c] = x],
         answer' = answer \/ \E x : answer' = [answer EXCEPT ![c] = x]
  PROVE  Moves(c)
<1> USE DEF EngineInv, EngineTypes
<1>1. c \in Processes
  BY DEF Processes
<1>2. at' \in [Processes -> Points] /\ \A p \in Processes : p # c => at'[p] = at[p]
  BY <1>1
<1>3. /\ holds' \in [Processes -> SUBSET Accounts]
      /\ \A p \in Processes : p # c => holds'[p] = holds[p]
  BY <1>1
<1>4. /\ seen' = [p \in Processes |-> seen'[p]]
      /\ \A p \in Processes : p # c => seen'[p] = seen[p]
  BY <1>1
<1>5. /\ answer' = [p \in Processes |-> answer'[p]]
      /\ \A p \in Processes : p # c => answer'[p] = answer[p]
  BY <1>1
<1> QED
  BY <1>2, <1>3, <1>4, <1>5 DEF Moves

\* Where a caller stands.
LEMMA CallerFacts ==
  ASSUME EngineInv, NEW c \in Callers
  PROVE  /\ c \in Processes /\ c \in DOMAIN at /\ c \in DOMAIN holds /\ c \in DOMAIN answer
         /\ \A p \in Processes : p # c => holds[c] \cap holds[p] = {}
         /\ at[c] # "returned" => answer[c] = "none"
         /\ at[c] \notin {"looking", "returned"} /\ call[c].reverses # None
              => call[c].reverses \in journal
         /\ at[c] \in {"locked", "read"} => DOMAIN Legs(c) \subseteq holds[c]
         /\ TrueAnswer(c, answer[c])
<1> USE DEF EngineInv, EngineTypes
<1>1. c \in Processes
  BY DEF Processes
<1>2. /\ c \in DOMAIN at /\ c \in DOMAIN holds /\ c \in DOMAIN answer
      /\ at[c] # "returned" => answer[c] = "none"
  BY <1>1
<1>3. at[c] \notin {"looking", "returned"} /\ call[c].reverses # None
        => call[c].reverses \in journal
  BY <1>2 DEF OriginalKnown
<1>4. /\ \A p \in Processes : p # c => holds[c] \cap holds[p] = {}
      /\ at[c] \in {"locked", "read"} => DOMAIN Legs(c) \subseteq holds[c]
  BY <1>1 DEF LocksHeld
<1>5. TrueAnswer(c, answer[c])
  BY AnswerByAnswer
<1> QED
  BY <1>1, <1>2, <1>3, <1>4, <1>5

\* A caller's transaction ends.
LEMMA ReturnKeeps ==
  ASSUME EngineInv, NEW c \in Callers, NEW result, Return(c, result),
         UNCHANGED <<ledgerVars, call, posted, seen>>,
         at[c] \notin {"looking", "returned"} \/ result = "refused",
         TrueAnswer(c, result)
  PROVE  EngineInv'
<1>1. Moves(c)
  BY CallerUpdates DEF Return, Points
<1>2. at'[c] = "returned" /\ holds'[c] = {} /\ answer'[c] = result
  BY CallerFacts DEF Return
<1>3. Sound(c)
  BY <1>2, CallerFacts DEF Sound
<1> QED
  BY <1>1, <1>3, CallerMoves

\* A caller goes on with the locks it has.
LEMMA GoToKeeps ==
  ASSUME EngineInv, NEW c \in Callers, NEW point \in Points, GoTo(c, point),
         UNCHANGED <<ledgerVars, call, posted>>,
         seen' = seen \/ \E x : seen' = [seen EXCEPT ![c] = x],
         at[c] # "returned", point # "returned",
         point \in {"locked", "read"} => at[c] \in {"locked", "read"},
         call[c].reverses # None => call[c].reverses \in journal,
         point \in {"locking", "locked", "read"} => InFlight(c) \/ FreshClaim(c)
  PROVE  EngineInv'
<1>1. Moves(c)
  BY CallerUpdates DEF GoTo
<1>2. at'[c] = point /\ holds'[c] = holds[c] /\ answer'[c] = answer[c]
  BY CallerFacts DEF GoTo
<1>3. Sound(c)
  BY <1>2, CallerFacts DEF Sound
<1> QED
  BY <1>1, <1>3, CallerMoves

LEMMA RetryKeeps ==
  ASSUME EngineInv, NEW c \in Callers, Retry(c), at[c] \in {"claiming", "locking", "read"},
         UNCHANGED <<ledgerVars, call, posted, seen>>
  PROVE  EngineInv'
<1>1. Moves(c)
  BY CallerUpdates DEF Retry, Points
<1>2. /\ holds'[c] = {}
      /\ \/ at'[c] = "claiming" /\ answer'[c] = answer[c]
         \/ at'[c] = "returned" /\ answer'[c] = "exhausted"
  BY CallerFacts DEF Retry
<1>3. TrueAnswer(c, "exhausted")
  BY DEF TrueAnswer
<1>4. Sound(c)
  BY <1>2, <1>3, CallerFacts DEF Sound
<1> QED
  BY <1>1, <1>4, CallerMoves

LEMMA ReplayKeeps == ASSUME EngineInv, NEW c \in Callers, Replay(c) PROVE EngineInv'
<1>1. PICK t : t = Transaction(call[c].key)
  OBVIOUS
<1>2. /\ {u \in posted : u.key = call[c].key} = {t}
      /\ t = [key |-> call[c].key, legs |-> t.legs, reverses |-> t.reverses]
  BY <1>1, PostedKey DEF Replay, EngineInv
<1>3. at[c] = "claiming" /\ UNCHANGED <<ledgerVars, call, posted, seen>>
  BY DEF Replay
<1>4. CASE t.reverses = call[c].reverses /\ t.legs = Legs(c)
  <2>1. Return(c, "posted")
    BY <1>1, <1>4 DEF Replay
  <2>2. TrueAnswer(c, "posted")
    BY <1>2, <1>4 DEF TrueAnswer
  <2> QED
    BY <1>3, <2>1, <2>2, ReturnKeeps
<1>5. CASE ~(t.reverses = call[c].reverses /\ t.legs = Legs(c))
  <2>1. Return(c, "conflict")
    BY <1>1, <1>5 DEF Replay
  <2>2. TrueAnswer(c, "conflict")
    BY <1>2, <1>5 DEF TrueAnswer
  <2> QED
    BY <1>3, <2>1, <2>2, ReturnKeeps
<1> QED
  BY <1>4, <1>5

LEMMA LockKeeps == ASSUME EngineInv, NEW c \in Callers, LockAccount(c) PROVE EngineInv'
<1>1. PICK a \in NextLocks(c) :
        /\ Free(a)
        /\ holds' = [holds EXCEPT ![c] = holds[c] \cup {a}]
        /\ at' = [at EXCEPT ![c] = IF Missing(c) = {a} THEN "locked" ELSE at[c]]
  BY DEF LockAccount
<1>2. /\ at[c] = "locking" /\ UNCHANGED <<ledgerVars, call, posted, seen, answer>>
  BY DEF LockAccount
<1>3. call[c].reverses # None => call[c].reverses \in journal
  BY <1>2, CallerFacts
<1>4. a \in Accounts /\ holds[c] \in SUBSET Accounts
  BY <1>3, LegsType, CallerFacts DEF NextLocks, Missing, EngineInv, EngineTypes
<1>5. Moves(c)
  <2>1. \E x \in Points : at' = [at EXCEPT ![c] = x]
    BY <1>1, <1>2 DEF Points
  <2>2. \E x \in SUBSET Accounts : holds' = [holds EXCEPT ![c] = x]
    BY <1>1, <1>4
  <2> QED
    BY <1>2, <2>1, <2>2, CallerUpdates
<1>6. /\ holds'[c] = holds[c] \cup {a}
      /\ at'[c] = IF Missing(c) = {a} THEN "locked" ELSE "locking"
      /\ answer'[c] = "none"
  BY <1>1, <1>2, CallerFacts
<1>7. \A p \in Processes : p # c => holds'[c] \cap holds[p] = {}
  BY <1>1, <1>6, CallerFacts DEF Free
<1>8. at'[c] \in {"locked", "read"} => DOMAIN Legs(c) \subseteq holds'[c]
  BY <1>6 DEF Missing
<1>9. InFlight(c) /\ TrueAnswer(c, "none")
  BY <1>2 DEF InFlight, TrueAnswer
<1>10. Sound(c)
  BY <1>3, <1>6, <1>7, <1>8, <1>9 DEF Sound
<1> QED
  BY <1>2, <1>5, <1>10, CallerMoves

\* The steps of a caller that post nothing.
LEMMA QuietKeeps ==
  ASSUME EngineInv, NEW c \in Callers,
         \/ LookUp(c) \/ Claim(c) \/ Replay(c) \/ LockAccount(c) \/ ReadVersions(c)
         \/ UpdateFails(c) \/ LockTimeout(c) \/ Die(c) \/ Again(c)
  PROVE  EngineInv'
<1>0. \A result \in {"none", "refused", "unknown", "insufficient"} : TrueAnswer(c, result)
  BY DEF TrueAnswer
<1>1. CASE LookUp(c)
  <2>1. CASE Return(c, "refused")
    BY <1>0, <1>1, <2>1, ReturnKeeps DEF LookUp
  <2>2. CASE GoTo(c, "claiming") /\ call[c].reverses \in journal
    BY <1>1, <2>2, GoToKeeps DEF LookUp, Points
  <2> QED
    BY <1>1, <2>1, <2>2 DEF LookUp
<1>2. CASE Claim(c)
  <2>1. CASE Return(c, "refused")
    BY <1>0, <1>2, <2>1, ReturnKeeps DEF Claim
  <2>2. CASE GoTo(c, "locking") /\ FreshClaim(c)
    BY <1>2, <2>2, GoToKeeps, CallerFacts DEF Claim, Points
  <2> QED
    BY <1>2, <2>1, <2>2 DEF Claim, FreshClaim
<1>3. CASE ReadVersions(c)
  BY <1>3, GoToKeeps, CallerFacts DEF ReadVersions, Points, InFlight
<1>4. CASE UpdateFails(c)
  <2>1. CASE Return(c, "insufficient")
    BY <1>0, <1>4, <2>1, ReturnKeeps DEF UpdateFails
  <2>2. CASE Retry(c)
    BY <1>4, <2>2, RetryKeeps DEF UpdateFails
  <2> QED
    BY <1>4, <2>1, <2>2 DEF UpdateFails
<1>5. CASE LockTimeout(c)
  BY <1>5, RetryKeeps DEF LockTimeout
<1>6. CASE Die(c)
  BY <1>0, <1>6, ReturnKeeps DEF Die, InFlight
<1>7. CASE Again(c)
  <2>1. Moves(c)
    BY <1>7, CallerUpdates DEF Again, Points, Entry
  <2>2. at'[c] = Entry(c) /\ holds'[c] = holds[c] /\ answer'[c] = "none"
    BY <1>7, CallerFacts DEF Again
  <2>3. Sound(c)
    BY <1>0, <2>2, CallerFacts DEF Sound, Entry
  <2> QED
    BY <1>7, <2>1, <2>3, CallerMoves DEF Again
<1> QED
  BY <1>1, <1>2, <1>3, <1>4, <1>5, <1>6, <1>7, ReplayKeeps, LockKeeps

\* Transactions whose entries are of accounts.
Entered(T) ==
  \A t \in T : DOMAIN t.legs \subseteq Accounts /\ \A a \in DOMAIN t.legs : t.legs[a] \in Int

\* One transaction more adds its own entry to the sum of an account.
LEMMA SumOfOneMore ==
  ASSUME NEW T, IsFiniteSet(T), Entered(T), NEW n, n \notin T, Entered({n}), NEW a \in Accounts
  PROVE  /\ SumOf(T, a) \in Int
         /\ SumOf(T \cup {n}, a)
              = SumOf(T, a) + (IF a \in DOMAIN n.legs THEN Delta(n.legs, a) ELSE 0)
<1> DEFINE more == Increases(T \cup {n}, a)
           less == Decreases(T \cup {n}, a)
<1>1. \A t \in T \cup {n} : a \in DOMAIN t.legs => Delta(t.legs, a) \in Int
  BY DEF Entered, Delta
<1>2. /\ \A t \in T : more[t] = Increases(T, a)[t] /\ less[t] = Decreases(T, a)[t]
      /\ \A t \in T \cup {n} : more[t] \in Nat /\ less[t] \in Nat
      /\ more[n] - less[n] = IF a \in DOMAIN n.legs THEN Delta(n.legs, a) ELSE 0
  BY <1>1 DEF Increases, Decreases
<1>3. Total(more, T) = Total(Increases(T, a), T) /\ Total(less, T) = Total(Decreases(T, a), T)
  BY <1>2, TotalCongruence
<1>4. /\ Total(more, T \cup {n}) = Total(more, T) + more[n]
      /\ Total(less, T \cup {n}) = Total(less, T) + less[n]
      /\ Total(more, T) \in Nat /\ Total(less, T) \in Nat
  <2> HIDE DEF more, less
  <2>1. \A t \in T : more[t] \in Nat /\ less[t] \in Nat
    BY <1>2
  <2>2. more[n] \in Nat /\ less[n] \in Nat
    BY <1>2
  <2> QED
    BY <2>1, <2>2, TotalAdd, TotalType
<1>5. OpeningBalance[a] \in Int
  BY OpeningAssumption
<1>6. /\ SumOf(T \cup {n}, a) = OpeningBalance[a] + Total(more, T \cup {n}) - Total(less, T \cup {n})
      /\ SumOf(T, a) = OpeningBalance[a] + Total(more, T) - Total(less, T)
  BY <1>3 DEF SumOf
<1> HIDE DEF more, less
<1>7. SumOf(T, a) \in Int
  BY <1>4, <1>5, <1>6
<1>8. more[n] \in Int /\ less[n] \in Int
  BY <1>2
<1>9. SumOf(T \cup {n}, a) = SumOf(T, a) + (more[n] - less[n])
  BY <1>4, <1>5, <1>6, <1>8
<1> QED
  BY <1>2, <1>7, <1>9

\* The commit of a posting.
LEMMA CommitKeeps == ASSUME EngineInv, NEW c \in Callers, Commit(c) PROVE EngineInv'
<1> USE DEF EngineInv
<1>1. PICK n : n = [key |-> call[c].key, legs |-> Legs(c), reverses |-> call[c].reverses]
  OBVIOUS
<1>2. /\ at[c] = "read" /\ call[c].key \notin journal
      /\ balance' = Applied(Legs(c)) /\ journal' = journal \cup {call[c].key}
      /\ posted' = posted \cup {n}
      /\ UNCHANGED <<call, seen>>
  BY <1>1 DEF Commit, Post
<1>3. PICK result \in {"posted", "unknown"} : Return(c, result)
  BY DEF Commit
<1>4. /\ Moves(c)
      /\ at'[c] = "returned" /\ holds'[c] = {} /\ answer'[c] = result
  BY <1>2, <1>3, CallerUpdates, CallerFacts DEF Return, Points
<1>5. /\ c \in Processes /\ c \notin Auditors /\ Auditors \subseteq Processes
      /\ Callers \subseteq Processes
  BY EngineAssumption DEF Processes
<1>6. /\ call[c].reverses # None => call[c].reverses \in journal
      /\ DOMAIN Legs(c) \subseteq holds[c]
      /\ DOMAIN Legs(c) \subseteq Accounts
      /\ \A a \in DOMAIN Legs(c) : Legs(c)[a] \in Int
  BY <1>2, CallerFacts, LegsType
<1>7. EngineTypes'
  <2>1. balance' \in [Accounts -> Int]
    <3>1. \A a \in DOMAIN Legs(c) : Delta(Legs(c), a) \in Int
      BY <1>6 DEF Delta
    <3> QED
      BY <1>2, <3>1 DEF Applied, EngineTypes
  <2> QED
    BY <1>2, <1>4, <1>5, <2>1 DEF EngineTypes, Moves
<1>8. PostedOnce'
  <2>1. IsFiniteSet(posted')
    BY <1>2, FS_AddElement DEF PostedOnce
  <2>2. /\ n = [key |-> n.key, legs |-> n.legs, reverses |-> n.reverses]
        /\ n.key = call[c].key /\ n.legs = Legs(c) /\ n.reverses = call[c].reverses
    BY <1>1
  <2>3. \A t \in posted : t.key # n.key
    BY <1>2, <2>2 DEF PostedOnce
  <2> QED
    BY <1>2, <1>6, <2>1, <2>2, <2>3 DEF PostedOnce
<1>9. \A key \in journal : Transaction(key)' = Transaction(key)
  <2>1. ASSUME NEW key \in journal PROVE Transaction(key)' = Transaction(key)
    <3>1. Transaction(key) \in posted' /\ Transaction(key).key = key
      BY <1>2, PostedKey
    <3>2. \A t \in posted' : t.key = key => t = Transaction(key)
      BY <1>8, <3>1 DEF PostedOnce
    <3> QED
      BY <3>1, <3>2 DEF Transaction
  <2> QED
    BY <2>1
<1>10. ASSUME NEW d \in Callers, call[d].reverses # None => call[d].reverses \in journal
       PROVE  Legs(d)' = Legs(d)
  BY <1>2, <1>9, <1>10 DEF Legs
<1>11. OriginalKnown'
  BY <1>2, <1>4, <1>5, <1>6 DEF OriginalKnown, Moves
<1>12. AloneInFlight'
  <2>1. ~InFlight(c)' /\ \A d \in Callers : d # c => (InFlight(d)' <=> InFlight(d))
    BY <1>4, <1>5 DEF InFlight, Moves
  <2>2. InFlight(c)
    BY <1>2 DEF InFlight
  <2>3. ASSUME NEW d \in Callers, d # c, InFlight(d)
        PROVE  /\ call[d].key \notin journal'
               /\ call[d].reverses # None => Reversals(call[d].reverses)' = {}
    <3>1. /\ call[d].key \notin journal /\ call[d].key # call[c].key
          /\ call[d].reverses # None =>
               Reversals(call[d].reverses) = {} /\ call[d].reverses # call[c].reverses
      BY <2>2, <2>3 DEF AloneInFlight
    <3>2. n.reverses = call[c].reverses
      BY <1>1
    <3> QED
      BY <1>2, <3>1, <3>2 DEF Reversals
  <2>4. \A d, e \in Callers : d # e /\ InFlight(d) /\ InFlight(e) =>
          /\ call[e].key # call[d].key
          /\ call[d].reverses # None => call[e].reverses # call[d].reverses
    BY DEF AloneInFlight
  <2> QED
    BY <1>2, <2>1, <2>3, <2>4 DEF AloneInFlight
<1>13. LocksHeld'
  <2>1. \A p, q \in Processes : p # q => holds'[p] \cap holds'[q] = {}
    BY <1>4 DEF LocksHeld, Moves
  <2>2. ASSUME NEW d \in Callers, at'[d] \in {"locked", "read"}
        PROVE  DOMAIN Legs(d)' \subseteq holds'[d]
    <3>1. d # c /\ at'[d] = at[d] /\ holds'[d] = holds[d]
      BY <1>4, <1>5, <2>2 DEF Moves
    <3>2. /\ call[d].reverses # None => call[d].reverses \in journal
          /\ DOMAIN Legs(d) \subseteq holds[d]
      BY <2>2, <3>1, CallerFacts
    <3> QED
      BY <1>10, <3>1, <3>2
  <2> QED
    BY <2>1, <2>2 DEF LocksHeld
<1>14. SumsAgree'
  <2>1. Entered(posted) /\ Entered({n}) /\ IsFiniteSet(posted) /\ n \notin posted /\ n.legs = Legs(c)
    <3>1. n.legs = Legs(c) /\ n.key = call[c].key
      BY <1>1
    <3> QED
      BY <1>2, <1>6, <3>1 DEF Entered, PostedOnce
  <2>2. \A a \in Accounts : balance[a] = SumOf(posted, a)
    BY DEF SumsAgree
  <2>3. ASSUME NEW a \in Accounts PROVE balance'[a] = SumOf(posted', a)
    <3>1. SumOf(posted', a)
            = SumOf(posted, a) + (IF a \in DOMAIN Legs(c) THEN Delta(Legs(c), a) ELSE 0)
      BY <1>2, <2>1, SumOfOneMore
    <3>2. balance[a] = SumOf(posted, a) /\ SumOf(posted, a) \in Int
      BY <2>1, <2>2, SumOfOneMore
    <3>3. balance'[a] = IF a \in DOMAIN Legs(c) THEN balance[a] + Delta(Legs(c), a) ELSE balance[a]
      BY <1>2 DEF Applied
    <3> QED
      BY <3>1, <3>2, <3>3
  <2>4. ASSUME NEW p \in Auditors
        PROVE  /\ at'[p] \in {"audit", "summed"} =>
                    seen'[p][1] \in Accounts /\ holds'[p] = {seen'[p][1]}
               /\ at'[p] = "summed" => seen'[p][2] = balance'[seen'[p][1]]
    <3>1. p # c /\ at'[p] = at[p] /\ holds'[p] = holds[p] /\ seen'[p] = seen[p]
      BY <1>4, <1>5 DEF Moves
    <3>2. at[p] \in {"audit", "summed"} =>
            /\ seen[p][1] \in Accounts /\ holds[p] = {seen[p][1]}
            /\ seen[p][1] \notin DOMAIN Legs(c)
      BY <1>5, <1>6, <3>1 DEF SumsAgree, LocksHeld
    <3>3. at[p] = "summed" => seen[p][2] = balance[seen[p][1]]
      BY DEF SumsAgree
    <3>4. \A a \in Accounts : a \notin DOMAIN Legs(c) => balance'[a] = balance[a]
      BY <1>2 DEF Applied
    <3> QED
      BY <3>1, <3>2, <3>3, <3>4
  <2>5. \A a \in Accounts : SumOf(posted, a)' = SumOf(posted', a)
    BY DEF SumOf, Increases, Decreases
  <2> QED
    BY <2>3, <2>4, <2>5 DEF SumsAgree
<1>15. AnswersStayTrue'
  <2>1. ASSUME NEW d \in Callers, d # c, answer'[d] \in {"posted", "conflict"}
        PROVE  /\ {t \in posted' : t.key = call[d].key} = {t \in posted : t.key = call[d].key}
               /\ answer'[d] = answer[d] /\ Legs(d)' = Legs(d)
    <3>1. answer'[d] = answer[d] /\ at[d] = "returned" /\ TrueAnswer(d, answer[d])
      BY <1>4, <1>5, <2>1, CallerFacts DEF Moves
    <3>2. \E t \in posted : t.key = call[d].key
      BY <2>1, <3>1 DEF TrueAnswer
    <3>3. call[d].key # n.key
      BY <1>1, <1>2, <3>2 DEF PostedOnce
    <3>4. call[d].reverses # None => call[d].reverses \in journal
      BY <2>1, <3>1 DEF OriginalKnown
    <3> QED
      BY <1>2, <1>10, <3>1, <3>3, <3>4
  <2>2. {t \in posted' : t.key = call[c].key} = {n} /\ Legs(c)' = Legs(c)
    BY <1>1, <1>2, <1>6, <1>10 DEF PostedOnce
  <2>3. \A d \in Callers : TrueAnswer(d, answer[d])
    BY AnswerByAnswer
  <2>4. ASSUME NEW d \in Callers
        PROVE  LET mine == {t \in posted' : t.key = call[d].key} IN
               /\ answer'[d] = "posted" =>
                    mine = {[key |-> call[d].key, legs |-> Legs(d)', reverses |-> call[d].reverses]}
               /\ answer'[d] = "conflict" =>
                    \E t \in mine : t.reverses # call[d].reverses \/ t.legs # Legs(d)'
    <3>1. CASE d = c
      BY <1>1, <1>4, <2>2, <3>1
    <3>2. CASE d # c /\ answer'[d] \in {"posted", "conflict"}
      BY <2>1, <2>3, <3>2 DEF TrueAnswer
    <3> QED
      BY <3>1, <3>2
  <2> QED
    BY <1>2, <2>4 DEF AnswersStayTrue
<1>16. NoFalseDrift'
  BY <1>4, <1>5 DEF NoFalseDrift, Moves
<1> QED
  BY <1>7, <1>8, <1>11, <1>12, <1>13, <1>14, <1>15, <1>16

\* What an auditor that has the account knows.
AuditSound(p) ==
  /\ at'[p] \in {"audit", "summed", "returned"}
  /\ \A q \in Processes : q # p => holds'[p] \cap holds[q] = {}
  /\ at'[p] # "returned" => answer'[p] = "none"
  /\ answer'[p] # "drift"
  /\ at'[p] \in {"audit", "summed"} =>
       seen'[p][1] \in Accounts /\ holds'[p] = {seen'[p][1]}
  /\ at'[p] = "summed" => seen'[p][2] = balance[seen'[p][1]]

LEMMA AuditorMoves ==
  ASSUME EngineInv, UNCHANGED <<ledgerVars, call, posted>>, NEW p \in Auditors,
         Moves(p), AuditSound(p)
  PROVE  EngineInv'
<1> USE DEF EngineInv, ledgerVars, Moves, AuditSound
<1>0. p \in Processes /\ p \notin Callers /\ Auditors \subseteq Processes /\ Callers \subseteq Processes
  BY EngineAssumption DEF Processes
<1>1. \A c \in Callers : c # p /\ at'[c] = at[c] /\ holds'[c] = holds[c] /\ answer'[c] = answer[c]
  BY <1>0
<1>2. \A c : Legs(c)' = Legs(c)
  BY DEF Legs, Transaction
<1>3. EngineTypes'
  BY <1>0 DEF EngineTypes
<1>4. PostedOnce'
  BY DEF PostedOnce
<1>5. OriginalKnown'
  BY <1>1 DEF OriginalKnown
<1>6. AloneInFlight'
  <2>1. \A c \in Callers : InFlight(c)' <=> InFlight(c)
    BY <1>1 DEF InFlight
  <2>2. \A k : Reversals(k)' = Reversals(k)
    BY DEF Reversals
  <2> QED
    BY <2>1, <2>2 DEF AloneInFlight
<1>7. LocksHeld'
  <2>1. \A q, r \in Processes : q # r => holds'[q] \cap holds'[r] = {}
    BY <1>0 DEF LocksHeld
  <2>2. \A c \in Callers : at'[c] \in {"locked", "read"} => DOMAIN Legs(c)' \subseteq holds'[c]
    BY <1>1, <1>2 DEF LocksHeld
  <2> QED
    BY <2>1, <2>2 DEF LocksHeld
<1>8. SumsAgree'
  <2>1. \A a : SumOf(posted, a)' = SumOf(posted, a)
    BY DEF SumOf, Increases, Decreases
  <2>2. \A q \in Auditors :
          /\ at'[q] \in {"audit", "summed"} =>
               seen'[q][1] \in Accounts /\ holds'[q] = {seen'[q][1]}
          /\ at'[q] = "summed" => seen'[q][2] = balance[seen'[q][1]]
    BY <1>0 DEF SumsAgree
  <2> QED
    BY <2>1, <2>2 DEF SumsAgree
<1>9. AnswersStayTrue'
  BY <1>1, <1>2 DEF AnswersStayTrue
<1>10. NoFalseDrift'
  BY <1>0 DEF NoFalseDrift
<1> QED
  BY <1>3, <1>4, <1>5, <1>6, <1>7, <1>8, <1>9, <1>10

\* Where an auditor stands.
LEMMA AuditorFacts ==
  ASSUME EngineInv, NEW p \in Auditors
  PROVE  /\ p \in Processes /\ p \in DOMAIN at /\ p \in DOMAIN holds /\ p \in DOMAIN seen
         /\ p \in DOMAIN answer
         /\ \A q \in Processes : q # p => holds[p] \cap holds[q] = {}
         /\ at[p] # "returned" => answer[p] = "none"
         /\ at[p] \in {"audit", "summed"} =>
              seen[p][1] \in Accounts /\ holds[p] = {seen[p][1]}
         /\ at[p] = "summed" => seen[p][2] = balance[seen[p][1]]
         /\ \A a \in Accounts : balance[a] = SumOf(posted, a)
<1> USE DEF EngineInv, EngineTypes
<1>1. p \in Processes
  BY DEF Processes
<1>2. /\ p \in DOMAIN at /\ p \in DOMAIN holds /\ p \in DOMAIN seen /\ p \in DOMAIN answer
      /\ at[p] # "returned" => answer[p] = "none"
  BY <1>1
<1>3. \A q \in Processes : q # p => holds[p] \cap holds[q] = {}
  BY <1>1 DEF LocksHeld
<1> QED
  BY <1>1, <1>2, <1>3 DEF SumsAgree

\* An auditor's functions change at the auditor only.
LEMMA AuditorUpdates ==
  ASSUME EngineInv, NEW p \in Auditors,
         \E x \in Points : at' = [at EXCEPT ![p] = x],
         holds' = holds \/ \E x \in SUBSET Accounts : holds' = [holds EXCEPT ![p] = x],
         seen' = seen \/ \E x : seen' = [seen EXCEPT ![p] = x],
         answer' = answer \/ \E x : answer' = [answer EXCEPT ![p] = x]
  PROVE  Moves(p)
<1> USE DEF EngineInv, EngineTypes
<1>1. p \in Processes
  BY DEF Processes
<1>2. at' \in [Processes -> Points] /\ \A q \in Processes : q # p => at'[q] = at[q]
  BY <1>1
<1>3. /\ holds' \in [Processes -> SUBSET Accounts]
      /\ \A q \in Processes : q # p => holds'[q] = holds[q]
  BY <1>1
<1>4. /\ seen' = [q \in Processes |-> seen'[q]]
      /\ \A q \in Processes : q # p => seen'[q] = seen[q]
  BY <1>1
<1>5. /\ answer' = [q \in Processes |-> answer'[q]]
      /\ \A q \in Processes : q # p => answer'[q] = answer[q]
  BY <1>1
<1> QED
  BY <1>2, <1>3, <1>4, <1>5 DEF Moves

\* A rebuild overwrites the projection with what it is.
LEMMA RebuildKeepsBalances ==
  ASSUME EngineInv, NEW p \in Auditors, Rebuild(p)
  PROVE  UNCHANGED ledgerVars /\ Return(p, "matches")
<1>1. at[p] = "summed"
  BY DEF Rebuild
<1>2. PICK a \in Accounts : a = seen[p][1] /\ seen[p][2] = balance[a]
  BY <1>1, AuditorFacts
<1>3. balance' = [balance EXCEPT ![a] = balance[a]]
  BY <1>2 DEF Rebuild
<1>4. balance' = balance
  BY <1>2, <1>3 DEF EngineInv, EngineTypes
<1> QED
  BY <1>2, <1>4 DEF Rebuild, ledgerVars

LEMMA AuditKeeps ==
  ASSUME EngineInv, NEW p \in Auditors, AuditStep(p) \/ \E a \in Audited : AuditLock(p, a)
  PROVE  EngineInv'
<1>1. CASE \E a \in Audited : AuditLock(p, a)
  <2>1. PICK a \in Audited : AuditLock(p, a)
    BY <1>1
  <2>2. a \in Accounts
    BY EngineAssumption
  <2>3. Moves(p)
    BY <2>1, <2>2, AuditorUpdates DEF AuditLock, Points
  <2>4. /\ at'[p] = "audit" /\ holds'[p] = {a} /\ seen'[p] = <<a>> /\ answer'[p] = "none"
    BY <2>1, AuditorFacts DEF AuditLock
  <2>5. \A q \in Processes : q # p => holds'[p] \cap holds[q] = {}
    BY <2>1, <2>4 DEF AuditLock, Free
  <2>6. AuditSound(p)
    BY <2>2, <2>4, <2>5 DEF AuditSound
  <2> QED
    BY <2>1, <2>3, <2>6, AuditorMoves DEF AuditLock
<1>2. CASE Recompute(p)
  <2>1. PICK a \in Accounts : a = seen[p][1] /\ holds[p] = {a}
    BY <1>2, AuditorFacts DEF Recompute
  <2>2. seen' = [seen EXCEPT ![p] = <<a, balance[a]>>]
    BY <1>2, <2>1, AuditorFacts DEF Recompute
  <2>3. Moves(p)
    BY <1>2, <2>2, AuditorUpdates DEF Recompute, GoTo, Points
  <2>4. at'[p] = "summed" /\ holds'[p] = holds[p] /\ answer'[p] = "none"
    BY <1>2, AuditorFacts DEF Recompute, GoTo
  <2>5. seen'[p] = <<a, balance[a]>>
    BY <2>2, AuditorFacts
  <2>6. AuditSound(p)
    BY <2>1, <2>4, <2>5, AuditorFacts DEF AuditSound
  <2> QED
    BY <1>2, <2>3, <2>6, AuditorMoves DEF Recompute
<1>3. CASE Verify(p) \/ Rebuild(p)
  <2>1. Return(p, "matches") /\ UNCHANGED <<ledgerVars, call, posted, seen>>
    BY <1>3, AuditorFacts, RebuildKeepsBalances DEF Verify, Rebuild
  <2>2. Moves(p)
    BY <2>1, AuditorUpdates DEF Return, Points
  <2>3. at'[p] = "returned" /\ holds'[p] = {} /\ answer'[p] = "matches"
    BY <2>1, AuditorFacts DEF Return
  <2>4. AuditSound(p)
    BY <2>3 DEF AuditSound
  <2> QED
    BY <2>1, <2>2, <2>4, AuditorMoves
<1> QED
  BY <1>1, <1>2, <1>3 DEF AuditStep

LEMMA EngineStep == EngineInv /\ [Next]_vars => EngineInv'
<1> SUFFICES ASSUME EngineInv, [Next]_vars PROVE EngineInv'
  OBVIOUS
<1>1. CASE UNCHANGED vars
  <2>1. \A c : Legs(c)' = Legs(c)
    BY <1>1 DEF Legs, Transaction, vars, ledgerVars, engineVars
  <2>2. \A a : SumOf(posted, a)' = SumOf(posted, a)
    BY <1>1 DEF SumOf, Increases, Decreases, vars, engineVars
  <2>3. \A k : Reversals(k)' = Reversals(k)
    BY <1>1 DEF Reversals, vars, engineVars
  <2> USE <1>1 DEF EngineInv, vars, ledgerVars, engineVars
  <2>4. EngineTypes' /\ PostedOnce' /\ OriginalKnown' /\ NoFalseDrift'
    BY DEF EngineTypes, PostedOnce, OriginalKnown, NoFalseDrift
  <2>5. AloneInFlight'
    BY <2>3 DEF AloneInFlight, InFlight
  <2>6. LocksHeld' /\ AnswersStayTrue'
    BY <2>1 DEF LocksHeld, AnswersStayTrue
  <2>7. SumsAgree'
    BY <2>2 DEF SumsAgree
  <2> QED
    BY <2>4, <2>5, <2>6, <2>7
<1>2. ASSUME NEW c \in Callers, Step(c) \/ LockTimeout(c) \/ Die(c) \/ Again(c)
      PROVE  EngineInv'
  BY <1>2, QuietKeeps, CommitKeeps DEF Step
<1>3. ASSUME NEW p \in Auditors, AuditStep(p) \/ \E a \in Audited : AuditLock(p, a)
      PROVE  EngineInv'
  BY <1>3, AuditKeeps
<1> QED
  BY <1>1, <1>2, <1>3 DEF Next

\* A step that moves the ledger is a posting that no reversal forestalls.
LEMMA EngineMovesLedger ==
  ASSUME EngineInv, [Next]_vars
  PROVE  \/ UNCHANGED ledgerVars
         \/ \E c \in Callers :
              /\ call[c].reverses # None =>
                   call[c].reverses \in journal /\ Reversals(call[c].reverses) = {}
              /\ Post(call[c].key, Legs(c))
<1>1. CASE UNCHANGED vars
  BY <1>1 DEF vars
<1>2. ASSUME NEW c \in Callers, Commit(c)
      PROVE  /\ call[c].reverses # None =>
                  call[c].reverses \in journal /\ Reversals(call[c].reverses) = {}
             /\ Post(call[c].key, Legs(c))
  <2>1. at[c] = "read" /\ Post(call[c].key, Legs(c))
    BY <1>2 DEF Commit
  <2>2. call[c].reverses # None => call[c].reverses \in journal
    BY <2>1, CallerFacts
  <2>3. call[c].reverses # None => Reversals(call[c].reverses) = {}
    BY <2>1 DEF EngineInv, AloneInFlight, InFlight
  <2> QED
    BY <2>1, <2>2, <2>3
<1>3. ASSUME NEW c \in Callers, Step(c) \/ LockTimeout(c) \/ Die(c) \/ Again(c), ~Commit(c)
      PROVE  UNCHANGED ledgerVars
  BY <1>3 DEF Step, LookUp, Claim, Replay, LockAccount, ReadVersions, UpdateFails,
              LockTimeout, Die, Again
<1>4. ASSUME NEW p \in Auditors, AuditStep(p) \/ \E a \in Audited : AuditLock(p, a)
      PROVE  UNCHANGED ledgerVars
  BY <1>4, RebuildKeepsBalances DEF AuditStep, AuditLock, Recompute, Verify
<1> QED
  BY <1>1, <1>2, <1>3, <1>4 DEF Next

\* What was undone is a posting that undoes nothing, and was undone once; and
\* a caller that goes on has such a posting to undo.
UndoneOnce ==
  /\ \A t \in posted : t.reverses # None =>
       \E o \in posted :
         o.key = t.reverses /\ o.reverses = None /\ \A u \in Reversals(o.key) : u = t
  /\ \A c \in Callers :
       /\ at[c] = "looking" => call[c].reverses # None
       /\ at[c] \notin {"looking", "returned"} /\ call[c].reverses # None =>
            \E o \in posted : o.key = call[c].reverses /\ o.reverses = None

LEMMA UndoneInit == Init => UndoneOnce
  BY DEF Init, UndoneOnce, Entry, Processes

\* Where a step takes a caller, and whom it tells something.
LEMMA OneCallerMoves ==
  ASSUME EngineInv, NEW c \in Callers,
         Step(c) \/ LockTimeout(c) \/ Die(c) \/ Again(c)
  PROVE  \A d \in Callers : d # c => at'[d] = at[d] /\ answer'[d] = answer[d]
<1>1. /\ at' = at \/ \E x : at' = [at EXCEPT ![c] = x]
      /\ answer' = answer \/ \E x : answer' = [answer EXCEPT ![c] = x]
  <2>1. CASE Step(c)
    BY <2>1 DEF Step, LookUp, Claim, Replay, LockAccount, ReadVersions, Commit, UpdateFails,
                Return, GoTo, Retry
  <2>2. CASE LockTimeout(c) \/ Die(c) \/ Again(c)
    BY <2>2 DEF LockTimeout, Die, Again, Return, Retry
  <2> QED
    BY <2>1, <2>2
<1> QED
  BY <1>1, CallerFacts

LEMMA NoCallerMoves ==
  ASSUME EngineInv, NEW p \in Auditors, AuditStep(p) \/ \E a \in Audited : AuditLock(p, a)
  PROVE  /\ UNCHANGED <<call, posted>>
         /\ \A d \in Callers : at'[d] = at[d] /\ answer'[d] = answer[d]
<1>1. /\ \E x : at' = [at EXCEPT ![p] = x]
      /\ answer' = answer \/ \E x : answer' = [answer EXCEPT ![p] = x]
      /\ UNCHANGED <<call, posted>>
  BY DEF AuditStep, AuditLock, Recompute, Verify, Rebuild, Return, GoTo
<1>2. \A d \in Callers : d # p
  BY EngineAssumption
<1> QED
  BY <1>1, <1>2, CallerFacts

\* A caller's point of a step that posts nothing.
LEMMA QuietPoint ==
  ASSUME EngineInv, UndoneOnce, NEW c \in Callers,
         \/ LookUp(c) \/ Claim(c) \/ Replay(c) \/ LockAccount(c) \/ ReadVersions(c)
         \/ UpdateFails(c) \/ LockTimeout(c) \/ Die(c) \/ Again(c)
  PROVE  /\ at'[c] = "looking" => call[c].reverses # None
         /\ at'[c] \notin {"looking", "returned"} /\ call[c].reverses # None =>
              \E o \in posted : o.key = call[c].reverses /\ o.reverses = None
<1>0. c \in DOMAIN at
  BY CallerFacts
<1>1. CASE LookUp(c)
  <2>1. at'[c] \in {"returned", "claiming"}
    BY <1>0, <1>1 DEF LookUp, Return, GoTo
  <2>2. ASSUME at'[c] = "claiming"
        PROVE  \E o \in posted : o.key = call[c].reverses /\ o.reverses = None
    <3>1. /\ call[c].reverses \in journal
          /\ Transaction(call[c].reverses).reverses = None
      BY <1>0, <1>1, <2>2 DEF LookUp, Return
    <3> QED
      BY <3>1, PostedKey DEF EngineInv
  <2> QED
    BY <2>1, <2>2
<1>2. CASE at[c] \notin {"looking", "returned"} /\ at'[c] # "looking"
  BY <1>2 DEF UndoneOnce
<1>3. CASE Again(c)
  BY <1>0, <1>3 DEF Again, Entry
<1>4. CASE Claim(c) \/ Replay(c) \/ LockAccount(c) \/ ReadVersions(c)
  BY <1>0, <1>2, <1>4 DEF Claim, Replay, LockAccount, ReadVersions, Return, GoTo
<1>5. CASE UpdateFails(c) \/ LockTimeout(c) \/ Die(c)
  BY <1>0, <1>2, <1>5 DEF UpdateFails, LockTimeout, Die, InFlight, Return, Retry
<1> QED
  BY <1>1, <1>3, <1>4, <1>5

LEMMA UndoneStep == EngineInv /\ UndoneOnce /\ [Next]_vars => UndoneOnce'
<1> SUFFICES ASSUME EngineInv, UndoneOnce, [Next]_vars PROVE UndoneOnce'
  OBVIOUS
<1>1. CASE UNCHANGED vars
  BY <1>1 DEF UndoneOnce, Reversals, vars, engineVars
<1>2. ASSUME NEW c \in Callers,
             \/ LookUp(c) \/ Claim(c) \/ Replay(c) \/ LockAccount(c) \/ ReadVersions(c)
             \/ UpdateFails(c) \/ LockTimeout(c) \/ Die(c) \/ Again(c)
      PROVE  UndoneOnce'
  <2>1. UNCHANGED <<call, posted>>
    BY <1>2 DEF LookUp, Claim, Replay, LockAccount, ReadVersions, UpdateFails, LockTimeout,
                Die, Again
  <2>2. \A d \in Callers : d # c => at'[d] = at[d]
    BY <1>2, OneCallerMoves DEF Step
  <2> QED
    BY <1>2, <2>1, <2>2, QuietPoint DEF UndoneOnce, Reversals
<1>3. ASSUME NEW c \in Callers, Commit(c) PROVE UndoneOnce'
  <2>1. PICK n : n = [key |-> call[c].key, legs |-> Legs(c), reverses |-> call[c].reverses]
    OBVIOUS
  <2>2. /\ at[c] = "read" /\ posted' = posted \cup {n} /\ call' = call
        /\ n.key = call[c].key /\ n.reverses = call[c].reverses
    BY <1>3, <2>1 DEF Commit
  <2>3. at'[c] = "returned" /\ \A d \in Callers : d # c => at'[d] = at[d]
    BY <1>3, CallerFacts, OneCallerMoves DEF Step, Commit, Return
  <2>4. n.reverses # None => Reversals(n.reverses) = {}
    BY <2>2 DEF EngineInv, AloneInFlight, InFlight
  <2>5. n.reverses # None => \E o \in posted : o.key = n.reverses /\ o.reverses = None
    BY <2>2 DEF UndoneOnce
  <2>6. ASSUME NEW t \in posted, t.reverses # None
        PROVE  \E o \in posted' :
                 o.key = t.reverses /\ o.reverses = None /\ \A u \in Reversals(o.key)' : u = t
    <3>1. PICK o \in posted :
            o.key = t.reverses /\ o.reverses = None /\ \A u \in Reversals(o.key) : u = t
      BY <2>6 DEF UndoneOnce
    <3>2. t \in Reversals(o.key)
      BY <3>1 DEF Reversals
    <3>3. n.reverses # o.key
      BY <2>4, <2>6, <3>1, <3>2
    <3>4. \A u \in posted' : u.reverses = o.key => u = t
      BY <2>2, <3>1, <3>3 DEF Reversals
    <3> QED
      BY <2>2, <3>1, <3>4 DEF Reversals
  <2>7. n.reverses # None =>
          \E o \in posted' :
            o.key = n.reverses /\ o.reverses = None /\ \A u \in Reversals(o.key)' : u = n
    BY <2>2, <2>4, <2>5 DEF Reversals
  <2>8. \A t \in posted' : t.reverses # None =>
          \E o \in posted' :
            o.key = t.reverses /\ o.reverses = None /\ \A u \in Reversals(o.key)' : u = t
    BY <2>2, <2>6, <2>7
  <2>9. \A d \in Callers :
          /\ at'[d] = "looking" => call[d].reverses # None
          /\ at'[d] \notin {"looking", "returned"} /\ call[d].reverses # None =>
               \E o \in posted' : o.key = call[d].reverses /\ o.reverses = None
    BY <2>2, <2>3 DEF UndoneOnce
  <2> QED
    BY <2>2, <2>8, <2>9 DEF UndoneOnce
<1>4. ASSUME NEW p \in Auditors, AuditStep(p) \/ \E a \in Audited : AuditLock(p, a)
      PROVE  UndoneOnce'
  BY <1>4, NoCallerMoves DEF UndoneOnce, Reversals
<1> QED
  BY <1>1, <1>2, <1>3, <1>4 DEF Next, Step

\* Nothing is posted under a key that the journal does not have, nor for an
\* original that nothing undid or that there is no use in undoing.
LEMMA NotDone ==
  ASSUME EngineInv, UndoneOnce, NEW c \in Callers,
         \/ call[c].key \notin journal
         \/ call[c].reverses # None /\ Reversals(call[c].reverses) = {}
         \/ NothingToUndo(c)
  PROVE  ~Done(c)
<1>1. CASE call[c].key \notin journal
  BY <1>1 DEF EngineInv, PostedOnce, Done
<1>2. CASE call[c].reverses # None /\ Reversals(call[c].reverses) = {}
  BY <1>2 DEF Done, Reversals
<1>3. CASE NothingToUndo(c)
  <2> SUFFICES ASSUME NEW t \in posted, t.key = call[c].key, t.reverses = call[c].reverses
               PROVE  FALSE
    BY DEF Done
  <2>1. PICK o \in posted :
          o.key = t.reverses /\ o.reverses = None /\ \A u \in Reversals(o.key) : u = t
    BY <1>3 DEF UndoneOnce, NothingToUndo
  <2> QED
    BY <1>3, <2>1 DEF NothingToUndo
<1> QED
  BY <1>1, <1>2, <1>3

\* An undo is refused when there is nothing to undo.
LEMMA RefusalTrue ==
  ASSUME EngineInv, UndoneOnce, NEW c \in Callers,
         \/ LookUp(c) /\ ~GoTo(c, "claiming")
         \/ Claim(c) /\ ~GoTo(c, "locking")
  PROVE  NothingToUndo(c)
<1> USE DEF EngineInv
<1>1. CASE LookUp(c) /\ ~GoTo(c, "claiming")
  <2>1. PICK key : key = call[c].reverses
    OBVIOUS
  <2>2. key # None
    BY <1>1, <2>1 DEF LookUp, UndoneOnce
  <2>3. \/ key \notin journal
        \/ Transaction(key).reverses # None
        \/ \E t \in Reversals(key) : t.key # call[c].key
    BY <1>1, <2>1 DEF LookUp
  <2>4. ASSUME NEW t \in posted, t.key = key
        PROVE  t.reverses # None \/ \E u \in Reversals(t.key) : u.key # call[c].key
    <3>1. key \in journal
      BY <2>4 DEF PostedOnce
    <3>2. t = Transaction(key)
      BY <2>4, <3>1, PostedKey
    <3> QED
      BY <2>3, <2>4, <3>1, <3>2
  <2> QED
    BY <2>1, <2>2, <2>4 DEF NothingToUndo
<1>2. CASE Claim(c) /\ ~GoTo(c, "locking")
  <2>1. /\ call[c].key \notin journal /\ call[c].reverses # None
        /\ Reversals(call[c].reverses) # {}
    BY <1>2 DEF Claim
  <2>2. \A u \in Reversals(call[c].reverses) : u.key # call[c].key
    BY <2>1 DEF Reversals, PostedOnce
  <2> QED
    BY <2>1, <2>2 DEF NothingToUndo
<1> QED
  BY <1>1, <1>2

\* A posting is turned down when the journal does not cover it.
LEMMA ShortfallTrue ==
  ASSUME EngineInv, NEW c \in Callers, at[c] = "read", ~Covered(Legs(c))
  PROVE  TooLittle(c)
<1>1. PICK legs : legs = Legs(c)
  OBVIOUS
<1>2. call[c].reverses # None => call[c].reverses \in journal
  BY CallerFacts
<1>3. DOMAIN legs \subseteq Accounts /\ \A a \in DOMAIN legs : legs[a] \in Int
  BY <1>1, <1>2, LegsType
<1>4. PICK a \in Guarded(legs) : ~(Applied(legs)[a] >= 0)
  BY <1>1 DEF Covered
<1>5. a \in DOMAIN legs /\ a \in Accounts /\ Delta(legs, a) \in Int
  BY <1>3 DEF Guarded, Delta
<1>6. Applied(legs)[a] = balance[a] + Delta(legs, a)
  BY <1>5 DEF Applied
<1>7. balance[a] = SumOf(posted, a) /\ balance[a] \in Int
  BY <1>5 DEF EngineInv, EngineTypes, SumsAgree
<1>8. SumOf(posted, a) + Delta(legs, a) < 0
  BY <1>4, <1>5, <1>6, <1>7
<1> QED
  BY <1>1, <1>4, <1>8 DEF TooLittle

\* Who gave up had posted nothing.
LEMMA GivingUpTrue ==
  ASSUME EngineInv, UndoneOnce, NEW c \in Callers,
         InFlight(c) \/ (at[c] = "claiming" /\ Waits(c))
  PROVE  ~Done(c)
<1>1. CASE InFlight(c)
  BY <1>1, NotDone DEF EngineInv, AloneInFlight
<1>2. CASE Waits(c)
  <2>1. PICK d \in Callers :
          /\ InFlight(d)
          /\ \/ call[d].key = call[c].key
             \/ call[c].reverses # None /\ call[d].reverses = call[c].reverses
    BY <1>2 DEF Waits
  <2>2. /\ call[d].key \notin journal
        /\ call[d].reverses # None => Reversals(call[d].reverses) = {}
    BY <2>1 DEF EngineInv, AloneInFlight
  <2> QED
    BY <2>1, <2>2, NotDone
<1> QED
  BY <1>1, <1>2

\* A denial is true when it is given.
LEMMA DenialsTrue ==
  ASSUME EngineInv, UndoneOnce, [Next]_vars, NEW c \in Callers, answer'[c] # answer[c]
  PROVE  DenialIsTrue(c)
<1>0. c \in DOMAIN answer
  BY CallerFacts
<1>1. Step(c) \/ LockTimeout(c) \/ Die(c) \/ Again(c)
  BY OneCallerMoves, NoCallerMoves DEF Next, vars, engineVars
<1>2. CASE (LookUp(c) /\ ~GoTo(c, "claiming")) \/ (Claim(c) /\ ~GoTo(c, "locking"))
  <2>1. answer'[c] = "refused"
    BY <1>0, <1>2 DEF LookUp, Claim, Return
  <2>2. NothingToUndo(c)
    BY <1>2, RefusalTrue
  <2> QED
    BY <2>1, <2>2, NotDone DEF DenialIsTrue
<1>3. CASE UpdateFails(c) /\ Return(c, "insufficient")
  <2>1. at[c] = "read" /\ answer'[c] = "insufficient"
    BY <1>0, <1>3 DEF UpdateFails, Return
  <2>2. ASSUME Current(c) PROVE TooLittle(c)
    BY <1>3, <2>1, <2>2, ShortfallTrue DEF UpdateFails
  <2>3. Current(c)
    BY <1>0, <1>3, <2>1 DEF UpdateFails, Retry
  <2>4. ~Done(c)
    BY <2>1, GivingUpTrue DEF InFlight
  <2> QED
    BY <2>1, <2>2, <2>3, <2>4 DEF DenialIsTrue
<1>4. CASE (UpdateFails(c) \/ LockTimeout(c)) /\ Retry(c)
  <2>1. answer'[c] = "exhausted"
    BY <1>0, <1>4 DEF Retry
  <2>2. InFlight(c) \/ (at[c] = "claiming" /\ Waits(c))
    BY <1>4 DEF UpdateFails, LockTimeout, InFlight
  <2> QED
    BY <2>1, <2>2, GivingUpTrue DEF DenialIsTrue
<1>5. CASE answer'[c] \notin {"refused", "insufficient", "exhausted"}
  BY <1>5 DEF DenialIsTrue
<1>6. ASSUME LookUp(c) \/ Claim(c) \/ Replay(c) \/ LockAccount(c) \/ ReadVersions(c) \/ Commit(c)
      PROVE  DenialIsTrue(c)
  <2>1. CASE LookUp(c) \/ Claim(c)
    BY <1>2, <2>1 DEF LookUp, Claim, GoTo
  <2>2. CASE Replay(c) \/ Commit(c)
    BY <1>0, <1>5, <2>2 DEF Replay, Commit, Return
  <2>3. CASE LockAccount(c) \/ ReadVersions(c)
    BY <2>3 DEF LockAccount, ReadVersions, GoTo
  <2> QED
    BY <1>6, <2>1, <2>2, <2>3
<1>7. ASSUME UpdateFails(c) \/ LockTimeout(c) PROVE DenialIsTrue(c)
  BY <1>3, <1>4, <1>7 DEF UpdateFails, LockTimeout
<1>8. ASSUME Die(c) \/ Again(c) PROVE DenialIsTrue(c)
  BY <1>0, <1>5, <1>8 DEF Die, Again, Return
<1> QED
  BY <1>1, <1>6, <1>7, <1>8 DEF Step

-----------------------------------------------------------------------------
(* The hash chain over what was posted. *)

OpenTx(t) == state[t] = "open"

ChainTypes ==
  /\ state \in [Txs -> {"new", "open", "committed", "gone"}]
  /\ xid \in [Txs -> Nat]
  /\ entries \in [Txs -> SUBSET Nat]
  /\ nextXid \in Nat /\ xmax \in Nat
  /\ nextSeq \in Nat \ {0}
  /\ sealer \in [Sealers -> {"idle", "entered", "examined", "read"}]
  /\ run = [s \in Sealers |-> run[s]]
  /\ \E S : chain \in Chain!Seq(S)
  /\ \E S : anchors \in Chain!Seq(S)

\* Sequence numbers are taken in order, by what has begun.
TakenInOrder ==
  /\ \A t \in Txs : \A n \in entries[t] : 0 < n /\ n < nextSeq
  /\ \A t \in Txs : state[t] = "new" => entries[t] = {}

\* No transaction can add an entry to what is sealed up to n.
SettledUpTo(n) ==
  /\ n \in Nat /\ n < nextSeq
  /\ \A t \in Txs : OpenTx(t) => \A k \in entries[t] : n < k

\* What is sealed is settled, and the last checkpoint seals the most.
TipSettled ==
  /\ SettledUpTo(Chain!Tip(chain))
  /\ \A i \in DOMAIN chain : chain[i].upto \in Nat /\ chain[i].upto <= Chain!Tip(chain)

\* Once a candidate is of age, its horizon is after every open transaction with
\* an entry in its range, also when a restore made the ids start again.
CandidateCovers ==
  candidate # NoCandidate =>
    /\ candidate.upto \in Nat /\ candidate.upto < nextSeq
    /\ candidate.horizon \in Nat
    /\ aged => \A t \in Txs : OpenTx(t) =>
         \A n \in entries[t] : n <= candidate.upto => xid[t] < candidate.horizon

OneRun ==
  \A s, u \in Sealers : sealer[s] # "idle" /\ sealer[u] # "idle" => s = u

\* A run has read the head of the chain, and what it will seal is settled.
Sealable(x) ==
  /\ SettledUpTo(x.upto)
  /\ x.prev = Chain!HeadHash(chain)
  /\ Chain!Tip(chain) < x.upto
  /\ x.segment = {n \in Chain!Visible : Chain!Tip(chain) < n /\ n <= x.upto}

RunKnows ==
  \A s \in Sealers :
    /\ sealer[s] = "entered" =>
         run[s].upto = Chain!Tip(chain) /\ run[s].hash = Chain!HeadHash(chain)
    /\ sealer[s] \in {"examined", "read"} =>
         /\ run[s].xid \in Nat
         /\ \/ run[s].new = <<>>
            \/ run[s].new = <<run[s].new[1]>> /\ Sealable(run[s].new[1])
    /\ sealer[s] = "read" => run[s].highest \in Nat /\ run[s].highest < nextSeq

AnchorsInOrder == \A j \in DOMAIN anchors : anchors[j].upto \in Nat

ChainInv ==
  /\ ChainTypes /\ TakenInOrder /\ TipSettled /\ CandidateCovers /\ OneRun /\ RunKnows
  /\ AnchorsInOrder /\ ChainVerifies

\* Sets of naturals have a least element, and bounded ones a greatest.
LEMMA LeastOf ==
  ASSUME NEW S \in SUBSET Nat, S # {}
  PROVE  \E n \in S : \A m \in S : n <= m
<1> DEFINE R == {ss \in Nat \X Nat : ss[1] < ss[2]}
<1>1. IsWellFoundedOn(R, Nat)
  BY NatLessThanWellFounded, Zenon DEF OpToRel
<1> HIDE DEF R
<1>2. PICK n \in S : \A m \in S : ~ (<<m, n>> \in R)
  BY <1>1, WFMin, Zenon
<1>3. \A m \in S : ~(m < n)
  BY <1>2 DEF R
<1> QED
  BY <1>2, <1>3

LEMMA GreatestOf ==
  ASSUME NEW S \in SUBSET Nat, S # {}, NEW b \in Nat, \A n \in S : n <= b
  PROVE  Chain!Max(S) \in S /\ \A m \in S : m <= Chain!Max(S)
<1> DEFINE T == {k \in Nat : b - k \in S}
<1>1. T \in SUBSET Nat /\ T # {}
  <2>1. PICK n \in S : TRUE
    OBVIOUS
  <2>2. b - n \in Nat /\ b - (b - n) = n
    OBVIOUS
  <2> QED
    BY <2>1, <2>2
<1>2. PICK k \in T : \A j \in T : k <= j
  <2> HIDE DEF T
  <2> QED
    BY <1>1, LeastOf
<1>3. b - k \in S /\ \A m \in S : b - m \in T
  OBVIOUS
<1>4. \A m \in S : b - k >= m
  BY <1>2, <1>3
<1>5. \E x \in S : \A m \in S : x >= m
  BY <1>3, <1>4
<1>6. Chain!Max(S) \in S /\ \A m \in S : Chain!Max(S) >= m
  BY <1>5, Zenon DEF Chain!Max
<1> QED
  BY <1>6

LEMMA LeastId ==
  ASSUME NEW S \in SUBSET Nat, NEW x \in S
  PROVE  Chain!Min(S) \in Nat /\ Chain!Min(S) <= x
<1>1. \E n \in S : \A m \in S : n <= m
  BY LeastOf
<1>2. Chain!Min(S) \in S /\ \A m \in S : Chain!Min(S) <= m
  BY <1>1, Zenon DEF Chain!Min
<1> QED
  BY <1>2

\* What is visible is what the committed transactions inserted.
LEMMA VisibleEntries ==
  \A n : n \in Chain!Visible <=> \E t \in Txs : state[t] = "committed" /\ n \in entries[t]
  BY DEF Chain!Visible

LEMMA VisibleEntriesNext ==
  \A n : n \in Chain!Visible' <=> \E t \in Txs : state'[t] = "committed" /\ n \in entries'[t]
  BY DEF Chain!Visible

LEMMA ChainInit == Chain!Init => ChainInv
<1> SUFFICES ASSUME Chain!Init PROVE ChainInv
  OBVIOUS
<1> USE DEF Chain!Init
<1>1. chain = <<>> /\ anchors = <<>> /\ Chain!Tip(chain) = 0
  BY DEF Chain!Tip
<1>2. ChainTypes
  <2>1. \A S : <<>> \in Chain!Seq(S)
    OBVIOUS
  <2> QED
    BY <1>1, <2>1 DEF ChainTypes
<1>3. TakenInOrder /\ CandidateCovers /\ OneRun /\ RunKnows /\ AnchorsInOrder
  BY DEF TakenInOrder, CandidateCovers, OneRun, RunKnows, AnchorsInOrder, OpenTx
<1>4. TipSettled
  BY <1>1 DEF TipSettled, SettledUpTo, OpenTx
<1>5. ChainVerifies
  BY DEF ChainVerifies, Chain!ChainVerifies
<1> QED
  BY <1>2, <1>3, <1>4, <1>5 DEF ChainInv

LEMMA CompletedType ==
  ASSUME ChainInv, NEW id \in Nat
  PROVE  Chain!Completed(id) \in Nat
BY DEF ChainInv, ChainTypes, Chain!Completed

\* The postings go on: what is settled stays as it is.
LEMMA PostingKeeps ==
  ASSUME ChainInv, UNCHANGED <<candidate, aged, chain, anchors>>, ChainTypes', TakenInOrder',
         nextSeq <= nextSeq',
         \A t \in Txs : OpenTx(t)' => \A n \in entries'[t] :
           (OpenTx(t) /\ n \in entries[t] /\ xid'[t] = xid[t]) \/ nextSeq <= n,
         \A n : n \in Chain!Visible => n \in Chain!Visible',
         \A n : n \in Chain!Visible' /\ n \notin Chain!Visible =>
           \E t \in Txs : OpenTx(t) /\ n \in entries[t],
         UNCHANGED <<sealer, run>> \/ \A s \in Sealers : sealer'[s] = "idle"
  PROVE  ChainInv'
<1> USE DEF ChainInv
<1>1. Chain!Tip(chain)' = Chain!Tip(chain) /\ Chain!HeadHash(chain)' = Chain!HeadHash(chain)
  BY DEF Chain!Tip, Chain!HeadHash, Chain!Last
<1>2. nextSeq \in Nat /\ nextSeq' \in Nat
  BY DEF ChainTypes
<1>3. \A t \in Txs : OpenTx(t)' => \A n \in entries'[t] : n \in Nat
  BY DEF ChainTypes
<1>4. ASSUME NEW u, SettledUpTo(u)
      PROVE  /\ u \in Nat /\ u < nextSeq'
             /\ \A t \in Txs : OpenTx(t)' => \A n \in entries'[t] : u < n
             /\ \A n : n <= u => (n \in Chain!Visible' <=> n \in Chain!Visible)
  <2>1. u \in Nat /\ u < nextSeq
    BY <1>4 DEF SettledUpTo
  <2>2. \A t \in Txs : OpenTx(t) => \A n \in entries[t] : u < n
    BY <1>4 DEF SettledUpTo
  <2>3. \A t \in Txs : OpenTx(t)' => \A n \in entries'[t] : u < n
    BY <1>2, <1>3, <2>1, <2>2
  <2>4. \A t \in Txs : \A n \in entries[t] : n \in Nat
    BY DEF ChainTypes
  <2>5. \A n : n <= u => (n \in Chain!Visible' <=> n \in Chain!Visible)
    BY <2>1, <2>2, <2>4
  <2> QED
    BY <1>2, <2>1, <2>3, <2>5
<1>5. TipSettled'
  BY <1>1, <1>4 DEF TipSettled, SettledUpTo
<1>6. CandidateCovers'
  <2> SUFFICES ASSUME candidate # NoCandidate PROVE CandidateCovers'
    BY DEF CandidateCovers
  <2>1. candidate.upto \in Nat /\ candidate.upto < nextSeq /\ candidate.horizon \in Nat
    BY DEF CandidateCovers
  <2>2. aged => \A t \in Txs : OpenTx(t)' => \A n \in entries'[t] :
          n <= candidate.upto => xid'[t] < candidate.horizon
    BY <1>2, <1>3, <2>1 DEF CandidateCovers
  <2> QED
    BY <1>2, <2>1, <2>2 DEF CandidateCovers
<1>7. OneRun'
  BY DEF OneRun
<1>8. RunKnows'
  <2>1. CASE UNCHANGED <<sealer, run>>
    <3>1. ASSUME NEW x, Sealable(x)
          PROVE  /\ SettledUpTo(x.upto)' /\ x.prev = Chain!HeadHash(chain)'
                 /\ Chain!Tip(chain)' < x.upto
                 /\ x.segment = {n \in Chain!Visible' : Chain!Tip(chain)' < n /\ n <= x.upto}
      <4>1. PICK u : u = x.upto
        OBVIOUS
      <4>2. SettledUpTo(u)
        BY <3>1, <4>1 DEF Sealable
      <4>3. u \in Nat /\ u < nextSeq' /\ \A t \in Txs : OpenTx(t)' => \A n \in entries'[t] : u < n
        BY <1>4, <4>2
      <4>4. \A n : n <= u => (n \in Chain!Visible' <=> n \in Chain!Visible)
        BY <1>4, <4>2
      <4>5. SettledUpTo(x.upto)'
        BY <4>1, <4>3 DEF SettledUpTo
      <4>6. x.segment = {n \in Chain!Visible' : Chain!Tip(chain)' < n /\ n <= x.upto}
        BY <1>1, <3>1, <4>1, <4>4 DEF Sealable
      <4> QED
        BY <1>1, <3>1, <4>5, <4>6 DEF Sealable
    <3>2. ASSUME NEW s \in Sealers
          PROVE  /\ sealer'[s] = "entered" =>
                      run'[s].upto = Chain!Tip(chain)' /\ run'[s].hash = Chain!HeadHash(chain)'
                 /\ sealer'[s] \in {"examined", "read"} =>
                      /\ run'[s].xid \in Nat
                      /\ \/ run'[s].new = <<>>
                         \/ run'[s].new = <<run'[s].new[1]>> /\ Sealable(run[s].new[1])
                 /\ sealer'[s] = "read" => run'[s].highest \in Nat /\ run'[s].highest < nextSeq'
      BY <1>1, <1>2, <2>1 DEF RunKnows
    <3>3. \A s \in Sealers : Sealable(run[s].new[1]) => Sealable(run[s].new[1])'
      BY <2>1, <3>1 DEF Sealable
    <3> QED
      BY <3>2, <3>3 DEF RunKnows
  <2>2. CASE \A s \in Sealers : sealer'[s] = "idle"
    BY <2>2 DEF RunKnows
  <2> QED
    BY <2>1, <2>2
<1>9. AnchorsInOrder'
  BY DEF AnchorsInOrder
<1>10. ChainVerifies'
  <2>1. ASSUME NEW i \in DOMAIN chain
        PROVE  LET before == Chain!SubSeq(chain, 1, i - 1) IN
               /\ chain[i].prev = Chain!HeadHash(before)
               /\ Chain!Tip(before) < chain[i].upto
               /\ chain[i].segment
                    = {n \in Chain!Visible' : Chain!Tip(before) < n /\ n <= chain[i].upto}
    <3>1. PICK before : before = Chain!SubSeq(chain, 1, i - 1)
      OBVIOUS
    <3>2. PICK low : low = Chain!Tip(before)
      OBVIOUS
    <3>3. /\ chain[i].prev = Chain!HeadHash(before) /\ low < chain[i].upto
          /\ chain[i].segment = {n \in Chain!Visible : low < n /\ n <= chain[i].upto}
      BY <3>1, <3>2 DEF ChainVerifies, Chain!ChainVerifies
    <3>4. chain[i].upto \in Nat /\ chain[i].upto <= Chain!Tip(chain) /\ SettledUpTo(Chain!Tip(chain))
      BY DEF TipSettled
    <3>5. SettledUpTo(chain[i].upto)
      <4>1. PICK u : u = chain[i].upto
        OBVIOUS
      <4>2. PICK tip : tip = Chain!Tip(chain)
        OBVIOUS
      <4>3. u \in Nat /\ u <= tip /\ tip \in Nat /\ tip < nextSeq
              /\ \A t \in Txs : OpenTx(t) => \A k \in entries[t] : tip < k
        BY <3>4, <4>1, <4>2 DEF SettledUpTo
      <4>4. \A t \in Txs : \A k \in entries[t] : k \in Nat
        BY DEF ChainTypes
      <4>5. \A t \in Txs : OpenTx(t) => \A k \in entries[t] : u < k
        BY <4>3, <4>4
      <4> QED
        BY <1>2, <4>1, <4>3, <4>5 DEF SettledUpTo
    <3>6. PICK u : u = chain[i].upto
      OBVIOUS
    <3>7. \A n : n <= u => (n \in Chain!Visible' <=> n \in Chain!Visible)
      BY <1>4, <3>5, <3>6
    <3>8. chain[i].segment = {n \in Chain!Visible' : low < n /\ n <= chain[i].upto}
      BY <3>3, <3>6, <3>7
    <3> QED
      BY <3>1, <3>2, <3>3, <3>8
  <2>2. \A j \in DOMAIN anchors :
          \E i \in DOMAIN chain :
            chain[i].upto = anchors[j].upto /\ chain[i].hash = anchors[j].hash
    BY DEF ChainVerifies, Chain!ChainVerifies
  <2> QED
    BY <2>1, <2>2 DEF ChainVerifies, Chain!ChainVerifies
<1> QED
  BY <1>5, <1>6, <1>7, <1>8, <1>9, <1>10

LEMMA ChainPostings ==
  ASSUME ChainInv,
         \/ \E t \in Txs : Chain!Begin(t) \/ Chain!InsertEntry(t) \/ Chain!End(t)
         \/ Chain!Restore
  PROVE  ChainInv'
<1> USE DEF ChainInv
<1>0. /\ nextSeq \in Nat /\ nextXid \in Nat /\ xmax \in Nat
      /\ \A t \in Txs : \A n \in entries[t] : n \in Nat /\ n < nextSeq
  BY DEF ChainTypes, TakenInOrder
<1>1. ASSUME NEW t \in Txs, Chain!Begin(t) PROVE ChainInv'
  <2>1. /\ state[t] = "new" /\ state' = [state EXCEPT ![t] = "open"]
        /\ xid' = [xid EXCEPT ![t] = nextXid] /\ nextXid' = nextXid + 1
        /\ UNCHANGED <<entries, xmax, nextSeq, candidate, aged, chain, anchors, sealer, run>>
    BY <1>1 DEF Chain!Begin, Chain!sealVars, Chain!runVars
  <2>2. \A u \in Txs : /\ state'[u] = IF u = t THEN "open" ELSE state[u]
                       /\ xid'[u] = IF u = t THEN nextXid ELSE xid[u]
    BY <2>1 DEF ChainTypes
  <2>3. entries[t] = {}
    BY <2>1 DEF TakenInOrder
  <2>4. ChainTypes'
    BY <2>1 DEF ChainTypes
  <2>5. TakenInOrder'
    BY <1>0, <2>1, <2>2, <2>3 DEF TakenInOrder, OpenTx, ChainTypes
  <2>6. \A u \in Txs : OpenTx(u)' => \A n \in entries'[u] :
          (OpenTx(u) /\ n \in entries[u] /\ xid'[u] = xid[u]) \/ nextSeq <= n
    BY <2>1, <2>2, <2>3 DEF OpenTx
  <2>7. \A n : n \in Chain!Visible' <=> n \in Chain!Visible
    BY <2>1, <2>2, <2>3, VisibleEntries, VisibleEntriesNext
  <2> QED
    BY <1>0, <2>1, <2>4, <2>5, <2>6, <2>7, PostingKeeps
<1>2. ASSUME NEW t \in Txs, Chain!InsertEntry(t) PROVE ChainInv'
  <2>1. /\ state[t] = "open" /\ entries' = [entries EXCEPT ![t] = entries[t] \cup {nextSeq}]
        /\ nextSeq' = nextSeq + 1
        /\ UNCHANGED <<state, xid, nextXid, xmax, candidate, aged, chain, anchors, sealer, run>>
    BY <1>2 DEF Chain!InsertEntry, Chain!idVars, Chain!sealVars, Chain!runVars
  <2>2. \A u \in Txs : entries'[u] = IF u = t THEN entries[u] \cup {nextSeq} ELSE entries[u]
    BY <2>1 DEF ChainTypes
  <2>3. ChainTypes'
    BY <1>0, <2>1, <2>2 DEF ChainTypes
  <2>4. TakenInOrder'
    <3>1. \A u \in Txs : \A n \in entries'[u] : 0 < n /\ n < nextSeq'
      BY <1>0, <2>1, <2>2 DEF TakenInOrder, ChainTypes
    <3> QED
      BY <2>1, <2>2, <3>1 DEF TakenInOrder, OpenTx
  <2>5. \A u \in Txs : OpenTx(u)' => \A n \in entries'[u] :
          (OpenTx(u) /\ n \in entries[u] /\ xid'[u] = xid[u]) \/ nextSeq <= n
    BY <1>0, <2>1, <2>2 DEF OpenTx
  <2>6. \A n : n \in Chain!Visible' <=> n \in Chain!Visible
    BY <2>1, <2>2, VisibleEntries, VisibleEntriesNext
  <2> QED
    BY <1>0, <2>1, <2>3, <2>4, <2>5, <2>6, PostingKeeps
<1>3. ASSUME NEW t \in Txs, Chain!End(t) PROVE ChainInv'
  <2>1. /\ state[t] = "open" /\ xid' = [xid EXCEPT ![t] = 0]
        /\ xmax' = Chain!Completed(xid[t])
        /\ UNCHANGED <<entries, nextXid, nextSeq, candidate, aged, chain, anchors, sealer, run>>
    BY <1>3 DEF Chain!End, Chain!sealVars, Chain!runVars
  <2>2. PICK s \in {"committed", "gone"} : state' = [state EXCEPT ![t] = s]
    BY <1>3 DEF Chain!End
  <2>3. \A u \in Txs : /\ state'[u] = IF u = t THEN s ELSE state[u]
                       /\ u # t => xid'[u] = xid[u]
    BY <2>1, <2>2 DEF ChainTypes
  <2>4. ChainTypes'
    <3>1. xid[t] \in Nat
      BY DEF ChainTypes
    <3>2. xmax' \in Nat
      BY <2>1, <3>1, CompletedType
    <3> QED
      BY <2>1, <2>2, <3>2 DEF ChainTypes
  <2>5. TakenInOrder'
    BY <2>1, <2>3 DEF TakenInOrder, OpenTx
  <2>6. \A u \in Txs : OpenTx(u)' => \A n \in entries'[u] :
          (OpenTx(u) /\ n \in entries[u] /\ xid'[u] = xid[u]) \/ nextSeq <= n
    BY <2>1, <2>3 DEF OpenTx
  <2>7. /\ \A n : n \in Chain!Visible => n \in Chain!Visible'
        /\ \A n : n \in Chain!Visible' /\ n \notin Chain!Visible =>
             \E u \in Txs : OpenTx(u) /\ n \in entries[u]
    BY <2>1, <2>3, VisibleEntries, VisibleEntriesNext DEF OpenTx
  <2> QED
    BY <1>0, <2>1, <2>4, <2>5, <2>6, <2>7, PostingKeeps
<1>4. CASE Chain!Restore
  <2>1. /\ state' = [t \in Txs |-> IF state[t] = "open" THEN "gone" ELSE state[t]]
        /\ xid' = [t \in Txs |-> 0] /\ nextXid' = 1 /\ xmax' = 1
        /\ sealer' = [s \in Sealers |-> "idle"] /\ run' = [s \in Sealers |-> <<>>]
        /\ UNCHANGED <<entries, nextSeq, candidate, aged, chain, anchors>>
    BY <1>4 DEF Chain!Restore, Chain!sealVars
  <2>2. ChainTypes'
    BY <2>1 DEF ChainTypes
  <2>3. \A t \in Txs : ~OpenTx(t)'
    BY <2>1 DEF OpenTx
  <2>4. TakenInOrder'
    BY <2>1, <2>3 DEF TakenInOrder
  <2>5. \A n : n \in Chain!Visible' <=> n \in Chain!Visible
    BY <2>1, VisibleEntries, VisibleEntriesNext
  <2>6. \A s \in Sealers : sealer'[s] = "idle"
    BY <2>1
  <2> QED
    BY <1>0, <2>1, <2>2, <2>3, <2>4, <2>5, <2>6, PostingKeeps
<1> QED
  BY <1>1, <1>2, <1>3, <1>4

\* A run that has not committed leaves everything but itself as it is.
LEMMA RunKeeps ==
  ASSUME ChainInv,
         UNCHANGED <<state, xid, entries, nextSeq, candidate, chain, anchors>>,
         nextXid' \in Nat, xmax' \in Nat,
         sealer' \in [Sealers -> {"idle", "entered", "examined", "read"}],
         run' = [s \in Sealers |-> run'[s]], CandidateCovers', OneRun', RunKnows'
  PROVE  ChainInv'
<1> USE DEF ChainInv
<1>1. ChainTypes'
  BY DEF ChainTypes
<1>2. \A n : SettledUpTo(n)' <=> SettledUpTo(n)
  BY DEF SettledUpTo, OpenTx
<1>3. TakenInOrder' /\ AnchorsInOrder'
  BY DEF TakenInOrder, AnchorsInOrder
<1>4. Chain!Tip(chain)' = Chain!Tip(chain)
  BY DEF Chain!Tip, Chain!Last
<1>5. TipSettled'
  BY <1>4 DEF TipSettled, SettledUpTo, OpenTx
<1>6. Chain!Visible' = Chain!Visible
  BY DEF Chain!Visible
<1>7. ChainVerifies'
  BY <1>6 DEF ChainVerifies, Chain!ChainVerifies
<1> QED
  BY <1>1, <1>3, <1>5, <1>7

\* A step of one run, which moves its own state only.
LEMMA RunMoves ==
  ASSUME ChainInv,
         UNCHANGED <<state, xid, entries, nextSeq, candidate, aged, chain, anchors>>,
         nextXid' \in Nat, xmax' \in Nat,
         NEW s \in Sealers, sealer[s] # "idle" \/ \A u \in Sealers : sealer[u] = "idle",
         NEW point \in {"idle", "entered", "examined", "read"}, NEW known,
         sealer' = [sealer EXCEPT ![s] = point], run' = [run EXCEPT ![s] = known],
         point = "entered" =>
           known.upto = Chain!Tip(chain) /\ known.hash = Chain!HeadHash(chain),
         point \in {"examined", "read"} =>
           /\ known.xid \in Nat
           /\ known.new = <<>> \/ (known.new = <<known.new[1]>> /\ Sealable(known.new[1])),
         point = "read" => known.highest \in Nat /\ known.highest < nextSeq
  PROVE  ChainInv'
<1> USE DEF ChainInv
<1>1. /\ sealer' \in [Sealers -> {"idle", "entered", "examined", "read"}]
      /\ \A u \in Sealers : sealer'[u] = IF u = s THEN point ELSE sealer[u]
  BY DEF ChainTypes
<1>2. /\ run' = [u \in Sealers |-> run'[u]]
      /\ run'[s] = known /\ \A u \in Sealers : u # s => run'[u] = run[u]
  BY DEF ChainTypes
<1>3. \A u \in Sealers : u # s => sealer[u] = "idle"
  BY DEF OneRun
<1>4. OneRun'
  BY <1>1, <1>3 DEF OneRun
<1>5. Chain!Tip(chain)' = Chain!Tip(chain) /\ Chain!HeadHash(chain)' = Chain!HeadHash(chain)
  BY DEF Chain!Tip, Chain!HeadHash, Chain!Last
<1>6. Chain!Visible' = Chain!Visible
  BY DEF Chain!Visible
<1>7. \A u \in Sealers : u # s => sealer'[u] = "idle"
  BY <1>1, <1>3
<1>8. ASSUME Sealable(known.new[1])
      PROVE  /\ SettledUpTo(run[s].new[1].upto)'
             /\ run'[s].new[1].prev = Chain!HeadHash(chain)'
             /\ Chain!Tip(chain)' < run'[s].new[1].upto
             /\ run'[s].new[1].segment
                  = {n \in Chain!Visible' : Chain!Tip(chain)' < n /\ n <= run'[s].new[1].upto}
  <2>1. PICK x : x = known.new[1]
    OBVIOUS
  <2>2. run'[s].new[1] = x /\ Sealable(x)
    BY <1>2, <1>8, <2>1
  <2>3. SettledUpTo(run[s].new[1].upto)'
    BY <2>2 DEF Sealable, SettledUpTo, OpenTx
  <2> QED
    BY <1>5, <1>6, <2>2, <2>3 DEF Sealable
<1>9. Sealable(known.new[1]) => Sealable(run[s].new[1])'
  BY <1>8 DEF Sealable
<1>10. RunKnows'
  BY <1>1, <1>2, <1>5, <1>7, <1>9 DEF RunKnows
<1>11. CandidateCovers'
  BY DEF CandidateCovers, OpenTx
<1> QED
  BY <1>1, <1>2, <1>4, <1>10, <1>11, RunKeeps

LEMMA EnterKeeps == ASSUME ChainInv, NEW s \in Sealers, Chain!Enter(s) PROVE ChainInv'
<1> DEFINE known == [upto |-> Chain!Tip(chain), hash |-> Chain!HeadHash(chain)]
<1>1. /\ UNCHANGED <<state, xid, entries, nextSeq, candidate, aged, chain, anchors>>
      /\ nextXid' \in Nat /\ xmax' \in Nat
      /\ \A u \in Sealers : sealer[u] = "idle"
      /\ sealer' = [sealer EXCEPT ![s] = "entered"] /\ run' = [run EXCEPT ![s] = known]
  BY DEF Chain!Enter, Chain!postingVars, Chain!idVars, Chain!sealVars, ChainInv, ChainTypes
<1>2. known.upto = Chain!Tip(chain) /\ known.hash = Chain!HeadHash(chain)
  OBVIOUS
<1> HIDE DEF known
<1> QED
  BY <1>1, <1>2, RunMoves

\* A candidate that is final is settled.
LEMMA FinalIsSettled ==
  ASSUME ChainInv, candidate # NoCandidate, Chain!Final
  PROVE  SettledUpTo(candidate.upto)
<1> USE DEF ChainInv
<1>1. PICK u, h : u = candidate.upto /\ h = candidate.horizon
  OBVIOUS
<1>2. /\ u \in Nat /\ u < nextSeq /\ h \in Nat
      /\ \A t \in Txs : OpenTx(t) => \A n \in entries[t] : n <= u => xid[t] < h
  BY <1>1 DEF CandidateCovers, Chain!Final
<1>3. ASSUME NEW t \in Txs, OpenTx(t) PROVE xid[t] >= h
  <2> DEFINE ids == {xmax} \cup {xid[v] : v \in Chain!Open}
  <2>1. t \in Chain!Open /\ Chain!Open \subseteq Txs
    BY <1>3 DEF Chain!Open, OpenTx
  <2>2. ids \in SUBSET Nat /\ xid[t] \in ids
    BY <2>1 DEF ChainTypes
  <2>3. Chain!Xmin = Chain!Min(ids)
    BY <2>1 DEF Chain!Xmin
  <2> HIDE DEF ids
  <2>4. Chain!Min(ids) \in Nat /\ Chain!Min(ids) <= xid[t]
    BY <2>2, LeastId
  <2>5. Chain!Xmin >= h
    BY <1>1 DEF Chain!Final
  <2> QED
    BY <1>2, <1>3, <2>3, <2>4, <2>5 DEF ChainTypes
<1>4. \A t \in Txs : xid[t] \in Nat /\ \A n \in entries[t] : n \in Nat
  BY DEF ChainTypes
<1>5. \A t \in Txs : OpenTx(t) => \A n \in entries[t] : u < n
  BY <1>2, <1>3, <1>4
<1> QED
  BY <1>1, <1>2, <1>5 DEF SettledUpTo

LEMMA ExamineKeeps == ASSUME ChainInv, NEW s \in Sealers, Chain!Examine(s) PROVE ChainInv'
<1> USE DEF ChainInv
<1>1. /\ UNCHANGED <<state, xid, entries, nextSeq, candidate, aged, chain, anchors>>
      /\ sealer[s] = "entered" /\ sealer' = [sealer EXCEPT ![s] = "examined"]
  BY DEF Chain!Examine, Chain!postingVars, Chain!sealVars
<1>0. nextXid \in Nat /\ nextXid' \in Nat /\ xmax' \in Nat
  BY DEF Chain!Examine, ChainTypes
<1>2. run[s].upto = Chain!Tip(chain) /\ run[s].hash = Chain!HeadHash(chain)
  BY <1>1 DEF RunKnows
<1> DEFINE segment == {n \in Chain!Visible : Chain!Tip(chain) < n /\ n <= candidate.upto}
           sealed == [prev |-> Chain!HeadHash(chain), upto |-> candidate.upto,
                      segment |-> segment,
                      hash |-> Chain!HashOf(Chain!HeadHash(chain), candidate.upto, segment)]
           Known(plan) == [drop |-> plan.drop, new |-> plan.new,
                           xid |-> IF plan.drop THEN nextXid ELSE 0,
                           upto |-> IF plan.new = <<>> THEN Chain!Tip(chain) ELSE candidate.upto]
<1>3. PICK plan :
        /\ run' = [run EXCEPT ![s] = Known(plan)]
        /\ \/ plan.new = <<>>
           \/ /\ plan.new = <<sealed>> /\ candidate # NoCandidate
              /\ ~Chain!Useless(Chain!Tip(chain)) /\ Chain!Final
  <2> DEFINE dropped == [drop |-> TRUE, new |-> <<>>]
             kept == [drop |-> FALSE, new |-> <<>>]
             sealing == [drop |-> TRUE, new |-> <<sealed>>]
  <2>1. dropped.new = <<>> /\ kept.new = <<>> /\ sealing.new = <<sealed>>
    OBVIOUS
  <2>2. CASE candidate = NoCandidate
    <3>1. run' = [run EXCEPT ![s] = Known(kept)]
      BY <1>2, <2>2 DEF Chain!Examine
    <3> QED
      BY <2>1, <3>1
  <2>3. CASE candidate # NoCandidate /\ Chain!Useless(Chain!Tip(chain))
    <3>1. run' = [run EXCEPT ![s] = Known(dropped)]
      BY <1>2, <2>3 DEF Chain!Examine
    <3> QED
      BY <2>1, <3>1
  <2>4. CASE candidate # NoCandidate /\ ~Chain!Useless(Chain!Tip(chain)) /\ Chain!Final
    <3>1. run' = [run EXCEPT ![s] = Known(sealing)]
      BY <1>2, <2>4 DEF Chain!Examine
    <3> QED
      BY <2>1, <2>4, <3>1
  <2>5. CASE candidate # NoCandidate /\ ~Chain!Useless(Chain!Tip(chain)) /\ ~Chain!Final
    <3>1. run' = [run EXCEPT ![s] = Known(kept)]
      BY <1>2, <2>5 DEF Chain!Examine
    <3> QED
      BY <2>1, <3>1
  <2> QED
    BY <2>2, <2>3, <2>4, <2>5
<1>4. PICK known : known = Known(plan)
  OBVIOUS
<1>5. known.new = plan.new /\ known.xid \in Nat /\ run' = [run EXCEPT ![s] = known]
  BY <1>0, <1>3, <1>4
<1>6. known.new = <<>> \/ (known.new = <<known.new[1]>> /\ Sealable(known.new[1]))
  <2>1. CASE plan.new = <<>>
    BY <1>5, <2>1
  <2>2. CASE /\ plan.new = <<sealed>> /\ candidate # NoCandidate
             /\ ~Chain!Useless(Chain!Tip(chain)) /\ Chain!Final
    <3>1. SettledUpTo(candidate.upto)
      BY <2>2, FinalIsSettled
    <3>2. Chain!Tip(chain) < candidate.upto
      <4>1. ~(candidate.upto <= Chain!Tip(chain))
        BY <2>2 DEF Chain!Useless
      <4>2. candidate.upto \in Nat /\ Chain!Tip(chain) \in Nat
        BY <3>1 DEF SettledUpTo, TipSettled
      <4> QED
        BY <4>1, <4>2
    <3>3. /\ sealed.upto = candidate.upto /\ sealed.prev = Chain!HeadHash(chain)
          /\ sealed.segment = segment
      OBVIOUS
    <3>4. Sealable(sealed)
      BY <3>1, <3>2, <3>3 DEF Sealable
    <3>5. known.new[1] = sealed /\ known.new = <<sealed>>
      BY <1>5, <2>2
    <3> HIDE DEF sealed
    <3> QED
      BY <3>4, <3>5
  <2> QED
    BY <1>3, <2>1, <2>2
<1> QED
  BY <1>0, <1>1, <1>5, <1>6, RunMoves

LEMMA ReadKeeps == ASSUME ChainInv, NEW s \in Sealers, Chain!ReadHighest(s) PROVE ChainInv'
<1> USE DEF ChainInv
<1>1. /\ UNCHANGED <<state, xid, entries, nextSeq, candidate, aged, chain, anchors>>
      /\ nextXid' \in Nat /\ xmax' \in Nat
      /\ sealer[s] = "examined" /\ sealer' = [sealer EXCEPT ![s] = "read"]
  BY DEF Chain!ReadHighest, Chain!postingVars, Chain!idVars, Chain!sealVars, ChainTypes
<1>2. PICK highest : highest = Chain!Max(Chain!Visible \cup {0})
  OBVIOUS
<1>3. highest \in Nat /\ highest < nextSeq
  <2> DEFINE S == Chain!Visible \cup {0}
  <2>1. nextSeq \in Nat /\ nextSeq - 1 \in Nat
    BY DEF ChainTypes
  <2>2. \A n \in Chain!Visible : n \in Nat /\ n < nextSeq
    BY VisibleEntries DEF ChainTypes, TakenInOrder
  <2>3. S \in SUBSET Nat /\ S # {} /\ \A n \in S : n <= nextSeq - 1
    BY <2>1, <2>2 DEF ChainTypes
  <2>4. highest = Chain!Max(S)
    BY <1>2
  <2> HIDE DEF S
  <2>5. highest \in S
    BY <2>1, <2>3, <2>4, GreatestOf
  <2> QED
    BY <2>1, <2>3, <2>5
<1> DEFINE known == [drop |-> run[s].drop, new |-> run[s].new, xid |-> run[s].xid,
                     upto |-> run[s].upto, highest |-> highest]
<1>4. run' = [run EXCEPT ![s] = known]
  BY <1>2 DEF Chain!ReadHighest
<1>5. known.new = run[s].new /\ known.xid = run[s].xid /\ known.highest = highest
  OBVIOUS
<1>7. run[s].xid \in Nat
  BY <1>1 DEF RunKnows
<1>6. run[s].new = <<>> \/ (run[s].new = <<run[s].new[1]>> /\ Sealable(run[s].new[1]))
  BY <1>1 DEF RunKnows
<1> HIDE DEF known
<1> QED
  BY <1>1, <1>3, <1>4, <1>5, <1>6, <1>7, RunMoves

LEMMA DieSealingKeeps == ASSUME ChainInv, NEW s \in Sealers, Chain!DieSealing(s) PROVE ChainInv'
<1>1. /\ UNCHANGED <<state, xid, entries, nextSeq, nextXid, candidate, aged, chain, anchors>>
      /\ sealer[s] # "idle" /\ sealer' = [sealer EXCEPT ![s] = "idle"]
      /\ run' = [run EXCEPT ![s] = <<>>]
      /\ \/ xmax' = xmax
         \/ sealer[s] # "entered" /\ xmax' = Chain!Completed(run[s].xid)
  BY DEF Chain!DieSealing, Chain!postingVars, Chain!sealVars
<1>2. nextXid' \in Nat /\ xmax \in Nat
  BY <1>1 DEF ChainInv, ChainTypes
<1>3. sealer[s] # "entered" => run[s].xid \in Nat
  BY <1>1 DEF ChainInv, ChainTypes, RunKnows
<1>4. xmax' \in Nat
  BY <1>1, <1>2, <1>3, CompletedType
<1> QED
  BY <1>1, <1>2, <1>4, RunMoves

\* The candidate comes of age: what its horizon does not cover has ended.
LEMMA AgeKeeps == ASSUME BeltHolds, ChainInv, Chain!Age PROVE ChainInv'
<1> USE DEF ChainInv
<1>1. /\ UNCHANGED <<state, xid, entries, nextSeq, nextXid, xmax, candidate, chain, anchors>>
      /\ UNCHANGED <<sealer, run>> /\ candidate # NoCandidate /\ Chain!Uncovered = {}
  BY DEF Chain!Age, Chain!postingVars, Chain!idVars, Chain!runVars
<1>2. \A s : Sealable(run[s].new[1])' <=> Sealable(run[s].new[1])
  BY <1>1 DEF Sealable, SettledUpTo, OpenTx, Chain!Tip, Chain!Last, Chain!HeadHash, Chain!Visible
<1>3. Chain!Tip(chain)' = Chain!Tip(chain) /\ Chain!HeadHash(chain)' = Chain!HeadHash(chain)
  BY <1>1 DEF Chain!Tip, Chain!Last, Chain!HeadHash
<1>4. OneRun' /\ RunKnows'
  BY <1>1, <1>2, <1>3 DEF OneRun, RunKnows
<1>5. CandidateCovers'
  <2>1. /\ candidate.upto \in Nat /\ candidate.upto < nextSeq /\ candidate.horizon \in Nat
    BY <1>1 DEF CandidateCovers
  <2>2. ASSUME NEW t \in Txs, OpenTx(t), NEW n \in entries[t], n <= candidate.upto
        PROVE  xid[t] < candidate.horizon
    <3>1. ~(xid[t] >= candidate.horizon)
      BY <1>1, <2>2 DEF Chain!Uncovered, Chain!Open, OpenTx
    <3>2. xid[t] \in Nat
      BY DEF ChainTypes
    <3> QED
      BY <2>1, <3>1, <3>2
  <2> QED
    BY <1>1, <2>1, <2>2 DEF CandidateCovers, OpenTx
<1>6. /\ sealer' \in [Sealers -> {"idle", "entered", "examined", "read"}]
      /\ run' = [s \in Sealers |-> run'[s]] /\ nextXid' \in Nat /\ xmax' \in Nat
  BY <1>1 DEF ChainTypes
<1> QED
  BY <1>1, <1>4, <1>5, <1>6, RunKeeps

\* A checkpoint of what is settled is appended.
LEMMA AppendKeeps ==
  ASSUME ChainInv, NEW x, Sealable(x), chain' = chain \o <<x>>,
         UNCHANGED <<state, xid, entries, nextSeq, anchors>>
  PROVE  TipSettled' /\ ChainVerifies' /\ \E S : chain' \in Chain!Seq(S)
<1> USE DEF ChainInv
<1>1. PICK S : chain \in Chain!Seq(S)
  BY DEF ChainTypes
<1>2. PICK n : n = Chain!Len(chain)
  OBVIOUS
<1>3. n \in Nat /\ DOMAIN chain = 1 .. n
  BY <1>1, <1>2
<1>4. chain \in Chain!Seq(S \cup {x}) /\ <<x>> \in Chain!Seq(S \cup {x})
  BY <1>1
<1>5. /\ chain' \in Chain!Seq(S \cup {x}) /\ DOMAIN chain' = 1 .. (n + 1)
      /\ Chain!Len(chain') = n + 1 /\ chain'[n + 1] = x
      /\ \A i \in 1 .. n : chain'[i] = chain[i]
  BY <1>2, <1>4
<1>6. Chain!Tip(chain') = x.upto /\ Chain!HeadHash(chain') = x.hash
  <2>1. chain' # <<>> /\ Chain!Last(chain') = x
    BY <1>3, <1>5 DEF Chain!Last
  <2> QED
    BY <2>1 DEF Chain!Tip, Chain!HeadHash
<1>7. PICK tip : tip = Chain!Tip(chain)
  OBVIOUS
<1>8. tip \in Nat /\ x.upto \in Nat /\ tip < x.upto
  BY <1>7 DEF Sealable, SettledUpTo, TipSettled
<1>9. Chain!Visible' = Chain!Visible
  BY DEF Chain!Visible
<1>10. TipSettled'
  <2>1. SettledUpTo(Chain!Tip(chain))'
    BY <1>6 DEF Sealable, SettledUpTo, OpenTx
  <2>2. \A i \in 1 .. n : chain[i].upto \in Nat /\ chain[i].upto <= tip
    BY <1>3, <1>7 DEF TipSettled
  <2>3. \A i \in 1 .. (n + 1) : chain'[i].upto \in Nat /\ chain'[i].upto <= x.upto
    <3>1. \A i \in 1 .. (n + 1) : i \in 1 .. n \/ i = n + 1
      BY <1>3
    <3>2. \A i \in 1 .. n : chain[i].upto \in Nat /\ chain[i].upto <= x.upto
      BY <1>8, <2>2
    <3>3. \A i \in 1 .. n : chain'[i].upto \in Nat /\ chain'[i].upto <= x.upto
      BY <1>5, <3>2
    <3> QED
      BY <1>5, <1>8, <3>1, <3>3
  <2> QED
    BY <1>5, <1>6, <2>1, <2>3 DEF TipSettled
<1>11. ChainVerifies'
  <2>1. ASSUME NEW i \in 1 .. (n + 1)
        PROVE  LET before == Chain!SubSeq(chain', 1, i - 1) IN
               /\ chain'[i].prev = Chain!HeadHash(before)
               /\ Chain!Tip(before) < chain'[i].upto
               /\ chain'[i].segment
                    = {k \in Chain!Visible : Chain!Tip(before) < k /\ k <= chain'[i].upto}
    <3>1. CASE i = n + 1
      <4>1. Chain!SubSeq(chain', 1, i - 1) = chain
        BY <1>2, <1>3, <1>4, <3>1
      <4> QED
        BY <1>5, <3>1, <4>1 DEF Sealable
    <3>2. CASE i \in 1 .. n
      <4>1. Chain!SubSeq(chain', 1, i - 1) = Chain!SubSeq(chain, 1, i - 1)
        BY <1>2, <1>3, <1>4, <1>5, <3>2
      <4>2. chain'[i] = chain[i] /\ i \in DOMAIN chain
        BY <1>3, <1>5, <3>2
      <4> QED
        BY <4>1, <4>2 DEF ChainVerifies, Chain!ChainVerifies
    <3>3. i \in 1 .. n \/ i = n + 1
      BY <1>3
    <3> QED
      BY <3>1, <3>2, <3>3
  <2>2. \A j \in DOMAIN anchors :
          \E i \in 1 .. n :
            chain[i].upto = anchors[j].upto /\ chain[i].hash = anchors[j].hash
    BY <1>3 DEF ChainVerifies, Chain!ChainVerifies
  <2>3. \A j \in DOMAIN anchors :
          \E i \in 1 .. (n + 1) :
            chain'[i].upto = anchors[j].upto /\ chain'[i].hash = anchors[j].hash
    <3>1. \A i \in 1 .. n : i \in 1 .. (n + 1) /\ chain'[i] = chain[i]
      BY <1>3, <1>5
    <3> QED
      BY <2>2, <3>1
  <2> QED
    BY <1>5, <1>9, <2>1, <2>3 DEF ChainVerifies, Chain!ChainVerifies
<1> QED
  BY <1>5, <1>10, <1>11

LEMMA LeaveKeeps == ASSUME ChainInv, NEW s \in Sealers, Chain!Leave(s) PROVE ChainInv'
<1> USE DEF ChainInv
<1>1. /\ UNCHANGED <<state, xid, entries, nextSeq, anchors>>
      /\ sealer[s] = "read" /\ sealer' = [sealer EXCEPT ![s] = "idle"]
      /\ run' = [run EXCEPT ![s] = <<>>]
  BY DEF Chain!Leave, Chain!postingVars, Chain!sealVars
<1>2. \A u \in Sealers : sealer'[u] = "idle"
  BY <1>1 DEF OneRun, ChainTypes
<1>3. OneRun' /\ RunKnows'
  BY <1>2 DEF OneRun, RunKnows
<1>4. TakenInOrder' /\ AnchorsInOrder'
  BY <1>1 DEF TakenInOrder, AnchorsInOrder, OpenTx
<1>5. /\ sealer' \in [Sealers -> {"idle", "entered", "examined", "read"}]
      /\ run' = [u \in Sealers |-> run'[u]]
  BY <1>1 DEF ChainTypes
<1>6. run[s].highest \in Nat /\ run[s].highest < nextSeq
  BY <1>1 DEF RunKnows
<1>0. /\ nextXid \in Nat /\ xmax \in Nat /\ run[s].xid \in Nat
      /\ nextXid' \in Nat /\ xmax' \in Nat
  <2>1. nextXid \in Nat /\ xmax \in Nat /\ run[s].xid \in Nat
    BY <1>1 DEF ChainTypes, RunKnows
  <2>2. /\ nextXid' = nextXid + 1 \/ nextXid' = nextXid
        /\ \/ xmax' = xmax
           \/ xmax' = Chain!Completed(nextXid) \/ xmax' = Chain!Completed(run[s].xid)
    BY DEF Chain!Leave
  <2> QED
    BY <2>1, <2>2, CompletedType
<1>7. \/ candidate' = candidate /\ (aged' => aged)
      \/ candidate' = NoCandidate
      \/ candidate' = [upto |-> run[s].highest, horizon |-> xmax] /\ ~aged'
  <2>1. CASE UNCHANGED Chain!sealVars
    BY <2>1 DEF Chain!sealVars
  <2>2. CASE candidate' = [upto |-> run[s].highest, horizon |-> xmax] /\ aged' = FALSE
    BY <2>2
  <2>3. CASE /\ candidate' = (IF run[s].drop THEN NoCandidate ELSE candidate)
             /\ aged' = (aged /\ (IF run[s].drop THEN NoCandidate ELSE candidate) # NoCandidate)
    BY <2>3
  <2> QED
    BY <2>1, <2>2, <2>3 DEF Chain!Leave
<1>8. CandidateCovers'
  <2>1. CASE candidate' = candidate /\ (aged' => aged)
    BY <1>1, <2>1 DEF CandidateCovers, OpenTx
  <2>2. CASE candidate' = NoCandidate
    BY <2>2 DEF CandidateCovers
  <2>3. CASE candidate' = [upto |-> run[s].highest, horizon |-> xmax] /\ ~aged'
    <3>1. candidate'.upto = run[s].highest /\ candidate'.horizon = xmax
      BY <2>3
    <3> QED
      BY <1>0, <1>1, <1>6, <2>3, <3>1 DEF CandidateCovers
  <2> QED
    BY <1>7, <2>1, <2>2, <2>3
<1>9. \/ run[s].new = <<>>
      \/ run[s].new = <<run[s].new[1]>> /\ Sealable(run[s].new[1])
  BY <1>1 DEF RunKnows
<1>10. PICK S : chain \in Chain!Seq(S)
  BY DEF ChainTypes
<1>11. CASE chain' = chain
  <2>1. Chain!Tip(chain)' = Chain!Tip(chain)
    BY <1>11 DEF Chain!Tip, Chain!Last
  <2>2. TipSettled'
    BY <1>1, <1>11, <2>1 DEF TipSettled, SettledUpTo, OpenTx
  <2>3. Chain!Visible' = Chain!Visible
    BY <1>1 DEF Chain!Visible
  <2>4. ChainVerifies'
    BY <1>1, <1>11, <2>3 DEF ChainVerifies, Chain!ChainVerifies
  <2>5. ChainTypes'
    BY <1>0, <1>1, <1>5, <1>11 DEF ChainTypes
  <2> QED
    BY <1>3, <1>4, <1>8, <2>2, <2>4, <2>5
<1>12. CASE chain' = chain \o <<run[s].new[1]>> /\ Sealable(run[s].new[1])
  <2>1. PICK x : x = run[s].new[1]
    OBVIOUS
  <2>2. TipSettled' /\ ChainVerifies' /\ \E T : chain' \in Chain!Seq(T)
    BY <1>1, <1>12, <2>1, AppendKeeps
  <2>3. ChainTypes'
    BY <1>0, <1>1, <1>5, <2>2 DEF ChainTypes
  <2> QED
    BY <1>3, <1>4, <1>8, <2>2, <2>3
<1>13. chain' = chain \/ chain' = chain \o run[s].new
  BY DEF Chain!Leave, Chain!sealVars
<1>14. chain \o <<>> = chain
  BY <1>10
<1> QED
  BY <1>9, <1>11, <1>12, <1>13, <1>14

LEMMA AnchorKeeps == ASSUME ChainInv, Chain!Anchor PROVE ChainInv'
<1> USE DEF ChainInv
<1> DEFINE anchor == [upto |-> Chain!Tip(chain), hash |-> Chain!HeadHash(chain)]
<1>0. nextXid' \in Nat /\ xmax' \in Nat
  <2>1. nextXid \in Nat /\ nextXid' = nextXid + 1 /\ xmax' = Chain!Completed(nextXid)
    BY DEF Chain!Anchor, ChainTypes
  <2> QED
    BY <2>1, CompletedType
<1>1. /\ UNCHANGED <<state, xid, entries, nextSeq, candidate, aged, chain, sealer, run>>
      /\ Chain!Tip(chain) > Chain!Tip(anchors) /\ anchors' = Chain!Append(anchors, anchor)
  BY DEF Chain!Anchor, Chain!postingVars, Chain!sealVars, Chain!runVars
<1>2. PICK S : anchors \in Chain!Seq(S)
  BY DEF ChainTypes
<1>3. PICK T : chain \in Chain!Seq(T)
  BY DEF ChainTypes
<1>4. PICK n : n = Chain!Len(anchors) /\ n \in Nat /\ DOMAIN anchors = 1 .. n
  BY <1>2
<1>5. Chain!Tip(chain) \in Nat
  BY DEF TipSettled, SettledUpTo
<1>6. Chain!Tip(anchors) \in Nat
  <2>1. CASE anchors = <<>>
    BY <2>1 DEF Chain!Tip
  <2>2. CASE anchors # <<>>
    <3>1. n \in DOMAIN anchors /\ Chain!Last(anchors) = anchors[n]
      BY <1>2, <1>4, <2>2 DEF Chain!Last
    <3> QED
      BY <2>2, <3>1 DEF Chain!Tip, AnchorsInOrder
  <2> QED
    BY <2>1, <2>2
<1>7. chain # <<>>
  BY <1>1, <1>5, <1>6 DEF Chain!Tip
<1>8. PICK last : last = Chain!Len(chain) /\ last \in DOMAIN chain
  BY <1>3, <1>7
<1>9. chain[last].upto = anchor.upto /\ chain[last].hash = anchor.hash /\ anchor.upto \in Nat
  BY <1>5, <1>7, <1>8 DEF Chain!Tip, Chain!HeadHash, Chain!Last
<1> HIDE DEF anchor
<1>10. /\ anchors' \in Chain!Seq(S \cup {anchor}) /\ DOMAIN anchors' = 1 .. (n + 1)
       /\ anchors'[n + 1] = anchor /\ \A j \in 1 .. n : anchors'[j] = anchors[j]
  <2>1. anchors \in Chain!Seq(S \cup {anchor}) /\ anchor \in S \cup {anchor}
    BY <1>2
  <2> QED
    BY <1>1, <1>4, <2>1
<1>11. ChainTypes'
  BY <1>0, <1>1, <1>10 DEF ChainTypes
<1>12. \A j \in 1 .. (n + 1) : j \in 1 .. n \/ j = n + 1
  BY <1>4
<1>13. AnchorsInOrder'
  <2>1. \A j \in 1 .. n : anchors'[j].upto \in Nat
    BY <1>4, <1>10 DEF AnchorsInOrder
  <2> QED
    BY <1>9, <1>10, <1>12, <2>1 DEF AnchorsInOrder
<1>14. Chain!Visible' = Chain!Visible
  BY <1>1 DEF Chain!Visible
<1>15. ChainVerifies'
  <2>1. \A j \in 1 .. n : \E i \in DOMAIN chain :
          chain[i].upto = anchors'[j].upto /\ chain[i].hash = anchors'[j].hash
    BY <1>4, <1>10 DEF ChainVerifies, Chain!ChainVerifies
  <2>2. \A j \in 1 .. (n + 1) : \E i \in DOMAIN chain :
          chain[i].upto = anchors'[j].upto /\ chain[i].hash = anchors'[j].hash
    BY <1>8, <1>9, <1>10, <1>12, <2>1
  <2> QED
    BY <1>1, <1>10, <1>14, <2>2 DEF ChainVerifies, Chain!ChainVerifies
<1>16. Chain!Tip(chain)' = Chain!Tip(chain) /\ Chain!HeadHash(chain)' = Chain!HeadHash(chain)
  BY <1>1 DEF Chain!Tip, Chain!HeadHash, Chain!Last
<1>17. TakenInOrder' /\ CandidateCovers' /\ OneRun'
  BY <1>1 DEF TakenInOrder, CandidateCovers, OneRun, OpenTx
<1>18. TipSettled'
  BY <1>1, <1>16 DEF TipSettled, SettledUpTo, OpenTx
<1>19. \A s : Sealable(run[s].new[1])' <=> Sealable(run[s].new[1])
  BY <1>1, <1>14, <1>16 DEF Sealable, SettledUpTo, OpenTx
<1>20. RunKnows'
  BY <1>1, <1>16, <1>19 DEF RunKnows
<1> QED
  BY <1>11, <1>13, <1>15, <1>17, <1>18, <1>20

LEMMA ChainStep == BeltHolds /\ ChainInv /\ [Chain!Next]_(Chain!vars) => ChainInv'
<1> SUFFICES ASSUME BeltHolds, ChainInv, [Chain!Next]_(Chain!vars) PROVE ChainInv'
  OBVIOUS
<1>1. CASE UNCHANGED Chain!vars
  <2>1. /\ UNCHANGED <<state, xid, entries, nextSeq, nextXid, xmax, candidate, aged>>
        /\ UNCHANGED <<chain, anchors, sealer, run>>
    BY <1>1 DEF Chain!vars, Chain!postingVars, Chain!idVars, Chain!sealVars, Chain!runVars
  <2>2. Chain!Tip(chain)' = Chain!Tip(chain) /\ Chain!HeadHash(chain)' = Chain!HeadHash(chain)
    BY <2>1 DEF Chain!Tip, Chain!HeadHash, Chain!Last
  <2>3. Chain!Visible' = Chain!Visible
    BY <2>1 DEF Chain!Visible
  <2>4. \A s : Sealable(run[s].new[1])' <=> Sealable(run[s].new[1])
    BY <2>1, <2>2, <2>3 DEF Sealable, SettledUpTo, OpenTx
  <2>5. CandidateCovers' /\ OneRun' /\ RunKnows'
    BY <2>1, <2>2, <2>4 DEF ChainInv, CandidateCovers, OneRun, RunKnows, OpenTx
  <2> QED
    BY <2>1, <2>5, RunKeeps DEF ChainInv, ChainTypes
<1>2. CASE Chain!Next
  BY <1>2, ChainPostings, EnterKeeps, ExamineKeeps, ReadKeeps, LeaveKeeps, DieSealingKeeps,
     AgeKeeps, AnchorKeeps DEF Chain!Next, Chain!Seal
<1> QED
  BY <1>1, <1>2

-----------------------------------------------------------------------------
(* The reconciliation of a report and the decisions on its cases. *)

Adjustments ==
  [status : {"proposed", "applied", "rejected"}, ref : Refs, large : BOOLEAN,
   proposer : Users, approver : Users \cup {Reports!Absent}]

Operations ==
  {Reports!Idle} \cup [at : {"insert"}, ref : Refs, large : BOOLEAN]
    \cup [at : {"post", "close"}, adj : Adjs]

Statuses == {Reports!Absent, "open", "acknowledged", "resolved"}

ReportTypes ==
  /\ attempt \in [Refs -> {Reports!Absent, "open", "succeeded"}]
  /\ report \in {"open", "reconciled", "swept"}
  /\ lines \in [Refs -> Int]
  /\ loader \in [Loaders -> SUBSET Refs]
  /\ cases = [r \in Refs |-> [status |-> cases[r].status, by |-> cases[r].by]]
  /\ \A r \in Refs : cases[r].status \in Statuses
  /\ adj \in [Adjs -> {Reports!NoAdj} \cup Adjustments]
  /\ op \in [Users -> Operations]
  /\ books \in [Accounts -> Int]

\* A sweep's snapshot shows the lines as they are, but for those that
\* committed since; a settled attempt stays settled.
SnapshotHolds ==
  sweep # Reports!Idle =>
    /\ \A r \in Refs : lines[r] # 0 /\ r \notin overtaken => sweep.lines[r] = lines[r]
    /\ \A r \in Refs : sweep.attempt[r] = "succeeded" => attempt[r] = "succeeded"

\* A closed report has no load under way, and an open one no cases.
ClosedOnce ==
  /\ report # "open" => \A l \in Loaders : loader[l] = {}
  /\ report = "open" =>
       /\ \A r \in Refs : cases[r].status = Reports!Absent
       /\ \A a \in Adjs : adj[a] = Reports!NoAdj
       /\ \A u \in Users : op[u] = Reports!Idle

\* A case has one live adjustment.
OneLive ==
  \A a, b \in Adjs :
    Reports!Live(a) /\ Reports!Live(b) /\ adj[a].ref = adj[b].ref => a = b

\* An approval under way is of an adjustment that was proposed, by another
\* person if it is large; one that has taken it is alone and it is still open.
Approvals ==
  \A u \in Users :
    /\ op[u].at \in {"post", "close"} =>
         /\ adj[op[u].adj] # Reports!NoAdj
         /\ adj[op[u].adj].large => u # adj[op[u].adj].proposer
    /\ op[u].at = "close" =>
         /\ adj[op[u].adj].status = "proposed"
         /\ \A v \in Users : op[v].at = "close" /\ op[v].adj = op[u].adj => v = u

AppliedAdjs == {a \in Adjs : adj[a].status = "applied"}

\* The decisions taken: what BooksMatchDecisions says, in parts.
DecisionsBooked ==
  /\ IsFiniteSet(AppliedAdjs)
  /\ decisions = AppliedAdjs
  /\ books[Platform("recon.differences")] = Cardinality(AppliedAdjs)
  /\ \A a \in AppliedAdjs :
       /\ adj[a].large => adj[a].approver # adj[a].proposer
       /\ cases[adj[a].ref].status = "resolved"

ReportInv ==
  /\ ReportTypes /\ SnapshotHolds /\ ClosedOnce /\ OneLive /\ Approvals /\ DecisionsBooked
  /\ LinesAreClassified

LEMMA ReportInit == Reports!Init => ReportInv
<1> SUFFICES ASSUME Reports!Init PROVE ReportInv
  OBVIOUS
<1> USE DEF Reports!Init, Reports!LedgerInit, Reports!Idle, Reports!NoAdj, Reports!Absent
<1>1. Platform("recon.differences") \in Accounts
  BY DEF Platform, Accounts, PlatformCodes
<1>2. AppliedAdjs = {}
  BY DEF AppliedAdjs
<1>3. ReportTypes
  BY DEF ReportTypes, Operations, Statuses
<1>4. SnapshotHolds /\ ClosedOnce /\ OneLive /\ Approvals
  BY DEF SnapshotHolds, ClosedOnce, OneLive, Approvals, Reports!Live
<1>5. DecisionsBooked
  BY <1>1, <1>2, FS_EmptySet DEF DecisionsBooked
<1>6. LinesAreClassified
  BY DEF LinesAreClassified, Reports!LinesAreClassified
<1> QED
  BY <1>3, <1>4, <1>5, <1>6 DEF ReportInv

\* The provider's lines and the closing leave the decisions alone.
LEMMA ReportKeeps ==
  ASSUME ReportInv, UNCHANGED <<books, decisions, adj, op>>,
         UNCHANGED cases \/ report = "open",
         ReportTypes', SnapshotHolds', ClosedOnce', LinesAreClassified'
  PROVE  ReportInv'
<1> USE DEF ReportInv
<1>1. OneLive'
  BY DEF OneLive, Reports!Live
<1>2. Approvals'
  BY DEF Approvals
<1>3. DecisionsBooked'
  <2>1. AppliedAdjs' = AppliedAdjs
    BY DEF AppliedAdjs
  <2>2. report = "open" => AppliedAdjs = {}
    BY DEF AppliedAdjs, ClosedOnce, Reports!NoAdj, Reports!Absent
  <2> QED
    BY <2>1, <2>2 DEF DecisionsBooked
<1> QED
  BY <1>1, <1>2, <1>3

\* A line is compared with the attempt.
LEMMA ClassOfLine ==
  ASSUME NEW amount, NEW status, amount # 0
  PROVE  /\ status # "succeeded" => Reports!Class(amount, status) = "missing_in_ledger"
         /\ status = "succeeded" =>
              Reports!Class(amount, status)
                = IF amount = Reports!Charged THEN "matched" ELSE "amount_mismatch"
  BY DEF Reports!Class, Reports!Charged

\* Closing a report compares every line with what the ledger has.
LEMMA CloseKeeps ==
  ASSUME ReportInv, report = "open", NEW by \in {"reconciled", "swept"},
         NEW amounts, NEW statuses, Reports!Close(by, amounts, statuses),
         ~Reports!ReportLocked, UNCHANGED <<books, decisions, adj, op, attempt, lines, loader,
                                            overtaken>>,
         sweep' = sweep \/ sweep' = Reports!Idle,
         \A r \in Refs : lines[r] # 0 =>
           amounts[r] = lines[r] \/ (by = "swept" /\ r \in overtaken),
         \A r \in Refs : statuses[r] = "succeeded" => attempt[r] = "succeeded"
  PROVE  ReportInv'
<1> USE DEF ReportInv
<1>1. ReportTypes'
  <2>1. \A r \in Refs :
          /\ cases'[r].by = cases[r].by /\ cases'[r].status \in Statuses
          /\ cases'[r] = [status |-> cases'[r].status, by |-> cases'[r].by]
    BY DEF Reports!Close, ReportTypes, Statuses, Reports!Absent
  <2>2. cases' = [r \in Refs |-> cases'[r]]
    BY DEF Reports!Close
  <2>3. report' \in {"open", "reconciled", "swept"}
    BY DEF Reports!Close
  <2> QED
    BY <2>1, <2>2, <2>3 DEF ReportTypes
<1>2. SnapshotHolds'
  BY DEF SnapshotHolds
<1>3. ClosedOnce'
  BY DEF ClosedOnce, Reports!Close, Reports!ReportLocked
<1>4. LinesAreClassified'
  <2>1. ASSUME NEW r \in Refs, lines[r] # 0
        PROVE  \/ by = "swept" /\ r \in overtaken
               \/ /\ entry'[r] \in {"matched", "amount_mismatch", "missing_in_ledger"}
                  /\ entry'[r] = "matched" => lines[r] = Reports!Charged /\ attempt[r] = "succeeded"
    <3>1. entry'[r] = Reports!Class(amounts[r], statuses[r])
      BY DEF Reports!Close
    <3>2. CASE amounts[r] = lines[r]
      <4>1. CASE statuses[r] # "succeeded"
        BY <2>1, <3>1, <3>2, <4>1, ClassOfLine
      <4>2. CASE statuses[r] = "succeeded"
        BY <2>1, <3>1, <3>2, <4>2, ClassOfLine
      <4> QED
        BY <4>1, <4>2
    <3> QED
      BY <2>1, <3>2
  <2>2. report' = by
    BY DEF Reports!Close
  <2> QED
    BY <2>1, <2>2 DEF LinesAreClassified, Reports!LinesAreClassified
<1> QED
  BY <1>1, <1>2, <1>3, <1>4, ReportKeeps

LEMMA ReportStep == ASSUME ReportInv, Reports!Report PROVE ReportInv'
<1> USE DEF ReportInv
<1>1. ASSUME NEW r \in Refs, Reports!Charge(r) PROVE ReportInv'
  <2>1. attempt[r] # "succeeded" /\ attempt' = [attempt EXCEPT ![r] = "open"]
    BY <1>1 DEF Reports!Charge, Reports!Absent
  <2>2. /\ attempt' \in [Refs -> {Reports!Absent, "open", "succeeded"}]
        /\ \A q \in Refs : attempt[q] = "succeeded" => attempt'[q] = "succeeded"
    BY <2>1 DEF ReportTypes
  <2>3. UNCHANGED <<books, decisions, adj, op, cases, report, lines, loader, sweep, overtaken, entry>>
    BY <1>1 DEF Reports!Charge
  <2>4. ReportTypes' /\ ClosedOnce'
    BY <2>2, <2>3 DEF ReportTypes, ClosedOnce
  <2>5. SnapshotHolds' /\ LinesAreClassified'
    BY <2>2, <2>3 DEF SnapshotHolds, LinesAreClassified, Reports!LinesAreClassified
  <2> QED
    BY <2>3, <2>4, <2>5, ReportKeeps
<1>2. ASSUME NEW r \in Refs, Reports!ChargeCommits(r) PROVE ReportInv'
  <2>1. attempt' = [attempt EXCEPT ![r] = "succeeded"]
    BY <1>2 DEF Reports!ChargeCommits
  <2>2. /\ attempt' \in [Refs -> {Reports!Absent, "open", "succeeded"}]
        /\ \A q \in Refs : attempt[q] = "succeeded" => attempt'[q] = "succeeded"
    BY <2>1 DEF ReportTypes
  <2>3. UNCHANGED <<books, decisions, adj, op, cases, report, lines, loader, sweep, overtaken, entry>>
    BY <1>2 DEF Reports!ChargeCommits
  <2>4. ReportTypes' /\ ClosedOnce'
    BY <2>2, <2>3 DEF ReportTypes, ClosedOnce
  <2>5. SnapshotHolds' /\ LinesAreClassified'
    BY <2>2, <2>3 DEF SnapshotHolds, LinesAreClassified, Reports!LinesAreClassified
  <2> QED
    BY <2>3, <2>4, <2>5, ReportKeeps
<1>3. ASSUME NEW l \in Loaders, NEW batch \in SUBSET Refs, Reports!Load(l, batch) PROVE ReportInv'
  <2>1. /\ report = "open" /\ loader' = [loader EXCEPT ![l] = batch]
        /\ UNCHANGED <<books, decisions, adj, op, cases, attempt, report, lines, sweep, overtaken, entry>>
    BY <1>3 DEF Reports!Load
  <2>2. ReportTypes' /\ ClosedOnce'
    BY <2>1 DEF ReportTypes, ClosedOnce
  <2>3. SnapshotHolds' /\ LinesAreClassified'
    BY <2>1 DEF SnapshotHolds, LinesAreClassified, Reports!LinesAreClassified
  <2> QED
    BY <2>1, <2>2, <2>3, ReportKeeps
<1>4. ASSUME NEW l \in Loaders, NEW amount \in Reports!Reported, Reports!LoadCommits(l, amount)
      PROVE  ReportInv'
  <2>1. /\ loader[l] # {} /\ loader' = [loader EXCEPT ![l] = {}]
        /\ UNCHANGED <<books, decisions, adj, op, cases, attempt, report, sweep, entry>>
    BY <1>4 DEF Reports!LoadCommits
  <2>2. report = "open"
    BY <2>1 DEF ClosedOnce
  <2>3. amount \in Int /\ amount # 0
    BY DEF Reports!Reported
  <2>4. lines' = [r \in Refs |-> IF r \in loader[l] /\ lines[r] = 0 THEN amount ELSE lines[r]]
    BY <1>4 DEF Reports!LoadCommits
  <2>5. ReportTypes' /\ ClosedOnce'
    BY <2>1, <2>2, <2>3, <2>4 DEF ReportTypes, ClosedOnce
  <2>6. SnapshotHolds'
    <3>1. overtaken' = IF sweep = Reports!Idle THEN overtaken
                       ELSE overtaken \cup {r \in loader[l] : lines[r] = 0}
      BY <1>4 DEF Reports!LoadCommits
    <3> QED
      BY <2>1, <2>4, <3>1 DEF SnapshotHolds
  <2>7. LinesAreClassified'
    BY <2>1, <2>2 DEF LinesAreClassified, Reports!LinesAreClassified
  <2> QED
    BY <2>1, <2>5, <2>6, <2>7, ReportKeeps
<1>5. CASE Reports!PeriodEnds
  <2>1. UNCHANGED <<books, decisions, adj, op, cases, attempt, report, lines, loader, sweep, overtaken, entry>>
    BY <1>5 DEF Reports!PeriodEnds
  <2>2. ReportTypes' /\ ClosedOnce' /\ SnapshotHolds'
    BY <2>1 DEF ReportTypes, ClosedOnce, SnapshotHolds
  <2>3. LinesAreClassified'
    BY <2>1 DEF LinesAreClassified, Reports!LinesAreClassified
  <2> QED
    BY <2>1, <2>2, <2>3, ReportKeeps
<1>6. CASE Reports!Reconcile
  BY <1>6, CloseKeeps DEF Reports!Reconcile
<1>7. CASE Reports!SweepBegins
  <2>1. /\ report = "open" /\ sweep'.lines = lines /\ sweep'.attempt = attempt
        /\ UNCHANGED <<books, decisions, adj, op, cases, attempt, report, lines, loader, entry>>
    BY <1>7 DEF Reports!SweepBegins
  <2>2. ReportTypes' /\ ClosedOnce'
    BY <2>1 DEF ReportTypes, ClosedOnce
  <2>3. SnapshotHolds'
    BY <2>1 DEF SnapshotHolds
  <2>4. LinesAreClassified'
    BY <2>1 DEF LinesAreClassified, Reports!LinesAreClassified
  <2> QED
    BY <2>1, <2>2, <2>3, <2>4, ReportKeeps
<1>8. CASE Reports!SweepReaches
  <2>1. /\ sweep # Reports!Idle /\ sweep' = Reports!Idle
        /\ UNCHANGED <<books, decisions, adj, op, attempt, lines, loader, overtaken>>
    BY <1>8 DEF Reports!SweepReaches
  <2>2. CASE UNCHANGED <<report, entry, cases>>
    <3>1. ReportTypes' /\ ClosedOnce' /\ SnapshotHolds'
      BY <2>1, <2>2 DEF ReportTypes, ClosedOnce, SnapshotHolds
    <3>2. LinesAreClassified'
      BY <2>1, <2>2 DEF LinesAreClassified, Reports!LinesAreClassified
    <3> QED
      BY <2>1, <2>2, <3>1, <3>2, ReportKeeps
  <2>3. CASE /\ ~Reports!ReportLocked /\ report = "open"
             /\ Reports!Close("swept", sweep.lines, sweep.attempt)
    BY <2>1, <2>3, CloseKeeps DEF SnapshotHolds
  <2> QED
    BY <1>8, <2>2, <2>3 DEF Reports!SweepReaches
<1> QED
  BY <1>1, <1>2, <1>3, <1>4, <1>5, <1>6, <1>7, <1>8 DEF Reports!Report

\* The steps of the people who work the cases leave the report closed.
LEMMA WorkKeeps ==
  ASSUME ReportInv, report # "open", UNCHANGED Reports!reportVars,
         ReportTypes', OneLive', Approvals', DecisionsBooked'
  PROVE  ReportInv'
<1> USE DEF ReportInv, Reports!reportVars
<1>1. SnapshotHolds' /\ ClosedOnce'
  BY DEF SnapshotHolds, ClosedOnce
<1>2. LinesAreClassified'
  BY DEF LinesAreClassified, Reports!LinesAreClassified
<1> QED
  BY <1>1, <1>2

\* One that decides nothing.
LEMMA UndecidedKeeps ==
  ASSUME ReportInv, report # "open", UNCHANGED Reports!reportVars,
         UNCHANGED <<books, decisions, adj>>,
         cases' = [r \in Refs |-> [status |-> cases'[r].status, by |-> cases'[r].by]],
         \A r \in Refs : cases'[r].status \in Statuses,
         \A r \in Refs : cases[r].status = "resolved" => cases'[r].status = "resolved",
         op' \in [Users -> Operations], Approvals'
  PROVE  ReportInv'
<1> USE DEF ReportInv, Reports!reportVars
<1>1. ReportTypes'
  BY DEF ReportTypes
<1>2. OneLive'
  BY DEF OneLive, Reports!Live
<1>3. AppliedAdjs' = AppliedAdjs
  BY DEF AppliedAdjs
<1>4. \A a \in AppliedAdjs : adj[a].ref \in Refs
  BY DEF AppliedAdjs, ReportTypes, Adjustments, Reports!NoAdj, Reports!Absent
<1>5. DecisionsBooked'
  BY <1>3, <1>4 DEF DecisionsBooked
<1> QED
  BY <1>1, <1>2, <1>5, WorkKeeps

\* A case that is worked.
LEMMA CaseKeeps ==
  ASSUME ReportInv, UNCHANGED Reports!reportVars, UNCHANGED <<books, decisions, adj, op>>,
         NEW r \in Refs, cases[r].status \in {"open", "acknowledged"},
         NEW status \in {"acknowledged", "resolved"}, NEW by,
         cases' = [cases EXCEPT ![r] = [status |-> status, by |-> by]]
  PROVE  ReportInv'
<1> USE DEF ReportInv
<1>1. report # "open"
  BY DEF ClosedOnce, Reports!Absent
<1>2. \A q \in Refs :
        cases'[q] = IF q = r THEN [status |-> status, by |-> by]
                    ELSE [status |-> cases[q].status, by |-> cases[q].by]
  BY DEF ReportTypes
<1>3. cases' = [q \in Refs |-> cases'[q]]
  BY DEF ReportTypes
<1>4. cases' = [q \in Refs |-> [status |-> cases'[q].status, by |-> cases'[q].by]]
  BY <1>2, <1>3
<1>5. \A q \in Refs :
        /\ cases'[q].status \in Statuses
        /\ cases[q].status = "resolved" => cases'[q].status = "resolved"
  BY <1>2 DEF ReportTypes, Statuses
<1>6. Approvals' /\ op' \in [Users -> Operations]
  BY DEF Approvals, ReportTypes
<1> QED
  BY <1>1, <1>4, <1>5, <1>6, UndecidedKeeps

\* A step of a person's call that changes no case and no adjustment.
LEMMA CallKeeps ==
  ASSUME ReportInv, report # "open", UNCHANGED Reports!reportVars,
         UNCHANGED <<books, decisions, adj, cases>>, op' \in [Users -> Operations], Approvals'
  PROVE  ReportInv'
<1>1. /\ cases' = [r \in Refs |-> [status |-> cases'[r].status, by |-> cases'[r].by]]
      /\ \A r \in Refs : cases'[r].status \in Statuses
  BY DEF ReportInv, ReportTypes
<1> QED
  BY <1>1, UndecidedKeeps

LEMMA CaseSteps ==
  ASSUME ReportInv,
         \/ \E r \in Refs : Reports!Acknowledge(r)
         \/ \E u \in Users, r \in Refs : Reports!Resolve(u, r)
  PROVE  ReportInv'
<1>1. ASSUME NEW r \in Refs, Reports!Acknowledge(r) PROVE ReportInv'
  <2>1. cases' = [cases EXCEPT ![r] = [status |-> "acknowledged", by |-> cases[r].by]]
    <3>1. cases' = [cases EXCEPT ![r] = [cases[r] EXCEPT !.status = "acknowledged"]]
      BY <1>1 DEF Reports!Acknowledge
    <3>2. cases[r] = [status |-> cases[r].status, by |-> cases[r].by]
      BY DEF ReportInv, ReportTypes
    <3>3. [cases[r] EXCEPT !.status = "acknowledged"]
            = [status |-> "acknowledged", by |-> cases[r].by]
      BY <3>2
    <3> QED
      BY <3>1, <3>3
  <2> QED
    BY <1>1, <2>1, CaseKeeps DEF Reports!Acknowledge
<1>2. ASSUME NEW u \in Users, NEW r \in Refs, Reports!Resolve(u, r) PROVE ReportInv'
  BY <1>2, CaseKeeps DEF Reports!Resolve
<1> QED
  BY <1>1, <1>2

LEMMA ProposeKeeps ==
  ASSUME ReportInv, NEW u \in Users, NEW r \in Refs, NEW large \in BOOLEAN,
         Reports!Propose(u, r, large)
  PROVE  ReportInv'
<1> USE DEF ReportInv
<1>1. report # "open"
  BY DEF Reports!Propose, ClosedOnce, Reports!Absent
<1> DEFINE call1 == [at |-> "insert", ref |-> r, large |-> large]
<1>2. call1 \in Operations /\ call1.at = "insert"
  BY DEF Operations
<1>3. op' = [op EXCEPT ![u] = call1]
  BY DEF Reports!Propose
<1> HIDE DEF call1
<1>4. op' \in [Users -> Operations]
  BY <1>2, <1>3 DEF ReportTypes
<1>5. UNCHANGED Reports!reportVars /\ UNCHANGED <<books, decisions, adj, cases>>
  BY DEF Reports!Propose
<1>6. \A v \in Users : op'[v] = IF v = u THEN call1 ELSE op[v]
  BY <1>3 DEF ReportTypes
<1>7. Approvals'
  BY <1>2, <1>5, <1>6 DEF Approvals
<1> QED
  BY <1>1, <1>4, <1>5, <1>7, CallKeeps

LEMMA ApproveKeeps ==
  ASSUME ReportInv, NEW u \in Users, NEW a \in Adjs, Reports!Approve(u, a)
  PROVE  ReportInv'
<1> USE DEF ReportInv
<1>1. /\ adj[a].status = "proposed" /\ adj[a] # Reports!NoAdj
      /\ adj[a].large => u # adj[a].proposer
  BY DEF Reports!Approve, Reports!NoAdj, Reports!Absent
<1>2. report # "open"
  BY <1>1 DEF ClosedOnce
<1> DEFINE call1 == [at |-> "post", adj |-> a]
<1>3. call1 \in Operations /\ call1.at = "post" /\ call1.adj = a
  BY DEF Operations
<1>4. op' = [op EXCEPT ![u] = call1]
  BY DEF Reports!Approve
<1> HIDE DEF call1
<1>5. op' \in [Users -> Operations]
  BY <1>3, <1>4 DEF ReportTypes
<1>6. UNCHANGED Reports!reportVars /\ UNCHANGED <<books, decisions, adj, cases>>
  BY DEF Reports!Approve
<1>7. \A v \in Users : op'[v] = IF v = u THEN call1 ELSE op[v]
  BY <1>4 DEF ReportTypes
<1>8. Approvals'
  BY <1>1, <1>3, <1>6, <1>7 DEF Approvals
<1> QED
  BY <1>2, <1>5, <1>6, <1>8, CallKeeps

LEMMA OnPostedKeeps ==
  ASSUME ReportInv, NEW u \in Users, Reports!OnPosted(u)
  PROVE  ReportInv'
<1> USE DEF ReportInv
<1>1. op[u].at = "post" /\ ~Reports!AdjLocked(op[u].adj)
  BY DEF Reports!OnPosted
<1>2. op[u] # Reports!Idle /\ op[u] \in Operations
  BY <1>1 DEF Reports!Idle, ReportTypes
<1>3. report # "open"
  BY <1>2 DEF ClosedOnce
<1>4. PICK a \in Adjs : op[u].adj = a
  BY <1>1, <1>2 DEF Operations
<1>5. PICK done : done = (a \in decisions \/ adj[a].status # "proposed")
  OBVIOUS
<1>6. PICK next \in Operations :
        /\ op' = [op EXCEPT ![u] = next]
        /\ \/ next.at = "idle"
           \/ next.at = "close" /\ next.adj = a /\ adj[a].status = "proposed"
  <2>1. CASE op' = [op EXCEPT ![u] = Reports!Idle]
    <3>1. Reports!Idle \in Operations /\ Reports!Idle.at = "idle"
      BY DEF Operations, Reports!Idle
    <3> QED
      BY <2>1, <3>1
  <2>2. CASE op' = [op EXCEPT ![u] = [at |-> "close", adj |-> a]] /\ adj[a].status = "proposed"
    <3>0. [at |-> "close", adj |-> a] \in Operations
      BY DEF Operations
    <3>1. PICK close \in Operations :
            close = [at |-> "close", adj |-> a] /\ close.at = "close" /\ close.adj = a
      BY <3>0
    <3>2. op' = [op EXCEPT ![u] = close]
      BY <2>2, <3>1
    <3> QED
      BY <2>2, <3>1, <3>2
  <2> QED
    BY <1>4, <2>1, <2>2 DEF Reports!OnPosted
<1>7. op' \in [Users -> Operations]
  BY <1>6 DEF ReportTypes
<1>8. \A v \in Users : op'[v] = IF v = u THEN next ELSE op[v]
  BY <1>6 DEF ReportTypes
<1>9. UNCHANGED Reports!reportVars /\ UNCHANGED <<books, decisions, adj, cases>>
  BY DEF Reports!OnPosted
<1>10. \A v \in Users : ~(op[v].at = "close" /\ op[v].adj = a)
  BY <1>1, <1>4 DEF Reports!AdjLocked, Reports!AdjHeldBy
<1>11. Approvals'
  BY <1>1, <1>4, <1>6, <1>8, <1>9, <1>10 DEF Approvals
<1> QED
  BY <1>3, <1>7, <1>9, <1>11, CallKeeps

LEMMA DeadlockKeeps ==
  ASSUME ReportInv, NEW u \in Users, NEW v \in Users, Reports!Deadlock(u, v)
  PROVE  ReportInv'
<1> USE DEF ReportInv
<1>1. op[u].at = "insert" /\ op[v].at = "close" /\ u # v
  BY DEF Reports!Deadlock
<1>2. op[v] # Reports!Idle /\ op[v] \in Operations
  BY <1>1 DEF Reports!Idle, ReportTypes
<1>3. report # "open"
  BY <1>2 DEF ClosedOnce
<1>4. PICK a \in Adjs : op[v].adj = a /\ op[v] = [at |-> "close", adj |-> a]
  BY <1>1, <1>2 DEF Operations, Reports!Idle
<1>5. PICK next \in {"post", "close"} : op' = [op EXCEPT ![u] = Reports!Idle, ![v].at = next]
  BY DEF Reports!Deadlock
<1>6. \A w \in Users : op'[w] = IF w = u THEN Reports!Idle
                                ELSE IF w = v THEN [at |-> next, adj |-> a] ELSE op[w]
  BY <1>1, <1>4, <1>5 DEF ReportTypes
<1>7. [at |-> next, adj |-> a] \in Operations /\ Reports!Idle \in Operations
  BY DEF Operations
<1>8. op' = [w \in Users |-> op'[w]]
  BY <1>5 DEF ReportTypes
<1>9. op' \in [Users -> Operations]
  BY <1>6, <1>7, <1>8 DEF ReportTypes
<1>10. UNCHANGED Reports!reportVars /\ UNCHANGED <<books, decisions, adj, cases>>
  BY DEF Reports!Deadlock
<1>11. Reports!Idle.at = "idle"
  BY DEF Reports!Idle
<1>12. Approvals'
  BY <1>1, <1>4, <1>6, <1>10, <1>11 DEF Approvals
<1> QED
  BY <1>3, <1>9, <1>10, <1>12, CallKeeps

LEMMA RejectKeeps ==
  ASSUME ReportInv, NEW a \in Adjs, Reports!Reject(a)
  PROVE  ReportInv'
<1> USE DEF ReportInv
<1>1. adj[a].status = "proposed" /\ ~Reports!AdjLocked(a)
  BY DEF Reports!Reject
<1>2. report # "open"
  BY <1>1 DEF ClosedOnce, Reports!NoAdj, Reports!Absent
<1>3. adj[a] \in Adjustments
  BY <1>1 DEF ReportTypes, Reports!NoAdj, Reports!Absent
<1> DEFINE row == [adj[a] EXCEPT !.status = "rejected"]
<1>4. /\ row \in Adjustments /\ row.status = "rejected" /\ row # Reports!NoAdj
      /\ row.large = adj[a].large /\ row.proposer = adj[a].proposer
  BY <1>3 DEF Adjustments, Reports!NoAdj, Reports!Absent
<1>5. adj' = [adj EXCEPT ![a] = row]
  BY DEF Reports!Reject
<1> HIDE DEF row
<1>6. UNCHANGED Reports!reportVars /\ UNCHANGED <<books, decisions, cases, op>>
  BY DEF Reports!Reject
<1>7. \A b \in Adjs : adj'[b] = IF b = a THEN row ELSE adj[b]
  BY <1>5 DEF ReportTypes
<1>8. adj' \in [Adjs -> {Reports!NoAdj} \cup Adjustments]
  BY <1>4, <1>5 DEF ReportTypes
<1>9. ReportTypes'
  BY <1>6, <1>8 DEF ReportTypes, Reports!reportVars
<1>10. OneLive'
  BY <1>4, <1>7 DEF OneLive, Reports!Live
<1>11. \A u \in Users : ~(op[u].at = "close" /\ op[u].adj = a)
  BY <1>1 DEF Reports!AdjLocked, Reports!AdjHeldBy
<1>12. Approvals'
  <2>1. ASSUME NEW u \in Users, op[u].at \in {"post", "close"}
        PROVE  /\ op[u].adj \in Adjs
               /\ adj'[op[u].adj] # Reports!NoAdj
               /\ adj'[op[u].adj].large => u # adj'[op[u].adj].proposer
    <3>1. op[u] \in Operations /\ op[u] # Reports!Idle
      BY <2>1 DEF ReportTypes, Reports!Idle
    <3>2. op[u].adj \in Adjs
      BY <2>1, <3>1 DEF Operations
    <3> QED
      BY <1>4, <1>7, <2>1, <3>2 DEF Approvals
  <2>2. ASSUME NEW u \in Users, op[u].at = "close"
        PROVE  adj'[op[u].adj].status = "proposed"
    BY <1>7, <1>11, <2>1, <2>2 DEF Approvals
  <2> QED
    BY <1>6, <2>1, <2>2 DEF Approvals
<1>13. AppliedAdjs' = AppliedAdjs
  <2>1. \A b \in Adjs : adj'[b].status = "applied" <=> adj[b].status = "applied"
    BY <1>1, <1>4, <1>7
  <2> QED
    BY <2>1 DEF AppliedAdjs
<1>14. DecisionsBooked'
  <2>1. \A b \in AppliedAdjs : b # a /\ adj'[b] = adj[b]
    BY <1>1, <1>7 DEF AppliedAdjs
  <2>2. DecisionsBooked
    OBVIOUS
  <2> HIDE DEF ReportInv
  <2> QED
    BY <1>6, <1>13, <2>1, <2>2 DEF DecisionsBooked
<1> QED
  BY <1>2, <1>6, <1>9, <1>10, <1>12, <1>14, WorkKeeps

\* The proposal ends, with a row of its own unless its case has a live one.
LEMMA InsertKeeps ==
  ASSUME ReportInv, NEW u \in Users, Reports!Insert(u)
  PROVE  ReportInv'
<1> USE DEF ReportInv
<1>1. op[u].at = "insert"
  BY DEF Reports!Insert
<1>2. op[u] # Reports!Idle /\ op[u] \in Operations
  BY <1>1 DEF Reports!Idle, ReportTypes
<1>3. report # "open"
  BY <1>2 DEF ClosedOnce
<1>4. op[u].ref \in Refs /\ op[u].large \in BOOLEAN
  BY <1>1, <1>2 DEF Operations
<1>5. op' = [op EXCEPT ![u] = Reports!Idle]
  BY DEF Reports!Insert
<1>6. Reports!Idle \in Operations /\ Reports!Idle.at = "idle"
  BY DEF Operations, Reports!Idle
<1>7. op' \in [Users -> Operations] /\ \A v \in Users : op'[v] = IF v = u THEN Reports!Idle ELSE op[v]
  BY <1>5, <1>6 DEF ReportTypes
<1>8. UNCHANGED Reports!reportVars /\ UNCHANGED <<books, decisions, cases>>
  BY DEF Reports!Insert
<1>9. CASE adj' = adj
  <2>1. Approvals'
    BY <1>6, <1>7, <1>9 DEF Approvals
  <2> QED
    BY <1>3, <1>7, <1>8, <1>9, <2>1, CallKeeps
<1>10. CASE adj' # adj
  <2> DEFINE row == [status |-> "proposed", ref |-> op[u].ref, large |-> op[u].large,
                     proposer |-> u, approver |-> Reports!Absent]
  <2>1. /\ row \in Adjustments /\ row.status = "proposed" /\ row # Reports!NoAdj
        /\ row.ref = op[u].ref
    BY <1>4 DEF Adjustments, Reports!NoAdj, Reports!Absent
  <2>2. PICK a \in Adjs : /\ Reports!Rivals(u) = {} /\ adj[a] = Reports!NoAdj
                          /\ adj' = [adj EXCEPT ![a] = row]
    BY <1>10 DEF Reports!Insert, Reports!Inserted
  <2> HIDE DEF row
  <2>3. \A b \in Adjs : adj'[b] = IF b = a THEN row ELSE adj[b]
    BY <2>2 DEF ReportTypes
  <2>4. ReportTypes'
    <3>1. adj' \in [Adjs -> {Reports!NoAdj} \cup Adjustments]
      BY <2>1, <2>2 DEF ReportTypes
    <3> QED
      BY <1>7, <1>8, <3>1 DEF ReportTypes, Reports!reportVars
  <2>5. OneLive'
    <3>1. \A b \in Adjs : Reports!Live(b) => adj[b].ref # row.ref
      BY <2>1, <2>2 DEF Reports!Rivals
    <3>2. \A b \in Adjs : b # a => (Reports!Live(b)' <=> Reports!Live(b))
      BY <2>3 DEF Reports!Live
    <3> QED
      BY <2>3, <3>1, <3>2 DEF OneLive
  <2>6. Approvals'
    <3>1. ASSUME NEW v \in Users, op'[v].at \in {"post", "close"}
          PROVE  v # u /\ op'[v] = op[v] /\ op[v].adj \in Adjs /\ op[v].adj # a
      <4>1. v # u /\ op'[v] = op[v] /\ op[v] \in Operations /\ op[v] # Reports!Idle
        BY <1>6, <1>7, <3>1 DEF ReportTypes
      <4>2. op[v].adj \in Adjs
        BY <3>1, <4>1 DEF Operations
      <4>3. op[v].adj # a
        BY <2>2, <3>1, <4>1 DEF Approvals
      <4> QED
        BY <4>1, <4>2, <4>3
    <3>2. \A v \in Users : op'[v].at \in {"post", "close"} => adj'[op'[v].adj] = adj[op[v].adj]
      BY <2>3, <3>1
    <3> QED
      BY <3>1, <3>2 DEF Approvals
  <2>7. AppliedAdjs' = AppliedAdjs
    BY <2>1, <2>2, <2>3 DEF AppliedAdjs, Reports!NoAdj, Reports!Absent
  <2>8. DecisionsBooked'
    <3>1. \A b \in AppliedAdjs : adj'[b] = adj[b]
      BY <2>2, <2>3 DEF AppliedAdjs, Reports!NoAdj, Reports!Absent
    <3> QED
      BY <1>8, <2>7, <3>1 DEF DecisionsBooked
  <2> QED
    BY <1>3, <1>8, <2>4, <2>5, <2>6, <2>8, WorkKeeps
<1> QED
  BY <1>9, <1>10

\* What posting an adjustment does to the books.
LEMMA AdjustmentPosted ==
  ASSUME books \in [Accounts -> Int], NEW key, Reports!PostReconAdjustment(key)
  PROVE  /\ books' \in [Accounts -> Int]
         /\ books'[Platform("recon.differences")] = books[Platform("recon.differences")] + 1
         /\ decisions' = decisions \cup {key}
<1> DEFINE D == Platform("recon.differences")
           S == Platform("suspense")
           legs == Reports!Movement(D, S, Reports!Charged)
<1>1. D \in Accounts /\ S \in Accounts /\ D # S /\ Reports!DebitNormal(D)
  BY DEF Platform, Accounts, PlatformCodes, Reports!DebitNormal, Reports!DebitNormalCodes
<1>2. Reports!Accounts = Accounts /\ Reports!Platform("recon.differences") = D
        /\ Reports!Platform("suspense") = S
  BY DEF Reports!Accounts, Reports!PlatformCodes, Reports!MerchantCodes, Reports!Platform,
         Accounts, PlatformCodes, MerchantCodes, Platform
<1>3. DOMAIN legs = {D, S} /\ legs[D] = 1 /\ legs[S] = -1
  BY <1>1 DEF Reports!Movement, Reports!Charged
<1>4. books' = Reports!Applied(legs) /\ decisions' = decisions \cup {key}
  BY <1>2 DEF Reports!PostReconAdjustment
<1> HIDE DEF D, S, legs
<1>5. \A x \in {D, S} : Reports!Delta(legs, x) \in Int
  BY <1>3 DEF Reports!Delta
<1>6. Reports!Delta(legs, D) = 1
  BY <1>1, <1>3 DEF Reports!Delta
<1>7. books' = [x \in Accounts |-> IF x \in {D, S} THEN books[x] + Reports!Delta(legs, x)
                                   ELSE books[x]]
  BY <1>2, <1>3, <1>4 DEF Reports!Applied
<1>8. books' \in [Accounts -> Int]
  BY <1>5, <1>7
<1>9. books'[D] = books[D] + 1
  BY <1>1, <1>6, <1>7
<1> QED
  BY <1>4, <1>8, <1>9 DEF D

LEMMA ApplyKeeps ==
  ASSUME ReportInv, NEW u \in Users, Reports!Apply(u)
  PROVE  ReportInv'
<1> USE DEF ReportInv
<1>1. op[u].at = "close"
  BY DEF Reports!Apply
<1>2. op[u] # Reports!Idle /\ op[u] \in Operations
  BY <1>1 DEF Reports!Idle, ReportTypes
<1>3. report # "open"
  BY <1>2 DEF ClosedOnce
<1>4. PICK a \in Adjs : op[u].adj = a
  BY <1>1, <1>2 DEF Operations
<1>5. adj[a].status = "proposed"
  BY <1>1, <1>4 DEF Approvals
<1>5a. adj[a].large => u # adj[a].proposer
  BY <1>1, <1>4 DEF Approvals
<1>5b. \A v \in Users : op[v].at = "close" /\ op[v].adj = a => v = u
  BY <1>1, <1>4 DEF Approvals
<1>6. adj[a] \in Adjustments
  BY <1>5 DEF ReportTypes, Reports!NoAdj, Reports!Absent
<1> DEFINE row == [[adj[a] EXCEPT !.status = "applied"] EXCEPT !.approver = u]
<1>7. /\ row \in Adjustments /\ row.status = "applied" /\ row # Reports!NoAdj
      /\ row.large = adj[a].large /\ row.proposer = adj[a].proposer /\ row.approver = u
      /\ row.ref = adj[a].ref /\ row.ref \in Refs
  BY <1>6 DEF Adjustments, Reports!NoAdj, Reports!Absent
<1>8. adj' = [adj EXCEPT ![a] = row]
  <2>1. adj' = [adj EXCEPT ![a].status = "applied", ![a].approver = u]
    BY <1>4 DEF Reports!Apply
  <2> QED
    BY <2>1 DEF ReportTypes
<1> HIDE DEF row
<1>9. \A b \in Adjs : adj'[b] = IF b = a THEN row ELSE adj[b]
  BY <1>8 DEF ReportTypes
<1>10. /\ op' = [op EXCEPT ![u] = Reports!Idle] /\ UNCHANGED Reports!reportVars
       /\ Reports!PostReconAdjustment(a) /\ cases' = Reports!ResolvedBy(row.ref, a)
  BY <1>4, <1>7 DEF Reports!Apply
<1>11. Reports!Idle \in Operations /\ Reports!Idle.at = "idle"
  BY DEF Operations, Reports!Idle
<1>12. op' \in [Users -> Operations] /\ \A v \in Users : op'[v] = IF v = u THEN Reports!Idle ELSE op[v]
  BY <1>10, <1>11 DEF ReportTypes
<1>13. /\ cases'[row.ref].status = "resolved"
       /\ \A r \in Refs : cases[r].status = "resolved" => cases'[r].status = "resolved"
       /\ \A r \in Refs : cases'[r].status \in Statuses
       /\ cases' = [r \in Refs |-> [status |-> cases'[r].status, by |-> cases'[r].by]]
  <2>1. CASE cases[row.ref].status = "resolved"
    BY <1>10, <2>1 DEF Reports!ResolvedBy, ReportTypes
  <2>2. CASE cases[row.ref].status # "resolved"
    <3>1. cases' = [cases EXCEPT ![row.ref] = [status |-> "resolved", by |-> a]]
      BY <1>10, <2>2 DEF Reports!ResolvedBy
    <3>2. /\ cases'[row.ref] = [status |-> "resolved", by |-> a]
          /\ \A r \in Refs : r # row.ref => cases'[r] = cases[r]
      BY <1>7, <3>1 DEF ReportTypes
    <3>2a. /\ cases'[row.ref].status = "resolved"
           /\ cases'[row.ref] = [status |-> cases'[row.ref].status, by |-> cases'[row.ref].by]
      BY <3>2
    <3>2b. \A r \in Refs : cases[r] = [status |-> cases[r].status, by |-> cases[r].by]
      BY DEF ReportTypes
    <3>2c. \A r \in Refs : cases'[r] = [status |-> cases'[r].status, by |-> cases'[r].by]
      BY <3>2, <3>2a, <3>2b
    <3>3. cases' = [r \in Refs |-> cases'[r]]
      BY <3>1 DEF ReportTypes
    <3>4. cases' = [r \in Refs |-> [status |-> cases'[r].status, by |-> cases'[r].by]]
      BY <3>2c, <3>3
    <3>5. \A r \in Refs : r # row.ref => cases'[r].status = cases[r].status
      BY <3>2
    <3>6. cases'[row.ref].status = "resolved"
      BY <3>2a
    <3> QED
      BY <1>7, <3>4, <3>5, <3>6 DEF ReportTypes, Statuses
  <2> QED
    BY <2>1, <2>2
<1>14. /\ books' \in [Accounts -> Int]
       /\ books'[Platform("recon.differences")] = books[Platform("recon.differences")] + 1
       /\ decisions' = decisions \cup {a}
  BY <1>10, AdjustmentPosted DEF ReportTypes
<1>15. ReportTypes'
  <2>1. adj' \in [Adjs -> {Reports!NoAdj} \cup Adjustments]
    BY <1>7, <1>8 DEF ReportTypes
  <2> QED
    BY <1>10, <1>12, <1>13, <1>14, <2>1 DEF ReportTypes, Reports!reportVars
<1>16. OneLive'
  <2>1. \A b \in Adjs : (Reports!Live(b)' <=> Reports!Live(b)) /\ adj'[b].ref = adj[b].ref
    BY <1>5, <1>7, <1>9 DEF Reports!Live
  <2> QED
    BY <2>1 DEF OneLive
<1>17. Approvals'
  <2>1. ASSUME NEW v \in Users, op'[v].at \in {"post", "close"}
        PROVE  v # u /\ op'[v] = op[v] /\ op[v].adj \in Adjs
    <3>1. v # u /\ op'[v] = op[v] /\ op[v] \in Operations /\ op[v] # Reports!Idle
      BY <1>11, <1>12, <2>1 DEF ReportTypes
    <3> QED
      BY <2>1, <3>1 DEF Operations
  <2>2. ASSUME NEW v \in Users, op'[v].at \in {"post", "close"}
        PROVE  /\ adj'[op[v].adj] # Reports!NoAdj
               /\ adj'[op[v].adj].large => v # adj'[op[v].adj].proposer
    <3>1. adj[op[v].adj] # Reports!NoAdj /\ (adj[op[v].adj].large => v # adj[op[v].adj].proposer)
      BY <2>1, <2>2 DEF Approvals
    <3> QED
      BY <1>7, <1>9, <2>1, <2>2, <3>1
  <2>3. ASSUME NEW v \in Users, op'[v].at = "close"
        PROVE  /\ adj'[op[v].adj].status = "proposed"
               /\ \A w \in Users : op'[w].at = "close" /\ op'[w].adj = op[v].adj => w = v
    <3>1. v # u /\ op'[v] = op[v] /\ op[v].adj # a /\ op[v].adj \in Adjs
      BY <1>5b, <2>1, <2>3
    <3>2. /\ adj[op[v].adj].status = "proposed"
          /\ \A w \in Users : op[w].at = "close" /\ op[w].adj = op[v].adj => w = v
      BY <2>3, <3>1 DEF Approvals
    <3> QED
      BY <1>9, <2>1, <3>1, <3>2
  <2> QED
    BY <2>1, <2>2, <2>3 DEF Approvals
<1>18. AppliedAdjs' = AppliedAdjs \cup {a} /\ a \notin AppliedAdjs
  BY <1>5, <1>7, <1>9 DEF AppliedAdjs
<1>19. IsFiniteSet(AppliedAdjs') /\ Cardinality(AppliedAdjs') = Cardinality(AppliedAdjs) + 1
  BY <1>18, FS_AddElement DEF DecisionsBooked
<1>20. DecisionsBooked'
  <2>1. \A b \in AppliedAdjs : b \in Adjs /\ b # a /\ adj'[b] = adj[b] /\ adj[b].ref \in Refs
    BY <1>9, <1>18 DEF AppliedAdjs, ReportTypes, Adjustments, Reports!NoAdj, Reports!Absent
  <2>2. \A b \in AppliedAdjs' :
          /\ adj'[b].large => adj'[b].approver # adj'[b].proposer
          /\ cases'[adj'[b].ref].status = "resolved"
    <3>1. \A b \in AppliedAdjs :
            /\ adj'[b].large => adj'[b].approver # adj'[b].proposer
            /\ cases'[adj'[b].ref].status = "resolved"
      BY <1>13, <2>1 DEF DecisionsBooked
    <3>2. /\ adj'[a].large => adj'[a].approver # adj'[a].proposer
          /\ cases'[adj'[a].ref].status = "resolved"
      BY <1>5a, <1>7, <1>9, <1>13
    <3> QED
      BY <1>18, <3>1, <3>2
  <2>3. books'[Platform("recon.differences")] = Cardinality(AppliedAdjs')
    BY <1>14, <1>19 DEF DecisionsBooked
  <2>4. decisions' = AppliedAdjs'
    BY <1>14, <1>18 DEF DecisionsBooked
  <2> QED
    BY <1>19, <2>2, <2>3, <2>4 DEF DecisionsBooked
<1> QED
  BY <1>3, <1>10, <1>15, <1>16, <1>17, <1>20, WorkKeeps

LEMMA ReportsStep == ReportInv /\ [Reports!Next]_(Reports!vars) => ReportInv'
<1> SUFFICES ASSUME ReportInv, [Reports!Next]_(Reports!vars) PROVE ReportInv'
  OBVIOUS
<1>1. CASE UNCHANGED Reports!vars
  <2> USE <1>1 DEF Reports!vars, Reports!reportVars, ReportInv
  <2>1. ReportTypes' /\ SnapshotHolds' /\ ClosedOnce' /\ Approvals'
    BY DEF ReportTypes, SnapshotHolds, ClosedOnce, Approvals
  <2>2. OneLive' /\ LinesAreClassified'
    BY DEF OneLive, Reports!Live, LinesAreClassified, Reports!LinesAreClassified
  <2>3. AppliedAdjs' = AppliedAdjs
    BY DEF AppliedAdjs
  <2>4. DecisionsBooked'
    BY <2>3 DEF DecisionsBooked
  <2> QED
    BY <2>1, <2>2, <2>4
<1>2. CASE Reports!Next
  BY <1>2, ReportStep, CaseSteps, ProposeKeeps, ApproveKeeps, RejectKeeps, InsertKeeps,
     OnPostedKeeps, ApplyKeeps, DeadlockKeeps DEF Reports!Next, Reports!Transaction
<1> QED
  BY <1>1, <1>2

\* Adjustments of one case are not both applied.
LEMMA DecisionsAgree == ReportInv => BooksMatchDecisions
<1> SUFFICES ASSUME ReportInv PROVE BooksMatchDecisions
  OBVIOUS
<1> USE DEF ReportInv
<1>1. \A S : Reports!Cardinality(S) = Cardinality(S)
  BY DEF Reports!Cardinality, Cardinality, Reports!IsFiniteSet, IsFiniteSet
<1>2. AppliedAdjs = {a \in Adjs : adj[a].status = "applied"}
  BY DEF AppliedAdjs
<1>3. Reports!Platform("recon.differences") = Platform("recon.differences") /\ Reports!Charged = 1
  BY DEF Reports!Platform, Platform, Reports!Charged
<1>4. Cardinality(AppliedAdjs) \in Nat
  BY FS_CardinalityType DEF DecisionsBooked
<1>5. \A a, b \in AppliedAdjs : adj[a].ref = adj[b].ref => a = b
  BY DEF AppliedAdjs, OneLive, Reports!Live
<1> QED
  BY <1>1, <1>2, <1>3, <1>4, <1>5 DEF BooksMatchDecisions, Reports!BooksMatchDecisions, DecisionsBooked

-----------------------------------------------------------------------------
(* The process: its jobs or requests, and the pools they take in turn. *)

Names == DOMAIN Process!Uses

ProcessTypes ==
  /\ enabled \subseteq Process!Jobs
  /\ Process!IsApi \/ enabled \cap Process!Requests = {}
  /\ timer \in [Process!Jobs -> BOOLEAN] /\ stopped \in [Process!Jobs -> BOOLEAN]
  /\ use \in [Names -> Nat]
  /\ doing \in [Names -> {"idle", "asks", "queued", "holds", "listens"}]
  /\ ending \in {{}, IF Process!IsApi THEN Process!ApiPools ELSE Process!EndedPools}

\* A cycle is at a use it has.
UseExists == \A j \in Names : use[j] \in 1 .. Len(Process!Uses[j])

\* The API boots without a connection.
ApiHoldsNone == Process!IsApi => doing["main"] \in {"idle", "listens"}

\* What is stopped has no interval, and pools are ended after the signal only.
StoppedHasNoTimer ==
  /\ \A j \in Process!Jobs : stopped[j] => ~timer[j]
  /\ signalled => \A j \in Process!Jobs : stopped[j]
  /\ ending # {} => signalled

ProcessInv ==
  /\ ProcessTypes /\ UseExists /\ ApiHoldsNone /\ StoppedHasNoTimer
  /\ Process!RequestsAreServed /\ Process!ExitIsClean

\* Every cycle uses a pool, and the worker's are among those it ends.
LEMMA UsesFacts ==
  /\ Names = Process!Jobs \cup {"main"} /\ "main" \notin Process!Jobs
  /\ Process!Requests \subseteq Process!Jobs
  /\ \A j \in Names :
       /\ Len(Process!Uses[j]) \in Nat \ {0}
       /\ j \notin Process!Requests =>
            \A i \in 1 .. Len(Process!Uses[j]) : Process!Uses[j][i] \in Process!EndedPools
<1> USE DEF Names, Process!Uses, Process!Jobs, Process!Requests
<1>1. Names = Process!Jobs \cup {"main"} /\ "main" \notin Process!Jobs
  OBVIOUS
<1>2. Process!Requests \subseteq Process!Jobs
  OBVIOUS
<1>3. ASSUME NEW j \in Names
      PROVE  /\ Len(Process!Uses[j]) \in Nat \ {0}
             /\ j \notin Process!Requests =>
                  \A i \in 1 .. Len(Process!Uses[j]) :
                    Process!Uses[j][i] \in Process!EndedPools
  <2> DEFINE u == Process!Uses[j]
  <2>1. j \notin Process!Requests =>
          u \in {<<"worker">>, <<"relay", "relay">>, <<"inbox", "app", "inbox">>,
                 <<"worker", "app">>, <<"webhook", "webhook">>, <<"worker", "relay">>}
    BY <1>3 DEF Process!OutboxRelay, Process!ProjectionDriftWatcher,
      Process!TechnicalPurgeJob, Process!InboxProcessor, Process!AttemptsWatchdog,
      Process!CheckoutSessionWatchdog, Process!ReconciliationWatchdog,
      Process!PayoutsWatchdog, Process!PayoutsRedriver, Process!DisputesWatchdog,
      Process!IdempotencyWatchdog, Process!LedgerCheckpointer,
      Process!LedgerChainAnchorer, Process!WebhookDeliverer, Process!Boot
  <2>2. j \in Process!Requests =>
          u \in {<<"auth", "app", "app">>, <<"app", "app">>, <<"auth", "admin">>}
    BY DEF Process!SessionRequest, Process!ApiKeyRequest, Process!OnboardingRequest
  <2> HIDE DEF u
  <2>3. Len(u) \in Nat \ {0}
    BY <2>1, <2>2
  <2>4. j \notin Process!Requests => \A i \in 1 .. Len(u) : u[i] \in Process!EndedPools
    BY <2>1 DEF Process!EndedPools
  <2> QED
    BY <2>3, <2>4 DEF u
<1> QED
  BY <1>1, <1>2, <1>3

LEMMA ProcessInit == Process!Init => ProcessInv
<1> SUFFICES ASSUME Process!Init PROVE ProcessInv
  OBVIOUS
<1> USE UsesFacts DEF Process!Init
<1>1. ProcessTypes
  <2>1. enabled \subseteq Process!Jobs /\ (Process!IsApi \/ enabled \cap Process!Requests = {})
    <3>1. enabled \in (SUBSET Process!Requests) \cup (SUBSET (Process!Jobs \ Process!Requests))
      BY ZenonT(30)
    <3> HIDE DEF Process!Init
    <3> QED
      BY <3>1, UsesFacts DEF Process!IsApi
  <2>2. /\ timer \in [Process!Jobs -> BOOLEAN] /\ stopped \in [Process!Jobs -> BOOLEAN]
        /\ use \in [Names -> Nat]
    BY DEF Names
  <2>3. doing \in [Names -> {"idle", "asks", "queued", "holds", "listens"}]
    BY DEF Names
  <2> QED
    BY <2>1, <2>2, <2>3 DEF ProcessTypes
<1>2. UseExists
  BY DEF UseExists, Names
<1>3. ApiHoldsNone
  BY DEF ApiHoldsNone, Process!IsApi, Names
<1>4. StoppedHasNoTimer
  BY DEF StoppedHasNoTimer
<1>5. Process!RequestsAreServed /\ Process!ExitIsClean
  BY DEF Process!RequestsAreServed, Process!ExitIsClean
<1> QED
  BY <1>1, <1>2, <1>3, <1>4, <1>5 DEF ProcessInv

\* A use that is held is of a pool the process ends, in the worker.
LEMMA HeldPools ==
  ASSUME ProcessInv, ~Process!IsApi, NEW j \in Process!Running
  PROVE  j \in Names /\ Process!Pool(j) \in Process!EndedPools
<1>1. j \in Names
  BY UsesFacts DEF ProcessInv, ProcessTypes, Process!Running
<1>2. j \notin Process!Requests
  BY UsesFacts DEF ProcessInv, ProcessTypes, Process!Running
<1> QED
  BY <1>1, <1>2, UsesFacts DEF ProcessInv, UseExists, Process!Pool

\* A cycle or request that goes on: it starts nothing that was stopped, and
\* whoever is idle stays so.
CycleMoves(j) ==
  /\ life = "up" /\ doing[j] # "idle"
  /\ \E d \in {"idle", "asks", "queued", "holds"} : doing' = [doing EXCEPT ![j] = d]
  /\ doing'[j] = "holds" => doing[j] # "listens"
  /\ \E n \in 1 .. Len(Process!Uses[j]) : use' = [use EXCEPT ![j] = n]
  /\ \/ timer' = timer
     \/ timer' = [k \in Process!Jobs |-> k \in enabled /\ ~stopped[k]]
  /\ life' \in {"up", "failed"}
  /\ UNCHANGED <<enabled, signalled, ending, stopped>>

LEMMA CycleSteps ==
  ASSUME ProcessInv, NEW j \in Process!Running,
         \/ Process!Ask(j) \/ Process!Serve(j) \/ Process!Break(j) \/ Process!Release(j)
         \/ j = "main" /\ Process!Listen
  PROVE  j \in Names /\ CycleMoves(j) /\ ~(Process!IsApi /\ j = "main" /\ doing'[j] \notin {"idle"})
<1>1. j \in Names
  BY UsesFacts DEF ProcessInv, ProcessTypes, Process!Running
<1>2. /\ use \in [Names -> Nat] /\ use[j] \in 1 .. Len(Process!Uses[j])
      /\ Len(Process!Uses[j]) \in Nat \ {0}
      /\ doing \in [Names -> {"idle", "asks", "queued", "holds", "listens"}]
      /\ Process!IsApi => doing["main"] \in {"idle", "listens"}
  BY <1>1, UsesFacts DEF ProcessInv, ProcessTypes, UseExists, ApiHoldsNone
<1>3. use = [use EXCEPT ![j] = use[j]]
  BY <1>1, <1>2
<1> HIDE DEF Names
<1>4. ASSUME Process!Fail(j), life = "up", doing[j] # "idle",
             UNCHANGED <<enabled, signalled, ending, stopped>>
      PROVE  CycleMoves(j) /\ doing'[j] = "idle"
  <2>1. /\ doing' = [doing EXCEPT ![j] = "idle"] /\ use' = [use EXCEPT ![j] = 1]
        /\ life' \in {"up", "failed"}
        /\ timer' = timer
    BY <1>4 DEF Process!Fail
  <2>2. 1 \in 1 .. Len(Process!Uses[j]) /\ doing'[j] = "idle"
    BY <1>1, <1>2, <2>1
  <2> QED
    BY <1>4, <2>1, <2>2 DEF CycleMoves
<1>5. ASSUME Process!Finish(j), life = "up", doing[j] # "idle",
             UNCHANGED <<enabled, signalled, ending, stopped>>
      PROVE  CycleMoves(j) /\ doing'[j] = "idle"
  <2>1. /\ doing' = [doing EXCEPT ![j] = "idle"] /\ use' = [use EXCEPT ![j] = 1]
        /\ life' \in {"up", "failed"}
        /\ timer' = timer \/ timer' = [k \in Process!Jobs |-> k \in enabled /\ ~stopped[k]]
    BY <1>5 DEF Process!Finish
  <2>2. 1 \in 1 .. Len(Process!Uses[j]) /\ doing'[j] = "idle"
    BY <1>1, <1>2, <2>1
  <2> QED
    BY <1>5, <2>1, <2>2 DEF CycleMoves
<1>6. ASSUME Process!Ask(j) PROVE CycleMoves(j) /\ ~(Process!IsApi /\ j = "main")
  <2>1. CASE Process!Fail(j)
    BY <1>2, <1>4, <1>6, <2>1 DEF Process!Ask
  <2>2. CASE ~Process!Fail(j)
    BY <1>1, <1>2, <1>3, <1>6, <2>2 DEF Process!Ask, CycleMoves
  <2> QED
    BY <2>1, <2>2
<1>7. ASSUME Process!Serve(j) PROVE CycleMoves(j) /\ ~(Process!IsApi /\ j = "main")
  BY <1>1, <1>2, <1>3, <1>7 DEF Process!Serve, CycleMoves
<1>8. ASSUME Process!Break(j) PROVE CycleMoves(j) /\ ~(Process!IsApi /\ j = "main")
  BY <1>2, <1>4, <1>8 DEF Process!Break
<1>9. ASSUME Process!Release(j) PROVE CycleMoves(j) /\ ~(Process!IsApi /\ j = "main")
  <2>1. CASE Process!Finish(j)
    BY <1>2, <1>5, <1>9, <2>1 DEF Process!Release
  <2>2. CASE ~Process!Finish(j)
    <3>1. /\ use[j] < Len(Process!Uses[j]) /\ use' = [use EXCEPT ![j] = use[j] + 1]
          /\ doing' = [doing EXCEPT ![j] = "asks"] /\ doing[j] = "holds" /\ life = "up"
          /\ UNCHANGED <<life, timer, enabled, signalled, ending, stopped>>
      BY <1>9, <2>2 DEF Process!Release
    <3>2. use[j] + 1 \in 1 .. Len(Process!Uses[j])
      BY <1>2, <3>1
    <3> QED
      BY <1>1, <1>2, <3>1, <3>2 DEF CycleMoves
  <2> QED
    BY <2>1, <2>2
<1>10. ASSUME j = "main", Process!Listen PROVE CycleMoves(j) /\ doing'[j] = "idle"
  BY <1>4, <1>5, <1>10 DEF Process!Listen
<1> QED
  BY <1>1, <1>6, <1>7, <1>8, <1>9, <1>10

LEMMA CycleKeeps ==
  ASSUME ProcessInv, NEW j \in Names, j \in Process!Running, CycleMoves(j),
         ~(Process!IsApi /\ j = "main" /\ doing'[j] \notin {"idle"})
  PROVE  ProcessInv'
<1> USE DEF CycleMoves
<1>1. ProcessTypes'
  <2>1. timer' \in [Process!Jobs -> BOOLEAN] /\ stopped' \in [Process!Jobs -> BOOLEAN]
    BY DEF ProcessInv, ProcessTypes
  <2>2. use' \in [Names -> Nat]
    <3>1. PICK n \in 1 .. Len(Process!Uses[j]) : use' = [use EXCEPT ![j] = n]
      OBVIOUS
    <3>2. n \in Nat /\ use \in [Names -> Nat]
      BY UsesFacts DEF ProcessInv, ProcessTypes
    <3> QED
      BY <3>1, <3>2
  <2>3. doing' \in [Names -> {"idle", "asks", "queued", "holds", "listens"}]
    BY DEF ProcessInv, ProcessTypes
  <2> QED
    BY <2>1, <2>2, <2>3 DEF ProcessInv, ProcessTypes, Process!IsApi
<1>2. UseExists'
  BY DEF ProcessInv, ProcessTypes, UseExists
<1>3. ApiHoldsNone'
  BY DEF ProcessInv, ProcessTypes, ApiHoldsNone, Process!IsApi
<1>4. StoppedHasNoTimer'
  BY DEF ProcessInv, ProcessTypes, StoppedHasNoTimer
<1>5. Process!RequestsAreServed'
  BY UsesFacts DEF ProcessInv, ProcessTypes, Process!RequestsAreServed
<1>6. Process!ExitIsClean'
  BY DEF Process!ExitIsClean
<1> QED
  BY <1>1, <1>2, <1>3, <1>4, <1>5, <1>6 DEF ProcessInv

LEMMA ProcessStep == ProcessInv /\ [Process!Next]_(Process!vars) => ProcessInv'
<1> SUFFICES ASSUME ProcessInv, [Process!Next]_(Process!vars) PROVE ProcessInv'
  OBVIOUS
<1> USE DEF ProcessInv, ProcessTypes, UseExists, ApiHoldsNone, StoppedHasNoTimer,
          Process!RequestsAreServed, Process!ExitIsClean, Process!IsApi, Process!Running
<1>1. ASSUME NEW j \in enabled, Process!Tick(j) PROVE ProcessInv'
  BY <1>1, UsesFacts DEF Process!Tick
<1>2. ASSUME NEW j \in Process!Running,
             \/ Process!Ask(j) \/ Process!Serve(j) \/ Process!Break(j) \/ Process!Release(j)
      PROVE  ProcessInv'
  BY <1>2, CycleSteps, CycleKeeps
<1>3. ASSUME Process!Listen PROVE ProcessInv'
  BY <1>3, CycleSteps, CycleKeeps
<1>4. ASSUME Process!Shutdown PROVE ProcessInv'
  BY <1>4, UsesFacts DEF Process!Shutdown
<1>5. ASSUME Process!EndApiPools PROVE ProcessInv'
  BY <1>5 DEF Process!EndApiPools
<1>6. ASSUME Process!ShutdownAgain PROVE ProcessInv'
  BY <1>6 DEF Process!ShutdownAgain
<1>7. ASSUME Process!Exit PROVE ProcessInv'
  <2>1. CASE Process!IsApi
    BY <1>7, <2>1 DEF Process!Exit
  <2>2. CASE ~Process!IsApi
    <3>1. ending = Process!EndedPools
      BY <1>7, <2>2 DEF Process!Exit
    <3>2. \A j \in Process!Running : doing[j] # "holds"
      BY <1>7, <2>2, <3>1, HeldPools DEF Process!Exit, Process!Holders
    <3> QED
      BY <1>7, <3>2 DEF Process!Exit
  <2> QED
    BY <2>1, <2>2
<1>8. ASSUME UNCHANGED Process!vars PROVE ProcessInv'
  BY <1>8 DEF Process!vars
<1> QED
  BY <1>1, <1>2, <1>3, <1>4, <1>5, <1>6, <1>7, <1>8 DEF Process!Next

\* A cycle begins with its interval only, which a stopped job has not.
LEMMA StoppedStaysIdle ==
  ProcessInv /\ [Process!Next]_(Process!vars) =>
    [\A j \in Process!Jobs : stopped[j] /\ doing[j] = "idle" => doing'[j] = "idle"]_(Process!vars)
<1> SUFFICES ASSUME ProcessInv, Process!Next, NEW k \in Process!Jobs,
                    stopped[k], doing[k] = "idle"
             PROVE  doing'[k] = "idle"
  OBVIOUS
<1>1. k \in Names /\ doing \in [Names -> {"idle", "asks", "queued", "holds", "listens"}]
  BY UsesFacts DEF ProcessInv, ProcessTypes
<1>2. ASSUME NEW j \in enabled, Process!Tick(j) PROVE doing'[k] = "idle"
  BY <1>1, <1>2 DEF Process!Tick, ProcessInv, StoppedHasNoTimer
<1>3. ASSUME NEW j \in Process!Running, CycleMoves(j) PROVE doing'[k] = "idle"
  BY <1>1, <1>3 DEF CycleMoves
<1>4. ASSUME doing' = doing PROVE doing'[k] = "idle"
  BY <1>4
<1>5. "main" \in Process!Running
  BY DEF Process!Running
<1> QED
  BY <1>2, <1>3, <1>4, <1>5, CycleSteps DEF Process!Next, Process!Shutdown, Process!EndApiPools,
    Process!ShutdownAgain, Process!Exit

-----------------------------------------------------------------------------
(* The machines side by side: a step of the office is a step of one of them, *)
(* and the others stutter.                                                   *)

LEMMA OfficeInits == OfficeInit => Init /\ Chain!Init /\ Reports!Init /\ Process!Init
  BY DEF OfficeInit

LEMMA OfficeSteps ==
  [OfficeNext]_officeVars =>
    /\ [Next]_vars /\ [Chain!Next]_(Chain!vars)
    /\ [Reports!Next]_(Reports!vars) /\ [Process!Next]_(Process!vars)
<1> USE DEF OfficeNext, officeVars
<1>1. [OfficeNext]_officeVars => [Next]_vars
  OBVIOUS
<1>2. [OfficeNext]_officeVars => [Chain!Next]_(Chain!vars)
  BY DEF chainVars, Chain!vars, Chain!postingVars, Chain!idVars, Chain!sealVars, Chain!runVars
<1>3. [OfficeNext]_officeVars => [Reports!Next]_(Reports!vars)
  BY DEF reportVars, Reports!vars, Reports!reportVars
<1>4. [OfficeNext]_officeVars => [Process!Next]_(Process!vars)
  BY DEF processVars, Process!vars
<1> QED
  BY <1>1, <1>2, <1>3, <1>4

LEMMA OfficeSafety == OfficeSpec => OfficeInit /\ [][OfficeNext]_officeVars
  BY DEF OfficeSpec

-----------------------------------------------------------------------------
(* What the engine promises, by itself and in the office. *)

LEMMA EngineSafe == (Spec => []EngineInv) /\ (OfficeSpec => []EngineInv)
  BY EngineInit, EngineStep, OfficeInits, OfficeSteps, OfficeSafety, PTL DEF Spec

LEMMA EngineUndone == (Spec => []UndoneOnce) /\ (OfficeSpec => []UndoneOnce)
  BY EngineSafe, UndoneInit, UndoneStep, OfficeInits, OfficeSteps, OfficeSafety, PTL DEF Spec

\* What a caller is told about its posting is true, whatever retries, lost
\* connections and callers with the same key or original there are: "posted"
\* and "conflict" stay so, and a denial comes when nothing of the call was
\* posted and there is nothing to undo, or not enough.
THEOREM AnswersTrue == (Spec => AnswersAreTrue) /\ (OfficeSpec => AnswersAreTrue)
<1> DEFINE Truly == \A c \in Callers : answer'[c] # answer[c] => DenialIsTrue(c)
<1>1. EngineInv => AnswersStayTrue
  BY DEF EngineInv
<1>2. EngineInv /\ UndoneOnce /\ [Next]_vars => [Truly]_vars
  BY DenialsTrue
<1>3. AnswersAreTrue <=> []AnswersStayTrue /\ [][Truly]_vars
  BY PTL DEF AnswersAreTrue
<1> HIDE DEF Truly
<1>4. Spec => []AnswersStayTrue /\ [][Truly]_vars
  BY <1>1, <1>2, EngineSafe, EngineUndone, PTL DEF Spec
<1>5. OfficeSpec => []AnswersStayTrue /\ [][Truly]_vars
  BY <1>1, <1>2, EngineSafe, EngineUndone, OfficeSteps, OfficeSafety, PTL
<1> QED
  BY <1>3, <1>4, <1>5

\* No audit reports a drift: the lock it holds keeps the postings out between
\* the sum and the comparison.
THEOREM AuditsAgree == (Spec => []NoFalseDrift) /\ (OfficeSpec => []NoFalseDrift)
  BY EngineSafe, PTL DEF EngineInv

\* The transactions of postOnce, reverseTransaction, verifyProjection and
\* rebuildProjection implement the atomic posting of Ledger.
THEOREM PostingIsAtomic == (Spec => AtomicPosting) /\ (OfficeSpec => AtomicPosting)
<1> DEFINE Posts == \E c \in Callers :
                      /\ call[c].reverses # None =>
                           call[c].reverses \in journal /\ Reversals(call[c].reverses) = {}
                      /\ Post(call[c].key, Legs(c))
<1>1. Init => LedgerInit
  BY DEF Init
<1>2. EngineInv /\ [Next]_vars => [Posts]_ledgerVars
  BY EngineMovesLedger
<1>3. AtomicPosting <=> LedgerInit /\ [][Posts]_ledgerVars
  BY PTL DEF AtomicPosting
<1> HIDE DEF Posts
<1>4. Spec => LedgerInit /\ [][Posts]_ledgerVars
  BY <1>1, <1>2, EngineSafe, PTL DEF Spec
<1>5. OfficeSpec => LedgerInit /\ [][Posts]_ledgerVars
  BY <1>1, <1>2, EngineSafe, OfficeInits, OfficeSteps, OfficeSafety, PTL
<1> QED
  BY <1>3, <1>4, <1>5

-----------------------------------------------------------------------------
(* What the reconciliation promises. *)

LEMMA ReportsSafe == OfficeSpec => []ReportInv
  BY ReportInit, ReportsStep, OfficeInits, OfficeSteps, OfficeSafety, PTL

\* Every line that was accepted is compared with the ledger when its report is
\* closed, or was committed while the sweep's statement was reading.
THEOREM LinesCompared == OfficeSpec => []LinesAreClassified
  BY ReportsSafe, PTL DEF ReportInv

\* The books carry the decisions on the cases and nothing else.
THEOREM DecisionsPosted == OfficeSpec => []BooksMatchDecisions
  BY ReportsSafe, DecisionsAgree, PTL

-----------------------------------------------------------------------------
(* What the hash chain promises. *)

LEMMA ChainSafe == ASSUME BeltHolds PROVE OfficeSpec => []ChainInv
  BY ChainInit, ChainStep, OfficeInits, OfficeSteps, OfficeSafety, PTL

\* While min_candidate_age outlives the postings that a horizon does not cover,
\* the verification of the chain never fails by itself: a segment is what is
\* committed in its range whenever one looks, and an anchor is a checkpoint.
THEOREM ChainHolds ==
  ASSUME BeltHolds
  PROVE  OfficeSpec => []ChainVerifies
  BY ChainSafe, PTL DEF ChainInv

-----------------------------------------------------------------------------
(* What the life of a process promises. *)

\* No exit and no ended pool cuts off a statement or an accepted request, and
\* no job begins a cycle after its stop, for any number of jobs, sizes of pools
\* and moments of the signal.
THEOREM EndsBetweenStatements == OfficeSpec => StopsCleanly
<1> DEFINE Stays ==
      [\A j \in Process!Jobs : stopped[j] /\ doing[j] = "idle" => doing'[j] = "idle"]_(Process!vars)
<1>1. OfficeSpec => []ProcessInv
  BY ProcessInit, ProcessStep, OfficeInits, OfficeSteps, OfficeSafety, PTL
<1>2. ProcessInv => Process!ExitIsClean /\ Process!RequestsAreServed
  BY DEF ProcessInv
<1>3. ProcessInv /\ [OfficeNext]_officeVars => Stays
  BY StoppedStaysIdle, OfficeSteps
<1> QED
  BY <1>1, <1>2, <1>3, OfficeSafety, PTL DEF StopsCleanly, Process!StoppedStays
=============================================================================
