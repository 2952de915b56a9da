--------------------------- MODULE DisputesProofs ---------------------------
(***************************************************************************)
(* Safety of Disputes for any number of disputes, merchants and handlers.   *)
(* That a dispute is held once needs the bank to quote the reference it     *)
(* opened the dispute with, or none (ReferencesKept); the rest does not.    *)
(***************************************************************************)
EXTENDS Disputes, LedgerProofs

ReferencesKept == \A b \in BankDisputes : Quotes[b] \subseteq {b, NoRef}

\* A stored row has a cause, and only a stored row has one.
RowInv ==
  \A d \in DisputeIds :
    IF status[d] = "none" THEN cause[d] = NoRef /\ ref[d] = NoRef
                          ELSE cause[d] \in BankDisputes

\* What a handler works on: a dispute of the bank, or a row that it decided.
HandlerInv ==
  \A h \in Handlers :
    /\ pc[h] \in {"check", "hold"} => subject[h] \in BankDisputes
    /\ pc[h] = "record" =>
         /\ subject[h] \in DisputeIds
         /\ status[subject[h]] # "none"
         /\ bank[cause[subject[h]]] # "open"
         /\ quote[h] \in Quotes[cause[subject[h]]]

\* The inductive invariant.
Inv ==
  /\ TypeOK
  /\ RowInv
  /\ HandlerInv
  /\ VerdictIsTheBanks
  /\ NoOverdraft

\* With references kept, a row is found under the reference it was opened with.
FoundByCause == \A d \in DisputeIds : ref[d] = cause[d]

-----------------------------------------------------------------------------
\* Distinct disputes and steps have distinct idempotency keys.
LEMMA KeysDiffer == \A d, e, s, t : Key(d, s) = Key(e, t) => d = e /\ s = t
  BY DEF Key

\* The accounts of the three postings are accounts of the chart.
LEMMA DisputeAccounts ==
  /\ Platform("provider.clearing") \in Accounts
  /\ \A m \in Merchants :
       /\ Of("merchant.available", m) \in Accounts
       /\ Of("dispute.reserve", m) \in Accounts
       /\ Of("merchant.available", m) # Of("dispute.reserve", m)
       /\ Of("dispute.reserve", m) # Platform("provider.clearing")
  BY DEF Accounts, Of, Platform, MerchantCodes, PlatformCodes

\* The postings of a dispute keep every account typed and covered.
LEMMA PostKeepsBalances ==
  ASSUME TypeOK, NoOverdraft, NEW key, NEW m \in Merchants, NEW a \in Nat,
         \/ Post(key, OpenDispute(m, a))
         \/ Post(key, WinDispute(m, a))
         \/ Post(key, LoseDispute(m, a))
         \/ UNCHANGED ledgerVars
  PROVE  balance' \in [Accounts -> Int] /\ NoOverdraft'
<1>1. BalanceType /\ a \in Int
  BY DEF BalanceType, TypeOK
<1>2. CASE Post(key, OpenDispute(m, a))
  BY <1>1, <1>2, DisputeAccounts, CoveredPosting DEF Post, OpenDispute, BalanceType
<1>3. CASE Post(key, WinDispute(m, a))
  BY <1>1, <1>3, DisputeAccounts, CoveredPosting DEF Post, WinDispute, BalanceType
<1>4. CASE Post(key, LoseDispute(m, a))
  BY <1>1, <1>4, DisputeAccounts, CoveredPosting DEF Post, LoseDispute, BalanceType
<1>5. CASE UNCHANGED ledgerVars
  BY <1>1, <1>5 DEF ledgerVars, BalanceType, NoOverdraft
<1>6. QED
  BY <1>2, <1>3, <1>4, <1>5

-----------------------------------------------------------------------------
\* Nothing is open, held or being handled at the start.
LEMMA InvInit == Init => Inv
<1> SUFFICES ASSUME Init PROVE Inv
  OBVIOUS
<1>1. TypeOK
  BY OpeningAssumption, DisputeAssumption DEF Init, LedgerInit, TypeOK, Pending, Refs
<1>2. RowInv /\ HandlerInv /\ VerdictIsTheBanks
  BY DEF Init, LedgerInit, RowInv, HandlerInv, VerdictIsTheBanks, Opened, Won, Lost
<1>3. NoOverdraft
  BY OpeningAssumption DEF Init, LedgerInit, NoOverdraft
<1>4. QED
  BY <1>1, <1>2, <1>3 DEF Inv

\* Every action keeps the invariant: one step per action.
LEMMA InvStep == Inv /\ [Next]_vars => Inv'
<1> SUFFICES ASSUME Inv, [Next]_vars PROVE Inv'
  OBVIOUS
<1> USE DisputeAssumption DEF Inv, ledgerVars, rowVars, handlerVars
<1>1. ASSUME NEW h \in Handlers, NEW b \in BankDisputes, OpenFromProvider(h, b) PROVE Inv'
  BY <1>1 DEF OpenFromProvider, Goto, TypeOK, RowInv, HandlerInv, VerdictIsTheBanks,
     Opened, Won, Lost, NoOverdraft, Refs
<1>2. ASSUME NEW h \in Handlers, CheckFunds(h) PROVE Inv'
  BY <1>2 DEF CheckFunds, Finish, Goto, TypeOK, RowInv, HandlerInv, VerdictIsTheBanks,
     Opened, Won, Lost, NoOverdraft, Refs
<1>3. ASSUME NEW h \in Handlers, NEW d \in DisputeIds, Hold(h, d) PROVE Inv'
  <2> DEFINE b == subject[h]
  <2>1. b \in BankDisputes /\ MerchantOf[b] \in Merchants /\ Amount[b] \in Nat
    BY <1>3 DEF Hold, HandlerInv
  <2>2. \/ Post(Key(d, "open"), OpenDispute(MerchantOf[b], Amount[b]))
        \/ UNCHANGED ledgerVars
    BY <1>3 DEF Hold
  <2>3. balance' \in [Accounts -> Int] /\ NoOverdraft'
    BY <2>1, <2>2, PostKeepsBalances
  <2>4. journal' \subseteq {Key(e, step) : e \in DisputeIds, step \in {"open", "win", "lose"}}
    BY <1>3 DEF Hold, TypeOK, Post
  <2>5. TypeOK'
    BY <1>3, <2>1, <2>3, <2>4 DEF Hold, Finish, Goto, TypeOK, Pending, Refs
  <2>6. RowInv' /\ HandlerInv'
    BY <1>3, <2>1 DEF Hold, Finish, Goto, TypeOK, RowInv, HandlerInv
  <2>7. VerdictIsTheBanks'
    BY <1>3, <2>1, KeysDiffer DEF Hold, Post, TypeOK, RowInv, VerdictIsTheBanks, Opened, Won, Lost
  <2>8. QED
    BY <2>3, <2>5, <2>6, <2>7
<1>4. ASSUME NEW d \in DisputeIds, SubmitEvidence(d) PROVE Inv'
  BY <1>4 DEF SubmitEvidence, TypeOK, RowInv, HandlerInv, VerdictIsTheBanks,
     Opened, Won, Lost, NoOverdraft, Pending
<1>5. ASSUME NEW h \in Handlers, NEW d \in DisputeIds, Resolve(h, d) PROVE Inv'
  BY <1>5 DEF Resolve, Goto, TypeOK, RowInv, HandlerInv, VerdictIsTheBanks,
     Opened, Won, Lost, NoOverdraft, Pending, Refs
<1>6. ASSUME NEW h \in Handlers, RecordVerdict(h) PROVE Inv'
  <2> DEFINE d == subject[h]
             verdict == bank[cause[d]]
             step == StepOf(verdict)
  <2>1. /\ d \in DisputeIds /\ cause[d] \in BankDisputes
        /\ verdict \in {"won", "lost"} /\ quote[h] \in Quotes[cause[d]]
    BY <1>6 DEF RecordVerdict, HandlerInv, RowInv, TypeOK
  <2>2. PayerOf(d) \in Merchants /\ AmountOf(d) \in Nat
    BY <2>1 DEF PayerOf, AmountOf
  <2>3. \/ Post(Key(d, step), WinDispute(PayerOf(d), AmountOf(d)))
        \/ Post(Key(d, step), LoseDispute(PayerOf(d), AmountOf(d)))
        \/ UNCHANGED ledgerVars
    BY <1>6, <2>1 DEF RecordVerdict
  <2>4. balance' \in [Accounts -> Int] /\ NoOverdraft'
    BY <2>2, <2>3, PostKeepsBalances
  <2>5. \/ /\ journal' = journal \cup {Key(d, step)}
           /\ status[d] \in Pending
           /\ status' = [status EXCEPT ![d] = verdict]
           /\ ref' = [ref EXCEPT ![d] = IF quote[h] = NoRef THEN @ ELSE quote[h]]
           /\ UNCHANGED cause
        \/ UNCHANGED <<journal, status, ref, cause>>
    BY <1>6, <2>1 DEF RecordVerdict, Post, Transitions, Pending
  <2>6. TypeOK'
    BY <1>6, <2>1, <2>4, <2>5 DEF StepOf, RecordVerdict, Finish, Goto, TypeOK, Pending, Refs
  <2>7. RowInv' /\ HandlerInv'
    BY <1>6, <2>1, <2>5 DEF RecordVerdict, Finish, Goto, TypeOK, RowInv, HandlerInv, Pending
  <2>8. VerdictIsTheBanks'
    BY <1>6, <2>1, <2>5, KeysDiffer
    DEF StepOf, RecordVerdict, TypeOK, VerdictIsTheBanks, Opened, Won, Lost, Pending
  <2>9. QED
    BY <2>4, <2>6, <2>7, <2>8
<1>7. ASSUME NEW b \in BankDisputes, BankDecides(b) PROVE Inv'
  BY <1>7 DEF BankDecides, TypeOK, RowInv, HandlerInv, VerdictIsTheBanks,
     Opened, Won, Lost, NoOverdraft
<1>8. ASSUME NEW h \in Handlers, Crash(h) PROVE Inv'
  BY <1>8 DEF Crash, Finish, Goto, TypeOK, RowInv, HandlerInv, VerdictIsTheBanks,
     Opened, Won, Lost, NoOverdraft, Refs
<1>9. CASE UNCHANGED vars
  BY <1>9 DEF vars, TypeOK, RowInv, HandlerInv, VerdictIsTheBanks, Opened, Won, Lost,
     NoOverdraft
<1>10. QED
  BY <1>1, <1>2, <1>3, <1>4, <1>5, <1>6, <1>7, <1>8, <1>9 DEF Next

-----------------------------------------------------------------------------
\* Inv holds in every reachable state.
THEOREM Invariance == Spec => []Inv
  BY InvInit, InvStep, PTL DEF Spec

\* Every variable of the service keeps its type.
THEOREM TypeCorrect == Spec => []TypeOK
  BY Invariance, PTL DEF Inv

\* A dispute that is closed was decided so by the bank, and row and journal
\* agree, whatever events the inbox repeats or reorders.
THEOREM VerdictByTheBank == Spec => []VerdictIsTheBanks
  BY Invariance, PTL DEF Inv

\* No interleaving of disputes overdraws an account.
THEOREM NeverOverdrawn == Spec => []NoOverdraft
  BY Invariance, PTL DEF Inv

-----------------------------------------------------------------------------
\* Initially nobody has a reference.
LEMMA FoundInit == Init => FoundByCause /\ HeldOnce
  BY DEF Init, FoundByCause, HeldOnce

\* With references kept a row is always found by its cause, so the unique index
\* refuses a second hold.
LEMMA FoundStep ==
  ASSUME ReferencesKept, Inv, FoundByCause, HeldOnce, [Next]_vars
  PROVE  FoundByCause' /\ HeldOnce'
<1> USE DEF Inv, rowVars
<1>1. ASSUME NEW h \in Handlers, NEW d \in DisputeIds, Hold(h, d)
      PROVE  FoundByCause' /\ HeldOnce'
  <2>1. subject[h] \in BankDisputes /\ subject[h] # NoRef
    BY <1>1, DisputeAssumption DEF Hold, HandlerInv
  <2>2. QED
    BY <1>1, <2>1 DEF Hold, Unique, FoundByCause, HeldOnce, TypeOK
<1>2. ASSUME NEW h \in Handlers, RecordVerdict(h)
      PROVE  FoundByCause' /\ HeldOnce'
  <2>1. quote[h] \in {cause[subject[h]], NoRef} /\ subject[h] \in DisputeIds
    BY <1>2 DEF RecordVerdict, HandlerInv, RowInv, ReferencesKept
  <2>2. QED
    BY <1>2, <2>1 DEF RecordVerdict, FoundByCause, HeldOnce, TypeOK
<1>3. CASE UNCHANGED <<cause, ref>>
  BY <1>3 DEF FoundByCause, HeldOnce
<1>4. QED
  BY <1>1, <1>2, <1>3
  DEF Next, vars, OpenFromProvider, CheckFunds, SubmitEvidence, Resolve, BankDecides, Crash

\* A bank that quotes the reference it opened the dispute with, or none, never
\* has the merchant's money held twice, however often it says it was opened.
THEOREM HeldAtMostOnce == ReferencesKept /\ Spec => []HeldOnce
<1>1. ASSUME ReferencesKept
      PROVE  Inv /\ FoundByCause /\ HeldOnce /\ [Next]_vars => (FoundByCause /\ HeldOnce)'
  BY <1>1, FoundStep
<1>2. ReferencesKept => (Spec => []HeldOnce)
  <2> SUFFICES ASSUME ReferencesKept PROVE Spec => []HeldOnce
    OBVIOUS
  <2>1. Inv /\ FoundByCause /\ HeldOnce /\ [Next]_vars => (FoundByCause /\ HeldOnce)'
    BY <1>1
  <2>2. QED
    BY <2>1, FoundInit, Invariance, PTL DEF Spec
<1>3. QED
  BY <1>2
-----------------------------------------------------------------------------
(* Disputes implements Reservation. *)

stakes == [d \in DisputeIds |-> IF Opened(d) THEN <<PayerOf(d), AmountOf(d)>> ELSE <<>>]
available == [m \in Merchants |-> balance[Of("merchant.available", m)]]

\* Accounts of different codes or merchants differ, and a merchant's are liabilities.
LEMMA AccountsDiffer ==
  /\ \A m, n : /\ Of("merchant.available", m) # Of("dispute.reserve", n)
               /\ Of("merchant.available", m) # Platform("provider.clearing")
               /\ Of("merchant.available", m) = Of("merchant.available", n) => m = n
  /\ \A m : /\ ~DebitNormal(Of("merchant.available", m))
            /\ ~DebitNormal(Of("dispute.reserve", m))
  BY DEF Of, Platform, DebitNormal, DebitNormalCodes

\* The initial states of Disputes are initial states of Reservation.
LEMMA RefinementInit == Init => Money!Init
  BY DEF Init, LedgerInit, Money!Init, phase, Opened, Won, Lost

\* A step that posts nothing and moves no cause is a stutter.
LEMMA RefinementStutter ==
  ASSUME UNCHANGED <<ledgerVars, cause>>
  PROVE  UNCHANGED Money!vars
<1>1. phase' = phase
  BY DEF ledgerVars, phase, Opened, Won, Lost
<1>2. stakes' = stakes
  BY DEF ledgerVars, stakes, Opened, PayerOf, AmountOf
<1>3. available' = available
  BY DEF ledgerVars, available
<1>4. QED
  BY <1>1, <1>2, <1>3 DEF Money!vars, stakes, available

\* A posted key changes the phase of its dispute and of no other.
LEMMA PhaseChanges ==
  ASSUME NEW d \in DisputeIds, NEW step \in {"open", "win", "lose"},
         journal' = journal \cup {Key(d, step)}
  PROVE  /\ \A e \in DisputeIds : e # d => phase'[e] = phase[e]
         /\ \A e \in DisputeIds :
              /\ Opened(e)' <=> Opened(e) \/ (e = d /\ step = "open")
              /\ Won(e)' <=> Won(e) \/ (e = d /\ step = "win")
              /\ Lost(e)' <=> Lost(e) \/ (e = d /\ step = "lose")
<1>1. \A e \in DisputeIds :
        /\ Opened(e)' <=> Opened(e) \/ (e = d /\ step = "open")
        /\ Won(e)' <=> Won(e) \/ (e = d /\ step = "win")
        /\ Lost(e)' <=> Lost(e) \/ (e = d /\ step = "lose")
  BY KeysDiffer DEF Opened, Won, Lost
<1>2. QED
  BY <1>1 DEF phase

\* The row of a dispute commits with the money it holds.
LEMMA RefinementHold ==
  ASSUME Inv, NEW d \in DisputeIds, status[d] = "none", NEW b \in BankDisputes,
         Post(Key(d, "open"), OpenDispute(MerchantOf[b], Amount[b])),
         cause' = [cause EXCEPT ![d] = b]
  PROVE  Money!Next
<1>0. PICK m \in Merchants, a \in {Amount[c] : c \in BankDisputes} :
        m = MerchantOf[b] /\ a = Amount[b]
  BY DisputeAssumption
<1>1. a \in Nat /\ a > 0 /\ BalanceType
  BY <1>0, DisputeAssumption DEF Inv, TypeOK, BalanceType
<1>2. ~Opened(d) /\ ~Won(d) /\ ~Lost(d)
  BY DEF Inv, VerdictIsTheBanks
<1>3. phase[d] = "none" /\ phase' = [phase EXCEPT ![d] = "held"]
  <2>1. /\ \A e \in DisputeIds : e # d => phase'[e] = phase[e]
        /\ Opened(d)' /\ ~Won(d)' /\ ~Lost(d)'
    BY <1>2, PhaseChanges DEF Post
  <2>2. phase[d] = "none" /\ phase'[d] = "held"
    BY <1>2, <2>1 DEF phase
  <2>3. \A e \in DisputeIds : phase'[e] = IF e = d THEN "held" ELSE phase[e]
    BY <2>1, <2>2
  <2>4. QED
    BY <2>2, <2>3 DEF phase
<1>4. stakes' = [stakes EXCEPT ![d] = <<m, a>>]
  <2>1. /\ cause'[d] = b
        /\ \A e \in DisputeIds : e # d => cause'[e] = cause[e]
    BY DEF Inv, TypeOK
  <2>2. \A e \in DisputeIds : Opened(e)' <=> Opened(e) \/ e = d
    BY PhaseChanges DEF Post
  <2>3. \A e \in DisputeIds :
          stakes'[e] = IF e = d THEN <<m, a>> ELSE stakes[e]
    BY <1>0, <2>1, <2>2 DEF stakes, PayerOf, AmountOf
  <2>4. QED
    BY <2>3 DEF stakes
<1>5. /\ balance' = Applied(Movement(Of("merchant.available", m), Of("dispute.reserve", m), a))
      /\ Of("merchant.available", m)
           \in Guarded(Movement(Of("merchant.available", m), Of("dispute.reserve", m), a))
  BY <1>0, <1>1, AccountsDiffer DEF Post, OpenDispute, Guarded, Movement, Delta
<1>6. \A y \in Accounts : y # Of("dispute.reserve", m) =>
        balance'[y] = IF y = Of("merchant.available", m) THEN balance[y] - a ELSE balance[y]
  BY <1>1, <1>5, DisputeAccounts, AccountsDiffer, LiabilityDebited
<1>7. available' = [available EXCEPT ![m] = @ - a]
  BY <1>6, DisputeAccounts, AccountsDiffer, ZenonT(40) DEF available
<1>8. a <= available[m]
  <2>1. balance'[Of("merchant.available", m)] >= 0
    BY <1>0, <1>5 DEF Post, Covered, OpenDispute
  <2>2. balance'[Of("merchant.available", m)] = balance[Of("merchant.available", m)] - a
    BY <1>6, DisputeAccounts, AccountsDiffer
  <2>3. balance[Of("merchant.available", m)] \in Int
    BY <1>1, DisputeAccounts DEF BalanceType
  <2>4. QED
    BY <1>1, <2>1, <2>2, <2>3 DEF available
<1>9. Money!Hold(d, m, a)
  BY <1>3, <1>4, <1>7, <1>8 DEF Money!Hold, stakes, available
<1>10. QED
  BY <1>9 DEF Money!Next

\* A lost dispute's money leaves the reserve and touches nobody's free money.
LEMMA RefinementCommit ==
  ASSUME Inv, NEW d \in DisputeIds, status[d] \in Pending,
         Post(Key(d, "lose"), LoseDispute(PayerOf(d), AmountOf(d))), UNCHANGED cause
  PROVE  Money!Next
<1>0. PICK m \in Merchants, a \in Nat : m = PayerOf(d) /\ a = AmountOf(d) /\ BalanceType
  BY DisputeAssumption DEF Inv, RowInv, Pending, PayerOf, AmountOf, TypeOK, BalanceType
<1>1. Opened(d) /\ ~Won(d) /\ ~Lost(d)
  BY DEF Inv, VerdictIsTheBanks, Pending
<1>2. phase[d] = "held" /\ phase' = [phase EXCEPT ![d] = "committed"]
  BY <1>1, PhaseChanges DEF Post, phase
<1>3. stakes' = stakes
  BY PhaseChanges DEF Post, stakes, PayerOf, AmountOf
<1>4. balance' = Applied(Movement(Of("dispute.reserve", m), Platform("provider.clearing"), a))
  BY <1>0 DEF Post, LoseDispute
<1>5. \A y \in Accounts : y # Platform("provider.clearing") =>
        balance'[y] = IF y = Of("dispute.reserve", m) THEN balance[y] - a ELSE balance[y]
  BY <1>0, <1>4, DisputeAccounts, AccountsDiffer, LiabilityDebited
<1>6. available' = available
  BY <1>5, DisputeAccounts, AccountsDiffer DEF available
<1>7. Money!Commit(d)
  BY <1>2, <1>3, <1>6 DEF Money!Commit, stakes, available
<1>8. QED
  BY <1>7 DEF Money!Next

\* A won dispute's money returns to its merchant in full.
LEMMA RefinementReturn ==
  ASSUME Inv, NEW d \in DisputeIds, status[d] \in Pending,
         Post(Key(d, "win"), WinDispute(PayerOf(d), AmountOf(d))), UNCHANGED cause
  PROVE  Money!Next
<1>0. PICK m \in Merchants, a \in Nat : m = PayerOf(d) /\ a = AmountOf(d) /\ BalanceType
  BY DisputeAssumption DEF Inv, RowInv, Pending, PayerOf, AmountOf, TypeOK, BalanceType
<1>1. Opened(d) /\ ~Won(d) /\ ~Lost(d)
  BY DEF Inv, VerdictIsTheBanks, Pending
<1>2. phase[d] = "held" /\ phase' = [phase EXCEPT ![d] = "returned"]
  BY <1>1, PhaseChanges DEF Post, phase
<1>3. stakes' = stakes /\ stakes[d] = <<m, a>>
  BY <1>0, <1>1, PhaseChanges DEF Post, stakes, PayerOf, AmountOf
<1>4. balance' = Applied(Movement(Of("dispute.reserve", m), Of("merchant.available", m), a))
  BY <1>0 DEF Post, WinDispute
<1>5. \A y \in Accounts : y # Of("dispute.reserve", m) =>
        balance'[y] = IF y = Of("merchant.available", m) THEN balance[y] + a ELSE balance[y]
  BY <1>0, <1>4, DisputeAccounts, AccountsDiffer, LiabilityCredited
<1>6. available' = [available EXCEPT ![m] = @ + a]
  BY <1>5, DisputeAccounts, AccountsDiffer DEF available
<1>7. Money!Return(d)
  BY <1>2, <1>3, <1>6 DEF Money!Return, stakes, available
<1>8. QED
  BY <1>7 DEF Money!Next

\* Every step of Disputes is a step of Reservation or stutters.
LEMMA RefinementStep == Inv /\ [Next]_vars => [Money!Next]_(Money!vars)
<1> SUFFICES ASSUME Inv, [Next]_vars PROVE Money!Next \/ UNCHANGED Money!vars
  OBVIOUS
<1> USE DEF rowVars
<1>1. ASSUME UNCHANGED <<ledgerVars, cause>> PROVE UNCHANGED Money!vars
  BY <1>1, RefinementStutter
<1>2. ASSUME NEW h \in Handlers, NEW d \in DisputeIds, Hold(h, d)
      PROVE  Money!Next \/ UNCHANGED Money!vars
  <2>1. subject[h] \in BankDisputes
    BY <1>2 DEF Hold, Inv, HandlerInv
  <2>2. QED
    BY <1>1, <1>2, <2>1, RefinementHold DEF Hold
<1>3. ASSUME NEW h \in Handlers, RecordVerdict(h) PROVE Money!Next \/ UNCHANGED Money!vars
  <2> DEFINE d == subject[h]
  <2>1. d \in DisputeIds /\ cause[d] \in BankDisputes /\ bank[cause[d]] \in {"won", "lost"}
    BY <1>3 DEF RecordVerdict, Inv, TypeOK, RowInv, HandlerInv
  <2>2. \A verdict : <<status[d], verdict>> \in Transitions /\ verdict \in {"won", "lost"}
          => status[d] \in Pending
    BY DEF Transitions, Pending
  <2>3. CASE UNCHANGED <<ledgerVars, cause>>
    BY <1>1, <2>3
  <2>4. CASE /\ bank[cause[d]] = "won" /\ status[d] \in Pending
             /\ Post(Key(d, "win"), WinDispute(PayerOf(d), AmountOf(d))) /\ UNCHANGED cause
    BY <2>1, <2>4, RefinementReturn
  <2>5. CASE /\ bank[cause[d]] = "lost" /\ status[d] \in Pending
             /\ Post(Key(d, "lose"), LoseDispute(PayerOf(d), AmountOf(d))) /\ UNCHANGED cause
    BY <2>1, <2>5, RefinementCommit
  <2>6. QED
    BY <1>3, <2>1, <2>2, <2>3, <2>4, <2>5 DEF RecordVerdict, StepOf
<1>4. CASE UNCHANGED vars
  BY <1>1, <1>4 DEF vars
<1>5. CASE Next
  BY <1>1, <1>2, <1>3, <1>5
  DEF Next, OpenFromProvider, CheckFunds, Resolve, Crash, SubmitEvidence, BankDecides
<1>6. QED
  BY <1>4, <1>5

\* The money a dispute holds leaves what its merchant has free once and has one
\* fate, however often the bank's events are handed over.
THEOREM DisputesImplementReservation == Spec => ReservationSpec
<1>1. Inv /\ [Next]_vars => [Money!Next]_(Money!vars)
  BY RefinementStep
<1>2. QED
  BY Invariance, RefinementInit, <1>1, PTL DEF Spec, ReservationSpec, Money!Spec
=============================================================================
