-------------------------- MODULE FrontDoorProofs --------------------------
(***************************************************************************)
(* Proofs about the machines of MCFrontDoor, each for every value of its    *)
(* constants: the account (Access), the keys of the fleet (KeyRotation),    *)
(* idempotent execution (Requests), the way to a first merchant             *)
(* (Onboarding), the forms (Console), the rate limit (RateLimit) and the    *)
(* records with their trail (Records).  Each machine has an inductive       *)
(* invariant of its own; the theorems, about the specification that the     *)
(* run checks, are at the end.                                              *)
(***************************************************************************)
EXTENDS MCFrontDoor, FiniteSetTheorems, TLAPS

-----------------------------------------------------------------------------
(* Access. *)

\* The guesses since the last completed login or lock are never more than the
\* counter in the user's row, which never stays at the limit.
CounterInv ==
  /\ failed \in 0 .. MaxFailed - 1
  /\ guesses \in Nat
  /\ guesses <= failed

LEMMA CounterInit == ASSUME AccessAssumption PROVE Init => CounterInv
  BY DEF AccessAssumption, Init, CounterInv

LEMMA CounterStep ==
  ASSUME AccessAssumption, CounterInv, [Next]_vars
  PROVE  CounterInv'
<1> USE DEF AccessAssumption, CounterInv
<1>1. CASE WrongCredential
  BY <1>1 DEF WrongCredential, Fail
<1>2. ASSUME NEW s \in Sessions, Login(s) PROVE CounterInv'
  BY <1>2 DEF Login, Opened
<1>3. ASSUME NEW s \in Sessions, StepUpPassword(s) PROVE CounterInv'
  BY <1>3 DEF StepUpPassword
<1>4. ASSUME NEW c \in Challenges, NEW s \in Sessions, NEW t \in Codes, VerifyTotp(c, s, t)
      PROVE  CounterInv'
  BY <1>4 DEF VerifyTotp, Opened
<1>5. ASSUME NEW c \in Challenges, NEW s \in Sessions, NEW b \in BackupCodes, VerifyBackup(c, s,
             b)
      PROVE  CounterInv'
  BY <1>5 DEF VerifyBackup, Opened
<1>6. CASE UNCHANGED <<failed, guesses>>
  BY <1>6
<1> QED
  BY <1>1, <1>2, <1>3, <1>4, <1>5, <1>6
     DEF Next, vars, Tick, Register, VerifyEmail, SetupMfa, LoginChallenges, EndSessions,
         StepUpTotp, ActivateMfa, DisableMfa

\* What the history says of the codes: those of a secret that is not active
\* yet have not been accepted, those of the active one end at the last step,
\* and an accepted backup code is no longer among the unused ones.
UsedInv ==
  /\ twice = FALSE
  /\ secrets \in Nat
  /\ totp.active \in 0 .. secrets
  /\ totp.pending \in 0 .. secrets
  /\ totp = [active |-> totp.active, pending |-> totp.pending, last |-> totp.last]
  /\ totp.active # 0 => totp.pending = 0
  /\ totp.last \in Int
  /\ now \in Int
  /\ \A k, t : <<"totp", k, t>> \in used =>
       k \in 1 .. secrets /\ k # totp.pending /\ t \in Int
         /\ (k = totp.active => t <= totp.last)
  /\ \A k, b : <<"backup", k, b>> \in used =>
       k \in 1 .. secrets /\ k # totp.pending /\ (k = totp.active => b \notin backups)

LEMMA UsedInit == Init => UsedInv
  BY DEF Init, UsedInv, Never

\* A code of the active secret that is younger than the last one.
LEMMA TotpAccepted ==
  ASSUME UsedInv, NEW t \in Int, t > totp.last, totp.active # 0,
         totp' = [totp EXCEPT !.last = t], Accept(<<"totp", totp.active, t>>),
         UNCHANGED <<now, secrets, backups>>
  PROVE  UsedInv'
<1> USE DEF UsedInv
<1>1. totp' = [active |-> totp.active, pending |-> totp.pending, last |-> t]
  <2> DEFINE A == totp.active
             P == totp.pending
             L == totp.last
  <2>1. totp = [active |-> A, pending |-> P, last |-> L]
    OBVIOUS
  <2> HIDE DEF A, P, L
  <2>2. [[active |-> A, pending |-> P, last |-> L] EXCEPT !.last = t]
          = [active |-> A, pending |-> P, last |-> t]
    OBVIOUS
  <2> QED
    BY <2>1, <2>2 DEF A, P
<1>2. totp'.active = totp.active /\ totp'.pending = totp.pending /\ totp'.last = t
  BY <1>1
<1>3. <<"totp", totp.active, t>> \notin used
  OBVIOUS
<1>4. used' = used \cup {<<"totp", totp.active, t>>} /\ twice' = FALSE
  BY <1>3 DEF Accept
<1>5. totp' = [active |-> totp'.active, pending |-> totp'.pending, last |-> totp'.last]
  BY <1>1, <1>2, Zenon
<1>6. \A k, u : <<"totp", k, u>> \in used' =>
        k \in 1 .. secrets' /\ k # totp'.pending /\ u \in Int
          /\ (k = totp'.active => u <= totp'.last)
  <2> SUFFICES ASSUME NEW k, NEW u, <<"totp", k, u>> \in used'
               PROVE  k \in 1 .. secrets' /\ k # totp'.pending /\ u \in Int
                      /\ (k = totp'.active => u <= totp'.last)
    OBVIOUS
  <2>1. CASE <<"totp", k, u>> \in used
    <3>1. k \in 1 .. secrets /\ k # totp.pending /\ u \in Int
          /\ (k = totp.active => u <= totp.last)
      BY <2>1
    <3> QED
      BY <3>1, <1>2
  <2>2. CASE k = totp.active /\ u = t
    BY <2>2, <1>2
  <2> QED
    BY <2>1, <2>2, <1>4
<1>7. \A k, b : <<"backup", k, b>> \in used' =>
        k \in 1 .. secrets' /\ k # totp'.pending /\ (k = totp'.active => b \notin backups')
  BY <1>2, <1>4
<1> QED
  BY <1>2, <1>4, <1>5, <1>6, <1>7

LEMMA UsedStep ==
  ASSUME AccessAssumption, UsedInv, [Next]_vars
  PROVE  UsedInv'
<1> USE DEF UsedInv
<1>0. ASSUME NEW t \in Codes PROVE t \in Int
  BY <1>0 DEF Codes, AccessAssumption
<1>1. ASSUME NEW c \in Challenges, NEW s \in Sessions, NEW t \in Codes, VerifyTotp(c, s, t)
      PROVE  UsedInv'
  BY <1>0, <1>1, TotpAccepted DEF VerifyTotp, Opened, Match, MfaOn
<1>2. ASSUME NEW c \in Challenges, NEW s \in Sessions, NEW b \in BackupCodes, VerifyBackup(c, s,
             b)
      PROVE  UsedInv'
  <2>1. /\ totp.active # 0 /\ b \in backups /\ backups' = backups \ {b}
        /\ used' = used \cup {<<"backup", totp.active, b>>}
        /\ twice' = (twice \/ <<"backup", totp.active, b>> \in used)
        /\ totp' = totp /\ secrets' = secrets /\ now' = now
    BY <1>2 DEF VerifyBackup, Opened, Accept, MfaOn
  <2>2. <<"backup", totp.active, b>> \notin used
    BY <2>1
  <2>3. twice' = FALSE
    BY <2>1, <2>2, Zenon
  <2>4. totp.active \in 1 .. secrets /\ totp.active # totp.pending
    BY <2>1
  <2> QED
    BY <2>1, <2>3, <2>4
<1>3. ASSUME NEW s \in Sessions, NEW t \in Codes, StepUpTotp(s, t) PROVE UsedInv'
  BY <1>0, <1>3, TotpAccepted DEF StepUpTotp, Match, MfaOn
<1>4. ASSUME NEW s \in Sessions, NEW t \in Codes, ActivateMfa(s, t) PROVE UsedInv'
  <2>1. /\ totp.active = 0 /\ totp.pending # 0 /\ t \in Int
        /\ totp' = [active |-> totp.pending, pending |-> 0, last |-> t]
        /\ used' = used \cup {<<"totp", totp.pending, t>>}
        /\ twice' = (twice \/ <<"totp", totp.pending, t>> \in used)
        /\ secrets' = secrets /\ now' = now
    BY <1>0, <1>4 DEF ActivateMfa, Activate, Accept, MfaOn
  <2>2. <<"totp", totp.pending, t>> \notin used
    BY <2>1
  <2>3. twice' = FALSE
    BY <2>1, <2>2, Zenon
  <2>4. totp'.active = totp.pending /\ totp'.pending = 0 /\ totp'.last = t
    BY <2>1
  <2>5. totp' = [active |-> totp'.active, pending |-> totp'.pending, last |-> totp'.last]
    BY <2>1, <2>4, Zenon
  <2>6. totp.pending \in 1 .. secrets
    BY <2>1
  <2>7. \A k, u : <<"totp", k, u>> \in used' =>
          k \in 1 .. secrets' /\ k # totp'.pending /\ u \in Int
          /\ (k = totp'.active => u <= totp'.last)
    BY <2>1, <2>4, <2>6
  <2>8. \A k, b : <<"backup", k, b>> \in used' =>
          k \in 1 .. secrets' /\ k # totp'.pending /\ (k = totp'.active => b \notin backups')
    BY <2>1, <2>4, <2>6
  <2> QED
    BY <2>1, <2>3, <2>4, <2>5, <2>6, <2>7, <2>8
<1>5. ASSUME NEW s \in Sessions, NEW t \in Codes, DisableMfa(s, t) PROVE UsedInv'
  <2>1. /\ totp.active # 0 /\ t > totp.last /\ t \in Int
        /\ totp' = [active |-> 0, pending |-> 0, last |-> 0]
        /\ used' = used \cup {<<"totp", totp.active, t>>}
        /\ twice' = (twice \/ <<"totp", totp.active, t>> \in used)
        /\ secrets' = secrets /\ now' = now
    BY <1>0, <1>5 DEF DisableMfa, Accept, Match, MfaOn, Never
  <2>2. <<"totp", totp.active, t>> \notin used
    BY <2>1
  <2>3. twice' = FALSE
    BY <2>1, <2>2, Zenon
  <2>4. totp'.active = 0 /\ totp'.pending = 0 /\ totp'.last = 0
    BY <2>1
  <2>5. totp' = [active |-> totp'.active, pending |-> totp'.pending, last |-> totp'.last]
    BY <2>1, <2>4, Zenon
  <2>6. totp.active \in 1 .. secrets
    BY <2>1
  <2>7. \A k, u : <<"totp", k, u>> \in used' =>
          k \in 1 .. secrets' /\ k # totp'.pending /\ u \in Int
          /\ (k = totp'.active => u <= totp'.last)
    BY <2>1, <2>4, <2>6
  <2>8. \A k, b : <<"backup", k, b>> \in used' =>
          k \in 1 .. secrets' /\ k # totp'.pending /\ (k = totp'.active => b \notin backups')
    BY <2>1, <2>4, <2>6
  <2> QED
    BY <2>1, <2>3, <2>4, <2>5, <2>7, <2>8
<1>6. ASSUME NEW s \in Sessions, SetupMfa(s) PROVE UsedInv'
  BY <1>6 DEF SetupMfa, MfaOn
<1>7. CASE Tick
  BY <1>7 DEF Tick
<1>8. CASE UNCHANGED <<now, totp, backups, secrets, used, twice>>
  BY <1>8
<1> QED
  BY <1>1, <1>2, <1>3, <1>4, <1>5, <1>6, <1>7, <1>8
     DEF Next, vars, Register, VerifyEmail, WrongCredential, Fail, Login, Opened,
         LoginChallenges, EndSessions, StepUpPassword

-----------------------------------------------------------------------------
(* KeyRotation. *)

Blob == {"none", "old", "new"}

KeyTypeInv ==
  /\ target \in 0 .. 3
  /\ config \in [Processes -> 0 .. 3]
  /\ row \in [1 .. Rows -> [active : Blob, other : Blob]]
  /\ gate \in BOOLEAN

\* The fleet is never more than one configuration apart; before the second is
\* deployed nothing is under the new key, and once the check has passed
\* nothing is under the old one, nor is there a process left that writes it.
KeyInv ==
  /\ KeyTypeInv
  /\ \A p \in Processes : config[p] = target \/ config[p] = target - 1
  /\ target <= 1 => \A i \in 1 .. Rows : row[i].active # "new" /\ row[i].other # "new"
  /\ gate => /\ \A p \in Processes : config[p] >= 2
             /\ \A i \in 1 .. Rows : row[i].active # "old" /\ row[i].other # "old"
  /\ cursor # 0 \/ gate => target >= 2
  /\ target = 3 => gate

LEMMA KeyInit == ASSUME KeyRotation!Init PROVE KeyInv
<1> DEFINE none == [active |-> "none", other |-> "none"]
<1>1. KeyRotation!Blank = none
  BY DEF KeyRotation!Blank, KeyRotation!Columns
<1>2. none \in [active : Blob, other : Blob]
  BY DEF Blob
<1>3. none.active = "none" /\ none.other = "none"
  OBVIOUS
<1> HIDE DEF none
<1>4. row = [i \in 1 .. Rows |-> none]
  BY <1>1 DEF KeyRotation!Init
<1>5. KeyTypeInv
  <2>1. gate \in BOOLEAN
    BY Zenon DEF KeyRotation!Init
  <2>2. row \in [1 .. Rows -> [active : Blob, other : Blob]]
    BY <1>2, <1>4, Zenon
  <2>3. target \in 0 .. 3 /\ config \in [Processes -> 0 .. 3]
    BY DEF KeyRotation!Init
  <2> QED
    BY <2>1, <2>2, <2>3 DEF KeyTypeInv
<1>6. ~gate /\ cursor = 0 /\ target = 0 /\ \A p \in Processes : config[p] = target
  BY DEF KeyRotation!Init
<1>7. \A i \in 1 .. Rows : row[i].active = "none" /\ row[i].other = "none"
  BY <1>3, <1>4
<1> QED
  BY <1>5, <1>6, <1>7 DEF KeyInv

\* A row whose new blobs are ones that the fleet may write.
LEMMA StoreInv ==
  ASSUME KeyInv, NEW i \in 1 .. Rows, NEW blobs \in [active : Blob, other : Blob],
         KeyRotation!Store(i, blobs),
         target <= 1 => blobs.active # "new" /\ blobs.other # "new",
         gate => blobs.active # "old" /\ blobs.other # "old"
  PROVE  KeyInv'
  BY DEF KeyRotation!Store, KeyInv, KeyTypeInv

\* The key under which a process writes.
LEMMA WrittenKey ==
  ASSUME KeyInv, NEW p \in Processes
  PROVE  LET k == KeyRotation!Current(config[p])
         IN  k \in {"old", "new"} /\ (target <= 1 => k = "old") /\ (gate => k = "new")
<1>1. config[p] \in 0 .. 3 /\ target \in 0 .. 3
  BY DEF KeyInv, KeyTypeInv
<1>2. target <= 1 => config[p] \in {0, 1}
  BY <1>1 DEF KeyInv
<1>3. gate => config[p] \in {2, 3}
  BY <1>1 DEF KeyInv
<1> QED
  BY <1>1, <1>2, <1>3 DEF KeyRotation!Current

LEMMA ServeInv ==
  ASSUME KeyInv, NEW p \in Processes, NEW i \in 1 .. Rows, KeyRotation!Serve(p, i)
  PROVE  KeyInv'
<1> DEFINE k == KeyRotation!Current(config[p])
<1>1. k \in {"old", "new"} /\ (target <= 1 => k = "old") /\ (gate => k = "new")
  BY WrittenKey
<1>2. /\ row[i] \in [active : Blob, other : Blob]
      /\ target <= 1 => row[i].active # "new" /\ row[i].other # "new"
      /\ gate => row[i].active # "old" /\ row[i].other # "old"
  BY DEF KeyInv, KeyTypeInv
<1> HIDE DEF k
<1>3. CASE KeyRotation!SetupMfa(p, i)
  <2>1. KeyRotation!Store(i, [row[i] EXCEPT !.other = k])
    BY <1>3 DEF KeyRotation!SetupMfa, k
  <2> QED
    BY <1>1, <1>2, <2>1, StoreInv DEF Blob
<1>4. CASE KeyRotation!CreateEndpoint(p, i) \/ KeyRotation!CreateKey(p, i)
  <2>1. KeyRotation!Store(i, [row[i] EXCEPT !.active = k])
    BY <1>4 DEF KeyRotation!CreateEndpoint, KeyRotation!CreateKey, k
  <2> QED
    BY <1>1, <1>2, <2>1, StoreInv DEF Blob
<1>5. CASE KeyRotation!RotateSecret(p, i)
  <2>1. KeyRotation!Store(i, [active |-> k, other |-> row[i].active])
    BY <1>5 DEF KeyRotation!RotateSecret, k
  <2> QED
    BY <1>1, <1>2, <2>1, StoreInv DEF Blob
<1>6. CASE KeyRotation!Authenticate(p, i)
  <2>1. KeyRotation!Store(i, [row[i] EXCEPT !.active = k])
    BY <1>6 DEF KeyRotation!Authenticate, k
  <2> QED
    BY <1>1, <1>2, <2>1, StoreInv DEF Blob
<1> QED
  BY <1>3, <1>4, <1>5, <1>6 DEF KeyRotation!Serve

LEMMA KeyStep ==
  ASSUME KeyInv, [KeyRotation!Next]_KeyRotation!vars
  PROVE  KeyInv'
<1>1. ASSUME NEW p \in Processes, NEW i \in 1 .. Rows, KeyRotation!Serve(p, i)
      PROVE  KeyInv'
  BY <1>1, ServeInv
<1>2. ASSUME NEW i \in 1 .. Rows,
             KeyRotation!ActivateMfa(i) \/ KeyRotation!DisableMfa(i) \/ KeyRotation!Revoke(i)
      PROVE  KeyInv'
  <2> DEFINE none == [active |-> "none", other |-> "none"]
             moved == [active |-> row[i].other, other |-> "none"]
  <2>1. KeyRotation!Store(i, none) \/ KeyRotation!Store(i, moved)
    <3>1. KeyRotation!Blank = none
      BY DEF KeyRotation!Blank, KeyRotation!Columns
    <3> QED
      BY <1>2, <3>1 DEF KeyRotation!ActivateMfa, KeyRotation!DisableMfa, KeyRotation!Revoke
  <2>2. row[i] \in [active : Blob, other : Blob]
    BY DEF KeyInv, KeyTypeInv
  <2>3. none \in [active : Blob, other : Blob] /\ moved \in [active : Blob, other : Blob]
    BY <2>2 DEF Blob
  <2>4. /\ target <= 1 => row[i].other # "new"
        /\ gate => row[i].other # "old"
    BY DEF KeyInv
  <2>5. CASE KeyRotation!Store(i, none)
    BY <2>3, <2>5, StoreInv
  <2>6. CASE KeyRotation!Store(i, moved)
    BY <2>3, <2>4, <2>6, StoreInv
  <2> QED
    BY <2>1, <2>5, <2>6
<1>3. CASE KeyRotation!SweepStarts
  BY <1>3 DEF KeyRotation!SweepStarts, KeyInv, KeyTypeInv
<1>4. CASE KeyRotation!SweepBatch
  <2> DEFINE blobs == KeyRotation!Migrate(row[cursor])
  <2>1. /\ cursor # 0 /\ row' = [row EXCEPT ![cursor] = blobs]
        /\ UNCHANGED <<target, config, gate>>
    BY <1>4 DEF KeyRotation!SweepBatch
  <2>2. target >= 2
    BY <2>1 DEF KeyInv
  <2>3. cursor \in 1 .. Rows => blobs \in [active : Blob, other : Blob]
                                /\ blobs.active # "old" /\ blobs.other # "old"
    <3> SUFFICES ASSUME cursor \in 1 .. Rows
                 PROVE  blobs \in [active : Blob, other : Blob]
                        /\ blobs.active # "old" /\ blobs.other # "old"
      OBVIOUS
    <3>1. row[cursor] \in [active : Blob, other : Blob]
      BY DEF KeyInv, KeyTypeInv
    <3>2. blobs = [active |-> IF row[cursor].active = "old" THEN "new" ELSE row[cursor].active,
                   other |-> IF row[cursor].other = "old" THEN "new" ELSE row[cursor].other]
      BY DEF KeyRotation!Migrate, KeyRotation!Columns
    <3> QED
      BY <3>1, <3>2 DEF Blob
  <2> HIDE DEF blobs
  <2>4. KeyTypeInv'
    BY <2>1, <2>3 DEF KeyInv, KeyTypeInv
  <2>5. \A i \in 1 .. Rows : row'[i] = row[i] \/ (row'[i].active # "old" /\ row'[i].other # "old")
    BY <2>1, <2>3 DEF KeyInv, KeyTypeInv
  <2>6. target' = 3 => gate'
    BY <2>1 DEF KeyInv
  <2>7. gate' => /\ \A p \in Processes : config'[p] >= 2
                 /\ \A i \in 1 .. Rows : row'[i].active # "old" /\ row'[i].other # "old"
    BY <2>1, <2>5 DEF KeyInv
  <2>8. ~(target' <= 1) /\ target' >= 2
    BY <2>1, <2>2 DEF KeyInv, KeyTypeInv
  <2> QED
    BY <2>1, <2>4, <2>6, <2>7, <2>8 DEF KeyInv
<1>5. CASE KeyRotation!Check
  <2>1. \A i \in 1 .. Rows : row[i].active # "old" /\ row[i].other # "old"
    BY <1>5 DEF KeyRotation!Check, KeyRotation!Clean, KeyRotation!Columns
  <2> QED
    BY <1>5, <2>1 DEF KeyRotation!Check, KeyRotation!FleetIsAt, KeyInv, KeyTypeInv
<1>6. CASE KeyRotation!Deploy
  BY <1>6 DEF KeyRotation!Deploy, KeyRotation!FleetIsAt, KeyInv, KeyTypeInv
<1>7. ASSUME NEW p \in Processes, KeyRotation!Restart(p) PROVE KeyInv'
  BY <1>7 DEF KeyRotation!Restart, KeyInv, KeyTypeInv
<1>8. CASE UNCHANGED KeyRotation!vars
  BY <1>8 DEF KeyRotation!vars, KeyInv, KeyTypeInv
<1> QED
  BY <1>1, <1>2, <1>3, <1>4, <1>5, <1>6, <1>7, <1>8 DEF KeyRotation!Next

LEMMA KeysReadable == ASSUME KeyInv PROVE EveryProcessReads
<1> SUFFICES ASSUME NEW p \in Processes, NEW i \in 1 .. Rows, NEW col \in {"active", "other"}
             PROVE  row[i][col] # "none" => KeyRotation!Reads(p, row[i][col])
  BY DEF EveryProcessReads, KeyRotation!EveryProcessReads, KeyRotation!Columns
<1>1. row[i] \in [active : Blob, other : Blob] /\ config[p] \in 0 .. 3 /\ target \in 0 .. 3
  BY DEF KeyInv, KeyTypeInv
<1>2. row[i][col] \in Blob
  BY <1>1
<1>3. config[p] = 0 => row[i][col] # "new"
  BY <1>1 DEF KeyInv
<1>4. config[p] = 3 => row[i][col] # "old"
  BY <1>1 DEF KeyInv
<1> QED
  BY <1>1, <1>2, <1>3, <1>4 DEF Blob, KeyRotation!Reads, KeyRotation!Keyring

-----------------------------------------------------------------------------
(* Requests. *)

Effect == [hash : Payloads, life : Nat, by : Clients]

RequestsTypeInv ==
  /\ payload \in [Clients -> Payloads]
  /\ client \in [Clients -> {"idle", "claiming", "handler", "reading", "done"}]
  /\ DOMAIN answer = Clients
  /\ answer = [c \in Clients |-> answer[c]]
  /\ effects \subseteq Effect
  /\ life \in Nat

\* The row is that of the one effect of its life, and a transaction that has
\* claimed the key is alone with it.
ClaimInv ==
  /\ \A c, d \in Clients : client[c] = "handler" /\ client[d] = "handler" => c = d
  /\ (\E c \in Clients : client[c] = "handler") => key = Requests!NoKey
  /\ key = Requests!NoKey => \A e \in effects : e.life < life
  /\ key # Requests!NoKey =>
       \E e \in effects : e.life = life /\ key = [hash |-> e.hash, effect |-> {e}]
  /\ \A e \in effects : e.life <= life
  /\ \A e, f \in effects : e.life = f.life => e = f

AnswerInv ==
  \A c \in Clients : answer[c].is = "response" =>
    \E e \in effects : answer[c].effect = {e} /\ e.hash = payload[c]

RequestsInv == RequestsTypeInv /\ ClaimInv /\ AnswerInv

LEMMA RequestsInit == Requests!Init => RequestsInv
<1> SUFFICES ASSUME Requests!Init PROVE RequestsInv
  OBVIOUS
<1>1. RequestsTypeInv
  BY DEF Requests!Init, RequestsTypeInv, Requests!Silence
<1>2. ClaimInv
  BY DEF Requests!Init, ClaimInv
<1>3. AnswerInv
  BY DEF Requests!Init, AnswerInv, Requests!Silence
<1> QED
  BY <1>1, <1>2, <1>3 DEF RequestsInv

\* An answer that leaves rows and effects alone.
LEMMA AnsweredInv ==
  ASSUME RequestsInv, NEW c \in Clients, NEW a, Requests!Answered(c, a), client[c] # "handler",
         a.is = "response" => \E e \in effects : a.effect = {e} /\ e.hash = payload[c],
         UNCHANGED <<payload, key, effects, life>>
  PROVE  RequestsInv'
<1> USE DEF RequestsInv
<1>1. RequestsTypeInv'
  BY DEF RequestsTypeInv, Requests!Answered
<1>2. ClaimInv'
  <2>1. \A d \in Clients : client'[d] = "handler" => client[d] = "handler"
    BY DEF RequestsTypeInv, Requests!Answered
  <2> QED
    BY <2>1 DEF ClaimInv
<1>3. AnswerInv'
  <2>1. \A d \in Clients : answer'[d] = IF d = c THEN a ELSE answer[d]
    BY DEF RequestsTypeInv, Requests!Answered
  <2> QED
    BY <2>1 DEF AnswerInv
<1> QED
  BY <1>1, <1>2, <1>3

\* A step that changes nothing but where clients stand, none of them reaching
\* the handler.
LEMMA ClientInv ==
  ASSUME RequestsInv, client' \in [Clients -> {"idle", "claiming", "handler", "reading", "done"}],
         \A d \in Clients : client'[d] = "handler" => client[d] = "handler",
         UNCHANGED <<payload, answer, key, effects, life>>
  PROVE  RequestsInv'
<1> USE DEF RequestsInv
<1>1. RequestsTypeInv'
  BY DEF RequestsTypeInv
<1>2. ClaimInv'
  BY DEF ClaimInv
<1>3. AnswerInv'
  BY DEF AnswerInv
<1> QED
  BY <1>1, <1>2, <1>3

LEMMA CommitInv ==
  ASSUME Requests!RequestsAssumption, RequestsInv, NEW c \in Clients, Requests!Commit(c)
  PROVE  RequestsInv'
<1> USE DEF RequestsInv
<1> DEFINE new == [hash |-> payload[c], life |-> life, by |-> c]
           a == [is |-> "response", effect |-> {new}]
<1>1. /\ client[c] = "handler"
      /\ effects' = effects \cup {new}
      /\ key' = [hash |-> payload[c], effect |-> {new}]
      /\ Requests!Answered(c, a)
      /\ UNCHANGED <<payload, life, faults>>
  BY DEF Requests!Commit
<1>2. new \in Effect /\ new.life = life /\ new.hash = payload[c]
  BY DEF RequestsTypeInv, Effect
<1>3. key = Requests!NoKey /\ \A e \in effects : e.life < life
  BY <1>1 DEF ClaimInv
<1>4. key' # Requests!NoKey
  <2>1. key'.hash = payload[c] /\ payload[c] \in Payloads
    BY <1>1 DEF RequestsTypeInv
  <2> QED
    BY <2>1 DEF Requests!RequestsAssumption, Requests!NoKey
<1> HIDE DEF new
<1>5. RequestsTypeInv'
  BY <1>1, <1>2 DEF RequestsTypeInv, Requests!Answered
<1>6. ClaimInv'
  <2>1. \A d \in Clients : client'[d] = "handler" => client[d] = "handler" /\ d # c
    BY <1>1 DEF RequestsTypeInv, Requests!Answered
  <2>2. ~\E d \in Clients : client'[d] = "handler"
    BY <1>1, <2>1 DEF ClaimInv
  <2>3. new \in effects' /\ new.life = life' /\ key' = [hash |-> new.hash, effect |-> {new}]
    BY <1>1, <1>2
  <2>4. \A e \in effects : e.life \in Nat
    BY DEF RequestsTypeInv, Effect
  <2>5. life \in Nat
    BY DEF RequestsTypeInv
  <2>6. \A e \in effects' : e.life <= life'
    BY <1>1, <1>2, <1>3, <2>4, <2>5
  <2>7. \A e, f \in effects' : e.life = f.life => e = f
    BY <1>1, <1>2, <1>3, <2>4, <2>5 DEF ClaimInv
  <2> QED
    BY <1>4, <2>2, <2>3, <2>6, <2>7 DEF ClaimInv
<1>7. AnswerInv'
  <2>1. \A d \in Clients : answer'[d] = IF d = c THEN a ELSE answer[d]
    BY <1>1 DEF RequestsTypeInv, Requests!Answered
  <2>2. new \in effects' /\ effects \subseteq effects' /\ payload' = payload
    BY <1>1
  <2>3. a.effect = {new} /\ new.hash = payload'[c]
    BY <1>1, <1>2
  <2> QED
    BY <2>1, <2>2, <2>3 DEF AnswerInv
<1> QED
  BY <1>5, <1>6, <1>7

LEMMA RequestsStep ==
  ASSUME Requests!RequestsAssumption, RequestsInv, [Requests!Next]_Requests!vars
  PROVE  RequestsInv'
<1> USE DEF RequestsInv
<1>1. ASSUME NEW c \in Clients, Requests!Send(c) PROVE RequestsInv'
  BY <1>1, ClientInv DEF Requests!Send, RequestsTypeInv
<1>2. ASSUME NEW c \in Clients, Requests!Claim(c) PROVE RequestsInv'
  <2>1. CASE key # Requests!NoKey
    BY <1>2, <2>1, ClientInv DEF Requests!Claim, RequestsTypeInv
  <2>2. CASE key = Requests!NoKey
    <3>1. RequestsTypeInv'
      BY <1>2 DEF Requests!Claim, RequestsTypeInv
    <3>2. \A d \in Clients : client'[d] = "handler" <=> d = c
      BY <1>2, <2>2 DEF Requests!Claim, RequestsTypeInv, Requests!InFlight
    <3>3. ClaimInv'
      BY <1>2, <2>2, <3>2 DEF Requests!Claim, ClaimInv
    <3>4. AnswerInv'
      BY <1>2 DEF Requests!Claim, AnswerInv
    <3> QED
      BY <3>1, <3>3, <3>4
  <2> QED
    BY <2>1, <2>2
<1>3. ASSUME NEW c \in Clients, Requests!ClaimTimesOut(c) PROVE RequestsInv'
  <2> DEFINE a == [is |-> "retry"]
  <2>1. Requests!Answered(c, a) /\ client[c] # "handler" /\ a.is # "response"
        /\ UNCHANGED <<payload, key, effects, life>>
    BY <1>3 DEF Requests!ClaimTimesOut
  <2> HIDE DEF a
  <2> QED
    BY <2>1, AnsweredInv
<1>4. ASSUME NEW c \in Clients, Requests!Commit(c) PROVE RequestsInv'
  BY <1>4, CommitInv
<1>5. ASSUME NEW c \in Clients, Requests!Read(c) PROVE RequestsInv'
  <2> DEFINE a == Requests!Replay(c)
  <2>1. Requests!Answered(c, a) /\ client[c] # "handler"
        /\ UNCHANGED <<payload, key, effects, life>>
    BY <1>5 DEF Requests!Read
  <2>2. a.is = "response" => key.hash = payload[c] /\ a.effect = key.effect
    BY DEF Requests!Replay
  <2>3. key.hash = payload[c] => key # Requests!NoKey
    BY DEF Requests!RequestsAssumption, RequestsTypeInv
  <2>4. a.is = "response" => \E e \in effects : a.effect = {e} /\ e.hash = payload[c]
    BY <2>2, <2>3 DEF ClaimInv
  <2> HIDE DEF a
  <2> QED
    BY <2>1, <2>4, AnsweredInv
<1>6. ASSUME NEW c \in Clients, Requests!RollBack(c) PROVE RequestsInv'
  BY <1>6, ClientInv DEF Requests!RollBack, RequestsTypeInv
<1>7. ASSUME NEW c \in Clients, Requests!LoseAnswer(c) PROVE RequestsInv'
  <2>1. RequestsTypeInv'
    BY <1>7 DEF Requests!LoseAnswer, RequestsTypeInv
  <2>2. \A d \in Clients : client'[d] = "handler" => client[d] = "handler"
    BY <1>7 DEF Requests!LoseAnswer, RequestsTypeInv
  <2>3. ClaimInv'
    BY <1>7, <2>2 DEF Requests!LoseAnswer, ClaimInv
  <2>4. \A d \in Clients : answer'[d] = IF d = c THEN Requests!Silence ELSE answer[d]
    BY <1>7 DEF Requests!LoseAnswer, RequestsTypeInv
  <2>5. AnswerInv'
    BY <1>7, <2>4 DEF Requests!LoseAnswer, AnswerInv, Requests!Silence
  <2> QED
    BY <2>1, <2>3, <2>5
<1>8. CASE Requests!Purge
  <2>1. key # Requests!NoKey /\ key' = Requests!NoKey /\ life' = life + 1
        /\ UNCHANGED <<payload, client, answer, effects>>
    BY <1>8 DEF Requests!Purge
  <2>2. RequestsTypeInv'
    BY <2>1 DEF RequestsTypeInv
  <2>3. \A e \in effects : e.life \in Nat /\ e.life <= life
    BY DEF RequestsTypeInv, Effect, ClaimInv
  <2>4. ClaimInv'
    BY <2>1, <2>3 DEF ClaimInv, RequestsTypeInv
  <2>5. AnswerInv'
    BY <2>1 DEF AnswerInv
  <2> QED
    BY <2>2, <2>4, <2>5
<1>9. CASE UNCHANGED Requests!vars
  BY <1>9 DEF Requests!vars, RequestsTypeInv, ClaimInv, AnswerInv
<1> QED
  BY <1>1, <1>2, <1>3, <1>4, <1>5, <1>6, <1>7, <1>8, <1>9 DEF Requests!Next, Requests!Serve

-----------------------------------------------------------------------------
(* Onboarding. *)

Points == {"org", "merchant", "insert", "chart", "done", "refused"}

OnboardingTypeInv ==
  /\ form \in [Tabs -> [slug : Slugs, name : Names]]
  /\ at \in [Tabs -> Points]
  /\ org \in [Slugs -> {Onboarding!Nobody, Onboarding!Person, Onboarding!Other}]
  /\ merchants \in [Slugs -> SUBSET Names]
  /\ first \in [Slugs -> SUBSET Names]
  /\ holder \in [Slugs -> Tabs \cup {Onboarding!Nobody}]

\* The user owns one organization, and every tab beyond the first form works
\* in it.
OwnerInv ==
  /\ \A r, s \in Slugs : org[r] = Onboarding!Person /\ org[s] = Onboarding!Person => r = s
  /\ \A t \in Tabs : at[t] \in {"merchant", "insert", "chart", "done"} =>
        org[Onboarding!Slug(t)] = Onboarding!Person

\* A tab that has counted no merchant holds the lock, so there is none until
\* it has inserted its own.
LockInv ==
  \A t \in Tabs : at[t] = "insert" =>
        holder[Onboarding!Slug(t)] = t /\ merchants[Onboarding!Slug(t)] = {}

FirstInv ==
  /\ late = FALSE
  /\ \A s \in Slugs : first[s] \subseteq merchants[s]
  /\ \A s \in Slugs : \A m, n \in first[s] : m = n

ChartInv ==
  /\ \A t \in Tabs : at[t] \in {"chart", "done"} =>
        Onboarding!Name(t) \in merchants[Onboarding!Slug(t)]
  /\ \A t \in Tabs : at[t] = "done" => <<Onboarding!Slug(t), Onboarding!Name(t)>> \in chart

OnboardingInv == OnboardingTypeInv /\ OwnerInv /\ LockInv /\ FirstInv /\ ChartInv

LEMMA OnboardingInit == Onboarding!Init => OnboardingInv
<1> SUFFICES ASSUME Onboarding!Init PROVE OnboardingInv
  OBVIOUS
<1>1. OnboardingTypeInv
  BY DEF Onboarding!Init, OnboardingTypeInv, Points
<1>2. OwnerInv
  BY DEF Onboarding!Init, OwnerInv, Onboarding!Nobody, Onboarding!Person, Onboarding!Other
<1>3. LockInv /\ FirstInv /\ ChartInv
  BY DEF Onboarding!Init, LockInv, FirstInv, ChartInv
<1> QED
  BY <1>1, <1>2, <1>3 DEF OnboardingInv

LEMMA CreateOrganizationInv ==
  ASSUME OnboardingInv, NEW t \in Tabs, Onboarding!CreateOrganization(t)
  PROVE  OnboardingInv'
<1> USE DEF OnboardingInv, Onboarding!Slug, Onboarding!Name
<1>1. /\ at[t] = "org" /\ at'[t] \in {"merchant", "refused"}
      /\ at' \in [Tabs -> Points]
      /\ \A u \in Tabs : u # t => at'[u] = at[u]
      /\ UNCHANGED <<form, merchants, chart, holder, first, late>>
  BY DEF Onboarding!CreateOrganization, Onboarding!Goto, OnboardingTypeInv, Points
<1>2. form[t].slug \in Slugs
  BY DEF OnboardingTypeInv
<1>3. org' \in [Slugs -> {Onboarding!Nobody, Onboarding!Person, Onboarding!Other}]
  BY <1>2 DEF Onboarding!CreateOrganization, OnboardingTypeInv
<1>4. OwnerInv'
  BY <1>1, <1>2
     DEF Onboarding!CreateOrganization, Onboarding!Creates, Onboarding!Goto, Onboarding!Owned,
         OwnerInv, OnboardingTypeInv
<1>5. OnboardingTypeInv'
  BY <1>1, <1>3 DEF OnboardingTypeInv
<1>6. LockInv' /\ FirstInv' /\ ChartInv'
  BY <1>1 DEF LockInv, FirstInv, ChartInv
<1> QED
  BY <1>4, <1>5, <1>6

LEMMA EnterOnboardingInv ==
  ASSUME Onboarding!OnboardingAssumption, OnboardingInv, NEW t \in Tabs,
         Onboarding!EnterOnboarding(t)
  PROVE  OnboardingInv'
<1> USE DEF OnboardingInv, Onboarding!Slug, Onboarding!Name
<1> DEFINE s == form[t].slug
<1>1. /\ at[t] = "merchant" /\ s \in Slugs /\ holder[s] = Onboarding!Nobody
      /\ UNCHANGED <<form, org, merchants, chart, first, late>>
      /\ \A u \in Tabs : u # t => at'[u] = at[u]
  BY DEF Onboarding!EnterOnboarding, OnboardingTypeInv, Onboarding!Goto
<1>2. OnboardingTypeInv'
  BY <1>1 DEF Onboarding!EnterOnboarding, Onboarding!Goto, OnboardingTypeInv, Points
<1>3. OwnerInv'
  BY <1>1, <1>2 DEF OwnerInv, OnboardingTypeInv
<1>4. CASE merchants[s] = {}
  <2>1. at'[t] = "insert" /\ holder'[s] = t /\ \A r \in Slugs : r # s => holder'[r] = holder[r]
    BY <1>1, <1>4 DEF Onboarding!EnterOnboarding, Onboarding!Goto, OnboardingTypeInv
  <2>2. \A u \in Tabs : u # t /\ at[u] = "insert" => form[u].slug # s
    BY <1>1 DEF LockInv, Onboarding!OnboardingAssumption
  <2>3. LockInv'
    BY <1>1, <1>4, <2>1, <2>2 DEF LockInv, OnboardingTypeInv
  <2>4. FirstInv' /\ ChartInv'
    BY <1>1, <2>1 DEF FirstInv, ChartInv
  <2> QED
    BY <1>2, <1>3, <2>3, <2>4
<1>5. CASE merchants[s] # {}
  <2>1. /\ at'[t] \in {"chart", "refused"} /\ holder' = holder
        /\ at'[t] = "chart" => merchants[s] = {form[t].name}
    BY <1>1, <1>5 DEF Onboarding!EnterOnboarding, Onboarding!Goto, OnboardingTypeInv
  <2>2. LockInv' /\ FirstInv' /\ ChartInv'
    BY <1>1, <2>1 DEF LockInv, FirstInv, ChartInv
  <2> QED
    BY <1>2, <1>3, <2>2
<1> QED
  BY <1>4, <1>5

LEMMA InsertOnboardingInv ==
  ASSUME Onboarding!OnboardingAssumption, OnboardingInv, NEW t \in Tabs,
         Onboarding!InsertOnboarding(t)
  PROVE  OnboardingInv'
<1> USE DEF OnboardingInv, Onboarding!Slug, Onboarding!Name
<1> DEFINE s == form[t].slug
           n == form[t].name
<1>1. s \in Slugs /\ n \in Names /\ holder[s] = t /\ merchants[s] = {} /\ first[s] = {}
  BY DEF Onboarding!InsertOnboarding, OnboardingTypeInv, LockInv, FirstInv
<1>2. /\ at[t] = "insert" /\ at' = [at EXCEPT ![t] = "chart"]
      /\ holder' = [holder EXCEPT ![s] = Onboarding!Nobody]
      /\ merchants' = [merchants EXCEPT ![s] = @ \cup {n}]
      /\ first' = [first EXCEPT ![s] = @ \cup {n}]
      /\ late' = (late \/ merchants[s] # {})
      /\ UNCHANGED <<form, org, chart>>
  BY <1>1 DEF Onboarding!InsertOnboarding, Onboarding!Goto
<1>3. OnboardingTypeInv'
  BY <1>1, <1>2 DEF OnboardingTypeInv, Points
<1>4. OwnerInv'
  BY <1>2 DEF OwnerInv, OnboardingTypeInv
<1>5. \A u \in Tabs : u # t /\ at[u] = "insert" => form[u].slug # s
  BY <1>1 DEF LockInv
<1>6. LockInv'
  BY <1>1, <1>2, <1>5 DEF LockInv, OnboardingTypeInv
<1>7. late' = FALSE
  BY <1>1, <1>2, Zenon DEF FirstInv
<1>8. merchants'[s] = {n} /\ first'[s] = {n}
      /\ \A r \in Slugs : r # s => merchants'[r] = merchants[r] /\ first'[r] = first[r]
  BY <1>1, <1>2 DEF OnboardingTypeInv
<1>9. FirstInv'
  BY <1>7, <1>8 DEF FirstInv
<1>10. ChartInv'
  BY <1>1, <1>2, <1>8 DEF ChartInv, OnboardingTypeInv
<1> QED
  BY <1>3, <1>4, <1>6, <1>9, <1>10

LEMMA EnsureChartInv ==
  ASSUME OnboardingInv, NEW t \in Tabs, Onboarding!EnsureChart(t)
  PROVE  OnboardingInv'
<1> USE DEF OnboardingInv, Onboarding!Slug, Onboarding!Name
<1>1. /\ at[t] = "chart" /\ at' = [at EXCEPT ![t] = "done"]
      /\ chart' = chart \cup {<<form[t].slug, form[t].name>>}
      /\ UNCHANGED <<form, org, merchants, holder, first, late>>
  BY DEF Onboarding!EnsureChart, Onboarding!Goto
<1>2. OnboardingTypeInv'
  BY <1>1 DEF OnboardingTypeInv, Points
<1>3. OwnerInv' /\ LockInv'
  BY <1>1 DEF OwnerInv, LockInv, OnboardingTypeInv
<1>4. FirstInv'
  BY <1>1 DEF FirstInv
<1>5. ChartInv'
  BY <1>1 DEF ChartInv, OnboardingTypeInv
<1> QED
  BY <1>2, <1>3, <1>4, <1>5

LEMMA CreateMerchantInv ==
  ASSUME Onboarding!OnboardingAssumption, OnboardingInv, NEW s \in Slugs, NEW n \in Names,
         Onboarding!CreateMerchant(s, n)
  PROVE  OnboardingInv'
<1> USE DEF OnboardingInv, Onboarding!Slug, Onboarding!Name
<1>1. /\ holder[s] = Onboarding!Nobody /\ merchants' = [merchants EXCEPT ![s] = @ \cup {n}]
      /\ UNCHANGED <<form, at, org, chart, holder, first, late>>
  BY DEF Onboarding!CreateMerchant, Onboarding!LockFree, Onboarding!tabVars
<1>2. merchants'[s] = merchants[s] \cup {n} /\ \A r \in Slugs : r # s =>
      merchants'[r] = merchants[r]
  BY <1>1 DEF OnboardingTypeInv
<1>3. OnboardingTypeInv'
  BY <1>1 DEF OnboardingTypeInv
<1>4. OwnerInv'
  BY <1>1 DEF OwnerInv
<1>5. LockInv'
  BY <1>1, <1>2 DEF LockInv, Onboarding!OnboardingAssumption, OnboardingTypeInv
<1>6. FirstInv' /\ ChartInv'
  BY <1>1, <1>2 DEF FirstInv, ChartInv, OnboardingTypeInv
<1> QED
  BY <1>3, <1>4, <1>5, <1>6

LEMMA DieInv ==
  ASSUME OnboardingInv, NEW t \in Tabs, Onboarding!Die(t)
  PROVE  OnboardingInv'
<1> USE DEF OnboardingInv, Onboarding!Slug, Onboarding!Name
<1>1. /\ at' = [at EXCEPT ![t] = "org"]
      /\ holder' = [s \in Slugs |-> IF holder[s] = t THEN Onboarding!Nobody ELSE holder[s]]
      /\ UNCHANGED <<form, org, merchants, chart, first, late>>
  BY DEF Onboarding!Die, Onboarding!Goto
<1>2. OnboardingTypeInv'
  BY <1>1 DEF OnboardingTypeInv, Points
<1>3. OwnerInv' /\ ChartInv'
  BY <1>1 DEF OwnerInv, ChartInv, OnboardingTypeInv
<1>4. LockInv'
  BY <1>1 DEF LockInv, OnboardingTypeInv
<1>5. FirstInv'
  BY <1>1 DEF FirstInv
<1> QED
  BY <1>2, <1>3, <1>4, <1>5

LEMMA OnboardingStep ==
  ASSUME Onboarding!OnboardingAssumption, OnboardingInv, [Onboarding!Next]_Onboarding!vars
  PROVE  OnboardingInv'
<1>1. CASE UNCHANGED Onboarding!vars
  BY <1>1
     DEF Onboarding!vars, Onboarding!tabVars, OnboardingInv, OnboardingTypeInv, OwnerInv,
         LockInv, FirstInv, ChartInv, Onboarding!Slug, Onboarding!Name
<1> QED
  BY <1>1, CreateOrganizationInv, EnterOnboardingInv, InsertOnboardingInv, EnsureChartInv,
     CreateMerchantInv, DieInv DEF Onboarding!Next, Onboarding!Wizard

-----------------------------------------------------------------------------
(* Console. *)

Phases == {"idle", "confirm", "busy", "stepup", "error", "done"}

Request == [click : Nat, conf : Nat, key : Nat, isRetry : BOOLEAN, awaited : BOOLEAN,
            at : {"sent", "ok", "refused", "stepup"}]

\* The modal of a click is mounted, or the password it sent is under way.
Open(c) == modal = c \/ password[c] # "unsent"

ConsoleTypes ==
  /\ page \in Console!Forms
  /\ conf \in Nat /\ idem \in Nat /\ clicks \in 0..MaxClicks /\ phase \in Phases
  /\ modal \in 0..clicks
  /\ password \in [1..MaxClicks -> {"unsent", "sent", "verified"}]
  /\ requests \in Console!Seq(Request)
  /\ done \subseteq DOMAIN requests
  /\ \A n \in DOMAIN requests :
       requests[n].click \in 1..clicks /\ requests[n].conf \in 0..conf

\* A click has a first request and at most one retry, which leaves when the
\* first was refused for want of a step-up and nobody waits for it.
TwoPerClick ==
  \A m, n \in DOMAIN requests : m # n /\ requests[m].click = requests[n].click =>
    /\ requests[m].isRetry # requests[n].isRetry
    /\ requests[n].isRetry => requests[m].at = "stepup" /\ ~requests[m].awaited

\* While its modal is open a click has only that first request.
OpenKnows ==
  \A c \in 1..MaxClicks : Open(c) =>
    /\ c <= clicks
    /\ \A n \in DOMAIN requests : requests[n].click = c =>
         ~requests[n].isRetry /\ requests[n].at = "stepup" /\ ~requests[n].awaited

\* An effect is that of an answer "ok", and an answer "ok" has its effect; the
\* key is that of the confirmation, and has one effect.
EffectKnows ==
  /\ \A n \in done : requests[n].at = "ok"
  /\ \A n \in DOMAIN requests : requests[n].at = "ok" =>
       \E m \in done : page.asks => requests[m].key = requests[n].key
  /\ page.asks =>
       /\ idem = conf
       /\ \A n \in DOMAIN requests : requests[n].key = requests[n].conf
       /\ \A m, n \in done : m # n => requests[m].key # requests[n].key

\* A form whose button rests while the modal is open waits for one answer, in
\* the phase "busy", and has one modal, in the phase "stepup".
PageKnows ==
  "stepup" \notin page.enabled =>
    /\ \A n \in DOMAIN requests : requests[n].awaited => phase = "busy"
    /\ \A m, n \in DOMAIN requests : requests[m].awaited /\ requests[n].awaited => m = n
    /\ \A c \in 1..MaxClicks : Open(c) => phase = "stepup" /\ modal = c

\* Whoever waits does so in the confirmation that was sent.
ConfKnows ==
  page.asks => \A n \in DOMAIN requests : requests[n].awaited => requests[n].conf = conf

ConsoleInv ==
  /\ ConsoleTypes /\ TwoPerClick /\ OpenKnows /\ EffectKnows /\ PageKnows /\ ConfKnows
  /\ Console!DoneIsDone

\* What the forms have in common.
FormIs(f) ==
  /\ f.asks \in BOOLEAN
  /\ f.asks => f.route.repeat = "replay" /\ "stepup" \notin f.enabled
  /\ "busy" \notin f.enabled
  /\ f.fails \in {"error", "idle"}

LEMMA AskingIs ==
  ASSUME NEW route, route.repeat = "replay" PROVE FormIs(Console!Asking(route))
  BY DEF FormIs, Console!Asking

LEMMA PlainIs ==
  ASSUME NEW enabled, NEW fails, NEW route, "busy" \notin enabled, fails \in {"error", "idle"}
  PROVE  FormIs(Console!Plain(enabled, fails, route))
  BY DEF FormIs, Console!Plain

LEMMA FormFacts == \A f \in Console!Forms : FormIs(f)
<1>1. FormIs(Console!CreateRefundForm) /\ FormIs(Console!CreatePaymentLinkForm)
  BY AskingIs DEF Console!CreateRefundForm, Console!CreatePaymentLinkForm,
     Console!RefundRoute, Console!LinkRoute
<1>2. /\ FormIs(Console!AckButton)
      /\ FormIs(Console!ResolveForm)
      /\ FormIs(Console!ProposeForm)
      /\ FormIs(Console!AdjustmentDecision)
  BY PlainIs DEF Console!AckButton,
     Console!ResolveForm,
     Console!ProposeForm,
     Console!AdjustmentDecision
<1>3. /\ FormIs(Console!RespondWithEvidence)
      /\ FormIs(Console!CreateApiKeyForm)
      /\ FormIs(Console!RevokeKeyButton)
      /\ FormIs(Console!CreateEndpointForm)
  BY PlainIs DEF Console!RespondWithEvidence,
     Console!CreateApiKeyForm,
     Console!RevokeKeyButton,
     Console!CreateEndpointForm
<1>4. /\ FormIs(Console!RotateButton)
      /\ FormIs(Console!DisableButton)
      /\ FormIs(Console!ResendButton)
      /\ FormIs(Console!LoginForm)
  BY PlainIs DEF Console!RotateButton,
     Console!DisableButton,
     Console!ResendButton,
     Console!LoginForm
<1>5. /\ FormIs(Console!SignupForm)
      /\ FormIs(Console!OrganizationStep)
      /\ FormIs(Console!MerchantStep)
      /\ FormIs(Console!CheckoutClient)
  BY PlainIs DEF Console!SignupForm,
     Console!OrganizationStep,
     Console!MerchantStep,
     Console!CheckoutClient
<1> QED
  BY <1>1, <1>2, <1>3, <1>4, <1>5 DEF Console!Forms

\* What a step may do with the requests: add one, or change what became of one.
Keeps(q, r) == q.click = r.click /\ q.conf = r.conf /\ q.key = r.key /\ q.isRetry = r.isRetry

LEMMA RequestIs ==
  ASSUME ConsoleTypes, NEW n \in DOMAIN requests
  PROVE  /\ requests[n] \in Request
         /\ requests[n].click \in 1..clicks /\ requests[n].conf \in 0..conf
         /\ n \in 1..Console!Len(requests)
  BY DEF ConsoleTypes

LEMMA OneMoreRequest ==
  ASSUME NEW s \in Console!Seq(Request), NEW r \in Request,
         NEW t, t = Console!Append(s, r), NEW N, N = Console!Len(s) + 1
  PROVE  /\ t \in Console!Seq(Request)
         /\ DOMAIN t = DOMAIN s \cup {N} /\ N \notin DOMAIN s
         /\ t[N] = r /\ \A n \in DOMAIN s : t[n] = s[n]
  OBVIOUS

LEMMA OneChanged ==
  ASSUME NEW s \in Console!Seq(Request), NEW n \in DOMAIN s, NEW r \in Request,
         NEW t, t = [s EXCEPT ![n] = r]
  PROVE  /\ t \in Console!Seq(Request) /\ DOMAIN t = DOMAIN s
         /\ t[n] = r /\ \A k \in DOMAIN s : k # n => t[k] = s[k]
  OBVIOUS

\* A request leaves, for a click without an open modal after it.
LEMMA SendKeeps ==
  ASSUME ConsoleInv, MaxClicks \in Nat, NEW c \in 1..MaxClicks, NEW b \in BOOLEAN, Console!Send(c, b),
         UNCHANGED <<page, conf, idem, done>>,
         clicks' \in 0..MaxClicks, clicks <= clicks', c <= clicks',
         password' \in [1..MaxClicks -> {"unsent", "sent", "verified"}],
         \A d \in 1..MaxClicks : password'[d] # "unsent" => Open(d) /\ d # c,
         \A m \in DOMAIN requests : requests[m].click = c =>
            b /\ ~requests[m].isRetry /\ requests[m].at = "stepup" /\ ~requests[m].awaited,
         "stepup" \notin page.enabled =>
            /\ \A m \in DOMAIN requests : ~requests[m].awaited
            /\ \A d \in 1..MaxClicks : password'[d] = "unsent"
  PROVE  ConsoleInv'
<1> DEFINE N == Console!Len(requests) + 1
           new == [click |-> c, conf |-> conf, key |-> idem, isRetry |-> b,
                   awaited |-> TRUE, at |-> "sent"]
<1>1. /\ phase' = "busy" /\ modal' = 0 /\ requests' = Console!Append(requests, new)
  BY DEF Console!Send, Console!KeySent
<1>2. /\ requests \in Console!Seq(Request) /\ conf \in Nat /\ idem \in Nat /\ c \in Nat
      /\ MaxClicks \in Int /\ clicks \in 0..MaxClicks /\ done \subseteq DOMAIN requests
      /\ page \in Console!Forms
  BY DEF ConsoleInv, ConsoleTypes
<1>3. /\ new \in Request
      /\ new.click = c /\ new.conf = conf /\ new.key = idem /\ new.isRetry = b
      /\ new.awaited = TRUE /\ new.at = "sent"
  BY <1>2 DEF Request
<1> HIDE DEF new, N
<1>4. /\ requests' \in Console!Seq(Request)
      /\ DOMAIN requests' = DOMAIN requests \cup {N} /\ N \notin DOMAIN requests
      /\ requests'[N] = new /\ \A n \in DOMAIN requests : requests'[n] = requests[n]
  <2>1. PICK t : t = requests'
    OBVIOUS
  <2> QED
    BY <1>1, <1>2, <1>3, <2>1, OneMoreRequest DEF N
<1>5. ConsoleTypes'
  <2>1. \A n \in DOMAIN requests' :
          requests'[n].click \in 1..clicks' /\ requests'[n].conf \in 0..conf'
    <3> SUFFICES ASSUME NEW n \in DOMAIN requests'
                 PROVE  requests'[n].click \in 1..clicks' /\ requests'[n].conf \in 0..conf'
      OBVIOUS
    <3>1. CASE n = N
      BY <1>2, <1>3, <1>4, <3>1
    <3>2. CASE n \in DOMAIN requests
      <4>1. requests[n].click \in 1..clicks /\ requests[n].conf \in 0..conf
        BY <3>2, RequestIs DEF ConsoleInv
      <4> QED
        BY <1>2, <1>4, <3>2, <4>1
    <3> QED
      BY <1>4, <3>1, <3>2
  <2>2. phase' \in Phases /\ modal' \in 0..clicks'
    BY <1>1 DEF Phases
  <2> QED
    BY <1>2, <1>4, <2>1, <2>2 DEF ConsoleTypes
<1>6. TwoPerClick'
  <2> SUFFICES ASSUME NEW m \in DOMAIN requests', NEW n \in DOMAIN requests', m # n,
                      requests'[m].click = requests'[n].click
               PROVE  /\ requests'[m].isRetry # requests'[n].isRetry
                      /\ requests'[n].isRetry =>
                           requests'[m].at = "stepup" /\ ~requests'[m].awaited
    BY DEF TwoPerClick
  <2>1. CASE m \in DOMAIN requests /\ n \in DOMAIN requests
    BY <1>4, <2>1 DEF ConsoleInv, TwoPerClick
  <2>2. CASE m \in DOMAIN requests /\ n = N
    BY <1>3, <1>4, <2>2
  <2>3. CASE m = N /\ n \in DOMAIN requests
    BY <1>3, <1>4, <2>3
  <2> QED
    BY <1>4, <2>1, <2>2, <2>3
<1>7. OpenKnows'
  <2> SUFFICES ASSUME NEW d \in 1..MaxClicks, Open(d)'
               PROVE  /\ d <= clicks'
                      /\ \A n \in DOMAIN requests' : requests'[n].click = d =>
                           /\ ~requests'[n].isRetry /\ requests'[n].at = "stepup"
                           /\ ~requests'[n].awaited
    BY DEF OpenKnows
  <2>1. Open(d) /\ d # c
    BY <1>1 DEF Open
  <2>2. /\ d <= clicks
        /\ \A n \in DOMAIN requests : requests[n].click = d =>
             ~requests[n].isRetry /\ requests[n].at = "stepup" /\ ~requests[n].awaited
    BY <2>1 DEF ConsoleInv, OpenKnows
  <2> QED
    BY <1>2, <1>3, <1>4, <2>1, <2>2
<1>8. EffectKnows'
  <2>1. \A n \in done' : requests'[n].at = "ok"
    BY <1>2, <1>4 DEF ConsoleInv, EffectKnows
  <2>2. \A n \in DOMAIN requests' : requests'[n].at = "ok" =>
          \E m \in done' : page'.asks => requests'[m].key = requests'[n].key
    <3> SUFFICES ASSUME NEW n \in DOMAIN requests', requests'[n].at = "ok"
                 PROVE  \E m \in done' : page'.asks => requests'[m].key = requests'[n].key
      OBVIOUS
    <3>1. n \in DOMAIN requests /\ requests[n].at = "ok"
      BY <1>3, <1>4
    <3>2. PICK m \in done : page.asks => requests[m].key = requests[n].key
      BY <3>1 DEF ConsoleInv, EffectKnows
    <3> QED
      BY <1>2, <1>4, <3>1, <3>2
  <2>3. page'.asks =>
          /\ idem' = conf'
          /\ \A n \in DOMAIN requests' : requests'[n].key = requests'[n].conf
    BY <1>3, <1>4 DEF ConsoleInv, EffectKnows
  <2>4. page'.asks => \A m, n \in done' : m # n => requests'[m].key # requests'[n].key
    BY <1>2, <1>4 DEF ConsoleInv, EffectKnows
  <2> QED
    BY <2>1, <2>2, <2>3, <2>4 DEF EffectKnows
<1>9. PageKnows'
  <2> SUFFICES ASSUME "stepup" \notin page.enabled
               PROVE  /\ \A n \in DOMAIN requests' : requests'[n].awaited => phase' = "busy"
                      /\ \A m, n \in DOMAIN requests' :
                           requests'[m].awaited /\ requests'[n].awaited => m = n
                      /\ \A d \in 1..MaxClicks : Open(d)' => phase' = "stepup" /\ modal' = d
    BY DEF PageKnows
  <2>1. \A d \in 1..MaxClicks : ~Open(d)'
    BY <1>1 DEF Open
  <2> QED
    BY <1>1, <1>4, <2>1
<1>10. ConfKnows'
  <2>1. \A n \in DOMAIN requests : page.asks /\ requests[n].awaited => requests[n].conf = conf
    BY DEF ConsoleInv, ConfKnows
  <2> QED
    BY <1>3, <1>4, <2>1 DEF ConfKnows
<1>11. Console!DoneIsDone'
  BY <1>1 DEF Console!DoneIsDone
<1> QED
  BY <1>5, <1>6, <1>7, <1>8, <1>9, <1>10, <1>11 DEF ConsoleInv

LEMMA PressKeeps ==
  ASSUME ConsoleInv, MaxClicks \in Nat, Console!Press PROVE ConsoleInv'
<1>1. /\ phase \in page.enabled /\ clicks < MaxClicks /\ clicks' = clicks + 1
      /\ Console!Send(clicks + 1, FALSE)
      /\ UNCHANGED <<page, conf, idem, done, password>>
  BY DEF Console!Press
<1>2. /\ clicks \in 0..MaxClicks /\ page \in Console!Forms
      /\ password \in [1..MaxClicks -> {"unsent", "sent", "verified"}]
  BY DEF ConsoleInv, ConsoleTypes
<1>3. clicks + 1 \in 1..MaxClicks
  BY <1>1, <1>2
<1>4. \A m \in DOMAIN requests : requests[m].click # clicks + 1
  <2> SUFFICES ASSUME NEW m \in DOMAIN requests PROVE requests[m].click # clicks + 1
    OBVIOUS
  <2>1. requests[m].click \in 1..clicks
    BY RequestIs DEF ConsoleInv
  <2> QED
    BY <1>2, <2>1
<1>5. \A d \in 1..MaxClicks : password[d] # "unsent" => Open(d) /\ d # clicks + 1
  <2> SUFFICES ASSUME NEW d \in 1..MaxClicks, password[d] # "unsent"
               PROVE  Open(d) /\ d # clicks + 1
    OBVIOUS
  <2>1. Open(d)
    BY DEF Open
  <2>2. d <= clicks
    BY <2>1 DEF ConsoleInv, OpenKnows
  <2> QED
    BY <1>2, <2>1, <2>2
<1>6. "stepup" \notin page.enabled =>
        /\ \A m \in DOMAIN requests : ~requests[m].awaited
        /\ \A d \in 1..MaxClicks : password[d] = "unsent"
  <2> SUFFICES ASSUME "stepup" \notin page.enabled
               PROVE  /\ \A m \in DOMAIN requests : ~requests[m].awaited
                      /\ \A d \in 1..MaxClicks : password[d] = "unsent"
    OBVIOUS
  <2>1. phase # "busy" /\ phase # "stepup"
    BY <1>1, <1>2, FormFacts DEF FormIs
  <2>2. /\ \A n \in DOMAIN requests : requests[n].awaited => phase = "busy"
        /\ \A d \in 1..MaxClicks : Open(d) => phase = "stepup"
    BY DEF ConsoleInv, PageKnows
  <2> QED
    BY <2>1, <2>2 DEF Open
<1>7. clicks' \in 0..MaxClicks /\ clicks <= clicks' /\ clicks + 1 <= clicks'
  BY <1>1, <1>2
<1>8. PICK c \in 1..MaxClicks : c = clicks + 1
  BY <1>3
<1>9. /\ Console!Send(c, FALSE) /\ c <= clicks'
      /\ \A m \in DOMAIN requests : requests[m].click # c
      /\ \A d \in 1..MaxClicks : password'[d] # "unsent" => Open(d) /\ d # c
  BY <1>1, <1>4, <1>5, <1>7, <1>8
<1>10. password' \in [1..MaxClicks -> {"unsent", "sent", "verified"}]
  BY <1>1, <1>2
<1>11. "stepup" \notin page.enabled =>
         /\ \A m \in DOMAIN requests : ~requests[m].awaited
         /\ \A d \in 1..MaxClicks : password'[d] = "unsent"
  BY <1>1, <1>6
<1> QED
  BY <1>1, <1>7, <1>9, <1>10, <1>11, SendKeeps

LEMMA RetryKeeps ==
  ASSUME ConsoleInv, MaxClicks \in Nat, NEW c \in 1..MaxClicks, Console!PasswordAccepted(c)
  PROVE  ConsoleInv'
<1>1. /\ password[c] = "verified" /\ password' = [password EXCEPT ![c] = "unsent"]
      /\ Console!Send(c, TRUE)
      /\ UNCHANGED <<page, conf, idem, done, clicks>>
  BY DEF Console!PasswordAccepted
<1>2. /\ clicks \in 0..MaxClicks
      /\ password \in [1..MaxClicks -> {"unsent", "sent", "verified"}]
  BY DEF ConsoleInv, ConsoleTypes
<1>3. Open(c)
  BY <1>1 DEF Open
<1>4. /\ c <= clicks
      /\ \A m \in DOMAIN requests : requests[m].click = c =>
           ~requests[m].isRetry /\ requests[m].at = "stepup" /\ ~requests[m].awaited
  BY <1>3 DEF ConsoleInv, OpenKnows
<1>5. /\ password' \in [1..MaxClicks -> {"unsent", "sent", "verified"}]
      /\ password'[c] = "unsent"
      /\ \A d \in 1..MaxClicks : d # c => password'[d] = password[d]
  BY <1>1, <1>2
<1>6. \A d \in 1..MaxClicks : password'[d] # "unsent" => Open(d) /\ d # c
  BY <1>5 DEF Open
<1>7. "stepup" \notin page.enabled =>
        /\ \A m \in DOMAIN requests : ~requests[m].awaited
        /\ \A d \in 1..MaxClicks : password'[d] = "unsent"
  <2> SUFFICES ASSUME "stepup" \notin page.enabled
               PROVE  /\ \A m \in DOMAIN requests : ~requests[m].awaited
                      /\ \A d \in 1..MaxClicks : password'[d] = "unsent"
    OBVIOUS
  <2>1. \A n \in DOMAIN requests : requests[n].awaited => phase = "busy"
    BY DEF ConsoleInv, PageKnows
  <2>2. \A d \in 1..MaxClicks : Open(d) => phase = "stepup" /\ modal = d
    BY DEF ConsoleInv, PageKnows
  <2>3. phase = "stepup" /\ modal = c
    BY <1>3, <2>2
  <2> QED
    BY <1>5, <1>6, <2>1, <2>2, <2>3
<1>8. clicks' \in 0..MaxClicks /\ clicks <= clicks' /\ c <= clicks'
  BY <1>1, <1>2, <1>4
<1> QED
  BY <1>1, <1>4, <1>5, <1>6, <1>7, <1>8, SendKeeps

\* A step that touches neither what was sent nor what was done; a modal that is
\* open after it was open before, or is that of the one click c.
LEMMA ModalKeeps ==
  ASSUME ConsoleInv,
         UNCHANGED <<page, clicks, requests, done>>,
         conf' \in Nat, conf <= conf', idem' \in Nat,
         phase' \in Phases, phase' # "done" \/ UNCHANGED <<phase, conf>>,
         modal' \in 0..clicks,
         password' \in [1..MaxClicks -> {"unsent", "sent", "verified"}],
         \A d \in 1..MaxClicks : Open(d)' => Open(d),
         page.asks => idem' = conf' /\ (conf' = conf \/ phase = "idle"),
         "stepup" \notin page.enabled =>
            /\ phase = "busy" => phase' = "busy"
            /\ \A d \in 1..MaxClicks : Open(d)' => phase' = "stepup" /\ modal' = d
  PROVE  ConsoleInv'
<1>1. ConsoleTypes'
  <2>1. /\ page \in Console!Forms /\ clicks \in 0..MaxClicks /\ conf \in Nat
        /\ requests \in Console!Seq(Request) /\ done \subseteq DOMAIN requests
    BY DEF ConsoleInv, ConsoleTypes
  <2>2. \A n \in DOMAIN requests : requests[n].click \in 1..clicks /\ requests[n].conf \in 0..conf'
    <3> SUFFICES ASSUME NEW n \in DOMAIN requests
                 PROVE  requests[n].click \in 1..clicks /\ requests[n].conf \in 0..conf'
      OBVIOUS
    <3>1. requests[n].click \in 1..clicks /\ requests[n].conf \in 0..conf
      BY RequestIs DEF ConsoleInv
    <3> QED
      BY <2>1, <3>1
  <2> QED
    BY <2>1, <2>2 DEF ConsoleTypes
<1>2. TwoPerClick'
  BY DEF ConsoleInv, TwoPerClick
<1>3. OpenKnows'
  <2> SUFFICES ASSUME NEW d \in 1..MaxClicks, Open(d)'
               PROVE  /\ d <= clicks'
                      /\ \A n \in DOMAIN requests' : requests'[n].click = d =>
                           /\ ~requests'[n].isRetry /\ requests'[n].at = "stepup"
                           /\ ~requests'[n].awaited
    BY DEF OpenKnows
  <2> QED
    BY DEF ConsoleInv, OpenKnows
<1>4. EffectKnows'
  BY DEF ConsoleInv, EffectKnows
<1>5. PageKnows'
  <2> SUFFICES ASSUME "stepup" \notin page.enabled
               PROVE  /\ \A n \in DOMAIN requests' : requests'[n].awaited => phase' = "busy"
                      /\ \A m, n \in DOMAIN requests' :
                           requests'[m].awaited /\ requests'[n].awaited => m = n
                      /\ \A d \in 1..MaxClicks : Open(d)' => phase' = "stepup" /\ modal' = d
    BY DEF PageKnows
  <2>1. \A n \in DOMAIN requests : requests[n].awaited => phase = "busy"
    BY DEF ConsoleInv, PageKnows
  <2>2. \A m, n \in DOMAIN requests : requests[m].awaited /\ requests[n].awaited => m = n
    BY DEF ConsoleInv, PageKnows
  <2> QED
    BY <2>1, <2>2
<1>6. ConfKnows'
  <2> SUFFICES ASSUME page.asks, NEW n \in DOMAIN requests, requests[n].awaited
               PROVE  requests[n].conf = conf'
    BY DEF ConfKnows
  <2>1. requests[n].conf = conf
    BY DEF ConsoleInv, ConfKnows
  <2>2. "stepup" \notin page.enabled
    BY FormFacts DEF ConsoleInv, ConsoleTypes, FormIs
  <2>3. phase = "busy"
    BY <2>2 DEF ConsoleInv, PageKnows
  <2> QED
    BY <2>1, <2>3
<1>7. Console!DoneIsDone'
  BY DEF ConsoleInv, Console!DoneIsDone
<1> QED
  BY <1>1, <1>2, <1>3, <1>4, <1>5, <1>6, <1>7 DEF ConsoleInv

LEMMA PersonKeeps ==
  ASSUME ConsoleInv, MaxClicks \in Nat,
         \/ Console!ToConfirm \/ Console!CancelConfirm \/ Console!Age
         \/ Console!SubmitPassword \/ Console!CancelModal
         \/ \E c \in 1..MaxClicks : Console!VerifyPassword(c) \/ Console!PasswordFails(c)
         \/ UNCHANGED consoleVars
  PROVE  ConsoleInv'
<1>1. /\ conf \in Nat /\ idem \in Nat /\ phase \in Phases /\ modal \in 0..clicks
      /\ clicks \in 0..MaxClicks /\ page \in Console!Forms
      /\ password \in [1..MaxClicks -> {"unsent", "sent", "verified"}]
  BY DEF ConsoleInv, ConsoleTypes
<1>2. page.asks => idem = conf
  BY DEF ConsoleInv, EffectKnows
<1>3. "stepup" \notin page.enabled =>
        \A d \in 1..MaxClicks : Open(d) => phase = "stepup" /\ modal = d
  BY DEF ConsoleInv, PageKnows
<1>4. page.asks => "stepup" \notin page.enabled
  BY <1>1, FormFacts DEF FormIs
<1>5. modal # 0 => modal \in 1..MaxClicks /\ Open(modal)
  BY <1>1 DEF Open
<1>6. CASE Console!ToConfirm
  <2>1. /\ page.asks /\ phase = "idle" /\ conf' = conf + 1 /\ idem' = conf + 1
        /\ phase' = "confirm"
        /\ UNCHANGED <<page, clicks, modal, password, requests, done>>
    BY <1>6 DEF Console!ToConfirm
  <2>2. \A d \in 1..MaxClicks : Open(d)' <=> Open(d)
    BY <2>1 DEF Open
  <2>3. phase' \in Phases
    BY <2>1 DEF Phases
  <2>4. "stepup" \notin page.enabled => \A d \in 1..MaxClicks : ~Open(d)
    BY <1>3, <2>1
  <2> QED
    BY <1>1, <2>1, <2>2, <2>3, <2>4, ModalKeeps
<1>7. CASE Console!CancelConfirm
  <2>1. /\ phase \in {"confirm", "error"} /\ phase' = "idle"
        /\ UNCHANGED <<page, conf, idem, clicks, modal, password, requests, done>>
    BY <1>7 DEF Console!CancelConfirm
  <2>2. \A d \in 1..MaxClicks : Open(d)' <=> Open(d)
    BY <2>1 DEF Open
  <2>3. phase' \in Phases
    BY <2>1 DEF Phases
  <2>4. "stepup" \notin page.enabled => \A d \in 1..MaxClicks : ~Open(d)
    BY <1>3, <2>1
  <2> QED
    BY <1>1, <1>2, <2>1, <2>2, <2>3, <2>4, ModalKeeps
<1>8. CASE Console!CancelModal
  <2>1. /\ modal # 0 /\ password[modal] = "unsent" /\ phase' = "idle" /\ modal' = 0
        /\ UNCHANGED <<page, conf, idem, clicks, password, requests, done>>
    BY <1>8 DEF Console!CancelModal
  <2>2. \A d \in 1..MaxClicks : Open(d)' => Open(d) /\ password[d] # "unsent"
    BY <2>1 DEF Open
  <2>3. phase' \in Phases /\ modal' \in 0..clicks
    BY <1>1, <2>1 DEF Phases
  <2>4. "stepup" \notin page.enabled =>
          phase # "busy" /\ \A d \in 1..MaxClicks : ~Open(d)'
    BY <1>3, <1>5, <2>1, <2>2
  <2> QED
    BY <1>1, <1>2, <2>1, <2>2, <2>3, <2>4, ModalKeeps
<1>9. ASSUME UNCHANGED <<page, conf, idem, clicks, requests, done, phase, modal>>,
             password' \in [1..MaxClicks -> {"unsent", "sent", "verified"}],
             \A d \in 1..MaxClicks : Open(d)' => Open(d)
      PROVE  ConsoleInv'
  BY <1>1, <1>2, <1>3, <1>9, ModalKeeps
<1>10. CASE Console!SubmitPassword
  <2>1. /\ modal # 0 /\ password' = [password EXCEPT ![modal] = "sent"]
        /\ UNCHANGED <<page, conf, idem, clicks, requests, done, phase, modal>>
    BY <1>10 DEF Console!SubmitPassword
  <2>2. \A d \in 1..MaxClicks : Open(d)' => Open(d)
    BY <1>1, <1>5, <2>1 DEF Open
  <2> QED
    BY <1>1, <1>9, <2>1, <2>2
<1>11. ASSUME NEW c \in 1..MaxClicks, Console!VerifyPassword(c) \/ Console!PasswordFails(c)
       PROVE  ConsoleInv'
  <2>1. /\ password[c] # "unsent"
        /\ password' \in [1..MaxClicks -> {"unsent", "sent", "verified"}]
        /\ \A d \in 1..MaxClicks : d # c => password'[d] = password[d]
        /\ UNCHANGED <<page, conf, idem, clicks, requests, done, phase, modal>>
    BY <1>1, <1>11 DEF Console!VerifyPassword, Console!PasswordFails
  <2>2. \A d \in 1..MaxClicks : Open(d)' => Open(d)
    BY <2>1 DEF Open
  <2> QED
    BY <1>9, <2>1, <2>2
<1>12. CASE Console!Age \/ UNCHANGED consoleVars
  <2>1. UNCHANGED <<page, conf, idem, clicks, requests, done, phase, modal, password>>
    BY <1>12 DEF Console!Age, consoleVars
  <2>2. \A d \in 1..MaxClicks : Open(d)' => Open(d)
    BY <2>1 DEF Open
  <2> QED
    BY <1>1, <1>9, <2>1, <2>2
<1> QED
  BY <1>6, <1>7, <1>8, <1>10, <1>11, <1>12

LEMMA ReloadKeeps ==
  ASSUME ConsoleInv, Console!Reload PROVE ConsoleInv'
<1>1. /\ phase' = "idle" /\ modal' = 0
      /\ password' = [c \in 1..MaxClicks |-> "unsent"]
      /\ requests' = [n \in 1..Console!Len(requests) |->
                        [requests[n] EXCEPT !.awaited = FALSE]]
      /\ UNCHANGED <<page, conf, idem, clicks, done>>
  BY DEF Console!Reload
<1>2. /\ requests \in Console!Seq(Request) /\ conf \in Nat /\ idem \in Nat
      /\ clicks \in 0..MaxClicks /\ page \in Console!Forms /\ done \subseteq DOMAIN requests
  BY DEF ConsoleInv, ConsoleTypes
<1>3. \A n \in DOMAIN requests : requests[n] \in Request
  BY <1>2
<1>4. /\ requests' \in Console!Seq(Request) /\ DOMAIN requests' = DOMAIN requests
      /\ \A n \in DOMAIN requests :
           Keeps(requests'[n], requests[n]) /\ requests'[n].at = requests[n].at
             /\ requests'[n].awaited = FALSE
  <2>1. DOMAIN requests = 1..Console!Len(requests) /\ Console!Len(requests) \in Nat
    BY <1>2
  <2>2. ASSUME NEW q \in Request
        PROVE  /\ [q EXCEPT !.awaited = FALSE] \in Request
               /\ Keeps([q EXCEPT !.awaited = FALSE], q)
               /\ [q EXCEPT !.awaited = FALSE].at = q.at
               /\ [q EXCEPT !.awaited = FALSE].awaited = FALSE
    BY DEF Request, Keeps
  <2>3. \A n \in DOMAIN requests : requests'[n] = [requests[n] EXCEPT !.awaited = FALSE]
    BY <1>1, <2>1
  <2>4. DOMAIN requests' = DOMAIN requests
    BY <1>1, <2>1
  <2>5. \A n \in DOMAIN requests :
           Keeps(requests'[n], requests[n]) /\ requests'[n].at = requests[n].at
             /\ requests'[n].awaited = FALSE /\ requests'[n] \in Request
    <3> SUFFICES ASSUME NEW n \in DOMAIN requests
                 PROVE  /\ Keeps(requests'[n], requests[n])
                        /\ requests'[n].at = requests[n].at
                        /\ requests'[n].awaited = FALSE /\ requests'[n] \in Request
      OBVIOUS
    <3>1. PICK q \in Request : q = requests[n]
      BY <1>3
    <3>2. requests'[n] = [q EXCEPT !.awaited = FALSE]
      BY <2>3, <3>1
    <3> QED
      BY <2>2, <3>1, <3>2
  <2>6. requests' \in Console!Seq(Request)
    <3>1. PICK k \in Nat : DOMAIN requests = 1..k /\ Console!Len(requests) = k
      BY <2>1
    <3>2. requests' \in [1..k -> Request]
      BY <1>1, <2>5, <3>1
    <3> QED
      BY <3>1, <3>2
  <2> QED
    BY <2>4, <2>5, <2>6
<1>5. ConsoleTypes'
  <2>1. phase' \in Phases /\ modal' \in 0..clicks
          /\ password' \in [1..MaxClicks -> {"unsent", "sent", "verified"}]
    BY <1>1, <1>2 DEF Phases
  <2>2. \A n \in DOMAIN requests' :
          requests'[n].click \in 1..clicks /\ requests'[n].conf \in 0..conf
    BY <1>4, RequestIs DEF ConsoleInv, Keeps
  <2> QED
    BY <1>1, <1>2, <1>4, <2>1, <2>2 DEF ConsoleTypes
<1>6. TwoPerClick'
  BY <1>4 DEF ConsoleInv, TwoPerClick, Keeps
<1>7. \A d \in 1..MaxClicks : ~Open(d)'
  BY <1>1 DEF Open
<1>8. OpenKnows'
  BY <1>7 DEF OpenKnows
<1>9. EffectKnows'
  <2>1. \A n \in done' : requests'[n].at = "ok"
    BY <1>1, <1>2, <1>4 DEF ConsoleInv, EffectKnows
  <2>2. \A n \in DOMAIN requests' : requests'[n].at = "ok" =>
          \E m \in done' : page'.asks => requests'[m].key = requests'[n].key
    <3> SUFFICES ASSUME NEW n \in DOMAIN requests', requests'[n].at = "ok"
                 PROVE  \E m \in done' : page'.asks => requests'[m].key = requests'[n].key
      OBVIOUS
    <3>1. n \in DOMAIN requests /\ requests[n].at = "ok"
      BY <1>4
    <3>2. PICK m \in done : page.asks => requests[m].key = requests[n].key
      BY <3>1 DEF ConsoleInv, EffectKnows
    <3> QED
      BY <1>1, <1>2, <1>4, <3>1, <3>2 DEF Keeps
  <2>3. page'.asks =>
          /\ idem' = conf'
          /\ \A n \in DOMAIN requests' : requests'[n].key = requests'[n].conf
    BY <1>1, <1>4 DEF ConsoleInv, EffectKnows, Keeps
  <2>4. page'.asks => \A m, n \in done' : m # n => requests'[m].key # requests'[n].key
    BY <1>1, <1>2, <1>4 DEF ConsoleInv, EffectKnows, Keeps
  <2> QED
    BY <2>1, <2>2, <2>3, <2>4 DEF EffectKnows
<1>10. PageKnows' /\ ConfKnows'
  BY <1>4, <1>7 DEF PageKnows, ConfKnows
<1>11. Console!DoneIsDone'
  BY <1>1 DEF Console!DoneIsDone
<1> QED
  BY <1>5, <1>6, <1>8, <1>9, <1>10, <1>11 DEF ConsoleInv

\* What became of one request changes: an answer is found, or arrives, or is lost.
LEMMA ChangedKeeps ==
  ASSUME ConsoleInv, NEW n \in DOMAIN requests, NEW r \in Request,
         requests' = [requests EXCEPT ![n] = r], Keeps(r, requests[n]),
         requests[n].at # "sent" => r.at = requests[n].at,
         UNCHANGED <<page, conf, idem, clicks, password>>,
         phase' \in Phases, modal' \in 0..clicks,
         done \subseteq done', done' \subseteq done \cup {n}, n \in done' => r.at = "ok",
         r.at = "ok" => \E m \in done' : page.asks => requests[m].key = r.key,
         page.asks /\ n \in done' => \A m \in done : m # n => requests[m].key # r.key,
         \A d \in 1..MaxClicks : Open(d)' /\ ~Open(d) =>
            /\ phase' = "stepup" /\ modal' = d /\ d <= clicks /\ requests[n].awaited
            /\ r.click = d /\ ~r.isRetry /\ r.at = "stepup" /\ ~r.awaited,
         \/ UNCHANGED <<phase, modal>> /\ r.awaited = requests[n].awaited
         \/ requests[n].awaited /\ ~r.awaited /\ (phase' = "done" => r.at = "ok")
  PROVE  ConsoleInv'
<1>1. /\ requests \in Console!Seq(Request) /\ conf \in Nat /\ idem \in Nat
      /\ clicks \in 0..MaxClicks /\ page \in Console!Forms /\ done \subseteq DOMAIN requests
      /\ password \in [1..MaxClicks -> {"unsent", "sent", "verified"}]
  BY DEF ConsoleInv, ConsoleTypes
<1>2. /\ requests' \in Console!Seq(Request) /\ DOMAIN requests' = DOMAIN requests
      /\ requests'[n] = r /\ \A m \in DOMAIN requests : m # n => requests'[m] = requests[m]
  <2>1. PICK t : t = requests'
    OBVIOUS
  <2> QED
    BY <1>1, <2>1, OneChanged
<1>3. \A m \in DOMAIN requests :
        /\ Keeps(requests'[m], requests[m])
        /\ requests[m].at # "sent" => requests'[m].at = requests[m].at
        /\ requests'[m].awaited => requests[m].awaited
  <2> SUFFICES ASSUME NEW m \in DOMAIN requests
               PROVE  /\ Keeps(requests'[m], requests[m])
                      /\ requests[m].at # "sent" => requests'[m].at = requests[m].at
                      /\ requests'[m].awaited => requests[m].awaited
    OBVIOUS
  <2>1. CASE m = n
    BY <1>2, <2>1
  <2>2. CASE m # n
    BY <1>2, <2>2 DEF Keeps
  <2> QED
    BY <2>1, <2>2
<1>4. \A m \in DOMAIN requests :
        /\ requests'[m].click = requests[m].click /\ requests'[m].conf = requests[m].conf
        /\ requests'[m].key = requests[m].key /\ requests'[m].isRetry = requests[m].isRetry
  BY <1>3 DEF Keeps
<1>5. ConsoleTypes'
  <2>1. \A m \in DOMAIN requests' :
          requests'[m].click \in 1..clicks /\ requests'[m].conf \in 0..conf
    BY <1>2, <1>4, RequestIs DEF ConsoleInv
  <2> QED
    BY <1>1, <1>2, <2>1 DEF ConsoleTypes
<1>6. TwoPerClick'
  <2> SUFFICES ASSUME NEW k \in DOMAIN requests, NEW m \in DOMAIN requests, k # m,
                      requests[k].click = requests[m].click
               PROVE  /\ requests[k].isRetry # requests[m].isRetry
                      /\ requests[m].isRetry =>
                           requests'[k].at = "stepup" /\ ~requests'[k].awaited
    BY <1>2, <1>4 DEF TwoPerClick
  <2>1. /\ requests[k].isRetry # requests[m].isRetry
        /\ requests[m].isRetry => requests[k].at = "stepup" /\ ~requests[k].awaited
    BY DEF ConsoleInv, TwoPerClick
  <2> QED
    BY <1>3, <2>1
<1>7. OpenKnows'
  <2> SUFFICES ASSUME NEW d \in 1..MaxClicks, Open(d)'
               PROVE  /\ d <= clicks'
                      /\ \A m \in DOMAIN requests' : requests'[m].click = d =>
                           /\ ~requests'[m].isRetry /\ requests'[m].at = "stepup"
                           /\ ~requests'[m].awaited
    BY DEF OpenKnows
  <2>1. CASE Open(d)
    <3>1. /\ d <= clicks
          /\ \A m \in DOMAIN requests : requests[m].click = d =>
               ~requests[m].isRetry /\ requests[m].at = "stepup" /\ ~requests[m].awaited
      BY <2>1 DEF ConsoleInv, OpenKnows
    <3> QED
      BY <1>2, <1>3, <1>4, <3>1
  <2>2. CASE ~Open(d)
    <3>1. /\ d <= clicks /\ requests[n].awaited
          /\ r.click = d /\ ~r.isRetry /\ r.at = "stepup" /\ ~r.awaited
      BY <2>2
    <3>2. ASSUME NEW m \in DOMAIN requests, m # n, requests[m].click = d
          PROVE  FALSE
      <4>1. requests[n].click = d /\ ~requests[n].isRetry
        BY <1>2, <1>4, <3>1
      <4>2. /\ requests[n].isRetry # requests[m].isRetry
            /\ requests[m].isRetry => ~requests[n].awaited
        BY <3>2, <4>1 DEF ConsoleInv, TwoPerClick
      <4>3. requests[m].isRetry \in BOOLEAN /\ requests[n].isRetry \in BOOLEAN
        BY RequestIs DEF ConsoleInv, Request
      <4> QED
        BY <3>1, <4>1, <4>2, <4>3
    <3> QED
      BY <1>2, <1>4, <3>1, <3>2
  <2> QED
    BY <2>1, <2>2
<1>8. EffectKnows'
  <2>1. \A m \in done' : requests'[m].at = "ok"
    <3> SUFFICES ASSUME NEW m \in done' PROVE requests'[m].at = "ok"
      OBVIOUS
    <3>1. CASE m = n
      BY <1>2, <3>1
    <3>2. CASE m # n
      BY <1>1, <1>2, <3>2 DEF ConsoleInv, EffectKnows
    <3> QED
      BY <3>1, <3>2
  <2>2. \A k \in DOMAIN requests' : requests'[k].at = "ok" =>
          \E m \in done' : page'.asks => requests'[m].key = requests'[k].key
    <3> SUFFICES ASSUME NEW k \in DOMAIN requests', requests'[k].at = "ok"
                 PROVE  \E m \in done' : page'.asks => requests'[m].key = requests'[k].key
      OBVIOUS
    <3>1. PICK m \in done' : page.asks => requests[m].key = requests[k].key
      <4>1. CASE k = n
        BY <1>2, <4>1 DEF Keeps
      <4>2. CASE k # n
        BY <1>2, <4>2 DEF ConsoleInv, EffectKnows
      <4> QED
        BY <4>1, <4>2
    <3> QED
      BY <1>1, <1>2, <1>4, <3>1
  <2>3. page'.asks =>
          /\ idem' = conf'
          /\ \A k \in DOMAIN requests' : requests'[k].key = requests'[k].conf
    BY <1>2, <1>4 DEF ConsoleInv, EffectKnows
  <2>4. page'.asks => \A m, k \in done' : m # k => requests'[m].key # requests'[k].key
    <3> SUFFICES ASSUME page.asks, NEW m \in done', NEW k \in done', m # k
                 PROVE  requests[m].key # requests[k].key
      BY <1>1, <1>4
    <3>1. r.key = requests[n].key
      BY DEF Keeps
    <3>2. CASE m = n
      BY <3>1, <3>2
    <3>3. CASE k = n
      BY <3>1, <3>3
    <3>4. CASE m # n /\ k # n
      BY <3>4 DEF ConsoleInv, EffectKnows
    <3> QED
      BY <3>2, <3>3, <3>4
  <2> QED
    BY <2>1, <2>2, <2>3, <2>4 DEF EffectKnows
<1>9. PageKnows'
  <2> SUFFICES ASSUME "stepup" \notin page.enabled
               PROVE  /\ \A m \in DOMAIN requests' : requests'[m].awaited => phase' = "busy"
                      /\ \A k, m \in DOMAIN requests' :
                           requests'[k].awaited /\ requests'[m].awaited => k = m
                      /\ \A d \in 1..MaxClicks : Open(d)' => phase' = "stepup" /\ modal' = d
    BY DEF PageKnows
  <2>1. \A m \in DOMAIN requests : requests[m].awaited => phase = "busy"
    BY DEF ConsoleInv, PageKnows
  <2>2. \A k, m \in DOMAIN requests : requests[k].awaited /\ requests[m].awaited => k = m
    BY DEF ConsoleInv, PageKnows
  <2>3. \A d \in 1..MaxClicks : Open(d) => phase = "stepup" /\ modal = d
    BY DEF ConsoleInv, PageKnows
  <2>4. CASE UNCHANGED <<phase, modal>>
    <3>1. \A d \in 1..MaxClicks : Open(d)' <=> Open(d)
      BY <2>4 DEF Open
    <3> QED
      BY <1>2, <1>3, <2>1, <2>2, <2>3, <2>4, <3>1
  <2>5. CASE requests[n].awaited /\ ~r.awaited
    <3>1. \A m \in DOMAIN requests' : ~requests'[m].awaited
      BY <1>2, <1>3, <2>2, <2>5
    <3>2. \A d \in 1..MaxClicks : ~Open(d)
      BY <2>1, <2>3, <2>5
    <3> QED
      BY <3>1, <3>2
  <2> QED
    BY <2>4, <2>5
<1>10. ConfKnows'
  BY <1>2, <1>3, <1>4 DEF ConsoleInv, ConfKnows
<1>11. Console!DoneIsDone'
  <2> SUFFICES ASSUME phase' = "done"
               PROVE  \E m \in done' : page.asks => requests'[m].conf = conf
    BY DEF Console!DoneIsDone
  <2>1. CASE phase = "done"
    <3>1. PICK m \in done : page.asks => requests[m].conf = conf
      BY <2>1 DEF ConsoleInv, Console!DoneIsDone
    <3> QED
      BY <1>1, <1>4, <3>1
  <2>2. CASE requests[n].awaited /\ r.at = "ok"
    <3>1. PICK m \in done' : page.asks => requests[m].key = r.key
      BY <2>2
    <3>2. m \in DOMAIN requests
      BY <1>1
    <3>3. ASSUME page.asks PROVE requests[m].conf = conf
      <4>1. /\ requests[m].key = requests[m].conf
            /\ requests[n].key = requests[n].conf
        BY <3>2, <3>3 DEF ConsoleInv, EffectKnows
      <4>2. requests[n].conf = conf
        BY <2>2, <3>3 DEF ConsoleInv, ConfKnows
      <4>3. r.key = requests[n].key
        BY DEF Keeps
      <4> QED
        BY <3>1, <3>3, <4>1, <4>2, <4>3
    <3> QED
      BY <1>4, <3>2, <3>3
  <2> QED
    BY <2>1, <2>2
<1> QED
  BY <1>5, <1>6, <1>7, <1>8, <1>9, <1>10, <1>11 DEF ConsoleInv

LEMMA HandleKeeps ==
  ASSUME ConsoleInv, NEW n \in DOMAIN requests, Console!Handle(n) PROVE ConsoleInv'
<1>1. PICK w \in {"ok", "refused", "stepup"} :
        /\ done' = done \cup (IF w = "ok" /\ Console!Creates(n) THEN {n} ELSE {})
        /\ requests' = [requests EXCEPT ![n].at = w]
  BY DEF Console!Handle
<1>2. /\ requests[n].at = "sent"
      /\ UNCHANGED <<page, phase, conf, idem, clicks, modal, password>>
  BY DEF Console!Handle
<1>3. /\ requests[n] \in Request /\ phase \in Phases /\ modal \in 0..clicks
      /\ page \in Console!Forms
  BY RequestIs DEF ConsoleInv, ConsoleTypes
<1>4. PICK r \in Request : r = [requests[n] EXCEPT !.at = w]
  BY <1>3 DEF Request
<1>5. /\ requests' = [requests EXCEPT ![n] = r]
      /\ Keeps(r, requests[n]) /\ r.at = w /\ r.awaited = requests[n].awaited
  BY <1>1, <1>3, <1>4 DEF Request, Keeps
<1>6. /\ done \subseteq done' /\ done' \subseteq done \cup {n}
      /\ n \notin done
  BY <1>1, <1>2 DEF ConsoleInv, EffectKnows
<1>7. n \in done' => w = "ok" /\ Console!Creates(n)
  BY <1>1, <1>6
<1>8. w = "ok" => \E m \in done' : page.asks => requests[m].key = r.key
  <2> SUFFICES ASSUME w = "ok" PROVE \E m \in done' : page.asks => requests[m].key = r.key
    OBVIOUS
  <2>1. CASE Console!Creates(n)
    BY <1>1, <1>5, <2>1 DEF Keeps
  <2>2. CASE ~Console!Creates(n)
    <3>1. PICK m \in done : page.route.repeat = "replay" => requests[m].key = requests[n].key
      BY <2>2 DEF Console!Creates, Console!Earlier
    <3>2. page.asks => page.route.repeat = "replay"
      BY <1>3, FormFacts DEF FormIs
    <3> QED
      BY <1>5, <1>6, <3>1, <3>2 DEF Keeps
  <2> QED
    BY <2>1, <2>2
<1>9. page.asks /\ n \in done' => \A m \in done : m # n => requests[m].key # r.key
  <2> SUFFICES ASSUME page.asks, n \in done', NEW m \in done PROVE requests[m].key # r.key
    OBVIOUS
  <2>1. page.route.repeat = "replay"
    BY <1>3, FormFacts DEF FormIs
  <2>2. requests[m].key # requests[n].key
    BY <1>7, <2>1 DEF Console!Creates, Console!Earlier
  <2> QED
    BY <1>5, <2>2 DEF Keeps
<1>10. \A d \in 1..MaxClicks : Open(d)' <=> Open(d)
  BY <1>2 DEF Open
<1>11. phase' \in Phases /\ modal' \in 0..clicks /\ UNCHANGED <<phase, modal>>
  BY <1>2, <1>3
<1> QED
  BY <1>2, <1>4, <1>5, <1>6, <1>7, <1>8, <1>9, <1>10, <1>11, ChangedKeeps

\* Nobody waits any more: the answer has arrived, or never will.
LEMMA EndedKeeps ==
  ASSUME ConsoleInv, NEW n \in DOMAIN requests, requests[n].awaited,
         NEW w \in {"sent", "ok", "refused", "stepup"},
         requests' = [requests EXCEPT ![n].awaited = FALSE, ![n].at = w],
         w = requests[n].at \/ (requests[n].at = "sent" /\ w # "ok"),
         UNCHANGED <<page, conf, idem, clicks, password, done>>,
         phase' \in Phases, phase' = "done" => w = "ok",
         \/ modal' = 0
         \/ /\ modal' = requests[n].click /\ phase' = "stepup"
            /\ w = "stepup" /\ ~requests[n].isRetry
  PROVE  ConsoleInv'
<1>1. /\ requests[n] \in Request /\ requests[n].click \in 1..clicks
      /\ page \in Console!Forms /\ clicks \in 0..MaxClicks
  BY RequestIs DEF ConsoleInv, ConsoleTypes
<1>2. PICK r \in Request : r = [requests[n] EXCEPT !.awaited = FALSE, !.at = w]
  BY <1>1 DEF Request
<1>3. /\ requests' = [requests EXCEPT ![n] = r]
      /\ Keeps(r, requests[n]) /\ r.at = w /\ r.awaited = FALSE
      /\ r.click = requests[n].click /\ r.isRetry = requests[n].isRetry
  BY <1>1, <1>2 DEF Request, Keeps
<1>4. n \in done' => r.at = "ok"
  BY <1>3 DEF ConsoleInv, EffectKnows
<1>5. r.at = "ok" => \E m \in done' : page.asks => requests[m].key = r.key
  BY <1>3 DEF ConsoleInv, EffectKnows, Keeps
<1>6. page.asks /\ n \in done' => \A m \in done : m # n => requests[m].key # r.key
  BY <1>3 DEF ConsoleInv, EffectKnows, Keeps
<1>7. modal' \in 0..clicks
  BY <1>1
<1>8. \A d \in 1..MaxClicks : Open(d)' /\ ~Open(d) =>
        /\ phase' = "stepup" /\ modal' = d /\ d <= clicks /\ requests[n].awaited
        /\ r.click = d /\ ~r.isRetry /\ r.at = "stepup" /\ ~r.awaited
  BY <1>1, <1>3 DEF Open
<1> QED
  BY <1>3, <1>4, <1>5, <1>6, <1>7, <1>8, ChangedKeeps

LEMMA AnswerKeeps ==
  ASSUME ConsoleInv, NEW n \in DOMAIN requests, Console!Deliver(n) \/ Console!Lose(n)
  PROVE  ConsoleInv'
<1>1. requests[n] \in Request /\ page \in Console!Forms
  BY RequestIs DEF ConsoleInv, ConsoleTypes
<1>2. page.fails \in {"error", "idle"}
  BY <1>1, FormFacts DEF FormIs
<1>3. CASE Console!Deliver(n)
  <2>1. PICK w \in {"sent", "ok", "refused", "stepup"} : w = requests[n].at
    BY <1>1 DEF Request
  <2>2. /\ requests[n].awaited /\ phase' = Console!Shows(n)
        /\ modal' = IF Console!Shows(n) = "stepup" THEN requests[n].click ELSE 0
        /\ requests' = [requests EXCEPT ![n].awaited = FALSE]
        /\ UNCHANGED <<page, conf, idem, clicks, password, done>>
    BY <1>3 DEF Console!Deliver
  <2>3. requests' = [requests EXCEPT ![n].awaited = FALSE, ![n].at = w]
    BY <1>1, <2>1, <2>2 DEF Request
  <2>4. /\ Console!Shows(n) \in {"done", "stepup", "error", "idle"}
        /\ Console!Shows(n) = "done" => w = "ok"
        /\ Console!Shows(n) = "stepup" => w = "stepup" /\ ~requests[n].isRetry
    BY <1>2, <2>1 DEF Console!Shows
  <2> QED
    BY <2>1, <2>2, <2>3, <2>4, EndedKeeps DEF Phases
<1>4. CASE Console!Lose(n)
  <2>1. /\ requests[n].awaited /\ phase' = page.fails /\ modal' = 0
        /\ UNCHANGED <<page, conf, idem, clicks, password, done>>
    BY <1>4 DEF Console!Lose
  <2>2. PICK w \in {requests[n].at, "refused"} :
          /\ requests[n].at # "sent" => w = requests[n].at
          /\ requests' = [requests EXCEPT ![n].awaited = FALSE, ![n].at = w]
    BY <1>4 DEF Console!Lose
  <2>3. w \in {"sent", "ok", "refused", "stepup"}
    BY <1>1, <2>2 DEF Request
  <2> QED
    BY <1>2, <2>1, <2>2, <2>3, EndedKeeps DEF Phases
<1> QED
  BY <1>3, <1>4

\* A form starts with nothing sent.
LEMMA ConsoleInit ==
  ASSUME Console!ConsoleAssumption, Console!Init PROVE ConsoleInv
<1>1. /\ page \in Console!Forms /\ phase = "idle" /\ conf = 0 /\ idem = 0 /\ clicks = 0
      /\ modal = 0 /\ password = [c \in 1..MaxClicks |-> "unsent"]
      /\ requests = <<>> /\ done = {} /\ MaxClicks \in Nat
  BY DEF Console!Init, Console!ConsoleAssumption
<1>2. requests \in Console!Seq(Request) /\ DOMAIN requests = {}
  BY <1>1
<1>3. ConsoleTypes
  BY <1>1, <1>2 DEF ConsoleTypes, Phases
<1>4. \A d \in 1..MaxClicks : ~Open(d)
  BY <1>1 DEF Open
<1>5. TwoPerClick /\ OpenKnows /\ PageKnows /\ ConfKnows
  BY <1>2, <1>4 DEF TwoPerClick, OpenKnows, PageKnows, ConfKnows
<1>6. EffectKnows
  BY <1>1, <1>2 DEF EffectKnows
<1>7. Console!DoneIsDone
  BY <1>1 DEF Console!DoneIsDone
<1> QED
  BY <1>3, <1>5, <1>6, <1>7 DEF ConsoleInv

LEMMA ConsoleStep ==
  ASSUME Console!ConsoleAssumption, ConsoleInv, [Console!Next]_(Console!vars)
  PROVE  ConsoleInv'
<1> USE DEF Console!ConsoleAssumption
<1>1. DOMAIN requests = 1..Console!Len(requests)
  BY DEF ConsoleInv, ConsoleTypes
<1>2. ASSUME NEW n \in 1..Console!Len(requests),
             Console!Handle(n) \/ Console!Deliver(n) \/ Console!Lose(n)
      PROVE  ConsoleInv'
  BY <1>1, <1>2, HandleKeeps, AnswerKeeps
<1>3. ASSUME NEW c \in 1..MaxClicks,
             Console!VerifyPassword(c) \/ Console!PasswordFails(c) \/ Console!PasswordAccepted(c)
      PROVE  ConsoleInv'
  BY <1>3, PersonKeeps, RetryKeeps
<1>4. CASE \/ Console!ToConfirm \/ Console!CancelConfirm \/ Console!Age
           \/ Console!SubmitPassword \/ Console!CancelModal \/ UNCHANGED Console!vars
  BY <1>4, PersonKeeps DEF Console!vars, consoleVars
<1>5. CASE Console!Press \/ Console!Reload
  BY <1>5, PressKeeps, ReloadKeeps
<1> QED
  BY <1>2, <1>3, <1>4, <1>5 DEF Console!Next

\* What the console promises follows.
LEMMA ConsoleBounds == ASSUME ConsoleInv PROVE Console!ConfirmedOnce
<1>1. /\ requests \in Console!Seq(Request) /\ done \subseteq DOMAIN requests
      /\ DOMAIN requests = 1..Console!Len(requests)
  BY DEF ConsoleInv, ConsoleTypes
<1>2. Console!OnceEach
  <2> SUFFICES ASSUME NEW m \in done, NEW n \in done, m # n
               PROVE  /\ requests[m].click # requests[n].click
                      /\ page.asks => requests[m].conf # requests[n].conf
    BY DEF Console!OnceEach
  <2>1. requests[m].at = "ok" /\ requests[n].at = "ok"
    BY DEF ConsoleInv, EffectKnows
  <2>2. requests[m].click # requests[n].click
    <3> SUFFICES ASSUME requests[m].click = requests[n].click PROVE FALSE
      OBVIOUS
    <3>1. /\ requests[m].isRetry # requests[n].isRetry
          /\ requests[n].isRetry => requests[m].at = "stepup"
          /\ requests[m].isRetry => requests[n].at = "stepup"
      BY <1>1 DEF ConsoleInv, TwoPerClick
    <3>2. requests[m].isRetry \in BOOLEAN /\ requests[n].isRetry \in BOOLEAN
      BY <1>1, RequestIs DEF ConsoleInv, Request
    <3> QED
      BY <2>1, <3>1, <3>2
  <2>3. page.asks => requests[m].conf # requests[n].conf
    BY <1>1 DEF ConsoleInv, EffectKnows
  <2> QED
    BY <2>2, <2>3
<1>3. Console!RetriedOnce
  <2> SUFFICES ASSUME NEW c \in 1..clicks
               PROVE  {n \in 1..Console!Len(requests) :
                         requests[n].click = c /\ requests[n].isRetry} \in
                        {{}} \cup {{n} : n \in 1..Console!Len(requests)}
    BY DEF Console!RetriedOnce
  <2> DEFINE R == {n \in 1..Console!Len(requests) :
                     requests[n].click = c /\ requests[n].isRetry}
  <2>1. ASSUME NEW m \in R, NEW n \in R PROVE m = n
    <3>1. /\ m \in DOMAIN requests /\ n \in DOMAIN requests
          /\ requests[m].click = requests[n].click
          /\ requests[m].isRetry /\ requests[n].isRetry
      BY <1>1
    <3>2. requests[m].isRetry \in BOOLEAN /\ requests[n].isRetry \in BOOLEAN
      BY <3>1, RequestIs DEF ConsoleInv, Request
    <3>3. m # n => requests[m].isRetry # requests[n].isRetry
      BY <3>1 DEF ConsoleInv, TwoPerClick
    <3> QED
      BY <3>1, <3>2, <3>3
  <2>2. CASE R = {}
    BY <2>2
  <2>3. CASE R # {}
    <3>1. PICK n \in R : TRUE
      BY <2>3
    <3>2. R = {n} /\ n \in 1..Console!Len(requests)
      BY <2>1, <3>1
    <3> QED
      BY <3>2
  <2> QED
    BY <2>2, <2>3
<1>4. Console!OneAnswerAwaited
  BY <1>1 DEF ConsoleInv, PageKnows, Console!OneAnswerAwaited
<1> QED
  BY <1>2, <1>3, <1>4 DEF ConsoleInv, Console!ConfirmedOnce

-----------------------------------------------------------------------------
(* RateLimit. *)

\* The hits that f counts, tick by tick.
Hits(f) == UNION {{t} \X (1 .. f[t]) : t \in 1..Width}

\* How many ticks ago a window that has ttl ticks left began; the hits within
\* it and those before it.
Began(left) == Width - left + 1
Inside(f, left) == {x \in Hits(f) : x[1] <= Began(left)}
Before(f, left) == {x \in Hits(f) : x[1] > Began(left)}

\* A bucket with n hits in its window, which has left ticks left, and with the
\* hits f of the last ticks.  What is outside the window is less than a quota:
\* of the window before it the first hit is out of the span.
Counted(n, left, said) ==
  /\ n \in 0 .. Quota + 1
  /\ left \in -1 .. Width
  /\ said \in Nat /\ said \in {0, left}
  /\ left = 0 <=> n = 0
  /\ n > Quota => left > 0 /\ said = left

Spans(n, left, f) ==
  /\ left = 0 => f[1] = 0 /\ Cardinality(Hits(f)) < Quota
  /\ left = -1 => Cardinality(Hits(f)) < n
  /\ left > 0 =>
       \/ n > Quota /\ Cardinality(Hits(f)) < Quota
       \/ /\ f[Began(left)] > 0
          /\ Cardinality(Inside(f, left)) <= Quota
          /\ Cardinality(Inside(f, left)) <= n
          /\ Cardinality(Before(f, left)) < Quota

BucketInv(n, left, said, f) ==
  f \in [1..Width -> Nat] /\ Counted(n, left, said) /\ Spans(n, left, f)

Limits == {"login:email", "login:ip"}

LimitInv ==
  /\ count = [b \in Limits |-> count[b]]
  /\ ttl = [b \in Limits |-> ttl[b]]
  /\ told = [b \in Limits |-> told[b]]
  /\ passed = [b \in Limits |-> passed[b]]
  /\ next \in [Requesters -> 0..2]
  /\ \A b \in Limits : BucketInv(count[b], ttl[b], told[b], passed[b])

\* Finitely many hits, of which any part is finite.
LEMMA HitsFinite ==
  ASSUME Width \in Nat, NEW f \in [1..Width -> Nat]
  PROVE  /\ IsFiniteSet(Hits(f)) /\ Cardinality(Hits(f)) \in Nat
         /\ \A S \in SUBSET Hits(f) :
              /\ IsFiniteSet(S) /\ Cardinality(S) \in Nat
              /\ Cardinality(S) <= Cardinality(Hits(f))
<1> PICK S : S = 1..Width
  OBVIOUS
<1> DEFINE Parts == {{t} \X (1 .. f[t]) : t \in S}
<1> DEFINE g == [t \in S |-> {t} \X (1 .. f[t])]
<1>1. g \in Surjection(S, Parts)
  BY Zenon DEF Surjection
<1>2. IsFiniteSet(S)
  BY FS_Interval
<1>3. IsFiniteSet(Parts)
  BY <1>1, <1>2, FS_Surjection, Zenon
<1>4. ASSUME NEW P \in Parts PROVE IsFiniteSet(P)
  <2>1. PICK t \in S : P = {t} \X (1 .. f[t])
    BY Zenon
  <2>2. f[t] \in Int
    OBVIOUS
  <2>3. IsFiniteSet(1 .. f[t])
    BY <2>2, FS_Interval
  <2>4. IsFiniteSet({t})
    BY FS_Singleton, Zenon
  <2> QED
    BY <2>1, <2>3, <2>4, FS_Product, Zenon
<1>5. IsFiniteSet(Hits(f))
  BY <1>3, <1>4, FS_UNION, Zenon DEF Hits
<1>6. Cardinality(Hits(f)) \in Nat
  BY <1>5, FS_CardinalityType
<1>7. ASSUME NEW R \in SUBSET Hits(f)
      PROVE  IsFiniteSet(R) /\ Cardinality(R) \in Nat /\ Cardinality(R) <= Cardinality(Hits(f))
  BY <1>5, FS_Subset, FS_CardinalityType
<1> QED
  BY <1>5, <1>6, <1>7

\* A pair is a hit if its tick counted as many.
LEMMA HitIn ==
  ASSUME Width \in Nat, NEW f \in [1..Width -> Nat], NEW x
  PROVE  x \in Hits(f) <=> \E t \in 1..Width, k \in Nat \ {0} : x = <<t, k>> /\ k <= f[t]
  BY DEF Hits

\* One hit more, now.
LEMMA OneMoreHit ==
  ASSUME Width \in Nat \ {0}, NEW f \in [1..Width -> Nat],
         NEW g, g = [f EXCEPT ![1] = @ + 1]
  PROVE  /\ g \in [1..Width -> Nat]
         /\ <<1, f[1] + 1>> \notin Hits(f)
         /\ Hits(g) = Hits(f) \cup {<<1, f[1] + 1>>}
<1>1. g \in [1..Width -> Nat] /\ g[1] = f[1] + 1 /\ \A t \in 2..Width : g[t] = f[t]
  OBVIOUS
<1>2. ASSUME NEW x PROVE x \in Hits(g) <=> x \in Hits(f) \/ x = <<1, f[1] + 1>>
  <2>1. x \in Hits(g) <=> \E t \in 1..Width, k \in Nat \ {0} : x = <<t, k>> /\ k <= g[t]
    BY <1>1, HitIn
  <2>2. x \in Hits(f) <=> \E t \in 1..Width, k \in Nat \ {0} : x = <<t, k>> /\ k <= f[t]
    BY HitIn
  <2> QED
    BY <1>1, <2>1, <2>2
<1>3. <<1, f[1] + 1>> \notin Hits(f)
  BY HitIn
<1> QED
  BY <1>1, <1>2, <1>3

\* Hits that are a tick older are not more than they were.
LEMMA Aged ==
  ASSUME NEW S, NEW T, IsFiniteSet(T),
         \A x \in S : \E t, k \in Nat : x = <<t + 1, k>> /\ <<t, k>> \in T
  PROVE  Cardinality(S) <= Cardinality(T)
<1> DEFINE h == [x \in S |-> <<x[1] - 1, x[2]>>]
<1>1. ASSUME NEW x \in S
      PROVE  h[x] \in T /\ x = <<h[x][1] + 1, h[x][2]>>
  <2>1. PICK t \in Nat, k \in Nat : x = <<t + 1, k>> /\ <<t, k>> \in T
    OBVIOUS
  <2>2. x[1] - 1 = t /\ x[2] = k
    BY <2>1
  <2>3. h[x] = <<t, k>>
    BY <2>2
  <2> QED
    BY <2>1, <2>3
<1>2. h \in [S -> T] /\ \A x, y \in S : h[x] = h[y] => x = y
  <2> HIDE DEF h
  <2>1. h = [x \in S |-> h[x]]
    BY DEF h
  <2> QED
    BY <1>1, <2>1, Zenon
<1>3. h \in Injection(S, T)
  BY <1>2, Zenon DEF Injection, IsInjective
<1> QED
  BY <1>3, FS_Injection, Zenon

\* A tick makes every hit one older and forgets the oldest.
AgedHits(f) == [t \in 1..Width |-> IF t = 1 THEN 0 ELSE f[t - 1]]

LEMMA AgedIn ==
  ASSUME Width \in Nat \ {0}, NEW f \in [1..Width -> Nat]
  PROVE  /\ AgedHits(f) \in [1..Width -> Nat] /\ AgedHits(f)[1] = 0
         /\ \A x \in Hits(AgedHits(f)) :
              \E t, k \in Nat : /\ x = <<t + 1, k>> /\ <<t, k>> \in Hits(f)
                                /\ 0 < t /\ t < Width
<1> DEFINE g == AgedHits(f)
<1>1. g \in [1..Width -> Nat] /\ g[1] = 0 /\ \A t \in 2..Width : g[t] = f[t - 1]
  BY DEF AgedHits
<1> HIDE DEF g
<1>2. ASSUME NEW x \in Hits(g)
      PROVE  \E t, k \in Nat : x = <<t + 1, k>> /\ <<t, k>> \in Hits(f) /\ 0 < t /\ t < Width
  <2>1. PICK t \in 1..Width, k \in Nat \ {0} : x = <<t, k>> /\ k <= g[t]
    BY <1>1, HitIn
  <2>2. t \in 2..Width /\ k <= f[t - 1]
    BY <1>1, <2>1
  <2>3. <<t - 1, k>> \in Hits(f)
    BY <2>2, HitIn
  <2>4. t - 1 \in Nat /\ x = <<(t - 1) + 1, k>> /\ 0 < t - 1 /\ t - 1 < Width
    BY <2>1, <2>2
  <2> QED
    BY <2>3, <2>4
<1> QED
  BY <1>1, <1>2 DEF g

\* A tick: windows end, hits age.
LEMMA BucketTicks ==
  ASSUME Quota \in Nat \ {0}, Width \in Nat \ {0},
         NEW n, NEW left, NEW said, NEW f, BucketInv(n, left, said, f)
  PROVE  BucketInv(IF left = 1 THEN 0 ELSE n, IF left > 0 THEN left - 1 ELSE left,
                   IF said > 0 THEN said - 1 ELSE 0, AgedHits(f))
<1> DEFINE g == AgedHits(f)
           m == IF left = 1 THEN 0 ELSE n
           before == IF left > 0 THEN left - 1 ELSE left
           wait == IF said > 0 THEN said - 1 ELSE 0
<1>1. f \in [1..Width -> Nat] /\ Counted(n, left, said) /\ Spans(n, left, f)
  BY DEF BucketInv
<1>2. n \in 0 .. Quota + 1 /\ left \in -1 .. Width
  BY <1>1 DEF Counted
<1>3. g \in [1..Width -> Nat] /\ g[1] = 0
  BY <1>1, AgedIn
<1>4. \A x \in Hits(g) :
        \E t, k \in Nat : x = <<t + 1, k>> /\ <<t, k>> \in Hits(f) /\ 0 < t /\ t < Width
  BY <1>1, AgedIn
<1>5. \A t \in 2..Width : g[t] = f[t - 1]
  BY <1>1 DEF AgedHits
<1> HIDE DEF g
<1>6. Counted(m, before, wait)
  BY <1>1 DEF Counted
<1>7. IsFiniteSet(Hits(f)) /\ Cardinality(Hits(f)) \in Nat /\ Cardinality(Hits(g)) \in Nat
  BY <1>1, <1>3, HitsFinite
<1>8. Cardinality(Hits(g)) <= Cardinality(Hits(f))
  BY <1>4, <1>7, Aged
<1>9. ASSUME left <= 0 PROVE Spans(m, before, g)
  BY <1>1, <1>2, <1>3, <1>7, <1>8, <1>9 DEF Spans
<1>10. ASSUME left = 1 PROVE Spans(m, before, g)
  <2>1. Cardinality(Hits(g)) < Quota
    <3>1. CASE n > Quota /\ Cardinality(Hits(f)) < Quota
      BY <1>2, <1>7, <1>8, <3>1
    <3>2. CASE f[Began(left)] > 0 /\ Cardinality(Inside(f, left)) <= Quota
      <4>1. Began(left) = Width /\ f[Width] > 0
        BY <1>10, <3>2 DEF Began
      <4>2. Inside(f, left) = Hits(f)
        <5>1. \A x \in Hits(f) : x[1] <= Width
          BY <1>1, HitIn
        <5> QED
          BY <4>1, <5>1 DEF Inside
      <4> DEFINE T == Hits(f) \ {<<Width, 1>>}
      <4>3. <<Width, 1>> \in Hits(f)
        BY <1>1, <4>1, HitIn
      <4>4. IsFiniteSet(T) /\ Cardinality(T) = Cardinality(Hits(f)) - 1
        BY <1>7, <4>3, FS_RemoveElement
      <4>5. \A x \in Hits(g) : \E t, k \in Nat : x = <<t + 1, k>> /\ <<t, k>> \in T
        BY <1>4
      <4>6. Cardinality(Hits(g)) <= Cardinality(T)
        BY <4>4, <4>5, Aged
      <4> QED
        BY <1>7, <3>2, <4>2, <4>4, <4>6
    <3> QED
      BY <1>1, <1>10, <3>1, <3>2 DEF Spans
  <2> QED
    BY <1>3, <1>10, <2>1 DEF Spans
<1>11. ASSUME left > 1 PROVE Spans(m, before, g)
  <2>1. /\ before = left - 1 /\ m = n /\ before \in 1..Width
        /\ Began(before) = Began(left) + 1 /\ Began(left) \in 1..(Width - 1)
    BY <1>2, <1>11 DEF Began
  <2>2. CASE n > Quota /\ Cardinality(Hits(f)) < Quota
    <3>1. Cardinality(Hits(g)) < Quota
      BY <1>7, <1>8, <2>2
    <3> QED
      BY <2>1, <2>2, <3>1 DEF Spans
  <2>3. CASE /\ f[Began(left)] > 0
             /\ Cardinality(Inside(f, left)) <= Quota
             /\ Cardinality(Inside(f, left)) <= n
             /\ Cardinality(Before(f, left)) < Quota
    <3>1. g[Began(before)] > 0
      BY <1>5, <2>1, <2>3
    <3>2. Inside(f, left) \in SUBSET Hits(f) /\ Before(f, left) \in SUBSET Hits(f)
      BY DEF Inside, Before
    <3>3. /\ IsFiniteSet(Inside(f, left)) /\ Cardinality(Inside(f, left)) \in Nat
          /\ IsFiniteSet(Before(f, left)) /\ Cardinality(Before(f, left)) \in Nat
      BY <1>1, <3>2, HitsFinite
    <3>4. Inside(g, before) \in SUBSET Hits(g) /\ Before(g, before) \in SUBSET Hits(g)
      BY DEF Inside, Before
    <3>5. Cardinality(Inside(g, before)) \in Nat /\ Cardinality(Before(g, before)) \in Nat
      BY <1>3, <3>4, HitsFinite
    <3>6. ASSUME NEW x \in Inside(g, before)
          PROVE  \E t, k \in Nat : x = <<t + 1, k>> /\ <<t, k>> \in Inside(f, left)
      <4>1. x \in Hits(g) /\ x[1] <= Began(before)
        BY <3>6 DEF Inside
      <4>2. PICK t \in Nat, k \in Nat : x = <<t + 1, k>> /\ <<t, k>> \in Hits(f)
        BY <1>4, <4>1
      <4>3. <<t, k>> \in Inside(f, left)
        BY <2>1, <4>1, <4>2 DEF Inside
      <4> QED
        BY <4>2, <4>3
    <3>7. ASSUME NEW x \in Before(g, before)
          PROVE  \E t, k \in Nat : x = <<t + 1, k>> /\ <<t, k>> \in Before(f, left)
      <4>1. x \in Hits(g) /\ x[1] > Began(before)
        BY <3>7 DEF Before
      <4>2. PICK t \in Nat, k \in Nat : x = <<t + 1, k>> /\ <<t, k>> \in Hits(f)
        BY <1>4, <4>1
      <4>3. <<t, k>> \in Before(f, left)
        BY <2>1, <4>1, <4>2 DEF Before
      <4> QED
        BY <4>2, <4>3
    <3>8. Cardinality(Inside(g, before)) <= Cardinality(Inside(f, left))
      BY <3>3, <3>6, Aged
    <3>9. Cardinality(Before(g, before)) <= Cardinality(Before(f, left))
      BY <3>3, <3>7, Aged
    <3> QED
      BY <1>2, <2>1, <2>3, <3>1, <3>3, <3>5, <3>8, <3>9 DEF Spans
  <2> QED
    BY <1>1, <1>11, <2>2, <2>3 DEF Spans
<1>12. Spans(m, before, g)
  BY <1>2, <1>9, <1>10, <1>11
<1> QED
  BY <1>3, <1>6, <1>12 DEF BucketInv, g

\* A hit that passes.
LEMMA BucketPasses ==
  ASSUME Quota \in Nat \ {0}, Width \in Nat \ {0},
         NEW n, NEW left, NEW said, NEW f, BucketInv(n, left, said, f), n < Quota,
         NEW g, g = [f EXCEPT ![1] = @ + 1],
         NEW end, end = IF n = 0 THEN Width ELSE left
  PROVE  BucketInv(n + 1, end, said, g)
<1> DEFINE hit == <<1, f[1] + 1>>
<1>1. /\ n \in 0 .. Quota - 1 /\ left \in -1 .. Width /\ said \in Nat /\ said \in {0, left}
      /\ f \in [1..Width -> Nat]
      /\ left = 0 <=> n = 0
  BY DEF BucketInv, Counted
<1>2. g \in [1..Width -> Nat] /\ Hits(g) = Hits(f) \cup {hit} /\ hit[1] = 1
  BY <1>1, OneMoreHit
<1>3. g[1] = f[1] + 1 /\ \A t \in 1..Width : g[t] >= f[t]
  BY <1>1
<1> HIDE DEF hit
<1>4. /\ IsFiniteSet(Hits(f)) /\ Cardinality(Hits(f)) \in Nat
      /\ \A S \in SUBSET Hits(f) : IsFiniteSet(S) /\ Cardinality(S) \in Nat
                                     /\ Cardinality(S) <= Cardinality(Hits(f))
  BY <1>1, HitsFinite
<1>5. /\ Cardinality(Hits(g)) \in Nat
      /\ \A S \in SUBSET Hits(g) : IsFiniteSet(S) /\ Cardinality(S) \in Nat
  BY <1>2, HitsFinite
<1>6. \A S \in SUBSET Hits(f) :
        Cardinality(S \cup {hit}) \in Nat /\ Cardinality(S \cup {hit}) <= Cardinality(S) + 1
  <2> SUFFICES ASSUME NEW S \in SUBSET Hits(f)
               PROVE  Cardinality(S \cup {hit}) \in Nat
                        /\ Cardinality(S \cup {hit}) <= Cardinality(S) + 1
    OBVIOUS
  <2>1. IsFiniteSet(S) /\ Cardinality(S) \in Nat
    BY <1>4
  <2>2. /\ IsFiniteSet(S \cup {hit})
        /\ \/ Cardinality(S \cup {hit}) = Cardinality(S)
           \/ Cardinality(S \cup {hit}) = Cardinality(S) + 1
    BY <2>1, FS_AddElement, Zenon
  <2> QED
    BY <2>1, <2>2
<1>7. Counted(n + 1, end, said)
  BY <1>1 DEF Counted
<1>8. CASE n = 0
  <2>1. left = 0 /\ end = Width /\ f[1] = 0 /\ Cardinality(Hits(f)) < Quota
    BY <1>1, <1>8 DEF BucketInv, Spans
  <2>2. Began(end) = 1
    BY <2>1 DEF Began
  <2>3. \A x \in Hits(f) : x[1] > 1
    <3> SUFFICES ASSUME NEW x \in Hits(f) PROVE x[1] > 1
      OBVIOUS
    <3>1. PICK t \in 1..Width, k \in Nat \ {0} : x = <<t, k>> /\ k <= f[t]
      BY <1>1, HitIn
    <3> QED
      BY <2>1, <3>1
  <2>4. Inside(g, end) = {hit} /\ Before(g, end) = Hits(f)
    <3>1. ~(hit[1] > Began(end)) /\ hit[1] <= Began(end)
      BY <1>2, <2>2
    <3>2. \A x \in Hits(f) : x[1] > Began(end) /\ ~(x[1] <= Began(end))
      <4> SUFFICES ASSUME NEW x \in Hits(f)
                   PROVE  x[1] > Began(end) /\ ~(x[1] <= Began(end))
        OBVIOUS
      <4>1. PICK t \in 1..Width, k \in Nat \ {0} : x = <<t, k>>
        BY <1>1, HitIn
      <4> QED
        BY <2>2, <2>3, <4>1
    <3> QED
      BY <1>2, <3>1, <3>2 DEF Inside, Before
  <2>5. Cardinality({hit}) = 1
    BY FS_Singleton
  <2>6. g[Began(end)] > 0
    BY <1>1, <1>3, <2>1, <2>2
  <2>7. end > 0 /\ end # 0 /\ end # -1 /\ 1 <= Quota /\ n + 1 = 1
    BY <1>8, <2>1
  <2>8. Cardinality(Inside(g, end)) = 1 /\ Cardinality(Before(g, end)) < Quota
    BY <2>1, <2>4, <2>5
  <2>9. Spans(n + 1, end, g)
    BY <2>6, <2>7, <2>8 DEF Spans
  <2> QED
    BY <1>2, <1>7, <2>9 DEF BucketInv
<1>9. CASE n # 0 /\ left <= 0
  <2>1. left = -1 /\ end = left /\ Cardinality(Hits(f)) < n
    BY <1>1, <1>9 DEF BucketInv, Spans
  <2>2. Cardinality(Hits(f)) \in Nat
    BY <1>4
  <2>3. Cardinality(Hits(g)) < n + 1
    <3>1. Cardinality(Hits(g)) \in Nat /\ Cardinality(Hits(g)) <= Cardinality(Hits(f)) + 1
      BY <1>2, <1>6
    <3> QED
      BY <1>1, <2>1, <2>2, <3>1
  <2>4. Spans(n + 1, end, g)
    BY <1>1, <2>1, <2>3 DEF Spans
  <2> QED
    BY <1>2, <1>7, <2>4 DEF BucketInv
<1>10. CASE n # 0 /\ left > 0
  <2>1. /\ f[Began(left)] > 0
        /\ Cardinality(Inside(f, left)) <= n
        /\ Cardinality(Before(f, left)) < Quota
    BY <1>1, <1>10 DEF BucketInv, Spans
  <2>2. Began(left) \in 1..Width /\ end = left
    BY <1>1, <1>10 DEF Began
  <2>3. hit[1] <= Began(left) /\ ~(hit[1] > Began(left))
    BY <1>2, <2>2
  <2>4. Inside(g, left) = Inside(f, left) \cup {hit} /\ Before(g, left) = Before(f, left)
    BY <1>2, <2>3 DEF Inside, Before
  <2>5. Inside(f, left) \in SUBSET Hits(f)
    BY DEF Inside
  <2>6. Cardinality(Inside(f, left)) \in Nat
    BY <1>4, <2>5
  <2>7. Cardinality(Inside(g, left)) \in Nat
          /\ Cardinality(Inside(g, left)) <= Cardinality(Inside(f, left)) + 1
    BY <1>6, <2>4, <2>5
  <2>8. g[Began(left)] > 0
    BY <1>1, <1>2, <1>3, <2>1, <2>2
  <2>9. Spans(n + 1, end, g)
    BY <1>1, <1>10, <2>1, <2>2, <2>4, <2>6, <2>7, <2>8 DEF Spans
  <2> QED
    BY <1>2, <1>7, <2>9 DEF BucketInv
<1> QED
  BY <1>1, <1>8, <1>9, <1>10

\* A hit that is refused.
LEMMA BucketRefuses ==
  ASSUME Quota \in Nat \ {0}, Width \in Nat \ {0},
         NEW n, NEW left, NEW said, NEW f, BucketInv(n, left, said, f), ~(n < Quota),
         NEW end, end = IF n = 0 \/ (n >= Quota /\ left = -1) THEN Width ELSE left,
         NEW now2, now2 = IF said \in 1..end THEN said ELSE end
  PROVE  BucketInv(IF n <= Quota THEN n + 1 ELSE n, end, now2, f)
<1> DEFINE m == IF n <= Quota THEN n + 1 ELSE n
<1>1. /\ n \in Quota .. Quota + 1 /\ left \in -1 .. Width /\ said \in Nat /\ said \in {0, left}
      /\ f \in [1..Width -> Nat] /\ left # 0
      /\ n > Quota => left > 0 /\ said = left
  BY DEF BucketInv, Counted
<1>2. m = Quota + 1 /\ end \in 1..Width /\ now2 = end
  BY <1>1
<1>3. Counted(Quota + 1, end, end)
  <2>1. end \in Nat /\ end > 0 /\ end \in -1 .. Width /\ Quota + 1 \in 0 .. Quota + 1
    BY <1>2
  <2>2. Quota + 1 # 0
    OBVIOUS
  <2> QED
    BY <2>1, <2>2 DEF Counted
<1>4. /\ Cardinality(Hits(f)) \in Nat
      /\ \A S \in SUBSET Hits(f) : Cardinality(S) \in Nat
  BY <1>1, HitsFinite
<1> HIDE DEF m
<1>5. Counted(m, end, now2)
  BY <1>2, <1>3
<1>6. CASE left = -1
  <2>1. Cardinality(Hits(f)) < n
    BY <1>6 DEF BucketInv, Spans
  <2>2. Cardinality(Hits(f)) < Quota
    BY <1>1, <1>4, <1>6, <2>1
  <2>3. Spans(m, end, f)
    BY <1>2, <2>2 DEF Spans
  <2> QED
    BY <1>1, <1>5, <2>3 DEF BucketInv, m
<1>7. CASE left > 0
  <2>1. end = left
    BY <1>1, <1>7
  <2>2. \/ Cardinality(Hits(f)) < Quota
        \/ /\ f[Began(left)] > 0
           /\ Cardinality(Inside(f, left)) <= Quota
           /\ Cardinality(Before(f, left)) < Quota
    BY <1>7 DEF BucketInv, Spans
  <2>3. Inside(f, left) \in SUBSET Hits(f)
    BY DEF Inside
  <2>4. Cardinality(Inside(f, left)) <= Quota => Cardinality(Inside(f, left)) <= m
    BY <1>2, <1>4, <2>3
  <2>5. Spans(m, end, f)
    BY <1>2, <1>7, <2>1, <2>2, <2>4 DEF Spans
  <2> QED
    BY <1>1, <1>5, <2>5 DEF BucketInv, m
<1> QED
  BY <1>1, <1>6, <1>7

\* Fewer than two quotas within a window's length, and a wait that is enough.
LEMMA BucketBounded ==
  ASSUME Quota \in Nat \ {0}, Width \in Nat \ {0},
         NEW n, NEW left, NEW said, NEW f, BucketInv(n, left, said, f)
  PROVE  /\ Cardinality(Hits(f)) < 2 * Quota
         /\ n > Quota => 0 < left /\ left <= said
<1>1. /\ n \in 0 .. Quota + 1 /\ left \in -1 .. Width /\ f \in [1..Width -> Nat]
      /\ n > Quota => left > 0 /\ said = left
  BY DEF BucketInv, Counted
<1>2. /\ IsFiniteSet(Hits(f)) /\ Cardinality(Hits(f)) \in Nat
      /\ \A S \in SUBSET Hits(f) : IsFiniteSet(S) /\ Cardinality(S) \in Nat
  BY <1>1, HitsFinite
<1>3. CASE left <= 0
  BY <1>1, <1>2, <1>3 DEF BucketInv, Spans
<1>4. CASE left > 0
  <2>1. CASE Cardinality(Hits(f)) < Quota
    BY <1>1, <1>2, <2>1
  <2>2. CASE /\ Cardinality(Inside(f, left)) <= Quota
             /\ Cardinality(Before(f, left)) < Quota
    <3>1. \A x \in Hits(f) : x[1] \in Int
      BY <1>1, HitIn
    <3>2. Inside(f, left) \cup Before(f, left) = Hits(f)
      BY <1>1, <3>1 DEF Inside, Before, Began
    <3>3. Inside(f, left) \cap Before(f, left) = {}
      BY <1>1, <3>1 DEF Inside, Before, Began
    <3>4. Inside(f, left) \in SUBSET Hits(f) /\ Before(f, left) \in SUBSET Hits(f)
      BY DEF Inside, Before
    <3>5. Cardinality(Hits(f)) = Cardinality(Inside(f, left)) + Cardinality(Before(f, left)) - 0
      BY <1>2, <3>2, <3>3, <3>4, FS_Union, FS_EmptySet
    <3> QED
      BY <1>1, <1>2, <2>2, <3>4, <3>5
  <2> QED
    BY <1>1, <1>4, <2>1, <2>2 DEF BucketInv, Spans
<1> QED
  BY <1>1, <1>3, <1>4

\* The buckets of the instance, by name.
LEMMA TheBuckets ==
  /\ RateLimit!Buckets = Limits
  /\ RateLimit!Len(<<"login:email", "login:ip">>) = 2
  /\ \A i \in 1..2 : <<"login:email", "login:ip">>[i] \in Limits
<1>1. RateLimit!Len(<<"login:email", "login:ip">>) = 2
  OBVIOUS
<1>2. 1..2 = {1, 2}
  OBVIOUS
<1>3. <<"login:email", "login:ip">>[1] = "login:email" /\ <<"login:email", "login:ip">>[2] = "login:ip"
  OBVIOUS
<1>4. {<<"login:email", "login:ip">>[i] : i \in 1..2} = Limits
  BY <1>2, <1>3 DEF Limits
<1> QED
  BY <1>1, <1>2, <1>3, <1>4 DEF RateLimit!Buckets, Limits

LEMMA LimitInit ==
  ASSUME RateLimit!RateLimitAssumption, RateLimit!Init PROVE LimitInv
<1> DEFINE none == [t \in 1..Width |-> 0]
<1>1. Quota \in Nat \ {0} /\ Width \in Nat \ {0}
  BY DEF RateLimit!RateLimitAssumption
<1>2. /\ count \in [Limits -> 0..Quota]
      /\ ttl = [b \in Limits |-> IF count[b] = 0 THEN 0 ELSE -1]
      /\ told = [b \in Limits |-> 0]
      /\ passed = [b \in Limits |-> none]
      /\ next \in [Requesters -> 0..2]
  BY TheBuckets DEF RateLimit!Init, RateLimit!NoTtl
<1>3. none \in [1..Width -> Nat] /\ none[1] = 0 /\ \A t \in 1..Width : none[t] = 0
  BY <1>1
<1> HIDE DEF none
<1>4. Hits(none) = {}
  <2>1. \A x \in Hits(none) : FALSE
    BY <1>1, <1>3, HitIn
  <2> QED
    BY <2>1
<1>5. Cardinality(Hits(none)) = 0
  BY <1>4, FS_EmptySet
<1>6. ASSUME NEW b \in Limits PROVE BucketInv(count[b], ttl[b], told[b], passed[b])
  <2>1. /\ count[b] \in 0..Quota /\ ttl[b] \in {-1, 0} /\ told[b] = 0 /\ passed[b] = none
        /\ ttl[b] = 0 <=> count[b] = 0
    BY <1>2
  <2>2. Counted(count[b], ttl[b], told[b])
    BY <1>1, <2>1 DEF Counted
  <2>3. Spans(count[b], ttl[b], none)
    BY <1>1, <1>3, <1>5, <2>1 DEF Spans
  <2> QED
    BY <1>3, <2>1, <2>2, <2>3 DEF BucketInv
<1> QED
  BY <1>2, <1>6 DEF LimitInv

LEMMA HitKeeps ==
  ASSUME RateLimit!RateLimitAssumption, LimitInv, NEW r \in Requesters, RateLimit!Hit(r)
  PROVE  LimitInv'
<1> DEFINE b == <<"login:email", "login:ip">>[next[r]]
           end == RateLimit!TtlAfterHit(b)
<1>1. Quota \in Nat \ {0} /\ Width \in Nat \ {0}
  BY DEF RateLimit!RateLimitAssumption
<1>2. next \in [Requesters -> 0..2] /\ next[r] \in 1..2
  BY DEF LimitInv, RateLimit!Hit
<1>3. b \in Limits
  BY <1>2, TheBuckets
<1>4. /\ count = [x \in Limits |-> count[x]] /\ ttl = [x \in Limits |-> ttl[x]]
      /\ told = [x \in Limits |-> told[x]] /\ passed = [x \in Limits |-> passed[x]]
  BY DEF LimitInv
<1>5. /\ count' = [count EXCEPT ![b] = IF @ <= Quota THEN @ + 1 ELSE @]
      /\ ttl' = [ttl EXCEPT ![b] = end]
      /\ passed' = IF count[b] < Quota THEN [passed EXCEPT ![b][1] = @ + 1] ELSE passed
      /\ told' = IF count[b] < Quota \/ told[b] \in 1..end THEN told
                 ELSE [told EXCEPT ![b] = end]
  BY DEF RateLimit!Hit
<1>6. next' \in [Requesters -> 0..2]
  BY <1>2, TheBuckets DEF RateLimit!Hit
<1>7. end = IF count[b] = 0 \/ (count[b] >= Quota /\ ttl[b] = -1) THEN Width ELSE ttl[b]
  BY DEF RateLimit!TtlAfterHit, RateLimit!NoTtl
<1>8. BucketInv(count[b], ttl[b], told[b], passed[b])
  BY <1>3 DEF LimitInv
<1> HIDE DEF b, end
<1>9. BucketInv(count'[b], ttl'[b], told'[b], passed'[b])
  <2>1. CASE count[b] < Quota
    <3>1. count[b] \in 0 .. Quota + 1
      BY <1>8 DEF BucketInv, Counted
    <3>2. /\ count'[b] = count[b] + 1 /\ ttl'[b] = end /\ told' = told
          /\ passed'[b] = [passed[b] EXCEPT ![1] = @ + 1]
      BY <1>1, <1>3, <1>4, <1>5, <2>1, <3>1
    <3>3. end = IF count[b] = 0 THEN Width ELSE ttl[b]
      BY <1>1, <1>7, <2>1, <3>1
    <3> QED
      BY <1>1, <1>8, <2>1, <3>2, <3>3, BucketPasses
  <2>2. CASE ~(count[b] < Quota)
    <3>1. /\ count'[b] = IF count[b] <= Quota THEN count[b] + 1 ELSE count[b]
          /\ ttl'[b] = end
          /\ told'[b] = IF told[b] \in 1..end THEN told[b] ELSE end
          /\ passed'[b] = passed[b]
      BY <1>3, <1>4, <1>5, <2>2
    <3>2. PICK wait : wait = IF told[b] \in 1..end THEN told[b] ELSE end
      OBVIOUS
    <3> QED
      BY <1>1, <1>7, <1>8, <2>2, <3>1, <3>2, BucketRefuses
  <2> QED
    BY <2>1, <2>2
<1>10. /\ count' = [x \in Limits |-> count'[x]] /\ ttl' = [x \in Limits |-> ttl'[x]]
       /\ told' = [x \in Limits |-> told'[x]] /\ passed' = [x \in Limits |-> passed'[x]]
  BY <1>3, <1>4, <1>5
<1>11. ASSUME NEW x \in Limits, x # b
       PROVE  BucketInv(count'[x], ttl'[x], told'[x], passed'[x])
  <2>1. count'[x] = count[x] /\ ttl'[x] = ttl[x] /\ told'[x] = told[x] /\ passed'[x] = passed[x]
    BY <1>3, <1>4, <1>5, <1>11
  <2>2. BucketInv(count[x], ttl[x], told[x], passed[x])
    BY DEF LimitInv
  <2> QED
    BY <2>1, <2>2
<1>12. \A x \in Limits : BucketInv(count'[x], ttl'[x], told'[x], passed'[x])
  BY <1>9, <1>11
<1> QED
  BY <1>6, <1>10, <1>12 DEF LimitInv

LEMMA TickKeeps ==
  ASSUME RateLimit!RateLimitAssumption, LimitInv, RateLimit!Tick PROVE LimitInv'
<1>1. Quota \in Nat \ {0} /\ Width \in Nat \ {0}
  BY DEF RateLimit!RateLimitAssumption
<1>2. /\ ttl' = [b \in Limits |-> IF ttl[b] > 0 THEN ttl[b] - 1 ELSE ttl[b]]
      /\ count' = [b \in Limits |-> IF ttl[b] = 1 THEN 0 ELSE count[b]]
      /\ told' = [b \in Limits |-> IF told[b] > 0 THEN told[b] - 1 ELSE 0]
      /\ passed' = [b \in Limits |-> AgedHits(passed[b])]
      /\ next' = next
  BY TheBuckets DEF RateLimit!Tick, AgedHits
<1>3. \A b \in Limits :
        BucketInv(IF ttl[b] = 1 THEN 0 ELSE count[b],
                  IF ttl[b] > 0 THEN ttl[b] - 1 ELSE ttl[b],
                  IF told[b] > 0 THEN told[b] - 1 ELSE 0, AgedHits(passed[b]))
  <2> SUFFICES ASSUME NEW b \in Limits
               PROVE  BucketInv(IF ttl[b] = 1 THEN 0 ELSE count[b],
                                IF ttl[b] > 0 THEN ttl[b] - 1 ELSE ttl[b],
                                IF told[b] > 0 THEN told[b] - 1 ELSE 0, AgedHits(passed[b]))
    OBVIOUS
  <2>1. BucketInv(count[b], ttl[b], told[b], passed[b])
    BY DEF LimitInv
  <2> QED
    BY <1>1, <2>1, BucketTicks
<1>4. /\ count' = [b \in Limits |-> count'[b]] /\ ttl' = [b \in Limits |-> ttl'[b]]
      /\ told' = [b \in Limits |-> told'[b]] /\ passed' = [b \in Limits |-> passed'[b]]
      /\ next' \in [Requesters -> 0..2]
  BY <1>2 DEF LimitInv
<1>5. \A b \in Limits : BucketInv(count'[b], ttl'[b], told'[b], passed'[b])
  BY <1>2, <1>3
<1> QED
  BY <1>4, <1>5 DEF LimitInv

LEMMA LimitStep ==
  ASSUME RateLimit!RateLimitAssumption, LimitInv, [RateLimit!Next]_(RateLimit!vars)
  PROVE  LimitInv'
<1>1. ASSUME UNCHANGED <<count, ttl, passed, told>>, next' \in [Requesters -> 0..2]
      PROVE  LimitInv'
  BY <1>1 DEF LimitInv
<1>2. next \in [Requesters -> 0..2]
  BY DEF LimitInv
<1>3. ASSUME NEW r \in Requesters, RateLimit!Arrive(r) PROVE LimitInv'
  BY <1>1, <1>2, <1>3 DEF RateLimit!Arrive
<1>4. ASSUME NEW r \in Requesters, RateLimit!FailOpen(r) PROVE LimitInv'
  BY <1>1, <1>2, <1>4, TheBuckets DEF RateLimit!FailOpen
<1>5. CASE RateLimit!Cut \/ RateLimit!Heal \/ UNCHANGED RateLimit!vars
  BY <1>1, <1>2, <1>5 DEF RateLimit!Cut, RateLimit!Heal, RateLimit!vars
<1> QED
  BY <1>3, <1>4, <1>5, HitKeeps, TickKeeps DEF RateLimit!Next

LEMMA LimitBounds ==
  ASSUME RateLimit!RateLimitAssumption, LimitInv PROVE LimitsHold
<1>1. Quota \in Nat \ {0} /\ Width \in Nat \ {0}
  BY DEF RateLimit!RateLimitAssumption
<1>2. ASSUME NEW b \in Limits
      PROVE  /\ Cardinality(Hits(passed[b])) < 2 * Quota
             /\ count[b] > Quota => 0 < ttl[b] /\ ttl[b] <= told[b]
  BY <1>1, BucketBounded DEF LimitInv
<1>3. \A b \in Limits : RateLimit!Recent(b) = Hits(passed[b])
  BY DEF RateLimit!Recent, Hits
<1> QED
  BY <1>2, <1>3, TheBuckets DEF LimitsHold, RateLimit!LimitsHold, RateLimit!SpanBounded,
     RateLimit!WaitIsEnough, RateLimit!Cardinality, Cardinality

-----------------------------------------------------------------------------
(* Records. *)

Content == Names \cup {Records!Void, Records!Blank, Records!Filled}
Row == [content : Content, since : Nat]
Kinds == {"create", "rename", "update", "end", "erase", "replay", "see"}
Stages == {"idle", "begun", "locked", "changed", "audited", "seen"}
Op == [kind : Kinds \cup {"none"}, row : Records!Recs \cup {Records!Void}, content : Content]
Entry == [id : Nat, kind : Kinds, row : Records!Recs, at : Nat, before : Content, after : Content]

RecordTypes ==
  /\ record \in [Records!Recs -> Row]
  /\ trail \subseteq Entry
  /\ tx \in [Handlers -> [at : Stages, op : Op, start : Nat, old : Row, new : Row, id : Nat]]
  /\ clock \in Nat \ {0}
  /\ nextId \in Nat \ {0}

\* No id is drawn twice, whether its event is committed or not.
IdsDiffer ==
  /\ \A e \in trail : e.id \in 1 .. nextId - 1
  /\ \A d, e \in trail : d.id = e.id => d = e
  /\ \A h \in Handlers : tx[h].at = "audited" =>
       /\ tx[h].id \in 1 .. nextId - 1
       /\ \A e \in trail : e.id # tx[h].id
       /\ \A g \in Handlers : tx[g].at = "audited" /\ tx[g].id = tx[h].id => g = h

\* The transactions keep to their operations.
StagesFit ==
  \A h \in Handlers :
    /\ tx[h].at # "idle" => tx[h].op \in Records!Operations /\ tx[h].start # 0
    /\ tx[h].at = "locked" => Records!LocksFirst(tx[h].op)
    /\ tx[h].at \in {"locked", "changed", "audited"} => tx[h].op.kind # "see"
    /\ tx[h].at = "audited" => Records!Audited(tx[h].op)
    /\ tx[h].at = "seen" => tx[h].op.kind = "see"

\* A row has one holder.
OneHolder ==
  \A g, h \in Handlers :
    /\ tx[g].at \in Records!Holding
    /\ tx[h].at \in Records!Holding
    /\ tx[g].op.row = tx[h].op.row
    => g = h

\* What the holder read is what is committed, and no event comes after its own.
HolderKnows ==
  \A h \in Handlers :
    /\ tx[h].at \in Records!Holding =>
         tx[h].old = record[tx[h].op.row] /\ Records!Found(tx[h].op, tx[h].old)
    /\ tx[h].at \in {"changed", "audited"} =>
         tx[h].new = Records!Effect(tx[h].op, tx[h].old, tx[h].start)
    /\ tx[h].at = "audited" => \A e \in Records!Told(tx[h].op.row) : e.id < tx[h].id

MerchantTold(m) ==
  /\ record[m].since = Records!Never
  /\ record[m].content \in Names \cup {Records!Void}
  /\ record[m] = Records!NoRow <=> Records!Told(m) = {}
  /\ \A e \in Records!Told(m) :
       /\ (\A d \in Records!Told(m) : d.id >= e.id) => e.kind = "create" /\ e.before = Records!Void
       /\ \A d \in Records!Told(m) :
            d.id < e.id /\ (\A c \in Records!Told(m) : c.id < e.id => c.id <= d.id) =>
              e.kind = "rename" /\ e.before = d.after
       /\ (\A d \in Records!Told(m) : d.id <= e.id) => e.after = record[m].content

CustomerTold(c) ==
  /\ record[c].content = Records!Void => record[c].since = Records!Never
  /\ record[c].content = Records!Blank <=> Records!Told(c) # {}
  /\ record[c].content = Records!Blank => record[c].since # Records!Never

Ends(k) == {e \in Records!Told(k) : e.kind = "end"}

KeyTold(k) ==
  /\ record[k].content = Records!Void => record[k].since = Records!Never
  /\ record[k] = Records!NoRow <=> Records!Told(k) = {}
  /\ record[k].since = Records!Never <=> Ends(k) = {}
  /\ \A e \in Ends(k) : (\A d \in Ends(k) : e.id <= d.id) => record[k].since = e.at

Replayed(p) == {e \in Records!Told(p) : e.after = Records!Filled}

ParkedTold(p) ==
  /\ record[p].content # Records!Void
  /\ record[p].since # Records!Never => Replayed(p) = {}
  /\ record[p].since = Records!Never => \E e \in Entry : Replayed(p) = {e}

\* Who saw a record that was there was not late.
Seers ==
  \A h \in Handlers : tx[h].at \in {"begun", "seen"} /\ tx[h].op.kind = "see" =>
    /\ tx[h].old.since # Records!Never => record[tx[h].op.row].since # Records!Never
    /\ tx[h].at = "seen" => tx[h].old.since = Records!Never

\* The reader has what there was from his cursor up.
Walked ==
  /\ walk \in [had : SUBSET Nat, got : SUBSET Nat, before : Nat, over : BOOLEAN, again : BOOLEAN]
  /\ walk.had \subseteq Records!Visible
  /\ walk.before = 0 => walk.got = {}
  /\ \A i \in walk.got : walk.before <= i
  /\ \A i \in walk.had : walk.before # 0 /\ walk.before <= i => i \in walk.got

TrailInv ==
  /\ \A m \in Merchants : MerchantTold(m)
  /\ \A c \in Customers : CustomerTold(c)
  /\ \A k \in Keys : KeyTold(k)
  /\ \A p \in Parked : ParkedTold(p)

RecordsInv ==
  /\ RecordTypes
  /\ IdsDiffer
  /\ StagesFit
  /\ OneHolder
  /\ HolderKnows
  /\ TrailInv
  /\ Seers /\ stale = {}
  /\ Walked /\ Records!PagesAreComplete

LEMMA RecordsInit == ASSUME Records!RecordsAssumption, Records!Init PROVE RecordsInv
<1> USE DEF Records!RecordsAssumption, Records!Init, Records!Idle, Records!NoRow,
            Records!NoOp, Records!Never, Records!Void, Records!Blank, Records!Filled
<1>1. RecordTypes
  BY DEF RecordTypes, Row, Content, Entry, Op, Stages
<1>2. IdsDiffer /\ StagesFit /\ OneHolder /\ HolderKnows /\ Seers /\ stale = {}
  BY DEF IdsDiffer, StagesFit, OneHolder, HolderKnows, Seers, Records!Holding
<1>3. \A r : Records!Told(r) = {}
  BY DEF Records!Told
<1>4. ASSUME NEW m \in Merchants PROVE MerchantTold(m)
  BY <1>3 DEF MerchantTold, Records!Recs
<1>5. ASSUME NEW c \in Customers PROVE CustomerTold(c)
  BY <1>3 DEF CustomerTold, Records!Recs
<1>6. ASSUME NEW k \in Keys PROVE KeyTold(k)
  BY <1>3 DEF KeyTold, Ends, Records!Recs
<1>7. ASSUME NEW p \in Parked PROVE ParkedTold(p)
  BY <1>3 DEF ParkedTold, Replayed, Records!Recs
<1>8. Walked /\ Records!PagesAreComplete
  BY DEF Walked, Records!PagesAreComplete
<1> QED
  BY <1>1, <1>2, <1>4, <1>5, <1>6, <1>7, <1>8 DEF RecordsInv, TrailInv

\* The operations have the type of operations, and those on a row are of its kind.
LEMMA KindsOfRow ==
  ASSUME Records!RecordsAssumption, NEW o \in Records!Operations
  PROVE  /\ o \in Op /\ o.kind \in Kinds /\ o.row \in Records!Recs
         /\ o.row \in Merchants => o \in Records!MerchantRoutes
         /\ o.row \in Customers => o \in Records!CustomerRoutes \cup Records!See
         /\ o.row \in Keys => o \in Records!KeyRoutes \cup Records!See
         /\ o.row \in Links => o \in Records!LinkRoutes \cup Records!See
         /\ o.row \in Parked => o \in Records!ReplayDead
         /\ o.kind = "see" => o.row \in Customers \cup Keys \cup Links
         /\ o \in Records!MerchantRoutes => o.kind # "see"
  BY DEF Records!RecordsAssumption, Records!Operations, Records!MerchantRoutes,
         Records!CustomerRoutes, Records!KeyRoutes, Records!LinkRoutes,
         Records!CreateMerchant, Records!RenameMerchant, Records!CreateCustomer,
         Records!UpdateCustomer, Records!DeleteCustomer, Records!EraseCustomer,
         Records!CreateKey, Records!RevokeKey, Records!CreateLink, Records!DisableLink,
         Records!ReplayDead, Records!See, Records!Recs, Op, Kinds, Content

\* What a step leaves that does not commit.
LEMMA NothingCommitted ==
  ASSUME RecordsInv, record' = record, trail' = trail, walk' = walk
  PROVE  TrailInv' /\ Walked' /\ Records!PagesAreComplete'
<1> USE DEF RecordsInv
<1>1. \A r : Records!Told(r)' = Records!Told(r)
  BY DEF Records!Told
<1>2. TrailInv'
  BY <1>1 DEF TrailInv, MerchantTold, CustomerTold, KeyTold, ParkedTold, Ends, Replayed
<1>3. Walked' /\ Records!PagesAreComplete'
  BY DEF Walked, Records!PagesAreComplete, Records!Visible
<1> QED
  BY <1>2, <1>3

\* A transaction that begins holds nothing and has read at most what is committed.
LEMMA BeginKeeps ==
  ASSUME Records!RecordsAssumption, RecordsInv,
         NEW h \in Handlers, NEW o \in Records!Operations, Records!Begin(h, o)
  PROVE  RecordsInv'
<1> USE DEF RecordsInv
<1>1. /\ tx' = [tx EXCEPT ![h] = [Records!Idle EXCEPT !.at = "begun", !.op = o, !.start = clock,
                                 !.old = IF o.kind = "see" THEN record[o.row] ELSE Records!NoRow]]
      /\ UNCHANGED <<record, trail, clock, nextId, walk, stale>>
  BY DEF Records!Begin
<1>2. o \in Op /\ o.row \in Records!Recs
  BY KindsOfRow
<1>3. /\ tx'[h] = [at |-> "begun", op |-> o, start |-> clock,
                   old |-> IF o.kind = "see" THEN record[o.row] ELSE Records!NoRow,
                   new |-> Records!NoRow, id |-> 0]
      /\ \A g \in Handlers \ {h} : tx'[g] = tx[g]
  BY <1>1 DEF RecordTypes, Records!Idle
<1>4. RecordTypes'
  BY <1>1, <1>2 DEF RecordTypes, Records!Idle, Records!NoRow, Row, Content, Records!Never,
                    Stages
<1>5. IdsDiffer' /\ StagesFit' /\ OneHolder'
  BY <1>1, <1>3 DEF IdsDiffer, StagesFit, OneHolder, Records!Holding, RecordTypes
<1>6. HolderKnows'
  BY <1>1, <1>3 DEF HolderKnows, Records!Holding, Records!Told
<1>7. Seers' /\ stale' = {}
  BY <1>1, <1>3 DEF Seers
<1> QED
  BY <1>1, <1>4, <1>5, <1>6, <1>7, NothingCommitted

\* The lock is granted when nobody else holds the row.
LEMMA LockKeeps ==
  ASSUME Records!RecordsAssumption, RecordsInv, NEW h \in Handlers, Records!Lock(h)
  PROVE  RecordsInv'
<1> USE DEF RecordsInv
<1>1. /\ tx' = [tx EXCEPT ![h].at = "locked", ![h].old = record[tx[h].op.row]]
      /\ UNCHANGED <<record, trail, clock, nextId, walk, stale>>
      /\ tx[h].at = "begun" /\ Records!LocksFirst(tx[h].op) /\ Records!Free(h)
      /\ Records!Found(tx[h].op, record[tx[h].op.row])
  BY DEF Records!Lock
<1>2. tx[h].op \in Records!MerchantRoutes /\ tx[h].op.row \in Records!Recs /\ tx[h].op.kind # "see"
  BY <1>1 DEF Records!LocksFirst, Records!MerchantRoutes, Records!CreateMerchant,
              Records!RenameMerchant, Records!Recs
<1>3. /\ tx'[h] = [tx[h] EXCEPT !.at = "locked", !.old = record[tx[h].op.row]]
      /\ \A g \in Handlers \ {h} : tx'[g] = tx[g]
  BY <1>1 DEF RecordTypes
<1>4. RecordTypes'
  BY <1>1, <1>2 DEF RecordTypes, Stages
<1>5. IdsDiffer' /\ StagesFit'
  BY <1>1, <1>2, <1>3 DEF IdsDiffer, StagesFit, RecordTypes
<1>6. OneHolder'
  BY <1>1, <1>3 DEF OneHolder, Records!Holding, RecordTypes, Records!Free, Records!Excludes
<1>7. HolderKnows'
  BY <1>1, <1>3 DEF HolderKnows, Records!Holding, Records!Told, RecordTypes
<1>8. Seers' /\ stale' = {}
  BY <1>1, <1>3 DEF Seers, RecordTypes
<1> QED
  BY <1>1, <1>4, <1>5, <1>6, <1>7, <1>8, NothingCommitted

LEMMA EffectIs ==
  ASSUME NEW o \in Op, NEW v \in Row, NEW t \in Nat
  PROVE  Records!Effect(o, v, t) \in Row
  BY DEF Records!Effect, Row, Op, Records!Never, Content

\* The change is made of the row as it is committed, for its holder sees no other.
LEMMA ChangeKeeps ==
  ASSUME Records!RecordsAssumption, RecordsInv, NEW h \in Handlers, Records!Change(h)
  PROVE  RecordsInv'
<1> USE DEF RecordsInv
<1> DEFINE o == tx[h].op
           v == record[o.row]
<1>1. /\ tx' = [tx EXCEPT ![h].at = "changed",
                         ![h].old = IF Records!LocksFirst(o) THEN @ ELSE v,
                         ![h].new = Records!Effect(o, v, tx[h].start)]
  BY DEF Records!Change
<1>2. /\ UNCHANGED <<record, trail, clock, nextId, walk, stale>>
      /\ tx[h].at = IF Records!LocksFirst(o) THEN "locked" ELSE "begun"
      /\ Records!Free(h) /\ Records!Found(o, v) /\ o.kind # "see"
  BY DEF Records!Change
<1>3. o \in Op /\ o.row \in Records!Recs /\ tx[h].start \in Nat
  <2>1. o \in Records!Operations
    BY <1>2 DEF StagesFit
  <2>2. o.row \in Records!Recs
    BY <2>1, KindsOfRow
  <2> QED
    BY <2>2 DEF RecordTypes
<1>4. (IF Records!LocksFirst(o) THEN tx[h].old ELSE v) = v
  BY <1>2 DEF HolderKnows, Records!Holding
<1>5. v \in Row /\ Records!Effect(o, v, tx[h].start) \in Row
  BY <1>3, EffectIs DEF RecordTypes
<1>6. PICK t \in [at : Stages, op : Op, start : Nat, old : Row, new : Row, id : Nat] :
        t = [tx[h] EXCEPT !.at = "changed", !.old = v, !.new = Records!Effect(o, v, tx[h].start)]
  BY <1>5 DEF RecordTypes, Stages
<1>7. /\ t.at = "changed" /\ t.op = o /\ t.old = v /\ t.new = Records!Effect(o, v, tx[h].start)
      /\ t.start = tx[h].start /\ t.id = tx[h].id
  BY <1>6 DEF RecordTypes
<1>8. tx' = [tx EXCEPT ![h] = t]
  BY <1>1, <1>4, <1>6 DEF RecordTypes
<1>9. tx'[h] = t /\ \A g \in Handlers \ {h} : tx'[g] = tx[g]
  BY <1>8 DEF RecordTypes
<1>10. RecordTypes'
  BY <1>2, <1>6, <1>8 DEF RecordTypes
<1>11. IdsDiffer'
  BY <1>2, <1>7, <1>9 DEF IdsDiffer
<1>12. StagesFit'
  BY <1>2, <1>7, <1>9 DEF StagesFit
<1>13. OneHolder'
  BY <1>2, <1>7, <1>9 DEF OneHolder, Records!Holding, Records!Free, Records!Excludes
<1>14. HolderKnows'
  BY <1>2, <1>7, <1>9 DEF HolderKnows, Records!Holding, Records!Told
<1>15. Seers' /\ stale' = {}
  BY <1>2, <1>7, <1>9 DEF Seers
<1> QED
  BY <1>2, <1>10, <1>11, <1>12, <1>13, <1>14, <1>15, NothingCommitted

\* The id drawn under the lock is above those of all events told of the row.
LEMMA AuditKeeps ==
  ASSUME Records!RecordsAssumption, RecordsInv, NEW h \in Handlers, Records!Audit(h)
  PROVE  RecordsInv'
<1> USE DEF RecordsInv
<1>1. /\ tx' = [tx EXCEPT ![h].at = "audited", ![h].id = nextId]
      /\ nextId' = nextId + 1
      /\ UNCHANGED <<record, trail, clock, walk, stale>>
      /\ tx[h].at = "changed" /\ Records!Audited(tx[h].op)
  BY DEF Records!Audit
<1>2. /\ tx'[h] = [tx[h] EXCEPT !.at = "audited", !.id = nextId]
      /\ \A g \in Handlers \ {h} : tx'[g] = tx[g]
  BY <1>1 DEF RecordTypes
<1>3. RecordTypes'
  <2>1. [tx[h] EXCEPT !.at = "audited", !.id = nextId] \in
          [at : Stages, op : Op, start : Nat, old : Row, new : Row, id : Nat]
    BY DEF RecordTypes, Stages
  <2>2. tx' = [tx EXCEPT ![h] = [tx[h] EXCEPT !.at = "audited", !.id = nextId]]
    BY <1>1 DEF RecordTypes
  <2> QED
    BY <1>1, <2>1, <2>2 DEF RecordTypes
<1>4. IdsDiffer'
  BY <1>1, <1>2 DEF IdsDiffer, RecordTypes, Entry
<1>5. StagesFit' /\ OneHolder'
  BY <1>1, <1>2 DEF StagesFit, OneHolder, Records!Holding, RecordTypes
<1>6. HolderKnows'
  BY <1>1, <1>2 DEF HolderKnows, Records!Holding, Records!Told, RecordTypes, IdsDiffer, Entry
<1>7. Seers' /\ stale' = {}
  BY <1>1, <1>2 DEF Seers, RecordTypes
<1> QED
  BY <1>1, <1>3, <1>4, <1>5, <1>6, <1>7, NothingCommitted

\* What is rolled back leaves the log and the records as they were.
LEMMA RollBackKeeps ==
  ASSUME Records!RecordsAssumption, RecordsInv, NEW h \in Handlers,
         tx' = [tx EXCEPT ![h] = Records!Idle], UNCHANGED <<record, trail, clock, nextId, walk>>,
         stale' = {}
  PROVE  RecordsInv'
<1> USE DEF RecordsInv
<1>1. tx'[h] = Records!Idle /\ \A g \in Handlers \ {h} : tx'[g] = tx[g]
  BY DEF RecordTypes
<1>2. RecordTypes'
  BY DEF RecordTypes, Records!Idle, Records!NoRow, Records!NoOp, Row, Op, Content,
         Records!Never, Stages
<1>3. IdsDiffer' /\ StagesFit' /\ OneHolder'
  BY <1>1 DEF IdsDiffer, StagesFit, OneHolder, Records!Holding, Records!Idle, RecordTypes
<1>4. HolderKnows' /\ Seers'
  BY <1>1 DEF HolderKnows, Seers, Records!Holding, Records!Told, Records!Idle
<1> QED
  BY <1>2, <1>3, <1>4, NothingCommitted

\* A record is seen while it is not ended.
LEMMA LookKeeps ==
  ASSUME Records!RecordsAssumption, RecordsInv, NEW h \in Handlers, Records!Look(h)
  PROVE  RecordsInv'
<1> USE DEF RecordsInv
<1>1. /\ tx' = [tx EXCEPT ![h].at = "seen"]
      /\ UNCHANGED <<record, trail, clock, nextId, walk, stale>>
      /\ tx[h].at = "begun" /\ tx[h].op.kind = "see"
      /\ record[tx[h].op.row].since = Records!Never
  BY DEF Records!Look, Records!Found, Records!Live
<1>2. /\ tx'[h] = [tx[h] EXCEPT !.at = "seen"]
      /\ \A g \in Handlers \ {h} : tx'[g] = tx[g]
  BY <1>1 DEF RecordTypes
<1>3. RecordTypes'
  BY <1>1 DEF RecordTypes, Stages
<1>4. IdsDiffer' /\ StagesFit' /\ OneHolder'
  BY <1>1, <1>2 DEF IdsDiffer, StagesFit, OneHolder, Records!Holding, RecordTypes
<1>5. HolderKnows'
  BY <1>1, <1>2 DEF HolderKnows, Records!Holding, Records!Told, RecordTypes
<1>6. Seers' /\ stale' = {}
  BY <1>1, <1>2 DEF Seers, RecordTypes
<1> QED
  BY <1>1, <1>3, <1>4, <1>5, <1>6, NothingCommitted

\* Nobody is late, so the answer adds nothing to stale.
LEMMA ServedKeeps ==
  ASSUME Records!RecordsAssumption, RecordsInv, NEW h \in Handlers, Records!Answer(h)
  PROVE  RecordsInv'
<1>1. tx[h].old.since = Records!Never
  BY DEF Records!Answer, RecordsInv, Seers, StagesFit
<1> QED
  BY <1>1, RollBackKeeps DEF Records!Answer, RecordsInv

\* What a commit to row r writes.
Committed(h, r) ==
  LET o == tx[h].op IN
  /\ o \in Records!Operations /\ o.kind # "see" /\ o.row = r /\ r \in Records!Recs
  /\ tx[h].at \in {"changed", "audited"}
  /\ tx[h].at = "audited" <=> Records!Audited(o)
  /\ tx[h].old = record[r] /\ Records!Found(o, record[r])
  /\ tx[h].new = Records!Effect(o, record[r], tx[h].start)
  /\ tx[h].start \in Nat \ {0}
  /\ record'[r] = tx[h].new
  /\ \A q \in Records!Recs \ {r} : record'[q] = record[q] /\ Records!Told(q)' = Records!Told(q)
  /\ Records!Told(r)' = IF Records!Audited(o) THEN Records!Told(r) \cup {Records!Event(h)}
                                              ELSE Records!Told(r)
  /\ Records!Event(h) \in Entry /\ Records!Event(h).id = tx[h].id
  /\ Records!Audited(o) => \A e \in Records!Told(r) : e.id < Records!Event(h).id

\* A transaction that commits is the holder of its row.
LEMMA CommitFacts ==
  ASSUME Records!RecordsAssumption, RecordsInv, NEW h \in Handlers, Records!Commit(h)
  PROVE  \E r \in Records!Recs : Committed(h, r)
<1> USE DEF RecordsInv
<1> DEFINE o == tx[h].op
<1>1. /\ tx[h].at = IF Records!Audited(o) THEN "audited" ELSE "changed"
      /\ record' = [record EXCEPT ![o.row] = tx[h].new]
      /\ trail' = IF Records!Audited(o) THEN trail \cup {Records!Event(h)} ELSE trail
  BY DEF Records!Commit
<1>2. o \in Records!Operations /\ o.kind # "see" /\ tx[h].start \in Nat \ {0}
  BY <1>1 DEF StagesFit, RecordTypes
<1>3. PICK r \in Records!Recs : r = o.row
  BY <1>2, KindsOfRow
<1>4. /\ tx[h].old = record[r] /\ Records!Found(o, record[r])
      /\ tx[h].new = Records!Effect(o, record[r], tx[h].start)
      /\ Records!Audited(o) => \A e \in Records!Told(r) : e.id < tx[h].id
  BY <1>1, <1>3 DEF HolderKnows, Records!Holding
<1>5. record'[r] = tx[h].new /\ \A q \in Records!Recs \ {r} : record'[q] = record[q]
  BY <1>1, <1>3 DEF RecordTypes
<1>6. Records!Event(h).row = r /\ Records!Event(h).id = tx[h].id
  BY <1>3 DEF Records!Event
<1>7. Records!Event(h) \in Entry
  <2>1. tx[h] \in [at : Stages, op : Op, start : Nat, old : Row, new : Row, id : Nat]
    BY DEF RecordTypes
  <2>2. o.kind \in Kinds
    BY <1>2, KindsOfRow
  <2>3. tx[h].old.content \in Content /\ tx[h].new.content \in Content
    BY <2>1 DEF Row
  <2>4. Records!Void \in Content /\ Records!Filled \in Content
    BY DEF Content
  <2> QED
    BY <1>3, <2>1, <2>2, <2>3, <2>4 DEF Records!Event, Entry
<1>8. \A q \in Records!Recs \ {r} : Records!Told(q)' = Records!Told(q)
  BY <1>1, <1>6 DEF Records!Told
<1>9. Records!Told(r)' = IF Records!Audited(o) THEN Records!Told(r) \cup {Records!Event(h)}
                                               ELSE Records!Told(r)
  BY <1>1, <1>6 DEF Records!Told
<1>10. Committed(h, r)
  BY <1>1, <1>2, <1>3, <1>4, <1>5, <1>6, <1>7, <1>8, <1>9 DEF Committed
<1> QED
  BY <1>10

\* The new event follows the last one told of the merchant.
LEMMA MerchantCommit ==
  ASSUME Records!RecordsAssumption, RecordsInv,
         NEW h \in Handlers, NEW m \in Merchants, Committed(h, m)
  PROVE  MerchantTold(m)'
<1> DEFINE o == tx[h].op
<1>1. o \in Records!MerchantRoutes /\ Records!Audited(o) /\ o.kind # "replay"
  BY KindsOfRow DEF Committed, Records!Audited, Records!MerchantRoutes,
                    Records!CreateMerchant, Records!RenameMerchant
<1>2. PICK ev \in Entry : ev = Records!Event(h)
  BY DEF Committed
<1>3. /\ ev.kind = o.kind
      /\ ev.before = record[m].content
      /\ ev.after = record'[m].content
  BY <1>1, <1>2 DEF Records!Event, Committed
<1>4. /\ record'[m].since = Records!Never /\ record'[m].content \in Names
      /\ ev.kind = "create" => record[m] = Records!NoRow
      /\ ev.kind # "create" => ev.kind = "rename" /\ record[m] # Records!NoRow
  <2>1. record'[m] = Records!Effect(o, record[m], tx[h].start) /\ Records!Found(o, record[m])
    BY DEF Committed
  <2>2. record[m].since = Records!Never
    BY DEF RecordsInv, TrailInv, MerchantTold
  <2> QED
    BY <1>1, <1>3, <2>1, <2>2
    DEF Records!Effect, Records!Found, Records!MerchantRoutes, Records!CreateMerchant,
        Records!RenameMerchant, Records!NoRow, Records!Never
<1>5. Records!Told(m)' = Records!Told(m) \cup {ev} /\ \A e \in Records!Told(m) : e.id < ev.id
  BY <1>1, <1>2 DEF Committed
<1>6. Records!Told(m) \subseteq Entry
  BY DEF Records!Told, RecordsInv, RecordTypes
<1>7. MerchantTold(m)
  BY DEF RecordsInv, TrailInv
<1>8. record'[m] # Records!NoRow
  BY <1>4 DEF Records!RecordsAssumption, Records!NoRow, Records!Void
<1>9. ASSUME NEW e \in Records!Told(m) \cup {ev}
      PROVE  /\ (\A d \in Records!Told(m) \cup {ev} : d.id >= e.id) => e.kind = "create" /\ e.before = Records!Void
             /\ \A d \in Records!Told(m) \cup {ev} :
                  d.id < e.id /\ (\A c \in Records!Told(m) \cup {ev} : c.id < e.id => c.id <= d.id) =>
                    e.kind = "rename" /\ e.before = d.after
             /\ (\A d \in Records!Told(m) \cup {ev} : d.id <= e.id) => e.after = record'[m].content
  <2>1. CASE e \in Records!Told(m)
    BY <1>5, <1>6, <1>7, <2>1 DEF MerchantTold, Entry
  <2>2. CASE e = ev
    <3>1. Records!Told(m) = {} <=> e.kind = "create"
      BY <1>3, <1>4, <1>7, <2>2 DEF MerchantTold
    <3>2. (\A d \in Records!Told(m) \cup {ev} : d.id >= e.id) => Records!Told(m) = {}
      BY <1>5, <1>6, <2>2 DEF Entry
    <3>3. e.kind = "create" => e.before = Records!Void
      BY <1>3, <1>4, <2>2 DEF Records!NoRow
    <3>4. ASSUME NEW d \in Records!Told(m) \cup {ev}, d.id < e.id,
                 \A c \in Records!Told(m) \cup {ev} : c.id < e.id => c.id <= d.id
          PROVE  e.kind = "rename" /\ e.before = d.after
      <4>1. d \in Records!Told(m) /\ \A c \in Records!Told(m) : c.id <= d.id
        BY <1>5, <1>6, <2>2, <3>4 DEF Entry
      <4> QED
        BY <1>3, <1>4, <1>7, <2>2, <3>1, <4>1 DEF MerchantTold
    <3> QED
      BY <1>3, <2>2, <3>1, <3>2, <3>3, <3>4
  <2> QED
    BY <2>1, <2>2
<1> QED
  BY <1>4, <1>5, <1>8, <1>9 DEF MerchantTold

\* An erasure is told, and no other operation fills an erased customer again.
LEMMA CustomerCommit ==
  ASSUME Records!RecordsAssumption, RecordsInv,
         NEW h \in Handlers, NEW c \in Customers, Committed(h, c)
  PROVE  CustomerTold(c)'
<1> DEFINE o == tx[h].op
<1>1. o \in Records!CustomerRoutes
  BY KindsOfRow DEF Committed, Records!See
<1>2. CustomerTold(c)
  BY DEF RecordsInv, TrailInv
<1>3. record'[c] = Records!Effect(o, record[c], tx[h].start) /\ Records!Found(o, record[c]) /\ tx[h].start # 0
  BY DEF Committed
<1>4. record[c] \in Row
  BY DEF Committed, RecordsInv, RecordTypes
<1>5. Records!Audited(o) <=> o.kind = "erase"
  BY <1>1 DEF Records!Audited, Records!RecordsAssumption, Records!CustomerRoutes,
              Records!CreateCustomer, Records!UpdateCustomer, Records!DeleteCustomer,
              Records!EraseCustomer
<1>6. Records!Told(c)' # {} <=> o.kind = "erase" \/ Records!Told(c) # {}
  BY <1>5 DEF Committed
<1>7. /\ o.kind \in {"create", "update", "end", "erase"}
      /\ o.kind \in {"create", "update"} => o.content = Records!Filled
      /\ o.kind = "erase" => o.content = Records!Blank
  BY <1>1 DEF Records!CustomerRoutes, Records!CreateCustomer, Records!UpdateCustomer,
              Records!DeleteCustomer, Records!EraseCustomer
<1> QED
  BY <1>2, <1>3, <1>4, <1>6, <1>7
  DEF CustomerTold, Records!Effect, Records!Found, Records!Live, Records!NoRow, Row,
      Records!Void, Records!Blank, Records!Filled, Records!Never

\* The first revocation sets the end, and those that follow keep it.
LEMMA KeyCommit ==
  ASSUME Records!RecordsAssumption, RecordsInv,
         NEW h \in Handlers, NEW k \in Keys, Committed(h, k)
  PROVE  KeyTold(k)'
<1> DEFINE o == tx[h].op
<1>1. o \in Records!KeyRoutes /\ Records!Audited(o)
  BY KindsOfRow DEF Committed, Records!See, Records!Audited, Records!KeyRoutes,
                    Records!CreateKey, Records!RevokeKey
<1>2. PICK ev \in Entry : ev = Records!Event(h)
  BY DEF Committed
<1>3. ev.kind = o.kind /\ ev.at = tx[h].start /\ ev.at # 0
  BY <1>2 DEF Records!Event, Committed
<1>4. Records!Told(k)' = Records!Told(k) \cup {ev} /\ \A e \in Records!Told(k) : e.id < ev.id
  BY <1>1, <1>2 DEF Committed
<1>5. Records!Told(k) \subseteq Entry
  BY DEF Records!Told, RecordsInv, RecordTypes
<1>6. KeyTold(k)
  BY DEF RecordsInv, TrailInv
<1>7. record'[k] = Records!Effect(o, record[k], tx[h].start) /\ Records!Found(o, record[k]) /\ record[k] \in Row
  BY DEF Committed, RecordsInv, RecordTypes
<1>8. Ends(k)' = Ends(k) \cup {e \in {ev} : e.kind = "end"}
  BY <1>4 DEF Ends
<1>9. CASE o.kind = "create"
  <2>1. record[k] = Records!NoRow /\ record'[k].content = Records!Filled /\ record'[k].since = Records!Never
    BY <1>1, <1>7, <1>9 DEF Records!KeyRoutes, Records!CreateKey, Records!RevokeKey,
                            Records!Effect, Records!Found, Records!NoRow, Records!Never
  <2>2. Ends(k)' = {}
    BY <1>3, <1>6, <1>8, <1>9, <2>1 DEF KeyTold, Records!NoRow
  <2> QED
    BY <1>4, <2>1, <2>2 DEF KeyTold, Records!NoRow, Records!Void, Records!Filled
<1>10. CASE o.kind = "end"
  <2>1. Ends(k)' = Ends(k) \cup {ev}
    BY <1>3, <1>8, <1>10
  <2>2. /\ record[k] # Records!NoRow
        /\ record'[k].content = record[k].content
        /\ record'[k].since = IF record[k].since = Records!Never THEN ev.at ELSE record[k].since
    BY <1>3, <1>7, <1>10 DEF Records!Effect, Records!Found
  <2>3. record[k].content # Records!Void /\ record'[k].since # Records!Never
    BY <1>3, <1>6, <1>7, <2>2 DEF KeyTold, Records!NoRow, Row, Records!Never
  <2>4. ASSUME NEW e \in Ends(k) \cup {ev}, \A d \in Ends(k) \cup {ev} : e.id <= d.id
        PROVE  record'[k].since = e.at
    <3>1. CASE Ends(k) = {}
      BY <1>6, <2>2, <2>4, <3>1 DEF KeyTold
    <3>2. CASE Ends(k) # {}
      <4>1. e \in Ends(k)
        BY <1>4, <1>5, <2>4, <3>2 DEF Ends, Entry
      <4> QED
        BY <1>6, <2>2, <2>4, <3>2, <4>1 DEF KeyTold
    <3> QED
      BY <3>1, <3>2
  <2> QED
    BY <1>4, <2>1, <2>2, <2>3, <2>4 DEF KeyTold, Records!NoRow
<1> QED
  BY <1>1, <1>9, <1>10 DEF Records!KeyRoutes, Records!CreateKey, Records!RevokeKey

\* Of the replays the one that found the event dead is told so.
LEMMA ParkedCommit ==
  ASSUME Records!RecordsAssumption, RecordsInv,
         NEW h \in Handlers, NEW p \in Parked, Committed(h, p)
  PROVE  ParkedTold(p)'
<1> DEFINE o == tx[h].op
<1>1. o \in Records!ReplayDead /\ Records!Audited(o)
  BY KindsOfRow DEF Committed, Records!Audited, Records!ReplayDead
<1>2. PICK ev \in Entry : ev = Records!Event(h)
  BY DEF Committed
<1>3. ev.after = Records!Filled <=> record[p].since # Records!Never
  BY <1>1, <1>2 DEF Records!Event, Committed, Records!ReplayDead, Records!MerchantRoutes,
                    Records!CreateMerchant, Records!RenameMerchant, Records!Void,
                    Records!Filled
<1>4. Records!Told(p)' = Records!Told(p) \cup {ev}
  BY <1>1, <1>2 DEF Committed
<1>5. ParkedTold(p)
  BY DEF RecordsInv, TrailInv
<1>6. record'[p].since = Records!Never /\ record'[p].content = record[p].content
  BY <1>1 DEF Committed, Records!Effect, Records!ReplayDead
<1>7. Replayed(p)' = Replayed(p) \cup {e \in {ev} : e.after = Records!Filled}
  BY <1>4 DEF Replayed
<1> QED
  BY <1>2, <1>3, <1>5, <1>6, <1>7 DEF ParkedTold

\* A commit touches one row.
LEMMA TrailCommit ==
  ASSUME Records!RecordsAssumption, RecordsInv,
         NEW h \in Handlers, NEW r \in Records!Recs, Committed(h, r)
  PROVE  TrailInv'
<1>1. ASSUME NEW q \in Records!Recs \ {r} PROVE record'[q] = record[q] /\ Records!Told(q)' = Records!Told(q)
  BY DEF Committed
<1>2. ASSUME NEW m \in Merchants PROVE MerchantTold(m)'
  BY <1>1, MerchantCommit DEF RecordsInv, TrailInv, MerchantTold, Records!Recs
<1>3. ASSUME NEW c \in Customers PROVE CustomerTold(c)'
  BY <1>1, CustomerCommit DEF RecordsInv, TrailInv, CustomerTold, Records!Recs
<1>4. ASSUME NEW k \in Keys PROVE KeyTold(k)'
  <2>1. CASE k = r
    BY <2>1, KeyCommit
  <2>2. CASE k # r
    <3>1. record'[k] = record[k] /\ Records!Told(k)' = Records!Told(k) /\ Ends(k)' = Ends(k)
      BY <1>1, <2>2 DEF Ends, Records!Recs
    <3> QED
      BY <3>1 DEF RecordsInv, TrailInv, KeyTold
  <2> QED
    BY <2>1, <2>2
<1>5. ASSUME NEW p \in Parked PROVE ParkedTold(p)'
  <2>1. CASE p = r
    BY <2>1, ParkedCommit
  <2>2. CASE p # r
    <3>1. record'[p] = record[p] /\ Records!Told(p)' = Records!Told(p) /\ Replayed(p)' = Replayed(p)
      BY <1>1, <2>2 DEF Replayed, Records!Recs
    <3> QED
      BY <3>1 DEF RecordsInv, TrailInv, ParkedTold
  <2> QED
    BY <2>1, <2>2
<1> QED
  BY <1>2, <1>3, <1>4, <1>5 DEF TrailInv

\* The commit of the holder leaves the others what they know.
LEMMA CommitKeeps ==
  ASSUME Records!RecordsAssumption, RecordsInv, NEW h \in Handlers, Records!Commit(h)
  PROVE  RecordsInv'
<1> USE DEF RecordsInv
<1>1. PICK r \in Records!Recs : Committed(h, r)
  BY CommitFacts
<1>2. /\ tx' = [tx EXCEPT ![h] = Records!Idle]
      /\ record' = [record EXCEPT ![r] = tx[h].new]
      /\ trail' = trail \/ (trail' = trail \cup {Records!Event(h)} /\ tx[h].at = "audited")
      /\ UNCHANGED <<clock, nextId, walk, stale>>
  <2>1. tx[h].op.row = r /\ (Records!Audited(tx[h].op) => tx[h].at = "audited")
    BY <1>1 DEF Committed
  <2>2. /\ tx' = [tx EXCEPT ![h] = Records!Idle]
        /\ record' = [record EXCEPT ![tx[h].op.row] = tx[h].new]
        /\ trail' = IF Records!Audited(tx[h].op) THEN trail \cup {Records!Event(h)} ELSE trail
        /\ UNCHANGED <<clock, nextId, walk, stale>>
    BY DEF Records!Commit
  <2> QED
    BY <2>1, <2>2
<1>3. tx'[h] = Records!Idle /\ \A g \in Handlers \ {h} : tx'[g] = tx[g]
  BY <1>2 DEF RecordTypes
<1>4. RecordTypes'
  <2>1. tx[h].new \in Row /\ Records!Event(h) \in Entry
    BY <1>1 DEF RecordTypes, Committed
  <2>2. record' \in [Records!Recs -> Row] /\ trail' \subseteq Entry
    BY <1>2, <2>1 DEF RecordTypes
  <2>3. Records!Idle \in [at : Stages, op : Op, start : Nat, old : Row, new : Row, id : Nat]
    BY DEF Records!Idle, Records!NoRow, Records!NoOp, Row, Op, Content, Records!Never, Stages
  <2> QED
    BY <1>2, <2>2, <2>3 DEF RecordTypes
<1>5. IdsDiffer'
  <2>1. Records!Event(h).id = tx[h].id
    BY <1>1 DEF Committed
  <2> QED
    BY <1>2, <1>3, <2>1 DEF IdsDiffer, Records!Idle
<1>6. StagesFit' /\ OneHolder'
  BY <1>3 DEF StagesFit, OneHolder, Records!Holding, Records!Idle
<1>7. HolderKnows'
  <2>1. ASSUME NEW g \in Handlers, tx'[g].at \in Records!Holding
        PROVE  g # h /\ tx[g].op.row # r /\ tx[g].op.row \in Records!Recs
    BY <1>1, <1>3, <2>1, KindsOfRow DEF Records!Idle, Records!Holding, OneHolder, Committed,
                                        StagesFit
  <2>2. ASSUME NEW q \in Records!Recs \ {r} PROVE record'[q] = record[q] /\ Records!Told(q)' = Records!Told(q)
    BY <1>1 DEF Committed
  <2>3. ASSUME NEW g \in Handlers, tx'[g].at \in Records!Holding
        PROVE  tx'[g] = tx[g] /\ record'[tx[g].op.row] = record[tx[g].op.row]
    BY <1>3, <2>1, <2>2, <2>3
  <2>4. ASSUME NEW g \in Handlers, tx'[g].at = "audited", NEW e \in trail', e.row = tx[g].op.row
        PROVE  e.id < tx[g].id
    <3>1. PICK q \in Records!Recs \ {r} : q = tx[g].op.row
      BY <2>1, <2>4 DEF Records!Holding
    <3>2. e \in Records!Told(q)
      BY <2>2, <2>4, <3>1 DEF Records!Told
    <3> QED
      BY <1>3, <2>1, <2>4, <3>1, <3>2 DEF HolderKnows, Records!Holding
  <2> QED
    BY <2>3, <2>4 DEF HolderKnows, Records!Holding, Records!Told
<1>8. Seers'
  <2>1. r \in Customers \cup Keys \cup Links /\ record[r].since # Records!Never => record'[r].since # Records!Never
    <3>1. /\ record'[r] = Records!Effect(tx[h].op, record[r], tx[h].start)
          /\ tx[h].start # 0 /\ Records!Found(tx[h].op, record[r])
      BY <1>1 DEF Committed
    <3>2. r \in Customers \cup Keys \cup Links => tx[h].op.kind # "replay"
      BY <1>1, KindsOfRow DEF Committed, Records!CustomerRoutes, Records!KeyRoutes,
                              Records!LinkRoutes, Records!See, Records!CreateCustomer,
                              Records!UpdateCustomer, Records!DeleteCustomer,
                              Records!EraseCustomer, Records!CreateKey, Records!RevokeKey,
                              Records!CreateLink, Records!DisableLink
    <3> QED
      BY <3>1, <3>2 DEF Records!Effect, Records!Never
  <2>2. ASSUME NEW g \in Handlers, tx'[g].at \in {"begun", "seen"}, tx'[g].op.kind = "see"
        PROVE  /\ g # h /\ tx'[g] = tx[g]
               /\ tx[g].op.row \in Customers \cup Keys \cup Links
    <3>1. g # h /\ tx'[g] = tx[g]
      BY <1>3, <2>2 DEF Records!Idle
    <3>2. tx[g].op \in Records!Operations /\ tx[g].op.kind = "see"
      BY <2>2, <3>1 DEF StagesFit
    <3> QED
      BY <3>1, <3>2, KindsOfRow
  <2>3. \A q \in Records!Recs \ {r} : record'[q] = record[q]
    BY <1>1 DEF Committed
  <2> QED
    BY <2>1, <2>2, <2>3 DEF Seers, Records!Recs
<1>9. Walked' /\ Records!PagesAreComplete'
  <2>1. Records!Visible \subseteq Records!Visible'
    BY <1>2 DEF Records!Visible
  <2> QED
    BY <1>2, <2>1 DEF Walked, Records!PagesAreComplete
<1> QED
  BY <1>1, <1>2, <1>4, <1>5, <1>6, <1>7, <1>8, <1>9, TrailCommit

\* The page is the greatest ids below the cursor, so none is skipped between them.
LEMMA ReadPageKeeps ==
  ASSUME Records!RecordsAssumption, RecordsInv, Records!ReadPage
  PROVE  RecordsInv'
<1> USE DEF RecordsInv
<1>1. ~walk.over /\ UNCHANGED <<record, trail, tx, clock, nextId, stale>>
  BY DEF Records!ReadPage
<1> DEFINE Turned(shown, last) ==
             /\ Records!Page(shown, Records!BelowCursor)
             /\ shown = {} \/ (last \in shown /\ \A i \in shown : last <= i)
             /\ walk' = [had |-> IF walk.before = 0 THEN Records!Visible ELSE walk.had,
                         got |-> walk.got \cup shown,
                         before |-> last,
                         over |-> shown = {},
                         again |-> (walk.again \/ walk.got \cap shown # {})]
<1>2. PICK shown \in SUBSET Records!BelowCursor : \E last \in shown \cup {walk.before} : Turned(shown, last)
  BY DEF Records!ReadPage
<1>3. PICK last \in shown \cup {walk.before} : Turned(shown, last)
  BY <1>2
<1>4. /\ walk'.had = IF walk.before = 0 THEN Records!Visible ELSE walk.had
      /\ walk'.got = walk.got \cup shown
      /\ walk'.before = last
      /\ walk'.over = (shown = {})
      /\ walk'.again = (walk.again \/ walk.got \cap shown # {})
  BY <1>3
<1>5. Records!Visible \subseteq Nat \ {0} /\ Records!Visible' = Records!Visible
  BY <1>1 DEF Records!Visible, RecordTypes, IdsDiffer
<1>6. shown \subseteq Records!Visible /\ \A i \in shown : walk.before = 0 \/ i < walk.before
  BY DEF Records!BelowCursor
<1>7. walk.got \cap shown = {}
  BY <1>5, <1>6 DEF Walked
<1>8. shown = {} => Records!BelowCursor = {}
  <2>1. shown = {} => Records!Cardinality(shown) = 0
    BY FS_EmptySet DEF Records!Cardinality, Cardinality
  <2> QED
    BY <1>3, <2>1 DEF Records!Page, Records!RecordsAssumption
<1>9. ASSUME NEW i \in walk'.had, walk'.before # 0, walk'.before <= i PROVE i \in walk'.got
  <2>1. CASE walk.before # 0 /\ walk.before <= i
    BY <1>4, <1>9, <2>1 DEF Walked
  <2>2. CASE walk.before = 0 \/ i < walk.before
    <3>1. i \in Records!BelowCursor
      BY <1>4, <1>9, <2>2 DEF Records!BelowCursor, Walked
    <3>2. last \in shown
      BY <1>3, <1>8, <3>1
    <3>3. i \in Nat /\ last \in Nat /\ last <= i
      BY <1>4, <1>5, <1>6, <1>9, <3>1, <3>2 DEF Records!BelowCursor
    <3>4. i \notin shown => i < last
      BY <1>3, <3>1, <3>2 DEF Records!Page
    <3> QED
      BY <1>4, <3>3, <3>4
  <2> QED
    BY <1>4, <1>5, <1>9, <2>1, <2>2 DEF Walked
<1>10. walk' \in [had : SUBSET Nat, got : SUBSET Nat, before : Nat, over : BOOLEAN, again : BOOLEAN]
  <2>1. walk.before \in Nat /\ walk.got \subseteq Nat /\ walk.had \subseteq Nat
        /\ walk.again \in BOOLEAN
    BY DEF Walked
  <2>2. shown \subseteq Nat /\ last \in Nat
    BY <1>3, <1>5, <1>6, <2>1
  <2> QED
    BY <1>3, <1>5, <2>1, <2>2
<1>11. walk'.had \subseteq Records!Visible'
  BY <1>4, <1>5 DEF Walked
<1>12. walk'.before = 0 => walk'.got = {}
  BY <1>3, <1>4, <1>5, <1>6 DEF Walked
<1>13. \A i \in walk'.got : walk'.before <= i
  BY <1>3, <1>4, <1>5, <1>6 DEF Walked
<1>14. Walked'
  BY <1>9, <1>10, <1>11, <1>12, <1>13 DEF Walked
<1>15. Records!PagesAreComplete'
  <2>1. ~walk'.again
    BY <1>4, <1>7 DEF Records!PagesAreComplete
  <2>2. ASSUME walk'.over, NEW i \in walk'.had PROVE i \in walk'.got
    <3>1. shown = {} /\ Records!BelowCursor = {} /\ last = walk.before
      BY <1>3, <1>4, <1>8, <2>2
    <3>2. i \in Records!Visible
      BY <1>5, <1>11, <2>2
    <3>3. walk.before # 0 /\ walk.before <= i
      BY <1>5, <3>1, <3>2 DEF Records!BelowCursor, Walked
    <3> QED
      BY <1>4, <2>2, <3>1, <3>3, <1>9
  <2> QED
    BY <2>1, <2>2 DEF Records!PagesAreComplete
<1>16. TrailInv' /\ RecordTypes' /\ IdsDiffer' /\ StagesFit' /\ OneHolder' /\ HolderKnows' /\ Seers'
  BY <1>1 DEF TrailInv, MerchantTold, CustomerTold, KeyTold, ParkedTold, Ends, Replayed,
              Records!Told, RecordTypes, IdsDiffer, StagesFit, OneHolder, HolderKnows, Seers
<1> QED
  BY <1>1, <1>14, <1>15, <1>16

\* Every step keeps the invariant.
LEMMA RecordsStep ==
  ASSUME Records!RecordsAssumption, RecordsInv, [Records!Next]_Records!vars
  PROVE  RecordsInv'
<1>1. ASSUME Records!Tick PROVE RecordsInv'
  BY <1>1, NothingCommitted
  DEF Records!Tick, RecordsInv, RecordTypes, IdsDiffer, StagesFit, OneHolder, HolderKnows,
      Records!Told, Seers
<1>2. ASSUME NEW h \in Handlers, Records!RollBack(h) PROVE RecordsInv'
  BY <1>2, RollBackKeeps DEF Records!RollBack, RecordsInv
<1>3. ASSUME UNCHANGED Records!vars PROVE RecordsInv'
  BY <1>3, NothingCommitted
  DEF Records!vars, RecordsInv, RecordTypes, IdsDiffer, StagesFit, OneHolder, HolderKnows,
      Records!Told, Seers
<1> QED
  BY <1>1, <1>2, <1>3, BeginKeeps, LockKeeps, ChangeKeeps, AuditKeeps, CommitKeeps, LookKeeps,
     ServedKeeps, ReadPageKeeps DEF Records!Next

\* What the invariant says of the log and of its pages.
LEMMA RecordsBounds == ASSUME Records!RecordsAssumption, RecordsInv PROVE Records!RecordsHold
<1> USE DEF RecordsInv
<1>1. trail \subseteq Entry /\ \A r : Records!Told(r) \subseteq Entry
  BY DEF RecordTypes, Records!Told
<1>2. ASSUME NEW m \in Merchants, NEW e \in Records!Told(m)
      PROVE  LET earlier == {d \in Records!Told(m) : d.id < e.id}
                 later == {d \in Records!Told(m) : d.id > e.id}
             IN /\ earlier = {} => e.kind = "create" /\ e.before = Records!Void
                /\ \A d \in earlier :
                     (\A c \in earlier : c.id <= d.id) => e.kind = "rename" /\ e.before = d.after
                /\ later = {} => e.after = record[m].content
  BY <1>1 DEF TrailInv, MerchantTold, Entry
<1>3. Records!NamesAreTold
  BY <1>2 DEF Records!NamesAreTold, TrailInv, MerchantTold
<1>4. ASSUME NEW p \in Parked
      PROVE  Records!Cardinality({e \in Records!Told(p) : e.after = Records!Filled}) =
               IF record[p].since = Records!Never THEN 1 ELSE 0
  <2>1. CASE record[p].since # Records!Never
    BY <2>1, FS_EmptySet
    DEF TrailInv, ParkedTold, Replayed, Records!Cardinality, Cardinality
  <2>2. CASE record[p].since = Records!Never
    <3>1. PICK e \in Entry : Replayed(p) = {e}
      BY <2>2 DEF TrailInv, ParkedTold
    <3>2. Records!Cardinality({e}) = 1
      BY FS_Singleton DEF Records!Cardinality, Cardinality
    <3> QED
      BY <2>2, <3>1, <3>2 DEF Replayed
  <2> QED
    BY <2>1, <2>2
<1>5. Records!EndsAreTold
  BY <1>4 DEF Records!EndsAreTold, TrailInv, CustomerTold, KeyTold, Ends
<1> QED
  BY <1>3, <1>5 DEF Records!RecordsHold

-----------------------------------------------------------------------------
(* The door: every step of it is one step of one machine, or leaves it alone. *)

LEMMA DoorStep ==
  ASSUME [DoorNext]_doorVars
  PROVE  /\ [Next]_vars
         /\ [KeyRotation!Next]_KeyRotation!vars
         /\ [Requests!Next]_Requests!vars
         /\ [Onboarding!Next]_Onboarding!vars
         /\ [Console!Next]_Console!vars
         /\ [RateLimit!Next]_RateLimit!vars
         /\ [Records!Next]_Records!vars
  BY DEF DoorNext, AccessNext, KeysNext, RequestsNext, OnboardingNext, BreakerNext,
         ConsoleNext, LimitsNext, RecordsNext, doorVars, othersOfConsole, keyVars,
         requestVars, onboardingVars, breakerVars, consoleVars, limitVars, recordVars,
         KeyRotation!vars,
         Requests!vars, Onboarding!vars, Onboarding!tabVars, Console!vars, RateLimit!vars,
         Records!vars

\* A second factor is guessed fewer times than the limit between two completed
\* logins, whatever the limit is and however many challenges are opened.
THEOREM GuessBound == DoorSpec => []GuessesAreBounded
<1> USE FrontDoorAssumption DEF FrontDoorAssumption
<1>1. DoorInit => CounterInv
  BY CounterInit DEF DoorInit
<1>2. CounterInv /\ [DoorNext]_doorVars => CounterInv'
  BY CounterStep, DoorStep
<1>3. CounterInv => GuessesAreBounded
  BY DEF CounterInv, GuessesAreBounded, AccessAssumption
<1> QED
  BY <1>1, <1>2, <1>3, PTL DEF DoorSpec

\* No code is accepted twice, for any window, clock and number of enrolments.
THEOREM CodesOnce == DoorSpec => []CodesAcceptedOnce
<1> USE FrontDoorAssumption DEF FrontDoorAssumption
<1>1. DoorInit => UsedInv
  BY UsedInit DEF DoorInit
<1>2. UsedInv /\ [DoorNext]_doorVars => UsedInv'
  BY UsedStep, DoorStep
<1>3. UsedInv => CodesAcceptedOnce
  BY DEF UsedInv, CodesAcceptedOnce
<1> QED
  BY <1>1, <1>2, <1>3, PTL DEF DoorSpec

\* The two of them: the second factor is guessed seldom and each code is good for once.
THEOREM FactorsHeld == DoorSpec => []FactorsHold
  BY GuessBound, CodesOnce, PTL DEF FactorsHold

\* However many processes there are and however they are restarted, each of
\* them reads every secret and every API key at every moment of the rotation.
THEOREM EveryoneReads == DoorSpec => []EveryProcessReads
<1>1. DoorInit => KeyInv
  BY KeyInit DEF DoorInit
<1>2. KeyInv /\ [DoorNext]_doorVars => KeyInv'
  BY KeyStep, DoorStep
<1> QED
  BY <1>1, <1>2, KeysReadable, PTL DEF DoorSpec

\* Whatever the number of clients, of payloads under one key and of faults,
\* a key's effect is committed once in each of its lives and the responses
\* describe it.
THEOREM EffectOnce == DoorSpec => []EffectOncePerKey
<1> USE FrontDoorAssumption DEF FrontDoorAssumption
<1>1. DoorInit => RequestsInv
  BY RequestsInit DEF DoorInit
<1>2. RequestsInv /\ [DoorNext]_doorVars => RequestsInv'
  BY RequestsStep, DoorStep
<1>3. RequestsInv => EffectOncePerKey
  BY DEF RequestsInv, ClaimInv, AnswerInv, EffectOncePerKey, Requests!EffectOncePerKey
<1> QED
  BY <1>1, <1>2, <1>3, PTL DEF DoorSpec

\* The wizard gives one organization with one first merchant, for any number
\* of tabs, forms and deaths, whatever the members create beside it.
THEOREM OneOnboarding == DoorSpec => []OnboardedOnce
<1> USE FrontDoorAssumption DEF FrontDoorAssumption
<1>1. DoorInit => OnboardingInv
  BY OnboardingInit DEF DoorInit
<1>2. OnboardingInv /\ [DoorNext]_doorVars => OnboardingInv'
  BY OnboardingStep, DoorStep
<1>3. OnboardingInv => OnboardedOnce
  <2> SUFFICES ASSUME OnboardingInv PROVE OnboardedOnce
    OBVIOUS
  <2>1. \A r, s \in Onboarding!Owned : r = s
    BY DEF OnboardingInv, OwnerInv, Onboarding!Owned
  <2>2. \A s \in Slugs : \A m, n \in first[s] : m = n
    BY DEF OnboardingInv, FirstInv
  <2>3. \A t \in Tabs : Onboarding!Slug(t) \in Slugs
    BY DEF OnboardingInv, OnboardingTypeInv, Onboarding!Slug
  <2>4. ~late
    BY DEF OnboardingInv, FirstInv
  <2>5. ASSUME NEW t \in Tabs, at[t] = "done"
        PROVE  /\ Onboarding!Slug(t) \in Onboarding!Owned
               /\ Onboarding!Name(t) \in merchants[Onboarding!Slug(t)]
               /\ <<Onboarding!Slug(t), Onboarding!Name(t)>> \in chart
    BY <2>3, <2>5 DEF OnboardingInv, OwnerInv, ChartInv, Onboarding!Owned
  <2> QED
    BY <2>1, <2>2, <2>4, <2>5 DEF OnboardedOnce, Onboarding!OnboardedOnce
<1> QED
  BY <1>1, <1>2, <1>3, PTL DEF DoorSpec

\* However often the button is pressed and the page is loaded anew, and whatever
\* answers are lost, a press does its work once, a confirmation with a key too,
\* a press is retried once, and what is shown as done was done.
THEOREM ConfirmedEach == DoorSpec => []ConfirmedOnce
<1> USE FrontDoorAssumption DEF FrontDoorAssumption
<1>1. DoorInit => ConsoleInv
  BY ConsoleInit DEF DoorInit
<1>2. ConsoleInv /\ [DoorNext]_doorVars => ConsoleInv'
  BY ConsoleStep, DoorStep
<1>3. ConsoleInv => ConfirmedOnce
  BY ConsoleBounds DEF ConfirmedOnce
<1> QED
  BY <1>1, <1>2, <1>3, PTL DEF DoorSpec

\* Whatever the limit, the window and the moments at which the instances lose
\* sight of each other, no bucket lets through what the limit forbids.
THEOREM LimitsKept == DoorSpec => []LimitsHold
<1> USE FrontDoorAssumption DEF FrontDoorAssumption
<1>1. DoorInit => LimitInv
  BY LimitInit DEF DoorInit
<1>2. LimitInv /\ [DoorNext]_doorVars => LimitInv'
  BY LimitStep, DoorStep
<1>3. LimitInv => LimitsHold
  BY LimitBounds DEF LimitsHold
<1> QED
  BY <1>1, <1>2, <1>3, PTL DEF DoorSpec

\* Whoever creates, renames, erases, revokes and replays, in whatever order and
\* with whatever rolled back, the log tells it, its pages miss nothing, and what
\* has ended serves nobody.
THEOREM RecordsKept == DoorSpec => []RecordsHold
<1> USE FrontDoorAssumption DEF FrontDoorAssumption
<1>1. DoorInit => RecordsInv
  BY RecordsInit DEF DoorInit
<1>2. RecordsInv /\ [DoorNext]_doorVars => RecordsInv'
  BY RecordsStep, DoorStep
<1>3. RecordsInv => RecordsHold
  BY RecordsBounds DEF RecordsHold
<1> QED
  BY <1>1, <1>2, <1>3, PTL DEF DoorSpec
=============================================================================
