------------------------------- MODULE Access -------------------------------
(***************************************************************************)
(* The account of one person (packages/auth/src/service.ts): registration,  *)
(* login with password and second factor, sessions, step-up and the life of *)
(* the TOTP factor.  Every handler works in one transaction that holds the  *)
(* user's row (FOR UPDATE), so it is one step; requests interleave between  *)
(* them and time passes in TOTP steps of thirty seconds.                    *)
(***************************************************************************)
EXTENDS Integers, FiniteSets

CONSTANTS
  MaxFailed,     \* maxFailedAttempts
  LockFor,       \* lockoutMs, in steps
  ChallengeTtl,  \* mfaChallengeTtlMs, in steps
  StepUpAge,     \* stepUpMaxAgeMs, in steps
  Window,        \* verifyTotp: steps accepted on either side of now
  Challenges,    \* ids of login challenges
  Sessions,      \* ids of sessions
  BackupCodes,   \* backup codes of an enrolment
  MaxSecrets,    \* bound: TOTP secrets the person sets up
  MaxNow         \* bound: time

Never == 0

\* maxFailedAttempts is positive and verifyTotp's window is not negative.
AccessAssumption == MaxFailed \in Nat \ {0} /\ Window \in Nat

VARIABLES
  now,        \* current step, from 1
  email,      \* "none", "unverified", "verified"
  failed,     \* users.failed_login_attempts
  lockedUntil,\* users.locked_until
  totp,       \* users: active and pending secret (0 is none), last used step
  backups,    \* unused mfa_backup_codes
  challenge,  \* mfa_challenges: expiry of the open ones, Never when not open
  session,    \* sessions: live, mfa_verified_at, password_verified_at
  secrets,    \* history: secrets generated so far
  used,       \* history: codes and challenges accepted so far
  twice,      \* history: one of them was accepted a second time
  guesses     \* history: wrong credentials since a completed login or a lock

vars == <<now, email, failed, lockedUntil, totp, backups, challenge, session,
          secrets, used, twice, guesses>>

NoSession == [live |-> FALSE, mfa |-> Never, password |-> Never]

Init ==
  /\ now = 1
  /\ email = "none"
  /\ failed = 0
  /\ lockedUntil = Never
  /\ totp = [active |-> 0, pending |-> 0, last |-> Never]
  /\ backups = {}
  /\ challenge = [c \in Challenges |-> Never]
  /\ session = [s \in Sessions |-> NoSession]
  /\ secrets = 0
  /\ used = {}
  /\ twice = FALSE
  /\ guesses = 0

Locked == lockedUntil > now
MfaOn == totp.active # 0

\* assertFreshStepUp, on the session that authenticateSession found live.
Fresh(s) ==
  LET at == IF MfaOn THEN session[s].mfa ELSE session[s].password
  IN session[s].live /\ at # Never /\ now - at <= StepUpAge

-----------------------------------------------------------------------------
Tick ==
  /\ now < MaxNow
  /\ now' = now + 1
  /\ UNCHANGED <<email, failed, lockedUntil, totp, backups, challenge, session,
                 secrets, used, twice, guesses>>

\* register, and register-sandbox, which verifies in the same transaction.
Register ==
  /\ email = "none"
  /\ email' \in {"unverified", "verified"}
  /\ UNCHANGED <<now, failed, lockedUntil, totp, backups, challenge, session,
                 secrets, used, twice, guesses>>

\* verifyEmail consumes the token of the registration.
VerifyEmail ==
  /\ email = "unverified"
  /\ email' = "verified"
  /\ UNCHANGED <<now, failed, lockedUntil, totp, backups, challenge, session,
                 secrets, used, twice, guesses>>

-----------------------------------------------------------------------------
\* A wrong password or code, counted and committed before the error.
Fail ==
  LET lock == failed + 1 >= MaxFailed
  IN /\ failed' = IF lock THEN 0 ELSE failed + 1
     /\ lockedUntil' = IF lock THEN now + LockFor ELSE lockedUntil
     /\ guesses' = IF lock THEN 0 ELSE guesses + 1

\* The same counter for the three places that count: login, the challenge
\* and both step-ups.
WrongCredential ==
  /\ email # "none"
  /\ ~Locked
  /\ Fail
  /\ UNCHANGED <<now, email, totp, backups, challenge, session, secrets, used, twice>>

Accept(what) ==
  /\ used' = used \cup {what}
  /\ twice' = (twice \/ what \in used)

\* createSession, and the counter that only a completed login clears.
Opened(s, mfa) ==
  /\ ~session[s].live
  /\ session' = [session EXCEPT ![s] = [live |-> TRUE, mfa |-> mfa, password |-> Never]]
  /\ failed' = 0
  /\ lockedUntil' = Never
  /\ guesses' = 0

\* login of an account without MFA.
Login(s) ==
  /\ email = "verified"
  /\ ~Locked
  /\ ~MfaOn
  /\ Opened(s, Never)
  /\ UNCHANGED <<now, email, totp, backups, challenge, secrets, used, twice>>

\* Bug: the first factor alone clears the counter.
LoginResets(c) ==
  /\ email = "verified"
  /\ ~Locked
  /\ MfaOn
  /\ challenge[c] = Never
  /\ challenge' = [challenge EXCEPT ![c] = now + ChallengeTtl]
  /\ failed' = 0
  /\ UNCHANGED <<now, email, lockedUntil, totp, backups, session, secrets,
                 used, twice, guesses>>

\* login of an account with MFA: a challenge, and no session yet.
LoginChallenges(c) ==
  /\ email = "verified"
  /\ ~Locked
  /\ MfaOn
  /\ challenge[c] = Never
  /\ challenge' = [challenge EXCEPT ![c] = now + ChallengeTtl]
  /\ UNCHANGED <<now, email, failed, lockedUntil, totp, backups, session,
                 secrets, used, twice, guesses>>

Codes == {t \in now - Window .. now + Window : t >= 1}

\* Bug: a code within the window is good whatever was used before.
MatchAny(t) == MfaOn /\ t \in Codes

\* matchActiveTotp: the code of step t for the active secret.
Match(t) == MfaOn /\ t \in Codes /\ t > totp.last

\* verifyMfaChallenge with a TOTP code.
VerifyTotp(c, s, t) ==
  /\ challenge[c] > now
  /\ ~Locked
  /\ Match(t)
  /\ totp' = [totp EXCEPT !.last = t]
  /\ challenge' = [challenge EXCEPT ![c] = Never]
  /\ Opened(s, now)
  /\ Accept(<<"totp", totp.active, t>>)
  /\ UNCHANGED <<now, email, backups, secrets>>

\* verifyMfaChallenge with a backup code.
VerifyBackup(c, s, b) ==
  /\ challenge[c] > now
  /\ ~Locked
  /\ MfaOn
  /\ b \in backups
  /\ backups' = backups \ {b}
  /\ challenge' = [challenge EXCEPT ![c] = Never]
  /\ Opened(s, now)
  /\ Accept(<<"backup", totp.active, b>>)
  /\ UNCHANGED <<now, email, totp, secrets>>

-----------------------------------------------------------------------------
\* logout, revokeAllSessions, expiry and the idle timeout.
EndSessions(ended) ==
  /\ \E s \in ended : session[s].live
  /\ session' = [s \in Sessions |-> IF s \in ended THEN NoSession ELSE session[s]]
  /\ UNCHANGED <<now, email, failed, lockedUntil, totp, backups, challenge,
                 secrets, used, twice, guesses>>

StepUpTotp(s, t) ==
  /\ session[s].live
  /\ ~Locked
  /\ Match(t)
  /\ totp' = [totp EXCEPT !.last = t]
  /\ session' = [session EXCEPT ![s].mfa = now]
  /\ Accept(<<"totp", totp.active, t>>)
  /\ UNCHANGED <<now, email, failed, lockedUntil, backups, challenge, secrets, guesses>>

\* stepUpWithPassword, refused once MFA is on; it clears the counter only.
StepUpPassword(s) ==
  /\ session[s].live
  /\ ~Locked
  /\ ~MfaOn
  /\ session' = [session EXCEPT ![s].password = now]
  /\ failed' = 0
  /\ guesses' = 0
  /\ UNCHANGED <<now, email, lockedUntil, totp, backups, challenge, secrets, used, twice>>

SetupMfa(s) ==
  /\ Fresh(s)
  /\ ~MfaOn
  /\ secrets < MaxSecrets
  /\ secrets' = secrets + 1
  /\ totp' = [totp EXCEPT !.pending = secrets + 1]
  /\ UNCHANGED <<now, email, failed, lockedUntil, backups, challenge, session,
                 used, twice, guesses>>

\* activateMfa: the pending secret becomes the active one.
Activate(t) == [active |-> totp.pending, pending |-> 0, last |-> t]

ActivateMfa(s, t) ==
  /\ Fresh(s)
  /\ ~MfaOn
  /\ totp.pending # 0
  /\ t \in Codes
  /\ totp' = Activate(t)
  /\ backups' = BackupCodes
  /\ session' = [session EXCEPT ![s].mfa = now]
  /\ Accept(<<"totp", totp.pending, t>>)
  /\ UNCHANGED <<now, email, failed, lockedUntil, challenge, secrets, guesses>>

\* disableMfa: no backup code is enough, and a wrong one is not counted.
DisableMfa(s, t) ==
  /\ Fresh(s)
  /\ Match(t)
  /\ totp' = [active |-> 0, pending |-> 0, last |-> Never]
  /\ backups' = {}
  /\ Accept(<<"totp", totp.active, t>>)
  /\ UNCHANGED <<now, email, failed, lockedUntil, challenge, session, secrets, guesses>>

-----------------------------------------------------------------------------
Next ==
  \/ Tick \/ Register \/ VerifyEmail \/ WrongCredential
  \/ \E s \in Sessions : Login(s) \/ StepUpPassword(s) \/ SetupMfa(s)
  \/ \E c \in Challenges : LoginChallenges(c)
  \/ \E c \in Challenges, s \in Sessions :
       \/ \E t \in Codes : VerifyTotp(c, s, t)
       \/ \E b \in BackupCodes : VerifyBackup(c, s, b)
  \/ \E ended \in SUBSET Sessions : EndSessions(ended)
  \/ \E s \in Sessions, t \in Codes : StepUpTotp(s, t) \/ ActivateMfa(s, t) \/ DisableMfa(s, t)

Spec == Init /\ [][Next]_vars

-----------------------------------------------------------------------------
TypeOK ==
  /\ now \in 1 .. MaxNow
  /\ email \in {"none", "unverified", "verified"}
  /\ failed \in 0 .. MaxFailed - 1
  /\ lockedUntil \in 0 .. MaxNow + LockFor
  /\ totp.active \in 0 .. secrets /\ totp.pending \in 0 .. secrets
  /\ backups \subseteq BackupCodes

\* Fewer wrong passwords and codes than the limit are judged between two
\* completed logins unless the account locks, however logins, challenges and
\* step-ups alternate: passing the first factor alone buys no new guesses.
GuessesAreBounded == guesses < MaxFailed

\* A TOTP code or a backup code opens a session, steps one up or changes the
\* factor at most once, through whichever of the four handlers it is
\* presented, within its window and across enrolments.
CodesAcceptedOnce == ~twice

\* Neither many guesses nor an old code replace the person's factors.
FactorsHold == GuessesAreBounded /\ CodesAcceptedOnce
=============================================================================
