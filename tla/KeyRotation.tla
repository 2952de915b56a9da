---------------------------- MODULE KeyRotation ----------------------------
(***************************************************************************)
(* Changing a key of the fleet while it serves: the key that encrypts the   *)
(* TOTP secrets (auth/rotate-mfa.ts), the one that encrypts the webhook     *)
(* secrets (webhooks/rotate.ts), and the pepper that hashes the API keys    *)
(* (identity/rotate-api-key-pepper.ts, 0044).  `kind` says which.  Each     *)
(* process keeps the keyring it was started with; an operator deploys the   *)
(* four configurations of the runbooks one after the other, by rolling      *)
(* restarts, and removes the old key when the read-only check allows it.    *)
(***************************************************************************)
EXTENDS Integers

CONSTANTS
  Processes,  \* processes of the fleet
  Rows        \* number of rows that hold a secret, in the order of their ids

\* A row has two blobs: the active secret and the pending one of an enrolment,
\* or the previous one of an endpoint.  An API key has one hash.
Columns == {"active", "other"}
Blank == [col \in Columns |-> "none"]

VARIABLES
  kind,    \* "mfa", "webhook", "pepper"
  target,  \* configuration the operator is deploying
  config,  \* configuration each process was started with
  row,     \* per row and column: "none", or the key its blob is under
  cursor,  \* next row of the sweep, 0 when it is not running
  gate     \* the check found nothing under the old key

vars == <<kind, target, config, row, cursor, gate>>

\* Configuration 0 is the one before, 3 the one after the rotation.
Current(c) == IF c \in {0, 1} THEN "old" ELSE "new"

Keyring(c) ==
  CASE c = 0 -> {"old"}
    [] c = 3 -> {"new"}
    [] OTHER -> {"old", "new"}

Init ==
  /\ kind \in {"mfa", "webhook", "pepper"}
  /\ target = 0
  /\ config = [p \in Processes |-> 0]
  /\ row = [i \in 1 .. Rows |-> Blank]
  /\ cursor = 0
  /\ gate = FALSE

\* decrypt...WithKeyring: the current key is tried, then the retired ones; what
\* none of them opens is an error.
Reads(p, key) == key \in Keyring(config[p])

FleetIsAt(c) == \A p \in Processes : config[p] = c

-----------------------------------------------------------------------------
\* What the serving processes do with the rows.
Store(i, blobs) ==
  /\ row' = [row EXCEPT ![i] = blobs]
  /\ UNCHANGED <<kind, target, config, cursor, gate>>

\* setupMfa, activateMfa, disableMfa.
SetupMfa(p, i) ==
  /\ kind = "mfa"
  /\ row[i]["active"] = "none"
  /\ Store(i, [row[i] EXCEPT !["other"] = Current(config[p])])

ActivateMfa(i) ==
  /\ kind = "mfa"
  /\ row[i]["active"] = "none"
  /\ row[i]["other"] # "none"
  /\ Store(i, [active |-> row[i]["other"], other |-> "none"])

DisableMfa(i) ==
  /\ kind = "mfa"
  /\ row[i]["active"] # "none"
  /\ Store(i, Blank)

\* EndpointService.create and rotateSecret, which keeps the old blob as it is.
CreateEndpoint(p, i) ==
  /\ kind = "webhook"
  /\ row[i] = Blank
  /\ Store(i, [Blank EXCEPT !["active"] = Current(config[p])])

RotateSecret(p, i) ==
  /\ kind = "webhook"
  /\ row[i]["active"] # "none"
  /\ Store(i, [active |-> Current(config[p]), other |-> row[i]["active"]])

\* ApiKeyService.create and revoke; a revoked key is no longer anyone's.
CreateKey(p, i) ==
  /\ kind = "pepper"
  /\ row[i] = Blank
  /\ Store(i, [Blank EXCEPT !["active"] = Current(config[p])])

Revoke(i) ==
  /\ kind = "pepper"
  /\ row[i] # Blank
  /\ Store(i, Blank)

\* authenticate_api_key: a key found under a retired pepper is hashed again
\* under the current one of the process that asks, which may be the older.
Authenticate(p, i) ==
  /\ kind = "pepper"
  /\ Reads(p, row[i]["active"])
  /\ row[i]["active"] # Current(config[p])
  /\ Store(i, [row[i] EXCEPT !["active"] = Current(config[p])])

-----------------------------------------------------------------------------
\* The operator.  The sweep and the check run with the second configuration.
SweepStarts ==
  /\ kind # "pepper"
  /\ target = 2
  /\ FleetIsAt(2)
  /\ cursor = 0
  /\ ~gate
  /\ cursor' = 1
  /\ UNCHANGED <<kind, target, config, row, gate>>

\* Bug: the second blob of the row is forgotten.
MigrateActive(blobs) == [blobs EXCEPT !["active"] = IF @ = "old" THEN "new" ELSE @]

\* migrateBlob on both columns of the row.
Migrate(blobs) == [col \in Columns |-> IF blobs[col] = "old" THEN "new" ELSE blobs[col]]

\* One batch, under its row locks; rows behind the cursor are not revisited.
SweepBatch ==
  /\ cursor # 0
  /\ row' = [row EXCEPT ![cursor] = Migrate(@)]
  /\ cursor' = IF cursor = Rows THEN 0 ELSE cursor + 1
  /\ UNCHANGED <<kind, target, config, gate>>

\* Bug: the check looks at the active blob only.
CleanActive == \A i \in 1 .. Rows : row[i]["active"] # "old"

\* inspect...: one SELECT over every row and both columns.
Clean == \A i \in 1 .. Rows, col \in Columns : row[i][col] # "old"

Check ==
  /\ target = 2
  /\ FleetIsAt(2)
  /\ ~gate
  /\ Clean
  /\ gate' = TRUE
  /\ UNCHANGED <<kind, target, config, row, cursor>>

Deploy ==
  /\ target < 3
  /\ FleetIsAt(target)
  /\ target = 2 => gate
  /\ target' = target + 1
  /\ UNCHANGED <<kind, config, row, cursor, gate>>

\* A process drains its requests and is replaced.
Restart(p) ==
  /\ config[p] # target
  /\ config' = [config EXCEPT ![p] = target]
  /\ UNCHANGED <<kind, target, row, cursor, gate>>

\* Keys that nobody uses are revoked by the operator.
RevokeStraggler == \E i \in 1 .. Rows : target = 2 /\ row[i]["active"] = "old" /\ Revoke(i)

-----------------------------------------------------------------------------
Serve(p, i) ==
  \/ SetupMfa(p, i) \/ CreateEndpoint(p, i) \/ RotateSecret(p, i)
  \/ CreateKey(p, i) \/ Authenticate(p, i)

Next ==
  \/ \E p \in Processes, i \in 1 .. Rows : Serve(p, i)
  \/ \E i \in 1 .. Rows : ActivateMfa(i) \/ DisableMfa(i) \/ Revoke(i)
  \/ SweepStarts \/ SweepBatch \/ Check \/ Deploy
  \/ \E p \in Processes : Restart(p)

\* The operator carries the procedure through; the people whose secrets these
\* are do nothing in particular.
Fairness ==
  /\ WF_vars(Deploy)
  /\ WF_vars(SweepStarts \/ SweepBatch)
  /\ WF_vars(Check)
  /\ WF_vars(RevokeStraggler)
  /\ \A p \in Processes : WF_vars(Restart(p))

Spec == Init /\ [][Next]_vars /\ Fairness

-----------------------------------------------------------------------------
\* At any moment of the rolling restarts, every process can decrypt every
\* stored secret and verify every live API key, whichever process wrote it
\* last: nobody's login, webhook or key fails because of the rotation.
EveryProcessReads ==
  \A p \in Processes, i \in 1 .. Rows, col \in Columns :
    row[i][col] # "none" => Reads(p, row[i][col])

\* The rotation comes to its end: secrets written during it, enrolments left
\* half done and keys nobody uses do not keep the old key in service forever.
RotationEnds == target = 2 ~> target = 3 /\ FleetIsAt(3)
=============================================================================
