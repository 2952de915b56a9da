--------------------------- MODULE Reconciliation ---------------------------
(***************************************************************************)
(* Reconciliation of one settlement report: the provider's lines            *)
(* (packages/reconciliation/src/index.ts), the manual reconcile and the     *)
(* worker's sweep (0028), the case each discrepancy opens (0029, cases.ts)  *)
(* and the adjustments people propose, approve and reject on it             *)
(* (adjustments.ts, 0030), posted to the ledger.  A step is a stretch       *)
(* between two waits for a row lock or an index entry of PostgreSQL, which  *)
(* also ends a deadlock by aborting one of its parties.                     *)
(***************************************************************************)
EXTENDS Ledger, FiniteSets

CONSTANTS
  Refs,      \* provider references
  Users,     \* members who work the cases
  Loaders,   \* requests of the integrator that add lines
  Adjs,      \* ids of the adjustments that can be proposed
  MaxCalls   \* bound: calls that take a case's lock and may change nothing

Absent == "none"
Charged == 1       \* amount of the succeeded attempt of a reference
Reported == 1 .. 2 \* amounts a provider's line may carry

VARIABLES
  period,      \* the report's period: "running", "over"
  attempt,     \* per ref: "none", "open" (its transaction), "succeeded"
  report,      \* settlement_reports.status, and who closed it
  lines,       \* settlement_lines: amount per ref, 0 when there is none
  loader,      \* per loader: the batch whose transaction holds the report
  sweep,       \* the sweep's statement: "idle", or the snapshot it reads
  overtaken,   \* history: refs whose line committed after that snapshot
  entry,       \* reconciliation_entries: class per ref
  cases,       \* operational_cases: status and resolution per ref
  adj,         \* case_adjustments
  op,          \* per user: the propose or approve under way
  calls        \* history: calls so far, for the bound

reportVars == <<period, attempt, report, lines, loader, sweep, overtaken, entry>>
vars == <<balance, journal, reportVars, cases, adj, op, calls>>

Idle == [at |-> "idle"]
NoAdj == [status |-> Absent]

Init ==
  /\ LedgerInit
  /\ period = "running"
  /\ attempt = [r \in Refs |-> Absent]
  /\ report = "open"
  /\ lines = [r \in Refs |-> 0]
  /\ loader = [l \in Loaders |-> {}]
  /\ sweep = Idle
  /\ overtaken = {}
  /\ entry = [r \in Refs |-> Absent]
  /\ cases = [r \in Refs |-> [status |-> Absent, by |-> Absent]]
  /\ adj = [a \in Adjs |-> NoAdj]
  /\ op = [u \in Users |-> Idle]
  /\ calls = 0

-----------------------------------------------------------------------------
\* The charges of the period: resolved_at is the start of the transaction
\* that settles the attempt, which commits later.
Charge(r) ==
  /\ period = "running"
  /\ attempt[r] = Absent
  /\ attempt' = [attempt EXCEPT ![r] = "open"]
  /\ UNCHANGED <<balance, journal, period, report, lines, loader, sweep,
                 overtaken, entry, cases, adj, op, calls>>

ChargeCommits(r) ==
  /\ attempt[r] = "open"
  /\ attempt' = [attempt EXCEPT ![r] = "succeeded"]
  /\ UNCHANGED <<balance, journal, period, report, lines, loader, sweep,
                 overtaken, entry, cases, adj, op, calls>>

PeriodEnds ==
  /\ period = "running"
  /\ period' = "over"
  /\ UNCHANGED <<balance, journal, attempt, report, lines, loader, sweep,
                 overtaken, entry, cases, adj, op, calls>>

-----------------------------------------------------------------------------
\* Bug: addLines reads the report without FOR UPDATE.
ReportNotLocked == loader # loader

\* The row lock on the report: of an addLines whose transaction is open.
ReportLocked == \E l \in Loaders : loader[l] # {}

\* addLines: loadOpenReport takes the row and finds it open.
Load(l, batch) ==
  /\ report = "open"
  /\ ~ReportLocked
  /\ loader' = [loader EXCEPT ![l] = batch]
  /\ UNCHANGED <<balance, journal, period, attempt, report, lines, sweep,
                 overtaken, entry, cases, adj, op, calls>>

\* Its inserts and the commit; ON CONFLICT DO NOTHING keeps the first amount.
LoadCommits(l, amount) ==
  /\ loader[l] # {}
  /\ lines' = [r \in Refs |-> IF r \in loader[l] /\ lines[r] = 0 THEN amount ELSE lines[r]]
  /\ overtaken' = IF sweep = Idle THEN overtaken
                  ELSE overtaken \cup {r \in loader[l] : lines[r] = 0}
  /\ loader' = [loader EXCEPT ![l] = {}]
  /\ UNCHANGED <<balance, journal, period, attempt, report, sweep, entry,
                 cases, adj, op, calls>>

\* The FULL OUTER JOIN of lines and succeeded attempts.
Class(amount, status) ==
  IF status # "succeeded"
    THEN IF amount = 0 THEN Absent ELSE "missing_in_ledger"
    ELSE CASE amount = 0 -> "missing_at_provider"
           [] amount = Charged -> "matched"
           [] OTHER -> "amount_mismatch"

\* Entries, the report and, by trigger, one case per discrepancy.
Close(by, amounts, statuses) ==
  /\ entry' = [r \in Refs |-> Class(amounts[r], statuses[r])]
  /\ report' = by
  /\ cases' = [r \in Refs |->
                 [cases[r] EXCEPT !.status = IF entry'[r] \in {Absent, "matched"} THEN Absent ELSE "open"]]

\* reconcile: once it holds the row it reads what is committed by then.
Reconcile ==
  /\ report = "open"
  /\ ~ReportLocked
  /\ Close("reconciled", lines, attempt)
  /\ UNCHANGED <<balance, journal, period, attempt, lines, loader, sweep,
                 overtaken, adj, op, calls>>

\* sweep_settlement_reports is one statement: its snapshot is taken at its
\* start, and a report's row is locked when the scan reaches it.
SweepBegins ==
  /\ period = "over"
  /\ report = "open"
  /\ sweep = Idle
  /\ sweep' = [at |-> "scan", lines |-> lines, attempt |-> attempt]
  /\ overtaken' = {}
  /\ UNCHANGED <<balance, journal, period, attempt, report, lines, loader,
                 entry, cases, adj, op, calls>>

\* A report that another transaction holds is skipped, one reconciled
\* meanwhile fails the recheck of its new version.
SweepReaches ==
  /\ sweep # Idle
  /\ sweep' = Idle
  /\ IF ReportLocked \/ report # "open"
       THEN UNCHANGED <<report, entry, cases>>
       ELSE Close("swept", sweep.lines, sweep.attempt)
  /\ UNCHANGED <<balance, journal, period, attempt, lines, loader, overtaken,
                 adj, op, calls>>

-----------------------------------------------------------------------------
\* Row locks of a case and of an adjustment, held by open transactions.
CaseHeldBy(u, r) == op[u].at = "insert" /\ op[u].ref = r
CaseLocked(r) == \E u \in Users : CaseHeldBy(u, r)
AdjHeldBy(u, a) == op[u].at = "close" /\ op[u].adj = a
AdjLocked(a) == \E u \in Users : AdjHeldBy(u, a)

Live(a) == adj[a].status \in {"proposed", "applied"}

\* acknowledge and resolve, of a person who waits for the case's row.
Acknowledge(r) ==
  /\ ~CaseLocked(r)
  /\ cases[r].status = "open"
  /\ cases' = [cases EXCEPT ![r].status = "acknowledged"]
  /\ UNCHANGED <<balance, journal, reportVars, adj, op, calls>>

Resolve(u, r) ==
  /\ ~CaseLocked(r)
  /\ cases[r].status \in {"open", "acknowledged"}
  /\ cases' = [cases EXCEPT ![r] = [status |-> "resolved", by |-> u]]
  /\ UNCHANGED <<balance, journal, reportVars, adj, op, calls>>

\* propose: the case's row, then the insert; large is the amount against the
\* four-eyes threshold.
Propose(u, r, large) ==
  /\ op[u] = Idle
  /\ calls < MaxCalls
  /\ ~CaseLocked(r)
  /\ cases[r].status \in {"open", "acknowledged"}
  /\ op' = [op EXCEPT ![u] = [at |-> "insert", ref |-> r, large |-> large]]
  /\ calls' = calls + 1
  /\ UNCHANGED <<balance, journal, reportVars, cases, adj>>

\* The live adjustments of the case a proposal is about.
Rivals(u) == {a \in Adjs : Live(a) /\ adj[a].ref = op[u].ref}

\* Its row, unless the partial unique index has a live one for the case.
Inserted(u) ==
  LET fresh == {a \in Adjs : adj[a] = NoAdj}
  IN IF Rivals(u) # {} \/ fresh = {} THEN adj
     ELSE [adj EXCEPT ![CHOOSE a \in fresh : TRUE] =
             [status |-> "proposed", ref |-> op[u].ref, large |-> op[u].large,
              proposer |-> u, approver |-> Absent]]

\* Bug: the transaction of a refused proposal is left open.
InsertKeepsLock(u) ==
  /\ op[u].at = "insert"
  /\ \A a \in Rivals(u) : ~AdjLocked(a)
  /\ adj' = Inserted(u)
  /\ op' = IF adj' = adj THEN op ELSE [op EXCEPT ![u] = Idle]
  /\ UNCHANGED <<balance, journal, reportVars, cases, calls>>

\* The check for a rival waits for the transaction that is changing it.
Insert(u) ==
  /\ op[u].at = "insert"
  /\ \A a \in Rivals(u) : ~AdjLocked(a)
  /\ adj' = Inserted(u)
  /\ op' = [op EXCEPT ![u] = Idle]
  /\ UNCHANGED <<balance, journal, reportVars, cases, calls>>

\* approve reads the row before its transaction: status and proposer.
Approve(u, a) ==
  /\ op[u] = Idle
  /\ calls < MaxCalls
  /\ adj[a].status = "proposed"
  /\ adj[a].large => u # adj[a].proposer
  /\ op' = [op EXCEPT ![u] = [at |-> "post", adj |-> a]]
  /\ calls' = calls + 1
  /\ UNCHANGED <<balance, journal, reportVars, cases, adj>>

\* Bug: onPosted trusts what approve read.
OnPostedTrusts(u) ==
  /\ op[u].at = "post"
  /\ ~AdjLocked(op[u].adj)
  /\ op' = [op EXCEPT ![u] = IF op[u].adj \in journal THEN Idle
                             ELSE [at |-> "close", adj |-> op[u].adj]]
  /\ UNCHANGED <<balance, journal, reportVars, cases, adj, calls>>

\* postTransaction claims case_adj:{id}, waiting for a rival claim to end; a
\* replay skips onPosted, which first takes the adjustment's row and checks it.
OnPosted(u) ==
  /\ op[u].at = "post"
  /\ ~AdjLocked(op[u].adj)
  /\ op' = [op EXCEPT ![u] =
              IF op[u].adj \in journal \/ adj[op[u].adj].status # "proposed" THEN Idle
              ELSE [at |-> "close", adj |-> op[u].adj]]
  /\ UNCHANGED <<balance, journal, reportVars, cases, adj, calls>>

\* UPDATE operational_cases ... WHERE status <> 'resolved'.
ResolvedBy(r, by) ==
  IF cases[r].status = "resolved" THEN cases
  ELSE [cases EXCEPT ![r] = [status |-> "resolved", by |-> by]]

\* postReconAdjustment: the difference against suspense, with no balance guard.
PostReconAdjustment(key) ==
  /\ balance' = Applied(Movement(Platform("recon.differences"), Platform("suspense"), Charged))
  /\ journal' = journal \cup {key}

\* The rest of onPosted, which waits for the case's row, and the commit.
Apply(u) ==
  LET a == op[u].adj
  IN /\ op[u].at = "close"
     /\ ~CaseLocked(adj[a].ref)
     /\ PostReconAdjustment(a)
     /\ adj' = [adj EXCEPT ![a].status = "applied", ![a].approver = u]
     /\ cases' = ResolvedBy(adj[a].ref, a)
     /\ op' = [op EXCEPT ![u] = Idle]
     /\ UNCHANGED <<reportVars, calls>>

Reject(a) ==
  /\ adj[a].status = "proposed"
  /\ ~AdjLocked(a)
  /\ adj' = [adj EXCEPT ![a].status = "rejected"]
  /\ UNCHANGED <<balance, journal, reportVars, cases, op, calls>>

\* A proposal holds the case and waits for the adjustment that an approval
\* holds while it waits for the case.  PostgreSQL rolls one of the two back:
\* postTransaction tries the approval again, and in either case the proposal
\* ends refused, as the victim or by the adjustment it finds.
Deadlock(u, v) ==
  /\ op[u].at = "insert"
  /\ op[v].at = "close"
  /\ adj[op[v].adj].ref = op[u].ref
  /\ \E at \in {"post", "close"} : op' = [op EXCEPT ![u] = Idle, ![v].at = at]
  /\ UNCHANGED <<balance, journal, reportVars, cases, adj, calls>>

-----------------------------------------------------------------------------
Report ==
  \/ \E r \in Refs : Charge(r) \/ ChargeCommits(r)
  \/ \E l \in Loaders, batch \in (SUBSET Refs) \ {{}} : Load(l, batch)
  \/ \E l \in Loaders, amount \in Reported : LoadCommits(l, amount)
  \/ PeriodEnds \/ Reconcile \/ SweepBegins \/ SweepReaches

Transaction(u) == Insert(u) \/ OnPosted(u) \/ Apply(u) \/ \E v \in Users : Deadlock(u, v)

Next ==
  \/ Report
  \/ \E r \in Refs : Acknowledge(r)
  \/ \E u \in Users, r \in Refs : Resolve(u, r)
  \/ \E u \in Users, r \in Refs, large \in BOOLEAN : Propose(u, r, large)
  \/ \E u \in Users, a \in Adjs : Approve(u, a)
  \/ \E a \in Adjs : Reject(a)
  \/ \E u \in Users : Transaction(u)

\* The steps of an open transaction are taken by PostgreSQL and the request
\* that runs it; nobody has to propose, approve or reconcile.
Fairness == \A u \in Users : WF_vars(Transaction(u))

Spec == Init /\ [][Next]_vars /\ Fairness

-----------------------------------------------------------------------------
\* Every line that addLines accepted is compared with the ledger when its
\* report is closed, by a person or by the sweep, however the loads and the
\* two closings interleave.  Only a line that committed while the sweep's
\* statement was already reading can be left without an entry.
LinesAreClassified ==
  report # "open" =>
    \A r \in Refs : lines[r] # 0 =>
      \/ report = "swept" /\ r \in overtaken
      \/ /\ entry[r] \in {"matched", "amount_mismatch", "missing_in_ledger"}
         /\ entry[r] = "matched" => lines[r] = Charged /\ attempt[r] = "succeeded"

\* The books carry the decisions and nothing else: each applied adjustment is
\* posted once, a rejected or undecided one never, a case has at most one, and
\* a large one was approved by another person than its proposer, whatever
\* races between two approvals, a rejection and a resolution of the case.
BooksMatchDecisions ==
  LET applied == {a \in Adjs : adj[a].status = "applied"}
  IN /\ journal = applied
     /\ balance[Platform("recon.differences")] = Cardinality(applied) * Charged
     /\ \A a \in applied : adj[a].large => adj[a].approver # adj[a].proposer
     /\ \A a, b \in applied : adj[a].ref = adj[b].ref => a = b
     /\ \A a \in applied : cases[adj[a].ref].status = "resolved"

\* A proposal and an approval always end: neither the locks they take in
\* opposite orders (case, then adjustment; adjustment, then case) nor a
\* refused proposal leaves the case or the adjustment held.
DecisionsEnd == []<>(\A u \in Users : op[u] = Idle)
=============================================================================
