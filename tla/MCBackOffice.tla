----------------------------- MODULE MCBackOffice -----------------------------
(***************************************************************************)
(* The machines behind the ledger, one per behaviour: the engine that       *)
(* posts (PostingEngine), the hash chain over what was posted (LedgerChain),*)
(* the reconciliation of what the providers report (Reconciliation) and the *)
(* processes that drive them (Lifecycle).  The chain reads what the engine  *)
(* has committed and the reconciliation posts through it, each only as its  *)
(* own module says, and the exit of a process is to each a transaction      *)
(* that is lost, so that nothing is lost by not interleaving them.          *)
(***************************************************************************)
EXTENDS MCPostingEngine

CONSTANTS
  Txs, MaxEntries, Sealers, MaxFaults, NoCandidate, BeltHolds,
  Refs, Users, Loaders, Adjs, MaxCalls,
  Size, JobsEnabled

VARIABLES
  machine,
  state, xid, entries, nextXid, xmax, nextSeq, candidate, aged, chain, anchors,
  sealer, run, faults,
  books, decisions, period, attempt, report, lines, loader, sweep, overtaken,
  entry, cases, adj, op, calls,
  enabled, life, signalled, ending, timer, stopped, use, doing

Chain == INSTANCE LedgerChain WITH at <- sealer
Reports == INSTANCE Reconciliation WITH
  balance <- books, journal <- decisions, OpeningBalance <- [a \in Accounts |-> 0]
Process == INSTANCE Lifecycle WITH step <- use, at <- doing

chainVars == <<state, xid, entries, nextXid, xmax, nextSeq, candidate, aged, chain,
               anchors, sealer, run, faults>>
reportVars == <<books, decisions, period, attempt, report, lines, loader, sweep,
                overtaken, entry, cases, adj, op, calls>>
processVars == <<enabled, life, signalled, ending, timer, stopped, use, doing>>
officeVars == <<machine, vars, chainVars, reportVars, processVars>>

OfficeInit ==
  /\ machine \in {"engine", "chain", "reports", "process"}
  /\ Init
  /\ machine # "engine" => call = CHOOSE f \in Calls : TRUE
  /\ Chain!Init
  /\ Reports!Init
  /\ Process!Init
  /\ machine # "process" => enabled \subseteq {"checkpointer", "reconciliation"}

OfficeNext ==
  \/ machine = "engine" /\ Next /\ UNCHANGED <<machine, chainVars, reportVars, processVars>>
  \/ machine = "chain" /\ Chain!Next /\ UNCHANGED <<machine, vars, reportVars, processVars>>
  \/ machine = "reports" /\ Reports!Next
       /\ UNCHANGED <<machine, vars, chainVars, processVars>>
  \/ machine = "process" /\ Process!Next
       /\ UNCHANGED <<machine, vars, chainVars, reportVars>>

OfficeSpec ==
  /\ OfficeInit /\ [][OfficeNext]_officeVars
  /\ \/ machine = "engine" /\ Fairness
     \/ machine = "chain" /\ Chain!Fairness
     \/ machine = "reports" /\ Reports!Fairness
     \/ machine = "process" /\ Process!Fairness

LinesAreClassified == Reports!LinesAreClassified
BooksMatchDecisions == Reports!BooksMatchDecisions
ChainVerifies == Chain!ChainVerifies
EntriesAreAnchored == machine = "chain" => Chain!EntriesAreAnchored

\* Nobody waits forever: a posting is answered, a decision on an adjustment ends,
\* and so does a process after its signal.
EveryCallEnds ==
  /\ machine = "engine" => AllAnswered
  /\ machine = "reports" => Reports!DecisionsEnd
  /\ machine = "process" => Process!SignalEnds

\* A process ends between statements, answers what it has accepted, and starts
\* nothing that was stopped.
StopsCleanly ==
  /\ [](Process!ExitIsClean /\ Process!RequestsAreServed)
  /\ Process!StoppedStays
=============================================================================
