---------------------------- MODULE LedgerChain ----------------------------
(***************************************************************************)
(* The hash chain over ledger_entries: seal_ledger_checkpoints (0042) and   *)
(* anchor_ledger_chain (0043), run by the jobs of several worker processes  *)
(* while postings commit in another order than that of their sequence       *)
(* numbers.  A hash stands for exactly what was hashed: a segment's hash is *)
(* the set of its entries, a chain hash the sequence of its segments.       *)
(***************************************************************************)
EXTENDS Integers, SequencesExt

CONSTANTS
  Txs,          \* ledger transactions
  MaxEntries,   \* bound: entries of a transaction
  Sealers,      \* runs of the checkpointer, one per worker process
  MaxFaults,    \* bound: runs that die and restores into a new cluster
  NoCandidate,  \* ledger_checkpoint_candidates is empty
  BeltHolds     \* TRUE: what a horizon does not cover ends within min_candidate_age

VARIABLES
  state,      \* each transaction: "new", "open", "committed" or "gone"
  xid,        \* its transaction id while it is open
  entries,    \* sequence numbers of its entries, taken when they are inserted
  nextXid,    \* next transaction id of the cluster
  xmax,       \* highest completed transaction id + 1: pg_snapshot_xmax
  nextSeq,    \* next value of the sequence of ledger_entries
  candidate,  \* upto and horizon of the next segment
  aged,       \* the candidate is at least min_candidate_age old
  chain,      \* ledger_checkpoints in the order of their insertion
  anchors,    \* ledger_chain_anchors
  at,         \* how far each sealer is
  run,        \* what its transaction has read and will write
  faults      \* faults so far

postingVars == <<state, xid, entries, nextSeq>>
idVars == <<nextXid, xmax>>
sealVars == <<candidate, aged, chain>>
runVars == <<at, run>>
vars == <<postingVars, idVars, sealVars, anchors, runVars, faults>>

Init ==
  /\ state = [t \in Txs |-> "new"]
  /\ xid = [t \in Txs |-> 0]
  /\ entries = [t \in Txs |-> {}]
  /\ nextXid = 1
  /\ xmax = 1
  /\ nextSeq = 1
  /\ candidate = NoCandidate
  /\ aged = FALSE
  /\ chain = <<>>
  /\ anchors = <<>>
  /\ at = [s \in Sealers |-> "idle"]
  /\ run = [s \in Sealers |-> <<>>]
  /\ faults = 0

-----------------------------------------------------------------------------
\* xmax after the transaction with this id has committed or rolled back.
Completed(id) == IF id >= xmax THEN id + 1 ELSE xmax

\* postOnce inserts its header, then its entries, and commits or rolls back.
Begin(t) ==
  /\ state[t] = "new"
  /\ state' = [state EXCEPT ![t] = "open"]
  /\ xid' = [xid EXCEPT ![t] = nextXid]
  /\ nextXid' = nextXid + 1
  /\ UNCHANGED <<entries, xmax, nextSeq, sealVars, anchors, runVars, faults>>

InsertEntry(t) ==
  /\ state[t] = "open"
  /\ Cardinality(entries[t]) < MaxEntries
  /\ entries' = [entries EXCEPT ![t] = @ \cup {nextSeq}]
  /\ nextSeq' = nextSeq + 1
  /\ UNCHANGED <<state, xid, idVars, sealVars, anchors, runVars, faults>>

End(t) ==
  /\ state[t] = "open"
  /\ \/ entries[t] # {} /\ state' = [state EXCEPT ![t] = "committed"]
     \/ state' = [state EXCEPT ![t] = "gone"]
  /\ xid' = [xid EXCEPT ![t] = 0]
  /\ xmax' = Completed(xid[t])
  /\ UNCHANGED <<entries, nextXid, nextSeq, sealVars, anchors, runVars, faults>>

Visible == UNION {entries[t] : t \in {u \in Txs : state[u] = "committed"}}

Open == {t \in Txs : state[t] = "open"}

\* pg_snapshot_xmin: every transaction before it has ended.  It is at most
\* xmax, so that a transaction with an id from xmax on does not lower it.
Xmin == Min({xmax} \cup {xid[t] : t \in Open})

-----------------------------------------------------------------------------
Tip(c) == IF c = <<>> THEN 0 ELSE Last(c).upto

\* What chain_hash commits to: the segments up to and with this one.
HashOf(prev, upto, segment) == Append(prev, [upto |-> upto, segment |-> segment])

HeadHash(c) == IF c = <<>> THEN <<>> ELSE Last(c).hash

\* Bug: runs of two workers overlap.
EnterFreely(s) ==
  /\ at[s] = "idle"
  /\ at' = [at EXCEPT ![s] = "entered"]
  /\ run' = [run EXCEPT ![s] = [upto |-> Tip(chain), hash |-> HeadHash(chain)]]
  /\ UNCHANGED <<postingVars, idVars, sealVars, anchors, faults>>

\* A run takes the advisory lock and reads the head of the chain ...
Enter(s) ==
  /\ at[s] = "idle"
  /\ \A u \in Sealers : at[u] = "idle"
  /\ at' = [at EXCEPT ![s] = "entered"]
  /\ run' = [run EXCEPT ![s] = [upto |-> Tip(chain), hash |-> HeadHash(chain)]]
  /\ UNCHANGED <<postingVars, idVars, sealVars, anchors, faults>>

\* Bug: no candidate is ever given up.
UselessNever(upto) == FALSE

\* A candidate is useless when it is sealed already or of another cluster.
Useless(upto) == candidate.upto <= upto \/ candidate.horizon > xmax

\* Bug: age alone makes a candidate final.
FinalByAge == aged

\* Every transaction with an id before its horizon has ended.
Final == Xmin >= candidate.horizon /\ aged

\* ... looks at the candidate: nothing to do, drop it, or hash its segment; the
\* transaction takes an id when it first writes, here or when it registers ...
Examine(s) ==
  /\ at[s] = "entered"
  /\ at' = [at EXCEPT ![s] = "examined"]
  /\ LET r == run[s]
         segment == {n \in Visible : r.upto < n /\ n <= candidate.upto}
         sealed == [prev |-> r.hash, upto |-> candidate.upto, segment |-> segment,
                    hash |-> HashOf(r.hash, candidate.upto, segment)]
         plan == CASE candidate = NoCandidate -> [drop |-> FALSE, new |-> <<>>]
                   [] candidate # NoCandidate /\ Useless(r.upto) -> [drop |-> TRUE, new |-> <<>>]
                   [] candidate # NoCandidate /\ ~Useless(r.upto) /\ Final ->
                        [drop |-> TRUE, new |-> <<sealed>>]
                   [] OTHER -> [drop |-> FALSE, new |-> <<>>]
     IN run' = [run EXCEPT ![s] =
                  [drop |-> plan.drop, new |-> plan.new,
                   xid |-> IF plan.drop THEN nextXid ELSE 0,
                   upto |-> IF plan.new = <<>> THEN r.upto ELSE candidate.upto]]
        /\ nextXid' = IF plan.drop THEN nextXid + 1 ELSE nextXid
  /\ UNCHANGED <<postingVars, xmax, sealVars, anchors, faults>>

\* ... reads the highest entry for the next candidate ...
ReadHighest(s) ==
  /\ at[s] = "examined"
  /\ at' = [at EXCEPT ![s] = "read"]
  /\ run' = [run EXCEPT ![s] = [drop |-> @.drop, new |-> @.new, xid |-> @.xid,
                                upto |-> @.upto, highest |-> Max(Visible \cup {0})]]
  /\ UNCHANGED <<postingVars, idVars, sealVars, anchors, faults>>

\* ... and then the horizon, in a later snapshot, and commits.  upto_seq is
\* unique: a second checkpoint up to the same entry aborts the run.
Leave(s) ==
  LET r == run[s]
      duplicate == r.new # <<>> /\ \E i \in DOMAIN chain : chain[i].upto = r.new[1].upto
      left == IF r.drop THEN NoCandidate ELSE candidate
      registers == ~duplicate /\ left = NoCandidate /\ r.highest > r.upto
      writer == IF r.drop THEN r.xid ELSE nextXid
  IN
  /\ at[s] = "read"
  /\ at' = [at EXCEPT ![s] = "idle"]
  /\ run' = [run EXCEPT ![s] = <<>>]
  /\ IF duplicate
       THEN UNCHANGED sealVars
       ELSE /\ chain' = chain \o r.new
            /\ IF registers
                 THEN candidate' = [upto |-> r.highest, horizon |-> xmax] /\ aged' = FALSE
                 ELSE candidate' = left /\ aged' = (aged /\ left # NoCandidate)
  /\ nextXid' = IF registers /\ ~r.drop THEN nextXid + 1 ELSE nextXid
  /\ xmax' = IF r.drop \/ registers THEN Completed(writer) ELSE xmax
  /\ UNCHANGED <<postingVars, anchors, faults>>

\* The run dies and is rolled back.
DieSealing(s) ==
  /\ at[s] # "idle"
  /\ faults < MaxFaults
  /\ faults' = faults + 1
  /\ at' = [at EXCEPT ![s] = "idle"]
  /\ run' = [run EXCEPT ![s] = <<>>]
  /\ xmax' = IF at[s] # "entered" /\ run[s].drop THEN Completed(run[s].xid) ELSE xmax
  /\ UNCHANGED <<postingVars, nextXid, sealVars, anchors>>

\* Open postings with an entry in the candidate's range that its horizon does
\* not cover: their ids were taken before, but are past the highest completed.
Uncovered ==
  {t \in Open : xid[t] >= candidate.horizon /\ \E n \in entries[t] : n <= candidate.upto}

\* min_candidate_age passes.  It alone keeps the uncovered postings out, and
\* no timeout of theirs bounds a whole transaction: BeltHolds assumes it.
Age ==
  /\ candidate # NoCandidate
  /\ ~aged
  /\ BeltHolds => Uncovered = {}
  /\ aged' = TRUE
  /\ UNCHANGED <<postingVars, idVars, candidate, chain, anchors, runVars, faults>>

\* anchor_ledger_chain, under a lock of its own.
Anchor ==
  /\ Tip(chain) > Tip(anchors)
  /\ anchors' = Append(anchors, [upto |-> Tip(chain), hash |-> HeadHash(chain)])
  /\ nextXid' = nextXid + 1
  /\ xmax' = Completed(nextXid)
  /\ UNCHANGED <<postingVars, sealVars, runVars, faults>>

\* A dump is restored into a cluster whose transaction ids start again.
Restore ==
  /\ faults < MaxFaults
  /\ faults' = faults + 1
  /\ state' = [t \in Txs |-> IF state[t] = "open" THEN "gone" ELSE state[t]]
  /\ xid' = [t \in Txs |-> 0]
  /\ nextXid' = 1
  /\ xmax' = 1
  /\ at' = [s \in Sealers |-> "idle"]
  /\ run' = [s \in Sealers |-> <<>>]
  /\ UNCHANGED <<entries, nextSeq, sealVars, anchors>>

Seal(s) == Enter(s) \/ Examine(s) \/ ReadHighest(s) \/ Leave(s)

Next ==
  \/ \E t \in Txs : Begin(t) \/ InsertEntry(t) \/ End(t)
  \/ \E s \in Sealers : Seal(s) \/ DieSealing(s)
  \/ Age \/ Anchor \/ Restore

\* Transactions end, and the jobs' intervals come round.
Fairness ==
  /\ \A t \in Txs : WF_vars(End(t))
  /\ \A s \in Sealers : WF_vars(Seal(s))
  /\ WF_vars(Age)
  /\ WF_vars(Anchor)

Spec == Init /\ [][Next]_vars

FairSpec == Spec /\ Fairness

-----------------------------------------------------------------------------
\* Checks [7] and [8] of scripts/verify-ledger-invariants.sql never cry wolf:
\* each checkpoint follows the one before it and its segment is what is
\* committed in its range now, also what commits late and out of order; and
\* each anchor is the hash of a checkpoint of the chain.  (0042:18-26 says that
\* the horizon alone makes this so; it takes BeltHolds.)
ChainVerifies ==
  /\ \A i \in DOMAIN chain :
       LET before == SubSeq(chain, 1, i - 1) IN
       /\ chain[i].prev = HeadHash(before)
       /\ Tip(before) < chain[i].upto
       /\ chain[i].segment = {n \in Visible : Tip(before) < n /\ n <= chain[i].upto}
  /\ \A j \in DOMAIN anchors :
       \E i \in DOMAIN chain :
         chain[i].upto = anchors[j].upto /\ chain[i].hash = anchors[j].hash

\* Every committed entry is covered by the chain and by an anchor in the end,
\* also after a restore into a cluster that will not reach an old horizon.
EntriesAreAnchored == []<>(\A n \in Visible : n <= Tip(anchors))
=============================================================================
