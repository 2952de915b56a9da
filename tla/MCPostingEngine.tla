--------------------------- MODULE MCPostingEngine ---------------------------
(***************************************************************************)
(* Instances of PostingEngine: an emission, its retry by another process,   *)
(* a settlement of it over a common account, and reversals that race.       *)
(***************************************************************************)
EXTENDS PostingEngine

CONSTANTS m1, c1, c2, c3

MCOpening == [a \in Accounts |-> IF a = Of("merchant.available", m1) THEN 3 ELSE 1]

\* Ids are not in the order of the codes: the account both postings share is
\* the last one of the first and the first one of the second.
MCRank ==
  LET codes == <<"payout.in_transit", "merchant.available", "platform.cash",
                 "provider.clearing", "provider.receivable", "provider.payable",
                 "provider.fees", "platform.fees", "suspense", "recon.differences",
                 "merchant.pending", "merchant.reserve", "refund.liability",
                 "dispute.reserve">>
  IN  [a \in Accounts |-> CHOOSE i \in DOMAIN codes : codes[i] = a[1]]

Ask(key, legs, reverses) == [key |-> key, legs |-> legs, reverses |-> reverses]

MCCalls ==
  LET emit == Ask("emit", EmitPayout(m1, 2), None)
      more == Ask("emit", EmitPayout(m1, 1), None)
      other == Ask("emit2", EmitPayout(m1, 2), None)
      fail == Ask("fail", FailPayout(m1, 1), None)
      undo == Ask("undo", <<>>, "emit")
      undo2 == Ask("undo2", <<>>, "emit")
      undoUndo == Ask("undo3", <<>>, "undo")
  IN  {[c \in Callers |-> CASE c = c1 -> f[1] [] c = c2 -> f[2] [] c = c3 -> f[3]] :
         f \in {<<emit, emit, fail>>, <<emit, more, other>>,
                <<emit, undo, undo2>>, <<emit, undo, undoUndo>>}}

MCAudited == {Platform("payout.in_transit")}
=============================================================================
