----------------------------- MODULE MCTxQueue -----------------------------
(***************************************************************************)
(* TxQueue with one intent of each kind the queue tells apart.             *)
(***************************************************************************)
EXTENDS TxQueue

Plain == [mark |-> NoMark, reserve |-> 0, feeOnly |-> FALSE, forcePow |-> FALSE,
          handoff |-> FALSE, entry |-> "bound"]

subscribe == [Plain EXCEPT !.mark = "subscribe", !.reserve = 1, !.feeOnly = TRUE,
                           !.entry = "checked"]
award == [Plain EXCEPT !.reserve = 1, !.feeOnly = TRUE]
block_post == [Plain EXCEPT !.mark = "block", !.entry = "raw"]
report == [Plain EXCEPT !.forcePow = TRUE]
create_user == [Plain EXCEPT !.handoff = TRUE, !.entry = "checked"]

MCIntents == {subscribe, award, block_post, report, create_user}

\* Of two live entries one is a subscription, or both block the same post: the
\* other pairs meet in the queue in the same ways and are left out.
TellingPairs ==
    \A t, u \in Txs : t # u /\ Live(tx.entry[t]) /\ Live(tx.entry[u]) =>
        LET pair == {tx.entry[t].intent, tx.entry[u].intent}
        IN  subscribe \in pair \/ pair = {block_post}
=============================================================================
