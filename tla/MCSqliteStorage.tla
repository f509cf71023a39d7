--------------------------- MODULE MCSqliteStorage ---------------------------
(* An instance of the SQLite backend for TLC. *)
EXTENDS SqliteStorage

Coin(h, pos, m) == [id |-> <<h, pos>>, amount |-> m]

\* Two deposits under one reference, one of them more than the column holds; two
\* transactions that compete for an output; the exchange of a withdrawal, whose
\* outputs go to one sub-account; and inputs with a wrong amount, one of them
\* equal to the right one in the width of the column.
CandidateTxs == {
    Tx(1, <<>>, <<To(MainOf(1), 2)>>, <<"x">>),
    Tx(2, <<>>, <<To(MainOf(1), 5)>>, <<"x">>),
    Tx(3, <<Coin(1, 0, 2)>>, <<To(DisputedOf(1), 1), To(MainOf(1), 1)>>, <<"dispute", "x">>),
    Tx(4, <<Coin(1, 0, 2)>>, <<>>, <<"w">>),
    Tx(5, <<Coin(1, 0, 2)>>, <<To(MainOf(1), 1), To(MainOf(1), 1)>>, <<"Exchange for", "w">>),
    Tx(6, <<Coin(3, 1, 2)>>, <<>>, <<"v">>),
    Tx(7, <<Coin(3, 1, 9)>>, <<>>, <<"u">>)}

CandidateTargets == {None, Some(0), Some(2)}
=============================================================================
