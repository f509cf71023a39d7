-------------------------- MODULE MCMemoryStorage --------------------------
(* An instance of the in-memory backend for TLC. *)
EXTENDS MemoryStorage

Coin(h, pos, m) == [id |-> <<h, pos>>, amount |-> m]

In1 == To(MainOf(1), 1)

\* Deposits, one of them negative and under a reference that another one has;
\* transactions that compete for the same output; a withdrawal; and inputs that
\* do not exist, are spent or have another amount, in either order.
CandidateTxs == {
    Tx(1, <<>>, <<To(MainOf(1), 2)>>, <<"x">>),
    Tx(2, <<>>, <<To(MainOf(1), -1)>>, <<"x">>),
    Tx(3, <<>>, <<To(MainOf(1), 3)>>, <<"y">>),
    Tx(4, <<Coin(1, 0, 2)>>, <<In1, In1>>, <<"Exchange for", "w">>),
    Tx(5, <<Coin(1, 0, 2)>>, <<To(DisputedOf(1), 2)>>, <<"dispute", "x">>),
    Tx(6, <<Coin(4, 0, 1)>>, <<>>, <<"w">>),
    Tx(7, <<Coin(3, 0, 3), Coin(4, 1, 1)>>,
          <<To(DisputedOf(1), 3), In1>>, <<"dispute", "y">>),
    Tx(8, <<Coin(3, 0, 2)>>, <<To(MainOf(1), 2)>>, <<"z">>),
    Tx(9, <<Coin(1, 0, 2), Coin(4, 2, 1)>>, <<To(MainOf(1), 3)>>, <<"v">>),
    Tx(10, <<Coin(4, 1, 1), Coin(3, 0, 2)>>, <<To(ChargebackOf(1), 3)>>, <<"u">>)}

CandidateTargets == {None, Some(-1), Some(0), Some(2), Some(4)}
=============================================================================
