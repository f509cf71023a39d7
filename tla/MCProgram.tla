----------------------------- MODULE MCProgram -----------------------------
(* An instance of the program for TLC: every file of up to three of these     *)
(* rows, of four without the odd ones, and of one deposit around the limits.  *)
EXTENDS Program

TwoRefs == {<<"x">>, <<"y">>}

\* All that an amount can be.
AllAmounts == MinInt..MaxInt

R(typ, client, tx, amount) ==
    [typ |-> typ, client |-> client, tx |-> tx, amount |-> amount]

\* With a mantissa of eight bits 0.07 is six units, as 0.0003 is two with 53.
Rows ==
    {R("deposit", 1, <<"x">>, Some(70)), R("deposit", 1, <<"y">>, Some(20)),
     R("deposit", 2, <<"x">>, Some(70)), R("deposit", 1, <<"x">>, None),
     R("withdrawal", 1, <<"y">>, Some(20)),
     R("dispute", 1, <<"x">>, None), R("resolve", 1, <<"x">>, None),
     R("chargeback", 1, <<"x">>, None)}

\* One that does not parse, and one that withdraws less than nothing.
OddRows == {R("unparsable", 1, <<"x">>, None), R("withdrawal", 2, <<"y">>, Some(-20))}

\* Up to 0.3 by thousandths, around the largest and the least amount, and past
\* them.
Magnitudes == 0..300 \cup 5080..5160 \cup {5800, 7600}

Decimals == Magnitudes \cup {-d : d \in Magnitudes}

Deposits == {<<R("deposit", 1, <<"x">>, Some(d))>> : d \in Decimals}

AllFiles ==
    Deposits \cup [1..4 -> Rows] \cup UNION {[1..n -> Rows \cup OddRows] : n \in 0..3}
=============================================================================
