--------------------------- MODULE Transactions ---------------------------
(***************************************************************************)
(* The vocabulary of the ledger: accounts and their sub-accounts,          *)
(* references, unspent outputs and transactions, with the validation done  *)
(* when a transaction is built.                                            *)
(*                                                                         *)
(* A transaction hash is a member of HashId: the SHA-256 digest is taken   *)
(* to be collision free.  Amounts are mathematical integers; the widths of *)
(* the machine integers are not modelled here.                             *)
(***************************************************************************)
EXTENDS Integers, Sequences, FiniteSets, SequencesExt

CONSTANTS
    Id,         \* account numbers
    HashId      \* transaction identifiers

ASSUME HashIdIsNat == HashId \subseteq Nat

Type == {"Main", "Disputed", "Chargeback"}

FullAccount == Id \X Type

MainOf(id) == <<id, "Main">>
DisputedOf(id) == <<id, "Disputed">>
ChargebackOf(id) == <<id, "Chargeback">>

(***************************************************************************)
(* A reference is a string.  What matters about it is which prefixes the   *)
(* code has put before the text the caller gave, so it is the sequence of  *)
(* these parts: format!("dispute:{}", r) is <<"dispute">> \o r.            *)
(***************************************************************************)
Reference == Seq(STRING)

\* The prefixes the code puts before references.
Tags == {"dispute", "resolved", "chargeback", "Exchange for"}

\* True in TLA+, and written down for the provers, which do not know it.
ASSUME TagsAreStrings == Tags \subseteq STRING

Tagged(tag, reference) == <<tag>> \o reference

\* Position pos (from 0) among the outputs of transaction hash.
UtxoId == HashId \X Nat

Utxo == [id : UtxoId, amount : Int]

Output == [account : FullAccount, amount : Int]

Transaction ==
    [id : HashId, from : Seq(Utxo), to : Seq(Output), reference : Reference]

Tx(id, from, to, reference) ==
    [id |-> id, from |-> from, to |-> to, reference |-> reference]

To(account, amount) == [account |-> account, amount |-> amount]

\* Rust's Option: None is the empty set and Some(x) the singleton of x.
None == {}
Some(x) == {x}

\* A recursive function and not a fold, so that it can be proved about.
SumSeq(amounts) ==
    LET sum[n \in 0..Len(amounts)] == IF n = 0 THEN 0 ELSE sum[n - 1] + amounts[n]
    IN  sum[Len(amounts)]

\* The sum of the amounts of a sequence of inputs or of outputs.
Total(items) == SumSeq([k \in DOMAIN items |-> items[k].amount])

\* Whether Transaction::new builds a transaction from these inputs and outputs.
NewVerdict(from, to) ==
    CASE from = <<>> /\ to = <<>> -> "InvalidFrom"
      [] from # <<>> /\ to # <<>> /\ Total(from) # Total(to) -> "Imbalanced"
      [] from # <<>> /\ to # <<>> /\ Total(from) = Total(to) /\ Total(from) <= 0 -> "InvalidFrom"
      [] OTHER -> "Ok"
=============================================================================
