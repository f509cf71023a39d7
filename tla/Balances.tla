------------------------------ MODULE Balances ------------------------------
(***************************************************************************)
(* get_balances beside the operations of Ledger: a reader that sums the    *)
(* three sub-accounts of an account in three separate reads, while the     *)
(* clients go on.                                                          *)
(***************************************************************************)
EXTENDS LedgerProperties

VARIABLE reader     \* what the reader is doing, and the last report

allVars == <<log, call, reader>>

Report == [account : Id, available : Int, disputed : Int, chargeback : Int, total : Int]

\* since is the length of the log at the first read; it is there only to say
\* whether anything was committed before the last one.
ReaderState ==
    [at : {"idle"}, report : SUBSET Report, since : Nat]
        \cup [at : {"disputed"}, account : Id, main : Int, since : Nat]
        \cup [at : {"chargeback"}, account : Id, main : Int, disputed : Int, since : Nat]

ReadMain(a) ==
    /\ reader.at = "idle"
    /\ reader' = [at |-> "disputed", account |-> a, main |-> Balance(log, MainOf(a)),
                  since |-> Len(log)]

\* Mutant of ReadDisputed: it reads the sub-account of the chargebacks.
ReadDisputedWrong ==
    /\ reader.at = "disputed"
    /\ reader' = [at |-> "chargeback", account |-> reader.account, main |-> reader.main,
                  disputed |-> Balance(log, ChargebackOf(reader.account)),
                  since |-> reader.since]

ReadDisputed ==
    /\ reader.at = "disputed"
    /\ reader' = [at |-> "chargeback", account |-> reader.account, main |-> reader.main,
                  disputed |-> Balance(log, DisputedOf(reader.account)),
                  since |-> reader.since]

ReadChargeback ==
    /\ reader.at = "chargeback"
    /\ LET report == [account |-> reader.account,
                      available |-> reader.main, disputed |-> reader.disputed,
                      chargeback |-> Balance(log, ChargebackOf(reader.account)),
                      total |-> reader.main + reader.disputed]
       IN  reader' = [at |-> "idle", report |-> Some(report), since |-> reader.since]

ReadInit == Init /\ reader = [at |-> "idle", report |-> None, since |-> 0]

ReadNext ==
    \/ Next /\ UNCHANGED reader
    \/ UNCHANGED vars /\ ((\E a \in Id : ReadMain(a)) \/ ReadDisputed \/ ReadChargeback)

ReadSpec == ReadInit /\ [][ReadNext]_allVars

-----------------------------------------------------------------------------

ReaderTypeOK == reader \in ReaderState

\* The report of the step that ends a get_balances; none in any other step.
Reported ==
    IF reader.at = "chargeback" /\ reader'.at = "idle" THEN reader'.report ELSE None

\* When nothing is committed between its first and its last read, get_balances
\* reports the balances of that moment, and they add up to what was deposited
\* less what was withdrawn.
UndisturbedReadIsExact ==
    [][\A b \in Reported : reader.since = Len(log) =>
          /\ b.available = Balance(log, MainOf(b.account))
          /\ b.disputed = Balance(log, DisputedOf(b.account))
          /\ b.total + b.chargeback = Deposited(b.account) - Withdrawn(b.account)]_allVars

\* get_balances counts no funds twice: it never reports more than was deposited.
NoDoubleCounting ==
    [][\A b \in Reported :  b.total + b.chargeback <= Deposited(b.account)]_allVars
=============================================================================
