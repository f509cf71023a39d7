------------------------------ MODULE Program ------------------------------
(***************************************************************************)
(* The command-line program: it reads the rows of a CSV file, converts     *)
(* their amounts, calls the ledger for each and awaits the answer, and     *)
(* writes a record for every account at the end.  It is the only caller of *)
(* its ledger.                                                             *)
(***************************************************************************)
EXTENDS Balances, Amounts

CONSTANT Files      \* the input files, as sequences of rows

\* A row; one that does not parse is a row of a type of its own.  A decimal has
\* one place more than an amount, and is given without its point.
CsvEntry ==
    [typ : {"deposit", "withdrawal", "dispute", "resolve", "chargeback", "unparsable"},
     client : Id, tx : UserRef, amount : SUBSET Int]

\* The amounts of a row, as Options.
Converted(row) == UNION {FromF64(Parsed(d)) : d \in row.amount}

ASSUME OneCaller == Cardinality(Client) = 1

ASSUME FilesAreRows ==
    \A f \in Files : /\ f \in Seq(CsvEntry)
                     /\ \A i \in DOMAIN f : \A d, e \in f[i].amount : d = e

\* The amounts the program calls the ledger with.
ASSUME CallsWithAmounts == \A f \in Files : \A i \in DOMAIN f : Converted(f[i]) \subseteq Amount

\* A client is a u16, and a reference the text of a u32.
ASSUME ClientIsNumber == Id \subseteq Nat
ASSUME ReferenceIsNumber == \A r \in UserRef : Head(r) \notin Tags

VARIABLES
    file,       \* the input
    line,       \* the next row
    at,         \* "rows", "call", "report", "balances", "done" or "panicked"
    output      \* the records written

programVars == <<log, call, reader, file, line, at, output>>

Caller == CHOOSE c \in Client : TRUE

Row == file[line]

\* What follows once the call has got as far as it has.
After ==
    CASE call'[Caller].at # "idle" -> "call"
      [] call'[Caller].at = "idle" ->
            IF call'[Caller].outcome = "Panic" THEN "panicked" ELSE "rows"

ProgramInit ==
    /\ ReadInit
    /\ file \in Files /\ line = 1
    /\ at = "rows" /\ output = <<>>

-----------------------------------------------------------------------------
(* The rows.                                                                *)

IsUnreadable(row) ==
    row.typ = "unparsable" \/ (row.amount # None /\ Converted(row) = None)

LacksAmount(row) == row.typ \in {"deposit", "withdrawal"} /\ row.amount = None

\* Mutant of SkipRow: the row is not left behind.
SkipRowAgain ==
    /\ at = "rows" /\ line <= Len(file) /\ IsUnreadable(Row)
    /\ UNCHANGED programVars

\* A row that does not parse, or an amount that does not convert.
SkipRow ==
    /\ at = "rows" /\ line <= Len(file) /\ IsUnreadable(Row)
    /\ line' = line + 1
    /\ UNCHANGED <<log, call, reader, file, at, output>>

\* Mutant of MissingAmount: the amount is zero.
MissingAmountIsZero ==
    /\ at = "rows" /\ line <= Len(file) /\ ~IsUnreadable(Row) /\ LacksAmount(Row)
    /\ line' = line + 1
    /\ IF Row.typ = "deposit" THEN Deposit(Caller, Row.client, Row.tx, 0)
       ELSE Withdraw(Caller, Row.client, Row.tx, 0)
    /\ at' = After
    /\ UNCHANGED <<reader, file, output>>

\* expect("missing amount")
MissingAmount ==
    /\ at = "rows" /\ line <= Len(file) /\ ~IsUnreadable(Row) /\ LacksAmount(Row)
    /\ line' = line + 1
    /\ at' = "panicked"
    /\ UNCHANGED <<log, call, reader, file, output>>

CallLedger ==
    /\ at = "rows" /\ line <= Len(file) /\ ~IsUnreadable(Row) /\ ~LacksAmount(Row)
    /\ line' = line + 1
    /\ \/ \E m \in Converted(Row) :
            \/ Row.typ = "deposit" /\ Deposit(Caller, Row.client, Row.tx, m)
            \/ Row.typ = "withdrawal" /\ Withdraw(Caller, Row.client, Row.tx, m)
       \/ Row.typ = "dispute" /\ Dispute(Caller, Row.client, Row.tx)
       \/ Row.typ = "resolve" /\ Resolve(Caller, Row.client, Row.tx)
       \/ Row.typ = "chargeback" /\ Chargeback(Caller, Row.client, Row.tx)
    /\ at' = After
    /\ UNCHANGED <<reader, file, output>>

\* Mutant of AwaitLedger: a row whose call fails is read again.
AwaitLedgerRetries ==
    /\ at = "call"
    /\ Continue(Caller)
    /\ at' = After
    /\ line' = IF at' = "rows" /\ call'[Caller].outcome # "Ok" THEN line - 1 ELSE line
    /\ UNCHANGED <<reader, file, output>>

\* An error of the ledger is printed, and the next row is read.
AwaitLedger ==
    /\ at = "call"
    /\ Continue(Caller)
    /\ at' = After
    /\ UNCHANGED <<reader, file, line, output>>

EndOfFile ==
    /\ at = "rows" /\ line > Len(file)
    /\ at' = "report"
    /\ UNCHANGED <<log, call, reader, file, line, output>>

-----------------------------------------------------------------------------
(* The report.                                                              *)

\* The accounts get_accounts lists: AccountStreams says in which order.
Accounts == {Owner(OutputAt(log, p).account) : p \in Places(log)}

Listed == {output[k].client : k \in DOMAIN output}

NextAccount ==
    /\ at = "report"
    /\ \E a \in Accounts \ Listed :
          /\ \A b \in Accounts \ Listed : a <= b
          /\ ReadMain(a)
    /\ at' = "balances"
    /\ UNCHANGED <<log, call, file, line, output>>

ReadNextBalance ==
    /\ at = "balances"
    /\ ReadDisputed
    /\ UNCHANGED <<log, call, file, line, at, output>>

\* Mutant of WriteRecord: an account is locked by a dispute.
WriteRecordLockedByDispute ==
    /\ at = "balances"
    /\ ReadChargeback
    /\ \E b \in reader'.report :
          output' = Append(output,
              [client |-> b.account, available |-> ToF64(b.available), held |-> ToF64(b.disputed),
               total |-> ToF64(b.total), locked |-> b.disputed > 0])
    /\ at' = "report"
    /\ UNCHANGED <<log, call, file, line>>

WriteRecord ==
    /\ at = "balances"
    /\ ReadChargeback
    /\ \E b \in reader'.report :
          output' = Append(output,
              [client |-> b.account, available |-> ToF64(b.available), held |-> ToF64(b.disputed),
               total |-> ToF64(b.total), locked |-> b.chargeback > 0])
    /\ at' = "report"
    /\ UNCHANGED <<log, call, file, line>>

Finish ==
    /\ at = "report" /\ Accounts \subseteq Listed
    /\ at' = "done"
    /\ UNCHANGED <<log, call, reader, file, line, output>>

-----------------------------------------------------------------------------

HasEnded == at \in {"done", "panicked"}

Step ==
    \/ SkipRow \/ MissingAmount \/ CallLedger \/ AwaitLedger \/ EndOfFile
    \/ NextAccount \/ ReadNextBalance \/ WriteRecord \/ Finish

\* The process is over.
Ended == HasEnded /\ UNCHANGED programVars

ProgramNext == Step \/ Ended

\* The executor runs the one task there is.
ProgramSpec == ProgramInit /\ [][ProgramNext]_programVars /\ WF_programVars(Step)

-----------------------------------------------------------------------------
(* Properties.                                                              *)

\* The deposit rows read so far that count: those the ledger has to accept, the
\* first of each client and number.
Counted(a) ==
    LET Deposits == {i \in 1..line - 1 : /\ file[i].typ = "deposit" /\ file[i].client = a
                                         /\ ~IsUnreadable(file[i]) /\ ~LacksAmount(file[i])}
    IN  {i \in Deposits : \A j \in Deposits : file[j].tx = file[i].tx => i <= j}

\* The withdrawals of a negative amount: no balance falls short of it, and the
\* exchange before it credits the account, even one that has nothing.
NegativeWithdrawals(a) ==
    {i \in 1..line - 1 : /\ file[i].typ = "withdrawal" /\ file[i].client = a
                         /\ ~IsUnreadable(file[i]) /\ ~LacksAmount(file[i])
                         /\ \E m \in Converted(file[i]) : m < 0}

\* Whatever rows come before and between, fail or are refused, each deposit of
\* the file is booked once, and nothing else is.
FileIsBooked ==
    at # "call" =>
        \A a \in Id :
            Deposited(a) = MapThenSumSet(LAMBDA i : CHOOSE m \in Converted(file[i]) : TRUE, Counted(a))

\* The report has one record, in order, for each account that a row has opened.
\* It tells the balances as they are when all is read, and what it says explains
\* the deposits and withdrawals of the whole file.
ReportIsExact ==
    at = "done" =>
        /\ Listed = {a \in Id : Counted(a) # {} \/ NegativeWithdrawals(a) # {}}
        /\ \A j, k \in DOMAIN output : j < k => output[j].client < output[k].client
        /\ \A k \in DOMAIN output :
              LET a == output[k].client
                  charged == Balance(log, ChargebackOf(a))
              IN  /\ output[k].available = ToF64(Balance(log, MainOf(a)))
                  /\ output[k].held = ToF64(Balance(log, DisputedOf(a)))
                  /\ output[k].total = ToF64(Deposited(a) - Withdrawn(a) - charged)
                  /\ output[k].locked <=> charged > 0

\* The program stops without its report for two reasons only: a deposit or a
\* withdrawal without an amount, and the dispute of a deposit that the main
\* balance does not cover.
PanicsAreExplained ==
    at = "panicked" =>
        LET row == file[line - 1]
        IN  /\ output = <<>>
            /\ \/ LacksAmount(row)
               \/ /\ row.typ = "dispute"
                  /\ \E i \in Found(log, MainOf(row.client), row.tx) :
                        Balance(log, MainOf(row.client)) < log[i].to[1].amount

\* What a decimal may become, without its sign: its value, truncated, and one
\* unit less if it has no more places than an amount.
Truncated(d) ==
    LET exact == Magnitude(d) \div 10
    IN  {m \in {exact, exact - 1} : m >= 0 /\ (m = exact \/ Magnitude(d) % 10 = 0)}

\* A decimal well within the mantissa becomes its value, truncated, or one unit
\* less when the nearest float is below it; that takes a decimal that has nothing
\* to truncate.  It never becomes more, and never changes its sign.
AmountsAreKept ==
    line <= Len(file) /\ Row.typ # "unparsable" =>
        \A d \in Row.amount : Magnitude(d) <= 10 * TwoTo[MantissaBits - 4] =>
            \E m \in Truncated(d) : Converted(Row) = Some(Signed(d, m))

\* What truncation and the roundings of a float, each by a part in 2^MantissaBits
\* at most, may take from a decimal or add to it.
Slack(d) == 10 + Magnitude(d) \div TwoTo[MantissaBits - 2]

\* A decimal about the limits of an amount, up to half as much again, is refused
\* only if it is past one of them but for the roundings; what is accepted, the
\* value saturated at a limit too, is off the decimal by no more than these.
LimitsAreKept ==
    line <= Len(file) /\ Row.typ # "unparsable" =>
        \A d \in Row.amount : Magnitude(d) <= 15 * MaxInt =>
            /\ \A m \in Converted(Row) : Magnitude(10 * m - d) <= Slack(d)
            /\ Converted(Row) = None => 10 * MaxInt <= Magnitude(d) + Slack(d)

\* What a row says, truncated, of an amount that is not negative.
ValueOf(row) == {d \div 10 : d \in row.amount}

\* What a client deposits by the file.
ByTheFile(a) == MapThenSumSet(LAMBDA i : CHOOSE v \in ValueOf(file[i]) : TRUE, Counted(a))

\* The rows that have nothing to truncate.
Whole(rows) == {i \in rows : \A d \in file[i].amount : d % 10 = 0}

\* A client is never credited more than the file says, and loses a unit at most
\* for each deposit of a whole amount: the conversions of the rows add up to no
\* more than that, and nothing else comes between the file and the books.
BooksFollowFile ==
    at # "call" =>
        \A a \in Id :
            (\A i \in Counted(a) : \A d \in file[i].amount : d \in 0..(10 * TwoTo[MantissaBits - 4])) =>
                Deposited(a) \in ByTheFile(a) - Cardinality(Whole(Counted(a))) .. ByTheFile(a)

\* The rows are read, then the report is written, then the process is over.
Phase ==
    CASE at \in {"rows", "call"} -> 2
      [] at \in {"report", "balances"} -> 1
      [] OTHER -> 0

\* The awaits that the call in progress has left, at most.
AwaitsLeft ==
    CASE call[Caller].at = "select" -> 2
      [] call[Caller].at = "store" -> Len(call[Caller].todo)
      [] OTHER -> 0

\* The balances of the record in progress that have been read.
BalancesRead ==
    CASE reader.at = "disputed" -> 1
      [] reader.at = "chargeback" -> 2
      [] OTHER -> 0

\* What is left of a phase: a row is three steps at most, and so is a record.
StepsLeft ==
    CASE Phase = 2 -> 3 * (Len(file) + 1 - line) + AwaitsLeft
      [] Phase = 1 -> 3 * Cardinality(Accounts \ Listed) - BalancesRead
      [] OTHER -> 0

\* No row is read again, whatever becomes of it, and no account is reported
\* again: each step takes from what is left of its phase, or ends the phase.
StepsRunOut ==
    [][Step => Phase' < Phase \/ (Phase' = Phase /\ StepsLeft' \in 0..(StepsLeft - 1))]_programVars

\* The program ends, whatever the file.
Terminates == <>HasEnded
=============================================================================
