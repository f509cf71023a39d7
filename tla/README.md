# Verification of the ledger

TLA+ models of the `ledger` crate and what is known about them: TLC checks them
on small instances, TLAPS proves the safety properties and the refinements for
every value of the constants. Paths below are relative to `src/`.

The crate keeps accounts as unspent transaction outputs (UTXOs). A deposit
creates an output; a withdrawal consumes outputs and creates none; a dispute
moves outputs from the *main* to the *disputed* sub-account; a resolution moves
them back; a chargeback moves them on to the *chargeback* sub-account. Balances
are never stored: they are sums of unspent outputs.

## 1. Inventory

| Component | Source | State | Operations |
|---|---|---|---|
| Transactions and accounts | `crates/ledger/src/transaction.rs`, `account.rs` | none (values) | `Transaction::new` and its validation, hashing, `FullAccount` and its sub-accounts |
| Storage contract | `crates/ledger/src/storage/mod.rs` | the committed transactions | `get_unspent`, `get_tx_by_reference`, `store_tx`, `get_accounts` |
| In-memory storage | `crates/ledger/src/storage/memory.rs` | five maps behind one `RwLock` | the same |
| SQLite storage | `crates/ledger/src/storage/sqlite.rs` | four tables, one connection behind a `Mutex` | the same; `store_tx` checks first and then writes in a SQL transaction. Behind the feature `sqlite` |
| Ledger operations | `crates/ledger/src/lib.rs` | none of its own; the local variables of each call in flight | `deposit`, `withdraw`, `dispute`, `resolve`, `chargeback`, `movement` (a `todo!()`) |
| Balances | `crates/ledger/src/lib.rs` | the sums read so far | `get_balances` |
| Account streams | `lib.rs`, `memory.rs`, `sqlite.rs` | a cursor (a key, or an SQL OFFSET) | `get_accounts`, `AccountIterator` |
| Amount conversion | `crates/ledger/src/amount.rs` | none | `from_f64`, `to_f64` |
| Command-line program | `src/main.rs` | the ledger it feeds | read CSV rows, call the ledger, print a report |
| Storage test suite | `crates/ledger/src/storage/mod.rs` | - | tests every backend has to pass |

**Interaction.** The program calls the ledger; the ledger calls the storage
through the `Storage` trait and awaits every call. A storage call takes the lock
of the backend for its whole length, so it is atomic (for SQLite, within one process). *Between* two storage
calls a ledger operation holds nothing. It is a reader that remembers what it
read, followed by a writer that assumes it is still true, and `store_tx` is the
only place that finds out.

**What is hard.** Two calls select the same outputs. A withdrawal that needs
change is two transactions, with other clients in between. The lookup of a
dispute and its settlement are separated by an await. References are the only
protection against doing a thing twice, and derived references
(`dispute:r`, `resolved:r`, `chargeback:r`, `Exchange for r`) share a name space
with the callers'. `get_unspent` stops as soon as the target is covered, with
zero and negative outputs about. `get_balances` reads three times. A caller may
drop the future of a call at any await. Nothing in the core retries, times out or
persists; those concerns arise in the SQLite backend, where other processes may
have the file open, a process may stop between two statements, a write waits for a
lock with a timeout, and amounts are narrowed to 64 bits. The account streams
keep a cursor into a table that grows. The program panics on some rows.

**What makes each component correct.** The ledger: no output is spent twice; no
funds appear, vanish or change owner; each commit is a whole operation as far as
balances are concerned; a reference credits an account once; every call ends.
The storage: a transaction is stored whole or not at all, the indexes agree with
it, and the reads answer from what is stored. `get_balances`: what it reports
was true at some moment. The streams: in order, each account once, none left
out, and they end. The program: each row is applied once or skipped, and the
report explains the file.

`PROJECT.json` lists each of these hazards at its line, with the property that
covers it.

## 2. Modules

    Transactions ─┬─ TxLog ─┬─ Storage <·· MemoryStorage      (implements)   MCMemoryStorage
                  │         │          <·· SqliteStorage      (one process)  MCSqliteStorage
                  │         └─ Ledger ── LedgerProperties ─┬─ BookView ─────── MCLedger
                  │                                        └─ Balances ─────── MCBalances
                  │                        AccountBook <·· BookView                 │
                  ├─ Amounts ──────────────────────── Program (with Balances) ── MCProgram
                  └─ AccountStreams ··> AccountListing        (implements)   MCAccountStreams

**`Transactions`** is the vocabulary: accounts, references, outputs,
transactions and the verdict of `Transaction::new`. A hash is a number of
`HashId`, never used twice (SHA-256 is taken to be collision free). A reference is
the sequence of the parts the code puts together: `format!("dispute:{}", r)` is
`<<"dispute">> \o r`. That is what the conversion does as long as a caller's
text contains no separator; where it does, the run `sequential` uses a caller's
reference that *is* the derived one.

**`TxLog`** says what a log of committed transactions means: which outputs are
unspent, what `get_unspent`, `get_tx_by_reference` and `store_tx` answer. An
output is a *place* `<<i, k>>` of the log, and its name is hash and position, as in the
code. `get_unspent` is defined without a loop: the smallest scan, in the order of
the backend, that covers the target, or everything. It visits newest first in
memory and oldest first in SQLite (`NewestFirst`).

**`Storage`** is the abstract specification of a backend: each call is one step
on the log. **`MemoryStorage`** is a detailed one: the five maps,
the checks of `store_tx` in the order of the code, its writes, and the loop of
`get_unspent` (`Scan`, a recursive function, as the loop of the other backend). It carries the log as an auxiliary variable, and `ImplementsStorage`
says that it is a `Storage`.

**`SqliteStorage`** is the other. A call of `store_tx` is a sequence of questions and
then of statements, one step each: the `SELECT` for the hash, for each
output's reference, for each input; then, inside an SQL transaction, the `INSERT`
of the transaction, an `UPDATE` for each input, three `INSERT`s for each output,
and the commit. How far it is, is a position in these loops: the table the question
or statement is about, and the number of the input or output (`NextQuestion`, `NextStatement`).
`get_tx_by_reference` is two `SELECT`s with a step of another process possibly in between;
`get_unspent` is one, and `Scan` the loop over the rows that `IsSelected` (its `WHERE`) lets through.
A connection is a process that has the file open; its mutex makes its
own calls follow one another, and the calls of other connections run in between its steps.
What SQLite does is external and stated at the top of the module: the first write
of a transaction takes the one write lock or gives up after the busy timeout (`Busy`),
its writes are its own until the commit, and a process that stops (`Crash`)
loses them and nothing else. A statement is an operator from tables to the *set*
of tables it can leave: empty when a primary key is taken. An amount passes through
`AsColumn`, the cast to the column's width. Any question or statement, and any `SELECT` of the reads, may fail for a
reason outside the database (`Fail`); the caller gets `Error::Internal`.

**`AccountListing`** is what `get_accounts` promises: the numbers in order, each once, while
accounts are being opened. **`AccountStreams`** is how it is done: the cursor of
either backend, the key last returned or an `OFFSET`, and around it the
`AccountIterator`, which skips an account with the number of the last one. One poll of the storage
is one step; clients credit new sub-accounts in between.

**`Ledger`** has the operations. A client's call is in one of three states: `idle`
with the outcome of the last call; `select`, after the lookup that begins a
dispute, resolution or chargeback; `store`, with the transactions still to be
stored. A storage access and the computation that follows it, up to the next
await, is one action:

| Action | Code |
|---|---|
| `Deposit`, then `Store` | `deposit`: build the transaction, `store_tx` |
| `Withdraw`, then `Store` once or twice | `withdraw`: `get_unspent`; the exchange if there is change; `store_tx` each |
| `Dispute`, `Select`, `Store` | `dispute`: lookup; `get_unspent` and the move; `store_tx` |
| `Settle`, `Select`, `Store` | `resolve` and `chargeback`, the same with another lookup |
| `Drop` | the caller drops the future at an await: what was stored stays |

`withdraw` builds the exchange and the withdrawal that spends it before it stores either
(`lib.rs:284-314`), and so does the model: both are planned in one action, and each is stored in
one of its own. `Select` with outcome `Panic` is the
`todo!()` at `lib.rs:368`: the deposit was spent before it was disputed. A client
that dropped a call makes no other one, which only bounds the model: another client may go on in its place.

**`LedgerProperties`** states what the ledger promises. **`AccountBook`** is the
ledger without transactions: three balances per account and the sets of
deposits, disputes and settlements, each operation one step. **`BookView`** maps
the log to it (balances are sums of unspent outputs) and states
`ImplementsBook`. **`Balances`** puts a `get_balances` with its three reads
beside the clients.

**`Amounts`** is `from_f64` and `to_f64`. A float is counted in units of a small
power of two and rounded to a mantissa of `MantissaBits`, ties to even (a mantissa is multiplied by
a power of two up to `MaxExponent`, and no number used here is larger); multiplication by
the scale, truncation, the comparison with the limits *as floats*, and the
saturating cast are the code's. **`Program`** is the main function: it is the one client
of a `Ledger`, reads row after row, awaits each call, and then writes a record
for each account with the three reads of `Balances`.

**`*_proofs`** are the theorems (section 5). **`MC*`** are the instances for TLC.
A definition preceded by "Mutant of" is the definition after it with a plausible
mistake in it; nothing uses it. They are there to show that each
property can fail.

## 3. Runs

| Run | Question | Bounds |
|---|---|---|
| `memory` | Do the maps agree with the stored transactions and implement the contract? | any order of 10 transactions, chosen to compete |
| `sqlite` | The same for the tables, with a second process, crashes and failures; does every call end? | 7 transactions, 1 or 2 connections, a column of 8 values |
| `streams` | Is the listing complete, exact when nothing changes, in order with the key cursor, and finite? | 3 accounts, any initial set, every sub-account credited at any time |
| `concurrent` | Do two clients, interleaved at every await, keep the funds? | 4 hashes, 2 references, amounts -1 and 2 |
| `book` | Is each commit a whole operation of the book, and does every call return? | 5 hashes, 1 reference, 2 clients |
| `sequential` | What more holds when calls do not overlap, and are refusals for lack of funds right? | 6 hashes, amounts -1, 0, 2, a caller's reference equal to a derived one |
| `accounts` | Do funds stay with their owner; is an undisturbed `get_balances` exact? | 2 accounts, 5 hashes, 1 client and the reader |
| `program` | Is the file booked, is the report right, when does the program panic, are amounts kept or refused as they should be, do the books follow the file, does it end? | all files of up to 3 rows out of 10, of 4 rows out of 8, and 767 files with one deposit |

and four that TLC is expected to violate, see section 6.

**Bounds.** `HashId` bounds the number of transactions: `Room` lets an operation
begin only when the hashes are certain to last for it and for the calls in
flight, so no call is cut short and a bounded model has no behaviour the code
lacks. Everything else is bounded by that. A withdrawal with change takes a
deposit, the exchange and the withdrawal, three transactions; a second client's withdrawal
that loses the race needs the fourth hash, and a settled dispute takes three
and a second settlement the fourth. With five and six, the cases follow one
another. Two clients are enough for any race over one output, because a
refusal involves a winner and a loser. Amounts 1 and 2 (`book`) give exact matches,
change, and change equal to the amount; 0 and -1 are the corners of the
comparisons in `get_unspent`, as targets and as outputs, and an output of -1 is one that the scan
may stop before. Accounts do not interact except through the
storage: one is enough for races, and `accounts` has two to see that
funds do not cross.

In `sqlite` the transactions are chosen so that every refusal occurs: two
deposits under one reference (one larger than the column holds), two spenders of
one output, an exchange, and an input at a wrong amount that is right in the width of the column. One or two connections are chosen at
the start (`users`), because what one process is promised and what two are differs. In `program` the mantissa has 8 bits, multiplied by up to 2^22, and
integers have 10: 0.07 times 100 then falls below 7, as 0.0003 times
10000 falls below 3 with 53 bits, and the limit as a float is larger than the limit,
as it is with 128. The single deposits go up to 0.3 by thousandths, by thousandths about the largest and the least amount, and
to 1.13 and 1.49 times as much. The sums of a file stay far within ten bits. Four rows reach a deposit, its
dispute and both settlements, and a dispute of spent funds. The two rows left out of the files of four are one
that does not parse, which changes nothing, and a withdrawal of a negative amount by another client.
`Amount` is all that fits in an amount.

**Deadlock** is checked in every run. `Rest`, `Over` and `Ended` let a system stutter when
it has nothing to do (no client has to call; the listing is over; the process has ended), so that a
deadlock TLC reports is a call that cannot go on. In `sqlite` a caller may always call again.

**Symmetry** is used in `concurrent` only, over the clients, which are
interchangeable, and only for invariants.

**Fairness.**

* `Ledger`: weak fairness of `Continue(c)` for each client. A call that has begun is
  polled by the executor unless the caller drops it, and the locks are released at the end of
  each access. Nothing makes a client start a call, and `Drop` is never forced.
* `SqliteStorage`: weak fairness of `Continue(c)` for each connection, which includes
  `Busy`: the busy timeout (5 seconds by default in `rusqlite`) is finite, so a
  write that waits for another process ends. A crash also ends a call; opening the file again is not forced.
* `AccountStreams`: weak fairness of `Poll`, the consumer that goes on to the end,
  as the program does. Opening accounts is not forced.
* `Program`: weak fairness of `Step`: the executor runs the one task there is.

What the passing runs show, the properties that say the most:

* `NoDoubleSpend`, `Conservation`, `InputsHaveASource`: the
  funds. `Conservation` relates unspent outputs to the whole history. (An output that two withdrawals spend counts once
  in it; that there is none is `NoDoubleSpend`.)
* `OneCreditPerReference`: clients that retry the same deposit, dispute or
  settlement at the same time succeed once.
* `OnlyRacesAreRefused`, `PlannedInputsExist`: a call works with what it read
  before an await. What it read may have been spent, but is never
  wrong; so `store_tx` refuses it for a race or a taken reference only, never for an amount, a missing
  output or an imbalance. `AloneNothingRaces` is the counterpart for a single caller.
* `NotEnoughIsHonest`: a withdrawal is refused with `NotEnough`, and a dispute or a settlement ends as the code ends it when
  the funds are not there, only when the balance is less than the amount, and then always unless an output is negative,
  although the call looks at a prefix of the outputs. It speaks of the step that answers, so of the balance at that moment.
* `ImplementsBook`: the strongest. Each commit changes the balances by one whole operation
  that the balances allow at that moment, or, for an exchange, not at all. A dropped call
  is no exception. `BookAddsUp` carries the invariants of the book to the ledger.
* `NoDanglingExchange` holds with one client that drops nothing (two clients lose it).
* `TablesAgree`, `ReferencesAgree`, `QueuesAgree` of `memory`: each of the five maps is what the log says and nothing more,
  `txs_by_account` behind `get_accounts` too.
* `TablesAgree` of `sqlite`: wherever a process stops and whoever writes in between, the committed
  tables hold whole transactions, each of the four tables and every column (an amount as the column holds it), and nothing else. `OneCreditPerReference`: what the
  checks of two processes miss, the primary keys catch. `ValueIsKept`: as long as the amounts of the stored transactions fit
  the column, no output is spent at another amount. (Where they do not fit, it is: section 6.)
* `ImplementsStorage` of `sqlite`: one process alone has what the contract says, with two
  exceptions that the formula names (`GivesUp`): a failure of the environment, and a
  transaction with two outputs in one sub-account.
* `NoneIsLeftOut`, `PollsRunOut`, `Ends`: with either cursor. `ImplementsListing`: with the key cursor.
* `FileIsBooked`, `ReportIsExact`, `PanicsAreExplained`: the program as a whole, whatever rows fail in
  between. The total of a record is what the client deposited less what was withdrawn and charged back.
* `AmountsAreKept`: an amount of the file becomes its value truncated, never more, as long as it is well within the
  mantissa; one with nothing to truncate may lose a unit, and no other.
* `LimitsAreKept`: about the limits, where the mantissa no longer has every amount, a decimal is refused only if it is past a
  limit but for the roundings, and what is accepted, the value saturated at the limit too, is off by no more than them.
* `BooksFollowFile`: so what a client is credited is never more than the rows say, and less by a unit at most for each row of a
  whole amount.
* `PollsRunOut` and `StepsRunOut` are what makes `Ends` and `Terminates` true: a number that each step lowers. Clients that
  open accounts cannot prolong a listing, and no row is read again because its call failed.

## 4. Assumptions

| Assumption | Where | Why the code justifies it |
|---|---|---|
| `HashIdIsNat` | Transactions | hashes are identifiers, compared only; numbers have a least one |
| `TagsAreStrings` | Transactions | true of string literals; the provers do not know it |
| `NewestFirstIsBoolean` | TxLog | a switch |
| `UserRefIsReference`, `AmountIsInt` | Ledger | types of the parameters |
| `ClientIsFinite` | Ledger | there are finitely many callers |
| `TxsAreTransactions` | MemoryStorage, SqliteStorage | type of the parameter |
| `ConnIsFinite` | SqliteStorage | finitely many processes have the file open |
| `LimitIsPositive` | SqliteStorage | half the values of the column, 2^63 |
| `IdIsNat`, `IdIsFinite` | AccountStreams | an account number is a `u16` |
| `OneCaller` | Program | the program awaits each call before the next |
| `FilesAreRows` | Program | the type of a row; `amount` is an `Option` |
| `CallsWithAmounts` | Program | `from_f64` saturates: what it returns is an amount |
| `ClientIsNumber` | Program | a client is a `u16`; the report is sorted by it |
| `FloatFormat` | Amounts | an `i128` has more bits than the 53 of the mantissa of an `f64` and is below the largest `f64`, and 0.00001, the least decimal the model reads at precision 4, is far above the least `f64` with a full mantissa; an `f64` is `MantissaBits = 53`, `FractionBits = 1074`, `MaxExponent = 2045` |
| `ReferenceIsNumber` | Program | `tx` is a `u32`, and its text is not one of the words the ledger puts before a reference |

These hold of the code. Some theorems say something of a part of what it can do, and
then have a hypothesis in their statement:

| Hypothesis | Theorems | Why |
|---|---|---|
| `NewestFirst` | `ImplementsContract` | the order in which the in-memory store visits outputs |
| `~NewestFirst` | `AloneImplementsContract` | the order in which SQLite does |
| `Amount \subseteq Nat` | all of `AccountBook_proofs`, `LedgerImplementsBook`, `BookAddsUpHolds` | the code accepts negative amounts, and then a withdrawal may overdraw (section 6) |
| `NoResolvedRefs` | `LedgerImplementsBook`, `BookAddsUpHolds` | no caller's reference is `resolved:` and another one: a resolution of nothing has no inputs, and a deposit under such a reference looks the same |
| `Cardinality(Client) = 1` | `NoDanglingExchangeHolds` | with two callers it fails (section 6) |

Everything else about the ledger is proved for all integers as amounts and all references.

## 5. Proofs

| Module | Theorems |
|---|---|
| `Ledger_proofs` | `TypeCorrect`, `NoDoubleSpendHolds`, `OneCreditPerReferenceHolds`, `InputsHaveASourceHolds`, `OnlyRacesAreRefusedHolds`, `PlannedInputsExistHolds`, `ChargebackIsFinalHolds`, `ConservationHolds`, `AloneNothingRacesHolds`, `NoDanglingExchangeHolds`, `NotEnoughIsHonestHolds`, `LedgerImplementsBook`, `BookAddsUpHolds`, `ReaderTypeCorrect`, `UndisturbedReadIsExactHolds` |
| `MemoryStorage_proofs` | `TypeCorrect`, `TablesAlwaysAgree`, `ReferencesAlwaysAgree`, `QueuesAlwaysAgree`, `SpentStaysSpent`, `StoresAndFindsAsPromised`, `ImplementsContract` |
| `SqliteStorage_proofs` | `TypeCorrect`, `TablesAlwaysAgree`, `OneCreditPerReferenceHolds`, `ValueIsKeptHolds`, `AloneImplementsContract` |
| `AccountStreams_proofs` | `TypeCorrect`, `KeysListInOrder`, `NoneIsLeftOutHolds`, `UndisturbedIsExactHolds`, `KeysImplementListing`, `PollsRunOutHolds` |
| `AccountBook_proofs` | `TypeCorrect`, `BooksAlwaysBalance`, `DisputesAlwaysAddUp` |
| `Program_proofs` | `FileIsBookedHolds`, `PanicsAreExplainedHolds`, `ReportIsExactHolds`, `AmountsAreKeptHolds`, `LimitsAreKeptHolds`, `BooksFollowFileHolds`, `StepsRunOutHolds` |

with the lemmas they share in `FiniteSums_proofs` (numbers, sums over sets, iteration)
and `TxLog_proofs` (transactions, the log, what `get_unspent` selects, its loop).
They hold for any number of clients, connections, accounts and references, any amounts
(section 4 names the exceptions) and logs of any length. Three of the results are refinements:
both backends implement `Storage`, and the ledger implements `AccountBook`.

**The invariant of the ledger.** `NoDoubleSpend` is not inductive: whether a transaction that is about to be
stored names one output twice depends on what the call planned. And
`OnlyRacesAreRefused` is about an answer that depends on what was
selected some steps before. So `Inv` adds, for each call in flight, that its
transactions are *well planned*: each input is an existing place of the log at
its amount, in the movable funds of one account (or the first output of the
exchange in front of it); inputs are distinct; outputs belong to the same account;
and inputs and outputs balance. With it come `UniqueIds`, no two committed
transactions with one hash, so that an identifier names one place, and the type
invariant. The steps are divided in two. A step that stores nothing (`Advance`)
has to show that the state it gives its client is good. A `Store` of an accepted transaction
uses what the verdict of `store_tx` says (`Accepted`): the hash and the reference
are new, the inputs unspent. It has to show that the *other* calls stay well planned,
which they do since a place, once in the log, stays (`CommitKeepsPlans`), and
that the withdrawal after an exchange finds the output it was planned on
(`CommitAdvancesPlan`). Freshness of hashes is never used: `store_tx` checks
for duplicates, and that suffices.

**Conservation.** A commit takes the outputs that its transaction spends out of the unspent ones of
one account and adds those it creates. Both sets are summed over places of the log, where
nothing else changes, so an account has as much as before unless the transaction deposits or
withdraws, and then the other side of the equation moves with it.

**One caller.** With a single client nobody else stores anything, so what a call has
selected is still unspent when it is stored (`AloneInv`). No call is refused for a race,
and after an exchange the withdrawal it was made for cannot fail.

**The ledger as a book.** From the log alone one cannot tell an exchange from a
resolution that moves nothing. So each transaction, in a call or in the log, is given a *purpose*:
a deposit, an exchange, a withdrawal, or the move of the amount of a deposit that was asked
for. With the purpose and what the invariant of the ledger says of a commit, the three balances
after it follow, and the sets of deposits, disputes and settlements
that the log shows, and with them which step of the book it is. That the balances of a book add up is a theorem
about the book (`BooksAlwaysBalance`, `DisputesAlwaysAddUp`); the refinement carries it over.

**Refusals.** `NotEnoughIsHonest` rests on one lemma (`SelectedHonestly`): what `get_unspent` hands out, which stops early,
is all there is if it is less than the target, and if no output is negative it is never more than
the balance. So a selection falls short exactly when the balance does, and negative outputs spoil one direction only.

**The invariant of the in-memory store** (`IInv`): the tables agree with the log and the references
do; no transaction spends an output of a later one (`InputsExist`), without which storing
a transaction could mark an output that is only just being created; and the keys of the reference index are those of the stored transactions and no other (`KeysAgree`,
the half of `ReferencesAgree` without which a free key could be in the index and a
lookup could find what the log does not have). From it, each answer of `store_tx`
is the verdict of the contract (the checks are compared one by one), and a
lookup finds what the contract finds. `QueuesInv` adds that a queue holds the places of its
account, each once and the newest in front, and that `txs_by_account` has the transactions of the queue. The loop of `get_unspent` has then, after each
turn, the newest unspent places there are, and stops at the smallest number of them that has the target, which
is what the contract asks for.

**The invariant of the SQLite backend** (`Inv`). The committed tables agree with the log (`Agree`: in particular the
rows are the outputs in the order of the commits, although the SQL has no such constraint). At most one
connection has written (`OneWriter`), and what it sees is the committed tables and what its statements so
far make of them; a statement is known by its position, so that is a definition and not a
history (`Partly`). The other connections have only asked. Of what they were told, what matters stays true whoever
commits in between: rows are never deleted and an output keeps its amount. That gives `ValueIsKept`; the references and hashes are
asked again by the primary keys when they are inserted, which gives `OneCreditPerReference`.

**One process alone** implements the contract since no answer goes stale: the
questions it has asked would still be answered "yes" (`AloneInv`), so at the commit the verdict of the log is `Ok`, and
a refusal is the verdict of the first question that is answered otherwise (the contract asks in the same order). A statement
that fails then fails for an output repeated in the same transaction (`OnlyRepeatsFail`), which is the exception `GivesUp` names. The
steps in between are stutters.

**The invariant of the streams** (`IInv`). With the key cursor, the key held is the last sub-account listed
(`KeyAgrees`), and every account of the start is listed or still above the key
(`NoneIsPassedOver`). The order on sub-accounts is total, so the next key of the
storage is either of the same number, and skipped, or of the least number beyond.
That is the step `List` of the specification; the end is its `End`. The OFFSET cursor counts rows, and what makes it
comparable is the *index* of a row, the number of rows below it. An insertion never lowers an index, so a
row of the start that was not listed has an index not below the offset. The rows of a table that does not change have the indices from
0 on without a gap, so an undisturbed listing visits them all in order.

**The program.** Whatever it does, its ledger makes a step or none, and nobody else calls it
(`RunsLedger`), so everything proved of a ledger with one caller holds of it, `Conservation` included. None of the
three properties is inductive, for two reasons: a row is read in one step and answered some awaits later, and a
deposit is refused by what an earlier row stored. `ProgramInv` adds what bridges them.
`Explained` says what a call, as far as it has got, has to do with its row: a deposit is about to store the one
transaction of its row, anything else transactions that deposit nothing, take no reference of a caller for an
output and credit nobody but the row's client; and a call that panics is the dispute of a deposit that the balance
does not cover. `Booked` says that what is deposited is the sum over the rows *done with* that count, and that a
reference is found in an account if and only if one of these rows has used it. So a deposit is refused exactly
when its row is not the first under its number, and `FileIsBooked` follows. The report needs two things more. `Opened`: the accounts that have
outputs are those that a deposit, or a withdrawal of a negative amount, has opened. `Reporting`: the records so far are those of the least accounts, in
order and exact, and the reader is at the least one without. The total of a record is then `Conservation`,
read at the end.

**The amounts.** `AmountsAreKept` says the same of every state, so it needs no invariant but that the file is a file; it needs
arithmetic. A number rounded to the nearest float is off by at most one part in 2^`MantissaBits` (`NearestIsNear`, from the exponent that
brings it into the mantissa, which `FloatFormat` says there is). So the decimal, read (`ParsedIsNear`) and scaled, is within a sixteenth of a
unit of its value, which is not above 2^(`MantissaBits` - 4). Rounding the product may move it again, but no further than its last place. That is
a sixteenth of a unit too, and a whole number is a float, so the rounding does not carry the product past one
(`LastPlace`). What is left is the point of the property: the product of a decimal with places to spare (its last digit is at least a tenth of a
unit from the next whole number) is truncated to the value truncated, and that of a decimal which *is* whole may
fall just below it and lose one unit (`AmountIsKept`). Nothing is refused or saturated on the way, because half of the largest integer is left even after the limit itself
is rounded (`SmallIsInRange`). Rounding is symmetric, so a negative decimal is its positive with the sign
(`NearestOfNegative`, `DecimalIsKept`). 
`LimitsAreKept` is the same argument with relative errors. With a full mantissa each rounding is off by a part in
2^`MantissaBits` at most (`NearestIsClose`), so the integer, times ten, is off the decimal by two such parts and what is truncated (`RoundedTwice`).
The limit it is compared with is a float as well, and off by another; a value between the two is saturated, which moves it by that part at most
(`ClampedIsNear`). Four parts cover the products of these errors. `BooksFollowFile` joins `AmountsAreKept` to `Booked`: the deposits of a client are the sum of the converted
amounts of the rows that count, each of these is its value or, if it is whole, may be a unit less, and sums of
numbers that differ by at most one differ by at most the number of those that do (`FoldNear`).

**Progress.** A measure of what is left is an action property, and within the prover's reach where the liveness it explains is not.
For a listing (`PollsRunOut`) it is the sub-accounts above the key, or those that could be opened beyond the
offset: all that *could* be, so an insertion does not add to it. For the program (`StepsRunOut`) the phases go one way, and within one a row is worth three steps and
a record three. A row is read once and its call plans at most two transactions (`StartLeft`); an await that does not end the call takes one of those
(`ContinueLeft`), and that the reader is at an account without a record (`Reporting`) is what makes a record count.

**Without induction.** None of the installed provers takes an operator as a parameter, so the library's induction theorems
are of no use. They are replaced by one fact, that a set of naturals that is not empty has a least element
(`Least`, from well-foundedness of `<`): a least counterexample is impossible. From it `FiniteSums_proofs` has induction
over a *set* of numbers (`UpTo`), that a function defined by recursion on `0..n` exists (`Iterates`), and that a sum over a finite set
exists, is an integer, and does not depend on the order; `TxLog_proofs` has the same for the sum of a sequence, and what a loop of `get_unspent`
has collected (`HasCollected`), for both backends.

**Model-checked only.** `Returns`, `Ends` and `Terminates` are liveness: that a fair scheduler takes the step that is enabled needs `ENABLED`, which the prover does
not have. That the steps of a listing and of the program cannot go on for ever is proved (Progress, above). Every safety
property and every action property of a passing run is a theorem. The
four runs of section 6 that TLC violates are, of course, not theorems.

## 6. Findings

Four are runs in which TLC finds what a comment or the documentation excludes;
`PROJECT.json` quotes the lines.

| Run | What happens |
|---|---|
| `double_spend` | two processes on one SQLite file both find an output unspent, and both spend it: the `UPDATE` does not ask again |
| `exchange` | the exchange of a withdrawal has two outputs in one sub-account and one reference; the second `INSERT INTO tx_references` fails, so with SQLite no withdrawal that needs change succeeds |
| `frozen_funds` | a dispute is settled both ways, and the second settlement takes the funds of another open dispute |
| `snapshot` | `get_balances` counts a deposit twice when a dispute commits between its reads |

Others were met while modelling and have no run of their own:

* `resolve(r)` then `chargeback(r)`: with no other dispute open, the funds are not found, and the caller gets
  `Error::Internal`, which "should never happen" (`lib.rs:485`).
* A withdrawal has no outputs, so its reference is neither recorded nor checked, although references
  are to be unique per account (`lib.rs:64`, `storage/mod.rs:78`). A dispute
  of a withdrawal answers `NotFound` for the same reason, where `Error::WrongType` is documented (`lib.rs:81`).
* With two clients a withdrawal can lose the race between its two transactions, and the exchange stays
  (`NoDanglingExchange` fails with two clients); a dropped call does the same. The funds are
  kept, but a retry under the same reference that needs change again is a duplicate. `lib.rs:7` calls multi-step transactions atomic.
* After deposits of -1 and 1, `get_unspent` covers a target of 1 before it meets the
  negative output, and a withdrawal of 1 succeeds on a balance of 0.
* A withdrawal of a negative amount falls short of no balance. With nothing selected, the exchange in front of it has no inputs,
  and opens an account that had nothing: the client is in the report, although no deposit names it
  (`NegativeWithdrawals` in `ReportIsExact`).
* A dispute of a deposit that was spent ends in `todo!()` (`lib.rs:368`): in `Program` such a
  row brings the program down before its report, one of the two panics of
  `PanicsAreExplained`.
* With SQLite a listing is not sorted when an account is opened before the cursor: the main
  sub-account of 3 is returned, then 1 is opened and disputed, and the stream returns
  3 and then 1, where `storage/mod.rs:64-65` expects sorted accounts. `Sorted` states it and is proved for the key cursor.
* `from_f64` truncates a product that was rounded: 0.0003 at precision 4 is 2 and
  0.29 at precision 2 is 28, though the value has no more places than the precision. The limit `i128::MAX as f64` is 2^127, which passes the comparison and saturates.
* The SQLite backend compares an input's amount after casting it to 64 bits, so an input that
  is off by a multiple of 2^64 is accepted; and it stores an amount outside 64 bits as another one.
* The in-memory stream starts over when it is polled after its end.

A corner of `BookView`: with a zero amount, a dispute or resolution may select
nothing from an empty sub-account and then looks like a deposit, a transaction
without inputs. The view tells them apart by the reference.

## 7. Not modelled

* The bytes of hashes and the timestamps in them. Two deposits equal in all fields and in
  the microsecond have one hash, and the second is a duplicate; in the model its
  reference makes it one.
* Overflow of `i128`: the sums of `Transaction::new` and `get_balances` are unchecked additions that
  panic or wrap by build profile; the checked ones return `Error::Math`. Sums
  are unbounded integers here.
* An SQLite connection opened with `in_memory()` belongs to one process and does not
  survive it; `Crash` is about files. The module `storage` is private
  to the crate, so a `Ledger` over SQLite is one built inside it, and the ledger is
  composed with the storage through the contract, not with `SqliteStorage` itself.
* Queries that fail in the account streams: each is an error item and leaves the cursor where it is, and the consumer decides.
* `movement()`, which is a `todo!()`.
* The `Error::Math` of `memory.rs:196`, after the first writes of a `store_tx`: the position of an output is a `u8`, and a transaction
  with more than 256 outputs fails half stored. The ledger builds none with more than two.
* A transaction with the same input twice: `Transaction::new` allows it, but the ledger
  never builds it (part of `Inv`), and the storage is checked with the ledger's
  kind of transactions.
* The errors of `to_f64` and `from_f64` for a scale that is not finite, which takes a precision of hundreds.
* CSV parsing, printing, logging.

## 8. Plan

Done: all components but the test suite; proofs of every safety property that a run checks, and of
the three refinements. Left:

1. The program's account listing as the composition of `Program` and `AccountListing`, in place of the set `Accounts`.
