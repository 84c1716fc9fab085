# A TLA+ verification project for jungle

jungle is a wagering back end in Go: game providers send bets, wins, losses,
refunds and rollbacks over HTTP or SQS, and the service moves money in player
wallets, keeps a ledger and a double-entry journal, and publishes events. All
state is in one PostgreSQL database at READ COMMITTED; any number of instances
run against it. This directory models the parts whose correctness depends on
interleavings, failures and retries, and its integer arithmetic; it checks them with
TLC, and proves with TLAPS every safety property the passing runs check, and that the core
implements an atomic service.

## The system

| Part | State it keeps | Operations | Interacts through |
|---|---|---|---|
| `internal/domain` | none (values) | transaction life cycle, `Debit`/`Credit`, ledger entries, journal legs, events | called by the use cases |
| `domain/money` | none (values) | checked int64 arithmetic, `Parse`, `DecimalString`, JSON | every amount in and out |
| `ProcessWager` (`app/process_wager.go`) | rows of `wallet`, `wager_transaction`, `wallet_ledger_entry`, `journal_entry`, `inbox`, `outbox` | `Execute`: fast replay, lock, inbox/key/identity lookups, decide, settle, record inbox | row lock on the wallet, unique indexes, the terminal-guard trigger |
| `OpenWallet` | `wallet` and the opening rows | `Execute` | unique `(player, currency)` |
| `ResolveReferences` | the `reference_*` columns of parked reversals | `RunOnce`: claim, `settleOne`, `recordPermanentFailure` | same tables as ProcessWager; polls on a timer, one worker per instance |
| `PublishOutbox`, `queue.Publisher` | claim columns of `outbox` | `RunOnce`: claim a batch, send each event, mark or reschedule it | SQS FIFO queue with a deduplication window |
| `Queries` | none | reads, `GetLedger` page by page, `Reconcile` | plain reads beside everything else |
| `queue.Consumer` | messages in flight | receive a batch, hand each to ProcessWager, delete or leave it, release the rest at shutdown | visibility timeout, redrive to a dead-letter queue |
| `worker` | goroutine life cycle | start, drain, abandon | contexts |
| `httpapi`, `server`, `router`, `config`, `health`, `observability`, `cmd` | none worth modelling | parsing, routing, wiring, metrics | – |

What is hard here: several statements per unit of work, each with its own
snapshot; locks that order requests on one wallet but not requests with one key
on two wallets; a transaction read before its wallet is locked; two workers on
one parked row; lost commit acknowledgements and redelivered messages; claims and
visibility timeouts that expire under their owner; shutdown in the middle of a batch;
times that do not follow the commits; integers that wrap around. `PROJECT.json` lists these hazards with the line
each bites at and the properties aimed at it.

What makes each part correct:

* wagering: money moves once per successful operation; balance, ledger, journal
  and events tell the same story; a transaction is reversed at most once; a
  settled row is final; a repeat gets the stored answer; a parked reversal is
  settled in the end;
* opening: one wallet per player and currency;
* outbox: every committed event is delivered at least once, none that was not
  committed; live claims do not overlap;
* reconciliation: a verdict can be explained by what was committed; ledger pages: a
  listing loses and repeats nothing;
* consumer: no message is lost, none is overtaken without a failure, a shutdown keeps
  nothing back, and none blocks its group for ever;
* money: every result is exact or refused.

## Modules

* `WagerDomain` – the domain layer and the pure part of the decisions, as
  operators on records. `Settlement` is what `settle` writes for a decision.
* `Wagering` – ProcessWager, OpenWallet and ResolveReferences against the shared
  tables. Every SQL statement that reads or may wait is an action and sees what is
  committed when it runs. What a unit of work writes is in `job[x].writes` until
  `Commit` applies it in one step; any error goes through `Abandon`, which drops
  the buffer and the lock, as `Within` does. `holder[w]` is the row lock of wallet
  `w`. The lock on an updated transaction row, and the wait of an insert for a
  colliding uncommitted one, follow from the other jobs (`RowLocked`,
  `InsertWaits`).
* `WageringInv` – the inductive invariant `CoreInv` in three layers: `IInv` (positions,
  locks, chain), `RowInv` (rows, decisions, answers), `MoneyInv` (ledger, journal, events). `RequestInv`
  says what a result has to do with the request it answers: it is the request's own, or that
  of a twin (the same key and identity for another wallet).
* `WageringProofs`, `RowProofs`, `CommitProofs` – the proofs about `Wagering`, one on top
  of the other: `IInv`; the steps other than a commit keep `RowInv`; a commit keeps it,
  and the theorems about rows, answers and money.
* `Outbox` – publishers, the claim columns and the queue. Instants are relative to
  the present; a clock reading may be `MaxLag` old when it is used. `OutboxInv` is its
  inductive invariant, `OutboxProofs` its theorems.
* `AtomicWagering` – the abstract specification of the wagering core: an operation is
  accepted, repeated, resolved, or a wallet opened, in one step on the state of that
  moment. No locks, no workers, no faults.
* `WageringRefinement` – `Wagering` implements `AtomicWagering`. The mapping keeps the
  tables of the same name (`wallets`, `txs`, `inbox`) and hides the rest, so a commit
  is an atomic step and every other step stutters. `RefinementInv` is why,
  `RefinementProofs` the proof.
* `Consumer` – the SQS door, composed with `AtomicWagering` as the service behind it,
  which the refinement justifies: consumers and their life cycle (`worker.start`),
  the FIFO queue with receipts, visibility timeout and dead-letter queue. `Handle`,
  `HandleRefused` and `HandleFails` are the three outcomes of `handle`; a failure
  may come after the commit. Requests over HTTP and the reference worker go on beside
  it (`Elsewhere`). `ConsumerInv` is its inductive invariant, `ConsumerProofs` its theorems.
* `Queries` – extends `Wagering` (through `WageringInv`) with an auditor that runs the two
  reads of `Queries.Reconcile` and a client that reads a ledger page by page. `QueryInv` is
  its inductive invariant, `QueriesProofs` its theorems.
* `Money` – the money type on integers of width `2 * Half` that wrap around. A call
  and its result are the state, so that its properties are invariants.
* `MoneyProofs` – the theorems about `Money`.
* `MCWagering`, `MCOutbox`, `MCConsumer`, `MCQueries`, `MCMoney` – the small instances.

The steps of `ProcessWager.Execute`, in the order of the code: `Submit`
(arrival), `FastReplay`, `GetForUpdate` (with the player check), `ReadInbox`,
`ReadKey`, `ReadIdentity` (and `NewExternal`), `Decide`, `CheckReversal`,
`Settle` (up to the save), `UpdateBalance` (with ledger, journal and outbox
inserts), `RecordInbox`, `Commit`, `Respond`. The reference worker shares the
steps from `CheckReversal` on. The definitions whose names end in a suffix after
an underscore (`GetForUpdate_PlainRead`) are mutants: each breaks the definition
below it the way a plausible slip in the code would, and the property listed with
it in `PROJECT.json` then fails.

Abstractions. Payloads are records, the payload hash is their equality (SHA-256 is
taken to be injective); the game id is folded into the round. Amounts are small
naturals, `MaxMoney` stands for the largest int64. Times are flags: a parked row
is due or not, its TTL has passed or not. `due` starts TRUE because the column
defaults to `now()`. Statements of one unit of work that nothing else can disturb
are one step. In `Consumer` there is no clock at all: a visibility timeout may run out
at any moment, which covers every ratio of the timeout to the time a batch takes. In
`Queries` `created_at` is any instant, because it is read before the wallet lock is
waited for and on the clock of its instance. A text in `Money` is what the decimal
pattern finds in it: sign, whole part, two digits.

What the atomic specification gives away, in two places. Most decisions are atomic because the wallet
lock covers everything they read. Two are not: a reference on another wallet (a
mismatch that ends in a rejection), and a row that `recordPermanentFailure` marks
FAILED without the lock. A decision may have read either of them before it was stored or
settled. `Elusive` says exactly this and nothing more: such a reversal may be parked
where an atomic service would reject it, and a win may lack its informative link.
Money is not affected. And a request may be answered with the row of another wallet that
was recorded under the same key and identity between the two lookups (`Twins`, the run `twins`);
any other request that reuses a key is refused.

## Runs

| Run | Shows |
|---|---|
| `reversals` | a bet, a refund and a rollback of it, and a rollback of the refund, any three in any order, two handlers and a reference worker: `LedgerChain`, `CASNeverFails`, `AtMostOneReversal`, `ReversalUndoes`, and the refinement `ImplementsAtomic` |
| `doors` | one operation by HTTP and SQS at once; keys, identities and message ids reused on two wallets; requests for the wrong player, currency or amount; a credit that overflows; two openings of one slot; one fault: `AnswerStands`, `AnswersTheRequest`, `NoFalseConflict`, `HandledMessagesAreRecorded`, `OneWalletPerSlot`, `TypeOK`, and `RefinementInv`, the inductive invariant of the refinement |
| `resolvers` | two reference workers on the same row, the bet arriving late or never, one fault: `MoneyMovedOnce`, `JournalMirrorsLedger`, `EventsTellState`, `TerminalFrozen`, the inductive invariant of the refinement `RefinementInv`, and the liveness property `ParkedEventuallySettle` |
| `publish` | two publishers, one failed send, lost answer, failed mark or crash: `PublishedIsDelivered`, `LiveClaimsDisjointWithoutFaults`, `TypeOK`, the inductive invariant `OutboxInv`, and the liveness property `PendingEventuallyPublished` |
| `consume` | two consumers on a bet and its refund in one group, HTTP taking the bet's key, with the same payload or another, or not, timeouts at any moment, one shutdown, one fault: `DeletedWereSettled`, `OvertakesOnlyFailed`, `StoppedHoldsNothing`, `TypeOK`, the inductive invariant `ConsumerInv`, and the liveness property `EventuallyDisposed` |
| `audit` | a reconciliation, or a ledger listing with pages of one or two entries, at any moment: `VerdictExplained`, `PagesComplete`, and the inductive invariant `QueryInv` |
| `money` | all pairs of seven-bit amounts and all texts: `SumsExact`, `ParseExact`, `ExchangeFaithful` |

Five more runs end in a counterexample on purpose: they state what a document of
the repository says and the code does not do.

| Run | What it shows |
|---|---|
| `twins` | One key and identity for two wallets: the identity lookup compares keys, not hashes, so a request that passed the key lookup before the other one committed is answered with that one's result instead of a conflict. `RequestsAreAnswered` proves the property wherever no two requests share both key and identity across wallets (`NoTwins`), as in `doors`. |
| `poison` | A parked refund whose settlement always fails (its credit overflows) is never counted: neither budget ends its wait. |
| `release` | A late publisher's `Reschedule` frees a claim that is no longer its own. |
| `order` | Two events of one wallet are delivered in the wrong order. |
| `snapshot` | A bet committed between the two reads of a reconciliation is reported as an inconsistency. |

A sixth disagreement needs no run: ARCHITECTURE.md:315-316 says that several
reference workers "simply take disjoint rows", but the claim commits before the
rows are settled and sets no claim column (`transaction_repo.go:129`,
`resolve_references.go:72`), so two workers can hold one row. `Claim` models this,
and `resolvers` shows that the money stays right all the same.

Three more things the models make precise:

* README.md:187 says that the message group "dá ordenação por carteira". It does as long
  as no message fails: after a failure the loop goes on with the next message of the
  batch (`consumer.go:102`), which overtakes it. `OvertakesOnlyFailed` states the
  exact guarantee; shutdowns, crashes, lost calls and expired timeouts do not add to it.
* A listing shows everything that was there when it began (`PagesComplete`), but an entry
  committed while it runs, with a time before the cursor, is not in it: a client that
  keeps a cursor to fetch "what is new" can miss entries.
* README.md:243 gives the page limit as "máximo 200"; a larger one is not cut to 200
  but replaced by 50 (`queries.go:39`, `EffectiveLimit`). Listings stay complete. So is a limit
  of zero or less, which no listing asks for because the HTTP handler refuses it.

Bounds. Two handlers and up to two reference workers are enough for every race
between a pair of actors that the code has; three transaction ids because the longest
chain of references the code allows is bet, refund, rollback of the refund;
`MaxAttempts` 2 and `BatchSize` 2 so that both the first and the last attempt, and
both a partial and a full batch, occur; `MaxMoney` 3 on balances of 2 so that a
credit can overflow and a debit can take all. `MaxSends` bounds requests (2 or 3 of
them; a repeat of a request is one of them), `MaxFaults` failed statements, lost
acknowledgements and crashes together. `reversals` runs without faults, so that
four requests fit; its invariants and its refinement are proved for any number of faults. In `Outbox` claims last one or two ticks, `Horizon` is where older
instants stop being told apart, and in `publish` a
clock reading may be one tick old and the base delay exceeds the cap, so that the first
failure meets it. Delays that double several times need more failures than a run can
hold; `OutboxTypes` bounds them for every number of attempts. A claim skips the rows that
another publisher is just marking (`Marking`), as `SKIP LOCKED` does. Handlers are symmetric; the runs with a liveness
property use no symmetry.

In `consume` `MaxReceive` is 2 instead of the 5 of the redrive policy, so that a
message is dead-lettered after one failed retry; the shutdown is the first consumer's
(the two are interchangeable, so that is no restriction); batches of one and
of two occur; the bet takes the whole balance, so that a refund handled first is parked
and may be given up. There is one wallet, so no twins; the theorems of `ConsumerProofs` hold
for any commands, twins included. In `audit` there are two instants, so that entries tie and precede earlier commits, and the
ids do not follow the transactions. In `money` `Half` is 64 and the scale 10; whole parts
reach beyond the largest integer, and products wrap around up to five times.

Deadlock is checked in every run: `Quiescent` lets the system rest only when all
workers are idle and no message is left.

Fairness. Handlers and resolvers are goroutines, and resolvers and publishers poll on a timer
(`worker.tick`): weak fairness of their steps. A contended row lock is granted by
PostgreSQL in arrival order: strong fairness of the two `GetForUpdate` actions. Time
passes: weak fairness of the clock actions. Clients owe nothing: no fairness of
`Submit`, and a reference may never arrive. Faults are bounded, so a worker is not
interrupted for ever. For the consumer one weak fairness is enough (`Progress`): the
loops, the end of a shutdown, the visibility timeout and the redrive policy do not all
stand still while any of them can go on. That is weaker than what goroutines and
SQS give, and suffices because a message is received a bounded number of times.

## What is proved

Every theorem holds for every set of workers, wallets, commands, messages and events and
for every bound; nothing is assumed of them but the named assumptions below. Between them
the theorems state every invariant of the passing runs, the action property
`TerminalFrozen` and the refinement `ImplementsAtomic`.

| Theorem | States | Module |
|---|---|---|
| `Invariance` | `[]IInv` | `WageringProofs` |
| `TypeCorrect` | `[]TypeOK`: no balance, stored or buffered, is negative or beyond `MaxMoney` | |
| `LedgerIsChain` | `[]LedgerChain` | |
| `CASIsRedundant` | `[]CASNeverFails`: the version check of `UpdateBalance` never fails, the row lock is enough | |
| `RowInvariance` | `[]RowInv` | `CommitProofs` |
| `SettledStaysSettled` | the action property `TerminalFrozen` | |
| `ReversedAtMostOnce` | `[]AtMostOneReversal` | |
| `SlotsAreUnique` | `[]OneWalletPerSlot` | |
| `AnswersStand` | `[]AnswerStands` | |
| `HandledAreRecorded` | `[]HandledMessagesAreRecorded` | |
| `ConflictsAreReal` | `[]NoFalseConflict` | |
| `CoreInvariance` | `[]CoreInv` | |
| `MoneyMovesOnce` | `[]MoneyMovedOnce` | |
| `JournalIsDoubleEntry` | `[]JournalMirrorsLedger` | |
| `OutboxTellsState` | `[]EventsTellState` | |
| `ReversalsUndo` | `[]ReversalUndoes` | |
| `RequestsAreAnswered` | `[]AnswersTheRequest`, where `NoTwins` holds | |
| `RefinementInvariance` | `[]RefinementInv` | `RefinementProofs` |
| `Implements` | `ImplementsAtomic`: `Wagering` implements `AtomicWagering` | |
| `QueryInvariance` | `[]QueryInv` | `QueriesProofs` |
| `VerdictsExplained` | `[]VerdictExplained` | |
| `PagesAreComplete` | `[]PagesComplete` | |
| `OutboxInvariance` | `[]OutboxInv` | `OutboxProofs` |
| `OutboxTypes` | `[]TypeOK` | |
| `PublishedWereDelivered` | `[]PublishedIsDelivered` | |
| `ClaimsAreExclusive` | `[]LiveClaimsDisjointWithoutFaults` | |
| `ConsumerInvariance` | `[]ConsumerInv` | `ConsumerProofs` |
| `ConsumerTypes` | `[]TypeOK` | |
| `NothingIsLost` | `[]DeletedWereSettled` | |
| `StoppedLoopsHoldNothing` | `[]StoppedHoldsNothing` | |
| `MessagesKeepTheirOrder` | `[]OvertakesOnlyFailed`, where message ids are distinct | |
| `SumsAreExact` | `[]SumsExact` | `MoneyProofs` |
| `ParseIsExact` | `[]ParseExact` | |
| `ExchangeIsFaithful` | `[]ExchangeFaithful` | |

Assumptions, which TLC evaluates in the runs:

* `MaxMoneyAssumption`, `WageringAssumption`: ids of different kinds are distinct, amounts
  are representable, the wallets that exist at the start have different slots.
* `OutboxAssumption`: sizes and delays are naturals, and a claim lasts at least as long as a
  clock reading may be old (30 seconds against the length of one statement).
* `ConsumerAssumption`: sizes are naturals, a posted message has a message id or none.
* `QueriesAssumption`: instants are integers, ids of entries are distinct and ordered
  (UUIDs), a default page has an entry and fits the largest page.
* `MoneyAssumption`: the scale is positive and an integer can hold it (2^63 and 100 do).
* `NoTwins` is a hypothesis of `RequestsAreAnswered` alone: no two requests with one
  key and one provider identity are for different wallets. A provider whose operation
  has one wallet keeps it. The commands of `doors` satisfy it, those of `twins` do not, and
  there the property fails.
* `DistinctIds` is a hypothesis of `MessagesKeepTheirOrder` alone. A provider that uses one
  message id twice has the second message done as soon as the first is (the inbox is
  keyed by it), whatever was sent between them.

The arguments, and why each invariant is needed:

`IInv`. `LedgerChain` is not inductive. A commit extends the chain because of what the unit
of work buffered several steps before, and that is right because the wallet it
was computed from has not changed since. `IInv` therefore says for each worker:
which locals its position may rely on (`Shape`); between its lock and its commit it
owns the row lock and `seen` is the committed wallet (`Locked`); a buffered
movement starts at `seen.balance` and ends at the buffered balance (`Continues`); an
opening works on a wallet id that is its own and not yet stored (`Unborn`). One
lemma per action shows that it keeps `IInv`. The frame lemmas carry the essential
argument: the only step that changes a wallet is the commit of a worker, and that worker
holds the lock or opens the wallet, so what every other worker knows stays true.

`RowInv`. That a transaction is reversed once, or that a settled row is final, depends on
what a worker read since it took the lock and on what the others may have written since.
`RowInv` says of each worker whose row it works on (`About`), that the row is its own to
insert or still parked (`Owns`), that what it has buffered is the settlement it decided
(`Buffers`), that the decision still stands (`Planned`: the reference is settled as it
was read and has not been reversed since) and what its answer rests on (`Answered`); and of
any two workers that they never write the same row, key, identity, message or slot (`Apart`).
`Planned` survives a commit of another worker because a reversal works under the lock of the
wallet of its reference: a second reversal of it would need the same lock. `Apart` is where the
unique indexes and the row lock of an update enter; `recordPermanentFailure`, which takes no
wallet lock, is kept off by the row lock and the terminal guard alone.

`MoneyInv`. Ledger, journal and outbox change in a commit only, together with the row, and
`RowInv` says that what is then applied is `Settlement` of a row that had moved nothing.
`ReversalUndoes` needs in addition which way each transaction moved money
(`DirectionsKept`), because a reversal takes its direction from the kind of its reference and
not from the ledger; `EventsTellState` needs that no event announces a movement that is
still to come (`ChangesHaveEntries`).

`RequestInv`. A result is found by message id, by key or by identity. A message is recorded with
the payload of the transaction it stands for, and the key lookup compares payloads. The
identity lookup compares keys only; what it finds under the request's own key comes from a
command (rows come from nowhere else) with the same key and identity. Were it for the same
wallet, whose lock the request has held since before the key lookup, the row would
have been found there already, and its payload compared; so it is a twin. `RequestInv` says
this of all commands; `NoTwins` leaves only the request's own row, which is `AnswersTheRequest`.

`RefinementInv`. Every step but a commit leaves the mapped tables alone. For a commit `CoreInv`
says what is applied; what remains is that `AtomicWagering` could have decided the same on the
tables as they now are. `PlanStands` says so from the decision to the commit: no one else commits
to the wallet that is locked, so what was read of it is still there; a reference that was read
settled is final; and a reference that a commit on another wallet stores meanwhile, or that
`recordPermanentFailure` marks, is `Elusive`, so that the old plan remains a choice. A
reference worker on its last attempt rejects with `REFERENCE_NOT_FOUND` where a
first attempt would park, so for it the plan stands if parking does. That a repeat is answered
with a row the atomic service would also have given is `RequestInv`. With this the commit of
each kind of job is shown to be the corresponding step of `AtomicWagering`.

`QueryInv`. The ledger only grows, so what the auditor or the client has read stays a prefix of
it or a part of it. `LedgerChain` makes the last balance the sum of all entries; this is the one
place that needs induction over data, and it is done with the well-ordering of the naturals
(a least prefix whose sum is not its balance cannot exist). For a listing the essential
point is that an operation has one ledger entry, so that no commit changes the time of
an entry that is already there, and the order of the pages is fixed for the old entries: a page
ends at an entry behind which lies everything that is not yet shown.

`OutboxInv`. A row is marked by what a publisher was told before (`BatchKnown`: the events
of a batch are committed, a mark of success follows an accepted send), and an event the
queue drops as a duplicate has been delivered. The claims are disjoint because the
remaining time of a publisher is what is written in its rows. This holds until the first
fault only; `release` shows what happens then.

`ConsumerInv`. The order of effects is decided by the queue when it hands out a batch and kept
by the loop over it, and neither knows enough alone. `InOrder` says that of each group a
batch holds the first messages that have not passed, that the loop has begun the first
of these, and that all it has begun have passed but the one it handles; it stays true for a
consumer whose visibility timeout has run out and whose messages another one handles.
`LoopKnows` adds that receipts are never newer than the queue's, that a loop deletes only
what is settled and that it does not hold what it gave back.

`MoneyProofs` needs no strengthening: a call computes its result in one step, and the work
is in the lemmas about the operators. A sum is out by one turn at most, so the wrapped sum
is on the wrong side of `a`. For a product the argument is that the wrapped result lies
within `Half` of zero while the true one lies beyond it, so that dividing it by the
scale cannot give the factor back; this holds however often it has wrapped. A magnitude is
split by the scale and put together again, which is division with remainder.

Only model-checked:

* `ParkedEventuallySettle`, `PendingEventuallyPublished`, `EventuallyDisposed`: liveness under
  fairness, and `ENABLED`, are out of the prover's reach.

`LiveClaimsDisjoint`, `OrderedPerGroup` and `NeverInconsistent` are false, and their runs show it.

## Not modelled

* Token verification, routing, error mapping, configuration, wiring, metrics, tracing,
  the migration runner: no protocol state.
* `GetWallet`, `GetTransaction`, `GetProviderTransaction`: single reads of committed rows.
* CHECK constraints, append-only triggers and the journal balance trigger: they
  stop writes that no code path makes; `JournalMirrorsLedger` and `LedgerChain`
  state what they protect.
* `locked_by` of the outbox: written, never read.
* The tick loops of the reference worker and the publisher keep nothing from one pass to
  the next; a pass that the shutdown budget cuts off is the `Crash` of their models.
* The order in which a claim takes parked rows: with times as flags, starvation of the
  batch by rows that always fail (`transaction_repo.go:136`) cannot be stated. The
  `poison` run shows the cause.
* The payload hash covers ids as the client spelled them (`consumer.go:239`,
  `handlers.go`), so a repeat with another spelling of a UUID is a conflict; a body in
  the models is the spelled payload.
* The queue's own deduplication window on the request queue: it only removes messages
  a provider sends twice, which the inbox and the keys handle as well.

## Plan

Done: all models of the table above; the proofs of `CoreInv`, `RefinementInv`, `QueryInv`,
`OutboxInv`, `ConsumerInv` and of the safety properties that rest on them; the refinement of
`AtomicWagering`; `MoneyProofs`.

Left: the three liveness properties, which stay with TLC; times of attempts instead of flags for
parked rows, if starvation of the claim is to be stated; the single reads and the error
mapping of the HTTP layer.
