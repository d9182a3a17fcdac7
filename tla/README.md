# TLA+ models of soroban-rpc's event index

This directory holds TLA+ specifications of the parts of soroban-rpc that are
in the repository snapshot. It has:

- TLC configurations that model-check the specifications on small instances;
- TLAPS proofs, for every value of the constants, of every safety invariant
  and action property that a passing run checks.

The code modelled is:

- `db/event.go`, found in `src/unnamed/part_000`, lines 293-556: the event
  index and the event-table migration;
- the integration-test helpers `getFreeTCPPort` and `CreateTransactionParams`
  in `infrastructure/util.go`.

The components it talks to and that are absent from `src/` are modelled from
`spec.md`: the cursor type, the ledger store, the ingestion service and the
migration framework. Those definitions are marked `spec_modelled` in
`PROJECT.json`.

## The system

| Part | Source | Module | Status |
|---|---|---|---|
| Cursor `(ledger, tx, event)`, its ordering, and `CursorRange` | spec only | `Cursor` | partly |
| Event index: `InsertEvents`, `trimEvents`, `GetEvents` | part_000:338-513 | `EventIndex` | modelled |
| Ledger store (LCMs by sequence, trimmed to the window) | spec only | `EventIndex` (`stored`) | partly |
| Ingestion transaction (open, insert, commit with `meta.latest`, rollback) | spec, around part_000:338-425 | `EventIndex` | partly |
| Event-table migration | part_000:515-556 | `Migration` | modelled (framework spec-modelled) |
| Transaction index and `GetTransaction` | test only, part_000:1-292 | — | planned |
| `getFreeTCPPort` (test `util.go` 19-28) | util.go | `FreePort`, refines `FreePortContract` | modelled |
| `CreateTransactionParams` (test `util.go` 30-40) | util.go | `TxBuild` | modelled, with the network's sequence check |
| `GetCurrentDirectory` (test `util.go` 13-17) | util.go | — | not modelled (path computation, no state) |
| CORS test, docker Makefile | | — | not modelled (I/O, build) |

### How the parts interact

One ingestion task writes. For each new ledger it does the following:

1. It opens a database transaction and stores the ledger-close-meta (LCM).
2. It calls `InsertEvents`, which reads the LCM's transactions in order. It skips
   failed transactions and transactions without diagnostic events. For every
   other transaction it INSERTs one `(ledger_sequence, application_order,
   contract_id)` row per diagnostic event.
3. It calls `trimEvents` through the same statement cache, so the trim is
   inside the transaction.
4. It sets `meta.latest` and commits.
5. After the commit, the ledger store is trimmed to the retention window.

Any failure rolls the transaction back.

A request thread runs `GetEvents` concurrently:

1. One SELECT joins the matching event rows with their LCMs.
2. A loop decodes each row's transaction and calls the visitor on each of its
   diagnostic events.
3. The loop returns early if the visitor returns false.

## Module `EventIndex`

State:

- `chain[seq]` is the LCM upstream closes at `seq`. It is a sequence of
  transactions `[ok, events]`, where `events` are the contract ids of the
  diagnostic events.
- `stored` is the set of ledgers in the ledger store.
- `events` is the committed events table. It is a multiset, `RowKey -> copies`,
  because the table has no key.
- `latest` is `meta.latest`.
- `wopen`, `wseq`, `widx` and `wrows` are the open ingest transaction: its ledger,
  the transaction `InsertEvents` reads next, and the uncommitted rows.
- `trimDue` is the pending post-commit ledger trim.
- `rstate`, `rstart`, `rend`, `rfilter`, `rpending` and `presented` are the
  `GetEvents` call: its range, its filter, the selected rows not yet scanned,
  and the visitor calls so far.
- `rexpect` is a ghost variable: the cursors the call should present.
- `rcancel` records the moment the request's context was cancelled: the
  number of visitor calls made by then, or `NoCancel`.

Actions and the code behind them:

| Action | Code |
|---|---|
| `BeginIngest` | opening the transaction and the reader (338-359); `txCount == 0` is the loop ending at once |
| `InsertEventsSkip` | one turn of the loop that `continue`s (372-383) |
| `InsertEventsExec` | one turn that INSERTs a transaction's rows (385-399) |
| `CommitIngest` | EOF (364-367), then `trimEvents` (412-425) inside the transaction, then the commit |
| `AbortIngest` | any error return (349-353, 368-379, 397-398) followed by rollback |
| `TrimLedgers` | the post-commit ledger-store trim |
| `Crash` | the process dies: rollback, the trim is forgotten, the scan is gone |
| `GetEventsSelect`, `GetEventsSelectFail` | the query (444-455) and its error (457-462) |
| `ScanRow`, `StopScan`, `ScanDone` | the row loop (473-504), the visitor returning false (500-501), and the normal return |
| `Cancel` | the client cancels the request's context during the scan; the loop does not look at it |

`trimEvents` is computed in uint32 arithmetic (`% U32`), as in the code.

## Runs of `EventIndex`

The runs of `EventIndex` use `MC_EventIndex.tla` with the following instance:

- ledgers 2..4, starting from `firstLedger` = 2;
- at most 2 transactions per ledger;
- retention window 2;
- `U32 = 8`;
- two contracts, plus events without a contract.

The LCM contents are:

- an empty ledger;
- one successful transaction with events of `c1` and `c2`;
- a failed transaction followed by a successful one with a contract-less event.

Queries use:

- starts `(2,1,0)` and `(3,2,1)`;
- ends `(5,0,0)` and `(4,1,0)`;
- filters `{}` and `{c1}`.

These bounds are enough for the following to happen:

- the window slides, since the ledgers go past the retention window;
- trims delete rows;
- a transaction has events of two contracts;
- failed transactions and transactions without events occur;
- a start cursor falls inside a transaction;
- a range ends before the last ledger;
- every interleaving of ingest, abort, crash and trim steps with a scan is
  explored (68,277 distinct states, with cancellation).

| Run | Expect | What it shows |
|---|---|---|
| `ingest_and_scan` (`MC_EventIndex.cfg`) | pass | `TypeOK`; `IndexMatchesStore` (the committed table is exactly the index of the stored ledgers of the window, with no lost, duplicated or stale row, whatever the interleaving of ingests, aborts, trims and crashes); `RetainedLedgersStored`; `ScanSound` (every presented event lies in `[Start.Ledger, End.Ledger)`, is from a successful transaction, and under a filter from a transaction of a requested contract) |
| `scan_start_event` | violation of `ScanInRange` | `Start.Event` is ignored, so with Start `(3,2,1)` the visitor gets `(3,2,0)` (line 448) |
| `scan_filter` | violation of `ScanFilterSound` | the filter selects rows, but every event of the transaction is presented (line 498) |
| `scan_order` | violation of `ScanCursorsIncrease` | one row per event, and each row presents the whole transaction, so cursors repeat (473, 451) |
| `scan_complete` | violation of `ScanComplete` | `application_order >= Start.Tx` applies to every ledger, so ledger 4 transaction 1 is lost (449) |
| `scan_cancel` | violation of `ScanHonoursCancel` | after `Cancel` the loop presents the next row's events: `ctx` is never read (473) |

The five violations are recorded as findings in `PROJECT.json`. The comment on
`GetEvents` and spec sections 4.3, 5 and 8 promise more than the query and the
loop deliver.

No fairness is assumed in this module, and no liveness property is checked
of it. Once its rows are selected, the row loop (473-504) is a loop over a
finite result, so a property that the scan ends would say nothing about the
code. What can go wrong with the loop, that it ignores a cancelled context,
is the `scan_cancel` violation.

## Module `Migration` (composition with `EventIndex`)

`Migration` EXTENDS `EventIndex` and adds the upgrade to a version with the
events table. State added:

- `phase`: `legacy` (the old version), `pending` (the new version started,
  migration not yet run), `running`, or `done`;
- `mfirst` and `mlast`: the migration's `ApplicableRange`;
- `mnext`: the next ledger the runner applies;
- `mrows`: the rows of the open migration transaction.

| Action | Code |
|---|---|
| `LegacyIngest`, `LegacyTrim` | the old version: it stores LCMs and trims the ledger store after the commit, so it may stop between the two |
| `Upgrade` | restart with the new version; the pending ledger trim is lost |
| `MigrationStart` | `newEventTableMigration` (532-556): `first = latest - W` if `latest > W`, else `firstLedger` |
| `MigrationApply` | `ApplicableRange` and `Apply` (521-530): `InsertEvents` of a stored LCM of the range, in ascending order |
| `MigrationAbort` | `Apply` fails or the process dies: rollback, and the next start retries |
| `MigrationCommit` | the rows commit together with the migration marker |
| `Serve` | after the migration, every action of `EventIndex` |

The run `migration` (`MC_Migration.cfg`) uses ledgers 2..5 and window 2, so
the old version's ledgers slide out of the window before the upgrade. It
explores 384,628 distinct states and checks two invariants:

- `IndexHealsAfterIngest`: once a ledger past the migrated range has been
  ingested, the table equals the index of the retained stored ledgers;
- `MigrationExtraLedgerOnly`: after the commit, the table differs from that
  index only in the rows of ledger `latest - W`. This holds even when the old
  version skipped trims and its store holds older ledgers. Its mutant,
  `MigrationStartWholeStore`, starts the range at `firstLedger` and indexes
  those older ledgers too.

`Migration` assumes `StartLedger >= firstLedger` (`MigLedgerAssumption`).
Ledger 1 is the genesis ledger and no LCM describes it. With `StartLedger = 1`
and a window that reaches back to the start of the chain, ledger 1 would be
retained but outside the migrated range. TLC confirms that
`IndexHealsAfterIngest` then fails. The run
`migration_equivalence` finds `MigrationEquivalent` violated. Right after the
commit the table can hold ledger `latest - W`, which `trimEvents` would have
removed. Spec section 6 gives the same `first` as the code, but its property 7
(the migrated table equals what ingestion would have produced) does not hold
until the next ingest trims that ledger. The mutant `LedgerRowsWithFailed`
indexes failed transactions during the migration and breaks
`IndexHealsAfterIngest`.

## Module `FreePort` and its contract `FreePortContract`

`getFreeTCPPort` resolves `localhost:0` and listens on it, so the kernel
binds a free port. It reads the port, the deferred `Close` releases the
listener, and it returns the port as a `uint16`. Tests call it concurrently.
The kernel's table of bound ports is shared.

- State: `pc` per call (`resolve`, `listen`, `ret`, `done`, `failed`), the
  call's listener port `lis` (0 for none), and the returned `port`.
- Actions: `Resolve`/`ResolveFail` (21-22); `Listen`, which binds a port of
  `Ports` that no listener holds (24), and `ListenFail` (24-25), which may
  happen at any time: all ephemeral ports are held, or another error occurs; `Return`, which converts to `uint16` and then closes (26-27).
  `require.NoError` ending the test is the `failed` state.
- Fairness: weak fairness per call (`Fairness`). Each call runs on its test's
  goroutine and none of its steps waits for another call.

`FreePortContract` is what a caller may rely on: in one step a call returns a
port of the range or fails, and it eventually does one of the two.
`FreePort` instantiates it with `pc` mapped to `start` before the return. The
run `free_port` checks `ContractSpec` as a PROPERTY. It uses three calls and two ports, so a call can find every
port bound (305 distinct states).

The run `free_port_reuse` checks `DistinctPorts` (two finished calls returned
different ports), which is what callers assume when they give the ports to
different servers. It is violated. The port is closed before the caller uses
it, so the next call may be given the same port. The finding is a `code_bug`
at util.go:26.

## Module `TxBuild`

`CreateTransactionParams` (util.go:30-40) sets `IncrementSequenceNum`, one
operation, `MinBaseFee` and infinite time bounds. `TxParams` is that record,
and `TxSeq` reads the flag. What happens to the params afterwards is not code
of this repository, and the model states it as the environment the tests rely
on:

- `Build` is a test's `txnbuild.NewTransaction` with the params. The account
  object's sequence becomes the transaction's: one past the old value when
  the flag is set, the old value when it is not.
- `Submit` and `Lose` (a submission lost).
- `Apply` and `RejectBadSeq` are the network's sequence-number rule. A
  pending transaction is applied when its number is one past the account's
  on-chain number, and rejected with `txBadSeq` otherwise.

With infinite time bounds the network never expires a pending transaction,
so the model has no expiry action.

The run `tx_build` uses one account at sequence 5, three transactions, two
operations and any submission order (629 distinct states). It checks the
action property `BadSeqOnlyAfterGap`: a transaction is rejected with
`txBadSeq` only while an earlier transaction of the account is lost,
rejected or pending. This is what lets a test submit its transactions one
after the other. Its mutant `TxParamsNoIncrement` leaves
`IncrementSequenceNum` at false. Then the first transaction carries the
account's current number and is rejected with nothing before it.

## Proofs

### `EventIndex_proofs`

`IInvHolds`, `TypeCorrect`, `IndexMatchesStoreHolds` and
`RetainedLedgersStoredHolds` are proved for every
value of the constants. They
rest on the assumptions of `EventIndex`:

- `MaxLedger + 1 < U32`, so the `% U32` in `trimEvents` never wraps;
- `MaxTx < U32`;
- `RetentionWindow >= 1`;
- every LCM in `Blocks` is a sequence of well-formed transactions.

The invariants are not inductive by themselves. `IndexMatchesStore` says
nothing about the rows the open transaction has written, so a commit could
break it. The inductive invariant `IInv` adds the following:

- `WriterInv`: an open ingest is for `NextLedger`, and its uncommitted rows are
  exactly `PartialRows(wseq, widx)`, the rows of the transactions read so far.
- `StoreBelowLatest`: the store holds no ledger past `meta.latest`, so the
  ledger being ingested is not yet stored and has no committed rows.
- `PendingReal`: every selected row names a real transaction of its LCM. It
  makes the scan steps well-typed.

TLC checked `IInv` as an invariant of the run before it was proved.

The proof of `NextIInv` has one case per action, and in each case one step per
conjunct the action can disturb. The commit case is the heart of it:

- rows of `wseq` go from 0 to `RowCount`, since `PartialRows` at the end of the
  LCM is the full count;
- rows below the cutoff `wseq + 1 - W` go to 0, and these are exactly the
  ledgers that leave the window.

The lemmas include:

- `TxOfBlock`, `BlockLen`, `OccNat` and `RowCountNat`, which type the data;
- `ModSmall` and `NextLedgerFacts`, for the uint32 arithmetic;
- `RowEventsType`, for the visitor calls.

`IndexMatchesStore` is the only conjunct whose preservation needs
`IndexMatchesStore` itself, so the step lemma is split in two:

- `NextCoreInv` keeps `CoreInv` (every conjunct but `IndexMatchesStore`). It
  assumes only that every committed row names a transaction (`EventsReal`).
- `NextIndex` keeps `IndexMatchesStore`. Its commit case is `CommitIndex`:
  a table that indexes the stored ledgers from some `lo` on becomes the index
  of the window after a commit, provided every stored ledger the commit keeps
  is at least `lo`.

The split is what lets `Migration_proofs` reuse the whole step proof in the
phase where the table holds one ledger more than the window.

TLC checked `ScanInv` on the `ingest_and_scan` instance before it was proved.

### `Migration_proofs`

These results are proved for every window, ledger range and LCM contents,
from the assumptions of `EventIndex` and `MigLedgerAssumption`:

- `MIInvHolds`;
- `IndexHealsAfterIngestHolds`;
- `MigrationExtraLedgerOnlyHolds`.

The inductive invariant `MIInv` states the following:

- `CoreInv` holds in every phase.
- Before the migration commits, no ingest is open, the table and the scan
  rows are empty, and, once the old version has stopped, no ledger trim is
  due.
- A running migration has `mlast = latest` and
  `mfirst = MigFirst(latest)`. Its transaction holds exactly the rows of the
  stored ledgers of `[mfirst, mnext)` (`MigRows`).
- After the commit and until the first ingest, the table is `MigIndex`: the
  index of every stored ledger from `mfirst` on. No trim is due in this phase.
- After the first ingest, `IndexMatchesStore` holds.

The proof has one lemma per action:

- `MigrationApplyMIInv` extends `MigRows` by one ledger.
- `MigrationCommitMIInv` turns `MigRows(mnext)` into `MigIndex`, since no
  stored ledger lies past `mlast = latest`.
- `ServeMIInv` reuses `NextCoreInv`. In the phase before the first ingest, the
  first commit is `CommitIndex` with `lo = mfirst`. Every ledger the commit
  keeps is above `latest + 1 - W`, which is above `mfirst`; or, for a short
  chain, it is at least `StartLedger >= firstLedger = mfirst`. Every other
  step leaves the table alone (`StepFrame`). After the first ingest, `IInv`
  and `NextIInv` apply directly, and `meta.latest` only grows
  (`CommitAdvances`).

TLC checked `MIInv` on the `migration` instance (384,628 states) before it
was proved.

### `FreePort_proofs`

- `ImplementsContractSafety`: `Spec => Contract!Init /\ [][Contract!Next]_...`.
  `Resolve` and `Listen` are stutters of the contract, the failures are
  `Fail`, and `Return` is `Get`.

It rests on `PortsAssumption` (`Ports` is a non-empty subset of
`1..MaxPort`). The inductive invariant says that a listener is held only by a
call about to return (the deferred `Close`), and that such a call holds a
listener on a port of the range. With it, `uint16(lis[c]) = lis[c]`
(`Uint16Port`), so the returned port is in the range. The fairness half of the
refinement needs ENABLED and is checked by TLC only.

### `TxBuild_proofs`

`BadSeqOnlyAfterGapHolds` proves `Spec => BadSeqOnlyAfterGap` for every
`MaxTxs` and `Seq0`. It rests on an invariant `IInv` with three facts:

- the account object is `Len(txs)` past `Seq0`, because
  `IncrementSequenceNum` bumps it on every build;
- the i-th transaction carries `Seq0 + i` (`ConsecutiveSeqs`);
- the applied transactions are exactly the first `chainSeq - Seq0`
  (`AppliedUpTo`).

`RejectAfterGap` is the core step. If every transaction before the i-th is
applied, then `chainSeq = Seq0 + i - 1`. The i-th transaction then carries
the next number, so it cannot be rejected. TLC checked `IInv` on the
`tx_build` instance before it was proved.

### What stays with TLC

- Liveness: the fairness part of `ContractSpec`. TLAPS 1.4.5
  cannot reason about ENABLED or liveness under fairness here.
- The properties the violation runs refute (`ScanInRange`, `ScanFilterSound`,
  `ScanCursorsIncrease`, `ScanComplete`, `ScanHonoursCancel`,
  `MigrationEquivalent`, `DistinctPorts`). They are false of the code. What
  does hold in their place is proved: `ScanSound` for the scan, and
  `MigrationExtraLedgerOnly` for the migration.

Every invariant and action property of a passing run has a theorem.

## What is not modelled

- Event payloads, event types, transaction hashes and close times are not
  modelled. No property distinguishes them.
- XDR encoding and decoding, and the `Close` error lost by the deferred
  function (356), are not modelled. The lost error is listed as a hazard.
- Request cancellation is modelled only as the client's `Cancel`. `GetEvents`
  never checks `ctx`, so there is nothing more in the code to model.
- The transaction index and `GetTransaction` are not modelled: only their test
  is in the snapshot.
- `GetCurrentDirectory` is `filepath.Dir` of `runtime.Caller(1)`. It is a path
  computation of library code and holds no state.
- Client timeouts and retries of a transaction submission are not modelled.
  No code of the repository retries a submission.
- The CORS test and the Makefile have no state to model.

## Plan for the next steps

1. Transaction index and `GetTransaction`, spec-modelled, checked against the
   scenario of `TestGetTransaction`.
2. An abstract specification of the event index (a map from ledger to its
   events within the window), with `EventIndex` shown to refine it.
3. The refinement of that abstract index by `EventIndex`, proved with
   `IInv`.
