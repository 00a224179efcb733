# CardScope: a formal model

CardScope keeps a collection of trading cards. It is a Svelte application that
works offline on IndexedDB (`src/`), a small Node service (`server/`) with one
SQLite database, and a protocol that merges the collection of several devices:
every change is an event, the service gives it a place in the account's log, and
each device replays the log. This directory models that protocol, and the
catalogue proxy the service also is, in TLA+, checks the models with TLC and proves part of
them with TLAPS. Paths below are relative to the
repository.

## 1. Inventory

| Component | State | Operations | Hard behaviour | Correct when | Modelled in |
|---|---|---|---|---|---|
| Central event store, `server/store.ts` | accounts (generation, retention), event rows with an AUTOINCREMENT sequence, shared card and quote snapshots, the generation counter | `sync`, `deleteAccount`, `pruneExpiredAccounts`, counter migration, compaction of an earlier release's rows | several transactions per sync, crash between them, retries, expiry that the bounded cleanup has not reached, half-compacted tables, quotas met half way | a generation is never reused, no row outlives its generation, every log replays, snapshots are exactly the referenced ones, a page makes progress | `SyncStore`, `StoredEvents` |
| Payload codec, `server/sync/codec.ts`, `shared/collection-event-schema.ts` | none | compact, expand, identity, validation | optional fields, a field dropped on the way makes a retry a conflict | what is stored and sent back is the event that was given | `EventCodec` |
| Synchronization of a device, `src/App.svelte`, `src/lib/db.ts`, `src/lib/api.ts` | per account: generation, cursor, sequenced events, queue, acknowledgements, mutation lock | `synchronizeAccount`, `synchronizeAccountGeneration`, `deleteCloud`, edits | many small IndexedDB transactions per response, tabs that share the database, late answers, 409, crashes | nothing unsent is lost, nothing deleted returns, the cursor leaves no hole, queued changes are saved | `AccountSync` |
| Operation semantics, `src/lib/collection.ts`, `server/store.ts` | none | replay, validation, timestamps, duplicate search | clocks that lie, two orders of events | a domain always replays and can always be edited | `HoldingLog`, `Collection` |
| Collection repository, `src/lib/db.ts` | events of every domain, a snapshot per tab | add, adjust, update, remove, import, restore, refresh, notify | two tabs, account changes during a refresh, backups of other devices | a tab comes to show what is stored, and never another account's | `Collection` |
| Sync coordinator, `src/lib/sync-coordinator.ts` | running, rerun requested, timer, retry count, visible state | `request`, `run`, `stop`, failure handling | triggers during a run, retries, offline and signed-out states | a requested sync is eventually run | `SyncCoordinator` |
| Enrollment, `src/App.svelte`, `src/lib/db.ts`, `src/lib/auth.ts` | anonymous domain, pending enrollment record, intent | claim, guarded first write, confirmation, probe, return | lost acknowledgement, reload at every step, remote history not empty, account changes | the anonymous collection is neither lost nor given to the wrong account | `Enrollment` |
| Catalogue service, `server/catalog/service.ts`, routes of `server/app.ts` | in-flight map, circuits, cache table | search, card, prune | coalesced calls, circuits shared and renewed by late answers, stale entries, a signal | a caller gets its answer, a broken provider is left alone | `Catalogue` |
| Catalogue request guard, `server/catalog/guard.ts` | windows, slots, client table | `enter`, release | limits at their edge, a full table | who comes back when told to is let in | `RequestGuard` |
| Valuation, `src/lib/value.ts` | none | choice of a quote, totals, coverage, review | missing prices, two currencies, corrections | a quote, a total or a net is never of something else | `Valuation`, `Collection` |
| Scanner, `ScannerPage.svelte` | stage, candidates | recognize, choose, confirm | double submission, rejected add | | only its add |
| Service worker, `public/sw.js` | named caches | install, activate, fetch | half an installation, two versions | a served shell is complete | no |
| Token verification, configuration, HTTP plumbing, process lifecycle | key cache, timers | middleware, startup, shutdown | a stalled worker at shutdown | | in part |
| Scripts, `ml/` | files | batch jobs | | outside the running system | no |

How they interact. A device talks to the service by `POST /api/sync`, which stores and
pulls, and by `DELETE /api/sync`; the service answers `GET /api/sync` as well
(`server/app.ts:588-705`). The Kubernetes deployment runs at most one server process (Recreate, 0..1
replicas). Tabs of a device share IndexedDB and hear of each other's writes by a
BroadcastChannel. The coordinator calls `performSync`, which resumes a pending enrollment or
calls `synchronizeAccount`; that loops over generations, and inside one over pages.
`deleteCloud` locks the account's mutations, aborts and awaits the running sync,
sends the DELETE and clears the device. Catalogue searches of the scanner go to the same
service, which asks two providers on their behalf.

The hazards of this code, each at its line and with the properties about it,
are the list `hazards` of `PROJECT.json`; those without a property say why.

## 2. Modules

The service:

* `HoldingLog` - the operations (add, adjust, update, remove) and when a log of
  them is legal. A recursive function, so that it can be used in proofs.
  `Legal` is the test of `validateSyncOperationSemantics` for new operations;
  `After` is `applyStored`, which is total. `Collection` uses the same operators for the client's
  strict replay.
* `AccountLog` - the abstract promise of the service: per user a generation and
  a log; `Extend` appends new, distinct and legal operations, `Renew` starts an
  empty log in a generation above all issued before, `Forget` removes accounts.
* `SyncStore` - the store in detail. `accounts`, `events`, `objects` and
  `lastGeneration` are the tables `sync_accounts`, `sync_events`,
  `sync_shared_objects` and the counter in `sync_metadata`; `lastSequence` is
  SQLite's AUTOINCREMENT counter. Node is single threaded and the SQLite calls are
  synchronous, so handlers do not interleave, but `sync` is several transactions:
  `ReceiveSync` is the validation, the compaction of a few old rows and the bounded cleanup,
  and then one of `SyncExpired`, `SyncUnknown`, `RefuseAccount`, `RefuseExhausted`,
  `RefuseMismatch`, `RefuseConflict`, `RefuseEnrollment`, `RefuseInvalid`,
  `RefuseQuota`, `Commit` is the main transaction. `Restart` may come between.
  `raw` says that a row has `storage_version` 0: its snapshots are in the row and not in
  `objects`, and it counts with all its bytes. `Inherited` is what an earlier release may have
  left; a start and every sync make some of it compact (`MigrateLegacy`). Compaction and cleanup
  are transactions of their own in the code and one step here: a process that dies between them
  starts again with the compaction. Rows carry, as a history variable, the generation they were
  sent for (`epoch`), which the code does not store.
* `EventCodec` - what happens to the contents of one event: the snapshot of a card the
  scanner adds (`createHolding`), the schema of both sides, `compactSyncOperation` and its
  inverse, the two identities (of the service for retries, of the device for imports).
  A JSON object is a function on the names of the fields it has, so optional fields, `null`
  and a field that is missing are three different things.
* `StoredEvents` - both together: an operation of the store carries contents.
* `RequestGuard` - `CatalogueRequestGuard` as operators on a guard value: `Enter` gives the
  guards there may be after a call, because which of several idle clients is forgotten depends
  on the order of a `Map`.
* `Catalogue` - a request passes the guard, asks the cache, joins a flight or starts one, and
  the flight asks the providers in turn behind their circuits. One step is what happens between
  two provider answers. Circuits are objects: concurrent calls at a cold start each keep a
  private one (`cell`, named by the fetch that made it), and the map keeps the last (`circuit`).
  The search route asks for several languages at once and combines their outcomes. `Signal`
  is `shutdown.ts` with `server/index.ts`: every connection ends at once.

The browser:

* `AccountSync` - one account, the service, the devices and their tabs. Every
  IndexedDB transaction, message, timeout and crash is a step. `session` is the
  control state of `synchronizeAccount` in a tab: `attempt` (top of the loop over
  generations), `generation`, `cursor`, `queue` (the three reads), `wait` (the
  request is out), `apply`, `import`, `mark`, `advance` (the four transactions
  that record a response), `clear` (a 409), `invalid` (a 422). `base` is the
  events that have a server sequence, `queue` those that do not, `acked` the ones
  that carry `syncedAt`. `born` is a history variable. `deletion` is `deleteCloud`.
  The service answers in one step with what `SyncStore` would; `ServiceKeepsPromise`
  checks that this service, too, implements `AccountLog`, so the two models meet
  at the abstract log.
* `SyncCoordinator` - when a tab synchronizes: the class `SyncCoordinator` and the
  places of `App.svelte` that call it, are asked by it, or start a sync beside it.
  `state`, `running`, `rerun`, `timer` and `stopped` are the fields of the class
  (`timer` is `scheduledKind`; the retry count only chooses a delay and is left out);
  `flight` and `aborted` are `activeSync` and its controller, `suspended` is the flag
  `deleteCloud` sets, `known` says that the account's generation is known,
  `announced` that an edit is committed whose `scheduleSync` has not been called.
  A step is one JavaScript task. What a sync does is reduced to `Answered` (the generation is
  known) and `LastRead` (the queue was read and found empty); `AccountSync` has the rest.
* `Enrollment` - one browser, its tabs and accounts. `owner` is the domain of an event,
  `record` the enrollment record (`claimed`, and `attempted` once the guarded batch was sent),
  `intent` and `dismissed` what `localStorage` and the tab remember of the user's choice.
  `session` is `performSync` with `resumePendingEnrollment` and the merge decision; `adding` is the
  domain `add()` captured before it waits. Each transaction a decision depends on, each message
  and each reload is a step. `home`, `adopted` and `slipped` are history variables.
* `Collection` - the repository of one browser and what its tabs show. An edit waits
  (`edits`) and is then committed in one transaction that replays the domain strictly. `Touch` is
  what `adjustQuantity`, `update` and `remove` do before it: they read the domain, look the holding up and
  stamp the event. `Corrected` is what `CollectionPage` makes of a correction: the new field and, for a finish or a
  condition, the quote that suits the copy as the page shows it (`seen`), which may be older than the domain.
  `told` is the payload of an event, field by field; a holding (`HoldingsOf`) has of each field what was
  told last. `reads` are
  the refreshes that wait for IndexedDB, `notified` the tabs with a message of the BroadcastChannel, `phase` how far
  a change of account is (`observeAuthState`). CSV rows, backups, merging and replacing are
  `ImportRows`, `Merge`, `Replace`.
  A timestamp is three things in the code. It is compared as text with `localeCompare` when a domain is replayed
  (`Collated`, `collection.ts:237`) and with `>` when the last one is looked for by an import (`Ordered`,
  `db.ts:1143`), and it is parsed for the floor of a new one (`Instant`, `collection.ts:211`). For what `toISOString` writes, up to
  the year 9999, the three agree, and such a timestamp is its instant, a number; the others (`OtherTimes`), which a
  file may bring since the schema takes whatever `Date.parse` takes, have all three apart. `Stamp` is
  `nextCollectionEventTimestamp` on instants: the clock may return anything of `Clock`. An added holding has an `updatedAt` of
  its own (`updated`), which is that of the payload.
* `Valuation` - the quote of a copy, totals by currency, coverage, review, as operators; `Collection`
  selects quotes with them and states what the totals of a domain mean.

`MCSyncStore`, `MCAccountSync`, `MCCatalogue`, `MCEnrollment` and `MCCollection` are the instances
(`SyncCoordinator` has few constants and is checked without one); `HoldingLogProofs`, `SyncStoreProofs`,
`AccountSyncProofs`, `SyncCoordinatorProofs`, `EventCodecProofs`, `EnrollmentProofs`, `CollectionProofs` and `CatalogueProofs` are the
theorems.

Definitions whose comment begins with "Mutant" are plausible mistakes; they are
used by no specification and serve to check that each property can fail.

## 3. Runs

| Run | Configuration | Shows |
|---|---|---|
| `sync_store` | 3 users for 2 places, 6 batches that race, repeat, conflict, overflow; one expiry, 3 generations, 4 rows; a new database, 3 inherited rows of two accounts that share a card, or 2 of which one fits no page, of which each start and each sync compacts one; the cleanup of a sync prunes one account; all contents of events over small field sets | the store keeps epochs, logs, snapshots and pages, gives back what it was given, and implements `AccountLog` |
| `devices` | 2 devices with one tab, 3 operations on one holding, deletions from both, 2 generations, 1 fault | the protocol between devices: no resurrection, no loss, no duplicate; a device's log replays; the service keeps its promise |
| `tabs` | 1 device with 2 tabs that both delete, 1 operation, 3 generations, 1 fault | fences between tabs: cursor, generation and queue |
| `drain` | 2 devices with edits of different holdings, 1 fault, 1 expiry, fairness | every queued operation is eventually saved |
| `coordinator` | 3 edits, 1 sync started by `prepareMutation`, 1 deletion, fairness | the state shown is what is going on, nothing starts after `stop`, a queued edit is saved unless it is excused |
| `catalogue` | 3 requests of 2 clients (two languages or one, a card, the card again), 2 providers with every kind of answer, both sources or one, an empty cache or an old one, guard limits of 1 and 2 | waiting ends, `Retry-After` suffices, circuits rest, stale answers before errors |
| `enrollment` | 1 tab, 2 accounts, 3 events of this browser in batches of 2, 1 of another, 2 acts, fairness | nothing is erased but with its generation, or sent for the wrong account; an enrollment is resolved |
| `collection` | 2 tabs, anonymous and one account with a corrected holding, a card with 3 quotes and the same card without any, corrections of finish, condition and cost, a backup from a device whose clock is ahead with one timestamp of another form, 2 CSV files, 3 acts, fairness | domains replay and can be edited, copies join, tabs catch up and show nobody else's, quotes and nets are honest |
| `conflict` (violation) | 2 devices that edit one holding, fairness and endless triggers | finding 1 |
| `fence` (violation) | 1 device with 2 tabs that both delete | finding 2 |
| `enrollment_tabs` (violation) | 2 tabs, 1 account, 1 event | finding 3 |
| `restore` (violation) | 1 tab | finding 4 |

### Bounds

`MaxSequence`, `MaxTime`, `MaxGeneration` (in `AccountSync`), `MaxFaults`, `MaxActs`, `MostCopies`,
`MaxEdits`, `MaxDirect` and `MaxDeletes` bound the model, not the code. In `SyncStore` `MaxGeneration`
stands for the largest safe
integer, which the code checks, so that running out of generations is part of the
runs. Three generations are enough for a device to be two behind, for a generation
to be replaced while its replacement is being recorded, and for a tab to hold a 409
of a generation that has gone; two rows per page of one user are enough for a page
to end by rows or by bytes. Three inherited rows and one compaction at a time leave a database
with both kinds of rows for a deletion, a refusal and a commit each. One fault (a lost message, a
timeout, a crash) at any
point covers each single failure; two would mostly repeat the first against a
protocol that keeps no memory of failures. Three generations are not enough for one thing: a fourth lets a deletion
that lost its lock (finding 2) set back a generation another tab moved to, which is why `GenerationMonotone` and
`NoResurrection` except the devices where that happened (`breached`). The proof showed it; TLC finds it
when `tabs` is given `MaxGeneration = 4`, `MaxFaults = 0` and the properties without the exception, and with the
exception that instance passes as well (6.5 million states, too long to be a run beside the others). `MaxPages` stands for 50: runs that
are about safety use 3, so that the limit is hit in some behaviours; `drain` uses 8,
which no behaviour of its instance reaches, because the 51st exchange ends the sync
with an error that nobody retries and liveness then depends on the next trigger.
`MaxAttempts` is 3 as in the code: an account that changes generation during a
bootstrap uses one attempt more than it seems (`stale` is null then, the clear is
skipped), so two attempts would not do. `SYMMETRY` is used only for safety.

In `SyncCoordinator` the bounds are on edits, direct syncs and deletions only; everything
else (connection, sign-in and sign-out, triggers, timers, outcomes) may happen without
limit, in any order. Three edits are one before a flight, one during it and one during its
rerun. In `Enrollment` the two acts are any of a sign-in, a deletion here or elsewhere, a reload and a
lost answer; signing out, choosing in the prompt, edits and the write of another device are not limited by them. So a sign-in begins an
enrollment, and one more of the others can meet it at every point; three events and batches of two make a claim of two
batches, of which the second is sent when the record is gone. In
`Collection` the three acts are edits, imports, exports, syncs and changes of account: two edits overlap and a third act meets what they
made. The clock of two values can be
ahead, behind or equal; the backup has an event from a clock ahead of both whose holding says that it is older (so that
the exception of `EditsGoThrough` occurs), and one whose timestamp, written with an offset, sorts after the millisecond that follows its
instant. `Taken` is the last identifier of these. In `Catalogue` time has two
values and what an earlier process left is older, which makes the three ages of a cache entry; guard
limits are met by the second or third request. `Catalogue`, `Enrollment` and `Collection` stop when
their acts or requests are used up, which is why their runs do not look for deadlock.

### Fairness

In `AccountSync`, `FairSpec` has weak fairness for the steps of a sync and of a deletion (a JavaScript
task that may run does run, and awaited transactions and requests end, the latter by
the 15 second timeout at worst), for the service's answers and for a sync the
coordinator has decided to start (`wanted`: a rerun, a retry timer). Users need
not edit or delete, nothing need expire, no fault need happen, and a sync nobody asked
for need not start. `RetriggeredSpec` adds that `pageshow`, `visibilitychange`
and `online` events keep coming; it is used only to show that finding 1 is not for want of
triggers.

In `SyncCoordinator` a timer that is set fires, a committed edit is announced, a flight and
a deletion go on (weak fairness). `Answered` and `LastRead` have strong fairness: each may be
overtaken by an error, which ends the flight, so that without it a service that fails every
time would refute liveness; a service that is reached again and again answers in the end. No
fairness is assumed of users, of the connection or of the browser's events.

In `Enrollment` code that was called goes on, requests that a tab waits for are answered, and a page that is visible or
online again starts a sync (`Work`, with strong fairness, because a waiting `add()` of the same tab may take its turn between any two
steps of a sync); an `add()` that waits gets its turn (weak fairness). In `Collection` the reads of IndexedDB, their publication, the messages and the
steps of a change of account end (weak fairness); users do nothing they do not want to.

## 4. Findings

1. **A refused operation blocks the queue** (`conflict`). The phone adjusts a holding
   while the laptop removes it. The service refuses the phone's whole batch with 422
   (`server/store.ts:1441`, `817-850`). The client does not retry that error
   (`src/lib/api.ts:68-97`), every later sync sends the same batch first
   (`src/App.svelte:388-411`), and since the refused request returns no page the
   phone does not learn of the removal either. Its later edits wait behind it. The
   interface promises "Queued changes will be saved when the connection returns."
   (`src/lib/i18n.ts:174`).
2. **A deletion loses its lock** (`fence`). A tab whose sync has a 409 pending starts a
   deletion; the 409 path clears the account's namespace with the lock record in it
   (`src/lib/db.ts:763-768`, no `preserveMutationLock` at `src/App.svelte:496-504`).
   Another tab then edits, and the clear at the end of the deletion erases the edit. The
   specification says "Cross-tab mutation locks fence deletion." A longer run of events is worse: with the lock gone
   another tab learns of a newer generation, the clear at the end of the deletion sets the device back to the older
   one, and an event made before is stored in a later generation than the one it was made in.
3. **A second tab discards claimed events** (`enrollment_tabs`). A tab looks for an enrollment
   record and finds none; another tab claims the anonymous events. The first tab now reads them as the
   account's own queue and sends them, unguarded, under the generation it knows. Told of another generation
   it clears the account on the device (`src/App.svelte:496-504`), and the claimed events, which no
   service ever stored, are gone. The specification says "never discard either collection silently"
   (`spec/SPEC_EVOL_ACCOUNT_CENTRAL_SCAN_UX.md:32-33`). In one tab this does not happen (`enrollment`). From
   the same race, with another device that writes meanwhile: the guarded batch of the first tab conflicts and its claim is
   returned to the anonymous domain, and the second tab's unguarded request, still on its way, stores the event in the
   account all the same. `OutboxIsolated` is false of two tabs for that reason.
4. **Replacing by a backup erases what both share** (`restore`). `importEvents` stores only events that are
   not stored yet (`src/lib/db.ts:1059`) and then, for a replacement, deletes every event the collection had
   (`src/lib/db.ts:1086`). Restoring a backup of the collection itself leaves it empty; if the rest does not replay
   without what is shared, the restore is refused.

Observed while modelling, without a run of their own:

* `performSync` joins the flight there is (`src/App.svelte:686`), also one that `prepareMutation`
  started and that is past the queue: the coordinator then shows "All changes are saved to your
  account." with an edit queued and no timer. `SyncedMeansSaved` and `ChangesAreSaved` except it (`direct`).
* While `deleteCloud` is in progress a request or a timer ends in `idle` and is forgotten; if the deletion
  fails, `finally` asks for nothing (`src/App.svelte:820`). `ChangesAreSaved` excepts it (`deletes`).
* An intermediate page may not replay: `importEvents` validates the page followed by all of the device's own
  operations, also those the service accepted at a later place (`src/lib/db.ts:1072-1084`). The import is refused
  and the cursor stays.
* `add()` captures its domain before it waits (`src/lib/db.ts:284`). After a sign-out
  `assertMutationAllowed` returns early, so the event lands in an account whose enrollment may be pending; if its batch
  was already attempted, the enrollment stops with "Enrollment retry batch changed before
  acknowledgement" each time. `AttemptIsStable` and `EnrollmentResolves` except it (`slipped`).
* A claim is protected by its record, and the record goes when the first guarded batch was accepted
  (`src/App.svelte:622`, `src/lib/db.ts:582`); a claim by the merge dialogue has none. If another device then deletes the
  account, the next sync is told of the new generation and erases what is left, which no service has: later batches of the claim, merged
  events, and anything else that was queued. `NothingDiscarded` says exactly when.
* A timestamp of a file that is not written as `toISOString` does (`...00Z`, an offset) may sort after the timestamp "causally after
  every supplied holding timestamp" (`src/lib/collection.ts:201-205`) that `nextCollectionEventTimestamp` makes from its instant; and
  the floor is the holding's `updatedAt`, which for an added event is in its payload and need not be its `occurredAt`. The replay then takes the
  edit before what it changes and refuses it, until the service has numbered the event or the clock has passed it. The files
  this application exports have neither, unless they carry on what was restored from one that does. `EditsGoThrough` excepts the
  holdings such an event changed last (`Timely`).
* `loadConfig` refuses a page budget that one operation could exceed (`server/config.ts:228`), but compares it with today's limit of an
  operation. After an operator lowered both, or a larger release left its database, a stored operation may fit no page:
  the service answers `hasMore` with the cursor it was given (`server/store.ts:1548`), and a device ends its sync after 50 such answers each
  time. `PullProgresses` excepts such rows (`TooLarge`); the inherited tables of `sync_store` have one.
* The catalogue: concurrent calls at a cold start count failures in circuits of their own; a late success closes a
  circuit that opened meanwhile; a French search answered by the English secondary is cached as the
  French answer while it is fresh; `Retry-After` is the client's window even when the global limit refuses;
  a client forgotten by the bounded table starts a new count; shutdown ends all connections at once, so the deadlines of
  `shutdown.ts` only matter for a worker that stalls.
* The scanner keeps its stage while an add is awaited, so that a second submission adds twice. A correction takes its quote
  from the holding as the page shows it and then waits for the write (`CollectionPage.svelte:100-130`), so that a correction of the
  finish and one of the condition, made before the first is shown, leave a quote for the finish or the condition there was
  (`HeldWorthIsHonest` speaks of what the last one made of it). A holding whose quote has neither a market price nor a low makes
  the total of its currency disappear without being listed as missing a price.

## 5. Proofs

Every theorem holds for every value of the constants that satisfies the assumptions of the modules; TLC evaluates these in the
runs. The assumptions say no more than the code does:

* limits and quantities are natural numbers and batches sequences of operations (`LimitType`, `BatchType`, `QuantityType`,
  `OperationType`, `BoundType`, `CountType`, `GuardType`);
* an earlier release may have left any table with the keys of `sync_events` (`InheritedType`, `Keyed`), whose logs it
  could have accepted (`InheritedReplays`): the service validates new operations only and replays what it finds
  without complaint (`server/store.ts:717`);
* two operations have two identifiers (`IdType`: `crypto.randomUUID`, `src/lib/collection.ts:154`); in `Collection` identifiers
  are numbers, and what an earlier session and the backup have is at most `Taken`, the last one given before the first step
  (`BoundType`, `StoredType`);
* what an earlier session left replays, has an identifier for each event in one domain, and the service numbered each of its
  events once; the backup has distinct identifiers and no numbers, and need not replay (`StoredType`: `importEvents` is the
  only way in and tests all of it, `eventsToJson` removes numbers). The files at hand are sequences of rows with any amounts
  (`RowsType`: the test of a row is `ValidRow`);
* events, wherever they come from, have payloads as this application makes them: an added event has its whole holding, and a finish or a
  condition is told together with a quote that suits it, or with none (`Payloads`; `createHolding`, `updateFinish`, `updateCondition`, and for
  rows `holdingsFromCsv`, whose quote is made for the row). The schema does not ask for that, so `HeldWorthIsHonest` says nothing of
  a file another program wrote;
* of a timestamp nothing is assumed but that its instant and its places in the two orders are numbers (`TimesType`), and that what
  `toISOString` writes sorts by its instant, which it does before the year 10000;
* in `Enrollment` the markers (`Anonymous`, `Nobody`, `Unborn`, `Gone`) are no accounts, the service has finitely many accounts, events of
  the device are numbers, in the order they are made in, none of which is another device's, and a batch holds at least one (`EnrollmentType`);
* amounts are integers or missing and the date of a quote is a number (`QuoteType`, `CopiesType`): `observedAt` is written by the service or was
  tested by the import (`src/lib/import-export.ts:210-212`); each holding has a condition (`src/lib/types.ts:126`);
* a browser has finitely many tabs (`DeviceType`), the settings page is opened in tabs (`SettingsType`), and the markers of the
  catalogue model are none of its cards (`CatalogueType`).

### Logs

`HoldingLogProofs` has what the other modules need of `HoldingLog`. The provers cannot instantiate the induction theorems of
the library, which take an operator; `SetInduction` derives induction over a set of numbers from the well-foundedness of `<`
instead, and gives what a replay is at each position (`QuantitiesAre`), that it depends on the prefix only (`QuantitiesOfPrefix`) and that a
legal extension of a log that replays is a log that replays (`ExtensionReplays`). `OrderedRows` and `LogExtends` are about `OpsOf`: rows
behind all others extend the log at its end.

### The service

`SyncStoreProofs`:

* `TypeCorrect`: `Spec => []TypeOK`;
* `EpochsIsolated`: `Spec => []EpochIsolation`;
* `NeverReissued`: `Spec => GenerationsNeverReissued`;
* `LogAppendOnly`: `Spec => AppendOnly`;
* `SnapshotsAreExact`: `Spec => []SnapshotsExact`;
* `LogsReplay`: `Spec => []LogReplays`;
* `PagesProgress`: `Spec => []PullProgresses`;
* `Implements`: `Spec => ImplementsAccountLog`, the refinement of `AccountLog`.

`TypeOK` is not inductive by itself: an allocation is one above the highest generation,
which the code computes from the counter and from the accounts, and the sequence of a new
row comes from a counter too. `CountersBound` (the counter is at least every
generation in use, `lastSequence` at least every row) makes it so:
`CountersInv == TypeOK /\ CountersBound`. From it `HighestIsLast` derives that an
allocation is `lastGeneration + 1`, which gives `NeverReissued`, and `NewRowsRange`
that new rows come behind all others, which gives `LogAppendOnly`. `EpochInv` adds
`EpochIsolation`; pruning and epoch changes need that an account without a generation
has no rows (`NoRowsWithoutAccount`). Compaction comes in by two relations: `SameRow`, which does not
look at the form of a row, and `Holds`, that some rows and snapshots are what the tables hold in whatever form. The lemmas about
pruning are stated for all tables that hold the same, `CompactionHolds` says that a compaction gives such tables, and
`SentOfSameRows` that a client is sent the same. `SnapshotsExact` needs
`CompactionInterns`: what the compaction takes out of rows is exactly what it interns.

`LogsReplay` and `Implements` need one more fact, that the rows have the keys the table declares (`Keyed`): a log is then the rows in
the order of their sequence, a commit extends it at its end by the operations that are new, and everything else leaves an account's
rows as they are or takes all of them. For the refinement each transaction maps to a step of `AccountLog` or to a stutter; a cleanup and a
compaction of a `sync` may go before, so that `ReceiveSync` is a `Forget` or a stutter, and never the step of the request.

`PagesProgress` needs that every stored operation is within the limit of operations or was inherited (`Sized`), and that a page is a prefix of the
rows behind the cursor (`PageIsPrefix`), because fewer rows take fewer bytes (`PageBytesGrow`). The bytes of rows are a fold of the
community modules over a set. `WeighsExists` and `WeighsAgree` show, by induction over the number of rows, that its recursive definition has a solution and
that solutions over different sets agree; `PageBytesWithout` that the order in which rows are counted does not matter. The proof
showed that the first form of `PullProgresses` was false of a database whose rows were let in under a larger limit: see the findings.

### The protocol between devices

`AccountSyncProofs`, for any number of devices and of tabs, any operations, batch and page sizes, generations and faults:

* `TypeCorrect`: `Spec => []TypeOK`;
* `Durable`: `Spec => []AckedIsDurable`; `OnePlace`: `Spec => []OneCopy`; `Replayable`: `Spec => []LocalReplays`;
* `NotResurrected`: `Spec => []NoResurrection`; `Monotone`: `Spec => GenerationMonotone`; `NeverLost`: `Spec => QueueNeverLost`;
* `FencesDeletion`: `DeletionFenced` of every device whose deletions kept their lock (finding 2 is about the others);
* `NoHole`: `Spec => []CursorSound`;
* `Promised`: `Spec => ServiceKeepsPromise`, the refinement of `AccountLog` by the service the devices meet.

The inductive invariant has layers; each is inductive relative to those before it, and TLC checked each on the instances of the runs
before it was proved.

1. `Inv` says, for every device, every session, every deletion and every message under way, what it may hold at its point of the
   control flow, and that every generation it names was issued (`Issued`).
2. `RowsInv` is the heart: whoever holds rows or acknowledgements of the service's current generation, a device or a response that is not
   recorded yet, holds rows and operations of the service's log. It speaks of all holders of a generation at once (`RowsOf`, `AcksOf`), because
   a step moves rows from one to another: from the log into a response, from there into `base`. `Traceable` is the lemma of all
   steps: what is held afterwards was held before or is in the log. An epoch that is not issued yet has no holders, so that a new one
   begins without any. `Durable` and `OnePlace` follow at once, `Replayable` with the facts that an edit and an import test what they write.
3. `Fences`: where the lock is, which generations the requests, sessions and clears of a device that is not `breached` may name,
   and that a generation it leaves is not named again. `Monotone`, `NotResurrected`, `NeverLost` and `FencesDeletion` follow. `breached` is in
   their statements because they are false without it: see the bounds above.
4. `Cursors`: below the cursor of a device, of a session and of a page under way nothing is missing of the generation it belongs to, at
   every point between the four transactions that record a page.
5. `Bounded` counts: generations issued, and those that requests under way and deletions still owe, are at most `MaxGeneration`.
   This is about the model's bounds, and is what `TypeOK` adds.

### The browser

`SyncCoordinatorProofs` proves for any number of edits, direct syncs and deletions:

* `TypeCorrect`: `Spec => []TypeOK`;
* `Honest`: `Spec => []StateIsHonest`;
* `StopFinal`: `Spec => StopIsFinal`;
* `Saved`: `Spec => []SyncedMeansSaved`.

`HonestInv` is `StateIsHonest` with the types of the fields; it is inductive because it
says that a running coordinator has a flight and no timer, so that the end of a flight, the only
step that sets a retry timer, finds none set. `RequestHonest` states what `request` does
once for its four callers. `StopFinal` rests on `Quiet`, that a stopped coordinator is idle and
has no timer. `Saved` needs that an edit which is not announced yet still has its announcement ahead, and that a flight
that read an empty queue is followed by a rerun if an edit was announced since.

`CollectionProofs`, for any number of tabs, accounts, edits and kinds of copies, any clock, any files and any events left by an
earlier session:

* `ShownIsSelected`: `Spec => []ShownIsOfSubject`;
* `CollectionTyped`: `Spec => []TypeOK`;
* `EditsPass`: `Spec => []EditsGoThrough`;
* `AddsNeverDouble`: `Spec => AddsJoin`;
* `WorthIsHonest`: `Spec => []HeldWorthIsHonest`, and `NetsAreHonest`: a net over any finite collection is honest (`NetIsHonest`).

`CollectionInv` has two layers. `StoreInv` is about the database: every domain is finite, with distinct identifiers and numbers
(`Distinct`) that no other domain has and none above `made`, and replays strictly (`Strict`). It is inductive along this argument:

1. `Before`, the order of `compareCollectionEvents`, is strict and total on distinct events although it compares numbers, timestamps as
   text or identifiers depending on the pair (`BeforeOrders`). So the `CHOOSE` in `Replayed` picks one event for each place, and
   the replay is the only sequence that lists the events in order (`ReplayedLists`, `ListsIsReplayed`).
2. An event that comes after all events of its own holding may still fall between events of others: without a number it is behind what
   has one, but in time anywhere. `Insertion` shows that this leaves the replay of the others as it was, also when the operation is looked
   at with the others beside it (`Alongside`), and with `ActiveHolding`,
   that a holding shown is one its events end with, `ChangeReplays` gives that a change of a holding that comes after the events of that holding
   replays (`MoreReplays` for a change of its quantity). `ComesAfter` is that what `Stamp` makes of the holding's `updatedAt` comes after them: the last event
   in the order is numbered, or its timestamp sorts by its instant and the floor is no less, which is `Timely`. Together they are
   `EditsGoThrough`. A write that does not replay is refused, so that `Strict` itself does not need `Timely`.
3. An import of rows is a fold of such changes (`RowsJoin`, by induction over the rows); a restore adds events whose identifiers are not
   there (`RestoreKeeps`; `Foreign`, `Conflicting` and `Portable` in the code are what keeps identifiers apart); a sync numbers the
   events in the order of the replay and so does not change that order (`Renumbering`). `WriteKeeps` is the
   step of the invariant for all of them.
4. For `AddsJoin`: when a domain has a holding of that kind, the search for duplicates finds one (`SomeDuplicate`), since a
   finite set of holdings has one changed last; a change of quantity alters neither the set of holdings shown nor their copies
   (`CopyOfHolding`, `AdditionJoins`), also where the event does not come last for its holding, since it tells no field.
5. For `HeldWorthIsHonest`: the field of a holding is what the last event that tells it says (`FieldOfHolding`), the events that tell
   a quote are those that tell a finish or a condition (`ToldFields`), and what they tell suits (`CorrectedType`, `AddedCopy`); so the
   quote of a holding suits its last such event (`QuoteSuits`), whatever the page showed when the others were made.

`ShownInv`, the other layer, is about the queue of refreshes of a tab: outside a change of account each of them is of the account shown; during one, those
behind the last refresh of the change are (`EndsWith`), and what is answered before is not shown (`Transitioning`).

The totals of `HeldWorthIsHonest` are over all holdings of a domain, which are finitely many (`FewHoldings`), and `NetsAreHonest` is about any finite
collection. The quote selected
is found because the order of the sort is strict (`AboveOrders`), and a finite set has an element none is above in such an order (`Topmost`);
so it fits (`SelectedFits`). `Sum` is recursive over sets of holdings: `AddsExists` shows, by induction
over their number, that its definition has a solution, and `SumOfDifferences` that the sum of what each holding brings is the difference of the two
totals, as both sums take the holdings in the same order. Where no net is shown the proof finds the holding to blame.

`EnrollmentProofs`, for any accounts, events, batch sizes, bounds, losses and reloads:

* `TypesHold`: `Spec => []TypeOK`, and `SessionsFit`: `Spec => []Inv`, for any number of tabs;
* `NothingIsDiscarded`: `Spec => NothingDiscarded`, in a browser with one tab (`SingleTab`);
* `OutboxesAreIsolated`: `Spec => []OutboxIsolated`, in a browser with one tab;
* `AttemptsAreStable`: `Spec => []AttemptIsStable`, in a browser with one tab.

`SingleTab` is what the run `enrollment` has too. `NothingIsDiscarded` and `OutboxesAreIsolated` are false without it: finding 3 is a behaviour of two tabs that
discards claimed events, and another one that stores an event in an account it was taken back from. Whether `AttemptIsStable` needs it is open; TLC
finds no counterexample with two tabs and one event. Each layer of the invariant is inductive relative to those before it, and TLC checked it on the
instance before it was proved:

1. `Inv`, of any number of tabs: what a session, a deletion and a request hold at each point of their control flow, that the
   generations they name were issued, and that a request on its way is the one its tab waits for. The service may
   answer a request whose session is over, so that a request nobody waits for is only said to be well formed.
2. `Bounded` counts, as in `AccountSync`: the generations issued and those that requests and draining deletions still owe are at most the
   accounts the service knows and the acts there were. `TypeOK` needs it for its bound on `issued` only.
3. `Together`, the first layer of one tab: the record a session read is the record there is (`SessionRecord`), a claimed event is the account's and, while
   nothing was tried, not acknowledged (`AccountInv`); no request names a generation above the one the device knows (`Behind`). So whatever clears an
   account (`Replace`, `ClearStale`, the end of a deletion) finds the claim returned, and finds the generation it clears over at the service:
   the two together are `NothingDiscarded`.
4. `Isolation` follows an event from where it was made to the log: who holds it on the device (`EventsHeld`), in a request the service may still
   apply (`Pending`, `RequestsHeld`), in a session (`SessionHeld`) and in the log. A claim may be returned only when its events
   are in no log and in no request that could still put them there (`Untouched`): a guarded request cannot once the log has a
   row, and the generation of an unguarded one is over.
5. `Steady`: events are made in the order of their numbers (`InOrder`), so that one made later never enters the batch of smallest
   numbers that was tried (`BatchGrows`), until it is acknowledged as a whole.

`EventCodecProofs` proves for every choice of field names that the schema copies as they are, of events, of candidate cards and
of inputs (`PlainFields`, `CandidateFields`, `InputFields`):

* `StoredEventsComeRound`: `Spec => []EventsComeRound`.

It rests on lemmas about objects (`Only`, `Without`, `With` and `Part` and the domains they make), on what compaction and
expansion do to a card, a holding and each type of payload, and on the schema, which makes identifiers redundant that the
compact row leaves out.

### The catalogue

`CatalogueProofs`, for any requests, clients, providers and limits:

* `TypeCorrect`: `Spec => []TypeOK`;
* `NobodyForgotten`: `Spec => []NobodyWaitsInVain`;
* `RetryHonoured`: `Spec => []RetryAfterSuffices`;
* `StaleServed`: `Spec => StaleBeatsError`;
* `CircuitsRest`: `Spec => CircuitRests`.

`Inv` has the shape of each part, that the leases the guard counts are those of requests that wait, and that whoever waits has a
fetch for what it lacks. `RetryInv` says what a window of the guard counts: requests admitted since it began. An earlier form of
`RetryAfterSuffices` did not hold with windows longer than those of the run; the proof found that, and the property now names the
requests admitted before the refusal (`before`). `StaleInv` says that a flight without a stale answer to fall back on began
when the cache had nothing usable, and that whoever waits for it came no earlier: rows that are there may be dropped later, but
none becomes usable at a time that has passed. `StaleBeatsError` looks at the cache as it is when the error is given, so it does not speak of a
row that was dropped meanwhile. `RestInv` says that the circuit of a provider that rests is the one in the map, open for
its time, and that calls under way to the provider are from before.

### Only model-checked

Every invariant and action property that a passing run checks is stated by a theorem, those of `Enrollment` other than its types for one tab.
Liveness (`QueueDrains`, `ChangesAreSaved`, `EnrollmentResolves`, `ShownCatchesUp`) is outside what the provers do and stays with TLC, on the
instances and under the fairness of section 3. TLC alone also shows that the properties of the findings are violated.

## 6. What the models leave out

* Of `SyncStore`: the upgrades of the SQL schema, WAL checkpoints, errors for corrupt stored values,
  byte counts (a row and a snapshot count 1), the response fields `acceptedOperationIds` and
  `retentionUntil` in the page budget: `PullProgresses` is about a pull that submits nothing,
  since acknowledgements take room in the envelope.
* Of `EventCodec`: the values of fields and their limits; a value is opaque.
* Of `AccountSync`: the time-to-live of the lock where the browser has no Web Locks
  (Web Locks are assumed: a crashed tab loses its lock), quotas, `requireEmpty`. Order
  inside the local queue is the order of creation, which `nextCollectionEventTimestamp` makes
  the order of `compareCollectionEvents`. A device edits only once it knows its
  generation: before that the application quarantines its queue.
* Of `SyncCoordinator`: delays and the retry count (a timer may fire at any time), messages for
  the user, and other tabs. The availability `auth-required` of the class is never returned by `App.svelte`.
* Of `Enrollment`: the transactions that record one response (in `AccountSync`), pages (a response holds the whole log).
* Of `Collection`: locks and enrollment records; a sync is one step. Notes and dates of acquisition go with the cost; a card stands with the quotes it was
  found with, which no event changes. An edit that waits when its holding is removed keeps its timestamp (`db.ts:1203`) and may then, if
  the removal came from a clock ahead, be accepted before it. IndexedDB answers the reads of a tab in order, both
  tables are read at one moment, no tab closes between a write and its message.
* Of `Catalogue`: the mapping of provider JSON to cards, query normalization, the byte limit of the cache, the rights of images.
* Everything listed as `not_modelled` in `PROJECT.json`: token verification is the work of a library, the scripts and the
  machine-learning pipeline run outside the system, scoring is stateless floating-point arithmetic over text. The scanner's
  stages and the service worker are planned.

## 7. Plan

1. `SyncStore`, `EventCodec` and `SyncCoordinator` with proofs; `AccountSync`, `Enrollment`, `Collection`, `Valuation`, `Catalogue`,
   `RequestGuard` with runs: done.
2. Proofs of the service, of the protocol between devices, of the coordinator and of the catalogue: done.
3. Proofs of the repository and of the valuation: done.
4. Proofs of `Enrollment`: types with any number of tabs, `OutboxIsolated`, `AttemptIsStable` and `NothingDiscarded` in one: done.
5. A `Scanner` module (stages, recognition that is overtaken, submission), a `ServiceWorker` module (install, activate, two
   versions), the lock's time to live. They need runs of their own, for which those of one component are to be merged.
