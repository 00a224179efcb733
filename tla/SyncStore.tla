------------------------------ MODULE SyncStore ------------------------------
(***************************************************************************)
(* The central store of CardScope (server/store.ts): one SQLite database   *)
(* that keeps, per account, an event log of collection operations and the  *)
(* generation (epoch) that log belongs to.                                 *)
(*                                                                         *)
(* The Node process is single threaded and node:sqlite is synchronous, so  *)
(* a handler is never interleaved with another one.  A call of sync() is   *)
(* some bounded cleanup in transactions of its own and then the request;   *)
(* the process may die between them or before the reply leaves, so they    *)
(* are two steps here: ReceiveSync, then one of the ways the request ends. *)
(*                                                                         *)
(* Rows of an earlier release (storage_version 0) keep their snapshots in  *)
(* themselves.  They are made compact a few at a time while the service    *)
(* runs, so both kinds of row are served, counted and erased together.     *)
(***************************************************************************)
EXTENDS HoldingLog, FiniteSetsExt

CONSTANTS
  Users,              \* OIDC subjects
  Batches,            \* the operation sequences of the requests considered
  Inherited,          \* the tables an earlier release may have left
  Retention,          \* retentionDays, in units of the clock
  MaxAccounts,        \* SYNC_MAX_ACCOUNTS
  MaxEvents,          \* SYNC_MAX_ACCOUNT_EVENTS
  MaxBytes,           \* SYNC_MAX_ACCOUNT_BYTES
  MaxOperationBytes,  \* SYNC_MAX_OPERATION_BYTES
  MaxPullBytes,       \* SYNC_MAX_PULL_BYTES
  EnvelopeBytes,      \* a response without events
  EventLimit,         \* rows read for one page
  SyncPruneLimit,     \* accounts a sync() may prune before its transaction
  MaintenanceLimit,   \* accounts the maintenance timer prunes at once
  SyncCompactLimit,   \* legacy rows a sync() may make compact
  StartCompactLimit,  \* legacy rows a start makes compact
  MaxGeneration,      \* Number.MAX_SAFE_INTEGER of the code
  MaxSequence,        \* bound of the model on the event sequence
  MaxTime             \* bound of the model on the clock

VARIABLES
  accounts,        \* sync_accounts: generation and retention_until of a user
  lastGeneration,  \* sync_metadata.last_generation
  events,          \* sync_events: the rows, raw if of storage_version 0
  lastSequence,    \* AUTOINCREMENT counter of sync_events
  objects,         \* sync_shared_objects: card and quote snapshots
  now,             \* the server's clock
  call,            \* the sync() call between its two transactions
  reply            \* the last response

vars == <<accounts, lastGeneration, events, lastSequence, objects, now,
          call, reply>>

ASSUME SnapshotType == \A op \in Operations : IsFiniteSet(op.snapshots)

ASSUME BatchType == Batches \subseteq Seq(Operations)

\* The keys of sync_events: the sequence, and the operation within its account.
Keyed(rows) ==
  /\ IsFiniteSet(rows)
  /\ \A r, s \in rows : r.seq = s.seq => r = s
  /\ \A r, s \in rows : r.user = s.user /\ r.op.id = s.op.id => r = s

\* Until there were generations every account was in its first; nothing was
\* ever erased.
ASSUME InheritedType ==
  \A rows \in Inherited :
    /\ Keyed(rows)
    /\ rows \subseteq [seq : 1..Cardinality(rows), user : Users, op : Operations,
                       epoch : {1}, raw : {TRUE}]

\* The server replays what it finds stored without complaint
\* (validateSyncOperationSemantics refuses new operations only), so it relies on
\* every log it takes over being one it could have accepted.
ASSUME InheritedReplays ==
  \A rows \in Inherited, u \in Users :
    LegalFrom(OpsOf({row \in rows : row.user = u}), 1)

ASSUME LimitType ==
  /\ Retention \in Nat \ {0}
  /\ \A limit \in {MaxAccounts, MaxEvents, MaxBytes, MaxOperationBytes,
                   MaxPullBytes, EventLimit, SyncPruneLimit,
                   MaintenanceLimit, SyncCompactLimit, StartCompactLimit,
                   MaxGeneration, MaxSequence, MaxTime} :
       limit \in Nat \ {0}

\* loadConfig refuses a page budget that one operation could exceed.
ASSUME PullBudget ==
  EnvelopeBytes \in Nat /\ MaxPullBytes >= MaxOperationBytes + EnvelopeBytes

NoGeneration == 0                 \* no account row, or "generation": null
NoAccount == [generation |-> NoGeneration, until |-> 0]
NoCall == [open |-> FALSE]
NoReply == [user |-> "none", outcome |-> "none", generation |-> NoGeneration,
            accepted |-> {}]

HasAccount(u) == accounts[u].generation # NoGeneration
Expired(u) == HasAccount(u) /\ accounts[u].until <= now
RowsOf(u) == {row \in events : row.user = u}
Referenced(rows) == UNION {row.op.snapshots : row \in {r \in rows : ~r.raw}}

Account(generation) == [generation |-> generation, until |-> now + Retention]

-----------------------------------------------------------------------------
(* A request against the rows its account already has.                      *)

\* Positions whose operation is new: not stored, not repeated earlier in the
\* batch.
Fresh(u, batch) ==
  {i \in DOMAIN batch :
     /\ \A row \in RowsOf(u) : row.op.id # batch[i].id
     /\ \A j \in 1..(i-1) : batch[j].id # batch[i].id}

\* An identifier that names two different immutable contents.
Conflicting(u, batch) ==
  \E i \in DOMAIN batch :
    \/ \E row \in RowsOf(u) : row.op.id = batch[i].id /\ row.op # batch[i]
    \/ \E j \in 1..(i-1) : batch[j].id = batch[i].id /\ batch[j] # batch[i]

\* Mutant: no AUTOINCREMENT, the sequence restarts after the highest row left.
NewRowsReusingSequence(u, batch, generation) ==
  {[seq |-> Max({0} \cup {row.seq : row \in events})
              + Rank(Fresh(u, batch), i),
    user |-> u, op |-> batch[i], epoch |-> generation, raw |-> FALSE] :
      i \in Fresh(u, batch)}

NewRows(u, batch, generation) ==
  {[seq |-> lastSequence + Rank(Fresh(u, batch), i), user |-> u,
    op |-> batch[i], epoch |-> generation, raw |-> FALSE] :
      i \in Fresh(u, batch)}

OperationBytes(op) == 1 + Cardinality(op.snapshots)

\* One unit per row, one per distinct snapshot of the account; a raw row counts
\* with all it holds.
Bytes(rows) ==
  MapThenSumSet(LAMBDA row : IF row.raw THEN OperationBytes(row.op) ELSE 1, rows)
    + Cardinality(Referenced(rows))

OverQuota(rows) == Cardinality(rows) > MaxEvents \/ Bytes(rows) > MaxBytes

\* Mutant: the first new operation is not validated.
SemanticallyValidAfterFirst(u, batch, generation) ==
  LET stored == RowsOf(u)
  IN  LegalFrom(OpsOf(stored \cup NewRows(u, batch, generation)),
                Cardinality(stored) + 2)

\* The new operations, in batch order after the stored ones, are all legal.
SemanticallyValid(u, batch, generation) ==
  LET stored == RowsOf(u)
  IN  LegalFrom(OpsOf(stored \cup NewRows(u, batch, generation)),
                Cardinality(stored) + 1)

\* Mutant: the counter is derived from the accounts that are left.
HighestGenerationOfAccounts ==
  Max({0} \cup {accounts[u].generation : u \in Users})

\* Above every generation an account has, or ever had in this database.
HighestGeneration ==
  CHOOSE g \in {lastGeneration} \cup {accounts[u].generation : u \in Users} :
    \A u \in Users : lastGeneration <= g /\ accounts[u].generation <= g
NextGeneration == HighestGeneration + 1

-----------------------------------------------------------------------------
(* Compaction and retention cleanup.                                        *)

\* migrateLegacySyncEvents: the first raw rows become compact, their snapshots are
\* interned.
MigrateLegacy(rows, limit) ==
  LET raw == {row.seq : row \in {r \in rows : r.raw}}
  IN  {IF row.raw /\ Rank(raw, row.seq) <= limit
       THEN [row EXCEPT !.raw = FALSE] ELSE row : row \in rows}

Init ==
  \* A new database, or one upgraded from the release in which every account
  \* was at generation 1 and no counter was kept.
  /\ \E rows \in Inherited, legacy \in SUBSET Users :
       /\ Cardinality(legacy) <= MaxAccounts
       /\ \A row \in rows : row.user \in legacy
       /\ accounts = [u \in Users |->
            IF u \in legacy THEN [generation |-> 1, until |-> Retention]
            ELSE NoAccount]
       /\ lastGeneration = IF legacy = {} THEN 0 ELSE 1
       /\ events = MigrateLegacy(rows, StartCompactLimit)
       /\ lastSequence = Cardinality(rows)
  /\ objects = Referenced(events)
  /\ now = 0
  /\ call = NoCall
  /\ reply = NoReply

\* Up to limit expired accounts, those that expired first.
Oldest(limit) ==
  LET expired == {u \in Users : Expired(u)}
  IN  {P \in SUBSET expired :
         /\ Cardinality(P) <= limit
         /\ Cardinality(P) = limit \/ P = expired
         /\ \A u \in P, v \in expired \ P :
              accounts[u].until <= accounts[v].until}

\* Mutant: pruned accounts leave their snapshots behind.
PruneWithoutSweep(limit, rows, snapshots) ==
  \E P \in Oldest(limit) :
    /\ accounts' = [u \in Users |-> IF u \in P THEN NoAccount ELSE accounts[u]]
    /\ events' = {row \in rows : row.user \notin P}
    /\ objects' = snapshots
    /\ UNCHANGED <<lastSequence, now>>

\* ON DELETE CASCADE removes the rows of the accounts; the snapshots nobody
\* references any more go in the same transaction.  When nothing expired the
\* sweep of unreferenced snapshots runs only if it is due.
PruneExpiredAccounts(limit, rows, snapshots) ==
  \E P \in Oldest(limit) :
    /\ accounts' = [u \in Users |-> IF u \in P THEN NoAccount ELSE accounts[u]]
    /\ events' = {row \in rows : row.user \notin P}
    /\ \/ objects' = snapshots \cap Referenced(events')
       \/ P = {} /\ objects' = snapshots
    /\ UNCHANGED <<lastSequence, now>>

\* Each in a transaction of its own; a process that dies in between starts again
\* and goes on.
CompactAndPrune(rowLimit, accountLimit) ==
  LET rows == MigrateLegacy(events, rowLimit)
  IN  PruneExpiredAccounts(accountLimit, rows, objects \cup Referenced(rows \ events))

Maintain ==
  /\ call = NoCall
  /\ PruneExpiredAccounts(MaintenanceLimit, events, objects)
  /\ UNCHANGED <<lastGeneration, call, reply>>

\* The process dies and starts again: migrateSyncGenerationCounter and the
\* compaction, then the startup cleanup.  A request that was open is lost.
Restart ==
  /\ CompactAndPrune(StartCompactLimit, MaintenanceLimit)
  /\ lastGeneration' = HighestGeneration
  /\ call' = NoCall
  /\ reply' = NoReply

Tick ==
  /\ now < MaxTime
  /\ now' = now + 1
  /\ UNCHANGED <<accounts, lastGeneration, events, lastSequence, objects, call,
                 reply>>

-----------------------------------------------------------------------------
(* sync(), the cleanup.                                                     *)

\* The route refuses a null generation with operations; the store refuses an
\* oversized operation before it opens a transaction.
ReceiveSync(u, generation, batch, requireEmpty) ==
  /\ call = NoCall
  /\ generation = NoGeneration => batch = <<>>
  /\ \A i \in DOMAIN batch : OperationBytes(batch[i]) <= MaxOperationBytes
  /\ CompactAndPrune(SyncCompactLimit, SyncPruneLimit)
  /\ UNCHANGED lastGeneration
  /\ call' = [open |-> TRUE, user |-> u, generation |-> generation,
              batch |-> batch, requireEmpty |-> requireEmpty]
  /\ reply' = NoReply

RefuseOversized(u, batch) ==
  /\ call = NoCall
  /\ \E i \in DOMAIN batch : OperationBytes(batch[i]) > MaxOperationBytes
  /\ reply' = [user |-> u, outcome |-> "operation_too_large",
               generation |-> NoGeneration, accepted |-> {}]
  /\ UNCHANGED <<accounts, lastGeneration, events, lastSequence, objects, now,
                 call>>

-----------------------------------------------------------------------------
(* sync(), the request: one action per way it ends.                         *)

Answer(outcome, generation, accepted) ==
  /\ call' = NoCall
  /\ reply' = [user |-> call.user, outcome |-> outcome,
               generation |-> generation, accepted |-> accepted]
  /\ UNCHANGED now

RollBack == UNCHANGED <<accounts, lastGeneration, events, lastSequence, objects>>

\* Mutant: no check against the largest safe integer.
AllocateUnbounded(u) ==
  /\ lastGeneration' = NextGeneration
  /\ accounts' = [accounts EXCEPT ![u] = Account(NextGeneration)]

AllocateFor(u) ==
  /\ NextGeneration <= MaxGeneration
  /\ lastGeneration' = NextGeneration
  /\ accounts' = [accounts EXCEPT ![u] = Account(NextGeneration)]

\* An epoch boundary is committed even when the request is then refused, so
\* that no stale queue can revive the expired log.
OpenEpoch ==
  /\ AllocateFor(call.user)
  /\ IF call.generation = NoGeneration
     THEN Answer("ok", NextGeneration, {})
     ELSE Answer("generation_mismatch", NextGeneration, {})

\* Mutant: the expired log survives into the new epoch.
SyncExpiredKeepingRows ==
  /\ call.open
  /\ Expired(call.user)
  /\ OpenEpoch
  /\ UNCHANGED <<events, objects, lastSequence>>

SyncExpired ==
  /\ call.open
  /\ Expired(call.user)
  /\ OpenEpoch
  /\ events' = events \ RowsOf(call.user)
  /\ objects' = objects \cap Referenced(events')
  /\ UNCHANGED lastSequence

RoomForAccount == Cardinality({u \in Users : HasAccount(u)}) < MaxAccounts

SyncUnknown ==
  /\ call.open
  /\ ~HasAccount(call.user)
  /\ RoomForAccount
  /\ OpenEpoch
  /\ UNCHANGED <<events, lastSequence, objects>>

RefuseAccount ==
  /\ call.open
  /\ ~HasAccount(call.user)
  /\ ~RoomForAccount
  /\ RollBack
  /\ Answer("accounts_limit", NoGeneration, {})

\* allocateSyncGeneration throws rather than leave the safe integers.
RefuseExhausted ==
  /\ call.open
  /\ Expired(call.user) \/ (~HasAccount(call.user) /\ RoomForAccount)
  /\ NextGeneration > MaxGeneration
  /\ RollBack
  /\ Answer("internal_error", NoGeneration, {})

RefuseMismatch ==
  /\ call.open
  /\ HasAccount(call.user)
  /\ ~Expired(call.user)
  /\ call.generation \notin {NoGeneration, accounts[call.user].generation}
  /\ RollBack
  /\ Answer("generation_mismatch", accounts[call.user].generation, {})

\* The request belongs to the account's current epoch.
InEpoch ==
  /\ call.open
  /\ HasAccount(call.user)
  /\ ~Expired(call.user)
  /\ call.generation \in {NoGeneration, accounts[call.user].generation}

RefuseConflict ==
  /\ InEpoch
  /\ Conflicting(call.user, call.batch)
  /\ RollBack
  /\ Answer("operation_conflict", NoGeneration, {})

\* requireEmpty: the account already has a history and the request would
\* extend it.
EnrollmentConflict ==
  /\ call.requireEmpty
  /\ RowsOf(call.user) # {}
  /\ Fresh(call.user, call.batch) # {}

RefuseEnrollment ==
  /\ InEpoch
  /\ ~Conflicting(call.user, call.batch)
  /\ EnrollmentConflict
  /\ RollBack
  /\ Answer("enrollment_conflict", NoGeneration, {})

RefuseInvalid ==
  /\ InEpoch
  /\ ~Conflicting(call.user, call.batch)
  /\ ~EnrollmentConflict
  /\ ~SemanticallyValid(call.user, call.batch, call.generation)
  /\ RollBack
  /\ Answer("operation_invalid", NoGeneration, {})

Admissible ==
  /\ ~Conflicting(call.user, call.batch)
  /\ ~EnrollmentConflict
  /\ SemanticallyValid(call.user, call.batch, call.generation)

Extended == RowsOf(call.user) \cup NewRows(call.user, call.batch, call.generation)

\* Quotas are met after every insertion, so it is the whole batch or nothing;
\* a request that inserts nothing is never over quota.
RefuseQuota ==
  /\ InEpoch
  /\ Admissible
  /\ Fresh(call.user, call.batch) # {}
  /\ OverQuota(Extended)
  /\ RollBack
  /\ Answer("storage_limit", NoGeneration, {})

Commit ==
  /\ InEpoch
  /\ Admissible
  /\ Fresh(call.user, call.batch) = {} \/ ~OverQuota(Extended)
  /\ LET fresh == Fresh(call.user, call.batch)
     IN  /\ lastSequence + Cardinality(fresh) <= MaxSequence
         /\ lastSequence' = lastSequence + Cardinality(fresh)
         /\ events' = events \cup NewRows(call.user, call.batch, call.generation)
         /\ objects' = objects \cup
              Referenced(NewRows(call.user, call.batch, call.generation))
  /\ UNCHANGED <<accounts, lastGeneration>>
  /\ Answer("ok", accounts[call.user].generation,
            {call.batch[i] : i \in DOMAIN call.batch})

-----------------------------------------------------------------------------
(* deleteAccount().                                                         *)

\* Generation 1 is the epoch legacy clients assume: the deletion of an account
\* never seen before allocates past it.
DeletionGeneration(u) ==
  IF ~HasAccount(u) /\ NextGeneration = 1 THEN 2 ELSE NextGeneration

Delete(u) ==
  /\ call = NoCall
  /\ HasAccount(u) \/ RoomForAccount
  /\ DeletionGeneration(u) <= MaxGeneration
  /\ lastGeneration' = DeletionGeneration(u)
  /\ accounts' = [accounts EXCEPT ![u] = Account(DeletionGeneration(u))]
  /\ events' = events \ RowsOf(u)
  /\ objects' = objects \cap Referenced(events')
  /\ reply' = [user |-> u, outcome |-> "deleted",
               generation |-> DeletionGeneration(u), accepted |-> {}]
  /\ UNCHANGED <<lastSequence, now, call>>

RefuseDelete(u) ==
  /\ call = NoCall
  /\ \/ ~HasAccount(u) /\ ~RoomForAccount
     \/ DeletionGeneration(u) > MaxGeneration
  /\ reply' = [user |-> u, outcome |-> "delete_failed",
               generation |-> NoGeneration, accepted |-> {}]
  /\ UNCHANGED <<accounts, lastGeneration, events, lastSequence, objects, now,
                 call>>

-----------------------------------------------------------------------------
(* The page of a successful reply: the rows after the cursor, in order, as   *)
(* far as the row limit and the byte budget reach.                          *)

RowsAfter(u, cursor) == {row \in RowsOf(u) : row.seq > cursor}

\* What rows take of a page, beside the envelope.
PageBytes(rows) == MapThenSumSet(LAMBDA row : OperationBytes(row.op), rows)

\* Mutant: the budget is exclusive.
PageRowsExclusive(u, cursor) ==
  LET upTo(row) == {r \in RowsAfter(u, cursor) : r.seq <= row.seq}
  IN  {row \in RowsAfter(u, cursor) :
         /\ Cardinality(upTo(row)) <= EventLimit
         /\ EnvelopeBytes + PageBytes(upTo(row)) < MaxPullBytes}

PageRows(u, cursor) ==
  LET upTo(row) == {r \in RowsAfter(u, cursor) : r.seq <= row.seq}
  IN  {row \in RowsAfter(u, cursor) :
         /\ Cardinality(upTo(row)) <= EventLimit
         /\ EnvelopeBytes + PageBytes(upTo(row)) <= MaxPullBytes}

NextCursor(u, cursor) ==
  IF PageRows(u, cursor) = {} THEN cursor
  ELSE Max({row.seq : row \in PageRows(u, cursor)})

HasMore(u, cursor) == RowsAfter(u, NextCursor(u, cursor)) # {}

-----------------------------------------------------------------------------
EndSync ==
  \/ SyncExpired \/ SyncUnknown \/ RefuseAccount \/ RefuseExhausted
  \/ RefuseMismatch \/ RefuseConflict \/ RefuseEnrollment \/ RefuseInvalid
  \/ RefuseQuota \/ Commit

Next ==
  \/ \E u \in Users, g \in 0..MaxGeneration, b \in Batches, e \in BOOLEAN :
       ReceiveSync(u, g, b, e)
  \/ \E u \in Users, b \in Batches : RefuseOversized(u, b)
  \/ EndSync
  \/ \E u \in Users : Delete(u) \/ RefuseDelete(u)
  \/ Maintain
  \/ Restart
  \/ Tick

Spec == Init /\ [][Next]_vars

-----------------------------------------------------------------------------
(* Type invariant: accounts, rows and the open request hold what their       *)
(* columns and fields can hold (tables of server/store.ts, migrate()).      *)
Generations == 0..MaxGeneration
Rows == [seq : Nat, user : Users, op : Operations, epoch : Generations,
         raw : BOOLEAN]
TypeOK ==
  /\ accounts \in [Users -> [generation : Generations, until : Nat]]
  /\ lastGeneration \in Generations
  /\ events \subseteq Rows
  /\ lastSequence \in Nat
  /\ now \in Nat
  /\ objects \subseteq UNION {op.snapshots : op \in Operations}
  /\ \/ call = NoCall
     \/ /\ call.open
        /\ call.user \in Users
        /\ call.generation \in Generations
        /\ call.batch \in Batches
        /\ call.requireEmpty \in BOOLEAN
        /\ call.generation = NoGeneration => call.batch = <<>>

\* What makes the other properties inductive: the allocation counter bounds
\* every generation in use, and the AUTOINCREMENT counter every row.
CountersBound ==
  /\ \A u \in Users : accounts[u].generation <= lastGeneration
  /\ \A row \in events : row.seq <= lastSequence

\* Every stored row was accepted under the generation its account has now:
\* nothing of a deleted or expired epoch is left, and nothing sent for one is
\* ever stored (deleteAccount, the expiry branch and the generation check of
\* sync()).  An account without a row has no events.
EpochIsolation ==
  \A row \in events :
    /\ row.epoch = accounts[row.user].generation
    /\ row.epoch # NoGeneration

\* An account's log always replays: each row is legal after the rows before
\* it, so every device can rebuild the collection by strict replay
\* (validateSyncOperationSemantics against what is already stored).
LogReplays == \A u \in Users : LegalFrom(OpsOf(RowsOf(u)), 1)

\* The snapshots kept are exactly those the compact rows embed: erasure leaves
\* no orphan behind, and no row lost a snapshot it shares with a deleted account,
\* however far the compaction of an earlier release's rows had come
\* (internSyncObject, deleteAllUnreferencedSyncObjects).
SnapshotsExact == objects = Referenced(events)

\* A row of an earlier release, whose limit was another, that no page has room for.
TooLarge(row) ==
  /\ row.op \in {old.op : old \in UNION Inherited}
  /\ EnvelopeBytes + OperationBytes(row.op) > MaxPullBytes

\* From any cursor a pull either reaches the end of the log or moves forward,
\* unless the next row is such a row, and skips no row: a client that follows the
\* cursor sees every row once (the page loop of sync(), under the budget loadConfig
\* enforces).
PullProgresses ==
  \A u \in Users, cursor \in 0..lastSequence :
    /\ HasMore(u, cursor) =>
         \/ NextCursor(u, cursor) > cursor
         \/ \E row \in RowsAfter(u, cursor) :
              TooLarge(row) /\ \A r \in RowsAfter(u, cursor) : row.seq <= r.seq
    /\ RowsAfter(u, cursor) \ RowsAfter(u, NextCursor(u, cursor))
         = PageRows(u, cursor)

-----------------------------------------------------------------------------
\* The store implements the abstract log of every account: expiry, retention,
\* deletion, retries, refusals and crashes are appends, renewals and removals
\* of AccountLog, or nothing a device could see.
Promise == INSTANCE AccountLog WITH
  issued <- lastGeneration,
  generation <- [u \in Users |-> accounts[u].generation],
  log <- [u \in Users |-> OpsOf(RowsOf(u))]
ImplementsAccountLog == Promise!Spec

\* A generation given to an account is above every one issued before it in the
\* whole database, also after the account that had it is pruned, and across
\* restarts (allocateSyncGeneration).
GenerationsNeverReissued ==
  [][ /\ lastGeneration' >= lastGeneration
      /\ \A u \in Users :
           accounts'[u].generation
             \notin {NoGeneration, accounts[u].generation}
           => accounts'[u].generation > lastGeneration ]_vars

\* Within an epoch the log only grows, behind every row ever inserted: a
\* device's cursor never has a new row appear before it, and a row that becomes
\* compact stays where it is.
Sent(rows) == {[seq |-> row.seq, user |-> row.user, op |-> row.op] : row \in rows}
AppendOnly ==
  [][ /\ \A u \in Users :
           accounts'[u].generation = accounts[u].generation
           => Sent(RowsOf(u)) \subseteq Sent(events')
      /\ \A row \in Sent(events') \ Sent(events) : row.seq > lastSequence ]_vars

=============================================================================
