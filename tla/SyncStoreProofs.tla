--------------------------- MODULE SyncStoreProofs ---------------------------
(* What holds of SyncStore for every set of users, operations and batches and  *)
(* for all limits.                                                            *)
EXTENDS SyncStore, HoldingLogProofs, SequenceTheorems

\* The fresh positions of a batch are finitely many positions of it.
LEMMA FreshFinite ==
  ASSUME NEW u, NEW batch \in Batches
  PROVE  /\ Fresh(u, batch) \subseteq 1..Len(batch)
         /\ IsFiniteSet(Fresh(u, batch))
         /\ Cardinality(Fresh(u, batch)) \in Nat
<1>1. batch \in Seq(Operations)
  BY BatchType
<1>2. Fresh(u, batch) \subseteq 1..Len(batch)
  BY <1>1 DEF Fresh
<1>3. IsFiniteSet(1..Len(batch))
  BY <1>1, FS_Interval
<1>4. IsFiniteSet(Fresh(u, batch))
  BY <1>2, <1>3, FS_Subset
<1>5. QED
  BY <1>2, <1>4, FS_CardinalityType

\* The rows a batch adds: their type, their order behind every stored row, and
\* the epoch they carry.
LEMMA NewRowsRange ==
  ASSUME lastSequence \in Nat, NEW u \in Users, NEW batch \in Batches,
         NEW g \in Generations
  PROVE  \A row \in NewRows(u, batch, g) :
           /\ row \in Rows
           /\ row.seq > lastSequence
           /\ row.seq <= lastSequence + Cardinality(Fresh(u, batch))
           /\ row.user = u
           /\ row.epoch = g
<1> DEFINE F == Fresh(u, batch)
<1>1. F \in SUBSET Int /\ IsFiniteSet(F) /\ Cardinality(F) \in Nat
  BY FreshFinite, BatchType
<1>2. SUFFICES ASSUME NEW i \in F
               PROVE  LET row == [seq |-> lastSequence + Rank(F, i), user |-> u,
                                  op |-> batch[i], epoch |-> g, raw |-> FALSE]
                      IN  /\ row \in Rows
                          /\ row.seq > lastSequence
                          /\ row.seq <= lastSequence + Cardinality(F)
                          /\ row.user = u
                          /\ row.epoch = g
  BY DEF NewRows
<1>3. Rank(F, i) \in 1..Cardinality(F)
  BY <1>1, RankRange
<1>4. batch[i] \in Operations
  BY FreshFinite, BatchType
<1>5. QED
  BY <1>1, <1>3, <1>4 DEF Rows

\* While the counter bounds the generations in use it is their maximum, and an
\* allocation returns its successor.
LEMMA HighestIsLast ==
  ASSUME TypeOK, CountersBound
  PROVE  HighestGeneration = lastGeneration
<1> DEFINE C == {lastGeneration} \cup {accounts[u].generation : u \in Users}
           Top(g) == \A u \in Users :
                       lastGeneration <= g /\ accounts[u].generation <= g
<1>1. lastGeneration \in Nat
  BY LimitType DEF TypeOK, Generations
<1>2. lastGeneration \in C /\ Top(lastGeneration)
  BY <1>1 DEF CountersBound
<1>3. HighestGeneration \in C /\ Top(HighestGeneration)
  BY <1>2 DEF HighestGeneration
<1>4. CASE Users = {}
  BY <1>3, <1>4
<1>5. CASE Users # {}
  <2>1. PICK u \in Users : TRUE
    BY <1>5
  <2>2. /\ HighestGeneration <= lastGeneration
        /\ lastGeneration <= HighestGeneration
    BY <1>1, <1>3, <2>1 DEF CountersBound
  <2>3. HighestGeneration \in Int
    BY <1>1, <1>3, LimitType DEF TypeOK, Generations
  <2>4. QED
    BY <1>1, <2>2, <2>3
<1>6. QED
  BY <1>4, <1>5

\* So the next generation is one above the last.
LEMMA NextIsSuccessor ==
  ASSUME TypeOK, CountersBound
  PROVE  NextGeneration = lastGeneration + 1
BY HighestIsLast DEF NextGeneration

-----------------------------------------------------------------------------
(* Type correctness and the two counters.                                    *)

CountersInv == TypeOK /\ CountersBound

\* The same row, whether compact or not.
SameRow(r, s) == r.seq = s.seq /\ r.user = s.user /\ r.op = s.op /\ r.epoch = s.epoch

Snapshots == UNION {op.snapshots : op \in Operations}

\* The rows and snapshots of the tables, in whatever form.
Holds(rows, snapshots) ==
  /\ rows \subseteq Rows
  /\ snapshots \subseteq Snapshots
  /\ \A row \in rows : \E old \in events : SameRow(row, old)
  /\ \A old \in events : \E row \in rows : SameRow(row, old)

\* Making rows compact changes neither their type nor what they say.
LEMMA MigrationKeepsRows ==
  ASSUME NEW rows \in SUBSET Rows, NEW limit
  PROVE  LET moved == MigrateLegacy(rows, limit)
         IN  /\ moved \subseteq Rows
             /\ \A row \in moved : \E old \in rows : SameRow(row, old)
             /\ \A old \in rows : \E row \in moved : SameRow(row, old)
             /\ \A old \in rows : ~old.raw => old \in moved
<1> DEFINE due(row) ==
             row.raw /\ Rank({r.seq : r \in {x \in rows : x.raw}}, row.seq) <= limit
           form(row) == IF due(row) THEN [row EXCEPT !.raw = FALSE] ELSE row
<1>1. MigrateLegacy(rows, limit) = {form(row) : row \in rows}
  BY DEF MigrateLegacy
<1>2. ASSUME NEW row \in rows
      PROVE  /\ form(row) \in Rows
             /\ SameRow(form(row), row)
             /\ ~row.raw => form(row) = row
  <2>1. row \in Rows
    OBVIOUS
  <2>2. CASE due(row)
    BY <2>1, <2>2 DEF Rows, SameRow
  <2>3. CASE ~due(row)
    BY <2>1, <2>3 DEF SameRow
  <2>4. QED
    BY <2>2, <2>3
<1> HIDE DEF form, due
<1>3. QED
  BY <1>1, <1>2

\* The tables hold themselves.
LEMMA TablesHold == TypeOK => Holds(events, objects)
BY DEF TypeOK, Holds, SameRow, Snapshots

\* A compaction of some rows leaves what the tables hold, and interns the
\* snapshots of those rows.
LEMMA CompactionHolds ==
  ASSUME TypeOK, NEW limit
  PROVE  LET rows == MigrateLegacy(events, limit)
         IN  Holds(rows, objects \cup Referenced(rows \ events))
<1> DEFINE rows == MigrateLegacy(events, limit)
<1>1. /\ rows \subseteq Rows
      /\ \A row \in rows : \E old \in events : SameRow(row, old)
      /\ \A old \in events : \E row \in rows : SameRow(row, old)
  BY MigrationKeepsRows DEF TypeOK
<1> HIDE DEF rows
<1>2. Referenced(rows \ events) \subseteq Snapshots
  BY <1>1 DEF Referenced, Rows, Snapshots
<1>3. QED
  BY <1>1, <1>2 DEF Holds, TypeOK, Snapshots, rows

\* The rows an earlier release may leave are rows, of the first generation.
LEMMA InheritedRows ==
  ASSUME NEW rows \in Inherited
  PROVE  /\ rows \in SUBSET Rows
         /\ Cardinality(rows) \in Nat
         /\ \A row \in rows : row.seq <= Cardinality(rows) /\ row.epoch = 1
<1>1. /\ IsFiniteSet(rows)
      /\ rows \subseteq [seq : 1..Cardinality(rows), user : Users, op : Operations,
                          epoch : {1}, raw : {TRUE}]
  BY InheritedType, Zenon DEF Keyed
<1>2. Cardinality(rows) \in Nat
  BY <1>1, FS_CardinalityType
<1>3. 1 \in Generations
  BY LimitType DEF Generations
<1> DEFINE n == Cardinality(rows)
<1>4. ASSUME NEW row \in rows
      PROVE  row \in Rows /\ row.seq <= n /\ row.epoch = 1
  <2>1. row \in [seq : 1..n, user : Users, op : Operations, epoch : {1}, raw : {TRUE}]
    BY <1>1
  <2>2. 1..n \subseteq Nat /\ n \in Nat
    BY <1>2
  <2> HIDE DEF n
  <2>3. row \in Rows
    BY <1>3, <2>1, <2>2 DEF Rows
  <2>4. row.seq \in 1..n /\ row.epoch = 1
    BY <2>1
  <2>5. QED
    BY <2>2, <2>3, <2>4
<1>5. QED
  BY <1>2, <1>4

\* A new or upgraded database has its types and its counters right.
LEMMA InitCounters == Init => CountersInv
<1> SUFFICES ASSUME Init PROVE CountersInv
  OBVIOUS
<1> USE LimitType DEF Generations
<1>1. PICK rows \in Inherited, legacy \in SUBSET Users :
        /\ accounts = [u \in Users |->
             IF u \in legacy THEN [generation |-> 1, until |-> Retention]
             ELSE NoAccount]
        /\ lastGeneration = IF legacy = {} THEN 0 ELSE 1
        /\ events = MigrateLegacy(rows, StartCompactLimit)
        /\ lastSequence = Cardinality(rows)
  BY DEF Init
<1>2. /\ rows \in SUBSET Rows
      /\ Cardinality(rows) \in Nat
      /\ \A row \in rows : row.seq <= Cardinality(rows)
  BY InheritedRows
<1>3. /\ events \subseteq Rows
      /\ \A row \in events : \E old \in rows : SameRow(row, old)
  BY <1>1, <1>2, MigrationKeepsRows
<1>4. objects \subseteq Snapshots
  BY <1>3 DEF Init, Referenced, Rows, Snapshots
<1>5. TypeOK
  BY <1>1, <1>2, <1>3, <1>4 DEF Init, TypeOK, NoAccount, NoGeneration, Snapshots
<1>6. CountersBound
  <2>1. \A u \in Users : accounts[u].generation <= lastGeneration
    BY <1>1 DEF NoAccount, NoGeneration
  <2>2. \A row \in events : row.seq <= lastSequence
    BY <1>1, <1>2, <1>3 DEF SameRow
  <2>3. QED
    BY <2>1, <2>2 DEF CountersBound
<1>7. QED
  BY <1>5, <1>6 DEF CountersInv

\* Pruning forgets accounts, rows and snapshots and changes nothing else.
LEMMA PruneShrinks ==
  ASSUME CountersInv, NEW limit, NEW rows, NEW snapshots,
         PruneExpiredAccounts(limit, rows, snapshots)
  PROVE  /\ accounts' \in [Users -> [generation : Generations, until : Nat]]
         /\ \A u \in Users : accounts'[u] \in {accounts[u], NoAccount}
         /\ events' \subseteq rows
         /\ objects' \subseteq snapshots
         /\ UNCHANGED <<lastSequence, now>>
<1>1. NoAccount \in [generation : Generations, until : Nat]
  BY LimitType DEF NoAccount, NoGeneration, Generations
<1>2. QED
  BY <1>1 DEF CountersInv, TypeOK, PruneExpiredAccounts

\* Pruning keeps the types, and every counter stays above what it bounds.
LEMMA PruneCounters ==
  ASSUME CountersInv, NEW limit, NEW rows, NEW snapshots, Holds(rows, snapshots),
         PruneExpiredAccounts(limit, rows, snapshots)
  PROVE  /\ \A u \in Users : accounts'[u].generation <= lastGeneration
         /\ \A row \in events' : row.seq <= lastSequence'
         /\ accounts' \in [Users -> [generation : Generations, until : Nat]]
         /\ events' \subseteq Rows
         /\ objects' \subseteq UNION {op.snapshots : op \in Operations}
         /\ UNCHANGED <<lastSequence, now>>
<1>1. \A u \in Users : accounts'[u].generation <= lastGeneration
  <2>1. ASSUME NEW u \in Users PROVE accounts'[u].generation <= lastGeneration
    <3>1. accounts'[u] = accounts[u] \/ accounts'[u] = NoAccount
      BY PruneShrinks
    <3>2. accounts[u].generation <= lastGeneration
      BY DEF CountersInv, CountersBound
    <3>3. NoAccount.generation <= lastGeneration
      BY LimitType DEF CountersInv, TypeOK, NoAccount, NoGeneration, Generations
    <3>4. QED
      BY <3>1, <3>2, <3>3
  <2>2. QED
    BY <2>1
<1>2. \A row \in events' : row.seq <= lastSequence'
  <2>1. \A row \in rows : row.seq <= lastSequence
    BY DEF CountersInv, CountersBound, Holds, SameRow
  <2>2. QED
    BY <2>1, PruneShrinks
<1>3. QED
  BY PruneShrinks, <1>1, <1>2 DEF Holds, Snapshots

\* A compaction followed by the pruning does the same.
LEMMA CompactCounters ==
  ASSUME CountersInv, NEW rowLimit, NEW limit, CompactAndPrune(rowLimit, limit)
  PROVE  \E rows, snapshots :
           Holds(rows, snapshots) /\ PruneExpiredAccounts(limit, rows, snapshots)
BY CompactionHolds DEF CountersInv, CompactAndPrune

\* An allocation hands out one more than the counter and records it.
LEMMA AllocateCounters ==
  ASSUME CountersInv, NEW u \in Users, NEW g \in {NextGeneration, 2},
         g >= NextGeneration, g <= MaxGeneration,
         lastGeneration' = g,
         accounts' = [accounts EXCEPT ![u] = Account(g)]
  PROVE  /\ g \in Generations
         /\ g > lastGeneration
         /\ lastGeneration' \in Generations
         /\ accounts' \in [Users -> [generation : Generations, until : Nat]]
         /\ \A v \in Users : accounts'[v].generation <= lastGeneration'
<1>1. NextGeneration = lastGeneration + 1
  BY NextIsSuccessor DEF CountersInv
<1>2. g \in Generations /\ g > lastGeneration
  BY <1>1, LimitType, SMTT(30) DEF CountersInv, TypeOK, Generations
<1>3. Account(g) \in [generation : Generations, until : Nat]
  BY <1>2, LimitType DEF Account, CountersInv, TypeOK
<1>4. accounts' \in [Users -> [generation : Generations, until : Nat]]
  BY <1>3 DEF CountersInv, TypeOK
<1>5. \A v \in Users : accounts'[v].generation <= lastGeneration'
  BY <1>2, LimitType, SMTT(30)
  DEF CountersInv, TypeOK, CountersBound, Account, Generations
<1>6. QED
  BY <1>2, <1>4, <1>5

\* What Commit adds to the rows and to the snapshots.
LEMMA CommitCounters ==
  ASSUME CountersInv, Commit
  PROVE  CountersInv'
<1> DEFINE new == NewRows(call.user, call.batch, call.generation)
<1>1. /\ call.user \in Users /\ call.batch \in Batches
      /\ call.generation \in Generations
  BY DEF CountersInv, TypeOK, Commit, InEpoch, NoCall
<1>2. \A row \in new :
        /\ row \in Rows
        /\ row.seq <= lastSequence'
  BY <1>1, NewRowsRange DEF CountersInv, TypeOK, Commit
<1>3. lastSequence' \in Nat /\ lastSequence' >= lastSequence
  BY <1>1, FreshFinite DEF CountersInv, TypeOK, Commit
<1>4. Referenced(new) \subseteq UNION {op.snapshots : op \in Operations}
  BY <1>2 DEF Referenced, Rows
<1>5. TypeOK'
  BY <1>2, <1>3, <1>4 DEF CountersInv, TypeOK, Commit, Answer
<1>6. CountersBound'
  <2>1. \A row \in events : row.seq <= lastSequence'
    BY <1>3 DEF CountersInv, TypeOK, CountersBound, Rows
  <2>2. QED
    BY <1>2, <2>1 DEF CountersInv, TypeOK, CountersBound, Commit
<1>7. QED
  BY <1>5, <1>6 DEF CountersInv

\* Every step keeps the types and the counters.
LEMMA StepCounters == CountersInv /\ [Next]_vars => CountersInv'
<1> SUFFICES ASSUME CountersInv, [Next]_vars PROVE CountersInv'
  OBVIOUS
<1>1. ASSUME NEW u \in Users, NEW g \in 0..MaxGeneration, NEW b \in Batches,
             NEW e \in BOOLEAN, ReceiveSync(u, g, b, e)
      PROVE  CountersInv'
  <2>1. PICK rows, snapshots :
          /\ Holds(rows, snapshots)
          /\ PruneExpiredAccounts(SyncPruneLimit, rows, snapshots)
    BY <1>1, CompactCounters DEF ReceiveSync
  <2>2. TypeOK'
    BY <1>1, <2>1, PruneCounters DEF CountersInv, TypeOK, ReceiveSync, Generations
  <2>3. QED
    BY <1>1, <2>1, <2>2, PruneCounters
    DEF CountersInv, CountersBound, ReceiveSync
<1>2. ASSUME NEW u \in Users, NEW b \in Batches, RefuseOversized(u, b)
      PROVE  CountersInv'
  BY <1>2 DEF CountersInv, TypeOK, CountersBound, RefuseOversized
<1>3. CASE SyncExpired \/ SyncUnknown
  <2>1. call.user \in Users
    BY <1>3 DEF CountersInv, TypeOK, SyncExpired, SyncUnknown, NoCall
  <2>2. AllocateFor(call.user) /\ call' = NoCall /\ now' = now
    BY <1>3 DEF SyncExpired, SyncUnknown, OpenEpoch, Answer
  <2>3. /\ lastGeneration' \in Generations
        /\ accounts' \in [Users -> [generation : Generations, until : Nat]]
        /\ \A v \in Users : accounts'[v].generation <= lastGeneration'
    <3>1. NextGeneration \in Int /\ NextGeneration >= NextGeneration
      BY NextIsSuccessor, LimitType DEF CountersInv, TypeOK, Generations
    <3>2. /\ NextGeneration <= MaxGeneration
          /\ lastGeneration' = NextGeneration
          /\ accounts' = [accounts EXCEPT ![call.user] = Account(NextGeneration)]
      BY <2>2 DEF AllocateFor
    <3>3. QED
      BY <2>1, <3>1, <3>2, AllocateCounters
  <2>4. events' \subseteq events /\ objects' \subseteq objects
        /\ lastSequence' = lastSequence
    BY <1>3 DEF SyncExpired, SyncUnknown
  <2>5. QED
    BY <2>2, <2>3, <2>4 DEF CountersInv, TypeOK, CountersBound
<1>4. CASE RefuseAccount \/ RefuseExhausted \/ RefuseMismatch \/ RefuseConflict
             \/ RefuseEnrollment \/ RefuseInvalid \/ RefuseQuota
  BY <1>4 DEF CountersInv, TypeOK, CountersBound, RefuseAccount, RefuseExhausted,
              RefuseMismatch, RefuseConflict, RefuseEnrollment, RefuseInvalid,
              RefuseQuota, RollBack, Answer
<1>5. CASE Commit
  BY <1>5, CommitCounters
<1>6. ASSUME NEW u \in Users, Delete(u)
      PROVE  CountersInv'
  <2>1. NextGeneration = lastGeneration + 1 /\ lastGeneration \in Nat
    BY NextIsSuccessor, LimitType DEF CountersInv, TypeOK, Generations
  <2>2. /\ DeletionGeneration(u) \in {NextGeneration, 2}
        /\ DeletionGeneration(u) >= NextGeneration
    BY <2>1 DEF DeletionGeneration
  <2>3. /\ lastGeneration' \in Generations
        /\ accounts' \in [Users -> [generation : Generations, until : Nat]]
        /\ \A v \in Users : accounts'[v].generation <= lastGeneration'
    BY <1>6, <2>2, AllocateCounters DEF Delete
  <2>4. /\ events' \subseteq events /\ objects' \subseteq objects
        /\ UNCHANGED <<lastSequence, now, call>>
    BY <1>6 DEF Delete
  <2>5. QED
    BY <2>3, <2>4 DEF CountersInv, TypeOK, CountersBound
<1>7. ASSUME NEW u \in Users, RefuseDelete(u)
      PROVE  CountersInv'
  BY <1>7 DEF CountersInv, TypeOK, CountersBound, RefuseDelete
<1>8. CASE Maintain
  <2>1. /\ PruneExpiredAccounts(MaintenanceLimit, events, objects)
        /\ Holds(events, objects)
        /\ UNCHANGED <<lastGeneration, call>>
    BY <1>8, TablesHold DEF Maintain, CountersInv
  <2>2. TypeOK'
    BY <2>1, PruneCounters DEF CountersInv, TypeOK
  <2>3. QED
    BY <2>1, <2>2, PruneCounters DEF CountersInv, CountersBound
<1>9. CASE Restart
  <2>1. HighestGeneration = lastGeneration
    BY HighestIsLast DEF CountersInv
  <2>2. PICK rows, snapshots :
          /\ Holds(rows, snapshots)
          /\ PruneExpiredAccounts(MaintenanceLimit, rows, snapshots)
          /\ call' = NoCall
          /\ lastGeneration' = lastGeneration
    BY <1>9, <2>1, CompactCounters DEF Restart
  <2>3. TypeOK'
    BY <2>2, PruneCounters DEF CountersInv, TypeOK
  <2>4. QED
    BY <2>2, <2>3, PruneCounters DEF CountersInv, CountersBound
<1>10. CASE Tick
  BY <1>10 DEF CountersInv, TypeOK, CountersBound, Tick
<1>11. CASE UNCHANGED vars
  BY <1>11 DEF CountersInv, TypeOK, CountersBound, vars
<1>12. QED
  BY <1>1, <1>2, <1>3, <1>4, <1>5, <1>6, <1>7, <1>8, <1>9, <1>10, <1>11
  DEF Next, EndSync

\* Accounts, rows, counters and the open request always have their types
\* (tables of server/store.ts).
THEOREM TypeCorrect == Spec => []TypeOK
<1>1. CountersInv => TypeOK
  BY DEF CountersInv
<1>2. QED
  BY <1>1, InitCounters, StepCounters, PTL DEF Spec

-----------------------------------------------------------------------------
(* Epochs.                                                                   *)

EpochInv == CountersInv /\ EpochIsolation

\* An account without a generation has no rows.
LEMMA NoRowsWithoutAccount ==
  ASSUME EpochIsolation, NEW u, ~HasAccount(u)
  PROVE  RowsOf(u) = {}
BY DEF EpochIsolation, HasAccount, RowsOf

\* What an earlier release left belongs to the first generation of its accounts.
LEMMA InitEpoch == Init => EpochInv
<1> SUFFICES ASSUME Init PROVE EpochIsolation
  BY InitCounters DEF EpochInv
<1>1. PICK rows \in Inherited, legacy \in SUBSET Users :
        /\ \A row \in rows : row.user \in legacy
        /\ accounts = [u \in Users |->
             IF u \in legacy THEN [generation |-> 1, until |-> Retention]
             ELSE NoAccount]
        /\ events = MigrateLegacy(rows, StartCompactLimit)
  BY DEF Init
<1>2. rows \in SUBSET Rows /\ \A row \in rows : row.epoch = 1
  BY InheritedRows
<1>3. \A row \in events : \E old \in rows : SameRow(row, old)
  BY <1>1, <1>2, MigrationKeepsRows
<1>4. QED
  BY <1>1, <1>2, <1>3 DEF EpochIsolation, SameRow, NoGeneration

\* Replacing the generation of an account whose rows go keeps the others'
\* epochs apart.
LEMMA ReplaceEpoch ==
  ASSUME EpochInv, NEW u \in Users, NEW account,
         accounts' = [accounts EXCEPT ![u] = account],
         events' = events \ RowsOf(u)
  PROVE  EpochIsolation'
<1>1. SUFFICES ASSUME NEW row \in events'
               PROVE  /\ row.epoch = accounts'[row.user].generation
                      /\ row.epoch # NoGeneration
  BY DEF EpochIsolation
<1>2. row \in events /\ row.user # u
  BY DEF RowsOf
<1>3. accounts'[row.user] = accounts[row.user]
  BY <1>2 DEF EpochInv, CountersInv, TypeOK, Rows
<1>4. QED
  BY <1>2, <1>3 DEF EpochInv, EpochIsolation

\* Pruning takes the rows of an account with the account.
LEMMA PruneEpoch ==
  ASSUME EpochInv, NEW limit, NEW rows, NEW snapshots, Holds(rows, snapshots),
         PruneExpiredAccounts(limit, rows, snapshots)
  PROVE  EpochIsolation'
<1>1. PICK P \in Oldest(limit) :
        /\ accounts' = [u \in Users |-> IF u \in P THEN NoAccount ELSE accounts[u]]
        /\ events' = {row \in rows : row.user \notin P}
  BY DEF PruneExpiredAccounts
<1>2. \A row \in rows : /\ row.user \in Users
                        /\ row.epoch = accounts[row.user].generation
                        /\ row.epoch # NoGeneration
  BY DEF Holds, Rows, SameRow, EpochInv, EpochIsolation
<1>3. \A row \in events' : row \in rows /\ accounts'[row.user] = accounts[row.user]
  BY <1>1, <1>2
<1>4. QED
  BY <1>2, <1>3 DEF EpochIsolation

\* The same after a compaction.
LEMMA CompactEpoch ==
  ASSUME EpochInv, NEW rowLimit, NEW limit, CompactAndPrune(rowLimit, limit)
  PROVE  EpochIsolation'
BY CompactCounters, PruneEpoch DEF EpochInv

\* Every step keeps the rows of an account in its generation.
LEMMA StepEpoch == EpochInv /\ [Next]_vars => EpochInv'
<1> SUFFICES ASSUME EpochInv, [Next]_vars PROVE EpochIsolation'
  BY StepCounters DEF EpochInv
<1>1. CASE \/ \E rowLimit, limit : CompactAndPrune(rowLimit, limit)
           \/ \E limit : PruneExpiredAccounts(limit, events, objects)
  BY <1>1, CompactEpoch, PruneEpoch, TablesHold DEF EpochInv, CountersInv
<1>2. CASE UNCHANGED <<accounts, events>>
  BY <1>2 DEF EpochInv, EpochIsolation
<1>3. CASE SyncExpired \/ SyncUnknown
  <2>1. call.user \in Users
    BY <1>3 DEF EpochInv, CountersInv, TypeOK, SyncExpired, SyncUnknown, NoCall
  <2>2. accounts' = [accounts EXCEPT ![call.user] = Account(NextGeneration)]
    BY <1>3 DEF SyncExpired, SyncUnknown, OpenEpoch, AllocateFor
  <2>3. events' = events \ RowsOf(call.user)
    BY <1>3, NoRowsWithoutAccount DEF SyncExpired, SyncUnknown, EpochInv
  <2>4. QED
    BY <2>1, <2>2, <2>3, ReplaceEpoch
<1>4. CASE Commit
  <2>1. /\ call.user \in Users /\ call.batch \in Batches
        /\ call.generation \in Generations
        /\ call.generation = NoGeneration => call.batch = <<>>
    BY <1>4 DEF EpochInv, CountersInv, TypeOK, Commit, InEpoch, NoCall
  <2>2. ASSUME NEW row \in NewRows(call.user, call.batch, call.generation)
        PROVE  /\ row.epoch = accounts[row.user].generation
               /\ row.epoch # NoGeneration
    <3>1. row.user = call.user /\ row.epoch = call.generation
      BY <2>1, NewRowsRange DEF EpochInv, CountersInv, TypeOK
    <3>2. call.batch # <<>>
      <4>1. Fresh(call.user, call.batch) # {}
        BY DEF NewRows
      <4>2. QED
        BY <4>1 DEF Fresh
    <3>3. call.generation = accounts[call.user].generation
      BY <1>4, <2>1, <3>2 DEF Commit, InEpoch
    <3>4. QED
      BY <2>1, <3>1, <3>2, <3>3
  <2>3. QED
    BY <1>4, <2>2 DEF Commit, EpochInv, EpochIsolation
<1>5. ASSUME NEW u \in Users, Delete(u)
      PROVE  EpochIsolation'
  BY <1>5, ReplaceEpoch DEF Delete
<1>6. QED
  BY <1>1, <1>2, <1>3, <1>4, <1>5
  DEF Next, EndSync, ReceiveSync, RefuseOversized, RefuseAccount, RefuseExhausted,
      RefuseMismatch, RefuseConflict, RefuseEnrollment, RefuseInvalid,
      RefuseQuota, RollBack, RefuseDelete, Maintain, Restart, Tick, vars

\* No row of a deleted or expired epoch survives, and none is ever stored for
\* one: the generation check and the epoch boundaries of sync() and
\* deleteAccount() keep a stale device's queue out.
THEOREM EpochsIsolated == Spec => []EpochIsolation
<1>1. Init => EpochInv
  BY InitEpoch
<1>2. EpochInv => EpochIsolation
  BY DEF EpochInv
<1>3. QED
  BY <1>1, <1>2, StepEpoch, PTL DEF Spec

\* A new generation is above every generation ever issued, across deletions,
\* pruning and restarts (allocateSyncGeneration).
THEOREM NeverReissued == Spec => GenerationsNeverReissued
<1> DEFINE Advance ==
      /\ lastGeneration' >= lastGeneration
      /\ \A u \in Users :
           accounts'[u].generation \notin {NoGeneration, accounts[u].generation}
           => accounts'[u].generation > lastGeneration
<1>1. CountersInv /\ [Next]_vars => [Advance]_vars
  <2> SUFFICES ASSUME CountersInv, Next PROVE Advance
    OBVIOUS
  <2>1. lastGeneration \in Int
    BY LimitType DEF CountersInv, TypeOK, Generations
  <2>2. CASE /\ \E limit, rows, snapshots :
                  PruneExpiredAccounts(limit, rows, snapshots)
             /\ lastGeneration' = lastGeneration
    <3>1. \A u \in Users : accounts'[u] \in {accounts[u], NoAccount}
      BY <2>2, PruneShrinks
    <3>2. QED
      BY <2>1, <2>2, <3>1 DEF NoAccount
  <2>3. CASE UNCHANGED <<accounts, lastGeneration>>
    BY <2>1, <2>3
  <2>4. ASSUME NEW u \in Users, NEW g \in Int, g > lastGeneration,
               lastGeneration' = g,
               accounts' = [accounts EXCEPT ![u] = Account(g)]
        PROVE  Advance
    BY <2>1, <2>4 DEF CountersInv, TypeOK, Account
  <2>5. NextGeneration = lastGeneration + 1
    BY NextIsSuccessor DEF CountersInv
  <2>6. CASE SyncExpired \/ SyncUnknown
    <3>1. call.user \in Users
      BY <2>6 DEF CountersInv, TypeOK, SyncExpired, SyncUnknown, NoCall
    <3>2. /\ lastGeneration' = NextGeneration
          /\ accounts' = [accounts EXCEPT ![call.user] = Account(NextGeneration)]
      BY <2>6 DEF SyncExpired, SyncUnknown, OpenEpoch, AllocateFor
    <3>3. NextGeneration \in Int /\ NextGeneration > lastGeneration
      BY <2>1, <2>5
    <3>4. QED
      BY <2>4, <3>1, <3>2, <3>3
  <2>7. ASSUME NEW u \in Users, Delete(u)
        PROVE  Advance
    <3>1. DeletionGeneration(u) \in Int /\ DeletionGeneration(u) > lastGeneration
      BY <2>1, <2>5 DEF DeletionGeneration
    <3>2. QED
      BY <2>4, <2>7, <3>1 DEF Delete
  <2>8. CASE Restart
    BY <2>2, <2>8, HighestIsLast DEF Restart, CountersInv, CompactAndPrune
  <2>9. QED
    BY <2>2, <2>3, <2>6, <2>7, <2>8
    DEF Next, EndSync, ReceiveSync, RefuseOversized, RefuseAccount,
        RefuseExhausted, RefuseMismatch, RefuseConflict, RefuseEnrollment,
        RefuseInvalid, RefuseQuota, Commit, RollBack, RefuseDelete, Maintain,
        CompactAndPrune, Tick
<1>2. QED
  BY <1>1, InitCounters, StepCounters, PTL DEF Spec, GenerationsNeverReissued

-----------------------------------------------------------------------------
(* Rows and snapshots.                                                       *)

\* What a client is sent of a row does not depend on its form.
LEMMA SentOfSameRows ==
  ASSUME NEW rows, NEW others, \A row \in rows : \E other \in others : SameRow(other, row)
  PROVE  Sent(rows) \subseteq Sent(others)
BY DEF Sent, SameRow

\* Within an epoch rows are only added, behind every row ever inserted
\* (AUTOINCREMENT, one writer).
THEOREM LogAppendOnly == Spec => AppendOnly
<1> DEFINE Appends ==
      /\ \A u \in Users :
           accounts'[u].generation = accounts[u].generation
           => Sent(RowsOf(u)) \subseteq Sent(events')
      /\ \A row \in Sent(events') \ Sent(events) : row.seq > lastSequence
<1>1. EpochInv /\ [Next]_vars => [Appends]_vars
  <2> SUFFICES ASSUME EpochInv, Next PROVE Appends
    OBVIOUS
  <2>1. ASSUME NEW limit, NEW rows, NEW snapshots, Holds(rows, snapshots),
               PruneExpiredAccounts(limit, rows, snapshots)
        PROVE  Appends
    <3>1. PICK P \in Oldest(limit) :
            /\ accounts' = [u \in Users |->
                 IF u \in P THEN NoAccount ELSE accounts[u]]
            /\ events' = {row \in rows : row.user \notin P}
      BY <2>1 DEF PruneExpiredAccounts
    <3>2. ASSUME NEW u \in Users,
                 accounts'[u].generation = accounts[u].generation
          PROVE  Sent(RowsOf(u)) \subseteq Sent(events')
      <4>1. u \in P => ~HasAccount(u)
        BY <3>1, <3>2 DEF HasAccount, NoAccount
      <4>2. u \in P => RowsOf(u) = {}
        BY <4>1, NoRowsWithoutAccount DEF EpochInv
      <4>3. \A old \in RowsOf(u) : \E row \in events' : SameRow(row, old)
        BY <2>1, <3>1, <4>2 DEF RowsOf, Holds, SameRow
      <4>4. QED
        BY <4>3, SentOfSameRows
    <3>3. \A row \in events' : \E old \in events : SameRow(old, row)
      BY <2>1, <3>1 DEF Holds, SameRow
    <3>4. Sent(events') \subseteq Sent(events)
      BY <3>3, SentOfSameRows
    <3>5. QED
      BY <3>2, <3>4
  <2>2. CASE events' = events
    BY <2>2 DEF RowsOf, Sent
  <2>3. CASE Commit
    <3>1. /\ call.user \in Users /\ call.batch \in Batches
          /\ call.generation \in Generations
      BY <2>3 DEF EpochInv, CountersInv, TypeOK, Commit, InEpoch, NoCall
    <3>2. \A row \in NewRows(call.user, call.batch, call.generation) :
            row.seq > lastSequence
      BY <3>1, NewRowsRange DEF EpochInv, CountersInv, TypeOK
    <3>3. QED
      BY <2>3, <3>2 DEF Commit, RowsOf, Sent
  <2>4. NextGeneration = lastGeneration + 1 /\ lastGeneration \in Nat
    BY NextIsSuccessor, LimitType
    DEF EpochInv, CountersInv, TypeOK, Generations
  <2>5. ASSUME NEW u \in Users, NEW g \in Int, g > lastGeneration,
               accounts' = [accounts EXCEPT ![u] = Account(g)],
               events' = events \ RowsOf(u)
        PROVE  Appends
    <3>1. accounts'[u].generation # accounts[u].generation
      BY <2>5, LimitType
      DEF EpochInv, CountersInv, TypeOK, CountersBound, Account, Generations
    <3>2. QED
      BY <2>5, <3>1 DEF RowsOf, Sent
  <2>6. CASE SyncExpired
    <3>1. call.user \in Users
      BY <2>6 DEF EpochInv, CountersInv, TypeOK, SyncExpired, NoCall
    <3>2. NextGeneration \in Int /\ NextGeneration > lastGeneration
      BY <2>4
    <3>3. QED
      BY <2>5, <2>6, <3>1, <3>2 DEF SyncExpired, OpenEpoch, AllocateFor
  <2>7. ASSUME NEW u \in Users, Delete(u)
        PROVE  Appends
    <3>1. DeletionGeneration(u) \in Int /\ DeletionGeneration(u) > lastGeneration
      BY <2>4 DEF DeletionGeneration
    <3>2. QED
      BY <2>5, <2>7, <3>1 DEF Delete
  <2>8. ASSUME NEW rowLimit, NEW limit, CompactAndPrune(rowLimit, limit)
        PROVE  Appends
    BY <2>1, <2>8, CompactCounters DEF EpochInv
  <2>9. CASE Maintain
    BY <2>1, <2>9, TablesHold DEF Maintain, EpochInv, CountersInv
  <2>10. QED
    BY <2>2, <2>3, <2>6, <2>7, <2>8, <2>9
    DEF Next, EndSync, ReceiveSync, RefuseOversized, SyncUnknown, RefuseAccount,
        RefuseExhausted, RefuseMismatch, RefuseConflict, RefuseEnrollment,
        RefuseInvalid, RefuseQuota, RollBack, RefuseDelete, Restart, Tick
<1>2. Init => EpochInv
  BY InitEpoch
<1>3. QED
  BY <1>1, <1>2, StepEpoch, PTL DEF Spec, AppendOnly

\* The compaction interns what it takes out of a row.
LEMMA CompactionInterns ==
  ASSUME TypeOK, SnapshotsExact, NEW limit
  PROVE  LET rows == MigrateLegacy(events, limit)
         IN  objects \cup Referenced(rows \ events) = Referenced(rows)
<1> DEFINE rows == MigrateLegacy(events, limit)
<1>1. \A old \in events : ~old.raw => old \in rows
  BY MigrationKeepsRows DEF TypeOK
<1> HIDE DEF rows
<1>2. QED
  BY <1>1 DEF Referenced, SnapshotsExact, rows

\* A sweep after a pruning, or none when nothing was pruned, keeps the snapshots
\* exact.
LEMMA PruneSweeps ==
  ASSUME NEW limit, NEW rows, NEW snapshots, snapshots = Referenced(rows),
         PruneExpiredAccounts(limit, rows, snapshots)
  PROVE  SnapshotsExact'
<1>1. PICK P \in Oldest(limit) :
        /\ events' = {row \in rows : row.user \notin P}
        /\ \/ objects' = snapshots \cap Referenced(events')
           \/ P = {} /\ objects' = snapshots
  BY DEF PruneExpiredAccounts
<1>2. Referenced(events') \subseteq Referenced(rows)
  BY <1>1 DEF Referenced
<1>3. CASE objects' = snapshots \cap Referenced(events')
  BY <1>2, <1>3 DEF SnapshotsExact, Referenced
<1>4. CASE P = {} /\ objects' = snapshots
  <2>1. events' = rows
    BY <1>1, <1>4
  <2>2. QED
    BY <1>4, <2>1 DEF SnapshotsExact, Referenced
<1>5. QED
  BY <1>1, <1>3, <1>4

\* The stored snapshots are exactly the referenced ones: erasing an account
\* leaves no orphan and takes nothing another account shares, at whatever point
\* the compaction of an earlier release's rows is.
THEOREM SnapshotsAreExact == Spec => []SnapshotsExact
<1> DEFINE SnapshotsInv == CountersInv /\ SnapshotsExact
<1>1. Init => SnapshotsInv
  BY InitCounters DEF Init, SnapshotsExact
<1>2. SnapshotsInv /\ [Next]_vars => SnapshotsInv'
  <2> SUFFICES ASSUME SnapshotsInv, [Next]_vars PROVE SnapshotsExact'
    BY StepCounters
  <2>1. CASE /\ events' \subseteq events
             /\ objects' = objects \cap Referenced(events')
    BY <2>1 DEF SnapshotsExact, Referenced
  <2>2. CASE UNCHANGED <<events, objects>>
    BY <2>2 DEF SnapshotsExact, Referenced
  <2>3. CASE \E limit : PruneExpiredAccounts(limit, events, objects)
    BY <2>3, PruneSweeps DEF SnapshotsExact
  <2>4. ASSUME NEW rowLimit, NEW limit, CompactAndPrune(rowLimit, limit)
        PROVE  SnapshotsExact'
    BY <2>4, CompactionInterns, PruneSweeps DEF CompactAndPrune, CountersInv
  <2>5. CASE Commit
    BY <2>5 DEF Commit, SnapshotsExact, Referenced
  <2>6. QED
    BY <2>1, <2>2, <2>3, <2>4, <2>5
    DEF Next, EndSync, ReceiveSync, RefuseOversized, SyncExpired, SyncUnknown,
        RefuseAccount, RefuseExhausted, RefuseMismatch, RefuseConflict,
        RefuseEnrollment, RefuseInvalid, RefuseQuota, RollBack, Delete,
        RefuseDelete, Maintain, Restart, Tick, vars
<1>3. QED
  BY <1>1, <1>2, PTL DEF Spec

-----------------------------------------------------------------------------
(* The log of an account.                                                    *)

LogOf(u) == OpsOf(RowsOf(u))

\* An account's rows have the keys of the table they are in.
LEMMA SomeKeyed ==
  ASSUME NEW rows \in SUBSET Rows, Keyed(rows), NEW some \in SUBSET rows
  PROVE  Keyed(some) /\ Numbered(some)
<1>1. IsFiniteSet(some)
  BY FS_Subset DEF Keyed
<1>2. \A r \in some : r.seq \in Int
  BY DEF Rows
<1> QED
  BY <1>1, <1>2 DEF Keyed, Numbered

\* A log without rows is empty, and replays.
LEMMA EmptyLog == OpsOf({}) = <<>> /\ LegalFrom(<<>>, 1)
<1>1. Cardinality({}) = 0
  BY FS_EmptySet
<1>2. OpsOf({}) \in [1..0 -> {}]
  BY <1>1 DEF OpsOf
<1>3. OpsOf({}) \in Seq({})
  BY <1>2, SeqDef
<1>4. Len(OpsOf({})) = 0
  BY <1>2, <1>3, LenProperties
<1>5. OpsOf({}) = <<>>
  BY <1>3, <1>4, EmptySeq
<1>6. LegalFrom(<<>>, 1)
  BY EmptySeq DEF LegalFrom
<1> QED
  BY <1>5, <1>6

\* A log of rows that have the keys of the table is a sequence of as many distinct
\* operations.
LEMMA LogOfRows ==
  ASSUME NEW u \in Users, NEW rows \in SUBSET Rows, Keyed(rows),
         \A row \in rows : row.user = u
  PROVE  /\ OpsOf(rows) \in Seq(Operations)
         /\ Len(OpsOf(rows)) = Cardinality(rows)
         /\ Cardinality(rows) \in Nat
         /\ \A i, j \in DOMAIN OpsOf(rows) :
              OpsOf(rows)[i].id = OpsOf(rows)[j].id => i = j
<1> DEFINE ops == OpsOf(rows)
           n == Cardinality(rows)
<1>1. Numbered(rows)
  BY SomeKeyed
<1>2. n \in Nat
  BY <1>1, NumbersCount
<1>3. /\ DOMAIN ops = 1..n
      /\ \A row \in rows : Place(rows, row) \in 1..n /\ ops[Place(rows, row)] = row.op
      /\ \A i \in 1..n : \E row \in rows : Place(rows, row) = i
  BY <1>1, OrderedRows
<1>4. ops = [i \in 1..n |-> ops[i]]
  BY DEF OpsOf
<1> HIDE DEF ops, n
<1>5. \A i \in 1..n : \E row \in rows : Place(rows, row) = i /\ ops[i] = row.op
  BY <1>3
<1>6. \A i \in 1..n : ops[i] \in Operations
  BY <1>5 DEF Rows
<1>7. ops \in [1..n -> Operations]
  BY <1>4, <1>6
<1>8. ops \in Seq(Operations)
  BY <1>2, <1>7, SeqDef
<1>9. Len(ops) = n
  BY <1>2, <1>3, <1>8, LenProperties
<1>10. ASSUME NEW i \in 1..n, NEW j \in 1..n, ops[i].id = ops[j].id
       PROVE  i = j
  <2>1. PICK r \in rows : Place(rows, r) = i /\ ops[i] = r.op
    BY <1>5
  <2>2. PICK s \in rows : Place(rows, s) = j /\ ops[j] = s.op
    BY <1>5
  <2>3. r = s
    BY <1>10, <2>1, <2>2 DEF Keyed
  <2> QED
    BY <2>1, <2>2, <2>3
<1> QED
  BY <1>2, <1>3, <1>8, <1>9, <1>10 DEF ops, n

\* Compact or not, rows keep their keys.
LEMMA MigrationKeepsKeys ==
  ASSUME NEW rows \in SUBSET Rows, Keyed(rows), NEW limit
  PROVE  Keyed(MigrateLegacy(rows, limit))
<1> DEFINE due(row) ==
             row.raw /\ Rank({r.seq : r \in {x \in rows : x.raw}}, row.seq) <= limit
           form == [row \in rows |->
                      IF due(row) THEN [row EXCEPT !.raw = FALSE] ELSE row]
           moved == {form[row] : row \in rows}
<1>1. MigrateLegacy(rows, limit) = moved
  BY DEF MigrateLegacy
<1>2. ASSUME NEW row \in rows
      PROVE  SameRow(form[row], row)
  <2>1. row \in Rows
    OBVIOUS
  <2>2. CASE due(row)
    BY <2>1, <2>2 DEF Rows, SameRow
  <2>3. CASE ~due(row)
    BY <2>1, <2>3 DEF SameRow
  <2> QED
    BY <2>2, <2>3
<1>3. form \in Surjection(rows, moved)
  BY DEF Surjection
<1> HIDE DEF form
<1>4. IsFiniteSet(moved)
  BY <1>3, FS_Surjection DEF Keyed
<1>5. ASSUME NEW r \in rows, NEW s \in rows,
             \/ form[r].seq = form[s].seq
             \/ form[r].user = form[s].user /\ form[r].op.id = form[s].op.id
      PROVE  form[r] = form[s]
  BY <1>2, <1>5 DEF SameRow, Keyed
<1>6. Keyed(moved)
  BY <1>4, <1>5 DEF Keyed
<1> QED
  BY <1>1, <1>6

\* Rows that say the same are the same log.
LEMMA SameRowsSameLog ==
  ASSUME NEW rows, NEW others, Numbered(rows), Numbered(others),
         \A row \in rows : \E other \in others : SameRow(row, other),
         \A other \in others : \E row \in rows : SameRow(row, other)
  PROVE  OpsOf(rows) = OpsOf(others)
BY SameLog DEF SameRow

\* The keys of the table, and logs that replay: with the epochs, what every step
\* needs to know of the logs.
LogInv == EpochInv /\ Keyed(events) /\ LogReplays

\* The logs of some users, and of the others none.
LEMMA UsersRows ==
  ASSUME LogInv, NEW u \in Users
  PROVE  /\ RowsOf(u) \in SUBSET Rows
         /\ Keyed(RowsOf(u))
         /\ Numbered(RowsOf(u))
<1>1. events \in SUBSET Rows /\ Keyed(events)
  BY DEF LogInv, EpochInv, CountersInv, TypeOK
<1>2. RowsOf(u) \in SUBSET events
  BY DEF RowsOf
<1> QED
  BY <1>1, <1>2, SomeKeyed

\* An upgraded database takes over logs that replay.
LEMMA InitLog == Init => LogInv
<1> SUFFICES ASSUME Init PROVE Keyed(events) /\ LogReplays
  BY InitEpoch DEF LogInv
<1>1. PICK rows \in Inherited : events = MigrateLegacy(rows, StartCompactLimit)
  BY DEF Init
<1>2. rows \in SUBSET Rows
  BY InheritedRows
<1>3. Keyed(rows)
  BY InheritedType
<1>4. Keyed(events)
  BY <1>1, <1>2, <1>3, MigrationKeepsKeys
<1>5. /\ events \in SUBSET Rows
      /\ \A row \in events : \E old \in rows : SameRow(row, old)
      /\ \A old \in rows : \E row \in events : SameRow(row, old)
  BY <1>1, <1>2, MigrationKeepsRows
<1>6. ASSUME NEW u \in Users
      PROVE  LegalFrom(LogOf(u), 1)
  <2> DEFINE before == {row \in rows : row.user = u}
  <2>1. Numbered(before)
    BY <1>2, <1>3, SomeKeyed
  <2>2. Numbered(RowsOf(u))
    BY <1>4, <1>5, SomeKeyed DEF RowsOf
  <2>3. /\ \A row \in RowsOf(u) : \E old \in before : SameRow(row, old)
        /\ \A old \in before : \E row \in RowsOf(u) : SameRow(row, old)
    BY <1>5 DEF RowsOf, SameRow
  <2>4. OpsOf(RowsOf(u)) = OpsOf(before)
    BY <2>1, <2>2, <2>3, SameRowsSameLog
  <2> QED
    BY <2>4, InheritedReplays DEF LogOf
<1> QED
  BY <1>4, <1>6 DEF LogReplays, LogOf

\* Pruning some accounts, whatever rows became compact before, empties their logs
\* and leaves the others as they are.
LEMMA PruneLog ==
  ASSUME LogInv, NEW limit, NEW rows, NEW snapshots, Holds(rows, snapshots),
         Keyed(rows), PruneExpiredAccounts(limit, rows, snapshots)
  PROVE  /\ Keyed(events')
         /\ \E P \in SUBSET Users :
              /\ accounts' = [u \in Users |->
                   IF u \in P THEN NoAccount ELSE accounts[u]]
              /\ \A u \in Users : LogOf(u)' = IF u \in P THEN <<>> ELSE LogOf(u)
<1>1. PICK P \in Oldest(limit) :
        /\ accounts' = [u \in Users |-> IF u \in P THEN NoAccount ELSE accounts[u]]
        /\ events' = {row \in rows : row.user \notin P}
  BY DEF PruneExpiredAccounts
<1>2. P \in SUBSET Users
  BY DEF Oldest
<1>3. rows \in SUBSET Rows
  BY DEF Holds
<1>4. events' \in SUBSET rows
  BY <1>1
<1>5. Keyed(events')
  BY <1>3, <1>4, SomeKeyed
<1>6. ASSUME NEW u \in Users
      PROVE  LogOf(u)' = IF u \in P THEN <<>> ELSE LogOf(u)
  <2>1. LogOf(u)' = OpsOf({row \in events' : row.user = u})
    BY DEF LogOf, RowsOf
  <2>2. CASE u \in P
    <3>1. {row \in events' : row.user = u} = {}
      BY <1>1, <2>2
    <3> QED
      BY <2>1, <2>2, <3>1, EmptyLog
  <2>3. CASE u \notin P
    <3> DEFINE after == {row \in events' : row.user = u}
    <3>1. Numbered(after)
      BY <1>3, <1>4, SomeKeyed
    <3>2. Numbered(RowsOf(u))
      BY UsersRows
    <3>3. \A row \in after : \E old \in RowsOf(u) : SameRow(row, old)
      BY <1>4 DEF Holds, SameRow, RowsOf
    <3>4. \A old \in RowsOf(u) : \E row \in after : SameRow(row, old)
      BY <1>1, <2>3 DEF Holds, SameRow, RowsOf
    <3>5. OpsOf(after) = OpsOf(RowsOf(u))
      BY <3>1, <3>2, <3>3, <3>4, SameRowsSameLog
    <3> QED
      BY <2>1, <2>3, <3>5 DEF LogOf
  <2> QED
    BY <2>2, <2>3
<1> QED
  BY <1>1, <1>2, <1>5, <1>6

\* The same after a compaction.
LEMMA CompactLog ==
  ASSUME LogInv, NEW rowLimit, NEW limit, CompactAndPrune(rowLimit, limit)
  PROVE  \E rows, snapshots :
           /\ Holds(rows, snapshots)
           /\ Keyed(rows)
           /\ PruneExpiredAccounts(limit, rows, snapshots)
<1> DEFINE rows == MigrateLegacy(events, rowLimit)
<1>1. TypeOK /\ events \in SUBSET Rows /\ Keyed(events)
  BY DEF LogInv, EpochInv, CountersInv, TypeOK
<1>2. Holds(rows, objects \cup Referenced(rows \ events))
  BY <1>1, CompactionHolds
<1>3. Keyed(rows)
  BY <1>1, MigrationKeepsKeys
<1> QED
  BY <1>2, <1>3 DEF CompactAndPrune

\* Taking the rows of an account empties its log and leaves the others alone.
LEMMA RemoveLog ==
  ASSUME LogInv, NEW u \in Users, events' = events \ RowsOf(u)
  PROVE  /\ Keyed(events')
         /\ \A v \in Users : LogOf(v)' = IF v = u THEN <<>> ELSE LogOf(v)
<1>1. Keyed(events')
  BY SomeKeyed DEF LogInv, EpochInv, CountersInv, TypeOK
<1>2. RowsOf(u)' = {}
  BY DEF RowsOf
<1>3. \A v \in Users : v # u => RowsOf(v)' = RowsOf(v)
  BY DEF RowsOf
<1>4. LogOf(u)' = <<>>
  BY <1>2, EmptyLog DEF LogOf
<1>5. \A v \in Users : v # u => LogOf(v)' = LogOf(v)
  BY <1>3 DEF LogOf
<1> QED
  BY <1>1, <1>4, <1>5

\* The rows a batch adds keep the keys of the table: AUTOINCREMENT puts them behind
\* every row, and an operation already stored or repeated in the batch adds none.
LEMMA NewRowsKeyed ==
  ASSUME LogInv, NEW u \in Users, NEW batch \in Batches, NEW g \in Generations
  PROVE  /\ Keyed(events \cup NewRows(u, batch, g))
         /\ \A i \in Fresh(u, batch) :
              \E row \in NewRows(u, batch, g) : row.op = batch[i]
<1> DEFINE F == Fresh(u, batch)
           new == [i \in F |-> [seq |-> lastSequence + Rank(F, i), user |-> u,
                                op |-> batch[i], epoch |-> g, raw |-> FALSE]]
           rows == {new[i] : i \in F}
<1>1. NewRows(u, batch, g) = rows
  BY DEF NewRows
<1>2. F \in SUBSET Int /\ IsFiniteSet(F) /\ Cardinality(F) \in Nat
  BY FreshFinite, BatchType
<1>3. /\ lastSequence \in Nat
      /\ \A row \in events : row.seq \in Int /\ row.seq <= lastSequence
      /\ Keyed(events)
  BY DEF LogInv, EpochInv, CountersInv, TypeOK, CountersBound, Rows
<1>4. \A row \in rows : row.seq \in Int /\ row.seq > lastSequence
  BY <1>1, <1>3, NewRowsRange DEF Rows
<1>5. \A i \in F : /\ new[i].seq = lastSequence + Rank(F, i)
                   /\ new[i].user = u
                   /\ new[i].op = batch[i]
  OBVIOUS
<1>6. ASSUME NEW i \in F, NEW j \in F, new[i].seq = new[j].seq
      PROVE  i = j
  <2>1. Rank(F, i) \in Int /\ Rank(F, j) \in Int
    BY <1>2, RankRange
  <2> HIDE DEF F, new
  <2>2. Rank(F, i) = Rank(F, j)
    BY <1>3, <1>5, <1>6, <2>1
  <2>3. i \in Int /\ j \in Int /\ ~(i < j) /\ ~(j < i)
    BY <1>2, <2>1, <2>2, RankGrows
  <2> QED
    BY <2>3
<1>7. ASSUME NEW i \in F, NEW j \in F, batch[i].id = batch[j].id
      PROVE  i = j
  <2>1. i \in Int /\ j \in Int /\ i >= 1 /\ j >= 1
    BY FreshFinite
  <2>2. ~(i < j) /\ ~(j < i)
    BY <1>7, <2>1 DEF Fresh
  <2> QED
    BY <2>1, <2>2
<1>8. ASSUME NEW i \in F, NEW row \in events, row.user = u
      PROVE  row.op.id # batch[i].id
  BY <1>8 DEF Fresh, RowsOf
<1>9. new \in Surjection(F, rows)
  BY DEF Surjection
<1>10. rows = {new[i] : i \in F}
  OBVIOUS
<1> HIDE DEF F, new, rows
<1>11. IsFiniteSet(events \cup rows)
  BY <1>2, <1>3, <1>9, FS_Surjection, FS_Union DEF Keyed
<1>12. ASSUME NEW r \in events \cup rows, NEW s \in events \cup rows,
              \/ r.seq = s.seq
              \/ r.user = s.user /\ r.op.id = s.op.id
       PROVE  r = s
  <2>1. CASE r \in events /\ s \in events
    BY <1>3, <1>12, <2>1 DEF Keyed
  <2>2. CASE r \in rows /\ s \in rows
    BY <1>5, <1>6, <1>7, <1>10, <1>12, <2>2
  <2>3. \A x \in events, y \in rows :
          /\ x.seq # y.seq
          /\ ~(x.user = y.user /\ x.op.id = y.op.id)
    <3>1. ASSUME NEW x \in events, NEW y \in rows PROVE x.seq # y.seq
      BY <1>3, <1>4
    <3>2. ASSUME NEW x \in events, NEW y \in rows, x.user = y.user
          PROVE  x.op.id # y.op.id
      BY <1>5, <1>8, <1>10, <3>2
    <3> QED
      BY <3>1, <3>2
  <2>4. CASE r \in events /\ s \in rows
    BY <1>12, <2>3, <2>4
  <2>5. CASE r \in rows /\ s \in events
    BY <1>12, <2>3, <2>5
  <2> QED
    BY <2>1, <2>2, <2>4, <2>5
<1>13. Keyed(events \cup rows)
  BY <1>11, <1>12 DEF Keyed
<1>14. \A i \in F : \E row \in rows : row.op = batch[i]
  BY <1>5, <1>10
<1> QED
  BY <1>1, <1>13, <1>14 DEF F

\* An accepted request extends the log of its account with operations that are legal
\* where they stand, and no other log.
LEMMA CommitLog ==
  ASSUME LogInv, Commit, NEW u \in Users, u = call.user
  PROVE  /\ Keyed(events')
         /\ \A v \in Users : v # u => LogOf(v)' = LogOf(v)
         /\ LogOf(u)' \in Seq(Operations)
         /\ \A i, j \in DOMAIN LogOf(u)' :
              LogOf(u)'[i].id = LogOf(u)'[j].id => i = j
         /\ Len(LogOf(u)) \in Nat
         /\ Len(LogOf(u)') \in Nat
         /\ Len(LogOf(u)) <= Len(LogOf(u)')
         /\ \A n \in 1..Len(LogOf(u)) : LogOf(u)'[n] = LogOf(u)[n]
         /\ LegalFrom(LogOf(u)', Len(LogOf(u)) + 1)
         /\ Len(LogOf(u)) = Len(LogOf(u)') => LogOf(u)' = LogOf(u)
<1> DEFINE stored == RowsOf(u)
           new == NewRows(u, call.batch, call.generation)
<1>1. call.batch \in Batches /\ call.generation \in Generations
  BY DEF LogInv, EpochInv, CountersInv, TypeOK, Commit, InEpoch, NoCall
<1>2. events' = events \cup new
  BY DEF Commit
<1>3. Keyed(events')
  BY <1>1, <1>2, NewRowsKeyed
<1>4. \A row \in new : row \in Rows /\ row.seq > lastSequence /\ row.user = u
  BY <1>1, NewRowsRange DEF LogInv, EpochInv, CountersInv, TypeOK
<1>5. RowsOf(u)' = stored \cup new
  BY <1>2, <1>4 DEF RowsOf
<1>6. \A v \in Users : v # u => RowsOf(v)' = RowsOf(v)
  BY <1>2, <1>4 DEF RowsOf
<1>7. events' \in SUBSET Rows
  BY <1>2, <1>4 DEF LogInv, EpochInv, CountersInv, TypeOK
<1>8. /\ stored \cup new \in SUBSET events'
      /\ \A row \in stored \cup new : row.user = u
  BY <1>2, <1>4 DEF RowsOf
<1>9. Keyed(stored \cup new) /\ Numbered(stored \cup new)
  BY <1>3, <1>7, <1>8, SomeKeyed
<1>10. \A r \in stored, s \in new : r.seq < s.seq
  <2>1. ASSUME NEW r \in stored, NEW s \in new
        PROVE  r.seq < s.seq
    <3>1. r \in events /\ r.seq \in Int /\ r.seq <= lastSequence /\ lastSequence \in Int
      BY DEF RowsOf, LogInv, EpochInv, CountersInv, TypeOK, CountersBound, Rows
    <3>2. s.seq \in Int /\ s.seq > lastSequence
      BY <1>4 DEF Rows
    <3> QED
      BY <3>1, <3>2
  <2> QED
    BY <2>1
<1>11. LegalFrom(OpsOf(stored \cup new), Cardinality(stored) + 1)
  BY u = call.user DEF Commit, Admissible, SemanticallyValid
<1> HIDE DEF new
<1>12. /\ Cardinality(stored) <= Cardinality(stored \cup new)
       /\ \A n \in 1..Cardinality(stored) :
            OpsOf(stored \cup new)[n] = OpsOf(stored)[n]
       /\ new \subseteq stored <=> Cardinality(stored) = Cardinality(stored \cup new)
  BY <1>9, <1>10, LogExtends
<1>13. stored \in SUBSET Rows /\ Keyed(stored) /\ \A row \in stored : row.user = u
  BY <1>1, UsersRows DEF RowsOf
<1>14. Len(OpsOf(stored)) = Cardinality(stored) /\ Cardinality(stored) \in Nat
  BY <1>1, <1>13, LogOfRows
<1>15. stored \cup new \in SUBSET Rows
  BY <1>7, <1>8
<1>16. /\ OpsOf(stored \cup new) \in Seq(Operations)
       /\ Len(OpsOf(stored \cup new)) = Cardinality(stored \cup new)
       /\ Cardinality(stored \cup new) \in Nat
       /\ \A i, j \in DOMAIN OpsOf(stored \cup new) :
            OpsOf(stored \cup new)[i].id = OpsOf(stored \cup new)[j].id => i = j
  BY <1>1, <1>8, <1>9, <1>15, LogOfRows
<1>17. LogOf(u)' = OpsOf(stored \cup new)
  BY <1>5 DEF LogOf
<1>18. \A v \in Users : v # u => LogOf(v)' = LogOf(v)
  BY <1>6 DEF LogOf
<1>19. new \subseteq stored => stored \cup new = stored
  OBVIOUS
<1>20. LogOf(u) = OpsOf(stored)
  BY DEF LogOf
<1> HIDE DEF stored
<1> QED
  BY <1>3, <1>11, <1>12, <1>14, <1>16, <1>17, <1>18, <1>19, <1>20

\* Every step keeps the keys, and logs that replay.
LEMMA StepLog == LogInv /\ [Next]_vars => LogInv'
<1> SUFFICES ASSUME LogInv, [Next]_vars PROVE Keyed(events') /\ LogReplays'
  BY StepEpoch DEF LogInv
<1>1. \A u \in Users : LegalFrom(LogOf(u), 1)
  BY DEF LogInv, LogReplays, LogOf
<1>2. SUFFICES Keyed(events') /\ \A u \in Users : LegalFrom(LogOf(u)', 1)
  BY DEF LogReplays, LogOf
<1>3. ASSUME NEW limit, NEW rows, NEW snapshots, Holds(rows, snapshots), Keyed(rows),
             PruneExpiredAccounts(limit, rows, snapshots)
      PROVE  Keyed(events') /\ \A u \in Users : LegalFrom(LogOf(u)', 1)
  <2>1. /\ Keyed(events')
        /\ \A u \in Users : LogOf(u)' = <<>> \/ LogOf(u)' = LogOf(u)
    BY <1>3, PruneLog
  <2> QED
    BY <1>1, <2>1, EmptyLog
<1>4. ASSUME NEW rowLimit, NEW limit, CompactAndPrune(rowLimit, limit)
      PROVE  Keyed(events') /\ \A u \in Users : LegalFrom(LogOf(u)', 1)
  BY <1>3, <1>4, CompactLog
<1>5. CASE Maintain
  BY <1>3, <1>5, TablesHold DEF Maintain, LogInv, EpochInv, CountersInv
<1>6. CASE UNCHANGED events
  BY <1>1, <1>6 DEF LogInv, LogOf, RowsOf
<1>7. ASSUME NEW u \in Users, events' = events \ RowsOf(u)
      PROVE  Keyed(events') /\ \A v \in Users : LegalFrom(LogOf(v)', 1)
  <2>1. /\ Keyed(events')
        /\ \A v \in Users : LogOf(v)' = <<>> \/ LogOf(v)' = LogOf(v)
    BY <1>7, RemoveLog
  <2> QED
    BY <1>1, <2>1, EmptyLog
<1>8. CASE SyncExpired
  <2>1. call.user \in Users
    BY <1>8 DEF LogInv, EpochInv, CountersInv, TypeOK, SyncExpired, NoCall
  <2> QED
    BY <1>7, <1>8, <2>1 DEF SyncExpired
<1>9. CASE Commit
  <2>1. PICK u \in Users : u = call.user
    BY <1>9 DEF LogInv, EpochInv, CountersInv, TypeOK, Commit, InEpoch, NoCall
  <2>2. /\ Keyed(events')
        /\ \A v \in Users : v # u => LogOf(v)' = LogOf(v)
        /\ Len(LogOf(u)) \in Nat
        /\ Len(LogOf(u)') \in Nat
        /\ Len(LogOf(u)) <= Len(LogOf(u)')
        /\ \A n \in 1..Len(LogOf(u)) : LogOf(u)'[n] = LogOf(u)[n]
        /\ LegalFrom(LogOf(u)', Len(LogOf(u)) + 1)
    BY <1>9, <2>1, CommitLog
  <2>3. LegalFrom(LogOf(u)', 1)
    BY <1>1, <2>2, ExtensionReplays
  <2> QED
    BY <1>1, <2>2, <2>3
<1>10. ASSUME NEW u \in Users, Delete(u)
       PROVE  Keyed(events') /\ \A v \in Users : LegalFrom(LogOf(v)', 1)
  BY <1>7, <1>10 DEF Delete
<1> QED
  BY <1>4, <1>5, <1>6, <1>8, <1>9, <1>10
  DEF Next, EndSync, ReceiveSync, RefuseOversized, SyncUnknown, RefuseAccount,
      RefuseExhausted, RefuseMismatch, RefuseConflict, RefuseEnrollment,
      RefuseInvalid, RefuseQuota, RollBack, RefuseDelete, Restart, Tick, vars

\* The log of every account always replays: what validateSyncOperationSemantics checks
\* of the new operations alone, against what is stored, is enough for whole logs, across
\* retries, the compaction of rows, erasure and restarts.
THEOREM LogsReplay == Spec => []LogReplays
<1>1. LogInv => LogReplays
  BY DEF LogInv
<1> QED
  BY <1>1, InitLog, StepLog, PTL DEF Spec

-----------------------------------------------------------------------------
(* What a page takes.                                                          *)

\* The fold of PageBytes, as a function of the rows it has met.
First(s) == CHOOSE x \in s : TRUE
Step(f, s) == IF s = {} THEN 0 ELSE OperationBytes(First(s).op) + f[s \ {First(s)}]
Weighs(f, S) == f = [s \in SUBSET S |-> Step(f, s)]

\* The fold of PageBytes is its solution.
LEMMA PageBytesIs ==
  ASSUME NEW S
  PROVE  PageBytes(S) = (CHOOSE f : Weighs(f, S))[S]
BY Zenon DEF PageBytes, MapThenSumSet, MapThenFoldSet, Weighs, First, Step

\* Taking a row out of a finite set leaves one less.
LEMMA OneLess ==
  ASSUME NEW s, IsFiniteSet(s), NEW x \in s
  PROVE  /\ IsFiniteSet(s \ {x})
         /\ Cardinality(s) \in Nat \ {0}
         /\ Cardinality(s \ {x}) = Cardinality(s) - 1
<1>1. IsFiniteSet(s \ {x}) /\ Cardinality(s \ {x}) = Cardinality(s) - 1
  BY FS_RemoveElement
<1>2. Cardinality(s) \in Nat /\ Cardinality(s \ {x}) \in Nat
  BY <1>1, FS_CardinalityType
<1> QED
  BY <1>1, <1>2

\* The row met next is one of them.
LEMMA FirstIn == \A s : s # {} => First(s) \in s
BY DEF First

\* The recursive definition has a solution over a finite set,
LEMMA WeighsExists ==
  ASSUME NEW S, IsFiniteSet(S)
  PROVE  \E f : Weighs(f, S)
<1> DEFINE Upto(f, n) ==
             \A s \in SUBSET S : Cardinality(s) <= n => f[s] = Step(f, s)
           N == {n \in Nat : \E f : Upto(f, n)}
<1>0. \A s \in SUBSET S : /\ IsFiniteSet(s) /\ Cardinality(s) \in Nat
                          /\ Cardinality(s) <= Cardinality(S)
  BY FS_Subset, FS_CardinalityType
<1>1. 0 \in N
  <2> DEFINE f == [s \in SUBSET S |-> 0]
  <2>1. ASSUME NEW s \in SUBSET S, Cardinality(s) <= 0
        PROVE  f[s] = Step(f, s)
    <3>1. s = {}
      BY <1>0, <2>1, FS_EmptySet
    <3> QED
      BY <3>1 DEF Step
  <2>2. Upto(f, 0)
    BY <2>1
  <2> QED
    BY <2>2
<1>2. ASSUME NEW n \in Nat, n \in N
      PROVE  n + 1 \in N
  <2>1. PICK f : Upto(f, n)
    BY <1>2
  <2> DEFINE g == [s \in SUBSET S |-> Step(f, s)]
  <2>2. ASSUME NEW s \in SUBSET S, Cardinality(s) <= n + 1
        PROVE  g[s] = Step(g, s)
    <3>1. CASE s = {}
      BY <3>1 DEF Step
    <3>2. CASE s # {}
      <4> DEFINE rest == s \ {First(s)}
      <4>1. First(s) \in s
        BY <3>2, FirstIn
      <4>2. Cardinality(rest) <= n /\ rest \in SUBSET S
        BY <1>0, <2>2, <4>1, OneLess
      <4>3. g[rest] = f[rest]
        BY <2>1, <4>2
      <4> QED
        BY <3>2, <4>3 DEF Step
    <3> QED
      BY <3>1, <3>2
  <2>3. Upto(g, n + 1)
    BY <2>2
  <2> HIDE DEF Upto, g
  <2> QED
    BY <2>3
<1>3. Cardinality(S) \in N
  <2> HIDE DEF N
  <2>1. Nat \subseteq N
    BY <1>1, <1>2, SetInduction
  <2> QED
    BY <2>1, <1>0
<1>4. PICK f : Upto(f, Cardinality(S))
  <2> HIDE DEF Upto
  <2> QED
    BY <1>3
<1> DEFINE g == [s \in SUBSET S |-> f[s]]
<1>5. \A s \in SUBSET S : g[s] = Step(g, s)
  <2> SUFFICES ASSUME NEW s \in SUBSET S PROVE f[s] = Step(g, s)
    OBVIOUS
  <2>1. f[s] = Step(f, s)
    BY <1>0, <1>4
  <2>2. s \ {First(s)} \in SUBSET S
    OBVIOUS
  <2> QED
    BY <2>1, <2>2 DEF Step
<1>6. g = [s \in SUBSET S |-> g[s]]
  OBVIOUS
<1> HIDE DEF g
<1>7. g = [s \in SUBSET S |-> Step(g, s)]
  BY <1>5, <1>6, Zenon
<1> QED
  BY <1>7 DEF Weighs

\* and two solutions agree where both are defined.
LEMMA WeighsAgree ==
  ASSUME NEW S, NEW T, NEW f, NEW g, Weighs(f, S), Weighs(g, T),
         NEW U \in SUBSET (S \cap T), IsFiniteSet(U)
  PROVE  f[U] = g[U]
<1> DEFINE Same(n) == \A V \in SUBSET (S \cap T) :
                         IsFiniteSet(V) /\ Cardinality(V) = n => f[V] = g[V]
           N == {n \in Nat : Same(n)}
<1>0. \A V \in SUBSET (S \cap T) : f[V] = Step(f, V) /\ g[V] = Step(g, V)
  BY DEF Weighs
<1>1. 0 \in N
  <2>1. \A V : IsFiniteSet(V) /\ Cardinality(V) = 0 => V = {}
    BY FS_EmptySet
  <2> QED
    BY <1>0, <2>1 DEF Step
<1>2. ASSUME NEW n \in Nat, n \in N
      PROVE  n + 1 \in N
  <2> SUFFICES ASSUME NEW V \in SUBSET (S \cap T), IsFiniteSet(V), Cardinality(V) = n + 1
               PROVE  f[V] = g[V]
    OBVIOUS
  <2>1. V # {}
    BY FS_EmptySet
  <2>2. First(V) \in V
    BY <2>1, FirstIn
  <2>3. IsFiniteSet(V \ {First(V)}) /\ Cardinality(V \ {First(V)}) = n
    BY <2>2, OneLess
  <2>4. f[V \ {First(V)}] = g[V \ {First(V)}]
    BY <1>2, <2>3
  <2> QED
    BY <1>0, <2>1, <2>4 DEF Step
<1>3. Nat \subseteq N
  <2> HIDE DEF N
  <2> QED
    BY <1>1, <1>2, SetInduction
<1>4. Cardinality(U) \in N
  BY <1>3, FS_CardinalityType
<1> QED
  BY <1>4

\* So what rows take is what one of them takes and what the others take.
LEMMA PageBytesStep ==
  ASSUME NEW S, IsFiniteSet(S)
  PROVE  PageBytes(S) = IF S = {} THEN 0
                        ELSE OperationBytes(First(S).op) + PageBytes(S \ {First(S)})
<1> DEFINE f == CHOOSE h : Weighs(h, S)
<1>1. Weighs(f, S)
  BY WeighsExists
<1>2. PageBytes(S) = f[S]
  BY PageBytesIs
<1> HIDE DEF f
<1>3. f[S] = Step(f, S)
  BY <1>1 DEF Weighs
<1>4. CASE S = {}
  BY <1>2, <1>3, <1>4 DEF Step
<1>5. CASE S # {}
  <2> DEFINE T == S \ {First(S)}
             g == CHOOSE h : Weighs(h, T)
  <2>1. First(S) \in S
    BY <1>5, FirstIn
  <2>2. IsFiniteSet(T)
    BY <2>1, OneLess
  <2>3. Weighs(g, T)
    BY <2>2, WeighsExists
  <2>4. PageBytes(T) = g[T]
    BY PageBytesIs
  <2> HIDE DEF g
  <2>5. f[T] = g[T]
    BY <1>1, <2>2, <2>3, WeighsAgree
  <2> QED
    BY <1>2, <1>3, <1>5, <2>4, <2>5 DEF Step
<1> QED
  BY <1>4, <1>5

\* Finitely many rows of which each takes a number of bytes,
Weighed(S) == IsFiniteSet(S) /\ \A row \in S : OperationBytes(row.op) \in Nat

\* and so do all of them.
LEMMA PageBytesType ==
  ASSUME NEW S, Weighed(S)
  PROVE  PageBytes(S) \in Nat
<1> DEFINE Typed(n) == \A V : Weighed(V) /\ Cardinality(V) = n => PageBytes(V) \in Nat
           N == {n \in Nat : Typed(n)}
<1>1. 0 \in N
  <2> SUFFICES ASSUME NEW V, Weighed(V), Cardinality(V) = 0 PROVE PageBytes(V) \in Nat
    OBVIOUS
  <2>1. V = {} /\ IsFiniteSet(V)
    BY FS_EmptySet DEF Weighed
  <2> QED
    BY <2>1, PageBytesStep
<1>2. ASSUME NEW n \in Nat, n \in N
      PROVE  n + 1 \in N
  <2> SUFFICES ASSUME NEW V, Weighed(V), Cardinality(V) = n + 1 PROVE PageBytes(V) \in Nat
    OBVIOUS
  <2>1. V # {} /\ IsFiniteSet(V)
    BY FS_EmptySet DEF Weighed
  <2>2. First(V) \in V
    BY <2>1, FirstIn
  <2>3. Weighed(V \ {First(V)}) /\ Cardinality(V \ {First(V)}) = n
    BY <2>1, <2>2, OneLess DEF Weighed
  <2>4. PageBytes(V \ {First(V)}) \in Nat
    BY <1>2, <2>3
  <2>5. PageBytes(V) = OperationBytes(First(V).op) + PageBytes(V \ {First(V)})
    BY <2>1, PageBytesStep
  <2>6. OperationBytes(First(V).op) \in Nat
    BY <2>2 DEF Weighed
  <2> QED
    BY <2>4, <2>5, <2>6
<1>3. Nat \subseteq N
  <2> HIDE DEF N
  <2> QED
    BY <1>1, <1>2, SetInduction
<1>4. Cardinality(S) \in N
  BY <1>3, FS_CardinalityType DEF Weighed
<1> QED
  BY <1>4

\* In whatever order they are counted,
LEMMA PageBytesWithout ==
  ASSUME NEW S, Weighed(S), NEW row \in S
  PROVE  PageBytes(S) = OperationBytes(row.op) + PageBytes(S \ {row})
<1> DEFINE Free(n) == \A V : Weighed(V) /\ Cardinality(V) = n =>
                        \A x \in V : PageBytes(V) = OperationBytes(x.op) + PageBytes(V \ {x})
           N == {n \in Nat : Free(n)}
<1>0. \A V : Weighed(V) => \A x \in V : Weighed(V \ {x}) /\ Cardinality(V) \in Nat \ {0}
                                        /\ Cardinality(V \ {x}) = Cardinality(V) - 1
  BY OneLess DEF Weighed
<1>1. 0 \in N
  BY <1>0
<1>2. ASSUME NEW n \in Nat, n \in N
      PROVE  n + 1 \in N
  <2> SUFFICES ASSUME NEW V, Weighed(V), Cardinality(V) = n + 1, NEW x \in V
               PROVE  PageBytes(V) = OperationBytes(x.op) + PageBytes(V \ {x})
    OBVIOUS
  <2> DEFINE y == First(V)
  <2>1. y \in V
    BY FirstIn
  <2>2. PageBytes(V) = OperationBytes(y.op) + PageBytes(V \ {y})
    BY PageBytesStep DEF Weighed
  <2> HIDE DEF y
  <2>3. CASE x = y
    BY <2>2, <2>3
  <2>4. CASE x # y
    <3>1. /\ Weighed(V \ {x}) /\ Cardinality(V \ {x}) = n
          /\ Weighed(V \ {y}) /\ Cardinality(V \ {y}) = n
      BY <1>0, <2>1
    <3>2. PageBytes(V \ {y}) = OperationBytes(x.op) + PageBytes((V \ {y}) \ {x})
      BY <1>2, <3>1, <2>4
    <3>3. PageBytes(V \ {x}) = OperationBytes(y.op) + PageBytes((V \ {x}) \ {y})
      BY <1>2, <3>1, <2>1, <2>4
    <3>4. (V \ {x}) \ {y} = (V \ {y}) \ {x}
      OBVIOUS
    <3>5. Weighed((V \ {y}) \ {x})
      BY <1>0, <3>1, <2>4
    <3>6. PageBytes((V \ {y}) \ {x}) \in Nat
      BY <3>5, PageBytesType
    <3>7. OperationBytes(x.op) \in Nat /\ OperationBytes(y.op) \in Nat
      BY <2>1 DEF Weighed
    <3>8. PageBytes((V \ {x}) \ {y}) = PageBytes((V \ {y}) \ {x})
      BY <3>4
    <3> QED
      BY <2>2, <3>2, <3>3, <3>6, <3>7, <3>8
  <2> QED
    BY <2>3, <2>4
<1>3. Nat \subseteq N
  <2> HIDE DEF N
  <2> QED
    BY <1>1, <1>2, SetInduction
<1>4. Cardinality(S) \in N
  BY <1>0, <1>3
<1> QED
  BY <1>4

\* fewer rows take no more.
LEMMA PageBytesGrow ==
  ASSUME NEW S, Weighed(S), NEW T \in SUBSET S
  PROVE  PageBytes(T) <= PageBytes(S)
<1> DEFINE Grow(n) == \A V : Weighed(V) /\ Cardinality(V) = n =>
                        \A U \in SUBSET V : PageBytes(U) <= PageBytes(V)
           N == {n \in Nat : Grow(n)}
<1>0. \A V : Weighed(V) => PageBytes(V) \in Nat
  BY PageBytesType
<1>1. 0 \in N
  <2> SUFFICES ASSUME NEW V, Weighed(V), Cardinality(V) = 0, NEW U \in SUBSET V
               PROVE  PageBytes(U) <= PageBytes(V)
    OBVIOUS
  <2>1. V = {}
    BY FS_EmptySet DEF Weighed
  <2>2. U = V
    BY <2>1
  <2> QED
    BY <1>0, <2>2
<1>2. ASSUME NEW n \in Nat, n \in N
      PROVE  n + 1 \in N
  <2> SUFFICES ASSUME NEW V, Weighed(V), Cardinality(V) = n + 1, NEW U \in SUBSET V
               PROVE  PageBytes(U) <= PageBytes(V)
    OBVIOUS
  <2>1. CASE U = V
    BY <1>0, <2>1
  <2>2. CASE U # V
    <3>1. PICK x \in V : x \notin U
      BY <2>2
    <3>2. Weighed(V \ {x}) /\ Cardinality(V \ {x}) = n /\ U \in SUBSET (V \ {x})
      BY <3>1, OneLess DEF Weighed
    <3>3. PageBytes(U) <= PageBytes(V \ {x})
      BY <1>2, <3>2
    <3>4. PageBytes(V) = OperationBytes(x.op) + PageBytes(V \ {x})
      BY PageBytesWithout
    <3>5. OperationBytes(x.op) \in Nat /\ PageBytes(V \ {x}) \in Nat /\ PageBytes(U) \in Nat
      <4>1. Weighed(U)
        BY FS_Subset DEF Weighed
      <4> QED
        BY <1>0, <3>2, <4>1 DEF Weighed
    <3> QED
      BY <3>3, <3>4, <3>5
  <2> QED
    BY <2>1, <2>2
<1>3. Nat \subseteq N
  <2> HIDE DEF N
  <2> QED
    BY <1>1, <1>2, SetInduction
<1>4. Cardinality(S) \in N
  BY <1>3, FS_CardinalityType DEF Weighed
<1> QED
  BY <1>4

\* Every stored operation, and every one of the open request, fits in a page or was
\* inherited: sync() refuses what is larger than the limit before it looks at the log.
Fits(op) == OperationBytes(op) <= MaxOperationBytes
Served == \A row \in events : Fits(row.op) \/ row.op \in {old.op : old \in UNION Inherited}
Sized == Served /\ (call # NoCall => \A i \in DOMAIN call.batch : Fits(call.batch[i]))
PageInv == LogInv /\ Sized

\* What an earlier release left is inherited.
LEMMA InitSized == Init => Sized
<1> SUFFICES ASSUME Init PROVE Sized
  OBVIOUS
<1>1. PICK rows \in Inherited : events = MigrateLegacy(rows, StartCompactLimit)
  BY DEF Init
<1>2. rows \in SUBSET Rows
  BY InheritedRows
<1>3. \A row \in events : \E old \in rows : row.op = old.op
  BY <1>1, <1>2, MigrationKeepsRows DEF SameRow
<1>4. call = NoCall
  BY DEF Init
<1> QED
  BY <1>1, <1>3, <1>4 DEF Sized, Served

\* A compaction, an erasure and a restart store nothing new; a commit stores what was let in.
LEMMA StepSized == PageInv /\ [Next]_vars => Sized'
<1> SUFFICES ASSUME PageInv, [Next]_vars PROVE Sized'
  OBVIOUS
<1>0. CountersInv /\ TypeOK
  BY DEF PageInv, LogInv, EpochInv, CountersInv
<1>1. ASSUME \A row \in events' : \E old \in events : row.op = old.op
      PROVE  Served'
  BY <1>1 DEF PageInv, Sized, Served
<1>2. ASSUME NEW limit, NEW rows, NEW snapshots, Holds(rows, snapshots),
             PruneExpiredAccounts(limit, rows, snapshots)
      PROVE  Served'
  <2>1. events' \subseteq rows
    BY <1>0, <1>2, PruneShrinks
  <2>2. \A row \in events' : \E old \in events : row.op = old.op
    BY <1>2, <2>1 DEF Holds, SameRow
  <2> QED
    BY <1>1, <2>2
<1>3. ASSUME NEW rowLimit, NEW limit, CompactAndPrune(rowLimit, limit)
      PROVE  Served'
  BY <1>0, <1>2, <1>3, CompactCounters
<1>4. ASSUME NEW u \in Users, NEW g, NEW b \in Batches, NEW e, ReceiveSync(u, g, b, e)
      PROVE  Sized'
  <2>1. Served'
    BY <1>3, <1>4 DEF ReceiveSync
  <2>2. call'.batch = b /\ \A i \in DOMAIN b : Fits(b[i])
    BY <1>4 DEF ReceiveSync, Fits
  <2> QED
    BY <2>1, <2>2 DEF Sized
<1>5. CASE Commit
  <2>1. call.batch \in Batches /\ call # NoCall
    BY <1>0, <1>5 DEF TypeOK, Commit, InEpoch, NoCall
  <2>2. \A i \in DOMAIN call.batch : Fits(call.batch[i])
    BY <2>1 DEF PageInv, Sized
  <2>3. ASSUME NEW row \in NewRows(call.user, call.batch, call.generation)
        PROVE  Fits(row.op)
    <3>1. PICK i \in Fresh(call.user, call.batch) : row.op = call.batch[i]
      BY DEF NewRows
    <3>2. i \in DOMAIN call.batch
      BY DEF Fresh
    <3> QED
      BY <2>2, <3>1, <3>2
  <2>4. Served'
    BY <1>5, <2>3 DEF Commit, PageInv, Sized, Served
  <2>5. call' = NoCall
    BY <1>5 DEF Commit, Answer
  <2> QED
    BY <2>4, <2>5 DEF Sized
<1>6. CASE Maintain
  <2>1. Served'
    BY <1>0, <1>2, <1>6, TablesHold DEF Maintain
  <2> QED
    BY <1>6, <2>1 DEF Maintain, Sized, PageInv
<1>7. CASE Restart
  BY <1>3, <1>7 DEF Restart, Sized
<1>8. CASE events' \subseteq events /\ call' \in {call, NoCall}
  BY <1>1, <1>8 DEF PageInv, Sized, Fits
<1>9. CASE EndSync
  <2>1. CASE ~Commit
    <3>1. call' = NoCall
      BY <1>9, <2>1
      DEF EndSync, SyncExpired, SyncUnknown, RefuseAccount, RefuseExhausted,
          RefuseMismatch, RefuseConflict, RefuseEnrollment, RefuseInvalid, RefuseQuota,
          RollBack, OpenEpoch, Answer
    <3>2. events' \subseteq events
      BY <1>9, <2>1
      DEF EndSync, SyncExpired, SyncUnknown, RefuseAccount, RefuseExhausted,
          RefuseMismatch, RefuseConflict, RefuseEnrollment, RefuseInvalid, RefuseQuota,
          RollBack
    <3> QED
      BY <1>8, <3>1, <3>2
  <2> QED
    BY <1>5, <2>1
<1>10. ASSUME NEW u \in Users, NEW b \in Batches, RefuseOversized(u, b)
       PROVE  Sized'
  BY <1>8, <1>10 DEF RefuseOversized
<1>11. ASSUME NEW u \in Users, Delete(u) \/ RefuseDelete(u)
       PROVE  Sized'
  BY <1>8, <1>11 DEF Delete, RefuseDelete
<1>12. CASE Tick \/ UNCHANGED vars
  BY <1>8, <1>12 DEF Tick, vars
<1> QED
  BY <1>4, <1>6, <1>7, <1>9, <1>10, <1>11, <1>12 DEF Next

\* A set of rows that is not empty has a first one,
LEMMA FirstRow ==
  ASSUME NEW S \in SUBSET Rows, S # {}
  PROVE  \E row \in S : \A r \in S : row.seq <= r.seq
<1> DEFINE N == {row.seq : row \in S}
<1>1. N \in SUBSET Nat /\ N # {}
  BY DEF Rows
<1> HIDE DEF N
<1>2. PICK n \in N : \A m \in N : n <= m
  BY <1>1, LeastNatural
<1> QED
  BY <1>2 DEF N

\* and, below a bound, a last one.
LEMMA LastRow ==
  ASSUME NEW S \in SUBSET Rows, S # {}, NEW top \in Nat, \A row \in S : row.seq <= top
  PROVE  \E row \in S : \A r \in S : r.seq <= row.seq
<1> DEFINE N == {top - row.seq : row \in S}
<1>1. N \in SUBSET Nat /\ N # {}
  BY DEF Rows
<1> HIDE DEF N
<1>2. PICK n \in N : \A m \in N : n <= m
  BY <1>1, LeastNatural
<1>3. PICK row \in S : n = top - row.seq
  BY DEF N
<1>4. \A r \in S : top - row.seq <= top - r.seq
  BY <1>2, <1>3 DEF N
<1> QED
  BY <1>4 DEF Rows

\* The rows up to one, as far as the page is concerned.
Upto(A, row) == {r \in A : r.seq <= row.seq}
Page(A) == {row \in A : /\ Cardinality(Upto(A, row)) <= EventLimit
                        /\ EnvelopeBytes + PageBytes(Upto(A, row)) <= MaxPullBytes}

\* What an operation takes is a number.
LEMMA RowsWeighed ==
  ASSUME NEW A \in SUBSET Rows, IsFiniteSet(A)
  PROVE  \A S \in SUBSET A : Weighed(S)
<1>1. \A row \in A : OperationBytes(row.op) \in Nat
  <2> SUFFICES ASSUME NEW row \in A PROVE OperationBytes(row.op) \in Nat
    OBVIOUS
  <2>1. row.op \in Operations
    BY DEF Rows
  <2>2. Cardinality(row.op.snapshots) \in Nat
    BY <2>1, SnapshotType, FS_CardinalityType
  <2> QED
    BY <2>2 DEF OperationBytes
<1> QED
  BY <1>1, FS_Subset DEF Weighed

\* A page has with a row all that come before it.
LEMMA PageIsPrefix ==
  ASSUME NEW A \in SUBSET Rows, IsFiniteSet(A), NEW row \in Page(A), NEW r \in A,
         r.seq <= row.seq
  PROVE  r \in Page(A)
<1>1. Upto(A, r) \in SUBSET Upto(A, row) /\ Upto(A, row) \in SUBSET A
  BY DEF Upto, Page, Rows
<1>2. Weighed(Upto(A, row)) /\ Weighed(Upto(A, r))
  BY <1>1, RowsWeighed
<1>3. PageBytes(Upto(A, r)) <= PageBytes(Upto(A, row))
  BY <1>1, <1>2, PageBytesGrow
<1>4. PageBytes(Upto(A, r)) \in Nat /\ PageBytes(Upto(A, row)) \in Nat
  BY <1>2, PageBytesType
<1>5. Cardinality(Upto(A, r)) <= Cardinality(Upto(A, row))
  BY <1>1, <1>2, FS_Subset DEF Weighed
<1>6. Cardinality(Upto(A, r)) \in Nat /\ Cardinality(Upto(A, row)) \in Nat
  BY <1>2, FS_CardinalityType DEF Weighed
<1>7. EventLimit \in Nat /\ MaxPullBytes \in Nat /\ EnvelopeBytes \in Nat
  BY LimitType, PullBudget
<1> QED
  BY <1>3, <1>4, <1>5, <1>6, <1>7 DEF Page

\* The first row is in the page if it fits.
LEMMA FirstInPage ==
  ASSUME NEW A \in SUBSET Rows, IsFiniteSet(A), NEW row \in A,
         \A r, s \in A : r.seq = s.seq => r = s,
         \A r \in A : row.seq <= r.seq,
         EnvelopeBytes + OperationBytes(row.op) <= MaxPullBytes
  PROVE  row \in Page(A)
<1>1. Upto(A, row) = {row}
  BY DEF Upto, Rows
<1>2. Cardinality({row}) = 1
  BY FS_Singleton
<1>3. Weighed({row})
  BY RowsWeighed
<1>4. PageBytes({}) = 0
  BY FS_EmptySet, PageBytesStep
<1>5. PageBytes({row}) = OperationBytes(row.op) + PageBytes({row} \ {row})
  BY <1>3, PageBytesWithout
<1>6. PageBytes({row}) = OperationBytes(row.op)
  <2>1. {row} \ {row} = {}
    OBVIOUS
  <2>2. OperationBytes(row.op) \in Nat
    BY <1>3 DEF Weighed
  <2> QED
    BY <1>4, <1>5, <2>1, <2>2
<1>7. 1 <= EventLimit
  BY LimitType
<1> QED
  BY <1>1, <1>2, <1>6, <1>7 DEF Page

\* So the cursor moves, and moves over the page.
LEMMA Progress == PageInv => PullProgresses
<1> SUFFICES ASSUME PageInv, NEW u \in Users, NEW cursor \in 0..lastSequence
             PROVE  /\ HasMore(u, cursor) =>
                         \/ NextCursor(u, cursor) > cursor
                         \/ \E row \in RowsAfter(u, cursor) :
                              /\ TooLarge(row)
                              /\ \A r \in RowsAfter(u, cursor) : row.seq <= r.seq
                    /\ RowsAfter(u, cursor) \ RowsAfter(u, NextCursor(u, cursor))
                         = PageRows(u, cursor)
  BY DEF PullProgresses
<1> DEFINE A == RowsAfter(u, cursor)
           P == PageRows(u, cursor)
           next == NextCursor(u, cursor)
<1>1. /\ events \in SUBSET Rows /\ Keyed(events) /\ Served
      /\ lastSequence \in Nat /\ \A row \in events : row.seq <= lastSequence
  BY DEF PageInv, LogInv, EpochInv, CountersInv, CountersBound, TypeOK, Sized
<1>2. A \in SUBSET Rows /\ A \in SUBSET events
  BY <1>1 DEF RowsAfter, RowsOf
<1>3. IsFiniteSet(A) /\ \A r, s \in A : r.seq = s.seq => r = s
  BY <1>1, <1>2, FS_Subset DEF Keyed
<1>4. P = Page(A)
  BY DEF PageRows, Page, Upto
<1>5. A = {row \in RowsOf(u) : row.seq > cursor}
  BY DEF RowsAfter
<1>6. next = IF P = {} THEN cursor ELSE Max({row.seq : row \in P})
  BY DEF NextCursor
<1>7. RowsAfter(u, next) = {row \in RowsOf(u) : row.seq > next}
  BY DEF RowsAfter
<1>8. SUFFICES /\ RowsAfter(u, next) # {} =>
                    \/ next > cursor
                    \/ \E row \in A : TooLarge(row) /\ \A r \in A : row.seq <= r.seq
               /\ A \ RowsAfter(u, next) = P
  BY DEF HasMore
<1> HIDE DEF A, P, next
<1>9. CASE P = {}
  <2>1. next = cursor
    BY <1>6, <1>9
  <2>2. A \ RowsAfter(u, next) = P
    BY <1>5, <1>7, <1>9, <2>1
  <2>3. ASSUME A # {}
        PROVE  \E row \in A : TooLarge(row) /\ \A r \in A : row.seq <= r.seq
    <3>1. PICK row \in A : \A r \in A : row.seq <= r.seq
      BY <1>2, <2>3, FirstRow
    <3>2. ~(EnvelopeBytes + OperationBytes(row.op) <= MaxPullBytes)
      <4>1. row \notin Page(A)
        BY <1>4, <1>9
      <4> QED
        BY <1>2, <1>3, <3>1, <4>1, FirstInPage
    <3>3. OperationBytes(row.op) \in Nat
      BY <1>2, <1>3, RowsWeighed DEF Weighed
    <3>4. /\ EnvelopeBytes \in Nat /\ MaxPullBytes \in Nat /\ MaxOperationBytes \in Nat
          /\ MaxPullBytes >= MaxOperationBytes + EnvelopeBytes
      BY LimitType, PullBudget
    <3>5. ~Fits(row.op)
      BY <3>2, <3>3, <3>4 DEF Fits
    <3>6. row.op \in {old.op : old \in UNION Inherited}
      BY <1>1, <1>2, <3>5 DEF Served
    <3>7. TooLarge(row)
      BY <3>2, <3>3, <3>4, <3>6 DEF TooLarge
    <3> QED
      BY <3>1, <3>7
  <2> QED
    BY <1>5, <1>7, <2>1, <2>2, <2>3
<1>10. CASE P # {}
  <2>1. P \in SUBSET A
    BY <1>4 DEF Page
  <2>2. PICK last \in P : \A r \in P : r.seq <= last.seq
    <3>1. P \in SUBSET Rows /\ \A row \in P : row.seq <= lastSequence
      BY <1>1, <1>2, <2>1
    <3> QED
      BY <1>1, <1>10, <3>1, LastRow
  <2>3. \A row \in A : row.seq \in Nat
    BY <1>2 DEF Rows
  <2>4. next = last.seq
    <3> DEFINE S == {row.seq : row \in P}
    <3>1. next = Max(S)
      BY <1>6, <1>10
    <3>2. last.seq \in S /\ \A y \in S : last.seq >= y
      BY <2>1, <2>2, <2>3
    <3>3. S \in SUBSET Nat
      BY <2>1, <2>3
    <3> HIDE DEF S
    <3>4. Max(S) \in S /\ \A y \in S : Max(S) >= y
      BY <3>2 DEF Max
    <3>5. Max(S) \in Nat /\ last.seq \in Nat /\ Max(S) >= last.seq /\ last.seq >= Max(S)
      BY <3>2, <3>3, <3>4
    <3> QED
      BY <3>1, <3>5
  <2>5. next > cursor
    BY <1>5, <2>1, <2>4
  <2>6. RowsAfter(u, next) = {row \in A : row.seq > last.seq}
    <3>1. next \in Nat /\ cursor \in Nat
      BY <2>1, <2>3, <2>4
    <3>2. \A row \in RowsOf(u) : row.seq \in Nat
      BY <1>1 DEF RowsOf, Rows
    <3> QED
      BY <1>5, <1>7, <2>4, <2>5, <3>1, <3>2
  <2>7. ASSUME NEW row \in A, ~(row.seq > last.seq)
        PROVE  row \in P
    <3>1. row.seq <= last.seq
      BY <2>1, <2>3, <2>7
    <3> QED
      BY <1>2, <1>3, <1>4, <3>1, PageIsPrefix
  <2>8. ASSUME NEW row \in P
        PROVE  row \in A /\ ~(row.seq > last.seq)
    BY <2>1, <2>2, <2>3
  <2>9. A \ RowsAfter(u, next) = P
    BY <2>6, <2>7, <2>8
  <2> QED
    BY <2>5, <2>9
<1> QED
  BY <1>9, <1>10

\* A client that follows the cursor sees every row once and gets to the end of the log,
\* whatever the sizes of its operations and the limits of a page, unless an earlier
\* release let in an operation that no page can hold.
THEOREM PagesProgress == Spec => []PullProgresses
<1>1. Init => PageInv
  BY InitLog, InitSized DEF PageInv
<1>2. PageInv /\ [Next]_vars => PageInv'
  BY StepLog, StepSized DEF PageInv
<1> QED
  BY <1>1, <1>2, Progress, PTL DEF Spec

-----------------------------------------------------------------------------
(* The store implements the abstract log.                                    *)

\* Replay means the same in both specifications.
LEMMA SameReplay == \A ops, n : Promise!LegalFrom(ops, n) <=> LegalFrom(ops, n)
BY DEF Promise!LegalFrom, Promise!Quantities, Promise!Legal, Promise!After,
       Promise!NeverAdded, LegalFrom, Quantities, Legal, After, NeverAdded

\* What the abstract specification asks of a single log.
LEMMA AbstractLog ==
  ASSUME LogInv, NEW u \in Users
  PROVE  /\ LogOf(u) \in Seq(Operations)
         /\ Len(LogOf(u)) \in Nat
         /\ \A i, j \in DOMAIN LogOf(u) : LogOf(u)[i].id = LogOf(u)[j].id => i = j
         /\ LegalFrom(LogOf(u), 1)
<1>1. /\ RowsOf(u) \in SUBSET Rows
      /\ Keyed(RowsOf(u))
      /\ \A row \in RowsOf(u) : row.user = u
  BY UsersRows DEF RowsOf
<1>2. LegalFrom(LogOf(u), 1)
  BY DEF LogInv, LogReplays, LogOf
<1> QED
  BY <1>1, <1>2, LogOfRows DEF LogOf

\* The abstract log of every user.
AbstractLogs == [u \in Users |-> LogOf(u)]
AbstractGenerations == [u \in Users |-> accounts[u].generation]

\* A new or upgraded database is an initial state of the abstract specification.
LEMMA InitRefines == Init => Promise!Init
<1> SUFFICES ASSUME Init PROVE Promise!Init
  OBVIOUS
<1>1. LogInv
  BY InitLog
<1>2. lastGeneration \in Nat
  BY <1>1, LimitType DEF LogInv, EpochInv, CountersInv, TypeOK, Generations
<1>3. \A u \in Users : accounts[u].generation \in {0, lastGeneration}
  BY DEF Init, NoAccount, NoGeneration
<1>4. ASSUME NEW u \in Users, accounts[u].generation = 0
      PROVE  LogOf(u) = <<>>
  <2>1. RowsOf(u) = {}
    BY <1>1, <1>4, NoRowsWithoutAccount DEF LogInv, EpochInv, HasAccount, NoGeneration
  <2> QED
    BY <2>1, EmptyLog DEF LogOf
<1>5. \A u \in Users :
        /\ LogOf(u) \in Seq(Operations)
        /\ Promise!LegalFrom(LogOf(u), 1)
        /\ \A i, j \in DOMAIN LogOf(u) : LogOf(u)[i].id = LogOf(u)[j].id => i = j
  BY <1>1, AbstractLog, SameReplay
<1> QED
  BY <1>2, <1>3, <1>4, <1>5 DEF Promise!Init, LogOf

\* Pruning forgets accounts.
LEMMA PruneRefines ==
  ASSUME LogInv, NEW limit, NEW rows, NEW snapshots, Holds(rows, snapshots),
         Keyed(rows), PruneExpiredAccounts(limit, rows, snapshots),
         UNCHANGED lastGeneration
  PROVE  Promise!Next
<1>1. PICK P \in SUBSET Users :
        /\ accounts' = [u \in Users |-> IF u \in P THEN NoAccount ELSE accounts[u]]
        /\ \A u \in Users : LogOf(u)' = IF u \in P THEN <<>> ELSE LogOf(u)
  BY PruneLog
<1>2. AbstractGenerations' = [u \in Users |-> IF u \in P THEN 0 ELSE AbstractGenerations[u]]
  BY <1>1 DEF AbstractGenerations, NoAccount, NoGeneration
<1>3. AbstractLogs' = [u \in Users |-> IF u \in P THEN <<>> ELSE AbstractLogs[u]]
  BY <1>1 DEF AbstractLogs
<1>4. Promise!Forget(P)
  BY <1>2, <1>3 DEF Promise!Forget, AbstractLogs, AbstractGenerations, LogOf
<1> QED
  BY <1>4 DEF Promise!Next

\* A generation given to a user whose rows go renews the account.
LEMMA RenewRefines ==
  ASSUME LogInv, NEW u \in Users, NEW g \in Nat, g > lastGeneration,
         lastGeneration' = g,
         accounts' = [accounts EXCEPT ![u] = Account(g)],
         events' = events \ RowsOf(u)
  PROVE  Promise!Next
<1>1. \A v \in Users : LogOf(v)' = IF v = u THEN <<>> ELSE LogOf(v)
  BY RemoveLog
<1>2. AbstractLogs' = [AbstractLogs EXCEPT ![u] = <<>>]
  BY <1>1 DEF AbstractLogs
<1>3. AbstractGenerations' = [AbstractGenerations EXCEPT ![u] = g]
  BY DEF AbstractGenerations, Account, LogInv, EpochInv, CountersInv, TypeOK
<1>4. Promise!Renew(u)
  BY <1>2, <1>3 DEF Promise!Renew, AbstractLogs, AbstractGenerations, LogOf
<1> QED
  BY <1>4 DEF Promise!Next

\* A request that adds operations extends the log of its account; a repeated one
\* changes nothing.
LEMMA CommitRefines ==
  ASSUME LogInv, Commit
  PROVE  Promise!Next \/ UNCHANGED Promise!vars
<1>1. PICK u \in Users : u = call.user
  BY DEF LogInv, EpochInv, CountersInv, TypeOK, Commit, InEpoch, NoCall
<1> DEFINE old == LogOf(u)
           extended == LogOf(u)'
<1>2. /\ \A v \in Users : v # u => LogOf(v)' = LogOf(v)
      /\ extended \in Seq(Operations)
      /\ \A i, j \in DOMAIN extended : extended[i].id = extended[j].id => i = j
      /\ Len(old) \in Nat /\ Len(extended) \in Nat
      /\ Len(old) <= Len(extended)
      /\ \A n \in 1..Len(old) : extended[n] = old[n]
      /\ LegalFrom(extended, Len(old) + 1)
      /\ Len(old) = Len(extended) => extended = old
  BY <1>1, CommitLog
<1>3. old \in Seq(Operations)
  BY AbstractLog
<1>4. AbstractGenerations[u] # 0 /\ UNCHANGED <<accounts, lastGeneration>>
  BY <1>1 DEF Commit, InEpoch, HasAccount, NoGeneration, AbstractGenerations
<1>5. UNCHANGED AbstractGenerations
  BY <1>4 DEF AbstractGenerations
<1>6. AbstractLogs[u] = old /\ AbstractLogs'[u] = extended
  BY DEF AbstractLogs
<1>7. AbstractLogs' = [AbstractLogs EXCEPT ![u] = AbstractLogs'[u]]
  BY <1>2 DEF AbstractLogs
<1> HIDE DEF old, extended
<1>8. CASE Len(old) = Len(extended)
  <2>1. AbstractLogs' = AbstractLogs
    BY <1>2, <1>6, <1>7, <1>8 DEF AbstractLogs
  <2> QED
    BY <1>4, <1>5, <2>1 DEF Promise!vars, AbstractLogs, AbstractGenerations, LogOf
<1>9. CASE Len(old) # Len(extended)
  <2>1. Len(extended) > Len(old)
    BY <1>2, <1>9
  <2>2. \A i \in 1..Len(old) : extended[i] \in Operations
    BY <1>2, ElementOfSeq
  <2>3. /\ SubSeq(extended, 1, Len(old)) \in Seq(Operations)
        /\ Len(SubSeq(extended, 1, Len(old))) = Len(old)
        /\ \A i \in 1..Len(old) : SubSeq(extended, 1, Len(old))[i] = extended[i]
    BY <1>2, <2>2, SubSeqProperties
  <2>4. SubSeq(extended, 1, Len(old)) = old
    BY <1>2, <1>3, <2>3, SeqEqual
  <2>5. Promise!LegalFrom(extended, Len(old) + 1)
    BY <1>2, SameReplay
  <2>6. /\ AbstractGenerations[u] # 0
        /\ AbstractLogs'[u] \in Seq(Operations)
        /\ AbstractLogs' = [AbstractLogs EXCEPT ![u] = AbstractLogs'[u]]
        /\ Len(AbstractLogs'[u]) > Len(AbstractLogs[u])
        /\ SubSeq(AbstractLogs'[u], 1, Len(AbstractLogs[u])) = AbstractLogs[u]
        /\ Promise!LegalFrom(AbstractLogs'[u], Len(AbstractLogs[u]) + 1)
        /\ \A i, j \in DOMAIN AbstractLogs'[u] :
             AbstractLogs'[u][i].id = AbstractLogs'[u][j].id => i = j
        /\ UNCHANGED <<lastGeneration, AbstractGenerations>>
    BY <1>2, <1>4, <1>5, <1>6, <1>7, <2>1, <2>4, <2>5
  <2>7. Promise!Extend(u)
    BY <2>6 DEF Promise!Extend, AbstractLogs, AbstractGenerations, LogOf
  <2> QED
    BY <2>7 DEF Promise!Next
<1> QED
  BY <1>8, <1>9

\* Every step of the store is a step of the abstract specification or stutters.
LEMMA StepRefines == LogInv /\ [Next]_vars => [Promise!Next]_(Promise!vars)
<1> SUFFICES ASSUME LogInv, [Next]_vars
             PROVE  Promise!Next \/ UNCHANGED Promise!vars
  OBVIOUS
<1>1. CountersInv /\ lastGeneration \in Nat
  BY LimitType DEF LogInv, EpochInv, CountersInv, TypeOK, Generations
<1>2. NextGeneration = lastGeneration + 1
  BY <1>1, NextIsSuccessor DEF CountersInv
<1>3. ASSUME NEW rowLimit, NEW limit, CompactAndPrune(rowLimit, limit),
             UNCHANGED lastGeneration
      PROVE  Promise!Next
  BY <1>3, CompactLog, PruneRefines
<1>4. CASE Maintain
  BY <1>1, <1>4, TablesHold, PruneRefines DEF Maintain, LogInv, CountersInv
<1>5. CASE Restart
  BY <1>1, <1>3, <1>5, HighestIsLast DEF Restart, CountersInv
<1>6. CASE UNCHANGED <<accounts, lastGeneration, events>>
  BY <1>6 DEF Promise!vars, RowsOf
<1>7. CASE SyncExpired \/ SyncUnknown
  <2>1. PICK u \in Users : u = call.user
    BY <1>1, <1>7 DEF CountersInv, TypeOK, SyncExpired, SyncUnknown, NoCall
  <2>2. /\ lastGeneration' = NextGeneration
        /\ accounts' = [accounts EXCEPT ![u] = Account(NextGeneration)]
    BY <1>7, <2>1 DEF SyncExpired, SyncUnknown, OpenEpoch, AllocateFor
  <2>3. events' = events \ RowsOf(u)
    BY <1>7, <2>1, NoRowsWithoutAccount DEF SyncExpired, SyncUnknown, LogInv, EpochInv
  <2>4. PICK g \in Nat : g = NextGeneration /\ g > lastGeneration
    BY <1>1, <1>2
  <2> QED
    BY <2>2, <2>3, <2>4, RenewRefines
<1>8. ASSUME NEW u \in Users, Delete(u)
      PROVE  Promise!Next
  <2>1. PICK g \in Nat : g = DeletionGeneration(u) /\ g > lastGeneration
    BY <1>1, <1>2 DEF DeletionGeneration
  <2> QED
    BY <1>8, <2>1, RenewRefines DEF Delete
<1>9. CASE Commit
  BY <1>9, CommitRefines
<1> QED
  BY <1>3, <1>4, <1>5, <1>6, <1>7, <1>8, <1>9
  DEF Next, EndSync, ReceiveSync, RefuseOversized, RefuseAccount, RefuseExhausted,
      RefuseMismatch, RefuseConflict, RefuseEnrollment, RefuseInvalid, RefuseQuota,
      RollBack, RefuseDelete, Tick, vars

\* What a device sees of an account is the abstract log: expiry, retention, deletion,
\* retries, refusals and crashes only ever extend it, start it over under a generation
\* nobody had, or remove it.
THEOREM Implements == Spec => ImplementsAccountLog
<1>1. Spec => Promise!Spec
  BY InitLog, StepLog, InitRefines, StepRefines, PTL DEF Spec, Promise!Spec
<1> QED
  BY <1>1 DEF ImplementsAccountLog

=============================================================================
