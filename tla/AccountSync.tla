----------------------------- MODULE AccountSync -----------------------------
(***************************************************************************)
(* One account, the central service and the account's devices: what        *)
(* synchronizeAccount, synchronizeAccountGeneration and deleteCloud of     *)
(* App.svelte do with the local database (lib/db.ts) and the service.      *)
(*                                                                         *)
(* A tab is a JavaScript thread of a device; tabs of one device share its  *)
(* IndexedDB.  Every IndexedDB transaction, every message and every crash  *)
(* is a step, so tabs, devices and the service interleave between any two  *)
(* of them.  The service handles a request in one step; its storage and    *)
(* its quotas are SyncStore's.                                             *)
(***************************************************************************)
EXTENDS HoldingLog, SequencesExt

CONSTANTS
  Devices,
  Tabs,
  DeviceOf,       \* the device of each tab
  Edits,          \* the operations each device's users may make, once each
  Deleters,       \* the tabs whose user may delete the collection
  BatchSize,      \* operations per request
  PageLimit,      \* rows per response
  MaxPages,       \* exchanges per sync, 50 in the code
  MaxAttempts,    \* generations tried per sync, 3 in the code
  MaxGeneration,  \* bound of the model on generations
  MaxFaults       \* bound of the model on crashes, timeouts and lost messages

ASSUME DeviceType ==
  /\ DeviceOf \in [Tabs -> Devices]
  /\ Edits \in [Devices -> SUBSET Operations]
  /\ Deleters \subseteq Tabs
  /\ \A d, e \in Devices : d # e => Edits[d] \cap Edits[e] = {}
  /\ "none" \notin Tabs /\ IsFiniteSet(Tabs)

\* makeId of lib/collection.ts: an operation has an identifier of its own.
ASSUME IdType == \A op, other \in Operations : op.id = other.id => op = other

ASSUME BoundType ==
  \A n \in {BatchSize, PageLimit, MaxPages, MaxAttempts, MaxGeneration} :
    n \in Nat \ {0}

ASSUME FaultType == MaxFaults \in Nat

VARIABLES
  \* the service
  issued,      \* the highest generation issued
  epoch,       \* the account's generation, 0 without an account
  first,       \* sequence numbers used before this generation
  log,         \* the account's operations
  \* per device, the account's domain of IndexedDB
  generation,  \* 0 when unknown
  cursor,
  base,        \* events that carry a serverSequence: [seq, op]
  queue,       \* events without one, in order of creation
  acked,       \* the ones of the queue the service acknowledged
  lock,        \* owner of the mutation lock record
  \* per tab
  session,     \* the sync in progress
  wanted,      \* the coordinator will start a sync: rerun or retry
  deletion,    \* deleteCloud in progress
  \* the network, and what happened
  requests,
  faults,
  born,        \* history: the generation an operation was made in
  breached     \* history: devices where a clear took the lock of a deletion

server == <<issued, epoch, first, log>>
store == <<generation, cursor, base, queue, acked>>
vars == <<server, store, lock, session, wanted, deletion, requests, faults,
          born, breached>>

Unknown == 0                 \* a generation that is null
NoTab == "none"
Idle == [pc |-> "idle"]
NoDeletion == [pc |-> "none"]

\* A sequence without the members of a set.
Without(seq, S) ==
  LET kept == {i \in DOMAIN seq : seq[i] \notin S}
  IN  [n \in 1..Cardinality(kept) |-> seq[CHOOSE i \in kept : Rank(kept, i) = n]]

\* A record with new or other fields.
Updated(record, fields) ==
  [f \in DOMAIN record \cup DOMAIN fields |->
     IF f \in DOMAIN fields THEN fields[f] ELSE record[f]]

Ops(d) == ToSet(queue[d])
Pending(d) == Without(queue[d], acked[d])

\* The local log: sequenced events first, then the device's own.
ViewOf(rows, own) == OpsOf(rows) \o own

\* The rows the service has, and the page of them that follows a cursor.
Rows == {[seq |-> first + i, op |-> log[i]] : i \in DOMAIN log}
Page(c) ==
  {row \in Rows : row.seq > c /\ Cardinality({r \in Rows : r.seq \in (c+1)..row.seq})
                                   <= PageLimit}
LastOf(rows, c) == IF rows = {} THEN c ELSE Max({row.seq : row \in rows})

Init ==
  /\ issued = 0 /\ epoch = Unknown /\ first = 0 /\ log = <<>>
  /\ generation = [d \in Devices |-> Unknown]
  /\ cursor = [d \in Devices |-> 0]
  /\ base = [d \in Devices |-> {}]
  /\ queue = [d \in Devices |-> <<>>]
  /\ acked = [d \in Devices |-> {}]
  /\ lock = [d \in Devices |-> NoTab]
  /\ session = [t \in Tabs |-> Idle]
  /\ wanted = [t \in Tabs |-> TRUE]
  /\ deletion = [t \in Tabs |-> NoDeletion]
  /\ requests = {}
  /\ faults = 0
  /\ born = [op \in Operations |-> Unknown]
  /\ breached = {}

\* Generations that may still be needed; Forget and deletions stop before
\* MaxGeneration so that the service can always answer.
Committed ==
  issued + (IF epoch = Unknown THEN 1 ELSE 0)
         + Cardinality({t \in Tabs : deletion[t].pc \in {"drain", "wait"}})
         + Cardinality({r \in requests : r.kind = "delete"})

-----------------------------------------------------------------------------
(* How a sync ends.  The coordinator retries what isRetryableSyncError      *)
(* accepts; any other failure drops the rerun that was requested.           *)

\* Mutant: no retry is scheduled.
EndWithoutRetry(t, outcome) ==
  /\ session' = [session EXCEPT ![t] = Idle]
  /\ wanted' = [wanted EXCEPT ![t] = outcome = "ok" /\ @]
  /\ UNCHANGED <<deletion, lock>>

End(t, outcome) ==
  /\ session' = [session EXCEPT ![t] = Idle]
  /\ wanted' = [wanted EXCEPT ![t] =
       CASE outcome = "ok" -> @
         [] outcome = "retry" -> TRUE
         [] outcome \in {"error", "aborted"} -> FALSE]
  \* deleteCloud awaits the sync it aborts, and gives up if the sync failed
  \* for another reason.
  /\ IF deletion[t].pc = "drain" /\ outcome \in {"retry", "error"}
     THEN /\ deletion' = [deletion EXCEPT ![t] = NoDeletion]
          /\ lock' = [lock EXCEPT ![DeviceOf[t]] = IF @ = t THEN NoTab ELSE @]
     ELSE UNCHANGED <<deletion, lock>>

Move(t, fields) ==
  /\ session' = [session EXCEPT ![t] = Updated(@, fields)]
  /\ UNCHANGED <<wanted, deletion, lock>>

-----------------------------------------------------------------------------
(* synchronizeAccount: attempts, one per generation.                        *)

StartSync(t) ==
  /\ session[t].pc = "idle"
  /\ deletion[t].pc = "none"
  /\ session' = [session EXCEPT ![t] = [pc |-> "attempt", attempt |-> 0]]
  /\ wanted' = [wanted EXCEPT ![t] = FALSE]
  /\ UNCHANGED <<server, store, lock, deletion, requests, faults, born, breached>>

BeginAttempt(t) ==
  /\ session[t].pc = "attempt"
  /\ IF session[t].attempt = MaxAttempts
     THEN End(t, "error")
     ELSE Move(t, [pc |-> "generation", attempt |-> session[t].attempt + 1,
                   stale |-> generation[DeviceOf[t]]])
  /\ UNCHANGED <<server, store, requests, faults, born, breached>>

ReadGeneration(t) ==
  /\ session[t].pc = "generation"
  /\ Move(t, [pc |-> "cursor", generation |-> generation[DeviceOf[t]]])
  /\ UNCHANGED <<server, store, requests, faults, born, breached>>

ReadCursor(t) ==
  /\ session[t].pc = "cursor"
  /\ Move(t, [pc |-> "queue", cursor |-> cursor[DeviceOf[t]], page |-> 0,
              more |-> FALSE])
  /\ UNCHANGED <<server, store, requests, faults, born, breached>>

-----------------------------------------------------------------------------
(* synchronizeAccountGeneration: one round of the loop is a request, its    *)
(* response, and the local transactions that record it.                     *)

Batch(t) ==
  LET pending == Pending(DeviceOf[t])
  IN  SubSeq(pending, 1, IF Len(pending) < BatchSize THEN Len(pending)
                         ELSE BatchSize)

ReadQueue(t) ==
  LET s == session[t]
      begun == s.page > 0
      left == begun => (s.more \/ Batch(t) # <<>>)
      quarantined == ~begun /\ s.generation = Unknown /\ Batch(t) # <<>>
  IN
  /\ s.pc = "queue"
  /\ \/ /\ ~left
        /\ End(t, "ok")
        /\ UNCHANGED requests
     \* AccountQueueMissingGenerationError, the page safety limit
     \/ /\ quarantined \/ (begun /\ left /\ s.page >= MaxPages)
        /\ End(t, "error")
        /\ UNCHANGED requests
     \* throwIfAborted
     \/ /\ left /\ ~quarantined /\ s.page < MaxPages
        /\ deletion[t].pc # "none"
        /\ End(t, "aborted")
        /\ UNCHANGED requests
     \/ /\ left /\ ~quarantined /\ s.page < MaxPages
        /\ deletion[t].pc = "none"
        /\ LET request == [kind |-> "sync", tab |-> t,
                           generation |-> s.generation,
                           cursor |-> IF s.generation = Unknown THEN 0
                                      ELSE s.cursor,
                           ops |-> Batch(t)]
           IN  /\ Move(t, [pc |-> "wait", request |-> request])
               /\ requests' = requests \cup {request}
  /\ UNCHANGED <<server, store, faults, born, breached>>

\* The response of a request, if its tab is still waiting for it.
Deliver(request, response) ==
  LET t == request.tab
  IN  session' =
        IF session[t].pc = "wait" /\ session[t].request = request
        THEN [session EXCEPT ![t] =
                Updated(Restrict(@, DOMAIN @ \ {"request"}), response)]
        ELSE session

\* The page that answers a request once the log is what it is now.
Reply(request, rows, more) ==
  Deliver(request, [pc |-> "apply", sent |-> request.ops, reply |-> epoch',
                    rows |-> rows, next |-> LastOf(rows, request.cursor),
                    more |-> more])

\* Mutant: the service stores what it is sent, also when it has it.
FreshWithoutLookup(request) == request.ops

Fresh(request) == Without(request.ops, ToSet(log))

\* The account does not exist: the request opens a generation for it.
ServeNew(request) ==
  /\ epoch = Unknown
  /\ issued' = issued + 1
  /\ epoch' = issued'
  /\ UNCHANGED <<first, log>>
  /\ IF request.generation = Unknown
     THEN Reply(request, {}, FALSE)
     ELSE Deliver(request, [pc |-> "clear", reply |-> epoch'])

ServeStale(request) ==
  /\ epoch # Unknown
  /\ request.generation \notin {Unknown, epoch}
  /\ Deliver(request, [pc |-> "clear", reply |-> epoch])
  /\ UNCHANGED server

ServeInvalid(request) ==
  /\ epoch # Unknown
  /\ request.generation \in {Unknown, epoch}
  /\ ~LegalFrom(log \o Fresh(request), Len(log) + 1)
  /\ Deliver(request, [pc |-> "invalid"])
  /\ UNCHANGED server

ServeBatch(request) ==
  /\ epoch # Unknown
  /\ request.generation \in {Unknown, epoch}
  /\ LegalFrom(log \o Fresh(request), Len(log) + 1)
  /\ log' = log \o Fresh(request)
  /\ UNCHANGED <<issued, epoch, first>>
  /\ LET rows == Page(request.cursor)'
     IN  Reply(request, rows,
               \E row \in Rows' : row.seq > LastOf(rows, request.cursor))

Serve(request) ==
  /\ request.kind = "sync"
  /\ requests' = requests \ {request}
  /\ \/ ServeNew(request) \/ ServeStale(request)
     \/ ServeInvalid(request) \/ ServeBatch(request)
  /\ UNCHANGED <<store, lock, wanted, deletion, faults, born, breached>>

\* 422 is not retryable.
Refused(t) ==
  /\ session[t].pc = "invalid"
  /\ End(t, "error")
  /\ UNCHANGED <<server, store, requests, faults, born, breached>>

-----------------------------------------------------------------------------
(* Recording a response.  assertMutationAllowed lets the owner of the lock  *)
(* set the generation and the cursor and clear the domain, not import or    *)
(* acknowledge; assertSyncGeneration is the fence of the others.            *)

Locked(t) ==
  LET owner == lock[DeviceOf[t]]
  IN  CASE session[t].pc \in {"import", "mark"} -> owner # NoTab
        [] session[t].pc \in {"apply", "advance", "clear"} ->
             owner \notin {NoTab, t}
        [] OTHER -> FALSE

\* Mutants: one of the transactions does not check the generation.
FencedExceptImport(t) ==
  /\ session[t].pc \in {"apply", "mark", "advance"}
  /\ generation[DeviceOf[t]] # session[t].generation
FencedExceptApply(t) ==
  /\ session[t].pc \in {"import", "mark", "advance"}
  /\ generation[DeviceOf[t]] # session[t].generation

Fenced(t) ==
  /\ session[t].pc \in {"apply", "import", "mark", "advance"}
  /\ generation[DeviceOf[t]] # session[t].generation

Blocked(t) ==
  /\ Locked(t) \/ Fenced(t)
  /\ End(t, "retry")
  /\ UNCHANGED <<server, store, requests, faults, born, breached>>

AfterImport(t) == IF session[t].sent # <<>> THEN "mark" ELSE "advance"

SetGeneration(t) ==
  /\ session[t].pc = "apply"
  /\ ~Locked(t) /\ ~Fenced(t)
  /\ generation' = [generation EXCEPT ![DeviceOf[t]] = session[t].reply]
  /\ Move(t, [pc |-> IF session[t].rows # {} THEN "import" ELSE AfterImport(t),
              generation |-> session[t].reply])
  /\ UNCHANGED <<server, cursor, base, queue, acked, requests, faults, born, breached>>

\* What the device would hold with the page: its own operations that come
\* back get their place in the base.
Prospective(t) ==
  LET d == DeviceOf[t]
      imported == {row.op : row \in session[t].rows}
  IN  [base |-> base[d] \cup session[t].rows,
       queue |-> Without(queue[d], imported)]

\* Mutant: the page is imported with the tolerant replay.
ReplaysTolerantly(t) == TRUE

Replays(t) ==
  LegalFrom(ViewOf(Prospective(t).base, Prospective(t).queue), 1)

\* Mutant: an operation that comes back keeps its place in the queue.
ImportPageKeepingQueue(t) ==
  LET d == DeviceOf[t]
  IN
  /\ session[t].pc = "import"
  /\ ~Locked(t) /\ ~Fenced(t)
  /\ Replays(t)
  /\ base' = [base EXCEPT ![d] = Prospective(t).base]
  /\ Move(t, [pc |-> AfterImport(t)])
  /\ UNCHANGED <<server, generation, cursor, queue, acked, requests, faults, born, breached>>

ImportPage(t) ==
  LET d == DeviceOf[t]
  IN
  /\ session[t].pc = "import"
  /\ ~Locked(t) /\ ~Fenced(t)
  /\ Replays(t)
  /\ base' = [base EXCEPT ![d] = Prospective(t).base]
  /\ queue' = [queue EXCEPT ![d] = Prospective(t).queue]
  /\ acked' = [acked EXCEPT ![d] = @ \cap ToSet(queue'[d])]
  /\ Move(t, [pc |-> AfterImport(t)])
  /\ UNCHANGED <<server, generation, cursor, requests, faults, born, breached>>

\* The strict replay throws inside the transaction: nothing is written, and
\* the error is not retryable.
RejectPage(t) ==
  /\ session[t].pc = "import"
  /\ ~Locked(t) /\ ~Fenced(t)
  /\ ~Replays(t)
  /\ End(t, "error")
  /\ UNCHANGED <<server, store, requests, faults, born, breached>>

MarkSynced(t) ==
  LET d == DeviceOf[t]
  IN
  /\ session[t].pc = "mark"
  /\ ~Locked(t) /\ ~Fenced(t)
  /\ acked' = [acked EXCEPT ![d] = @ \cup (ToSet(session[t].sent) \cap Ops(d))]
  /\ Move(t, [pc |-> "advance"])
  /\ UNCHANGED <<server, generation, cursor, base, queue, requests, faults, born, breached>>

SetCursor(t) ==
  /\ session[t].pc = "advance"
  /\ ~Locked(t) /\ ~Fenced(t)
  /\ cursor' = [cursor EXCEPT ![DeviceOf[t]] = session[t].next]
  /\ session' = [session EXCEPT ![t] =
       [pc |-> "queue", attempt |-> @.attempt, stale |-> @.stale,
        generation |-> @.generation, cursor |-> @.next, page |-> @.page + 1,
        more |-> @.more]]
  /\ UNCHANGED <<server, generation, base, queue, acked, lock, wanted, deletion,
                 requests, faults, born, breached>>

-----------------------------------------------------------------------------
(* clearAccountData.                                                        *)

\* Mutants: something of the old generation is kept, or the new one is not.
ClearKeepingQueue(d, replacement) ==
  /\ generation' = [generation EXCEPT ![d] = replacement]
  /\ cursor' = [cursor EXCEPT ![d] = 0]
  /\ base' = [base EXCEPT ![d] = {}]
  /\ UNCHANGED <<queue, acked>>
ClearKeepingBase(d, replacement) ==
  /\ generation' = [generation EXCEPT ![d] = replacement]
  /\ cursor' = [cursor EXCEPT ![d] = 0]
  /\ queue' = [queue EXCEPT ![d] = <<>>]
  /\ acked' = [acked EXCEPT ![d] = {}]
  /\ UNCHANGED base
ClearKeepingAcks(d, replacement) ==
  /\ generation' = [generation EXCEPT ![d] = replacement]
  /\ cursor' = [cursor EXCEPT ![d] = 0]
  /\ base' = [base EXCEPT ![d] = {}]
  /\ queue' = [queue EXCEPT ![d] = <<>>]
  /\ UNCHANGED acked
Clear(d, replacement) ==
  /\ generation' = [generation EXCEPT ![d] = replacement]
  /\ cursor' = [cursor EXCEPT ![d] = 0]
  /\ base' = [base EXCEPT ![d] = {}]
  /\ queue' = [queue EXCEPT ![d] = <<>>]
  /\ acked' = [acked EXCEPT ![d] = {}]

\* Mutant: a 409 clears whatever generation the device is in by now.
ClearUnconditionally(t) ==
  /\ session[t].pc = "clear"
  /\ ~Locked(t)
  /\ session' = [session EXCEPT ![t] =
                   [pc |-> "attempt", attempt |-> session[t].attempt]]
  /\ Clear(DeviceOf[t], session[t].reply)
  /\ lock' = [lock EXCEPT ![DeviceOf[t]] = NoTab]
  /\ UNCHANGED <<server, wanted, deletion, requests, faults, born, breached>>

\* After a 409, only if the device is still in the generation it sent.  The
\* lock record is in the namespace that is cleared.
ClearStale(t) ==
  LET d == DeviceOf[t]
  IN
  /\ session[t].pc = "clear"
  /\ ~Locked(t)
  /\ session' = [session EXCEPT ![t] =
                   [pc |-> "attempt", attempt |-> session[t].attempt]]
  /\ IF generation[d] = session[t].stale
     THEN /\ Clear(d, session[t].reply)
          /\ lock' = [lock EXCEPT ![d] = NoTab]
          /\ breached' = IF lock[d] = NoTab THEN breached ELSE breached \cup {d}
     ELSE UNCHANGED <<store, lock, breached>>
  /\ UNCHANGED <<server, wanted, deletion, requests, faults, born>>

-----------------------------------------------------------------------------
(* Edits of the collection: add, adjustQuantity, update, remove.  The       *)
(* transaction validates the whole prospective log.                         *)

Edit(t, op) ==
  LET d == DeviceOf[t]
  IN
  /\ op \in Edits[d]
  /\ born[op] = Unknown
  /\ deletion[t].pc = "none"
  /\ generation[d] # Unknown
  /\ lock[d] = NoTab
  /\ LegalFrom(ViewOf(base[d], Append(queue[d], op)), 1)
  /\ queue' = [queue EXCEPT ![d] = Append(@, op)]
  /\ born' = [born EXCEPT ![op] = generation[d]]
  /\ wanted' = [wanted EXCEPT ![t] = TRUE]
  /\ UNCHANGED <<server, generation, cursor, base, acked, lock, session,
                 deletion, requests, faults, breached>>

-----------------------------------------------------------------------------
(* deleteCloud.                                                             *)

\* The browser lock admits one deletion per device.
BeginDelete(t) ==
  LET d == DeviceOf[t]
  IN
  /\ t \in Deleters
  /\ Committed < MaxGeneration
  /\ \A u \in Tabs : DeviceOf[u] = d => deletion[u].pc = "none"
  /\ lock' = [lock EXCEPT ![d] = t]
  /\ deletion' = [deletion EXCEPT ![t] = [pc |-> "drain"]]
  /\ UNCHANGED <<server, store, session, wanted, requests, faults, born, breached>>

\* The abort reaches the fetch of the sync in progress.
AbortSync(t) ==
  /\ deletion[t].pc = "drain"
  /\ session[t].pc = "wait"
  /\ End(t, "aborted")
  /\ UNCHANGED <<server, store, requests, faults, born, breached>>

SendDelete(t) ==
  /\ deletion[t].pc = "drain"
  /\ session[t].pc = "idle"
  /\ requests' = requests \cup {[kind |-> "delete", tab |-> t]}
  /\ deletion' = [deletion EXCEPT ![t] = [pc |-> "wait"]]
  /\ UNCHANGED <<server, store, lock, session, wanted, faults, born, breached>>

ServeDelete(request) ==
  LET t == request.tab
  IN
  /\ request.kind = "delete"
  /\ requests' = requests \ {request}
  /\ issued' = IF issued = 0 THEN 2 ELSE issued + 1
  /\ epoch' = issued'
  /\ first' = first + Len(log)
  /\ log' = <<>>
  /\ deletion' = IF deletion[t].pc = "wait"
                 THEN [deletion EXCEPT ![t] = [pc |-> "clear", reply |-> epoch']]
                 ELSE deletion
  /\ UNCHANGED <<store, lock, session, wanted, faults, born, breached>>

Release(t) ==
  /\ deletion' = [deletion EXCEPT ![t] = NoDeletion]
  /\ lock' = [lock EXCEPT ![DeviceOf[t]] = IF @ = t THEN NoTab ELSE @]

ClearDeleted(t) ==
  /\ deletion[t].pc = "clear"
  /\ lock[DeviceOf[t]] \in {NoTab, t}
  /\ Clear(DeviceOf[t], deletion[t].reply)
  /\ Release(t)
  /\ UNCHANGED <<server, session, wanted, requests, faults, born, breached>>

-----------------------------------------------------------------------------
(* The environment.                                                         *)

\* The retention deadline passes and the service prunes the account.
Forget ==
  /\ epoch # Unknown
  /\ Committed < MaxGeneration
  /\ epoch' = Unknown
  /\ first' = first + Len(log)
  /\ log' = <<>>
  /\ UNCHANGED <<issued, store, lock, session, wanted, deletion, requests,
                 faults, born, breached>>

Fault == faults < MaxFaults /\ faults' = faults + 1

\* The tab gives up; the service may still get the request, or it may have
\* answered already.  DELETE has no retry.
Timeout(t) ==
  /\ Fault
  /\ \/ session[t].pc = "wait" /\ End(t, "retry") /\ UNCHANGED requests
     \/ /\ deletion[t].pc = "wait"
        /\ Release(t)
        /\ UNCHANGED <<session, wanted, requests>>
  /\ UNCHANGED <<server, store, born, breached>>

Lose(request) ==
  /\ Fault
  /\ requests' = requests \ {request}
  /\ LET t == request.tab
     IN  \/ /\ request.kind = "sync"
            /\ session[t].pc = "wait" /\ session[t].request = request
            /\ End(t, "retry")
         \/ /\ request.kind = "delete" /\ deletion[t].pc = "wait"
            /\ Release(t)
            /\ UNCHANGED <<session, wanted>>
  /\ UNCHANGED <<server, store, born, breached>>

\* The tab is closed or dies, and is opened again: the browser drops its lock.
Crash(t) ==
  /\ Fault
  /\ session' = [session EXCEPT ![t] = Idle]
  /\ wanted' = [wanted EXCEPT ![t] = TRUE]
  /\ Release(t)
  /\ UNCHANGED <<server, store, requests, born, breached>>

-----------------------------------------------------------------------------
SyncStep(t) ==
  \/ BeginAttempt(t) \/ ReadGeneration(t) \/ ReadCursor(t) \/ ReadQueue(t)
  \/ Refused(t) \/ Blocked(t) \/ SetGeneration(t) \/ ImportPage(t)
  \/ RejectPage(t) \/ MarkSynced(t) \/ SetCursor(t) \/ ClearStale(t)

DeleteStep(t) == AbortSync(t) \/ SendDelete(t) \/ ClearDeleted(t)

Next ==
  \/ \E t \in Tabs :
       \/ StartSync(t) \/ SyncStep(t) \/ BeginDelete(t) \/ DeleteStep(t)
       \/ Timeout(t) \/ Crash(t)
       \/ \E op \in Operations : Edit(t, op)
  \/ \E r \in requests : Serve(r) \/ ServeDelete(r) \/ Lose(r)
  \/ Forget

Spec == Init /\ [][Next]_vars

\* A tab runs its code, the coordinator's timers fire, the service answers
\* what reaches it.  Edits, deletions, faults and expiry need not happen, and a
\* sync nobody asked for need not start.
Fairness ==
  /\ \A t \in Tabs :
       /\ WF_vars(SyncStep(t))
       /\ WF_vars(DeleteStep(t))
       /\ WF_vars(StartSync(t) /\ wanted[t])
  /\ \A t \in Tabs :
       WF_vars(\E r \in requests : r.tab = t /\ (Serve(r) \/ ServeDelete(r)))

FairSpec == Spec /\ Fairness

\* The same, where pageshow, visibilitychange and online events keep coming and
\* each starts a sync.
RetriggeredSpec == FairSpec /\ \A t \in Tabs : WF_vars(StartSync(t))

-----------------------------------------------------------------------------
Generations == 0..MaxGeneration

\* Type invariant: the server row, the IndexedDB records and the local
\* variables of each tab hold what the code can put there.
TypeOK ==
  /\ issued \in Generations /\ epoch \in Generations /\ first \in Nat
  /\ log \in Seq(Operations)
  /\ generation \in [Devices -> Generations]
  /\ cursor \in [Devices -> Nat]
  /\ \A d \in Devices :
       /\ base[d] \subseteq [seq : Nat, op : Operations]
       /\ queue[d] \in Seq(Edits[d])
       /\ acked[d] \subseteq Ops(d)
       /\ lock[d] \in {NoTab} \cup {t \in Tabs : DeviceOf[t] = d}
  /\ \A t \in Tabs :
       session[t].pc \in {"idle", "attempt", "generation", "cursor", "queue",
                          "wait", "apply", "import", "mark", "advance",
                          "clear", "invalid"}
  /\ wanted \in [Tabs -> BOOLEAN]
  /\ \A t \in Tabs : deletion[t].pc \in {"none", "drain", "wait", "clear"}
  /\ faults \in 0..MaxFaults
  /\ born \in [Operations -> Generations]
  /\ breached \subseteq Devices

\* No stale queue resurrects a deleted or expired collection: what the service
\* stores was created, on its device, in the generation it is stored in.  A device
\* whose deletion lost its fence (DeletionFenced) is left out, here and below.
NoResurrection ==
  \A d \in Devices \ breached : \A i \in DOMAIN log :
    log[i] \in Edits[d] => born[log[i]] = epoch

\* What a device shows as saved is in the service's log for as long as both
\* are in the same generation (markSynced, importEvents).
AckedIsDurable ==
  \A d \in Devices :
    (generation[d] = epoch /\ epoch # Unknown)
      => acked[d] \cup {row.op : row \in base[d]} \subseteq ToSet(log)

\* A device in the service's generation holds service rows only, and every row
\* up to its cursor: no other tab, restart or late response leaves a hole the
\* next pulls would never fill (setSyncCursor after importEvents).
CursorSound ==
  \A d \in Devices \ breached :
    (generation[d] = epoch /\ epoch # Unknown)
      => /\ base[d] \subseteq Rows
         /\ {row \in Rows : row.seq <= cursor[d]} \subseteq base[d]

\* The local log of a device always replays, so the collection can always be
\* shown and edited (the strict replay before every write of lib/db.ts).
LocalReplays ==
  \A d \in Devices : LegalFrom(ViewOf(base[d], queue[d]), 1)

\* An operation has one place on a device: sequenced or queued, once.
OneCopy ==
  \A d \in Devices :
    /\ IsInjective(queue[d])
    /\ \A r, s \in base[d] : r.op = s.op => r = s
    /\ Ops(d) \cap {row.op : row \in base[d]} = {}

\* A device's generation never goes back (setSyncGeneration,
\* clearAccountData).
GenerationMonotone ==
  [][\A d \in Devices \ breached' : generation'[d] >= generation[d]]_vars

\* An operation that is not acknowledged leaves the queue only by becoming a
\* service row, or because its generation is over: no late 409, of this tab or
\* another, erases what was created in the generation that replaced it.
QueueNeverLost ==
  [][\A d \in Devices \ breached' : \A op \in ToSet(Pending(d)) :
       \/ op \in ToSet(queue'[d])
       \/ \E row \in base'[d] : row.op = op
       \/ born[op] # epoch]_vars

\* The deletion of a collection fences the other tabs of the device: from the
\* lock to the local clear no operation is added to the queue
\* (lockAccountMutations, assertMutationAllowed).
DeletionFenced ==
  [][\A t \in Tabs : deletion[t].pc # "none" =>
       \A op \in Edits[DeviceOf[t]] :
         born[op] = Unknown => born'[op] = Unknown]_vars

\* The service of this module is the one SyncStore implements.
Promise == INSTANCE AccountLog WITH
  Users <- {"account"},
  generation <- [u \in {"account"} |-> epoch],
  log <- [u \in {"account"} |-> log]
ServiceKeepsPromise == Promise!Spec

\* Queued changes are saved: every operation in a queue is eventually
\* acknowledged, sequenced, or given up with its generation.
QueueDrains ==
  \A d \in Devices : \A op \in Edits[d] :
    (op \in ToSet(Pending(d))) ~> (op \notin ToSet(Pending(d)))

=============================================================================
