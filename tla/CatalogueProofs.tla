--------------------------- MODULE CatalogueProofs ---------------------------
(***************************************************************************)
(* Proofs about Catalogue, for any requests, cards, limits and provider    *)
(* answers: the guard's table of clients and its leases, the fetches that  *)
(* requests share, and the circuits of the providers.                      *)
(***************************************************************************)
EXTENDS Catalogue, FiniteSetTheorems, TLAPS

-----------------------------------------------------------------------------
(* The guard.  A guard as the service keeps it: GuardOK says what its fields *)
(* hold, and the table of clients is finite.                                *)

Kept(g) ==
  /\ GuardOK(g)
  /\ IsFiniteSet(DOMAIN g.clients)
  /\ g = [active |-> g.active, global |-> g.global, clients |-> g.clients]

\* The table of clients after one was counted holds that client with its new counter,
\* others as they were, and is not too large.
LEMMA TableKept ==
  ASSUME NEW g, Kept(g), NEW c \in Clients, NEW counter \in Counter, NEW time \in Int,
         NEW table \in Remember(g, c, counter, time)
  PROVE  /\ c \in DOMAIN table /\ table[c] = counter
         /\ DOMAIN table \subseteq DOMAIN g.clients \cup {c}
         /\ \A k \in DOMAIN table \ {c} : table[k] = g.clients[k]
         /\ IsFiniteSet(DOMAIN table) /\ Cardinality(DOMAIN table) <= MaxTracked
<1> DEFINE D == DOMAIN g.clients \cup {c}
           full == [k \in D |-> IF k = c THEN counter ELSE g.clients[k]]
<1>1. IsFiniteSet(D) /\ Cardinality(D) <= MaxTracked + 1 /\ Cardinality(D) \in Nat
  <2>1. IsFiniteSet(DOMAIN g.clients) /\ Cardinality(DOMAIN g.clients) <= MaxTracked
    BY DEF Kept, GuardOK
  <2>2. Cardinality(DOMAIN g.clients) \in Nat /\ MaxTracked \in Nat
    BY <2>1, FS_CardinalityType, GuardType
  <2>3. /\ IsFiniteSet(D)
        /\ Cardinality(D) = IF c \in DOMAIN g.clients THEN Cardinality(DOMAIN g.clients)
                            ELSE Cardinality(DOMAIN g.clients) + 1
    BY <2>1, FS_AddElement
  <2> QED BY <2>1, <2>2, <2>3
<1>2. \/ table = full /\ Cardinality(D) <= MaxTracked
      \/ \E k \in D \ {c} : table = [x \in D \ {k} |-> full[x]]
  BY DEF Remember, Restrict
<1>3. CASE table = full /\ Cardinality(D) <= MaxTracked
  BY <1>1, <1>3
<1>4. CASE \E k \in D \ {c} : table = [x \in D \ {k} |-> full[x]]
  <2>1. PICK k \in D \ {c} : table = [x \in D \ {k} |-> full[x]]
    BY <1>4
  <2>2. DOMAIN table = D \ {k}
    BY <2>1
  <2>3. IsFiniteSet(D \ {k}) /\ Cardinality(D \ {k}) = Cardinality(D) - 1
    BY <1>1, FS_RemoveElement
  <2>4. Cardinality(D \ {k}) <= MaxTracked
    BY <1>1, <2>3, GuardType
  <2> QED BY <2>1, <2>2, <2>3, <2>4
<1> QED BY <1>2, <1>3, <1>4

\* The window of a client is a counter.
LEMMA WindowType ==
  ASSUME NEW g, Kept(g), NEW c \in Clients, NEW time \in Nat
  PROVE  ClientWindow(g, c, time) \in Counter /\ GlobalWindow(g, time) \in Total
BY DEF Kept, GuardOK, ClientWindow, GlobalWindow, Counter, Total

\* A counter stays one when its client is seen and its count grows.
LEMMA CounterKept ==
  ASSUME NEW w \in Counter, NEW time \in Int
  PROVE  /\ [w EXCEPT !.seen = time] \in Counter
         /\ [w EXCEPT !.count = @ + 1, !.seen = time] \in Counter
<1>1. \A v \in Counter : [v EXCEPT !.seen = time] \in Counter
  BY DEF Counter
<1>2. [w EXCEPT !.count = @ + 1] \in Counter
  BY DEF Counter
<1>3. [w EXCEPT !.count = @ + 1, !.seen = time]
        = [[w EXCEPT !.count = @ + 1] EXCEPT !.seen = time]
  OBVIOUS
<1> QED BY <1>1, <1>2, <1>3

\* What a call of enter does to the guard: it takes a lease if it admits the client, and
\* counts the call in the client's window.
LEMMA EnterKept ==
  ASSUME NEW g, Kept(g), NEW c \in Clients, NEW time \in Nat,
         NEW h \in Enter(g, c, time).guards
  PROVE  LET entry == Enter(g, c, time)
             window == ClientWindow(g, c, time)
         IN  /\ Kept(h)
             /\ entry.allowed \in BOOLEAN
             /\ h.active = IF entry.allowed THEN g.active + 1 ELSE g.active
             /\ \A k \in DOMAIN h.clients \ {c} :
                  k \in DOMAIN g.clients /\ h.clients[k] = g.clients[k]
             /\ \/ h = g /\ ~entry.allowed /\ entry.reason = "concurrency"
                \/ /\ c \in DOMAIN h.clients
                   /\ h.clients[c].start = window.start
                   /\ h.clients[c].count =
                        IF entry.allowed THEN window.count + 1 ELSE window.count
             /\ entry.reason \in {"none", "concurrency", "client", "global"}
             /\ entry.reason = "client" => entry.retryAt = window.start + Window
<1> DEFINE entry == Enter(g, c, time)
           window == ClientWindow(g, c, time)
           global == GlobalWindow(g, time)
           full == global.count >= Global
           limited == window.count >= PerClient
           seen == [window EXCEPT !.seen = time]
           counted == [window EXCEPT !.count = @ + 1, !.seen = time]
<1>1. g.active \in Nat /\ MaxConcurrent \in Nat /\ time \in Int
  BY GuardType DEF Kept, GuardOK
<1>2. /\ window \in Counter /\ seen \in Counter /\ counted \in Counter
      /\ global \in Total /\ [global EXCEPT !.count = @ + 1] \in Total
  <2>1. window \in Counter /\ global \in Total
    BY WindowType
  <2>2. seen \in Counter /\ counted \in Counter
    BY <1>1, <2>1, CounterKept
  <2>3. \A w \in Total : [w EXCEPT !.count = @ + 1] \in Total
    BY DEF Total
  <2> QED BY <2>1, <2>2, <2>3
<1>3. CASE g.active >= MaxConcurrent
  <2>1. entry = [guards |-> {g}, allowed |-> FALSE, reason |-> "concurrency",
                 retryAt |-> time]
    BY <1>3 DEF Enter
  <2>2. h = g
    BY <2>1
  <2> QED BY <2>1, <2>2 DEF Kept, GuardOK
<1>4. CASE g.active < MaxConcurrent /\ (full \/ limited)
  <2>1. entry = [guards |-> {[active |-> g.active, global |-> global, clients |-> table] :
                               table \in Remember(g, c, seen, time)},
                 allowed |-> FALSE,
                 reason |-> IF limited THEN "client" ELSE "global",
                 retryAt |-> window.start + Window]
    BY <1>4, <1>1 DEF Enter
  <2>2. PICK table \in Remember(g, c, seen, time) :
          h = [active |-> g.active, global |-> global, clients |-> table]
    BY <2>1
  <2>3. /\ c \in DOMAIN table /\ table[c] = seen
        /\ DOMAIN table \subseteq DOMAIN g.clients \cup {c}
        /\ \A k \in DOMAIN table \ {c} : table[k] = g.clients[k]
        /\ IsFiniteSet(DOMAIN table) /\ Cardinality(DOMAIN table) <= MaxTracked
    BY <1>2, <1>1, TableKept
  <2>4. Kept(h)
    BY <1>2, <2>2, <2>3 DEF Kept, GuardOK
  <2>5. seen.start = window.start /\ seen.count = window.count
    BY <1>2 DEF Counter
  <2>6. /\ entry.allowed = FALSE /\ entry.reason \in {"client", "global"}
        /\ entry.retryAt = window.start + Window
    BY <2>1
  <2>7. h.active = g.active /\ h.clients = table
    BY <2>2
  <2> HIDE DEF seen, counted
  <2> QED BY <2>3, <2>4, <2>5, <2>6, <2>7
<1>5. CASE g.active < MaxConcurrent /\ ~full /\ ~limited
  <2>1. entry = [guards |-> {[active |-> g.active + 1,
                              global |-> [global EXCEPT !.count = @ + 1],
                              clients |-> table] :
                               table \in Remember(g, c, counted, time)},
                 allowed |-> TRUE, reason |-> "none", retryAt |-> time]
    BY <1>5, <1>1 DEF Enter
  <2>2. PICK table \in Remember(g, c, counted, time) :
          h = [active |-> g.active + 1, global |-> [global EXCEPT !.count = @ + 1],
               clients |-> table]
    BY <2>1
  <2>3. /\ c \in DOMAIN table /\ table[c] = counted
        /\ DOMAIN table \subseteq DOMAIN g.clients \cup {c}
        /\ \A k \in DOMAIN table \ {c} : table[k] = g.clients[k]
        /\ IsFiniteSet(DOMAIN table) /\ Cardinality(DOMAIN table) <= MaxTracked
    BY <1>2, <1>1, TableKept
  <2>4. Kept(h)
    BY <1>2, <1>1, <1>5, <2>2, <2>3 DEF Kept, GuardOK
  <2>5. counted.start = window.start /\ counted.count = window.count + 1
    BY <1>2 DEF Counter
  <2>6. entry.allowed = TRUE /\ entry.reason = "none"
    BY <2>1
  <2>7. h.active = g.active + 1 /\ h.clients = table
    BY <2>2
  <2> HIDE DEF seen, counted
  <2> QED BY <2>3, <2>4, <2>5, <2>6, <2>7
<1> QED BY <1>1, <1>3, <1>4, <1>5

-----------------------------------------------------------------------------
(* The invariant behind the type invariant.  The guard counts its leases     *)
(* down without a check, so that the count stays in its range because every *)
(* lease belongs to a request that waits.                                   *)

Times == 0..MaxTime
Sources == Providers \cup {NoSource}

Entries == [source : Providers, ids : SUBSET Providers, at : Int, detail : BOOLEAN]

RowsOK(rows) ==
  /\ DOMAIN rows \subseteq (SUBSET Providers) \X Keys
  /\ \A x \in DOMAIN rows : rows[x] \in Entries

Fetches == [provider : Providers, cell : Keys, begun : Times, at : Times,
            ids : SUBSET Providers, fallback : Sources, empty : Sources]

\* A request that waits has not got everything it asked for.
IsWait(q) ==
  \E at \in Times, keys \in SUBSET Keys : \E got \in SUBSET keys :
    \E f \in [got -> Sources] :
      got # keys /\ q = [pc |-> "waiting", at |-> at, keys |-> keys, got |-> f]

Refusals == [pc : {"refused"}, reason : {"none", "concurrency", "client", "global"},
             retryAt : Int, before : SUBSET Requests]

RequestOK(q) ==
  q \in [pc : {"idle", "cut"}] \/ q \in [pc : {"done"}, at : Times] \/ q \in Refusals
    \/ IsWait(q)

CellsOK == [Providers -> [Keys -> [failures : Nat, until : 0..(MaxTime + Cooldown)]]]

TypeInv ==
  /\ now \in Times /\ enabled \in Configurations /\ phase \in {"up", "closed"}
  /\ Kept(guard)
  /\ RowsOK(cache)
  /\ flight \in [Keys -> Fetches \cup {NoFlight}]
  /\ \A k \in Keys : flight[k] = NoFlight \/ flight[k].provider \in enabled
  /\ circuit \in [Providers -> Keys \cup {Nobody}]
  /\ cell \in CellsOK
  /\ \A r \in Requests : RequestOK(request[r])
  /\ DOMAIN request = Requests

Leases == IsFiniteSet(Waiting) /\ guard.active = Cardinality(Waiting)

\* The fetches die with the process.
ClosedIsQuiet == phase = "closed" => \A k \in Keys : flight[k] = NoFlight

Inv == TypeInv /\ Leases /\ ClosedIsQuiet /\ NobodyWaitsInVain

LEMMA InvImpliesTypeOK == TypeInv => TypeOK
<1> SUFFICES ASSUME TypeInv PROVE TypeOK
  OBVIOUS
<1>1. GuardOK(guard)
  BY DEF TypeInv, Kept
<1>2. Range(cache) \subseteq [source : Providers, ids : SUBSET Providers,
                               at : Int, detail : BOOLEAN]
  BY DEF TypeInv, RowsOK, Range, Entries
<1>3. \A r \in Requests :
        /\ request[r].pc \in {"idle", "waiting", "refused", "done", "cut"}
        /\ request[r].pc = "waiting" => DOMAIN request[r].got \subseteq request[r].keys
  <2> SUFFICES ASSUME NEW r \in Requests
               PROVE  /\ request[r].pc \in {"idle", "waiting", "refused", "done", "cut"}
                      /\ request[r].pc = "waiting"
                           => DOMAIN request[r].got \subseteq request[r].keys
    OBVIOUS
  <2>1. RequestOK(request[r])
    BY DEF TypeInv
  <2>2. CASE IsWait(request[r])
    BY <2>2 DEF IsWait
  <2>3. CASE ~IsWait(request[r])
    BY <2>1, <2>3 DEF RequestOK, Refusals
  <2> QED BY <2>2, <2>3
<1> QED BY <1>1, <1>2, <1>3 DEF TypeInv, RowsOK, TypeOK, Times, CellsOK

-----------------------------------------------------------------------------
(* The cache.                                                               *)

LEMMA PruneKept ==
  ASSUME NEW rows, RowsOK(rows), NEW time
  PROVE  /\ RowsOK(Prune(rows, time))
         /\ \A x \in DOMAIN Prune(rows, time) :
              x \in DOMAIN rows /\ Prune(rows, time)[x] = rows[x]
BY DEF Prune, Restrict, RowsOK

LEMMA PutKept ==
  ASSUME NEW rows, RowsOK(rows), NEW key \in (SUBSET Providers) \X Keys,
         NEW row \in Entries
  PROVE  RowsOK(Put(rows, key, row)) /\ RowsOK(RememberCard(rows, key, row))
<1> DEFINE added == [x \in DOMAIN rows \cup {key} |-> IF x = key THEN row ELSE rows[x]]
<1>1. RowsOK(added)
  BY DEF RowsOK
<1>2. RowsOK(Prune(added, row.at))
  <2> HIDE DEF added
  <2> QED BY <1>1, PruneKept
<1> QED BY <1>2 DEF Put, RememberCard

LEMMA KeyType ==
  ASSUME TypeInv, NEW k \in Keys
  PROVE  CacheKey(k) \in (SUBSET Providers) \X Keys
BY CatalogueType DEF TypeInv, CacheKey

LEMMA CachedRow ==
  ASSUME TypeInv, NEW k \in Keys
  PROVE  /\ Fallback(k) \in Sources
         /\ Cached(k) => Row(k) \in Entries /\ Fallback(k) \in Providers
BY DEF TypeInv, RowsOK, Fallback, Cached, Row, Sources, Entries

LEMMA StoredKept ==
  ASSUME TypeInv, NEW k \in Keys, flight[k] \in Fetches, NEW p \in Providers,
         NEW found \in BOOLEAN
  PROVE  RowsOK(Stored(k, p, found))
<1> DEFINE f == flight[k]
           row(ids, detail) == [source |-> p, ids |-> ids, at |-> f.at, detail |-> detail]
           in == CardIn[IF p = 2 THEN "en" ELSE k]
<1>1. \A ids \in SUBSET Providers, detail \in BOOLEAN : row(ids, detail) \in Entries
  BY DEF Entries, Fetches, Times
<1>2. RowsOK(cache) /\ CacheKey(k) \in (SUBSET Providers) \X Keys
  BY KeyType DEF TypeInv
<1>3. CASE k \in Cards
  <2>1. f.ids \cup {p} \in SUBSET Providers
    BY DEF Fetches
  <2>2. RowsOK(Put(cache, CacheKey(k), row(f.ids \cup {p}, TRUE)))
    BY <1>1, <1>2, <2>1, PutKept
  <2> QED BY <1>3, <2>2 DEF Stored
<1>4. CASE k \notin Cards
  <2>1. k \in Languages /\ "en" \in Languages
    BY <1>4 DEF Keys, Languages
  <2>2. in \in Keys
    BY <2>1, CatalogueType DEF Keys
  <2>3. CacheKey(in) \in (SUBSET Providers) \X Keys
    BY <2>2, KeyType
  <2>4. RowsOK(Put(cache, CacheKey(k), row({}, TRUE)))
    BY <1>1, <1>2, PutKept
  <2>5. RowsOK(RememberCard(Put(cache, CacheKey(k), row({}, TRUE)), CacheKey(in),
                            row({p}, FALSE)))
    BY <1>1, <2>3, <2>4, PutKept
  <2> QED BY <1>4, <2>4, <2>5 DEF Stored
<1> QED BY <1>3, <1>4

-----------------------------------------------------------------------------
(* Providers, circuits and leases.                                          *)

LEMMA NextProviderType ==
  ASSUME TypeInv, NEW k, NEW ids, NEW from \in Int
  PROVE  LET next == NextProvider(k, ids, from)
         IN  next = 0 \/ /\ next \in enabled /\ next \in Providers
                         /\ next >= from /\ ~IsOpen(next)
<1> DEFINE able == {p \in enabled : /\ p >= from /\ ~IsOpen(p)
                                    /\ (k \in Languages \/ p = 2 \/ p \in ids)}
<1>1. able \subseteq {1, 2}
  BY CatalogueType DEF TypeInv, Providers
<1>2. CASE able = {}
  BY <1>2 DEF NextProvider
<1>3. CASE able # {}
  <2>1. NextProvider(k, ids, from) = Min(able)
    BY <1>3 DEF NextProvider
  <2>2. \E x \in able : \A y \in able : x <= y
    <3> HIDE DEF able
    <3>1. CASE 1 \in able
      BY <1>1, <3>1
    <3>2. CASE able = {2}
      BY <3>2
    <3> QED BY <1>1, <1>3, <3>1, <3>2
  <2>3. Min(able) \in able
    <3> HIDE DEF able
    <3> QED BY <2>2 DEF Min
  <2> QED BY <1>1, <2>1, <2>3 DEF Providers
<1> QED BY <1>2, <1>3

LEMMA CellsAtCallType ==
  ASSUME TypeInv, NEW calls
  PROVE  CellsAtCall(calls) \in CellsOK
BY CatalogueType DEF TypeInv, CellsAtCall, CellsOK, ClosedCell

LEMMA AfterCallType ==
  ASSUME NEW state \in [failures : Nat, until : 0..(MaxTime + Cooldown)],
         NEW outcome, NEW begun \in Times
  PROVE  AfterCall(state, outcome, begun) \in [failures : Nat, until : 0..(MaxTime + Cooldown)]
<1>1. 0 \in 0..(MaxTime + Cooldown) /\ begun + Cooldown \in 0..(MaxTime + Cooldown)
  BY CatalogueType DEF Times
<1> QED BY <1>1 DEF AfterCall, AfterFailure, ClosedCell

LEMMA ReleaseKept ==
  ASSUME NEW g, Kept(g), NEW n \in Nat, n <= g.active
  PROVE  /\ Kept(Release(g, n))
         /\ Release(g, n).active = g.active - n /\ Release(g, n).clients = g.clients
<1>1. Release(g, n) = [active |-> g.active - n, global |-> g.global,
                       clients |-> g.clients]
  BY DEF Release, Kept
<1>2. g.active - n \in 0..MaxConcurrent
  BY GuardType DEF Kept, GuardOK
<1> QED BY <1>1, <1>2 DEF Kept, GuardOK

\* One request that was not made yet gets a state.
LEMMA OneRequest ==
  ASSUME TypeInv, NEW r \in Requests, request[r].pc = "idle",
         NEW q, RequestOK(q), request' = [request EXCEPT ![r] = q]
  PROVE  /\ DOMAIN request' = Requests
         /\ \A o \in Requests : RequestOK(request'[o])
         /\ \A o \in Requests : request'[o] = IF o = r THEN q ELSE request[o]
         /\ r \notin Waiting
         /\ Waiting' = IF q.pc = "waiting" THEN Waiting \cup {r} ELSE Waiting
<1>1. \A o \in Requests : request'[o] = IF o = r THEN q ELSE request[o]
  BY DEF TypeInv
<1>2. DOMAIN request' = Requests
  BY DEF TypeInv
<1>3. \A o \in Requests : RequestOK(request[o])
  BY DEF TypeInv
<1>4. r \notin Waiting
  BY DEF Waiting
<1>5. Waiting' = IF q.pc = "waiting" THEN Waiting \cup {r} ELSE Waiting
  BY <1>1, <1>4 DEF Waiting
<1> QED BY <1>1, <1>2, <1>3, <1>4, <1>5

-----------------------------------------------------------------------------
(* The steps.                                                               *)

LEMMA InitInv == Init => Inv
<1> SUFFICES ASSUME Init PROVE Inv
  OBVIOUS
<1>1. RowsOK(cache)
  <2>1. PICK rows \in Saved : cache = Prune(rows, 0)
    BY DEF Init
  <2>2. RowsOK(rows)
    BY CatalogueType DEF RowsOK, Entries, Range
  <2> QED BY <2>1, <2>2, PruneKept
<1>2. Kept(guard)
  <2>1. guard = [active |-> 0, global |-> [start |-> 0, count |-> 0], clients |-> <<>>]
    BY DEF Init, NewGuard
  <2>2. DOMAIN guard.clients = {}
    BY <2>1
  <2>3. MaxConcurrent \in Nat /\ MaxTracked \in Nat
    BY GuardType
  <2> QED BY <2>1, <2>2, <2>3, FS_EmptySet DEF Kept, GuardOK, Total
<1>3. \A r \in Requests : request[r] = [pc |-> "idle"]
  BY DEF Init, Asked
<1>4. Waiting = {}
  BY <1>3 DEF Waiting
<1>5. \A k \in Keys : flight[k] = NoFlight
  BY DEF Init
<1>6. flight \in [Keys -> Fetches \cup {NoFlight}]
  BY DEF Init
<1>7. circuit \in [Providers -> Keys \cup {Nobody}] /\ cell \in CellsOK
  BY CatalogueType DEF Init, CellsOK, ClosedCell
<1>8. \A r \in Requests : RequestOK(request[r])
  BY <1>3 DEF RequestOK
<1>9. TypeInv
  BY <1>1, <1>2, <1>5, <1>6, <1>7, <1>8, CatalogueType DEF TypeInv, Init, Times
<1>10. guard.active = 0
  BY DEF Init, NewGuard
<1> QED BY <1>4, <1>5, <1>9, <1>10, FS_EmptySet
        DEF Inv, Leases, ClosedIsQuiet, NobodyWaitsInVain

LEMMA Arguments ==
  ASSUME TypeInv, NEW r \in Requests
  PROVE  Kept(guard) /\ ClientOf[r] \in Clients /\ now \in Nat /\ now \in Int
BY CatalogueType DEF TypeInv, Times

\* A request takes a lease exactly if it has to wait.
LEMMA RequestLeases ==
  ASSUME Inv, NEW r \in Requests, request[r].pc = "idle",
         NEW h \in Enter(guard, ClientOf[r], now).guards,
         Enter(guard, ClientOf[r], now).allowed,
         NEW q, RequestOK(q), request' = [request EXCEPT ![r] = q],
         guard' = IF q.pc = "waiting" THEN h ELSE Release(h, 1)
  PROVE  Kept(guard') /\ Leases'
<1>1. Kept(guard) /\ ClientOf[r] \in Clients /\ now \in Nat
  BY Arguments DEF Inv
<1>2. Kept(h) /\ h.active = guard.active + 1
  BY <1>1, EnterKept
<1>3. IsFiniteSet(Waiting) /\ guard.active = Cardinality(Waiting) /\ guard.active \in Nat
  BY GuardType, <1>1 DEF Inv, Leases, Kept, GuardOK
<1>4. r \notin Waiting /\ Waiting' = IF q.pc = "waiting" THEN Waiting \cup {r} ELSE Waiting
  BY OneRequest DEF Inv
<1>5. CASE q.pc = "waiting"
  <2>1. IsFiniteSet(Waiting \cup {r}) /\ Cardinality(Waiting \cup {r}) = Cardinality(Waiting) + 1
    BY <1>3, <1>4, FS_AddElement
  <2> QED BY <1>2, <1>3, <1>4, <1>5, <2>1 DEF Leases
<1>6. CASE q.pc # "waiting"
  <2>1. Kept(Release(h, 1)) /\ Release(h, 1).active = h.active - 1
    BY <1>2, <1>3, ReleaseKept
  <2> QED BY <1>2, <1>3, <1>4, <1>6, <2>1 DEF Leases
<1> QED BY <1>5, <1>6

LEMMA RefuseInv ==
  ASSUME Inv, phase = "up", NEW r \in Requests, request[r].pc = "idle",
         Refuse(r, Enter(guard, ClientOf[r], now)),
         UNCHANGED <<now, enabled, phase>>
  PROVE  Inv'
<1> DEFINE entry == Enter(guard, ClientOf[r], now)
           q == [pc |-> "refused", reason |-> entry.reason, retryAt |-> entry.retryAt,
                 before |-> Admitted]
<1>1. Kept(guard) /\ ClientOf[r] \in Clients /\ now \in Nat
  BY Arguments DEF Inv
<1>2. PICK h \in entry.guards : guard' = h
  BY DEF Refuse
<1>3. /\ Kept(h) /\ ~entry.allowed /\ h.active = guard.active
      /\ entry.reason \in {"none", "concurrency", "client", "global"}
  BY <1>1, EnterKept DEF Refuse
<1>4. entry.retryAt \in Int
  <2>1. ClientWindow(guard, ClientOf[r], now).start \in Int /\ Window \in Int
    BY <1>1, WindowType, GuardType DEF Counter
  <2> QED BY <1>1, <2>1 DEF Enter
<1>5. RequestOK(q)
  BY <1>3, <1>4 DEF RequestOK, Refusals, Admitted
<1>6. request' = [request EXCEPT ![r] = q]
  BY DEF Refuse
<1>7. q.pc = "refused"
  OBVIOUS
<1> HIDE DEF q, entry
<1>8. /\ DOMAIN request' = Requests /\ \A o \in Requests : RequestOK(request'[o])
      /\ \A o \in Requests : request'[o] = IF o = r THEN q ELSE request[o]
      /\ Waiting' = Waiting
  BY <1>5, <1>6, <1>7, OneRequest DEF Inv
<1>9. UNCHANGED <<cache, flight, circuit, cell>>
  BY DEF Refuse, service
<1>10. TypeInv'
  BY <1>2, <1>3, <1>8, <1>9 DEF Inv, TypeInv
<1>11. Leases'
  BY <1>2, <1>3, <1>8 DEF Inv, Leases
<1>12. NobodyWaitsInVain'
  BY <1>7, <1>8, <1>9 DEF Inv, NobodyWaitsInVain, Waiting
<1> QED BY <1>9, <1>10, <1>11, <1>12 DEF Inv, ClosedIsQuiet

\* Reading the cache only drops rows.
LEMMA ReadKept ==
  ASSUME TypeInv, NEW keys, Read(keys)
  PROVE  RowsOK(cache')
BY DEF TypeInv, Read, Restrict, RowsOK

LEMMA MissingInv ==
  ASSUME Inv, phase = "up", NEW r \in Requests, request[r].pc = "idle", NEW keys,
         Missing(r, Enter(guard, ClientOf[r], now), keys),
         UNCHANGED <<now, enabled, phase>>
  PROVE  Inv'
<1> DEFINE q == [pc |-> "done", at |-> now]
<1>1. RequestOK(q) /\ q.pc = "done"
  BY DEF Inv, TypeInv, RequestOK
<1>2. request' = [request EXCEPT ![r] = q]
  BY DEF Missing
<1> HIDE DEF q
<1>3. /\ DOMAIN request' = Requests /\ \A o \in Requests : RequestOK(request'[o])
      /\ \A o \in Requests : request'[o] = IF o = r THEN q ELSE request[o]
      /\ Waiting' = Waiting
  BY <1>1, <1>2, OneRequest DEF Inv
<1>4. Kept(guard') /\ Leases'
  <2>1. PICK h \in Enter(guard, ClientOf[r], now).guards : guard' = Release(h, 1)
    BY DEF Missing
  <2>2. Enter(guard, ClientOf[r], now).allowed
    BY DEF Missing
  <2> QED BY <1>1, <1>2, <2>1, <2>2, RequestLeases
<1>5. RowsOK(cache')
  BY ReadKept DEF Inv, Missing
<1>6. UNCHANGED <<flight, circuit, cell>>
  BY DEF Missing
<1>7. TypeInv'
  BY <1>3, <1>4, <1>5, <1>6 DEF Inv, TypeInv
<1>8. NobodyWaitsInVain'
  BY <1>1, <1>3, <1>6 DEF Inv, NobodyWaitsInVain, Waiting
<1> QED BY <1>4, <1>6, <1>7, <1>8 DEF Inv, ClosedIsQuiet

\* What a request asks for is a set of keys.
LEMMA AskedKeys ==
  ASSUME NEW r \in Requests, NEW keys \in Asking[r]
  PROVE  keys \subseteq Keys
BY CatalogueType DEF Keys

LEMMA AskInv ==
  ASSUME Inv, phase = "up", NEW r \in Requests, request[r].pc = "idle",
         NEW keys \in Asking[r],
         Ask(r, Enter(guard, ClientOf[r], now), keys),
         UNCHANGED <<now, enabled, phase>>
  PROVE  Inv'
<1> DEFINE ids(k) == IF k \in Cards THEN Row(k).ids ELSE {}
           stale == {k \in keys : ~IsFresh(k)}
           begun == {k \in stale : flight[k] = NoFlight /\ NextProvider(k, ids(k), 1) # 0}
           calls == [k \in begun |-> NextProvider(k, ids(k), 1)]
           ready == {k \in keys : IsFresh(k) \/ (flight[k] = NoFlight /\ k \notin begun)}
           got == [k \in ready |-> Fallback(k)]
           asked == [pc |-> "waiting", at |-> now, keys |-> keys, got |-> got]
           fetch(k) == [provider |-> calls[k], cell |-> CellFor(k, calls[k]),
                        begun |-> now, at |-> now, ids |-> ids(k),
                        fallback |-> Fallback(k), empty |-> NoSource]
           q == IF Over(keys, got) THEN Finished(asked) ELSE asked
           entry == Enter(guard, ClientOf[r], now)
<1>1. TypeInv /\ now \in Times /\ keys \subseteq Keys /\ begun \subseteq keys
      /\ ready \subseteq keys
  BY AskedKeys DEF Inv, TypeInv
<1>2. \A k \in keys : ids(k) \in SUBSET Providers
  <2> SUFFICES ASSUME NEW k \in keys PROVE ids(k) \in SUBSET Providers
    OBVIOUS
  <2>1. k \in Cards => Cached(k)
    BY DEF Ask
  <2>2. k \in Cards => Row(k) \in Entries
    BY <1>1, <2>1, CachedRow
  <2> QED BY <2>2 DEF Entries
<1>3. \A k \in begun : /\ calls[k] \in enabled /\ calls[k] \in Providers
                       /\ fetch(k) \in Fetches /\ fetch(k).provider = calls[k]
  <2> SUFFICES ASSUME NEW k \in begun
               PROVE  /\ calls[k] \in enabled /\ calls[k] \in Providers
                      /\ fetch(k) \in Fetches /\ fetch(k).provider = calls[k]
    OBVIOUS
  <2>1. calls[k] = NextProvider(k, ids(k), 1) /\ calls[k] # 0
    OBVIOUS
  <2>2. calls[k] \in enabled /\ calls[k] \in Providers
    BY <1>1, <2>1, NextProviderType
  <2>3. k \in Keys /\ ids(k) \in SUBSET Providers /\ Fallback(k) \in Sources
    BY <1>1, <1>2, CachedRow
  <2>4. CellFor(k, calls[k]) \in Keys
    BY <1>1, <2>2, <2>3 DEF CellFor, TypeInv
  <2> HIDE DEF calls, ids
  <2> QED BY <1>1, <2>2, <2>3, <2>4 DEF Fetches, Sources
<1>4. flight' = [k \in Keys |-> IF k \in begun THEN fetch(k) ELSE flight[k]]
  BY DEF Ask
<1>5. cell' \in CellsOK /\ UNCHANGED circuit
  BY <1>1, CellsAtCallType DEF Ask
<1>6. RowsOK(cache')
  BY <1>1, ReadKept DEF Ask
<1>7. got \in [ready -> Sources]
  BY <1>1, CachedRow
<1>8. RequestOK(q) /\ (q.pc = "waiting" <=> keys # ready)
      /\ (q.pc = "waiting" => q = asked)
  <2>1. keys = ready => q = [pc |-> "done", at |-> now]
    BY DEF Over, Finished
  <2>2. keys # ready => q = asked
    BY DEF Over
  <2>3. CASE keys = ready
    BY <1>1, <2>1, <2>3 DEF RequestOK
  <2>4. CASE keys # ready
    <3> HIDE DEF ready, got
    <3>1. IsWait([pc |-> "waiting", at |-> now, keys |-> keys, got |-> got])
      BY <1>1, <1>7, <2>4 DEF IsWait
    <3> QED BY <2>2, <2>4, <3>1 DEF RequestOK
  <2> QED BY <2>3, <2>4
<1>9. request' = [request EXCEPT ![r] = q]
  BY DEF Ask
<1>10. /\ entry.allowed
       /\ \E h \in entry.guards : guard' = IF q.pc = "waiting" THEN h ELSE Release(h, 1)
  BY <1>8 DEF Ask, Over
<1> HIDE DEF q, fetch, begun, got, entry, calls
<1>11. /\ DOMAIN request' = Requests /\ \A o \in Requests : RequestOK(request'[o])
       /\ \A o \in Requests : request'[o] = IF o = r THEN q ELSE request[o]
  BY <1>1, <1>8, <1>9, OneRequest
<1>12. Kept(guard') /\ Leases'
  <2>1. PICK h \in entry.guards :
          guard' = IF q.pc = "waiting" THEN h ELSE Release(h, 1)
    BY <1>10
  <2> QED BY <1>8, <1>9, <1>10, <2>1, RequestLeases DEF entry
<1>13. TypeInv'
  <2>1. flight' \in [Keys -> Fetches \cup {NoFlight}]
    BY <1>1, <1>3, <1>4 DEF TypeInv
  <2>2. \A k \in Keys : flight'[k] = NoFlight \/ flight'[k].provider \in enabled'
    BY <1>1, <1>3, <1>4 DEF TypeInv
  <2> QED BY <1>1, <1>5, <1>6, <1>11, <1>12, <2>1, <2>2 DEF TypeInv
<1>14. \A k \in Keys : flight[k] # NoFlight \/ k \in begun => flight'[k] # NoFlight
  <2>1. 0 \notin Providers
    BY DEF Providers
  <2> QED BY <1>1, <1>3, <1>4, <2>1 DEF Fetches, NoFlight
<1>15. NobodyWaitsInVain'
  <2> SUFFICES ASSUME NEW o \in Waiting',
                      NEW k \in request'[o].keys \ DOMAIN request'[o].got
               PROVE  phase' = "up" /\ flight'[k] # NoFlight
    BY DEF NobodyWaitsInVain
  <2>1. CASE o = r
    <3>1. request'[o] = asked
      BY <1>8, <1>11, <2>1 DEF Waiting
    <3>2. k \in keys \ ready
      BY <3>1 DEF got
    <3> QED BY <1>1, <1>14, <3>2
  <2>2. CASE o # r
    <3>1. request'[o] = request[o] /\ o \in Waiting
      BY <1>11, <2>2 DEF Waiting
    <3>2. flight[k] # NoFlight
      BY <3>1 DEF Inv, NobodyWaitsInVain
    <3>3. k \in Keys
      <4>1. RequestOK(request[o]) /\ request[o].pc = "waiting"
        BY <1>1, <3>1 DEF TypeInv, Waiting
      <4>2. IsWait(request[o])
        BY <4>1 DEF RequestOK, Refusals
      <4> QED BY <3>1, <4>2 DEF IsWait
    <3> QED BY <1>14, <3>2, <3>3
  <2> QED BY <2>1, <2>2
<1>16. ClosedIsQuiet'
  BY DEF ClosedIsQuiet
<1> QED BY <1>12, <1>13, <1>15, <1>16 DEF Inv

\* What a request waits for are keys, at a time, with what it has got so far.
LEMMA WaitType ==
  ASSUME TypeInv, NEW r \in Waiting
  PROVE  /\ r \in Requests /\ IsWait(request[r])
         /\ request[r].keys \subseteq Keys /\ request[r].at \in Times
         /\ request[r].got \in [DOMAIN request[r].got -> Sources]
         /\ DOMAIN request[r].got \subseteq request[r].keys
         /\ request[r] = [pc |-> "waiting", at |-> request[r].at,
                          keys |-> request[r].keys, got |-> request[r].got]
<1>1. RequestOK(request[r]) /\ request[r].pc = "waiting" /\ r \in Requests
  BY DEF TypeInv, Waiting
<1>2. IsWait(request[r])
  BY <1>1 DEF RequestOK, Refusals
<1>3. PICK at \in Times, keys \in SUBSET Keys : \E d \in SUBSET keys :
        \E f \in [d -> Sources] :
          request[r] = [pc |-> "waiting", at |-> at, keys |-> keys, got |-> f]
  BY <1>2 DEF IsWait
<1>4. PICK d \in SUBSET keys : \E f \in [d -> Sources] :
        request[r] = [pc |-> "waiting", at |-> at, keys |-> keys, got |-> f]
  BY <1>3
<1>5. PICK f \in [d -> Sources] :
        request[r] = [pc |-> "waiting", at |-> at, keys |-> keys, got |-> f]
  BY <1>4
<1>6. request[r].at = at /\ request[r].keys = keys /\ request[r].got = f
  BY <1>5
<1> QED BY <1>1, <1>2, <1>5, <1>6

\* Who waits for a fetch, what they have with its result, and whose answer that completes.
Joined(k) == {r \in Requests : Awaits(r, k)}

GotWith(k, result) ==
  [r \in Joined(k) |->
     [x \in DOMAIN request[r].got \cup {k} |->
        IF x = k THEN result ELSE request[r].got[x]]]

Completed(k, result) == {r \in Joined(k) : Over(request[r].keys, GotWith(k, result)[r])}

\* What the end of a fetch does to the requests.
LEMMA SettleRequests ==
  ASSUME TypeInv, NEW k \in Keys, NEW result \in Sources, NEW rows, Settle(k, result, rows)
  PROVE  LET waiting == Joined(k)
             got == GotWith(k, result)
             over == Completed(k, result)
         IN  /\ flight' = [flight EXCEPT ![k] = NoFlight] /\ cache' = rows
             /\ guard' = Release(guard, Cardinality(over))
             /\ answered' = {Answer(r, request[r].keys, got[r]) : r \in over}
             /\ DOMAIN request' = Requests
             /\ over \subseteq waiting /\ waiting \subseteq Waiting
             /\ \A r \in Waiting \ waiting : k \notin request[r].keys \ DOMAIN request[r].got
             /\ \A r \in waiting :
                  /\ request[r].at \in Times /\ request[r].keys \subseteq Keys
                  /\ got[r] \in [DOMAIN request[r].got \cup {k} -> Sources]
                  /\ DOMAIN request[r].got \cup {k} \subseteq request[r].keys
                  /\ got[r][k] = result
             /\ \A r \in Requests :
                  request'[r] = IF r \in over THEN [pc |-> "done", at |-> request[r].at]
                                ELSE IF r \in waiting
                                THEN [pc |-> "waiting", at |-> request[r].at,
                                      keys |-> request[r].keys, got |-> got[r]]
                                ELSE request[r]
             /\ \A r \in over : request[r].keys = DOMAIN got[r]
             /\ \A r \in waiting \ over : request[r].keys # DOMAIN got[r]
<1> DEFINE waiting == Joined(k)
           got == GotWith(k, result)
           over == Completed(k, result)
<1>1. /\ flight' = [flight EXCEPT ![k] = NoFlight] /\ cache' = rows
      /\ request' = [r \in Requests |->
           IF r \in over THEN Finished(request[r])
           ELSE IF r \in waiting THEN [request[r] EXCEPT !.got = got[r]]
           ELSE request[r]]
      /\ guard' = Release(guard, Cardinality(over))
      /\ answered' = {Answer(r, request[r].keys, got[r]) : r \in over}
  BY DEF Settle, Joined, GotWith, Completed
<1>2. over \subseteq waiting /\ waiting \subseteq Waiting
      /\ \A r \in Waiting \ waiting : k \notin request[r].keys \ DOMAIN request[r].got
  BY DEF Awaits, Waiting, Joined, Completed
<1>3. \A r \in waiting :
        /\ request[r].at \in Times /\ request[r].keys \subseteq Keys
        /\ got[r] \in [DOMAIN request[r].got \cup {k} -> Sources]
        /\ DOMAIN request[r].got \cup {k} \subseteq request[r].keys
        /\ got[r][k] = result
        /\ [request[r] EXCEPT !.got = got[r]]
             = [pc |-> "waiting", at |-> request[r].at, keys |-> request[r].keys,
                got |-> got[r]]
  <2> SUFFICES ASSUME NEW r \in waiting
               PROVE  /\ request[r].at \in Times /\ request[r].keys \subseteq Keys
                      /\ got[r] \in [DOMAIN request[r].got \cup {k} -> Sources]
                      /\ DOMAIN request[r].got \cup {k} \subseteq request[r].keys
                      /\ got[r][k] = result
                      /\ [request[r] EXCEPT !.got = got[r]]
                           = [pc |-> "waiting", at |-> request[r].at,
                              keys |-> request[r].keys, got |-> got[r]]
    OBVIOUS
  <2>1. /\ request[r].keys \subseteq Keys /\ request[r].at \in Times
        /\ request[r].got \in [DOMAIN request[r].got -> Sources]
        /\ DOMAIN request[r].got \subseteq request[r].keys
        /\ request[r] = [pc |-> "waiting", at |-> request[r].at,
                         keys |-> request[r].keys, got |-> request[r].got]
    BY <1>2, WaitType
  <2>2. k \in request[r].keys
    BY DEF Awaits, Joined
  <2>3. got[r] = [x \in DOMAIN request[r].got \cup {k} |->
                    IF x = k THEN result ELSE request[r].got[x]]
    BY DEF GotWith
  <2>4. got[r] \in [DOMAIN request[r].got \cup {k} -> Sources] /\ got[r][k] = result
    BY <2>1, <2>3
  <2>5. \A a, b, c, d : [[pc |-> "waiting", at |-> a, keys |-> b, got |-> c]
                           EXCEPT !.got = d]
                          = [pc |-> "waiting", at |-> a, keys |-> b, got |-> d]
    OBVIOUS
  <2>6. [request[r] EXCEPT !.got = got[r]]
          = [pc |-> "waiting", at |-> request[r].at, keys |-> request[r].keys,
             got |-> got[r]]
    BY <2>1, <2>5
  <2> QED BY <2>1, <2>2, <2>4, <2>6
<1>4. \A r \in Requests :
        request'[r] = IF r \in over THEN [pc |-> "done", at |-> request[r].at]
                      ELSE IF r \in waiting
                      THEN [pc |-> "waiting", at |-> request[r].at,
                            keys |-> request[r].keys, got |-> got[r]]
                      ELSE request[r]
  BY <1>1, <1>3 DEF Finished
<1>5. /\ \A r \in over : request[r].keys = DOMAIN got[r]
      /\ \A r \in waiting \ over : request[r].keys # DOMAIN got[r]
  BY DEF Over, Completed
<1>6. DOMAIN request' = Requests
  BY <1>1
<1> QED BY <1>1, <1>2, <1>3, <1>4, <1>5, <1>6

\* Who still waits afterwards waits as before, and for something else.
LEMMA StillWaiting ==
  ASSUME TypeInv, NEW k \in Keys, NEW result \in Sources, NEW rows, Settle(k, result, rows),
         NEW r \in Waiting'
  PROVE  /\ r \in Waiting \ Completed(k, result)
         /\ request'[r].at = request[r].at /\ request'[r].keys = request[r].keys
         /\ \A x \in request'[r].keys \ DOMAIN request'[r].got :
              x \in request[r].keys \ DOMAIN request[r].got /\ x # k
<1> DEFINE waiting == Joined(k)
           got == GotWith(k, result)
           over == Completed(k, result)
<1>1. r \in Requests /\ request'[r].pc = "waiting"
  BY DEF Waiting
<1>2. r \notin over
  <2> SUFFICES ASSUME r \in over PROVE FALSE
    OBVIOUS
  <2>1. request'[r] = [pc |-> "done", at |-> request[r].at]
    BY <1>1, SettleRequests
  <2> QED BY <1>1, <2>1
<1>3. CASE r \in waiting
  <2>1. /\ request'[r] = [pc |-> "waiting", at |-> request[r].at,
                          keys |-> request[r].keys, got |-> got[r]]
        /\ got[r] \in [DOMAIN request[r].got \cup {k} -> Sources]
        /\ r \in Waiting
    BY <1>1, <1>2, <1>3, SettleRequests
  <2>2. /\ request'[r].at = request[r].at /\ request'[r].keys = request[r].keys
        /\ request'[r].got = got[r]
    BY ONLY <2>1
  <2> QED BY <1>2, <2>1, <2>2
<1>4. CASE r \notin waiting
  <2>1. request'[r] = request[r]
    BY <1>1, <1>2, <1>4, SettleRequests
  <2>2. r \in Waiting
    BY <1>1, <2>1 DEF Waiting
  <2>3. k \notin request[r].keys \ DOMAIN request[r].got
    BY <1>4, <2>2, SettleRequests
  <2> QED BY <1>2, <2>1, <2>2, <2>3
<1> QED BY <1>3, <1>4

\* A fetch that ends leaves nobody behind, and its leases are given back.
LEMMA SettleInv ==
  ASSUME Inv, NEW k \in Keys, flight[k] # NoFlight, NEW result \in Sources,
         NEW rows, RowsOK(rows), Settle(k, result, rows),
         circuit' \in [Providers -> Keys \cup {Nobody}], cell' \in CellsOK,
         UNCHANGED <<now, enabled, phase>>
  PROVE  Inv'
<1> DEFINE waiting == Joined(k)
           got == GotWith(k, result)
           over == Completed(k, result)
<1>1. TypeInv
  BY DEF Inv
<1>2. /\ flight' = [flight EXCEPT ![k] = NoFlight] /\ cache' = rows
      /\ guard' = Release(guard, Cardinality(over))
      /\ DOMAIN request' = Requests
  BY <1>1, SettleRequests
<1>3. over \subseteq waiting /\ waiting \subseteq Waiting
  BY <1>1, SettleRequests
<1>4. \A r \in waiting :
        /\ request[r].at \in Times /\ request[r].keys \subseteq Keys
        /\ got[r] \in [DOMAIN request[r].got \cup {k} -> Sources]
        /\ DOMAIN request[r].got \cup {k} \subseteq request[r].keys
  BY <1>1, SettleRequests
<1>5. \A r \in Requests :
        request'[r] = IF r \in over THEN [pc |-> "done", at |-> request[r].at]
                      ELSE IF r \in waiting
                      THEN [pc |-> "waiting", at |-> request[r].at,
                            keys |-> request[r].keys, got |-> got[r]]
                      ELSE request[r]
  BY <1>1, SettleRequests
<1>6. \A r \in waiting \ over : request[r].keys # DOMAIN got[r]
  BY <1>1, SettleRequests
<1> HIDE DEF got, over, waiting
<1>7. \A r \in Requests : RequestOK(request'[r])
  <2> SUFFICES ASSUME NEW r \in Requests PROVE RequestOK(request'[r])
    OBVIOUS
  <2>1. CASE r \in over
    <3>1. request[r].at \in Times
      BY <1>3, <1>4, <2>1
    <3>2. request'[r] = [pc |-> "done", at |-> request[r].at]
      BY <1>5, <2>1
    <3>3. [pc |-> "done", at |-> request[r].at] \in [pc : {"done"}, at : Times]
      BY <3>1
    <3> QED BY <3>2, <3>3 DEF RequestOK
  <2>2. CASE r \in waiting \ over
    <3>1. /\ request[r].at \in Times /\ request[r].keys \subseteq Keys
          /\ got[r] \in [DOMAIN request[r].got \cup {k} -> Sources]
          /\ DOMAIN request[r].got \cup {k} \subseteq request[r].keys
          /\ DOMAIN request[r].got \cup {k} # request[r].keys
      BY <1>4, <1>6, <2>2
    <3>2. IsWait(request'[r])
      BY <1>5, <2>2, <3>1 DEF IsWait
    <3> QED BY <3>2 DEF RequestOK
  <2>3. CASE r \notin waiting
    BY <1>1, <1>3, <1>5, <2>3 DEF TypeInv
  <2> QED BY <2>1, <2>2, <2>3
<1>8. Waiting' = Waiting \ over
  <2>1. Waiting \subseteq Requests
    BY DEF Waiting
  <2>2. \A r \in over : request'[r].pc = "done"
    <3> SUFFICES ASSUME NEW r \in over PROVE request'[r].pc = "done"
      OBVIOUS
    <3>1. request'[r] = [pc |-> "done", at |-> request[r].at]
      BY ONLY <1>3, <1>5, <2>1, r \in over
    <3> QED BY ONLY <3>1
  <2>3. \A r \in waiting \ over : request'[r].pc = "waiting"
    <3> SUFFICES ASSUME NEW r \in waiting \ over PROVE request'[r].pc = "waiting"
      OBVIOUS
    <3>1. request'[r] = [pc |-> "waiting", at |-> request[r].at,
                         keys |-> request[r].keys, got |-> got[r]]
      BY ONLY <1>3, <1>5, <2>1, r \in waiting \ over
    <3> QED BY ONLY <3>1
  <2>4. \A r \in Requests \ waiting : request'[r] = request[r]
    BY <1>3, <1>5
  <2> QED BY <1>3, <2>2, <2>3, <2>4 DEF Waiting
<1>9. /\ IsFiniteSet(Waiting) /\ guard.active = Cardinality(Waiting)
      /\ guard.active \in Nat
  BY <1>1, GuardType DEF Inv, Leases, TypeInv, Kept, GuardOK
<1>10. /\ IsFiniteSet(Waiting \ over) /\ Cardinality(over) \in Nat
       /\ Cardinality(over) <= guard.active
       /\ Cardinality(Waiting \ over) = guard.active - Cardinality(over)
  <2>1. IsFiniteSet(over) /\ Cardinality(over) <= Cardinality(Waiting)
    BY <1>3, <1>9, FS_Subset
  <2>2. Waiting \cap over = over
    BY <1>3
  <2>3. /\ IsFiniteSet(Waiting \ over)
        /\ Cardinality(Waiting \ over) = Cardinality(Waiting) - Cardinality(Waiting \cap over)
    BY <1>9, FS_Difference
  <2> QED BY <1>9, <2>1, <2>2, <2>3, FS_CardinalityType
<1>11. Kept(guard') /\ Leases'
  <2>1. Kept(guard)
    BY <1>1 DEF TypeInv
  <2>2. Kept(guard') /\ guard'.active = guard.active - Cardinality(over)
    BY <1>2, <1>10, <2>1, ReleaseKept
  <2> QED BY <1>8, <1>10, <2>2 DEF Leases
<1>12. /\ flight' \in [Keys -> Fetches \cup {NoFlight}]
       /\ \A x \in Keys : flight'[x] = IF x = k THEN NoFlight ELSE flight[x]
  BY <1>1, <1>2 DEF TypeInv
<1>13. TypeInv'
  <2>1. DOMAIN request' = Requests
    BY <1>2
  <2> QED BY <1>1, <1>2, <1>7, <1>11, <1>12, <2>1 DEF TypeInv
<1>14. phase = "up"
  BY <1>1 DEF Inv, ClosedIsQuiet, TypeInv
<1>15. NobodyWaitsInVain'
  <2> SUFFICES ASSUME NEW r \in Waiting',
                      NEW x \in request'[r].keys \ DOMAIN request'[r].got
               PROVE  phase' = "up" /\ flight'[x] # NoFlight
    BY DEF NobodyWaitsInVain
  <2>1. /\ r \in Waiting /\ x \in request[r].keys \ DOMAIN request[r].got /\ x # k
    BY <1>1, StillWaiting
  <2>2. x \in Keys
    BY <1>1, <2>1, WaitType
  <2>3. flight[x] # NoFlight
    BY <2>1 DEF Inv, NobodyWaitsInVain
  <2> QED BY <1>12, <1>14, <2>1, <2>2, <2>3
<1> QED BY <1>11, <1>13, <1>14, <1>15 DEF Inv, ClosedIsQuiet

\* The circuits after an answer are circuits.
LEMMA CircuitsAfterAnswer ==
  ASSUME TypeInv, NEW k \in Keys, flight[k] \in Fetches, NEW outcome,
         ProviderAnswers(k, outcome)
  PROVE  circuit' \in [Providers -> Keys \cup {Nobody}] /\ cell' \in CellsOK
<1> DEFINE f == flight[k]
           p == f.provider
           next == IF outcome = "cards" THEN 0 ELSE NextProvider(k, f.ids, p + 1)
           called == CellsAtCall(IF next = 0 THEN <<>> ELSE [x \in {k} |-> next])
           held == {flight[o].cell : o \in {x \in Keys \ {k} : flight[x].provider = p}}
           answered_p == [c \in Keys |->
             IF c = f.cell THEN AfterCall(cell[p][c], outcome, f.begun)
             ELSE IF c \in held THEN cell[p][c] ELSE ClosedCell]
           Cell == [failures : Nat, until : 0..(MaxTime + Cooldown)]
<1>1. p \in Providers /\ f.cell \in Keys /\ f.begun \in Times
  BY DEF Fetches
<1>2. circuit' = [circuit EXCEPT ![p] = f.cell] /\ cell' = [called EXCEPT ![p] = answered_p]
  BY DEF ProviderAnswers
<1>3. called \in CellsOK
  BY CellsAtCallType
<1>4. \A c \in Keys : cell[p][c] \in Cell
  BY <1>1 DEF TypeInv, CellsOK
<1>5. \A c \in Keys : AfterCall(cell[p][c], outcome, f.begun) \in Cell
  BY <1>1, <1>4, AfterCallType
<1>6. ClosedCell \in Cell
  BY CatalogueType DEF ClosedCell
<1>7. answered_p \in [Keys -> Cell]
  <2> HIDE DEF held, Cell
  <2> QED BY <1>4, <1>5, <1>6
<1>8. cell' \in CellsOK
  <2> HIDE DEF answered_p, called
  <2> QED BY <1>1, <1>2, <1>3, <1>7 DEF CellsOK
<1>9. circuit' \in [Providers -> Keys \cup {Nobody}]
  BY <1>1, <1>2 DEF TypeInv
<1> QED BY <1>8, <1>9

\* A fetch once it has called a provider through a cell.
Moved(f, p, c, time, empty) ==
  [f EXCEPT !.provider = p, !.cell = c, !.begun = time, !.empty = empty]

LEMMA FetchMoves ==
  ASSUME NEW f \in Fetches, NEW p \in Providers, NEW c \in Keys, NEW time \in Times,
         NEW empty \in Sources
  PROVE  LET moved == Moved(f, p, c, time, empty)
         IN  /\ moved \in Fetches /\ moved.provider = p /\ moved.cell = c
             /\ moved.begun = time /\ moved.empty = empty
             /\ moved.at = f.at /\ moved.ids = f.ids /\ moved.fallback = f.fallback
<1> DEFINE a == [f EXCEPT !.provider = p]
           b == [a EXCEPT !.cell = c]
           d == [b EXCEPT !.begun = time]
           e == [d EXCEPT !.empty = empty]
<1>1. /\ a \in Fetches /\ a.provider = p /\ a.at = f.at /\ a.ids = f.ids
      /\ a.fallback = f.fallback
  BY DEF Fetches
<1> HIDE DEF a
<1>2. /\ b \in Fetches /\ b.provider = p /\ b.cell = c /\ b.at = f.at /\ b.ids = f.ids
      /\ b.fallback = f.fallback
  BY <1>1 DEF Fetches
<1> HIDE DEF b
<1>3. /\ d \in Fetches /\ d.provider = p /\ d.cell = c /\ d.begun = time
      /\ d.at = f.at /\ d.ids = f.ids /\ d.fallback = f.fallback
  BY <1>2 DEF Fetches
<1> HIDE DEF d
<1>4. /\ e \in Fetches /\ e.provider = p /\ e.cell = c /\ e.begun = time
      /\ e.empty = empty
      /\ e.at = f.at /\ e.ids = f.ids /\ e.fallback = f.fallback
  BY <1>3 DEF Fetches
<1>5. Moved(f, p, c, time, empty) = e
  BY DEF a, b, d, Moved
<1> QED BY <1>4, <1>5

\* An answer that ends no fetch moves it on to the next provider.
LEMMA MoveOnInv ==
  ASSUME Inv, NEW k \in Keys, flight[k] \in Fetches, NEW next \in Providers,
         next \in enabled, NEW empty \in Sources,
         flight' = [flight EXCEPT
           ![k] = Moved(flight[k], next, CellFor(k, next), now, empty)],
         circuit' \in [Providers -> Keys \cup {Nobody}], cell' \in CellsOK,
         UNCHANGED <<now, enabled, phase, cache, request, guard>>
  PROVE  Inv'
<1> DEFINE f == flight[k]
           c == CellFor(k, next)
           moved == Moved(f, next, c, now, empty)
<1>1. f \in Fetches /\ c \in Keys /\ now \in Times
  BY DEF Inv, TypeInv, CellFor
<1>2. moved \in Fetches /\ moved.provider = next
  BY <1>1, FetchMoves
<1>3. \A x \in Keys : flight'[x] = IF x = k THEN moved ELSE flight[x]
  BY DEF Inv, TypeInv
<1>4. flight' \in [Keys -> Fetches \cup {NoFlight}]
  BY <1>2 DEF Inv, TypeInv
<1> HIDE DEF moved
<1>5. moved # NoFlight
  BY <1>2 DEF NoFlight, Providers
<1>6. TypeInv'
  BY <1>2, <1>3, <1>4 DEF Inv, TypeInv
<1>7. Waiting' = Waiting
  BY DEF Waiting
<1>8. flight[k] # NoFlight
  BY DEF Fetches, NoFlight, Providers
<1>9. NobodyWaitsInVain' /\ ClosedIsQuiet'
  <2>1. \A r \in Waiting : request[r].keys \subseteq Keys
    BY WaitType DEF Inv
  <2> QED BY <1>3, <1>5, <1>7, <1>8, <2>1 DEF Inv, NobodyWaitsInVain, ClosedIsQuiet
<1> QED BY <1>6, <1>7, <1>9 DEF Inv, Leases

\* How an answer ends: with its cards, with the empty list of some provider, with what the
\* cache had, or at the next provider.
LEMMA AnswerCases ==
  ASSUME TypeInv, NEW k \in Keys, flight[k] # NoFlight, NEW outcome,
         ProviderAnswers(k, outcome)
  PROVE  LET f == flight[k]
         IN  /\ f \in Fetches
             /\ UNCHANGED <<now, enabled, phase>>
             /\ \/ \E p \in Providers, found \in BOOLEAN :
                     Settle(k, p, Stored(k, p, found))
                \/ Settle(k, f.fallback, cache) /\ f.fallback \in Sources
                \/ \E next \in Providers, empty \in Sources :
                     /\ next \in enabled /\ ~IsOpen(next)
                     /\ flight' = [flight EXCEPT
                          ![k] = Moved(f, next, CellFor(k, next), now, empty)]
                     /\ answered' = {}
                     /\ UNCHANGED <<cache, request, guard>>
<1> DEFINE f == flight[k]
           p == f.provider
           empty == IF outcome = "empty" /\ f.empty = NoSource THEN p ELSE f.empty
           next == IF outcome = "cards" THEN 0 ELSE NextProvider(k, f.ids, p + 1)
<1>1. f \in Fetches
  BY DEF TypeInv
<1>2. /\ p \in Providers /\ p \in Sources /\ p + 1 \in Int /\ empty \in Sources
      /\ f.fallback \in Sources
  BY <1>1 DEF Fetches, Sources, Providers
<1>3. UNCHANGED <<now, enabled, phase>>
  BY DEF ProviderAnswers
<1>4. CASE Settle(k, p, Stored(k, p, TRUE))
  BY <1>1, <1>2, <1>3, <1>4
<1>5. CASE empty # NoSource /\ Settle(k, empty, Stored(k, empty, FALSE))
  <2>1. empty \in Providers
    BY <1>2, <1>5 DEF Sources
  <2> QED BY <1>1, <1>3, <1>5, <2>1
<1>6. CASE Settle(k, f.fallback, cache)
  BY <1>1, <1>2, <1>3, <1>6
<1>7. CASE /\ next # 0
           /\ flight' = [flight EXCEPT ![k] =
                [f EXCEPT !.provider = next, !.cell = CellFor(k, next), !.begun = now,
                          !.empty = empty]]
           /\ answered' = {}
           /\ UNCHANGED <<cache, request, guard>>
  <2>1. next \in Providers /\ next \in enabled /\ ~IsOpen(next)
    BY <1>2, <1>7, NextProviderType
  <2>2. flight' = [flight EXCEPT ![k] = Moved(f, next, CellFor(k, next), now, empty)]
    BY <1>7 DEF Moved
  <2> HIDE DEF next, empty
  <2> QED BY <1>1, <1>2, <1>3, <1>7, <2>1, <2>2
<1> QED BY <1>4, <1>5, <1>6, <1>7 DEF ProviderAnswers

LEMMA AnswersInv ==
  ASSUME Inv, NEW k \in Keys, flight[k] # NoFlight, NEW outcome, ProviderAnswers(k, outcome)
  PROVE  Inv'
<1> DEFINE f == flight[k]
<1>1. f \in Fetches /\ UNCHANGED <<now, enabled, phase>>
  BY AnswerCases DEF Inv
<1>2. circuit' \in [Providers -> Keys \cup {Nobody}] /\ cell' \in CellsOK
  BY <1>1, CircuitsAfterAnswer DEF Inv
<1>3. ASSUME NEW p \in Providers, NEW found \in BOOLEAN, Settle(k, p, Stored(k, p, found))
      PROVE  Inv'
  <2>1. p \in Sources /\ RowsOK(Stored(k, p, found))
    BY <1>1, StoredKept DEF Inv, Sources
  <2> QED BY <1>1, <1>2, <1>3, <2>1, SettleInv
<1>4. CASE Settle(k, f.fallback, cache) /\ f.fallback \in Sources
  BY <1>1, <1>2, <1>4, SettleInv DEF Inv, TypeInv
<1>5. ASSUME NEW next \in Providers, NEW empty \in Sources, next \in enabled,
             flight' = [flight EXCEPT
               ![k] = Moved(f, next, CellFor(k, next), now, empty)],
             UNCHANGED <<cache, request, guard>>
      PROVE  Inv'
  BY <1>1, <1>2, <1>5, MoveOnInv
<1> QED BY <1>3, <1>4, <1>5, AnswerCases DEF Inv

LEMMA SignalInv ==
  ASSUME Inv, Signal
  PROVE  Inv'
<1>1. Kept(guard') /\ guard'.active = 0
  <2>1. guard' = [active |-> 0, global |-> [start |-> 0, count |-> 0], clients |-> <<>>]
    BY DEF Signal, NewGuard
  <2>2. DOMAIN guard'.clients = {}
    BY <2>1
  <2>3. MaxConcurrent \in Nat /\ MaxTracked \in Nat
    BY GuardType
  <2> QED BY <2>1, <2>2, <2>3, FS_EmptySet DEF Kept, GuardOK, Total
<1>2. /\ \A r \in Requests : RequestOK(request'[r]) /\ request'[r].pc # "waiting"
      /\ DOMAIN request' = Requests
  <2>1. SUFFICES ASSUME NEW r \in Requests
                 PROVE  RequestOK(request'[r]) /\ request'[r].pc # "waiting"
    BY DEF Signal
  <2>2. CASE request[r].pc = "waiting"
    <3>1. request'[r] = [pc |-> "cut"]
      BY <2>2 DEF Signal
    <3> QED BY <3>1 DEF RequestOK
  <2>3. CASE request[r].pc # "waiting"
    <3>1. request'[r] = request[r]
      BY <2>3 DEF Signal
    <3> QED BY <2>3, <3>1 DEF Inv, TypeInv
  <2> QED BY <2>2, <2>3
<1>3. Waiting' = {}
  BY <1>2 DEF Waiting
<1>4. flight' = [k \in Keys |-> NoFlight]
  BY DEF Signal
<1>5. circuit' \in [Providers -> Keys \cup {Nobody}] /\ cell' \in CellsOK
  BY CatalogueType DEF Signal, CellsOK, ClosedCell
<1>6. TypeInv'
  BY <1>1, <1>2, <1>4, <1>5 DEF Signal, Inv, TypeInv
<1> QED BY <1>1, <1>3, <1>4, <1>6, FS_EmptySet
        DEF Inv, Leases, ClosedIsQuiet, NobodyWaitsInVain

LEMMA StepInv == Inv /\ [Next]_vars => Inv'
<1> SUFFICES ASSUME Inv, [Next]_vars PROVE Inv'
  OBVIOUS
<1>1. ASSUME NEW r \in Requests, NEW keys \in Asking[r], Request(r, keys)
      PROVE  Inv'
  <2>1. phase = "up" /\ request[r].pc = "idle" /\ UNCHANGED <<now, enabled, phase>>
    BY <1>1 DEF Request
  <2>2. CASE Refuse(r, Enter(guard, ClientOf[r], now))
    BY <2>1, <2>2, RefuseInv
  <2>3. CASE Missing(r, Enter(guard, ClientOf[r], now), keys)
    BY <2>1, <2>3, MissingInv
  <2>4. CASE Ask(r, Enter(guard, ClientOf[r], now), keys)
    BY <1>1, <2>1, <2>4, AskInv
  <2> QED BY <1>1, <2>2, <2>3, <2>4 DEF Request
<1>2. ASSUME NEW k \in Keys, Answers(k)
      PROVE  Inv'
  BY <1>2, AnswersInv DEF Answers
<1>3. CASE Tick
  <2>1. now' \in Times
    BY <1>3, CatalogueType DEF Tick, Inv, TypeInv, Times
  <2> QED BY <1>3, <2>1
        DEF Tick, Inv, TypeInv, Leases, ClosedIsQuiet, NobodyWaitsInVain, Waiting
<1>4. CASE Maintain
  <2>1. RowsOK(cache')
    BY <1>4, PruneKept DEF Maintain, Inv, TypeInv
  <2> QED BY <1>4, <2>1
        DEF Maintain, Inv, TypeInv, Leases, ClosedIsQuiet, NobodyWaitsInVain, Waiting
<1>5. CASE Signal
  BY <1>5, SignalInv
<1>6. CASE UNCHANGED vars
  BY <1>6 DEF vars, service, Inv, TypeInv, Leases, ClosedIsQuiet, NobodyWaitsInVain, Waiting
<1> QED BY <1>1, <1>2, <1>3, <1>4, <1>5, <1>6 DEF Next

\* Requests, flights, circuits and the guard agree after any sequence of steps:
\* whoever waits has a fetch that runs, and the guard counts those inside.
THEOREM Invariant == Spec => []Inv
BY InitInv, StepInv, PTL DEF Spec

\* The maps of the service, the rows of the cache, the guard and every request keep
\* their shape; the guard's count of leases in particular never leaves its range, for
\* every lease belongs to a request that waits (enter, release of the guard).
THEOREM TypeCorrect == Spec => []TypeOK
<1>1. Inv => TypeOK
  BY InvImpliesTypeOK DEF Inv
<1> QED BY <1>1, Invariant, PTL

\* Nobody waits for a fetch that is over (finally of search and getCard).
THEOREM NobodyForgotten == Spec => []NobodyWaitsInVain
<1>1. Inv => NobodyWaitsInVain
  BY DEF Inv
<1> QED BY <1>1, Invariant, PTL

-----------------------------------------------------------------------------
(* Retry-After.  The counter of a client that was refused either began early *)
(* enough to be over when the client comes back, or it counts only requests  *)
(* that were admitted since: the table may have dropped the client meanwhile *)
(* and started again.                                                       *)

Charged(c, before) == {o \in Admitted : ClientOf[o] = c /\ o \notin before}

Settled(c, retryAt, before) ==
  c \in DOMAIN guard.clients =>
    \/ guard.clients[c].start + Window <= retryAt
    \/ guard.clients[c].count <= Cardinality(Charged(c, before))

RetryInv ==
  /\ IsFiniteSet(Admitted)
  /\ \A r \in Requests : request[r].pc = "refused" =>
       /\ request[r].before \subseteq Requests
       /\ phase = "up" => request[r].before \subseteq Admitted
       /\ (phase = "up" /\ request[r].reason = "client")
            => Settled(ClientOf[r], request[r].retryAt, request[r].before)

LEMMA RefusalType ==
  ASSUME NEW q, RequestOK(q), q.pc = "refused"
  PROVE  q.retryAt \in Int
<1>1. ~IsWait(q)
  BY DEF IsWait
<1> QED BY <1>1 DEF RequestOK, Refusals

\* Nothing changes for those who were refused while nobody is counted.
LEMMA RetryUnchanged ==
  ASSUME RetryInv, Admitted' = Admitted, guard'.clients = guard.clients, UNCHANGED phase,
         \A r \in Requests : request'[r].pc = "refused" => request'[r] = request[r]
  PROVE  RetryInv'
<1>1. \A c, before : Charged(c, before)' = Charged(c, before)
  BY DEF Charged
<1>2. \A c, t, before : Settled(c, t, before) => Settled(c, t, before)'
  BY <1>1 DEF Settled
<1> QED BY <1>2 DEF RetryInv

\* A call of enter that counts the client counts it among those admitted since.
LEMMA SettledKept ==
  ASSUME IsFiniteSet(Admitted), Kept(guard), NEW c \in Clients, NEW r \in Requests,
         c = ClientOf[r], r \notin Admitted, now \in Nat,
         NEW h \in Enter(guard, c, now).guards, guard'.clients = h.clients,
         Admitted' = IF Enter(guard, c, now).allowed THEN Admitted \cup {r} ELSE Admitted,
         NEW d, NEW t \in Int, NEW before \in SUBSET Admitted, Settled(d, t, before)
  PROVE  Settled(d, t, before)'
<1> DEFINE entry == Enter(guard, c, now)
           window == ClientWindow(guard, c, now)
           charged == Charged(d, before)
<1>1. /\ \A k \in DOMAIN h.clients \ {c} :
           k \in DOMAIN guard.clients /\ h.clients[k] = guard.clients[k]
      /\ \/ h = guard /\ ~entry.allowed /\ entry.reason = "concurrency"
         \/ /\ c \in DOMAIN h.clients
            /\ h.clients[c].start = window.start
            /\ h.clients[c].count =
                 IF entry.allowed THEN window.count + 1 ELSE window.count
  BY EnterKept
<1>2. \/ window.count = 0
      \/ c \in DOMAIN guard.clients /\ window = guard.clients[c]
  BY DEF ClientWindow
<1>3. window.start \in Int /\ window.count \in Nat /\ Window \in Int
  BY WindowType, GuardType DEF Counter
<1>4. IsFiniteSet(charged) /\ Cardinality(charged) \in Nat
  <2>1. charged \subseteq Admitted
    BY DEF Charged
  <2> QED BY <2>1, FS_Subset, FS_CardinalityType
<1> HIDE DEF window
<1>5. CASE d # c
  <2>1. charged' = charged
    BY <1>5 DEF Charged
  <2> QED BY <1>1, <1>5, <2>1 DEF Settled
<1>6. CASE d = c /\ entry.allowed
  <2>1. charged' = charged \cup {r} /\ r \notin charged
    BY <1>6 DEF Charged
  <2>2. Cardinality(charged') = Cardinality(charged) + 1
    BY <1>4, <2>1, FS_AddElement
  <2>3. h.clients[c].start = window.start /\ h.clients[c].count = window.count + 1
    BY <1>1, <1>6
  <2>4. CASE window.count = 0
    <3>1. h.clients[c].count <= Cardinality(charged')
      BY <1>4, <2>2, <2>3, <2>4
    <3> QED BY <1>6, <3>1 DEF Settled
  <2>5. CASE c \in DOMAIN guard.clients /\ window = guard.clients[c]
    <3>1. window.start + Window <= t \/ window.count <= Cardinality(charged)
      BY <1>6, <2>5 DEF Settled
    <3>2. h.clients[c].start + Window <= t \/ h.clients[c].count <= Cardinality(charged')
      BY <1>3, <1>4, <2>2, <2>3, <3>1
    <3> QED BY <1>6, <3>2 DEF Settled
  <2> QED BY <1>2, <2>4, <2>5
<1>7. CASE d = c /\ ~entry.allowed
  <2>1. charged' = charged
    BY <1>7 DEF Charged
  <2>2. CASE h = guard
    BY <1>7, <2>1, <2>2 DEF Settled
  <2>3. CASE h.clients[c].start = window.start /\ h.clients[c].count = window.count
    <3>1. CASE window.count = 0
      <4>1. h.clients[c].count <= Cardinality(charged')
        BY <1>4, <2>1, <2>3, <3>1
      <4> QED BY <1>7, <4>1 DEF Settled
    <3>2. CASE c \in DOMAIN guard.clients /\ window = guard.clients[c]
      <4>1. window.start + Window <= t \/ window.count <= Cardinality(charged)
        BY <1>7, <3>2 DEF Settled
      <4> QED BY <1>7, <2>1, <2>3, <4>1 DEF Settled
    <3> QED BY <1>2, <3>1, <3>2
  <2> QED BY <1>1, <1>7, <2>2, <2>3
<1> QED BY <1>5, <1>6, <1>7, EnterKept

\* Who is refused is told when its window is over; who is admitted is counted, and is
\* one of those admitted since.
LEMMA RetryCounted ==
  ASSUME Inv, RetryInv, phase = "up", NEW r \in Requests, request[r].pc = "idle",
         NEW h \in Enter(guard, ClientOf[r], now).guards, NEW q,
         RequestOK(q), request' = [request EXCEPT ![r] = q],
         guard'.clients = h.clients, UNCHANGED phase,
         IF Enter(guard, ClientOf[r], now).allowed
         THEN q.pc \in {"waiting", "done"}
         ELSE q = [pc |-> "refused", reason |-> Enter(guard, ClientOf[r], now).reason,
                   retryAt |-> Enter(guard, ClientOf[r], now).retryAt,
                   before |-> Admitted]
  PROVE  RetryInv'
<1> DEFINE c == ClientOf[r]
           entry == Enter(guard, c, now)
           window == ClientWindow(guard, c, now)
<1>1. \A o \in Requests : request'[o] = IF o = r THEN q ELSE request[o]
  BY OneRequest DEF Inv
<1>2. Kept(guard) /\ c \in Clients /\ now \in Nat
  BY Arguments DEF Inv
<1>3. r \notin Admitted
  BY DEF Admitted
<1>4. Admitted' = IF entry.allowed THEN Admitted \cup {r} ELSE Admitted
  <2>1. ~entry.allowed => q.pc = "refused"
    OBVIOUS
  <2> QED BY <1>1, <1>3, <2>1 DEF Admitted
<1>5. IsFiniteSet(Admitted) /\ IsFiniteSet(Admitted')
  BY <1>4, FS_AddElement DEF RetryInv
<1>6. ASSUME NEW o \in Requests, request'[o].pc = "refused",
             NEW t, NEW before, t = request'[o].retryAt, before = request'[o].before
      PROVE  /\ before \subseteq Requests /\ before \subseteq Admitted'
             /\ request'[o].reason = "client" => Settled(ClientOf[o], t, before)'
  <2>1. CASE o = r
    <3>1. /\ ~entry.allowed /\ request'[o].reason = entry.reason
          /\ t = entry.retryAt /\ before = Admitted
      BY <1>1, <1>6, <2>1
    <3>2. entry.reason = "client" => Settled(ClientOf[o], t, before)'
      <4> SUFFICES ASSUME entry.reason = "client"
                   PROVE  Settled(ClientOf[o], t, before)'
        OBVIOUS
      <4>1. /\ c \in DOMAIN h.clients /\ h.clients[c].start = window.start
            /\ entry.retryAt = window.start + Window
        BY <1>2, EnterKept
      <4>2. window.start + Window \in Int
        BY <1>2, WindowType, GuardType DEF Counter
      <4>3. guard'.clients[c].start + Window <= t
        BY <3>1, <4>1, <4>2
      <4> QED BY <2>1, <4>3 DEF Settled
    <3>3. before \subseteq Requests /\ before \subseteq Admitted'
      <4>1. Admitted \subseteq Requests
        BY DEF Admitted
      <4> QED BY <1>4, <3>1, <4>1
    <3> QED BY <3>1, <3>2, <3>3
  <2>2. CASE o # r
    <3>1. request'[o] = request[o] /\ request[o].pc = "refused"
      BY <1>1, <1>6, <2>2
    <3>2. before \subseteq Admitted /\ before \subseteq Requests
      BY <1>6, <3>1 DEF RetryInv
    <3>3. t \in Int
      <4>1. RequestOK(request[o])
        BY DEF Inv, TypeInv
      <4> QED BY <1>6, <3>1, <4>1, RefusalType
    <3>4. CASE request[o].reason = "client"
      <4>1. Settled(ClientOf[o], t, before)
        BY <1>6, <3>1, <3>4 DEF RetryInv
      <4>2. Settled(ClientOf[o], t, before)'
        BY <1>2, <1>3, <1>4, <1>5, <3>2, <3>3, <4>1, SettledKept
      <4> QED BY <1>4, <3>2, <4>2
    <3> QED BY <1>4, <3>1, <3>2, <3>4
  <2> QED BY <2>1, <2>2
<1>7. ASSUME NEW o \in Requests, request'[o].pc = "refused"
      PROVE  /\ request'[o].before \subseteq Requests
             /\ request'[o].before \subseteq Admitted'
             /\ request'[o].reason = "client"
                  => Settled(ClientOf[o], request[o].retryAt, request[o].before)'
  <2>1. PICK t, before : t = request'[o].retryAt /\ before = request'[o].before
    OBVIOUS
  <2>2. /\ before \subseteq Requests /\ before \subseteq Admitted'
        /\ request'[o].reason = "client" => Settled(ClientOf[o], t, before)'
    BY <1>6, <1>7, <2>1
  <2> QED BY <2>1, <2>2 DEF Settled, Charged
<1> QED BY <1>5, <1>7 DEF RetryInv

LEMMA RetryRequest ==
  ASSUME Inv, RetryInv, NEW r \in Requests, NEW keys \in Asking[r], Request(r, keys)
  PROVE  RetryInv'
<1> DEFINE entry == Enter(guard, ClientOf[r], now)
<1>1. phase = "up" /\ request[r].pc = "idle" /\ UNCHANGED phase /\ now \in Times
  BY DEF Request, Inv, TypeInv
<1>2. \A h \in entry.guards : Kept(h) /\ h.active \in Nat
                              /\ (entry.allowed => 1 <= h.active)
  <2> SUFFICES ASSUME NEW h \in entry.guards
               PROVE  Kept(h) /\ h.active \in Nat /\ (entry.allowed => 1 <= h.active)
    OBVIOUS
  <2>1. Kept(h) /\ h.active = IF entry.allowed THEN guard.active + 1 ELSE guard.active
    BY Arguments, EnterKept DEF Inv
  <2>2. guard.active \in Nat
    BY GuardType DEF Inv, TypeInv, Kept, GuardOK
  <2> QED BY <2>1, <2>2
<1>3. CASE Refuse(r, entry)
  <2> DEFINE q == [pc |-> "refused", reason |-> entry.reason, retryAt |-> entry.retryAt,
                   before |-> Admitted]
  <2>1. PICK h \in entry.guards : guard' = h
    BY <1>3 DEF Refuse
  <2>2. RequestOK(q)
    <3>1. entry.reason \in {"none", "concurrency", "client", "global"}
      BY <2>1, Arguments, EnterKept DEF Inv
    <3>2. ClientWindow(guard, ClientOf[r], now).start \in Int /\ Window \in Int /\ now \in Int
      BY Arguments, WindowType, GuardType DEF Inv, Counter
    <3>3. entry.retryAt \in Int
      BY <3>2 DEF Enter
    <3> QED BY <3>1, <3>3 DEF RequestOK, Refusals, Admitted
  <2>3. request' = [request EXCEPT ![r] = q] /\ ~entry.allowed
    BY <1>3 DEF Refuse
  <2> QED BY <1>1, <2>1, <2>2, <2>3, RetryCounted
<1>4. CASE Missing(r, entry, keys)
  <2> DEFINE q == [pc |-> "done", at |-> now]
  <2>1. PICK h \in entry.guards : guard' = Release(h, 1)
    BY <1>4 DEF Missing
  <2>2. entry.allowed /\ request' = [request EXCEPT ![r] = q]
    BY <1>4 DEF Missing
  <2>3. guard'.clients = h.clients
    BY <1>2, <2>1, <2>2, ReleaseKept
  <2>4. RequestOK(q) /\ q.pc = "done"
    BY <1>1 DEF RequestOK
  <2> QED BY <1>1, <2>2, <2>3, <2>4, RetryCounted
<1>5. CASE Ask(r, entry, keys)
  <2>1. PICK h \in entry.guards :
          /\ guard' = h \/ guard' = Release(h, 1)
          /\ \E q : /\ request' = [request EXCEPT ![r] = q]
                    /\ q.pc \in {"waiting", "done"}
    <3> DEFINE ids(k) == IF k \in Cards THEN Row(k).ids ELSE {}
               stale == {k \in keys : ~IsFresh(k)}
               begun == {k \in stale : /\ flight[k] = NoFlight
                                       /\ NextProvider(k, ids(k), 1) # 0}
               ready == {k \in keys : IsFresh(k) \/ (flight[k] = NoFlight /\ k \notin begun)}
               got == [k \in ready |-> Fallback(k)]
               asked == [pc |-> "waiting", at |-> now, keys |-> keys, got |-> got]
    <3>1. PICK h \in entry.guards :
            \/ request' = [request EXCEPT ![r] = Finished(asked)] /\ guard' = Release(h, 1)
            \/ request' = [request EXCEPT ![r] = asked] /\ guard' = h
      BY <1>5 DEF Ask
    <3>2. asked.pc = "waiting" /\ Finished(asked).pc = "done"
      BY DEF Finished
    <3> HIDE DEF asked
    <3> QED BY <3>1, <3>2
  <2>2. PICK q : request' = [request EXCEPT ![r] = q] /\ q.pc \in {"waiting", "done"}
    BY <2>1
  <2>3. entry.allowed
    BY <1>5 DEF Ask
  <2>4. guard'.clients = h.clients
    BY <1>2, <2>1, <2>3, ReleaseKept
  <2>5. RequestOK(q)
    <3>1. Inv'
      BY <1>1, <1>5, AskInv DEF Request
    <3>2. request'[r] = q
      BY <2>2 DEF Inv, TypeInv
    <3> QED BY <3>1, <3>2 DEF Inv, TypeInv
  <2> QED BY <1>1, <2>2, <2>3, <2>4, <2>5, RetryCounted
<1> QED BY <1>3, <1>4, <1>5 DEF Request

\* An answer of a provider lets requests go on, and nobody enters or is forgotten.
LEMMA RetrySettle ==
  ASSUME Inv, RetryInv, NEW k \in Keys, NEW result \in Sources, NEW rows,
         Settle(k, result, rows), UNCHANGED phase
  PROVE  RetryInv'
<1> DEFINE waiting == Joined(k)
           over == Completed(k, result)
<1>1. /\ over \subseteq waiting /\ waiting \subseteq Waiting
      /\ \A r \in Requests \ waiting : request'[r] = request[r]
      /\ guard' = Release(guard, Cardinality(over))
  BY SettleRequests DEF Inv
<1>2. \A r \in waiting : request'[r].pc \in {"waiting", "done"}
  <2> SUFFICES ASSUME NEW r \in waiting PROVE request'[r].pc \in {"waiting", "done"}
    OBVIOUS
  <2>1. r \in Requests
    BY <1>1 DEF Waiting
  <2>2. \/ request'[r] = [pc |-> "done", at |-> request[r].at]
        \/ request'[r] = [pc |-> "waiting", at |-> request[r].at,
                          keys |-> request[r].keys, got |-> GotWith(k, result)[r]]
    BY <2>1, SettleRequests DEF Inv
  <2> QED BY ONLY <2>2
<1>3. Admitted' = Admitted
  BY <1>1, <1>2 DEF Admitted, Waiting
<1>4. guard'.clients = guard.clients
  BY <1>1 DEF Release, Inv, TypeInv, Kept
<1> QED BY <1>1, <1>2, <1>3, <1>4, RetryUnchanged

LEMMA RetryStep == Inv /\ Inv' /\ RetryInv /\ [Next]_vars => RetryInv'
<1> SUFFICES ASSUME Inv, Inv', RetryInv, [Next]_vars PROVE RetryInv'
  OBVIOUS
<1>1. ASSUME NEW r \in Requests, NEW keys \in Asking[r], Request(r, keys)
      PROVE  RetryInv'
  BY <1>1, RetryRequest
<1>2. ASSUME NEW k \in Keys, Answers(k)
      PROVE  RetryInv'
  <2>1. PICK outcome : ProviderAnswers(k, outcome)
    BY <1>2 DEF Answers
  <2>2. UNCHANGED phase
    BY <2>1 DEF ProviderAnswers
  <2>3. \/ \E result \in Sources : \E rows : Settle(k, result, rows)
        \/ UNCHANGED <<request, guard>>
    <3>1. flight[k] # NoFlight /\ Providers \subseteq Sources
      BY <1>2 DEF Answers, Sources
    <3> QED BY <2>1, <3>1, AnswerCases DEF Inv
  <2>4. CASE UNCHANGED <<request, guard>>
    <3>1. Admitted' = Admitted
      BY <2>4 DEF Admitted
    <3> QED BY <2>2, <2>4, <3>1, RetryUnchanged
  <2> QED BY <2>2, <2>3, <2>4, RetrySettle
<1>3. CASE UNCHANGED <<request, guard, phase>>
  <2>1. Admitted' = Admitted
    BY <1>3 DEF Admitted
  <2> QED BY <1>3, <2>1, RetryUnchanged
<1>4. CASE Signal
  <2>1. phase' = "closed"
    BY <1>4 DEF Signal
  <2>2. Admitted' \subseteq Admitted
    <3> SUFFICES ASSUME NEW r \in Admitted' PROVE r \in Admitted
      OBVIOUS
    <3>1. r \in Requests /\ request'[r].pc \in {"waiting", "done"}
      BY DEF Admitted
    <3>2. request'[r] = IF request[r].pc = "waiting" THEN [pc |-> "cut"] ELSE request[r]
      BY <1>4, <3>1 DEF Signal
    <3> QED BY <3>1, <3>2 DEF Admitted
  <2>3. IsFiniteSet(Admitted')
    BY <2>2, FS_Subset DEF RetryInv
  <2>4. \A r \in Requests : request'[r].pc = "refused" => request'[r] = request[r]
    BY <1>4 DEF Signal
  <2> QED BY <2>1, <2>3, <2>4 DEF RetryInv
<1> QED BY <1>1, <1>2, <1>3, <1>4 DEF Next, Tick, Maintain, vars, service

LEMMA RetryInit == Init => RetryInv
<1> SUFFICES ASSUME Init PROVE RetryInv
  OBVIOUS
<1>1. \A r \in Requests : request[r].pc = "idle"
  BY DEF Init, Asked
<1>2. Admitted = {}
  BY <1>1 DEF Admitted
<1> QED BY <1>1, <1>2, FS_EmptySet DEF RetryInv

\* A client that its own limit refused is, from the time of its Retry-After on, not
\* charged for anything it did before the refusal, whatever the table of clients has
\* dropped and started again meanwhile (retryAfterSeconds, rememberClient).
THEOREM RetryHonoured == Spec => []RetryAfterSuffices
<1>1. Inv /\ RetryInv => RetryAfterSuffices
  <2> SUFFICES ASSUME Inv, RetryInv, NEW r \in Requests, phase = "up",
                      request[r].pc = "refused", request[r].reason = "client",
                      now >= request[r].retryAt
               PROVE  ClientWindow(guard, ClientOf[r], now).count
                        <= Cardinality(Charged(ClientOf[r], request[r].before))
    BY DEF RetryAfterSuffices, Charged
  <2> DEFINE c == ClientOf[r]
             charged == Charged(c, request[r].before)
  <2>1. Settled(c, request[r].retryAt, request[r].before)
    BY DEF RetryInv
  <2>2. Cardinality(charged) \in Nat
    <3>1. charged \subseteq Admitted
      BY DEF Charged
    <3> QED BY <3>1, FS_Subset, FS_CardinalityType DEF RetryInv
  <2>3. Kept(guard) /\ c \in Clients /\ now \in Nat /\ Window \in Nat
    BY Arguments, GuardType DEF Inv
  <2>4. request[r].retryAt \in Int
    <3>1. RequestOK(request[r])
      BY DEF Inv, TypeInv
    <3> QED BY <3>1, RefusalType
  <2>5. CASE c \notin DOMAIN guard.clients \/ WindowOver(guard.clients[c], now)
    BY <2>2, <2>5 DEF ClientWindow
  <2>6. CASE c \in DOMAIN guard.clients /\ ~WindowOver(guard.clients[c], now)
    <3>1. guard.clients[c] \in Counter
      BY <2>3, <2>6 DEF Kept, GuardOK
    <3>2. ~(guard.clients[c].start + Window <= request[r].retryAt)
      BY <2>3, <2>4, <2>6, <3>1 DEF WindowOver, Counter
    <3>3. guard.clients[c].count <= Cardinality(charged)
      BY <2>1, <2>6, <3>2 DEF Settled
    <3> QED BY <2>6, <3>3 DEF ClientWindow
  <2> QED BY <2>5, <2>6
<1> QED BY <1>1, RetryInit, RetryStep, Invariant, PTL DEF Spec

-----------------------------------------------------------------------------
(* Stale rows.  A fetch that has nothing to fall back on found nothing usable *)
(* when it began, only it could store a row of its search since, and whoever *)
(* joined it came later.                                                    *)

Unusable(k, time) ==
  k \in Languages /\ (CacheKey(k) \notin DOMAIN cache \/ Expired(Row(k), time))

StaleInv ==
  /\ \A k \in Keys : flight[k] # NoFlight =>
       /\ flight[k].at <= now
       /\ flight[k].fallback = NoSource => Unusable(k, flight[k].at)
  /\ \A r \in Waiting : \A k \in request[r].keys \ DOMAIN request[r].got :
       flight[k].at <= request[r].at

\* A row is at most dropped.
Fewer(x) == x \in DOMAIN cache' => x \in DOMAIN cache /\ cache'[x] = cache[x]

LEMMA UnusableKept ==
  ASSUME UNCHANGED enabled, NEW k, NEW time, Unusable(k, time), Fewer(CacheKey(k))
  PROVE  Unusable(k, time)'
BY DEF Unusable, Fewer, CacheKey, Row, Expired

LEMMA NothingCached ==
  ASSUME TypeInv, NEW k \in Keys, Fallback(k) = NoSource, k \in Cards => Cached(k)
  PROVE  Unusable(k, now)
<1>1. ~Cached(k)
  <2> SUFFICES ASSUME Cached(k) PROVE FALSE
    OBVIOUS
  <2>1. Fallback(k) \in Providers
    BY CachedRow
  <2> QED BY <2>1 DEF Providers, NoSource
<1> QED BY <1>1 DEF Unusable, Cached, Keys

\* What a fetch stores leaves the rows of other searches alone.
LEMMA StoredElsewhere ==
  ASSUME TypeInv, NEW k \in Keys, flight[k] \in Fetches, NEW p \in Providers,
         NEW found \in BOOLEAN, cache' = Stored(k, p, found), NEW l \in Languages, l # k
  PROVE  Fewer(CacheKey(l))
<1> DEFINE f == flight[k]
           row(ids, detail) == [source |-> p, ids |-> ids, at |-> f.at, detail |-> detail]
           in == CardIn[IF p = 2 THEN "en" ELSE k]
           x == CacheKey(l)
           Less(rows, kept) == x \in DOMAIN kept => x \in DOMAIN rows /\ kept[x] = rows[x]
<1>1. \A rows, key, r : key # x => Less(rows, Put(rows, key, r))
  BY DEF Put, Prune, Restrict
<1>2. \A rows, key, r : key # x => Less(rows, RememberCard(rows, key, r))
  <2> HIDE DEF x
  <2> QED BY <1>1 DEF RememberCard
<1>3. CacheKey(k) # x
  BY DEF CacheKey
<1>4. CASE k \in Cards
  BY <1>1, <1>3, <1>4 DEF Stored, Fewer
<1>5. CASE k \notin Cards
  <2>1. in \in Cards
    BY <1>5, CatalogueType DEF Keys, Languages
  <2>2. CacheKey(in) # x
    BY <2>1, CatalogueType DEF CacheKey
  <2>3. Less(cache, Put(cache, CacheKey(k), row({}, TRUE)))
    BY <1>1, <1>3
  <2>4. \/ cache' = Put(cache, CacheKey(k), row({}, TRUE))
        \/ cache' = RememberCard(Put(cache, CacheKey(k), row({}, TRUE)), CacheKey(in),
                                 row({p}, FALSE))
    BY <1>5 DEF Stored
  <2> HIDE DEF x, row, in
  <2>5. Less(cache, cache')
    <3> DEFINE put == Put(cache, CacheKey(k), row({}, TRUE))
    <3>1. Less(put, RememberCard(put, CacheKey(in), row({p}, FALSE)))
      BY <1>2, <2>2
    <3> HIDE DEF put
    <3> QED BY <2>3, <2>4, <3>1 DEF put
  <2> QED BY <2>5 DEF Fewer, x
<1> QED BY <1>4, <1>5

\* What asking does to the fetches.
LEMMA AskFlights ==
  ASSUME TypeInv, NEW r \in Requests, NEW keys \in Asking[r],
         Ask(r, Enter(guard, ClientOf[r], now), keys)
  PROVE  \A k \in Keys :
           \/ flight'[k] = flight[k]
           \/ /\ flight[k] = NoFlight /\ (k \in Cards => Cached(k))
              /\ flight'[k].at = now /\ flight'[k].fallback = Fallback(k)
<1> DEFINE ids(k) == IF k \in Cards THEN Row(k).ids ELSE {}
           stale == {k \in keys : ~IsFresh(k)}
           begun == {k \in stale : flight[k] = NoFlight /\ NextProvider(k, ids(k), 1) # 0}
           calls == [k \in begun |-> NextProvider(k, ids(k), 1)]
           fetch(k) == [provider |-> calls[k], cell |-> CellFor(k, calls[k]),
                        begun |-> now, at |-> now, ids |-> ids(k),
                        fallback |-> Fallback(k), empty |-> NoSource]
<1>1. flight' = [k \in Keys |-> IF k \in begun THEN fetch(k) ELSE flight[k]]
  BY DEF Ask
<1>2. \A k \in keys \cap Cards : Cached(k)
  BY DEF Ask
<1>3. \A k \in begun : k \in keys /\ flight[k] = NoFlight
  OBVIOUS
<1>4. \A k : fetch(k).at = now /\ fetch(k).fallback = Fallback(k)
  OBVIOUS
<1> HIDE DEF begun, fetch
<1> QED BY <1>1, <1>2, <1>3, <1>4

LEMMA ReadFewer ==
  ASSUME NEW keys, Read(keys), NEW x
  PROVE  Fewer(x)
BY DEF Read, Restrict, Fewer

LEMMA StaleAsk ==
  ASSUME Inv, Inv', StaleInv, NEW r \in Requests, request[r].pc = "idle",
         NEW keys \in Asking[r], Ask(r, Enter(guard, ClientOf[r], now), keys),
         UNCHANGED <<now, enabled>>
  PROVE  StaleInv'
<1>1. \A k \in Keys :
        \/ flight'[k] = flight[k]
        \/ /\ flight[k] = NoFlight /\ (k \in Cards => Cached(k))
           /\ flight'[k].at = now /\ flight'[k].fallback = Fallback(k)
  BY AskFlights DEF Inv
<1>2. Read(keys)
  BY DEF Ask
<1>3. now \in Times /\ TypeInv /\ TypeInv'
  BY DEF Inv, TypeInv
<1>4. ASSUME NEW k \in Keys, flight'[k] # NoFlight
      PROVE  /\ flight'[k].at <= now'
             /\ flight'[k].fallback = NoSource => Unusable(k, flight[k].at)'
  <2>1. CASE flight'[k] = flight[k]
    <3>1. flight[k].at <= now
      BY <1>4, <2>1 DEF StaleInv
    <3>2. ASSUME NEW time, time = flight[k].at, flight[k].fallback = NoSource
          PROVE  Unusable(k, time)'
      <4>1. Unusable(k, time)
        BY <1>4, <2>1, <3>2 DEF StaleInv
      <4> QED BY <1>2, <4>1, ReadFewer, UnusableKept
    <3>3. flight[k].fallback = NoSource => Unusable(k, flight[k].at)'
      BY <2>1, <3>2 DEF Unusable
    <3> QED BY <2>1, <3>1, <3>3
  <2>2. CASE /\ flight[k] = NoFlight /\ (k \in Cards => Cached(k))
             /\ flight'[k].at = now /\ flight'[k].fallback = Fallback(k)
    <3>1. ASSUME NEW time, time = now, Fallback(k) = NoSource
          PROVE  Unusable(k, time)'
      <4>1. Unusable(k, time)
        BY <1>3, <2>2, <3>1, NothingCached
      <4> QED BY <1>2, <4>1, ReadFewer, UnusableKept
    <3>2. Fallback(k) = NoSource => Unusable(k, flight[k].at)'
      BY <2>2, <3>1 DEF Unusable
    <3> QED BY <1>3, <2>2, <3>2 DEF Times
  <2> QED BY <1>1, <2>1, <2>2
<1>5. ASSUME NEW o \in Waiting', NEW k \in request'[o].keys \ DOMAIN request'[o].got
      PROVE  flight'[k].at <= request'[o].at
  <2>1. k \in Keys /\ flight'[k] # NoFlight
    <3>1. \A w \in Waiting : request[w].keys \subseteq Keys
      BY <1>3, WaitType
    <3>2. request'[o].keys \subseteq Keys
      <4>1. RequestOK(request'[o]) /\ request'[o].pc = "waiting" /\ o \in Requests
        BY <1>3 DEF TypeInv, Waiting
      <4>2. IsWait(request'[o])
        BY <4>1 DEF RequestOK, Refusals
      <4> QED BY <4>2 DEF IsWait
    <3>3. flight'[k] # NoFlight
      BY <1>5 DEF Inv, NobodyWaitsInVain
    <3> QED BY <1>5, <3>2, <3>3
  <2>2. CASE o = r
    <3>1. request'[r].at = now
      <4> DEFINE ids(x) == IF x \in Cards THEN Row(x).ids ELSE {}
                 stale == {x \in keys : ~IsFresh(x)}
                 begun == {x \in stale : /\ flight[x] = NoFlight
                                         /\ NextProvider(x, ids(x), 1) # 0}
                 ready == {x \in keys : IsFresh(x)
                                        \/ (flight[x] = NoFlight /\ x \notin begun)}
                 got == [x \in ready |-> Fallback(x)]
                 asked == [pc |-> "waiting", at |-> now, keys |-> keys, got |-> got]
      <4>1. \/ request' = [request EXCEPT ![r] = Finished(asked)]
            \/ request' = [request EXCEPT ![r] = asked]
        BY DEF Ask
      <4>2. asked.at = now /\ Finished(asked).at = now
        BY DEF Finished
      <4> HIDE DEF asked
      <4> QED BY <1>3, <4>1, <4>2 DEF TypeInv
    <3>2. flight'[k].at <= now'
      BY <1>4, <2>1
    <3> QED BY <2>2, <3>1, <3>2
  <2>3. CASE o # r
    <3>1. request'[o] = request[o]
      BY <1>3, <2>3 DEF Ask, TypeInv, Waiting
    <3>2. o \in Waiting
      BY <3>1 DEF Waiting
    <3>3. flight[k].at <= request[o].at /\ flight[k] # NoFlight
      BY <1>5, <3>1, <3>2 DEF StaleInv, Inv, NobodyWaitsInVain
    <3> QED BY <1>1, <2>1, <3>1, <3>3
  <2> QED BY <2>2, <2>3
<1> QED BY <1>4, <1>5 DEF StaleInv

\* Fetches that stay as they are, and requests that wait as they did.
LEMMA StaleKept ==
  ASSUME TypeInv, StaleInv, now <= now', now' \in Int, UNCHANGED enabled,
         \A k \in Keys : flight'[k] # NoFlight =>
           /\ flight[k] # NoFlight /\ flight'[k].at = flight[k].at
           /\ flight'[k].fallback = flight[k].fallback
           /\ k \in Languages => Fewer(CacheKey(k)),
         \A r \in Waiting' :
           /\ r \in Waiting /\ request'[r].at = request[r].at
           /\ \A x \in request'[r].keys \ DOMAIN request'[r].got :
                /\ x \in request[r].keys \ DOMAIN request[r].got
                /\ flight'[x].at = flight[x].at
  PROVE  StaleInv'
<1>1. ASSUME NEW k \in Keys, flight'[k] # NoFlight
      PROVE  /\ flight'[k].at <= now'
             /\ flight'[k].fallback = NoSource => Unusable(k, flight[k].at)'
  <2>1. /\ flight[k] # NoFlight /\ flight'[k].at = flight[k].at
        /\ flight'[k].fallback = flight[k].fallback
        /\ k \in Languages => Fewer(CacheKey(k))
    BY <1>1
  <2>2. flight[k].at <= now /\ flight[k].at \in Int /\ now \in Int
    BY <2>1 DEF StaleInv, TypeInv, Fetches, Times
  <2>3. ASSUME NEW time, time = flight[k].at, flight[k].fallback = NoSource
        PROVE  Unusable(k, time)'
    <3>1. Unusable(k, time) /\ k \in Languages
      BY <2>1, <2>3 DEF StaleInv, Unusable
    <3> QED BY <2>1, <3>1, UnusableKept
  <2>4. flight[k].fallback = NoSource => Unusable(k, flight[k].at)'
    BY <2>1, <2>3 DEF Unusable
  <2> QED BY <2>1, <2>2, <2>4
<1>2. ASSUME NEW r \in Waiting', NEW k \in request'[r].keys \ DOMAIN request'[r].got
      PROVE  flight'[k].at <= request'[r].at
  BY <1>2 DEF StaleInv
<1> QED BY <1>1, <1>2 DEF StaleInv

LEMMA StaleSettle ==
  ASSUME Inv, StaleInv, NEW k \in Keys, flight[k] \in Fetches, NEW result \in Sources,
         NEW rows, Settle(k, result, rows), UNCHANGED <<now, enabled>>,
         rows = cache \/ \E p \in Providers, found \in BOOLEAN : rows = Stored(k, p, found)
  PROVE  StaleInv'
<1>1. TypeInv /\ now \in Int
  BY DEF Inv, TypeInv, Times
<1>2. flight' = [flight EXCEPT ![k] = NoFlight] /\ cache' = rows
  BY <1>1, SettleRequests
<1>3. \A x \in Keys : flight'[x] = IF x = k THEN NoFlight ELSE flight[x]
  BY <1>1, <1>2 DEF TypeInv
<1>4. ASSUME NEW l \in Languages, l # k
      PROVE  Fewer(CacheKey(l))
  <2>1. CASE rows = cache
    BY <1>2, <2>1 DEF Fewer
  <2>2. CASE \E p \in Providers, found \in BOOLEAN : rows = Stored(k, p, found)
    BY <1>1, <1>2, <1>4, <2>2, StoredElsewhere
  <2> QED BY <2>1, <2>2
<1>5. \A x \in Keys : flight'[x] # NoFlight =>
        /\ flight[x] # NoFlight /\ flight'[x].at = flight[x].at
        /\ flight'[x].fallback = flight[x].fallback
        /\ x \in Languages => Fewer(CacheKey(x))
  BY <1>3, <1>4
<1>6. ASSUME NEW r \in Waiting'
      PROVE  /\ r \in Waiting /\ request'[r].at = request[r].at
             /\ \A x \in request'[r].keys \ DOMAIN request'[r].got :
                  /\ x \in request[r].keys \ DOMAIN request[r].got
                  /\ flight'[x].at = flight[x].at
  <2>1. /\ r \in Waiting /\ request'[r].at = request[r].at
        /\ \A x \in request'[r].keys \ DOMAIN request'[r].got :
             x \in request[r].keys \ DOMAIN request[r].got /\ x # k
    BY <1>1, StillWaiting
  <2>2. request[r].keys \subseteq Keys
    BY <1>1, <2>1, WaitType
  <2> QED BY <1>3, <2>1, <2>2
<1> QED BY <1>1, <1>5, <1>6, StaleKept

LEMMA StaleStep == Inv /\ Inv' /\ StaleInv /\ [Next]_vars => StaleInv'
<1> SUFFICES ASSUME Inv, Inv', StaleInv, [Next]_vars PROVE StaleInv'
  OBVIOUS
<1>1. TypeInv /\ now \in Int /\ flight \in [Keys -> Fetches \cup {NoFlight}]
      /\ \A r \in Waiting : request[r].keys \subseteq Keys
  <2>1. \A r \in Waiting : request[r].keys \subseteq Keys
    BY WaitType DEF Inv
  <2> QED BY <2>1 DEF Inv, TypeInv, Times
<1>2. ASSUME NEW r \in Requests, NEW keys \in Asking[r], Request(r, keys)
      PROVE  StaleInv'
  <2> DEFINE entry == Enter(guard, ClientOf[r], now)
  <2>1. request[r].pc = "idle" /\ UNCHANGED <<now, enabled>>
    BY <1>2 DEF Request
  <2>2. CASE Ask(r, entry, keys)
    BY <1>2, <2>1, <2>2, StaleAsk
  <2>3. CASE Refuse(r, entry) \/ Missing(r, entry, keys)
    <3>1. UNCHANGED flight /\ (Read(keys) \/ UNCHANGED cache)
      BY <2>3 DEF Refuse, Missing, service
    <3>2. \A x : Fewer(x)
      BY <3>1, ReadFewer DEF Fewer
    <3>3. \A o \in Requests \ {r} : request'[o] = request[o]
      BY <1>1, <2>3 DEF Refuse, Missing, TypeInv
    <3>4. request'[r].pc \in {"refused", "done"}
      <4>1. \/ request' = [request EXCEPT ![r] = [pc |-> "done", at |-> now]]
            \/ request' = [request EXCEPT ![r] =
                 [pc |-> "refused", reason |-> entry.reason, retryAt |-> entry.retryAt,
                  before |-> Admitted]]
        BY <2>3 DEF Refuse, Missing
      <4> QED BY <1>1, <4>1 DEF TypeInv
    <3>5. \A o \in Waiting' : o \in Waiting /\ request'[o] = request[o]
      BY <3>3, <3>4 DEF Waiting
    <3> QED BY <1>1, <2>1, <3>1, <3>2, <3>5, StaleKept
  <2> QED BY <1>2, <2>2, <2>3 DEF Request
<1>3. ASSUME NEW k \in Keys, Answers(k)
      PROVE  StaleInv'
  <2> DEFINE f == flight[k]
  <2>1. PICK outcome : ProviderAnswers(k, outcome)
    BY <1>3 DEF Answers
  <2>2. f # NoFlight /\ Providers \subseteq Sources
    BY <1>3 DEF Answers, Sources
  <2>3. f \in Fetches /\ UNCHANGED <<now, enabled, phase>>
    BY <1>1, <2>1, <2>2, AnswerCases
  <2>4. CASE \E p \in Providers, found \in BOOLEAN : Settle(k, p, Stored(k, p, found))
    <3>1. PICK p \in Providers, found \in BOOLEAN : Settle(k, p, Stored(k, p, found))
      BY <2>4
    <3> QED BY <2>2, <2>3, <3>1, StaleSettle
  <2>5. CASE Settle(k, f.fallback, cache) /\ f.fallback \in Sources
    BY <2>3, <2>5, StaleSettle
  <2>6. CASE \E next \in Providers, empty \in Sources :
               /\ next \in enabled /\ ~IsOpen(next)
               /\ flight' = [flight EXCEPT
                    ![k] = Moved(f, next, CellFor(k, next), now, empty)]
               /\ answered' = {}
               /\ UNCHANGED <<cache, request, guard>>
    <3>1. PICK next \in Providers, empty \in Sources :
            /\ flight' = [flight EXCEPT
                 ![k] = Moved(f, next, CellFor(k, next), now, empty)]
            /\ UNCHANGED <<cache, request, guard>>
      BY <2>6
    <3> DEFINE moved == Moved(f, next, CellFor(k, next), now, empty)
    <3>2. CellFor(k, next) \in Keys /\ now \in Times
      BY <1>1 DEF TypeInv, CellFor
    <3>3. moved.at = f.at /\ moved.fallback = f.fallback
      BY <2>3, <3>2, FetchMoves
    <3>4. \A x \in Keys : flight'[x] = IF x = k THEN moved ELSE flight[x]
      BY <1>1, <3>1
    <3> HIDE DEF moved
    <3>5. \A x : Fewer(x)
      BY <3>1 DEF Fewer
    <3>6. \A x \in Keys : flight'[x] # NoFlight =>
            /\ flight[x] # NoFlight /\ flight'[x].at = flight[x].at
            /\ flight'[x].fallback = flight[x].fallback
      BY <2>2, <3>3, <3>4
    <3>7. \A o \in Waiting' :
            /\ o \in Waiting /\ request'[o].at = request[o].at
            /\ \A x \in request'[o].keys \ DOMAIN request'[o].got :
                 /\ x \in request[o].keys \ DOMAIN request[o].got
                 /\ flight'[x].at = flight[x].at
      BY <1>1, <3>1, <3>3, <3>4 DEF Waiting
    <3> QED BY <1>1, <2>3, <3>5, <3>6, <3>7, StaleKept
  <2> QED BY <1>1, <2>1, <2>2, <2>4, <2>5, <2>6, AnswerCases
<1>4. CASE \/ Tick \/ Maintain \/ UNCHANGED vars
  <2>1. now <= now' /\ now' \in Int /\ UNCHANGED <<enabled, flight, request>>
    BY <1>1, <1>4 DEF Tick, Maintain, vars, service
  <2>2. \A x : Fewer(x)
    BY <1>4, PruneKept DEF Tick, Maintain, vars, service, Fewer, Inv, TypeInv
  <2>3. Waiting' = Waiting
    BY <2>1 DEF Waiting
  <2> QED BY <1>1, <2>1, <2>2, <2>3, StaleKept
<1>5. CASE Signal
  <2>1. \A k \in Keys : flight'[k] = NoFlight
    BY <1>5 DEF Signal
  <2>2. Waiting' = {}
    <3> SUFFICES ASSUME NEW r \in Waiting' PROVE FALSE
      OBVIOUS
    <3>1. r \in Requests /\ request'[r].pc = "waiting"
      BY DEF Waiting
    <3>2. request'[r] = IF request[r].pc = "waiting" THEN [pc |-> "cut"] ELSE request[r]
      BY <1>5, <3>1 DEF Signal
    <3> QED BY <3>1, <3>2
  <2> QED BY <2>1, <2>2 DEF StaleInv
<1> QED BY <1>2, <1>3, <1>4, <1>5 DEF Next

LEMMA StaleInit == Init => StaleInv
<1> SUFFICES ASSUME Init PROVE StaleInv
  OBVIOUS
<1>1. \A r \in Requests : request[r].pc = "idle"
  BY DEF Init, Asked
<1>2. \A k \in Keys : flight[k] = NoFlight
  BY DEF Init
<1> QED BY <1>1, <1>2 DEF StaleInv, Waiting

\* An answer without any result goes to requests that found nothing usable when they came.
LEMMA StaleAnswer ==
  ASSUME Inv, StaleInv, Next, NEW a \in answered', NEW k, a.outcome = "unavailable",
         a.keys = {k}
  PROVE  CacheKey(k) \notin DOMAIN cache \/ Expired(Row(k), request'[a.to].at)
<1>1. TypeInv
  BY DEF Inv
<1>2. \A keys, got, r : Answer(r, keys, got).to = r /\ Answer(r, keys, got).keys = keys
                        /\ Answer(r, keys, got).outcome = Outcome(keys, got)
  BY DEF Answer
\* Of one thing, the answer is empty-handed only if its result is.
<1>3. ASSUME NEW keys, NEW got, keys = {k}, DOMAIN got = {k},
             Outcome(keys, got) = "unavailable"
      PROVE  got[k] = NoSource
  <2>1. keys # Languages
    <3>1. "en" # "fr"
      OBVIOUS
    <3> QED BY <1>3, <3>1 DEF Languages
  <2>2. NoSource \in Range(got)
    BY <1>3, <2>1 DEF Outcome
  <2> QED BY <1>3, <2>2 DEF Range
<1>4. ASSUME NEW r \in Requests, NEW keys \in Asking[r], Request(r, keys)
      PROVE  CacheKey(k) \notin DOMAIN cache \/ Expired(Row(k), request'[a.to].at)
  <2> DEFINE entry == Enter(guard, ClientOf[r], now)
             ids(x) == IF x \in Cards THEN Row(x).ids ELSE {}
             stale == {x \in keys : ~IsFresh(x)}
             begun == {x \in stale : flight[x] = NoFlight /\ NextProvider(x, ids(x), 1) # 0}
             ready == {x \in keys : IsFresh(x) \/ (flight[x] = NoFlight /\ x \notin begun)}
             got == [x \in ready |-> Fallback(x)]
             asked == [pc |-> "waiting", at |-> now, keys |-> keys, got |-> got]
  <2>1. \/ Missing(r, entry, keys)
        \/ /\ Ask(r, entry, keys) /\ Over(keys, got)
           /\ request' = [request EXCEPT ![r] = Finished(asked)]
           /\ a = Answer(r, keys, got)
    BY <1>4 DEF Request, Refuse, Ask
  <2>2. CASE Missing(r, entry, keys)
    BY <2>2 DEF Missing
  <2>3. CASE /\ Ask(r, entry, keys) /\ Over(keys, got)
             /\ request' = [request EXCEPT ![r] = Finished(asked)]
             /\ a = Answer(r, keys, got)
    <3>1. a.to = r /\ keys = {k} /\ DOMAIN got = {k} /\ Outcome(keys, got) = "unavailable"
      BY <1>2, <2>3 DEF Over
    <3>2. Fallback(k) = NoSource
      <4>1. got[k] = NoSource
        BY <1>3, <3>1
      <4> QED BY <3>1, <4>1
    <3>3. k \in Keys /\ (k \in Cards => Cached(k))
      BY <3>1, <2>3, AskedKeys DEF Ask
    <3>4. Unusable(k, now)
      BY <1>1, <3>2, <3>3, NothingCached
    <3>5. request'[r].at = now
      <4>1. Finished(asked).at = now
        BY DEF Finished
      <4> HIDE DEF asked
      <4> QED BY <1>1, <2>3, <4>1 DEF TypeInv
    <3> QED BY <3>1, <3>4, <3>5 DEF Unusable
  <2> QED BY <2>1, <2>2, <2>3
<1>5. ASSUME NEW q \in Keys, Answers(q)
      PROVE  CacheKey(k) \notin DOMAIN cache \/ Expired(Row(k), request'[a.to].at)
  <2> DEFINE f == flight[q]
  <2>1. PICK outcome : ProviderAnswers(q, outcome)
    BY <1>5 DEF Answers
  <2>2. f # NoFlight /\ f \in Fetches /\ Providers \subseteq Sources \ {NoSource}
    BY <1>1, <1>5 DEF Answers, Sources, TypeInv, Providers, NoSource
  <2>3. ASSUME NEW result \in Sources, NEW rows, Settle(q, result, rows)
        PROVE  /\ a.to \in Waiting /\ q = k /\ result = NoSource
               /\ request'[a.to].at = request[a.to].at
               /\ k \in request[a.to].keys \ DOMAIN request[a.to].got
    <3>1. PICK r \in Completed(q, result) :
            a = Answer(r, request[r].keys, GotWith(q, result)[r])
      BY <1>1, <2>3, SettleRequests
    <3>2. a.to = r /\ request[r].keys = {k}
          /\ Outcome(request[r].keys, GotWith(q, result)[r]) = "unavailable"
      BY <1>2, <3>1
    <3>3. /\ request[r].keys = DOMAIN GotWith(q, result)[r] /\ r \in Joined(q)
          /\ r \in Waiting /\ GotWith(q, result)[r][q] = result
          /\ request'[r] = [pc |-> "done", at |-> request[r].at]
      <4>1. Joined(q) \subseteq Requests
        BY DEF Joined
      <4> QED BY <1>1, <2>3, <3>1, <4>1, SettleRequests
    <3>4. q \in request[r].keys \ DOMAIN request[r].got
      BY <3>3 DEF Joined, Awaits
    <3>5. q = k
      BY <3>2, <3>4
    <3>6. result = NoSource
      BY <1>3, <3>2, <3>3, <3>5
    <3>7. request'[r].at = request[r].at
      BY <3>3
    <3> QED BY <3>2, <3>3, <3>4, <3>5, <3>6, <3>7
  <2>4. CASE \E p \in Providers, found \in BOOLEAN : Settle(q, p, Stored(q, p, found))
    BY <2>2, <2>3, <2>4
  <2>5. CASE Settle(q, f.fallback, cache) /\ f.fallback \in Sources
    <3>1. /\ a.to \in Waiting /\ q = k /\ f.fallback = NoSource
          /\ request'[a.to].at = request[a.to].at
          /\ k \in request[a.to].keys \ DOMAIN request[a.to].got
      BY <2>3, <2>5
    <3>2. Unusable(k, flight[k].at) /\ flight[k].at <= request[a.to].at
      BY <2>2, <3>1 DEF StaleInv
    <3>3. request[a.to].at \in Int /\ flight[k].at \in Int
      <4>1. request[a.to].at \in Times
        BY <1>1, <3>1, WaitType
      <4>2. flight[k].at \in Times
        BY <2>2, <3>1 DEF Fetches
      <4> QED BY <4>1, <4>2 DEF Times
    <3>4. CASE CacheKey(k) \in DOMAIN cache
      <4>1. Row(k).at \in Int /\ StaleFor \in Int
        BY <1>1, <3>4, CatalogueType DEF TypeInv, RowsOK, Entries, Row
      <4> QED BY <3>1, <3>2, <3>3, <3>4, <4>1 DEF Unusable, Expired
    <3> QED BY <3>4
  <2> QED BY <1>1, <2>1, <2>2, <2>4, <2>5, AnswerCases
<1> QED BY <1>4, <1>5 DEF Next, Tick, Maintain, Signal

\* A request for one thing is answered without any result only if nothing usable was
\* cached when it came (staleCache in fetchSearch and fetchCard).
THEOREM StaleServed == Spec => StaleBeatsError
<1>1. Inv /\ StaleInv /\ [Next]_vars
        => [\A a \in answered' :
              LET k == CHOOSE key \in a.keys : TRUE
              IN  (a.outcome = "unavailable" /\ a.keys = {k})
                    => \/ CacheKey(k) \notin DOMAIN cache
                       \/ Expired(Row(k), request'[a.to].at)]_vars
  BY StaleAnswer
<1> QED BY <1>1, Invariant, StaleInit, StaleStep, PTL DEF Spec, StaleBeatsError

-----------------------------------------------------------------------------
(* Rest.  A provider that asked to be left alone has an open circuit, unless  *)
(* a call that was under way then has ended since, and every call to it that *)
(* is under way now is one of those.                                        *)

Rests == [until : Int, before : SUBSET Keys, excused : BOOLEAN]

AtRest(p) == rest[p].until > now /\ ~rest[p].excused

RestInv ==
  /\ rest \in [Providers -> Rests]
  /\ \A p \in Providers : AtRest(p) =>
       /\ circuit[p] # Nobody
       /\ cell[p][circuit[p]].until >= rest[p].until
       /\ \A k \in Keys : flight[k].provider = p => k \in rest[p].before

LEMMA RestingIsOpen ==
  ASSUME TypeInv, RestInv, NEW p \in Providers, AtRest(p)
  PROVE  IsOpen(p)
<1>1. circuit[p] # Nobody /\ circuit[p] \in Keys /\ cell[p][circuit[p]].until >= rest[p].until
  BY DEF RestInv, TypeInv
<1>2. rest[p].until \in Int /\ now \in Int /\ cell[p][circuit[p]].until \in Int
  BY <1>1, CatalogueType DEF RestInv, Rests, TypeInv, Times, CellsOK
<1> QED BY <1>1, <1>2 DEF AtRest, IsOpen

\* Calls of providers that are not open leave those at rest as they are.
LEMMA CallsLeaveRest ==
  ASSUME TypeInv, RestInv, NEW calls, \A k \in DOMAIN calls : ~IsOpen(calls[k]),
         NEW p \in Providers, AtRest(p), NEW c \in Keys
  PROVE  CellsAtCall(calls)[p][c] = cell[p][c]
<1>1. \A k \in DOMAIN calls : calls[k] # p
  BY RestingIsOpen
<1> QED BY <1>1 DEF CellsAtCall

LEMMA RestAsk ==
  ASSUME Inv, RestInv, NEW r \in Requests, NEW keys \in Asking[r],
         Ask(r, Enter(guard, ClientOf[r], now), keys), UNCHANGED now
  PROVE  /\ RestInv'
         /\ \A k \in Keys : flight'[k].provider # flight[k].provider /\ flight'[k] # NoFlight
              => flight'[k].provider \in Providers /\ ~IsOpen(flight'[k].provider)
<1> DEFINE ids(k) == IF k \in Cards THEN Row(k).ids ELSE {}
           stale == {k \in keys : ~IsFresh(k)}
           begun == {k \in stale : flight[k] = NoFlight /\ NextProvider(k, ids(k), 1) # 0}
           calls == [k \in begun |-> NextProvider(k, ids(k), 1)]
           fetch(k) == [provider |-> calls[k], cell |-> CellFor(k, calls[k]),
                        begun |-> now, at |-> now, ids |-> ids(k),
                        fallback |-> Fallback(k), empty |-> NoSource]
<1>1. TypeInv
  BY DEF Inv
<1>2. flight' = [k \in Keys |-> IF k \in begun THEN fetch(k) ELSE flight[k]]
      /\ cell' = CellsAtCall(calls) /\ UNCHANGED <<circuit, rest>>
  BY DEF Ask
<1>3. DOMAIN calls = begun
  OBVIOUS
<1>4. \A k \in begun : calls[k] \in Providers /\ ~IsOpen(calls[k])
  <2> SUFFICES ASSUME NEW k \in begun PROVE calls[k] \in Providers /\ ~IsOpen(calls[k])
    OBVIOUS
  <2>1. calls[k] = NextProvider(k, ids(k), 1) /\ calls[k] # 0
    OBVIOUS
  <2> HIDE DEF calls
  <2> QED BY <1>1, <2>1, NextProviderType
<1>5. \A k : fetch(k).provider = calls[k]
  OBVIOUS
<1> HIDE DEF begun, calls, fetch
<1>6. \A k \in Keys : flight'[k] = flight[k]
                      \/ (k \in begun /\ flight'[k].provider = calls[k])
  BY <1>2, <1>5
<1>7. ASSUME NEW p \in Providers, AtRest(p)'
      PROVE  /\ circuit'[p] # Nobody
             /\ cell'[p][circuit'[p]].until >= rest'[p].until
             /\ \A k \in Keys : flight'[k].provider = p => k \in rest'[p].before
  <2>1. AtRest(p)
    BY <1>2, <1>7 DEF AtRest
  <2>2. /\ circuit[p] # Nobody /\ circuit[p] \in Keys
        /\ cell[p][circuit[p]].until >= rest[p].until
        /\ \A k \in Keys : flight[k].provider = p => k \in rest[p].before
    BY <1>1, <2>1 DEF RestInv, TypeInv
  <2>3. cell'[p][circuit[p]] = cell[p][circuit[p]]
    BY <1>1, <1>2, <1>3, <1>4, <2>1, <2>2, CallsLeaveRest
  <2>4. \A k \in begun : calls[k] # p
    BY <1>1, <1>4, <2>1, RestingIsOpen
  <2> QED BY <1>2, <1>6, <2>2, <2>3, <2>4
<1>8. RestInv'
  BY <1>2, <1>7 DEF RestInv
<1> QED BY <1>4, <1>6, <1>8

LEMMA RestAnswer ==
  ASSUME Inv, RestInv, NEW k \in Keys, flight[k] # NoFlight, NEW outcome,
         ProviderAnswers(k, outcome)
  PROVE  /\ RestInv'
         /\ \A x \in Keys : flight'[x].provider # flight[x].provider /\ flight'[x] # NoFlight
              => flight'[x].provider \in Providers /\ ~IsOpen(flight'[x].provider)
<1>0. PICK p : p = flight[k].provider
  OBVIOUS
<1> DEFINE f == flight[k]
           empty == IF outcome = "empty" /\ f.empty = NoSource THEN p ELSE f.empty
           next == IF outcome = "cards" THEN 0 ELSE NextProvider(k, f.ids, p + 1)
           calls == IF next = 0 THEN <<>> ELSE [x \in {k} |-> next]
           called == CellsAtCall(calls)
           held == {flight[o].cell : o \in {x \in Keys \ {k} : flight[x].provider = p}}
           answered_p == [c \in Keys |->
             IF c = f.cell THEN AfterCall(cell[p][c], outcome, f.begun)
             ELSE IF c \in held THEN cell[p][c] ELSE ClosedCell]
           moved == Moved(f, next, CellFor(k, next), now, empty)
<1>1. TypeInv /\ f \in Fetches
  BY DEF Inv, TypeInv
<1>2. /\ p \in Providers /\ p + 1 \in Int /\ p \in Int /\ f.cell \in Keys
      /\ f.begun \in Times /\ empty \in Sources
  BY <1>0, <1>1 DEF Fetches, Sources, Providers
<1>3. next = 0 \/ /\ next \in Providers /\ next >= p + 1 /\ next # p /\ ~IsOpen(next)
                  /\ next \in Int
  <2>1. \/ NextProvider(k, f.ids, p + 1) = 0
        \/ /\ NextProvider(k, f.ids, p + 1) \in Providers
           /\ NextProvider(k, f.ids, p + 1) >= p + 1
           /\ ~IsOpen(NextProvider(k, f.ids, p + 1))
    BY <1>1, <1>2, NextProviderType
  <2> QED BY <1>2, <2>1 DEF Providers
<1>4. \A x \in DOMAIN calls : ~IsOpen(calls[x])
  BY <1>3
<1>5. /\ circuit' = [circuit EXCEPT ![p] = f.cell]
      /\ cell' = [called EXCEPT ![p] = answered_p]
      /\ rest' = [rest EXCEPT ![p] = Resting(k, p, outcome)]
      /\ UNCHANGED now
  BY <1>0 DEF ProviderAnswers
<1>6. \/ flight' = [flight EXCEPT ![k] = NoFlight]
      \/ (next # 0 /\ flight' = [flight EXCEPT ![k] = moved])
  BY <1>0 DEF ProviderAnswers, Settle, Moved
<1>7. called \in CellsOK
  BY <1>1, CellsAtCallType
<1> HIDE DEF f, empty, next, calls, called, held, answered_p
<1>8. next # 0 => moved \in Fetches /\ moved.provider = next
  <2>1. next # 0 => CellFor(k, next) \in Keys /\ now \in Times
    BY <1>1, <1>3 DEF TypeInv, CellFor
  <2> QED BY <1>1, <1>2, <1>3, <2>1, FetchMoves
<1> HIDE DEF moved
<1>9. \A x \in Keys \ {k} : flight'[x] = flight[x]
  BY <1>6 DEF Inv, TypeInv
<1>10. flight'[k] = NoFlight \/ (next # 0 /\ flight'[k].provider = next)
  BY <1>1, <1>6, <1>8 DEF TypeInv
<1>11. flight'[k].provider # p
  BY <1>2, <1>3, <1>10 DEF NoFlight, Providers
<1>12. rest' \in [Providers -> Rests]
  <2>1. Resting(k, p, outcome) \in Rests
    <3>1. CASE outcome = "limited"
      <4>1. flight[k].begun + Cooldown \in Int
        BY <1>2, CatalogueType DEF f, Times
      <4> QED BY <3>1, <4>1 DEF Resting, Rests
    <3>2. CASE outcome # "limited"
      <4>1. rest[p] \in Rests
        BY <1>2 DEF RestInv
      <4>2. \A q \in Rests, b \in BOOLEAN :
              [[q EXCEPT !.before = @ \ {k}] EXCEPT !.excused = b] \in Rests
        BY DEF Rests
      <4>3. Resting(k, p, outcome)
              = [[rest[p] EXCEPT !.before = @ \ {k}]
                   EXCEPT !.excused = rest[p].excused \/ k \in rest[p].before]
        BY <3>2, <4>1 DEF Resting, Rests
      <4> QED BY <4>1, <4>2, <4>3
    <3> QED BY <3>1, <3>2
  <2> QED BY <1>5, <2>1 DEF RestInv
<1>13. ASSUME NEW q \in Providers, q # p, AtRest(q)'
       PROVE  /\ circuit'[q] # Nobody
              /\ cell'[q][circuit'[q]].until >= rest'[q].until
              /\ \A x \in Keys : flight'[x].provider = q => x \in rest'[q].before
  <2>1. rest'[q] = rest[q] /\ circuit'[q] = circuit[q] /\ cell'[q] = called[q]
    BY <1>1, <1>5, <1>7, <1>13 DEF RestInv, TypeInv, CellsOK
  <2>2. AtRest(q)
    BY <1>5, <1>13, <2>1 DEF AtRest
  <2>3. /\ circuit[q] # Nobody /\ circuit[q] \in Keys
        /\ cell[q][circuit[q]].until >= rest[q].until
        /\ \A x \in Keys : flight[x].provider = q => x \in rest[q].before
    BY <1>1, <2>2 DEF RestInv, TypeInv
  <2>4. called[q][circuit[q]] = cell[q][circuit[q]]
    BY <1>1, <1>4, <2>2, <2>3, CallsLeaveRest DEF called
  <2>5. next # q
    BY <1>1, <1>3, <2>2, RestingIsOpen DEF Providers
  <2>6. flight'[k].provider # q
    BY <1>10, <2>5 DEF NoFlight, Providers
  <2> QED BY <1>9, <2>1, <2>3, <2>4, <2>6
<1>14. ASSUME AtRest(p)'
       PROVE  /\ circuit'[p] # Nobody
              /\ cell'[p][circuit'[p]].until >= rest'[p].until
              /\ \A x \in Keys : flight'[x].provider = p => x \in rest'[p].before
  <2>1. rest'[p] = Resting(k, p, outcome)
    BY <1>2, <1>5 DEF RestInv
  <2>2. outcome = "limited"
    <3> SUFFICES ASSUME outcome # "limited" PROVE FALSE
      OBVIOUS
    <3>1. rest[p] \in Rests
      BY <1>2 DEF RestInv
    <3>2. /\ Resting(k, p, outcome).until = rest[p].until
          /\ Resting(k, p, outcome).excused = (rest[p].excused \/ k \in rest[p].before)
      BY <3>1 DEF Resting, Rests
    <3>3. AtRest(p) /\ k \notin rest[p].before
      BY <1>5, <1>14, <2>1, <3>2 DEF AtRest
    <3> QED BY <1>0, <1>2, <3>3 DEF RestInv
  <2>3. /\ rest'[p].until = f.begun + Cooldown
        /\ rest'[p].before = {o \in Keys \ {k} : flight[o].provider = p}
    BY <2>1, <2>2 DEF Resting, f
  <2>4. circuit'[p] = f.cell /\ cell'[p] = answered_p
    BY <1>1, <1>2, <1>5, <1>7 DEF TypeInv, CellsOK
  <2>5. cell'[p][f.cell] = AfterCall(cell[p][f.cell], outcome, f.begun)
    BY <1>2, <2>4 DEF answered_p
  <2>6. AfterCall(cell[p][f.cell], outcome, f.begun).until = f.begun + Cooldown
    BY <2>2 DEF AfterCall, AfterFailure
  <2>7. f.begun + Cooldown \in Int
    BY <1>2, CatalogueType DEF Times
  <2>8. f.cell # Nobody
    BY <1>2, CatalogueType DEF Keys, Languages, Nobody
  <2> QED BY <1>9, <1>11, <2>3, <2>4, <2>5, <2>6, <2>7, <2>8
<1>15. RestInv'
  BY <1>12, <1>13, <1>14 DEF RestInv
<1>16. \A x \in Keys : flight'[x].provider # flight[x].provider /\ flight'[x] # NoFlight
         => flight'[x].provider \in Providers /\ ~IsOpen(flight'[x].provider)
  BY <1>3, <1>9, <1>10
<1> QED BY <1>15, <1>16

LEMMA RestInit == Init => RestInv
<1> SUFFICES ASSUME Init PROVE RestInv
  OBVIOUS
<1>1. NoRest \in Rests /\ NoRest.until = 0
  BY DEF NoRest, Rests
<1>2. now = 0 /\ rest = [p \in Providers |-> NoRest]
  BY DEF Init
<1>3. \A p \in Providers : ~AtRest(p)
  BY <1>1, <1>2 DEF AtRest
<1> QED BY <1>1, <1>2, <1>3 DEF RestInv

\* Steps that touch neither calls nor circuits, and let time pass at most.
LEMMA RestKept ==
  ASSUME TypeInv, RestInv, now' \in Int, now <= now',
         UNCHANGED <<flight, circuit, cell>>,
         \/ UNCHANGED rest
         \/ rest' = [p \in Providers |-> IF rest[p].until <= now' THEN NoRest ELSE rest[p]]
  PROVE  RestInv'
<1>1. NoRest \in Rests /\ NoRest.until = 0 /\ now \in Int /\ now >= 0
  BY CatalogueType DEF NoRest, Rests, TypeInv, Times
<1>2. rest' \in [Providers -> Rests]
  BY <1>1 DEF RestInv
<1>3. ASSUME NEW p \in Providers, AtRest(p)'
      PROVE  AtRest(p) /\ rest'[p] = rest[p]
  <2>1. rest[p] \in Rests /\ rest[p].until \in Int
    BY DEF RestInv, Rests
  <2>2. rest'[p] = rest[p] \/ rest'[p] = NoRest
    OBVIOUS
  <2>3. rest'[p].until > now' /\ ~rest'[p].excused
    BY <1>3 DEF AtRest
  <2>4. rest'[p] = rest[p]
    BY <1>1, <2>2, <2>3
  <2> QED BY <1>1, <2>1, <2>3, <2>4 DEF AtRest
<1> QED BY <1>2, <1>3 DEF RestInv

LEMMA RestStep == Inv /\ RestInv /\ [Next]_vars => RestInv'
<1> SUFFICES ASSUME Inv, RestInv, [Next]_vars PROVE RestInv'
  OBVIOUS
<1>1. TypeInv /\ now \in Int
  BY DEF Inv, TypeInv, Times
<1>2. ASSUME NEW r \in Requests, NEW keys \in Asking[r], Request(r, keys)
      PROVE  RestInv'
  <2> DEFINE entry == Enter(guard, ClientOf[r], now)
  <2>1. UNCHANGED now
    BY <1>2 DEF Request
  <2>2. CASE Ask(r, entry, keys)
    BY <2>1, <2>2, RestAsk
  <2>3. CASE Refuse(r, entry) \/ Missing(r, entry, keys)
    <3>1. UNCHANGED <<flight, circuit, cell, rest>>
      BY <2>3 DEF Refuse, Missing, service
    <3> QED BY <1>1, <2>1, <3>1, RestKept
  <2> QED BY <1>2, <2>2, <2>3 DEF Request
<1>3. ASSUME NEW k \in Keys, Answers(k)
      PROVE  RestInv'
  <2>1. PICK outcome : ProviderAnswers(k, outcome)
    BY <1>3 DEF Answers
  <2>2. flight[k] # NoFlight
    BY <1>3 DEF Answers
  <2> QED BY <2>1, <2>2, RestAnswer
<1>4. CASE Tick \/ Maintain \/ UNCHANGED vars
  <2>1. /\ now' \in Int /\ now <= now' /\ UNCHANGED <<flight, circuit, cell>>
        /\ \/ UNCHANGED rest
           \/ rest' = [p \in Providers |-> IF rest[p].until <= now' THEN NoRest ELSE rest[p]]
    BY <1>1, <1>4 DEF Tick, Maintain, vars, service
  <2> QED BY <1>1, <2>1, RestKept
<1>5. CASE Signal
  <2>1. rest' = [p \in Providers |-> NoRest] /\ now' = now
    BY <1>5 DEF Signal
  <2>2. NoRest \in Rests /\ NoRest.until = 0 /\ now >= 0
    BY <1>1, CatalogueType DEF NoRest, Rests, TypeInv, Times
  <2>3. \A p \in Providers : ~AtRest(p)'
    BY <1>1, <2>1, <2>2 DEF AtRest
  <2> QED BY <2>1, <2>2, <2>3 DEF RestInv
<1> QED BY <1>2, <1>3, <1>4, <1>5 DEF Next

\* Every call that a step begins is of a provider whose circuit is closed.
LEMMA CallsAreOfClosed ==
  ASSUME Inv, RestInv, Next, NEW k \in Keys, flight'[k] # NoFlight,
         flight'[k].provider # flight[k].provider
  PROVE  flight'[k].provider \in Providers /\ ~IsOpen(flight'[k].provider)
<1>1. ASSUME NEW r \in Requests, NEW keys \in Asking[r], Request(r, keys)
      PROVE  flight'[k].provider \in Providers /\ ~IsOpen(flight'[k].provider)
  <2>1. Ask(r, Enter(guard, ClientOf[r], now), keys) /\ UNCHANGED now
    BY <1>1 DEF Request, Refuse, Missing, service
  <2> QED BY <2>1, RestAsk
<1>2. ASSUME NEW q \in Keys, Answers(q)
      PROVE  flight'[k].provider \in Providers /\ ~IsOpen(flight'[k].provider)
  <2>1. PICK outcome : ProviderAnswers(q, outcome)
    BY <1>2 DEF Answers
  <2>2. flight[q] # NoFlight
    BY <1>2 DEF Answers
  <2> QED BY <2>1, <2>2, RestAnswer
<1>3. ~(Tick \/ Maintain \/ Signal)
  BY DEF Tick, Maintain, Signal
<1> QED BY <1>1, <1>2, <1>3 DEF Next

\* A provider that answered 429 is left alone until its cooldown is over, unless a call
\* that was under way then ends before (callProvider).
THEOREM CircuitsRest == Spec => CircuitRests
<1>1. Inv /\ RestInv /\ [Next]_vars
        => [\A k \in Keys :
              (flight'[k] # NoFlight /\ flight'[k].provider # flight[k].provider)
                => LET p == flight'[k].provider
                   IN  now >= rest[p].until \/ rest[p].excused]_vars
  <2> SUFFICES ASSUME Inv, RestInv, Next, NEW k \in Keys, flight'[k] # NoFlight,
                      flight'[k].provider # flight[k].provider
               PROVE  LET p == flight'[k].provider
                      IN  now >= rest[p].until \/ rest[p].excused
    OBVIOUS
  <2>1. PICK p : p = flight'[k].provider
    OBVIOUS
  <2>2. p \in Providers /\ ~IsOpen(p)
    BY <2>1, CallsAreOfClosed
  <2>3. TypeInv /\ now \in Int
    BY DEF Inv, TypeInv, Times
  <2>4. ~AtRest(p)
    BY <2>2, <2>3, RestingIsOpen
  <2>5. rest[p] \in Rests /\ rest[p].until \in Int
    BY <2>2 DEF RestInv, Rests
  <2> QED BY <2>1, <2>3, <2>4, <2>5 DEF AtRest
<1> QED BY <1>1, Invariant, RestInit, RestStep, PTL DEF Spec, CircuitRests

=============================================================================
