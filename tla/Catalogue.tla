------------------------------ MODULE Catalogue ------------------------------
(***************************************************************************)
(* The catalogue side of the server: a visitor's request passes the guard, *)
(* is answered from the cache or waits for a fetch that all requests for   *)
(* the same thing share, and the fetch asks the providers in turn, each    *)
(* behind a circuit (server/app.ts, server/catalog/service.ts, the cache   *)
(* of server/store.ts), until the process is told to stop                  *)
(* (server/shutdown.ts).                                                   *)
(*                                                                         *)
(* Node runs one task at a time and SQLite is synchronous: what happens    *)
(* between two provider answers is one step.                               *)
(***************************************************************************)
EXTENDS RequestGuard, FiniteSetsExt

CONSTANTS
  Requests,       \* each made once
  ClientOf,       \* who makes it
  Cards,
  CardIn,         \* the card a search finds, per language
  Asking,         \* what each request may be for: languages to search, or a card
  Configurations, \* the sets of sources that may be enabled, as positions
  Replies,        \* how exchanges with each provider may end
  Threshold,      \* providerFailureThreshold
  Cooldown,       \* providerCooldownMs
  FreshFor,       \* cacheFreshMs
  StaleFor,       \* cacheMaxStaleMs
  MaxEntries,     \* catalogueCacheMaxEntries
  Saved,          \* the caches an earlier process may have left, before time 0
  MaxTime         \* bound of the model on the clock

Languages == {"en", "fr"}     \* CARD_LANGUAGES
Keys == Languages \cup Cards  \* of one query: its searches, and the cards
Providers == {1, 2}           \* primary and secondary, which is English only
Nobody == "none"              \* no state object yet

\* How an exchange with a provider may end: a list or a card, an empty list, HTTP 404
\* or 429, anything else (another status, the timeout, too long, not what it should be).
Exchanges == {"some", "none", "404", "429", "failed"}

ASSUME CatalogueType ==
  /\ Replies \in [Providers -> SUBSET Exchanges]
  /\ ClientOf \in [Requests -> Clients]
  /\ CardIn \in [Languages -> Cards]
  /\ Cards \cap (Languages \cup {Nobody}) = {}
  /\ \A r \in Requests : \A keys \in Asking[r] :
       keys \in (SUBSET Languages) \ {{}} \/ \E card \in Cards : keys = {card}
  /\ Configurations \subseteq SUBSET Providers
  /\ \A n \in {Threshold, Cooldown, FreshFor, StaleFor, MaxEntries} : n \in Nat \ {0}
  /\ \A rows \in Saved :
       /\ DOMAIN rows \subseteq (SUBSET Providers) \X Keys
       /\ Range(rows) \subseteq [source : Providers, ids : SUBSET Providers,
                                  at : Int, detail : BOOLEAN]
       /\ Cardinality(DOMAIN rows) <= MaxEntries
  /\ MaxTime \in Nat

VARIABLES
  now, guard,
  enabled,  \* the sources this process may use
  phase,    \* "up", "closed" once a signal came
  cache,    \* rows of catalogue_cache, by the policy and the key
  flight,   \* inFlight, and where the fetch is
  circuit,  \* circuits: whose state object a provider has
  cell,     \* the state objects, named by the provider and the fetch that made them
  request,
  answered, \* history: the answers given in the last step
  rest      \* history: until when a provider asked to be left alone

service == <<cache, flight, circuit, cell, rest>>
vars == <<now, guard, enabled, phase, service, request, answered>>

NoSource == 0
NoFlight == [provider |-> 0]
Asked == [pc |-> "idle"]
ClosedCell == [failures |-> 0, until |-> 0]
NoRest == [until |-> 0, before |-> {}, excused |-> FALSE]

-----------------------------------------------------------------------------
(* The cache.  A row of a search remembers its source, a row of a card also  *)
(* the providers that know the card; details are fresh for a while, the      *)
(* summaries of a search never are.                                         *)

\* searchKey, cardKey.
CacheKey(k) == <<enabled, k>>

StaleAt(row) == IF row.detail THEN row.at + FreshFor ELSE row.at
Expired(row, time) == row.at + StaleFor <= time

Row(k) == cache[CacheKey(k)]
Cached(k) == CacheKey(k) \in DOMAIN cache /\ ~Expired(Row(k), now)
IsFresh(k) == Cached(k) /\ StaleAt(Row(k)) > now

\* pruneCatalogueCache: expired rows, then the oldest of the excess.
Prune(rows, time) ==
  LET live == {x \in DOMAIN rows : ~Expired(rows[x], time)}
      excess == Cardinality(live) - MaxEntries
      oldest == IF excess <= 0 THEN {}
                ELSE CHOOSE old \in SUBSET live :
                       /\ Cardinality(old) = excess
                       /\ \A x \in old, y \in live \ old : rows[x].at <= rows[y].at
  IN  Restrict(rows, live \ oldest)

\* putCache, by a fetch that began at the row's time.
Put(rows, key, row) ==
  Prune([x \in DOMAIN rows \cup {key} |-> IF x = key THEN row ELSE rows[x]], row.at)

\* rememberSearchCard.
RememberCard(rows, key, row) ==
  IF key \in DOMAIN rows /\ ~Expired(rows[key], row.at) /\ StaleAt(rows[key]) > row.at
  THEN rows
  ELSE Put(rows, key, row)

\* The rows after a fetch for k that a provider answered, with cards or not.
\* A merged card keeps what it knew of itself.
Stored(k, p, found) ==
  LET f == flight[k]
      row(ids, detail) == [source |-> p, ids |-> ids, at |-> f.at, detail |-> detail]
      card == CacheKey(CardIn[IF p = 2 THEN "en" ELSE k])
  IN  IF k \in Cards THEN Put(cache, CacheKey(k), row(f.ids \cup {p}, TRUE))
      ELSE IF found
      THEN RememberCard(Put(cache, CacheKey(k), row({}, TRUE)), card, row({p}, FALSE))
      ELSE Put(cache, CacheKey(k), row({}, TRUE))

Init ==
  /\ now = 0 /\ guard = NewGuard
  /\ enabled \in Configurations
  /\ phase = "up"
  /\ \E rows \in Saved : cache = Prune(rows, 0)
  /\ flight = [k \in Keys |-> NoFlight]
  /\ circuit = [p \in Providers |-> Nobody]
  /\ cell = [p \in Providers |-> [k \in Keys |-> ClosedCell]]
  /\ request = [r \in Requests |-> Asked]
  /\ answered = {}
  /\ rest = [p \in Providers |-> NoRest]

-----------------------------------------------------------------------------
(* Providers and their circuits.  A call keeps the state object it found; a  *)
(* provider nobody called yet has none, and each of its first calls makes    *)
(* its own.                                                                 *)

IsOpen(p) == circuit[p] # Nobody /\ cell[p][circuit[p]].until > now

\* The first provider from a position on that a fetch for k would call; a card
\* is asked of the primary only by the primary's identifier.
NextProvider(k, ids, from) ==
  LET able == {p \in enabled : /\ p >= from /\ ~IsOpen(p)
                               /\ (k \in Languages \/ p = 2 \/ p \in ids)}
  IN  IF able = {} THEN 0 ELSE Min(able)

CellFor(k, p) == IF circuit[p] = Nobody THEN k ELSE circuit[p]

\* The cells once calls of providers have begun: an expired opening is forgotten.
CellsAtCall(calls) ==
  [p \in Providers |-> [c \in Keys |->
     IF \E k \in DOMAIN calls : calls[k] = p /\ CellFor(k, p) = c
                                /\ (circuit[p] = Nobody \/ cell[p][c].until > 0)
     THEN ClosedCell ELSE cell[p][c]]]

\* Mutant: a refusal counts as any failure.
AfterFailureSlow(state, outcome, begun) ==
  [failures |-> state.failures + 1,
   until |-> IF state.failures + 1 >= Threshold THEN begun + Cooldown ELSE state.until]

AfterFailure(state, outcome, begun) ==
  [failures |-> state.failures + 1,
   until |-> IF outcome = "limited" \/ state.failures + 1 >= Threshold
             THEN begun + Cooldown ELSE state.until]

\* What callProvider makes of an answer.
AfterCall(state, outcome, begun) ==
  IF outcome \in {"cards", "empty"} THEN ClosedCell
  ELSE AfterFailure(state, outcome, begun)

\* What search and getCard of the adapters make of exchanges.  A search goes on to its
\* next query while there is nothing; a card that is not known is no failure.
Ended(exchange) ==
  CASE exchange = "some" -> "cards"
    [] exchange = "none" -> "empty"
    [] exchange = "429" -> "limited"
    [] exchange \in {"404", "failed"} -> "error"

SearchOutcomes(p) == {Ended(last) : last \in Replies[p]}

CardOutcomes(p) ==
  {IF exchange = "404" THEN "empty" ELSE Ended(exchange) :
     exchange \in Replies[p] \ {"none"}}

-----------------------------------------------------------------------------
(* Requests.  The result of a search or a card: its source, or NoSource, when  *)
(* every provider failed and nothing was cached.                            *)

\* Mutant: only what is fresh counts.
FallbackFresh(k) == IF IsFresh(k) THEN Row(k).source ELSE NoSource

Fallback(k) == IF Cached(k) THEN Row(k).source ELSE NoSource

\* searchCatalogueLanguages: both languages or nothing, and French results are
\* never English ones.
Outcome(keys, got) ==
  IF NoSource \in Range(got) \/ (keys = Languages /\ got["fr"] = 2)
  THEN "unavailable" ELSE "answered"

Finished(r) == [pc |-> "done", at |-> r.at]

Answer(r, keys, got) ==
  [to |-> r, keys |-> keys, sources |-> Range(got) \ {NoSource},
   outcome |-> Outcome(keys, got)]

Over(keys, got) == keys = DOMAIN got

Waiting == {r \in Requests : request[r].pc = "waiting"}
Admitted == {r \in Requests : request[r].pc \in {"waiting", "done"}}

\* For the history, a request that is refused remembers who was admitted before it.
Refuse(r, entry) ==
  /\ ~entry.allowed
  /\ guard' \in entry.guards
  /\ request' = [request EXCEPT ![r] =
       [pc |-> "refused", reason |-> entry.reason, retryAt |-> entry.retryAt,
        before |-> Admitted]]
  /\ answered' = {}
  /\ UNCHANGED service

\* Reading a row that has expired deletes it.
Read(keys) ==
  cache' = Restrict(cache, {x \in DOMAIN cache :
             ~(x \in {CacheKey(k) : k \in keys} /\ Expired(cache[x], now))})

\* A card nobody has seen in a search is not there.
Missing(r, entry, keys) ==
  /\ entry.allowed
  /\ \E k \in keys \cap Cards : ~Cached(k)
  /\ Read(keys)
  /\ request' = [request EXCEPT ![r] =
       [pc |-> "done", at |-> now]]
  /\ answered' = {[to |-> r, keys |-> keys, sources |-> {}, outcome |-> "notfound"]}
  /\ \E g \in entry.guards : guard' = Release(g, 1)
  /\ UNCHANGED <<flight, circuit, cell, rest>>

\* Fresh rows answer at once, fetches in flight are joined, the rest begins.
Ask(r, entry, keys) ==
  LET ids(k) == IF k \in Cards THEN Row(k).ids ELSE {}
      stale == {k \in keys : ~IsFresh(k)}
      begun == {k \in stale : flight[k] = NoFlight /\ NextProvider(k, ids(k), 1) # 0}
      calls == [k \in begun |-> NextProvider(k, ids(k), 1)]
      ready == {k \in keys : IsFresh(k) \/ (flight[k] = NoFlight /\ k \notin begun)}
      got == [k \in ready |-> Fallback(k)]
      asked == [pc |-> "waiting", at |-> now,
                keys |-> keys, got |-> got]
  IN
  /\ entry.allowed
  /\ \A k \in keys \cap Cards : Cached(k)
  /\ Read(keys)
  /\ flight' = [k \in Keys |->
       IF k \in begun
       THEN [provider |-> calls[k], cell |-> CellFor(k, calls[k]), begun |-> now,
             at |-> now, ids |-> ids(k), fallback |-> Fallback(k), empty |-> NoSource]
       ELSE flight[k]]
  /\ cell' = CellsAtCall(calls)
  /\ UNCHANGED <<circuit, rest>>
  /\ \E g \in entry.guards :
       IF Over(keys, got)
       THEN /\ request' = [request EXCEPT ![r] = Finished(asked)]
            /\ answered' = {Answer(r, keys, got)}
            /\ guard' = Release(g, 1)
       ELSE /\ request' = [request EXCEPT ![r] = asked]
            /\ answered' = {}
            /\ guard' = g

\* GET /api/catalog/cards in one language or both, and .../cards/:id.
Request(r, keys) ==
  LET entry == Enter(guard, ClientOf[r], now)
  IN
  /\ phase = "up"
  /\ request[r].pc = "idle"
  /\ Refuse(r, entry) \/ Missing(r, entry, keys) \/ Ask(r, entry, keys)
  /\ UNCHANGED <<now, enabled, phase>>

\* Mutant: only the request that began the fetch is answered.
JoinedBy(r, k) == request[r].pc = "waiting" /\ k \in request[r].keys \ DOMAIN request[r].got
                  /\ request[r].at = flight[k].at

Awaits(r, k) == request[r].pc = "waiting" /\ k \in request[r].keys \ DOMAIN request[r].got

\* A fetch ends: nobody can join it any more, whoever waited has its result, and who
\* has them all is answered and leaves the guard.
Settle(k, result, rows) ==
  LET waiting == {r \in Requests : Awaits(r, k)}
      got == [r \in waiting |->
                [x \in DOMAIN request[r].got \cup {k} |->
                   IF x = k THEN result ELSE request[r].got[x]]]
      over == {r \in waiting : Over(request[r].keys, got[r])}
  IN
  /\ flight' = [flight EXCEPT ![k] = NoFlight]
  /\ cache' = rows
  /\ request' = [r \in Requests |->
       IF r \in over THEN Finished(request[r])
       ELSE IF r \in waiting THEN [request[r] EXCEPT !.got = got[r]]
       ELSE request[r]]
  /\ answered' = {Answer(r, request[r].keys, got[r]) : r \in over}
  /\ guard' = Release(guard, Cardinality(over))

\* The provider asked to be left alone; calls that were under way may change
\* what the circuit knows.
Resting(k, p, outcome) ==
  IF outcome = "limited"
  THEN [until |-> flight[k].begun + Cooldown,
        before |-> {o \in Keys \ {k} : flight[o].provider = p}, excused |-> FALSE]
  ELSE [rest[p] EXCEPT !.before = @ \ {k}, !.excused = @ \/ k \in rest[p].before]

\* The call of a fetch ends: with cards (or the card), without, with a failure
\* or the timeout, or with a 429.
ProviderAnswers(k, outcome) ==
  LET f == flight[k]
      p == f.provider
      empty == IF outcome = "empty" /\ f.empty = NoSource THEN p ELSE f.empty
      next == IF outcome = "cards" THEN 0 ELSE NextProvider(k, f.ids, p + 1)
      called == CellsAtCall(IF next = 0 THEN <<>> ELSE [x \in {k} |-> next])
      held == {flight[o].cell : o \in {x \in Keys \ {k} : flight[x].provider = p}}
  IN
  /\ f # NoFlight
  /\ circuit' = [circuit EXCEPT ![p] = f.cell]
  /\ cell' = [called EXCEPT ![p] = [c \in Keys |->
       IF c = f.cell THEN AfterCall(cell[p][c], outcome, f.begun)
       ELSE IF c \in held THEN cell[p][c] ELSE ClosedCell]]
  /\ rest' = [rest EXCEPT ![p] = Resting(k, p, outcome)]
  /\ \/ /\ outcome = "cards"
        /\ Settle(k, p, Stored(k, p, TRUE))
     \/ /\ next # 0
        /\ flight' = [flight EXCEPT ![k] =
             [f EXCEPT !.provider = next, !.cell = CellFor(k, next), !.begun = now,
                       !.empty = empty]]
        /\ answered' = {}
        /\ UNCHANGED <<cache, request, guard>>
     \/ /\ outcome # "cards" /\ next = 0 /\ k \in Languages /\ empty # NoSource
        /\ Settle(k, empty, Stored(k, empty, FALSE))
     \/ /\ outcome # "cards" /\ next = 0 /\ (k \in Cards \/ empty = NoSource)
        /\ Settle(k, f.fallback, cache)
  /\ UNCHANGED <<now, enabled, phase>>

-----------------------------------------------------------------------------
(* Time, maintenance and the process.                                       *)

Tick ==
  /\ phase = "up"
  /\ now < MaxTime
  /\ now' = now + 1
  /\ answered' = {}
  /\ rest' = [p \in Providers |-> IF rest[p].until <= now' THEN NoRest ELSE rest[p]]
  /\ UNCHANGED <<guard, enabled, phase, cache, flight, circuit, cell, request>>

Maintain ==
  /\ phase = "up"
  /\ cache' = Prune(cache, now)
  /\ answered' = {}
  /\ UNCHANGED <<now, guard, enabled, phase, flight, circuit, cell, request, rest>>

\* The first signal closes the store and every connection at once; what the process
\* has in memory, and what fetches in flight still bring, is lost.
Signal ==
  /\ phase = "up"
  /\ phase' = "closed"
  /\ flight' = [k \in Keys |-> NoFlight]
  /\ request' = [r \in Requests |->
       IF request[r].pc = "waiting" THEN [pc |-> "cut"] ELSE request[r]]
  /\ answered' = {}
  /\ guard' = NewGuard
  /\ circuit' = [p \in Providers |-> Nobody]
  /\ cell' = [p \in Providers |-> [k \in Keys |-> ClosedCell]]
  /\ rest' = [p \in Providers |-> NoRest]
  /\ UNCHANGED <<now, enabled, cache>>

Answers(k) ==
  LET f == flight[k]
  IN  /\ f # NoFlight
      /\ \E outcome \in IF k \in Cards /\ f.provider \in f.ids
                        THEN CardOutcomes(f.provider) ELSE SearchOutcomes(f.provider) :
           ProviderAnswers(k, outcome)

Next ==
  \/ \E r \in Requests : \E keys \in Asking[r] : Request(r, keys)
  \/ \E k \in Keys : Answers(k)
  \/ Tick \/ Maintain \/ Signal

Spec == Init /\ [][Next]_vars

-----------------------------------------------------------------------------
\* Type invariant: the maps of CatalogueService, the rows of the cache and the
\* local state of every request hold what the code can put there.
TypeOK ==
  /\ now \in 0..MaxTime
  /\ GuardOK(guard)
  /\ enabled \in Configurations
  /\ phase \in {"up", "closed"}
  /\ DOMAIN cache \subseteq (SUBSET Providers) \X Keys
  /\ Range(cache) \subseteq [source : Providers, ids : SUBSET Providers,
                             at : Int, detail : BOOLEAN]
  /\ \A k \in Keys : flight[k] = NoFlight \/ flight[k].provider \in enabled
  /\ circuit \in [Providers -> Keys \cup {Nobody}]
  /\ cell \in [Providers -> [Keys -> [failures : Nat, until : 0..(MaxTime + Cooldown)]]]
  /\ \A r \in Requests :
       /\ request[r].pc \in {"idle", "waiting", "refused", "done", "cut"}
       /\ request[r].pc = "waiting" => DOMAIN request[r].got \subseteq request[r].keys

\* A client that its own limit refused and that comes back after Retry-After is not
\* charged any more for what it did before the refusal (retryAfterSeconds, currentWindow).
RetryAfterSuffices ==
  \A r \in Requests :
    (/\ phase = "up" /\ request[r].pc = "refused" /\ request[r].reason = "client"
     /\ now >= request[r].retryAt)
      => ClientWindow(guard, ClientOf[r], now).count
           <= Cardinality({o \in Admitted : /\ ClientOf[o] = ClientOf[r]
                                            /\ o \notin request[r].before})

\* Nobody waits for a fetch that is over: each ends with an answer for all who
\* joined it, and the end of the process cuts off the rest (finally of search and
\* getCard, closeAllConnections).
NobodyWaitsInVain ==
  \A r \in Waiting : \A k \in request[r].keys \ DOMAIN request[r].got :
    phase = "up" /\ flight[k] # NoFlight

\* A request for one thing is refused only where the cache, as it is then, holds nothing
\* that was usable when the request was made (staleCache in fetchSearch, fetchCard).
StaleBeatsError ==
  [][\A a \in answered' :
       LET k == CHOOSE key \in a.keys : TRUE
       IN  (a.outcome = "unavailable" /\ a.keys = {k})
             => \/ CacheKey(k) \notin DOMAIN cache
                \/ Expired(Row(k), request'[a.to].at)]_vars

\* A provider that answered 429 is not called again before its cooldown is over,
\* unless a call that was already under way has ended since (callProvider).
CircuitRests ==
  [][\A k \in Keys :
       (flight'[k] # NoFlight /\ flight'[k].provider # flight[k].provider)
         => LET p == flight'[k].provider
            IN  now >= rest[p].until \/ rest[p].excused]_vars

=============================================================================
