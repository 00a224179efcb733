------------------------------ MODULE Collection ------------------------------
(***************************************************************************)
(* The repository of one browser (src/lib/db.ts) and what its tabs show of *)
(* it.  IndexedDB keeps the events of every domain, anonymous or of an     *)
(* account; every edit, every CSV row and every backup becomes events, in  *)
(* one transaction that replays the domain strictly before it writes.      *)
(* A write is shown by reading everything again, in the tab that made it   *)
(* and, after a message, in the others, while the tabs change accounts.    *)
(*                                                                         *)
(* A holding is named by the id of the event that added it.  A copy is a   *)
(* card, with the quotes it was found with, its finish, condition, cost    *)
(* (with its note and date) and quote.  The exchange with the service is   *)
(* one step; AccountSync takes it apart.                                   *)
(* Locks and enrollment records are in AccountSync and Enrollment.         *)
(*                                                                         *)
(* A timestamp as toISOString writes it, before the year 10000, is its     *)
(* instant, a number.  A file may hold others ("...00Z", an offset), which *)
(* Date.parse accepts and which sort elsewhere as text.                    *)
(***************************************************************************)
EXTENDS Valuation

CONSTANTS
  Tabs,
  Anonymous,    \* the domain without an account
  Accounts,     \* the domains of accounts
  Cards,
  Printing,     \* what a card is whatever it was found with: its id and language
  Offered,      \* the quotes each card was found with: sequences of quotes
  Finishes,
  Conditions,
  Costs,        \* what a copy may have cost: Missing or [amount, currency]
  Preferences,  \* what loadValuationPreference may return: [market, currency]
  Scanned,      \* what the user looks up and adds: [card, finish, condition, cost]
  Corrections,  \* what the user makes of a holding: [field, value]
  Settings,     \* the tabs with the settings page: account, files and sync
  MaxQuantity,  \* MAX_HOLDING_QUANTITY
  Clock,        \* what Date.now() may return; it may go back
  OtherTimes,   \* timestamps written otherwise: their instant, their place
                \* by localeCompare (collated) and by > (ordered)
  None,         \* not in a payload
  Stored,       \* the events an earlier session left, by domain
  Backup,       \* the backup file at hand at first, made on another device
  Rows,         \* the CSV files: sequences of rows [copy, amount]
  Taken,        \* no identifier in Stored or Backup is above it
  MaxActs       \* bound: edits, imports, exports, syncs, changes of account

Domains == {Anonymous} \cup Accounts

\* What an event tells of a holding, whole when it adds it: a finish or a condition
\* goes with the quote selected for it (createHolding, updateFinish, updateCondition).
Fields == {"card", "finish", "condition", "cost", "quote"}
Quotes == UNION {{Offered[card][n] : n \in DOMAIN Offered[card]} : card \in Cards}
Suits(quote, told) ==
  quote # Missing => /\ told.finish # None => FinishFits(quote, told.finish)
                     /\ told.condition # None => ConditionFits(quote, told.condition)
Payloads ==
  {told \in [card : Cards \cup {None}, finish : Finishes \cup {None},
             condition : Conditions \cup {None}, cost : Costs \cup {None},
             quote : Quotes \cup {Missing, None}] :
     /\ told.finish # None \/ told.condition # None <=> told.quote # None
     /\ told.quote # None => Suits(told.quote, told)}
Copies == {told \in Payloads : \A field \in Fields : told[field] # None}
Nothing == [field \in Fields |-> None]

Times == Nat \cup DOMAIN OtherTimes
Instant(time) == IF time \in Nat THEN time ELSE OtherTimes[time].instant
Collated(time) == IF time \in Nat THEN 2 * time ELSE OtherTimes[time].collated
Ordered(time) == IF time \in Nat THEN 2 * time ELSE OtherTimes[time].ordered

ASSUME QuantityType == MaxQuantity \in Nat \ {0}
ASSUME ClockType == Clock \subseteq Nat /\ Clock # {}
ASSUME TimesType ==
  /\ DOMAIN OtherTimes \cap Nat = {}
  /\ \A time \in DOMAIN OtherTimes :
       /\ OtherTimes[time].instant \in Nat
       /\ OtherTimes[time].collated \in Nat /\ OtherTimes[time].ordered \in Nat
ASSUME SettingsType == Settings \subseteq Tabs
ASSUME CopiesType ==
  /\ None \notin Cards /\ None \notin Finishes /\ None \notin Conditions
  /\ None \notin Costs /\ None \notin Quotes /\ None # Missing
  /\ Missing \notin Conditions
  /\ \A card \in Cards : QuotesType(Offered[card])
  /\ \A cost \in Costs : cost = Missing \/ cost.amount \in Int
  /\ Scanned \subseteq [card : Cards, finish : Finishes, condition : Conditions, cost : Costs]
  /\ \A change \in Corrections :
       \/ change.field = "finish" /\ change.value \in Finishes
       \/ change.field = "condition" /\ change.value \in Conditions
       \/ change.field = "cost" /\ change.value \in Costs
ASSUME RowsType == Rows \subseteq Seq([copy : Copies, amount : Int])
ASSUME BoundType == MaxActs \in Nat /\ Taken \in Nat

VARIABLES
  events,    \* the events of each domain
  made,      \* the last identifier this browser gave an event
  file,      \* the backup file at hand
  edits,     \* edits that wait for their transaction
  active,    \* activeSyncSubject of each tab, as a domain
  selected,  \* selectedAuthSubject of each tab, as a domain
  phase,     \* how far subjectSelection is
  reads,     \* the refreshes of each tab that wait for IndexedDB
  shown,     \* the snapshot each tab shows
  notified,  \* tabs with a message on the BroadcastChannel
  acts       \* edits, imports, exports, syncs and changes of account so far

data == <<events, made, file>>
view == <<active, selected, phase, shown, notified>>
vars == <<events, made, file, edits, active, selected, phase, reads, shown,
          notified, acts>>

-----------------------------------------------------------------------------
(* Replay.                                                                  *)

Types == {"holding.added", "holding.quantity-adjusted", "holding.updated",
          "holding.removed"}

\* An added event carries its holding (createAddedEvent), with an updatedAt that
\* nothing ties to occurredAt; any other event updates at occurredAt.
EventType ==
  {e \in [id : Nat, type : Types, holding : Nat, amount : Int, told : Payloads,
          at : Times, updated : Times, seq : Nat] :
     IF e.type = "holding.added" THEN e.told \in Copies ELSE e.updated = e.at}

\* compareCollectionEvents: what the service numbered, then the rest by occurredAt,
\* compared as text.
Before(e, f) ==
  IF e.seq # 0 /\ f.seq # 0 THEN e.seq < f.seq
  ELSE IF e.seq # 0 \/ f.seq # 0 THEN e.seq # 0
  ELSE \/ Collated(e.at) < Collated(f.at)
       \/ Collated(e.at) = Collated(f.at) /\ e.id < f.id

\* The sequence of the events in that order (written as a concatenation, which TLC
\* computes once).
Replayed(E) ==
  [n \in 1..Cardinality(E) |->
     CHOOSE e \in E : Cardinality({f \in E : Before(f, e)}) = n - 1] \o <<>>

Log(E) == INSTANCE HoldingLog
            WITH Holdings <- {e.holding : e \in E}, Operations <- E

\* validateAndReplayCollection accepts the events.
Strict(E) == Log(E)!LegalFrom(Replayed(E), 1)

\* An event has an identifier of its own, and the service numbers each once.
Distinct(E) ==
  \A e, f \in E : (e.id = f.id \/ (e.seq # 0 /\ e.seq = f.seq)) => e = f

\* What an earlier session left replays; a backup is another device's, or an older
\* state of this one, and says nothing of the service's order (eventsToJson).
\* Identifiers are random (makeId): none is given twice.
ASSUME StoredType ==
  /\ Stored \in [Domains -> SUBSET EventType]
  /\ \A d \in Domains : IsFiniteSet(Stored[d]) /\ Distinct(Stored[d]) /\ Strict(Stored[d])
  /\ \A c, d \in Domains : \A e \in Stored[c], f \in Stored[d] : e.id = f.id => c = d
  /\ Backup \subseteq EventType /\ IsFiniteSet(Backup) /\ Distinct(Backup)
  /\ \A e \in Backup : e.seq = 0
  /\ \A e \in Backup \cup UNION {Stored[d] : d \in Domains} : e.id <= Taken

\* The active holdings: quantity, the copy as it was told field by field, and
\* updatedAt.
HoldingsOf(E) ==
  LET log == Replayed(E)
      quantity == Log(E)!Quantities(log)[Len(log)]
      Final(S) == CHOOSE n \in S : \A i \in S : i <= n
      Of(h) == {n \in DOMAIN log : log[n].holding = h}
      Telling(h, field) == {n \in Of(h) : log[n].told[field] # None}
  IN  {[id |-> h, quantity |-> quantity[h],
        copy |-> [field \in Fields |-> log[Final(Telling(h, field))].told[field]],
        updatedAt |-> log[Final(Of(h))].updated] :
          h \in {e.holding : e \in {f \in E : quantity[f.holding] > 0}}}

Holding(E, h) == CHOOSE holding \in HoldingsOf(E) : holding.id = h

\* The last of some events.
LastOf(S) == CHOOSE e \in S : \A f \in S : f = e \/ Before(f, e)

-----------------------------------------------------------------------------
(* New events.                                                              *)

\* Mutant: the clock is trusted.
StampNow(now, floor) == now

\* nextCollectionEventTimestamp: now, but after what the event changes.
Stamp(now, floor) == IF now > floor THEN now ELSE floor + 1
NoFloor == -1

\* holdingSignature, copyMetadataMatches.
Alike(copy, other) ==
  /\ Printing[copy.card] = Printing[other.card]
  /\ \A field \in Fields \ {"card"} : copy[field] = other[field]

\* Mutant: what a holding was added as, whatever it became.
DuplicatesAsAdded(E, copy) ==
  {h \in HoldingsOf(E) : \E e \in E : e.id = h.id /\ Alike(e.told, copy)}

\* findDuplicate: the holdings of that copy, the last changed first.
Duplicates(E, copy) ==
  LET same == {h \in HoldingsOf(E) : Alike(h.copy, copy)}
  IN  {h \in same : \A g \in same : Collated(g.updatedAt) <= Collated(h.updatedAt)}

Event(id, type, holding, amount, told, at) ==
  [id |-> id, type |-> type, holding |-> holding, amount |-> amount,
   told |-> told, at |-> at, updated |-> at, seq |-> 0]

\* What adding copies makes of a log: more of a duplicate, or a new holding.  A row
\* comes with a floor; a single addition comes after the duplicate.
Additions(E, id, copy, amount, now, floor) ==
  IF Duplicates(E, copy) = {}
  THEN {Event(id, "holding.added", id, amount, copy, Stamp(now, floor))}
  ELSE {Event(id, "holding.quantity-adjusted", dup.id, amount, Nothing,
              Stamp(now, IF floor = NoFloor THEN Instant(dup.updatedAt) ELSE floor)) :
          dup \in {h \in Duplicates(E, copy) : h.quantity + amount <= MaxQuantity}}

\* What append() makes of an edit: after the holding as it is now or, when it is gone,
\* at the time of the edit, which may be before it went.
Changes(E, id, e, now) ==
  LET here == {h \in HoldingsOf(E) : h.id = e.holding}
  IN  {Event(id, e.type, e.holding, e.amount, e.told, at) :
         at \in IF here = {} THEN {e.at} ELSE {Stamp(now, Instant(h.updatedAt)) : h \in here}}

EventsOf(E, id, e, now) ==
  {f \in IF e.type = "holding.added" THEN Additions(E, id, e.told, e.amount, now, NoFloor)
         ELSE Changes(E, id, e, now) :
     Strict(E \cup {f})}

-----------------------------------------------------------------------------
(* What is shown.                                                           *)

\* A refresh captures the domain when it is called and reads later; got holds
\* the events once they were read.
Refresh(domain, why) == [domain |-> domain, why |-> why, got |-> {}]

Enqueue(t, why) == reads' = [reads EXCEPT ![t] = Append(@, Refresh(active[t], why))]

Settled(t) == phase[t] = "settled"
Transitioning(t) == phase[t] \in {"hiding", "selecting"}
Snapshot(d, E) == [domain |-> d, events |-> E]
Empty == Snapshot(None, {})

Init ==
  /\ events = Stored
  /\ made = Taken
  /\ file = Backup
  /\ edits = {}
  /\ active = [t \in Tabs |-> Anonymous]
  /\ selected = [t \in Tabs |-> Anonymous]
  /\ phase = [t \in Tabs |-> "settled"]
  /\ reads = [t \in Tabs |-> <<>>]
  /\ shown = [t \in Tabs |-> Snapshot(Anonymous, Stored[Anonymous])]
  /\ notified = {}
  /\ acts = 0

\* IndexedDB answers the refreshes of a tab in the order they were made.
Read(t) ==
  \E n \in DOMAIN reads[t] :
    /\ reads[t][n].got = {}
    /\ \A i \in 1..(n - 1) : reads[t][i].got # {}
    /\ reads' = [reads EXCEPT ![t][n].got = {events[reads[t][n].domain]}]
    /\ UNCHANGED <<data, edits, view, acts>>

\* Mutant: nobody is told.
ShowQuietly(t) ==
  /\ reads[t] # <<>> /\ Head(reads[t]).got # {}
  /\ shown' = IF Transitioning(t) THEN shown
              ELSE [shown EXCEPT ![t] = Snapshot(Head(reads[t]).domain, UNION Head(reads[t]).got)]
  /\ reads' = [reads EXCEPT ![t] = Tail(@)]
  /\ UNCHANGED <<data, edits, active, selected, phase, notified, acts>>

\* The answer becomes the repository's snapshot, and the page's unless it is
\* changing accounts; a writer then tells the other tabs.
Show(t) ==
  /\ reads[t] # <<>> /\ Head(reads[t]).got # {}
  /\ LET r == Head(reads[t])
     IN  /\ shown' = IF Transitioning(t) THEN shown
                     ELSE [shown EXCEPT ![t] = Snapshot(r.domain, UNION r.got)]
         /\ notified' = IF r.why = "write" THEN notified \cup (Tabs \ {t}) ELSE notified
  /\ reads' = [reads EXCEPT ![t] = Tail(@)]
  /\ UNCHANGED <<data, edits, active, selected, phase, acts>>

\* A message of another tab.
Hear(t) ==
  /\ t \in notified
  /\ notified' = notified \ {t}
  /\ Enqueue(t, "peer")
  /\ UNCHANGED <<data, edits, active, selected, phase, shown, acts>>

-----------------------------------------------------------------------------
(* Changes of account.                                                      *)

\* observeAuthState: the page is emptied at once and the old domain hidden.
Observe(t, d) ==
  /\ acts < MaxActs
  /\ acts' = acts + 1
  /\ d # selected[t]
  /\ selected' = [selected EXCEPT ![t] = d]
  /\ phase' = [phase EXCEPT ![t] = "hiding"]
  /\ shown' = [shown EXCEPT ![t] = Empty]
  /\ active' = [active EXCEPT ![t] = Anonymous]
  /\ reads' = IF active[t] = Anonymous THEN reads
              ELSE [reads EXCEPT ![t] = Append(@, Refresh(Anonymous, "change"))]
  /\ UNCHANGED <<data, edits, notified>>

\* Mutant: refreshes of the domain before are not waited for.
SelectAtOnce(t) ==
  /\ Transitioning(t)
  /\ phase' = [phase EXCEPT ![t] = "refreshing"]
  /\ active' = [active EXCEPT ![t] = selected[t]]
  /\ reads' = [reads EXCEPT ![t] = Append(@, Refresh(selected[t], "change"))]
  /\ UNCHANGED <<data, edits, selected, shown, notified, acts>>

\* subjectSelection goes on once every refresh it waits for was answered: it
\* selects the domain, then refreshes the page, then lets edits through.
Select(t) ==
  LET next == IF phase[t] = "hiding" /\ selected[t] # Anonymous THEN "selecting"
              ELSE IF Transitioning(t) THEN "refreshing" ELSE "settled"
  IN  /\ ~Settled(t)
      /\ \A n \in DOMAIN reads[t] : reads[t][n].why # "change"
      /\ phase' = [phase EXCEPT ![t] = next]
      /\ active' = [active EXCEPT ![t] = selected[t]]
      /\ reads' = IF next = "settled" THEN reads
                  ELSE [reads EXCEPT ![t] = Append(@, Refresh(selected[t], "change"))]
      /\ UNCHANGED <<data, edits, selected, shown, notified, acts>>

-----------------------------------------------------------------------------
(* Edits.                                                                   *)

\* An operation begins once prepareMutation let it through.
Acts(t) ==
  /\ Settled(t)
  /\ acts < MaxActs
  /\ acts' = acts + 1

Edit(t, type, holding, amount, told, at) ==
  [tab |-> t, domain |-> active[t], number |-> acts, type |-> type,
   holding |-> holding, amount |-> amount, told |-> told, at |-> at]

Wait(e) ==
  /\ edits' = edits \cup {e}
  /\ UNCHANGED <<data, view, reads>>

\* Mutant: the quote is left as it was.
CorrectedQuietly(copy, change, preference) == [Nothing EXCEPT ![change.field] = change.value]

\* updateFinish, updateCondition, saveCost: what the page makes of the copy it shows.
Corrected(copy, change, preference) ==
  LET new == [copy EXCEPT ![change.field] = change.value]
      quote == SelectPriceQuote(Offered[new.card], new.finish, new.condition, preference)
  IN  [field \in Fields |->
         IF field = change.field THEN change.value
         ELSE IF field = "quote" /\ change.field \in {"finish", "condition"} THEN quote
         ELSE None]

\* The add form of the scanner.
Add(t, scanned, preference) ==
  LET quote == SelectPriceQuote(Offered[scanned.card], scanned.finish, scanned.condition,
                                preference)
      copy == [card |-> scanned.card, finish |-> scanned.finish,
               condition |-> scanned.condition, cost |-> scanned.cost, quote |-> quote]
  IN  Acts(t) /\ Wait(Edit(t, "holding.added", 0, 1, copy, 0))

\* The buttons and the forms of a holding the page shows: the handlers first look it
\* up in the domain as it is.
Touch(t, type, holding, amount, told) ==
  \E now \in Clock :
    Wait(Edit(t, type, holding.id, amount, told, Stamp(now, Instant(holding.updatedAt))))

Change(t) ==
  /\ Acts(t)
  /\ \E holding \in HoldingsOf(events[active[t]]), seen \in HoldingsOf(shown[t].events) :
       /\ seen.id = holding.id
       /\ \/ \E delta \in {-1, 1} :
               /\ holding.quantity + delta \in 0..MaxQuantity
               /\ Touch(t, "holding.quantity-adjusted", holding, delta, Nothing)
          \/ \E change \in Corrections, preference \in Preferences :
               /\ seen.copy[change.field] # change.value
               /\ Touch(t, "holding.updated", holding, 0,
                        Corrected(seen.copy, change, preference))
          \/ Touch(t, "holding.removed", holding, 0, Nothing)

\* The transaction of a write: new events of the domain, then a refresh.
Write(t, d, E) ==
  /\ events' = [events EXCEPT ![d] = E]
  /\ Enqueue(t, "write")
  /\ UNCHANGED <<file, view>>

Commit(e) ==
  \E now \in Clock : \E f \in EventsOf(events[e.domain], made + 1, e, now) :
    /\ e \in edits
    /\ edits' = edits \ {e}
    /\ made' = made + 1
    /\ Write(e.tab, e.domain, events[e.domain] \cup {f})
    /\ UNCHANGED acts

\* The transaction throws: the holding was gone by then, the quantity is out of range,
\* or the account changed before append() captured its domain.
Refuse(e) ==
  /\ e \in edits
  /\ \/ \E now \in Clock : EventsOf(events[e.domain], made + 1, e, now) = {}
     \/ e.type # "holding.added" /\ active[e.tab] # e.domain
  /\ edits' = edits \ {e}
  /\ UNCHANGED <<data, view, reads, acts>>

-----------------------------------------------------------------------------
(* Files and the service.                                                   *)

\* holdingsFromCsv: one row it cannot read refuses the file.
ValidRow(row) == row.amount \in 1..MaxQuantity

\* importHoldings: each row joins what the rows before it left and is stamped after
\* lastOccurredAt; one row beyond the limits refuses the file as well.
LastOccurred(E) ==
  IF E = {} THEN NoFloor
  ELSE Instant((CHOOSE e \in E : \A f \in E : Ordered(f.at) <= Ordered(e.at)).at)

AfterRow(now, so, id, row) ==
  LET new == Additions(so.events, id, row.copy, row.amount, now, so.last)
  IN  [ok |-> so.ok /\ new # {}, last |-> Stamp(now, so.last),
       events |-> so.events \cup (IF new = {} THEN {} ELSE {CHOOSE f \in new : TRUE})]

Imported(now, E, id, rows) ==
  LET so[n \in 0..Len(rows)] ==
        IF n = 0 THEN [ok |-> TRUE, last |-> LastOccurred(E), events |-> E]
        ELSE AfterRow(now, so[n-1], id + n, rows[n])
  IN  so[Len(rows)]

ImportRows(t) ==
  \E rows \in Rows, now \in Clock :
    LET d == active[t]
        result == Imported(now, events[d], made, rows)
    IN  /\ Acts(t)
        /\ \A n \in DOMAIN rows : ValidRow(rows[n])
        /\ result.ok /\ Strict(result.events)
        /\ made' = made + Len(rows)
        /\ Write(t, d, result.events)
        /\ UNCHANGED edits

\* A backup carries no order and no acknowledgement of the service.
Portable(E) == {[e EXCEPT !.seq = 0] : e \in E}

Export(t) ==
  /\ Acts(t)
  /\ file' = Portable(events[active[t]])
  /\ UNCHANGED <<events, made, edits, view, reads>>

\* Mutant: events of the file are never looked for elsewhere.
ForeignNever(d, E) == FALSE

\* importEvents: events of the file this browser has already are left as they
\* are, and refuse the file when they are of another domain or differ.
Foreign(d, E) == \E other \in Domains \ {d} : \E e \in events[other], f \in E : e.id = f.id
Conflicting(d, E) == \E e \in events[d], f \in Portable(E) : e.id = f.id /\ Portable({e}) # {f}
Unknown(d, E) == {e \in Portable(E) : \A f \in events[d] : f.id # e.id}

Restore(t, base) ==
  LET d == active[t]
  IN  /\ Acts(t)
      /\ ~Foreign(d, file) /\ ~Conflicting(d, file)
      /\ Strict(base \cup Unknown(d, file))
      /\ Write(t, d, base \cup Unknown(d, file))
      /\ UNCHANGED <<made, edits>>

Merge(t) == Restore(t, events[active[t]])

\* The settings page offers it without an account only, and asks again.
MayReplace(t) == selected[t] = Anonymous
Replace(t) == MayReplace(t) /\ active[t] = Anonymous /\ Restore(t, {})

\* A sync: the service numbers the queue in the order it is sent, the device
\* imports what it is told.
Synchronize(t) ==
  LET d == active[t]
      log == Replayed(events[d])
  IN  /\ Acts(t)
      /\ d # Anonymous
      /\ \E e \in events[d] : e.seq = 0
      /\ Write(t, d, {[log[n] EXCEPT !.seq = n] : n \in DOMAIN log})
      /\ UNCHANGED <<made, edits>>

-----------------------------------------------------------------------------
Step(t) == Read(t) \/ Show(t) \/ Hear(t) \/ Select(t)

Next ==
  \/ \E t \in Tabs :
       \/ Step(t)
       \/ \E scanned \in Scanned, preference \in Preferences : Add(t, scanned, preference)
       \/ Change(t)
  \/ \E t \in Settings :
       \/ \E d \in Domains : Observe(t, d)
       \/ ImportRows(t) \/ Export(t) \/ Merge(t) \/ Replace(t)
       \/ Synchronize(t)
  \/ \E e \in edits : Commit(e) \/ Refuse(e)

Spec == Init /\ [][Next]_vars

\* IndexedDB, the BroadcastChannel and promises are answered in the end.
FairSpec == Spec /\ \A t \in Tabs : WF_vars(Step(t))

-----------------------------------------------------------------------------
\* Type invariant: an event has one home, and each tab keeps what the code
\* can put there.
TypeOK ==
  /\ events \in [Domains -> SUBSET EventType]
  /\ \A d \in Domains : \A e, f \in events[d] : e.id = f.id => e = f
  /\ \A c, d \in Domains : c # d => ~\E e \in events[c], f \in events[d] : e.id = f.id
  /\ file \subseteq EventType /\ \A e \in file : e.seq = 0
  /\ \A e \in edits : e.tab \in Tabs /\ e.domain \in Domains
  /\ active \in [Tabs -> Domains] /\ selected \in [Tabs -> Domains]
  /\ phase \in [Tabs -> {"settled", "hiding", "selecting", "refreshing"}]
  /\ \A t \in Tabs : phase[t] # "hiding" => active[t] = selected[t]
  /\ notified \subseteq Tabs
  /\ acts \in 0..MaxActs

\* The last change of a holding, unless the service numbered it, bears a timestamp as
\* this application writes it, and the holding is no older than that.
Timely(E, h) ==
  LET last == LastOf({e \in E : e.holding = h})
  IN  last.seq # 0 \/ (last.at \in Nat /\ Instant(last.updated) >= last.at)

\* Whatever the clock says, and whatever was imported, restored, synchronized or
\* changed by the other tab before, a domain replays and a change of a holding it
\* shows, within its limits, can be written, since it is stamped after everything it
\* changes (db.ts append, collection.ts nextCollectionEventTimestamp).  The exception
\* is a holding last changed by an event of a file whose timestamp is written otherwise
\* or is later than the holding says; no event made here is one.
EditsGoThrough ==
  \A d \in Domains :
    /\ Strict(events[d])
    /\ \A e \in events[d] : e.id > Taken => e.at \in Nat /\ e.updated = e.at
    /\ \A h \in HoldingsOf(events[d]), now \in Clock :
         Timely(events[d], h.id) =>
           Strict(events[d] \cup {Event(made + 1, "holding.removed", h.id, 0, Nothing,
                                        Stamp(now, Instant(h.updatedAt)))})

\* Adding copies never makes a second holding of a kind of copy the domain
\* has already, not even when two tabs add at the same time.
AddsJoin ==
  [][\A e \in edits : e.type = "holding.added" /\ Commit(e) =>
       LET Same(E) == {h.id : h \in {g \in HoldingsOf(E) : Alike(g.copy, e.told)}}
       IN  Same(events[e.domain]) # {} =>
             Same(events'[e.domain]) = Same(events[e.domain])]_vars

\* A page shows nothing of an account but the one selected, however refreshes,
\* messages and changes of account overlap.
ShownIsOfSubject == \A t \in Tabs : shown[t].domain \in {selected[t], None}

\* However corrections of a copy overlap, in one tab or in two, it keeps no quote for
\* another finish or condition than its last correction made it ("should not reuse a
\* quote for a different finish or explicitly different condition"); of what an earlier
\* one made it the quote may be wrong when the page that made the last did not show it
\* yet.  And the holdings of a domain show a net in a currency only when each of them
\* that is priced or paid in it is both ("net only when every valued holding has a
\* comparable recorded cost"), and then theirs; when there is none, one of them is to be
\* reviewed, has a quote without a price, or was paid in another currency.
HeldWorthIsHonest ==
  \A d \in Domains :
    LET E == events[d]
        worth == [h \in HoldingsOf(E) |-> [quantity |-> h.quantity, quote |-> h.copy["quote"],
                                           cost |-> h.copy["cost"]]]
        Graded(h) == {e \in E : /\ e.holding = h
                                /\ e.told.finish # None \/ e.told.condition # None}
    IN  /\ \A h \in HoldingsOf(E) : Suits(h.copy["quote"], LastOf(Graded(h.id)).told)
        /\ \A currency \in Currencies(worth) : NetIsHonest(worth, currency)

\* After the last edit every tab comes to show what is stored.
UpToDate ==
  \A t \in Tabs : shown[t] = Snapshot(selected[t], events[selected[t]])
ShownCatchesUp == []<>UpToDate

\* A confirmed replacement leaves the collection of the backup.
RestoreKeepsBackup ==
  [][\A t \in Tabs : Replace(t) =>
       {e.id : e \in events'[Anonymous]} = {e.id : e \in file}]_vars

=============================================================================
