----------------------------- MODULE EventCodec -----------------------------
(***************************************************************************)
(* What happens to the content of one collection event between the tap on  *)
(* "Add" and its return from the service: the snapshot a device makes of a *)
(* catalogue card (lib/collection.ts), the contract both sides check       *)
(* (shared/collection-event-schema.ts), the compact row the service keeps  *)
(* (server/sync/codec.ts, server/store.ts), the page it sends back and the *)
(* event the device reads from it (lib/api.ts, lib/db.ts).                 *)
(*                                                                         *)
(* An object of JSON is a function on the names of the fields it has.      *)
(***************************************************************************)
EXTENDS Functions

CONSTANTS
  Null,          \* a field that is there and null
  HoldingPlain,  \* the fields of a holding that are copied as they are,
  HoldingNeeded, \* those of them that must be there
  CardPlain,     \* the same for a card, beside its identifier and its quotes
  CardNeeded,
  UpdatePlain,   \* what an update may carry beside a quote
  OtherPlain,    \* what an adjustment or a removal may carry
  Writes,        \* the events considered
  Candidates,    \* the catalogue cards a device may add, ranking fields included
  Inputs         \* what the owner says of a card: plain fields, and maybe a quote

HoldingFields == {"id", "cardId", "card", "quote", "addedAt", "updatedAt"} \cup HoldingPlain
CardFields == {"id", "quote", "quotes"} \cup CardPlain
EventFields == {"id", "deviceId", "holdingId", "occurredAt", "type", "payload"}
Transport == {"syncedAt", "serverSequence"}

ASSUME PlainFields ==
  /\ HoldingNeeded \subseteq HoldingPlain
  /\ CardNeeded \subseteq CardPlain
  /\ HoldingPlain \cap {"id", "cardId", "card", "quote", "addedAt", "updatedAt"} = {}
  /\ CardPlain \cap {"id", "quote", "quotes"} = {}
  /\ "quote" \notin UpdatePlain

\* What is known of a card the scanner proposes and of what its form asks for.
ASSUME CandidateFields == \A c \in Candidates : {"id"} \cup CardNeeded \subseteq DOMAIN c
ASSUME InputFields ==
  \A i \in Inputs :
    HoldingNeeded \subseteq DOMAIN i /\ DOMAIN i \subseteq {"quote"} \cup HoldingPlain

Nothing == [f \in {} |-> f]
IsObject(o) == o = [f \in DOMAIN o |-> o[f]]
Only(o, fields) == Restrict(o, DOMAIN o \cap fields)
Without(o, fields) == Restrict(o, DOMAIN o \ fields)

\* {...o, ...p}
With(o, p) ==
  [f \in DOMAIN o \cup DOMAIN p |-> IF f \in DOMAIN p THEN p[f] ELSE o[f]]

\* The value of one field under another name, if it is there.
Part(o, field, name) ==
  IF field \in DOMAIN o THEN [f \in {name} |-> o[field]] ELSE Nothing

-----------------------------------------------------------------------------
(* The contract.                                                            *)

\* catalogCard, holding: strict objects, with identifiers that agree.
IsHolding(h, event) ==
  /\ IsObject(h) /\ IsObject(h["card"])
  /\ {"id", "cardId", "card", "addedAt", "updatedAt"} \cup HoldingNeeded \subseteq DOMAIN h
  /\ DOMAIN h \subseteq HoldingFields
  /\ {"id"} \cup CardNeeded \subseteq DOMAIN h["card"]
  /\ DOMAIN h["card"] \subseteq CardFields
  /\ h["card"]["id"] = h["cardId"]
  /\ h["id"] = event["holdingId"]

IsPayload(event) ==
  LET payload == event["payload"]
  IN  /\ IsObject(payload)
      /\ CASE event["type"] = "holding.added" ->
             DOMAIN payload = {"holding"} /\ IsHolding(payload["holding"], event)
          [] event["type"] = "holding.updated" ->
             DOMAIN payload \subseteq {"quote"} \cup UpdatePlain
          [] OTHER -> DOMAIN payload \subseteq OtherPlain

\* syncOperationSchema with "syncedAt" only, collectionEventSchema with both.
Meets(event, transport) ==
  /\ EventFields \subseteq DOMAIN event
  /\ DOMAIN event \subseteq EventFields \cup transport
  /\ IsPayload(event)

-----------------------------------------------------------------------------
(* The event a device makes of a card.                                      *)

\* catalogCardSnapshot.
Snapshot(card) == Only(card, CardFields)

\* createHolding: the quote the owner saw, or the card's.
NewHolding(id, card, input, at) ==
  With(With([id |-> id, cardId |-> card["id"], card |-> card,
             addedAt |-> at, updatedAt |-> at],
            Part(card, "quote", "quote")),
       input)

\* createAddedEvent.
AddedEvent(id, device, holding) ==
  [id |-> id, type |-> "holding.added", holdingId |-> holding["id"],
   occurredAt |-> holding["addedAt"], deviceId |-> device,
   payload |-> [holding |-> holding]]

\* operationForSync.
ForService(event) == Without(event, Transport)

-----------------------------------------------------------------------------
(* The row the service keeps: the envelope in columns, the rest of the      *)
(* payload, and the snapshots it shares with other rows.                    *)

\* quoteBundle.
QuoteBundle(h) ==
  With(Part(h, "quote", "holdingQuote"),
       With(Part(h["card"], "quote", "cardQuote"),
            Part(h["card"], "quotes", "cardQuotes")))

\* What a holding says again of its card and its event.
Implied(envelope, card) ==
  [f \in {"id", "cardId", "addedAt", "updatedAt"} |->
     CASE f = "id" -> envelope["holdingId"]
       [] f = "cardId" -> card["id"]
       [] OTHER -> envelope["occurredAt"]]

\* Mutant: both dates are left out without being compared.
CompactHoldingWithoutDates(envelope, h) ==
  Without(h, {"card", "quote", "addedAt", "updatedAt"}
             \cup {f \in {"id", "cardId"} : h[f] = Implied(envelope, h["card"])[f]})

CompactHolding(envelope, h) ==
  LET implied == Implied(envelope, h["card"])
  IN  Without(h, {"card", "quote"} \cup {f \in DOMAIN implied : h[f] = implied[f]})

\* compactSyncOperation, and the columns of the INSERT.  Interning a snapshot by its
\* content gives the same content back (internSyncObject).
Compacted(op) ==
  LET payload == op["payload"]
      envelope == Without(op, {"payload"})
      row(rest, card, quote) ==
        [envelope |-> envelope, payload |-> rest, card |-> card, quote |-> quote]
  IN  CASE op["type"] = "holding.added" ->
             LET h == payload["holding"]
             IN  row([holding |-> CompactHolding(envelope, h)],
                     Without(h["card"], {"quote", "quotes"}), QuoteBundle(h))
        [] op["type"] = "holding.updated" /\ "quote" \in DOMAIN payload
             /\ payload["quote"] # Null ->
             row(Without(payload, {"quote"}), Nothing, Part(payload, "quote", "quote"))
        [] OTHER -> row(payload, Nothing, Nothing)

\* rehydrateSyncOperation.
RehydratedHolding(row) ==
  LET card == With(row.card, With(Part(row.quote, "cardQuote", "quote"),
                                  Part(row.quote, "cardQuotes", "quotes")))
  IN  With(With(Implied(row.envelope, row.card), row.payload["holding"]),
           With([card |-> card], Part(row.quote, "holdingQuote", "quote")))

\* syncOperationFromRow.
Rehydrated(row) ==
  With(row.envelope,
       [payload |->
          IF row.envelope["type"] = "holding.added"
          THEN With(row.payload, [holding |-> RehydratedHolding(row)])
          ELSE With(row.payload, Part(row.quote, "quote", "quote"))])

-----------------------------------------------------------------------------
(* Back on a device.                                                        *)

\* The events of a response.
Page(op, sequence, received) ==
  With(op, [sequence |-> sequence, receivedAt |-> received])

\* sanitizeRemoteCollectionEvent.
Sanitized(event, at) ==
  With(Only(event, EventFields),
       [serverSequence |-> event["sequence"], syncedAt |-> at])

\* canonicalSyncOperation, collectionEventIdentity: whatever has been added on the way
\* is not part of an event's content.
Identity(event) == Without(event, Transport)

-----------------------------------------------------------------------------
(* The way round.                                                           *)

ComesRound(event) ==
  LET op == ForService(event)
      stored == Rehydrated(Compacted(op))
      back == Sanitized(Page(stored, 1, "received"), "imported")
  IN  /\ Meets(op, {"syncedAt"})
      /\ Identity(stored) = Identity(op)
      /\ Meets(back, Transport)
      /\ Identity(back) = Identity(event)

Added(candidate, input) ==
  AddedEvent("event", "device",
             NewHolding("holding", Snapshot(candidate), input, "now"))

Altered == {event \in Writes : Meets(event, Transport) /\ ~ComesRound(event)}
Refused == {c \in Candidates : \E i \in Inputs : ~Meets(Added(c, i), Transport)}

\* An event that meets the contract keeps its identity all the way round: the service
\* takes it, knows it again when a lost answer makes the device send it twice, and
\* sends back what the device can read and finds equal to its own.
RoundTrip == Altered = {}

\* Whatever ranking fields the scanner put on a candidate and whichever optional fields
\* it has, the event made of it meets the strict contract.
CandidatesMeetContract == Refused = {}

=============================================================================
