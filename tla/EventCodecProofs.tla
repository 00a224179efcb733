-------------------------- MODULE EventCodecProofs --------------------------
(***************************************************************************)
(* The compact row loses nothing: what the service rebuilds from a row is  *)
(* the operation it was given, for every content of every event that meets *)
(* the contract, whatever the plain fields are.                            *)
(***************************************************************************)
EXTENDS StoredEvents, TLAPS

USE DEF EventFields, Transport, Restrict

-----------------------------------------------------------------------------
(* Objects.                                                                 *)

\* Two objects are the same when they have the same fields with the same values.
LEMMA SameObject ==
  ASSUME NEW o, NEW p, IsObject(o), IsObject(p), DOMAIN o = DOMAIN p,
         \A f \in DOMAIN o : o[f] = p[f]
  PROVE  o = p
BY DEF IsObject

\* {...o, ...p} has the fields of both, and p decides.
LEMMA WithFields ==
  ASSUME NEW o, NEW p
  PROVE  /\ IsObject(With(o, p))
         /\ DOMAIN With(o, p) = DOMAIN o \cup DOMAIN p
         /\ \A f \in DOMAIN p : With(o, p)[f] = p[f]
         /\ \A f \in DOMAIN o \ DOMAIN p : With(o, p)[f] = o[f]
BY DEF With, IsObject

LEMMA PartFields ==
  ASSUME NEW o, NEW field, NEW name
  PROVE  /\ field \in DOMAIN o =>
              /\ DOMAIN Part(o, field, name) = {name}
              /\ Part(o, field, name)[name] = o[field]
         /\ field \notin DOMAIN o => DOMAIN Part(o, field, name) = {}
BY DEF Part, Nothing

LEMMA WithoutFields ==
  ASSUME NEW o, NEW fields
  PROVE  /\ IsObject(Without(o, fields))
         /\ DOMAIN Without(o, fields) = DOMAIN o \ fields
         /\ \A f \in DOMAIN o \ fields : Without(o, fields)[f] = o[f]
BY DEF Without, IsObject

-----------------------------------------------------------------------------
(* A card and its quotes.                                                   *)

\* The bundle holds the quotes that are there, each under its own name.
LEMMA BundleFields ==
  ASSUME NEW h
  PROVE  LET bundle == QuoteBundle(h)
         IN  /\ "holdingQuote" \in DOMAIN bundle <=> "quote" \in DOMAIN h
             /\ "cardQuote" \in DOMAIN bundle <=> "quote" \in DOMAIN h["card"]
             /\ "cardQuotes" \in DOMAIN bundle <=> "quotes" \in DOMAIN h["card"]
             /\ "quote" \in DOMAIN h => bundle["holdingQuote"] = h["quote"]
             /\ "quote" \in DOMAIN h["card"] => bundle["cardQuote"] = h["card"]["quote"]
             /\ "quotes" \in DOMAIN h["card"] => bundle["cardQuotes"] = h["card"]["quotes"]
<1> DEFINE card == h["card"]
           own == Part(h, "quote", "holdingQuote")
           first == Part(card, "quote", "cardQuote")
           all == Part(card, "quotes", "cardQuotes")
<1>1. /\ DOMAIN own = IF "quote" \in DOMAIN h THEN {"holdingQuote"} ELSE {}
      /\ "quote" \in DOMAIN h => own["holdingQuote"] = h["quote"]
  BY PartFields
<1>2. /\ DOMAIN first = IF "quote" \in DOMAIN card THEN {"cardQuote"} ELSE {}
      /\ "quote" \in DOMAIN card => first["cardQuote"] = card["quote"]
  BY PartFields
<1>3. /\ DOMAIN all = IF "quotes" \in DOMAIN card THEN {"cardQuotes"} ELSE {}
      /\ "quotes" \in DOMAIN card => all["cardQuotes"] = card["quotes"]
  BY PartFields
<1> HIDE DEF own, first, all
<1> DEFINE both == With(first, all)
<1>4. /\ DOMAIN both = DOMAIN first \cup DOMAIN all
      /\ \A f \in DOMAIN all : both[f] = all[f]
      /\ \A f \in DOMAIN first \ DOMAIN all : both[f] = first[f]
  BY WithFields
<1>5. /\ DOMAIN With(own, both) = DOMAIN own \cup DOMAIN both
      /\ \A f \in DOMAIN both : With(own, both)[f] = both[f]
      /\ \A f \in DOMAIN own \ DOMAIN both : With(own, both)[f] = own[f]
  BY WithFields
<1>6. QuoteBundle(h) = With(own, both)
  BY DEF QuoteBundle, own, first, all
<1> HIDE DEF both
<1> QED BY <1>1, <1>2, <1>3, <1>4, <1>5, <1>6

\* A card without its quotes and a bundle that holds them give the card back.
LEMMA CardReturns ==
  ASSUME NEW card, IsObject(card), NEW bundle,
         "cardQuote" \in DOMAIN bundle <=> "quote" \in DOMAIN card,
         "cardQuotes" \in DOMAIN bundle <=> "quotes" \in DOMAIN card,
         "quote" \in DOMAIN card => bundle["cardQuote"] = card["quote"],
         "quotes" \in DOMAIN card => bundle["cardQuotes"] = card["quotes"]
  PROVE  With(Without(card, {"quote", "quotes"}),
              With(Part(bundle, "cardQuote", "quote"),
                   Part(bundle, "cardQuotes", "quotes"))) = card
<1> DEFINE rest == Without(card, {"quote", "quotes"})
           first == Part(bundle, "cardQuote", "quote")
           all == Part(bundle, "cardQuotes", "quotes")
           both == With(first, all)
<1>1. /\ "cardQuote" \in DOMAIN bundle <=> "quote" \in DOMAIN card
      /\ "cardQuotes" \in DOMAIN bundle <=> "quotes" \in DOMAIN card
      /\ "quote" \in DOMAIN card => bundle["cardQuote"] = card["quote"]
      /\ "quotes" \in DOMAIN card => bundle["cardQuotes"] = card["quotes"]
  OBVIOUS
<1>2. /\ DOMAIN first = IF "quote" \in DOMAIN card THEN {"quote"} ELSE {}
      /\ "quote" \in DOMAIN card => first["quote"] = card["quote"]
  BY ONLY <1>1, PartFields, ZenonT(30)
<1>3. /\ DOMAIN all = IF "quotes" \in DOMAIN card THEN {"quotes"} ELSE {}
      /\ "quotes" \in DOMAIN card => all["quotes"] = card["quotes"]
  BY ONLY <1>1, PartFields, ZenonT(30)
<1>5. /\ DOMAIN rest = DOMAIN card \ {"quote", "quotes"}
      /\ \A f \in DOMAIN rest : rest[f] = card[f]
  BY ONLY DEF Without
<1> HIDE DEF first, all, rest
<1>4. /\ DOMAIN both = DOMAIN first \cup DOMAIN all
      /\ \A f \in DOMAIN all : both[f] = all[f]
      /\ \A f \in DOMAIN first \ DOMAIN all : both[f] = first[f]
  BY ONLY WithFields
<1> HIDE DEF both
<1>6. /\ IsObject(With(rest, both))
      /\ DOMAIN With(rest, both) = DOMAIN rest \cup DOMAIN both
      /\ \A f \in DOMAIN both : With(rest, both)[f] = both[f]
      /\ \A f \in DOMAIN rest \ DOMAIN both : With(rest, both)[f] = rest[f]
  BY ONLY WithFields
<1>7. DOMAIN With(rest, both) = DOMAIN card
  BY <1>2, <1>3, <1>4, <1>5, <1>6
<1>8. \A f \in DOMAIN card : With(rest, both)[f] = card[f]
  BY <1>2, <1>3, <1>4, <1>5, <1>6
<1>9. With(rest, both) = card
  BY <1>6, <1>7, <1>8, SameObject
<1> QED BY <1>9 DEF first, all, both, rest

-----------------------------------------------------------------------------
(* A holding.                                                               *)

\* What a compact holding left out is implied by its card and its event, or shared.
LEMMA PiecesReturn ==
  ASSUME NEW h, IsObject(h), {"id", "cardId", "card", "addedAt", "updatedAt"} \subseteq DOMAIN h,
         NEW implied, DOMAIN implied = {"id", "cardId", "addedAt", "updatedAt"},
         NEW compact,
         DOMAIN compact =
           DOMAIN h \ ({"card", "quote"} \cup {f \in DOMAIN implied : h[f] = implied[f]}),
         \A f \in DOMAIN compact : compact[f] = h[f],
         NEW bundle,
         "holdingQuote" \in DOMAIN bundle <=> "quote" \in DOMAIN h,
         "quote" \in DOMAIN h => bundle["holdingQuote"] = h["quote"],
         NEW only, DOMAIN only = {"card"}, only["card"] = h["card"]
  PROVE  With(With(implied, compact),
              With(only, Part(bundle, "holdingQuote", "quote"))) = h
<1> DEFINE own == Part(bundle, "holdingQuote", "quote")
           late == With(only, own)
           early == With(implied, compact)
<1>0. /\ "holdingQuote" \in DOMAIN bundle <=> "quote" \in DOMAIN h
      /\ "quote" \in DOMAIN h => bundle["holdingQuote"] = h["quote"]
  OBVIOUS
<1>1. /\ DOMAIN own = IF "quote" \in DOMAIN h THEN {"quote"} ELSE {}
      /\ "quote" \in DOMAIN h => own["quote"] = h["quote"]
  BY ONLY <1>0, PartFields
<1>2. /\ DOMAIN early = DOMAIN implied \cup DOMAIN compact
      /\ \A f \in DOMAIN compact : early[f] = compact[f]
      /\ \A f \in DOMAIN implied \ DOMAIN compact : early[f] = implied[f]
  BY ONLY WithFields
<1> HIDE DEF own
<1>3. /\ DOMAIN late = DOMAIN only \cup DOMAIN own
      /\ \A f \in DOMAIN own : late[f] = own[f]
      /\ \A f \in DOMAIN only \ DOMAIN own : late[f] = only[f]
  BY ONLY WithFields
<1> HIDE DEF early, late
<1>4. /\ IsObject(With(early, late))
      /\ DOMAIN With(early, late) = DOMAIN early \cup DOMAIN late
      /\ \A f \in DOMAIN late : With(early, late)[f] = late[f]
      /\ \A f \in DOMAIN early \ DOMAIN late : With(early, late)[f] = early[f]
  BY WithFields
<1>5. DOMAIN late = {"card"} \cup IF "quote" \in DOMAIN h THEN {"quote"} ELSE {}
  BY <1>1, <1>3
<1>6. \A f \in DOMAIN late : late[f] = h[f]
  BY <1>1, <1>3, <1>5
<1>7. \A f \in DOMAIN early : early[f] = h[f]
  BY <1>2
<1>8. DOMAIN early \cup DOMAIN late \subseteq DOMAIN h
  BY <1>2, <1>5
<1>9. DOMAIN h \subseteq DOMAIN early \cup DOMAIN late
  BY <1>2, <1>5
<1>10. \A f \in DOMAIN h : With(early, late)[f] = h[f]
  BY <1>4, <1>6, <1>7, <1>8, <1>9
<1>11. With(early, late) = h
  BY <1>4, <1>8, <1>9, <1>10, SameObject
<1> QED BY <1>11 DEF early, late, own

\* The row of an addition gives the holding back.
LEMMA HoldingReturns ==
  ASSUME NEW envelope, NEW event, NEW h, IsHolding(h, event),
         NEW row,
         row.envelope = envelope,
         row.payload["holding"] = CompactHolding(envelope, h),
         row.card = Without(h["card"], {"quote", "quotes"}),
         row.quote = QuoteBundle(h)
  PROVE  RehydratedHolding(row) = h
<1>1. /\ IsObject(h) /\ IsObject(h["card"])
      /\ {"id", "cardId", "card", "addedAt", "updatedAt"} \subseteq DOMAIN h
      /\ "id" \in DOMAIN h["card"]
  BY DEF IsHolding
<1>2. row.card["id"] = h["card"]["id"]
  BY <1>1 DEF Without
<1>3. Implied(envelope, row.card) = Implied(envelope, h["card"])
  BY <1>2 DEF Implied
<1>4. DOMAIN Implied(envelope, h["card"]) = {"id", "cardId", "addedAt", "updatedAt"}
  BY DEF Implied
<1>5. PICK implied : implied = Implied(envelope, h["card"])
  OBVIOUS
<1>6. PICK compact : compact = CompactHolding(envelope, h)
  OBVIOUS
<1>7. /\ DOMAIN compact =
           DOMAIN h \ ({"card", "quote"} \cup {f \in DOMAIN implied : h[f] = implied[f]})
      /\ \A f \in DOMAIN compact : compact[f] = h[f]
  BY <1>5, <1>6 DEF CompactHolding, Without
<1>8. PICK bundle : bundle = QuoteBundle(h)
  OBVIOUS
<1>9. PICK card : card = h["card"]
  OBVIOUS
<1>10. /\ "holdingQuote" \in DOMAIN bundle <=> "quote" \in DOMAIN h
       /\ "quote" \in DOMAIN h => bundle["holdingQuote"] = h["quote"]
       /\ "cardQuote" \in DOMAIN bundle <=> "quote" \in DOMAIN card
       /\ "cardQuotes" \in DOMAIN bundle <=> "quotes" \in DOMAIN card
       /\ "quote" \in DOMAIN card => bundle["cardQuote"] = card["quote"]
       /\ "quotes" \in DOMAIN card => bundle["cardQuotes"] = card["quotes"]
  BY <1>8, <1>9, BundleFields
<1>11. With(Without(card, {"quote", "quotes"}),
            With(Part(bundle, "cardQuote", "quote"),
                 Part(bundle, "cardQuotes", "quotes"))) = card
  BY <1>1, <1>9, <1>10, CardReturns
<1>12. PICK only : only = [card |-> card]
  OBVIOUS
<1>13. DOMAIN only = {"card"} /\ only["card"] = h["card"]
  BY <1>9, <1>12
<1>14. RehydratedHolding(row) =
         With(With(implied, compact), With(only, Part(bundle, "holdingQuote", "quote")))
  BY <1>3, <1>5, <1>6, <1>8, <1>9, <1>11, <1>12 DEF RehydratedHolding
<1>15. With(With(implied, compact), With(only, Part(bundle, "holdingQuote", "quote"))) = h
  BY <1>1, <1>4, <1>5, <1>7, <1>10, <1>13, PiecesReturn
<1> QED BY <1>14, <1>15

-----------------------------------------------------------------------------
(* A payload.                                                               *)

\* The row of an addition gives its payload back.
LEMMA AddedReturns ==
  ASSUME NEW op, op["type"] = "holding.added", DOMAIN op = EventFields, IsPayload(op)
  PROVE  Rehydrated(Compacted(op)) =
           With(Without(op, {"payload"}), [payload |-> op["payload"]])
<1> DEFINE payload == op["payload"]
           h == payload["holding"]
<1>1. /\ IsObject(payload)
      /\ DOMAIN payload = {"holding"}
      /\ IsHolding(h, op)
  BY DEF IsPayload
<1>2. PICK envelope : envelope = Without(op, {"payload"})
  OBVIOUS
<1>3. PICK row : row = [envelope |-> envelope,
                        payload |-> [holding |-> CompactHolding(envelope, h)],
                        card |-> Without(h["card"], {"quote", "quotes"}),
                        quote |-> QuoteBundle(h)]
  OBVIOUS
<1>4. Compacted(op) = row
  BY <1>2, <1>3 DEF Compacted
<1>5. /\ row.envelope = envelope
      /\ row.payload = [holding |-> CompactHolding(envelope, h)]
      /\ row.payload["holding"] = CompactHolding(envelope, h)
      /\ row.card = Without(h["card"], {"quote", "quotes"})
      /\ row.quote = QuoteBundle(h)
  BY <1>3
<1>6. RehydratedHolding(row) = h
  BY <1>1, <1>5, HoldingReturns
<1>7. envelope["type"] = "holding.added"
  BY <1>2 DEF Without
<1>8. PICK returned : returned = With(row.payload, [holding |-> h])
  OBVIOUS
<1>9. /\ IsObject(returned)
      /\ DOMAIN returned = {"holding"}
      /\ returned["holding"] = h
  BY <1>5, <1>8 DEF With, IsObject
<1>10. returned = payload
  BY <1>1, <1>9, SameObject
<1>11. Rehydrated(row) = With(envelope, [payload |-> returned])
  BY <1>5, <1>6, <1>7, <1>8 DEF Rehydrated
<1> QED BY <1>2, <1>4, <1>10, <1>11

\* So does the row of an update that carries a quote,
LEMMA QuotedReturns ==
  ASSUME NEW op, op["type"] = "holding.updated", DOMAIN op = EventFields, IsPayload(op),
         "quote" \in DOMAIN op["payload"], op["payload"]["quote"] # Null
  PROVE  Rehydrated(Compacted(op)) =
           With(Without(op, {"payload"}), [payload |-> op["payload"]])
<1>1. PICK payload : payload = op["payload"]
  OBVIOUS
<1>2. IsObject(payload) /\ "quote" \in DOMAIN payload /\ payload["quote"] # Null
  BY <1>1 DEF IsPayload
<1>3. PICK envelope : envelope = Without(op, {"payload"})
  OBVIOUS
<1>4. PICK rest : rest = Without(payload, {"quote"})
  OBVIOUS
<1>5. PICK quote : quote = Part(payload, "quote", "quote")
  OBVIOUS
<1>6. PICK row : row = [envelope |-> envelope, payload |-> rest,
                        card |-> Nothing, quote |-> quote]
  OBVIOUS
<1>7. Compacted(op) = row
  BY <1>1, <1>2, <1>3, <1>4, <1>5, <1>6 DEF Compacted
<1>8. envelope["type"] = "holding.updated"
  BY <1>3 DEF Without
<1>9. row.envelope = envelope /\ row.payload = rest /\ row.quote = quote
  BY <1>6
<1>10. PICK back : back = Part(quote, "quote", "quote")
  OBVIOUS
<1>11. DOMAIN back = {"quote"} /\ back["quote"] = payload["quote"]
  <2>1. DOMAIN quote = {"quote"} /\ quote["quote"] = payload["quote"]
    BY ONLY <1>2, <1>5, PartFields
  <2>2. "quote" \in DOMAIN quote
    BY ONLY <2>1
  <2>3. DOMAIN back = {"quote"} /\ back["quote"] = quote["quote"]
    BY ONLY <2>2, <1>10, PartFields
  <2> QED BY ONLY <2>1, <2>3
<1>12. /\ DOMAIN rest = DOMAIN payload \ {"quote"}
       /\ \A f \in DOMAIN rest : rest[f] = payload[f]
  BY <1>4 DEF Without
<1>13. PICK returned : returned = With(rest, back)
  OBVIOUS
<1>14. /\ IsObject(returned)
       /\ DOMAIN returned = DOMAIN rest \cup DOMAIN back
       /\ \A f \in DOMAIN back : returned[f] = back[f]
       /\ \A f \in DOMAIN rest \ DOMAIN back : returned[f] = rest[f]
  BY ONLY <1>13, WithFields
<1>15. DOMAIN returned = DOMAIN payload /\ \A f \in DOMAIN payload : returned[f] = payload[f]
  BY ONLY <1>2, <1>11, <1>12, <1>14
<1>16. returned = payload
  BY ONLY <1>2, <1>14, <1>15, SameObject
<1>17. Rehydrated(row) = With(envelope, [payload |-> returned])
  BY <1>8, <1>9, <1>10, <1>13 DEF Rehydrated
<1> QED BY <1>1, <1>3, <1>7, <1>16, <1>17

\* and the row of any other event, which holds the payload itself.
LEMMA OthersReturn ==
  ASSUME NEW op, op["type"] # "holding.added", DOMAIN op = EventFields, IsPayload(op),
         ~(/\ op["type"] = "holding.updated"
           /\ "quote" \in DOMAIN op["payload"]
           /\ op["payload"]["quote"] # Null)
  PROVE  Rehydrated(Compacted(op)) =
           With(Without(op, {"payload"}), [payload |-> op["payload"]])
<1>1. PICK payload : payload = op["payload"]
  OBVIOUS
<1>2. IsObject(payload)
  BY <1>1 DEF IsPayload
<1>3. PICK envelope : envelope = Without(op, {"payload"})
  OBVIOUS
<1>4. PICK row : row = [envelope |-> envelope, payload |-> payload,
                        card |-> Nothing, quote |-> Nothing]
  OBVIOUS
<1>5. Compacted(op) = row
  BY <1>1, <1>3, <1>4 DEF Compacted
<1>6. envelope["type"] # "holding.added"
  BY <1>3 DEF Without
<1>7. row.envelope = envelope /\ row.payload = payload /\ row.quote = Nothing
  BY <1>4
<1>8. DOMAIN Nothing = {}
  BY DEF Nothing
<1>9. PICK back : back = Part(Nothing, "quote", "quote")
  OBVIOUS
<1>10. DOMAIN back = {}
  BY ONLY <1>8, <1>9, PartFields
<1>11. PICK returned : returned = With(payload, back)
  OBVIOUS
<1>12. /\ IsObject(returned)
       /\ DOMAIN returned = DOMAIN payload
       /\ \A f \in DOMAIN payload : returned[f] = payload[f]
  <2>1. /\ IsObject(returned)
        /\ DOMAIN returned = DOMAIN payload \cup DOMAIN back
        /\ \A f \in DOMAIN payload \ DOMAIN back : returned[f] = payload[f]
    BY ONLY <1>11, WithFields
  <2> QED BY ONLY <1>10, <2>1
<1>13. returned = payload
  BY ONLY <1>2, <1>12, SameObject
<1>14. Rehydrated(row) = With(envelope, [payload |-> returned])
  BY <1>6, <1>7, <1>9, <1>11 DEF Rehydrated
<1> QED BY <1>1, <1>3, <1>5, <1>13, <1>14

-----------------------------------------------------------------------------
(* An event.                                                                *)

\* What the service rebuilds has the fields of the operation and their values.
LEMMA OperationReturns ==
  ASSUME NEW op, DOMAIN op = EventFields, IsPayload(op)
  PROVE  /\ DOMAIN Rehydrated(Compacted(op)) = EventFields
         /\ \A f \in EventFields : Rehydrated(Compacted(op))[f] = op[f]
<1>1. Rehydrated(Compacted(op)) =
        With(Without(op, {"payload"}), [payload |-> op["payload"]])
  BY AddedReturns, QuotedReturns, OthersReturn
<1>2. /\ DOMAIN With(Without(op, {"payload"}), [payload |-> op["payload"]]) = EventFields
      /\ \A f \in EventFields :
           With(Without(op, {"payload"}), [payload |-> op["payload"]])[f] = op[f]
  BY DEF With, Without
<1> QED BY <1>1, <1>2

\* The contract says nothing of an event but what its fields hold.
LEMMA PayloadOnly ==
  ASSUME NEW event, NEW other, IsPayload(event),
         \A f \in EventFields : other[f] = event[f]
  PROVE  IsPayload(other)
<1>1. /\ other["payload"] = event["payload"]
      /\ other["type"] = event["type"]
      /\ other["holdingId"] = event["holdingId"]
  OBVIOUS
<1> QED BY <1>1 DEF IsPayload, IsHolding

\* Any event that meets the contract comes round.
LEMMA ComesBack ==
  ASSUME NEW event, Meets(event, Transport)
  PROVE  ComesRound(event)
<1>1. PICK op : op = ForService(event)
  OBVIOUS
<1>2. /\ DOMAIN op = EventFields
      /\ \A f \in EventFields : op[f] = event[f]
  BY <1>1 DEF ForService, Without, Meets
<1>3. IsPayload(op)
  BY <1>2, PayloadOnly DEF Meets
<1>4. PICK stored : stored = Rehydrated(Compacted(op))
  OBVIOUS
<1>5. /\ DOMAIN stored = EventFields
      /\ \A f \in EventFields : stored[f] = op[f]
  BY <1>2, <1>3, <1>4, OperationReturns
<1>6. PICK page : page = Page(stored, 1, "received")
  OBVIOUS
<1>7. /\ EventFields \subseteq DOMAIN page
      /\ \A f \in EventFields : page[f] = stored[f]
  BY <1>5, <1>6 DEF Page, With
<1>8. PICK back : back = Sanitized(page, "imported")
  OBVIOUS
<1>9. /\ DOMAIN back = EventFields \cup Transport
      /\ \A f \in EventFields : back[f] = page[f]
  BY <1>7, <1>8 DEF Sanitized, With, Only
<1>10. \A f \in EventFields : back[f] = event[f]
  BY <1>2, <1>5, <1>7, <1>9
<1>11. IsPayload(back)
  BY <1>10, PayloadOnly DEF Meets
<1>12. Meets(op, {"syncedAt"})
  BY <1>2, <1>3 DEF Meets
<1>13. Identity(stored) = Identity(op)
  BY <1>2, <1>5 DEF Identity, Without
<1>14. Meets(back, Transport)
  BY <1>9, <1>11 DEF Meets
<1>15. DOMAIN event \ Transport = EventFields /\ DOMAIN back \ Transport = EventFields
  BY <1>9 DEF Meets
<1>16. Identity(back) = Identity(event)
  BY <1>10, <1>15 DEF Identity, Without
<1> QED BY <1>1, <1>4, <1>6, <1>8, <1>12, <1>13, <1>14, <1>16 DEF ComesRound

\* Whatever fields the contract allows and whatever they hold, an event that meets it
\* keeps its identity through the service's compact row and back to a device.
LEMMA RoundTrips == RoundTrip
BY ComesBack DEF RoundTrip, Altered

-----------------------------------------------------------------------------
(* An addition.                                                             *)

\* The snapshot of a candidate has the fields of a card, and no other.
LEMMA SnapshotFields ==
  ASSUME NEW c \in Candidates
  PROVE  /\ IsObject(Snapshot(c))
         /\ {"id"} \cup CardNeeded \subseteq DOMAIN Snapshot(c)
         /\ DOMAIN Snapshot(c) \subseteq CardFields
<1>1. {"id"} \cup CardNeeded \subseteq DOMAIN c \cap CardFields
  BY CandidateFields, PlainFields DEF CardFields
<1>2. /\ DOMAIN Snapshot(c) = DOMAIN c \cap CardFields
      /\ IsObject(Snapshot(c))
  BY DEF Snapshot, Only, IsObject
<1> QED BY <1>1, <1>2

\* What the form says is added to the snapshot, and replaces nothing but the quote.
LEMMA HoldingFieldsKept ==
  ASSUME NEW card, NEW input \in Inputs
  PROVE  LET h == NewHolding("holding", card, input, "now")
         IN  /\ IsObject(h)
             /\ {"id", "cardId", "card", "addedAt", "updatedAt"} \cup HoldingNeeded
                   \subseteq DOMAIN h
             /\ DOMAIN h \subseteq HoldingFields
             /\ h["id"] = "holding" /\ h["card"] = card /\ h["cardId"] = card["id"]
<1>1. PICK base : base = [id |-> "holding", cardId |-> card["id"], card |-> card,
                          addedAt |-> "now", updatedAt |-> "now"]
  OBVIOUS
<1>2. /\ DOMAIN base = {"id", "cardId", "card", "addedAt", "updatedAt"}
      /\ base["id"] = "holding" /\ base["card"] = card /\ base["cardId"] = card["id"]
  BY <1>1
<1>3. PICK quote : quote = Part(card, "quote", "quote")
  OBVIOUS
<1>4. DOMAIN quote \subseteq {"quote"}
  BY <1>3 DEF Part, Nothing
<1>5. PICK priced : priced = With(base, quote)
  OBVIOUS
<1>6. /\ DOMAIN priced = DOMAIN base \cup DOMAIN quote
      /\ \A f \in DOMAIN base \ DOMAIN quote : priced[f] = base[f]
  BY ONLY <1>5, WithFields
<1>7. PICK h : h = With(priced, input)
  OBVIOUS
<1>8. /\ IsObject(h)
      /\ DOMAIN h = DOMAIN priced \cup DOMAIN input
      /\ \A f \in DOMAIN priced \ DOMAIN input : h[f] = priced[f]
  BY ONLY <1>7, WithFields
<1>9. /\ HoldingNeeded \subseteq DOMAIN input
      /\ DOMAIN input \subseteq {"quote"} \cup HoldingPlain
      /\ "id" \notin DOMAIN input /\ "card" \notin DOMAIN input
      /\ "cardId" \notin DOMAIN input
  BY InputFields, PlainFields
<1>10. h["id"] = "holding" /\ h["card"] = card /\ h["cardId"] = card["id"]
  BY <1>2, <1>4, <1>6, <1>8, <1>9
<1>11. /\ {"id", "cardId", "card", "addedAt", "updatedAt"} \cup HoldingNeeded \subseteq DOMAIN h
       /\ DOMAIN h \subseteq HoldingFields
  BY <1>2, <1>4, <1>6, <1>8, <1>9 DEF HoldingFields
<1>12. NewHolding("holding", card, input, "now") = h
  BY <1>1, <1>3, <1>5, <1>7 DEF NewHolding
<1> QED BY <1>8, <1>10, <1>11, <1>12

\* The event of an addition meets the contract.
LEMMA AddedMeets ==
  ASSUME NEW c \in Candidates, NEW input \in Inputs
  PROVE  Meets(Added(c, input), Transport)
<1>1. PICK card : card = Snapshot(c)
  OBVIOUS
<1>2. PICK h : h = NewHolding("holding", card, input, "now")
  OBVIOUS
<1>3. PICK event : event = AddedEvent("event", "device", h)
  OBVIOUS
<1>4. /\ IsObject(h)
      /\ {"id", "cardId", "card", "addedAt", "updatedAt"} \cup HoldingNeeded \subseteq DOMAIN h
      /\ DOMAIN h \subseteq HoldingFields
      /\ h["id"] = "holding" /\ h["card"] = card /\ h["cardId"] = card["id"]
  BY <1>2, HoldingFieldsKept
<1>5. /\ IsObject(card)
      /\ {"id"} \cup CardNeeded \subseteq DOMAIN card
      /\ DOMAIN card \subseteq CardFields
  BY <1>1, SnapshotFields
<1>6. /\ DOMAIN event = EventFields
      /\ event["type"] = "holding.added"
      /\ event["holdingId"] = h["id"]
      /\ event["payload"] = [holding |-> h]
  BY <1>3 DEF AddedEvent
<1>7. IsHolding(h, event)
  BY <1>4, <1>5, <1>6 DEF IsHolding
<1>8. /\ IsObject([holding |-> h])
      /\ DOMAIN [holding |-> h] = {"holding"}
      /\ [holding |-> h]["holding"] = h
  BY DEF IsObject
<1>9. IsPayload(event)
  BY <1>6, <1>7, <1>8 DEF IsPayload
<1>10. Meets(event, Transport)
  BY <1>6, <1>9 DEF Meets
<1> QED BY <1>1, <1>2, <1>3, <1>10 DEF Added

LEMMA ContractMet == CandidatesMeetContract
BY AddedMeets DEF CandidatesMeetContract, Refused

-----------------------------------------------------------------------------

\* A retry of whatever the service has stored is known again, what it sends back is
\* equal to the event of the device, and no addition of a device is refused for its form.
THEOREM StoredEventsComeRound == Spec => []EventsComeRound
<1>1. EventsComeRound
  BY RoundTrips, ContractMet DEF EventsComeRound, RoundTrip, CandidatesMeetContract
<1> QED BY <1>1, PTL

=============================================================================
