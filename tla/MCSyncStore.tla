----------------------------- MODULE MCSyncStore -----------------------------
(* SyncStore on small instances: one card per holding, operations that race   *)
(* for it, repeat an identifier with other content, overflow or empty it.     *)
EXTENDS StoredEvents, TLC

CONSTANTS u1, u2, u3, h1, h2, c1, c2, c3

Op(id, type, holding, amount, snapshots) ==
  [id |-> id, type |-> type, holding |-> holding, amount |-> amount,
   snapshots |-> snapshots]

Add == Op("add", "holding.added", h1, 2, {c1})
AddAgain == Op("again", "holding.added", h1, 1, {c1})
AddOther == Op("other", "holding.added", h2, 1, {c2})
Less == Op("less", "holding.quantity-adjusted", h1, -2, {})
LessChanged == Op("less", "holding.quantity-adjusted", h1, -1, {})
Quote == Op("quote", "holding.updated", h1, 0, {c1})
Remove == Op("remove", "holding.removed", h1, 0, {})
Huge == Op("huge", "holding.added", h2, 1, {c1, c2, c3})

MCUsers == {u1, u2, u3}
MCSymmetry == Permutations(MCUsers)
MCHoldings == {h1, h2}
MCOperations == {Add, AddAgain, AddOther, Less, LessChanged, Quote, Remove, Huge}
MCBatches ==
  {<<>>, <<Add>>, <<AddOther, Add, Add>>, <<LessChanged, Quote>>,
   <<AddAgain, Remove>>, <<Huge>>}

\* Nothing, a card that two accounts hold and one of them holds less of, or one that no
\* page has room for.
Row(seq, user, op) ==
  [seq |-> seq, user |-> user, op |-> op, epoch |-> 1, raw |-> TRUE]
MCInherited ==
  {{}} \cup UNION {{{Row(1, u, Add), Row(2, v, Add), Row(3, u, Less)} :
                      v \in MCUsers \ {u}} : u \in MCUsers}
    \cup {{Row(1, u, Huge), Row(2, u, Add)} : u \in MCUsers}

-----------------------------------------------------------------------------
(* Contents of events: every choice of optional fields, of dates that agree or *)
(* not, of one quote or different ones.                                        *)

MaybeWith(all, field, values) ==
  all \cup {With(o, [f \in {field} |-> v]) : o \in all, v \in values}

MCCards ==
  MaybeWith(MaybeWith(MaybeWith({[id |-> "card", name |-> "x"]}, "rarity", {"x"}),
                      "quote", {"q1", "q2"}), "quotes", {"q1", "q2"})
MCCandidates == MaybeWith(MaybeWith(MCCards, "score", {"x"}), "matchReasons", {"x"})
MCInputs == MaybeWith(MaybeWith({[quantity |-> "x"]}, "note", {"x"}), "quote", {"q1"})

MCEvent(id, type, payload) ==
  [id |-> id, type |-> type, holdingId |-> "holding", deviceId |-> "device",
   occurredAt |-> "d1", payload |-> payload]

MCAdded ==
  {MCEvent("a", "holding.added", [holding |-> h]) : h \in
     MaybeWith(MaybeWith({[id |-> i, cardId |-> c, card |-> card, quantity |-> "x",
                           addedAt |-> a, updatedAt |-> u] :
                            i \in {"holding", "other"}, c \in {"card", "other"},
                            card \in MCCards, a, u \in {"d1", "d2"}},
                         "quote", {"q1", "q2"}), "note", {"x"})}
MCUpdated ==
  {MCEvent("u", "holding.updated", p) : p \in
     MaybeWith(MaybeWith({Nothing}, "quote", {Null, "q1"}), "note", {"x", Null})}
MCOther ==
  {MCEvent("o", type, p) : type \in {"holding.quantity-adjusted", "holding.removed"},
                           p \in MaybeWith({Nothing}, "delta", {"x"})}
MCWrites ==
  MaybeWith(MaybeWith(MCAdded \cup MCUpdated \cup MCOther, "syncedAt", {"d1"}),
            "serverSequence", {1})
=============================================================================
