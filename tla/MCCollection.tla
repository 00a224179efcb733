----------------------------- MODULE MCCollection -----------------------------
(* Collection on a small instance: two tabs, an account with one holding, the *)
(* backup of a device whose clock is ahead, with a timestamp of another form. *)
EXTENDS Collection, TLC

CONSTANTS tab1, tab2, anon, ann, pika, listed, offset

TwoTabs == {tab1, tab2}
OneTab == {tab1}
AnnOnly == {ann}
\* The same card as the catalogue gives it and as a CSV file does, without a price.
TwoCards == {pika, listed}
SamePrinting == [card \in TwoCards |-> "base1-58"]
MCClock == {1, 3}

\* Of instant 5, but sorting after 6: the evening of the same day, written with an
\* offset.
MCOtherTimes == [time \in {offset} |-> [instant |-> 5, collated |-> 13, ordered |-> 13]]

Quote(market, currency, finish, condition, any, price) ==
  [market |-> market, currency |-> currency, finish |-> finish, condition |-> condition,
   anyCondition |-> any, low |-> 1, price |-> price, high |-> price,
   observed |-> 1, stale |-> 1, liquidity |-> "high"]
Usd == Quote("tcgplayer", "USD", Missing, Missing, FALSE, 3)
Eur == Quote("cardmarket", "EUR", "normal", "played", FALSE, 4)
Holo == Quote("cardmarket", "EUR", "holo", "near-mint", FALSE, Missing)
MCOffered == [card \in TwoCards |-> IF card = pika THEN <<Usd, Eur, Holo>> ELSE <<>>]

MCFinishes == {"normal", "holo"}
MCConditions == {"near-mint", "played"}
MCPreferences == {[market |-> "tcgplayer", currency |-> "USD"],
                  [market |-> "cardmarket", currency |-> "EUR"]}
Dollar == [amount |-> 1, currency |-> "USD"]
MCCosts == {Missing, Dollar}

Copy(finish, condition, cost, quote) ==
  [card |-> pika, finish |-> finish, condition |-> condition, cost |-> cost, quote |-> quote]
Fresh == Copy("normal", "near-mint", Missing, Usd)
Bought == Copy("normal", "near-mint", Dollar, Usd)
Listed == [Copy("holo", "played", Missing, Missing) EXCEPT !.card = listed]

MCScanned == {[card |-> pika, finish |-> "normal", condition |-> "near-mint",
               cost |-> Dollar]}
MCCorrections == {[field |-> "finish", value |-> "holo"],
                  [field |-> "condition", value |-> "played"],
                  [field |-> "cost", value |-> Dollar]}

At(id, type, holding, amount, said, at, updated, seq) ==
  [id |-> id, type |-> type, holding |-> holding, amount |-> amount, told |-> said,
   at |-> at, updated |-> updated, seq |-> seq]

AtHome == [d \in {anon, ann} |->
  IF d = anon THEN {}
  ELSE {At(101, "holding.added", 101, 1, [Bought EXCEPT !.cost = Missing], 2, 2, 1),
        At(102, "holding.updated", 101, 0, [Nothing EXCEPT !.cost = Dollar], 2, 2, 2)}]
Ahead == {At(201, "holding.added", 201, 1, Fresh, 4, 1, 0),
          At(202, "holding.added", 202, 1, Bought, offset, 5, 0)}
MCRows == {<<[copy |-> Listed, amount |-> 1], [copy |-> Listed, amount |-> 0]>>,
           <<[copy |-> Listed, amount |-> 1], [copy |-> Listed, amount |-> 1]>>}
=============================================================================
