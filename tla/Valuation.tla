----------------------------- MODULE Valuation -----------------------------
(***************************************************************************)
(* What a collection is worth (src/lib/value.ts): the quote a copy takes   *)
(* from those of its card, when it is scanned and when its finish or its   *)
(* condition is corrected, the totals by currency, and what is left to     *)
(* review.  A quote is [market, currency, finish, condition, anyCondition, *)
(* low, price, high, observed, stale, liquidity]; anyCondition says that   *)
(* conditionIncluded is false.  Prices are integers.                       *)
(***************************************************************************)
EXTENDS Integers, FiniteSets, Sequences

CONSTANT Missing   \* null or undefined

Amounts == Int \cup {Missing}

QuoteType(quote) ==
  /\ quote # Missing /\ quote.observed \in Int
  /\ quote.price \in Amounts /\ quote.low \in Amounts /\ quote.high \in Amounts

QuotesType(quotes) ==
  /\ Len(quotes) \in Nat /\ DOMAIN quotes = 1..Len(quotes)
  /\ \A n \in DOMAIN quotes : QuoteType(quotes[n])

ASSUME MissingType == Missing \notin Int

-----------------------------------------------------------------------------
(* The quote of a copy.                                                     *)

FinishFits(quote, finish) ==
  \/ quote.finish = finish
  \/ finish = "normal" /\ quote.finish = Missing

ConditionFits(quote, condition) ==
  \/ condition = Missing
  \/ quote.condition \in {condition, Missing}
  \/ quote.anyCondition

ConditionScore(quote, condition) ==
  IF condition # Missing /\ quote.condition = condition THEN 2 ELSE 1

MarketScore(quote, preference) ==
  CASE quote.market = preference.market /\ quote.currency = preference.currency -> 5
    [] quote.market = preference.market /\ quote.currency # preference.currency -> 3
    [] quote.market # preference.market /\ quote.currency = preference.currency -> 2
    [] OTHER -> 1

Above(r, s) == \E i \in 1..4 : r[i] > s[i] /\ \A j \in 1..(i - 1) : r[j] = s[j]

\* selectPriceQuote: of the quotes that fit, first by condition, then by market, then
\* the latest; the sort is stable.
SelectPriceQuote(quotes, finish, condition, preference) ==
  LET fitting == {n \in DOMAIN quotes : FinishFits(quotes[n], finish)
                                         /\ ConditionFits(quotes[n], condition)}
      Rank(n) == <<ConditionScore(quotes[n], condition), MarketScore(quotes[n], preference),
                   quotes[n].observed, -n>>
      Best(n) == \A m \in fitting : ~Above(Rank(m), Rank(n))
  IN  IF fitting = {} THEN Missing ELSE quotes[CHOOSE n \in fitting : Best(n)]

-----------------------------------------------------------------------------
(* Totals.  A collection is a function from the ids of holdings.            *)

\* holdingMarketValue, holdingRange, holdingCost.
UnitPrice(h) ==
  IF h.quote = Missing THEN Missing
  ELSE IF h.quote.price # Missing THEN h.quote.price ELSE h.quote.low
Bound(h, side) == IF h.quote = Missing THEN Missing ELSE h.quote[side]
ForAll(amount, h) == IF amount = Missing THEN Missing ELSE amount * h.quantity

MarketValue(h) == ForAll(UnitPrice(h), h)
LowValue(h) == ForAll(Bound(h, "low"), h)
HighValue(h) == ForAll(Bound(h, "high"), h)
Cost(h) == IF h.cost = Missing THEN Missing ELSE h.cost.amount * h.quantity

\* currencyBucket: the ids it gathers.
Priced(H, currency) ==
  {id \in DOMAIN H : H[id].quote # Missing /\ H[id].quote.currency = currency}
Paid(H, currency) ==
  {id \in DOMAIN H : H[id].cost # Missing /\ H[id].cost.currency = currency}

Currencies(H) ==
  {H[id].quote.currency : id \in {i \in DOMAIN H : H[i].quote # Missing}}
    \cup {H[id].cost.currency : id \in {i \in DOMAIN H : H[i].cost # Missing}}

Sum(amounts) ==
  LET sum[S \in SUBSET DOMAIN amounts] ==
        IF S = {} THEN 0
        ELSE LET id == CHOOSE i \in S : TRUE IN amounts[id] + sum[S \ {id}]
  IN  sum[DOMAIN amounts]

\* Nothing is shown of a sum with an unknown part.
Total(amounts) ==
  IF DOMAIN amounts = {} \/ \E id \in DOMAIN amounts : amounts[id] = Missing THEN Missing
  ELSE Sum(amounts)

CostCoverage(H, currency) ==
  IF Paid(H, currency) = {} THEN "none"
  ELSE IF Priced(H, currency) = Paid(H, currency) THEN "complete" ELSE "partial"

\* collectionTotals, the line of one currency.
CurrencyTotal(H, currency) ==
  LET market == Total([id \in Priced(H, currency) |-> MarketValue(H[id])])
      cost == Total([id \in Paid(H, currency) |-> Cost(H[id])])
      coverage == CostCoverage(H, currency)
  IN  [low |-> Total([id \in Priced(H, currency) |-> LowValue(H[id])]),
       market |-> market,
       high |-> Total([id \in Priced(H, currency) |-> HighValue(H[id])]),
       cost |-> cost,
       costCoverage |-> coverage,
       net |-> IF market # Missing /\ cost # Missing /\ coverage = "complete"
               THEN market - cost ELSE Missing]

-----------------------------------------------------------------------------
(* Review.                                                                  *)

\* buildReviewQueue, without its order: why a holding is to be reviewed.
Reasons(h, today) ==
  {r \in {"missing-price", "stale-price", "low-liquidity", "unknown-liquidity",
          "missing-cost"} :
     \/ r = "missing-price" /\ h.quote = Missing
     \/ r = "stale-price" /\ h.quote # Missing /\ h.quote.stale <= today
     \/ r = "low-liquidity" /\ h.quote # Missing /\ h.quote.liquidity = "low"
     \/ r = "unknown-liquidity" /\ h.quote # Missing
          /\ h.quote.liquidity \in {Missing, "unknown"}
     \/ r = "missing-cost" /\ h.cost = Missing}

-----------------------------------------------------------------------------
\* The net of a currency is what the copies priced or paid in it bring, or it is not
\* shown, and then for a reason.
NetIsHonest(H, currency) ==
  LET net == CurrencyTotal(H, currency).net
      concerned == {id \in DOMAIN H :
         \/ H[id].quote # Missing /\ H[id].quote.currency = currency
         \/ H[id].cost # Missing /\ H[id].cost.currency = currency}
      brings == [id \in concerned |->
                   (UnitPrice(H[id]) - H[id].cost.amount) * H[id].quantity]
      Like(id) == /\ H[id].quote # Missing /\ UnitPrice(H[id]) # Missing
                  /\ H[id].cost # Missing
                  /\ H[id].cost.currency = H[id].quote.currency
  IN  IF net # Missing
      THEN (\A id \in concerned : Like(id)) /\ net = Sum(brings)
      ELSE \E id \in concerned :
             Reasons(H[id], 0) # {} \/ (H[id].quote # Missing /\ ~Like(id))

=============================================================================
