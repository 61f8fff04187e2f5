----------------------------- MODULE PriceQuote -----------------------------
(***************************************************************************)
(* The repository's other two readings of a Pyth price, beside the rate on *)
(* chain: the quote defineTokenPrice of client/deploy.ts makes of Hermes'  *)
(* answer, and the price that the program anrx_exchange_client logs.  They *)
(* have no state; they read the messages price accounts are filled from.   *)
(***************************************************************************)
EXTENDS ExchangeRate, Sequences

CONSTANTS
    EUR_TO_USD_FEED, SOL_TO_USD_FEED,
    FINEST,         \* an exponent no price goes below
    NoQuote         \* null

ASSUME QuoteAssumption ==
    /\ EUR_TO_USD_FEED # SOL_TO_USD_FEED
    /\ FINEST \in Int
    /\ \A e \in Exponents : FINEST <= e /\ FINEST <= -e

\* getPriceUpdateData: Hermes' messages, in any order, some feed perhaps missing.
Answers ==
    LET posted == {acc \in PriceAccounts : price_update[acc] # NoAccount}
    IN  UNION {[1..n -> posted] : n \in 0..2}

\* priceData.find((feed) => feed.id === ...)
Find(parsed, feed) ==
    LET hits == {i \in DOMAIN parsed : FeedOf[parsed[i]] = feed}
    IN  IF hits = {} THEN NoAccount
        ELSE parsed[CHOOSE i \in hits : \A j \in hits : i <= j]

\* fetch_pyth_price: agg.price / 10f64.powi(expo), in units of 10^FINEST.
LoggedPrice(p) == p.price * Pow10(-p.exponent - FINEST)

\* parseFloat(price.price) * 10 ** price.expo, in the same units.
UsdPrice(p) == p.price * Pow10(p.exponent - FINEST)

\* defineTokenPrice: the coin is worth one euro.
Quote(parsed) ==
    LET eur == Find(parsed, EUR_TO_USD_FEED)
        sol == Find(parsed, SOL_TO_USD_FEED)
    IN  IF eur = NoAccount \/ sol = NoAccount THEN NoQuote
        ELSE [priceInUsd |-> UsdPrice(price_update[eur]),
              solToUsd   |-> UsdPrice(price_update[sol])]
-----------------------------------------------------------------------------
(***************************************************************************)
(* Properties.                                                             *)
(***************************************************************************)

(***************************************************************************)
(* "Optionally, you can now update your token exchange rate on-chain using *)
(* this price" (deploy.ts:776): the rate the quote amounts to is the one   *)
(* the chain computes of the same two messages, whatever their exponents   *)
(* and their order in the answer, as long as the SOL price is above zero.  *)
(***************************************************************************)
QuoteMatchesRate ==
    \A parsed \in Answers :
        LET q == Quote(parsed)
        IN  q # NoQuote /\ q.solToUsd > 0 =>
              \E eur, sol \in {parsed[i] : i \in 1..Len(parsed)} :
                  /\ FeedOf[eur] = EUR_TO_USD_FEED /\ FeedOf[sol] = SOL_TO_USD_FEED
                  /\ RateValue(price_update[eur], price_update[sol], 0)
                        = SaturateU64((q.priceInUsd * RATE_SCALE) \div q.solToUsd)

=============================================================================
