--------------------------- MODULE MCExchangeRate ---------------------------
(***************************************************************************)
(* ExchangeRate and PriceQuote on a small instance: two users whose        *)
(* canonical bumps differ, one price account per feed, prices on both      *)
(* sides of zero.                                                          *)
(***************************************************************************)
EXTENDS PriceQuote

CONSTANTS u1, u2, eur_acc, sol_acc, eur_feed, sol_feed

MCCanonicalBump == [u \in Users |-> IF u = u1 THEN 255 ELSE 254]
MCFeedOf == [acc \in PriceAccounts |-> IF acc = eur_acc THEN eur_feed ELSE sol_feed]
MCPrices == {-2, 0, 3}
MCExponents == {-1, 0}
MCFinest == -1

=============================================================================
