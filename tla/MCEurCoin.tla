----------------------------- MODULE MCEurCoin -----------------------------
(***************************************************************************)
(* The whole system on its smallest interesting instance: a sender and a   *)
(* recipient, one price per feed, a supply of at most two coins.           *)
(***************************************************************************)
EXTENDS EurCoin

CONSTANTS u1, u2, ata1, ata2, eur_acc, sol_acc, eur_feed, sol_feed

MCAta == [u \in Users |-> IF u = u1 THEN ata1 ELSE ata2]
MCCanonicalBump == [u \in Users |-> 255]
MCFeedOf == [acc \in PriceAccounts |-> IF acc = eur_acc THEN eur_feed ELSE sol_feed]
MCPrices == {1}
MCExponents == {0}
MCFeeConfigs == {[r \in FeeRoles |-> IF r \in {"validator", "admin"} THEN 1 ELSE 0]}
MCLayouts == {[r \in Roles |-> IF r = "liquidity" THEN "reserve" ELSE "fees"]}
MCRecipients == {"reserve", "fees"}
MCInitialLamports == [acc \in Wallets |-> IF acc = u1 THEN 2 ELSE 0]

=============================================================================
