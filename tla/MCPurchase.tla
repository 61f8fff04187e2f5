----------------------------- MODULE MCPurchase -----------------------------
(***************************************************************************)
(* Purchase on a small instance, scaled so that TLC's integers suffice:    *)
(* shares in percent, rates in tenths, a few thousand lamports.            *)
(***************************************************************************)
EXTENDS Purchase

CONSTANTS u1, eur_acc, sol_acc, eur_feed, sol_feed, eur_address, sol_address

MCCanonicalBump == [u \in Users |-> 255]
MCFeedOf == [acc \in PriceAccounts |-> IF acc = eur_acc THEN eur_feed ELSE sol_feed]
MCPrices == {2, 3}
MCExponents == {0}

FeeShares(v, a, pa, pb, pc, pd) ==
    [r \in FeeRoles |-> Charge(0, v, a, pa, pb, pc, pd)[r]]

\* A whole, unevenly; what tests/anrx_eur_coin.ts:196-200 passes.
MCFeeConfigs == {FeeShares(33, 17, 16, 16, 2, 16), FeeShares(10, 5, 5, 5, 5, 5)}

\* One account per role; and liquidity_account passed for admin_account too,
\* as tests/anrx_eur_coin.ts:304-306 does.
Separate == [r \in Roles |-> r]
MCLayouts == {Separate, [Separate EXCEPT !["admin"] = "liquidity"]}

MCInitialLamports == [acc \in Wallets |-> IF acc \in Users THEN 750 ELSE 1]

=============================================================================
