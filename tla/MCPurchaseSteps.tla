--------------------------- MODULE MCPurchaseSteps ---------------------------
(***************************************************************************)
(* PurchaseSteps on the instance of MCPurchase made smaller: two payers,   *)
(* one of whom can pay for the reserve but not for the fees.               *)
(***************************************************************************)
EXTENDS PurchaseSteps

CONSTANTS u1, u2, eur_acc, sol_acc, eur_feed, sol_feed

MCCanonicalBump == [u \in Users |-> 255]
MCFeedOf == [acc \in PriceAccounts |-> IF acc = eur_acc THEN eur_feed ELSE sol_feed]
MCPrices == {2, 3}
MCExponents == {0}

MCFeeConfigs == {[r \in FeeRoles |->
    Charge(0, 30, 20, 20, 10, 10, 10)[r]]}

\* liquidity_account is passed for admin_account too, as the tests do.
MCLayouts == {[r \in Roles |-> IF r = "admin" THEN "liquidity" ELSE r]}

MCInitialLamports ==
    [acc \in Wallets |-> IF acc = u1 THEN 700 ELSE IF acc = u2 THEN 310 ELSE 1]

=============================================================================
