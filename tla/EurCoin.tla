------------------------------ MODULE EurCoin ------------------------------
(***************************************************************************)
(* The two programs together: the exchange rates, the purchases and the    *)
(* token in one system, and p2p_transfer, the instruction that uses two of *)
(* them (programs/anrx-eur-coin/src/lib.rs:298-335).                       *)
(***************************************************************************)
EXTENDS Purchase, Token

vars == <<exchange_rate, price_update, fee_config, lamports,
          mint, token, metadata>>

EurCoinInit == PurchaseInit /\ TokenInit

\* What p2p_transfer requires, without the owner check of the token program.
P2PAccepted_AnyOwner(u, from, to, amount, eurAcc, solAcc) ==
    /\ CoinSeedsOk(u)
    /\ UpdateAccepted(u, eurAcc, solAcc, EUR_USD_FEED, SOL_USD_FEED)
    /\ Open(from) /\ Open(to)
    /\ amount <= token[from].amount

P2PAccepted(u, from, to, amount, eurAcc, solAcc) ==
    /\ CoinSeedsOk(u)
    /\ UpdateAccepted(u, eurAcc, solAcc, EUR_USD_FEED, SOL_USD_FEED)
    /\ TransferAccepted(u, from, to, amount)

\* p2p_transfer refreshes the sender's rate, which it does not use, and then
\* transfers: no refresh without the transfer, no transfer without it.
P2PTransfer(u, from, to, amount, eurAcc, solAcc) ==
    /\ P2PAccepted(u, from, to, amount, eurAcc, solAcc)
    /\ UpdateExchangeRate(u, eurAcc, solAcc, EUR_USD_FEED, SOL_USD_FEED)
    /\ token' = Moved(from, to, amount)
    /\ UNCHANGED <<fee_config, lamports, mint, metadata>>

PurchaseStep == PurchaseNext /\ UNCHANGED tokenVars

TokenStep == TokenNext /\ UNCHANGED purchaseVars

P2PStep ==
    \E u \in Users, from, to \in TokenAddresses, amount \in TokenAmounts,
       eurAcc, solAcc \in PriceAccounts :
        P2PTransfer(u, from, to, amount, eurAcc, solAcc)

EurCoinNext == PurchaseStep \/ TokenStep \/ P2PStep

EurCoinSpec == EurCoinInit /\ [][EurCoinNext]_vars
-----------------------------------------------------------------------------
(***************************************************************************)
(* Properties.                                                             *)
(***************************************************************************)

EurCoinTypeOK == PurchaseTypeOK /\ TokenTypeOK

(***************************************************************************)
(* A step that moves coins and refreshes a rate takes the coins from an    *)
(* account of the very user whose rate it refreshes, hands all of them to  *)
(* another account, refreshes from fresh and verified prices of the two    *)
(* feeds the program names, and costs nobody a lamport ("P2P transactions  *)
(* incur zero transaction fees", README.md:50).                            *)
(***************************************************************************)
Sent(from, to, amount) ==
    /\ Open(from) /\ Open(to)
    /\ token' = Moved(from, to, amount)
    /\ token' # token

P2PIsFreeAndOwned ==
    [][\A u \in Users :
          exchange_rate'[u] # exchange_rate[u] /\ token' # token =>
              /\ \E from, to \in TokenAddresses, amount \in TokenAmounts :
                    Sent(from, to, amount) /\ token[from].owner = u
              /\ \E eurAcc, solAcc \in PriceAccounts :
                    /\ FeedOf[eurAcc] = EUR_USD_FEED
                    /\ FeedOf[solAcc] = SOL_USD_FEED
                    /\ QuotedFrom(eurAcc, solAcc, exchange_rate'[u].rate)
              /\ lamports' = lamports
              /\ mint' = mint]_vars

=============================================================================
