--------------------------- MODULE EurCoin_proofs ---------------------------
(***************************************************************************)
(* Theorems of the composition.  Each step of the whole system is a step   *)
(* of the purchases or none, and a step of the token or none: p2p_transfer *)
(* is a refresh to the one and a transfer to the other.  So whatever is    *)
(* proved of a part alone holds of it in the whole, p2p_transfer included. *)
(***************************************************************************)
EXTENDS EurCoin, Purchase_proofs, Token_proofs

LEMMA P2PParts ==
  ASSUME NEW u \in Users, NEW from \in TokenAddresses, NEW to \in TokenAddresses,
         NEW amount \in TokenAmounts, NEW eurAcc \in PriceAccounts,
         NEW solAcc \in PriceAccounts, P2PTransfer(u, from, to, amount, eurAcc, solAcc)
  PROVE  RateStep /\ TokenNext
<1>1. RateNext
  BY PurchaseAssumption DEF P2PTransfer, RateNext, RateCalls
<1>2. RateStep
  BY <1>1 DEF P2PTransfer, RateStep
<1>3. SplTransfer(u, from, to, amount) /\ u \in Signers
  BY DEF P2PTransfer, P2PAccepted, SplTransfer, Signers
<1>4. TokenNext
  BY <1>3 DEF TokenNext, Wallet
<1> QED
  BY <1>2, <1>4

LEMMA StepsOfParts ==
  ASSUME [EurCoinNext]_vars
  PROVE  [PurchaseNext]_purchaseVars /\ [TokenNext]_tokenVars
<1>1. CASE PurchaseStep
  BY <1>1 DEF PurchaseStep
<1>2. CASE TokenStep
  BY <1>2 DEF TokenStep
<1>3. CASE P2PStep
  BY <1>3, P2PParts DEF P2PStep, PurchaseNext
<1>4. CASE UNCHANGED vars
  BY <1>4 DEF vars, purchaseVars, tokenVars
<1> QED
  BY <1>1, <1>2, <1>3, <1>4 DEF EurCoinNext

\* The whole system is the purchases and the token at once: p2p_transfer
\* (lib.rs:298-335) gives neither of them a behaviour it does not have alone.
THEOREM WholeIsItsParts == EurCoinSpec => PurchaseSpec /\ TokenSpec
<1>1. EurCoinInit => PurchaseInit /\ TokenInit
  BY DEF EurCoinInit
<1>2. [EurCoinNext]_vars => [PurchaseNext]_purchaseVars /\ [TokenNext]_tokenVars
  BY StepsOfParts
<1> QED
  BY <1>1, <1>2, PTL DEF EurCoinSpec, PurchaseSpec, TokenSpec

\* Types hold when everything is interleaved, p2p_transfer included.
THEOREM EurCoinTypeCorrect == EurCoinSpec => []EurCoinTypeOK
<1>1. PurchaseTypeOK /\ TokenTypeOK => EurCoinTypeOK
  BY DEF EurCoinTypeOK
<1> QED
  BY <1>1, WholeIsItsParts, PurchaseTypeCorrect, TokenTypeCorrect, PTL

\* With both programs interleaved, p2p_transfer included, no lamport appears or
\* is lost and every issued coin is in some account (lib.rs:54-335).
THEOREM WholeConserves == EurCoinSpec => []LamportsConserved /\ []SupplyConserved
  BY WholeIsItsParts, NoLamportIsLost, SupplyIsHeld, PTL

-----------------------------------------------------------------------------
\* The rate that is refreshed is the caller's, and from the named feeds.
LEMMA P2PRefreshes ==
  ASSUME RateTypeOK, NEW v \in Users, NEW eurAcc \in PriceAccounts,
         NEW solAcc \in PriceAccounts, NEW u \in Users,
         UpdateExchangeRate(v, eurAcc, solAcc, EUR_USD_FEED, SOL_USD_FEED),
         exchange_rate'[u] # exchange_rate[u]
  PROVE  /\ u = v
         /\ FeedOf[eurAcc] = EUR_USD_FEED /\ FeedOf[solAcc] = SOL_USD_FEED
         /\ QuotedFrom(eurAcc, solAcc, exchange_rate'[u].rate)
<1>1. PICK err \in F64Errors :
        exchange_rate' = [exchange_rate EXCEPT ![v].rate =
            RateValue(price_update[eurAcc], price_update[solAcc], err)]
  BY DEF UpdateExchangeRate
<1>2. u = v
  BY <1>1 DEF RateTypeOK
<1>3. exchange_rate[v] \in ExchangeRates
  BY DEF UpdateExchangeRate, UpdateAccepted, SeedsOk, RateTypeOK
<1>4. exchange_rate'[v].rate = RateValue(price_update[eurAcc], price_update[solAcc], err)
  BY <1>1, <1>3 DEF RateTypeOK, ExchangeRates
<1> QED
  BY <1>2, <1>4 DEF UpdateExchangeRate, UpdateAccepted, PriceOk, QuotedFrom

\* A step that refreshes a rate and moves coins is a p2p_transfer: it moves
\* the coins of the user whose rate it refreshes, and nobody's lamports
\* (README.md:50).
THEOREM P2PIsOwned == EurCoinSpec => P2PIsFreeAndOwned
<1> DEFINE P(u) ==
      /\ \E from, to \in TokenAddresses, amount \in TokenAmounts :
            Sent(from, to, amount) /\ token[from].owner = u
      /\ \E eurAcc, solAcc \in PriceAccounts :
            /\ FeedOf[eurAcc] = EUR_USD_FEED
            /\ FeedOf[solAcc] = SOL_USD_FEED
            /\ QuotedFrom(eurAcc, solAcc, exchange_rate'[u].rate)
      /\ lamports' = lamports
      /\ mint' = mint
<1>1. ASSUME EurCoinTypeOK, [EurCoinNext]_vars, NEW u \in Users,
             exchange_rate'[u] # exchange_rate[u], token' # token
      PROVE  P(u)
  <2>1. P2PStep
    BY <1>1 DEF EurCoinNext, PurchaseStep, TokenStep, tokenVars, purchaseVars, vars
  <2>2. PICK v \in Users, from \in TokenAddresses, to \in TokenAddresses,
             amount \in TokenAmounts, eurAcc \in PriceAccounts, solAcc \in PriceAccounts :
          P2PTransfer(v, from, to, amount, eurAcc, solAcc)
    BY <2>1 DEF P2PStep
  <2>3. /\ u = v
        /\ FeedOf[eurAcc] = EUR_USD_FEED /\ FeedOf[solAcc] = SOL_USD_FEED
        /\ QuotedFrom(eurAcc, solAcc, exchange_rate'[u].rate)
    BY <1>1, <2>2, P2PRefreshes DEF P2PTransfer, EurCoinTypeOK, PurchaseTypeOK
  <2>4. Sent(from, to, amount) /\ token[from].owner = u
    BY <1>1, <2>2, <2>3 DEF P2PTransfer, P2PAccepted, TransferAccepted, Sent
  <2>5. lamports' = lamports /\ mint' = mint
    BY <2>2 DEF P2PTransfer
  <2> QED
    BY <2>3, <2>4, <2>5
<1>2. EurCoinTypeOK /\ [EurCoinNext]_vars =>
        [\A u \in Users : exchange_rate'[u] # exchange_rate[u] /\ token' # token => P(u)]_vars
  BY <1>1
<1>3. EurCoinSpec => [][EurCoinNext]_vars
  BY PTL DEF EurCoinSpec
<1> QED
  BY <1>2, <1>3, EurCoinTypeCorrect, PTL DEF P2PIsFreeAndOwned

=============================================================================
