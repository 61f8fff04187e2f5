---------------------------- MODULE PurchaseSteps ----------------------------
(***************************************************************************)
(* purchase_with_fee as the runtime executes it: Anchor deserialises the   *)
(* accounts, the handler calls the rate program, computes the charge and   *)
(* makes seven transfers one after the other (programs/anrx-eur-coin/src/  *)
(* lib.rs:152-297); what fails on the way undoes what was done before.     *)
(* Meanwhile other transactions run, those that need no account the        *)
(* purchase has locked.  Every purchase locks the reserve, so there is one *)
(* at a time.  This module shows that Purchase may take it for one step.   *)
(***************************************************************************)
EXTENDS Purchase, Sequences

CONSTANT NoCall

VARIABLE call    \* the purchase that is running, or NoCall

stepsVars == <<exchange_rate, price_update, fee_config, lamports, call>>

\* The order of the transfers.
Transfers == <<"liquidity", "validator", "admin",
               "partner_a", "partner_b", "partner_c", "partner_d">>

\* rate is the handler's copy, charge what it computes of it, done the number
\* of transfers made, -1 before the refresh; account and wallets are what the
\* runtime restores if the call fails.
Calls ==
    [payer : Users, amount : PurchaseAmounts, layout : Layouts,
     eurAcc : PriceAccounts, solAcc : PriceAccounts,
     rate : U64, charge : [Roles -> U64], done : -1 .. Len(Transfers),
     account : ExchangeRates, wallets : [Wallets -> Nat]]

ASSUME NoCallAssumption == NoCall \notin Calls

Running == call # NoCall

NothingDue == [r \in Roles |-> 0]
-----------------------------------------------------------------------------
StepsInit == PurchaseInit /\ call = NoCall

\* The account constraints, and the copy of the rate's account.
Enter(u, amount, layout, eurAcc, solAcc) ==
    /\ ~Running
    /\ CoinSeedsOk(u)
    /\ fee_config # NoAccount
    /\ call' = [payer |-> u, amount |-> amount, layout |-> layout,
                eurAcc |-> eurAcc, solAcc |-> solAcc,
                rate |-> exchange_rate[u].rate, charge |-> NothingDue,
                done |-> -1, account |-> exchange_rate[u], wallets |-> lamports]
    /\ UNCHANGED purchaseVars

\* Step 1, the call of the rate program, and the computation of the charge
\* from the copy.
Refresh ==
    /\ Running /\ call.done = -1
    /\ UpdateExchangeRate(call.payer, call.eurAcc, call.solAcc,
                          EUR_USD_FEED, SOL_USD_FEED)
    /\ \E charge \in Charges(call.amount, call.rate, fee_config) :
          call' = [call EXCEPT !.charge = charge, !.done = 0]
    /\ UNCHANGED <<fee_config, lamports>>

\* A transfer, were it to be skipped when the payer cannot afford it.
Transfer_Lenient ==
    /\ Running /\ call.done \in 0 .. Len(Transfers) - 1
    /\ LET role == Transfers[call.done + 1]
           due  == call.charge[role]
       IN  lamports' = IF due > lamports[call.payer] THEN lamports
                       ELSE [lamports EXCEPT ![call.payer] = @ - due,
                                             ![call.layout[role]] = @ + due]
    /\ call' = [call EXCEPT !.done = @ + 1]
    /\ UNCHANGED <<exchange_rate, price_update, fee_config>>

\* A transfer, were the payer's balance not to be looked at.
Transfer_Overdrawn ==
    /\ Running /\ call.done \in 0 .. Len(Transfers) - 1
    /\ LET role == Transfers[call.done + 1]
           due  == call.charge[role]
       IN  lamports' = [lamports EXCEPT ![call.payer] = @ - due,
                                        ![call.layout[role]] = @ + due]
    /\ call' = [call EXCEPT !.done = @ + 1]
    /\ UNCHANGED <<exchange_rate, price_update, fee_config>>

\* The next transfer: invoke fails if the payer cannot afford it.
Transfer ==
    /\ Running /\ call.done \in 0 .. Len(Transfers) - 1
    /\ LET role == Transfers[call.done + 1]
           due  == call.charge[role]
       IN  /\ due <= lamports[call.payer]
           /\ lamports' = [lamports EXCEPT ![call.payer] = @ - due,
                                           ![call.layout[role]] = @ + due]
    /\ call' = [call EXCEPT !.done = @ + 1]
    /\ UNCHANGED <<exchange_rate, price_update, fee_config>>

\* Ok(()): what the call wrote stays.
Return ==
    /\ Running /\ call.done = Len(Transfers)
    /\ call' = NoCall
    /\ UNCHANGED purchaseVars

\* External: a step fails, or the compute budget runs out, and the runtime
\* takes everything back.
Abort ==
    /\ Running
    /\ exchange_rate' = [exchange_rate EXCEPT ![call.payer] = call.account]
    /\ lamports' = call.wallets
    /\ call' = NoCall
    /\ UNCHANGED <<price_update, fee_config>>

\* Another transaction, and time: while a purchase runs, nobody writes the
\* payer's rate nor the prices it reads, and its clock stands still.
Elsewhere ==
    /\ RateStep \/ \E cfg \in FeeConfigs : InitializeFeeConfig(cfg)
    /\ Running =>
          /\ exchange_rate'[call.payer] = exchange_rate[call.payer]
          /\ \A acc \in {call.eurAcc, call.solAcc} :
                price_update'[acc] = price_update[acc]
    /\ UNCHANGED call

StepsNext ==
    \/ \E u \in Users, amount \in PurchaseAmounts, layout \in Layouts,
          eurAcc, solAcc \in PriceAccounts : Enter(u, amount, layout, eurAcc, solAcc)
    \/ Refresh
    \/ Transfer
    \/ Return
    \/ Abort
    \/ Elsewhere

StepsSpec == StepsInit /\ [][StepsNext]_stepsVars
-----------------------------------------------------------------------------
(***************************************************************************)
(* Properties.                                                             *)
(***************************************************************************)

\* The handler's locals hold what their Rust types say, and no transfer, not
\* even of a call that will fail, takes lamports that are not there.
StepsTypeOK ==
    /\ PurchaseTypeOK
    /\ call \in Calls \cup {NoCall}

(***************************************************************************)
(* What other transactions may rely on: the state as it was before the     *)
(* running call.  Seen so, every call is one step of Purchase or none, so  *)
(* that a purchase that fails after the refresh, or between two of the     *)
(* seven transfers of lib.rs:199-294, leaves nothing behind.               *)
(***************************************************************************)
Committed == INSTANCE Purchase WITH
    exchange_rate <- IF Running THEN [exchange_rate EXCEPT ![call.payer] = call.account]
                     ELSE exchange_rate,
    lamports      <- IF Running THEN call.wallets ELSE lamports

ImplementsPurchase == Committed!PurchaseSpec

=============================================================================
