------------------------------ MODULE Purchase ------------------------------
(***************************************************************************)
(* The purchase part of anrx_eur_coin (programs/anrx-eur-coin/src/lib.rs): *)
(* initialize_fee_config, and purchase_with_fee, which refreshes the       *)
(* payer's exchange rate through the other program and pays lamports to    *)
(* seven accounts.  The amounts are computed from the copy of the rate the *)
(* handler deserialised before the refresh: Anchor does not reload it.     *)
(***************************************************************************)
EXTENDS ExchangeRate, FiniteSets, Functions

CONSTANTS
    RATE_PROGRAM,     \* the id of anrx_exchange_rate
    SEEDS_PROGRAM,    \* the id the purchase derives the rate's address under
    EUR_USD_FEED,     \* the feed ids the purchase asks for
    SOL_USD_FEED,
    SHARE_SCALE,      \* what the shares are divided by; 10_000 in the code
    FeeConfigs,       \* share settings initialize_fee_config may be given
    Recipients,       \* accounts that are paid
    RESERVE,          \* the one that is passed as liquidity_account
    Layouts,          \* which recipient a caller passes for which role
    PurchaseAmounts,  \* amounts of coin a caller may ask for
    InitialLamports   \* lamports per wallet before anything happens

VARIABLES
    fee_config,       \* the FeeConfig account or NoAccount
    lamports          \* lamports per wallet

purchaseVars == <<exchange_rate, price_update, fee_config, lamports>>

FeeRoles == {"validator", "admin",
             "partner_a", "partner_b", "partner_c", "partner_d"}
Roles == {"liquidity"} \cup FeeRoles

Wallets == Users \cup Recipients

ASSUME PurchaseAssumption ==
    /\ EUR_USD_FEED \in FeedIds /\ SOL_USD_FEED \in FeedIds
    /\ SHARE_SCALE \in Nat \ {0}
    /\ FeeConfigs \subseteq [FeeRoles -> U64]
    /\ NoAccount \notin FeeConfigs
    /\ Users \cap Recipients = {}
    /\ RESERVE \in Recipients
    /\ Layouts \subseteq [Roles -> Recipients] /\ Layouts # {}
    /\ \A layout \in Layouts : layout["liquidity"] = RESERVE
    /\ PurchaseAmounts \subseteq U64
    /\ InitialLamports \in [Wallets -> U64]

\* An address is 32 bytes long: there are finitely many.
ASSUME WalletsAssumption == IsFiniteSet(Wallets)

\* The nominal values considered are below 2^53, where an f64 is off by less
\* than one lamport.
ASSUME PrecisionAssumption == F64_ERR < RATE_SCALE

\* FeeConfig.total_fee is written and never read: a config is its six shares.
Shares(cfg) ==
    cfg["validator"] + cfg["admin"] + cfg["partner_a"] + cfg["partner_b"]
        + cfg["partner_c"] + cfg["partner_d"]

Total(charge) == charge["liquidity"] + Shares(charge)

\* Everything `x as u64` may give for an f64 x computed as num / den.
Casts(num, den) == {AsU64(num, den, err) : err \in F64Errors}

(***************************************************************************)
(* What one purchase charges per role: the nominal value of the coins in   *)
(* lamports, and per fee role its share of the 3% on top of it.            *)
(***************************************************************************)
LiquidityCasts(amount, rate) == Casts(amount * rate, RATE_SCALE)

\* A fee, were it taken from total_cost and not from the 3% of it.
FeeCasts_WholePrice(amount, rate, share) ==
    Casts(103 * amount * rate * share, 100 * RATE_SCALE * SHARE_SCALE)

FeeCasts(amount, rate, share) ==
    Casts(3 * amount * rate * share, 100 * RATE_SCALE * SHARE_SCALE)

Charge(l, v, a, pa, pb, pc, pd) ==
    [r \in Roles |-> CASE r = "liquidity" -> l  [] r = "validator" -> v
                       [] r = "admin"     -> a  [] r = "partner_a" -> pa
                       [] r = "partner_b" -> pb [] r = "partner_c" -> pc
                       [] r = "partner_d" -> pd]

\* The six fees, were partner_d paid with partner_c's share.
Charges_PartnerSwapped(amount, rate, cfg) ==
    {Charge(l, v, a, pa, pb, pc, pd) :
        l  \in LiquidityCasts(amount, rate),
        v  \in FeeCasts(amount, rate, cfg["validator"]),
        a  \in FeeCasts(amount, rate, cfg["admin"]),
        pa \in FeeCasts(amount, rate, cfg["partner_a"]),
        pb \in FeeCasts(amount, rate, cfg["partner_b"]),
        pc \in FeeCasts(amount, rate, cfg["partner_c"]),
        pd \in FeeCasts(amount, rate, cfg["partner_c"])}

Charges(amount, rate, cfg) ==
    {Charge(l, v, a, pa, pb, pc, pd) :
        l  \in LiquidityCasts(amount, rate),
        v  \in FeeCasts(amount, rate, cfg["validator"]),
        a  \in FeeCasts(amount, rate, cfg["admin"]),
        pa \in FeeCasts(amount, rate, cfg["partner_a"]),
        pb \in FeeCasts(amount, rate, cfg["partner_b"]),
        pc \in FeeCasts(amount, rate, cfg["partner_c"]),
        pd \in FeeCasts(amount, rate, cfg["partner_d"])}

\* What an account receives, were a later transfer to overwrite an earlier one.
Received_LastWins(acc, charge, layout) ==
    LET mine == {r \in Roles : layout[r] = acc}
    IN  IF mine = {} THEN 0 ELSE charge[CHOOSE r \in mine : TRUE]

\* An account passed for several roles receives all of their charges.
Received(acc, charge, layout) ==
    Total([r \in Roles |-> IF layout[r] = acc THEN charge[r] ELSE 0])

Paid(payer, charge, layout) ==
    [acc \in Wallets |->
        IF acc = payer THEN lamports[acc] - Total(charge)
        ELSE lamports[acc] + Received(acc, charge, layout)]

(***************************************************************************)
(* seeds = ["exchange_rate", payer], bump = exchange_rate.bump, without a  *)
(* seeds::program: Anchor derives the address under the id of the program  *)
(* the constraint stands in, and derivations under two ids never agree.    *)
(***************************************************************************)
CoinSeedsOk(u) == SeedsOk(u) /\ SEEDS_PROGRAM = RATE_PROGRAM

\* Acceptance, were the transfers not to fail on an empty payer.
PurchaseAccepted_Unaffordable(u, charge, eurAcc, solAcc) ==
    /\ CoinSeedsOk(u)
    /\ fee_config # NoAccount
    /\ UpdateAccepted(u, eurAcc, solAcc, EUR_USD_FEED, SOL_USD_FEED)

PurchaseAccepted(u, charge, eurAcc, solAcc) ==
    /\ CoinSeedsOk(u)
    /\ fee_config # NoAccount
    /\ UpdateAccepted(u, eurAcc, solAcc, EUR_USD_FEED, SOL_USD_FEED)
    /\ Total(charge) <= lamports[u]
-----------------------------------------------------------------------------
PurchaseInit ==
    /\ RateInit
    /\ fee_config = NoAccount
    /\ lamports = InitialLamports

\* initialize_fee_config: once, by any signer, with any shares.
InitializeFeeConfig(cfg) ==
    /\ fee_config = NoAccount
    /\ fee_config' = cfg
    /\ UNCHANGED <<exchange_rate, price_update, lamports>>

\* purchase_with_fee, were the handler to reload the account after the CPI.
PurchaseWithFee_Reloaded(u, amount, layout, eurAcc, solAcc) ==
    /\ CoinSeedsOk(u)
    /\ fee_config # NoAccount
    /\ UpdateExchangeRate(u, eurAcc, solAcc, EUR_USD_FEED, SOL_USD_FEED)
    /\ \E charge \in Charges(amount, exchange_rate'[u].rate, fee_config) :
          /\ PurchaseAccepted(u, charge, eurAcc, solAcc)
          /\ lamports' = Paid(u, charge, layout)
    /\ UNCHANGED fee_config

(***************************************************************************)
(* purchase_with_fee.  The refresh writes a new rate to the account; the   *)
(* charge comes from the rate that was there before.  Every transfer, and  *)
(* the refresh with them, is rolled back if the payer cannot afford one.   *)
(***************************************************************************)
PurchaseWithFee(u, amount, layout, eurAcc, solAcc) ==
    /\ CoinSeedsOk(u)
    /\ fee_config # NoAccount
    /\ \E charge \in Charges(amount, exchange_rate[u].rate, fee_config) :
          /\ PurchaseAccepted(u, charge, eurAcc, solAcc)
          /\ lamports' = Paid(u, charge, layout)
    /\ UpdateExchangeRate(u, eurAcc, solAcc, EUR_USD_FEED, SOL_USD_FEED)
    /\ UNCHANGED fee_config

RateStep == RateNext /\ UNCHANGED <<fee_config, lamports>>

PurchaseCalls ==
    \/ \E cfg \in FeeConfigs : InitializeFeeConfig(cfg)
    \/ \E u \in Users, amount \in PurchaseAmounts, layout \in Layouts,
          eurAcc, solAcc \in PriceAccounts :
          PurchaseWithFee(u, amount, layout, eurAcc, solAcc)

PurchaseNext == RateStep \/ PurchaseCalls

PurchaseSpec == PurchaseInit /\ [][PurchaseNext]_purchaseVars
-----------------------------------------------------------------------------
(***************************************************************************)
(* Properties.                                                             *)
(***************************************************************************)

\* The accounts hold what their Rust types say, and lamports are counts; a
\* payer's stay a u64, since nobody pays a payer.
PurchaseTypeOK ==
    /\ RateTypeOK
    /\ fee_config \in FeeConfigs \cup {NoAccount}
    /\ lamports \in [Wallets -> Nat]
    /\ \A u \in Users : lamports[u] \in U64

\* Whatever roles share an account, a purchase neither creates nor destroys
\* lamports (the seven transfers at programs/anrx-eur-coin/src/lib.rs:198-294).
TotalLamports(f) == FoldFunction(+, 0, f)

LamportsConserved == TotalLamports(lamports) = TotalLamports(InitialLamports)

Debited(u) == lamports[u] - lamports'[u]
Gained(acc) == lamports'[acc] - lamports[acc]

\* With the seeds constraint as the code states it (lib.rs:568: derived under
\* the purchase program's own id), no sequence of calls moves a lamport.
NothingIsEverSold == SEEDS_PROGRAM # RATE_PROGRAM => lamports = InitialLamports

(***************************************************************************)
(* With shares of at most a whole, the payer is charged at most 3% more    *)
(* than the reserve receives, up to less than one lamport of rounding.     *)
(* Everything is multiplied by the divisors of the code; the second line   *)
(* is the rounding of the nominal value and of the six fees.               *)
(***************************************************************************)
WithinThreePercent(debit, reserve) ==
    debit * 100 * RATE_SCALE * SHARE_SCALE
        <= 103 * reserve * RATE_SCALE * SHARE_SCALE
           + 3 * (RATE_SCALE + F64_ERR) * SHARE_SCALE + 6 * F64_ERR

\* The fee a payer bears is the 3% of lib.rs:181, however the shares split it
\* and whatever rate, amount and account layout the purchase met.
FeeCap ==
    [][\A u \in Users :
          Debited(u) > 0 /\ Shares(fee_config) <= SHARE_SCALE =>
              WithinThreePercent(Debited(u), Gained(RESERVE))]_purchaseVars

(***************************************************************************)
(* Two fee roles with an account of their own are paid in proportion to    *)
(* their shares, up to one lamport of rounding each: none of the copies of *)
(* the transfer block (lib.rs:213-294) pays the wrong share, or the wrong  *)
(* partner.                                                                *)
(***************************************************************************)
PrivateAccount(r) == (CHOOSE layout \in Layouts : TRUE)[r]

PrivateRoles ==
    {r \in FeeRoles : \A layout \in Layouts, q \in Roles :
                        (layout[q] = PrivateAccount(r)) = (q = r)}

PaidInProportion ==
    [][fee_config # NoAccount =>
          LET D == 100 * RATE_SCALE * SHARE_SCALE
          IN  \A r, q \in PrivateRoles :
                  D * Gained(PrivateAccount(r)) * fee_config[q]
                  <= D * (Gained(PrivateAccount(q)) + 1) * fee_config[r]
                     + F64_ERR * (fee_config[r] + fee_config[q])]_purchaseVars

\* A purchase on an account whose rate is still the zero that
\* initialize_exchange_rate wrote (anrx_exchange_rate/src/lib.rs:15), or that a
\* zero price left there, takes nothing from the payer whatever the market
\* says: the refresh inside the call comes too late for it.
FreeAtZeroRate ==
    [][\A u \in Users :
          exchange_rate[u] # NoAccount /\ exchange_rate[u].rate = 0
              => lamports'[u] >= lamports[u]]_purchaseVars

\* A purchase is charged at the rate it has just fetched, which is what the
\* README promises ("fetching the latest market prices", README.md:31) and
\* "Step 1: Update exchange rate using CPI" (lib.rs:169) is there for.
PurchaseAtFreshRate ==
    [][\A u \in Users :
          Debited(u) > 0 =>
              \E amount \in PurchaseAmounts :
              \E charge \in Charges(amount, exchange_rate'[u].rate, fee_config) :
                  Debited(u) = Total(charge)]_purchaseVars

\* A payer who meets every requirement the tests set up (an exchange rate
\* account, a fee config, fresh and verified prices in accounts of Pyth's two
\* feeds, enough lamports) can buy: tests/anrx_eur_coin.ts:288 expects it.
MeetsRequirements(u, charge, eurAcc, solAcc) ==
    /\ SeedsOk(u)
    /\ fee_config # NoAccount
    /\ PriceOk(eurAcc, FeedOf[eurAcc]) /\ PriceOk(solAcc, FeedOf[solAcc])
    /\ FeedOf[eurAcc] # FeedOf[solAcc]
    /\ Total(charge) <= lamports[u]

PurchasePossible ==
    \A u \in Users, eurAcc, solAcc \in PriceAccounts, amount \in PurchaseAmounts :
        exchange_rate[u] # NoAccount /\ fee_config # NoAccount =>
            \A charge \in Charges(amount, exchange_rate[u].rate, fee_config) :
                MeetsRequirements(u, charge, eurAcc, solAcc) =>
                    PurchaseAccepted(u, charge, eurAcc, solAcc)
                    \/ PurchaseAccepted(u, charge, solAcc, eurAcc)

=============================================================================
