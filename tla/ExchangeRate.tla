---------------------------- MODULE ExchangeRate ----------------------------
(***************************************************************************)
(* The program anrx_exchange_rate (programs/anrx_exchange_rate/src/lib.rs):*)
(* one ExchangeRate account per user, at the address derived from the      *)
(* user's key, and the two instructions that create it and refresh it from *)
(* two Pyth price accounts.  The price accounts belong to Pyth and are     *)
(* external; time is the age of what they hold.                            *)
(***************************************************************************)
EXTENDS Solana

CONSTANTS
    Bumps,          \* bump seeds a caller may pass
    CanonicalBump,  \* per user, the bump at which the address was derived
    PriceAccounts,  \* accounts a caller may pass as a price update
    FeedIds,        \* 32-byte feed ids
    FeedOf,         \* per price account, the feed id its messages carry
    Prices,         \* mantissas Pyth posts (i64, so zero and below included)
    Exponents,      \* decimal exponents Pyth posts
    MAX_AGE,        \* maximum_age; 10 seconds in the code
    RATE_SCALE      \* fixed point of ExchangeRate.rate; 1_000_000 in the code

VARIABLES
    exchange_rate,  \* per user, the ExchangeRate account or NoAccount
    price_update    \* per price account, its contents or NoAccount

rateVars == <<exchange_rate, price_update>>

ExchangeRates == [rate : U64, user : Users, bump : Bumps]

\* Every age above MAX_AGE is as good as any other: the count stops there.
Ages == 0 .. MAX_AGE + 1

PriceUpdates ==
    [price : Prices, exponent : Exponents, verified : BOOLEAN, age : Ages]

PowersOfTen[k \in Nat] == IF k = 0 THEN 1 ELSE 10 * PowersOfTen[k - 1]

Pow10(k) == IF k > 0 THEN PowersOfTen[k] ELSE 1

ASSUME ExchangeRateAssumption ==
    /\ CanonicalBump \in [Users -> Bumps]
    /\ FeedOf \in [PriceAccounts -> FeedIds]
    /\ Prices \subseteq Int
    /\ Exponents \subseteq Int
    /\ MAX_AGE \in Nat
    /\ RATE_SCALE \in Nat \ {0}

ASSUME RateAccountAssumption ==
    NoAccount \notin ExchangeRates /\ NoAccount \notin PriceUpdates

(***************************************************************************)
(* The rate two prices give: EUR/USD over SOL/USD, brought to the same     *)
(* exponent, in fixed point.  The division is f64's: a SOL price of zero   *)
(* gives an infinity or a NaN, and `as u64` makes of them the largest u64, *)
(* or zero.                                                                *)
(***************************************************************************)
RateValue(eur, sol, err) ==
    LET k   == eur.exponent - sol.exponent
        num == eur.price * Pow10(k) * RATE_SCALE
        den == sol.price * Pow10(-k)
    IN  IF den = 0
        THEN IF num > 0 THEN U64_MAX ELSE 0
        ELSE IF den > 0 THEN AsU64(num, den, err) ELSE AsU64(-num, -den, err)

\* The account exists; its address is not derived again.
SeedsOk_BumpUnchecked(u) == exchange_rate[u] # NoAccount

\* bump = exchange_rate.bump: the address derived again with the stored bump
\* is the address of the account only for the bump it was created with.
SeedsOk(u) ==
    /\ exchange_rate[u] # NoAccount
    /\ exchange_rate[u].bump = CanonicalBump[u]

\* A price of the right feed, however old (get_price_unchecked).
PriceOk_AnyAge(acc, feed) ==
    /\ price_update[acc] # NoAccount
    /\ price_update[acc].verified
    /\ FeedOf[acc] = feed

\* The account's data deserialises to a fully verified price of the feed
\* that was asked for, published at most MAX_AGE ago.
PriceOk(acc, feed) ==
    /\ price_update[acc] # NoAccount
    /\ price_update[acc].verified
    /\ FeedOf[acc] = feed
    /\ price_update[acc].age <= MAX_AGE
-----------------------------------------------------------------------------
RateInit ==
    /\ exchange_rate = [u \in Users |-> NoAccount]
    /\ price_update = [acc \in PriceAccounts |-> NoAccount]

\* initialize_exchange_rate: the address is derived with the canonical bump,
\* the bump that is stored is the caller's argument.
InitializeExchangeRate(u, bump) ==
    /\ exchange_rate[u] = NoAccount
    /\ exchange_rate' = [exchange_rate EXCEPT
                            ![u] = [rate |-> 0, user |-> u, bump |-> bump]]
    /\ UNCHANGED price_update

UpdateAccepted(u, eurAcc, solAcc, eurFeed, solFeed) ==
    /\ SeedsOk(u)
    /\ PriceOk(eurAcc, eurFeed)
    /\ PriceOk(solAcc, solFeed)

\* update_exchange_rate, called by a wallet with any pair of feeds, or by a
\* program of this repository with the feeds it names.
UpdateExchangeRate(u, eurAcc, solAcc, eurFeed, solFeed) ==
    /\ UpdateAccepted(u, eurAcc, solAcc, eurFeed, solFeed)
    /\ \E err \in F64Errors :
          exchange_rate' =
              [exchange_rate EXCEPT ![u].rate =
                  RateValue(price_update[eurAcc], price_update[solAcc], err)]
    /\ UNCHANGED price_update

\* Pyth writes a price account; the message may already have some age.
PostPrice(acc, price, exponent, verified, age) ==
    /\ price_update' = [price_update EXCEPT
                           ![acc] = [price    |-> price,
                                     exponent |-> exponent,
                                     verified |-> verified,
                                     age      |-> age]]
    /\ UNCHANGED exchange_rate

\* One unit of cluster time: everything posted gets older.
Tick ==
    /\ price_update' =
          [acc \in PriceAccounts |->
              IF price_update[acc] # NoAccount /\ price_update[acc].age <= MAX_AGE
              THEN [price_update[acc] EXCEPT !.age = @ + 1]
              ELSE price_update[acc]]
    /\ UNCHANGED exchange_rate

Oracle ==
    \/ \E acc \in PriceAccounts, price \in Prices, exponent \in Exponents,
          verified \in BOOLEAN, age \in Ages :
          PostPrice(acc, price, exponent, verified, age)
    \/ Tick

RateCalls ==
    \E u \in Users :
        \/ \E bump \in Bumps : InitializeExchangeRate(u, bump)
        \/ \E eurAcc, solAcc \in PriceAccounts, eurFeed, solFeed \in FeedIds :
              UpdateExchangeRate(u, eurAcc, solAcc, eurFeed, solFeed)

RateNext == Oracle \/ RateCalls

RateSpec == RateInit /\ [][RateNext]_rateVars
-----------------------------------------------------------------------------
(***************************************************************************)
(* Properties.                                                             *)
(***************************************************************************)

\* The accounts hold what their Rust types say.
RateTypeOK ==
    /\ exchange_rate \in [Users -> ExchangeRates \cup {NoAccount}]
    /\ price_update \in [PriceAccounts -> PriceUpdates \cup {NoAccount}]

\* An account created with a bump that is not the canonical one is lost: no
\* later call changes it, neither a refresh (its seeds never match again) nor
\* a second initialisation (the address is in use).  This is what taking the
\* bump from the caller costs (programs/anrx_exchange_rate/src/lib.rs:14).
Bricked(u) ==
    exchange_rate[u] # NoAccount /\ exchange_rate[u].bump # CanonicalBump[u]

WrongBumpIsForever ==
    [][\A u \in Users : Bricked(u) => exchange_rate'[u] = exchange_rate[u]]_rateVars

\* A stored rate only ever changes to the quotient of two prices that were
\* posted, fully verified and at most MAX_AGE old at that moment: no sequence
\* of posts, refreshes and delays lets an outdated price in.
QuotedFrom(acc1, acc2, rate) ==
    /\ \A acc \in {acc1, acc2} :
          /\ price_update[acc] # NoAccount
          /\ price_update[acc].verified
          /\ price_update[acc].age <= MAX_AGE
    /\ \E err \in F64Errors :
          rate = RateValue(price_update[acc1], price_update[acc2], err)

RateChangesAreFreshQuotes ==
    [][\A u \in Users :
          exchange_rate'[u] # exchange_rate[u] /\ exchange_rate[u] # NoAccount =>
              \E eurAcc, solAcc \in PriceAccounts :
                  QuotedFrom(eurAcc, solAcc, exchange_rate'[u].rate)]_rateVars

=============================================================================
