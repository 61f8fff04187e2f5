-------------------------- MODULE Purchase_proofs --------------------------
(***************************************************************************)
(* Theorems of ExchangeRate, of PriceQuote and of Purchase.  Of the rates: *)
(* their type invariant, the bump that can never be corrected, the         *)
(* freshness of whatever rate is stored, and that the script's quote is    *)
(* the chain's rate.  Of the purchases: their type invariant, the 3% cap   *)
(* on what a payer bears, that fees are paid in proportion to their        *)
(* shares, that lamports are conserved, and that nobody can buy anything   *)
(* at all with the constants the code is deployed with.                    *)
(***************************************************************************)
EXTENDS Purchase, PriceQuote, SumLemmas, WellFoundedInduction, TLAPS

-----------------------------------------------------------------------------
(***************************************************************************)
(* Powers of ten.  That the recursion has a solution is proved for 0 .. n  *)
(* first, by a smallest n for which it has none.                           *)
(***************************************************************************)
PowersOn(g, D) == g = [k \in D |-> IF k = 0 THEN 1 ELSE 10 * g[k - 1]]

LEMMA SmallestOf ==
  ASSUME NEW F, F \subseteq Nat, F # {}
  PROVE  \E n \in F : \A m \in F : n <= m
<1> DEFINE R == {ss \in Nat \X Nat : ss[1] < ss[2]}
<1>1. IsWellFoundedOn(R, Nat)
  BY NatLessThanWellFounded DEF OpToRel
<1>2. \A m, k \in Nat : m < k => <<m, k>> \in R
  OBVIOUS
<1> HIDE DEF R
<1>3. PICK n \in F : \A m \in F : ~(<<m, n>> \in R)
  BY <1>1, WFMin
<1>4. n \in Nat /\ \A m \in F : m \in Nat /\ ~(m < n)
  BY <1>2, <1>3
<1>5. \A m \in F : n <= m
  BY <1>4
<1> QED
  BY <1>5

LEMMA PowersStep ==
  ASSUME NEW D, NEW g, PowersOn(g, D), NEW k \in D
  PROVE  g[k] = IF k = 0 THEN 1 ELSE 10 * g[k - 1]
<1> DEFINE e(i) == IF i = 0 THEN 1 ELSE 10 * g[i - 1]
<1>1. g = [i \in D |-> e(i)]
  BY DEF PowersOn
<1> HIDE DEF e
<1>2. g[k] = e(k)
  BY <1>1
<1> QED
  BY <1>2 DEF e

LEMMA PowersUpTo == \A n \in Nat : \E g : PowersOn(g, 0 .. n)
<1> DEFINE F == {n \in Nat : ~\E g : PowersOn(g, 0 .. n)}
<1> SUFFICES ASSUME F # {} PROVE FALSE
  OBVIOUS
<1>1. PICK n \in F : \A m \in F : n <= m
  <2>1. F \subseteq Nat
    OBVIOUS
  <2> HIDE DEF F
  <2> QED
    BY <2>1, SmallestOf
<1>2. n \in Nat /\ ~\E g : PowersOn(g, 0 .. n)
  OBVIOUS
<1>3. CASE n = 0
  <2> DEFINE g == [k \in 0 .. 0 |-> 1]
  <2>1. g = [k \in 0 .. 0 |-> IF k = 0 THEN 1 ELSE 10 * g[k - 1]]
    OBVIOUS
  <2>2. PowersOn(g, 0 .. 0)
    BY <2>1 DEF PowersOn
  <2> QED
    BY <1>2, <1>3, <2>2
<1>4. CASE n # 0
  <2>1. n - 1 \in Nat /\ n - 1 \notin F
    BY <1>1, <1>2, <1>4
  <2>2. PICK h : PowersOn(h, 0 .. n - 1)
    BY <2>1
  <2> HIDE DEF F
  <2> DEFINE g == [k \in 0 .. n |-> IF k = n THEN 10 * h[n - 1] ELSE h[k]]
  <2>3. ASSUME NEW k \in 0 .. n
        PROVE  (IF k = n THEN 10 * h[n - 1] ELSE h[k]) = IF k = 0 THEN 1 ELSE 10 * g[k - 1]
    <3>1. CASE k = n
      BY <1>2, <1>4, <3>1
    <3>2. CASE k # n
      <4>1. k \in 0 .. n - 1 /\ (k # 0 => k - 1 \in 0 .. n /\ k - 1 # n)
        BY <1>2, <3>2
      <4>2. h[k] = IF k = 0 THEN 1 ELSE 10 * h[k - 1]
        BY <2>2, <4>1, PowersStep
      <4> QED
        BY <3>2, <4>1, <4>2
    <3> QED
      BY <3>1, <3>2
  <2>4. g = [k \in 0 .. n |-> IF k = 0 THEN 1 ELSE 10 * g[k - 1]]
    BY <2>3
  <2>5. PowersOn(g, 0 .. n)
    <3> HIDE DEF g
    <3> QED
      BY <2>4 DEF PowersOn
  <2> QED
    BY <1>2, <2>5
<1> QED
  BY <1>3, <1>4

LEMMA PowersAgree ==
  ASSUME NEW A \in Nat, NEW B \in Nat, NEW g, NEW h,
         PowersOn(g, 0 .. A), PowersOn(h, 0 .. B), NEW n \in Nat, n <= A, n <= B
  PROVE  g[n] = h[n]
<1> DEFINE F == {i \in Nat : i <= A /\ i <= B /\ g[i] # h[i]}
<1> SUFFICES ASSUME F # {} PROVE FALSE
  OBVIOUS
<1>1. PICK i \in F : \A j \in F : i <= j
  <2>1. F \subseteq Nat
    OBVIOUS
  <2> HIDE DEF F
  <2> QED
    BY <2>1, SmallestOf
<1>2. i \in 0 .. A /\ i \in 0 .. B /\ g[i] # h[i]
  OBVIOUS
<1>3. i # 0 => i - 1 \in Nat /\ i - 1 <= A /\ i - 1 <= B /\ i - 1 \notin F
  BY <1>1
<1>4. i # 0 => g[i - 1] = h[i - 1]
  BY <1>3
<1> HIDE DEF F
<1>5. /\ g[i] = IF i = 0 THEN 1 ELSE 10 * g[i - 1]
      /\ h[i] = IF i = 0 THEN 1 ELSE 10 * h[i - 1]
  BY <1>2, PowersStep
<1> QED
  BY <1>2, <1>4, <1>5

LEMMA PowersExist == \E g : PowersOn(g, Nat)
<1> DEFINE G(n) == CHOOSE g : PowersOn(g, 0 .. n)
           p == [n \in Nat |-> G(n)[n]]
<1>1. ASSUME NEW n \in Nat PROVE PowersOn(G(n), 0 .. n)
  BY PowersUpTo
<1>2. ASSUME NEW n \in Nat PROVE G(n)[n] = IF n = 0 THEN 1 ELSE 10 * p[n - 1]
  <2>1. PowersOn(G(n), 0 .. n) /\ n \in 0 .. n
    BY <1>1
  <2> HIDE DEF G
  <2>2. G(n)[n] = IF n = 0 THEN 1 ELSE 10 * G(n)[n - 1]
    BY <2>1, PowersStep
  <2>3. CASE n # 0
    <3>1. n - 1 \in Nat /\ n - 1 <= n /\ PowersOn(G(n - 1), 0 .. n - 1)
      BY <1>1, <2>3
    <3>2. G(n)[n - 1] = G(n - 1)[n - 1]
      BY <2>1, <3>1, PowersAgree
    <3> QED
      BY <2>2, <2>3, <3>1, <3>2
  <2> QED
    BY <2>2, <2>3
<1>3. p = [n \in Nat |-> IF n = 0 THEN 1 ELSE 10 * p[n - 1]]
  <2> HIDE DEF G
  <2> QED
    BY <1>2
<1>4. PowersOn(p, Nat)
  <2> HIDE DEF p
  <2> QED
    BY <1>3 DEF PowersOn
<1> QED
  BY <1>4

LEMMA PowersAre == PowersOn(PowersOfTen, Nat)
<1>1. PowersOfTen = CHOOSE g : PowersOn(g, Nat)
  BY DEF PowersOfTen, PowersOn
<1> QED
  BY <1>1, PowersExist

LEMMA PowersRecur ==
  /\ PowersOfTen[0] = 1
  /\ \A k \in Nat : PowersOfTen[k + 1] = 10 * PowersOfTen[k]
<1>1. \A k \in Nat : PowersOfTen[k] = IF k = 0 THEN 1 ELSE 10 * PowersOfTen[k - 1]
  BY PowersAre, PowersStep
<1>2. ASSUME NEW k \in Nat PROVE PowersOfTen[k + 1] = 10 * PowersOfTen[k]
  <2>1. k + 1 \in Nat /\ k + 1 # 0 /\ (k + 1) - 1 = k
    OBVIOUS
  <2> QED
    BY <1>1, <2>1
<1> QED
  BY <1>1, <1>2

LEMMA PowersPositive == \A n \in Nat : PowersOfTen[n] \in Nat \ {0}
<1> DEFINE F == {n \in Nat : PowersOfTen[n] \notin Nat \ {0}}
<1> SUFFICES ASSUME F # {} PROVE FALSE
  OBVIOUS
<1>1. PICK n \in F : \A m \in F : n <= m
  <2>1. F \subseteq Nat
    OBVIOUS
  <2> HIDE DEF F
  <2> QED
    BY <2>1, SmallestOf
<1>2. n # 0
  BY PowersRecur
<1>3. n - 1 \in Nat /\ n - 1 \notin F /\ n = (n - 1) + 1
  BY <1>1, <1>2
<1>4. PowersOfTen[n - 1] \in Nat \ {0} /\ PowersOfTen[n] = 10 * PowersOfTen[n - 1]
  BY <1>3, PowersRecur
<1> QED
  BY <1>1, <1>4

\* 10^(m + n) is 10^m times 10^n.
LEMMA PowersMultiply ==
  ASSUME NEW m \in Nat, NEW n \in Nat
  PROVE  PowersOfTen[m + n] = PowersOfTen[m] * PowersOfTen[n]
<1> DEFINE F == {i \in Nat : PowersOfTen[m + i] # PowersOfTen[m] * PowersOfTen[i]}
<1> SUFFICES ASSUME F # {} PROVE FALSE
  OBVIOUS
<1>1. PICK i \in F : \A j \in F : i <= j
  <2>1. F \subseteq Nat
    OBVIOUS
  <2> HIDE DEF F
  <2> QED
    BY <2>1, SmallestOf
<1>2. PowersOfTen[m] \in Nat
  BY PowersPositive
<1>3. i # 0
  <2>1. m + 0 = m /\ PowersOfTen[0] = 1
    BY PowersRecur
  <2>2. 0 \notin F
    BY <1>2, <2>1
  <2> QED
    BY <1>1, <2>2
<1>4. i - 1 \in Nat /\ i - 1 \notin F /\ i = (i - 1) + 1 /\ m + i = (m + (i - 1)) + 1
      /\ m + (i - 1) \in Nat
  BY <1>1, <1>3
<1> DEFINE a == PowersOfTen[m]
           b == PowersOfTen[i - 1]
<1>5. PowersOfTen[m + (i - 1)] = a * b /\ b \in Nat /\ a \in Nat
  BY <1>2, <1>4, PowersPositive
<1>6. PowersOfTen[i] = 10 * b /\ PowersOfTen[m + i] = 10 * PowersOfTen[m + (i - 1)]
  BY <1>4, PowersRecur
<1>7. PowersOfTen[m + i] # a * PowersOfTen[i]
  BY <1>1
<1> HIDE DEF a, b, F
<1>8. 10 * (a * b) = a * (10 * b)
  BY <1>5
<1> QED
  BY <1>5, <1>6, <1>7, <1>8

LEMMA Pow10Positive == \A k \in Int : Pow10(k) \in Nat \ {0}
  BY PowersPositive DEF Pow10

LEMMA Pow10Multiplies ==
  ASSUME NEW m \in Nat, NEW n \in Nat
  PROVE  Pow10(m + n) = Pow10(m) * Pow10(n)
<1>1. \A k \in Nat : Pow10(k) = PowersOfTen[k]
  BY PowersRecur DEF Pow10
<1>2. m + n \in Nat
  OBVIOUS
<1> QED
  BY <1>1, <1>2, PowersMultiply

-----------------------------------------------------------------------------
(***************************************************************************)
(* Division, and fractions brought to a common denominator.                *)
(***************************************************************************)
LEMMA Division ==
  ASSUME NEW a \in Int, NEW b \in Nat \ {0}
  PROVE  /\ a \div b \in Int
         /\ (a \div b) * b <= a
         /\ a < (a \div b) * b + b
  BY Z3

LEMMA QuotientIs ==
  ASSUME NEW x \in Int, NEW y \in Nat \ {0}, NEW q \in Int, q * y <= x, x < q * y + y
  PROVE  x \div y = q
<1> DEFINE d == x \div y
<1>1. d \in Int /\ d * y <= x /\ x < d * y + y
  BY Division
<1> HIDE DEF d
<1>2. ASSUME d < q PROVE FALSE
  <2>1. d + 1 <= q
    BY <1>1, <1>2
  <2>2. (d + 1) * y <= q * y
    BY <1>1, <2>1
  <2>3. (d + 1) * y = d * y + y
    BY <1>1
  <2> QED
    BY <1>1, <2>2, <2>3
<1>3. ASSUME q < d PROVE FALSE
  <2>1. q + 1 <= d
    BY <1>1, <1>3
  <2>2. (q + 1) * y <= d * y
    BY <1>1, <2>1
  <2>3. (q + 1) * y = q * y + y
    BY <1>1
  <2> QED
    BY <1>1, <2>2, <2>3
<1>4. d = q
  BY <1>1, <1>2, <1>3
<1> QED
  BY <1>4 DEF d

LEMMA QuotientScales ==
  ASSUME NEW x \in Int, NEW y \in Nat \ {0}, NEW c \in Nat \ {0}
  PROVE  (x * c) \div (y * c) = x \div y
<1> DEFINE d == x \div y
<1>1. d \in Int /\ d * y <= x /\ x < d * y + y
  BY Division
<1> HIDE DEF d
<1>2. y * c \in Nat \ {0} /\ x * c \in Int
  OBVIOUS
<1>3. d * (y * c) <= x * c
  <2>1. (d * y) * c <= x * c
    BY <1>1
  <2>2. (d * y) * c = d * (y * c)
    BY <1>1
  <2> QED
    BY <2>1, <2>2
<1>4. x * c < d * (y * c) + y * c
  <2>1. x * c < (d * y + y) * c
    BY <1>1
  <2>2. (d * y + y) * c = d * (y * c) + y * c
    BY <1>1
  <2> QED
    BY <2>1, <2>2
<1>5. (x * c) \div (y * c) = d
  BY <1>1, <1>2, <1>3, <1>4, QuotientIs
<1> QED
  BY <1>5 DEF d

-----------------------------------------------------------------------------
(***************************************************************************)
(* The exchange rate program.                                              *)
(***************************************************************************)
\* A cast to u64 ends up in u64, whatever it is given (`as u64` saturates).
LEMMA SaturateInU64 == ASSUME NEW n \in Int PROVE SaturateU64(n) \in U64
  BY SolanaAssumption DEF SaturateU64, U64

LEMMA AsU64InU64 ==
  ASSUME NEW num \in Int, NEW den \in Int, den > 0, NEW err \in F64Errors
  PROVE  AsU64(num, den, err) \in U64
<1>1. err \in Int
  BY SolanaAssumption DEF F64Errors
<1>2. (num + err) \div den \in Int
  BY <1>1
<1> QED
  BY <1>2, SaturateInU64 DEF AsU64

\* The rate computed from any two prices Pyth can post is a u64: no price,
\* zero and negative ones included, makes lib.rs:42-45 leave the range.
LEMMA RateValueInU64 ==
  ASSUME NEW eur \in PriceUpdates, NEW sol \in PriceUpdates, NEW err \in F64Errors
  PROVE  RateValue(eur, sol, err) \in U64
<1> DEFINE k   == eur.exponent - sol.exponent
           num == eur.price * Pow10(k) * RATE_SCALE
           den == sol.price * Pow10(-k)
<1>1. Pow10(k) \in Int /\ Pow10(-k) \in Int
  <2>1. eur.exponent \in Exponents /\ sol.exponent \in Exponents
    BY DEF PriceUpdates
  <2>2. eur.exponent \in Int /\ sol.exponent \in Int
    BY <2>1, ExchangeRateAssumption
  <2>3. -(eur.exponent - sol.exponent) = sol.exponent - eur.exponent
    BY <2>2
  <2>4. /\ Pow10(eur.exponent - sol.exponent) \in Nat \ {0}
        /\ Pow10(sol.exponent - eur.exponent) \in Nat \ {0}
    BY <2>2, Pow10Positive
  <2> QED
    BY <2>3, <2>4
<1>2. num \in Int /\ den \in Int
  <2>1. eur.price \in Int /\ sol.price \in Int
    BY ExchangeRateAssumption DEF PriceUpdates
  <2> QED
    BY <1>1, <2>1, ExchangeRateAssumption
<1> HIDE DEF num, den
<1>3. RateValue(eur, sol, err) =
        IF den = 0 THEN IF num > 0 THEN U64_MAX ELSE 0
        ELSE IF den > 0 THEN AsU64(num, den, err) ELSE AsU64(-num, -den, err)
  BY DEF RateValue, num, den
<1>4. CASE den = 0
  BY <1>3, <1>4, SolanaAssumption DEF U64
<1>5. CASE den > 0
  BY <1>2, <1>3, <1>5, AsU64InU64
<1>6. CASE den < 0
  BY <1>2, <1>3, <1>6, AsU64InU64
<1> QED
  BY <1>2, <1>4, <1>5, <1>6

-----------------------------------------------------------------------------
\* RateTypeOK is inductive.
LEMMA RateTypeInit == RateInit => RateTypeOK
  BY DEF RateInit, RateTypeOK

LEMMA RateTypeStep == RateTypeOK /\ [RateNext]_rateVars => RateTypeOK'
<1> SUFFICES ASSUME RateTypeOK, [RateNext]_rateVars PROVE RateTypeOK'
  OBVIOUS
<1>1. ASSUME NEW u \in Users, NEW bump \in Bumps, InitializeExchangeRate(u, bump)
      PROVE  RateTypeOK'
  <2>1. [rate |-> 0, user |-> u, bump |-> bump] \in ExchangeRates
    BY SolanaAssumption DEF ExchangeRates, U64
  <2> QED
    BY <1>1, <2>1 DEF InitializeExchangeRate, RateTypeOK
<1>2. ASSUME NEW u \in Users, NEW eurAcc \in PriceAccounts, NEW solAcc \in PriceAccounts,
             NEW eurFeed \in FeedIds, NEW solFeed \in FeedIds,
             UpdateExchangeRate(u, eurAcc, solAcc, eurFeed, solFeed)
      PROVE  RateTypeOK'
  <2>1. /\ exchange_rate[u] \in ExchangeRates
        /\ price_update[eurAcc] \in PriceUpdates
        /\ price_update[solAcc] \in PriceUpdates
    BY <1>2 DEF UpdateExchangeRate, UpdateAccepted, SeedsOk, PriceOk, RateTypeOK
  <2>2. PICK err \in F64Errors :
          exchange_rate' = [exchange_rate EXCEPT ![u].rate =
              RateValue(price_update[eurAcc], price_update[solAcc], err)]
    BY <1>2 DEF UpdateExchangeRate
  <2>3. RateValue(price_update[eurAcc], price_update[solAcc], err) \in U64
    BY <2>1, RateValueInU64
  <2>4. exchange_rate' \in [Users -> ExchangeRates \cup {NoAccount}]
    BY <2>1, <2>2, <2>3 DEF RateTypeOK, ExchangeRates
  <2> QED
    BY <1>2, <2>4 DEF UpdateExchangeRate, RateTypeOK
<1>3. ASSUME NEW acc \in PriceAccounts, NEW price \in Prices, NEW exponent \in Exponents,
             NEW verified \in BOOLEAN, NEW age \in Ages,
             PostPrice(acc, price, exponent, verified, age)
      PROVE  RateTypeOK'
  BY <1>3 DEF PostPrice, RateTypeOK, PriceUpdates
<1>4. CASE Tick
  <2>1. ASSUME NEW acc \in PriceAccounts
        PROVE  price_update'[acc] \in PriceUpdates \cup {NoAccount}
    <3>1. CASE price_update[acc] # NoAccount /\ price_update[acc].age <= MAX_AGE
      <4>1. price_update[acc] \in PriceUpdates
        BY <3>1 DEF RateTypeOK
      <4>2. price_update[acc].age + 1 \in Ages
        BY <3>1, <4>1, ExchangeRateAssumption DEF PriceUpdates, Ages
      <4>3. price_update'[acc] = [price_update[acc] EXCEPT !.age = @ + 1]
        BY <1>4, <3>1 DEF Tick
      <4> QED
        BY <4>1, <4>2, <4>3 DEF PriceUpdates
    <3>2. CASE ~(price_update[acc] # NoAccount /\ price_update[acc].age <= MAX_AGE)
      BY <1>4, <3>2 DEF Tick, RateTypeOK
    <3> QED
      BY <3>1, <3>2
  <2> QED
    BY <1>4, <2>1 DEF Tick, RateTypeOK
<1>5. CASE UNCHANGED rateVars
  BY <1>5 DEF rateVars, RateTypeOK
<1> QED
  BY <1>1, <1>2, <1>3, <1>4, <1>5 DEF RateNext, Oracle, RateCalls

\* Every reachable state of the rate program is well typed: in particular the
\* stored rate is always a u64.
THEOREM RateTypeCorrect == RateSpec => []RateTypeOK
<1> QED
  BY RateTypeInit, RateTypeStep, PTL DEF RateSpec

-----------------------------------------------------------------------------
\* A bump other than the canonical one is never corrected: no instruction of
\* the program changes such an account again (lib.rs:14 with lib.rs:73).
THEOREM WrongBumpStays == RateSpec => WrongBumpIsForever
<1>1. ASSUME RateTypeOK, [RateNext]_rateVars, NEW u \in Users, Bricked(u)
      PROVE  exchange_rate'[u] = exchange_rate[u]
  <2>1. ASSUME NEW v \in Users, NEW bump \in Bumps, InitializeExchangeRate(v, bump)
        PROVE  exchange_rate'[u] = exchange_rate[u]
    <3>1. u # v
      BY <1>1, <2>1 DEF InitializeExchangeRate, Bricked
    <3> QED
      BY <1>1, <2>1, <3>1 DEF InitializeExchangeRate, RateTypeOK
  <2>2. ASSUME NEW v \in Users, NEW eurAcc \in PriceAccounts, NEW solAcc \in PriceAccounts,
               NEW eurFeed \in FeedIds, NEW solFeed \in FeedIds,
               UpdateExchangeRate(v, eurAcc, solAcc, eurFeed, solFeed)
        PROVE  exchange_rate'[u] = exchange_rate[u]
    <3>1. u # v
      BY <1>1, <2>2 DEF UpdateExchangeRate, UpdateAccepted, SeedsOk, Bricked
    <3> QED
      BY <1>1, <2>2, <3>1 DEF UpdateExchangeRate, RateTypeOK
  <2>3. CASE UNCHANGED exchange_rate
    BY <2>3
  <2> QED
    BY <1>1, <2>1, <2>2, <2>3
    DEF RateNext, Oracle, RateCalls, PostPrice, Tick, rateVars
<1>2. RateTypeOK /\ [RateNext]_rateVars
        => [\A u \in Users : Bricked(u) => exchange_rate'[u] = exchange_rate[u]]_rateVars
  BY <1>1
<1> QED
  BY <1>2, RateTypeCorrect, PTL DEF RateSpec, WrongBumpIsForever

\* Whatever rate an existing account changes to, it is the quotient of two
\* prices posted, verified and at most MAX_AGE old at that moment (lib.rs:35).
THEOREM OnlyFreshQuotes == RateSpec => RateChangesAreFreshQuotes
<1> DEFINE P(u) == \E eurAcc, solAcc \in PriceAccounts :
                      QuotedFrom(eurAcc, solAcc, exchange_rate'[u].rate)
<1>1. ASSUME RateTypeOK, [RateNext]_rateVars, NEW u \in Users,
             exchange_rate'[u] # exchange_rate[u], exchange_rate[u] # NoAccount
      PROVE  P(u)
  <2>1. ASSUME NEW v \in Users, NEW bump \in Bumps, InitializeExchangeRate(v, bump)
        PROVE  FALSE
    <3>1. u # v
      BY <1>1, <2>1 DEF InitializeExchangeRate
    <3> QED
      BY <1>1, <2>1, <3>1 DEF InitializeExchangeRate, RateTypeOK
  <2>2. ASSUME NEW v \in Users, NEW eurAcc \in PriceAccounts, NEW solAcc \in PriceAccounts,
               NEW eurFeed \in FeedIds, NEW solFeed \in FeedIds,
               UpdateExchangeRate(v, eurAcc, solAcc, eurFeed, solFeed)
        PROVE  QuotedFrom(eurAcc, solAcc, exchange_rate'[u].rate)
    <3>1. u = v
      BY <1>1, <2>2 DEF UpdateExchangeRate, RateTypeOK
    <3>2. exchange_rate[u] \in ExchangeRates
      BY <1>1 DEF RateTypeOK
    <3>3. PICK err \in F64Errors :
            exchange_rate' = [exchange_rate EXCEPT ![v].rate =
                RateValue(price_update[eurAcc], price_update[solAcc], err)]
      BY <2>2 DEF UpdateExchangeRate
    <3>4. exchange_rate'[u].rate = RateValue(price_update[eurAcc], price_update[solAcc], err)
      BY <1>1, <3>1, <3>2, <3>3 DEF RateTypeOK, ExchangeRates
    <3> QED
      BY <2>2, <3>4 DEF UpdateExchangeRate, UpdateAccepted, PriceOk, QuotedFrom
  <2>3. ~UNCHANGED exchange_rate
    BY <1>1
  <2> QED
    BY <1>1, <2>1, <2>2, <2>3
    DEF RateNext, Oracle, RateCalls, PostPrice, Tick, rateVars
<1>2. RateTypeOK /\ [RateNext]_rateVars
        => [\A u \in Users :
              exchange_rate'[u] # exchange_rate[u] /\ exchange_rate[u] # NoAccount
                  => P(u)]_rateVars
  BY <1>1
<1> QED
  BY <1>2, RateTypeCorrect, PTL DEF RateSpec, RateChangesAreFreshQuotes

-----------------------------------------------------------------------------
(***************************************************************************)
(* The quote of the deployment script.                                     *)
(***************************************************************************)
\* What Array.find returns is an element, of the feed it was asked for.
LEMMA FindFinds ==
  ASSUME NEW n \in Nat, NEW parsed, DOMAIN parsed = 1 .. n, NEW feed,
         Find(parsed, feed) # NoAccount
  PROVE  \E i \in 1 .. n : Find(parsed, feed) = parsed[i] /\ FeedOf[parsed[i]] = feed
<1> DEFINE hits == {i \in DOMAIN parsed : FeedOf[parsed[i]] = feed}
<1>1. hits # {}
  BY DEF Find
<1>2. hits \subseteq Nat /\ hits \subseteq 1 .. n
  OBVIOUS
<1> DEFINE i == CHOOSE x \in hits : \A j \in hits : x <= j
<1>3. Find(parsed, feed) = parsed[i]
  BY <1>1 DEF Find
<1>4. \A x \in hits : x \in 1 .. n /\ FeedOf[parsed[x]] = feed
  OBVIOUS
<1> HIDE DEF hits
<1>5. i \in hits
  BY <1>1, <1>2, SmallestOf
<1> QED
  BY <1>3, <1>4, <1>5

\* Two prices give the same rate whether they are brought to the same exponent,
\* as on chain, or both to the finest one.
LEMMA SameQuotient ==
  ASSUME NEW a \in Int, NEW b \in Nat \ {0}, NEW e \in Exponents, NEW f \in Exponents
  PROVE  (a * Pow10(e - f) * RATE_SCALE) \div (b * Pow10(-(e - f)))
            = (a * Pow10(e - FINEST) * RATE_SCALE) \div (b * Pow10(f - FINEST))
<1> DEFINE A == Pow10(e - FINEST)
           B == Pow10(f - FINEST)
           S == RATE_SCALE
<1>1. /\ e \in Int /\ f \in Int /\ FINEST \in Int /\ FINEST <= e /\ FINEST <= f
      /\ S \in Nat \ {0}
  BY ExchangeRateAssumption, QuoteAssumption
<1>2. A \in Nat \ {0} /\ B \in Nat \ {0}
  BY <1>1, Pow10Positive
<1>3. CASE f <= e
  <2> DEFINE P == Pow10(e - f)
  <2>1. P \in Nat \ {0} /\ Pow10(-(e - f)) = 1
    <3>1. ~(-(e - f) > 0)
      BY <1>1, <1>3
    <3> QED
      BY <1>1, <3>1, Pow10Positive DEF Pow10
  <2>2. A = P * B
    <3>1. e - f \in Nat /\ f - FINEST \in Nat /\ e - FINEST = (e - f) + (f - FINEST)
      BY <1>1, <1>3
    <3> QED
      BY <3>1, Pow10Multiplies
  <2> HIDE DEF A, B, P, S
  <2>3. a * A * S = (a * P * S) * B
    BY <1>1, <1>2, <2>1, <2>2
  <2>4. b * 1 = b /\ a * P * S \in Int
    BY <1>1, <2>1
  <2>5. ((a * P * S) * B) \div (b * B) = (a * P * S) \div b
    BY <1>2, <2>4, QuotientScales
  <2> QED
    BY <2>1, <2>3, <2>4, <2>5 DEF A, B, P, S
<1>4. CASE e <= f
  <2> DEFINE Q == Pow10(-(e - f))
  <2>1. Q \in Nat \ {0} /\ Pow10(e - f) = 1
    <3>1. ~(e - f > 0) /\ -(e - f) \in Int
      BY <1>1, <1>4
    <3> QED
      BY <1>1, <3>1, Pow10Positive DEF Pow10
  <2>2. B = Q * A
    <3>1. -(e - f) \in Nat /\ e - FINEST \in Nat /\ f - FINEST = -(e - f) + (e - FINEST)
      BY <1>1, <1>4
    <3> QED
      BY <3>1, Pow10Multiplies
  <2> HIDE DEF A, B, Q, S
  <2>3. a * A * S = (a * 1 * S) * A /\ b * B = (b * Q) * A
    BY <1>1, <1>2, <2>1, <2>2
  <2>4. b * Q \in Nat \ {0} /\ a * 1 * S \in Int
    BY <1>1, <2>1
  <2>5. ((a * 1 * S) * A) \div ((b * Q) * A) = (a * 1 * S) \div (b * Q)
    BY <1>2, <2>4, QuotientScales
  <2> QED
    BY <2>1, <2>3, <2>5 DEF A, B, Q, S
<1> QED
  BY <1>1, <1>3, <1>4

LEMMA QuoteIsRate ==
  ASSUME NEW eur \in PriceUpdates, NEW sol \in PriceUpdates, UsdPrice(sol) > 0
  PROVE  RateValue(eur, sol, 0)
            = SaturateU64((UsdPrice(eur) * RATE_SCALE) \div UsdPrice(sol))
<1> DEFINE e == eur.exponent
           f == sol.exponent
           a == eur.price
           b == sol.price
<1>1. e \in Exponents /\ f \in Exponents /\ a \in Int /\ b \in Int
  BY ExchangeRateAssumption DEF PriceUpdates
<1>2. e \in Int /\ f \in Int /\ FINEST \in Int /\ RATE_SCALE \in Int
  <2>1. Exponents \subseteq Int /\ RATE_SCALE \in Int /\ FINEST \in Int
    BY ExchangeRateAssumption, QuoteAssumption
  <2> HIDE DEF e, f
  <2> QED
    BY <1>1, <2>1
<1>3. /\ Pow10(e - f) \in Nat \ {0} /\ Pow10(-(e - f)) \in Nat \ {0}
      /\ Pow10(e - FINEST) \in Nat \ {0} /\ Pow10(f - FINEST) \in Nat \ {0}
  BY <1>2, Pow10Positive
<1>4. UsdPrice(eur) = a * Pow10(e - FINEST) /\ UsdPrice(sol) = b * Pow10(f - FINEST)
  BY DEF UsdPrice
<1>5. b \in Nat \ {0}
  BY <1>1, <1>3, <1>4
<1> DEFINE num == a * Pow10(e - f) * RATE_SCALE
           den == b * Pow10(-(e - f))
<1>6. num \in Int /\ den \in Int /\ den > 0
  BY <1>1, <1>2, <1>3, <1>5
<1>7. RateValue(eur, sol, 0) =
        IF den = 0 THEN IF num > 0 THEN U64_MAX ELSE 0
        ELSE IF den > 0 THEN AsU64(num, den, 0) ELSE AsU64(-num, -den, 0)
  BY DEF RateValue
<1>8. num \div den = (a * Pow10(e - FINEST) * RATE_SCALE) \div (b * Pow10(f - FINEST))
  <2> HIDE DEF a, b, e, f
  <2> QED
    BY <1>1, <1>5, SameQuotient
<1> HIDE DEF num, den
<1>9. RateValue(eur, sol, 0) = AsU64(num, den, 0) /\ num + 0 = num
  BY <1>6, <1>7
<1> QED
  BY <1>4, <1>8, <1>9 DEF AsU64

\* The quote that defineTokenPrice makes of an answer of Hermes is the rate the
\* chain computes of the same two messages, for all exponents and any answer
\* (deploy.ts:745-791, anrx_exchange_rate/src/lib.rs:42-45).
THEOREM QuotesMatch == RateSpec => []QuoteMatchesRate
<1>1. ASSUME RateTypeOK PROVE QuoteMatchesRate
  <2> SUFFICES ASSUME NEW parsed \in Answers,
                      Quote(parsed) # NoQuote, Quote(parsed).solToUsd > 0
               PROVE  \E eur, sol \in {parsed[i] : i \in 1..Len(parsed)} :
                        /\ FeedOf[eur] = EUR_TO_USD_FEED /\ FeedOf[sol] = SOL_TO_USD_FEED
                        /\ RateValue(price_update[eur], price_update[sol], 0)
                              = SaturateU64((Quote(parsed).priceInUsd * RATE_SCALE)
                                                \div Quote(parsed).solToUsd)
    BY DEF QuoteMatchesRate
  <2> DEFINE posted == {acc \in PriceAccounts : price_update[acc] # NoAccount}
             eur == Find(parsed, EUR_TO_USD_FEED)
             sol == Find(parsed, SOL_TO_USD_FEED)
  <2>1. PICK n \in 0 .. 2 : parsed \in [1 .. n -> posted]
    BY DEF Answers
  <2>2. n \in Nat /\ DOMAIN parsed = 1 .. n /\ Len(parsed) = n
    BY <2>1
  <2>3. eur # NoAccount /\ sol # NoAccount
    BY DEF Quote
  <2>4. /\ \E i \in 1 .. n : eur = parsed[i] /\ FeedOf[parsed[i]] = EUR_TO_USD_FEED
        /\ \E i \in 1 .. n : sol = parsed[i] /\ FeedOf[parsed[i]] = SOL_TO_USD_FEED
    BY <2>2, <2>3, FindFinds
  <2> DEFINE p == price_update[eur]
             q == price_update[sol]
  <2>5. Quote(parsed).priceInUsd = UsdPrice(p) /\ Quote(parsed).solToUsd = UsdPrice(q)
    BY <2>3 DEF Quote
  <2>6. p \in PriceUpdates /\ q \in PriceUpdates
    BY <1>1, <2>1, <2>4 DEF RateTypeOK
  <2> HIDE DEF eur, sol
  <2>7. RateValue(p, q, 0) = SaturateU64((UsdPrice(p) * RATE_SCALE) \div UsdPrice(q))
    BY <2>5, <2>6, QuoteIsRate
  <2> QED
    BY <2>2, <2>4, <2>5, <2>7
<1> QED
  BY <1>1, RateTypeCorrect, PTL

-----------------------------------------------------------------------------
(***************************************************************************)
(* What `x as u64` of a nonnegative quotient is, up to rounding.           *)
(***************************************************************************)
LEMMA CastUpper ==
  ASSUME NEW num \in Nat, NEW den \in Nat \ {0}, NEW x \in Casts(num, den)
  PROVE  x \in U64 /\ x \in Nat /\ x * den <= num + F64_ERR
<1>1. PICK err \in F64Errors : x = AsU64(num, den, err)
  BY DEF Casts
<1>2. err \in Int /\ err <= F64_ERR /\ F64_ERR \in Nat
  BY SolanaAssumption DEF F64Errors
<1> DEFINE q == (num + err) \div den
<1>3. q \in Int /\ q * den <= num + err
  BY <1>2, Division
<1>4. x = SaturateU64(q)
  BY <1>1 DEF AsU64
<1> HIDE DEF q
<1>5. x \in U64 /\ x \in Nat
  BY <1>3, <1>4, SaturateInU64, SolanaAssumption DEF U64
<1>6. CASE q < 0
  BY <1>2, <1>3, <1>4, <1>5, <1>6 DEF SaturateU64
<1>7. CASE q >= 0
  <2>1. x <= q
    BY <1>3, <1>4, <1>7, SolanaAssumption DEF SaturateU64
  <2>2. x * den <= q * den
    BY <1>3, <1>5, <2>1
  <2>3. x * den \in Int /\ q * den \in Int
    BY <1>3, <1>5
  <2> QED
    BY <1>2, <1>3, <1>5, <2>2, <2>3
<1> QED
  BY <1>3, <1>6, <1>7

LEMMA CastLower ==
  ASSUME NEW num \in Nat, NEW den \in Nat \ {0}, NEW x \in Casts(num, den), x # U64_MAX
  PROVE  num <= x * den + den + F64_ERR
<1>1. PICK err \in F64Errors : x = AsU64(num, den, err)
  BY DEF Casts
<1>2. err \in Int /\ -F64_ERR <= err /\ F64_ERR \in Nat
  BY SolanaAssumption DEF F64Errors
<1> DEFINE q == (num + err) \div den
<1>3. q \in Int /\ num + err < q * den + den
  BY <1>2, Division
<1>4. x = SaturateU64(q)
  BY <1>1 DEF AsU64
<1> HIDE DEF q
<1>5. x \in Nat /\ q <= x
  BY <1>3, <1>4, SolanaAssumption DEF SaturateU64
<1>6. q * den <= x * den /\ q * den \in Int /\ x * den \in Int
  BY <1>3, <1>5
<1> QED
  BY <1>2, <1>3, <1>6

-----------------------------------------------------------------------------
(***************************************************************************)
(* The arithmetic of one purchase, without the model around it: X is       *)
(* amount * rate, l the reserve's part, f1 .. f6 the fees of shares s1 ..  *)
(* s6, D the common divisor.                                               *)
(***************************************************************************)
LEMMA FeeSum ==
  ASSUME NEW X \in Nat, NEW D \in Nat, NEW E \in Nat,
         NEW s1 \in Nat, NEW s2 \in Nat, NEW s3 \in Nat,
         NEW s4 \in Nat, NEW s5 \in Nat, NEW s6 \in Nat,
         NEW f1 \in Nat, NEW f2 \in Nat, NEW f3 \in Nat,
         NEW f4 \in Nat, NEW f5 \in Nat, NEW f6 \in Nat,
         f1 * D <= X * s1 + E, f2 * D <= X * s2 + E, f3 * D <= X * s3 + E,
         f4 * D <= X * s4 + E, f5 * D <= X * s5 + E, f6 * D <= X * s6 + E
  PROVE  (f1 + f2 + f3 + f4 + f5 + f6) * D <= X * (s1 + s2 + s3 + s4 + s5 + s6) + 6 * E
<1>1. (f1 + f2 + f3 + f4 + f5 + f6) * D
        = f1 * D + f2 * D + f3 * D + f4 * D + f5 * D + f6 * D
  BY Z3
<1>2. X * (s1 + s2 + s3 + s4 + s5 + s6)
        = X * s1 + X * s2 + X * s3 + X * s4 + X * s5 + X * s6
  BY Z3
<1> QED
  BY <1>1, <1>2

LEMMA MonotoneProduct ==
  ASSUME NEW a \in Nat, NEW b \in Nat, NEW c \in Nat, a <= b
  PROVE  a * c <= b * c /\ c * a <= c * b /\ a * c \in Nat /\ b * c \in Nat
  BY Z3

\* X <= (l + 1) * RS + E is the reserve's rounding, F * D <= 3 X SS + 6 E the
\* fees'; together they are the cap.
LEMMA CapArithmetic ==
  ASSUME NEW X \in Nat, NEW E \in Nat, NEW RS \in Nat, NEW SS \in Nat,
         NEW l \in Nat, NEW F \in Nat, NEW S \in Nat,
         X <= l * RS + RS + E,
         F * (100 * RS * SS) <= 3 * X * S + 6 * E,
         S <= SS
  PROVE  (l + F) * 100 * RS * SS <= 103 * l * RS * SS + 3 * (RS + E) * SS + 6 * E
<1>1. (3 * X) * S <= (3 * X) * SS
  BY MonotoneProduct
<1>2. X * (3 * SS) <= (l * RS + RS + E) * (3 * SS)
  <2>1. l * RS + RS + E \in Nat /\ 3 * SS \in Nat
    BY Z3
  <2> QED
    BY <2>1, MonotoneProduct
<1>3. (3 * X) * SS = X * (3 * SS)
  BY Z3
<1>4. (l * RS + RS + E) * (3 * SS) = 3 * l * RS * SS + 3 * (RS + E) * SS
  BY Z3
<1>5. (l + F) * 100 * RS * SS = 100 * l * RS * SS + F * (100 * RS * SS)
  BY Z3
<1>6. 103 * l * RS * SS = 100 * l * RS * SS + 3 * l * RS * SS
  BY Z3
<1> DEFINE a == F * (100 * RS * SS)
           b == (3 * X) * S
           c == (3 * X) * SS
           d == 3 * l * RS * SS
           e == 3 * (RS + E) * SS
           g == 100 * l * RS * SS
<1>7. a \in Nat /\ b \in Nat /\ c \in Nat /\ d \in Nat /\ e \in Nat /\ g \in Nat
  BY Z3
<1>8. a <= b + 6 * E /\ b <= c /\ c <= d + e
  BY <1>1, <1>2, <1>3, <1>4
<1>9. (l + F) * 100 * RS * SS = g + a /\ 103 * l * RS * SS = g + d
  BY <1>5, <1>6
<1> HIDE DEF a, b, c, d, e, g
<1>10. g + a <= g + d + e + 6 * E
  BY <1>7, <1>8
<1> QED
  BY <1>9, <1>10 DEF e

-----------------------------------------------------------------------------
LEMMA RoleNames ==
  /\ "liquidity" \in Roles /\ FeeRoles \subseteq Roles
  /\ "validator" \in FeeRoles /\ "admin" \in FeeRoles
  /\ "partner_a" \in FeeRoles /\ "partner_b" \in FeeRoles
  /\ "partner_c" \in FeeRoles /\ "partner_d" \in FeeRoles
  BY DEF Roles, FeeRoles

LEMMA ChargeOf ==
  ASSUME NEW l, NEW v, NEW a, NEW pa, NEW pb, NEW pc, NEW pd
  PROVE  LET c == Charge(l, v, a, pa, pb, pc, pd)
         IN  /\ c["liquidity"] = l /\ c["validator"] = v /\ c["admin"] = a
             /\ c["partner_a"] = pa /\ c["partner_b"] = pb
             /\ c["partner_c"] = pc /\ c["partner_d"] = pd
             /\ DOMAIN c = Roles
  BY DEF Charge, Roles, FeeRoles

\* What every charge of a purchase is made of (lib.rs:181-195).
LEMMA ChargeParts ==
  ASSUME NEW amount, NEW rate, NEW cfg, NEW charge \in Charges(amount, rate, cfg)
  PROVE  /\ charge["liquidity"] \in LiquidityCasts(amount, rate)
         /\ \A r \in FeeRoles : charge[r] \in FeeCasts(amount, rate, cfg[r])
<1>1. PICK l \in LiquidityCasts(amount, rate),
           v \in FeeCasts(amount, rate, cfg["validator"]),
           a \in FeeCasts(amount, rate, cfg["admin"]),
           pa \in FeeCasts(amount, rate, cfg["partner_a"]),
           pb \in FeeCasts(amount, rate, cfg["partner_b"]),
           pc \in FeeCasts(amount, rate, cfg["partner_c"]),
           pd \in FeeCasts(amount, rate, cfg["partner_d"]) :
        charge = Charge(l, v, a, pa, pb, pc, pd)
  BY DEF Charges
<1> QED
  BY <1>1, ChargeOf DEF FeeRoles

\* All parts of a charge are naturals, whatever was bought at whatever rate.
LEMMA ChargeIsNat ==
  ASSUME NEW amount \in Nat, NEW rate \in Nat, NEW cfg \in FeeConfigs,
         NEW charge \in Charges(amount, rate, cfg)
  PROVE  /\ \A r \in Roles : charge[r] \in Nat
         /\ \A r \in FeeRoles : cfg[r] \in Nat
         /\ amount * rate \in Nat
         /\ \A r \in FeeRoles : 3 * amount * rate * cfg[r] \in Nat
         /\ 100 * RATE_SCALE * SHARE_SCALE \in Nat \ {0}
<1>1. \A r \in FeeRoles : cfg[r] \in Nat
  BY PurchaseAssumption, SolanaAssumption DEF U64
<1>2. amount * rate \in Nat
  BY Z3
<1>3. ASSUME NEW r \in FeeRoles PROVE 3 * amount * rate * cfg[r] \in Nat
  <2>1. cfg[r] \in Nat
    BY <1>1
  <2>2. \A n \in Nat : 3 * amount * rate * n \in Nat
    BY Z3
  <2> QED
    BY <2>1, <2>2
<1>4. 100 * RATE_SCALE * SHARE_SCALE \in Nat \ {0}
  <2>1. \A m, n \in Nat \ {0} : 100 * m * n \in Nat \ {0}
    BY Z3
  <2> QED
    BY <2>1, ExchangeRateAssumption, PurchaseAssumption
<1>5. charge["liquidity"] \in Nat
  BY <1>2, ChargeParts, CastUpper, ExchangeRateAssumption DEF LiquidityCasts
<1>6. ASSUME NEW r \in FeeRoles PROVE charge[r] \in Nat
  <2>1. charge[r] \in Casts(3 * amount * rate * cfg[r], 100 * RATE_SCALE * SHARE_SCALE)
    BY ChargeParts DEF FeeCasts
  <2> QED
    BY <1>3, <1>4, <2>1, CastUpper
<1> QED
  BY <1>1, <1>2, <1>3, <1>4, <1>5, <1>6 DEF Roles

LEMMA TotalIsNat ==
  ASSUME NEW c, \A r \in Roles : c[r] \in Nat
  PROVE  /\ Total(c) \in Nat /\ Shares(c) \in Nat
         /\ Total(c) = c["liquidity"] + Shares(c)
         /\ Total(c) >= c["liquidity"]
<1>1. /\ c["liquidity"] \in Nat /\ c["validator"] \in Nat /\ c["admin"] \in Nat
      /\ c["partner_a"] \in Nat /\ c["partner_b"] \in Nat
      /\ c["partner_c"] \in Nat /\ c["partner_d"] \in Nat
  BY RoleNames
<1> QED
  BY <1>1 DEF Total, Shares

\* What an account receives: a natural, and for the reserve at least the
\* nominal part, whichever roles it is passed for besides.
LEMMA ReceivedIsNat ==
  ASSUME NEW acc, NEW charge, \A r \in Roles : charge[r] \in Nat, NEW layout \in Layouts
  PROVE  /\ Received(acc, charge, layout) \in Nat
         /\ acc = RESERVE => Received(acc, charge, layout) >= charge["liquidity"]
<1> DEFINE c == [r \in Roles |-> IF layout[r] = acc THEN charge[r] ELSE 0]
<1>1. \A r \in Roles : c[r] \in Nat
  OBVIOUS
<1>2. Received(acc, charge, layout) = Total(c)
  BY DEF Received
<1>3. acc = RESERVE => c["liquidity"] = charge["liquidity"]
  BY PurchaseAssumption, RoleNames
<1> HIDE DEF c
<1> QED
  BY <1>1, <1>2, <1>3, TotalIsNat

-----------------------------------------------------------------------------
\* What a purchase does to the ledger, as the later proofs use it.
LEMMA PurchaseEffect ==
  ASSUME PurchaseTypeOK, NEW u \in Users, NEW amount \in PurchaseAmounts,
         NEW layout \in Layouts, NEW eurAcc \in PriceAccounts, NEW solAcc \in PriceAccounts,
         PurchaseWithFee(u, amount, layout, eurAcc, solAcc)
  PROVE  /\ fee_config \in FeeConfigs /\ fee_config' = fee_config
         /\ amount \in Nat /\ exchange_rate[u].rate \in Nat
         /\ RateNext
         /\ \E charge \in Charges(amount, exchange_rate[u].rate, fee_config) :
               /\ lamports' = Paid(u, charge, layout)
               /\ Total(charge) <= lamports[u]
<1>1. fee_config \in FeeConfigs /\ fee_config' = fee_config
  BY DEF PurchaseWithFee, PurchaseTypeOK
<1>2. amount \in Nat
  BY PurchaseAssumption, SolanaAssumption DEF U64
<1>3. exchange_rate[u].rate \in Nat
  <2>1. exchange_rate[u] \in ExchangeRates
    BY DEF PurchaseWithFee, CoinSeedsOk, SeedsOk, PurchaseTypeOK, RateTypeOK
  <2> QED
    BY <2>1, SolanaAssumption DEF ExchangeRates, U64
<1>4. RateNext
  BY PurchaseAssumption DEF PurchaseWithFee, RateNext, RateCalls
<1> QED
  BY <1>1, <1>2, <1>3, <1>4 DEF PurchaseWithFee, PurchaseAccepted

LEMMA WalletsAreApart ==
  /\ Users \subseteq Wallets /\ RESERVE \in Wallets
  /\ \A u \in Users : u \notin Recipients /\ u # RESERVE
  BY PurchaseAssumption DEF Wallets

\* A payer pays the total of the charge, every other wallet of a user keeps
\* what it had: nobody pays a user.
LEMMA UserLamports ==
  ASSUME lamports \in [Wallets -> Nat], NEW u \in Users, NEW layout \in Layouts,
         NEW charge, \A r \in Roles : charge[r] \in Nat,
         lamports' = Paid(u, charge, layout)
  PROVE  /\ lamports'[u] = lamports[u] - Total(charge)
         /\ \A v \in Users \ {u} : lamports'[v] = lamports[v]
         /\ \A acc \in Wallets \ {u} :
               lamports'[acc] = lamports[acc] + Received(acc, charge, layout)
<1>1. \A acc \in Wallets : lamports'[acc] =
         IF acc = u THEN lamports[acc] - Total(charge)
         ELSE lamports[acc] + Received(acc, charge, layout)
  BY DEF Paid
<1>2. ASSUME NEW v \in Users PROVE Received(v, charge, layout) = 0
  <2>1. \A r \in Roles : layout[r] # v
    BY PurchaseAssumption, WalletsAreApart
  <2>2. [r \in Roles |-> IF layout[r] = v THEN charge[r] ELSE 0] = [r \in Roles |-> 0]
    BY <2>1
  <2>3. Total([r \in Roles |-> 0]) = 0
    BY RoleNames DEF Total, Shares
  <2> QED
    BY <2>2, <2>3 DEF Received
<1>3. \A v \in Users : v \in Wallets /\ lamports[v] \in Nat
  BY WalletsAreApart
<1> QED
  BY <1>1, <1>2, <1>3

LEMMA PurchaseTypeInit == PurchaseInit => PurchaseTypeOK
<1> SUFFICES ASSUME PurchaseInit PROVE PurchaseTypeOK
  OBVIOUS
<1>1. RateTypeOK
  BY RateTypeInit DEF PurchaseInit
<1>2. lamports \in [Wallets -> U64]
  BY PurchaseAssumption DEF PurchaseInit
<1>3. \A n \in U64 : n \in Nat
  BY SolanaAssumption DEF U64
<1> QED
  BY <1>1, <1>2, <1>3, WalletsAreApart DEF PurchaseInit, PurchaseTypeOK

LEMMA PurchaseTypeStep == PurchaseTypeOK /\ [PurchaseNext]_purchaseVars => PurchaseTypeOK'
<1> SUFFICES ASSUME PurchaseTypeOK, [PurchaseNext]_purchaseVars PROVE PurchaseTypeOK'
  OBVIOUS
<1>1. CASE RateStep
  <2>1. RateTypeOK'
    BY <1>1, RateTypeStep DEF RateStep, PurchaseTypeOK
  <2> QED
    BY <1>1, <2>1 DEF RateStep, PurchaseTypeOK
<1>2. ASSUME NEW cfg \in FeeConfigs, InitializeFeeConfig(cfg)
      PROVE  PurchaseTypeOK'
  BY <1>2 DEF InitializeFeeConfig, PurchaseTypeOK, RateTypeOK
<1>3. ASSUME NEW u \in Users, NEW amount \in PurchaseAmounts, NEW layout \in Layouts,
             NEW eurAcc \in PriceAccounts, NEW solAcc \in PriceAccounts,
             PurchaseWithFee(u, amount, layout, eurAcc, solAcc)
      PROVE  PurchaseTypeOK'
  <2>1. RateTypeOK'
    BY <1>3, PurchaseEffect, RateTypeStep DEF PurchaseTypeOK
  <2>2. PICK charge \in Charges(amount, exchange_rate[u].rate, fee_config) :
          lamports' = Paid(u, charge, layout) /\ Total(charge) <= lamports[u]
    BY <1>3, PurchaseEffect
  <2>3. \A r \in Roles : charge[r] \in Nat
    BY <1>3, PurchaseEffect, ChargeIsNat
  <2>4. Total(charge) \in Nat /\ lamports[u] \in U64 /\ lamports[u] \in Nat
    BY <2>3, TotalIsNat, WalletsAreApart DEF PurchaseTypeOK
  <2>5. lamports'[u] \in U64 /\ lamports'[u] \in Nat
    BY <2>2, <2>3, <2>4, UserLamports, SolanaAssumption DEF U64, PurchaseTypeOK
  <2>6. \A v \in Users : lamports'[v] \in U64
    BY <2>2, <2>3, <2>5, UserLamports DEF PurchaseTypeOK
  <2>7. \A acc \in Wallets : lamports'[acc] \in Nat
    BY <2>2, <2>3, <2>5, UserLamports, ReceivedIsNat DEF PurchaseTypeOK
  <2>8. lamports' \in [Wallets -> Nat]
    BY <2>2, <2>7 DEF Paid
  <2> QED
    BY <1>3, <2>1, <2>6, <2>8, PurchaseEffect DEF PurchaseTypeOK
<1>4. CASE UNCHANGED purchaseVars
  BY <1>4 DEF purchaseVars, PurchaseTypeOK, RateTypeOK
<1> QED
  BY <1>1, <1>2, <1>3, <1>4 DEF PurchaseNext, PurchaseCalls

\* Every reachable state of the purchase program is well typed: in particular
\* no purchase ever leaves a payer below zero.
THEOREM PurchaseTypeCorrect == PurchaseSpec => []PurchaseTypeOK
  BY PurchaseTypeInit, PurchaseTypeStep, PTL DEF PurchaseSpec

-----------------------------------------------------------------------------
\* The fees of one charge add up to at most their part of the 3%.
LEMMA FeesOfCharge ==
  ASSUME NEW amount \in Nat, NEW rate \in Nat, NEW cfg \in FeeConfigs,
         NEW charge \in Charges(amount, rate, cfg)
  PROVE  Shares(charge) * (100 * RATE_SCALE * SHARE_SCALE)
            <= 3 * (amount * rate) * Shares(cfg) + 6 * F64_ERR
<1> DEFINE X == 3 * (amount * rate)
           D == 100 * RATE_SCALE * SHARE_SCALE
<1>1. X \in Nat /\ D \in Nat \ {0} /\ F64_ERR \in Nat
  BY ChargeIsNat, SolanaAssumption
<1>2. \A r \in FeeRoles : charge[r] \in Nat /\ cfg[r] \in Nat
  BY ChargeIsNat, RoleNames
<1>3. ASSUME NEW r \in FeeRoles PROVE charge[r] * D <= X * cfg[r] + F64_ERR
  <2>1. charge[r] \in Casts(3 * amount * rate * cfg[r], D)
    BY ChargeParts DEF FeeCasts
  <2>2. 3 * amount * rate * cfg[r] \in Nat
    BY ChargeIsNat
  <2>3. charge[r] * D <= 3 * amount * rate * cfg[r] + F64_ERR
    BY <1>1, <2>1, <2>2, CastUpper
  <2>4. 3 * amount * rate = X
    BY Z3
  <2> QED
    BY <2>3, <2>4
<1> HIDE DEF X, D
<1>4. Shares(charge) * D <= X * Shares(cfg) + 6 * F64_ERR
  BY <1>1, <1>2, <1>3, RoleNames, FeeSum DEF Shares
<1> QED
  BY <1>4 DEF X, D

\* The cap for one charge the payer can afford.
LEMMA ChargeWithinCap ==
  ASSUME NEW amount \in Nat, NEW rate \in Nat, NEW cfg \in FeeConfigs,
         NEW charge \in Charges(amount, rate, cfg),
         Shares(cfg) <= SHARE_SCALE, Total(charge) <= U64_MAX
  PROVE  WithinThreePercent(Total(charge), charge["liquidity"])
<1> DEFINE X == amount * rate
           l == charge["liquidity"]
           F == Shares(charge)
<1>1. /\ X \in Nat /\ l \in Nat /\ F \in Nat /\ Total(charge) = l + F
      /\ Shares(cfg) \in Nat
  <2>1. \A r \in Roles : charge[r] \in Nat
    BY ChargeIsNat
  <2>2. \A r \in FeeRoles : cfg[r] \in Nat
    BY ChargeIsNat
  <2>3. Shares(cfg) \in Nat
    BY <2>2, RoleNames DEF Shares
  <2> QED
    BY <2>1, <2>3, TotalIsNat, ChargeIsNat, RoleNames
<1>2. RATE_SCALE \in Nat \ {0} /\ SHARE_SCALE \in Nat /\ F64_ERR \in Nat /\ U64_MAX \in Nat
  BY ExchangeRateAssumption, PurchaseAssumption, SolanaAssumption
<1>3. l \in Casts(X, RATE_SCALE)
  BY ChargeParts DEF LiquidityCasts
<1>4. F * (100 * RATE_SCALE * SHARE_SCALE) <= 3 * X * Shares(cfg) + 6 * F64_ERR
  BY FeesOfCharge
<1> HIDE DEF X, l, F
<1>5. CASE l # U64_MAX
  <2>1. X <= l * RATE_SCALE + RATE_SCALE + F64_ERR
    BY <1>1, <1>2, <1>3, <1>5, CastLower
  <2>2. (l + F) * 100 * RATE_SCALE * SHARE_SCALE
          <= 103 * l * RATE_SCALE * SHARE_SCALE
             + 3 * (RATE_SCALE + F64_ERR) * SHARE_SCALE + 6 * F64_ERR
    BY <1>1, <1>2, <1>4, <2>1, CapArithmetic
  <2> QED
    BY <1>1, <2>2 DEF WithinThreePercent, l
<1>6. CASE l = U64_MAX
  <2>1. F = 0
    BY <1>1, <1>2, <1>6
  <2>2. l * RATE_SCALE \in Nat
    BY <1>1, <1>2
  <2>3. /\ 0 * (100 * RATE_SCALE * SHARE_SCALE) <= 3 * (l * RATE_SCALE) * 0 + 6 * F64_ERR
        /\ l * RATE_SCALE <= l * RATE_SCALE + RATE_SCALE + F64_ERR
    BY <1>2, <2>2
  <2>4. (l + 0) * 100 * RATE_SCALE * SHARE_SCALE
          <= 103 * l * RATE_SCALE * SHARE_SCALE
             + 3 * (RATE_SCALE + F64_ERR) * SHARE_SCALE + 6 * F64_ERR
    BY <1>1, <1>2, <2>2, <2>3, CapArithmetic
  <2> QED
    BY <1>1, <2>1, <2>4 DEF WithinThreePercent, l
<1> QED
  BY <1>5, <1>6

LEMMA CapIsMonotone ==
  ASSUME NEW debit \in Nat, NEW r1 \in Nat, NEW r2 \in Nat, r1 <= r2,
         WithinThreePercent(debit, r1)
  PROVE  WithinThreePercent(debit, r2)
<1>1. RATE_SCALE \in Nat /\ SHARE_SCALE \in Nat /\ F64_ERR \in Nat
  BY ExchangeRateAssumption, PurchaseAssumption, SolanaAssumption
<1>2. 103 * r1 * RATE_SCALE * SHARE_SCALE <= 103 * r2 * RATE_SCALE * SHARE_SCALE
  <2>1. r1 * (103 * RATE_SCALE * SHARE_SCALE) <= r2 * (103 * RATE_SCALE * SHARE_SCALE)
    <3>1. 103 * RATE_SCALE * SHARE_SCALE \in Nat
      BY <1>1
    <3> QED
      BY <3>1, MonotoneProduct
  <2>2. \A r \in Nat : 103 * r * RATE_SCALE * SHARE_SCALE = r * (103 * RATE_SCALE * SHARE_SCALE)
    BY <1>1, Z3
  <2> QED
    BY <2>1, <2>2
<1> DEFINE a == debit * 100 * RATE_SCALE * SHARE_SCALE
           b == 103 * r1 * RATE_SCALE * SHARE_SCALE
           c == 103 * r2 * RATE_SCALE * SHARE_SCALE
           d == 3 * (RATE_SCALE + F64_ERR) * SHARE_SCALE
<1>3. a \in Int /\ b \in Int /\ c \in Int /\ d \in Int
  BY <1>1
<1>4. a <= b + d + 6 * F64_ERR /\ b <= c
  BY <1>2 DEF WithinThreePercent
<1> HIDE DEF a, b, c, d
<1>5. a <= c + d + 6 * F64_ERR
  BY <1>1, <1>3, <1>4
<1> QED
  BY <1>5 DEF a, c, d, WithinThreePercent

(***************************************************************************)
(* With shares of at most a whole, whatever the rate, the amount, the      *)
(* layout of the accounts and the rounding of the f64s, no purchase costs  *)
(* a payer more than 3% on top of what the reserve receives, but for the   *)
(* rounding that WithinThreePercent spells out (lib.rs:176-294).           *)
(***************************************************************************)
THEOREM FeeNeverAboveCap == PurchaseSpec => FeeCap
<1>1. ASSUME PurchaseTypeOK, [PurchaseNext]_purchaseVars, NEW u \in Users,
             Debited(u) > 0, Shares(fee_config) <= SHARE_SCALE
      PROVE  WithinThreePercent(Debited(u), Gained(RESERVE))
  <2>1. lamports[u] \in Nat /\ lamports[u] <= U64_MAX
    BY <1>1, WalletsAreApart, SolanaAssumption DEF PurchaseTypeOK, U64
  <2>2. lamports' # lamports
    BY <1>1, <2>1 DEF Debited
  <2>3. ASSUME NEW v \in Users, NEW amount \in PurchaseAmounts, NEW layout \in Layouts,
               NEW eurAcc \in PriceAccounts, NEW solAcc \in PriceAccounts,
               PurchaseWithFee(v, amount, layout, eurAcc, solAcc)
        PROVE  WithinThreePercent(Debited(u), Gained(RESERVE))
    <3>1. PICK charge \in Charges(amount, exchange_rate[v].rate, fee_config) :
            lamports' = Paid(v, charge, layout) /\ Total(charge) <= lamports[v]
      BY <1>1, <2>3, PurchaseEffect
    <3>2. \A r \in Roles : charge[r] \in Nat
      BY <1>1, <2>3, PurchaseEffect, ChargeIsNat
    <3>3. u = v
      BY <1>1, <2>1, <3>1, <3>2, UserLamports DEF Debited, PurchaseTypeOK
    <3>4. Total(charge) \in Nat /\ charge["liquidity"] \in Nat
      BY <3>2, TotalIsNat, RoleNames
    <3>5. Debited(u) = Total(charge)
      BY <1>1, <2>1, <3>1, <3>2, <3>3, <3>4, UserLamports DEF Debited, PurchaseTypeOK
    <3>6. /\ Received(RESERVE, charge, layout) \in Nat
          /\ Received(RESERVE, charge, layout) >= charge["liquidity"]
      BY <3>2, ReceivedIsNat
    <3>7. Gained(RESERVE) = Received(RESERVE, charge, layout)
      <4>1. RESERVE \in Wallets \ {v} /\ lamports[RESERVE] \in Nat
        BY <1>1, WalletsAreApart DEF PurchaseTypeOK
      <4>2. lamports'[RESERVE] = lamports[RESERVE] + Received(RESERVE, charge, layout)
        BY <1>1, <3>1, <3>2, <4>1, UserLamports DEF PurchaseTypeOK
      <4> QED
        BY <3>6, <4>1, <4>2 DEF Gained
    <3>8. Total(charge) <= U64_MAX
      BY <2>1, <3>1, <3>3, <3>4, SolanaAssumption
    <3>9. WithinThreePercent(Total(charge), charge["liquidity"])
      BY <1>1, <2>3, <3>8, PurchaseEffect, ChargeWithinCap
    <3> QED
      BY <3>4, <3>5, <3>6, <3>7, <3>9, CapIsMonotone
  <2> QED
    BY <1>1, <2>2, <2>3
    DEF PurchaseNext, PurchaseCalls, RateStep, InitializeFeeConfig, purchaseVars
<1>2. PurchaseTypeOK /\ [PurchaseNext]_purchaseVars
        => [\A u \in Users : Debited(u) > 0 /\ Shares(fee_config) <= SHARE_SCALE
              => WithinThreePercent(Debited(u), Gained(RESERVE))]_purchaseVars
  BY <1>1
<1> QED
  BY <1>2, PurchaseTypeCorrect, PTL DEF PurchaseSpec, FeeCap

-----------------------------------------------------------------------------
\* A cast of a zero is zero.
LEMMA CastOfZero ==
  ASSUME NEW den \in Nat, RATE_SCALE <= den, NEW x \in Casts(0, den)
  PROVE  x = 0
<1>1. RATE_SCALE \in Nat \ {0} /\ F64_ERR \in Nat /\ F64_ERR < RATE_SCALE
  BY ExchangeRateAssumption, SolanaAssumption, PrecisionAssumption
<1>2. x \in Nat /\ x * den <= F64_ERR
  BY <1>1, CastUpper
<1>3. x >= 1 => den <= x * den
  <2>1. 1 * den = den
    OBVIOUS
  <2> QED
    BY <1>2, <2>1, MonotoneProduct
<1>4. x * den \in Nat
  BY <1>2
<1> QED
  BY <1>1, <1>2, <1>3, <1>4

\* A payer whose stored rate is zero is charged nothing (lib.rs:176-195).
THEOREM ZeroRateIsFree == PurchaseSpec => FreeAtZeroRate
<1>1. ASSUME PurchaseTypeOK, [PurchaseNext]_purchaseVars, NEW u \in Users,
             exchange_rate[u] # NoAccount, exchange_rate[u].rate = 0
      PROVE  lamports'[u] >= lamports[u]
  <2>1. lamports[u] \in Nat
    BY <1>1, WalletsAreApart DEF PurchaseTypeOK
  <2>2. ASSUME NEW v \in Users, NEW amount \in PurchaseAmounts, NEW layout \in Layouts,
               NEW eurAcc \in PriceAccounts, NEW solAcc \in PriceAccounts,
               PurchaseWithFee(v, amount, layout, eurAcc, solAcc)
        PROVE  lamports'[u] >= lamports[u]
    <3>1. PICK charge \in Charges(amount, exchange_rate[v].rate, fee_config) :
            lamports' = Paid(v, charge, layout)
      BY <1>1, <2>2, PurchaseEffect
    <3>2. \A r \in Roles : charge[r] \in Nat
      BY <1>1, <2>2, PurchaseEffect, ChargeIsNat
    <3>3. CASE u # v
      BY <1>1, <2>1, <3>1, <3>2, <3>3, UserLamports DEF PurchaseTypeOK
    <3>4. CASE u = v
      <4>1. amount \in Nat /\ fee_config \in FeeConfigs /\ charge \in Charges(amount, 0, fee_config)
        BY <1>1, <2>2, <3>1, <3>4, PurchaseEffect
      <4>2. amount * 0 = 0 /\ \A n \in Nat : 3 * amount * 0 * n = 0
        BY <4>1, Z3
      <4>3. charge["liquidity"] = 0
        <5>1. charge["liquidity"] \in Casts(0, RATE_SCALE)
          BY <4>1, <4>2, ChargeParts DEF LiquidityCasts
        <5> QED
          BY <5>1, CastOfZero, ExchangeRateAssumption
      <4>4. ASSUME NEW r \in FeeRoles PROVE charge[r] = 0
        <5>1. fee_config[r] \in Nat
          BY <4>1, ChargeIsNat
        <5>2. charge[r] \in Casts(0, 100 * RATE_SCALE * SHARE_SCALE)
          BY <4>1, <4>2, <5>1, ChargeParts DEF FeeCasts
        <5>3. /\ 100 * RATE_SCALE * SHARE_SCALE \in Nat
              /\ RATE_SCALE <= 100 * RATE_SCALE * SHARE_SCALE
          <6>1. \A m, n \in Nat \ {0} : 100 * m * n \in Nat /\ m <= 100 * m * n
            BY Z3
          <6> QED
            BY <6>1, ExchangeRateAssumption, PurchaseAssumption
        <5> QED
          BY <5>2, <5>3, CastOfZero
      <4>5. Total(charge) = 0
        BY <4>3, <4>4, RoleNames DEF Total, Shares
      <4>6. lamports'[v] = lamports[v] - Total(charge)
        BY <1>1, <3>1, <3>2, UserLamports DEF PurchaseTypeOK
      <4> QED
        BY <2>1, <3>4, <4>5, <4>6
    <3> QED
      BY <3>3, <3>4
  <2>3. CASE lamports' = lamports
    BY <2>1, <2>3
  <2> QED
    BY <1>1, <2>2, <2>3
    DEF PurchaseNext, PurchaseCalls, RateStep, InitializeFeeConfig, purchaseVars
<1>2. PurchaseTypeOK /\ [PurchaseNext]_purchaseVars
        => [\A u \in Users : exchange_rate[u] # NoAccount /\ exchange_rate[u].rate = 0
              => lamports'[u] >= lamports[u]]_purchaseVars
  BY <1>1
<1> QED
  BY <1>2, PurchaseTypeCorrect, PTL DEF PurchaseSpec, FreeAtZeroRate

\* Deployed as it is written, with seeds derived under the wrong program's id,
\* no purchase ever goes through, for anyone (lib.rs:568).
THEOREM NobodyCanBuy == PurchaseSpec => []NothingIsEverSold
<1>1. PurchaseInit => NothingIsEverSold
  BY DEF PurchaseInit, NothingIsEverSold
<1>2. NothingIsEverSold /\ [PurchaseNext]_purchaseVars => NothingIsEverSold'
  BY DEF NothingIsEverSold, PurchaseNext, PurchaseCalls, RateStep, InitializeFeeConfig,
         PurchaseWithFee, CoinSeedsOk, purchaseVars
<1> QED
  BY <1>1, <1>2, PTL DEF PurchaseSpec

-----------------------------------------------------------------------------
(***************************************************************************)
(* Lamports are conserved: a purchase is one debit and seven credits, each *)
(* of which adds its amount to the sum over all wallets.                   *)
(***************************************************************************)
Plus(f, g) == [acc \in Wallets |-> f[acc] + g[acc]]

\* A ledger with n in the account x, and nothing elsewhere.
Only(x, n) == [acc \in Wallets |-> IF acc = x THEN n ELSE 0]

LEMMA SumOfPlus ==
  ASSUME NEW f \in [Wallets -> Int], NEW g \in [Wallets -> Int]
  PROVE  Plus(f, g) \in [Wallets -> Int] /\ SumOf(Plus(f, g)) = SumOf(f) + SumOf(g)
<1> DEFINE h == Plus(f, g)
<1>1. h \in [Wallets -> Int] /\ \A acc \in Wallets : h[acc] = f[acc] + g[acc]
  BY DEF Plus
<1> HIDE DEF h
<1>2. SumOf(h) = SumOf(f) + SumOf(g)
  BY <1>1, SumAdds, WalletsAssumption
<1> QED
  BY <1>1, <1>2 DEF h

LEMMA SumOfOnly ==
  ASSUME NEW x \in Wallets, NEW n \in Int
  PROVE  Only(x, n) \in [Wallets -> Int] /\ SumOf(Only(x, n)) = n
<1>1. SumOf([acc \in Wallets |-> IF acc = x THEN n ELSE 0]) = n
  BY SumAt, WalletsAssumption
<1> QED
  BY <1>1 DEF Only

\* One more credit.
LEMMA SumOfCredit ==
  ASSUME NEW f \in [Wallets -> Int], NEW x \in Wallets, NEW n \in Int
  PROVE  /\ Plus(f, Only(x, n)) \in [Wallets -> Int]
         /\ SumOf(Plus(f, Only(x, n))) = SumOf(f) + n
<1>1. Only(x, n) \in [Wallets -> Int] /\ SumOf(Only(x, n)) = n
  BY SumOfOnly
<1> QED
  BY <1>1, SumOfPlus

LEMMA PaidConserves ==
  ASSUME NEW u \in Users, NEW layout \in Layouts, NEW charge,
         \A r \in Roles : charge[r] \in Nat, lamports \in [Wallets -> Nat]
  PROVE  SumOf(Paid(u, charge, layout)) = SumOf(lamports)
<1> DEFINE g0 == Plus(lamports, Only(u, -Total(charge)))
           g1 == Plus(g0, Only(layout["liquidity"], charge["liquidity"]))
           g2 == Plus(g1, Only(layout["validator"], charge["validator"]))
           g3 == Plus(g2, Only(layout["admin"], charge["admin"]))
           g4 == Plus(g3, Only(layout["partner_a"], charge["partner_a"]))
           g5 == Plus(g4, Only(layout["partner_b"], charge["partner_b"]))
           g6 == Plus(g5, Only(layout["partner_c"], charge["partner_c"]))
           g7 == Plus(g6, Only(layout["partner_d"], charge["partner_d"]))
<1>1. /\ u \in Wallets /\ Total(charge) \in Nat /\ -Total(charge) \in Int
      /\ lamports \in [Wallets -> Int]
      /\ SumOf(lamports) \in Int
  <2>1. lamports \in [Wallets -> Int]
    OBVIOUS
  <2>2. Total(charge) \in Nat
    BY TotalIsNat
  <2> QED
    BY <2>1, <2>2, WalletsAreApart, SumType, WalletsAssumption
<1>2. \A r \in Roles : layout[r] \in Wallets /\ layout[r] \in Recipients /\ charge[r] \in Int
  BY PurchaseAssumption DEF Wallets
<1>3. g0 \in [Wallets -> Int] /\ SumOf(g0) = SumOf(lamports) + (-Total(charge))
  BY <1>1, SumOfCredit
<1> HIDE DEF g0
<1>4. g1 \in [Wallets -> Int] /\ SumOf(g1) = SumOf(g0) + charge["liquidity"]
  BY <1>2, <1>3, RoleNames, SumOfCredit
<1> HIDE DEF g1
<1>5. g2 \in [Wallets -> Int] /\ SumOf(g2) = SumOf(g1) + charge["validator"]
  BY <1>2, <1>4, RoleNames, SumOfCredit
<1> HIDE DEF g2
<1>6. g3 \in [Wallets -> Int] /\ SumOf(g3) = SumOf(g2) + charge["admin"]
  BY <1>2, <1>5, RoleNames, SumOfCredit
<1> HIDE DEF g3
<1>7. g4 \in [Wallets -> Int] /\ SumOf(g4) = SumOf(g3) + charge["partner_a"]
  BY <1>2, <1>6, RoleNames, SumOfCredit
<1> HIDE DEF g4
<1>8. g5 \in [Wallets -> Int] /\ SumOf(g5) = SumOf(g4) + charge["partner_b"]
  BY <1>2, <1>7, RoleNames, SumOfCredit
<1> HIDE DEF g5
<1>9. g6 \in [Wallets -> Int] /\ SumOf(g6) = SumOf(g5) + charge["partner_c"]
  BY <1>2, <1>8, RoleNames, SumOfCredit
<1> HIDE DEF g6
<1>10. g7 \in [Wallets -> Int] /\ SumOf(g7) = SumOf(g6) + charge["partner_d"]
  BY <1>2, <1>9, RoleNames, SumOfCredit
<1> HIDE DEF g7
<1>11. Total(charge) = charge["liquidity"] + (charge["validator"] + charge["admin"]
          + charge["partner_a"] + charge["partner_b"] + charge["partner_c"] + charge["partner_d"])
  BY DEF Total, Shares
<1>12. SumOf(g7) = SumOf(lamports)
  BY <1>1, <1>2, <1>3, <1>4, <1>5, <1>6, <1>7, <1>8, <1>9, <1>10, <1>11, RoleNames
<1>13. Paid(u, charge, layout) = g7
  <2> DEFINE part(acc, r) == IF layout[r] = acc THEN charge[r] ELSE 0
  <2>1. ASSUME NEW acc \in Wallets
        PROVE  g7[acc] = (IF acc = u THEN lamports[acc] - Total(charge) ELSE lamports[acc])
                  + part(acc, "liquidity") + part(acc, "validator") + part(acc, "admin")
                  + part(acc, "partner_a") + part(acc, "partner_b")
                  + part(acc, "partner_c") + part(acc, "partner_d")
    BY <1>1 DEF Plus, Only, g0, g1, g2, g3, g4, g5, g6, g7
  <2>2. ASSUME NEW acc \in Wallets
        PROVE  Received(acc, charge, layout) =
                  part(acc, "liquidity") + (part(acc, "validator") + part(acc, "admin")
                  + part(acc, "partner_a") + part(acc, "partner_b")
                  + part(acc, "partner_c") + part(acc, "partner_d"))
    BY RoleNames DEF Received, Total, Shares
  <2>3. ASSUME NEW acc \in Wallets, NEW r \in Roles
        PROVE  part(acc, r) \in Nat /\ (acc = u => part(acc, r) = 0)
    BY <1>2, WalletsAreApart
  <2>4. ASSUME NEW acc \in Wallets PROVE Paid(u, charge, layout)[acc] = g7[acc]
    <3>1. /\ lamports[acc] \in Nat /\ Total(charge) \in Nat
          /\ part(acc, "liquidity") \in Nat /\ part(acc, "validator") \in Nat
          /\ part(acc, "admin") \in Nat /\ part(acc, "partner_a") \in Nat
          /\ part(acc, "partner_b") \in Nat /\ part(acc, "partner_c") \in Nat
          /\ part(acc, "partner_d") \in Nat
      BY <1>1, <2>3, RoleNames
    <3>2. Paid(u, charge, layout)[acc] =
            IF acc = u THEN lamports[acc] - Total(charge)
            ELSE lamports[acc] + Received(acc, charge, layout)
      BY DEF Paid
    <3>3. acc = u =>
          /\ part(acc, "liquidity") = 0 /\ part(acc, "validator") = 0
          /\ part(acc, "admin") = 0 /\ part(acc, "partner_a") = 0
          /\ part(acc, "partner_b") = 0 /\ part(acc, "partner_c") = 0
          /\ part(acc, "partner_d") = 0
      BY <2>3, RoleNames
    <3> HIDE DEF part
    <3> QED
      BY <2>1, <2>2, <3>1, <3>2, <3>3
  <2>5. DOMAIN Paid(u, charge, layout) = Wallets
        /\ Paid(u, charge, layout) = [acc \in Wallets |-> Paid(u, charge, layout)[acc]]
    BY DEF Paid
  <2>6. g7 = [acc \in Wallets |-> g7[acc]]
    BY <1>10
  <2> QED
    BY <2>4, <2>5, <2>6
<1> QED
  BY <1>12, <1>13

LEMMA ConservedIsSum == LamportsConserved <=> SumOf(lamports) = SumOf(InitialLamports)
  BY DEF LamportsConserved, TotalLamports, SumOf

\* Whoever pays whom for which roles, the lamports of all wallets together stay
\* what they were (lib.rs:198-294).
THEOREM NoLamportIsLost == PurchaseSpec => []LamportsConserved
<1> DEFINE Conserved == SumOf(lamports) = SumOf(InitialLamports)
<1>1. PurchaseInit => Conserved
  BY DEF PurchaseInit
<1>2. PurchaseTypeOK /\ Conserved /\ [PurchaseNext]_purchaseVars => Conserved'
  <2> SUFFICES ASSUME PurchaseTypeOK, Conserved, [PurchaseNext]_purchaseVars
               PROVE  SumOf(lamports') = SumOf(InitialLamports)
    OBVIOUS
  <2>1. ASSUME NEW u \in Users, NEW amount \in PurchaseAmounts, NEW layout \in Layouts,
               NEW eurAcc \in PriceAccounts, NEW solAcc \in PriceAccounts,
               PurchaseWithFee(u, amount, layout, eurAcc, solAcc)
        PROVE  SumOf(lamports') = SumOf(lamports)
    <3>1. PICK charge \in Charges(amount, exchange_rate[u].rate, fee_config) :
            lamports' = Paid(u, charge, layout)
      BY <2>1, PurchaseEffect
    <3>2. \A r \in Roles : charge[r] \in Nat
      BY <2>1, PurchaseEffect, ChargeIsNat
    <3> QED
      BY <3>1, <3>2, PaidConserves DEF PurchaseTypeOK
  <2>2. CASE lamports' = lamports
    BY <2>2
  <2> QED
    BY <2>1, <2>2
    DEF PurchaseNext, PurchaseCalls, RateStep, InitializeFeeConfig, purchaseVars
<1> QED
  BY <1>1, <1>2, ConservedIsSum, PurchaseTypeCorrect, PTL DEF PurchaseSpec

-----------------------------------------------------------------------------
(***************************************************************************)
(* Fees in proportion: f is paid for share s, g for share t, of the same   *)
(* price, and the rounding of each is at most one lamport and E / D.       *)
(***************************************************************************)
LEMMA ProportionArithmetic ==
  ASSUME NEW X \in Nat, NEW D \in Nat, NEW E \in Nat,
         NEW f \in Nat, NEW g \in Nat, NEW s \in Nat, NEW t \in Nat,
         f * D <= X * s + E, X * t <= g * D + D + E
  PROVE  D * f * t <= D * (g + 1) * s + E * (s + t)
<1>1. (f * D) * t <= (X * s + E) * t
  <2>1. f * D \in Nat /\ X * s + E \in Nat
    BY Z3
  <2> QED
    BY <2>1, MonotoneProduct
<1>2. (X * t) * s <= (g * D + D + E) * s
  <2>1. X * t \in Nat /\ g * D + D + E \in Nat
    BY Z3
  <2> QED
    BY <2>1, MonotoneProduct
<1>3. (X * s + E) * t = (X * t) * s + E * t
  BY Z3
<1>4. (g * D + D + E) * s = D * (g + 1) * s + E * s
  BY Z3
<1>5. (f * D) * t = D * f * t /\ E * (s + t) = E * s + E * t
  BY Z3
<1> DEFINE a == (f * D) * t
           b == (X * t) * s
           c == D * (g + 1) * s
           d == E * s
           e == E * t
<1>6. a \in Nat /\ b \in Nat /\ c \in Nat /\ d \in Nat /\ e \in Nat
  BY Z3
<1>7. a <= b + e /\ b <= c + d /\ D * f * t = a /\ E * (s + t) = d + e
  BY <1>1, <1>2, <1>3, <1>4, <1>5
<1> HIDE DEF a, b, d, e
<1> QED
  BY <1>6, <1>7

LEMMA TwoFeesOfTotal ==
  ASSUME NEW c, \A x \in Roles : c[x] \in Nat,
         NEW r \in FeeRoles, NEW q \in FeeRoles, r # q
  PROVE  c[r] + c[q] <= Total(c)
<1> DEFINE l == c["liquidity"]  v == c["validator"]  a == c["admin"]
           pa == c["partner_a"] pb == c["partner_b"]
           pc == c["partner_c"] pd == c["partner_d"]
<1>1. /\ l \in Nat /\ v \in Nat /\ a \in Nat
      /\ pa \in Nat /\ pb \in Nat /\ pc \in Nat /\ pd \in Nat
  BY RoleNames
<1>2. Total(c) = l + (v + a + pa + pb + pc + pd)
  BY DEF Total, Shares
<1> HIDE DEF l, v, a, pa, pb, pc, pd
<1>3. CASE r = "validator"
  BY <1>1, <1>2, <1>3 DEF FeeRoles, v, a, pa, pb, pc, pd
<1>4. CASE r = "admin"
  BY <1>1, <1>2, <1>4 DEF FeeRoles, v, a, pa, pb, pc, pd
<1>5. CASE r = "partner_a"
  BY <1>1, <1>2, <1>5 DEF FeeRoles, v, a, pa, pb, pc, pd
<1>6. CASE r = "partner_b"
  BY <1>1, <1>2, <1>6 DEF FeeRoles, v, a, pa, pb, pc, pd
<1>7. CASE r = "partner_c"
  BY <1>1, <1>2, <1>7 DEF FeeRoles, v, a, pa, pb, pc, pd
<1>8. CASE r = "partner_d"
  BY <1>1, <1>2, <1>8 DEF FeeRoles, v, a, pa, pb, pc, pd
<1> QED
  BY <1>3, <1>4, <1>5, <1>6, <1>7, <1>8 DEF FeeRoles

\* Two fees of one charge the payer can afford.
LEMMA FeesInProportion ==
  ASSUME NEW amount \in Nat, NEW rate \in Nat, NEW cfg \in FeeConfigs,
         NEW charge \in Charges(amount, rate, cfg), Total(charge) <= U64_MAX,
         NEW r \in FeeRoles, NEW q \in FeeRoles
  PROVE  LET D == 100 * RATE_SCALE * SHARE_SCALE
         IN  D * charge[r] * cfg[q]
               <= D * (charge[q] + 1) * cfg[r] + F64_ERR * (cfg[r] + cfg[q])
<1> DEFINE D == 100 * RATE_SCALE * SHARE_SCALE
           X == 3 * amount * rate
           f == charge[r]
           g == charge[q]
           s == cfg[r]
           t == cfg[q]
<1>1. /\ D \in Nat \ {0} /\ F64_ERR \in Nat
      /\ f \in Nat /\ g \in Nat /\ s \in Nat /\ t \in Nat
  BY ChargeIsNat, RoleNames, SolanaAssumption
<1>2. X \in Nat
  BY Z3
<1>3. /\ f \in Casts(X * s, D) /\ g \in Casts(X * t, D)
      /\ X * s \in Nat /\ X * t \in Nat
  BY ChargeParts, ChargeIsNat DEF FeeCasts
<1>4. f * D <= X * s + F64_ERR
  <2> HIDE DEF D, X, f, s
  <2> QED
    BY <1>1, <1>3, CastUpper
<1>5. CASE g # U64_MAX
  <2> HIDE DEF D, X, f, g, s, t
  <2>1. X * t <= g * D + D + F64_ERR
    BY <1>1, <1>3, <1>5, CastLower
  <2>2. D * f * t <= D * (g + 1) * s + F64_ERR * (s + t)
    BY <1>1, <1>2, <1>4, <2>1, ProportionArithmetic
  <2> QED
    BY <2>2 DEF D, f, g, s, t
<1>6. CASE r = q
  <2>1. D * f * t <= D * (f + 1) * t + F64_ERR * (t + t)
    <3> HIDE DEF D, f, t
    <3>1. D * f <= D * (f + 1) /\ D * f \in Nat /\ D * (f + 1) \in Nat
      BY <1>1, Z3
    <3>2. (D * f) * t <= (D * (f + 1)) * t
      BY <1>1, <3>1, MonotoneProduct
    <3>3. (D * f) * t \in Nat /\ (D * (f + 1)) * t \in Nat /\ F64_ERR * (t + t) \in Nat
      BY <1>1, Z3
    <3> QED
      BY <3>2, <3>3
  <2> QED
    BY <1>6, <2>1
<1>7. CASE r # q /\ g = U64_MAX
  <2>1. f + g <= Total(charge)
    <3>1. \A x \in Roles : charge[x] \in Nat
      BY ChargeIsNat
    <3> QED
      BY <1>7, <3>1, TwoFeesOfTotal
  <2>2. f = 0
    <3>1. Total(charge) \in Nat
      BY ChargeIsNat, TotalIsNat
    <3> QED
      BY <1>1, <1>7, <2>1, <3>1, SolanaAssumption
  <2>3. D * 0 * t <= D * (g + 1) * s + F64_ERR * (s + t)
    <3> HIDE DEF D, g, s, t
    <3>1. D * 0 * t = 0 /\ D * (g + 1) * s \in Nat /\ F64_ERR * (s + t) \in Nat
      BY <1>1, Z3
    <3> QED
      BY <3>1
  <2> QED
    BY <2>2, <2>3
<1> QED
  BY <1>5, <1>6, <1>7

\* A fee role with an account of its own gets its charge there, and nothing else.
LEMMA PrivateIsRecipient ==
  ASSUME NEW r \in PrivateRoles
  PROVE  /\ r \in FeeRoles /\ PrivateAccount(r) \in Recipients
         /\ PrivateAccount(r) \in Wallets /\ PrivateAccount(r) \notin Users
<1>1. r \in FeeRoles /\ r \in Roles
  BY RoleNames DEF PrivateRoles
<1>2. (CHOOSE layout \in Layouts : TRUE) \in Layouts
  BY PurchaseAssumption
<1>3. PrivateAccount(r) \in Recipients
  BY <1>1, <1>2, PurchaseAssumption DEF PrivateAccount
<1> QED
  BY <1>1, <1>3, PurchaseAssumption DEF Wallets

LEMMA PrivateReceives ==
  ASSUME NEW r \in PrivateRoles, NEW layout \in Layouts, NEW charge,
         \A x \in Roles : charge[x] \in Nat
  PROVE  Received(PrivateAccount(r), charge, layout) = charge[r]
<1> DEFINE c == [x \in Roles |-> IF layout[x] = PrivateAccount(r) THEN charge[x] ELSE 0]
<1>1. r \in FeeRoles /\ \A x \in Roles : layout[x] = PrivateAccount(r) <=> x = r
  BY DEF PrivateRoles
<1>2. \A x \in Roles : c[x] = IF x = r THEN charge[r] ELSE 0
  BY <1>1
<1>3. charge[r] \in Nat
  BY <1>1, RoleNames
<1>4. Received(PrivateAccount(r), charge, layout) = Total(c)
  BY DEF Received
<1> HIDE DEF c
<1>5. Total(c) = charge[r]
  BY <1>1, <1>2, <1>3, RoleNames DEF Total, Shares, FeeRoles
<1> QED
  BY <1>4, <1>5

\* Fee roles that have an account of their own are paid in proportion to their
\* shares, for every configuration, rate, amount and rounding: no transfer
\* takes another one's share or account (lib.rs:190-294).
THEOREM FeesAreProportional == PurchaseSpec => PaidInProportion
<1> DEFINE D == 100 * RATE_SCALE * SHARE_SCALE
           P(r, q) == D * Gained(PrivateAccount(r)) * fee_config[q]
                        <= D * (Gained(PrivateAccount(q)) + 1) * fee_config[r]
                           + F64_ERR * (fee_config[r] + fee_config[q])
<1>1. ASSUME PurchaseTypeOK, [PurchaseNext]_purchaseVars, fee_config # NoAccount,
             NEW r \in PrivateRoles, NEW q \in PrivateRoles
      PROVE  P(r, q)
  <2>1. /\ r \in FeeRoles /\ q \in FeeRoles
        /\ PrivateAccount(r) \in Wallets /\ PrivateAccount(q) \in Wallets
        /\ PrivateAccount(r) \notin Users /\ PrivateAccount(q) \notin Users
    BY PrivateIsRecipient
  <2>2. /\ lamports[PrivateAccount(r)] \in Nat /\ lamports[PrivateAccount(q)] \in Nat
        /\ fee_config[r] \in Nat /\ fee_config[q] \in Nat /\ fee_config \in FeeConfigs
    BY <1>1, <2>1, PurchaseAssumption, SolanaAssumption DEF PurchaseTypeOK, U64
  <2>3. ASSUME NEW u \in Users, NEW amount \in PurchaseAmounts, NEW layout \in Layouts,
               NEW eurAcc \in PriceAccounts, NEW solAcc \in PriceAccounts,
               PurchaseWithFee(u, amount, layout, eurAcc, solAcc)
        PROVE  P(r, q)
    <3>1. PICK charge \in Charges(amount, exchange_rate[u].rate, fee_config) :
            lamports' = Paid(u, charge, layout) /\ Total(charge) <= lamports[u]
      BY <1>1, <2>3, PurchaseEffect
    <3>2. \A x \in Roles : charge[x] \in Nat
      BY <1>1, <2>3, PurchaseEffect, ChargeIsNat
    <3>3. Total(charge) <= U64_MAX
      <4>1. lamports[u] \in Nat /\ lamports[u] <= U64_MAX /\ Total(charge) \in Nat
        BY <1>1, <3>2, TotalIsNat, SolanaAssumption DEF PurchaseTypeOK, U64
      <4> QED
        BY <3>1, <4>1, SolanaAssumption
    <3>4. ASSUME NEW x \in PrivateRoles
          PROVE  Gained(PrivateAccount(x)) = charge[x]
      <4>1. x \in Roles /\ PrivateAccount(x) \in Wallets \ {u}
        BY PrivateIsRecipient, RoleNames
      <4>2. lamports'[PrivateAccount(x)] = lamports[PrivateAccount(x)] + charge[x]
        BY <1>1, <3>1, <3>2, <4>1, UserLamports, PrivateReceives DEF PurchaseTypeOK
      <4>3. lamports[PrivateAccount(x)] \in Nat /\ charge[x] \in Nat
        BY <1>1, <3>2, <4>1 DEF PurchaseTypeOK
      <4> QED
        BY <4>2, <4>3 DEF Gained
    <3>5. D * charge[r] * fee_config[q]
            <= D * (charge[q] + 1) * fee_config[r]
               + F64_ERR * (fee_config[r] + fee_config[q])
      BY <1>1, <2>1, <2>3, <3>3, PurchaseEffect, FeesInProportion
    <3> QED
      BY <3>4, <3>5
  <2>4. CASE lamports' = lamports
    <3>1. Gained(PrivateAccount(r)) = 0 /\ Gained(PrivateAccount(q)) = 0
      BY <2>2, <2>4 DEF Gained
    <3>2. D \in Nat /\ F64_ERR \in Nat
      <4>1. \A m, n \in Nat : 100 * m * n \in Nat
        BY Z3
      <4> QED
        BY <4>1, ExchangeRateAssumption, PurchaseAssumption, SolanaAssumption
    <3> HIDE DEF D
    <3>3. \A d, e, s, t \in Nat : d * 0 * t <= d * (0 + 1) * s + e * (s + t)
      <4> TAKE d, e, s, t \in Nat
      <4>1. d * 0 * t = 0 /\ d * (0 + 1) * s \in Nat /\ e * (s + t) \in Nat
        BY Z3
      <4> QED
        BY <4>1
    <3>4. D * 0 * fee_config[q] <= D * (0 + 1) * fee_config[r]
                                    + F64_ERR * (fee_config[r] + fee_config[q])
      BY <2>2, <3>2, <3>3
    <3> QED
      BY <3>1, <3>4
  <2> QED
    BY <1>1, <2>3, <2>4
    DEF PurchaseNext, PurchaseCalls, RateStep, InitializeFeeConfig, purchaseVars
<1>2. PurchaseTypeOK /\ [PurchaseNext]_purchaseVars
        => [fee_config # NoAccount => \A r, q \in PrivateRoles : P(r, q)]_purchaseVars
  BY <1>1
<1> QED
  BY <1>2, PurchaseTypeCorrect, PTL DEF PurchaseSpec, PaidInProportion

=============================================================================
