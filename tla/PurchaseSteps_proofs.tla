------------------------ MODULE PurchaseSteps_proofs ------------------------
(***************************************************************************)
(* Theorems of PurchaseSteps: that the locals of a running purchase keep   *)
(* their types and that the call, with its refresh and its seven           *)
(* transfers, is one step of Purchase or none.                             *)
(*                                                                         *)
(* Both rest on an invariant of the running call: the wallets hold what    *)
(* they held when it began, less the charges whose turn has come, and the  *)
(* prices it read are still there.                                         *)
(***************************************************************************)
EXTENDS PurchaseSteps, Purchase_proofs

\* The turn of each role, the inverse of Transfers.
Turn == [liquidity |-> 1, validator |-> 2, admin |-> 3, partner_a |-> 4,
         partner_b |-> 5, partner_c |-> 6, partner_d |-> 7]

\* The part of a call's charge that its transfers have made so far.
Made(c) == [r \in Roles |-> IF Turn[r] <= c.done THEN c.charge[r] ELSE 0]

\* The call after one more transfer.
OneMore(c) == [c EXCEPT !.done = @ + 1]

\* The wallets in the middle of a call.
PartPaid(c) ==
    [acc \in Wallets |->
        IF acc = c.payer THEN c.wallets[acc] - Total(Made(c))
        ELSE c.wallets[acc] + Received(acc, Made(c), c.layout)]

\* The refresh has been done, from prices that nobody has touched since.
Refreshed(c) ==
    /\ PriceOk(c.eurAcc, EUR_USD_FEED)
    /\ PriceOk(c.solAcc, SOL_USD_FEED)
    /\ \E err \in F64Errors :
          exchange_rate[c.payer] =
              [c.account EXCEPT !.rate =
                  RateValue(price_update[c.eurAcc], price_update[c.solAcc], err)]
    /\ c.charge \in Charges(c.amount, c.rate, fee_config)

CallOK(c) ==
    /\ c \in Calls
    /\ SEEDS_PROGRAM = RATE_PROGRAM
    /\ c.account.bump = CanonicalBump[c.payer]
    /\ c.rate = c.account.rate
    /\ \A u \in Users : c.wallets[u] \in U64
    /\ fee_config # NoAccount
    /\ Total(Made(c)) <= c.wallets[c.payer]
    /\ lamports = PartPaid(c)
    /\ IF c.done = -1 THEN exchange_rate[c.payer] = c.account ELSE Refreshed(c)

StepsInv == PurchaseTypeOK /\ (Running => CallOK(call))

-----------------------------------------------------------------------------
(***************************************************************************)
(* The order of the transfers, and the sums they add up to.                *)
(***************************************************************************)
LEMMA TurnOfRole ==
  /\ Len(Transfers) = 7
  /\ \A i \in 1 .. 7 : Transfers[i] \in Roles
  /\ \A r \in Roles : Turn[r] \in 1 .. 7
  /\ \A r \in Roles, i \in 1 .. 7 : Turn[r] = i <=> r = Transfers[i]
<1>1. Len(Transfers) = 7
  BY DEF Transfers
<1>2. /\ Transfers[1] = "liquidity" /\ Transfers[2] = "validator" /\ Transfers[3] = "admin"
      /\ Transfers[4] = "partner_a" /\ Transfers[5] = "partner_b"
      /\ Transfers[6] = "partner_c" /\ Transfers[7] = "partner_d"
  BY DEF Transfers
<1>3. /\ Turn["liquidity"] = 1 /\ Turn["validator"] = 2 /\ Turn["admin"] = 3
      /\ Turn["partner_a"] = 4 /\ Turn["partner_b"] = 5
      /\ Turn["partner_c"] = 6 /\ Turn["partner_d"] = 7
  BY DEF Turn
<1>4. \A i \in 1 .. 7 : i = 1 \/ i = 2 \/ i = 3 \/ i = 4 \/ i = 5 \/ i = 6 \/ i = 7
  OBVIOUS
<1>5. \A i \in 1 .. 7 : Transfers[i] \in Roles
  BY <1>2, <1>4, RoleNames
<1>6. \A r \in Roles : Turn[r] \in 1 .. 7
  BY <1>3 DEF Roles, FeeRoles
<1>7. ASSUME NEW i \in 1 .. 7 PROVE Turn[Transfers[i]] = i
  BY <1>2, <1>3, <1>4
<1>8. ASSUME NEW r \in Roles PROVE r = Transfers[Turn[r]]
  BY <1>2, <1>3 DEF Roles, FeeRoles
<1> QED
  BY <1>1, <1>5, <1>6, <1>7, <1>8

\* One part more is one amount more.
LEMMA TotalAdds ==
  ASSUME NEW c, NEW d, NEW role \in Roles, NEW n \in Nat,
         \A r \in Roles : c[r] \in Nat,
         \A r \in Roles : d[r] = IF r = role THEN c[r] + n ELSE c[r]
  PROVE  Total(d) = Total(c) + n
<1>1. /\ c["liquidity"] \in Nat /\ c["validator"] \in Nat /\ c["admin"] \in Nat
      /\ c["partner_a"] \in Nat /\ c["partner_b"] \in Nat
      /\ c["partner_c"] \in Nat /\ c["partner_d"] \in Nat
  BY RoleNames
<1>2. /\ d["liquidity"] = IF role = "liquidity" THEN c["liquidity"] + n ELSE c["liquidity"]
      /\ d["validator"] = IF role = "validator" THEN c["validator"] + n ELSE c["validator"]
      /\ d["admin"] = IF role = "admin" THEN c["admin"] + n ELSE c["admin"]
      /\ d["partner_a"] = IF role = "partner_a" THEN c["partner_a"] + n ELSE c["partner_a"]
      /\ d["partner_b"] = IF role = "partner_b" THEN c["partner_b"] + n ELSE c["partner_b"]
      /\ d["partner_c"] = IF role = "partner_c" THEN c["partner_c"] + n ELSE c["partner_c"]
      /\ d["partner_d"] = IF role = "partner_d" THEN c["partner_d"] + n ELSE c["partner_d"]
  BY RoleNames
<1>3. /\ Total(c) = c["liquidity"] + (c["validator"] + c["admin"] + c["partner_a"]
                        + c["partner_b"] + c["partner_c"] + c["partner_d"])
      /\ Total(d) = d["liquidity"] + (d["validator"] + d["admin"] + d["partner_a"]
                        + d["partner_b"] + d["partner_c"] + d["partner_d"])
  BY DEF Total, Shares
<1>4. CASE role = "liquidity"
  BY <1>1, <1>2, <1>3, <1>4
<1>5. CASE role = "validator"
  BY <1>1, <1>2, <1>3, <1>5
<1>6. CASE role = "admin"
  BY <1>1, <1>2, <1>3, <1>6
<1>7. CASE role = "partner_a"
  BY <1>1, <1>2, <1>3, <1>7
<1>8. CASE role = "partner_b"
  BY <1>1, <1>2, <1>3, <1>8
<1>9. CASE role = "partner_c"
  BY <1>1, <1>2, <1>3, <1>9
<1>10. CASE role = "partner_d"
  BY <1>1, <1>2, <1>3, <1>10
<1> QED
  BY <1>4, <1>5, <1>6, <1>7, <1>8, <1>9, <1>10 DEF Roles, FeeRoles

\* The fields of a call.
LEMMA CallFields ==
  ASSUME NEW c \in Calls
  PROVE  /\ c.payer \in Users /\ c.amount \in PurchaseAmounts /\ c.layout \in Layouts
         /\ c.eurAcc \in PriceAccounts /\ c.solAcc \in PriceAccounts
         /\ c.rate \in U64 /\ c.charge \in [Roles -> U64]
         /\ c.done \in -1 .. 7 /\ c.done \in Int
         /\ c.account \in ExchangeRates /\ c.wallets \in [Wallets -> Nat]
         /\ \A r \in Roles : c.charge[r] \in Nat
         /\ \A r \in Roles : Made(c)[r] \in Nat
<1>1. /\ c.payer \in Users /\ c.amount \in PurchaseAmounts /\ c.layout \in Layouts
      /\ c.eurAcc \in PriceAccounts /\ c.solAcc \in PriceAccounts
      /\ c.rate \in U64 /\ c.charge \in [Roles -> U64]
      /\ c.done \in -1 .. Len(Transfers)
      /\ c.account \in ExchangeRates /\ c.wallets \in [Wallets -> Nat]
  BY DEF Calls
<1>2. \A r \in Roles : c.charge[r] \in Nat
  BY <1>1, SolanaAssumption DEF U64
<1>3. \A r \in Roles : Made(c)[r] \in Nat
  BY <1>2 DEF Made
<1> QED
  BY <1>1, <1>2, <1>3, TurnOfRole

\* What has been made before the first transfer, after one more, and after the
\* last one.
LEMMA MadeNothing ==
  ASSUME NEW c \in Calls, c.done \in {-1, 0}
  PROVE  /\ Total(Made(c)) = 0
         /\ \A acc : Received(acc, Made(c), c.layout) = 0
<1>1. \A r \in Roles : Made(c)[r] = 0
  BY TurnOfRole DEF Made
<1>2. ASSUME NEW acc PROVE Received(acc, Made(c), c.layout) = 0
  <2>1. \A r \in Roles : [x \in Roles |-> IF c.layout[x] = acc THEN Made(c)[x] ELSE 0][r] = 0
    BY <1>1
  <2> QED
    BY <2>1, RoleNames DEF Received, Total, Shares
<1>3. Total(Made(c)) = 0
  BY <1>1, RoleNames DEF Total, Shares
<1> QED
  BY <1>2, <1>3

LEMMA MadeOneMore ==
  ASSUME NEW c \in Calls, c.done \in 0 .. 6,
         NEW role, role = Transfers[c.done + 1]
  PROVE  /\ role \in Roles /\ c.charge[role] \in Nat
         /\ Total(Made(OneMore(c))) = Total(Made(c)) + c.charge[role]
         /\ \A acc : Received(acc, Made(OneMore(c)), OneMore(c).layout) =
               Received(acc, Made(c), c.layout)
               + (IF c.layout[role] = acc THEN c.charge[role] ELSE 0)
<1>1. /\ c.done + 1 \in 1 .. 7 /\ role \in Roles
      /\ \A r \in Roles : Turn[r] \in 1 .. 7
      /\ \A r \in Roles : Turn[r] = c.done + 1 <=> r = role
  BY TurnOfRole
<1> DEFINE d == OneMore(c)
<1>2. d.done = c.done + 1 /\ d.charge = c.charge /\ d.layout = c.layout
  BY DEF Calls, OneMore
<1> HIDE DEF d
<1>3. c.charge[role] \in Nat /\ \A r \in Roles : Made(c)[r] \in Nat
  BY <1>1, CallFields
<1>4. \A r \in Roles : Made(d)[r] = IF r = role THEN Made(c)[r] + c.charge[role] ELSE Made(c)[r]
  <2> SUFFICES ASSUME NEW r \in Roles
               PROVE  Made(d)[r] = IF r = role THEN Made(c)[r] + c.charge[role] ELSE Made(c)[r]
    OBVIOUS
  <2>1. /\ Made(d)[r] = IF Turn[r] <= c.done + 1 THEN c.charge[r] ELSE 0
        /\ Made(c)[r] = IF Turn[r] <= c.done THEN c.charge[r] ELSE 0
    BY <1>2 DEF Made
  <2>2. Turn[r] \in Int /\ c.done \in Int /\ (Turn[r] = c.done + 1 <=> r = role)
    BY <1>1
  <2> QED
    BY <1>3, <2>1, <2>2
<1>5. Total(Made(d)) = Total(Made(c)) + c.charge[role]
  <2> DEFINE m == Made(c)
             n == Made(d)
             x == c.charge[role]
  <2>1. /\ role \in Roles /\ x \in Nat
        /\ \A r \in Roles : m[r] \in Nat
        /\ \A r \in Roles : n[r] = IF r = role THEN m[r] + x ELSE m[r]
    BY <1>1, <1>3, <1>4
  <2> HIDE DEF m, n, x
  <2>2. Total(n) = Total(m) + x
    BY <2>1, TotalAdds
  <2> QED
    BY <2>2 DEF m, n, x
<1>6. ASSUME NEW acc
      PROVE  Received(acc, Made(d), d.layout) =
               Received(acc, Made(c), c.layout)
               + (IF c.layout[role] = acc THEN c.charge[role] ELSE 0)
  <2> DEFINE m == [r \in Roles |-> IF c.layout[r] = acc THEN Made(c)[r] ELSE 0]
             n == [r \in Roles |-> IF c.layout[r] = acc THEN Made(d)[r] ELSE 0]
             x == IF c.layout[role] = acc THEN c.charge[role] ELSE 0
  <2>1. role \in Roles /\ x \in Nat /\ \A r \in Roles : m[r] \in Nat
    BY <1>1, <1>3
  <2>2. \A r \in Roles : n[r] = IF r = role THEN m[r] + x ELSE m[r]
    BY <1>3, <1>4
  <2>3. Received(acc, Made(c), c.layout) = Total(m) /\ Received(acc, Made(d), d.layout) = Total(n)
    BY <1>2 DEF Received
  <2> HIDE DEF m, n, x
  <2>4. Total(n) = Total(m) + x
    BY <2>1, <2>2, TotalAdds
  <2> QED
    BY <2>3, <2>4 DEF x
<1> QED
  BY <1>1, <1>3, <1>5, <1>6 DEF d

LEMMA MadeAll ==
  ASSUME NEW c \in Calls, c.done = 7
  PROVE  Made(c) = c.charge
<1>1. \A r \in Roles : Turn[r] <= 7
  BY TurnOfRole
<1>2. c.charge = [r \in Roles |-> c.charge[r]]
  BY CallFields
<1> QED
  BY <1>1, <1>2 DEF Made

-----------------------------------------------------------------------------
(***************************************************************************)
(* The wallets in the middle of a call.                                    *)
(***************************************************************************)
LEMMA UsersReceiveNothing ==
  ASSUME NEW v \in Users, NEW layout \in Layouts, NEW charge
  PROVE  Received(v, charge, layout) = 0
<1>1. \A r \in Roles : layout[r] # v
  BY PurchaseAssumption
<1>2. \A r \in Roles : [x \in Roles |-> IF layout[x] = v THEN charge[x] ELSE 0][r] = 0
  BY <1>1
<1> QED
  BY <1>2, RoleNames DEF Received, Total, Shares

LEMMA PartPaidWallets ==
  ASSUME NEW c \in Calls
  PROVE  /\ c.payer \in Wallets
         /\ PartPaid(c)[c.payer] = c.wallets[c.payer] - Total(Made(c))
         /\ \A acc \in Wallets \ {c.payer} :
               PartPaid(c)[acc] = c.wallets[acc] + Received(acc, Made(c), c.layout)
         /\ \A u \in Users \ {c.payer} : PartPaid(c)[u] = c.wallets[u]
         /\ DOMAIN PartPaid(c) = Wallets
<1>1. c.payer \in Users /\ c.layout \in Layouts /\ c.wallets \in [Wallets -> Nat]
  BY CallFields
<1>2. \A u \in Users : u \in Wallets /\ Received(u, Made(c), c.layout) = 0
  BY <1>1, UsersReceiveNothing, WalletsAreApart
<1>3. \A acc \in Wallets : PartPaid(c)[acc] =
        IF acc = c.payer THEN c.wallets[acc] - Total(Made(c))
        ELSE c.wallets[acc] + Received(acc, Made(c), c.layout)
  BY DEF PartPaid
<1>4. DOMAIN PartPaid(c) = Wallets
  BY DEF PartPaid
<1>5. \A u \in Users : c.wallets[u] \in Nat
  BY <1>1, <1>2
<1> QED
  BY <1>1, <1>2, <1>3, <1>4, <1>5

LEMMA PartPaidType ==
  ASSUME NEW c \in Calls, \A u \in Users : c.wallets[u] \in U64,
         Total(Made(c)) <= c.wallets[c.payer]
  PROVE  /\ PartPaid(c) \in [Wallets -> Nat]
         /\ \A u \in Users : PartPaid(c)[u] \in U64
<1>1. /\ c.payer \in Users /\ c.layout \in Layouts /\ c.wallets \in [Wallets -> Nat]
      /\ \A r \in Roles : Made(c)[r] \in Nat
  BY CallFields
<1>2. Total(Made(c)) \in Nat /\ c.wallets[c.payer] \in Nat /\ c.wallets[c.payer] <= U64_MAX
  BY <1>1, TotalIsNat, WalletsAreApart, SolanaAssumption DEF U64
<1>3. PartPaid(c)[c.payer] \in U64 /\ PartPaid(c)[c.payer] \in Nat
  <2>1. PartPaid(c)[c.payer] = c.wallets[c.payer] - Total(Made(c))
    BY PartPaidWallets
  <2> QED
    BY <1>2, <2>1, SolanaAssumption DEF U64
<1>4. \A u \in Users : PartPaid(c)[u] \in U64
  BY <1>3, PartPaidWallets
<1>5. ASSUME NEW acc \in Wallets PROVE PartPaid(c)[acc] \in Nat
  <2>1. CASE acc = c.payer
    BY <1>3, <2>1
  <2>2. CASE acc # c.payer
    <3>1. Received(acc, Made(c), c.layout) \in Nat /\ c.wallets[acc] \in Nat
      BY <1>1, ReceivedIsNat
    <3> QED
      BY <2>2, <3>1, PartPaidWallets
  <2> QED
    BY <2>1, <2>2
<1>6. PartPaid(c) = [acc \in Wallets |-> PartPaid(c)[acc]]
  BY DEF PartPaid
<1> QED
  BY <1>4, <1>5, <1>6

\* Before the first transfer nothing is missing.
LEMMA PartPaidNothing ==
  ASSUME NEW c \in Calls, c.done \in {-1, 0}
  PROVE  PartPaid(c) = c.wallets /\ Total(Made(c)) = 0
<1>1. c.wallets \in [Wallets -> Nat]
  BY CallFields
<1>2. Total(Made(c)) = 0 /\ \A acc : Received(acc, Made(c), c.layout) = 0
  BY MadeNothing
<1>3. \A acc \in Wallets : PartPaid(c)[acc] = c.wallets[acc]
  <2>1. \A acc \in Wallets : PartPaid(c)[acc] =
          IF acc = c.payer THEN c.wallets[acc] - 0 ELSE c.wallets[acc] + 0
    BY <1>2 DEF PartPaid
  <2> QED
    BY <1>1, <2>1
<1>4. PartPaid(c) = [acc \in Wallets |-> PartPaid(c)[acc]]
  BY DEF PartPaid
<1>5. c.wallets = [acc \in Wallets |-> c.wallets[acc]]
  BY <1>1
<1> QED
  BY <1>2, <1>3, <1>4, <1>5

\* One transfer takes the wallets from one stage of the call to the next.
LEMMA PartPaidOneMore ==
  ASSUME NEW c \in Calls, c.done \in 0 .. 6,
         NEW role, role = Transfers[c.done + 1],
         PartPaid(c) \in [Wallets -> Nat]
  PROVE  /\ c.layout[role] \in Wallets /\ c.layout[role] # c.payer
         /\ PartPaid(OneMore(c)) = [PartPaid(c) EXCEPT ![c.payer] = @ - c.charge[role],
                                              ![c.layout[role]] = @ + c.charge[role]]
<1>1. /\ role \in Roles /\ c.charge[role] \in Nat
      /\ Total(Made(OneMore(c))) = Total(Made(c)) + c.charge[role]
      /\ \A acc : Received(acc, Made(OneMore(c)), OneMore(c).layout) =
            Received(acc, Made(c), c.layout)
            + (IF c.layout[role] = acc THEN c.charge[role] ELSE 0)
  BY MadeOneMore
<1>2. /\ c.payer \in Users /\ c.payer \in Wallets /\ c.layout \in Layouts
      /\ c.wallets \in [Wallets -> Nat] /\ Total(Made(c)) \in Nat
      /\ \A acc : Received(acc, Made(c), c.layout) \in Nat
  BY CallFields, TotalIsNat, ReceivedIsNat, WalletsAreApart
<1>3. c.layout[role] \in Recipients /\ c.layout[role] \in Wallets /\ c.layout[role] # c.payer
  BY <1>1, <1>2, PurchaseAssumption DEF Wallets
<1>4. OneMore(c).payer = c.payer /\ OneMore(c).wallets = c.wallets
  BY DEF Calls, OneMore
<1> DEFINE n == c.charge[role]
           x == c.layout[role]
           after == [PartPaid(c) EXCEPT ![c.payer] = @ - n, ![x] = @ + n]
<1>5. ASSUME NEW acc \in Wallets PROVE PartPaid(OneMore(c))[acc] = after[acc]
  <2>1. PartPaid(c)[acc] = IF acc = c.payer THEN c.wallets[acc] - Total(Made(c))
                           ELSE c.wallets[acc] + Received(acc, Made(c), c.layout)
    BY DEF PartPaid
  <2>2. PartPaid(OneMore(c))[acc] = IF acc = c.payer THEN c.wallets[acc] - Total(Made(OneMore(c)))
                           ELSE c.wallets[acc] + Received(acc, Made(OneMore(c)), OneMore(c).layout)
    BY <1>4 DEF PartPaid
  <2>3. c.wallets[acc] \in Nat
    BY <1>2
  <2>4. CASE acc = c.payer
    <3>1. after[acc] = PartPaid(c)[acc] - n
      BY <1>2, <1>3, <2>4
    <3> HIDE DEF after, n
    <3> QED
      BY <1>1, <1>2, <2>1, <2>2, <2>3, <2>4, <3>1 DEF n
  <2>5. CASE acc = x
    <3>1. after[acc] = PartPaid(c)[acc] + n
      BY <1>3, <2>5
    <3>2. Received(acc, Made(OneMore(c)), OneMore(c).layout) = Received(acc, Made(c), c.layout) + n
      BY <1>1, <2>5
    <3>3. n \in Nat /\ Received(acc, Made(c), c.layout) \in Nat /\ acc # c.payer
      BY <1>1, <1>2, <1>3, <2>5
    <3> HIDE DEF after, n
    <3> QED
      BY <2>1, <2>2, <2>3, <3>1, <3>2, <3>3
  <2>6. CASE acc # c.payer /\ acc # x
    <3>1. after[acc] = PartPaid(c)[acc]
      BY <2>6
    <3>2. Received(acc, Made(OneMore(c)), OneMore(c).layout) = Received(acc, Made(c), c.layout) + 0
      BY <1>1, <2>6
    <3>3. Received(acc, Made(c), c.layout) \in Nat
      BY <1>2
    <3> HIDE DEF after
    <3> QED
      BY <2>1, <2>2, <2>3, <2>6, <3>1, <3>2, <3>3
  <2> QED
    BY <2>4, <2>5, <2>6
<1>6. PartPaid(OneMore(c)) = [acc \in Wallets |-> PartPaid(OneMore(c))[acc]]
  BY DEF PartPaid
<1>7. after = [acc \in Wallets |-> after[acc]]
  OBVIOUS
<1> HIDE DEF after
<1>8. PartPaid(OneMore(c)) = after
  BY <1>5, <1>6, <1>7
<1> QED
  BY <1>3, <1>8 DEF after

-----------------------------------------------------------------------------
(***************************************************************************)
(* StepsInv is inductive: one lemma per action.                            *)
(***************************************************************************)
LEMMA InvInit == StepsInit => StepsInv
  BY PurchaseTypeInit DEF StepsInit, StepsInv, Running

LEMMA NatsAndU64s == 0 \in U64 /\ \A n \in U64 : n \in Nat
  BY SolanaAssumption DEF U64

LEMMA InvEnter ==
  ASSUME StepsInv, NEW u \in Users, NEW amount \in PurchaseAmounts, NEW layout \in Layouts,
         NEW eurAcc \in PriceAccounts, NEW solAcc \in PriceAccounts,
         Enter(u, amount, layout, eurAcc, solAcc)
  PROVE  StepsInv'
<1>1. PurchaseTypeOK'
  BY DEF Enter, StepsInv, PurchaseTypeOK, RateTypeOK, purchaseVars
<1>2. /\ exchange_rate[u] \in ExchangeRates /\ exchange_rate[u].rate \in U64
      /\ exchange_rate[u].bump = CanonicalBump[u] /\ SEEDS_PROGRAM = RATE_PROGRAM
      /\ fee_config # NoAccount
  BY DEF Enter, CoinSeedsOk, SeedsOk, StepsInv, PurchaseTypeOK, RateTypeOK, ExchangeRates
<1>3. /\ lamports \in [Wallets -> Nat] /\ \A v \in Users : lamports[v] \in U64
      /\ lamports[u] \in Nat
  BY WalletsAreApart DEF StepsInv, PurchaseTypeOK
<1> DEFINE c == [payer |-> u, amount |-> amount, layout |-> layout,
                 eurAcc |-> eurAcc, solAcc |-> solAcc,
                 rate |-> exchange_rate[u].rate, charge |-> NothingDue,
                 done |-> -1, account |-> exchange_rate[u], wallets |-> lamports]
<1>4. c \in Calls
  <2>1. NothingDue \in [Roles -> U64]
    BY NatsAndU64s DEF NothingDue
  <2>2. -1 \in -1 .. Len(Transfers)
    BY TurnOfRole
  <2> QED
    BY <1>2, <1>3, <2>1, <2>2 DEF Calls
<1>5. /\ c.payer = u /\ c.account = exchange_rate[u] /\ c.rate = exchange_rate[u].rate
      /\ c.wallets = lamports /\ c.done = -1
  OBVIOUS
<1>6. /\ call' = c /\ exchange_rate' = exchange_rate /\ price_update' = price_update
      /\ fee_config' = fee_config /\ lamports' = lamports
  BY DEF Enter, purchaseVars
<1> HIDE DEF c
<1>7. PartPaid(c) = lamports /\ Total(Made(c)) = 0
  BY <1>4, <1>5, PartPaidNothing
<1>8. CallOK(call)'
  BY <1>2, <1>3, <1>4, <1>5, <1>6, <1>7 DEF CallOK
<1> QED
  BY <1>1, <1>8 DEF StepsInv

\* A charge fits the local it is kept in.
LEMMA ChargeType ==
  ASSUME NEW amount \in Nat, NEW rate \in Nat, NEW cfg \in FeeConfigs,
         NEW charge \in Charges(amount, rate, cfg)
  PROVE  charge \in [Roles -> U64]
<1>1. charge = [r \in Roles |-> charge[r]]
  <2>1. \E l, v, a, pa, pb, pc, pd : charge = Charge(l, v, a, pa, pb, pc, pd)
    BY DEF Charges
  <2> QED
    BY <2>1 DEF Charge
<1>2. /\ amount * rate \in Nat /\ RATE_SCALE \in Nat \ {0}
      /\ \A r \in FeeRoles : 3 * amount * rate * cfg[r] \in Nat
      /\ 100 * RATE_SCALE * SHARE_SCALE \in Nat \ {0}
  BY ChargeIsNat, ExchangeRateAssumption
<1>3. charge["liquidity"] \in U64
  <2>1. charge["liquidity"] \in Casts(amount * rate, RATE_SCALE)
    BY ChargeParts DEF LiquidityCasts
  <2> QED
    BY <1>2, <2>1, CastUpper
<1>4. ASSUME NEW r \in FeeRoles PROVE charge[r] \in U64
  <2>1. charge[r] \in Casts(3 * amount * rate * cfg[r], 100 * RATE_SCALE * SHARE_SCALE)
    BY ChargeParts DEF FeeCasts
  <2> QED
    BY <1>2, <2>1, CastUpper
<1>5. \A r \in Roles : charge[r] \in U64
  BY <1>3, <1>4 DEF Roles
<1> QED
  BY <1>1, <1>5

\* What a refresh leaves in the locals of the call.
LEMMA RefreshParts ==
  ASSUME StepsInv, Refresh
  PROVE  /\ call \in Calls /\ CallOK(call) /\ call.done = -1
         /\ call' \in Calls /\ call'.done = 0
         /\ call'.payer = call.payer /\ call'.account = call.account
         /\ call'.rate = call.rate /\ call'.wallets = call.wallets
         /\ call'.amount = call.amount
         /\ call'.eurAcc = call.eurAcc /\ call'.solAcc = call.solAcc
         /\ call'.charge \in Charges(call.amount, call.rate, fee_config)
         /\ call.payer \in Users /\ call.amount \in Nat /\ call.rate \in Nat
         /\ call.eurAcc \in PriceAccounts /\ call.solAcc \in PriceAccounts
         /\ call.account \in ExchangeRates
<1>1. call \in Calls /\ CallOK(call) /\ call.done = -1
  BY DEF StepsInv, Refresh, CallOK
<1>2. /\ call.payer \in Users /\ call.amount \in Nat /\ call.rate \in Nat
      /\ call.eurAcc \in PriceAccounts /\ call.solAcc \in PriceAccounts
      /\ call.account \in ExchangeRates
  BY <1>1, CallFields, PurchaseAssumption, NatsAndU64s
<1>3. fee_config \in FeeConfigs
  BY <1>1 DEF StepsInv, PurchaseTypeOK, CallOK
<1>4. PICK charge \in Charges(call.amount, call.rate, fee_config) :
        call' = [call EXCEPT !.charge = charge, !.done = 0]
  BY DEF Refresh
<1>5. charge \in [Roles -> U64]
  BY <1>2, <1>3, ChargeType
<1>6. call' \in Calls /\ call'.done = 0
  <2>1. 0 \in -1 .. Len(Transfers)
    BY TurnOfRole
  <2> QED
    BY <1>1, <1>4, <1>5, <2>1 DEF Calls
<1>7. /\ call'.payer = call.payer /\ call'.account = call.account /\ call'.rate = call.rate
      /\ call'.wallets = call.wallets /\ call'.amount = call.amount
      /\ call'.eurAcc = call.eurAcc /\ call'.solAcc = call.solAcc
      /\ call'.charge = charge
  BY <1>1, <1>4 DEF Calls
<1> QED
  BY <1>1, <1>2, <1>4, <1>6, <1>7

LEMMA InvRefresh ==
  ASSUME StepsInv, Refresh
  PROVE  StepsInv'
<1>1. /\ call \in Calls /\ CallOK(call) /\ call.done = -1
      /\ call' \in Calls /\ call'.done = 0
      /\ call'.payer = call.payer /\ call'.account = call.account
      /\ call'.rate = call.rate /\ call'.wallets = call.wallets
      /\ call'.amount = call.amount
      /\ call'.eurAcc = call.eurAcc /\ call'.solAcc = call.solAcc
      /\ call'.charge \in Charges(call.amount, call.rate, fee_config)
      /\ call.payer \in Users
      /\ call.eurAcc \in PriceAccounts /\ call.solAcc \in PriceAccounts
  BY RefreshParts
<1>2. exchange_rate[call.payer] = call.account
  BY <1>1 DEF CallOK
<1>3. PICK err \in F64Errors :
        exchange_rate' = [exchange_rate EXCEPT ![call.payer].rate =
            RateValue(price_update[call.eurAcc], price_update[call.solAcc], err)]
  BY DEF Refresh, UpdateExchangeRate
<1>4. PurchaseTypeOK'
  <2>1. RateNext
    BY <1>1, PurchaseAssumption DEF Refresh, RateNext, RateCalls
  <2>2. RateTypeOK'
    BY <2>1, RateTypeStep DEF StepsInv, PurchaseTypeOK
  <2> QED
    BY <2>2 DEF Refresh, StepsInv, PurchaseTypeOK
<1>5. /\ PartPaid(call') = call'.wallets /\ Total(Made(call')) = 0
      /\ PartPaid(call) = call.wallets
  BY <1>1, PartPaidNothing
<1>6. /\ call.wallets[call.payer] \in Nat
      /\ \A u \in Users : call.wallets[u] \in U64
  BY <1>1, NatsAndU64s DEF CallOK
<1>7. lamports' = PartPaid(call') /\ Total(Made(call')) <= call'.wallets[call'.payer]
  BY <1>1, <1>5, <1>6 DEF CallOK, Refresh
<1>8. Refreshed(call)'
  <2>1. exchange_rate'[call.payer] = [call.account EXCEPT !.rate =
            RateValue(price_update[call.eurAcc], price_update[call.solAcc], err)]
    BY <1>1, <1>2, <1>3 DEF StepsInv, PurchaseTypeOK, RateTypeOK
  <2>2. price_update' = price_update /\ fee_config' = fee_config
    BY DEF Refresh, UpdateExchangeRate
  <2>3. /\ PriceOk(call.eurAcc, EUR_USD_FEED) /\ PriceOk(call.solAcc, SOL_USD_FEED)
    BY DEF Refresh, UpdateExchangeRate, UpdateAccepted
  <2> QED
    BY <1>1, <2>1, <2>2, <2>3 DEF Refreshed, PriceOk
<1>9. CallOK(call)'
  BY <1>1, <1>6, <1>7, <1>8 DEF CallOK, Refresh
<1> QED
  BY <1>4, <1>9 DEF StepsInv

LEMMA InvTransfer ==
  ASSUME StepsInv, Transfer
  PROVE  StepsInv'
<1>1. /\ call \in Calls /\ CallOK(call) /\ call.done \in 0 .. 6
      /\ call' = OneMore(call)
  BY TurnOfRole DEF StepsInv, Transfer, CallOK, OneMore
<1> DEFINE c == call
           d == OneMore(call)
           role == Transfers[call.done + 1]
           due == call.charge[role]
<1>2. /\ due <= lamports[c.payer]
      /\ lamports' = [lamports EXCEPT ![c.payer] = @ - due, ![c.layout[role]] = @ + due]
      /\ UNCHANGED <<exchange_rate, price_update, fee_config>>
  BY DEF Transfer
<1>3. /\ lamports = PartPaid(c) /\ lamports \in [Wallets -> Nat]
      /\ Total(Made(c)) <= c.wallets[c.payer]
      /\ \A u \in Users : c.wallets[u] \in U64
  BY <1>1 DEF CallOK, StepsInv, PurchaseTypeOK
<1>4. /\ d \in Calls /\ d.done = c.done + 1 /\ d.payer = c.payer /\ d.account = c.account
      /\ d.rate = c.rate /\ d.wallets = c.wallets /\ d.amount = c.amount
      /\ d.eurAcc = c.eurAcc /\ d.solAcc = c.solAcc /\ d.charge = c.charge
  BY <1>1, TurnOfRole DEF OneMore, Calls
<1>5. lamports' = PartPaid(d)
  BY <1>1, <1>2, <1>3, PartPaidOneMore
<1>6. Total(Made(d)) <= d.wallets[d.payer]
  <2>1. Total(Made(d)) = Total(Made(c)) + due /\ due \in Nat
    BY <1>1, MadeOneMore
  <2>2. c.payer \in Users /\ c.payer \in Wallets /\ Total(Made(c)) \in Nat
    BY <1>1, CallFields, TotalIsNat, WalletsAreApart
  <2>3. c.wallets[c.payer] \in Nat
    BY <1>3, <2>2, NatsAndU64s
  <2>4. lamports[c.payer] = c.wallets[c.payer] - Total(Made(c))
    BY <1>1, <1>3, PartPaidWallets
  <2> HIDE DEF due, d
  <2> QED
    BY <1>2, <1>4, <2>1, <2>2, <2>3, <2>4
<1>7. PurchaseTypeOK'
  <2>1. PartPaid(d) \in [Wallets -> Nat] /\ \A u \in Users : PartPaid(d)[u] \in U64
    BY <1>3, <1>4, <1>6, PartPaidType
  <2> QED
    BY <1>2, <1>5, <2>1 DEF StepsInv, PurchaseTypeOK, RateTypeOK
<1>8. Refreshed(c)
  BY <1>1 DEF CallOK
<1>9. Refreshed(call)'
  BY <1>1, <1>2, <1>4, <1>8 DEF Refreshed, PriceOk
<1>10. CallOK(call)'
  <2>1. d.done # -1 /\ call' = d
    BY <1>1, <1>4
  <2>2. /\ SEEDS_PROGRAM = RATE_PROGRAM /\ fee_config # NoAccount
        /\ c.account.bump = CanonicalBump[c.payer] /\ c.rate = c.account.rate
    BY <1>1 DEF CallOK
  <2> HIDE DEF c, d
  <2> QED
    BY <1>2, <1>3, <1>4, <1>5, <1>6, <1>9, <2>1, <2>2 DEF CallOK
<1> QED
  BY <1>7, <1>10 DEF StepsInv

LEMMA InvReturn ==
  ASSUME StepsInv, Return
  PROVE  StepsInv'
  BY DEF StepsInv, Return, Running, PurchaseTypeOK, RateTypeOK, purchaseVars

LEMMA InvAbort ==
  ASSUME StepsInv, Abort
  PROVE  StepsInv'
<1>1. call \in Calls /\ CallOK(call)
  BY DEF StepsInv, Abort, CallOK
<1>2. /\ call.payer \in Users /\ call.account \in ExchangeRates
      /\ call.wallets \in [Wallets -> Nat] /\ \A u \in Users : call.wallets[u] \in U64
  BY <1>1, CallFields DEF CallOK
<1>3. exchange_rate' \in [Users -> ExchangeRates \cup {NoAccount}]
  BY <1>2 DEF Abort, StepsInv, PurchaseTypeOK, RateTypeOK
<1> QED
  BY <1>2, <1>3 DEF Abort, StepsInv, PurchaseTypeOK, RateTypeOK, Running

LEMMA InvElsewhere ==
  ASSUME StepsInv, Elsewhere
  PROVE  StepsInv'
<1>1. [PurchaseNext]_purchaseVars
  BY DEF Elsewhere, PurchaseNext, PurchaseCalls
<1>2. PurchaseTypeOK'
  BY <1>1, PurchaseTypeStep DEF StepsInv
<1>3. ASSUME Running PROVE CallOK(call)'
  <2>1. CallOK(call) /\ call' = call /\ fee_config # NoAccount
    BY <1>3 DEF StepsInv, CallOK, Elsewhere
  <2>2. lamports' = lamports /\ fee_config' = fee_config
    BY <2>1 DEF Elsewhere, RateStep, InitializeFeeConfig
  <2>3. /\ exchange_rate'[call.payer] = exchange_rate[call.payer]
        /\ price_update'[call.eurAcc] = price_update[call.eurAcc]
        /\ price_update'[call.solAcc] = price_update[call.solAcc]
    BY <1>3 DEF Elsewhere
  <2>4. Refreshed(call) => Refreshed(call)'
    BY <2>1, <2>2, <2>3 DEF Refreshed, PriceOk
  <2> QED
    BY <2>1, <2>2, <2>3, <2>4 DEF CallOK
<1> QED
  BY <1>2, <1>3 DEF StepsInv, Elsewhere, Running

LEMMA InvStep == StepsInv /\ [StepsNext]_stepsVars => StepsInv'
<1> SUFFICES ASSUME StepsInv, [StepsNext]_stepsVars PROVE StepsInv'
  OBVIOUS
<1>1. CASE UNCHANGED stepsVars
  BY <1>1 DEF stepsVars, StepsInv, Running, CallOK, Refreshed, PriceOk, PurchaseTypeOK,
              RateTypeOK
<1> QED
  BY <1>1, InvEnter, InvRefresh, InvTransfer, InvReturn, InvAbort, InvElsewhere DEF StepsNext

\* The running call's invariant holds throughout.
LEMMA InvAlways == StepsSpec => []StepsInv
  BY InvInit, InvStep, PTL DEF StepsSpec

\* At every point of a purchase, also of one that is going to fail, the locals
\* of the handler hold what their types say and no transfer has taken lamports
\* that were not there (lib.rs:152-297).
THEOREM LocalsAreTyped == StepsSpec => []StepsTypeOK
<1>1. StepsInv => StepsTypeOK
  BY DEF StepsInv, StepsTypeOK, CallOK, Running
<1> QED
  BY <1>1, InvAlways, PTL

-----------------------------------------------------------------------------
(***************************************************************************)
(* The refinement.  Seen as if the running call had not begun, a call      *)
(* changes nothing before it returns, and then does all that               *)
(* PurchaseWithFee does.                                                   *)
(***************************************************************************)
CommittedRates == IF Running THEN [exchange_rate EXCEPT ![call.payer] = call.account]
                  ELSE exchange_rate

CommittedLamports == IF Running THEN call.wallets ELSE lamports

LEMMA ChargesCommitted ==
  \A amount, rate, cfg : Committed!Charges(amount, rate, cfg) = Charges(amount, rate, cfg)
  BY DEF Committed!Charges, Charges, Committed!Charge, Charge, Committed!LiquidityCasts,
         LiquidityCasts, Committed!FeeCasts, FeeCasts, Committed!Casts, Casts,
         Committed!AsU64, AsU64, Committed!SaturateU64, SaturateU64,
         Committed!F64Errors, F64Errors, Committed!Roles, Roles, Committed!FeeRoles, FeeRoles

LEMMA PowersCommitted == Committed!PowersOfTen = PowersOfTen
  BY DEF Committed!PowersOfTen, PowersOfTen

LEMMA RateValueCommitted ==
  \A eur, sol, err : Committed!RateValue(eur, sol, err) = RateValue(eur, sol, err)
  BY PowersCommitted
  DEF Committed!RateValue, RateValue, Committed!Pow10, Pow10,
      Committed!AsU64, AsU64, Committed!SaturateU64, SaturateU64

LEMMA TotalCommitted == \A c : Committed!Total(c) = Total(c)
  BY DEF Committed!Total, Total, Committed!Shares, Shares

LEMMA ReceivedCommitted ==
  \A acc, charge, layout :
     Committed!Received(acc, charge, layout) = Received(acc, charge, layout)
  BY DEF Committed!Received, Received, Committed!Total, Total, Committed!Shares, Shares,
         Committed!Roles, Roles, Committed!FeeRoles, FeeRoles

LEMMA CommittedInit == StepsInit => Committed!PurchaseInit
  BY DEF StepsInit, PurchaseInit, RateInit, Committed!PurchaseInit, Committed!RateInit, Running

LEMMA SameCommitted ==
  ASSUME CommittedRates' = CommittedRates, CommittedLamports' = CommittedLamports,
         price_update' = price_update, fee_config' = fee_config
  PROVE  UNCHANGED Committed!purchaseVars
  BY DEF Committed!purchaseVars, CommittedRates, CommittedLamports

LEMMA EnterIsStutter ==
  ASSUME StepsInv, NEW u \in Users, NEW amount \in PurchaseAmounts, NEW layout \in Layouts,
         NEW eurAcc \in PriceAccounts, NEW solAcc \in PriceAccounts,
         Enter(u, amount, layout, eurAcc, solAcc)
  PROVE  UNCHANGED Committed!purchaseVars
<1>1. /\ ~Running /\ exchange_rate' = exchange_rate /\ lamports' = lamports
      /\ price_update' = price_update /\ fee_config' = fee_config
      /\ call'.payer = u /\ call'.account = exchange_rate[u] /\ call'.wallets = lamports
  BY DEF Enter, purchaseVars
<1>2. [exchange_rate EXCEPT ![u] = exchange_rate[u]] = exchange_rate
  BY DEF StepsInv, PurchaseTypeOK, RateTypeOK
<1>3. CommittedRates' = CommittedRates /\ CommittedLamports' = CommittedLamports
  BY <1>1, <1>2 DEF CommittedRates, CommittedLamports
<1> QED
  BY <1>1, <1>3, SameCommitted

LEMMA RefreshIsStutter ==
  ASSUME StepsInv, Refresh
  PROVE  UNCHANGED Committed!purchaseVars
<1>1. /\ call' \in Calls /\ call'.payer = call.payer /\ call'.account = call.account
      /\ call'.wallets = call.wallets /\ call.payer \in Users
  BY RefreshParts
<1>2. Running /\ Running'
  BY <1>1, NoCallAssumption DEF Refresh, Running
<1>3. PICK v : exchange_rate' = [exchange_rate EXCEPT ![call.payer].rate = v]
  BY DEF Refresh, UpdateExchangeRate
<1>4. [exchange_rate' EXCEPT ![call.payer] = call.account]
        = [exchange_rate EXCEPT ![call.payer] = call.account]
  BY <1>3 DEF StepsInv, PurchaseTypeOK, RateTypeOK
<1>5. CommittedRates' = CommittedRates /\ CommittedLamports' = CommittedLamports
  BY <1>1, <1>2, <1>4 DEF CommittedRates, CommittedLamports
<1> QED
  BY <1>5, SameCommitted DEF Refresh, UpdateExchangeRate

LEMMA TransferIsStutter ==
  ASSUME StepsInv, Transfer
  PROVE  UNCHANGED Committed!purchaseVars
<1>1. call \in Calls /\ call.done \in 0 .. 6 /\ call' = OneMore(call)
  BY TurnOfRole DEF StepsInv, CallOK, Transfer, OneMore
<1>2. /\ OneMore(call) \in Calls /\ OneMore(call).payer = call.payer
      /\ OneMore(call).account = call.account /\ OneMore(call).wallets = call.wallets
  BY <1>1, TurnOfRole DEF OneMore, Calls
<1>3. Running /\ Running'
  BY <1>1, <1>2, NoCallAssumption DEF Transfer, Running
<1>4. CommittedRates' = CommittedRates /\ CommittedLamports' = CommittedLamports
  BY <1>1, <1>2, <1>3 DEF CommittedRates, CommittedLamports, Transfer
<1> QED
  BY <1>4, SameCommitted DEF Transfer

LEMMA AbortIsStutter ==
  ASSUME StepsInv, Abort
  PROVE  UNCHANGED Committed!purchaseVars
<1>1. CommittedRates' = CommittedRates /\ CommittedLamports' = CommittedLamports
  BY DEF CommittedRates, CommittedLamports, Abort, Running
<1> QED
  BY <1>1, SameCommitted DEF Abort

\* The call returns: all it did is one purchase, at the rate and with the
\* lamports it began with.
LEMMA ReturnIsPurchase ==
  ASSUME StepsInv, Return
  PROVE  Committed!PurchaseNext
<1>1. /\ Running /\ call \in Calls /\ CallOK(call) /\ call.done = 7
      /\ call' = NoCall
      /\ exchange_rate' = exchange_rate /\ price_update' = price_update
      /\ fee_config' = fee_config /\ lamports' = lamports
  BY TurnOfRole DEF StepsInv, Return, CallOK, purchaseVars
<1> DEFINE u == call.payer
           C == [exchange_rate EXCEPT ![u] = call.account]
<1>2. /\ u \in Users /\ call.amount \in PurchaseAmounts /\ call.layout \in Layouts
      /\ call.eurAcc \in PriceAccounts /\ call.solAcc \in PriceAccounts
      /\ call.account \in ExchangeRates /\ call.account # NoAccount
  BY <1>1, CallFields, RateAccountAssumption
<1>3. /\ CommittedRates = C /\ CommittedLamports = call.wallets
      /\ CommittedRates' = exchange_rate /\ CommittedLamports' = lamports
  BY <1>1 DEF CommittedRates, CommittedLamports, Running
<1>4. /\ C[u] = call.account /\ exchange_rate \in [Users -> ExchangeRates \cup {NoAccount}]
      /\ C \in [Users -> ExchangeRates \cup {NoAccount}]
  BY <1>2 DEF StepsInv, PurchaseTypeOK, RateTypeOK
<1>5. /\ SEEDS_PROGRAM = RATE_PROGRAM /\ fee_config # NoAccount
      /\ call.account.bump = CanonicalBump[u] /\ call.rate = call.account.rate
      /\ lamports = PartPaid(call) /\ Total(Made(call)) <= call.wallets[u]
      /\ Refreshed(call)
  BY <1>1 DEF CallOK
<1>6. Committed!CoinSeedsOk(u)
  BY <1>2, <1>3, <1>4, <1>5
  DEF Committed!CoinSeedsOk, Committed!SeedsOk, CommittedRates
<1>7. Committed!UpdateAccepted(u, call.eurAcc, call.solAcc, EUR_USD_FEED, SOL_USD_FEED)
  BY <1>5, <1>6
  DEF Committed!UpdateAccepted, Committed!CoinSeedsOk, Committed!PriceOk, PriceOk, Refreshed
<1>8. Committed!UpdateExchangeRate(u, call.eurAcc, call.solAcc, EUR_USD_FEED, SOL_USD_FEED)
  <2>1. PICK err \in F64Errors :
          exchange_rate[u] = [call.account EXCEPT !.rate =
              RateValue(price_update[call.eurAcc], price_update[call.solAcc], err)]
    BY <1>5 DEF Refreshed
  <2> DEFINE v == RateValue(price_update[call.eurAcc], price_update[call.solAcc], err)
  <2>2. exchange_rate[u] = [call.account EXCEPT !.rate = v]
    BY <2>1
  <2> HIDE DEF v
  <2>3. exchange_rate = [C EXCEPT ![u].rate = v]
    BY <1>2, <1>4, <2>2
  <2>4. CommittedRates' = [CommittedRates EXCEPT ![u].rate = v]
    BY <1>3, <2>3
  <2>5. v = Committed!RateValue(price_update[call.eurAcc], price_update[call.solAcc], err)
    BY RateValueCommitted DEF v
  <2>6. err \in Committed!F64Errors
    BY DEF Committed!F64Errors, F64Errors
  <2> QED
    BY <1>1, <1>7, <2>4, <2>5, <2>6 DEF Committed!UpdateExchangeRate, CommittedRates
<1>9. Made(call) = call.charge
  BY <1>1, MadeAll
<1>10. /\ call.charge \in Charges(call.amount, C[u].rate, fee_config)
       /\ Total(call.charge) <= CommittedLamports[u]
  BY <1>3, <1>4, <1>5, <1>9 DEF Refreshed
<1>11. CommittedLamports' = Committed!Paid(u, call.charge, call.layout)
  <2>1. lamports = [acc \in Wallets |->
            IF acc = u THEN call.wallets[acc] - Total(call.charge)
            ELSE call.wallets[acc] + Received(acc, call.charge, call.layout)]
    BY <1>5, <1>9 DEF PartPaid
  <2>2. Committed!Paid(u, call.charge, call.layout) = [acc \in Wallets |->
            IF acc = u THEN CommittedLamports[acc] - Total(call.charge)
            ELSE CommittedLamports[acc] + Received(acc, call.charge, call.layout)]
    BY TotalCommitted, ReceivedCommitted
    DEF Committed!Paid, Committed!Wallets, Wallets, CommittedLamports
  <2> QED
    BY <1>3, <2>1, <2>2
<1>12. Committed!PurchaseAccepted(u, call.charge, call.eurAcc, call.solAcc)
  BY <1>5, <1>6, <1>7, <1>10, TotalCommitted
  DEF Committed!PurchaseAccepted, CommittedLamports
<1>13. Committed!PurchaseWithFee(u, call.amount, call.layout, call.eurAcc, call.solAcc)
  <2>1. call.charge \in Committed!Charges(call.amount, CommittedRates[u].rate, fee_config)
    BY <1>3, <1>10, ChargesCommitted
  <2> QED
    BY <1>1, <1>5, <1>6, <1>8, <1>11, <1>12, <2>1
    DEF Committed!PurchaseWithFee, CommittedRates, CommittedLamports
<1> QED
  BY <1>2, <1>13 DEF Committed!PurchaseNext, Committed!PurchaseCalls

(***************************************************************************)
(* Other transactions: each is a step of Purchase also to an observer who  *)
(* does not see the running call.                                          *)
(***************************************************************************)
LEMMA OracleCommitted ==
  ASSUME Oracle, CommittedRates' = CommittedRates
  PROVE  Committed!Oracle
<1>1. CASE Tick
  BY <1>1 DEF Tick, Committed!Oracle, Committed!Tick, CommittedRates
<1>2. ASSUME NEW acc \in PriceAccounts, NEW price \in Prices, NEW exponent \in Exponents,
             NEW verified \in BOOLEAN, NEW age \in Ages,
             PostPrice(acc, price, exponent, verified, age)
      PROVE  Committed!Oracle
  <2>1. Committed!PostPrice(acc, price, exponent, verified, age)
    BY <1>2 DEF PostPrice, Committed!PostPrice, CommittedRates
  <2>2. age \in Committed!Ages
    BY DEF Ages, Committed!Ages
  <2> QED
    BY <2>1, <2>2 DEF Committed!Oracle
<1> QED
  BY <1>1, <1>2 DEF Oracle

LEMMA InitializeCommitted ==
  ASSUME NEW v \in Users, NEW bump \in Bumps, InitializeExchangeRate(v, bump),
         exchange_rate \in [Users -> ExchangeRates \cup {NoAccount}],
         CommittedRates[v] = exchange_rate[v],
         CommittedRates' = [CommittedRates EXCEPT ![v] = exchange_rate'[v]]
  PROVE  Committed!RateCalls
<1>1. exchange_rate'[v] = [rate |-> 0, user |-> v, bump |-> bump]
  BY DEF InitializeExchangeRate
<1>2. Committed!InitializeExchangeRate(v, bump)
  BY <1>1 DEF InitializeExchangeRate, Committed!InitializeExchangeRate, CommittedRates
<1> QED
  BY <1>2 DEF Committed!RateCalls

LEMMA UpdateCommitted ==
  ASSUME NEW v \in Users, NEW eurAcc \in PriceAccounts, NEW solAcc \in PriceAccounts,
         NEW eurFeed \in FeedIds, NEW solFeed \in FeedIds,
         UpdateExchangeRate(v, eurAcc, solAcc, eurFeed, solFeed),
         exchange_rate \in [Users -> ExchangeRates \cup {NoAccount}],
         CommittedRates[v] = exchange_rate[v],
         CommittedRates' = [CommittedRates EXCEPT ![v] = exchange_rate'[v]]
  PROVE  Committed!RateCalls
<1> DEFINE Value(err) == RateValue(price_update[eurAcc], price_update[solAcc], err)
<1>1. PICK err \in F64Errors : exchange_rate' = [exchange_rate EXCEPT ![v].rate = Value(err)]
  BY DEF UpdateExchangeRate
<1>2. Committed!RateValue(price_update[eurAcc], price_update[solAcc], err) = Value(err)
  BY RateValueCommitted
<1>3. err \in Committed!F64Errors
  BY DEF Committed!F64Errors, F64Errors
<1> DEFINE value == Value(err)
<1>4. exchange_rate' = [exchange_rate EXCEPT ![v].rate = value]
  BY <1>1
<1> HIDE DEF value
<1>5. exchange_rate'[v] = [exchange_rate[v] EXCEPT !.rate = value]
  BY <1>4
<1>6. CommittedRates' = [CommittedRates EXCEPT ![v].rate = value]
  BY <1>5
<1>7. Committed!UpdateAccepted(v, eurAcc, solAcc, eurFeed, solFeed)
  BY DEF UpdateExchangeRate, UpdateAccepted, SeedsOk, PriceOk, CommittedRates,
         Committed!UpdateAccepted, Committed!SeedsOk, Committed!PriceOk
<1>8. price_update' = price_update
  BY DEF UpdateExchangeRate
<1>9. Committed!UpdateExchangeRate(v, eurAcc, solAcc, eurFeed, solFeed)
  BY <1>2, <1>3, <1>6, <1>7, <1>8 DEF Committed!UpdateExchangeRate, CommittedRates, value
<1> QED
  BY <1>9 DEF Committed!RateCalls

\* A call of the rate program leaves the accounts of the other users alone,
\* and the committed rates change where the rates do.
LEMMA OneRateCommitted ==
  ASSUME StepsInv, UNCHANGED call, NEW v \in Users, NEW new,
         exchange_rate' = [exchange_rate EXCEPT ![v] = new],
         Running => v # call.payer
  PROVE  /\ CommittedRates[v] = exchange_rate[v]
         /\ CommittedRates' = [CommittedRates EXCEPT ![v] = exchange_rate'[v]]
<1>1. exchange_rate \in [Users -> ExchangeRates \cup {NoAccount}] /\ exchange_rate'[v] = new
  BY DEF StepsInv, PurchaseTypeOK, RateTypeOK
<1>2. CASE ~Running
  BY <1>1, <1>2 DEF CommittedRates, Running
<1>3. CASE Running
  <2>1. v # call.payer /\ call.payer \in Users /\ call' = call /\ Running'
    BY <1>3, CallFields DEF StepsInv, CallOK, Running
  <2> DEFINE C == [exchange_rate EXCEPT ![call.payer] = call.account]
  <2>2. CommittedRates = C /\ CommittedRates' = [exchange_rate' EXCEPT ![call.payer] = call.account]
    BY <1>3, <2>1 DEF CommittedRates
  <2>3. C[v] = exchange_rate[v]
    BY <1>1, <2>1
  <2>4. [exchange_rate' EXCEPT ![call.payer] = call.account] = [C EXCEPT ![v] = new]
    BY <1>1, <2>1
  <2> QED
    BY <1>1, <2>2, <2>3, <2>4
<1> QED
  BY <1>2, <1>3

LEMMA ElsewhereIsStep ==
  ASSUME StepsInv, Elsewhere
  PROVE  Committed!PurchaseNext \/ UNCHANGED Committed!purchaseVars
<1>1. /\ call' = call
      /\ exchange_rate \in [Users -> ExchangeRates \cup {NoAccount}]
      /\ Running => exchange_rate'[call.payer] = exchange_rate[call.payer]
      /\ Running => call.payer \in Users /\ fee_config # NoAccount
  BY CallFields DEF Elsewhere, StepsInv, PurchaseTypeOK, RateTypeOK, CallOK
<1>2. ASSUME lamports' = lamports PROVE CommittedLamports' = CommittedLamports
  BY <1>1, <1>2 DEF CommittedLamports, Running
<1>3. ASSUME exchange_rate' = exchange_rate PROVE CommittedRates' = CommittedRates
  BY <1>1, <1>3 DEF CommittedRates, Running
<1>4. ASSUME NEW cfg \in FeeConfigs, InitializeFeeConfig(cfg)
      PROVE  Committed!PurchaseNext
  <2>1. /\ fee_config = NoAccount /\ fee_config' = cfg /\ price_update' = price_update
        /\ CommittedRates' = CommittedRates /\ CommittedLamports' = CommittedLamports
    BY <1>2, <1>3, <1>4 DEF InitializeFeeConfig
  <2>2. Committed!InitializeFeeConfig(cfg)
    BY <2>1 DEF Committed!InitializeFeeConfig, CommittedRates, CommittedLamports
  <2> QED
    BY <2>2 DEF Committed!PurchaseNext, Committed!PurchaseCalls
<1>5. ASSUME RateStep PROVE Committed!PurchaseNext \/ UNCHANGED Committed!purchaseVars
  <2>1. fee_config' = fee_config /\ CommittedLamports' = CommittedLamports
    BY <1>2, <1>5 DEF RateStep
  <2>2. ASSUME Committed!Oracle \/ Committed!RateCalls PROVE Committed!PurchaseNext
    BY <2>1, <2>2
    DEF Committed!PurchaseNext, Committed!RateStep, Committed!RateNext, CommittedLamports
  <2>3. CASE Oracle
    <3>1. exchange_rate' = exchange_rate
      BY <2>3 DEF Oracle, PostPrice, Tick
    <3> QED
      BY <1>3, <2>2, <2>3, <3>1, OracleCommitted
  <2>4. ASSUME price_update' = price_update,
               Running,
               NEW new, exchange_rate' = [exchange_rate EXCEPT ![call.payer] = new]
        PROVE  UNCHANGED Committed!purchaseVars
    <3>1. exchange_rate' = exchange_rate
      <4>1. new = exchange_rate[call.payer]
        BY <1>1, <2>4
      <4> QED
        BY <1>1, <2>4, <4>1
    <3> QED
      BY <1>3, <2>1, <2>4, <3>1, SameCommitted
  <2>5. ASSUME NEW v \in Users, NEW bump \in Bumps, InitializeExchangeRate(v, bump)
        PROVE  Committed!PurchaseNext \/ UNCHANGED Committed!purchaseVars
    <3>1. PICK new : exchange_rate' = [exchange_rate EXCEPT ![v] = new]
      BY <2>5 DEF InitializeExchangeRate
    <3>2. CASE Running /\ v = call.payer
      BY <2>4, <2>5, <3>1, <3>2 DEF InitializeExchangeRate
    <3>3. CASE ~(Running /\ v = call.payer)
      BY <1>1, <2>2, <2>5, <3>1, <3>3, OneRateCommitted, InitializeCommitted
    <3> QED
      BY <3>2, <3>3
  <2>6. ASSUME NEW v \in Users, NEW eurAcc \in PriceAccounts, NEW solAcc \in PriceAccounts,
               NEW eurFeed \in FeedIds, NEW solFeed \in FeedIds,
               UpdateExchangeRate(v, eurAcc, solAcc, eurFeed, solFeed)
        PROVE  Committed!PurchaseNext \/ UNCHANGED Committed!purchaseVars
    <3>1. PICK new : exchange_rate' = [exchange_rate EXCEPT ![v] = new]
      <4>1. PICK val : exchange_rate' = [exchange_rate EXCEPT ![v].rate = val]
        BY <2>6 DEF UpdateExchangeRate
      <4>2. exchange_rate' = [exchange_rate EXCEPT ![v] = [exchange_rate[v] EXCEPT !.rate = val]]
        BY <4>1
      <4> QED
        BY <4>2
    <3>2. CASE Running /\ v = call.payer
      BY <2>4, <2>6, <3>1, <3>2 DEF UpdateExchangeRate
    <3>3. CASE ~(Running /\ v = call.payer)
      <4>1. /\ CommittedRates[v] = exchange_rate[v]
            /\ CommittedRates' = [CommittedRates EXCEPT ![v] = exchange_rate'[v]]
        BY <1>1, <3>1, <3>3, OneRateCommitted
      <4> QED
        BY <1>1, <2>2, <2>6, <4>1, UpdateCommitted
    <3> QED
      BY <3>2, <3>3
  <2> QED
    BY <1>5, <2>3, <2>5, <2>6 DEF RateStep, RateNext, RateCalls
<1> QED
  BY <1>4, <1>5 DEF Elsewhere

LEMMA CommittedStep ==
  StepsInv /\ [StepsNext]_stepsVars => [Committed!PurchaseNext]_(Committed!purchaseVars)
<1> SUFFICES ASSUME StepsInv, [StepsNext]_stepsVars
             PROVE  Committed!PurchaseNext \/ UNCHANGED Committed!purchaseVars
  OBVIOUS
<1>1. CASE UNCHANGED stepsVars
  <2>1. CommittedRates' = CommittedRates /\ CommittedLamports' = CommittedLamports
    BY <1>1 DEF stepsVars, CommittedRates, CommittedLamports, Running
  <2> QED
    BY <1>1, <2>1, SameCommitted DEF stepsVars
<1> QED
  BY <1>1, EnterIsStutter, RefreshIsStutter, TransferIsStutter, ReturnIsPurchase,
     AbortIsStutter, ElsewhereIsStep DEF StepsNext

\* To everybody else a purchase is one step or none: what its refresh wrote and
\* its transfers moved is seen together with its return, or never
\* (lib.rs:152-297), however other transactions run between its transfers.
THEOREM CallsAreAtomic == StepsSpec => ImplementsPurchase
<1>1. StepsInit => Committed!PurchaseInit
  BY CommittedInit
<1> QED
  BY <1>1, InvAlways, CommittedStep, PTL
  DEF StepsSpec, ImplementsPurchase, Committed!PurchaseSpec

=============================================================================
