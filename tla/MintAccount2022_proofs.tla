----------------------- MODULE MintAccount2022_proofs -----------------------
(***************************************************************************)
(* Theorems about create_mint_account: the accounts it creates are exempt  *)
(* from rent for every table of minimum balances, and a key pair serves    *)
(* for one mint.                                                           *)
(***************************************************************************)
EXTENDS MintAccount2022, TLAPS

\* The address sets as the assumptions describe them.
LEMMA AddressFacts ==
    /\ \A m \in MintAddresses, u \in Users : AtaOf[m][u] \in AtaAddresses
    /\ \A m \in MintAddresses : MetasOf[m] \in MetasAddresses
    /\ Users \cap MintAddresses = {} /\ Users \cap AtaAddresses = {}
    /\ Users \cap MetasAddresses = {} /\ MintAddresses \cap AtaAddresses = {}
    /\ MintAddresses \cap MetasAddresses = {} /\ AtaAddresses \cap MetasAddresses = {}
    /\ Addresses = Users \cup MintAddresses \cup AtaAddresses \cup MetasAddresses
BY MintAccountAssumption DEF Addresses

\* Every length in use has a minimum balance.
LEMMA RentFacts ==
    /\ MinimumBalance[BASE_LEN] \in Nat
    /\ MinimumBalance[ATA_LEN] \in Nat
    /\ MinimumBalance[METAS_LEN] \in Nat
    /\ \A n \in MetadataLens : MinimumBalance[BASE_LEN + n] \in Nat
BY RentAssumption

\* What `init` leaves in an account covers the account's length.
LEMMA EndowedCovers ==
    ASSUME MintTypeOK, NEW addr \in Addresses, NEW len, MinimumBalance[len] \in Nat
    PROVE  /\ Missing(addr, len) \in Nat
           /\ Endowed(addr, len) \in Nat
           /\ Endowed(addr, len) >= MinimumBalance[len]
BY DEF MintTypeOK, Missing, Endowed

\* The four parts of what a creation costs.
LEMMA CostIsNatural ==
    ASSUME MintTypeOK, NEW payer \in Users, NEW receiver \in Users, NEW m \in MintAddresses,
           NEW n \in MetadataLens, CreateAccepted(payer, receiver, m, n)
    PROVE  /\ ExtraLamports(m, n) \in Nat
           /\ Cost(m, receiver, n) \in Nat
           /\ Cost(m, receiver, n) <= funds[payer]
           /\ Endowed(m, BASE_LEN) + ExtraLamports(m, n) = MinimumBalance[BASE_LEN + n]
<1> DEFINE ata == AtaOf[m][receiver]
           metas == MetasOf[m]
<1>1. m \in Addresses /\ ata \in Addresses /\ metas \in Addresses
  BY AddressFacts
<1>2. Missing(m, BASE_LEN) \in Nat /\ Endowed(m, BASE_LEN) \in Nat
  BY <1>1, RentFacts, EndowedCovers
<1>3. Missing(ata, ATA_LEN) \in Nat
  BY <1>1, RentFacts, EndowedCovers
<1>4. Missing(metas, METAS_LEN) \in Nat
  BY <1>1, RentFacts, EndowedCovers
<1>5. ExtraLamports(m, n) \in Nat
  BY <1>2, RentFacts DEF ExtraLamports, CreateAccepted
<1>6. Cost(m, receiver, n) \in Nat
  BY <1>2, <1>3, <1>4, <1>5 DEF Cost
<1>7. Endowed(m, BASE_LEN) + ExtraLamports(m, n) = MinimumBalance[BASE_LEN + n]
  BY <1>2, RentFacts DEF ExtraLamports
<1> QED
  BY <1>5, <1>6, <1>7 DEF CreateAccepted

\* The new balances of a creation, address by address.
LEMMA CreationFunds ==
    ASSUME MintTypeOK, NEW payer \in Users, NEW authority \in Users, NEW receiver \in Users,
           NEW m \in MintAddresses, NEW n \in MetadataLens,
           CreateMintAccount(payer, authority, receiver, m, n)
    PROVE  /\ funds' \in [Addresses -> Nat]
           /\ funds'[m] = MinimumBalance[BASE_LEN + n]
           /\ funds'[AtaOf[m][receiver]] >= MinimumBalance[ATA_LEN]
           /\ funds'[MetasOf[m]] >= MinimumBalance[METAS_LEN]
           /\ \A addr \in Addresses \ {payer, m, AtaOf[m][receiver], MetasOf[m]} :
                 funds'[addr] = funds[addr]
<1> DEFINE ata == AtaOf[m][receiver]
           metas == MetasOf[m]
<1>1. ata \in AtaAddresses /\ metas \in MetasAddresses
  BY AddressFacts
<1>2. /\ payer # m /\ payer # ata /\ payer # metas
      /\ m # ata /\ m # metas /\ ata # metas
      /\ {payer, m, ata, metas} \subseteq Addresses
  BY <1>1, AddressFacts
<1>3. /\ Endowed(ata, ATA_LEN) \in Nat /\ Endowed(ata, ATA_LEN) >= MinimumBalance[ATA_LEN]
      /\ Endowed(metas, METAS_LEN) \in Nat
      /\ Endowed(metas, METAS_LEN) >= MinimumBalance[METAS_LEN]
  BY <1>2, RentFacts, EndowedCovers
<1>4. /\ Cost(m, receiver, n) \in Nat /\ Cost(m, receiver, n) <= funds[payer]
      /\ Endowed(m, BASE_LEN) + ExtraLamports(m, n) = MinimumBalance[BASE_LEN + n]
  BY CostIsNatural DEF CreateMintAccount
<1>5. funds' = [addr \in Addresses |->
            CASE addr = payer -> funds[addr] - Cost(m, receiver, n)
              [] addr = m -> Endowed(m, BASE_LEN) + ExtraLamports(m, n)
              [] addr = AtaOf[m][receiver] -> Endowed(addr, ATA_LEN)
              [] addr = MetasOf[m] -> Endowed(addr, METAS_LEN)
              [] OTHER -> funds[addr]]
  BY DEF CreateMintAccount
<1>6. /\ funds'[payer] = funds[payer] - Cost(m, receiver, n)
      /\ funds'[m] = MinimumBalance[BASE_LEN + n]
      /\ funds'[ata] = Endowed(ata, ATA_LEN)
      /\ funds'[metas] = Endowed(metas, METAS_LEN)
      /\ \A addr \in Addresses \ {payer, m, ata, metas} : funds'[addr] = funds[addr]
  BY <1>2, <1>4, <1>5
<1>7. ASSUME NEW addr \in Addresses PROVE funds'[addr] \in Nat
  <2>1. CASE addr = payer
    BY <2>1, <1>2, <1>4, <1>6 DEF MintTypeOK
  <2>2. CASE addr \in {m, ata, metas}
    BY <2>2, <1>3, <1>6, RentFacts
  <2>3. CASE addr \notin {payer, m, ata, metas}
    BY <2>3, <1>6 DEF MintTypeOK
  <2> QED
    BY <2>1, <2>2, <2>3
<1>8. funds' \in [Addresses -> Nat]
  <2>1. funds' = [addr \in Addresses |-> funds'[addr]]
    BY <1>5
  <2> QED
    BY <2>1, <1>7
<1> QED
  BY <1>3, <1>6, <1>8

-----------------------------------------------------------------------------
\* Type correctness and the rent together: the payer's balance stays natural
\* because the difference of the top-up does.
MintInv == MintTypeOK /\ RentExempt

LEMMA MintInitInv == MintInit => MintInv
BY RentAssumption, MintAccountAssumption DEF MintInit, MintInv, MintTypeOK, RentExempt, Exists

LEMMA CreateInv ==
    ASSUME MintInv, NEW payer \in Users, NEW authority \in Users, NEW receiver \in Users,
           NEW m \in MintAddresses, NEW n \in MetadataLens,
           CreateMintAccount(payer, authority, receiver, m, n)
    PROVE  MintInv'
<1> DEFINE ata == AtaOf[m][receiver]
           metas == MetasOf[m]
           new == [len |-> BASE_LEN + n, authority |-> [e \in Extensions |-> authority]]
<1>1. MintTypeOK
  BY DEF MintInv
<1>2. /\ funds' \in [Addresses -> Nat]
      /\ funds'[m] = MinimumBalance[BASE_LEN + n]
      /\ funds'[ata] >= MinimumBalance[ATA_LEN]
      /\ funds'[metas] >= MinimumBalance[METAS_LEN]
      /\ \A addr \in Addresses \ {payer, m, ata, metas} : funds'[addr] = funds[addr]
  BY <1>1, CreationFunds
<1>3. mint_2022' = [mint_2022 EXCEPT ![m] = new] /\ opened' = opened \cup {ata, metas}
  BY DEF CreateMintAccount
<1>4. new \in Mints2022 /\ new # NoAccount
  BY MintAccountAssumption DEF Mints2022
<1>5. ata \in AtaAddresses /\ metas \in MetasAddresses
  BY AddressFacts
<1>6. MintTypeOK'
  BY <1>1, <1>2, <1>3, <1>4, <1>5 DEF MintTypeOK
<1>7. ASSUME NEW k \in MintAddresses, Exists(k)'
      PROVE  funds'[k] >= MinimumBalance[mint_2022'[k].len]
  <2>1. CASE k = m
    <3>1. mint_2022'[k].len = BASE_LEN + n
      BY <2>1, <1>1, <1>3 DEF MintTypeOK
    <3> QED
      BY <3>1, <2>1, <1>2, RentFacts
  <2>2. CASE k # m
    <3>1. mint_2022'[k] = mint_2022[k] /\ Exists(k)
      BY <2>2, <1>1, <1>3, <1>7 DEF MintTypeOK, Exists
    <3>2. funds'[k] = funds[k]
      BY <2>2, <1>2, <1>5, AddressFacts
    <3> QED
      BY <3>1, <3>2 DEF MintInv, RentExempt
  <2> QED
    BY <2>1, <2>2
<1>8. ASSUME NEW addr \in opened' \cap AtaAddresses
      PROVE  funds'[addr] >= MinimumBalance[ATA_LEN]
  <2>1. CASE addr = ata
    BY <2>1, <1>2
  <2>2. CASE addr # ata
    <3>1. addr \in opened /\ addr \notin {payer, m, ata, metas} /\ addr \in Addresses
      BY <2>2, <1>3, <1>5, AddressFacts
    <3> QED
      BY <3>1, <1>2 DEF MintInv, RentExempt
  <2> QED
    BY <2>1, <2>2
<1>9. ASSUME NEW addr \in opened' \cap MetasAddresses
      PROVE  funds'[addr] >= MinimumBalance[METAS_LEN]
  <2>1. CASE addr = metas
    BY <2>1, <1>2
  <2>2. CASE addr # metas
    <3>1. addr \in opened /\ addr \notin {payer, m, ata, metas} /\ addr \in Addresses
      BY <2>2, <1>3, <1>5, AddressFacts
    <3> QED
      BY <3>1, <1>2 DEF MintInv, RentExempt
  <2> QED
    BY <2>1, <2>2
<1>10. RentExempt'
  BY <1>7, <1>8, <1>9 DEF RentExempt
<1> QED
  BY <1>6, <1>10 DEF MintInv

LEMMA SendInv ==
    ASSUME MintInv, NEW from \in Addresses, NEW to \in Addresses, SendLamport(from, to)
    PROVE  MintInv'
<1>1. /\ funds \in [Addresses -> Nat]
      /\ funds' = [funds EXCEPT ![from] = @ - 1, ![to] = @ + 1]
      /\ mint_2022' = mint_2022 /\ opened' = opened
      /\ from # to /\ funds[from] > 0
  BY DEF MintInv, MintTypeOK, SendLamport
<1>2. funds' \in [Addresses -> Nat]
  BY <1>1
<1>3. ASSUME NEW addr \in Addresses, addr # from PROVE funds'[addr] >= funds[addr]
  BY <1>1, <1>3
<1>4. from \notin opened /\ (from \in MintAddresses => ~Exists(from))
  BY AddressFacts DEF SendLamport, MintInv, MintTypeOK
<1>5. MintTypeOK'
  BY <1>1, <1>2 DEF MintInv, MintTypeOK
<1>6. ASSUME NEW k \in MintAddresses, Exists(k)'
      PROVE  funds'[k] >= MinimumBalance[mint_2022'[k].len]
  <2>1. Exists(k) /\ k # from /\ k \in Addresses /\ mint_2022[k] \in Mints2022
    BY <1>1, <1>4, <1>6, AddressFacts DEF Exists, MintInv, MintTypeOK
  <2>2. PICK n \in MetadataLens : mint_2022[k].len = BASE_LEN + n
    BY <2>1 DEF Mints2022
  <2>3. funds[k] >= MinimumBalance[mint_2022[k].len] /\ funds[k] \in Nat
    BY <2>1, <1>1 DEF MintInv, RentExempt
  <2>4. funds'[k] >= funds[k] /\ funds'[k] \in Nat
    BY <2>1, <1>2, <1>3
  <2>5. MinimumBalance[mint_2022[k].len] \in Nat
    BY <2>2, RentFacts
  <2> QED
    BY <2>3, <2>4, <2>5, <1>1
<1>7. ASSUME NEW addr \in opened' PROVE addr \in opened /\ funds'[addr] >= funds[addr]
                                        /\ funds'[addr] \in Nat /\ funds[addr] \in Nat
  BY <1>1, <1>2, <1>3, <1>4, AddressFacts DEF MintInv, MintTypeOK
<1>8. RentExempt'
  BY <1>6, <1>7, RentFacts DEF MintInv, RentExempt
<1> QED
  BY <1>5, <1>8 DEF MintInv

LEMMA OthersInv ==
    ASSUME MintInv,
           \/ \E m \in MintAddresses, e \in Extensions, u \in Users \cup {NoAccount} :
                 SetAuthority(m, e, u)
           \/ \E m \in MintAddresses, to \in Users : CloseMint2022(m, to)
           \/ \E addr \in AtaAddresses, to \in Users : CloseAta(addr, to)
    PROVE  MintInv'
<1> USE DEF MintInv, MintTypeOK
<1>1. ASSUME NEW m \in MintAddresses, NEW e \in Extensions, NEW u \in Users \cup {NoAccount},
             SetAuthority(m, e, u)
      PROVE  MintInv'
  <2>1. mint_2022[m] \in Mints2022
    BY <1>1 DEF SetAuthority, Exists
  <2>2. mint_2022' = [mint_2022 EXCEPT ![m].authority[e] = u] /\ opened' = opened /\ funds' = funds
    BY <1>1 DEF SetAuthority
  <2>3. mint_2022'[m] \in Mints2022 /\ mint_2022'[m].len = mint_2022[m].len
    BY <2>1, <2>2 DEF Mints2022
  <2>4. MintTypeOK'
    BY <2>2, <2>3
  <2>5. \A k \in MintAddresses :
           Exists(k)' => Exists(k) /\ mint_2022'[k].len = mint_2022[k].len
    BY <2>1, <2>2, <2>3, MintAccountAssumption DEF Exists
  <2>6. RentExempt'
    BY <2>2, <2>5 DEF RentExempt
  <2> QED
    BY <2>4, <2>6
<1>2. ASSUME NEW m \in MintAddresses, NEW to \in Users, CloseMint2022(m, to)
      PROVE  MintInv'
  <2>1. /\ mint_2022' = [mint_2022 EXCEPT ![m] = NoAccount] /\ opened' = opened
        /\ funds' = [funds EXCEPT ![m] = 0, ![to] = @ + funds[m]]
    BY <1>2 DEF CloseMint2022
  <2>2. m # to /\ m \in Addresses /\ to \in Addresses
    BY AddressFacts
  <2>3. MintTypeOK'
    BY <2>1, <2>2
  <2>4. \A addr \in Addresses \ {m, to} : funds'[addr] = funds[addr]
    BY <2>1
  <2>5. \A k \in MintAddresses :
           Exists(k)' => Exists(k) /\ k \notin {m, to} /\ mint_2022'[k] = mint_2022[k]
    BY <2>1, AddressFacts DEF Exists
  <2>6. \A addr \in opened : addr \in Addresses \ {m, to}
    BY AddressFacts
  <2>7. RentExempt'
    BY <2>1, <2>4, <2>5, <2>6, AddressFacts DEF RentExempt
  <2> QED
    BY <2>3, <2>7
<1>3. ASSUME NEW addr \in AtaAddresses, NEW to \in Users, CloseAta(addr, to)
      PROVE  MintInv'
  <2>1. /\ mint_2022' = mint_2022 /\ opened' = opened \ {addr}
        /\ funds' = [funds EXCEPT ![addr] = 0, ![to] = @ + funds[addr]]
    BY <1>3 DEF CloseAta
  <2>2. addr # to /\ addr \in Addresses /\ to \in Addresses
    BY AddressFacts
  <2>3. MintTypeOK'
    BY <2>1, <2>2
  <2>4. \A a \in Addresses \ {addr, to} : funds'[a] = funds[a]
    BY <2>1
  <2>5. \A k \in MintAddresses : (Exists(k)' => Exists(k)) /\ k \in Addresses \ {addr, to}
    BY <2>1, AddressFacts DEF Exists
  <2>6. \A a \in opened' : a \in opened /\ a \in Addresses \ {addr, to}
    BY <2>1, AddressFacts
  <2>7. RentExempt'
    BY <2>1, <2>4, <2>5, <2>6 DEF RentExempt
  <2> QED
    BY <2>3, <2>7
<1> QED
  BY <1>1, <1>2, <1>3

LEMMA MintStepInv == MintInv /\ [MintNext]_mintVars => MintInv'
<1> SUFFICES ASSUME MintInv, [MintNext]_mintVars PROVE MintInv'
  OBVIOUS
<1>1. CASE UNCHANGED mintVars
  BY <1>1 DEF mintVars, MintInv, MintTypeOK, RentExempt, Exists
<1>2. CASE \E payer, authority, receiver \in Users, m \in MintAddresses, n \in MetadataLens :
              CreateMintAccount(payer, authority, receiver, m, n)
  BY <1>2, CreateInv
<1>3. CASE \E from, to \in Addresses : SendLamport(from, to)
  BY <1>3, SendInv
<1>4. CASE \/ \E m \in MintAddresses, e \in Extensions, u \in Users \cup {NoAccount} :
                 SetAuthority(m, e, u)
           \/ \E m \in MintAddresses, to \in Users : CloseMint2022(m, to)
           \/ \E addr \in AtaAddresses, to \in Users : CloseAta(addr, to)
  BY <1>4, OthersInv
<1> QED
  BY <1>1, <1>2, <1>3, <1>4 DEF MintNext

-----------------------------------------------------------------------------
\* The payer of a mint account is never charged more than it has, for every
\* rent (instructions.rs:96-136, utils.rs:30-37).
THEOREM MintTypeCorrect == MintSpec => []MintTypeOK
<1>1. MintInv => MintTypeOK
  BY DEF MintInv
<1> QED
  BY MintInitInv, MintStepInv, <1>1, PTL DEF MintSpec

\* Every account of create_mint_account is exempt from rent for as long as it
\* exists, whatever its address held before and whatever the length of the
\* metadata (utils.rs:25-38).
THEOREM AlwaysRentExempt == MintSpec => []RentExempt
<1>1. MintInv => RentExempt
  BY DEF MintInv
<1> QED
  BY MintInitInv, MintStepInv, <1>1, PTL DEF MintSpec

\* No call creates a mint at an address that has its extra-metas account, and
\* nothing closes that account (instructions.rs:129-136).
THEOREM OneMintPerKey == MintSpec => NeverRecreated
<1>1. ASSUME MintInv, [MintNext]_mintVars, NEW m \in MintAddresses,
             MetasOf[m] \in opened, ~Exists(m)
      PROVE  ~Exists(m)'
  <2> USE DEF MintInv, MintTypeOK, Exists
  <2>1. CASE UNCHANGED mintVars
    BY <2>1, <1>1 DEF mintVars
  <2>2. ASSUME NEW payer \in Users, NEW authority \in Users, NEW receiver \in Users,
               NEW k \in MintAddresses, NEW n \in MetadataLens,
               CreateMintAccount(payer, authority, receiver, k, n)
        PROVE  ~Exists(m)'
    <3>1. k # m
      BY <2>2, <1>1 DEF CreateMintAccount, CreateAccepted
    <3> QED
      BY <3>1, <2>2, <1>1 DEF CreateMintAccount
  <2>3. ASSUME NEW from \in Addresses, NEW to \in Addresses, SendLamport(from, to)
        PROVE  ~Exists(m)'
    BY <2>3, <1>1 DEF SendLamport
  <2>4. ASSUME NEW k \in MintAddresses, NEW e \in Extensions, NEW u \in Users \cup {NoAccount},
               SetAuthority(k, e, u)
        PROVE  ~Exists(m)'
    <3>1. k # m
      BY <2>4, <1>1 DEF SetAuthority
    <3> QED
      BY <3>1, <2>4, <1>1 DEF SetAuthority
  <2>5. ASSUME NEW k \in MintAddresses, NEW to \in Users, CloseMint2022(k, to)
        PROVE  ~Exists(m)'
    BY <2>5, <1>1 DEF CloseMint2022
  <2>6. ASSUME NEW addr \in AtaAddresses, NEW to \in Users, CloseAta(addr, to)
        PROVE  ~Exists(m)'
    BY <2>6, <1>1 DEF CloseAta
  <2> QED
    BY <1>1, <2>1, <2>2, <2>3, <2>4, <2>5, <2>6 DEF MintNext
<1>2. MintInv /\ [MintNext]_mintVars =>
        [\A m \in MintAddresses : MetasOf[m] \in opened /\ ~Exists(m) => ~Exists(m)']_mintVars
  BY <1>1
<1> QED
  BY MintInitInv, MintStepInv, <1>2, PTL DEF MintSpec, NeverRecreated

\* Whatever an address held before, the mint created there holds the lamports
\* rent asks for, for the length its metadata gave it, and its creator is the
\* signer that the constraints check accepts (utils.rs:25-38,
\* instructions.rs:109-118, 168-177).
THEOREM CreatedWithItsRent == MintSpec => CreatedExactly
<1> DEFINE P(m) == /\ funds'[m] = MinimumBalance[mint_2022'[m].len]
                   /\ \E u \in Users : CheckAccepted(u, m)'
<1>1. ASSUME MintInv, [MintNext]_mintVars, NEW m \in MintAddresses,
             ~Exists(m), Exists(m)'
      PROVE  P(m)
  <2>1. mint_2022 \in [MintAddresses -> Mints2022 \cup {NoAccount}] /\ MintTypeOK
    BY <1>1 DEF MintInv, MintTypeOK
  <2>2. mint_2022'[m] # mint_2022[m]
    BY <1>1 DEF Exists
  <2>3. ASSUME NEW k \in MintAddresses, NEW e \in Extensions, NEW u \in Users \cup {NoAccount},
               SetAuthority(k, e, u)
        PROVE  FALSE
    <3>1. k # m
      BY <1>1, <2>3 DEF SetAuthority
    <3> QED
      BY <2>1, <2>2, <2>3, <3>1 DEF SetAuthority
  <2>4. ASSUME NEW k \in MintAddresses, NEW to \in Users, CloseMint2022(k, to)
        PROVE  FALSE
    BY <1>1, <2>1, <2>2, <2>4 DEF CloseMint2022, Exists
  <2>5. PICK payer \in Users, authority \in Users, receiver \in Users,
             k \in MintAddresses, n \in MetadataLens :
          CreateMintAccount(payer, authority, receiver, k, n)
    BY <1>1, <2>2, <2>3, <2>4 DEF MintNext, mintVars, SendLamport, CloseAta
  <2> DEFINE new == [len |-> BASE_LEN + n, authority |-> [e \in Extensions |-> authority]]
  <2>6. k = m /\ mint_2022'[m] = new
    BY <2>1, <2>2, <2>5 DEF CreateMintAccount
  <2>7. funds'[m] = MinimumBalance[BASE_LEN + n]
    BY <2>1, <2>5, <2>6, CreationFunds
  <2>8. CheckAccepted(authority, m)'
    BY <1>1, <2>6 DEF CheckAccepted
  <2> QED
    BY <2>6, <2>7, <2>8
<1>2. MintInv /\ [MintNext]_mintVars =>
        [\A m \in MintAddresses : ~Exists(m) /\ Exists(m)' => P(m)]_mintVars
  BY <1>1
<1> QED
  BY MintInitInv, MintStepInv, <1>2, PTL DEF MintSpec, CreatedExactly

=============================================================================
