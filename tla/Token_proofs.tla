---------------------------- MODULE Token_proofs ----------------------------
(***************************************************************************)
(* Theorems of Token: its type invariant, what no sequence of instructions *)
(* and wallet actions can do to the supply and the metadata, that it       *)
(* implements Coin, and that the supply is what the accounts hold.         *)
(***************************************************************************)
EXTENDS Token, SumLemmas, TLAPS

-----------------------------------------------------------------------------
\* TokenTypeOK is inductive.
LEMMA TokenTypeInit == TokenInit => TokenTypeOK
  BY DEF TokenInit, TokenTypeOK, Open

\* What an account that is open, and a mint that exists, look like.
LEMMA OpenAccount ==
  ASSUME TokenTypeOK, NEW acct \in TokenAddresses, Open(acct)
  PROVE  /\ mint \in Mints
         /\ token[acct] \in TokenAccounts
         /\ token[acct].amount \in U64
         /\ token[acct].amount \in Int
  BY SolanaAssumption DEF TokenTypeOK, Open, TokenAccounts, U64

LEMMA AmountsAreInts == \A n \in TokenAmounts : n \in U64 /\ n \in Nat
  BY SolanaAssumption, TokenAssumption DEF U64

\* Changing one account's amount to another u64 keeps the accounts well typed.
LEMMA SetAmount ==
  ASSUME NEW f \in [TokenAddresses -> TokenAccounts \cup {NoAccount}],
         NEW acct \in TokenAddresses, f[acct] \in TokenAccounts, NEW n \in U64
  PROVE  [f EXCEPT ![acct].amount = n] \in [TokenAddresses -> TokenAccounts \cup {NoAccount}]
<1>1. [f[acct] EXCEPT !.amount = n] \in TokenAccounts
  BY DEF TokenAccounts
<1> QED
  BY <1>1

LEMMA TransferKeepsType ==
  ASSUME TokenTypeOK, NEW u, NEW from \in TokenAddresses, NEW to \in TokenAddresses,
         NEW amount \in TokenAmounts, TransferAccepted(u, from, to, amount)
  PROVE  Moved(from, to, amount) \in [TokenAddresses -> TokenAccounts \cup {NoAccount}]
<1>1. CASE from = to
  BY <1>1 DEF Moved, TokenTypeOK
<1>2. CASE from # to
  <2>1. /\ token \in [TokenAddresses -> TokenAccounts \cup {NoAccount}]
        /\ token[from] \in TokenAccounts /\ token[to] \in TokenAccounts
        /\ token[from].amount \in U64 /\ token[to].amount \in U64
    BY OpenAccount DEF TransferAccepted, TokenTypeOK
  <2>2. token[from].amount - amount \in U64
    BY <2>1, AmountsAreInts, SolanaAssumption DEF TransferAccepted, U64
  <2>3. token[to].amount + amount \in U64
    BY <1>2, <2>1, AmountsAreInts, SolanaAssumption DEF TransferAccepted, U64
  <2> DEFINE mid == [token EXCEPT ![from].amount = token[from].amount - amount]
  <2>4. mid \in [TokenAddresses -> TokenAccounts \cup {NoAccount}] /\ mid[to] = token[to]
    BY <1>2, <2>1, <2>2, SetAmount
  <2>5. [mid EXCEPT ![to].amount = token[to].amount + amount]
            \in [TokenAddresses -> TokenAccounts \cup {NoAccount}]
    BY <2>1, <2>3, <2>4, SetAmount
  <2>6. Moved(from, to, amount)
          = [mid EXCEPT ![to].amount = token[to].amount + amount]
    BY <1>2, <2>1, <2>4 DEF Moved, TokenAccounts
  <2> QED
    BY <2>5, <2>6
<1> QED
  BY <1>1, <1>2

\* What the instructions that touch the mint leave there.
LEMMA Minted ==
  ASSUME TokenTypeOK, NEW u \in Users, NEW quantity \in TokenAmounts, MintTokens(u, quantity)
  PROVE  /\ mint \in Mints /\ mint' \in Mints
         /\ mint.authority = u /\ mint'.authority = mint.authority
         /\ mint'.supply = mint.supply + quantity
<1>1. mint \in Mints /\ mint.supply \in U64 /\ mint.supply + quantity <= U64_MAX
  BY DEF MintTokens, MintAccepted, Mints, TokenTypeOK
<1>2. mint.supply + quantity \in U64
  BY <1>1, AmountsAreInts, SolanaAssumption DEF U64
<1> QED
  BY <1>1, <1>2 DEF MintTokens, MintAccepted, Mints

LEMMA Burned ==
  ASSUME TokenTypeOK, NEW admin \in Signers, NEW acct \in TokenAddresses,
         NEW amount \in TokenAmounts, EmergencyBurn(admin, acct, amount)
  PROVE  /\ mint \in Mints /\ mint' \in Mints
         /\ mint'.authority = mint.authority
         /\ mint'.supply = mint.supply - amount
<1>1. mint \in Mints /\ mint.supply \in U64 /\ amount <= mint.supply
  BY OpenAccount DEF EmergencyBurn, BurnAccepted, Mints
<1>2. mint.supply - amount \in U64
  BY <1>1, AmountsAreInts, SolanaAssumption DEF U64
<1> QED
  BY <1>1, <1>2 DEF EmergencyBurn, Mints

LEMMA Revoked ==
  ASSUME TokenTypeOK, NEW u \in Users, RevokeMintAuthority(u)
  PROVE  /\ mint \in Mints /\ mint' \in Mints
         /\ mint'.authority = NoAccount
         /\ mint'.supply = mint.supply
<1>1. mint \in Mints
  BY DEF RevokeMintAuthority, RevokeAccepted, TokenTypeOK
<1> QED
  BY <1>1 DEF RevokeMintAuthority, Mints

LEMMA TokenTypeStep == TokenTypeOK /\ [TokenNext]_tokenVars => TokenTypeOK'
<1> SUFFICES ASSUME TokenTypeOK, [TokenNext]_tokenVars PROVE TokenTypeOK'
  OBVIOUS
<1> USE DEF TokenTypeOK, Open
<1>1. ASSUME NEW u \in Users, NEW value \in MetadataValues, InitToken(u, value)
      PROVE  TokenTypeOK'
  <2>1. mint' \in Mints /\ metadata' \in Metadatas
    BY <1>1, SolanaAssumption DEF InitToken, Mints, Metadatas, U64
  <2> QED
    BY <1>1, <2>1, TokenAccountAssumption DEF InitToken
<1>2. ASSUME NEW u \in Users, RevokeMintAuthority(u)
      PROVE  TokenTypeOK'
  <2>1. mint' \in Mints
    BY <1>2, Revoked
  <2> QED
    BY <1>2, <2>1, TokenAccountAssumption DEF RevokeMintAuthority
<1>3. ASSUME NEW u \in Users, NEW quantity \in TokenAmounts, MintTokens(u, quantity)
      PROVE  TokenTypeOK'
  <2>1. mint' \in Mints
    BY <1>3, Minted
  <2>2. /\ Ata[u] \in TokenAddresses
        /\ [owner |-> u, amount |-> quantity] \in TokenAccounts
    BY TokenAssumption, AmountsAreInts DEF TokenAddresses, TokenAccounts, Signers
  <2> QED
    BY <1>3, <2>1, <2>2, TokenAccountAssumption DEF MintTokens
<1>4. ASSUME NEW admin \in Signers, NEW acct \in TokenAddresses, NEW amount \in TokenAmounts,
             EmergencyBurn(admin, acct, amount)
      PROVE  TokenTypeOK'
  <2>1. /\ token[acct] \in TokenAccounts
        /\ token[acct].amount \in U64 /\ amount <= token[acct].amount
    BY <1>4, OpenAccount DEF EmergencyBurn, BurnAccepted
  <2>2. token[acct].amount - amount \in U64
    BY <2>1, AmountsAreInts, SolanaAssumption DEF U64
  <2>3. token' = [token EXCEPT ![acct].amount = token[acct].amount - amount]
    BY <1>4 DEF EmergencyBurn
  <2>4. token' \in [TokenAddresses -> TokenAccounts \cup {NoAccount}]
    BY <2>1, <2>2, <2>3, SetAmount
  <2>5. mint' \in Mints
    BY <1>4, Burned
  <2> QED
    BY <1>4, <2>4, <2>5, TokenAccountAssumption DEF EmergencyBurn
<1>5. ASSUME NEW u \in Signers, NEW key \in Signers \cup {MetadataKey},
             NEW value \in MetadataValues, UpdateMetadata(u, key, value)
      PROVE  TokenTypeOK'
  <2>1. metadata # NoAccount => [metadata EXCEPT !.value = value] \in Metadatas
    BY DEF Metadatas
  <2> QED
    BY <1>5, <2>1 DEF UpdateMetadata, UpdateMetadataAccepted
<1>6. ASSUME NEW acct \in TokenAddresses, NEW owner \in Signers, OpenTokenAccount(acct, owner)
      PROVE  TokenTypeOK'
  <2>1. [owner |-> owner, amount |-> 0] \in TokenAccounts
    BY SolanaAssumption DEF TokenAccounts, U64
  <2> QED
    BY <1>6, <2>1 DEF OpenTokenAccount
<1>7. ASSUME NEW u \in Signers, NEW from \in TokenAddresses, NEW to \in TokenAddresses,
             NEW amount \in TokenAmounts, SplTransfer(u, from, to, amount)
      PROVE  TokenTypeOK'
  <2>1. token' \in [TokenAddresses -> TokenAccounts \cup {NoAccount}]
    BY <1>7, TransferKeepsType DEF SplTransfer
  <2>2. mint # NoAccount
    BY <1>7 DEF SplTransfer, TransferAccepted
  <2> QED
    BY <1>7, <2>1, <2>2 DEF SplTransfer
<1>8. ASSUME NEW acct \in TokenAddresses, SplClose(acct)
      PROVE  TokenTypeOK'
  BY <1>8 DEF SplClose
<1>9. CASE UNCHANGED tokenVars
  BY <1>9 DEF tokenVars
<1> QED
  BY <1>1, <1>2, <1>3, <1>4, <1>5, <1>6, <1>7, <1>8, <1>9
  DEF TokenNext, TokenCalls, Wallet

\* Every reachable state of the token is well typed: supply and balances stay
\* within u64.
THEOREM TokenTypeCorrect == TokenSpec => []TokenTypeOK
  BY TokenTypeInit, TokenTypeStep, PTL DEF TokenSpec

-----------------------------------------------------------------------------
\* What a step does to a mint that exists.
LEMMA MintStays ==
  ASSUME TokenTypeOK, [TokenNext]_tokenVars, mint # NoAccount
  PROVE  /\ mint' # NoAccount
         /\ mint'.authority \in {mint.authority, NoAccount}
         /\ mint.authority = NoAccount => mint'.supply <= mint.supply
<1> DEFINE P == /\ mint' # NoAccount
                /\ mint'.authority \in {mint.authority, NoAccount}
                /\ mint.authority = NoAccount => mint'.supply <= mint.supply
<1>1. mint \in Mints /\ mint.supply \in Int
  BY SolanaAssumption DEF TokenTypeOK, Mints, U64
<1>2. \A m \in Mints : m # NoAccount
  BY TokenAccountAssumption
<1>3. CASE UNCHANGED mint
  BY <1>1, <1>3
<1>4. ASSUME NEW u \in Users, RevokeMintAuthority(u)
      PROVE  P
  BY <1>1, <1>2, <1>4, Revoked
<1>5. ASSUME NEW u \in Users, NEW quantity \in TokenAmounts, MintTokens(u, quantity)
      PROVE  P
  BY <1>2, <1>5, Minted, TokenAccountAssumption
<1>6. ASSUME NEW admin \in Signers, NEW acct \in TokenAddresses, NEW amount \in TokenAmounts,
             EmergencyBurn(admin, acct, amount)
      PROVE  P
  BY <1>1, <1>2, <1>6, Burned, AmountsAreInts
<1> QED
  BY <1>3, <1>4, <1>5, <1>6
  DEF TokenNext, TokenCalls, Wallet, tokenVars, InitToken, UpdateMetadata,
      OpenTokenAccount, SplTransfer, SplClose

\* No coin can be issued after the authority was revoked, and the authority is
\* never anyone but the one who called init_token (lib.rs:92-129).
THEOREM RevokedForGood == TokenSpec => IssuanceEndsWithRevoke
<1>1. TokenTypeOK /\ [TokenNext]_tokenVars =>
        [mint # NoAccount =>
            /\ mint' # NoAccount
            /\ mint'.authority \in {mint.authority, NoAccount}
            /\ mint.authority = NoAccount => mint'.supply <= mint.supply]_tokenVars
  BY MintStays
<1> QED
  BY <1>1, TokenTypeCorrect, PTL DEF TokenSpec, IssuanceEndsWithRevoke

\* A token account whose address signs is one at a key pair: no key signs at
\* an associated address.
LEMMA SignerAddressIsKey == Signers \cap TokenAddresses \subseteq KeyAccounts
  BY TokenAssumption DEF Signers, TokenAddresses

\* Only an account at its owner's own key can ever lose coins to a burn:
\* whatever happened before, emergency_burn reaches no associated account
\* (lib.rs:133-136).
THEOREM NoAtaIsBurned == TokenSpec => BurnsAreSelfInflicted
<1> DEFINE P == \E k \in KeyAccounts :
                  /\ Open(k) /\ token[k].owner = k
                  /\ token' = [token EXCEPT ![k].amount =
                                  @ - (mint.supply - mint'.supply)]
<1>1. ASSUME TokenTypeOK, [TokenNext]_tokenVars, mint # NoAccount, mint'.supply < mint.supply
      PROVE  P
  <2>1. mint \in Mints /\ mint.supply \in Int
    BY <1>1, SolanaAssumption DEF TokenTypeOK, Mints, U64
  <2>2. mint' # mint
    BY <1>1, <2>1
  <2>3. ASSUME NEW u \in Users, RevokeMintAuthority(u)
        PROVE  FALSE
    BY <1>1, <2>1, <2>3, Revoked
  <2>4. ASSUME NEW u \in Users, NEW quantity \in TokenAmounts, MintTokens(u, quantity)
        PROVE  FALSE
    BY <1>1, <2>1, <2>4, Minted, AmountsAreInts
  <2>5. ASSUME NEW admin \in Signers, NEW acct \in TokenAddresses, NEW amount \in TokenAmounts,
               EmergencyBurn(admin, acct, amount)
        PROVE  P
    <3>1. acct = admin /\ Open(acct) /\ token[acct].owner = acct
      BY <2>5 DEF EmergencyBurn, BurnAccepted
    <3>2. mint.supply - mint'.supply = amount
      BY <1>1, <2>1, <2>5, Burned, AmountsAreInts
    <3>3. acct \in KeyAccounts
      BY <3>1, SignerAddressIsKey
    <3> QED
      BY <2>5, <3>1, <3>2, <3>3 DEF EmergencyBurn
  <2> QED
    BY <1>1, <2>2, <2>3, <2>4, <2>5
    DEF TokenNext, TokenCalls, Wallet, tokenVars, InitToken, UpdateMetadata,
        OpenTokenAccount, SplTransfer, SplClose
<1>2. TokenTypeOK /\ [TokenNext]_tokenVars
        => [mint # NoAccount /\ mint'.supply < mint.supply => P]_tokenVars
  BY <1>1
<1> QED
  BY <1>2, TokenTypeCorrect, PTL DEF TokenSpec, BurnsAreSelfInflicted

\* New coins only appear in the authority's associated account, which the
\* call itself opens (`init`, lib.rs:487-493).
THEOREM OnlyFreshAccountsAreFunded == TokenSpec => IssuedToFreshAccount
<1> DEFINE P == LET acct == Ata[mint.authority]
                IN  ~Open(acct) /\ token' = [token EXCEPT ![acct] =
                        [owner  |-> mint.authority,
                         amount |-> mint'.supply - mint.supply]]
<1>1. ASSUME TokenTypeOK, [TokenNext]_tokenVars, mint # NoAccount, mint'.supply > mint.supply
      PROVE  P
  <2>1. mint \in Mints /\ mint.supply \in Int
    BY <1>1, SolanaAssumption DEF TokenTypeOK, Mints, U64
  <2>2. mint' # mint
    BY <1>1, <2>1
  <2>3. ASSUME NEW u \in Users, RevokeMintAuthority(u)
        PROVE  FALSE
    BY <1>1, <2>1, <2>3, Revoked
  <2>4. ASSUME NEW admin \in Signers, NEW acct \in TokenAddresses, NEW amount \in TokenAmounts,
               EmergencyBurn(admin, acct, amount)
        PROVE  FALSE
    BY <1>1, <2>1, <2>4, Burned, AmountsAreInts
  <2>5. ASSUME NEW u \in Users, NEW quantity \in TokenAmounts, MintTokens(u, quantity)
        PROVE  P
    <3>1. mint.authority = u /\ mint'.supply - mint.supply = quantity
      BY <1>1, <2>1, <2>5, Minted, AmountsAreInts
    <3> QED
      BY <2>5, <3>1 DEF MintTokens, MintAccepted
  <2> QED
    BY <1>1, <2>2, <2>3, <2>4, <2>5
    DEF TokenNext, TokenCalls, Wallet, tokenVars, InitToken, UpdateMetadata,
        OpenTokenAccount, SplTransfer, SplClose
<1>2. TokenTypeOK /\ [TokenNext]_tokenVars
        => [mint # NoAccount /\ mint'.supply > mint.supply => P]_tokenVars
  BY <1>1
<1> QED
  BY <1>2, TokenTypeCorrect, PTL DEF TokenSpec, IssuedToFreshAccount

\* The metadata exists only together with the mint: init_token creates both,
\* and nothing removes either.
MetadataNeedsMint == metadata # NoAccount => mint # NoAccount

LEMMA MetadataNeedsMintAlways == TokenSpec => []MetadataNeedsMint
<1>1. TokenInit => MetadataNeedsMint
  BY DEF TokenInit, MetadataNeedsMint
<1>2. ASSUME TokenTypeOK, MetadataNeedsMint, [TokenNext]_tokenVars
      PROVE  MetadataNeedsMint'
  <2>1. CASE mint # NoAccount
    <3>1. \A m \in Mints : m # NoAccount
      BY TokenAccountAssumption
    <3>2. ASSUME NEW u \in Users, RevokeMintAuthority(u) PROVE mint' # NoAccount
      BY <1>2, <3>1, <3>2, Revoked
    <3>3. ASSUME NEW u \in Users, NEW quantity \in TokenAmounts, MintTokens(u, quantity)
          PROVE  mint' # NoAccount
      BY <1>2, <3>1, <3>3, Minted
    <3>4. ASSUME NEW admin \in Signers, NEW acct \in TokenAddresses,
                 NEW amount \in TokenAmounts, EmergencyBurn(admin, acct, amount)
          PROVE  mint' # NoAccount
      BY <1>2, <3>1, <3>4, Burned
    <3> QED
      BY <1>2, <2>1, <3>2, <3>3, <3>4
      DEF MetadataNeedsMint, TokenNext, TokenCalls, Wallet, tokenVars, InitToken,
          UpdateMetadata, OpenTokenAccount, SplTransfer, SplClose
  <2>2. CASE mint = NoAccount
    <3>1. metadata = NoAccount
      BY <1>2, <2>2 DEF MetadataNeedsMint
    <3>2. ASSUME NEW u \in Users, NEW value \in MetadataValues, InitToken(u, value)
          PROVE  mint' # NoAccount
      <4>1. mint' \in Mints
        BY <3>2, SolanaAssumption DEF InitToken, Mints, U64
      <4> QED
        BY <4>1, TokenAccountAssumption
    <3>3. ASSUME NEW u \in Signers, NEW key \in Signers \cup {MetadataKey},
                 NEW value \in MetadataValues, UpdateMetadata(u, key, value)
          PROVE  metadata' = NoAccount
      BY <3>1, <3>3 DEF UpdateMetadata, UpdateMetadataAccepted
    <3> QED
      BY <1>2, <3>1, <3>2, <3>3
      DEF MetadataNeedsMint, TokenNext, TokenCalls, Wallet, tokenVars, RevokeMintAuthority,
          MintTokens, EmergencyBurn, OpenTokenAccount, SplTransfer, SplClose
  <2> QED
    BY <2>1, <2>2
<1> QED
  BY <1>1, <1>2, TokenTypeCorrect, PTL DEF TokenSpec

\* The metadata stays what init_token wrote, because update_metadata wants the
\* metadata's own address to sign (lib.rs:345-349), where no key signs.
THEOREM MetadataStays == TokenSpec => MetadataIsForever
<1>1. ASSUME [TokenNext]_tokenVars, metadata # NoAccount, MetadataNeedsMint
      PROVE  metadata' = metadata
  <2>1. ASSUME NEW u \in Signers, NEW key \in Signers \cup {MetadataKey},
               NEW value \in MetadataValues, UpdateMetadata(u, key, value)
        PROVE  metadata' = metadata
    BY <2>1, TokenAssumption DEF UpdateMetadata, UpdateMetadataAccepted
  <2>2. ASSUME NEW u \in Users, NEW value \in MetadataValues, InitToken(u, value)
        PROVE  FALSE
    BY <1>1, <2>2 DEF MetadataNeedsMint, InitToken
  <2> QED
    BY <1>1, <2>1, <2>2
    DEF TokenNext, TokenCalls, Wallet, tokenVars, RevokeMintAuthority, MintTokens,
        EmergencyBurn, OpenTokenAccount, SplTransfer, SplClose
<1>2. MetadataNeedsMint /\ [TokenNext]_tokenVars
        => [metadata # NoAccount => metadata' = metadata]_tokenVars
  BY <1>1
<1> QED
  BY <1>2, MetadataNeedsMintAlways, PTL DEF TokenSpec, MetadataIsForever

-----------------------------------------------------------------------------
(***************************************************************************)
(* Token implements Coin: every step is one of Coin's events or a stutter. *)
(***************************************************************************)
Held == [acct \in TokenAddresses |-> Balance(acct)]

\* What a step that touches one account does to the holdings.
LEMMA HeldAfter ==
  ASSUME NEW acct \in TokenAddresses, NEW n,
         \A a \in TokenAddresses \ {acct} : token'[a] = token[a],
         Balance(acct)' = n
  PROVE  Held' = [Held EXCEPT ![acct] = n]
<1>1. \A a \in TokenAddresses \ {acct} : Balance(a)' = Balance(a)
  BY DEF Balance, Open
<1> QED
  BY <1>1 DEF Held

LEMMA HeldUnchanged == token' = token => Held' = Held
  BY DEF Held, Balance, Open

LEMMA InitIsCoinInit == TokenInit => AsCoin!CoinInit
  BY DEF TokenInit, AsCoin!CoinInit, Balance, Open, Supply

LEMMA LaunchIsLaunch ==
  ASSUME NEW u \in Users, NEW value \in MetadataValues, InitToken(u, value)
  PROVE  AsCoin!Launch(u)
<1>1. mint' # NoAccount
  BY SolanaAssumption, TokenAccountAssumption DEF InitToken, Mints, U64
<1>2. Held' = Held
  BY HeldUnchanged DEF InitToken
<1> QED
  BY <1>1, <1>2 DEF InitToken, AsCoin!Launch, Held, Supply

LEMMA RevokeIsClose ==
  ASSUME TokenTypeOK, NEW u \in Users, RevokeMintAuthority(u)
  PROVE  AsCoin!Close
<1>1. mint # NoAccount /\ mint' # NoAccount
  BY Revoked, TokenAccountAssumption DEF RevokeMintAuthority, RevokeAccepted
<1>2. Held' = Held
  BY HeldUnchanged DEF RevokeMintAuthority
<1> QED
  BY <1>1, <1>2, Revoked DEF AsCoin!Close, Held, Supply

LEMMA MintIsIssue ==
  ASSUME TokenTypeOK, NEW u \in Users, NEW quantity \in TokenAmounts, MintTokens(u, quantity)
  PROVE  AsCoin!Issue(u, quantity)
<1>1. mint # NoAccount /\ mint' # NoAccount
  BY Minted, TokenAccountAssumption
<1>2. Ata[u] \in TokenAddresses /\ Balance(Ata[u]) = 0
  BY TokenAssumption DEF TokenAddresses, Balance, MintTokens, MintAccepted
<1>3. [owner |-> u, amount |-> quantity] \in TokenAccounts
  BY AmountsAreInts DEF TokenAccounts, Signers
<1>4. token'[Ata[u]] = [owner |-> u, amount |-> quantity]
  BY <1>2 DEF MintTokens, TokenTypeOK
<1>5. Balance(Ata[u])' = quantity
  BY <1>3, <1>4, TokenAccountAssumption DEF Balance, Open, MintTokens
<1>6. Held' = [Held EXCEPT ![Ata[u]] = quantity]
  <2>1. \A a \in TokenAddresses \ {Ata[u]} : token'[a] = token[a]
    BY DEF MintTokens, TokenTypeOK
  <2> QED
    BY <1>2, <1>5, <2>1, HeldAfter
<1> QED
  BY <1>1, <1>2, <1>6, Minted DEF AsCoin!Issue, Held, Supply

LEMMA BurnIsRetire ==
  ASSUME TokenTypeOK, NEW admin \in Signers, NEW acct \in TokenAddresses,
         NEW amount \in TokenAmounts, EmergencyBurn(admin, acct, amount)
  PROVE  AsCoin!Retire(acct, amount)
<1>1. mint # NoAccount /\ mint' # NoAccount
  BY Burned, TokenAccountAssumption
<1>2. acct \in KeyAccounts /\ amount <= Balance(acct)
  BY SignerAddressIsKey DEF EmergencyBurn, BurnAccepted, Balance
<1>3. /\ Balance(acct) = token[acct].amount
      /\ token[acct] \in TokenAccounts /\ token[acct].amount \in U64
      /\ amount <= token[acct].amount
  BY OpenAccount DEF EmergencyBurn, BurnAccepted, Balance
<1>4. token[acct].amount - amount \in U64
  BY <1>3, AmountsAreInts, SolanaAssumption DEF U64
<1>5. /\ token'[acct] = [owner |-> token[acct].owner, amount |-> token[acct].amount - amount]
      /\ token'[acct] \in TokenAccounts
  BY <1>3, <1>4 DEF EmergencyBurn, TokenTypeOK, TokenAccounts
<1>6. Balance(acct)' = Balance(acct) - amount
  BY <1>3, <1>5, TokenAccountAssumption DEF Balance, Open
<1>7. Held' = [Held EXCEPT ![acct] = Balance(acct) - amount]
  <2>1. \A a \in TokenAddresses \ {acct} : token'[a] = token[a]
    BY DEF EmergencyBurn, TokenTypeOK
  <2> QED
    BY <1>6, <2>1, HeldAfter
<1> QED
  BY <1>1, <1>2, <1>7, Burned DEF AsCoin!Retire, Held, Supply

LEMMA TransferIsPay ==
  ASSUME TokenTypeOK, NEW u \in Signers, NEW from \in TokenAddresses,
         NEW to \in TokenAddresses, NEW amount \in TokenAmounts, from # to,
         SplTransfer(u, from, to, amount)
  PROVE  AsCoin!Pay(from, to, amount)
<1>1. /\ token[from] \in TokenAccounts /\ token[to] \in TokenAccounts
      /\ token[from].amount \in U64 /\ token[to].amount \in U64
      /\ amount <= token[from].amount /\ token[to].amount + amount <= U64_MAX
      /\ Balance(from) = token[from].amount /\ Balance(to) = token[to].amount
  BY OpenAccount DEF SplTransfer, TransferAccepted, Balance
<1>2. token[from].amount - amount \in U64 /\ token[to].amount + amount \in U64
  BY <1>1, AmountsAreInts, SolanaAssumption DEF U64
<1>3. /\ token'[from] = [owner |-> token[from].owner, amount |-> token[from].amount - amount]
      /\ token'[to] = [owner |-> token[to].owner, amount |-> token[to].amount + amount]
      /\ \A a \in TokenAddresses \ {from, to} : token'[a] = token[a]
  BY <1>1 DEF SplTransfer, Moved, TokenTypeOK, TokenAccounts
<1>4. token'[from] \in TokenAccounts /\ token'[to] \in TokenAccounts
  BY <1>1, <1>2, <1>3 DEF TokenAccounts
<1>5. /\ Balance(from)' = Balance(from) - amount
      /\ Balance(to)' = Balance(to) + amount
      /\ \A a \in TokenAddresses \ {from, to} : Balance(a)' = Balance(a)
  BY <1>1, <1>3, <1>4, TokenAccountAssumption DEF Balance, Open
<1>6. Held' = [Held EXCEPT ![from] = @ - amount, ![to] = @ + amount]
  BY <1>5 DEF Held
<1> QED
  BY <1>1, <1>6 DEF AsCoin!Pay, Held, Supply, SplTransfer

LEMMA OtherStepsAreStutters ==
  ASSUME TokenTypeOK, mint' = mint, Held' = Held
  PROVE  UNCHANGED AsCoin!coinVars
  BY DEF AsCoin!coinVars, Held, Supply

LEMMA OpenKeepsHeld ==
  ASSUME TokenTypeOK, NEW acct \in TokenAddresses, NEW owner \in Signers,
         OpenTokenAccount(acct, owner)
  PROVE  Held' = Held
<1>1. [owner |-> owner, amount |-> 0] \in TokenAccounts
  BY SolanaAssumption DEF TokenAccounts, U64
<1>2. Balance(acct) = 0 /\ Balance(acct)' = 0
  BY <1>1, TokenAccountAssumption DEF OpenTokenAccount, TokenTypeOK, Balance, Open
<1>3. \A a \in TokenAddresses \ {acct} : token'[a] = token[a]
  BY DEF OpenTokenAccount, TokenTypeOK
<1> QED
  BY <1>2, <1>3, HeldAfter DEF Held

LEMMA CloseKeepsHeld ==
  ASSUME TokenTypeOK, NEW acct \in TokenAddresses, SplClose(acct)
  PROVE  Held' = Held
<1>1. Balance(acct) = 0 /\ Balance(acct)' = 0
  BY DEF SplClose, TokenTypeOK, Balance, Open
<1>2. \A a \in TokenAddresses \ {acct} : token'[a] = token[a]
  BY DEF SplClose, TokenTypeOK
<1> QED
  BY <1>1, <1>2, HeldAfter DEF Held

LEMMA StepIsCoinStep ==
  TokenTypeOK /\ [TokenNext]_tokenVars => [AsCoin!CoinNext]_AsCoin!coinVars
<1> SUFFICES ASSUME TokenTypeOK, [TokenNext]_tokenVars
             PROVE  [AsCoin!CoinNext]_AsCoin!coinVars
  OBVIOUS
<1> USE DEF AsCoin!CoinNext
<1>1. ASSUME NEW u \in Users, NEW value \in MetadataValues, InitToken(u, value)
      PROVE  AsCoin!CoinNext
  BY <1>1, LaunchIsLaunch
<1>2. ASSUME NEW u \in Users, RevokeMintAuthority(u)
      PROVE  AsCoin!CoinNext
  BY <1>2, RevokeIsClose
<1>3. ASSUME NEW u \in Users, NEW quantity \in TokenAmounts, MintTokens(u, quantity)
      PROVE  AsCoin!CoinNext
  BY <1>3, MintIsIssue, AmountsAreInts
<1>4. ASSUME NEW admin \in Signers, NEW acct \in TokenAddresses, NEW amount \in TokenAmounts,
             EmergencyBurn(admin, acct, amount)
      PROVE  AsCoin!CoinNext
  BY <1>4, BurnIsRetire, AmountsAreInts
<1>5. ASSUME NEW u \in Signers, NEW key \in Signers \cup {MetadataKey},
             NEW value \in MetadataValues, UpdateMetadata(u, key, value)
      PROVE  UNCHANGED AsCoin!coinVars
  BY <1>5, HeldUnchanged, OtherStepsAreStutters DEF UpdateMetadata
<1>6. ASSUME NEW acct \in TokenAddresses, NEW owner \in Signers, OpenTokenAccount(acct, owner)
      PROVE  UNCHANGED AsCoin!coinVars
  BY <1>6, OpenKeepsHeld, OtherStepsAreStutters DEF OpenTokenAccount
<1>7. ASSUME NEW u \in Signers, NEW from \in TokenAddresses, NEW to \in TokenAddresses,
             NEW amount \in TokenAmounts, SplTransfer(u, from, to, amount)
      PROVE  [AsCoin!CoinNext]_AsCoin!coinVars
  <2>1. CASE from = to
    BY <1>7, <2>1, HeldUnchanged, OtherStepsAreStutters DEF SplTransfer, Moved
  <2>2. CASE from # to
    BY <1>7, <2>2, TransferIsPay, AmountsAreInts
  <2> QED
    BY <2>1, <2>2
<1>8. ASSUME NEW acct \in TokenAddresses, SplClose(acct)
      PROVE  UNCHANGED AsCoin!coinVars
  BY <1>8, CloseKeepsHeld, OtherStepsAreStutters DEF SplClose
<1>9. CASE UNCHANGED tokenVars
  BY <1>9, HeldUnchanged, OtherStepsAreStutters DEF tokenVars
<1> QED
  BY <1>1, <1>2, <1>3, <1>4, <1>5, <1>6, <1>7, <1>8, <1>9
  DEF TokenNext, TokenCalls, Wallet

\* Whatever wallets and callers do, the coin only ever lives through the events
\* of Coin: launched once, issued into the issuer's empty account, closed for
\* good, retired at addresses that sign, paid from one address to another.
THEOREM TokenImplementsCoin == TokenSpec => ImplementsCoin
<1>1. TokenInit => AsCoin!CoinInit
  BY InitIsCoinInit
<1>2. TokenTypeOK /\ [TokenNext]_tokenVars => [AsCoin!CoinNext]_AsCoin!coinVars
  BY StepIsCoinStep
<1> QED
  BY <1>1, <1>2, TokenTypeCorrect, PTL DEF TokenSpec, ImplementsCoin, AsCoin!CoinSpec

-----------------------------------------------------------------------------
(***************************************************************************)
(* The supply is what the accounts hold together.  Only Coin's events move *)
(* coins, so it is enough to add up the holdings after each of them.       *)
(***************************************************************************)
LEMMA HoldingsAreInts ==
  TokenTypeOK => Held \in [TokenAddresses -> Int] /\ Supply \in Int
<1> SUFFICES ASSUME TokenTypeOK
             PROVE  Held \in [TokenAddresses -> Int] /\ Supply \in Int
  OBVIOUS
<1>1. ASSUME NEW acct \in TokenAddresses PROVE Balance(acct) \in Int
  BY OpenAccount DEF Balance
<1>2. Supply \in Int
  BY SolanaAssumption DEF Supply, TokenTypeOK, Mints, U64
<1> QED
  BY <1>1, <1>2 DEF Held

LEMMA HoldingsAreIntsNext ==
  TokenTypeOK' => Held' \in [TokenAddresses -> Int] /\ Supply' \in Int
<1> SUFFICES ASSUME TokenTypeOK'
             PROVE  Held' \in [TokenAddresses -> Int] /\ Supply' \in Int
  OBVIOUS
<1>1. ASSUME NEW acct \in TokenAddresses PROVE Balance(acct)' \in Int
  BY SolanaAssumption DEF TokenTypeOK, Balance, Open, TokenAccounts, U64
<1>2. Supply' \in Int
  BY SolanaAssumption DEF Supply, TokenTypeOK, Mints, U64
<1> QED
  BY <1>1, <1>2 DEF Held

LEMMA CoinStepConserves ==
  ASSUME TokenTypeOK, TokenTypeOK', SumOf(Held) = Supply, AsCoin!CoinNext
  PROVE  SumOf(Held') = Supply'
<1>1. /\ Held \in [TokenAddresses -> Int] /\ Held' \in [TokenAddresses -> Int]
      /\ Supply \in Int
      /\ IsFiniteSet(TokenAddresses)
  BY HoldingsAreInts, HoldingsAreIntsNext, TokenAddressesAssumption
<1>2. ASSUME NEW i \in Users, AsCoin!Launch(i)
      PROVE  Held' = Held /\ Supply' = Supply
  BY <1>2 DEF AsCoin!Launch, Held
<1>3. ASSUME AsCoin!Close
      PROVE  Held' = Held /\ Supply' = Supply
  BY <1>3 DEF AsCoin!Close, Held
<1>4. ASSUME NEW i \in Users, NEW n \in U64, AsCoin!Issue(i, n)
      PROVE  SumOf(Held') = Supply'
  <2> DEFINE a == Ata[i]
  <2>1. /\ a \in TokenAddresses /\ Held[a] = 0
        /\ Held' = [Held EXCEPT ![a] = n] /\ Supply' = Supply + n
    BY <1>4, TokenAssumption DEF AsCoin!Issue, Held, TokenAddresses
  <2> HIDE DEF a
  <2>2. /\ a \in TokenAddresses /\ Held'[a] = n
        /\ \A b \in TokenAddresses \ {a} : Held'[b] = Held[b]
    BY <1>1, <2>1
  <2>3. SumOf(Held') = SumOf(Held) + (Held'[a] - Held[a])
    BY <1>1, <2>2, SumUpdate
  <2>4. n \in Int
    BY SolanaAssumption DEF U64
  <2> QED
    BY <1>1, <2>1, <2>2, <2>3, <2>4
<1>5. ASSUME NEW a \in TokenAddresses, NEW n \in U64, AsCoin!Retire(a, n)
      PROVE  SumOf(Held') = Supply'
  <2>1. Held' = [Held EXCEPT ![a] = @ - n] /\ Supply' = Supply - n
    BY <1>5 DEF AsCoin!Retire, Held
  <2>2. Held'[a] = Held[a] - n /\ \A b \in TokenAddresses \ {a} : Held'[b] = Held[b]
    BY <1>1, <2>1
  <2>3. SumOf(Held') = SumOf(Held) + (Held'[a] - Held[a])
    BY <1>1, <2>2, SumUpdate
  <2>4. Held[a] \in Int /\ n \in Int
    BY <1>1, SolanaAssumption DEF U64
  <2> QED
    BY <1>1, <2>1, <2>2, <2>3, <2>4
<1>6. ASSUME NEW from \in TokenAddresses, NEW to \in TokenAddresses, NEW n \in U64,
             AsCoin!Pay(from, to, n)
      PROVE  SumOf(Held') = Supply'
  <2>1. /\ from # to /\ Supply' = Supply
        /\ Held' = [Held EXCEPT ![from] = @ - n, ![to] = @ + n]
    BY <1>6 DEF AsCoin!Pay, Held
  <2>2. /\ Held'[from] = Held[from] - n /\ Held'[to] = Held[to] + n
        /\ \A a \in TokenAddresses \ {from, to} : Held'[a] = Held[a]
        /\ from # to
    BY <1>1, <2>1
  <2>3. n \in Int
    BY SolanaAssumption DEF U64
  <2>4. SumOf(Held') = SumOf(Held)
    BY <1>1, <2>2, <2>3, SumMove
  <2> QED
    BY <2>1, <2>4
<1> QED
  BY <1>2, <1>3, <1>4, <1>5, <1>6 DEF AsCoin!CoinNext

LEMMA SupplyIsSum == SupplyConserved <=> SumOf(Held) = Supply
  BY DEF SupplyConserved, SumOf, Held

\* Coins are neither made nor lost but by the instructions that change the
\* supply: whatever mints, burns, transfers (to oneself too), openings and
\* closings happen, the supply of the mint is what the accounts hold together
\* (lib.rs:111-151, and the token program below them).
THEOREM SupplyIsHeld == TokenSpec => []SupplyConserved
<1>1. TokenInit => SumOf(Held) = Supply
  <2> SUFFICES ASSUME TokenInit PROVE SumOf(Held) = Supply
    OBVIOUS
  <2>1. Held = [acct \in TokenAddresses |-> 0] /\ Supply = 0
    BY DEF TokenInit, Held, Balance, Open, Supply
  <2> QED
    BY <2>1, SumZero, TokenAddressesAssumption
<1>2. TokenTypeOK /\ TokenTypeOK' /\ SumOf(Held) = Supply /\ [TokenNext]_tokenVars
        => SumOf(Held') = Supply'
  <2> SUFFICES ASSUME TokenTypeOK, TokenTypeOK', SumOf(Held) = Supply,
                      [TokenNext]_tokenVars
               PROVE  SumOf(Held') = Supply'
    OBVIOUS
  <2>1. CASE AsCoin!CoinNext
    BY <2>1, CoinStepConserves
  <2>2. CASE UNCHANGED AsCoin!coinVars
    <3>1. Held' = Held /\ Supply' = Supply
      BY <2>2 DEF AsCoin!coinVars, Held
    <3> QED
      BY <3>1
  <2> QED
    BY <2>1, <2>2, StepIsCoinStep
<1>3. (SumOf(Held) = Supply)' <=> SumOf(Held') = Supply'
  OBVIOUS
<1> QED
  BY <1>1, <1>2, <1>3, SupplyIsSum, TokenTypeCorrect, PTL DEF TokenSpec

=============================================================================
