------------------------------- MODULE Token -------------------------------
(***************************************************************************)
(* The token part of anrx_eur_coin (programs/anrx-eur-coin/src/lib.rs):    *)
(* the mint at the program's ["mint"] address, its token accounts, its     *)
(* metadata, and the instructions init_token, revoke_mint_authority,       *)
(* mint_tokens, emergency_burn and update_metadata.  What wallets do with  *)
(* the token directly, without the program, is external.                   *)
(***************************************************************************)
EXTENDS Solana, FiniteSets, Functions

CONSTANTS
    KeyAccounts,     \* addresses of key pairs at which a token account is opened
    AtaAddresses,    \* addresses of associated token accounts: no key signs there
    Ata,             \* per wallet, its associated token account
    MetadataKey,     \* the address of the token's metadata: no key signs there
    MetadataValues,  \* names, symbols and URIs a caller may pass
    TokenAmounts     \* amounts of coin a caller may pass

VARIABLES
    mint,            \* the mint account, or NoAccount
    token,           \* per token account address, the account or NoAccount
    metadata         \* the metadata account, or NoAccount

tokenVars == <<mint, token, metadata>>

Signers == Users \cup KeyAccounts
TokenAddresses == KeyAccounts \cup AtaAddresses

\* The authority is NoAccount once it has been revoked (None).
Mints == [authority : Users \cup {NoAccount}, supply : U64]
TokenAccounts == [owner : Signers, amount : U64]
Metadatas == [update_authority : Users, value : MetadataValues]

ASSUME TokenAssumption ==
    /\ Ata \in [Users -> AtaAddresses]
    /\ \A u, v \in Users : Ata[u] = Ata[v] => u = v
    /\ Users \cap KeyAccounts = {}
    /\ Signers \cap AtaAddresses = {}
    /\ MetadataKey \notin Signers
    /\ TokenAmounts \subseteq U64

ASSUME TokenAccountAssumption ==
    /\ NoAccount \notin Users
    /\ NoAccount \notin Mints \cup TokenAccounts \cup Metadatas

\* An address is 32 bytes long: there are finitely many.
ASSUME TokenAddressesAssumption == IsFiniteSet(TokenAddresses)

Open(acct) == token[acct] # NoAccount

(***************************************************************************)
(* What each handler requires: its account constraints, its require!s and  *)
(* the checks of the token program it calls.                               *)
(***************************************************************************)

\* The authority is unwrapped first: a revoked one panics.
RevokeAccepted(u) ==
    /\ mint # NoAccount
    /\ mint.authority # NoAccount
    /\ u = mint.authority

\* Minting, were the token program not to compare the authority.
MintAccepted_AnySigner(u, quantity) ==
    /\ mint # NoAccount
    /\ ~Open(Ata[u])
    /\ mint.supply + quantity <= U64_MAX

\* Minting, were the token program to add without overflow check.
MintAccepted_Unchecked(u, quantity) ==
    /\ mint # NoAccount
    /\ ~Open(Ata[u])
    /\ mint.authority = u

\* destination is `init`: the payer's associated account must not exist yet.
MintAccepted(u, quantity) ==
    /\ mint # NoAccount
    /\ ~Open(Ata[u])
    /\ mint.authority = u
    /\ mint.supply + quantity <= U64_MAX

\* The owner of the account may burn, without the require! of the program.
BurnAccepted_OwnerOnly(admin, acct, amount) ==
    /\ Open(acct)
    /\ token[acct].owner = admin
    /\ amount <= token[acct].amount
    /\ amount <= mint.supply

\* The account to burn from must be the signer itself, and its own owner.
BurnAccepted(admin, acct, amount) ==
    /\ Open(acct)
    /\ admin = acct
    /\ token[acct].owner = admin
    /\ amount <= token[acct].amount
    /\ amount <= mint.supply

\* Updating, without the require_keys_eq! of the program.
UpdateMetadataAccepted_ByAuthority(u, key) ==
    /\ metadata # NoAccount
    /\ key = MetadataKey
    /\ u = metadata.update_authority

\* The signer must be the account passed as metadata, which Metaplex then
\* requires to be the metadata, with the signer as its update authority.
UpdateMetadataAccepted(u, key) ==
    /\ metadata # NoAccount
    /\ u = key
    /\ key = MetadataKey
    /\ u = metadata.update_authority

TransferAccepted(u, from, to, amount) ==
    /\ Open(from) /\ Open(to)
    /\ token[from].owner = u
    /\ amount <= token[from].amount
    /\ from # to => token[to].amount + amount <= U64_MAX

\* The balances, were a transfer to itself not treated on its own.
Moved_SelfUnchecked(from, to, amount) ==
    [token EXCEPT ![from].amount = @ - amount,
                  ![to].amount = token[to].amount + amount]

Moved(from, to, amount) ==
    IF from = to THEN token
    ELSE [token EXCEPT ![from].amount = @ - amount, ![to].amount = @ + amount]
-----------------------------------------------------------------------------
TokenInit ==
    /\ mint = NoAccount
    /\ token = [acct \in TokenAddresses |-> NoAccount]
    /\ metadata = NoAccount

\* init_token: whoever calls first creates the mint and its metadata and
\* becomes the authority over both.
InitToken(u, value) ==
    /\ mint = NoAccount
    /\ mint' = [authority |-> u, supply |-> 0]
    /\ metadata' = [update_authority |-> u, value |-> value]
    /\ UNCHANGED token

RevokeMintAuthority(u) ==
    /\ RevokeAccepted(u)
    /\ mint' = [mint EXCEPT !.authority = NoAccount]
    /\ UNCHANGED <<token, metadata>>

\* mint_tokens, were destination `init_if_needed` (Cargo.toml has the feature).
MintTokens_InitIfNeeded(u, quantity) ==
    /\ mint # NoAccount
    /\ mint.authority = u
    /\ mint.supply + quantity <= U64_MAX
    /\ mint' = [mint EXCEPT !.supply = @ + quantity]
    /\ LET held == IF Open(Ata[u]) THEN token[Ata[u]].amount ELSE 0
       IN  token' = [token EXCEPT
                        ![Ata[u]] = [owner |-> u, amount |-> quantity + held]]
    /\ UNCHANGED metadata

\* mint_tokens opens the payer's associated account and mints into it.
MintTokens(u, quantity) ==
    /\ MintAccepted(u, quantity)
    /\ mint' = [mint EXCEPT !.supply = @ + quantity]
    /\ token' = [token EXCEPT ![Ata[u]] = [owner |-> u, amount |-> quantity]]
    /\ UNCHANGED metadata

EmergencyBurn(admin, acct, amount) ==
    /\ BurnAccepted(admin, acct, amount)
    /\ mint' = [mint EXCEPT !.supply = @ - amount]
    /\ token' = [token EXCEPT ![acct].amount = @ - amount]
    /\ UNCHANGED metadata

\* update_metadata; a rejected call is written out, since all of them are.
UpdateMetadata(u, key, value) ==
    /\ metadata' = IF UpdateMetadataAccepted(u, key)
                   THEN [metadata EXCEPT !.value = value]
                   ELSE metadata
    /\ UNCHANGED <<mint, token>>

\* External: a wallet opens an associated account for an owner, as the tests
\* and client/client.ts:589 do, or a token account at a key pair's address.
OpenTokenAccount(acct, owner) ==
    /\ mint # NoAccount
    /\ ~Open(acct)
    /\ acct \in AtaAddresses => owner \in Users /\ acct = Ata[owner]
    /\ token' = [token EXCEPT ![acct] = [owner |-> owner, amount |-> 0]]
    /\ UNCHANGED <<mint, metadata>>

\* External: the owner transfers through the token program directly.
SplTransfer(u, from, to, amount) ==
    /\ TransferAccepted(u, from, to, amount)
    /\ token' = Moved(from, to, amount)
    /\ UNCHANGED <<mint, metadata>>

\* Closing, were the token program not to look at the balance.
SplClose_Funded(acct) ==
    /\ Open(acct)
    /\ token' = [token EXCEPT ![acct] = NoAccount]
    /\ UNCHANGED <<mint, metadata>>

\* External: the owner closes an empty account.
SplClose(acct) ==
    /\ Open(acct)
    /\ token[acct].amount = 0
    /\ token' = [token EXCEPT ![acct] = NoAccount]
    /\ UNCHANGED <<mint, metadata>>

TokenCalls ==
    \/ \E u \in Users, value \in MetadataValues : InitToken(u, value)
    \/ \E u \in Users : RevokeMintAuthority(u)
    \/ \E u \in Users, quantity \in TokenAmounts : MintTokens(u, quantity)
    \/ \E admin \in Signers, acct \in TokenAddresses, amount \in TokenAmounts :
          EmergencyBurn(admin, acct, amount)
    \/ \E u \in Signers, key \in Signers \cup {MetadataKey}, value \in MetadataValues :
          UpdateMetadata(u, key, value)

Wallet ==
    \/ \E acct \in TokenAddresses, owner \in Signers : OpenTokenAccount(acct, owner)
    \/ \E u \in Signers, from, to \in TokenAddresses, amount \in TokenAmounts :
          SplTransfer(u, from, to, amount)
    \/ \E acct \in TokenAddresses : SplClose(acct)

TokenNext == TokenCalls \/ Wallet

TokenSpec == TokenInit /\ [][TokenNext]_tokenVars
-----------------------------------------------------------------------------
(***************************************************************************)
(* Properties.                                                             *)
(***************************************************************************)

\* The accounts hold what their types say; no token account without a mint.
TokenTypeOK ==
    /\ mint \in Mints \cup {NoAccount}
    /\ token \in [TokenAddresses -> TokenAccounts \cup {NoAccount}]
    /\ metadata \in Metadatas \cup {NoAccount}
    /\ mint = NoAccount => \A acct \in TokenAddresses : ~Open(acct)

Balance(acct) == IF Open(acct) THEN token[acct].amount ELSE 0
Supply == IF mint = NoAccount THEN 0 ELSE mint.supply

\* The supply the mint records is what the accounts hold together, over every
\* history of minting, burning, transfers (to oneself too) and closings.
SupplyConserved ==
    FoldFunction(+, 0, [acct \in TokenAddresses |-> Balance(acct)]) = Supply

(***************************************************************************)
(* Nobody can issue after revoke_mint_authority, and nobody can ever take  *)
(* the authority over: it is the one who called init_token, or nobody      *)
(* (lib.rs:92-108; AuthorityType::MintTokens to None cannot be undone).    *)
(***************************************************************************)
IssuanceEndsWithRevoke ==
    [][mint # NoAccount =>
          /\ mint' # NoAccount
          /\ mint'.authority \in {mint.authority, NoAccount}
          /\ mint.authority = NoAccount => mint'.supply <= mint.supply]_tokenVars

\* Coins are only ever destroyed from an account opened at its owner's own
\* key: the require! of emergency_burn (lib.rs:133-136) puts every associated
\* account, and with it every holder, out of its reach.
BurnsAreSelfInflicted ==
    [][mint # NoAccount /\ mint'.supply < mint.supply =>
          \E k \in KeyAccounts :
              /\ Open(k) /\ token[k].owner = k
              /\ token' = [token EXCEPT ![k].amount =
                              @ - (mint.supply - mint'.supply)]]_tokenVars

\* New coins only ever appear in the authority's associated account, and only
\* if that account did not exist: `init` at lib.rs:487-493.
IssuedToFreshAccount ==
    [][mint # NoAccount /\ mint'.supply > mint.supply =>
          LET acct == Ata[mint.authority]
          IN  ~Open(acct) /\ token' = [token EXCEPT ![acct] =
                  [owner  |-> mint.authority,
                   amount |-> mint'.supply - mint.supply]]]_tokenVars

\* The metadata stays what init_token wrote, whoever calls update_metadata.
MetadataIsForever ==
    [][metadata # NoAccount => metadata' = metadata]_tokenVars

(***************************************************************************)
(* Every call and every wallet's step is one event in the life of the coin *)
(* that Coin describes, or none of its business: opening and closing an    *)
(* account, a metadata update, a transfer to oneself.                      *)
(***************************************************************************)
AsCoin == INSTANCE Coin WITH
    Issuers     <- Users,
    Nobody      <- NoAccount,
    Addresses   <- TokenAddresses,
    Signing     <- KeyAccounts,
    Till        <- Ata,
    Amounts     <- U64,
    launched    <- mint # NoAccount,
    issuer      <- IF mint = NoAccount THEN NoAccount ELSE mint.authority,
    held        <- [acct \in TokenAddresses |-> Balance(acct)],
    outstanding <- Supply

ImplementsCoin == AsCoin!CoinSpec

\* The owner of a funded account can burn from it, as the test "Burns tokens
\* in an emergency" expects of the admin (tests/anrx_eur_coin.ts:420-436).
OwnerCanBurn ==
    \A acct \in TokenAddresses, amount \in TokenAmounts :
        Open(acct) /\ amount <= Balance(acct) =>
            BurnAccepted(token[acct].owner, acct, amount)

=============================================================================
