-------------------------- MODULE MintAccount2022 ---------------------------
(***************************************************************************)
(* create_mint_account and check_mint_extensions_constraints of            *)
(* anrx_eur_coin (instructions.rs, utils.rs): a Token-2022 mint at a key   *)
(* pair, with five extensions and its metadata inside, the receiver's      *)
(* associated account and an extra-metas account, and the lamports that    *)
(* make them exempt from rent.  Anybody may send lamports to any address   *)
(* beforehand.  What Token-2022 does on its own is external.               *)
(***************************************************************************)
EXTENDS Solana
LOCAL INSTANCE Functions

CONSTANTS
    MintAddresses,     \* key pairs a caller may create a mint at
    AtaOf, MetasOf,    \* per mint and receiver, and per mint, the derived addresses
    MetadataLens,      \* lengths of a serialised TokenMetadata
    BASE_LEN,          \* length of a mint with its extensions
    ATA_LEN, METAS_LEN,
    MinimumBalance,    \* per length, Rent::minimum_balance
    InitialFunds       \* lamports per address before anything happens

VARIABLES
    mint_2022,         \* per mint address, the mint or NoAccount
    opened,            \* the derived addresses with an account
    funds              \* lamports per address

mintVars == <<mint_2022, opened, funds>>

Extensions == {"metadata_pointer", "group_member_pointer", "transfer_hook",
               "close_authority", "permanent_delegate"}

AtaAddresses == {AtaOf[m][u] : m \in MintAddresses, u \in Users}
MetasAddresses == {MetasOf[m] : m \in MintAddresses}
Addresses == Users \cup MintAddresses \cup AtaAddresses \cup MetasAddresses

\* Nobody (NoAccount) is the authority of an extension given up.
Mints2022 == [len : {BASE_LEN + n : n \in MetadataLens},
              authority : [Extensions -> Users \cup {NoAccount}]]

ASSUME MintAccountAssumption ==
    /\ AtaOf \in [MintAddresses -> [Users -> AtaAddresses]]
    /\ MetasOf \in [MintAddresses -> MetasAddresses]
    /\ \A m, k \in MintAddresses : MetasOf[m] = MetasOf[k] => m = k
    /\ \A m, k \in MintAddresses, u, v \in Users : AtaOf[m][u] = AtaOf[k][v] => m = k /\ u = v
    /\ Users \cap (MintAddresses \cup AtaAddresses \cup MetasAddresses) = {}
    /\ MintAddresses \cap (AtaAddresses \cup MetasAddresses) = {}
    /\ AtaAddresses \cap MetasAddresses = {}
    /\ NoAccount \notin Users \cup Mints2022

\* A longer account needs more.
ASSUME RentAssumption ==
    /\ BASE_LEN \in Nat /\ ATA_LEN \in Nat /\ METAS_LEN \in Nat
    /\ MetadataLens \subseteq Nat
    /\ MinimumBalance \in
         [{BASE_LEN, ATA_LEN, METAS_LEN} \cup {BASE_LEN + n : n \in MetadataLens} -> Nat]
    /\ \A n \in MetadataLens : MinimumBalance[BASE_LEN] <= MinimumBalance[BASE_LEN + n]
    /\ InitialFunds \in [Addresses -> Nat]

Exists(m) == mint_2022[m] # NoAccount

\* init of an account that may hold lamports already: what the payer adds.
Missing(addr, len) ==
    IF funds[addr] >= MinimumBalance[len] THEN 0 ELSE MinimumBalance[len] - funds[addr]

\* What it holds then.
Endowed(addr, len) == funds[addr] + Missing(addr, len)

\* The top-up, were it to compare with the length the account was created with.
ExtraLamports_BaseLength(m, n) == MinimumBalance[BASE_LEN] - Endowed(m, BASE_LEN)

\* The top-up, were a subtraction below zero to count as nothing to do.
ExtraLamports_Saturating(m, n) ==
    IF MinimumBalance[BASE_LEN + n] < Endowed(m, BASE_LEN) THEN 0
    ELSE MinimumBalance[BASE_LEN + n] - Endowed(m, BASE_LEN)

\* update_account_lamports_to_minimum_balance, after the metadata has made the
\* account longer.
ExtraLamports(m, n) == MinimumBalance[BASE_LEN + n] - Endowed(m, BASE_LEN)

\* What the payer pays for the three accounts and the top-up.
Cost(m, receiver, n) ==
    Missing(m, BASE_LEN) + Missing(AtaOf[m][receiver], ATA_LEN)
        + Missing(MetasOf[m], METAS_LEN) + ExtraLamports(m, n)

\* The accounts to create, were the extra metas `init_if_needed`.
CreateAccepted_MetasReused(payer, receiver, m, n) ==
    /\ ~Exists(m)
    /\ AtaOf[m][receiver] \notin opened
    /\ ExtraLamports(m, n) >= 0
    /\ Cost(m, receiver, n) <= funds[payer]

\* The accounts to create, were the payer's balance left to chance.
CreateAccepted_Unaffordable(payer, receiver, m, n) ==
    /\ ~Exists(m)
    /\ AtaOf[m][receiver] \notin opened
    /\ MetasOf[m] \notin opened
    /\ ExtraLamports(m, n) >= 0

\* Three accounts that must not exist; a difference that must not be below
\* zero, since the release profile checks overflows; and a payer who can pay.
CreateAccepted(payer, receiver, m, n) ==
    /\ ~Exists(m)
    /\ AtaOf[m][receiver] \notin opened
    /\ MetasOf[m] \notin opened
    /\ ExtraLamports(m, n) >= 0
    /\ Cost(m, receiver, n) <= funds[payer]
-----------------------------------------------------------------------------
MintInit ==
    /\ mint_2022 = [m \in MintAddresses |-> NoAccount]
    /\ opened = {}
    /\ funds = InitialFunds

CreateMintAccount(payer, authority, receiver, m, n) ==
    /\ CreateAccepted(payer, receiver, m, n)
    /\ mint_2022' = [mint_2022 EXCEPT ![m] =
            [len |-> BASE_LEN + n, authority |-> [e \in Extensions |-> authority]]]
    /\ opened' = opened \cup {AtaOf[m][receiver], MetasOf[m]}
    /\ funds' = [addr \in Addresses |->
            CASE addr = payer -> funds[addr] - Cost(m, receiver, n)
              [] addr = m -> Endowed(m, BASE_LEN) + ExtraLamports(m, n)
              [] addr = AtaOf[m][receiver] -> Endowed(addr, ATA_LEN)
              [] addr = MetasOf[m] -> Endowed(addr, METAS_LEN)
              [] OTHER -> funds[addr]]

\* check_mint_extensions_constraints accepts the signer or fails, and changes
\* nothing.
CheckAccepted(u, m) ==
    /\ Exists(m)
    /\ \A e \in Extensions : mint_2022[m].authority[e] = u

\* External: a wallet, or a key pair without a mint, sends a lamport.
SendLamport(from, to) ==
    /\ from \in Users \/ (from \in MintAddresses /\ ~Exists(from))
    /\ from # to
    /\ funds[from] > 0
    /\ funds' = [funds EXCEPT ![from] = @ - 1, ![to] = @ + 1]
    /\ UNCHANGED <<mint_2022, opened>>

\* External: the authority of an extension hands it over, or gives it up.
SetAuthority(m, e, u) ==
    /\ Exists(m)
    /\ mint_2022[m].authority[e] # NoAccount
    /\ mint_2022' = [mint_2022 EXCEPT ![m].authority[e] = u]
    /\ UNCHANGED <<opened, funds>>

\* External: the close authority closes a mint that has no supply, the receiver
\* an empty associated account; all lamports go to a wallet.
CloseMint2022(m, to) ==
    /\ Exists(m)
    /\ mint_2022[m].authority["close_authority"] # NoAccount
    /\ mint_2022' = [mint_2022 EXCEPT ![m] = NoAccount]
    /\ funds' = [funds EXCEPT ![m] = 0, ![to] = @ + funds[m]]
    /\ UNCHANGED opened

CloseAta(addr, to) ==
    /\ addr \in AtaAddresses \cap opened
    /\ opened' = opened \ {addr}
    /\ funds' = [funds EXCEPT ![addr] = 0, ![to] = @ + funds[addr]]
    /\ UNCHANGED mint_2022

MintNext ==
    \/ \E payer, authority, receiver \in Users, m \in MintAddresses, n \in MetadataLens :
          CreateMintAccount(payer, authority, receiver, m, n)
    \/ \E from, to \in Addresses : SendLamport(from, to)
    \/ \E m \in MintAddresses, e \in Extensions, u \in Users \cup {NoAccount} :
          SetAuthority(m, e, u)
    \/ \E m \in MintAddresses, to \in Users : CloseMint2022(m, to)
    \/ \E addr \in AtaAddresses, to \in Users : CloseAta(addr, to)

MintSpec == MintInit /\ [][MintNext]_mintVars
-----------------------------------------------------------------------------
(***************************************************************************)
(* Properties.                                                             *)
(***************************************************************************)

\* Types: no payer pays for three accounts and a top-up more than it has, and
\* every account opened is at an address of its kind (instructions.rs:96-136).
MintTypeOK ==
    /\ mint_2022 \in [MintAddresses -> Mints2022 \cup {NoAccount}]
    /\ opened \subseteq AtaAddresses \cup MetasAddresses
    /\ funds \in [Addresses -> Nat]

\* Whatever was sent to the addresses before, every account the instruction
\* created is exempt from rent for as long as it exists, the mint at the length
\* its metadata gave it and not the one it was created with (utils.rs:25-38).
RentExempt ==
    /\ \A m \in MintAddresses :
          Exists(m) => funds[m] >= MinimumBalance[mint_2022[m].len]
    /\ \A addr \in opened \cap AtaAddresses : funds[addr] >= MinimumBalance[ATA_LEN]
    /\ \A addr \in opened \cap MetasAddresses : funds[addr] >= MinimumBalance[METAS_LEN]

\* A new mint holds what rent asks for and no lamport more: an address that was
\* funded above it is refused, by a subtraction that overflows (utils.rs:30);
\* and its creator is the one signer the constraints check accepts, which lists
\* the extensions a second time (instructions.rs:109-118, 168-177).
CreatedExactly ==
    [][\A m \in MintAddresses : ~Exists(m) /\ Exists(m)' =>
          /\ funds'[m] = MinimumBalance[mint_2022'[m].len]
          /\ \E u \in Users : CheckAccepted(u, m)']_mintVars

\* A key pair serves for one mint: after its mint was closed the address stays
\* empty, for the extra-metas account is still there and nothing in the program
\* closes it (instructions.rs:129-136).
NeverRecreated ==
    [][\A m \in MintAddresses :
          MetasOf[m] \in opened /\ ~Exists(m) => ~Exists(m)']_mintVars

=============================================================================
