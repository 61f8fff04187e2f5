-------------------------- MODULE MCMintAccount2022 --------------------------
(***************************************************************************)
(* MintAccount2022 on a small instance: one key pair, two wallets, and rent*)
(* of a lamport or two per account.                                        *)
(***************************************************************************)
EXTENDS MintAccount2022

CONSTANTS m1, u1, u2, ata1, ata2, metas1

MCAtaOf == [m \in MintAddresses |-> [u \in Users |-> IF u = u1 THEN ata1 ELSE ata2]]
MCMetasOf == [m \in MintAddresses |-> metas1]

\* A mint of length 3, 4 or 5 with its metadata; one lamport for every two bytes.
MCMinimumBalance == [len \in 1..5 |-> (len + 1) \div 2]

MCInitialFunds ==
    [addr \in Addresses |-> IF addr = u1 THEN 6 ELSE IF addr = u2 THEN 2 ELSE 0]

=============================================================================
