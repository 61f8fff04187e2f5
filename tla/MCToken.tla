------------------------------- MODULE MCToken -------------------------------
(***************************************************************************)
(* Token on a small instance: two wallets with an associated account each, *)
(* one account at a key pair, a u64 small enough to overflow.              *)
(***************************************************************************)
EXTENDS Token

CONSTANTS u1, u2, ata1, ata2

MCAta == [u \in Users |-> IF u = u1 THEN ata1 ELSE ata2]

=============================================================================
