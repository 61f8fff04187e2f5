--------------------------- MODULE MCTokenClient ----------------------------
(***************************************************************************)
(* TokenClient with two sessions of different wallets; everybody may call  *)
(* the program, on the smallest token.                                     *)
(***************************************************************************)
EXTENDS TokenClient

CONSTANTS u1, u2, ata1, ata2, s1, s2

MCAta == [u \in Users |-> IF u = u1 THEN ata1 ELSE ata2]
MCOwnMintAta == [u \in Users |-> "elsewhere"]
MCPayer == [s \in Sessions |-> IF s = s1 THEN u1 ELSE u2]

=============================================================================
