---------------------------- MODULE TokenClient -----------------------------
(***************************************************************************)
(* client/client.ts, the script that calls the token instructions of       *)
(* anrx_eur_coin, and the chain it calls them on.  A session is one start  *)
(* of the script with the wallet of its .env file; it runs the operation   *)
(* that main() has not commented out, sends at most one transaction, says  *)
(* how it went, and ends.  Everybody else may call the program too.        *)
(***************************************************************************)
EXTENDS Token

CONSTANTS
    Sessions,
    Payer,            \* per session, the wallet of the key in .env
    OwnMintAta,       \* per wallet, its associated account of the mint "itself"
    CLIENT_METADATA, CLIENT_UPDATE,
    CLIENT_AMOUNT     \* mintAmount

VARIABLES
    session,          \* where a session is, its operation, what it has printed
    tx,               \* what became of its transaction
    authority_file    \* whether ./mint-authority-keypair.json is there

clientVars == <<session, tx, authority_file>>
allVars == <<tokenVars, clientVars>>

Operations == {"init", "revoke", "revokeV2", "mint", "update", "ata"}
Ends == {"done", "stopped"}

\* Two derivations from different mints never agree.
ASSUME ClientAssumption ==
    /\ Payer \in [Sessions -> Users]
    /\ \A u, v \in Users : OwnMintAta[u] # Ata[v]
    /\ {CLIENT_METADATA, CLIENT_UPDATE} \subseteq MetadataValues
    /\ CLIENT_AMOUNT \in U64 \ {0}

Goes(s, at) == session' = [session EXCEPT ![s].at = at]
Ended(s, at, said) ==
    session' = [session EXCEPT ![s].at = at, ![s].said = said]

-----------------------------------------------------------------------------
\* Before the transaction.

\* main().  revokeMintAuthorityV2 fails before it sends anything, on a key file
\* of another machine or on the signature of the mint, and catches that.
RunOperation(s, op) ==
    /\ session[s].at = "not_started"
    /\ session' = [session EXCEPT ![s] =
          CASE op \in {"init", "ata"} ->
                 [at |-> "look", op |-> op, said |-> "nothing"]
            [] op \in {"revoke", "mint", "update"} ->
                 [at |-> "call", op |-> op, said |-> "nothing"]
            [] op = "revokeV2" ->
                 [at |-> "done", op |-> op, said |-> "error"]]
    /\ UNCHANGED <<tokenVars, tx, authority_file>>

\* initToken asks for the mint first; the answer may be one from before the
\* mint was finalized.
LookForMint(s) ==
    /\ session[s].at = "look" /\ session[s].op = "init"
    /\ \E info \in {mint, NoAccount} :
          Goes(s, IF info # NoAccount THEN "done" ELSE "load_key")
    /\ UNCHANGED <<tokenVars, tx, authority_file>>

\* No answer: nothing catches it.
LookFails(s) ==
    /\ session[s].at = "look" /\ session[s].op = "init"
    /\ Goes(s, "stopped")
    /\ UNCHANGED <<tokenVars, tx, authority_file>>

\* The file is taken to be there.
LoadMintKeypair_NotSaved(s) ==
    /\ session[s].at = "load_key"
    /\ Goes(s, "call")
    /\ UNCHANGED <<tokenVars, tx, authority_file>>

\* loadMintKeypair; the key is not used for anything, the mint is derived.
LoadMintKeypair(s) ==
    /\ session[s].at = "load_key"
    /\ Goes(s, IF authority_file THEN "call" ELSE "save_key")
    /\ UNCHANGED <<tokenVars, tx, authority_file>>

SaveMintKeypair(s) ==
    /\ session[s].at = "save_key"
    /\ authority_file' = TRUE
    /\ Goes(s, "call")
    /\ UNCHANGED <<tokenVars, tx>>

\* createAssociatedTokenAccount: any error of getAccount, an old answer or no
\* answer included, is taken for an account that does not exist.
LookForAta(s) ==
    /\ session[s].at = "look" /\ session[s].op = "ata"
    /\ \E found \in {Open(Ata[Payer[s]]), FALSE} :
          Goes(s, IF found THEN "done" ELSE "call")
    /\ UNCHANGED <<tokenVars, tx, authority_file>>

-----------------------------------------------------------------------------
\* The transaction.

Send(s) ==
    /\ session[s].at = "call"
    /\ tx[s] = "none"
    /\ tx' = [tx EXCEPT ![s] = "in_flight"]
    /\ UNCHANGED <<tokenVars, session, authority_file>>

InFlight(s, op) == session[s].op = op /\ tx[s] = "in_flight"

\* The program runs transaction s and accepts it or not.
Executed(s, accepted) ==
    /\ tx' = [tx EXCEPT ![s] = IF accepted THEN "landed" ELSE "failed"]
    /\ UNCHANGED <<session, authority_file>>

InitLands(s) ==
    /\ InFlight(s, "init")
    /\ InitToken(Payer[s], CLIENT_METADATA)
    /\ Executed(s, TRUE)

RevokeLands(s) ==
    /\ InFlight(s, "revoke")
    /\ RevokeMintAuthority(Payer[s])
    /\ Executed(s, TRUE)

AtaLands(s) ==
    /\ InFlight(s, "ata")
    /\ OpenTokenAccount(Ata[Payer[s]], Payer[s])
    /\ Executed(s, TRUE)

\* The destination, were it derived from the mint.
Destination_OfMint(u) == Ata[u]

\* associatedAddress({ mint: payer, owner: payer }).
Destination(u) == OwnMintAta[u]

\* mint_tokens creates its destination, at the associated address of the mint.
MintExecuted(s) ==
    LET u == Payer[s]
        accepted == Destination(u) = Ata[u] /\ MintAccepted(u, CLIENT_AMOUNT)
    IN /\ InFlight(s, "mint")
       /\ IF accepted THEN MintTokens(u, CLIENT_AMOUNT) ELSE UNCHANGED tokenVars
       /\ Executed(s, accepted)

\* updateMetadataV2, the operation main() runs as it stands.
UpdateExecuted(s) ==
    /\ InFlight(s, "update")
    /\ UpdateMetadata(Payer[s], MetadataKey, CLIENT_UPDATE)
    /\ Executed(s, UpdateMetadataAccepted(Payer[s], MetadataKey))

\* Refused before it runs, or its block hash has expired.
Fail(s) ==
    /\ tx[s] = "in_flight"
    /\ tx' = [tx EXCEPT ![s] = "failed"]
    /\ UNCHANGED <<tokenVars, session, authority_file>>

Execute(s) ==
    \/ InitLands(s) \/ RevokeLands(s) \/ AtaLands(s)
    \/ MintExecuted(s) \/ UpdateExecuted(s) \/ Fail(s)

-----------------------------------------------------------------------------
\* After the transaction.

Confirmed(s) ==
    /\ session[s].at = "call"
    /\ tx[s] = "landed"
    /\ Ended(s, "done", "success")
    /\ UNCHANGED <<tokenVars, tx, authority_file>>

\* What is printed, were every catch like the one of the account helper.
Printed_AsHelper(op, sent) == IF sent THEN {"success"} ELSE {"success", "error"}

(***************************************************************************)
(* What is printed after an error.  The account helper catches it on the   *)
(* inside and prints "Transaction Done!"; its outer catch only sees that   *)
(* there is no provider to send with.                                      *)
(***************************************************************************)
Printed(op, sent) ==
    CASE op = "ata" /\ sent -> {"success"}
      [] op = "ata" /\ ~sent -> {"success", "error"}
      [] op # "ata" -> {"error"}

\* An error, were a transaction that never lands to be awaited for ever.
Throws_Answered(s) ==
    /\ session[s].at = "call"
    /\ tx[s] \in {"none", "landed"}
    /\ \E said \in Printed(session[s].op, tx[s] # "none") :
          Ended(s, IF session[s].op = "mint" THEN "stopped" ELSE "done", said)
    /\ UNCHANGED <<tokenVars, tx, authority_file>>

\* The call throws: nothing could be sent, the transaction failed, or no
\* confirmation arrived in time, whatever becomes of the transaction.
\* mintTokens catches nothing, and main() rejects.
Throws(s) ==
    /\ session[s].at = "call"
    /\ \E said \in Printed(session[s].op, tx[s] # "none") :
          Ended(s, IF session[s].op = "mint" THEN "stopped" ELSE "done", said)
    /\ UNCHANGED <<tokenVars, tx, authority_file>>

\* The operator stops the session.
Kill(s) ==
    /\ session[s].at \notin {"not_started"} \cup Ends
    /\ Goes(s, "stopped")
    /\ UNCHANGED <<tokenVars, tx, authority_file>>

-----------------------------------------------------------------------------
ClientInit ==
    /\ TokenInit
    /\ session = [s \in Sessions |->
                    [at |-> "not_started", op |-> "none", said |-> "nothing"]]
    /\ tx = [s \in Sessions |-> "none"]
    /\ authority_file \in BOOLEAN

Step(s) ==
    \/ LookForMint(s) \/ LookFails(s) \/ LookForAta(s)
    \/ LoadMintKeypair(s) \/ SaveMintKeypair(s)
    \/ Send(s) \/ Confirmed(s) \/ Throws(s)

OthersCall == TokenNext /\ UNCHANGED clientVars

ClientNext ==
    \/ \E s \in Sessions :
          \/ \E op \in Operations : RunOperation(s, op)
          \/ Step(s) \/ Execute(s) \/ Kill(s)
    \/ OthersCall

\* The event loop of a session goes on, and a transaction is executed or its
\* block hash expires.
ClientSpec ==
    /\ ClientInit /\ [][ClientNext]_allVars
    /\ \A s \in Sessions : WF_allVars(Step(s)) /\ WF_allVars(Execute(s))

-----------------------------------------------------------------------------
(***************************************************************************)
(* Properties.                                                             *)
(***************************************************************************)

\* Types; a session that calls initToken has its key file, and a transaction
\* belongs to an operation that sends one.
ClientTypeOK ==
    /\ TokenTypeOK
    /\ session \in [Sessions ->
          [at : {"not_started", "look", "load_key", "save_key", "call"} \cup Ends,
           op : Operations \cup {"none"}, said : {"nothing", "success", "error"}]]
    /\ tx \in [Sessions -> {"none", "in_flight", "landed", "failed"}]
    /\ authority_file \in BOOLEAN
    /\ \A s \in Sessions :
          /\ session[s].op = "init" /\ tx[s] # "none" => authority_file
          /\ tx[s] # "none" => session[s].op \notin {"none", "revokeV2"}

(***************************************************************************)
(* What a session has printed is so and stays so, whatever the other       *)
(* sessions and callers do, and whatever answers were lost: one that has   *)
(* initialized the token (client.ts:143) has the authority unless it was   *)
(* revoked, one that has revoked (client.ts:180) has ended issuing for     *)
(* ever, and none reports that it minted or updated anything.  The account *)
(* helper is left out: it prints success after any error (client.ts:613).  *)
(***************************************************************************)
ReportsAreTrue ==
    \A s \in Sessions : session[s].said = "success" =>
        /\ session[s].op \in {"init", "revoke", "ata"}
        /\ session[s].op = "init" =>
              mint # NoAccount /\ mint.authority \in {Payer[s], NoAccount}
        /\ session[s].op = "revoke" =>
              mint # NoAccount /\ mint.authority = NoAccount

\* No coin is ever issued through the script, in any order of its operations
\* and whoever runs it: mintTokens names a destination derived from the wrong
\* mint (client.ts:337).  Coins appear by calls of others alone.
ClientNeverIssues ==
    [][mint # NoAccount /\ mint'.supply > mint.supply =>
          UNCHANGED clientVars]_allVars

\* Whatever happens to its transaction, an operation comes to an end
\* (client.ts:585): no lost answer leaves the script waiting.
ClientOperationsEnd ==
    \A s \in Sessions : session[s].op # "none" ~> session[s].at \in Ends

=============================================================================
