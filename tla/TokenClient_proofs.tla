------------------------- MODULE TokenClient_proofs -------------------------
(***************************************************************************)
(* Theorems of TokenClient, for every number of sessions and wallets: a    *)
(* session sends what it has prepared, what it reports is so and stays so, *)
(* and no coin is issued through the script.                               *)
(*                                                                         *)
(* A report rests on a transaction that landed, and what landed cannot be  *)
(* undone: nothing replaces a mint or its authority (MintStays).  That is  *)
(* why an answer that is stale or lost never makes a report false.         *)
(***************************************************************************)
EXTENDS TokenClient, Token_proofs

Ats == {"not_started", "look", "load_key", "save_key", "call"} \cup Ends
Saids == {"nothing", "success", "error"}
SessionRecords == [at : Ats, op : Operations \cup {"none"}, said : Saids]
TxStates == {"none", "in_flight", "landed", "failed"}

Typed ==
    /\ TokenTypeOK
    /\ session \in [Sessions -> SessionRecords]
    /\ tx \in [Sessions -> TxStates]
    /\ authority_file \in BOOLEAN

\* What a session has prepared for its transaction.
Prepared(s) ==
    /\ session[s].at = "not_started" => tx[s] = "none" /\ session[s].said = "nothing"
    /\ session[s].at \in {"load_key", "save_key"} => session[s].op = "init"
    /\ session[s].at = "call" =>
          /\ session[s].op \notin {"none", "revokeV2"}
          /\ session[s].op = "init" => authority_file
    /\ tx[s] # "none" =>
          /\ session[s].op \notin {"none", "revokeV2"}
          /\ session[s].op = "init" => authority_file

\* What a landed transaction has left on chain, and what a report rests on.
Landed(s) ==
    tx[s] = "landed" =>
        /\ session[s].op \in {"init", "revoke", "ata"}
        /\ session[s].op = "init" =>
              mint # NoAccount /\ mint.authority \in {Payer[s], NoAccount}
        /\ session[s].op = "revoke" =>
              mint # NoAccount /\ mint.authority = NoAccount

Reported(s) ==
    session[s].said = "success" =>
        session[s].op = "ata" \/ (session[s].op \in {"init", "revoke"} /\ tx[s] = "landed")

ClientInv ==
    /\ Typed
    /\ \A s \in Sessions : Prepared(s) /\ Landed(s) /\ Reported(s)

-----------------------------------------------------------------------------
LEMMA TypesAndReports == ClientInv => ClientTypeOK /\ ReportsAreTrue
<1> SUFFICES ASSUME ClientInv PROVE ClientTypeOK /\ ReportsAreTrue
  OBVIOUS
<1>1. ClientTypeOK
  BY DEF ClientInv, Typed, Prepared, ClientTypeOK, SessionRecords, TxStates, Ats, Saids
<1>2. ReportsAreTrue
  BY DEF ClientInv, Landed, Reported, ReportsAreTrue
<1> QED
  BY <1>1, <1>2

LEMMA ClientInitInv == ClientInit => ClientInv
<1> SUFFICES ASSUME ClientInit PROVE ClientInv
  OBVIOUS
<1>1. Typed
  BY TokenTypeInit DEF ClientInit, Typed, SessionRecords, TxStates, Ats, Saids
<1>2. ASSUME NEW s \in Sessions PROVE Prepared(s) /\ Landed(s) /\ Reported(s)
  BY DEF ClientInit, Prepared, Landed, Reported
<1> QED
  BY <1>1, <1>2 DEF ClientInv

-----------------------------------------------------------------------------
\* Only session s, and of it only what the names say, has changed.
OthersStay(s) == \A t \in Sessions \ {s} : session'[t] = session[t]

LEMMA GoesChanges ==
  ASSUME Typed, NEW s \in Sessions, NEW at \in Ats, Goes(s, at)
  PROVE  /\ session' \in [Sessions -> SessionRecords] /\ OthersStay(s)
         /\ session'[s].at = at /\ session'[s].op = session[s].op
         /\ session'[s].said = session[s].said
<1>1. session[s] \in SessionRecords
  BY DEF Typed
<1>2. [session[s] EXCEPT !.at = at] \in SessionRecords
  BY <1>1 DEF SessionRecords
<1>3. session'[s] = [session[s] EXCEPT !.at = at]
  BY DEF Goes, Typed
<1>4. session' \in [Sessions -> SessionRecords] /\ OthersStay(s)
  BY <1>2 DEF OthersStay, Goes, Typed
<1> QED
  BY <1>1, <1>3, <1>4 DEF SessionRecords

LEMMA EndedChanges ==
  ASSUME Typed, NEW s \in Sessions, NEW at \in Ats, NEW said \in Saids, Ended(s, at, said)
  PROVE  /\ session' \in [Sessions -> SessionRecords] /\ OthersStay(s)
         /\ session'[s].at = at /\ session'[s].op = session[s].op
         /\ session'[s].said = said
<1>1. session[s] \in SessionRecords
  BY DEF Typed
<1>2. [session[s] EXCEPT !.at = at, !.said = said] \in SessionRecords
  BY <1>1 DEF SessionRecords
<1>3. session'[s] = [session[s] EXCEPT !.at = at, !.said = said]
  BY DEF Ended, Typed
<1>4. session' \in [Sessions -> SessionRecords] /\ OthersStay(s)
  BY <1>2, <1>3 DEF OthersStay, Ended, Typed
<1> QED
  BY <1>1, <1>3, <1>4 DEF SessionRecords

-----------------------------------------------------------------------------
\* mint_tokens and update_metadata refuse every call of the script.
LEMMA NeverMints ==
  ASSUME NEW s \in Sessions, MintExecuted(s)
  PROVE  UNCHANGED tokenVars /\ Executed(s, FALSE)
<1>1. Payer[s] \in Users /\ Destination(Payer[s]) # Ata[Payer[s]]
  BY ClientAssumption DEF Destination
<1> QED
  BY <1>1 DEF MintExecuted

LEMMA NeverUpdates ==
  ASSUME NEW s \in Sessions, UpdateExecuted(s)
  PROVE  /\ Executed(s, FALSE)
         /\ UNCHANGED mint
         /\ TokenNext
<1>1. Payer[s] \in Users /\ Payer[s] # MetadataKey
  BY ClientAssumption, TokenAssumption DEF Signers
<1>2. ~UpdateMetadataAccepted(Payer[s], MetadataKey)
  BY <1>1 DEF UpdateMetadataAccepted
<1>3. TokenNext
  <2>1. UpdateMetadata(Payer[s], MetadataKey, CLIENT_UPDATE) /\ CLIENT_UPDATE \in MetadataValues
    BY ClientAssumption DEF UpdateExecuted
  <2> QED
    BY <2>1, <1>1 DEF TokenNext, TokenCalls, Signers
<1> QED
  BY <1>2, <1>3 DEF UpdateExecuted, UpdateMetadata, Executed

\* Whatever a session does, the chain takes a step of Token or none.
LEMMA StepsAreTokenSteps ==
  ASSUME [ClientNext]_allVars
  PROVE  [TokenNext]_tokenVars
<1>1. CASE UNCHANGED allVars
  BY <1>1 DEF allVars
<1>2. CASE OthersCall
  BY <1>2 DEF OthersCall
<1>3. ASSUME NEW s \in Sessions,
             (\E op \in Operations : RunOperation(s, op)) \/ Step(s) \/ Kill(s)
      PROVE  UNCHANGED tokenVars
  BY <1>3 DEF RunOperation, Step, Kill, LookForMint, LookFails, LookForAta,
       LoadMintKeypair, SaveMintKeypair, Send, Confirmed, Throws
<1>4. ASSUME NEW s \in Sessions, Execute(s)
      PROVE  [TokenNext]_tokenVars
  <2>1. Payer[s] \in Users /\ CLIENT_METADATA \in MetadataValues
    BY ClientAssumption
  <2>2. CASE InitLands(s)
    BY <2>1, <2>2 DEF InitLands, TokenNext, TokenCalls
  <2>3. CASE RevokeLands(s)
    BY <2>1, <2>3 DEF RevokeLands, TokenNext, TokenCalls
  <2>4. CASE AtaLands(s)
    <3>1. Ata[Payer[s]] \in TokenAddresses /\ Payer[s] \in Signers
      BY <2>1, TokenAssumption DEF TokenAddresses, Signers
    <3> QED
      BY <3>1, <2>4 DEF AtaLands, TokenNext, Wallet
  <2>5. CASE MintExecuted(s)
    BY <2>5, NeverMints
  <2>6. CASE UpdateExecuted(s)
    BY <2>6, NeverUpdates
  <2>7. CASE Fail(s)
    BY <2>7 DEF Fail
  <2> QED
    BY <1>4, <2>2, <2>3, <2>4, <2>5, <2>6, <2>7 DEF Execute
<1> QED
  BY <1>1, <1>2, <1>3, <1>4 DEF ClientNext

-----------------------------------------------------------------------------
\* A session that does nothing keeps what it knows, whatever the chain does.
LEMMA OthersKeep ==
  ASSUME ClientInv, [TokenNext]_tokenVars, NEW t \in Sessions,
         session'[t] = session[t], tx'[t] = tx[t], authority_file => authority_file'
  PROVE  Prepared(t)' /\ Landed(t)' /\ Reported(t)'
<1>1. Prepared(t) /\ Landed(t) /\ Reported(t) /\ TokenTypeOK
  BY DEF ClientInv, Typed
<1>2. Prepared(t)' /\ Reported(t)'
  BY <1>1 DEF Prepared, Reported
<1>3. mint # NoAccount => mint' # NoAccount /\ mint'.authority \in {mint.authority, NoAccount}
  BY <1>1, MintStays
<1>4. Landed(t)'
  BY <1>1, <1>3 DEF Landed
<1> QED
  BY <1>2, <1>4

\* So only the session that moves is left to look at.
LEMMA OneMoves ==
  ASSUME ClientInv, [TokenNext]_tokenVars, NEW s \in Sessions,
         session' \in [Sessions -> SessionRecords], OthersStay(s),
         tx' \in [Sessions -> TxStates], \A t \in Sessions \ {s} : tx'[t] = tx[t],
         authority_file' \in BOOLEAN, authority_file => authority_file',
         Prepared(s)', Landed(s)', Reported(s)'
  PROVE  ClientInv'
<1>1. Typed'
  BY TokenTypeStep DEF ClientInv, Typed
<1>2. ASSUME NEW t \in Sessions, t # s PROVE Prepared(t)' /\ Landed(t)' /\ Reported(t)'
  BY <1>2, OthersKeep DEF OthersStay
<1> QED
  BY <1>1, <1>2 DEF ClientInv

\* Before the transaction.
LEMMA BeforeInv ==
  ASSUME ClientInv, NEW s \in Sessions, [TokenNext]_tokenVars,
         \/ \E op \in Operations : RunOperation(s, op)
         \/ LookForMint(s) \/ LookFails(s) \/ LookForAta(s)
         \/ LoadMintKeypair(s) \/ SaveMintKeypair(s) \/ Kill(s)
  PROVE  ClientInv'
<1>1. Typed /\ Prepared(s) /\ Landed(s) /\ Reported(s)
  BY DEF ClientInv
<1>2. /\ tx' = tx /\ mint' = mint /\ tx \in [Sessions -> TxStates]
      /\ authority_file \in BOOLEAN
  BY <1>1 DEF Typed, RunOperation, LookForMint, LookFails, LookForAta, LoadMintKeypair,
       SaveMintKeypair, Kill, tokenVars
<1>3. ASSUME NEW op \in Operations, RunOperation(s, op) PROVE ClientInv'
  <2> DEFINE r == CASE op \in {"init", "ata"} ->
                         [at |-> "look", op |-> op, said |-> "nothing"]
                    [] op \in {"revoke", "mint", "update"} ->
                         [at |-> "call", op |-> op, said |-> "nothing"]
                    [] op = "revokeV2" ->
                         [at |-> "done", op |-> op, said |-> "error"]
  <2>1. /\ r \in SessionRecords /\ r.op = op /\ r.said \in {"nothing", "error"}
        /\ r.at \in {"look", "call", "done"}
        /\ r.at = "call" => op \in {"revoke", "mint", "update"}
    BY DEF Operations, SessionRecords, Ats, Saids, Ends
  <2>2. session' = [session EXCEPT ![s] = r] /\ authority_file' = authority_file
    BY <1>3 DEF RunOperation
  <2>3. session' \in [Sessions -> SessionRecords] /\ OthersStay(s) /\ session'[s] = r
    <3> HIDE DEF r
    <3> QED
      BY <2>1, <2>2, <1>1 DEF Typed, OthersStay
  <2>4. tx[s] = "none"
    BY <1>3, <1>1 DEF RunOperation, Prepared
  <2>5. Prepared(s)' /\ Landed(s)' /\ Reported(s)'
    <3> HIDE DEF r
    <3> QED
      BY <2>1, <2>3, <2>4, <1>2 DEF Prepared, Landed, Reported
  <2> QED
    BY <2>2, <2>3, <2>5, <1>2, OneMoves
<1>4. ASSUME NEW at \in Ats \ {"not_started"}, Goes(s, at),
             at \in {"load_key", "save_key"} => session[s].op = "init",
             at = "call" => /\ session[s].op \notin {"none", "revokeV2"}
                            /\ session[s].op = "init" => authority_file',
             authority_file' \in BOOLEAN, authority_file => authority_file'
      PROVE  ClientInv'
  <2>1. /\ session' \in [Sessions -> SessionRecords] /\ OthersStay(s)
        /\ session'[s].at = at /\ session'[s].op = session[s].op
        /\ session'[s].said = session[s].said
    BY <1>1, <1>4, GoesChanges
  <2>2. Prepared(s)' /\ Landed(s)' /\ Reported(s)'
    BY <2>1, <1>1, <1>2, <1>4 DEF Prepared, Landed, Reported
  <2> QED
    BY <2>1, <2>2, <1>2, <1>4, OneMoves
<1>5. CASE LookForMint(s)
  <2>1. PICK at \in {"done", "load_key"} : Goes(s, at)
    BY <1>5 DEF LookForMint
  <2> QED
    BY <2>1, <1>2, <1>4, <1>5 DEF LookForMint, Ats, Ends
<1>6. CASE LookFails(s)
  BY <1>2, <1>4, <1>6 DEF LookFails, Ats, Ends
<1>7. CASE LookForAta(s)
  <2>1. PICK at \in {"done", "call"} : Goes(s, at)
    BY <1>7 DEF LookForAta
  <2> QED
    BY <2>1, <1>2, <1>4, <1>7 DEF LookForAta, Ats, Ends
<1>8. CASE LoadMintKeypair(s)
  <2>1. session[s].op = "init"
    BY <1>1, <1>8 DEF LoadMintKeypair, Prepared
  <2>2. CASE authority_file
    BY <2>1, <2>2, <1>2, <1>4, <1>8 DEF LoadMintKeypair, Ats
  <2>3. CASE ~authority_file
    BY <2>1, <2>3, <1>2, <1>4, <1>8 DEF LoadMintKeypair, Ats
  <2> QED
    BY <2>2, <2>3
<1>9. CASE SaveMintKeypair(s)
  <2>1. session[s].op = "init"
    BY <1>1, <1>9 DEF SaveMintKeypair, Prepared
  <2> QED
    BY <2>1, <1>4, <1>9 DEF SaveMintKeypair, Ats
<1>10. CASE Kill(s)
  BY <1>2, <1>4, <1>10 DEF Kill, Ats, Ends
<1> QED
  BY <1>3, <1>5, <1>6, <1>7, <1>8, <1>9, <1>10

\* The transaction: sent, and executed or refused.
LEMMA TransactionInv ==
  ASSUME ClientInv, NEW s \in Sessions, [TokenNext]_tokenVars, Send(s) \/ Execute(s)
  PROVE  ClientInv'
<1>1. Typed /\ Prepared(s) /\ Landed(s) /\ Reported(s)
  BY DEF ClientInv
<1>2. session' = session /\ authority_file' = authority_file
  BY DEF Send, Execute, InitLands, RevokeLands, AtaLands, MintExecuted, UpdateExecuted,
         Executed, Fail
<1>3. ASSUME NEW now \in TxStates, tx' = [tx EXCEPT ![s] = now],
             session[s].said = "success" => session[s].op = "ata",
             session[s].op \notin {"none", "revokeV2"},
             session[s].op = "init" => authority_file,
             session[s].at # "not_started",
             Landed(s)'
      PROVE  ClientInv'
  <2>1. /\ tx' \in [Sessions -> TxStates] /\ tx'[s] = now
        /\ \A t \in Sessions \ {s} : tx'[t] = tx[t]
    BY <1>1, <1>3 DEF Typed
  <2>2. session' \in [Sessions -> SessionRecords] /\ OthersStay(s)
    BY <1>1, <1>2 DEF Typed, OthersStay
  <2>3. Prepared(s)'
    BY <1>1, <1>2, <1>3, <2>1 DEF Prepared
  <2>4. Reported(s)'
    BY <1>2, <1>3 DEF Reported
  <2>5. authority_file' \in BOOLEAN /\ (authority_file => authority_file')
    BY <1>1, <1>2 DEF Typed
  <2> QED
    BY <1>3, <2>1, <2>2, <2>3, <2>4, <2>5, OneMoves
<1>4. CASE Send(s)
  <2>1. /\ tx' = [tx EXCEPT ![s] = "in_flight"] /\ tx[s] = "none" /\ session[s].at = "call"
        /\ "in_flight" \in TxStates /\ tx'[s] = "in_flight"
    BY <1>1, <1>4 DEF Send, TxStates, Typed
  <2>2. session[s].said = "success" => session[s].op = "ata"
    BY <1>1, <2>1 DEF Reported
  <2>3. Landed(s)'
    BY <2>1 DEF Landed
  <2>4. /\ session[s].op \notin {"none", "revokeV2"}
        /\ session[s].op = "init" => authority_file
        /\ session[s].at # "not_started"
    BY <1>1, <2>1 DEF Prepared
  <2> QED
    BY <2>1, <2>2, <2>3, <2>4, <1>3
<1>5. CASE Execute(s)
  <2>1. tx[s] = "in_flight"
    BY <1>5 DEF Execute, InitLands, RevokeLands, AtaLands, MintExecuted, UpdateExecuted,
         Fail, InFlight
  <2>2. /\ session[s].said = "success" => session[s].op = "ata"
        /\ session[s].op \notin {"none", "revokeV2"}
        /\ session[s].op = "init" => authority_file
        /\ session[s].at # "not_started"
    BY <1>1, <2>1 DEF Reported, Prepared
  <2>3. ASSUME tx' = [tx EXCEPT ![s] = "failed"] PROVE ClientInv'
    <3>1. "failed" \in TxStates /\ tx'[s] = "failed"
      BY <1>1, <2>3 DEF TxStates, Typed
    <3>2. Landed(s)'
      BY <3>1 DEF Landed
    <3> QED
      BY <2>2, <2>3, <3>1, <3>2, <1>3
  <2>4. ASSUME tx' = [tx EXCEPT ![s] = "landed"], Landed(s)' PROVE ClientInv'
    BY <2>2, <2>4, <1>3 DEF TxStates
  <2>5. CASE InitLands(s)
    <3>1. /\ mint' = [authority |-> Payer[s], supply |-> 0]
          /\ session[s].op = "init" /\ tx' = [tx EXCEPT ![s] = "landed"]
      BY <2>5 DEF InitLands, InitToken, InFlight, Executed
    <3>2. mint' \in Mints
      BY <3>1, ClientAssumption, SolanaAssumption DEF Mints, U64
    <3>3. mint' # NoAccount
      BY <3>2, TokenAccountAssumption
    <3>4. Landed(s)'
      BY <3>1, <3>3, <1>2 DEF Landed
    <3> QED
      BY <3>1, <3>4, <2>4
  <2>6. CASE RevokeLands(s)
    <3>1. /\ RevokeMintAuthority(Payer[s]) /\ Payer[s] \in Users
          /\ session[s].op = "revoke" /\ tx' = [tx EXCEPT ![s] = "landed"]
      BY <2>6, ClientAssumption DEF RevokeLands, InFlight, Executed
    <3>2. mint' \in Mints /\ mint'.authority = NoAccount
      BY <3>1, <1>1, Revoked DEF Typed
    <3>3. mint' # NoAccount
      BY <3>2, TokenAccountAssumption
    <3>4. Landed(s)'
      BY <3>1, <3>2, <3>3, <1>2 DEF Landed
    <3> QED
      BY <3>1, <3>4, <2>4
  <2>7. CASE AtaLands(s)
    <3>1. session[s].op = "ata" /\ tx' = [tx EXCEPT ![s] = "landed"]
      BY <2>7 DEF AtaLands, InFlight, Executed
    <3>2. Landed(s)'
      BY <3>1, <1>2 DEF Landed
    <3> QED
      BY <3>1, <3>2, <2>4
  <2>8. CASE MintExecuted(s)
    BY <2>8, <2>3, NeverMints DEF Executed
  <2>9. CASE UpdateExecuted(s)
    BY <2>9, <2>3, NeverUpdates DEF Executed
  <2>10. CASE Fail(s)
    BY <2>10, <2>3 DEF Fail
  <2> QED
    BY <1>5, <2>5, <2>6, <2>7, <2>8, <2>9, <2>10 DEF Execute
<1> QED
  BY <1>4, <1>5

\* The end: what is printed.
LEMMA EndInv ==
  ASSUME ClientInv, NEW s \in Sessions, [TokenNext]_tokenVars, Confirmed(s) \/ Throws(s)
  PROVE  ClientInv'
<1>1. Typed /\ Prepared(s) /\ Landed(s) /\ Reported(s)
  BY DEF ClientInv
<1>2. /\ tx' = tx /\ mint' = mint /\ authority_file' = authority_file
      /\ tx \in [Sessions -> TxStates] /\ authority_file \in BOOLEAN
  BY <1>1 DEF Typed, Confirmed, Throws, tokenVars
<1>3. ASSUME NEW at \in Ends, NEW said \in Saids, Ended(s, at, said),
             said = "success" => \/ session[s].op = "ata"
                                 \/ session[s].op \in {"init", "revoke"} /\ tx[s] = "landed"
      PROVE  ClientInv'
  <2>1. at \in Ats /\ at \notin {"not_started", "load_key", "save_key", "call"}
    BY DEF Ats, Ends
  <2>2. /\ session' \in [Sessions -> SessionRecords] /\ OthersStay(s)
        /\ session'[s].at = at /\ session'[s].op = session[s].op
        /\ session'[s].said = said
    BY <1>1, <1>3, <2>1, EndedChanges
  <2>3. Prepared(s)' /\ Landed(s)' /\ Reported(s)'
    BY <2>1, <2>2, <1>1, <1>2, <1>3 DEF Prepared, Landed, Reported
  <2> QED
    BY <2>2, <2>3, <1>2, OneMoves
<1>4. CASE Confirmed(s)
  <2>1. Ended(s, "done", "success") /\ tx[s] = "landed"
    BY <1>4 DEF Confirmed
  <2>2. session[s].op = "ata" \/ session[s].op \in {"init", "revoke"}
    BY <1>1, <2>1 DEF Landed
  <2> QED
    BY <2>1, <2>2, <1>3 DEF Ends, Saids
<1>5. CASE Throws(s)
  <2>1. PICK said \in Printed(session[s].op, tx[s] # "none") :
           Ended(s, IF session[s].op = "mint" THEN "stopped" ELSE "done", said)
    BY <1>5 DEF Throws
  <2>2. said \in {"success", "error"} /\ (said = "success" => session[s].op = "ata")
    BY <2>1 DEF Printed
  <2>3. CASE session[s].op = "mint"
    BY <2>1, <2>2, <2>3, <1>3 DEF Ends, Saids
  <2>4. CASE session[s].op # "mint"
    BY <2>1, <2>2, <2>4, <1>3 DEF Ends, Saids
  <2> QED
    BY <2>3, <2>4
<1> QED
  BY <1>4, <1>5

LEMMA ClientStepInv == ClientInv /\ [ClientNext]_allVars => ClientInv'
<1> SUFFICES ASSUME ClientInv, [ClientNext]_allVars PROVE ClientInv'
  OBVIOUS
<1>1. [TokenNext]_tokenVars
  BY StepsAreTokenSteps
<1>2. CASE UNCHANGED clientVars
  <2>1. session' = session /\ tx' = tx /\ authority_file' = authority_file
    BY <1>2 DEF clientVars
  <2>2. Typed'
    BY <1>1, <2>1, TokenTypeStep DEF ClientInv, Typed
  <2>3. ASSUME NEW t \in Sessions PROVE Prepared(t)' /\ Landed(t)' /\ Reported(t)'
    BY <1>1, <2>1, OthersKeep
  <2> QED
    BY <2>2, <2>3 DEF ClientInv
<1>3. ASSUME NEW s \in Sessions,
             \/ \E op \in Operations : RunOperation(s, op)
             \/ Step(s) \/ Execute(s) \/ Kill(s)
      PROVE  ClientInv'
  BY <1>1, <1>3, BeforeInv, TransactionInv, EndInv DEF Step
<1> QED
  BY <1>2, <1>3 DEF ClientNext, OthersCall, allVars, clientVars

-----------------------------------------------------------------------------
LEMMA ClientInvAlways == ClientSpec => []ClientInv
<1>1. ClientSpec => ClientInit /\ [][ClientNext]_allVars
  BY PTL DEF ClientSpec
<1> QED
  BY <1>1, ClientInitInv, ClientStepInv, PTL

\* A session that calls initToken has its key file, and a transaction belongs
\* to an operation that sends one (client.ts:120-140).
THEOREM ClientTypeCorrect == ClientSpec => []ClientTypeOK
<1>1. ClientInv => ClientTypeOK
  BY TypesAndReports
<1> QED
  BY <1>1, ClientInvAlways, PTL

\* What a session has reported stays true, for any number of sessions, any
\* calls of others and any answer lost (client.ts:143, 180).
THEOREM ReportsStayTrue == ClientSpec => []ReportsAreTrue
<1>1. ClientInv => ReportsAreTrue
  BY TypesAndReports
<1> QED
  BY <1>1, ClientInvAlways, PTL

\* The supply only grows by calls of others than the script (client.ts:337).
THEOREM NoIssueThroughClient == ClientSpec => ClientNeverIssues
<1>1. ASSUME ClientInv, [ClientNext]_allVars, mint # NoAccount, mint'.supply > mint.supply
      PROVE  UNCHANGED clientVars
  <2>1. TokenTypeOK /\ mint \in Mints /\ mint.supply \in Int
    BY <1>1, SolanaAssumption DEF ClientInv, Typed, TokenTypeOK, Mints, U64
  <2>2. ASSUME UNCHANGED mint PROVE FALSE
    BY <1>1, <2>1, <2>2
  <2>3. ASSUME NEW s \in Sessions,
               (\E op \in Operations : RunOperation(s, op)) \/ Step(s) \/ Kill(s)
        PROVE  FALSE
    BY <2>2, <2>3 DEF RunOperation, Step, Kill, LookForMint, LookFails, LookForAta,
         LoadMintKeypair, SaveMintKeypair, Send, Confirmed, Throws, tokenVars
  <2>4. ASSUME NEW s \in Sessions, Execute(s) PROVE FALSE
    <3>1. CASE InitLands(s)
      BY <3>1, <1>1 DEF InitLands, InitToken
    <3>2. CASE RevokeLands(s)
      BY <3>2, <1>1, <2>1, Revoked, ClientAssumption DEF RevokeLands
    <3>3. CASE AtaLands(s)
      BY <3>3, <2>2 DEF AtaLands, OpenTokenAccount
    <3>4. CASE MintExecuted(s)
      BY <3>4, <2>2, NeverMints DEF tokenVars
    <3>5. CASE UpdateExecuted(s)
      BY <3>5, <2>2, NeverUpdates
    <3>6. CASE Fail(s)
      BY <3>6, <2>2 DEF Fail, tokenVars
    <3> QED
      BY <2>4, <3>1, <3>2, <3>3, <3>4, <3>5, <3>6 DEF Execute
  <2> QED
    BY <1>1, <2>3, <2>4 DEF ClientNext, OthersCall, allVars, clientVars
<1>2. ClientInv /\ [ClientNext]_allVars =>
        [mint # NoAccount /\ mint'.supply > mint.supply => UNCHANGED clientVars]_allVars
  BY <1>1
<1>3. ClientSpec => [][ClientNext]_allVars
  BY PTL DEF ClientSpec
<1> QED
  BY <1>2, <1>3, ClientInvAlways, PTL DEF ClientNeverIssues

=============================================================================
