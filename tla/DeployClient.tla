--------------------------- MODULE DeployClient ----------------------------
(***************************************************************************)
(* client/deploy.ts, the script that puts a Token-2022 coin on chain.  A   *)
(* session is one start of the script: it loads its key files, runs the    *)
(* one operation that main() has not commented out, and ends.  Sessions    *)
(* share the key files and the chain; an operator may start one while      *)
(* another runs, stop one at any point, and start a new one after that.    *)
(*                                                                         *)
(* A session awaits one transaction at a time.  What it learns of it may   *)
(* be wrong: the call can throw although the transaction lands, and a      *)
(* session that is gone can leave a transaction behind that lands later.   *)
(***************************************************************************)
EXTENDS Naturals

CONSTANTS
    Sessions,
    MintKeys,           \* the key pairs Keypair.generate() may return for the mint
    AccountKeys,        \* ... and for the token account
    OldMintKey,         \* the key in the other file closeMintToken2022Account reads
    NoKey,              \* null, and no file at the path
    NoMint, NoTokenAccount,
    MAINNET,            \* whether RPC_URL names the mainnet
    MINT_AMOUNT,        \* deploy.ts:99
    U64_MAX

ASSUME KeysAssumption ==
    /\ NoKey \notin MintKeys \cup AccountKeys
    /\ OldMintKey \in MintKeys \cup {NoKey}

ASSUME NetworkAssumption == MAINNET \in BOOLEAN

ASSUME AmountAssumption ==
    /\ U64_MAX \in Nat
    /\ MINT_AMOUNT \in 1..U64_MAX

ASSUME NoAccountsAssumption ==
    /\ NoMint \notin [supply : 0..U64_MAX, authority : BOOLEAN]
    /\ NoTokenAccount \notin [mint : MintKeys, amount : 0..U64_MAX]

VARIABLES
    session,            \* the running script: where it is, and its module globals
    tx,                 \* the session's current transaction
    mint_file, account_file, \* MINT_KEYPAIR_PATH_FILE, TOKEN_ACCOUNT_KEYPAIR_PATH_FILE
    generated,          \* the keys Keypair.generate() has returned
    mints, token_accounts \* the chain

vars == <<session, tx, mint_file, account_file, generated, mints, token_accounts>>
files == <<mint_file, account_file, generated>>
chain == <<mints, token_accounts>>

KeyOperations == {"init", "revoke", "mintTokens"}
PriceOperations == {"getPriceUpdateData", "defineTokenPrice"}
Operations == KeyOperations \cup PriceOperations \cup {"close"}
Transactions == {"create", "open", "issue", "revoke", "close"}
Ends == {"done", "stopped"}

Running(s) == session[s].at \notin {"not_started"} \cup Ends

-----------------------------------------------------------------------------
\* The keys of a session.

\* let mintAcckeypair = loadKeypair(...); let tokenAccountKeypair = loadKeypair(...)
StartSession(s) ==
    /\ session[s].at = "not_started"
    /\ session' = [session EXCEPT ![s].at = "loading", ![s].mint = mint_file]
    /\ UNCHANGED <<tx, files, chain>>

LoadAccountKey(s) ==
    /\ session[s].at = "loading"
    /\ session' = [session EXCEPT ![s].at = "ready", ![s].account = account_file]
    /\ UNCHANGED <<tx, files, chain>>

\* The account key is taken to be there, as the mint key is.
FirstTransaction_NoAccountKey(account) == "create"

\* "init" deals with the account key next, if it has none.
FirstTransaction(account) == IF account = NoKey THEN "save_account" ELSE "create"

\* Where an operation goes once it has dealt with the mint key; "mintTokens"
\* derives an address from it and mints nothing.
AfterMintKey(op, account) ==
    CASE op = "init" -> FirstTransaction(account)
      [] op = "revoke" -> "revoke"
      [] op = "mintTokens" -> "done"

\* promptToProceed: "n" ends the process before main().
Decline(s) ==
    /\ MAINNET
    /\ session[s].at = "ready"
    /\ session' = [session EXCEPT ![s].at = "stopped"]
    /\ UNCHANGED <<tx, files, chain>>

\* main(), after the prompt of beforeMain.  A null mint key pair is generated
\* first; closing a mint whose key file is missing is a TypeError.
RunOperation(s, op) ==
    /\ session[s].at = "ready"
    /\ session' = [session EXCEPT
            ![s].op = op,
            ![s].at = CASE op = "close" /\ OldMintKey = NoKey -> "stopped"
                        [] op = "close" /\ OldMintKey # NoKey -> "close"
                        [] op \in PriceOperations -> "fetch"
                        [] op \in KeyOperations /\ session[s].mint = NoKey -> "save_mint"
                        [] op \in KeyOperations /\ session[s].mint # NoKey ->
                               AfterMintKey(op, session[s].account)]
    /\ UNCHANGED <<tx, files, chain>>

(***************************************************************************)
(* The price operations ask Hermes once.  getPriceUpdateData hands on what *)
(* comes back; defineTokenPrice catches an error, a missing feed included, *)
(* and returns null.  Neither result goes anywhere.                        *)
(***************************************************************************)
PricesFetched(s) ==
    /\ session[s].at = "fetch"
    /\ session' = [session EXCEPT ![s].at = "done"]
    /\ UNCHANGED <<tx, files, chain>>

FetchFailed(s) ==
    /\ session[s].at = "fetch"
    /\ session' = [session EXCEPT ![s].at =
            IF session[s].op = "defineTokenPrice" THEN "done" ELSE "stopped"]
    /\ UNCHANGED <<tx, files, chain>>

(***************************************************************************)
(* checkOrGenerateSaveAndLoadKeypair(null, path): it writes the file       *)
(* whether or not the file is there, then reads it back.                   *)
(***************************************************************************)
SaveMintKey(s) ==
    /\ session[s].at = "save_mint"
    /\ \E key \in MintKeys \ generated :
          /\ mint_file' = key
          /\ generated' = generated \cup {key}
    /\ session' = [session EXCEPT ![s].at = "read_mint"]
    /\ UNCHANGED <<tx, account_file, chain>>

ReadMintKey(s) ==
    /\ session[s].at = "read_mint"
    /\ session' = [session EXCEPT
            ![s].mint = mint_file,
            ![s].at = AfterMintKey(session[s].op, session[s].account)]
    /\ UNCHANGED <<tx, files, chain>>

SaveAccountKey(s) ==
    /\ session[s].at = "save_account"
    /\ \E key \in AccountKeys \ generated :
          /\ account_file' = key
          /\ generated' = generated \cup {key}
    /\ session' = [session EXCEPT ![s].at = "read_account"]
    /\ UNCHANGED <<tx, mint_file, chain>>

ReadAccountKey(s) ==
    /\ session[s].at = "read_account"
    /\ session' = [session EXCEPT ![s].account = account_file, ![s].at = "create"]
    /\ UNCHANGED <<tx, files, chain>>

-----------------------------------------------------------------------------
\* Transactions: sent, decided by the chain, answered or not.

\* sendAndConfirmTransaction, the sending half.
Send(s) ==
    /\ session[s].at \in Transactions
    /\ tx[s].status = "none"
    /\ tx' = [tx EXCEPT ![s] = [kind |-> session[s].at, status |-> "in_flight"]]
    /\ UNCHANGED <<session, files, chain>>

\* The chain executes transaction `kind` of session s, all of it or nothing.
Lands(s, kind) ==
    /\ tx[s] = [kind |-> kind, status |-> "in_flight"]
    /\ tx' = [tx EXCEPT ![s].status = "landed"]
    /\ UNCHANGED <<session, files>>

\* createAccount for the mint, its extensions, its authorities, its metadata.
CreateMint(s) ==
    LET m == session[s].mint
    IN /\ Lands(s, "create")
       /\ mints[m] = NoMint
       /\ mints' = [mints EXCEPT ![m] = [supply |-> 0, authority |-> TRUE]]
       /\ UNCHANGED token_accounts

\* createAccount for the token account, immutable owner, initializeAccount3.
OpenTokenAccount(s) ==
    LET m == session[s].mint
        a == session[s].account
    IN /\ Lands(s, "open")
       /\ mints[m] # NoMint
       /\ token_accounts[a] = NoTokenAccount
       /\ token_accounts' = [token_accounts EXCEPT ![a] = [mint |-> m, amount |-> 0]]
       /\ UNCHANGED mints

HasMint(a, m) == token_accounts[a] # NoTokenAccount /\ token_accounts[a].mint = m

\* mintToChecked of the whole amount.
IssueCoins(s) ==
    LET m == session[s].mint
        a == session[s].account
    IN /\ Lands(s, "issue")
       /\ mints[m] # NoMint /\ mints[m].authority
       /\ HasMint(a, m)
       /\ mints[m].supply + MINT_AMOUNT <= U64_MAX
       /\ mints' = [mints EXCEPT ![m].supply = @ + MINT_AMOUNT]
       /\ token_accounts' = [token_accounts EXCEPT ![a].amount = @ + MINT_AMOUNT]

\* setAuthority(MintTokens, null): nothing asks whether the coins were issued.
RevokeMintAuthority(s) ==
    LET m == session[s].mint
    IN /\ Lands(s, "revoke")
       /\ mints[m] # NoMint /\ mints[m].authority
       /\ mints' = [mints EXCEPT ![m].authority = FALSE]
       /\ UNCHANGED token_accounts

\* closeAccount on the mint of the other key file; only without a supply.
CloseMint(s) ==
    /\ Lands(s, "close")
    /\ mints[OldMintKey] # NoMint /\ mints[OldMintKey].supply = 0
    /\ mints' = [mints EXCEPT ![OldMintKey] = NoMint]
    /\ UNCHANGED token_accounts

Land(s) ==
    \/ CreateMint(s) \/ OpenTokenAccount(s) \/ IssueCoins(s)
    \/ RevokeMintAuthority(s) \/ CloseMint(s)

\* The chain rejects it, or its block hash expires before it is included.
Fail(s) ==
    /\ tx[s].status = "in_flight"
    /\ tx' = [tx EXCEPT ![s].status = "failed"]
    /\ UNCHANGED <<session, files, chain>>

\* The awaited transaction was confirmed: on to the next one.
AfterConfirmed(kind) ==
    CASE kind = "create" -> "open"
      [] kind = "open" -> "issue"
      [] kind \in {"issue", "revoke", "close"} -> "done"

Confirmed(s) ==
    /\ session[s].at \in Transactions
    /\ tx[s].status = "landed"
    /\ session' = [session EXCEPT ![s].at = AfterConfirmed(session[s].at)]
    /\ tx' = [tx EXCEPT ![s].status = "none"]
    /\ UNCHANGED <<files, chain>>

\* An error while creating: were the script to take it for "already exists".
AfterError_GoesOn(kind) ==
    IF kind = "revoke" THEN "stopped" ELSE AfterConfirmed(kind)

\* The catch blocks of the first operation and of the closing; the revocation
\* has none, and its rejected promise ends the process.
AfterError(kind) == IF kind = "revoke" THEN "stopped" ELSE "done"

\* An awaited call without a deadline of its own: only an answer ends it.
GaveUp_OnAnswer(s) == tx[s].status = "landed"

\* The call throws: the transaction failed, or no confirmation arrived in time,
\* whatever becomes of the transaction.
GaveUp(s) == tx[s].status # "none"

Throws(s) ==
    /\ session[s].at \in Transactions
    /\ GaveUp(s)
    /\ session' = [session EXCEPT ![s].at = AfterError(session[s].at)]
    /\ tx' = [tx EXCEPT ![s].status =
                 IF session'[s].at \in Ends THEN @ ELSE "none"]
    /\ UNCHANGED <<files, chain>>

\* The operator stops the session.
Kill(s) ==
    /\ Running(s)
    /\ session' = [session EXCEPT ![s].at = "stopped"]
    /\ UNCHANGED <<tx, files, chain>>

-----------------------------------------------------------------------------
DeployInit ==
    /\ session = [s \in Sessions |->
         [at |-> "not_started", op |-> "none", mint |-> NoKey, account |-> NoKey]]
    /\ tx = [s \in Sessions |-> [kind |-> "none", status |-> "none"]]
    /\ mint_file = NoKey /\ account_file = NoKey
    /\ generated = {OldMintKey} \ {NoKey}
    /\ mints = [m \in MintKeys |->
         IF m = OldMintKey THEN [supply |-> 0, authority |-> TRUE] ELSE NoMint]
    /\ token_accounts = [a \in AccountKeys |-> NoTokenAccount]

Step(s) ==
    \/ LoadAccountKey(s)
    \/ Decline(s)
    \/ \E op \in Operations : RunOperation(s, op)
    \/ PricesFetched(s) \/ FetchFailed(s)
    \/ SaveMintKey(s) \/ ReadMintKey(s) \/ SaveAccountKey(s) \/ ReadAccountKey(s)
    \/ Send(s) \/ Confirmed(s) \/ Throws(s)

DeployNext ==
    \E s \in Sessions : StartSession(s) \/ Step(s) \/ Land(s) \/ Fail(s) \/ Kill(s)

DeploySpec == DeployInit /\ [][DeployNext]_vars

(***************************************************************************)
(* The event loop of a session goes on, and a transaction is included in a *)
(* block or outlived by its block hash.                                    *)
(***************************************************************************)
DeployFairSpec ==
    /\ DeploySpec
    /\ \A s \in Sessions : WF_vars(Step(s)) /\ WF_vars(Land(s) \/ Fail(s))

-----------------------------------------------------------------------------
Steps == {"not_started", "loading", "ready", "fetch", "save_mint", "read_mint",
          "save_account", "read_account"} \cup Transactions \cup Ends

\* Types; and a session that works on a mint or an account has its key.
DeployTypeOK ==
    /\ session \in [Sessions -> [at : Steps, op : Operations \cup {"none"},
                                 mint : MintKeys \cup {NoKey},
                                 account : AccountKeys \cup {NoKey}]]
    /\ tx \in [Sessions -> [kind : Transactions \cup {"none"},
                            status : {"none", "in_flight", "landed", "failed"}]]
    /\ mint_file \in MintKeys \cup {NoKey}
    /\ account_file \in AccountKeys \cup {NoKey}
    /\ generated \subseteq MintKeys \cup AccountKeys
    /\ mints \in [MintKeys -> [supply : 0..U64_MAX, authority : BOOLEAN] \cup {NoMint}]
    /\ token_accounts \in [AccountKeys ->
            [mint : MintKeys, amount : 0..U64_MAX] \cup {NoTokenAccount}]
    /\ \A s \in Sessions :
          /\ session[s].at \in {"create", "open", "issue", "revoke"} =>
                session[s].mint \in MintKeys
          /\ session[s].at \in {"create", "open", "issue"} =>
                session[s].account \in AccountKeys

\* However often the script is started again, and whatever answers are lost, a
\* mint issues its amount once, to one account: createAccount is the only lock
\* between two runs (deploy.ts:311-323), minting has none (deploy.ts:363-377).
IssuedOnce ==
    \A m \in MintKeys : mints[m] # NoMint =>
        LET funded == {a \in AccountKeys : HasMint(a, m) /\ token_accounts[a].amount > 0}
        IN \/ mints[m].supply = 0 /\ funded = {}
           \/ /\ mints[m].supply = MINT_AMOUNT
              /\ \E a \in AccountKeys :
                    funded = {a} /\ token_accounts[a].amount = MINT_AMOUNT

\* Session s, or the transaction it left behind, may yet issue coins of mint m.
MayIssue(s, m) ==
    /\ session[s].mint = m
    /\ \/ session[s].at = "create" /\ tx[s].status = "landed"
       \/ session[s].at \in {"open", "issue"}
       \/ tx[s].kind = "issue" /\ tx[s].status = "in_flight"

Abandoned(m) ==
    /\ mints[m] # NoMint
    /\ mints[m].supply = 0
    /\ \A s \in Sessions : ~MayIssue(s, m)

\* A deployment that stops half way is never finished: once no session holds a
\* created mint, later runs load its key and fail on createAccount for ever, so
\* it stays without a supply until it is closed (deploy.ts:184-190, 311-323).
AbandonedForGood ==
    [][\A m \in MintKeys : Abandoned(m) => Abandoned(m)' \/ mints'[m] = NoMint]_vars

\* Whatever happens to its transactions, an operation that was started comes to
\* an end: no lost answer leaves the script waiting (deploy.ts:793-823).
OperationsEnd == \A s \in Sessions : session[s].op # "none" ~> session[s].at \in Ends

\* helpers/lib.ts:37 says of checkOrGenerateSaveAndLoadKeypair "Check if Keypair
\* Exist to a given Path or Generate one new on that Path": a key that exists
\* at the path is not replaced.
KeyFileKept == [][mint_file # NoKey => mint_file' = mint_file]_vars

=============================================================================
