------------------------ MODULE DeployClient_proofs -------------------------
(***************************************************************************)
(* Theorems of DeployClient, for every number of sessions and keys: the    *)
(* type invariant, that a mint issues its amount at most once, and that a  *)
(* deployment left half way stays so.                                      *)
(*                                                                         *)
(* What makes them true is not seen in the state of one session: a mint    *)
(* whose coins are still to come is in the hands of exactly one session,   *)
(* because createAccount succeeds once per key, and as long as it is there *)
(* it has no coins.                                                        *)
(***************************************************************************)
EXTENDS DeployClient, TLAPS

PreSteps == {"not_started", "loading", "ready", "fetch", "save_mint", "read_mint",
             "save_account", "read_account"}
Making == {"create", "open", "issue"}

\* Session s is the one that will issue the coins of mint m, if anyone does.
Holds(s, m) ==
    /\ session[s].mint = m
    /\ \/ session[s].at = "create" /\ tx[s].status = "landed"
       \/ session[s].at = "open"
       \/ session[s].at = "issue" /\ tx[s].status \in {"none", "in_flight"}
       \/ tx[s].kind = "issue" /\ tx[s].status = "in_flight"

Unissued(m) ==
    /\ mints[m] # NoMint
    /\ mints[m].supply = 0
    /\ \A a \in AccountKeys : HasMint(a, m) => token_accounts[a].amount = 0

\* What a session knows at each of its steps.
SessionOK(s) ==
    /\ session[s].at \in PreSteps => tx[s].kind = "none" /\ tx[s].status = "none"
    /\ session[s].at \in Transactions /\ tx[s].status # "none" =>
          tx[s].kind = session[s].at
    /\ session[s].mint # NoKey => session[s].mint # OldMintKey
    /\ session[s].at \in Making \cup {"revoke", "save_account", "read_account"}
          \/ tx[s].kind \in Making \cup {"revoke"} => session[s].mint \in MintKeys
    /\ session[s].at \in Making \/ tx[s].kind \in Making =>
          session[s].account \in AccountKeys
    /\ session[s].at = "close" \/ tx[s].kind = "close" => OldMintKey \in MintKeys
    /\ session[s].at \in {"save_mint", "read_mint"} => session[s].op \in KeyOperations
    /\ session[s].at = "read_mint" => mint_file # NoKey
    /\ session[s].at = "read_account" => account_file # NoKey

FilesOK ==
    /\ mint_file # NoKey => mint_file # OldMintKey
    /\ OldMintKey # NoKey => OldMintKey \in generated

MintOK(m) ==
    /\ \A a \in AccountKeys : HasMint(a, m) => mints[m] # NoMint /\ m # OldMintKey
    /\ \A s \in Sessions : Holds(s, m) => Unissued(m)
    /\ \A s, t \in Sessions : Holds(s, m) /\ Holds(t, m) => s = t

ChainOK == \A m \in MintKeys : MintOK(m)

DeployInv ==
    /\ DeployTypeOK
    /\ IssuedOnce
    /\ \A s \in Sessions : SessionOK(s)
    /\ FilesOK
    /\ ChainOK

-----------------------------------------------------------------------------
\* Records of the state, field by field.
SessionRecords == [at : Steps, op : Operations \cup {"none"},
                   mint : MintKeys \cup {NoKey}, account : AccountKeys \cup {NoKey}]
TxRecords == [kind : Transactions \cup {"none"},
              status : {"none", "in_flight", "landed", "failed"}]
MintRecords == [supply : 0..U64_MAX, authority : BOOLEAN]
AccountRecords == [mint : MintKeys, amount : 0..U64_MAX]

StateTyped ==
    /\ session \in [Sessions -> SessionRecords]
    /\ tx \in [Sessions -> TxRecords]
    /\ mint_file \in MintKeys \cup {NoKey}
    /\ account_file \in AccountKeys \cup {NoKey}
    /\ generated \subseteq MintKeys \cup AccountKeys
    /\ mints \in [MintKeys -> MintRecords \cup {NoMint}]
    /\ token_accounts \in [AccountKeys -> AccountRecords \cup {NoTokenAccount}]

LEMMA TypeOKIsTyped == DeployTypeOK => StateTyped
  BY DEF StateTyped, DeployTypeOK, SessionRecords, TxRecords, MintRecords, AccountRecords

LEMMA NoMintIsNoRecord == NoMint \notin MintRecords /\ NoTokenAccount \notin AccountRecords
  BY NoAccountsAssumption DEF MintRecords, AccountRecords

\* Only session s, and of it only what the names say, has changed.
OthersStay(s) == \A t \in Sessions \ {s} : session'[t] = session[t]
OtherTxStay(s) == \A t \in Sessions \ {s} : tx'[t] = tx[t]

LEMMA AtChanges ==
  ASSUME session \in [Sessions -> SessionRecords], NEW s \in Sessions, NEW at \in Steps,
         session' = [session EXCEPT ![s].at = at]
  PROVE  /\ session' \in [Sessions -> SessionRecords] /\ OthersStay(s)
         /\ session'[s].at = at /\ session'[s].op = session[s].op
         /\ session'[s].mint = session[s].mint
         /\ session'[s].account = session[s].account
<1>1. session[s] \in SessionRecords
  OBVIOUS
<1>2. [session[s] EXCEPT !.at = at] \in SessionRecords
  BY <1>1 DEF SessionRecords
<1>3. session'[s] = [session[s] EXCEPT !.at = at]
  OBVIOUS
<1>4. session' \in [Sessions -> SessionRecords] /\ OthersStay(s)
  BY <1>2 DEF OthersStay
<1> QED
  BY <1>1, <1>3, <1>4 DEF SessionRecords

LEMMA AtAndOpChange ==
  ASSUME session \in [Sessions -> SessionRecords], NEW s \in Sessions, NEW at \in Steps,
         NEW op \in Operations, session' = [session EXCEPT ![s].op = op, ![s].at = at]
  PROVE  /\ session' \in [Sessions -> SessionRecords] /\ OthersStay(s)
         /\ session'[s].at = at /\ session'[s].op = op
         /\ session'[s].mint = session[s].mint
         /\ session'[s].account = session[s].account
<1>1. session[s] \in SessionRecords
  OBVIOUS
<1>2. [[session[s] EXCEPT !.op = op] EXCEPT !.at = at] \in SessionRecords
  BY <1>1 DEF SessionRecords
<1>3. session'[s] = [[session[s] EXCEPT !.op = op] EXCEPT !.at = at]
  OBVIOUS
<1>4. session' \in [Sessions -> SessionRecords] /\ OthersStay(s)
  BY <1>2 DEF OthersStay
<1> QED
  BY <1>1, <1>3, <1>4 DEF SessionRecords

\* The assignments of a step to two fields of its session.
SetAtAndMint(s, at, m) == session' = [session EXCEPT ![s].at = at, ![s].mint = m]
SetMintAndAt(s, m, at) == session' = [session EXCEPT ![s].mint = m, ![s].at = at]
SetAtAndAccount(s, at, a) == session' = [session EXCEPT ![s].at = at, ![s].account = a]
SetAccountAndAt(s, a, at) == session' = [session EXCEPT ![s].account = a, ![s].at = at]

LEMMA AtAndMintChange ==
  ASSUME session \in [Sessions -> SessionRecords], NEW s \in Sessions, NEW at \in Steps,
         NEW m \in MintKeys \cup {NoKey},
         SetAtAndMint(s, at, m)
  PROVE  /\ session' \in [Sessions -> SessionRecords] /\ OthersStay(s)
         /\ session'[s].at = at /\ session'[s].op = session[s].op
         /\ session'[s].mint = m /\ session'[s].account = session[s].account
<1>1. session[s] \in SessionRecords
  OBVIOUS
<1>2. [[session[s] EXCEPT !.at = at] EXCEPT !.mint = m] \in SessionRecords
  BY <1>1 DEF SessionRecords
<1>3. session'[s] = [[session[s] EXCEPT !.at = at] EXCEPT !.mint = m]
  BY DEF SetAtAndMint
<1>4. session' \in [Sessions -> SessionRecords] /\ OthersStay(s)
  BY <1>2 DEF OthersStay, SetAtAndMint
<1> QED
  BY <1>1, <1>3, <1>4 DEF SessionRecords

\* The same, written in the other order.
LEMMA MintAndAtChange ==
  ASSUME session \in [Sessions -> SessionRecords], NEW s \in Sessions, NEW at \in Steps,
         NEW m \in MintKeys \cup {NoKey},
         SetMintAndAt(s, m, at)
  PROVE  /\ session' \in [Sessions -> SessionRecords] /\ OthersStay(s)
         /\ session'[s].at = at /\ session'[s].op = session[s].op
         /\ session'[s].mint = m /\ session'[s].account = session[s].account
<1>1. session[s] \in SessionRecords
  OBVIOUS
<1>2. [[session[s] EXCEPT !.mint = m] EXCEPT !.at = at] \in SessionRecords
  BY <1>1 DEF SessionRecords
<1>3. session'[s] = [[session[s] EXCEPT !.mint = m] EXCEPT !.at = at]
  BY DEF SetMintAndAt
<1>4. session' \in [Sessions -> SessionRecords] /\ OthersStay(s)
  BY <1>2 DEF OthersStay, SetMintAndAt
<1> QED
  BY <1>1, <1>3, <1>4 DEF SessionRecords

LEMMA AtAndAccountChange ==
  ASSUME session \in [Sessions -> SessionRecords], NEW s \in Sessions, NEW at \in Steps,
         NEW a \in AccountKeys \cup {NoKey},
         SetAtAndAccount(s, at, a)
  PROVE  /\ session' \in [Sessions -> SessionRecords] /\ OthersStay(s)
         /\ session'[s].at = at /\ session'[s].op = session[s].op
         /\ session'[s].account = a /\ session'[s].mint = session[s].mint
<1>1. session[s] \in SessionRecords
  OBVIOUS
<1>2. [[session[s] EXCEPT !.at = at] EXCEPT !.account = a] \in SessionRecords
  BY <1>1 DEF SessionRecords
<1>3. session'[s] = [[session[s] EXCEPT !.at = at] EXCEPT !.account = a]
  BY DEF SetAtAndAccount
<1>4. session' \in [Sessions -> SessionRecords] /\ OthersStay(s)
  BY <1>2 DEF OthersStay, SetAtAndAccount
<1> QED
  BY <1>1, <1>3, <1>4 DEF SessionRecords

\* The same, written in the other order.
LEMMA AccountAndAtChange ==
  ASSUME session \in [Sessions -> SessionRecords], NEW s \in Sessions, NEW at \in Steps,
         NEW a \in AccountKeys \cup {NoKey},
         SetAccountAndAt(s, a, at)
  PROVE  /\ session' \in [Sessions -> SessionRecords] /\ OthersStay(s)
         /\ session'[s].at = at /\ session'[s].op = session[s].op
         /\ session'[s].account = a /\ session'[s].mint = session[s].mint
<1>1. session[s] \in SessionRecords
  OBVIOUS
<1>2. [[session[s] EXCEPT !.account = a] EXCEPT !.at = at] \in SessionRecords
  BY <1>1 DEF SessionRecords
<1>3. session'[s] = [[session[s] EXCEPT !.account = a] EXCEPT !.at = at]
  BY DEF SetAccountAndAt
<1>4. session' \in [Sessions -> SessionRecords] /\ OthersStay(s)
  BY <1>2 DEF OthersStay, SetAccountAndAt
<1> QED
  BY <1>1, <1>3, <1>4 DEF SessionRecords

LEMMA StatusChanges ==
  ASSUME tx \in [Sessions -> TxRecords], NEW s \in Sessions,
         NEW status \in {"none", "in_flight", "landed", "failed"},
         tx' = [tx EXCEPT ![s].status = status]
  PROVE  /\ tx' \in [Sessions -> TxRecords] /\ OtherTxStay(s)
         /\ tx'[s].status = status /\ tx'[s].kind = tx[s].kind
<1>1. tx[s] \in TxRecords
  OBVIOUS
<1>2. [tx[s] EXCEPT !.status = status] \in TxRecords
  BY <1>1 DEF TxRecords
<1>3. tx'[s] = [tx[s] EXCEPT !.status = status]
  OBVIOUS
<1>4. tx' \in [Sessions -> TxRecords] /\ OtherTxStay(s)
  BY <1>2 DEF OtherTxStay
<1> QED
  BY <1>1, <1>3, <1>4 DEF TxRecords

-----------------------------------------------------------------------------
\* What a step leaves alone.
LEMMA OthersHoldTheSame ==
  ASSUME NEW s \in Sessions, OthersStay(s), OtherTxStay(s)
  PROVE  \A t \in Sessions \ {s}, m \in MintKeys : Holds(t, m)' <=> Holds(t, m)
  BY DEF OthersStay, OtherTxStay, Holds

FilesGrow ==
    /\ mint_file # NoKey => mint_file' # NoKey
    /\ account_file # NoKey => account_file' # NoKey

LEMMA OthersStayOK ==
  ASSUME NEW s \in Sessions, OthersStay(s), OtherTxStay(s), FilesGrow,
         \A t \in Sessions : SessionOK(t), SessionOK(s)'
  PROVE  \A t \in Sessions : SessionOK(t)'
<1> SUFFICES ASSUME NEW t \in Sessions, t # s PROVE SessionOK(t)'
  OBVIOUS
<1>1. session'[t] = session[t] /\ tx'[t] = tx[t] /\ SessionOK(t)
  BY DEF OthersStay, OtherTxStay
<1> QED
  BY <1>1 DEF SessionOK, FilesGrow

LEMMA ChainStays ==
  ASSUME UNCHANGED chain
  PROVE  /\ IssuedOnce => IssuedOnce'
         /\ \A m \in MintKeys : Unissued(m)' <=> Unissued(m)
         /\ \A m \in MintKeys, a \in AccountKeys : HasMint(a, m)' <=> HasMint(a, m)
<1> USE DEF chain, HasMint
<1>1. IssuedOnce => IssuedOnce'
  BY DEF IssuedOnce
<1>2. \A m \in MintKeys : Unissued(m)' <=> Unissued(m)
  BY DEF Unissued
<1>3. \A m \in MintKeys, a \in AccountKeys : HasMint(a, m)' <=> HasMint(a, m)
  OBVIOUS
<1> QED
  BY <1>1, <1>2, <1>3

\* A step of session s that is not the chain's and makes it hold no more mints.
LEMMA SessionStep ==
  ASSUME DeployInv, StateTyped', NEW s \in Sessions, OthersStay(s), OtherTxStay(s),
         UNCHANGED chain, FilesGrow, FilesOK', SessionOK(s)',
         \A m \in MintKeys : Holds(s, m)' => Holds(s, m)
  PROVE  DeployInv'
<1>1. \A t \in Sessions : SessionOK(t)'
  BY OthersStayOK DEF DeployInv
<1>2. DeployTypeOK'
  BY <1>1 DEF StateTyped, DeployTypeOK, SessionOK, Making, SessionRecords, TxRecords,
              MintRecords, AccountRecords
<1>3. \A t \in Sessions, m \in MintKeys : Holds(t, m)' => Holds(t, m)
  BY OthersHoldTheSame
<1>4. ChainOK'
  <2> SUFFICES ASSUME NEW m \in MintKeys
               PROVE  /\ \A a \in AccountKeys : HasMint(a, m)' => mints'[m] # NoMint /\ m # OldMintKey
                      /\ \A t \in Sessions : Holds(t, m)' => Unissued(m)'
                      /\ \A t, u \in Sessions : Holds(t, m)' /\ Holds(u, m)' => t = u
    BY DEF ChainOK, MintOK
  <2>1. ChainOK
    BY DEF DeployInv
  <2>2. mints' = mints
    BY DEF chain
  <2>3. \A a \in AccountKeys : HasMint(a, m)' => mints'[m] # NoMint /\ m # OldMintKey
    BY <2>1, <2>2, ChainStays DEF ChainOK, MintOK
  <2>4. \A t \in Sessions : Holds(t, m)' => Unissued(m)'
    BY <1>3, <2>1, ChainStays DEF ChainOK, MintOK
  <2>5. \A t, u \in Sessions : Holds(t, m)' /\ Holds(u, m)' => t = u
    BY <1>3, <2>1 DEF ChainOK, MintOK
  <2> QED
    BY <2>3, <2>4, <2>5
<1> QED
  BY <1>1, <1>2, <1>4, ChainStays DEF DeployInv

-----------------------------------------------------------------------------
\* The steps before the first transaction.

LEMMA NothingHeldBefore ==
  ASSUME NEW s \in Sessions, SessionOK(s), session[s].at \in PreSteps, tx' = tx,
         session'[s].at \notin {"open", "issue"}
  PROVE  \A m \in MintKeys : ~Holds(s, m)'
  BY DEF SessionOK, Holds

\* A step of session s that touches neither the chain nor its transaction, from
\* a place before the first transaction to one that is not after it.
LEMMA PreStep ==
  ASSUME DeployInv, StateTyped', NEW s \in Sessions, OthersStay(s),
         session[s].at \in PreSteps, session'[s].at \notin {"open", "issue"},
         UNCHANGED <<tx, chain>>, FilesGrow, FilesOK', SessionOK(s)'
  PROVE  DeployInv'
<1>1. OtherTxStay(s)
  BY DEF OtherTxStay
<1>2. \A m \in MintKeys : ~Holds(s, m)'
  BY NothingHeldBefore DEF DeployInv
<1> QED
  BY <1>1, <1>2, SessionStep

LEMMA StartKeepsInv ==
  ASSUME DeployInv, NEW s \in Sessions, StartSession(s)
  PROVE  DeployInv'
<1>1. StateTyped
  BY TypeOKIsTyped DEF DeployInv
<1>2. /\ session' \in [Sessions -> SessionRecords] /\ OthersStay(s)
      /\ session'[s].at = "loading" /\ session'[s].op = session[s].op
      /\ session'[s].mint = mint_file /\ session'[s].account = session[s].account
  <2>1. /\ "loading" \in Steps /\ mint_file \in MintKeys \cup {NoKey}
        /\ session \in [Sessions -> SessionRecords]
        /\ SetAtAndMint(s, "loading", mint_file)
    BY <1>1 DEF StartSession, StateTyped, Steps, SetAtAndMint
  <2> QED
    BY <2>1, AtAndMintChange
<1>3. StateTyped' /\ FilesGrow /\ FilesOK'
  BY <1>1, <1>2 DEF StartSession, StateTyped, files, chain, FilesGrow, DeployInv, FilesOK
<1>4. SessionOK(s)'
  BY <1>2, SMTT(30) DEF StartSession, DeployInv, SessionOK, FilesOK, PreSteps, Making,
                        Transactions, files
<1> QED
  BY <1>2, <1>3, <1>4, PreStep DEF StartSession, PreSteps

LEMMA LoadAccountKeyKeepsInv ==
  ASSUME DeployInv, NEW s \in Sessions, LoadAccountKey(s)
  PROVE  DeployInv'
<1>1. StateTyped
  BY TypeOKIsTyped DEF DeployInv
<1>2. /\ session' \in [Sessions -> SessionRecords] /\ OthersStay(s)
      /\ session'[s].at = "ready" /\ session'[s].op = session[s].op
      /\ session'[s].mint = session[s].mint /\ session'[s].account = account_file
  <2>1. /\ "ready" \in Steps /\ account_file \in AccountKeys \cup {NoKey}
        /\ session \in [Sessions -> SessionRecords]
        /\ SetAtAndAccount(s, "ready", account_file)
    BY <1>1 DEF LoadAccountKey, StateTyped, Steps, SetAtAndAccount
  <2> QED
    BY <2>1, AtAndAccountChange
<1>3. StateTyped' /\ FilesGrow /\ FilesOK'
  BY <1>1, <1>2 DEF LoadAccountKey, StateTyped, files, chain, FilesGrow, DeployInv, FilesOK
<1>4. SessionOK(s)'
  BY <1>2 DEF LoadAccountKey, DeployInv, SessionOK, PreSteps, Making, Transactions, files
<1> QED
  BY <1>2, <1>3, <1>4, PreStep DEF LoadAccountKey, PreSteps

LEMMA RunOperationKeepsInv ==
  ASSUME DeployInv, NEW s \in Sessions, NEW op \in Operations, RunOperation(s, op)
  PROVE  DeployInv'
<1>1. StateTyped
  BY TypeOKIsTyped DEF DeployInv
<1> DEFINE at == CASE op = "close" /\ OldMintKey = NoKey -> "stopped"
                   [] op = "close" /\ OldMintKey # NoKey -> "close"
                   [] op \in PriceOperations -> "fetch"
                   [] op \in KeyOperations /\ session[s].mint = NoKey -> "save_mint"
                   [] op \in KeyOperations /\ session[s].mint # NoKey ->
                          AfterMintKey(op, session[s].account)
<1>2. session[s] \in SessionRecords
  BY <1>1 DEF StateTyped
<1>3. /\ at \in {"stopped", "close", "fetch", "save_mint", "save_account", "create",
                 "revoke", "done"}
      /\ at = "close" => OldMintKey # NoKey
      /\ at = "save_mint" => op \in KeyOperations
      /\ at \in {"save_account", "create", "revoke"} => session[s].mint # NoKey
      /\ at = "create" => session[s].account # NoKey
  BY DEF Operations, KeyOperations, PriceOperations, AfterMintKey, FirstTransaction
<1>4. session' = [session EXCEPT ![s].op = op, ![s].at = at]
  BY DEF RunOperation
<1>5. at \in Steps
  BY <1>3 DEF Steps, Transactions, Ends
<1> HIDE DEF at
<1>6. /\ session' \in [Sessions -> SessionRecords] /\ OthersStay(s)
      /\ session'[s].at = at /\ session'[s].op = op
      /\ session'[s].mint = session[s].mint /\ session'[s].account = session[s].account
  BY <1>1, <1>4, <1>5, AtAndOpChange DEF StateTyped
<1>7. StateTyped' /\ FilesGrow /\ FilesOK'
  BY <1>1, <1>6 DEF RunOperation, StateTyped, files, chain, FilesGrow, DeployInv, FilesOK
<1>8. session[s].mint \in MintKeys \cup {NoKey} /\ session[s].account \in AccountKeys \cup {NoKey}
  BY <1>2 DEF SessionRecords
<1>9. tx'[s].kind = "none" /\ tx'[s].status = "none"
  BY DEF RunOperation, DeployInv, SessionOK, PreSteps
<1>10. SessionOK(s)'
  BY <1>3, <1>6, <1>8, <1>9, KeysAssumption
  DEF RunOperation, DeployInv, SessionOK, PreSteps, Making, Transactions, files
<1> QED
  BY <1>3, <1>6, <1>7, <1>10, PreStep DEF RunOperation, PreSteps

LEMMA SaveMintKeyKeepsInv ==
  ASSUME DeployInv, NEW s \in Sessions, SaveMintKey(s)
  PROVE  DeployInv'
<1>1. StateTyped
  BY TypeOKIsTyped DEF DeployInv
<1>2. /\ session' \in [Sessions -> SessionRecords] /\ OthersStay(s)
      /\ session'[s].at = "read_mint" /\ session'[s].op = session[s].op
      /\ session'[s].mint = session[s].mint /\ session'[s].account = session[s].account
  <2>1. "read_mint" \in Steps
    BY DEF Steps
  <2> QED
    BY <1>1, <2>1, AtChanges DEF SaveMintKey, StateTyped
<1>3. PICK key \in MintKeys \ generated : mint_file' = key /\ generated' = generated \cup {key}
  BY DEF SaveMintKey
<1>4. key # NoKey /\ key # OldMintKey
  BY <1>3, KeysAssumption DEF DeployInv, FilesOK
<1>5. StateTyped' /\ FilesGrow /\ FilesOK'
  BY <1>1, <1>2, <1>3, <1>4 DEF SaveMintKey, StateTyped, chain, FilesGrow, DeployInv, FilesOK
<1>6. SessionOK(s)'
  BY <1>2, <1>3, <1>4 DEF SaveMintKey, DeployInv, SessionOK, PreSteps, Making, Transactions
<1> QED
  BY <1>2, <1>5, <1>6, PreStep DEF SaveMintKey, PreSteps

LEMMA ReadMintKeyKeepsInv ==
  ASSUME DeployInv, NEW s \in Sessions, ReadMintKey(s)
  PROVE  DeployInv'
<1>1. StateTyped
  BY TypeOKIsTyped DEF DeployInv
<1> DEFINE at == AfterMintKey(session[s].op, session[s].account)
<1>2. session[s].op \in KeyOperations /\ mint_file # NoKey /\ mint_file # OldMintKey
  BY DEF ReadMintKey, DeployInv, SessionOK, FilesOK
<1>3. session[s].account \in AccountKeys \cup {NoKey} /\ mint_file \in MintKeys
  BY <1>1, <1>2 DEF StateTyped, SessionRecords
<1>4. /\ at \in {"save_account", "create", "revoke", "done"}
      /\ at = "create" => session[s].account # NoKey
  BY <1>2 DEF KeyOperations, AfterMintKey, FirstTransaction
<1>5. at \in Steps
  BY <1>4 DEF Steps, Transactions, Ends
<1>6. SetMintAndAt(s, mint_file, at)
  BY DEF ReadMintKey, SetMintAndAt
<1> HIDE DEF at
<1>7. /\ session' \in [Sessions -> SessionRecords] /\ OthersStay(s)
      /\ session'[s].at = at /\ session'[s].op = session[s].op
      /\ session'[s].mint = mint_file /\ session'[s].account = session[s].account
  BY <1>1, <1>3, <1>5, <1>6, MintAndAtChange DEF StateTyped
<1>8. StateTyped' /\ FilesGrow /\ FilesOK'
  BY <1>1, <1>7 DEF ReadMintKey, StateTyped, files, chain, FilesGrow, DeployInv, FilesOK
<1>9. tx'[s].kind = "none" /\ tx'[s].status = "none"
  BY DEF ReadMintKey, DeployInv, SessionOK, PreSteps
<1>10. SessionOK(s)'
  BY <1>2, <1>3, <1>4, <1>7, <1>9 DEF SessionOK, PreSteps, Making, Transactions
<1> QED
  BY <1>4, <1>7, <1>8, <1>10, PreStep DEF ReadMintKey, PreSteps

LEMMA SaveAccountKeyKeepsInv ==
  ASSUME DeployInv, NEW s \in Sessions, SaveAccountKey(s)
  PROVE  DeployInv'
<1>1. StateTyped
  BY TypeOKIsTyped DEF DeployInv
<1>2. /\ session' \in [Sessions -> SessionRecords] /\ OthersStay(s)
      /\ session'[s].at = "read_account" /\ session'[s].op = session[s].op
      /\ session'[s].mint = session[s].mint /\ session'[s].account = session[s].account
  <2>1. "read_account" \in Steps
    BY DEF Steps
  <2> QED
    BY <1>1, <2>1, AtChanges DEF SaveAccountKey, StateTyped
<1>3. PICK key \in AccountKeys \ generated :
        account_file' = key /\ generated' = generated \cup {key}
  BY DEF SaveAccountKey
<1>4. key # NoKey
  BY <1>3, KeysAssumption
<1>5. StateTyped' /\ FilesGrow /\ FilesOK'
  BY <1>1, <1>2, <1>3, <1>4 DEF SaveAccountKey, StateTyped, chain, FilesGrow, DeployInv, FilesOK
<1>6. SessionOK(s)'
  BY <1>2, <1>3, <1>4 DEF SaveAccountKey, DeployInv, SessionOK, PreSteps, Making, Transactions
<1> QED
  BY <1>2, <1>5, <1>6, PreStep DEF SaveAccountKey, PreSteps

LEMMA ReadAccountKeyKeepsInv ==
  ASSUME DeployInv, NEW s \in Sessions, ReadAccountKey(s)
  PROVE  DeployInv'
<1>1. StateTyped
  BY TypeOKIsTyped DEF DeployInv
<1>2. account_file \in AccountKeys /\ session[s].mint \in MintKeys
  BY <1>1 DEF ReadAccountKey, DeployInv, SessionOK, StateTyped
<1>3. /\ session' \in [Sessions -> SessionRecords] /\ OthersStay(s)
      /\ session'[s].at = "create" /\ session'[s].op = session[s].op
      /\ session'[s].mint = session[s].mint /\ session'[s].account = account_file
  <2>1. "create" \in Steps /\ SetAccountAndAt(s, account_file, "create")
    BY DEF Steps, Transactions, ReadAccountKey, SetAccountAndAt
  <2> QED
    BY <1>1, <1>2, <2>1, AccountAndAtChange DEF StateTyped
<1>4. StateTyped' /\ FilesGrow /\ FilesOK'
  BY <1>1, <1>3 DEF ReadAccountKey, StateTyped, files, chain, FilesGrow, DeployInv, FilesOK
<1>5. tx'[s].kind = "none" /\ tx'[s].status = "none"
  BY DEF ReadAccountKey, DeployInv, SessionOK, PreSteps
<1>6. SessionOK(s)'
  BY <1>2, <1>3, <1>5 DEF ReadAccountKey, DeployInv, SessionOK, PreSteps, Making, Transactions
<1> QED
  BY <1>3, <1>4, <1>6, PreStep DEF ReadAccountKey, PreSteps

-----------------------------------------------------------------------------
\* The steps around a transaction, as far as they are the session's.

LEMMA SendKeepsInv ==
  ASSUME DeployInv, NEW s \in Sessions, Send(s)
  PROVE  DeployInv'
<1>1. StateTyped
  BY TypeOKIsTyped DEF DeployInv
<1>2. [kind |-> session[s].at, status |-> "in_flight"] \in TxRecords
  BY DEF Send, TxRecords
<1>3. /\ tx' \in [Sessions -> TxRecords] /\ OtherTxStay(s)
      /\ tx'[s].kind = session[s].at /\ tx'[s].status = "in_flight"
  BY <1>1, <1>2 DEF Send, StateTyped, OtherTxStay
<1>4. StateTyped' /\ FilesGrow /\ FilesOK' /\ OthersStay(s)
  BY <1>1, <1>3 DEF Send, StateTyped, files, chain, FilesGrow, DeployInv, FilesOK, OthersStay
<1>5. SessionOK(s)'
  BY <1>3 DEF Send, DeployInv, SessionOK, PreSteps, Making, Transactions, files
<1>6. \A m \in MintKeys : Holds(s, m)' => Holds(s, m)
  BY <1>3 DEF Send, Holds
<1> QED
  BY <1>3, <1>4, <1>5, <1>6, SessionStep DEF Send

LEMMA FailKeepsInv ==
  ASSUME DeployInv, NEW s \in Sessions, Fail(s)
  PROVE  DeployInv'
<1>1. StateTyped
  BY TypeOKIsTyped DEF DeployInv
<1>2. /\ tx' \in [Sessions -> TxRecords] /\ OtherTxStay(s)
      /\ tx'[s].status = "failed" /\ tx'[s].kind = tx[s].kind
  BY <1>1, StatusChanges DEF Fail, StateTyped
<1>3. StateTyped' /\ FilesGrow /\ FilesOK' /\ OthersStay(s)
  BY <1>1, <1>2 DEF Fail, StateTyped, files, chain, FilesGrow, DeployInv, FilesOK, OthersStay
<1>4. SessionOK(s)'
  BY <1>2 DEF Fail, DeployInv, SessionOK, files
<1>5. \A m \in MintKeys : Holds(s, m)' => Holds(s, m)
  BY <1>2 DEF Fail, Holds
<1> QED
  BY <1>2, <1>3, <1>4, <1>5, SessionStep DEF Fail

LEMMA ConfirmedKeepsInv ==
  ASSUME DeployInv, NEW s \in Sessions, Confirmed(s)
  PROVE  DeployInv'
<1>1. StateTyped
  BY TypeOKIsTyped DEF DeployInv
<1>2. /\ tx' \in [Sessions -> TxRecords] /\ OtherTxStay(s)
      /\ tx'[s].status = "none" /\ tx'[s].kind = tx[s].kind
  BY <1>1, StatusChanges DEF Confirmed, StateTyped
<1> DEFINE at == AfterConfirmed(session[s].at)
<1>3. /\ at \in {"open", "issue", "done"}
      /\ at = "open" => session[s].at = "create"
      /\ at = "issue" => session[s].at = "open"
  BY DEF Confirmed, Transactions, AfterConfirmed
<1>4. at \in Steps
  BY <1>3 DEF Steps, Transactions, Ends
<1>5. session' = [session EXCEPT ![s].at = at]
  BY DEF Confirmed
<1> HIDE DEF at
<1>6. /\ session' \in [Sessions -> SessionRecords] /\ OthersStay(s)
      /\ session'[s].at = at /\ session'[s].op = session[s].op
      /\ session'[s].mint = session[s].mint /\ session'[s].account = session[s].account
  BY <1>1, <1>4, <1>5, AtChanges DEF StateTyped
<1>7. StateTyped' /\ FilesGrow /\ FilesOK'
  BY <1>1, <1>2, <1>6 DEF Confirmed, StateTyped, files, chain, FilesGrow, DeployInv, FilesOK
<1>8. SessionOK(s)'
  BY <1>2, <1>3, <1>6 DEF Confirmed, DeployInv, SessionOK, PreSteps, Making, Transactions, files
<1>9. \A m \in MintKeys : Holds(s, m)' => Holds(s, m)
  BY <1>2, <1>3, <1>6 DEF Confirmed, Holds
<1> QED
  BY <1>2, <1>6, <1>7, <1>8, <1>9, SessionStep DEF Confirmed

\* A session that ends holds at most what its transaction in flight does.
LEMMA EndingKeepsInv ==
  ASSUME DeployInv, NEW s \in Sessions, NEW at \in Ends,
         session' = [session EXCEPT ![s].at = at], UNCHANGED <<tx, files, chain>>
  PROVE  DeployInv'
<1>1. StateTyped
  BY TypeOKIsTyped DEF DeployInv
<1>2. /\ session' \in [Sessions -> SessionRecords] /\ OthersStay(s)
      /\ session'[s].at = at /\ session'[s].op = session[s].op
      /\ session'[s].mint = session[s].mint /\ session'[s].account = session[s].account
  <2>1. at \in Steps
    BY DEF Steps
  <2> QED
    BY <1>1, <2>1, AtChanges DEF StateTyped
<1>3. StateTyped' /\ FilesGrow /\ FilesOK' /\ OtherTxStay(s)
  BY <1>1, <1>2 DEF StateTyped, files, chain, FilesGrow, DeployInv, FilesOK, OtherTxStay
<1>4. SessionOK(s)'
  BY <1>2 DEF DeployInv, SessionOK, PreSteps, Making, Transactions, files, Ends
<1>5. \A m \in MintKeys : Holds(s, m)' => Holds(s, m)
  BY <1>2 DEF Holds, Ends
<1> QED
  BY <1>2, <1>3, <1>4, <1>5, SessionStep

LEMMA ThrowsIsEnding ==
  ASSUME StateTyped, NEW s \in Sessions, Throws(s)
  PROVE  /\ AfterError(session[s].at) \in Ends
         /\ session' = [session EXCEPT ![s].at = AfterError(session[s].at)]
         /\ UNCHANGED <<tx, files, chain>>
<1> DEFINE at == AfterError(session[s].at)
<1>1. at \in Ends
  BY DEF AfterError, Ends
<1>2. session' = [session EXCEPT ![s].at = at]
  BY DEF Throws
<1>3. session'[s].at \in Ends
  <2>1. at \in Steps
    BY <1>1 DEF Steps
  <2> HIDE DEF at
  <2> QED
    BY <1>1, <1>2, <2>1, AtChanges DEF StateTyped
<1>4. tx' = [tx EXCEPT ![s].status = tx[s].status]
  BY <1>3 DEF Throws
<1>5. tx' = tx
  BY <1>4 DEF StateTyped, TxRecords
<1> QED
  BY <1>1, <1>2, <1>5 DEF Throws

-----------------------------------------------------------------------------
\* The chain's steps.

\* IssuedOnce, of one mint.
Funded(m) == {a \in AccountKeys : HasMint(a, m) /\ token_accounts[a].amount > 0}

IssuedFor(m) ==
    mints[m] # NoMint =>
        \/ mints[m].supply = 0 /\ Funded(m) = {}
        \/ /\ mints[m].supply = MINT_AMOUNT
           /\ \E a \in AccountKeys :
                 Funded(m) = {a} /\ token_accounts[a].amount = MINT_AMOUNT

LEMMA IssuedOnceByMint == IssuedOnce <=> \A m \in MintKeys : IssuedFor(m)
  BY DEF IssuedOnce, IssuedFor, Funded

\* Nothing about mint k has changed.
AccountsStay(k) ==
    /\ \A a \in AccountKeys : HasMint(a, k)' <=> HasMint(a, k)
    /\ \A a \in AccountKeys : HasMint(a, k) => token_accounts'[a] = token_accounts[a]

LEMMA OtherMintsStay ==
  ASSUME NEW k \in MintKeys, mints'[k] = mints[k], AccountsStay(k)
  PROVE  /\ IssuedFor(k) => IssuedFor(k)'
         /\ Unissued(k) => Unissued(k)'
<1>1. Funded(k)' = Funded(k)
  BY DEF AccountsStay, Funded
<1>2. \A a \in Funded(k) : token_accounts'[a] = token_accounts[a]
  BY DEF AccountsStay, Funded
<1>3. IssuedFor(k) => IssuedFor(k)'
  BY <1>1, <1>2 DEF IssuedFor
<1>4. Unissued(k) => Unissued(k)'
  BY DEF AccountsStay, Unissued
<1> QED
  BY <1>3, <1>4

\* The chain executes the transaction of session s, and touches mint m alone.
LEMMA ChainStep ==
  ASSUME DeployInv, StateTyped', NEW s \in Sessions, NEW m \in MintKeys,
         session' = session, UNCHANGED files, OtherTxStay(s), SessionOK(s)',
         \A k \in MintKeys \ {m} : mints'[k] = mints[k] /\ AccountsStay(k),
         \A k \in MintKeys \ {m} : Holds(s, k)' => Holds(s, k),
         IssuedFor(m)', MintOK(m)'
  PROVE  DeployInv'
<1>1. OthersStay(s) /\ FilesGrow /\ FilesOK'
  BY DEF OthersStay, FilesGrow, files, DeployInv, FilesOK
<1>2. \A t \in Sessions : SessionOK(t)'
  BY <1>1, OthersStayOK DEF DeployInv
<1>3. DeployTypeOK'
  BY <1>2 DEF StateTyped, DeployTypeOK, SessionOK, Making, SessionRecords, TxRecords,
              MintRecords, AccountRecords
<1>4. IssuedOnce'
  <2>1. \A k \in MintKeys : IssuedFor(k)'
    BY IssuedOnceByMint, OtherMintsStay DEF DeployInv
  <2> QED
    BY <2>1 DEF IssuedOnce, IssuedFor, Funded
<1>5. ASSUME NEW k \in MintKeys \ {m}
      PROVE  MintOK(k)'
  <2>1. MintOK(k)
    BY DEF DeployInv, ChainOK
  <2>2. mints'[k] = mints[k] /\ AccountsStay(k) /\ (Unissued(k) => Unissued(k)')
    BY OtherMintsStay
  <2>3. \A t \in Sessions : Holds(t, k)' => Holds(t, k)
    BY <1>1, OthersHoldTheSame
  <2> QED
    BY <2>1, <2>2, <2>3 DEF MintOK, AccountsStay
<1> QED
  BY <1>1, <1>2, <1>3, <1>4, <1>5 DEF DeployInv, ChainOK

LEMMA Landed ==
  ASSUME StateTyped, NEW s \in Sessions, NEW kind \in Transactions, Lands(s, kind), SessionOK(s)
  PROVE  /\ tx' \in [Sessions -> TxRecords] /\ OtherTxStay(s)
         /\ tx[s].kind = kind /\ tx[s].status = "in_flight"
         /\ tx'[s].kind = kind /\ tx'[s].status = "landed"
         /\ SessionOK(s)'
         /\ \A m \in MintKeys : Holds(s, m)' => \/ kind = "create" /\ m = session[s].mint
                                                \/ kind # "issue" /\ Holds(s, m)
<1>1. tx[s].kind = kind /\ tx[s].status = "in_flight"
  BY DEF Lands
<1>2. /\ tx' \in [Sessions -> TxRecords] /\ OtherTxStay(s)
      /\ tx'[s].status = "landed" /\ tx'[s].kind = kind
  BY <1>1, StatusChanges DEF Lands, StateTyped
<1>3. SessionOK(s)'
  BY <1>1, <1>2 DEF Lands, SessionOK, files
<1>4. ASSUME NEW m \in MintKeys, Holds(s, m)'
      PROVE  \/ kind = "create" /\ m = session[s].mint
             \/ kind # "issue" /\ Holds(s, m)
  <2>1. session[s].mint = m /\ (session[s].at = "create" \/ session[s].at = "open")
    BY <1>2, <1>4 DEF Lands, Holds
  <2>2. session[s].at = kind
    BY <1>1, <2>1 DEF SessionOK, Transactions
  <2> QED
    BY <2>1, <2>2 DEF Holds
<1> QED
  BY <1>1, <1>2, <1>3, <1>4

LEMMA CreateMintKeepsInv ==
  ASSUME DeployInv, NEW s \in Sessions, CreateMint(s)
  PROVE  DeployInv'
<1>1. StateTyped /\ SessionOK(s) /\ Lands(s, "create") /\ "create" \in Transactions
  BY TypeOKIsTyped DEF DeployInv, CreateMint, Transactions
<1>2. PICK m \in MintKeys : m = session[s].mint /\ m # OldMintKey /\ mints[m] = NoMint
  BY <1>1, Landed, KeysAssumption DEF CreateMint, SessionOK, Making
<1>3. \A a \in AccountKeys : ~HasMint(a, m)
  BY <1>2 DEF DeployInv, ChainOK, MintOK
<1>4. mints' = [mints EXCEPT ![m] = [supply |-> 0, authority |-> TRUE]]
  BY <1>2 DEF CreateMint
<1>5. [supply |-> 0, authority |-> TRUE] \in MintRecords
  BY AmountAssumption DEF MintRecords
<1>6. /\ mints' \in [MintKeys -> MintRecords \cup {NoMint}]
      /\ mints'[m] = [supply |-> 0, authority |-> TRUE]
      /\ \A k \in MintKeys \ {m} : mints'[k] = mints[k]
  BY <1>1, <1>2, <1>4, <1>5 DEF StateTyped
<1>7. StateTyped'
  BY <1>1, <1>6, Landed DEF CreateMint, Lands, StateTyped, files
<1>8. \A k \in MintKeys : AccountsStay(k)
  BY DEF CreateMint, AccountsStay, HasMint
<1>9. mints'[m] # NoMint /\ mints'[m].supply = 0 /\ \A a \in AccountKeys : ~HasMint(a, m)'
  <2>1. mints'[m] # NoMint
    BY <1>5, <1>6, NoMintIsNoRecord
  <2>2. mints'[m].supply = 0
    BY <1>6
  <2>3. \A a \in AccountKeys : ~HasMint(a, m)'
    BY <1>2, <1>3, <1>8 DEF AccountsStay
  <2> QED
    BY <2>1, <2>2, <2>3
<1>10. IssuedFor(m)' /\ Unissued(m)'
  BY <1>9 DEF IssuedFor, Funded, Unissued
<1>11. \A t \in Sessions \ {s} : ~Holds(t, m)'
  <2>1. \A t \in Sessions : ~Holds(t, m)
    BY <1>2 DEF DeployInv, ChainOK, MintOK, Unissued
  <2>2. OthersStay(s) /\ OtherTxStay(s)
    BY <1>1, Landed DEF Lands, OthersStay
  <2> QED
    BY <1>2, <2>1, <2>2, OthersHoldTheSame
<1>12. MintOK(m)'
  BY <1>9, <1>10, <1>11 DEF MintOK
<1>13. \A k \in MintKeys \ {m} : Holds(s, k)' => Holds(s, k)
  BY <1>1, <1>2, Landed
<1>14. session' = session /\ UNCHANGED files /\ OtherTxStay(s) /\ SessionOK(s)'
  BY <1>1, Landed DEF Lands
<1> QED
  BY <1>2, <1>6, <1>7, <1>8, <1>10, <1>12, <1>13, <1>14, ChainStep

LEMMA RevokeKeepsInv ==
  ASSUME DeployInv, NEW s \in Sessions, RevokeMintAuthority(s)
  PROVE  DeployInv'
<1>1. StateTyped /\ SessionOK(s) /\ Lands(s, "revoke") /\ "revoke" \in Transactions
  BY TypeOKIsTyped DEF DeployInv, RevokeMintAuthority, Transactions
<1>2. PICK m \in MintKeys : m = session[s].mint /\ mints[m] # NoMint
  BY <1>1, Landed DEF RevokeMintAuthority, SessionOK
<1>3. mints[m] \in MintRecords
  BY <1>1, <1>2 DEF StateTyped
<1>4. mints' = [mints EXCEPT ![m].authority = FALSE]
  BY <1>2 DEF RevokeMintAuthority
<1>5. [mints[m] EXCEPT !.authority = FALSE] \in MintRecords
  BY <1>3 DEF MintRecords
<1>6. /\ mints' \in [MintKeys -> MintRecords \cup {NoMint}]
      /\ mints'[m] = [mints[m] EXCEPT !.authority = FALSE]
      /\ \A k \in MintKeys \ {m} : mints'[k] = mints[k]
  BY <1>1, <1>2, <1>4, <1>5 DEF StateTyped
<1>7. mints'[m] # NoMint /\ mints'[m].supply = mints[m].supply
  <2>1. mints'[m] # NoMint
    BY <1>5, <1>6, NoMintIsNoRecord
  <2>2. mints'[m].supply = mints[m].supply
    BY <1>3, <1>6 DEF MintRecords
  <2> QED
    BY <2>1, <2>2
<1>8. StateTyped'
  BY <1>1, <1>6, Landed DEF RevokeMintAuthority, Lands, StateTyped, files
<1>9. \A k \in MintKeys : AccountsStay(k)
  BY DEF RevokeMintAuthority, AccountsStay, HasMint
<1>10. \A k \in MintKeys : Holds(s, k)' => Holds(s, k)
  BY <1>1, Landed
<1>11. session' = session /\ UNCHANGED files /\ OtherTxStay(s) /\ SessionOK(s)'
  BY <1>1, Landed DEF Lands
<1>12. OthersStay(s)
  BY <1>11 DEF OthersStay
<1>13. IssuedFor(m)' /\ (Unissued(m) => Unissued(m)')
  <2>1. IssuedFor(m) /\ token_accounts' = token_accounts
    BY IssuedOnceByMint DEF DeployInv, RevokeMintAuthority
  <2> QED
    BY <1>2, <1>7, <2>1 DEF IssuedFor, Funded, HasMint, Unissued
<1>14. MintOK(m)'
  <2>1. MintOK(m)
    BY DEF DeployInv, ChainOK
  <2>2. \A t \in Sessions : Holds(t, m)' => Holds(t, m)
    BY <1>10, <1>11, <1>12, OthersHoldTheSame
  <2> QED
    BY <1>2, <1>7, <1>9, <1>13, <2>1, <2>2 DEF MintOK, AccountsStay
<1> QED
  BY <1>6, <1>8, <1>9, <1>10, <1>11, <1>13, <1>14, ChainStep

LEMMA CloseKeepsInv ==
  ASSUME DeployInv, NEW s \in Sessions, CloseMint(s)
  PROVE  DeployInv'
<1>1. StateTyped /\ SessionOK(s) /\ Lands(s, "close") /\ "close" \in Transactions
  BY TypeOKIsTyped DEF DeployInv, CloseMint, Transactions
<1>2. PICK m \in MintKeys : m = OldMintKey
  BY <1>1, Landed DEF SessionOK
<1>3. /\ mints' \in [MintKeys -> MintRecords \cup {NoMint}]
      /\ mints'[m] = NoMint
      /\ \A k \in MintKeys \ {m} : mints'[k] = mints[k]
  BY <1>1, <1>2 DEF CloseMint, StateTyped
<1>4. StateTyped'
  BY <1>1, <1>3, Landed DEF CloseMint, Lands, StateTyped, files
<1>5. \A k \in MintKeys : AccountsStay(k)
  BY DEF CloseMint, AccountsStay, HasMint
<1>6. \A k \in MintKeys : Holds(s, k)' => Holds(s, k)
  BY <1>1, Landed
<1>7. session' = session /\ UNCHANGED files /\ OtherTxStay(s) /\ SessionOK(s)'
  BY <1>1, Landed DEF Lands
<1>8. IssuedFor(m)'
  BY <1>3 DEF IssuedFor
<1>9. \A t \in Sessions : ~Holds(t, m)'
  BY <1>2, <1>7, KeysAssumption DEF DeployInv, SessionOK, Holds
<1>10. \A a \in AccountKeys : ~HasMint(a, m)'
  BY <1>2, <1>5 DEF DeployInv, ChainOK, MintOK, AccountsStay
<1>11. MintOK(m)'
  BY <1>9, <1>10 DEF MintOK
<1> QED
  BY <1>3, <1>4, <1>5, <1>6, <1>7, <1>8, <1>11, ChainStep

LEMMA OpenTokenAccountKeepsInv ==
  ASSUME DeployInv, NEW s \in Sessions, OpenTokenAccount(s)
  PROVE  DeployInv'
<1>1. StateTyped /\ SessionOK(s) /\ Lands(s, "open") /\ "open" \in Transactions
  BY TypeOKIsTyped DEF DeployInv, OpenTokenAccount, Transactions
<1>2. /\ session[s].mint \in MintKeys /\ session[s].mint # OldMintKey
      /\ session[s].account \in AccountKeys
  BY <1>1, Landed, KeysAssumption DEF SessionOK, Making
<1>3. PICK m \in MintKeys, a \in AccountKeys :
        /\ m = session[s].mint /\ a = session[s].account /\ m # OldMintKey
        /\ mints[m] # NoMint /\ token_accounts[a] = NoTokenAccount
        /\ token_accounts' = [token_accounts EXCEPT ![a] = [mint |-> m, amount |-> 0]]
  BY <1>2 DEF OpenTokenAccount
<1>4. [mint |-> m, amount |-> 0] \in AccountRecords
  BY AmountAssumption DEF AccountRecords
<1>5. /\ token_accounts' \in [AccountKeys -> AccountRecords \cup {NoTokenAccount}]
      /\ token_accounts'[a] = [mint |-> m, amount |-> 0]
      /\ \A b \in AccountKeys \ {a} : token_accounts'[b] = token_accounts[b]
  BY <1>1, <1>3, <1>4 DEF StateTyped
<1>6. mints' = mints /\ StateTyped'
  BY <1>1, <1>5, Landed DEF OpenTokenAccount, Lands, StateTyped, files
<1>7. /\ token_accounts'[a] # NoTokenAccount /\ token_accounts'[a].mint = m
      /\ token_accounts'[a].amount = 0
  <2>1. token_accounts'[a] # NoTokenAccount
    BY <1>4, <1>5, NoMintIsNoRecord
  <2>2. token_accounts'[a].mint = m /\ token_accounts'[a].amount = 0
    BY <1>5
  <2> QED
    BY <2>1, <2>2
<1>8. \A k \in MintKeys \ {m} : AccountsStay(k)
  BY <1>3, <1>5, <1>7 DEF AccountsStay, HasMint
<1>9. \A b \in AccountKeys \ {a} :
        (HasMint(b, m)' <=> HasMint(b, m)) /\ token_accounts'[b] = token_accounts[b]
  BY <1>5 DEF HasMint
<1>10. IssuedFor(m)'
  <2>1. ~HasMint(a, m)
    BY <1>3 DEF HasMint
  <2>2. Funded(m)' = Funded(m)
    BY <1>7, <1>9, <2>1 DEF Funded
  <2>3. \A b \in Funded(m) : token_accounts'[b] = token_accounts[b]
    BY <1>9, <2>1 DEF Funded
  <2>4. IssuedFor(m)
    BY IssuedOnceByMint DEF DeployInv
  <2> QED
    BY <1>6, <2>2, <2>3, <2>4 DEF IssuedFor
<1>11. Unissued(m) => Unissued(m)'
  BY <1>6, <1>7, <1>9 DEF Unissued
<1>12. \A k \in MintKeys : Holds(s, k)' => Holds(s, k)
  BY <1>1, Landed
<1>13. session' = session /\ UNCHANGED files /\ OtherTxStay(s) /\ SessionOK(s)'
  BY <1>1, Landed DEF Lands
<1>14. MintOK(m)'
  <2>1. MintOK(m) /\ OthersStay(s)
    BY <1>13 DEF DeployInv, ChainOK, OthersStay
  <2>2. \A t \in Sessions : Holds(t, m)' => Holds(t, m)
    BY <1>12, <1>13, <2>1, OthersHoldTheSame
  <2>3. mints'[m] # NoMint /\ m # OldMintKey
    BY <1>3, <1>6
  <2> QED
    BY <1>11, <2>1, <2>2, <2>3 DEF MintOK
<1> QED
  BY <1>6, <1>8, <1>10, <1>12, <1>13, <1>14, ChainStep

LEMMA IssueKeepsInv ==
  ASSUME DeployInv, NEW s \in Sessions, IssueCoins(s)
  PROVE  DeployInv'
<1>1. StateTyped /\ SessionOK(s) /\ Lands(s, "issue") /\ "issue" \in Transactions
  BY TypeOKIsTyped DEF DeployInv, IssueCoins, Transactions
<1>2. session[s].mint \in MintKeys /\ session[s].account \in AccountKeys
  BY <1>1, Landed DEF SessionOK, Making
<1>3. PICK m \in MintKeys, a \in AccountKeys :
        /\ m = session[s].mint /\ a = session[s].account
        /\ mints[m] # NoMint /\ HasMint(a, m)
        /\ mints[m].supply + MINT_AMOUNT <= U64_MAX
        /\ mints' = [mints EXCEPT ![m].supply = @ + MINT_AMOUNT]
        /\ token_accounts' = [token_accounts EXCEPT ![a].amount = @ + MINT_AMOUNT]
  BY <1>2 DEF IssueCoins
\* The session still held the mint, so there are no coins of it yet.
<1>4. Holds(s, m)
  BY <1>1, <1>3, Landed DEF Holds
<1>5. /\ mints[m].supply = 0 /\ m # OldMintKey
      /\ \A b \in AccountKeys : HasMint(b, m) => token_accounts[b].amount = 0
  BY <1>3, <1>4 DEF DeployInv, ChainOK, MintOK, Unissued
<1>6. /\ mints[m] \in MintRecords /\ token_accounts[a] \in AccountRecords
      /\ token_accounts[a].mint = m /\ token_accounts[a].amount = 0
  BY <1>1, <1>3, <1>5 DEF StateTyped, HasMint
<1>7. MINT_AMOUNT \in 0..U64_MAX /\ MINT_AMOUNT > 0 /\ 0 + MINT_AMOUNT = MINT_AMOUNT
  BY AmountAssumption
<1>8. /\ mints' = [mints EXCEPT ![m].supply = MINT_AMOUNT]
      /\ token_accounts' = [token_accounts EXCEPT ![a].amount = MINT_AMOUNT]
  BY <1>3, <1>5, <1>6, <1>7
<1>9. /\ [mints[m] EXCEPT !.supply = MINT_AMOUNT] \in MintRecords
      /\ [token_accounts[a] EXCEPT !.amount = MINT_AMOUNT] \in AccountRecords
  BY <1>6, <1>7 DEF MintRecords, AccountRecords
<1>10. /\ mints' \in [MintKeys -> MintRecords \cup {NoMint}]
       /\ mints'[m] = [mints[m] EXCEPT !.supply = MINT_AMOUNT]
       /\ \A k \in MintKeys \ {m} : mints'[k] = mints[k]
  BY <1>1, <1>8, <1>9 DEF StateTyped
<1>11. /\ token_accounts' \in [AccountKeys -> AccountRecords \cup {NoTokenAccount}]
       /\ token_accounts'[a] = [token_accounts[a] EXCEPT !.amount = MINT_AMOUNT]
       /\ \A b \in AccountKeys \ {a} : token_accounts'[b] = token_accounts[b]
  BY <1>1, <1>8, <1>9 DEF StateTyped
<1>12. mints'[m] # NoMint /\ mints'[m].supply = MINT_AMOUNT
  <2>1. mints'[m] # NoMint
    BY <1>9, <1>10, NoMintIsNoRecord
  <2>2. mints'[m].supply = MINT_AMOUNT
    BY <1>6, <1>10 DEF MintRecords
  <2> QED
    BY <2>1, <2>2
<1>13. /\ token_accounts'[a] # NoTokenAccount /\ token_accounts'[a].mint = m
       /\ token_accounts'[a].amount = MINT_AMOUNT
  <2>1. token_accounts'[a] # NoTokenAccount
    BY <1>9, <1>11, NoMintIsNoRecord
  <2>2. token_accounts'[a].mint = m /\ token_accounts'[a].amount = MINT_AMOUNT
    BY <1>6, <1>11 DEF AccountRecords
  <2> QED
    BY <2>1, <2>2
<1>14. StateTyped'
  BY <1>1, <1>10, <1>11, Landed DEF Lands, StateTyped, files
<1>15. \A k \in MintKeys \ {m} : AccountsStay(k)
  BY <1>3, <1>6, <1>11, <1>13 DEF AccountsStay, HasMint
<1>16. IssuedFor(m)'
  <2>1. \A b \in AccountKeys \ {a} : HasMint(b, m)' => token_accounts'[b].amount = 0
    BY <1>5, <1>11 DEF HasMint
  <2>2. HasMint(a, m)'
    BY <1>13 DEF HasMint
  <2>3. Funded(m)' = {a}
    BY <1>7, <1>13, <2>1, <2>2, AmountAssumption DEF Funded
  <2> QED
    BY <1>12, <1>13, <2>3 DEF IssuedFor
<1>17. session' = session /\ UNCHANGED files /\ OtherTxStay(s) /\ SessionOK(s)'
  BY <1>1, Landed DEF Lands
<1>18. \A k \in MintKeys : ~Holds(s, k)'
  BY <1>1, Landed
<1>19. \A t \in Sessions : ~Holds(t, m)'
  <2>1. \A t \in Sessions \ {s} : ~Holds(t, m)
    BY <1>4 DEF DeployInv, ChainOK, MintOK
  <2>2. OthersStay(s)
    BY <1>17 DEF OthersStay
  <2> QED
    BY <1>17, <1>18, <2>1, <2>2, OthersHoldTheSame
<1>20. MintOK(m)'
  BY <1>5, <1>12, <1>19 DEF MintOK
<1> QED
  BY <1>10, <1>14, <1>15, <1>16, <1>17, <1>18, <1>20, ChainStep

-----------------------------------------------------------------------------
\* DeployInv is inductive.

LEMMA DeployInvInit == DeployInit => DeployInv
<1> SUFFICES ASSUME DeployInit PROVE DeployInv
  OBVIOUS
<1> USE DEF DeployInit
<1>1. DeployTypeOK
  BY AmountAssumption, KeysAssumption DEF DeployTypeOK, Steps, Ends, Transactions
<1>2. \A a \in AccountKeys, m \in MintKeys : ~HasMint(a, m)
  BY DEF HasMint
<1>3. IssuedOnce
  BY <1>2 DEF IssuedOnce
<1>4. \A s \in Sessions : SessionOK(s)
  BY DEF SessionOK, PreSteps, Making, Transactions
<1>5. FilesOK
  BY KeysAssumption DEF FilesOK
<1>6. ChainOK
  BY <1>2 DEF ChainOK, MintOK, Holds
<1> QED
  BY <1>1, <1>3, <1>4, <1>5, <1>6 DEF DeployInv

LEMMA DeployInvStep == DeployInv /\ [DeployNext]_vars => DeployInv'
<1> SUFFICES ASSUME DeployInv, [DeployNext]_vars PROVE DeployInv'
  OBVIOUS
<1>1. CASE UNCHANGED vars
  BY <1>1 DEF vars, DeployInv, DeployTypeOK, IssuedOnce, SessionOK, FilesOK, ChainOK, MintOK,
              Holds, Unissued, HasMint
<1>2. ASSUME NEW s \in Sessions, Step(s)
      PROVE  DeployInv'
  <2>1. Decline(s) \/ PricesFetched(s) \/ FetchFailed(s) => DeployInv'
    BY EndingKeepsInv DEF Decline, PricesFetched, FetchFailed, Ends
  <2>2. Throws(s) => DeployInv'
    BY EndingKeepsInv, ThrowsIsEnding, TypeOKIsTyped DEF DeployInv
  <2> QED
    BY <1>2, <2>1, <2>2, LoadAccountKeyKeepsInv, RunOperationKeepsInv, SaveMintKeyKeepsInv,
       ReadMintKeyKeepsInv, SaveAccountKeyKeepsInv, ReadAccountKeyKeepsInv,
       SendKeepsInv, ConfirmedKeepsInv DEF Step
<1>3. ASSUME NEW s \in Sessions, Land(s)
      PROVE  DeployInv'
  BY <1>3, CreateMintKeepsInv, OpenTokenAccountKeepsInv, IssueKeepsInv, RevokeKeepsInv,
     CloseKeepsInv DEF Land
<1>4. ASSUME NEW s \in Sessions, Kill(s)
      PROVE  DeployInv'
  BY <1>4, EndingKeepsInv DEF Kill, Ends
<1> QED
  BY <1>1, <1>2, <1>3, <1>4, StartKeepsInv, FailKeepsInv DEF DeployNext

LEMMA DeployInvAlways == DeploySpec => []DeployInv
  BY DeployInvInit, DeployInvStep, PTL DEF DeploySpec

\* Every reachable state is well typed, and a session that works on a mint or
\* an account has its key.
THEOREM DeployTypeCorrect == DeploySpec => []DeployTypeOK
<1>1. DeployInv => DeployTypeOK
  BY DEF DeployInv
<1> QED
  BY <1>1, DeployInvAlways, PTL

\* However many sessions are started, stopped and left without an answer, a
\* mint issues its amount at most once, to one account.
THEOREM NoSecondIssue == DeploySpec => []IssuedOnce
<1>1. DeployInv => IssuedOnce
  BY DEF DeployInv
<1> QED
  BY <1>1, DeployInvAlways, PTL

-----------------------------------------------------------------------------
\* A session that holds no mint, of those that exist, comes to hold none.

LEMMA SessionsDoNotTakeUp ==
  ASSUME DeployInv, NEW m \in MintKeys, mints[m] # NoMint, [DeployNext]_vars,
         NEW s \in Sessions, ~MayIssue(s, m)
  PROVE  ~MayIssue(s, m)'
<1>1. StateTyped /\ SessionOK(s)
  BY TypeOKIsTyped DEF DeployInv
<1>2. ASSUME session'[s] = session[s], tx'[s] = tx[s]
      PROVE  ~MayIssue(s, m)'
  BY <1>2 DEF MayIssue
<1>3. ASSUME session[s].at \in PreSteps, tx' = tx, session'[s].at \notin {"open", "issue"}
      PROVE  ~MayIssue(s, m)'
  BY <1>1, <1>3 DEF SessionOK, MayIssue
<1>4. ASSUME NEW at \in Ends, session' = [session EXCEPT ![s].at = at], tx' = tx
      PROVE  ~MayIssue(s, m)'
  <2>1. at \in Steps
    BY DEF Steps
  <2>2. session'[s].at = at /\ session'[s].mint = session[s].mint
    BY <1>1, <1>4, <2>1, AtChanges DEF StateTyped
  <2> QED
    BY <1>4, <2>2 DEF MayIssue, Ends
<1>5. ASSUME NEW t \in Sessions \ {s}, StartSession(t) \/ Step(t) \/ Land(t) \/ Fail(t) \/ Kill(t)
      PROVE  ~MayIssue(s, m)'
  <2>1. session'[s] = session[s] /\ tx'[s] = tx[s]
    BY <1>1, <1>5
    DEF StateTyped, StartSession, Step, Land, Fail, Kill, LoadAccountKey, Decline,
        RunOperation, PricesFetched, FetchFailed, SaveMintKey, ReadMintKey, SaveAccountKey,
        ReadAccountKey, Send, Confirmed, Throws, Lands, CreateMint, OpenTokenAccount,
        IssueCoins, RevokeMintAuthority, CloseMint
  <2> QED
    BY <1>2, <2>1
<1>6. ASSUME Land(s)
      PROVE  ~MayIssue(s, m)'
  <2>1. PICK kind \in Transactions : Lands(s, kind) /\ (kind = "create" => session[s].mint # m)
    BY <1>6 DEF Land, CreateMint, OpenTokenAccount, IssueCoins, RevokeMintAuthority,
                CloseMint, Transactions
  <2>2. /\ tx'[s].status = "landed" /\ session' = session
        /\ tx[s].kind = kind /\ tx[s].status = "in_flight"
    BY <1>1, <2>1, Landed DEF Lands
  <2>3. session[s].at = "create" => kind = "create"
    BY <1>1, <2>2 DEF SessionOK, Transactions
  <2> QED
    BY <2>1, <2>2, <2>3 DEF MayIssue
<1>7. ASSUME Send(s)
      PROVE  ~MayIssue(s, m)'
  <2>1. /\ session' = session /\ tx'[s].status = "in_flight"
        /\ tx'[s].kind = session[s].at
    BY <1>1, <1>7 DEF Send, StateTyped
  <2> QED
    BY <2>1 DEF MayIssue
<1>8. ASSUME Fail(s)
      PROVE  ~MayIssue(s, m)'
  <2>1. session' = session /\ tx'[s].status = "failed"
    BY <1>1, <1>8, StatusChanges DEF Fail, StateTyped
  <2> QED
    BY <2>1 DEF MayIssue
<1>9. ASSUME Confirmed(s)
      PROVE  ~MayIssue(s, m)'
  <2> DEFINE at == AfterConfirmed(session[s].at)
  <2>1. /\ at \in {"open", "issue", "done"}
        /\ at = "open" => session[s].at = "create"
        /\ at = "issue" => session[s].at = "open"
    BY <1>9 DEF Confirmed, Transactions, AfterConfirmed
  <2>2. at \in Steps /\ session' = [session EXCEPT ![s].at = at]
    BY <1>9, <2>1 DEF Confirmed, Steps, Transactions, Ends
  <2> HIDE DEF at
  <2>3. session'[s].at = at /\ session'[s].mint = session[s].mint
    BY <1>1, <2>2, AtChanges DEF StateTyped
  <2>4. tx'[s].status = "none"
    BY <1>1, <1>9, StatusChanges DEF Confirmed, StateTyped
  <2> QED
    BY <1>9, <2>1, <2>3, <2>4 DEF Confirmed, MayIssue
<1>10. ASSUME Step(s)
       PROVE  ~MayIssue(s, m)'
  <2>1. Decline(s) \/ PricesFetched(s) \/ FetchFailed(s) => ~MayIssue(s, m)'
    BY <1>4 DEF Decline, PricesFetched, FetchFailed, Ends
  <2>2. Throws(s) => ~MayIssue(s, m)'
    BY <1>1, <1>4, ThrowsIsEnding
  <2>3. ASSUME \/ LoadAccountKey(s) \/ SaveMintKey(s) \/ ReadMintKey(s) \/ SaveAccountKey(s)
               \/ ReadAccountKey(s) \/ \E op \in Operations : RunOperation(s, op)
        PROVE  ~MayIssue(s, m)'
    <3>1. session[s].at \in PreSteps /\ tx' = tx
      BY <2>3 DEF LoadAccountKey, SaveMintKey, ReadMintKey, SaveAccountKey, ReadAccountKey,
                  RunOperation, PreSteps
    <3>2. session'[s].at \notin {"open", "issue"}
      <4>1. LoadAccountKey(s) \/ SaveMintKey(s) \/ SaveAccountKey(s) \/ ReadAccountKey(s)
              => session'[s].at \in {"ready", "read_mint", "read_account", "create"}
        BY <1>1 DEF LoadAccountKey, SaveMintKey, SaveAccountKey, ReadAccountKey,
                    StateTyped, SessionRecords
      <4>2. ReadMintKey(s) => session'[s].at \notin {"open", "issue"}
        BY <1>1 DEF ReadMintKey, AfterMintKey, FirstTransaction, SessionOK, KeyOperations,
                    StateTyped, SessionRecords
      <4>3. ASSUME NEW op \in Operations, RunOperation(s, op)
            PROVE  session'[s].at \notin {"open", "issue"}
        BY <1>1, <4>3 DEF RunOperation, AfterMintKey, FirstTransaction, Operations,
                    PriceOperations, KeyOperations, StateTyped, SessionRecords
      <4> QED
        BY <2>3, <4>1, <4>2, <4>3
    <3> QED
      BY <1>3, <3>1, <3>2
  <2> QED
    BY <1>7, <1>9, <1>10, <2>1, <2>2, <2>3 DEF Step
<1>11. ASSUME Kill(s)
       PROVE  ~MayIssue(s, m)'
  BY <1>4, <1>11 DEF Kill, Ends
<1>12. ASSUME StartSession(s)
       PROVE  ~MayIssue(s, m)'
  <2>1. session[s].at \in PreSteps /\ tx' = tx /\ session'[s].at = "loading"
    BY <1>1, <1>12 DEF StartSession, PreSteps, StateTyped, SessionRecords
  <2> QED
    BY <1>3, <2>1
<1>13. CASE UNCHANGED vars
  BY <1>2, <1>13 DEF vars
<1> QED
  BY <1>5, <1>6, <1>8, <1>10, <1>11, <1>12, <1>13 DEF DeployNext

LEMMA NobodyIssues ==
  ASSUME DeployInv, NEW m \in MintKeys, Abandoned(m), [DeployNext]_vars, mints'[m] # NoMint
  PROVE  mints'[m].supply = 0
<1>1. StateTyped /\ mints[m] # NoMint /\ mints[m].supply = 0
  BY TypeOKIsTyped DEF DeployInv, Abandoned
<1>2. mints[m] \in MintRecords
  BY <1>1 DEF StateTyped
<1>3. ASSUME mints'[m] = mints[m] PROVE mints'[m].supply = 0
  BY <1>1, <1>3
<1>4. ASSUME NEW s \in Sessions, Land(s)
      PROVE  mints'[m].supply = 0
  <2>1. CASE CreateMint(s)
    <3>1. mints'[m] = mints[m]
      BY <1>1, <2>1 DEF CreateMint, StateTyped
    <3> QED
      BY <1>3, <3>1
  <2>2. CASE OpenTokenAccount(s)
    BY <1>3, <2>2 DEF OpenTokenAccount
  <2>3. CASE IssueCoins(s)
    <3>1. tx[s].kind = "issue" /\ tx[s].status = "in_flight"
      BY <2>3 DEF IssueCoins, Lands
    <3>2. session[s].mint # m
      BY <3>1 DEF Abandoned, MayIssue
    <3>3. mints'[m] = mints[m]
      BY <1>1, <2>3, <3>2 DEF IssueCoins, StateTyped
    <3> QED
      BY <1>3, <3>3
  <2>4. CASE RevokeMintAuthority(s)
    <3>1. CASE session[s].mint = m
      <4>1. mints'[m] = [mints[m] EXCEPT !.authority = FALSE]
        BY <1>1, <2>4, <3>1 DEF RevokeMintAuthority, StateTyped
      <4> QED
        BY <1>1, <1>2, <4>1 DEF MintRecords
    <3>2. CASE session[s].mint # m
      <4>1. mints'[m] = mints[m]
        BY <1>1, <2>4, <3>2 DEF RevokeMintAuthority, StateTyped
      <4> QED
        BY <1>3, <4>1
    <3> QED
      BY <3>1, <3>2
  <2>5. CASE CloseMint(s)
    <3>1. mints'[m] = mints[m]
      BY <1>1, <2>5 DEF CloseMint, StateTyped
    <3> QED
      BY <1>3, <3>1
  <2> QED
    BY <1>4, <2>1, <2>2, <2>3, <2>4, <2>5 DEF Land
<1>5. ASSUME NEW s \in Sessions, StartSession(s) \/ Step(s) \/ Fail(s) \/ Kill(s)
      PROVE  mints' = mints
  BY <1>5 DEF StartSession, Step, Fail, Kill, LoadAccountKey, Decline, RunOperation,
              PricesFetched, FetchFailed, SaveMintKey, ReadMintKey, SaveAccountKey,
              ReadAccountKey, Send, Confirmed, Throws, chain
<1>6. CASE UNCHANGED vars
  BY <1>3, <1>6 DEF vars
<1> QED
  BY <1>3, <1>4, <1>5, <1>6 DEF DeployNext

\* A deployment that stopped half way is never finished: a created mint without
\* coins that no session holds gets none, whatever sessions start afterwards.
THEOREM AbandonedStays == DeploySpec => AbandonedForGood
<1>1. ASSUME DeployInv, [DeployNext]_vars, NEW m \in MintKeys, Abandoned(m)
      PROVE  Abandoned(m)' \/ mints'[m] = NoMint
  <2>1. \A s \in Sessions : ~MayIssue(s, m)'
    BY <1>1, SessionsDoNotTakeUp DEF Abandoned
  <2> QED
    BY <1>1, <2>1, NobodyIssues DEF Abandoned
<1>2. DeployInv /\ [DeployNext]_vars =>
        [\A m \in MintKeys : Abandoned(m) => Abandoned(m)' \/ mints'[m] = NoMint]_vars
  BY <1>1
<1> QED
  BY <1>2, DeployInvAlways, PTL DEF DeploySpec, AbandonedForGood

=============================================================================
