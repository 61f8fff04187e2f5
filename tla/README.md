# A TLA+ verification of stable-eur-coin

The repository is a Solana project: two on-chain programs (Rust, Anchor), an
off-chain price reader, and TypeScript scripts that deploy the coin and call the
programs. This directory holds TLA+ models of the programs and of the two
scripts, the TLC configurations that check them on small instances, and
machine-checked proofs about them. Paths below are relative to the
repository's root; `rate lib.rs` is `programs/anrx_exchange_rate/src/lib.rs`,
`coin lib.rs` is `programs/anrx-eur-coin/src/lib.rs`.

## 1. Inventory

| Component | State | Operations | Modelled by |
|---|---|---|---|
| `anrx_exchange_rate` (rate lib.rs) | one `ExchangeRate` account per user, at an address derived from `"exchange_rate"` and the user's key: rate (fixed point), user, bump | `initialize_exchange_rate`, `update_exchange_rate` | `ExchangeRate` |
| Purchases in `anrx_eur_coin` (coin lib.rs 151-297, 384-409, 424-441, 524-591) | one `FeeConfig` account with six shares; lamports of all wallets | `initialize_fee_config`, `purchase_with_fee` | `Purchase`, `PurchaseSteps` |
| Token in `anrx_eur_coin` (coin lib.rs 43-150, 339-376) | the mint (supply, authority), token accounts, Metaplex metadata | `init_token`, `revoke_mint_authority`, `mint_tokens`, `emergency_burn`, `update_metadata` | `Token`, abstractly `Coin` |
| P2P transfers (coin lib.rs 298-335) | none of its own | `p2p_transfer` | `EurCoin` |
| Deployment script (`client/deploy.ts`, key files in `client/helpers/lib.ts`) | two key files, the globals of each run, transactions under way, a Token-2022 mint and its token accounts | create + open + issue, revoke, derive the destination of a mint, close, fetch prices, quote | `DeployClient` |
| Playground client (`client/client.ts`) | one key file, one transaction per run, what the run printed | `initToken`, `revokeMintAuthority`, `revokeMintAuthorityV2`, `mintTokens`, `updateMetadataV2`, `createAssociatedTokenAccount` | `TokenClient` |
| Token-2022 mint (`instructions.rs`, `utils.rs`) | a mint with extensions, an associated and an extra-metas account, their lamports | `create_mint_account`, `check_mint_extensions_constraints` | `MintAccount2022` |
| Quotes (`defineTokenPrice` of `deploy.ts`) and the price reader (`programs/anrx_exchange_client`) | none | conversions of a Pyth price | `PriceQuote` |
| `tests/`, `migrations/` | none | tests; an empty template | not modelled |

How they interact. `purchase_with_fee` and `p2p_transfer` call
`update_exchange_rate` of the other program in the middle of their own handler
(a CPI), passing on the payer's account and two Pyth price accounts. All three
token instructions call the SPL token program. The deployment script talks to the
cluster only, by transactions it signs and awaits, and to other runs of itself
through key files. The playground client calls the token instructions and reports
how they went. Nothing connects the Token-2022 coin the script deploys to the
mint the program creates.

What is hard here, and which property answers it, is the list `hazards` of
`PROJECT.json`. In short:

* **State read before a call and used after it.** Anchor deserialises accounts
  when the handler starts; the CPI changes one of them; the handler goes on with
  its copy (coin lib.rs 170-178). The script believes key files it read before a
  prompt (deploy.ts 80, 810-818).
* **Rollback.** A purchase is a refresh and seven transfers; a P2P transfer is a
  refresh and a transfer. Each is all or nothing.
* **Aliasing.** Callers choose every account. The tests pass one account for
  two roles.
* **Numbers.** f64 arithmetic, saturating casts, seven roundings of one amount,
  shares nobody adds up, `u64` limits of the supply.
* **Call sequences.** `init` accounts that must not exist, a stored bump that
  must match, a revoked authority, constraints no signer can satisfy.
* **Rent.** Lamports sent to an address before an account is created there, an
  account that grows afterwards, and a subtraction that may not go below zero.
* **Crashes, lost answers, stale answers, reruns** of the scripts.

## 2. Modules

```
Solana             wallets, u64, `f64 as u64`
  ExchangeRate     the rate program; Pyth and time as environment
    PriceQuote     the quotes made off chain of the same prices
    Purchase       fee configuration and purchase_with_fee
      PurchaseSteps  purchase_with_fee call by call; implements Purchase
  Token            mint, token accounts, metadata; implements Coin
    TokenClient    client.ts on top of it
    EurCoin        EXTENDS Purchase, Token: p2p_transfer, everything interleaved
  MintAccount2022  create_mint_account: accounts, extensions, rent
Coin               the abstract coin
DeployClient       the deployment script and the accounts it creates
MC*                the small instances
SumLemmas          laws of the sum of a function over a finite set
  Purchase_proofs  theorems about ExchangeRate, PriceQuote and Purchase
    PurchaseSteps_proofs
  Token_proofs     theorems about Token, and that it implements Coin
    TokenClient_proofs
  EurCoin_proofs   EXTENDS Purchase_proofs, Token_proofs: the whole
MintAccount2022_proofs, DeployClient_proofs
```

**An instruction is one step.** The runtime executes a transaction's
instructions one after the other with exclusive access to the accounts it writes,
and rolls back a failed one. So a handler is an acceptance predicate
(`...Accepted`: account constraints, `require!`s, the checks of the program it
calls, in one conjunction) and the effect of the accepted call. A rejected call
is a stuttering step. `UpdateMetadata` alone spells its rejection out, because
every call is rejected and the action would otherwise not exist. That an
instruction may be taken for one step is not only assumed: `PurchaseSteps` checks
it for the longest one, from the rollback and the account locks alone.

### ExchangeRate

`exchange_rate[u]` is the account of user `u` or `NoAccount`; `price_update[acc]`
is what Pyth last posted to a price account. `InitializeExchangeRate` stores the
bump its caller passes and a zero rate. `UpdateExchangeRate` needs the address to
verify with the stored bump (`SeedsOk`), and two prices that are fully verified,
carry the feed id asked for and are at most `MAX_AGE` old (`PriceOk`). `RateValue`
is the quotient. f64 is modelled by its exact value plus an error `err` of up to
`F64_ERR` units of one over the divisor, chosen freely for every result, and by
the behaviour of the cast: truncation, saturation at 0 and at the top, and for a
zero divisor infinity (the top) or NaN (zero). `PowersOfTen` is a recursive
function and not the built-in power, so that its laws can be proved.

`PriceQuote` has no state. `Quote` is `defineTokenPrice` on any answer of Hermes
made of the messages the price accounts carry: in any order, with a feed missing
or twice. `LoggedPrice` is the conversion of the price reader, which divides where
the script multiplies; nothing in the repository reads what it logs, so it serves
as the wrong form QuoteMatchesRate must tell from the right one.

`PostPrice` and `Tick` are the environment. Ages stop counting one above
`MAX_AGE`, since all outdated prices are refused alike.

### Purchase

`PurchaseWithFee` computes a charge per role from the rate *before* the refresh
(`exchange_rate[u].rate`), requires the refresh to be acceptable and the payer to
have the total, pays, and refreshes. `Charges` is the set of charges the rounding
errors allow; each of the seven amounts has its own. `Received` adds up the roles
an account is passed for. `Layouts` are the assignments of accounts to roles a
caller may choose; the payer itself is never a recipient.

Two constants carry what the deployed code gets wrong, so that the rest can be
checked at all:

* `SEEDS_PROGRAM` is the id under which the purchase derives the rate's address.
  The code's constraint (coin lib.rs:568, and :602 for transfers) has no
  `seeds::program`, so it is anrx_eur_coin's own id and no account of
  anrx_exchange_rate can ever match. Run `purchase_seeds` uses that;
  **`purchase` and `eur_coin` use the repaired value**.
* `EUR_USD_FEED`, `SOL_USD_FEED` are the feed ids the handler asks for. The code
  names addresses of price accounts (coin lib.rs:154-155; the actual ids are in
  the comment at 158-159), which no message carries, so that a purchase would be
  refused with the first constraint repaired too (set the two constants
  to ids outside the range of `FeedOf`, and PurchasePossible fails). The
  runs use the actual ids.

So FeeCap, PaidInProportion, FreeAtZeroRate, P2PIsFreeAndOwned describe the
handlers' bodies behind these two constraints, and NothingIsEverSold, which is
proved (section 4), describes the program as it stands.

### PurchaseSteps

The same handler as the runtime executes it. `Enter` checks the account
constraints and copies the rate's account; `Refresh` is the call of the rate
program and the computation of the charge from the copy; `Transfer` is the next of
the seven; `Return` commits and `Abort` restores. `Elsewhere` is what may happen
in between: anything that needs none of the accounts the purchase has locked, so
nobody else buys (the reserve is locked), nobody writes the payer's rate or the
prices it reads. `Committed` is what other transactions see: the state from before
the running call. ImplementsPurchase says that, seen so, each call is one
`PurchaseWithFee` or nothing. It rests on the copy (a handler that reloaded the
account would also be one step, of another specification), on the order of checks,
and on `Abort` undoing the refresh of the other program's account.

### Token

`mint`, `token` (per address) and `metadata` are the accounts. Addresses are of
two sorts: key accounts, for which a key can sign and which may be their own
owner, and associated accounts, for which none can. `OpenTokenAccount`,
`SplTransfer`, `SplClose` are what any wallet can do through the token program.

`Coin` is what that adds up to: a coin is launched once, its issuer can be dropped
but never replaced, what is issued lands at the issuer's empty till, coins leave
circulation only at addresses that sign, and everything else is a payment.
`AsCoin` maps an address to its balance and the outstanding amount to the mint's
supply; opening, closing and metadata become stuttering.

### TokenClient

A *session* is one start of client.ts with the wallet of its .env file, on the
chain of `Token`, where everybody else calls too (`OthersCall`). `LookForMint` and
`LookForAta` ask the cluster and may get an answer from before the account existed;
an error counts as "no account" in the second and ends the script in the first.
`LoadMintKeypair`/`SaveMintKeypair` are the key file, whose key nothing uses.
`Send`, then the transaction is executed (`InitLands`, `RevokeLands`, `AtaLands`,
`MintExecuted`, `UpdateExecuted`) or lost (`Fail`); the session sees it `Confirmed`
or `Throws`, whatever became of it. `said` is what it printed. A session runs one
operation, the one enabled in `main()`. As committed, main() runs
`updateMetadataV2` (line 537) before any of them; that call is always refused and
its error caught, so it changes nothing for the operation after it.

### MintAccount2022

`CreateMintAccount` creates the mint at a key pair, the receiver's associated
account and the extra-metas account; `init` adds what an address lacks for its rent
(`Missing`), then the metadata makes the mint longer and the handler adds the
difference (`ExtraLamports`). The difference is a u64 subtraction in a program built
with overflow checks (Cargo.toml), so a negative one refuses the call. `SendLamport`
funds any address beforehand; `SetAuthority`, `CloseMint2022`, `CloseAta` are what
Token-2022 lets the authorities do afterwards. No coins are minted into these
accounts: nothing in the program does. A lamport of the model stands for an amount
the runtime lets an empty account hold.

### EurCoin

All actions of `ExchangeRate`, `Purchase` and `Token` in one system, and
`P2PTransfer`.

### DeployClient

A *session* is one start of the script. It loads the two key files (one step
each, since another session may write in between), waits at the prompt, runs the
one operation `main()` can enable, and ends. On the mainnet (`MAINNET`) the prompt
may end it before that (`Decline`). The two price operations ask Hermes once:
`defineTokenPrice` catches a failure, `getPriceUpdateData` does not. `SaveMintKey`/`ReadMintKey` and
`SaveAccountKey`/`ReadAccountKey` are `checkOrGenerateSaveAndLoadKeypair`. A
transaction is sent (`Send`), lands with its instructions all executed
(`CreateMint`, `OpenTokenAccount`, `IssueCoins`, `RevokeMintAuthority`,
`CloseMint`), or fails (`Fail`: rejected, or its block hash expires). The session
sees it confirmed (`Confirmed`) or the call throws (`Throws`), and it may throw
whatever became of the transaction; the transaction of a session that has ended
can still land. `Kill` stops a session anywhere. Sessions are not reused: a rerun
is another session.

## 3. Runs

| Run | Instance | Shows |
|---|---|---|
| `exchange_rate` | 2 users with different canonical bumps, 2 bumps, 2 feeds, prices -2, 0, 3, exponents -1, 0, ages 0..2, `U64_MAX` 40, rounding errors; answers of Hermes with up to 2 messages | RateTypeOK, QuoteMatchesRate, WrongBumpIsForever, RateChangesAreFreshQuotes |
| `purchase` | 1 payer with 750 lamports, prices 2 and 3 (rates 6 to 15 tenths), amounts 300 and 700, two share settings that add up to a whole and to less, an account per role and one shared account, a rounding error per amount | PurchaseTypeOK, LamportsConserved, FeeCap, PaidInProportion, FreeAtZeroRate |
| `purchase_steps` | 2 payers, one with 700 lamports and one who can pay the reserve but not the fees, one shared account, prices 2 and 3 | StepsTypeOK, ImplementsPurchase |
| `token` | 2 wallets, 2 associated and 2 key accounts, `U64_MAX` 4, amounts 0, 1, 3 | TokenTypeOK, SupplyConserved, IssuanceEndsWithRevoke, BurnsAreSelfInflicted, IssuedToFreshAccount, MetadataIsForever, ImplementsCoin |
| `eur_coin` | 2 users, one price, `U64_MAX` 2, everything interleaved | EurCoinTypeOK, SupplyConserved, P2PIsFreeAndOwned |
| `token_client` | 2 sessions of different wallets, 2 associated accounts, a u64 of 1, the key file there or not | ClientTypeOK, ReportsAreTrue, ClientNeverIssues, ClientOperationsEnd |
| `mint_account` | 1 key pair, 2 wallets with 6 and 2 lamports, mints of length 3 that the metadata makes 4 or 5 | MintTypeOK, RentExempt, CreatedExactly, NeverRecreated |
| `deploy` | 2 sessions, 2 fresh mint keys and an old one, 2 account keys, mainnet, with fairness | DeployTypeOK, IssuedOnce, AbandonedForGood, OperationsEnd |

Why the bounds are enough to be interesting. In `exchange_rate` the quotient is
negative, zero, NaN, infinite, above the top and in range. In `purchase` the
payer can afford one purchase and not always a second; rates change between
purchases, so charging the old and the new rate differ; percentages and amounts
leave remainders in every fee. In `token` and `eur_coin` a second issue can
overflow the supply. In `purchase_steps` the second payer's call fails between two
transfers, after the refresh. In `mint_account` the key pair's address can be
funded below, at and above the final rent, and the mint of one length be refused
where one of the other length would not. In `token_client` one session can create
the mint between the look and the transaction of the other. In `deploy` one session
can leave a transaction behind while the other overwrites each key file;
`DeployClient_proofs` covers any number of sessions. `MINT_AMOUNT` is 2 of at most
5: the real amount (1.5e19) fits into a u64 once and not twice, so that on chain a
second issue would fail on overflow anyway; the check shows that it is not needed.
Runs that check liveness use no symmetry.

Deadlock is checked except where the system really may stop: the runs of
`DeployClient`, where all sessions end, and `mint_account`, where all lamports may
have gone to addresses nobody signs for.

### Disagreements the runs show

Each run expects the property to be violated; the property states what a
document, a comment, a message or a test says.

| Run | Statement | What the code does |
|---|---|---|
| `purchase_stale_rate` / PurchaseAtFreshRate | README.md:31, coin lib.rs:169 | charges at the rate before the refresh (:176) |
| `purchase_seeds` / PurchasePossible | tests/anrx_eur_coin.ts 288-340 | refuses every purchase (:568) |
| `token_burn` / OwnerCanBurn | tests/anrx_eur_coin.ts 420-436, README.md:65 | requires the account to be the signer's key (:133) |
| `deploy_keys` / KeyFileKept | client/helpers/lib.ts:37 | overwrites the file whether it exists or not (:40) |

`purchase_stale_rate` sets `F64_ERR` to 0: it does not depend on rounding.

More the modules show without a run of their own. The feed ids of coin lib.rs
154-155 are account addresses, so a purchase would be refused even with the seeds
repaired. `update_metadata` ("Updates the metadata of the token.", coin lib.rs:339;
tests 255-287) requires the signer's key to be the metadata address (:345), so that
MetadataIsForever holds. client.ts prints "Transaction Done!" for an associated
account whose transaction failed (:613), and never mints (:337; ClientNeverIssues).
A second `mint_tokens` of the
same authority is refused, since its destination must not exist (coin lib.rs:487;
`MintAccepted`, IssuedToFreshAccount), although tests/anrx_eur_coin.ts 152-159
prepares for an account with a balance. The bump that rate lib.rs:90
calls "Bump seed for PDA verification" is the caller's (:14); WrongBumpIsForever
says what follows. The shares in the comments of `FeeConfig` (coin lib.rs 526-532)
sum to 116.68%, and nothing checks them; FeeCap therefore has their sum as a
condition. README.md:71 promises "Full reserve backing", but `MintTokens` leaves
`lamports` alone and `PurchaseWithFee` leaves `mint` alone. The script prints
"Success!" (client/deploy.ts:822) whether or not the operation failed, since the
failure is caught and its result ignored (:379): both ways `AfterError` and
`AfterConfirmed` lead to `"done"`.

### Fairness

`DeployFairSpec` and `ClientSpec` assume some. Weak fairness of a session's steps: a
Node process that is not stopped goes on with its event loop, and
`sendAndConfirmTransaction` always settles, since it gives up when the block hash
has expired. Weak fairness of a transaction being executed or dropped: a block hash
is valid for a bounded number of blocks. Starting or stopping a session is not fair,
nor are the calls of others.
The on-chain programs have no liveness of their own: nothing is ever scheduled,
every step is a call somebody chooses to make.

## 4. Proofs

The theorems hold for all values of the constants that satisfy the `ASSUME`s of
the modules: any users, prices, exponents, shares, amounts, layouts, any
`U64_MAX`, any rounding error below a lamport of the nominal value
(`PrecisionAssumption`, which amounts below 2^53 justify; only ZeroRateIsFree
needs it). `WalletsAssumption` and `TokenAddressesAssumption` say that there are
finitely many addresses, of which a sum can be taken: an address is 32 bytes.
The remaining assumptions give constants their types and say that no account is
the value that stands for a missing one.

* `SumLemmas`: the sum of a function over a finite set (`FoldFunction` of the
  community modules) exists, is an integer, adds pointwise, and is unchanged
  when an amount moves from one place to another. Each lemma is an induction,
  done as the search for a smallest set that violates it: a nonempty family of
  subsets has a minimal one, which is not empty, and the claim holds of it
  without one of its elements. (The induction rules of the library take an
  operator as a parameter, which the provers cannot instantiate.)
* `Purchase_proofs`, rates: RateTypeCorrect, WrongBumpStays, OnlyFreshQuotes,
  QuotesMatch. Type correctness is inductive because the cast saturates (lemma per
  case of the divisor's sign). WrongBumpStays and OnlyFreshQuotes follow from each
  action by itself: an update needs `SeedsOk`, which is the negation of `Bricked`,
  and an initialisation an account that does not exist. QuotesMatch brings both
  quotients to the same divisor: powers of ten multiply (by a smallest
  counterexample, as does that the recursion has a solution) and a quotient does not
  change when both sides are scaled.
* `Purchase_proofs`, purchases: PurchaseTypeCorrect, FeeNeverAboveCap,
  FeesAreProportional, ZeroRateIsFree, NobodyCanBuy, NoLamportIsLost. The core of
  the fee bounds is arithmetic: a truncated amount times its divisor is at most the
  exact product plus the error and more than that less one divisor; six such
  inequalities are added for the cap, two are crossed for the proportion.
  NoLamportIsLost splits what the wallets gain by role: the gain is a sum of seven
  functions that are one charge at one wallet and zero elsewhere, so its sum is the
  charge that the payer lost, whichever roles share a wallet.
* `PurchaseSteps_proofs`: LocalsAreTyped, CallsAreAtomic. Neither StepsTypeOK nor
  the refinement is inductive: that the wallets stay natural, and that a returning
  call has done what `PurchaseWithFee` does, depends on what the call has done so
  far. `StepsInv` says it: the wallets are those of the beginning of the call, less
  the charges whose turn has come (`Made`, `PartPaid`), the payer could afford
  these, and once refreshed the payer's rate is the quotient of two prices that are
  still there and still fresh (`Refreshed`). It was checked by TLC on the instance of
  run `purchase_steps` first. Its step for `Transfer` is that one role more is one
  charge more, in the total and at the wallet of that role. For the refinement, one
  lemma per action says that it is a stutter to those who see the committed state
  only (`Enter`, `Refresh`, `Transfer`, `Abort`), a whole purchase (`Return`), or a
  step of the others that they see as such (`Elsewhere`; the payer's rate is the
  only account in which the committed state differs, and it is locked).
* `Token_proofs`: TokenTypeCorrect, RevokedForGood, NoAtaIsBurned,
  OnlyFreshAccountsAreFunded, MetadataStays, TokenImplementsCoin, SupplyIsHeld.
  `TokenTypeOK` is inductive; its last conjunct (no token account without a mint) is
  what lets `InitToken` keep the types of accounts. MetadataStays needs the auxiliary
  invariant MetadataNeedsMint: without it `InitToken`, guarded by the mint alone,
  could rewrite metadata. TokenImplementsCoin has one lemma per action that names the
  step of `Coin` it is; `TokenTypeOK` supplies that an account exists when coins move,
  and that only a key account is its own owner's key. SupplyIsHeld shows for each
  action that the sum of the balances changes by what the supply changes by.
* `EurCoin_proofs`: WholeIsItsParts, EurCoinTypeCorrect, WholeConserves, P2PIsOwned.
  Each step of the composition is a step of `Purchase` or none, and a step of `Token`
  or none: `P2PTransfer` is a refresh to the one and a transfer to the other. So
  `EurCoinSpec => PurchaseSpec /\ TokenSpec`, and all theorems about either hold of
  the whole system too. P2PIsOwned then only has to look at `P2PTransfer`.
* `TokenClient_proofs`: ClientTypeCorrect, ReportsStayTrue, NoIssueThroughClient.
  ReportsAreTrue is not inductive, since a session says nothing of the chain before
  it reports. `ClientInv` adds that a report rests on a transaction that landed, and
  what a landed one left behind; lemma MintStays of `Token_proofs` (nothing replaces
  a mint or its authority) keeps that true whatever others do. Every step of a
  session is a step of `Token` or none, so the token's type lemma applies.
* `DeployClient_proofs`: DeployTypeCorrect, NoSecondIssue, AbandonedStays. IssuedOnce
  is not inductive: a session about to issue says nothing of the mint. `DeployInv`
  adds what no single session sees: at most one session *holds* a mint, that is, has
  seen its own creation of it land and has not issued yet (a key is created once);
  a held mint has no coins; and a session never works on the key that is closed.
  One lemma per action; AbandonedStays then follows since only a creation gives a
  session the right to issue, and an abandoned mint exists already.
* `MintAccount2022_proofs`: MintTypeCorrect, AlwaysRentExempt, OneMintPerKey,
  CreatedWithItsRent. Types and rent are proved together: that the difference is not
  negative is what makes the payer's balance natural and the mint's balance exactly
  its rent.

So every safety invariant, action property and refinement that a passing run checks
is also a theorem. Only model-checked, out of the prover's reach: OperationsEnd and
ClientOperationsEnd (liveness under fairness). The four violated properties are
counterexamples, which a small instance settles.

## 5. Plan

1. `DeployClient` against an abstract one-shot deployment.
2. `p2p_transfer` call by call, as `PurchaseSteps` does for a purchase.

## 6. Not modelled

* Rent (except in `MintAccount2022`) and transaction fees, freeze authority, delegates, and changes of a token
  account's owner. Supply properties do not depend on them; balances in
  lamports count the seven transfers only.
* The layout of Pyth's account. `update_exchange_rate` deserialises its raw data
  with no regard to Anchor's eight-byte discriminator (rate lib.rs 27-33), so a
  genuine price account would not even parse; the model lets it parse, so as to
  say something about what follows.
* `FeeConfig.total_fee`, written and never read.
* `checkIfTokenAccountInitialized` (deploy.ts 560), `showTransactionOnExplorer`
  (helpers/lib.ts 110) and everything in comments; the checks of the .env file; the
  feed ids client.ts prints.
* The comparisons of the metadata and of the extensions in create_mint_account's
  handler (instructions.rs 31-72): they assert what the calls before them wrote.
* `fetch_pyth_price` makes an HTTP request inside a program, which cannot run on
  chain; only its conversion is modelled.
* Files that are written half (`writeFileSync` is not atomic), and operators
  who edit or delete key files.
* `main()` as committed runs only `getPriceUpdateData`; its comments list the
  operations, and `DeployClient` models a script in which one of them is enabled.
