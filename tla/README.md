# TLA+ models of the Tempo testnet activity bots

This directory models the two Python drivers of the repository in TLA+:

- `src/chains/tempo-old/_reference-nodejs DONOT USE THIS FOLDER/utils/reference/smart.py` (`smart.py` below). This is the adaptive agent, `SmartWallet`.
- `src/chains/tempo-spammer/src/tasks/_reference-nodejs DONOT USE THIS FOLDER/utils/reference/auto.py` (`auto.py` below). It holds the activities (`activity1` … `activity17`), the wallet selection parser and the fixed-catalog sweep `run_auto_mode`.

The project has three kinds of file:

- Each part of the system has a module (`X.tla`).
- An `MC_X.tla` module gives that module's constants small values.
- Each run is a `.cfg` file.

`PROJECT.json` lists:

- the components;
- the runs, with what each one shows;
- the mutants;
- the map from every definition to the source lines it translates;
- the findings, the hazards and the theorems.

## The system and how its parts interact

An *activity* is a recipe on one wallet. It builds a transaction, signs it, sends it with `send_raw_transaction` and waits with `sync_wait_for_tx_with_retry`. Every activity catches its own exceptions and returns a hash, a "skipped" string or `None`.

Two drivers call the activities:

- **Agent (smart.py).** `decide_next_action` refreshes a balance snapshot (`update_balances`). It then walks an ordered list of rules, each a predicate gated by a random draw, and falls back to a uniform pick from six safe activities. `_wrap_create_token` records a created token in the history and in the persisted store.
- **Sweep (auto.py, run_auto_mode).** The sweep first parses a selection of wallets (`parse_wallet_selection`). For each selected wallet it shuffles the catalog and runs every entry once. The create-token entry was meant to be followed by a bonus mint, burn and grant-role on the new token.

Underneath both drivers is the node. Its state is:

- the account nonce;
- the transaction pool;
- the receipts;
- the allowances;
- the roles and balances of a TIP-20 token.

The node can mine, evict and lose responses, and activities interact only through it.

## Modules and their correspondence to the code

| Module | Code | State | Actions |
|---|---|---|---|
| `SmartAgent` | `SmartWallet.__init__`, `update_balances`, `decide_next_action`, `_wrap_create_token` (smart.py 46-205) | chain balances, snapshot `bal`, `chosen`, `created` (history), `store` (persisted record) | `Decide` (the refresh plus the rule walk, as one action), `Execute` (the activity and its effect) |
| `TxPipeline` | every build-sign-send-wait recipe: activities 1, 3, 5, 6, 7, 10, 11, 14, 16, 17 of auto.py (152-441, 543-649, 776-955) and `activity15_infinity_name`, `activity18_tip403_policies` of smart.py (211-287) | node: `chainNonce`, `pool`, `receipt`, `allowance` (per token and spender), `evictions`; wallet: `pc`, `recipe`, `key`, `op` and the locals | one start action per recipe, one action per node call (`ReadAllowance`, `GetNonce`, `SendRaw`, `Quote`, the four wait outcomes, `RpcError`), and `Mine`, `Evict` for the node |
| `TokenOps` | `activity8_mint_tokens`, `activity9_burn_tokens`, `activity13_grant_role` (auto.py 443-541, 743-774) | `roles`, `bal`, FIFO `queue`, `receipt`; wallet `pc`, `needsRole`, `sentLog` | one action per call or branch; `Mine` checks roles and balance |
| `Liquidity` | `activity12_remove_liquidity` (auto.py 651-741) | LP balance per pair, the scan set, `pools_with_balance`, the pick, the amount, the burns | `ScanPair`, `ScanDone`, `Select`, `Send`, `Wait` |
| `Faucet` | `activity2_faucet` (auto.py 187-214) | `retries`, `attempt`, `calls`, `lastErr`, `waited` | `Call`: one iteration of the retry loop |
| `RetryPolicy` | spec sections 4.2 and 7 | `budget`, `tries`, `outcome`, `lastErr` | `Attempt`: the abstract retry policy `Faucet` implements |
| `AutoSweep` | `run_auto_mode`, `shuffle_array` (auto.py 109-113, 959-1113) | wallet index, the shuffled order, the log, `created_token`, the bonus calls | `Shuffle`, `RunActivity`, `RunCreate`, `WalletDone` |
| `SelectionParts` | the input domain of `parse_wallet_selection` | none | the constants, the abstract parts and `ToIndices` (sorted, zero-based) shared by the next two |
| `SelectionParse` | what `parse_wallet_selection` promises | `keys`, the input, `outcome`, `indices` | `Parse`: the whole selection in one step |
| `WalletSelection` | `parse_wallet_selection`, the `all` branch (auto.py 115-148, 984-995) | the parts, `selected`, the output | `StepPart` (one part of the loop), `Finish` |
| `*_proofs` | n/a | n/a | TLAPS proofs about `TxPipeline`, `TokenOps`, `Liquidity`, `Faucet`, `SmartAgent`, `AutoSweep` and `WalletSelection` |

### The recipes of `TxPipeline`

Every recipe is a sequence of the same node calls, so one module holds all of them:

- **Plain recipes** (`Deploy`, `SendTokens`, `SetFeeToken`, `TransferWithMemo`, `NftDeploy`, `RetrieverClaim`) send one transaction. `Deploy` and `NftDeploy` may also fail to compile and return `None` before any call (`CompileFailed`).
- **Guarded recipes** (`Swap`, `AddLiquidity`, `LimitOrder`, `Batch`, `InfinityName`) first read the allowance of a token for a spender. When it does not cover the amount they approve, wait, and then spend. The allowance is kept per key (token, spender), and `RecipeKeys` gives each recipe its keys: the swap and the batch use PathUSD for the DEX, the limit order any token for the DEX, add-liquidity any token for the fee manager, and the infinity name PathUSD for the name service. Two recipes may therefore share a key or use different ones.
- **Quoted recipes** (`swap` and `batch`) read a quote after the allowance. A zero quote ends the recipe with `None`.
- **`Tip403Policy`** sends `createPolicy` and, when it is confirmed, a second plain transaction.

### How the models abstract the code

- **Data.** Balances are levels on both sides of the thresholds the rules test. Tokens and pairs are small integers or model values. Amounts are integers in base units.
- **Random draws.** They become nondeterministic choices. In `SmartAgent`, a gated rule may or may not fire, and only the rules that are not gated force the choice (`Forced`, `Takable`, `RuleChoices`, `FallbackReachable`).
- **Float arithmetic.** `int(lp_balance * withdraw_percent)` uses the float `randint(20, 50) / 100`. It is modelled as the exact share, or one unit less when the exact product is an integer (`FloatShare`).
- **Code outside the repository.** `sync_wait_for_tx_with_retry` (in `utils.helpers`), the node, and the loop that drives a `SmartWallet` are not in the repository. They are modelled from the spec and marked `spec_modelled` in the map:
  - the wait is a bounded poll (spec section 4.2), which raises on a reverted receipt (spec section 4.1, step 5). The recipes' own lines return the hash whenever the wait returns, so `TxReverted` and `TokenOps.Wait` are modelled from the spec;
  - the node starts a fresh account with no transactions and any allowances (`TxPipeline.Init`);
  - the loop is decide, execute, sleep (spec section 4.4).
- **The create-token `await`.** `activity4_create_stablecoin` is synchronous. In `run_auto_mode`, `await activity['fn']()` therefore awaits a `str` or `None`, and Python raises `TypeError`. `RunCreate` models exactly that: the token may be created on chain, `created_token` stays `None`, and neither branch runs.

## Runs

Each run is `tlc -workers 2 -config <cfg> <MC module>`. A passing run finishes with no error. A violation run checks one property that the spec or a comment states, and TLC finds it violated.

### Passing runs

| Run | cfg | What it shows |
|---|---|---|
| agent | `SmartAgent.cfg` | `FreshDecision`: a choice other than the faucet is made on the balances the chain holds, even when `update_balances` raises part-way, because the except clause sets ETH to 0 and the faucet rule comes first. `CycleAttempts`: every decision reaches an activity. |
| pipeline | `TxPipeline.cfg` | The wallet runs any sequence of the twelve recipes, over two tokens, against a node that mines, evicts one transaction and loses send responses. `FreshNonce`: every nonce sent is unused and not below the confirmed count. `AllowanceBeforeSpend`: a spending call is in the pool only when the allowance of its own token for its own spender covers it, also when an earlier recipe approved a different key. `ApproveIdempotent`: there is no new approve of a key once one was seen confirmed. `ActivityTerminates`: every recipe returns. |
| tokenops | `TokenOps.cfg` | `RecipeReturns`: every recipe returns, whatever the receipts, the role reads and the timeouts. |
| liquidity | `Liquidity.cfg` | `WithdrawWithinPosition`: a burn is made only from a pair with a position, with an amount between the minimum and the whole position. `RemoveReturns`: the recipe returns. |
| faucet | `Faucet.cfg` | `BackoffSchedule`: one call per attempt, with a backoff of 5k seconds before retry k. `ImplementsRetryPolicy`: the loop implements `RetryPolicy` (a terminal error ends it, a transient one is retried while attempts are left, and it ends with a result). `TypeOK`: at most `max_retries` calls. All three hold for every `max_retries` in 0..8. With the default `max_retries = 3` the sleeps are 5 s and 10 s only. The "5s/10s/15s" of spec section 4.2 and of the comment at auto.py 206 would take a fourth attempt, since no sleep follows the last one. |
| sweep | `AutoSweep.cfg` | `EachActivityOnce`: each wallet runs every catalog entry once. `SweepFinishes`: the sweep finishes. No passing property speaks of the bonus calls. The `await` raises before either branch of `if created_token` runs, so no bonus call is ever made and any statement about them would hold vacuously. The code as written would run them on `None` once the `await` is fixed (see sweep_bonus). |
| selection | `WalletSelection.cfg` | `IndicesSorted`: once the loop is done, the output is increasing and holds the zero-based index of every wallet the selection names, and of no other. `TypeOK`: the part index stays within the input and only existing wallets are collected. `ImplementsParse`: the loop implements `SelectionParse`, which returns in one step exactly the wallets the selection names (`Meant`), sorted and zero-based, or raises on a malformed range, and always answers. |

The type invariants of `SmartAgent`, `TxPipeline` and `TokenOps` are not run properties. Beyond the types, they only bound counters by the model's own budgets (`MaxCreated`, `MaxTx`), so no change a bug in the code could make would break them. They are proved for every value of the constants instead (`TypeCorrect` below). The type invariants of `Liquidity`, `Faucet`, `AutoSweep` and `WalletSelection` say something about the code (the pick is a listed pair, at most `max_retries` calls, the wallet index, only existing wallets), and they are run properties with mutants.

### Violation runs

Each of these is recorded under "findings" in `PROJECT.json`.

| Run | Property | What the code does |
|---|---|---|
| agent_recovery | `RecoveryFirst` | `should_recover_faucet` is never set True, so no recovery edge exists (spec section 4.4, step 1). |
| pipeline_nonces | `NoncesConsecutive` | After an eviction, the pending count hands out the evicted transaction's nonce again. |
| tokenops_mint | `MintRoleSpec` | Spec section 8 asks that a mint be sent with the issuer role and that a role be granted only when it is missing. The code breaks both: a failed grant is swallowed and the mint goes out without the role, and a `hasRole` call that raises (auto.py 460) makes the recipe grant a role the wallet already holds. |
| sweep_bonus | `BonusAfterCreate` | The `await` raises `TypeError`, so a created token never gets its bonus. The bonus also sits in the `else` branch, the one for a token that was not created. |
| selection_raise | `NeverRaises` | `map(int, part.split('-'))` raises `ValueError` out of `run_auto_mode` for parts like `1-2-3`. |

### Bounds, and why they are enough

- **TxPipeline.** `MaxTx = 3` broadcasts, `MaxPolls = 2`, `MaxEvict = 1` and the tokens PathUSD and AlphaUSD. Three broadcasts hold a guarded recipe with its approval followed by a plain recipe or a second guarded one, or a TIP-403 policy and one more recipe. With two tokens, a limit order or add-liquidity on AlphaUSD uses a different key than the swap on PathUSD, so an approval of one key meets a spend of another. A wait can time out, a response can be lost and an eviction can hit any of the transactions. With `MaxTx = 4` and two tokens the run takes more than ten minutes.
- **TokenOps.** `MaxTx = 4`, with a mint amount of 2 and a burn amount of 1. A grant, a mint and a burn fit in the budget, on both sides of the burn threshold, and the initial roles range over every subset.
- **SmartAgent.** These levels straddle every threshold the rules test:
  - ETH: {1, 2}, around `< 2`;
  - PathUSD: {0, 11, 1001}, around `> 5`, `> 10` and `> 1000`;
  - AlphaUSD and BetaUSD: {0, 6}, around `< 5` and `> 5`.

  `MaxCreated = 2`, and the persisted store may already hold a token.
- **Liquidity.** Three pairs, with LP values {0, 7, 10, 30, 100} and a minimum of 10. This covers a zero position, a position below the minimum, one at the minimum, and shares that truncate or are clamped up.
- **Faucet.** `max_retries` from 0 to 8, which includes the default 3 and the degenerate 0 and 1.
- **AutoSweep.** A catalog of four ids including the create-token id, and up to 2 wallets. Every order of the catalog is explored.
- **WalletSelection.** Up to 3 wallets and 2 parts, with numbers up to 4. A number can therefore lie below, in or above the bounds, and a range can be reversed or reach outside.

### Fairness

- **Calls always return.** Every call in the code is synchronous and returns or raises. So the wallet thread of each recipe (`WalletStep`) and the agent's `Decide` and `Execute` are weakly fair.
- **The node gets no fairness.** The wait is bounded, so termination must not depend on the node mining anything.
- **Sequential modules.** `AutoSweep`, `WalletSelection`, `Liquidity` and `Faucet` are each one thread, so they have `WF_vars(Next)`.

## Mutants

Every property of a passing run has a mutant in `PROJECT.json`: an operator defined before the mapped definition it replaces, modelling a plausible bug. TLC finds the property violated under the run's own cfg. For example:

- the pending nonce read as `latest` breaks `FreshNonce`;
- the inclusive range written as `range(start, end)` breaks `ImplementsParse`;
- the allowance read of PathUSD whatever the recipe's token breaks `AllowanceBeforeSpend`;
- a zero quote that restarts the recipe breaks `ActivityTerminates`;
- every faucet error treated as retryable breaks `ImplementsRetryPolicy`;
- the backoff counted from `attempt` breaks `BackoffSchedule`;
- a failed burn retried through the selection breaks `RemoveReturns`.

## Abstract specifications and refinement

Two components are checked against a specification of what they promise, written without their loop:

- **`RetryPolicy`** is the retry rule of spec section 7 and the faucet row of section 4.2. Within a budget of attempts, a success ends with "ok", a terminal error ends with "failed", and a transient error is retried while attempts are left. `Faucet` defines `Policy == INSTANCE RetryPolicy WITH ...`, mapping `max_retries` to the budget, the calls to the attempts, the result to the outcome and the error class to the policy's. The loop variable, the sleeps and the phase are hidden. The faucet run checks `ImplementsRetryPolicy == Policy!Spec`, liveness included.
- **`SelectionParse`** returns, in one step, the sorted zero-based indices of `Meant` (the wallets the selection names) or raises on a malformed range. `WalletSelection` maps its loop status to the outcome and its output to the indices. The selection run checks `ImplementsParse == Sel!Spec`, so the loop's answer is the one-step answer and it is always given. `WalletSelection_proofs` proves the safety half for every bound.

## What is proved

Seven modules hold TLAPS proofs. Each theorem holds for every value of the constants that the module's named assumption allows.

**`TxPipeline_proofs`** (for every `MaxTx`, `MaxPolls`, `MaxEvict` and every set of tokens containing PathUSD):

- **`TypeCorrect`: `Spec => []TypeOK`.** `TypeOK` is not inductive on its own. The budget has to cover what the recipe still has to send (`BudgetInv`: two broadcasts before an allowance read or a policy, one before a send). So the proof shows `TypeInv == TypeOK /\ BudgetInv` is inductive (`InitTypeInv`, `TypeStep`). It uses the lemmas `PendingNonceType` and `StartCases`; the second reduces the twelve start actions to four shapes.
- **`AllowanceSafe`: `Spec => []AllowanceBeforeSpend`.** The proof uses the inductive invariant `IInv == TypeInv /\ IdInv /\ AllowanceInv`:
  - `IdInv` says that the pool holds distinct broadcast ids with no receipt yet, and that the awaited transaction is the last one broadcast, with the recipe's call and key. `Mine` needs this: a mined approval must be the one the wallet waits for.
  - `AllowanceInv` records, for each program counter, where the allowance of the recipe's own key is already known to cover the spend, and that every key in `approveSeen` is covered.

  The lemma `MineAllowance` says that mining never lowers an allowance and that a successful approve sets its own key. The steps are `InitIInv` and `IInvStep`, and the `Mine` case is `MinePreserves`.
- **`ApproveIdempotentThm`: `Spec => ApproveIdempotent`.** It follows from `[]IInv` and the lemma `ApproveStep`: `IInv /\ [Next]_vars => [NoApproveAfterSeen]_vars`.

**`TokenOps_proofs`** (for every mint amount, burn amount and budget):

- **`TypeCorrect`: `Spec => []TypeOK`.** `TypeOK` bounds the receipts and the broadcast count, and keeps the balance a natural number, so a burn must never be mined below the burn amount. The invariant `IInv` adds:
  - `IdInv`: queued ids are distinct, broadcast and have no receipt, and an awaited or reported transaction was broadcast;
  - the burn is reached only past the threshold;
  - `ResultInv`: a reported hash is a mined success.

  Then mining the head of the queue never changes the receipt of a transaction already reported. `MineFacts` restates `Mine` without its Boolean `CASE`, which the SMT backend cannot read.

**`Liquidity_proofs`** (for every finite set of pairs, set of LP balances and minimum):

- **`WithdrawSafe`: `Spec => []WithdrawWithinPosition`.** The invariant says that every listed position has the chain's positive balance, and that in the send phase the pick is listed and the amount lies between the minimum and the position. The lemmas `FloatShareNat` and `ClampBounds` handle the truncated float share and the two clamps.
- **`TypeCorrect`: `Spec => []TypeOK`.**

**`Faucet_proofs`** (for every `max_retries` bound):

- **`TypeCorrect`** and **`BackoffCorrect`: `Spec => []BackoffSchedule`.** `Inv` relates the counters in each phase. It states the backoff sum without division, as `2 * waited = 5 * attempt * (attempt + 1)`, which keeps it in the provers' linear-arithmetic reach after expansion.
- **`RefinesRetryPolicy`: `Spec => Policy!SafetySpec`.** By `InitRefines`, the initial state maps to the policy's. By `StepRefines`, under `Inv` every call is one `Attempt`: a success, a retried transient error, or a final error.

**`TxPipeline_proofs`, continued: `FreshNonceThm`: `Spec => []FreshNonce`.** `PendingNonce` is a `CHOOSE` of the least acceptable nonce, so the proof first shows that one exists:
- `PoolNoncesBound`: the pool's nonces are at most as many as the pool's transactions (`FS_Surjection` on the map from a transaction to its nonce);
- `PendingFresh`: among the `Cardinality(pool) + 1` nonces from `chainNonce` up, one is unused (pigeonhole, `FS_Subset` and `FS_Interval`), and the least such is found with `WFMin` over `NatLessThanWellFounded`. It needs the pool to be finite, which `NonceInv` carries;
- `NonceStep` preserves `NonceInv == IsFiniteSet(pool) /\ FreshNonce` under `IInv`.

**`SmartAgent_proofs`** (for every set of ETH, PathUSD and peer balance levels that has a largest element, `LevelsAssumption`; the code's levels are finite lists of numbers, so they have one):

- **`TypeCorrect`** and **`FreshDecisionThm`: `Spec => []FreshDecision`.** `Inv == TypeOK /\ FreshDecision` is inductive. The lemmas cover the two ends of `update_balances`:
  - `RefreshFull`: when no read raises, the snapshot holds every token's chain balance;
  - `RefreshRaised`: when a read raises part-way through the read order, the except clause leaves ETH at 0;
  - `FaucetFirst`: below 2 ETH the faucet is the only rule that can fire, and the fallback is not reached. `ChoicesActs` bounds the actions the rules can name. Together they give the argument: a choice other than the faucet is made only after a refresh in which no read raised, and no step changes the chain between that refresh and `Execute`. So it was made on the chain's own balances.

**`AutoSweep_proofs`** (for every finite activity list containing the create-token entry, and every wallet bound):

- **`EachActivityOnceThm`: `Spec => []EachActivityOnce`.** `EachActivityOnce` speaks only of the end of a wallet's loop, so it is not inductive. `IInv` adds `RunInv`: while a wallet is swept, its order is a shuffle (`Shuffles`, the injections from `1..Cardinality(Catalog)` into the list) and the log is exactly the prefix of the order the loop has passed. At the end the log is the whole order. `ShuffleOnto` (`FS_Injection`) says that an injection between two finite sets of the same size is onto, so every activity has run exactly once.
- **`TypeCorrect`.** It follows from the same `IInv`.

**`WalletSelection_proofs`** (for every number of keys, parts and numbers):

- **`ParseRefinement`: `Spec => Sel!Init /\ [][Sel!Parse]_Sel!absVars`.** This is the safety half of `ImplementsParse`. The loop invariant `LoopInv` says that while the loop runs, the set collected is exactly `NamedBy(i - 1)`, the wallets named by the parts already passed, and that none of them is a malformed range. Once the loop is done, the output is `ToIndices(Sel!Meant)`. The lemma `PartNumbersNames` says that a well-formed part adds exactly the wallets it names. `NamedByAll` says that all the parts together name `Meant`.
  - `InitRefines`: `all` is answered at once.
  - `StepRefines`: a malformed range is the raising `Parse`, a well-formed part is a stutter, and `Finish` is the returning `Parse`.
  - What `ToIndices` computes is never needed, because both sides apply it to the same set. `SharedDefs` identifies the instance's copies of `Inputs` and `ToIndices` with the loop's.
- **`TypeCorrect`: `Spec => []TypeOK`** and **`IndicesSortedThm`: `Spec => []IndicesSorted`.** Both need the `CHOOSE` in `ToIndices` to have a witness, an increasing enumeration of a finite set of numbers. The usual proof is an induction over the set, which the provers cannot instantiate. The proof builds the witness directly instead:
  - `Rank(T, x)` is one plus the number of elements of `T` below `x`. `RankBounds` puts it in `1..Cardinality(T)`. `RankMonotone` says it is strictly increasing, since `{y \in T : y < x}` loses `x` and more when `x` shrinks.
  - Rank is therefore an injection from `T` into `1..Cardinality(T)`, and by `FS_Injection` a surjection. `SortedExists` takes, for each position `k`, the element of rank `k`, which gives an increasing function onto `T`.
  - `ToIndicesSorted` concludes that `sorted([n - 1 for n in selected])` has domain `1..Cardinality`, is increasing, and has range exactly the zero-based set. `IndicesType` then makes it a sequence of `0..MaxTotal`.

  The inductive invariant is `SelInv == LoopInv /\ TypeOK /\ i \in 1..(Len(input) + 1) /\ selected \subseteq 1..total`. `TypeOK` alone is not inductive: it bounds `i` by `MaxParts + 1` but not by the input's length, and `selected` by `MaxTotal` but not by the keys. `SelInv` was checked with TLC (16,388 states) before it was proved. `IndicesSorted` follows from `LoopInv`'s `out = ToIndices(Sel!Meant)` and `ToIndicesSorted`.

Every invariant above, and every inductive invariant, was checked with TLC on the module's own run before it was proved.

`AutoSweep` and `SelectionParts` state the shuffle and `sorted()` directly rather than with the community `SetToSeqs` and `SetToSortSeq`:
- `Shuffles` is `Injection(1..Cardinality(Catalog), Catalog)`, the same set as `SetToSeqs(Catalog)`;
- `ToIndices` is the increasing sequence over the zero-based set, chosen with `CHOOSE`.

That keeps those modules clear of the recursive operators of `SequencesExt`, which tlapm cannot use. The runs reach the same states as with the community operators.

Some things are only model-checked:

- **Every liveness property**, and the fairness part of the two refinements. They depend on fairness and `ENABLED`, which TLAPS does not handle here.

## What is not modelled

- **`activity_analytics` and `print_status`** (smart.py). They only sum and print the balance snapshot.
- **The data of the activities.** Contract source, word lists, amounts, memo text, order side and tick are abstracted to the kind of transaction and the allowance key. `activity4_create_stablecoin` is modelled in `AutoSweep` as a call that returns a token or `None`.
- **Several agents running concurrently.** The loop that starts them is not in the repository, and the created-token store they share (`save_created_token`) is not either.
- **ABIs, configuration, proxy and RPC setup, and printing.** None of these changes state. The setup of each wallet in `run_auto_mode` (auto.py 1000-1012: `Account.from_key`, the proxy and the Web3 object) runs outside the per-activity `try`, so an error there would end the whole sweep. `Shuffle` does not model that exit.

### Hazards that no run checks yet

- **The faucet retry after a read timeout** (auto.py 205). If the node served the request, the retry funds the wallet a second time. Whether the service ever serves a timed-out request is outside the repository.
- **A second approval after a timed-out approve** (auto.py 297). When the wait for an approve times out and the recipe is started again before it is mined, the allowance still reads zero and a second approve is sent. Both set the maximum, so no property forbids it; it costs gas.

## Later work

- Compose `SmartAgent` with `TxPipeline`, so that an activity's outcome (insufficient funds, a nonce error) comes from the pipeline rather than being a free choice.
