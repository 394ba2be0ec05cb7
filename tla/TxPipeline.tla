----------------------------- MODULE TxPipeline -----------------------------
(***************************************************************************)
(* One wallet's transaction pipeline against the chain node it talks to.   *)
(*                                                                         *)
(* The wallet thread runs the recipes of auto.py, and the two local ones   *)
(* of smart.py, synchronously: each transaction reads the account's        *)
(* 'pending' nonce, builds and signs, calls send_raw_transaction and then  *)
(* blocks in sync_wait_for_tx_with_retry.  The recipes come in three       *)
(* shapes:                                                                 *)
(*   - one plain transaction: deploy, send tokens, set fee token, memo     *)
(*     transfer, NFT deploy, retriever claim;                              *)
(*   - an allowance guard (read the allowance of a token for a spender,    *)
(*     approve the maximum if it is low, wait) before one spending         *)
(*     transaction: swap and batch (with a quote first), limit order, add  *)
(*     liquidity, infinity name;                                           *)
(*   - two chained plain transactions: the TIP-403 policy, created and     *)
(*     then attached.                                                      *)
(* Recipes that share a token and spender share the allowance: the swap,   *)
(* the batch and the bid side of the limit order all spend PathUSD through *)
(* the DEX.                                                                *)
(*                                                                         *)
(* The node keeps the account's confirmed nonce, a pool of broadcast       *)
(* transactions, their receipts and the allowances.  It mines the pool     *)
(* transaction whose nonce is next, and may evict any pool transaction     *)
(* (pool overflow, price eviction); a transaction whose predecessor nonce  *)
(* is missing sits in the pool as queued until the gap is filled.          *)
(***************************************************************************)
EXTENDS Naturals, FiniteSets, Sequences

CONSTANTS
    MaxTx,      \* transactions the wallet may broadcast in one model run
    MaxPolls,   \* receipt polls of sync_wait_for_tx_with_retry before it gives up
    MaxEvict,   \* pool evictions the node may perform in one model run
    Tokens      \* the stablecoins of CONFIG['TOKENS']

ASSUME BoundsAssumption ==
    /\ MaxTx \in Nat \ {0}
    /\ MaxPolls \in Nat \ {0}
    /\ MaxEvict \in Nat
    /\ "PathUSD" \in Tokens

\* The node.
VARIABLES
    chainNonce,  \* number of mined transactions of the account
    pool,        \* broadcast transactions not yet mined nor evicted
    receipt,     \* receipt status of each transaction id
    allowance,   \* per token and spender: the allowance covers the amounts
    evictions    \* evictions performed so far

\* The wallet thread.
VARIABLES
    pc,          \* the statement the recipe is at
    recipe,      \* the recipe being executed
    key,         \* the token and spender of its allowance guard
    op,          \* the contract call being submitted
    nonce,       \* the nonce read for it
    txId,        \* id of the last transaction broadcast
    polls,       \* receipt polls made for txId
    result,      \* what the last finished recipe returned
    nextId,      \* transactions broadcast so far
    approveSeen, \* the keys whose approval this wallet saw confirmed
    sent         \* nonces of the accepted broadcasts, in order

nodeVars == <<chainNonce, pool, receipt, allowance, evictions>>
walletVars == <<pc, recipe, key, op, nonce, txId, polls, result, nextId, approveSeen, sent>>
vars == <<nodeVars, walletVars>>

Ids == 1..MaxTx
\* approve; the call the guard protects (swap, place, mint, register); a
\* call needing no allowance; createPolicyWithAccounts.
Ops == {"approve", "spend", "plain", "createPolicy"}
\* The recipes whose spending call follows a quote.
QuotedRecipes == {"swap", "batch"}
GuardedRecipes == QuotedRecipes \cup {"order", "addLiquidity", "infinity"}
Recipes == GuardedRecipes \cup {"plain", "policy"}

\* The token and spender each guarded recipe reads the allowance of:
\* activity11 approves PathUSD for a bid and the chosen token for an ask,
\* activity6 approves token1, the first of the shuffled tokens, for the fee
\* manager, activity15 approves PathUSD for the name registry.
RecipeKeys(r) ==
    CASE r \in QuotedRecipes -> {<<"PathUSD", "dex">>}
      [] r = "order"         -> {<<t, "dex">> : t \in Tokens}
      [] r = "addLiquidity"  -> {<<t, "feeManager">> : t \in Tokens}
      [] r = "infinity"      -> {<<"PathUSD", "infinity">>}
Keys == UNION {RecipeKeys(r) : r \in GuardedRecipes}

Status == {"none", "success", "reverted"}
Tx == [id : Ids, nonce : Nat, op : Ops, key : Keys]
\* Statements that call the node and so may raise.
RpcPCs == {"allowance", "getNonce", "sendRaw", "quote"}
PCs == RpcPCs \cup {"idle", "waitTx"}

-----------------------------------------------------------------------------
(* The node's view of the account.                                         *)

PoolNonces == {t.nonce : t \in pool}

\* n is the next nonce: every nonce from chainNonce up to n is in the pool.
NextFree(n) ==
    /\ n \notin PoolNonces
    /\ \A m \in chainNonce..(n - 1) : m \in PoolNonces

\* get_transaction_count(address, 'pending'): the confirmed count plus the
\* run of pool nonces that follows it.  The interval has one element more
\* than the pool, so the ELSE branch is never taken.
PendingNonce ==
    LET Cands == chainNonce..(chainNonce + Cardinality(pool))
    IN  IF \E n \in Cands : NextFree(n)
          THEN CHOOSE n \in Cands : NextFree(n)
          ELSE chainNonce

\* send_raw_transaction is accepted only for an unused nonce.
Acceptable(n) == n >= chainNonce /\ n \notin PoolNonces

\* What mining t may give: a spending call without allowance reverts.
MineOutcomes(t) ==
    IF t.op = "spend" /\ ~allowance[t.key] THEN {"reverted"} ELSE {"success", "reverted"}

-----------------------------------------------------------------------------
\* Allowances start either at zero or at the maximum an earlier run of the
\* bot approved; the code sets no other value.
Init ==
    /\ chainNonce = 0
    /\ pool = {}
    /\ receipt = [i \in Ids |-> "none"]
    /\ allowance \in [Keys -> BOOLEAN]
    /\ evictions = 0
    /\ pc = "idle"
    /\ recipe = "plain"
    /\ key = <<"PathUSD", "dex">>
    /\ op = "plain"
    /\ nonce = 0
    /\ txId = 0
    /\ polls = 0
    /\ result = "none"
    /\ nextId = 0
    /\ approveSeen = {}
    /\ sent = <<>>

-----------------------------------------------------------------------------
(* Mutants: plausible bugs of the code, each breaking one property.        *)

\* The nonce read with get_transaction_count's default block, 'latest'.
GetNonceLatest ==
    /\ pc = "getNonce"
    /\ nonce' = chainNonce
    /\ pc' = "sendRaw"
    /\ UNCHANGED <<nodeVars, recipe, key, op, txId, polls, result, nextId>>
    /\ UNCHANGED <<approveSeen, sent>>

-----------------------------------------------------------------------------
(* The wallet thread.                                                      *)

\* A recipe of one plain transaction is called; it is submitted at once.
StartPlain ==
    /\ pc = "idle"
    /\ nextId + 1 <= MaxTx
    /\ recipe' = "plain"
    /\ op' = "plain"
    /\ pc' = "getNonce"
    /\ UNCHANGED <<nodeVars, key, nonce, txId, polls, result, nextId, approveSeen, sent>>

\* compile_source raises (solc missing): the recipe returns None before it
\* calls the node.
CompileFailed ==
    /\ pc = "idle"
    /\ result' = "none"
    /\ UNCHANGED <<nodeVars, pc, recipe, key, op, nonce, txId, polls, nextId, approveSeen, sent>>

\* activity1_deploy: compile, then deploy the contract.
Deploy == StartPlain \/ CompileFailed

\* activity3_send_tokens: one transfer of PathUSD.
SendTokens == StartPlain

\* activity7_set_fee_token: one setUserToken call.
SetFeeToken == StartPlain

\* activity10_transfer_with_memo: one transferWithMemo call.
TransferWithMemo == StartPlain

\* activity14_nft: compile a generated contract (skipped when compilation
\* fails), then deploy it.
NftDeploy == StartPlain \/ CompileFailed

\* activity16_retriever_nft: one claim call.
RetrieverClaim == StartPlain

\* A guarded recipe r is called; it picks the token of its guard and reads
\* the allowance next.
StartGuarded(r) ==
    /\ pc = "idle"
    /\ nextId + 2 <= MaxTx
    /\ recipe' = r
    /\ key' \in RecipeKeys(r)
    /\ pc' = "allowance"
    /\ UNCHANGED <<nodeVars, op, nonce, txId, polls, result, nextId, approveSeen, sent>>

\* activity5_swap: PathUSD to AlphaUSD through the DEX.
Swap == StartGuarded("swap")

\* activity6_add_liquidity: two shuffled tokens, token1 approved for the fee
\* manager, then mintWithValidatorToken.
AddLiquidity == StartGuarded("addLiquidity")

\* activity11_limit_order: a bid or an ask of a random token, then place.
LimitOrder == StartGuarded("order")

\* activity17_batch_operations: PathUSD to BetaUSD through the DEX.
Batch == StartGuarded("batch")

\* SmartWallet.activity15_infinity_name: approve, then register a name.
InfinityName == StartGuarded("infinity")

\* SmartWallet.activity18_tip403_policies: createPolicyWithAccounts first.
Tip403Policy ==
    /\ pc = "idle"
    /\ nextId + 2 <= MaxTx
    /\ recipe' = "policy"
    /\ op' = "createPolicy"
    /\ pc' = "getNonce"
    /\ UNCHANGED <<nodeVars, key, nonce, txId, polls, result, nextId, approveSeen, sent>>

\* What follows a sufficient allowance: the quote in the swap and the batch,
\* the spending call itself in the others.
Proceed ==
    IF recipe \in QuotedRecipes
      THEN pc' = "quote" /\ UNCHANGED op
      ELSE pc' = "getNonce" /\ op' = "spend"

\* Mutant: the allowance check dropped, the recipe always approves first.
ReadAllowanceDropped ==
    /\ pc = "allowance"
    /\ op' = "approve"
    /\ pc' = "getNonce"
    /\ UNCHANGED <<nodeVars, recipe, key, nonce, txId, polls, result, nextId, approveSeen, sent>>

\* Mutant: the ask side of the order checks the PathUSD allowance instead
\* of the allowance of the token it sells.
ReadAllowanceWrongToken ==
    /\ pc = "allowance"
    /\ \/ allowance[<<"PathUSD", key[2]>>] /\ Proceed
       \/ ~allowance[<<"PathUSD", key[2]>>] /\ op' = "approve" /\ pc' = "getNonce"
    /\ UNCHANGED <<nodeVars, recipe, key, nonce, txId, polls, result, nextId, approveSeen, sent>>

\* token.allowance(wallet, spender).call(); approve only if it is below the
\* amount.
ReadAllowance ==
    /\ pc = "allowance"
    /\ \/ allowance[key] /\ Proceed
       \/ ~allowance[key] /\ op' = "approve" /\ pc' = "getNonce"
    /\ UNCHANGED <<nodeVars, recipe, key, nonce, txId, polls, result, nextId, approveSeen, sent>>

\* get_transaction_count(wallet, 'pending'), gas_price, build and sign.
GetNonce ==
    /\ pc = "getNonce"
    /\ nonce' = PendingNonce
    /\ pc' = "sendRaw"
    /\ UNCHANGED <<nodeVars, recipe, key, op, txId, polls, result, nextId>>
    /\ UNCHANGED <<approveSeen, sent>>

\* send_raw_transaction accepted.  Either the hash comes back and the wallet
\* waits for it, or the response is lost: the call raises, the recipe
\* returns None, and the transaction stays in the pool.
SendRaw ==
    /\ pc = "sendRaw"
    /\ Acceptable(nonce)
    /\ pool' = pool \cup {[id |-> nextId + 1, nonce |-> nonce, op |-> op, key |-> key]}
    /\ nextId' = nextId + 1
    /\ txId' = nextId + 1
    /\ sent' = Append(sent, nonce)
    /\ polls' = 0
    /\ \/ pc' = "waitTx" /\ UNCHANGED result
       \/ pc' = "idle" /\ result' = "none"
    /\ UNCHANGED <<chainNonce, receipt, allowance, evictions, recipe, key, op, nonce, approveSeen>>

\* sync_wait_for_tx_with_retry sees a success receipt.  After an approval
\* the recipe goes on; after its last transaction it returns the hash.  The
\* policy recipe reads the policy id from the receipt's logs and returns
\* False when there is none.
TxConfirmed ==
    /\ pc = "waitTx"
    /\ receipt[txId] = "success"
    /\ \/ /\ op = "approve"
          /\ Proceed
          /\ approveSeen' = approveSeen \cup {key}
          /\ UNCHANGED result
       \/ /\ op \in {"spend", "plain"}
          /\ pc' = "idle"
          /\ result' = "ok"
          /\ UNCHANGED <<op, approveSeen>>
       \/ /\ op = "createPolicy"
          /\ \/ op' = "plain" /\ pc' = "getNonce" /\ UNCHANGED result
             \/ pc' = "idle" /\ result' = "none" /\ UNCHANGED op
          /\ UNCHANGED approveSeen
    /\ UNCHANGED <<nodeVars, recipe, key, nonce, txId, polls, nextId, sent>>

\* A reverted receipt makes the wait raise; the recipe returns None.
TxReverted ==
    /\ pc = "waitTx"
    /\ receipt[txId] = "reverted"
    /\ pc' = "idle"
    /\ result' = "none"
    /\ UNCHANGED <<nodeVars, recipe, key, op, nonce, txId, polls, nextId, approveSeen, sent>>

\* No receipt yet and polls left: poll again after the retry delay.
TxPending ==
    /\ pc = "waitTx"
    /\ receipt[txId] = "none"
    /\ polls + 1 < MaxPolls
    /\ polls' = polls + 1
    /\ UNCHANGED <<nodeVars, pc, recipe, key, op, nonce, txId, result, nextId, approveSeen, sent>>

\* No receipt and the retry budget spent: the wait raises, the recipe
\* returns None, and the transaction may still be mined later.
TxTimeout ==
    /\ pc = "waitTx"
    /\ receipt[txId] = "none"
    /\ polls + 1 >= MaxPolls
    /\ pc' = "idle"
    /\ result' = "none"
    /\ UNCHANGED <<nodeVars, recipe, key, op, nonce, txId, polls, nextId, approveSeen, sent>>

\* Mutant: a zero quote starts the recipe over at the allowance read.
QuoteRetry ==
    /\ pc = "quote"
    /\ \/ op' = "spend" /\ pc' = "getNonce"
       \/ pc' = "allowance" /\ UNCHANGED op
    /\ UNCHANGED <<nodeVars, recipe, key, nonce, txId, polls, result, nextId, approveSeen, sent>>

\* quoteSwapExactAmountIn(...).call(): a positive quote submits the swap
\* with minOut = quote * 99 / 100; a zero quote falls out of the if and the
\* recipe returns None.
Quote ==
    /\ pc = "quote"
    /\ \/ op' = "spend" /\ pc' = "getNonce" /\ UNCHANGED result
       \/ pc' = "idle" /\ result' = "none" /\ UNCHANGED op
    /\ UNCHANGED <<nodeVars, recipe, key, nonce, txId, polls, nextId, approveSeen, sent>>

\* Any node call raises (connection error, nonce too low, already known,
\* insufficient funds); the recipe's except clause returns None.
RpcError ==
    /\ pc \in RpcPCs
    /\ pc' = "idle"
    /\ result' = "none"
    /\ UNCHANGED <<nodeVars, recipe, key, op, nonce, txId, polls, nextId, approveSeen, sent>>

-----------------------------------------------------------------------------
(* The node.                                                               *)

\* The pool transaction with the next nonce is mined; a successful approval
\* sets its token's allowance for its spender to the maximum.
Mine ==
    \E t \in pool :
        /\ t.nonce = chainNonce
        /\ \E s \in MineOutcomes(t) :
              /\ receipt' = [receipt EXCEPT ![t.id] = s]
              /\ allowance' = IF t.op = "approve" /\ s = "success"
                                THEN [allowance EXCEPT ![t.key] = TRUE]
                                ELSE allowance
        /\ pool' = pool \ {t}
        /\ chainNonce' = chainNonce + 1
        /\ UNCHANGED <<evictions, walletVars>>

\* The node drops a pool transaction; later nonces become queued.
Evict ==
    /\ evictions < MaxEvict
    /\ \E t \in pool : pool' = pool \ {t}
    /\ evictions' = evictions + 1
    /\ UNCHANGED <<chainNonce, receipt, allowance, walletVars>>

\* The wallet has used its broadcast budget (a bound of the model).
BudgetExhausted ==
    /\ pc = "idle"
    /\ nextId = MaxTx
    /\ UNCHANGED vars

-----------------------------------------------------------------------------
\* The recipes the agent and the auto runner may call when the wallet is
\* idle.
StartRecipe ==
    \/ Deploy \/ SendTokens \/ SetFeeToken \/ TransferWithMemo \/ NftDeploy
    \/ RetrieverClaim \/ Swap \/ AddLiquidity \/ LimitOrder \/ Batch
    \/ InfinityName \/ Tip403Policy

WalletStep ==
    \/ ReadAllowance \/ GetNonce \/ SendRaw \/ TxConfirmed \/ TxReverted
    \/ TxPending \/ TxTimeout \/ Quote \/ RpcError

Next ==
    \/ StartRecipe \/ WalletStep
    \/ Mine \/ Evict
    \/ BudgetExhausted

\* Every call of the synchronous wallet thread returns or raises, so a
\* started recipe keeps taking steps; the node needs no fairness because
\* the wait is bounded.
Spec == Init /\ [][Next]_vars /\ WF_vars(WalletStep)

-----------------------------------------------------------------------------
(* Properties.                                                             *)

TypeOK ==
    /\ chainNonce \in Nat
    /\ pool \subseteq Tx
    /\ receipt \in [Ids -> Status]
    /\ allowance \in [Keys -> BOOLEAN]
    /\ evictions \in 0..MaxEvict
    /\ pc \in PCs
    /\ recipe \in Recipes
    /\ key \in Keys
    /\ op \in Ops
    /\ nonce \in Nat
    /\ txId \in 0..MaxTx
    /\ polls \in Nat
    /\ result \in {"ok", "none"}
    /\ nextId \in 0..MaxTx
    /\ approveSeen \subseteq Keys
    /\ sent \in Seq(Nat)

\* The nonce the wallet is about to broadcast with is never used by a
\* transaction still in the pool and never below the confirmed count, so
\* no two transactions of the account share a nonce: get_transaction_count
\* with 'pending' is read afresh for every transaction, even after a wait
\* that timed out or a lost send response left a transaction in the pool.
FreshNonce ==
    pc = "sendRaw" => Acceptable(nonce)

\* A spending call (swap, place, mint, register) is in the pool only when
\* the allowance of its own token for its own spender covers it: it is sent
\* only after that allowance was read as sufficient or its approval's
\* receipt was awaited, so it never reverts for lack of allowance, whatever
\* other recipes sharing or not sharing the allowance did in between.
AllowanceBeforeSpend ==
    \A t \in pool : t.op = "spend" => allowance[t.key]

\* The step broadcasts no approval of a token for a spender once one was
\* seen confirmed.
NoApproveAfterSeen ==
    \A t \in pool' \ pool : t.op = "approve" => t.key \notin approveSeen

\* Once the wallet has waited for a confirmed approval of a token for a
\* spender, it never broadcasts another one (spec section 8: ensureAllowance
\* is idempotent), even when a later recipe sharing the allowance, a batch
\* or a bid after a swap, reads it again.
ApproveIdempotent == [][NoApproveAfterSeen]_vars

\* Every recipe the wallet starts returns: the receipt wait is bounded even
\* when the transaction was evicted and can never be mined.
ActivityTerminates ==
    pc # "idle" ~> pc = "idle"

\* Spec section 8: the nonces of consecutive submissions of an account
\* increase by exactly one.
NoncesConsecutive ==
    [][Len(sent') > Len(sent) /\ sent # <<>> =>
         sent'[Len(sent')] = sent[Len(sent)] + 1]_vars
=============================================================================
