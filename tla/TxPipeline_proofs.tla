-------------------------- MODULE TxPipeline_proofs --------------------------
(***************************************************************************)
(* Proofs about TxPipeline for every value of the constants.               *)
(***************************************************************************)
EXTENDS TxPipeline, FiniteSetTheorems, TLAPS

\* The broadcast budget left covers what the recipe still has to send.
BudgetInv ==
    /\ pc = "allowance" => nextId + 2 <= MaxTx
    /\ pc \in {"getNonce", "sendRaw"} => nextId + 1 <= MaxTx
    /\ pc \in {"getNonce", "sendRaw"} /\ op \in {"approve", "createPolicy"} => nextId + 2 <= MaxTx
    /\ pc = "waitTx" /\ op \in {"approve", "createPolicy"} => nextId + 1 <= MaxTx
    /\ pc = "quote" => nextId + 1 <= MaxTx

\* Type correctness with the budget it depends on.
TypeInv == TypeOK /\ BudgetInv

\* Ids: the pool holds distinct broadcast ids without receipts, ids not yet
\* used have no receipt, and the awaited transaction is the last broadcast.
IdInv ==
    /\ \A t \in pool : t.id \in 1..nextId /\ receipt[t.id] = "none"
    /\ \A t1, t2 \in pool : t1.id = t2.id => t1 = t2
    /\ \A i \in Ids : i > nextId => receipt[i] = "none"
    /\ pc = "waitTx" => txId \in 1..nextId
    /\ \A t \in pool : pc = "waitTx" /\ t.id = txId => t.op = op /\ t.key = key

\* Where the allowance of the recipe's key is already known to cover it.
AllowanceInv ==
    /\ pc = "waitTx" /\ op = "approve" /\ receipt[txId] = "success" => allowance[key]
    /\ pc = "quote" => allowance[key]
    /\ pc \in {"getNonce", "sendRaw", "waitTx"} /\ op = "spend" => allowance[key]
    /\ \A k \in approveSeen : allowance[k]
    /\ pc \in {"getNonce", "sendRaw"} /\ op = "approve" => key \notin approveSeen
    /\ AllowanceBeforeSpend

IInv == TypeInv /\ IdInv /\ AllowanceInv

-----------------------------------------------------------------------------
USE BoundsAssumption

\* The pending nonce the node reports is a natural number.
LEMMA PendingNonceType ==
    ASSUME chainNonce \in Nat
    PROVE  PendingNonce \in Nat
<1> DEFINE Cands == chainNonce..(chainNonce + Cardinality(pool))
<1>1. CASE \E n \in Cands : NextFree(n)
  <2>1. (CHOOSE n \in Cands : NextFree(n)) \in Cands
    BY <1>1
  <2>2. QED
    BY <2>1, <1>1 DEF PendingNonce
<1>2. CASE ~\E n \in Cands : NextFree(n)
  BY <1>2 DEF PendingNonce
<1>3. QED
  BY <1>1, <1>2

\* The recipes that start a guarded recipe, as the disjuncts of StartRecipe.
StartGuardedStep == \E r \in GuardedRecipes : StartGuarded(r)

\* Every start of a recipe is a plain start, a failed compilation, a guarded
\* start or the policy recipe.
LEMMA StartCases ==
    StartRecipe => StartPlain \/ CompileFailed \/ StartGuardedStep \/ Tip403Policy
BY DEF StartRecipe, Deploy, SendTokens, SetFeeToken, TransferWithMemo, NftDeploy,
       RetrieverClaim, Swap, AddLiquidity, LimitOrder, Batch, InfinityName,
       StartGuardedStep, GuardedRecipes, QuotedRecipes

\* Every step keeps the types and the budget.
LEMMA TypeStep == TypeInv /\ [Next]_vars => TypeInv'
<1> SUFFICES ASSUME TypeInv, [Next]_vars PROVE TypeInv'
  OBVIOUS
<1> USE DEF TypeInv, TypeOK, BudgetInv, PCs, RpcPCs, Ops, Recipes, Status, Ids, Tx
<1>1. CASE StartPlain
  BY <1>1 DEF StartPlain, nodeVars
<1>2. CASE CompileFailed
  BY <1>2 DEF CompileFailed, nodeVars
<1>3. CASE StartGuardedStep
  <2>1. PICK r \in GuardedRecipes : StartGuarded(r)
    BY <1>3 DEF StartGuardedStep
  <2>2. key' \in Keys
    BY <2>1 DEF StartGuarded, Keys
  <2>3. QED
    BY <2>1, <2>2 DEF StartGuarded, nodeVars
<1>4. CASE Tip403Policy
  BY <1>4 DEF Tip403Policy, nodeVars
<1>5. CASE ReadAllowance
  BY <1>5 DEF ReadAllowance, Proceed, nodeVars
<1>6. CASE GetNonce
  BY <1>6, PendingNonceType DEF GetNonce, nodeVars
<1>7. CASE SendRaw
  BY <1>7 DEF SendRaw
<1>8. CASE TxConfirmed
  BY <1>8 DEF TxConfirmed, Proceed, nodeVars
<1>9. CASE TxReverted
  BY <1>9 DEF TxReverted, nodeVars
<1>10. CASE TxPending
  BY <1>10 DEF TxPending, nodeVars
<1>11. CASE TxTimeout
  BY <1>11 DEF TxTimeout, nodeVars
<1>12. CASE Quote
  BY <1>12 DEF Quote, nodeVars
<1>13. CASE RpcError
  BY <1>13 DEF RpcError, nodeVars
<1>14. CASE Mine
  BY <1>14 DEF Mine, walletVars, MineOutcomes
<1>15. CASE Evict
  BY <1>15 DEF Evict, walletVars
<1>16. CASE BudgetExhausted \/ UNCHANGED vars
  BY <1>16 DEF BudgetExhausted, vars, nodeVars, walletVars
<1>17. QED
  BY <1>1, <1>2, <1>3, <1>4, <1>5, <1>6, <1>7, <1>8, <1>9, <1>10, <1>11,
     <1>12, <1>13, <1>14, <1>15, <1>16, StartCases DEF Next, WalletStep

\* The initial states are well typed and within the transaction budget.
LEMMA InitTypeInv == Init => TypeInv
<1> SUFFICES ASSUME Init PROVE TypeInv
  OBVIOUS
<1>1. receipt \in [Ids -> Status]
  BY DEF Init, Status
<1>2. sent \in Seq(Nat)
  BY DEF Init
<1>3. /\ chainNonce \in Nat /\ pool \subseteq Tx /\ evictions \in 0..MaxEvict
      /\ txId \in 0..MaxTx /\ nextId \in 0..MaxTx /\ polls \in Nat /\ nonce \in Nat
  BY DEF Init
<1>4. /\ pc \in PCs /\ recipe \in Recipes /\ op \in Ops
      /\ result \in {"ok", "none"} /\ approveSeen \subseteq Keys
      /\ allowance \in [Keys -> BOOLEAN]
  BY DEF Init, PCs, RpcPCs, Recipes, Ops
<1>8. key \in Keys
  BY DEF Init, Keys, RecipeKeys, GuardedRecipes, QuotedRecipes
<1>5. TypeOK
  BY <1>1, <1>2, <1>3, <1>4, <1>8 DEF TypeOK
<1>6. BudgetInv
  BY DEF Init, BudgetInv
<1>7. QED
  BY <1>5, <1>6 DEF TypeInv

\* Type correctness: every variable of the node and of the wallet keeps its
\* type along every behaviour of the activity pipeline.
THEOREM TypeCorrect == Spec => []TypeOK
<1>1. TypeInv => TypeOK
  BY DEF TypeInv
<1>2. QED
  BY <1>1, InitTypeInv, TypeStep, PTL DEF Spec

-----------------------------------------------------------------------------
\* Mining a transaction t with status st, as Mine does.
MineStep(t, st) ==
    /\ t \in pool
    /\ st \in Status
    /\ t.nonce = chainNonce
    /\ receipt' = [receipt EXCEPT ![t.id] = st]
    /\ allowance' = IF t.op = "approve" /\ st = "success"
                      THEN [allowance EXCEPT ![t.key] = TRUE]
                      ELSE allowance
    /\ pool' = pool \ {t}
    /\ UNCHANGED walletVars

\* Mining never lowers an allowance, and a successful approval raises its
\* own key.
LEMMA MineAllowance ==
    ASSUME TypeInv, NEW t, NEW st, MineStep(t, st)
    PROVE  /\ \A k \in Keys : allowance[k] => allowance'[k]
           /\ t.op = "approve" /\ st = "success" => allowance'[t.key]
<1>1. t.key \in Keys
  BY DEF MineStep, TypeInv, TypeOK, Tx
<1>2. allowance \in [Keys -> BOOLEAN]
  BY DEF TypeInv, TypeOK
<1>3. QED
  BY <1>1, <1>2 DEF MineStep

\* Mining keeps the id bookkeeping and the allowance facts.
LEMMA MinePreserves ==
    ASSUME IInv, NEW t, NEW st, MineStep(t, st)
    PROVE  (IdInv /\ AllowanceInv)'
<1> USE DEF IInv, TypeInv, TypeOK, Ids, Tx, Status
<1>0. /\ \A k \in Keys : allowance[k] => allowance'[k]
      /\ t.op = "approve" /\ st = "success" => allowance'[t.key]
  BY MineAllowance
<1>1. t \in Tx /\ t.id \in Ids /\ t.id \in 1..nextId
  BY DEF MineStep, IdInv
<1>2. ASSUME NEW u \in pool'
      PROVE  u \in pool /\ u.id # t.id /\ receipt'[u.id] = receipt[u.id]
  <2>1. u \in pool /\ u # t
    BY DEF MineStep
  <2>2. u.id # t.id
    BY <2>1 DEF MineStep, IdInv
  <2>3. u.id \in Ids
    BY <2>1
  <2>4. QED
    BY <2>1, <2>2, <2>3 DEF MineStep
<1>3. IdInv'
  <2>1. (\A u \in pool : u.id \in 1..nextId /\ receipt[u.id] = "none")'
    BY <1>2 DEF MineStep, IdInv, walletVars
  <2>2. (\A t1, t2 \in pool : t1.id = t2.id => t1 = t2)'
    BY DEF MineStep, IdInv
  <2>3. (\A i \in Ids : i > nextId => receipt[i] = "none")'
    BY <1>1 DEF MineStep, IdInv, walletVars
  <2>4. (pc = "waitTx" => txId \in 1..nextId)'
    BY DEF MineStep, IdInv, walletVars
  <2>5. (\A u \in pool : pc = "waitTx" /\ u.id = txId => u.op = op /\ u.key = key)'
    BY DEF MineStep, IdInv, walletVars
  <2>6. QED
    BY <2>1, <2>2, <2>3, <2>4, <2>5 DEF IdInv
<1>4. (pc = "waitTx" /\ op = "approve" /\ receipt[txId] = "success" => allowance[key])'
  <2> SUFFICES ASSUME pc = "waitTx", op = "approve", receipt'[txId] = "success"
               PROVE  allowance'[key]
    BY DEF MineStep, walletVars
  <2>1. CASE t.id = txId
    <3>1. t.op = "approve" /\ t.key = key
      BY <2>1 DEF MineStep, IdInv
    <3>2. st = "success"
      BY <2>1, <1>1 DEF MineStep
    <3>3. QED
      BY <3>1, <3>2, <1>0
  <2>2. CASE t.id # txId
    <3>1. txId \in Ids
      BY DEF IdInv
    <3>2. receipt[txId] = "success"
      BY <2>2, <3>1 DEF MineStep
    <3>3. QED
      BY <3>2, <1>0 DEF MineStep, AllowanceInv
  <2>3. QED
    BY <2>1, <2>2
<1>5. AllowanceBeforeSpend'
  <2> SUFFICES ASSUME NEW u \in pool', u.op = "spend" PROVE allowance'[u.key]
    BY DEF AllowanceBeforeSpend
  <2>1. u \in pool /\ u.key \in Keys
    BY DEF MineStep
  <2>2. QED
    BY <2>1, <1>0 DEF AllowanceInv, AllowanceBeforeSpend
<1>6. AllowanceInv'
  <2>1. key \in Keys /\ approveSeen \subseteq Keys
    OBVIOUS
  <2>2. QED
    BY <1>0, <1>4, <1>5, <2>1 DEF MineStep, AllowanceInv, walletVars
<1>7. QED
  BY <1>3, <1>6

\* Every step keeps the id bookkeeping and the allowance facts.
LEMMA SafetyStep == IInv /\ [Next]_vars => (IdInv /\ AllowanceInv)'
<1> SUFFICES ASSUME IInv, [Next]_vars PROVE (IdInv /\ AllowanceInv)'
  OBVIOUS
<1> USE DEF IInv, TypeInv, TypeOK, BudgetInv, IdInv, AllowanceInv,
            AllowanceBeforeSpend, PCs, RpcPCs, Ops, Status, Ids, Tx
<1>1. CASE StartPlain
  BY <1>1 DEF StartPlain, nodeVars
<1>2. CASE CompileFailed
  BY <1>2 DEF CompileFailed, nodeVars
<1>3. CASE StartGuardedStep
  BY <1>3 DEF StartGuardedStep, StartGuarded, nodeVars
<1>4. CASE Tip403Policy
  BY <1>4 DEF Tip403Policy, nodeVars
<1>5. CASE ReadAllowance
  BY <1>5 DEF ReadAllowance, Proceed, nodeVars
<1>6. CASE GetNonce
  BY <1>6 DEF GetNonce, nodeVars
<1>7. CASE SendRaw
  BY <1>7 DEF SendRaw
<1>8. CASE TxConfirmed
  BY <1>8 DEF TxConfirmed, Proceed, nodeVars
<1>9. CASE TxReverted
  BY <1>9 DEF TxReverted, nodeVars
<1>10. CASE TxPending
  BY <1>10 DEF TxPending, nodeVars
<1>11. CASE TxTimeout
  BY <1>11 DEF TxTimeout, nodeVars
<1>12. CASE Quote
  BY <1>12 DEF Quote, nodeVars
<1>13. CASE RpcError
  BY <1>13 DEF RpcError, nodeVars
<1>14. CASE Mine
  <2>1. PICK t \in pool, st \in Status : MineStep(t, st)
    BY <1>14 DEF Mine, MineOutcomes, MineStep
  <2>2. QED
    BY <2>1, MinePreserves
<1>15. CASE Evict
  BY <1>15 DEF Evict, walletVars
<1>16. CASE BudgetExhausted \/ UNCHANGED vars
  BY <1>16 DEF BudgetExhausted, vars, nodeVars, walletVars
<1>17. QED
  BY <1>1, <1>2, <1>3, <1>4, <1>5, <1>6, <1>7, <1>8, <1>9, <1>10, <1>11,
     <1>12, <1>13, <1>14, <1>15, <1>16, StartCases DEF Next, WalletStep

\* The strengthened invariant holds initially.
LEMMA InitIInv == Init => IInv
<1> SUFFICES ASSUME Init PROVE IInv
  OBVIOUS
<1>1. TypeInv
  BY InitTypeInv
<1>2. IdInv
  BY DEF Init, IdInv, Ids
<1>3. AllowanceInv
  BY DEF Init, AllowanceInv, AllowanceBeforeSpend
<1>4. QED
  BY <1>1, <1>2, <1>3 DEF IInv

\* The strengthened invariant is preserved.
LEMMA IInvStep == IInv /\ [Next]_vars => IInv'
BY TypeStep, SafetyStep DEF IInv

\* A spending call (swap, place, mint, register) is only ever in the pool
\* while the allowance of its token for its spender covers it: every
\* guarded recipe sends it only after reading a sufficient allowance of
\* that key or awaiting a successful approval of it.
THEOREM AllowanceSafe == Spec => []AllowanceBeforeSpend
<1>1. IInv => AllowanceBeforeSpend
  BY DEF IInv, AllowanceInv
<1>2. QED
  BY <1>1, InitIInv, IInvStep, PTL DEF Spec

\* A step adds no approval of a key to the pool once one of that key was
\* seen confirmed.
LEMMA ApproveStep == IInv /\ [Next]_vars => [NoApproveAfterSeen]_vars
<1> SUFFICES ASSUME IInv, [Next]_vars
             PROVE  NoApproveAfterSeen
  OBVIOUS
<1>1. CASE SendRaw
  <2>0. SUFFICES \A t \in pool' \ pool : t.op = "approve" => t.key \notin approveSeen
    BY DEF NoApproveAfterSeen
  <2>1. \A t \in pool' \ pool : t.op = op /\ t.key = key
    BY <1>1 DEF SendRaw
  <2>2. op = "approve" => key \notin approveSeen
    BY <1>1 DEF SendRaw, IInv, AllowanceInv
  <2>3. QED
    BY <2>1, <2>2
<1>2. CASE ~SendRaw
  <2>1. pool' \subseteq pool
    BY <1>2, StartCases DEF Next, WalletStep, StartPlain, CompileFailed,
       StartGuardedStep, StartGuarded, Tip403Policy, ReadAllowance,
       GetNonce, TxConfirmed, TxReverted, TxPending, TxTimeout, Quote,
       RpcError, Mine, Evict, BudgetExhausted, vars, nodeVars
  <2>2. QED
    BY <2>1 DEF NoApproveAfterSeen
<1>3. QED
  BY <1>1, <1>2

\* Once the wallet has awaited a confirmed approval of a token for a
\* spender it never broadcasts another of it (spec section 8, idempotence
\* of the allowance guard), whichever recipe reads the allowance next.
THEOREM ApproveIdempotentThm == Spec => ApproveIdempotent
<1>1. Spec => []IInv
  BY InitIInv, IInvStep, PTL DEF Spec
<1>2. QED
  BY <1>1, ApproveStep, PTL DEF Spec, ApproveIdempotent
-----------------------------------------------------------------------------
(* The pending nonce.                                                      *)

\* The pool is finite, and the nonce about to be broadcast is fresh.
NonceInv == IsFiniteSet(pool) /\ FreshNonce

\* The nonces of a finite pool are no more than its transactions.
LEMMA PoolNoncesBound ==
    ASSUME IsFiniteSet(pool)
    PROVE  IsFiniteSet(PoolNonces) /\ Cardinality(PoolNonces) <= Cardinality(pool)
<1>1. [t \in pool |-> t.nonce] \in Surjection(pool, PoolNonces)
  BY DEF Surjection, PoolNonces
<1>2. QED
  BY <1>1, FS_Surjection

\* get_transaction_count with 'pending' returns a nonce no pool transaction
\* uses and not below the confirmed count: the candidates are one more than
\* the pool, so one of them is free, and the least free one is chosen.
LEMMA PendingFresh ==
    ASSUME chainNonce \in Nat, pool \subseteq Tx, IsFiniteSet(pool)
    PROVE  Acceptable(PendingNonce)
<1> DEFINE Cands == chainNonce..(chainNonce + Cardinality(pool))
           Free == Cands \ PoolNonces
<1>1. Cardinality(pool) \in Nat
  BY FS_CardinalityType
<1>2. Free # {}
  <2>1. SUFFICES ASSUME Free = {} PROVE FALSE
    OBVIOUS
  <2>2. Cands \subseteq PoolNonces
    BY <2>1
  <2>3. IsFiniteSet(Cands) /\ Cardinality(Cands) = Cardinality(pool) + 1
    BY <1>1, FS_Interval
  <2>4. IsFiniteSet(PoolNonces) /\ Cardinality(PoolNonces) <= Cardinality(pool)
    BY PoolNoncesBound
  <2>5. Cardinality(Cands) <= Cardinality(PoolNonces)
    BY <2>2, <2>4, FS_Subset
  <2>6. Cardinality(PoolNonces) \in Nat
    BY <2>4, FS_CardinalityType
  <2>7. QED
    BY <1>1, <2>3, <2>4, <2>5, <2>6
<1>3. Free \subseteq Nat
  BY <1>1
<1>4. PICK x \in Free : \A y \in Free : ~(<<y, x>> \in OpToRel(<, Nat))
  BY <1>2, <1>3, NatLessThanWellFounded, WFMin
<1>5. NextFree(x)
  <2>1. x \notin PoolNonces
    OBVIOUS
  <2>2. ASSUME NEW m \in chainNonce..(x - 1) PROVE m \in PoolNonces
    <3>1. m \in Cands /\ m < x /\ m \in Nat /\ x \in Nat
      BY <1>1
    <3>2. <<m, x>> \in OpToRel(<, Nat)
      BY <3>1 DEF OpToRel
    <3>3. QED
      BY <3>1, <3>2, <1>4
  <2>3. QED
    BY <2>1, <2>2 DEF NextFree
<1>6. PendingNonce \in Cands /\ NextFree(PendingNonce)
  BY <1>5 DEF PendingNonce
<1>7. QED
  BY <1>1, <1>6 DEF Acceptable, NextFree

LEMMA InitNonce == Init => NonceInv
BY FS_EmptySet DEF Init, NonceInv, FreshNonce

\* Only GetNonce moves the wallet to sendRaw; mining the confirmed nonce
\* passes over the wallet's, which is not in the pool.
LEMMA NonceStep == IInv /\ NonceInv /\ [Next]_vars => NonceInv'
<1> SUFFICES ASSUME IInv, NonceInv, [Next]_vars PROVE NonceInv'
  OBVIOUS
<1> USE DEF IInv, TypeInv, TypeOK
<1>0. pc' # "sendRaw" /\ IsFiniteSet(pool') => NonceInv'
  BY DEF NonceInv, FreshNonce
<1>1. CASE StartPlain \/ CompileFailed \/ StartGuardedStep \/ Tip403Policy
  BY <1>1, <1>0 DEF NonceInv, StartPlain, CompileFailed, StartGuardedStep,
     StartGuarded, Tip403Policy, nodeVars
<1>2. CASE ReadAllowance \/ TxConfirmed \/ TxReverted \/ TxPending \/ TxTimeout
           \/ Quote \/ RpcError
  BY <1>2, <1>0 DEF NonceInv, ReadAllowance, Proceed, TxConfirmed, TxReverted,
     TxPending, TxTimeout, Quote, RpcError, nodeVars
<1>3. CASE GetNonce
  BY <1>3, PendingFresh DEF NonceInv, FreshNonce, GetNonce, nodeVars, Acceptable, PoolNonces
<1>4. CASE SendRaw
  <2>1. IsFiniteSet(pool')
    BY <1>4, FS_AddElement DEF SendRaw, NonceInv
  <2>2. QED
    BY <1>4, <1>0, <2>1 DEF SendRaw
<1>5. CASE Mine
  <2>1. PICK t \in pool : /\ t.nonce = chainNonce /\ pool' = pool \ {t}
                          /\ chainNonce' = chainNonce + 1 /\ UNCHANGED walletVars
    BY <1>5 DEF Mine
  <2>2. IsFiniteSet(pool')
    BY <2>1, FS_RemoveElement DEF NonceInv
  <2>3. pc = "sendRaw" => nonce # chainNonce
    BY <2>1 DEF NonceInv, FreshNonce, Acceptable, PoolNonces
  <2>4. QED
    BY <2>1, <2>2, <2>3 DEF NonceInv, FreshNonce, Acceptable, PoolNonces, walletVars
<1>6. CASE Evict
  <2>1. PICK t \in pool : pool' = pool \ {t}
    BY <1>6 DEF Evict
  <2>2. IsFiniteSet(pool')
    BY <2>1, FS_RemoveElement DEF NonceInv
  <2>3. QED
    BY <1>6, <2>1, <2>2 DEF NonceInv, FreshNonce, Acceptable, PoolNonces, Evict, walletVars
<1>7. CASE BudgetExhausted \/ UNCHANGED vars
  BY <1>7 DEF BudgetExhausted, NonceInv, FreshNonce, Acceptable, PoolNonces,
     vars, nodeVars, walletVars
<1>8. QED
  BY <1>1, <1>2, <1>3, <1>4, <1>5, <1>6, <1>7, StartCases DEF Next, WalletStep

\* For every value of the constants, the nonce the wallet broadcasts with
\* is used by no transaction in the pool and is not below the confirmed
\* count: get_transaction_count with 'pending' is read afresh for each
\* transaction, and between that read and the send the node only mines the
\* confirmed nonce or drops transactions.
THEOREM FreshNonceThm == Spec => []FreshNonce
<1>1. IInv /\ NonceInv => FreshNonce
  BY DEF NonceInv
<1>2. QED
  BY <1>1, InitIInv, IInvStep, InitNonce, NonceStep, PTL DEF Spec
=============================================================================
