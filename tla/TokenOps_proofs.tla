--------------------------- MODULE TokenOps_proofs ---------------------------
(***************************************************************************)
(* Proofs about TokenOps for every mint and burn amount and every          *)
(* transaction budget.                                                     *)
(***************************************************************************)
EXTENDS TokenOps, SequenceTheorems, TLAPS

\* The id bookkeeping of the chain: queued transactions have distinct ids
\* already broadcast and no receipt yet, ids not yet used have no receipt.
IdInv ==
    /\ txId \in 0..nextId
    /\ (pc = "wait" \/ result = "ok") => txId \in 1..nextId
    /\ \A k \in 1..Len(queue) : queue[k].id \in 1..nextId /\ receipt[queue[k].id] = "none"
    /\ \A k, l \in 1..Len(queue) : queue[k].id = queue[l].id => k = l
    /\ \A i \in Ids : i > nextId => receipt[i] = "none"

\* A recipe that returned a hash waited for a transaction mined with
\* success.
ResultInv ==
    pc = "idle" /\ result = "ok" => receipt[txId] = "success"

\* The burn is reached only past the threshold, and a reported success is
\* a mined success.
IInv ==
    /\ TypeOK
    /\ IdInv
    /\ pc = "burnSend" => readBal >= BurnAmount
    /\ ResultInv

-----------------------------------------------------------------------------
USE TokenAssumption

LEMMA InitIInv == Init => IInv
<1> SUFFICES ASSUME Init PROVE IInv
  OBVIOUS
<1>1. TypeOK
  <2>1. roles \subseteq Roles /\ bal \in Nat /\ readBal \in Nat
    BY DEF Init
  <2>2. queue \in Seq([id : Ids, op : Ops]) /\ sentLog \in Seq([op : Ops, held : BOOLEAN])
    BY DEF Init
  <2>3. receipt \in [Ids -> Status]
    BY DEF Init, Status
  <2>4. pc \in PCs /\ recipe \in Recipes /\ needsRole \in BOOLEAN
    BY DEF Init, PCs, Recipes
  <2>5. txId \in 0..MaxTx /\ nextId \in 0..MaxTx /\ result \in {"ok", "none", "skipped"}
    BY DEF Init
  <2>6. QED
    BY <2>1, <2>2, <2>3, <2>4, <2>5 DEF TypeOK
<1>2. IdInv
  BY DEF Init, IdInv, Ids
<1>3. QED
  BY <1>1, <1>2 DEF Init, IInv, ResultInv

\* A broadcast appends a fresh id with no receipt.
LEMMA BroadcastStep ==
    ASSUME IInv, NEW op \in Ops, Broadcast(op), UNCHANGED receipt
    PROVE  /\ IdInv'
           /\ queue' \in Seq([id : Ids, op : Ops])
           /\ sentLog' \in Seq([op : Ops, held : BOOLEAN])
           /\ nextId' \in 0..MaxTx /\ txId' \in 0..MaxTx
           /\ receipt[txId'] = "none"
<1> USE DEF IInv, TypeOK, IdInv, Ids
<1>1. nextId + 1 \in Ids /\ receipt[nextId + 1] = "none"
  BY DEF Broadcast
<1>2. /\ Len(queue') = Len(queue) + 1
      /\ \A k \in 1..Len(queue) : queue'[k] = queue[k]
      /\ queue'[Len(queue) + 1] = [id |-> nextId + 1, op |-> op]
  BY DEF Broadcast
<1>3. nextId' = nextId + 1 /\ txId' = nextId + 1 /\ nextId < MaxTx
  BY DEF Broadcast
<1>4. sentLog' \in Seq([op : Ops, held : BOOLEAN])
  BY DEF Broadcast
<1>5. queue' \in Seq([id : Ids, op : Ops])
  BY <1>1, <1>2, <1>3 DEF Broadcast
<1>10. \A k \in 1..Len(queue') :
         /\ queue'[k].id \in 1..nextId + 1
         /\ queue'[k].id = nextId + 1 <=> k = Len(queue) + 1
  <2> TAKE k \in 1..Len(queue')
  <2>1. CASE k \in 1..Len(queue)
    <3>1. queue'[k] = queue[k] /\ queue[k].id \in 1..nextId
      BY <2>1, <1>2
    <3>2. k # Len(queue) + 1
      BY <2>1
    <3>3. QED
      BY <3>1, <3>2
  <2>2. CASE k = Len(queue) + 1
    BY <2>2, <1>2
  <2>3. QED
    BY <2>1, <2>2, <1>2
<1>6. \A k \in 1..Len(queue') : queue'[k].id \in 1..nextId' /\ receipt'[queue'[k].id] = "none"
  <2> TAKE k \in 1..Len(queue')
  <2>1. CASE k \in 1..Len(queue)
    BY <2>1, <1>2, <1>3, <1>10
  <2>2. CASE k = Len(queue) + 1
    BY <2>2, <1>1, <1>2, <1>3
  <2>3. QED
    BY <2>1, <2>2, <1>2
<1>7. \A k, l \in 1..Len(queue') : queue'[k].id = queue'[l].id => k = l
  <2> TAKE k, l \in 1..Len(queue')
  <2>1. CASE k \in 1..Len(queue) /\ l \in 1..Len(queue)
    BY <2>1, <1>2
  <2>2. QED
    BY <2>1, <1>2, <1>10
<1>8. \A i \in Ids : i > nextId' => receipt'[i] = "none"
  BY <1>3
<1>9. QED
  BY <1>1, <1>3, <1>4, <1>5, <1>6, <1>7, <1>8

\* What mining the head does, with the outcome of the call named ok: a
\* burn succeeds only on a balance of at least the burn amount.
LEMMA MineFacts ==
    ASSUME TypeOK, Mine
    PROVE  \E ok \in BOOLEAN :
             /\ ok /\ Head(queue).op = "burn" => bal >= BurnAmount
             /\ receipt' = [receipt EXCEPT ![Head(queue).id] = IF ok THEN "success" ELSE "reverted"]
             /\ roles' = IF ok /\ Head(queue).op \in {"grantIssuer", "grantPause"}
                           THEN roles \cup {RoleOf(Head(queue).op)} ELSE roles
             /\ bal' = IF ok /\ Head(queue).op = "mint" THEN bal + MintAmount
                       ELSE IF ok /\ Head(queue).op = "burn" THEN bal - BurnAmount
                       ELSE bal
             /\ queue # <<>>
             /\ queue' = Tail(queue)
             /\ UNCHANGED walletVars
<1> DEFINE t == Head(queue)
           okv == (t.op \in {"grantIssuer", "grantPause"})
                  \/ (t.op = "mint" /\ "issuer" \in roles)
                  \/ (t.op = "burn" /\ bal >= BurnAmount)
<1>1. queue # <<>> /\ t \in [id : Ids, op : Ops]
  <2>1. queue # <<>>
    BY Zenon DEF Mine
  <2>2. queue \in Seq([id : Ids, op : Ops])
    BY DEF TypeOK
  <2>3. QED
    BY <2>1, <2>2, HeadTailProperties
<1>2. (CASE t.op \in {"grantIssuer", "grantPause"} -> TRUE
         [] t.op = "mint" -> "issuer" \in roles
         [] t.op = "burn" -> bal >= BurnAmount) = okv
  <2>1. t.op \in {"grantIssuer", "grantPause", "mint", "burn"}
    BY <1>1 DEF Ops
  <2>2. CASE t.op \in {"grantIssuer", "grantPause"}
    BY <2>2, Zenon
  <2>3. CASE t.op = "mint"
    <3>1. t.op \notin {"grantIssuer", "grantPause"}
      BY <2>3
    <3>2. (CASE t.op \in {"grantIssuer", "grantPause"} -> TRUE
             [] t.op = "mint" -> "issuer" \in roles
             [] t.op = "burn" -> bal >= BurnAmount) = ("issuer" \in roles)
      BY <2>3, <3>1, Zenon
    <3>3. okv = ("issuer" \in roles)
      BY <2>3
    <3>4. QED
      BY <3>2, <3>3
  <2>4. CASE t.op = "burn"
    <3>1. t.op \notin {"grantIssuer", "grantPause"} /\ t.op # "mint"
      BY <2>4
    <3>2. (CASE t.op \in {"grantIssuer", "grantPause"} -> TRUE
             [] t.op = "mint" -> "issuer" \in roles
             [] t.op = "burn" -> bal >= BurnAmount) = (bal >= BurnAmount)
      BY <2>4, <3>1, Zenon
    <3>3. okv = (bal >= BurnAmount)
      BY <2>4
    <3>4. QED
      BY <3>2, <3>3
  <2>5. QED
    BY <2>1, <2>2, <2>3, <2>4
<1>3. /\ receipt' = [receipt EXCEPT ![t.id] = IF okv THEN "success" ELSE "reverted"]
      /\ roles' = IF okv /\ t.op \in {"grantIssuer", "grantPause"}
                    THEN roles \cup {RoleOf(t.op)} ELSE roles
      /\ bal' = CASE okv /\ t.op = "mint" -> bal + MintAmount
                  [] okv /\ t.op = "burn" -> bal - BurnAmount
                  [] OTHER -> bal
      /\ queue' = Tail(queue)
      /\ UNCHANGED walletVars
  BY <1>2, Zenon DEF Mine
<1>6. (CASE okv /\ t.op = "mint" -> bal + MintAmount
         [] okv /\ t.op = "burn" -> bal - BurnAmount
         [] OTHER -> bal)
      = IF okv /\ t.op = "mint" THEN bal + MintAmount
        ELSE IF okv /\ t.op = "burn" THEN bal - BurnAmount
        ELSE bal
  BY Zenon
<1>4. okv /\ t.op = "burn" => bal >= BurnAmount
  BY Zenon
<1>5. QED
  BY <1>1, <1>3, <1>4, <1>6, Zenon

\* Mining the head keeps the bookkeeping: the head's id leaves the queue.
LEMMA MineIds ==
    ASSUME IInv, Mine
    PROVE  /\ IdInv'
           /\ \A i \in Ids : i # Head(queue).id => receipt'[i] = receipt[i]
<1> USE DEF IInv, TypeOK, IdInv, Ids, Status
<1>1. queue # <<>> /\ Head(queue).id \in Ids
  BY MineFacts
<1>2. /\ queue' = Tail(queue)
      /\ \E s \in Status : receipt' = [receipt EXCEPT ![Head(queue).id] = s]
      /\ UNCHANGED walletVars
  BY MineFacts
<1>3. Len(queue) >= 1 /\ Head(queue) = queue[1]
  BY <1>1
<1>4. Len(queue') = Len(queue) - 1 /\ \A k \in 1..Len(queue') : queue'[k] = queue[k + 1]
  BY <1>1, <1>2
<1>5. \A k \in 1..Len(queue') : queue'[k].id # Head(queue).id
  <2> TAKE k \in 1..Len(queue')
  <2>1. k + 1 \in 1..Len(queue) /\ 1 \in 1..Len(queue) /\ k + 1 # 1
    BY <1>3, <1>4
  <2>2. queue[k + 1].id # queue[1].id
    BY <2>1
  <2>3. QED
    BY <1>3, <1>4, <2>2
<1>6. QED
  BY <1>1, <1>2, <1>3, <1>4, <1>5 DEF walletVars

\* Mining keeps the types: a burn is mined only on a large enough balance.
LEMMA MineType ==
    ASSUME TypeOK, Mine
    PROVE  TypeOK'
<1> USE DEF TypeOK
<1>1. PICK ok \in BOOLEAN :
             /\ ok /\ Head(queue).op = "burn" => bal >= BurnAmount
             /\ receipt' = [receipt EXCEPT ![Head(queue).id] = IF ok THEN "success" ELSE "reverted"]
             /\ roles' = IF ok /\ Head(queue).op \in {"grantIssuer", "grantPause"}
                           THEN roles \cup {RoleOf(Head(queue).op)} ELSE roles
             /\ bal' = IF ok /\ Head(queue).op = "mint" THEN bal + MintAmount
                       ELSE IF ok /\ Head(queue).op = "burn" THEN bal - BurnAmount
                       ELSE bal
             /\ queue # <<>>
             /\ queue' = Tail(queue)
             /\ UNCHANGED walletVars
  BY MineFacts
<1>2. Head(queue) \in [id : Ids, op : Ops]
  BY <1>1, HeadTailProperties
<1>3. receipt' \in [Ids -> Status]
  BY <1>1, <1>2 DEF Status
<1>4. roles' \subseteq Roles
  BY <1>1 DEF RoleOf, Roles
<1>5. bal' \in Nat
  BY <1>1
<1>6. queue' \in Seq([id : Ids, op : Ops])
  BY <1>1, HeadTailProperties
<1>7. QED
  BY <1>1, <1>3, <1>4, <1>5, <1>6 DEF walletVars

\* Every step keeps the invariant.
LEMMA IInvStep == IInv /\ [Next]_vars => IInv'
<1> SUFFICES ASSUME IInv, [Next]_vars PROVE IInv'
  OBVIOUS
<1> USE DEF IInv, TypeOK, ResultInv, Roles, Ops, Ids, Status, PCs, Recipes
<1>1. CASE Start
  BY <1>1 DEF Start, IdInv, chainVars
<1>2. CASE HasIssuer
  BY <1>2 DEF HasIssuer, IdInv, chainVars
<1>3. CASE GrantIssuer
  <2>1. CASE Broadcast("grantIssuer") /\ pc' = "grantIssuerWait"
    BY <1>3, <2>1, BroadcastStep DEF GrantIssuer
  <2>2. CASE pc' = "mintSend" /\ UNCHANGED <<queue, nextId, txId, sentLog>>
    BY <1>3, <2>2 DEF GrantIssuer, IdInv
  <2>3. QED
    BY <1>3, <2>1, <2>2 DEF GrantIssuer
<1>4. CASE GrantIssuerWait
  BY <1>4 DEF GrantIssuerWait, IdInv, chainVars
<1>5. ASSUME NEW from, NEW op \in Ops, SendFinal(from, op),
             from = "burnSend" => op = "burn"
      PROVE  IInv'
  <2>1. CASE Broadcast(op) /\ pc' = "wait" /\ UNCHANGED result
    BY <1>5, <2>1, BroadcastStep DEF SendFinal
  <2>2. CASE pc' = "idle" /\ result' = "none" /\ UNCHANGED <<queue, nextId, txId, sentLog>>
    BY <1>5, <2>2 DEF SendFinal, IdInv
  <2>3. QED
    BY <1>5, <2>1, <2>2 DEF SendFinal
<1>6. CASE MintSend
  BY <1>6, <1>5 DEF MintSend
<1>7. CASE BurnSend
  BY <1>7, <1>5 DEF BurnSend
<1>8. CASE GrantPauseSend
  BY <1>8, <1>5 DEF GrantPauseSend
<1>9. CASE ReadBalance
  BY <1>9 DEF ReadBalance, IdInv, chainVars
<1>10. CASE HasPause
  BY <1>10 DEF HasPause, IdInv, chainVars
<1>11. CASE Wait
  BY <1>11 DEF Wait, IdInv, chainVars
<1>12. CASE Mine
  <2>1. IdInv' /\ \A i \in Ids : i # Head(queue).id => receipt'[i] = receipt[i]
    BY <1>12, MineIds
  <2>2. TypeOK'
    BY <1>12, MineType
  <2>3. ResultInv'
    <3>0. queue # <<>>
      BY <1>12, MineFacts
    <3>1. pc = "idle" /\ result = "ok" => txId # Head(queue).id
      <4>1. Head(queue) = queue[1] /\ 1 \in 1..Len(queue)
        BY <3>0
      <4>2. receipt[Head(queue).id] = "none"
        BY <4>1 DEF IdInv
      <4>3. QED
        BY <4>2
    <3>2. UNCHANGED walletVars
      BY <1>12, MineFacts
    <3>3. QED
      BY <2>1, <3>1, <3>2 DEF walletVars, IdInv
  <2>4. UNCHANGED walletVars
    BY <1>12, MineFacts
  <2>5. QED
    BY <2>1, <2>2, <2>3, <2>4 DEF walletVars
<1>13. CASE Done
  BY <1>13 DEF Done, vars, chainVars, walletVars, IdInv
<1>14. CASE UNCHANGED vars
  BY <1>14 DEF vars, chainVars, walletVars, IdInv
<1>15. QED
  BY <1>1, <1>2, <1>3, <1>4, <1>6, <1>7, <1>8, <1>9, <1>10, <1>11, <1>12,
     <1>13, <1>14 DEF Next, WalletStep

\* For every amount and budget, the token recipes keep their types: the
\* broadcast budget is never exceeded and a burn never drives the balance
\* below zero.
THEOREM TypeCorrect == Spec => []TypeOK
<1>1. IInv => TypeOK
  BY DEF IInv
<1>2. QED
  BY <1>1, InitIInv, IInvStep, PTL DEF Spec
=============================================================================
