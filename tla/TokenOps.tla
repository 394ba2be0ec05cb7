------------------------------ MODULE TokenOps ------------------------------
(***************************************************************************)
(* The recipes on a wallet's own TIP-20 token: activity8_mint_tokens,      *)
(* activity9_burn_tokens and activity13_grant_role, run one after another  *)
(* by one wallet thread, against the token contract on chain.              *)
(*                                                                         *)
(* The chain keeps the wallet's roles on the token, its token balance and  *)
(* the wallet's broadcast transactions in nonce order; it mines the first  *)
(* one.  Nonce reads are modelled in TxPipeline: here a broadcast lands at *)
(* the end of the queue.  A wait returns on a success receipt, and raises  *)
(* on a reverted one or, while there is none, on timeout, after which the  *)
(* transaction may still be mined.                                         *)
(***************************************************************************)
EXTENDS Naturals, Sequences

CONSTANTS
    MintAmount,  \* mint_amount, in units of the burn amount
    BurnAmount,  \* burn_amount, which is also the burn threshold
    MaxTx        \* transactions the wallet may broadcast in one model run

ASSUME TokenAssumption ==
    /\ MintAmount \in Nat /\ BurnAmount \in Nat \ {0} /\ MintAmount > BurnAmount
    /\ MaxTx \in Nat \ {0}

Roles == {"issuer", "pause"}
Ops == {"grantIssuer", "grantPause", "mint", "burn"}
Ids == 1..MaxTx
Status == {"none", "success", "reverted"}
Recipes == {"mint", "burn", "grant"}
PCs == {"idle", "hasIssuer", "grantIssuer", "grantIssuerWait", "mintSend",
        "readBalance", "burnSend", "hasPause", "grantPauseSend", "wait"}

VARIABLES
    roles,      \* roles of the wallet on its token
    bal,        \* the wallet's token balance
    queue,      \* broadcast transactions not yet mined, in nonce order
    receipt,    \* receipt status of each transaction id
    pc,         \* the statement the recipe is at
    recipe,     \* the recipe being run
    needsRole,  \* needs_role of activity8_mint_tokens
    readBal,    \* the balance activity9_burn_tokens read
    txId,       \* the transaction waited for
    nextId,     \* transactions broadcast so far
    result,     \* what the last finished recipe returned
    sentLog     \* each broadcast, by id: its call and whether its role was held

chainVars == <<roles, bal, queue, receipt>>
walletVars == <<pc, recipe, needsRole, readBal, txId, nextId, result, sentLog>>
vars == <<chainVars, walletVars>>

\* The role a call needs or grants.
RoleOf(op) == IF op \in {"grantIssuer", "mint"} THEN "issuer" ELSE "pause"

\* A transaction broadcast: the hash came back, or the response was lost
\* and the call raised (the transaction is in the queue either way).
Broadcast(op) ==
    /\ nextId < MaxTx
    /\ queue' = Append(queue, [id |-> nextId + 1, op |-> op])
    /\ nextId' = nextId + 1
    /\ txId' = nextId + 1
    /\ sentLog' = Append(sentLog, [op |-> op, held |-> RoleOf(op) \in roles])

Init ==
    /\ roles \in SUBSET Roles
    /\ bal \in {0, BurnAmount}
    /\ queue = <<>>
    /\ receipt = [i \in Ids |-> "none"]
    /\ pc = "idle"
    /\ recipe = "mint"
    /\ needsRole = FALSE
    /\ readBal = 0
    /\ txId = 0
    /\ nextId = 0
    /\ result = "none"
    /\ sentLog = <<>>

-----------------------------------------------------------------------------
(* Mutants.                                                                *)

\* The wait never gives up on a transaction that is not mined.
WaitForever ==
    /\ pc = "wait"
    /\ receipt[txId] # "none"
    /\ result' = IF receipt[txId] = "success" THEN "ok" ELSE "none"
    /\ pc' = "idle"
    /\ UNCHANGED <<chainVars, recipe, needsRole, readBal, txId, nextId, sentLog>>

-----------------------------------------------------------------------------
(* The wallet thread.                                                      *)

\* One of the three recipes is called on the wallet's token.
Start ==
    /\ pc = "idle"
    /\ \E r \in Recipes :
         /\ recipe' = r
         /\ pc' = CASE r = "mint" -> "hasIssuer"
                    [] r = "burn" -> "readBalance"
                    [] r = "grant" -> "hasPause"
    /\ UNCHANGED <<chainVars, needsRole, readBal, txId, nextId, result, sentLog>>

\* activity8: hasRole(ISSUER_ROLE, wallet).call(); if the call raises,
\* needs_role is set True.
HasIssuer ==
    /\ pc = "hasIssuer"
    /\ \E ok \in BOOLEAN :
         needsRole' = IF ok THEN "issuer" \notin roles ELSE TRUE
    /\ pc' = IF needsRole' THEN "grantIssuer" ELSE "mintSend"
    /\ UNCHANGED <<chainVars, recipe, readBal, txId, nextId, result, sentLog>>

\* activity8: grantRole(ISSUER_ROLE, wallet) built, signed and broadcast;
\* any exception up to here, or in the wait, is passed over.
GrantIssuer ==
    /\ pc = "grantIssuer"
    /\ \/ Broadcast("grantIssuer") /\ pc' = "grantIssuerWait"
       \/ pc' = "mintSend" /\ UNCHANGED <<queue, nextId, txId, sentLog>>
    /\ UNCHANGED <<roles, bal, receipt, recipe, needsRole, readBal, result>>

\* activity8: sync_wait_for_tx_with_retry on the grant returns or raises,
\* and the recipe goes on to the mint in every case.
GrantIssuerWait ==
    /\ pc = "grantIssuerWait"
    /\ pc' = "mintSend"
    /\ UNCHANGED <<chainVars, recipe, needsRole, readBal, txId, nextId, result, sentLog>>

\* A mint, burn or pause grant broadcast; an exception returns None.
SendFinal(from, op) ==
    /\ pc = from
    /\ \/ Broadcast(op) /\ pc' = "wait" /\ UNCHANGED result
       \/ pc' = "idle" /\ result' = "none" /\ UNCHANGED <<queue, nextId, txId, sentLog>>
    /\ UNCHANGED <<roles, bal, receipt, recipe, needsRole, readBal>>

MintSend == SendFinal("mintSend", "mint")

\* activity9: balanceOf(wallet).call(); a balance below the burn amount
\* returns "skipped: low balance".
ReadBalance ==
    /\ pc = "readBalance"
    /\ \/ /\ readBal' = bal
          /\ IF bal >= BurnAmount
               THEN pc' = "burnSend" /\ UNCHANGED result
               ELSE pc' = "idle" /\ result' = "skipped"
       \/ pc' = "idle" /\ result' = "none" /\ UNCHANGED readBal
    /\ UNCHANGED <<chainVars, recipe, needsRole, txId, nextId, sentLog>>

BurnSend == SendFinal("burnSend", "burn")

\* activity13: hasRole(PAUSE_ROLE, wallet).call(); a role already held
\* falls through to return None, a raise too.
HasPause ==
    /\ pc = "hasPause"
    /\ \/ "pause" \notin roles /\ pc' = "grantPauseSend" /\ UNCHANGED result
       \/ pc' = "idle" /\ result' = "none"
    /\ UNCHANGED <<chainVars, recipe, needsRole, readBal, txId, nextId, sentLog>>

GrantPauseSend == SendFinal("grantPauseSend", "grantPause")

\* The last wait of a recipe: the hash is returned on success; a reverted
\* receipt or a timeout raises and the recipe returns None.
Wait ==
    /\ pc = "wait"
    /\ \/ receipt[txId] = "success" /\ result' = "ok"
       \/ receipt[txId] # "success" /\ result' = "none"
    /\ pc' = "idle"
    /\ UNCHANGED <<chainVars, recipe, needsRole, readBal, txId, nextId, sentLog>>

-----------------------------------------------------------------------------
(* The chain.                                                              *)

\* The first queued transaction is mined.  The wallet administers its own
\* token, so a grant succeeds; a mint needs the issuer role; a burn needs
\* the balance.
Mine ==
    /\ queue # <<>>
    /\ LET t == Head(queue)
           ok == CASE t.op \in {"grantIssuer", "grantPause"} -> TRUE
                   [] t.op = "mint" -> "issuer" \in roles
                   [] t.op = "burn" -> bal >= BurnAmount
       IN  /\ receipt' = [receipt EXCEPT ![t.id] = IF ok THEN "success" ELSE "reverted"]
           /\ roles' = IF ok /\ t.op \in {"grantIssuer", "grantPause"}
                         THEN roles \cup {RoleOf(t.op)} ELSE roles
           /\ bal' = CASE ok /\ t.op = "mint" -> bal + MintAmount
                       [] ok /\ t.op = "burn" -> bal - BurnAmount
                       [] OTHER -> bal
    /\ queue' = Tail(queue)
    /\ UNCHANGED walletVars

\* The broadcast budget of the model is spent.
Done ==
    /\ pc = "idle"
    /\ nextId = MaxTx
    /\ queue = <<>>
    /\ UNCHANGED vars

WalletStep ==
    \/ HasIssuer \/ GrantIssuer \/ GrantIssuerWait \/ MintSend
    \/ ReadBalance \/ BurnSend \/ HasPause \/ GrantPauseSend \/ Wait

Next == Start \/ WalletStep \/ Mine \/ Done

\* The wallet thread always proceeds; the chain need not, since every wait
\* is bounded.
Spec == Init /\ [][Next]_vars /\ WF_vars(WalletStep)

-----------------------------------------------------------------------------
(* Properties.                                                             *)

TypeOK ==
    /\ roles \subseteq Roles
    /\ bal \in Nat
    /\ queue \in Seq([id : Ids, op : Ops])
    /\ receipt \in [Ids -> Status]
    /\ pc \in PCs
    /\ recipe \in Recipes
    /\ needsRole \in BOOLEAN
    /\ readBal \in Nat
    /\ txId \in 0..MaxTx
    /\ nextId \in 0..MaxTx
    /\ result \in {"ok", "none", "skipped"}
    /\ sentLog \in Seq([op : Ops, held : BOOLEAN])

\* Every recipe started returns.
RecipeReturns ==
    pc # "idle" ~> pc = "idle"

\* The first half of spec section 8 on mint: the mint recipe grants the
\* issuer role before minting when the role is absent, so none of its
\* mints is rejected for it.
MintHasRole ==
    \A k \in DOMAIN sentLog : sentLog[k].op = "mint" => receipt[k] # "reverted"

\* The second half: activity8 never grants the issuer role when the wallet
\* already holds it, so no issuer grant is broadcast while the role is held.
NeverGrantHeld ==
    \A k \in DOMAIN sentLog : sentLog[k].op = "grantIssuer" => ~sentLog[k].held

\* Spec section 8, the whole sentence: the mint recipe grants the issuer
\* role before minting when it is absent, and never grants it when it is
\* already present.  activity8 breaks both halves: a failed grant is
\* swallowed and the mint sent anyway, and a hasRole call that raises is
\* read as a missing role and a grant is sent for a role already held.
MintRoleSpec == MintHasRole /\ NeverGrantHeld
=============================================================================
