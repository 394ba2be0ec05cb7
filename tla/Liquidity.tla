------------------------------ MODULE Liquidity ------------------------------
(***************************************************************************)
(* activity12_remove_liquidity: scan every pair of configured tokens for   *)
(* the wallet's LP balance, pick one pair with a position at random and    *)
(* burn a random 20-50% of it, at least the minimum and at most the whole  *)
(* position.                                                               *)
(*                                                                         *)
(* The scan is one action per pair; a getPoolId or liquidityBalances call  *)
(* that raises skips the pair.  Amounts are integers in LP base units.     *)
(***************************************************************************)
EXTENDS Naturals, FiniteSets

CONSTANTS
    Pairs,        \* the pairs (i, j), i < j, of the configured token names
    LpValues,     \* LP balances a position may have
    MinWithdraw   \* min_withdraw, int(0.1 * 10**6)

ASSUME LiquidityAssumption ==
    /\ IsFiniteSet(Pairs)
    /\ LpValues \subseteq Nat
    /\ MinWithdraw \in Nat \ {0}

Percents == 20..50

VARIABLES
    lp,         \* liquidityBalances(pool_id, wallet) of each pair
    toScan,     \* the pairs the scan has still to read
    withBal,    \* pools_with_balance: the pairs read with their balance
    phase,      \* "scan", "select", "send", "wait" or "done"
    pick,       \* selected_pool
    amount,     \* withdraw_amount
    burned,     \* the burn calls broadcast: records [pair, amount, lp]
    result      \* what the recipe returned

vars == <<lp, toScan, withBal, phase, pick, amount, burned, result>>

\* selected_pool before a pool is selected.
NoPick == [pair |-> "none", lp |-> 0]

Init ==
    /\ lp \in [Pairs -> LpValues]
    /\ toScan = Pairs
    /\ withBal = {}
    /\ phase = "scan"
    /\ pick = NoPick
    /\ amount = 0
    /\ burned = {}
    /\ result = "none"

\* int(lp_balance * withdraw_percent) with withdraw_percent the float
\* randint(20, 50) / 100: the product of the inexact float and the balance
\* may fall just below an integer it should equal, and int() truncates.
FloatShare(b, pc) ==
    LET exact == (b * pc) \div 100
    IN  IF (b * pc) % 100 = 0 /\ exact > 0 THEN {exact, exact - 1} ELSE {exact}

\* max(withdraw_amount, min_withdraw), then min(..., lp_balance).
Clamp(x, b) ==
    LET up == IF x > MinWithdraw THEN x ELSE MinWithdraw
    IN  IF up < b THEN up ELSE b

-----------------------------------------------------------------------------
(* Mutants.                                                                *)

\* The low-balance skip dropped.
SelectNoMinCheck ==
    /\ phase = "select"
    /\ \/ withBal = {} /\ phase' = "done" /\ result' = "skipped"
                       /\ UNCHANGED <<pick, amount>>
       \/ \E e \in withBal, pc \in Percents :
            \E x \in FloatShare(e.lp, pc) :
               /\ pick' = e
               /\ amount' = Clamp(x, e.lp)
               /\ phase' = "send"
               /\ UNCHANGED result
    /\ UNCHANGED <<lp, toScan, withBal, burned>>

\* random.choice over every pair rather than over pools_with_balance.
SelectAnyPair ==
    /\ phase = "select"
    /\ \/ withBal = {} /\ phase' = "done" /\ result' = "skipped"
                       /\ UNCHANGED <<pick, amount>>
       \/ \E p \in Pairs :
            LET e == [pair |-> p, lp |-> lp[p]] IN
            /\ pick' = e
            /\ \/ /\ e.lp < MinWithdraw
                  /\ phase' = "done" /\ result' = "skipped"
                  /\ UNCHANGED amount
               \/ /\ e.lp >= MinWithdraw
                  /\ \E pc \in Percents :
                       \E x \in FloatShare(e.lp, pc) : amount' = Clamp(x, e.lp)
                  /\ phase' = "send"
                  /\ UNCHANGED result
    /\ UNCHANGED <<lp, toScan, withBal, burned>>

\* A failed burn goes back to the selection for another try.
SendRetry ==
    /\ phase = "send"
    /\ \/ /\ burned' = burned \cup {[pair |-> pick.pair, amount |-> amount, lp |-> lp[pick.pair]]}
          /\ phase' = "wait"
          /\ UNCHANGED result
       \/ phase' = "select" /\ UNCHANGED <<result, burned>>
    /\ UNCHANGED <<lp, toScan, withBal, pick, amount>>

-----------------------------------------------------------------------------
(* The recipe.                                                             *)

\* One pair of the nested loop: its balance is read and the pair kept if
\* the balance is positive; a call that raises continues the loop.
ScanPair ==
    /\ phase = "scan"
    /\ \E p \in toScan :
         /\ toScan' = toScan \ {p}
         /\ \/ lp[p] > 0 /\ withBal' = withBal \cup {[pair |-> p, lp |-> lp[p]]}
            \/ UNCHANGED withBal
    /\ UNCHANGED <<lp, phase, pick, amount, burned, result>>

ScanDone ==
    /\ phase = "scan"
    /\ toScan = {}
    /\ phase' = "select"
    /\ UNCHANGED <<lp, toScan, withBal, pick, amount, burned, result>>

\* "skipped: no lp" when nothing was found; else random.choice, the
\* low-balance skip, the random share and the clamp.
Select ==
    /\ phase = "select"
    /\ \/ withBal = {} /\ phase' = "done" /\ result' = "skipped"
                       /\ UNCHANGED <<pick, amount>>
       \/ \E e \in withBal :
            /\ pick' = e
            /\ \/ /\ e.lp < MinWithdraw
                  /\ phase' = "done" /\ result' = "skipped"
                  /\ UNCHANGED amount
               \/ /\ e.lp >= MinWithdraw
                  /\ \E pc \in Percents :
                       \E x \in FloatShare(e.lp, pc) : amount' = Clamp(x, e.lp)
                  /\ phase' = "send"
                  /\ UNCHANGED result
    /\ UNCHANGED <<lp, toScan, withBal, burned>>

\* fee_manager.burn(token1, token2, withdraw_amount, wallet) built, signed
\* and broadcast, then waited for; an exception anywhere returns None.
Send ==
    /\ phase = "send"
    /\ \/ /\ burned' = burned \cup {[pair |-> pick.pair, amount |-> amount, lp |-> lp[pick.pair]]}
          /\ phase' = "wait"
          /\ UNCHANGED result
       \/ phase' = "done" /\ result' = "none" /\ UNCHANGED burned
    /\ UNCHANGED <<lp, toScan, withBal, pick, amount>>

\* sync_wait_for_tx_with_retry returns (the hash is returned) or raises.
Wait ==
    /\ phase = "wait"
    /\ phase' = "done"
    /\ result' \in {"ok", "none"}
    /\ UNCHANGED <<lp, toScan, withBal, pick, amount, burned>>

Next == ScanPair \/ ScanDone \/ Select \/ Send \/ Wait

Spec == Init /\ [][Next]_vars /\ WF_vars(Next)

-----------------------------------------------------------------------------
(* Properties.                                                             *)

TypeOK ==
    /\ lp \in [Pairs -> LpValues]
    /\ toScan \subseteq Pairs
    /\ withBal \subseteq [pair : Pairs, lp : LpValues]
    /\ phase \in {"scan", "select", "send", "wait", "done"}
    /\ pick \in withBal \cup {NoPick}
    /\ amount \in Nat
    /\ burned \subseteq [pair : Pairs, amount : Nat, lp : LpValues]
    /\ result \in {"ok", "none", "skipped"}

\* Spec section 8: the recipe never burns from a pair whose position is
\* zero, and the amount withdrawn lies between the minimum and the whole
\* position, whatever share and float rounding were drawn.
WithdrawWithinPosition ==
    \A c \in burned :
        /\ c.lp > 0
        /\ MinWithdraw <= c.amount
        /\ c.amount <= c.lp

\* The recipe returns.
RemoveReturns ==
    <>(phase = "done")
=============================================================================
