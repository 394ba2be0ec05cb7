--------------------------- MODULE Liquidity_proofs ---------------------------
(***************************************************************************)
(* Proofs about Liquidity for every set of pairs, every set of LP          *)
(* balances and every minimum withdrawal.                                  *)
(***************************************************************************)
EXTENDS Liquidity, TLAPS

\* What the scan and the selection have established: a pair is kept with
\* its true, positive balance, and a pair about to be burned from has a
\* clamped amount between the minimum and its position.
IInv ==
    /\ TypeOK
    /\ \A e \in withBal : e.lp = lp[e.pair] /\ e.lp > 0
    /\ phase = "send" => /\ pick \in withBal
                         /\ MinWithdraw <= amount /\ amount <= pick.lp
    /\ WithdrawWithinPosition

-----------------------------------------------------------------------------
USE LiquidityAssumption

\* The truncated float share of a balance is a natural number.
LEMMA FloatShareNat ==
    ASSUME NEW b \in Nat, NEW pc \in Percents
    PROVE  FloatShare(b, pc) \subseteq Nat
BY DEF FloatShare, Percents

\* The two clamps put any share of a position of at least the minimum
\* between the minimum and the position.
LEMMA ClampBounds ==
    ASSUME NEW x \in Nat, NEW b \in Nat, MinWithdraw <= b
    PROVE  /\ Clamp(x, b) \in Nat
           /\ MinWithdraw <= Clamp(x, b)
           /\ Clamp(x, b) <= b
BY DEF Clamp

LEMMA InitIInv == Init => IInv
BY DEF Init, IInv, TypeOK, NoPick, WithdrawWithinPosition

\* Every step of the recipe keeps the invariant.
LEMMA IInvStep == IInv /\ [Next]_vars => IInv'
<1> SUFFICES ASSUME IInv, [Next]_vars PROVE IInv'
  OBVIOUS
<1> USE DEF IInv, TypeOK, WithdrawWithinPosition
<1>1. CASE ScanPair
  BY <1>1 DEF ScanPair
<1>2. CASE ScanDone
  BY <1>2 DEF ScanDone
<1>3. CASE Select
  <2>1. CASE withBal = {} /\ phase' = "done" /\ result' = "skipped"
             /\ UNCHANGED <<pick, amount>>
    BY <1>3, <2>1 DEF Select
  <2>2. ASSUME NEW e \in withBal, pick' = e,
               e.lp < MinWithdraw, phase' = "done", result' = "skipped",
               UNCHANGED amount
        PROVE  IInv'
    BY <1>3, <2>2 DEF Select
  <2>3. ASSUME NEW e \in withBal, pick' = e, e.lp >= MinWithdraw,
               NEW pc \in Percents, NEW x \in FloatShare(e.lp, pc),
               amount' = Clamp(x, e.lp), phase' = "send", UNCHANGED result
        PROVE  IInv'
    <3>1. e.lp \in Nat /\ x \in Nat
      BY <2>3, FloatShareNat
    <3>2. amount' \in Nat /\ MinWithdraw <= amount' /\ amount' <= e.lp
      BY <2>3, <3>1, ClampBounds
    <3>3. QED
      BY <1>3, <2>3, <3>2 DEF Select
  <2>4. QED
    BY <1>3, <2>1, <2>2, <2>3 DEF Select
<1>4. CASE Send
  <2>1. pick.pair \in Pairs /\ lp[pick.pair] = pick.lp /\ pick.lp > 0
    BY <1>4 DEF Send
  <2>2. QED
    BY <1>4, <2>1 DEF Send
<1>5. CASE Wait
  BY <1>5 DEF Wait
<1>6. CASE UNCHANGED vars
  BY <1>6 DEF vars
<1>7. QED
  BY <1>1, <1>2, <1>3, <1>4, <1>5, <1>6 DEF Next

\* Spec section 8: for every configuration the recipe only burns from a
\* pair with a position, and only between the minimum and the whole
\* position, whatever share and float rounding were drawn.
THEOREM WithdrawSafe == Spec => []WithdrawWithinPosition
<1>1. IInv => WithdrawWithinPosition
  BY DEF IInv
<1>2. QED
  BY <1>1, InitIInv, IInvStep, PTL DEF Spec

\* Type correctness of the remove-liquidity recipe.
THEOREM TypeCorrect == Spec => []TypeOK
<1>1. IInv => TypeOK
  BY DEF IInv
<1>2. QED
  BY <1>1, InitIInv, IInvStep, PTL DEF Spec
=============================================================================
