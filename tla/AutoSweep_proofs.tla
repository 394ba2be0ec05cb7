--------------------------- MODULE AutoSweep_proofs ---------------------------
(***************************************************************************)
(* Proofs about the sweep of run_auto_mode, for every catalog and every    *)
(* bound on the wallets.                                                    *)
(*                                                                         *)
(* EachActivityOnce is not inductive: it speaks of the log only at the     *)
(* end of a wallet's loop.  The strengthening says that while a wallet is  *)
(* being swept the order is one shuffle_array can return and the log is   *)
(* exactly the prefix of it run so far; at the end of the loop the log is  *)
(* then the whole order, and an injection from 1..Cardinality(Catalog)     *)
(* into the finite Catalog is onto it.                                      *)
(***************************************************************************)
EXTENDS AutoSweep, FiniteSetTheorems, TLAPS

C == Cardinality(Catalog)

\* While a wallet is swept: its order is a shuffle, and the log is the
\* prefix of the order the loop has passed.
RunInv ==
    phase = "run" =>
        /\ order \in Shuffles
        /\ j \in 1..(Len(order) + 1)
        /\ log = SubSeq(order, 1, j - 1)

\* The wallet index stays within the selection until the loop ends.
WalletInv ==
    phase # "finished" => w \in 1..n

IInv == TypeOK /\ RunInv /\ WalletInv /\ bonusCalls = {}

LEMMA CatalogSize == C \in Nat /\ C >= 1
<1>1. C \in Nat
  BY SweepAssumption, FS_CardinalityType DEF C
<1>2. Catalog # {}
  BY SweepAssumption
<1>3. C # 0
  BY <1>2, SweepAssumption, FS_EmptySet DEF C
<1>. QED
  BY <1>1, <1>3

\* A shuffle is a sequence of Catalog of length Cardinality(Catalog).
LEMMA ShuffleSeq ==
    ASSUME NEW f \in Shuffles
    PROVE  /\ f \in Seq(Catalog)
           /\ Len(f) = C
           /\ DOMAIN f = 1..C
<1>1. f \in [1..C -> Catalog]
  BY DEF Shuffles, Injection, C
<1>. QED
  BY <1>1, CatalogSize

\* A shuffle runs every entry of the list: an injection between sets of
\* the same finite size is onto.
LEMMA ShuffleOnto ==
    ASSUME NEW f \in Shuffles
    PROVE  Range(f) = Catalog
<1>1. f \in Injection(1..C, Catalog)
  BY DEF Shuffles, C
<1>2. Cardinality(1..C) = C
  BY CatalogSize, FS_Interval
<1>3. f \in Surjection(1..C, Catalog)
  BY <1>1, <1>2, SweepAssumption, FS_Injection DEF C
<1>4. f \in [1..C -> Catalog]
  BY <1>1 DEF Injection
<1>. QED
  BY <1>3, <1>4 DEF Surjection, Range

LEMMA InitIInv == Init => IInv
<1> SUFFICES ASSUME Init PROVE IInv
  OBVIOUS
<1>1. TypeOK
  <2>1. n \in 0..MaxWallets /\ w \in 1..(MaxWallets + 1)
    BY SweepAssumption DEF Init
  <2>2. phase \in {"shuffle", "run", "finished"}
    BY DEF Init
  <2>3. order \in Seq(Catalog) /\ log \in Seq(Catalog)
    BY DEF Init
  <2>4. j \in 1..(Cardinality(Catalog) + 1)
    BY CatalogSize DEF Init, C
  <2>5. createdToken \in {None, NewToken} /\ minted \in BOOLEAN
    BY DEF Init
  <2>6. bonusCalls \subseteq [act : BonusActs, token : {None, NewToken}]
    BY DEF Init
  <2>. QED
    BY <2>1, <2>2, <2>3, <2>4, <2>5, <2>6 DEF TypeOK
<1>2. RunInv /\ WalletInv
  BY DEF Init, RunInv, WalletInv
<1>. QED
  BY <1>1, <1>2 DEF Init, IInv

LEMMA IInvStep == IInv /\ [Next]_vars => IInv'
<1> SUFFICES ASSUME IInv, [Next]_vars PROVE IInv'
  OBVIOUS
<1>0. C \in Nat /\ C >= 1
  BY CatalogSize
<1>1. CASE Shuffle
  <2>1. order' \in Shuffles /\ j' = 1 /\ log' = <<>> /\ phase' = "run"
    BY <1>1 DEF Shuffle
  <2>2. order' \in Seq(Catalog) /\ Len(order') = C
    BY <2>1, ShuffleSeq
  <2>3. RunInv'
    BY <2>1, <2>2 DEF RunInv
  <2>4. TypeOK'
    <3>1. UNCHANGED <<n, w, bonusCalls>>
      BY <1>1 DEF Shuffle
    <3>2. /\ n \in 0..MaxWallets /\ w \in 1..(MaxWallets + 1)
          /\ phase \in {"shuffle", "run", "finished"}
          /\ order \in Seq(Catalog) /\ log \in Seq(Catalog)
          /\ j \in 1..(Cardinality(Catalog) + 1)
          /\ createdToken \in {None, NewToken} /\ minted \in BOOLEAN
          /\ bonusCalls \subseteq [act : BonusActs, token : {None, NewToken}]
      BY DEF IInv, TypeOK
    <3>3. createdToken' = None /\ minted' = FALSE
      BY <1>1 DEF Shuffle
    <3>4. j' \in 1..(Cardinality(Catalog) + 1)
      BY <2>1, <1>0 DEF C
    <3>5. bonusCalls' \subseteq [act : BonusActs, token : {None, NewToken}]
      BY <3>1, <3>2
    <3>6. createdToken' \in {None, NewToken} /\ minted' \in BOOLEAN
      BY <3>3
    <3>. QED
      BY <3>1, <3>2, <3>4, <3>5, <3>6, <2>1, <2>2 DEF TypeOK
  <2>5. WalletInv' /\ bonusCalls' = {}
    BY <1>1, <2>1 DEF Shuffle, IInv, WalletInv
  <2>. QED
    BY <2>3, <2>4, <2>5 DEF IInv
<1>2. CASE RunActivity \/ RunCreate
  <2>1. /\ phase = "run" /\ j <= Len(order)
        /\ j' = j + 1 /\ log' = Append(log, order[j])
        /\ UNCHANGED <<n, w, phase, order, createdToken, bonusCalls>>
    BY <1>2 DEF RunActivity, RunCreate
  <2>9. minted' \in BOOLEAN
    <3>1. minted \in BOOLEAN
      BY DEF IInv, TypeOK
    <3>. QED
      BY <1>2, <3>1 DEF RunActivity, RunCreate
  <2>2. /\ order \in Shuffles
        /\ j \in 1..(Len(order) + 1)
        /\ log = SubSeq(order, 1, j - 1)
    BY <2>1 DEF IInv, RunInv
  <2>3. order \in Seq(Catalog) /\ Len(order) = C
    BY <2>2, ShuffleSeq
  <2>4. log' = SubSeq(order', 1, j' - 1)
    <3>1. j \in 1..Len(order) /\ log' = Append(SubSeq(order, 1, j - 1), order[j])
      BY <2>1, <2>2
    <3>2. Append(SubSeq(order, 1, j - 1), order[j]) = SubSeq(order, 1, j)
      BY <3>1, <2>3
    <3>. QED
      BY <3>1, <3>2, <2>1
  <2>5. RunInv'
    BY <2>1, <2>2, <2>4 DEF RunInv
  <2>6. order[j] \in Catalog
    BY <2>1, <2>2, <2>3
  <2>7. TypeOK'
    BY <2>1, <2>2, <2>3, <2>6, <2>9, <1>0 DEF IInv, TypeOK, C
  <2>8. WalletInv' /\ bonusCalls' = {}
    BY <2>1 DEF IInv, WalletInv
  <2>. QED
    BY <2>5, <2>7, <2>8 DEF IInv
<1>3. CASE WalletDone
  <2>1. /\ phase = "run" /\ w' = w + 1
        /\ phase' = IF w = n THEN "finished" ELSE "shuffle"
        /\ UNCHANGED <<n, order, j, log, createdToken, minted, bonusCalls>>
    BY <1>3 DEF WalletDone
  <2>2. w \in 1..n /\ n \in 0..MaxWallets
    BY <2>1 DEF IInv, WalletInv, TypeOK
  <2>3. WalletInv'
    BY <2>1, <2>2 DEF WalletInv
  <2>4. RunInv'
    BY <2>1 DEF RunInv
  <2>5. TypeOK'
    <3>1. UNCHANGED <<n, order, j, log, createdToken, minted, bonusCalls>>
      BY <2>1
    <3>2. /\ n \in 0..MaxWallets /\ w \in 1..(MaxWallets + 1)
          /\ phase \in {"shuffle", "run", "finished"}
          /\ order \in Seq(Catalog) /\ log \in Seq(Catalog)
          /\ j \in 1..(Cardinality(Catalog) + 1)
          /\ createdToken \in {None, NewToken} /\ minted \in BOOLEAN
          /\ bonusCalls \subseteq [act : BonusActs, token : {None, NewToken}]
      BY DEF IInv, TypeOK
    <3>3. w' \in 1..(MaxWallets + 1) /\ phase' \in {"shuffle", "run", "finished"}
      BY <2>1, <2>2, SweepAssumption
    <3>5. bonusCalls' \subseteq [act : BonusActs, token : {None, NewToken}]
      BY <3>1, <3>2
    <3>6. createdToken' \in {None, NewToken} /\ minted' \in BOOLEAN
      BY <3>1, <3>2
    <3>7. /\ n' \in 0..MaxWallets /\ order' \in Seq(Catalog) /\ log' \in Seq(Catalog)
          /\ j' \in 1..(Cardinality(Catalog) + 1)
      BY <3>1, <3>2
    <3>. QED
      BY <3>3, <3>5, <3>6, <3>7 DEF TypeOK
  <2>. QED
    BY <2>1, <2>3, <2>4, <2>5 DEF IInv
<1>4. CASE UNCHANGED vars
  BY <1>4 DEF vars, IInv, TypeOK, RunInv, WalletInv
<1>. QED
  BY <1>1, <1>2, <1>3, <1>4 DEF Next

\* Each wallet's sweep runs every activity of the list exactly once: the
\* loop over shuffle_array's copy is checked on four entries by TLC and
\* proved here for every list.
THEOREM EachActivityOnceThm == Spec => []EachActivityOnce
<1>1. IInv => EachActivityOnce
  <2> SUFFICES ASSUME IInv, phase = "run", j > Len(order)
               PROVE  Len(log) = C /\ Range(log) = Catalog
    BY DEF EachActivityOnce, C
  <2>1. /\ order \in Shuffles
        /\ j \in 1..(Len(order) + 1)
        /\ log = SubSeq(order, 1, j - 1)
    BY DEF IInv, RunInv
  <2>2. order \in Seq(Catalog) /\ Len(order) = C
    BY <2>1, ShuffleSeq
  <2>3. log = order
    BY <2>1, <2>2
  <2>. QED
    BY <2>2, <2>3, <2>1, ShuffleOnto
<1>. QED
  BY <1>1, InitIInv, IInvStep, PTL DEF Spec

\* The sweep's state keeps its types for every catalog and bound.
THEOREM TypeCorrect == Spec => []TypeOK
<1>1. IInv => TypeOK
  BY DEF IInv
<1>. QED
  BY <1>1, InitIInv, IInvStep, PTL DEF Spec
=============================================================================
