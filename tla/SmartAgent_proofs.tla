-------------------------- MODULE SmartAgent_proofs --------------------------
(***************************************************************************)
(* Proofs about SmartAgent for every set of balance levels and every bound *)
(* on created tokens.                                                      *)
(***************************************************************************)
EXTENDS SmartAgent, TLAPS

\* The type invariant and the fresh-decision invariant are inductive
\* together: Decide does not touch the chain, Execute returns to decide.
Inv == TypeOK /\ FreshDecision

-----------------------------------------------------------------------------
USE LevelsAssumption

LEMMA SymsIs == Syms = {"ETH", "PathUSD", "AlphaUSD", "BetaUSD", "ThetaUSD"}
BY DEF Syms, ReadOrder

\* The top of a set of levels is one of its levels.
LEMMA MaxOfIn ==
    ASSUME NEW S, HasTop(S)
    PROVE  MaxOf(S) \in S
BY DEF HasTop, MaxOf

LEMMA FundedType == Funded \in Balances
BY MaxOfIn DEF Funded, Balances

\* A balance snapshot is a natural-valued function on the symbols.
LEMMA BalancesNat ==
    ASSUME NEW b \in Balances
    PROVE  b \in [Syms -> Nat]
<1>1. DOMAIN b = Syms
  BY SymsIs DEF Balances
<1>2. /\ b.ETH \in Nat /\ b.PathUSD \in Nat /\ b.AlphaUSD \in Nat
      /\ b.BetaUSD \in Nat /\ b.ThetaUSD \in Nat
  <2>1. b.ETH \in EthLevels /\ b.PathUSD \in PathLevels
    BY DEF Balances
  <2>2. b.AlphaUSD \in PeerLevels /\ b.BetaUSD \in PeerLevels
    BY DEF Balances
  <2>3. b.ThetaUSD = 0
    BY DEF Balances
  <2>4. b.ETH \in Nat /\ b.PathUSD \in Nat
    BY <2>1
  <2>5. b.AlphaUSD \in Nat /\ b.BetaUSD \in Nat
    BY <2>2
  <2>6. QED
    BY <2>3, <2>4, <2>5
<1>3. \A s \in Syms : b[s] \in Nat
  BY <1>2, SymsIs
<1>4. b = [s \in Syms |-> b[s]]
  BY <1>1, SymsIs DEF Balances
<1>5. QED
  BY <1>3, <1>4, Zenon

\* update_balances, raising at the k-th read or not at all, leaves a
\* snapshot of naturals.
LEMMA RefreshType ==
    ASSUME bal \in [Syms -> Nat], chain \in Balances, NEW k \in 0..Len(ReadOrder)
    PROVE  Refresh(k) \in [Syms -> Nat]
<1>1. chain \in [Syms -> Nat]
  BY BalancesNat
<1>2. QED
  BY <1>1 DEF Refresh

\* When no read raises, the snapshot is the chain's balances.
LEMMA RefreshFull ==
    ASSUME NEW s \in Syms
    PROVE  Refresh(Len(ReadOrder))[s] = chain[s]
<1>1. \E i \in 1..Len(ReadOrder) : ReadOrder[i] = s
  BY SymsIs DEF ReadOrder
<1>2. QED
  BY <1>1 DEF Refresh

\* When a read raises, the except clause leaves ETH at 0.
LEMMA RefreshRaised ==
    ASSUME NEW k \in 0..(Len(ReadOrder) - 1)
    PROVE  Refresh(k)["ETH"] = 0
<1>1. "ETH" \in Syms
  BY SymsIs
<1>2. QED
  BY <1>1 DEF Refresh, ReadOrder

\* A native balance below 2 forces the faucet rule, the first one: it is
\* the only choice and the fallback is not reached.
LEMMA FaucetFirst ==
    ASSUME NEW b, b.ETH < 2
    PROVE  RuleChoices(b) = {"faucet"} /\ ~FallbackReachable(b)
<1>0. Rules[1] = "faucet" /\ Cond(b)["faucet"] = (b.ETH < 2)
  BY DEF Rules, Cond
<1>1. Forced(b, Rules[1])
  BY <1>0 DEF Forced, Gated
<1>2. {i \in 1..Len(Rules) : Takable(b, i)} = {1}
  <2>1. Takable(b, 1)
    <3>1. Cond(b)[Rules[1]]
      BY <1>0
    <3>2. \A j \in 1..(1 - 1) : ~Forced(b, Rules[j])
      OBVIOUS
    <3>3. QED
      BY <3>1, <3>2, Zenon DEF Takable
  <2>2. \A i \in 2..Len(Rules) : ~Takable(b, i)
    BY <1>1 DEF Takable, Rules
  <2>3. QED
    BY <2>1, <2>2 DEF Rules
<1>3. QED
  BY <1>1, <1>2 DEF RuleChoices, RuleActs, Rules, FallbackReachable

\* Every rule returns an activity of the catalog.
LEMMA ChoicesActs ==
    ASSUME NEW b
    PROVE  RuleChoices(b) \subseteq Acts
BY DEF RuleChoices, RuleActs, Rules, Acts

-----------------------------------------------------------------------------
LEMMA InitInv == Init => Inv
<1> SUFFICES ASSUME Init PROVE Inv
  OBVIOUS
<1>1. bal \in [Syms -> Nat]
  BY DEF Init
<1>2. QED
  BY <1>1 DEF Init, Inv, TypeOK, FreshDecision, Acts, Tokens, Causes

LEMMA DecideInv ==
    ASSUME Inv, Decide
    PROVE  Inv'
<1> USE DEF Inv, TypeOK
<1>1. PICK k \in 0..Len(ReadOrder) :
        /\ bal' = Refresh(k)
        /\ \/ chosen' \in RuleChoices(Refresh(k))
           \/ FallbackReachable(Refresh(k)) /\ chosen' \in Fallback
  BY DEF Decide
<1>2. /\ phase' = "execute"
      /\ IF chosen' \in {"mint", "burn"} THEN target' \in created ELSE target' = 0
      /\ UNCHANGED <<chain, created, store, nextTok, cause>>
  BY DEF Decide
<1>3. TypeOK'
  <2>1. bal' \in [Syms -> Nat]
    BY <1>1, RefreshType
  <2>2. chosen' \in Acts
    BY <1>1, ChoicesActs DEF Acts, Fallback
  <2>3. target' \in Tokens
    <3>1. CASE chosen' \in {"mint", "burn"}
      <4>1. target' \in created
        BY <1>2, <3>1
      <4>2. QED
        BY <4>1 DEF Tokens
    <3>2. CASE chosen' \notin {"mint", "burn"}
      BY <1>2, <3>2 DEF Tokens
    <3>3. QED
      BY <3>1, <3>2
  <2>4. QED
    BY <1>2, <2>1, <2>2, <2>3
<1>4. FreshDecision'
  <2>1. CASE k < Len(ReadOrder)
    <3>1. Refresh(k).ETH < 2
      BY <2>1, RefreshRaised DEF ReadOrder
    <3>2. chosen' = "faucet"
      BY <1>1, <3>1, FaucetFirst
    <3>3. QED
      BY <3>2 DEF FreshDecision
  <2>2. CASE k = Len(ReadOrder)
    <3>1. \A s \in DecisionSyms : bal'[s] = chain'[s]
      BY <1>1, <1>2, <2>2, RefreshFull, SymsIs DEF DecisionSyms
    <3>2. QED
      BY <3>1 DEF FreshDecision
  <2>3. QED
    BY <2>1, <2>2
<1>5. QED
  BY <1>3, <1>4

LEMMA ExecuteInv ==
    ASSUME Inv, Execute
    PROVE  Inv'
<1> USE DEF Inv, TypeOK
<1>1. phase' = "decide" /\ UNCHANGED <<bal, chosen, target>>
  BY DEF Execute
<1>2. chain' \in Balances /\ cause' \in Causes
  BY FundedType DEF Execute, CreateToken, Causes
<1>3. /\ created' \subseteq 1..MaxCreated
      /\ store' \subseteq Tokens
      /\ nextTok' \in 1..(MaxCreated + 1)
  <2>1. CASE UNCHANGED <<created, store, nextTok>>
    BY <2>1
  <2>2. CASE /\ nextTok <= MaxCreated
             /\ created' = created \cup {nextTok}
             /\ store' = store \cup {nextTok}
             /\ nextTok' = nextTok + 1
    BY <2>2 DEF Tokens
  <2>3. QED
    BY <2>1, <2>2 DEF Execute, CreateToken
<1>4. QED
  BY <1>1, <1>2, <1>3 DEF FreshDecision

LEMMA InvStep == Inv /\ [Next]_vars => Inv'
BY DecideInv, ExecuteInv DEF Next, vars, Inv, TypeOK, FreshDecision

\* For every set of levels and every bound, the agent's state keeps its
\* types: the snapshot, the choice, the own-token target and the history.
THEOREM TypeCorrect == Spec => []TypeOK
<1>1. Inv => TypeOK
  BY DEF Inv
<1>2. QED
  BY <1>1, InitInv, InvStep, PTL DEF Spec

\* For every set of levels: a choice other than the faucet claim is made on
\* the balances the chain holds, even when update_balances raised part-way
\* and kept stale entries, since its except clause then zeroes ETH.
THEOREM FreshDecisionThm == Spec => []FreshDecision
<1>1. Inv => FreshDecision
  BY DEF Inv
<1>2. QED
  BY <1>1, InitInv, InvStep, PTL DEF Spec
=============================================================================
