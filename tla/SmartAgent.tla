----------------------------- MODULE SmartAgent -----------------------------
(***************************************************************************)
(* The adaptive agent of smart.py: one SmartWallet whose loop calls        *)
(* decide_next_action and then runs the activity it returns.               *)
(*                                                                         *)
(* decide_next_action refreshes the balance snapshot (update_balances) and *)
(* walks an ordered list of rules, each a predicate over the snapshot or   *)
(* the created-token history gated by a random draw; the first rule that   *)
(* holds is taken, else one of six fallback activities.  Balances are      *)
(* abstracted to levels on both sides of the thresholds the rules test;    *)
(* the random draws are free choices.  The effect of an activity on the    *)
(* balances is not modelled beyond the faucet's: any balances may follow.  *)
(***************************************************************************)
EXTENDS Naturals, Sequences, FiniteSets

CONSTANTS
    EthLevels,   \* native balances, in whole units
    PathLevels,  \* PathUSD balances, in whole tokens
    PeerLevels,  \* AlphaUSD and BetaUSD balances
    MaxCreated   \* tokens the wallet may create in one model run

\* A set of levels has a top one, the level a faucet claim funds to.
HasTop(S) == \E m \in S : \A y \in S : y <= m

ASSUME LevelsAssumption ==
    /\ EthLevels \subseteq Nat /\ HasTop(EthLevels)
    /\ PathLevels \subseteq Nat /\ HasTop(PathLevels)
    /\ PeerLevels \subseteq Nat /\ HasTop(PeerLevels)
    /\ MaxCreated \in Nat

VARIABLES
    chain,    \* the wallet's balances on chain
    bal,      \* self.balances, the snapshot decide_next_action reads
    phase,    \* "decide": the loop is about to call decide_next_action
    chosen,   \* the activity decide_next_action returned
    target,   \* the own token a mint or burn was chosen for
    created,  \* self.history['created_tokens']
    store,    \* load_created_tokens()[address], the persisted record
    nextTok,  \* the token the next successful create returns
    cause     \* why the last activity ended as it did (not seen by the code)

vars == <<chain, bal, phase, chosen, target, created, store, nextTok, cause>>

\* The order update_balances reads the balances in.
ReadOrder == <<"ETH", "PathUSD", "AlphaUSD", "BetaUSD", "ThetaUSD">>
Syms == {ReadOrder[i] : i \in 1..Len(ReadOrder)}
\* The balances the rules look at.
DecisionSyms == {"ETH", "PathUSD", "AlphaUSD", "BetaUSD"}
\* No rule reads ThetaUSD: its balance is kept at one value.
Balances ==
    [ETH : EthLevels, PathUSD : PathLevels, AlphaUSD : PeerLevels,
     BetaUSD : PeerLevels, ThetaUSD : {0}]

MaxOf(S) == CHOOSE x \in S : \A y \in S : y <= x
\* The faucet sends 1,000,000 of each token: every balance is at its top.
Funded ==
    [ETH |-> MaxOf(EthLevels), PathUSD |-> MaxOf(PathLevels),
     AlphaUSD |-> MaxOf(PeerLevels), BetaUSD |-> MaxOf(PeerLevels),
     ThetaUSD |-> 0]

\* A token created in an earlier session is recorded under token 0.
Tokens == 0..MaxCreated

Rules == <<"faucet", "create", "swap", "infinity", "liquidity", "tip403",
           "analytics", "ownToken">>
Fallback == {"deploy", "nft", "sendDust", "limitOrder", "retriever", "batch"}
Acts ==
    {"faucet", "create", "swap", "infinity", "liquidity", "tip403",
     "analytics", "mint", "burn"} \cup Fallback
Causes == {"ok", "insufficientFunds", "other"}

\* self.should_recover_faucet: set False in __init__ and by the recovery
\* branch, and set True nowhere, so the recovery branch is never taken.
ShouldRecoverFaucet == FALSE

-----------------------------------------------------------------------------
(* update_balances.                                                        *)

\* The reads before the k-th succeed; the k-th raises unless k exceeds the
\* list.  The except clause leaves what was read, keeps the stale rest and
\* sets ETH to 0.

\* Mutant: the except clause sets nothing.
RefreshNoReset(k) ==
    [s \in Syms |-> IF \E i \in 1..k : ReadOrder[i] = s THEN chain[s] ELSE bal[s]]

Refresh(k) ==
    LET read == [s \in Syms |->
                   IF \E i \in 1..k : ReadOrder[i] = s THEN chain[s] ELSE bal[s]]
    IN  IF k = Len(ReadOrder) THEN read ELSE [read EXCEPT !["ETH"] = 0]

-----------------------------------------------------------------------------
(* decide_next_action.                                                     *)

\* The predicate of each rule over the snapshot b and the history, without
\* its random draw.
Cond(b) ==
    [faucet    |-> b.ETH < 2,
     create    |-> TRUE,
     swap      |-> b.PathUSD > 10 /\ (b.AlphaUSD < 5 \/ b.BetaUSD < 5),
     infinity  |-> b.PathUSD > 1000,
     liquidity |-> b.PathUSD > 5 /\ b.AlphaUSD > 5,
     tip403    |-> store # {},
     analytics |-> TRUE,
     ownToken  |-> created # {}]

\* The rules behind a random.random() draw; the others fire whenever their
\* predicate holds.
Gated == {"create", "infinity", "liquidity", "tip403", "analytics", "ownToken"}

\* Rule r holds and no draw can pass it over.
Forced(b, r) == Cond(b)[r] /\ r \notin Gated

\* Rule i can be the one returned: its predicate holds (and its draw
\* succeeds) and no earlier rule was forced.
Takable(b, i) ==
    /\ Cond(b)[Rules[i]]
    /\ \A j \in 1..(i - 1) : ~Forced(b, Rules[j])

\* The activities of a rule; the own-token rule mints or burns.
RuleActs(r) == IF r = "ownToken" THEN {"mint", "burn"} ELSE {r}

RuleChoices(b) == UNION {RuleActs(Rules[i]) : i \in {i \in 1..Len(Rules) : Takable(b, i)}}

\* The fallback is reached when every draw fails and no rule is forced.
FallbackReachable(b) == \A i \in 1..Len(Rules) : ~Forced(b, Rules[i])

\* Mutant: with no rule taken, nothing is returned and the loop asks again.
DecideNoFallback ==
    /\ phase = "decide"
    /\ \E k \in 0..Len(ReadOrder) :
         LET b == Refresh(k)
         IN  /\ bal' = b
             /\ \/ chosen' \in RuleChoices(b) /\ phase' = "execute"
                \/ FallbackReachable(b) /\ UNCHANGED <<chosen, phase>>
    /\ IF chosen' \in {"mint", "burn"} THEN target' \in created ELSE target' = 0
    /\ UNCHANGED <<chain, created, store, nextTok, cause>>

\* One call: refresh, then the first rule whose predicate and draw hold,
\* else a uniform pick from the fallback options; a mint or burn takes a
\* random own token.
Decide ==
    /\ phase = "decide"
    /\ ~ShouldRecoverFaucet
    /\ \E k \in 0..Len(ReadOrder) :
         LET b == Refresh(k)
         IN  /\ bal' = b
             /\ \/ chosen' \in RuleChoices(b)
                \/ FallbackReachable(b) /\ chosen' \in Fallback
    /\ IF chosen' \in {"mint", "burn"} THEN target' \in created ELSE target' = 0
    /\ phase' = "execute"
    /\ UNCHANGED <<chain, created, store, nextTok, cause>>

-----------------------------------------------------------------------------
(* Running the chosen activity.                                            *)

\* _wrap_create_token: activity4_create_stablecoin returns the address
\* parsed from the TokenCreated log, or None; an address is appended to
\* the history and saved to the persisted record.
CreateToken ==
    \/ /\ nextTok <= MaxCreated
       /\ created' = created \cup {nextTok}
       /\ store' = store \cup {nextTok}
       /\ nextTok' = nextTok + 1
       /\ cause' = "ok"
    \/ /\ cause' \in Causes \ {"ok"}
       /\ UNCHANGED <<created, store, nextTok>>

\* The activity runs and the loop comes back to decide.  Every activity
\* returns None on any error, whatever its cause.
Execute ==
    /\ phase = "execute"
    /\ \/ /\ chosen = "faucet"
          /\ \/ chain' = Funded /\ cause' = "ok"
             \/ UNCHANGED chain /\ cause' \in Causes \ {"ok"}
          /\ UNCHANGED <<created, store, nextTok>>
       \/ /\ chosen = "create"
          /\ chain' \in Balances
          /\ CreateToken
       \/ /\ chosen \notin {"faucet", "create"}
          /\ chain' \in Balances
          /\ cause' \in Causes
          /\ UNCHANGED <<created, store, nextTok>>
    /\ phase' = "decide"
    /\ UNCHANGED <<bal, chosen, target>>

-----------------------------------------------------------------------------
\* SmartWallet.__init__: empty balances (every get defaults to 0), empty
\* history; the persisted record may hold a token of an earlier session.
Init ==
    /\ chain \in Balances
    /\ bal = [s \in Syms |-> 0]
    /\ phase = "decide"
    /\ chosen = "analytics"
    /\ target = 0
    /\ created = {}
    /\ store \in {{}, {0}}
    /\ nextTok = 1
    /\ cause = "ok"

Next == Decide \/ Execute

\* The loop is one thread that decides, runs the activity, sleeps a
\* bounded delay and decides again.
Spec == Init /\ [][Next]_vars /\ WF_vars(Decide) /\ WF_vars(Execute)

-----------------------------------------------------------------------------
(* Properties.                                                             *)

TypeOK ==
    /\ chain \in Balances
    /\ bal \in [Syms -> Nat]
    /\ phase \in {"decide", "execute"}
    /\ chosen \in Acts
    /\ target \in Tokens
    /\ created \subseteq 1..MaxCreated
    /\ store \subseteq Tokens
    /\ nextTok \in 1..(MaxCreated + 1)
    /\ cause \in Causes

\* Whatever the agent chooses, other than the faucet, is chosen on the
\* balances the chain holds: a balance read that raises part-way through
\* update_balances leaves stale entries, but also sets ETH to 0, which
\* makes the faucet rule, the first one, take the decision.
FreshDecision ==
    phase = "execute" /\ chosen # "faucet" =>
        \A s \in DecisionSyms : bal[s] = chain[s]

\* Every cycle ends in exactly one activity attempt (spec section 4.4):
\* decide_next_action always returns an activity.
CycleAttempts ==
    phase = "decide" ~> phase = "execute"

\* Spec section 4.4, step 1: after an activity failed for insufficient
\* funds, the next decision is the faucet claim.
RecoveryFirst ==
    [][phase = "decide" /\ phase' = "execute" /\ cause = "insufficientFunds"
         => chosen' = "faucet"]_vars
=============================================================================
