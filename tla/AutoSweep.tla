------------------------------ MODULE AutoSweep ------------------------------
(***************************************************************************)
(* The fixed-catalog sweep of auto.py, run_auto_mode: for each selected    *)
(* wallet in turn, shuffle the activity list and run every entry once,     *)
(* each inside its own try/except.  The create-token entry is special:     *)
(* its result was meant to feed a bonus mint, burn and grant-role on the   *)
(* new token.                                                              *)
(*                                                                         *)
(* The activities themselves are modelled elsewhere (TxPipeline); here an  *)
(* entry other than the create-token one is a call that returns.  The      *)
(* ids 8, 9, 13, 15 and 18 of the skip branches are not in the list.       *)
(***************************************************************************)
EXTENDS Naturals, Sequences, FiniteSets, Functions

CONSTANTS
    Catalog,     \* the ids of the activities list built for each wallet
    CreateId,    \* the id of activity4_create_stablecoin
    MaxWallets   \* the most wallets a selection may name in a model run

ASSUME SweepAssumption ==
    /\ Catalog \subseteq Nat /\ IsFiniteSet(Catalog) /\ CreateId \in Catalog
    /\ MaxWallets \in Nat

None == 0
\* The token activity4 creates for the wallet being swept.
NewToken == 1
\* The orders shuffle_array can return for the list: each entry once.
Shuffles == Injection(1..Cardinality(Catalog), Catalog)
\* The bonus calls on the created token (activities 8, 9 and 13).
BonusActs == {"mint", "burn", "grant"}

VARIABLES
    n,            \* len(test_wallets)
    w,            \* the wallet being swept, from 1
    phase,        \* "shuffle", "run" or "finished"
    order,        \* shuffled, this wallet's execution order
    j,            \* the next entry of order to run
    log,          \* the ids run for this wallet, in order
    createdToken, \* created_token of the loop
    minted,       \* activity4 created a token on chain for this wallet
    bonusCalls    \* the bonus calls made: records [act, token]

vars == <<n, w, phase, order, j, log, createdToken, minted, bonusCalls>>

\* get_private_keys() empty, or a selection that parses to nothing: the
\* mode returns before the loop.
Init ==
    /\ n \in 0..MaxWallets
    /\ w = 1
    /\ phase = IF n = 0 THEN "finished" ELSE "shuffle"
    /\ order = <<>>
    /\ j = 1
    /\ log = <<>>
    /\ createdToken = None
    /\ minted = FALSE
    /\ bonusCalls = {}

-----------------------------------------------------------------------------
(* Mutants.                                                                *)

\* The order drawn with replacement (random.choices for random.shuffle).
ShuffleWithReplacement ==
    /\ phase = "shuffle"
    /\ order' \in [1..Cardinality(Catalog) -> Catalog]
    /\ j' = 1
    /\ log' = <<>>
    /\ createdToken' = None
    /\ minted' = FALSE
    /\ phase' = "run"
    /\ UNCHANGED <<n, w, bonusCalls>>

\* A failing entry is run again instead of being passed over.
RunCreateRetry ==
    /\ phase = "run"
    /\ j <= Len(order)
    /\ order[j] = CreateId
    /\ \E made \in BOOLEAN : minted' = (minted \/ made)
    /\ UNCHANGED <<n, w, phase, order, j, log, createdToken, bonusCalls>>

\* The loop over the wallets runs one index too far.
WalletDoneOffByOne ==
    /\ phase = "run"
    /\ j > Len(order)
    /\ w' = w + 1
    /\ phase' = IF w = n + 1 THEN "finished" ELSE "shuffle"
    /\ UNCHANGED <<n, order, j, log, createdToken, minted, bonusCalls>>

-----------------------------------------------------------------------------
(* The sweep.                                                              *)

\* A wallet's setup: the activities list, shuffle_array (a shuffled copy)
\* and created_token = None.
Shuffle ==
    /\ phase = "shuffle"
    /\ order' \in Shuffles
    /\ j' = 1
    /\ log' = <<>>
    /\ createdToken' = None
    /\ minted' = FALSE
    /\ phase' = "run"
    /\ UNCHANGED <<n, w, bonusCalls>>

\* Any other entry: the skip branches or activity['fn'](); every activity
\* catches its own errors and returns, and the result is only printed.
RunActivity ==
    /\ phase = "run"
    /\ j <= Len(order)
    /\ order[j] # CreateId
    /\ j' = j + 1
    /\ log' = Append(log, order[j])
    /\ UNCHANGED <<n, w, phase, order, createdToken, minted, bonusCalls>>

\* created_token = await activity['fn'](): activity4_create_stablecoin is
\* synchronous, so the call runs to the end (the token may be created on
\* chain) and returns a string or None, and awaiting that raises
\* TypeError.  The except clause prints it; created_token keeps None and
\* neither the if nor the else branch runs.
RunCreate ==
    /\ phase = "run"
    /\ j <= Len(order)
    /\ order[j] = CreateId
    /\ \E made \in BOOLEAN : minted' = made
    /\ j' = j + 1
    /\ log' = Append(log, order[j])
    /\ UNCHANGED <<n, w, phase, order, createdToken, bonusCalls>>

\* The wallet is finished; the next one, after a delay, or the end.
WalletDone ==
    /\ phase = "run"
    /\ j > Len(order)
    /\ w' = w + 1
    /\ phase' = IF w = n THEN "finished" ELSE "shuffle"
    /\ UNCHANGED <<n, order, j, log, createdToken, minted, bonusCalls>>

Next == Shuffle \/ RunActivity \/ RunCreate \/ WalletDone

\* run_auto_mode is one coroutine running the loop to the end.
Spec == Init /\ [][Next]_vars /\ WF_vars(Next)

-----------------------------------------------------------------------------
(* Properties.                                                             *)

TypeOK ==
    /\ n \in 0..MaxWallets
    /\ w \in 1..(MaxWallets + 1)
    /\ phase \in {"shuffle", "run", "finished"}
    /\ order \in Seq(Catalog)
    /\ j \in 1..(Cardinality(Catalog) + 1)
    /\ log \in Seq(Catalog)
    /\ createdToken \in {None, NewToken}
    /\ minted \in BOOLEAN
    /\ bonusCalls \subseteq [act : BonusActs, token : {None, NewToken}]

\* When a wallet's loop ends, every activity of the list has been run for
\* it exactly once: the shuffled copy is a permutation of the list.
EachActivityOnce ==
    phase = "run" /\ j > Len(order) =>
        /\ Len(log) = Cardinality(Catalog)
        /\ Range(log) = Catalog

\* Every selected wallet is swept and the mode finishes: no entry of the
\* loop blocks or repeats.
SweepFinishes ==
    <>(phase = "finished")

\* The comments at "Then immediately mint and burn" and "handled after
\* token creation": a token created for a wallet gets the bonus mint.
BonusAfterCreate ==
    phase = "run" /\ j > Len(order) /\ minted =>
        [act |-> "mint", token |-> NewToken] \in bonusCalls
=============================================================================
