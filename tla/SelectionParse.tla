---------------------------- MODULE SelectionParse ----------------------------
(***************************************************************************)
(* What parse_wallet_selection and the 'all' branch of run_auto_mode       *)
(* promise, stated without the loop: in one step, the selection either     *)
(* raises, when one of its parts is a malformed range, or returns the      *)
(* sorted zero-based indices of every wallet it names.                     *)
(***************************************************************************)
EXTENDS SelectionParts

VARIABLES
    keys,      \* len(private_keys)
    typedAll,  \* the selection typed was 'all'
    input,     \* the parts of any other selection
    outcome,   \* "pending", "returned" or "raised"
    indices    \* the indices returned

absVars == <<keys, typedAll, input, outcome, indices>>

\* The wallets a selection names: every wallet for "all", else the wallets
\* named by a number or by a range lying wholly in 1..keys (a range reaching
\* outside is rejected as a whole).
Meant ==
    IF typedAll THEN 1..keys
    ELSE {x \in 1..keys :
            \E k \in DOMAIN input :
               \/ input[k].kind = "num" /\ input[k].v = x
               \/ /\ input[k].kind = "range"
                  /\ 1 <= input[k].lo /\ input[k].hi <= keys
                  /\ input[k].lo <= x /\ x <= input[k].hi}

HasBadRange == \E k \in DOMAIN input : input[k].kind = "badRange"

\* "all" is answered at once; any other selection is still to be parsed.
Init ==
    /\ keys \in 0..MaxTotal
    /\ typedAll \in BOOLEAN
    /\ input \in IF typedAll THEN {<<>>} ELSE Inputs
    /\ outcome = IF typedAll THEN "returned" ELSE "pending"
    /\ indices = IF typedAll THEN ToIndices(Meant) ELSE <<>>

\* The whole parse as one step.
Parse ==
    /\ outcome = "pending"
    /\ \/ HasBadRange /\ outcome' = "raised" /\ UNCHANGED indices
       \/ ~HasBadRange /\ outcome' = "returned" /\ indices' = ToIndices(Meant)
    /\ UNCHANGED <<keys, typedAll, input>>

Spec == Init /\ [][Parse]_absVars /\ WF_absVars(Parse)
=============================================================================
