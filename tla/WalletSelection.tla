--------------------------- MODULE WalletSelection ---------------------------
(***************************************************************************)
(* The wallet selection of run_auto_mode: "all", or a comma-separated list *)
(* of 1-based numbers and ranges parsed by parse_wallet_selection into     *)
(* sorted 0-based indices.                                                 *)
(*                                                                         *)
(* The parts of the input are those of SelectionParts; the loop over the   *)
(* parts is one action per part.  ImplementsParse shows the loop to        *)
(* implement SelectionParse, the parse as one step.                        *)
(***************************************************************************)
EXTENDS SelectionParts

VARIABLES
    total,     \* len(private_keys)
    typedAll,  \* selection.lower().strip() == 'all'
    input,     \* the parts of any other selection typed
    i,         \* the next part of the loop
    selected,  \* the set of 1-based numbers collected
    out,       \* selected_indices
    status     \* "loop", "done" or "raised"

vars == <<total, typedAll, input, i, selected, out, status>>

\* Mutant: range(start, end) for range(start, end + 1).
PartNumbersShortRange(p) ==
    CASE p.kind = "num" ->
            IF p.v < 1 \/ p.v > total THEN {} ELSE {p.v}
      [] p.kind = "range" ->
            IF p.lo < 1 \/ p.hi > total \/ p.lo > p.hi THEN {} ELSE p.lo..(p.hi - 1)
      [] OTHER -> {}

\* Mutant: the upper bound check of a single number dropped.
PartNumbersNoUpperBound(p) ==
    CASE p.kind = "num" ->
            IF p.v < 1 THEN {} ELSE {p.v}
      [] p.kind = "range" ->
            IF p.lo < 1 \/ p.hi > total \/ p.lo > p.hi THEN {} ELSE p.lo..p.hi
      [] OTHER -> {}

\* The 1-based numbers a well-formed part names, when it is in bounds; the
\* branch that prints "out of bounds" and continues adds nothing.
PartNumbers(p) ==
    CASE p.kind = "num" ->
            IF p.v < 1 \/ p.v > total THEN {} ELSE {p.v}
      [] p.kind = "range" ->
            IF p.lo < 1 \/ p.hi > total \/ p.lo > p.hi THEN {} ELSE p.lo..p.hi
      [] OTHER -> {}

\* The 'all' answer, or the parser called.
Init ==
    /\ total \in 0..MaxTotal
    /\ typedAll \in BOOLEAN
    /\ input \in IF typedAll THEN {<<>>} ELSE Inputs
    /\ i = 1
    /\ selected = {}
    /\ IF typedAll
         THEN out = ToIndices(1..total) /\ status = "done"
         ELSE out = <<>> /\ status = "loop"

\* One part: a range whose split does not unpack into two integers raises
\* ValueError, which nothing in parse_wallet_selection or run_auto_mode
\* catches; any other part adds its numbers (junk is caught and printed).
StepPart ==
    /\ status = "loop"
    /\ i <= Len(input)
    /\ \/ /\ input[i].kind = "badRange"
          /\ status' = "raised"
          /\ UNCHANGED <<selected, i>>
       \/ /\ input[i].kind # "badRange"
          /\ selected' = selected \cup PartNumbers(input[i])
          /\ i' = i + 1
          /\ UNCHANGED status
    /\ UNCHANGED <<total, typedAll, input, out>>

\* The loop is over: the sorted zero-based indices are returned.
Finish ==
    /\ status = "loop"
    /\ i > Len(input)
    /\ out' = ToIndices(selected)
    /\ status' = "done"
    /\ UNCHANGED <<total, typedAll, input, i, selected>>

Next == StepPart \/ Finish

Spec == Init /\ [][Next]_vars /\ WF_vars(Next)

-----------------------------------------------------------------------------
(* Properties.                                                             *)

TypeOK ==
    /\ total \in 0..MaxTotal
    /\ typedAll \in BOOLEAN
    /\ input \in Inputs \cup {<<>>}
    /\ i \in 1..(MaxParts + 1)
    /\ selected \subseteq 1..MaxTotal
    /\ out \in Seq(0..MaxTotal)
    /\ status \in {"loop", "done", "raised"}

\* The loop seen as the abstract parse: the part index and the set being
\* collected are hidden, the loop's status becomes the outcome.
Sel == INSTANCE SelectionParse
         WITH keys <- total,
              outcome <- CASE status = "loop"   -> "pending"
                           [] status = "done"   -> "returned"
                           [] status = "raised" -> "raised",
              indices <- out

\* parse_wallet_selection implements the one-step parse: the loop over the
\* parts returns exactly the sorted zero-based indices of the wallets the
\* selection names (a number, or a range wholly in bounds), raises only
\* when a part is a malformed range, and always ends in one of the two.
ImplementsParse == Sel!Spec

\* selected_indices = sorted([n - 1 for n in selected]): what the parser
\* returns, and what the 'all' branch builds, is increasing and holds the
\* zero-based index of every wallet the selection names and no other.
IndicesSorted ==
    status = "done" =>
        /\ \A a, b \in DOMAIN out : a < b => out[a] < out[b]
        /\ {out[k] : k \in DOMAIN out} = {x - 1 : x \in Sel!Meant}

\* The parser reports a malformed part and goes on, as it does for a part
\* int() rejects, rather than raise out of run_auto_mode.
NeverRaises ==
    status # "raised"
=============================================================================
