---------------------------- MODULE SelectionParts ----------------------------
(***************************************************************************)
(* The data of a wallet selection, shared by the abstract parse and the    *)
(* part-by-part loop of parse_wallet_selection.                            *)
(*                                                                         *)
(* The input is abstracted to the parts left by strip, replace(' ', '')    *)
(* and split(','): a number, a range "a-b", a part without '-' that int()  *)
(* rejects (junk), and a part with '-' that is not two integers            *)
(* ("1-2-3", "-5", "1-").                                                  *)
(***************************************************************************)
EXTENDS Naturals, Sequences, FiniteSets

CONSTANTS
    MaxTotal,  \* the most private keys in pv.txt
    MaxParts,  \* the most comma-separated parts of an input
    MaxNum     \* the largest number written in an input

ASSUME SelectionAssumption ==
    /\ MaxTotal \in Nat /\ MaxParts \in Nat /\ MaxNum \in Nat

Nums == 0..MaxNum
Part ==
    [kind : {"num"}, v : Nums] \cup [kind : {"range"}, lo : Nums, hi : Nums]
        \cup [kind : {"junk", "badRange"}]
Inputs == UNION {[1..k -> Part] : k \in 1..MaxParts}

\* Mutant: the indices left one-based (sorted(selected)).
ToIndicesOneBased(S) ==
    LET D == 1..Cardinality(S)
    IN  CHOOSE s \in [D -> S] : \A a, b \in D : a < b => s[a] < s[b]

\* sorted([n - 1 for n in selected]): the zero-based indices of the set,
\* each once, in increasing order.
ToIndices(S) ==
    LET T == {x - 1 : x \in S}
        D == 1..Cardinality(T)
    IN  CHOOSE s \in [D -> T] : \A a, b \in D : a < b => s[a] < s[b]
=============================================================================
