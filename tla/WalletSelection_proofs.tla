------------------------ MODULE WalletSelection_proofs ------------------------
(***************************************************************************)
(* The loop of parse_wallet_selection implements the one-step parse of    *)
(* SelectionParse, for every number of keys, parts and numbers: its       *)
(* initial states are initial states of the parse, and each of its steps  *)
(* is a step of the parse or leaves the parse's variables alone.          *)
(*                                                                         *)
(* The argument rests on a loop invariant: while the loop runs, the set   *)
(* collected is exactly the wallets named by the parts already passed and *)
(* none of them is a malformed range; once it is done, the indices       *)
(* returned are those of every wallet the selection names.  What          *)
(* ToIndices computes is not needed: both sides apply it to the same set. *)
(* The fairness half of ImplementsParse is left to TLC.                   *)
(***************************************************************************)
EXTENDS WalletSelection, FiniteSetTheorems, TLAPS

\* Part p names wallet x: the disjunct of SelectionParse's Meant.
Names(p, x) ==
    \/ p.kind = "num" /\ p.v = x
    \/ /\ p.kind = "range"
       /\ 1 <= p.lo /\ p.hi <= total
       /\ p.lo <= x /\ x <= p.hi

\* The wallets named by the first k parts.
NamedBy(k) == {x \in 1..total : \E m \in 1..k : Names(input[m], x)}

\* The outcome the refinement mapping gives a status.
OutcomeOf(st) ==
    CASE st = "loop"   -> "pending"
      [] st = "done"   -> "returned"
      [] st = "raised" -> "raised"

Outcome == OutcomeOf(status)

LoopInv ==
    /\ total \in Nat
    /\ input \in Seq(Part)
    /\ status \in {"loop", "done", "raised"}
    /\ status = "loop" =>
         /\ ~typedAll
         /\ i \in 1..(Len(input) + 1)
         /\ selected = NamedBy(i - 1)
         /\ \A m \in 1..(i - 1) : input[m].kind # "badRange"
    /\ status = "done" => out = ToIndices(Sel!Meant)

\* The mapped outcome of each status, stated without CASE.
LEMMA OutcomeIs ==
    ASSUME NEW st
    PROVE  /\ st = "loop" => OutcomeOf(st) = "pending"
           /\ st = "done" => OutcomeOf(st) = "returned"
           /\ st = "raised" => OutcomeOf(st) = "raised"
<1>1. "loop" # "done" /\ "loop" # "raised" /\ "done" # "raised"
  OBVIOUS
<1>. QED
  BY <1>1, Zenon DEF OutcomeOf

\* The parse's copies of the shared definitions are the loop's.
LEMMA SharedDefs ==
    /\ Sel!Inputs = Inputs
    /\ \A S : Sel!ToIndices(S) = ToIndices(S)
<1>1. Sel!Inputs = Inputs
  BY DEF Sel!Inputs, Inputs, Sel!Part, Part, Sel!Nums, Nums
<1>2. \A T : Sel!Cardinality(T) = Cardinality(T)
  BY Zenon DEF Sel!Cardinality, Cardinality
<1>3. \A S : Sel!ToIndices(S) = ToIndices(S)
  BY <1>2 DEF Sel!ToIndices, ToIndices
<1>. QED
  BY <1>1, <1>3

\* Every input of the model is a sequence of parts.
LEMMA InputsAreSeqs == Inputs \subseteq Seq(Part)
BY SelectionAssumption DEF Inputs

\* A well-formed part adds exactly the wallets it names.
LEMMA PartNumbersNames ==
    ASSUME total \in Nat, NEW p \in Part, p.kind # "badRange"
    PROVE  PartNumbers(p) = {x \in 1..total : Names(p, x)}
<1>1. CASE p.kind = "num"
  <2>1. PartNumbers(p) = IF p.v < 1 \/ p.v > total THEN {} ELSE {p.v}
    BY <1>1 DEF PartNumbers
  <2>2. p.v \in Nat
    BY <1>1 DEF Part, Nums
  <2>. QED
    BY <1>1, <2>1, <2>2 DEF Names
<1>2. CASE p.kind = "range"
  <2>1. PartNumbers(p) =
          IF p.lo < 1 \/ p.hi > total \/ p.lo > p.hi THEN {} ELSE p.lo..p.hi
    BY <1>2 DEF PartNumbers
  <2>2. p.lo \in Nat /\ p.hi \in Nat
    BY <1>2 DEF Part, Nums
  <2>. QED
    BY <1>2, <2>1, <2>2 DEF Names
<1>3. CASE p.kind = "junk"
  <2>1. PartNumbers(p) = {}
    BY <1>3 DEF PartNumbers
  <2>. QED
    BY <1>3, <2>1 DEF Names
<1>. QED
  BY <1>1, <1>2, <1>3 DEF Part

\* When the selection is read in full, the wallets named by all its parts
\* are those SelectionParse means.
LEMMA NamedByAll ==
    ASSUME input \in Seq(Part), ~typedAll
    PROVE  NamedBy(Len(input)) = Sel!Meant
BY DEF NamedBy, Names, Sel!Meant

LEMMA InitLoop == Init => LoopInv
<1> SUFFICES ASSUME Init PROVE LoopInv
  OBVIOUS
<1>1. total \in Nat /\ input \in Seq(Part)
  <2>1. total \in Nat
    BY SelectionAssumption DEF Init
  <2>2. CASE typedAll
    BY <2>2 DEF Init
  <2>3. CASE ~typedAll
    BY <2>3, InputsAreSeqs DEF Init
  <2>. QED
    BY <2>1, <2>2, <2>3
<1>2. CASE typedAll
  <2>1. status = "done" /\ out = ToIndices(1..total)
    BY <1>2 DEF Init
  <2>2. Sel!Meant = 1..total
    BY <1>2 DEF Sel!Meant
  <2>. QED
    BY <1>1, <2>1, <2>2 DEF LoopInv
<1>3. CASE ~typedAll
  <2>1. status = "loop" /\ i = 1 /\ selected = {}
    BY <1>3 DEF Init
  <2>2. NamedBy(0) = {}
    BY DEF NamedBy
  <2>. QED
    BY <1>1, <1>3, <2>1, <2>2 DEF LoopInv
<1>. QED
  BY <1>2, <1>3

LEMMA LoopStep == LoopInv /\ [Next]_vars => LoopInv'
<1> SUFFICES ASSUME LoopInv, [Next]_vars PROVE LoopInv'
  OBVIOUS
<1>1. CASE StepPart /\ input[i].kind = "badRange"
  <2>1. status' = "raised" /\ UNCHANGED <<total, input>>
    BY <1>1 DEF StepPart
  <2>. QED
    BY <2>1 DEF LoopInv
<1>2. CASE StepPart /\ input[i].kind # "badRange"
  <2>1. /\ status = "loop" /\ i <= Len(input)
        /\ selected' = selected \cup PartNumbers(input[i])
        /\ i' = i + 1 /\ status' = status
        /\ UNCHANGED <<total, typedAll, input, out>>
    BY <1>2 DEF StepPart
  <2>2. /\ ~typedAll
        /\ i \in 1..(Len(input) + 1)
        /\ selected = NamedBy(i - 1)
        /\ \A m \in 1..(i - 1) : input[m].kind # "badRange"
    BY <2>1 DEF LoopInv
  <2>3. input[i] \in Part
    BY <2>1, <2>2 DEF LoopInv
  <2>4. PartNumbers(input[i]) = {x \in 1..total : Names(input[i], x)}
    BY <1>2, <2>3, PartNumbersNames DEF LoopInv
  <2>5. selected' = NamedBy(i)
    BY <2>1, <2>2, <2>4 DEF NamedBy
  <2>6. NamedBy(i - 1)' = NamedBy(i)
    BY <2>1, <2>2 DEF NamedBy, Names
  <2>7. \A m \in 1..i : input[m].kind # "badRange"
    BY <1>2, <2>2
  <2>. QED
    BY <2>1, <2>2, <2>5, <2>6, <2>7 DEF LoopInv
<1>3. CASE Finish
  <2>1. /\ status = "loop" /\ i > Len(input)
        /\ out' = ToIndices(selected) /\ status' = "done"
        /\ UNCHANGED <<total, typedAll, input, i, selected>>
    BY <1>3 DEF Finish
  <2>2. ~typedAll /\ i = Len(input) + 1 /\ selected = NamedBy(i - 1)
    BY <2>1 DEF LoopInv
  <2>3. selected = Sel!Meant
    BY <2>2, NamedByAll DEF LoopInv
  <2>4. Sel!Meant' = Sel!Meant
    BY <2>1 DEF Sel!Meant
  <2>. QED
    BY <2>1, <2>3, <2>4 DEF LoopInv
<1>4. CASE UNCHANGED vars
  <2>1. Sel!Meant' = Sel!Meant /\ NamedBy(i - 1)' = NamedBy(i - 1)
    BY <1>4 DEF vars, Sel!Meant, NamedBy, Names
  <2>. QED
    BY <1>4, <2>1 DEF vars, LoopInv
<1>. QED
  BY <1>1, <1>2, <1>3, <1>4 DEF Next, StepPart

\* The initial states of the loop are initial states of the parse: 'all'
\* is answered with every index at once, anything else is still pending.
LEMMA InitRefines == Init => Sel!Init
<1> SUFFICES ASSUME Init PROVE Sel!Init
  OBVIOUS
<1>1. CASE typedAll
  <2>1. status = "done" /\ out = ToIndices(1..total) /\ input = <<>>
    BY <1>1 DEF Init
  <2>2. Sel!Meant = 1..total
    BY <1>1 DEF Sel!Meant
  <2>3. Outcome = "returned"
    BY <2>1, OutcomeIs DEF Outcome
  <2>. QED
    BY <1>1, <2>1, <2>2, <2>3, SharedDefs, SelectionAssumption
    DEF Init, Sel!Init, Outcome, OutcomeOf
<1>2. CASE ~typedAll
  <2>1. status = "loop" /\ out = <<>> /\ input \in Inputs
    BY <1>2 DEF Init
  <2>2. Outcome = "pending"
    BY <2>1, OutcomeIs DEF Outcome
  <2>. QED
    BY <1>2, <2>1, <2>2, SharedDefs, SelectionAssumption
    DEF Init, Sel!Init, Outcome, OutcomeOf
<1>. QED
  BY <1>1, <1>2

\* Each step of the loop is the parse or leaves the parse's variables
\* alone: a malformed range is the raising parse, a well-formed part is
\* hidden, and the end of the loop returns what the parse returns.
LEMMA StepRefines == LoopInv /\ [Next]_vars => [Sel!Parse]_Sel!absVars
<1> SUFFICES ASSUME LoopInv, [Next]_vars PROVE [Sel!Parse]_Sel!absVars
  OBVIOUS
<1>1. CASE StepPart /\ input[i].kind = "badRange"
  <2>1. /\ status = "loop" /\ i <= Len(input) /\ status' = "raised"
        /\ UNCHANGED <<total, typedAll, input, out>>
    BY <1>1 DEF StepPart
  <2>2. i \in DOMAIN input
    BY <2>1 DEF LoopInv
  <2>3. Sel!HasBadRange
    BY <1>1, <2>2 DEF Sel!HasBadRange
  <2>4. Outcome = "pending" /\ Outcome' = "raised"
    BY <2>1, OutcomeIs DEF Outcome
  <2>. QED
    BY <2>1, <2>3, <2>4 DEF Sel!Parse, Outcome, OutcomeOf
<1>2. CASE StepPart /\ input[i].kind # "badRange"
  <2>1. status' = status /\ UNCHANGED <<total, typedAll, input, out>>
    BY <1>2 DEF StepPart
  <2>. QED
    BY <2>1 DEF Sel!absVars
<1>3. CASE Finish
  <2>1. /\ status = "loop" /\ i > Len(input)
        /\ out' = ToIndices(selected) /\ status' = "done"
        /\ UNCHANGED <<total, typedAll, input>>
    BY <1>3 DEF Finish
  <2>2. /\ ~typedAll /\ i = Len(input) + 1 /\ selected = NamedBy(i - 1)
        /\ \A m \in 1..(i - 1) : input[m].kind # "badRange"
    BY <2>1 DEF LoopInv
  <2>3. ~Sel!HasBadRange
    BY <2>2 DEF LoopInv, Sel!HasBadRange
  <2>4. selected = Sel!Meant /\ Sel!Meant' = Sel!Meant
    BY <2>1, <2>2, NamedByAll DEF LoopInv, Sel!Meant
  <2>5. Outcome = "pending" /\ Outcome' = "returned"
    BY <2>1, OutcomeIs DEF Outcome
  <2>. QED
    BY <2>1, <2>3, <2>4, <2>5, SharedDefs DEF Sel!Parse, Outcome, OutcomeOf
<1>4. CASE UNCHANGED vars
  BY <1>4 DEF vars, Sel!absVars
<1>. QED
  BY <1>1, <1>2, <1>3, <1>4 DEF Next, StepPart

\* The safety half of ImplementsParse: every behaviour of the loop of
\* parse_wallet_selection is, with the part index and the collected set
\* hidden, a behaviour of the one-step parse, whatever the number of keys,
\* parts and numbers.
THEOREM ParseRefinement == Spec => Sel!Init /\ [][Sel!Parse]_Sel!absVars
<1>1. Init => Sel!Init
  BY InitRefines
<1>2. Spec => []LoopInv
  BY InitLoop, LoopStep, PTL DEF Spec
<1>3. []LoopInv /\ [][Next]_vars => [][Sel!Parse]_Sel!absVars
  BY StepRefines, PTL
<1>. QED
  BY <1>1, <1>2, <1>3, PTL DEF Spec

-----------------------------------------------------------------------------
(* sorted(): the sorted enumeration exists, without induction.  The rank  *)
(* of x in T, one more than the number of smaller elements, is one-to-one *)
(* from T onto 1..Cardinality(T); the k-th element is the one of rank k.  *)

Rank(T, x) == Cardinality({y \in T : y < x}) + 1

Increasing(s, D) == \A a, b \in D : a < b => s[a] < s[b]

\* Every rank lies in 1..Cardinality(T).
LEMMA RankBounds ==
    ASSUME NEW T \in SUBSET Nat, IsFiniteSet(T), NEW x \in T
    PROVE  Rank(T, x) \in 1..Cardinality(T)
<1> DEFINE L == {y \in T : y < x}
<1>1. L \subseteq T \ {x}
  OBVIOUS
<1>2. IsFiniteSet(T \ {x}) /\ Cardinality(T \ {x}) = Cardinality(T) - 1
  BY FS_RemoveElement
<1>3. IsFiniteSet(L) /\ Cardinality(L) <= Cardinality(T \ {x})
  BY <1>1, <1>2, FS_Subset
<1>4. Cardinality(L) \in Nat /\ Cardinality(T) \in Nat
  BY <1>3, FS_CardinalityType
<1>. QED
  BY <1>2, <1>3, <1>4 DEF Rank

\* A larger element has a larger rank.
LEMMA RankMonotone ==
    ASSUME NEW T \in SUBSET Nat, IsFiniteSet(T), NEW x \in T, NEW z \in T,
           x < z
    PROVE  Rank(T, x) < Rank(T, z)
<1> DEFINE Lx == {y \in T : y < x}
           Lz == {y \in T : y < z}
<1>1. IsFiniteSet(Lz) /\ x \in Lz
  BY FS_Subset
<1>2. IsFiniteSet(Lz \ {x}) /\ Cardinality(Lz \ {x}) = Cardinality(Lz) - 1
  BY <1>1, FS_RemoveElement
<1>3. Lx \subseteq Lz \ {x}
  <2> SUFFICES ASSUME NEW y \in T, y < x PROVE y < z /\ y # x
    OBVIOUS
  <2>1. x \in Nat /\ y \in Nat /\ z \in Nat
    OBVIOUS
  <2>. QED
    BY <2>1
<1>4. Cardinality(Lx) <= Cardinality(Lz \ {x})
  BY <1>2, <1>3, FS_Subset
<1>5. Cardinality(Lx) \in Nat /\ Cardinality(Lz) \in Nat
  BY <1>1, <1>3, <1>2, FS_Subset, FS_CardinalityType
<1>. QED
  BY <1>2, <1>4, <1>5 DEF Rank

\* Every finite set of numbers has an increasing enumeration.
LEMMA SortedExists ==
    ASSUME NEW T \in SUBSET Nat, IsFiniteSet(T)
    PROVE  \E s \in [1..Cardinality(T) -> T] :
              Increasing(s, 1..Cardinality(T))
<1> DEFINE N == Cardinality(T)
           r == [x \in T |-> Rank(T, x)]
<1>0. N \in Nat
  BY FS_CardinalityType
<1>1. r \in Injection(T, 1..N)
  <2>1. r \in [T -> 1..N]
    BY RankBounds
  <2>2. \A x, z \in T : r[x] = r[z] => x = z
    <3> SUFFICES ASSUME NEW x \in T, NEW z \in T, x # z PROVE r[x] # r[z]
      OBVIOUS
    <3>0. Rank(T, x) \in Nat /\ Rank(T, z) \in Nat /\ x \in Nat /\ z \in Nat
      BY RankBounds
    <3>1. CASE x < z
      <4>1. Rank(T, x) < Rank(T, z)
        BY <3>1, RankMonotone
      <4>. QED
        BY <4>1, <3>0
    <3>2. CASE z < x
      <4>1. Rank(T, z) < Rank(T, x)
        BY <3>2, RankMonotone
      <4>. QED
        BY <4>1, <3>0
    <3>. QED
      BY <3>0, <3>1, <3>2
  <2>. QED
    BY <2>1, <2>2 DEF Injection, IsInjective
<1>2. r \in Surjection(T, 1..N)
  <2>1. IsFiniteSet(1..N) /\ Cardinality(1..N) = N
    BY <1>0, FS_Interval
  <2>. QED
    BY <1>1, <2>1, FS_Injection
<1> DEFINE s == [k \in 1..N |-> CHOOSE x \in T : r[x] = k]
<1>3. \A k \in 1..N : s[k] \in T /\ r[s[k]] = k
  BY <1>2 DEF Surjection
<1>4. Increasing(s, 1..N)
  <2> SUFFICES ASSUME NEW a \in 1..N, NEW b \in 1..N, a < b
               PROVE  s[a] < s[b]
    BY DEF Increasing
  <2>1. s[a] \in T /\ s[b] \in T /\ r[s[a]] = a /\ r[s[b]] = b
    BY <1>3
  <2>2. ~(s[b] < s[a])
    <3> SUFFICES ASSUME s[b] < s[a] PROVE FALSE
      OBVIOUS
    <3>1. Rank(T, s[b]) < Rank(T, s[a])
      BY <2>1, RankMonotone
    <3>. QED
      BY <3>1, <2>1
  <2>3. s[a] # s[b]
    BY <2>1
  <2>4. s[a] \in Nat /\ s[b] \in Nat
    BY <2>1
  <2>. QED
    BY <2>2, <2>3, <2>4
<1>. QED
  BY <1>3, <1>4

\* The zero-based indices of a set of wallet numbers.
ZeroBased(S) == {x - 1 : x \in S}

\* The loop invariant with the types, and the bounds TypeOK states that
\* the loop keeps: the part index never passes the input's end, and only
\* wallets in 1..len(private_keys) are collected.
SelInv ==
    /\ LoopInv
    /\ TypeOK
    /\ i \in 1..(Len(input) + 1)
    /\ selected \subseteq 1..total

\* sorted([n - 1 for n in S]) for a set of wallet numbers: a sequence of
\* the zero-based indices, increasing, holding each one.
LEMMA ToIndicesSorted ==
    ASSUME NEW M \in Nat, NEW S \in SUBSET (1..M)
    PROVE  /\ ToIndices(S) \in [1..Cardinality(ZeroBased(S)) -> ZeroBased(S)]
           /\ Increasing(ToIndices(S), 1..Cardinality(ZeroBased(S)))
           /\ Range(ToIndices(S)) = ZeroBased(S)
<1> DEFINE T == ZeroBased(S)
           N == Cardinality(T)
           s == ToIndices(S)
<1>1. T \subseteq 0..M
  BY DEF ZeroBased
<1>2. IsFiniteSet(T) /\ N \in Nat
  <2>1. IsFiniteSet(0..M)
    BY FS_Interval
  <2>2. IsFiniteSet(T)
    BY <1>1, <2>1, FS_Subset
  <2>. QED
    BY <2>2, FS_CardinalityType
<1>3. \E f \in [1..N -> T] : Increasing(f, 1..N)
  BY <1>1, <1>2, SortedExists
<1>4. s \in [1..N -> T] /\ Increasing(s, 1..N)
  BY <1>3 DEF ToIndices, ZeroBased, Increasing
<1>5. s \in Injection(1..N, T)
  <2> SUFFICES ASSUME NEW a \in 1..N, NEW b \in 1..N, a # b PROVE s[a] # s[b]
    BY <1>4 DEF Injection, IsInjective
  <2>1. s[a] \in Nat /\ s[b] \in Nat
    BY <1>1, <1>4
  <2>2. a < b \/ b < a
    BY <1>2
  <2>. QED
    BY <1>4, <2>1, <2>2 DEF Increasing
<1>6. s \in Surjection(1..N, T)
  <2>1. Cardinality(1..N) = N
    BY <1>2, FS_Interval
  <2>. QED
    BY <1>2, <1>5, <2>1, FS_Injection
<1>. QED
  BY <1>4, <1>6 DEF Surjection, Range

\* The indices of any set of wallets are a sequence of 0..MaxTotal.
LEMMA IndicesType ==
    ASSUME NEW S \in SUBSET (1..MaxTotal)
    PROVE  ToIndices(S) \in Seq(0..MaxTotal)
<1>1. MaxTotal \in Nat
  BY SelectionAssumption
<1>2. /\ ToIndices(S) \in [1..Cardinality(ZeroBased(S)) -> ZeroBased(S)]
      /\ Cardinality(ZeroBased(S)) \in Nat
  <2>1. IsFiniteSet(ZeroBased(S))
    <3>1. ZeroBased(S) \subseteq 0..MaxTotal
      BY <1>1 DEF ZeroBased
    <3>2. IsFiniteSet(0..MaxTotal)
      BY <1>1, FS_Interval
    <3>. QED
      BY <3>1, <3>2, FS_Subset
  <2>. QED
    BY <1>1, <2>1, ToIndicesSorted, FS_CardinalityType
<1>3. ZeroBased(S) \subseteq 0..MaxTotal
  BY <1>1 DEF ZeroBased
<1>4. ToIndices(S) \in [1..Cardinality(ZeroBased(S)) -> 0..MaxTotal]
  BY <1>2, <1>3
<1>. QED
  BY <1>1, <1>2, <1>4

\* An input has at most MaxParts parts.
LEMMA InputLen ==
    ASSUME input \in Inputs \cup {<<>>}
    PROVE  input \in Seq(Part) /\ Len(input) <= MaxParts
<1>1. CASE input = <<>>
  BY <1>1, SelectionAssumption
<1>2. CASE input \in Inputs
  <2>1. PICK k \in 1..MaxParts : input \in [1..k -> Part]
    BY <1>2 DEF Inputs
  <2>. QED
    BY <2>1, SelectionAssumption
<1>. QED
  BY <1>1, <1>2

LEMMA InitSel == Init => SelInv
<1> SUFFICES ASSUME Init PROVE SelInv
  OBVIOUS
<1>1. LoopInv
  BY InitLoop
<1>2. input \in Inputs \cup {<<>>} /\ i = 1 /\ selected = {}
  BY DEF Init
<1>3. out \in Seq(0..MaxTotal)
  <2>1. CASE typedAll
    <3>1. out = ToIndices(1..total)
      BY <2>1 DEF Init
    <3>2. total \in 0..MaxTotal
      BY DEF Init
    <3>3. 1..total \subseteq 1..MaxTotal
      BY SelectionAssumption, <3>2
    <3>. QED
      BY <3>1, <3>3, IndicesType
  <2>2. CASE ~typedAll
    BY <2>2 DEF Init
  <2>. QED
    BY <2>1, <2>2
<1>4. /\ total \in 0..MaxTotal /\ typedAll \in BOOLEAN
      /\ status \in {"loop", "done", "raised"}
  BY DEF Init
<1>5. i \in 1..(MaxParts + 1) /\ i \in 1..(Len(input) + 1)
  BY <1>2, InputLen, SelectionAssumption
<1>. QED
  BY <1>1, <1>2, <1>3, <1>4, <1>5 DEF SelInv, TypeOK

LEMMA SelStep == SelInv /\ [Next]_vars => SelInv'
<1> SUFFICES ASSUME SelInv, [Next]_vars PROVE SelInv'
  OBVIOUS
<1>0. /\ LoopInv' /\ total \in 0..MaxTotal
      /\ input \in Seq(Part) /\ Len(input) <= MaxParts
  BY LoopStep, InputLen DEF SelInv, TypeOK
<1>1. CASE StepPart /\ input[i].kind = "badRange"
  <2>1. /\ status' = "raised"
        /\ UNCHANGED <<total, typedAll, input, i, selected, out>>
    BY <1>1 DEF StepPart
  <2>. QED
    BY <1>0, <2>1 DEF SelInv, TypeOK
<1>2. CASE StepPart /\ input[i].kind # "badRange"
  <2>1. /\ i <= Len(input)
        /\ selected' = selected \cup PartNumbers(input[i])
        /\ i' = i + 1 /\ status' = status
        /\ UNCHANGED <<total, typedAll, input, out>>
    BY <1>2 DEF StepPart
  <2>0. i \in 1..(Len(input) + 1) /\ selected \subseteq 1..total
    BY DEF SelInv
  <2>2. input[i] \in Part /\ total \in Nat
    BY <1>0, <2>0, <2>1
  <2>3. PartNumbers(input[i]) \subseteq 1..total
    BY <1>2, <2>2, PartNumbersNames
  <2>4. selected' \subseteq 1..total /\ selected' \subseteq 1..MaxTotal
    <3>1. selected' \subseteq 1..total
      BY <2>0, <2>1, <2>3
    <3>2. 1..total \subseteq 1..MaxTotal
      BY SelectionAssumption, <1>0
    <3>. QED
      BY <3>1, <3>2
  <2>5. i' \in 1..(Len(input') + 1) /\ i' \in 1..(MaxParts + 1)
    BY SelectionAssumption, <1>0, <2>0, <2>1
  <2>. QED
    BY <1>0, <2>1, <2>4, <2>5 DEF SelInv, TypeOK
<1>3. CASE Finish
  <2>1. /\ out' = ToIndices(selected) /\ status' = "done"
        /\ UNCHANGED <<total, typedAll, input, i, selected>>
    BY <1>3 DEF Finish
  <2>2. selected \subseteq 1..MaxTotal
    <3>1. selected \subseteq 1..total
      BY DEF SelInv
    <3>. QED
      BY SelectionAssumption, <1>0, <3>1
  <2>3. out' \in Seq(0..MaxTotal)
    BY <2>1, <2>2, IndicesType
  <2>. QED
    BY <1>0, <2>1, <2>3 DEF SelInv, TypeOK
<1>4. CASE UNCHANGED vars
  BY <1>0, <1>4 DEF vars, SelInv, TypeOK
<1>. QED
  BY <1>1, <1>2, <1>3, <1>4 DEF Next, StepPart

\* For every number of keys, parts and numbers, the parser's state keeps
\* its types: the part index stays within the input, only wallets that
\* exist are collected, and selected_indices is a list of indices.
THEOREM TypeCorrect == Spec => []TypeOK
<1>1. SelInv => TypeOK
  BY DEF SelInv
<1>. QED
  BY <1>1, InitSel, SelStep, PTL DEF Spec

\* For every number of keys, parts and numbers, what parse_wallet_selection
\* or the 'all' branch returns is increasing and holds the zero-based index
\* of exactly the wallets the selection names: sorted([n - 1 for n in
\* selected]) over the set the loop collected.
THEOREM IndicesSortedThm == Spec => []IndicesSorted
<1>1. SelInv => IndicesSorted
  <2> SUFFICES ASSUME SelInv, status = "done"
               PROVE  /\ \A a, b \in DOMAIN out : a < b => out[a] < out[b]
                      /\ {out[k] : k \in DOMAIN out} = {x - 1 : x \in Sel!Meant}
    BY DEF IndicesSorted
  <2>1. out = ToIndices(Sel!Meant)
    BY DEF SelInv, LoopInv
  <2>2. Sel!Meant \subseteq 1..MaxTotal
    <3>1. total \in 0..MaxTotal
      BY DEF SelInv, TypeOK
    <3>2. Sel!Meant \subseteq 1..total
      BY DEF Sel!Meant
    <3>. QED
      BY SelectionAssumption, <3>1, <3>2
  <2>3. /\ DOMAIN out = 1..Cardinality(ZeroBased(Sel!Meant))
        /\ Increasing(out, 1..Cardinality(ZeroBased(Sel!Meant)))
        /\ Range(out) = ZeroBased(Sel!Meant)
    BY <2>1, <2>2, SelectionAssumption, ToIndicesSorted
  <2>. QED
    BY <2>3 DEF Increasing, Range, ZeroBased
<1>. QED
  BY <1>1, InitSel, SelStep, PTL DEF Spec
=============================================================================
