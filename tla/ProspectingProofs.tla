------------------------- MODULE ProspectingProofs -------------------------
(***************************************************************************)
(* A search means its filter and a link is honest, for every dictionary,   *)
(* every table and every filter that the assistant accepts.  The first     *)
(* part is about what a rail picks from a filter, the second about trees:  *)
(* a condition whose operator its field takes compiles to SQL that is true *)
(* where it fits and false where it is missed, and AND, OR and NOT keep    *)
(* that.  The third is the page: whatever its url was written from, its    *)
(* conditions have operators that their fields take, and until somebody    *)
(* changes the rail it is the one its link was read to.                    *)
(***************************************************************************)
EXTENDS Prospecting, FiniteSetTheorems, TLAPS

(* The places of a set of numbers, in order.                               *)

Places(S) == IsFiniteSet(S) /\ S \subseteq Nat

LEMMA SomePlaces ==
    ASSUME NEW n \in Nat, NEW S, S \subseteq 1..n
    PROVE  Places(S)
<1>1. IsFiniteSet(1..n)
  BY FS_Interval
<1>2. IsFiniteSet(S)
  BY <1>1, FS_Subset
<1> QED
  BY <1>2 DEF Places

LEMMA PlacesCount ==
    ASSUME NEW S, Places(S)
    PROVE  /\ Cardinality(S) \in Nat
           /\ \A k \in 1..Cardinality(S) : Place(S, k) \in S
           /\ \A i \in S : \E k \in 1..Cardinality(S) : Place(S, k) = i
<1> DEFINE m == Cardinality(S)
           Upto(i) == {j \in S : j <= i}
           rank == [i \in S |-> Cardinality(Upto(i))]
<1> USE DEF Places
<1>1. IsFiniteSet(S) /\ m \in Nat
  BY FS_CardinalityType
<1>2. ASSUME NEW i \in S
      PROVE  IsFiniteSet(Upto(i)) /\ Cardinality(Upto(i)) \in 1..m
  <2>1. Upto(i) \in SUBSET S /\ i \in Upto(i)
    OBVIOUS
  <2>2. /\ IsFiniteSet(Upto(i))
        /\ Cardinality(Upto(i)) <= m /\ Cardinality(Upto(i)) \in Nat
    BY <1>1, <2>1, FS_Subset, FS_CardinalityType
  <2>3. Cardinality(Upto(i)) # 0
    BY <2>1, <2>2, FS_EmptySet
  <2> QED
    BY <1>1, <2>2, <2>3
<1>3. ASSUME NEW i \in S, NEW j \in S, i < j
      PROVE  Cardinality(Upto(i)) # Cardinality(Upto(j))
  <2>1. Upto(i) \in SUBSET Upto(j) /\ j \in Upto(j) /\ j \notin Upto(i)
    <3>1. \A k \in S : k <= i => k <= j
      BY <1>3
    <3>2. j <= j /\ ~(j <= i)
      BY <1>3
    <3> QED
      BY <3>1, <3>2
  <2> QED
    BY <1>2, <2>1, FS_Subset
<1>4. rank \in Injection(S, 1..m)
  <2>1. rank \in [S -> 1..m]
    BY <1>2
  <2>2. ASSUME NEW i \in S, NEW j \in S, rank[i] = rank[j]
        PROVE  i = j
    <3>1. i \in Nat /\ j \in Nat
      OBVIOUS
    <3> QED
      BY <1>3, <2>2, <3>1
  <2> QED
    BY <2>1, <2>2 DEF Injection, IsInjective
<1>5. rank \in Surjection(S, 1..m)
  <2>1. IsFiniteSet(1..m) /\ Cardinality(1..m) = m
    BY <1>1, FS_Interval
  <2> QED
    BY <1>4, <2>1, FS_Injection
<1>6. ASSUME NEW k \in 1..m
      PROVE  Place(S, k) \in S /\ Cardinality(Upto(Place(S, k))) = k
  <2>1. \E i \in S : Cardinality(Upto(i)) = k
    BY <1>5 DEF Surjection
  <2> QED
    BY <2>1 DEF Place
<1>7. ASSUME NEW i \in S
      PROVE  Place(S, Cardinality(Upto(i))) = i
  <2>1. Cardinality(Upto(i)) \in 1..m
    BY <1>2
  <2>2. PICK p \in S : p = Place(S, Cardinality(Upto(i))) /\ rank[p] = rank[i]
    BY <1>6, <2>1
  <2> QED
    BY <1>4, <2>2 DEF Injection, IsInjective
<1> QED
  BY <1>1, <1>2, <1>6, <1>7

\* What a sequence has at some places is a sequence of those of its members.
LEMMA PickedRange ==
    ASSUME NEW S, Places(S), NEW seq
    PROVE  \A x : x \in Range(Picked(seq, S)) <=> \E i \in S : x = seq[i]
<1>1. /\ \A k \in 1..Cardinality(S) : Place(S, k) \in S
      /\ \A i \in S : \E k \in 1..Cardinality(S) : Place(S, k) = i
  BY PlacesCount
<1> QED
  BY <1>1 DEF Picked, Range

LEMMA PickedMembers ==
    ASSUME NEW S, Places(S), NEW T, NEW seq,
           \A i \in S : seq[i] \in T
    PROVE  Picked(seq, S) \in Seq(T)
<1>1. /\ Cardinality(S) \in Nat
      /\ \A k \in 1..Cardinality(S) : Place(S, k) \in S
  BY PlacesCount
<1>2. Picked(seq, S) \in [1..Cardinality(S) -> T]
  BY <1>1 DEF Picked
<1> QED
  BY <1>1, <1>2

-----------------------------------------------------------------------------
(* What a tree is true of.                                                 *)

\* The conditions that the tool and the rail make: their fields take their
\* operators.
Taken == {c \in Conditions : c.op \in AgentOperatorsFor(c.field)}

Logic == {"true", "false", "unknown"}

\* A value of SQL's logic that is true if what it stands for is, and false
\* if it is known not to be.
Stands(value, yes, no) ==
    /\ value \in Logic
    /\ value = "true" <=> yes
    /\ value = "false" <=> no

\* A row misses a condition if it has the value for it, and another one.
Misses(c, row) ==
    ~Fits(c, row) /\ (c.op \in PRESENCE_OPS \/ Cell[row][c.field].known)

\* What SQL selects, in terms of the conditions.
Selected(filter) ==
    {row \in Row :
        /\ \A c \in Range(filter.all) : Fits(c, row)
        /\ filter.any = <<>> \/ \E c \in Range(filter.any) : Fits(c, row)
        /\ \A c \in Range(filter.none) : Misses(c, row)}

LEMMA SelectedIsJudged ==
    ASSUME NEW filter
    PROVE  Selected(filter) = Meaning(filter) \ Unjudged(filter)
BY DEF Selected, Meaning, Unjudged, Misses

LEMMA OperatorsCompile ==
    ASSUME NEW c \in Taken, c.op \notin PRESENCE_OPS
    PROVE  Compiles(c)
<1>1. c.field \in Facet /\ c.op \in AgentOperatorsFor(c.field)
  BY DEF Taken, Conditions
<1>2. /\ Kind[c.field] \in {"multiSelect", "search", "number", "boolean", "date"}
      /\ IsArray[c.field] \in BOOLEAN
  BY <1>1, FacetsAreTyped
<1>3. CASE IsArray[c.field]
  BY <1>1, <1>3 DEF AgentOperatorsFor, Compiles
<1>4. CASE ~IsArray[c.field]
  BY <1>1, <1>2, <1>4 DEF AgentOperatorsFor, Compiles, OPERATORS,
     EXTRA_BY_KIND, REGISTRY, PRESENCE_OPS, LIST_OPS
<1> QED
  BY <1>3, <1>4

LEMMA ConditionStands ==
    ASSUME NEW c \in Taken, NEW row
    PROVE  Stands(CompileReference(c, row), Fits(c, row), Misses(c, row))
<1>1. CASE c.op = "isEmpty"
  BY <1>1 DEF CompileReference, Fits, Misses, Stands, Logic, Truth, PRESENCE_OPS
<1>2. CASE c.op = "isNotEmpty"
  BY <1>2 DEF CompileReference, Fits, Misses, Stands, Logic, Truth, PRESENCE_OPS
<1>3. CASE c.op \notin PRESENCE_OPS
  <2>1. Compiles(c)
    BY <1>3, OperatorsCompile
  <2>2. c.op # "isEmpty" /\ c.op # "isNotEmpty"
    BY <1>3 DEF PRESENCE_OPS
  <2>3. CASE Cell[row][c.field].known
    BY <1>3, <2>1, <2>2, <2>3
       DEF CompileReference, Fits, Misses, Stands, Logic, Truth
  <2>4. CASE ~Cell[row][c.field].known
    BY <1>3, <2>1, <2>2, <2>4
       DEF CompileReference, Fits, Misses, Stands, Logic
  <2> QED
    BY <2>3, <2>4
<1> QED
  BY <1>1, <1>2, <1>3 DEF PRESENCE_OPS

\* A value is rewritten in form only: its items stay where the SQL reads them.
LEMMA ValueKeepsMeaning ==
    ASSUME NEW c, NEW row, NEW value,
           c.op \notin PRESENCE_OPS => value.items = c.value.items
    PROVE  LET d == Condition(c.field, c.op, value)
           IN  /\ CompileReference(d, row) = CompileReference(c, row)
               /\ Fits(d, row) <=> Fits(c, row)
BY DEF Condition, CompileReference, Compiles, Fits, PRESENCE_OPS

LEMMA AndIsAll ==
    ASSUME NEW parts \in SUBSET Logic, parts # {}
    PROVE  Stands(AndOf(parts), parts = {"true"}, "false" \in parts)
<1>1. CASE "false" \in parts
  <2>1. parts # {"true"}
    BY <1>1
  <2>2. AndOf(parts) = "false"
    BY <1>1 DEF AndOf
  <2> QED
    BY <1>1, <2>1, <2>2 DEF Stands, Logic
<1>2. CASE "false" \notin parts /\ "unknown" \in parts
  <2>1. parts # {"true"}
    BY <1>2
  <2>2. AndOf(parts) = "unknown"
    BY <1>2 DEF AndOf
  <2> QED
    BY <1>2, <2>1, <2>2 DEF Stands, Logic
<1>3. CASE "false" \notin parts /\ "unknown" \notin parts
  <2>1. parts = {"true"}
    BY <1>3 DEF Logic
  <2>2. AndOf(parts) = "true"
    BY <1>3 DEF AndOf
  <2> QED
    BY <1>3, <2>1, <2>2 DEF Stands, Logic
<1> QED
  BY <1>1, <1>2, <1>3

LEMMA OrIsSome ==
    ASSUME NEW parts \in SUBSET Logic, parts # {}
    PROVE  Stands(OrOf(parts), "true" \in parts, parts = {"false"})
<1> DEFINE nots == {NotOf(p) : p \in parts}
<1>1. nots \in SUBSET Logic /\ nots # {}
  BY DEF NotOf, Logic
<1>2. Stands(AndOf(nots), nots = {"true"}, "false" \in nots)
  BY <1>1, AndIsAll
<1>3. nots = {"true"} <=> parts = {"false"}
  <2>1. \A p \in parts : NotOf(p) = "true" <=> p = "false"
    BY DEF NotOf, Logic
  <2> QED
    BY <2>1
<1>4. "false" \in nots <=> "true" \in parts
  <2>1. \A p \in parts : NotOf(p) = "false" <=> p = "true"
    BY DEF NotOf, Logic
  <2> QED
    BY <2>1
<1> HIDE DEF nots
<1>5. Stands(NotOf(AndOf(nots)), "false" \in nots, nots = {"true"})
  BY <1>2 DEF NotOf, Stands, Logic
<1> QED
  BY <1>3, <1>4, <1>5 DEF OrOf, nots, Stands

\* A condition compiles alike wherever it stands in a tree.
Even(tree, row) ==
    CompileFilterTree(tree, row) = CompileNot(tree, row)

LEMMA LeafCompiles ==
    ASSUME NEW c, NEW row
    PROVE  /\ CompileCondition(Leaf(c), row) = CompileReference(c, row)
           /\ CompileOr(Leaf(c), row) = CompileReference(c, row)
           /\ CompileNot(Leaf(c), row) = CompileReference(c, row)
           /\ CompileFilterTree(Leaf(c), row) = CompileReference(c, row)
<1>1. Leaf(c).kind = "condition" /\ Leaf(c).cond[1] = c
  BY DEF Leaf
<1> QED
  BY <1>1 DEF CompileCondition, CompileOr, CompileNot, CompileFilterTree, CompileNode

LEMMA LeavesCompile ==
    ASSUME NEW conds \in Seq(Taken), NEW row
    PROVE  /\ Len(Leaves(conds)) = Len(conds)
           /\ DOMAIN Leaves(conds) = 1..Len(conds)
           /\ Range(Leaves(conds)) = {Leaf(c) : c \in Range(conds)}
           /\ \A leaf \in Range(Leaves(conds)) : \E c \in Range(conds) :
                 /\ leaf = Leaf(c) /\ c \in Taken
                 /\ CompileReference(c, row) \in Logic
<1>1. DOMAIN conds = 1..Len(conds) /\ Len(conds) \in Nat
  OBVIOUS
<1>2. Len(Leaves(conds)) = Len(conds) /\ DOMAIN Leaves(conds) = 1..Len(conds)
  BY <1>1 DEF Leaves
<1>3. Range(Leaves(conds)) = {Leaf(c) : c \in Range(conds)}
  BY DEF Leaves, Range
<1>4. \A c \in Range(conds) : c \in Taken
  BY DEF Range
<1> QED
  BY <1>2, <1>3, <1>4, ConditionStands DEF Stands

LEMMA Disjunction ==
    ASSUME NEW conds \in Seq(Taken), conds # <<>>, NEW row
    PROVE  \E tree :
              /\ Combine("or", Leaves(conds)) = <<tree>>
              /\ CompileFilterTree(tree, row) = CompileOr(tree, row)
              /\ CompileNot(tree, row) = CompileOr(tree, row)
              /\ Stands(CompileOr(tree, row),
                        \E c \in Range(conds) : Fits(c, row),
                        \A c \in Range(conds) : Misses(c, row))
<1> DEFINE leaves == Leaves(conds)
           parts == {CompileReference(c, row) : c \in Range(conds)}
<1>0. /\ Len(leaves) = Len(conds) /\ DOMAIN leaves = 1..Len(conds)
      /\ Range(leaves) = {Leaf(c) : c \in Range(conds)}
  BY LeavesCompile
<1>1. /\ Len(conds) \in Nat /\ Len(conds) # 0
      /\ \A c \in Range(conds) :
            /\ c \in Taken
            /\ Stands(CompileReference(c, row), Fits(c, row), Misses(c, row))
  BY ConditionStands DEF Range
<1>2. CASE Len(conds) = 1
  <2>1. Range(conds) = {conds[1]}
    BY <1>2 DEF Range
  <2>2. leaves = <<Leaf(conds[1])>>
    BY <1>2 DEF Leaves
  <2>3. Combine("or", leaves) = <<Leaf(conds[1])>>
    BY <1>0, <1>2, <2>2 DEF Combine
  <2> DEFINE tree == Leaf(conds[1])
  <2>4. conds[1] \in Range(conds)
    BY <2>1
  <2>5. Stands(CompileReference(conds[1], row), Fits(conds[1], row), Misses(conds[1], row))
    BY <1>1, <2>4
  <2>6. /\ (\E c \in Range(conds) : Fits(c, row)) <=> Fits(conds[1], row)
        /\ (\A c \in Range(conds) : Misses(c, row)) <=> Misses(conds[1], row)
    BY <2>1
  <2>7. /\ CompileOr(tree, row) = CompileReference(conds[1], row)
        /\ CompileNot(tree, row) = CompileReference(conds[1], row)
        /\ CompileFilterTree(tree, row) = CompileReference(conds[1], row)
    BY LeafCompiles
  <2> HIDE DEF tree
  <2>8. Stands(CompileOr(tree, row), \E c \in Range(conds) : Fits(c, row),
               \A c \in Range(conds) : Misses(c, row))
    BY <2>5, <2>6, <2>7 DEF Stands
  <2> QED
    BY <2>3, <2>7, <2>8 DEF tree
<1>3. CASE Len(conds) # 1
  <2> DEFINE tree == Branch("or", leaves)
  <2>1. Combine("or", leaves) = <<tree>>
    BY <1>0, <1>1, <1>3 DEF Combine
  <2>2. tree.kind = "or" /\ tree.children = leaves
    BY DEF Branch
  <2>3. parts \in SUBSET Logic /\ parts # {}
    <3>1. conds[1] \in Range(conds)
      BY <1>1 DEF Range
    <3> QED
      BY <1>1, <3>1 DEF Stands
  <2>4. /\ {CompileCondition(child, row) : child \in Range(leaves)} = parts
        /\ {CompileOr(child, row) : child \in Range(leaves)} = parts
        /\ {CompileNot(child, row) : child \in Range(leaves)} = parts
    BY <1>0, LeafCompiles
  <2>5. parts \ {"dropped"} = parts
    BY <2>3 DEF Logic
  <2> HIDE DEF leaves, tree, parts
  <2>6. /\ CompileOr(tree, row) = OrOf(parts)
        /\ CompileNot(tree, row) = OrOf(parts)
        /\ CompileFilterTree(tree, row) = OrOf(parts)
    BY <2>2, <2>4, <2>5 DEF CompileOr, CompileNot, CompileFilterTree, CompileNode
  <2>7. Stands(OrOf(parts), "true" \in parts, parts = {"false"})
    BY <2>3, OrIsSome
  <2>8. "true" \in parts <=> \E c \in Range(conds) : Fits(c, row)
    BY <1>1 DEF parts, Stands
  <2>9. parts = {"false"} <=> \A c \in Range(conds) : Misses(c, row)
    BY <1>1, <2>3 DEF parts, Stands
  <2> QED
    BY <2>1, <2>6, <2>7, <2>8, <2>9 DEF leaves, Stands
<1> QED
  BY <1>2, <1>3

LEMMA Negation ==
    ASSUME NEW conds \in Seq(Taken), conds # <<>>, NEW row
    PROVE  \E tree :
              /\ Negate(Leaves(conds)) = <<tree>>
              /\ Even(tree, row)
              /\ Stands(CompileNot(tree, row),
                        \A c \in Range(conds) : Misses(c, row),
                        \E c \in Range(conds) : Fits(c, row))
<1>1. PICK inner :
         /\ Combine("or", Leaves(conds)) = <<inner>>
         /\ CompileFilterTree(inner, row) = CompileOr(inner, row)
         /\ CompileNot(inner, row) = CompileOr(inner, row)
         /\ Stands(CompileOr(inner, row),
                   \E c \in Range(conds) : Fits(c, row),
                   \A c \in Range(conds) : Misses(c, row))
  BY Disjunction
<1> DEFINE tree == Branch("not", <<inner>>)
           value == CompileOr(inner, row)
<1>2. Negate(Leaves(conds)) = <<tree>>
  <2>1. <<inner>> # <<>>
    OBVIOUS
  <2>2. Negate(Leaves(conds)) = IF <<inner>> = <<>> THEN <<>> ELSE <<tree>>
    BY <1>1, Zenon DEF Negate
  <2> QED
    BY <2>1, <2>2
<1>3. tree.kind = "not" /\ Range(tree.children) = {inner}
  BY DEF Branch, Range
<1>4. {value} \ {"dropped"} = {value}
  BY <1>1 DEF Stands, Logic
<1> HIDE DEF tree
<1>5. CompileNot(tree, row) = NotOf(value) /\ CompileFilterTree(tree, row) = NotOf(value)
  <2>1. /\ {CompileOr(child, row) : child \in Range(tree.children)} = {value}
        /\ {CompileNot(child, row) : child \in Range(tree.children)} = {value}
    BY <1>1, <1>3
  <2>2. (CHOOSE p \in {value} : TRUE) = value
    OBVIOUS
  <2> QED
    BY <1>3, <1>4, <2>1, <2>2 DEF CompileNot, CompileFilterTree, CompileNode
<1>6. Stands(NotOf(value), \A c \in Range(conds) : Misses(c, row),
             \E c \in Range(conds) : Fits(c, row))
  BY <1>1 DEF NotOf, Stands, Logic
<1> QED
  BY <1>2, <1>5, <1>6 DEF Even

LEMMA Conjunction ==
    ASSUME NEW T, NEW trees \in Seq(T), trees # <<>>, NEW row,
           \A tree \in Range(trees) :
              Even(tree, row) /\ CompileNot(tree, row) \in Logic
    PROVE  \E tree :
              /\ Combine("and", trees) = <<tree>>
              /\ CompileFilterTree(tree, row) \in Logic
              /\ CompileFilterTree(tree, row) = "true" <=>
                    \A child \in Range(trees) : CompileNot(child, row) = "true"
<1>1. Len(trees) \in Nat /\ Len(trees) # 0 /\ DOMAIN trees = 1..Len(trees)
  OBVIOUS
<1>2. CASE Len(trees) = 1
  <2>1. Range(trees) = {trees[1]} /\ trees = <<trees[1]>>
    BY <1>1, <1>2 DEF Range
  <2>2. Combine("and", trees) = <<trees[1]>>
    BY <1>2, <2>1 DEF Combine
  <2> QED
    BY <2>1, <2>2 DEF Even
<1>3. CASE Len(trees) # 1
  <2> DEFINE tree == Branch("and", trees)
             parts == {CompileNot(child, row) : child \in Range(trees)}
  <2>1. Combine("and", trees) = <<tree>>
    BY <1>1, <1>3 DEF Combine
  <2>2. tree.kind = "and" /\ tree.children = trees
    BY DEF Branch
  <2>3. parts \in SUBSET Logic /\ parts # {}
    <3>1. trees[1] \in Range(trees)
      BY <1>1 DEF Range
    <3> QED
      BY <3>1
  <2>4. parts \ {"dropped"} = parts
    BY <2>3 DEF Logic
  <2>5. CompileFilterTree(tree, row) = AndOf(parts)
    BY <2>2, <2>4 DEF CompileFilterTree, CompileNode
  <2>6. parts = {"true"} <=>
           \A child \in Range(trees) : CompileNot(child, row) = "true"
    BY <2>3
  <2> HIDE DEF tree, parts
  <2>7. Stands(AndOf(parts), parts = {"true"}, "false" \in parts)
    BY <2>3, AndIsAll
  <2>8. /\ CompileFilterTree(tree, row) \in Logic
        /\ CompileFilterTree(tree, row) = "true" <=>
              \A child \in Range(trees) : CompileNot(child, row) = "true"
    BY <2>5, <2>6, <2>7 DEF Stands
  <2> QED
    BY <2>1, <2>8
<1> QED
  BY <1>2, <1>3

-----------------------------------------------------------------------------
(* Searches.                                                               *)

\* Normalising a value changes neither what a condition fits nor what it
\* misses.
LEMMA NormalisedConditions ==
    ASSUME NEW conds \in Seq(Taken), NEW row
    PROVE  \E normal \in Seq(Taken) :
              /\ CompileConditions(conds) = Leaves(normal)
              /\ Len(normal) = Len(conds)
              /\ (\E c \in Range(normal) : Fits(c, row)) <=>
                    \E c \in Range(conds) : Fits(c, row)
              /\ (\A c \in Range(normal) : Fits(c, row)) <=>
                    \A c \in Range(conds) : Fits(c, row)
              /\ (\A c \in Range(normal) : Misses(c, row)) <=>
                    \A c \in Range(conds) : Misses(c, row)
<1> DEFINE N(c) == Condition(c.field, c.op, NormaliseValue(c))
           normal == [i \in DOMAIN conds |-> N(conds[i])]
<1>1. ASSUME NEW c \in Taken
      PROVE  /\ N(c) \in Taken
             /\ Fits(N(c), row) <=> Fits(c, row)
             /\ Misses(N(c), row) <=> Misses(c, row)
  <2>1. c \in Conditions /\ c.value \in Values /\ c.value.items \in Seq(Int)
    BY DEF Taken, Conditions, Values
  <2>2. /\ NormaliseValue(c) \in Values
        /\ c.op \notin PRESENCE_OPS => NormaliseValue(c).items = c.value.items
    BY <2>1 DEF NormaliseValue, Val, Values
  <2>3. /\ N(c).field = c.field /\ N(c).op = c.op
        /\ N(c) \in Conditions
    BY <2>1, <2>2 DEF Condition, Conditions
  <2>4. Fits(N(c), row) <=> Fits(c, row)
    BY <2>2, ValueKeepsMeaning
  <2> HIDE DEF N
  <2> QED
    BY <2>3, <2>4 DEF Taken, Misses
<1> HIDE DEF N
<1>2. /\ DOMAIN conds = 1..Len(conds) /\ Len(conds) \in Nat
      /\ \A i \in DOMAIN conds : conds[i] \in Taken
  OBVIOUS
<1>3. normal \in Seq(Taken) /\ Len(normal) = Len(conds)
  BY <1>1, <1>2
<1>4. CompileConditions(conds) = Leaves(normal)
  BY DEF CompileConditions, N
<1>5. Range(normal) = {N(c) : c \in Range(conds)}
  BY DEF Range
<1>6. \A c \in Range(conds) : c \in Taken
  BY <1>2 DEF Range
<1> HIDE DEF normal
<1> QED
  BY <1>1, <1>3, <1>4, <1>5, <1>6

\* Trees side by side in an AND, that together hold where p does.
Group(trees, row, p) ==
    /\ trees \in Seq(Range(trees))
    /\ \A tree \in Range(trees) :
          Even(tree, row) /\ CompileNot(tree, row) \in Logic
    /\ (\A tree \in Range(trees) : CompileNot(tree, row) = "true") <=> p

LEMMA ConditionsGroup ==
    ASSUME NEW conds \in Seq(Taken), NEW row
    PROVE  Group(Leaves(conds), row, \A c \in Range(conds) : Fits(c, row))
<1>1. /\ Range(Leaves(conds)) = {Leaf(c) : c \in Range(conds)}
      /\ DOMAIN Leaves(conds) = 1..Len(conds)
  BY LeavesCompile
<1>2. Leaves(conds) \in Seq(Range(Leaves(conds)))
  BY <1>1 DEF Leaves, Range
<1>3. ASSUME NEW c \in Range(conds)
      PROVE  /\ Even(Leaf(c), row) /\ CompileNot(Leaf(c), row) \in Logic
             /\ CompileNot(Leaf(c), row) = "true" <=> Fits(c, row)
  <2>1. c \in Taken
    BY DEF Range
  <2> QED
    BY <2>1, LeafCompiles, ConditionStands DEF Even, Stands
<1> QED
  BY <1>1, <1>2, <1>3 DEF Group

LEMMA OneTreeGroup ==
    ASSUME NEW tree, NEW row, NEW yes, NEW no, Even(tree, row),
           Stands(CompileNot(tree, row), yes, no)
    PROVE  Group(<<tree>>, row, yes)
<1>1. Range(<<tree>>) = {tree} /\ <<tree>> \in Seq({tree})
  BY DEF Range
<1> QED
  BY <1>1 DEF Group, Stands

LEMMA NoTreeGroup ==
    ASSUME NEW row
    PROVE  Group(<<>>, row, TRUE)
<1>1. Range(<<>>) = {} /\ <<>> \in Seq({})
  BY DEF Range
<1> QED
  BY <1>1 DEF Group

LEMMA JoinedRange ==
    ASSUME NEW T, NEW a \in Seq(T), NEW b \in Seq(T)
    PROVE  Range(a \o b) = Range(a) \cup Range(b)
<1> DEFINE S == Range(a) \cup Range(b)
<1>1. /\ DOMAIN a = 1..Len(a) /\ Len(a) \in Nat
      /\ DOMAIN b = 1..Len(b) /\ Len(b) \in Nat
      /\ DOMAIN (a \o b) = 1..(Len(a) + Len(b))
      /\ \A i \in 1..(Len(a) + Len(b)) :
            (a \o b)[i] = IF i <= Len(a) THEN a[i] ELSE b[i - Len(a)]
  OBVIOUS
<1>2. Range(a \o b) \subseteq S
  <2> SUFFICES ASSUME NEW i \in DOMAIN (a \o b)
               PROVE  (a \o b)[i] \in S
    BY DEF Range
  <2>1. CASE i <= Len(a)
    BY <1>1, <2>1 DEF Range
  <2>2. CASE ~(i <= Len(a))
    <3>1. i - Len(a) \in DOMAIN b /\ (a \o b)[i] = b[i - Len(a)]
      BY <1>1, <2>2
    <3> QED
      BY <3>1 DEF Range
  <2> QED
    BY <2>1, <2>2
<1>3. ASSUME NEW i \in DOMAIN a
      PROVE  a[i] \in Range(a \o b)
  <2>1. i \in DOMAIN (a \o b) /\ (a \o b)[i] = a[i]
    BY <1>1
  <2> QED
    BY <2>1 DEF Range
<1>4. ASSUME NEW i \in DOMAIN b
      PROVE  b[i] \in Range(a \o b)
  <2>1. i + Len(a) \in DOMAIN (a \o b) /\ (a \o b)[i + Len(a)] = b[i]
    BY <1>1
  <2> QED
    BY <2>1 DEF Range
<1>5. S \subseteq Range(a \o b)
  BY <1>3, <1>4 DEF Range
<1> QED
  BY <1>2, <1>5

LEMMA GroupsTogether ==
    ASSUME NEW a, NEW b, NEW row, NEW p, NEW q,
           Group(a, row, p), Group(b, row, q)
    PROVE  Group(a \o b, row, p /\ q)
<1> DEFINE S == Range(a) \cup Range(b)
<1>1. a \in Seq(S) /\ b \in Seq(S)
  <2>1. a \in Seq(Range(a)) /\ b \in Seq(Range(b))
    BY DEF Group
  <2> QED
    BY <2>1 DEF Range
<1>2. Range(a \o b) = S
  BY <1>1, JoinedRange
<1>3. a \o b \in Seq(Range(a \o b))
  BY <1>1, <1>2
<1> HIDE DEF S
<1> QED
  BY <1>2, <1>3 DEF Group, S

\* An AND of a group finds the rows where it holds.
LEMMA GroupFinds ==
    ASSUME NEW trees, NEW row \in Row, NEW p, Group(trees, row, p)
    PROVE  row \in Found(Combine("and", trees)) <=> p
<1>1. CASE trees = <<>>
  <2>1. Combine("and", trees) = <<>> /\ Range(trees) = {}
    BY <1>1 DEF Combine, Range
  <2> QED
    BY <2>1 DEF Found, Group
<1>2. CASE trees # <<>>
  <2>1. PICK tree :
           /\ Combine("and", trees) = <<tree>>
           /\ CompileFilterTree(tree, row) \in Logic
           /\ CompileFilterTree(tree, row) = "true" <=>
                 \A child \in Range(trees) : CompileNot(child, row) = "true"
    BY <1>2, Conjunction DEF Group
  <2>2. row \in Found(<<tree>>) <=> CompileFilterTree(tree, row) = "true"
    BY <2>1 DEF Found, Logic
  <2> QED
    BY <2>1, <2>2 DEF Group
<1> QED
  BY <1>1, <1>2

\* The search of a rail finds the rows that fit all its conditions.
LEMMA RailFinds ==
    ASSUME NEW conds \in Seq(Taken)
    PROVE  Found(BuildFilterTree(conds)) =
              {row \in Row : \A c \in Range(conds) : Fits(c, row)}
<1>1. \A row \in Row : row \in Found(BuildFilterTree(conds)) <=>
                         \A c \in Range(conds) : Fits(c, row)
  BY ConditionsGroup, GroupFinds DEF BuildFilterTree
<1> QED
  BY <1>1 DEF Found

\* The search of a filter finds the rows that fit and miss its conditions.
LEMMA FilterFinds ==
    ASSUME NEW filter, filter.all \in Seq(Taken), filter.any \in Seq(Taken),
           filter.none \in Seq(Taken)
    PROVE  Found(CompileAgentFilter(filter)) = Selected(filter)
<1> SUFFICES ASSUME NEW row \in Row
             PROVE  row \in Found(CompileAgentFilter(filter)) <=>
                       row \in Selected(filter)
  BY DEF Found, Selected
<1> DEFINE all == CompileConditions(filter.all)
           any == Combine("or", CompileConditions(filter.any))
           none == Negate(CompileConditions(filter.none))
           allFit == \A c \in Range(filter.all) : Fits(c, row)
           anyFits == filter.any = <<>> \/ \E c \in Range(filter.any) : Fits(c, row)
           noneFits == \A c \in Range(filter.none) : Misses(c, row)
<1>1. Group(all, row, allFit)
  <2>1. PICK normal \in Seq(Taken) :
           /\ all = Leaves(normal)
           /\ (\A c \in Range(normal) : Fits(c, row)) <=> allFit
    BY NormalisedConditions
  <2>2. Group(Leaves(normal), row, \A c \in Range(normal) : Fits(c, row))
    BY ConditionsGroup
  <2> QED
    BY <2>1, <2>2 DEF Group
<1>2. Group(any, row, anyFits)
  <2>1. CASE filter.any = <<>>
    <3>1. any = <<>>
      BY <2>1 DEF CompileConditions, Leaves, Combine
    <3> QED
      BY <2>1, <3>1, NoTreeGroup DEF Group
  <2>2. CASE filter.any # <<>>
    <3>0. anyFits <=> \E c \in Range(filter.any) : Fits(c, row)
      BY <2>2
    <3> HIDE DEF anyFits
    <3>1. PICK normal \in Seq(Taken) :
             /\ CompileConditions(filter.any) = Leaves(normal)
             /\ Len(normal) = Len(filter.any)
             /\ (\E c \in Range(normal) : Fits(c, row)) <=> anyFits
      BY <3>0, NormalisedConditions
    <3>2. normal # <<>>
      BY <2>2, <3>1
    <3>3. PICK tree :
             /\ Combine("or", Leaves(normal)) = <<tree>>
             /\ CompileFilterTree(tree, row) = CompileOr(tree, row)
             /\ CompileNot(tree, row) = CompileOr(tree, row)
             /\ Stands(CompileOr(tree, row),
                       \E c \in Range(normal) : Fits(c, row),
                       \A c \in Range(normal) : Misses(c, row))
      BY <3>2, Disjunction
    <3>4. any = <<tree>> /\ Even(tree, row)
      BY <3>1, <3>3 DEF Even
    <3>5. Stands(CompileNot(tree, row),
                 \E c \in Range(normal) : Fits(c, row),
                 \A c \in Range(normal) : Misses(c, row))
      BY <3>3
    <3>6. Group(<<tree>>, row, \E c \in Range(normal) : Fits(c, row))
      BY <3>4, <3>5, OneTreeGroup
    <3> QED
      BY <3>1, <3>4, <3>6 DEF Group
  <2> QED
    BY <2>1, <2>2
<1>3. Group(none, row, noneFits)
  <2>1. CASE filter.none = <<>>
    <3>1. none = <<>> /\ Range(filter.none) = {}
      BY <2>1 DEF CompileConditions, Leaves, Negate, Combine, Range
    <3> QED
      BY <3>1, NoTreeGroup DEF Group
  <2>2. CASE filter.none # <<>>
    <3>1. PICK normal \in Seq(Taken) :
             /\ CompileConditions(filter.none) = Leaves(normal)
             /\ Len(normal) = Len(filter.none)
             /\ (\A c \in Range(normal) : Misses(c, row)) <=> noneFits
      BY NormalisedConditions
    <3>2. normal # <<>>
      BY <2>2, <3>1
    <3>3. PICK tree :
             /\ none = <<tree>>
             /\ Even(tree, row)
             /\ Stands(CompileNot(tree, row),
                       \A c \in Range(normal) : Misses(c, row),
                       \E c \in Range(normal) : Fits(c, row))
      BY <3>1, <3>2, Negation
    <3>4. Group(<<tree>>, row, \A c \in Range(normal) : Misses(c, row))
      BY <3>3, OneTreeGroup
    <3> QED
      BY <3>1, <3>3, <3>4 DEF Group
  <2> QED
    BY <2>1, <2>2
<1> HIDE DEF all, any, none, allFit, anyFits, noneFits
<1>4. Group(all \o any, row, allFit /\ anyFits)
  BY <1>1, <1>2, GroupsTogether
<1> DEFINE both == allFit /\ anyFits
<1> HIDE DEF both
<1>5. Group((all \o any) \o none, row, both /\ noneFits)
  <2>1. Group(all \o any, row, both)
    BY <1>4 DEF both
  <2> QED
    BY <1>3, <2>1, GroupsTogether
<1>6. row \in Found(Combine("and", (all \o any) \o none)) <=>
         both /\ noneFits
  BY <1>5, GroupFinds
<1> QED
  BY <1>6 DEF both, CompileAgentFilter, Selected, all, any, none, allFit, anyFits, noneFits

-----------------------------------------------------------------------------
(* From a link to the rail.                                                *)

\* What a facet's control would have made of a condition has its field, its
\* operator and its items.
LEMMA FacetValueKeeps ==
    ASSUME NEW c \in Taken, ToFacetValue(c) # <<>>
    PROVE  \E value \in Values :
              /\ ToFacetValue(c)[1] = Condition(c.field, c.op, value)
              /\ value.items = c.value.items
              /\ ToFacetValue(c)[1] \in Taken
<1> DEFINE list == Kind[c.field] \in {"multiSelect", "search"}
           range == Kind[c.field] = "number" /\ c.op = "isBetween"
           value == [form |-> IF list \/ range THEN "many" ELSE "one",
                     spelled |-> c.value.spelled /\ Kind[c.field] = "date",
                     items |-> c.value.items]
           made == Condition(c.field, c.op, value)
<1>1. c \in Conditions /\ c.value \in Values
  BY DEF Taken, Conditions
<1>2. value \in Values /\ value.items = c.value.items
  BY <1>1 DEF Values
<1>3. made.field = c.field /\ made.op = c.op /\ made \in Conditions
  BY <1>1, <1>2 DEF Condition, Conditions
<1>4. ToFacetValue(c) = <<made>>
  BY DEF ToFacetValue
<1> HIDE DEF made, value
<1>5. made \in Taken
  BY <1>3 DEF Taken
<1> QED
  BY <1>2, <1>4, <1>5 DEF made

LEMMA SelectionIsTaken ==
    ASSUME NEW filter, filter.all \in Seq(Taken)
    PROVE  /\ ToFacetSelection(filter) \in Seq(Taken)
           /\ \A c : c \in Range(ToFacetSelection(filter)) <=>
                 \E i \in Shown(filter.all) : c = ToFacetValue(filter.all[i])[1]
<1> DEFINE S == Shown(filter.all)
           shown == [i \in S |-> ToFacetValue(filter.all[i])[1]]
<1>1. PICK n \in Nat : n = Len(filter.all) /\ DOMAIN filter.all = 1..n
  OBVIOUS
<1>2. Places(S)
  BY <1>1, SomePlaces DEF Shown
<1>3. \A i \in S : shown[i] \in Taken
  <2> SUFFICES ASSUME NEW i \in S
               PROVE  shown[i] \in Taken
    OBVIOUS
  <2>1. filter.all[i] \in Taken /\ ToFacetValue(filter.all[i]) # <<>>
    BY <1>1, <1>2 DEF Shown
  <2>2. shown[i] = ToFacetValue(filter.all[i])[1]
    OBVIOUS
  <2> QED
    BY <2>1, <2>2, FacetValueKeeps
<1>4. \A i \in S : shown[i] = ToFacetValue(filter.all[i])[1]
  OBVIOUS
<1>5. ToFacetSelection(filter) = Picked(shown, S)
  BY DEF ToFacetSelection
<1> HIDE DEF S, shown
<1>6. Picked(shown, S) \in Seq(Taken)
  BY <1>2, <1>3, PickedMembers
<1>7. \A c : c \in Range(Picked(shown, S)) <=> \E i \in S : c = shown[i]
  BY <1>2, PickedRange
<1> QED
  BY <1>4, <1>5, <1>6, <1>7 DEF S

\* A rail that shows a whole link finds the rows of its filter.
LEMMA WholeLinkFinds ==
    ASSUME NEW filter, filter.all \in Seq(Taken), filter.any \in Seq(Taken),
           filter.none \in Seq(Taken), Unmapped(filter) = {}
    PROVE  Found(BuildFilterTree(ToFacetSelection(filter))) = Meaning(filter)
<1> DEFINE rail == ToFacetSelection(filter)
<1>1. /\ rail \in Seq(Taken)
      /\ \A c : c \in Range(rail) <=>
            \E i \in Shown(filter.all) : c = ToFacetValue(filter.all[i])[1]
  BY SelectionIsTaken
<1>2. Shown(filter.all) = DOMAIN filter.all
  BY DEF Unmapped, UnmappedOfAll, Shown
<1>3. filter.any = <<>> /\ filter.none = <<>>
  <2>1. DOMAIN (filter.all \o filter.any \o filter.none) \subseteq DOMAIN filter.all
    BY DEF Unmapped
  <2>2. /\ DOMAIN (filter.all \o filter.any \o filter.none)
               = 1..(Len(filter.all) + Len(filter.any) + Len(filter.none))
        /\ DOMAIN filter.all = 1..Len(filter.all)
        /\ Len(filter.all) \in Nat /\ Len(filter.any) \in Nat
        /\ Len(filter.none) \in Nat
    OBVIOUS
  <2>3. PICK a \in Nat, b \in Nat, c \in Nat :
           a = Len(filter.all) /\ b = Len(filter.any) /\ c = Len(filter.none)
    BY <2>2
  <2>4. 1..(a + b + c) \subseteq 1..a
    BY <2>1, <2>2, <2>3, Zenon
  <2>5. b = 0 /\ c = 0
    <3> SUFFICES ASSUME b + c # 0
                 PROVE  FALSE
      OBVIOUS
    <3>1. (a + b + c) \in 1..(a + b + c) /\ ~((a + b + c) \in 1..a)
      OBVIOUS
    <3> QED
      BY <2>4, <3>1
  <2>6. Len(filter.any) = 0 /\ Len(filter.none) = 0
    BY <2>3, <2>5
  <2>7. \A seq \in Seq(Taken) : Len(seq) = 0 => seq = <<>>
    OBVIOUS
  <2> QED
    BY <2>6, <2>7
<1>4. ASSUME NEW row, NEW i \in DOMAIN filter.all
      PROVE  Fits(ToFacetValue(filter.all[i])[1], row) <=> Fits(filter.all[i], row)
  <2>1. filter.all[i] \in Taken /\ ToFacetValue(filter.all[i]) # <<>>
    BY <1>2 DEF Shown
  <2>2. PICK value \in Values :
           /\ ToFacetValue(filter.all[i])[1]
                 = Condition(filter.all[i].field, filter.all[i].op, value)
           /\ value.items = filter.all[i].value.items
    BY <2>1, FacetValueKeeps
  <2> QED
    BY <2>2, ValueKeepsMeaning
<1>5. ASSUME NEW row
      PROVE  (\A c \in Range(rail) : Fits(c, row)) <=>
                \A c \in Range(filter.all) : Fits(c, row)
  <2>1. \A c : c \in Range(filter.all) <=> \E i \in DOMAIN filter.all : c = filter.all[i]
    BY DEF Range
  <2> HIDE DEF rail
  <2>2. (\A c \in Range(rail) : Fits(c, row)) <=>
           \A i \in DOMAIN filter.all : Fits(ToFacetValue(filter.all[i])[1], row)
    BY <1>1, <1>2
  <2>3. (\A c \in Range(filter.all) : Fits(c, row)) <=>
           \A i \in DOMAIN filter.all : Fits(filter.all[i], row)
    BY <2>1
  <2> QED
    BY <1>4, <2>2, <2>3
<1> HIDE DEF rail
<1>6. Found(BuildFilterTree(rail)) =
         {row \in Row : \A c \in Range(rail) : Fits(c, row)}
  BY <1>1, RailFinds
<1>7. Meaning(filter) = {row \in Row : \A c \in Range(filter.all) : Fits(c, row)}
  <2>1. Range(filter.none) = {}
    BY <1>3 DEF Range
  <2> QED
    BY <1>3, <2>1 DEF Meaning
<1> QED
  BY <1>5, <1>6, <1>7 DEF rail

-----------------------------------------------------------------------------
(* The page.                                                               *)

UrlTaken(u) ==
    /\ u.filter.all \in Seq(Taken)
    /\ u.filter.any \in Seq(Taken)
    /\ u.filter.none \in Seq(Taken)

\* The page's url is the one it was opened with until its link is read.
Unread == ~hydrated => url = opened /\ nav = Stay

\* From then on the rail and the names are those of the link, until the user
\* changes them.
AsRead ==
    hydrated /\ ~touched /\ opened.kind = "link" =>
        /\ selection = ToFacetSelection(opened.filter)
        /\ unmapped = Unmapped(opened.filter)

PageInv ==
    /\ UrlTaken(opened) /\ UrlTaken(url) /\ UrlTaken(nav)
    /\ selection \in Seq(Taken)
    /\ Unread /\ AsRead

LEMMA PlainUrls == UrlTaken(Bare) /\ UrlTaken(Unreadable) /\ UrlTaken(Stay)
<1>1. <<>> \in Seq(Taken)
  OBVIOUS
<1>2. /\ Bare.filter = Filter(<<>>, <<>>, <<>>)
      /\ Unreadable.filter = Filter(<<>>, <<>>, <<>>)
      /\ Stay.filter = Filter(<<>>, <<>>, <<>>)
  BY DEF Bare, Unreadable, Stay, Url
<1> QED
  BY <1>1, <1>2 DEF UrlTaken, Filter

LEMMA LinksAreTaken ==
    ASSUME NEW filter \in Links
    PROVE  UrlTaken(Link(filter))
<1> DEFINE conds == filter.all \o filter.any \o filter.none
<1>1. /\ filter.all \in Seq(Conditions) /\ filter.any \in Seq(Conditions)
      /\ filter.none \in Seq(Conditions)
      /\ \A c \in Range(conds) : c.op \in AgentOperatorsFor(c.field)
  BY LinksAreAccepted DEF Accepted, AcceptsCondition
<1>2. Range(conds) = Range(filter.all) \cup Range(filter.any) \cup Range(filter.none)
  <2>0. filter.all \o filter.any \in Seq(Conditions)
    BY <1>1
  <2>1. PICK both \in Seq(Conditions) : both = filter.all \o filter.any
    BY <2>0
  <2>2. Range(both) = Range(filter.all) \cup Range(filter.any)
    BY <1>1, <2>1, JoinedRange
  <2>3. Range(both \o filter.none) = Range(both) \cup Range(filter.none)
    BY ZenonT(40), <1>1, <2>1, JoinedRange
  <2> QED
    BY <2>1, <2>2, <2>3
<1> HIDE DEF conds
<1>3. ASSUME NEW seq \in Seq(Conditions), Range(seq) \subseteq Range(conds)
      PROVE  seq \in Seq(Taken)
  <2>1. ASSUME NEW i \in DOMAIN seq
        PROVE  seq[i] \in Taken
    <3>1. seq[i] \in Conditions /\ seq[i] \in Range(seq)
      BY DEF Range
    <3> QED
      BY <1>1, <1>3, <3>1 DEF Taken
  <2> QED
    BY <2>1
<1>4. /\ filter.all \in Seq(Taken) /\ filter.any \in Seq(Taken)
      /\ filter.none \in Seq(Taken)
  BY <1>1, <1>2, <1>3
<1> QED
  BY <1>4 DEF UrlTaken, Link, Url

LEMMA RailUrlTaken ==
    ASSUME NEW conds \in Seq(Taken)
    PROVE  UrlTaken(ToAgentFilter(conds))
BY PlainUrls DEF ToAgentFilter, UrlTaken, Link, Url, Filter

LEMMA ThresholdsArePosed ==
    ASSUME NEW f, NEW c \in Thresholds(f)
    PROVE  \E op \in THRESHOLD_OPS, x \in Choice[f] : c = Posed(f, op, "one", <<x>>)
BY DEF Thresholds

LEMMA DaysArePosed ==
    ASSUME NEW f, NEW c \in Days(f)
    PROVE  \E op \in DAY_OPS, x \in Choice[f] : c = Posed(f, op, "one", <<x>>)
BY DEF Days

\* Whatever the control of a facet hands on, its field takes the operator.
LEMMA ControlsAreTaken ==
    ASSUME selection \in Seq(Taken), NEW f \in Facet, NEW c \in Controlled(f)
    PROVE  c \in Taken
<1>1. Items(f) \in Seq(Int)
  <2> DEFINE now == {d \in Range(selection) : d.field = f}
  <2>1. CASE now = {}
    BY <2>1 DEF Items
  <2>2. CASE now # {}
    <3>1. PICK d \in now : Items(f) = d.value.items
      BY <2>2 DEF Items
    <3>2. d \in Taken
      BY DEF Range
    <3> QED
      BY <3>1, <3>2 DEF Taken, Conditions, Values
  <2> QED
    BY <2>1, <2>2
<1>2. ASSUME NEW x \in Int
      PROVE  Toggled(f, x) \in Seq(Int)
  <2> DEFINE rest == {i \in DOMAIN Items(f) : Items(f)[i] # x}
  <2>1. PICK n \in Nat : DOMAIN Items(f) = 1..n
    BY <1>1
  <2>2. /\ Places(rest)
        /\ \A i \in rest : Items(f)[i] \in Int
    BY <1>1, <2>1, SomePlaces
  <2> HIDE DEF rest
  <2>3. Picked(Items(f), rest) \in Seq(Int)
    BY <2>2, PickedMembers
  <2>4. Append(Items(f), x) \in Seq(Int)
    BY <1>1
  <2> QED
    BY <2>3, <2>4 DEF rest, Toggled
<1>3. ASSUME NEW i \in 1..2, NEW x \in Int
      PROVE  [Ends(f) EXCEPT ![i] = x] \in Seq(Int)
  <2>1. PICK n \in Nat : Ends(f) \in [1..n -> Int]
    <3>1. <<0, 0>> \in [1..2 -> Int]
      OBVIOUS
    <3> QED
      BY <1>1, <3>1 DEF Ends
  <2>2. PICK g \in [1..n -> Int] : g = [Ends(f) EXCEPT ![i] = x]
    BY <2>1
  <2>3. g \in Seq(Int)
    OBVIOUS
  <2> QED
    BY <2>2, <2>3
<1>4. Choice[f] \subseteq Int
  BY ChoicesAreItems
<1>5. ASSUME NEW op \in OPS, NEW form \in {"one", "many"}, NEW list \in Seq(Int),
             op \in AgentOperatorsFor(f)
      PROVE  Posed(f, op, form, list) \in Taken
  <2>1. Val(form, list) \in Values
    BY <1>5 DEF Val, Values
  <2>2. /\ Posed(f, op, form, list) \in Conditions
        /\ Posed(f, op, form, list).field = f
        /\ Posed(f, op, form, list).op = op
    BY <2>1 DEF Posed, Condition, Conditions
  <2> QED
    BY <1>5, <2>2 DEF Taken
<1>6. IsArray[f] => Kind[f] \in {"multiSelect", "search"}
  BY FacetsAreTyped
<1>7. \A x \in Int : <<x>> \in Seq(Int)
  OBVIOUS
<1>8. CASE Kind[f] \in {"multiSelect", "search"}
  <2>1. Controlled(f) = Lists(f)
    BY <1>8 DEF Controlled
  <2>2. PICK x \in Choice[f] : c = Posed(f, "isAnyOf", "many", Toggled(f, x))
    BY <2>1 DEF Lists
  <2>3. "isAnyOf" \in AgentOperatorsFor(f)
    BY <1>8 DEF AgentOperatorsFor, OPERATORS, LIST_OPS
  <2> QED
    BY <1>2, <1>4, <1>5, <2>2, <2>3 DEF OPS
<1>9. CASE Kind[f] = "number"
  <2>1. Controlled(f) = Thresholds(f) \cup Ranges(f)
    BY <1>9 DEF Controlled
  <2>2. THRESHOLD_OPS \cup {"isBetween"} \subseteq AgentOperatorsFor(f)
    BY <1>6, <1>9 DEF AgentOperatorsFor, OPERATORS, THRESHOLD_OPS
  <2>3. CASE c \in Thresholds(f)
    <3>1. PICK op \in THRESHOLD_OPS, x \in Choice[f] : c = Posed(f, op, "one", <<x>>)
      BY <2>3, ThresholdsArePosed
    <3>2. op \in OPS /\ op \in AgentOperatorsFor(f) /\ <<x>> \in Seq(Int)
      BY <1>4, <1>7, <2>2 DEF OPS, THRESHOLD_OPS
    <3> QED
      BY <1>5, <3>1, <3>2
  <2>4. CASE c \in Ranges(f)
    <3>1. PICK i \in 1..2, x \in Choice[f] :
             c = Posed(f, "isBetween", "many", [Ends(f) EXCEPT ![i] = x])
      BY SMTT(30), <2>4 DEF Ranges
    <3> QED
      BY <1>3, <1>4, <1>5, <2>2, <3>1 DEF OPS
  <2> QED
    BY <2>1, <2>3, <2>4
<1>10. CASE Kind[f] = "boolean"
  <2>1. Controlled(f) = Switches(f)
    BY <1>10 DEF Controlled
  <2>2. "is" \in AgentOperatorsFor(f)
    BY <1>6, <1>10 DEF AgentOperatorsFor, OPERATORS
  <2> QED
    BY <1>4, <1>5, <1>7, <2>1, <2>2 DEF OPS, Switches
<1>11. CASE Kind[f] = "date"
  <2>1. Controlled(f) = Days(f)
    BY <1>11 DEF Controlled
  <2>2. DAY_OPS \subseteq AgentOperatorsFor(f)
    BY <1>6, <1>11 DEF AgentOperatorsFor, OPERATORS, DAY_OPS
  <2> QED
    <3>1. PICK op \in DAY_OPS, x \in Choice[f] : c = Posed(f, op, "one", <<x>>)
      BY <2>1, DaysArePosed
    <3>2. op \in OPS /\ op \in AgentOperatorsFor(f) /\ <<x>> \in Seq(Int)
      BY <1>4, <1>7, <2>2 DEF OPS, DAY_OPS
    <3> QED
      BY <1>5, <3>1, <3>2
<1> QED
  BY <1>8, <1>9, <1>10, <1>11, FacetsAreTyped

LEMMA PutIsTaken ==
    ASSUME selection \in Seq(Taken), NEW c \in Taken
    PROVE  Put(c) \in Seq(Taken)
<1>1. PICK n \in Nat : DOMAIN selection = 1..n /\ selection \in [1..n -> Taken]
  OBVIOUS
<1>2. CASE c.field \in FieldsOf(selection)
  BY <1>1, <1>2 DEF Put
<1>3. CASE c.field \notin FieldsOf(selection)
  BY <1>3 DEF Put
<1> QED
  BY <1>2, <1>3

LEMMA WithoutIsTaken ==
    ASSUME selection \in Seq(Taken), NEW f
    PROVE  Without(f) \in Seq(Taken)
<1> DEFINE S == {i \in DOMAIN selection : selection[i].field # f}
<1>1. PICK n \in Nat : DOMAIN selection = 1..n
  OBVIOUS
<1>2. /\ Places(S)
      /\ \A i \in S : selection[i] \in Taken
  BY <1>1, SomePlaces
<1> HIDE DEF S
<1>3. Picked(selection, S) \in Seq(Taken)
  BY <1>2, PickedMembers
<1> QED
  BY <1>3 DEF Without, S

LEMMA InitPage == Init => PageInv
<1> SUFFICES ASSUME Init
             PROVE  PageInv
  OBVIOUS
<1>1. UrlTaken(opened)
  BY PlainUrls, LinksAreTaken DEF Init
<1>2. <<>> \in Seq(Taken)
  OBVIOUS
<1> QED
  BY <1>1, <1>2, PlainUrls DEF Init, PageInv, Unread, AsRead

LEMMA StepPage == PageInv /\ [Next]_vars => PageInv'
<1> SUFFICES ASSUME PageInv, [Next]_vars
             PROVE  PageInv'
  OBVIOUS
<1>1. CASE Hydrate
  <2>1. url = opened
    BY <1>1 DEF Hydrate, PageInv, Unread
  <2>2. ToFacetSelection(url.filter) \in Seq(Taken)
    BY SelectionIsTaken DEF PageInv, UrlTaken
  <2>3. opened.kind = "link" => url # Unreadable
    BY <2>1 DEF Unreadable, Url
  <2>4. UrlTaken(opened)' /\ UrlTaken(url)' /\ UrlTaken(nav)'
    BY <1>1, PlainUrls DEF Hydrate, PageInv, link, UrlTaken
  <2>5. AsRead'
    BY <1>1, <2>1, <2>3 DEF Hydrate, AsRead, link
  <2> QED
    BY <1>1, <2>2, <2>4, <2>5 DEF Hydrate, PageInv, Unread
<1>2. CASE SyncUrl
  BY <1>2, RailUrlTaken DEF SyncUrl, PageInv, Unread, AsRead, UrlTaken, link
<1>3. CASE Land
  BY <1>3, PlainUrls DEF Land, PageInv, Unread, AsRead, UrlTaken, link
<1>4. ASSUME NEW conds \in Seq(Taken), Change(conds)
      PROVE  PageInv'
  BY <1>4 DEF Change, PageInv, Unread, AsRead, UrlTaken
<1>5. CASE SetFacet
  <2>1. PICK f \in Facet : \E c \in Controlled(f) : Change(Put(c))
    BY <1>5 DEF SetFacet
  <2>2. PICK c \in Controlled(f) : Change(Put(c))
    BY <2>1
  <2> QED
    BY <1>4, <2>2, ControlsAreTaken, PutIsTaken DEF PageInv
<1>6. CASE UnsetFacet
  BY <1>4, <1>6, WithoutIsTaken DEF UnsetFacet, PageInv
<1>7. CASE Clear
  <2>1. <<>> \in Seq(Taken)
    OBVIOUS
  <2> QED
    BY <1>4, <1>7, <2>1 DEF Clear
<1>8. CASE Dismiss
  BY <1>8 DEF Dismiss, PageInv, Unread, AsRead, UrlTaken, address
<1>9. CASE \E r \in Loaded : Toggle(r)
  BY <1>9 DEF Toggle, PageInv, Unread, AsRead, UrlTaken, address, link
<1>10. CASE ToggleAll
  BY <1>10 DEF ToggleAll, PageInv, Unread, AsRead, UrlTaken, address, link
<1>11. CASE Reload
  <2>1. <<>> \in Seq(Taken)
    OBVIOUS
  <2> QED
    BY <1>11, <2>1, PlainUrls DEF Reload, PageInv, Unread, AsRead, UrlTaken
<1>12. CASE Answer
  BY <1>12 DEF Answer, PageInv, Unread, AsRead, UrlTaken, address, link
<1>13. CASE UNCHANGED vars
  BY <1>13 DEF vars, PageInv, Unread, AsRead, UrlTaken
<1> QED
  BY <1>1, <1>2, <1>3, <1>5, <1>6, <1>7, <1>8, <1>9, <1>10, <1>11, <1>12,
     <1>13 DEF Next

LEMMA PageHolds == Spec => []PageInv
BY InitPage, StepPage, PTL DEF Spec

\* The search that the assistant runs finds only rows its filter describes: for
\* every dictionary, operator table and filter the tool accepts, no condition is
\* dropped by the compiler, and the only rows it misses are those without a
\* value for an excluded condition.
THEOREM SearchesMeanFilters == Spec => []SearchMeansFilter
<1>1. PageInv => SearchMeansFilter
  <2> SUFFICES ASSUME PageInv
               PROVE  SearchMeansFilter
    OBVIOUS
  <2>1. Found(CompileAgentFilter(opened.filter)) = Selected(opened.filter)
    BY FilterFinds DEF PageInv, UrlTaken
  <2> QED
    BY <2>1, SelectedIsJudged DEF SearchMeansFilter
<1> QED
  BY <1>1, PageHolds, PTL

\* A link shows the rows that were reported or names what it does not show,
\* whatever navigation of the page is under way.
THEOREM LinksAreHonest == Spec => []LinkIsHonest
<1>1. PageInv => LinkIsHonest
  <2> SUFFICES ASSUME PageInv, opened.kind = "link", ~touched, hydrated,
                      unmapped = {}
               PROVE  Found(BuildFilterTree(selection)) = Meaning(opened.filter)
    BY DEF LinkIsHonest
  <2>1. /\ selection = ToFacetSelection(opened.filter)
        /\ Unmapped(opened.filter) = {}
    BY DEF PageInv, AsRead
  <2> QED
    BY <2>1, WholeLinkFinds DEF PageInv, UrlTaken
<1> QED
  BY <1>1, PageHolds, PTL
============================================================================
