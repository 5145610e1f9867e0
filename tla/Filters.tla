------------------------------ MODULE Filters ------------------------------
(***************************************************************************)
(* The filter languages of prospecting as operators over small tables: the *)
(* assistant's filter, its translation to a filter tree, and the rows that *)
(* the SQL compiled from a tree selects.                                   *)
(*                                                                         *)
(* A condition is [field, op, value].  A value is [form, spelled, items]:  *)
(* a scalar ("one"), an array ("many"), {min, max} ("object") or nothing   *)
(* ("absent"); spelled when its items are written in another way than the  *)
(* column stores them ("$2B", "2026-01", "yes").  Items are numbers in the *)
(* order of the column.  A tree or nothing (null) is a sequence of at most *)
(* one tree.                                                               *)
(***************************************************************************)
EXTENDS Integers, Sequences, FiniteSets, Functions

CONSTANTS
    Facet,      \* fields of the dictionary, by their key
    Kind,       \* the kind it is defined with (a long list is shown as a search
                \* instead, with the same operators and values)
    IsArray,    \* whether its column is an array
    Row,        \* rows of the market projection, by crd
    Cell,       \* the values of a row's column; Null for SQL's NULL
    Like,       \* <<op, value, item>>: the text op of value and item holds
    Now         \* the day on which the filters are run

Null == [known |-> FALSE, values |-> {}]

ASSUME FacetsAreTyped ==
    /\ Kind \in [Facet -> {"multiSelect", "search", "number", "boolean",
                           "date"}]
    /\ IsArray \in [Facet -> BOOLEAN]
    /\ \A f \in Facet : IsArray[f] => Kind[f] \in {"multiSelect", "search"}
ASSUME RowsAreNumbered == Row \subseteq Nat /\ IsFiniteSet(Row)

Val(form, items) == [form |-> form, spelled |-> FALSE, items |-> items]
Condition(field, op, value) == [field |-> field, op |-> op, value |-> value]

\* The operators that some field takes, and the conditions the schema lets through.
OPS == {"isEmpty", "isNotEmpty", "is", "isNot", "isAnyOf", "isNoneOf",
        "isLessThan", "isGreaterThan", "isBefore", "isAfter", "isBetween",
        "isWithinLastNDays", "contains", "startsWith"}
Values == [form : {"one", "many", "object", "absent"}, spelled : BOOLEAN,
           items : Seq(Int)]
Conditions == [field : Facet, op : OPS, value : Values]

PRESENCE_OPS == {"isEmpty", "isNotEmpty"}
LIST_OPS == {"isAnyOf", "isNoneOf"}

-----------------------------------------------------------------------------
(* Which operators a field takes.                                          *)

OPERATORS(kind) ==
    CASE kind = "multiSelect" -> LIST_OPS \cup PRESENCE_OPS
      [] kind = "search" -> LIST_OPS
      [] kind = "number" -> {"isGreaterThan", "isLessThan", "isBetween"}
                            \cup PRESENCE_OPS
      [] kind = "boolean" -> {"is"}
      [] kind = "date" -> {"isWithinLastNDays", "isAfter", "isBefore",
                           "isBetween"}

EXTRA_BY_KIND(kind) ==
    CASE kind = "number" -> {"is", "isNot"}
      [] kind = "date" -> PRESENCE_OPS
      [] kind = "boolean" -> {"isNot"} \cup PRESENCE_OPS
      [] OTHER -> {"is", "isNot", "contains", "startsWith"}

\* slip: array columns are offered the operators of their kind
AgentOperatorsOfKind(f) == OPERATORS(Kind[f]) \cup EXTRA_BY_KIND(Kind[f])

AgentOperatorsFor(f) ==
    IF IsArray[f] THEN LIST_OPS \cup PRESENCE_OPS
    ELSE OPERATORS(Kind[f]) \cup EXTRA_BY_KIND(Kind[f])

\* Those of these operators the registry has for a column of this kind.
REGISTRY(kind) ==
    PRESENCE_OPS \cup
    CASE kind = "number" -> {"is", "isNot", "isLessThan", "isGreaterThan",
                             "isBetween"}
      [] kind = "date" -> {"is", "isNot", "isBefore", "isAfter", "isBetween",
                           "isWithinLastNDays"}
      [] kind = "boolean" -> {"is", "isNot"}
      [] OTHER -> {"is", "isNot", "contains", "startsWith"} \cup LIST_OPS

-----------------------------------------------------------------------------
(* The assistant's values.                                                 *)

\* A value the tool accepts for the field and the operator, ...
Readable(c) ==
    LET v == c.value IN
    IF c.op \in PRESENCE_OPS THEN TRUE
    ELSE IF c.op = "isWithinLastNDays" THEN v.form = "one" /\ v.items[1] >= 1
    ELSE IF c.op = "isBetween" THEN
        /\ v.form \in {"many", "object"} /\ Len(v.items) = 2
        /\ Kind[c.field] = "number" => v.items[1] <= v.items[2]
    ELSE IF c.op \in LIST_OPS \/ IsArray[c.field] THEN
        v.form \in {"one", "many"} /\ v.items # <<>>
    ELSE v.form = "one"

\* ... and what it makes of it.
NormaliseValue(c) ==
    IF c.op \in PRESENCE_OPS THEN Val("absent", <<>>)
    ELSE IF c.op \in {"isBetween"} \cup LIST_OPS \/ IsArray[c.field]
         THEN Val("many", c.value.items)
         ELSE Val("one", c.value.items)

AcceptsCondition(c) ==
    /\ c.field \in Facet
    /\ c.op \in AgentOperatorsFor(c.field)
    /\ Readable(c)

-----------------------------------------------------------------------------
(* Filter trees.                                                           *)

Leaf(c) == [kind |-> "condition", cond |-> <<c>>, children |-> <<>>]
Branch(kind, trees) == [kind |-> kind, cond |-> <<>>, children |-> trees]

\* A branch of some trees: nothing for none, the tree itself for one.
Combine(kind, trees) ==
    IF Len(trees) <= 1 THEN trees ELSE <<Branch(kind, trees)>>

Leaves(conds) == [i \in DOMAIN conds |-> Leaf(conds[i])]

CompileConditions(conds) ==
    Leaves([i \in DOMAIN conds |->
              Condition(conds[i].field, conds[i].op,
                        NormaliseValue(conds[i]))])

Negate(trees) ==
    LET inner == Combine("or", trees)
    IN  IF inner = <<>> THEN <<>> ELSE <<Branch("not", inner)>>

Accepted(filter) ==
    \A c \in Range(filter.all \o filter.any \o filter.none) :
        AcceptsCondition(c)

CompileAgentFilter(filter) ==
    Combine("and", CompileConditions(filter.all)
                   \o Combine("or", CompileConditions(filter.any))
                   \o Negate(CompileConditions(filter.none)))

-----------------------------------------------------------------------------
(* What the compiled SQL is true of.  A predicate is "true", "false" or    *)
(* "unknown" of a row; a condition that compiles to nothing is "dropped".  *)

Truth(b) == IF b THEN "true" ELSE "false"

\* What an operator's SQL says of the values of a column that is not null.
Emit(op, values, items) ==
    CASE op \in {"is", "isAnyOf"} -> values \cap Range(items) # {}
      [] op \in {"isNot", "isNoneOf"} -> values \cap Range(items) = {}
      [] op \in {"isLessThan", "isBefore"} -> \A x \in values : x < items[1]
      [] op \in {"isGreaterThan", "isAfter"} ->
           \A x \in values : x > items[1]
      [] op = "isBetween" ->
           \A x \in values : items[1] <= x /\ x <= items[2]
      [] op = "isWithinLastNDays" -> \A x \in values : x + items[1] >= Now
      [] op \in {"contains", "startsWith"} ->
           \A x \in values : <<op, x, items[1]>> \in Like

Compiles(c) ==
    IF IsArray[c.field] THEN c.op \in {"is", "isNot"} \cup LIST_OPS
    ELSE c.op \in REGISTRY(Kind[c.field])

CompileReference(c, row) ==
    LET cell == Cell[row][c.field] IN
    CASE c.op = "isEmpty" -> Truth(cell.values = {})
      [] c.op = "isNotEmpty" -> Truth(cell.values # {})
      [] OTHER ->
           IF ~Compiles(c) THEN "dropped"
           ELSE IF ~cell.known THEN "unknown"
           ELSE Truth(Emit(c.op, cell.values, c.value.items))

\* AND, OR and NOT of predicates in SQL's logic; dropped ones are left out.
AndOf(parts) ==
    IF parts = {} THEN "dropped"
    ELSE IF "false" \in parts THEN "false"
    ELSE IF "unknown" \in parts THEN "unknown"
    ELSE "true"

NotOf(part) ==
    CASE part = "true" -> "false"
      [] part = "false" -> "true"
      [] OTHER -> part

OrOf(parts) == NotOf(AndOf({NotOf(p) : p \in parts}))

\* A tree, when its children compile as Child says.
CompileNode(tree, row, Child(_, _)) ==
    LET parts == {Child(child, row) : child \in Range(tree.children)}
                 \ {"dropped"}
    IN  CASE tree.kind = "condition" -> CompileReference(tree.cond[1], row)
          [] tree.kind = "and" -> AndOf(parts)
          [] tree.kind = "or" -> OrOf(parts)
          [] tree.kind = "not" ->
               IF parts = {} THEN "dropped"
               ELSE NotOf(CHOOSE p \in parts : TRUE)

\* The compiler recurses.  No tree of the assistant or of the rail has more
\* than four levels: and, not, or, condition.
CompileCondition(tree, row) == CompileReference(tree.cond[1], row)
CompileOr(tree, row) == CompileNode(tree, row, CompileCondition)
CompileNot(tree, row) == CompileNode(tree, row, CompileOr)
CompileFilterTree(tree, row) == CompileNode(tree, row, CompileNot)

\* The rows of a search with this tree, or with none.
Found(tree) ==
    {row \in Row : tree # <<>> =>
        CompileFilterTree(tree[1], row) \in {"true", "dropped"}}

\* A search is answered with an error when its schema refuses a value.  Only
\* a day can be misspelled: the rail sends the other kinds as they are.
Searchable(conds) == \A c \in Range(conds) : ~c.value.spelled

-----------------------------------------------------------------------------
(* What a filter says, without the tree and SQL: every condition of all    *)
(* must match, at least one of any, and rows matching one of none are      *)
(* excluded.  A value that is not known matches no operator but isEmpty.   *)

Fits(c, row) ==
    LET cell == Cell[row][c.field] IN
    CASE c.op = "isEmpty" -> cell.values = {}
      [] c.op = "isNotEmpty" -> cell.values # {}
      [] OTHER -> cell.known /\ Emit(c.op, cell.values, c.value.items)

Meaning(filter) ==
    {row \in Row :
        /\ \A c \in Range(filter.all) : Fits(c, row)
        /\ filter.any = <<>> \/ \E c \in Range(filter.any) : Fits(c, row)
        /\ \A c \in Range(filter.none) : ~Fits(c, row)}

\* Rows that have no value where an excluded condition compares one: nobody can
\* say that they match, and NOT of SQL's unknown does not select them.
Unjudged(filter) ==
    {row \in Row : \E c \in Range(filter.none) :
        c.op \notin PRESENCE_OPS /\ ~Cell[row][c.field].known}
============================================================================
