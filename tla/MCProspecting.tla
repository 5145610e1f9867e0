--------------------------- MODULE MCProspecting ---------------------------
(* Instances of Prospecting for TLC: a facet of each kind, one over an     *)
(* array; rows whose values are unknown, empty or several.                 *)
EXTENDS Prospecting, SequencesExt

Facets == {"state", "custodians", "aum", "active", "joined"}
Kinds == [state |-> "multiSelect", custodians |-> "search", aum |-> "number",
          active |-> "boolean", joined |-> "date"]
Arrays == [f \in Facets |-> f = "custodians"]

Known(values) == [known |-> TRUE, values |-> values]
Table(state, custodians, aum, active, joined) ==
    [state |-> state, custodians |-> custodians, aum |-> aum,
     active |-> active, joined |-> joined]

Cells ==
    <<Table(Known({1}), Known({1, 2}), Known({5}), Known({1}), Known({3})),
      Table(Known({2}), Known({}), Null, Known({0}), Known({8})),
      Table(Null, Known({2}), Known({4}), Null, Null),
      Table(Known({2}), Null, Known({7}), Known({1}), Known({9}))>>

\* The text 2 contains and starts with 1; a value does so with itself.
LikeOps == {"contains", "startsWith"} \X {<<1, 1>>, <<2, 2>>, <<2, 1>>}
Likes == {<<p[1], p[2][1], p[2][2]>> : p \in LikeOps}

Raw(f, op, form, items) == Posed(f, op, form, items)
Spelled(c) == [c EXCEPT !.value.spelled = TRUE]

OfAll ==
    {Raw("state", "isAnyOf", "one", <<1>>),
     Raw("state", "isNoneOf", "many", <<1>>),
     Raw("state", "contains", "one", <<1>>),
     Raw("state", "isNotEmpty", "absent", <<>>),
     Raw("custodians", "isAnyOf", "many", <<1, 2>>),
     Raw("custodians", "isNoneOf", "many", <<1>>),
     Raw("custodians", "contains", "one", <<1>>),
     Raw("custodians", "isEmpty", "absent", <<>>),
     Spelled(Raw("aum", "isGreaterThan", "one", <<4>>)),
     Raw("aum", "isLessThan", "one", <<5>>),
     Raw("aum", "isEmpty", "one", <<5>>),
     Raw("aum", "isBetween", "many", <<4, 5>>),
     Raw("aum", "isBetween", "object", <<4, 5>>),
     Raw("aum", "isBetween", "many", <<5, 4>>),
     Raw("active", "is", "one", <<1>>),
     Spelled(Raw("active", "isNot", "one", <<1>>)),
     Spelled(Raw("joined", "isAfter", "one", <<5>>)),
     Raw("joined", "isWithinLastNDays", "one", <<2>>)}

OfAny == {Raw("state", "isNoneOf", "many", <<1>>),
          Raw("aum", "isGreaterThan", "one", <<4>>)}
OfNone == {Raw("custodians", "isAnyOf", "one", <<1>>),
           Raw("active", "is", "one", <<0>>)}

\* Two conditions on one field, and on two that the rail can show.
Pairs == {<<c, d>> : c, d \in OfAll}
OnePair(p) ==
    \/ p[1].field = p[2].field
    \/ \A i \in 1..2 : <<p[i].field, p[i].op>> \in
          {<<"state", "isAnyOf">>, <<"aum", "isLessThan">>,
           <<"joined", "isAfter">>}

Singles(S) == {<<c>> : c \in S}
UpTo2(S) == {<<>>} \cup Singles(S) \cup {SetToSeq(S)}

Reported ==
    {f \in {Filter(all, <<>>, <<>>) : all \in
                {<<>>} \cup Singles(OfAll) \cup {p \in Pairs : OnePair(p)}}
           \cup {Filter(all, any, none) :
                all \in {<<>>} \cup Singles(OfAny),
                any \in UpTo2(OfAny), none \in UpTo2(OfNone)} :
        Accepted(f)}

Offered == [f \in Facets |->
    CASE f \in {"state", "active"} -> {1}
      [] f = "aum" -> {5}
      [] OTHER -> {}]
============================================================================
