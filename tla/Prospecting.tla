---------------------------- MODULE Prospecting ----------------------------
(***************************************************************************)
(* The prospecting page: a rail of facets, the search it makes, the rows   *)
(* that are ticked to be saved, and the url that carries the rail's state. *)
(*                                                                         *)
(* A link of the assistant is read once, when the facets have arrived.     *)
(* From then on an effect writes the rail's state to the url: it runs      *)
(* after a render in which the selection or the url changed (due) and      *)
(* starts a navigation, which lands later and may be replaced before.      *)
(*                                                                         *)
(* The selection is the sequence of its conditions, one for a field, in    *)
(* the order in which they were made; a facet's value is its condition.    *)
(***************************************************************************)
EXTENDS Filters

CONSTANTS
    Links,      \* filters of the assistant whose search it has reported
    Choice,     \* what a facet's control offers, or what is typed into it
    PageSize,   \* rows of one search
    MaxActs     \* bound: acts of the user

\* The tool reports the search of a filter only when it accepts it.
ASSUME LinksAreAccepted ==
    \A filter \in Links :
        /\ filter \in [all : Seq(Conditions), any : Seq(Conditions),
                       none : Seq(Conditions)]
        /\ Accepted(filter)
ASSUME ChoicesAreItems == Choice \in [Facet -> SUBSET Int]

VARIABLES
    opened,     \* the url the page was opened with
    url,        \* the url now, as the page is rendered with it
    nav,        \* the url of a navigation under way, or Stay
    hydrated,   \* the link was read
    due,        \* the effect that writes the url is to run
    selection,  \* the rail
    unmapped,   \* conditions of the link named above the rows
    touched,    \* the user has changed the rail or dismissed the names
    answered,   \* the last search that succeeded; failed: not the one for the rail
    ticked,     \* rows ticked
    acts        \* acts of the user so far

link == <<opened, touched>>
address == <<url, nav, due>>
vars == <<opened, url, nav, hydrated, due, selection, unmapped, touched,
          answered, ticked, acts>>

Filter(all, any, none) == [all |-> all, any |-> any, none |-> none]
Url(kind, filter) == [kind |-> kind, filter |-> filter]
Bare == Url("bare", Filter(<<>>, <<>>, <<>>))
Unreadable == Url("unreadable", Bare.filter)
Stay == Url("stay", Bare.filter)
Link(filter) == Url("link", filter)

NotYet == [conds |-> <<>>, asked |-> FALSE, failed |-> FALSE]

-----------------------------------------------------------------------------
(* From the link to the rail and back.                                     *)

\* The condition that a facet's control would have made, or nothing.
ToFacetValue(c) ==
    LET v == c.value
        list == Kind[c.field] \in {"multiSelect", "search"}
        range == Kind[c.field] = "number" /\ c.op = "isBetween"
        day == Kind[c.field] = "date" /\ c.op # "isWithinLastNDays"
        shows ==
            /\ c.op \in OPERATORS(Kind[c.field])
            /\ \/ list /\ c.op \in LIST_OPS /\ v.form \in {"one", "many"} /\ v.items # <<>>
               \/ range /\ v.form = "many" /\ Len(v.items) = 2 /\ ~v.spelled
               \/ ~list /\ ~range /\ v.form = "one" /\ (day \/ ~v.spelled)
    IN  IF shows
        THEN <<Condition(c.field, c.op,
                  [form |-> IF list \/ range THEN "many" ELSE "one",
                   spelled |-> v.spelled /\ Kind[c.field] = "date",
                   items |-> v.items])>>
        ELSE <<>>

FieldsOf(conds) == {c.field : c \in Range(conds)}

\* The places of S, in order; what a sequence has there.
Place(S, k) == CHOOSE i \in S : Cardinality({j \in S : j <= i}) = k
Picked(seq, S) == [k \in 1..Cardinality(S) |-> seq[Place(S, k)]]

\* The rail takes the first condition of a field that it can show ...
Shown(conds) ==
    {i \in DOMAIN conds :
        /\ ToFacetValue(conds[i]) # <<>>
        /\ \A j \in 1..(i - 1) : conds[j].field = conds[i].field =>
                                     ToFacetValue(conds[j]) = <<>>}

ToFacetSelection(filter) ==
    Picked([i \in Shown(filter.all) |-> ToFacetValue(filter.all[i])[1]],
           Shown(filter.all))

\* What the rail cannot show of the first group, by its place.
\* slip: only this is named
UnmappedOfAll(filter) == DOMAIN filter.all \ Shown(filter.all)

\* ... and names the others, by their place in the filter.
Unmapped(filter) ==
    UnmappedOfAll(filter) \cup
    (DOMAIN (filter.all \o filter.any \o filter.none) \ DOMAIN filter.all)

ToAgentFilter(conds) ==
    IF conds = <<>> THEN Bare ELSE Link(Filter(conds, <<>>, <<>>))

BuildFilterTree(conds) == Combine("and", Leaves(conds))

-----------------------------------------------------------------------------
Init ==
    /\ opened \in {Bare, Unreadable} \cup {Link(f) : f \in Links}
    /\ url = opened
    /\ nav = Stay
    /\ hydrated = FALSE
    /\ due = FALSE
    /\ selection = <<>>
    /\ unmapped = {}
    /\ touched = FALSE
    /\ answered = NotYet
    /\ ticked = {}
    /\ acts = 0

\* The facets have arrived.  The effect that writes the url runs right after
\* the one that reads the link, with the empty rail of the same render.
Hydrate ==
    /\ ~hydrated
    /\ hydrated' = TRUE
    /\ selection' = ToFacetSelection(url.filter)
    /\ unmapped' = IF url = Unreadable THEN {0} ELSE Unmapped(url.filter)
    /\ due' = (url.kind = "link")
    /\ nav' = IF url = Bare THEN nav ELSE Bare
    /\ UNCHANGED <<link, url, answered, ticked, acts>>

\* The effect runs: it goes to the url of the rail, unless it is there.
SyncUrl ==
    /\ hydrated /\ due
    /\ due' = FALSE
    /\ nav' = IF url = ToAgentFilter(selection) THEN nav
              ELSE ToAgentFilter(selection)
    /\ UNCHANGED <<link, url, hydrated, selection, unmapped, answered, ticked,
                   acts>>

\* slip: the effect does not depend on the url
LandUnnoticed ==
    /\ nav # Stay
    /\ url' = nav
    /\ nav' = Stay
    /\ UNCHANGED <<link, hydrated, due, selection, unmapped, answered, ticked,
                   acts>>

\* A navigation lands, and the page is rendered with the new url.
Land ==
    /\ nav # Stay
    /\ url' = nav
    /\ nav' = Stay
    /\ due' = (due \/ url # nav)
    /\ UNCHANGED <<link, hydrated, selection, unmapped, answered, ticked,
                   acts>>

-----------------------------------------------------------------------------
(* The user's acts.                                                        *)

Act == acts < MaxActs /\ acts' = acts + 1

Posed(f, op, form, items) == Condition(f, op, Val(form, items))

\* The items that a facet has now.
Items(f) ==
    LET now == {c \in Range(selection) : c.field = f}
    IN  IF now = {} THEN <<>> ELSE (CHOOSE c \in now : TRUE).value.items

\* A box of a list is ticked or unticked; one that was the last unsets it.
Toggled(f, x) ==
    IF x \in Range(Items(f))
    THEN Picked(Items(f), {i \in DOMAIN Items(f) : Items(f)[i] # x})
    ELSE Append(Items(f), x)

Lists(f) ==
    {Posed(f, "isAnyOf", "many", Toggled(f, x)) :
        x \in {y \in Choice[f] : Toggled(f, y) # <<>>}}

\* A number is typed, or one end of a range beside the other.
Ends(f) ==
    IF \E c \in Range(selection) : c.field = f /\ c.op = "isBetween"
    THEN Items(f) ELSE <<0, 0>>

THRESHOLD_OPS == {"isGreaterThan", "isLessThan"}
Thresholds(f) ==
    {Posed(f, op, "one", <<x>>) :
        op \in THRESHOLD_OPS, x \in Choice[f]}
Ranges(f) ==
    {Posed(f, "isBetween", "many", [Ends(f) EXCEPT ![i] = x]) :
        i \in 1..2, x \in Choice[f]}

Switches(f) == {Posed(f, "is", "one", <<x>>) : x \in Choice[f]}

DAY_OPS == {"isWithinLastNDays", "isAfter"}
Days(f) ==
    {Posed(f, op, "one", <<x>>) :
        op \in DAY_OPS, x \in Choice[f]}

\* What the control of a facet can hand on.
Controlled(f) ==
    CASE Kind[f] \in {"multiSelect", "search"} -> Lists(f)
      [] Kind[f] = "number" -> Thresholds(f) \cup Ranges(f)
      [] Kind[f] = "boolean" -> Switches(f)
      [] Kind[f] = "date" -> Days(f)

\* A facet is set in place, or after the others.
Put(c) ==
    IF c.field \in FieldsOf(selection)
    THEN [i \in DOMAIN selection |->
            IF selection[i].field = c.field THEN c ELSE selection[i]]
    ELSE Append(selection, c)

Without(f) ==
    Picked(selection, {i \in DOMAIN selection : selection[i].field # f})

Change(conds) ==
    /\ Act /\ hydrated
    /\ selection' = conds
    /\ due' = TRUE
    /\ touched' = TRUE
    /\ answered' = [answered EXCEPT !.failed = @ /\ conds = selection]
    /\ UNCHANGED <<opened, url, nav, hydrated, unmapped, ticked>>

SetFacet == \E f \in Facet : \E c \in Controlled(f) : Change(Put(c))
UnsetFacet == \E f \in FieldsOf(selection) : Change(Without(f))
Clear == Change(<<>>)

Dismiss ==
    /\ Act /\ unmapped # {}
    /\ unmapped' = {}
    /\ touched' = TRUE
    /\ UNCHANGED <<opened, address, hydrated, selection, answered, ticked>>

\* The rows of a page, by crd; those of the last search that succeeded stay
\* while another is under way, and are gone when that one fails.
Loaded ==
    LET found == Found(BuildFilterTree(answered.conds))
    IN  {r \in found : answered.asked /\ ~answered.failed
                       /\ Cardinality({s \in found : s < r}) < PageSize}

Toggle(r) ==
    /\ Act
    /\ ticked' = IF r \in ticked THEN ticked \ {r} ELSE ticked \cup {r}
    /\ UNCHANGED <<link, address, hydrated, selection, unmapped, answered>>

HeaderChecked ==
    Loaded # {} /\ Cardinality(ticked) = Cardinality(Loaded)

ToggleAll ==
    /\ Act /\ Loaded # {}
    /\ ticked' = IF HeaderChecked THEN {} ELSE Loaded
    /\ UNCHANGED <<link, address, hydrated, selection, unmapped, answered>>

\* The page is opened anew with the url it has.
Reload ==
    /\ Act /\ hydrated
    /\ opened' = url
    /\ nav' = Stay
    /\ hydrated' = FALSE
    /\ due' = FALSE
    /\ selection' = <<>>
    /\ unmapped' = {}
    /\ touched' = FALSE
    /\ answered' = NotYet
    /\ ticked' = {}
    /\ UNCHANGED url

-----------------------------------------------------------------------------
\* The search for the rail is answered, or fails; one that had succeeded keeps
\* its rows if it is made again and fails.
Answer ==
    /\ hydrated
    /\ \/ /\ Searchable(selection)
          /\ answered' = [conds |-> selection, asked |-> TRUE, failed |-> FALSE]
       \/ /\ answered.asked => answered.conds # selection
          /\ answered' = [answered EXCEPT !.failed = TRUE]
    /\ answered' # answered
    /\ UNCHANGED <<link, address, hydrated, selection, unmapped, ticked, acts>>

Next ==
    \/ Hydrate \/ SyncUrl \/ Land
    \/ SetFacet \/ UnsetFacet \/ Clear \/ Dismiss
    \/ \E r \in Loaded : Toggle(r)
    \/ ToggleAll \/ Reload
    \/ Answer

Spec == Init /\ [][Next]_vars

\* React runs the effects of a render, and the router ends a navigation.
FairSpec == Spec /\ WF_vars(SyncUrl) /\ WF_vars(Land)

-----------------------------------------------------------------------------
(* Properties.                                                             *)

\* The search that the assistant runs finds only rows that its filter describes,
\* and every one of them whose excluded columns have a value: no condition is
\* dropped on the way, and no OR or NOT over a value that is not known lets a
\* row in.  Rows without such a value are described ("rows matching any of these
\* are excluded") and may not be found.
SearchMeansFilter ==
    opened.kind = "link" =>
        LET found == Found(CompileAgentFilter(opened.filter)) IN
        /\ found \subseteq Meaning(opened.filter)
        /\ Meaning(opened.filter) \ found \subseteq Unjudged(opened.filter)

\* A link shows what the assistant reported or says that it does not: while
\* nobody has changed the page, an answer without conditions named above it
\* has the rows of the filter, although the page reads the raw filter by
\* other rules than the tool that compiled it.
LinkIsHonest ==
    /\ opened.kind = "link" /\ ~touched
    /\ hydrated /\ unmapped = {}
    /\ answered.conds = selection /\ answered.asked /\ ~answered.failed
    => Found(BuildFilterTree(selection)) = Meaning(opened.filter)

\* In the end the url is that of the rail, whatever navigation was under way
\* when the rail changed, and whoever opens it gets this rail, all of it.
RailStaysShared ==
    <>[](hydrated =>
            /\ nav = Stay
            /\ url = ToAgentFilter(selection)
            /\ ToFacetSelection(url.filter) = selection
            /\ Unmapped(url.filter) = {})

\* "all means all loaded, not all matching": when the box above the rows is
\* ticked, the ticked rows are the loaded ones.
AllTickedMeansAllLoaded == HeaderChecked => ticked = Loaded
============================================================================
