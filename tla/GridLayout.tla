----------------------------- MODULE GridLayout -----------------------------
(***************************************************************************)
(* The columns of one entity's default grid in one workspace.  They are    *)
(* written by provisionWorkspace, inline when the workspace is created and *)
(* again by the script that re-provisions every workspace after a release, *)
(* and by the recruiters, who move, pin and hide columns.                  *)
(*                                                                         *)
(* Nothing here runs in a transaction: every statement commits by itself,  *)
(* so a statement is a step.  A position is a LexoRank: a rank after every *)
(* rank, before every rank and between any two can be made, and here ranks *)
(* are integers, LexoRank's step apart, that only a few moves halve.       *)
(***************************************************************************)
EXTENDS Integers, Sequences, FiniteSets

CONSTANTS
    Runs,       \* calls of provisionWorkspace
    Moves,      \* calls of move-view-field
    Changes,    \* calls of update-view-field
    Attr,       \* stable keys of the seeded attributes
    Releases,   \* what a release seeds: [attrs, meta, visible, pinned]
    None,
    CanCrash, CanOverlap

Step == 8       \* genNext and genPrev
Middle == 0     \* LexoRank.middle()

Release == [attrs : Seq(Attr), meta : [Attr -> Nat],
            visible : SUBSET Attr, pinned : SUBSET Attr]

ASSUME GridLayoutAssumption ==
    /\ Releases \subseteq Release
    /\ \A rel \in Releases : \A m, n \in DOMAIN rel.attrs :
            rel.attrs[m] = rel.attrs[n] => m = n    \* a stable key is unique
    /\ None \notin Attr \cup Nat
    /\ Runs \cap (Moves \cup Changes) = {} /\ Moves \cap Changes = {}
    /\ CanCrash \in BOOLEAN /\ CanOverlap \in BOOLEAN

VARIABLES
    entity,      \* the entity row exists
    attribute,   \* attribute[a]: the metadata of its row, or None
    views,       \* how many default views there are: their ids are 1..views
    fields,      \* the entity_view_field rows, with the attribute of their path
    pc,          \* control of every call
    release, at, todo, known, view, found, rank,  \* locals of a run
    listed, aim, goal,                        \* locals of a move
    overlapped   \* history: two runs have been at work at once

tables == <<entity, attribute, views, fields>>
runLocals == <<release, at, todo, known, view, found, rank>>
moveLocals == <<listed, aim, goal>>
vars == <<tables, pc, runLocals, moveLocals, overlapped>>

Call == Runs \cup Moves \cup Changes

Ended == {"done", "failed", "crashed"}

Init ==
    /\ entity = FALSE
    /\ attribute = [a \in Attr |-> None]
    /\ views = 0
    /\ fields = <<>>
    /\ pc = [c \in Call |-> "idle"]
    /\ release \in [Runs -> Releases]
    /\ at = [r \in Runs |-> 1]
    /\ todo = [r \in Runs |-> {}]
    /\ known = [r \in Runs |-> {}]
    /\ view = [r \in Runs |-> 0]
    /\ found = [r \in Runs |-> FALSE]
    /\ rank = [r \in Runs |-> Middle]
    /\ listed = [m \in Moves |-> <<>>]
    /\ aim = [m \in Moves |-> 0]
    /\ goal = [m \in Moves |-> [field |-> 0, rank |-> Middle]]
    /\ overlapped = FALSE

Go(c, from, to) ==
    /\ pc[c] = from
    /\ pc' = [pc EXCEPT ![c] = to]

Working(r) == pc[r] \notin Ended \cup {"idle"}

\* Both loops of a run are over the attributes of its release, in order.
InLoop(r) == at[r] <= Len(release[r].attrs)
Current(r) == release[r].attrs[at[r]]
Seeded(r) == {release[r].attrs[n] : n \in DOMAIN release[r].attrs}

----------------------------------------------------------------------------
(* provisionWorkspace                                                       *)

FindEntity(r) ==
    /\ Go(r, "idle", IF entity THEN "readAttributes" ELSE "createEntity")
    /\ overlapped' = (overlapped \/ \E q \in Runs : Working(q))
    /\ CanOverlap \/ ~overlapped'
    /\ UNCHANGED <<tables, runLocals, moveLocals>>

\* The unique key on slug and workspace fails the second of two creates.
CreateEntity(r) ==
    /\ Go(r, "createEntity", IF entity THEN "failed" ELSE "readAttributes")
    /\ entity' = TRUE
    /\ UNCHANGED <<attribute, views, fields, runLocals, moveLocals, overlapped>>

\* What is to be done is known from here on: a row that is there is updated
\* if its metadata is not the release's, one that is not is created.
ReadAttributes(r) ==
    /\ Go(r, "readAttributes", "attributes")
    /\ known' = [known EXCEPT ![r] = {a \in Attr : attribute[a] # None}]
    /\ todo' = [todo EXCEPT ![r] =
                    {a \in Seeded(r) : attribute[a] # release[r].meta[a]}]
    /\ at' = [at EXCEPT ![r] = 1]
    /\ UNCHANGED <<tables, release, view, found, rank, moveLocals, overlapped>>

\* One update or create; the unique key on entity and key fails a create of
\* an attribute that another run has created in the meantime.
WriteAttribute(r) ==
    LET a == Current(r)
        clash == a \notin known[r] /\ attribute[a] # None
    IN  /\ InLoop(r)
        /\ a \in todo[r]
        /\ Go(r, "attributes", IF clash THEN "failed" ELSE "attributes")
        /\ attribute' = [attribute EXCEPT ![a] =
                            IF clash THEN @ ELSE release[r].meta[a]]
        /\ at' = [at EXCEPT ![r] = @ + 1]
        /\ UNCHANGED <<entity, views, fields, release, todo, known, view, found,
                       rank, moveLocals, overlapped>>

\* An attribute that needs nothing is passed over, in either loop.
Continue(r) ==
    /\ pc[r] \in {"attributes", "fields"}
    /\ InLoop(r)
    /\ Current(r) \notin todo[r]
    /\ at' = [at EXCEPT ![r] = @ + 1]
    /\ UNCHANGED <<tables, pc, release, todo, known, view, found, rank,
                   moveLocals, overlapped>>

\* findFirst has no order: of two default views it may return either.
FindView(r) ==
    /\ ~InLoop(r)
    /\ Go(r, "attributes", IF views = 0 THEN "createView" ELSE "readFields")
    /\ found' = [found EXCEPT ![r] = views # 0]
    /\ IF views = 0 THEN UNCHANGED view
       ELSE \E v \in 1..views : view' = [view EXCEPT ![r] = v]
    /\ UNCHANGED <<tables, release, at, todo, known, rank, moveLocals, overlapped>>

CreateView(r) ==
    /\ Go(r, "createView", "readFields")
    /\ views' = views + 1
    /\ view' = [view EXCEPT ![r] = views + 1]
    /\ UNCHANGED <<entity, attribute, fields, release, at, todo, known, found, rank,
                   moveLocals, overlapped>>

FieldsOf(v) == {i \in DOMAIN fields : fields[i].view = v}

\* The rank to go on from is the highest of the view, or the middle.
IsHighest(p, v) == \A i \in FieldsOf(v) : fields[i].rank <= p

ReadFields(r) ==
    /\ Go(r, "readFields", "readPaths")
    /\ \E p \in {Middle} \cup {fields[i].rank : i \in FieldsOf(view[r])} :
        /\ IsHighest(p, view[r])
        /\ rank' = [rank EXCEPT ![r] = p]
    /\ known' = [known EXCEPT ![r] = FieldsOf(view[r])]
    /\ UNCHANGED <<tables, release, at, todo, view, found, moveLocals, overlapped>>

\* slip: every attribute of the release gets a field again
NothingFielded(ids) == {}

Fielded(ids) == {fields[i].attr : i \in ids \cap DOMAIN fields} \ {None}

\* slip: fields are created with the view and never backfilled
FieldsOnlyWithView(r) ==
    /\ Go(r, "readPaths", "fields")
    /\ todo' = [todo EXCEPT ![r] = IF found[r] THEN {} ELSE Seeded(r)]
    /\ at' = [at EXCEPT ![r] = 1]
    /\ UNCHANGED <<tables, release, known, view, found, rank, moveLocals,
                   overlapped>>

\* The paths of the fields read; attributes without one get a field.
ReadPaths(r) ==
    /\ Go(r, "readPaths", "fields")
    /\ todo' = [todo EXCEPT ![r] = Seeded(r) \ Fielded(known[r])]
    /\ at' = [at EXCEPT ![r] = 1]
    /\ UNCHANGED <<tables, release, known, view, found, rank, moveLocals,
                   overlapped>>

\* slip: a backfilled column comes up as it would in a new view
FieldAsSeeded(r, a) ==
    [view |-> view[r], attr |-> None, rank |-> rank[r] + Step,
     visible |-> a \in release[r].visible, pinned |-> a \in release[r].pinned]

\* A field of a view that was already there stays off.
NewField(r, a) ==
    [view |-> view[r], attr |-> None, rank |-> rank[r] + Step,
     visible |-> ~found[r] /\ a \in release[r].visible,
     pinned |-> ~found[r] /\ a \in release[r].pinned]

\* The field row first; its id is kept for the path.
CreateField(r) ==
    /\ InLoop(r)
    /\ Current(r) \in todo[r]
    /\ Go(r, "fields", "path")
    /\ fields' = Append(fields, NewField(r, Current(r)))
    /\ rank' = [rank EXCEPT ![r] = @ + Step]
    /\ known' = [known EXCEPT ![r] = {Len(fields) + 1}]
    /\ UNCHANGED <<entity, attribute, views, release, at, todo, view, found,
                   moveLocals, overlapped>>

CreatePath(r) ==
    /\ Go(r, "path", "fields")
    /\ fields' = [i \in DOMAIN fields |->
                    IF i \in known[r] THEN [fields[i] EXCEPT !.attr = Current(r)]
                    ELSE fields[i]]
    /\ at' = [at EXCEPT ![r] = @ + 1]
    /\ UNCHANGED <<entity, attribute, views, release, todo, known, view, found,
                   rank, moveLocals, overlapped>>

Finish(r) ==
    /\ ~InLoop(r)
    /\ Go(r, "fields", "done")
    /\ UNCHANGED <<tables, runLocals, moveLocals, overlapped>>

\* The process or the connection dies between two statements.
Crash(r) ==
    /\ CanCrash
    /\ Working(r)
    /\ pc' = [pc EXCEPT ![r] = "crashed"]
    /\ UNCHANGED <<tables, runLocals, moveLocals, overlapped>>

----------------------------------------------------------------------------
(* update-view-field: one statement                                         *)

\* Sign-up is answered when its run has ended, however it did; the grid may be
\* that of a later run, which still makes its columns.
SignedUp == \E r \in Runs : pc[r] \in Ended

\* The menus offer it for a column: a field with a path.
Columns(v) == {i \in FieldsOf(v) : fields[i].attr # None}

Change(c) ==
    /\ SignedUp
    /\ Go(c, "idle", "done")
    /\ \E v \in 1..views : \E i \in Columns(v), b \in BOOLEAN :
        \/ fields' = [fields EXCEPT ![i].visible = b]
        \/ fields' = [fields EXCEPT ![i].pinned = b]
    /\ UNCHANGED <<entity, attribute, views, runLocals, moveLocals, overlapped>>

----------------------------------------------------------------------------
(* move-view-field: a read of the view's fields, then an update of one      *)

Shown(v) == {i \in FieldsOf(v) : fields[i].visible}

Before(i, j) ==
    \/ fields[i].pinned /\ ~fields[j].pinned
    \/ fields[i].pinned = fields[j].pinned /\ fields[i].rank <= fields[j].rank

\* ORDER BY is_pinned DESC, position: equal ranks come in either order.
Orders(ids) ==
    {s \in [1..Cardinality(ids) -> ids] :
        /\ {s[k] : k \in DOMAIN s} = ids
        /\ \A k \in 2..Cardinality(ids) : Before(s[k - 1], s[k])}

\* slip: the neighbours are looked up with the moved column still in the list
AllOfThem(s, k) == s

Others(s, k) == [n \in 1..(Len(s) - 1) |-> IF n < k THEN s[n] ELSE s[n + 1]]

\* LexoRank.between, which takes its arguments in either order.
Between(p, q) == (p + q) \div 2

\* rankBetween, for slot n of the list: None when it throws.
RankAt(s, n) ==
    LET before == n > 0
        after == n < Len(s)
    IN  IF before /\ after
        THEN IF fields[s[n]].rank = fields[s[n + 1]].rank THEN None
             ELSE Between(fields[s[n]].rank, fields[s[n + 1]].rank)
        ELSE IF after THEN fields[s[1]].rank - Step
        ELSE IF before THEN fields[s[n]].rank + Step
        ELSE Middle

Locked(s) == Cardinality({k \in DOMAIN s : fields[s[k]].pinned})

\* The slots the menus ask for: one to the left or right, and, of a column
\* that is not pinned, a drag to anywhere after the pinned ones.
Slots(s, k) ==
    LET steps == {k - 2, k}
        drags == IF fields[s[k]].pinned THEN {} ELSE Locked(s)..(Len(s) - 1)
    IN  {IF n < 0 THEN 0 ELSE IF n > Len(s) - 1 THEN Len(s) - 1 ELSE n :
            n \in steps \cup drags}

\* slip: the outcome of rankBetween is not looked at
OutcomeUnchecked(from, n, p) == IF n = from THEN "done" ELSE "write"

\* Nothing to do, a throw from between, or a rank to write.
Outcome(from, n, p) ==
    CASE n = from -> "done"
      [] n # from /\ p = None -> "failed"
      [] OTHER -> "write"

\* The column is s[k], its slot n (from 0) of the list without it.
Aim(m, s, k, n, p) ==
    /\ listed' = [listed EXCEPT ![m] = s]
    /\ aim' = [aim EXCEPT ![m] = n]
    /\ goal' = [goal EXCEPT ![m] = [field |-> s[k], rank |-> p]]
    /\ pc' = [pc EXCEPT ![m] = Outcome(k - 1, n, p)]

ReadForMove(m) ==
    /\ SignedUp
    /\ pc[m] = "idle"
    /\ \E v \in 1..views : \E s \in Orders(Shown(v)) : \E k \in DOMAIN s :
        /\ s[k] \in Columns(v)
        /\ \E n \in Slots(s, k) : Aim(m, s, k, n, RankAt(Others(s, k), n))
    /\ UNCHANGED <<tables, runLocals, overlapped>>

WriteMove(m) ==
    /\ Go(m, "write", "done")
    /\ fields' = [fields EXCEPT ![goal[m].field].rank = goal[m].rank]
    /\ UNCHANGED <<entity, attribute, views, runLocals, moveLocals, overlapped>>

----------------------------------------------------------------------------
Provision(r) ==
    \/ FindEntity(r) \/ CreateEntity(r) \/ ReadAttributes(r) \/ WriteAttribute(r)
    \/ Continue(r) \/ FindView(r) \/ CreateView(r) \/ ReadFields(r) \/ ReadPaths(r)
    \/ CreateField(r) \/ CreatePath(r) \/ Finish(r)

Next ==
    \/ \E r \in Runs : Provision(r) \/ Crash(r)
    \/ \E c \in Changes : Change(c)
    \/ \E m \in Moves : ReadForMove(m) \/ WriteMove(m)

Spec == Init /\ [][Next]_vars

----------------------------------------------------------------------------
(* Properties                                                               *)

Field == [view : Nat, attr : Attr \cup {None}, rank : Int,
          visible : BOOLEAN, pinned : BOOLEAN]

Control == {"idle", "createEntity", "readAttributes", "attributes", "createView",
            "readFields", "readPaths", "fields", "path", "write"} \cup Ended

\* Every row and every local has its type.
TypeOK ==
    /\ entity \in BOOLEAN
    /\ attribute \in [Attr -> Nat \cup {None}]
    /\ views \in Nat
    /\ fields \in Seq(Field)
    /\ pc \in [Call -> Control]
    /\ release \in [Runs -> Releases]
    /\ at \in [Runs -> Nat \ {0}]
    /\ todo \in [Runs -> SUBSET Attr]
    /\ DOMAIN known = Runs
    /\ view \in [Runs -> Nat]
    /\ found \in [Runs -> BOOLEAN]
    /\ rank \in [Runs -> Int]
    /\ listed \in [Moves -> Seq(Nat)]
    /\ aim \in [Moves -> Nat]
    /\ goal \in [Moves -> [field : Nat, rank : Int \cup {None}]]
    /\ overlapped \in BOOLEAN

\* A run that ends without an error has left every attribute of its release
\* with a row and a column of the view it worked on, wherever the runs before
\* it or beside it stopped.
EveryAttributeHasColumn ==
    \A r \in Runs : pc[r] = "done" =>
        \A a \in Seeded(r) :
            /\ attribute[a] # None
            /\ \E i \in FieldsOf(view[r]) : fields[i].attr = a

\* Runs that follow one another, crashed ones among them, leave one default
\* view and never two columns of it for one attribute: "an entity is matched
\* by slug, an attribute by its stable key, and a field by the attribute it
\* points at" (provision.ts).  Runs that overlap can leave two of each.
OneOfEach ==
    ~overlapped =>
        /\ views <= 1
        /\ \A i, j \in DOMAIN fields :
              i # j /\ fields[i].view = fields[j].view /\ fields[i].attr # None
                => fields[i].attr # fields[j].attr

\* A run never rearranges a grid it found: what its view shows, and in which
\* orders it can come, is after each statement what it was before.
FoundGridKept ==
    [][\A r \in Runs : pc[r] # pc'[r] /\ found[r]
        => (Orders(Shown(view[r])))' = Orders(Shown(view[r]))]_vars

\* The list a move has read is still what the view shows when it writes.
StillAsRead(m) ==
    \E v \in 1..views :
        /\ goal[m].field \in FieldsOf(v)
        /\ listed[m] \in Orders(Shown(v))
        /\ \E k \in DOMAIN listed[m] :
              /\ listed[m][k] = goal[m].field
              /\ goal[m].rank = RankAt(Others(listed[m], k), aim[m])

\* LexoRank makes a rank between any two; integers have none between
\* neighbours.
Room(p, q) == p + 1 < q

\* The slot is in the column's own block, pinned or not, and between the ranks
\* of its two neighbours, which ascend, there is one.
SlotIsPlain(m) ==
    LET k == CHOOSE k \in DOMAIN listed[m] : listed[m][k] = goal[m].field
        s == Others(listed[m], k)
        n == aim[m]
    IN  /\ IF fields[goal[m].field].pinned THEN n <= Locked(s) ELSE n >= Locked(s)
        /\ n \in 1..(Len(s) - 1) => Room(fields[s[n]].rank, fields[s[n + 1]].rank)

\* The column is in its slot whichever way equal ranks are listed.
Lands(m) ==
    \A v \in 1..views : goal[m].field \in Shown(v) =>
        \A s \in Orders(Shown(v)) : s[aim[m] + 1] = goal[m].field

Lifts(m) == pc[m] = "write" /\ pc'[m] = "done" /\ StillAsRead(m)

\* A move that no other write has overtaken puts the column in the slot that
\* was asked for, and in no other order of the list, if the slot's neighbours
\* are in ascending order of rank with a rank between them.
MoveLands ==
    [][\A m \in Moves : Lifts(m) /\ SlotIsPlain(m) => Lands(m)']_vars

\* What move-view-field.ts promises of a drag: pinned columns come first in
\* the list so that toIndex is the slot the user dropped on.  A column dropped
\* right behind the pinned ones gets a rank between the last pinned column's
\* and its right neighbour's, which may lie anywhere among the others.
DropLands ==
    [][\A m \in Moves :
        Lifts(m) /\ ~fields[goal[m].field].pinned
                 /\ aim[m] >= Locked(listed[m]) => Lands(m)']_vars
=============================================================================
