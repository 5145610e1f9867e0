---------------------------- MODULE LoaderProofs ----------------------------
(***************************************************************************)
(* What the loads leave in PostgreSQL, for any collections, loaders and    *)
(* rebuilds, whatever is refused, fails or is killed, though the lock lets *)
(* two loaders in and stages outlive theirs.                               *)
(***************************************************************************)
EXTENDS Loader, FiniteSetTheorems, WellFoundedInduction, TLAPS

\* A published collection is in the seed, whole.
SeedInv ==
    \A c \in Collections : Eligible(c) =>
        registrations[c] = Registered[c] /\ Observed[c] \subseteq individuals

\* A row is a registration of its collection, or says of someone that the
\* collection has none for him to conduct business with.
IsTrue(o) ==
    IF o.firm = None
    THEN ~\E r \in Registered[o.collection] : r.adviser = o.adviser /\ r.conducts
    ELSE \E r \in Registered[o.collection] : o = RowOf(o.collection, r)

\* Every row staged or loaded is true of its collection.
TrueInv == \A o \in staged_rows \cup observations : IsTrue(o)

\* The rows staged are those of the complete runs staged, of the firms known.
Matched ==
    \A c \in Collections : \A r \in Registered[c] :
        RowOf(c, r) \in staged_rows <=>
            \E s \in staged_runs : s.collection = c /\ s.complete /\ r.firm \in s.known

\* While no two loads have met at the staging tables, they hold what the one
\* load that is using them has put there.
StagingInv ==
    \A l \in Loaders :
        /\ \A m \in Loaders : Midway(l) /\ Midway(m) => l = m
        /\ At(l, "emptying") \/ At(l, "reading") => staged_runs = {}
        /\ At(l, "reading") => staged_rows = {}
        /\ At(l, "swapping") => Matched

SnapshotInv ==
    \A c \in Collections : \A r \in Registered[c] :
        RowOf(c, r) \in observations <=> r.firm \in covered[c]

WholeInv ==
    /\ TypeOK /\ SeedInv /\ TrueInv
    /\ ~shared => StagingInv /\ SnapshotInv

-----------------------------------------------------------------------------
\* No collection has been started before the ones before it were published.
SeedOrder ==
    \A c, d \in Collections : d < c /\ status[c] # "none" => Eligible(d)

\* What is staged was measured after everything in observation_run: a run that
\* it finds incomplete has none after it.
StagedOrder ==
    \A s \in staged_runs :
        /\ status[s.collection] # "none"
        /\ \A d \in Collections : d < s.collection => Claimed(d)
        /\ ~Claimed(s.collection) =>
              \A c \in Collections : c > s.collection => run[c] = None

RunOrder ==
    \A c \in Collections : run[c] # None =>
        /\ status[c] # "none"
        /\ \A d \in Collections : d < c => complete(d)
        /\ run[c].processed => diffed[c] # None

Neighbours ==
    \A c \in Collections : diffed[c] # None =>
        diffed[c] = c - 1 /\ (c > 1 => diffed[c - 1] # None)

OrderInv == TypeOK /\ (~late => SeedOrder /\ StagedOrder /\ RunOrder /\ Neighbours)

-----------------------------------------------------------------------------
(* Types                                                                    *)

LEMMA CollectionsType ==
    /\ Cardinality(Collections) \in Nat
    /\ Collections = 1..Cardinality(Collections)
    /\ \A c \in Collections : Registered[c] \subseteq Registrations
    /\ \A c \in Collections : Observed[c] \subseteq Advisers
    /\ \A c \in Collections : c \in Nat \ {0}
<1>1. IsFiniteSet(Collections) /\ Collections = 1..Cardinality(Collections)
  BY LoaderAssumption
<1>2. Cardinality(Collections) \in Nat
  BY <1>1, FS_CardinalityType
<1>3. \A c \in Collections : c \in Nat \ {0}
  BY <1>1, <1>2
<1>4. QED
  BY <1>1, <1>2, <1>3 DEF Registrations, Advisers

LEMMA SeedTypes ==
    ASSUME TypeOK, NEW c \in Collections, Ingest(c) \/ Rebuild(c) \/ Publish(c)
    PROVE  TypeOK'
<1> USE DEF TypeOK
<1>1. CASE Ingest(c)
  <2>1. PICK some \in SUBSET Observed[c] :
            registrations' = [registrations EXCEPT ![c] =
                                 {r \in Registered[c] : r.adviser \in some}]
    BY <1>1 DEF Ingest
  <2>2. {r \in Registered[c] : r.adviser \in some} \subseteq Registrations
    BY CollectionsType
  <2>3. registrations' \in [Collections -> SUBSET Registrations]
    BY <2>1, <2>2
  <2>4. status' \in [Collections -> {"none", "running", "published"}]
    BY <1>1 DEF Ingest
  <2>5. QED
    BY <1>1, <2>3, <2>4 DEF Ingest, control, market, staging
<1>2. CASE Rebuild(c)
  BY <1>2 DEF Rebuild, control, market, staging
<1>3. CASE Publish(c)
  <2>1. registrations' \in [Collections -> SUBSET Registrations]
    BY <1>3, CollectionsType DEF Publish
  <2>2. individuals' \subseteq Advisers
    BY <1>3, CollectionsType DEF Publish
  <2>3. QED
    BY <1>3, <2>1, <2>2 DEF Publish, control, market, staging, history
<1>4. QED
  BY <1>1, <1>2, <1>3

LEMMA ControlTypes ==
    ASSUME TypeOK, NEW l \in Loaders,
           \/ Look(l) \/ Remove(l) \/ Create(l) \/ Fill(l) \/ Preflight(l)
           \/ Fail(l) \/ release(l) \/ Kill(l)
    PROVE  TypeOK'
<1> USE DEF Look, Remove, Create, Fill, Preflight, Fail, release, Kill
<1>1. UNCHANGED <<seed, market, history>>
  OBVIOUS
<1>2. pc' \in [Loaders -> Places]
  BY DEF Go, GoOn, Places, Ended, TypeOK
<1>3. lock' \in Loaders \cup {"none", "empty"}
  BY DEF TypeOK
<1>4. stages' \in [Loaders -> {"all", "current-affiliation", "movement"}]
  BY DEF TypeOK
<1>5. killed' \subseteq Loaders
  BY DEF TypeOK
<1>6. QED
  BY <1>1, <1>2, <1>3, <1>4, <1>5 DEF TypeOK, seed, market, history, staging

LEMMA RegistrationType ==
    ASSUME NEW c \in Collections, NEW r \in Registered[c]
    PROVE  r.adviser \in Advisers /\ r.firm \in Firms /\ r.firm # None /\ r.conducts \in BOOLEAN
<1>1. r \in [adviser : Observed[c], firm : Firms, conducts : BOOLEAN]
  BY LoaderAssumption
<1>2. QED
  BY <1>1, CollectionsType, LoaderAssumption

LEMMA RowsTypes ==
    ASSUME TypeOK, NEW l \in Loaders
    PROVE  Runs(l) \subseteq StagedRun /\ Rows \subseteq Observation /\ Absences \subseteq Observation
<1>1. Runs(l) \subseteq StagedRun
  <2> SUFFICES ASSUME NEW s \in Runs(l) PROVE s \in StagedRun
    OBVIOUS
  <2>1. PICK c \in Collections :
            s = [collection |-> c, complete |-> Eligible(c), known |-> firm, by |-> l]
    BY DEF Runs, Measured
  <2>2. Eligible(c) \in BOOLEAN /\ firm \subseteq Firms
    BY DEF Eligible, TypeOK
  <2>3. QED
    BY <2>1, <2>2 DEF StagedRun
<1>2. Rows \subseteq Observation
  <2> SUFFICES ASSUME NEW o \in Rows PROVE o \in Observation
    OBVIOUS
  <2>1. PICK c \in Collections, r \in Registrations :
            r \in registrations[c] /\ o = RowOf(c, r)
    BY DEF Rows, Published, TypeOK
  <2>2. QED
    BY <2>1, RegistrationType DEF Registrations, Observation, RowOf
<1>3. Absences \subseteq Observation
  <2> SUFFICES ASSUME NEW o \in Absences PROVE o \in Observation
    OBVIOUS
  <2>1. PICK c \in Collections, a \in individuals : o = AbsenceOf(c, a)
    BY DEF Absences, Absent, Published
  <2>2. QED
    BY <2>1 DEF Observation, TypeOK, AbsenceOf
<1>4. QED
  BY <1>1, <1>2, <1>3

\* The run rows of a swap, of a movement; the predecessor is a number.
LEMMA BeforeType ==
    ASSUME NEW c \in Collections
    PROVE  /\ Before(c) \in Nat
           /\ (\A d \in Collections : d < c => complete(d)) => Before(c) = c - 1
<1> DEFINE B == {0} \cup {d \in Collections : complete(d) /\ d < c}
           Best(b) == \A d \in Collections : complete(d) /\ d < c => d <= b
<1>1. B \subseteq Nat /\ B # {} /\ \A b \in B : b < c
  BY CollectionsType
<1>2. \E b \in B : Best(b)
  <2> DEFINE D == {m \in Nat : \E b \in B : m = c - b}
  <2>1. \A b \in B : c - b \in D
    BY <1>1, CollectionsType
  <2>2. D \in SUBSET Nat /\ D # {}
    BY <1>1, <2>1
  <2>3. PICK m \in D : \A n \in D : m <= n
    <3>1. IsWellFoundedOn(OpToRel(<, Nat), Nat)
      BY NatLessThanWellFounded
    <3>2. PICK m \in D : \A n \in D : ~(<<n, m>> \in OpToRel(<, Nat))
      BY <2>2, <3>1, WFMin
    <3>3. \A n \in D : n \in Nat /\ m \in Nat /\ ~(n < m)
      BY <2>2, <3>2 DEF OpToRel
    <3>4. QED
      BY <3>3
  <2>4. PICK b \in B : m = c - b
    OBVIOUS
  <2>5. \A d \in B : c - b <= c - d
    BY <2>1, <2>3, <2>4
  <2> HIDE DEF B
  <2>6. \A d \in B : d <= b
    BY <1>1, <2>4, <2>5, CollectionsType
  <2> USE DEF B
  <2>7. QED
    BY <2>6
<1>3. Before(c) \in B /\ Best(Before(c))
  BY <1>2 DEF Before
<1>4. ASSUME \A d \in Collections : d < c => complete(d)
      PROVE  Before(c) = c - 1
  <2>1. CASE c = 1
    BY <1>3, <2>1, CollectionsType
  <2>2. CASE c # 1
    <3>1. c - 1 \in Collections /\ c - 1 < c
      BY <2>2, CollectionsType
    <3>2. c - 1 <= Before(c)
      BY <1>3, <1>4, <3>1
    <3>3. QED
      BY <1>1, <1>3, <3>1, <3>2, CollectionsType
  <2>3. QED
    BY <2>1, <2>2
<1>5. QED
  BY <1>1, <1>3, <1>4

\* What is in a run row after a swap, and after a movement.
LEMMA SwapRun ==
    ASSUME TypeOK, NEW l \in Loaders, Swap(l)
    PROVE  /\ run' \in [Collections -> ObservationRun \cup {None}]
           /\ \A c \in Collections :
                 /\ run'[c] # None => run[c] # None \/ StagedFor(c) # {}
                 /\ complete(c)' => Claimed(c) \/ complete(c)
                 /\ Claimed(c) => complete(c)'
                 /\ complete(c) /\ ~complete(c)' => ~Claimed(c) /\ StagedFor(c) # {}
                 /\ run'[c] # None /\ run'[c].processed => run[c] # None /\ run[c].processed
<1> DEFINE Row(c) == [complete |-> Claimed(c),
                      processed |-> run[c] # None /\ run[c].processed]
<1>1. run' = [c \in Collections |-> IF StagedFor(c) # {} THEN Row(c) ELSE run[c]]
  BY DEF Swap
<1>2. \A c \in Collections : Row(c) \in ObservationRun /\ Row(c) # None
  <2> SUFFICES ASSUME NEW c \in Collections PROVE Row(c) \in ObservationRun
    BY LoaderAssumption
  <2>1. run[c] # None => run[c].processed \in BOOLEAN
    BY DEF TypeOK, ObservationRun
  <2>2. (run[c] # None /\ run[c].processed) \in BOOLEAN
    BY <2>1
  <2>3. Claimed(c) \in BOOLEAN
    BY DEF Claimed
  <2>4. QED
    BY <2>2, <2>3 DEF ObservationRun
<1>3. \A c \in Collections : StagedFor(c) # {} => run'[c] = Row(c)
  BY <1>1
<1>4. \A c \in Collections : StagedFor(c) = {} => run'[c] = run[c]
  BY <1>1
<1>5. run' \in [Collections -> ObservationRun \cup {None}]
  <2> HIDE DEF Row
  <2>1. QED
    BY <1>1, <1>2 DEF TypeOK
<1>6. ASSUME NEW c \in Collections, StagedFor(c) # {}
      PROVE  /\ run'[c] # None
             /\ run'[c].complete <=> Claimed(c)
             /\ run'[c].processed <=> run[c] # None /\ run[c].processed
  <2>1. run'[c] = Row(c) /\ Row(c) # None
    BY <1>2, <1>3, <1>6
  <2>2. /\ Row(c).complete = Claimed(c)
        /\ Row(c).processed = (run[c] # None /\ run[c].processed)
    OBVIOUS
  <2> HIDE DEF Row
  <2>3. QED
    BY <2>1, <2>2
<1>7. ASSUME NEW c \in Collections, Claimed(c) PROVE StagedFor(c) # {}
  BY <1>7 DEF Claimed
<1>8. QED
  BY <1>4, <1>5, <1>6, <1>7 DEF complete

LEMMA MovementRun ==
    ASSUME TypeOK, NEW l \in Loaders, Movement(l)
    PROVE  /\ run' \in [Collections -> ObservationRun \cup {None}]
           /\ \A c \in Collections :
                 /\ run'[c] # None <=> run[c] # None
                 /\ complete(c)' <=> complete(c)
                 /\ run'[c] # None /\ run'[c].processed =>
                       complete(c) \/ run[c].processed
<1>1. \A c \in Collections : complete(c) =>
          /\ run'[c] = [run[c] EXCEPT !.processed = TRUE]
          /\ run[c] \in ObservationRun
  BY DEF Movement, complete, TypeOK
<1>2. \A c \in Collections : ~complete(c) => run'[c] = run[c]
  BY DEF Movement
<1>3. \A c \in Collections : complete(c) =>
          run'[c] \in ObservationRun /\ run'[c] # None /\ run'[c].complete
  <2> SUFFICES ASSUME NEW c \in Collections, complete(c)
               PROVE  run'[c] \in ObservationRun /\ run'[c].complete
    BY LoaderAssumption
  <2>1. QED
    BY <1>1 DEF ObservationRun, complete
<1>4. run' \in [Collections -> ObservationRun \cup {None}]
  BY <1>2, <1>3 DEF Movement, TypeOK
<1>5. QED
  BY <1>2, <1>3, <1>4 DEF complete

LEMMA SwapTypes == ASSUME TypeOK, NEW l \in Loaders, Swap(l) PROVE TypeOK'
<1>1. observations' \subseteq Observation
  BY DEF Swap, TypeOK
<1>2. run' \in [Collections -> ObservationRun \cup {None}]
  BY SwapRun
<1>3. covered' \in [Collections -> SUBSET Firms]
  <2>1. \A c \in Collections : covered[c] \subseteq Firms
    BY DEF TypeOK
  <2>2. \A c : \A s \in StagedFor(c) : s.known \subseteq Firms
    BY DEF StagedFor, TypeOK, StagedRun
  <2>3. QED
    BY <2>1, <2>2 DEF Swap
<1>4. pc' \in [Loaders -> Places]
  BY DEF Swap, GoOn, Go, AfterObservations, Places, Ended, TypeOK
<1>5. QED
  BY <1>1, <1>2, <1>3, <1>4 DEF Swap, TypeOK, seed

LEMMA StageTypes ==
    ASSUME TypeOK, NEW l \in Loaders,
           Identity(l) \/ MakeRuns(l) \/ MakeRows(l) \/ Read(l) \/ Movement(l)
    PROVE  TypeOK'
<1>1. pc' \in [Loaders -> Places]
  BY DEF Identity, MakeRuns, MakeRows, Read, Movement, Go, GoOn, Places, Ended, TypeOK
<1>2. UNCHANGED <<seed, lock, stages, killed>>
  BY DEF Identity, MakeRuns, MakeRows, Read, Movement
<1>3. CASE Identity(l)
  <2>1. \A r \in Registrations : r.firm \in Firms
    BY RegistrationType DEF Registrations
  <2>2. firm' \subseteq Firms
    BY <1>3, <2>1, LoaderAssumption DEF Identity, TypeOK
  <2>3. QED
    BY <1>1, <1>2, <1>3, <2>2 DEF Identity, TypeOK, seed, staging, history
<1>4. CASE MakeRuns(l)
  <2>1. shared' \in BOOLEAN
    BY <1>4 DEF MakeRuns, InTheWay, TypeOK
  <2>2. QED
    BY <1>1, <1>2, <1>4, <2>1 DEF MakeRuns, TypeOK, seed
<1>5. CASE MakeRows(l)
  BY <1>1, <1>2, <1>5 DEF MakeRows, TypeOK, seed, history
<1>6. CASE Read(l)
  BY <1>1, <1>2, <1>6, RowsTypes DEF Read, TypeOK, seed, history
<1>7. CASE Movement(l)
  <2>1. diffed' \in [Collections -> Nat \cup {None}]
    BY <1>7, BeforeType DEF Movement, TypeOK
  <2>2. run' \in [Collections -> ObservationRun \cup {None}]
    BY <1>7, MovementRun
  <2>3. QED
    BY <1>1, <1>2, <1>7, <2>1, <2>2 DEF Movement, TypeOK, seed, staging, history
<1>8. QED
  BY <1>3, <1>4, <1>5, <1>6, <1>7

LEMMA NextTypes == TypeOK /\ [Next]_vars => TypeOK'
<1> SUFFICES ASSUME TypeOK, [Next]_vars PROVE TypeOK'
  OBVIOUS
<1>1. CASE UNCHANGED vars
  BY <1>1 DEF TypeOK, vars, seed, control, market, staging, history
<1>2. CASE \E c \in Collections : Ingest(c) \/ Rebuild(c) \/ Publish(c)
  BY <1>2, SeedTypes
<1>3. CASE \E l \in Loaders : Load(l)
  BY <1>3, ControlTypes, StageTypes, SwapTypes DEF Load
<1>4. QED
  BY <1>1, <1>2, <1>3 DEF Next

LEMMA InitTypes == Init => TypeOK
<1> SUFFICES ASSUME Init PROVE TypeOK
  OBVIOUS
<1>1. QED
  BY DEF Init, TypeOK, Places

\* The seed, the lock, the loaders and PostgreSQL have the types of the schema
\* throughout.
THEOREM TypeCorrect == Spec => []TypeOK
<1>1. QED
  BY InitTypes, NextTypes, PTL DEF Spec

-----------------------------------------------------------------------------
(* Snapshots                                                                *)

\* The snapshot a stage reads of the published collections.
LEMMA RowsWhole ==
    ASSUME TypeOK, SeedInv
    PROVE  /\ \A o \in Rows : IsTrue(o)
           /\ \A c \in Collections : \A r \in Registered[c] :
                 RowOf(c, r) \in Rows <=> Eligible(c) /\ r.firm \in firm
<1>1. ASSUME NEW o \in Rows
      PROVE  \E c \in Collections : Eligible(c) /\
                \E r \in Registered[c] : o = RowOf(c, r) /\ r.firm \in firm
  BY DEF Rows, Published, SeedInv
<1>2. \A o \in Rows : IsTrue(o)
  <2> SUFFICES ASSUME NEW o \in Rows PROVE IsTrue(o)
    OBVIOUS
  <2>1. PICK c \in Collections : \E r \in Registered[c] : o = RowOf(c, r)
    BY <1>1
  <2>2. PICK r \in Registered[c] : o = RowOf(c, r)
    BY <2>1
  <2>3. o.collection = c /\ o.firm = r.firm
    BY <2>2 DEF RowOf
  <2>4. QED
    BY <2>2, <2>3, RegistrationType DEF IsTrue
<1>3. ASSUME NEW c \in Collections, Eligible(c), NEW r \in Registered[c], r.firm \in firm
      PROVE  RowOf(c, r) \in Rows
  <2>1. r \in [adviser : Observed[c], firm : Firms, conducts : BOOLEAN]
    BY LoaderAssumption
  <2>2. r \in registrations[c] /\ r.adviser \in individuals
    BY <1>3, <2>1 DEF SeedInv
  <2>3. QED
    BY <1>3, <2>2 DEF Rows, Published
<1>4. ASSUME NEW c \in Collections, NEW r \in Registered[c], RowOf(c, r) \in Rows
      PROVE  Eligible(c) /\ r.firm \in firm
  <2>1. PICK d \in Collections : Eligible(d) /\
            \E q \in Registered[d] : RowOf(c, r) = RowOf(d, q) /\ q.firm \in firm
    BY <1>1, <1>4
  <2>2. RowOf(c, r).collection = c /\ RowOf(c, r).firm = r.firm
    BY DEF RowOf
  <2>3. \A q : RowOf(d, q).collection = d /\ RowOf(d, q).firm = q.firm
    BY DEF RowOf
  <2>4. QED
    BY <2>1, <2>2, <2>3
<1>5. QED
  BY <1>2, <1>3, <1>4

\* Nobody is said to be absent from a collection that has him.
LEMMA AbsencesTrue ==
    ASSUME TypeOK, SeedInv
    PROVE  \A o \in Absences : IsTrue(o) /\ o.firm = None
<1> SUFFICES ASSUME NEW o \in Absences PROVE IsTrue(o) /\ o.firm = None
  OBVIOUS
<1>1. PICK c \in Collections, a \in Absent : Eligible(c) /\ o = AbsenceOf(c, a)
  BY DEF Absences, Published
<1>2. o.collection = c /\ o.adviser = a /\ o.firm = None
  BY <1>1 DEF AbsenceOf
<1>3. ~\E r \in Registered[c] : r.adviser = a /\ r.conducts
  BY <1>1 DEF Absent, SeedInv
<1>4. QED
  BY <1>2, <1>3 DEF IsTrue

LEMMA SeedInvStep ==
    ASSUME TypeOK, SeedInv, [Next]_vars
    PROVE  SeedInv'
<1>1. CASE UNCHANGED seed
  BY <1>1 DEF SeedInv, Eligible, seed
<1>2. CASE \E c \in Collections : Ingest(c)
  BY <1>2 DEF Ingest, SeedInv, Eligible, TypeOK
<1>3. CASE \E c \in Collections : Rebuild(c)
  BY <1>3 DEF Rebuild, SeedInv, Eligible, TypeOK
<1>4. CASE \E c \in Collections : Publish(c)
  BY <1>4 DEF Publish, SeedInv, Eligible, TypeOK
<1>5. CASE \E l \in Loaders : Load(l)
  BY <1>1, <1>5 DEF Load, Look, Remove, Create, Fill, Preflight, Identity, MakeRuns, MakeRows,
                    Read, Swap, Movement, Fail, release, Kill
<1>6. QED
  BY <1>1, <1>2, <1>3, <1>4, <1>5 DEF Next, vars

\* A row that agrees with a true one on the key is that one.
LEMMA SameKeySame ==
    ASSUME NEW o \in Observation, NEW p \in Observation, IsTrue(o), IsTrue(p),
           SameKey(o, p), o.firm # None
    PROVE  o = p
<1>1. PICK r \in Registered[o.collection] : o = RowOf(o.collection, r)
  BY DEF IsTrue
<1>2. PICK q \in Registered[p.collection] : p = RowOf(p.collection, q)
  BY DEF IsTrue, SameKey
<1>3. o.collection = p.collection /\ o.collection \in Collections
  BY DEF SameKey, Observation
<1>4. r.adviser = q.adviser /\ r.firm = q.firm
  BY <1>1, <1>2 DEF SameKey, RowOf
<1>5. r = q
  BY <1>1, <1>2, <1>3, <1>4, LoaderAssumption
<1>6. QED
  BY <1>1, <1>2, <1>3, <1>5

LEMMA TrueStep ==
    ASSUME TypeOK, SeedInv, TrueInv, [Next]_vars
    PROVE  TrueInv'
<1>1. CASE staged_rows' \cup observations' \subseteq staged_rows \cup observations
  BY <1>1 DEF TrueInv, IsTrue
<1>2. ASSUME NEW l \in Loaders, Read(l) PROVE TrueInv'
  <2>1. /\ staged_rows' = staged_rows \cup Rows \cup Absences
        /\ observations' = observations
    BY <1>2 DEF Read
  <2>2. QED
    BY <2>1, RowsWhole, AbsencesTrue DEF TrueInv, IsTrue
<1>3. ASSUME NEW l \in Loaders, Load(l), ~Read(l)
      PROVE  staged_rows' \cup observations' \subseteq staged_rows \cup observations
  BY <1>3 DEF Load, Look, Remove, Create, Fill, Preflight, Identity, MakeRuns, MakeRows, Swap,
              Movement, Fail, release, Kill, market, staging
<1>4. ASSUME NEW c \in Collections, Ingest(c) \/ Rebuild(c) \/ Publish(c)
      PROVE  staged_rows' \cup observations' \subseteq staged_rows \cup observations
  BY <1>4 DEF Ingest, Rebuild, Publish, market, staging
<1>5. QED
  BY <1>1, <1>2, <1>3, <1>4 DEF Next, vars, market, staging

\* A load that has the staging tables to itself stages rows and runs alike.
LEMMA ReadMatches ==
    ASSUME TypeOK, SeedInv, NEW l \in Loaders, Read(l), staged_runs = {}, staged_rows = {}
    PROVE  Matched'
<1>1. staged_runs' = Runs(l) /\ staged_rows' = Rows \cup Absences
  BY DEF Read
<1>2. SUFFICES ASSUME NEW c \in Collections, NEW r \in Registered[c]
      PROVE  RowOf(c, r) \in staged_rows' <=>
                \E s \in staged_runs' : s.collection = c /\ s.complete /\ r.firm \in s.known
  BY DEF Matched, RowOf
<1>3. RowOf(c, r) \in staged_rows' <=> Eligible(c) /\ r.firm \in firm
  <2>1. RowOf(c, r).firm # None
    BY RegistrationType DEF RowOf
  <2>2. QED
    BY <1>1, <2>1, RowsWhole, AbsencesTrue
<1>4. ASSUME NEW s \in Runs(l), s.collection = c, s.complete, r.firm \in s.known
      PROVE  Eligible(c) /\ r.firm \in firm
  BY <1>4 DEF Runs
<1>5. ASSUME Eligible(c), r.firm \in firm
      PROVE  \E s \in Runs(l) : s.collection = c /\ s.complete /\ r.firm \in s.known
  <2> DEFINE s == [collection |-> c, complete |-> Eligible(c), known |-> firm, by |-> l]
  <2>1. s \in Runs(l)
    BY <1>5 DEF Runs, Measured, Eligible
  <2>2. s.collection = c /\ s.complete /\ r.firm \in s.known
    BY <1>5
  <2>3. QED
    BY <2>1, <2>2
<1>6. QED
  BY <1>1, <1>3, <1>4, <1>5

LEMMA SwapWhole ==
    ASSUME TypeOK, TrueInv, SnapshotInv, Matched, NEW l \in Loaders, Swap(l)
    PROVE  SnapshotInv'
<1>1. SUFFICES ASSUME NEW c \in Collections, NEW r \in Registered[c]
      PROVE  RowOf(c, r) \in observations' <=> r.firm \in covered'[c]
  BY DEF SnapshotInv, RowOf
<1>2. r.firm \in covered'[c] <=>
          \/ r.firm \in covered[c]
          \/ \E s \in staged_runs : s.collection = c /\ s.complete /\ r.firm \in s.known
  BY DEF Swap, StagedFor
<1>3. RowOf(c, r) \in observations' <=>
          RowOf(c, r) \in observations \/ RowOf(c, r) \in staged_rows
  <2>1. observations' = observations \cup
            {o \in staged_rows : ~\E p \in observations : SameKey(o, p)}
    BY DEF Swap
  <2>2. RowOf(c, r).firm # None
    BY RegistrationType DEF RowOf
  <2>3. ASSUME RowOf(c, r) \in staged_rows, NEW p \in observations, SameKey(RowOf(c, r), p)
        PROVE  RowOf(c, r) = p
    <3>1. RowOf(c, r) \in Observation /\ p \in Observation
      BY <2>3 DEF TypeOK
    <3>2. IsTrue(RowOf(c, r)) /\ IsTrue(p)
      BY <2>3 DEF TrueInv
    <3>3. QED
      BY <2>2, <2>3, <3>1, <3>2, SameKeySame
  <2>4. QED
    BY <2>1, <2>3
<1>4. QED
  BY <1>2, <1>3 DEF Matched, SnapshotInv

\* The statements of the stage that fills the staging tables.
LEMMA StagingStep ==
    ASSUME WholeInv, NEW l \in Loaders, MakeRuns(l) \/ MakeRows(l) \/ Read(l) \/ Swap(l),
           ~shared'
    PROVE  StagingInv' /\ SnapshotInv'
<1> USE DEF WholeInv
<1>1. ~shared /\ StagingInv /\ SnapshotInv
  <2>1. CASE MakeRuns(l)
    BY <2>1 DEF MakeRuns
  <2>2. CASE MakeRows(l) \/ Read(l) \/ Swap(l)
    BY <2>2 DEF MakeRows, Read, Swap, history
  <2>3. QED
    BY <2>1, <2>2
<1>2. \A m \in Loaders \ {l} : ~Midway(m) /\ pc'[m] = pc[m]
  <2>1. \A m \in Loaders \ {l} : ~Midway(m)
    BY <1>1 DEF MakeRuns, MakeRows, Read, Swap, InTheWay, Midway, At, StagingInv
  <2>2. \A m \in Loaders \ {l} : pc'[m] = pc[m]
    BY DEF MakeRuns, MakeRows, Read, Swap, Go, GoOn, TypeOK
  <2>3. QED
    BY <2>1, <2>2
<1>3. \A m \in Loaders \ {l} : ~Midway(m)'
  BY <1>2 DEF Midway
<1>4. CASE MakeRuns(l)
  <2>1. pc'[l] = "emptying" /\ staged_runs' = {}
    BY <1>4 DEF MakeRuns, Go, TypeOK
  <2>2. SnapshotInv'
    BY <1>1, <1>4 DEF MakeRuns, SnapshotInv, RowOf
  <2>3. QED
    BY <1>3, <2>1, <2>2 DEF StagingInv, Midway, At
<1>5. CASE MakeRows(l)
  <2>1. pc'[l] = "reading" /\ staged_runs' = {} /\ staged_rows' = {}
    BY <1>1, <1>5 DEF MakeRows, Go, TypeOK, StagingInv, At
  <2>2. SnapshotInv'
    BY <1>1, <1>5 DEF MakeRows, SnapshotInv, RowOf, history
  <2>3. QED
    BY <1>3, <2>1, <2>2 DEF StagingInv, Midway, At
<1>6. CASE Read(l)
  <2>1. pc'[l] = "swapping"
    BY <1>6 DEF Read, Go, TypeOK
  <2>2. Matched'
    BY <1>1, <1>6, ReadMatches DEF StagingInv, Read
  <2>3. SnapshotInv'
    BY <1>1, <1>6 DEF Read, SnapshotInv, RowOf, history
  <2>4. QED
    BY <1>3, <2>1, <2>2, <2>3 DEF StagingInv, Midway, At
<1>7. CASE Swap(l)
  <2>1. ~Midway(l)'
    BY <1>7 DEF Swap, GoOn, Go, AfterObservations, Midway, TypeOK
  <2>2. SnapshotInv'
    BY <1>1, <1>7, SwapWhole DEF StagingInv, Swap
  <2>3. QED
    BY <1>3, <2>1, <2>2 DEF StagingInv, Midway, At
<1>8. QED
  BY <1>4, <1>5, <1>6, <1>7

LEMMA WholeStep == WholeInv /\ [Next]_vars => WholeInv'
<1> SUFFICES ASSUME WholeInv, [Next]_vars PROVE WholeInv'
  OBVIOUS
<1> USE DEF WholeInv
<1>1. TypeOK' /\ SeedInv' /\ TrueInv'
  BY NextTypes, SeedInvStep, TrueStep
<1>2. ASSUME UNCHANGED <<staging, observations, covered>>, shared' = shared,
             \A l \in Loaders : pc'[l] = pc[l] \/ ~Midway(l)'
      PROVE  ~shared' => StagingInv' /\ SnapshotInv'
  <2>1. SnapshotInv' <=> SnapshotInv
    BY <1>2 DEF SnapshotInv, RowOf
  <2>2. Matched' <=> Matched
    BY <1>2 DEF Matched, RowOf, staging
  <2>3. StagingInv => StagingInv'
    BY <1>2, <2>2 DEF StagingInv, Midway, At, staging
  <2>4. QED
    BY <1>2, <2>1, <2>3
<1>3. ASSUME NEW c \in Collections, Ingest(c) \/ Rebuild(c) \/ Publish(c)
      PROVE  ~shared' => StagingInv' /\ SnapshotInv'
  BY <1>2, <1>3 DEF Ingest, Rebuild, Publish, control, market, history
<1>4. ASSUME NEW l \in Loaders, Load(l) PROVE ~shared' => StagingInv' /\ SnapshotInv'
  <2>1. CASE MakeRuns(l) \/ MakeRows(l) \/ Read(l) \/ Swap(l)
    BY <2>1, StagingStep
  <2>2. CASE Movement(l)
    BY <1>2, <2>2 DEF Movement, Go, GoOn, Midway, TypeOK, history
  <2>3. CASE Identity(l)
    BY <1>2, <2>3 DEF Identity, Go, GoOn, Midway, TypeOK, history
  <2>4. CASE \/ Look(l) \/ Remove(l) \/ Create(l) \/ Fill(l) \/ Preflight(l)
             \/ Fail(l) \/ release(l) \/ Kill(l)
    <3>1. UNCHANGED <<staging, observations, covered>> /\ shared' = shared
      BY <2>4 DEF Look, Remove, Create, Fill, Preflight, Fail, release, Kill, market, history
    <3>2. \A m \in Loaders : pc'[m] = pc[m] \/ ~Midway(m)'
      BY <2>4 DEF Look, Remove, Create, Fill, Preflight, Fail, release, Kill, Go, GoOn, Midway,
                  TypeOK
    <3>3. QED
      BY <1>2, <3>1, <3>2
  <2>5. QED
    BY <1>4, <2>1, <2>2, <2>3, <2>4 DEF Load
<1>5. CASE UNCHANGED vars
  BY <1>1, <1>2, <1>5 DEF vars, market, history, control
<1>6. QED
  BY <1>1, <1>3, <1>4, <1>5 DEF Next

LEMMA WholeInit == Init => WholeInv
<1> SUFFICES ASSUME Init PROVE WholeInv
  OBVIOUS
<1>1. TypeOK
  BY InitTypes
<1>2. SeedInv /\ TrueInv /\ StagingInv /\ SnapshotInv
  BY DEF Init, SeedInv, Eligible, TrueInv, StagingInv, Midway, At, SnapshotInv
<1>3. QED
  BY <1>1, <1>2 DEF WholeInv

LEMMA WholeMeans == WholeInv => SnapshotsWhole /\ AbsencesAreTrue
<1> SUFFICES ASSUME WholeInv PROVE SnapshotsWhole /\ AbsencesAreTrue
  OBVIOUS
<1>1. AbsencesAreTrue
  BY DEF WholeInv, TrueInv, AbsencesAreTrue, IsTrue
<1>2. ASSUME SnapshotInv, NEW c \in Collections
      PROVE  Snapshot(c) = {r \in Registered[c] : r.firm \in covered[c]}
  <2> DEFINE Kept(o) == [adviser |-> o.adviser, firm |-> o.firm, conducts |-> o.conducts]
  <2>1. ASSUME NEW r \in Registered[c]
        PROVE  /\ r = Kept(RowOf(c, r)) /\ RowOf(c, r).collection = c
               /\ RowOf(c, r).firm = r.firm /\ r.firm # None
    <3>1. r \in [adviser : Observed[c], firm : Firms, conducts : BOOLEAN]
      BY LoaderAssumption
    <3>2. QED
      BY <3>1, LoaderAssumption DEF RowOf
  <2>2. ASSUME NEW r \in Registered[c], r.firm \in covered[c]
        PROVE  \E o \in observations : o.collection = c /\ o.firm # None /\ r = Kept(o)
    <3>1. RowOf(c, r) \in observations
      BY <1>2, <2>2 DEF SnapshotInv
    <3>2. QED
      BY <2>1, <3>1
  <2>3. ASSUME NEW o \in observations, o.collection = c, o.firm # None
        PROVE  Kept(o) \in Registered[c] /\ Kept(o).firm \in covered[c]
    <3>1. PICK r \in Registered[c] : o = RowOf(c, r)
      BY <2>3 DEF WholeInv, TrueInv, IsTrue
    <3>2. Kept(o) = r /\ r.firm \in covered[c]
      BY <1>2, <2>1, <3>1 DEF SnapshotInv
    <3>3. QED
      BY <3>2
  <2> HIDE DEF Kept
  <2>4. {Kept(o) : o \in {p \in observations : p.collection = c /\ p.firm # None}}
            = {r \in Registered[c] : r.firm \in covered[c]}
    BY <2>2, <2>3
  <2>5. QED
    BY <2>4 DEF Kept, Snapshot
<1>3. QED
  BY <1>1, <1>2 DEF WholeInv, SnapshotsWhole

\* A run of PostgreSQL that counts as complete has the registrations of its
\* collection with the firms known to a load that completed it, all of them and
\* nothing else, whatever the seed holds by now, whatever failed or was killed,
\* for as long as no two loads have had the staging tables at once.
THEOREM SnapshotsAreWhole == Spec => []SnapshotsWhole
<1>1. QED
  BY WholeInit, WholeStep, WholeMeans, PTL DEF Spec

\* An absence that a load recorded is one of the collection it is filed under,
\* even of loads that wrote each other's staging tables.
THEOREM AbsencesStayTrue == Spec => []AbsencesAreTrue
<1>1. QED
  BY WholeInit, WholeStep, WholeMeans, PTL DEF Spec

-----------------------------------------------------------------------------
(* Movement                                                                 *)

LEMMA SeedOrderStep ==
    ASSUME TypeOK, [Next]_vars, ~late'
    PROVE  /\ ~late
           /\ SeedOrder => SeedOrder'
           /\ \A c \in Collections : status[c] # "none" => status'[c] # "none"
<1>1. CASE UNCHANGED <<seed, late>>
  BY <1>1 DEF SeedOrder, Eligible, seed
<1>2. ASSUME NEW c \in Collections, Ingest(c) \/ Rebuild(c) \/ Publish(c)
      PROVE  /\ ~late
             /\ SeedOrder => SeedOrder'
             /\ \A d \in Collections : status[d] # "none" => status'[d] # "none"
  <2>1. CASE Ingest(c)
    BY <2>1, CollectionsType DEF Ingest, SeedOrder, Eligible, TypeOK
  <2>2. CASE Rebuild(c)
    BY <2>2, CollectionsType DEF Rebuild, SeedOrder, Eligible, TypeOK
  <2>3. CASE Publish(c)
    BY <2>3, CollectionsType DEF Publish, SeedOrder, Eligible, TypeOK, history
  <2>4. QED
    BY <1>2, <2>1, <2>2, <2>3
<1>3. CASE \E l \in Loaders : Load(l)
  BY <1>1, <1>3 DEF Load, Look, Remove, Create, Fill, Preflight, Identity, MakeRuns, MakeRows,
                    Read, Swap, Movement, Fail, release, Kill, history
<1>4. QED
  BY <1>1, <1>2, <1>3 DEF Next, vars, history

LEMMA ReadOrder ==
    ASSUME TypeOK, SeedOrder, StagedOrder, RunOrder, NEW l \in Loaders, Read(l)
    PROVE  StagedOrder'
<1>1. /\ staged_runs' = staged_runs \cup Runs(l)
      /\ UNCHANGED <<status, run>>
  BY DEF Read, seed
<1>2. ASSUME NEW c \in Collections PROVE Claimed(c)' <=> Claimed(c) \/ Eligible(c)
  <2>1. Claimed(c)' <=> \E s \in staged_runs' : s.collection = c /\ s.complete
    BY DEF Claimed, StagedFor
  <2>2. Claimed(c) <=> \E s \in staged_runs : s.collection = c /\ s.complete
    BY DEF Claimed, StagedFor
  <2>3. Eligible(c) <=> \E s \in Runs(l) : s.collection = c /\ s.complete
    <3>1. ASSUME NEW s \in Runs(l), s.collection = c, s.complete PROVE Eligible(c)
      BY <3>1 DEF Runs
    <3>2. ASSUME Eligible(c) PROVE \E s \in Runs(l) : s.collection = c /\ s.complete
      <4> DEFINE s == [collection |-> c, complete |-> Eligible(c), known |-> firm, by |-> l]
      <4>1. s \in Runs(l)
        BY <3>2 DEF Runs, Measured, Eligible
      <4>2. s.collection = c /\ s.complete
        BY <3>2
      <4>3. QED
        BY <4>1, <4>2
    <3>3. QED
      BY <3>1, <3>2
  <2>4. QED
    BY <1>1, <2>1, <2>2, <2>3
<1>3. ASSUME NEW s \in staged_runs
      PROVE  /\ status[s.collection] # "none"
             /\ \A d \in Collections : d < s.collection => Claimed(d)'
             /\ ~Claimed(s.collection)' =>
                   \A c \in Collections : c > s.collection => run[c] = None
  <2>1. s.collection \in Collections
    BY DEF TypeOK, StagedRun
  <2>2. QED
    BY <1>2, <2>1 DEF StagedOrder
<1>4. ASSUME NEW s \in Runs(l)
      PROVE  /\ status[s.collection] # "none"
             /\ \A d \in Collections : d < s.collection => Claimed(d)'
             /\ ~Claimed(s.collection)' =>
                   \A c \in Collections : c > s.collection => run[c] = None
  <2>1. s.collection \in Collections /\ status[s.collection] # "none"
    BY DEF Runs, Measured
  <2>2. \A d \in Collections : d < s.collection => Eligible(d)
    BY <2>1 DEF SeedOrder
  <2>3. ASSUME ~Eligible(s.collection), NEW c \in Collections, c > s.collection
        PROVE  run[c] = None
    BY <2>1, <2>3, CollectionsType DEF SeedOrder, RunOrder
  <2>4. QED
    BY <1>2, <2>1, <2>2, <2>3
<1>5. QED
  BY <1>1, <1>3, <1>4 DEF StagedOrder

LEMMA SwapOrder ==
    ASSUME TypeOK, StagedOrder, RunOrder, NEW l \in Loaders, Swap(l)
    PROVE  RunOrder'
<1>1. UNCHANGED <<status, diffed>>
  BY DEF Swap, seed
<1>2. ASSUME NEW c \in Collections, run'[c] # None
      PROVE  /\ status[c] # "none"
             /\ \A d \in Collections : d < c => complete(d)'
             /\ run'[c].processed => diffed[c] # None
  <2>1. CASE run[c] # None
    <3>1. ASSUME NEW d \in Collections, d < c PROVE complete(d)'
      <4>1. complete(d)
        BY <2>1, <3>1 DEF RunOrder
      <4>2. SUFFICES ASSUME ~complete(d)' PROVE FALSE
        OBVIOUS
      <4>3. PICK s \in staged_runs : s.collection = d /\ ~Claimed(d)
        BY <4>1, <4>2, SwapRun DEF StagedFor
      <4>4. c > d
        BY <3>1, CollectionsType
      <4>5. QED
        BY <1>1, <2>1, <4>3, <4>4 DEF StagedOrder
    <3>2. QED
      BY <1>2, <2>1, <3>1, SwapRun DEF RunOrder
  <2>2. CASE run[c] = None
    <3>1. PICK s \in staged_runs : s.collection = c
      BY <1>2, <2>2, SwapRun DEF StagedFor
    <3>2. status[c] # "none" /\ \A d \in Collections : d < c => Claimed(d)
      BY <1>1, <3>1 DEF StagedOrder
    <3>3. QED
      BY <1>2, <2>2, <3>2, SwapRun
  <2>3. QED
    BY <2>1, <2>2
<1>3. QED
  BY <1>1, <1>2 DEF RunOrder

LEMMA MovementOrder ==
    ASSUME TypeOK, RunOrder, Neighbours, NEW l \in Loaders, Movement(l)
    PROVE  RunOrder' /\ Neighbours'
<1>1. \A c \in Collections :
          diffed'[c] = IF complete(c) /\ ~run[c].processed THEN Before(c) ELSE diffed[c]
  BY DEF Movement
<1>2. \A c \in Collections : complete(c) => Before(c) = c - 1
  BY BeforeType DEF RunOrder, complete
<1>3. \A c \in Collections : Before(c) # None
  BY BeforeType, LoaderAssumption
<1>4. \A c \in Collections : complete(c) \/ diffed[c] # None => diffed'[c] # None
  BY <1>1, <1>3 DEF RunOrder, complete
<1>5. RunOrder'
  <2>1. UNCHANGED status
    BY DEF Movement, seed
  <2>2. QED
    BY <1>4, <2>1, MovementRun DEF RunOrder
<1>6. ASSUME NEW c \in Collections, diffed'[c] # None
      PROVE  diffed'[c] = c - 1 /\ (c > 1 => diffed'[c - 1] # None)
  <2>1. c > 1 => c - 1 \in Collections /\ c - 1 < c
    BY CollectionsType
  <2>2. CASE complete(c) /\ ~run[c].processed
    BY <1>1, <1>2, <1>4, <2>1, <2>2 DEF RunOrder, complete
  <2>3. CASE ~(complete(c) /\ ~run[c].processed)
    BY <1>1, <1>4, <1>6, <2>1, <2>3 DEF Neighbours
  <2>4. QED
    BY <2>2, <2>3
<1>7. QED
  BY <1>5, <1>6 DEF Neighbours

LEMMA OrderStep == OrderInv /\ [Next]_vars => OrderInv'
<1> SUFFICES ASSUME OrderInv, [Next]_vars, ~late'
             PROVE  SeedOrder' /\ StagedOrder' /\ RunOrder' /\ Neighbours'
  BY NextTypes DEF OrderInv
<1> USE DEF OrderInv
<1>1. /\ SeedOrder /\ StagedOrder /\ RunOrder /\ Neighbours
      /\ SeedOrder' /\ \A c \in Collections : status[c] # "none" => status'[c] # "none"
  BY SeedOrderStep
<1>2. \A s \in staged_runs : s.collection \in Collections
  BY DEF TypeOK, StagedRun
<1>3. CASE UNCHANGED <<staged_runs, run, diffed>>
  BY <1>1, <1>2, <1>3 DEF StagedOrder, RunOrder, Neighbours, Claimed, StagedFor, complete
<1>4. ASSUME NEW l \in Loaders, Load(l) PROVE StagedOrder' /\ RunOrder' /\ Neighbours'
  <2>1. CASE MakeRuns(l)
    <3>1. RunOrder' /\ Neighbours'
      BY <1>1, <2>1 DEF MakeRuns, RunOrder, Neighbours, complete, seed
    <3>2. staged_runs' = {}
      BY <2>1 DEF MakeRuns
    <3>3. QED
      BY <3>1, <3>2 DEF StagedOrder
  <2>2. CASE Read(l)
    <3>1. RunOrder' /\ Neighbours'
      BY <1>1, <2>2 DEF Read, RunOrder, Neighbours, complete, seed
    <3>2. QED
      BY <1>1, <2>2, <3>1, ReadOrder
  <2>3. CASE Swap(l)
    <3>1. staged_runs' = {} /\ Neighbours'
      BY <1>1, <2>3 DEF Swap, Neighbours
    <3>2. QED
      BY <1>1, <2>3, <3>1, SwapOrder DEF StagedOrder
  <2>4. CASE Movement(l)
    <3>1. UNCHANGED <<status, staged_runs>>
      BY <2>4 DEF Movement, seed, staging
    <3>2. StagedOrder'
      BY <1>1, <1>2, <2>4, <3>1, MovementRun DEF StagedOrder, Claimed, StagedFor
    <3>3. QED
      BY <1>1, <2>4, <3>2, MovementOrder
  <2>5. QED
    BY <1>3, <1>4, <2>1, <2>2, <2>3, <2>4
       DEF Load, Look, Remove, Create, Fill, Preflight, Identity, MakeRows, Fail, release, Kill,
           market, staging
<1>5. CASE \E c \in Collections : Ingest(c) \/ Rebuild(c) \/ Publish(c)
  BY <1>3, <1>5 DEF Ingest, Rebuild, Publish, market, staging
<1>6. QED
  BY <1>1, <1>3, <1>4, <1>5 DEF Next, vars, market, staging

LEMMA OrderInit == Init => OrderInv
<1> SUFFICES ASSUME Init PROVE OrderInv
  OBVIOUS
<1>1. TypeOK
  BY InitTypes
<1>2. SeedOrder /\ StagedOrder /\ RunOrder /\ Neighbours
  BY DEF Init, SeedOrder, StagedOrder, RunOrder, Neighbours
<1>3. QED
  BY <1>1, <1>2 DEF OrderInv

\* For as long as every collection was published after the ones before it and
\* none was rebuilt under a later one, movement is derived between neighbours
\* and never skips one, though loaders fail or are killed between staging, swap
\* and derivation, and two load at a time.
THEOREM MovementInOrder == Spec => []DiffedInOrder
<1>1. OrderInv => DiffedInOrder
  BY DEF OrderInv, DiffedInOrder, Neighbours
<1>2. QED
  BY <1>1, OrderStep, OrderInit, PTL DEF Spec

=============================================================================
