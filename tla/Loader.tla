------------------------------- MODULE Loader -------------------------------
(***************************************************************************)
(* load-market.ts: a loader takes the lock file, then runs its stages in   *)
(* order, each in a process of its own that outlives a loader which is     *)
(* killed; a stage that fails ends it.  Of the stages these are modelled:  *)
(* the identities of firms and advisers, the observations that turn the    *)
(* registrations of a published collection into a dated snapshot in        *)
(* PostgreSQL, and the derivation of movement, which compares a snapshot   *)
(* with the one before.                                                    *)
(*                                                                         *)
(* Collections are numbered in the order they were completed in.  Each is  *)
(* published, and may be rebuilt, by ingest-individuals (Publication), the *)
(* same rows every time, beside the loaders: a stage reads one state of    *)
(* the seed database, another stage a later one.                           *)
(***************************************************************************)
EXTENDS Integers, FiniteSets

CONSTANTS
    Observed,       \* Observed[c]: the people of collection c
    Registered,     \* Registered[c]: its current registrations, one a person and firm
    Firms,          \* firms
    Filed,          \* firms of the ADV filings and of past registrations
    Loaders,        \* processes
    MaxRebuilds,    \* bound on rebuilds of a collection
    None

Collections == DOMAIN Observed

Registrations == UNION {Registered[c] : c \in Collections}
Advisers == UNION {Observed[c] : c \in Collections}

Observation == [collection : Collections, adviser : Advisers, firm : Firms \cup {None},
                conducts : BOOLEAN]
ObservationRun == [complete : BOOLEAN, processed : BOOLEAN]

\* A row of observation_run__load; the loader that staged it, and the firms
\* PostgreSQL knew then, are history.
StagedRun == [collection : Collections, complete : BOOLEAN, known : SUBSET Firms, by : Loaders]

ASSUME LoaderAssumption ==
    /\ Collections = 1..Cardinality(Collections) /\ IsFiniteSet(Collections)
    /\ DOMAIN Registered = Collections
    /\ \A c \in Collections :
          /\ Registered[c] \subseteq [adviser : Observed[c], firm : Firms, conducts : BOOLEAN]
          /\ \A q, r \in Registered[c] : q.adviser = r.adviser /\ q.firm = r.firm => q = r
    /\ Filed \subseteq Firms
    /\ MaxRebuilds \in Nat
    /\ None \notin Firms \cup Loaders \cup Nat \cup ObservationRun
    /\ "none" \notin Loaders /\ "empty" \notin Loaders

VARIABLES
    status, registrations, individuals, rebuilds,   \* the seed database
    lock,           \* what the lock file says: "none", "empty" or a process
    pc, stages,     \* control of a loader, and the stages it was started with
    killed,         \* loaders that are gone, though a stage of theirs may run on
    firm, advisor, run, observations, diffed,   \* PostgreSQL
    made, staged_runs, staged_rows, \* the staging tables there are, and their rows
    covered,        \* history: firms known to the loads that completed a run
    shared,         \* history: two loads have had the staging tables at once
    late            \* history: a collection came late, or was rebuilt under others

seed == <<status, registrations, individuals, rebuilds>>
control == <<lock, pc, stages, killed>>
staging == <<made, staged_runs, staged_rows>>
market == <<firm, advisor, run, observations, diffed, staging>>
history == <<covered, shared, late>>
vars == <<seed, control, market, history>>

Init ==
    /\ status = [c \in Collections |-> "none"]
    /\ registrations = [c \in Collections |-> {}]
    /\ individuals = {}
    /\ rebuilds = 0
    /\ lock = "none"
    /\ pc = [l \in Loaders |-> "idle"]
    /\ stages = [l \in Loaders |-> "all"]
    /\ killed = {}
    /\ firm = {} /\ advisor = {}
    /\ made = {} /\ staged_runs = {} /\ staged_rows = {}
    /\ run = [c \in Collections |-> None]
    /\ observations = {}
    /\ diffed = [c \in Collections |-> None]
    /\ covered = [c \in Collections |-> {}]
    /\ shared = FALSE
    /\ late = FALSE

At(l, place) == pc[l] = place
Go(l, place) == pc' = [pc EXCEPT ![l] = place]

Ended == {"done", "refused", "crashed"}

\* A stage runs, or preflight's query: the seed is attached.
Loading(l) ==
    pc[l] \in {"preflight", "identity", "staging", "emptying", "reading", "swapping", "movement"}

\* Where a loader goes when a stage has ended: nowhere if it was killed.
GoOn(l, place) == Go(l, IF l \in killed THEN "crashed" ELSE place)

\* process.kill(pid, 0); an empty file reads as process 0, the loader's own group.
isAlive(pid) == pid \notin killed \cup {l \in Loaders : pc[l] \in Ended}

-----------------------------------------------------------------------------
(* The seed database                                                        *)

\* The pages of some advisers have been committed.
Ingest(c) ==
    /\ status[c] = "none"
    /\ late' = (late \/ \E d \in Collections : d < c /\ status[d] # "published")
    /\ status' = [status EXCEPT ![c] = "running"]
    /\ \E some \in SUBSET Observed[c] :
          registrations' = [registrations EXCEPT ![c] =
                                {r \in Registered[c] : r.adviser \in some}]
    /\ UNCHANGED <<individuals, rebuilds, control, market, covered, shared>>

Rebuild(c) ==
    /\ status[c] = "published"
    /\ rebuilds < MaxRebuilds
    /\ late' = (late \/ \E d \in Collections : d > c /\ status[d] # "none")
    /\ status' = [status EXCEPT ![c] = "running"]
    /\ registrations' = [registrations EXCEPT ![c] = {}]
    /\ rebuilds' = rebuilds + 1
    /\ UNCHANGED <<individuals, control, market, covered, shared>>

Publish(c) ==
    /\ status[c] = "running"
    /\ status' = [status EXCEPT ![c] = "published"]
    /\ registrations' = [registrations EXCEPT ![c] = Registered[c]]
    /\ individuals' = individuals \cup Observed[c]
    /\ UNCHANGED <<rebuilds, control, market, history>>

-----------------------------------------------------------------------------
(* The lock file                                                            *)

\* Nothing keeps a second loader from looking before the first has written.
Look(l) ==
    /\ At(l, "idle")
    /\ \E s \in {"all", "current-affiliation", "movement"} :
          stages' = [stages EXCEPT ![l] = s]
    /\ \/ lock = "none" /\ Go(l, "writing")
       \/ lock # "none" /\ isAlive(lock) /\ Go(l, "refused")
       \/ lock # "none" /\ ~isAlive(lock) /\ Go(l, "removing")
    /\ UNCHANGED <<seed, lock, killed, market, history>>

Remove(l) ==
    /\ At(l, "removing")
    /\ lock' = "none"
    /\ Go(l, "writing")
    /\ UNCHANGED <<seed, stages, killed, market, history>>

\* The file is created or emptied, and then written.
Create(l) ==
    /\ At(l, "writing")
    /\ lock' = "empty"
    /\ Go(l, "filling")
    /\ UNCHANGED <<seed, stages, killed, market, history>>

Fill(l) ==
    /\ At(l, "filling")
    /\ lock' = l
    /\ Go(l, "preflight")
    /\ UNCHANGED <<seed, stages, killed, market, history>>

-----------------------------------------------------------------------------
(* The stages                                                               *)

AfterObservations(l) == IF stages[l] = "all" THEN "movement" ELSE "exiting"

Preflight(l) ==
    /\ At(l, "preflight")
    /\ GoOn(l, CASE stages[l] = "all" -> "identity"
                 [] stages[l] = "current-affiliation" -> "staging"
                 [] OTHER -> "movement")
    /\ UNCHANGED <<seed, lock, stages, killed, market, history>>

\* Firms first: those filed, and the employers of every page committed.
Identity(l) ==
    /\ At(l, "identity")
    /\ firm' = firm \cup Filed \cup
          {r.firm : r \in UNION {registrations[c] : c \in Collections}}
    /\ advisor' = advisor \cup individuals
    /\ GoOn(l, "staging")
    /\ UNCHANGED <<seed, lock, stages, killed, run, observations, diffed, staging, history>>

\* Another load is between making its tables and swapping them in.
Midway(l) == pc[l] \in {"emptying", "reading", "swapping"}
InTheWay(l) == \E m \in Loaders \ {l} : Midway(m)

\* The tables are dropped and made one after the other.
MakeRuns(l) ==
    /\ At(l, "staging")
    /\ made' = made \cup {"runs"}
    /\ staged_runs' = {}
    /\ shared' = (shared \/ InTheWay(l))
    /\ Go(l, "emptying")
    /\ UNCHANGED <<seed, lock, stages, killed, firm, advisor, run, observations, diffed,
                   staged_rows, covered, late>>

MakeRows(l) ==
    /\ At(l, "emptying")
    /\ made' = made \cup {"rows"}
    /\ staged_rows' = {}
    /\ Go(l, "reading")
    /\ UNCHANGED <<seed, lock, stages, killed, firm, advisor, run, observations, diffed,
                   staged_runs, history>>

\* slip: a collection that is still being published is eligible
EligibleEarly(c) == status[c] \in {"running", "published"}

Eligible(c) == status[c] = "published"

Measured == {d \in Collections : status[d] # "none"}
Published == {d \in Collections : Eligible(d)}

\* slip: only the run of the newest collection is loaded
RunsNewest(l) ==
    {[collection |-> c, complete |-> TRUE, known |-> firm, by |-> l] :
        c \in {d \in Published : \A e \in Published : e <= d}}

Runs(l) ==
    {[collection |-> c, complete |-> Eligible(c), known |-> firm, by |-> l] : c \in Measured}

\* The row of a registration in the snapshot of a collection.
RowOf(c, r) ==
    [collection |-> c, adviser |-> r.adviser, firm |-> r.firm, conducts |-> r.conducts]

\* Of advisers and employers whose identities are known, to the seed and here.
Rows ==
    UNION {{RowOf(c, r) : r \in {q \in registrations[c] :
                                    q.adviser \in individuals /\ q.firm \in firm}} :
              c \in Published}

AbsenceOf(c, a) == [collection |-> c, adviser |-> a, firm |-> None, conducts |-> FALSE]

\* Who has no registration to conduct business with in any collection.
Absent ==
    {a \in individuals :
        ~\E d \in Collections : \E r \in registrations[d] : r.adviser = a /\ r.conducts}

\* slip: the newest collection of any status
AbsencesEarly ==
    {AbsenceOf(p[1], p[2]) : p \in {c \in Measured : \A d \in Measured : d <= c} \X Absent}

\* They have a row in the newest eligible collection.
Absences ==
    {AbsenceOf(p[1], p[2]) : p \in {c \in Published : \A d \in Published : d <= c} \X Absent}

Read(l) ==
    /\ At(l, "reading")
    /\ made = {"runs", "rows"}
    /\ staged_runs' = staged_runs \cup Runs(l)
    /\ staged_rows' = staged_rows \cup Rows \cup Absences
    /\ Go(l, "swapping")
    /\ UNCHANGED <<seed, lock, stages, killed, firm, advisor, run, observations, diffed,
                   made, history>>

SameKey(o, p) == o.collection = p.collection /\ o.adviser = p.adviser /\ o.firm = p.firm

\* ON CONFLICT DO UPDATE refuses to touch one row twice in a statement.
OneRunEach == \A s, t \in staged_runs : s.collection = t.collection => s = t

StagedFor(c) == {s \in staged_runs : s.collection = c}
Claimed(c) == \E s \in StagedFor(c) : s.complete

\* Every adviser and every run of a row must be there.
Swap(l) ==
    /\ At(l, "swapping")
    /\ made = {"runs", "rows"}
    /\ OneRunEach
    /\ \A o \in staged_rows :
          o.adviser \in advisor /\ (run[o.collection] # None \/ StagedFor(o.collection) # {})
    /\ run' = [c \in Collections |->
                  IF StagedFor(c) # {}
                  THEN [complete |-> Claimed(c),
                        processed |-> run[c] # None /\ run[c].processed]
                  ELSE run[c]]
    /\ observations' = observations \cup
          {o \in staged_rows : ~\E p \in observations : SameKey(o, p)}
    /\ made' = {} /\ staged_runs' = {} /\ staged_rows' = {}
    /\ covered' = [c \in Collections |->
                      covered[c] \cup (UNION {s.known : s \in {t \in StagedFor(c) : t.complete}})]
    /\ GoOn(l, AfterObservations(l))
    /\ UNCHANGED <<seed, lock, stages, killed, firm, advisor, diffed, shared, late>>

complete(c) == run[c] # None /\ run[c].complete

\* The complete run before this one, or 0: derive_movements compares with it.
Before(c) ==
    CHOOSE b \in {0} \cup {d \in Collections : complete(d) /\ d < c} :
        \A d \in Collections : complete(d) /\ d < c => d <= b

Movement(l) ==
    /\ At(l, "movement")
    /\ diffed' = [c \in Collections |->
                     IF complete(c) /\ ~run[c].processed THEN Before(c) ELSE diffed[c]]
    /\ run' = [c \in Collections |->
                  IF complete(c) THEN [run[c] EXCEPT !.processed = TRUE] ELSE run[c]]
    /\ GoOn(l, "exiting")
    /\ UNCHANGED <<seed, lock, stages, killed, firm, advisor, observations, staging, history>>

\* A stage fails: the seed is being written, a table is missing, a key.
Fail(l) ==
    /\ Loading(l)
    /\ GoOn(l, "exiting")
    /\ UNCHANGED <<seed, lock, stages, killed, market, history>>

\* Whatever the file says.
release(l) ==
    /\ At(l, "exiting")
    /\ lock' = "none"
    /\ Go(l, "done")
    /\ UNCHANGED <<seed, stages, killed, market, history>>

\* A signal is handled by removing the lock, another is not; the process of
\* the stage is not told, and may run on to the end of its script.
Kill(l) ==
    /\ pc[l] \notin Ended \cup {"idle"} /\ l \notin killed
    /\ killed' = killed \cup {l}
    /\ lock' \in {lock, "none"}
    /\ \/ Go(l, "crashed")
       \/ Loading(l) /\ UNCHANGED pc
    /\ UNCHANGED <<seed, stages, market, history>>

Load(l) ==
    \/ Look(l) \/ Remove(l) \/ Create(l) \/ Fill(l)
    \/ Preflight(l) \/ Identity(l) \/ MakeRuns(l) \/ MakeRows(l) \/ Read(l) \/ Swap(l)
    \/ Movement(l) \/ Fail(l) \/ release(l) \/ Kill(l)

Next ==
    \/ \E c \in Collections : Ingest(c) \/ Rebuild(c) \/ Publish(c)
    \/ \E l \in Loaders : Load(l)

Spec == Init /\ [][Next]_vars

-----------------------------------------------------------------------------
(* Properties *)

Places == {"idle", "removing", "writing", "filling", "preflight", "identity", "staging",
           "emptying", "reading", "swapping", "movement", "exiting"} \cup Ended

\* The values that the seed, the lock, the loaders and PostgreSQL take.
TypeOK ==
    /\ status \in [Collections -> {"none", "running", "published"}]
    /\ registrations \in [Collections -> SUBSET Registrations]
    /\ individuals \subseteq Advisers /\ rebuilds \in Nat
    /\ lock \in Loaders \cup {"none", "empty"}
    /\ pc \in [Loaders -> Places]
    /\ stages \in [Loaders -> {"all", "current-affiliation", "movement"}]
    /\ killed \subseteq Loaders
    /\ firm \subseteq Firms /\ advisor \subseteq Advisers
    /\ run \in [Collections -> ObservationRun \cup {None}]
    /\ observations \subseteq Observation
    /\ diffed \in [Collections -> Nat \cup {None}]
    /\ made \subseteq {"runs", "rows"}
    /\ staged_runs \subseteq StagedRun /\ staged_rows \subseteq Observation
    /\ covered \in [Collections -> SUBSET Firms]
    /\ shared \in BOOLEAN /\ late \in BOOLEAN

\* lock.ts: never more than one loader is running, though one that is killed
\* leaves its lock and the next one takes it over.
OneLoader == \A l, m \in Loaders : Loading(l) /\ Loading(m) => l = m

Snapshot(c) ==
    {[adviser |-> o.adviser, firm |-> o.firm, conducts |-> o.conducts] :
        o \in {p \in observations : p.collection = c /\ p.firm # None}}

\* A run that counts as complete has as observations, each once, exactly the
\* registrations of its collection with the firms that were known to a load
\* that completed it, whenever its pages were committed, whatever failed or
\* was killed between staging and swap, and though a rebuild has removed
\* them; unless two loads ever had the staging tables at once.
SnapshotsWhole ==
    ~shared => \A c \in Collections : complete(c) =>
        Snapshot(c) = {r \in Registered[c] : r.firm \in covered[c]}

\* A row that says an adviser is registered nowhere contradicts no other row of
\* its collection and nothing the collection will still turn out to hold,
\* though two loads write each other's staging tables.
AbsencesAreTrue ==
    \A o \in observations : o.firm = None =>
        ~\E r \in Registered[o.collection] : r.adviser = o.adviser /\ r.conducts

\* Movement of a collection was derived against the collection before it, after
\* that one's own: no predecessor is found later.  It can only be otherwise once
\* a collection was published after a later one, or rebuilt under one.
DiffedInOrder ==
    ~late => \A c \in Collections : diffed[c] # None =>
        diffed[c] = c - 1 /\ (c > 1 => diffed[c - 1] # None)

\* What the comment in 044 says of absence: an adviser who is registered in the
\* snapshot before and not in this one has a row that says so.
DeparturesRecorded ==
    \A c \in Collections : diffed[c] \notin {None, 0} =>
        \A o \in observations :
            o.collection = diffed[c] /\ o.conducts =>
                \E p \in observations : p.collection = c /\ p.adviser = o.adviser
=============================================================================
