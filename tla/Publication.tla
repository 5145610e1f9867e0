---------------------------- MODULE Publication ----------------------------
(***************************************************************************)
(* What becomes of a downloaded collection: ingest-individuals publishes   *)
(* its pages, a transaction each, behind a status; build-individual-       *)
(* snapshots derives a table per year from a published one; and            *)
(* export-normalized writes a release of both.  The commands share one     *)
(* DuckDB file, which only one of them can have open: the others fail.     *)
(*                                                                         *)
(* A collection is one plan and pages that do not change, of valid records *)
(* of different CRDs.  What a page becomes are the rows of the version of  *)
(* the parser that read it, and the errors it found in nested rows.        *)
(***************************************************************************)
EXTENDS Integers, Sequences, FiniteSets

CONSTANTS
    filings,        \* filings[n]: the CRDs whose records page n has
    Versions,       \* of the parser: 1..Versions
    Years,
    Publishers, Builders, Exporters,    \* calls of the commands
    None

Pages == DOMAIN filings
Calls == Publishers \cup Builders \cup Exporters

Contents == [Pages -> 1..Versions \cup {None}]

Releases == [version : 0..Versions, rows : Contents, snaps : [Years -> Contents \cup {None}]]

ASSUME PublicationAssumption ==
    /\ filings \in Seq(SUBSET Nat)
    /\ IsFiniteSet(UNION {filings[n] : n \in Pages})
    /\ \A n \in Pages : filings[n] # {}
    /\ \A m, n \in Pages : m # n => filings[m] \cap filings[n] = {}
    /\ Versions \in Nat \ {0}
    /\ Years \subseteq Int
    /\ Publishers \cap Builders = {} /\ Publishers \cap Exporters = {}
    /\ Builders \cap Exporters = {}
    /\ None \notin Nat \cup Calls \cup Releases \cup {<<>>}

VARIABLES
    code,           \* version of the installed program
    run,            \* the individual_collection_runs row
    rows,           \* rows[n]: version whose rows of page n are there, or None
    errors,         \* errors[n]: how often the errors of page n are there
    artifacts,      \* pages registered in source_artifacts
    individuals,    \* people
    snaps,          \* snaps[y]: the rows that the tables of year y were made of
    open,           \* the call that has the database open, or None
    staging, release,   \* directories of one release
    pc, ver,        \* control of a call, and its version
    at, count, known,   \* locals of a publisher: pages done, records, seen_crds
    todo,           \* locals of a builder: years left
    beside          \* history: a rebuild has started under a call that was Holding

tables == <<run, rows, errors, artifacts, individuals, snaps>>
directories == <<staging, release>>
publisherLocals == <<at, count, known>>
vars == <<code, tables, open, directories, pc, ver, publisherLocals, todo, beside>>

NoRows == [n \in Pages |-> None]

Init ==
    /\ code = 1
    /\ run = [status |-> "none", version |-> 0, retrieved |-> 0, completed |-> 0]
    /\ rows = NoRows
    /\ errors = [n \in Pages |-> 0]
    /\ artifacts = {} /\ individuals = {}
    /\ snaps = [y \in Years |-> None]
    /\ open = None
    /\ staging = None /\ release = None
    /\ pc = [c \in Calls |-> "idle"]
    /\ ver = [c \in Calls |-> 0]
    /\ at = [p \in Publishers |-> 0]
    /\ count = [p \in Publishers |-> 0]
    /\ known = [p \in Publishers |-> {}]
    /\ todo = [b \in Builders |-> {}]
    /\ beside = FALSE

Ended == {"done", "refused", "inconsistent", "crashed"}
Working(c) == pc[c] \notin Ended \cup {"idle"}

At(c, place) == pc[c] = place
Go(c, place) == pc' = [pc EXCEPT ![c] = place]

\* A step that opens the database, works in one transaction and closes it.
Connect(c, place) == At(c, place) /\ open = None

People(S) == UNION {filings[n] : n \in S}

expected_individual_count == Cardinality(People(Pages))

Retained == {n \in Pages : rows[n] # None}

\* The code is upgraded; a call that runs is of the version it started with.
Upgrade ==
    /\ code < Versions
    /\ code' = code + 1
    /\ UNCHANGED <<tables, open, directories, pc, ver, publisherLocals, todo, beside>>

Begin(c, place) ==
    /\ Connect(c, "idle")
    /\ Go(c, place)
    /\ ver' = [ver EXCEPT ![c] = code]

-----------------------------------------------------------------------------
(* ingest-individuals                                                       *)

Register(p) ==
    /\ Begin(p, "existing")
    /\ artifacts' = Pages
    /\ UNCHANGED <<code, run, rows, errors, individuals, snaps, open, directories,
                   publisherLocals, todo, beside>>

ExistingResult(p) ==
    /\ Connect(p, "existing")
    /\ Go(p, IF run.status = "published" /\ run.version = ver[p] THEN "done"
             ELSE "starting")
    /\ UNCHANGED <<code, tables, open, directories, ver, publisherLocals, todo, beside>>

\* slip: the snapshots of the old rows are kept
PrepareRowsOnly(p) ==
    /\ run' = [status |-> "running", version |-> ver[p], retrieved |-> 0, completed |-> 0]
    /\ rows' = NoRows
    /\ errors' = [n \in Pages |-> IF rows[n] # None THEN 0 ELSE errors[n]]
    /\ UNCHANGED snaps

\* slip: the errors of the old rows are kept
PrepareKeepsErrors(p) ==
    /\ run' = [status |-> "running", version |-> ver[p], retrieved |-> 0, completed |-> 0]
    /\ rows' = NoRows
    /\ snaps' = [y \in Years |-> None]
    /\ UNCHANGED errors

\* Every row of the collection goes, with the errors of the pages observed.
Prepare(p) ==
    /\ run' = [status |-> "running", version |-> ver[p], retrieved |-> 0, completed |-> 0]
    /\ rows' = NoRows
    /\ errors' = [n \in Pages |-> IF rows[n] # None THEN 0 ELSE errors[n]]
    /\ snaps' = [y \in Years |-> None]

Consistent ==
    /\ run.completed <= Len(filings)
    /\ Cardinality(People(Retained)) = run.retrieved
    /\ Retained \subseteq 1..run.completed

\* The call acts on what an earlier connection of its own found: a publisher on
\* its run, an exporter on its gates.  No status, version or lock is looked at.
Holding(c) == pc[c] \in {"opening", "loading", "finishing", "checking", "staging", "copying"}

StartFresh(p) ==
    /\ run.status = "none" \/ (run.status = "published" /\ run.version # ver[p])
    /\ Prepare(p)
    /\ beside' = (beside \/ (run.status = "published" /\ \E c \in Calls \ {p} : Holding(c)))
    /\ at' = [at EXCEPT ![p] = 0]
    /\ count' = [count EXCEPT ![p] = 0]
    /\ known' = [known EXCEPT ![p] = {}]
    /\ Go(p, "opening")

Resume(p) ==
    /\ run.status = "running" /\ run.version = ver[p]
    /\ IF Consistent
       THEN /\ at' = [at EXCEPT ![p] = run.completed]
            /\ count' = [count EXCEPT ![p] = run.retrieved]
            /\ known' = [known EXCEPT ![p] = People(Retained)]
            /\ Go(p, "opening")
       ELSE Go(p, "inconsistent") /\ UNCHANGED publisherLocals
    /\ UNCHANGED <<run, rows, errors, snaps, beside>>

\* An unfinished run of another version, or one that was published since.
Incompatible(p) ==
    /\ \/ run.status = "running" /\ run.version # ver[p]
       \/ run.status = "published" /\ run.version = ver[p]
    /\ Go(p, "refused")
    /\ UNCHANGED <<run, rows, errors, snaps, publisherLocals, beside>>

StartOrResume(p) ==
    /\ Connect(p, "starting")
    /\ StartFresh(p) \/ Resume(p) \/ Incompatible(p)
    /\ UNCHANGED <<code, artifacts, individuals, open, directories, ver, todo>>

\* One connection for all the pages that are left.
OpenPages(p) ==
    /\ Connect(p, "opening")
    /\ open' = p
    /\ Go(p, "loading")
    /\ UNCHANGED <<code, tables, directories, ver, publisherLocals, todo, beside>>

\* slip: the run is not brought up to the page
PageUncounted(p, n) ==
    /\ rows' = [rows EXCEPT ![n] = ver[p]]
    /\ errors' = [errors EXCEPT ![n] = @ + 1]
    /\ UNCHANGED run

CommitPage(p, n) ==
    /\ rows' = [rows EXCEPT ![n] = ver[p]]
    /\ errors' = [errors EXCEPT ![n] = @ + 1]
    /\ run' = IF run.status = "running"
              THEN [run EXCEPT !.retrieved = @ + Cardinality(filings[n]), !.completed = n]
              ELSE run

\* A row that is there is known, or fails the primary key; the transaction is
\* rolled back and the connection closed.
LoadPage(p) ==
    /\ At(p, "loading")
    /\ at[p] < Len(filings)
    /\ LET n == at[p] + 1 IN
       IF rows[n] = None /\ filings[n] \cap known[p] = {}
       THEN /\ CommitPage(p, n)
            /\ at' = [at EXCEPT ![p] = n]
            /\ count' = [count EXCEPT ![p] = @ + Cardinality(filings[n])]
            /\ known' = [known EXCEPT ![p] = @ \cup filings[n]]
            /\ UNCHANGED <<pc, open>>
       ELSE /\ Go(p, IF filings[n] \cap known[p] # {} THEN "inconsistent" ELSE "refused")
            /\ open' = None
            /\ UNCHANGED <<run, rows, errors, publisherLocals>>
    /\ UNCHANGED <<code, artifacts, individuals, snaps, directories, ver, todo, beside>>

ClosePages(p) ==
    /\ At(p, "loading")
    /\ at[p] = Len(filings)
    /\ open' = None
    /\ Go(p, IF count[p] = expected_individual_count THEN "finishing" ELSE "inconsistent")
    /\ UNCHANGED <<code, tables, directories, ver, publisherLocals, todo, beside>>

Finish(p) ==
    /\ Connect(p, "finishing")
    /\ individuals' = individuals \cup People(Retained)
    /\ run' = [run EXCEPT !.status = "published", !.retrieved = count[p],
                          !.completed = Len(filings)]
    /\ Go(p, "done")
    /\ UNCHANGED <<code, rows, errors, artifacts, snaps, open, directories, ver,
                   publisherLocals, todo, beside>>

-----------------------------------------------------------------------------
(* build-individual-snapshots: one connection for the status and the years. *)

OpenBuild(b) ==
    /\ Begin(b, IF run.status = "published" THEN "building" ELSE "refused")
    /\ open' = IF run.status = "published" THEN b ELSE None
    /\ todo' = [todo EXCEPT ![b] = IF run.status = "published" THEN Years ELSE {}]
    /\ UNCHANGED <<code, tables, directories, publisherLocals, beside>>

BuildYear(b, y) ==
    /\ At(b, "building")
    /\ y \in todo[b] /\ \A z \in todo[b] : y <= z
    /\ snaps' = [snaps EXCEPT ![y] = rows]
    /\ todo' = [todo EXCEPT ![b] = @ \ {y}]
    /\ UNCHANGED <<code, run, rows, errors, artifacts, individuals, open, directories,
                   pc, ver, publisherLocals, beside>>

CloseBuild(b) ==
    /\ At(b, "building")
    /\ todo[b] = {}
    /\ open' = None
    /\ Go(b, "done")
    /\ UNCHANGED <<code, tables, directories, ver, publisherLocals, todo, beside>>

-----------------------------------------------------------------------------
(* export-normalized: the gates, then a release that is copied into a       *)
(* staging directory from one connection and moved into its place.          *)

Valid ==
    /\ run.status = "published"
    /\ run.retrieved = expected_individual_count /\ run.completed = Len(filings)
    /\ Retained = Pages
    /\ \A y \in Years : snaps[y] # None

Validate(e) ==
    /\ Begin(e, IF Valid THEN "checking" ELSE "refused")
    /\ UNCHANGED <<code, tables, open, directories, publisherLocals, todo, beside>>

Check(e) ==
    /\ At(e, "checking")
    /\ Go(e, IF release = None /\ staging = None THEN "staging" ELSE "refused")
    /\ UNCHANGED <<code, tables, open, directories, ver, publisherLocals, todo, beside>>

MakeStaging(e) ==
    /\ At(e, "staging")
    /\ IF staging = None THEN staging' = <<>> /\ Go(e, "copying")
       ELSE UNCHANGED staging /\ Go(e, "refused")
    /\ UNCHANGED <<code, tables, open, release, ver, publisherLocals, todo, beside>>

\* An error from here on removes the staging directory.
Copy(e) ==
    /\ Connect(e, "copying")
    /\ IF run.status = "published"
       THEN /\ staging' = [version |-> run.version, rows |-> rows, snaps |-> snaps]
            /\ Go(e, "promoting")
       ELSE staging' = None /\ Go(e, "refused")
    /\ UNCHANGED <<code, tables, open, release, ver, publisherLocals, todo, beside>>

\* A directory does not replace one that is there.
Promote(e) ==
    /\ At(e, "promoting")
    /\ IF release = None THEN release' = staging /\ Go(e, "done")
       ELSE UNCHANGED release /\ Go(e, "refused")
    /\ staging' = None
    /\ UNCHANGED <<code, tables, open, ver, publisherLocals, todo, beside>>

-----------------------------------------------------------------------------
\* Another command has the database open.
Busy(c) ==
    /\ open \notin {None, c}
    /\ pc[c] \in {"existing", "starting", "opening", "finishing", "copying"}
    /\ Go(c, "refused")
    /\ staging' = IF At(c, "copying") THEN None ELSE staging
    /\ UNCHANGED <<code, tables, open, release, ver, publisherLocals, todo, beside>>

\* The process dies, or the parser throws: the transaction is rolled back.
Crash(c) ==
    /\ Working(c)
    /\ Go(c, "crashed")
    /\ open' = IF open = c THEN None ELSE open
    /\ UNCHANGED <<code, tables, directories, ver, publisherLocals, todo, beside>>

Publish(p) ==
    \/ Register(p) \/ ExistingResult(p) \/ StartOrResume(p) \/ OpenPages(p)
    \/ LoadPage(p) \/ ClosePages(p) \/ Finish(p)

Build(b) == OpenBuild(b) \/ (\E y \in Years : BuildYear(b, y)) \/ CloseBuild(b)

Export(e) == Validate(e) \/ Check(e) \/ MakeStaging(e) \/ Copy(e) \/ Promote(e)

Next ==
    \/ Upgrade
    \/ \E p \in Publishers : Publish(p)
    \/ \E b \in Builders : Build(b)
    \/ \E e \in Exporters : Export(e)
    \/ \E c \in Calls : Busy(c) \/ Crash(c)

Spec == Init /\ [][Next]_vars

-----------------------------------------------------------------------------
Statuses == {"none", "running", "published"}

Runs == [status : Statuses, version : 0..Versions, retrieved : Nat, completed : 0..Len(filings)]

Places == {"idle", "existing", "starting", "opening", "loading", "finishing", "building",
           "checking", "staging", "copying", "promoting"} \cup Ended

TableTypes ==
    /\ run \in Runs
    /\ rows \in Contents /\ errors \in [Pages -> Nat]
    /\ artifacts \subseteq Pages /\ individuals \subseteq People(Pages)
    /\ snaps \in [Years -> Contents \cup {None}]

CallTypes ==
    /\ code \in 1..Versions
    /\ open \in Calls \cup {None}
    /\ pc \in [Calls -> Places]
    /\ ver \in [Calls -> 0..Versions]
    /\ at \in [Publishers -> 0..Len(filings)]
    /\ count \in [Publishers -> Nat]
    /\ known \in [Publishers -> SUBSET People(Pages)]
    /\ todo \in [Builders -> SUBSET Years]
    /\ beside \in BOOLEAN

\* The values the tables, the directories and the locals of the calls take.
TypeOK ==
    /\ TableTypes /\ CallTypes
    /\ staging \in Releases \cup {<<>>, None}
    /\ release \in Releases \cup {None}

\* A published collection is all there: every page with the rows and, once,
\* the errors of the version that the run names, its people and its artifacts,
\* and totals that add up; whichever publishers died at whichever page, and
\* whatever an earlier version had left, unless a rebuild ever started while
\* another call was between two connections of its own.
PublishedIsComplete ==
    ~beside /\ run.status = "published" =>
        /\ rows = [n \in Pages |-> run.version]
        /\ errors = [n \in Pages |-> 1]
        /\ artifacts = Pages /\ individuals = People(Pages)
        /\ run.retrieved = expected_individual_count /\ run.completed = Len(filings)

\* A page has its errors once while it has rows, and none otherwise, whatever
\* runs beside what.  With that same exception, what an unfinished run says of
\* its progress is what is in the tables, page for page, so that a publisher
\* that resumes it never finds it inconsistent.
ProgressIsCommitted ==
    /\ \A n \in Pages : errors[n] = IF n \in Retained THEN 1 ELSE 0
    /\ ~beside /\ run.status = "running" =>
          /\ Retained = 1..run.completed
          /\ run.retrieved = Cardinality(People(Retained))
          /\ \A n \in Pages : rows[n] \in {run.version, None}
    /\ ~beside => \A p \in Publishers : ~At(p, "inconsistent")

Whole(r) ==
    /\ r.rows = [n \in Pages |-> r.version]
    /\ \A y \in Years : r.snaps[y] = r.rows

\* The tables of a year are made of all the rows of the published version,
\* and a release is rows and tables of the one version that it names, though
\* the years, the gates and the copy are of different moments; but for a
\* rebuild that started in between.
SnapshotsFollowRows ==
    ~beside =>
        /\ \A y \in Years : snaps[y] # None => run.status = "published" /\ snaps[y] = rows
        /\ release # None => Whole(release)
=============================================================================
