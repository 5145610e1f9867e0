------------------------- MODULE PublicationProofs -------------------------
(***************************************************************************)
(* A published collection is complete and an unfinished one resumable, for *)
(* any pages, versions and numbers of calls, whenever the parser is        *)
(* upgraded, until a rebuild starts under a call that is between two       *)
(* connections of its own.                                                 *)
(***************************************************************************)
EXTENDS Publication, FiniteSetTheorems, TLAPS

\* What holds whatever runs beside what: calls know a version, at most one
\* exporter has a staging directory, and errors come and go with the rows.
VersionInv == \A c \in Calls : Working(c) => ver[c] \in 1..Versions

CopyInv ==
    /\ \A c \in Calls : At(c, "copying") => c \in Exporters
    /\ \A e, f \in Exporters :
          /\ pc[e] \in {"copying", "promoting"} /\ pc[f] \in {"copying", "promoting"}
          => e = f
    /\ \A e \in Exporters : pc[e] \in {"copying", "promoting"} => staging # None
    /\ \A e \in Exporters : At(e, "promoting") => staging \in Releases

ErrorsInv == \A n \in Pages : errors[n] = IF n \in Retained THEN 1 ELSE 0

BaseInv == TypeOK /\ VersionInv /\ CopyInv /\ ErrorsInv

\* What the tables hold of a run, published or not.
RunInv ==
    /\ run.status = "none" => rows = NoRows
    /\ run.status # "none" =>
          /\ artifacts = Pages
          /\ Retained = 1..run.completed
          /\ run.retrieved = Cardinality(People(Retained))
          /\ \A n \in Pages : rows[n] \in {run.version, None}
    /\ run.status = "published" =>
          run.completed = Len(filings) /\ individuals = People(Pages)

Under(p) == pc[p] \in {"opening", "loading", "finishing"}

\* What a publisher knows of the run between two of its connections.
LoadInv ==
    /\ \A p \in Publishers : ~At(p, "inconsistent")
    /\ \A p \in Publishers : pc[p] \in {"existing", "starting"} => artifacts = Pages
    /\ \A p \in Publishers : Under(p) =>
          /\ run.status # "none" /\ run.version = ver[p]
          /\ at[p] <= run.completed
          /\ count[p] = Cardinality(People(1..at[p]))
          /\ known[p] = People(1..at[p])
    /\ \A p \in Publishers : At(p, "loading") => open = p
    /\ \A p \in Publishers : At(p, "finishing") => at[p] = Len(filings)

Derived == \A y \in Years : snaps[y] = rows

SnapInv ==
    /\ \A y \in Years : snaps[y] # None => run.status = "published" /\ snaps[y] = rows
    /\ \A b \in Builders : At(b, "building") => open = b /\ run.status = "published"
    /\ \A e \in Exporters : pc[e] \in {"checking", "staging", "copying"} =>
          run.status = "published" /\ Derived

ReleaseInv ==
    /\ \A e \in Exporters : At(e, "promoting") => Whole(staging)
    /\ release # None => Whole(release)

IInv == BaseInv /\ RunInv /\ LoadInv /\ SnapInv /\ ReleaseInv

SafeInv == BaseInv /\ (~beside => IInv)

-----------------------------------------------------------------------------
(* People and counts                                                        *)

LEMMA FilingsType ==
    /\ Len(filings) \in Nat /\ Pages = 1..Len(filings)
    /\ \A n \in Pages : filings[n] \subseteq Nat
BY PublicationAssumption DEF Pages

LEMMA PeopleFinite ==
    ASSUME NEW S \in SUBSET Pages
    PROVE  /\ IsFiniteSet(People(S)) /\ People(S) \subseteq People(Pages)
           /\ Cardinality(People(S)) \in Nat
<1>1. IsFiniteSet(People(Pages))
  BY PublicationAssumption DEF People
<1>2. People(S) \subseteq People(Pages)
  BY DEF People
<1>3. IsFiniteSet(People(S))
  BY <1>1, <1>2, FS_Subset
<1> QED
  BY <1>2, <1>3, FS_CardinalityType

\* A page adds its records to those of the pages before it.
LEMMA PageAdds ==
    ASSUME NEW n \in Pages
    PROVE  /\ filings[n] \cap People(1..(n - 1)) = {}
           /\ People(1..n) = People(1..(n - 1)) \cup filings[n]
           /\ Cardinality(People(1..n))
                  = Cardinality(People(1..(n - 1))) + Cardinality(filings[n])
           /\ Cardinality(filings[n]) \in Nat
<1> n \in Nat /\ n >= 1 /\ n <= Len(filings) /\ Len(filings) \in Nat
  BY FilingsType
<1> DEFINE before == People(1..(n - 1))
<1>1. 1..(n - 1) \in SUBSET Pages /\ {n} \in SUBSET Pages
  BY FilingsType
<1>2. 1..n = (1..(n - 1)) \cup {n} /\ n \notin 1..(n - 1)
  OBVIOUS
<1>3. filings[n] = People({n})
  BY DEF People
<1>4. filings[n] \cap before = {}
  BY <1>1, <1>2, PublicationAssumption DEF People
<1>5. People(1..n) = before \cup filings[n]
  BY <1>2 DEF People
<1>6. IsFiniteSet(before) /\ IsFiniteSet(filings[n]) /\ Cardinality(before) \in Nat
      /\ Cardinality(filings[n]) \in Nat
  BY <1>1, <1>3, PeopleFinite
<1>7. Cardinality(before \cup filings[n])
        = Cardinality(before) + Cardinality(filings[n]) - Cardinality(before \cap filings[n])
  BY <1>6, FS_Union
<1>8. Cardinality(before \cap filings[n]) = 0
  BY <1>4, FS_EmptySet
<1> HIDE DEF before
<1>9. Cardinality(before \cup filings[n]) = Cardinality(before) + Cardinality(filings[n])
  BY <1>6, <1>7, <1>8
<1> QED
  BY <1>4, <1>5, <1>6, <1>9 DEF before

LEMMA NoPeople == People({}) = {} /\ Cardinality(People({})) = 0
BY FS_EmptySet DEF People

-----------------------------------------------------------------------------
(* The initial state, and what the invariant says                           *)

LEMMA InitSafe == Init => SafeInv
<1> SUFFICES ASSUME Init PROVE IInv
  BY DEF SafeInv, IInv
<1>1. TypeOK
  <2>1. TableTypes
    BY FilingsType, PublicationAssumption
       DEF Init, TableTypes, Runs, Statuses, Contents, NoRows, People
  <2>2. beside \in BOOLEAN
    BY Zenon DEF Init
  <2>3. code \in 1..Versions /\ ver \in [Calls -> 0..Versions]
    BY PublicationAssumption DEF Init
  <2>4. /\ open \in Calls \cup {None} /\ pc \in [Calls -> Places]
        /\ todo \in [Builders -> SUBSET Years]
    BY DEF Init, Places
  <2>5. /\ at \in [Publishers -> 0..Len(filings)] /\ count \in [Publishers -> Nat]
        /\ known \in [Publishers -> SUBSET People(Pages)]
    BY FilingsType DEF Init
  <2> QED
    BY <2>1, <2>2, <2>3, <2>4, <2>5 DEF Init, TypeOK, CallTypes
<1>2. RunInv /\ ErrorsInv
  BY DEF Init, RunInv, ErrorsInv, Retained, NoRows
<1>3. LoadInv /\ VersionInv
  BY PublicationAssumption DEF Init, LoadInv, VersionInv, Working, At, Under, Ended, Calls
<1>4. SnapInv
  BY PublicationAssumption DEF Init, SnapInv, At, Calls
<1>5. ReleaseInv /\ CopyInv
  BY PublicationAssumption DEF Init, ReleaseInv, CopyInv, At, Calls
<1> QED
  BY <1>1, <1>2, <1>3, <1>4, <1>5 DEF IInv, BaseInv

LEMMA IInvSays ==
    IInv => /\ run.status = "published" =>
                 /\ rows = [n \in Pages |-> run.version]
                 /\ errors = [n \in Pages |-> 1]
                 /\ artifacts = Pages /\ individuals = People(Pages)
                 /\ run.retrieved = expected_individual_count
                 /\ run.completed = Len(filings)
            /\ ProgressIsCommitted /\ SnapshotsFollowRows
<1> SUFFICES ASSUME IInv
             PROVE  /\ run.status = "published" =>
                         /\ rows = [n \in Pages |-> run.version]
                         /\ errors = [n \in Pages |-> 1]
                         /\ artifacts = Pages /\ individuals = People(Pages)
                         /\ run.retrieved = expected_individual_count
                         /\ run.completed = Len(filings)
                    /\ ProgressIsCommitted /\ SnapshotsFollowRows
  OBVIOUS
<1>1. Len(filings) \in Nat /\ Pages = 1..Len(filings)
  BY FilingsType
<1>2. ASSUME run.status = "published"
      PROVE  /\ rows = [n \in Pages |-> run.version]
             /\ errors = [n \in Pages |-> 1]
             /\ artifacts = Pages /\ individuals = People(Pages)
             /\ run.retrieved = expected_individual_count
             /\ run.completed = Len(filings)
  <2>1. /\ artifacts = Pages /\ individuals = People(Pages)
        /\ run.completed = Len(filings) /\ Retained = Pages
        /\ run.retrieved = Cardinality(People(Retained))
        /\ \A n \in Pages : rows[n] \in {run.version, None}
        /\ \A n \in Pages : errors[n] = IF n \in Retained THEN 1 ELSE 0
    BY <1>1, <1>2 DEF IInv, RunInv, BaseInv, ErrorsInv
  <2>2. rows \in [Pages -> 1..Versions \cup {None}] /\ errors \in [Pages -> Nat]
    BY DEF IInv, BaseInv, TypeOK, TableTypes, Contents
  <2>3. \A n \in Pages : rows[n] = run.version
    BY <2>1 DEF Retained
  <2> QED
    BY <2>1, <2>2, <2>3 DEF expected_individual_count
<1>3. ProgressIsCommitted
  BY DEF IInv, BaseInv, RunInv, LoadInv, ErrorsInv, ProgressIsCommitted
<1>4. SnapshotsFollowRows
  BY DEF IInv, SnapInv, ReleaseInv, SnapshotsFollowRows
<1> QED
  BY <1>2, <1>3, <1>4

LEMMA SafeInvSays ==
    SafeInv => TypeOK /\ PublishedIsComplete /\ ProgressIsCommitted /\ SnapshotsFollowRows
<1>1. CASE beside
  BY <1>1 DEF SafeInv, BaseInv, ErrorsInv, PublishedIsComplete, ProgressIsCommitted,
              SnapshotsFollowRows
<1>2. CASE ~beside
  BY <1>2, IInvSays DEF SafeInv, BaseInv, PublishedIsComplete
<1> QED
  BY <1>1, <1>2

-----------------------------------------------------------------------------
(* Types                                                                    *)

LEMMA RegisterTypes ==
    ASSUME TypeOK, NEW p \in Publishers, Register(p)
    PROVE  TypeOK'
<1>1. TableTypes'
  BY DEF TypeOK, TableTypes, Register
<1>2. CallTypes'
  BY PublicationAssumption
     DEF TypeOK, CallTypes, Register, Begin, Connect, Go, At, Calls, Places, publisherLocals
<1> QED
  BY <1>1, <1>2 DEF TypeOK, Register, directories

LEMMA ExistingResultTypes ==
    ASSUME TypeOK, NEW p \in Publishers, ExistingResult(p)
    PROVE  TypeOK'
BY FilingsType, PublicationAssumption
   DEF TypeOK, TableTypes, CallTypes, ExistingResult, Connect, Go, At, Calls, Runs, Statuses,
       Contents, Releases, Places, Ended, tables, directories, publisherLocals

LEMMA StartFreshTypes ==
    ASSUME TypeOK, NEW p \in Publishers, StartOrResume(p), StartFresh(p)
    PROVE  TypeOK'
BY SMTT(30), FilingsType, PublicationAssumption
   DEF TypeOK, TableTypes, CallTypes, StartOrResume, StartFresh, Prepare, NoRows, Connect, Go, At, Calls, Runs, Statuses,
       Contents, Releases, Places, Ended, tables, directories, publisherLocals

LEMMA ResumeTypes ==
    ASSUME TypeOK, NEW p \in Publishers, StartOrResume(p), Resume(p)
    PROVE  TypeOK'
<1>1. TableTypes'
  BY DEF TypeOK, TableTypes, StartOrResume, Resume
<1>2. People(Retained) \in SUBSET People(Pages)
  BY PeopleFinite DEF Retained
<1>3. run.completed \in 0..Len(filings) /\ run.retrieved \in Nat
  BY DEF TypeOK, TableTypes, Runs
<1>4. /\ at' \in [Publishers -> 0..Len(filings)]
      /\ count' \in [Publishers -> Nat]
      /\ known' \in [Publishers -> SUBSET People(Pages)]
  BY <1>2, <1>3 DEF TypeOK, CallTypes, Resume, publisherLocals
<1>5. pc' \in [Calls -> Places] /\ beside' \in BOOLEAN
  BY DEF TypeOK, CallTypes, Resume, Go, Calls, Places, Ended
<1>6. CallTypes'
  BY <1>4, <1>5 DEF TypeOK, CallTypes, StartOrResume
<1> QED
  BY <1>1, <1>6 DEF TypeOK, StartOrResume, directories

LEMMA IncompatibleTypes ==
    ASSUME TypeOK, NEW p \in Publishers, StartOrResume(p), Incompatible(p)
    PROVE  TypeOK'
BY FilingsType, PublicationAssumption
   DEF TypeOK, TableTypes, CallTypes, StartOrResume, Incompatible, Connect, Go, At, Calls, Runs, Statuses,
       Contents, Releases, Places, Ended, tables, directories, publisherLocals

LEMMA OpenPagesTypes ==
    ASSUME TypeOK, NEW p \in Publishers, OpenPages(p)
    PROVE  TypeOK'
BY FilingsType, PublicationAssumption
   DEF TypeOK, TableTypes, CallTypes, OpenPages, Connect, Go, At, Calls, Runs, Statuses,
       Contents, Releases, Places, Ended, tables, directories, publisherLocals

LEMMA LoadPageTypes ==
    ASSUME TypeOK, VersionInv, NEW p \in Publishers, LoadPage(p)
    PROVE  TypeOK'
<1> DEFINE n == at[p] + 1
<1>1. n \in Pages /\ n \in 0..Len(filings)
  BY FilingsType DEF TypeOK, CallTypes, LoadPage
<1>2. Cardinality(filings[n]) \in Nat /\ filings[n] \subseteq People(Pages)
  BY <1>1, PageAdds DEF People
<1>3. /\ open' \in Calls \cup {None} /\ pc' \in [Calls -> Places]
      /\ UNCHANGED <<code, artifacts, individuals, snaps, directories, ver, todo, beside>>
  BY DEF TypeOK, CallTypes, LoadPage, Go, Calls, Places, Ended
<1> HIDE DEF n
<1>4. CASE rows[n] = None /\ filings[n] \cap known[p] = {}
  <2>1. /\ rows' = [rows EXCEPT ![n] = ver[p]]
        /\ errors' = [errors EXCEPT ![n] = @ + 1]
        /\ run' = IF run.status = "running"
                  THEN [run EXCEPT !.retrieved = @ + Cardinality(filings[n]), !.completed = n]
                  ELSE run
        /\ at' = [at EXCEPT ![p] = n]
        /\ count' = [count EXCEPT ![p] = @ + Cardinality(filings[n])]
        /\ known' = [known EXCEPT ![p] = @ \cup filings[n]]
    BY <1>4 DEF LoadPage, CommitPage, n
  <2>2. run' \in Runs
    <3>1. run \in Runs /\ run.retrieved + Cardinality(filings[n]) \in Nat
      BY <1>2 DEF TypeOK, TableTypes, Runs
    <3> QED
      BY <1>1, <2>1, <3>1 DEF Runs
  <2>3. ver[p] \in 1..Versions
    BY DEF TypeOK, CallTypes, VersionInv, Working, LoadPage, At, Ended, Calls
  <2>4. rows' \in Contents /\ errors' \in [Pages -> Nat]
    BY <1>1, <2>1, <2>3 DEF TypeOK, TableTypes, Contents
  <2>5. /\ at' \in [Publishers -> 0..Len(filings)]
        /\ count' \in [Publishers -> Nat]
        /\ known' \in [Publishers -> SUBSET People(Pages)]
    BY <1>1, <1>2, <2>1 DEF TypeOK, CallTypes
  <2> QED
    BY <1>3, <2>2, <2>4, <2>5 DEF TypeOK, TableTypes, CallTypes, directories
<1>5. CASE ~(rows[n] = None /\ filings[n] \cap known[p] = {})
  <2>1. UNCHANGED <<run, rows, errors, publisherLocals>>
    BY <1>5 DEF LoadPage, n
  <2> QED
    BY <1>3, <2>1 DEF TypeOK, TableTypes, CallTypes, directories, publisherLocals
<1> QED
  BY <1>4, <1>5

LEMMA ClosePagesTypes ==
    ASSUME TypeOK, NEW p \in Publishers, ClosePages(p)
    PROVE  TypeOK'
BY FilingsType, PublicationAssumption
   DEF TypeOK, TableTypes, CallTypes, ClosePages, Go, At, Calls, Runs, Statuses,
       Contents, Releases, Places, Ended, tables, directories, publisherLocals

LEMMA FinishTypes ==
    ASSUME TypeOK, NEW p \in Publishers, Finish(p)
    PROVE  TypeOK'
<1>1. People(Retained) \in SUBSET People(Pages)
  BY PeopleFinite DEF Retained
<1>2. count[p] \in Nat /\ Len(filings) \in 0..Len(filings)
  BY FilingsType DEF TypeOK, CallTypes
<1>3. run' \in Runs
  BY <1>2 DEF TypeOK, TableTypes, Runs, Statuses, Finish
<1>4. TableTypes'
  BY <1>1, <1>3 DEF TypeOK, TableTypes, Finish
<1>5. CallTypes'
  BY DEF TypeOK, CallTypes, Finish, Go, Calls, Places, Ended, publisherLocals
<1> QED
  BY <1>4, <1>5 DEF TypeOK, Finish, directories

LEMMA OpenBuildTypes ==
    ASSUME TypeOK, NEW b \in Builders, OpenBuild(b)
    PROVE  TypeOK'
BY FilingsType, PublicationAssumption
   DEF TypeOK, TableTypes, CallTypes, OpenBuild, Begin, Connect, Go, At, Calls, Runs, Statuses,
       Contents, Releases, Places, Ended, tables, directories, publisherLocals

LEMMA BuildYearTypes ==
    ASSUME TypeOK, NEW b \in Builders, NEW y \in Years, BuildYear(b, y)
    PROVE  TypeOK'
BY FilingsType, PublicationAssumption
   DEF TypeOK, TableTypes, CallTypes, BuildYear, Go, At, Calls, Runs, Statuses,
       Contents, Releases, Places, Ended, tables, directories, publisherLocals

LEMMA CloseBuildTypes ==
    ASSUME TypeOK, NEW b \in Builders, CloseBuild(b)
    PROVE  TypeOK'
BY FilingsType, PublicationAssumption
   DEF TypeOK, TableTypes, CallTypes, CloseBuild, Go, At, Calls, Runs, Statuses,
       Contents, Releases, Places, Ended, tables, directories, publisherLocals

LEMMA ValidateTypes ==
    ASSUME TypeOK, NEW e \in Exporters, Validate(e)
    PROVE  TypeOK'
BY SMTT(30), FilingsType, PublicationAssumption
   DEF TypeOK, TableTypes, CallTypes, Validate, Valid, Begin, Connect, Go, At, Calls, Runs, Statuses,
       Contents, Releases, Places, Ended, tables, directories, publisherLocals

LEMMA CheckTypes ==
    ASSUME TypeOK, NEW e \in Exporters, Check(e)
    PROVE  TypeOK'
BY FilingsType, PublicationAssumption
   DEF TypeOK, TableTypes, CallTypes, Check, Go, At, Calls, Runs, Statuses,
       Contents, Releases, Places, Ended, tables, directories, publisherLocals

LEMMA MakeStagingTypes ==
    ASSUME TypeOK, NEW e \in Exporters, MakeStaging(e)
    PROVE  TypeOK'
BY ZenonT(40), FilingsType, PublicationAssumption
   DEF TypeOK, TableTypes, CallTypes, MakeStaging, Go, At, Calls, Runs, Statuses,
       Contents, Releases, Places, Ended, tables, directories, publisherLocals

LEMMA CopyTypes ==
    ASSUME TypeOK, NEW e \in Exporters, Copy(e)
    PROVE  TypeOK'
<1>1. TableTypes'
  BY DEF TypeOK, TableTypes, Copy, tables
<1>2. CallTypes'
  BY DEF TypeOK, CallTypes, Copy, Go, Calls, Places, Ended, publisherLocals
<1>3. [version |-> run.version, rows |-> rows, snaps |-> snaps] \in Releases
  BY DEF TypeOK, TableTypes, Runs, Releases
<1> QED
  BY <1>1, <1>2, <1>3 DEF TypeOK, Copy

LEMMA PromoteTypes ==
    ASSUME TypeOK, CopyInv, NEW e \in Exporters, Promote(e)
    PROVE  TypeOK'
<1>1. TableTypes'
  BY DEF TypeOK, TableTypes, Promote, tables
<1>2. CallTypes'
  BY DEF TypeOK, CallTypes, Promote, Go, Calls, Places, Ended, publisherLocals
<1>3. staging \in Releases
  BY DEF CopyInv, Promote, At
<1> QED
  BY <1>1, <1>2, <1>3 DEF TypeOK, Promote

LEMMA BusyTypes ==
    ASSUME TypeOK, NEW c \in Calls, Busy(c)
    PROVE  TypeOK'
BY FilingsType, PublicationAssumption
   DEF TypeOK, TableTypes, CallTypes, Busy, Go, At, Calls, Runs, Statuses,
       Contents, Releases, Places, Ended, tables, directories, publisherLocals

LEMMA CrashTypes ==
    ASSUME TypeOK, NEW c \in Calls, Crash(c)
    PROVE  TypeOK'
BY FilingsType, PublicationAssumption
   DEF TypeOK, TableTypes, CallTypes, Crash, Working, Go, At, Calls, Runs, Statuses,
       Contents, Releases, Places, Ended, tables, directories, publisherLocals

LEMMA UpgradeTypes ==
    ASSUME TypeOK, Upgrade
    PROVE  TypeOK'
BY SMTT(30), FilingsType, PublicationAssumption
   DEF TypeOK, TableTypes, CallTypes, Upgrade, Working, Go, At, Calls, Runs, Statuses,
       Contents, Releases, Places, Ended, tables, directories, publisherLocals

-----------------------------------------------------------------------------
(* The other parts of the invariant                                         *)

LEMMA RegisterSafe ==
    ASSUME IInv, NEW p \in Publishers, Register(p)
    PROVE  RunInv' /\ LoadInv' /\ SnapInv' /\ ReleaseInv'
<1> USE PublicationAssumption DEF At, Go, Calls, tables, directories, publisherLocals
<1>1. RunInv'
  BY DEF IInv, BaseInv, RunInv, Retained, Register, Begin, Connect
<1>2. LoadInv'
  BY DEF IInv, BaseInv, TypeOK, CallTypes, LoadInv, Under, Working, Ended, Register, Begin, Connect
<1>3. SnapInv'
  BY DEF IInv, BaseInv, TypeOK, CallTypes, SnapInv, Derived, Register, Begin, Connect
<1>4. ReleaseInv'
  BY DEF IInv, BaseInv, TypeOK, CallTypes, ReleaseInv, Whole, Register, Begin, Connect
<1> QED
  BY <1>1, <1>2, <1>3, <1>4

LEMMA ExistingResultSafe ==
    ASSUME IInv, NEW p \in Publishers, ExistingResult(p)
    PROVE  RunInv' /\ LoadInv' /\ SnapInv' /\ ReleaseInv'
<1> USE PublicationAssumption DEF At, Go, Calls, tables, directories, publisherLocals
<1>1. RunInv'
  BY DEF IInv, BaseInv, RunInv, Retained, ExistingResult, Connect
<1>2. LoadInv'
  BY DEF IInv, BaseInv, TypeOK, CallTypes, LoadInv, Under, Working, Ended, ExistingResult, Connect
<1>3. SnapInv'
  BY DEF IInv, BaseInv, TypeOK, CallTypes, SnapInv, Derived, ExistingResult, Connect
<1>4. ReleaseInv'
  BY DEF IInv, BaseInv, TypeOK, CallTypes, ReleaseInv, Whole, ExistingResult, Connect
<1> QED
  BY <1>1, <1>2, <1>3, <1>4

LEMMA StartFreshSafe ==
    ASSUME IInv, NEW p \in Publishers, StartOrResume(p), StartFresh(p), ~beside'
    PROVE  RunInv' /\ LoadInv' /\ SnapInv' /\ ReleaseInv'
<1> USE PublicationAssumption DEF At, Go, Calls
<1>1. /\ run' = [status |-> "running", version |-> ver[p], retrieved |-> 0, completed |-> 0]
      /\ rows' = NoRows /\ snaps' = [y \in Years |-> None]
  BY DEF StartFresh, Prepare
<1>2. /\ at' = [at EXCEPT ![p] = 0] /\ count' = [count EXCEPT ![p] = 0]
      /\ known' = [known EXCEPT ![p] = {}] /\ pc' = [pc EXCEPT ![p] = "opening"]
      /\ UNCHANGED <<code, artifacts, individuals, open, ver, staging, release>>
      /\ pc[p] = "starting"
  BY DEF StartOrResume, StartFresh, Connect, directories
<1>3. artifacts = Pages
  BY <1>2 DEF IInv, BaseInv, LoadInv
\* Nobody else is between two connections on a run that is there.
<1>4. \A c \in Calls \ {p} :
          /\ c \in Publishers => ~Under(c)
          /\ c \in Exporters => pc[c] \notin {"checking", "staging", "copying"}
  <2>1. CASE run.status = "none"
    BY <2>1 DEF IInv, LoadInv, SnapInv
  <2>2. CASE run.status = "published"
    BY <2>2 DEF StartFresh, Holding, Under
  <2> QED
    BY <2>1, <2>2 DEF StartFresh
<1>5. RunInv'
  <2>1. Retained' = 1..run'.completed /\ Retained' = {}
    BY <1>1 DEF Retained, NoRows
  <2>2. run'.retrieved = Cardinality(People(Retained'))
    BY <1>1, <2>1, NoPeople
  <2>4. \A n \in Pages : rows'[n] = None
    BY <1>1 DEF NoRows
  <2>5. run'.status = "running" /\ artifacts' = Pages
    BY <1>1, <1>2, <1>3
  <2> QED
    BY <2>1, <2>2, <2>4, <2>5 DEF RunInv
<1>6. LoadInv'
  <2>1. ~At(p, "inconsistent")' /\ ~At(p, "loading")' /\ ~At(p, "finishing")'
        /\ pc'[p] = "opening"
    BY <1>2 DEF IInv, BaseInv, TypeOK, CallTypes, LoadInv, Working, Ended
  <2>2. /\ at'[p] = 0 /\ count'[p] = 0 /\ known'[p] = {}
        /\ run'.status = "running" /\ run'.version = ver'[p] /\ run'.completed = 0
    BY <1>1, <1>2 DEF IInv, BaseInv, TypeOK, CallTypes
  <2>3. 1..0 = {}
    OBVIOUS
  <2>4. /\ count'[p] = Cardinality(People(1..at'[p])) /\ known'[p] = People(1..at'[p])
        /\ at'[p] <= run'.completed
    BY <2>2, <2>3, NoPeople
  <2>5. \A c \in Calls \ {p} : pc'[c] = pc[c] /\ ver'[c] = ver[c]
    BY <1>2 DEF IInv, BaseInv, TypeOK, CallTypes
  <2>6. \A q \in Publishers \ {p} : ~Under(q)' /\ ~At(q, "loading")' /\ ~At(q, "finishing")'
    BY <1>4, <2>5 DEF Under, Working, Ended
  <2>8. \A q \in Publishers : ~At(q, "inconsistent")'
    BY <2>1, <2>5 DEF IInv, BaseInv, LoadInv
  <2>9. artifacts' = Pages
    BY <1>2, <1>3
  <2>10. \A q \in Publishers : Under(q)' => q = p
    BY <2>6
  <2> QED
    BY <2>1, <2>2, <2>4, <2>6, <2>8, <2>9, <2>10 DEF LoadInv
<1>7. SnapInv'
  <2>1. \A c \in Builders \cup Exporters : c # p /\ pc'[c] = pc[c]
    BY <1>2 DEF IInv, BaseInv, TypeOK, CallTypes
  <2>2. \A b \in Builders : pc[b] # "building"
    BY DEF StartOrResume, Connect, IInv, SnapInv
  <2>3. \A e \in Exporters : pc[e] \notin {"checking", "staging", "copying"}
    BY <1>4, <2>1 DEF IInv, BaseInv, SnapInv, Working, Ended
  <2> QED
    BY <1>1, <2>1, <2>2, <2>3 DEF SnapInv
<1>8. ReleaseInv'
  BY <1>2 DEF IInv, BaseInv, TypeOK, CallTypes, ReleaseInv, Whole
<1> QED
  BY <1>5, <1>6, <1>7, <1>8

LEMMA ResumeSafe ==
    ASSUME IInv, NEW p \in Publishers, StartOrResume(p), Resume(p)
    PROVE  RunInv' /\ LoadInv' /\ SnapInv' /\ ReleaseInv'
<1> USE PublicationAssumption DEF At, Go, Calls
<1>1. /\ UNCHANGED <<run, rows, errors, snaps, code, artifacts, individuals, open,
                     staging, release, ver>>
      /\ pc[p] = "starting" /\ run.status = "running" /\ run.version = ver[p]
  BY DEF StartOrResume, Resume, Connect, directories
<1>2. Consistent
  BY DEF Resume, IInv, BaseInv, RunInv, Consistent, TypeOK, TableTypes, Runs
<1>3. /\ at' = [at EXCEPT ![p] = run.completed]
      /\ count' = [count EXCEPT ![p] = run.retrieved]
      /\ known' = [known EXCEPT ![p] = People(Retained)]
      /\ pc' = [pc EXCEPT ![p] = "opening"]
  BY <1>2 DEF Resume
<1>4. RunInv'
  BY <1>1 DEF IInv, BaseInv, RunInv, Retained
<1>5. LoadInv'
  <2>1. /\ pc'[p] = "opening" /\ at'[p] = run.completed /\ count'[p] = run.retrieved
        /\ known'[p] = People(Retained)
    BY <1>3 DEF IInv, BaseInv, TypeOK, CallTypes
  <2>2. /\ Retained = 1..run.completed /\ run.retrieved = Cardinality(People(Retained))
        /\ artifacts = Pages /\ run.completed \in Nat
    BY <1>1, FilingsType DEF IInv, BaseInv, RunInv, TypeOK, TableTypes, Runs
  <2>3. \A c \in Calls \ {p} : pc'[c] = pc[c]
    BY <1>3 DEF IInv, BaseInv, TypeOK, CallTypes
  <2>4. \A q \in Publishers \ {p} : at'[q] = at[q] /\ count'[q] = count[q] /\ known'[q] = known[q]
    BY <1>3 DEF IInv, BaseInv, TypeOK, CallTypes
  <2> QED
    BY <1>1, <2>1, <2>2, <2>3, <2>4 DEF IInv, BaseInv, LoadInv, Under
<1>6. SnapInv'
  BY <1>1, <1>3 DEF IInv, BaseInv, TypeOK, CallTypes, SnapInv, Derived
<1>7. ReleaseInv'
  BY <1>1, <1>3 DEF IInv, BaseInv, TypeOK, CallTypes, ReleaseInv, Whole
<1> QED
  BY <1>4, <1>5, <1>6, <1>7

LEMMA IncompatibleSafe ==
    ASSUME IInv, NEW p \in Publishers, StartOrResume(p), Incompatible(p)
    PROVE  RunInv' /\ LoadInv' /\ SnapInv' /\ ReleaseInv'
<1> USE PublicationAssumption DEF At, Go, Calls, tables, directories, publisherLocals
<1>1. RunInv'
  BY DEF IInv, BaseInv, RunInv, Retained, StartOrResume, Incompatible, Connect
<1>2. LoadInv'
  BY DEF IInv, BaseInv, TypeOK, CallTypes, LoadInv, Under, Working, Ended, StartOrResume, Incompatible, Connect
<1>3. SnapInv'
  BY DEF IInv, BaseInv, TypeOK, CallTypes, SnapInv, Derived, StartOrResume, Incompatible, Connect
<1>4. ReleaseInv'
  <2>1. UNCHANGED <<staging, release>> /\ pc' = [pc EXCEPT ![p] = "refused"]
    BY DEF StartOrResume, Incompatible
  <2>2. \A e \in Exporters : pc'[e] = pc[e]
    BY <2>1 DEF IInv, BaseInv, TypeOK, CallTypes
  <2> QED
    BY <2>1, <2>2 DEF IInv, ReleaseInv, Whole
<1> QED
  BY <1>1, <1>2, <1>3, <1>4

LEMMA OpenPagesSafe ==
    ASSUME IInv, NEW p \in Publishers, OpenPages(p)
    PROVE  RunInv' /\ LoadInv' /\ SnapInv' /\ ReleaseInv'
<1> USE PublicationAssumption DEF At, Go, Calls, tables, directories, publisherLocals
<1>1. RunInv'
  BY DEF IInv, BaseInv, RunInv, Retained, OpenPages, Connect
<1>2. LoadInv'
  BY DEF IInv, BaseInv, TypeOK, CallTypes, LoadInv, Under, Working, Ended, OpenPages, Connect
<1>3. SnapInv'
  BY DEF IInv, BaseInv, TypeOK, CallTypes, SnapInv, Derived, OpenPages, Connect
<1>4. ReleaseInv'
  BY DEF IInv, BaseInv, TypeOK, CallTypes, ReleaseInv, Whole, OpenPages, Connect
<1> QED
  BY <1>1, <1>2, <1>3, <1>4

LEMMA LoadPageSafe ==
    ASSUME IInv, NEW p \in Publishers, LoadPage(p)
    PROVE  RunInv' /\ LoadInv' /\ SnapInv' /\ ReleaseInv'
<1> USE PublicationAssumption DEF At, Go, Calls
<1> DEFINE n == at[p] + 1
<1>1. /\ n \in Pages /\ n \in 1..Len(filings) /\ at[p] \in Nat /\ n - 1 = at[p]
      /\ pc[p] = "loading" /\ open = p
      /\ UNCHANGED <<code, artifacts, individuals, snaps, staging, release, ver, todo>>
  BY FilingsType DEF IInv, BaseInv, TypeOK, CallTypes, LoadPage, LoadInv, directories
<1>2. /\ Under(p) /\ Working(p) /\ run.status # "none" /\ run.version = ver[p]
      /\ at[p] <= run.completed
      /\ count[p] = Cardinality(People(1..at[p])) /\ known[p] = People(1..at[p])
  BY <1>1 DEF IInv, BaseInv, LoadInv, Under, Working, Ended
<1>3. /\ Retained = 1..run.completed /\ run.retrieved = Cardinality(People(Retained))
      /\ run.completed \in 0..Len(filings) /\ Len(filings) \in Nat
  BY <1>2, FilingsType DEF IInv, BaseInv, RunInv, TypeOK, TableTypes, Runs
<1>4. filings[n] \cap known[p] = {}
  BY <1>1, <1>2, PageAdds
<1> HIDE DEF n
<1>5. CASE rows[n] = None
  <2>1. /\ rows' = [rows EXCEPT ![n] = ver[p]]
        /\ errors' = [errors EXCEPT ![n] = @ + 1]
        /\ run' = IF run.status = "running"
                  THEN [run EXCEPT !.retrieved = @ + Cardinality(filings[n]), !.completed = n]
                  ELSE run
        /\ at' = [at EXCEPT ![p] = n]
        /\ count' = [count EXCEPT ![p] = @ + Cardinality(filings[n])]
        /\ known' = [known EXCEPT ![p] = @ \cup filings[n]]
        /\ UNCHANGED <<pc, open>>
    BY <1>4, <1>5 DEF LoadPage, CommitPage, n
  <2>2. n \notin Retained /\ run.completed = at[p] /\ run.status = "running"
    <3>1. n \notin Retained
      BY <1>5 DEF Retained
    <3>2. run.completed = at[p] /\ run.completed # Len(filings)
      BY <1>1, <1>2, <1>3, <3>1
    <3>3. run.status \in Statuses /\ run.status # "published"
      BY <3>2 DEF IInv, BaseInv, RunInv, TypeOK, TableTypes, Runs
    <3> QED
      BY <1>2, <3>1, <3>2, <3>3 DEF Statuses
  <2>3. /\ run'.status = "running" /\ run'.completed = n /\ run'.version = run.version
        /\ run'.retrieved = run.retrieved + Cardinality(filings[n])
    BY <2>1, <2>2 DEF IInv, BaseInv, TypeOK, TableTypes, Runs
  <2>4. \A m \in Pages : rows'[m] = IF m = n THEN ver[p] ELSE rows[m]
    BY <2>1 DEF IInv, BaseInv, TypeOK, TableTypes, Contents
  <2>5. Retained' = 1..n
    <3>1. ver[p] # None
      BY <1>2 DEF IInv, BaseInv, VersionInv
    <3>2. Retained' = Retained \cup {n}
      BY <1>1, <2>4, <3>1 DEF Retained
    <3>3. Retained = 1..(n - 1)
      BY <1>1, <1>3, <2>2
    <3> QED
      BY <1>1, <3>2, <3>3
  <2>6. /\ Cardinality(People(1..n)) = Cardinality(People(1..at[p])) + Cardinality(filings[n])
        /\ People(1..n) = People(1..at[p]) \cup filings[n]
    BY <1>1, PageAdds
  <2>7. RunInv'
    <3>1. run'.retrieved = Cardinality(People(Retained'))
      BY <1>3, <2>2, <2>3, <2>5, <2>6
    <3>2. \A m \in Pages : rows'[m] \in {run'.version, None}
      BY <1>2, <2>2, <2>3, <2>4 DEF IInv, RunInv
    <3>3. artifacts' = Pages
      BY <1>1, <1>2 DEF IInv, BaseInv, RunInv
    <3> QED
      BY <2>3, <2>5, <3>1, <3>2, <3>3 DEF RunInv
  <2>8. LoadInv'
    <3>1. /\ at'[p] = n /\ count'[p] = count[p] + Cardinality(filings[n])
          /\ known'[p] = known[p] \cup filings[n]
          /\ \A q \in Publishers \ {p} :
                at'[q] = at[q] /\ count'[q] = count[q] /\ known'[q] = known[q]
      BY <2>1 DEF IInv, BaseInv, TypeOK, CallTypes
    <3>2. /\ count'[p] = Cardinality(People(1..at'[p])) /\ known'[p] = People(1..at'[p])
      BY <1>2, <2>6, <3>1
    <3>3. \A q \in Publishers : Under(q) => at[q] <= run.completed /\ at[q] \in Nat
      BY DEF IInv, BaseInv, LoadInv, TypeOK, CallTypes
    <3>4. \A q \in Publishers : Under(q) => at'[q] <= run'.completed
      BY <1>1, <2>2, <2>3, <3>1, <3>3
    <3>5. \A q \in Publishers : Under(q)' <=> Under(q)
      BY <2>1 DEF Under
    <3>6. \A q \in Publishers : Under(q)' =>
             /\ run'.status # "none" /\ run'.version = ver'[q]
             /\ at'[q] <= run'.completed
             /\ count'[q] = Cardinality(People(1..at'[q]))
             /\ known'[q] = People(1..at'[q])
      BY <1>1, <2>3, <3>1, <3>2, <3>4, <3>5 DEF IInv, LoadInv
    <3>7. \A q \in Publishers : At(q, "finishing")' => at'[q] = Len(filings)
      BY <1>1, <2>1, <3>1 DEF IInv, LoadInv
    <3> QED
      BY <1>1, <2>1, <3>6, <3>7 DEF IInv, BaseInv, LoadInv, Working
  <2>9. SnapInv'
    BY <1>1, <2>1, <2>2 DEF IInv, BaseInv, SnapInv
  <2>10. ReleaseInv'
    BY <1>1, <2>1 DEF IInv, BaseInv, ReleaseInv, Whole
  <2> QED
    BY <2>7, <2>8, <2>9, <2>10
<1>6. CASE rows[n] # None
  <2>1. /\ pc' = [pc EXCEPT ![p] = "refused"]
        /\ open' = None
        /\ UNCHANGED <<run, rows, errors, at, count, known>>
    BY <1>4, <1>6 DEF LoadPage, n, publisherLocals
  <2>2. RunInv'
    BY <1>1, <2>1 DEF IInv, BaseInv, RunInv, Retained
  <2>3. \A c \in Calls : pc'[c] = IF c = p THEN "refused" ELSE pc[c]
    BY <2>1 DEF IInv, BaseInv, TypeOK, CallTypes
  <2>4. LoadInv'
    BY <1>1, <2>1, <2>3 DEF IInv, BaseInv, LoadInv, Under, Working, Ended
  <2>5. SnapInv'
    <3>1. UNCHANGED <<run, rows, snaps>>
      BY <1>1, <2>1
    <3>2. \A b \in Builders : pc[b] # "building" /\ pc'[b] = pc[b]
      BY <1>1, <2>3 DEF IInv, SnapInv
    <3>3. \A e \in Exporters : pc'[e] = pc[e]
      BY <2>3
    <3> QED
      BY <3>1, <3>2, <3>3 DEF IInv, SnapInv, Derived
  <2>6. ReleaseInv'
    <3>1. UNCHANGED <<staging, release>>
      BY <1>1
    <3> QED
      BY <2>3, <3>1 DEF IInv, BaseInv, ReleaseInv, Whole
  <2> QED
    BY <2>2, <2>4, <2>5, <2>6
<1> QED
  BY <1>5, <1>6

LEMMA ClosePagesSafe ==
    ASSUME IInv, NEW p \in Publishers, ClosePages(p)
    PROVE  RunInv' /\ LoadInv' /\ SnapInv' /\ ReleaseInv'
<1> USE PublicationAssumption DEF At, Go, Calls
<1>1. /\ pc[p] = "loading" /\ open = p /\ open' = None /\ at[p] = Len(filings)
      /\ UNCHANGED <<code, run, rows, errors, artifacts, individuals, snaps,
                     staging, release, ver, at, count, known>>
  BY DEF ClosePages, IInv, BaseInv, LoadInv, tables, directories, publisherLocals
<1>2. count[p] = expected_individual_count
  BY <1>1, FilingsType DEF IInv, BaseInv, LoadInv, Under, expected_individual_count
<1>3. pc' = [pc EXCEPT ![p] = "finishing"]
  BY <1>2 DEF ClosePages
<1>4. \A c \in Calls : pc'[c] = IF c = p THEN "finishing" ELSE pc[c]
  BY <1>3 DEF IInv, BaseInv, TypeOK, CallTypes
<1>5. RunInv'
  BY <1>1 DEF IInv, BaseInv, RunInv, Retained
<1>6. LoadInv'
  BY <1>1, <1>4 DEF IInv, BaseInv, LoadInv, Under, Working, Ended
<1>7. SnapInv'
  BY <1>1, <1>4 DEF IInv, BaseInv, SnapInv, Derived
<1>8. ReleaseInv'
  BY <1>1, <1>4 DEF IInv, BaseInv, ReleaseInv, Whole
<1> QED
  BY <1>5, <1>6, <1>7, <1>8

LEMMA FinishSafe ==
    ASSUME IInv, NEW p \in Publishers, Finish(p)
    PROVE  RunInv' /\ LoadInv' /\ SnapInv' /\ ReleaseInv'
<1> USE PublicationAssumption DEF At, Go, Calls
<1>1. /\ pc[p] = "finishing" /\ individuals' = individuals \cup People(Retained)
      /\ run' = [run EXCEPT !.status = "published", !.retrieved = count[p],
                            !.completed = Len(filings)]
      /\ pc' = [pc EXCEPT ![p] = "done"]
      /\ UNCHANGED <<code, rows, errors, artifacts, snaps, open, staging, release, ver,
                     at, count, known>>
  BY DEF Finish, Connect, directories, publisherLocals
<1>2. /\ run.status # "none" /\ run.version = ver[p] /\ at[p] <= run.completed
      /\ count[p] = Cardinality(People(1..at[p])) /\ at[p] = Len(filings)
  BY <1>1 DEF IInv, BaseInv, LoadInv, Under
<1>3. run.completed = Len(filings) /\ Retained = Pages /\ count[p] = Cardinality(People(Pages))
      /\ Len(filings) \in Nat
  BY <1>2, FilingsType DEF IInv, BaseInv, RunInv, TypeOK, TableTypes, Runs
<1>4. /\ run'.status = "published" /\ run'.version = run.version
      /\ run'.completed = run.completed /\ run'.retrieved = Cardinality(People(Pages))
      /\ individuals' = People(Pages)
  BY <1>1, <1>3 DEF IInv, BaseInv, TypeOK, TableTypes, Runs
<1>5. \A c \in Calls : pc'[c] = IF c = p THEN "done" ELSE pc[c]
  BY <1>1 DEF IInv, BaseInv, TypeOK, CallTypes
<1>6. RunInv'
  <2>1. Retained' = Pages
    BY <1>1, <1>3 DEF Retained
  <2> QED
    BY <1>1, <1>2, <1>3, <1>4, <2>1, FilingsType DEF IInv, BaseInv, RunInv
<1>7. LoadInv'
  BY <1>1, <1>4, <1>5 DEF IInv, BaseInv, LoadInv, Under, Working, Ended
<1>8. SnapInv'
  BY <1>1, <1>4, <1>5 DEF IInv, BaseInv, SnapInv, Derived
<1>9. ReleaseInv'
  BY <1>1, <1>5 DEF IInv, BaseInv, ReleaseInv, Whole
<1> QED
  BY <1>6, <1>7, <1>8, <1>9

LEMMA OpenBuildSafe ==
    ASSUME IInv, NEW b \in Builders, OpenBuild(b)
    PROVE  RunInv' /\ LoadInv' /\ SnapInv' /\ ReleaseInv'
<1> USE PublicationAssumption DEF At, Go, Calls, tables, directories, publisherLocals
<1>1. RunInv'
  BY DEF IInv, BaseInv, RunInv, Retained, OpenBuild, Begin, Connect
<1>2. LoadInv'
  BY DEF IInv, BaseInv, TypeOK, CallTypes, LoadInv, Under, Working, Ended, OpenBuild, Begin, Connect
<1>3. SnapInv'
  BY DEF IInv, BaseInv, TypeOK, CallTypes, SnapInv, Derived, OpenBuild, Begin, Connect
<1>4. ReleaseInv'
  BY DEF IInv, BaseInv, TypeOK, CallTypes, ReleaseInv, Whole, OpenBuild, Begin, Connect
<1> QED
  BY <1>1, <1>2, <1>3, <1>4

LEMMA BuildYearSafe ==
    ASSUME IInv, NEW b \in Builders, NEW y \in Years, BuildYear(b, y)
    PROVE  RunInv' /\ LoadInv' /\ SnapInv' /\ ReleaseInv'
<1> USE PublicationAssumption DEF At, Go, Calls, tables, directories, publisherLocals
<1>1. RunInv'
  BY DEF IInv, BaseInv, RunInv, Retained, BuildYear
<1>2. LoadInv'
  BY DEF IInv, BaseInv, TypeOK, CallTypes, LoadInv, Under, Working, Ended, BuildYear
<1>3. SnapInv'
  BY DEF IInv, BaseInv, TypeOK, CallTypes, SnapInv, Derived, BuildYear
<1>4. ReleaseInv'
  BY DEF IInv, BaseInv, TypeOK, CallTypes, ReleaseInv, Whole, BuildYear
<1> QED
  BY <1>1, <1>2, <1>3, <1>4

LEMMA CloseBuildSafe ==
    ASSUME IInv, NEW b \in Builders, CloseBuild(b)
    PROVE  RunInv' /\ LoadInv' /\ SnapInv' /\ ReleaseInv'
<1> USE PublicationAssumption DEF At, Go, Calls
<1>1. /\ pc[b] = "building" /\ open = b /\ open' = None
      /\ UNCHANGED <<code, run, rows, errors, artifacts, individuals, snaps,
                     staging, release, ver, at, count, known>>
  BY DEF CloseBuild, IInv, BaseInv, SnapInv, tables, directories, publisherLocals
<1>2. \A c \in Calls : pc'[c] = IF c = b THEN "done" ELSE pc[c]
  BY DEF CloseBuild, IInv, BaseInv, TypeOK, CallTypes
<1>3. RunInv'
  BY <1>1 DEF IInv, BaseInv, RunInv, Retained
<1>4. LoadInv'
  BY <1>1, <1>2 DEF IInv, BaseInv, LoadInv, Under, Working, Ended
<1>5. SnapInv'
  BY <1>1, <1>2 DEF IInv, BaseInv, SnapInv, Derived
<1>6. ReleaseInv'
  BY <1>1, <1>2 DEF IInv, BaseInv, ReleaseInv, Whole
<1> QED
  BY <1>3, <1>4, <1>5, <1>6

LEMMA ValidateSafe ==
    ASSUME IInv, NEW e \in Exporters, Validate(e)
    PROVE  RunInv' /\ LoadInv' /\ SnapInv' /\ ReleaseInv'
<1> USE PublicationAssumption DEF At, Go, Calls, tables, directories, publisherLocals
<1>1. RunInv'
  BY DEF IInv, BaseInv, RunInv, Retained, Validate, Valid, Begin, Connect
<1>2. LoadInv'
  BY DEF IInv, BaseInv, TypeOK, CallTypes, LoadInv, Under, Working, Ended, Validate, Valid, Begin, Connect
<1>3. SnapInv'
  BY DEF IInv, BaseInv, TypeOK, CallTypes, SnapInv, Derived, Validate, Valid, Begin, Connect
<1>4. ReleaseInv'
  BY DEF IInv, BaseInv, TypeOK, CallTypes, ReleaseInv, Whole, Validate, Valid, Begin, Connect
<1> QED
  BY <1>1, <1>2, <1>3, <1>4

LEMMA CheckSafe ==
    ASSUME IInv, NEW e \in Exporters, Check(e)
    PROVE  RunInv' /\ LoadInv' /\ SnapInv' /\ ReleaseInv'
<1> USE PublicationAssumption DEF At, Go, Calls, tables, directories, publisherLocals
<1>1. RunInv'
  BY DEF IInv, BaseInv, RunInv, Retained, Check
<1>2. LoadInv'
  BY DEF IInv, BaseInv, TypeOK, CallTypes, LoadInv, Under, Working, Ended, Check
<1>3. SnapInv'
  BY DEF IInv, BaseInv, TypeOK, CallTypes, SnapInv, Derived, Check
<1>4. ReleaseInv'
  BY DEF IInv, BaseInv, TypeOK, CallTypes, ReleaseInv, Whole, Check
<1> QED
  BY <1>1, <1>2, <1>3, <1>4

LEMMA MakeStagingSafe ==
    ASSUME IInv, NEW e \in Exporters, MakeStaging(e)
    PROVE  RunInv' /\ LoadInv' /\ SnapInv' /\ ReleaseInv'
<1> USE PublicationAssumption DEF At, Go, Calls
<1>1. /\ pc[e] = "staging" /\ Working(e)
      /\ UNCHANGED <<code, run, rows, errors, artifacts, individuals, snaps, open,
                     release, ver, at, count, known>>
  BY DEF MakeStaging, Working, Ended, tables, publisherLocals
<1>2. PICK place \in {"copying", "refused"} :
         /\ \A c \in Calls : pc'[c] = IF c = e THEN place ELSE pc[c]
         /\ place = "copying" => staging = None /\ staging' = <<>>
         /\ place = "refused" => staging' = staging
  BY DEF MakeStaging, IInv, BaseInv, TypeOK, CallTypes
<1>3. RunInv'
  BY <1>1 DEF IInv, BaseInv, RunInv, Retained
<1>4. LoadInv'
  BY <1>1, <1>2 DEF IInv, BaseInv, LoadInv, Under, Working, Ended
<1>5. SnapInv'
  BY <1>1, <1>2 DEF IInv, BaseInv, SnapInv, Derived
<1>6. ReleaseInv'
  <2>1. CASE place = "copying"
    BY <1>1, <1>2, <2>1 DEF IInv, BaseInv, ReleaseInv, CopyInv
  <2>2. CASE place = "refused"
    BY <1>1, <1>2, <2>2 DEF IInv, BaseInv, ReleaseInv, CopyInv
  <2> QED
    BY <2>1, <2>2
<1> QED
  BY <1>3, <1>4, <1>5, <1>6

LEMMA CopySafe ==
    ASSUME IInv, NEW e \in Exporters, Copy(e)
    PROVE  RunInv' /\ LoadInv' /\ SnapInv' /\ ReleaseInv'
<1> USE PublicationAssumption DEF At, Go, Calls
<1> DEFINE copy == [version |-> run.version, rows |-> rows, snaps |-> snaps]
<1>1. /\ pc[e] = "copying" /\ Working(e)
      /\ UNCHANGED <<code, run, rows, errors, artifacts, individuals, snaps, open,
                     release, ver, at, count, known>>
  BY DEF Copy, Connect, Working, Ended, tables, publisherLocals
<1>2. run.status = "published" /\ Derived
  BY <1>1 DEF IInv, BaseInv, SnapInv
<1>3. /\ staging' = copy
      /\ \A c \in Calls : pc'[c] = IF c = e THEN "promoting" ELSE pc[c]
  BY <1>2 DEF Copy, IInv, BaseInv, TypeOK, CallTypes
<1>4. Whole(copy) /\ copy \in Releases
  <2>1. rows = [n \in Pages |-> run.version]
    BY <1>2, IInvSays
  <2> QED
    BY <1>2, <2>1 DEF Whole, Derived, Releases, IInv, BaseInv, TypeOK, TableTypes, Runs
<1> HIDE DEF copy
<1>5. RunInv'
  BY <1>1 DEF IInv, BaseInv, RunInv, Retained
<1>6. LoadInv'
  BY <1>1, <1>3 DEF IInv, BaseInv, LoadInv, Under, Working, Ended
<1>7. SnapInv'
  BY <1>1, <1>3 DEF IInv, BaseInv, SnapInv, Derived
<1>8. ReleaseInv'
  BY <1>1, <1>3, <1>4 DEF IInv, BaseInv, ReleaseInv, CopyInv, Whole
<1> QED
  BY <1>5, <1>6, <1>7, <1>8

LEMMA PromoteSafe ==
    ASSUME IInv, NEW e \in Exporters, Promote(e)
    PROVE  RunInv' /\ LoadInv' /\ SnapInv' /\ ReleaseInv'
<1> USE PublicationAssumption DEF At, Go, Calls
<1>1. /\ pc[e] = "promoting" /\ Working(e) /\ staging' = None
      /\ release' \in {staging, release}
      /\ UNCHANGED <<code, run, rows, errors, artifacts, individuals, snaps, open,
                     ver, at, count, known>>
  BY DEF Promote, Working, Ended, tables, publisherLocals
<1>2. PICK place \in {"done", "refused"} :
         \A c \in Calls : pc'[c] = IF c = e THEN place ELSE pc[c]
  BY DEF Promote, IInv, BaseInv, TypeOK, CallTypes
<1>3. \A f \in Exporters : pc'[f] \notin {"copying", "promoting"}
  BY <1>1, <1>2 DEF IInv, BaseInv, ReleaseInv, CopyInv
<1>4. RunInv'
  BY <1>1 DEF IInv, BaseInv, RunInv, Retained
<1>5. LoadInv'
  BY <1>1, <1>2 DEF IInv, BaseInv, LoadInv, Under, Working, Ended
<1>6. SnapInv'
  BY <1>1, <1>2 DEF IInv, BaseInv, SnapInv, Derived
<1>7. ReleaseInv'
  <2>1. \A c \in Calls : pc'[c] = "copying" => c \in Exporters
    BY <1>2 DEF IInv, BaseInv, ReleaseInv, CopyInv
  <2>2. release' # None => Whole(release')
    BY <1>1 DEF IInv, BaseInv, ReleaseInv, CopyInv
  <2> QED
    BY <1>3, <2>1, <2>2 DEF ReleaseInv, CopyInv, Whole
<1> QED
  BY <1>4, <1>5, <1>6, <1>7

LEMMA BusySafe ==
    ASSUME IInv, NEW c \in Calls, Busy(c)
    PROVE  RunInv' /\ LoadInv' /\ SnapInv' /\ ReleaseInv'
<1> USE PublicationAssumption DEF At, Go, Calls
<1>1. /\ UNCHANGED <<code, run, rows, errors, artifacts, individuals, snaps, open,
                     release, ver, at, count, known>>
      /\ staging' = IF pc[c] = "copying" THEN None ELSE staging
  BY DEF Busy, tables, publisherLocals
<1>2. \A d \in Calls : pc'[d] = IF d = c THEN "refused" ELSE pc[d]
  BY DEF Busy, IInv, BaseInv, TypeOK, CallTypes
<1>3. RunInv'
  BY <1>1 DEF IInv, BaseInv, RunInv, Retained
<1>4. LoadInv'
  BY <1>1, <1>2 DEF IInv, BaseInv, LoadInv, Under, Working, Ended
<1>5. SnapInv'
  BY <1>1, <1>2 DEF IInv, BaseInv, SnapInv, Derived
<1>6. ReleaseInv'
  <2>1. CASE pc[c] = "copying"
    <3>1. c \in Exporters
      BY <2>1 DEF IInv, BaseInv, ReleaseInv, CopyInv
    <3> QED
      BY <1>1, <1>2, <2>1, <3>1 DEF IInv, BaseInv, ReleaseInv, CopyInv, Whole
  <2>2. CASE pc[c] # "copying"
    BY <1>1, <1>2, <2>2 DEF IInv, BaseInv, ReleaseInv, CopyInv, Whole
  <2> QED
    BY <2>1, <2>2
<1> QED
  BY <1>3, <1>4, <1>5, <1>6

LEMMA CrashSafe ==
    ASSUME IInv, NEW c \in Calls, Crash(c)
    PROVE  RunInv' /\ LoadInv' /\ SnapInv' /\ ReleaseInv'
<1> USE PublicationAssumption DEF At, Go, Calls, tables, directories, publisherLocals
<1>1. RunInv'
  BY DEF IInv, BaseInv, RunInv, Retained, Crash, Working
<1>2. LoadInv'
  BY DEF IInv, BaseInv, TypeOK, CallTypes, LoadInv, Under, Working, Ended, Crash
<1>3. SnapInv'
  BY DEF IInv, BaseInv, TypeOK, CallTypes, SnapInv, Derived, Crash, Working
<1>4. ReleaseInv'
  BY DEF IInv, BaseInv, TypeOK, CallTypes, ReleaseInv, Whole, Crash, Working
<1> QED
  BY <1>1, <1>2, <1>3, <1>4

LEMMA UpgradeSafe ==
    ASSUME IInv, Upgrade
    PROVE  RunInv' /\ LoadInv' /\ SnapInv' /\ ReleaseInv'
<1> USE PublicationAssumption DEF At, Go, Calls, tables, directories, publisherLocals
<1>1. RunInv'
  BY DEF IInv, BaseInv, RunInv, Retained, Upgrade, Working
<1>2. LoadInv'
  BY DEF IInv, BaseInv, TypeOK, CallTypes, LoadInv, Under, Working, Ended, Upgrade
<1>3. SnapInv'
  BY DEF IInv, BaseInv, TypeOK, CallTypes, SnapInv, Derived, Upgrade, Working
<1>4. ReleaseInv'
  BY DEF IInv, BaseInv, TypeOK, CallTypes, ReleaseInv, Whole, Upgrade, Working
<1> QED
  BY <1>1, <1>2, <1>3, <1>4

LEMMA StutterSafe == ASSUME IInv, UNCHANGED vars PROVE RunInv' /\ LoadInv' /\ SnapInv' /\ ReleaseInv'
<1> USE DEF tables, directories, publisherLocals, vars
<1>1. RunInv'
  BY DEF IInv, RunInv, Retained
<1>2. LoadInv'
  BY DEF IInv, LoadInv, Under, At
<1>3. SnapInv'
  BY DEF IInv, SnapInv, Derived, At
<1>4. ReleaseInv'
  BY DEF IInv, ReleaseInv, Whole, At
<1> QED
  BY <1>1, <1>2, <1>3, <1>4

-----------------------------------------------------------------------------
(* What every step keeps                                                    *)

LEMMA VersionStep == ASSUME BaseInv, [Next]_vars PROVE VersionInv'
<1> USE DEF BaseInv, TypeOK, CallTypes, VersionInv, Working, Ended, Calls, At, Go
<1>1. ASSUME NEW c \in Calls, NEW place, Begin(c, place) PROVE VersionInv'
  BY <1>1 DEF Begin
<1>2. ASSUME UNCHANGED <<pc, ver>> PROVE VersionInv'
  BY <1>2
<1>3. ASSUME NEW c \in Calls, Working(c), NEW place, pc' = [pc EXCEPT ![c] = place], ver' = ver
      PROVE  VersionInv'
  BY <1>3
<1>4. ASSUME NEW p \in Publishers, Publish(p) PROVE VersionInv'
  <2>1. CASE Register(p)
    BY <1>1, <2>1 DEF Register
  <2>2. CASE ExistingResult(p)
    BY <1>3, <2>2 DEF ExistingResult, Connect
  <2>3. CASE StartOrResume(p)
    BY <1>3, <2>3 DEF StartOrResume, StartFresh, Resume, Incompatible, Connect
  <2>4. CASE OpenPages(p)
    BY <1>3, <2>4 DEF OpenPages, Connect
  <2>5. CASE LoadPage(p)
    BY <1>2, <1>3, <2>5 DEF LoadPage
  <2>6. CASE ClosePages(p)
    BY <1>3, <2>6 DEF ClosePages
  <2>7. CASE Finish(p)
    BY <1>3, <2>7 DEF Finish, Connect
  <2> QED
    BY <1>4, <2>1, <2>2, <2>3, <2>4, <2>5, <2>6, <2>7 DEF Publish
<1>5. ASSUME NEW b \in Builders, Build(b) PROVE VersionInv'
  <2>1. CASE OpenBuild(b)
    BY <1>1, <2>1 DEF OpenBuild
  <2>2. ASSUME NEW y \in Years, BuildYear(b, y) PROVE VersionInv'
    BY <1>2, <2>2 DEF BuildYear
  <2>3. CASE CloseBuild(b)
    BY <1>3, <2>3 DEF CloseBuild
  <2> QED
    BY <1>5, <2>1, <2>2, <2>3 DEF Build
<1>6. ASSUME NEW e \in Exporters, Export(e) PROVE VersionInv'
  <2>1. CASE Validate(e)
    BY <1>1, <2>1 DEF Validate
  <2>2. CASE Check(e)
    BY <1>3, <2>2 DEF Check
  <2>3. CASE MakeStaging(e)
    BY <1>3, <2>3 DEF MakeStaging
  <2>4. CASE Copy(e)
    BY <1>3, <2>4 DEF Copy, Connect
  <2>5. CASE Promote(e)
    BY <1>3, <2>5 DEF Promote
  <2> QED
    BY <1>6, <2>1, <2>2, <2>3, <2>4, <2>5 DEF Export
<1>7. ASSUME NEW c \in Calls, Busy(c) \/ Crash(c) PROVE VersionInv'
  BY <1>3, <1>7 DEF Busy, Crash
<1>8. CASE Upgrade \/ UNCHANGED vars
  BY <1>2, <1>8 DEF Upgrade, vars
<1> QED
  BY <1>4, <1>5, <1>6, <1>7, <1>8 DEF Next

\* A step that is no copying or promoting leaves the staging directory to the
\* exporter that has it.
LEMMA CopyStep == ASSUME BaseInv, [Next]_vars PROVE CopyInv'
<1> USE PublicationAssumption DEF BaseInv, TypeOK, CallTypes, CopyInv, Calls, At, Go
<1>1. ASSUME NEW c \in Calls, NEW place, place \notin {"copying", "promoting"},
             pc' = [pc EXCEPT ![c] = place], staging' = staging
      PROVE  CopyInv'
  BY <1>1
<1>2. ASSUME UNCHANGED <<pc, staging>> PROVE CopyInv'
  BY <1>2
<1> USE DEF directories
<1>3. ASSUME NEW p \in Publishers, Publish(p) PROVE CopyInv'
  <2>1. CASE Register(p)
    BY <1>1, <2>1 DEF Register, Begin
  <2>2. CASE ExistingResult(p)
    BY <1>1, <2>2 DEF ExistingResult
  <2>3. CASE StartOrResume(p)
    BY <1>1, <2>3 DEF StartOrResume, StartFresh, Resume, Incompatible
  <2>4. CASE OpenPages(p)
    BY <1>1, <2>4 DEF OpenPages
  <2>5. CASE LoadPage(p)
    BY <1>1, <1>2, <2>5 DEF LoadPage
  <2>6. CASE ClosePages(p)
    BY <1>1, <2>6 DEF ClosePages
  <2>7. CASE Finish(p)
    BY <1>1, <2>7 DEF Finish
  <2> QED
    BY <1>3, <2>1, <2>2, <2>3, <2>4, <2>5, <2>6, <2>7 DEF Publish
<1>4. ASSUME NEW b \in Builders, Build(b) PROVE CopyInv'
  <2>1. CASE OpenBuild(b)
    BY <1>1, <2>1 DEF OpenBuild, Begin
  <2>2. ASSUME NEW y \in Years, BuildYear(b, y) PROVE CopyInv'
    BY <1>2, <2>2 DEF BuildYear
  <2>3. CASE CloseBuild(b)
    BY <1>1, <2>3 DEF CloseBuild
  <2> QED
    BY <1>4, <2>1, <2>2, <2>3 DEF Build
<1>5. ASSUME NEW e \in Exporters, Export(e) PROVE CopyInv'
  <2>1. CASE Validate(e)
    BY <1>1, <2>1 DEF Validate, Begin
  <2>2. CASE Check(e)
    BY <1>1, <2>2 DEF Check
  <2>3. CASE MakeStaging(e)
    <3>1. CASE staging = None
      BY <2>3, <3>1 DEF MakeStaging
    <3>2. CASE staging # None
      BY <1>1, <2>3, <3>2 DEF MakeStaging
    <3> QED
      BY <3>1, <3>2
  <2>4. CASE Copy(e)
    <3> DEFINE copy == [version |-> run.version, rows |-> rows, snaps |-> snaps]
    <3>1. copy \in Releases
      BY DEF TableTypes, Runs, Releases
    <3>2. /\ pc[e] = "copying"
          /\ \/ staging' = copy /\ pc' = [pc EXCEPT ![e] = "promoting"]
             \/ staging' = None /\ pc' = [pc EXCEPT ![e] = "refused"]
      BY <2>4 DEF Copy, Connect
    <3> HIDE DEF copy
    <3> QED
      BY ZenonT(40), <3>1, <3>2
  <2>5. CASE Promote(e)
    BY ZenonT(40), <2>5 DEF Promote
  <2> QED
    BY <1>5, <2>1, <2>2, <2>3, <2>4, <2>5 DEF Export
<1>6. ASSUME NEW c \in Calls, Busy(c) PROVE CopyInv'
  BY <1>6 DEF Busy
<1>7. ASSUME NEW c \in Calls, Crash(c) PROVE CopyInv'
  BY <1>1, <1>7 DEF Crash
<1>8. CASE Upgrade \/ UNCHANGED vars
  BY <1>2, <1>8 DEF Upgrade, vars
<1> QED
  BY <1>3, <1>4, <1>5, <1>6, <1>7, <1>8 DEF Next

LEMMA ErrorsStep == ASSUME BaseInv, [Next]_vars PROVE ErrorsInv'
<1> USE DEF BaseInv, TypeOK, TableTypes, ErrorsInv, Retained, tables
<1>1. ASSUME UNCHANGED <<rows, errors>> PROVE ErrorsInv'
  BY <1>1
<1>2. ASSUME NEW p \in Publishers, Publish(p) PROVE ErrorsInv'
  <2>1. CASE StartOrResume(p) /\ StartFresh(p)
    <3>1. \A n \in Pages : rows'[n] = None /\ errors'[n] = 0
      BY <2>1 DEF StartFresh, Prepare, NoRows
    <3> QED
      BY <3>1
  <2>2. CASE StartOrResume(p) /\ ~StartFresh(p)
    BY <1>1, <2>2 DEF StartOrResume, Resume, Incompatible
  <2>3. CASE LoadPage(p)
    <3> DEFINE n == at[p] + 1
    <3>1. n \in Pages /\ ver[p] # None
      BY <2>3, FilingsType, PublicationAssumption
         DEF LoadPage, CallTypes, VersionInv, Working, Ended, At, Calls
    <3> HIDE DEF n
    <3>2. CASE rows[n] = None /\ filings[n] \cap known[p] = {}
      <4>1. rows' = [rows EXCEPT ![n] = ver[p]] /\ errors' = [errors EXCEPT ![n] = @ + 1]
        BY <2>3, <3>2 DEF LoadPage, CommitPage, n
      <4>2. errors[n] = 0
        BY <3>1, <3>2
      <4>3. errors' = [errors EXCEPT ![n] = 1]
        BY <4>1, <4>2
      <4> QED
        BY <3>1, <4>1, <4>3 DEF Contents
    <3>3. CASE ~(rows[n] = None /\ filings[n] \cap known[p] = {})
      BY <1>1, <2>3, <3>3 DEF LoadPage, n
    <3> QED
      BY <3>2, <3>3
  <2>4. CASE Register(p) \/ ExistingResult(p) \/ OpenPages(p) \/ ClosePages(p) \/ Finish(p)
    BY <1>1, <2>4 DEF Register, ExistingResult, OpenPages, ClosePages, Finish
  <2> QED
    BY <1>2, <2>1, <2>2, <2>3, <2>4 DEF Publish
<1>3. ASSUME NEW b \in Builders, Build(b) PROVE ErrorsInv'
  BY <1>1, <1>3 DEF Build, OpenBuild, BuildYear, CloseBuild
<1>4. ASSUME NEW e \in Exporters, Export(e) PROVE ErrorsInv'
  BY <1>1, <1>4 DEF Export, Validate, Check, MakeStaging, Copy, Promote
<1>5. ASSUME NEW c \in Calls, Busy(c) \/ Crash(c) PROVE ErrorsInv'
  BY <1>1, <1>5 DEF Busy, Crash
<1>6. CASE Upgrade \/ UNCHANGED vars
  BY <1>1, <1>6 DEF Upgrade, vars
<1> QED
  BY <1>2, <1>3, <1>4, <1>5, <1>6 DEF Next

LEMMA TypesStep == ASSUME BaseInv, [Next]_vars PROVE TypeOK'
<1> USE DEF BaseInv
<1>1. ASSUME NEW p \in Publishers, Publish(p) PROVE TypeOK'
  <2>1. CASE StartOrResume(p)
    BY <2>1, StartFreshTypes, ResumeTypes, IncompatibleTypes DEF StartOrResume
  <2> QED
    BY <1>1, <2>1, RegisterTypes, ExistingResultTypes, OpenPagesTypes, LoadPageTypes,
       ClosePagesTypes, FinishTypes DEF Publish
<1>2. ASSUME NEW b \in Builders, Build(b) PROVE TypeOK'
  BY <1>2, OpenBuildTypes, BuildYearTypes, CloseBuildTypes DEF Build
<1>3. ASSUME NEW e \in Exporters, Export(e) PROVE TypeOK'
  BY <1>3, ValidateTypes, CheckTypes, MakeStagingTypes, CopyTypes, PromoteTypes DEF Export
<1>4. ASSUME NEW c \in Calls, Busy(c) \/ Crash(c) PROVE TypeOK'
  BY <1>4, BusyTypes, CrashTypes
<1>5. CASE UNCHANGED vars
  BY <1>5 DEF TypeOK, TableTypes, CallTypes, vars, tables, directories, publisherLocals
<1> QED
  BY <1>1, <1>2, <1>3, <1>4, <1>5, UpgradeTypes DEF Next

LEMMA BaseStep == BaseInv /\ [Next]_vars => BaseInv'
BY TypesStep, VersionStep, CopyStep, ErrorsStep DEF BaseInv

-----------------------------------------------------------------------------
(* What a step keeps unless a rebuild starts under a call                   *)

Rest == RunInv /\ LoadInv /\ SnapInv /\ ReleaseInv

LEMMA RestStep == ASSUME IInv, [Next]_vars, ~beside' PROVE Rest'
<1> USE DEF Rest
<1>1. ASSUME NEW p \in Publishers, Publish(p) PROVE Rest'
  <2>1. CASE StartOrResume(p)
    BY <2>1, StartFreshSafe, ResumeSafe, IncompatibleSafe DEF StartOrResume
  <2> QED
    BY <1>1, <2>1, RegisterSafe, ExistingResultSafe, OpenPagesSafe, LoadPageSafe,
       ClosePagesSafe, FinishSafe DEF Publish
<1>2. ASSUME NEW b \in Builders, Build(b) PROVE Rest'
  BY <1>2, OpenBuildSafe, BuildYearSafe, CloseBuildSafe DEF Build
<1>3. ASSUME NEW e \in Exporters, Export(e) PROVE Rest'
  BY <1>3, ValidateSafe, CheckSafe, MakeStagingSafe, CopySafe, PromoteSafe DEF Export
<1>4. ASSUME NEW c \in Calls, Busy(c) \/ Crash(c) PROVE Rest'
  BY <1>4, BusySafe, CrashSafe
<1> QED
  BY <1>1, <1>2, <1>3, <1>4, UpgradeSafe, StutterSafe DEF Next

\* The history only grows.
LEMMA BesideStays == ASSUME [Next]_vars, beside PROVE beside'
<1>1. ASSUME NEW p \in Publishers, Publish(p) PROVE beside'
  BY <1>1 DEF Publish, Register, ExistingResult, StartOrResume, StartFresh, Resume,
              Incompatible, OpenPages, LoadPage, ClosePages, Finish
<1>2. ASSUME NEW b \in Builders, Build(b) PROVE beside'
  BY <1>2 DEF Build, OpenBuild, BuildYear, CloseBuild
<1>3. ASSUME NEW e \in Exporters, Export(e) PROVE beside'
  BY <1>3 DEF Export, Validate, Check, MakeStaging, Copy, Promote
<1>4. ASSUME NEW c \in Calls, Busy(c) \/ Crash(c) PROVE beside'
  BY <1>4 DEF Busy, Crash
<1>5. CASE Upgrade \/ UNCHANGED vars
  BY <1>5 DEF Upgrade, vars
<1> QED
  BY <1>1, <1>2, <1>3, <1>4, <1>5 DEF Next

LEMMA SafeStep == SafeInv /\ [Next]_vars => SafeInv'
<1> SUFFICES ASSUME SafeInv, [Next]_vars PROVE SafeInv'
  OBVIOUS
<1>1. BaseInv'
  BY BaseStep DEF SafeInv
<1>2. ASSUME ~beside' PROVE Rest'
  BY <1>2, BesideStays, RestStep DEF SafeInv
<1> QED
  BY <1>1, <1>2 DEF SafeInv, IInv, Rest

LEMMA Invariance == Spec => []SafeInv
BY InitSafe, SafeStep, PTL DEF Spec

-----------------------------------------------------------------------------
(* The theorems                                                             *)

\* Tables, directories and locals keep their types, whatever runs beside what.
THEOREM TypeCorrect == Spec => []TypeOK
BY SafeInvSays, Invariance, PTL

\* A published collection is complete, whichever publishers died at whichever
\* page, whenever the parser was upgraded and whatever version's rows were
\* there before, until a rebuild starts under a call between two connections.
THEOREM PublishedComplete == Spec => []PublishedIsComplete
BY SafeInvSays, Invariance, PTL

\* The errors of a page come and go with its rows, always; and until a rebuild
\* starts under a call the progress of an unfinished run is what the tables
\* hold, and no publisher ever ends at an inconsistency.
THEOREM ProgressCommitted == Spec => []ProgressIsCommitted
BY SafeInvSays, Invariance, PTL

\* The tables of a year and a release are made of one version's rows, until a
\* rebuild starts under a call.
THEOREM SnapshotsFollow == Spec => []SnapshotsFollowRows
BY SafeInvSays, Invariance, PTL
=============================================================================
