------------------------------ MODULE ListSave ------------------------------
(***************************************************************************)
(* What saving to a list promises, whichever of the api and the worker    *)
(* does it and however often an attempt is replayed: a record enters the  *)
(* CRM together with its membership, a save adds only what it asked for,  *)
(* and one that reports success has added all that its caller picked.     *)
(***************************************************************************)
CONSTANTS
    Save, List, Crd,
    Savable,                        \* lists a save may add to
    Picks,                          \* sets of CRDs a caller may pick
    Found,                          \* CRDs a filter may select
    EarlierRecords, EarlierMembers

VARIABLES
    crm,        \* CRDs that have a record
    members,    \* <<list, CRD>>
    ask,        \* ask[s]: the list and the CRDs picked, {} for a filter
    saved       \* saves that have reported success

vars == <<crm, members, ask, saved>>

Init ==
    /\ crm = EarlierRecords
    /\ members = EarlierMembers
    /\ ask = [s \in Save |-> [list |-> "none", crds |-> {}]]
    /\ saved = {}

Ask(s) ==
    /\ ask[s].list = "none"
    /\ \E l \in Savable, crds \in Picks \cup {{}} :
            ask' = [ask EXCEPT ![s] = [list |-> l, crds |-> crds]]
    /\ UNCHANGED <<crm, members, saved>>

\* What the save may add: its pick, or anything the filter can select.
Wanted(s) == IF ask[s].crds = {} THEN Found ELSE ask[s].crds

Add(s) ==
    /\ ask[s].list # "none"
    /\ \E crds \in SUBSET Wanted(s) :
        /\ crm' = crm \cup crds
        /\ members' = members \cup ({ask[s].list} \X crds)
    /\ UNCHANGED <<ask, saved>>

Finish(s) ==
    /\ ask[s].list # "none"
    /\ {ask[s].list} \X ask[s].crds \subseteq members
    /\ saved' = saved \cup {s}
    /\ UNCHANGED <<crm, members, ask>>

Next == \E s \in Save : Ask(s) \/ Add(s) \/ Finish(s)

Spec == Init /\ [][Next]_vars
=============================================================================
