---------------------------- MODULE WatchedSave ----------------------------
(***************************************************************************)
(* BulkAdd together with the dashboard: after a queued save watchJob polls *)
(* the job row every two seconds and reports the first outcome it sees.    *)
(***************************************************************************)
EXTENDS BulkAdd

VARIABLE watch      \* watch[s]: the watcher of the save, and what it reported

watchedVars == <<vars, watch>>

WatchedInit == Init /\ watch = [s \in Save |-> "off"]

\* onSuccess of the mutation: a queued answer starts the watcher.
StartWatch(s) ==
    /\ reply[s] = "queued"
    /\ watch[s] = "off"
    /\ watch' = [watch EXCEPT ![s] = "polling"]
    /\ UNCHANGED vars

\* A poll that reads an outcome reports it and ends the watch.
Poll(s) ==
    /\ watch[s] = "polling"
    /\ job[s].status \in {"completed", "failed"}
    /\ watch' = [watch EXCEPT ![s] = job[s].status]
    /\ UNCHANGED vars

\* A poll is refused, or ninety of them saw no outcome: the loop just ends.
StopWatching(s) ==
    /\ watch[s] = "polling"
    /\ watch' = [watch EXCEPT ![s] = "stopped"]
    /\ UNCHANGED vars

WatchStep(s) == StartWatch(s) \/ Poll(s) \/ StopWatching(s)

WatchedNext ==
    \/ Next /\ UNCHANGED watch
    \/ \E s \in Save : WatchStep(s)

\* The watcher owes nothing: a dashboard may be closed at any time.
WatchedSpec == WatchedInit /\ [][WatchedNext]_watchedVars /\ Fairness

\* A watcher that reported success did so of rows that are in the list, and
\* stay there whatever attempt still runs.
SuccessToastIsTrue ==
    \A s \in Save : watch[s] = "completed" => Saved(s, asked[s].names)

============================================================================
