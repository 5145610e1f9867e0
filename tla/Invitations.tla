---------------------------- MODULE Invitations ----------------------------
(***************************************************************************)
(* Inviting teammates: the api writes a pending invitation and sends an    *)
(* event for each address that is not taken; Inngest runs send-mail in the *)
(* worker, once more if it fails; the worker hands the message to the mail *)
(* provider, at most MaxAttempts times in a run.                           *)
(*                                                                         *)
(* A process may die between any two steps, an event or an answer may be   *)
(* lost, Inngest may give up on a run that is still going, and a request   *)
(* the worker gave up on may still reach the provider.                     *)
(***************************************************************************)
EXTENDS Integers, Sequences, FiniteSets

CONSTANTS
    Calls,          \* calls of invite-teammates in one workspace
    Asked,          \* Asked[c]: the addresses of call c, repetitions included
    Members,        \* addresses of the people who are members already
    MaxAttempts,    \* DEFAULT_MAX_ATTEMPTS
    Retries,        \* INNGEST_OPTIONS.retries
    Overlapping     \* bound: the calls whose sends Inngest may give up on

ASSUME InvitationsAssumption ==
    /\ DOMAIN Asked = Calls /\ \A c \in Calls : DOMAIN Asked[c] = 1..Len(Asked[c])
    /\ MaxAttempts \in Nat \ {0} /\ Retries \in Nat
    /\ Overlapping \subseteq Calls

\* an invitation is named by the call that writes it and its place there
Invitations == UNION {{c} \X DOMAIN Asked[c] : c \in Calls}

Address(i) == Asked[i[1]][i[2]]

Runs == 1..(Retries + 1)

VARIABLES
    pending,        \* the invitation rows
    pc, rest,       \* control of a call, and the places it has yet to invite
    job, starts,    \* what Inngest knows of an invitation's event
    worker,         \* control of a run: what it is at, and which attempt
    request,        \* the message of a run's attempt, between worker and provider
    seen, mailed    \* the provider: keys it has served, copies it has sent out

api == <<pending, pc, rest>>
inngest == <<job, starts>>
provider == <<seen, mailed>>
vars == <<api, inngest, worker, request, provider>>

Init ==
    /\ pending = {}
    /\ pc = [c \in Calls |-> "called"]
    /\ rest = [c \in Calls |-> <<>>]
    /\ job = [i \in Invitations |-> "none"]
    /\ starts = [i \in Invitations |-> 0]
    /\ worker = [r \in Invitations \X Runs |-> [at |-> "idle", attempt |-> 0]]
    /\ request = [r \in Invitations \X Runs |-> "none"]
    /\ seen = {}
    /\ mailed = [i \in Invitations |-> 0]

-----------------------------------------------------------------------------
(* The api: invite-teammates.ts                                            *)

Taken == Members \cup {Address(i) : i \in pending}

(* dto.invites without the taken: the addresses of one call are not        *)
(* compared with each other                                                *)
Fresh(c) == SelectSeq([k \in DOMAIN Asked[c] |-> k], LAMBDA k : Asked[c][k] \notin Taken)

Continue(c, places) ==
    /\ rest' = [rest EXCEPT ![c] = places]
    /\ pc' = [pc EXCEPT ![c] = IF places = <<>> THEN "done" ELSE "creating"]

Read(c) ==
    /\ pc[c] = "called"
    /\ Continue(c, Fresh(c))
    /\ UNCHANGED <<pending, inngest, worker, request, provider>>

Current(c) == <<c, Head(rest[c])>>

Create(c) ==
    /\ pc[c] = "creating"
    /\ pending' = pending \cup {Current(c)}
    /\ pc' = [pc EXCEPT ![c] = "sending"]
    /\ UNCHANGED <<rest, inngest, worker, request, provider>>

(* The event is out; the call may not hear of it, and then it rejects.     *)
SendEvent(c) ==
    /\ pc[c] = "sending"
    /\ job' = [job EXCEPT ![Current(c)] = "queued"]
    /\ Continue(c, Tail(rest[c]))
    /\ UNCHANGED <<pending, starts, worker, request, provider>>

SendEventUnheard(c) ==
    /\ pc[c] = "sending"
    /\ job' = [job EXCEPT ![Current(c)] = "queued"]
    /\ pc' = [pc EXCEPT ![c] = "failed"]
    /\ UNCHANGED <<pending, rest, starts, worker, request, provider>>

\* slip: a send that rejects is caught and the loop goes on
LoseSilently(c) ==
    /\ pc[c] = "sending"
    /\ Continue(c, Tail(rest[c]))
    /\ UNCHANGED <<pending, inngest, worker, request, provider>>

LoseEvent(c) ==
    /\ pc[c] = "sending"
    /\ pc' = [pc EXCEPT ![c] = "failed"]
    /\ UNCHANGED <<pending, rest, inngest, worker, request, provider>>

(* The process dies, or one of its statements fails.                       *)
DieInCall(c) ==
    /\ pc[c] \in {"called", "creating", "sending"}
    /\ pc' = [pc EXCEPT ![c] = "failed"]
    /\ UNCHANGED <<pending, rest, inngest, worker, request, provider>>

-----------------------------------------------------------------------------
(* Inngest                                                                 *)

AfterFailure(i) == IF starts[i] <= Retries THEN "queued" ELSE "failed"

(* What Inngest makes of the end of a run: nothing, if it gave up on it.   *)
Report(r, outcome) ==
    job' = IF job[r[1]] = "running" /\ starts[r[1]] = r[2]
           THEN [job EXCEPT ![r[1]] = outcome]
           ELSE job

Start(i) ==
    /\ job[i] = "queued"
    /\ job' = [job EXCEPT ![i] = "running"]
    /\ starts' = [starts EXCEPT ![i] = @ + 1]
    /\ worker' = [worker EXCEPT ![<<i, starts[i] + 1>>] = [at |-> "sending", attempt |-> 1]]
    /\ UNCHANGED <<api, request, provider>>

TimeOut(i) ==
    /\ job[i] = "running" /\ i[1] \in Overlapping
    /\ job' = [job EXCEPT ![i] = AfterFailure(i)]
    /\ UNCHANGED <<api, starts, worker, request, provider>>

-----------------------------------------------------------------------------
(* The worker: sendMail of mail.service.ts with the resend transport       *)

(* The transport is asked; the request is under way.                       *)
Send(r) ==
    /\ worker[r].at = "sending"
    /\ worker' = [worker EXCEPT ![r].at = "waiting"]
    /\ request' = [request EXCEPT ![r] = "flying"]
    /\ UNCHANGED <<api, inngest, provider>>

End(r, outcome) ==
    /\ worker' = [worker EXCEPT ![r] = [at |-> "ended", attempt |-> 0]]
    /\ Report(r, outcome)

(* A retryable error: again, while attempts are left.                      *)
Retry(r) ==
    IF worker[r].attempt < MaxAttempts
    THEN /\ worker' = [worker EXCEPT ![r] = [at |-> "sending", attempt |-> @.attempt + 1]]
         /\ UNCHANGED job
    ELSE End(r, AfterFailure(r[1]))

(* ENOTFOUND, ECONNREFUSED, EAI_AGAIN: nothing left the worker.            *)
NotReached(r) ==
    /\ worker[r].at = "sending"
    /\ Retry(r)
    /\ UNCHANGED <<api, starts, request, provider>>

(* 429 and 5xx are retryable, every other status is not.                   *)
Hear(r) ==
    /\ worker[r].at = "waiting"
    /\ \/ request[r] = "taken" /\ End(r, "completed")
       \/ request[r] = "busy" /\ Retry(r)
       \/ request[r] = "refused" /\ End(r, AfterFailure(r[1]))
    /\ request' = [request EXCEPT ![r] = "none"]
    /\ UNCHANGED <<api, starts, provider>>

(* A time-out or a broken connection leaves the delivery unknown, which is *)
(* not retryable; a worker that dies looks the same from outside.          *)
Throw(r) ==
    /\ worker[r].at \in {"sending", "waiting"}
    /\ End(r, AfterFailure(r[1]))
    /\ request' = [request EXCEPT ![r] = IF @ = "flying" THEN @ ELSE "none"]
    /\ UNCHANGED <<api, starts, provider>>

-----------------------------------------------------------------------------
(* The provider                                                            *)

\* slip: the key names the run, not the invitation
RunKey(r) == r

Key(r) == r[1]

(* The answer is lost on a worker that has given up on the request.        *)
Reply(r, answers) ==
    \E answer \in IF worker[r].at = "waiting" THEN answers ELSE {"none"} :
        request' = [request EXCEPT ![r] = answer]

(* It sends a message out unless its key has been served, and says so, or  *)
(* answers 5xx although it has.                                            *)
Accept(r) ==
    /\ request[r] = "flying"
    /\ Reply(r, {"taken", "busy"})
    /\ seen' = seen \cup {Key(r)}
    /\ mailed' = IF Key(r) \in seen THEN mailed ELSE [mailed EXCEPT ![r[1]] = @ + 1]
    /\ UNCHANGED <<api, inngest, worker>>

Decline(r) ==
    /\ request[r] = "flying"
    /\ Reply(r, {"busy", "refused"})
    /\ UNCHANGED <<api, inngest, worker, provider>>

-----------------------------------------------------------------------------
Call(c) == Read(c) \/ Create(c) \/ SendEvent(c) \/ SendEventUnheard(c) \/ LoseEvent(c)

Work(r) == Send(r) \/ NotReached(r) \/ Hear(r) \/ Throw(r)

Next ==
    \/ \E c \in Calls : Call(c) \/ DieInCall(c)
    \/ \E i \in Invitations : Start(i) \/ TimeOut(i)
    \/ \E r \in Invitations \X Runs : Work(r) \/ Accept(r) \/ Decline(r)

(* Processes that are alive go on, and Inngest starts what it has queued;  *)
(* the provider owes nobody an answer.                                     *)
Fairness ==
    /\ \A c \in Calls : WF_vars(Call(c))
    /\ \A i \in Invitations : WF_vars(Start(i))
    /\ \A r \in Invitations \X Runs : WF_vars(Work(r))

Spec == Init /\ [][Next]_vars /\ Fairness

-----------------------------------------------------------------------------
(* An invitation is mailed only when its row is there, and once, whatever  *)
(* runs, attempts and late requests there are (send-mail.ts: the key makes *)
(* a replay of the whole send safe); and a send that counts as completed   *)
(* has mailed it.                                                          *)
MailedOnce ==
    \A i \in Invitations :
        /\ mailed[i] <= IF i \in pending THEN 1 ELSE 0
        /\ job[i] = "completed" => mailed[i] = 1

(* A written invitation is mailed in the end, unless Inngest has given it  *)
(* up or the call that wrote it has failed: none is left behind by a call  *)
(* that reports success.                                                   *)
InvitationsSettle ==
    \A i \in Invitations :
        i \in pending ~> mailed[i] = 1 \/ job[i] = "failed" \/ pc[i[1]] = "failed"
=============================================================================
