------------------------- MODULE InvitationsProofs -------------------------
(***************************************************************************)
(* No invitation is mailed twice, for any calls, addresses, attempts and   *)
(* retries: whatever dies, is lost, is given up on or arrives late.        *)
(***************************************************************************)
EXTENDS Invitations, TLAPS

Messages == Invitations \X Runs

\* The values that the calls, Inngest, the workers and the provider take.
TypeOK ==
    /\ pc \in [Calls -> {"called", "creating", "sending", "done", "failed"}]
    /\ DOMAIN rest = Calls
    /\ job \in [Invitations -> {"none", "queued", "running", "completed", "failed"}]
    /\ starts \in [Invitations -> Nat]
    /\ worker \in [Messages -> [at : {"idle", "sending", "waiting", "ended"}, attempt : Nat]]
    /\ request \in [Messages -> {"none", "flying", "taken", "busy", "refused"}]
    /\ mailed \in [Invitations -> Nat]

\* Nothing is known of an invitation, to Inngest, a worker or the provider,
\* before its row is written.
WrittenFirst ==
    /\ \A c \in Calls : pc[c] = "sending" => Current(c) \in pending
    /\ \A i \in Invitations : job[i] # "none" \/ i \in seen => i \in pending
    /\ \A r \in Messages :
          worker[r].at # "idle" \/ request[r] # "none" => r[1] \in pending

\* What the provider has sent out is what it has served the key of; who hears
\* that it was taken, and Inngest of a run that completed, hear the truth.
KeysCount ==
    /\ \A i \in Invitations :
          /\ mailed[i] = IF i \in seen THEN 1 ELSE 0
          /\ job[i] = "completed" => i \in seen
    /\ \A r \in Messages : request[r] = "taken" => r[1] \in seen

Inv == TypeOK /\ WrittenFirst /\ KeysCount

-----------------------------------------------------------------------------
LEMMA MessageType ==
    \A r \in Messages : r[1] \in Invitations /\ r[2] \in Runs
BY DEF Messages

\* The steps of a call write the row before the event.
LEMMA CallStep ==
    ASSUME Inv, NEW c \in Calls, Call(c) \/ DieInCall(c)
    PROVE  Inv'
<1> USE DEF Inv, TypeOK, WrittenFirst, KeysCount, Current
<1>1. UNCHANGED <<starts, worker, request, provider>>
  BY DEF Call, Read, Create, SendEvent, SendEventUnheard, LoseEvent, DieInCall, inngest
<1>2. /\ pc' \in [Calls -> {"called", "creating", "sending", "done", "failed"}]
      /\ DOMAIN rest' = Calls
  BY DEF Call, Read, Create, SendEvent, SendEventUnheard, LoseEvent, DieInCall, Continue
<1>3. CASE Create(c)
  BY <1>1, <1>2, <1>3 DEF Create, inngest, provider
<1>4. CASE Read(c) \/ LoseEvent(c) \/ DieInCall(c)
  <2>1. pc'[c] # "sending"
    BY <1>4 DEF Read, Continue, LoseEvent, DieInCall
  <2>2. \A d \in Calls \ {c} : pc'[d] = pc[d] /\ rest'[d] = rest[d]
    BY <1>4 DEF Read, Continue, LoseEvent, DieInCall
  <2>3. UNCHANGED <<pending, job>>
    BY <1>4 DEF Read, LoseEvent, DieInCall, inngest
  <2>4. QED
    BY <1>1, <1>2, <2>1, <2>2, <2>3 DEF provider
<1>5. CASE SendEvent(c) \/ SendEventUnheard(c)
  <2>1. pc'[c] # "sending"
    BY <1>5 DEF SendEvent, SendEventUnheard, Continue
  <2>2. \A d \in Calls \ {c} : pc'[d] = pc[d] /\ rest'[d] = rest[d]
    BY <1>5 DEF SendEvent, SendEventUnheard, Continue
  <2>3. /\ pending' = pending /\ Current(c) \in pending
        /\ job' = [job EXCEPT ![Current(c)] = "queued"]
    BY <1>5 DEF SendEvent, SendEventUnheard
  <2>4. QED
    BY <1>1, <1>2, <2>1, <2>2, <2>3 DEF provider
<1>6. QED
  BY <1>3, <1>4, <1>5 DEF Call

LEMMA InngestStep ==
    ASSUME Inv, NEW i \in Invitations, Start(i) \/ TimeOut(i)
    PROVE  Inv'
<1> USE DEF Inv, TypeOK, WrittenFirst, KeysCount, Current
<1>1. i \in pending /\ UNCHANGED <<pending, pc, rest, request, seen, mailed>>
  BY DEF Start, TimeOut, api, provider
<1>2. CASE Start(i)
  <2>1. /\ job' = [job EXCEPT ![i] = "running"]
        /\ starts' = [starts EXCEPT ![i] = @ + 1]
        /\ worker' = [worker EXCEPT ![<<i, starts[i] + 1>>] = [at |-> "sending", attempt |-> 1]]
    BY <1>2 DEF Start
  <2>2. \A r \in Messages : worker'[r].at = worker[r].at \/ r[1] = i
    BY <2>1
  <2>3. worker' \in [Messages -> [at : {"idle", "sending", "waiting", "ended"}, attempt : Nat]]
    BY <2>1
  <2>4. QED
    BY <1>1, <2>1, <2>2, <2>3
<1>3. CASE TimeOut(i)
  BY <1>1, <1>3 DEF TimeOut, AfterFailure
<1>4. QED
  BY <1>2, <1>3

\* How the end of a run reaches Inngest.
LEMMA ReportStep ==
    ASSUME TypeOK, NEW r \in Messages, NEW outcome \in {"queued", "failed", "completed"},
           Report(r, outcome)
    PROVE  /\ job' \in [Invitations -> {"none", "queued", "running", "completed", "failed"}]
           /\ \A i \in Invitations :
                 \/ job'[i] = job[i]
                 \/ i = r[1] /\ job[i] = "running" /\ job'[i] = outcome
BY MessageType DEF Report, TypeOK

LEMMA WorkStep ==
    ASSUME Inv, NEW r \in Messages, Work(r)
    PROVE  Inv'
<1> USE DEF Inv, TypeOK, WrittenFirst, KeysCount, Current
<1>1. r[1] \in pending /\ r[1] \in Invitations
  BY MessageType DEF Work, Send, NotReached, Hear, Throw
<1>2. UNCHANGED <<pending, pc, rest, starts, seen, mailed>>
  BY DEF Work, Send, NotReached, Hear, Throw, api, inngest, provider
<1>3. worker' \in [Messages -> [at : {"idle", "sending", "waiting", "ended"}, attempt : Nat]]
  BY DEF Work, Send, NotReached, Hear, Throw, Retry, End
<1>4. \A q \in Messages : q # r => worker'[q] = worker[q] /\ request'[q] = request[q]
  BY DEF Work, Send, NotReached, Hear, Throw, Retry, End
<1>5. /\ request' \in [Messages -> {"none", "flying", "taken", "busy", "refused"}]
      /\ request'[r] = "taken" => request[r] = "taken"
  BY DEF Work, Send, NotReached, Hear, Throw
<1>6. /\ job' \in [Invitations -> {"none", "queued", "running", "completed", "failed"}]
      /\ \A i \in Invitations :
            \/ job'[i] = job[i]
            \/ /\ i = r[1] /\ job[i] = "running"
               /\ job'[i] = "completed" => request[r] = "taken"
  <2>1. AfterFailure(r[1]) \in {"queued", "failed"}
    BY DEF AfterFailure
  <2>2. \/ UNCHANGED job
        \/ Report(r, "completed") /\ request[r] = "taken"
        \/ Report(r, AfterFailure(r[1]))
    BY DEF Work, Send, NotReached, Hear, Throw, Retry, End, inngest
  <2>3. QED
    BY <2>1, <2>2, ReportStep
<1>7. QED
  BY <1>1, <1>2, <1>3, <1>4, <1>5, <1>6

\* The provider sends out what it has not served the key of.
LEMMA ProviderStep ==
    ASSUME Inv, NEW r \in Messages, Accept(r) \/ Decline(r)
    PROVE  Inv'
<1> USE DEF Inv, TypeOK, WrittenFirst, KeysCount, Current
<1>1. r[1] \in pending /\ r[1] \in Invitations
  BY MessageType DEF Accept, Decline
<1>2. UNCHANGED <<pending, pc, rest, job, starts, worker>>
  BY DEF Accept, Decline, api, inngest
<1>3. PICK answer \in {"none", "taken", "busy", "refused"} :
          /\ request' = [request EXCEPT ![r] = answer]
          /\ answer = "taken" => Accept(r)
  BY DEF Accept, Decline, Reply
<1>4. CASE Accept(r)
  <2>1. /\ seen' = seen \cup {r[1]}
        /\ mailed' = IF r[1] \in seen THEN mailed ELSE [mailed EXCEPT ![r[1]] = @ + 1]
    BY <1>4 DEF Accept, Key
  <2>2. QED
    BY <1>1, <1>2, <1>3, <2>1
<1>5. CASE Decline(r)
  <2>1. UNCHANGED <<seen, mailed>> /\ request'[r] # "taken"
    BY <1>5 DEF Decline, provider, Reply
  <2>2. QED
    BY <1>1, <1>2, <1>3, <2>1
<1>6. QED
  BY <1>4, <1>5

LEMMA InvStep == Inv /\ [Next]_vars => Inv'
<1> SUFFICES ASSUME Inv, [Next]_vars PROVE Inv'
  OBVIOUS
<1>1. CASE UNCHANGED vars
  BY <1>1 DEF Inv, TypeOK, WrittenFirst, KeysCount, Current, vars, api, inngest, provider
<1>2. QED
  BY <1>1, CallStep, InngestStep, WorkStep, ProviderStep DEF Next, Messages

LEMMA InvInit == Init => Inv
<1> SUFFICES ASSUME Init PROVE Inv
  OBVIOUS
<1>1. QED
  BY DEF Init, Inv, TypeOK, WrittenFirst, KeysCount, Messages

\* send-mail.ts: the key of the invitation makes a replay of the whole send
\* safe.  Attempts, retries, runs that Inngest has given up on and requests
\* that arrive late mail an invitation at most once, none before its row is
\* there, and a run that completed has mailed it.
THEOREM InvitationMailedOnce == Spec => []MailedOnce
<1>1. Inv => MailedOnce
  BY DEF Inv, WrittenFirst, KeysCount, MailedOnce
<1>2. QED
  BY <1>1, InvInit, InvStep, PTL DEF Spec

=============================================================================
