------------------------------ MODULE JobQueue ------------------------------
(***************************************************************************)
(* The background jobs of the backend: three kinds of email (verification, *)
(* password reset, organization invite) and the dummy-logs job.  A request *)
(* publishes a job to RabbitMQ; a worker runs it inside one transaction    *)
(* with its dedup record, retries it with a backoff and parks what no      *)
(* retry can fix.  A publish that fails may still have reached the broker, *)
(* so for an email the request then runs the job itself, under the id it   *)
(* was published with.  An email is sent inside the transaction, with a    *)
(* timeout that gives the send up without cancelling it: the provider may  *)
(* deliver it later.                                                       *)
(*                                                                         *)
(* Postgres is READ COMMITTED: an INSERT of a processed_messages key that  *)
(* an open transaction has inserted waits for that transaction to end.     *)
(*                                                                         *)
(* A job stands for its message id, and acts on a database row of its own  *)
(* (the account or the invite it emails about).                            *)
(***************************************************************************)
EXTENDS Integers, FiniteSets

CONSTANTS
    Verifications, Resets, Invites, Dummies,
                    \* the jobs of each of the four work queues
    Strays,         \* messages no handler can parse or deduplicate
    Handler,        \* deliveries the worker may handle at once (prefetch)
    MaxRetries,     \* RABBITMQ_MAX_RETRIES
    MaxFaults,      \* bound on crashes and lost connections
    NoJob           \* what an idle runner works on

Email     == Verifications \cup Resets \cup Invites
Published == Email \cup Dummies
Job       == Published \cup Strays
Retry     == 0 .. MaxRetries

ASSUME JobsAssumption ==
    /\ Verifications \cap (Resets \cup Invites \cup Dummies \cup Strays) = {}
    /\ Resets \cap (Invites \cup Dummies \cup Strays) = {}
    /\ Invites \cap (Dummies \cup Strays) = {}
    /\ Dummies \cap Strays = {}
    /\ NoJob \notin Job
ASSUME HandlerAssumption == Handler \cap Job = {} /\ IsFiniteSet(Handler)
ASSUME BoundAssumption   == MaxRetries \in Nat /\ MaxFaults \in Nat

\* What runs a job: a delivery to the worker, or the in-process fallback of an
\* email's own request, named by the job it runs.
Runner == Handler \cup Email

VARIABLES
    \* the API process
    req,          \* where the request that owes each job is
    publisherUp,  \* RabbitMQPublisher.available
    wire,         \* published jobs neither confirmed nor given up by the network
    \* the broker
    ready,        \* ready[j][n]: copies of j with retry count n in its work queue
    delayed,      \* delayed[j][n]: copies waiting in a retry queue
    parked,       \* jobs with a copy in the parking queue
    accepted,     \* jobs the broker ever took (history)
    \* the code that runs jobs, in the worker and in the API
    run,
    \* the database and what left the system
    processed,    \* committed rows of processed_messages
    commits,      \* committed transactions that did the job's work (history)
    row,          \* the row the job emails about
    live,         \* number of the committed email token, 0 if none was sent
    minted,       \* number of the last token minted for each email
    abandoned,    \* tokens whose send was given up, by a timeout or a crash
    mailed,       \* tokens that reached the mailbox
    emailed,      \* the one among them that came last, 0 if none
    stale,        \* dummy jobs whose rows the caches do not show yet
    missed,       \* dummy jobs acked though their caches were left as they were
    faults

api    == <<req, publisherUp, wire>>
broker == <<ready, delayed, parked, accepted>>
mail   == <<minted, abandoned, mailed, emailed>>
data   == <<processed, commits, row, live, mail, stale, missed>>
vars   == <<api, broker, run, data, faults>>

PC == {"idle", "access", "insert", "load", "mint", "send", "commit",
       "invalidate", "done", "refused", "failed", "republished", "deleting"}

\* A runner of job j at step pc; tok numbers the token it has minted, retry and
\* attached describe the delivery it handles.
RunState == [job : Job \cup {NoJob}, pc : PC, tok : Nat, retry : Retry,
             attached : BOOLEAN]

At(j, pc, n, attached) ==
    [job |-> j, pc |-> pc, tok |-> 0, retry |-> n, attached |-> attached]

Idle == At(NoJob, "idle", 0, FALSE)

\* The transaction runOnce holds open for runner r, from the dedup insert on.
InTx(r) == run[r].pc \in {"load", "mint", "send", "commit"}

\* A delivery the broker still owns: unacknowledged on an open channel.
Unacked(h) == run[h].pc # "idle" /\ run[h].attached

TypeOK ==
    /\ req \in [Published -> {"new", "saved", "publishing", "fallback",
                              "done", "failed", "lost"}]
    /\ publisherUp \in BOOLEAN
    /\ wire \subseteq Published
    /\ ready \in [Job -> [Retry -> Nat]]
    /\ delayed \in [Job -> [Retry -> Nat]]
    /\ parked \subseteq Job
    /\ accepted \subseteq Job
    /\ run \in [Runner -> RunState]
    /\ processed \subseteq Published
    /\ commits \in [Job -> Nat]
    /\ row \in [Email -> {"absent", "pending", "redeemed"}]
    /\ live \in [Email -> Nat]
    /\ minted \in [Email -> Nat]
    /\ abandoned \in [Email -> SUBSET Nat]
    /\ mailed \in [Email -> SUBSET Nat]
    /\ emailed \in [Email -> Nat]
    /\ stale \subseteq Dummies
    /\ missed \subseteq Dummies
    /\ faults \in 0 .. MaxFaults

Init ==
    /\ req = [j \in Published |-> "new"]
    /\ publisherUp = TRUE
    /\ wire = {}
    /\ ready = [j \in Job |-> [n \in Retry |-> 0]]
    /\ delayed = [j \in Job |-> [n \in Retry |-> 0]]
    /\ parked = {}
    /\ accepted = {}
    /\ run = [r \in Runner |-> Idle]
    /\ processed = {}
    /\ commits = [j \in Job |-> 0]
    /\ row = [j \in Email |-> IF j \in Invites THEN "absent" ELSE "pending"]
    /\ live = [j \in Email |-> 0]
    /\ minted = [j \in Email |-> 0]
    /\ abandoned = [j \in Email |-> {}]
    /\ mailed = [j \in Email |-> {}]
    /\ emailed = [j \in Email |-> 0]
    /\ stale = {}
    /\ missed = {}
    /\ faults = 0

-----------------------------------------------------------------------------
(* Requests that owe a job: publish it, or do it without the queue.        *)

\* The invite is committed before its job is published, with the hash of a
\* token nobody sees.
SaveInvite(j) ==
    /\ j \in Invites /\ req[j] = "new" /\ publisherUp
    /\ req' = [req EXCEPT ![j] = "saved"]
    /\ row' = [row EXCEPT ![j] = "pending"]
    /\ UNCHANGED <<publisherUp, wire, broker, run, processed, commits, live,
                   mail, stale, missed, faults>>

\* Only isEnabled() is asked: the publish itself does not read `available`.
Publish(j) ==
    /\ IF j \in Invites THEN req[j] = "saved"
                        ELSE req[j] = "new" /\ publisherUp
    /\ req' = [req EXCEPT ![j] = "publishing"]
    /\ wire' = wire \cup {j}
    /\ UNCHANGED <<publisherUp, broker, run, data, faults>>

\* How a send ends for its caller: answered, given up with the email still with
\* the provider (TimeoutEmailSender cancels nothing; an error may leave it there
\* too), or refused.
Outcome == {"sent", "givenUp", "refused"}

Mailed(j, t) ==
    /\ mailed' = [mailed EXCEPT ![j] = @ \cup {t}]
    /\ emailed' = [emailed EXCEPT ![j] = t]
    /\ UNCHANGED <<minted, abandoned>>

Sent(j, t, outcome) ==
    \/ outcome = "sent" /\ Mailed(j, t)
    \/ outcome = "givenUp" /\ abandoned' = [abandoned EXCEPT ![j] = @ \cup {t}]
                           /\ UNCHANGED <<minted, mailed, emailed>>
    \/ outcome = "refused" /\ UNCHANGED mail

\* isEnabled() is false: the email is sent, or the rows written, here and now,
\* with no dedup record.  The token is committed before the send, except an
\* invite's: invite and send share a transaction.
DoInRequest(j, outcome) ==
    LET owed == j \in Email /\ row[j] # "redeemed"
        kept == outcome = "sent" \/ j \notin Invites IN
    /\ req[j] = "new" /\ ~publisherUp
    /\ req' = [req EXCEPT ![j] = IF kept THEN "done" ELSE "failed"]
    /\ \/ /\ owed /\ kept
          /\ row' = [row EXCEPT ![j] = "pending"]
          /\ live' = [live EXCEPT ![j] = 1]
       \/ ~(owed /\ kept) /\ UNCHANGED <<row, live>>
    /\ \/ owed /\ Sent(j, 1, outcome)
       \/ ~owed /\ UNCHANGED mail
    /\ UNCHANGED <<publisherUp, wire, broker, run, processed, commits, stale, missed,
                   faults>>

\* The confirm comes back.
Confirmed(j) ==
    /\ req[j] = "publishing" /\ j \in accepted /\ j \notin wire
    /\ req' = [req EXCEPT ![j] = "done"]
    /\ UNCHANGED <<publisherUp, wire, broker, run, data, faults>>

\* What follows a rejected publish: an email's request runs the job itself;
\* the dummy-logs request answers the error.
Rejected(j) ==
    IF j \in Email
    THEN /\ req' = [req EXCEPT ![j] = "fallback"]
         /\ run' = [run EXCEPT ![j] = At(j, "insert", 0, FALSE)]
    ELSE /\ req' = [req EXCEPT ![j] = "failed"]
         /\ UNCHANGED run

\* Mutant: a publish without a timeout, as before publishTimeout was set.
PublishHangs(j) == FALSE

\* PUBLISH_TIMEOUT_MS without a confirm.  The message may be at the broker, on
\* its way, or lost.
PublishTimesOut(j) ==
    /\ req[j] = "publishing"
    /\ Rejected(j)
    /\ UNCHANGED <<publisherUp, wire, broker, data, faults>>

\* No queue is bound for the routing key: basic.return, then the confirm.
BrokerReturns(j) ==
    /\ req[j] = "publishing" /\ j \in wire
    /\ wire' = wire \ {j}
    /\ Rejected(j)
    /\ UNCHANGED <<publisherUp, broker, data, faults>>

-----------------------------------------------------------------------------
(* The broker and the network.                                             *)

Enqueue(q, j, n) == [q EXCEPT ![j][n] = @ + 1]
Dequeue(q, j, n) == [q EXCEPT ![j][n] = @ - 1]

BrokerTakes(j) ==
    /\ j \in wire
    /\ wire' = wire \ {j}
    /\ ready' = Enqueue(ready, j, 0)
    /\ accepted' = accepted \cup {j}
    /\ UNCHANGED <<req, publisherUp, delayed, parked, run, data, faults>>

WireLoses(j) ==
    /\ j \in wire
    /\ wire' = wire \ {j}
    /\ UNCHANGED <<req, publisherUp, broker, run, data, faults>>

\* amqp-connection-manager sends what is unconfirmed again after a reconnect.
Resend(j) ==
    /\ faults < MaxFaults
    /\ req[j] = "publishing" /\ j \notin wire
    /\ wire' = wire \cup {j}
    /\ faults' = faults + 1
    /\ UNCHANGED <<req, publisherUp, broker, run, data>>

\* Published by something else than this code.
StrayArrives(j) ==
    /\ j \in Strays /\ j \notin accepted
    /\ ready' = Enqueue(ready, j, 0)
    /\ accepted' = accepted \cup {j}
    /\ UNCHANGED <<api, delayed, parked, run, data, faults>>

\* The retry queue's TTL dead-letters the message back to its work queue.
Expire(j, n) ==
    /\ delayed[j][n] > 0
    /\ delayed' = Dequeue(delayed, j, n)
    /\ ready' = Enqueue(ready, j, n)
    /\ UNCHANGED <<api, parked, accepted, run, data, faults>>

-----------------------------------------------------------------------------
(* Running a job.  A step that throws leads to "failed", with the          *)
(* transaction rolled back, or to "refused" when no retry can help.        *)

Goto(r, pc) == run' = [run EXCEPT ![r].pc = pc]

\* The handler parses the body, then asks for access (dummy logs) or goes
\* straight to the transaction.
FirstStep(j) == IF j \in Strays THEN "refused"
                ELSE IF j \in Dummies THEN "access" ELSE "insert"

\* Dummy logs invalidate the caches after the commit, and on a duplicate too.
AfterRunOnce(j) == IF j \in Dummies THEN "invalidate" ELSE "done"

\* ensureMetricOwnership: no more metric or membership is terminal.
Access(r) ==
    /\ run[r].pc = "access"
    /\ \E pc \in {"insert", "refused", "failed"} : Goto(r, pc)
    /\ UNCHANGED <<api, broker, data, faults>>

\* Mutant: an insert that ignores the unique violation.
InsertUnguarded(r) ==
    /\ run[r].pc = "insert"
    /\ \A s \in Runner : run[s].job = run[r].job => ~InTx(s)
    /\ Goto(r, IF run[r].job \in Dummies THEN "commit" ELSE "load")
    /\ UNCHANGED <<api, broker, data, faults>>

\* Mutant: the dedup row is looked up, not inserted: nothing to wait for.
InsertUnlocked(r) ==
    LET j == run[r].job IN
    /\ run[r].pc = "insert"
    /\ Goto(r, IF j \in processed THEN AfterRunOnce(j)
               ELSE IF j \in Dummies THEN "commit" ELSE "load")
    /\ UNCHANGED <<api, broker, data, faults>>

\* Mutant: a duplicate skips the cache invalidation.
InsertSkipsAll(r) ==
    LET j == run[r].job IN
    /\ run[r].pc = "insert"
    /\ \A s \in Runner : run[s].job = j => ~InTx(s)
    /\ Goto(r, IF j \in processed THEN "done"
               ELSE IF j \in Dummies THEN "commit" ELSE "load")
    /\ UNCHANGED <<api, broker, data, faults>>

\* The dedup insert waits for a transaction that has inserted the same key.
Insert(r) ==
    LET j == run[r].job IN
    /\ run[r].pc = "insert"
    /\ \A s \in Runner : run[s].job = j => ~InTx(s)
    /\ Goto(r, IF j \in processed THEN AfterRunOnce(j)
               ELSE IF j \in Dummies THEN "commit" ELSE "load")
    /\ UNCHANGED <<api, broker, data, faults>>

\* The job reads the account or the invite: nothing is owed to a user already
\* verified, or for an invite deleted or accepted.
Load(r) ==
    /\ run[r].pc = "load"
    /\ Goto(r, IF row[run[r].job] = "pending" THEN "mint" ELSE "commit")
    /\ UNCHANGED <<api, broker, data, faults>>

\* Revokes the earlier tokens and writes a new one (uncommitted).
Mint(r) ==
    LET j == run[r].job IN
    /\ run[r].pc = "mint"
    /\ minted' = [minted EXCEPT ![j] = @ + 1]
    /\ run' = [run EXCEPT ![r].pc = "send", ![r].tok = minted[j] + 1]
    /\ UNCHANGED <<api, broker, processed, commits, row, live, abandoned, mailed,
                   emailed, stale, missed, faults>>

\* Mutant: a send that timed out is taken for one that was answered.
SendUnanswered(r, outcome) ==
    /\ run[r].pc = "send"
    /\ Sent(run[r].job, run[r].tok, outcome)
    /\ Goto(r, IF outcome = "refused" THEN "failed" ELSE "commit")
    /\ UNCHANGED <<api, broker, processed, commits, row, live, stale, missed, faults>>

Send(r, outcome) ==
    /\ run[r].pc = "send"
    /\ Sent(run[r].job, run[r].tok, outcome)
    /\ Goto(r, IF outcome = "sent" THEN "commit" ELSE "failed")
    /\ UNCHANGED <<api, broker, processed, commits, row, live, stale, missed, faults>>

\* The provider delivers what nobody waits for any more, whatever ran meanwhile.
DeliverLate(j) ==
    /\ \E t \in abandoned[j] \ mailed[j] : Mailed(j, t)
    /\ UNCHANGED <<api, broker, run, processed, commits, row, live, stale, missed, faults>>

\* The commit makes the dedup record and the work visible at once.  Its answer
\* may be lost with the connection, and the caller then sees a failure.
Commit(r, answered) ==
    LET j == run[r].job IN
    /\ run[r].pc = "commit"
    /\ answered \/ faults < MaxFaults
    /\ faults' = IF answered THEN faults ELSE faults + 1
    /\ processed' = processed \cup {j}
    /\ commits' = [commits EXCEPT ![j] = @ + 1]
    /\ live' = IF j \in Email /\ run[r].tok > 0 /\ row[j] # "absent"
               THEN [live EXCEPT ![j] = run[r].tok] ELSE live
    /\ stale' = IF j \in Dummies THEN stale \cup {j} ELSE stale
    /\ Goto(r, IF answered THEN AfterRunOnce(j) ELSE "failed")
    /\ UNCHANGED <<api, broker, row, mail, missed>>

\* A statement, the pool's acquire or the commit fails: all is rolled back.
Abort(r) ==
    /\ run[r].pc \in {"insert", "load", "mint", "commit"}
    /\ Goto(r, "failed")
    /\ UNCHANGED <<api, broker, data, faults>>

\* The pages are cleared, or a walk fails and the job with it.  With the Redis
\* client closed nothing is cleared, and MetricCacheRedis logs its own walks'
\* errors: pages stay as they were, and the job is done all the same.
Invalidate(r, result) ==
    /\ run[r].pc = "invalidate"
    /\ stale' = IF result = "cleared" THEN stale \ {run[r].job} ELSE stale
    /\ missed' = IF result = "missed" THEN missed \cup {run[r].job} ELSE missed
    /\ Goto(r, IF result = "failed" THEN "failed" ELSE "done")
    /\ UNCHANGED <<api, broker, processed, commits, row, live, mail, faults>>

RunJob(r) ==
    \/ Access(r)
    \/ Insert(r)
    \/ Load(r)
    \/ Mint(r)
    \/ \E outcome \in Outcome : Send(r, outcome)
    \/ \E answered \in BOOLEAN : Commit(r, answered)
    \/ Abort(r)
    \/ \E result \in {"cleared", "missed", "failed"} : Invalidate(r, result)

-----------------------------------------------------------------------------
(* The end of a fallback, in the request or in its background task.        *)

\* runOnce resolved, "processed" or "duplicate".
FallbackDone(j) ==
    /\ run[j].pc = "done"
    /\ run' = [run EXCEPT ![j] = Idle]
    /\ req' = [req EXCEPT ![j] = "done"]
    /\ UNCHANGED <<publisherUp, wire, broker, data, faults>>

\* runOnce rejected: a verification or reset is logged, an invite is deleted.
FallbackFails(j) ==
    /\ run[j].pc = "failed"
    /\ IF j \in Invites
       THEN /\ Goto(j, "deleting")
            /\ UNCHANGED req
       ELSE /\ run' = [run EXCEPT ![j] = Idle]
            /\ req' = [req EXCEPT ![j] = "done"]
    /\ UNCHANGED <<publisherUp, wire, broker, data, faults>>

\* replaceTokenHash holds the invite's row lock until its transaction ends.
RowLocked(j) == \E r \in Runner : run[r].job = j /\ run[r].tok > 0 /\ InTx(r)

\* deleteById, then the error is answered; the delete itself may fail.
DeleteInvite(j, ok) ==
    /\ run[j].pc = "deleting"
    /\ ok => ~RowLocked(j)
    /\ row' = [row EXCEPT ![j] = IF ok THEN "absent" ELSE @]
    /\ run' = [run EXCEPT ![j] = Idle]
    /\ req' = [req EXCEPT ![j] = "failed"]
    /\ UNCHANGED <<publisherUp, wire, broker, processed, commits, live, mail,
                   stale, missed, faults>>

-----------------------------------------------------------------------------
(* The consumer: deliver, settle, retry, park.                             *)

\* Mutant: the count moves on a delivery as well as on a republish.
DeliverCounting(h, j, n) ==
    /\ run[h].pc = "idle"
    /\ ready[j][n] > 0
    /\ ready' = Dequeue(ready, j, n)
    /\ run' = [run EXCEPT ![h] = At(j, FirstStep(j), n + 1, TRUE)]
    /\ UNCHANGED <<api, delayed, parked, accepted, data, faults>>

Deliver(h, j, n) ==
    /\ run[h].pc = "idle"
    /\ ready[j][n] > 0
    /\ ready' = Dequeue(ready, j, n)
    /\ run' = [run EXCEPT ![h] = At(j, FirstStep(j), n, TRUE)]
    /\ UNCHANGED <<api, delayed, parked, accepted, data, faults>>

\* On a closed channel the ack throws and is logged: same end.
Ack(h) ==
    /\ run[h].pc \in {"done", "republished"}
    /\ run' = [run EXCEPT ![h] = Idle]
    /\ UNCHANGED <<api, broker, data, faults>>

\* decideOnFailure.
MayRetry(h) == run[h].pc = "failed" /\ run[h].retry < MaxRetries
MustPark(h) == \/ run[h].pc = "refused"
               \/ run[h].pc = "failed" /\ run[h].retry >= MaxRetries

\* Mutant: an exhausted message is acked, not dead-lettered.
ParkByAck(h) ==
    /\ MustPark(h)
    /\ run' = [run EXCEPT ![h] = Idle]
    /\ UNCHANGED <<api, broker, data, faults>>

\* nack without requeue; on a closed channel it throws and the broker has
\* already requeued the message.
Park(h) ==
    /\ MustPark(h)
    /\ parked' = IF run[h].attached THEN parked \cup {run[h].job} ELSE parked
    /\ run' = [run EXCEPT ![h] = Idle]
    /\ UNCHANGED <<api, ready, delayed, accepted, data, faults>>

\* Declare the tier and publish the copy with the next count; the ack is a
\* step of its own.
Republish(h) ==
    /\ MayRetry(h) /\ run[h].attached
    /\ delayed' = Enqueue(delayed, run[h].job, run[h].retry + 1)
    /\ Goto(h, "republished")
    /\ UNCHANGED <<api, ready, parked, accepted, data, faults>>

\* Mutant: the message is acked although its retry was not published.
RepublishFailsAcked(h, arrived) ==
    /\ MayRetry(h) /\ run[h].attached
    /\ delayed' = IF arrived THEN Enqueue(delayed, run[h].job, run[h].retry + 1)
                             ELSE delayed
    /\ run' = [run EXCEPT ![h] = Idle]
    /\ UNCHANGED <<api, ready, parked, accepted, data, faults>>

\* The retry publish rejects, and parks; a timeout may have published it too.
RepublishFails(h, arrived) ==
    /\ MayRetry(h) /\ run[h].attached
    /\ delayed' = IF arrived THEN Enqueue(delayed, run[h].job, run[h].retry + 1)
                             ELSE delayed
    /\ parked' = parked \cup {run[h].job}
    /\ run' = [run EXCEPT ![h] = Idle]
    /\ UNCHANGED <<api, ready, accepted, data, faults>>

\* On a closed channel declaring the tier throws, then the nack: logged.
CannotSettle(h) ==
    /\ MayRetry(h) /\ ~run[h].attached
    /\ run' = [run EXCEPT ![h] = Idle]
    /\ UNCHANGED <<api, broker, data, faults>>

Settle(h) ==
    \/ Ack(h)
    \/ Park(h)
    \/ Republish(h)
    \/ \E arrived \in BOOLEAN : RepublishFails(h, arrived)
    \/ CannotSettle(h)

-----------------------------------------------------------------------------
(* Crashes and lost connections, at most MaxFaults of them.                *)

\* What the broker puts back on the queue when these deliveries' channels go.
Requeued(lost) ==
    [j \in Job |-> [n \in Retry |->
        ready[j][n] + Cardinality({h \in lost : /\ Unacked(h)
                                                /\ run[h].job = j
                                                /\ run[h].retry = n})]]

\* The consumer channel of one work queue closes under the handlers, which
\* keep running.
ChannelCloses(queue) ==
    LET cut == {h \in Handler : run[h].job \in queue /\ Unacked(h)} IN
    /\ faults < MaxFaults /\ cut # {}
    /\ ready' = Requeued(cut)
    /\ run' = [r \in Runner |-> IF r \in cut THEN [run[r] EXCEPT !.attached = FALSE]
                                             ELSE run[r]]
    /\ faults' = faults + 1
    /\ UNCHANGED <<api, delayed, parked, accepted, data>>

\* A process that dies in the middle of a send leaves it with the provider.
LeaveSends(lost) ==
    /\ abandoned' = [j \in Email |-> abandoned[j] \cup
           {run[r].tok : r \in {q \in lost : run[q].pc = "send" /\ run[q].job = j}}]
    /\ UNCHANGED <<processed, commits, row, live, minted, mailed, emailed, stale, missed>>

WorkerDies ==
    /\ faults < MaxFaults
    /\ \E h \in Handler : run[h].pc # "idle"
    /\ ready' = Requeued(Handler)
    /\ run' = [r \in Runner |-> IF r \in Handler THEN Idle ELSE run[r]]
    /\ LeaveSends(Handler)
    /\ faults' = faults + 1
    /\ UNCHANGED <<api, delayed, parked, accepted>>

\* Requests in progress and background tasks are lost with the process.
ApiDies ==
    LET open == {j \in Published : req[j] \in {"saved", "publishing", "fallback"}} IN
    /\ faults < MaxFaults /\ open # {}
    /\ req' = [j \in Published |-> IF j \in open THEN "lost" ELSE req[j]]
    /\ run' = [r \in Runner |-> IF r \in Handler THEN run[r] ELSE Idle]
    /\ LeaveSends(Email)
    /\ publisherUp' = TRUE
    /\ faults' = faults + 1
    /\ UNCHANGED <<wire, broker>>

\* The publisher's channel emits "error", and later "connect".
PublisherFails ==
    /\ faults < MaxFaults /\ publisherUp
    /\ publisherUp' = FALSE
    /\ faults' = faults + 1
    /\ UNCHANGED <<req, wire, broker, run, data>>

PublisherConnects ==
    /\ ~publisherUp
    /\ publisherUp' = TRUE
    /\ UNCHANGED <<req, wire, broker, run, data, faults>>

-----------------------------------------------------------------------------
\* The user uses a link: an earlier one for a verification, the live one for an
\* invite, whose acceptance writes the row and waits for its lock.
Redeem(j) ==
    /\ row[j] = "pending"
    /\ \/ j \in Verifications
       \/ j \in Invites /\ live[j] > 0 /\ ~RowLocked(j)
    /\ row' = [row EXCEPT ![j] = "redeemed"]
    /\ UNCHANGED <<api, broker, run, processed, commits, live, mail, stale,
                   missed, faults>>

Answer(j)   == Confirmed(j) \/ PublishTimesOut(j) \/ BrokerReturns(j)
Fallback(j) == FallbackDone(j) \/ FallbackFails(j) \/ \E ok \in BOOLEAN : DeleteInvite(j, ok)

Request(j) == \/ SaveInvite(j)
              \/ Publish(j)
              \/ \E outcome \in Outcome : DoInRequest(j, outcome)
              \/ Answer(j)
Network(j) == BrokerTakes(j) \/ WireLoses(j) \/ Resend(j)

WorkQueues == {Verifications, Resets, Invites, Dummies, Strays}

Next ==
    \/ \E j \in Published : Request(j) \/ Network(j)
    \/ \E j \in Strays : StrayArrives(j)
    \/ \E j \in Job, n \in Retry : Expire(j, n)
    \/ \E r \in Runner : RunJob(r)
    \/ \E j \in Email : Fallback(j) \/ Redeem(j) \/ DeliverLate(j)
    \/ \E h \in Handler : Settle(h)
    \/ \E h \in Handler, j \in Job, n \in Retry : Deliver(h, j, n)
    \/ \E queue \in WorkQueues : ChannelCloses(queue)
    \/ WorkerDies
    \/ ApiDies
    \/ PublisherFails
    \/ PublisherConnects

Spec == Init /\ [][Next]_vars

\* The event loops run what is ready; queries and sends return (a send has a
\* timeout of its own, a publish too); the broker delivers and expires.  No more is
\* assumed than that, while any of these can go on, one of them does.
Fairness ==
    WF_vars(\/ \E j \in Published : Answer(j)
            \/ \E j \in Email : Fallback(j)
            \/ \E r \in Runner : RunJob(r)
            \/ \E h \in Handler : Settle(h)
            \/ \E h \in Handler, j \in Job, n \in Retry : Deliver(h, j, n)
            \/ \E j \in Job, n \in Retry : Expire(j, n))

FairSpec == Spec /\ Fairness

-----------------------------------------------------------------------------
(* What the jobs promise.                                                  *)

Durable == INSTANCE DurableJobs WITH
    taken <- accepted, effects <- commits, dead <- parked

\* The whole machinery of publishes, fallbacks, retries and redeliveries is the
\* durable queue ADR-0007 asks for: each job works at most once, and a message
\* the broker took is worked or parked in the end.
ImplementsDurableJobs == Durable!Spec

\* The broker still holds a copy of j, or will get one back if its delivery is
\* dropped.
Carried(j) ==
    \/ \E n \in Retry : ready[j][n] > 0 \/ delayed[j][n] > 0
    \/ \E h \in Handler : run[h].job = j /\ Unacked(h)

\* The work of a job is committed at most once, however often its message is
\* delivered, resent or run by its own request.
OneEffect == \A j \in Published : commits[j] <= 1

\* Whatever the broker once took is done, parked for an operator, or still
\* held by the broker: the ack comes after the commit, the retry's publish
\* before the ack.
NoJobLost == \A j \in accepted : j \in processed \/ j \in parked \/ Carried(j)

\* Rows the caches do not show still have a message that will invalidate the
\* caches, or one parked for an operator, unless the invalidation ran and did
\* nothing without saying so (the Redis client closed, or an error of the metric
\* pages' walks logged and dropped): then only their TTL ends them.
StaleCachesHaveAnOwner == \A j \in stale \ missed : j \in parked \/ Carried(j)

\* Once a job is recorded as processed, the link the database accepts is in the
\* mailbox, and only a link whose send had been given up can have come after it:
\* attempts that mailed a link and rolled back left none behind them.
LastLinkWorks ==
    \A j \in Email \cap processed :
        row[j] = "pending" =>
            /\ live[j] \in mailed[j]
            /\ emailed[j] = live[j] \/ emailed[j] \in abandoned[j]

\* Whichever of the worker and the fallback runs second sends nothing: once the
\* job is recorded no link is minted and no send begun, and what still reaches the
\* mailbox is of a send given up before.
SendsNothingOnceRecorded ==
    [][\A j \in Email \cap processed :
         /\ minted'[j] = minted[j] /\ abandoned'[j] = abandoned[j]
         /\ mailed'[j] \subseteq mailed[j] \cup abandoned[j]]_vars

\* Every request gets its answer, unless its process dies.
EventuallyAnswered ==
    \A j \in Published : req[j] = "publishing" ~> req[j] \in {"done", "failed", "lost"}

\* InviteUserToOrganization, where the fallback failed: "Nobody received it, so
\* it must not answer 409 on the retry".  Read as: the invite it removes has no
\* working link in somebody's mailbox.
NobodyReceivedIt ==
    \A j \in Invites : req[j] = "failed" /\ row[j] = "absent" => live[j] = 0
=============================================================================
