------------------------------ MODULE Lifecycle ------------------------------
\* One process of the service, from its start to its exit: the HTTP server (server.ts) or
\* the worker (worker.ts). Both hand the steps that close them to createShutdown
\* (utils/shutdown.ts), which runs them once, within one deadline. Time is counted from
\* the first signal, in units of 5 s; a close that takes a unit or more is slow, and one
\* that never ends is a hang.
EXTENDS Integers, Sequences

CONSTANTS
    Queue,          \* the queues the worker consumes
    MaxWork,        \* requests, tasks or messages at once, of each sort
    MaxLosses       \* lost broker connections and Redis outages

VARIABLES
    kind,       \* "none" before the deploy, then "server" or "worker"
    boot,       \* startServer or startWorker: starting, up, failed
    code,       \* exitCode of createShutdown
    first,      \* what the steps were given: the exit code of the first call
    todo,       \* the steps left, the one under way first; "flush" is the last
    since,      \* when that step began
    clock,
    exited,     \* the exit code, or -1 while the process runs
    requests,   \* requests being answered
    tasks,      \* background tasks of the server, tracked
    loose,      \* handlers whose connection was cut: nothing tracks them
    sub,        \* the consumer's subscription, per queue
    stage,      \* where close() of the consumer is, per queue
    inFlight,   \* messages being handled, per queue
    open,       \* connections open
    losses,
    past        \* what happened that a property must know of

server == <<requests, tasks, loose>>
worker == <<sub, stage, inFlight>>
shutting == <<code, first, todo, since, clock>>
vars == <<kind, boot, shutting, exited, server, worker, open, losses, past>>

\* SHUTDOWN_TIMEOUT_MS, HTTP_CLOSE_TIMEOUT_MS, SHUTDOWN_DRAIN_TIMEOUT_MS and
\* WORKER_DRAIN_TIMEOUT_MS.
Deadline == 5
HttpClose == 1
TaskDrain == 2

\* Mutant: as long as the deadline.
MessageDrainToTheEnd == 5

MessageDrain == 4

Running == -1
Stopping == first # Running
Alive == kind # "none" /\ exited = Running

Init ==
    /\ kind = "none"
    /\ boot = "starting"
    /\ code = 0 /\ first = Running /\ todo = <<>> /\ since = 0 /\ clock = 0
    /\ exited = Running
    /\ requests = 0 /\ tasks = 0 /\ loose = 0
    /\ sub = [q \in Queue |-> "none"]
    /\ stage = [q \in Queue |-> "open"]
    /\ inFlight = [q \in Queue |-> 0]
    /\ open = {}
    /\ losses = 0
    /\ past = {}

Deploy(k) ==
    /\ kind = "none"
    /\ kind' = k
    /\ open' = {"db", "redis"}
    /\ UNCHANGED <<boot, shutting, exited, server, worker, losses, past>>

-----------------------------------------------------------------------------
\* Start. Nothing stops it when a signal arrives first: it goes on beside the shutdown.

Starts ==
    /\ Alive
    /\ boot = "starting"
    /\ "db" \in open
    /\ boot' = "up"
    /\ open' = open \cup {"rabbit"}
    /\ past' = IF Stopping THEN past \cup {"late start"} ELSE past
    /\ UNCHANGED <<kind, shutting, exited, server, worker, losses>>

\* authenticate rejects, also because the shutdown closed the database under it. The
\* process exits with 1 as soon as its log is flushed.
StartFails ==
    /\ Alive
    /\ boot = "starting"
    /\ boot' = "failed"
    /\ UNCHANGED <<kind, shutting, exited, server, worker, open, losses, past>>

ExitsUnstarted ==
    /\ Alive
    /\ boot = "failed"
    /\ exited' = 1
    /\ past' = past \cup {"not started"}
    /\ UNCHANGED <<kind, boot, shutting, server, worker, open, losses>>

\* Redis is required and stayed away for the whole retry budget: the client's error
\* listener ends the process itself.
RedisGivesUp ==
    /\ Alive
    /\ "redis" \in open
    /\ losses < MaxLosses
    /\ losses' = losses + 1
    /\ exited' = 1
    /\ past' = past \cup {"no redis"}
    /\ UNCHANGED <<kind, boot, shutting, server, worker, open>>

-----------------------------------------------------------------------------
\* Work.

\* The server listens until its close, which cuts idle connections at once.
Listening == kind = "server" /\ boot = "up" /\ (~ Stopping \/ "late start" \in past)

Accept ==
    /\ Alive /\ Listening
    /\ requests < MaxWork
    /\ requests' = requests + 1
    /\ UNCHANGED <<kind, boot, shutting, exited, tasks, loose, worker, open, losses, past>>

\* An answer may leave a background task behind (runInBackground).
Answer ==
    /\ Alive
    /\ \/ requests > 0 /\ requests' = requests - 1 /\ loose' = loose
       \/ loose > 0 /\ loose' = loose - 1 /\ requests' = requests
    /\ tasks' \in {tasks, tasks + 1} \cap (0..MaxWork)
    /\ UNCHANGED <<kind, boot, shutting, exited, worker, open, losses, past>>

TaskEnds ==
    /\ Alive
    /\ tasks > 0
    /\ tasks' = tasks - 1
    /\ UNCHANGED <<kind, boot, shutting, exited, requests, loose, worker, open, losses, past>>

\* The consumer's setup on a new channel, its two checks of "stopping" included.
Connected(q) == boot = "up" /\ "rabbit" \in open /\ stage[q] # "closed"

\* Mutant: consumes without a look at "stopping".
SetupUnchecked(q) ==
    /\ Alive /\ kind = "worker" /\ Connected(q)
    /\ sub[q] = "none"
    /\ sub' = [sub EXCEPT ![q] = "consuming"]
    /\ UNCHANGED <<kind, boot, shutting, exited, server, stage, inFlight, open, losses, past>>

Setup(q) ==
    /\ Alive /\ kind = "worker" /\ Connected(q)
    /\ sub[q] = "none"
    /\ stage[q] = "open"
    /\ sub' = [sub EXCEPT ![q] = "consuming"]
    /\ UNCHANGED <<kind, boot, shutting, exited, server, stage, inFlight, open, losses, past>>

ConsumeOk(q) ==
    /\ Alive
    /\ sub[q] = "consuming"
    /\ sub' = [sub EXCEPT ![q] = IF stage[q] = "open" THEN "on" ELSE "cancelling"]
    /\ UNCHANGED <<kind, boot, shutting, exited, server, stage, inFlight, open, losses, past>>

LateCancelOk(q) ==
    /\ Alive
    /\ sub[q] = "cancelling"
    /\ sub' = [sub EXCEPT ![q] = "none"]
    /\ UNCHANGED <<kind, boot, shutting, exited, server, stage, inFlight, open, losses, past>>

\* The broker delivers from the moment it registers the consumer until it removes it.
Deliver(q) ==
    /\ Alive
    /\ sub[q] # "none"
    /\ inFlight[q] < MaxWork
    /\ inFlight' = [inFlight EXCEPT ![q] = @ + 1]
    /\ UNCHANGED <<kind, boot, shutting, exited, server, sub, stage, open, losses, past>>

Settle(q) ==
    /\ Alive
    /\ inFlight[q] > 0
    /\ inFlight' = [inFlight EXCEPT ![q] = @ - 1]
    /\ UNCHANGED <<kind, boot, shutting, exited, server, sub, stage, open, losses, past>>

\* The connection to the broker is lost and made again: every channel is set up anew.
Reconnect ==
    /\ Alive
    /\ "rabbit" \in open
    /\ losses < MaxLosses
    /\ losses' = losses + 1
    /\ sub' = [q \in Queue |-> "none"]
    /\ UNCHANGED <<kind, boot, shutting, exited, server, stage, inFlight, open, past>>

-----------------------------------------------------------------------------
\* Shutdown.

\* The server closes its HTTP server if it listens, and drains its tasks unless it crashed.
Steps ==
    CASE kind = "worker" -> <<"consumers", "publisher", "rabbit", "redis", "db", "flush">>
      [] kind # "worker" /\ Listening /\ code' = 0 ->
             <<"http", "tasks", "db", "redis", "rabbit", "flush">>
      [] kind # "worker" /\ Listening /\ code' # 0 ->
             <<"http", "db", "redis", "rabbit", "flush">>
      [] kind # "worker" /\ ~ Listening /\ code' = 0 ->
             <<"tasks", "db", "redis", "rabbit", "flush">>
      [] OTHER -> <<"db", "redis", "rabbit", "flush">>

\* Mutant: the code of the first call stays.
ShutdownOfTheFirst(c) ==
    /\ Alive
    /\ code' = IF Stopping THEN code ELSE c
    /\ \/ Stopping /\ UNCHANGED <<first, todo, since, clock>>
       \/ ~ Stopping /\ first' = c /\ todo' = Steps /\ since' = 0 /\ clock' = 0
    /\ past' = IF c = 1 THEN past \cup {"crash"} ELSE past
    /\ UNCHANGED <<kind, boot, exited, server, worker, open, losses>>

\* A signal (0) or a crash (1). A second one joins the run, and only its code counts.
Shutdown(c) ==
    /\ Alive
    /\ code' = IF code = 0 THEN c ELSE code
    /\ \/ /\ Stopping
          /\ UNCHANGED <<first, todo, since, clock>>
       \/ /\ ~ Stopping
          /\ first' = code'
          /\ todo' = Steps
          /\ since' = 0 /\ clock' = 0
    /\ past' = IF c = 1 THEN past \cup {"crash"} ELSE past
    /\ UNCHANGED <<kind, boot, exited, server, worker, open, losses>>

At(step) == Alive /\ todo # <<>> /\ Head(todo) = step
StepEnds == todo' = Tail(todo) /\ since' = clock
Waited(n) == clock - since >= n

\* closeHttpServer: the last connection closes by itself, or all are closed at the bound.
HttpCloses ==
    /\ At("http")
    /\ \/ requests = 0 /\ UNCHANGED <<loose, past>>
       \/ /\ requests > 0 /\ Waited(HttpClose)
          /\ loose' = loose + requests
          /\ past' = past \cup {"timer"}
    /\ requests' = 0
    /\ StepEnds
    /\ UNCHANGED <<kind, boot, code, first, clock, exited, tasks, worker, open, losses>>

\* drainBackgroundTasks.
TasksDrain ==
    /\ At("tasks")
    /\ \/ tasks = 0 /\ UNCHANGED past
       \/ tasks > 0 /\ Waited(TaskDrain) /\ past' = past \cup {"timer"}
    /\ StepEnds
    /\ UNCHANGED <<kind, boot, code, first, clock, exited, server, worker, open, losses>>

\* The consumers the worker has when its steps begin: none, if it is still starting.
Started == boot = "up" /\ "late start" \notin past

\* RabbitMQConsumer.close, of each queue at once: cancel, drain, close the channel.
DrainFor == IF first = 0 THEN MessageDrain ELSE 0

Cancel(q) ==
    /\ At("consumers") /\ Started
    /\ stage[q] = "open"
    /\ stage' = [stage EXCEPT ![q] = IF sub[q] = "on" THEN "cancel" ELSE "drain"]
    /\ past' = IF sub[q] = "consuming" THEN past \cup {"consume pending"} ELSE past
    /\ UNCHANGED <<kind, boot, shutting, exited, server, sub, inFlight, open, losses>>

CancelOk(q) ==
    /\ Alive
    /\ stage[q] = "cancel"
    /\ stage' = [stage EXCEPT ![q] = "drain"]
    /\ sub' = [sub EXCEPT ![q] = "none"]
    /\ UNCHANGED <<kind, boot, shutting, exited, server, inFlight, open, losses, past>>

Drained(q) ==
    /\ Alive
    /\ stage[q] = "drain"
    /\ \/ inFlight[q] = 0 /\ UNCHANGED past
       \/ inFlight[q] > 0 /\ Waited(DrainFor) /\ past' = past \cup {"timer"}
    /\ stage' = [stage EXCEPT ![q] = "channel"]
    /\ UNCHANGED <<kind, boot, shutting, exited, server, sub, inFlight, open, losses>>

ChannelCloses(q) ==
    /\ Alive
    /\ stage[q] = "channel"
    /\ stage' = [stage EXCEPT ![q] = "closed"]
    /\ sub' = [sub EXCEPT ![q] = "none"]
    /\ UNCHANGED <<kind, boot, shutting, exited, server, inFlight, open, losses, past>>

ConsumersDone == At("consumers") /\ (~ Started \/ \A q \in Queue : stage[q] = "closed")

ConsumersClosed ==
    /\ ConsumersDone
    /\ StepEnds
    /\ UNCHANGED <<kind, boot, code, first, clock, exited, server, worker, open, losses, past>>

\* The publisher, RabbitMQ, Redis and the database close, each in its place.
Closing == {"publisher", "rabbit", "redis", "db"}

Close(c) ==
    /\ c \in Closing
    /\ At(c)
    /\ StepEnds
    /\ open' = open \ {c}
    /\ sub' = IF c = "rabbit" THEN [q \in Queue |-> "none"] ELSE sub
    /\ UNCHANGED <<kind, boot, code, first, clock, exited, server, stage, inFlight, losses,
                   past>>

\* A close that throws ends the steps; RabbitMQ's and Redis's errors are caught.
CloseFails(c) ==
    /\ c \in {"consumers", "publisher", "db"}
    /\ At(c)
    /\ code' = IF code = 0 THEN 1 ELSE code
    /\ todo' = <<"flush">> /\ since' = clock
    /\ past' = past \cup {"failure"}
    /\ UNCHANGED <<kind, boot, first, clock, exited, server, worker, open, losses>>

\* The logs are flushed, or the flush failed, and the process exits.
Exit ==
    /\ At("flush")
    /\ exited' = code
    /\ UNCHANGED <<kind, boot, shutting, server, worker, open, losses, past>>

\* Mutant: the deadline bounds the steps, not the flush.
ExitAtDeadlineOfSteps ==
    /\ Alive /\ Stopping /\ ~ At("flush")
    /\ clock = Deadline
    /\ code' = IF code = 0 THEN 1 ELSE code
    /\ exited' = code'
    /\ past' = past \cup {"deadline"}
    /\ UNCHANGED <<kind, boot, first, todo, since, clock, server, worker, open, losses>>

\* The deadline passed first; the last flush has less than a unit.
ExitAtDeadline ==
    /\ Alive /\ Stopping
    /\ clock = Deadline
    /\ code' = IF code = 0 THEN 1 ELSE code
    /\ exited' = code'
    /\ past' = past \cup {"deadline"}
    /\ UNCHANGED <<kind, boot, first, todo, since, clock, server, worker, open, losses>>

\* What is due happens before time passes: a timer, or a wait that is over.
Due ==
    \/ clock >= Deadline
    \/ At("http") /\ (requests = 0 \/ Waited(HttpClose))
    \/ At("tasks") /\ (tasks = 0 \/ Waited(TaskDrain))
    \/ At("consumers") /\ Started /\ \E q \in Queue :
           \/ stage[q] = "open"
           \/ stage[q] = "drain" /\ (inFlight[q] = 0 \/ Waited(DrainFor))
    \/ ConsumersDone

SlowStep ==
    \/ Head(todo) \in Closing \cup {"flush"}
    \/ At("consumers") /\ \E q \in Queue : stage[q] \in {"cancel", "channel"}

Tick ==
    /\ Alive /\ Stopping
    /\ ~ Due
    /\ clock' = clock + 1
    /\ past' = IF SlowStep THEN past \cup {"slow"} ELSE past
    /\ UNCHANGED <<kind, boot, code, first, todo, since, exited, server, worker, open, losses>>

-----------------------------------------------------------------------------
\* The event loop: timers, and the waits that are over.
Timers ==
    \/ HttpCloses \/ TasksDrain \/ ConsumersClosed \/ ExitAtDeadline \/ Tick
    \/ \E q \in Queue : Cancel(q) \/ Drained(q)

Next ==
    \/ \E k \in {"server", "worker"} : Deploy(k)
    \/ Starts \/ StartFails \/ ExitsUnstarted \/ RedisGivesUp
    \/ Accept \/ Answer \/ TaskEnds \/ Reconnect
    \/ \E q \in Queue : \/ Setup(q) \/ ConsumeOk(q) \/ LateCancelOk(q) \/ Deliver(q)
                        \/ Settle(q) \/ CancelOk(q) \/ ChannelCloses(q)
    \/ \E c \in {0, 1} : Shutdown(c)
    \/ \E c \in Closing \cup {"consumers"} : Close(c) \/ CloseFails(c)
    \/ Exit
    \/ Timers

Spec == Init /\ [][Next]_vars /\ WF_vars(Timers)

-----------------------------------------------------------------------------
\* "Whatever the steps wait on, the process exits by the deadline" (utils/shutdown.ts):
\* no close, flush, handler or broker has to answer for it.
StopEnds == Stopping ~> exited # Running

\* An exit code of 0 says that the process started, was asked to stop, crashed at no
\* point, even while it was stopping, and ended every step in time with nothing left
\* open but what a start that met the stop had opened.
ZeroMeansClean ==
    exited = 0 => /\ todo = <<"flush">>
                  /\ open = {} \/ "late start" \in past
                  /\ past \cap {"crash", "failure", "deadline"} = {}

\* The bounds of the waits leave room for the closes: the deadline cuts the steps off
\* only where a close or a flush is itself slow.
WaitsFit == "deadline" \in past => "slow" \in past

Working == requests + tasks + loose > 0 \/ \E q \in Queue : inFlight[q] > 0

\* On a clean stop nothing loses its connections while it works, and no message is taken
\* once the consumers drained, unless a wait reached its bound, a step failed, or the
\* stop met a start: of the process, or of a consumer whose consume was not answered yet.
NothingCut ==
    (first = 0 /\ Working
        /\ past \cap {"timer", "failure", "late start", "consume pending"} = {}) =>
        /\ boot = "up" => {"db", "redis", "rabbit"} \subseteq open
        /\ exited # Running => past \cap {"deadline", "no redis"} # {}
=============================================================================
