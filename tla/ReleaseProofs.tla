---------------------------- MODULE ReleaseProofs ----------------------------
(***************************************************************************)
(* That a process which exits with 0 has stopped in order, that its        *)
(* deadline cuts nothing off but what is itself slow, and that a clean     *)
(* stop takes no connection from work under way, for any number of queues, *)
(* requests, tasks, messages and losses, and whatever CI does before it.   *)
(* Then, that the schema a process is started on has what its models name, *)
(* whatever was migrated, undone, cut off, repaired or written before.     *)
(***************************************************************************)
EXTENDS Release, WellFoundedInduction, TLAPS

Running == Process!Running
Stopping == Process!Stopping

-----------------------------------------------------------------------------
(* The steps of a shutdown.  What is left of them is a suffix of the list   *)
(* it began with, or the flush.                                            *)

WorkerPlans ==
    {<<"consumers", "publisher", "rabbit", "redis", "db", "flush">>,
     <<"publisher", "rabbit", "redis", "db", "flush">>,
     <<"rabbit", "redis", "db", "flush">>, <<"redis", "db", "flush">>,
     <<"db", "flush">>, <<"flush">>}

ServerPlans ==
    {<<"http", "tasks", "db", "redis", "rabbit", "flush">>,
     <<"http", "db", "redis", "rabbit", "flush">>,
     <<"tasks", "db", "redis", "rabbit", "flush">>,
     <<"db", "redis", "rabbit", "flush">>, <<"redis", "rabbit", "flush">>,
     <<"rabbit", "flush">>, <<"flush">>}

Plans(k) == IF k = "worker" THEN WorkerPlans ELSE ServerPlans

Ahead(plan) == {plan[i] : i \in DOMAIN plan}

Connections == {"db", "redis", "rabbit"}

-----------------------------------------------------------------------------
(* The inductive invariant: the control of the process.                    *)

ControlType ==
    /\ kind \in {"none", "server", "worker"} /\ boot \in {"starting", "up", "failed"}
    /\ code \in {0, 1} /\ first \in {Running, 0, 1} /\ exited \in {Running, 0, 1}
    /\ since \in Nat /\ clock \in Nat
    /\ open \subseteq Connections

\* Before the deploy there is nothing to stop.
Undeployed == kind = "none" => boot = "starting" /\ ~Stopping /\ exited = Running

\* Before the first signal nothing has been stopped, or went wrong in stopping.
Unstopped ==
    ~Stopping =>
        /\ todo = <<>> /\ code = 0 /\ exited # 0
        /\ past \subseteq {"not started", "no redis"}

Planned == Stopping => todo \in Plans(kind)

\* A code of 0 has nothing to tell.
Coded == code = 0 => past \cap {"crash", "failure", "deadline"} = {}

\* Why the process has exited.
Exited ==
    /\ exited = 0 => code = 0 /\ todo = <<"flush">>
    /\ exited # Running =>
         \/ past \cap {"deadline", "no redis"} # {}
         \/ todo = <<"flush">>
         \/ boot = "failed"

\* What is open will be closed, and what will be closed is open.
Remaining ==
    Stopping /\ past \cap {"late start", "failure"} = {} => open \subseteq Ahead(todo)

Opened ==
    /\ kind # "none" => \A c \in {"db", "redis"} : ~Stopping \/ c \in Ahead(todo) => c \in open
    /\ boot = "up" /\ (~Stopping \/ "rabbit" \in Ahead(todo)) => "rabbit" \in open

\* The time the waits have taken, while nothing was slow.
Timed ==
    "slow" \notin past =>
        /\ clock <= 4
        /\ Stopping =>
             /\ Head(todo) \in {"http", "consumers"} => since = 0
             /\ Head(todo) = "http" => clock <= 1
             /\ Head(todo) = "tasks" => since <= 1 /\ clock <= since + 2

Control ==
    /\ ControlType /\ Undeployed /\ Unstopped /\ Planned /\ Coded /\ Exited
    /\ Remaining /\ Opened /\ Timed /\ WaitsFit

-----------------------------------------------------------------------------
(* The inductive invariant: the work of the process.                       *)

WorkType ==
    /\ requests \in Nat /\ tasks \in Nat /\ loose \in Nat
    /\ sub \in [Queue -> {"none", "consuming", "on", "cancelling"}]
    /\ stage \in [Queue -> {"open", "cancel", "drain", "channel", "closed"}]
    /\ inFlight \in [Queue -> Nat]

\* A process works after its start, and does its own kind of work.
Worked ==
    /\ boot # "up" \/ kind # "server" => requests = 0 /\ tasks = 0 /\ loose = 0
    /\ boot # "up" \/ kind # "worker" =>
           \A q \in Queue : sub[q] = "none" /\ inFlight[q] = 0
    /\ ~Stopping => \A q \in Queue : stage[q] = "open"

\* A consumer that is closed in order takes no message once it drains.
ClosedInOrder(q) ==
    /\ stage[q] = "open" => sub[q] # "cancelling"
    /\ stage[q] = "cancel" => sub[q] \in {"on", "none"}
    /\ stage[q] \in {"drain", "channel", "closed"} => sub[q] = "none"
    /\ stage[q] \in {"channel", "closed"} => inFlight[q] = 0

\* A stop in order: no wait reached its bound, no step failed, no start met it.
Calm == first = 0 /\ past \cap {"timer", "failure", "late start", "consume pending"} = {}

\* The work a step waits for is over once that step is.
AsPlanned ==
    /\ "http" \in Ahead(todo) => "tasks" \in Ahead(todo)
    /\ "http" \notin Ahead(todo) => requests = 0
    /\ Ahead(todo) \cap {"http", "tasks"} = {} => tasks = 0
    /\ "consumers" \notin Ahead(todo) /\ kind = "worker" /\ boot = "up" =>
           \A q \in Queue : stage[q] = "closed"

DoneInOrder ==
    /\ "timer" \notin past => loose = 0
    /\ past \cap {"timer", "consume pending"} = {} => \A q \in Queue : ClosedInOrder(q)
    /\ Calm => AsPlanned

Work == WorkType /\ Worked /\ DoneInOrder

Inv == Control /\ Work

-----------------------------------------------------------------------------
(* The plans.                                                              *)

\* What a plan's next step leaves, and in which order the steps come.
PlanOK(plan, plans) ==
    /\ plan # <<>> /\ "flush" \in Ahead(plan) /\ Head(plan) \in Ahead(plan)
    /\ Head(plan) = "flush" => plan = <<"flush">> /\ Ahead(plan) = {"flush"}
    /\ Head(plan) # "flush" =>
         Tail(plan) \in plans /\ Ahead(Tail(plan)) = Ahead(plan) \ {Head(plan)}
    /\ \A s \in {"http", "consumers"} : s \in Ahead(plan) => Head(plan) = s
    /\ "tasks" \in Ahead(plan) => Head(plan) \in {"http", "tasks"}
    /\ Ahead(plan) \cap {"http", "tasks", "consumers"} # {} => Connections \subseteq Ahead(plan)

LEMMA AheadOf ==
    /\ \A a : Ahead(<<a>>) = {a}
    /\ \A a, b : Ahead(<<a, b>>) = {a, b}
    /\ \A a, b, c : Ahead(<<a, b, c>>) = {a, b, c}
    /\ \A a, b, c, d : Ahead(<<a, b, c, d>>) = {a, b, c, d}
    /\ \A a, b, c, d, e : Ahead(<<a, b, c, d, e>>) = {a, b, c, d, e}
    /\ \A a, b, c, d, e, f : Ahead(<<a, b, c, d, e, f>>) = {a, b, c, d, e, f}
BY DEF Ahead

LEMMA WorkerPlansOK ==
    \A plan \in WorkerPlans :
        PlanOK(plan, WorkerPlans) /\ Ahead(plan) \cap {"http", "tasks"} = {}
<1> SUFFICES ASSUME NEW plan \in WorkerPlans
             PROVE  PlanOK(plan, WorkerPlans) /\ Ahead(plan) \cap {"http", "tasks"} = {}
  OBVIOUS
<1>1. CASE plan = <<"consumers", "publisher", "rabbit", "redis", "db", "flush">>
  <2>1. Head(plan) = "consumers" /\ Tail(plan) = <<"publisher", "rabbit", "redis", "db", "flush">>
    BY <1>1
  <2> QED
    BY <1>1, <2>1, AheadOf DEF PlanOK, WorkerPlans, Connections
<1>2. CASE plan = <<"publisher", "rabbit", "redis", "db", "flush">>
  <2>1. Head(plan) = "publisher" /\ Tail(plan) = <<"rabbit", "redis", "db", "flush">>
    BY <1>2
  <2> QED
    BY <1>2, <2>1, AheadOf DEF PlanOK, WorkerPlans, Connections
<1>3. CASE plan = <<"rabbit", "redis", "db", "flush">>
  <2>1. Head(plan) = "rabbit" /\ Tail(plan) = <<"redis", "db", "flush">>
    BY <1>3
  <2> QED
    BY <1>3, <2>1, AheadOf DEF PlanOK, WorkerPlans, Connections
<1>4. CASE plan = <<"redis", "db", "flush">>
  <2>1. Head(plan) = "redis" /\ Tail(plan) = <<"db", "flush">>
    BY <1>4
  <2> QED
    BY <1>4, <2>1, AheadOf DEF PlanOK, WorkerPlans, Connections
<1>5. CASE plan = <<"db", "flush">>
  <2>1. Head(plan) = "db" /\ Tail(plan) = <<"flush">>
    BY <1>5
  <2> QED
    BY <1>5, <2>1, AheadOf DEF PlanOK, WorkerPlans, Connections
<1>6. CASE plan = <<"flush">>
  <2>1. Head(plan) = "flush"
    BY <1>6
  <2> QED
    BY <1>6, <2>1, AheadOf DEF PlanOK, WorkerPlans, Connections
<1> QED
  BY <1>1, <1>2, <1>3, <1>4, <1>5, <1>6 DEF WorkerPlans

LEMMA ServerPlansOK ==
    \A plan \in ServerPlans : PlanOK(plan, ServerPlans) /\ "consumers" \notin Ahead(plan)
<1> SUFFICES ASSUME NEW plan \in ServerPlans
             PROVE  PlanOK(plan, ServerPlans) /\ "consumers" \notin Ahead(plan)
  OBVIOUS
<1>1. CASE plan = <<"http", "tasks", "db", "redis", "rabbit", "flush">>
  <2>1. Head(plan) = "http" /\ Tail(plan) = <<"tasks", "db", "redis", "rabbit", "flush">>
    BY <1>1
  <2> QED
    BY <1>1, <2>1, AheadOf DEF PlanOK, ServerPlans, Connections
<1>2. CASE plan = <<"http", "db", "redis", "rabbit", "flush">>
  <2>1. Head(plan) = "http" /\ Tail(plan) = <<"db", "redis", "rabbit", "flush">>
    BY <1>2
  <2> QED
    BY <1>2, <2>1, AheadOf DEF PlanOK, ServerPlans, Connections
<1>3. CASE plan = <<"tasks", "db", "redis", "rabbit", "flush">>
  <2>1. Head(plan) = "tasks" /\ Tail(plan) = <<"db", "redis", "rabbit", "flush">>
    BY <1>3
  <2> QED
    BY <1>3, <2>1, AheadOf DEF PlanOK, ServerPlans, Connections
<1>4. CASE plan = <<"db", "redis", "rabbit", "flush">>
  <2>1. Head(plan) = "db" /\ Tail(plan) = <<"redis", "rabbit", "flush">>
    BY <1>4
  <2> QED
    BY <1>4, <2>1, AheadOf DEF PlanOK, ServerPlans, Connections
<1>5. CASE plan = <<"redis", "rabbit", "flush">>
  <2>1. Head(plan) = "redis" /\ Tail(plan) = <<"rabbit", "flush">>
    BY <1>5
  <2> QED
    BY <1>5, <2>1, AheadOf DEF PlanOK, ServerPlans, Connections
<1>6. CASE plan = <<"rabbit", "flush">>
  <2>1. Head(plan) = "rabbit" /\ Tail(plan) = <<"flush">>
    BY <1>6
  <2> QED
    BY <1>6, <2>1, AheadOf DEF PlanOK, ServerPlans, Connections
<1>7. CASE plan = <<"flush">>
  <2>1. Head(plan) = "flush"
    BY <1>7
  <2> QED
    BY <1>7, <2>1, AheadOf DEF PlanOK, ServerPlans, Connections
<1> QED
  BY <1>1, <1>2, <1>3, <1>4, <1>5, <1>6, <1>7 DEF ServerPlans

LEMMA PlansOK ==
    /\ \A plan \in Plans(kind) : PlanOK(plan, Plans(kind))
    /\ kind = "worker" =>
           \A plan \in Plans(kind) : "http" \notin Ahead(plan) /\ "tasks" \notin Ahead(plan)
    /\ kind # "worker" => \A plan \in Plans(kind) : "consumers" \notin Ahead(plan)
    /\ <<"flush">> \in Plans(kind) /\ Ahead(<<"flush">>) = {"flush"}
    /\ Head(<<"flush">>) = "flush"
BY WorkerPlansOK, ServerPlansOK, AheadOf DEF Plans, WorkerPlans, ServerPlans

\* The list a shutdown begins with.
LEMMA FirstPlan ==
    ASSUME NEW plan, plan = Process!Steps
    PROVE  /\ plan \in Plans(kind) /\ Connections \subseteq Ahead(plan)
           /\ kind = "worker" => Head(plan) = "consumers" /\ "consumers" \in Ahead(plan)
           /\ kind # "worker" =>
                /\ "http" \in Ahead(plan) <=> Process!Listening
                /\ "tasks" \in Ahead(plan) <=> code' = 0
<1>1. CASE kind = "worker"
  <2>1. plan = <<"consumers", "publisher", "rabbit", "redis", "db", "flush">>
    BY <1>1 DEF Process!Steps
  <2>2. Head(plan) = "consumers"
    BY <2>1
  <2> QED
    BY <1>1, <2>1, <2>2, AheadOf DEF Plans, WorkerPlans, Connections
<1>2. CASE kind # "worker" /\ Process!Listening /\ code' = 0
  <2>1. plan = <<"http", "tasks", "db", "redis", "rabbit", "flush">>
    BY <1>2 DEF Process!Steps
  <2> QED
    BY <1>2, <2>1, AheadOf DEF Plans, ServerPlans, Connections
<1>3. CASE kind # "worker" /\ Process!Listening /\ code' # 0
  <2>1. plan = <<"http", "db", "redis", "rabbit", "flush">>
    BY <1>3 DEF Process!Steps
  <2> QED
    BY <1>3, <2>1, AheadOf DEF Plans, ServerPlans, Connections
<1>4. CASE kind # "worker" /\ ~Process!Listening /\ code' = 0
  <2>1. plan = <<"tasks", "db", "redis", "rabbit", "flush">>
    BY <1>4 DEF Process!Steps
  <2> QED
    BY <1>4, <2>1, AheadOf DEF Plans, ServerPlans, Connections
<1>5. CASE kind # "worker" /\ ~Process!Listening /\ code' # 0
  <2>1. plan = <<"db", "redis", "rabbit", "flush">>
    BY <1>5 DEF Process!Steps
  <2> QED
    BY <1>5, <2>1, AheadOf DEF Plans, ServerPlans, Connections
<1> QED
  BY <1>1, <1>2, <1>3, <1>4, <1>5

-----------------------------------------------------------------------------
(* The control of the process, action by action.                           *)

LEMMA Numbers == 0 # -1 /\ 1 # 0 /\ ~(0 > 0) /\ ~(0 + 0 + 0 > 0)
OBVIOUS

\* Nothing of a shutdown has begun before the first signal.
LEMMA Begun == Control /\ todo # <<>> => Stopping /\ todo \in Plans(kind) /\ PlanOK(todo, Plans(kind))
BY PlansOK DEF Control, Unstopped, Planned

\* What only does work, or waits for it, leaves the control alone.
LEMMA ControlQuiet ==
    ASSUME Control,
           UNCHANGED <<kind, boot, code, first, todo, since, clock, exited, open>>,
           past' \in {past, past \cup {"timer"}, past \cup {"consume pending"}},
           past' = past \/ Stopping
    PROVE  Control'
<1>1. /\ UNCHANGED <<Stopping, Running, Plans(kind), Ahead(todo)>>
      /\ \A s \in {"crash", "failure", "deadline", "slow", "late start", "no redis"} :
             s \in past' <=> s \in past
  BY DEF Stopping, Running, Process!Stopping, Process!Running, Plans, Ahead
<1>2. ControlType' /\ Undeployed' /\ Planned' /\ Timed' /\ Opened'
  BY <1>1 DEF Control, ControlType, Undeployed, Planned, Timed, Opened
<1>3. Unstopped'
  BY <1>1 DEF Control, Unstopped
<1>4. Coded' /\ Exited' /\ Remaining' /\ WaitsFit'
  BY <1>1 DEF Control, Coded, Exited, Remaining, WaitsFit, Process!WaitsFit
<1> QED
  BY <1>2, <1>3, <1>4 DEF Control

\* A step of the shutdown ends, and the next one begins.
LEMMA ControlStepEnds ==
    ASSUME Control, todo # <<>>, Head(todo) # "flush", exited = Running,
           todo' = Tail(todo), since' = clock,
           UNCHANGED <<kind, boot, code, first, clock, exited>>,
           open' = open \ {Head(todo)},
           past' \in {past, past \cup {"timer"}}
    PROVE  /\ Control'
           /\ todo' \in Plans(kind)
           /\ Ahead(todo') = Ahead(todo) \ {Head(todo)}
<1>1. /\ UNCHANGED <<Stopping, Running, Plans(kind)>>
      /\ \A s \in {"crash", "failure", "deadline", "slow", "late start", "no redis"} :
             s \in past' <=> s \in past
  BY DEF Stopping, Running, Process!Stopping, Process!Running, Plans
<1>2. Stopping /\ todo \in Plans(kind) /\ PlanOK(todo, Plans(kind))
  BY Begun
<1>3. todo' \in Plans(kind) /\ Ahead(todo)' = Ahead(todo) \ {Head(todo)}
  BY <1>2 DEF PlanOK, Ahead
<1>4. PlanOK(todo', Plans(kind))
  BY <1>3, PlansOK
<1>5. ControlType' /\ Undeployed' /\ Unstopped' /\ Planned'
  BY <1>1, <1>2, <1>3 DEF Control, ControlType, Undeployed, Unstopped, Planned
<1>6. Coded' /\ WaitsFit'
  BY <1>1 DEF Control, Coded, WaitsFit, Process!WaitsFit
<1>7. Exited'
  BY DEF Exited, Running, Process!Running
<1>8. Remaining'
  BY <1>1, <1>2, <1>3 DEF Control, Remaining
<1>9. Opened'
  BY <1>1, <1>2, <1>3 DEF Control, Opened
<1>10. Timed'
  <2>1. Head(todo') \in Ahead(todo')
    BY <1>4 DEF PlanOK
  <2>2. Head(todo') \in Ahead(todo) /\ Head(todo') # Head(todo)
    BY <2>1, <1>3 DEF Ahead
  <2>3. Head(todo') \notin {"http", "consumers"}
    BY <2>2, <1>2 DEF PlanOK
  <2>4. Head(todo') = "tasks" => Head(todo) = "http"
    BY <2>2, <1>2 DEF PlanOK
  <2>5. since \in Nat /\ clock \in Nat /\ Timed /\ Stopping
    BY <1>2 DEF Control, ControlType
  <2>6. "slow" \notin past' => clock <= 4 /\ (Head(todo) = "http" => clock <= 1)
    BY <1>1, <2>5 DEF Timed
  <2>7. clock <= clock + 2 /\ since' = clock /\ clock' = clock
    BY <2>5
  <2> QED
    BY <2>3, <2>4, <2>6, <2>7 DEF Timed
<1>11. Ahead(todo') = Ahead(todo)'
  BY DEF Ahead
<1> QED
  BY <1>3, <1>5, <1>6, <1>7, <1>8, <1>9, <1>10, <1>11 DEF Control

\* A start, a stop, an exit: the rest of what changes the control.
LEMMA ControlOther ==
    ASSUME Control,
           \/ \E k \in {"server", "worker"} : Process!Deploy(k)
           \/ Process!Starts \/ Process!StartFails \/ Process!ExitsUnstarted
           \/ Process!RedisGivesUp
           \/ \E c \in {0, 1} : Process!Shutdown(c)
           \/ \E c \in {"consumers", "publisher", "db"} : Process!CloseFails(c)
           \/ Process!Exit \/ Process!ExitAtDeadline
    PROVE  Control'
<1>0. 1 # 0
  OBVIOUS
<1> USE DEF Control
<1>1. ASSUME NEW k \in {"server", "worker"}, Process!Deploy(k)  PROVE Control'
  <2>1. ~Stopping /\ exited = Running /\ boot = "starting" /\ todo = <<>>
    BY <1>1 DEF Process!Deploy, Undeployed, Unstopped
  <2>2. UNCHANGED <<boot, code, first, todo, since, clock, exited, past>> /\ kind' = k
        /\ open' = {"db", "redis"}
    BY <1>1 DEF Process!Deploy, Process!shutting, Process!server, Process!worker
  <2>3. ~Stopping'
    BY <2>1, <2>2 DEF Stopping, Process!Stopping, Process!Running
  <2>4. ControlType' /\ Undeployed' /\ Unstopped' /\ Planned' /\ Remaining' /\ Opened'
    BY <2>1, <2>2, <2>3 DEF ControlType, Undeployed, Unstopped, Planned, Remaining, Opened,
       Connections
  <2>5. Coded' /\ Exited' /\ Timed' /\ WaitsFit'
    BY <2>1, <2>2, <2>3 DEF Coded, Exited, Timed, WaitsFit, Process!WaitsFit
  <2> QED
    BY <2>4, <2>5
<1>2. CASE Process!Starts
  <2>1. /\ UNCHANGED <<kind, code, first, todo, since, clock, exited>>
        /\ boot' = "up" /\ open' = open \cup {"rabbit"}
        /\ past' = IF Stopping THEN past \cup {"late start"} ELSE past
        /\ kind # "none" /\ exited = Running
    BY <1>2 DEF Process!Starts, Process!shutting, Process!Alive, Stopping, Running
  <2>2. UNCHANGED <<Stopping, Ahead(todo), Plans(kind)>>
    BY <2>1 DEF Stopping, Process!Stopping, Process!Running, Ahead, Plans
  <2>3. \A s \in {"crash", "failure", "deadline", "slow", "no redis"} : s \in past' <=> s \in past
    BY <2>1
  <2>4. ControlType' /\ Undeployed' /\ Unstopped' /\ Planned'
    BY <2>1, <2>2 DEF ControlType, Undeployed, Unstopped, Planned, Connections
  <2>5. Coded' /\ Timed' /\ WaitsFit'
    BY <2>1, <2>2, <2>3 DEF Coded, Timed, WaitsFit, Process!WaitsFit
  <2>6. Exited'
    BY <2>1 DEF Exited, Running, Process!Running
  <2>7. Remaining' /\ Opened'
    BY <2>1, <2>2 DEF Remaining, Opened
  <2> QED
    BY <2>4, <2>5, <2>6, <2>7
<1>3. CASE Process!StartFails
  <2>1. /\ UNCHANGED <<kind, code, first, todo, since, clock, exited, open, past>>
        /\ boot' = "failed" /\ kind # "none" /\ exited = Running
    BY <1>3 DEF Process!StartFails, Process!shutting, Process!Alive, Running
  <2>2. UNCHANGED <<Stopping, Ahead(todo), Plans(kind)>>
    BY <2>1 DEF Stopping, Process!Stopping, Process!Running, Ahead, Plans
  <2>4. ControlType' /\ Undeployed' /\ Unstopped' /\ Planned' /\ Remaining' /\ Opened'
    BY <2>1, <2>2 DEF ControlType, Undeployed, Unstopped, Planned, Remaining, Opened
  <2>5. Coded' /\ Timed' /\ WaitsFit'
    BY <2>1, <2>2 DEF Coded, Timed, WaitsFit, Process!WaitsFit
  <2>6. Exited'
    BY <2>1 DEF Exited, Running, Process!Running
  <2> QED
    BY <2>4, <2>5, <2>6
<1>4. CASE Process!ExitsUnstarted \/ Process!RedisGivesUp
  <2>1. /\ UNCHANGED <<kind, boot, code, first, todo, since, clock, open>>
        /\ exited' = 1 /\ kind # "none"
        /\ past' \in {past \cup {"not started"}, past \cup {"no redis"}}
        /\ boot = "failed" \/ "no redis" \in past'
    BY <1>4 DEF Process!ExitsUnstarted, Process!RedisGivesUp, Process!shutting, Process!Alive
  <2>2. UNCHANGED <<Stopping, Ahead(todo), Plans(kind)>>
    BY <2>1 DEF Stopping, Process!Stopping, Process!Running, Ahead, Plans
  <2>3. \A s \in {"crash", "failure", "deadline", "slow", "late start"} : s \in past' <=> s \in past
    BY <2>1
  <2>4. ControlType' /\ Undeployed' /\ Planned' /\ Remaining' /\ Opened'
    BY <2>1, <2>2, <2>3 DEF ControlType, Undeployed, Planned, Remaining, Opened
  <2>7. Unstopped'
    <3>1. exited' # 0 /\ (~Stopping' => ~Stopping)
      BY <2>1, <2>2, <1>0
    <3>2. past \subseteq {"not started", "no redis"} => past' \subseteq {"not started", "no redis"}
      BY <2>1
    <3> QED
      BY <2>1, <3>1, <3>2 DEF Unstopped
  <2>5. Coded' /\ Timed' /\ WaitsFit'
    BY <2>1, <2>2, <2>3 DEF Coded, Timed, WaitsFit, Process!WaitsFit
  <2>6. Exited'
    <3>1. boot' = "failed" \/ past' \cap {"deadline", "no redis"} # {}
      BY <2>1
    <3>2. exited' # 0
      BY <2>1, <1>0
    <3> QED
      BY <3>1, <3>2 DEF Exited
  <2> QED
    BY <2>4, <2>5, <2>6, <2>7
<1>5. ASSUME NEW c \in {0, 1}, Process!Shutdown(c)  PROVE Control'
  <2>1. /\ UNCHANGED <<kind, boot, exited, open>> /\ kind # "none" /\ exited = Running
        /\ code' = IF code = 0 THEN c ELSE code
        /\ past' = IF c = 1 THEN past \cup {"crash"} ELSE past
    BY <1>5 DEF Process!Shutdown, Process!Alive, Running
  <2>2. code' \in {0, 1} /\ Coded'
    BY <2>1 DEF Coded, ControlType
  <2>3. Exited' /\ WaitsFit'
    BY <2>1 DEF Exited, WaitsFit, Process!WaitsFit, Running, Process!Running
  <2>4. \A s \in {"failure", "deadline", "slow", "late start"} : s \in past' <=> s \in past
    BY <2>1
  <2>5. CASE Stopping
    <3>1. UNCHANGED <<first, todo, since, clock>>
      BY <1>5, <2>5 DEF Process!Shutdown, Stopping
    <3>2. UNCHANGED <<Stopping, Ahead(todo), Plans(kind)>>
      BY <2>1, <3>1 DEF Stopping, Process!Stopping, Process!Running, Ahead, Plans
    <3>3. ControlType' /\ Undeployed' /\ Unstopped' /\ Planned'
      BY <2>1, <2>2, <2>5, <3>1, <3>2 DEF ControlType, Undeployed, Unstopped, Planned
    <3>4. Remaining' /\ Opened' /\ Timed'
      BY <2>1, <2>4, <2>5, <3>1, <3>2 DEF Remaining, Opened, Timed
    <3> QED
      BY <2>2, <2>3, <3>3, <3>4
  <2>6. CASE ~Stopping
    <3>1. first' = code' /\ todo' = Process!Steps /\ since' = 0 /\ clock' = 0
      BY <1>5, <2>6 DEF Process!Shutdown, Stopping
    <3>2. Stopping' /\ UNCHANGED Plans(kind) /\ Ahead(todo)' = Ahead(todo')
      BY <2>1, <2>2, <3>1 DEF Stopping, Process!Stopping, Process!Running, Plans, Ahead
    <3>3. todo' \in Plans(kind) /\ Connections \subseteq Ahead(todo')
      BY <3>1, FirstPlan
    <3>4. ControlType' /\ Undeployed' /\ Unstopped' /\ Planned'
      BY <2>1, <2>2, <3>1, <3>2, <3>3 DEF ControlType, Undeployed, Unstopped, Planned
    <3>5. Remaining'
      BY <2>1, <3>2, <3>3 DEF Remaining, ControlType
    <3>7. Timed'
      BY <3>1 DEF Timed
    <3>6. Opened'
      BY <2>1, <2>6 DEF Opened
    <3> QED
      BY <2>2, <2>3, <3>4, <3>5, <3>6, <3>7
  <2> QED
    BY <2>5, <2>6
<1>6. ASSUME NEW c \in {"consumers", "publisher", "db"}, Process!CloseFails(c)  PROVE Control'
  <2>1. /\ UNCHANGED <<kind, boot, first, clock, exited, open>>
        /\ kind # "none" /\ exited = Running /\ todo # <<>>
        /\ code' = IF code = 0 THEN 1 ELSE code
        /\ todo' = <<"flush">> /\ since' = clock
        /\ past' = past \cup {"failure"}
    BY <1>6 DEF Process!CloseFails, Process!At, Process!Alive, Running
  <2>2. Stopping /\ UNCHANGED <<Stopping, Plans(kind)>>
    BY <2>1, Begun DEF Stopping, Process!Stopping, Process!Running, Plans
  <2>3. Ahead(todo)' = {"flush"} /\ todo' \in Plans(kind) /\ Head(todo') = "flush"
    BY <2>1, PlansOK, AheadOf DEF Ahead
  <2>4. code' \in {0, 1} /\ code' # 0
    BY <2>1 DEF ControlType
  <2>5. ControlType' /\ Undeployed' /\ Unstopped' /\ Planned' /\ Coded'
    BY <2>1, <2>2, <2>3, <2>4 DEF ControlType, Undeployed, Unstopped, Planned, Coded
  <2>6. Exited' /\ WaitsFit'
    BY <2>1 DEF Exited, WaitsFit, Process!WaitsFit, Running, Process!Running
  <2>7. Remaining' /\ Opened'
    BY <2>1, <2>2, <2>3 DEF Remaining, Opened
  <2>8. Timed'
    BY <2>1, <2>3 DEF Timed
  <2> QED
    BY <2>5, <2>6, <2>7, <2>8
<1>7. CASE Process!Exit
  <2>1. /\ UNCHANGED <<kind, boot, code, first, todo, since, clock, open, past>>
        /\ kind # "none" /\ todo # <<>> /\ Head(todo) = "flush" /\ exited' = code
    BY <1>7 DEF Process!Exit, Process!At, Process!Alive, Process!shutting
  <2>2. Stopping /\ todo = <<"flush">>
    BY <2>1, Begun DEF PlanOK
  <2>3. UNCHANGED <<Stopping, Ahead(todo), Plans(kind)>>
    BY <2>1 DEF Stopping, Process!Stopping, Process!Running, Ahead, Plans
  <2>4. ControlType' /\ Undeployed' /\ Unstopped' /\ Planned' /\ Remaining' /\ Opened'
    BY <2>1, <2>2, <2>3 DEF ControlType, Undeployed, Unstopped, Planned, Remaining, Opened
  <2>5. Coded' /\ Exited' /\ Timed' /\ WaitsFit'
    BY <2>1, <2>2, <2>3 DEF Coded, Exited, Timed, WaitsFit, Process!WaitsFit
  <2> QED
    BY <2>4, <2>5
<1>8. CASE Process!ExitAtDeadline
  <2>1. /\ UNCHANGED <<kind, boot, first, todo, since, clock, open>>
        /\ kind # "none" /\ Stopping /\ clock = 5
        /\ code' = IF code = 0 THEN 1 ELSE code
        /\ exited' = code' /\ past' = past \cup {"deadline"}
    BY <1>8 DEF Process!ExitAtDeadline, Process!Alive, Process!Deadline, Stopping
  <2>2. code' \in {0, 1} /\ code' # 0
    BY <2>1 DEF ControlType
  <2>3. UNCHANGED <<Stopping, Ahead(todo), Plans(kind)>>
    BY <2>1 DEF Stopping, Process!Stopping, Process!Running, Ahead, Plans
  <2>4. ControlType' /\ Undeployed' /\ Unstopped' /\ Planned' /\ Remaining' /\ Opened'
    BY <2>1, <2>2, <2>3 DEF ControlType, Undeployed, Unstopped, Planned, Remaining, Opened
  <2>5. Coded' /\ Exited' /\ Timed'
    BY <2>1, <2>2, <2>3 DEF Coded, Exited, Timed
  <2>6. WaitsFit'
    BY <2>1 DEF Timed, WaitsFit, Process!WaitsFit
  <2> QED
    BY <2>4, <2>5, <2>6
<1> QED
  BY <1>1, <1>2, <1>3, <1>4, <1>5, <1>6, <1>7, <1>8

\* Time passes only beside a wait that its bound has not ended, or a close that is slow.
LEMMA ControlTick ==
    ASSUME Control, WorkType, Process!Tick
    PROVE  Control'
<1>1. /\ UNCHANGED <<kind, boot, code, first, todo, since, exited, open>>
      /\ kind # "none" /\ exited = Running /\ Stopping /\ clock' = clock + 1
      /\ past' = IF Process!SlowStep THEN past \cup {"slow"} ELSE past
      /\ ~Process!Due /\ Process!Alive
  BY DEF Process!Tick, Process!Alive, Running, Stopping
<1>2. todo \in Plans(kind) /\ PlanOK(todo, Plans(kind))
  BY <1>1, PlansOK DEF Control, Planned
<1>3. UNCHANGED <<Stopping, Ahead(todo), Plans(kind)>>
  BY <1>1 DEF Stopping, Process!Stopping, Process!Running, Ahead, Plans
<1>4. \A s \in {"crash", "failure", "deadline", "late start", "no redis"} : s \in past' <=> s \in past
  BY <1>1
<1>5. since \in Nat /\ clock \in Nat /\ clock' \in Nat
  BY <1>1 DEF Control, ControlType
<1>6. ControlType' /\ Undeployed' /\ Unstopped' /\ Planned' /\ Remaining' /\ Opened'
  BY <1>1, <1>3, <1>4, <1>5 DEF Control, ControlType, Undeployed, Unstopped, Planned, Remaining,
     Opened
<1>7. Coded' /\ WaitsFit'
  BY <1>1, <1>4 DEF Control, Coded, WaitsFit, Process!WaitsFit
<1>8. Exited'
  BY <1>1 DEF Exited, Running, Process!Running
<1>9. Timed'
  <2> SUFFICES ASSUME "slow" \notin past'
               PROVE  /\ clock' <= 4
                      /\ Head(todo) \in {"http", "consumers"} => since = 0
                      /\ Head(todo) = "http" => clock' <= 1
                      /\ Head(todo) = "tasks" => since <= 1 /\ clock' <= since + 2
    BY <1>1 DEF Timed
  <2>1. ~Process!SlowStep /\ "slow" \notin past
    BY <1>1
  <2>2. /\ clock <= 4
        /\ Head(todo) \in {"http", "consumers"} => since = 0
        /\ Head(todo) = "http" => clock <= 1
        /\ Head(todo) = "tasks" => since <= 1 /\ clock <= since + 2
    BY <1>1, <2>1 DEF Control, Timed
  <2>3. Head(todo) \in {"http", "tasks", "consumers"}
    <3>1. Head(todo) \notin {"publisher", "rabbit", "redis", "db", "flush"}
      BY <2>1 DEF Process!SlowStep, Process!Closing
    <3>2. Head(todo) \in Ahead(todo)
      BY <1>2 DEF PlanOK
    <3>3. Ahead(todo) \subseteq
             {"consumers", "publisher", "http", "tasks", "db", "redis", "rabbit", "flush"}
      BY <1>2, AheadOf DEF Plans, WorkerPlans, ServerPlans
    <3> QED
      BY <3>1, <3>2, <3>3
  <2>4. todo # <<>>
    BY <1>2 DEF PlanOK
  <2>5. CASE Head(todo) = "http"
    <3>1. ~Process!Waited(1)
      BY <1>1, <2>4, <2>5 DEF Process!Due, Process!At, Process!HttpClose
    <3>2. clock = 0
      BY <3>1, <2>2, <2>5, <1>5 DEF Process!Waited
    <3> QED
      BY <3>2, <2>2, <2>5, <1>1
  <2>6. CASE Head(todo) = "tasks"
    <3>1. ~Process!Waited(2)
      BY <1>1, <2>4, <2>6 DEF Process!Due, Process!At, Process!TaskDrain
    <3> QED
      BY <3>1, <2>2, <2>6, <1>1, <1>5 DEF Process!Waited
  <2>7. CASE Head(todo) = "consumers"
    <3>1. Process!At("consumers") /\ Process!Started
      BY <1>1, <2>4, <2>7 DEF Process!Due, Process!At, Process!ConsumersDone
    <3>2. PICK q \in Queue : stage[q] # "closed"
      BY <1>1, <3>1 DEF Process!Due, Process!ConsumersDone
    <3>3. stage[q] \notin {"cancel", "channel"}
      BY <2>1, <3>1 DEF Process!SlowStep
    <3>4. stage[q] # "open"
      BY <1>1, <3>1 DEF Process!Due
    <3>5. stage[q] = "drain"
      BY <3>2, <3>3, <3>4 DEF WorkType
    <3>6. ~Process!Waited(Process!DrainFor)
      BY <1>1, <3>1, <3>5 DEF Process!Due
    <3>7. Process!DrainFor \in {0, 4}
      BY DEF Process!DrainFor, Process!MessageDrain
    <3> QED
      BY <3>6, <3>7, <2>2, <2>7, <1>1, <1>5 DEF Process!Waited
  <2> QED
    BY <2>3, <2>5, <2>6, <2>7
<1> QED
  BY <1>6, <1>7, <1>8, <1>9 DEF Control

LEMMA ControlNext ==
    ASSUME Inv, Process!Next
    PROVE  Control'
<1> USE DEF Inv
<1>1. ASSUME \/ Process!Accept \/ Process!Answer \/ Process!TaskEnds \/ Process!Reconnect
             \/ \E q \in Queue :
                    \/ Process!Setup(q) \/ Process!ConsumeOk(q) \/ Process!LateCancelOk(q)
                    \/ Process!Deliver(q) \/ Process!Settle(q) \/ Process!CancelOk(q)
                    \/ Process!ChannelCloses(q)
      PROVE  Control'
  <2>1. UNCHANGED <<kind, boot, code, first, todo, since, clock, exited, open, past>>
    BY <1>1 DEF Process!Accept, Process!Answer, Process!TaskEnds, Process!Reconnect,
       Process!Setup, Process!ConsumeOk, Process!LateCancelOk, Process!Deliver, Process!Settle,
       Process!CancelOk, Process!ChannelCloses, Process!shutting
  <2> QED
    BY <2>1, ControlQuiet
<1>2. ASSUME NEW q \in Queue, Process!Cancel(q) \/ Process!Drained(q)  PROVE Control'
  <2>1. /\ UNCHANGED <<kind, boot, code, first, todo, since, clock, exited, open>>
        /\ past' \in {past, past \cup {"timer"}, past \cup {"consume pending"}}
    BY <1>2 DEF Process!Cancel, Process!Drained, Process!shutting
  <2>2. Stopping
    <3>1. CASE Process!Cancel(q)
      BY <3>1, Begun DEF Process!Cancel, Process!At
    <3>2. CASE Process!Drained(q)
      BY <3>2 DEF Process!Drained, Work, Worked
    <3> QED
      BY <1>2, <3>1, <3>2
  <2> QED
    BY <2>1, <2>2, ControlQuiet
<1>3. ASSUME Process!HttpCloses \/ Process!TasksDrain \/ Process!ConsumersClosed
      PROVE  Control'
  <2>1. /\ todo # <<>> /\ exited = Running /\ Head(todo) \in {"http", "tasks", "consumers"}
        /\ todo' = Tail(todo) /\ since' = clock
        /\ UNCHANGED <<kind, boot, code, first, clock, exited, open>>
        /\ past' \in {past, past \cup {"timer"}}
    BY <1>3 DEF Process!HttpCloses, Process!TasksDrain, Process!ConsumersClosed,
       Process!ConsumersDone, Process!At, Process!Alive, Process!StepEnds, Running
  <2>2. open \ {Head(todo)} = open
    BY <2>1 DEF Control, ControlType, Connections
  <2> QED
    BY <2>1, <2>2, ControlStepEnds
<1>4. ASSUME NEW c \in Process!Closing, Process!Close(c)  PROVE Control'
  <2>1. /\ todo # <<>> /\ exited = Running /\ Head(todo) = c /\ c # "flush"
        /\ todo' = Tail(todo) /\ since' = clock /\ open' = open \ {c}
        /\ UNCHANGED <<kind, boot, code, first, clock, exited, past>>
    BY <1>4 DEF Process!Close, Process!Closing, Process!At, Process!Alive, Process!StepEnds, Running
  <2> QED
    BY <2>1, ControlStepEnds
<1>5. CASE Process!Tick
  BY <1>5, ControlTick DEF Work
<1>6. ASSUME NEW c \in Process!Closing \cup {"consumers"}, Process!Close(c)  PROVE Control'
  BY <1>4, <1>6 DEF Process!Close
<1>7. ASSUME NEW c \in Process!Closing \cup {"consumers"}, Process!CloseFails(c)  PROVE Control'
  <2>1. c \in {"consumers", "publisher", "db"}
    BY <1>7 DEF Process!CloseFails
  <2> QED
    BY <1>7, <2>1, ControlOther
<1> QED
  BY <1>1, <1>2, <1>3, <1>5, <1>6, <1>7, ControlOther DEF Process!Next, Process!Timers

-----------------------------------------------------------------------------
(* The work of the process, action by action.                              *)

LEMMA WorkTypeNext ==
    ASSUME WorkType, Process!Next
    PROVE  WorkType'
<1>1. ASSUME NEW q \in Queue,
             \/ Process!Setup(q) \/ Process!ConsumeOk(q) \/ Process!LateCancelOk(q)
             \/ Process!Deliver(q) \/ Process!Settle(q) \/ Process!CancelOk(q)
             \/ Process!ChannelCloses(q) \/ Process!Cancel(q) \/ Process!Drained(q)
      PROVE  WorkType'
  <2>1. UNCHANGED <<requests, tasks, loose>>
    BY <1>1 DEF Process!Setup, Process!ConsumeOk, Process!LateCancelOk, Process!Deliver,
       Process!Settle, Process!CancelOk, Process!ChannelCloses, Process!Cancel, Process!Drained,
       Process!server
  <2>2. sub' \in [Queue -> {"none", "consuming", "on", "cancelling"}]
    BY <1>1 DEF Process!Setup, Process!ConsumeOk, Process!LateCancelOk, Process!Deliver,
       Process!Settle, Process!CancelOk, Process!ChannelCloses, Process!Cancel, Process!Drained,
       WorkType
  <2>3. stage' \in [Queue -> {"open", "cancel", "drain", "channel", "closed"}]
    BY <1>1 DEF Process!Setup, Process!ConsumeOk, Process!LateCancelOk, Process!Deliver,
       Process!Settle, Process!CancelOk, Process!ChannelCloses, Process!Cancel, Process!Drained,
       WorkType
  <2>4. inFlight' \in [Queue -> Nat]
    <3>1. CASE UNCHANGED inFlight
      BY <3>1 DEF WorkType
    <3>2. CASE inFlight' = [inFlight EXCEPT ![q] = @ + 1]
      BY <3>2 DEF WorkType
    <3>3. CASE inFlight[q] > 0 /\ inFlight' = [inFlight EXCEPT ![q] = @ - 1]
      BY <3>3 DEF WorkType
    <3> QED
      BY <1>1, <3>1, <3>2, <3>3 DEF Process!Setup, Process!ConsumeOk, Process!LateCancelOk,
         Process!Deliver, Process!Settle, Process!CancelOk, Process!ChannelCloses,
         Process!Cancel, Process!Drained
  <2> QED
    BY <2>1, <2>2, <2>3, <2>4 DEF WorkType
<1>2. ASSUME Process!Accept \/ Process!Answer \/ Process!TaskEnds \/ Process!HttpCloses
      PROVE  WorkType'
  <2>1. requests' \in Nat /\ tasks' \in Nat /\ loose' \in Nat
    BY <1>2 DEF Process!Accept, Process!Answer, Process!TaskEnds, Process!HttpCloses, WorkType
  <2>2. UNCHANGED <<sub, stage, inFlight>>
    BY <1>2 DEF Process!Accept, Process!Answer, Process!TaskEnds, Process!HttpCloses,
       Process!worker
  <2> QED
    BY <2>1, <2>2 DEF WorkType
<1>3. ASSUME \/ Process!Reconnect \/ Process!TasksDrain \/ Process!ConsumersClosed
             \/ Process!ExitAtDeadline \/ Process!Tick \/ Process!Exit
             \/ \E k \in {"server", "worker"} : Process!Deploy(k)
             \/ Process!Starts \/ Process!StartFails \/ Process!ExitsUnstarted
             \/ Process!RedisGivesUp
             \/ \E c \in {0, 1} : Process!Shutdown(c)
             \/ \E c \in Process!Closing \cup {"consumers"} : Process!Close(c) \/ Process!CloseFails(c)
      PROVE  WorkType'
  <2>1. UNCHANGED <<requests, tasks, loose, stage, inFlight>>
    BY <1>3 DEF Process!Reconnect, Process!TasksDrain, Process!ConsumersClosed,
       Process!ExitAtDeadline, Process!Tick, Process!Exit, Process!Deploy, Process!Starts,
       Process!StartFails, Process!ExitsUnstarted, Process!RedisGivesUp, Process!Shutdown,
       Process!Close, Process!CloseFails, Process!server, Process!worker
  <2>2. UNCHANGED sub \/ sub' = [q \in Queue |-> "none"]
    BY <1>3 DEF Process!Reconnect, Process!TasksDrain, Process!ConsumersClosed,
       Process!ExitAtDeadline, Process!Tick, Process!Exit, Process!Deploy, Process!Starts,
       Process!StartFails, Process!ExitsUnstarted, Process!RedisGivesUp, Process!Shutdown,
       Process!Close, Process!CloseFails, Process!worker
  <2> QED
    BY <2>1, <2>2 DEF WorkType
<1> QED
  BY <1>1, <1>2, <1>3 DEF Process!Next, Process!Timers

\* The work itself moves: the control is as it was, and nothing of it that matters.
LEMMA WorkedNext ==
    ASSUME Inv, Process!Next
    PROVE  Worked'
<1> USE DEF Inv, Work
<1>1. ASSUME Process!Accept \/ Process!Answer \/ Process!TaskEnds \/ Process!HttpCloses
      PROVE  Worked'
  <2>1. /\ UNCHANGED <<kind, boot, first, sub, stage, inFlight>>
        /\ \/ kind = "server" /\ boot = "up"
           \/ requests' = 0 /\ tasks' = 0 /\ loose' = 0
    <3>1. UNCHANGED <<kind, boot, first, sub, stage, inFlight>>
      BY <1>1 DEF Process!Accept, Process!Answer, Process!TaskEnds, Process!HttpCloses,
         Process!worker, Process!shutting
    <3>2. CASE Process!Accept
      BY <3>1, <3>2 DEF Process!Accept, Process!Listening
    <3>3. CASE Process!Answer \/ Process!TaskEnds
      <4>1. requests # 0 \/ tasks # 0 \/ loose # 0
        BY <3>3 DEF Process!Answer, Process!TaskEnds
      <4> QED
        BY <3>1, <4>1 DEF Worked
    <3>4. CASE Process!HttpCloses
      <4>1. requests' = 0 /\ tasks' = tasks /\ (loose' = loose \/ loose' = loose + requests)
        BY <3>4 DEF Process!HttpCloses
      <4>2. (kind = "server" /\ boot = "up") \/ (requests = 0 /\ tasks = 0 /\ loose = 0)
        BY DEF Worked
      <4> QED
        BY <3>1, <4>1, <4>2
    <3> QED
      BY <1>1, <3>1, <3>2, <3>3, <3>4
  <2> QED
    BY <2>1 DEF Worked, Stopping, Process!Stopping, Process!Running
<1>2. ASSUME NEW q \in Queue,
             \/ Process!Setup(q) \/ Process!ConsumeOk(q) \/ Process!LateCancelOk(q)
             \/ Process!Deliver(q) \/ Process!Settle(q) \/ Process!CancelOk(q)
             \/ Process!ChannelCloses(q) \/ Process!Cancel(q) \/ Process!Drained(q)
      PROVE  Worked'
  <2>1. UNCHANGED <<kind, boot, first, requests, tasks, loose>>
    BY <1>2 DEF Process!Setup, Process!ConsumeOk, Process!LateCancelOk, Process!Deliver,
       Process!Settle, Process!CancelOk, Process!ChannelCloses, Process!Cancel, Process!Drained,
       Process!server, Process!shutting
  <2>2. /\ \A p \in Queue \ {q} : sub'[p] = sub[p] /\ inFlight'[p] = inFlight[p]
        /\ \/ sub'[q] = sub[q] /\ inFlight'[q] = inFlight[q]
           \/ kind = "worker" /\ boot = "up"
           \/ sub'[q] = "none" /\ inFlight'[q] = inFlight[q]
    <3>1. CASE Process!Setup(q)
      BY <3>1 DEF Process!Setup, Process!Connected, WorkType
    <3>2. CASE Process!ConsumeOk(q) \/ Process!LateCancelOk(q)
      BY <3>2 DEF Process!ConsumeOk, Process!LateCancelOk, Worked, WorkType
    <3>3. CASE Process!Deliver(q) \/ Process!Settle(q)
      <4>1. sub[q] # "none" \/ inFlight[q] # 0
        BY <3>3 DEF Process!Deliver, Process!Settle
      <4>2. kind = "worker" /\ boot = "up"
        BY <4>1 DEF Worked
      <4>3. UNCHANGED sub /\ \A p \in Queue \ {q} : inFlight'[p] = inFlight[p]
        BY <3>3 DEF Process!Deliver, Process!Settle, WorkType
      <4> QED
        BY <4>2, <4>3
    <3>4. CASE Process!CancelOk(q) \/ Process!ChannelCloses(q)
      BY <3>4 DEF Process!CancelOk, Process!ChannelCloses, WorkType
    <3>5. CASE Process!Cancel(q) \/ Process!Drained(q)
      <4>1. UNCHANGED <<sub, inFlight>>
        BY <3>5 DEF Process!Cancel, Process!Drained
      <4> QED
        BY <4>1
    <3> QED
      BY <1>2, <3>1, <3>2, <3>3, <3>4, <3>5
  <2>3. ~Stopping => UNCHANGED stage
    BY <1>2, Begun DEF Process!Setup, Process!ConsumeOk, Process!LateCancelOk, Process!Deliver,
       Process!Settle, Process!CancelOk, Process!ChannelCloses, Process!Cancel, Process!Drained,
       Process!At, Worked
  <2>4. UNCHANGED Stopping
    BY <2>1 DEF Stopping, Process!Stopping, Process!Running
  <2> QED
    BY <2>1, <2>2, <2>3, <2>4 DEF Worked
<1>3. ASSUME \/ Process!Reconnect \/ Process!TasksDrain \/ Process!ConsumersClosed
             \/ Process!ExitAtDeadline \/ Process!Tick \/ Process!Exit
             \/ Process!ExitsUnstarted \/ Process!RedisGivesUp
             \/ \E c \in {0, 1} : Process!Shutdown(c)
             \/ \E c \in Process!Closing \cup {"consumers"} : Process!Close(c) \/ Process!CloseFails(c)
      PROVE  Worked'
  <2>1. UNCHANGED <<kind, boot, requests, tasks, loose, stage, inFlight>>
    BY <1>3 DEF Process!Reconnect, Process!TasksDrain, Process!ConsumersClosed,
       Process!ExitAtDeadline, Process!Tick, Process!Exit, Process!ExitsUnstarted,
       Process!RedisGivesUp, Process!Shutdown, Process!Close, Process!CloseFails,
       Process!server, Process!worker
  <2>2. UNCHANGED sub \/ sub' = [q \in Queue |-> "none"]
    BY <1>3 DEF Process!Reconnect, Process!TasksDrain, Process!ConsumersClosed,
       Process!ExitAtDeadline, Process!Tick, Process!Exit, Process!ExitsUnstarted,
       Process!RedisGivesUp, Process!Shutdown, Process!Close, Process!CloseFails, Process!worker
  <2>3. Stopping => Stopping'
    <3>1. UNCHANGED first \/ first' = code'
      BY <1>3 DEF Process!Reconnect, Process!TasksDrain, Process!ConsumersClosed,
         Process!ExitAtDeadline, Process!Tick, Process!Exit, Process!ExitsUnstarted,
         Process!RedisGivesUp, Process!Shutdown, Process!Close, Process!CloseFails,
         Process!shutting
    <3>2. code' \in {0, 1}
      BY ControlNext DEF Control, ControlType
    <3> QED
      BY <3>1, <3>2 DEF Stopping, Process!Stopping, Process!Running
  <2>4. ~Stopping' => \A q \in Queue : stage'[q] = "open"
    BY <2>1, <2>3 DEF Worked
  <2>5. boot \notin {"up"} \/ kind # "worker" => \A q \in Queue : sub'[q] = "none" /\ inFlight'[q] = 0
    BY <2>1, <2>2 DEF Worked
  <2> QED
    BY <2>1, <2>4, <2>5 DEF Worked
<1>4. ASSUME \/ Process!Starts \/ Process!StartFails
             \/ \E k \in {"server", "worker"} : Process!Deploy(k)
      PROVE  Worked'
  <2>1. /\ boot = "starting"
        /\ UNCHANGED <<first, requests, tasks, loose, sub, stage, inFlight>>
    BY <1>4 DEF Process!Starts, Process!StartFails, Process!Deploy, Process!shutting,
       Process!server, Process!worker, Control, Undeployed
  <2>2. UNCHANGED Stopping
    BY <2>1 DEF Stopping, Process!Stopping, Process!Running
  <2> QED
    BY <2>1, <2>2 DEF Worked
<1> QED
  BY <1>1, <1>2, <1>3, <1>4 DEF Process!Next, Process!Timers

\* What happened is not forgotten.
LEMMA PastKept == Process!Next => past \subseteq past'
BY DEF Process!Next, Process!Timers, Process!Accept, Process!Answer, Process!TaskEnds,
     Process!Reconnect, Process!Setup, Process!ConsumeOk, Process!LateCancelOk, Process!Deliver,
     Process!Settle, Process!CancelOk, Process!ChannelCloses, Process!Cancel, Process!Drained,
     Process!HttpCloses, Process!TasksDrain, Process!ConsumersClosed, Process!ExitAtDeadline,
     Process!Tick, Process!Exit, Process!Deploy, Process!Starts, Process!StartFails,
     Process!ExitsUnstarted, Process!RedisGivesUp, Process!Shutdown, Process!Close,
     Process!CloseFails

\* The order in which a consumer closes, whatever its broker answers late.
LEMMA ClosedNext ==
    ASSUME Inv, Process!Next, past' \cap {"timer", "consume pending"} = {}
    PROVE  \A q \in Queue : ClosedInOrder(q)'
<1>0. ~(0 > 0)
  BY Numbers
<1> USE DEF Inv, Work
<1>1. past \subseteq past'
  BY PastKept
<1>2. \A q \in Queue : ClosedInOrder(q)
  BY <1>1 DEF DoneInOrder
<1>3. ASSUME NEW q \in Queue,
             \/ Process!Setup(q) \/ Process!ConsumeOk(q) \/ Process!LateCancelOk(q)
             \/ Process!Deliver(q) \/ Process!Settle(q) \/ Process!CancelOk(q)
             \/ Process!ChannelCloses(q) \/ Process!Cancel(q) \/ Process!Drained(q),
             NEW p \in Queue
      PROVE  ClosedInOrder(p)'
  <2>1. CASE p # q
    <3>1. sub'[p] = sub[p] /\ stage'[p] = stage[p] /\ inFlight'[p] = inFlight[p]
      BY <1>3, <2>1 DEF Process!Setup, Process!ConsumeOk, Process!LateCancelOk, Process!Deliver,
         Process!Settle, Process!CancelOk, Process!ChannelCloses, Process!Cancel,
         Process!Drained, WorkType
    <3> QED
      BY <1>2, <3>1 DEF ClosedInOrder
  <2>2. CASE p = q
    <3> USE <2>2
    <3>1. CASE Process!Setup(q)
      <4>1. sub'[q] = "consuming" /\ stage'[q] = "open"
        BY <3>1 DEF Process!Setup, WorkType
      <4> QED
        BY <4>1 DEF ClosedInOrder
    <3>2. CASE Process!ConsumeOk(q)
      <4>1. sub[q] = "consuming" /\ UNCHANGED <<stage, inFlight>>
            /\ sub'[q] = IF stage[q] = "open" THEN "on" ELSE "cancelling"
        BY <3>2 DEF Process!ConsumeOk, WorkType
      <4>2. stage[q] = "open"
        BY <4>1, <1>2 DEF ClosedInOrder, WorkType
      <4> QED
        BY <4>1, <4>2 DEF ClosedInOrder
    <3>3. CASE Process!LateCancelOk(q)
      <4>1. sub'[q] = "none" /\ UNCHANGED <<stage, inFlight>>
        BY <3>3 DEF Process!LateCancelOk, WorkType
      <4> QED
        BY <4>1, <1>2 DEF ClosedInOrder
    <3>4. CASE Process!Deliver(q)
      <4>1. UNCHANGED <<sub, stage>> /\ sub[q] # "none"
        BY <3>4 DEF Process!Deliver
      <4>2. stage[q] \in {"open", "cancel"}
        BY <4>1, <1>2 DEF ClosedInOrder, WorkType
      <4> QED
        BY <4>1, <4>2, <1>2 DEF ClosedInOrder
    <3>5. CASE Process!Settle(q)
      <4>1. UNCHANGED <<sub, stage>> /\ inFlight[q] # 0
        BY <3>5, <1>0 DEF Process!Settle
      <4> QED
        BY <4>1, <1>2 DEF ClosedInOrder
    <3>6. CASE Process!CancelOk(q)
      <4>1. sub'[q] = "none" /\ stage'[q] = "drain"
        BY <3>6 DEF Process!CancelOk, WorkType
      <4> QED
        BY <4>1 DEF ClosedInOrder
    <3>7. CASE Process!ChannelCloses(q)
      <4>1. sub'[q] = "none" /\ stage[q] = "channel" /\ stage'[q] = "closed" /\ UNCHANGED inFlight
        BY <3>7 DEF Process!ChannelCloses, WorkType
      <4> QED
        BY <4>1, <1>2 DEF ClosedInOrder
    <3>8. CASE Process!Cancel(q)
      <4>1. /\ UNCHANGED <<sub, inFlight>> /\ stage[q] = "open"
            /\ stage'[q] = IF sub[q] = "on" THEN "cancel" ELSE "drain"
            /\ sub[q] # "consuming"
        BY <3>8 DEF Process!Cancel, WorkType
      <4>2. sub[q] \in {"on", "none"}
        BY <4>1, <1>2 DEF ClosedInOrder, WorkType
      <4> QED
        BY <4>1, <4>2 DEF ClosedInOrder
    <3>9. CASE Process!Drained(q)
      <4>1. UNCHANGED <<sub, inFlight>> /\ stage[q] = "drain" /\ stage'[q] = "channel" /\ inFlight[q] = 0
        BY <3>9 DEF Process!Drained, WorkType
      <4> QED
        BY <4>1, <1>2 DEF ClosedInOrder
    <3> QED
      BY <1>3, <3>1, <3>2, <3>3, <3>4, <3>5, <3>6, <3>7, <3>8, <3>9
  <2> QED
    BY <2>1, <2>2
<1>4. ASSUME UNCHANGED <<stage, inFlight>>, UNCHANGED sub \/ sub' = [q \in Queue |-> "none"]
      PROVE  \A q \in Queue : ClosedInOrder(q)'
  BY <1>2, <1>4 DEF ClosedInOrder
<1>5. ASSUME \/ Process!Reconnect \/ Process!TasksDrain \/ Process!ConsumersClosed
             \/ Process!ExitAtDeadline \/ Process!Tick \/ Process!Exit
             \/ \E k \in {"server", "worker"} : Process!Deploy(k)
             \/ Process!Starts \/ Process!StartFails \/ Process!ExitsUnstarted
             \/ Process!RedisGivesUp
             \/ \E c \in {0, 1} : Process!Shutdown(c)
             \/ \E c \in Process!Closing \cup {"consumers"} : Process!Close(c) \/ Process!CloseFails(c)
             \/ Process!Accept \/ Process!Answer \/ Process!TaskEnds \/ Process!HttpCloses
      PROVE  UNCHANGED <<stage, inFlight>> /\ (UNCHANGED sub \/ sub' = [q \in Queue |-> "none"])
  BY <1>5 DEF Process!Reconnect, Process!TasksDrain, Process!ConsumersClosed,
     Process!ExitAtDeadline, Process!Tick, Process!Exit, Process!Deploy, Process!Starts,
     Process!StartFails, Process!ExitsUnstarted, Process!RedisGivesUp, Process!Shutdown,
     Process!Close, Process!CloseFails, Process!Accept, Process!Answer, Process!TaskEnds,
     Process!HttpCloses, Process!worker
<1> QED
  BY <1>3, <1>4, <1>5 DEF Process!Next, Process!Timers

LEMMA AsPlannedNext ==
    ASSUME Inv, Process!Next, Calm'
    PROVE  AsPlanned'
<1> USE DEF Inv, Work
<1>1. ASSUME NEW c \in {0, 1}, Process!Shutdown(c), ~Stopping  PROVE AsPlanned'
  <2>1. /\ UNCHANGED <<kind, boot, requests, tasks, loose, stage>>
        /\ first' = code' /\ todo' = Process!Steps /\ kind # "none"
    BY <1>1 DEF Process!Shutdown, Process!server, Process!worker, Process!Alive, Stopping
  <2>2. code' = 0
    BY <2>1 DEF Calm
  <2>3. Ahead(todo)' = Ahead(todo')
    BY DEF Ahead
  <2>4. CASE kind = "worker"
    <3>1. "consumers" \in Ahead(todo') /\ requests = 0 /\ tasks = 0
      BY <2>1, <2>4, FirstPlan DEF Worked
    <3>2. "http" \notin Ahead(todo')
      BY <2>1, <2>4, FirstPlan, PlansOK
    <3> QED
      BY <2>1, <2>3, <3>1, <3>2 DEF AsPlanned
  <2>5. CASE kind # "worker"
    <3>1. "tasks" \in Ahead(todo') /\ ("http" \in Ahead(todo') <=> Process!Listening)
      BY <2>1, <2>2, <2>5, FirstPlan
    <3>2. ~Process!Listening => requests = 0
      BY <1>1 DEF Process!Listening, Stopping, Worked
    <3> QED
      BY <2>1, <2>3, <2>5, <3>1, <3>2 DEF AsPlanned
  <2> QED
    BY <2>4, <2>5
<1> SUFFICES ASSUME UNCHANGED first PROVE AsPlanned'
  <2>1. UNCHANGED first \/ \E c \in {0, 1} : Process!Shutdown(c) /\ ~Stopping
    BY DEF Process!Next, Process!Timers, Process!Accept, Process!Answer, Process!TaskEnds,
     Process!Reconnect, Process!Setup, Process!ConsumeOk, Process!LateCancelOk, Process!Deliver,
     Process!Settle, Process!CancelOk, Process!ChannelCloses, Process!Cancel, Process!Drained,
     Process!HttpCloses, Process!TasksDrain, Process!ConsumersClosed, Process!ExitAtDeadline,
     Process!Tick, Process!Exit, Process!Deploy, Process!Starts, Process!StartFails,
     Process!ExitsUnstarted, Process!RedisGivesUp, Process!Shutdown, Process!Close,
     Process!CloseFails, Process!shutting, Stopping
  <2> QED
    BY <1>1, <2>1
<1>2. Calm /\ AsPlanned /\ Stopping /\ "late start" \notin past' /\ "failure" \notin past'
      /\ loose = 0
  <2>1. past \subseteq past'
    BY PastKept
  <2>2. Calm
    BY <2>1 DEF Calm
  <2>3. Stopping
    <3>1. 0 # -1
      OBVIOUS
    <3> QED
      BY <2>2, <3>1 DEF Calm, Stopping, Process!Stopping, Process!Running
  <2> QED
    BY <2>2, <2>3 DEF DoneInOrder, Calm
<1>3. todo \in Plans(kind) /\ PlanOK(todo, Plans(kind)) /\ kind # "none"
  BY <1>2, PlansOK DEF Control, Planned, Undeployed
<1>4. ASSUME UNCHANGED <<kind, boot, todo, requests, tasks, stage>>  PROVE AsPlanned'
  BY <1>2, <1>4 DEF AsPlanned, Ahead
<1>5. CASE Process!Accept
  BY <1>5, <1>2 DEF Process!Accept, Process!Listening, Stopping
<1>6. CASE Process!Answer \/ Process!TaskEnds
  <2>1. UNCHANGED <<kind, boot, todo, stage>>
    BY <1>6 DEF Process!Answer, Process!TaskEnds, Process!shutting, Process!worker
  <2>2. CASE "http" \in Ahead(todo)
    BY <1>2, <1>3, <2>1, <2>2, PlansOK DEF AsPlanned, Ahead
  <2>3. CASE "http" \notin Ahead(todo)
    <3>1. requests = 0
      BY <1>2, <2>3 DEF AsPlanned
    <3>2. Process!TaskEnds
      <4>1. ~(0 > 0)
        OBVIOUS
      <4> QED
        BY <1>2, <1>6, <3>1, <4>1 DEF Process!Answer
    <3>3. UNCHANGED requests /\ tasks # 0
      BY <3>2 DEF Process!TaskEnds
    <3>4. "tasks" \in Ahead(todo)
      BY <1>2, <2>3, <3>3 DEF AsPlanned
    <3> QED
      BY <1>2, <1>3, <2>1, <3>1, <3>3, <3>4, PlansOK DEF AsPlanned, Ahead
  <2> QED
    BY <2>2, <2>3
<1>7. ASSUME NEW q \in Queue, Process!Cancel(q) \/ Process!Drained(q) \/ Process!CancelOk(q)
      PROVE  AsPlanned'
  <2>1. UNCHANGED <<kind, boot, todo, requests, tasks>> /\ stage[q] # "closed"
    BY <1>7 DEF Process!Cancel, Process!Drained, Process!CancelOk, Process!shutting, Process!server
  <2>2. ~("consumers" \notin Ahead(todo) /\ kind = "worker" /\ boot = "up")
    BY <1>2, <2>1 DEF AsPlanned
  <2> QED
    BY <1>2, <2>1, <2>2 DEF AsPlanned, Ahead
<1>8. ASSUME NEW q \in Queue, Process!ChannelCloses(q)  PROVE AsPlanned'
  <2>1. UNCHANGED <<kind, boot, todo, requests, tasks>> /\ stage[q] # "closed"
    BY <1>8 DEF Process!ChannelCloses, Process!shutting, Process!server
  <2>2. ~("consumers" \notin Ahead(todo) /\ kind = "worker" /\ boot = "up")
    BY <1>2, <2>1 DEF AsPlanned
  <2> QED
    BY <1>2, <2>1, <2>2 DEF AsPlanned, Ahead
<1>9. ASSUME todo # <<>>, Head(todo) # "flush", exited = Running, todo' = Tail(todo), since' = clock,
             UNCHANGED <<kind, boot, code, first, clock, exited, stage, tasks>>,
             open' = open \ {Head(todo)},
             past' \in {past, past \cup {"timer"}},
             requests' = IF Head(todo) = "http" THEN 0 ELSE requests,
             Head(todo) = "tasks" => tasks = 0,
             Head(todo) = "consumers" /\ boot = "up" => \A q \in Queue : stage[q] = "closed"
      PROVE  AsPlanned'
  <2>1. Ahead(todo') = Ahead(todo) \ {Head(todo)} /\ Ahead(todo)' = Ahead(todo')
    BY <1>9, ControlStepEnds DEF Ahead
  <2>2. \A s \in {"http", "consumers"} : s \in Ahead(todo) => Head(todo) = s
    BY <1>3 DEF PlanOK
  <2>3. /\ "http" \notin Ahead(todo') /\ requests' = 0
        /\ "consumers" \notin Ahead(todo')
    BY <1>2, <1>9, <2>1, <2>2 DEF AsPlanned
  <2>4. "tasks" \notin Ahead(todo') => tasks' = 0
    <3>1. CASE Head(todo) = "http"
      <4>1. Head(todo) \in Ahead(todo)
        BY <1>3 DEF PlanOK
      <4> QED
        BY <1>2, <2>1, <3>1, <4>1 DEF AsPlanned
    <3>2. CASE Head(todo) = "tasks"
      BY <1>9, <3>2
    <3>3. CASE Head(todo) \notin {"http", "tasks"}
      BY <1>2, <1>9, <2>1, <2>2, <3>3 DEF AsPlanned
    <3> QED
      BY <3>1, <3>2, <3>3
  <2>5. kind = "worker" /\ boot = "up" => \A q \in Queue : stage[q] = "closed"
    <3>1. CASE Head(todo) = "consumers"
      BY <1>9, <3>1
    <3>2. CASE Head(todo) # "consumers"
      BY <1>2, <2>2, <3>2 DEF AsPlanned
    <3> QED
      BY <3>1, <3>2
  <2> QED
    BY <1>9, <2>1, <2>3, <2>4, <2>5 DEF AsPlanned
<1>10. CASE Process!HttpCloses \/ Process!TasksDrain \/ Process!ConsumersClosed
  <2>1. /\ todo # <<>> /\ exited = Running /\ Head(todo) \in {"http", "tasks", "consumers"}
        /\ todo' = Tail(todo) /\ since' = clock
        /\ UNCHANGED <<kind, boot, code, first, clock, exited, open, stage, tasks>>
        /\ past' \in {past, past \cup {"timer"}}
    BY <1>10 DEF Process!HttpCloses, Process!TasksDrain, Process!ConsumersClosed,
       Process!ConsumersDone, Process!At, Process!Alive, Process!StepEnds, Process!server,
       Process!worker, Running
  <2>2. open \ {Head(todo)} = open
    BY <2>1 DEF Control, ControlType, Connections
  <2>3. requests' = IF Head(todo) = "http" THEN 0 ELSE requests
    BY <1>10 DEF Process!HttpCloses, Process!TasksDrain, Process!ConsumersClosed,
       Process!ConsumersDone, Process!At, Process!server
  <2>4. Head(todo) = "tasks" => tasks = 0
    BY <1>10 DEF Process!HttpCloses, Process!TasksDrain, Process!ConsumersClosed,
       Process!ConsumersDone, Process!At, Calm
  <2>5. Head(todo) = "consumers" /\ boot = "up" => \A q \in Queue : stage[q] = "closed"
    BY <1>2, <1>10 DEF Process!HttpCloses, Process!TasksDrain, Process!ConsumersClosed,
       Process!ConsumersDone, Process!Started, Process!At, Calm
  <2> QED
    BY <2>1, <2>2, <2>3, <2>4, <2>5, <1>9
<1>11. ASSUME NEW c \in Process!Closing \cup {"consumers"}, Process!Close(c)  PROVE AsPlanned'
  <2>1. /\ todo # <<>> /\ exited = Running /\ Head(todo) = c
        /\ c \in {"publisher", "rabbit", "redis", "db"}
        /\ todo' = Tail(todo) /\ since' = clock /\ open' = open \ {c}
        /\ UNCHANGED <<kind, boot, code, first, clock, exited, past, stage, tasks, requests>>
    BY <1>11 DEF Process!Close, Process!Closing, Process!At, Process!Alive, Process!StepEnds,
       Running, Process!server
  <2> QED
    BY <2>1, <1>9
<1>12. ASSUME NEW c \in Process!Closing \cup {"consumers"}, Process!CloseFails(c)  PROVE AsPlanned'
  BY <1>2, <1>12 DEF Process!CloseFails
<1>13. CASE Process!Starts
  BY <1>2, <1>13 DEF Process!Starts, Stopping
<1>14. CASE Process!StartFails
  BY <1>2, <1>14 DEF Process!StartFails, Process!shutting, Process!server, Process!worker,
     AsPlanned, Ahead
<1>15. ASSUME NEW k \in {"server", "worker"}, Process!Deploy(k)  PROVE AsPlanned'
  BY <1>3, <1>15 DEF Process!Deploy
<1>16. ASSUME \/ Process!Reconnect \/ Process!ExitAtDeadline \/ Process!Tick \/ Process!Exit
              \/ Process!ExitsUnstarted \/ Process!RedisGivesUp
              \/ \E c \in {0, 1} : Process!Shutdown(c)
              \/ \E q \in Queue :
                     \/ Process!Setup(q) \/ Process!ConsumeOk(q) \/ Process!LateCancelOk(q)
                     \/ Process!Deliver(q) \/ Process!Settle(q)
       PROVE  UNCHANGED <<kind, boot, todo, requests, tasks, stage>>
  BY <1>2, <1>16 DEF Process!Reconnect, Process!ExitAtDeadline, Process!Tick, Process!Exit,
     Process!ExitsUnstarted, Process!RedisGivesUp, Process!Shutdown, Process!Setup,
     Process!ConsumeOk, Process!LateCancelOk, Process!Deliver, Process!Settle,
     Process!shutting, Process!server, Process!worker, Stopping
<1> QED
  BY <1>4, <1>5, <1>6, <1>7, <1>8, <1>10, <1>11, <1>12, <1>13, <1>14, <1>15, <1>16
     DEF Process!Next, Process!Timers

LEMMA WorkNext ==
    ASSUME Inv, Process!Next
    PROVE  Work'
<1>1. WorkType' /\ Worked'
  BY WorkTypeNext, WorkedNext DEF Inv, Work
<1>2. past' \cap {"timer", "consume pending"} = {} => \A q \in Queue : ClosedInOrder(q)'
  BY ClosedNext
<1>3. Calm' => AsPlanned'
  BY AsPlannedNext
<1>4. ASSUME "timer" \notin past'  PROVE loose' = 0
  <2>1. loose = 0
    BY <1>4, PastKept DEF Inv, Work, DoneInOrder
  <2>2. ~(0 > 0)
    OBVIOUS
  <2>3. UNCHANGED loose \/ Process!Answer \/ Process!HttpCloses
    BY DEF Process!Next, Process!Timers, Process!Accept, Process!TaskEnds,
     Process!Reconnect, Process!Setup, Process!ConsumeOk, Process!LateCancelOk, Process!Deliver,
     Process!Settle, Process!CancelOk, Process!ChannelCloses, Process!Cancel, Process!Drained,
     Process!TasksDrain, Process!ConsumersClosed, Process!ExitAtDeadline,
     Process!Tick, Process!Exit, Process!Deploy, Process!Starts, Process!StartFails,
     Process!ExitsUnstarted, Process!RedisGivesUp, Process!Shutdown, Process!Close,
     Process!CloseFails, Process!server
  <2>4. CASE Process!Answer
    BY <2>1, <2>2, <2>4 DEF Process!Answer
  <2>5. CASE Process!HttpCloses
    BY <1>4, <2>1, <2>5 DEF Process!HttpCloses
  <2> QED
    BY <2>1, <2>3, <2>4, <2>5
<1> QED
  BY <1>1, <1>2, <1>3, <1>4 DEF Work, DoneInOrder

-----------------------------------------------------------------------------
(* The theorems.                                                           *)

LEMMA InvInit == ReleaseInit => Inv
<1> SUFFICES ASSUME Process!Init PROVE Inv
  BY DEF ReleaseInit
<1> USE DEF Process!Init
<1>0. 0 # -1
  OBVIOUS
<1>1. ~Stopping /\ exited = Running
  BY DEF Stopping, Process!Stopping, Running
<1>2. ControlType /\ Undeployed /\ Unstopped /\ Planned
  BY <1>0, <1>1 DEF ControlType, Undeployed, Unstopped, Planned, Running, Process!Running
<1>3. Coded /\ Exited /\ Remaining /\ Opened
  BY <1>0, <1>1 DEF Coded, Exited, Remaining, Opened, Running, Process!Running
<1>4. Timed /\ WaitsFit
  BY <1>1 DEF Timed, WaitsFit, Process!WaitsFit
<1>5. WorkType /\ Worked
  BY DEF WorkType, Worked
<1>6. DoneInOrder
  BY <1>0 DEF DoneInOrder, ClosedInOrder, Calm, Process!Running
<1> QED
  BY <1>2, <1>3, <1>4, <1>5, <1>6 DEF Inv, Control, Work

LEMMA InvNext == Inv /\ [Migrate \/ Serve]_<<vars, process>> => Inv'
<1> SUFFICES ASSUME Inv, [Migrate \/ Serve]_<<vars, process>> PROVE Inv'
  OBVIOUS
<1>1. CASE Process!Next
  BY <1>1, ControlNext, WorkNext DEF Inv
<1>2. CASE UNCHANGED process
  <2>1. UNCHANGED <<kind, boot, code, first, todo, since, clock, exited, requests, tasks, loose,
                    sub, stage, inFlight, open, past>>
    BY <1>2 DEF process
  <2>2. Control'
    BY <2>1, ControlQuiet DEF Inv
  <2>3. Stopping' = Stopping /\ Ahead(todo)' = Ahead(todo)
    BY <2>1 DEF Stopping, Process!Stopping, Process!Running, Ahead
  <2>4. WorkType' /\ Worked'
    BY <2>1, <2>3 DEF Inv, Work, WorkType, Worked
  <2>5. DoneInOrder'
    BY <2>1, <2>3 DEF Inv, Work, DoneInOrder, ClosedInOrder, Calm, AsPlanned
  <2> QED
    BY <2>2, <2>4, <2>5 DEF Inv, Work
<1> QED
  BY <1>1, <1>2 DEF Migrate, Serve

LEMMA Invariance == ReleaseSpec => []Inv
BY InvInit, InvNext, PTL DEF ReleaseSpec

\* An exit code of 0 says that the process started, was asked to stop, and closed what it
\* had opened, every step in its turn and none of them failed (utils/shutdown.ts).
THEOREM ExitsClean == ReleaseSpec => []ZeroMeansClean
<1>1. Inv => ZeroMeansClean
  <2> SUFFICES ASSUME Inv, exited = 0 PROVE
         /\ todo = <<"flush">>
         /\ open = {} \/ "late start" \in past
         /\ past \cap {"crash", "failure", "deadline"} = {}
    BY DEF ZeroMeansClean, Process!ZeroMeansClean
  <2>1. todo = <<"flush">> /\ past \cap {"crash", "failure", "deadline"} = {}
    BY DEF Inv, Control, Exited, Coded
  <2>2. Stopping
    BY DEF Inv, Control, Unstopped
  <2>3. Ahead(todo) = {"flush"}
    BY <2>1, PlansOK
  <2>4. open \subseteq {"flush"} \/ "late start" \in past
    BY <2>1, <2>2, <2>3 DEF Inv, Control, Remaining
  <2>5. open \subseteq Connections /\ "flush" \notin Connections
    BY DEF Inv, Control, ControlType, Connections
  <2> QED
    BY <2>1, <2>4, <2>5
<1> QED
  BY <1>1, Invariance, PTL

\* The bounds of the waits leave room for the closes: the deadline cuts the steps off only
\* where a close or a flush is itself slow (server.ts, worker-shutdown.ts).
THEOREM DeadlineIsForSlow == ReleaseSpec => []WaitsFit
<1>1. Inv => WaitsFit
  BY DEF Inv, Control
<1> QED
  BY <1>1, Invariance, PTL

\* A clean stop closes no connection under the requests, tasks and messages it waits for,
\* and does not exit while one is under way (server.ts, worker-shutdown.ts).
THEOREM StopsAroundWork == ReleaseSpec => []NothingCut
<1>1. Inv => NothingCut
  <2> SUFFICES ASSUME Inv, first = 0, Process!Working,
                      past \cap {"timer", "failure", "late start", "consume pending"} = {}
               PROVE  /\ boot = "up" => Connections \subseteq open
                      /\ exited # Running => past \cap {"deadline", "no redis"} # {}
    BY DEF NothingCut, Process!NothingCut, Connections, Running
  <2> USE DEF Inv, Control, Work
  <2>0. 0 # -1
    BY Numbers
  <2>1. Stopping /\ AsPlanned /\ loose = 0 /\ \A q \in Queue : ClosedInOrder(q)
    BY <2>0 DEF Calm, DoneInOrder, Stopping, Process!Stopping, Process!Running
  <2>2. todo \in Plans(kind) /\ PlanOK(todo, Plans(kind)) /\ kind # "none"
    BY <2>1, PlansOK DEF Planned, Undeployed
  <2>3. boot = "up" /\ Ahead(todo) \cap {"http", "tasks", "consumers"} # {}
    <3>1. CASE requests # 0 \/ tasks # 0
      BY <2>1, <3>1 DEF Worked, AsPlanned
    <3>2. CASE \E q \in Queue : inFlight[q] > 0
      <4>1. PICK q \in Queue : inFlight[q] > 0
        BY <3>2
      <4>2. inFlight[q] # 0
        BY <4>1, Numbers
      <4>3. boot = "up" /\ kind = "worker"
        BY <4>2 DEF Worked
      <4>4. stage[q] # "closed"
        BY <2>1, <4>2 DEF ClosedInOrder
      <4>5. "consumers" \in Ahead(todo)
        BY <2>1, <4>3, <4>4 DEF AsPlanned
      <4> QED
        BY <4>3, <4>5
    <3>3. requests # 0 \/ tasks # 0 \/ \E q \in Queue : inFlight[q] > 0
      <4>1. CASE requests = 0 /\ tasks = 0
        <5>1. ~(requests + tasks + loose > 0)
          BY <2>1, <4>1, Numbers
        <5> QED
          BY <5>1 DEF Process!Working
      <4> QED
        BY <4>1
    <3> QED
      BY <3>1, <3>2, <3>3
  <2>4. Connections \subseteq Ahead(todo)
    BY <2>2, <2>3 DEF PlanOK
  <2>5. Connections \subseteq open
    BY <2>2, <2>3, <2>4 DEF Opened, Connections
  <2>6. todo # <<"flush">>
    <3>1. "db" \in Ahead(todo) /\ "db" \notin {"flush"}
      BY <2>4 DEF Connections
    <3> QED
      BY <3>1, AheadOf
  <2> QED
    BY <2>3, <2>5, <2>6 DEF Exited
<1> QED
  BY <1>1, Invariance, PTL

-----------------------------------------------------------------------------
(* The migrations: that they leave what the models need, whatever was done  *)
(* and undone before, cut off or repaired.  First, induction: a set that   *)
(* has 0, and with each number the next, has n.                            *)

LEMMA Climb ==
    ASSUME NEW n \in Nat, NEW Good, 0 \in Good, \A i \in 1..n : i - 1 \in Good => i \in Good
    PROVE  n \in Good
<1> DEFINE Bad == {i \in 0..n : i \notin Good}
<1>1. SUFFICES ASSUME n \notin Good PROVE FALSE
  OBVIOUS
<1>2. Bad \subseteq Nat /\ Bad # {}
  BY <1>1
<1>3. PICK x \in Bad : \A y \in Bad : ~ (<<y, x>> \in OpToRel(<, Nat))
  BY <1>2, NatLessThanWellFounded, WFMin
<1>4. \A y \in Bad : ~ (y < x)
  BY <1>2, <1>3 DEF OpToRel
<1>5. x \in 1..n /\ x - 1 \notin Bad /\ x - 1 \in 0..n
  BY <1>4
<1> QED
  BY <1>5

\* Run does the statements one after another.
LEMMA RunFacts ==
    ASSUME NEW d, NEW statements, Len(statements) \in Nat
    PROVE  \E f : /\ f[0] = d
                  /\ \A i \in 1..Len(statements) : f[i] = Do(f[i - 1], statements[i])
                  /\ Run(d, statements) = f[Len(statements)]
<1> DEFINE n == Len(statements)
           Is(h, k) == h = [i \in 0..k |-> IF i = 0 THEN d ELSE Do(h[i - 1], statements[i])]
           Good == {k \in 0..n : \E h : Is(h, k)}
<1>1. 0 \in Good
  <2>1. Is([i \in 0..0 |-> d], 0)
    OBVIOUS
  <2> HIDE DEF Is
  <2>2. \E h : Is(h, 0)
    BY <2>1
  <2> QED
    BY <2>2
<1>2. ASSUME NEW k \in 1..n, k - 1 \in Good PROVE k \in Good
  <2>1. PICK g0 : Is(g0, k - 1)
    BY <1>2
  <2> DEFINE g == [i \in 0..k |-> IF i = k THEN Do(g0[k - 1], statements[k]) ELSE g0[i]]
  <2>2. ASSUME NEW i \in 0..k PROVE g[i] = IF i = 0 THEN d ELSE Do(g[i - 1], statements[i])
    <3>1. CASE i = k
      <4>1. g[i] = Do(g0[k - 1], statements[k]) /\ g[i - 1] = g0[k - 1] /\ i # 0
        BY <3>1
      <4> QED
        BY <3>1, <4>1
    <3>2. CASE i # k
      <4>1. g[i] = g0[i] /\ (i # 0 => g[i - 1] = g0[i - 1]) /\ i \in 0..(k - 1)
        BY <3>2
      <4>2. g0[i] = IF i = 0 THEN d ELSE Do(g0[i - 1], statements[i])
        BY <2>1, <4>1
      <4> QED
        BY <4>1, <4>2
    <3> QED
      BY <3>1, <3>2
  <2>3. Is(g, k)
    BY <2>2
  <2> HIDE DEF Is
  <2>4. \E h : Is(h, k)
    BY <2>3
  <2> QED
    BY <2>4
<1>3. n \in Good
  <2> HIDE DEF Good
  <2> QED
    BY <1>1, <1>2, Climb
<1> DEFINE After == CHOOSE h : Is(h, n)
<1>4. Is(After, n)
  BY <1>3
<1>5. Run(d, statements) = After[n]
  BY DEF Run
<1> HIDE DEF After
<1>6. After[0] = d /\ \A i \in 1..n : After[i] = Do(After[i - 1], statements[i])
  <2>1. \A i \in 0..n : After[i] = IF i = 0 THEN d ELSE Do(After[i - 1], statements[i])
    BY <1>4
  <2> QED
    BY <2>1
<1> QED
  BY <1>5, <1>6
-----------------------------------------------------------------------------
\* The objects the models need, with the migration that has them to stay.

Births ==
    {<<Whole("users"), 3>>, <<Whole("metric_categories"), 4>>, <<Whole("metrics"), 5>>,
     <<Whole("metric_settings"), 6>>, <<Whole("metric_logs"), 7>>,
     <<<<"metric_logs", "uq_metric_logs_metric_id_logged_at">>, 7>>,
     <<<<"metric_categories", "uq_metric_categories_user_name">>, 8>>,
     <<<<"metrics", "uq_metrics_user_name">>, 9>>,
     <<<<"metric_settings", "uq_metric_settings_metric">>, 10>>,
     <<Whole("processed_messages"), 13>>, <<Whole("password_reset_tokens"), 14>>,
     <<Whole("refresh_tokens"), 15>>, <<<<"users", "email_verified_at">>, 16>>,
     <<Whole("email_verification_tokens"), 17>>, <<Whole("organizations"), 18>>,
     <<Whole("memberships"), 19>>,
     <<<<"memberships", "uq_memberships_user_organization">>, 19>>,
     <<Whole("organization_invites"), 20>>,
     <<<<"metrics", "organization_id">>, 22>>,
     <<<<"metric_categories", "organization_id">>, 22>>,
     <<<<"metric_settings", "organization_id">>, 22>>,
     <<<<"metric_logs", "organization_id">>, 22>>,
     <<<<"processed_messages", "organization_id">>, 22>>,
     <<<<"refresh_tokens", "organization_id">>, 24>>, <<<<"memberships", "status">>, 25>>,
     <<PendingInvite, 28>>, <<KeyOf("key_message_id_queue"), 29>>}

\* The columns and constraints that come with their table.
Created == Models \ {birth[1] : birth \in Births}

Uniques == {"uq_metric_categories_user_name", "uq_metrics_user_name",
            "uq_metric_settings_metric", "uq_organization_invites_pending_email"}

\* A table has all of its columns, and rows that a unique index is to prevent are there
\* only without it.
Closed(d) == \A o \in Created : Whole(o[1]) \in d.schema => o \in d.schema
Guarded(d) ==
    \A p \in DOMAIN UniqueName \cap d.rows :
        UniqueName[p] \in d.schema => UniqueName[p] \in d.invalid

\* Of the objects the models need, only the indexes built online may be unusable.
Usable(d) == d.invalid \cap Models \subseteq BuiltOnline

Shape(d) ==
    /\ d = [schema |-> d.schema, invalid |-> d.invalid, rows |-> d.rows, ok |-> d.ok]
    /\ d.ok \in BOOLEAN

Makes(s, o) == /\ o \in s.objs
               /\ s.op \in {"add", "build"} \/ (s.op = "ensure" /\ s.key = o)

\* A statement leaves the tables whole and the unique indexes guarded.
Fine(s) ==
    /\ s.op = "ensure" =>
         /\ \A o \in s.objs : o[2] \notin Uniques
         /\ \A o \in s.objs : o[2] = "table" =>
              s.key = o /\ \A c \in Created : c[1] = o[1] => c \in s.objs
    /\ s.op \in {"add", "build"} =>
         \A o \in s.objs : /\ o[2] # "table"
                           /\ \A p \in DOMAIN UniqueName : UniqueName[p] = o => p \in s.bad
    /\ s.op = "build" => s.objs = {s.key} /\ s.objs \cap Models \subseteq BuiltOnline
    /\ s.op \in {"drop", "clear"} => s.objs \cap Created = {}
    /\ s.op = "spread" => s.bad \cap DOMAIN UniqueName = {}

LEMMA UniqueNames ==
    /\ DOMAIN UniqueName = {"dupCategory", "dupMetric", "dupSettings", "dupExpired", "dupLive"}
    /\ \A p \in DOMAIN UniqueName : UniqueName[p][2] \in Uniques
BY DEF UniqueName, Uniques, PendingInvite

LEMMA KeyNames ==
    ASSUME NEW t, NEW objs, NEW o \in FreeKey(t, objs)
    PROVE  o[2] # "table" /\ o[2] \notin Uniques
<1>1. \A i \in DOMAIN Keys : Keys[i] # "table" /\ Keys[i] \notin Uniques
  BY DEF Keys, Uniques
<1>2. PICK i \in DOMAIN Keys : o = <<t, Keys[i]>>
  BY DEF FreeKey
<1> QED
  BY <1>1, <1>2

\* A statement that does not fail.
LEMMA DoneFacts ==
    ASSUME NEW d, Shape(d), d.ok, NEW s, Fine(s), ~StatementFails(d, s)
    PROVE  /\ Shape(StatementDone(d, s)) /\ StatementDone(d, s).ok
           /\ \A o : o \in d.schema /\ ~Removes(s, o) => o \in StatementDone(d, s).schema
           /\ \A o : Makes(s, o) => o \in StatementDone(d, s).schema
           /\ Closed(d) => Closed(StatementDone(d, s))
           /\ Guarded(d) => Guarded(StatementDone(d, s))
           /\ Usable(d) => Usable(StatementDone(d, s))
<1> DEFINE e == StatementDone(d, s)
<1>1. CASE s.op = "ensure"
  <2>1. e = [d EXCEPT !.schema = IF s.key \in @ THEN @ ELSE @ \cup s.objs]
    BY <1>1 DEF StatementDone
  <2>2. /\ e.schema = IF s.key \in d.schema THEN d.schema ELSE d.schema \cup s.objs
        /\ e.invalid = d.invalid /\ e.rows = d.rows /\ e.ok = d.ok /\ Shape(e)
    BY <2>1 DEF Shape
  <2> HIDE DEF e
  <2>3. Closed(d) => Closed(e)
    BY <1>1, <2>2 DEF Closed, Fine, Whole
  <2>4. Guarded(d) => Guarded(e)
    BY <1>1, <2>2, UniqueNames DEF Guarded, Fine
  <2>5. \A o : Makes(s, o) => o \in e.schema
    BY <1>1, <2>2 DEF Makes
  <2> QED
    BY <2>2, <2>3, <2>4, <2>5 DEF e, Usable
<1>2. CASE s.op \in {"add", "build"}
  <2>1. e = [d EXCEPT !.schema = @ \cup s.objs]
    BY <1>2 DEF StatementDone
  <2>2. /\ e.schema = d.schema \cup s.objs
        /\ e.invalid = d.invalid /\ e.rows = d.rows /\ e.ok = d.ok /\ Shape(e)
    BY <2>1 DEF Shape
  <2>3. s.op = "build" /\ s.key \in d.schema => s.objs \subseteq d.schema
    BY <1>2 DEF Fine
  <2>4. ~ (s.op = "build" /\ s.key \in d.schema) => s.bad \cap d.rows = {}
    BY <1>2 DEF StatementFails
  <2> HIDE DEF e
  <2>5. Closed(d) => Closed(e)
    BY <1>2, <2>2 DEF Closed, Fine, Whole
  <2>6. Guarded(d) => Guarded(e)
    BY <1>2, <2>2, <2>3, <2>4 DEF Guarded, Fine
  <2>7. \A o : Makes(s, o) => o \in e.schema
    BY <1>2, <2>2 DEF Makes
  <2> QED
    BY <2>2, <2>5, <2>6, <2>7 DEF e, Usable
<1>3. CASE s.op \in {"drop", "clear"}
  <2>1. e = [d EXCEPT !.schema = @ \ s.objs, !.invalid = @ \ s.objs]
    BY <1>3 DEF StatementDone
  <2>2. /\ e.schema = d.schema \ s.objs
        /\ e.invalid = d.invalid \ s.objs /\ e.rows = d.rows /\ e.ok = d.ok /\ Shape(e)
    BY <2>1 DEF Shape
  <2> HIDE DEF e
  <2>3. Closed(d) => Closed(e)
    BY <1>3, <2>2 DEF Closed, Fine
  <2>4. Guarded(d) => Guarded(e)
    BY <2>2 DEF Guarded
  <2> QED
    BY <1>3, <2>2, <2>3, <2>4 DEF e, Removes, Makes, Usable
<1>4. CASE s.op = "dropTable"
  <2> DEFINE t == s.key[1]
  <2>1. e = [schema |-> {o \in d.schema : o[1] # t}, invalid |-> {o \in d.invalid : o[1] # t},
             rows |-> {p \in d.rows : Home[p] # t}, ok |-> TRUE]
    BY <1>4 DEF StatementDone
  <2>2. /\ e.schema = {o \in d.schema : o[1] # t} /\ e.invalid = {o \in d.invalid : o[1] # t}
        /\ e.rows \subseteq d.rows /\ e.ok = TRUE /\ Shape(e)
    BY <2>1 DEF Shape
  <2> HIDE DEF e
  <2>3. Closed(d) => Closed(e)
    <3>1. Whole(t)[1] = t
      BY DEF Whole
    <3> SUFFICES ASSUME Closed(d), NEW o \in Created, Whole(o[1]) \in e.schema PROVE o \in e.schema
      BY DEF Closed
    <3>2. Whole(o[1]) \in d.schema /\ Whole(o[1])[1] # t
      BY <2>2
    <3>3. o[1] # t
      BY <3>2 DEF Whole
    <3> QED
      BY <2>2, <3>2, <3>3 DEF Closed
  <2>4. Guarded(d) => Guarded(e)
    BY <2>2 DEF Guarded
  <2> QED
    BY <1>4, <2>2, <2>3, <2>4 DEF e, Removes, Makes, Usable
<1>5. CASE s.op = "reference"
  <2>1. e = [d EXCEPT !.schema = @ \cup FreeKey(s.key[1], @)]
    BY <1>5 DEF StatementDone
  <2> DEFINE keys == FreeKey(s.key[1], d.schema)
  <2>2. /\ e.schema = d.schema \cup keys
        /\ e.invalid = d.invalid /\ e.rows = d.rows /\ e.ok = d.ok /\ Shape(e)
    BY <2>1 DEF Shape
  <2>3. \A o \in keys : o[2] # "table" /\ o[2] \notin Uniques
    BY KeyNames
  <2> HIDE DEF e, keys
  <2>4. Closed(d) => Closed(e)
    BY <2>2, <2>3 DEF Closed, Whole
  <2>5. Guarded(d) => Guarded(e)
    BY <2>2, <2>3, UniqueNames DEF Guarded
  <2> QED
    BY <1>5, <2>2, <2>4, <2>5 DEF e, Makes, Usable
<1>6. CASE s.op \in {"delete", "spread"}
  <2>1. e = IF s.op = "delete" THEN [d EXCEPT !.rows = @ \ s.bad]
            ELSE [d EXCEPT !.rows = IF s.key \in @ THEN @ \cup s.bad ELSE @]
    BY <1>6 DEF StatementDone
  <2>2. /\ e.schema = d.schema /\ e.invalid = d.invalid /\ e.ok = d.ok /\ Shape(e)
        /\ \A p \in DOMAIN UniqueName : p \in e.rows => p \in d.rows
    <3>1. CASE s.op = "delete"
      BY <2>1, <3>1 DEF Shape
    <3>2. CASE s.op = "spread"
      <4>1. s.bad \cap DOMAIN UniqueName = {}
        BY <3>2 DEF Fine
      <4> QED
        BY <2>1, <3>2, <4>1 DEF Shape
    <3> QED
      BY <1>6, <3>1, <3>2
  <2> HIDE DEF e
  <2> QED
    BY <1>6, <2>2 DEF e, Makes, Closed, Guarded, Usable
<1>7. CASE s.op \notin {"ensure", "add", "build", "drop", "clear", "dropTable", "reference",
                      "delete", "spread"}
  BY <1>7 DEF StatementDone, Makes
<1> QED
  BY <1>1, <1>2, <1>3, <1>4, <1>5, <1>6, <1>7

\* Any statement, failed or not: what it leaves, and what it makes where all is well.
LEMMA DoFacts ==
    ASSUME NEW d, Shape(d), NEW s, Fine(s)
    PROVE  /\ Shape(Do(d, s))
           /\ \A o : o \in d.schema /\ ~Removes(s, o) => o \in Do(d, s).schema
           /\ Do(d, s).ok => d.ok /\ \A o : Makes(s, o) => o \in Do(d, s).schema
           /\ Closed(d) => Closed(Do(d, s))
           /\ Guarded(d) => Guarded(Do(d, s))
           /\ Usable(d) => Usable(Do(d, s))
<1>1. CASE ~d.ok
  BY <1>1 DEF Do
<1>2. CASE d.ok /\ ~StatementFails(d, s)
  BY <1>2, DoneFacts DEF Do
<1>3. CASE d.ok /\ StatementFails(d, s)
  <2>1. CASE ~Building(d.schema, s)
    <3> DEFINE e == [d EXCEPT !.ok = FALSE]
    <3>1. Do(d, s) = e
      BY <1>3, <2>1 DEF Do
    <3>2. e = [schema |-> d.schema, invalid |-> d.invalid, rows |-> d.rows, ok |-> FALSE]
      <4>1. \A x : [d EXCEPT !.ok = x] =
                     [schema |-> d.schema, invalid |-> d.invalid, rows |-> d.rows, ok |-> x]
        BY DEF Shape
      <4> QED
        BY <4>1, Zenon
    <3>3. /\ e.schema = d.schema /\ e.invalid = d.invalid /\ e.rows = d.rows /\ e.ok = FALSE
          /\ Shape(e)
      BY <3>2 DEF Shape
    <3> HIDE DEF e
    <3> QED
      BY <3>1, <3>3 DEF Closed, Guarded, Usable
  <2>2. CASE Building(d.schema, s)
    <3> DEFINE e == [d EXCEPT !.ok = FALSE, !.schema = @ \cup s.objs, !.invalid = @ \cup s.objs]
    <3>1. Do(d, s) = e
      BY <1>3, <2>2 DEF Do
    <3>6. ASSUME NEW x, NEW r,
                 r = [d EXCEPT !.ok = x, !.schema = @ \cup s.objs, !.invalid = @ \cup s.objs]
          PROVE  /\ r.schema = d.schema \cup s.objs /\ r.invalid = d.invalid \cup s.objs
                 /\ r.rows = d.rows /\ r.ok = x
                 /\ r = [schema |-> r.schema, invalid |-> r.invalid, rows |-> r.rows, ok |-> r.ok]
      BY <3>6 DEF Shape
    <3>7. /\ e.schema = d.schema \cup s.objs /\ e.invalid = d.invalid \cup s.objs
          /\ e.rows = d.rows /\ e.ok = FALSE
          /\ e = [schema |-> e.schema, invalid |-> e.invalid, rows |-> e.rows, ok |-> e.ok]
      BY <3>6, Zenon
    <3>2. /\ e.schema = d.schema \cup s.objs /\ e.invalid = d.invalid \cup s.objs
          /\ e.rows = d.rows /\ e.ok = FALSE /\ Shape(e)
      BY <3>7, Zenon DEF Shape
    <3>3. \A o \in s.objs : o[2] # "table"
      BY <2>2 DEF Fine, Building
    <3>8. s.objs \cap Models \subseteq BuiltOnline
      BY <2>2 DEF Fine, Building
    <3> HIDE DEF e
    <3>9. Usable(d) => Usable(e)
      BY <3>2, <3>8 DEF Usable
    <3>4. Closed(d) => Closed(e)
      BY <3>2, <3>3 DEF Closed, Whole
    <3>5. Guarded(d) => Guarded(e)
      BY <3>2 DEF Guarded
    <3> QED
      BY <3>1, <3>2, <3>4, <3>5, <3>9
  <2> QED
    BY <2>1, <2>2
<1> QED
  BY <1>1, <1>2, <1>3

\* A transaction, as a whole.
LEMMA RunKeeps ==
    ASSUME NEW d, Shape(d), NEW statements, Len(statements) \in Nat,
           \A i \in 1..Len(statements) : Fine(statements[i])
    PROVE  /\ Closed(d) => Closed(Run(d, statements))
           /\ Guarded(d) => Guarded(Run(d, statements))
           /\ Usable(d) => Usable(Run(d, statements))
           /\ \A o \in d.schema :
                (\A i \in 1..Len(statements) : ~Removes(statements[i], o))
                    => o \in Run(d, statements).schema
<1> DEFINE n == Len(statements)
<1>1. PICK f : /\ f[0] = d
               /\ \A i \in 1..n : f[i] = Do(f[i - 1], statements[i])
               /\ Run(d, statements) = f[n]
  BY RunFacts
<1> DEFINE Left(o) == \A i \in 1..n : ~Removes(statements[i], o)
           Good == {k \in 0..n : /\ Shape(f[k])
                                 /\ Closed(d) => Closed(f[k])
                                 /\ Guarded(d) => Guarded(f[k])
                                 /\ Usable(d) => Usable(f[k])
                                 /\ \A o \in d.schema : Left(o) => o \in f[k].schema}
<1>2. 0 \in Good
  BY <1>1
<1>3. ASSUME NEW k \in 1..n, k - 1 \in Good PROVE k \in Good
  <2>1. f[k] = Do(f[k - 1], statements[k]) /\ Fine(statements[k]) /\ Shape(f[k - 1])
    BY <1>1, <1>3
  <2>2. /\ Shape(f[k])
        /\ \A o : o \in f[k - 1].schema /\ ~Removes(statements[k], o) => o \in f[k].schema
        /\ Closed(f[k - 1]) => Closed(f[k])
        /\ Guarded(f[k - 1]) => Guarded(f[k])
        /\ Usable(f[k - 1]) => Usable(f[k])
    BY <2>1, DoFacts
  <2> QED
    BY <1>3, <2>2
<1> HIDE DEF Good
<1>4. n \in Good
  BY <1>2, <1>3, Climb
<1> QED
  BY <1>1, <1>4 DEF Good

LEMMA RunMakes ==
    ASSUME NEW d, Shape(d), NEW statements, Len(statements) \in Nat,
           \A i \in 1..Len(statements) : Fine(statements[i]),
           Run(d, statements).ok,
           NEW o, NEW m \in 1..Len(statements), Makes(statements[m], o),
           \A i \in (m + 1)..Len(statements) : ~Removes(statements[i], o)
    PROVE  o \in Run(d, statements).schema
<1> DEFINE n == Len(statements)
<1>1. PICK f : /\ f[0] = d
               /\ \A i \in 1..n : f[i] = Do(f[i - 1], statements[i])
               /\ Run(d, statements) = f[n]
  BY RunFacts
<1> DEFINE Good == {k \in 0..n : Shape(f[k]) /\ (k >= m /\ f[k].ok => o \in f[k].schema)}
<1>2. 0 \in Good
  BY <1>1
<1>3. ASSUME NEW k \in 1..n, k - 1 \in Good PROVE k \in Good
  <2>1. f[k] = Do(f[k - 1], statements[k]) /\ Fine(statements[k]) /\ Shape(f[k - 1])
    BY <1>1, <1>3
  <2>2. /\ Shape(f[k])
        /\ o \in f[k - 1].schema /\ ~Removes(statements[k], o) => o \in f[k].schema
        /\ f[k].ok => f[k - 1].ok /\ (Makes(statements[k], o) => o \in f[k].schema)
    BY <2>1, DoFacts
  <2>3. CASE k <= m
    BY <2>2, <2>3
  <2>4. CASE k > m
    BY <1>3, <2>2, <2>4
  <2> QED
    BY <2>3, <2>4
<1> HIDE DEF Good
<1>4. n \in Good
  BY <1>2, <1>3, Climb
<1> QED
  BY <1>1, <1>4 DEF Good

-----------------------------------------------------------------------------
\* What the statements of a migration are.

Elements(L) == {L[i] : i \in 1..Len(L)}

\* Nothing the models need goes, or nothing an earlier migration made.
Lasting(s) == \A b \in Births : ~Removes(s, b[1])
Spares(s, k) == \A b \in Births : b[2] < k => ~Removes(s, b[1])

Plain(o) == o[2] \notin Uniques \cup {"table"}

LEMMA NeedFine == ASSUME NEW objs PROVE Fine(Need(objs)) /\ Lasting(Need(objs))
BY DEF Need, Statement, Fine, Lasting, Removes

LEMMA RefuseFine == ASSUME NEW bad PROVE Fine(Refuse(bad)) /\ Lasting(Refuse(bad))
BY DEF Refuse, Statement, Fine, Lasting, Removes

LEMMA UnusedFine == ASSUME NEW objs PROVE Fine(Unused(objs)) /\ Lasting(Unused(objs))
BY DEF Unused, Statement, Fine, Lasting, Removes

LEMMA DeleteFine == ASSUME NEW bad PROVE Fine(Delete(bad)) /\ Lasting(Delete(bad))
BY DEF Delete, Statement, Fine, Lasting, Removes

LEMMA ReferenceFine == ASSUME NEW t PROVE Fine(Reference(t)) /\ Lasting(Reference(t))
BY DEF Reference, Statement, Fine, Lasting, Removes

LEMMA SpreadFine ==
    ASSUME NEW from, NEW to, to \notin DOMAIN UniqueName
    PROVE  Fine(Spread(from, to)) /\ Lasting(Spread(from, to))
BY DEF Spread, Statement, Fine, Lasting, Removes

LEMMA EnsureFine ==
    ASSUME NEW o, Plain(o)
    PROVE  Fine(Ensure(o)) /\ Lasting(Ensure(o)) /\ Makes(Ensure(o), o)
BY DEF Ensure, Statement, Fine, Lasting, Removes, Makes, Plain

LEMMA AddFine ==
    ASSUME NEW objs, \A o \in objs : Plain(o)
    PROVE  /\ Fine(Add(objs)) /\ Lasting(Add(objs))
           /\ \A o \in objs : Makes(Add(objs), o)
BY UniqueNames DEF Add, Statement, Fine, Lasting, Removes, Makes, Plain

LEMMA AddUniqueFine ==
    ASSUME NEW o, NEW bad, o[2] # "table",
           \A p \in DOMAIN UniqueName : UniqueName[p] = o => p \in bad
    PROVE  /\ Fine(AddUnique(o, bad)) /\ Lasting(AddUnique(o, bad))
           /\ Makes(AddUnique(o, bad), o)
BY DEF AddUnique, Statement, Fine, Lasting, Removes, Makes

LEMMA ClearFine ==
    ASSUME NEW objs, objs \cap Created = {}
    PROVE  /\ Fine(Clear(objs)) /\ Fine(Drop(objs))
           /\ (\A b \in Births : b[1] \notin objs) => Lasting(Clear(objs)) /\ Lasting(Drop(objs))
           /\ \A k : (\A b \in Births : b[2] < k => b[1] \notin objs)
                        => Spares(Clear(objs), k) /\ Spares(Drop(objs), k)
BY DEF Clear, Drop, Statement, Fine, Lasting, Spares, Removes

LEMMA DropTableFine ==
    ASSUME NEW t, NEW k, \A b \in Births : b[2] < k => b[1][1] # t
    PROVE  Fine(DropTable(t)) /\ Spares(DropTable(t), k)
<1>1. Whole(t)[1] = t
  BY DEF Whole
<1> QED
  BY <1>1 DEF DropTable, Statement, Fine, Spares, Removes

LEMMA TableFine ==
    ASSUME NEW t, NEW names, \A c \in names : c \notin Uniques \cup {"table"},
           \A c \in Created : c = <<c[1], c[2]>> /\ (c[1] = t => c[2] \in names)
    PROVE  /\ Fine(Table(t, names)) /\ Lasting(Table(t, names))
           /\ Makes(Table(t, names), Whole(t))
<1> DEFINE s == Table(t, names)
<1>1. /\ s.op = "ensure" /\ s.key = <<t, "table">>
      /\ s.objs = {<<t, c>> : c \in names \cup {"table"}} /\ s.bad = {}
  BY DEF Table, Statement, In, Whole
<1> HIDE DEF s
<1>2. "table" \notin Uniques
  BY DEF Uniques
<1>3. ASSUME NEW o \in s.objs, o[2] = "table"
      PROVE  s.key = o /\ \A c \in Created : c[1] = o[1] => c \in s.objs
  BY <1>1, <1>3
<1>4. Fine(s)
  BY <1>1, <1>2, <1>3 DEF Fine
<1>5. Lasting(s) /\ Makes(s, Whole(t))
  BY <1>1 DEF Lasting, Removes, Makes, Whole
<1> QED
  BY <1>4, <1>5 DEF s

-----------------------------------------------------------------------------
\* Tuples and their joins.

LEMMA Tuples ==
    /\ \A a : Len(<<a>>) = 1 /\ Elements(<<a>>) = {a}
    /\ \A a, b : Len(<<a, b>>) = 2 /\ Elements(<<a, b>>) = {a, b}
    /\ \A a, b, c : Len(<<a, b, c>>) = 3 /\ Elements(<<a, b, c>>) = {a, b, c}
    /\ \A a, b, c, d : Len(<<a, b, c, d>>) = 4 /\ Elements(<<a, b, c, d>>) = {a, b, c, d}
    /\ \A a, b, c, d, e : /\ Len(<<a, b, c, d, e>>) = 5
                          /\ Elements(<<a, b, c, d, e>>) = {a, b, c, d, e}
    /\ \A a, b, c, d, e, f : /\ Len(<<a, b, c, d, e, f>>) = 6
                             /\ Elements(<<a, b, c, d, e, f>>) = {a, b, c, d, e, f}
<1>1. \A a : Len(<<a>>) = 1 /\ Elements(<<a>>) = {a}
  BY DEF Elements
<1>2. \A a, b : Len(<<a, b>>) = 2 /\ Elements(<<a, b>>) = {a, b}
  BY DEF Elements
<1>3. \A a, b, c : Len(<<a, b, c>>) = 3 /\ Elements(<<a, b, c>>) = {a, b, c}
  BY DEF Elements
<1>4. \A a, b, c, d : Len(<<a, b, c, d>>) = 4 /\ Elements(<<a, b, c, d>>) = {a, b, c, d}
  BY DEF Elements
<1>5. \A a, b, c, d, e : /\ Len(<<a, b, c, d, e>>) = 5
                         /\ Elements(<<a, b, c, d, e>>) = {a, b, c, d, e}
  BY DEF Elements
<1>6. \A a, b, c, d, e, f : /\ Len(<<a, b, c, d, e, f>>) = 6
                            /\ Elements(<<a, b, c, d, e, f>>) = {a, b, c, d, e, f}
  BY DEF Elements
<1> QED
  BY <1>1, <1>2, <1>3, <1>4, <1>5, <1>6

LEMMA Joined ==
    ASSUME NEW S, NEW s \in Seq(S), NEW t \in Seq(S)
    PROVE  /\ s \o t \in Seq(S) /\ Len(s \o t) = Len(s) + Len(t)
           /\ Elements(s \o t) = Elements(s) \cup Elements(t)
<1>1. /\ s \o t \in Seq(S) /\ Len(s \o t) = Len(s) + Len(t)
      /\ \A i \in 1..Len(s) : (s \o t)[i] = s[i]
      /\ \A i \in 1..Len(t) : (s \o t)[Len(s) + i] = t[i]
  OBVIOUS
<1>2. Len(s) \in Nat /\ Len(t) \in Nat
  OBVIOUS
<1> DEFINE u == s \o t
<1> HIDE DEF u
<1>3. ASSUME NEW i \in 1..Len(u) PROVE u[i] \in Elements(s) \cup Elements(t)
  <2>1. CASE i <= Len(s)
    <3>1. i \in 1..Len(s) /\ u[i] = s[i]
      BY <1>1, <1>2, <2>1 DEF u
    <3> QED
      BY <3>1 DEF Elements
  <2>2. CASE i > Len(s)
    <3>1. i - Len(s) \in 1..Len(t) /\ i = Len(s) + (i - Len(s))
      BY <1>1, <1>2, <2>2 DEF u
    <3>2. u[Len(s) + (i - Len(s))] = t[i - Len(s)]
      BY <1>1, <3>1 DEF u
    <3> QED
      BY <3>1, <3>2 DEF Elements
  <2> QED
    BY <1>1, <1>2, <2>1, <2>2 DEF u
<1>4. Elements(s) \subseteq Elements(u)
  BY <1>1, <1>2 DEF Elements, u
<1>5. ASSUME NEW i \in 1..Len(t) PROVE t[i] \in Elements(u)
  <2>1. Len(s) + i \in 1..Len(u) /\ u[Len(s) + i] = t[i]
    BY <1>1, <1>2 DEF u
  <2> QED
    BY <2>1 DEF Elements
<1>6. Elements(t) \subseteq Elements(u)
  BY <1>5 DEF Elements
<1>7. Elements(u) \subseteq Elements(s) \cup Elements(t)
  BY <1>3 DEF Elements
<1> QED
  BY <1>1, <1>4, <1>6, <1>7 DEF u

-----------------------------------------------------------------------------
\* The objects the models need, table by table.

LEMMA BirthTables ==
    \A b \in Births :
        /\ b[2] \in 1..29
        /\ b[1][1] = "users" => b[2] >= 3
        /\ b[1][1] = "metric_categories" => b[2] >= 4
        /\ b[1][1] = "metrics" => b[2] >= 5
        /\ b[1][1] = "metric_settings" => b[2] >= 6
        /\ b[1][1] = "metric_logs" => b[2] >= 7
        /\ b[1][1] = "processed_messages" => b[2] >= 13
        /\ b[1][1] = "password_reset_tokens" => b[2] >= 14
        /\ b[1][1] = "refresh_tokens" => b[2] >= 15
        /\ b[1][1] = "email_verification_tokens" => b[2] >= 17
        /\ b[1][1] = "organizations" => b[2] >= 18
        /\ b[1][1] = "memberships" => b[2] >= 19
        /\ b[1][1] = "organization_invites" => b[2] >= 20
        /\ b[1][1] # "type"
BY DEF Births, Whole, PendingInvite, KeyOf

LEMMA BirthNames ==
    \A b \in Births :
        /\ b[1] = <<b[1][1], b[1][2]>>
        /\ \/ b[1][2] = "table"
           \/ b[1][2] = "uq_metric_logs_metric_id_logged_at" /\ b[2] = 7
           \/ b[1][2] = "uq_metric_categories_user_name" /\ b[2] = 8
           \/ b[1][2] = "uq_metrics_user_name" /\ b[2] = 9
           \/ b[1][2] = "uq_metric_settings_metric" /\ b[2] = 10
           \/ b[1][2] = "email_verified_at" /\ b[2] = 16
           \/ b[1][2] = "uq_memberships_user_organization" /\ b[2] = 19
           \/ b[1][2] = "organization_id" /\ b[2] \in {22, 24}
           \/ b[1][2] = "status" /\ b[2] = 25
           \/ b[1][2] = "uq_organization_invites_pending_email" /\ b[2] = 28
           \/ b[1][2] = "key_message_id_queue" /\ b[2] = 29
        /\ b[1][2] = "organization_id" => (b[2] = 24 <=> b[1][1] = "refresh_tokens")
BY DEF Births, Whole, PendingInvite, KeyOf

\* The columns each model reads.
LEMMA ModelColumns ==
    /\ \A o \in UserModel : o = <<"users", o[2]>> /\ o[2] \in
         {"id", "created_at", "updated_at", "username", "email", "password",
          "is_public_profile", "email_verified_at", "deleted_at", "username_unique",
          "email_unique"}
    /\ \A o \in RefreshTokenModel : o = <<"refresh_tokens", o[2]>> /\ o[2] \in
         {"id", "created_at", "updated_at", "user_id", "organization_id", "family_id",
          "token_hash", "issued_at", "expires_at", "revoked_at", "replaced_by_id",
          "user_agent", "ip", "token_hash_unique"}
    /\ \A o \in PasswordResetTokenModel : o = <<"password_reset_tokens", o[2]>> /\ o[2] \in
         {"id", "created_at", "updated_at", "user_id", "token_hash", "expires_at",
          "used_at", "token_hash_unique"}
    /\ \A o \in EmailVerificationTokenModel :
         o = <<"email_verification_tokens", o[2]>> /\ o[2] \in
         {"id", "created_at", "updated_at", "user_id", "token_hash", "expires_at",
          "used_at", "token_hash_unique"}
    /\ \A o \in OrganizationModel : o = <<"organizations", o[2]>> /\ o[2] \in
         {"id", "created_at", "updated_at", "name", "slug", "deleted_at", "slug_unique"}
    /\ \A o \in MembershipModel : o = <<"memberships", o[2]>> /\ o[2] \in
         {"id", "created_at", "updated_at", "user_id", "organization_id", "role", "status",
          "joined_at", "uq_memberships_user_organization"}
    /\ \A o \in OrganizationInviteModel : o = <<"organization_invites", o[2]>> /\ o[2] \in
         {"id", "organization_id", "email", "role", "token_hash", "expires_at",
          "accepted_at", "created_at", "uq_organization_invites_pending_email"}
    /\ \A o \in CategoryModel : o = <<"metric_categories", o[2]>> /\ o[2] \in
         {"id", "created_at", "updated_at", "user_id", "organization_id", "name", "color",
          "icon", "deleted_at", "uq_metric_categories_user_name"}
    /\ \A o \in MetricModel : o = <<"metrics", o[2]>> /\ o[2] \in
         {"id", "created_at", "updated_at", "user_id", "organization_id", "category_id",
          "original_metric_id", "name", "description", "default_unit", "is_public",
          "deleted_at", "uq_metrics_user_name"}
    /\ \A o \in SettingsModel : o = <<"metric_settings", o[2]>> /\ o[2] \in
         {"id", "created_at", "updated_at", "metric_id", "organization_id", "goal_enabled",
          "goal_type", "goal_value", "time_frame_enabled", "start_date", "deadline_date",
          "alert_enabled", "alert_thresholds", "is_achieved", "is_active",
          "display_options", "uq_metric_settings_metric"}
    /\ \A o \in LogModel : o = <<"metric_logs", o[2]>> /\ o[2] \in
         {"id", "created_at", "updated_at", "metric_id", "organization_id", "log_value",
          "type", "logged_at", "uq_metric_logs_metric_id_logged_at"}
    /\ \A o \in ProcessedMessageModel : o = <<"processed_messages", o[2]>> /\ o[2] \in
         {"message_id", "queue", "organization_id", "processed_at", "key_message_id_queue"}
<1>1. \A o \in UserModel : o = <<"users", o[2]>> /\ o[2] \in
         {"id", "created_at", "updated_at", "username", "email", "password",
          "is_public_profile", "email_verified_at", "deleted_at", "username_unique",
          "email_unique"}
  BY DEF UserModel, In, Row, Stamps
<1>2. \A o \in RefreshTokenModel : o = <<"refresh_tokens", o[2]>> /\ o[2] \in
         {"id", "created_at", "updated_at", "user_id", "organization_id", "family_id",
          "token_hash", "issued_at", "expires_at", "revoked_at", "replaced_by_id",
          "user_agent", "ip", "token_hash_unique"}
  BY DEF RefreshTokenModel, In, Row, Stamps
<1>3. \A o \in PasswordResetTokenModel : o = <<"password_reset_tokens", o[2]>> /\ o[2] \in
         {"id", "created_at", "updated_at", "user_id", "token_hash", "expires_at",
          "used_at", "token_hash_unique"}
  BY DEF PasswordResetTokenModel, In, Row, Stamps
<1>4. \A o \in EmailVerificationTokenModel :
         o = <<"email_verification_tokens", o[2]>> /\ o[2] \in
         {"id", "created_at", "updated_at", "user_id", "token_hash", "expires_at",
          "used_at", "token_hash_unique"}
  BY DEF EmailVerificationTokenModel, In, Row, Stamps
<1>5. \A o \in OrganizationModel : o = <<"organizations", o[2]>> /\ o[2] \in
         {"id", "created_at", "updated_at", "name", "slug", "deleted_at", "slug_unique"}
  BY DEF OrganizationModel, In, Row, Stamps
<1>6. \A o \in MembershipModel : o = <<"memberships", o[2]>> /\ o[2] \in
         {"id", "created_at", "updated_at", "user_id", "organization_id", "role", "status",
          "joined_at", "uq_memberships_user_organization"}
  BY DEF MembershipModel, In, Row, Stamps
<1>7. \A o \in OrganizationInviteModel : o = <<"organization_invites", o[2]>> /\ o[2] \in
         {"id", "organization_id", "email", "role", "token_hash", "expires_at",
          "accepted_at", "created_at", "uq_organization_invites_pending_email"}
  BY DEF OrganizationInviteModel, In, Row, Stamps
<1>8. \A o \in CategoryModel : o = <<"metric_categories", o[2]>> /\ o[2] \in
         {"id", "created_at", "updated_at", "user_id", "organization_id", "name", "color",
          "icon", "deleted_at", "uq_metric_categories_user_name"}
  BY DEF CategoryModel, In, Row, Stamps
<1>9. \A o \in MetricModel : o = <<"metrics", o[2]>> /\ o[2] \in
         {"id", "created_at", "updated_at", "user_id", "organization_id", "category_id",
          "original_metric_id", "name", "description", "default_unit", "is_public",
          "deleted_at", "uq_metrics_user_name"}
  BY DEF MetricModel, In, Row, Stamps
<1>10. \A o \in SettingsModel : o = <<"metric_settings", o[2]>> /\ o[2] \in
         {"id", "created_at", "updated_at", "metric_id", "organization_id", "goal_enabled",
          "goal_type", "goal_value", "time_frame_enabled", "start_date", "deadline_date",
          "alert_enabled", "alert_thresholds", "is_achieved", "is_active",
          "display_options", "uq_metric_settings_metric"}
  BY DEF SettingsModel, In, Row, Stamps
<1>11. \A o \in LogModel : o = <<"metric_logs", o[2]>> /\ o[2] \in
         {"id", "created_at", "updated_at", "metric_id", "organization_id", "log_value",
          "type", "logged_at", "uq_metric_logs_metric_id_logged_at"}
  BY DEF LogModel, In, Row, Stamps
<1>12. \A o \in ProcessedMessageModel : o = <<"processed_messages", o[2]>> /\ o[2] \in
         {"message_id", "queue", "organization_id", "processed_at", "key_message_id_queue"}
  BY DEF ProcessedMessageModel, In, Row, Stamps
<1> QED
  BY <1>1, <1>2, <1>3, <1>4, <1>5, <1>6, <1>7, <1>8, <1>9, <1>10, <1>11, <1>12

LEMMA BirthsStay ==
    /\ <<"users", "email_verified_at">> \notin Created
    /\ <<"refresh_tokens", "organization_id">> \notin Created
    /\ <<"memberships", "status">> \notin Created
    /\ <<"memberships", "uq_memberships_user_organization">> \notin Created
    /\ <<"organization_invites", "uq_organization_invites_pending_email">> \notin Created
    /\ <<"metric_categories", "organization_id">> \notin Created
    /\ <<"metric_categories", "uq_metric_categories_user_name">> \notin Created
    /\ <<"metrics", "organization_id">> \notin Created
    /\ <<"metrics", "uq_metrics_user_name">> \notin Created
    /\ <<"metric_settings", "organization_id">> \notin Created
    /\ <<"metric_settings", "uq_metric_settings_metric">> \notin Created
    /\ <<"metric_logs", "organization_id">> \notin Created
    /\ <<"metric_logs", "uq_metric_logs_metric_id_logged_at">> \notin Created
    /\ <<"processed_messages", "organization_id">> \notin Created
    /\ <<"processed_messages", "key_message_id_queue">> \notin Created
<1>1. \A o, k : <<o, k>> \in Births => o \notin Created
  BY DEF Created
<1>2. <<<<"users", "email_verified_at">>, 16>> \in Births
  BY DEF Births, PendingInvite, KeyOf
<1>3. <<<<"refresh_tokens", "organization_id">>, 24>> \in Births
  BY DEF Births, PendingInvite, KeyOf
<1>4. <<<<"memberships", "status">>, 25>> \in Births
  BY DEF Births, PendingInvite, KeyOf
<1>5. <<<<"memberships", "uq_memberships_user_organization">>, 19>> \in Births
  BY DEF Births, PendingInvite, KeyOf
<1>6. <<<<"organization_invites", "uq_organization_invites_pending_email">>, 28>> \in Births
  BY DEF Births, PendingInvite, KeyOf
<1>7. <<<<"metric_categories", "organization_id">>, 22>> \in Births
  BY DEF Births, PendingInvite, KeyOf
<1>8. <<<<"metric_categories", "uq_metric_categories_user_name">>, 8>> \in Births
  BY DEF Births, PendingInvite, KeyOf
<1>9. <<<<"metrics", "organization_id">>, 22>> \in Births
  BY DEF Births, PendingInvite, KeyOf
<1>10. <<<<"metrics", "uq_metrics_user_name">>, 9>> \in Births
  BY DEF Births, PendingInvite, KeyOf
<1>11. <<<<"metric_settings", "organization_id">>, 22>> \in Births
  BY DEF Births, PendingInvite, KeyOf
<1>12. <<<<"metric_settings", "uq_metric_settings_metric">>, 10>> \in Births
  BY DEF Births, PendingInvite, KeyOf
<1>13. <<<<"metric_logs", "organization_id">>, 22>> \in Births
  BY DEF Births, PendingInvite, KeyOf
<1>14. <<<<"metric_logs", "uq_metric_logs_metric_id_logged_at">>, 7>> \in Births
  BY DEF Births, PendingInvite, KeyOf
<1>15. <<<<"processed_messages", "organization_id">>, 22>> \in Births
  BY DEF Births, PendingInvite, KeyOf
<1>16. <<<<"processed_messages", "key_message_id_queue">>, 29>> \in Births
  BY DEF Births, PendingInvite, KeyOf
<1> QED
  BY <1>1, <1>2, <1>3, <1>4, <1>5, <1>6, <1>7, <1>8, <1>9, <1>10, <1>11, <1>12, <1>13, <1>14, <1>15, <1>16


\* Those that come with their table, and what none of them is called.
LEMMA CreatedColumns ==
    ASSUME NEW c \in Created
    PROVE  /\ c = <<c[1], c[2]>>
           /\ c[1] \in {"users", "refresh_tokens", "password_reset_tokens",
                        "email_verification_tokens", "organizations", "memberships",
                        "organization_invites", "metric_categories", "metrics",
                        "metric_settings", "metric_logs", "processed_messages"}
           /\ c[2] \notin Uniques \cup {"table"}
           /\ c[1] = "users" => c[2] \in
                {"id", "created_at", "updated_at", "username", "email", "password",
                 "is_public_profile", "deleted_at", "username_unique", "email_unique"}
           /\ c[1] = "refresh_tokens" => c[2] \in
                {"id", "created_at", "updated_at", "user_id", "family_id", "token_hash",
                 "issued_at", "expires_at", "revoked_at", "replaced_by_id", "user_agent", "ip",
                 "token_hash_unique"}
           /\ c[1] \in {"password_reset_tokens", "email_verification_tokens"} => c[2] \in
                {"id", "created_at", "updated_at", "user_id", "token_hash", "expires_at",
                 "used_at", "token_hash_unique"}
           /\ c[1] = "organizations" => c[2] \in
                {"id", "created_at", "updated_at", "name", "slug", "deleted_at", "slug_unique"}
           /\ c[1] = "memberships" => c[2] \in
                {"id", "created_at", "updated_at", "user_id", "organization_id", "role",
                 "joined_at"}
           /\ c[1] = "organization_invites" => c[2] \in
                {"id", "organization_id", "email", "role", "token_hash", "expires_at",
                 "accepted_at", "created_at"}
           /\ c[1] = "metric_categories" => c[2] \in
                {"id", "created_at", "updated_at", "user_id", "name", "color", "icon",
                 "deleted_at"}
           /\ c[1] = "metrics" => c[2] \in
                {"id", "created_at", "updated_at", "user_id", "category_id",
                 "original_metric_id", "name", "description", "default_unit", "is_public",
                 "deleted_at"}
           /\ c[1] = "metric_settings" => c[2] \in
                {"id", "created_at", "updated_at", "metric_id", "goal_enabled", "goal_type",
                 "goal_value", "time_frame_enabled", "start_date", "deadline_date",
                 "alert_enabled", "alert_thresholds", "is_achieved", "is_active",
                 "display_options"}
           /\ c[1] = "metric_logs" => c[2] \in
                {"id", "created_at", "updated_at", "metric_id", "log_value", "type",
                 "logged_at"}
           /\ c[1] = "processed_messages" => c[2] \in {"message_id", "queue", "processed_at"}
<1>1. c \in Models
  BY DEF Created
<1>2. c \in UserModel \/ c \in RefreshTokenModel \/ c \in PasswordResetTokenModel \/ c \in EmailVerificationTokenModel \/ c \in OrganizationModel \/ c \in MembershipModel \/ c \in OrganizationInviteModel \/ c \in CategoryModel \/ c \in MetricModel \/ c \in SettingsModel \/ c \in LogModel \/ c \in ProcessedMessageModel
  BY <1>1 DEF Models
<1>3. CASE c \in UserModel
  BY <1>3, ModelColumns, BirthsStay, SMT DEF Uniques
<1>4. CASE c \in RefreshTokenModel
  BY <1>4, ModelColumns, BirthsStay, SMT DEF Uniques
<1>5. CASE c \in PasswordResetTokenModel
  BY <1>5, ModelColumns, BirthsStay, SMT DEF Uniques
<1>6. CASE c \in EmailVerificationTokenModel
  BY <1>6, ModelColumns, BirthsStay, SMT DEF Uniques
<1>7. CASE c \in OrganizationModel
  BY <1>7, ModelColumns, BirthsStay, SMT DEF Uniques
<1>8. CASE c \in MembershipModel
  BY <1>8, ModelColumns, BirthsStay, SMT DEF Uniques
<1>9. CASE c \in OrganizationInviteModel
  BY <1>9, ModelColumns, BirthsStay, SMT DEF Uniques
<1>10. CASE c \in CategoryModel
  BY <1>10, ModelColumns, BirthsStay, SMT DEF Uniques
<1>11. CASE c \in MetricModel
  BY <1>11, ModelColumns, BirthsStay, SMT DEF Uniques
<1>12. CASE c \in SettingsModel
  BY <1>12, ModelColumns, BirthsStay, SMT DEF Uniques
<1>13. CASE c \in LogModel
  BY <1>13, ModelColumns, BirthsStay, SMT DEF Uniques
<1>14. CASE c \in ProcessedMessageModel
  BY <1>14, ModelColumns, BirthsStay, SMT DEF Uniques
<1> QED
  BY <1>2, <1>3, <1>4, <1>5, <1>6, <1>7, <1>8, <1>9, <1>10, <1>11, <1>12, <1>13, <1>14

\* The indexes built online that the models do not name.
IndexNames ==
    {"idx_metric_categories_user_active", "gin_metric_categories_name_trgm",
     "idx_metrics_user_created", "idx_metrics_user_updated", "idx_metrics_category_active",
     "idx_metrics_original_metric_active", "idx_metrics_id_user_active",
     "idx_metric_settings_active_metric", "idx_metric_settings_dashboard_flag",
     "idx_metric_logs_metric_created", "idx_metric_logs_metric_logged",
     "idx_metric_logs_metric_log_value", "brin_metric_logs_logged",
     "ix_metric_logs_metric_id_logged_at"}

LEMMA IndexesUnnamed ==
    /\ IndexNames \cap (Uniques \cup {"table"}) = {}
    /\ \A t : \A i \in IndexNames : <<t, i>> \notin Models
<1>1. IndexNames \cap (Uniques \cup {"table"}) = {}
  BY DEF IndexNames, Uniques
<1>2. ASSUME NEW c \in Created PROVE c[2] \notin IndexNames
  BY CreatedColumns, SMT DEF IndexNames
<1>3. ASSUME NEW b \in Births PROVE b[1][2] \notin IndexNames
  BY BirthNames, SMT DEF IndexNames
<1>4. ASSUME NEW t, NEW i \in IndexNames, <<t, i>> \in Models PROVE FALSE
  <2>1. <<t, i>>[2] = i
    OBVIOUS
  <2>2. <<t, i>> \in Created \/ \E b \in Births : b[1] = <<t, i>>
    BY <1>4 DEF Created
  <2> QED
    BY <1>2, <1>3, <2>1, <2>2
<1> QED
  BY <1>1, <1>4

LEMMA OnlineOnes ==
    /\ <<"metric_categories", "uq_metric_categories_user_name">> \in BuiltOnline
    /\ <<"metrics", "uq_metrics_user_name">> \in BuiltOnline
    /\ <<"metric_settings", "uq_metric_settings_metric">> \in BuiltOnline
<1>1. /\ UniqueName["dupCategory"] = <<"metric_categories", "uq_metric_categories_user_name">>
      /\ UniqueName["dupMetric"] = <<"metrics", "uq_metrics_user_name">>
      /\ UniqueName["dupSettings"] = <<"metric_settings", "uq_metric_settings_metric">>
  BY DEF UniqueName
<1>2. \A p \in {"dupCategory", "dupMetric", "dupSettings"} : UniqueName[p] \in BuiltOnline
  BY DEF BuiltOnline
<1> QED
  BY <1>1, <1>2

LEMMA BuildFine ==
    ASSUME NEW t, NEW i \in IndexNames
    PROVE  Fine(Build(t, i)) /\ Lasting(Build(t, i)) /\ Makes(Build(t, i), <<t, i>>)
<1>1. i \notin Uniques \cup {"table"} /\ <<t, i>> \notin Models
  BY IndexesUnnamed
<1> QED
  BY <1>1, UniqueNames DEF Build, Statement, Fine, Lasting, Removes, Makes

LEMMA BuildUniqueFine ==
    ASSUME NEW t, NEW i, NEW bad, i # "table", <<t, i>> \in BuiltOnline,
           \A p \in DOMAIN UniqueName : UniqueName[p] = <<t, i>> => p \in bad
    PROVE  /\ Fine(BuildUnique(t, i, bad)) /\ Lasting(BuildUnique(t, i, bad))
           /\ Makes(BuildUnique(t, i, bad), <<t, i>>)
BY DEF BuildUnique, Statement, Fine, Lasting, Removes, Makes

-----------------------------------------------------------------------------
\* Migration by migration: its statements are fine, it makes what it has to, and what
\* earlier ones made outlives it, done and undone.

IsList(s) == s \in Seq(Elements(s)) /\ Len(s) \in Nat

Ups(m, k) ==
    /\ IsList(m.up)
    /\ \A s \in Elements(m.up) : Fine(s) /\ Lasting(s)
    /\ \A b \in Births : b[2] = k => \E s \in Elements(m.up) : Makes(s, b[1])

Downs(m, k) ==
    /\ IsList(m.down)
    /\ \A s \in Elements(m.down) : Fine(s) /\ Spares(s, k)

LEMMA Lists ==
    /\ \A a : IsList(<<a>>)
    /\ \A a, b : IsList(<<a, b>>)
    /\ \A a, b, c : IsList(<<a, b, c>>)
    /\ \A a, b, c, d : IsList(<<a, b, c, d>>)
    /\ \A a, b, c, d, e : IsList(<<a, b, c, d, e>>)
    /\ \A a, b, c, d, e, f : IsList(<<a, b, c, d, e, f>>)
<1>1. ASSUME NEW a PROVE IsList(<<a>>)
  <2>1. <<a>> \in Seq({a})
    OBVIOUS
  <2>2. Elements(<<a>>) = {a} /\ Len(<<a>>) = 1
    BY Tuples
  <2> QED
    BY <2>1, <2>2 DEF IsList
<1>2. ASSUME NEW a, NEW b PROVE IsList(<<a, b>>)
  <2>1. <<a, b>> \in Seq({a, b})
    OBVIOUS
  <2>2. Elements(<<a, b>>) = {a, b} /\ Len(<<a, b>>) = 2
    BY Tuples
  <2> QED
    BY <2>1, <2>2 DEF IsList
<1>3. ASSUME NEW a, NEW b, NEW c PROVE IsList(<<a, b, c>>)
  <2>1. <<a, b, c>> \in Seq({a, b, c})
    OBVIOUS
  <2>2. Elements(<<a, b, c>>) = {a, b, c} /\ Len(<<a, b, c>>) = 3
    BY Tuples
  <2> QED
    BY <2>1, <2>2 DEF IsList
<1>4. ASSUME NEW a, NEW b, NEW c, NEW d PROVE IsList(<<a, b, c, d>>)
  <2>1. <<a, b, c, d>> \in Seq({a, b, c, d})
    OBVIOUS
  <2>2. Elements(<<a, b, c, d>>) = {a, b, c, d} /\ Len(<<a, b, c, d>>) = 4
    BY Tuples
  <2> QED
    BY <2>1, <2>2 DEF IsList
<1>5. ASSUME NEW a, NEW b, NEW c, NEW d, NEW e PROVE IsList(<<a, b, c, d, e>>)
  <2>1. <<a, b, c, d, e>> \in Seq({a, b, c, d, e})
    OBVIOUS
  <2>2. Elements(<<a, b, c, d, e>>) = {a, b, c, d, e} /\ Len(<<a, b, c, d, e>>) = 5
    BY Tuples
  <2> QED
    BY <2>1, <2>2 DEF IsList
<1>6. ASSUME NEW a, NEW b, NEW c, NEW d, NEW e, NEW f PROVE IsList(<<a, b, c, d, e, f>>)
  <2>1. <<a, b, c, d, e, f>> \in Seq({a, b, c, d, e, f})
    OBVIOUS
  <2>2. Elements(<<a, b, c, d, e, f>>) = {a, b, c, d, e, f} /\ Len(<<a, b, c, d, e, f>>) = 6
    BY Tuples
  <2> QED
    BY <2>1, <2>2 DEF IsList
<1> QED
  BY <1>1, <1>2, <1>3, <1>4, <1>5, <1>6

LEMMA ListsJoined ==
    ASSUME NEW s, NEW t, IsList(s), IsList(t)
    PROVE  IsList(s \o t) /\ Elements(s \o t) = Elements(s) \cup Elements(t)
<1> DEFINE S == Elements(s) \cup Elements(t)
<1>1. s \in Seq(S) /\ t \in Seq(S)
  BY DEF IsList
<1>2. s \o t \in Seq(S) /\ Elements(s \o t) = S
  BY <1>1, Joined
<1> HIDE DEF S
<1>3. Len(s \o t) \in Nat
  BY <1>2
<1> QED
  BY <1>2, <1>3 DEF IsList, S

LEMMA LastingSpares == ASSUME NEW s, NEW k, Lasting(s) PROVE Spares(s, k)
BY DEF Lasting, Spares

LEMMA UniqueOf ==
    /\ \A p \in DOMAIN UniqueName :
         UniqueName[p] = <<"metric_categories", "uq_metric_categories_user_name">>
             => p \in {"dupCategory"}
    /\ \A p \in DOMAIN UniqueName :
         UniqueName[p] = <<"metrics", "uq_metrics_user_name">> => p \in {"dupMetric"}
    /\ \A p \in DOMAIN UniqueName :
         UniqueName[p] = <<"metric_settings", "uq_metric_settings_metric">>
             => p \in {"dupSettings"}
    /\ \A p \in DOMAIN UniqueName :
         UniqueName[p] = PendingInvite => p \in {"dupExpired", "dupLive"}
    /\ PendingInvite[2] # "table"
BY DEF UniqueName, PendingInvite

LEMMA OfCreateEnums == Ups(CreateEnums, 1) /\ Downs(CreateEnums, 1)
<1> DEFINE u1 == Ensure(Type("enum_users_role"))
           u2 == Ensure(Type("enum_goal_type"))
           u3 == Ensure(Type("enum_metric_log_type"))
           d1 == Clear({Type("enum_users_role"), Type("enum_goal_type"),
                      Type("enum_metric_log_type")})
<1>1. CreateEnums.up = <<u1, u2, u3>> /\ CreateEnums.down = <<d1>>
  BY DEF CreateEnums
<1> HIDE DEF u1, u2, u3, d1
<1>2. IsList(CreateEnums.up) /\ Elements(CreateEnums.up) = {u1, u2, u3}
  BY <1>1, Lists, Tuples
<1>3. IsList(CreateEnums.down) /\ Elements(CreateEnums.down) = {d1}
  BY <1>1, Lists, Tuples
<1>4. Fine(u1) /\ Lasting(u1)
  BY EnsureFine DEF u1, Plain, Uniques, Type
<1>5. Fine(u2) /\ Lasting(u2)
  BY EnsureFine DEF u2, Plain, Uniques, Type
<1>6. Fine(u3) /\ Lasting(u3)
  BY EnsureFine DEF u3, Plain, Uniques, Type
<1>7. Fine(d1) /\ Spares(d1, 1)
  <2> DEFINE objs == {Type("enum_users_role"), Type("enum_goal_type"), Type("enum_metric_log_type")}
  <2>1. \A c \in Created : c \notin objs
    BY CreatedColumns, BirthsStay DEF Type, In, OrgColumn, PendingInvite
  <2>2. \A b \in Births : b[2] < 1 => b[1] \notin objs
    BY BirthNames, BirthTables DEF Type, In, OrgColumn, PendingInvite
  <2> HIDE DEF objs
  <2>3. objs \cap Created = {}
    BY <2>1
  <2>4. Fine(Clear(objs)) /\ Spares(Clear(objs), 1)
    BY <2>2, <2>3, ClearFine
  <2> QED
    BY <2>4 DEF d1, objs
<1>8. \A b \in Births : b[2] # 1
  BY DEF Births, Whole, PendingInvite, KeyOf
<1>9. Ups(CreateEnums, 1)
  BY <1>2, <1>4, <1>5, <1>6, <1>8 DEF Ups
<1>10. Downs(CreateEnums, 1)
  BY <1>3, <1>7, LastingSpares DEF Downs
<1> QED
  BY <1>9, <1>10

LEMMA OfEnableUuid == Ups(EnableUuid, 2) /\ Downs(EnableUuid, 2)
<1> DEFINE u1 == Ensure(Type("uuid-ossp"))
           d1 == Clear({Type("uuid-ossp")})
<1>1. EnableUuid.up = <<u1>> /\ EnableUuid.down = <<d1>>
  BY DEF EnableUuid
<1> HIDE DEF u1, d1
<1>2. IsList(EnableUuid.up) /\ Elements(EnableUuid.up) = {u1}
  BY <1>1, Lists, Tuples
<1>3. IsList(EnableUuid.down) /\ Elements(EnableUuid.down) = {d1}
  BY <1>1, Lists, Tuples
<1>4. Fine(u1) /\ Lasting(u1)
  BY EnsureFine DEF u1, Plain, Uniques, Type
<1>5. Fine(d1) /\ Spares(d1, 2)
  <2> DEFINE objs == {Type("uuid-ossp")}
  <2>1. \A c \in Created : c \notin objs
    BY CreatedColumns, BirthsStay DEF Type, In, OrgColumn, PendingInvite
  <2>2. \A b \in Births : b[2] < 2 => b[1] \notin objs
    BY BirthNames, BirthTables DEF Type, In, OrgColumn, PendingInvite
  <2> HIDE DEF objs
  <2>3. objs \cap Created = {}
    BY <2>1
  <2>4. Fine(Clear(objs)) /\ Spares(Clear(objs), 2)
    BY <2>2, <2>3, ClearFine
  <2> QED
    BY <2>4 DEF d1, objs
<1>6. \A b \in Births : b[2] # 2
  BY DEF Births, Whole, PendingInvite, KeyOf
<1>7. Ups(EnableUuid, 2)
  BY <1>2, <1>4, <1>6 DEF Ups
<1>8. Downs(EnableUuid, 2)
  BY <1>3, <1>5, LastingSpares DEF Downs
<1> QED
  BY <1>7, <1>8

LEMMA OfCreateUsers == Ups(CreateUsers, 3) /\ Downs(CreateUsers, 3)
<1> DEFINE u1 == Need({Type("uuid-ossp")})
           u2 == Ensure(Type("enum_users_role"))
           u3 == Table("users", {"id", "username", "username_unique", "email",
                      "email_unique", "password", "role", "is_public_profile", "deleted_at"}
                      \cup Stamps)
           d1 == DropTable("users")
           d2 == Clear({Type("enum_users_role")})
<1>1. CreateUsers.up = <<u1, u2, u3>> /\ CreateUsers.down = <<d1, d2>>
  BY DEF CreateUsers
<1> HIDE DEF u1, u2, u3, d1, d2
<1>2. IsList(CreateUsers.up) /\ Elements(CreateUsers.up) = {u1, u2, u3}
  BY <1>1, Lists, Tuples
<1>3. IsList(CreateUsers.down) /\ Elements(CreateUsers.down) = {d1, d2}
  BY <1>1, Lists, Tuples
<1>4. Fine(u1) /\ Lasting(u1)
  BY NeedFine DEF u1
<1>5. Fine(u2) /\ Lasting(u2)
  BY EnsureFine DEF u2, Plain, Uniques, Type
<1>6. Fine(u3) /\ Lasting(u3) /\ Makes(u3, Whole("users"))
  <2> DEFINE names == {"id", "username", "username_unique", "email", "email_unique", "password",
                      "role", "is_public_profile", "deleted_at"} \cup Stamps
  <2>1. \A c \in names : c \notin Uniques \cup {"table"}
    BY DEF Uniques, Stamps, Links
  <2>2. \A c \in Created : c = <<c[1], c[2]>> /\ (c[1] = "users" => c[2] \in names)
    BY CreatedColumns DEF Stamps, Links
  <2> HIDE DEF names
  <2>3. LET s == Table("users", names) IN Fine(s) /\ Lasting(s) /\ Makes(s, Whole("users"))
    BY <2>1, <2>2, TableFine
  <2> QED
    BY <2>3 DEF u3, names
<1>7. Fine(d1) /\ Spares(d1, 3)
  BY DropTableFine, BirthTables DEF d1
<1>8. Fine(d2) /\ Spares(d2, 3)
  <2> DEFINE objs == {Type("enum_users_role")}
  <2>1. \A c \in Created : c \notin objs
    BY CreatedColumns, BirthsStay DEF Type, In, OrgColumn, PendingInvite
  <2>2. \A b \in Births : b[2] < 3 => b[1] \notin objs
    BY BirthNames, BirthTables DEF Type, In, OrgColumn, PendingInvite
  <2> HIDE DEF objs
  <2>3. objs \cap Created = {}
    BY <2>1
  <2>4. Fine(Clear(objs)) /\ Spares(Clear(objs), 3)
    BY <2>2, <2>3, ClearFine
  <2> QED
    BY <2>4 DEF d2, objs
<1>9. \A b \in Births : b[2] = 3 => b[1] \in {Whole("users")}
  BY DEF Births, Whole, PendingInvite, KeyOf
<1>10. Ups(CreateUsers, 3)
  BY <1>2, <1>4, <1>5, <1>6, <1>9 DEF Ups
<1>11. Downs(CreateUsers, 3)
  BY <1>3, <1>7, <1>8, LastingSpares DEF Downs
<1> QED
  BY <1>10, <1>11

LEMMA OfCreateCategories == Ups(CreateCategories, 4) /\ Downs(CreateCategories, 4)
<1> DEFINE u1 == Need({Whole("users"), Type("uuid-ossp")})
           u2 == Table("metric_categories", {"id", "user_id", "name", "color", "icon",
                      "deleted_at"} \cup Stamps)
           d1 == DropTable("metric_categories")
<1>1. CreateCategories.up = <<u1, u2>> /\ CreateCategories.down = <<d1>>
  BY DEF CreateCategories
<1> HIDE DEF u1, u2, d1
<1>2. IsList(CreateCategories.up) /\ Elements(CreateCategories.up) = {u1, u2}
  BY <1>1, Lists, Tuples
<1>3. IsList(CreateCategories.down) /\ Elements(CreateCategories.down) = {d1}
  BY <1>1, Lists, Tuples
<1>4. Fine(u1) /\ Lasting(u1)
  BY NeedFine DEF u1
<1>5. Fine(u2) /\ Lasting(u2) /\ Makes(u2, Whole("metric_categories"))
  <2> DEFINE names == {"id", "user_id", "name", "color", "icon", "deleted_at"} \cup Stamps
  <2>1. \A c \in names : c \notin Uniques \cup {"table"}
    BY DEF Uniques, Stamps, Links
  <2>2. \A c \in Created : c = <<c[1], c[2]>> /\ (c[1] = "metric_categories" => c[2] \in names)
    BY CreatedColumns DEF Stamps, Links
  <2> HIDE DEF names
  <2>3. LET s == Table("metric_categories", names) IN Fine(s) /\ Lasting(s) /\ Makes(s, Whole("metric_categories"))
    BY <2>1, <2>2, TableFine
  <2> QED
    BY <2>3 DEF u2, names
<1>6. Fine(d1) /\ Spares(d1, 4)
  BY DropTableFine, BirthTables DEF d1
<1>7. \A b \in Births : b[2] = 4 => b[1] \in {Whole("metric_categories")}
  BY DEF Births, Whole, PendingInvite, KeyOf
<1>8. Ups(CreateCategories, 4)
  BY <1>2, <1>4, <1>5, <1>7 DEF Ups
<1>9. Downs(CreateCategories, 4)
  BY <1>3, <1>6, LastingSpares DEF Downs
<1> QED
  BY <1>8, <1>9

LEMMA OfCreateMetrics == Ups(CreateMetrics, 5) /\ Downs(CreateMetrics, 5)
<1> DEFINE u1 == Need({Whole("users"), Whole("metric_categories"), Type("uuid-ossp")})
           u2 == Table("metrics", {"id", "user_id", "category_id", "original_metric_id",
                      "name", "description", "default_unit", "is_public", "deleted_at"}
                      \cup Stamps)
           d1 == DropTable("metrics")
<1>1. CreateMetrics.up = <<u1, u2>> /\ CreateMetrics.down = <<d1>>
  BY DEF CreateMetrics
<1> HIDE DEF u1, u2, d1
<1>2. IsList(CreateMetrics.up) /\ Elements(CreateMetrics.up) = {u1, u2}
  BY <1>1, Lists, Tuples
<1>3. IsList(CreateMetrics.down) /\ Elements(CreateMetrics.down) = {d1}
  BY <1>1, Lists, Tuples
<1>4. Fine(u1) /\ Lasting(u1)
  BY NeedFine DEF u1
<1>5. Fine(u2) /\ Lasting(u2) /\ Makes(u2, Whole("metrics"))
  <2> DEFINE names == {"id", "user_id", "category_id", "original_metric_id", "name",
                      "description", "default_unit", "is_public", "deleted_at"} \cup Stamps
  <2>1. \A c \in names : c \notin Uniques \cup {"table"}
    BY DEF Uniques, Stamps, Links
  <2>2. \A c \in Created : c = <<c[1], c[2]>> /\ (c[1] = "metrics" => c[2] \in names)
    BY CreatedColumns DEF Stamps, Links
  <2> HIDE DEF names
  <2>3. LET s == Table("metrics", names) IN Fine(s) /\ Lasting(s) /\ Makes(s, Whole("metrics"))
    BY <2>1, <2>2, TableFine
  <2> QED
    BY <2>3 DEF u2, names
<1>6. Fine(d1) /\ Spares(d1, 5)
  BY DropTableFine, BirthTables DEF d1
<1>7. \A b \in Births : b[2] = 5 => b[1] \in {Whole("metrics")}
  BY DEF Births, Whole, PendingInvite, KeyOf
<1>8. Ups(CreateMetrics, 5)
  BY <1>2, <1>4, <1>5, <1>7 DEF Ups
<1>9. Downs(CreateMetrics, 5)
  BY <1>3, <1>6, LastingSpares DEF Downs
<1> QED
  BY <1>8, <1>9

LEMMA OfCreateSettings == Ups(CreateSettings, 6) /\ Downs(CreateSettings, 6)
<1> DEFINE u1 == Ensure(Type("enum_goal_type"))
           u2 == Need({Whole("metrics"), Type("uuid-ossp")})
           u3 == Table("metric_settings", {"id", "metric_id", "goal_enabled",
                      "goal_type", "goal_value", "time_frame_enabled", "start_date",
                      "deadline_date", "alert_enabled", "alert_thresholds", "is_achieved",
                      "is_active", "display_options"} \cup Stamps)
           d1 == DropTable("metric_settings")
           d2 == Clear({Type("enum_goal_type")})
<1>1. CreateSettings.up = <<u1, u2, u3>> /\ CreateSettings.down = <<d1, d2>>
  BY DEF CreateSettings
<1> HIDE DEF u1, u2, u3, d1, d2
<1>2. IsList(CreateSettings.up) /\ Elements(CreateSettings.up) = {u1, u2, u3}
  BY <1>1, Lists, Tuples
<1>3. IsList(CreateSettings.down) /\ Elements(CreateSettings.down) = {d1, d2}
  BY <1>1, Lists, Tuples
<1>4. Fine(u1) /\ Lasting(u1)
  BY EnsureFine DEF u1, Plain, Uniques, Type
<1>5. Fine(u2) /\ Lasting(u2)
  BY NeedFine DEF u2
<1>6. Fine(u3) /\ Lasting(u3) /\ Makes(u3, Whole("metric_settings"))
  <2> DEFINE names == {"id", "metric_id", "goal_enabled", "goal_type", "goal_value",
                      "time_frame_enabled", "start_date", "deadline_date", "alert_enabled",
                      "alert_thresholds", "is_achieved", "is_active", "display_options"}
                      \cup Stamps
  <2>1. \A c \in names : c \notin Uniques \cup {"table"}
    BY DEF Uniques, Stamps, Links
  <2>2. \A c \in Created : c = <<c[1], c[2]>> /\ (c[1] = "metric_settings" => c[2] \in names)
    BY CreatedColumns DEF Stamps, Links
  <2> HIDE DEF names
  <2>3. LET s == Table("metric_settings", names) IN Fine(s) /\ Lasting(s) /\ Makes(s, Whole("metric_settings"))
    BY <2>1, <2>2, TableFine
  <2> QED
    BY <2>3 DEF u3, names
<1>7. Fine(d1) /\ Spares(d1, 6)
  BY DropTableFine, BirthTables DEF d1
<1>8. Fine(d2) /\ Spares(d2, 6)
  <2> DEFINE objs == {Type("enum_goal_type")}
  <2>1. \A c \in Created : c \notin objs
    BY CreatedColumns, BirthsStay DEF Type, In, OrgColumn, PendingInvite
  <2>2. \A b \in Births : b[2] < 6 => b[1] \notin objs
    BY BirthNames, BirthTables DEF Type, In, OrgColumn, PendingInvite
  <2> HIDE DEF objs
  <2>3. objs \cap Created = {}
    BY <2>1
  <2>4. Fine(Clear(objs)) /\ Spares(Clear(objs), 6)
    BY <2>2, <2>3, ClearFine
  <2> QED
    BY <2>4 DEF d2, objs
<1>9. \A b \in Births : b[2] = 6 => b[1] \in {Whole("metric_settings")}
  BY DEF Births, Whole, PendingInvite, KeyOf
<1>10. Ups(CreateSettings, 6)
  BY <1>2, <1>4, <1>5, <1>6, <1>9 DEF Ups
<1>11. Downs(CreateSettings, 6)
  BY <1>3, <1>7, <1>8, LastingSpares DEF Downs
<1> QED
  BY <1>10, <1>11

LEMMA OfCreateLogs == Ups(CreateLogs, 7) /\ Downs(CreateLogs, 7)
<1> DEFINE u1 == Need({Whole("metrics"), Type("uuid-ossp")})
           u2 == Ensure(Type("enum_metric_logs_type"))
           u3 == Table("metric_logs", {"id", "metric_id", "log_value", "type",
                      "logged_at"} \cup Stamps)
           u4 == Add({<<"metric_logs", "uq_metric_logs_metric_id_logged_at">>})
           u5 == Add({<<"metric_logs", "ix_metric_logs_metric_id_logged_at">>})
           d1 == DropTable("metric_logs")
<1>1. CreateLogs.up = <<u1, u2, u3, u4, u5>> /\ CreateLogs.down = <<d1>>
  BY DEF CreateLogs
<1> HIDE DEF u1, u2, u3, u4, u5, d1
<1>2. IsList(CreateLogs.up) /\ Elements(CreateLogs.up) = {u1, u2, u3, u4, u5}
  BY <1>1, Lists, Tuples
<1>3. IsList(CreateLogs.down) /\ Elements(CreateLogs.down) = {d1}
  BY <1>1, Lists, Tuples
<1>4. Fine(u1) /\ Lasting(u1)
  BY NeedFine DEF u1
<1>5. Fine(u2) /\ Lasting(u2)
  BY EnsureFine DEF u2, Plain, Uniques, Type
<1>6. Fine(u3) /\ Lasting(u3) /\ Makes(u3, Whole("metric_logs"))
  <2> DEFINE names == {"id", "metric_id", "log_value", "type", "logged_at"} \cup Stamps
  <2>1. \A c \in names : c \notin Uniques \cup {"table"}
    BY DEF Uniques, Stamps, Links
  <2>2. \A c \in Created : c = <<c[1], c[2]>> /\ (c[1] = "metric_logs" => c[2] \in names)
    BY CreatedColumns DEF Stamps, Links
  <2> HIDE DEF names
  <2>3. LET s == Table("metric_logs", names) IN Fine(s) /\ Lasting(s) /\ Makes(s, Whole("metric_logs"))
    BY <2>1, <2>2, TableFine
  <2> QED
    BY <2>3 DEF u3, names
<1>7. Fine(u4) /\ Lasting(u4) /\ Makes(u4, <<"metric_logs", "uq_metric_logs_metric_id_logged_at">>)
  BY AddFine DEF u4, Plain, Uniques, OrgColumn
<1>8. Fine(u5) /\ Lasting(u5)
  BY AddFine DEF u5, Plain, Uniques, OrgColumn
<1>9. Fine(d1) /\ Spares(d1, 7)
  BY DropTableFine, BirthTables DEF d1
<1>10. \A b \in Births : b[2] = 7 => b[1] \in {Whole("metric_logs"), <<"metric_logs", "uq_metric_logs_metric_id_logged_at">>}
  BY DEF Births, Whole, PendingInvite, KeyOf
<1>11. Ups(CreateLogs, 7)
  BY <1>2, <1>4, <1>5, <1>6, <1>7, <1>8, <1>10 DEF Ups
<1>12. Downs(CreateLogs, 7)
  BY <1>3, <1>9, LastingSpares DEF Downs
<1> QED
  BY <1>11, <1>12

LEMMA OfCategoryIndexes == Ups(CategoryIndexes, 8) /\ Downs(CategoryIndexes, 8)
<1> DEFINE u1 == Ensure(Type("pg_trgm"))
           u2 == Build("metric_categories", "idx_metric_categories_user_active")
           u3 == BuildUnique("metric_categories", "uq_metric_categories_user_name",
                      {"dupCategory"})
           u4 == Build("metric_categories", "gin_metric_categories_name_trgm")
           d1 == Clear(In("metric_categories", {"gin_metric_categories_name_trgm"}))
           d2 == Clear(In("metric_categories", {"uq_metric_categories_user_name"}))
           d3 == Clear(In("metric_categories", {"idx_metric_categories_user_active"}))
<1>1. CategoryIndexes.up = <<u1, u2, u3, u4>> /\ CategoryIndexes.down = <<d1, d2, d3>>
  BY DEF CategoryIndexes
<1> HIDE DEF u1, u2, u3, u4, d1, d2, d3
<1>2. IsList(CategoryIndexes.up) /\ Elements(CategoryIndexes.up) = {u1, u2, u3, u4}
  BY <1>1, Lists, Tuples
<1>3. IsList(CategoryIndexes.down) /\ Elements(CategoryIndexes.down) = {d1, d2, d3}
  BY <1>1, Lists, Tuples
<1>4. Fine(u1) /\ Lasting(u1)
  BY EnsureFine DEF u1, Plain, Uniques, Type
<1>5. Fine(u2) /\ Lasting(u2)
  BY BuildFine DEF u2, IndexNames
<1>6. Fine(u3) /\ Lasting(u3) /\ Makes(u3, <<"metric_categories", "uq_metric_categories_user_name">>)
  BY BuildUniqueFine, UniqueOf, OnlineOnes DEF u3
<1>7. Fine(u4) /\ Lasting(u4)
  BY BuildFine DEF u4, IndexNames
<1>8. Fine(d1) /\ Spares(d1, 8)
  <2> DEFINE objs == In("metric_categories", {"gin_metric_categories_name_trgm"})
  <2>1. \A c \in Created : c \notin objs
    BY CreatedColumns, BirthsStay DEF Type, In, OrgColumn, PendingInvite
  <2>2. \A b \in Births : b[2] < 8 => b[1] \notin objs
    BY BirthNames, BirthTables DEF Type, In, OrgColumn, PendingInvite
  <2> HIDE DEF objs
  <2>3. objs \cap Created = {}
    BY <2>1
  <2>4. Fine(Clear(objs)) /\ Spares(Clear(objs), 8)
    BY <2>2, <2>3, ClearFine
  <2> QED
    BY <2>4 DEF d1, objs
<1>9. Fine(d2) /\ Spares(d2, 8)
  <2> DEFINE objs == In("metric_categories", {"uq_metric_categories_user_name"})
  <2>1. \A c \in Created : c \notin objs
    BY CreatedColumns, BirthsStay DEF Type, In, OrgColumn, PendingInvite
  <2>2. \A b \in Births : b[2] < 8 => b[1] \notin objs
    BY BirthNames, BirthTables DEF Type, In, OrgColumn, PendingInvite
  <2> HIDE DEF objs
  <2>3. objs \cap Created = {}
    BY <2>1
  <2>4. Fine(Clear(objs)) /\ Spares(Clear(objs), 8)
    BY <2>2, <2>3, ClearFine
  <2> QED
    BY <2>4 DEF d2, objs
<1>10. Fine(d3) /\ Spares(d3, 8)
  <2> DEFINE objs == In("metric_categories", {"idx_metric_categories_user_active"})
  <2>1. \A c \in Created : c \notin objs
    BY CreatedColumns, BirthsStay DEF Type, In, OrgColumn, PendingInvite
  <2>2. \A b \in Births : b[2] < 8 => b[1] \notin objs
    BY BirthNames, BirthTables DEF Type, In, OrgColumn, PendingInvite
  <2> HIDE DEF objs
  <2>3. objs \cap Created = {}
    BY <2>1
  <2>4. Fine(Clear(objs)) /\ Spares(Clear(objs), 8)
    BY <2>2, <2>3, ClearFine
  <2> QED
    BY <2>4 DEF d3, objs
<1>11. \A b \in Births : b[2] = 8 => b[1] \in {<<"metric_categories", "uq_metric_categories_user_name">>}
  BY DEF Births, Whole, PendingInvite, KeyOf
<1>12. Ups(CategoryIndexes, 8)
  BY <1>2, <1>4, <1>5, <1>6, <1>7, <1>11 DEF Ups
<1>13. Downs(CategoryIndexes, 8)
  BY <1>3, <1>8, <1>9, <1>10, LastingSpares DEF Downs
<1> QED
  BY <1>12, <1>13

LEMMA OfMetricIndexes == Ups(MetricIndexes, 9) /\ Downs(MetricIndexes, 9)
<1> DEFINE u1 == Build("metrics", "idx_metrics_user_created")
           u2 == Build("metrics", "idx_metrics_user_updated")
           u3 == BuildUnique("metrics", "uq_metrics_user_name", {"dupMetric"})
           u4 == Build("metrics", "idx_metrics_category_active")
           u5 == Build("metrics", "idx_metrics_original_metric_active")
           u6 == Build("metrics", "idx_metrics_id_user_active")
           d1 == Clear(In("metrics", {"idx_metrics_id_user_active"}))
           d2 == Clear(In("metrics", {"idx_metrics_original_metric_active"}))
           d3 == Clear(In("metrics", {"idx_metrics_category_active"}))
           d4 == Clear(In("metrics", {"uq_metrics_user_name"}))
           d5 == Clear(In("metrics", {"idx_metrics_user_updated"}))
           d6 == Clear(In("metrics", {"idx_metrics_user_created"}))
<1>1. MetricIndexes.up = <<u1, u2, u3, u4, u5, u6>> /\ MetricIndexes.down = <<d1, d2, d3, d4, d5, d6>>
  BY DEF MetricIndexes
<1> HIDE DEF u1, u2, u3, u4, u5, u6, d1, d2, d3, d4, d5, d6
<1>2. IsList(MetricIndexes.up) /\ Elements(MetricIndexes.up) = {u1, u2, u3, u4, u5, u6}
  BY <1>1, Lists, Tuples
<1>3. IsList(MetricIndexes.down) /\ Elements(MetricIndexes.down) = {d1, d2, d3, d4, d5, d6}
  BY <1>1, Lists, Tuples
<1>4. Fine(u1) /\ Lasting(u1)
  BY BuildFine DEF u1, IndexNames
<1>5. Fine(u2) /\ Lasting(u2)
  BY BuildFine DEF u2, IndexNames
<1>6. Fine(u3) /\ Lasting(u3) /\ Makes(u3, <<"metrics", "uq_metrics_user_name">>)
  BY BuildUniqueFine, UniqueOf, OnlineOnes DEF u3
<1>7. Fine(u4) /\ Lasting(u4)
  BY BuildFine DEF u4, IndexNames
<1>8. Fine(u5) /\ Lasting(u5)
  BY BuildFine DEF u5, IndexNames
<1>9. Fine(u6) /\ Lasting(u6)
  BY BuildFine DEF u6, IndexNames
<1>10. Fine(d1) /\ Spares(d1, 9)
  <2> DEFINE objs == In("metrics", {"idx_metrics_id_user_active"})
  <2>1. \A c \in Created : c \notin objs
    BY CreatedColumns, BirthsStay DEF Type, In, OrgColumn, PendingInvite
  <2>2. \A b \in Births : b[2] < 9 => b[1] \notin objs
    BY BirthNames, BirthTables DEF Type, In, OrgColumn, PendingInvite
  <2> HIDE DEF objs
  <2>3. objs \cap Created = {}
    BY <2>1
  <2>4. Fine(Clear(objs)) /\ Spares(Clear(objs), 9)
    BY <2>2, <2>3, ClearFine
  <2> QED
    BY <2>4 DEF d1, objs
<1>11. Fine(d2) /\ Spares(d2, 9)
  <2> DEFINE objs == In("metrics", {"idx_metrics_original_metric_active"})
  <2>1. \A c \in Created : c \notin objs
    BY CreatedColumns, BirthsStay DEF Type, In, OrgColumn, PendingInvite
  <2>2. \A b \in Births : b[2] < 9 => b[1] \notin objs
    BY BirthNames, BirthTables DEF Type, In, OrgColumn, PendingInvite
  <2> HIDE DEF objs
  <2>3. objs \cap Created = {}
    BY <2>1
  <2>4. Fine(Clear(objs)) /\ Spares(Clear(objs), 9)
    BY <2>2, <2>3, ClearFine
  <2> QED
    BY <2>4 DEF d2, objs
<1>12. Fine(d3) /\ Spares(d3, 9)
  <2> DEFINE objs == In("metrics", {"idx_metrics_category_active"})
  <2>1. \A c \in Created : c \notin objs
    BY CreatedColumns, BirthsStay DEF Type, In, OrgColumn, PendingInvite
  <2>2. \A b \in Births : b[2] < 9 => b[1] \notin objs
    BY BirthNames, BirthTables DEF Type, In, OrgColumn, PendingInvite
  <2> HIDE DEF objs
  <2>3. objs \cap Created = {}
    BY <2>1
  <2>4. Fine(Clear(objs)) /\ Spares(Clear(objs), 9)
    BY <2>2, <2>3, ClearFine
  <2> QED
    BY <2>4 DEF d3, objs
<1>13. Fine(d4) /\ Spares(d4, 9)
  <2> DEFINE objs == In("metrics", {"uq_metrics_user_name"})
  <2>1. \A c \in Created : c \notin objs
    BY CreatedColumns, BirthsStay DEF Type, In, OrgColumn, PendingInvite
  <2>2. \A b \in Births : b[2] < 9 => b[1] \notin objs
    BY BirthNames, BirthTables DEF Type, In, OrgColumn, PendingInvite
  <2> HIDE DEF objs
  <2>3. objs \cap Created = {}
    BY <2>1
  <2>4. Fine(Clear(objs)) /\ Spares(Clear(objs), 9)
    BY <2>2, <2>3, ClearFine
  <2> QED
    BY <2>4 DEF d4, objs
<1>14. Fine(d5) /\ Spares(d5, 9)
  <2> DEFINE objs == In("metrics", {"idx_metrics_user_updated"})
  <2>1. \A c \in Created : c \notin objs
    BY CreatedColumns, BirthsStay DEF Type, In, OrgColumn, PendingInvite
  <2>2. \A b \in Births : b[2] < 9 => b[1] \notin objs
    BY BirthNames, BirthTables DEF Type, In, OrgColumn, PendingInvite
  <2> HIDE DEF objs
  <2>3. objs \cap Created = {}
    BY <2>1
  <2>4. Fine(Clear(objs)) /\ Spares(Clear(objs), 9)
    BY <2>2, <2>3, ClearFine
  <2> QED
    BY <2>4 DEF d5, objs
<1>15. Fine(d6) /\ Spares(d6, 9)
  <2> DEFINE objs == In("metrics", {"idx_metrics_user_created"})
  <2>1. \A c \in Created : c \notin objs
    BY CreatedColumns, BirthsStay DEF Type, In, OrgColumn, PendingInvite
  <2>2. \A b \in Births : b[2] < 9 => b[1] \notin objs
    BY BirthNames, BirthTables DEF Type, In, OrgColumn, PendingInvite
  <2> HIDE DEF objs
  <2>3. objs \cap Created = {}
    BY <2>1
  <2>4. Fine(Clear(objs)) /\ Spares(Clear(objs), 9)
    BY <2>2, <2>3, ClearFine
  <2> QED
    BY <2>4 DEF d6, objs
<1>16. \A b \in Births : b[2] = 9 => b[1] \in {<<"metrics", "uq_metrics_user_name">>}
  BY DEF Births, Whole, PendingInvite, KeyOf
<1>17. Ups(MetricIndexes, 9)
  BY <1>2, <1>4, <1>5, <1>6, <1>7, <1>8, <1>9, <1>16 DEF Ups
<1>18. Downs(MetricIndexes, 9)
  BY <1>3, <1>10, <1>11, <1>12, <1>13, <1>14, <1>15, LastingSpares DEF Downs
<1> QED
  BY <1>17, <1>18

LEMMA OfSettingIndexes == Ups(SettingIndexes, 10) /\ Downs(SettingIndexes, 10)
<1> DEFINE u1 == BuildUnique("metric_settings", "uq_metric_settings_metric",
                      {"dupSettings"})
           u2 == Build("metric_settings", "idx_metric_settings_active_metric")
           u3 == Build("metric_settings", "idx_metric_settings_dashboard_flag")
           d1 == Clear(In("metric_settings", {"idx_metric_settings_dashboard_flag"}))
           d2 == Clear(In("metric_settings", {"idx_metric_settings_active_metric"}))
           d3 == Clear(In("metric_settings", {"uq_metric_settings_metric"}))
<1>1. SettingIndexes.up = <<u1, u2, u3>> /\ SettingIndexes.down = <<d1, d2, d3>>
  BY DEF SettingIndexes
<1> HIDE DEF u1, u2, u3, d1, d2, d3
<1>2. IsList(SettingIndexes.up) /\ Elements(SettingIndexes.up) = {u1, u2, u3}
  BY <1>1, Lists, Tuples
<1>3. IsList(SettingIndexes.down) /\ Elements(SettingIndexes.down) = {d1, d2, d3}
  BY <1>1, Lists, Tuples
<1>4. Fine(u1) /\ Lasting(u1) /\ Makes(u1, <<"metric_settings", "uq_metric_settings_metric">>)
  BY BuildUniqueFine, UniqueOf, OnlineOnes DEF u1
<1>5. Fine(u2) /\ Lasting(u2)
  BY BuildFine DEF u2, IndexNames
<1>6. Fine(u3) /\ Lasting(u3)
  BY BuildFine DEF u3, IndexNames
<1>7. Fine(d1) /\ Spares(d1, 10)
  <2> DEFINE objs == In("metric_settings", {"idx_metric_settings_dashboard_flag"})
  <2>1. \A c \in Created : c \notin objs
    BY CreatedColumns, BirthsStay DEF Type, In, OrgColumn, PendingInvite
  <2>2. \A b \in Births : b[2] < 10 => b[1] \notin objs
    BY BirthNames, BirthTables DEF Type, In, OrgColumn, PendingInvite
  <2> HIDE DEF objs
  <2>3. objs \cap Created = {}
    BY <2>1
  <2>4. Fine(Clear(objs)) /\ Spares(Clear(objs), 10)
    BY <2>2, <2>3, ClearFine
  <2> QED
    BY <2>4 DEF d1, objs
<1>8. Fine(d2) /\ Spares(d2, 10)
  <2> DEFINE objs == In("metric_settings", {"idx_metric_settings_active_metric"})
  <2>1. \A c \in Created : c \notin objs
    BY CreatedColumns, BirthsStay DEF Type, In, OrgColumn, PendingInvite
  <2>2. \A b \in Births : b[2] < 10 => b[1] \notin objs
    BY BirthNames, BirthTables DEF Type, In, OrgColumn, PendingInvite
  <2> HIDE DEF objs
  <2>3. objs \cap Created = {}
    BY <2>1
  <2>4. Fine(Clear(objs)) /\ Spares(Clear(objs), 10)
    BY <2>2, <2>3, ClearFine
  <2> QED
    BY <2>4 DEF d2, objs
<1>9. Fine(d3) /\ Spares(d3, 10)
  <2> DEFINE objs == In("metric_settings", {"uq_metric_settings_metric"})
  <2>1. \A c \in Created : c \notin objs
    BY CreatedColumns, BirthsStay DEF Type, In, OrgColumn, PendingInvite
  <2>2. \A b \in Births : b[2] < 10 => b[1] \notin objs
    BY BirthNames, BirthTables DEF Type, In, OrgColumn, PendingInvite
  <2> HIDE DEF objs
  <2>3. objs \cap Created = {}
    BY <2>1
  <2>4. Fine(Clear(objs)) /\ Spares(Clear(objs), 10)
    BY <2>2, <2>3, ClearFine
  <2> QED
    BY <2>4 DEF d3, objs
<1>10. \A b \in Births : b[2] = 10 => b[1] \in {<<"metric_settings", "uq_metric_settings_metric">>}
  BY DEF Births, Whole, PendingInvite, KeyOf
<1>11. Ups(SettingIndexes, 10)
  BY <1>2, <1>4, <1>5, <1>6, <1>10 DEF Ups
<1>12. Downs(SettingIndexes, 10)
  BY <1>3, <1>7, <1>8, <1>9, LastingSpares DEF Downs
<1> QED
  BY <1>11, <1>12

LEMMA OfLogIndexes == Ups(LogIndexes, 11) /\ Downs(LogIndexes, 11)
<1> DEFINE u1 == Build("metric_logs", "idx_metric_logs_metric_created")
           u2 == Build("metric_logs", "idx_metric_logs_metric_logged")
           u3 == Build("metric_logs", "idx_metric_logs_metric_log_value")
           u4 == Build("metric_logs", "brin_metric_logs_logged")
           u5 == Clear(In("metric_logs", {"ix_metric_logs_metric_id_logged_at"}))
           d1 == Clear(In("metric_logs", {"brin_metric_logs_logged"}))
           d2 == Clear(In("metric_logs", {"idx_metric_logs_metric_log_value"}))
           d3 == Clear(In("metric_logs", {"idx_metric_logs_metric_logged"}))
           d4 == Clear(In("metric_logs", {"idx_metric_logs_metric_created"}))
           d5 == Build("metric_logs", "ix_metric_logs_metric_id_logged_at")
<1>1. LogIndexes.up = <<u1, u2, u3, u4, u5>> /\ LogIndexes.down = <<d1, d2, d3, d4, d5>>
  BY DEF LogIndexes
<1> HIDE DEF u1, u2, u3, u4, u5, d1, d2, d3, d4, d5
<1>2. IsList(LogIndexes.up) /\ Elements(LogIndexes.up) = {u1, u2, u3, u4, u5}
  BY <1>1, Lists, Tuples
<1>3. IsList(LogIndexes.down) /\ Elements(LogIndexes.down) = {d1, d2, d3, d4, d5}
  BY <1>1, Lists, Tuples
<1>4. Fine(u1) /\ Lasting(u1)
  BY BuildFine DEF u1, IndexNames
<1>5. Fine(u2) /\ Lasting(u2)
  BY BuildFine DEF u2, IndexNames
<1>6. Fine(u3) /\ Lasting(u3)
  BY BuildFine DEF u3, IndexNames
<1>7. Fine(u4) /\ Lasting(u4)
  BY BuildFine DEF u4, IndexNames
<1>8. Fine(u5) /\ Lasting(u5)
  <2> DEFINE objs == In("metric_logs", {"ix_metric_logs_metric_id_logged_at"})
  <2>1. \A c \in Created : c \notin objs
    BY CreatedColumns, BirthsStay DEF Type, In, OrgColumn, PendingInvite
  <2>2. \A b \in Births : b[1] \notin objs
    BY BirthNames, BirthTables DEF Type, In, OrgColumn, PendingInvite
  <2> HIDE DEF objs
  <2>3. objs \cap Created = {}
    BY <2>1
  <2>4. Fine(Clear(objs)) /\ Lasting(Clear(objs))
    BY <2>2, <2>3, ClearFine
  <2> QED
    BY <2>4 DEF u5, objs
<1>9. Fine(d1) /\ Spares(d1, 11)
  <2> DEFINE objs == In("metric_logs", {"brin_metric_logs_logged"})
  <2>1. \A c \in Created : c \notin objs
    BY CreatedColumns, BirthsStay DEF Type, In, OrgColumn, PendingInvite
  <2>2. \A b \in Births : b[2] < 11 => b[1] \notin objs
    BY BirthNames, BirthTables DEF Type, In, OrgColumn, PendingInvite
  <2> HIDE DEF objs
  <2>3. objs \cap Created = {}
    BY <2>1
  <2>4. Fine(Clear(objs)) /\ Spares(Clear(objs), 11)
    BY <2>2, <2>3, ClearFine
  <2> QED
    BY <2>4 DEF d1, objs
<1>10. Fine(d2) /\ Spares(d2, 11)
  <2> DEFINE objs == In("metric_logs", {"idx_metric_logs_metric_log_value"})
  <2>1. \A c \in Created : c \notin objs
    BY CreatedColumns, BirthsStay DEF Type, In, OrgColumn, PendingInvite
  <2>2. \A b \in Births : b[2] < 11 => b[1] \notin objs
    BY BirthNames, BirthTables DEF Type, In, OrgColumn, PendingInvite
  <2> HIDE DEF objs
  <2>3. objs \cap Created = {}
    BY <2>1
  <2>4. Fine(Clear(objs)) /\ Spares(Clear(objs), 11)
    BY <2>2, <2>3, ClearFine
  <2> QED
    BY <2>4 DEF d2, objs
<1>11. Fine(d3) /\ Spares(d3, 11)
  <2> DEFINE objs == In("metric_logs", {"idx_metric_logs_metric_logged"})
  <2>1. \A c \in Created : c \notin objs
    BY CreatedColumns, BirthsStay DEF Type, In, OrgColumn, PendingInvite
  <2>2. \A b \in Births : b[2] < 11 => b[1] \notin objs
    BY BirthNames, BirthTables DEF Type, In, OrgColumn, PendingInvite
  <2> HIDE DEF objs
  <2>3. objs \cap Created = {}
    BY <2>1
  <2>4. Fine(Clear(objs)) /\ Spares(Clear(objs), 11)
    BY <2>2, <2>3, ClearFine
  <2> QED
    BY <2>4 DEF d3, objs
<1>12. Fine(d4) /\ Spares(d4, 11)
  <2> DEFINE objs == In("metric_logs", {"idx_metric_logs_metric_created"})
  <2>1. \A c \in Created : c \notin objs
    BY CreatedColumns, BirthsStay DEF Type, In, OrgColumn, PendingInvite
  <2>2. \A b \in Births : b[2] < 11 => b[1] \notin objs
    BY BirthNames, BirthTables DEF Type, In, OrgColumn, PendingInvite
  <2> HIDE DEF objs
  <2>3. objs \cap Created = {}
    BY <2>1
  <2>4. Fine(Clear(objs)) /\ Spares(Clear(objs), 11)
    BY <2>2, <2>3, ClearFine
  <2> QED
    BY <2>4 DEF d4, objs
<1>13. Fine(d5) /\ Lasting(d5)
  BY BuildFine DEF d5, IndexNames
<1>14. \A b \in Births : b[2] # 11
  BY DEF Births, Whole, PendingInvite, KeyOf
<1>15. Ups(LogIndexes, 11)
  BY <1>2, <1>4, <1>5, <1>6, <1>7, <1>8, <1>14 DEF Ups
<1>16. Downs(LogIndexes, 11)
  BY <1>3, <1>9, <1>10, <1>11, <1>12, <1>13, LastingSpares DEF Downs
<1> QED
  BY <1>15, <1>16

LEMMA OfDescriptionToText == Ups(DescriptionToText, 12) /\ Downs(DescriptionToText, 12)
<1> DEFINE u1 == Ensure(<<"metrics", "description_text">>)
           d1 == Refuse({"longText"})
           d2 == Clear({<<"metrics", "description_text">>})
<1>1. DescriptionToText.up = <<u1>> /\ DescriptionToText.down = <<d1, d2>>
  BY DEF DescriptionToText
<1> HIDE DEF u1, d1, d2
<1>2. IsList(DescriptionToText.up) /\ Elements(DescriptionToText.up) = {u1}
  BY <1>1, Lists, Tuples
<1>3. IsList(DescriptionToText.down) /\ Elements(DescriptionToText.down) = {d1, d2}
  BY <1>1, Lists, Tuples
<1>4. Fine(u1) /\ Lasting(u1)
  BY EnsureFine DEF u1, Plain, Uniques, Type
<1>5. Fine(d1) /\ Lasting(d1)
  BY RefuseFine DEF d1
<1>6. Fine(d2) /\ Spares(d2, 12)
  <2> DEFINE objs == {<<"metrics", "description_text">>}
  <2>1. \A c \in Created : c \notin objs
    BY CreatedColumns, BirthsStay DEF Type, In, OrgColumn, PendingInvite
  <2>2. \A b \in Births : b[2] < 12 => b[1] \notin objs
    BY BirthNames, BirthTables DEF Type, In, OrgColumn, PendingInvite
  <2> HIDE DEF objs
  <2>3. objs \cap Created = {}
    BY <2>1
  <2>4. Fine(Clear(objs)) /\ Spares(Clear(objs), 12)
    BY <2>2, <2>3, ClearFine
  <2> QED
    BY <2>4 DEF d2, objs
<1>7. \A b \in Births : b[2] # 12
  BY DEF Births, Whole, PendingInvite, KeyOf
<1>8. Ups(DescriptionToText, 12)
  BY <1>2, <1>4, <1>7 DEF Ups
<1>9. Downs(DescriptionToText, 12)
  BY <1>3, <1>5, <1>6, LastingSpares DEF Downs
<1> QED
  BY <1>8, <1>9

LEMMA OfCreateProcessedMessages == Ups(CreateProcessedMessages, 13) /\ Downs(CreateProcessedMessages, 13)
<1> DEFINE u1 == Table("processed_messages", {"message_id", "queue", "processed_at",
                      "key_message_id"})
           d1 == DropTable("processed_messages")
<1>1. CreateProcessedMessages.up = <<u1>> /\ CreateProcessedMessages.down = <<d1>>
  BY DEF CreateProcessedMessages
<1> HIDE DEF u1, d1
<1>2. IsList(CreateProcessedMessages.up) /\ Elements(CreateProcessedMessages.up) = {u1}
  BY <1>1, Lists, Tuples
<1>3. IsList(CreateProcessedMessages.down) /\ Elements(CreateProcessedMessages.down) = {d1}
  BY <1>1, Lists, Tuples
<1>4. Fine(u1) /\ Lasting(u1) /\ Makes(u1, Whole("processed_messages"))
  <2> DEFINE names == {"message_id", "queue", "processed_at", "key_message_id"}
  <2>1. \A c \in names : c \notin Uniques \cup {"table"}
    BY DEF Uniques, Stamps, Links
  <2>2. \A c \in Created : c = <<c[1], c[2]>> /\ (c[1] = "processed_messages" => c[2] \in names)
    BY CreatedColumns DEF Stamps, Links
  <2> HIDE DEF names
  <2>3. LET s == Table("processed_messages", names) IN Fine(s) /\ Lasting(s) /\ Makes(s, Whole("processed_messages"))
    BY <2>1, <2>2, TableFine
  <2> QED
    BY <2>3 DEF u1, names
<1>5. Fine(d1) /\ Spares(d1, 13)
  BY DropTableFine, BirthTables DEF d1
<1>6. \A b \in Births : b[2] = 13 => b[1] \in {Whole("processed_messages")}
  BY DEF Births, Whole, PendingInvite, KeyOf
<1>7. Ups(CreateProcessedMessages, 13)
  BY <1>2, <1>4, <1>6 DEF Ups
<1>8. Downs(CreateProcessedMessages, 13)
  BY <1>3, <1>5, LastingSpares DEF Downs
<1> QED
  BY <1>7, <1>8

LEMMA OfCreatePasswordResetTokens == Ups(CreatePasswordResetTokens, 14) /\ Downs(CreatePasswordResetTokens, 14)
<1> DEFINE u1 == Need({Whole("users"), Type("uuid-ossp")})
           u2 == Table("password_reset_tokens", Links)
           u3 == Add({<<"password_reset_tokens",
                      "password_reset_tokens_user_id_used_at_idx">>})
           d1 == DropTable("password_reset_tokens")
<1>1. CreatePasswordResetTokens.up = <<u1, u2, u3>> /\ CreatePasswordResetTokens.down = <<d1>>
  BY DEF CreatePasswordResetTokens
<1> HIDE DEF u1, u2, u3, d1
<1>2. IsList(CreatePasswordResetTokens.up) /\ Elements(CreatePasswordResetTokens.up) = {u1, u2, u3}
  BY <1>1, Lists, Tuples
<1>3. IsList(CreatePasswordResetTokens.down) /\ Elements(CreatePasswordResetTokens.down) = {d1}
  BY <1>1, Lists, Tuples
<1>4. Fine(u1) /\ Lasting(u1)
  BY NeedFine DEF u1
<1>5. Fine(u2) /\ Lasting(u2) /\ Makes(u2, Whole("password_reset_tokens"))
  <2> DEFINE names == Links
  <2>1. \A c \in names : c \notin Uniques \cup {"table"}
    BY DEF Uniques, Stamps, Links
  <2>2. \A c \in Created : c = <<c[1], c[2]>> /\ (c[1] = "password_reset_tokens" => c[2] \in names)
    BY CreatedColumns DEF Stamps, Links
  <2> HIDE DEF names
  <2>3. LET s == Table("password_reset_tokens", names) IN Fine(s) /\ Lasting(s) /\ Makes(s, Whole("password_reset_tokens"))
    BY <2>1, <2>2, TableFine
  <2> QED
    BY <2>3 DEF u2, names
<1>6. Fine(u3) /\ Lasting(u3)
  BY AddFine DEF u3, Plain, Uniques, OrgColumn
<1>7. Fine(d1) /\ Spares(d1, 14)
  BY DropTableFine, BirthTables DEF d1
<1>8. \A b \in Births : b[2] = 14 => b[1] \in {Whole("password_reset_tokens")}
  BY DEF Births, Whole, PendingInvite, KeyOf
<1>9. Ups(CreatePasswordResetTokens, 14)
  BY <1>2, <1>4, <1>5, <1>6, <1>8 DEF Ups
<1>10. Downs(CreatePasswordResetTokens, 14)
  BY <1>3, <1>7, LastingSpares DEF Downs
<1> QED
  BY <1>9, <1>10

LEMMA OfCreateRefreshTokens == Ups(CreateRefreshTokens, 15) /\ Downs(CreateRefreshTokens, 15)
<1> DEFINE u1 == Need({Whole("users")})
           u2 == Table("refresh_tokens", {"id", "user_id", "family_id", "token_hash",
                      "token_hash_unique", "issued_at", "expires_at", "revoked_at",
                      "replaced_by_id", "user_agent", "ip"} \cup Stamps)
           u3 == Add({<<"refresh_tokens", "idx_refresh_tokens_user_revoked">>})
           u4 == Add({<<"refresh_tokens", "idx_refresh_tokens_family">>})
           d1 == DropTable("refresh_tokens")
<1>1. CreateRefreshTokens.up = <<u1, u2, u3, u4>> /\ CreateRefreshTokens.down = <<d1>>
  BY DEF CreateRefreshTokens
<1> HIDE DEF u1, u2, u3, u4, d1
<1>2. IsList(CreateRefreshTokens.up) /\ Elements(CreateRefreshTokens.up) = {u1, u2, u3, u4}
  BY <1>1, Lists, Tuples
<1>3. IsList(CreateRefreshTokens.down) /\ Elements(CreateRefreshTokens.down) = {d1}
  BY <1>1, Lists, Tuples
<1>4. Fine(u1) /\ Lasting(u1)
  BY NeedFine DEF u1
<1>5. Fine(u2) /\ Lasting(u2) /\ Makes(u2, Whole("refresh_tokens"))
  <2> DEFINE names == {"id", "user_id", "family_id", "token_hash", "token_hash_unique",
                      "issued_at", "expires_at", "revoked_at", "replaced_by_id", "user_agent",
                      "ip"} \cup Stamps
  <2>1. \A c \in names : c \notin Uniques \cup {"table"}
    BY DEF Uniques, Stamps, Links
  <2>2. \A c \in Created : c = <<c[1], c[2]>> /\ (c[1] = "refresh_tokens" => c[2] \in names)
    BY CreatedColumns DEF Stamps, Links
  <2> HIDE DEF names
  <2>3. LET s == Table("refresh_tokens", names) IN Fine(s) /\ Lasting(s) /\ Makes(s, Whole("refresh_tokens"))
    BY <2>1, <2>2, TableFine
  <2> QED
    BY <2>3 DEF u2, names
<1>6. Fine(u3) /\ Lasting(u3)
  BY AddFine DEF u3, Plain, Uniques, OrgColumn
<1>7. Fine(u4) /\ Lasting(u4)
  BY AddFine DEF u4, Plain, Uniques, OrgColumn
<1>8. Fine(d1) /\ Spares(d1, 15)
  BY DropTableFine, BirthTables DEF d1
<1>9. \A b \in Births : b[2] = 15 => b[1] \in {Whole("refresh_tokens")}
  BY DEF Births, Whole, PendingInvite, KeyOf
<1>10. Ups(CreateRefreshTokens, 15)
  BY <1>2, <1>4, <1>5, <1>6, <1>7, <1>9 DEF Ups
<1>11. Downs(CreateRefreshTokens, 15)
  BY <1>3, <1>8, LastingSpares DEF Downs
<1> QED
  BY <1>10, <1>11

LEMMA OfAddEmailVerifiedAt == Ups(AddEmailVerifiedAt, 16) /\ Downs(AddEmailVerifiedAt, 16)
<1> DEFINE u1 == Add({<<"users", "email_verified_at">>})
           d1 == Drop({<<"users", "email_verified_at">>})
<1>1. AddEmailVerifiedAt.up = <<u1>> /\ AddEmailVerifiedAt.down = <<d1>>
  BY DEF AddEmailVerifiedAt
<1> HIDE DEF u1, d1
<1>2. IsList(AddEmailVerifiedAt.up) /\ Elements(AddEmailVerifiedAt.up) = {u1}
  BY <1>1, Lists, Tuples
<1>3. IsList(AddEmailVerifiedAt.down) /\ Elements(AddEmailVerifiedAt.down) = {d1}
  BY <1>1, Lists, Tuples
<1>4. Fine(u1) /\ Lasting(u1) /\ Makes(u1, <<"users", "email_verified_at">>)
  BY AddFine DEF u1, Plain, Uniques, OrgColumn
<1>5. Fine(d1) /\ Spares(d1, 16)
  <2> DEFINE objs == {<<"users", "email_verified_at">>}
  <2>1. \A c \in Created : c \notin objs
    BY CreatedColumns, BirthsStay DEF Type, In, OrgColumn, PendingInvite
  <2>2. \A b \in Births : b[2] < 16 => b[1] \notin objs
    BY BirthNames, BirthTables DEF Type, In, OrgColumn, PendingInvite
  <2> HIDE DEF objs
  <2>3. objs \cap Created = {}
    BY <2>1
  <2>4. Fine(Drop(objs)) /\ Spares(Drop(objs), 16)
    BY <2>2, <2>3, ClearFine
  <2> QED
    BY <2>4 DEF d1, objs
<1>6. \A b \in Births : b[2] = 16 => b[1] \in {<<"users", "email_verified_at">>}
  BY DEF Births, Whole, PendingInvite, KeyOf
<1>7. Ups(AddEmailVerifiedAt, 16)
  BY <1>2, <1>4, <1>6 DEF Ups
<1>8. Downs(AddEmailVerifiedAt, 16)
  BY <1>3, <1>5, LastingSpares DEF Downs
<1> QED
  BY <1>7, <1>8

LEMMA OfCreateEmailVerificationTokens == Ups(CreateEmailVerificationTokens, 17) /\ Downs(CreateEmailVerificationTokens, 17)
<1> DEFINE u1 == Need({Whole("users"), Type("uuid-ossp")})
           u2 == Table("email_verification_tokens", Links)
           u3 == Add({<<"email_verification_tokens",
                      "email_verification_tokens_user_id_used_at_idx">>})
           d1 == DropTable("email_verification_tokens")
<1>1. CreateEmailVerificationTokens.up = <<u1, u2, u3>> /\ CreateEmailVerificationTokens.down = <<d1>>
  BY DEF CreateEmailVerificationTokens
<1> HIDE DEF u1, u2, u3, d1
<1>2. IsList(CreateEmailVerificationTokens.up) /\ Elements(CreateEmailVerificationTokens.up) = {u1, u2, u3}
  BY <1>1, Lists, Tuples
<1>3. IsList(CreateEmailVerificationTokens.down) /\ Elements(CreateEmailVerificationTokens.down) = {d1}
  BY <1>1, Lists, Tuples
<1>4. Fine(u1) /\ Lasting(u1)
  BY NeedFine DEF u1
<1>5. Fine(u2) /\ Lasting(u2) /\ Makes(u2, Whole("email_verification_tokens"))
  <2> DEFINE names == Links
  <2>1. \A c \in names : c \notin Uniques \cup {"table"}
    BY DEF Uniques, Stamps, Links
  <2>2. \A c \in Created : c = <<c[1], c[2]>> /\ (c[1] = "email_verification_tokens" => c[2] \in names)
    BY CreatedColumns DEF Stamps, Links
  <2> HIDE DEF names
  <2>3. LET s == Table("email_verification_tokens", names) IN Fine(s) /\ Lasting(s) /\ Makes(s, Whole("email_verification_tokens"))
    BY <2>1, <2>2, TableFine
  <2> QED
    BY <2>3 DEF u2, names
<1>6. Fine(u3) /\ Lasting(u3)
  BY AddFine DEF u3, Plain, Uniques, OrgColumn
<1>7. Fine(d1) /\ Spares(d1, 17)
  BY DropTableFine, BirthTables DEF d1
<1>8. \A b \in Births : b[2] = 17 => b[1] \in {Whole("email_verification_tokens")}
  BY DEF Births, Whole, PendingInvite, KeyOf
<1>9. Ups(CreateEmailVerificationTokens, 17)
  BY <1>2, <1>4, <1>5, <1>6, <1>8 DEF Ups
<1>10. Downs(CreateEmailVerificationTokens, 17)
  BY <1>3, <1>7, LastingSpares DEF Downs
<1> QED
  BY <1>9, <1>10

LEMMA OfCreateOrganizations == Ups(CreateOrganizations, 18) /\ Downs(CreateOrganizations, 18)
<1> DEFINE u1 == Table("organizations", {"id", "name", "slug", "slug_unique",
                      "deleted_at"} \cup Stamps)
           u2 == Add({<<"organizations", "idx_organizations_slug">>})
           d1 == DropTable("organizations")
<1>1. CreateOrganizations.up = <<u1, u2>> /\ CreateOrganizations.down = <<d1>>
  BY DEF CreateOrganizations
<1> HIDE DEF u1, u2, d1
<1>2. IsList(CreateOrganizations.up) /\ Elements(CreateOrganizations.up) = {u1, u2}
  BY <1>1, Lists, Tuples
<1>3. IsList(CreateOrganizations.down) /\ Elements(CreateOrganizations.down) = {d1}
  BY <1>1, Lists, Tuples
<1>4. Fine(u1) /\ Lasting(u1) /\ Makes(u1, Whole("organizations"))
  <2> DEFINE names == {"id", "name", "slug", "slug_unique", "deleted_at"} \cup Stamps
  <2>1. \A c \in names : c \notin Uniques \cup {"table"}
    BY DEF Uniques, Stamps, Links
  <2>2. \A c \in Created : c = <<c[1], c[2]>> /\ (c[1] = "organizations" => c[2] \in names)
    BY CreatedColumns DEF Stamps, Links
  <2> HIDE DEF names
  <2>3. LET s == Table("organizations", names) IN Fine(s) /\ Lasting(s) /\ Makes(s, Whole("organizations"))
    BY <2>1, <2>2, TableFine
  <2> QED
    BY <2>3 DEF u1, names
<1>5. Fine(u2) /\ Lasting(u2)
  BY AddFine DEF u2, Plain, Uniques, OrgColumn
<1>6. Fine(d1) /\ Spares(d1, 18)
  BY DropTableFine, BirthTables DEF d1
<1>7. \A b \in Births : b[2] = 18 => b[1] \in {Whole("organizations")}
  BY DEF Births, Whole, PendingInvite, KeyOf
<1>8. Ups(CreateOrganizations, 18)
  BY <1>2, <1>4, <1>5, <1>7 DEF Ups
<1>9. Downs(CreateOrganizations, 18)
  BY <1>3, <1>6, LastingSpares DEF Downs
<1> QED
  BY <1>8, <1>9

LEMMA OfCreateMemberships == Ups(CreateMemberships, 19) /\ Downs(CreateMemberships, 19)
<1> DEFINE u1 == Need({Whole("users"), Whole("organizations")})
           u2 == Table("memberships", {"id", "user_id", "organization_id", "role",
                      "status", "joined_at"} \cup Stamps)
           u3 == Add({<<"memberships", "chk_memberships_role">>})
           u4 == Add({<<"memberships", "chk_memberships_status">>})
           u5 == Add({<<"memberships", "uq_memberships_user_organization">>})
           u6 == Add({<<"memberships", "idx_memberships_organization_id">>})
           d1 == Spread("guest", "leftOrg")
           d2 == DropTable("memberships")
<1>1. CreateMemberships.up = <<u1, u2, u3, u4, u5, u6>> /\ CreateMemberships.down = <<d1, d2>>
  BY DEF CreateMemberships
<1> HIDE DEF u1, u2, u3, u4, u5, u6, d1, d2
<1>2. IsList(CreateMemberships.up) /\ Elements(CreateMemberships.up) = {u1, u2, u3, u4, u5, u6}
  BY <1>1, Lists, Tuples
<1>3. IsList(CreateMemberships.down) /\ Elements(CreateMemberships.down) = {d1, d2}
  BY <1>1, Lists, Tuples
<1>4. Fine(u1) /\ Lasting(u1)
  BY NeedFine DEF u1
<1>5. Fine(u2) /\ Lasting(u2) /\ Makes(u2, Whole("memberships"))
  <2> DEFINE names == {"id", "user_id", "organization_id", "role", "status", "joined_at"}
                      \cup Stamps
  <2>1. \A c \in names : c \notin Uniques \cup {"table"}
    BY DEF Uniques, Stamps, Links
  <2>2. \A c \in Created : c = <<c[1], c[2]>> /\ (c[1] = "memberships" => c[2] \in names)
    BY CreatedColumns DEF Stamps, Links
  <2> HIDE DEF names
  <2>3. LET s == Table("memberships", names) IN Fine(s) /\ Lasting(s) /\ Makes(s, Whole("memberships"))
    BY <2>1, <2>2, TableFine
  <2> QED
    BY <2>3 DEF u2, names
<1>6. Fine(u3) /\ Lasting(u3)
  BY AddFine DEF u3, Plain, Uniques, OrgColumn
<1>7. Fine(u4) /\ Lasting(u4)
  BY AddFine DEF u4, Plain, Uniques, OrgColumn
<1>8. Fine(u5) /\ Lasting(u5) /\ Makes(u5, <<"memberships", "uq_memberships_user_organization">>)
  BY AddFine DEF u5, Plain, Uniques, OrgColumn
<1>9. Fine(u6) /\ Lasting(u6)
  BY AddFine DEF u6, Plain, Uniques, OrgColumn
<1>10. Fine(d2) /\ Spares(d2, 19)
  BY DropTableFine, BirthTables DEF d2
<1>14. Fine(d1) /\ Lasting(d1)
  BY SpreadFine, UniqueNames DEF d1
<1>11. \A b \in Births : b[2] = 19 => b[1] \in {Whole("memberships"), <<"memberships", "uq_memberships_user_organization">>}
  BY DEF Births, Whole, PendingInvite, KeyOf
<1>12. Ups(CreateMemberships, 19)
  BY <1>2, <1>4, <1>5, <1>6, <1>7, <1>8, <1>9, <1>11 DEF Ups
<1>13. Downs(CreateMemberships, 19)
  BY <1>3, <1>10, <1>14, LastingSpares DEF Downs
<1> QED
  BY <1>12, <1>13

LEMMA OfCreateInvites == Ups(CreateInvites, 20) /\ Downs(CreateInvites, 20)
<1> DEFINE u1 == Need({Whole("organizations")})
           u2 == Table("organization_invites", {"id", "organization_id", "email", "role",
                      "token_hash", "token_hash_unique", "expires_at", "accepted_at",
                      "created_at"})
           u3 == Add({<<"organization_invites", "chk_organization_invites_role">>})
           u4 == Add({<<"organization_invites", "idx_organization_invites_org_id">>})
           d1 == DropTable("organization_invites")
<1>1. CreateInvites.up = <<u1, u2, u3, u4>> /\ CreateInvites.down = <<d1>>
  BY DEF CreateInvites
<1> HIDE DEF u1, u2, u3, u4, d1
<1>2. IsList(CreateInvites.up) /\ Elements(CreateInvites.up) = {u1, u2, u3, u4}
  BY <1>1, Lists, Tuples
<1>3. IsList(CreateInvites.down) /\ Elements(CreateInvites.down) = {d1}
  BY <1>1, Lists, Tuples
<1>4. Fine(u1) /\ Lasting(u1)
  BY NeedFine DEF u1
<1>5. Fine(u2) /\ Lasting(u2) /\ Makes(u2, Whole("organization_invites"))
  <2> DEFINE names == {"id", "organization_id", "email", "role", "token_hash",
                      "token_hash_unique", "expires_at", "accepted_at", "created_at"}
  <2>1. \A c \in names : c \notin Uniques \cup {"table"}
    BY DEF Uniques, Stamps, Links
  <2>2. \A c \in Created : c = <<c[1], c[2]>> /\ (c[1] = "organization_invites" => c[2] \in names)
    BY CreatedColumns DEF Stamps, Links
  <2> HIDE DEF names
  <2>3. LET s == Table("organization_invites", names) IN Fine(s) /\ Lasting(s) /\ Makes(s, Whole("organization_invites"))
    BY <2>1, <2>2, TableFine
  <2> QED
    BY <2>3 DEF u2, names
<1>6. Fine(u3) /\ Lasting(u3)
  BY AddFine DEF u3, Plain, Uniques, OrgColumn
<1>7. Fine(u4) /\ Lasting(u4)
  BY AddFine DEF u4, Plain, Uniques, OrgColumn
<1>8. Fine(d1) /\ Spares(d1, 20)
  BY DropTableFine, BirthTables DEF d1
<1>9. \A b \in Births : b[2] = 20 => b[1] \in {Whole("organization_invites")}
  BY DEF Births, Whole, PendingInvite, KeyOf
<1>10. Ups(CreateInvites, 20)
  BY <1>2, <1>4, <1>5, <1>6, <1>7, <1>9 DEF Ups
<1>11. Downs(CreateInvites, 20)
  BY <1>3, <1>8, LastingSpares DEF Downs
<1> QED
  BY <1>10, <1>11

LEMMA OfBackfillOrganizations == Ups(BackfillOrganizations, 21) /\ Downs(BackfillOrganizations, 21)
<1> DEFINE u1 == Refuse({"leftOrg"})
           u2 == Need({<<"memberships", "status">>})
           u3 == Delete({"ownerless"})
           d1 == Need({Whole("memberships"), Whole("organizations")})
           d2 == Delete({"leftOrg"})
           d3 == Spread("guest", "leftOrg")
<1>1. BackfillOrganizations.up = <<u1, u2, u3>> /\ BackfillOrganizations.down = <<d1, d2, d3>>
  BY DEF BackfillOrganizations
<1> HIDE DEF u1, u2, u3, d1, d2, d3
<1>2. IsList(BackfillOrganizations.up) /\ Elements(BackfillOrganizations.up) = {u1, u2, u3}
  BY <1>1, Lists, Tuples
<1>3. IsList(BackfillOrganizations.down) /\ Elements(BackfillOrganizations.down) = {d1, d2, d3}
  BY <1>1, Lists, Tuples
<1>4. Fine(u1) /\ Lasting(u1)
  BY RefuseFine DEF u1
<1>5. Fine(u2) /\ Lasting(u2)
  BY NeedFine DEF u2
<1>6. Fine(u3) /\ Lasting(u3)
  BY DeleteFine DEF u3
<1>7. Fine(d1) /\ Lasting(d1)
  BY NeedFine DEF d1
<1>8. Fine(d2) /\ Lasting(d2)
  BY DeleteFine DEF d2
<1>9. Fine(d3) /\ Lasting(d3)
  BY SpreadFine, UniqueNames DEF d3
<1>10. \A b \in Births : b[2] # 21
  BY DEF Births, Whole, PendingInvite, KeyOf
<1>11. Ups(BackfillOrganizations, 21)
  BY <1>2, <1>4, <1>5, <1>6, <1>10 DEF Ups
<1>12. Downs(BackfillOrganizations, 21)
  BY <1>3, <1>7, <1>8, <1>9, LastingSpares DEF Downs
<1> QED
  BY <1>11, <1>12

LEMMA OfAddOrganizationToRefreshTokens == Ups(AddOrganizationToRefreshTokens, 24) /\ Downs(AddOrganizationToRefreshTokens, 24)
<1> DEFINE u1 == Add(OrgColumn("refresh_tokens"))
           d1 == Drop(OrgColumn("refresh_tokens"))
<1>1. AddOrganizationToRefreshTokens.up = <<u1>> /\ AddOrganizationToRefreshTokens.down = <<d1>>
  BY DEF AddOrganizationToRefreshTokens
<1> HIDE DEF u1, d1
<1>2. IsList(AddOrganizationToRefreshTokens.up) /\ Elements(AddOrganizationToRefreshTokens.up) = {u1}
  BY <1>1, Lists, Tuples
<1>3. IsList(AddOrganizationToRefreshTokens.down) /\ Elements(AddOrganizationToRefreshTokens.down) = {d1}
  BY <1>1, Lists, Tuples
<1>4. Fine(u1) /\ Lasting(u1) /\ Makes(u1, <<"refresh_tokens", "organization_id">>)
  BY AddFine DEF u1, Plain, Uniques, OrgColumn
<1>5. Fine(d1) /\ Spares(d1, 24)
  <2> DEFINE objs == OrgColumn("refresh_tokens")
  <2>1. \A c \in Created : c \notin objs
    BY CreatedColumns, BirthsStay DEF Type, In, OrgColumn, PendingInvite
  <2>2. \A b \in Births : b[2] < 24 => b[1] \notin objs
    BY BirthNames, BirthTables DEF Type, In, OrgColumn, PendingInvite
  <2> HIDE DEF objs
  <2>3. objs \cap Created = {}
    BY <2>1
  <2>4. Fine(Drop(objs)) /\ Spares(Drop(objs), 24)
    BY <2>2, <2>3, ClearFine
  <2> QED
    BY <2>4 DEF d1, objs
<1>6. \A b \in Births : b[2] = 24 => b[1] \in {<<"refresh_tokens", "organization_id">>}
  BY DEF Births, Whole, PendingInvite, KeyOf
<1>7. Ups(AddOrganizationToRefreshTokens, 24)
  BY <1>2, <1>4, <1>6 DEF Ups
<1>8. Downs(AddOrganizationToRefreshTokens, 24)
  BY <1>3, <1>5, LastingSpares DEF Downs
<1> QED
  BY <1>7, <1>8

LEMMA OfAddMembershipStatus == Ups(AddMembershipStatus, 25) /\ Downs(AddMembershipStatus, 25)
<1> DEFINE u1 == Statement("ensure", <<"memberships", "status">>, Status, {})
           d1 == Clear({<<"memberships", "chk_memberships_status">>})
           d2 == Drop({<<"memberships", "status">>})
<1>1. AddMembershipStatus.up = <<u1>> /\ AddMembershipStatus.down = <<d1, d2>>
  BY DEF AddMembershipStatus
<1> HIDE DEF u1, d1, d2
<1>2. IsList(AddMembershipStatus.up) /\ Elements(AddMembershipStatus.up) = {u1}
  BY <1>1, Lists, Tuples
<1>3. IsList(AddMembershipStatus.down) /\ Elements(AddMembershipStatus.down) = {d1, d2}
  BY <1>1, Lists, Tuples
<1>4. Fine(u1) /\ Lasting(u1) /\ Makes(u1, <<"memberships", "status">>)
  BY DEF u1, Statement, Status, In, Fine, Lasting, Removes, Makes, Uniques
<1>5. Fine(d1) /\ Spares(d1, 25)
  <2> DEFINE objs == {<<"memberships", "chk_memberships_status">>}
  <2>1. \A c \in Created : c \notin objs
    BY CreatedColumns, BirthsStay DEF Type, In, OrgColumn, PendingInvite
  <2>2. \A b \in Births : b[2] < 25 => b[1] \notin objs
    BY BirthNames, BirthTables DEF Type, In, OrgColumn, PendingInvite
  <2> HIDE DEF objs
  <2>3. objs \cap Created = {}
    BY <2>1
  <2>4. Fine(Clear(objs)) /\ Spares(Clear(objs), 25)
    BY <2>2, <2>3, ClearFine
  <2> QED
    BY <2>4 DEF d1, objs
<1>6. Fine(d2) /\ Spares(d2, 25)
  <2> DEFINE objs == {<<"memberships", "status">>}
  <2>1. \A c \in Created : c \notin objs
    BY CreatedColumns, BirthsStay DEF Type, In, OrgColumn, PendingInvite
  <2>2. \A b \in Births : b[2] < 25 => b[1] \notin objs
    BY BirthNames, BirthTables DEF Type, In, OrgColumn, PendingInvite
  <2> HIDE DEF objs
  <2>3. objs \cap Created = {}
    BY <2>1
  <2>4. Fine(Drop(objs)) /\ Spares(Drop(objs), 25)
    BY <2>2, <2>3, ClearFine
  <2> QED
    BY <2>4 DEF d2, objs
<1>7. \A b \in Births : b[2] = 25 => b[1] \in {<<"memberships", "status">>}
  BY DEF Births, Whole, PendingInvite, KeyOf
<1>8. Ups(AddMembershipStatus, 25)
  BY <1>2, <1>4, <1>7 DEF Ups
<1>9. Downs(AddMembershipStatus, 25)
  BY <1>3, <1>5, <1>6, LastingSpares DEF Downs
<1> QED
  BY <1>8, <1>9

LEMMA OfDropUsersRole == Ups(DropUsersRole, 26) /\ Downs(DropUsersRole, 26)
<1> DEFINE u1 == Drop({<<"users", "role">>})
           d1 == Ensure(Type("enum_users_role"))
           d2 == Add({<<"users", "role">>})
<1>1. DropUsersRole.up = <<u1>> /\ DropUsersRole.down = <<d1, d2>>
  BY DEF DropUsersRole
<1> HIDE DEF u1, d1, d2
<1>2. IsList(DropUsersRole.up) /\ Elements(DropUsersRole.up) = {u1}
  BY <1>1, Lists, Tuples
<1>3. IsList(DropUsersRole.down) /\ Elements(DropUsersRole.down) = {d1, d2}
  BY <1>1, Lists, Tuples
<1>4. Fine(u1) /\ Lasting(u1)
  <2> DEFINE objs == {<<"users", "role">>}
  <2>1. \A c \in Created : c \notin objs
    BY CreatedColumns, BirthsStay DEF Type, In, OrgColumn, PendingInvite
  <2>2. \A b \in Births : b[1] \notin objs
    BY BirthNames, BirthTables DEF Type, In, OrgColumn, PendingInvite
  <2> HIDE DEF objs
  <2>3. objs \cap Created = {}
    BY <2>1
  <2>4. Fine(Drop(objs)) /\ Lasting(Drop(objs))
    BY <2>2, <2>3, ClearFine
  <2> QED
    BY <2>4 DEF u1, objs
<1>5. Fine(d1) /\ Lasting(d1)
  BY EnsureFine DEF d1, Plain, Uniques, Type
<1>6. Fine(d2) /\ Lasting(d2)
  BY AddFine DEF d2, Plain, Uniques, OrgColumn
<1>7. \A b \in Births : b[2] # 26
  BY DEF Births, Whole, PendingInvite, KeyOf
<1>8. Ups(DropUsersRole, 26)
  BY <1>2, <1>4, <1>7 DEF Ups
<1>9. Downs(DropUsersRole, 26)
  BY <1>3, <1>5, <1>6, LastingSpares DEF Downs
<1> QED
  BY <1>8, <1>9

LEMMA OfUniquePendingInvite == Ups(UniquePendingInvite, 28) /\ Downs(UniquePendingInvite, 28)
<1> DEFINE u1 == Delete({"dupExpired"})
           u2 == Refuse({"dupLive"})
           u3 == AddUnique(PendingInvite, {"dupExpired", "dupLive"})
           d1 == Clear({PendingInvite})
<1>1. UniquePendingInvite.up = <<u1, u2, u3>> /\ UniquePendingInvite.down = <<d1>>
  BY DEF UniquePendingInvite
<1> HIDE DEF u1, u2, u3, d1
<1>2. IsList(UniquePendingInvite.up) /\ Elements(UniquePendingInvite.up) = {u1, u2, u3}
  BY <1>1, Lists, Tuples
<1>3. IsList(UniquePendingInvite.down) /\ Elements(UniquePendingInvite.down) = {d1}
  BY <1>1, Lists, Tuples
<1>4. Fine(u1) /\ Lasting(u1)
  BY DeleteFine DEF u1
<1>5. Fine(u2) /\ Lasting(u2)
  BY RefuseFine DEF u2
<1>6. Fine(u3) /\ Lasting(u3) /\ Makes(u3, PendingInvite)
  BY AddUniqueFine, UniqueOf DEF u3
<1>7. Fine(d1) /\ Spares(d1, 28)
  <2> DEFINE objs == {PendingInvite}
  <2>1. \A c \in Created : c \notin objs
    BY CreatedColumns, BirthsStay DEF Type, In, OrgColumn, PendingInvite
  <2>2. \A b \in Births : b[2] < 28 => b[1] \notin objs
    BY BirthNames, BirthTables DEF Type, In, OrgColumn, PendingInvite
  <2> HIDE DEF objs
  <2>3. objs \cap Created = {}
    BY <2>1
  <2>4. Fine(Clear(objs)) /\ Spares(Clear(objs), 28)
    BY <2>2, <2>3, ClearFine
  <2> QED
    BY <2>4 DEF d1, objs
<1>8. \A b \in Births : b[2] = 28 => b[1] \in {PendingInvite}
  BY DEF Births, Whole, PendingInvite, KeyOf
<1>9. Ups(UniquePendingInvite, 28)
  BY <1>2, <1>4, <1>5, <1>6, <1>8 DEF Ups
<1>10. Downs(UniquePendingInvite, 28)
  BY <1>3, <1>7, LastingSpares DEF Downs
<1> QED
  BY <1>9, <1>10

\* The migrations that do the same to each of the domain's tables.

LEMMA OrgColumnFine ==
    /\ \A t \in DomainTables \cup {"processed_messages"} :
         /\ Fine(Add(OrgColumn(t))) /\ Lasting(Add(OrgColumn(t)))
         /\ Makes(Add(OrgColumn(t)), <<t, "organization_id">>)
         /\ Fine(Drop(OrgColumn(t))) /\ Spares(Drop(OrgColumn(t)), 22)
<1> SUFFICES ASSUME NEW t \in DomainTables \cup {"processed_messages"}
             PROVE  /\ Fine(Add(OrgColumn(t))) /\ Lasting(Add(OrgColumn(t)))
                    /\ Makes(Add(OrgColumn(t)), <<t, "organization_id">>)
                    /\ Fine(Drop(OrgColumn(t))) /\ Spares(Drop(OrgColumn(t)), 22)
  OBVIOUS
<1>1. \A o \in OrgColumn(t) : Plain(o)
  BY DEF OrgColumn, Plain, Uniques
<1>2. <<t, "organization_id">> \in OrgColumn(t)
  BY DEF OrgColumn
<1>3. \A c \in Created : c \notin OrgColumn(t)
  BY CreatedColumns DEF OrgColumn, DomainTables
<1>4. \A b \in Births : b[2] < 22 => b[1] \notin OrgColumn(t)
  BY BirthNames DEF OrgColumn
<1>5. OrgColumn(t) \cap Created = {}
  BY <1>3
<1> QED
  BY <1>1, <1>2, <1>4, <1>5, AddFine, ClearFine

\* Clearing, dropping or adding what the models do not need.
Minor(o) ==
    \/ o[1] = "type"
    \/ o[2] \in {"fkey", "fkey1", "fkey2", "fkey3", "fkey4", "idx_organization_id",
                 "organization_id_not_null"}

LEMMA MinorFine ==
    ASSUME NEW objs, \A o \in objs : Minor(o)
    PROVE  /\ Fine(Clear(objs)) /\ Lasting(Clear(objs))
           /\ Fine(Drop(objs)) /\ Lasting(Drop(objs))
<1>1. \A c \in Created : ~Minor(c)
  <2> SUFFICES ASSUME NEW c \in Created PROVE ~Minor(c)
    OBVIOUS
  <2> QED
    BY CreatedColumns DEF Minor
<1>2. \A b \in Births : ~Minor(b[1])
  BY BirthNames, BirthTables DEF Minor
<1>3. objs \cap Created = {} /\ \A b \in Births : b[1] \notin objs
  BY <1>1, <1>2
<1> QED
  BY <1>3, ClearFine

LEMMA MinorObjects ==
    /\ \A t, n : n \in {"fkey1", "idx_organization_id", "organization_id_not_null"} =>
         Minor(<<t, n>>) /\ Plain(<<t, n>>)
    /\ \A e : Minor(Type(e))
    /\ \A t : \A o \in WithKeys(t) : Minor(o)
    /\ \A e \in {"enum_users_role", "enum_metric_log_type"} : Plain(Type(e))
<1>1. Range(Keys) = {"fkey", "fkey1", "fkey2", "fkey3", "fkey4"}
  BY DEF Range, Keys
<1> QED
  BY <1>1 DEF Minor, Plain, Uniques, Type, WithKeys, In

LEMMA Quads ==
    /\ \A a : IsList(<<a>>)
    /\ \A a, b : IsList(<<a, b>>)
    /\ \A a, b, c : IsList(<<a, b, c>>)
    /\ \A a, b, c, d : IsList(<<a, b, c, d>>)
BY Lists

LEMMA QuadElements ==
    /\ \A a : Elements(<<a>>) = {a}
    /\ \A a, b : Elements(<<a, b>>) = {a, b}
    /\ \A a, b, c : Elements(<<a, b, c>>) = {a, b, c}
    /\ \A a, b, c, d : Elements(<<a, b, c, d>>) = {a, b, c, d}
BY Tuples

LEMMA ThreeJoined ==
    \A x, y, z : IsList(x) /\ IsList(y) /\ IsList(z) =>
        /\ IsList(x \o y \o z)
        /\ Elements(x \o y \o z) = Elements(x) \cup Elements(y) \cup Elements(z)
<1> SUFFICES ASSUME NEW x, NEW y, NEW z, IsList(x), IsList(y), IsList(z)
             PROVE  /\ IsList(x \o y \o z)
                    /\ Elements(x \o y \o z) = Elements(x) \cup Elements(y) \cup Elements(z)
  OBVIOUS
<1>1. IsList(x \o y) /\ Elements(x \o y) = Elements(x) \cup Elements(y)
  BY ListsJoined
<1> QED
  BY <1>1, ListsJoined

LEMMA OfAddOrganizationId ==
    /\ Ups(AddOrganizationId, 22) /\ Downs(AddOrganizationId, 22)
    /\ \A t \in DomainTables \cup {"processed_messages"} :
         Drop(OrgColumn(t)) \in Elements(AddOrganizationId.down)
<1> DEFINE a(t) == Add(OrgColumn(t))
           p(t) == Drop(OrgColumn(t))
           c(t) == Clear(WithKeys(t))
           u1 == <<a("metrics"), a("metric_categories"), a("metric_settings"), a("metric_logs")>>
           u2 == <<Reference("metrics"), Reference("metric_categories"),
                   Reference("metric_settings"), Reference("metric_logs")>>
           u3 == <<a("processed_messages"), Spread("ownerless", "noOrg")>>
           d1 == <<p("metrics"), p("metric_categories"), p("metric_settings"), p("metric_logs")>>
           d2 == <<c("metrics"), c("metric_categories"), c("metric_settings"), c("metric_logs")>>
           d3 == <<p("processed_messages"), Delete({"noOrg"})>>
           up == AddOrganizationId.up
           down == AddOrganizationId.down
<1>1. up = u1 \o u2 \o u3 /\ down = d1 \o d2 \o d3
  BY DEF AddOrganizationId, ForEach
<1>2. /\ IsList(u1) /\ IsList(u2) /\ IsList(u3) /\ IsList(d1) /\ IsList(d2) /\ IsList(d3)
  BY Quads, Zenon
<1>12. Elements(u1) = {a("metrics"), a("metric_categories"),
                        a("metric_settings"), a("metric_logs")}
  <2> HIDE DEF a, p, c
  <2> QED
    BY QuadElements, SMT
<1>13. Elements(u2) = {Reference("metrics"), Reference("metric_categories"),
                        Reference("metric_settings"), Reference("metric_logs")}
  <2> HIDE DEF a, p, c
  <2> QED
    BY QuadElements, SMT
<1>14. Elements(d1) = {p("metrics"), p("metric_categories"),
                        p("metric_settings"), p("metric_logs")}
  <2> HIDE DEF a, p, c
  <2> QED
    BY QuadElements, SMT
<1>15. Elements(d2) = {c("metrics"), c("metric_categories"),
                        c("metric_settings"), c("metric_logs")}
  <2> HIDE DEF a, p, c
  <2> QED
    BY QuadElements, SMT
<1>16. /\ Elements(u3) = {a("processed_messages"), Spread("ownerless", "noOrg")}
       /\ Elements(d3) = {p("processed_messages"), Delete({"noOrg"})}
  <2> HIDE DEF a, p, c
  <2> QED
    BY QuadElements, SMT
<1> HIDE DEF u1, u2, u3, d1, d2, d3, up, down
<1>3. /\ Elements(up) = Elements(u1) \cup Elements(u2) \cup Elements(u3) /\ IsList(up)
      /\ Elements(down) = Elements(d1) \cup Elements(d2) \cup Elements(d3) /\ IsList(down)
  <2>1. /\ Elements(u1 \o u2 \o u3) = Elements(u1) \cup Elements(u2) \cup Elements(u3)
        /\ IsList(u1 \o u2 \o u3)
    BY <1>2, ThreeJoined
  <2>2. /\ Elements(d1 \o d2 \o d3) = Elements(d1) \cup Elements(d2) \cup Elements(d3)
        /\ IsList(d1 \o d2 \o d3)
    BY <1>2, ThreeJoined
  <2> QED
    BY <1>1, <2>1, <2>2
<1>4. \A t \in DomainTables \cup {"processed_messages"} :
        /\ Fine(a(t)) /\ Lasting(a(t)) /\ Makes(a(t), <<t, "organization_id">>)
        /\ Fine(p(t)) /\ Spares(p(t), 22)
  BY OrgColumnFine
<1>5. \A t : /\ Fine(Reference(t)) /\ Lasting(Reference(t))
             /\ Fine(c(t)) /\ Spares(c(t), 22)
  <2> SUFFICES ASSUME NEW t PROVE Fine(c(t)) /\ Spares(c(t), 22)
    BY ReferenceFine
  <2>1. Fine(c(t)) /\ Lasting(c(t))
    BY MinorFine, MinorObjects
  <2> HIDE DEF c
  <2> QED
    BY <2>1, LastingSpares
<1>6. /\ Fine(Spread("ownerless", "noOrg")) /\ Lasting(Spread("ownerless", "noOrg"))
      /\ Fine(Delete({"noOrg"})) /\ Spares(Delete({"noOrg"}), 22)
  <2>1. "noOrg" \notin DOMAIN UniqueName
    BY UniqueNames
  <2> QED
    BY <2>1, SpreadFine, DeleteFine, LastingSpares
<1>7. \A b \in Births : b[2] = 22 =>
        b[1] \in {<<t, "organization_id">> : t \in DomainTables \cup {"processed_messages"}}
  BY DEF Births, Whole, PendingInvite, KeyOf, DomainTables
<1> HIDE DEF a, p, c
<1>8. \A t \in DomainTables \cup {"processed_messages"} : a(t) \in Elements(up)
  BY <1>3, <1>12, <1>16 DEF DomainTables
<1>17. \A t \in DomainTables \cup {"processed_messages"} : p(t) \in Elements(down)
  BY <1>3, <1>14, <1>16 DEF DomainTables
<1>9. \A b \in Births : b[2] = 22 => \E s \in Elements(up) : Makes(s, b[1])
  BY <1>4, <1>7, <1>8
<1>10. \A s \in Elements(up) : Fine(s) /\ Lasting(s)
  BY <1>3, <1>4, <1>5, <1>6, <1>12, <1>13, <1>14, <1>15, <1>16 DEF DomainTables
<1>11. \A s \in Elements(down) : Fine(s) /\ Spares(s, 22)
  BY <1>3, <1>4, <1>5, <1>6, <1>12, <1>13, <1>14, <1>15, <1>16 DEF DomainTables
<1>18. \A t \in DomainTables \cup {"processed_messages"} :
         Drop(OrgColumn(t)) \in Elements(AddOrganizationId.down)
  BY <1>17 DEF p, down
<1>19. Ups(AddOrganizationId, 22) /\ Downs(AddOrganizationId, 22)
  BY <1>3, <1>9, <1>10, <1>11 DEF Ups, Downs, up, down
<1> QED
  BY <1>18, <1>19

LEMMA MinorStatements ==
    /\ \A t, n : n \in {"fkey1", "idx_organization_id", "organization_id_not_null"} =>
         /\ Fine(Ensure(<<t, n>>)) /\ Lasting(Ensure(<<t, n>>))
         /\ Fine(Add({<<t, n>>})) /\ Lasting(Add({<<t, n>>}))
         /\ Fine(Clear({<<t, n>>})) /\ Lasting(Clear({<<t, n>>}))
         /\ Fine(Drop({<<t, n>>})) /\ Lasting(Drop({<<t, n>>}))
    /\ \A e \in {"enum_users_role", "enum_metric_log_type"} :
         /\ Fine(Clear({Type(e)})) /\ Lasting(Clear({Type(e)}))
         /\ Fine(Ensure(Type(e))) /\ Lasting(Ensure(Type(e)))
<1>1. ASSUME NEW o, Minor(o), Plain(o)
      PROVE  /\ Fine(Ensure(o)) /\ Lasting(Ensure(o))
             /\ Fine(Add({o})) /\ Lasting(Add({o}))
             /\ Fine(Clear({o})) /\ Lasting(Clear({o}))
             /\ Fine(Drop({o})) /\ Lasting(Drop({o}))
  <2>1. (\A x \in {o} : Minor(x)) /\ \A x \in {o} : Plain(x)
    BY <1>1
  <2> QED
    BY <1>1, <2>1, EnsureFine, AddFine, MinorFine
<1> QED
  BY <1>1, MinorObjects

LEMMA OfSetOrganizationIdNotNull ==
    Ups(SetOrganizationIdNotNull, 23) /\ Downs(SetOrganizationIdNotNull, 23)
<1> DEFINE a(t) == Ensure(<<t, "organization_id_not_null">>)
           i(t) == Add({<<t, "idx_organization_id">>})
           n(t) == Clear({<<t, "organization_id_not_null">>})
           d(t) == Clear({<<t, "idx_organization_id">>})
           columns == (DomainTables \cup {"processed_messages"}) \X {"organization_id"}
           u1 == <<Need(columns), Refuse({"noOrg"})>>
           u2 == <<a("metrics"), a("metric_categories"), a("metric_settings"), a("metric_logs")>>
           u3 == <<Reference("metrics"), Reference("metric_categories"),
                   Reference("metric_settings"), Reference("metric_logs")>>
           u4 == <<i("metrics"), i("metric_categories"), i("metric_settings"), i("metric_logs")>>
           u5 == <<i("processed_messages")>>
           d1 == <<d("metrics"), d("metric_categories"), d("metric_settings"), d("metric_logs")>>
           d2 == <<d("processed_messages")>>
           d3 == <<n("metrics"), n("metric_categories"), n("metric_settings"), n("metric_logs")>>
           up == SetOrganizationIdNotNull.up
           down == SetOrganizationIdNotNull.down
<1>1. up = u1 \o u2 \o u3 \o u4 \o u5 /\ down = d1 \o d2 \o d3 \o u3
  BY DEF SetOrganizationIdNotNull, ForEach
<1>2. /\ IsList(u1) /\ IsList(u2) /\ IsList(u3) /\ IsList(u4) /\ IsList(u5)
      /\ IsList(d1) /\ IsList(d2) /\ IsList(d3)
  BY Quads, Zenon
<1>3. /\ Elements(u1) = {Need(columns), Refuse({"noOrg"})} /\ Elements(u5) = {i("processed_messages")}
      /\ Elements(d2) = {d("processed_messages")}
  <2> HIDE DEF i, d, columns
  <2>1. Elements(u1) = {Need(columns), Refuse({"noOrg"})}
    BY QuadElements, Zenon
  <2>2. Elements(u5) = {i("processed_messages")}
    BY QuadElements, Zenon
  <2>3. Elements(d2) = {d("processed_messages")}
    BY QuadElements, Zenon
  <2> HIDE DEF u1, u5, d2
  <2> QED
    BY <2>1, <2>2, <2>3
<1>4. Elements(u2) = {a("metrics"), a("metric_categories"),
                      a("metric_settings"), a("metric_logs")}
  <2> HIDE DEF a
  <2> QED
    BY QuadElements, SMT
<1>5. Elements(u3) = {Reference("metrics"), Reference("metric_categories"),
                      Reference("metric_settings"), Reference("metric_logs")}
  BY QuadElements, SMT
<1>6. Elements(u4) = {i("metrics"), i("metric_categories"),
                      i("metric_settings"), i("metric_logs")}
  <2> HIDE DEF i
  <2> QED
    BY QuadElements, SMT
<1>7. Elements(d1) = {d("metrics"), d("metric_categories"),
                      d("metric_settings"), d("metric_logs")}
  <2> HIDE DEF d
  <2> QED
    BY QuadElements, SMT
<1>8. Elements(d3) = {n("metrics"), n("metric_categories"),
                      n("metric_settings"), n("metric_logs")}
  <2> HIDE DEF n
  <2> QED
    BY QuadElements, SMT
<1> HIDE DEF columns, u1, u2, u3, u4, u5, d1, d2, d3, up, down
<1>9. /\ IsList(up)
      /\ Elements(up) = Elements(u1) \cup Elements(u2) \cup Elements(u3) \cup Elements(u4)
                            \cup Elements(u5)
  <2> DEFINE front == u1 \o u2 \o u3
  <2>1. IsList(front) /\ Elements(front) = Elements(u1) \cup Elements(u2) \cup Elements(u3)
    BY <1>2, ThreeJoined
  <2> HIDE DEF front
  <2>2. /\ IsList(front \o u4 \o u5)
        /\ Elements(front \o u4 \o u5) = Elements(front) \cup Elements(u4) \cup Elements(u5)
    BY <1>2, <2>1, ThreeJoined
  <2> QED
    BY <1>1, <2>1, <2>2 DEF front
<1>10. /\ IsList(down)
       /\ Elements(down) = Elements(d1) \cup Elements(d2) \cup Elements(d3) \cup Elements(u3)
  <2> DEFINE front == d1 \o d2 \o d3
  <2>1. IsList(front) /\ Elements(front) = Elements(d1) \cup Elements(d2) \cup Elements(d3)
    BY <1>2, ThreeJoined
  <2> HIDE DEF front
  <2>2. IsList(front \o u3) /\ Elements(front \o u3) = Elements(front) \cup Elements(u3)
    BY <1>2, <2>1, ListsJoined
  <2> QED
    BY <1>1, <2>1, <2>2 DEF front
<1>11. /\ Fine(Refuse({"noOrg"})) /\ Lasting(Refuse({"noOrg"}))
       /\ Fine(Need(columns)) /\ Lasting(Need(columns))
       /\ \A t : /\ Fine(a(t)) /\ Lasting(a(t)) /\ Fine(i(t)) /\ Lasting(i(t))
                 /\ Fine(n(t)) /\ Lasting(n(t)) /\ Fine(d(t)) /\ Lasting(d(t))
                 /\ Fine(Reference(t)) /\ Lasting(Reference(t))
  BY MinorStatements, NeedFine, RefuseFine, ReferenceFine
<1> HIDE DEF a, i, n, d
<1>12. \A s \in Elements(up) : Fine(s) /\ Lasting(s)
  BY <1>3, <1>4, <1>5, <1>6, <1>9, <1>11
<1>13. \A s \in Elements(down) : Fine(s) /\ Lasting(s)
  BY <1>3, <1>5, <1>7, <1>8, <1>10, <1>11
<1>14. \A b \in Births : b[2] # 23
  BY DEF Births, Whole, PendingInvite, KeyOf
<1> QED
  BY <1>9, <1>10, <1>12, <1>13, <1>14, LastingSpares DEF Ups, Downs, up, down

LEMMA OfDropDuplicateKeys == Ups(DropDuplicateKeys, 27) /\ Downs(DropDuplicateKeys, 27)
<1> DEFINE c(t) == Clear({<<t, "fkey1">>})
           a(t) == Add({<<t, "fkey1">>})
           u1 == <<c("metrics"), c("metric_categories"), c("metric_settings"), c("metric_logs")>>
           free == Unused({<<"users", "role">>})
           u2 == <<free, Clear({Type("enum_users_role")}),
                   Clear({Type("enum_metric_log_type")})>>
           d1 == <<a("metrics"), a("metric_categories"), a("metric_settings"), a("metric_logs")>>
           d2 == <<Ensure(Type("enum_users_role")), Ensure(Type("enum_metric_log_type"))>>
           up == DropDuplicateKeys.up
           down == DropDuplicateKeys.down
<1>1. up = u1 \o u2 /\ down = d1 \o d2
  BY DEF DropDuplicateKeys, ForEach
<1>2. IsList(u1) /\ IsList(u2) /\ IsList(d1) /\ IsList(d2)
  BY Quads, Zenon
<1>3. /\ Elements(u2) = {free, Clear({Type("enum_users_role")}),
                         Clear({Type("enum_metric_log_type")})}
      /\ Elements(d2) = {Ensure(Type("enum_users_role")), Ensure(Type("enum_metric_log_type"))}
  BY QuadElements, SMT
<1>4. Elements(u1) = {c("metrics"), c("metric_categories"),
                      c("metric_settings"), c("metric_logs")}
  <2> HIDE DEF c
  <2> QED
    BY QuadElements, SMT
<1>5. Elements(d1) = {a("metrics"), a("metric_categories"),
                      a("metric_settings"), a("metric_logs")}
  <2> HIDE DEF a
  <2> QED
    BY QuadElements, SMT
<1>11. Fine(free) /\ Lasting(free)
  BY UnusedFine
<1> HIDE DEF free, u1, u2, d1, d2, up, down
<1>6. /\ IsList(up) /\ Elements(up) = Elements(u1) \cup Elements(u2)
      /\ IsList(down) /\ Elements(down) = Elements(d1) \cup Elements(d2)
  BY <1>1, <1>2, ListsJoined
<1>7. /\ \A t : Fine(c(t)) /\ Lasting(c(t)) /\ Fine(a(t)) /\ Lasting(a(t))
      /\ \A e \in {"enum_users_role", "enum_metric_log_type"} :
           /\ Fine(Clear({Type(e)})) /\ Lasting(Clear({Type(e)}))
           /\ Fine(Ensure(Type(e))) /\ Lasting(Ensure(Type(e)))
  BY MinorStatements
<1> HIDE DEF c, a
<1>8. \A s \in Elements(up) : Fine(s) /\ Lasting(s)
  BY <1>3, <1>4, <1>6, <1>7, <1>11
<1>9. \A s \in Elements(down) : Fine(s) /\ Lasting(s)
  BY <1>3, <1>5, <1>6, <1>7
<1>10. \A b \in Births : b[2] # 27
  BY DEF Births, Whole, PendingInvite, KeyOf
<1> QED
  BY <1>6, <1>8, <1>9, <1>10, LastingSpares DEF Ups, Downs, up, down

\* The last one clears the key it adds, so the order of its statements counts.
LEMMA OfProcessedKeyPerQueue ==
    LET m == ProcessedKeyPerQueue
        key == KeyOf("key_message_id_queue")
    IN  /\ Len(m.up) = 3
        /\ \A i \in 1..3 : Fine(m.up[i]) /\ Spares(m.up[i], 29)
        /\ Makes(m.up[2], key) /\ ~Removes(m.up[3], key)
        /\ Downs(m, 29)
<1> DEFINE key == KeyOf("key_message_id_queue")
           keys == {KeyOf("key_message_id"), key}
           u1 == Clear(keys)
           u2 == Add({key})
           u3 == Add({ProcessedAtIndex})
           d1 == Refuse({"sharedId"})
           d2 == Clear({ProcessedAtIndex})
           d4 == Add({KeyOf("key_message_id")})
           m == ProcessedKeyPerQueue
<1>1. m.up = <<u1, u2, u3>> /\ m.down = <<d1, d2, u1, d4>>
  BY DEF ProcessedKeyPerQueue
<1>2. Fine(u1) /\ Spares(u1, 29)
  <2>1. \A c \in Created : c \notin keys
    BY CreatedColumns DEF KeyOf
  <2>2. \A b \in Births : b[2] < 29 => b[1] \notin keys
    BY BirthNames DEF KeyOf
  <2> HIDE DEF keys
  <2>3. keys \cap Created = {}
    BY <2>1
  <2> QED
    BY <2>2, <2>3, ClearFine
<1>3. Fine(u2) /\ Lasting(u2) /\ Makes(u2, key)
  <2>1. \A o \in {key} : Plain(o)
    BY DEF KeyOf, Plain, Uniques
  <2> QED
    BY <2>1, AddFine
<1>4. Fine(u3) /\ Lasting(u3) /\ ~Removes(u3, key)
  <2>1. \A o \in {ProcessedAtIndex} : Plain(o)
    BY DEF ProcessedAtIndex, Plain, Uniques
  <2>2. ~Removes(u3, key)
    BY DEF Removes, Add, Statement
  <2> QED
    BY <2>1, <2>2, AddFine
<1>5. Fine(d1) /\ Lasting(d1)
  BY RefuseFine
<1>6. Fine(d2) /\ Spares(d2, 29)
  <2> DEFINE objs == {ProcessedAtIndex}
  <2>1. \A c \in Created : c \notin objs
    BY CreatedColumns DEF ProcessedAtIndex
  <2>2. \A b \in Births : b[1] \notin objs
    BY BirthNames DEF ProcessedAtIndex
  <2> HIDE DEF objs
  <2>3. objs \cap Created = {}
    BY <2>1
  <2>4. Fine(Clear(objs)) /\ Spares(Clear(objs), 29)
    BY <2>2, <2>3, ClearFine
  <2> QED
    BY <2>4 DEF objs
<1>7. Fine(d4) /\ Lasting(d4)
  <2>1. \A o \in {KeyOf("key_message_id")} : Plain(o)
    BY DEF KeyOf, Plain, Uniques
  <2> QED
    BY <2>1, AddFine
<1> HIDE DEF u1, u2, u3, d1, d2, d4, key
<1>8. Len(m.up) = 3 /\ m.up[1] = u1 /\ m.up[2] = u2 /\ m.up[3] = u3
  BY <1>1
<1>9. IsList(m.down) /\ Elements(m.down) = {d1, d2, u1, d4}
  BY <1>1, Lists, Tuples
<1>10. \A i \in 1..3 : Fine(m.up[i]) /\ Spares(m.up[i], 29)
  BY <1>2, <1>3, <1>4, <1>8, LastingSpares
<1>11. Downs(m, 29)
  BY <1>2, <1>5, <1>6, <1>7, <1>9, LastingSpares DEF Downs
<1> QED
  BY <1>3, <1>4, <1>8, <1>10, <1>11 DEF key

\* What doing a migration brings.
Brings(m, k) ==
    /\ Len(m.up) \in Nat
    /\ \A i \in 1..Len(m.up) : Fine(m.up[i]) /\ Spares(m.up[i], k)
    /\ \A b \in Births : b[2] = k =>
         \E j \in 1..Len(m.up) :
            /\ Makes(m.up[j], b[1])
            /\ \A i \in (j + 1)..Len(m.up) : ~Removes(m.up[i], b[1])

LEMMA UpsBrings == ASSUME NEW m, NEW k, Ups(m, k) PROVE Brings(m, k)
<1>1. \A i \in 1..Len(m.up) : m.up[i] \in Elements(m.up)
  BY DEF Elements
<1>2. \A i \in 1..Len(m.up) : Fine(m.up[i]) /\ Lasting(m.up[i]) /\ Spares(m.up[i], k)
  BY <1>1, LastingSpares DEF Ups
<1>3. ASSUME NEW b \in Births, b[2] = k
      PROVE  \E j \in 1..Len(m.up) :
                /\ Makes(m.up[j], b[1])
                /\ \A i \in (j + 1)..Len(m.up) : ~Removes(m.up[i], b[1])
  <2>1. PICK s \in Elements(m.up) : Makes(s, b[1])
    BY <1>3 DEF Ups
  <2>2. PICK j \in 1..Len(m.up) : s = m.up[j]
    BY <2>1 DEF Elements
  <2>3. \A i \in (j + 1)..Len(m.up) : i \in 1..Len(m.up)
    BY DEF Ups, IsList
  <2>4. \A i \in (j + 1)..Len(m.up) : ~Removes(m.up[i], b[1])
    BY <1>2, <2>3 DEF Lasting
  <2> QED
    BY <2>1, <2>2, <2>4
<1> QED
  BY <1>2, <1>3 DEF Brings, Ups, IsList

LEMMA LastBrings == Brings(ProcessedKeyPerQueue, 29)
<1> DEFINE m == ProcessedKeyPerQueue
           key == KeyOf("key_message_id_queue")
<1>1. \A b \in Births : b[2] = 29 => b[1] = key
  BY DEF Births, Whole, PendingInvite, KeyOf
<1> HIDE DEF key
<1>2. /\ Len(m.up) = 3 /\ \A i \in 1..3 : Fine(m.up[i]) /\ Spares(m.up[i], 29)
      /\ Makes(m.up[2], key) /\ ~Removes(m.up[3], key)
  BY OfProcessedKeyPerQueue DEF key
<1>3. \A i \in (2 + 1)..3 : i = 3
  OBVIOUS
<1>4. \E j \in 1..3 : Makes(m.up[j], key) /\ \A i \in (j + 1)..3 : ~Removes(m.up[i], key)
  BY <1>2, <1>3
<1> HIDE DEF m
<1> QED
  BY <1>1, <1>2, <1>4 DEF Brings, m

LEMMA MigrationFacts ==
    /\ All = 29
    /\ Migration[1] = CreateEnums
    /\ Migration[2] = EnableUuid
    /\ Migration[3] = CreateUsers
    /\ Migration[4] = CreateCategories
    /\ Migration[5] = CreateMetrics
    /\ Migration[6] = CreateSettings
    /\ Migration[7] = CreateLogs
    /\ Migration[8] = CategoryIndexes
    /\ Migration[9] = MetricIndexes
    /\ Migration[10] = SettingIndexes
    /\ Migration[11] = LogIndexes
    /\ Migration[12] = DescriptionToText
    /\ Migration[13] = CreateProcessedMessages
    /\ Migration[14] = CreatePasswordResetTokens
    /\ Migration[15] = CreateRefreshTokens
    /\ Migration[16] = AddEmailVerifiedAt
    /\ Migration[17] = CreateEmailVerificationTokens
    /\ Migration[18] = CreateOrganizations
    /\ Migration[19] = CreateMemberships
    /\ Migration[20] = CreateInvites
    /\ Migration[21] = BackfillOrganizations
    /\ Migration[22] = AddOrganizationId
    /\ Migration[23] = SetOrganizationIdNotNull
    /\ Migration[24] = AddOrganizationToRefreshTokens
    /\ Migration[25] = AddMembershipStatus
    /\ Migration[26] = DropUsersRole
    /\ Migration[27] = DropDuplicateKeys
    /\ Migration[28] = UniquePendingInvite
    /\ Migration[29] = ProcessedKeyPerQueue
BY DEF Migration, All

LEMMA MigrationsFine ==
    \A k \in 1..29 :
        /\ Brings(Migration[k], k) /\ Downs(Migration[k], k)
        /\ ~Migration[k].tx => Ups(Migration[k], k)
<1>1. Brings(Migration[1], 1) /\ Downs(Migration[1], 1) /\ Ups(Migration[1], 1)
  BY OfCreateEnums, UpsBrings, MigrationFacts
<1>2. Brings(Migration[2], 2) /\ Downs(Migration[2], 2) /\ Ups(Migration[2], 2)
  BY OfEnableUuid, UpsBrings, MigrationFacts
<1>3. Brings(Migration[3], 3) /\ Downs(Migration[3], 3) /\ Ups(Migration[3], 3)
  BY OfCreateUsers, UpsBrings, MigrationFacts
<1>4. Brings(Migration[4], 4) /\ Downs(Migration[4], 4) /\ Ups(Migration[4], 4)
  BY OfCreateCategories, UpsBrings, MigrationFacts
<1>5. Brings(Migration[5], 5) /\ Downs(Migration[5], 5) /\ Ups(Migration[5], 5)
  BY OfCreateMetrics, UpsBrings, MigrationFacts
<1>6. Brings(Migration[6], 6) /\ Downs(Migration[6], 6) /\ Ups(Migration[6], 6)
  BY OfCreateSettings, UpsBrings, MigrationFacts
<1>7. Brings(Migration[7], 7) /\ Downs(Migration[7], 7) /\ Ups(Migration[7], 7)
  BY OfCreateLogs, UpsBrings, MigrationFacts
<1>8. Brings(Migration[8], 8) /\ Downs(Migration[8], 8) /\ Ups(Migration[8], 8)
  BY OfCategoryIndexes, UpsBrings, MigrationFacts
<1>9. Brings(Migration[9], 9) /\ Downs(Migration[9], 9) /\ Ups(Migration[9], 9)
  BY OfMetricIndexes, UpsBrings, MigrationFacts
<1>10. Brings(Migration[10], 10) /\ Downs(Migration[10], 10) /\ Ups(Migration[10], 10)
  BY OfSettingIndexes, UpsBrings, MigrationFacts
<1>11. Brings(Migration[11], 11) /\ Downs(Migration[11], 11) /\ Ups(Migration[11], 11)
  BY OfLogIndexes, UpsBrings, MigrationFacts
<1>12. Brings(Migration[12], 12) /\ Downs(Migration[12], 12) /\ Ups(Migration[12], 12)
  BY OfDescriptionToText, UpsBrings, MigrationFacts
<1>13. Brings(Migration[13], 13) /\ Downs(Migration[13], 13) /\ Ups(Migration[13], 13)
  BY OfCreateProcessedMessages, UpsBrings, MigrationFacts
<1>14. Brings(Migration[14], 14) /\ Downs(Migration[14], 14) /\ Ups(Migration[14], 14)
  BY OfCreatePasswordResetTokens, UpsBrings, MigrationFacts
<1>15. Brings(Migration[15], 15) /\ Downs(Migration[15], 15) /\ Ups(Migration[15], 15)
  BY OfCreateRefreshTokens, UpsBrings, MigrationFacts
<1>16. Brings(Migration[16], 16) /\ Downs(Migration[16], 16) /\ Ups(Migration[16], 16)
  BY OfAddEmailVerifiedAt, UpsBrings, MigrationFacts
<1>17. Brings(Migration[17], 17) /\ Downs(Migration[17], 17) /\ Ups(Migration[17], 17)
  BY OfCreateEmailVerificationTokens, UpsBrings, MigrationFacts
<1>18. Brings(Migration[18], 18) /\ Downs(Migration[18], 18) /\ Ups(Migration[18], 18)
  BY OfCreateOrganizations, UpsBrings, MigrationFacts
<1>19. Brings(Migration[19], 19) /\ Downs(Migration[19], 19) /\ Ups(Migration[19], 19)
  BY OfCreateMemberships, UpsBrings, MigrationFacts
<1>20. Brings(Migration[20], 20) /\ Downs(Migration[20], 20) /\ Ups(Migration[20], 20)
  BY OfCreateInvites, UpsBrings, MigrationFacts
<1>21. Brings(Migration[21], 21) /\ Downs(Migration[21], 21) /\ Ups(Migration[21], 21)
  BY OfBackfillOrganizations, UpsBrings, MigrationFacts
<1>22. Brings(Migration[22], 22) /\ Downs(Migration[22], 22) /\ Ups(Migration[22], 22)
  BY OfAddOrganizationId, UpsBrings, MigrationFacts
<1>23. Brings(Migration[23], 23) /\ Downs(Migration[23], 23) /\ Ups(Migration[23], 23)
  BY OfSetOrganizationIdNotNull, UpsBrings, MigrationFacts
<1>24. Brings(Migration[24], 24) /\ Downs(Migration[24], 24) /\ Ups(Migration[24], 24)
  BY OfAddOrganizationToRefreshTokens, UpsBrings, MigrationFacts
<1>25. Brings(Migration[25], 25) /\ Downs(Migration[25], 25) /\ Ups(Migration[25], 25)
  BY OfAddMembershipStatus, UpsBrings, MigrationFacts
<1>26. Brings(Migration[26], 26) /\ Downs(Migration[26], 26) /\ Ups(Migration[26], 26)
  BY OfDropUsersRole, UpsBrings, MigrationFacts
<1>27. Brings(Migration[27], 27) /\ Downs(Migration[27], 27) /\ Ups(Migration[27], 27)
  BY OfDropDuplicateKeys, UpsBrings, MigrationFacts
<1>28. Brings(Migration[28], 28) /\ Downs(Migration[28], 28) /\ Ups(Migration[28], 28)
  BY OfUniquePendingInvite, UpsBrings, MigrationFacts
<1>29. /\ Brings(Migration[29], 29) /\ Downs(Migration[29], 29)
       /\ ~Migration[29].tx => Ups(Migration[29], 29)
  BY LastBrings, OfProcessedKeyPerQueue, MigrationFacts DEF ProcessedKeyPerQueue
<1>30. ASSUME NEW k \in 1..29 PROVE k = 1 \/ k = 2 \/ k = 3 \/ k = 4 \/ k = 5 \/ k = 6 \/ k = 7 \/ k = 8 \/ k = 9 \/ k = 10 \/ k = 11 \/ k = 12 \/ k = 13 \/ k = 14 \/ k = 15 \/ k = 16 \/ k = 17 \/ k = 18 \/ k = 19 \/ k = 20 \/ k = 21 \/ k = 22 \/ k = 23 \/ k = 24 \/ k = 25 \/ k = 26 \/ k = 27 \/ k = 28 \/ k = 29
  OBVIOUS
<1> QED
  BY <1>1, <1>2, <1>3, <1>4, <1>5, <1>6, <1>7, <1>8, <1>9, <1>10, <1>11, <1>12, <1>13, <1>14, <1>15, <1>16, <1>17, <1>18, <1>19, <1>20, <1>21, <1>22, <1>23, <1>24, <1>25, <1>26, <1>27, <1>28, <1>29, <1>30

-----------------------------------------------------------------------------
\* What undoing takes: of what the models need, each object is taken by the undo of the
\* migration that made it.

LEMMA TableUndone ==
    /\ DropTable("users") \in Elements(Migration[3].down)
    /\ DropTable("metric_categories") \in Elements(Migration[4].down)
    /\ DropTable("metrics") \in Elements(Migration[5].down)
    /\ DropTable("metric_settings") \in Elements(Migration[6].down)
    /\ DropTable("metric_logs") \in Elements(Migration[7].down)
    /\ DropTable("processed_messages") \in Elements(Migration[13].down)
    /\ DropTable("password_reset_tokens") \in Elements(Migration[14].down)
    /\ DropTable("refresh_tokens") \in Elements(Migration[15].down)
    /\ DropTable("email_verification_tokens") \in Elements(Migration[17].down)
    /\ DropTable("organizations") \in Elements(Migration[18].down)
    /\ DropTable("memberships") \in Elements(Migration[19].down)
    /\ DropTable("organization_invites") \in Elements(Migration[20].down)
<1>1. DropTable("users") \in Elements(Migration[3].down)
  <2>1. PICK x : CreateUsers.down = <<DropTable("users"), x>>
    BY DEF CreateUsers
  <2> QED
    BY <2>1, Tuples, MigrationFacts
<1>2. DropTable("metric_categories") \in Elements(Migration[4].down)
  <2>1. CreateCategories.down = <<DropTable("metric_categories")>>
    BY DEF CreateCategories
  <2> QED
    BY <2>1, Tuples, MigrationFacts
<1>3. DropTable("metrics") \in Elements(Migration[5].down)
  <2>1. CreateMetrics.down = <<DropTable("metrics")>>
    BY DEF CreateMetrics
  <2> QED
    BY <2>1, Tuples, MigrationFacts
<1>4. DropTable("metric_settings") \in Elements(Migration[6].down)
  <2>1. PICK x : CreateSettings.down = <<DropTable("metric_settings"), x>>
    BY DEF CreateSettings
  <2> QED
    BY <2>1, Tuples, MigrationFacts
<1>5. DropTable("metric_logs") \in Elements(Migration[7].down)
  <2>1. CreateLogs.down = <<DropTable("metric_logs")>>
    BY DEF CreateLogs
  <2> QED
    BY <2>1, Tuples, MigrationFacts
<1>6. DropTable("processed_messages") \in Elements(Migration[13].down)
  <2>1. CreateProcessedMessages.down = <<DropTable("processed_messages")>>
    BY DEF CreateProcessedMessages
  <2> QED
    BY <2>1, Tuples, MigrationFacts
<1>7. DropTable("password_reset_tokens") \in Elements(Migration[14].down)
  <2>1. CreatePasswordResetTokens.down = <<DropTable("password_reset_tokens")>>
    BY DEF CreatePasswordResetTokens
  <2> QED
    BY <2>1, Tuples, MigrationFacts
<1>8. DropTable("refresh_tokens") \in Elements(Migration[15].down)
  <2>1. CreateRefreshTokens.down = <<DropTable("refresh_tokens")>>
    BY DEF CreateRefreshTokens
  <2> QED
    BY <2>1, Tuples, MigrationFacts
<1>9. DropTable("email_verification_tokens") \in Elements(Migration[17].down)
  <2>1. CreateEmailVerificationTokens.down = <<DropTable("email_verification_tokens")>>
    BY DEF CreateEmailVerificationTokens
  <2> QED
    BY <2>1, Tuples, MigrationFacts
<1>10. DropTable("organizations") \in Elements(Migration[18].down)
  <2>1. CreateOrganizations.down = <<DropTable("organizations")>>
    BY DEF CreateOrganizations
  <2> QED
    BY <2>1, Tuples, MigrationFacts
<1>11. DropTable("memberships") \in Elements(Migration[19].down)
  <2>1. PICK x : CreateMemberships.down = <<x, DropTable("memberships")>>
    BY DEF CreateMemberships
  <2>2. Elements(CreateMemberships.down) = {x, DropTable("memberships")}
    BY <2>1, Tuples, Zenon
  <2> QED
    BY <2>2, MigrationFacts
<1>12. DropTable("organization_invites") \in Elements(Migration[20].down)
  <2>1. CreateInvites.down = <<DropTable("organization_invites")>>
    BY DEF CreateInvites
  <2> QED
    BY <2>1, Tuples, MigrationFacts
<1> QED
  BY <1>1, <1>2, <1>3, <1>4, <1>5, <1>6, <1>7, <1>8, <1>9, <1>10, <1>11, <1>12

LEMMA ColumnUndone ==
    \A b \in Births : b[1][2] # "table" =>
        \E s \in Elements(Migration[b[2]].down) : Removes(s, b[1])
<1>1. \A s, o : s = Clear({o}) \/ s = Drop({o}) => Removes(s, o)
  BY DEF Removes, Clear, Drop, Statement
<1>2. \A t, n : Removes(DropTable(t), <<t, n>>)
  BY DEF Removes, DropTable, Statement, Whole
<1>3. \E s \in Elements(Migration[8].down) : Removes(s, <<"metric_categories", "uq_metric_categories_user_name">>)
  <2>1. Len(CategoryIndexes.down) = 3 /\ CategoryIndexes.down[2] = Clear({<<"metric_categories", "uq_metric_categories_user_name">>})
    BY DEF CategoryIndexes, In
  <2>2. Clear({<<"metric_categories", "uq_metric_categories_user_name">>}) \in Elements(CategoryIndexes.down)
    BY <2>1 DEF Elements
  <2> QED
    BY <1>1, <2>2, MigrationFacts
<1>4. \E s \in Elements(Migration[9].down) : Removes(s, <<"metrics", "uq_metrics_user_name">>)
  <2>1. Len(MetricIndexes.down) = 6 /\ MetricIndexes.down[4] = Clear({<<"metrics", "uq_metrics_user_name">>})
    BY DEF MetricIndexes, In
  <2>2. Clear({<<"metrics", "uq_metrics_user_name">>}) \in Elements(MetricIndexes.down)
    BY <2>1 DEF Elements
  <2> QED
    BY <1>1, <2>2, MigrationFacts
<1>5. \E s \in Elements(Migration[10].down) : Removes(s, <<"metric_settings", "uq_metric_settings_metric">>)
  <2>1. Len(SettingIndexes.down) = 3 /\ SettingIndexes.down[3] = Clear({<<"metric_settings", "uq_metric_settings_metric">>})
    BY DEF SettingIndexes, In
  <2>2. Clear({<<"metric_settings", "uq_metric_settings_metric">>}) \in Elements(SettingIndexes.down)
    BY <2>1 DEF Elements
  <2> QED
    BY <1>1, <2>2, MigrationFacts
<1>6. \E s \in Elements(Migration[16].down) : Removes(s, <<"users", "email_verified_at">>)
  <2>1. Len(AddEmailVerifiedAt.down) = 1 /\ AddEmailVerifiedAt.down[1] = Drop({<<"users", "email_verified_at">>})
    BY DEF AddEmailVerifiedAt
  <2>2. Drop({<<"users", "email_verified_at">>}) \in Elements(AddEmailVerifiedAt.down)
    BY <2>1 DEF Elements
  <2> QED
    BY <1>1, <2>2, MigrationFacts
<1>7. \E s \in Elements(Migration[24].down) : Removes(s, <<"refresh_tokens", "organization_id">>)
  <2>1. Len(AddOrganizationToRefreshTokens.down) = 1 /\ AddOrganizationToRefreshTokens.down[1] = Drop({<<"refresh_tokens", "organization_id">>})
    BY DEF AddOrganizationToRefreshTokens, OrgColumn
  <2>2. Drop({<<"refresh_tokens", "organization_id">>}) \in Elements(AddOrganizationToRefreshTokens.down)
    BY <2>1 DEF Elements
  <2> QED
    BY <1>1, <2>2, MigrationFacts
<1>8. \E s \in Elements(Migration[25].down) : Removes(s, <<"memberships", "status">>)
  <2>1. Len(AddMembershipStatus.down) = 2 /\ AddMembershipStatus.down[2] = Drop({<<"memberships", "status">>})
    BY DEF AddMembershipStatus
  <2>2. Drop({<<"memberships", "status">>}) \in Elements(AddMembershipStatus.down)
    BY <2>1 DEF Elements
  <2> QED
    BY <1>1, <2>2, MigrationFacts
<1>9. \E s \in Elements(Migration[28].down) : Removes(s, PendingInvite)
  <2>1. Len(UniquePendingInvite.down) = 1 /\ UniquePendingInvite.down[1] = Clear({PendingInvite})
    BY DEF UniquePendingInvite
  <2>2. Clear({PendingInvite}) \in Elements(UniquePendingInvite.down)
    BY <2>1 DEF Elements
  <2> QED
    BY <1>1, <2>2, MigrationFacts
<1>10. \E s \in Elements(Migration[29].down) : Removes(s, KeyOf("key_message_id_queue"))
  <2> DEFINE keys == {KeyOf("key_message_id"), KeyOf("key_message_id_queue")}
  <2>1. Len(ProcessedKeyPerQueue.down) = 4 /\ ProcessedKeyPerQueue.down[3] = Clear(keys)
    BY DEF ProcessedKeyPerQueue
  <2>2. Clear(keys) \in Elements(ProcessedKeyPerQueue.down)
    BY <2>1 DEF Elements
  <2>3. Removes(Clear(keys), KeyOf("key_message_id_queue"))
    BY DEF Removes, Clear, Statement
  <2> QED
    BY <2>2, <2>3, MigrationFacts
<1>11. \A t \in DomainTables \cup {"processed_messages"} :
         \E s \in Elements(Migration[22].down) : Removes(s, <<t, "organization_id">>)
  <2> SUFFICES ASSUME NEW t \in DomainTables \cup {"processed_messages"}
               PROVE  /\ Drop(OrgColumn(t)) \in Elements(Migration[22].down)
                      /\ Removes(Drop(OrgColumn(t)), <<t, "organization_id">>)
    OBVIOUS
  <2>1. Drop(OrgColumn(t)) \in Elements(Migration[22].down)
    BY OfAddOrganizationId, MigrationFacts
  <2>2. Removes(Drop(OrgColumn(t)), <<t, "organization_id">>)
    BY <1>1 DEF OrgColumn
  <2> QED
    BY <2>1, <2>2
<1>12. /\ \E s \in Elements(Migration[7].down) :
              Removes(s, <<"metric_logs", "uq_metric_logs_metric_id_logged_at">>)
       /\ \E s \in Elements(Migration[19].down) :
              Removes(s, <<"memberships", "uq_memberships_user_organization">>)
  BY <1>2, TableUndone
<1> DEFINE Taken(b) == \E s \in Elements(Migration[b[2]].down) : Removes(s, b[1])
<1>13. \A o, k : (\E s \in Elements(Migration[k].down) : Removes(s, o)) => Taken(<<o, k>>)
  OBVIOUS
<1> HIDE DEF Taken
<1>14. \A b \in Births : b[1][2] # "table" => Taken(b)
  <2>1. \A t \in {"metrics", "metric_categories", "metric_settings", "metric_logs",
                 "processed_messages"} : Taken(<<<<t, "organization_id">>, 22>>)
    BY <1>11, <1>13 DEF DomainTables
  <2> QED
    BY <1>3, <1>4, <1>5, <1>6, <1>7, <1>8, <1>9, <1>10, <1>11, <1>12, <1>13, <2>1 DEF Births, Whole
<1> QED
  BY <1>14 DEF Taken

LEMMA ModelNames == \A o \in Models : o[2] # "table"
BY ModelColumns DEF Models

LEMMA ModelsTaken ==
    ASSUME NEW o \in Models
    PROVE  \E b \in Births : /\ b[1] = o \/ (o \in Created /\ b[1] = Whole(o[1]))
                             /\ o \in TakenBy(b[2])
<1>1. ASSUME NEW k \in 1..29, NEW s \in Elements(Migration[k].down), Removes(s, o)
      PROVE  o \in TakenBy(k)
  <2>1. IsList(Migration[k].down)
    BY MigrationsFine DEF Downs
  <2>2. DOMAIN Migration[k].down = 1..Len(Migration[k].down)
    BY <2>1 DEF IsList
  <2>3. s \in Range(Migration[k].down)
    BY <2>2 DEF Range, Elements
  <2> QED
    BY <1>1, <2>3 DEF TakenBy
<1>2. CASE o \in Created
  <2>1. PICK k : <<Whole(o[1]), k>> \in Births
    BY <1>2, CreatedColumns DEF Births
  <2>2. k \in 1..29 /\ DropTable(o[1]) \in Elements(Migration[k].down)
    BY <2>1, TableUndone DEF Births, Whole, PendingInvite, KeyOf
  <2>3. Removes(DropTable(o[1]), o)
    BY DEF Removes, DropTable, Statement, Whole
  <2>4. o \in TakenBy(k)
    BY <1>1, <2>2, <2>3
  <2> QED
    BY <1>2, <2>1, <2>4
<1>3. CASE o \notin Created
  <2>1. PICK b \in Births : o = b[1]
    BY <1>3 DEF Created
  <2>2. o[2] # "table" /\ b[2] \in 1..29
    BY <2>1, BirthTables, ModelNames
  <2>3. \E s \in Elements(Migration[b[2]].down) : Removes(s, o)
    BY <2>1, <2>2, ColumnUndone
  <2> QED
    BY <1>1, <2>1, <2>2, <2>3
<1> QED
  BY <1>2, <1>3

-----------------------------------------------------------------------------
\* The inductive invariant. What is on record, and neither about to be struck from it nor
\* taken by an undo that was run over, has made what the models need of it; a migration
\* under way has made it or is about to; and one that was committed and is not on record
\* has made it too.

\* What is being undone counts no more.
Floor == IF job.dir = "down" \/ torn = "down" THEN recorded - 1 ELSE recorded

Under ==
    /\ recorded \in 0..29
    /\ torn \in {"no", "up", "down"}
    /\ gaps \subseteq 1..29
    /\ \/ job = Idle
       \/ /\ job.dir \in {"up", "down"} /\ torn \in {"no", job.dir}
          /\ job = [dir |-> job.dir, left |-> job.left]
          /\ \/ job.left = <<>>
             \/ /\ ~Migration[Number(job.dir)].tx
                /\ job.left \in Seq(Elements(Statements(job.dir)))
    /\ job.dir = "up" \/ torn = "up" => recorded < 29
    /\ job.dir = "down" \/ torn = "down" => recorded > 0

Made == \A b \in Births : b[2] <= Floor /\ b[2] \notin gaps => b[1] \in schema

Making ==
    job.dir = "up" =>
        \A b \in Births : b[2] = recorded + 1 =>
            b[1] \in schema \/ \E i \in 1..Len(job.left) : Makes(job.left[i], b[1])

Committed ==
    torn = "up" /\ job = Idle /\ Migration[recorded + 1].tx =>
        \A b \in Births : b[2] = recorded + 1 => b[1] \in schema

MigrationInv ==
    /\ Under /\ Closed(Database) /\ Guarded(Database) /\ Usable(Database)
    /\ Made /\ Making /\ Committed

LEMMA BirthNumbers == \A b \in Births : b[2] \in Nat
BY BirthTables

LEMMA IdleFacts == Idle.dir = "idle" /\ Idle.left = <<>>
BY DEF Idle

LEMMA DatabaseShape ==
    /\ Shape(Database) /\ Database.ok /\ Database.schema = schema
    /\ Database.invalid = invalid /\ Database.rows = rows
BY DEF Shape, Database

LEMMA SetKeeps ==
    ASSUME NEW d, Set(d)
    PROVE  /\ Closed(d) => Closed(Database)'
           /\ Guarded(d) => Guarded(Database)'
           /\ Usable(d) => Usable(Database)'
BY DEF Set, Database, Closed, Guarded, Usable

LEMMA SameKept ==
    ASSUME UNCHANGED <<schema, invalid, rows>>,
           Closed(Database), Guarded(Database), Usable(Database)
    PROVE  Closed(Database)' /\ Guarded(Database)' /\ Usable(Database)'
BY DEF Database, Closed, Guarded, Usable

LEMMA MigrationInvInit == Init => MigrationInv
<1> SUFFICES ASSUME Init PROVE MigrationInv
  OBVIOUS
<1>1. Under
  BY IdleFacts DEF Init, Under
<1>2. Closed(Database) /\ Guarded(Database) /\ Usable(Database)
  BY DEF Init, Closed, Guarded, Usable, Database
<1>3. Made
  <2>1. Floor = 0
    BY IdleFacts DEF Init, Floor
  <2>2. \A b \in Births : ~(b[2] <= 0)
    BY BirthTables
  <2> QED
    BY <2>1, <2>2 DEF Made
<1>4. Making /\ Committed
  BY IdleFacts DEF Init, Making, Committed
<1> QED
  BY <1>1, <1>2, <1>3, <1>4 DEF MigrationInv

\* An object that was made and is missing was taken by an undo that was cut off.
LEMMA DoubtfulFacts ==
    ASSUME MigrationInv
    PROVE  /\ Doubtful \subseteq 1..29 /\ gaps \subseteq Doubtful
           /\ \A b \in Births : job.dir # "down" /\ b[2] <= recorded /\ b[2] \notin Doubtful
                               => b[2] <= Floor /\ b[2] \notin gaps
<1>1. recorded \in 0..29 /\ gaps \subseteq 1..29 /\ (torn = "down" => recorded > 0)
  BY DEF MigrationInv, Under
<1>2. Doubtful \subseteq 1..29 /\ gaps \subseteq Doubtful
  BY <1>1 DEF Doubtful
<1>3. ASSUME NEW b \in Births, job.dir # "down", b[2] <= recorded, b[2] \notin Doubtful
      PROVE  b[2] <= Floor /\ b[2] \notin gaps
  <2>1. b[2] \in Nat
    BY BirthNumbers
  <2>2. CASE torn = "down"
    BY <1>1, <1>3, <2>1, <2>2 DEF Doubtful, Floor
  <2>3. CASE torn # "down"
    BY <1>1, <1>3, <2>3 DEF Doubtful, Floor
  <2> QED
    BY <2>2, <2>3
<1> QED
  BY <1>2, <1>3

\* A transaction, whole.
LEMMA RunBrings ==
    ASSUME MigrationInv, recorded < 29, job.dir # "down",
           NEW d, d = Run(Database, Migration[recorded + 1].up), d.ok
    PROVE  /\ Closed(d) /\ Guarded(d) /\ Usable(d)
           /\ \A b \in Births : b[2] <= recorded /\ b[2] \notin Doubtful => b[1] \in d.schema
           /\ \A b \in Births : b[2] = recorded + 1 => b[1] \in d.schema
<1> DEFINE k == recorded + 1
           L == Migration[k].up
<1>9. recorded \in 0..29
  BY DEF MigrationInv, Under
<1>1. k \in 1..29 /\ recorded \in 0..29
  BY <1>9
<1>2. Brings(Migration[k], k)
  BY <1>1, MigrationsFine
<1>3. /\ Len(L) \in Nat /\ \A i \in 1..Len(L) : Fine(L[i]) /\ Spares(L[i], k)
      /\ \A b \in Births : b[2] = k =>
           \E j \in 1..Len(L) : /\ Makes(L[j], b[1])
                                /\ \A i \in (j + 1)..Len(L) : ~Removes(L[i], b[1])
  BY <1>2 DEF Brings
<1> HIDE DEF L
<1>4. d = Run(Database, L)
  BY DEF L
<1>5. /\ Closed(Database) => Closed(d)
      /\ Guarded(Database) => Guarded(d)
      /\ Usable(Database) => Usable(d)
      /\ \A o \in Database.schema : (\A i \in 1..Len(L) : ~Removes(L[i], o)) => o \in d.schema
  BY <1>3, <1>4, DatabaseShape, RunKeeps
<1>6. ASSUME NEW b \in Births, b[2] <= recorded, b[2] \notin Doubtful
      PROVE  b[1] \in d.schema
  <2>1. b[1] \in Database.schema
    BY <1>6, DoubtfulFacts, DatabaseShape DEF MigrationInv, Made
  <2>2. \A i \in 1..Len(L) : ~Removes(L[i], b[1])
    BY <1>1, <1>3, <1>6, BirthNumbers DEF Spares
  <2> QED
    BY <1>5, <2>1, <2>2
<1>7. ASSUME NEW b \in Births, b[2] = k PROVE b[1] \in d.schema
  <2>1. PICK j \in 1..Len(L) : /\ Makes(L[j], b[1])
                               /\ \A i \in (j + 1)..Len(L) : ~Removes(L[i], b[1])
    BY <1>3, <1>7
  <2>2. b[1] \in Run(Database, L).schema
    <3>1. Run(Database, L).ok
      BY <1>4
    <3> DEFINE o == b[1]
    <3>2. Makes(L[j], o) /\ \A i \in (j + 1)..Len(L) : ~Removes(L[i], o)
      BY <2>1
    <3> HIDE DEF o
    <3>3. o \in Run(Database, L).schema
      BY <1>3, <3>1, <3>2, DatabaseShape, RunMakes
    <3> QED
      BY <3>3 DEF o
  <2> QED
    BY <1>4, <2>2
<1> QED
  BY <1>5, <1>6, <1>7 DEF MigrationInv

LEMMA RunSpares ==
    ASSUME MigrationInv, recorded > 0,
           NEW d, d = Run(Database, Migration[recorded].down)
    PROVE  /\ Closed(d) /\ Guarded(d) /\ Usable(d)
           /\ \A b \in Births : b[2] <= recorded - 1 /\ b[2] \notin gaps => b[1] \in d.schema
<1> DEFINE L == Migration[recorded].down
<1>1. recorded \in 1..29
  BY DEF MigrationInv, Under
<1>2. /\ Len(L) \in Nat /\ \A i \in 1..Len(L) : Fine(L[i]) /\ Spares(L[i], recorded)
  <2>1. Downs(Migration[recorded], recorded)
    BY <1>1, MigrationsFine
  <2>2. \A i \in 1..Len(L) : L[i] \in Elements(L)
    BY DEF Elements
  <2> QED
    BY <2>1, <2>2 DEF Downs, IsList
<1> HIDE DEF L
<1>3. d = Run(Database, L)
  BY DEF L
<1>4. /\ Closed(Database) => Closed(d)
      /\ Guarded(Database) => Guarded(d)
      /\ Usable(Database) => Usable(d)
      /\ \A o \in Database.schema : (\A i \in 1..Len(L) : ~Removes(L[i], o)) => o \in d.schema
  BY <1>2, <1>3, DatabaseShape, RunKeeps
<1>5. ASSUME NEW b \in Births, b[2] <= recorded - 1, b[2] \notin gaps
      PROVE  b[1] \in d.schema
  <2>1. b[1] \in Database.schema
    BY <1>1, <1>5, DatabaseShape, BirthNumbers DEF MigrationInv, Made, Floor
  <2>2. \A i \in 1..Len(L) : ~Removes(L[i], b[1])
    BY <1>1, <1>2, <1>5, BirthNumbers DEF Spares
  <2> QED
    BY <1>4, <2>1, <2>2
<1> QED
  BY <1>4, <1>5 DEF MigrationInv

-----------------------------------------------------------------------------
\* Step by step.

LEMMA BeginFacts ==
    ASSUME MigrationInv, NEW dir \in {"up", "down"}, Begin(dir)
    PROVE  /\ job = Idle /\ recorded \in 0..29
           /\ torn \in {"no", "up", "down"} /\ (torn = "up" => dir = "up")
           /\ Number(dir) \in 1..29
           /\ dir = "up" => recorded < 29
           /\ dir = "down" => recorded > 0
<1>1. All = 29
  BY MigrationFacts
<1>2. recorded \in 0..29 /\ torn \in {"no", "up", "down"}
  BY DEF MigrationInv, Under
<1>3. job = Idle /\ (torn = "up" => dir = "up") /\ Number(dir) \in 1..29
  BY <1>1 DEF Begin
<1>4. CASE dir = "up"
  BY <1>2, <1>3, <1>4 DEF Number
<1>5. CASE dir = "down"
  BY <1>2, <1>3, <1>5 DEF Number
<1> QED
  BY <1>2, <1>3, <1>4, <1>5

LEMMA GoOnFacts ==
    ASSUME MigrationInv, NEW dir \in {"up", "down"}, Begin(dir), GoOn(dir), recorded' = recorded
    PROVE  /\ torn' \in {"no", dir} /\ gaps' \subseteq 1..29 /\ gaps \subseteq gaps'
           /\ dir = "up" => gaps' = Doubtful
           /\ dir = "down" => gaps' = gaps
<1>1. torn \in {"no", "up", "down"} /\ (torn = "up" => dir = "up")
  BY BeginFacts
<1>2. gaps \subseteq 1..29
  BY DEF MigrationInv, Under
<1> QED
  BY <1>1, <1>2, DoubtfulFacts DEF GoOn

LEMMA TransactionStep ==
    ASSUME MigrationInv, NEW dir \in {"up", "down"}, MigrateInTransaction(dir)
    PROVE  MigrationInv'
<1> DEFINE d == Run(Database, Statements(dir))
<1>1. /\ Begin(dir) /\ UNCHANGED <<recorded, faults>>
      /\ \/ d.ok /\ Set(d) /\ job' = [dir |-> dir, left |-> <<>>] /\ GoOn(dir)
         \/ UNCHANGED <<schema, invalid, rows, job, torn, gaps>>
  BY DEF MigrateInTransaction
<1> HIDE DEF d
<1>2. /\ job = Idle /\ recorded \in 0..29
      /\ dir = "up" => recorded < 29
      /\ dir = "down" => recorded > 0
  BY <1>1, BeginFacts
<1>3. CASE UNCHANGED <<schema, invalid, rows, job, torn, gaps>>
  <2>1. Closed(Database)' /\ Guarded(Database)' /\ Usable(Database)'
    BY <1>3, SameKept DEF MigrationInv
  <2>2. Under' /\ Made' /\ Making' /\ Committed'
    BY <1>1, <1>3 DEF MigrationInv, Under, Made, Floor, Making, Committed, Number, Statements
  <2> QED
    BY <2>1, <2>2 DEF MigrationInv
<1>4. CASE d.ok /\ Set(d) /\ job' = [dir |-> dir, left |-> <<>>] /\ GoOn(dir)
  <2>1. job'.dir = dir /\ job'.left = <<>> /\ job' = [dir |-> job'.dir, left |-> job'.left]
    BY <1>4
  <2>2. schema' = d.schema
    BY <1>4 DEF Set
  <2>7. /\ torn' \in {"no", dir} /\ gaps' \subseteq 1..29
        /\ dir = "up" => gaps' = Doubtful
        /\ dir = "down" => gaps' = gaps
    BY <1>1, <1>4, GoOnFacts
  <2>3. Under'
    BY <1>1, <1>2, <2>1, <2>7 DEF Under
  <2>4. job' # Idle
    BY <2>1, IdleFacts
  <2>5. CASE dir = "up"
    <3>1. d = Run(Database, Migration[recorded + 1].up)
      BY <2>5 DEF d, Statements, Number
    <3>2. job.dir # "down"
      BY <1>2, <2>5, IdleFacts
    <3>3. /\ Closed(d) /\ Guarded(d) /\ Usable(d)
          /\ \A b \in Births : b[2] <= recorded /\ b[2] \notin Doubtful => b[1] \in d.schema
          /\ \A b \in Births : b[2] = recorded + 1 => b[1] \in d.schema
      BY <1>2, <1>4, <2>5, <3>1, <3>2, RunBrings
    <3>4. Floor' = recorded
      BY <1>1, <1>2, <2>1, <2>5, <2>7 DEF Floor
    <3>5. Made' /\ Making'
      BY <1>1, <1>2, <2>2, <2>5, <2>7, <3>3, <3>4, BirthNumbers DEF Made, Making
    <3>6. Committed'
      BY <2>4 DEF Committed
    <3>7. Closed(Database)' /\ Guarded(Database)' /\ Usable(Database)'
      BY <1>4, <3>3, SetKeeps
    <3> QED
      BY <2>3, <3>5, <3>6, <3>7 DEF MigrationInv
  <2>6. CASE dir = "down"
    <3>1. d = Run(Database, Migration[recorded].down)
      BY <2>6 DEF d, Statements, Number
    <3>3. /\ Closed(d) /\ Guarded(d) /\ Usable(d)
          /\ \A b \in Births : b[2] <= recorded - 1 /\ b[2] \notin gaps => b[1] \in d.schema
      BY <1>2, <2>6, <3>1, RunSpares
    <3>4. Floor' = recorded - 1
      BY <1>1, <2>1, <2>6 DEF Floor
    <3>5. Made'
      BY <2>2, <2>6, <2>7, <3>3, <3>4 DEF Made
    <3>6. Committed' /\ Making'
      BY <2>1, <2>4, <2>6 DEF Committed, Making
    <3>7. Closed(Database)' /\ Guarded(Database)' /\ Usable(Database)'
      BY <1>4, <3>3, SetKeeps
    <3> QED
      BY <2>3, <3>5, <3>6, <3>7 DEF MigrationInv
  <2> QED
    BY <2>5, <2>6
<1> QED
  BY <1>1, <1>3, <1>4

LEMMA StartStep ==
    ASSUME MigrationInv, NEW dir \in {"up", "down"}, StartStatements(dir)
    PROVE  MigrationInv'
<1>1. /\ job = Idle /\ recorded \in 0..29
      /\ dir = "up" => recorded < 29
      /\ dir = "down" => recorded > 0
      /\ ~Migration[Number(dir)].tx /\ Number(dir) \in 1..29
      /\ job' = [dir |-> dir, left |-> Statements(dir)]
      /\ UNCHANGED <<schema, invalid, rows, recorded, faults>>
  BY BeginFacts DEF StartStatements
<1>10. /\ torn' \in {"no", dir} /\ gaps' \subseteq 1..29
       /\ dir = "up" => gaps' = Doubtful
       /\ dir = "down" => gaps' = gaps
  BY <1>1, GoOnFacts DEF StartStatements
<1>2. /\ job'.dir = dir /\ job'.left = Statements(dir) /\ Statements(dir)' = Statements(dir)
      /\ job' = [dir |-> job'.dir, left |-> job'.left] /\ Number(dir)' = Number(dir)
  BY <1>1 DEF Statements, Number
<1>3. IsList(Statements(dir))
  <2>1. CASE dir = "up"
    BY <1>1, <2>1, MigrationsFine DEF Ups, Statements
  <2>2. CASE dir = "down"
    BY <1>1, <2>2, MigrationsFine DEF Downs, Statements
  <2> QED
    BY <2>1, <2>2
<1>4. Number(job.dir)' = Number(dir) /\ Statements(job.dir)' = Statements(dir)
  BY <1>1, <1>2 DEF Number, Statements
<1>5. Under'
  BY <1>1, <1>2, <1>3, <1>4, <1>10 DEF Under, IsList
<1>6. Made'
  <2> SUFFICES ASSUME NEW b \in Births, b[2] <= Floor', b[2] \notin gaps' PROVE b[1] \in schema
    BY <1>1 DEF Made
  <2>1. CASE dir = "up"
    <3>1. b[2] <= recorded /\ b[2] \notin Doubtful /\ job.dir # "down"
      BY <1>1, <1>2, <1>10, <2>1, IdleFacts DEF Floor
    <3> QED
      BY <3>1, DoubtfulFacts DEF MigrationInv, Made
  <2>2. CASE dir = "down"
    <3>1. b[2] <= recorded - 1 /\ b[2] \notin gaps
      BY <1>1, <1>2, <1>10, <2>2 DEF Floor
    <3>2. b[2] <= Floor
      BY <1>1, <3>1, BirthNumbers DEF Floor
    <3> QED
      BY <3>1, <3>2 DEF MigrationInv, Made
  <2> QED
    BY <2>1, <2>2
<1>7. Making'
  <2> SUFFICES ASSUME dir = "up", NEW b \in Births, b[2] = recorded + 1
               PROVE  \E i \in 1..Len(Statements(dir)) : Makes(Statements(dir)[i], b[1])
    BY <1>1, <1>2 DEF Making
  <2>1. Ups(Migration[recorded + 1], recorded + 1) /\ Statements(dir) = Migration[recorded + 1].up
    BY <1>1, MigrationsFine DEF Number, Statements
  <2>2. \E s \in Elements(Statements(dir)) : Makes(s, b[1])
    BY <2>1 DEF Ups
  <2> QED
    BY <2>2 DEF Elements
<1>8. Committed'
  BY <1>1, <1>2, IdleFacts DEF Committed
<1>9. Closed(Database)' /\ Guarded(Database)' /\ Usable(Database)'
  BY <1>1, SameKept DEF MigrationInv
<1> QED
  BY <1>5, <1>6, <1>7, <1>8, <1>9 DEF MigrationInv

\* What a statement of the migration under way is.
LEMMA HeadFacts ==
    ASSUME MigrationInv, job.left # <<>>
    PROVE  /\ job.dir \in {"up", "down"} /\ torn \in {"no", job.dir}
           /\ job = [dir |-> job.dir, left |-> job.left] /\ job # Idle
           /\ Number(job.dir) \in 1..29 /\ ~Migration[Number(job.dir)].tx
           /\ job.left \in Seq(Elements(Statements(job.dir)))
           /\ Fine(Head(job.left))
           /\ job.dir = "up" => Lasting(Head(job.left))
           /\ job.dir = "down" => Spares(Head(job.left), recorded)
<1>1. /\ job.dir \in {"up", "down"} /\ torn \in {"no", job.dir}
      /\ job = [dir |-> job.dir, left |-> job.left] /\ job # Idle
      /\ ~Migration[Number(job.dir)].tx
      /\ job.left \in Seq(Elements(Statements(job.dir)))
  BY IdleFacts DEF MigrationInv, Under
<1>2. Number(job.dir) \in 1..29
  <2>1. /\ recorded \in 0..29
        /\ job.dir = "up" => recorded < 29
        /\ job.dir = "down" => recorded > 0
    BY DEF MigrationInv, Under
  <2>2. CASE job.dir = "up"
    BY <2>1, <2>2 DEF Number
  <2>3. CASE job.dir = "down"
    BY <2>1, <2>3 DEF Number
  <2> QED
    BY <1>1, <2>2, <2>3
<1>3. Head(job.left) \in Elements(Statements(job.dir))
  <2> DEFINE L == job.left
             S == Elements(Statements(job.dir))
  <2>1. L \in Seq(S) /\ L # <<>>
    BY <1>1
  <2> HIDE DEF L, S
  <2>2. Head(L) \in S
    BY <2>1
  <2> QED
    BY <2>2 DEF L, S
<1>4. CASE job.dir = "up"
  BY <1>1, <1>2, <1>3, <1>4, MigrationsFine DEF Ups, Statements
<1>5. CASE job.dir = "down"
  BY <1>1, <1>2, <1>3, <1>5, MigrationsFine DEF Downs, Statements, Number
<1> QED
  BY <1>1, <1>2, <1>4, <1>5

LEMMA RunStatementStep == MigrationInv /\ RunStatement => MigrationInv'
<1> SUFFICES ASSUME MigrationInv, RunStatement PROVE MigrationInv'
  OBVIOUS
<1> DEFINE s == Head(job.left)
           d == Do(Database, s)
           dir == job.dir
           L == job.left
           S == Elements(Statements(dir))
<1>1. /\ L # <<>> /\ Set(d) /\ UNCHANGED <<recorded, gaps, faults>>
      /\ job' = IF d.ok THEN [job EXCEPT !.left = Tail(@)] ELSE Idle
      /\ torn' = IF d.ok THEN torn ELSE dir
  BY DEF RunStatement
<1>2. /\ dir \in {"up", "down"} /\ torn \in {"no", dir}
      /\ job = [dir |-> dir, left |-> L] /\ job # Idle
      /\ Number(dir) \in 1..29 /\ ~Migration[Number(dir)].tx
      /\ L \in Seq(S) /\ Fine(s)
      /\ dir = "up" => Lasting(s)
      /\ dir = "down" => Spares(s, recorded)
  BY <1>1, HeadFacts
<1>3. /\ \A o : o \in schema /\ ~Removes(s, o) => o \in d.schema
      /\ d.ok => \A o : Makes(s, o) => o \in d.schema
      /\ Closed(d) /\ Guarded(d) /\ Usable(d)
  BY <1>2, DatabaseShape, DoFacts DEF MigrationInv
<1>4. /\ recorded \in 0..29
      /\ dir = "up" \/ torn = "up" => recorded < 29
      /\ dir = "down" \/ torn = "down" => recorded > 0
      /\ gaps \subseteq 1..29
  BY DEF MigrationInv, Under
<1>5. Tail(L) \in Seq(S) /\ Len(Tail(L)) = Len(L) - 1 /\ Len(L) \in Nat /\ s = L[1]
      /\ \A i \in 2..Len(L) : Tail(L)[i - 1] = L[i]
  <2> HIDE DEF S, L
  <2>1. L \in Seq(S) /\ L # <<>>
    BY <1>1, <1>2
  <2> QED
    BY <2>1 DEF s, L
<1>6. Closed(Database)' /\ Guarded(Database)' /\ Usable(Database)'
  BY <1>1, <1>3, SetKeeps
<1>7. schema' = d.schema
  BY <1>1 DEF Set
<1> HIDE DEF d, s, L, S
<1>8. Floor' = Floor /\ (dir = "down" => Floor = recorded - 1) /\ (dir = "up" => Floor = recorded)
  <2>1. CASE d.ok
    <3>1. job'.dir = dir /\ torn' = torn /\ recorded' = recorded
      BY <1>1, <1>2, <2>1 DEF L
    <3> QED
      BY <1>2, <3>1 DEF Floor
  <2>2. CASE ~d.ok
    <3>1. job'.dir = "idle" /\ torn' = dir /\ recorded' = recorded
      BY <1>1, <2>2, IdleFacts
    <3> QED
      BY <1>2, <3>1 DEF Floor
  <2> QED
    BY <2>1, <2>2
<1>9. Made'
  <2> SUFFICES ASSUME NEW b \in Births, b[2] <= Floor, b[2] \notin gaps PROVE b[1] \in schema'
    BY <1>1, <1>8 DEF Made
  <2>1. b[1] \in schema
    BY DEF MigrationInv, Made
  <2>2. ~Removes(s, b[1])
    <3>1. CASE dir = "up"
      BY <1>2, <3>1 DEF Lasting
    <3>2. CASE dir = "down"
      <4>1. b[2] < recorded
        BY <1>4, <1>8, <3>2, BirthNumbers
      <4> QED
        BY <1>2, <3>2, <4>1 DEF Spares
    <3> QED
      BY <1>2, <3>1, <3>2
  <2> QED
    BY <1>3, <1>7, <2>1, <2>2
<1>10. CASE d.ok
  <2>1. /\ job'.dir = dir /\ job'.left = Tail(L) /\ job' = [dir |-> job'.dir, left |-> job'.left]
        /\ torn' = torn /\ recorded' = recorded
    BY <1>1, <1>2, <1>10 DEF L
  <2>2. Number(job.dir)' = Number(dir) /\ Statements(job.dir)' = Statements(dir)
    BY <2>1 DEF Number, Statements
  <2>3. Under'
    BY <1>1, <1>2, <1>4, <1>5, <2>1, <2>2 DEF Under, S
  <2>4. Making'
    <3> SUFFICES ASSUME dir = "up", NEW b \in Births, b[2] = recorded + 1
                 PROVE  b[1] \in schema' \/ \E i \in 1..Len(Tail(L)) : Makes(Tail(L)[i], b[1])
      BY <2>1 DEF Making
    <3>1. b[1] \in schema \/ \E i \in 1..Len(L) : Makes(L[i], b[1])
      BY DEF MigrationInv, Making, L
    <3>2. CASE b[1] \in schema
      BY <1>2, <1>3, <1>7, <3>2 DEF Lasting
    <3>3. CASE \E i \in 1..Len(L) : Makes(L[i], b[1])
      <4>1. PICK i \in 1..Len(L) : Makes(L[i], b[1])
        BY <3>3
      <4>2. CASE i = 1
        BY <1>3, <1>5, <1>7, <1>10, <4>1, <4>2
      <4>3. CASE i # 1
        <5>1. i \in 2..Len(L) /\ i - 1 \in 1..Len(Tail(L))
          BY <1>5, <4>3
        <5>2. Tail(L)[i - 1] = L[i]
          BY <1>5, <5>1
        <5> QED
          BY <4>1, <5>1, <5>2
      <4> QED
        BY <4>2, <4>3
    <3> QED
      BY <3>1, <3>2, <3>3
  <2>5. Committed'
    BY <1>2, <2>1, IdleFacts DEF Committed
  <2> QED
    BY <1>6, <1>9, <2>3, <2>4, <2>5 DEF MigrationInv
<1>11. CASE ~d.ok
  <2>1. job' = Idle /\ torn' = dir /\ recorded' = recorded
    BY <1>1, <1>11
  <2>2. Under'
    BY <1>1, <1>2, <1>4, <2>1, IdleFacts DEF Under
  <2>3. Making'
    BY <2>1, IdleFacts DEF Making
  <2>4. Committed'
    BY <1>2, <2>1 DEF Committed, Number
  <2> QED
    BY <1>6, <1>9, <2>2, <2>3, <2>4 DEF MigrationInv
<1> QED
  BY <1>10, <1>11

LEMMA RecordStep == MigrationInv /\ Record => MigrationInv'
<1> SUFFICES ASSUME MigrationInv, Record PROVE MigrationInv'
  OBVIOUS
<1>1. /\ job.dir \in {"up", "down"} /\ torn \in {"no", job.dir} /\ job.left = <<>>
      /\ recorded' = IF job.dir = "up" THEN recorded + 1 ELSE recorded - 1
      /\ gaps' = IF job.dir = "up" THEN gaps ELSE gaps \ {recorded}
      /\ job' = Idle /\ torn' = "no" /\ UNCHANGED <<schema, invalid, rows>>
      /\ recorded \in 0..29 /\ gaps \subseteq 1..29
      /\ job.dir = "up" => recorded < 29
      /\ job.dir = "down" => recorded > 0
  BY IdleFacts DEF Record, Enter, MigrationInv, Under
<1>2. Closed(Database)' /\ Guarded(Database)' /\ Usable(Database)'
  BY <1>1, SameKept DEF MigrationInv
<1>3. recorded' \in 0..29
  <2>1. CASE job.dir = "up"
    BY <1>1, <2>1
  <2>2. CASE job.dir = "down"
    BY <1>1, <2>2
  <2> QED
    BY <1>1, <2>1, <2>2
<1>4. Under' /\ Making' /\ Committed'
  BY <1>1, <1>3, IdleFacts DEF Under, Making, Committed
<1>5. Floor' = recorded'
  BY <1>1, IdleFacts DEF Floor
<1>6. Made'
  <2> SUFFICES ASSUME NEW b \in Births, b[2] <= recorded', b[2] \notin gaps'
               PROVE  b[1] \in schema
    BY <1>1, <1>5 DEF Made
  <2>1. CASE job.dir = "up"
    <3>1. Floor = recorded
      BY <1>1, <2>1 DEF Floor
    <3>2. CASE b[2] <= recorded
      BY <1>1, <2>1, <3>1, <3>2 DEF MigrationInv, Made
    <3>3. CASE b[2] = recorded + 1
      <4>1. Len(job.left) = 0
        BY <1>1
      <4>2. b[1] \in schema \/ \E i \in 1..Len(job.left) : Makes(job.left[i], b[1])
        BY <2>1, <3>3 DEF MigrationInv, Making
      <4> QED
        BY <4>1, <4>2
    <3>4. recorded' = recorded + 1 /\ recorded \in Nat
      BY <1>1, <2>1
    <3>5. b[2] <= recorded \/ b[2] = recorded + 1
      BY <3>4, BirthNumbers
    <3> QED
      BY <3>2, <3>3, <3>5
  <2>2. CASE job.dir = "down"
    <3>1. Floor = recorded - 1
      BY <2>2 DEF Floor
    <3>2. b[2] <= recorded - 1 /\ b[2] \notin gaps
      BY <1>1, <2>2, BirthNumbers
    <3> QED
      BY <3>1, <3>2 DEF MigrationInv, Made
  <2> QED
    BY <1>1, <2>1, <2>2
<1> QED
  BY <1>2, <1>4, <1>6 DEF MigrationInv

LEMMA CrashStep == MigrationInv /\ Crash => MigrationInv'
<1> SUFFICES ASSUME MigrationInv, Crash PROVE MigrationInv'
  OBVIOUS
<1>1. /\ job.dir \in {"up", "down"} /\ torn \in {"no", job.dir}
      /\ job' = Idle /\ torn' = job.dir /\ UNCHANGED <<rows, recorded, gaps>>
      /\ recorded \in 0..29 /\ gaps \subseteq 1..29
      /\ job.dir = "up" => recorded < 29
      /\ job.dir = "down" => recorded > 0
  BY IdleFacts DEF Crash, MigrationInv, Under
<1>2. \/ UNCHANGED <<schema, invalid>>
      \/ /\ job.left # <<>> /\ Head(job.left).op = "build"
         /\ schema' = schema \cup Head(job.left).objs
         /\ invalid' = invalid \cup Head(job.left).objs
  BY DEF Crash, Building
<1>3. schema \subseteq schema'
  BY <1>2
<1>4. Closed(Database)' /\ Guarded(Database)' /\ Usable(Database)'
  <2>1. CASE UNCHANGED <<schema, invalid>>
    BY <1>1, <2>1, SameKept DEF MigrationInv
  <2>2. CASE ~UNCHANGED <<schema, invalid>>
    <3> DEFINE s == Head(job.left)
    <3>1. Fine(s)
      BY <1>2, <2>2, HeadFacts
    <3>2. s.op = "build" /\ schema' = schema \cup s.objs /\ invalid' = invalid \cup s.objs
      BY <1>2, <2>2
    <3> HIDE DEF s
    <3>3. \A o \in s.objs : o[2] # "table"
      BY <3>1, <3>2 DEF Fine
    <3>4. \A o \in Created : Whole(o[1]) \in schema => o \in schema
      BY DatabaseShape DEF MigrationInv, Closed
    <3>5. \A o \in Created : Whole(o[1]) \in schema' => o \in schema'
      BY <3>2, <3>3, <3>4 DEF Whole
    <3>6. Closed(Database)'
      BY <3>5 DEF Closed, Database
    <3>7. Guarded(Database)'
      BY <1>1, <3>2 DEF Guarded, Database, MigrationInv
    <3>8. Usable(Database)'
      <4>1. s.objs \cap Models \subseteq BuiltOnline
        BY <3>1, <3>2 DEF Fine
      <4> QED
        BY <3>2, <4>1 DEF Usable, Database, MigrationInv
    <3> QED
      BY <3>6, <3>7, <3>8
  <2> QED
    BY <2>1, <2>2
<1>5. Under' /\ Making'
  BY <1>1, IdleFacts DEF Under, Making
<1>6. Floor' = Floor
  BY <1>1, IdleFacts DEF Floor
<1>7. Made'
  BY <1>1, <1>3, <1>6 DEF MigrationInv, Made
<1>8. Committed'
  <2> SUFFICES ASSUME job.dir = "up", Migration[recorded + 1].tx,
                      NEW b \in Births, b[2] = recorded + 1
               PROVE  b[1] \in schema
    BY <1>1, <1>3 DEF Committed
  <2>1. job.left = <<>>
    BY HeadFacts DEF Number
  <2>2. Len(job.left) = 0
    BY <2>1
  <2>3. b[1] \in schema \/ \E i \in 1..Len(job.left) : Makes(job.left[i], b[1])
    BY DEF MigrationInv, Making
  <2> QED
    BY <2>2, <2>3
<1> QED
  BY <1>4, <1>5, <1>7, <1>8 DEF MigrationInv

LEMMA RecordByHandStep == MigrationInv /\ RecordByHand => MigrationInv'
<1> SUFFICES ASSUME MigrationInv, RecordByHand PROVE MigrationInv'
  OBVIOUS
<1>1. PICK dir \in {"up", "down"} :
        /\ torn = dir \/ (dir = "down" /\ recorded \in gaps)
        /\ Migration[Number(dir)].tx
        /\ Enter(dir)
  BY DEF RecordByHand
<1>2. /\ job = Idle /\ recorded \in 0..29 /\ gaps \subseteq 1..29
      /\ recorded' = IF dir = "up" THEN recorded + 1 ELSE recorded - 1
      /\ gaps' = IF dir = "up" THEN gaps ELSE gaps \ {recorded}
      /\ torn' = "no" /\ UNCHANGED <<schema, invalid, rows, job>>
      /\ torn = "up" => recorded < 29
      /\ torn = "down" => recorded > 0
  BY <1>1 DEF RecordByHand, Enter, MigrationInv, Under
<1>3. Closed(Database)' /\ Guarded(Database)' /\ Usable(Database)'
  BY <1>2, SameKept DEF MigrationInv
<1>4. recorded' \in 0..29
  <2>1. CASE dir = "up"
    BY <1>1, <1>2, <2>1
  <2>2. CASE dir = "down"
    BY <1>1, <1>2, <2>2
  <2> QED
    BY <2>1, <2>2
<1>5. Under' /\ Making' /\ Committed'
  BY <1>2, <1>4, IdleFacts DEF Under, Making, Committed
<1>6. Floor' = recorded'
  BY <1>2, IdleFacts DEF Floor
<1>7. Made'
  <2> SUFFICES ASSUME NEW b \in Births, b[2] <= recorded', b[2] \notin gaps'
               PROVE  b[1] \in schema
    BY <1>2, <1>6 DEF Made
  <2>1. CASE dir = "up"
    <3>1. Floor = recorded /\ torn = "up"
      BY <1>1, <1>2, <2>1, IdleFacts DEF Floor
    <3>2. CASE b[2] <= recorded
      BY <1>2, <2>1, <3>1, <3>2 DEF MigrationInv, Made
    <3>3. CASE b[2] = recorded + 1
      BY <1>1, <1>2, <2>1, <3>1, <3>3 DEF MigrationInv, Committed, Number
    <3>4. recorded' = recorded + 1 /\ recorded \in Nat
      BY <1>2, <2>1
    <3>5. b[2] <= recorded \/ b[2] = recorded + 1
      BY <3>4, BirthNumbers
    <3> QED
      BY <3>2, <3>3, <3>5
  <2>2. CASE dir = "down"
    <3>1. b[2] <= recorded - 1 /\ b[2] \notin gaps
      BY <1>2, <2>2, BirthNumbers
    <3>2. b[2] <= Floor
      BY <1>2, <3>1, BirthNumbers DEF Floor
    <3> QED
      BY <3>1, <3>2 DEF MigrationInv, Made
  <2> QED
    BY <1>1, <2>1, <2>2
<1> QED
  BY <1>3, <1>5, <1>7 DEF MigrationInv

LEMMA RowsStep ==
    MigrationInv /\ (\E p \in Problem : Traffic(p) \/ Repair(p)) => MigrationInv'
<1> SUFFICES ASSUME MigrationInv, NEW p \in Problem, Traffic(p) \/ Repair(p)
             PROVE  MigrationInv'
  OBVIOUS
<1>1. UNCHANGED <<schema, invalid, recorded, job, torn, gaps>>
  BY DEF Traffic, Repair
<1>2. Closed(Database)' /\ Usable(Database)'
  BY <1>1 DEF MigrationInv, Closed, Usable, Database
<1>3. \A q \in DOMAIN UniqueName \cap rows : UniqueName[q] \in schema => UniqueName[q] \in invalid
  BY DatabaseShape DEF MigrationInv, Guarded
<1>4. \A q \in DOMAIN UniqueName \cap rows' :
        UniqueName[q] \in schema => UniqueName[q] \in invalid
  <2>1. CASE Traffic(p)
    <3>1. rows' = rows \cup {p} /\ Possible(p)
      BY <2>1 DEF Traffic
    <3>2. p \in DOMAIN UniqueName => ~Works(UniqueName[p])
      <4>1. p \in DOMAIN UniqueName => p \notin {"ownerless", "noOrg", "longText", "sharedId",
                                             "guest", "leftOrg"}
        BY UniqueNames
      <4> QED
        BY <3>1, <4>1 DEF Possible
    <3> QED
      BY <1>3, <3>1, <3>2 DEF Works
  <2>2. CASE Repair(p)
    BY <1>3, <2>2 DEF Repair
  <2> QED
    BY <2>1, <2>2
<1>5. Guarded(Database)'
  BY <1>1, <1>4 DEF Guarded, Database
<1>6. Under' /\ Made' /\ Making' /\ Committed'
  BY <1>1 DEF MigrationInv, Under, Made, Floor, Making, Committed, Number, Statements
<1> QED
  BY <1>2, <1>5, <1>6 DEF MigrationInv

LEMMA MigrationInvNext == MigrationInv /\ [Next]_vars => MigrationInv'
<1> SUFFICES ASSUME MigrationInv, [Next]_vars PROVE MigrationInv'
  OBVIOUS
<1>1. CASE \E dir \in {"up", "down"} : MigrateInTransaction(dir)
  BY <1>1, TransactionStep
<1>2. CASE \E dir \in {"up", "down"} : StartStatements(dir)
  BY <1>2, StartStep
<1>3. CASE RunStatement
  BY <1>3, RunStatementStep
<1>4. CASE Record
  BY <1>4, RecordStep
<1>5. CASE Crash
  BY <1>5, CrashStep
<1>6. CASE RecordByHand
  BY <1>6, RecordByHandStep
<1>7. CASE \E p \in Problem : Traffic(p) \/ Repair(p)
  BY <1>7, RowsStep
<1>8. CASE UNCHANGED vars
  <2>1. UNCHANGED <<schema, invalid, rows, recorded, job, torn, gaps>>
    BY <1>8 DEF vars
  <2>2. Closed(Database)' /\ Guarded(Database)' /\ Usable(Database)'
    BY <2>1, SameKept DEF MigrationInv
  <2>3. Under' /\ Made' /\ Making' /\ Committed'
    BY <2>1 DEF MigrationInv, Under, Made, Floor, Making, Committed, Number, Statements
  <2> QED
    BY <2>2, <2>3 DEF MigrationInv
<1> QED
  BY <1>1, <1>2, <1>3, <1>4, <1>5, <1>6, <1>7, <1>8 DEF Next

\* With every migration on record, the models find what they name, but for an index that
\* was built online and for what an undo that was cut off took.
LEMMA ModelsThere ==
    ASSUME MigrationInv, Migrated, NEW o \in Models
    PROVE  \/ Works(o)
           \/ o \in BuiltOnline \cap invalid
           \/ \E k \in Doubtful : o \in TakenBy(k)
<1>1. o \in invalid => o \in BuiltOnline
  BY DatabaseShape DEF MigrationInv, Usable
<1>2. PICK b \in Births : /\ b[1] = o \/ (o \in Created /\ b[1] = Whole(o[1]))
                         /\ o \in TakenBy(b[2])
  BY ModelsTaken
<1>3. b[2] \notin Doubtful => b[1] \in schema
  <2>1. job.dir # "down" /\ recorded = 29
    BY IdleFacts, MigrationFacts DEF Migrated
  <2>2. b[2] <= recorded
    BY <2>1, BirthTables
  <2> QED
    BY <2>1, <2>2, DoubtfulFacts DEF MigrationInv, Made
<1>4. b[1] \in schema => o \in schema
  BY <1>2, DatabaseShape DEF MigrationInv, Closed
<1> QED
  BY <1>1, <1>2, <1>3, <1>4 DEF Works

LEMMA UniquesThere == \A p \in DOMAIN UniqueName : UniqueName[p] \in {b[1] : b \in Births}
<1>1. /\ <<<<"metric_categories", "uq_metric_categories_user_name">>, 8>> \in Births
      /\ <<<<"metrics", "uq_metrics_user_name">>, 9>> \in Births
      /\ <<<<"metric_settings", "uq_metric_settings_metric">>, 10>> \in Births
      /\ <<PendingInvite, 28>> \in Births
  BY DEF Births
<1>2. UniqueName.dupCategory = <<"metric_categories", "uq_metric_categories_user_name">>
      /\ UniqueName.dupMetric = <<"metrics", "uq_metrics_user_name">>
      /\ UniqueName.dupSettings = <<"metric_settings", "uq_metric_settings_metric">>
      /\ UniqueName.dupExpired = PendingInvite /\ UniqueName.dupLive = PendingInvite
  BY DEF UniqueName
<1>3. \A o, k : <<o, k>> \in Births => o \in {b[1] : b \in Births}
  OBVIOUS
<1> HIDE DEF Births
<1> QED
  BY <1>1, <1>2, <1>3, UniqueNames

LEMMA DuplicatesGuarded == MigrationInv => DuplicatesHaveAReason
<1> SUFFICES ASSUME MigrationInv, Settled, recorded = All,
                    NEW p \in DOMAIN UniqueName \cap rows
             PROVE  UniqueName[p] \in invalid
  BY DEF DuplicatesHaveAReason
<1>1. Floor = 29
  BY IdleFacts, MigrationFacts DEF Settled, Floor
<1>2. \A b \in Births : b[1] \in schema
  BY <1>1, BirthTables DEF MigrationInv, Made, Settled
<1>3. UniqueName[p] \in schema
  BY <1>2, UniquesThere
<1> QED
  BY <1>3, DatabaseShape DEF MigrationInv, Guarded

\* However migrations were done, undone, cut off, retried or entered by hand, and whatever
\* was written meanwhile: once all are on record, rows that a unique index is to prevent
\* exist only where a concurrent build of it had failed (20251217170000 to 20251217170020:
\* CREATE INDEX IF NOT EXISTS skips what a failed build left behind).
THEOREM DuplicatesAreExplained == Spec => []DuplicatesHaveAReason
<1>1. Init => MigrationInv
  BY MigrationInvInit
<1>2. MigrationInv /\ [Next]_vars => MigrationInv'
  BY MigrationInvNext
<1>3. MigrationInv => DuplicatesHaveAReason
  BY DuplicatesGuarded
<1> QED
  BY <1>1, <1>2, <1>3, PTL DEF Spec

-----------------------------------------------------------------------------
\* A release. What started a process stays as it was.

ReleaseFits == MigrationInv /\ (kind # "none" => Migrated)

LEMMA ReleaseFitsNext == ReleaseFits /\ [Migrate \/ Serve]_<<vars, process>> => ReleaseFits'
<1> SUFFICES ASSUME ReleaseFits, [Migrate \/ Serve]_<<vars, process>> PROVE ReleaseFits'
  OBVIOUS
<1>1. CASE Migrate
  <2>1. kind = "none" /\ kind' = kind /\ Next
    BY <1>1 DEF Migrate, process
  <2> QED
    BY <2>1, MigrationInvNext DEF ReleaseFits
<1>2. CASE UNCHANGED vars /\ (kind # "none" \/ Migrated \/ UNCHANGED process)
  <2>1. MigrationInv'
    BY <1>2, MigrationInvNext DEF ReleaseFits
  <2>2. Migrated' = Migrated
    BY <1>2 DEF vars, Migrated
  <2>3. UNCHANGED process => kind' = kind
    BY DEF process
  <2> QED
    BY <1>2, <2>1, <2>2, <2>3 DEF ReleaseFits
<1>3. CASE Serve
  BY <1>2, <1>3 DEF Serve
<1>4. CASE UNCHANGED <<vars, process>>
  BY <1>2, <1>4
<1> QED
  BY <1>1, <1>3, <1>4

\* Whatever migrating, undoing, crashing and repairing by hand came before it, in the
\* orders Begin allows, the process a release starts finds every column its models name
\* and every constraint, valid, but for what an undo took that was cut off before its
\* record went, and for a unique index a failed concurrent build left INVALID: neither
\* stops a deploy (backend-ci.yml: it waits for the migrate step; src/src/migrations).
THEOREM NewCodeFits == ReleaseSpec => []ServesWhatFits
<1>1. ReleaseInit => ReleaseFits
  BY MigrationInvInit DEF ReleaseInit, ReleaseFits, Process!Init
<1>2. ReleaseFits /\ [Migrate \/ Serve]_<<vars, process>> => ReleaseFits'
  BY ReleaseFitsNext
<1>3. ReleaseFits => ServesWhatFits
  BY ModelsThere DEF ReleaseFits, ServesWhatFits
<1> QED
  BY <1>1, <1>2, <1>3, PTL DEF ReleaseSpec
=============================================================================
