------------------------------ MODULE JobProofs ------------------------------
(***************************************************************************)
(* Proofs about JobQueue, for any sets of jobs and any number of concurrent *)
(* deliveries, retries and faults: that its state keeps its types, that a  *)
(* job takes effect at most once, and that no job the broker took is lost. *)
(***************************************************************************)
EXTENDS JobQueue, FiniteSetTheorems, TLAPS

\* The kinds of jobs, and what runs them.
LEMMA Kinds ==
    /\ Email \subseteq Published /\ Dummies \subseteq Published /\ Published \subseteq Job
    /\ Published \ Dummies \subseteq Email /\ Invites \subseteq Email /\ Strays \subseteq Job
    /\ Verifications \subseteq Email /\ Email \subseteq Job
    /\ Job \ Strays \subseteq Published /\ Strays \cap Published = {}
    /\ Email \cap Dummies = {} /\ NoJob \notin Job
    /\ Handler \subseteq Runner /\ Email \subseteq Runner /\ Handler \cap Email = {}
    /\ Runner \ Handler = Email
BY JobsAssumption, HandlerAssumption DEF Email, Published, Job, Runner

LEMMA Retries ==
    0 \in Retry /\ Retry \subseteq Nat /\ \A n \in Retry : n < MaxRetries => n + 1 \in Retry
BY BoundAssumption DEF Retry

-----------------------------------------------------------------------------
(* Lemmas about the operators of the model.                                *)

\* The broker puts a whole number of copies back, at least one for every
\* delivery it lost and none for any other.
LEMMA RequeuedFacts ==
    ASSUME TypeOK, NEW lost \in SUBSET Handler
    PROVE  /\ Requeued(lost) \in [Job -> [Retry -> Nat]]
           /\ \A j \in Job, n \in Retry : ready[j][n] > 0 => Requeued(lost)[j][n] > 0
           /\ \A j \in Job, n \in Retry, h \in lost :
                 Unacked(h) /\ run[h].job = j /\ run[h].retry = n =>
                    Requeued(lost)[j][n] > 0
           /\ \A j \in Job, n \in Retry : Requeued(lost)[j][n] > 0 =>
                 ready[j][n] > 0 \/ \E h \in lost : Unacked(h) /\ run[h].job = j
<1> DEFINE Of(j, n) == {h \in lost : Unacked(h) /\ run[h].job = j /\ run[h].retry = n}
<1>1. ASSUME NEW j \in Job, NEW n \in Retry
      PROVE  /\ IsFiniteSet(Of(j, n))
             /\ Cardinality(Of(j, n)) \in Nat
             /\ \A h \in Of(j, n) : Cardinality(Of(j, n)) > 0
  <2>1. Of(j, n) \subseteq Handler
    OBVIOUS
  <2> HIDE DEF Of
  <2>2. IsFiniteSet(Of(j, n))
    BY <2>1, HandlerAssumption, FS_Subset
  <2>3. Cardinality(Of(j, n)) \in Nat
    BY <2>2, FS_CardinalityType
  <2>4. Cardinality(Of(j, n)) = 0 <=> Of(j, n) = {}
    BY <2>2, FS_EmptySet
  <2>5. ASSUME NEW h \in Of(j, n) PROVE Cardinality(Of(j, n)) > 0
    <3>1. Of(j, n) # {}
      BY <2>5
    <3> QED
      BY <3>1, <2>3, <2>4
  <2> QED
    BY <2>2, <2>3, <2>5
<1>2. \A j \in Job, n \in Retry :
         Requeued(lost)[j][n] = ready[j][n] + Cardinality(Of(j, n))
  BY DEF Requeued
<1>3. \A j \in Job, n \in Retry : ready[j][n] \in Nat
  BY DEF TypeOK
<1>4. Requeued(lost) = [j \in Job |-> [n \in Retry |-> ready[j][n] + Cardinality(Of(j, n))]]
  BY DEF Requeued
<1>5. Requeued(lost) \in [Job -> [Retry -> Nat]]
  <2> DEFINE Row(j) == [n \in Retry |-> ready[j][n] + Cardinality(Of(j, n))]
  <2>1. ASSUME NEW j \in Job
        PROVE  Row(j) \in [Retry -> Nat]
    <3> HIDE DEF Of
    <3>1. \A n \in Retry : ready[j][n] + Cardinality(Of(j, n)) \in Nat
      BY <1>1, <1>3
    <3> QED
      BY <3>1
  <2>2. Requeued(lost) = [j \in Job |-> Row(j)]
    BY <1>4
  <2> HIDE DEF Row
  <2> QED
    BY <2>1, <2>2
<1>6. ASSUME NEW j \in Job, NEW n \in Retry, NEW h \in lost,
             Unacked(h), run[h].job = j, run[h].retry = n
      PROVE  Requeued(lost)[j][n] > 0
  <2>1. h \in Of(j, n)
    BY <1>6
  <2> HIDE DEF Of
  <2>2. Cardinality(Of(j, n)) > 0
    BY <1>1, <2>1
  <2> QED
    BY <1>1, <1>2, <1>3, <2>2
<1>7. ASSUME NEW j \in Job, NEW n \in Retry, ready[j][n] > 0
      PROVE  Requeued(lost)[j][n] > 0
  <2> HIDE DEF Of
  <2> QED
    BY <1>1, <1>2, <1>3, <1>7
<1>8. ASSUME NEW j \in Job, NEW n \in Retry, Requeued(lost)[j][n] > 0,
             ~ (ready[j][n] > 0)
      PROVE  \E h \in lost : Unacked(h) /\ run[h].job = j
  <2>1. Of(j, n) # {}
    <3> HIDE DEF Of
    <3>1. Of(j, n) = {} => Cardinality(Of(j, n)) = 0
      BY FS_EmptySet
    <3> QED
      BY <1>2, <1>3, <1>8, <3>1
  <2> QED
    BY <2>1
<1> QED
  BY <1>5, <1>6, <1>7, <1>8

\* Queues stay functions of counts, and only the named count moves.
LEMMA EnqueueType ==
    ASSUME NEW q \in [Job -> [Retry -> Nat]], NEW j \in Job, NEW n \in Retry
    PROVE  Enqueue(q, j, n) \in [Job -> [Retry -> Nat]]
<1>1. Enqueue(q, j, n) = [q EXCEPT ![j] = [q[j] EXCEPT ![n] = q[j][n] + 1]]
  BY DEF Enqueue
<1>2. [q[j] EXCEPT ![n] = q[j][n] + 1] \in [Retry -> Nat]
  OBVIOUS
<1> QED
  BY <1>1, <1>2

LEMMA DequeueType ==
    ASSUME NEW q \in [Job -> [Retry -> Nat]], NEW j \in Job, NEW n \in Retry,
           q[j][n] > 0
    PROVE  Dequeue(q, j, n) \in [Job -> [Retry -> Nat]]
<1>1. Dequeue(q, j, n) = [q EXCEPT ![j] = [q[j] EXCEPT ![n] = q[j][n] - 1]]
  BY DEF Dequeue
<1>2. q[j] \in [Retry -> Nat] /\ q[j][n] - 1 \in Nat
  OBVIOUS
<1>3. [q[j] EXCEPT ![n] = q[j][n] - 1] \in [Retry -> Nat]
  BY <1>2
<1> QED
  BY <1>1, <1>3

-----------------------------------------------------------------------------
(* Type correctness.                                                       *)

\* What a runner's step says about its job.
WellFormed ==
    \A r \in Runner :
        /\ run[r].pc # "idle" => run[r].job \in Job
        /\ run[r].pc \in {"access", "invalidate"} => run[r].job \in Dummies
        /\ run[r].pc \in {"insert", "commit"} => run[r].job \in Published
        /\ run[r].pc \in {"load", "mint", "send"} => run[r].job \in Email
        /\ r \in Email /\ run[r].pc # "idle" => run[r].job = r

Typing == TypeOK /\ WellFormed

LEMMA AtType ==
    ASSUME NEW j \in Job \cup {NoJob}, NEW pc \in PC, NEW n \in Retry, NEW a \in BOOLEAN
    PROVE  /\ At(j, pc, n, a) \in RunState
           /\ At(j, pc, n, a).job = j /\ At(j, pc, n, a).pc = pc
           /\ At(j, pc, n, a).attached = a /\ At(j, pc, n, a).retry = n
BY DEF At, RunState

LEMMA IdleType == Idle \in RunState /\ Idle.pc = "idle"
BY Retries DEF Idle, At, RunState, PC

LEMMA TypingInit == Init => Typing
BY BoundAssumption, Kinds, IdleType DEF Init, Typing, TypeOK, WellFormed

\* A runner put in a new state of its own.
RunnerOK(r, rec) ==
    /\ rec \in RunState
    /\ rec.pc # "idle" => rec.job \in Job
    /\ rec.pc \in {"access", "invalidate"} => rec.job \in Dummies
    /\ rec.pc \in {"insert", "commit"} => rec.job \in Published
    /\ rec.pc \in {"load", "mint", "send"} => rec.job \in Email
    /\ r \in Email /\ rec.pc # "idle" => rec.job = r

\* Enough to look at the one runner that moves.
LEMMA RunTyping ==
    ASSUME Typing, NEW r \in Runner, NEW rec, RunnerOK(r, rec),
           run' = [run EXCEPT ![r] = rec]
    PROVE  run' \in [Runner -> RunState] /\ WellFormed'
BY DEF Typing, TypeOK, WellFormed, RunnerOK

\* What follows a rejected publish keeps the two variables it touches typed.
LEMMA RejectedTyping ==
    ASSUME Typing, NEW j \in Published, Rejected(j)
    PROVE  /\ req' \in [Published -> {"new", "saved", "publishing", "fallback",
                                     "done", "failed", "lost"}]
           /\ run' \in [Runner -> RunState]
           /\ WellFormed'
<1>1. CASE j \in Email
  <2> DEFINE rec == At(j, "insert", 0, FALSE)
  <2>0. rec \in RunState /\ rec.job = j /\ rec.pc = "insert"
    <3>1. j \in Job \cup {NoJob} /\ "insert" \in PC /\ 0 \in Retry /\ FALSE \in BOOLEAN
      BY Kinds, Retries DEF PC
    <3> QED
      BY <3>1, AtType
  <2>1. RunnerOK(j, rec)
    <3> HIDE DEF rec
    <3> QED
      BY <1>1, <2>0, Kinds DEF RunnerOK
  <2>2. j \in Runner /\ run' = [run EXCEPT ![j] = At(j, "insert", 0, FALSE)]
    BY <1>1, Kinds DEF Rejected
  <2>3. run' \in [Runner -> RunState] /\ WellFormed'
    BY <2>1, <2>2, RunTyping
  <2> QED
    BY <1>1, <2>3 DEF Rejected, Typing, TypeOK
<1>2. CASE j \notin Email
  BY <1>2 DEF Rejected, Typing, TypeOK, WellFormed
<1> QED
  BY <1>1, <1>2

\* What the model knows of the mail, typed.
MailTypes ==
    /\ minted \in [Email -> Nat] /\ emailed \in [Email -> Nat]
    /\ abandoned \in [Email -> SUBSET Nat] /\ mailed \in [Email -> SUBSET Nat]

LEMMA MailedTypes ==
    ASSUME TypeOK, NEW j \in Email, NEW t \in Nat, Mailed(j, t)
    PROVE  MailTypes'
BY DEF TypeOK, Mailed, MailTypes

\* However a send ends.
LEMMA SentTypes ==
    ASSUME TypeOK, NEW j \in Email, NEW t \in Nat, NEW outcome \in Outcome,
           Sent(j, t, outcome)
    PROVE  MailTypes'
<1>1. ASSUME Mailed(j, t) PROVE MailTypes'
  BY <1>1, MailedTypes
<1>2. CASE UNCHANGED <<minted, mailed, emailed>> /\ abandoned' = [abandoned EXCEPT ![j] = @ \cup {t}]
  BY <1>2 DEF TypeOK, MailTypes
<1>3. CASE UNCHANGED mail
  BY <1>3 DEF TypeOK, MailTypes, mail
<1> QED
  BY <1>1, <1>2, <1>3 DEF Sent

\* The sends a dead process leaves behind are of runners, and carry their numbers.
LEMMA LeaveSendsTypes ==
    ASSUME TypeOK, NEW lost \in SUBSET Runner, LeaveSends(lost)
    PROVE  MailTypes'
<1>1. \A r \in lost : run[r].tok \in Nat
  BY DEF TypeOK, RunState
<1>2. abandoned' \in [Email -> SUBSET Nat]
  BY <1>1 DEF LeaveSends, TypeOK
<1> QED
  BY <1>2 DEF LeaveSends, TypeOK, MailTypes

LEMMA TypingRequest ==
    ASSUME Typing, NEW j \in Published, Request(j)
    PROVE  Typing'
<1> USE Kinds DEF Typing, TypeOK, WellFormed, api, broker, data, mail
<1>1. CASE SaveInvite(j)
  BY <1>1 DEF SaveInvite
<1>2. CASE Publish(j)
  BY <1>2 DEF Publish
<1>3. ASSUME NEW outcome \in Outcome, DoInRequest(j, outcome)
      PROVE  Typing'
  <2>1. req' \in [Published -> {"new", "saved", "publishing", "fallback",
                                "done", "failed", "lost"}]
    BY <1>3 DEF DoInRequest
  <2>2. /\ row' \in [Email -> {"absent", "pending", "redeemed"}]
        /\ live' \in [Email -> Nat]
    <3>1. \/ /\ j \in Email
             /\ row' = [row EXCEPT ![j] = "pending"] /\ live' = [live EXCEPT ![j] = 1]
          \/ row' = row /\ live' = live
      BY <1>3, Zenon DEF DoInRequest
    <3>2. row' \in [Email -> {"absent", "pending", "redeemed"}]
      BY <3>1
    <3>3. live' \in [Email -> Nat]
      <4>1. live \in [Email -> Nat]
        OBVIOUS
      <4> HIDE DEF Typing, TypeOK, WellFormed
      <4> QED
        BY <3>1, <4>1
    <3> QED
      BY <3>2, <3>3
  <2>3. MailTypes'
    <3>1. \/ j \in Email /\ Sent(j, 1, outcome)
          \/ UNCHANGED mail
      BY <1>3, Zenon DEF DoInRequest
    <3> QED
      BY <3>1, SentTypes DEF MailTypes
  <2> QED
    BY <1>3, <2>1, <2>2, <2>3 DEF DoInRequest, MailTypes
<1>4. CASE Confirmed(j)
  BY <1>4 DEF Confirmed
<1>5. CASE PublishTimesOut(j)
  BY <1>5, RejectedTyping DEF PublishTimesOut
<1>6. CASE BrokerReturns(j)
  BY <1>6, RejectedTyping DEF BrokerReturns
<1> QED
  BY <1>1, <1>2, <1>3, <1>4, <1>5, <1>6 DEF Request, Answer

LEMMA TypingBroker ==
    ASSUME Typing,
           \/ \E j \in Published : Network(j)
           \/ \E j \in Strays : StrayArrives(j)
           \/ \E j \in Job, n \in Retry : Expire(j, n)
    PROVE  Typing'
<1> USE Kinds, Retries DEF Typing, WellFormed, api, broker, data, mail
<1>1. ASSUME NEW j \in Published, BrokerTakes(j)
      PROVE  Typing'
  BY <1>1, EnqueueType DEF BrokerTakes, TypeOK
<1>2. ASSUME NEW j \in Published, WireLoses(j) \/ Resend(j)
      PROVE  Typing'
  BY <1>2, BoundAssumption DEF WireLoses, Resend, TypeOK
<1>3. ASSUME NEW j \in Strays, StrayArrives(j)
      PROVE  Typing'
  BY <1>3, EnqueueType DEF StrayArrives, TypeOK
<1>4. ASSUME NEW j \in Job, NEW n \in Retry, Expire(j, n)
      PROVE  Typing'
  BY <1>4, EnqueueType, DequeueType DEF Expire, TypeOK
<1> QED
  BY <1>1, <1>2, <1>3, <1>4 DEF Network
\* A step of a runner that keeps its job.
LEMMA GotoTyping ==
    ASSUME Typing, NEW r \in Runner, NEW pc \in PC, Goto(r, pc),
           run[r].pc # "idle",
           pc \in {"access", "invalidate"} => run[r].job \in Dummies,
           pc \in {"insert", "commit"} => run[r].job \in Published,
           pc \in {"load", "mint", "send"} => run[r].job \in Email
    PROVE  run' \in [Runner -> RunState] /\ WellFormed'
<1> DEFINE rec == [run[r] EXCEPT !.pc = pc]
<1>1. run[r] \in RunState
  BY DEF Typing, TypeOK
<1>2. rec \in RunState /\ rec.pc = pc /\ rec.job = run[r].job
  BY <1>1 DEF RunState
<1>3. run[r].job \in Job /\ (r \in Email => run[r].job = r)
  BY DEF Typing, WellFormed
<1>4. run' = [run EXCEPT ![r] = rec]
  BY DEF Goto, Typing, TypeOK
<1> HIDE DEF rec
<1>5. RunnerOK(r, rec)
  BY <1>2, <1>3 DEF RunnerOK
<1> QED
  BY <1>4, <1>5, RunTyping

LEMMA TypingRunJob ==
    ASSUME Typing, NEW r \in Runner, RunJob(r)
    PROVE  Typing'
<1> USE DEF Typing
<1>0. WellFormed /\ run[r] \in RunState
  BY DEF TypeOK
<1>1. CASE Access(r)
  <2>1. PICK pc \in {"insert", "refused", "failed"} : Goto(r, pc)
    BY <1>1 DEF Access
  <2>2. run[r].pc = "access" /\ pc \in PC /\ run[r].job \in Published
    BY <1>0, <1>1, Kinds DEF Access, WellFormed, PC
  <2>3. run' \in [Runner -> RunState] /\ WellFormed'
    BY <2>1, <2>2, GotoTyping
  <2> QED
    BY <1>1, <2>3 DEF Access, TypeOK, api, broker, data, mail
<1>2. CASE Insert(r)
  <2> DEFINE pc == IF run[r].job \in processed THEN AfterRunOnce(run[r].job)
                   ELSE IF run[r].job \in Dummies THEN "commit" ELSE "load"
  <2>1. run[r].pc = "insert" /\ run[r].job \in Published /\ Goto(r, pc)
    BY <1>0, <1>2 DEF Insert, WellFormed
  <2>2. /\ pc \in PC
        /\ pc \in {"access", "invalidate"} => run[r].job \in Dummies
        /\ pc \notin {"insert", "mint", "send"}
        /\ pc = "load" => run[r].job \in Email
    BY <2>1, Kinds DEF PC, AfterRunOnce
  <2> HIDE DEF pc
  <2>3. run' \in [Runner -> RunState] /\ WellFormed'
    BY <2>1, <2>2, GotoTyping
  <2> QED
    BY <1>2, <2>3 DEF Insert, TypeOK, api, broker, data, mail
<1>3. CASE Load(r)
  <2> DEFINE pc == IF row[run[r].job] = "pending" THEN "mint" ELSE "commit"
  <2>1. run[r].pc = "load" /\ run[r].job \in Email /\ Goto(r, pc)
    BY <1>0, <1>3 DEF Load, WellFormed
  <2>2. pc \in {"mint", "commit"} /\ pc \in PC /\ run[r].job \in Published
    BY <2>1, Kinds DEF PC
  <2> HIDE DEF pc
  <2>3. run' \in [Runner -> RunState] /\ WellFormed'
    BY <2>1, <2>2, GotoTyping
  <2> QED
    BY <1>3, <2>3 DEF Load, TypeOK, api, broker, data, mail
<1>4. CASE Mint(r)
  <2> DEFINE rec == [run[r] EXCEPT !.pc = "send", !.tok = minted[run[r].job] + 1]
  <2>1. run[r].pc = "mint" /\ run[r].job \in Email /\ (r \in Email => run[r].job = r)
    BY <1>0, <1>4 DEF Mint, WellFormed
  <2>2. minted[run[r].job] + 1 \in Nat
    BY <2>1 DEF TypeOK
  <2>3. rec \in RunState /\ rec.pc = "send" /\ rec.job = run[r].job
    BY <1>0, <2>2 DEF RunState, PC
  <2>4. run' = [run EXCEPT ![r] = rec]
    BY <1>4 DEF Mint, TypeOK
  <2> HIDE DEF rec
  <2>5. RunnerOK(r, rec)
    BY <2>1, <2>3, Kinds DEF RunnerOK
  <2>6. run' \in [Runner -> RunState] /\ WellFormed'
    BY <2>4, <2>5, RunTyping
  <2> QED
    <3>1. minted' = [minted EXCEPT ![run[r].job] = minted[run[r].job] + 1]
      BY <1>4 DEF Mint
    <3>2. minted' \in [Email -> Nat]
      BY <2>1, <2>2, <3>1 DEF TypeOK
    <3> QED
      BY <1>4, <2>6, <3>2 DEF Mint, TypeOK, api, broker
<1>5. ASSUME NEW outcome \in Outcome, Send(r, outcome)
      PROVE  Typing'
  <2> DEFINE pc == IF outcome = "sent" THEN "commit" ELSE "failed"
  <2>1. run[r].pc = "send" /\ run[r].job \in Email /\ Goto(r, pc)
    BY <1>0, <1>5 DEF Send, WellFormed
  <2>2. pc \in {"commit", "failed"} /\ pc \in PC /\ run[r].job \in Published
    BY <2>1, Kinds DEF PC
  <2> HIDE DEF pc
  <2>3. run' \in [Runner -> RunState] /\ WellFormed'
    BY <2>1, <2>2, GotoTyping
  <2>4. run[r].tok \in Nat
    BY <1>0 DEF RunState
  <2>5. Sent(run[r].job, run[r].tok, outcome)
    BY <1>5 DEF Send
  <2>6. MailTypes'
    BY <2>1, <2>4, <2>5, SentTypes
  <2> QED
    BY <1>5, <2>3, <2>6 DEF Send, TypeOK, MailTypes, api, broker
<1>6. ASSUME NEW answered \in BOOLEAN, Commit(r, answered)
      PROVE  Typing'
  <2> DEFINE j == run[r].job
             pc == IF answered THEN AfterRunOnce(j) ELSE "failed"
  <2>1. run[r].pc = "commit" /\ j \in Published /\ Goto(r, pc)
    BY <1>0, <1>6 DEF Commit, WellFormed
  <2>2. /\ pc \in {"invalidate", "done", "failed"} /\ pc \in PC
        /\ pc = "invalidate" => j \in Dummies
    BY DEF PC, AfterRunOnce
  <2>3. run' \in [Runner -> RunState] /\ WellFormed'
    <3> HIDE DEF pc
    <3> QED
      BY <2>1, <2>2, GotoTyping
  <2>4. run[r].tok \in Nat
    BY <1>0 DEF RunState
  <2>5. \/ j \in Email /\ live' = [live EXCEPT ![j] = run[r].tok]
        \/ live' = live
    BY <1>6 DEF Commit
  <2>6. live' \in [Email -> Nat]
    BY <2>4, <2>5 DEF TypeOK
  <2>7. commits' \in [Job -> Nat]
    <3>1. commits' = [commits EXCEPT ![j] = commits[j] + 1] /\ j \in Job
      BY <1>6, <2>1, Kinds DEF Commit
    <3> QED
      BY <3>1 DEF TypeOK
  <2>8. processed' \subseteq Published /\ stale' \subseteq Dummies
    BY <1>6, <2>1 DEF Commit, TypeOK
  <2>9. faults' \in 0 .. MaxFaults
    BY <1>6, BoundAssumption DEF Commit, TypeOK
  <2> QED
    BY <1>6, <2>3, <2>6, <2>7, <2>8, <2>9 DEF Commit, TypeOK, api, broker, mail
<1>7. CASE Abort(r)
  <2>1. Goto(r, "failed") /\ "failed" \in PC /\ run[r].pc # "idle"
    BY <1>7 DEF Abort, PC
  <2>2. run' \in [Runner -> RunState] /\ WellFormed'
    BY <2>1, GotoTyping
  <2> QED
    BY <1>7, <2>2 DEF Abort, TypeOK, api, broker, data, mail
<1>8. ASSUME NEW result \in {"cleared", "missed", "failed"},
             Invalidate(r, result)
      PROVE  Typing'
  <2> DEFINE pc == IF result = "failed" THEN "failed" ELSE "done"
  <2>1. Goto(r, pc) /\ pc \in {"done", "failed"} /\ pc \in PC /\ run[r].pc # "idle"
    BY <1>8 DEF Invalidate, PC
  <2> HIDE DEF pc
  <2>2. run' \in [Runner -> RunState] /\ WellFormed'
    BY <2>1, GotoTyping
  <2> QED
    BY <1>0, <1>8, <2>2 DEF Invalidate, TypeOK, WellFormed, api, broker, mail
<1> QED
  BY <1>1, <1>2, <1>3, <1>4, <1>5, <1>6, <1>7, <1>8 DEF RunJob
\* A runner that stops.
LEMMA StopTyping ==
    ASSUME Typing, NEW r \in Runner, run' = [run EXCEPT ![r] = Idle]
    PROVE  run' \in [Runner -> RunState] /\ WellFormed'
<1>1. RunnerOK(r, Idle)
  BY IdleType DEF RunnerOK
<1> QED
  BY <1>1, RunTyping

LEMMA TypingFallback ==
    ASSUME Typing, NEW j \in Email, Fallback(j) \/ Redeem(j) \/ DeliverLate(j)
    PROVE  Typing'
<1> USE Kinds DEF Typing
<1>0. j \in Runner /\ j \in Published
  OBVIOUS
<1>1. CASE FallbackDone(j)
  <2>1. run' \in [Runner -> RunState] /\ WellFormed'
    BY <1>0, <1>1, StopTyping DEF FallbackDone
  <2> QED
    BY <1>0, <1>1, <2>1 DEF FallbackDone, TypeOK, broker, data, mail
<1>2. CASE FallbackFails(j)
  <2>1. run' \in [Runner -> RunState] /\ WellFormed'
    <3>1. CASE j \in Invites
      <4>1. Goto(j, "deleting") /\ "deleting" \in PC /\ run[j].pc # "idle"
        BY <1>2, <3>1 DEF FallbackFails, PC
      <4> QED
        BY <1>0, <4>1, GotoTyping
    <3>2. CASE j \notin Invites
      BY <1>0, <1>2, <3>2, StopTyping DEF FallbackFails
    <3> QED
      BY <3>1, <3>2
  <2>2. req' = req \/ req' = [req EXCEPT ![j] = "done"]
    BY <1>2 DEF FallbackFails
  <2> QED
    BY <1>0, <1>2, <2>1, <2>2 DEF FallbackFails, TypeOK, broker, data, mail
<1>3. ASSUME NEW ok \in BOOLEAN, DeleteInvite(j, ok)
      PROVE  Typing'
  <2>1. run' \in [Runner -> RunState] /\ WellFormed'
    BY <1>0, <1>3, StopTyping DEF DeleteInvite
  <2>2. row' = [row EXCEPT ![j] = "absent"] \/ row' = [row EXCEPT ![j] = row[j]]
    BY <1>3 DEF DeleteInvite
  <2>3. row' \in [Email -> {"absent", "pending", "redeemed"}]
    BY <2>2 DEF TypeOK
  <2> QED
    BY <1>0, <1>3, <2>1, <2>3 DEF DeleteInvite, TypeOK, broker, mail
<1>4. CASE Redeem(j)
  BY <1>4 DEF Redeem, TypeOK, WellFormed, api, broker, mail
<1>5. CASE DeliverLate(j)
  <2>1. PICK t \in abandoned[j] \ mailed[j] : Mailed(j, t)
    BY <1>5 DEF DeliverLate
  <2>2. MailTypes'
    BY <2>1, MailedTypes DEF TypeOK
  <2> QED
    BY <1>5, <2>2 DEF DeliverLate, MailTypes, TypeOK, WellFormed, api, broker
<1> QED
  BY <1>1, <1>2, <1>3, <1>4, <1>5 DEF Fallback

\* A copy may be published before the handler learns that it was.
LEMMA RetryTyping ==
    ASSUME Typing, NEW h \in Handler, MayRetry(h)
    PROVE  Enqueue(delayed, run[h].job, run[h].retry + 1) \in [Job -> [Retry -> Nat]]
<1>1. run[h].job \in Job /\ run[h].retry + 1 \in Retry
  BY Kinds, Retries DEF MayRetry, Typing, TypeOK, WellFormed, RunState
<1> QED
  BY <1>1, EnqueueType DEF Typing, TypeOK

LEMMA TypingSettle ==
    ASSUME Typing, NEW h \in Handler, Settle(h)
    PROVE  Typing'
<1> USE Kinds DEF Typing
<1>0. h \in Runner
  OBVIOUS
<1>1. CASE Ack(h)
  <2>1. run' \in [Runner -> RunState] /\ WellFormed'
    BY <1>0, <1>1, StopTyping DEF Ack
  <2> QED
    BY <1>1, <2>1 DEF Ack, TypeOK, api, broker, data, mail
<1>2. CASE Park(h)
  <2>1. run' \in [Runner -> RunState] /\ WellFormed'
    BY <1>0, <1>2, StopTyping DEF Park
  <2>2. run[h].job \in Job
    BY <1>0, <1>2 DEF Park, MustPark, WellFormed
  <2>3. parked' \subseteq Job
    BY <1>2, <2>2 DEF Park, TypeOK
  <2> QED
    BY <1>2, <2>1, <2>3 DEF Park, TypeOK, api, data, mail
<1>3. CASE Republish(h)
  <2>1. Goto(h, "republished") /\ "republished" \in PC /\ run[h].pc # "idle"
    BY <1>3 DEF Republish, MayRetry, PC
  <2>2. run' \in [Runner -> RunState] /\ WellFormed'
    BY <1>0, <2>1, GotoTyping
  <2>3. delayed' \in [Job -> [Retry -> Nat]]
    BY <1>3, RetryTyping DEF Republish
  <2> QED
    BY <1>3, <2>2, <2>3 DEF Republish, TypeOK, api, data, mail
<1>4. ASSUME NEW arrived \in BOOLEAN, RepublishFails(h, arrived)
      PROVE  Typing'
  <2>1. run' \in [Runner -> RunState] /\ WellFormed'
    BY <1>0, <1>4, StopTyping DEF RepublishFails
  <2>2. run[h].job \in Job
    BY <1>0, <1>4 DEF RepublishFails, MayRetry, WellFormed
  <2>3. parked' \subseteq Job
    BY <1>4, <2>2 DEF RepublishFails, TypeOK
  <2>4. delayed' = delayed \/ delayed' = Enqueue(delayed, run[h].job, run[h].retry + 1)
    BY <1>4 DEF RepublishFails
  <2>5. delayed' \in [Job -> [Retry -> Nat]]
    BY <1>4, <2>4, RetryTyping DEF RepublishFails, TypeOK
  <2> QED
    BY <1>4, <2>1, <2>3, <2>5 DEF RepublishFails, TypeOK, api, data, mail
<1>5. CASE CannotSettle(h)
  <2>1. run' \in [Runner -> RunState] /\ WellFormed'
    BY <1>0, <1>5, StopTyping DEF CannotSettle
  <2> QED
    BY <1>5, <2>1 DEF CannotSettle, TypeOK, api, broker, data, mail
<1> QED
  BY <1>1, <1>2, <1>3, <1>4, <1>5 DEF Settle

\* Where a delivery starts.
LEMMA FirstStepType ==
    ASSUME NEW j \in Job
    PROVE  /\ FirstStep(j) \in {"refused", "access", "insert"} /\ FirstStep(j) \in PC
           /\ FirstStep(j) = "access" => j \in Dummies
           /\ FirstStep(j) = "insert" => j \in Email
           /\ FirstStep(j) = "refused" => j \in Strays
BY Kinds DEF FirstStep, PC

LEMMA TypingDeliver ==
    ASSUME Typing, NEW h \in Handler, NEW j \in Job, NEW n \in Retry, Deliver(h, j, n)
    PROVE  Typing'
<1> DEFINE rec == At(j, FirstStep(j), n, TRUE)
<1>1. rec \in RunState /\ rec.job = j /\ rec.pc = FirstStep(j)
  <2>1. j \in Job \cup {NoJob} /\ FirstStep(j) \in PC /\ TRUE \in BOOLEAN
    BY FirstStepType
  <2> QED
    BY <2>1, AtType
<1>2. RunnerOK(h, rec)
  <2> HIDE DEF rec
  <2>1. h \notin Email
    BY Kinds
  <2> QED
    BY <1>1, <2>1, FirstStepType, Kinds DEF RunnerOK
<1>3. h \in Runner /\ run' = [run EXCEPT ![h] = rec]
  BY Kinds DEF Deliver
<1>4. run' \in [Runner -> RunState] /\ WellFormed'
  <2> HIDE DEF rec
  <2> QED
    BY <1>2, <1>3, RunTyping
<1>5. ready' \in [Job -> [Retry -> Nat]]
  BY DequeueType DEF Deliver, Typing, TypeOK
<1> QED
  BY <1>4, <1>5 DEF Deliver, Typing, TypeOK, api, data, mail

LEMMA TypingFaults ==
    ASSUME Typing,
           \/ \E queue \in WorkQueues : ChannelCloses(queue)
           \/ WorkerDies \/ ApiDies \/ PublisherFails \/ PublisherConnects
    PROVE  Typing'
<1> USE Kinds, BoundAssumption DEF Typing
<1>1. ASSUME NEW queue \in WorkQueues, ChannelCloses(queue)
      PROVE  Typing'
  <2> DEFINE cut == {h \in Handler : run[h].job \in queue /\ Unacked(h)}
  <2>1. Requeued(cut) \in [Job -> [Retry -> Nat]]
    BY RequeuedFacts
  <2>2. ready' = Requeued(cut)
    BY <1>1 DEF ChannelCloses
  <2>3. \A r \in Runner : /\ run'[r] \in RunState
                          /\ run'[r].pc = run[r].pc /\ run'[r].job = run[r].job
    <3>1. run' = [r \in Runner |-> IF r \in cut THEN [run[r] EXCEPT !.attached = FALSE]
                                                ELSE run[r]]
      BY <1>1 DEF ChannelCloses
    <3> HIDE DEF cut
    <3>2. ASSUME NEW r \in Runner
          PROVE  /\ run'[r] \in RunState
                 /\ run'[r].pc = run[r].pc /\ run'[r].job = run[r].job
      <4>1. run[r] \in RunState
        BY DEF TypeOK
      <4>2. CASE r \in cut
        BY <3>1, <4>1, <4>2 DEF RunState
      <4>3. CASE r \notin cut
        BY <3>1, <4>1, <4>3
      <4> QED
        BY <4>2, <4>3
    <3> QED
      BY <3>2
  <2>4. run' \in [Runner -> RunState]
    <3>1. run' = [r \in Runner |-> run'[r]]
      BY <1>1 DEF ChannelCloses
    <3> QED
      BY <2>3, <3>1
  <2>5. WellFormed'
    BY <2>3 DEF WellFormed
  <2>6. faults' \in 0 .. MaxFaults
    BY <1>1 DEF ChannelCloses, TypeOK
  <2>7. UNCHANGED <<api, delayed, parked, accepted, data>>
    BY <1>1 DEF ChannelCloses
  <2> HIDE DEF cut
  <2> QED
    BY <2>1, <2>2, <2>4, <2>5, <2>6, <2>7 DEF TypeOK, api, data, mail
<1>2. CASE WorkerDies
  <2>1. ready' \in [Job -> [Retry -> Nat]]
    BY <1>2, RequeuedFacts DEF WorkerDies
  <2>2. run' \in [Runner -> RunState] /\ WellFormed'
    BY <1>2, IdleType DEF WorkerDies, TypeOK, WellFormed
  <2>3. MailTypes'
    BY <1>2, LeaveSendsTypes DEF WorkerDies
  <2> QED
    BY <1>2, <2>1, <2>2, <2>3 DEF WorkerDies, LeaveSends, MailTypes, TypeOK, api
<1>3. CASE ApiDies
  <2>1. run' \in [Runner -> RunState] /\ WellFormed'
    BY <1>3, IdleType DEF ApiDies, TypeOK, WellFormed
  <2>2. req' \in [Published -> {"new", "saved", "publishing", "fallback",
                                "done", "failed", "lost"}]
    BY <1>3 DEF ApiDies, TypeOK
  <2>3. MailTypes'
    BY <1>3, LeaveSendsTypes DEF ApiDies
  <2> QED
    BY <1>3, <2>1, <2>2, <2>3 DEF ApiDies, LeaveSends, MailTypes, TypeOK, broker
<1>4. CASE PublisherFails
  <2>1. faults' \in 0 .. MaxFaults
    BY <1>4 DEF PublisherFails, TypeOK
  <2>2. publisherUp' \in BOOLEAN
    BY <1>4 DEF PublisherFails
  <2>3. UNCHANGED <<req, wire, broker, run, data>>
    BY <1>4 DEF PublisherFails
  <2> QED
    BY <2>1, <2>2, <2>3 DEF TypeOK, WellFormed, broker, data, mail
<1>5. CASE PublisherConnects
  BY <1>5 DEF PublisherConnects, TypeOK, WellFormed, broker, data, mail
<1> QED
  BY <1>1, <1>2, <1>3, <1>4, <1>5

LEMMA TypingNext == Typing /\ [Next]_vars => Typing'
<1> SUFFICES ASSUME Typing, [Next]_vars
             PROVE  Typing'
  OBVIOUS
<1>1. CASE UNCHANGED vars
  BY <1>1 DEF vars, api, broker, data, mail, Typing, TypeOK, WellFormed
<1> QED
  BY <1>1, TypingRequest, TypingBroker, TypingRunJob, TypingFallback, TypingSettle,
     TypingDeliver, TypingFaults DEF Next

\* Every reachable state is well typed, and a runner at a step of a kind of job
\* has a job of that kind.
THEOREM TypeCorrect == Spec => []TypeOK
<1>1. Spec => []Typing
  BY TypingInit, TypingNext, PTL DEF Spec
<1>2. Typing => TypeOK
  BY DEF Typing
<1> QED
  BY <1>1, <1>2, PTL

-----------------------------------------------------------------------------
(* At most one effect.  The dedup row gives each job one open transaction, *)
(* and none once it is recorded.                                           *)

Exclusive == \A r, s \in Runner :
    InTx(r) /\ InTx(s) /\ run[r].job = run[s].job => r = s

Unrecorded == \A r \in Runner : InTx(r) => run[r].job \notin processed

Counted == \A j \in Job : commits[j] = IF j \in processed THEN 1 ELSE 0

Effect == Exclusive /\ Unrecorded /\ Counted

\* A step that opens no transaction, moves none to another job and commits
\* none.
OpensNothing ==
    \A r \in Runner : InTx(r)' => InTx(r) /\ run'[r].job = run[r].job

Quiet == OpensNothing /\ UNCHANGED <<processed, commits>>

LEMMA QuietKeepsEffect == Effect /\ Quiet => Effect'
<1> SUFFICES ASSUME Effect, Quiet
             PROVE  Effect'
  OBVIOUS
<1>1. Exclusive'
  BY DEF Effect, Exclusive, Quiet, OpensNothing
<1>2. Unrecorded'
  BY DEF Effect, Unrecorded, Quiet, OpensNothing
<1>3. Counted'
  BY DEF Effect, Counted, Quiet
<1> QED
  BY <1>1, <1>2, <1>3 DEF Effect

\* A runner outside a transaction after the step, or on in its own.
LEMMA OneRunnerMoves ==
    ASSUME Typing, NEW r \in Runner, NEW rec, run' = [run EXCEPT ![r] = rec],
           \/ rec.pc \notin {"load", "mint", "send", "commit"}
           \/ InTx(r) /\ rec.job = run[r].job
    PROVE  OpensNothing
BY DEF OpensNothing, InTx, Typing, TypeOK

LEMMA GotoFacts ==
    ASSUME Typing, NEW r \in Runner, NEW pc, Goto(r, pc)
    PROVE  /\ \A s \in Runner : run'[s].job = run[s].job
           /\ \A s \in Runner \ {r} : run'[s] = run[s] /\ run'[s].pc = run[s].pc
           /\ run'[r].pc = pc /\ run'[r].attached = run[r].attached
BY DEF Goto, Typing, TypeOK, RunState

LEMMA GotoOpensNothing ==
    ASSUME Typing, NEW r \in Runner, NEW pc, Goto(r, pc),
           pc \notin {"load", "mint", "send", "commit"} \/ InTx(r)
    PROVE  OpensNothing
<1> DEFINE rec == [run[r] EXCEPT !.pc = pc]
<1>1. rec.pc = pc /\ rec.job = run[r].job
  BY DEF Typing, TypeOK, RunState
<1>2. run' = [run EXCEPT ![r] = rec]
  BY DEF Goto, Typing, TypeOK
<1> HIDE DEF rec
<1> QED
  BY <1>1, <1>2, OneRunnerMoves

LEMMA StopOpensNothing ==
    ASSUME Typing, NEW r \in Runner, run' = [run EXCEPT ![r] = Idle]
    PROVE  OpensNothing
<1>1. Idle.pc \notin {"load", "mint", "send", "commit"}
  BY IdleType
<1> QED
  BY <1>1, OneRunnerMoves

LEMMA SameOpensNothing == run' = run => OpensNothing
BY DEF OpensNothing, InTx

LEMMA RequestIsQuiet ==
    ASSUME Typing, NEW j \in Published, Request(j)
    PROVE  Quiet
<1> USE SameOpensNothing DEF Quiet, data, mail
<1>1. CASE SaveInvite(j)
  BY <1>1 DEF SaveInvite
<1>2. CASE Publish(j)
  BY <1>2 DEF Publish
<1>3. ASSUME NEW outcome \in Outcome, DoInRequest(j, outcome)
      PROVE  Quiet
  <2>1. UNCHANGED <<run, processed, commits>>
    BY <1>3, Zenon DEF DoInRequest
  <2> QED
    BY <2>1
<1>4. CASE Confirmed(j)
  BY <1>4 DEF Confirmed
<1>5. ASSUME Rejected(j) PROVE OpensNothing
  <2>1. CASE j \in Email
    <3> DEFINE rec == At(j, "insert", 0, FALSE)
    <3>1. rec.pc = "insert" /\ j \in Runner /\ run' = [run EXCEPT ![j] = rec]
      BY <1>5, <2>1, Kinds DEF Rejected, At
    <3> HIDE DEF rec
    <3> QED
      BY <3>1, OneRunnerMoves
  <2> QED
    BY <1>5, <2>1 DEF Rejected
<1>6. CASE PublishTimesOut(j)
  BY <1>5, <1>6 DEF PublishTimesOut
<1>7. CASE BrokerReturns(j)
  BY <1>5, <1>7 DEF BrokerReturns
<1> QED
  BY <1>1, <1>2, <1>3, <1>4, <1>6, <1>7 DEF Request, Answer

LEMMA SettleIsQuiet ==
    ASSUME Typing, NEW h \in Handler, Settle(h)
    PROVE  Quiet
<1>1. h \in Runner
  BY Kinds
<1>2. CASE Ack(h)
  BY <1>1, <1>2, StopOpensNothing DEF Ack, Quiet, data, mail
<1>3. CASE Park(h)
  BY <1>1, <1>3, StopOpensNothing DEF Park, Quiet, data, mail
<1>4. CASE Republish(h)
  BY <1>1, <1>4, GotoOpensNothing DEF Republish, Quiet, data, mail
<1>5. CASE \E arrived \in BOOLEAN : RepublishFails(h, arrived)
  BY <1>1, <1>5, StopOpensNothing DEF RepublishFails, Quiet, data, mail
<1>6. CASE CannotSettle(h)
  BY <1>1, <1>6, StopOpensNothing DEF CannotSettle, Quiet, data, mail
<1> QED
  BY <1>2, <1>3, <1>4, <1>5, <1>6 DEF Settle

LEMMA FallbackIsQuiet ==
    ASSUME Typing, NEW j \in Email, Fallback(j) \/ Redeem(j) \/ DeliverLate(j)
    PROVE  Quiet
<1>1. j \in Runner
  BY Kinds
<1>2. CASE FallbackDone(j)
  BY <1>1, <1>2, StopOpensNothing DEF FallbackDone, Quiet, data, mail
<1>3. CASE FallbackFails(j)
  <2>1. Goto(j, "deleting") \/ run' = [run EXCEPT ![j] = Idle]
    BY <1>3 DEF FallbackFails
  <2>2. OpensNothing
    BY <1>1, <2>1, GotoOpensNothing, StopOpensNothing
  <2> QED
    BY <1>3, <2>2 DEF FallbackFails, Quiet, data, mail
<1>4. CASE \E ok \in BOOLEAN : DeleteInvite(j, ok)
  BY <1>1, <1>4, StopOpensNothing DEF DeleteInvite, Quiet, data, mail
<1>5. CASE Redeem(j) \/ DeliverLate(j)
  BY <1>5, SameOpensNothing DEF Redeem, DeliverLate, Quiet
<1> QED
  BY <1>2, <1>3, <1>4, <1>5 DEF Fallback
LEMMA DeliverIsQuiet ==
    ASSUME Typing, NEW h \in Handler, NEW j \in Job, NEW n \in Retry, Deliver(h, j, n)
    PROVE  Quiet
<1> DEFINE rec == At(j, FirstStep(j), n, TRUE)
<1>1. rec.pc \in {"refused", "access", "insert"}
  BY FirstStepType DEF At
<1>2. h \in Runner /\ run' = [run EXCEPT ![h] = rec]
  BY Kinds DEF Deliver
<1> HIDE DEF rec
<1>3. OpensNothing
  BY <1>1, <1>2, OneRunnerMoves
<1> QED
  BY <1>3 DEF Deliver, Quiet, data, mail

LEMMA BrokerIsQuiet ==
    ASSUME Typing,
           \/ \E j \in Published : Network(j)
           \/ \E j \in Strays : StrayArrives(j)
           \/ \E j \in Job, n \in Retry : Expire(j, n)
    PROVE  Quiet
BY SameOpensNothing
   DEF Network, BrokerTakes, WireLoses, Resend, StrayArrives, Expire, Quiet, data, mail

LEMMA FaultIsQuiet ==
    ASSUME Typing,
           \/ \E queue \in WorkQueues : ChannelCloses(queue)
           \/ WorkerDies \/ ApiDies \/ PublisherFails \/ PublisherConnects
    PROVE  Quiet
<1>1. ASSUME NEW queue \in WorkQueues, ChannelCloses(queue)
      PROVE  OpensNothing
  <2>1. \A r \in Runner : run'[r].pc = run[r].pc /\ run'[r].job = run[r].job
    BY <1>1 DEF ChannelCloses, Typing, TypeOK, RunState
  <2> QED
    BY <2>1 DEF OpensNothing, InTx
<1>2. ASSUME WorkerDies \/ ApiDies PROVE OpensNothing
  <2>1. \A r \in Runner : run'[r] = run[r] \/ run'[r] = Idle
    BY <1>2 DEF WorkerDies, ApiDies
  <2> QED
    BY <2>1, IdleType DEF OpensNothing, InTx
<1>3. ASSUME PublisherFails \/ PublisherConnects PROVE OpensNothing
  BY <1>3, SameOpensNothing DEF PublisherFails, PublisherConnects
<1>4. UNCHANGED <<processed, commits>>
  BY DEF ChannelCloses, WorkerDies, ApiDies, LeaveSends, PublisherFails, PublisherConnects, data
<1> QED
  BY <1>1, <1>2, <1>3, <1>4 DEF Quiet

\* Only the insert and the commit are not quiet.
LEMMA RunJobIsQuiet ==
    ASSUME Typing, NEW r \in Runner, RunJob(r),
           ~Insert(r), ~ \E answered \in BOOLEAN : Commit(r, answered)
    PROVE  Quiet
<1>1. CASE Access(r)
  <2>1. \E pc \in {"insert", "refused", "failed"} : Goto(r, pc)
    BY <1>1 DEF Access
  <2> QED
    BY <1>1, <2>1, GotoOpensNothing DEF Access, Quiet, data, mail
<1>2. CASE Load(r)
  <2>1. InTx(r) /\ \E pc \in PC : Goto(r, pc)
    BY <1>2 DEF Load, InTx, PC
  <2> QED
    BY <1>2, <2>1, GotoOpensNothing DEF Load, Quiet, data, mail
<1>3. CASE Mint(r)
  <2> DEFINE rec == [run[r] EXCEPT !.pc = "send", !.tok = minted[run[r].job] + 1]
  <2>1. rec.job = run[r].job /\ InTx(r) /\ run' = [run EXCEPT ![r] = rec]
    BY <1>3 DEF Mint, InTx, Typing, TypeOK, RunState
  <2> HIDE DEF rec
  <2> QED
    BY <1>3, <2>1, OneRunnerMoves DEF Mint, Quiet, data, mail
<1>4. ASSUME NEW outcome \in Outcome, Send(r, outcome)
      PROVE  Quiet
  <2>1. InTx(r) /\ \E pc \in PC : Goto(r, pc)
    BY <1>4 DEF Send, InTx, PC
  <2> QED
    BY <1>4, <2>1, GotoOpensNothing DEF Send, Quiet
<1>5. CASE Abort(r)
  BY <1>5, GotoOpensNothing DEF Abort, Quiet, data, mail
<1>6. ASSUME NEW result \in {"cleared", "missed", "failed"},
             Invalidate(r, result)
      PROVE  Quiet
  <2>1. \E pc \in {"done", "failed"} : Goto(r, pc)
    BY <1>6 DEF Invalidate
  <2> QED
    BY <1>6, <2>1, GotoOpensNothing DEF Invalidate, Quiet
<1> QED
  BY <1>1, <1>2, <1>3, <1>4, <1>5, <1>6 DEF RunJob

\* The insert opens a transaction only where the job has none and no record.
LEMMA InsertKeepsEffect ==
    ASSUME Typing, Effect, NEW r \in Runner, Insert(r)
    PROVE  Effect'
<1> DEFINE pc == IF run[r].job \in processed THEN AfterRunOnce(run[r].job)
                 ELSE IF run[r].job \in Dummies THEN "commit" ELSE "load"
<1>1. /\ Goto(r, pc)
      /\ run[r].job \in processed => pc \in {"invalidate", "done"}
  BY DEF Insert, AfterRunOnce
<1> HIDE DEF pc
<1>2. /\ \A s \in Runner : run'[s].job = run[s].job
      /\ \A s \in Runner \ {r} : run'[s].pc = run[s].pc
      /\ run'[r].pc = pc
  BY <1>1, GotoFacts
<1>3. \A s \in Runner : run[s].job = run[r].job => ~InTx(s)
  BY DEF Insert
<1>4. Exclusive'
  BY <1>2, <1>3 DEF Effect, Exclusive, InTx
<1>5. UNCHANGED <<processed, commits>>
  BY DEF Insert, data, mail
<1>6. Unrecorded'
  <2>1. InTx(r)' => run[r].job \notin processed
    BY <1>1, <1>2 DEF InTx
  <2>2. \A s \in Runner \ {r} : InTx(s)' => InTx(s)
    BY <1>2 DEF InTx
  <2> QED
    BY <1>2, <1>5, <2>1, <2>2 DEF Effect, Unrecorded
<1> QED
  BY <1>4, <1>5, <1>6 DEF Effect, Counted

\* The commit records its job, and nobody else had a transaction for it.
LEMMA CommitKeepsEffect ==
    ASSUME Typing, Effect, NEW r \in Runner, NEW answered \in BOOLEAN,
           Commit(r, answered)
    PROVE  Effect'
<1> DEFINE j == run[r].job
<1>1. PICK pc \in {"invalidate", "done", "failed"} : Goto(r, pc)
  BY DEF Commit, AfterRunOnce
<1>2. /\ \A s \in Runner : run'[s].job = run[s].job
      /\ \A s \in Runner \ {r} : run'[s].pc = run[s].pc
      /\ run'[r].pc = pc
  BY <1>1, GotoFacts
<1>3. InTx(r) /\ j \notin processed /\ j \in Job
  BY Kinds DEF Commit, InTx, Effect, Unrecorded, Typing, WellFormed
<1>4. processed' = processed \cup {j} /\ commits' = [commits EXCEPT ![j] = commits[j] + 1]
  BY DEF Commit
<1>5. \A s \in Runner : InTx(s)' => InTx(s) /\ s # r
  BY <1>2 DEF InTx
<1>6. Exclusive'
  BY <1>2, <1>5 DEF Effect, Exclusive
<1>7. Unrecorded'
  BY <1>2, <1>3, <1>4, <1>5 DEF Effect, Exclusive, Unrecorded
<1>8. Counted'
  BY <1>3, <1>4 DEF Effect, Counted, Typing, TypeOK
<1> QED
  BY <1>6, <1>7, <1>8 DEF Effect

LEMMA EffectInit == Init => Effect
<1> SUFFICES ASSUME Init
             PROVE  Effect
  OBVIOUS
<1>1. \A r \in Runner : ~InTx(r)
  BY IdleType DEF Init, InTx
<1> QED
  BY <1>1 DEF Init, Effect, Exclusive, Unrecorded, Counted

LEMMA EffectNext == Typing /\ Effect /\ [Next]_vars => Effect'
<1> SUFFICES ASSUME Typing, Effect, [Next]_vars
             PROVE  Effect'
  OBVIOUS
<1>1. CASE UNCHANGED vars
  BY <1>1 DEF vars, data, mail, Effect, Exclusive, Unrecorded, Counted, InTx
<1>2. ASSUME NEW r \in Runner, RunJob(r)
      PROVE  Effect'
  BY <1>2, InsertKeepsEffect, CommitKeepsEffect, RunJobIsQuiet, QuietKeepsEffect
<1> QED
  BY <1>1, <1>2, QuietKeepsEffect, RequestIsQuiet, BrokerIsQuiet, FallbackIsQuiet,
     SettleIsQuiet, DeliverIsQuiet, FaultIsQuiet DEF Next

\* However often a message is delivered, resent, or run by its own request
\* while the worker runs it, its work is committed at most once.
THEOREM EffectsOnce == Spec => []OneEffect
<1>1. Init => Typing /\ Effect
  BY TypingInit, EffectInit
<1>2. (Typing /\ Effect) /\ [Next]_vars => (Typing /\ Effect)'
  BY TypingNext, EffectNext
<1>3. Typing /\ Effect => OneEffect
  BY Kinds DEF Effect, Counted, OneEffect
<1> QED
  BY <1>1, <1>2, <1>3, PTL DEF Spec
-----------------------------------------------------------------------------
(* No job is lost.  A job is owed from the moment the broker takes it until *)
(* it is recorded, and again while its rows are in no cache; an owed job    *)
(* has a copy in a queue, a parked copy, or a delivery still working on it. *)

InFlight(h) == run[h].attached /\ run[h].pc \notin {"idle", "done", "republished"}

Copies(j) == \E n \in Retry : ready[j][n] > 0 \/ delayed[j][n] > 0

Owed(j) == j \in accepted \ processed \/ j \in stale \ missed

Owned(j) == \/ j \in parked
            \/ Copies(j)
            \/ \E h \in Handler : InFlight(h) /\ run[h].job = j

Taken == /\ \A h \in Handler : run[h].pc # "idle" => run[h].job \in accepted
         /\ \A j \in Job : Copies(j) => j \in accepted

Recorded == \A r \in Runner :
    /\ run[r].pc \in {"done", "invalidate"} => run[r].job \in processed
    /\ run[r].pc = "done" => run[r].job \notin stale \ missed

OwedIsOwned == \A j \in Job : Owed(j) => Owned(j)

Carry == Taken /\ Recorded /\ OwedIsOwned

\* What each part needs of a step.
StartsNothing ==
    /\ accepted \subseteq accepted'
    /\ \A h \in Handler :
          run'[h].pc # "idle" => run[h].pc # "idle" /\ run'[h].job = run[h].job

MakesNoCopies == \A j \in Job : Copies(j)' => j \in accepted'

FinishesNothing ==
    /\ processed \subseteq processed' /\ stale' \ missed' \subseteq stale \ missed
    /\ \A r \in Runner :
          run'[r].pc \in {"done", "invalidate"} =>
             run'[r].pc = run[r].pc /\ run'[r].job = run[r].job

DropsNothing ==
    /\ \A j \in Job : Owed(j)' => Owed(j) \/ Owned(j)'
    /\ parked \subseteq parked'
    /\ \A j \in Job : Copies(j) => Owned(j)'
    /\ \A h \in Handler, j \in Job :
          InFlight(h) /\ run[h].job = j =>
             \/ InFlight(h)' /\ run'[h].job = j
             \/ Owned(j)'
             \/ ~Owed(j)'

LEMMA KeepsTaken == Taken /\ StartsNothing /\ MakesNoCopies => Taken'
BY DEF Taken, StartsNothing, MakesNoCopies

LEMMA KeepsRecorded == Recorded /\ FinishesNothing => Recorded'
BY DEF Recorded, FinishesNothing

LEMMA KeepsOwed == OwedIsOwned /\ DropsNothing => OwedIsOwned'
<1> SUFFICES ASSUME OwedIsOwned, DropsNothing, NEW j \in Job, Owed(j)'
             PROVE  Owned(j)'
  BY DEF OwedIsOwned
<1>1. CASE ~Owed(j)
  BY <1>1 DEF DropsNothing
<1>2. CASE Owed(j)
  <2>1. CASE j \in parked
    BY <2>1 DEF DropsNothing, Owned
  <2>2. CASE Copies(j)
    BY <2>2 DEF DropsNothing
  <2>3. ASSUME NEW h \in Handler, InFlight(h), run[h].job = j
        PROVE  Owned(j)'
    <3>1. CASE InFlight(h)' /\ run'[h].job = j
      BY <2>3, <3>1 DEF Owned
    <3> QED
      BY <2>3, <3>1 DEF DropsNothing
  <2> QED
    BY <1>2, <2>1, <2>2, <2>3 DEF OwedIsOwned, Owned
<1> QED
  BY <1>1, <1>2

LEMMA KeepsCarry ==
    Carry /\ StartsNothing /\ MakesNoCopies /\ FinishesNothing /\ DropsNothing => Carry'
BY KeepsTaken, KeepsRecorded, KeepsOwed DEF Carry

\* A step of requests, of the publisher or of a user.
LEMMA ElsewhereKeepsCarry ==
    ASSUME Carry, UNCHANGED <<ready, delayed, parked, accepted, run, processed, stale, missed>>
    PROVE  Carry'
BY DEF Carry, Taken, Recorded, OwedIsOwned, Owed, Owned, Copies, InFlight

\* A step of the in-process fallbacks only.
LEMMA FallbackKeepsCarry ==
    ASSUME Carry, UNCHANGED <<ready, delayed, parked, accepted, processed, stale, missed>>,
           \A h \in Handler : run'[h] = run[h],
           \A r \in Runner \ Handler :
              run'[r] = run[r] \/ run'[r].pc \notin {"done", "invalidate"}
    PROVE  Carry'
<1>1. \A j \in Job : Copies(j)' <=> Copies(j)
  BY DEF Copies
<1>2. \A h \in Handler : InFlight(h) => InFlight(h)' /\ run'[h].job = run[h].job
  BY DEF InFlight
<1>3. \A j \in Job : Owed(j)' <=> Owed(j)
  BY DEF Owed
<1>4. StartsNothing /\ MakesNoCopies
  BY <1>1 DEF StartsNothing, MakesNoCopies, Carry, Taken
<1>5. FinishesNothing
  BY DEF FinishesNothing
<1>6. DropsNothing
  BY <1>1, <1>2, <1>3 DEF DropsNothing, Owned
<1> QED
  BY <1>4, <1>5, <1>6, KeepsCarry
\* A runner goes on with its job, to a step that settles nothing yet.
Working == PC \ {"idle", "done", "republished"}

LEMMA RunKeepsCarry ==
    ASSUME Typing, Carry, NEW r \in Runner, NEW pc \in Working, Goto(r, pc),
           run[r].pc # "idle", pc # "invalidate",
           UNCHANGED <<ready, delayed, parked, accepted, processed, stale, missed>>
    PROVE  Carry'
<1>1. \A s \in Runner : run'[s].job = run[s].job
  BY GotoFacts
<1>2. \A s \in Runner \ {r} : run'[s] = run[s]
  BY GotoFacts
<1>3. run'[r].pc = pc /\ run'[r].attached = run[r].attached
  BY GotoFacts
<1>4. pc \notin {"idle", "done", "invalidate", "republished"}
  BY DEF Working
<1>5. \A h \in Handler : InFlight(h) => InFlight(h)' /\ run'[h].job = run[h].job
  BY <1>1, <1>2, <1>3, <1>4, Kinds DEF InFlight
<1>6. \A j \in Job : (Copies(j)' <=> Copies(j)) /\ (Owed(j)' <=> Owed(j))
  BY DEF Copies, Owed
<1>7. StartsNothing
  BY <1>1, <1>2, Kinds DEF StartsNothing
<1>8. MakesNoCopies
  BY <1>6 DEF MakesNoCopies, Carry, Taken
<1>9. FinishesNothing
  BY <1>1, <1>2, <1>3, <1>4 DEF FinishesNothing
<1>10. DropsNothing
  BY <1>5, <1>6 DEF DropsNothing, Owned
<1> QED
  BY <1>7, <1>8, <1>9, <1>10, KeepsCarry

\* What the insert finds recorded is settled once the caches are fresh.
LEMMA InsertKeepsCarry ==
    ASSUME Typing, Carry, NEW r \in Runner, Insert(r)
    PROVE  Carry'
<1> DEFINE j == run[r].job
           pc == IF j \in processed THEN AfterRunOnce(j)
                 ELSE IF j \in Dummies THEN "commit" ELSE "load"
<1>1. Goto(r, pc) /\ run[r].pc = "insert"
  BY DEF Insert
<1>2. /\ UNCHANGED <<ready, delayed, parked, accepted, processed, stale, missed>>
      /\ stale \subseteq Dummies
  BY DEF Insert, broker, data, mail, Typing, TypeOK
<1>3. /\ pc \in {"done", "invalidate"} => j \in processed
      /\ pc = "done" => j \notin stale \ missed
      /\ pc \in {"done", "invalidate", "commit", "load"}
  BY <1>2 DEF AfterRunOnce
<1> HIDE DEF pc
<1>4. /\ \A s \in Runner : run'[s].job = run[s].job
      /\ \A s \in Runner \ {r} : run'[s] = run[s]
      /\ run'[r].pc = pc /\ run'[r].attached = run[r].attached
  BY <1>1, GotoFacts
<1>5. \A k \in Job : (Copies(k)' <=> Copies(k)) /\ (Owed(k)' <=> Owed(k))
  BY <1>2 DEF Copies, Owed
<1>6. \A h \in Handler, k \in Job : InFlight(h) /\ run[h].job = k =>
         (InFlight(h)' /\ run'[h].job = k) \/ ~Owed(k)'
  <2> SUFFICES ASSUME NEW h \in Handler, NEW k \in Job, InFlight(h), run[h].job = k,
                      Owed(k)'
               PROVE  InFlight(h)' /\ run'[h].job = k
    OBVIOUS
  <2>1. CASE h # r
    BY <1>4, <2>1, Kinds DEF InFlight
  <2>2. CASE h = r
    <3>1. pc # "done"
      BY <1>2, <1>3, <2>2 DEF Owed
    <3> QED
      BY <1>3, <1>4, <2>2, <3>1 DEF InFlight
  <2> QED
    BY <2>1, <2>2
<1>7. Taken'
  <2>1. StartsNothing /\ MakesNoCopies
    BY <1>1, <1>2, <1>4, <1>5, Kinds DEF StartsNothing, MakesNoCopies, Carry, Taken
  <2> QED
    BY <2>1, KeepsTaken DEF Carry
<1>8. Recorded'
  BY <1>2, <1>3, <1>4 DEF Carry, Recorded
<1>9. DropsNothing
  BY <1>2, <1>5, <1>6 DEF DropsNothing, Owned
<1> QED
  BY <1>7, <1>8, <1>9, KeepsOwed DEF Carry
\* The commit makes the job recorded; dummy logs then owe an invalidation, and
\* the delivery that committed them goes on with it.
LEMMA CommitKeepsCarry ==
    ASSUME Typing, Effect, Carry, NEW r \in Runner, NEW answered \in BOOLEAN,
           Commit(r, answered)
    PROVE  Carry'
<1> DEFINE j == run[r].job
           pc == IF answered THEN AfterRunOnce(j) ELSE "failed"
<1>1. /\ Goto(r, pc) /\ run[r].pc = "commit" /\ j \notin processed
      /\ j \in Job /\ (r \in Email => j \in Email)
  BY Kinds DEF Commit, Effect, Unrecorded, InTx, Typing, WellFormed
<1>2. /\ UNCHANGED <<ready, delayed, parked, accepted, missed>>
      /\ processed' = processed \cup {j}
      /\ stale' = (IF j \in Dummies THEN stale \cup {j} ELSE stale)
      /\ stale \subseteq Dummies
  BY DEF Commit, broker, Typing, TypeOK
<1>3. /\ pc \in {"invalidate", "done", "failed"}
      /\ pc = "done" => j \notin Dummies
  BY DEF AfterRunOnce
<1> HIDE DEF pc
<1>4. /\ \A s \in Runner : run'[s].job = run[s].job
      /\ \A s \in Runner \ {r} : run'[s] = run[s]
      /\ run'[r].pc = pc /\ run'[r].attached = run[r].attached
  BY <1>1, GotoFacts
<1> HIDE DEF j
<1>5. \A k \in Job : Copies(k)' <=> Copies(k)
  BY <1>2 DEF Copies
<1>6. Taken'
  <2>1. StartsNothing
    BY <1>1, <1>2, <1>4, Kinds DEF StartsNothing
  <2>2. MakesNoCopies
    BY <1>2, <1>5 DEF MakesNoCopies, Carry, Taken
  <2> QED
    BY <2>1, <2>2, KeepsTaken DEF Carry
<1>7. Recorded'
  <2>1. ASSUME NEW s \in Runner, run'[s].pc \in {"done", "invalidate"}
        PROVE  run'[s].job \in processed'
    BY <1>2, <1>4, <2>1 DEF Carry, Recorded, j
  <2>2. ASSUME NEW s \in Runner, run'[s].pc = "done"
        PROVE  run'[s].job \notin stale' \ missed'
    <3>1. CASE s = r
      BY <1>2, <1>3, <1>4, <2>2, <3>1 DEF j
    <3>2. CASE s # r
      <4>1. run[s].job \in processed /\ run[s].job \notin stale \ missed /\ run[s].job # j
        BY <1>1, <1>4, <2>2, <3>2 DEF Carry, Recorded
      <4> QED
        BY <1>2, <1>4, <4>1
    <3> QED
      BY <3>1, <3>2
  <2> QED
    BY <2>1, <2>2 DEF Recorded
<1>8. OwedIsOwned'
  <2> SUFFICES ASSUME NEW k \in Job, Owed(k)'
               PROVE  Owned(k)'
    BY DEF OwedIsOwned
  <2>1. CASE k # j
    <3>1. Owed(k)
      BY <1>2, <2>1 DEF Owed
    <3>2. Owned(k)
      BY <3>1 DEF Carry, OwedIsOwned
    <3>3. \A h \in Handler : InFlight(h) /\ run[h].job = k => InFlight(h)' /\ run'[h].job = k
      BY <1>4, <2>1, Kinds DEF InFlight, j
    <3> QED
      BY <1>2, <1>5, <3>2, <3>3 DEF Owned
  <2>2. CASE k = j
    <3>1. j \in Dummies /\ r \in Handler /\ pc # "done"
      BY <1>1, <1>2, <1>3, <2>2, Kinds DEF Owed
    <3>2. CASE run[r].attached
      <4>1. InFlight(r)' /\ run'[r].job = j
        BY <1>3, <1>4, <3>1, <3>2 DEF InFlight, j
      <4> QED
        BY <2>2, <3>1, <4>1 DEF Owned
    <3>3. CASE ~run[r].attached
      <4>1. Owed(j)
        BY <1>1, <3>1 DEF Owed, Carry, Taken, j
      <4>2. Owned(j)
        BY <1>1, <4>1 DEF Carry, OwedIsOwned
      <4>3. \A h \in Handler : InFlight(h) /\ run[h].job = j => InFlight(h)' /\ run'[h].job = j
        BY <1>4, <3>3, Kinds DEF InFlight
      <4> QED
        BY <1>1, <1>2, <1>5, <2>2, <4>2, <4>3 DEF Owned
    <3> QED
      BY <3>2, <3>3
  <2> QED
    BY <2>1, <2>2
<1> QED
  BY <1>6, <1>7, <1>8 DEF Carry

LEMMA InvalidateKeepsCarry ==
    ASSUME Typing, Carry, NEW r \in Runner, NEW result \in {"cleared", "missed", "failed"},
             Invalidate(r, result)
    PROVE  Carry'
<1> DEFINE j == run[r].job
<1>1. CASE result = "failed"
  <2>1. Goto(r, "failed") /\ "failed" \in Working /\ run[r].pc # "idle"
    BY <1>1 DEF Invalidate, Working, PC
  <2>2. UNCHANGED <<ready, delayed, parked, accepted, processed, stale, missed>>
    BY <1>1 DEF Invalidate, broker
  <2> QED
    BY <2>1, <2>2, RunKeepsCarry
<1>2. CASE result \in {"cleared", "missed"}
  <2>1. /\ Goto(r, "done") /\ run[r].pc = "invalidate" /\ j \in processed
        /\ UNCHANGED <<ready, delayed, parked, accepted, processed>>
        /\ stale' \ missed' = (stale \ missed) \ {j}
    BY <1>2 DEF Invalidate, broker, Carry, Recorded
  <2>2. /\ \A s \in Runner : run'[s].job = run[s].job
        /\ \A s \in Runner \ {r} : run'[s] = run[s]
        /\ run'[r].pc = "done"
    BY <2>1, GotoFacts
  <2>3. \A k \in Job : /\ Copies(k)' <=> Copies(k)
                       /\ Owed(k)' => Owed(k) /\ k # j
    BY <2>1 DEF Copies, Owed
  <2>4. \A h \in Handler, k \in Job : InFlight(h) /\ run[h].job = k =>
           (InFlight(h)' /\ run'[h].job = k) \/ k = j
    BY <2>2, Kinds DEF InFlight
  <2>5. Taken'
    <3>1. StartsNothing /\ MakesNoCopies
      BY <2>1, <2>2, <2>3, Kinds DEF StartsNothing, MakesNoCopies, Carry, Taken
    <3> QED
      BY <3>1, KeepsTaken DEF Carry
  <2>6. Recorded'
    BY <2>1, <2>2 DEF Carry, Recorded
  <2>7. DropsNothing
    BY <2>1, <2>3, <2>4 DEF DropsNothing, Owned
  <2> QED
    BY <2>5, <2>6, <2>7, KeepsOwed DEF Carry
<1> QED
  BY <1>1, <1>2

LEMMA RunJobKeepsCarry ==
    ASSUME Typing, Effect, Carry, NEW r \in Runner, RunJob(r)
    PROVE  Carry'
<1>1. ASSUME UNCHANGED <<ready, delayed, parked, accepted, processed, stale, missed>>,
             run[r].pc # "idle",
             \E pc \in {"insert", "load", "mint", "send", "commit", "refused", "failed"} :
                Goto(r, pc)
      PROVE  Carry'
  <2>1. PICK pc \in {"insert", "load", "mint", "send", "commit", "refused", "failed"} :
           Goto(r, pc)
    BY <1>1
  <2>2. pc \in Working /\ pc # "invalidate"
    BY DEF Working, PC
  <2> QED
    BY <1>1, <2>1, <2>2, RunKeepsCarry
<1>2. CASE Access(r)
  BY <1>1, <1>2 DEF Access, broker, data, mail
<1>3. CASE Insert(r)
  BY <1>3, InsertKeepsCarry
<1>4. CASE Load(r)
  BY <1>1, <1>4 DEF Load, broker, data, mail
<1>5. CASE Mint(r)
  <2> DEFINE rec == [run[r] EXCEPT !.pc = "send", !.tok = minted[run[r].job] + 1]
  <2>1. /\ rec.job = run[r].job /\ rec.pc = "send" /\ rec.attached = run[r].attached
        /\ run' = [run EXCEPT ![r] = rec] /\ run[r].pc = "mint"
        /\ UNCHANGED <<ready, delayed, parked, accepted, processed, stale, missed>>
    BY <1>5 DEF Mint, broker, data, mail, Typing, TypeOK, RunState
  <2> HIDE DEF rec
  <2>2. \A s \in Runner : /\ run'[s].job = run[s].job
                          /\ run'[s] = run[s] \/ s = r
    BY <2>1 DEF Typing, TypeOK
  <2>3. run'[r].pc = "send" /\ run'[r].attached = run[r].attached
    BY <2>1 DEF Typing, TypeOK
  <2>4. \A h \in Handler : InFlight(h) => InFlight(h)' /\ run'[h].job = run[h].job
    BY <2>2, <2>3, Kinds DEF InFlight
  <2>5. \A j \in Job : (Copies(j)' <=> Copies(j)) /\ (Owed(j)' <=> Owed(j))
    BY <2>1 DEF Copies, Owed
  <2>6. StartsNothing /\ MakesNoCopies /\ FinishesNothing
    BY <2>1, <2>2, <2>3, <2>5, Kinds
       DEF StartsNothing, MakesNoCopies, FinishesNothing, Carry, Taken
  <2>7. DropsNothing
    BY <2>1, <2>4, <2>5 DEF DropsNothing, Owned
  <2> QED
    BY <2>6, <2>7, KeepsCarry
<1>6. CASE \E outcome \in Outcome : Send(r, outcome)
  BY <1>1, <1>6 DEF Send, broker
<1>7. CASE \E answered \in BOOLEAN : Commit(r, answered)
  BY <1>7, CommitKeepsCarry
<1>8. CASE Abort(r)
  BY <1>1, <1>8 DEF Abort, broker, data, mail
<1>9. CASE \E result \in {"cleared", "missed", "failed"} : Invalidate(r, result)
  BY <1>9, InvalidateKeepsCarry
<1> QED
  BY <1>2, <1>3, <1>4, <1>5, <1>6, <1>7, <1>8, <1>9 DEF RunJob
LEMMA RequestKeepsCarry ==
    ASSUME Typing, Carry, NEW j \in Published, Request(j)
    PROVE  Carry'
<1>1. UNCHANGED <<ready, delayed, parked, accepted, processed, stale, missed>>
  <2>1. ASSUME NEW outcome \in Outcome, DoInRequest(j, outcome)
        PROVE  UNCHANGED <<ready, delayed, parked, accepted, processed, stale, missed>>
    BY <2>1, Zenon DEF DoInRequest, broker
  <2> QED
    BY <2>1 DEF Request, Answer, SaveInvite, Publish, Confirmed, PublishTimesOut,
                BrokerReturns, broker, data, mail
<1>2. ASSUME Rejected(j) \/ run' = run PROVE Carry'
  <2>1. \A r \in Runner : run'[r] = run[r] \/ (r = j /\ j \in Email /\ run'[r].pc = "insert")
    <3>1. CASE run' = run
      BY <3>1
    <3>2. CASE j \in Email /\ run' = [run EXCEPT ![j] = At(j, "insert", 0, FALSE)]
      <4>1. At(j, "insert", 0, FALSE).pc = "insert"
        BY DEF At
      <4> QED
        BY <3>2, <4>1, Kinds DEF Typing, TypeOK
    <3> QED
      BY <1>2, <3>1, <3>2 DEF Rejected
  <2> QED
    BY <1>1, <2>1, FallbackKeepsCarry, Kinds
<1>3. Rejected(j) \/ run' = run
  <2>1. ASSUME NEW outcome \in Outcome, DoInRequest(j, outcome)
        PROVE  run' = run
    BY <2>1, Zenon DEF DoInRequest
  <2> QED
    BY <2>1 DEF Request, Answer, SaveInvite, Publish, Confirmed, PublishTimesOut,
                BrokerReturns
<1> QED
  BY <1>2, <1>3

LEMMA FallbackStepKeepsCarry ==
    ASSUME Typing, Carry, NEW j \in Email, Fallback(j) \/ Redeem(j) \/ DeliverLate(j)
    PROVE  Carry'
<1>1. UNCHANGED <<ready, delayed, parked, accepted, processed, stale, missed>>
  BY DEF Fallback, FallbackDone, FallbackFails, DeleteInvite, Redeem, DeliverLate, broker, data
<1>2. \/ run' = [run EXCEPT ![j] = Idle]
      \/ Goto(j, "deleting")
      \/ run' = run
  BY DEF Fallback, FallbackDone, FallbackFails, DeleteInvite, Redeem, DeliverLate
<1>3. \A r \in Runner : run'[r] = run[r] \/ (r = j /\ run'[r].pc \in {"idle", "deleting"})
  <2>1. j \in Runner /\ run \in [Runner -> RunState]
    BY Kinds DEF Typing, TypeOK
  <2>2. CASE run' = [run EXCEPT ![j] = Idle]
    BY <2>1, <2>2, IdleType
  <2>3. CASE Goto(j, "deleting")
    BY <2>1, <2>3, GotoFacts
  <2>4. CASE run' = run
    BY <2>4
  <2> QED
    BY <1>2, <2>2, <2>3, <2>4
<1> QED
  BY <1>1, <1>3, FallbackKeepsCarry, Kinds

\* A handler that has settled its delivery is free again.  What it drops is
\* settled, parked, queued again, or not its own any more.
LEMMA FreeKeepsCarry ==
    ASSUME Typing, Carry, NEW h \in Handler,
           run' = [run EXCEPT ![h] = Idle],
           UNCHANGED <<accepted, processed, stale, missed>>, parked \subseteq parked',
           \A j \in Job : Copies(j) => Copies(j)',
           \A j \in Job : Copies(j)' => j \in accepted,
           InFlight(h) => run[h].job \in parked'
    PROVE  Carry'
<1>1. /\ \A s \in Runner \ {h} : run'[s] = run[s]
      /\ run'[h].pc = "idle"
  BY IdleType, Kinds DEF Typing, TypeOK
<1>2. \A j \in Job : Owed(j)' <=> Owed(j)
  BY DEF Owed
<1>3. StartsNothing /\ MakesNoCopies
  BY <1>1, Kinds DEF StartsNothing, MakesNoCopies
<1>4. FinishesNothing
  BY <1>1 DEF FinishesNothing
<1>5. \A g \in Handler, j \in Job : InFlight(g) /\ run[g].job = j =>
         (InFlight(g)' /\ run'[g].job = j) \/ j \in parked'
  BY <1>1, Kinds DEF InFlight
<1>6. DropsNothing
  BY <1>2, <1>5 DEF DropsNothing, Owned
<1> QED
  BY <1>3, <1>4, <1>6, KeepsCarry

\* A retry's copy is of a job the broker took, and no other copy goes.
LEMMA RetryCopies ==
    ASSUME Typing, Carry, NEW h \in Handler, MayRetry(h),
           delayed' = Enqueue(delayed, run[h].job, run[h].retry + 1),
           UNCHANGED <<ready, accepted>>
    PROVE  /\ \A j \in Job : Copies(j) => Copies(j)'
           /\ \A j \in Job : Copies(j)' => j \in accepted
           /\ \E n \in Retry : delayed'[run[h].job][n] > 0
<1> DEFINE k == run[h].job
           m == run[h].retry + 1
<1>1. k \in Job /\ m \in Retry /\ k \in accepted
  BY Kinds, Retries DEF MayRetry, Typing, TypeOK, WellFormed, RunState, Carry, Taken
<1> HIDE DEF k, m
<1>2. \A j \in Job, n \in Retry :
         delayed'[j][n] = IF j = k /\ n = m THEN delayed[j][n] + 1 ELSE delayed[j][n]
  BY <1>1 DEF Enqueue, Typing, TypeOK, k, m
<1>3. \A j \in Job, n \in Retry : delayed[j][n] \in Nat
  BY DEF Typing, TypeOK
<1>4. \A j \in Job : Copies(j) => Copies(j)'
  BY <1>2, <1>3 DEF Copies
<1>5. \A j \in Job : Copies(j)' => j \in accepted
  BY <1>1, <1>2, <1>3 DEF Copies, Carry, Taken
<1>6. delayed'[k][m] > 0
  BY <1>1, <1>2, <1>3
<1>7. k = run[h].job
  BY DEF k
<1>8. \E n \in Retry : delayed'[run[h].job][n] > 0
  BY <1>1, <1>6, <1>7
<1> QED
  BY <1>4, <1>5, <1>8
LEMMA SettleKeepsCarry ==
    ASSUME Typing, Carry, NEW h \in Handler, Settle(h)
    PROVE  Carry'
<1>1. UNCHANGED <<ready, accepted, processed, stale, missed>>
  BY DEF Settle, Ack, Park, Republish, RepublishFails, CannotSettle, broker, data, mail
<1>2. \A j \in Job : Copies(j) => j \in accepted
  BY DEF Carry, Taken
<1>3. ASSUME UNCHANGED delayed
      PROVE  \A j \in Job : Copies(j)' <=> Copies(j)
  BY <1>1, <1>3 DEF Copies
<1>4. CASE Ack(h)
  <2>1. ~InFlight(h) /\ run' = [run EXCEPT ![h] = Idle] /\ UNCHANGED <<delayed, parked>>
    BY <1>4 DEF Ack, InFlight, broker
  <2> QED
    BY <1>1, <1>2, <1>3, <2>1, FreeKeepsCarry
<1>5. CASE Park(h)
  <2>1. /\ run' = [run EXCEPT ![h] = Idle] /\ UNCHANGED delayed
        /\ parked \subseteq parked' /\ (InFlight(h) => run[h].job \in parked')
    BY <1>5 DEF Park, InFlight
  <2> QED
    BY <1>1, <1>2, <1>3, <2>1, FreeKeepsCarry
<1>6. CASE CannotSettle(h)
  <2>1. ~InFlight(h) /\ run' = [run EXCEPT ![h] = Idle] /\ UNCHANGED <<delayed, parked>>
    BY <1>6 DEF CannotSettle, InFlight, broker
  <2> QED
    BY <1>1, <1>2, <1>3, <2>1, FreeKeepsCarry
<1>7. ASSUME NEW arrived \in BOOLEAN, RepublishFails(h, arrived)
      PROVE  Carry'
  <2>1. /\ run' = [run EXCEPT ![h] = Idle] /\ MayRetry(h)
        /\ parked \subseteq parked' /\ run[h].job \in parked'
    BY <1>7 DEF RepublishFails
  <2>2. CASE UNCHANGED delayed
    BY <1>1, <1>2, <1>3, <2>1, <2>2, FreeKeepsCarry
  <2>3. CASE delayed' = Enqueue(delayed, run[h].job, run[h].retry + 1)
    <3>1. /\ \A j \in Job : Copies(j) => Copies(j)'
          /\ \A j \in Job : Copies(j)' => j \in accepted
      BY <1>1, <2>1, <2>3, RetryCopies
    <3> QED
      BY <1>1, <2>1, <3>1, FreeKeepsCarry
  <2> QED
    BY <1>7, <2>2, <2>3 DEF RepublishFails
<1>8. CASE Republish(h)
  <2>1. /\ Goto(h, "republished") /\ MayRetry(h) /\ UNCHANGED parked
        /\ delayed' = Enqueue(delayed, run[h].job, run[h].retry + 1)
        /\ run[h].pc = "failed"
    BY <1>8 DEF Republish, MayRetry
  <2>2. /\ \A j \in Job : Copies(j) => Copies(j)'
        /\ \A j \in Job : Copies(j)' => j \in accepted
        /\ \E n \in Retry : delayed'[run[h].job][n] > 0
    BY <1>1, <2>1, RetryCopies
  <2>3. /\ \A s \in Runner : run'[s].job = run[s].job
        /\ \A s \in Runner \ {h} : run'[s] = run[s]
        /\ run'[h].pc = "republished"
    BY <2>1, GotoFacts, Kinds
  <2>4. \A j \in Job : Owed(j)' <=> Owed(j)
    BY <1>1 DEF Owed
  <2>5. StartsNothing /\ MakesNoCopies
    BY <1>1, <2>1, <2>2, <2>3, Kinds DEF StartsNothing, MakesNoCopies
  <2>6. FinishesNothing
    BY <1>1, <2>3 DEF FinishesNothing
  <2>7. \A g \in Handler, j \in Job : InFlight(g) /\ run[g].job = j =>
           (InFlight(g)' /\ run'[g].job = j) \/ Copies(j)'
    BY <2>2, <2>3, Kinds DEF InFlight, Copies
  <2>8. DropsNothing
    BY <2>1, <2>2, <2>4, <2>7 DEF DropsNothing, Owned
  <2> QED
    BY <2>5, <2>6, <2>8, KeepsCarry
<1> QED
  BY <1>4, <1>5, <1>6, <1>7, <1>8 DEF Settle

LEMMA DeliverKeepsCarry ==
    ASSUME Typing, Carry, NEW h \in Handler, NEW j \in Job, NEW n \in Retry,
           Deliver(h, j, n)
    PROVE  Carry'
<1> DEFINE rec == At(j, FirstStep(j), n, TRUE)
<1>1. /\ rec.job = j /\ rec.pc \in {"refused", "access", "insert"} /\ rec.attached
      /\ run' = [run EXCEPT ![h] = rec] /\ run[h].pc = "idle"
  BY FirstStepType DEF At, Deliver
<1> HIDE DEF rec
<1>2. \A s \in Runner : s # h => run'[s] = run[s]
  BY <1>1 DEF Typing, TypeOK
<1>3. run'[h] = rec
  BY <1>1, Kinds DEF Typing, TypeOK
<1>4. UNCHANGED <<delayed, parked, accepted, processed, stale, missed>> /\ ready[j][n] > 0
  BY DEF Deliver, data, mail
<1>5. j \in accepted
  BY <1>4 DEF Carry, Taken, Copies
<1>6. \A k \in Job, m \in Retry :
         ready'[k][m] = IF k = j /\ m = n THEN ready[k][m] - 1 ELSE ready[k][m]
  BY DEF Deliver, Dequeue, Typing, TypeOK
<1>7. \A k \in Job, m \in Retry : ready[k][m] \in Nat
  BY DEF Typing, TypeOK
<1>8. InFlight(h)' /\ run'[h].job = j
  BY <1>1, <1>3 DEF InFlight
<1>9. \A k \in Job : /\ Copies(k)' => Copies(k)
                     /\ Copies(k) => Copies(k)' \/ k = j
                     /\ Owed(k)' <=> Owed(k)
  BY <1>4, <1>6, <1>7 DEF Copies, Owed
<1>10. Taken'
  BY <1>2, <1>4, <1>5, <1>8, <1>9, Kinds DEF Carry, Taken
<1>11. FinishesNothing
  BY <1>1, <1>2, <1>3, <1>4 DEF FinishesNothing
<1>12. \A g \in Handler : InFlight(g) => InFlight(g)' /\ run'[g].job = run[g].job
  BY <1>1, <1>2, Kinds DEF InFlight
<1>13. Owned(j)'
  BY <1>8 DEF Owned
<1>14. DropsNothing
  BY <1>4, <1>9, <1>12, <1>13 DEF DropsNothing, Owned
<1> QED
  BY <1>10, <1>11, <1>14, KeepsRecorded, KeepsOwed DEF Carry
LEMMA BrokerKeepsCarry ==
    ASSUME Typing, Carry,
           \/ \E j \in Published : Network(j)
           \/ \E j \in Strays : StrayArrives(j)
           \/ \E j \in Job, n \in Retry : Expire(j, n)
    PROVE  Carry'
<1>0. \A j \in Job, n \in Retry : ready[j][n] \in Nat /\ delayed[j][n] \in Nat
  BY DEF Typing, TypeOK
<1>1. ASSUME NEW j \in Job, ready' = Enqueue(ready, j, 0), accepted' = accepted \cup {j},
             UNCHANGED <<delayed, parked, run, processed, stale, missed>>
      PROVE  Carry'
  <2>1. \A k \in Job, n \in Retry :
           ready'[k][n] = IF k = j /\ n = 0 THEN ready[k][n] + 1 ELSE ready[k][n]
    BY <1>1, Retries DEF Enqueue, Typing, TypeOK
  <2>2. Copies(j)'
    BY <1>0, <2>1, Retries DEF Copies
  <2>3. \A k \in Job : (Copies(k) => Copies(k)') /\ (Copies(k)' => Copies(k) \/ k = j)
    BY <1>0, <1>1, <2>1 DEF Copies
  <2>4. \A k \in Job : Owed(k)' => Owed(k) \/ k = j
    BY <1>1 DEF Owed
  <2>5. \A h \in Handler : InFlight(h) => InFlight(h)' /\ run'[h].job = run[h].job
    BY <1>1 DEF InFlight
  <2>6. StartsNothing /\ MakesNoCopies /\ FinishesNothing
    BY <1>1, <2>3 DEF StartsNothing, MakesNoCopies, FinishesNothing, Carry, Taken
  <2>7. DropsNothing
    BY <1>1, <2>2, <2>3, <2>4, <2>5 DEF DropsNothing, Owned
  <2> QED
    BY <2>6, <2>7, KeepsCarry
<1>2. ASSUME NEW j \in Published, BrokerTakes(j)
      PROVE  Carry'
  BY <1>1, <1>2, Kinds DEF BrokerTakes, data, mail
<1>3. ASSUME NEW j \in Published, WireLoses(j) \/ Resend(j)
      PROVE  Carry'
  BY <1>3, ElsewhereKeepsCarry DEF WireLoses, Resend, broker, data, mail
<1>4. ASSUME NEW j \in Strays, StrayArrives(j)
      PROVE  Carry'
  BY <1>1, <1>4, Kinds DEF StrayArrives, data, mail
<1>5. ASSUME NEW j \in Job, NEW n \in Retry, Expire(j, n)
      PROVE  Carry'
  <2>1. /\ UNCHANGED <<parked, accepted, run, processed, stale, missed>>
        /\ delayed[j][n] > 0
    BY <1>5 DEF Expire, data, mail
  <2>2. \A k \in Job, m \in Retry :
           /\ ready'[k][m] = IF k = j /\ m = n THEN ready[k][m] + 1 ELSE ready[k][m]
           /\ delayed'[k][m] = IF k = j /\ m = n THEN delayed[k][m] - 1 ELSE delayed[k][m]
    BY <1>5 DEF Expire, Enqueue, Dequeue, Typing, TypeOK
  <2>3. \A k \in Job : Copies(k)' <=> Copies(k)
    BY <1>0, <2>1, <2>2 DEF Copies
  <2>4. \A k \in Job : Owed(k)' <=> Owed(k)
    BY <2>1 DEF Owed
  <2>5. \A h \in Handler : InFlight(h) => InFlight(h)' /\ run'[h].job = run[h].job
    BY <2>1 DEF InFlight
  <2>6. StartsNothing /\ MakesNoCopies /\ FinishesNothing
    BY <2>1, <2>3 DEF StartsNothing, MakesNoCopies, FinishesNothing, Carry, Taken
  <2>7. DropsNothing
    BY <2>1, <2>3, <2>4, <2>5 DEF DropsNothing, Owned
  <2> QED
    BY <2>6, <2>7, KeepsCarry
<1> QED
  BY <1>2, <1>3, <1>4, <1>5 DEF Network

\* Deliveries cut from the broker come back to the queue, whether their
\* handlers live on or not.
LEMMA CutKeepsCarry ==
    ASSUME Typing, Carry, NEW cut \in SUBSET Handler, ready' = Requeued(cut),
           UNCHANGED <<delayed, parked, accepted, processed, stale, missed>>,
           \A r \in Runner \ cut : run'[r] = run[r],
           \A r \in cut : \/ run'[r] = Idle
                          \/ run'[r].pc = run[r].pc /\ run'[r].job = run[r].job
    PROVE  Carry'
<1>1. /\ \A j \in Job, n \in Retry : ready[j][n] > 0 => ready'[j][n] > 0
      /\ \A j \in Job, n \in Retry, h \in cut :
            Unacked(h) /\ run[h].job = j /\ run[h].retry = n => ready'[j][n] > 0
      /\ \A j \in Job, n \in Retry : ready'[j][n] > 0 =>
            ready[j][n] > 0 \/ \E h \in cut : Unacked(h) /\ run[h].job = j
  BY RequeuedFacts DEF Typing
<1>2. \A j \in Job : Copies(j) => Copies(j)'
  BY <1>1 DEF Copies
<1>3. \A j \in Job : Copies(j)' => j \in accepted
  BY <1>1 DEF Copies, Unacked, Carry, Taken
<1>4. ASSUME NEW h \in Handler, NEW j \in Job, InFlight(h), run[h].job = j
      PROVE  (InFlight(h)' /\ run'[h].job = j) \/ Copies(j)'
  <2>1. CASE h \in cut
    <3>1. Unacked(h) /\ run[h].retry \in Retry
      BY <1>4, Kinds DEF InFlight, Unacked, Typing, TypeOK, RunState
    <3>2. ready'[j][run[h].retry] > 0
      BY <1>1, <1>4, <2>1, <3>1
    <3> QED
      BY <3>1, <3>2 DEF Copies
  <2>2. CASE h \notin cut
    BY <1>4, <2>2, Kinds DEF InFlight
  <2> QED
    BY <2>1, <2>2
<1>5. \A r \in Runner : \/ run'[r].pc = "idle"
                        \/ run'[r].pc = run[r].pc /\ run'[r].job = run[r].job
  BY IdleType
<1>6. StartsNothing /\ FinishesNothing
  BY <1>5, Kinds DEF StartsNothing, FinishesNothing
<1>7. MakesNoCopies
  BY <1>3 DEF MakesNoCopies
<1>8. DropsNothing
  BY <1>2, <1>4 DEF DropsNothing, Owned, Owed
<1> QED
  BY <1>6, <1>7, <1>8, KeepsCarry

LEMMA FaultKeepsCarry ==
    ASSUME Typing, Carry,
           \/ \E queue \in WorkQueues : ChannelCloses(queue)
           \/ WorkerDies \/ ApiDies \/ PublisherFails \/ PublisherConnects
    PROVE  Carry'
<1>1. ASSUME NEW queue \in WorkQueues, ChannelCloses(queue)
      PROVE  Carry'
  <2> DEFINE cut == {h \in Handler : run[h].job \in queue /\ Unacked(h)}
  <2>1. cut \in SUBSET Handler
    OBVIOUS
  <2>2. /\ ready' = Requeued(cut)
        /\ UNCHANGED <<delayed, parked, accepted, processed, stale, missed>>
        /\ \A r \in Runner \ cut : run'[r] = run[r]
    BY <1>1 DEF ChannelCloses, data, mail
  <2>3. \A r \in cut : run'[r].pc = run[r].pc /\ run'[r].job = run[r].job
    BY <1>1, Kinds DEF ChannelCloses, Typing, TypeOK, RunState
  <2> HIDE DEF cut
  <2> QED
    BY <2>1, <2>2, <2>3, CutKeepsCarry
<1>2. CASE WorkerDies
  <2>1. /\ ready' = Requeued(Handler)
        /\ UNCHANGED <<delayed, parked, accepted, processed, stale, missed>>
        /\ \A r \in Runner \ Handler : run'[r] = run[r]
        /\ \A r \in Handler : run'[r] = Idle
    BY <1>2, Kinds DEF WorkerDies, LeaveSends
  <2> QED
    BY <2>1, CutKeepsCarry
<1>3. CASE ApiDies
  <2>1. /\ UNCHANGED <<ready, delayed, parked, accepted, processed, stale, missed>>
        /\ \A h \in Handler : run'[h] = run[h]
        /\ \A r \in Runner \ Handler : run'[r].pc = "idle"
    BY <1>3, IdleType, Kinds DEF ApiDies, LeaveSends, broker
  <2> QED
    BY <2>1, FallbackKeepsCarry
<1>4. CASE PublisherFails \/ PublisherConnects
  BY <1>4, ElsewhereKeepsCarry DEF PublisherFails, PublisherConnects, broker, data, mail
<1> QED
  BY <1>1, <1>2, <1>3, <1>4

LEMMA CarryInit == Init => Carry
<1> SUFFICES ASSUME Init
             PROVE  Carry
  OBVIOUS
<1>1. \A j \in Job : ~Copies(j) /\ ~Owed(j)
  BY DEF Init, Copies, Owed
<1>2. \A r \in Runner : run[r].pc = "idle"
  BY IdleType DEF Init
<1> QED
  BY <1>1, <1>2, Kinds DEF Carry, Taken, Recorded, OwedIsOwned

LEMMA CarryNext == Typing /\ Effect /\ Carry /\ [Next]_vars => Carry'
<1> SUFFICES ASSUME Typing, Effect, Carry, [Next]_vars
             PROVE  Carry'
  OBVIOUS
<1>1. CASE UNCHANGED vars
  BY <1>1, ElsewhereKeepsCarry DEF vars, broker, data, mail
<1> QED
  BY <1>1, RequestKeepsCarry, BrokerKeepsCarry, RunJobKeepsCarry, FallbackStepKeepsCarry,
     SettleKeepsCarry, DeliverKeepsCarry, FaultKeepsCarry DEF Next

\* The inductive invariant of the queue.
LEMMA Inductive == Spec => [](Typing /\ Effect /\ Carry)
<1>1. Init => Typing /\ Effect /\ Carry
  BY TypingInit, EffectInit, CarryInit
<1>2. (Typing /\ Effect /\ Carry) /\ [Next]_vars => (Typing /\ Effect /\ Carry)'
  BY TypingNext, EffectNext, CarryNext
<1> QED
  BY <1>1, <1>2, PTL DEF Spec

LEMMA OwnedIsCarried == ASSUME NEW j \in Job, Owned(j) PROVE j \in parked \/ Carried(j)
BY DEF Owned, Carried, Copies, InFlight, Unacked

\* Nothing the broker took is lost: it is recorded as done, parked for an
\* operator, or the broker still holds it, through every crash of the worker,
\* every lost channel and every failed retry.
THEOREM NothingIsLost == Spec => []NoJobLost
<1>1. Typing /\ Effect /\ Carry => NoJobLost
  BY OwnedIsCarried DEF NoJobLost, Typing, TypeOK, Carry, OwedIsOwned, Owed
<1> QED
  BY <1>1, Inductive, PTL

\* Nor is the invalidation of the caches that a committed dummy-logs job owes.
THEOREM InvalidationIsOwned == Spec => []StaleCachesHaveAnOwner
<1>1. Typing /\ Effect /\ Carry => StaleCachesHaveAnOwner
  BY OwnedIsCarried, Kinds DEF StaleCachesHaveAnOwner, Typing, TypeOK, Carry, OwedIsOwned, Owed
<1> QED
  BY <1>1, Inductive, PTL

-----------------------------------------------------------------------------
(* The link that works.  An attempt mails the number its transaction will  *)
(* commit; nobody else mails or commits for the job meanwhile, and the row *)
(* never becomes pending again once a job for it may run.                  *)

\* A request that has not published its job: nothing of it is anywhere.
Unpublished == \A j \in Published : req[j] \in {"new", "saved"} =>
    /\ j \notin wire /\ j \notin accepted /\ j \notin processed
    /\ j \in Email => run[j].pc = "idle"

\* Link t of job j is in the mailbox, and only one given up came after it.
Reached(j, t) == t \in mailed[j] /\ (emailed[j] = t \/ emailed[j] \in abandoned[j])

\* What the attempt rec has mailed is what its commit will write.
MailedIsWritten(rec) == rec.job \in Email =>
    /\ rec.pc \in {"insert", "load", "mint"} => rec.tok = 0
    /\ rec.pc = "send" => rec.tok > 0
    /\ rec.pc = "commit" => \/ rec.tok = 0 /\ row[rec.job] # "pending"
                            \/ rec.tok > 0 /\ Reached(rec.job, rec.tok)

Links == LastLinkWorks /\ \A r \in Runner : MailedIsWritten(run[r])

LEMMA UnpublishedInit == Init => Unpublished
BY IdleType, Kinds DEF Init, Unpublished

\* What a request's first steps must not find later.
LEMMA KeepsUnpublished ==
    ASSUME Unpublished,
           \A j \in Published : req'[j] \in {"new", "saved"} =>
              /\ req[j] \in {"new", "saved"}
              /\ j \in wire' => j \in wire
              /\ j \in accepted' => j \in accepted \/ j \in wire
              /\ j \in processed' => j \in processed
              /\ j \in Email => run'[j].pc = run[j].pc \/ run'[j].pc = "idle"
    PROVE  Unpublished'
BY DEF Unpublished

LEMMA UnpublishedRequest ==
    ASSUME Typing, Unpublished, NEW j \in Published, Request(j)
    PROVE  Unpublished'
<1>1. ASSUME NEW outcome \in Outcome, DoInRequest(j, outcome)
      PROVE  /\ UNCHANGED <<wire, accepted, processed, run>>
             /\ \E to \in {"done", "failed"} : req' = [req EXCEPT ![j] = to]
  BY <1>1, Zenon DEF DoInRequest, broker
<1>2. CASE Rejected(j) /\ UNCHANGED <<accepted, processed>> /\ wire' \subseteq wire
  <2>1. \E to \in {"fallback", "failed"} : req' = [req EXCEPT ![j] = to]
    BY <1>2 DEF Rejected
  <2>2. \A k \in Email \ {j} : run'[k] = run[k]
    BY <1>2, Kinds DEF Rejected, Typing, TypeOK
  <2> QED
    BY <1>2, <2>1, <2>2, KeepsUnpublished DEF Typing, TypeOK
<1>3. CASE SaveInvite(j) \/ Publish(j) \/ Confirmed(j)
  <2>1. /\ UNCHANGED <<accepted, processed, run>> /\ wire \subseteq wire'
        /\ wire' \subseteq wire \cup {j}
        /\ \E to \in {"saved", "publishing", "done"} : req' = [req EXCEPT ![j] = to]
        /\ j \in wire' => j \in wire \/ req' = [req EXCEPT ![j] = "publishing"]
        /\ req' = [req EXCEPT ![j] = "saved"] => req[j] = "new"
    BY <1>3 DEF SaveInvite, Publish, Confirmed, broker, data, mail, Typing, TypeOK
  <2> QED
    BY <2>1, KeepsUnpublished DEF Typing, TypeOK
<1>4. CASE PublishTimesOut(j) \/ BrokerReturns(j)
  BY <1>2, <1>4 DEF PublishTimesOut, BrokerReturns, broker, data, mail
<1>5. CASE \E outcome \in Outcome : DoInRequest(j, outcome)
  BY <1>1, <1>5, KeepsUnpublished DEF Typing, TypeOK
<1> QED
  BY <1>3, <1>4, <1>5 DEF Request, Answer

LEMMA UnpublishedBroker ==
    ASSUME Typing, Unpublished,
           \/ \E j \in Published : Network(j)
           \/ \E j \in Strays : StrayArrives(j)
           \/ \E j \in Job, n \in Retry : Expire(j, n)
    PROVE  Unpublished'
<1>1. CASE \E j \in Published : Network(j)
  BY <1>1, KeepsUnpublished DEF Network, BrokerTakes, WireLoses, Resend, broker, data, mail
<1>2. CASE \E j \in Strays : StrayArrives(j)
  BY <1>2, KeepsUnpublished, Kinds DEF StrayArrives, api, data, mail
<1>3. CASE \E j \in Job, n \in Retry : Expire(j, n)
  BY <1>3, KeepsUnpublished DEF Expire, api, data, mail
<1> QED
  BY <1>1, <1>2, <1>3

\* The job of a runner at work was published.
LEMMA AtWorkIsPublished ==
    ASSUME Typing, Carry, Unpublished, NEW r \in Runner, run[r].pc # "idle",
           run[r].job \in Published
    PROVE  req[run[r].job] \notin {"new", "saved"}
<1>1. CASE r \in Handler
  BY <1>1 DEF Carry, Taken, Unpublished
<1>2. CASE r \in Email
  BY <1>2 DEF Typing, WellFormed, Unpublished
<1> QED
  BY <1>1, <1>2, Kinds

LEMMA UnpublishedRunner ==
    ASSUME Typing, Carry, Unpublished,
           \/ \E r \in Runner : RunJob(r)
           \/ \E j \in Email : Fallback(j) \/ Redeem(j) \/ DeliverLate(j)
           \/ \E h \in Handler : Settle(h)
           \/ \E h \in Handler, j \in Job, n \in Retry : Deliver(h, j, n)
    PROVE  Unpublished'
<1>1. ASSUME NEW r \in Runner, RunJob(r)
      PROVE  Unpublished'
  <2>1. UNCHANGED <<req, wire, accepted>> /\ run[r].pc # "idle"
    BY <1>1 DEF RunJob, Access, Insert, Load, Mint, Send, Commit, Abort, Invalidate,
                api, broker
  <2>2. \A s \in Runner \ {r} : run'[s] = run[s]
    BY <1>1, GotoFacts DEF RunJob, Access, Insert, Load, Mint, Send, Commit, Abort,
                           Invalidate, Typing, TypeOK
  <2>3. processed' = processed \/ processed' = processed \cup {run[r].job}
    BY <1>1 DEF RunJob, Access, Insert, Load, Mint, Send, Commit, Abort, Invalidate, data, mail
  <2>4. r \in Email => run[r].job = r
    BY <2>1 DEF Typing, WellFormed
  <2>5. run[r].job \in Published => req[run[r].job] \notin {"new", "saved"}
    BY <2>1, AtWorkIsPublished
  <2> QED
    BY <2>1, <2>2, <2>3, <2>4, <2>5, KeepsUnpublished, Kinds
<1>2. ASSUME NEW j \in Email, Fallback(j)
      PROVE  Unpublished'
  <2>1. /\ UNCHANGED <<wire, accepted, processed>> /\ run[j].pc # "idle"
        /\ run' = [run EXCEPT ![j] = Idle] \/ Goto(j, "deleting")
        /\ req' = req \/ \E to \in {"done", "failed"} : req' = [req EXCEPT ![j] = to]
    BY <1>2 DEF Fallback, FallbackDone, FallbackFails, DeleteInvite, broker, data, mail
  <2>2. \A s \in Runner \ {j} : run'[s] = run[s]
    BY <2>1, GotoFacts, Kinds DEF Typing, TypeOK
  <2>3. req[j] \notin {"new", "saved"}
    BY <2>1, Kinds DEF Unpublished
  <2> QED
    BY <2>1, <2>2, <2>3, KeepsUnpublished, Kinds DEF Typing, TypeOK
<1>3. ASSUME NEW j \in Email, Redeem(j) \/ DeliverLate(j)
      PROVE  Unpublished'
  BY <1>3, KeepsUnpublished DEF Redeem, DeliverLate, api, broker
<1>4. ASSUME NEW h \in Handler,
             Settle(h) \/ \E j \in Job, n \in Retry : Deliver(h, j, n)
      PROVE  Unpublished'
  <2>1. UNCHANGED <<req, wire, accepted, processed>>
    BY <1>4 DEF Settle, Ack, Park, Republish, RepublishFails, CannotSettle, Deliver,
                api, broker, data, mail
  <2>2. \A s \in Email : run'[s] = run[s]
    BY <1>4, Kinds DEF Settle, Ack, Park, Republish, RepublishFails, CannotSettle,
                       Deliver, Goto, Typing, TypeOK
  <2> QED
    BY <2>1, <2>2, KeepsUnpublished
<1> QED
  BY <1>1, <1>2, <1>3, <1>4

LEMMA UnpublishedFault ==
    ASSUME Typing, Unpublished,
           \/ \E queue \in WorkQueues : ChannelCloses(queue)
           \/ WorkerDies \/ ApiDies \/ PublisherFails \/ PublisherConnects
    PROVE  Unpublished'
<1>1. UNCHANGED <<wire, accepted, processed>>
  BY DEF ChannelCloses, WorkerDies, ApiDies, LeaveSends, PublisherFails, PublisherConnects,
         api, broker, data
<1>2. \A j \in Published : req'[j] = req[j] \/ req'[j] = "lost"
  BY DEF ChannelCloses, WorkerDies, ApiDies, PublisherFails, PublisherConnects, api
<1>3. \A j \in Email : run'[j] = run[j] \/ run'[j] = Idle
  BY Kinds DEF ChannelCloses, WorkerDies, ApiDies, PublisherFails, PublisherConnects
<1> QED
  BY <1>1, <1>2, <1>3, IdleType, KeepsUnpublished

LEMMA UnpublishedNext == Typing /\ Carry /\ Unpublished /\ [Next]_vars => Unpublished'
<1> SUFFICES ASSUME Typing, Carry, Unpublished, [Next]_vars
             PROVE  Unpublished'
  OBVIOUS
<1>1. CASE UNCHANGED vars
  BY <1>1 DEF vars, api, broker, data, mail, Unpublished
<1> QED
  BY <1>1, UnpublishedRequest, UnpublishedBroker, UnpublishedRunner, UnpublishedFault
     DEF Next

\* The mailbox keeps what it has, and what comes last was given up before.
MailedLate ==
    \A j \in Email : /\ abandoned[j] \subseteq abandoned'[j] /\ mailed[j] \subseteq mailed'[j]
                     /\ emailed'[j] = emailed[j] \/ emailed'[j] \in abandoned'[j]

\* A step that records nothing and mails at most what was given up, makes no row
\* pending, and takes no runner to a step of a transaction it was not at.
LinksUntouched ==
    /\ UNCHANGED <<processed, live>> /\ MailedLate
    /\ \A j \in Email : row'[j] = "pending" => row[j] = "pending"
    /\ \A r \in Runner :
          \/ run'[r].pc \notin {"insert", "load", "mint", "send", "commit"}
          \/ run'[r].pc = "insert" /\ run'[r].tok = 0
          \/ run'[r].job \notin Email
          \/ /\ run'[r].pc = run[r].pc
             /\ run'[r].job = run[r].job /\ run'[r].tok = run[r].tok

LEMMA UntouchedKeepsLinks == Links /\ LinksUntouched => Links'
<1> SUFFICES ASSUME Links, LinksUntouched
             PROVE  Links'
  OBVIOUS
<1>1. LastLinkWorks'
  BY DEF Links, LinksUntouched, MailedLate, LastLinkWorks
<1>2. ASSUME NEW r \in Runner
      PROVE  MailedIsWritten(run[r])'
  <2>1. MailedIsWritten(run[r])
    BY DEF Links
  <2>2. CASE /\ run'[r].pc = run[r].pc
             /\ run'[r].job = run[r].job /\ run'[r].tok = run[r].tok
    BY <2>1, <2>2 DEF LinksUntouched, MailedLate, MailedIsWritten, Reached
  <2> QED
    BY <2>2 DEF LinksUntouched, MailedIsWritten
<1> QED
  BY <1>1, <1>2 DEF Links

\* A process that dies mails nothing.
LEMMA DiesIsLate ==
    ASSUME NEW lost, LeaveSends(lost)
    PROVE  MailedLate
BY DEF LeaveSends, MailedLate

LEMMA LinksInit == Init => Links
BY IdleType DEF Init, Links, LastLinkWorks, MailedIsWritten

\* A runner that goes on keeps its number.
LEMMA GotoTok ==
    ASSUME Typing, NEW r \in Runner, NEW pc, Goto(r, pc)
    PROVE  \A s \in Runner : run'[s].tok = run[s].tok
BY DEF Goto, Typing, TypeOK, RunState

\* A send is of one job.
LEMMA SentElsewhere ==
    ASSUME Typing, NEW j, NEW t, NEW outcome, Sent(j, t, outcome), NEW k \in Email, k # j
    PROVE  /\ mailed'[k] = mailed[k] /\ emailed'[k] = emailed[k]
           /\ minted'[k] = minted[k] /\ abandoned'[k] = abandoned[k]
BY DEF Sent, Mailed, mail, Typing, TypeOK

\* The job of a new request has nobody at work on it, and no record.
LEMMA RequestKeepsLinks ==
    ASSUME Typing, Carry, Unpublished, Links, NEW j \in Published, Request(j)
    PROVE  Links'
<1>1. ASSUME req[j] = "new", UNCHANGED <<run, processed>>,
             \A k \in Email \ {j} : /\ row'[k] = row[k] /\ live'[k] = live[k]
                                    /\ mailed'[k] = mailed[k] /\ emailed'[k] = emailed[k]
                                    /\ abandoned'[k] = abandoned[k]
      PROVE  Links'
  <2>1. j \notin processed
    BY <1>1 DEF Unpublished
  <2>2. \A r \in Runner : run[r].pc # "idle" => run[r].job # j
    BY <1>1, AtWorkIsPublished
  <2>3. LastLinkWorks'
    BY <1>1, <2>1 DEF Links, LastLinkWorks
  <2>4. ASSUME NEW r \in Runner
        PROVE  MailedIsWritten(run[r])'
    BY <1>1, <2>2 DEF Links, MailedIsWritten, Reached
  <2> QED
    BY <2>3, <2>4 DEF Links
<1>2. ASSUME NEW outcome \in Outcome, DoInRequest(j, outcome)
      PROVE  Links'
  <2>1. req[j] = "new" /\ UNCHANGED <<run, processed>>
    BY <1>2, Zenon DEF DoInRequest
  <2>2. \A k \in Email \ {j} : row'[k] = row[k]
    BY <1>2 DEF DoInRequest, Typing, TypeOK
  <2>3. \A k \in Email \ {j} : live'[k] = live[k]
    BY <1>2 DEF DoInRequest, Typing, TypeOK
  <2>4. \A k \in Email \ {j} : /\ mailed'[k] = mailed[k] /\ emailed'[k] = emailed[k]
                               /\ abandoned'[k] = abandoned[k]
    <3>1. Sent(j, 1, outcome) \/ UNCHANGED mail
      BY <1>2, Zenon DEF DoInRequest
    <3> QED
      BY <3>1, SentElsewhere DEF mail
  <2> QED
    BY <2>1, <2>2, <2>3, <2>4, <1>1
<1>3. CASE SaveInvite(j)
  BY <1>1, <1>3 DEF SaveInvite, mail, Typing, TypeOK
<1>4. CASE Publish(j) \/ Confirmed(j)
  <2>1. LinksUntouched
    BY <1>4 DEF Publish, Confirmed, data, mail, LinksUntouched, MailedLate
  <2> QED
    BY <2>1, UntouchedKeepsLinks
<1>5. CASE PublishTimesOut(j) \/ BrokerReturns(j)
  <2>1. UNCHANGED <<processed, live, row>> /\ MailedLate /\ Rejected(j)
    BY <1>5 DEF PublishTimesOut, BrokerReturns, data, mail, MailedLate
  <2>2. \A r \in Runner : run'[r] = run[r] \/ run'[r] = At(j, "insert", 0, FALSE)
    BY <2>1 DEF Rejected, Typing, TypeOK
  <2>3. At(j, "insert", 0, FALSE).pc = "insert" /\ At(j, "insert", 0, FALSE).tok = 0
    BY DEF At
  <2>4. LinksUntouched
    BY <2>1, <2>2, <2>3 DEF LinksUntouched
  <2> QED
    BY <2>4, UntouchedKeepsLinks
<1> QED
  BY <1>2, <1>3, <1>4, <1>5 DEF Request, Answer

\* The steps around a run: queues, settling, faults, the end of a fallback.
LEMMA AroundKeepsLinks ==
    ASSUME Typing, Links,
           \/ \E j \in Published : Network(j)
           \/ \E j \in Strays : StrayArrives(j)
           \/ \E j \in Job, n \in Retry : Expire(j, n)
           \/ \E j \in Email : Fallback(j) \/ Redeem(j) \/ DeliverLate(j)
           \/ \E h \in Handler : Settle(h)
           \/ \E h \in Handler, j \in Job, n \in Retry : Deliver(h, j, n)
           \/ \E queue \in WorkQueues : ChannelCloses(queue)
           \/ WorkerDies \/ ApiDies \/ PublisherFails \/ PublisherConnects
    PROVE  Links'
<1>1. ASSUME UNCHANGED <<processed, live, run>>, MailedLate,
             \A j \in Email : row'[j] = "pending" => row[j] = "pending"
      PROVE  Links'
  <2>1. LinksUntouched
    BY <1>1 DEF LinksUntouched
  <2> QED
    BY <2>1, UntouchedKeepsLinks
<1>2. ASSUME UNCHANGED <<processed, live>>, MailedLate,
             \A j \in Email : row'[j] = "pending" => row[j] = "pending",
             NEW r \in Runner,
             \/ run' = [run EXCEPT ![r] = Idle]
             \/ Goto(r, "deleting") \/ Goto(r, "republished")
      PROVE  Links'
  <2>1. \A s \in Runner \ {r} : run'[s] = run[s]
    BY <1>2, GotoFacts DEF Typing, TypeOK
  <2>2. run'[r].pc \in {"idle", "deleting", "republished"}
    BY <1>2, GotoFacts, IdleType DEF Typing, TypeOK
  <2>3. LinksUntouched
    BY <1>2, <2>1, <2>2 DEF LinksUntouched
  <2> QED
    BY <2>3, UntouchedKeepsLinks
<1>3. CASE \E j \in Published : Network(j)
  BY <1>1, <1>3 DEF Network, BrokerTakes, WireLoses, Resend, data, mail, MailedLate
<1>4. CASE (\E j \in Strays : StrayArrives(j)) \/ \E j \in Job, n \in Retry : Expire(j, n)
  BY <1>1, <1>4 DEF StrayArrives, Expire, data, mail, MailedLate
<1>5. ASSUME NEW j \in Email, Fallback(j)
      PROVE  Links'
  <2>1. /\ UNCHANGED <<processed, live>> /\ MailedLate
        /\ run' = [run EXCEPT ![j] = Idle] \/ Goto(j, "deleting")
    BY <1>5 DEF Fallback, FallbackDone, FallbackFails, DeleteInvite, data, mail, MailedLate
  <2>2. \A k \in Email : row'[k] = "pending" => row[k] = "pending"
    BY <1>5 DEF Fallback, FallbackDone, FallbackFails, DeleteInvite, data, mail, Typing, TypeOK
  <2> QED
    BY <1>2, <2>1, <2>2, Kinds
<1>6. ASSUME NEW j \in Email, Redeem(j)
      PROVE  Links'
  BY <1>1, <1>6 DEF Redeem, mail, MailedLate, Typing, TypeOK
<1>10. ASSUME NEW j \in Email, DeliverLate(j)
       PROVE  Links'
  <2>1. MailedLate
    BY <1>10 DEF DeliverLate, Mailed, MailedLate, Typing, TypeOK
  <2> QED
    BY <1>1, <1>10, <2>1 DEF DeliverLate
<1>7. ASSUME NEW h \in Handler, Settle(h)
      PROVE  Links'
  <2>1. /\ UNCHANGED <<processed, live, row>> /\ MailedLate
        /\ run' = [run EXCEPT ![h] = Idle] \/ Goto(h, "republished")
    BY <1>7 DEF Settle, Ack, Park, Republish, RepublishFails, CannotSettle, data, mail, MailedLate
  <2> QED
    BY <1>2, <2>1, Kinds
<1>8. ASSUME NEW h \in Handler, NEW j \in Job, NEW n \in Retry, Deliver(h, j, n)
      PROVE  Links'
  <2>1. /\ UNCHANGED <<processed, live, row>> /\ MailedLate
        /\ \A r \in Runner : run'[r] = run[r] \/ run'[r] = At(j, FirstStep(j), n, TRUE)
    BY <1>8 DEF Deliver, data, mail, MailedLate, Typing, TypeOK
  <2>2. /\ At(j, FirstStep(j), n, TRUE).tok = 0
        /\ At(j, FirstStep(j), n, TRUE).pc \in {"refused", "access", "insert"}
    BY FirstStepType DEF At
  <2>3. LinksUntouched
    BY <2>1, <2>2 DEF LinksUntouched
  <2> QED
    BY <2>3, UntouchedKeepsLinks
<1>9. CASE \/ \E queue \in WorkQueues : ChannelCloses(queue)
           \/ WorkerDies \/ ApiDies \/ PublisherFails \/ PublisherConnects
  <2>1. UNCHANGED <<processed, live, row>> /\ MailedLate
    <3>1. CASE WorkerDies \/ ApiDies
      BY <3>1, DiesIsLate DEF WorkerDies, ApiDies, LeaveSends
    <3> QED
      BY <1>9, <3>1 DEF ChannelCloses, PublisherFails, PublisherConnects, data, mail, MailedLate
  <2>2. \A r \in Runner : \/ run'[r] = Idle
                          \/ /\ run'[r].pc = run[r].pc
                             /\ run'[r].job = run[r].job /\ run'[r].tok = run[r].tok
    <3>1. CASE \E queue \in WorkQueues : ChannelCloses(queue)
      BY <3>1 DEF ChannelCloses, Typing, TypeOK, RunState
    <3>2. CASE WorkerDies \/ ApiDies \/ PublisherFails \/ PublisherConnects
      BY <3>2 DEF WorkerDies, ApiDies, PublisherFails, PublisherConnects
    <3> QED
      BY <1>9, <3>1, <3>2
  <2>3. LinksUntouched
    BY <2>1, <2>2, IdleType DEF LinksUntouched
  <2> QED
    BY <2>3, UntouchedKeepsLinks
<1> QED
  BY <1>3, <1>4, <1>5, <1>6, <1>7, <1>8, <1>9, <1>10

\* The steps of a run.  Its transaction is the only one of its job.
LEMMA RunJobKeepsLinks ==
    ASSUME Typing, Effect, Links, NEW r \in Runner, RunJob(r)
    PROVE  Links'
<1> DEFINE j == run[r].job
<1>1. ASSUME NEW pc, Goto(r, pc), UNCHANGED <<processed, row, live, mailed, emailed>>,
             \A k \in Email : abandoned[k] \subseteq abandoned'[k],
             MailedIsWritten([job |-> j, pc |-> pc, tok |-> run[r].tok])
      PROVE  Links'
  <2>1. LastLinkWorks'
    BY <1>1 DEF Links, LastLinkWorks
  <2>2. /\ \A s \in Runner \ {r} : run'[s] = run[s]
        /\ run'[r].job = j /\ run'[r].pc = pc /\ run'[r].tok = run[r].tok
    BY <1>1, GotoFacts, GotoTok
  <2>3. \A s \in Runner \ {r} : MailedIsWritten(run[s])'
    BY <1>1, <2>2 DEF Links, MailedIsWritten, Reached
  <2>4. MailedIsWritten(run[r])'
    BY <1>1, <2>2 DEF MailedIsWritten, Reached
  <2> QED
    BY <2>1, <2>3, <2>4 DEF Links
<1>2. MailedIsWritten(run[r])
  BY DEF Links
<1>3. CASE Access(r)
  <2>1. UNCHANGED <<processed, row, live, mail>> /\ j \notin Email
    BY <1>3, Kinds DEF Access, data, mail, Typing, WellFormed
  <2>2. PICK pc \in {"insert", "refused", "failed"} : Goto(r, pc)
    BY <1>3 DEF Access
  <2> QED
    BY <1>1, <2>1, <2>2 DEF MailedIsWritten, mail
<1>4. CASE Insert(r)
  <2>1. UNCHANGED <<processed, row, live, mail>>
    BY <1>4 DEF Insert, data, mail
  <2>2. PICK pc \in {"invalidate", "done", "commit", "load"} :
           Goto(r, pc) /\ (pc = "commit" => j \in Dummies)
    BY <1>4 DEF Insert, AfterRunOnce
  <2> QED
    BY <1>1, <1>2, <1>4, <2>1, <2>2, Kinds DEF MailedIsWritten, Insert, mail
<1>5. CASE Load(r)
  <2>1. UNCHANGED <<processed, row, live, mail>>
    BY <1>5 DEF Load, data, mail
  <2>2. PICK pc \in {"mint", "commit"} :
           Goto(r, pc) /\ (pc = "commit" => row[j] # "pending")
    BY <1>5 DEF Load
  <2> QED
    BY <1>1, <1>2, <1>5, <2>1, <2>2 DEF MailedIsWritten, Load, mail
<1>6. CASE Mint(r)
  <2>1. /\ UNCHANGED <<processed, row, live, abandoned, mailed, emailed>>
        /\ j \in Email /\ minted[j] \in Nat
    BY <1>6 DEF Mint, Typing, TypeOK, WellFormed
  <2>2. /\ run'[r].pc = "send" /\ run'[r].tok = minted[j] + 1
        /\ \A s \in Runner \ {r} : run'[s] = run[s]
    BY <1>6 DEF Mint, Typing, TypeOK, RunState
  <2>3. LastLinkWorks'
    BY <2>1 DEF Links, LastLinkWorks
  <2>4. \A s \in Runner \ {r} : MailedIsWritten(run[s])'
    BY <2>1, <2>2 DEF Links, MailedIsWritten, Reached
  <2>5. MailedIsWritten(run[r])'
    BY <2>1, <2>2 DEF MailedIsWritten
  <2> QED
    BY <2>3, <2>4, <2>5 DEF Links
<1>7. ASSUME NEW outcome \in Outcome, Send(r, outcome)
      PROVE  Links'
  <2>1. CASE outcome # "sent"
    <3>1. /\ UNCHANGED <<processed, row, live, mailed, emailed>> /\ Goto(r, "failed")
          /\ Sent(j, run[r].tok, outcome)
      BY <1>7, <2>1 DEF Send, Sent, mail
    <3>2. \A k \in Email : abandoned[k] \subseteq abandoned'[k]
      BY <2>1, <3>1 DEF Sent, mail, Typing, TypeOK
    <3> QED
      BY <1>1, <3>1, <3>2 DEF MailedIsWritten
  <2>2. CASE outcome = "sent"
    <3>1. Goto(r, "commit")
      BY <1>7, <2>2 DEF Send
    <3> DEFINE pc == "commit"
    <3>2. /\ UNCHANGED <<processed, row, live>> /\ Mailed(j, run[r].tok)
          /\ run[r].pc = "send" /\ j \in Email
      BY <1>7, <2>2 DEF Send, Sent, Typing, WellFormed
    <3>3. /\ emailed'[j] = run[r].tok /\ run[r].tok \in mailed'[j] /\ abandoned' = abandoned
          /\ \A k \in Email \ {j} : emailed'[k] = emailed[k] /\ mailed'[k] = mailed[k]
      BY <3>2 DEF Mailed, Typing, TypeOK
    <3>4. /\ \A s \in Runner \ {r} : run'[s] = run[s]
          /\ run'[r].job = j /\ run'[r].pc = pc /\ run'[r].tok = run[r].tok
      BY <3>1, GotoFacts, GotoTok
    <3>5. j \notin processed /\ run[r].tok > 0
      BY <1>2, <3>2 DEF Effect, Unrecorded, InTx, MailedIsWritten
    <3>6. LastLinkWorks'
      BY <3>2, <3>3, <3>5 DEF Links, LastLinkWorks
    <3>7. \A s \in Runner \ {r} : run[s].pc = "commit" => run[s].job # j
      BY <3>2 DEF Effect, Exclusive, InTx
    <3>8. \A s \in Runner \ {r} : MailedIsWritten(run[s])'
      BY <3>2, <3>3, <3>4, <3>7 DEF Links, MailedIsWritten, Reached
    <3>9. MailedIsWritten(run[r])'
      BY <3>3, <3>4, <3>5 DEF MailedIsWritten, Reached
    <3> QED
      BY <3>6, <3>8, <3>9 DEF Links
  <2> QED
    BY <2>1, <2>2
<1>8. ASSUME NEW answered \in BOOLEAN, Commit(r, answered)
      PROVE  Links'
  <2>1. /\ UNCHANGED <<row, abandoned, mailed, emailed>> /\ processed' = processed \cup {j}
        /\ run[r].pc = "commit" /\ j \notin processed
    BY <1>8 DEF Commit, Effect, Unrecorded, InTx, mail
  <2>2. /\ \A k \in Email \ {j} : live'[k] = live[k]
        /\ j \in Email /\ row[j] = "pending" => live'[j] = run[r].tok /\ run[r].tok > 0
    BY <1>2, <1>8, <2>1 DEF Commit, MailedIsWritten, Typing, TypeOK
  <2>3. LastLinkWorks'
    BY <1>2, <2>1, <2>2 DEF Links, LastLinkWorks, MailedIsWritten, Reached
  <2>4. PICK pc \in {"invalidate", "done", "failed"} : Goto(r, pc)
    BY <1>8 DEF Commit, AfterRunOnce
  <2>5. (\A s \in Runner \ {r} : run'[s] = run[s]) /\ run'[r].pc = pc
    BY <2>4, GotoFacts
  <2>6. \A s \in Runner : MailedIsWritten(run[s])'
    BY <2>1, <2>5 DEF Links, MailedIsWritten, Reached
  <2> QED
    BY <2>3, <2>6 DEF Links
<1>9. CASE Abort(r)
  BY <1>1, <1>9 DEF Abort, data, mail, MailedIsWritten
<1>10. ASSUME NEW result \in {"cleared", "missed", "failed"},
             Invalidate(r, result)
       PROVE  Links'
  <2>1. PICK pc \in {"done", "failed"} : Goto(r, pc)
    BY <1>10 DEF Invalidate
  <2> QED
    BY <1>1, <1>10, <2>1 DEF Invalidate, MailedIsWritten, mail
<1> QED
  BY <1>3, <1>4, <1>5, <1>6, <1>7, <1>8, <1>9, <1>10 DEF RunJob

LEMMA LinksNext ==
    Typing /\ Effect /\ Carry /\ Unpublished /\ Links /\ [Next]_vars => Links'
<1> SUFFICES ASSUME Typing, Effect, Carry, Unpublished, Links, [Next]_vars
             PROVE  Links'
  OBVIOUS
<1>1. CASE UNCHANGED vars
  <2>1. LinksUntouched
    BY <1>1 DEF vars, data, mail, LinksUntouched, MailedLate
  <2> QED
    BY <2>1, UntouchedKeepsLinks
<1> QED
  BY <1>1, RequestKeepsLinks, RunJobKeepsLinks, AroundKeepsLinks DEF Next

LEMMA LinksInductive == Spec => [](Unpublished /\ Links)
<1>1. Init => Typing /\ Effect /\ Carry /\ Unpublished /\ Links
  BY TypingInit, EffectInit, CarryInit, UnpublishedInit, LinksInit
<1>2. (Typing /\ Effect /\ Carry /\ Unpublished /\ Links) /\ [Next]_vars
         => (Typing /\ Effect /\ Carry /\ Unpublished /\ Links)'
  BY TypingNext, EffectNext, CarryNext, UnpublishedNext, LinksNext
<1> QED
  BY <1>1, <1>2, PTL DEF Spec

\* The link the database accepts for a recorded job is in the mailbox, and only one
\* whose send had been given up can have come after it, however many attempts mailed
\* a link and rolled back.
THEOREM RecordedLinkWorks == Spec => []LastLinkWorks
<1>1. Links => LastLinkWorks
  BY DEF Links
<1> QED
  BY <1>1, LinksInductive, PTL

\* What the mail of a recorded job may still do.
OnlyLate(j) ==
    /\ minted'[j] = minted[j] /\ abandoned'[j] = abandoned[j]
    /\ mailed'[j] \subseteq mailed[j] \cup abandoned[j]

\* Only a transaction that will record the job, or the request of an
\* unpublished one, mints or sends for it.
LEMMA MailsUnrecorded ==
    ASSUME Typing, Effect, Unpublished, [Next]_vars, NEW j \in Email, j \in processed
    PROVE  OnlyLate(j)
<1>1. ASSUME UNCHANGED mail PROVE OnlyLate(j)
  BY <1>1 DEF mail, OnlyLate
<1>2. CASE UNCHANGED vars
  BY <1>1, <1>2 DEF vars, data
<1>3. ASSUME NEW k \in Published, Request(k)
      PROVE  OnlyLate(j)
  <2>1. ASSUME NEW outcome \in Outcome, DoInRequest(k, outcome)
        PROVE  OnlyLate(j)
    <3>1. k # j
      BY <2>1 DEF DoInRequest, Unpublished
    <3>2. Sent(k, 1, outcome) \/ UNCHANGED mail
      BY <2>1, Zenon DEF DoInRequest
    <3> QED
      BY <1>1, <3>1, <3>2, SentElsewhere DEF OnlyLate
  <2> QED
    BY <1>1, <1>3, <2>1 DEF Request, Answer, SaveInvite, Publish, Confirmed, PublishTimesOut,
                            BrokerReturns, data
<1>4. ASSUME NEW r \in Runner, RunJob(r)
      PROVE  OnlyLate(j)
  <2>1. ASSUME NEW outcome \in Outcome, Send(r, outcome)
        PROVE  OnlyLate(j)
    <3>1. run[r].job # j
      BY <2>1 DEF Send, InTx, Effect, Unrecorded
    <3> QED
      BY <2>1, <3>1, SentElsewhere DEF Send, OnlyLate
  <2>2. CASE Mint(r)
    <3>1. run[r].job # j
      BY <2>2 DEF Mint, InTx, Effect, Unrecorded
    <3> QED
      BY <2>2, <3>1 DEF Mint, OnlyLate, Typing, TypeOK
  <2> QED
    BY <1>1, <1>4, <2>1, <2>2 DEF RunJob, Access, Insert, Load, Commit, Abort, Invalidate, data
<1>5. CASE \/ \E k \in Published : Network(k)
           \/ \E k \in Strays : StrayArrives(k)
           \/ \E k \in Job, n \in Retry : Expire(k, n)
           \/ \E k \in Email : Fallback(k) \/ Redeem(k)
  BY <1>1, <1>5 DEF Network, BrokerTakes, WireLoses, Resend, StrayArrives, Expire, Fallback,
                    FallbackDone, FallbackFails, DeleteInvite, Redeem, data
<1>6. ASSUME NEW k \in Email, DeliverLate(k)
      PROVE  OnlyLate(j)
  BY <1>6 DEF DeliverLate, Mailed, OnlyLate, Typing, TypeOK
<1>7. ASSUME NEW lost \in SUBSET Runner, LeaveSends(lost)
      PROVE  OnlyLate(j)
  <2>1. {q \in lost : run[q].pc = "send" /\ run[q].job = j} = {}
    BY DEF Effect, Unrecorded, InTx
  <2> QED
    BY <1>7, <2>1 DEF LeaveSends, OnlyLate
<1>8. CASE WorkerDies \/ ApiDies
  BY <1>7, <1>8 DEF WorkerDies, ApiDies, Runner
<1>9. CASE \/ \E h \in Handler : Settle(h)
           \/ \E h \in Handler, k \in Job, n \in Retry : Deliver(h, k, n)
           \/ \E queue \in WorkQueues : ChannelCloses(queue)
           \/ PublisherFails \/ PublisherConnects
  BY <1>1, <1>9 DEF Settle, Ack, Park, Republish, RepublishFails, CannotSettle, Deliver,
                    ChannelCloses, PublisherFails, PublisherConnects, data
<1> QED
  BY <1>2, <1>3, <1>4, <1>5, <1>6, <1>8, <1>9 DEF Next

\* For a recorded job no link is minted and no send begun: of the worker and the
\* fallback, the one that comes second sends nothing, and the mailbox gets only what
\* had been given up before.
THEOREM RecordedSendsNothing == Spec => SendsNothingOnceRecorded
<1>1. Typing /\ Effect /\ Unpublished /\ [Next]_vars
         => [\A j \in Email \cap processed :
               /\ minted'[j] = minted[j] /\ abandoned'[j] = abandoned[j]
               /\ mailed'[j] \subseteq mailed[j] \cup abandoned[j]]_vars
  BY MailsUnrecorded DEF OnlyLate
<1> QED
  BY <1>1, Inductive, LinksInductive, PTL DEF Spec, SendsNothingOnceRecorded

-----------------------------------------------------------------------------
(* The queue keeps DurableJobs' safety: every step hands over a job, does   *)
(* the work of one not done before, parks one that was handed over, or      *)
(* shows nothing.                                                          *)

Unseen == UNCHANGED <<accepted, commits, parked>>

LEMMA UnseenSteps ==
    ASSUME \/ \E j \in Published : Request(j) \/ WireLoses(j) \/ Resend(j)
           \/ \E j \in Job, n \in Retry : Expire(j, n)
           \/ \E j \in Email : Fallback(j) \/ Redeem(j) \/ DeliverLate(j)
           \/ \E h \in Handler, j \in Job, n \in Retry : Deliver(h, j, n)
           \/ \E queue \in WorkQueues : ChannelCloses(queue)
           \/ WorkerDies \/ ApiDies \/ PublisherFails \/ PublisherConnects
    PROVE  Unseen
<1>1. CASE \E j \in Published : Request(j)
  <2>1. ASSUME NEW j \in Published, NEW outcome \in Outcome, DoInRequest(j, outcome)
        PROVE  Unseen
    BY <2>1, Zenon DEF DoInRequest, broker, Unseen
  <2> QED
    BY <1>1, <2>1 DEF Request, Answer, SaveInvite, Publish, Confirmed, PublishTimesOut,
                      BrokerReturns, broker, data, mail, Unseen
<1>2. CASE \/ \E j \in Published : WireLoses(j) \/ Resend(j)
           \/ \E j \in Job, n \in Retry : Expire(j, n)
           \/ \E j \in Email : Fallback(j) \/ Redeem(j) \/ DeliverLate(j)
  BY <1>2 DEF WireLoses, Resend, Expire, Fallback, FallbackDone, FallbackFails,
              DeleteInvite, Redeem, DeliverLate, broker, data, Unseen
<1>3. CASE \/ \E h \in Handler, j \in Job, n \in Retry : Deliver(h, j, n)
           \/ \E queue \in WorkQueues : ChannelCloses(queue)
           \/ WorkerDies \/ ApiDies \/ PublisherFails \/ PublisherConnects
  BY <1>3 DEF Deliver, ChannelCloses, WorkerDies, ApiDies, PublisherFails,
              PublisherConnects, LeaveSends, broker, data, Unseen
<1> QED
  BY <1>1, <1>2, <1>3

LEMMA RunPerforms ==
    ASSUME Typing, Effect, NEW r \in Runner, RunJob(r)
    PROVE  Unseen \/ \E j \in Job : Durable!Perform(j)
<1>1. ASSUME NEW answered \in BOOLEAN, Commit(r, answered)
      PROVE  \E j \in Job : Durable!Perform(j)
  <2> DEFINE j == run[r].job
  <2>1. InTx(r) /\ j \in Job
    BY <1>1, Kinds DEF Commit, InTx, Typing, WellFormed
  <2>2. commits[j] = 0
    BY <2>1 DEF Effect, Unrecorded, Counted
  <2>3. commits' = [commits EXCEPT ![j] = commits[j] + 1] /\ UNCHANGED <<accepted, parked>>
    BY <1>1 DEF Commit, broker
  <2> HIDE DEF j
  <2>4. commits' = [commits EXCEPT ![j] = 1]
    BY <2>2, <2>3
  <2> QED
    BY <2>1, <2>2, <2>3, <2>4 DEF Durable!Perform
<1> QED
  BY <1>1 DEF RunJob, Access, Insert, Load, Mint, Send, Abort, Invalidate, broker, data, mail,
              Unseen

LEMMA SettleGivesUp ==
    ASSUME Typing, Carry, NEW h \in Handler, Settle(h)
    PROVE  Unseen \/ \E j \in Job : Durable!GiveUp(j)
<1>1. ASSUME run[h].pc # "idle", parked' = parked \cup {run[h].job},
             UNCHANGED <<accepted, commits>>
      PROVE  \E j \in Job : Durable!GiveUp(j)
  <2>1. run[h].job \in Job /\ run[h].job \in accepted
    BY <1>1, Kinds DEF Typing, WellFormed, Carry, Taken
  <2> QED
    BY <1>1, <2>1 DEF Durable!GiveUp
<1>2. CASE Park(h)
  BY <1>1, <1>2 DEF Park, MustPark, data, mail, Unseen
<1>3. CASE \E arrived \in BOOLEAN : RepublishFails(h, arrived)
  BY <1>1, <1>3 DEF RepublishFails, MayRetry, data, mail
<1>4. CASE Ack(h) \/ Republish(h) \/ CannotSettle(h)
  BY <1>4 DEF Ack, Republish, CannotSettle, broker, data, mail, Unseen
<1> QED
  BY <1>2, <1>3, <1>4 DEF Settle

LEMMA StepIsDurable ==
    ASSUME Typing, Effect, Carry, [Next]_vars
    PROVE  [Durable!Next]_<<accepted, commits, parked>>
<1> SUFFICES Unseen \/ \E j \in Job : Durable!Take(j) \/ Durable!Perform(j) \/ Durable!GiveUp(j)
  BY DEF Unseen, Durable!Next
<1>1. CASE UNCHANGED vars
  BY <1>1 DEF vars, broker, data, mail, Unseen
<1>2. ASSUME NEW j \in Job, accepted' = accepted \cup {j}, UNCHANGED <<commits, parked>>
      PROVE  Durable!Take(j)
  BY <1>2 DEF Durable!Take
<1>3. CASE \/ \E j \in Published : BrokerTakes(j)
           \/ \E j \in Strays : StrayArrives(j)
  BY <1>2, <1>3, Kinds DEF BrokerTakes, StrayArrives, data, mail
<1> QED
  BY <1>1, <1>3, UnseenSteps, RunPerforms, SettleGivesUp DEF Next, Network

\* The publishes, fallbacks, retries and redeliveries together are the durable
\* queue ADR-0007 asks for.
THEOREM KeepsDurableJobs == Spec => Durable!Safety
<1>1. Init => Durable!Init
  BY DEF Init, Durable!Init
<1>2. Typing /\ Effect /\ Carry /\ [Next]_vars => [Durable!Next]_(Durable!durable)
  BY StepIsDurable DEF Durable!durable
<1> QED
  BY <1>1, <1>2, Inductive, PTL DEF Spec, Durable!Safety
=============================================================================
