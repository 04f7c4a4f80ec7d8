------------------------ MODULE AnalysisQueueProofs ------------------------
(***************************************************************************)
(* Proofs about AnalysisQueue for every set of videos and workers and      *)
(* every capacity: its type invariant, that a video has at most one job,   *)
(* and that it implements JobBoard.                                        *)
(***************************************************************************)
EXTENDS AnalysisQueue, Integers, TLAPS

(* Initially the queue and the pool are well typed. *)
LEMMA QueueTypeInit == QueueInit => QueueTypeOK
  BY QueueAssumption
  DEF QueueInit, QueueTypeOK, NoCall, AtTop, LoopStates, WorkerStates, JobStates, Priorities, Urgent, Normal

(* No step of the event loop, of a worker or of the process breaks the types. *)
LEMMA QueueTypeStep == QueueTypeOK /\ [QueueNext]_queueVars => QueueTypeOK'
<1> SUFFICES ASSUME QueueTypeOK, [QueueNext]_queueVars PROVE QueueTypeOK'
  OBVIOUS
<1> USE QueueAssumption DEF QueueTypeOK, LoopStates, WorkerStates, JobStates, Priorities, Urgent, Normal
<1>1. ASSUME NEW v \in Videos, NEW p \in Priorities, EnqueueCall(v, p) PROVE QueueTypeOK'
  BY <1>1 DEF EnqueueCall
<1>2. CASE EnqueueCheck
  BY <1>2 DEF EnqueueCheck
<1>3. CASE EnqueuePut
  <2>1. CASE Full
    BY <1>3, <2>1 DEF EnqueuePut
  <2>2. CASE ~Full
    <3> DEFINE p == loop.priority
    <3>1. /\ p \in Priorities
          /\ loop.video \in Videos
          /\ queue[p] \in Seq(Videos)
      BY <1>3 DEF EnqueuePut
    <3>2. /\ queue' = [queue EXCEPT ![p] = Append(queue[p], loop.video)]
          /\ loop' = [loop EXCEPT !.pc = "add"]
          /\ UNCHANGED <<running, inFlight, jobSteps, worker>>
      BY <1>3, <2>2 DEF EnqueuePut
    <3>3. /\ Append(queue[p], loop.video) \in Seq(Videos)
          /\ Len(Append(queue[p], loop.video)) = Len(queue[p]) + 1
      BY <3>1
    <3>4. queue' \in [Priorities -> Seq(Videos)]
      BY <3>2, <3>3
    <3>5. Len(queue[Urgent]) + Len(queue[Normal]) < QueueMax
      BY <2>2 DEF Full
    <3>6. (Len(queue[Urgent]) + Len(queue[Normal]) <= QueueMax)'
      <4>1. Len(queue[0]) \in Nat /\ Len(queue[1]) \in Nat
        OBVIOUS
      <4>2. CASE p = 0
        <5>1. queue'[0] = Append(queue[0], loop.video) /\ queue'[1] = queue[1]
          BY <3>1, <3>2, <4>2
        <5>2. QED BY <5>1, <4>1, <4>2, <3>3, <3>5
      <4>3. CASE p = 1
        <5>1. queue'[1] = Append(queue[1], loop.video) /\ queue'[0] = queue[0]
          BY <3>1, <3>2, <4>3
        <5>2. QED BY <5>1, <4>1, <4>3, <3>3, <3>5
      <4>4. QED BY <4>2, <4>3, <3>1
    <3>7. QED BY <3>1, <3>2, <3>4, <3>6
  <2>3. QED BY <2>1, <2>2
<1>4. CASE EnqueueAdd
  BY <1>4 DEF EnqueueAdd
<1>5. CASE EnqueueReturn
  BY <1>5 DEF EnqueueReturn, NoCall
<1>6. ASSUME NEW w \in Workers, WorkerTop(w) PROVE QueueTypeOK'
  BY <1>6 DEF WorkerTop
<1>7. ASSUME NEW w \in Workers, WorkerGet(w) PROVE QueueTypeOK'
  <2>1. PICK p \in Priorities :
          /\ queue[p] # <<>>
          /\ queue' = [queue EXCEPT ![p] = Tail(@)]
          /\ worker' = [worker EXCEPT ![w] = [pc |-> "begin", video |-> Head(queue[p])]]
    BY <1>7 DEF WorkerGet
  <2>2. /\ Head(queue[p]) \in Videos
        /\ Tail(queue[p]) \in Seq(Videos)
        /\ Len(Tail(queue[p])) = Len(queue[p]) - 1
        /\ Len(queue[p]) \in Nat \ {0}
    BY <2>1
  <2>3. queue' \in [Priorities -> Seq(Videos)]
    BY <2>1, <2>2
  <2>4. (Len(queue[Urgent]) + Len(queue[Normal]) <= QueueMax)'
    <3>1. Len(queue[0]) \in Nat /\ Len(queue[1]) \in Nat
      OBVIOUS
    <3>2. CASE p = 0
      <4>1. queue'[0] = Tail(queue[0]) /\ queue'[1] = queue[1]
        BY <2>1, <3>2
      <4>2. QED BY <2>2, <3>1, <3>2, <4>1
    <3>3. CASE p = 1
      <4>1. queue'[1] = Tail(queue[1]) /\ queue'[0] = queue[0]
        BY <2>1, <3>3
      <4>2. QED BY <2>2, <3>1, <3>3, <4>1
    <3>4. QED BY <3>2, <3>3
  <2>5. /\ worker' \in [Workers -> [pc : WorkerStates, video : Videos \cup {NoVideo}]]
        /\ \A x \in Workers : worker'[x].pc \in JobStates \cup {"release"} => worker'[x].video \in Videos
    BY <2>1, <2>2
  <2>6. QED BY <1>7, <2>1, <2>2, <2>3, <2>4, <2>5 DEF WorkerGet
<1>8. ASSUME NEW w \in Workers, WorkerEmpty(w) PROVE QueueTypeOK'
  BY <1>8 DEF WorkerEmpty
<1>9. ASSUME NEW w \in Workers, WorkerBegin(w) \/ WorkerEnd(w) \/ WorkerDiscard(w)
      PROVE  QueueTypeOK'
  <2>1. CASE WorkerBegin(w)
    BY <2>1 DEF WorkerBegin
  <2>2. CASE WorkerEnd(w)
    BY <2>2 DEF WorkerEnd
  <2>3. CASE WorkerDiscard(w)
    BY <2>3 DEF WorkerDiscard
  <2>4. QED BY <1>9, <2>1, <2>2, <2>3
<1>10. ASSUME NEW w \in Workers, WorkerRelease(w) PROVE QueueTypeOK'
  BY <1>10 DEF WorkerRelease, AtTop
<1>11. CASE Stop
  BY <1>11 DEF Stop
<1>12. CASE Restart
  BY <1>12 DEF Restart, NoCall, AtTop
<1>13. CASE UNCHANGED queueVars
  BY <1>13 DEF queueVars
<1>14. QED
  BY <1>1, <1>2, <1>3, <1>4, <1>5, <1>6, <1>7, <1>8, <1>9, <1>10, <1>11, <1>12, <1>13
  DEF QueueNext, LoopStep, WorkerStep

(* Type correctness: the queue never holds more than QueueMax videos, the    *)
(* event loop always has a video in hand inside enqueue(), and so does a     *)
(* worker that runs a job.                                                   *)
THEOREM QueueTypeCorrect == QueueSpec => []QueueTypeOK
<1>1. QueueInit => QueueTypeOK
  BY QueueTypeInit
<1>2. QueueTypeOK /\ [QueueNext]_queueVars => QueueTypeOK'
  BY QueueTypeStep
<1>3. QED
  BY <1>1, <1>2, PTL DEF QueueSpec

-----------------------------------------------------------------------------
(* What a put does to the set of waiting videos. *)
LEMMA PutAddsVideo ==
  ASSUME QueueTypeOK, EnqueuePut, ~Full
  PROVE  /\ \A v \in Videos : InQueue(v)' <=> InQueue(v) \/ v = loop.video
         /\ QueuedOnce /\ ~InQueue(loop.video) => QueuedOnce'
<1> DEFINE p == loop.priority
           e == loop.video
<1>1. /\ p \in Priorities /\ e \in Videos
      /\ queue \in [Priorities -> Seq(Videos)]
      /\ queue' = [queue EXCEPT ![p] = Append(queue[p], e)]
  BY DEF QueueTypeOK, EnqueuePut
<1>2. /\ queue'[p] = Append(queue[p], e)
      /\ \A q \in Priorities : q # p => queue'[q] = queue[q]
      /\ queue[p] \in Seq(Videos)
      /\ \A q \in Priorities : Len(queue[q]) \in Nat
  BY <1>1
<1>3. /\ Len(queue'[p]) = Len(queue[p]) + 1
      /\ \A i \in 1..Len(queue[p]) : queue'[p][i] = queue[p][i]
      /\ queue'[p][Len(queue[p]) + 1] = e
  BY <1>1, <1>2
<1> HIDE DEF p, e
<1>4. ASSUME NEW v \in Videos PROVE InQueue(v)' <=> InQueue(v) \/ v = e
  <2>1. ASSUME InQueue(v)' PROVE InQueue(v) \/ v = e
    <3>1. PICK q \in Priorities : \E i \in 1..Len(queue'[q]) : queue'[q][i] = v
      BY <2>1 DEF InQueue
    <3>2. CASE q = p
      BY <3>1, <3>2, <1>2, <1>3 DEF InQueue
    <3>3. CASE q # p
      BY <3>1, <3>3, <1>2 DEF InQueue
    <3>4. QED BY <3>2, <3>3
  <2>2. ASSUME InQueue(v) PROVE InQueue(v)'
    <3>1. PICK q \in Priorities : \E i \in 1..Len(queue[q]) : queue[q][i] = v
      BY <2>2 DEF InQueue
    <3>2. PICK i \in 1..Len(queue[q]) : queue[q][i] = v
      BY <3>1
    <3>3. i \in 1..Len(queue'[q]) /\ queue'[q][i] = v
      <4>1. CASE q = p
        <5>1. Len(queue[p]) \in Nat /\ i \in 1..Len(queue[p])
          BY <4>1, <3>2, <1>1, <1>2
        <5>2. i \in 1..Len(queue'[p])
          BY <5>1, <1>3
        <5>3. QED
          BY <4>1, <3>2, <5>1, <5>2, <1>3
      <4>2. CASE q # p
        BY <4>2, <3>2, <1>2
      <4>3. QED BY <4>1, <4>2
    <3>4. QED BY <3>3 DEF InQueue
  <2>3. ASSUME v = e PROVE InQueue(v)'
    <3>1. Len(queue[p]) + 1 \in 1..Len(queue'[p])
      BY <1>1, <1>2, <1>3
    <3>2. QED BY <2>3, <3>1, <1>1, <1>3 DEF InQueue
  <2>4. QED BY <2>1, <2>2, <2>3
<1>5. ASSUME QueuedOnce, ~InQueue(e) PROVE QueuedOnce'
  <2> SUFFICES ASSUME NEW q \in Priorities, NEW r \in Priorities,
                      NEW i \in 1..Len(queue'[q]), NEW j \in 1..Len(queue'[r]),
                      queue'[q][i] = queue'[r][j]
               PROVE  q = r /\ i = j
    BY DEF QueuedOnce
  <2> DEFINE Old(s, k) == k \in 1..Len(queue[s]) /\ queue'[s][k] = queue[s][k]
             New(s, k) == s = p /\ k = Len(queue[p]) + 1 /\ queue'[s][k] = e
  <2>1. ASSUME NEW s \in Priorities, NEW k \in 1..Len(queue'[s])
        PROVE  Old(s, k) \/ New(s, k)
    <3>1. CASE s = p
      <4>1. Len(queue[p]) \in Nat /\ k \in 1..(Len(queue[p]) + 1)
        BY <3>1, <1>1, <1>2, <1>3
      <4>2. k \in 1..Len(queue[p]) \/ k = Len(queue[p]) + 1
        BY <4>1
      <4>3. QED
        BY <3>1, <4>2, <1>3
    <3>2. CASE s # p
      BY <3>2, <1>2
    <3>3. QED
      BY <3>1, <3>2
  <2>2. \A s \in Priorities : \A k \in 1..Len(queue[s]) : queue[s][k] # e
    BY <1>5 DEF InQueue
  <2>3. CASE Old(q, i) /\ Old(r, j)
    <3>1. i \in 1..Len(queue[q]) /\ j \in 1..Len(queue[r]) /\ queue[q][i] = queue[r][j]
      BY <2>3
    <3> HIDE DEF Old, New
    <3>2. QED
      BY <1>5, <3>1 DEF QueuedOnce
  <2>4. CASE New(q, i) /\ New(r, j)
    BY <2>4
  <2>5. CASE Old(q, i) /\ New(r, j)
    BY <2>2, <2>5
  <2>6. CASE New(q, i) /\ Old(r, j)
    BY <2>2, <2>6
  <2>7. (Old(q, i) \/ New(q, i)) /\ (Old(r, j) \/ New(r, j))
    BY <2>1
  <2>8. QED
    BY <2>3, <2>4, <2>5, <2>6, <2>7
<1>6. QED BY <1>4, <1>5 DEF p, e

(* What a get does: the head of one sequence goes, and was nowhere else. *)
LEMMA GetRemovesVideo ==
  ASSUME QueueTypeOK, QueuedOnce, NEW w \in Workers, WorkerGet(w)
  PROVE  \E h \in Videos :
           /\ InQueue(h)
           /\ worker' = [worker EXCEPT ![w] = [pc |-> "begin", video |-> h]]
           /\ UNCHANGED <<running, inFlight, jobSteps, loop>>
           /\ \A v \in Videos : InQueue(v)' <=> InQueue(v) /\ v # h
           /\ QueuedOnce'
<1>1. PICK p \in Priorities :
        /\ queue[p] # <<>>
        /\ queue' = [queue EXCEPT ![p] = Tail(@)]
        /\ worker' = [worker EXCEPT ![w] = [pc |-> "begin", video |-> Head(queue[p])]]
        /\ UNCHANGED <<running, inFlight, jobSteps, loop>>
  BY DEF WorkerGet
<1>2. queue \in [Priorities -> Seq(Videos)]
  BY DEF QueueTypeOK
<1> DEFINE h == queue[p][1]
           n == Len(queue[p])
<1>3. /\ n \in Nat \ {0}
      /\ h = Head(queue[p])
      /\ h \in Videos
      /\ queue'[p] = Tail(queue[p])
      /\ \A q \in Priorities : q # p => queue'[q] = queue[q]
      /\ \A q \in Priorities : Len(queue[q]) \in Nat
  BY <1>1, <1>2
<1>4. /\ Len(queue'[p]) = n - 1
      /\ \A i \in 1..(n - 1) : queue'[p][i] = queue[p][i + 1]
  BY <1>1, <1>2, <1>3
<1> HIDE DEF h, n
<1>5. InQueue(h)
  BY <1>3 DEF InQueue, h, n
<1>6. ASSUME NEW v \in Videos PROVE InQueue(v)' <=> InQueue(v) /\ v # h
  <2>1. ASSUME InQueue(v)' PROVE InQueue(v) /\ v # h
    <3>0. PICK q \in Priorities : \E i \in 1..Len(queue'[q]) : queue'[q][i] = v
      BY <2>1 DEF InQueue
    <3>1. PICK i \in 1..Len(queue'[q]) : queue'[q][i] = v
      BY <3>0
    <3>2. CASE q = p
      <4>1. i + 1 \in 1..n /\ i + 1 # 1 /\ queue[p][i + 1] = v /\ 1 \in 1..n
        BY <3>1, <3>2, <1>3, <1>4
      <4>2. QED BY <4>1 DEF InQueue, QueuedOnce, h, n
    <3>3. CASE q # p
      <4>1. i \in 1..Len(queue[q]) /\ queue[q][i] = v /\ 1 \in 1..n
        BY <3>1, <3>3, <1>3
      <4>2. QED BY <3>3, <4>1 DEF InQueue, QueuedOnce, h, n
    <3>4. QED BY <3>2, <3>3
  <2>2. ASSUME InQueue(v), v # h PROVE InQueue(v)'
    <3>0. PICK q \in Priorities : \E i \in 1..Len(queue[q]) : queue[q][i] = v
      BY <2>2 DEF InQueue
    <3>1. PICK i \in 1..Len(queue[q]) : queue[q][i] = v
      BY <3>0
    <3>2. CASE q = p
      <4>1. i # 1
        BY <2>2, <3>1, <3>2 DEF h
      <4>2. i - 1 \in 1..(n - 1) /\ (i - 1) + 1 = i
        BY <3>1, <3>2, <4>1, <1>3 DEF n
      <4>3. i - 1 \in 1..Len(queue'[p]) /\ queue'[p][i - 1] = v
        BY <3>1, <3>2, <4>2, <1>4
      <4>4. QED BY <4>3 DEF InQueue
    <3>3. CASE q # p
      BY <3>1, <3>3, <1>3 DEF InQueue
    <3>4. QED BY <3>2, <3>3
  <2>3. QED BY <2>1, <2>2
<1>7. QueuedOnce'
  <2> SUFFICES ASSUME NEW q \in Priorities, NEW r \in Priorities,
                      NEW i \in 1..Len(queue'[q]), NEW j \in 1..Len(queue'[r]),
                      queue'[q][i] = queue'[r][j]
               PROVE  q = r /\ i = j
    BY DEF QueuedOnce
  <2>1. \A s \in Priorities : \A k \in 1..Len(queue'[s]) :
          \E m \in 1..Len(queue[s]) :
             /\ m = (IF s = p THEN k + 1 ELSE k)
             /\ queue'[s][k] = queue[s][m]
    <3> TAKE s \in Priorities
    <3> TAKE k \in 1..Len(queue'[s])
    <3>1. CASE s = p
      <4>1. k + 1 \in 1..Len(queue[s]) /\ queue'[s][k] = queue[s][k + 1]
        BY <3>1, <1>3, <1>4 DEF n
      <4>2. QED BY <3>1, <4>1
    <3>2. CASE s # p
      BY <3>2, <1>3
    <3>3. QED BY <3>1, <3>2
  <2>2. PICK m \in 1..Len(queue[q]) :
          m = (IF q = p THEN i + 1 ELSE i) /\ queue'[q][i] = queue[q][m]
    BY <2>1
  <2>3. PICK l \in 1..Len(queue[r]) :
          l = (IF r = p THEN j + 1 ELSE j) /\ queue'[r][j] = queue[r][l]
    BY <2>1
  <2>4. q = r /\ m = l
    <3>1. queue[q][m] = queue[r][l]
      BY <2>2, <2>3
    <3>2. QED BY <3>1 DEF QueuedOnce
  <2>5. i \in Int /\ j \in Int
    OBVIOUS
  <2>6. CASE q = p
    <3>1. i + 1 = j + 1
      BY <2>2, <2>3, <2>4, <2>6
    <3>2. QED BY <2>4, <2>5, <3>1
  <2>7. CASE q # p
    BY <2>2, <2>3, <2>4, <2>7
  <2>8. QED BY <2>6, <2>7
<1>8. QED BY <1>1, <1>3, <1>5, <1>6, <1>7

-----------------------------------------------------------------------------
(* The parts of the invariant hold of an empty queue and an idle pool. *)
LEMMA QueueInvInit == QueueInit => QueueInv
<1> SUFFICES ASSUME QueueInit PROVE QueueInv
  OBVIOUS
<1>1. QueueTypeOK
  BY QueueTypeInit
<1>2. \A v : ~InQueue(v)
  BY DEF QueueInit, InQueue, Priorities, Urgent, Normal
<1>3. \A w \in Workers : \A v : ~Runs(w, v) /\ ~Holds(w, v)
  BY DEF QueueInit, Runs, Holds, JobStates, AtTop
<1>4. QueuedOnce
  BY DEF QueueInit, QueuedOnce, Priorities, Urgent, Normal
<1>5. StepsAreRunning
  BY <1>3 DEF QueueInit, StepsAreRunning
<1>6. QED
  BY <1>1, <1>2, <1>3, <1>4, <1>5
  DEF QueueInv, OneJobPerVideo, RunOnce, JobsInFlight, PutIsFresh, HasJob

(* Every step preserves the invariant.  The steps that matter are the put,   *)
(* which PutIsFresh makes safe; the get, which moves one video from the      *)
(* queue to a worker; and the finish, which takes the video out of           *)
(* _in_flight at the moment its only job ends.                               *)
LEMMA QueueInvStep == QueueInv /\ [QueueNext]_queueVars => QueueInv'
<1> SUFFICES ASSUME QueueInv, [QueueNext]_queueVars PROVE QueueInv'
  OBVIOUS
<1>1. QueueTypeOK /\ QueueTypeOK'
  BY QueueTypeStep DEF QueueInv
<1>2. /\ QueuedOnce /\ RunOnce /\ StepsAreRunning /\ JobsInFlight /\ PutIsFresh
  BY DEF QueueInv, OneJobPerVideo
<1> SUFFICES /\ QueuedOnce' /\ RunOnce' /\ StepsAreRunning'
             /\ JobsInFlight' /\ PutIsFresh'
  BY <1>1 DEF QueueInv, OneJobPerVideo
<1>3. ASSUME NEW v \in Videos, NEW p \in Priorities, EnqueueCall(v, p)
      PROVE  QueuedOnce' /\ RunOnce' /\ StepsAreRunning' /\ JobsInFlight' /\ PutIsFresh'
  BY <1>2, <1>3 DEF EnqueueCall, QueuedOnce, RunOnce, StepsAreRunning, JobsInFlight,
                    PutIsFresh, HasJob, InQueue, Runs, Holds
<1>4. CASE EnqueueCheck
  <2>1. /\ UNCHANGED <<queue, worker, inFlight, jobSteps>>
        /\ loop.pc = "check" /\ loop.video \in Videos
        /\ loop'.video = loop.video
        /\ loop'.pc = "put" => loop.video \notin inFlight
        /\ loop'.pc # "add"
    BY <1>1, <1>4 DEF EnqueueCheck, QueueTypeOK
  <2>2. \A v \in Videos : HasJob(v) => v \in inFlight
    BY <1>2, <2>1 DEF JobsInFlight
  <2>3. QED
    BY <1>2, <2>1, <2>2 DEF QueuedOnce, RunOnce, StepsAreRunning, JobsInFlight,
                            PutIsFresh, HasJob, InQueue, Runs, Holds
<1>5. CASE EnqueuePut
  <2>1. CASE Full
    <3>1. UNCHANGED <<queue, worker, inFlight, jobSteps>> /\ loop'.pc = "returned"
          /\ loop.pc = "put"
      BY <1>1, <1>5, <2>1 DEF EnqueuePut, QueueTypeOK
    <3>2. QED
      BY <1>2, <3>1 DEF QueuedOnce, RunOnce, StepsAreRunning, JobsInFlight,
                        PutIsFresh, HasJob, InQueue, Runs, Holds
  <2>2. CASE ~Full
    <3>1. /\ UNCHANGED <<worker, inFlight, jobSteps>>
          /\ loop.pc = "put" /\ loop'.pc = "add"
          /\ loop.video \in Videos /\ loop'.video = loop.video
      BY <1>1, <1>5, <2>2 DEF EnqueuePut, QueueTypeOK
    <3>2. ~HasJob(loop.video)
      BY <1>2, <3>1 DEF PutIsFresh
    <3>3. /\ \A v \in Videos : InQueue(v)' <=> InQueue(v) \/ v = loop.video
          /\ QueuedOnce'
      BY <1>1, <1>2, <1>5, <2>2, <3>2, PutAddsVideo DEF HasJob
    <3>4. \A w, v : (Runs(w, v)' <=> Runs(w, v)) /\ (Holds(w, v)' <=> Holds(w, v))
      BY <3>1 DEF Runs, Holds
    <3>5. RunOnce' /\ StepsAreRunning'
      BY <1>2, <3>1, <3>2, <3>3, <3>4 DEF RunOnce, StepsAreRunning, HasJob
    <3>6. JobsInFlight' /\ PutIsFresh'
      BY <1>2, <3>1, <3>3, <3>4 DEF JobsInFlight, PutIsFresh, HasJob
    <3>7. QED BY <3>3, <3>5, <3>6
  <2>3. QED BY <2>1, <2>2
<1>6. CASE EnqueueAdd
  <2>1. /\ UNCHANGED <<queue, worker, jobSteps>>
        /\ inFlight' = inFlight \cup {loop.video}
        /\ loop'.pc = "returned"
    BY <1>1, <1>6 DEF EnqueueAdd, QueueTypeOK
  <2>2. QED
    BY <1>2, <2>1 DEF QueuedOnce, RunOnce, StepsAreRunning, JobsInFlight,
                      PutIsFresh, HasJob, InQueue, Runs, Holds
<1>7. CASE EnqueueReturn
  BY <1>2, <1>7 DEF EnqueueReturn, NoCall, QueuedOnce, RunOnce, StepsAreRunning,
                    JobsInFlight, PutIsFresh, HasJob, InQueue, Runs, Holds
<1>8. ASSUME NEW w \in Workers, WorkerTop(w) \/ WorkerEmpty(w) \/ WorkerRelease(w)
      PROVE  QueuedOnce' /\ RunOnce' /\ StepsAreRunning' /\ JobsInFlight' /\ PutIsFresh'
  <2>1. /\ UNCHANGED <<queue, inFlight, jobSteps, loop>>
        /\ \A x \in Workers : x # w => worker'[x] = worker[x]
        /\ worker[w].pc \notin JobStates /\ worker'[w].pc \notin JobStates
    BY <1>1, <1>8 DEF WorkerTop, WorkerEmpty, WorkerRelease, AtTop, QueueTypeOK, JobStates
  <2>2. \A x \in Workers : \A v : (Runs(x, v)' <=> Runs(x, v)) /\ (Holds(x, v)' <=> Holds(x, v))
    BY <2>1 DEF Runs, Holds, JobStates
  <2>3. \A v : InQueue(v)' <=> InQueue(v)
    BY <2>1 DEF InQueue
  <2>4. QED
    BY <1>2, <2>1, <2>2, <2>3 DEF QueuedOnce, RunOnce, StepsAreRunning,
                                  JobsInFlight, PutIsFresh, HasJob
<1>9. ASSUME NEW w \in Workers, WorkerGet(w)
      PROVE  QueuedOnce' /\ RunOnce' /\ StepsAreRunning' /\ JobsInFlight' /\ PutIsFresh'
  <2>1. PICK h \in Videos :
           /\ InQueue(h)
           /\ worker' = [worker EXCEPT ![w] = [pc |-> "begin", video |-> h]]
           /\ UNCHANGED <<running, inFlight, jobSteps, loop>>
           /\ \A v \in Videos : InQueue(v)' <=> InQueue(v) /\ v # h
           /\ QueuedOnce'
    BY <1>1, <1>2, <1>9, GetRemovesVideo
  <2>2. worker[w].pc = "get" /\ worker \in [Workers -> [pc : WorkerStates, video : Videos \cup {NoVideo}]]
    BY <1>1, <1>9 DEF WorkerGet, QueueTypeOK
  <2>3. \A x \in Workers, v \in Videos :
          /\ Holds(x, v)' <=> Holds(x, v) \/ (x = w /\ v = h)
          /\ Runs(x, v)' <=> Runs(x, v)
    BY <2>1, <2>2 DEF Holds, Runs, JobStates
  <2>4. \A x \in Workers : ~Holds(x, h)
    BY <1>2, <2>1 DEF RunOnce
  <2>5. \A v \in Videos : HasJob(v)' => HasJob(v)
    BY <2>1, <2>3 DEF HasJob
  <2>6. RunOnce'
    BY <1>2, <2>1, <2>3, <2>4 DEF RunOnce
  <2>7. StepsAreRunning'
    BY <1>2, <2>1, <2>3 DEF StepsAreRunning
  <2>8. JobsInFlight' /\ PutIsFresh'
    BY <1>1, <1>2, <2>1, <2>5 DEF JobsInFlight, PutIsFresh, QueueTypeOK
  <2>9. QED BY <2>1, <2>6, <2>7, <2>8
<1>10. ASSUME NEW w \in Workers, WorkerBegin(w) \/ WorkerEnd(w)
       PROVE  QueuedOnce' /\ RunOnce' /\ StepsAreRunning' /\ JobsInFlight' /\ PutIsFresh'
  <2> DEFINE u == worker[w].video
  <2>1. /\ UNCHANGED <<queue, inFlight, loop>>
        /\ u \in Videos /\ Holds(w, u)
        /\ \A x \in Workers, v \in Videos : Holds(x, v)' <=> Holds(x, v)
    BY <1>1, <1>10 DEF WorkerBegin, WorkerEnd, QueueTypeOK, Holds, JobStates
  <2>2. \A v : InQueue(v)' <=> InQueue(v)
    BY <2>1 DEF InQueue
  <2>3. QueuedOnce' /\ RunOnce' /\ JobsInFlight' /\ PutIsFresh'
    <3>1. QueuedOnce' /\ RunOnce'
      BY <1>2, <2>1, <2>2 DEF QueuedOnce, RunOnce
    <3>2. \A v \in Videos : HasJob(v)' <=> HasJob(v)
      BY <2>1, <2>2 DEF HasJob
    <3>3. JobsInFlight' /\ PutIsFresh'
      BY <1>1, <1>2, <2>1, <3>2 DEF JobsInFlight, PutIsFresh, QueueTypeOK
    <3>4. QED BY <3>1, <3>3
  <2>4. CASE WorkerBegin(w)
    <3>1. \A x \in Workers, v \in Videos : Runs(x, v)' <=> Runs(x, v) \/ (x = w /\ v = u)
      BY <1>1, <2>4 DEF WorkerBegin, QueueTypeOK, Runs
    <3>2. jobSteps' = jobSteps \cup {u}
      BY <2>4 DEF WorkerBegin
    <3>3. StepsAreRunning'
      BY <1>2, <2>1, <3>1, <3>2 DEF StepsAreRunning
    <3>4. QED BY <2>3, <3>3
  <2>5. CASE WorkerEnd(w)
    <3>1. \A x \in Workers, v \in Videos : Runs(x, v)' <=> Runs(x, v) /\ x # w
      BY <1>1, <2>5 DEF WorkerEnd, QueueTypeOK, Runs
    <3>2. jobSteps' = jobSteps \ {u} /\ Runs(w, u)
      BY <2>5 DEF WorkerEnd, Runs
    <3>3. \A x \in Workers, v \in Videos : Runs(x, v) /\ (x = w \/ v = u) => x = w /\ v = u
      BY <1>2, <2>1, <3>2 DEF RunOnce, Runs, Holds, JobStates
    <3>4. StepsAreRunning'
      BY <1>2, <2>1, <3>1, <3>2, <3>3 DEF StepsAreRunning
    <3>5. QED BY <2>3, <3>4
  <2>6. QED BY <1>10, <2>4, <2>5
<1>11. ASSUME NEW w \in Workers, WorkerDiscard(w)
       PROVE  QueuedOnce' /\ RunOnce' /\ StepsAreRunning' /\ JobsInFlight' /\ PutIsFresh'
  <2> DEFINE u == worker[w].video
  <2>1. /\ UNCHANGED <<queue, jobSteps, loop>>
        /\ u \in Videos /\ Holds(w, u)
        /\ inFlight' = inFlight \ {u}
        /\ \A x \in Workers, v \in Videos :
              /\ Holds(x, v)' <=> Holds(x, v) /\ x # w
              /\ Runs(x, v)' <=> Runs(x, v)
    BY <1>1, <1>11 DEF WorkerDiscard, QueueTypeOK, Holds, Runs, JobStates
  <2>2. \A v : InQueue(v)' <=> InQueue(v)
    BY <2>1 DEF InQueue
  <2>3. QueuedOnce' /\ RunOnce' /\ StepsAreRunning'
    BY <1>2, <2>1, <2>2 DEF QueuedOnce, RunOnce, StepsAreRunning
  <2>4. \A v \in Videos : HasJob(v)' => HasJob(v) /\ v # u
    BY <1>2, <2>1, <2>2 DEF HasJob, RunOnce
  <2>5. JobsInFlight' /\ PutIsFresh'
    BY <1>1, <1>2, <2>1, <2>4 DEF JobsInFlight, PutIsFresh, QueueTypeOK
  <2>6. QED BY <2>3, <2>5
<1>12. CASE Stop
  BY <1>2, <1>12 DEF Stop, QueuedOnce, RunOnce, StepsAreRunning, JobsInFlight,
                     PutIsFresh, HasJob, InQueue, Runs, Holds
<1>13. CASE Restart
  <2>1. QueueInit'
    BY <1>13 DEF Restart, QueueInit
  <2>2. QueueInv'
    BY <2>1, QueueInvInit, PTL
  <2>3. QED BY <2>2 DEF QueueInv, OneJobPerVideo
<1>14. CASE UNCHANGED queueVars
  BY <1>2, <1>14 DEF queueVars, QueuedOnce, RunOnce, StepsAreRunning, JobsInFlight,
                     PutIsFresh, HasJob, InQueue, Runs, Holds
<1>15. QED
  BY <1>3, <1>4, <1>5, <1>6, <1>7, <1>8, <1>9, <1>10, <1>11, <1>12, <1>13, <1>14
  DEF QueueNext, LoopStep, WorkerStep

(* QueueInv is an invariant of the queue. *)
THEOREM QueueInvariant == QueueSpec => []QueueInv
<1>1. QueueInit => QueueInv
  BY QueueInvInit
<1>2. QueueInv /\ [QueueNext]_queueVars => QueueInv'
  BY QueueInvStep
<1>3. QED
  BY <1>1, <1>2, PTL DEF QueueSpec

(* A video has at most one job, waiting or running, at any time, and the     *)
(* steps shown to the administrator are those of the running jobs.           *)
THEOREM OneJobAlways == QueueSpec => []OneJobPerVideo
<1>1. QueueInv => OneJobPerVideo
  BY DEF QueueInv
<1>2. QED
  BY <1>1, QueueInvariant, PTL

(* A job that waits or runs keeps its video in flight, so that enqueue's     *)
(* check of _in_flight never misses one.                                     *)
THEOREM JobsAlwaysInFlight == QueueSpec => []JobsInFlight
<1>1. QueueInv => JobsInFlight
  BY DEF QueueInv
<1>2. QED
  BY <1>1, QueueInvariant, PTL

(* What enqueue's check has seen still holds when its put, in a later step   *)
(* of the event loop, takes effect: no job of the video came in between.     *)
THEOREM PutAlwaysFresh == QueueSpec => []PutIsFresh
<1>1. QueueInv => PutIsFresh
  BY DEF QueueInv
<1>2. QED
  BY <1>1, QueueInvariant, PTL

-----------------------------------------------------------------------------
(* Refinement of JobBoard. *)
Running(v) == \E w \in Workers : Holds(w, v)

LEMMA BoardOfStep == QueueInv /\ [QueueNext]_queueVars => [Board!BoardNext]_boardOf
<1> SUFFICES ASSUME QueueInv, [QueueNext]_queueVars
             PROVE  Board!BoardNext \/ boardOf' = boardOf
  OBVIOUS
<1>1. QueueTypeOK /\ QueuedOnce /\ RunOnce /\ PutIsFresh
  BY DEF QueueInv, OneJobPerVideo
<1>2. /\ boardOf = [v \in Videos |-> IF Running(v) THEN "running"
                                    ELSE IF InQueue(v) THEN "waiting" ELSE "idle"]
      /\ boardOf' = [v \in Videos |-> IF Running(v)' THEN "running"
                                     ELSE IF InQueue(v)' THEN "waiting" ELSE "idle"]
  BY DEF boardOf, Running
<1>3. ASSUME \A v \in Videos : InQueue(v)' <=> InQueue(v),
             \A v \in Videos : Running(v)' <=> Running(v)
      PROVE  boardOf' = boardOf
  BY <1>2, <1>3
<1>4. ASSUME UNCHANGED <<queue, worker>> PROVE boardOf' = boardOf
  BY <1>3, <1>4 DEF InQueue, Running, Holds
<1>5. ASSUME UNCHANGED queue, NEW w \in Workers,
             \A x \in Workers : \A v : Holds(x, v)' <=> Holds(x, v)
      PROVE  boardOf' = boardOf
  BY <1>3, <1>5 DEF InQueue, Running
<1>6. ASSUME NEW v \in Videos, NEW p \in Priorities, EnqueueCall(v, p)
      PROVE  boardOf' = boardOf
  BY <1>4, <1>6 DEF EnqueueCall
<1>7. CASE EnqueueCheck \/ EnqueueAdd \/ EnqueueReturn \/ Stop
  BY <1>4, <1>7 DEF EnqueueCheck, EnqueueAdd, EnqueueReturn, Stop
<1>8. CASE EnqueuePut
  <2>1. CASE Full
    BY <1>4, <1>8, <2>1 DEF EnqueuePut
  <2>2. CASE ~Full
    <3> DEFINE e == loop.video
    <3>1. UNCHANGED worker /\ e \in Videos /\ ~InQueue(e) /\ ~Running(e)
      BY <1>1, <1>8, <2>2 DEF EnqueuePut, QueueTypeOK, PutIsFresh, HasJob, Running
    <3>2. \A v \in Videos : InQueue(v)' <=> InQueue(v) \/ v = e
      BY <1>1, <1>8, <2>2, PutAddsVideo
    <3>3. \A v \in Videos : Running(v)' <=> Running(v)
      BY <3>1 DEF Running, Holds
    <3>4. boardOf[e] = "idle" /\ boardOf' = [boardOf EXCEPT ![e] = "waiting"]
      BY <1>2, <3>1, <3>2, <3>3
    <3>5. QED BY <3>1, <3>4 DEF Board!BoardNext, Board!Accept
  <2>3. QED BY <2>1, <2>2
<1>9. ASSUME NEW w \in Workers, WorkerTop(w) \/ WorkerEmpty(w) \/ WorkerRelease(w)
      PROVE  boardOf' = boardOf
  <2>1. UNCHANGED queue
    BY <1>9 DEF WorkerTop, WorkerEmpty, WorkerRelease
  <2>2. /\ \A x \in Workers : x # w => worker'[x] = worker[x]
        /\ worker[w].pc \notin JobStates /\ worker'[w].pc \notin JobStates
    BY <1>1, <1>9 DEF WorkerTop, WorkerEmpty, WorkerRelease, AtTop, QueueTypeOK, JobStates
  <2>3. \A x \in Workers : \A v : Holds(x, v)' <=> Holds(x, v)
    BY <2>2 DEF Holds, JobStates
  <2>4. QED BY <1>5, <2>1, <2>3
<1>10. ASSUME NEW w \in Workers, WorkerBegin(w) \/ WorkerEnd(w)
       PROVE  boardOf' = boardOf
  <2>1. UNCHANGED queue
    BY <1>10 DEF WorkerBegin, WorkerEnd
  <2>2. \A x \in Workers : \A v : Holds(x, v)' <=> Holds(x, v)
    BY <1>1, <1>10 DEF WorkerBegin, WorkerEnd, QueueTypeOK, Holds, JobStates
  <2>3. QED BY <1>5, <2>1, <2>2
<1>11. ASSUME NEW w \in Workers, WorkerGet(w) PROVE Board!BoardNext
  <2>1. PICK h \in Videos :
           /\ InQueue(h)
           /\ worker' = [worker EXCEPT ![w] = [pc |-> "begin", video |-> h]]
           /\ \A v \in Videos : InQueue(v)' <=> InQueue(v) /\ v # h
    BY <1>1, <1>11, GetRemovesVideo
  <2>2. worker[w].pc = "get" /\ worker \in [Workers -> [pc : WorkerStates, video : Videos \cup {NoVideo}]]
    BY <1>1, <1>11 DEF WorkerGet, QueueTypeOK
  <2>3. \A v \in Videos : Running(v)' <=> Running(v) \/ v = h
    <3>1. \A x \in Workers, v \in Videos : Holds(x, v)' <=> Holds(x, v) \/ (x = w /\ v = h)
      BY <2>1, <2>2 DEF Holds, JobStates
    <3>2. QED BY <3>1 DEF Running
  <2>4. ~Running(h)
    BY <1>1, <2>1 DEF RunOnce, Running
  <2>5. boardOf[h] = "waiting" /\ boardOf' = [boardOf EXCEPT ![h] = "running"]
    BY <1>2, <2>1, <2>3, <2>4
  <2>6. QED BY <2>5 DEF Board!BoardNext, Board!Take
<1>12. ASSUME NEW w \in Workers, WorkerDiscard(w) PROVE Board!BoardNext
  <2> DEFINE u == worker[w].video
  <2>1. /\ UNCHANGED queue
        /\ u \in Videos /\ Holds(w, u)
        /\ \A x \in Workers, v \in Videos : Holds(x, v)' <=> Holds(x, v) /\ x # w
    BY <1>1, <1>12 DEF WorkerDiscard, QueueTypeOK, Holds, JobStates
  <2>2. \A v \in Videos : InQueue(v)' <=> InQueue(v)
    BY <2>1 DEF InQueue
  <2>3. \A v \in Videos : Running(v)' <=> Running(v) /\ v # u
    BY <1>1, <2>1 DEF RunOnce, Running, Holds
  <2>4. Running(u) /\ ~InQueue(u)
    BY <1>1, <2>1 DEF RunOnce, Running
  <2>5. boardOf[u] = "running" /\ boardOf' = [boardOf EXCEPT ![u] = "idle"]
    BY <1>2, <2>1, <2>2, <2>3, <2>4
  <2>6. QED BY <2>1, <2>5 DEF Board!BoardNext, Board!Done
<1>13. CASE Restart
  <2>1. \A v \in Videos : ~InQueue(v)' /\ ~Running(v)'
    BY <1>13 DEF Restart, InQueue, Running, Holds, JobStates, AtTop, Priorities, Urgent, Normal
  <2>2. boardOf' = [v \in Videos |-> "idle"]
    BY <1>2, <2>1
  <2>3. QED BY <2>2 DEF Board!BoardNext, Board!Forget
<1>14. CASE UNCHANGED queueVars
  BY <1>4, <1>14 DEF queueVars
<1>15. QED
  BY <1>6, <1>7, <1>8, <1>9, <1>10, <1>11, <1>12, <1>13, <1>14
  DEF QueueNext, LoopStep, WorkerStep

(* The queue implements the job board: a job is accepted only for a video    *)
(* that has none, waits, is run once by one worker and is then forgotten.    *)
THEOREM QueueImplementsBoard == QueueSpec => ImplementsBoard
<1>1. QueueInit => Board!BoardInit
  <2> SUFFICES ASSUME QueueInit PROVE boardOf = [v \in Videos |-> "idle"]
    BY DEF Board!BoardInit
  <2>1. \A v \in Videos : ~InQueue(v) /\ \A w \in Workers : ~Holds(w, v)
    BY DEF QueueInit, InQueue, Holds, JobStates, AtTop, Priorities, Urgent, Normal
  <2>2. QED BY <2>1 DEF boardOf
<1>2. QueueInv /\ [QueueNext]_queueVars => [Board!BoardNext]_boardOf
  BY BoardOfStep
<1>3. QED
  BY <1>1, <1>2, QueueInvariant, PTL DEF QueueSpec, ImplementsBoard, Board!BoardSpec
=============================================================================
