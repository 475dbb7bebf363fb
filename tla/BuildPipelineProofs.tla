------------------------- MODULE BuildPipelineProofs -------------------------
(***************************************************************************)
(* Machine-checked proofs about BuildPipeline, for every set of requests,  *)
(* every capacity, every number of restarts and with every failure.        *)
(***************************************************************************)
EXTENDS BuildPipeline, SequenceTheorems, TLAPS

(***************************************************************************)
(* The inductive invariant.  None of the safety properties is inductive    *)
(* alone: that a done job stays done rests on which task steps and handler *)
(* steps may still write its row, and those on where its request is.       *)
(***************************************************************************)
Holding == {"caching", "marking"}       \* task steps that own the mutex
Running == {"building", "hashing", "failing", "storing"} \cup Holding

\* The mutex is held exactly between the first and the last statement.
LockInv == \A j \in Requests : lock = j <=> task[j] \in Holding

\* Where a task is bounds the status of its row.
TaskInv ==
  \A j \in Requests :
    /\ task[j] = "none" => status[j] \in {"none", "queued", "failed"}
    /\ task[j] = "spawned" => status[j] = "queued"
    /\ task[j] \in Running => status[j] = "building"
    /\ task[j] \in {"finishing", "ended"} => status[j] \in Terminal

\* Until its handler has answered, a request has no task and no answer.
HandlerInv ==
  \A r \in Requests :
    /\ handler[r] # "replied" => task[r] = "none" /\ reply[r].code = "pending"
    /\ handler[r] \in {"authenticate", "lookup", "answer", "record"} =>
         status[r] = "none"
    /\ handler[r] \in {"enqueue", "reject"} => status[r] = "queued"

\* The job that a handler is about to answer with is another one's, done.
ChosenInv ==
  \A r \in Requests :
    handler[r] = "answer" => /\ reply[r].id \in Requests \ {r}
                             /\ status[reply[r].id] = "done"
                             /\ req[reply[r].id].key = req[r].key

\* Rows and files appear in the order archive, artifact row, done.
StoreInv ==
  \A j \in Requests :
    /\ task[j] \in {"storing"} \cup Holding => archive[j] = "present"
    /\ task[j] \in Holding => j \in artifact
    /\ j \in artifact => archive[j] # "absent"
    /\ status[j] = "done" => j \in artifact
    /\ archive[j] = "removed" => status[j] = "done"

\* Without faults a cache entry precedes its done row by one held step.
FaultFreeInv ==
  ~MayFail /\ MaxRestarts = 0 =>
    /\ restarts = 0
    /\ \A k \in CacheKeys : cache[k] # NoJob => \/ status[cache[k]] = "done"
                                                \/ task[cache[k]] = "marking"

\* The part of FullIsNeverBuilt that does not follow from the queue's own.
FullInv ==
  \A r \in Requests :
    reply[r].code = "full" =>
      /\ task[r] = "none"
      /\ status[r] = "failed" \/ (MayFail /\ status[r] = "queued")

\* Webhooks are scheduled only for jobs whose row is terminal.
NotifiedIsTerminal == \A j \in notified : status[j] \in Terminal

IInv == /\ TypeOK
        /\ LockInv
        /\ TaskInv
        /\ HandlerInv
        /\ ChosenInv
        /\ StoreInv
        /\ QueueHoldsWaitingJobs
        /\ CacheNamesArtifact
        /\ CachedReplyStaysDone
        /\ FullInv
        /\ NotifiedIsTerminal
        /\ FaultFreeInv

(***************************************************************************)
(* Type correctness: every variable of the pipeline keeps its type.        *)
(***************************************************************************)
LEMMA TypeStep == TypeOK /\ [Next]_vars => TypeOK'
<1> SUFFICES ASSUME TypeOK, [Next]_vars PROVE TypeOK'
  OBVIOUS
<1> USE RequestsAssumption, BoundAssumption, TypesAssumption
<1> USE DEF TypeOK, HandlerAt, TaskAt, Reply, SetStatus, handlerVars, memoryVars,
            diskVars
<1>0. /\ {"lookup", "answer", "record"} \subseteq HandlerSteps
      /\ {"enqueue", "reject", "replied", "lost"} \subseteq HandlerSteps
      /\ {"pending", "refused", "accepted", "cached", "full", "error"} \subseteq Codes
      /\ {"queued", "building", "done", "failed"} \subseteq Statuses
      /\ NoJob \notin Requests
  BY DEF HandlerSteps, Codes, Statuses, NoJob
<1>00. /\ {"spawned", "building", "hashing", "failing", "storing"} \subseteq TaskSteps
       /\ {"caching", "marking", "finishing", "ended", "aborted", "lost"} \subseteq TaskSteps
  BY DEF TaskSteps
<1>1. ASSUME NEW r \in Requests, Authenticate(r) PROVE TypeOK'
  <2>1. handler' \in [Requests -> HandlerSteps]
    BY <1>0, <1>1 DEF Authenticate
  <2>2. reply' \in [Requests -> [code : Codes, id : Requests \cup {NoJob}]]
    BY <1>0, <1>1 DEF Authenticate
  <2>3. UNCHANGED <<req, memoryVars, diskVars, notified, restarts>>
    BY <1>1 DEF Authenticate
  <2> QED
    BY <2>1, <2>2, <2>3
<1>2. ASSUME NEW r \in Requests, CacheHit(r) PROVE TypeOK'
  BY <1>0, <1>2 DEF CacheHit
<1>3. ASSUME NEW r \in Requests, CacheMiss(r) PROVE TypeOK'
  BY <1>0, <1>3 DEF CacheMiss
<1>31. ASSUME NEW r \in Requests, Answer(r) PROVE TypeOK'
  BY <1>0, <1>31 DEF Answer
<1>4. ASSUME NEW r \in Requests, RecordJob(r) PROVE TypeOK'
  BY <1>0, <1>4 DEF RecordJob
<1>5. ASSUME NEW r \in Requests, Enqueue(r) PROVE TypeOK'
  <2>1. queue' \in Seq(Requests)
    <3>1. queue' = Append(queue, r) \/ queue' = queue
      BY <1>5 DEF Enqueue
    <3>2. Append(queue, r) \in Seq(Requests)
      BY AppendProperties
    <3> QED
      BY <3>1, <3>2
  <2>2. reply' \in [Requests -> [code : Codes, id : Requests \cup {NoJob}]]
    BY <1>0, <1>5 DEF Enqueue
  <2>3. handler' \in [Requests -> HandlerSteps]
    BY <1>0, <1>5 DEF Enqueue
  <2>4. UNCHANGED <<req, task, lock, diskVars, notified, restarts>>
    BY <1>5 DEF Enqueue
  <2> QED
    BY <2>1, <2>2, <2>3, <2>4
<1>6. ASSUME NEW r \in Requests, RejectFull(r) PROVE TypeOK'
  <2>1. handler' \in [Requests -> HandlerSteps]
    BY <1>0, <1>6 DEF RejectFull
  <2>2. reply' \in [Requests -> [code : Codes, id : Requests \cup {NoJob}]]
    BY <1>0, <1>6 DEF RejectFull
  <2>3. status' \in [Requests -> Statuses]
    BY <1>0, <1>6 DEF RejectFull
  <2>4. UNCHANGED <<req, memoryVars, artifact, cache, archive, workdir, notified,
                    restarts>>
    BY <1>6 DEF RejectFull
  <2> QED
    BY <2>1, <2>2, <2>3, <2>4
<1>7. ASSUME Dispatch PROVE TypeOK'
  BY <1>00, <1>7 DEF Dispatch
<1>8. ASSUME NEW j \in Requests, TaskStep(j) PROVE TypeOK'
  <2>1. \/ task' = task
        \/ \E s \in TaskSteps : task' = [task EXCEPT ![j] = s]
    BY <1>00, <1>8
       DEF TaskStep, StartBuild, RunBuild, Panic, BuildFails, BuildSucceeds, BuildAborts,
           HashArchive, InsertArtifact, InsertCacheEntry, MarkDone, MarkFailed, Finish,
           Abort
  <2>2. status' = status \/ \E s \in Statuses : status' = [status EXCEPT ![j] = s]
    BY <1>0, <1>8
       DEF TaskStep, StartBuild, RunBuild, Panic, BuildFails, BuildSucceeds, BuildAborts,
           HashArchive, InsertArtifact, InsertCacheEntry, MarkDone, MarkFailed, Finish,
           Abort
  <2>3. /\ lock' \in {lock, j, NoJob} /\ notified' \in {notified, notified \cup {j}}
        /\ workdir' \in {workdir, workdir \cup {j}, workdir \ {j}}
        /\ artifact' \in {artifact, artifact \cup {j}}
    BY <1>8
       DEF TaskStep, StartBuild, RunBuild, Panic, BuildFails, BuildSucceeds, BuildAborts,
           HashArchive, InsertArtifact, InsertCacheEntry, MarkDone, MarkFailed, Finish,
           Abort
  <2>4. /\ archive' \in {archive, [archive EXCEPT ![j] = "present"]}
        /\ cache' \in {cache, [cache EXCEPT ![req[j].key] = j]}
        /\ UNCHANGED <<handlerVars, queue, restarts>>
    BY <1>8
       DEF TaskStep, StartBuild, RunBuild, Panic, BuildFails, BuildSucceeds, BuildAborts,
           HashArchive, InsertArtifact, InsertCacheEntry, MarkDone, MarkFailed, Finish,
           Abort
  <2>5. task' \in [Requests -> TaskSteps] /\ status' \in [Requests -> Statuses]
    BY <2>1, <2>2
  <2>6. /\ archive' \in [Requests -> {"absent", "present", "removed"}]
        /\ cache' \in [CacheKeys -> Requests \cup {NoJob}]
    BY <2>4
  <2>7. /\ lock' \in Requests \cup {NoJob} /\ notified' \subseteq Requests
        /\ workdir' \subseteq Requests /\ artifact' \subseteq Requests
    BY <2>3
  <2> QED
    BY <2>4, <2>5, <2>6, <2>7
<1>18. ASSUME Restart PROVE TypeOK'
  BY <1>0, <1>00, <1>18 DEF Restart
<1>19. ASSUME NEW j \in Requests, RemoveArchive(j) PROVE TypeOK'
  BY <1>19 DEF RemoveArchive
<1>20. CASE UNCHANGED vars
  BY <1>20 DEF vars
<1> HIDE DEF TypeOK
<1> QED
  BY <1>1, <1>2, <1>3, <1>31, <1>4, <1>5, <1>6, <1>7, <1>8, <1>18, <1>19, <1>20
     DEF Next, HandlerStep

(***************************************************************************)
(* What a handler's step may change: its own request, from a position      *)
(* where no task can know the job, and the tail of the queue.              *)
(***************************************************************************)
HandlerEffect(r) ==
  /\ UNCHANGED <<req, task, lock, artifact, cache, archive, notified, restarts>>
  /\ handler[r] # "replied"
  /\ \A i \in Requests \ {r} : /\ handler'[i] = handler[i]
                                /\ reply'[i] = reply[i]
                                /\ status'[i] = status[i]
  /\ status[r] \in {"none", "queued"}
  /\ status'[r] \in {"none", "queued", "failed"}
  /\ \/ queue' = queue
     \/ /\ Len(queue) < Capacity
        /\ queue' = Append(queue, r)
        /\ status'[r] = "queued"
        /\ reply'[r] = [code |-> "accepted", id |-> r]
  /\ handler'[r] = "answer" \/ reply'[r].code = "cached" =>
       /\ reply'[r].id \in Requests
       /\ status[reply'[r].id] = "done"
       /\ req[reply'[r].id].key = req[r].key
  /\ reply'[r].code = "full" => \/ status'[r] = "failed"
                                \/ MayFail /\ status'[r] = "queued"

(***************************************************************************)
(* What a step of a handler may do to the shared state: it touches the row *)
(* of its own request only, appends at most that request, and answers from *)
(* the cache only with a job that is done.                                 *)
(***************************************************************************)
LEMMA HandlerStepEffect ==
  ASSUME IInv, NEW r \in Requests, Authenticate(r) \/ HandlerStep(r)
  PROVE  HandlerEffect(r) /\ HandlerInv'
<1> USE DEF IInv, TypeOK, HandlerInv, HandlerEffect, HandlerAt, Reply,
            SetStatus, handlerVars, memoryVars, diskVars, NoJob
<1>1. CASE Authenticate(r)
  BY <1>1 DEF Authenticate
<1>2. CASE CacheHit(r)
  BY <1>2, RequestsAssumption DEF CacheHit, Servable, CacheNamesArtifact
<1>3. CASE CacheMiss(r)
  BY <1>3 DEF CacheMiss
<1>31. CASE Answer(r)
  BY <1>31 DEF Answer, ChosenInv
<1>4. CASE RecordJob(r)
  BY <1>4 DEF RecordJob
<1>5. CASE Enqueue(r)
  BY <1>5 DEF Enqueue
<1>6. CASE RejectFull(r)
  BY <1>6 DEF RejectFull
<1> QED
  BY <1>1, <1>2, <1>3, <1>31, <1>4, <1>5, <1>6 DEF HandlerStep

(***************************************************************************)
(* What a step of a build task may change: its own job, whose request was  *)
(* answered, and never a status that is already terminal.                  *)
(***************************************************************************)
TaskEffect(j) ==
  /\ UNCHANGED <<handlerVars, queue, restarts>>
  /\ task[j] # "none" /\ task'[j] # "none"
  /\ \A i \in Requests \ {j} : /\ task'[i] = task[i]
                                /\ status'[i] = status[i]
  /\ status[j] \in Terminal => status'[j] = status[j]
  /\ notified' = notified \/ (/\ notified' = notified \cup {j}
                              /\ status[j] \in Terminal /\ status'[j] = status[j])
  /\ artifact \subseteq artifact'
  /\ \/ cache' = cache
     \/ /\ cache' = [cache EXCEPT ![req[j].key] = j]
        /\ task'[j] = "marking"
  /\ ~MayFail /\ task[j] = "marking" => status'[j] = "done"

(***************************************************************************)
(* What a step of process_job may do: it leaves the requests and their     *)
(* answers alone, moves one task and one row, and keeps artifact rows.     *)
(***************************************************************************)
LEMMA TaskStepEffect ==
  ASSUME IInv, NEW j \in Requests, TaskStep(j)
  PROVE  TaskEffect(j) /\ LockInv' /\ TaskInv' /\ StoreInv'
<1> USE DEF IInv, TypeOK, LockInv, TaskInv, StoreInv, TaskEffect, TaskAt, Abort,
            SetStatus, handlerVars, memoryVars, diskVars, NoJob, Terminal,
            Holding, Running, Unlocked
<1> USE RequestsAssumption
<1>1. CASE StartBuild(j)
  BY <1>1 DEF StartBuild
<1>2. CASE BuildFails(j)
  BY <1>2 DEF BuildFails
<1>3. CASE BuildSucceeds(j)
  BY <1>3 DEF BuildSucceeds
<1>4. CASE BuildAborts(j) \/ Panic(j)
  BY <1>4 DEF BuildAborts, Panic
<1>5. CASE HashArchive(j)
  BY <1>5 DEF HashArchive
<1>6. CASE InsertArtifact(j)
  BY <1>6 DEF InsertArtifact
<1>7. CASE InsertCacheEntry(j)
  <2>1. CASE Abort(j, "caching")
    BY <2>1
  <2>2. CASE ~Abort(j, "caching")
    <3>1. /\ TaskAt(j, "caching", "marking")
          /\ cache' = [cache EXCEPT ![req[j].key] = j]
          /\ UNCHANGED <<handlerVars, queue, lock, status, artifact, archive,
                         workdir, notified, restarts>>
      BY <1>7, <2>2 DEF InsertCacheEntry
    <3>2. TaskEffect(j)
      BY <3>1
    <3>3. LockInv' /\ TaskInv' /\ StoreInv'
      BY <3>1
    <3> QED
      BY <3>2, <3>3
  <2> QED
    BY <2>1, <2>2
<1>8. CASE MarkDone(j)
  BY <1>8 DEF MarkDone
<1>9. CASE MarkFailed(j)
  BY <1>9 DEF MarkFailed
<1>10. CASE Finish(j)
  BY <1>10 DEF Finish
<1> QED
  BY <1>1, <1>2, <1>3, <1>4, <1>5, <1>6, <1>7, <1>8, <1>9, <1>10
     DEF TaskStep, RunBuild

(***************************************************************************)
(* The dispatcher starts one accepted job that has no task yet.            *)
(***************************************************************************)
DispatchEffect(h) ==
  /\ task[h] = "none" /\ status[h] = "queued"
  /\ reply[h] = [code |-> "accepted", id |-> h]
  /\ task' = [task EXCEPT ![h] = "spawned"]
  /\ UNCHANGED <<handlerVars, lock, diskVars, notified, restarts>>

(***************************************************************************)
(* The dispatcher moves the head of the queue to a task of its own; the    *)
(* job it takes was waiting.                                               *)
(***************************************************************************)
LEMMA DispatchStepEffect ==
  ASSUME IInv, Dispatch
  PROVE  /\ \E h \in Requests : DispatchEffect(h)
         /\ QueueHoldsWaitingJobs'
<1> USE DEF IInv, TypeOK, NoJob
<1> DEFINE h == Head(queue)
<1>1. /\ h \in Requests
      /\ Len(queue) \in Nat \ {0}
      /\ h = queue[1]
  BY EmptySeq, HeadTailProperties DEF Dispatch
<1>2. /\ Len(Tail(queue)) = Len(queue) - 1
      /\ \A i \in 1 .. Len(Tail(queue)) : Tail(queue)[i] = queue[i + 1]
  BY HeadTailProperties DEF Dispatch
<1>3. DispatchEffect(h)
  BY <1>1 DEF Dispatch, DispatchEffect, QueueHoldsWaitingJobs
<1>4. \A i \in 1 .. Len(queue') : /\ i + 1 \in 1 .. Len(queue)
                                  /\ queue'[i] = queue[i + 1]
                                  /\ queue'[i] # h
  <2> SUFFICES ASSUME NEW i \in 1 .. Len(queue')
               PROVE  /\ i + 1 \in 1 .. Len(queue)
                      /\ queue'[i] = queue[i + 1]
                      /\ queue'[i] # h
    OBVIOUS
  <2>1. queue' = Tail(queue)
    BY DEF Dispatch
  <2>2. i + 1 \in 1 .. Len(queue) /\ queue'[i] = queue[i + 1]
    BY <1>1, <1>2, <2>1
  <2>3. 1 \in 1 .. Len(queue) /\ i + 1 # 1
    BY <1>1, <2>2
  <2>4. queue[i + 1] # queue[1]
    BY <2>2, <2>3 DEF QueueHoldsWaitingJobs
  <2> QED
    BY <1>1, <2>2, <2>4
<1>5. QueueHoldsWaitingJobs'
  BY <1>1, <1>2, <1>3, <1>4, ElementOfSeq, CapacityAssumption
     DEF Dispatch, DispatchEffect, handlerVars, diskVars, QueueHoldsWaitingJobs
<1> QED
  BY <1>1, <1>3, <1>5

(***************************************************************************)
(* Every element of the queue is an accepted request without a task.       *)
(***************************************************************************)
LEMMA QueueElements ==
  ASSUME TypeOK, QueueHoldsWaitingJobs
  PROVE  /\ Len(queue) \in Nat
         /\ \A i \in 1 .. Len(queue) : /\ queue[i] \in Requests
                                      /\ task[queue[i]] = "none"
                                      /\ reply[queue[i]].code = "accepted"
<1>1. Len(queue) \in Nat /\ \A i \in 1 .. Len(queue) : queue[i] \in Requests
  BY LenProperties, ElementOfSeq DEF TypeOK
<1>2. ASSUME NEW i \in 1 .. Len(queue)
      PROVE  /\ task[queue[i]] = "none"
             /\ reply[queue[i]] = [code |-> "accepted", id |-> queue[i]]
  BY DEF QueueHoldsWaitingJobs
<1>3. ASSUME NEW i \in 1 .. Len(queue) PROVE reply[queue[i]].code = "accepted"
  <2>1. \A a, b : a = [code |-> "accepted", id |-> b] => a.code = "accepted"
    OBVIOUS
  <2> QED
    BY <1>2, <2>1, Zenon
<1> QED
  BY <1>1, <1>2, <1>3

(***************************************************************************)
(* The invariant is inductive.                                             *)
(***************************************************************************)
LEMMA HandlerStepKeepsIInv ==
  ASSUME IInv, TypeOK', NEW r \in Requests, Authenticate(r) \/ HandlerStep(r)
  PROVE  IInv'
<1>1. HandlerEffect(r) /\ HandlerInv'
  BY HandlerStepEffect
<1> USE <1>1 DEF IInv, TypeOK, HandlerEffect
<1>2. LockInv' /\ TaskInv' /\ StoreInv'
  BY DEF LockInv, TaskInv, StoreInv, HandlerInv, Terminal, Holding, Running
<1>3. QueueHoldsWaitingJobs'
  <2>1. \A i \in 1 .. Len(queue) : queue[i] \in Requests /\ queue[i] # r
    <3>1. reply[r].code = "pending"
      BY DEF HandlerInv
    <3> QED
      BY <3>1, QueueElements
  <2>2. CASE queue' = queue
    BY <2>1, <2>2 DEF QueueHoldsWaitingJobs
  <2>3. CASE queue' = Append(queue, r) /\ Len(queue) < Capacity
    <3>1. /\ Len(queue) \in Nat
          /\ Len(queue') = Len(queue) + 1
          /\ \A i \in 1 .. Len(queue) : queue'[i] = queue[i]
          /\ queue'[Len(queue) + 1] = r
      BY <2>3, AppendProperties, LenProperties
    <3>2. /\ task'[r] = "none"
          /\ status'[r] = "queued"
          /\ reply'[r] = [code |-> "accepted", id |-> r]
      BY <2>3, <3>1 DEF HandlerInv
    <3>3. \A i \in 1 .. Len(queue') :
            \/ i = Len(queue) + 1
            \/ i \in 1 .. Len(queue) /\ queue'[i] = queue[i]
      BY <3>1
    <3>4. Len(queue') <= Capacity
      BY <2>3, <3>1, CapacityAssumption
    <3>5. ASSUME NEW i \in 1 .. Len(queue')
          PROVE  /\ status'[queue'[i]] = "queued"
                 /\ task'[queue'[i]] = "none"
                 /\ reply'[queue'[i]] = [code |-> "accepted", id |-> queue'[i]]
      <4>1. CASE i = Len(queue) + 1
        BY <3>1, <3>2, <4>1
      <4>2. CASE i \in 1 .. Len(queue) /\ queue'[i] = queue[i]
        BY <2>1, <4>2 DEF QueueHoldsWaitingJobs
      <4> QED
        BY <3>3, <4>1, <4>2
    <3>6. ASSUME NEW i \in 1 .. Len(queue'), NEW k \in 1 .. Len(queue'),
                 queue'[i] = queue'[k]
          PROVE  i = k
      <4>1. CASE i \in 1 .. Len(queue) /\ k \in 1 .. Len(queue)
        <5>1. queue[i] = queue[k]
          BY <3>1, <3>6, <4>1
        <5>2. \A m, n \in 1 .. Len(queue) : queue[m] = queue[n] => m = n
          BY DEF QueueHoldsWaitingJobs
        <5> QED
          BY ONLY <4>1, <5>1, <5>2, Zenon
      <4>2. CASE i = Len(queue) + 1 /\ k \in 1 .. Len(queue)
        BY <2>1, <3>1, <3>6, <4>2
      <4>3. CASE k = Len(queue) + 1 /\ i \in 1 .. Len(queue)
        BY <2>1, <3>1, <3>6, <4>3
      <4> QED
        BY <3>3, <4>1, <4>2, <4>3
    <3> QED
      BY <3>4, <3>5, <3>6 DEF QueueHoldsWaitingJobs
  <2> QED
    BY <2>2, <2>3
<1>4. CacheNamesArtifact' /\ NotifiedIsTerminal'
  BY DEF CacheNamesArtifact, NotifiedIsTerminal, Terminal
<1>5. CachedReplyStaysDone' /\ FullInv' /\ ChosenInv'
  <2>1. \A i \in Requests : status[i] = "done" => i # r /\ status'[i] = "done"
    OBVIOUS
  <2>2. task[r] = "none"
    BY DEF HandlerInv
  <2>3. CachedReplyStaysDone'
    <3> SUFFICES ASSUME NEW i \in Requests, reply'[i].code = "cached"
                 PROVE  /\ reply'[i].id \in Requests \ {i}
                        /\ status'[reply'[i].id] = "done"
                        /\ req'[reply'[i].id].key = req'[i].key
      BY DEF CachedReplyStaysDone
    <3>1. CASE i = r
      BY <2>1, <3>1
    <3>2. CASE i # r
      BY <2>1, <3>2 DEF CachedReplyStaysDone
    <3> QED
      BY <3>1, <3>2
  <2>4. FullInv'
    BY <2>2 DEF FullInv
  <2>5. ChosenInv'
    <3> SUFFICES ASSUME NEW i \in Requests, handler'[i] = "answer"
                 PROVE  /\ reply'[i].id \in Requests \ {i}
                        /\ status'[reply'[i].id] = "done"
                        /\ req'[reply'[i].id].key = req'[i].key
      BY DEF ChosenInv
    <3>1. CASE i = r
      BY <2>1, <3>1
    <3>2. CASE i # r
      BY <2>1, <3>2 DEF ChosenInv
    <3> QED
      BY <3>1, <3>2
  <2> QED
    BY <2>3, <2>4, <2>5
<1>6. FaultFreeInv'
  BY RequestsAssumption DEF FaultFreeInv, NoJob
<1> QED
  BY <1>2, <1>3, <1>4, <1>5, <1>6

(***************************************************************************)
(* A step of process_job keeps the invariant.                              *)
(***************************************************************************)
LEMMA TaskStepKeepsIInv ==
  ASSUME IInv, TypeOK', NEW j \in Requests, TaskStep(j)
  PROVE  IInv'
<1>1. TaskEffect(j) /\ LockInv' /\ TaskInv' /\ StoreInv'
  BY TaskStepEffect
<1> USE <1>1 DEF IInv, TypeOK, TaskEffect, handlerVars
<1>2. HandlerInv'
  BY DEF HandlerInv
<1>3. QueueHoldsWaitingJobs'
  <2>1. \A i \in 1 .. Len(queue) : queue[i] \in Requests \ {j}
    BY QueueElements
  <2> QED
    BY <2>1 DEF QueueHoldsWaitingJobs
<1>4. CacheNamesArtifact'
  BY DEF CacheNamesArtifact, StoreInv, Holding, NoJob
<1>5. \A i \in Requests : status[i] \in Terminal => status'[i] = status[i]
  OBVIOUS
<1>6. CachedReplyStaysDone' /\ ChosenInv'
  BY <1>5 DEF CachedReplyStaysDone, ChosenInv, Terminal
<1>7. FullInv'
  BY DEF FullInv
<1>8. NotifiedIsTerminal'
  BY <1>5 DEF NotifiedIsTerminal
<1>9. FaultFreeInv'
  <2> SUFFICES ASSUME ~MayFail, MaxRestarts = 0, NEW k \in CacheKeys,
                      cache'[k] # NoJob
               PROVE  \/ status'[cache'[k]] = "done"
                      \/ task'[cache'[k]] = "marking"
    BY DEF FaultFreeInv
  <2>1. CASE cache'[k] = cache[k]
    <3>1. cache[k] \in Requests
      BY <2>1 DEF NoJob
    <3> QED
      <4>1. status[cache[k]] = "done" \/ task[cache[k]] = "marking"
        BY <2>1 DEF FaultFreeInv
      <4>2. CASE status[cache[k]] = "done"
        BY <1>5, <2>1, <3>1, <4>2 DEF Terminal
      <4>3. CASE task[cache[k]] = "marking"
        BY <2>1, <3>1, <4>3
      <4> QED
        BY <4>1, <4>2, <4>3
  <2>2. CASE cache'[k] = j /\ task'[j] = "marking"
    BY <2>2
  <2> QED
    BY <2>1, <2>2
<1> QED
  BY <1>1, <1>2, <1>3, <1>4, <1>6, <1>7, <1>8, <1>9

(***************************************************************************)
(* Receiving a job and spawning its task keeps the invariant.              *)
(***************************************************************************)
LEMMA DispatchKeepsIInv ==
  ASSUME IInv, TypeOK', Dispatch
  PROVE  IInv'
<1>1. PICK h \in Requests : DispatchEffect(h)
  BY DispatchStepEffect
<1>2. QueueHoldsWaitingJobs'
  BY DispatchStepEffect
<1> USE <1>1 DEF IInv, TypeOK, DispatchEffect, handlerVars, diskVars
<1>3. LockInv' /\ TaskInv' /\ StoreInv'
  BY DEF LockInv, TaskInv, StoreInv, Holding, Running
<1>4. HandlerInv' /\ FullInv'
  BY DEF HandlerInv, FullInv
<1>5./\ CacheNamesArtifact' /\ CachedReplyStaysDone'
      /\ ChosenInv' /\ NotifiedIsTerminal'
  BY DEF CacheNamesArtifact, CachedReplyStaysDone, ChosenInv, NotifiedIsTerminal
<1>6. FaultFreeInv'
  BY RequestsAssumption DEF FaultFreeInv, NoJob
<1> QED
  BY <1>2, <1>3, <1>4, <1>5, <1>6

(***************************************************************************)
(* The death of the process keeps the invariant: what is lost is in        *)
(* memory, and the rows it leaves behind are none of those a later step    *)
(* writes.                                                                 *)
(***************************************************************************)
LEMMA RestartKeepsIInv ==
  ASSUME IInv, TypeOK', Restart
  PROVE  IInv'
<1> USE DEF IInv, TypeOK, Restart, diskVars
<1>1. LockInv' /\ TaskInv' /\ StoreInv'
  BY RequestsAssumption
     DEF LockInv, TaskInv, StoreInv, Holding, Running, NoJob, Terminal
<1>2. HandlerInv' /\ FullInv'
  BY DEF HandlerInv, FullInv
<1>3. QueueHoldsWaitingJobs'
  BY EmptySeq, CapacityAssumption DEF QueueHoldsWaitingJobs
<1>4./\ CacheNamesArtifact' /\ CachedReplyStaysDone'
      /\ ChosenInv' /\ NotifiedIsTerminal'
  BY DEF CacheNamesArtifact, CachedReplyStaysDone, ChosenInv, NotifiedIsTerminal
<1>5. FaultFreeInv'
  BY BoundAssumption DEF FaultFreeInv
<1> QED
  BY <1>1, <1>2, <1>3, <1>4, <1>5

(***************************************************************************)
(* Deleting an archive keeps the invariant: rows speak of archives that    *)
(* were written, not of those still present.                               *)
(***************************************************************************)
LEMMA RemoveArchiveKeepsIInv ==
  ASSUME IInv, TypeOK', NEW j \in Requests, RemoveArchive(j)
  PROVE  IInv'
<1> USE DEF IInv, TypeOK, RemoveArchive, handlerVars, memoryVars
<1>1. LockInv' /\ TaskInv' /\ HandlerInv'
  BY DEF LockInv, TaskInv, HandlerInv
<1>2. StoreInv'
  BY DEF StoreInv, TaskInv, Holding, Running
<1>3. QueueHoldsWaitingJobs' /\ FullInv'
  BY DEF QueueHoldsWaitingJobs, FullInv
<1>4./\ CacheNamesArtifact' /\ CachedReplyStaysDone'
      /\ ChosenInv' /\ NotifiedIsTerminal'
  BY DEF CacheNamesArtifact, CachedReplyStaysDone, ChosenInv, NotifiedIsTerminal
<1>5. FaultFreeInv'
  BY DEF FaultFreeInv
<1> QED
  BY <1>1, <1>2, <1>3, <1>4, <1>5

(***************************************************************************)
(* A step that changes nothing keeps the invariant.                        *)
(***************************************************************************)
LEMMA StutterKeepsIInv ==
  ASSUME IInv, UNCHANGED vars
  PROVE  IInv'
<1> USE DEF IInv, vars, handlerVars, memoryVars, diskVars
<1>1. TypeOK' /\ LockInv' /\ TaskInv' /\ HandlerInv' /\ StoreInv'
  BY DEF TypeOK, LockInv, TaskInv, HandlerInv, StoreInv
<1>2. QueueHoldsWaitingJobs' /\ FullInv'
  BY DEF QueueHoldsWaitingJobs, FullInv
<1>3./\ CacheNamesArtifact' /\ CachedReplyStaysDone'
      /\ ChosenInv' /\ NotifiedIsTerminal'
  BY DEF CacheNamesArtifact, CachedReplyStaysDone, ChosenInv, NotifiedIsTerminal
<1>4. FaultFreeInv'
  BY DEF FaultFreeInv
<1> QED
  BY <1>1, <1>2, <1>3, <1>4

(***************************************************************************)
(* The invariant holds when the server starts for the first time.          *)
(***************************************************************************)
LEMMA IInvInit == Init => IInv
<1> SUFFICES ASSUME Init PROVE IInv
  OBVIOUS
<1> USE DEF Init
<1>1. TypeOK
  BY EmptySeq DEF TypeOK, HandlerSteps, TaskSteps, Codes, Statuses, NoJob
<1>2. QueueHoldsWaitingJobs
  BY EmptySeq, CapacityAssumption DEF QueueHoldsWaitingJobs
<1>3. LockInv /\ TaskInv /\ HandlerInv /\ StoreInv
  BY RequestsAssumption
     DEF LockInv, TaskInv, HandlerInv, StoreInv, Holding, Running, NoJob
<1>4. /\ CacheNamesArtifact /\ CachedReplyStaysDone /\ ChosenInv /\ FullInv
      /\ NotifiedIsTerminal /\ FaultFreeInv
  BY DEF CacheNamesArtifact, CachedReplyStaysDone, ChosenInv, FullInv,
         NotifiedIsTerminal, FaultFreeInv, NoJob
<1> QED
  BY <1>1, <1>2, <1>3, <1>4 DEF IInv

(***************************************************************************)
(* Every step of the server keeps the invariant.                           *)
(***************************************************************************)
LEMMA IInvStep == IInv /\ [Next]_vars => IInv'
<1> SUFFICES ASSUME IInv, [Next]_vars PROVE IInv'
  OBVIOUS
<1>1. TypeOK'
  BY TypeStep DEF IInv
<1>2. CASE UNCHANGED vars
  BY <1>2, StutterKeepsIInv
<1>3. CASE Next
  BY <1>1, <1>3, HandlerStepKeepsIInv, TaskStepKeepsIInv, DispatchKeepsIInv,
     RestartKeepsIInv, RemoveArchiveKeepsIInv DEF Next
<1> QED
  BY <1>2, <1>3

(***************************************************************************)
(* Every behaviour of the pipeline stays inside the inductive invariant.   *)
(***************************************************************************)
THEOREM PipelineInvariant == Spec => []IInv
  BY IInvInit, IInvStep, PTL DEF Spec

(***************************************************************************)
(* Every variable of the server keeps its type.                            *)
(***************************************************************************)
THEOREM TypeCorrect == Spec => []TypeOK
<1>1. IInv => TypeOK
  BY DEF IInv
<1> QED
  BY <1>1, PipelineInvariant, PTL

(***************************************************************************)
(* The bounded channel holds accepted, queued, not yet started jobs, each  *)
(* once and never more than KOVAL_QUEUE_CAPACITY of them.                  *)
(***************************************************************************)
THEOREM QueueIsSound == Spec => []QueueHoldsWaitingJobs
<1>1. IInv => QueueHoldsWaitingJobs
  BY DEF IInv
<1> QED
  BY <1>1, PipelineInvariant, PTL

(***************************************************************************)
(* A job reported done has an artifact row and an archive that was         *)
(* written, whichever statement of process_job failed.                     *)
(***************************************************************************)
THEOREM DoneIsBacked == Spec => []DoneHasArtifact
<1>1. IInv => DoneHasArtifact
  BY DEF IInv, StoreInv, DoneHasArtifact
<1> QED
  BY <1>1, PipelineInvariant, PTL

(***************************************************************************)
(* A row of build_cache names a job of that key with a stored artifact.    *)
(***************************************************************************)
THEOREM CacheIsBacked == Spec => []CacheNamesArtifact
<1>1. IInv => CacheNamesArtifact
  BY DEF IInv
<1> QED
  BY <1>1, PipelineInvariant, PTL

(***************************************************************************)
(* A client answered from the cache was sent to another request's job for  *)
(* the same key, done then and ever after.                                 *)
(***************************************************************************)
THEOREM CachedReplyIsStable == Spec => []CachedReplyStaysDone
<1>1. IInv => CachedReplyStaysDone
  BY DEF IInv
<1> QED
  BY <1>1, PipelineInvariant, PTL

(***************************************************************************)
(* A job refused with 503 is never dispatched and never built.             *)
(***************************************************************************)
THEOREM FullIsFinal == Spec => []FullIsNeverBuilt
<1>1. IInv => FullIsNeverBuilt
  <2> SUFFICES ASSUME IInv, NEW r \in Requests, reply[r].code = "full"
               PROVE  \A i \in 1 .. Len(queue) : queue[i] # r
    BY DEF IInv, FullInv, FullIsNeverBuilt
  <2> QED
    BY QueueElements DEF IInv
<1> QED
  BY <1>1, PipelineInvariant, PTL

(***************************************************************************)
(* While nothing fails or restarts, whoever takes the mutex finds every    *)
(* cache entry naming a done job: the three statements look atomic.        *)
(***************************************************************************)
THEOREM CacheUpdateIsAtomic == Spec => []CacheNamesDoneJobs
<1>1. IInv => CacheNamesDoneJobs
  <2> SUFFICES ASSUME IInv, ~MayFail, MaxRestarts = 0, Unlocked,
                      NEW k \in CacheKeys, cache[k] # NoJob
               PROVE  status[cache[k]] = "done"
    BY DEF CacheNamesDoneJobs
  <2>1. cache[k] \in Requests /\ cache[k] # lock
    BY DEF IInv, TypeOK, Unlocked
  <2>2. task[cache[k]] # "marking"
    BY <2>1 DEF IInv, LockInv, Holding
  <2> QED
    BY <2>2 DEF IInv, FaultFreeInv
<1> QED
  BY <1>1, PipelineInvariant, PTL

(***************************************************************************)
(* The archive of j is gone and request r neither was nor is about to be   *)
(* sent to it.                                                             *)
(***************************************************************************)
Spared(r, j) == /\ archive[j] = "removed"
                /\ handler[r] = "answer" \/ reply[r].code = "cached" =>
                     reply[r].id # j

(***************************************************************************)
(* A removed archive does not come back, and no lookup takes its job.      *)
(***************************************************************************)
LEMMA SparedStays ==
  ASSUME IInv, [Next]_vars, NEW r \in Requests, NEW j \in Requests, Spared(r, j)
  PROVE  Spared(r, j)'
<1> USE DEF IInv, TypeOK, Spared
<1>1. ASSUME NEW i \in Requests, Authenticate(i) \/ HandlerStep(i)
      PROVE  Spared(r, j)'
  <2>1. HandlerEffect(i)
    BY <1>1, HandlerStepEffect
  <2>2. CASE i # r
    BY <2>1, <2>2 DEF HandlerEffect
  <2>3. CASE i = r
    <3> USE <2>3 DEF HandlerAt, Reply, diskVars
    <3>1. CASE CacheHit(r)
      BY <3>1 DEF CacheHit, Servable
    <3>2. CASE Answer(r)
      BY <3>2 DEF Answer
    <3>3. CASE ~CacheHit(r) /\ ~Answer(r)
      <4>1. /\ handler'[r] # "answer"
            /\ \/ reply' = reply
               \/ \E c \in {"refused", "accepted", "error", "full"}, n \in {r, NoJob} :
                    reply' = [reply EXCEPT ![r] = [code |-> c, id |-> n]]
        BY <1>1, <3>3 DEF HandlerStep, Authenticate, CacheMiss, RecordJob,
                          Enqueue, RejectFull
      <4> QED
        BY <2>1, <4>1 DEF HandlerEffect
    <3> QED
      BY <3>1, <3>2, <3>3
  <2> QED
    BY <2>2, <2>3
<1>2. ASSUME NEW i \in Requests, TaskStep(i)
      PROVE  Spared(r, j)'
  <2>1. handler' = handler /\ reply' = reply
    BY <1>2, TaskStepEffect DEF TaskEffect, handlerVars
  <2>2. StoreInv' /\ status'[j] = "done"
    BY <1>2, TaskStepEffect DEF TaskEffect, StoreInv, Terminal
  <2>3. archive'[j] = archive[j]
    <3>1. task[j] # "building"
      BY DEF StoreInv, TaskInv, Running
    <3>2. \/ archive' = archive
          \/ task[i] = "building" /\ archive' = [archive EXCEPT ![i] = "present"]
      BY <1>2 DEF TaskStep, StartBuild, RunBuild, Panic, BuildFails, BuildSucceeds,
                  BuildAborts, HashArchive, InsertArtifact, InsertCacheEntry,
                  MarkDone, MarkFailed, Finish, Abort, TaskAt, diskVars
    <3> QED
      BY <3>1, <3>2
  <2> QED
    BY <2>1, <2>3
<1>3. CASE Dispatch
  BY <1>3 DEF Dispatch, handlerVars, diskVars
<1>4. CASE Restart
  BY <1>4 DEF Restart, diskVars
<1>5. ASSUME NEW i \in Requests, RemoveArchive(i) PROVE Spared(r, j)'
  BY <1>5 DEF RemoveArchive, handlerVars
<1>6. CASE UNCHANGED vars
  BY <1>6 DEF vars, handlerVars, diskVars
<1> QED
  BY <1>1, <1>2, <1>3, <1>4, <1>5, <1>6 DEF Next

(***************************************************************************)
(* For any load, faults and restarts: a request that has not looked into   *)
(* the cache when an archive goes is never sent to the job of it.          *)
(***************************************************************************)
THEOREM GoneIsNotServed == Spec => RemovedIsNotServed
<1>1. ASSUME NEW r \in Requests, NEW j \in Requests
      PROVE  Spec =>
               [](archive[j] = "removed" /\ handler[r] \in {"authenticate", "lookup"}
                    => [](reply[r].code = "cached" => reply[r].id # j))
  <2> DEFINE Gone == /\ archive[j] = "removed"
                     /\ handler[r] \in {"authenticate", "lookup"}
             NotSent == reply[r].code = "cached" => reply[r].id # j
  <2>1. IInv /\ Gone => Spared(r, j)
    BY DEF IInv, HandlerInv, Spared
  <2>2. IInv /\ Spared(r, j) /\ [Next]_vars => Spared(r, j)'
    BY SparedStays
  <2>3. Spared(r, j) => NotSent
    BY DEF Spared
  <2> QED
    BY <2>1, <2>2, <2>3, PipelineInvariant, PTL DEF Spec
<1> QED
  BY <1>1 DEF RemovedIsNotServed

------------------------------------------------------------------------------
(* One build each *)

\* How far process_job is; all ends are equally far.
Rank == [s \in TaskSteps |->
           CASE s = "none"     -> 0
             [] s = "spawned"  -> 1
             [] s = "building" -> 2
             [] s \in {"hashing", "failing"} -> 3
             [] s = "storing"  -> 4
             [] s = "caching"  -> 5
             [] s = "marking"  -> 6
             [] s = "finishing" -> 7
             [] OTHER          -> 8]

\* Every task that a step changes comes nearer to its end.
Forward == \A j \in Requests : \/ task'[j] = task[j]
                              \/ Rank[task[j]] < Rank[task'[j]]

(***************************************************************************)
(* A build only goes forward: no job is started twice, no step of a build  *)
(* is repeated, and so every build ends after a bounded number of them.    *)
(***************************************************************************)
BuildsOnlyAdvance == [][Forward]_vars

(***************************************************************************)
(* Neither the channel nor a restart makes a job run a second time, for    *)
(* every load and capacity: at most one build per accepted request.        *)
(***************************************************************************)
THEOREM BuildsAreNotRepeated == Spec => BuildsOnlyAdvance
<1>1. /\ Rank["none"] = 0 /\ Rank["spawned"] = 1 /\ Rank["building"] = 2
      /\ Rank["hashing"] = 3 /\ Rank["failing"] = 3 /\ Rank["storing"] = 4
      /\ Rank["caching"] = 5 /\ Rank["marking"] = 6 /\ Rank["finishing"] = 7
      /\ Rank["ended"] = 8 /\ Rank["aborted"] = 8 /\ Rank["lost"] = 8
  BY DEF Rank, TaskSteps
<1>2. ASSUME IInv, NEW j \in Requests, NEW s, NEW t,
             TaskAt(j, s, t), Rank[s] < Rank[t]
      PROVE  Forward
  BY <1>2 DEF Forward, TaskAt, IInv, TypeOK
<1>3. ASSUME IInv, NEW j \in Requests, NEW s, Abort(j, s), Rank[s] < 8
      PROVE  Forward
  BY <1>1, <1>2, <1>3 DEF Abort
<1>4. ASSUME task' = task PROVE Forward
  BY <1>4 DEF Forward
<1>5. ASSUME IInv, NEW j \in Requests, TaskStep(j) PROVE Forward
  <2>1. CASE StartBuild(j)
    BY <1>1, <1>2, <1>3, <1>5, <2>1 DEF StartBuild
  <2>2. CASE RunBuild(j)
    BY <1>1, <1>2, <1>5, <2>2 DEF RunBuild, Panic, BuildFails, BuildSucceeds, BuildAborts
  <2>3. CASE HashArchive(j)
    BY <1>1, <1>2, <1>3, <1>5, <2>3 DEF HashArchive
  <2>4. CASE InsertArtifact(j) \/ InsertCacheEntry(j)
    BY <1>1, <1>2, <1>3, <1>5, <2>4 DEF InsertArtifact, InsertCacheEntry
  <2>5. CASE MarkDone(j) \/ MarkFailed(j)
    BY <1>1, <1>2, <1>3, <1>5, <2>5 DEF MarkDone, MarkFailed
  <2>6. CASE Finish(j)
    BY <1>1, <1>2, <1>5, <2>6 DEF Finish
  <2> QED
    BY <1>5, <2>1, <2>2, <2>3, <2>4, <2>5, <2>6 DEF TaskStep
<1>6. ASSUME IInv, Dispatch PROVE Forward
  <2>1. PICK h \in Requests : DispatchEffect(h)
    BY <1>6, DispatchStepEffect
  <2> QED
    BY <1>1, <2>1 DEF Forward, DispatchEffect, IInv, TypeOK
<1>7. ASSUME IInv, Restart PROVE Forward
  <2> SUFFICES ASSUME NEW j \in Requests, task'[j] # task[j]
               PROVE  Rank[task[j]] < Rank[task'[j]]
    BY DEF Forward
  <2>1. task[j] \in TaskSteps \ {"none", "ended", "aborted", "lost"} /\ task'[j] = "lost"
    BY <1>7 DEF Restart, IInv, TypeOK
  <2> QED
    BY <1>1, <2>1 DEF TaskSteps
<1>8. ASSUME IInv, NEW r \in Requests, Authenticate(r) \/ HandlerStep(r) PROVE Forward
  BY <1>4, <1>8, HandlerStepEffect DEF HandlerEffect
<1>9. ASSUME NEW j \in Requests, RemoveArchive(j) PROVE Forward
  BY <1>4, <1>9 DEF RemoveArchive, memoryVars
<1>10. IInv /\ [Next]_vars => [Forward]_vars
  BY <1>5, <1>6, <1>7, <1>8, <1>9 DEF Next
<1> QED
  BY <1>10, PipelineInvariant, PTL DEF Spec, BuildsOnlyAdvance

------------------------------------------------------------------------------
(* Nobody's job *)

\* Only a fault or a malformed URL ends a task before the end of its build.
AbortInv ==
  \A j \in Requests : task[j] = "aborted" => MayFail \/ req[j].key \in Malformed

OwnedInv == UnfinishedIsOwned /\ AbortInv

(***************************************************************************)
(* A handler that leaves a row queued still has it in hand, has put it     *)
(* into the channel, or has failed to mark it.                             *)
(***************************************************************************)
LEMMA HandlerStepOwns ==
  ASSUME IInv, NEW r \in Requests, Authenticate(r) \/ HandlerStep(r)
  PROVE  status'[r] = "queued" =>
           \/ handler'[r] \in {"enqueue", "reject"}
           \/ queue' = Append(queue, r)
           \/ MayFail /\ reply'[r].code = "full"
<1> USE DEF IInv, TypeOK, HandlerInv, HandlerAt, Reply, SetStatus, diskVars
<1>1. CASE Authenticate(r) \/ CacheHit(r) \/ Answer(r) \/ CacheMiss(r)
  BY <1>1 DEF Authenticate, CacheHit, Answer, CacheMiss
<1>2. CASE RecordJob(r)
  BY <1>2 DEF RecordJob
<1>3. CASE Enqueue(r)
  BY <1>3 DEF Enqueue
<1>4. CASE RejectFull(r)
  BY <1>4 DEF RejectFull
<1> QED
  BY <1>1, <1>2, <1>3, <1>4 DEF HandlerStep

(***************************************************************************)
(* A step of process_job leaves the task live or at an end, and a task     *)
(* that ends early has met a fault or a malformed URL.                     *)
(***************************************************************************)
LEMMA TaskStepOwns ==
  ASSUME IInv, NEW j \in Requests, TaskStep(j)
  PROVE  /\ task'[j] # "lost"
         /\ task'[j] = "aborted" => MayFail \/ req[j].key \in Malformed
<1> USE DEF IInv, TypeOK, TaskAt, Abort
<1>1. CASE StartBuild(j) \/ RunBuild(j)
  BY <1>1 DEF StartBuild, RunBuild, Panic, BuildFails, BuildSucceeds, BuildAborts
<1>2. CASE HashArchive(j) \/ InsertArtifact(j) \/ InsertCacheEntry(j)
  BY <1>2 DEF HashArchive, InsertArtifact, InsertCacheEntry
<1>3. CASE MarkDone(j) \/ MarkFailed(j) \/ Finish(j)
  BY <1>3 DEF MarkDone, MarkFailed, Finish
<1> QED
  BY <1>1, <1>2, <1>3 DEF TaskStep

(***************************************************************************)
(* A job the dispatcher does not take stays in the channel.                *)
(***************************************************************************)
LEMMA DispatchLeavesOthers ==
  ASSUME TypeOK, Dispatch, NEW i \in 1 .. Len(queue), queue[i] # Head(queue)
  PROVE  \E k \in 1 .. Len(queue') : queue'[k] = queue[i]
<1>1. /\ queue' = Tail(queue) /\ Head(queue) = queue[1]
      /\ Len(queue') = Len(queue) - 1
      /\ \A k \in 1 .. Len(queue') : queue'[k] = queue[k + 1]
  BY EmptySeq, HeadTailProperties DEF Dispatch, TypeOK
<1>2. Len(queue) \in Nat /\ i # 1
  BY <1>1 DEF TypeOK
<1>3. i - 1 \in 1 .. Len(queue') /\ (i - 1) + 1 = i
  BY <1>1, <1>2
<1> QED
  BY <1>1, <1>3

(***************************************************************************)
(* Every step that leaves a row unfinished leaves it with an owner, or     *)
(* with the fault or the restart that took the owner away.                 *)
(***************************************************************************)
LEMMA OwnedStep ==
  ASSUME IInv, IInv', OwnedInv, [Next]_vars
  PROVE  OwnedInv'
<1>1. ASSUME NEW r \in Requests, Authenticate(r) \/ HandlerStep(r)
      PROVE  OwnedInv'
  <2>1. HandlerEffect(r)
    BY <1>1, HandlerStepEffect
  <2>2. \A i \in 1 .. Len(queue) : i \in 1 .. Len(queue') /\ queue'[i] = queue[i]
    <3>1. CASE queue' = queue
      BY <3>1
    <3>2. CASE queue' = Append(queue, r)
      BY <3>2, AppendProperties DEF IInv, TypeOK
    <3> QED
      BY <2>1, <3>1, <3>2 DEF HandlerEffect
  <2>3. queue' = Append(queue, r) => \E i \in 1 .. Len(queue') : queue'[i] = r
    <3> SUFFICES ASSUME queue' = Append(queue, r)
                 PROVE  \E i \in 1 .. Len(queue') : queue'[i] = r
      OBVIOUS
    <3>1. Len(queue) + 1 \in 1 .. Len(queue') /\ queue'[Len(queue) + 1] = r
      BY AppendProperties DEF IInv, TypeOK
    <3> QED
      BY <3>1
  <2>4. AbortInv'
    BY <2>1 DEF HandlerEffect, OwnedInv, AbortInv
  <2>5. ASSUME NEW j \in Requests \ {r}
        PROVE  UNCHANGED <<status[j], handler[j], reply[j], req, task, restarts>>
    BY <2>1 DEF HandlerEffect
  <2>6. status'[r] # "building"
    BY <2>1 DEF HandlerEffect
  <2>7. UnfinishedIsOwned'
    BY <1>1, <2>2, <2>3, <2>5, <2>6, HandlerStepOwns DEF OwnedInv, UnfinishedIsOwned
  <2> QED
    BY <2>4, <2>7 DEF OwnedInv
<1>2. ASSUME NEW j \in Requests, TaskStep(j)
      PROVE  OwnedInv'
  <2>1. TaskEffect(j)
    BY <1>2, TaskStepEffect
  <2>2. /\ task'[j] # "lost"
        /\ task'[j] = "aborted" => MayFail \/ req[j].key \in Malformed
    BY <1>2, TaskStepOwns
  <2>3. /\ task'[j] # "none" /\ UNCHANGED <<req, handler, reply, queue, restarts>>
        /\ \A i \in Requests \ {j} : task'[i] = task[i] /\ status'[i] = status[i]
    BY <2>1 DEF TaskEffect, handlerVars
  <2>4. task'[j] = "ended" => status'[j] \in Terminal
    BY DEF IInv, TaskInv
  <2> QED
    BY <2>2, <2>3, <2>4 DEF OwnedInv, UnfinishedIsOwned, AbortInv, Terminal
<1>3. CASE Dispatch
  <2>1. /\ task' = [task EXCEPT ![Head(queue)] = "spawned"]
        /\ UNCHANGED <<req, handler, reply, status, restarts>>
    BY <1>3 DEF Dispatch, handlerVars, diskVars
  <2>2. ASSUME NEW j \in Requests, j # Head(queue)
        PROVE  /\ task'[j] = task[j]
               /\ (\E i \in 1 .. Len(queue) : queue[i] = j) =>
                    \E i \in 1 .. Len(queue') : queue'[i] = j
    <3>1. task'[j] = task[j]
      BY <2>1, <2>2 DEF IInv, TypeOK
    <3>2. ASSUME NEW i \in 1 .. Len(queue), queue[i] = j
          PROVE  \E k \in 1 .. Len(queue') : queue'[k] = j
      BY <1>3, <2>2, <3>2, DispatchLeavesOthers DEF IInv
    <3> QED
      BY <3>1, <3>2
  <2>3. ASSUME NEW j \in Requests, j = Head(queue) PROVE task'[j] = "spawned"
    BY <2>1, <2>3 DEF IInv, TypeOK
  <2> QED
    BY <2>1, <2>2, <2>3 DEF OwnedInv, UnfinishedIsOwned, AbortInv
<1>4. CASE Restart
  <2>0. restarts \in Nat /\ restarts' = restarts + 1
    BY <1>4 DEF Restart, IInv, TypeOK
  <2>1. /\ UNCHANGED <<req, reply, status>> /\ restarts' > 0
        /\ \A j \in Requests : \/ task'[j] \in {"none", "lost"}
                                \/ /\ task'[j] \in {"ended", "aborted"}
                                   /\ task'[j] = task[j]
    BY <1>4, <2>0 DEF Restart, diskVars
  <2>2. \A j \in Requests : task[j] = "ended" => status[j] \in Terminal
    BY DEF IInv, TaskInv
  <2> QED
    BY <2>1, <2>2 DEF OwnedInv, UnfinishedIsOwned, AbortInv, Terminal
<1>5. ASSUME NEW j \in Requests, RemoveArchive(j)
      PROVE  OwnedInv'
  BY <1>5 DEF RemoveArchive, handlerVars, memoryVars, OwnedInv, UnfinishedIsOwned, AbortInv
<1>6. CASE UNCHANGED vars
  BY <1>6 DEF vars, handlerVars, memoryVars, diskVars, OwnedInv, UnfinishedIsOwned,
              AbortInv
<1> QED
  BY <1>1, <1>2, <1>3, <1>4, <1>5, <1>6 DEF Next

(***************************************************************************)
(* For any load, capacity, faults and restarts, an unfinished row without  *)
(* an owner is the trace of a restart or of a fault of this very job:      *)
(* neither a full channel nor the hand-over to the dispatcher loses one.   *)
(***************************************************************************)
THEOREM NoJobIsForgotten == Spec => []UnfinishedIsOwned
<1>1. Init => OwnedInv
  BY DEF Init, OwnedInv, UnfinishedIsOwned, AbortInv
<1>2. IInv /\ IInv' /\ OwnedInv /\ [Next]_vars => OwnedInv'
  BY OwnedStep
<1>3. OwnedInv => UnfinishedIsOwned
  BY DEF OwnedInv
<1> QED
  BY <1>1, <1>2, <1>3, PipelineInvariant, PTL DEF Spec

------------------------------------------------------------------------------
(* Refinement *)

(***************************************************************************)
(* The initial states of the server are initial states of a job's life.    *)
(***************************************************************************)
LEMMA LifecycleInit == Init => Lifecycle!Init
  BY DEF Init, Lifecycle!Init

(***************************************************************************)
(* Each step of the server moves at most one job along its life cycle.     *)
(***************************************************************************)
LEMMA LifecycleStep ==
  IInv /\ [Next]_vars => [Lifecycle!Next]_(Lifecycle!vars)
<1> DEFINE Done == {j \in artifact : status[j] = "done"}
           LifecycleMove == Lifecycle!Next \/ (status' = status /\ Done' = Done)
<1> SUFFICES ASSUME IInv, [Next]_vars
             PROVE  LifecycleMove
  BY DEF Lifecycle!vars
<1> USE DEF IInv, TypeOK, SetStatus, diskVars, Lifecycle!Move, Lifecycle!Submit,
            Lifecycle!Reject, Lifecycle!Start, Lifecycle!Fail,
            Lifecycle!Complete, Lifecycle!Leave, Lifecycle!End, Lifecycle!Next
<1>1. CASE UNCHANGED vars
  BY <1>1 DEF vars
<1>2. ASSUME NEW r \in Requests, RecordJob(r) PROVE LifecycleMove
  BY <1>2 DEF RecordJob, HandlerAt, HandlerInv
<1>3. ASSUME NEW r \in Requests, RejectFull(r) PROVE LifecycleMove
  BY <1>3 DEF RejectFull, HandlerAt, HandlerInv
<1>4. ASSUME NEW j \in Requests, StartBuild(j) PROVE LifecycleMove
  BY <1>4 DEF StartBuild, TaskAt, Abort, TaskInv
<1>5. ASSUME NEW j \in Requests, MarkFailed(j) PROVE LifecycleMove
  BY <1>5 DEF MarkFailed, TaskAt, Abort, TaskInv, Running
<1>6. ASSUME NEW j \in Requests, MarkDone(j) PROVE LifecycleMove
  <2>1. CASE Abort(j, "marking")
    BY <2>1 DEF Abort
  <2>2. CASE /\ TaskAt(j, "marking", "finishing")
             /\ status' = [status EXCEPT ![j] = "done"]
             /\ artifact' = artifact
    <3>1. status[j] = "building" /\ j \in artifact
      BY <2>2 DEF TaskAt, TaskInv, StoreInv, Running, Holding
    <3>2. Done' = Done \cup {j}
      BY <2>2, <3>1
    <3>3. Lifecycle!Complete(j)
      BY <2>2, <3>1, <3>2
    <3> QED
      BY <3>3
  <2> QED
    BY <1>6, <2>1, <2>2 DEF MarkDone
<1>7. ASSUME NEW j \in Requests, InsertArtifact(j) PROVE status' = status /\ Done' = Done
  BY <1>7 DEF InsertArtifact, TaskAt, Abort, TaskInv, Running
<1>8. ASSUME NEW j \in Requests,
             \/ Authenticate(j) \/ CacheHit(j) \/ Answer(j) \/ CacheMiss(j)
             \/ Enqueue(j)
             \/ RunBuild(j) \/ HashArchive(j) \/ InsertCacheEntry(j)
             \/ Finish(j) \/ RemoveArchive(j)
      PROVE  status' = status /\ Done' = Done
  BY <1>8 DEF Authenticate, CacheHit, CacheMiss, Answer, Enqueue, RunBuild, Panic,
              BuildFails, BuildSucceeds, BuildAborts, HashArchive, InsertCacheEntry, Finish,
              RemoveArchive, Abort
<1>9. ASSUME Dispatch \/ Restart PROVE status' = status /\ Done' = Done
  BY <1>9 DEF Dispatch, Restart
<1> QED
  BY <1>1, <1>2, <1>3, <1>4, <1>5, <1>6, <1>7, <1>8, <1>9
     DEF Next, HandlerStep, TaskStep

(***************************************************************************)
(* The server implements the life cycle it promises for every job.         *)
(***************************************************************************)
THEOREM PipelineImplementsLifecycle == Spec => ImplementsLifecycle
  BY LifecycleInit, LifecycleStep, PipelineInvariant, PTL
     DEF Spec, ImplementsLifecycle, Lifecycle!Spec

(***************************************************************************)
(* A step that moves the row of one unfinished job, or schedules the       *)
(* webhooks of one finished job, is a step of JobEnding.                   *)
(***************************************************************************)
LEMMA EndingMove ==
  ASSUME IInv, TypeOK', NEW j \in Requests,
         \A i \in Requests \ {j} : status'[i] = status[i],
         status[j] \in Terminal => status'[j] = status[j],
         \/ notified' = notified
         \/ /\ notified' = notified \cup {j}
            /\ status[j] \in Terminal /\ status'[j] = status[j]
  PROVE  [Ending!Next]_(Ending!vars)
<1> DEFINE Told == {<<i, status[i]>> : i \in notified}
<1> USE DEF IInv, TypeOK
<1>1. status' = [status EXCEPT ![j] = status'[j]]
  OBVIOUS
<1>2. CASE status[j] \notin Terminal
  <2>1. notified' = notified /\ j \notin notified
    BY <1>2 DEF NotifiedIsTerminal
  <2>2. Told' = Told
    BY <2>1
  <2>3. /\ status[j] \in {"none", "queued", "building"}
        /\ status'[j] \in {"none", "queued", "building"} \cup {"done", "failed"}
    BY <1>2 DEF Statuses, Terminal
  <2>4. Ending!Move(j)
    BY <1>1, <2>2, <2>3 DEF Ending!Move, Ending!Unfinished, Ending!Terminal
  <2> QED
    BY <2>4 DEF Ending!Next
<1>3. CASE status[j] \in Terminal /\ notified' = notified
  <2>1. status' = status
    BY <1>1, <1>3
  <2> QED
    BY <1>3, <2>1 DEF Ending!vars
<1>4. CASE status[j] \in Terminal /\ notified' = notified \cup {j}
  <2>1. status' = status
    BY <1>1, <1>4
  <2>2. Told' = Told \cup {<<j, status[j]>>}
    BY <1>4, <2>1
  <2>3. Ending!Tell(j)
    BY <1>4, <2>1, <2>2 DEF Ending!Tell, Ending!Terminal, Terminal
  <2> QED
    BY <2>3 DEF Ending!Next
<1> QED
  BY <1>2, <1>3, <1>4

(***************************************************************************)
(* Each step of the server is a step of JobEnding or leaves rows and       *)
(* notifications alone.                                                    *)
(***************************************************************************)
LEMMA EndingStep == IInv /\ [Next]_vars => [Ending!Next]_(Ending!vars)
<1> SUFFICES ASSUME IInv, [Next]_vars PROVE [Ending!Next]_(Ending!vars)
  OBVIOUS
<1>0. TypeOK'
  BY TypeStep DEF IInv
<1>1. ASSUME NEW r \in Requests, Authenticate(r) \/ HandlerStep(r)
      PROVE  [Ending!Next]_(Ending!vars)
  <2>1. /\ \A i \in Requests \ {r} : status'[i] = status[i]
        /\ status[r] \notin Terminal /\ notified' = notified
    BY <1>1, HandlerStepEffect DEF HandlerEffect, Terminal
  <2> QED
    BY <1>0, <2>1, EndingMove
<1>2. ASSUME NEW j \in Requests, TaskStep(j)
      PROVE  [Ending!Next]_(Ending!vars)
  <2>1. TaskEffect(j)
    BY <1>2, TaskStepEffect
  <2> QED
    BY <1>0, <2>1, EndingMove DEF TaskEffect
<1>3. ASSUME \/ Dispatch \/ Restart \/ UNCHANGED vars
             \/ \E j \in Requests : RemoveArchive(j)
      PROVE  [Ending!Next]_(Ending!vars)
  <2>1. status' = status /\ notified' = notified
    BY <1>3 DEF Dispatch, Restart, RemoveArchive, vars, diskVars
  <2> QED
    BY <2>1 DEF Ending!vars
<1> QED
  BY <1>1, <1>2, <1>3 DEF Next

(***************************************************************************)
(* What the server schedules for the listeners of a job is the status its  *)
(* row has and keeps, through every failed statement and restart.          *)
(***************************************************************************)
THEOREM PipelineImplementsEnding == Spec => ImplementsEnding
<1>1. Init => Ending!Init
  BY DEF Init, Ending!Init, Ending!Unfinished
<1> QED
  BY <1>1, EndingStep, PipelineInvariant, PTL DEF Spec, ImplementsEnding, Ending!Spec
=============================================================================
