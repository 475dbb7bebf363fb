---------------------------- MODULE BuildPipeline ----------------------------
(***************************************************************************)
(* The path of a build through the server: the POST /build and             *)
(* POST /forge/install handlers (routes/build.rs, routes/install.rs), the  *)
(* bounded queue (queue.rs), the dispatcher loop and the process_job tasks *)
(* (worker.rs), over the SQLite rows (db.rs) and the archive files that    *)
(* survive a restart.                                                      *)
(*                                                                         *)
(* A step is one scope of the connection mutex, one call on the channel or *)
(* one stretch of code that touches no shared state.  The only scope with  *)
(* more than one SQL statement, the end of process_job, keeps the mutex    *)
(* over three steps, since each statement commits by itself.               *)
(*                                                                         *)
(* An operator whose comment begins with "Slip:" is no part of the model:  *)
(* it is a plausible mistake in the operation defined after it, kept to    *)
(* see that a property notices.                                            *)
(***************************************************************************)
EXTENDS Naturals, Sequences, FiniteSets

CONSTANTS
  Requests,     \* build requests, in the order in which they are authenticated
  CacheKeys,    \* values of compute_cache_key
  Malformed,    \* keys whose project URL has no character boundary at byte 8
  JobTypes,     \* job types asked for, a subset of those of the jobs table
  Capacity,     \* KOVAL_QUEUE_CAPACITY
  MaxRestarts,  \* bound of the model: how often the process dies
  MayFail       \* whether an SQL statement, a file read or a task may fail

ASSUME RequestsAssumption == Requests \subseteq Nat \ {0}
ASSUME MalformedAssumption == Malformed \subseteq CacheKeys
ASSUME CapacityAssumption == Capacity \in Nat \ {0}
ASSUME TypesAssumption    == JobTypes \subseteq {"standard", "pgo_instrument",
                                                 "pgo_optimize"}
ASSUME BoundAssumption    == MaxRestarts \in Nat
ASSUME FaultAssumption    == MayFail \in BOOLEAN

NoJob == 0

VARIABLES
  \* what a client asked and where its handler is
  req,          \* req[r]: job type and cache key of request r
  handler,      \* handler[r]: next step of the handler
  reply,        \* reply[r]: what the client was told, with a job id; while it
                \* is pending, the id is the cached job the lookup found
  \* in memory, lost when the process dies
  queue,        \* the mpsc channel
  task,         \* task[j]: next step of process_job for j
  lock,         \* job whose task holds the connection mutex, or NoJob
  \* on disk
  status,       \* jobs.status, "none" while there is no row
  artifact,     \* jobs with a row in artifacts
  cache,        \* build_cache: key to job, or NoJob
  archive,      \* archive[j]: the .tar.gz of j
  workdir,      \* jobs whose koval_build_<id> directory exists
  \* history
  notified,     \* jobs whose webhook deliveries were scheduled
  restarts

handlerVars == <<req, handler, reply>>
memoryVars  == <<queue, task, lock>>
diskVars    == <<status, artifact, cache, archive, workdir>>
vars == <<handlerVars, memoryVars, diskVars, notified, restarts>>

Statuses == {"none", "queued", "building", "done", "failed"}
Terminal == {"done", "failed"}

HandlerSteps == {"authenticate", "lookup", "answer", "record", "enqueue",
                 "reject", "replied", "lost"}
TaskSteps == {"none", "spawned", "building", "hashing", "failing", "storing",
              "caching", "marking", "finishing", "ended", "aborted", "lost"}
Codes == {"pending", "refused", "accepted", "cached", "full", "error"}

TypeOK ==
  /\ req \in [Requests -> [type: JobTypes, key: CacheKeys]]
  /\ handler \in [Requests -> HandlerSteps]
  /\ reply \in [Requests -> [code: Codes, id: Requests \cup {NoJob}]]
  /\ queue \in Seq(Requests)
  /\ task \in [Requests -> TaskSteps]
  /\ lock \in Requests \cup {NoJob}
  /\ status \in [Requests -> Statuses]
  /\ artifact \subseteq Requests
  /\ cache \in [CacheKeys -> Requests \cup {NoJob}]
  /\ archive \in [Requests -> {"absent", "present", "removed"}]
  /\ workdir \subseteq Requests
  /\ notified \subseteq Requests
  /\ restarts \in Nat

Init ==
  /\ req \in [Requests -> [type: JobTypes, key: CacheKeys]]
  /\ handler = [r \in Requests |-> "authenticate"]
  /\ reply = [r \in Requests |-> [code |-> "pending", id |-> NoJob]]
  /\ queue = <<>>
  /\ task = [j \in Requests |-> "none"]
  /\ lock = NoJob
  /\ status = [j \in Requests |-> "none"]
  /\ artifact = {}
  /\ cache = [k \in CacheKeys |-> NoJob]
  /\ archive = [j \in Requests |-> "absent"]
  /\ workdir = {}
  /\ notified = {}
  /\ restarts = 0

Unlocked == lock = NoJob

HandlerAt(r, from, to) == /\ handler[r] = from
                          /\ handler' = [handler EXCEPT ![r] = to]

TaskAt(j, from, to) == /\ task[j] = from
                       /\ task' = [task EXCEPT ![j] = to]

Reply(r, code, id) == reply' = [reply EXCEPT ![r] = [code |-> code, id |-> id]]

SetStatus(j, s) == status' = [status EXCEPT ![j] = s]

------------------------------------------------------------------------------
(* The request handlers *)

(***************************************************************************)
(* Bearer token, rate limit and payload checks.  Requests are numbered in  *)
(* the order in which they get through, or fail, here.                     *)
(***************************************************************************)
Authenticate(r) ==
  /\ Unlocked
  /\ \A i \in Requests : i < r => handler[i] # "authenticate"
  /\ \/ /\ HandlerAt(r, "authenticate", "lookup")
        /\ UNCHANGED reply
     \/ /\ HandlerAt(r, "authenticate", "replied")
        /\ Reply(r, "refused", NoJob)
  /\ UNCHANGED <<req, memoryVars, diskVars, notified, restarts>>

\* Slip: the status of the cached job is not looked at.
ServableAnyStatus(k) == /\ cache[k] # NoJob
                        /\ cache[k] \in artifact
                        /\ archive[cache[k]] = "present"

\* Slip: the archive is trusted to be on disk.
ServableWithoutFile(k) == /\ cache[k] # NoJob
                          /\ status[cache[k]] = "done"
                          /\ cache[k] \in artifact

\* The cached job a lookup under the mutex accepts.
Servable(k) == /\ cache[k] # NoJob
               /\ status[cache[k]] = "done"
               /\ cache[k] \in artifact
               /\ archive[cache[k]] = "present"

\* cached_id is taken under the mutex; nothing is sent before it is released.
CacheHit(r) ==
  /\ Unlocked
  /\ req[r].type = "standard"
  /\ Servable(req[r].key)
  /\ HandlerAt(r, "lookup", "answer")
  /\ Reply(r, "pending", cache[req[r].key])
  /\ UNCHANGED <<req, memoryVars, diskVars, notified, restarts>>

\* The client is sent to cached_id, wherever its archive is by now.
Answer(r) ==
  /\ HandlerAt(r, "answer", "replied")
  /\ Reply(r, "cached", reply[r].id)
  /\ UNCHANGED <<req, memoryVars, diskVars, notified, restarts>>

\* A failed query counts as a miss; a PGO build does not look.
CacheMiss(r) ==
  /\ \/ req[r].type # "standard"
     \/ Unlocked /\ (MayFail \/ ~Servable(req[r].key))
  /\ HandlerAt(r, "lookup", "record")
  /\ UNCHANGED <<req, reply, memoryVars, diskVars, notified, restarts>>

RecordJob(r) ==
  /\ Unlocked
  /\ \/ /\ HandlerAt(r, "record", "enqueue")
        /\ SetStatus(r, "queued")
        /\ UNCHANGED reply
     \/ /\ MayFail
        /\ HandlerAt(r, "record", "replied")
        /\ Reply(r, "error", NoJob)
        /\ UNCHANGED status
  /\ UNCHANGED <<req, memoryVars, artifact, cache, archive, workdir, notified,
                 restarts>>

\* Slip: one job more than the capacity fits.
EnqueueOneMore(r) ==
  /\ Len(queue) <= Capacity
  /\ HandlerAt(r, "enqueue", "replied")
  /\ queue' = Append(queue, r)
  /\ Reply(r, "accepted", r)
  /\ UNCHANGED <<req, task, lock, diskVars, notified, restarts>>

\* Slip: the job is sent although the queue is reported full.
EnqueueAndReject(r) ==
  /\ HandlerAt(r, "enqueue", IF Len(queue) < Capacity THEN "replied"
                                                      ELSE "reject")
  /\ queue' = Append(queue, r)
  /\ IF Len(queue) < Capacity THEN Reply(r, "accepted", r)
                              ELSE UNCHANGED reply
  /\ UNCHANGED <<req, task, lock, diskVars, notified, restarts>>

\* Slip: the result of try_send is dropped.
EnqueueUnchecked(r) ==
  /\ HandlerAt(r, "enqueue", "replied")
  /\ queue' = IF Len(queue) < Capacity THEN Append(queue, r) ELSE queue
  /\ Reply(r, "accepted", r)
  /\ UNCHANGED <<req, task, lock, diskVars, notified, restarts>>

(***************************************************************************)
(* try_send never waits.  The receiver lives in the dispatcher task as     *)
(* long as the process does, so the channel is never found closed.         *)
(***************************************************************************)
Enqueue(r) ==
  /\ \/ /\ Len(queue) < Capacity
        /\ HandlerAt(r, "enqueue", "replied")
        /\ queue' = Append(queue, r)
        /\ Reply(r, "accepted", r)
     \/ /\ Len(queue) >= Capacity
        /\ HandlerAt(r, "enqueue", "reject")
        /\ UNCHANGED <<queue, reply>>
  /\ UNCHANGED <<req, task, lock, diskVars, notified, restarts>>

\* The result of the update is dropped: the client gets 503 either way.
RejectFull(r) ==
  /\ Unlocked
  /\ HandlerAt(r, "reject", "replied")
  /\ Reply(r, "full", NoJob)
  /\ \/ SetStatus(r, "failed")
     \/ MayFail /\ UNCHANGED status
  /\ UNCHANGED <<req, memoryVars, artifact, cache, archive, workdir, notified,
                 restarts>>

HandlerStep(r) == \/ CacheHit(r) \/ Answer(r) \/ CacheMiss(r)
                  \/ RecordJob(r) \/ Enqueue(r) \/ RejectFull(r)

------------------------------------------------------------------------------
(* The dispatcher and the build tasks *)

\* A received job gets a blocking task at once; no earlier one is awaited.
Dispatch ==
  /\ queue # <<>>
  /\ task' = [task EXCEPT ![Head(queue)] = "spawned"]
  /\ queue' = Tail(queue)
  /\ UNCHANGED <<handlerVars, lock, diskVars, notified, restarts>>

\* An error returned with ? ends the task and only prints a line.
Abort(j, from) ==
  /\ MayFail
  /\ TaskAt(j, from, "aborted")
  /\ lock' = IF lock = j THEN NoJob ELSE lock
  /\ UNCHANGED <<handlerVars, queue, diskVars, notified, restarts>>

StartBuild(j) ==
  /\ Unlocked
  /\ \/ /\ TaskAt(j, "spawned", "building")
        /\ SetStatus(j, "building")
        /\ workdir' = workdir \ {j}
        /\ UNCHANGED <<handlerVars, queue, lock, artifact, cache, archive,
                       notified, restarts>>
     \/ Abort(j, "spawned")

\* Slip: a failed build leaves with ? instead of fail_job.
BuildFailsSilently(j) ==
  /\ TaskAt(j, "building", "aborted")
  /\ workdir' = workdir \cup {j}
  /\ UNCHANGED <<handlerVars, queue, lock, status, artifact, cache, archive,
                 notified, restarts>>

(***************************************************************************)
(* Clone, check out, read koval.toml and Cargo.toml, run cargo and pack    *)
(* the binaries.  A failure may come before the clone makes the directory, *)
(* after it, or after tar wrote a part of the archive.                     *)
(***************************************************************************)
BuildFails(j) ==
  /\ TaskAt(j, "building", "failing")
  /\ workdir' \in {workdir, workdir \cup {j}}
  /\ archive' \in {archive, [archive EXCEPT ![j] = "present"]}
  /\ j \notin workdir' => archive' = archive
  /\ UNCHANGED <<handlerVars, queue, lock, status, artifact, cache, notified,
                 restarts>>

BuildSucceeds(j) ==
  /\ TaskAt(j, "building", "hashing")
  /\ workdir' = workdir \cup {j}
  /\ archive' = [archive EXCEPT ![j] = "present"]
  /\ UNCHANGED <<handlerVars, queue, lock, status, artifact, cache, notified,
                 restarts>>

\* A panic or a ? on the way; fail_job is not called.
BuildAborts(j) ==
  /\ MayFail
  /\ TaskAt(j, "building", "aborted")
  /\ workdir' \in {workdir, workdir \cup {j}}
  /\ UNCHANGED <<handlerVars, queue, lock, status, artifact, cache, archive,
                 notified, restarts>>

\* validate_project_url slices the URL inside a character and panics before
\* the clone: no statement has failed, and fail_job is not called.
Panic(j) ==
  /\ req[j].key \in Malformed
  /\ TaskAt(j, "building", "aborted")
  /\ UNCHANGED <<handlerVars, queue, lock, diskVars, notified, restarts>>

RunBuild(j) == \/ Panic(j)
               \/ /\ req[j].key \notin Malformed
                  /\ BuildFails(j) \/ BuildSucceeds(j) \/ BuildAborts(j)

\* SHA-256 of the archive; a missing or unreadable file leaves with ?.
HashArchive(j) ==
  \/ /\ archive[j] = "present"
     /\ TaskAt(j, "hashing", "storing")
     /\ UNCHANGED <<handlerVars, queue, lock, diskVars, notified, restarts>>
  \/ Abort(j, "hashing")

(* The three statements under one scope of the mutex *)

\* Slip: the cache entry goes in before the artifact row.
CacheEntryFirst(j) ==
  /\ Unlocked
  /\ TaskAt(j, "storing", "caching")
  /\ lock' = j
  /\ cache' = [cache EXCEPT ![req[j].key] = j]
  /\ UNCHANGED <<handlerVars, queue, status, artifact, archive, workdir,
                 notified, restarts>>

\* Slip: a failed insert is ignored and the job goes on to done.
InsertArtifactUnchecked(j) ==
  /\ Unlocked
  /\ TaskAt(j, "storing", "caching")
  /\ lock' = j
  /\ artifact' \in {artifact \cup {j}, artifact}
  /\ UNCHANGED <<handlerVars, queue, status, cache, archive, workdir, notified,
                 restarts>>

InsertArtifact(j) ==
  /\ Unlocked
  /\ \/ /\ TaskAt(j, "storing", "caching")
        /\ lock' = j
        /\ artifact' = artifact \cup {j}
        /\ UNCHANGED <<handlerVars, queue, status, cache, archive, workdir,
                       notified, restarts>>
     \/ Abort(j, "storing")

\* Slip: the last statement runs in a scope of its own.
InsertCacheEntryAndUnlock(j) ==
  /\ TaskAt(j, "caching", "marking")
  /\ cache' = [cache EXCEPT ![req[j].key] = j]
  /\ lock' = NoJob
  /\ UNCHANGED <<handlerVars, queue, status, artifact, archive, workdir,
                 notified, restarts>>

InsertCacheEntry(j) ==
  \/ /\ TaskAt(j, "caching", "marking")
     /\ cache' = [cache EXCEPT ![req[j].key] = j]
     /\ UNCHANGED <<handlerVars, queue, lock, status, artifact, archive,
                    workdir, notified, restarts>>
  \/ Abort(j, "caching")

\* Slip: the guard outlives the scope.
MarkDoneKeepsLock(j) ==
  /\ TaskAt(j, "marking", "finishing")
  /\ SetStatus(j, "done")
  /\ UNCHANGED <<handlerVars, queue, lock, artifact, cache, archive, workdir,
                 notified, restarts>>

MarkDone(j) ==
  \/ /\ TaskAt(j, "marking", "finishing")
     /\ SetStatus(j, "done")
     /\ lock' = NoJob
     /\ UNCHANGED <<handlerVars, queue, artifact, cache, archive, workdir,
                    notified, restarts>>
  \/ Abort(j, "marking")

\* Slip: the result of the update is ignored and the webhooks go out.
MarkFailedUnchecked(j) ==
  /\ Unlocked
  /\ TaskAt(j, "failing", "finishing")
  /\ \/ SetStatus(j, "failed")
     \/ MayFail /\ UNCHANGED status
  /\ UNCHANGED <<handlerVars, queue, lock, artifact, cache, archive, workdir,
                 notified, restarts>>

MarkFailed(j) ==
  /\ Unlocked
  /\ \/ /\ TaskAt(j, "failing", "finishing")
        /\ SetStatus(j, "failed")
        /\ UNCHANGED <<handlerVars, queue, lock, artifact, cache, archive,
                       workdir, notified, restarts>>
     \/ Abort(j, "failing")

\* Slip: only the successful end removes the directory.
FinishCleansDone(j) ==
  /\ TaskAt(j, "finishing", "ended")
  /\ notified' = notified \cup {j}
  /\ workdir' = IF status[j] = "done" THEN workdir \ {j} ELSE workdir
  /\ UNCHANGED <<handlerVars, queue, lock, status, artifact, cache, archive,
                 restarts>>

\* Both ends of process_job schedule the webhooks and remove the directory.
Finish(j) ==
  /\ TaskAt(j, "finishing", "ended")
  /\ notified' = notified \cup {j}
  /\ workdir' = workdir \ {j}
  /\ UNCHANGED <<handlerVars, queue, lock, status, artifact, cache, archive,
                 restarts>>

TaskStep(j) == \/ StartBuild(j) \/ RunBuild(j) \/ HashArchive(j)
               \/ InsertArtifact(j) \/ InsertCacheEntry(j) \/ MarkDone(j)
               \/ MarkFailed(j) \/ Finish(j)

------------------------------------------------------------------------------
(* The environment *)

\* Slip: the start-up fails every row it finds, not only the unfinished ones.
RestartFailsEveryRow ==
  /\ restarts < MaxRestarts
  /\ restarts' = restarts + 1
  /\ handler' = [r \in Requests |-> IF handler[r] = "authenticate"
                                    THEN "authenticate" ELSE "lost"]
  /\ queue' = <<>>
  /\ task' = [j \in Requests |-> IF task[j] = "none" THEN "none" ELSE "lost"]
  /\ lock' = NoJob
  /\ status' = [j \in Requests |-> IF status[j] = "none" THEN "none"
                                                        ELSE "failed"]
  /\ UNCHANGED <<req, reply, artifact, cache, archive, workdir, notified>>

(***************************************************************************)
(* The process dies and main runs again.  It creates missing tables and an *)
(* empty queue; it reads no queued or building row.                        *)
(***************************************************************************)
Restart ==
  /\ restarts < MaxRestarts
  /\ restarts' = restarts + 1
  /\ handler' = [r \in Requests |->
                   IF handler[r] \in {"authenticate", "replied"}
                   THEN handler[r] ELSE "lost"]
  /\ queue' = <<>>
  /\ task' = [j \in Requests |->
                IF task[j] \in {"none", "ended", "aborted"}
                THEN task[j] ELSE "lost"]
  /\ lock' = NoJob
  /\ UNCHANGED <<req, reply, diskVars, notified>>

\* Someone deletes a finished archive from the artifacts directory.
RemoveArchive(j) ==
  /\ status[j] = "done"
  /\ archive[j] = "present"
  /\ archive' = [archive EXCEPT ![j] = "removed"]
  /\ UNCHANGED <<handlerVars, memoryVars, status, artifact, cache, workdir,
                 notified, restarts>>

Next == \/ \E r \in Requests : \/ Authenticate(r) \/ HandlerStep(r)
                               \/ TaskStep(r) \/ RemoveArchive(r)
        \/ Dispatch
        \/ Restart

Spec == Init /\ [][Next]_vars

(***************************************************************************)
(* The runtime polls the handlers it has begun and the dispatcher and runs *)
(* the blocking tasks.  That RunBuild ends rests on the build timeout for  *)
(* cargo and on git and tar returning.  Nothing makes a client ask, the    *)
(* process die or an operator remove a file.                               *)
(***************************************************************************)
Fairness == /\ \A r \in Requests : WF_vars(HandlerStep(r))
            /\ \A j \in Requests : WF_vars(TaskStep(j))
            /\ WF_vars(Dispatch)

FairSpec == Spec /\ Fairness

------------------------------------------------------------------------------
(* Safety, with every failure and restart *)

(***************************************************************************)
(* What the dispatcher receives is a job it may start: recorded, accepted, *)
(* still queued, held once, and never more than KOVAL_QUEUE_CAPACITY.      *)
(***************************************************************************)
QueueHoldsWaitingJobs ==
  /\ Len(queue) <= Capacity
  /\ \A i \in 1 .. Len(queue) :
       /\ status[queue[i]] = "queued"
       /\ task[queue[i]] = "none"
       /\ reply[queue[i]] = [code |-> "accepted", id |-> queue[i]]
       /\ \A k \in 1 .. Len(queue) : queue[i] = queue[k] => i = k

(***************************************************************************)
(* A job reported done has its artifact row, and an archive was written    *)
(* for it, whatever statement failed or whenever the process died.         *)
(***************************************************************************)
DoneHasArtifact ==
  \A j \in Requests :
    status[j] = "done" => j \in artifact /\ archive[j] # "absent"

(***************************************************************************)
(* A cache entry names a job built for that key whose artifact row is      *)
(* stored: the order of the three last statements of process_job.          *)
(***************************************************************************)
CacheNamesArtifact ==
  \A k \in CacheKeys :
    cache[k] # NoJob => /\ cache[k] \in artifact
                        /\ req[cache[k]].key = k
                        /\ archive[cache[k]] # "absent"

(***************************************************************************)
(* A client answered from the cache holds the id of another request's job, *)
(* asked with the same key, that stays done from then on.                  *)
(***************************************************************************)
CachedReplyStaysDone ==
  \A r \in Requests :
    reply[r].code = "cached" =>
      /\ reply[r].id \in Requests \ {r}
      /\ status[reply[r].id] = "done"
      /\ req[reply[r].id].key = req[r].key

(***************************************************************************)
(* The 503 for a full queue is final: the job is never queued, dispatched  *)
(* or built later, and its row is failed unless that update itself failed. *)
(***************************************************************************)
FullIsNeverBuilt ==
  \A r \in Requests :
    reply[r].code = "full" =>
      /\ task[r] = "none"
      /\ \A i \in 1 .. Len(queue) : queue[i] # r
      /\ status[r] = "failed" \/ (MayFail /\ status[r] = "queued")

(***************************************************************************)
(* No job is forgotten: a queued or building row has somebody who moves it *)
(* on, its handler, the channel or its task, unless the process died and   *)
(* took the owner with it, a statement or the task of this job failed, or  *)
(* its URL is one that validate_project_url panics on.                     *)
(***************************************************************************)
UnfinishedIsOwned ==
  \A j \in Requests :
    status[j] \in {"queued", "building"} =>
      \/ handler[j] \in {"enqueue", "reject"}
      \/ \E i \in 1 .. Len(queue) : queue[i] = j
      \/ task[j] \notin {"none", "ended", "aborted", "lost"}
      \/ restarts > 0 /\ task[j] \in {"none", "lost"}
      \/ task[j] = "aborted" /\ (MayFail \/ req[j].key \in Malformed)
      \/ reply[j].code = "full" /\ MayFail

(***************************************************************************)
(* The fallback of a cache hit: once the archive of a job is gone, no      *)
(* request that has not looked yet is answered with that job, however the  *)
(* key's entry and the other requests develop.  A request past its lookup  *)
(* may be: that window is the only way to an archive that is gone.         *)
(***************************************************************************)
RemovedIsNotServed ==
  \A r, j \in Requests :
    [](archive[j] = "removed" /\ handler[r] \in {"authenticate", "lookup"}
         => [](reply[r].code = "cached" => reply[r].id # j))

(***************************************************************************)
(* The server implements the promise of JobLifecycle.                      *)
(***************************************************************************)
Lifecycle == INSTANCE JobLifecycle
               WITH published <- {j \in artifact : status[j] = "done"}

ImplementsLifecycle == Lifecycle!Spec

(***************************************************************************)
(* Its end of a build keeps the promise of JobEnding: webhooks are         *)
(* scheduled with the status the row has and keeps, although statements    *)
(* fail and the process dies between them.                                 *)
(***************************************************************************)
Ending == INSTANCE JobEnding
            WITH Jobs <- Requests,
                 told <- {<<j, status[j]>> : j \in notified}

ImplementsEnding == Ending!Spec

------------------------------------------------------------------------------
(* Without failures and restarts *)

(***************************************************************************)
(* Whoever takes the mutex finds no half-made end of a build: an entry of  *)
(* the cache always names a job that is already done.                      *)
(***************************************************************************)
CacheNamesDoneJobs ==
  ~MayFail /\ MaxRestarts = 0 /\ Unlocked =>
    \A k \in CacheKeys : cache[k] # NoJob => status[cache[k]] = "done"

\* An accepted job ends, and so does every job that left its handler.
ImplementsLiveLifecycle == Lifecycle!LiveSpec

\* A handler that passed authentication answers its client.
EveryRequestAnswered ==
  \A r \in Requests : handler[r] = "lookup" ~> handler[r] = "replied"

\* A job that started building, and then succeeded or failed at whichever
\* step, has its webhooks scheduled and leaves no build directory behind.
BuiltJobsWindUp ==
  \A j \in Requests :
    status[j] = "building" ~> j \in notified /\ j \notin workdir
=============================================================================
