---------------------------- MODULE JobLifecycle ----------------------------
(***************************************************************************)
(* What the build server promises about one build job, seen from outside:  *)
(* the status column of its row (server/src/db.rs, table jobs) moves only  *)
(* forward, a terminal status is final, and a job becomes "done" in the    *)
(* same step in which its artifact becomes available.  No queue, worker,   *)
(* lock or crash appears here; BuildPipeline is shown to implement it.     *)
(***************************************************************************)
CONSTANT Requests       \* build requests; an accepted one is its own job id

VARIABLES status,       \* the job's status, "none" before its row exists
          published     \* the jobs that are done with an artifact on record

vars == <<status, published>>

Statuses == {"none", "queued", "building", "done", "failed"}
Terminal == {"done", "failed"}

TypeOK == /\ status \in [Requests -> Statuses]
          /\ published \subseteq Requests

Init == /\ status = [j \in Requests |-> "none"]
        /\ published = {}

Move(j, from, to) == /\ status[j] = from
                     /\ status' = [status EXCEPT ![j] = to]

Submit(j)   == Move(j, "none", "queued")     /\ UNCHANGED published
Reject(j)   == Move(j, "queued", "failed")   /\ UNCHANGED published
Start(j)    == Move(j, "queued", "building") /\ UNCHANGED published
Fail(j)     == Move(j, "building", "failed") /\ UNCHANGED published
Complete(j) == /\ Move(j, "building", "done")
               /\ published' = published \cup {j}

Leave(j) == Reject(j) \/ Start(j)       \* a queued job moves on
End(j)   == Fail(j) \/ Complete(j)      \* a building job ends

Next == \E j \in Requests : Submit(j) \/ Leave(j) \/ End(j)

Spec == Init /\ [][Next]_vars

(***************************************************************************)
(* The promise with progress: no submitted job stays queued or building    *)
(* for ever.  The server keeps it only while nothing fails.                *)
(***************************************************************************)
Progress == \A j \in Requests : WF_vars(Leave(j)) /\ WF_vars(End(j))

LiveSpec == Spec /\ Progress
=============================================================================
