------------------------------ MODULE JobEnding ------------------------------
(***************************************************************************)
(* What the build server promises about the end of a job to those who are  *)
(* told of it (the two ends of process_job in server/src/worker.rs, and    *)
(* server/src/webhook.rs): a status is told only when the job's row has    *)
(* it and can lose it no more, so that whoever asks after a notification   *)
(* reads what the notification said.                                       *)
(* How jobs get that far, who listens, how often one is told and which     *)
(* calls get lost does not appear here.  BuildPipeline, where deliveries   *)
(* are scheduled, and WebhookDelivery, where receivers are called, are     *)
(* both shown to implement it.                                             *)
(***************************************************************************)
CONSTANT Jobs

VARIABLES status,   \* the job's status, "none" before its row exists
          told      \* what was told, as pairs of a job and a status

vars == <<status, told>>

Unfinished == {"none", "queued", "building"}
Terminal   == {"done", "failed"}

Init == /\ status \in [Jobs -> Unfinished]
        /\ told = {}

\* Anything may happen to a job until it ends, and nothing after.
Move(j) == /\ status[j] \in Unfinished
           /\ \E s \in Unfinished \cup Terminal :
                status' = [status EXCEPT ![j] = s]
           /\ UNCHANGED told

Tell(j) == /\ status[j] \in Terminal
           /\ told' = told \cup {<<j, status[j]>>}
           /\ UNCHANGED status

Next == \E j \in Jobs : Move(j) \/ Tell(j)

Spec == Init /\ [][Next]_vars
=============================================================================
