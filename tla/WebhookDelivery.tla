--------------------------- MODULE WebhookDelivery ---------------------------
(***************************************************************************)
(* Telling a token's webhooks how its jobs ended: the registration routes  *)
(* (routes/webhooks.rs), the end of process_job, which reads the list of   *)
(* webhooks, updates the row and then schedules the deliveries (worker.rs, *)
(* in fail_job and at the end of a successful build), and the delivery     *)
(* tasks with their attempts (webhook.rs).                                 *)
(*                                                                         *)
(* The network may lose a request, lose or delay its answer past the       *)
(* client's timeout, or carry a refusal.  Backoff sleeps only separate the *)
(* attempts and are not steps.  Deliveries live in memory.                 *)
(*                                                                         *)
(* An operator whose comment begins with "Slip:" is no part of the model:  *)
(* it is a plausible mistake in the operation defined after it.            *)
(***************************************************************************)
EXTENDS Naturals, FiniteSets

CONSTANTS
  Jobs,         \* jobs that are about to end
  Hooks,        \* webhook ids, rows of the table as they are registered
  Tokens,
  MaxRestarts,  \* bound of the model: how often the process dies
  MayFail       \* whether the update of the job's row may fail

ASSUME RestartsAssumption == MaxRestarts \in Nat
ASSUME MayFailAssumption  == MayFail \in BOOLEAN

MaxAttempts == 3
Deliveries == Jobs \X Hooks

VARIABLES
  jobToken,   \* jobs.token_id
  hookToken,  \* webhooks.token_id
  hook,       \* webhooks: no row yet, is_active = 1, is_active = 0
  status,     \* jobs.status
  ending,     \* ending[j]: where the end of process_job for j is
  outcome,    \* outcome[j]: the status the end of j is about to write
  list,       \* list[j]: the webhooks read for j
  delivery,   \* delivery[j, h]: the delivery task
  attempts,   \* attempts[j, h]: requests it sent
  received,   \* history: how many of them reached the receiver
  acked,      \* history: deliveries that got a success
  restarts

routeVars == <<jobToken, hookToken, hook>>
jobVars   == <<status, ending, outcome, list>>
taskVars  == <<delivery, attempts, received, acked>>
vars == <<routeVars, jobVars, taskVars, restarts>>

Terminal == {"done", "failed"}

TypeOK ==
  /\ jobToken \in [Jobs -> Tokens]
  /\ hookToken \in [Hooks -> Tokens]
  /\ hook \in [Hooks -> {"none", "active", "inactive"}]
  /\ status \in [Jobs -> {"building"} \cup Terminal]
  /\ ending \in [Jobs -> {"running", "listed", "updated", "ended"}]
  /\ outcome \in [Jobs -> Terminal]
  /\ list \in [Jobs -> SUBSET Hooks]
  /\ delivery \in [Deliveries -> {"none", "pending", "delivered", "abandoned",
                                  "lost"}]
  /\ attempts \in [Deliveries -> 0 .. MaxAttempts]
  /\ received \in [Deliveries -> 0 .. MaxAttempts]
  /\ acked \subseteq Deliveries
  /\ restarts \in 0 .. MaxRestarts

Init ==
  /\ jobToken \in [Jobs -> Tokens]
  /\ hookToken \in [Hooks -> Tokens]
  /\ hook = [h \in Hooks |-> "none"]
  /\ status = [j \in Jobs |-> "building"]
  /\ ending = [j \in Jobs |-> "running"]
  /\ outcome \in [Jobs -> Terminal]
  /\ list = [j \in Jobs |-> {}]
  /\ delivery = [d \in Deliveries |-> "none"]
  /\ attempts = [d \in Deliveries |-> 0]
  /\ received = [d \in Deliveries |-> 0]
  /\ acked = {}
  /\ restarts = 0

------------------------------------------------------------------------------
(* The routes *)

Register(h) ==
  /\ hook[h] = "none"
  /\ hook' = [hook EXCEPT ![h] = "active"]
  /\ UNCHANGED <<jobToken, hookToken, jobVars, taskVars, restarts>>

(***************************************************************************)
(* DELETE changes no row of another token (404); it answers 204 for a row  *)
(* that is inactive already, which changes nothing either.                 *)
(***************************************************************************)
Deactivate(h) ==
  /\ hook[h] = "active"
  /\ hook' = [hook EXCEPT ![h] = "inactive"]
  /\ UNCHANGED <<jobToken, hookToken, jobVars, taskVars, restarts>>

------------------------------------------------------------------------------
(* The end of process_job, in three steps *)

\* Slip: the deactivated webhooks are read too.
SubscribersAndFormer(j) ==
  {h \in Hooks : hookToken[h] = jobToken[j] /\ hook[h] # "none"}

\* get_webhooks_delivery_info; a failed query leaves an empty list.
Subscribers(j) ==
  {h \in Hooks : hookToken[h] = jobToken[j] /\ hook[h] = "active"}

ReadList(j) ==
  /\ ending[j] = "running"
  /\ ending' = [ending EXCEPT ![j] = "listed"]
  /\ \/ list' = [list EXCEPT ![j] = Subscribers(j)]
     \/ MayFail /\ UNCHANGED list
  /\ UNCHANGED <<routeVars, status, outcome, taskVars, restarts>>

\* Slip: the deliveries are scheduled although the update failed.
UpdateStatusUnchecked(j) ==
  /\ ending[j] = "listed"
  /\ ending' = [ending EXCEPT ![j] = "updated"]
  /\ \/ status' = [status EXCEPT ![j] = outcome[j]]
     \/ MayFail /\ UNCHANGED status
  /\ UNCHANGED <<routeVars, outcome, list, taskVars, restarts>>

\* A failed update leaves process_job with ?, before the deliveries.
UpdateStatus(j) ==
  /\ ending[j] = "listed"
  /\ \/ /\ ending' = [ending EXCEPT ![j] = "updated"]
        /\ status' = [status EXCEPT ![j] = outcome[j]]
     \/ /\ MayFail
        /\ ending' = [ending EXCEPT ![j] = "ended"]
        /\ UNCHANGED status
  /\ UNCHANGED <<routeVars, outcome, list, taskVars, restarts>>

\* Slip: only failures are told.
ScheduleFailures(j) ==
  /\ ending[j] = "updated"
  /\ ending' = [ending EXCEPT ![j] = "ended"]
  /\ delivery' = [d \in Deliveries |->
                    IF d[1] = j /\ d[2] \in list[j] /\ outcome[j] = "failed"
                    THEN "pending" ELSE delivery[d]]
  /\ UNCHANGED <<routeVars, status, outcome, list, attempts, received, acked,
                 restarts>>

\* deliver spawns one task for each webhook of the list.
Schedule(j) ==
  /\ ending[j] = "updated"
  /\ ending' = [ending EXCEPT ![j] = "ended"]
  /\ delivery' = [d \in Deliveries |->
                    IF d[1] = j /\ d[2] \in list[j]
                    THEN "pending" ELSE delivery[d]]
  /\ UNCHANGED <<routeVars, status, outcome, list, attempts, received, acked,
                 restarts>>

EndJob(j) == ReadList(j) \/ UpdateStatus(j) \/ Schedule(j)

------------------------------------------------------------------------------
(* A delivery task *)

Reaches(d) == received' = [received EXCEPT ![d] = @ + 1]

\* Slip: the loop goes on after a success.
AnsweredKeepsSending(d) ==
  /\ Reaches(d)
  /\ delivery' = [delivery EXCEPT ![d] =
                    IF attempts'[d] = MaxAttempts THEN "delivered" ELSE "pending"]

\* An answer in the 2xx range ends the task.
Answered(d) ==
  /\ Reaches(d)
  /\ delivery' = [delivery EXCEPT ![d] = "delivered"]

\* Slip: the attempts are counted from zero.
UnansweredOneMore(d) ==
  /\ Reaches(d) \/ UNCHANGED received
  /\ delivery' = [delivery EXCEPT ![d] =
                    IF attempts'[d] > MaxAttempts THEN "abandoned" ELSE @]

\* Another status, an error, or an answer after the 5 seconds of the client.
Unanswered(d) ==
  /\ Reaches(d) \/ UNCHANGED received
  /\ delivery' = [delivery EXCEPT ![d] =
                    IF attempts'[d] = MaxAttempts THEN "abandoned" ELSE @]

Attempt(d) ==
  /\ delivery[d] = "pending"
  /\ attempts' = [attempts EXCEPT ![d] = @ + 1]
  /\ \/ Answered(d) /\ acked' = acked \cup {d}
     \/ Unanswered(d) /\ UNCHANGED acked
  /\ UNCHANGED <<routeVars, jobVars, restarts>>

\* The process dies: build tasks and delivery tasks are gone, rows are not.
Restart ==
  /\ restarts < MaxRestarts
  /\ restarts' = restarts + 1
  /\ ending' = [j \in Jobs |-> "ended"]
  /\ delivery' = [d \in Deliveries |-> IF delivery[d] = "pending" THEN "lost"
                                                                  ELSE delivery[d]]
  /\ UNCHANGED <<routeVars, status, outcome, list, attempts, received, acked>>

Next == \/ \E h \in Hooks : Register(h) \/ Deactivate(h)
        \/ \E j \in Jobs : EndJob(j)
        \/ \E d \in Deliveries : Attempt(d)
        \/ Restart

Spec == Init /\ [][Next]_vars

\* The runtime runs build tasks and delivery tasks it has begun, and every
\* attempt ends at the latest with the client's timeout.
FairSpec == /\ Spec
            /\ \A j \in Jobs : WF_vars(EndJob(j))
            /\ \A d \in Deliveries : WF_vars(Attempt(d))

------------------------------------------------------------------------------

(***************************************************************************)
(* What a receiver was told is in the job's row and stays there, whatever  *)
(* statement failed and whenever the process died.                         *)
(***************************************************************************)
ToldIsRecorded ==
  \A d \in Deliveries : received[d] > 0 => status[d[1]] = outcome[d[1]]

(***************************************************************************)
(* After a success the receiver hears nothing more of that job: a second   *)
(* copy can only follow a lost or late answer.                             *)
(***************************************************************************)
SilentAfterSuccess == [][\A d \in acked : attempts'[d] = attempts[d]]_vars

(***************************************************************************)
(* A webhook of another token, or one deactivated before the end of a job  *)
(* began, never hears of that job, even when it registered in time.        *)
(***************************************************************************)
OthersAreLeftAlone ==
  \A d \in Deliveries :
    [](\/ hookToken[d[2]] # jobToken[d[1]]
       \/ hook[d[2]] = "inactive" /\ ending[d[1]] = "running"
       => [](attempts[d] = 0))

(***************************************************************************)
(* A job that ended tells every webhook of its list, or tries three times; *)
(* only the death of the process comes between.                            *)
(***************************************************************************)
ListedIsTold ==
  \A d \in Deliveries :
    ending[d[1]] = "updated" /\ d[2] \in list[d[1]]
      ~> delivery[d] \in {"delivered", "abandoned"} \/ restarts > 0
=============================================================================
