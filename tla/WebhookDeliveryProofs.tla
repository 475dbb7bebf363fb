----------------------- MODULE WebhookDeliveryProofs -----------------------
(***************************************************************************)
(* Proofs about WebhookDelivery, for any jobs, webhooks, tokens, failures  *)
(* and number of restarts.                                                 *)
(***************************************************************************)
EXTENDS WebhookDelivery, TLAPS

\* A task exists only behind an updated row, in the list of its job.
Backed ==
  /\ \A j \in Jobs : /\ list[j] \subseteq {h \in Hooks : hookToken[h] = jobToken[j]}
                     /\ ending[j] \in {"running", "listed"} => status[j] = "building"
                     /\ ending[j] = "updated" => status[j] = outcome[j]
                     /\ ending[j] = "running" => list[j] = {}
  /\ \A d \in Deliveries :
       delivery[d] # "none" => /\ status[d[1]] = outcome[d[1]]
                               /\ d[2] \in list[d[1]]
                               /\ ending[d[1]] = "ended"

\* What a task has done agrees with the state it is in.
Counts ==
  \A d \in Deliveries :
    /\ received[d] <= attempts[d]
    /\ attempts[d] > 0 => delivery[d] # "none"
    /\ delivery[d] = "pending" => attempts[d] < MaxAttempts
    /\ d \in acked => delivery[d] = "delivered"

IInv == TypeOK /\ Backed /\ Counts

LEMMA DeliveriesArePairs == \A d \in Deliveries : d[1] \in Jobs /\ d[2] \in Hooks
BY DEF Deliveries

LEMMA InitIInv == Init => IInv
<1> SUFFICES ASSUME Init PROVE IInv
  OBVIOUS
<1>1. TypeOK
  BY RestartsAssumption DEF Init, TypeOK, Terminal, MaxAttempts
<1>2. Backed /\ Counts
  BY DeliveriesArePairs DEF Init, Backed, Counts, MaxAttempts
<1> QED BY <1>1, <1>2 DEF IInv

\* One attempt counts one more, of at most three.
LEMMA AttemptCounts ==
  ASSUME TypeOK, Counts, NEW d \in Deliveries, Attempt(d)
  PROVE  TypeOK' /\ Counts'
<1>1. /\ attempts[d] \in 0 .. 3 /\ received[d] \in 0 .. 3
      /\ received[d] <= attempts[d] /\ attempts[d] < 3
      /\ delivery[d] = "pending" /\ d \notin acked
  BY DEF TypeOK, Counts, Attempt, MaxAttempts
<1>2. /\ attempts[d] + 1 \in 0 .. 3 /\ received[d] + 1 \in 0 .. 3
      /\ attempts[d] + 1 > 0
      /\ received[d] + 1 <= attempts[d] + 1 /\ received[d] <= attempts[d] + 1
      /\ attempts[d] + 1 # 3 => attempts[d] + 1 < 3
  BY <1>1
<1>3. attempts' = [attempts EXCEPT ![d] = attempts[d] + 1]
  BY DEF Attempt
<1>4. \/ received' = [received EXCEPT ![d] = received[d] + 1]
      \/ received' = received
  BY DEF Attempt, Answered, Unanswered, Reaches
<1>5. \/ delivery' = [delivery EXCEPT ![d] = "delivered"] /\ acked' = acked \cup {d}
      \/ /\ acked' = acked
         /\ delivery' = [delivery EXCEPT ![d] = IF attempts'[d] = 3 THEN "abandoned"
                                                                  ELSE "pending"]
  BY <1>1 DEF Attempt, Answered, Unanswered, MaxAttempts
<1>6. UNCHANGED <<routeVars, jobVars, restarts>>
  BY DEF Attempt
<1>7. TypeOK'
  <2>1. attempts' \in [Deliveries -> 0 .. 3] /\ received' \in [Deliveries -> 0 .. 3]
    BY <1>2, <1>3, <1>4 DEF TypeOK, MaxAttempts
  <2>2. /\ delivery' \in [Deliveries -> {"none", "pending", "delivered", "abandoned", "lost"}]
        /\ acked' \subseteq Deliveries
    BY <1>5 DEF TypeOK
  <2> QED BY <1>6, <2>1, <2>2 DEF TypeOK, routeVars, jobVars, MaxAttempts
<1>8. ASSUME NEW e \in Deliveries, e # d
      PROVE  UNCHANGED <<attempts[e], received[e], delivery[e]>> /\ (e \in acked' <=> e \in acked)
  BY <1>3, <1>4, <1>5, <1>8 DEF TypeOK
<1>9. /\ attempts'[d] = attempts[d] + 1
      /\ received'[d] = received[d] + 1 \/ received'[d] = received[d]
      /\ \/ delivery'[d] = "delivered"
         \/ d \notin acked' /\ delivery'[d] = "abandoned"
         \/ d \notin acked' /\ delivery'[d] = "pending" /\ attempts'[d] # 3
  BY <1>1, <1>3, <1>4, <1>5 DEF TypeOK
<1>10. /\ received'[d] <= attempts'[d]
       /\ attempts'[d] > 0 => delivery'[d] # "none"
       /\ delivery'[d] = "pending" => attempts'[d] < 3
       /\ d \in acked' => delivery'[d] = "delivered"
  BY <1>2, <1>9
<1>11. Counts'
  BY <1>8, <1>10 DEF Counts, MaxAttempts
<1> QED BY <1>7, <1>11

LEMMA TypeStep == IInv /\ [Next]_vars => TypeOK' /\ Counts'
<1> SUFFICES ASSUME TypeOK, Backed, Counts, [Next]_vars PROVE TypeOK' /\ Counts'
  BY DEF IInv
<1>1. CASE UNCHANGED vars
  BY <1>1 DEF vars, routeVars, jobVars, taskVars, TypeOK, Counts
<1>2. CASE \E h \in Hooks : Register(h) \/ Deactivate(h)
  BY <1>2 DEF Register, Deactivate, jobVars, taskVars, TypeOK, Counts
<1>3. ASSUME NEW j \in Jobs, EndJob(j)
      PROVE  TypeOK' /\ Counts'
  <2>1. CASE ReadList(j)
    BY <2>1 DEF ReadList, Subscribers, routeVars, taskVars, TypeOK, Counts
  <2>2. CASE UpdateStatus(j)
    BY <2>2 DEF UpdateStatus, routeVars, taskVars, TypeOK, Counts
  <2>3. CASE Schedule(j)
    <3>1. UNCHANGED <<attempts, received, acked, status, outcome, list, routeVars, restarts>>
      BY <2>3 DEF Schedule
    <3>2. \A d \in Deliveries : delivery[d] # "none" => ending[d[1]] = "ended"
      BY DEF Backed
    <3>3. \A d \in Deliveries : /\ delivery'[d] = delivery[d] \/ delivery'[d] = "pending"
                                /\ delivery'[d] # delivery[d] => delivery[d] = "none"
      BY <2>3, <3>2 DEF Schedule
    <3>4. \A d \in Deliveries : attempts[d] \in 0 .. 3
      BY DEF TypeOK, MaxAttempts
    <3>5. \A d \in Deliveries : delivery[d] = "none" => attempts[d] < 3 /\ d \notin acked
      BY <3>4 DEF Counts
    <3>6. Counts'
      BY <3>1, <3>3, <3>5 DEF Counts, MaxAttempts
    <3>7. TypeOK'
      BY <2>3 DEF Schedule, TypeOK, routeVars
    <3> QED BY <3>6, <3>7
  <2> QED BY <1>3, <2>1, <2>2, <2>3 DEF EndJob
<1>4. CASE \E d \in Deliveries : Attempt(d)
  BY <1>4, AttemptCounts
<1>5. CASE Restart
  <2>1. restarts' \in 0 .. MaxRestarts
    BY <1>5, RestartsAssumption DEF Restart, TypeOK
  <2>2. /\ delivery' \in [Deliveries -> {"none", "pending", "delivered", "abandoned", "lost"}]
        /\ ending' \in [Jobs -> {"running", "listed", "updated", "ended"}]
    BY <1>5 DEF Restart, TypeOK
  <2>3. TypeOK'
    BY <1>5, <2>1, <2>2 DEF Restart, TypeOK, routeVars
  <2>4. \A d \in Deliveries :
          \/ delivery'[d] = delivery[d] /\ delivery[d] # "pending"
          \/ delivery'[d] = "lost" /\ delivery[d] = "pending"
    BY <1>5 DEF Restart
  <2>5. Counts'
    BY <1>5, <2>4 DEF Restart, Counts
  <2> QED BY <2>3, <2>5
<1> QED BY <1>1, <1>2, <1>3, <1>4, <1>5 DEF Next

LEMMA BackedStep == IInv /\ [Next]_vars => Backed'
<1> SUFFICES ASSUME TypeOK, Backed, [Next]_vars PROVE Backed'
  BY DEF IInv
<1> USE DeliveriesArePairs
<1>1. CASE UNCHANGED vars
  BY <1>1 DEF vars, routeVars, jobVars, taskVars, Backed
<1>2. CASE \E h \in Hooks : Register(h) \/ Deactivate(h)
  BY <1>2 DEF Register, Deactivate, jobVars, taskVars, Backed
<1>3. ASSUME NEW j \in Jobs, EndJob(j)
      PROVE  Backed'
  <2>1. CASE ReadList(j)
    BY <2>1 DEF ReadList, Subscribers, routeVars, taskVars, TypeOK, Backed
  <2>2. CASE UpdateStatus(j)
    BY <2>2 DEF UpdateStatus, routeVars, taskVars, TypeOK, Backed
  <2>3. CASE Schedule(j)
    <3>1. /\ UNCHANGED <<status, outcome, list, routeVars>>
          /\ ending[j] = "updated" /\ ending' = [ending EXCEPT ![j] = "ended"]
      BY <2>3 DEF Schedule
    <3>2. \A i \in Jobs : ending'[i] = ending[i] \/ ending'[i] = "ended"
      BY <3>1 DEF TypeOK
    <3>3. \A d \in Deliveries :
            \/ d[1] = j /\ d[2] \in list[j]
            \/ delivery'[d] = delivery[d]
      BY <2>3 DEF Schedule
    <3>4. ending'[j] = "ended" /\ status[j] = outcome[j]
      BY <3>1 DEF TypeOK, Backed
    <3> QED BY <3>1, <3>2, <3>3, <3>4 DEF Backed, routeVars
  <2> QED BY <1>3, <2>1, <2>2, <2>3 DEF EndJob
<1>4. ASSUME NEW d \in Deliveries, Attempt(d)
      PROVE  Backed'
  <2>1. UNCHANGED <<routeVars, jobVars>> /\ delivery[d] = "pending"
    BY <1>4 DEF Attempt
  <2>2. \A e \in Deliveries : delivery'[e] # "none" => delivery[e] # "none"
    BY <1>4 DEF Attempt, Answered, Unanswered, TypeOK
  <2> QED BY <2>1, <2>2 DEF Backed, routeVars, jobVars
<1>5. CASE Restart
  BY <1>5 DEF Restart, Backed, routeVars
<1> QED BY <1>1, <1>2, <1>3, <1>4, <1>5 DEF Next

(***************************************************************************)
(* The inductive invariant of the deliveries holds in every reachable      *)
(* state.                                                                  *)
(***************************************************************************)
THEOREM DeliveryInvariant == Spec => []IInv
<1>1. IInv /\ [Next]_vars => IInv'
  BY TypeStep, BackedStep DEF IInv
<1> QED BY <1>1, InitIInv, PTL DEF Spec

(***************************************************************************)
(* Every variable has its type: no webhook is tried more than three times. *)
(***************************************************************************)
THEOREM DeliveryTypeCorrect == Spec => []TypeOK
<1>1. IInv => TypeOK
  BY DEF IInv
<1> QED BY <1>1, DeliveryInvariant, PTL

(***************************************************************************)
(* A receiver learns only what the job's row says, through failed updates  *)
(* and restarts.                                                           *)
(***************************************************************************)
THEOREM ReceiversLearnTheRow == Spec => []ToldIsRecorded
<1>1. IInv => ToldIsRecorded
  <2> SUFFICES ASSUME IInv, NEW d \in Deliveries, received[d] > 0
               PROVE  status[d[1]] = outcome[d[1]]
    BY DEF ToldIsRecorded
  <2>1. received[d] \in Nat /\ attempts[d] \in Nat
    BY DEF IInv, TypeOK
  <2>2. attempts[d] > 0
    BY <2>1 DEF IInv, Counts
  <2> QED BY <2>2 DEF IInv, Counts, Backed
<1> QED BY <1>1, DeliveryInvariant, PTL

(***************************************************************************)
(* No step sends to a receiver that has answered with a success.           *)
(***************************************************************************)
THEOREM SuccessEndsTheTask == Spec => SilentAfterSuccess
<1>1. IInv /\ [Next]_vars => [\A d \in acked : attempts'[d] = attempts[d]]_vars
  <2> SUFFICES ASSUME IInv, Next, NEW d \in acked
               PROVE  attempts'[d] = attempts[d]
    OBVIOUS
  <2>1. d \in Deliveries /\ delivery[d] = "delivered"
    BY DEF IInv, TypeOK, Counts
  <2>2. ASSUME NEW e \in Deliveries, Attempt(e)
        PROVE  attempts'[d] = attempts[d]
    BY <2>1, <2>2 DEF Attempt, IInv, TypeOK
  <2>3. CASE ~ \E e \in Deliveries : Attempt(e)
    BY <2>3 DEF Next, Register, Deactivate, EndJob, ReadList, UpdateStatus, Schedule,
                Restart, taskVars
  <2> QED BY <2>2, <2>3
<1> QED BY <1>1, DeliveryInvariant, PTL DEF Spec, SilentAfterSuccess

\* A webhook that is not to hear of a job: of another token, or deactivated
\* without being in the list.
Left(d) ==
  /\ delivery[d] = "none"
  /\ \/ hookToken[d[2]] # jobToken[d[1]]
     \/ hook[d[2]] = "inactive" /\ d[2] \notin list[d[1]]

LEMMA LeftStays ==
  ASSUME NEW d \in Deliveries, IInv, Left(d), [Next]_vars
  PROVE  Left(d)'
<1> USE DeliveriesArePairs DEF Left, IInv
<1>1. CASE UNCHANGED vars
  BY <1>1 DEF vars, routeVars, jobVars, taskVars
<1>2. CASE \E h \in Hooks : Register(h) \/ Deactivate(h)
  BY <1>2 DEF Register, Deactivate, jobVars, taskVars, TypeOK
<1>3. ASSUME NEW j \in Jobs, EndJob(j)
      PROVE  Left(d)'
  <2>1. CASE ReadList(j)
    BY <2>1 DEF ReadList, Subscribers, routeVars, taskVars, TypeOK
  <2>2. CASE UpdateStatus(j)
    BY <2>2 DEF UpdateStatus, routeVars, taskVars
  <2>3. CASE Schedule(j)
    BY <2>3 DEF Schedule, routeVars, Backed
  <2> QED BY <1>3, <2>1, <2>2, <2>3 DEF EndJob
<1>4. ASSUME NEW e \in Deliveries, Attempt(e)
      PROVE  Left(d)'
  BY <1>4 DEF Attempt, Answered, Unanswered, routeVars, jobVars, TypeOK
<1>5. CASE Restart
  BY <1>5 DEF Restart, routeVars
<1> QED BY <1>1, <1>2, <1>3, <1>4, <1>5 DEF Next

(***************************************************************************)
(* For any number of webhooks and tokens, one of another token or one      *)
(* deactivated before the end of a job began is never told of that job.    *)
(***************************************************************************)
THEOREM OthersHearNothing == Spec => OthersAreLeftAlone
<1> DEFINE Outside(d) == \/ hookToken[d[2]] # jobToken[d[1]]
                         \/ hook[d[2]] = "inactive" /\ ending[d[1]] = "running"
<1>1. ASSUME NEW d \in Deliveries
      PROVE  Spec => [](Outside(d) => [](attempts[d] = 0))
  <2>1. IInv /\ Outside(d) => Left(d)
    BY DeliveriesArePairs DEF IInv, Backed, Left
  <2>2. IInv /\ Left(d) /\ [Next]_vars => Left(d)'
    BY LeftStays
  <2>3. IInv /\ Left(d) => attempts[d] = 0
    BY DEF IInv, Counts, Left, TypeOK, MaxAttempts
  <2> HIDE DEF Outside
  <2> QED BY <2>1, <2>2, <2>3, DeliveryInvariant, PTL DEF Spec
<1> QED BY <1>1 DEF OthersAreLeftAlone

------------------------------------------------------------------------------
(* Nobody forgotten *)

(***************************************************************************)
(* Until the process dies, every webhook read for a job whose row was      *)
(* updated has a delivery task or had one that ran to its end: a success,  *)
(* or all the attempts.                                                    *)
(***************************************************************************)
ListenersAreServed ==
  \A d \in Deliveries :
    /\ restarts = 0
    /\ ending[d[1]] = "ended" /\ status[d[1]] \in Terminal
    /\ d[2] \in list[d[1]]
    => \/ delivery[d] = "pending"
       \/ delivery[d] = "delivered" /\ d \in acked
       \/ delivery[d] = "abandoned" /\ attempts[d] = MaxAttempts

\* One attempt of a task that is served leaves it served.
LEMMA AttemptServes ==
  ASSUME IInv, NEW d \in Deliveries, Attempt(d)
  PROVE  /\ \/ delivery'[d] = "pending"
            \/ delivery'[d] = "delivered" /\ d \in acked'
            \/ delivery'[d] = "abandoned" /\ attempts'[d] = MaxAttempts
         /\ \A e \in Deliveries \ {d} :
              /\ delivery'[e] = delivery[e] /\ attempts'[e] = attempts[e]
              /\ e \in acked => e \in acked'
<1>1. /\ delivery \in [Deliveries -> {"none", "pending", "delivered", "abandoned", "lost"}]
      /\ attempts \in [Deliveries -> 0 .. MaxAttempts]
      /\ delivery[d] = "pending"
  BY DEF IInv, TypeOK, Attempt
<1>2. CASE Answered(d) /\ acked' = acked \cup {d}
  BY <1>1, <1>2 DEF Attempt, Answered
<1>3. CASE Unanswered(d) /\ UNCHANGED acked
  BY <1>1, <1>3 DEF Attempt, Unanswered
<1> QED BY <1>2, <1>3 DEF Attempt

LEMMA ServedStep ==
  ASSUME IInv, IInv', ListenersAreServed, [Next]_vars
  PROVE  ListenersAreServed'
<1> USE DeliveriesArePairs DEF ListenersAreServed
<1>1. CASE UNCHANGED vars
  BY <1>1 DEF vars, routeVars, jobVars, taskVars
<1>2. CASE \E h \in Hooks : Register(h) \/ Deactivate(h)
  BY <1>2 DEF Register, Deactivate, jobVars, taskVars
<1>3. ASSUME NEW j \in Jobs, ReadList(j) PROVE ListenersAreServed'
  BY <1>3 DEF ReadList, taskVars, IInv, TypeOK
<1>4. ASSUME NEW j \in Jobs, UpdateStatus(j) PROVE ListenersAreServed'
  <2>1. status[j] = "building" /\ UNCHANGED <<list, taskVars, restarts>>
    BY <1>4 DEF UpdateStatus, IInv, Backed
  <2>2. \/ ending'[j] = "updated"
        \/ ending'[j] = "ended" /\ status'[j] = "building"
    BY <1>4, <2>1 DEF UpdateStatus, IInv, TypeOK
  <2>3. \A i \in Jobs \ {j} : ending'[i] = ending[i] /\ status'[i] = status[i]
    BY <1>4 DEF UpdateStatus, IInv, TypeOK
  <2> QED BY <2>1, <2>2, <2>3 DEF taskVars, Terminal
<1>5. ASSUME NEW j \in Jobs, Schedule(j) PROVE ListenersAreServed'
  <2>1. /\ UNCHANGED <<status, list, attempts, acked, restarts>>
        /\ \A i \in Jobs \ {j} : ending'[i] = ending[i]
    BY <1>5 DEF Schedule, IInv, TypeOK
  <2>2. ASSUME NEW d \in Deliveries
        PROVE  /\ d[1] = j /\ d[2] \in list[j] => delivery'[d] = "pending"
               /\ d[1] # j => delivery'[d] = delivery[d]
    <3>1. delivery' = [e \in Deliveries |-> IF e[1] = j /\ e[2] \in list[j]
                                            THEN "pending" ELSE delivery[e]]
      BY <1>5 DEF Schedule
    <3> QED BY <3>1
  <2> QED BY <2>1, <2>2
<1>6. ASSUME NEW d \in Deliveries, Attempt(d) PROVE ListenersAreServed'
  <2>1. UNCHANGED <<restarts, ending, status, list>>
    BY <1>6 DEF Attempt, jobVars
  <2> QED BY <1>6, <2>1, AttemptServes
<1>7. CASE Restart
  BY <1>7 DEF Restart, IInv, TypeOK
<1> QED BY <1>1, <1>2, <1>3, <1>4, <1>5, <1>6, <1>7 DEF Next, EndJob

(***************************************************************************)
(* For any number of jobs, webhooks and failed updates, a scheduled round  *)
(* of deliveries leaves nobody out, which is what ListedIsTold rests on.   *)
(***************************************************************************)
THEOREM NoListenerIsForgotten == Spec => []ListenersAreServed
<1>1. Init => ListenersAreServed
  BY DeliveriesArePairs DEF Init, ListenersAreServed
<1>2. IInv /\ IInv' /\ ListenersAreServed /\ [Next]_vars => ListenersAreServed'
  BY ServedStep
<1> QED BY <1>1, <1>2, DeliveryInvariant, PTL DEF Spec

------------------------------------------------------------------------------
(* Refinement *)

\* What the receivers know.
Told == {<<d[1], outcome[d[1]]>> : d \in {e \in Deliveries : received[e] > 0}}

(***************************************************************************)
(* What reaches receivers keeps the promise of JobEnding, the one that     *)
(* BuildPipeline keeps for what it schedules: through retries and lost     *)
(* answers each call carries the status that the row has for good.         *)
(***************************************************************************)
Ending == INSTANCE JobEnding
            WITH told <- {<<d[1], outcome[d[1]]>> :
                            d \in {e \in Deliveries : received[e] > 0}}

ImplementsEnding == Ending!Spec

(***************************************************************************)
(* The initial states of the deliveries are initial states of JobEnding.   *)
(***************************************************************************)
LEMMA EndingInit == Init => Ending!Init
<1> SUFFICES ASSUME Init PROVE Ending!Init
  OBVIOUS
<1>1. status \in [Jobs -> Ending!Unfinished]
  BY DEF Init, Ending!Unfinished
<1>2. {e \in Deliveries : received[e] > 0} = {}
  BY DEF Init
<1> QED BY <1>1, <1>2 DEF Ending!Init

(***************************************************************************)
(* Each step of the routes, the ends of jobs and the deliveries is a step  *)
(* of JobEnding or changes neither rows nor what receivers know.           *)
(***************************************************************************)
LEMMA EndingStep == IInv /\ [Next]_vars => [Ending!Next]_(Ending!vars)
<1> SUFFICES ASSUME IInv, [Next]_vars
             PROVE  Ending!Next \/ (status' = status /\ Told' = Told)
  BY DEF Ending!vars, Told
<1> USE DeliveriesArePairs
<1>1. ASSUME UNCHANGED <<status, outcome, received>>
      PROVE  status' = status /\ Told' = Told
  BY <1>1 DEF Told
<1>2. CASE UNCHANGED vars
  BY <1>1, <1>2 DEF vars, jobVars, taskVars
<1>3. CASE \E h \in Hooks : Register(h) \/ Deactivate(h)
  BY <1>1, <1>3 DEF Register, Deactivate, jobVars, taskVars
<1>4. CASE \E j \in Jobs : ReadList(j) \/ Schedule(j)
  BY <1>1, <1>4 DEF ReadList, Schedule, taskVars
<1>5. CASE Restart
  BY <1>1, <1>5 DEF Restart
<1>6. ASSUME NEW j \in Jobs, UpdateStatus(j)
      PROVE  Ending!Next \/ (status' = status /\ Told' = Told)
  <2>1. /\ UNCHANGED <<outcome, received>> /\ status[j] = "building"
        /\ outcome[j] \in {"done", "failed"}
    BY <1>6 DEF UpdateStatus, taskVars, IInv, TypeOK, Backed, Terminal
  <2>2. Told' = Told
    BY <2>1 DEF Told
  <2>3. CASE status' = [status EXCEPT ![j] = outcome[j]]
    <3>1. Ending!Move(j)
      BY <2>1, <2>2, <2>3 DEF Ending!Move, Ending!Unfinished, Ending!Terminal, Told
    <3> QED BY <3>1 DEF Ending!Next
  <2>4. CASE status' = status
    BY <2>2, <2>4
  <2> QED BY <1>6, <2>3, <2>4 DEF UpdateStatus
<1>7. ASSUME NEW d \in Deliveries, Attempt(d)
      PROVE  Ending!Next \/ (status' = status /\ Told' = Told)
  <2>1. /\ UNCHANGED <<status, outcome>>
        /\ status[d[1]] = outcome[d[1]] /\ outcome[d[1]] \in {"done", "failed"}
    BY <1>7 DEF Attempt, jobVars, IInv, TypeOK, Backed, Terminal
  <2>2. \/ received' = received
        \/ received' = [received EXCEPT ![d] = received[d] + 1]
    BY <1>7 DEF Attempt, Answered, Unanswered, Reaches
  <2>3. CASE received' = received
    BY <1>1, <2>1, <2>3
  <2>4. CASE received' = [received EXCEPT ![d] = received[d] + 1]
    <3>1. received'[d] > 0 /\ \A e \in Deliveries \ {d} : received'[e] = received[e]
      BY <2>4 DEF IInv, TypeOK, MaxAttempts
    <3>2. {e \in Deliveries : received'[e] > 0}
            = {e \in Deliveries : received[e] > 0} \cup {d}
      BY <3>1
    <3>3. Told' = Told \cup {<<d[1], status[d[1]]>>}
      BY <2>1, <3>2 DEF Told
    <3>4. Ending!Tell(d[1])
      BY <2>1, <3>3 DEF Ending!Tell, Ending!Terminal, Told
    <3> QED BY <3>4 DEF Ending!Next
  <2> QED BY <2>2, <2>3, <2>4
<1> QED BY <1>2, <1>3, <1>4, <1>5, <1>6, <1>7 DEF Next, EndJob

(***************************************************************************)
(* What receivers are told keeps the promise of JobEnding, for any number  *)
(* of jobs, webhooks, lost answers and restarts.                           *)
(***************************************************************************)
THEOREM DeliveryImplementsEnding == Spec => ImplementsEnding
  BY EndingInit, EndingStep, DeliveryInvariant, PTL
     DEF Spec, ImplementsEnding, Ending!Spec
=============================================================================
