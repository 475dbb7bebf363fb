------------------------ MODULE SmartInstallerProofs ------------------------
(***************************************************************************)
(* Proofs about SmartInstaller, for any jobs, files, limit and window.     *)
(***************************************************************************)
EXTENDS SmartInstaller, FiniteSetTheorems, TLAPS

\* JobLifecycle publishes a job in the step that makes it done.
DoneInv == \A j \in Jobs : status[j] = "done" <=> j \in published

\* From the download on, the job is done; from the extraction on, the
\* archive has passed.
ScriptInv ==
  /\ step \in {"asleep", "poll"} => job \in Jobs
  /\ step \in {"download", "verify", "extract", "ask", "copy", "installed"}
       => job \in published
  /\ step \in {"extract", "ask", "copy", "installed"} => Passes
  /\ copied # {} => step \in {"copy"} \cup Ended

IInv == TypeOK /\ DoneInv /\ ScriptInv /\ InstalledIsWhole /\ RoomyLimitSuffices

(***************************************************************************)
(* A window of n intervals holds calls of n + 1 ages.                      *)
(***************************************************************************)
LEMMA CallsInWindow ==
  ASSUME NEW S \in SUBSET (0 .. Window)
  PROVE  Cardinality(S) \in Nat /\ Cardinality(S) <= Window + 1
<1>1. IsFiniteSet(0 .. Window) /\ Cardinality(0 .. Window) = Window + 1
  BY LimitAssumption, FS_Interval
<1>2. Cardinality(S) <= Cardinality(0 .. Window) /\ IsFiniteSet(S)
  BY <1>1, FS_Subset
<1> QED BY <1>1, <1>2, FS_CardinalityType

LEMMA InitIInv == Init => IInv
<1> SUFFICES ASSUME Init PROVE IInv
  OBVIOUS
<1>1. TypeOK /\ DoneInv
  BY DEF Init, TypeOK, DoneInv, Steps, Server!TypeOK, Server!Statuses
<1>2. ScriptInv /\ InstalledIsWhole /\ RoomyLimitSuffices
  BY DEF Init, ScriptInv, InstalledIsWhole, RoomyLimitSuffices
<1> QED BY <1>1, <1>2 DEF IInv

LEMMA AgedIsRecent == recent \subseteq 0 .. Window => Aged \subseteq 0 .. Window
BY DEF Aged

LEMMA TypeStep == TypeOK /\ ScriptInv /\ [Next]_vars => TypeOK'
<1> SUFFICES ASSUME TypeOK, ScriptInv, [Next]_vars PROVE TypeOK'
  OBVIOUS
<1> USE DEF TypeOK, Steps, Ended, From, To, Abort, server, Server!TypeOK
<1>1. CASE UNCHANGED vars
  BY <1>1 DEF vars, script
<1>2. CASE Tick
  BY <1>2, AgedIsRecent DEF Tick
<1>3. CASE Refused
  BY <1>3 DEF Refused
<1>4. CASE Detect
  BY <1>4 DEF Detect
<1>5. CASE FetchProbe
  BY <1>5 DEF FetchProbe
<1>6. CASE RequestBuild
  <2>1. recent' \subseteq 0 .. Window
    BY <1>6, LimitAssumption DEF RequestBuild, Counted
  <2>2. step' \in Steps /\ job' \in Jobs \cup {NoJob} /\ UNCHANGED <<host, copied, archive>>
    BY <1>6 DEF RequestBuild
  <2>3. Server!TypeOK'
    BY <1>6 DEF RequestBuild, Server!Submit, Server!Move, Server!Statuses
  <2> QED BY <2>1, <2>2, <2>3
<1>7. CASE Poll
  <2>1. recent' \subseteq 0 .. Window
    BY <1>7, LimitAssumption DEF Poll, Counted
  <2>2. step' \in Steps /\ UNCHANGED <<host, job, archive, copied, status, published>>
    BY <1>7 DEF Poll, AfterPoll
  <2> QED BY <2>1, <2>2
<1>8. CASE Download
  BY <1>8 DEF Download
<1>9. CASE Verify
  BY <1>9 DEF Verify
<1>10. CASE Extract
  BY <1>10 DEF Extract
<1>11. CASE Ask
  BY <1>11 DEF Ask
<1>12. CASE Copy
  BY <1>12 DEF Copy
<1>13. CASE Finish
  BY <1>13 DEF Finish
<1>14. CASE Interrupt
  BY <1>14 DEF Interrupt
<1>15. CASE ServerStep
  <2>1. PICK j \in Jobs : Server!Leave(j) \/ Server!End(j)
    BY <1>15 DEF ServerStep
  <2>2. Server!TypeOK'
    BY <2>1 DEF Server!Leave, Server!End, Server!Reject, Server!Start, Server!Fail,
                Server!Complete, Server!Move, Server!Statuses
  <2> QED BY <1>15, <2>2 DEF ServerStep, script
<1> QED BY <1>1, <1>2, <1>3, <1>4, <1>5, <1>6, <1>7, <1>8, <1>9, <1>10, <1>11,
           <1>12, <1>13, <1>14, <1>15 DEF Next, Proceed

\* What the server does to a job keeps done and published together.
LEMMA DoneStep == TypeOK /\ DoneInv /\ [Next]_vars => DoneInv' /\ published \subseteq published'
<1> SUFFICES ASSUME TypeOK, DoneInv, [Next]_vars
             PROVE  DoneInv' /\ published \subseteq published'
  OBVIOUS
<1> USE DEF TypeOK, DoneInv, Server!TypeOK, server
<1>1. CASE \E j \in Jobs : Server!Submit(j)
  BY <1>1 DEF Server!Submit, Server!Move
<1>2. CASE ServerStep
  <2>1. PICK j \in Jobs : Server!Leave(j) \/ Server!End(j)
    BY <1>2 DEF ServerStep
  <2> QED BY <2>1 DEF Server!Leave, Server!End, Server!Reject, Server!Start,
                      Server!Fail, Server!Complete, Server!Move
<1>3. CASE UNCHANGED server
  BY <1>3
<1> QED BY <1>1, <1>2, <1>3
        DEF Next, Proceed, vars, script, Tick, Refused, Detect, FetchProbe,
            RequestBuild, Poll, Download, Verify, Extract, Ask, Copy, Finish,
            Interrupt

LEMMA ScriptStep ==
  ASSUME TypeOK, DoneInv, DoneInv', published \subseteq published', ScriptInv,
         InstalledIsWhole, [Next]_vars
  PROVE  ScriptInv' /\ InstalledIsWhole'
<1> USE DEF TypeOK, ScriptInv, InstalledIsWhole, Passes, Steps, Ended, From, To,
            Abort, server
<1>1. CASE UNCHANGED vars
  BY <1>1 DEF vars, script
<1>2. CASE Tick
  BY <1>2 DEF Tick
<1>3. CASE Refused
  BY <1>3 DEF Refused
<1>4. CASE Detect
  BY <1>4 DEF Detect
<1>5. CASE FetchProbe
  BY <1>5 DEF FetchProbe
<1>6. CASE RequestBuild
  <2>1. copied = {} /\ copied' = {}
    BY <1>6 DEF RequestBuild
  <2>2. \/ step' = "download" /\ job' \in published'
        \/ step' = "asleep" /\ job' \in Jobs
        \/ step' = "aborted"
    BY <1>6 DEF RequestBuild
  <2> QED BY <2>1, <2>2
<1>7. CASE Poll
  <2>1. copied = {} /\ UNCHANGED <<job, copied, status, published>> /\ job \in Jobs
    BY <1>7 DEF Poll
  <2>2. \/ step' = "download" /\ status[job] = "done"
        \/ step' \in {"failed", "asleep", "aborted"}
    BY <1>7 DEF Poll, AfterPoll
  <2> QED BY <2>1, <2>2 DEF DoneInv
<1>8. CASE Download
  BY <1>8 DEF Download
<1>9. CASE Verify
  BY <1>9 DEF Verify
<1>10. CASE Extract
  BY <1>10 DEF Extract
<1>11. CASE Ask
  BY <1>11 DEF Ask
<1>12. CASE Copy
  BY <1>12 DEF Copy
<1>13. CASE Finish
  BY <1>13 DEF Finish
<1>14. CASE Interrupt
  BY <1>14 DEF Interrupt
<1>15. CASE ServerStep
  BY <1>15 DEF ServerStep, script
<1> QED BY <1>1, <1>2, <1>3, <1>4, <1>5, <1>6, <1>7, <1>8, <1>9, <1>10, <1>11,
           <1>12, <1>13, <1>14, <1>15 DEF Next, Proceed

\* No other step than Refused ends the script as refused.
LEMMA RefusedStep ==
  TypeOK /\ RoomyLimitSuffices /\ [Next]_vars => RoomyLimitSuffices'
<1> SUFFICES ASSUME TypeOK, RoomyLimitSuffices, [Next]_vars,
                    host'.limit >= Window + 2
             PROVE  step' # "refused"
  BY DEF RoomyLimitSuffices
<1>0. host' = host
  BY DEF Next, Proceed, Detect, FetchProbe, RequestBuild, Poll, Download, Verify,
         Extract, Ask, Copy, Finish, Refused, Tick, Interrupt, ServerStep, vars
<1>1. ~OverLimit
  <2>1. Cardinality(recent) \in Nat /\ Cardinality(recent) <= Window + 1
    BY CallsInWindow DEF TypeOK
  <2>2. host.limit \in Nat
    BY LimitAssumption DEF TypeOK, Hosts
  <2> QED BY <1>0, <2>1, <2>2, LimitAssumption DEF OverLimit
<1>2. step # "refused"
  BY <1>0 DEF RoomyLimitSuffices
<1>3. ~Refused
  BY <1>1 DEF Refused
<1>4. CASE Tick \/ Interrupt \/ ServerStep \/ UNCHANGED vars
  BY <1>2, <1>4 DEF Tick, Interrupt, ServerStep, vars, script, To, Abort
<1>5. CASE Detect \/ FetchProbe \/ RequestBuild \/ Download
  BY <1>5 DEF Detect, FetchProbe, RequestBuild, Download, To, Abort
<1>6. CASE Poll
  BY <1>6 DEF Poll, AfterPoll, To, Abort
<1>7. CASE Verify \/ Extract \/ Ask \/ Copy \/ Finish
  BY <1>2, <1>7 DEF Verify, Extract, Ask, Copy, Finish, To, Abort
<1> QED BY <1>3, <1>4, <1>5, <1>6, <1>7 DEF Next, Proceed

(***************************************************************************)
(* The inductive invariant of the installer holds in every reachable       *)
(* state.                                                                  *)
(***************************************************************************)
THEOREM InstallerInvariant == Spec => []IInv
<1>1. Init => IInv
  BY InitIInv
<1>2. IInv /\ [Next]_vars => IInv'
  BY TypeStep, DoneStep, ScriptStep, RefusedStep DEF IInv
<1> QED BY <1>1, <1>2, PTL DEF Spec

(***************************************************************************)
(* Every variable has its type.                                            *)
(***************************************************************************)
THEOREM InstallerTypeCorrect == Spec => []TypeOK
<1>1. IInv => TypeOK
  BY DEF IInv
<1> QED BY <1>1, InstallerInvariant, PTL

(***************************************************************************)
(* On any server that keeps the promise of JobLifecycle, only a done job's *)
(* archive that passed verification is installed, and all of it.           *)
(***************************************************************************)
THEOREM InstallationIsWhole == Spec => []InstalledIsWhole
<1>1. IInv => InstalledIsWhole
  BY DEF IInv
<1> QED BY <1>1, InstallerInvariant, PTL

(***************************************************************************)
(* A rate limit of two more than the polls of a window never ends the      *)
(* script, for every limit and every window.                               *)
(***************************************************************************)
THEOREM RoomyLimitNeverRefuses == Spec => []RoomyLimitSuffices
<1>1. IInv => RoomyLimitSuffices
  BY DEF IInv
<1> QED BY <1>1, InstallerInvariant, PTL
=============================================================================
