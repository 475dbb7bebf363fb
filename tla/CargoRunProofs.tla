--------------------------- MODULE CargoRunProofs ---------------------------
(***************************************************************************)
(* Proofs about CargoRun, for any helpers, pipe and amounts of output.     *)
(***************************************************************************)
EXTENDS CargoRun, TLAPS

\* Until cargo has exited nothing is read, and what cargo wrote is in the
\* pipe; afterwards cargo writes nothing any more.
Unread ==
  \A s \in Streams :
    /\ run \in {"start", "waiting"} => read[s] = 0
    /\ run \in {"start", "waiting"} => wrote[Cargo][s] <= pipe[s]
    /\ run \notin {"timed_out", "broken"} => wrote[Cargo][s] <= pipe[s] + read[s]

Gone ==
  /\ Cargo \in open["stdout"] <=> Cargo \in open["stderr"]
  /\ run = "start" => \A s \in Streams : open[s] = {}
  /\ run \in Streams \cup Reported =>
       \A s \in Streams : Cargo \notin open[s] /\ wrote[Cargo][s] <= Pipe
  /\ run \in {"stderr"} \cup Reported => pipe["stdout"] = 0 /\ open["stdout"] = {}
  /\ status = "ok" => \A s \in Streams : /\ Cargo \notin open[s]
                                         /\ wrote[Cargo][s] = size[Cargo][s]
  /\ run = "start" => status = "none"

IInv == TypeOK /\ Unread /\ Gone /\ ReportIsComplete

LEMMA TruncatedIsShown == ASSUME NEW n \in Nat PROVE Truncated(n) \in 0 .. Shown
BY SizeAssumption DEF Truncated

LEMMA OneMore ==
  ASSUME NEW K \in Nat, NEW m \in 0 .. K, NEW n \in 0 .. K, n < m
  PROVE  n + 1 \in 0 .. K
OBVIOUS

LEMMA BothGrow ==
  ASSUME NEW w \in Nat, NEW n \in Nat, NEW r \in Nat, NEW v,
         v = w \/ v = w + 1
  PROVE  /\ w <= n => v <= n + 1
         /\ w <= n + r => v <= (n + 1) + r
OBVIOUS

LEMMA AmountsAreNumbers ==
  ASSUME TypeOK, NEW s \in Streams
  PROVE  /\ pipe[s] \in Nat /\ pipe[s] \in 0 .. Pipe /\ read[s] \in Nat
         /\ \A p \in Procs : /\ wrote[p][s] \in 0 .. MaxOutput /\ wrote[p][s] \in Nat
                             /\ size[p][s] \in 0 .. MaxOutput
<1>1. pipe[s] \in 0 .. Pipe /\ read[s] \in Nat
  BY DEF TypeOK
<1>2. \A p \in Procs : wrote[p][s] \in 0 .. MaxOutput /\ size[p][s] \in 0 .. MaxOutput
  BY DEF TypeOK, Amounts
<1> QED BY <1>1, <1>2, SizeAssumption

\* Reading moves what is in the pipe and changes no sum.
LEMMA ReadMoves ==
  ASSUME TypeOK, NEW s \in Streams, Read(s)
  PROVE  /\ run = s /\ UNCHANGED <<result, processes>>
         /\ read' \in [Streams -> Nat] /\ pipe' \in [Streams -> 0 .. Pipe]
         /\ \A r \in Streams : pipe'[r] + read'[r] = pipe[r] + read[r]
<1>1. /\ run = s /\ UNCHANGED <<result, processes>>
      /\ read' = [read EXCEPT ![s] = read[s] + pipe[s]]
      /\ pipe' = [pipe EXCEPT ![s] = 0]
  BY DEF Read
<1>2. pipe[s] \in Nat /\ read[s] \in Nat
  BY AmountsAreNumbers
<1>3. read[s] + pipe[s] \in Nat /\ 0 + (read[s] + pipe[s]) = pipe[s] + read[s] /\ 0 \in 0 .. Pipe
  BY <1>2, SizeAssumption
<1>4. read' \in [Streams -> Nat] /\ pipe' \in [Streams -> 0 .. Pipe]
  BY <1>1, <1>3 DEF TypeOK
<1>5. /\ read'[s] = read[s] + pipe[s] /\ pipe'[s] = 0
      /\ \A r \in Streams \ {s} : read'[r] = read[r] /\ pipe'[r] = pipe[r]
  BY <1>1 DEF TypeOK
<1>6. \A r \in Streams : pipe'[r] + read'[r] = pipe[r] + read[r]
  BY <1>3, <1>5
<1> QED BY <1>1, <1>4, <1>6

\* Writing adds one to the pipe and at most one to what cargo wrote.
LEMMA WriteAdds ==
  ASSUME TypeOK, NEW p \in Procs, NEW s \in Streams, Write(p, s)
  PROVE  /\ wrote' \in Amounts /\ pipe' \in [Streams -> 0 .. Pipe]
         /\ pipe'[s] = pipe[s] + 1
         /\ wrote'[Cargo][s] = wrote[Cargo][s] \/ wrote'[Cargo][s] = wrote[Cargo][s] + 1
         /\ \A r \in Streams \ {s} :
              pipe'[r] = pipe[r] /\ wrote'[Cargo][r] = wrote[Cargo][r]
<1>1. /\ wrote' = [wrote EXCEPT ![p][s] = wrote[p][s] + 1]
      /\ pipe' = [pipe EXCEPT ![s] = pipe[s] + 1]
      /\ wrote[p][s] < size[p][s] /\ pipe[s] < Pipe
  BY DEF Write
<1>2. wrote[p][s] + 1 \in 0 .. MaxOutput
  BY <1>1, AmountsAreNumbers, OneMore, SizeAssumption
<1>3. Pipe \in 0 .. Pipe /\ pipe[s] \in 0 .. Pipe
  BY AmountsAreNumbers, SizeAssumption
<1>4. pipe[s] + 1 \in 0 .. Pipe
  BY <1>1, <1>3, OneMore, SizeAssumption
<1>5. wrote' \in Amounts /\ pipe' \in [Streams -> 0 .. Pipe]
  BY <1>1, <1>2, <1>4 DEF TypeOK, Amounts
<1>6. /\ pipe'[s] = pipe[s] + 1
      /\ \A r \in Streams \ {s} : pipe'[r] = pipe[r]
  BY <1>1 DEF TypeOK
<1>7. \A r \in Streams \ {s} : wrote'[Cargo][r] = wrote[Cargo][r]
  BY <1>1 DEF TypeOK, Amounts, Procs
<1>8. wrote'[Cargo][s] = wrote[Cargo][s] \/ wrote'[Cargo][s] = wrote[Cargo][s] + 1
  BY <1>1 DEF TypeOK, Amounts, Procs
<1> QED BY <1>5, <1>6, <1>7, <1>8

LEMMA InitIInv == Init => IInv
<1> SUFFICES ASSUME Init PROVE IInv
  OBVIOUS
<1> USE DEF Init, Streams, Procs, Amounts, Reported, Ended
<1>1. TypeOK
  BY SizeAssumption DEF TypeOK
<1>2. Unread /\ Gone /\ ReportIsComplete
  BY DEF Unread, Gone, ReportIsComplete
<1> QED BY <1>1, <1>2 DEF IInv

LEMMA TypeStep == TypeOK /\ [Next]_vars => TypeOK'
<1> SUFFICES ASSUME TypeOK, [Next]_vars PROVE TypeOK'
  OBVIOUS
<1> USE SizeAssumption DEF TypeOK, Streams, Procs, Amounts, Reported, Ended, result, processes
<1>1. CASE UNCHANGED vars
  BY <1>1 DEF vars
<1>2. CASE Spawn
  <2>1. {{Cargo} \cup H : H \in SUBSET Helpers} \subseteq SUBSET Procs
    OBVIOUS
  <2>2. open' \in [Streams -> SUBSET Procs]
    BY <1>2, <2>1 DEF Spawn
  <2>3. run' \in {"waiting", "broken"} /\ UNCHANGED <<status, error, size, wrote, pipe, read>>
    BY <1>2 DEF Spawn
  <2> QED BY <2>2, <2>3
<1>3. CASE Reap \/ WaitFails
  BY <1>3 DEF Reap, WaitFails
<1>4. CASE TimeOut
  BY <1>4 DEF TimeOut, WithoutCargo
<1>5. CASE Advance
  <2>1. read["stderr"] \in Nat
    BY AmountsAreNumbers
  <2>2. Truncated(read["stderr"]) \in 0 .. Shown
    BY <2>1, TruncatedIsShown
  <2>3. error' \in 0 .. Shown /\ run' \in Streams \cup Ended
    BY <1>5, <2>2 DEF Advance
  <2>4. UNCHANGED <<status, size, wrote, open, pipe, read>>
    BY <1>5 DEF Advance
  <2> QED BY <2>3, <2>4
<1>6. ASSUME NEW s \in Streams, Read(s)
      PROVE  TypeOK'
  BY <1>6, ReadMoves
<1>7. CASE Exit
  BY <1>7 DEF Exit, WithoutCargo
<1>8. ASSUME NEW p \in Procs, NEW s \in Streams, Write(p, s)
      PROVE  TypeOK'
  <2>1. UNCHANGED <<run, status, error, size, open, read>>
    BY <1>8 DEF Write
  <2> QED BY <1>8, <2>1, WriteAdds
<1>9. ASSUME NEW p \in Procs, NEW s \in Streams, Close(p, s)
      PROVE  TypeOK'
  BY <1>9 DEF Close
<1> QED BY <1>1, <1>2, <1>3, <1>4, <1>5, <1>6, <1>7, <1>8, <1>9 DEF Next, Proceed

LEMMA UnreadStep == TypeOK /\ Unread /\ Gone /\ [Next]_vars => Unread'
<1> SUFFICES ASSUME TypeOK, Unread, Gone, [Next]_vars PROVE Unread'
  OBVIOUS
<1> USE SizeAssumption
    DEF TypeOK, Unread, Streams, Procs, Amounts, Reported, Ended, result, processes
<1>1. CASE UNCHANGED vars
  BY <1>1 DEF vars
<1>2. CASE Spawn
  BY <1>2 DEF Spawn
<1>3. CASE Reap \/ WaitFails
  BY <1>3 DEF Reap, WaitFails
<1>4. CASE TimeOut
  BY <1>4 DEF TimeOut
<1>5. CASE Advance
  BY <1>5 DEF Advance
<1>6. ASSUME NEW s \in Streams, Read(s)
      PROVE  Unread'
  <2>1. run \in Streams /\ UNCHANGED <<run, wrote>>
    BY <1>6, ReadMoves
  <2>2. \A r \in Streams : pipe'[r] + read'[r] = pipe[r] + read[r]
    BY <1>6, ReadMoves
  <2> QED BY <2>1, <2>2
<1>7. CASE Exit
  BY <1>7 DEF Exit
<1>8. ASSUME NEW p \in Procs, NEW s \in Streams, Write(p, s)
      PROVE  Unread'
  <2>1. UNCHANGED <<run, read>>
    BY <1>8 DEF Write
  <2>2. ASSUME NEW r \in Streams
        PROVE  /\ run' \in {"start", "waiting"} => read'[r] = 0 /\ wrote'[Cargo][r] <= pipe'[r]
               /\ run' \notin {"timed_out", "broken"} => wrote'[Cargo][r] <= pipe'[r] + read'[r]
    <3>1. wrote[Cargo][r] \in Nat /\ pipe[r] \in Nat /\ read[r] \in Nat
      BY AmountsAreNumbers DEF Procs
    <3>2. CASE r # s
      BY <1>8, <2>1, <3>2, WriteAdds
    <3>3. CASE r = s
      <4>1. /\ pipe'[s] = pipe[s] + 1
            /\ wrote'[Cargo][s] = wrote[Cargo][s] \/ wrote'[Cargo][s] = wrote[Cargo][s] + 1
        BY <1>8, WriteAdds
      <4>2. /\ run \in {"start", "waiting"} => read[s] = 0 /\ wrote[Cargo][s] <= pipe[s]
            /\ run \notin {"timed_out", "broken"} => wrote[Cargo][s] <= pipe[s] + read[s]
        BY DEF Unread
      <4>3. /\ wrote[Cargo][s] <= pipe[s] => wrote'[Cargo][s] <= pipe[s] + 1
            /\ wrote[Cargo][s] <= pipe[s] + read[s] =>
                 wrote'[Cargo][s] <= (pipe[s] + 1) + read[s]
        BY <3>1, <3>3, <4>1, BothGrow
      <4> QED BY <2>1, <3>3, <4>1, <4>2, <4>3
    <3> QED BY <3>2, <3>3
  <2> QED BY <2>2 DEF Unread
<1>9. CASE \E p \in Procs, s \in Streams : Close(p, s)
  BY <1>9 DEF Close
<1> QED BY <1>1, <1>2, <1>3, <1>4, <1>5, <1>6, <1>7, <1>8, <1>9 DEF Next, Proceed

LEMMA GoneStep == TypeOK /\ Unread /\ Gone /\ [Next]_vars => Gone'
<1> SUFFICES ASSUME TypeOK, Unread, Gone, [Next]_vars PROVE Gone'
  OBVIOUS
<1> USE SizeAssumption, ProcsAssumption
    DEF TypeOK, Gone, Streams, Procs, Amounts, Reported, Ended, result, processes
<1>1. CASE UNCHANGED vars
  BY <1>1 DEF vars
<1>2. CASE Spawn
  BY <1>2 DEF Spawn
<1>3. CASE WaitFails
  BY <1>3 DEF WaitFails
<1>4. CASE Reap
  BY <1>4 DEF Reap, CargoRuns, Unread
<1>5. CASE TimeOut
  BY <1>5 DEF TimeOut, WithoutCargo
<1>6. CASE Advance
  BY <1>6 DEF Advance, AtEnd
<1>7. CASE \E s \in Streams : Read(s)
  BY <1>7 DEF Read
<1>8. CASE Exit
  BY <1>8 DEF Exit, WithoutCargo, CargoRuns
<1>9. ASSUME NEW p \in Procs, NEW s \in Streams, Write(p, s)
      PROVE  Gone'
  <2>1. UNCHANGED <<run, status, size, open>> /\ p \in open[s] /\ run \notin Ended
    BY <1>9 DEF Write
  <2>2. p # Cargo => UNCHANGED wrote[Cargo]
    BY <1>9 DEF Write
  <2>3. \A r \in Streams : r # s => UNCHANGED pipe[r]
    BY <1>9 DEF Write
  <2>4. CASE p = Cargo
    BY <2>1, <2>3, <2>4
  <2>5. CASE p # Cargo
    BY <2>1, <2>2, <2>3, <2>5
  <2> QED BY <2>4, <2>5
<1>10. ASSUME NEW p \in Procs, NEW s \in Streams, Close(p, s)
       PROVE  Gone'
  BY <1>10 DEF Close
<1> QED BY <1>1, <1>2, <1>3, <1>4, <1>5, <1>6, <1>7, <1>8, <1>9, <1>10 DEF Next, Proceed

LEMMA ReportStep ==
  TypeOK /\ Unread /\ Gone /\ Gone' /\ ReportIsComplete /\ [Next]_vars => ReportIsComplete'
<1> SUFFICES ASSUME TypeOK, Unread, Gone, Gone', ReportIsComplete, [Next]_vars,
                    run' \in Reported
             PROVE  ReportIsComplete'
  BY DEF ReportIsComplete
<1> USE DEF TypeOK, ReportIsComplete, Streams, Procs, Amounts, Reported, Ended,
            result, processes
<1>1. CASE UNCHANGED vars
  BY <1>1 DEF vars
<1>2. CASE Advance
  <2>1. run = "stderr" /\ AtEnd("stderr")
    BY <1>2 DEF Advance
  <2>2. \A s \in Streams : open[s] = {} /\ pipe[s] = 0
    BY <2>1 DEF Gone, AtEnd
  <2>3. \A s \in Streams : wrote[Cargo][s] <= read[s]
    BY <2>1, <2>2 DEF Unread
  <2>4. run' = "succeeded" => status = "ok"
    BY <1>2, <2>1 DEF Advance
  <2>5. UNCHANGED <<open, pipe, read, wrote, size>>
    BY <1>2 DEF Advance
  <2>6. run' = "failed" => error' = Truncated(read["stderr"])
    BY <1>2, <2>1 DEF Advance
  <2> QED BY <2>2, <2>3, <2>4, <2>5, <2>6 DEF Gone, Truncated
<1>3. CASE Spawn \/ Reap \/ WaitFails \/ TimeOut
  BY <1>3 DEF Spawn, Reap, WaitFails, TimeOut
<1>4. CASE \E s \in Streams : Read(s)
  BY <1>4 DEF Read
<1>5. CASE Exit
  BY <1>5 DEF Exit, CargoRuns
<1>6. CASE \E p \in Procs, s \in Streams : Write(p, s)
  BY <1>6 DEF Write
<1>7. CASE \E p \in Procs, s \in Streams : Close(p, s)
  BY <1>7 DEF Close
<1> QED BY <1>1, <1>2, <1>3, <1>4, <1>5, <1>6, <1>7 DEF Next, Proceed

(***************************************************************************)
(* The inductive invariant of run_cargo_build holds in every reachable     *)
(* state.                                                                  *)
(***************************************************************************)
THEOREM CargoRunInvariant == Spec => []IInv
<1>1. Init => IInv
  BY InitIInv
<1>2. IInv /\ [Next]_vars => IInv'
  BY TypeStep, UnreadStep, GoneStep, ReportStep DEF IInv
<1> QED BY <1>1, <1>2, PTL DEF Spec

(***************************************************************************)
(* Every variable has its type: no pipe holds more than its capacity.      *)
(***************************************************************************)
THEOREM CargoRunTypeCorrect == Spec => []TypeOK
<1>1. IInv => TypeOK
  BY DEF IInv
<1> QED BY <1>1, CargoRunInvariant, PTL

(***************************************************************************)
(* A reported status comes with all output of processes that are gone,     *)
(* whatever processes shared the pipes and however much they wrote.        *)
(***************************************************************************)
THEOREM ReportsAreComplete == Spec => []ReportIsComplete
<1>1. IInv => ReportIsComplete
  BY DEF IInv
<1> QED BY <1>1, CargoRunInvariant, PTL

(***************************************************************************)
(* Only a cargo whose output fits into the pipes has its status reported:  *)
(* nobody reads while its exit is awaited, so that a build with more       *)
(* output than a pipe holds is timed out, whether it would have succeeded  *)
(* or not.                                                                 *)
(***************************************************************************)
LoudBuildsAreNotReported ==
  run \in Reported => \A s \in Streams : wrote[Cargo][s] <= Pipe

(***************************************************************************)
(* Why CompileErrorsAreShown fails in MCCargo, for every size of the       *)
(* pipes: a cargo that writes more than a pipe holds is not reported.      *)
(***************************************************************************)
THEOREM LoudBuildsTimeOut == Spec => []LoudBuildsAreNotReported
<1>1. IInv => LoudBuildsAreNotReported
  BY DEF IInv, Gone, LoudBuildsAreNotReported
<1> QED BY <1>1, CargoRunInvariant, PTL

(***************************************************************************)
(* Why a run that does not wait for cargo ends, up to fairness: at either  *)
(* stream there is something to read, or its end, or a helper that cargo   *)
(* left behind holds it open.  Cargo itself never does.                    *)
(***************************************************************************)
OnlyHelpersHold ==
  run \in Streams => pipe[run] > 0 \/ AtEnd(run) \/ HeldOpen

(***************************************************************************)
(* For any helpers and amounts of output, the reader is kept waiting by    *)
(* nobody but a helper.                                                    *)
(***************************************************************************)
THEOREM ReaderWaitsForHelpersOnly == Spec => []OnlyHelpersHold
<1>1. IInv => OnlyHelpersHold
  <2> SUFFICES ASSUME IInv, run \in Streams, ~(pipe[run] > 0), ~AtEnd(run)
               PROVE  HeldOpen
    BY DEF OnlyHelpersHold
  <2>1. pipe[run] \in Nat
    BY AmountsAreNumbers DEF IInv
  <2>2. open[run] # {}
    BY <2>1 DEF AtEnd
  <2>3. open[run] \subseteq Procs /\ Cargo \notin open[run]
    BY DEF IInv, TypeOK, Gone
  <2> QED BY <2>2, <2>3 DEF HeldOpen, Procs
<1> QED BY <1>1, CargoRunInvariant, PTL
=============================================================================
