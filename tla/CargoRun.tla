------------------------------ MODULE CargoRun ------------------------------
(***************************************************************************)
(* run_cargo_build of server/src/worker.rs: cargo is started with a pipe   *)
(* for each output stream, its exit is awaited for at most                 *)
(* KOVAL_BUILD_TIMEOUT_SECS, and only then the pipes are read, stdout to   *)
(* its end and after it stderr.                                            *)
(*                                                                         *)
(* A pipe holds a bounded amount and whoever writes to a full one waits.   *)
(* Processes that cargo starts may inherit its ends of the pipes and       *)
(* outlive it.  What the processes do is external; output is counted in    *)
(* units.                                                                  *)
(*                                                                         *)
(* An operator whose comment begins with "Slip:" is no part of the model:  *)
(* it is a plausible mistake in the operation defined after it.            *)
(***************************************************************************)
EXTENDS Naturals

CONSTANTS
  Cargo,      \* the process that is started
  Helpers,    \* processes that may inherit its pipes
  Pipe,       \* what a pipe holds
  Shown,      \* what truncate_stderr leaves of an output
  MaxOutput   \* bound on what a process writes to one stream

ASSUME ProcsAssumption == Cargo \notin Helpers
ASSUME SizeAssumption  == Pipe \in Nat /\ Shown \in Nat /\ MaxOutput \in Nat

Procs   == {Cargo} \cup Helpers
Streams == {"stdout", "stderr"}
Amounts == [Procs -> [Streams -> 0 .. MaxOutput]]

VARIABLES
  run,        \* where run_cargo_build is, or what it returned
  status,     \* how cargo exited
  error,      \* how much of stderr the message of a failed build shows
  \* the processes and the pipes
  size,       \* size[p][s]: what p is going to write to s
  wrote,      \* wrote[p][s]: what p has written to s
  open,       \* open[s]: the processes that can write to s
  pipe,       \* pipe[s]: what has been written to s and not been read
  read        \* read[s]: what has been read from s

result    == <<run, status, error>>
processes == <<size, wrote, open>>
vars == <<result, processes, pipe, read>>

Reported == {"succeeded", "failed"}
Ended == Reported \cup {"timed_out", "broken"}

TypeOK ==
  /\ run \in {"start", "waiting"} \cup Streams \cup Ended
  /\ status \in {"none", "ok", "error"}
  /\ error \in 0 .. Shown
  /\ size \in Amounts
  /\ wrote \in Amounts
  /\ open \in [Streams -> SUBSET Procs]
  /\ pipe \in [Streams -> 0 .. Pipe]
  /\ read \in [Streams -> Nat]

Init ==
  /\ run = "start"
  /\ status = "none"
  /\ error = 0
  /\ size \in Amounts
  /\ wrote = [p \in Procs |-> [s \in Streams |-> 0]]
  /\ open = [s \in Streams |-> {}]
  /\ pipe = [s \in Streams |-> 0]
  /\ read = [s \in Streams |-> 0]

------------------------------------------------------------------------------
(* The processes *)

\* p writes to s, unless the pipe is full or its reader has gone.
Write(p, s) ==
  /\ p \in open[s]
  /\ run \notin Ended
  /\ wrote[p][s] < size[p][s]
  /\ pipe[s] < Pipe
  /\ wrote' = [wrote EXCEPT ![p][s] = @ + 1]
  /\ pipe' = [pipe EXCEPT ![s] = @ + 1]
  /\ UNCHANGED <<result, size, open, read>>

\* A helper closes a stream, by ending or otherwise.
Close(p, s) ==
  /\ p \in open[s] \cap Helpers
  /\ open' = [open EXCEPT ![s] = @ \ {p}]
  /\ UNCHANGED <<result, size, wrote, pipe, read>>

CargoRuns == Cargo \in open["stdout"]

WithoutCargo == open' = [s \in Streams |-> open[s] \ {Cargo}]

\* Cargo exits by itself, with all written, or is killed by somebody else.
Exit ==
  /\ CargoRuns
  /\ WithoutCargo
  /\ \/ /\ \A s \in Streams : wrote[Cargo][s] = size[Cargo][s]
        /\ status' = "ok"
     \/ status' = "error"
  /\ UNCHANGED <<run, error, size, wrote, pipe, read>>

------------------------------------------------------------------------------
(* run_cargo_build *)

\* Command::spawn; the helpers are those that are going to have the pipes.
Spawn ==
  /\ run = "start"
  /\ \/ /\ run' = "waiting"
        /\ open' \in [Streams -> {{Cargo} \cup H : H \in SUBSET Helpers}]
     \/ /\ run' = "broken"
        /\ UNCHANGED open
  /\ UNCHANGED <<status, error, size, wrote, pipe, read>>

\* child.wait() returns the status.
Reap ==
  /\ run = "waiting"
  /\ ~CargoRuns
  /\ run' = "stdout"
  /\ UNCHANGED <<status, error, processes, pipe, read>>

\* child.wait() fails; the child is dropped, and left alone.
WaitFails ==
  /\ run = "waiting"
  /\ run' = "broken"
  /\ UNCHANGED <<status, error, processes, pipe, read>>

\* Slip: the child is waited for and not killed.
TimeOutWithoutKill ==
  /\ run = "waiting"
  /\ ~CargoRuns
  /\ run' = "timed_out"
  /\ UNCHANGED <<status, error, processes, pipe, read>>

\* Elapsed, perhaps just as cargo exits: kill, wait, and no look at the
\* pipes.  Nobody kills the helpers.
TimeOut ==
  /\ run = "waiting"
  /\ WithoutCargo
  /\ run' = "timed_out"
  /\ UNCHANGED <<status, error, size, wrote, pipe, read>>

\* read_to_end gets what is in the pipe; reading a pipe does not fail.
Read(s) ==
  /\ run = s
  /\ pipe[s] > 0
  /\ read' = [read EXCEPT ![s] = @ + pipe[s]]
  /\ pipe' = [pipe EXCEPT ![s] = 0]
  /\ UNCHANGED <<result, processes>>

\* Slip: one read is enough.
AtEndOfData(s) == pipe[s] = 0

\* The end of a stream: everything is read and nobody can write any more.
AtEnd(s) == pipe[s] = 0 /\ open[s] = {}

\* truncate_stderr
Truncated(n) == IF n > Shown THEN Shown ELSE n

Advance ==
  \/ /\ run = "stdout"
     /\ AtEnd("stdout")
     /\ run' = "stderr"
     /\ UNCHANGED <<status, error, processes, pipe, read>>
  \/ /\ run = "stderr"
     /\ AtEnd("stderr")
     /\ \/ status = "ok" /\ run' = "succeeded" /\ UNCHANGED error
        \/ status # "ok" /\ run' = "failed" /\ error' = Truncated(read["stderr"])
     /\ UNCHANGED <<status, processes, pipe, read>>

------------------------------------------------------------------------------

Proceed == Reap \/ TimeOut \/ Advance \/ \E s \in Streams : Read(s)

Next == \/ Spawn \/ Proceed \/ WaitFails \/ Exit
        \/ \E p \in Procs, s \in Streams : Write(p, s) \/ Close(p, s)

Spec == Init /\ [][Next]_vars

\* The clock runs on and the server polls its future; of the processes
\* nothing is assumed.
FairSpec == Spec /\ WF_vars(Proceed)

------------------------------------------------------------------------------

(***************************************************************************)
(* When run_cargo_build reports a status, no process that shared cargo's   *)
(* output can write any more, everything written was read, a success is    *)
(* one of a cargo that wrote all it had to, and a failure's message has    *)
(* the start of stderr.  What process_job then packs is not still being    *)
(* built by a process that kept cargo's output.                            *)
(***************************************************************************)
ReportIsComplete ==
  run \in Reported =>
    /\ \A s \in Streams : open[s] = {} /\ pipe[s] = 0
    /\ run = "succeeded" =>
         \A s \in Streams : /\ wrote[Cargo][s] = size[Cargo][s]
                            /\ size[Cargo][s] <= read[s]
    /\ run = "failed" => error = Truncated(read["stderr"])

HeldOpen == run \in Streams /\ open[run] # {} /\ open[run] \subseteq Helpers

(***************************************************************************)
(* The timeout bounds what cargo itself does: a run that waits for cargo   *)
(* ends, blocked on a full pipe or not, unless for ever after a helper     *)
(* cargo left behind keeps the stream open that is being read.             *)
(***************************************************************************)
EndsUnlessHeld == run = "waiting" ~> (run \in Ended \/ []HeldOpen)
=============================================================================
