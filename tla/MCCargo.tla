------------------------------- MODULE MCCargo -------------------------------
(***************************************************************************)
(* CargoRun with a timeout that is long enough: nobody kills cargo, waiting *)
(* for it does not fail, and the time elapses only when cargo has come to  *)
(* a stand, with something to write and no room for it.                    *)
(***************************************************************************)
EXTENDS CargoRun

Unwritten == {s \in Streams : wrote[Cargo][s] < size[Cargo][s]}

Stuck == CargoRuns /\ Unwritten # {} /\ \A s \in Unwritten : pipe[s] = Pipe

PatientNext ==
  \/ Spawn \/ Reap \/ Advance
  \/ \E s \in Streams : Read(s) \/ Write(Cargo, s)
  \/ Exit /\ Unwritten = {}
  \/ TimeOut /\ Stuck

PatientSpec == Init /\ [][PatientNext]_vars

(***************************************************************************)
(* docs/api.md:144 of error_msg: "Compilation errors or runtime failure    *)
(* diagnostic details."  However long cargo is given, the message of a     *)
(* build that fails has the start of what cargo writes to stderr.          *)
(***************************************************************************)
CompileErrorsAreShown ==
  run \in {"failed", "timed_out"} => error = Truncated(size[Cargo]["stderr"])
=============================================================================
