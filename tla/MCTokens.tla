------------------------------ MODULE MCTokens ------------------------------
(***************************************************************************)
(* TokenAccess for TLC.  Calls are interchangeable, so their permutations  *)
(* are a symmetry of the safety runs.  Besides the properties of the       *)
(* specification, which hold, this module states what the documents say of *)
(* the rate limit and the code does not do.                                *)
(***************************************************************************)
EXTENDS TokenAccess, TLC

Symmetry == Permutations(Calls)

(***************************************************************************)
(* docs/architecture.md:88: "The system tracks timestamps of requests      *)
(* within a sliding 60-second window.  If a client exceeds the maximum     *)
(* allowed count, the server responds immediately with a 429".  So, as     *)
(* long as no statement fails, no window of that length holds more         *)
(* admitted calls than the limit.                                          *)
(***************************************************************************)
EveryWindowBounded ==
  (\A c \in Calls : step[c] # "error") =>
    \A i \in TokenIds, t \in 0 .. MaxTime :
      Cardinality({c \in Calls : row[c] = i /\ now[c] \in t .. t + Window - 1})
        <= Limit
=============================================================================
