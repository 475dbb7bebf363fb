----------------------------- MODULE MCPipeline -----------------------------
(***************************************************************************)
(* BuildPipeline for TLC.  Requests are numbers whose order is the order   *)
(* of arrival, so no symmetry is declared for them; the keys of usable     *)
(* URLs are interchangeable.                                               *)
(***************************************************************************)
EXTENDS BuildPipeline, TLC

Symmetry == Permutations(CacheKeys \ Malformed)
=============================================================================
