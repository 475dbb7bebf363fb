---------------------------- MODULE MCInstaller ----------------------------
(***************************************************************************)
(* SmartInstaller for TLC, and what the documents say of the installer and *)
(* the script does not do under the server's own default settings.         *)
(***************************************************************************)
EXTENDS SmartInstaller

(***************************************************************************)
(* docs/api.md:509 says of the installer: "Orchestrates the dynamic        *)
(* hardware profiling, build enqueuing, and download pipeline."  So when   *)
(* nothing fails and its job is done, a script that has ended has          *)
(* installed the build.                                                    *)
(***************************************************************************)
BuiltIsInstalled ==
  job \in published /\ step \in Ended => step = "installed"
=============================================================================
