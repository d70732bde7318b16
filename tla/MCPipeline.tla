----------------------------- MODULE MCPipeline ------------------------------
(***************************************************************************)
(* Instances of Pipeline for TLC.                                          *)
(***************************************************************************)
EXTENDS Pipeline, TLC

MCRequests == {"request"}
MCSenders  == {"pipeline"} \cup MCRequests

\* Two of the five detectors: one behind the one that raises or alerts.
MCDetectors == <<"signature", "port_scan">>
OneDetector == <<"signature">>

\* No property of the run feed tells one client from another.
ClientsAlike == Permutations(Sockets)
=============================================================================
