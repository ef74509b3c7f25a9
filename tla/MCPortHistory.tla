---------------------------- MODULE MCPortHistory ----------------------------
(***************************************************************************)
(* The small ports of MCPort with their histories, for the safety runs.    *)
(***************************************************************************)
EXTENDS MCPort, PortHistory
=============================================================================
