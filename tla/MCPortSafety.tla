----------------------------- MODULE MCPortSafety ----------------------------
(***************************************************************************)
(* The small ports of MCPort with both their records, that of what crossed *)
(* the line and that of how switches, describes and reloads met.           *)
(***************************************************************************)
EXTENDS MCPort, PortRecord, PortHistory

SafetyInit == RInit /\ HInit

SafetyNext == HNext /\ ObserveLine /\ ObserveFrames

SafetySpec == SafetyInit /\ [][SafetyNext]_<<rvars, hvars>>
=============================================================================
