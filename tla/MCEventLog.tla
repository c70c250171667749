----------------------------- MODULE MCEventLog -----------------------------
(* EventLog for TLC: small numbers only, no symmetry because of liveness.  *)
EXTENDS EventLog, TLC
=============================================================================
