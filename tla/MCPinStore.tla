----------------------------- MODULE MCPinStore -----------------------------
(* Small instances of PinStore for TLC.  Threads are interchangeable. *)
EXTENDS PinStore, TLC

Symmetry == Permutations(Threads)
=============================================================================
