----------------------------- MODULE MCHostKeys -----------------------------
(* Model checking of module HostKeys.                                      *)
EXTENDS HostKeys

=============================================================================
