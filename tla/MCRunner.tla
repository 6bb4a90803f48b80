------------------------------- MODULE MCRunner -------------------------------
(* Model checking of module Runner; the values are in the configurations.  *)
EXTENDS Runner

=============================================================================
