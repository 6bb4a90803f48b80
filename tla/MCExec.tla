-------------------------------- MODULE MCExec --------------------------------
(* Model checking of module Exec; the values are in the configurations.    *)
EXTENDS Exec

=============================================================================
