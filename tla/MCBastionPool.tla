---------------------------- MODULE MCBastionPool ----------------------------
(* Model checking of module BastionPool.                                   *)
EXTENDS BastionPool

CONSTANTS h1, h2

MCTwoHosts == {h1, h2}

=============================================================================
