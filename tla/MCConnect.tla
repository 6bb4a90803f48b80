------------------------------- MODULE MCConnect -------------------------------
(* Model checking of module Connect: a duration of 6 bits, so that nine    *)
(* retries shift a bit out at the top and past it, with delays that are    *)
(* zero, odd and even, and negative ones, of which -1 just does not panic. *)
EXTENDS Connect

MCBases == {-3, 0, 1, 17}

MCMaxDelays == {-2, -1, 0, 7}

=============================================================================
