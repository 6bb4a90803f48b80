--------------------------- MODULE MCOutputBuffer ---------------------------
(* Model checking of module OutputBuffer.                                  *)
EXTENDS OutputBuffer

\* Patterns that overlap themselves and each other, and a one-byte pattern
\* would make carry too short if it decided keep.
MCPats == <<<<0, 0, 1>>, <<1, 0>>, <<1>>>>

=============================================================================
