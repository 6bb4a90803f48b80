------------------------------ MODULE MCReports ------------------------------
(* Model checking of module Reports: hosts are interchangeable.            *)
EXTENDS Reports, TLC

Symmetric == Permutations(Hosts)

=============================================================================
