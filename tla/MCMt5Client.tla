------------------------------ MODULE MCMt5Client ------------------------------
(* Mt5Client for TLC: the requests are interchangeable.                    *)
EXTENDS Mt5Client

Symmetry == Permutations(Requests)

=============================================================================
