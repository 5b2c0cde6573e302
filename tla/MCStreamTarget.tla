--------------------------- MODULE MCStreamTarget ---------------------------
(* StreamSystem with interchangeable clients.                              *)
EXTENDS StreamSystem, TLC

ClientSymmetry == Permutations(Clients)

=============================================================================
