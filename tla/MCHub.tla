------------------------------- MODULE MCHub -------------------------------
(* Instances of Hub for TLC.                                               *)
EXTENDS Hub, TLC

(* Connections are interchangeable.                                        *)
ClientSymmetry == Permutations(Clients)

=============================================================================
