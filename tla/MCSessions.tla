----------------------------- MODULE MCSessions -----------------------------
(* Small instances of Sessions for TLC.                                    *)
EXTENDS Sessions, TLC

(* Requests are alike.                                                     *)
CallSymmetry == Permutations(Calls)
=============================================================================
