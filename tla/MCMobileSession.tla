--------------------------- MODULE MCMobileSession --------------------------
(* Small instances of MobileSession for TLC.                               *)
EXTENDS MobileSession, TLC

(* Requests are alike, and so are accounts.                                *)
PhoneSymmetry == Permutations(Requests) \cup Permutations(Users)

(* A constraint: once the last pair is issued, what comes after a sign-out *)
(* or a sign-in among requests of before is not followed.                  *)
ThirdPairOfOneSession == issued = MaxPairs => ~left /\ ~mixed
=============================================================================
