---------------------------- MODULE MCPhoneLists ----------------------------
(* Small instances of PhoneLists for TLC.                                  *)
EXTENDS PhoneLists, TLC

AllScreens == {"users", "routes", "companies", "buses", "inbox", "replies", "mine"}

(* One's own account is there and, on the list of users, maybe another: the*)
(* one that somebody else changes too. Elsewhere rows are added.           *)
SomePresent == [s \in AllScreens |-> IF s = "users" THEN {{Me}, Ids} ELSE {{Me}}]

(* Some complaints are asked for, or all of them.                          *)
SomeFilters == {"ALL", "PENDING"}

(* Loads are alike, and so are changes and texts.                          *)
ListSymmetry == Permutations(Loads) \cup Permutations(Jobs) \cup Permutations(Texts)
=============================================================================
