--------------------------- MODULE MCPhoneNotices ---------------------------
(* Instances of PhoneNotices for TLC.                                      *)
EXTENDS PhoneNotices, TLC

(* The accounts are interchangeable, and so are the tokens.                *)
Interchangeable == Permutations(Users) \cup Permutations(Tokens)

=============================================================================
