\* Two accounts on one phone, two requests at a time; two pairs of tokens in
\* every order, and a third for a session that is renewed twice.
CONSTANTS
  Users = {u1, u2}
  NoUser = NoUser
  Requests = {r1, r2}
  MaxPairs = 3
SPECIFICATION Spec
SYMMETRY PhoneSymmetry
CONSTRAINT ThirdPairOfOneSession
INVARIANTS RefreshIsAwaited NeverSpentTwice TokensOfTheUser
PROPERTY OnlyDeadSessionsClose
CHECK_DEADLOCK FALSE
