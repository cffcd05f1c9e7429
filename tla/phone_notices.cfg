\* Two accounts and two tokens of one phone, seven acts of the user or the
\* world, at most three jobs and two writes waiting.
CONSTANTS
  Users = {u1, u2}
  NoUser = nobody
  Tokens = {t1, t2}
  NoToken = none
  MaxActs = 7
  MaxJobs = 3
  MaxWrites = 2
SPECIFICATION Spec
SYMMETRY Interchangeable
INVARIANTS RegisteredIsTrue NoForgottenRegistration LastChangeIsSaved
CHECK_DEADLOCK FALSE
