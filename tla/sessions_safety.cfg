\* Redis, two requests at a time, two pairs of tokens.
CONSTANTS
  Users = {u1}
  Calls = {c1, c2}
  MaxTokens = 4
  Replicas = {r1}
  Shared = TRUE
  AccessLife = 1
  RefreshLife = 2
SPECIFICATION Spec
SYMMETRY CallSymmetry
INVARIANT SpentBeforeReplaced
PROPERTIES RevokedUntilExpiry DeactivationDrains
