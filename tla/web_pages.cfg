\* One row and one sample, two more to be made; two changes.
CONSTANTS
  Pages <- EveryPage
  Ids = {sample, a, b, c}
  Present = {a}
  Samples = {sample}
  Filters <- SomeFilters
  Texts = {t1}
  Loads = {l1, l2}
  Jobs = {j1, j2}
  Nothing = Nothing
  NoRow = NoRow
  MaxChanges = 2
SPECIFICATION PageSpec
INVARIANTS QuietAgrees FilterIsObeyed
PROPERTIES OnlyOwnDialogCloses SpinnersStop
CHECK_DEADLOCK FALSE
