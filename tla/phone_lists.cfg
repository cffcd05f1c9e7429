\* Two rows, two texts; two changes of the user's or of others'.
CONSTANTS
  Screens <- AllScreens
  Ids = {me, a}
  Present <- SomePresent
  Me = me
  Filters <- SomeFilters
  Texts = {t1, t2}
  Loads = {l1, l2}
  Jobs = {j1, j2}
  MaxPhotos = 1
  None = None
  Gone = Gone
  MaxChanges = 2
SPECIFICATION ListsSpec
SYMMETRY ListSymmetry
INVARIANTS AnnouncedIsShown OthersFieldsRemain
PROPERTY AnnouncedIsDone
CHECK_DEADLOCK FALSE
