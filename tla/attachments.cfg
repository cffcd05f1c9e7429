\* Two uploads for the one place of a complaint, two removals. With one place
\* an image that is there already is also one too many: one image will do.
CONSTANTS
  Complaints = {q1}
  Uploads = {u1, u2}
  Removals = {r1, r2}
  Images = {i1}
  NoUpload = NoUpload
  Limit = 1
SPECIFICATION FairSpec
INVARIANTS LimitHolds NothingForgotten
PROPERTY RequestsEnd
CHECK_DEADLOCK FALSE
