SPECIFICATION NodeSpec
CONSTANTS
  Emails = {"e1", "e2"}
  Passwords = {"p1", "p2"}
  SeedUser <- Seed
  Changes <- Bodies
  ComplaintStatuses = {"PENDING", "IN_REVIEW"}
  Capacity = 2
  Slots = {q1, q2}
  Viewers = {v1}
  MaxUsers = 4
  MaxComplaints = 3
  MaxQueue = 2
  MaxActs = 5
  None = None
INVARIANTS LoginsSeeAnsweredChanges AnsweredStatusIsRead ViewersCatchUp
