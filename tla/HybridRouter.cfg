\* Three concurrent requests, at most one planner call in three.
SPECIFICATION FairSpec
CONSTANTS
  r1 = r1
  r2 = r2
  r3 = r3
  Requests <- MCRequests
  Roles <- MCRoles
  Models <- MCModels
  WindowSize = 4
  Num = 1
  Den = 3
INVARIANTS
  OvershootBounded
PROPERTIES
  Answered
