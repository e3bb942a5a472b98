SPECIFICATION Spec
CONSTANTS
  NULL = NULL
  Households = {h1, h2}
  Requests = {r1, r2, r3}
  Ids = {1, 2}
  Bodies = {b1, b2}
  Keys = {k1}
  Links = {l1, l2}
  Focuses = {"brew_log", "hardware", "catalog", "bags", "guest"}
  MaxActive = 2
SYMMETRY Symmetry
CHECK_DEADLOCK FALSE
INVARIANTS TypeOK ShowsOwnHousehold NoOrphans ReferencesInHousehold AnswersMatchCommits LinksReplaced
PROPERTIES StaysInHousehold ImplementsKeyedShots ImplementsShelves
