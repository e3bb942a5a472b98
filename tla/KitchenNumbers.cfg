SPECIFICATION Spec
CONSTANTS
  NULL = NULL
  Households = {h1, h2}
  Requests = {r1, r2}
  Ids = {1, 2}
  Bodies = {b1}
  Keys = {}
  Links = {}
  Focuses = {"brew_log"}
  MaxActive = 1
CHECK_DEADLOCK FALSE
PROPERTIES NumberedWithinHousehold
