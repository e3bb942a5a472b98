SPECIFICATION Spec
CONSTANTS
  NULL = NULL
  Households = {h1, h2}
  Ids = {a}
  Focuses = {{"Catalog", "Inventory"}, {"Hardware", "Maintenance"}, {"Brew_Log"}}
  MaxRuns = 3
SYMMETRY Symmetry
CHECK_DEADLOCK FALSE
INVARIANTS TypeOK SeedsOnce ReferencesStayInside ValidMeansFaithful
PROPERTIES CompleteMeansMigrated
