SPECIFICATION Spec
CONSTANTS
  NULL = NULL
  Spellings = {n1, n2}
  Subs = {g1}
  Secrets = {s1, s2}
  Instances = {i1, i2}
  Requests = {r1, r2, r3, r4}
  States = {t1}
  Codes = {c1, c2}
  Limit = 1
  MaxActive = 2
CHECK_DEADLOCK FALSE
INVARIANTS TypeOK GuardedUntilSetup GuessesBounded StatesSpent
SYMMETRY Symmetry
