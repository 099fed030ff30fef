\* Every operation, with the user aborting and clearing at any moment.
CONSTANTS
  c1 = c1  f1 = f1  m1 = m1  v1 = v1
  r1 = r1  r2 = r2
  Collections = {c1}
  Fetches = {f1}
  Methods = {m1}
  Moves = {v1}
  Requests = {r1, r2}
  MaxTasks = 3
  MaxTimers = 2
  AllowAbort = TRUE
  AllowClear = TRUE
SPECIFICATION Spec
SYMMETRY RequestSymmetry
INVARIANTS TypeOK RunningTaskHasQueue NoLostWakeup OneCopy AtMostTwoReplays
