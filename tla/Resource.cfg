\* A resource with one collection.  The bounds on faults and changes do not end
\* behaviours: users may synchronise at any time.
CONSTANTS
  c1 = c1  f1 = f1  m1 = m1  v1 = v1  v2 = v2  r1 = r1
  Collections = {c1}
  Fetches = {f1}
  Methods = {m1}
  Moves = {v1, v2}
  Requests = {r1}
  Offered <- Asked
  MaxTasks = 2
  MaxTimers = 1
  AllowAbort = TRUE
  AllowClear = FALSE
  MaxChanges = 2
  MaxFaults = 1
SPECIFICATION ResourceFairSpec
INVARIANTS WorkedOn ReplayPlanned NoChangeSkipped CallersServed
PROPERTIES AllServed
CHECK_DEADLOCK FALSE
