\* Changes, batches, replays and crashes in any order.  The bound on notices
\* ends every behaviour, hence no deadlock check.
CONSTANTS
  i1 = 1  i2 = 2  s1 = s1  s2 = s2  home = home  away = away  f = f  g = g
  Entities = {1, 2}
  Sessions = {s1, s2}
  Collections = {home, away}
  Parts = {"body", "name"}
  Marks = {f, g}
  Watched = {home}
  Notices <- Life
  Listenings <- Both
  AllowUpgrade = TRUE
  OldFiles <- AnyStart
  MaxNotices = 2
  MaxBatch = 2
  MaxCrashes = 2
  MaxFailures = 1
  MaxAborts = 1
  MaxDefers = 1
  MaxSpent = 4
SPECIFICATION FairSpec
INVARIANTS TypeOK FileHoldsPending CountIsKnown
PROPERTIES AllReplayed ReplayEnds ImplementsLog
CHECK_DEADLOCK FALSE
