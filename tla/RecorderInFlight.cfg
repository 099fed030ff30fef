\* A change is notified while the one before it is being handled.
CONSTANTS
  i1 = 1  i2 = 2  s1 = s1  s2 = s2  home = home  away = away  f = f  g = g
  Entities = {1, 2}
  Sessions = {s1, s2}
  Collections = {home, away}
  Parts = {"body", "name"}
  Marks = {f, g}
  Watched = {home}
  Notices <- Edits
  Listenings <- Newest
  AllowUpgrade = FALSE
  OldFiles <- FreshStart
  MaxNotices = 2
  MaxBatch = 1
  MaxCrashes = 0
  MaxFailures = 0
  MaxAborts = 0
  MaxDefers = 0
  MaxSpent = 2
SPECIFICATION Spec
PROPERTIES ProcessedIsRemoved
CHECK_DEADLOCK FALSE
