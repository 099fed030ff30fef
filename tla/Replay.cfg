\* Clients change the payloads and flags of two items; the agent crashes and puts
\* changes off, and the mail server refuses requests.
CONSTANTS
  i1 = 1  i2 = 2  s1 = s1  s2 = s2  home = home  f = f  g = g
  Entities = {1, 2}
  Sessions = {s1, s2}
  Collections = {home}
  Home = home
  Parts = {"PLD:RFC822"}
  Marks = {f, g}
  Watched = {home}
  AtFirst <- OneFlagged
  Workloads <- SomeWorkloads
  Notices <- NoNotices
  Listenings <- ImapAgent
  AllowUpgrade = FALSE
  OldFiles <- FreshStart
  MaxNotices = 4
  MaxBatch = 1
  MaxCrashes = 1
  MaxFailures = 0
  MaxAborts = 0
  MaxDefers = 1
  MaxSpent = 6
SPECIFICATION ReplaySpec
INVARIANT ConvergedUndisturbed OnceEachUndisturbed
SYMMETRY SessionsAlike
CHECK_DEADLOCK FALSE
