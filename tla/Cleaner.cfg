\* Two collections, one of which inherits its policy.  Units of half a minute: a
\* batch is two of them.  The bound on changes ends behaviours in which nothing is
\* scheduled any more, hence no deadlock check.
CONSTANTS
  inbox = inbox  sent = sent  copy = copy
  Collections = {inbox, sent}
  Inheriting = {sent}
  Timeouts = {1, 4}
  Off = Off
  MinInterval = 2
  Batch = 2
  Handlers = {copy}
  MaxLate = 3
  MaxChanges = 2
SPECIFICATION FairSpec
INVARIANTS ScheduleIsCurrent NoCollectionForgotten OnTime HeedsInhibitors
PROPERTIES EventuallyCleaned
CHECK_DEADLOCK FALSE
