\* Changes of two statements; the bound on changes ends every behaviour, hence no
\* deadlock check.
CONSTANTS
  Steps = 2
  MaxChanges = 2
  MaxClient = 1
  MaxNested = 2
  MaxFaults = 4
SPECIFICATION Spec
INVARIANTS TypeOK Balanced ToldIsStored StoredIsTold
PROPERTIES NothingBeforeCommit
CHECK_DEADLOCK FALSE
