\* Two clients search the collections of two resources; the bound on searches
\* ends every behaviour, hence no deadlock check.
CONSTANTS
  c1 = c1  c2 = c2  imap = imap  maildir = maildir
  inbox = inbox  archive = archive
  Clients = {c1, c2}
  Resources = {imap, maildir}
  Collections = {inbox, archive}
  Owner <- TwoCollections
  NoId = NoId
  MaxSearches = 2
  MaxFaults = 1
SPECIFICATION FairSpec
INVARIANTS ReferencesAlive NoSearchForgotten OwnResults
PROPERTIES SearchesEnd
CHECK_DEADLOCK FALSE
