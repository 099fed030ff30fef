\* Two threads and three items with two parts each, of two resources; the bound on
\* calls of exec() ends every behaviour, hence no deadlock check.
CONSTANTS
  t1 = t1  t2 = t2  i1 = 1  i2 = 2  i3 = 3
  imap = imap  maildir = maildir  head = head  body = body
  Threads = {t1, t2}
  Items = {1, 2, 3}
  Resources = {imap, maildir}
  Owner <- TwoResources
  Parts = {head, body}
  WishLists <- AskedFor
  MaxExecs = 2
SPECIFICATION FairSpec
INVARIANTS RequestsTracked NoLostWakeup SuccessMeansAsked
PROPERTIES ExecEnds
CHECK_DEADLOCK FALSE
