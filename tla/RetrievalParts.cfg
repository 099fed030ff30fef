\* Two threads ask for different parts of an item.
CONSTANTS
  t1 = t1  t2 = t2  i1 = 1  i2 = 2  i3 = 3
  imap = imap  maildir = maildir  head = head  body = body
  Threads = {t1, t2}
  Items = {1, 2, 3}
  Resources = {imap, maildir}
  Owner <- TwoResources
  Parts = {head, body}
  WishLists <- AskedFor
  MaxExecs = 2
SPECIFICATION Spec
INVARIANTS SuccessMeansCached
CHECK_DEADLOCK FALSE
