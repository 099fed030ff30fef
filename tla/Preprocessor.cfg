\* One connection shows every race, for the others are with the main thread; the
\* bound on items ends behaviours, hence no deadlock check.
CONSTANTS
  c1 = c1  i1 = i1  i2 = i2  i3 = i3  spam = spam  virus = virus
  Connections = {c1}
  Items = {i1, i2, i3}
  Referenced = {i3}
  NoItem = NoItem  Nobody = Nobody
  Preprocessors = {spam, virus}
  MaxSignals = 2
  MaxFaults = 1
SPECIFICATION FairSpec
INVARIANTS NoItemForgotten AskedForHead ShownProcessed
PROPERTIES EventuallyShown
CHECK_DEADLOCK FALSE
