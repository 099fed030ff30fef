\* As Preprocessor.cfg; what lockedActivateFirstPreprocessor() relies on alone.
CONSTANTS
  c1 = c1  i1 = i1  i2 = i2  i3 = i3  spam = spam  virus = virus
  Connections = {c1}
  Items = {i1, i2, i3}
  Referenced = {i3}
  NoItem = NoItem  Nobody = Nobody
  Preprocessors = {spam, virus}
  MaxSignals = 2
  MaxFaults = 1
SPECIFICATION Spec
CHECK_DEADLOCK FALSE
INVARIANT NoDeadlock
