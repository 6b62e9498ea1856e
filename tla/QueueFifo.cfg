\* Two producers and two consumers on a ring of two slots.
CONSTANTS
  NoValue = NoValue
  Producers = {p1, p2}
  Consumers = {c1, c2}
  Values = {v1, v2}
  Capacity = 2
  BlockModes = {FALSE}
  MaxPushes = 4
SPECIFICATION Spec
SYMMETRY Symmetry
INVARIANT TypeOK
INVARIANT SingleCommitter
INVARIANT NoOverwrite
PROPERTY PushFailsOnlyWhenFullOrOvertaken
PROPERTY IsFifo
