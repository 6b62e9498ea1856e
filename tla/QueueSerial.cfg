\* Two producers and a single consumer, blocking and not, under fairness.
CONSTANTS
  NoValue = NoValue
  Producers = {p1, p2}
  Consumers = {c1}
  Values = {v1}
  Capacity = 2
  BlockModes = {FALSE, TRUE}
  MaxPushes = 3
SPECIFICATION FairSpec
PROPERTY PopFailsOnlyWhenEmpty
PROPERTY EveryCallReturns
