CONSTANTS
  Dummy = Dummy
  Null = Null
  Blank = Blank
  Producers = {p1}
  Consumers = {c1}
  BulkPoppers = {}
  Items = {i1, i2, i3, i4}
  PushSizes = {1}
  MaxLength = 1
  Modulus = 16
SPECIFICATION FairSpec
PROPERTIES SleepsOnlyWhenFull PushReturns
CHECK_DEADLOCK FALSE
