CONSTANTS
  Instances = {i1, i2}
  FlagLists <- MCFlagLists
  IfNames = {eth1}
  IfType <- MCIfType
  Streams = {stream1}
  Missing = Missing
  Garbled = Garbled
SPECIFICATION Spec
INVARIANT TypeOK
INVARIANT IInv
INVARIANT NoSendAfterClose
PROPERTY ScrapeEnds
PROPERTY OnlyRepeatsFail
PROPERTY ImplementsGather
