CONSTANTS
  Instances = {i1}
  FlagLists <- MCNetworkOnly
  IfNames = {eth1}
  IfType <- MCIfType
  Streams = {stream1}
  Missing = Missing
  Garbled = Garbled
SPECIFICATION Spec
INVARIANT CountersAreTheirs
