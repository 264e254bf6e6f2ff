CONSTANTS
  Instances = {i1}
  Handlers = {h1, h2}
  Runs = {r1}
  Foreign = {f1}
  Pids = {n1}
  PidOf <- MCReusedPid
  Ops = {"create", "delete", "start", "stop", "command"}
  AllowUpload = TRUE
  Faults = {"pid"}
  MaxCrashes = 0
  None = None
  Blank = Blank
SPECIFICATION FairSpec
INVARIANT TypeOK
INVARIANT ChildHasWaiter
PROPERTY StartAnswersTrue
PROPERTY RequestAnswered
PROPERTY StoppedIsForgotten
