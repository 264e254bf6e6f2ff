CONSTANTS
  Instances = {i1}
  Handlers = {h1, h2}
  Runs = {r1}
  Foreign = {f1}
  Pids = {n1}
  PidOf <- MCReusedPid
  Ops = {"create", "start", "stop"}
  AllowUpload = TRUE
  Faults = {}
  MaxCrashes = 1
  None = None
  Blank = Blank
SPECIFICATION DisciplinedSpec
PROPERTY SignalsOwn
