CONSTANTS
  Instances = {i1}
  Handlers = {h1, h2}
  Runs = {r1, r2}
  Foreign = {}
  Pids = {r1, r2}
  PidOf <- MCPidOf
  Ops = {"create", "start", "status"}
  AllowUpload = TRUE
  Faults = {}
  MaxCrashes = 0
  None = None
  Blank = Blank
SPECIFICATION ExclusiveSpec
INVARIANT LiveIsKnown
