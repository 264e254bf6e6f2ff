CONSTANTS
  Instances = {i1}
  Handlers = {h1, h2}
  Runs = {r1}
  Foreign = {}
  Pids = {r1}
  PidOf <- MCPidOf
  Ops = {"create", "start", "status"}
  AllowUpload = TRUE
  Faults = {}
  MaxCrashes = 0
  None = None
  Blank = Blank
SPECIFICATION PollSpec
INVARIANT LiveIsKnown
