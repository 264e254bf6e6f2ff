CONSTANTS
  Instances = {i1}
  Handlers = {h1, h2}
  Runs = {r1, r2}
  Foreign = {}
  Pids = {r1, r2, n1}
  PidOf <- MCPidOf
  Ops = {"create", "delete", "start", "uploadConf", "upload"}
  AllowUpload = TRUE
  Faults = {}
  MaxCrashes = 1
  None = None
  Blank = Blank
SYMMETRY MCSymmetry
SPECIFICATION Spec
INVARIANT IInv
INVARIANT EmptyConfigIsFilled
