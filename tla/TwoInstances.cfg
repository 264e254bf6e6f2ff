CONSTANTS
  Instances = {i1, i2}
  Handlers = {h1, h2}
  Runs = {r1, r2}
  Foreign = {}
  Pids = {r1, r2, n1}
  PidOf <- MCPidOf
  Ops = {"create", "start", "kill", "upload"}
  AllowUpload = FALSE
  Faults = {}
  MaxCrashes = 0
  None = None
  Blank = Blank
SYMMETRY MCInstanceSymmetry
SPECIFICATION UntornSpec
INVARIANT PInv
PROPERTY SignalsOwn
