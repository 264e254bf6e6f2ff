CONSTANTS
  Instances = {i1}
  Handlers = {h1, h2}
  Runs = {r1, r2}
  Foreign = {}
  Pids = {r1, r2}
  PidOf <- MCPidOf
  Ops = {"create", "delete", "start", "stop", "kill", "status", "command", "upload"}
  AllowUpload = TRUE
  Faults = {"mkdir", "conf", "unlink", "rm", "out", "fork", "file"}
  MaxCrashes = 1
  None = None
  Blank = Blank
SYMMETRY MCSymmetry
SPECIFICATION DisciplinedSpec
INVARIANT DInv
INVARIANT WatchedPidFile
INVARIANT OneLiveRun
INVARIANT LiveIsKnown
INVARIANT NoStaleReport
PROPERTY NoRunIsDenied
PROPERTY NoRunIsInvented
PROPERTY GoneStaysForgotten
PROPERTY RequestsAdvance
PROPERTY ConfigurationIsKept
PROPERTY StopReaches
PROPERTY ImplementsLifecycle
