------------------------------ MODULE Repository ------------------------------
(***************************************************************************)
(* The instances of the controller: pkg/controller/repository.go, the      *)
(* child processes of pkg/controller/process.go, and the handlers of       *)
(* pkg/server/server.go that drive them.                                   *)
(*                                                                         *)
(* Every request is served by a goroutine of its own and the repository    *)
(* holds no lock: its only state is the folder of each instance and the    *)
(* kernel's process table.  A step here is one system call of one          *)
(* goroutine (or a group of calls whose order nobody else can observe in   *)
(* this state), so every interleaving of requests, of the goroutine that   *)
(* waits for a child, of the children and of a crash is a behaviour.       *)
(***************************************************************************)
EXTENDS FiniteSets, Naturals

CONSTANTS
  Instances,    \* instance names, as cleanPathVariable returns them
  Handlers,     \* goroutines that serve requests
  Runs,         \* launches of the bngblaster, one element per cmd.Start
  Foreign,      \* processes of other programs on the host
  Pids,         \* process ids
  PidOf,        \* the id the kernel gives to each process
  Ops,          \* the operations the clients call
  AllowUpload,  \* the flag -upload of the controller
  Faults,       \* the sites at which the host may refuse a system call
  MaxCrashes,   \* bound: how often the controller dies and is restarted
  None,         \* no such file, no such value
  Blank         \* a file that is there and tells nothing

Procs == Runs \cup Foreign

\* uploadConf: an upload of a file named config.json; upload: of one with a name
\* that no other operation uses.
AllOps == {"create", "delete", "start", "stop", "kill", "status", "command", "upload", "uploadConf"}

\* mkdir: MkdirAll; conf: config.json; unlink: Remove of a file of a run; rm: RemoveAll;
\* out: run.json, run.stdout and run.stderr; fork: cmd.Start; pid: run.pid; file: an upload
FaultSites == {"mkdir", "conf", "unlink", "rm", "out", "fork", "pid", "file"}

ASSUME RepositoryAssumption ==
  /\ Runs \cap Foreign = {}
  /\ PidOf \in [Procs -> Pids]
  /\ Ops \subseteq AllOps
  /\ AllowUpload \in BOOLEAN
  /\ Faults \subseteq FaultSites
  /\ MaxCrashes \in Nat
  /\ None \notin Instances \cup Procs \cup Pids \cup AllOps \cup {Blank}
  /\ Blank \notin Procs \cup Pids

VARIABLES
  \* the folder of an instance
  folder,       \* folder[i]: the directory exists
  conf,         \* conf[i]: what config.json holds; sentEmpty: nothing, as it was sent
  output,       \* output[i]: None; Blank: run.json, run.stdout and run.stderr
                \* are there; r: and the report that run r wrote
  pidFile,      \* pidFile[i]: None; Blank: truncated; a process id
  extra,        \* extra[i]: an uploaded file is there
  linked,       \* handlers that hold a file open which is still in its folder
  \* processes
  st,           \* st[p]: where process p is in its life
  owner,        \* owner[r]: the instance run r was launched for
  orphans,      \* runs launched before the controller was last restarted
  waiter,       \* waiter[r]: the goroutine RunCommand leaves behind for run r
  \* requests
  pc, op, inst, \* what handler h does next, for which operation and instance
  seen,         \* seen[h]: the process id h read from run.pid
  mine,         \* mine[h]: the run h launched
  code,         \* code[h]: the status, or answer, of h's latest request
  crashes

dirVars  == <<folder, conf, output, pidFile, extra, linked>>
procVars == <<st, owner, orphans, waiter>>
reqVars  == <<pc, op, inst, seen, mine, code>>
vars     == <<dirVars, procVars, reqVars, crashes>>

Labels == {"idle", "exists", "stat", "read", "probe", "unlink", "mkdir", "confOpen",
           "confWrite", "cleanPid", "cleanRest", "rmFiles", "rmDir", "prepare",
           "fork", "pidOpen", "pidWrite", "spawn", "readPid", "signal",
           "dial", "form", "fileOpen", "fileCopy"}

Codes == {"none", "200", "201", "202", "204", "400", "403", "404", "412", "413", "500",
          "started", "stopped"}

Configs == {"none", "empty", "sentEmpty", "damaged", "whole"}

TypeOK ==
  /\ folder \in [Instances -> BOOLEAN]
  /\ conf \in [Instances -> Configs]
  /\ output \in [Instances -> Runs \cup {None, Blank}]
  /\ pidFile \in [Instances -> Pids \cup {None, Blank}]
  /\ extra \in [Instances -> BOOLEAN]
  /\ linked \in SUBSET Handlers
  /\ st \in [Procs -> {"unborn", "alive", "stopping", "zombie", "dead"}]
  /\ owner \in [Procs -> Instances \cup {None}]
  /\ orphans \in SUBSET Runs
  /\ waiter \in [Runs -> {"none", "wait", "remove"}]
  /\ pc \in [Handlers -> Labels]
  /\ op \in [Handlers -> AllOps \cup {None}]
  /\ inst \in [Handlers -> Instances \cup {None}]
  /\ seen \in [Handlers -> Pids \cup {None}]
  /\ mine \in [Handlers -> Runs \cup {None}]
  /\ code \in [Handlers -> Codes]
  /\ crashes \in 0..MaxCrashes

\* An empty configuration folder and a controller that has just been started.
Init ==
  /\ folder = [i \in Instances |-> FALSE]
  /\ conf = [i \in Instances |-> "none"]
  /\ output = [i \in Instances |-> None]
  /\ pidFile = [i \in Instances |-> None]
  /\ extra = [i \in Instances |-> FALSE]
  /\ linked = {}
  /\ st = [p \in Procs |-> "unborn"]
  /\ owner = [p \in Procs |-> None]
  /\ orphans = {}
  /\ waiter = [r \in Runs |-> "none"]
  /\ pc = [h \in Handlers |-> "idle"]
  /\ op = [h \in Handlers |-> None]
  /\ inst = [h \in Handlers |-> None]
  /\ seen = [h \in Handlers |-> None]
  /\ mine = [h \in Handlers |-> None]
  /\ code = [h \in Handlers |-> "none"]
  /\ crashes = 0

-----------------------------------------------------------------------------
(* The process table, as kill(2) and fork(2) see it.                       *)

Live(p) == st[p] \in {"alive", "stopping"}

\* A child that ended and was not waited for keeps its process id.
InTable(p) == Live(p) \/ st[p] = "zombie"

LiveRuns(i) == {r \in Runs : owner[r] = i /\ Live(r)}

PidFree(n) == \A p \in Procs : InTable(p) => PidOf[p] # n

\* Where the end of process p leaves it: a child waits to be reaped by the
\* controller, any other process by its own parent or by init, at once.
Ended(p) == IF p \in Runs \ orphans THEN "zombie" ELSE "dead"

-----------------------------------------------------------------------------
(* Steps of a handler.                                                     *)

Busy(h) == pc[h] # "idle"

Goto(h, label) == pc' = [pc EXCEPT ![h] = label] /\ UNCHANGED <<op, inst, code>>

\* The answer goes out and the goroutine ends.
Reply(h, c) ==
  /\ pc' = [pc EXCEPT ![h] = "idle"]
  /\ op' = [op EXCEPT ![h] = None]
  /\ inst' = [inst EXCEPT ![h] = None]
  /\ code' = [code EXCEPT ![h] = c]

\* os.Remove(run.pid), by path: it takes whatever file has the name now, and a
\* goroutine that opened that file writes to a file nobody can read any more.
RemovePidFile(i) ==
  /\ pidFile' = [pidFile EXCEPT ![i] = None]
  /\ linked' = linked \ {h \in Handlers : inst[h] = i /\ op[h] = "start"}

\* The same where the code drops the error.
TryRemovePidFile(i) ==
  RemovePidFile(i) \/ ("unlink" \in Faults /\ UNCHANGED <<pidFile, linked>>)

FirstLabel(o) ==
  CASE o \in {"create", "start", "status", "command", "upload", "uploadConf"} -> "exists"
    [] o = "delete"                                                          -> "stat"
    [] o \in {"stop", "kill"}                                                -> "readPid"

\* A request for operation o on instance i reaches a goroutine.
Accept(h, o, i) ==
  /\ ~Busy(h)
  /\ pc' = [pc EXCEPT ![h] = FirstLabel(o)]
  /\ op' = [op EXCEPT ![h] = o]
  /\ inst' = [inst EXCEPT ![h] = i]
  /\ code' = [code EXCEPT ![h] = "none"]
  /\ UNCHANGED <<seen, mine, dirVars, procVars, crashes>>

\* A create, start or command whose body cannot be read is answered at once.
BadBody(h, o) ==
  /\ ~Busy(h)
  /\ o \in {"create", "start", "command"}
  /\ code' = [code EXCEPT ![h] = "400"]
  /\ UNCHANGED <<pc, op, inst, seen, mine, dirVars, procVars, crashes>>

Uploads == {"upload", "uploadConf"}

\* Exists: create keeps the status it will answer with, the others need the folder.
Exists(h) ==
  /\ pc[h] = "exists"
  /\ \/ /\ op[h] = "create"
        /\ pc' = [pc EXCEPT ![h] = "stat"]
        /\ code' = [code EXCEPT ![h] = IF folder[inst[h]] THEN "204" ELSE "201"]
        /\ UNCHANGED <<op, inst>>
     \/ /\ op[h] # "create" /\ folder[inst[h]]
        /\ Goto(h, IF op[h] \in Uploads THEN "form" ELSE "stat")
     \/ op[h] # "create" /\ ~folder[inst[h]] /\ Reply(h, "404")
  /\ UNCHANGED <<seen, mine, dirVars, procVars, crashes>>

\* Create, Delete and Start refuse an instance that runs ...
StartUnguarded  == {"create", "delete"}         \* mutant: Start forgets to
CreateUnguarded == {"delete", "start"}          \* mutant: Create forgets to
DeleteUnguarded == {"create", "start"}          \* mutant: Delete forgets to
Guarded         == {"create", "delete", "start"}

\* ... and begin their work on any other one.
NoCleanup(o) ==                                 \* mutant: Start keeps the old files
  CASE o = "create" -> "mkdir" [] o = "delete" -> "rmFiles" [] o = "start" -> "prepare"
FirstStep(o) ==
  CASE o = "create" -> "mkdir" [] o = "delete" -> "rmFiles" [] o = "start" -> "cleanPid"

\* What the caller of Running does with the result.
RunningReturns(h, running) ==
  \/ op[h] = "status" /\ Reply(h, IF running THEN "started" ELSE "stopped")
  \/ op[h] = "command" /\ running /\ Goto(h, "dial")
  \/ op[h] = "command" /\ ~running /\ Reply(h, "412")
  \/ op[h] \in Guarded /\ running /\ Reply(h, "412")
  \/ /\ op[h] \notin {"status", "command"} /\ ~(running /\ op[h] \in Guarded)
     /\ Goto(h, FirstStep(op[h]))

RunningStat(h) ==
  /\ pc[h] = "stat"
  /\ IF pidFile[inst[h]] = None THEN RunningReturns(h, FALSE) ELSE Goto(h, "read")
  /\ UNCHANGED <<seen, mine, dirVars, procVars, crashes>>

\* The process id in run.pid: a file that is gone or holds no number has none.
UnparsedPidIn(i) == pidFile[i]                  \* mutant: the error of Atoi is dropped
PidIn(i) == IF pidFile[i] \in Pids THEN pidFile[i] ELSE None

RunningRead(h) ==
  /\ pc[h] = "read"
  /\ seen' = [seen EXCEPT ![h] = PidIn(inst[h])]
  /\ Goto(h, IF PidIn(inst[h]) = None THEN "unlink" ELSE "probe")
  /\ UNCHANGED <<mine, dirVars, procVars, crashes>>

TrustPidFile(h) ==                              \* mutant: a run.pid is enough
  /\ pc[h] = "probe"
  /\ RunningReturns(h, TRUE)
  /\ seen' = [seen EXCEPT ![h] = None]
  /\ UNCHANGED <<mine, dirVars, procVars, crashes>>

\* Signal 0, sent with the rights of root: any process with that id counts.
RunningProbe(h) ==
  /\ pc[h] = "probe"
  /\ IF PidFree(seen[h]) THEN Goto(h, "unlink") ELSE RunningReturns(h, TRUE)
  /\ seen' = [seen EXCEPT ![h] = None]
  /\ UNCHANGED <<mine, dirVars, procVars, crashes>>

RunningAgain(h) ==                              \* mutant: Running starts over
  /\ pc[h] = "unlink"
  /\ TryRemovePidFile(inst[h])
  /\ Goto(h, "stat")
  /\ UNCHANGED <<folder, conf, output, extra, seen, mine, procVars, crashes>>

RunningUnlink(h) ==
  /\ pc[h] = "unlink"
  /\ TryRemovePidFile(inst[h])
  /\ RunningReturns(h, FALSE)
  /\ UNCHANGED <<folder, conf, output, extra, seen, mine, procVars, crashes>>

CreateMkdir(h) ==
  /\ pc[h] = "mkdir"
  /\ \/ folder' = [folder EXCEPT ![inst[h]] = TRUE] /\ Goto(h, "confOpen")
     \/ "mkdir" \in Faults /\ Reply(h, "500") /\ UNCHANGED folder
  /\ UNCHANGED <<conf, output, pidFile, linked, extra, seen, mine, procVars, crashes>>

\* os.WriteFile(config.json), or os.Create of an upload with that name, first
\* truncates the file ...
ConfOpen(h) ==
  /\ pc[h] = "confOpen"
  /\ \/ /\ folder[inst[h]]
        /\ conf' = [conf EXCEPT ![inst[h]] = "empty"]
        /\ linked' = linked \cup {h}
        /\ Goto(h, "confWrite")
     \/ (~folder[inst[h]] \/ "conf" \in Faults) /\ Reply(h, "500") /\ UNCHANGED <<conf, linked>>
  /\ UNCHANGED <<folder, output, pidFile, extra, seen, mine, procVars, crashes>>

\* ... then writes it.  Over what another request wrote since, the shorter text
\* leaves the tail of the longer one.  Only a create refuses an empty body: an
\* upload of nothing writes nothing, and succeeds.
Written(o, old) ==
  (IF old \in {"empty", "sentEmpty"} THEN {"whole"} ELSE {"whole", "damaged"})
    \cup (IF o = "create" THEN {} ELSE {IF old = "empty" THEN "sentEmpty" ELSE old})

\* mutant: Running is asked once more, over the file that was just truncated
ConfWriteGuarded(h) ==
  /\ pc[h] = "confWrite"
  /\ linked' = linked \ {h}
  /\ \/ /\ LiveRuns(inst[h]) = {} /\ h \in linked
        /\ conf' = [conf EXCEPT ![inst[h]] = "whole"]
        /\ Goto(h, "cleanPid")
     \/ LiveRuns(inst[h]) # {} /\ Reply(h, "412") /\ UNCHANGED conf
  /\ UNCHANGED <<folder, output, pidFile, extra, seen, mine, procVars, crashes>>

ConfWrite(h) ==
  /\ pc[h] = "confWrite"
  /\ linked' = linked \ {h}
  /\ \/ /\ IF h \in linked
           THEN \E c \in Written(op[h], conf[inst[h]]) : conf' = [conf EXCEPT ![inst[h]] = c]
           ELSE UNCHANGED conf
        /\ \/ op[h] = "create" /\ Goto(h, "cleanPid")
           \/ op[h] = "uploadConf" /\ Reply(h, "200")
     \/ /\ "conf" \in Faults
        /\ UNCHANGED conf \/ (h \in linked /\ conf' = [conf EXCEPT ![inst[h]] = "damaged"])
        /\ Reply(h, "500")
  /\ UNCHANGED <<folder, output, pidFile, extra, seen, mine, procVars, crashes>>

\* cleanupRunFiles removes run.pid before the other files of the run.
CleanPid(h) ==
  /\ pc[h] = "cleanPid"
  /\ \/ RemovePidFile(inst[h]) /\ Goto(h, "cleanRest")
     \/ "unlink" \in Faults /\ Reply(h, "500") /\ UNCHANGED <<pidFile, linked>>
  /\ UNCHANGED <<folder, conf, output, extra, seen, mine, procVars, crashes>>

CleanRest(h) ==
  /\ pc[h] = "cleanRest"
  /\ \/ /\ output' = [output EXCEPT ![inst[h]] = None]
        /\ \/ op[h] = "create" /\ Reply(h, code[h])
           \/ op[h] = "start" /\ Goto(h, "prepare")
     \/ "unlink" \in Faults /\ Reply(h, "500") /\ UNCHANGED output
  /\ UNCHANGED <<folder, conf, pidFile, linked, extra, seen, mine, procVars, crashes>>

\* os.RemoveAll removes the files it finds in the folder, or those it can ...
DeleteFiles(h) ==
  LET i == inst[h]
  IN  /\ pc[h] = "rmFiles"
      /\ \E kept \in SUBSET {"conf", "output", "pid", "extra"} :
           /\ kept = {} \/ "rm" \in Faults
           /\ conf' = IF "conf" \in kept THEN conf ELSE [conf EXCEPT ![i] = "none"]
           /\ output' = IF "output" \in kept THEN output ELSE [output EXCEPT ![i] = None]
           /\ pidFile' = IF "pid" \in kept THEN pidFile ELSE [pidFile EXCEPT ![i] = None]
           /\ extra' = IF "extra" \in kept THEN extra ELSE [extra EXCEPT ![i] = FALSE]
           /\ linked' = {g \in linked : \/ inst[g] # i
                                        \/ op[g] \in {"create", "uploadConf"} /\ "conf" \in kept
                                        \/ op[g] = "start" /\ "pid" \in kept}
      /\ Goto(h, "rmDir")
      /\ UNCHANGED <<folder, seen, mine, procVars, crashes>>

EmptyFolder(i) == conf[i] = "none" /\ output[i] = None /\ pidFile[i] = None /\ ~extra[i]

\* ... and then the folder if nothing is left in it or came to it since.
\* Delete drops the error.
DeleteDir(h) ==
  /\ pc[h] = "rmDir"
  /\ \/ EmptyFolder(inst[h]) /\ folder' = [folder EXCEPT ![inst[h]] = FALSE]
     \/ (~EmptyFolder(inst[h]) \/ "rm" \in Faults) /\ UNCHANGED folder
  /\ Reply(h, "204")
  /\ UNCHANGED <<conf, output, pidFile, linked, extra, seen, mine, procVars, crashes>>

\* Start writes run.json, RunCommand creates run.stdout and run.stderr.
StartPrepare(h) ==
  /\ pc[h] = "prepare"
  /\ \/ /\ folder[inst[h]]
        /\ output' = [output EXCEPT ![inst[h]] = IF @ = None THEN Blank ELSE @]
        /\ Goto(h, "fork")
     \/ (~folder[inst[h]] \/ "out" \in Faults) /\ Reply(h, "500") /\ UNCHANGED output
  /\ UNCHANGED <<folder, conf, pidFile, linked, extra, seen, mine, procVars, crashes>>

Launchable == {r \in Runs : st[r] = "unborn" /\ PidFree(PidOf[r])}

\* mutant: the goroutine that waits is spawned before run.pid is written
StartForkWaited(h) ==
  /\ pc[h] = "fork"
  /\ \E r \in Launchable :
       /\ st' = [st EXCEPT ![r] = "alive"]
       /\ owner' = [owner EXCEPT ![r] = inst[h]]
       /\ mine' = [mine EXCEPT ![h] = r]
       /\ waiter' = [waiter EXCEPT ![r] = "wait"]
       /\ Goto(h, "pidOpen")
  /\ UNCHANGED <<orphans, seen, dirVars, crashes>>

\* cmd.Start.  Bound: with every element of Runs used up it fails.
StartFork(h) ==
  /\ pc[h] = "fork"
  /\ \/ \E r \in Launchable :
          /\ st' = [st EXCEPT ![r] = "alive"]
          /\ owner' = [owner EXCEPT ![r] = inst[h]]
          /\ mine' = [mine EXCEPT ![h] = r]
          /\ Goto(h, "pidOpen")
     \/ /\ "fork" \in Faults \/ Launchable = {}
        /\ Reply(h, "500")
        /\ UNCHANGED <<st, owner, mine>>
  /\ UNCHANGED <<orphans, waiter, seen, dirVars, crashes>>

\* mutant: RunCommand returns the error of WriteFile(run.pid)
StartPidChecked(h) ==
  /\ pc[h] = "pidOpen"
  /\ \/ /\ folder[inst[h]]
        /\ pidFile' = [pidFile EXCEPT ![inst[h]] = Blank]
        /\ linked' = linked \cup {h}
        /\ Goto(h, "pidWrite")
     \/ /\ ~folder[inst[h]] \/ "pid" \in Faults
        /\ Reply(h, "500")
        /\ UNCHANGED <<pidFile, linked>>
  /\ UNCHANGED <<folder, conf, output, extra, seen, mine, procVars, crashes>>

\* mutant: the file is opened without truncating it
StartPidUncut(h) ==
  /\ pc[h] = "pidOpen"
  /\ \/ /\ folder[inst[h]]
        /\ pidFile' = [pidFile EXCEPT ![inst[h]] = IF @ = None THEN Blank ELSE @]
        /\ linked' = linked \cup {h}
        /\ Goto(h, "pidWrite")
     \/ /\ ~folder[inst[h]] \/ "pid" \in Faults
        /\ Goto(h, "spawn")
        /\ UNCHANGED <<pidFile, linked>>
  /\ UNCHANGED <<folder, conf, output, extra, seen, mine, procVars, crashes>>

\* os.WriteFile(run.pid), whose error RunCommand drops: truncate ...
StartPidOpen(h) ==
  /\ pc[h] = "pidOpen"
  /\ \/ /\ folder[inst[h]]
        /\ pidFile' = [pidFile EXCEPT ![inst[h]] = Blank]
        /\ linked' = linked \cup {h}
        /\ Goto(h, "pidWrite")
     \/ /\ ~folder[inst[h]] \/ "pid" \in Faults
        /\ Goto(h, "spawn")
        /\ UNCHANGED <<pidFile, linked>>
  /\ UNCHANGED <<folder, conf, output, extra, seen, mine, procVars, crashes>>

\* ... and write, from the beginning of the file.  Of a longer id that another start
\* wrote there since, the last digits stay: a number like any other ("9999" over
\* "10000" is 99990), which nobody can tell from the id of a run.
StartPidWrite(h) ==
  LET i == inst[h]
  IN  /\ pc[h] = "pidWrite"
      /\ \/ h \in linked /\ pidFile' = [pidFile EXCEPT ![i] = PidOf[mine[h]]]
         \/ /\ h \in linked /\ pidFile[i] # Blank
            /\ \E n \in Pids : pidFile' = [pidFile EXCEPT ![i] = n]
         \/ (h \notin linked \/ "pid" \in Faults) /\ UNCHANGED pidFile
      /\ linked' = linked \ {h}
      /\ Goto(h, "spawn")
      /\ UNCHANGED <<folder, conf, output, extra, seen, mine, procVars, crashes>>

\* mutant: cmd.Run, the handler itself waits for the child
StartAndWait(h) ==
  /\ pc[h] = "spawn"
  /\ st[mine[h]] = "zombie"
  /\ waiter' = [waiter EXCEPT ![mine[h]] = "wait"]
  /\ mine' = [mine EXCEPT ![h] = None]
  /\ Reply(h, "204")
  /\ UNCHANGED <<st, owner, orphans, seen, dirVars, crashes>>

\* mutant: the child is released instead of waited for
StartDetached(h) ==
  /\ pc[h] = "spawn"
  /\ mine' = [mine EXCEPT ![h] = None]
  /\ Reply(h, "204")
  /\ UNCHANGED <<st, owner, orphans, waiter, seen, dirVars, crashes>>

\* go func() { cmd.Wait() ... }(), and Start answers.
StartSpawn(h) ==
  /\ pc[h] = "spawn"
  /\ waiter' = [waiter EXCEPT ![mine[h]] = "wait"]
  /\ mine' = [mine EXCEPT ![h] = None]
  /\ Reply(h, "204")
  /\ UNCHANGED <<st, owner, orphans, seen, dirVars, crashes>>

\* sendSignal reads run.pid ...
SignalRead(h) ==
  /\ pc[h] = "readPid"
  /\ seen' = [seen EXCEPT ![h] = PidIn(inst[h])]
  /\ IF PidIn(inst[h]) = None THEN Reply(h, "202") ELSE Goto(h, "signal")
  /\ UNCHANGED <<mine, dirVars, procVars, crashes>>

\* ... and signals whatever process has the id by now: SIGINT asks it to end,
\* SIGKILL ends it.
GroupTargets(h)  == {p \in Runs \ orphans : Live(p)}            \* mutant: kill(0, ...)
HandleTargets(h) ==                             \* mutant: only the children it holds a handle of
  {p \in Runs \ orphans : Live(p) /\ PidOf[p] = seen[h]}
Targets(h) == {p \in Procs : Live(p) /\ PidOf[p] = seen[h]}

SignalSend(h) ==
  /\ pc[h] = "signal"
  /\ st' = [p \in Procs |-> IF p \notin Targets(h) THEN st[p]
                            ELSE IF op[h] = "stop" THEN "stopping"
                            ELSE Ended(p)]
  /\ seen' = [seen EXCEPT ![h] = None]
  /\ Reply(h, "202")
  /\ UNCHANGED <<owner, orphans, waiter, mine, dirVars, crashes>>

\* Command goes on to dial run.sock: who answers is what lives by then.  The
\* conversation is that of SocketCommand; 200 stands for any code of a reply.
CommandDial(h) ==
  /\ pc[h] = "dial"
  /\ \/ LiveRuns(inst[h]) # {} /\ Reply(h, "200")
     \/ Reply(h, "500")
  /\ UNCHANGED <<seen, mine, dirVars, procVars, crashes>>

\* An upload asks neither Running nor anybody else.  The form is read first: 413
\* if it cannot be parsed, 400 if there is no file in it.  Its size is not
\* limited: what ParseMultipartForm is given is how much of it to keep in memory.
UploadForm(h) ==
  /\ pc[h] = "form"
  /\ \/ ~AllowUpload /\ Reply(h, "403")
     \/ AllowUpload /\ \E c \in {"413", "400"} : Reply(h, c)
     \/ AllowUpload /\ Goto(h, IF op[h] = "uploadConf" THEN "confOpen" ELSE "fileOpen")
  /\ UNCHANGED <<seen, mine, dirVars, procVars, crashes>>

FileOpen(h) ==
  /\ pc[h] = "fileOpen"
  /\ \/ /\ folder[inst[h]]
        /\ extra' = [extra EXCEPT ![inst[h]] = TRUE]
        /\ Goto(h, "fileCopy")
     \/ (~folder[inst[h]] \/ "file" \in Faults) /\ Reply(h, "500") /\ UNCHANGED extra
  /\ UNCHANGED <<folder, conf, output, pidFile, linked, seen, mine, procVars, crashes>>

FileCopy(h) ==
  /\ pc[h] = "fileCopy"
  /\ Reply(h, "200") \/ ("file" \in Faults /\ Reply(h, "500"))
  /\ UNCHANGED <<seen, mine, dirVars, procVars, crashes>>

HandlerStep(h) ==
  \/ Exists(h)
  \/ RunningStat(h) \/ RunningRead(h) \/ RunningProbe(h) \/ RunningUnlink(h)
  \/ CreateMkdir(h) \/ ConfOpen(h) \/ ConfWrite(h)
  \/ CleanPid(h) \/ CleanRest(h)
  \/ DeleteFiles(h) \/ DeleteDir(h)
  \/ StartPrepare(h) \/ StartFork(h)
  \/ StartPidOpen(h) \/ StartPidWrite(h) \/ StartSpawn(h)
  \/ SignalRead(h) \/ SignalSend(h)
  \/ CommandDial(h)
  \/ UploadForm(h) \/ FileOpen(h) \/ FileCopy(h)

-----------------------------------------------------------------------------
(* The goroutine RunCommand leaves behind for each child.                  *)

WaiterReap(r) ==
  /\ waiter[r] = "wait"
  /\ st[r] = "zombie"
  /\ st' = [st EXCEPT ![r] = "dead"]
  /\ waiter' = [waiter EXCEPT ![r] = "remove"]
  /\ UNCHANGED <<owner, orphans, dirVars, reqVars, crashes>>

WaiterForgets(r) ==                             \* mutant: run.pid is left to the next Running
  /\ waiter[r] = "remove"
  /\ waiter' = [waiter EXCEPT ![r] = "none"]
  /\ UNCHANGED <<st, owner, orphans, dirVars, reqVars, crashes>>

WaiterRemove(r) ==
  /\ waiter[r] = "remove"
  /\ TryRemovePidFile(owner[r])
  /\ waiter' = [waiter EXCEPT ![r] = "none"]
  /\ UNCHANGED <<folder, conf, output, extra, st, owner, orphans, reqVars, crashes>>

-----------------------------------------------------------------------------
(* The environment: bngblaster processes, other processes, the host.       *)

\* A bngblaster ends by itself or because it was asked to.  It writes its
\* report by path, into the folder if there is one, and may end without one.
RunEnds(r) ==
  /\ Live(r)
  /\ st' = [st EXCEPT ![r] = Ended(r)]
  /\ \/ folder[owner[r]] /\ output' = [output EXCEPT ![owner[r]] = r]
     \/ UNCHANGED output
  /\ UNCHANGED <<folder, conf, pidFile, extra, linked, owner, orphans, waiter, reqVars, crashes>>

ForeignStarts(p) ==
  /\ st[p] = "unborn" /\ PidFree(PidOf[p])
  /\ st' = [st EXCEPT ![p] = "alive"]
  /\ UNCHANGED <<owner, orphans, waiter, dirVars, reqVars, crashes>>

ForeignEnds(p) ==
  /\ Live(p)
  /\ st' = [st EXCEPT ![p] = "dead"]
  /\ UNCHANGED <<owner, orphans, waiter, dirVars, reqVars, crashes>>

\* The controller dies, by a signal or a panic, and is started again.  Its
\* requests and waiting goroutines are lost; of its children, those in
\* `killed` die with it (systemd stops the whole control group, a terminal
\* signals the whole process group) and the others live on under init.
Crash(killed) ==
  /\ crashes < MaxCrashes
  /\ crashes' = crashes + 1
  /\ st' = [p \in Procs |-> IF p \in Runs /\ (st[p] = "zombie" \/ (p \in killed /\ Live(p)))
                            THEN "dead" ELSE st[p]]
  /\ orphans' = {r \in Runs : st[r] # "unborn"}
  /\ waiter' = [r \in Runs |-> "none"]
  /\ linked' = {}
  /\ pc' = [h \in Handlers |-> "idle"]
  /\ op' = [h \in Handlers |-> None]
  /\ inst' = [h \in Handlers |-> None]
  /\ seen' = [h \in Handlers |-> None]
  /\ mine' = [h \in Handlers |-> None]
  /\ code' = [h \in Handlers |-> "none"]
  /\ UNCHANGED <<folder, conf, output, pidFile, extra, owner>>

Next ==
  \/ \E h \in Handlers, o \in Ops, i \in Instances : Accept(h, o, i)
  \/ \E h \in Handlers, o \in Ops : BadBody(h, o)
  \/ \E h \in Handlers : HandlerStep(h)
  \/ \E r \in Runs : WaiterReap(r) \/ WaiterRemove(r) \/ RunEnds(r)
  \/ \E p \in Foreign : ForeignStarts(p) \/ ForeignEnds(p)
  \/ \E killed \in SUBSET Runs : Crash(killed)

Spec == Init /\ [][Next]_vars

-----------------------------------------------------------------------------
(* What the clients and the host may be asked not to do.                   *)

\* A start is alone: nothing but uploads is asked of its instance while it is served.
ExclusiveStart ==
  \A h, g \in Handlers :
    op[h] = "start" /\ Busy(g) /\ inst[h] = inst[g] => h = g \/ op[g] \in Uploads

\* A start does not move between the end of a child and the removal of run.pid.
PromptWaiter ==
  \A r \in Runs, h \in Handlers :
    waiter[r] = "remove" /\ op'[h] = "start" /\ inst'[h] = owner[r] => pc'[h] = pc[h]

\* The controller does not die between the launch of a child and its run.pid.
LaunchIsRecorded ==
  crashes' # crashes => \A h \in Handlers : pc[h] \notin {"pidOpen", "pidWrite"}

Discipline == ExclusiveStart' /\ PromptWaiter /\ LaunchIsRecorded

DisciplinedSpec == Init /\ [][Next /\ Discipline]_vars

\* Much weaker: no two starts are between truncating and writing the same run.pid.
OneWriter ==
  \A h, g \in linked :
    pc[h] = "pidWrite" /\ pc[g] = "pidWrite" /\ inst[h] = inst[g] => h = g

UntornSpec == Init /\ [][Next /\ OneWriter']_vars

\* Weaker in other ways: the waiter may be late; requests may overlap; a start
\* may overlap with a status or a command and with nothing else.
OnlyPolls ==
  \A h, g \in Handlers :
    op[h] = "start" /\ Busy(g) /\ inst[h] = inst[g] => h = g \/ op[g] \in {"status", "command"}

ExclusiveSpec == Init /\ [][Next /\ ExclusiveStart' /\ LaunchIsRecorded]_vars
PromptSpec    == Init /\ [][Next /\ PromptWaiter /\ LaunchIsRecorded]_vars
PollSpec      == Init /\ [][Next /\ OnlyPolls' /\ PromptWaiter /\ LaunchIsRecorded]_vars

\* The scheduler runs every goroutine, and a bngblaster that was asked to end does.
Fairness ==
  /\ \A h \in Handlers : WF_vars(HandlerStep(h))
  /\ \A r \in Runs : WF_vars(WaiterReap(r) \/ WaiterRemove(r))
  /\ \A r \in Runs : WF_vars(st[r] = "stopping" /\ RunEnds(r))

FairSpec == Spec /\ Fairness

-----------------------------------------------------------------------------
(* With any clients, and any order of their requests.                      *)

\* A child of this controller is waited for, or the handler that launched it is
\* on its way to spawn the waiter: no error path of RunCommand after cmd.Start
\* forgets a child (process.go:41-55), which would stay a zombie for ever.
Launching == {"pidOpen", "pidWrite", "spawn"}

ChildHasWaiter ==
  \A r \in Runs :
    InTable(r) /\ r \notin orphans =>
      waiter[r] = "wait" \/ \E h \in Handlers : mine[h] = r /\ pc[h] \in Launching

\* A config.json that holds nothing was sent so, or a create or an upload is about
\* to fill it: no order of creates, uploads and deletes, each of which goes on by
\* path or by the file it has open, loses a configuration (repository.go:102,
\* server.go:428-435).  Only a crash between the two calls does, a host that
\* refuses the write, or an upload of zero bytes, which nobody refuses.
EmptyConfigIsFilled ==
  \A i \in Instances :
    conf[i] = "empty" =>
      \/ crashes > 0 \/ "conf" \in Faults
      \/ \E h \in linked : pc[h] = "confWrite" /\ inst[h] = i

\* What these rest on.  Where a handler stands tells what it serves, and whether it
\* holds a process id;
Fits ==
  \A h \in Handlers :
    /\ Busy(h) => inst[h] \in Instances /\ op[h] \in AllOps
    /\ ~Busy(h) => op[h] = None
    /\ pc[h] = "exists" => op[h] \notin {"stop", "kill", "delete"}
    /\ pc[h] \in {"stat", "read", "probe", "unlink"} =>
         op[h] \notin {"stop", "kill"} \cup Uploads
    /\ pc[h] = "mkdir" => op[h] = "create"
    /\ pc[h] \in {"confOpen", "confWrite"} => op[h] \in {"create", "uploadConf"}
    /\ pc[h] \in {"cleanPid", "cleanRest"} => op[h] \in {"create", "start"}
    /\ pc[h] = "dial" => op[h] = "command"
    /\ pc[h] \in {"form", "fileOpen", "fileCopy"} => op[h] \in Uploads
    /\ pc[h] \in {"readPid", "signal"} => op[h] \in {"stop", "kill"}
    /\ pc[h] \in {"rmFiles", "rmDir"} => op[h] = "delete"
    /\ pc[h] \in {"prepare", "fork"} \cup Launching => op[h] = "start"

Holding == {"probe", "signal"}

Holds == \A h \in Handlers : seen[h] # None => pc[h] \in Holding

\* a run that is being launched is one handler's, and as nobody waits for it yet it
\* is in the process table, ended or not;
InFlight ==
  \A h \in Handlers :
    /\ mine[h] # None <=> pc[h] \in Launching
    /\ mine[h] # None => /\ InTable(mine[h])
                         /\ owner[mine[h]] = inst[h]
                         /\ waiter[mine[h]] = "none"
                         /\ mine[h] \notin orphans
                         /\ \A g \in Handlers : mine[g] = mine[h] => g = h

\* a goroutine waits for a child of this controller, and has reaped it when it
\* goes on to remove run.pid;
Waiting ==
  \A r \in Runs :
    /\ st[r] = "unborn" => owner[r] = None /\ waiter[r] = "none" /\ r \notin orphans
    /\ st[r] # "unborn" => owner[r] \in Instances
    /\ waiter[r] # "none" => r \notin orphans
    /\ waiter[r] = "remove" => st[r] = "dead"

\* and a request has no answer before its last step, but that of a create, which
\* was chosen when it looked for the folder.
Unanswered ==
  \A h \in Handlers : Busy(h) =>
    code[h] \in IF op[h] = "create" /\ pc[h] # "exists" THEN {"201", "204"} ELSE {"none"}

IInv == /\ TypeOK /\ Fits /\ Holds /\ Unanswered /\ InFlight /\ Waiting
        /\ ChildHasWaiter /\ EmptyConfigIsFilled

\* A start answered 204 has launched a run, one answered anything else has not
\* (repository.go:194-220 and server.go:317-330).
StartAnswersTrue ==
  [][\A h \in Handlers : op[h] = "start" /\ ~Busy(h)' /\ crashes' = crashes =>
       (code'[h] = "204" <=> mine[h] # None)]_vars

-----------------------------------------------------------------------------
(* With any clients, as long as no run.pid is written by two starts at once. *)

\* A process id in run.pid is that of a run of the same instance, and the
\* goroutine that will remove the file waits for it or is about to be spawned:
\* RunCommand writes the file before `go func()`, which waits before it removes
\* (process.go:45-52).  Only a restart or a removal that failed leaves it behind.
Watched(r) ==
  \/ r \in orphans
  \/ waiter[r] # "none"
  \/ \E h \in Handlers : mine[h] = r /\ pc[h] = "spawn"
  \/ st[r] = "dead" /\ "unlink" \in Faults

WatchedPidFile ==
  \A i \in Instances :
    pidFile[i] \in Pids => \E r \in Runs : PidOf[r] = pidFile[i] /\ owner[r] = i /\ Watched(r)

\* What it rests on: a start writes into a file that is still empty;
Truncated ==
  \A h \in linked : pc[h] = "pidWrite" => pidFile[inst[h]] = Blank

\* and a process id read from run.pid is that of a run of the same instance.
SeenIsOwn ==
  \A h \in Handlers : seen[h] # None => \E r \in Runs : PidOf[r] = seen[h] /\ owner[r] = inst[h]

PInv == OneWriter /\ Truncated /\ SeenIsOwn /\ WatchedPidFile

PidsNotReused == \A p, q \in Procs : PidOf[p] = PidOf[q] => p = q

\* A stop or a kill reaches only runs of its own instance, whatever starts,
\* ends or deletes between its read of run.pid and its signal
\* (repository.go:232-247), as long as no process id is used twice.
SignalsOwn ==
  [][\A h \in Handlers : op[h] \in {"stop", "kill"} /\ code'[h] # code[h] /\ crashes' = crashes =>
       \A p \in Procs : st'[p] # st[p] => p \in Runs /\ owner[p] = inst[h]]_vars

\* A run that is gone and that run.pid does not name will not be named again: only
\* its own start writes its id, and has done so before anybody can reap it
\* (process.go:41-55).  An id that came back would make the instance look as if it
\* ran, or turn a later stop on another program, as soon as the kernel reuses it.
GoneStaysForgotten ==
  [][\A r \in Runs : st[r] = "dead" /\ pidFile[owner[r]] # PidOf[r] =>
       pidFile'[owner[r]] # PidOf[r]]_vars

\* A status answers "started", and a create, delete or start 412, only when a run
\* of the instance is there, or has ended and is not yet reaped: no run.pid that
\* was left behind makes an instance look as if it ran (repository.go:175-190), as
\* long as no process id is used twice.
NoRunIsInvented ==
  [][\A h \in Handlers :
       op[h] \in {"status", "create", "delete", "start"} /\ ~Busy(h)'
           /\ code'[h] \in {"started", "412"} =>
         \E r \in Runs : owner[r] = inst[h] /\ InTable(r)]_vars

-----------------------------------------------------------------------------
(* Under the discipline.                                                   *)

\* The check Running, made several system calls before cmd.Start, is enough:
\* no instance is served by two bngblasters (repository.go:198 and 214).
OneLiveRun == \A r, q \in Runs : Live(r) /\ Live(q) /\ owner[r] = owner[q] => r = q

\* run.pid names the run that is live, unless the start that launched it is
\* still about to write it: so a status, a stop and the guards of create, delete
\* and start see the run (repository.go:35 "runPidFilename file that contains
\* the process id of the bngblaster instance if it is running").
LiveIsKnown ==
  \A r \in Runs :
    Live(r) => \/ pidFile[owner[r]] = PidOf[r]
               \/ \E h \in Handlers : mine[h] = r /\ pc[h] \in Launching

\* The report, log and output served while a run is live are not those of an
\* earlier run (cleanupRunFiles, repository.go:121-142, called by Start).
NoStaleReport == \A r \in Runs : Live(r) => output[owner[r]] \in {None, Blank}

\* What these rest on.  An instance has one child in the process table, and
\* run.pid names it, zombie or not, once its start has written the file;
NoRunOf(i) == \A r \in Runs : InTable(r) => owner[r] # i

Single == \A r, q \in Runs : InTable(r) /\ InTable(q) /\ owner[r] = owner[q] => r = q

Known ==
  \A r \in Runs :
    InTable(r) => \/ pidFile[owner[r]] = PidOf[r]
                  \/ \E h \in Handlers : mine[h] = r /\ pc[h] \in {"pidOpen", "pidWrite"}

\* who was told that no run is live acts while none is, and who was told an id
\* holds that of the run that is;
Acting == {"unlink", "mkdir", "confOpen", "confWrite", "cleanPid", "cleanRest", "rmFiles",
           "rmDir", "prepare", "fork"}

Checked ==
  /\ \A h \in Handlers : pc[h] \in Acting /\ op[h] # "uploadConf" => NoRunOf(inst[h])
  /\ \A r \in Runs : waiter[r] = "remove" => NoRunOf(owner[r])

Remembered ==
  \A h \in Handlers : pc[h] \in Holding =>
    \A r \in Runs : InTable(r) /\ owner[r] = inst[h] => PidOf[r] = seen[h]

\* a start finds its folder as it left it, and its child where it was launched;
Prepared ==
  \A h \in Handlers :
    /\ pc[h] \in {"fork", "pidOpen"} => folder[inst[h]]
    /\ pc[h] \in {"prepare", "fork"} => output[inst[h]] \in {None, Blank}
    /\ pc[h] = "pidWrite" => h \in linked /\ pidFile[inst[h]] = Blank
    /\ mine[h] # None => InTable(mine[h])

\* a run, and a configuration, have a folder.
Housed ==
  /\ \A r \in Runs : InTable(r) => folder[owner[r]]
  /\ \A i \in Instances : conf[i] # "none" => folder[i]
  /\ \A h \in linked : pc[h] = "confWrite" => conf[inst[h]] # "none"

DInv == /\ ExclusiveStart /\ Single /\ Known /\ Checked /\ Remembered
        /\ Prepared /\ NoStaleReport /\ Housed

\* A status answers "stopped", and a command 412, only when no run is live
\* (server.go:278-282 and 375-378), whatever became of run.pid between the calls
\* of Running, and also when a process of another program has the id.
NoRunIsDenied ==
  [][\A h \in Handlers :
       op[h] \in {"status", "command"} /\ ~Busy(h)' /\ code'[h] \in {"stopped", "412"} =>
         LiveRuns(inst[h]) = {}]_vars

\* After the 202 of a stop or a kill no run of the instance goes on as if
\* nobody had asked it to end (server.go:334-352).
StopReaches ==
  [][\A h \in Handlers : op[h] \in {"stop", "kill"} /\ code'[h] = "202" =>
       \A r \in LiveRuns(inst[h]) : st'[r] # "alive"]_vars

\* While a bngblaster runs nobody replaces or removes its configuration, neither a
\* create that checked before the run was launched nor a delete (repository.go:93
\* and 113).  An upload of a config.json does, see Lifecycle.
ConfigurationIsKept ==
  [][\A i \in Instances : LiveRuns(i) # {} => conf'[i] = conf[i]]_vars

\* The promise of model.go:8-35, as an abstract specification.
Abstract == INSTANCE Lifecycle WITH
  Configs  <- Configs,
  NoConfig <- "none",
  phase    <- [i \in Instances |->
                 IF LiveRuns(i) # {} THEN "running" ELSE IF folder[i] THEN "stopped" ELSE "absent"],
  config   <- conf

ImplementsLifecycle == Abstract!Spec

-----------------------------------------------------------------------------
(* With weak fairness of the goroutines and of bngblasters asked to end.   *)

\* How many steps a request may have before it at most.
StepsLeft(label) ==
  CASE label = "idle"                                                 -> 0
    [] label \in {"spawn", "rmDir", "signal", "dial", "fileCopy"}     -> 1
    [] label \in {"pidWrite", "rmFiles", "readPid", "fileOpen"}       -> 2
    [] label = "pidOpen"                                              -> 3
    [] label = "fork"                                                 -> 4
    [] label = "prepare"                                              -> 5
    [] label = "cleanRest"                                            -> 6
    [] label = "cleanPid"                                             -> 7
    [] label = "confWrite"                                            -> 8
    [] label = "confOpen"                                             -> 9
    [] label \in {"mkdir", "form"}                                    -> 10
    [] label = "unlink"                                               -> 11
    [] label = "probe"                                                -> 12
    [] label = "read"                                                 -> 13
    [] label = "stat"                                                 -> 14
    [] label = "exists"                                               -> 15

\* A request does not loop: whatever other requests, bngblasters and crashes do to
\* the files meanwhile, each of its steps brings it nearer to its answer (server.go:
\* 238-443).  With the fairness below that is why every request is answered.
RequestsAdvance ==
  [][\A h \in Handlers :
       Busy(h) /\ pc'[h] # pc[h] => StepsLeft(pc'[h]) < StepsLeft(pc[h])]_vars

\* Every request is answered: none waits for a child or for another request.
RequestAnswered == \A h \in Handlers : Busy(h) ~> ~Busy(h)

\* A child asked to end is reaped and run.pid stops naming it, whatever other
\* requests do to the folder meanwhile (process.go:47-55).
StoppedIsForgotten ==
  \A r \in Runs : st[r] \in {"stopping", "zombie"} ~> st[r] = "dead" /\ pidFile[owner[r]] # PidOf[r]

=============================================================================
