--------------------------- MODULE DisciplineProofs ---------------------------
(***************************************************************************)
(* What the repository promises when each start is alone on its instance,  *)
(* but for uploads, waits for the removal of the last run.pid, and is not  *)
(* cut off by a crash: for any instances, clients, runs, process ids (reused or not)    *)
(* and failures of the host, but that run.pid itself can be written.       *)
(***************************************************************************)
EXTENDS RepositoryProofs

\* The initial state satisfies the invariant.
LEMMA InitDInv == Init => DInv
<1> SUFFICES ASSUME Init PROVE DInv
  OBVIOUS
<1>0. TypeOK
  BY InitIInv DEF IInv
<1> USE RepositoryAssumption DEF Init, AllOps, Procs
<1>1. \A r \in Runs : ~InTable(r)
  BY DEF InTable, Live
<1>2. ExclusiveStart
  BY DEF ExclusiveStart, Busy
<1>3. Single /\ Known /\ NoStaleReport
  BY <1>1 DEF Single, Known, NoStaleReport, InTable
<1>4. Checked /\ Remembered
  BY <1>1 DEF Checked, Remembered, Acting
<1>5. Prepared /\ Housed
  BY <1>1 DEF Prepared, Housed
<1> QED
  BY <1>2, <1>3, <1>4, <1>5 DEF DInv

\* What a step of handler h does to the requests and to the folders: other
\* requests stay as they are, and so do the folders of other instances.
OwnRequest(h) ==
  /\ crashes' = crashes
  /\ \A g \in Handlers \ {h} :
       /\ pc'[g] = pc[g] /\ op'[g] = op[g] /\ inst'[g] = inst[g]
       /\ seen'[g] = seen[g] /\ mine'[g] = mine[g] /\ code'[g] = code[g]
  /\ \/ pc'[h] = "idle" /\ op'[h] = None
     \/ pc'[h] # "idle" /\ op'[h] = op[h] /\ inst'[h] = inst[h]

OwnFolder(h) ==
  /\ \A i \in Instances \ {inst[h]} :
       /\ folder'[i] = folder[i] /\ conf'[i] = conf[i]
       /\ output'[i] = output[i] /\ pidFile'[i] = pidFile[i]
  /\ \A g \in Handlers : inst[g] # inst[h] => (g \in linked' <=> g \in linked)

LEMMA FrameStep ==
  ASSUME IInv, NEW h \in Handlers, HandlerStep(h)
  PROVE  inst[h] \in Instances /\ OwnRequest(h) /\ OwnFolder(h)
<1>0. TypeOK /\ Fits
  BY DEF IInv
<1>a. pc[h] # "idle" /\ inst[h] \in Instances
  BY <1>0 DEF HandlerStep, Fits, Busy, Exists, RunningStat, RunningRead, RunningProbe, RunningUnlink,
     CreateMkdir, ConfOpen, ConfWrite, CleanPid, CleanRest, DeleteFiles, DeleteDir, StartPrepare,
     StartFork, StartPidOpen, StartPidWrite, StartSpawn, SignalRead, SignalSend, CommandDial,
     UploadForm, FileOpen, FileCopy
<1>b. ASSUME NEW b \in BOOLEAN, RunningReturns(h, b), pc[h] \in {"stat", "read", "probe", "unlink"}
      PROVE  Reply(h, code'[h]) \/ (pc'[h] # "idle" /\ Goto(h, pc'[h]))
  <2>1. op[h] \in {"create", "delete", "start", "status", "command"}
    BY <1>0, <1>a, <1>b DEF Fits, Busy, AllOps, Uploads
  <2>2. FirstStep(op[h]) # "idle" \/ op[h] \in {"status", "command"}
    BY <2>1 DEF FirstStep
  <2> QED
    BY <1>0, <1>b, <2>1, <2>2 DEF RunningReturns, TypeOK, Goto, Reply
<1> USE <1>0, <1>a DEF TypeOK, OwnRequest, OwnFolder, Goto, Reply, dirVars
<1>1. CASE Exists(h) \/ UploadForm(h) \/ FileOpen(h) \/ FileCopy(h) \/ CommandDial(h)
  BY <1>1 DEF Exists, UploadForm, FileOpen, FileCopy, CommandDial
<1>2. CASE RunningStat(h) \/ RunningRead(h) \/ RunningProbe(h) \/ SignalRead(h) \/ SignalSend(h)
  BY <1>b, <1>2 DEF RunningStat, RunningRead, RunningProbe, SignalRead, SignalSend
<1>3. CASE RunningUnlink(h) \/ CleanPid(h)
  BY <1>b, <1>3 DEF RunningUnlink, CleanPid, TryRemovePidFile, RemovePidFile
<1>4. CASE CreateMkdir(h) \/ ConfOpen(h) \/ ConfWrite(h)
  BY <1>4 DEF CreateMkdir, ConfOpen, ConfWrite
<1>5. CASE CleanRest(h) \/ DeleteDir(h) \/ StartPrepare(h)
  BY <1>5 DEF CleanRest, DeleteDir, StartPrepare
<1>6. CASE DeleteFiles(h)
  BY <1>6 DEF DeleteFiles
<1>7. CASE StartFork(h)
  BY <1>7 DEF StartFork
<1>8. CASE StartPidOpen(h) \/ StartPidWrite(h) \/ StartSpawn(h)
  BY <1>8 DEF StartPidOpen, StartPidWrite, StartSpawn
<1> QED
  BY <1>1, <1>2, <1>3, <1>4, <1>5, <1>6, <1>7, <1>8 DEF HandlerStep

\* Only cmd.Start brings a process into the process table.
Shrinking ==
  \A r \in Runs : /\ InTable(r)' => InTable(r) /\ owner'[r] = owner[r]
                  /\ Live(r)' => Live(r)

\* The steps that are not those of a handler at work.
Arrival(h) == \E o \in Ops : (\E i \in Instances : Accept(h, o, i)) \/ BadBody(h, o)

LEMMA ShrinkStep ==
  ASSUME IInv,
         \/ \E h \in Handlers : Arrival(h) \/ (HandlerStep(h) /\ ~StartFork(h))
         \/ \E r \in Runs : WaiterReap(r) \/ WaiterRemove(r) \/ RunEnds(r)
         \/ \E p \in Foreign : ForeignStarts(p) \/ ForeignEnds(p)
         \/ \E killed \in SUBSET Runs : Crash(killed)
  PROVE  Shrinking
<1>0. TypeOK
  BY DEF IInv
<1> USE DEF Shrinking, InTable, Live
<1>1. ASSUME NEW h \in Handlers, Arrival(h) PROVE Shrinking
  BY <1>1 DEF Arrival, Accept, BadBody, procVars
<1>2. ASSUME NEW h \in Handlers, HandlerStep(h), ~StartFork(h), ~SignalSend(h) PROVE Shrinking
  <2>1. UNCHANGED <<st, owner>>
    BY <1>2 DEF HandlerStep, procVars, Exists, RunningStat, RunningRead, RunningProbe, RunningUnlink,
       CreateMkdir, ConfOpen, ConfWrite, CleanPid, CleanRest, DeleteFiles, DeleteDir, StartPrepare,
       StartPidOpen, StartPidWrite, StartSpawn, SignalRead, CommandDial, UploadForm, FileOpen, FileCopy
  <2> QED
    BY <2>1
<1>3. ASSUME NEW h \in Handlers, SignalSend(h) PROVE Shrinking
  <2>1. /\ UNCHANGED owner
        /\ \A p \in Procs : st'[p] = st[p] \/ Live(p)
    BY <1>3 DEF SignalSend, Targets
  <2> QED
    BY <2>1 DEF Procs
<1>4. ASSUME NEW r \in Runs, WaiterReap(r) \/ WaiterRemove(r) PROVE Shrinking
  BY <1>0, <1>4 DEF WaiterReap, WaiterRemove, TypeOK, Procs
<1>5. ASSUME NEW r \in Runs, RunEnds(r) PROVE Shrinking
  BY <1>0, <1>5 DEF RunEnds, TypeOK, Procs, Ended
<1>6. ASSUME NEW p \in Foreign, ForeignStarts(p) \/ ForeignEnds(p) PROVE Shrinking
  BY <1>0, <1>6, RepositoryAssumption DEF ForeignStarts, ForeignEnds, TypeOK, Procs
<1>7. ASSUME NEW killed \in SUBSET Runs, Crash(killed) PROVE Shrinking
  <2>1. UNCHANGED owner /\ \A r \in Runs : st'[r] \in {st[r], "dead"}
    BY <1>7 DEF Crash, Procs
  <2> QED
    BY <2>1
<1> QED
  BY <1>1, <1>2, <1>3, <1>4, <1>5, <1>6, <1>7

\* Whoever serves a request that is no upload is not beside a start.
LEMMA StartIsAlone ==
  ASSUME IInv, DInv, NEW h \in Handlers, Busy(h), op[h] \notin Uploads,
         NEW g \in Handlers, inst[g] = inst[h], op[g] = "start" \/ mine[g] # None
  PROVE  g = h
<1>1. op[g] = "start"
  BY DEF IInv, Fits, InFlight, Launching
<1> QED
  BY <1>1 DEF DInv, ExclusiveStart

\* What run.pid tells anybody but the start that is to write it.
LEMMA RunPidTells ==
  ASSUME IInv, DInv, NEW h \in Handlers, Busy(h), pc[h] \notin {"pidOpen", "pidWrite"},
         op[h] \notin Uploads, NEW r \in Runs, InTable(r), owner[r] = inst[h]
  PROVE  pidFile[inst[h]] = PidOf[r] /\ PidIn(inst[h]) = PidOf[r]
<1>1. pidFile[inst[h]] = PidOf[r]
  <2> SUFFICES ASSUME NEW g \in Handlers, mine[g] = r, pc[g] \in {"pidOpen", "pidWrite"}
               PROVE  FALSE
    BY DEF DInv, Known
  <2>1. mine[g] # None /\ inst[g] = inst[h]
    BY RepositoryAssumption DEF IInv, InFlight, Procs
  <2> QED
    BY <2>1, StartIsAlone
<1> QED
  BY <1>1, RepositoryAssumption DEF PidIn, Procs

\* Which steps of a handler change what.
Kept(h) ==
  /\ pc[h] \notin {"mkdir", "rmDir"} => folder' = folder
  /\ pc[h] \notin {"confOpen", "confWrite", "rmFiles"} => conf' = conf
  /\ pc[h] \notin {"cleanRest", "rmFiles", "prepare"} => output' = output
  /\ pc[h] \notin {"unlink", "cleanPid", "rmFiles", "pidOpen", "pidWrite"} => pidFile' = pidFile
  /\ pc[h] \notin {"fork", "spawn"} => mine' = mine
  /\ pc[h] # "spawn" => waiter' = waiter
  /\ pc[h] \notin {"fork", "signal"} => st' = st
  /\ pc[h] # "fork" => owner' = owner

LEMMA KeptStep ==
  ASSUME NEW h \in Handlers, HandlerStep(h)
  PROVE  Kept(h)
<1> USE DEF Kept, dirVars, procVars
<1>1. CASE Exists(h) \/ RunningStat(h) \/ RunningRead(h) \/ RunningProbe(h)
  BY <1>1 DEF Exists, RunningStat, RunningRead, RunningProbe
<1>2. CASE RunningUnlink(h) \/ CleanPid(h) \/ DeleteFiles(h)
  BY <1>2 DEF RunningUnlink, CleanPid, DeleteFiles
<1>3. CASE CreateMkdir(h) \/ ConfOpen(h) \/ ConfWrite(h) \/ CleanRest(h) \/ DeleteDir(h)
  BY <1>3 DEF CreateMkdir, ConfOpen, ConfWrite, CleanRest, DeleteDir
<1>4. CASE StartPrepare(h) \/ StartFork(h) \/ StartPidOpen(h) \/ StartPidWrite(h) \/ StartSpawn(h)
  BY <1>4 DEF StartPrepare, StartFork, StartPidOpen, StartPidWrite, StartSpawn
<1>5. CASE SignalRead(h) \/ SignalSend(h) \/ CommandDial(h)
  BY <1>5 DEF SignalRead, SignalSend, CommandDial
<1>6. CASE UploadForm(h) \/ FileOpen(h) \/ FileCopy(h)
  BY <1>6 DEF UploadForm, FileOpen, FileCopy
<1> QED
  BY <1>1, <1>2, <1>3, <1>4, <1>5, <1>6 DEF HandlerStep

\* A fork happens where no run of the instance is left, not even a reaped one
\* whose run.pid is still to be removed.
Launches(h, r) ==
  /\ st[r] = "unborn" /\ st' = [st EXCEPT ![r] = "alive"]
  /\ owner' = [owner EXCEPT ![r] = inst[h]]
  /\ mine' = [mine EXCEPT ![h] = r]
  /\ pc'[h] = "pidOpen" /\ op'[h] = "start" /\ inst'[h] = inst[h]
  /\ \A q \in Runs : waiter[q] = "remove" => owner[q] # inst[h]

LEMMA ForkFacts ==
  ASSUME IInv, DInv, Discipline, NEW h \in Handlers, StartFork(h)
  PROVE  /\ pc[h] = "fork" /\ op[h] = "start"
         /\ NoRunOf(inst[h]) /\ folder[inst[h]] /\ output[inst[h]] \in {None, Blank}
         /\ UNCHANGED <<dirVars, waiter>>
         /\ (Shrinking /\ UNCHANGED <<owner, mine>>) \/ \E r \in Runs : Launches(h, r)
<1>0. TypeOK /\ Fits
  BY DEF IInv
<1>1. pc[h] = "fork" /\ UNCHANGED <<dirVars, waiter>>
  BY DEF StartFork
<1>2. op[h] = "start"
  BY <1>0, <1>1 DEF Fits
<1>3. NoRunOf(inst[h]) /\ folder[inst[h]] /\ output[inst[h]] \in {None, Blank}
  BY <1>1, <1>2 DEF DInv, Checked, Acting, Prepared
<1>4. CASE UNCHANGED <<st, owner, mine>>
  BY <1>1, <1>2, <1>3, <1>4 DEF Shrinking, InTable, Live
<1>5. ASSUME NEW r \in Launchable,
             st' = [st EXCEPT ![r] = "alive"], owner' = [owner EXCEPT ![r] = inst[h]],
             mine' = [mine EXCEPT ![h] = r], Goto(h, "pidOpen")
      PROVE  \E q \in Runs : Launches(h, q)
  <2>1. r \in Runs /\ st[r] = "unborn" /\ pc'[h] = "pidOpen" /\ op'[h] = "start" /\ inst'[h] = inst[h]
    BY <1>0, <1>2, <1>5 DEF Launchable, Goto, TypeOK
  <2>2. \A q \in Runs : waiter[q] = "remove" => owner[q] # inst[h]
    BY <1>1, <2>1 DEF Discipline, PromptWaiter
  <2> QED
    BY <1>5, <2>1, <2>2 DEF Launches
<1> QED
  BY <1>1, <1>2, <1>3, <1>4, <1>5 DEF StartFork

LEMMA SingleStep == ASSUME IInv, DInv, Next, Discipline PROVE Single'
<1>1. CASE Shrinking
  BY <1>1 DEF DInv, Single, Shrinking
<1>2. ASSUME NEW h \in Handlers, NEW r \in Runs, Launches(h, r), NoRunOf(inst[h]) PROVE Single'
  BY <1>2 DEF DInv, Single, Launches, NoRunOf, InTable, Live, IInv, TypeOK, Procs
<1> QED
  BY <1>1, <1>2, ShrinkStep, ForkFacts DEF Next, Arrival

\* Whoever waits for its turn to act on an instance that has a run is an upload.
LEMMA NobodyActsOnARun ==
  ASSUME IInv, DInv, NEW h \in Handlers, NEW r \in Runs, InTable(r), owner[r] = inst[h]
  PROVE  pc[h] \notin Acting \/ (op[h] = "uploadConf" /\ pc[h] \in {"confOpen", "confWrite"})
  BY DEF IInv, DInv, Fits, Checked, NoRunOf, Acting, Uploads

\* run.pid names the run of an instance until the run is reaped.
LEMMA KnownStep ==
  ASSUME IInv, DInv, Next, Discipline, "pid" \notin Faults
  PROVE  Known'
<1>0. TypeOK /\ Fits /\ InFlight /\ Waiting /\ Known
  BY DEF IInv, DInv
<1>a. \A r \in Runs : InTable(r) => owner[r] \in Instances
  BY <1>0 DEF Waiting, InTable, Live
<1>b. \A g \in Handlers : mine[g] # None =>
        mine[g] \in Runs /\ inst[g] = owner[mine[g]] /\ pc[g] \in Launching
  BY <1>0 DEF InFlight, TypeOK
<1>c. None \notin Runs
  BY RepositoryAssumption DEF Procs
<1>1. ASSUME NEW h \in Handlers, HandlerStep(h), NEW q \in Runs, Launches(h, q),
             NoRunOf(inst[h]), pc[h] = "fork", UNCHANGED dirVars
      PROVE  Known'
  <2> SUFFICES ASSUME NEW r \in Runs, InTable(r)'
               PROVE  \/ pidFile'[owner'[r]] = PidOf[r]
                      \/ \E g \in Handlers : mine'[g] = r /\ pc'[g] \in {"pidOpen", "pidWrite"}
    BY DEF Known
  <2>1. CASE r = q
    BY <1>0, <1>1, <2>1 DEF Launches, TypeOK
  <2>2. CASE r # q
    <3>1. InTable(r) /\ owner'[r] = owner[r]
      BY <1>0, <1>1, <2>2 DEF Launches, TypeOK, InTable, Live, Procs
    <3>2. ASSUME NEW g \in Handlers, mine[g] = r PROVE mine'[g] = r /\ pc'[g] = pc[g]
      <4>1. g # h
        BY <1>1, <1>b, <1>c, <3>2 DEF Launching
      <4> QED
        BY <1>1, <3>2, <4>1, FrameStep DEF OwnRequest
    <3> QED
      BY <1>0, <1>1, <3>1, <3>2 DEF Known, dirVars
  <2> QED
    BY <2>1, <2>2
<1>2. ASSUME Shrinking, NEW h \in Handlers, HandlerStep(h) PROVE Known'
  <2> SUFFICES ASSUME NEW r \in Runs, InTable(r), owner'[r] = owner[r]
               PROVE  \/ pidFile'[owner[r]] = PidOf[r]
                      \/ \E g \in Handlers : mine'[g] = r /\ pc'[g] \in {"pidOpen", "pidWrite"}
    BY <1>2 DEF Known, Shrinking
  <2>0. Kept(h) /\ OwnFolder(h) /\ OwnRequest(h) /\ inst[h] \in Instances
    BY <1>2, KeptStep, FrameStep
  <2>1. CASE owner[r] # inst[h]
    <3>1. ASSUME NEW g \in Handlers, mine[g] = r PROVE mine'[g] = r /\ pc'[g] = pc[g]
      BY <1>b, <1>c, <2>0, <2>1, <3>1 DEF OwnRequest
    <3>2. pidFile'[owner[r]] = pidFile[owner[r]]
      BY <1>a, <2>0, <2>1 DEF OwnFolder
    <3> QED
      BY <1>0, <3>1, <3>2 DEF Known
  <2>2. CASE owner[r] = inst[h] /\ pc[h] \in {"pidOpen", "pidWrite"}
    <3>1. mine[h] = r
      BY <1>0, <1>b, <2>2 DEF DInv, Prepared, Single, InFlight, Launching
    <3>2. CASE pc[h] = "pidOpen"
      <4>1. folder[inst[h]] /\ StartPidOpen(h)
        BY <1>2, <3>2 DEF DInv, Prepared, HandlerStep, Exists, RunningStat, RunningRead, RunningProbe, RunningUnlink,
           CreateMkdir, ConfOpen, ConfWrite, CleanPid, CleanRest, DeleteFiles, DeleteDir, StartPrepare,
           StartFork, StartPidOpen, StartPidWrite, StartSpawn, SignalRead, SignalSend, CommandDial,
           UploadForm, FileOpen, FileCopy
      <4>2. pc'[h] = "pidWrite" /\ mine' = mine
        BY <1>0, <4>1 DEF StartPidOpen, Goto, TypeOK
      <4> QED
        BY <3>1, <4>2
    <3>3. CASE pc[h] = "pidWrite"
      <4>1. h \in linked /\ pidFile[inst[h]] = Blank /\ StartPidWrite(h)
        BY <1>2, <3>3 DEF DInv, Prepared, HandlerStep, Exists, RunningStat, RunningRead, RunningProbe, RunningUnlink,
           CreateMkdir, ConfOpen, ConfWrite, CleanPid, CleanRest, DeleteFiles, DeleteDir, StartPrepare,
           StartFork, StartPidOpen, StartPidWrite, StartSpawn, SignalRead, SignalSend, CommandDial,
           UploadForm, FileOpen, FileCopy
      <4> QED
        BY <1>0, <2>0, <2>2, <3>1, <4>1 DEF StartPidWrite, TypeOK
    <3> QED
      BY <2>2, <3>2, <3>3
  <2>3. CASE owner[r] = inst[h] /\ pc[h] \notin {"pidOpen", "pidWrite"}
    <3>1. Busy(h)
      BY <1>a, <2>0, <2>3, <1>2 DEF Busy, HandlerStep, Exists, RunningStat, RunningRead, RunningProbe, RunningUnlink,
         CreateMkdir, ConfOpen, ConfWrite, CleanPid, CleanRest, DeleteFiles, DeleteDir, StartPrepare,
         StartFork, StartPidOpen, StartPidWrite, StartSpawn, SignalRead, SignalSend, CommandDial,
         UploadForm, FileOpen, FileCopy
    <3>2. pidFile' = pidFile
      BY <2>0, <2>3, NobodyActsOnARun DEF Kept, Acting
    <3>3. CASE op[h] \notin Uploads
      BY <2>3, <3>1, <3>2, <3>3, RunPidTells
    <3>4. CASE op[h] \in Uploads
      <4>1. \A g \in Handlers : mine[g] = r => g # h
        BY <1>0, <1>b, <1>c, <3>4 DEF Fits, Launching, Uploads
      <4> QED
        BY <1>0, <2>0, <2>3, <3>2, <4>1 DEF Known, OwnRequest
    <3> QED
      BY <3>3, <3>4
  <2> QED
    BY <2>1, <2>2, <2>3
\* A step that is no handler's and leaves run.pid alone.
<1>3. ASSUME Shrinking, UNCHANGED pidFile,
             \A g \in Handlers : pc[g] \in {"pidOpen", "pidWrite"} => pc'[g] = pc[g] /\ mine'[g] = mine[g]
      PROVE  Known'
  BY <1>0, <1>3 DEF Known, Shrinking
<1>4. ASSUME NEW h \in Handlers, Arrival(h) PROVE Known'
  BY <1>0, <1>3, <1>4, ShrinkStep DEF Arrival, Accept, BadBody, Busy, dirVars, TypeOK
<1>5. ASSUME NEW r \in Runs, WaiterReap(r) \/ RunEnds(r) PROVE Known'
  BY <1>3, <1>5, ShrinkStep DEF WaiterReap, RunEnds, dirVars, reqVars
<1>6. ASSUME NEW q \in Runs, WaiterRemove(q) PROVE Known'
  <2>1. NoRunOf(owner[q]) /\ UNCHANGED <<st, owner, pc, mine>>
        /\ \A i \in Instances : i # owner[q] => pidFile'[i] = pidFile[i]
    BY <1>0, <1>6 DEF WaiterRemove, TryRemovePidFile, RemovePidFile, reqVars, DInv, Checked, TypeOK
  <2> QED
    BY <1>0, <1>a, <2>1 DEF Known, NoRunOf, InTable, Live
<1>7. ASSUME NEW p \in Foreign, ForeignStarts(p) \/ ForeignEnds(p) PROVE Known'
  BY <1>3, <1>7, ShrinkStep DEF ForeignStarts, ForeignEnds, dirVars, reqVars
<1>8. ASSUME NEW killed \in SUBSET Runs, Crash(killed) PROVE Known'
  <2>1. \A g \in Handlers : pc[g] \notin {"pidOpen", "pidWrite"}
    BY <1>0, <1>8 DEF Crash, Discipline, LaunchIsRecorded, TypeOK
  <2> QED
    BY <1>3, <1>8, <2>1, ShrinkStep DEF Crash
<1> QED
  BY <1>1, <1>2, <1>4, <1>5, <1>6, <1>7, <1>8, ShrinkStep, ForkFacts DEF Next, Arrival

\* An instance without a run stays without one until a start launches its own.
NoRunNext(i) == \A r \in Runs : InTable(r)' => owner'[r] # i

LEMMA NoRunStays == ASSUME NEW i, Shrinking, NoRunOf(i) PROVE NoRunNext(i)
  BY DEF Shrinking, NoRunOf, NoRunNext

LEMMA NoRunElsewhere ==
  ASSUME IInv, NEW i, NoRunOf(i), NEW h \in Handlers, NEW r \in Runs, Launches(h, r), i # inst[h]
  PROVE  NoRunNext(i)
  BY DEF NoRunOf, NoRunNext, Launches, IInv, TypeOK, Procs, InTable, Live

\* Who begins to act has just been told that no run is live.
LEMMA ToldThatNoneRuns ==
  ASSUME IInv, NEW h \in Handlers, HandlerStep(h),
         pc[h] \notin Acting, pc'[h] \in Acting, op[h] # "uploadConf"
  PROVE  \/ pc[h] = "stat" /\ pidFile[inst[h]] = None
         \/ pc[h] = "read" /\ PidIn(inst[h]) = None
         \/ pc[h] = "probe" /\ PidFree(seen[h])
<1>0. TypeOK /\ Fits
  BY DEF IInv
<1> USE <1>0 DEF TypeOK, Goto, Reply, Acting
<1>1. CASE Exists(h)
  BY <1>1 DEF Exists
<1>2. CASE RunningStat(h) \/ RunningRead(h)
  BY <1>2 DEF RunningStat, RunningRead
<1>3. CASE RunningProbe(h)
  <2>1. op[h] \in {"create", "delete", "start", "status", "command"}
    BY <1>3, RepositoryAssumption DEF RunningProbe, Fits, Busy, AllOps, Uploads
  <2> QED
    BY <1>3, <2>1 DEF RunningProbe, RunningReturns, Guarded
<1>4. CASE RunningUnlink(h) \/ CleanPid(h) \/ DeleteFiles(h) \/ CreateMkdir(h) \/ ConfOpen(h)
           \/ ConfWrite(h) \/ CleanRest(h) \/ DeleteDir(h) \/ StartPrepare(h) \/ StartFork(h)
  BY <1>4 DEF RunningUnlink, CleanPid, DeleteFiles, CreateMkdir, ConfOpen, ConfWrite, CleanRest,
     DeleteDir, StartPrepare, StartFork
<1>5. CASE StartPidOpen(h) \/ StartPidWrite(h) \/ StartSpawn(h)
  BY <1>5 DEF StartPidOpen, StartPidWrite, StartSpawn
<1>6. CASE SignalRead(h) \/ SignalSend(h) \/ CommandDial(h)
  BY <1>6 DEF SignalRead, SignalSend, CommandDial
<1>7. CASE UploadForm(h) \/ FileOpen(h) \/ FileCopy(h)
  BY <1>7 DEF UploadForm, FileOpen, FileCopy
<1> QED
  BY <1>1, <1>2, <1>3, <1>4, <1>5, <1>6, <1>7 DEF HandlerStep

\* What a handler was told of its instance still holds when it acts.
LEMMA ActorStep ==
  ASSUME IInv, DInv, Next, Discipline,
         NEW g \in Handlers, pc'[g] \in Acting, op'[g] # "uploadConf"
  PROVE  NoRunNext(inst'[g])
<1>0. TypeOK /\ Fits
  BY DEF IInv
<1>1. ASSUME Shrinking, pc'[g] = pc[g], inst'[g] = inst[g], op'[g] = op[g]
      PROVE  NoRunNext(inst'[g])
  BY <1>1, NoRunStays DEF DInv, Checked
<1>2. ASSUME NEW h \in Handlers, HandlerStep(h), g # h PROVE NoRunNext(inst'[g])
  <2>1. pc'[g] = pc[g] /\ inst'[g] = inst[g] /\ op'[g] = op[g]
    BY <1>2, FrameStep DEF OwnRequest
  <2>2. ASSUME NEW r \in Runs, Launches(h, r), op[h] = "start" PROVE NoRunNext(inst'[g])
    <3>1. inst[g] # inst[h]
      BY <1>0, <1>2, <2>1, <2>2, StartIsAlone DEF Acting, Busy, Fits, Uploads
    <3>2. NoRunOf(inst[g])
      BY <2>1 DEF DInv, Checked
    <3> QED
      BY <2>1, <2>2, <3>1, <3>2, NoRunElsewhere
  <2> QED
    BY <1>1, <1>2, <2>1, <2>2, ShrinkStep, ForkFacts
<1>3. CASE HandlerStep(g)
  <2>1. op'[g] = op[g] /\ inst'[g] = inst[g] /\ inst[g] \in Instances
    BY <1>3, FrameStep DEF OwnRequest, Acting
  <2>2. Shrinking
    BY <1>3, ShrinkStep, ForkFacts DEF Launches, Acting
  <2>3. CASE pc[g] \in Acting
    BY <2>1, <2>2, <2>3, NoRunStays DEF DInv, Checked
  <2>4. CASE pc[g] \notin Acting
    <3>1. \/ pc[g] = "stat" /\ pidFile[inst[g]] = None
          \/ pc[g] = "read" /\ PidIn(inst[g]) = None
          \/ pc[g] = "probe" /\ PidFree(seen[g])
      BY <1>3, <2>1, <2>4, ToldThatNoneRuns
    <3>2. \A r \in Runs : PidOf[r] # None /\ PidOf[r] \in Pids
      BY RepositoryAssumption DEF Procs
    <3>3. NoRunOf(inst[g])
      BY <1>0, <3>1, <3>2, RunPidTells DEF Fits, Busy, NoRunOf, PidFree, Procs, DInv, Remembered, Holding
    <3> QED
      BY <2>1, <2>2, <3>3, NoRunStays
  <2> QED
    BY <2>3, <2>4
<1>4. ASSUME NEW h \in Handlers, Arrival(h) PROVE NoRunNext(inst'[g])
  <2>1. pc'[g] = pc[g] /\ inst'[g] = inst[g] /\ op'[g] = op[g]
    BY <1>0, <1>4, RepositoryAssumption
       DEF Arrival, Accept, BadBody, FirstLabel, Acting, AllOps, TypeOK
  <2> QED
    BY <1>1, <1>4, <2>1, ShrinkStep
<1>5. ASSUME NEW r \in Runs, WaiterReap(r) \/ WaiterRemove(r) \/ RunEnds(r) PROVE NoRunNext(inst'[g])
  BY <1>1, <1>5, ShrinkStep DEF WaiterReap, WaiterRemove, RunEnds, reqVars
<1>6. ASSUME NEW p \in Foreign, ForeignStarts(p) \/ ForeignEnds(p) PROVE NoRunNext(inst'[g])
  BY <1>1, <1>6, ShrinkStep DEF ForeignStarts, ForeignEnds, reqVars
<1>7. ASSUME NEW killed \in SUBSET Runs, Crash(killed) PROVE NoRunNext(inst'[g])
  BY <1>7 DEF Crash, Acting
<1> QED
  BY <1>2, <1>3, <1>4, <1>5, <1>6, <1>7 DEF Next, Arrival

\* The run.pid a waiter is about to remove is not that of a new run.
LEMMA RemoverStep ==
  ASSUME IInv, DInv, Next, Discipline, NEW r \in Runs, waiter'[r] = "remove"
  PROVE  NoRunNext(owner'[r])
<1>0. TypeOK /\ Waiting
  BY DEF IInv
<1>1. ASSUME Shrinking, waiter[r] = "remove", owner'[r] = owner[r] PROVE NoRunNext(owner'[r])
  BY <1>1, NoRunStays DEF DInv, Checked
<1>2. ASSUME NEW h \in Handlers, HandlerStep(h) PROVE NoRunNext(owner'[r])
  <2>1. waiter[r] = "remove"
    BY <1>0, <1>2, KeptStep DEF Kept, TypeOK, HandlerStep, Exists, RunningStat, RunningRead, RunningProbe,
       RunningUnlink, CreateMkdir, ConfOpen, ConfWrite, CleanPid, CleanRest, DeleteFiles, DeleteDir,
       StartPrepare, StartFork, StartPidOpen, StartPidWrite, StartSpawn, SignalRead, SignalSend,
       CommandDial, UploadForm, FileOpen, FileCopy
  <2>2. ASSUME NEW q \in Runs, Launches(h, q) PROVE NoRunNext(owner'[r])
    <3>1. q # r /\ owner'[r] = owner[r] /\ owner[r] # inst[h]
      BY <1>0, <2>1, <2>2 DEF Launches, Waiting, TypeOK, Procs
    <3>2. NoRunOf(owner[r])
      BY <2>1 DEF DInv, Checked
    <3> QED
      BY <2>2, <3>1, <3>2, NoRunElsewhere
  <2>3. CASE ~StartFork(h)
    <3>1. owner' = owner
      BY <1>2, <2>3, KeptStep DEF Kept, HandlerStep, Exists, RunningStat, RunningRead, RunningProbe,
         RunningUnlink, CreateMkdir, ConfOpen, ConfWrite, CleanPid, CleanRest, DeleteFiles, DeleteDir,
         StartPrepare, StartPidOpen, StartPidWrite, StartSpawn, SignalRead, SignalSend,
         CommandDial, UploadForm, FileOpen, FileCopy, procVars
    <3> QED
      BY <1>1, <1>2, <2>1, <2>3, <3>1, ShrinkStep
  <2>4. CASE Shrinking /\ UNCHANGED <<owner, mine>>
    BY <1>1, <2>1, <2>4
  <2> QED
    BY <1>2, <2>2, <2>3, <2>4, ForkFacts
<1>3. ASSUME NEW h \in Handlers, Arrival(h) PROVE NoRunNext(owner'[r])
  BY <1>1, <1>3, ShrinkStep DEF Arrival, Accept, BadBody, procVars
<1>4. ASSUME NEW q \in Runs, WaiterReap(q) PROVE NoRunNext(owner'[r])
  <2>1. CASE r = q
    BY <1>0, <1>4, <2>1 DEF WaiterReap, DInv, Single, NoRunNext, InTable, Live, TypeOK, Procs
  <2>2. CASE r # q
    BY <1>0, <1>1, <1>4, <2>2, ShrinkStep DEF WaiterReap, TypeOK
  <2> QED
    BY <2>1, <2>2
<1>5. ASSUME NEW q \in Runs, WaiterRemove(q) \/ RunEnds(q) PROVE NoRunNext(owner'[r])
  BY <1>0, <1>1, <1>5, ShrinkStep DEF WaiterRemove, RunEnds, TypeOK
<1>6. ASSUME NEW p \in Foreign, ForeignStarts(p) \/ ForeignEnds(p) PROVE NoRunNext(owner'[r])
  BY <1>1, <1>6, ShrinkStep DEF ForeignStarts, ForeignEnds
<1>7. ASSUME NEW killed \in SUBSET Runs, Crash(killed) PROVE NoRunNext(owner'[r])
  BY <1>7 DEF Crash
<1> QED
  BY <1>2, <1>3, <1>4, <1>5, <1>6, <1>7 DEF Next, Arrival

\* Who holds a process id has just read it, or holds it still.
LEMMA HolderHasRead ==
  ASSUME IInv, NEW g \in Handlers, HandlerStep(g), pc'[g] \in Holding
  PROVE  /\ inst'[g] = inst[g]
         /\ \/ pc[g] \in Holding /\ seen'[g] = seen[g]
            \/ pc[g] \in {"read", "readPid"} /\ seen'[g] = PidIn(inst[g])
<1>0. TypeOK /\ Fits
  BY DEF IInv
<1> USE <1>0 DEF TypeOK, Goto, Reply, Holding
<1>1. CASE Exists(g)
  BY <1>1 DEF Exists
<1>2. CASE RunningStat(g) \/ RunningUnlink(g)
  BY <1>2 DEF RunningStat, RunningUnlink, RunningReturns, FirstStep, Fits, Busy, AllOps, Uploads
<1>3. CASE RunningRead(g) \/ SignalRead(g)
  BY <1>3 DEF RunningRead, SignalRead
<1>4. CASE RunningProbe(g)
  <2>1. op[g] \in {"create", "delete", "start", "status", "command"}
    BY <1>4, RepositoryAssumption DEF RunningProbe, Fits, Busy, AllOps, Uploads
  <2> QED
    BY <1>4, <2>1 DEF RunningProbe, RunningReturns, Guarded
<1>5. CASE CleanPid(g) \/ DeleteFiles(g) \/ CreateMkdir(g) \/ ConfOpen(g)
           \/ ConfWrite(g) \/ CleanRest(g) \/ DeleteDir(g) \/ StartPrepare(g) \/ StartFork(g)
  BY <1>5 DEF CleanPid, DeleteFiles, CreateMkdir, ConfOpen, ConfWrite, CleanRest,
     DeleteDir, StartPrepare, StartFork
<1>6. CASE StartPidOpen(g) \/ StartPidWrite(g) \/ StartSpawn(g) \/ SignalSend(g) \/ CommandDial(g)
  BY <1>6 DEF StartPidOpen, StartPidWrite, StartSpawn, SignalSend, CommandDial
<1>7. CASE UploadForm(g) \/ FileOpen(g) \/ FileCopy(g)
  BY <1>7 DEF UploadForm, FileOpen, FileCopy
<1> QED
  BY <1>1, <1>2, <1>3, <1>4, <1>5, <1>6, <1>7 DEF HandlerStep

\* Requests that a step does not touch.
Same(g) == /\ pc'[g] = pc[g] /\ op'[g] = op[g] /\ inst'[g] = inst[g]
           /\ seen'[g] = seen[g] /\ mine'[g] = mine[g] /\ code'[g] = code[g]

\* A request that is served is untouched by the steps that are not its own.
LEMMA SameStep ==
  ASSUME IInv, NEW g \in Handlers,
         \/ \E h \in Handlers \ {g} : HandlerStep(h)
         \/ pc'[g] \notin {"idle", "exists", "stat", "readPid"} /\ \E h \in Handlers : Arrival(h)
         \/ \E r \in Runs : WaiterReap(r) \/ WaiterRemove(r) \/ RunEnds(r)
         \/ \E p \in Foreign : ForeignStarts(p) \/ ForeignEnds(p)
  PROVE  Same(g)
<1>1. ASSUME NEW h \in Handlers \ {g}, HandlerStep(h) PROVE Same(g)
  BY <1>1, FrameStep DEF OwnRequest, Same
<1>2. ASSUME NEW h \in Handlers, Arrival(h), pc'[g] \notin {"idle", "exists", "stat", "readPid"}
      PROVE  Same(g)
  BY <1>2, RepositoryAssumption
     DEF Arrival, Accept, BadBody, FirstLabel, AllOps, Same, IInv, TypeOK, Busy
<1>3. ASSUME NEW r \in Runs, WaiterReap(r) \/ WaiterRemove(r) \/ RunEnds(r) PROVE Same(g)
  BY <1>3 DEF WaiterReap, WaiterRemove, RunEnds, reqVars, Same
<1>4. ASSUME NEW p \in Foreign, ForeignStarts(p) \/ ForeignEnds(p) PROVE Same(g)
  BY <1>4 DEF ForeignStarts, ForeignEnds, reqVars, Same
<1> QED
  BY <1>1, <1>2, <1>3, <1>4

\* What was read from run.pid stays the id of the run of the instance.
LEMMA RememberedStep ==
  ASSUME IInv, DInv, Next, Discipline
  PROVE  Remembered'
<1> SUFFICES ASSUME NEW g \in Handlers, pc'[g] \in Holding,
                    NEW r \in Runs, InTable(r)', owner'[r] = inst'[g]
             PROVE  PidOf[r] = seen'[g]
  BY DEF Remembered, Holding
<1>1. CASE Shrinking /\ Same(g)
  BY <1>1 DEF Shrinking, Same, DInv, Remembered, Holding
<1>2. ASSUME NEW h \in Handlers \ {g}, NEW q \in Runs, Launches(h, q), op[h] = "start", Same(g)
      PROVE  PidOf[r] = seen'[g]
  <2>1. inst[g] # inst[h]
    BY <1>2, StartIsAlone DEF Same, Holding, Busy, IInv, Fits, Uploads
  <2>2. InTable(r) /\ owner[r] = inst[g]
    BY <1>2, <2>1 DEF Launches, Same, IInv, TypeOK, InTable, Live, Procs
  <2> QED
    BY <1>2, <2>2 DEF Same, DInv, Remembered, Holding
<1>3. CASE HandlerStep(g)
  <2>1. Shrinking
    BY <1>3, ShrinkStep, ForkFacts DEF Launches, Holding
  <2>2. InTable(r) /\ owner[r] = inst[g]
    BY <1>3, <2>1, HolderHasRead DEF Shrinking
  <2> QED
    BY <1>3, <2>2, HolderHasRead, RunPidTells DEF DInv, Remembered, Holding, Busy, IInv, Fits, Uploads
<1>4. ASSUME NEW h \in Handlers \ {g}, HandlerStep(h) PROVE PidOf[r] = seen'[g]
  BY <1>1, <1>2, <1>4, SameStep, ShrinkStep, ForkFacts
<1>5. ASSUME NEW killed \in SUBSET Runs, Crash(killed) PROVE PidOf[r] = seen'[g]
  BY <1>5 DEF Crash, Holding
<1> QED
  BY <1>1, <1>3, <1>4, <1>5, SameStep, ShrinkStep DEF Next, Arrival, Holding

\* The steps of a start, one after the other.
LEMMA StartPath ==
  ASSUME IInv, NEW g \in Handlers, HandlerStep(g)
  PROVE  \/ pc'[g] \notin {"prepare", "fork", "pidOpen", "pidWrite"}
         \/ pc'[g] = "prepare" /\ CleanRest(g)
         \/ pc'[g] = "fork" /\ StartPrepare(g)
         \/ pc'[g] = "pidOpen" /\ StartFork(g)
         \/ pc'[g] = "pidWrite" /\ StartPidOpen(g)
<1>0. TypeOK /\ Fits
  BY DEF IInv
<1> USE <1>0 DEF TypeOK, Goto, Reply
<1>1. CASE Exists(g)
  BY <1>1 DEF Exists
<1>2. CASE RunningStat(g) \/ RunningRead(g) \/ RunningProbe(g) \/ RunningUnlink(g)
  <2>1. op[g] \in {"create", "delete", "start", "status", "command"}
    BY <1>2, RepositoryAssumption
       DEF RunningStat, RunningRead, RunningProbe, RunningUnlink, Fits, Busy, AllOps, Uploads
  <2> QED
    BY <1>2, <2>1
       DEF RunningStat, RunningRead, RunningProbe, RunningUnlink, RunningReturns, FirstStep, Guarded
<1>3. CASE CreateMkdir(g) \/ ConfOpen(g) \/ ConfWrite(g) \/ CleanPid(g)
  BY <1>3 DEF CreateMkdir, ConfOpen, ConfWrite, CleanPid
<1>4. CASE CleanRest(g) \/ StartPrepare(g) \/ StartFork(g) \/ StartPidOpen(g)
  BY <1>4 DEF CleanRest, StartPrepare, StartFork, StartPidOpen
<1>5. CASE DeleteFiles(g) \/ DeleteDir(g)
  BY <1>5 DEF DeleteFiles, DeleteDir
<1>6. CASE StartPidWrite(g) \/ StartSpawn(g) \/ SignalRead(g) \/ SignalSend(g) \/ CommandDial(g)
  BY <1>6 DEF StartPidWrite, StartSpawn, SignalRead, SignalSend, CommandDial
<1>7. CASE UploadForm(g) \/ FileOpen(g) \/ FileCopy(g)
  BY <1>7 DEF UploadForm, FileOpen, FileCopy
<1> QED
  BY <1>1, <1>2, <1>3, <1>4, <1>5, <1>6, <1>7 DEF HandlerStep

\* An upload changes config.json, or a file of its own, and nothing else.
LEMMA UploadKeeps ==
  ASSUME IInv, NEW h \in Handlers, HandlerStep(h), op[h] \in Uploads
  PROVE  UNCHANGED <<folder, output, pidFile>> /\ \A g \in Handlers \ {h} : g \in linked' <=> g \in linked
<1>1. pc[h] \in {"exists", "confOpen", "confWrite", "form", "fileOpen", "fileCopy"}
  <2>1. pc[h] \in Labels \ {"idle"}
    BY DEF IInv, TypeOK, HandlerStep, Exists, RunningStat, RunningRead, RunningProbe, RunningUnlink,
       CreateMkdir, ConfOpen, ConfWrite, CleanPid, CleanRest, DeleteFiles, DeleteDir, StartPrepare,
       StartFork, StartPidOpen, StartPidWrite, StartSpawn, SignalRead, SignalSend, CommandDial,
       UploadForm, FileOpen, FileCopy
  <2> QED
    BY <2>1 DEF Labels, IInv, Fits, Uploads, Launching
<1>2. CASE Exists(h) \/ UploadForm(h) \/ FileOpen(h) \/ FileCopy(h)
  BY <1>2 DEF Exists, UploadForm, FileOpen, FileCopy, dirVars
<1>3. CASE ConfOpen(h) \/ ConfWrite(h)
  BY <1>3 DEF ConfOpen, ConfWrite
<1> QED
  BY <1>1, <1>2, <1>3
     DEF HandlerStep, RunningStat, RunningRead, RunningProbe, RunningUnlink, CreateMkdir, CleanPid,
     CleanRest, DeleteFiles, DeleteDir, StartPrepare, StartFork, StartPidOpen, StartPidWrite,
     StartSpawn, SignalRead, SignalSend, CommandDial

\* Nobody touches the folder a start works in.
LEMMA UndisturbedStart ==
  ASSUME IInv, DInv, NEW g \in Handlers, op[g] = "start",
         NEW h \in Handlers \ {g}, HandlerStep(h)
  PROVE  /\ Same(g) /\ inst[g] \in Instances
         /\ folder'[inst[g]] = folder[inst[g]] /\ output'[inst[g]] = output[inst[g]]
         /\ pidFile'[inst[g]] = pidFile[inst[g]] /\ (g \in linked' <=> g \in linked)
<1>1. pc[h] # "idle"
  BY DEF HandlerStep, Exists, RunningStat, RunningRead, RunningProbe, RunningUnlink,
     CreateMkdir, ConfOpen, ConfWrite, CleanPid, CleanRest, DeleteFiles, DeleteDir, StartPrepare,
     StartFork, StartPidOpen, StartPidWrite, StartSpawn, SignalRead, SignalSend, CommandDial,
     UploadForm, FileOpen, FileCopy
<1>2. inst[g] \in Instances
  BY RepositoryAssumption DEF IInv, Fits, Busy, AllOps
<1>3. CASE op[h] \notin Uploads
  <2>1. inst[h] # inst[g]
    BY <1>1, <1>3, StartIsAlone DEF Busy
  <2> QED
    BY <1>2, <2>1, FrameStep, SameStep DEF OwnFolder
<1>4. CASE op[h] \in Uploads
  <2>1. UNCHANGED <<folder, output, pidFile>>
    BY <1>4, UploadKeeps
  <2>2. g \in linked' <=> g \in linked
    BY <1>4, UploadKeeps
  <2> QED
    BY <1>2, <2>1, <2>2, SameStep
<1> QED
  BY <1>3, <1>4

\* A process that is being launched stays in the process table: it is a child of
\* this controller and nobody waits for it yet.
LEMMA ChildStays ==
  ASSUME IInv, DInv, Next, NEW g \in Handlers, NEW r \in Runs, mine[g] = r, crashes' = crashes
  PROVE  st'[r] \in {"alive", "stopping", "zombie"}
<1>0. TypeOK
  BY DEF IInv
<1>1. r \notin orphans /\ waiter[r] = "none" /\ st[r] # "unborn" /\ InTable(r)
  BY RepositoryAssumption DEF IInv, InFlight, InTable, Live, DInv, Prepared, Procs
<1>2. st[r] \in {"alive", "stopping", "zombie"} /\ Ended(r) = "zombie" /\ r \in Procs
  BY <1>1 DEF InTable, Live, Ended, Procs
<1>3. ASSUME NEW h \in Handlers, HandlerStep(h) PROVE st'[r] \in {"alive", "stopping", "zombie"}
  <2>1. CASE StartFork(h)
    BY <1>0, <1>1, <1>2, <2>1 DEF StartFork, Launchable, TypeOK
  <2>2. CASE SignalSend(h)
    BY <1>2, <2>2 DEF SignalSend
  <2>3. CASE ~StartFork(h) /\ ~SignalSend(h)
    <3>1. UNCHANGED st
      BY <1>3, <2>3 DEF HandlerStep, procVars, Exists, RunningStat, RunningRead, RunningProbe, RunningUnlink,
         CreateMkdir, ConfOpen, ConfWrite, CleanPid, CleanRest, DeleteFiles, DeleteDir, StartPrepare,
         StartPidOpen, StartPidWrite, StartSpawn, SignalRead, CommandDial, UploadForm, FileOpen, FileCopy
    <3> QED
      BY <1>2, <3>1
  <2> QED
    BY <2>1, <2>2, <2>3
<1>4. ASSUME NEW h \in Handlers, Arrival(h) PROVE st'[r] \in {"alive", "stopping", "zombie"}
  BY <1>2, <1>4 DEF Arrival, Accept, BadBody, procVars
<1>5. ASSUME NEW q \in Runs, WaiterReap(q) \/ WaiterRemove(q) \/ RunEnds(q)
      PROVE  st'[r] \in {"alive", "stopping", "zombie"}
  BY <1>0, <1>1, <1>2, <1>5 DEF WaiterReap, WaiterRemove, RunEnds, TypeOK
<1>6. ASSUME NEW p \in Foreign, ForeignStarts(p) \/ ForeignEnds(p)
      PROVE  st'[r] \in {"alive", "stopping", "zombie"}
  BY <1>0, <1>2, <1>6, RepositoryAssumption DEF ForeignStarts, ForeignEnds, TypeOK
<1>7. ASSUME NEW killed \in SUBSET Runs, Crash(killed) PROVE FALSE
  BY <1>0, <1>7, RepositoryAssumption DEF Crash, TypeOK
<1> QED
  BY <1>3, <1>4, <1>5, <1>6, <1>7 DEF Next, Arrival

\* The run.pid a waiter removes is not one that a start has open.
LEMMA UndisturbedPidFile ==
  ASSUME IInv, DInv, NEW g \in Handlers, pc[g] = "pidWrite", NEW q \in Runs, WaiterRemove(q)
  PROVE  pidFile'[inst[g]] = pidFile[inst[g]] /\ (g \in linked' <=> g \in linked)
<1>1. mine[g] \in Runs /\ InTable(mine[g]) /\ owner[mine[g]] = inst[g] /\ inst[g] \in Instances
  BY RepositoryAssumption DEF IInv, TypeOK, InFlight, Launching, DInv, Prepared, Fits, Busy
<1>2. owner[q] # inst[g]
  BY <1>1 DEF WaiterRemove, DInv, Checked, NoRunOf
<1> QED
  BY <1>1, <1>2 DEF WaiterRemove, TryRemovePidFile, RemovePidFile, IInv, TypeOK

LEMMA PreparedStep ==
  ASSUME IInv, DInv, Next, Discipline, "pid" \notin Faults
  PROVE  Prepared'
<1> DEFINE
      Ready(g) == /\ pc'[g] \in {"fork", "pidOpen"} => folder'[inst'[g]]
                  /\ pc'[g] \in {"prepare", "fork"} => output'[inst'[g]] \in {None, Blank}
                  /\ pc'[g] = "pidWrite" => g \in linked' /\ pidFile'[inst'[g]] = Blank
      Child(g) == mine'[g] # None => st'[mine'[g]] \in {"alive", "stopping", "zombie"}
<1> SUFFICES ASSUME NEW g \in Handlers PROVE Ready(g) /\ Child(g)
  BY DEF Prepared, InTable, Live
<1>0. TypeOK /\ Fits /\ InFlight /\ Prepared
  BY DEF IInv, DInv
<1>a. /\ mine[g] # None => mine[g] \in Runs /\ pc[g] \in Launching
      /\ pc[g] \in {"prepare", "fork"} \cup Launching => op[g] = "start" /\ inst[g] \in Instances
  BY <1>0 DEF InFlight, TypeOK, Fits, Busy, Launching
<1>1. ASSUME NEW h \in Handlers \ {g}, HandlerStep(h) PROVE Ready(g) /\ Child(g)
  <2>1. Same(g) /\ crashes' = crashes
    BY <1>1, SameStep, FrameStep DEF OwnRequest
  <2>2. Child(g)
    BY <1>a, <2>1, ChildStays DEF Same
  <2>3. Ready(g)
    BY <1>0, <1>1, <1>a, <2>1, UndisturbedStart DEF Same, Prepared, Launching
  <2> QED
    BY <2>2, <2>3
<1>2. CASE HandlerStep(g)
  <2>1. Ready(g)
    <3>1. ASSUME StartPidOpen(g) PROVE g \in linked' /\ pidFile'[inst'[g]] = Blank /\ pc'[g] = "pidWrite"
      BY <1>0, <1>a, <3>1 DEF StartPidOpen, Prepared, Goto, TypeOK, Launching
    <3>2. ASSUME StartFork(g), pc'[g] = "pidOpen" PROVE folder'[inst'[g]]
      BY <1>0, <3>2 DEF StartFork, Prepared, Goto, Reply, TypeOK, dirVars
    <3>3. ASSUME StartPrepare(g), pc'[g] = "fork"
          PROVE  folder'[inst'[g]] /\ output'[inst'[g]] \in {None, Blank}
      BY <1>0, <1>a, <3>3 DEF StartPrepare, Prepared, Goto, Reply, TypeOK
    <3>4. ASSUME CleanRest(g), pc'[g] = "prepare" PROVE output'[inst'[g]] \in {None, Blank}
      BY <1>0, <3>4 DEF CleanRest, Goto, Reply, TypeOK, Fits, Busy
    <3> QED
      BY <1>2, <3>1, <3>2, <3>3, <3>4, StartPath
  <2>2. Child(g)
    <3>1. CASE StartFork(g)
      BY <1>0, <1>a, <3>1 DEF StartFork, Launchable, TypeOK, Launching, Procs
    <3>2. CASE StartSpawn(g)
      BY <1>0, <3>2 DEF StartSpawn, TypeOK
    <3>3. CASE ~StartFork(g) /\ ~StartSpawn(g)
      <4>1. mine' = mine /\ crashes' = crashes
        BY <1>2, <3>3, FrameStep DEF OwnRequest, HandlerStep, Exists, RunningStat, RunningRead, RunningProbe,
           RunningUnlink, CreateMkdir, ConfOpen, ConfWrite, CleanPid, CleanRest, DeleteFiles, DeleteDir,
           StartPrepare, StartPidOpen, StartPidWrite, SignalRead, SignalSend, CommandDial, UploadForm,
           FileOpen, FileCopy
      <4> QED
        BY <1>a, <4>1, ChildStays
    <3> QED
      BY <3>1, <3>2, <3>3
  <2> QED
    BY <2>1, <2>2
<1>3. ASSUME NEW h \in Handlers, Arrival(h) PROVE Ready(g) /\ Child(g)
  <2>1. UNCHANGED <<dirVars, mine, st, crashes>>
    BY <1>3 DEF Arrival, Accept, BadBody, procVars
  <2>2. Child(g)
    BY <1>a, <2>1, ChildStays
  <2>3. Ready(g)
    BY <1>0, <1>3, <2>1, SameStep DEF Same, Prepared, dirVars
  <2> QED
    BY <2>2, <2>3
<1>4. ASSUME NEW r \in Runs, WaiterReap(r) \/ WaiterRemove(r) \/ RunEnds(r) PROVE Ready(g) /\ Child(g)
  <2>1. Same(g) /\ UNCHANGED <<folder, crashes, reqVars>>
    BY <1>4, SameStep DEF WaiterReap, WaiterRemove, RunEnds, dirVars
  <2>2. Child(g)
    BY <1>a, <2>1, ChildStays DEF Same
  <2>3. pc[g] \in {"prepare", "fork"} => output'[inst[g]] = output[inst[g]]
    <3>1. ASSUME pc[g] \in {"prepare", "fork"}, RunEnds(r) PROVE owner[r] # inst[g]
      BY <1>a, <3>1, NobodyActsOnARun DEF RunEnds, InTable, Acting
    <3> QED
      BY <1>0, <1>4, <1>a, <3>1 DEF RunEnds, WaiterReap, WaiterRemove, dirVars, TypeOK
  <2>4. pc[g] = "pidWrite" => pidFile'[inst[g]] = pidFile[inst[g]] /\ (g \in linked' <=> g \in linked)
    BY <1>4, UndisturbedPidFile DEF RunEnds, WaiterReap, dirVars
  <2>5. Ready(g)
    BY <1>0, <2>1, <2>3, <2>4 DEF Same, Prepared
  <2> QED
    BY <2>2, <2>5
<1>5. ASSUME NEW p \in Foreign, ForeignStarts(p) \/ ForeignEnds(p) PROVE Ready(g) /\ Child(g)
  <2>1. Same(g) /\ UNCHANGED <<dirVars, crashes>>
    BY <1>5, SameStep DEF ForeignStarts, ForeignEnds
  <2>2. Child(g)
    BY <1>a, <2>1, ChildStays DEF Same
  <2>3. Ready(g)
    BY <1>0, <2>1 DEF Same, Prepared, dirVars
  <2> QED
    BY <2>2, <2>3
<1>6. ASSUME NEW killed \in SUBSET Runs, Crash(killed) PROVE Ready(g) /\ Child(g)
  BY <1>6 DEF Crash
<1> QED
  BY <1>1, <1>2, <1>3, <1>4, <1>5, <1>6 DEF Next, Arrival

\* The files of the last run are removed before the next one is launched, and
\* only its end writes a report.
LEMMA FreshStep ==
  ASSUME IInv, DInv, Next, Discipline
  PROVE  NoStaleReport'
<1> SUFFICES ASSUME NEW r \in Runs, Live(r)' PROVE output'[owner'[r]] \in {None, Blank}
  BY DEF NoStaleReport
<1>0. TypeOK
  BY DEF IInv
<1>a. \A q \in Runs : Live(q) => InTable(q) /\ owner[q] \in Instances
  BY DEF IInv, Waiting, InTable, Live
<1>1. ASSUME Shrinking, output'[owner[r]] = output[owner[r]] PROVE output'[owner'[r]] \in {None, Blank}
  BY <1>1, <1>a DEF Shrinking, DInv, NoStaleReport, InTable
<1>2. ASSUME NEW h \in Handlers, HandlerStep(h), Shrinking PROVE output'[owner'[r]] \in {None, Blank}
  <2>1. Live(r) /\ InTable(r) /\ owner[r] \in Instances
    BY <1>2, <1>a DEF Shrinking
  <2>2. CASE owner[r] = inst[h]
    BY <1>1, <1>2, <2>1, <2>2, NobodyActsOnARun, KeptStep DEF Kept, Acting
  <2>3. CASE owner[r] # inst[h]
    BY <1>1, <1>2, <2>1, <2>3, FrameStep DEF OwnFolder
  <2> QED
    BY <2>2, <2>3
<1>3. ASSUME NEW h \in Handlers, NEW q \in Runs, Launches(h, q), output[inst[h]] \in {None, Blank},
             UNCHANGED dirVars
      PROVE  output'[owner'[r]] \in {None, Blank}
  BY <1>0, <1>3 DEF Launches, TypeOK, Procs, Live, dirVars, DInv, NoStaleReport
<1>4. ASSUME NEW h \in Handlers, Arrival(h) PROVE output'[owner'[r]] \in {None, Blank}
  BY <1>1, <1>4, ShrinkStep DEF Arrival, Accept, BadBody, dirVars
<1>5. ASSUME NEW q \in Runs, WaiterReap(q) \/ WaiterRemove(q) PROVE output'[owner'[r]] \in {None, Blank}
  BY <1>1, <1>5, ShrinkStep DEF WaiterReap, WaiterRemove, dirVars
<1>6. ASSUME NEW q \in Runs, RunEnds(q) PROVE output'[owner'[r]] \in {None, Blank}
  <2>1. Shrinking /\ Live(r) /\ Live(q)
    BY <1>6, ShrinkStep DEF Shrinking, RunEnds
  <2>2. q # r
    BY <1>0, <1>6 DEF RunEnds, TypeOK, Procs, Ended, Live
  <2>3. owner[q] # owner[r]
    BY <1>a, <2>1, <2>2 DEF DInv, Single
  <2> QED
    BY <1>0, <1>1, <1>6, <1>a, <2>1, <2>3 DEF RunEnds, TypeOK
<1>7. ASSUME NEW p \in Foreign, ForeignStarts(p) \/ ForeignEnds(p) PROVE output'[owner'[r]] \in {None, Blank}
  BY <1>1, <1>7, ShrinkStep DEF ForeignStarts, ForeignEnds, dirVars
<1>8. ASSUME NEW killed \in SUBSET Runs, Crash(killed) PROVE output'[owner'[r]] \in {None, Blank}
  BY <1>1, <1>8, ShrinkStep DEF Crash
<1> QED
  BY <1>2, <1>3, <1>4, <1>5, <1>6, <1>7, <1>8, ShrinkStep, ForkFacts DEF Next, Arrival

\* Runs and configurations stay in their folders.
LEMMA HousedStep ==
  ASSUME IInv, DInv, Next, Discipline
  PROVE  Housed'
<1> DEFINE
      Roofed == \A r \in Runs : InTable(r)' => folder'[owner'[r]]
      Stored == \A i \in Instances : conf'[i] # "none" => folder'[i]
      Opened == \A g \in linked' : pc'[g] = "confWrite" => conf'[inst'[g]] # "none"
<1> SUFFICES Roofed /\ Stored /\ Opened
  BY DEF Housed
<1>0. TypeOK /\ Fits /\ Housed
  BY DEF IInv, DInv
<1>a. \A q \in Runs : InTable(q) => owner[q] \in Instances
  BY DEF IInv, Waiting, InTable, Live
<1>1. ASSUME UNCHANGED <<folder, conf>>, Shrinking PROVE Roofed /\ Stored
  BY <1>0, <1>1, <1>a DEF Housed, Shrinking
<1>2. ASSUME NEW h \in Handlers, HandlerStep(h) PROVE Roofed /\ Stored /\ Opened
  <2>0. inst[h] \in Instances /\ Kept(h) /\ OwnRequest(h) /\ OwnFolder(h)
    BY <1>2, KeptStep, FrameStep
  <2>1. CASE StartFork(h)
    <3>1. UNCHANGED dirVars /\ folder[inst[h]] /\ pc'[h] # "confWrite"
      BY <1>0, <2>1, ForkFacts DEF StartFork, Goto, Reply, TypeOK
    <3>2. Stored /\ Opened
      BY <1>0, <2>0, <3>1 DEF Housed, dirVars, OwnRequest, TypeOK
    <3>3. ASSUME NEW q \in Runs, Launches(h, q) PROVE Roofed
      BY <1>0, <3>1, <3>3 DEF Launches, Housed, dirVars, TypeOK, InTable, Live, Procs
    <3> QED
      BY <1>1, <2>1, <3>1, <3>2, <3>3, ForkFacts DEF dirVars
  <2>2. CASE CreateMkdir(h)
    <3>1. Shrinking
      BY <1>2, <2>2, ShrinkStep DEF CreateMkdir, StartFork
    <3>2. \A i \in Instances : folder[i] => folder'[i]
      BY <1>0, <2>2 DEF CreateMkdir, TypeOK
    <3>3. UNCHANGED <<conf, linked>> /\ pc'[h] # "confWrite"
      BY <1>0, <2>2 DEF CreateMkdir, Goto, Reply, TypeOK
    <3> QED
      BY <1>0, <1>a, <2>0, <3>1, <3>2, <3>3 DEF Housed, Shrinking, OwnRequest, TypeOK
  <2>3. CASE ConfOpen(h) \/ ConfWrite(h)
    <3>1. Shrinking /\ UNCHANGED folder
      BY <1>2, <2>3, ShrinkStep DEF ConfOpen, ConfWrite, StartFork
    <3>2. Roofed
      BY <1>0, <1>a, <3>1 DEF Housed, Shrinking
    <3>3. Stored
      BY <1>0, <2>0, <2>3, <3>1 DEF Housed, ConfOpen, ConfWrite, TypeOK
    <3>4. ASSUME NEW g \in linked', pc'[g] = "confWrite" PROVE conf'[inst'[g]] # "none"
      <4>1. CASE ConfOpen(h)
        BY <1>0, <2>0, <3>4, <4>1 DEF Housed, ConfOpen, Goto, Reply, TypeOK, OwnRequest, Fits, Busy
      <4>2. CASE ConfWrite(h)
        <5>1. g # h /\ g \in linked /\ pc[g] = "confWrite" /\ inst'[g] = inst[g] /\ inst[g] \in Instances
          BY <1>0, <2>0, <3>4, <4>2 DEF ConfWrite, Goto, Reply, TypeOK, OwnRequest, Fits, Busy
        <5>2. \A i \in Instances : conf[i] # "none" => conf'[i] # "none"
          BY <1>0, <4>2 DEF ConfWrite, Written, TypeOK
        <5> QED
          BY <1>0, <5>1, <5>2 DEF Housed
      <4> QED
        BY <2>3, <4>1, <4>2
    <3> QED
      BY <3>2, <3>3, <3>4
  <2>4. CASE DeleteFiles(h)
    <3>1. Shrinking /\ UNCHANGED folder
      BY <1>2, <2>4, ShrinkStep DEF DeleteFiles, StartFork
    <3>2. \A i \in Instances : conf'[i] \in {conf[i], "none"}
      BY <1>0, <2>4 DEF DeleteFiles, TypeOK
    <3>3. ASSUME NEW g \in linked', pc'[g] = "confWrite" PROVE conf'[inst'[g]] # "none"
      <4>1. g # h /\ g \in linked /\ pc[g] = "confWrite" /\ inst'[g] = inst[g]
        BY <1>0, <2>0, <2>4, <3>3 DEF DeleteFiles, Goto, TypeOK, OwnRequest
      <4>2. inst[g] \in Instances /\ op[g] \in {"create", "uploadConf"} /\ conf[inst[g]] # "none"
        BY <1>0, <4>1 DEF Fits, Busy, Housed, TypeOK
      <4> QED
        BY <1>0, <2>4, <4>1, <4>2 DEF DeleteFiles, TypeOK
    <3> QED
      BY <1>0, <1>a, <3>1, <3>2, <3>3 DEF Housed, Shrinking
  <2>5. CASE DeleteDir(h)
    <3>1. Shrinking /\ UNCHANGED <<conf, linked>> /\ pc'[h] # "confWrite"
      BY <1>0, <1>2, <2>5, ShrinkStep DEF DeleteDir, StartFork, Reply, TypeOK
    <3>2. NoRunOf(inst[h])
      BY <1>0, <2>5 DEF DeleteDir, DInv, Checked, Acting, Fits
    <3>3. \A i \in Instances : folder'[i] = folder[i] \/ (i = inst[h] /\ conf[i] = "none")
      BY <1>0, <2>5 DEF DeleteDir, EmptyFolder, TypeOK
    <3>4. Roofed
      BY <1>0, <1>a, <3>1, <3>2, <3>3 DEF Housed, Shrinking, NoRunOf
    <3> QED
      BY <1>0, <2>0, <3>1, <3>3, <3>4 DEF Housed, OwnRequest, TypeOK
  <2>6. CASE pc[h] \notin {"fork", "mkdir", "confOpen", "confWrite", "rmFiles", "rmDir"}
    <3>1. UNCHANGED <<folder, conf>> /\ Shrinking
      BY <1>2, <2>0, <2>6, ShrinkStep DEF Kept, StartFork
    <3>2. \A g \in linked' : pc'[g] = "confWrite" => g \in linked /\ g # h
      <4> USE <1>0, <2>0, <2>6 DEF TypeOK, Goto, Reply, dirVars, OwnRequest
      <4>1. CASE Exists(h) \/ UploadForm(h) \/ FileOpen(h) \/ FileCopy(h) \/ CommandDial(h)
        BY <4>1 DEF Exists, UploadForm, FileOpen, FileCopy, CommandDial
      <4>2. CASE RunningStat(h) \/ RunningRead(h) \/ RunningProbe(h)
        BY <4>2 DEF RunningStat, RunningRead, RunningProbe, RunningReturns, FirstStep, Fits, Busy, AllOps, Uploads
      <4>3. CASE RunningUnlink(h)
        BY <4>3 DEF RunningUnlink, RunningReturns, FirstStep, Fits, Busy, AllOps, Uploads,
           TryRemovePidFile, RemovePidFile
      <4>4. CASE CleanPid(h) \/ CleanRest(h) \/ StartPrepare(h)
        BY <4>4 DEF CleanPid, RemovePidFile, CleanRest, StartPrepare
      <4>5. CASE StartPidOpen(h) \/ StartPidWrite(h) \/ StartSpawn(h)
        BY <4>5 DEF StartPidOpen, StartPidWrite, StartSpawn
      <4>6. CASE SignalRead(h) \/ SignalSend(h)
        BY <4>6 DEF SignalRead, SignalSend
      <4> QED
        BY <1>2, <2>6, <4>1, <4>2, <4>3, <4>4, <4>5, <4>6 DEF HandlerStep, CreateMkdir, ConfOpen, ConfWrite,
           DeleteFiles, DeleteDir, StartFork
    <3> QED
      BY <1>0, <1>1, <2>0, <3>1, <3>2 DEF Housed, OwnRequest, TypeOK
  <2> QED
    BY <1>2, <2>1, <2>2, <2>3, <2>4, <2>5, <2>6 DEF HandlerStep, Exists, RunningStat, RunningRead,
       RunningProbe, RunningUnlink, CleanPid, CleanRest, StartPrepare, StartPidOpen, StartPidWrite,
       StartSpawn, SignalRead, SignalSend, CommandDial, UploadForm, FileOpen, FileCopy
<1>3. ASSUME NEW h \in Handlers, Arrival(h) PROVE Roofed /\ Stored /\ Opened
  <2>1. UNCHANGED dirVars /\ Shrinking
    BY <1>3, ShrinkStep DEF Arrival, Accept, BadBody
  <2>2. Opened
    BY <1>0, <1>3, <2>1, SameStep DEF Housed, Same, dirVars, TypeOK
  <2> QED
    BY <1>1, <2>1, <2>2 DEF dirVars
<1>4. ASSUME NEW r \in Runs, WaiterReap(r) \/ WaiterRemove(r) \/ RunEnds(r)
      PROVE  Roofed /\ Stored /\ Opened
  <2>1. UNCHANGED <<folder, conf, reqVars>> /\ linked' \subseteq linked
    BY <1>4 DEF WaiterReap, WaiterRemove, TryRemovePidFile, RemovePidFile, RunEnds, dirVars
  <2> QED
    BY <1>0, <1>1, <1>4, <2>1, ShrinkStep DEF Housed, reqVars
<1>5. ASSUME NEW p \in Foreign, ForeignStarts(p) \/ ForeignEnds(p)
      PROVE  Roofed /\ Stored /\ Opened
  BY <1>0, <1>1, <1>5, ShrinkStep DEF ForeignStarts, ForeignEnds, Housed, dirVars, reqVars
<1>6. ASSUME NEW killed \in SUBSET Runs, Crash(killed) PROVE Roofed /\ Stored /\ Opened
  BY <1>1, <1>6, ShrinkStep DEF Crash
<1> QED
  BY <1>2, <1>3, <1>4, <1>5, <1>6 DEF Next, Arrival

\* Every step of the discipline keeps the invariant.
LEMMA StepDInv ==
  ASSUME "pid" \notin Faults
  PROVE  IInv /\ DInv /\ [Next /\ Discipline]_vars => DInv'
<1> SUFFICES ASSUME IInv, DInv, [Next /\ Discipline]_vars PROVE DInv'
  OBVIOUS
<1>1. CASE UNCHANGED vars
  <2> USE <1>1 DEF vars, dirVars, procVars, reqVars
  <2>1. ExclusiveStart' /\ Single' /\ Known'
    BY DEF DInv, ExclusiveStart, Single, Known, InTable, Live, Busy
  <2>2. Checked' /\ Remembered'
    BY DEF DInv, Checked, NoRunOf, Remembered, InTable, Live
  <2>3. Prepared' /\ NoStaleReport' /\ Housed'
    BY DEF DInv, Prepared, NoStaleReport, Housed, InTable, Live
  <2> QED
    BY <2>1, <2>2, <2>3 DEF DInv
<1>2. CASE Next /\ Discipline
  <2>1. ExclusiveStart'
    BY <1>2 DEF Discipline
  <2>2. Checked'
    BY <1>2, ActorStep, RemoverStep DEF Checked, NoRunOf, NoRunNext
  <2> QED
    BY <1>2, <2>1, <2>2, SingleStep, KnownStep, RememberedStep, PreparedStep, FreshStep, HousedStep
       DEF DInv
<1> QED
  BY <1>1, <1>2

\* Both invariants hold whenever run.pid can be written.
THEOREM DisciplinedInvariance ==
  ASSUME "pid" \notin Faults
  PROVE  DisciplinedSpec => [](IInv /\ DInv)
<1>1. Init => IInv /\ DInv
  BY InitIInv, InitDInv
<1>2. IInv /\ DInv /\ [Next /\ Discipline]_vars => (IInv /\ DInv)'
  BY StepIInv, StepDInv
<1> QED
  BY <1>1, <1>2, PTL DEF DisciplinedSpec

\* No instance is ever served by two bngblasters.
THEOREM OneRunAtATime ==
  ASSUME "pid" \notin Faults
  PROVE  DisciplinedSpec => []OneLiveRun
<1>1. DInv => OneLiveRun
  BY DEF DInv, Single, OneLiveRun, InTable
<1> QED
  BY <1>1, DisciplinedInvariance, PTL

\* A live run is named by run.pid, or its start is about to write the file.
THEOREM LiveRunsAreKnown ==
  ASSUME "pid" \notin Faults
  PROVE  DisciplinedSpec => []LiveIsKnown
<1>1. DInv => LiveIsKnown
  BY DEF DInv, Known, LiveIsKnown, InTable, Launching
<1> QED
  BY <1>1, DisciplinedInvariance, PTL

\* What is served while a run is live is not the report of an earlier one.
THEOREM ReportsAreFresh ==
  ASSUME "pid" \notin Faults
  PROVE  DisciplinedSpec => []NoStaleReport
<1>1. DInv => NoStaleReport
  BY DEF DInv
<1> QED
  BY <1>1, DisciplinedInvariance, PTL

\* A request that has no answer yet gets one by its own step.
LEMMA AnswerIsOwnStep ==
  ASSUME IInv, Next, NEW h \in Handlers, op[h] \in {"stop", "kill", "status", "command"},
         code'[h] # "none"
  PROVE  HandlerStep(h) /\ Busy(h) /\ code[h] = "none"
<1>0. TypeOK /\ Fits
  BY DEF IInv
<1>1. Busy(h) /\ code[h] = "none"
  BY <1>0, RepositoryAssumption DEF Fits, AllOps, IInv, Unanswered
<1>2. crashes' = crashes
  <2> SUFFICES ASSUME NEW killed \in SUBSET Runs, Crash(killed) PROVE FALSE
    BY FrameStep DEF Next, OwnRequest, Accept, BadBody, WaiterReap, WaiterRemove, RunEnds,
       ForeignStarts, ForeignEnds
  <2> QED
    BY DEF Crash
<1> QED
  BY <1>1, <1>2, OnlyOwnStep

\* A stop or a kill that was answered has reached the run, if there is one.
THEOREM StopsReach ==
  ASSUME "pid" \notin Faults
  PROVE  DisciplinedSpec => StopReaches
<1>1. IInv /\ DInv /\ [Next /\ Discipline]_vars =>
        [\A h \in Handlers : op[h] \in {"stop", "kill"} /\ code'[h] = "202" =>
           \A r \in LiveRuns(inst[h]) : st'[r] # "alive"]_vars
  <2> SUFFICES ASSUME IInv, DInv, Next, NEW h \in Handlers,
                      op[h] \in {"stop", "kill"}, code'[h] = "202",
                      NEW r \in Runs, owner[r] = inst[h], Live(r)
               PROVE  st'[r] # "alive"
    BY DEF LiveRuns
  <2>0. TypeOK /\ Fits
    BY DEF IInv
  <2>1. InTable(r)
    BY DEF InTable
  <2>2. HandlerStep(h) /\ Busy(h) /\ code[h] = "none"
    BY AnswerIsOwnStep
  <2>3. CASE SignalRead(h)
    <3>1. PidIn(inst[h]) = PidOf[r] /\ PidOf[r] # None
      BY <2>1, <2>2, <2>3, RunPidTells, RepositoryAssumption DEF SignalRead, Procs, Uploads
    <3> QED
      BY <2>0, <2>2, <2>3, <3>1 DEF SignalRead, Goto, TypeOK
  <2>4. CASE SignalSend(h)
    <3>1. r \in Targets(h)
      BY <2>1, <2>4 DEF SignalSend, Targets, Procs, DInv, Remembered, Holding
    <3>2. Ended(r) # "alive"
      BY DEF Ended
    <3> QED
      BY <2>4, <3>1, <3>2 DEF SignalSend, Procs
  <2>5. pc[h] \in {"readPid", "signal"}
    BY <2>0, <2>2, RepositoryAssumption
       DEF Fits, Busy, TypeOK, Labels, Launching, AllOps, Uploads
  <2> QED
    BY <2>2, <2>3, <2>4, <2>5
       DEF HandlerStep, Exists, RunningStat, RunningRead, RunningProbe, RunningUnlink, CreateMkdir,
       ConfOpen, ConfWrite, CleanPid, CleanRest, DeleteFiles, DeleteDir, StartPrepare, StartFork,
       StartPidOpen, StartPidWrite, StartSpawn, CommandDial, UploadForm, FileOpen, FileCopy
<1> QED
  BY <1>1, DisciplinedInvariance, PTL DEF DisciplinedSpec, StopReaches

\* "stopped", and the refusal of a command, are true of the moment they go out,
\* also where process ids are reused.
THEOREM NoRunsAreDenied ==
  ASSUME "pid" \notin Faults
  PROVE  DisciplinedSpec => NoRunIsDenied
<1> DEFINE Told(h) ==
      op[h] \in {"status", "command"} /\ ~Busy(h)' /\ code'[h] \in {"stopped", "412"} =>
        LiveRuns(inst[h]) = {}
<1>1. IInv /\ DInv /\ [Next /\ Discipline]_vars => [\A h \in Handlers : Told(h)]_vars
  <2> SUFFICES ASSUME IInv, DInv, Next, NEW h \in Handlers, op[h] \in {"status", "command"},
                      code'[h] \in {"stopped", "412"}, NEW r \in LiveRuns(inst[h])
               PROVE  FALSE
    OBVIOUS
  <2>0. TypeOK /\ Fits
    BY DEF IInv
  <2>1. HandlerStep(h) /\ Busy(h) /\ code[h] = "none"
    BY AnswerIsOwnStep
  <2>2. pc[h] = "unlink" \/ (pc[h] = "stat" /\ pidFile[inst[h]] = None)
    <3> USE <2>0, <2>1 DEF TypeOK, Goto, Reply
    <3>1. CASE Exists(h) \/ UploadForm(h) \/ FileOpen(h) \/ FileCopy(h) \/ CommandDial(h)
      BY <3>1 DEF Exists, UploadForm, FileOpen, FileCopy, CommandDial
    <3>2. CASE RunningStat(h) \/ RunningRead(h)
      BY <3>2 DEF RunningStat, RunningRead, RunningReturns, Guarded
    <3>3. CASE RunningProbe(h) \/ RunningUnlink(h)
      BY <3>3 DEF RunningProbe, RunningUnlink, RunningReturns, Guarded
    <3>4. CASE CreateMkdir(h) \/ ConfOpen(h) \/ ConfWrite(h) \/ CleanPid(h) \/ CleanRest(h)
      BY <3>4 DEF CreateMkdir, ConfOpen, ConfWrite, CleanPid, CleanRest
    <3>5. CASE DeleteFiles(h) \/ DeleteDir(h) \/ StartPrepare(h) \/ StartFork(h)
      BY <3>5 DEF DeleteFiles, DeleteDir, StartPrepare, StartFork
    <3>6. CASE StartPidOpen(h) \/ StartPidWrite(h) \/ StartSpawn(h) \/ SignalRead(h) \/ SignalSend(h)
      BY <3>6 DEF StartPidOpen, StartPidWrite, StartSpawn, SignalRead, SignalSend
    <3> QED
      BY <3>1, <3>2, <3>3, <3>4, <3>5, <3>6 DEF HandlerStep
  <2>3. r \in Runs /\ InTable(r) /\ owner[r] = inst[h] /\ PidOf[r] # None
    BY RepositoryAssumption DEF LiveRuns, InTable, Procs
  <2> QED
    BY <2>1, <2>2, <2>3, RunPidTells, NobodyActsOnARun DEF Acting, Uploads
<1> QED
  BY <1>1, DisciplinedInvariance, PTL DEF DisciplinedSpec, NoRunIsDenied

\* The refinement, where nobody uploads a config.json: an upload asks nobody
\* whether the instance runs.
HasRun(i) == \E r \in Runs : owner[r] = i /\ Live(r)

Phase == [i \in Instances |->
            IF HasRun(i) THEN "running" ELSE IF folder[i] THEN "stopped" ELSE "absent"]

LEMMA PhaseIs ==
  /\ Phase = [i \in Instances |->
                IF LiveRuns(i) # {} THEN "running" ELSE IF folder[i] THEN "stopped" ELSE "absent"]
  /\ Phase' = [i \in Instances |->
                 IF LiveRuns(i) # {} THEN "running" ELSE IF folder[i] THEN "stopped" ELSE "absent"]'
<1>1. \A i : LiveRuns(i) # {} <=> HasRun(i)
  BY DEF LiveRuns, HasRun
<1>2. \A i : LiveRuns(i)' # {} <=> HasRun(i)'
  BY DEF LiveRuns, HasRun
<1> QED
  BY <1>1, <1>2 DEF Phase

NoConfUpload == \A h \in Handlers : op[h] # "uploadConf"

LEMMA ConfUploadStep ==
  ASSUME "uploadConf" \notin Ops, IInv, NoConfUpload, [Next]_vars
  PROVE  NoConfUpload'
<1> SUFFICES ASSUME NEW g \in Handlers PROVE op'[g] # "uploadConf"
  BY DEF NoConfUpload
<1>a. None # "uploadConf"
  BY RepositoryAssumption DEF AllOps
<1>1. CASE Same(g)
  BY <1>1 DEF Same, NoConfUpload
<1>2. CASE HandlerStep(g)
  BY <1>2, <1>a, FrameStep DEF OwnRequest, NoConfUpload
<1>3. ASSUME NEW h \in Handlers, Arrival(h) PROVE op'[g] # "uploadConf"
  BY <1>3 DEF Arrival, Accept, BadBody, IInv, TypeOK, NoConfUpload
<1>4. ASSUME NEW killed \in SUBSET Runs, Crash(killed) PROVE op'[g] # "uploadConf"
  BY <1>4, <1>a DEF Crash
<1>5. CASE UNCHANGED vars
  BY <1>5 DEF vars, reqVars, NoConfUpload
<1> QED
  BY <1>1, <1>2, <1>3, <1>4, <1>5, SameStep DEF Next, Arrival

\* A step that launches nothing and leaves the folders alone ends some runs, or
\* none that the lifecycle knows of.
LEMMA FinishStep ==
  ASSUME IInv, DInv, Shrinking, UNCHANGED <<folder, conf>>
  PROVE  [Abstract!Next]_(Abstract!vars)
<1>1. \A i \in Instances : HasRun(i)' => HasRun(i)
  BY DEF HasRun, Shrinking, InTable
<1>2. \A i \in Instances : HasRun(i) => folder[i]
  BY DEF HasRun, DInv, Housed, InTable
<1>3. PICK ended \in SUBSET Instances :
        \A i \in Instances : i \in ended <=> HasRun(i) /\ ~HasRun(i)'
  <2> WITNESS {i \in Instances : HasRun(i) /\ ~HasRun(i)'} \in SUBSET Instances
  <2> QED
    OBVIOUS
<1>4. Phase' = [i \in Instances |-> IF i \in ended THEN "stopped" ELSE Phase[i]]
  BY <1>1, <1>2, <1>3 DEF Phase
<1>5. \A i \in ended : Phase[i] = "running"
  BY <1>3 DEF Phase
<1>6. CASE ended = {}
  <2>1. Phase' = Phase
    BY <1>4, <1>6 DEF Phase
  <2> QED
    BY <2>1, PhaseIs DEF Abstract!vars
<1>7. CASE ended # {}
  <2>1. Abstract!Finish(ended)
    BY <1>4, <1>5, <1>7, PhaseIs DEF Abstract!Finish
  <2> QED
    BY <2>1 DEF Abstract!Next
<1> QED
  BY <1>6, <1>7

\* A launch is the abstract start.
LEMMA LaunchStep ==
  ASSUME IInv, NEW h \in Handlers, NEW r \in Runs, Launches(h, r), inst[h] \in Instances,
         NoRunOf(inst[h]), folder[inst[h]], UNCHANGED <<folder, conf>>
  PROVE  \E i \in Instances : Abstract!Start(i)
<1>0. PICK k \in Instances : k = inst[h]
  OBVIOUS
<1>1. \A q \in Runs : /\ q # r => owner'[q] = owner[q] /\ st'[q] = st[q]
                      /\ q = r => owner'[q] = inst[h] /\ st'[q] = "alive" /\ st[q] = "unborn"
  BY DEF Launches, IInv, TypeOK, Procs
<1>2. \A i \in Instances : HasRun(i)' <=> HasRun(i) \/ i = inst[h]
  BY <1>1 DEF HasRun, Live
<1>3. Phase[inst[h]] = "stopped"
  BY DEF Phase, HasRun, NoRunOf, InTable
<1>4. Phase' = [Phase EXCEPT ![inst[h]] = "running"]
  BY <1>2 DEF Phase
<1>5. Abstract!Start(k)
  BY <1>0, <1>3, <1>4, PhaseIs DEF Abstract!Start
<1> QED
  BY <1>5

\* A step that leaves the processes alone leaves the runs that live.
LEMMA RunsStay == ASSUME UNCHANGED <<st, owner>> PROVE \A i : HasRun(i)' <=> HasRun(i)
  BY DEF HasRun, Live

\* The folder of an instance without one is made for a create.
LEMMA MkdirStep ==
  ASSUME IInv, DInv, NEW h \in Handlers, CreateMkdir(h), inst[h] \in Instances
  PROVE  [Abstract!Next]_(Abstract!vars)
<1>1. UNCHANGED <<st, owner, conf>>
  BY DEF CreateMkdir, procVars
<1>2. CASE folder' = folder
  <2>1. Phase' = Phase
    BY <1>1, <1>2, RunsStay DEF Phase
  <2> QED
    BY <1>1, <2>1, PhaseIs DEF Abstract!vars
<1>3. CASE folder' # folder
  <2>1. ~folder[inst[h]] /\ folder' = [folder EXCEPT ![inst[h]] = TRUE]
    <3>1. folder \in [Instances -> BOOLEAN] /\ folder' = [folder EXCEPT ![inst[h]] = TRUE]
      BY <1>3 DEF CreateMkdir, IInv, TypeOK
    <3>2. folder[inst[h]] => folder' = folder
      BY <3>1
    <3> QED
      BY <1>3, <3>1, <3>2
  <2>2. ~HasRun(inst[h])
    BY <2>1 DEF HasRun, DInv, Housed, InTable
  <2>3. Phase[inst[h]] = "absent"
    BY <2>1, <2>2 DEF Phase
  <2>4. Phase' = [Phase EXCEPT ![inst[h]] = "stopped"]
    BY <1>1, <2>1, <2>2, RunsStay DEF Phase, IInv, TypeOK
  <2>5. PICK i \in Instances : i = inst[h]
    OBVIOUS
  <2>6. Abstract!Create(i)
    BY <1>1, <2>3, <2>4, <2>5, PhaseIs DEF Abstract!Create
  <2> QED
    BY <2>6 DEF Abstract!Next
<1> QED
  BY <1>2, <1>3

\* A create and a delete that act are alone with a stopped instance.
LEMMA ConfigureStep ==
  ASSUME IInv, DInv, NoConfUpload, NEW h \in Handlers, inst[h] \in Instances,
         ConfOpen(h) \/ ConfWrite(h) \/ DeleteFiles(h)
  PROVE  [Abstract!Next]_(Abstract!vars)
<1>1. UNCHANGED <<st, owner, folder>> /\ pc[h] \in Acting
  BY DEF ConfOpen, ConfWrite, DeleteFiles, procVars, Acting
<1>2. NoRunOf(inst[h])
  BY <1>1 DEF DInv, Checked, NoConfUpload
<1>3. Phase' = Phase
  BY <1>1, RunsStay DEF Phase
<1>4. CASE conf' = conf
  BY <1>3, <1>4, PhaseIs DEF Abstract!vars
<1>5. CASE conf' # conf
  <2>1. PICK c \in Configs : conf' = [conf EXCEPT ![inst[h]] = c]
    <3>1. \A o \in AllOps : Written(o, conf[inst[h]]) \subseteq Configs
      BY DEF Written, Configs, IInv, TypeOK
    <3>2. pc[h] # "idle" => op[h] \in AllOps
      BY DEF IInv, Fits, Busy
    <3> QED
      BY <1>5, <3>1, <3>2 DEF ConfOpen, ConfWrite, DeleteFiles, Configs
  <2>2. folder[inst[h]]
    <3>1. CASE ConfOpen(h)
      BY <1>5, <3>1 DEF ConfOpen
    <3>2. CASE ConfWrite(h)
      BY <1>5, <3>2 DEF ConfWrite, DInv, Housed
    <3>3. CASE DeleteFiles(h)
      BY <1>5, <3>3 DEF DeleteFiles, DInv, Housed, IInv, TypeOK
    <3> QED
      BY <3>1, <3>2, <3>3
  <2>3. Phase[inst[h]] = "stopped"
    BY <1>2, <2>2 DEF Phase, HasRun, NoRunOf, InTable
  <2>4. Abstract!Configure(inst[h])
    BY <1>3, <2>1, <2>3, PhaseIs DEF Abstract!Configure
  <2> QED
    BY <2>4 DEF Abstract!Next
<1> QED
  BY <1>4, <1>5

\* A folder goes away when nothing is left in it.
LEMMA RmdirStep ==
  ASSUME IInv, DInv, NEW h \in Handlers, DeleteDir(h), inst[h] \in Instances
  PROVE  [Abstract!Next]_(Abstract!vars)
<1>1. UNCHANGED <<st, owner, conf>> /\ pc[h] = "rmDir"
  BY DEF DeleteDir, procVars
<1>2. NoRunOf(inst[h])
  BY <1>1, RepositoryAssumption DEF DInv, Checked, Acting, IInv, Fits
<1>3. CASE folder' = folder
  <2>1. Phase' = Phase
    BY <1>1, <1>3, RunsStay DEF Phase
  <2> QED
    BY <1>1, <2>1, PhaseIs DEF Abstract!vars
<1>4. CASE folder' # folder
  <2>1. /\ folder[inst[h]] /\ folder' = [folder EXCEPT ![inst[h]] = FALSE]
        /\ conf[inst[h]] = "none"
    <3>1. /\ folder \in [Instances -> BOOLEAN] /\ folder' = [folder EXCEPT ![inst[h]] = FALSE]
          /\ conf[inst[h]] = "none"
      BY <1>4 DEF DeleteDir, EmptyFolder, IInv, TypeOK
    <3>2. ~folder[inst[h]] => folder' = folder
      BY <3>1
    <3> QED
      BY <1>4, <3>1, <3>2
  <2>2. ~HasRun(inst[h])
    BY <1>2 DEF HasRun, NoRunOf, InTable
  <2>3. Phase[inst[h]] = "stopped"
    BY <2>1, <2>2 DEF Phase
  <2>4. Phase' = [Phase EXCEPT ![inst[h]] = "absent"]
    BY <1>1, <2>1, <2>2, RunsStay DEF Phase, IInv, TypeOK
  <2>5. PICK i \in Instances : i = inst[h]
    OBVIOUS
  <2>6. Abstract!Delete(i)
    BY <1>1, <2>1, <2>3, <2>4, <2>5, PhaseIs DEF Abstract!Delete
  <2> QED
    BY <2>6 DEF Abstract!Next
<1> QED
  BY <1>3, <1>4

\* Every step is one of the lifecycle, or none it knows of.
LEMMA LifecycleStep ==
  ASSUME IInv, DInv, NoConfUpload, [Next /\ Discipline]_vars
  PROVE  [Abstract!Next]_(Abstract!vars)
<1>1. ASSUME NEW h \in Handlers, HandlerStep(h), ~StartFork(h) PROVE [Abstract!Next]_(Abstract!vars)
  <2>1. inst[h] \in Instances /\ Shrinking /\ Kept(h)
    BY <1>1, FrameStep, KeptStep, ShrinkStep
  <2>2. CASE CreateMkdir(h) \/ ConfOpen(h) \/ ConfWrite(h) \/ DeleteFiles(h) \/ DeleteDir(h)
    BY <2>1, <2>2, MkdirStep, ConfigureStep, RmdirStep
  <2>3. CASE pc[h] \notin {"mkdir", "rmDir", "confOpen", "confWrite", "rmFiles"}
    BY <2>1, <2>3, FinishStep DEF Kept
  <2>4. pc[h] \in {"mkdir", "rmDir", "confOpen", "confWrite", "rmFiles"} =>
          CreateMkdir(h) \/ ConfOpen(h) \/ ConfWrite(h) \/ DeleteFiles(h) \/ DeleteDir(h)
    BY <1>1 DEF HandlerStep, Exists, RunningStat, RunningRead, RunningProbe, RunningUnlink,
       CleanPid, CleanRest, StartPrepare, StartPidOpen, StartPidWrite, StartSpawn, SignalRead,
       SignalSend, CommandDial, UploadForm, FileOpen, FileCopy
  <2> QED
    BY <2>2, <2>3, <2>4
<1>2. ASSUME NEW h \in Handlers, StartFork(h), Discipline PROVE [Abstract!Next]_(Abstract!vars)
  <2>1. /\ NoRunOf(inst[h]) /\ folder[inst[h]] /\ UNCHANGED <<folder, conf>>
        /\ Shrinking \/ \E r \in Runs : Launches(h, r)
    BY <1>2, ForkFacts DEF dirVars
  <2>2. inst[h] \in Instances
    BY <1>2, FrameStep DEF HandlerStep
  <2>3. CASE Shrinking
    BY <2>1, <2>3, FinishStep
  <2>4. ASSUME NEW r \in Runs, Launches(h, r) PROVE [Abstract!Next]_(Abstract!vars)
    BY <2>1, <2>2, <2>4, LaunchStep DEF Abstract!Next
  <2> QED
    BY <2>1, <2>3, <2>4
<1>3. CASE \/ \E h \in Handlers : Arrival(h)
           \/ \E r \in Runs : WaiterReap(r) \/ WaiterRemove(r) \/ RunEnds(r)
           \/ \E p \in Foreign : ForeignStarts(p) \/ ForeignEnds(p)
           \/ \E killed \in SUBSET Runs : Crash(killed)
  <2>1. UNCHANGED <<folder, conf>>
    BY <1>3 DEF Arrival, Accept, BadBody, WaiterReap, WaiterRemove, RunEnds, ForeignStarts,
       ForeignEnds, Crash, dirVars
  <2> QED
    BY <1>3, <2>1, ShrinkStep, FinishStep
<1>4. CASE UNCHANGED vars
  <2>1. Shrinking /\ UNCHANGED <<folder, conf>>
    BY <1>4 DEF vars, dirVars, procVars, Shrinking, InTable, Live
  <2> QED
    BY <2>1, FinishStep
<1> QED
  BY <1>1, <1>2, <1>3, <1>4 DEF Next, Arrival

\* The repository implements the lifecycle that its interface promises.
THEOREM LifecycleIsImplemented ==
  ASSUME "pid" \notin Faults, "uploadConf" \notin Ops
  PROVE  DisciplinedSpec => ImplementsLifecycle
<1>1. Init => NoConfUpload /\ Abstract!Init
  <2>1. ASSUME Init PROVE NoConfUpload
    BY <2>1, RepositoryAssumption DEF Init, NoConfUpload, AllOps
  <2>2. ASSUME Init PROVE Abstract!Init
    <3>1. \A i : ~HasRun(i)
      BY <2>2 DEF Init, HasRun, Live, Procs
    <3>2. Phase = [i \in Instances |-> "absent"]
      BY <2>2, <3>1 DEF Init, Phase
    <3> QED
      BY <2>2, <3>2, PhaseIs DEF Init, Abstract!Init
  <2> QED
    BY <2>1, <2>2
<1>2. IInv /\ NoConfUpload /\ [Next /\ Discipline]_vars => NoConfUpload'
  BY ConfUploadStep
<1>3. IInv /\ DInv /\ NoConfUpload /\ [Next /\ Discipline]_vars => [Abstract!Next]_(Abstract!vars)
  BY LifecycleStep
<1> QED
  BY <1>1, <1>2, <1>3, DisciplinedInvariance, PTL DEF DisciplinedSpec, ImplementsLifecycle, Abstract!Spec

\* Where nobody uploads a config.json, the configuration of a running instance
\* stays: the lifecycle changes that of a stopped one only.
THEOREM ConfigurationsAreKept ==
  ASSUME "pid" \notin Faults, "uploadConf" \notin Ops
  PROVE  DisciplinedSpec => ConfigurationIsKept
<1>1. Init => NoConfUpload
  BY RepositoryAssumption DEF Init, NoConfUpload, AllOps
<1>2. IInv /\ NoConfUpload /\ [Next /\ Discipline]_vars => NoConfUpload'
  BY ConfUploadStep
<1>3. IInv /\ DInv /\ NoConfUpload /\ [Next /\ Discipline]_vars =>
        [\A i \in Instances : LiveRuns(i) # {} => conf'[i] = conf[i]]_vars
  <2> SUFFICES ASSUME IInv, DInv, NoConfUpload, Next, Discipline,
                      NEW i \in Instances, LiveRuns(i) # {}
               PROVE  conf'[i] = conf[i]
    OBVIOUS
  <2>1. Phase[i] = "running"
    BY DEF Phase, HasRun, LiveRuns
  <2>2. [Abstract!Next]_(Abstract!vars)
    BY LifecycleStep
  <2>3. ASSUME NEW k \in Instances, Abstract!Configure(k) PROVE conf'[i] = conf[i]
    BY <2>1, <2>3, PhaseIs DEF Abstract!Configure, IInv, TypeOK
  <2> QED
    BY <2>2, <2>3 DEF Abstract!Next, Abstract!vars, Abstract!Create, Abstract!Start, Abstract!Delete,
       Abstract!Finish
<1> QED
  BY <1>1, <1>2, <1>3, DisciplinedInvariance, PTL DEF DisciplinedSpec, ConfigurationIsKept
=============================================================================
