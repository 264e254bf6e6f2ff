-------------------------- MODULE RepositoryProofs --------------------------
(***************************************************************************)
(* What holds of Repository for any number of instances, handlers, runs    *)
(* and crashes, with any reuse of process ids and any faults: of any       *)
(* clients, and further below of clients whose starts do not write one     *)
(* run.pid at the same time.                                               *)
(***************************************************************************)
EXTENDS Repository, TLAPS

\* The initial state satisfies the inductive invariant.
LEMMA InitIInv == Init => IInv
<1> SUFFICES ASSUME Init PROVE IInv
  OBVIOUS
<1> USE RepositoryAssumption DEF Init
<1>1. TypeOK
  BY DEF TypeOK, Configs, Labels, Codes, AllOps, Procs
<1>2. Fits /\ Unanswered /\ InFlight
  BY DEF Fits, Unanswered, InFlight, Busy, Launching
<1>3. Waiting
  BY DEF Waiting, Procs
<1>4. Holds
  BY DEF Holds
<1>5. ChildHasWaiter
  BY DEF ChildHasWaiter, InTable, Live, Procs
<1>6. EmptyConfigIsFilled
  BY DEF EmptyConfigIsFilled
<1> QED
  BY <1>1, <1>2, <1>3, <1>4, <1>5, <1>6 DEF IInv

\* Every step keeps the types.
LEMMA TypeStep == IInv /\ [Next]_vars => TypeOK'
<1> SUFFICES ASSUME TypeOK, Fits, InFlight, [Next]_vars PROVE TypeOK'
  BY DEF IInv
<1> USE RepositoryAssumption DEF TypeOK, Configs, Labels, Codes
<1>1. CASE UNCHANGED vars
  BY <1>1 DEF vars, dirVars, procVars, reqVars
<1>2. ASSUME NEW h \in Handlers, NEW o \in Ops, NEW i \in Instances, Accept(h, o, i)
      PROVE TypeOK'
  BY <1>2 DEF Accept, FirstLabel, AllOps, dirVars, procVars
<1>3. ASSUME NEW h \in Handlers, NEW o \in Ops, BadBody(h, o)
      PROVE TypeOK'
  BY <1>3 DEF BadBody, dirVars, procVars
<1>4. ASSUME NEW h \in Handlers, HandlerStep(h)
      PROVE TypeOK'
  <2> USE <1>4 DEF Goto, Reply, dirVars, procVars
  <2>1. Busy(h) => inst[h] \in Instances /\ op[h] \in AllOps
    BY DEF Fits
  <2>2. CASE Exists(h)
    BY <2>1, <2>2 DEF Exists, Uploads, Busy, Fits, AllOps
  <2>3. CASE RunningStat(h)
    BY <2>1, <2>3 DEF RunningStat, RunningReturns, FirstStep, Guarded, Uploads, Busy, Fits, AllOps
  <2>4. CASE RunningRead(h)
    BY <2>1, <2>4 DEF RunningRead, PidIn, Busy, Fits, AllOps
  <2>5. CASE RunningProbe(h)
    BY <2>1, <2>5 DEF RunningProbe, RunningReturns, FirstStep, Guarded, Uploads, Busy, Fits, AllOps
  <2>6. CASE RunningUnlink(h)
    <3>1. /\ pidFile' \in [Instances -> Pids \cup {None, Blank}]
          /\ linked' \in SUBSET Handlers
      BY <2>6 DEF RunningUnlink, TryRemovePidFile, RemovePidFile
    <3>2. /\ pc' \in [Handlers -> Labels]
          /\ op' \in [Handlers -> AllOps \cup {None}]
          /\ inst' \in [Handlers -> Instances \cup {None}]
          /\ code' \in [Handlers -> Codes]
      BY <2>1, <2>6 DEF RunningUnlink, RunningReturns, FirstStep, Guarded, Uploads, Busy, Fits, AllOps
    <3> QED
      BY <2>6, <3>1, <3>2 DEF RunningUnlink
  <2>7. CASE CreateMkdir(h)
    <3>1. folder' \in [Instances -> BOOLEAN]
      <4>1. CASE folder' = [folder EXCEPT ![inst[h]] = TRUE]
        BY <4>1
      <4>2. CASE UNCHANGED folder
        BY <4>2
      <4> QED
        BY <2>7, <4>1, <4>2 DEF CreateMkdir
    <3>2. /\ pc' \in [Handlers -> Labels]
          /\ op' \in [Handlers -> AllOps \cup {None}]
          /\ inst' \in [Handlers -> Instances \cup {None}]
          /\ code' \in [Handlers -> Codes]
      BY <2>7 DEF CreateMkdir
    <3> QED
      BY <2>7, <3>1, <3>2 DEF CreateMkdir
  <2>8. CASE ConfOpen(h)
    BY <2>1, <2>8 DEF ConfOpen, Busy, Fits, AllOps
  <2>9. CASE ConfWrite(h)
    BY <2>1, <2>9 DEF ConfWrite, Written, Busy, Fits, AllOps
  <2>10. CASE CleanPid(h)
    BY <2>1, <2>10 DEF CleanPid, RemovePidFile, Busy, Fits, AllOps
  <2>11. CASE CleanRest(h)
    BY <2>1, <2>11 DEF CleanRest, Busy, Fits, AllOps
  <2>12. CASE DeleteFiles(h)
    BY <2>1, <2>12 DEF DeleteFiles, Busy, Fits, AllOps
  <2>13. CASE DeleteDir(h)
    <3>1. inst[h] \in Instances
      BY <2>1, <2>13 DEF DeleteDir, Busy
    <3>2. folder' \in [Instances -> BOOLEAN]
      BY <2>13, <3>1 DEF DeleteDir
    <3> QED
      BY <2>13, <3>2 DEF DeleteDir
  <2>14. CASE StartPrepare(h)
    BY <2>1, <2>14 DEF StartPrepare, Busy, Fits, AllOps
  <2>15. CASE StartFork(h)
    BY <2>1, <2>15 DEF StartFork, Launchable, Busy, Fits, AllOps
  <2>16. CASE StartPidOpen(h)
    BY <2>1, <2>16 DEF StartPidOpen, Busy, Fits, AllOps
  <2>17. CASE StartPidWrite(h)
    BY <2>1, <2>17 DEF StartPidWrite, InFlight, Launching, Procs, AllOps
  <2>18. CASE StartSpawn(h)
    BY <2>1, <2>18 DEF StartSpawn, Busy, Fits, AllOps
  <2>19. CASE SignalRead(h)
    BY <2>1, <2>19 DEF SignalRead, PidIn, Busy, Fits, AllOps
  <2>20. CASE SignalSend(h)
    BY <2>1, <2>20 DEF SignalSend, Ended, Busy, Fits, AllOps
  <2>21. CASE CommandDial(h)
    BY <2>1, <2>21 DEF CommandDial, Busy, Fits, AllOps
  <2>22. CASE UploadForm(h)
    BY <2>1, <2>22 DEF UploadForm, Busy, Fits, AllOps
  <2>23. CASE FileOpen(h)
    <3>1. extra' \in [Instances -> BOOLEAN]
      <4>1. CASE extra' = [extra EXCEPT ![inst[h]] = TRUE]
        BY <4>1
      <4>2. CASE UNCHANGED extra
        BY <4>2
      <4> QED
        BY <2>23, <4>1, <4>2 DEF FileOpen
    <3>2. /\ pc' \in [Handlers -> Labels]
          /\ op' \in [Handlers -> AllOps \cup {None}]
          /\ inst' \in [Handlers -> Instances \cup {None}]
          /\ code' \in [Handlers -> Codes]
      BY <2>23 DEF FileOpen
    <3> QED
      BY <2>23, <3>1, <3>2 DEF FileOpen
  <2>24. CASE FileCopy(h)
    BY <2>1, <2>24 DEF FileCopy, Busy, Fits, AllOps
  <2> QED
    BY <2>2, <2>3, <2>4, <2>5, <2>6, <2>7, <2>8, <2>9, <2>10, <2>11, <2>12, <2>13, <2>14, <2>15, <2>16,
       <2>17, <2>18, <2>19, <2>20, <2>21, <2>22, <2>23, <2>24 DEF HandlerStep
<1>5. ASSUME NEW r \in Runs, WaiterReap(r) \/ WaiterRemove(r) \/ RunEnds(r)
      PROVE TypeOK'
  BY <1>5 DEF WaiterReap, WaiterRemove, RunEnds, TryRemovePidFile, RemovePidFile, Ended, Procs,
              dirVars, procVars, reqVars
<1>6. ASSUME NEW p \in Foreign, ForeignStarts(p) \/ ForeignEnds(p)
      PROVE TypeOK'
  BY <1>6 DEF ForeignStarts, ForeignEnds, Procs, dirVars, procVars, reqVars
<1>7. ASSUME NEW killed \in SUBSET Runs, Crash(killed)
      PROVE TypeOK'
  BY <1>7 DEF Crash
<1> QED
  BY <1>1, <1>2, <1>3, <1>4, <1>5, <1>6, <1>7 DEF Next

\* Every step keeps what a handler serves in line with where it stands.
LEMMA FitsStep == IInv /\ TypeOK' /\ [Next]_vars => Fits'
<1> SUFFICES ASSUME TypeOK, Fits, TypeOK', [Next]_vars PROVE Fits'
  BY DEF IInv
<1> USE RepositoryAssumption DEF TypeOK, Fits, Uploads, Busy, Launching
<1>1. CASE UNCHANGED vars
  BY <1>1 DEF vars, reqVars
<1>2. ASSUME NEW h \in Handlers, NEW o \in Ops, NEW i \in Instances, Accept(h, o, i)
      PROVE Fits'
  BY <1>2 DEF Accept, FirstLabel, AllOps
<1>3. ASSUME NEW h \in Handlers, NEW o \in Ops, BadBody(h, o)
      PROVE Fits'
  BY <1>3 DEF BadBody
<1>4. ASSUME NEW h \in Handlers, HandlerStep(h)
      PROVE Fits'
  <2> USE <1>4 DEF Goto, Reply
  <2>1. CASE Exists(h)
    BY <2>1 DEF Exists, AllOps
  <2>2. CASE RunningStat(h)
    BY <2>2 DEF RunningStat, RunningReturns, FirstStep, Guarded, AllOps
  <2>3. CASE RunningRead(h)
    BY <2>3 DEF RunningRead, AllOps
  <2>4. CASE RunningProbe(h)
    BY <2>4 DEF RunningProbe, RunningReturns, FirstStep, Guarded, AllOps
  <2>5. CASE RunningUnlink(h)
    BY <2>5 DEF RunningUnlink, RunningReturns, FirstStep, Guarded, AllOps
  <2>6. CASE CreateMkdir(h)
    <3>1. /\ pc[h] = "mkdir" /\ op[h] = "create" /\ inst[h] \in Instances
          /\ \/ pc' = [pc EXCEPT ![h] = "confOpen"] /\ UNCHANGED <<op, inst>>
             \/ /\ pc' = [pc EXCEPT ![h] = "idle"] /\ op' = [op EXCEPT ![h] = None]
                /\ inst' = [inst EXCEPT ![h] = None]
      BY <2>6 DEF CreateMkdir
    <3> QED
      BY <3>1 DEF AllOps
  <2>7. CASE ConfOpen(h)
    BY <2>7 DEF ConfOpen, AllOps
  <2>8. CASE ConfWrite(h)
    BY <2>8 DEF ConfWrite, AllOps
  <2>9. CASE CleanPid(h)
    BY <2>9 DEF CleanPid, AllOps
  <2>10. CASE CleanRest(h)
    BY <2>10 DEF CleanRest, AllOps
  <2>11. CASE DeleteFiles(h)
    BY <2>11 DEF DeleteFiles, AllOps
  <2>12. CASE DeleteDir(h)
    BY <2>12 DEF DeleteDir, AllOps
  <2>13. CASE StartPrepare(h)
    BY <2>13 DEF StartPrepare, AllOps
  <2>14. CASE StartFork(h)
    BY <2>14 DEF StartFork, AllOps
  <2>15. CASE StartPidOpen(h)
    BY <2>15 DEF StartPidOpen, AllOps
  <2>16. CASE StartPidWrite(h)
    BY <2>16 DEF StartPidWrite, AllOps
  <2>17. CASE StartSpawn(h)
    BY <2>17 DEF StartSpawn, AllOps
  <2>18. CASE SignalRead(h)
    BY <2>18 DEF SignalRead, AllOps
  <2>19. CASE SignalSend(h)
    BY <2>19 DEF SignalSend, AllOps
  <2>20. CASE CommandDial(h)
    BY <2>20 DEF CommandDial, AllOps
  <2>21. CASE UploadForm(h)
    BY <2>21 DEF UploadForm, AllOps
  <2>22. CASE FileOpen(h)
    BY <2>22 DEF FileOpen, AllOps
  <2>23. CASE FileCopy(h)
    BY <2>23 DEF FileCopy, AllOps
  <2> QED
    BY <2>1, <2>2, <2>3, <2>4, <2>5, <2>6, <2>7, <2>8, <2>9, <2>10, <2>11, <2>12, <2>13, <2>14, <2>15, <2>16,
       <2>17, <2>18, <2>19, <2>20, <2>21, <2>22, <2>23 DEF HandlerStep
<1>5. ASSUME NEW r \in Runs, WaiterReap(r) \/ WaiterRemove(r) \/ RunEnds(r)
      PROVE Fits'
  BY <1>5 DEF WaiterReap, WaiterRemove, RunEnds, reqVars
<1>6. ASSUME NEW p \in Foreign, ForeignStarts(p) \/ ForeignEnds(p)
      PROVE Fits'
  BY <1>6 DEF ForeignStarts, ForeignEnds, reqVars
<1>7. ASSUME NEW killed \in SUBSET Runs, Crash(killed)
      PROVE Fits'
  BY <1>7 DEF Crash
<1> QED
  BY <1>1, <1>2, <1>3, <1>4, <1>5, <1>6, <1>7 DEF Next

\* Running goes from one call to the next, and its callers answer or begin their work.
LEMMA RunningLeads ==
  ASSUME TypeOK, Fits, NEW h \in Handlers,
         RunningStat(h) \/ RunningRead(h) \/ RunningProbe(h) \/ RunningUnlink(h)
  PROVE  /\ pc[h] \in {"stat", "read", "probe", "unlink"}
         /\ pc' = [pc EXCEPT ![h] = pc'[h]]
         /\ \/ pc'[h] \in {"idle", "dial", "mkdir", "rmFiles", "cleanPid"}
            \/ pc[h] = "stat" /\ pc'[h] = "read"
            \/ pc[h] = "read" /\ pc'[h] \in {"probe", "unlink"}
            \/ pc[h] = "probe" /\ pc'[h] = "unlink"
         /\ pc'[h] # "idle" => code'[h] = code[h] /\ op'[h] = op[h]
         /\ \A g \in Handlers \ {h} : code'[g] = code[g] /\ op'[g] = op[g]
<1>1. op[h] \in {"create", "delete", "start", "status", "command"}
  BY RepositoryAssumption DEF Fits, Busy, AllOps, Uploads, RunningStat, RunningRead, RunningProbe,
     RunningUnlink
<1> USE <1>1 DEF Goto, Reply, TypeOK, RunningReturns, FirstStep
<1>2. CASE RunningStat(h)
  BY <1>2 DEF RunningStat
<1>3. CASE RunningRead(h)
  BY <1>3 DEF RunningRead
<1>4. CASE RunningProbe(h)
  BY <1>4 DEF RunningProbe
<1>5. CASE RunningUnlink(h)
  BY <1>5 DEF RunningUnlink
<1> QED
  BY <1>2, <1>3, <1>4, <1>5

\* No step but the last gives an answer.
LEMMA UnansweredStep == IInv /\ TypeOK' /\ [Next]_vars => Unanswered'
<1> SUFFICES ASSUME TypeOK, Fits, Unanswered, TypeOK', [Next]_vars PROVE Unanswered'
  BY DEF IInv
<1> USE DEF TypeOK, Unanswered, Busy
<1>1. CASE UNCHANGED vars
  BY <1>1 DEF vars, reqVars
<1>2. ASSUME NEW h \in Handlers, NEW o \in Ops, NEW i \in Instances, Accept(h, o, i)
      PROVE Unanswered'
  BY <1>2, RepositoryAssumption DEF Accept, FirstLabel, AllOps
<1>3. ASSUME NEW h \in Handlers, NEW o \in Ops, BadBody(h, o)
      PROVE Unanswered'
  BY <1>3 DEF BadBody
<1>4. ASSUME NEW h \in Handlers, HandlerStep(h)
      PROVE Unanswered'
  <2> USE DEF Goto, Reply, Fits
  <2>1. CASE Exists(h)
    BY <2>1 DEF Exists, Uploads
  <2>2. CASE RunningStat(h) \/ RunningRead(h) \/ RunningProbe(h) \/ RunningUnlink(h)
    <3>1. \A g \in Handlers \ {h} : code'[g] = code[g] /\ op'[g] = op[g] /\ pc'[g] = pc[g]
      BY <2>2, RunningLeads
    <3>2. pc'[h] # "idle" => code'[h] = code[h] /\ op'[h] = op[h]
      BY <2>2, RunningLeads
    <3>3. pc[h] \in {"stat", "read", "probe", "unlink"} /\ pc'[h] # "exists"
      BY <2>2, RunningLeads
    <3> QED
      BY <3>1, <3>2, <3>3
  <2>3. CASE CreateMkdir(h)
    BY <2>3 DEF CreateMkdir
  <2>4. CASE ConfOpen(h) \/ ConfWrite(h)
    BY <2>4 DEF ConfOpen, ConfWrite
  <2>5. CASE CleanPid(h) \/ CleanRest(h)
    BY <2>5 DEF CleanPid, CleanRest
  <2>6. CASE DeleteFiles(h) \/ DeleteDir(h)
    BY <2>6 DEF DeleteFiles, DeleteDir
  <2>7. CASE StartPrepare(h) \/ StartFork(h)
    BY <2>7 DEF StartPrepare, StartFork
  <2>8. CASE StartPidOpen(h) \/ StartPidWrite(h) \/ StartSpawn(h)
    BY <2>8 DEF StartPidOpen, StartPidWrite, StartSpawn
  <2>9. CASE SignalRead(h) \/ SignalSend(h) \/ CommandDial(h)
    BY <2>9 DEF SignalRead, SignalSend, CommandDial
  <2>10. CASE UploadForm(h) \/ FileOpen(h) \/ FileCopy(h)
    BY <2>10 DEF UploadForm, FileOpen, FileCopy
  <2> QED
    BY <1>4, <2>1, <2>2, <2>3, <2>4, <2>5, <2>6, <2>7, <2>8, <2>9, <2>10 DEF HandlerStep
<1>5. ASSUME NEW r \in Runs, WaiterReap(r) \/ WaiterRemove(r) \/ RunEnds(r)
      PROVE Unanswered'
  BY <1>5 DEF WaiterReap, WaiterRemove, RunEnds, reqVars
<1>6. ASSUME NEW p \in Foreign, ForeignStarts(p) \/ ForeignEnds(p)
      PROVE Unanswered'
  BY <1>6 DEF ForeignStarts, ForeignEnds, reqVars
<1>7. ASSUME NEW killed \in SUBSET Runs, Crash(killed)
      PROVE Unanswered'
  BY <1>7 DEF Crash
<1> QED
  BY <1>1, <1>2, <1>3, <1>4, <1>5, <1>6, <1>7 DEF Next

\* A step that leaves the processes, their waiters and the launches alone, and
\* puts no process id into a run.pid, keeps the rest of the invariant.
QuietAction ==
  /\ UNCHANGED <<st, owner, orphans, waiter, mine>>
  /\ \A g \in Handlers :
       /\ pc[g] \in Launching => inst'[g] = inst[g]
       /\ pc[g] = "spawn" => pc'[g] = "spawn"
       /\ pc'[g] \in Launching <=> pc[g] \in Launching
  /\ \A i \in Instances : pidFile'[i] = pidFile[i] \/ pidFile'[i] \notin Pids

\* What the first invariant says of launches and waiters, and, where run.pid is
\* written by one start at a time, what the second says of the ids in it.
Linked == Holds /\ InFlight /\ Waiting /\ ChildHasWaiter
Named  == SeenIsOwn /\ WatchedPidFile

LEMMA QuietStep ==
  IInv /\ QuietAction => InFlight' /\ Waiting' /\ ChildHasWaiter' /\ (WatchedPidFile => WatchedPidFile')
<1> SUFFICES ASSUME IInv, QuietAction
             PROVE  InFlight' /\ Waiting' /\ ChildHasWaiter' /\ (WatchedPidFile => WatchedPidFile')
  OBVIOUS
<1> USE DEF IInv, QuietAction
<1>1. InFlight'
  BY DEF InFlight, InTable, Live
<1>2. Waiting'
  BY DEF Waiting
<1>3. ASSUME WatchedPidFile PROVE WatchedPidFile'
  <2> SUFFICES ASSUME NEW i \in Instances, pidFile'[i] \in Pids
               PROVE  \E r \in Runs : PidOf[r] = pidFile'[i] /\ owner'[r] = i /\ Watched(r)'
    BY DEF WatchedPidFile
  <2>1. PICK r \in Runs : PidOf[r] = pidFile[i] /\ owner[r] = i /\ Watched(r)
    BY <1>3 DEF WatchedPidFile
  <2>2. Watched(r)'
    BY <2>1 DEF Watched
  <2> QED
    BY <2>1, <2>2
<1>4. ChildHasWaiter'
  BY DEF ChildHasWaiter, InTable, Live
<1> QED
  BY <1>1, <1>2, <1>3, <1>4

\* What a handler has read stays the id of a run of its instance as long as it
\* is the id that run.pid held, and no run changes its instance.
SeenAction ==
  /\ \A r \in Runs : owner[r] \in Instances => owner'[r] = owner[r]
  /\ \A g \in Handlers :
       \/ seen'[g] = None
       \/ seen'[g] = seen[g] /\ inst'[g] = inst[g] /\ (pc'[g] = pc[g] \/ pc'[g] \in Holding)
       \/ /\ inst[g] \in Instances /\ inst'[g] = inst[g]
          /\ seen'[g] \in Pids /\ seen'[g] = pidFile[inst[g]]
          /\ pc'[g] \in Holding

LEMMA SeenStep == IInv /\ SeenAction => Holds' /\ (Named => SeenIsOwn')
<1> SUFFICES ASSUME IInv, SeenAction PROVE Holds' /\ (Named => SeenIsOwn')
  OBVIOUS
<1>1. Holds'
  BY DEF IInv, Holds, SeenAction
<1>2. ASSUME Named, NEW g \in Handlers, seen'[g] # None
      PROVE  \E r \in Runs : PidOf[r] = seen'[g] /\ owner'[r] = inst'[g]
  <2>1. CASE seen'[g] = seen[g] /\ inst'[g] = inst[g] /\ (pc'[g] = pc[g] \/ pc'[g] \in Holding)
    <3>1. inst[g] \in Instances
      BY <1>2, <2>1 DEF IInv, Holds, Holding, Fits, Busy
    <3> QED
      BY <1>2, <2>1, <3>1 DEF Named, SeenIsOwn, SeenAction
  <2>2. CASE /\ inst[g] \in Instances /\ inst'[g] = inst[g]
             /\ seen'[g] \in Pids /\ seen'[g] = pidFile[inst[g]]
    BY <1>2, <2>2 DEF Named, WatchedPidFile, SeenAction
  <2> QED
    BY <1>2, <2>1, <2>2 DEF SeenAction
<1> QED
  BY <1>1, <1>2 DEF SeenIsOwn

\* What a handler does to its own state and to the run.pid of its instance in
\* the steps that only touch files.
OwnAction(h) ==
  /\ UNCHANGED <<st, owner, orphans, waiter, mine>>
  /\ \A g \in Handlers \ {h} : pc'[g] = pc[g] /\ inst'[g] = inst[g] /\ seen'[g] = seen[g]
  /\ pc[h] \in Launching => pc[h] = "pidOpen" /\ pc'[h] \in Launching /\ inst'[h] = inst[h]
  /\ pc[h] \notin Launching => pc'[h] \notin Launching
  /\ \/ seen'[h] = None
     \/ /\ inst'[h] = inst[h] /\ pc'[h] \in Holding
        /\ \/ seen'[h] = seen[h]
           \/ seen'[h] \in Pids /\ seen'[h] = pidFile[inst[h]]
  /\ \A i \in Instances : pidFile'[i] = pidFile[i] \/ pidFile'[i] \notin Pids

LEMMA OwnStep ==
  ASSUME IInv, NEW h \in Handlers, HandlerStep(h),
         ~StartFork(h), ~StartPidWrite(h), ~StartSpawn(h), ~SignalSend(h)
  PROVE  OwnAction(h) /\ inst[h] \in Instances
<1>0. TypeOK /\ Fits /\ Holds
  BY DEF IInv
<1>a. inst[h] \in Instances /\ op[h] \in AllOps
  BY <1>0 DEF HandlerStep, Fits, Busy, Exists, RunningStat, RunningRead, RunningProbe, RunningUnlink, CreateMkdir, ConfOpen, ConfWrite, CleanPid, CleanRest, DeleteFiles, DeleteDir, StartPrepare, StartPidOpen, SignalRead, CommandDial, UploadForm, FileOpen, FileCopy
<1>b. pc[h] \notin Holding => seen[h] = None
  BY <1>0 DEF Holds
<1> USE <1>0, <1>a, <1>b, RepositoryAssumption
    DEF TypeOK, OwnAction, Goto, Reply, Launching, Holding, dirVars, procVars
<1>1. CASE Exists(h)
  BY <1>1 DEF Exists, Uploads, Fits, AllOps
<1>2. CASE RunningStat(h)
  BY <1>2 DEF RunningStat, RunningReturns, FirstStep, Guarded, Uploads, Fits, AllOps
<1>3. CASE RunningRead(h)
  BY <1>3 DEF RunningRead, PidIn, Fits, AllOps
<1>4. CASE RunningProbe(h)
  BY <1>4 DEF RunningProbe, RunningReturns, FirstStep, Guarded, Uploads, Fits, AllOps
<1>5. CASE RunningUnlink(h)
  BY <1>5 DEF RunningUnlink, RunningReturns, FirstStep, Guarded, Uploads, TryRemovePidFile, RemovePidFile, Fits, AllOps
<1>6. CASE CreateMkdir(h)
  BY <1>6 DEF CreateMkdir, Fits, AllOps
<1>7. CASE ConfOpen(h)
  BY <1>7 DEF ConfOpen, Fits, AllOps
<1>8. CASE ConfWrite(h)
  BY <1>8 DEF ConfWrite, Fits, AllOps
<1>9. CASE CleanPid(h)
  BY <1>9 DEF CleanPid, RemovePidFile, Fits, AllOps
<1>10. CASE CleanRest(h)
  BY <1>10 DEF CleanRest, Fits, AllOps
<1>11. CASE DeleteFiles(h)
  BY <1>11 DEF DeleteFiles, Fits, AllOps
<1>12. CASE DeleteDir(h)
  BY <1>12 DEF DeleteDir, Fits, AllOps
<1>13. CASE StartPrepare(h)
  BY <1>13 DEF StartPrepare, Fits, AllOps
<1>14. CASE StartPidOpen(h)
  BY <1>14 DEF StartPidOpen, Fits, AllOps
<1>15. CASE SignalRead(h)
  BY <1>15 DEF SignalRead, PidIn, Fits, AllOps
<1>16. CASE CommandDial(h)
  BY <1>16 DEF CommandDial
<1>17. CASE UploadForm(h)
  BY <1>17 DEF UploadForm
<1>18. CASE FileOpen(h) \/ FileCopy(h)
  BY <1>18 DEF FileOpen, FileCopy
<1> QED
  BY <1>1, <1>2, <1>3, <1>4, <1>5, <1>6, <1>7, <1>8, <1>9, <1>10, <1>11, <1>12, <1>13, <1>14, <1>15,
     <1>16, <1>17, <1>18 DEF HandlerStep

LEMMA OwnIsQuiet ==
  ASSUME IInv, NEW h \in Handlers, OwnAction(h), inst[h] \in Instances
  PROVE  QuietAction /\ SeenAction
<1>1. QuietAction
  BY DEF OwnAction, QuietAction, Launching
<1>2. SeenAction
  BY DEF OwnAction, SeenAction
<1> QED
  BY <1>1, <1>2

\* cmd.Start: a run nobody knew becomes the handler's.
LEMMA ForkStep == ASSUME IInv, NEW h \in Handlers, StartFork(h) PROVE Linked' /\ (PInv => Named')
<1>0. /\ TypeOK /\ Fits /\ InFlight /\ Waiting /\ Holds /\ ChildHasWaiter
      /\ inst[h] \in Instances /\ op[h] \in AllOps /\ mine[h] = None /\ seen[h] = None
  BY DEF IInv, StartFork, Fits, Busy, InFlight, Launching, Holds, Holding
<1>1. CASE /\ Goto(h, "pidOpen")
           /\ \E r \in Launchable : /\ st' = [st EXCEPT ![r] = "alive"]
                                    /\ owner' = [owner EXCEPT ![r] = inst[h]]
                                    /\ mine' = [mine EXCEPT ![h] = r]
  <2>1. PICK r \in Runs : /\ st[r] = "unborn"
                          /\ st' = [st EXCEPT ![r] = "alive"]
                          /\ owner' = [owner EXCEPT ![r] = inst[h]]
                          /\ mine' = [mine EXCEPT ![h] = r]
    BY <1>1 DEF Launchable
  <2>2. /\ owner[r] = None /\ waiter[r] = "none" /\ r \notin orphans
        /\ \A g \in Handlers : mine[g] # r
    BY <1>0, <2>1, RepositoryAssumption DEF Waiting, InFlight, Procs, InTable, Live
  <2>3. /\ st'[r] = "alive" /\ owner'[r] = inst[h] /\ mine'[h] = r
        /\ \A q \in Runs \ {r} : st'[q] = st[q] /\ owner'[q] = owner[q]
        /\ \A g \in Handlers \ {h} : mine'[g] = mine[g] /\ pc'[g] = pc[g]
        /\ pc[h] = "fork" /\ pc'[h] = "pidOpen"
        /\ UNCHANGED <<inst, op, seen, waiter, orphans, pidFile>>
        /\ r # None
    <3>1. TypeOK /\ r \in Procs
      BY <1>0 DEF Procs
    <3>2. /\ pc' = [pc EXCEPT ![h] = "pidOpen"] /\ pc[h] = "fork"
          /\ UNCHANGED <<inst, op, seen, waiter, orphans, pidFile>>
      BY <1>1 DEF Goto, StartFork, dirVars
    <3>3. /\ st'[r] = "alive" /\ owner'[r] = inst[h]
          /\ \A q \in Runs \ {r} : st'[q] = st[q] /\ owner'[q] = owner[q]
      BY <2>1, <3>1 DEF TypeOK, Procs
    <3>4. /\ mine'[h] = r /\ pc'[h] = "pidOpen"
          /\ \A g \in Handlers \ {h} : mine'[g] = mine[g] /\ pc'[g] = pc[g]
      BY <2>1, <3>1, <3>2 DEF TypeOK
    <3> QED
      BY <3>1, <3>2, <3>3, <3>4, RepositoryAssumption
  <2>4. InFlight'
    BY <1>0, <2>2, <2>3, RepositoryAssumption DEF InFlight, Launching, TypeOK, InTable, Live
  <2>5. Waiting'
    BY <1>0, <2>2, <2>3 DEF Waiting
  <2>6. SeenAction
    BY <1>0, <2>2, <2>3, RepositoryAssumption DEF SeenAction
  <2>7. ASSUME PInv PROVE WatchedPidFile'
    <3> SUFFICES ASSUME NEW i \in Instances, pidFile'[i] \in Pids
                 PROVE  \E q \in Runs : PidOf[q] = pidFile'[i] /\ owner'[q] = i /\ Watched(q)'
      BY DEF WatchedPidFile
    <3>1. PICK q \in Runs : PidOf[q] = pidFile[i] /\ owner[q] = i /\ Watched(q)
      BY <2>7, <2>3 DEF PInv, WatchedPidFile
    <3>2. q # r
      BY <2>2, <3>1, RepositoryAssumption
    <3>3. Watched(q)'
      BY <2>3, <3>1, <3>2, <1>0 DEF Watched, InFlight
    <3> QED
      BY <2>3, <3>1, <3>2, <3>3
  <2>8. ChildHasWaiter'
    <3> SUFFICES ASSUME NEW q \in Runs, InTable(q)', q \notin orphans'
                 PROVE  waiter'[q] = "wait" \/ \E g \in Handlers : mine'[g] = q /\ pc'[g] \in Launching
      BY DEF ChildHasWaiter
    <3>1. CASE q = r
      BY <2>3, <3>1 DEF Launching
    <3>2. CASE q # r
      <4>1. InTable(q) /\ q \notin orphans
        BY <2>3, <3>2 DEF InTable, Live
      <4> QED
        BY <1>0, <2>3, <4>1 DEF ChildHasWaiter, Launching
    <3> QED
      BY <3>1, <3>2
  <2> QED
    BY <2>4, <2>5, <2>6, <2>7, <2>8, SeenStep DEF Linked, PInv, Named
<1>2. CASE Reply(h, "500") /\ UNCHANGED <<st, owner, mine>>
  <2>1. OwnAction(h)
    BY <1>0, <1>2 DEF OwnAction, StartFork, Reply, Launching, dirVars, TypeOK
  <2> QED
    BY <1>0, <2>1, OwnIsQuiet, QuietStep, SeenStep DEF Linked, PInv, Named
<1> QED
  BY <1>1, <1>2 DEF StartFork

\* The write of run.pid: the id of the handler's own run, which is to be
\* waited for next.  Into a file that is not empty any more it may write any id.
LEMMA PidWriteStep == ASSUME IInv, NEW h \in Handlers, StartPidWrite(h) PROVE Linked' /\ (PInv => Named')
<1>0. /\ TypeOK /\ Fits /\ InFlight /\ Waiting /\ Holds /\ ChildHasWaiter
      /\ pc[h] = "pidWrite" /\ inst[h] \in Instances /\ mine[h] \in Runs
      /\ owner[mine[h]] = inst[h] /\ seen[h] = None
  BY RepositoryAssumption
     DEF IInv, TypeOK, StartPidWrite, Fits, Busy, InFlight, Launching, Holds, Holding
<1>1. /\ UNCHANGED <<st, owner, orphans, waiter, mine, inst, seen>>
      /\ pc' = [pc EXCEPT ![h] = "spawn"]
      /\ \/ pidFile' = [pidFile EXCEPT ![inst[h]] = PidOf[mine[h]]]
         \/ h \in linked /\ pidFile[inst[h]] # Blank
         \/ UNCHANGED pidFile
      /\ \A i \in Instances \ {inst[h]} : pidFile'[i] = pidFile[i]
  BY <1>0 DEF StartPidWrite, Goto, procVars, TypeOK
<1>2. pc'[h] = "spawn" /\ \A g \in Handlers \ {h} : pc'[g] = pc[g]
  BY <1>0, <1>1 DEF TypeOK
<1>3. InFlight'
  BY <1>0, <1>1, <1>2 DEF InFlight, Launching, InTable, Live
<1>4. Waiting'
  BY <1>0, <1>1 DEF Waiting
<1>5. SeenAction
  BY <1>0, <1>1, <1>2 DEF SeenAction
<1>6. ASSUME PInv PROVE WatchedPidFile'
  <2> SUFFICES ASSUME NEW i \in Instances, pidFile'[i] \in Pids
               PROVE  \E r \in Runs : PidOf[r] = pidFile'[i] /\ owner'[r] = i /\ Watched(r)'
    BY DEF WatchedPidFile
  <2>0. WatchedPidFile /\ ~(h \in linked /\ pidFile[inst[h]] # Blank)
    BY <1>0, <1>6 DEF PInv, Truncated
  <2>1. CASE i = inst[h] /\ pidFile' = [pidFile EXCEPT ![inst[h]] = PidOf[mine[h]]]
    <3>1. Watched(mine[h])' /\ pidFile'[i] = PidOf[mine[h]]
      BY <1>0, <1>1, <1>2, <2>1 DEF Watched, TypeOK
    <3> QED
      BY <1>0, <1>1, <2>1, <3>1
  <2>2. CASE pidFile'[i] = pidFile[i]
    <3>1. PICK r \in Runs : PidOf[r] = pidFile[i] /\ owner[r] = i /\ Watched(r)
      BY <2>0, <2>2 DEF WatchedPidFile
    <3>2. Watched(r)'
      BY <1>1, <1>2, <3>1 DEF Watched
    <3> QED
      BY <1>1, <2>2, <3>1, <3>2
  <2> QED
    BY <1>0, <1>1, <2>0, <2>1, <2>2, RepositoryAssumption DEF TypeOK
<1>7. ChildHasWaiter'
  BY <1>0, <1>1, <1>2 DEF ChildHasWaiter, InTable, Live, Launching
<1> QED
  BY <1>3, <1>4, <1>5, <1>6, <1>7, SeenStep DEF Linked, PInv, Named

\* `go func()`: the run has its waiter, and the handler lets it go.
LEMMA SpawnStep == ASSUME IInv, NEW h \in Handlers, StartSpawn(h) PROVE Linked' /\ (PInv => Named')
<1>0. /\ TypeOK /\ Fits /\ InFlight /\ Waiting /\ Holds /\ ChildHasWaiter
      /\ pc[h] = "spawn" /\ mine[h] \in Runs /\ mine[h] # None
      /\ mine[h] \notin orphans /\ st[mine[h]] # "unborn" /\ seen[h] = None
  BY RepositoryAssumption
     DEF IInv, TypeOK, StartSpawn, InFlight, InTable, Live, Launching, Holds, Holding
<1>1. /\ UNCHANGED <<st, owner, orphans, pidFile, seen>>
      /\ waiter' = [waiter EXCEPT ![mine[h]] = "wait"]
      /\ mine' = [mine EXCEPT ![h] = None]
      /\ pc' = [pc EXCEPT ![h] = "idle"]
      /\ inst' = [inst EXCEPT ![h] = None]
  BY DEF StartSpawn, Reply, dirVars
<1>2. /\ waiter'[mine[h]] = "wait" /\ mine'[h] = None /\ pc'[h] = "idle"
      /\ \A r \in Runs : r # mine[h] => waiter'[r] = waiter[r]
      /\ \A g \in Handlers : g # h => mine'[g] = mine[g] /\ pc'[g] = pc[g] /\ inst'[g] = inst[g]
  BY <1>0, <1>1 DEF TypeOK
<1>3. InFlight'
  <2>1. \A g \in Handlers : g # h /\ mine[g] # None => mine[g] # mine[h]
    BY <1>0 DEF InFlight
  <2>2. \A g \in Handlers : mine[g] # None => mine[g] \in Runs
    BY <1>0 DEF TypeOK
  <2> QED
    BY <1>0, <1>1, <1>2, <2>1, <2>2 DEF InFlight, Launching, InTable, Live
<1>4. Waiting'
  BY <1>0, <1>1, <1>2 DEF Waiting
<1>5. SeenAction
  BY <1>0, <1>1, <1>2 DEF SeenAction
<1>6. ASSUME PInv PROVE WatchedPidFile'
  <2> SUFFICES ASSUME NEW i \in Instances, pidFile'[i] \in Pids
               PROVE  \E r \in Runs : PidOf[r] = pidFile'[i] /\ owner'[r] = i /\ Watched(r)'
    BY DEF WatchedPidFile
  <2>1. PICK r \in Runs : PidOf[r] = pidFile[i] /\ owner[r] = i /\ Watched(r)
    BY <1>6, <1>1 DEF PInv, WatchedPidFile
  <2>2. Watched(r)'
    BY <1>0, <1>1, <1>2, <2>1 DEF Watched
  <2> QED
    BY <1>1, <2>1, <2>2
<1>7. ChildHasWaiter'
  BY <1>0, <1>1, <1>2 DEF ChildHasWaiter, InTable, Live, Launching
<1> QED
  BY <1>3, <1>4, <1>5, <1>6, <1>7, SeenStep DEF Linked, PInv, Named

\* Processes go on and end, and nothing else happens to them.
DyingAction ==
  /\ UNCHANGED <<owner, orphans, waiter, mine, pidFile>>
  /\ \A g \in Handlers :
       pc[g] \in Launching \/ pc'[g] \in Launching => pc'[g] = pc[g] /\ inst'[g] = inst[g]
  /\ \A r \in Runs :
       /\ st'[r] = "unborn" <=> st[r] = "unborn"
       /\ st[r] = "dead" => st'[r] = "dead"
       /\ InTable(r)' => InTable(r)
       /\ InTable(r) /\ r \notin orphans => InTable(r)'

LEMMA DyingStep == IInv /\ DyingAction => InFlight' /\ Waiting' /\ ChildHasWaiter' /\ (WatchedPidFile => WatchedPidFile')
<1> SUFFICES ASSUME IInv, DyingAction
             PROVE  InFlight' /\ Waiting' /\ ChildHasWaiter' /\ (WatchedPidFile => WatchedPidFile')
  OBVIOUS
<1>0. TypeOK /\ InFlight /\ Waiting /\ ChildHasWaiter
  BY DEF IInv
<1> USE DEF DyingAction
<1>1. InFlight'
  <2>1. \A g \in Handlers : mine[g] # None => mine[g] \in Runs
    BY <1>0 DEF TypeOK
  <2> QED
    BY <1>0, <2>1 DEF InFlight, InTable, Live
<1>2. Waiting'
  BY <1>0 DEF Waiting
<1>3. ASSUME WatchedPidFile PROVE WatchedPidFile'
  <2> SUFFICES ASSUME NEW i \in Instances, pidFile'[i] \in Pids
               PROVE  \E r \in Runs : PidOf[r] = pidFile'[i] /\ owner'[r] = i /\ Watched(r)'
    BY DEF WatchedPidFile
  <2>1. PICK r \in Runs : PidOf[r] = pidFile[i] /\ owner[r] = i /\ Watched(r)
    BY <1>3 DEF WatchedPidFile
  <2>2. Watched(r)'
    BY <2>1 DEF Watched, Launching
  <2> QED
    BY <2>1, <2>2
<1>4. ChildHasWaiter'
  BY <1>0 DEF ChildHasWaiter
<1> QED
  BY <1>1, <1>2, <1>3, <1>4

\* A signal ends processes that were there and starts none.
LEMMA SignalStep == ASSUME IInv, NEW h \in Handlers, SignalSend(h) PROVE Linked' /\ (PInv => Named')
<1>0. TypeOK
  BY DEF IInv
<1>1. /\ UNCHANGED <<owner, orphans, waiter, mine, pidFile>>
      /\ \A p \in Procs : \/ st'[p] = st[p]
                          \/ Live(p) /\ st'[p] \in {"stopping", Ended(p)}
      /\ pc[h] = "signal" /\ pc' = [pc EXCEPT ![h] = "idle"]
      /\ inst' = [inst EXCEPT ![h] = None] /\ seen' = [seen EXCEPT ![h] = None]
  <2>1. ASSUME NEW p \in Procs
        PROVE  st'[p] = st[p] \/ (Live(p) /\ st'[p] \in {"stopping", Ended(p)})
    BY DEF SignalSend, Targets
  <2> QED
    BY <2>1 DEF SignalSend, Reply, dirVars
<1>2. DyingAction
  BY <1>0, <1>1 DEF DyingAction, Ended, InTable, Live, Launching, TypeOK, Procs
<1>3. SeenAction
  BY <1>0, <1>1 DEF SeenAction, TypeOK
<1> QED
  BY <1>2, <1>3, DyingStep, SeenStep DEF Linked, PInv, Named

\* A bngblaster or another process ends, or another one starts.
LEMMA EndStep ==
  ASSUME IInv, (\E r \in Runs : RunEnds(r)) \/ (\E p \in Foreign : ForeignStarts(p) \/ ForeignEnds(p))
  PROVE  Linked' /\ (PInv => Named')
<1>0. TypeOK
  BY DEF IInv
<1>1. /\ UNCHANGED <<owner, orphans, waiter, mine, pidFile, pc, inst, seen>>
      /\ \A r \in Runs : st'[r] = st[r] \/ (Live(r) /\ st'[r] = Ended(r))
  BY <1>0, RepositoryAssumption
     DEF RunEnds, ForeignStarts, ForeignEnds, TypeOK, Procs, reqVars, dirVars
<1>2. DyingAction
  BY <1>1 DEF DyingAction, Ended, InTable, Live
<1>3. SeenAction
  BY <1>1 DEF SeenAction
<1> QED
  BY <1>2, <1>3, DyingStep, SeenStep DEF Linked, PInv, Named

\* A child is reaped, and its waiter goes on to remove run.pid.
LEMMA ReapStep == ASSUME IInv, NEW r \in Runs, WaiterReap(r) PROVE Linked' /\ (PInv => Named')
<1>0. TypeOK /\ InFlight /\ Waiting /\ ChildHasWaiter
  BY DEF IInv
<1>1. /\ UNCHANGED <<owner, orphans, mine, pidFile, pc, inst, seen>>
      /\ waiter[r] = "wait" /\ waiter'[r] = "remove" /\ st[r] = "zombie" /\ st'[r] = "dead"
      /\ \A q \in Runs \ {r} : waiter'[q] = waiter[q] /\ st'[q] = st[q]
  BY <1>0 DEF WaiterReap, TypeOK, Procs, reqVars, dirVars
<1>2. InFlight'
  <2>1. \A g \in Handlers : mine[g] # None => mine[g] \in Runs /\ mine[g] # r
    BY <1>0, <1>1 DEF TypeOK, InFlight
  <2> QED
    BY <1>0, <1>1, <2>1 DEF InFlight, InTable, Live
<1>3. Waiting'
  BY <1>0, <1>1 DEF Waiting
<1>4. SeenAction
  BY <1>1 DEF SeenAction
<1>5. ASSUME PInv PROVE WatchedPidFile'
  BY <1>0, <1>1, <1>5 DEF PInv, WatchedPidFile, Watched
<1>6. ChildHasWaiter'
  BY <1>0, <1>1 DEF ChildHasWaiter, InTable, Live
<1> QED
  BY <1>2, <1>3, <1>4, <1>5, <1>6, SeenStep DEF Linked, PInv, Named

\* The waiter removes run.pid, or fails to and leaves the id of a dead run.
LEMMA RemoveStep == ASSUME IInv, NEW r \in Runs, WaiterRemove(r) PROVE Linked' /\ (PInv => Named')
<1>0. TypeOK /\ InFlight /\ Waiting /\ ChildHasWaiter
  BY DEF IInv
<1>1. /\ UNCHANGED <<st, owner, orphans, mine, pc, inst, seen>>
      /\ waiter[r] = "remove" /\ waiter'[r] = "none"
      /\ \A q \in Runs \ {r} : waiter'[q] = waiter[q]
      /\ \/ pidFile' = [pidFile EXCEPT ![owner[r]] = None]
         \/ "unlink" \in Faults /\ UNCHANGED pidFile
  BY <1>0 DEF WaiterRemove, TryRemovePidFile, RemovePidFile, TypeOK, reqVars
<1>2. InFlight'
  <2>1. \A g \in Handlers : mine[g] # None => mine[g] \in Runs /\ mine[g] # r
    BY <1>0, <1>1 DEF TypeOK, InFlight
  <2> QED
    BY <1>0, <1>1, <2>1 DEF InFlight, InTable, Live
<1>3. Waiting'
  BY <1>0, <1>1 DEF Waiting
<1>4. SeenAction
  BY <1>1 DEF SeenAction
<1>5. ASSUME PInv PROVE WatchedPidFile'
  <2> SUFFICES ASSUME NEW i \in Instances, pidFile'[i] \in Pids
               PROVE  \E q \in Runs : PidOf[q] = pidFile'[i] /\ owner'[q] = i /\ Watched(q)'
    BY DEF WatchedPidFile
  <2>1. pidFile'[i] = pidFile[i] /\ (i = owner[r] => "unlink" \in Faults)
    BY <1>0, <1>1, RepositoryAssumption DEF TypeOK
  <2>2. PICK q \in Runs : PidOf[q] = pidFile[i] /\ owner[q] = i /\ Watched(q)
    BY <1>5, <2>1 DEF PInv, WatchedPidFile
  <2>3. st[r] = "dead"
    BY <1>0, <1>1 DEF Waiting
  <2>4. Watched(q)'
    BY <1>1, <2>1, <2>2, <2>3 DEF Watched
  <2> QED
    BY <1>1, <2>1, <2>2, <2>4
<1>6. ChildHasWaiter'
  BY <1>0, <1>1 DEF ChildHasWaiter, InTable, Live
<1> QED
  BY <1>2, <1>3, <1>4, <1>5, <1>6, SeenStep DEF Linked, PInv, Named

\* A crash turns every run that was launched into an orphan.
LEMMA CrashStep == ASSUME IInv, NEW killed \in SUBSET Runs, Crash(killed) PROVE Linked' /\ (PInv => Named')
<1>0. TypeOK /\ Waiting
  BY DEF IInv
<1>1. /\ UNCHANGED <<owner, pidFile>>
      /\ orphans' = {r \in Runs : st[r] # "unborn"}
      /\ \A r \in Runs : /\ waiter'[r] = "none"
                         /\ st'[r] = st[r] \/ (st[r] # "unborn" /\ st'[r] = "dead")
      /\ \A h \in Handlers : mine'[h] = None /\ seen'[h] = None /\ pc'[h] = "idle"
  BY <1>0 DEF Crash, TypeOK, Procs, Live
<1>2. InFlight' /\ Holds' /\ SeenIsOwn'
  BY <1>1 DEF InFlight, Holds, SeenIsOwn, Launching
<1>3. Waiting'
  BY <1>0, <1>1 DEF Waiting
<1>4. ASSUME PInv PROVE WatchedPidFile'
  BY <1>0, <1>1, <1>4, RepositoryAssumption DEF PInv, WatchedPidFile, Watched, Waiting
<1>5. ChildHasWaiter'
  BY <1>1 DEF ChildHasWaiter, InTable, Live
<1> QED
  BY <1>2, <1>3, <1>4, <1>5 DEF Linked, Named

\* A step that leaves no new empty config.json behind, and takes nobody away who
\* is about to fill one.
FillingAction ==
  /\ crashes' = crashes
  /\ \A i \in Instances : conf'[i] = "empty" => conf[i] = "empty"
  /\ \A g \in linked : pc[g] = "confWrite" =>
       \/ g \in linked' /\ pc'[g] = pc[g] /\ inst'[g] = inst[g]
       \/ conf'[inst[g]] # "empty"

LEMMA FillingStep == EmptyConfigIsFilled /\ FillingAction => EmptyConfigIsFilled'
  BY DEF EmptyConfigIsFilled, FillingAction

\* A handler that truncates config.json is the one that will fill it; every other
\* step of a handler is one of those above.
LEMMA FilledByHandlers ==
  ASSUME IInv, NEW h \in Handlers, HandlerStep(h)
  PROVE  EmptyConfigIsFilled'
<1> SUFFICES ASSUME "conf" \notin Faults PROVE EmptyConfigIsFilled'
  BY DEF EmptyConfigIsFilled
<1>0. TypeOK /\ Fits /\ EmptyConfigIsFilled
  BY DEF IInv
<1>1. CASE ConfOpen(h)
  <2>1. /\ pc[h] = "confOpen" /\ inst[h] \in Instances /\ crashes' = crashes
        /\ \A g \in Handlers \ {h} : pc'[g] = pc[g]
        /\ UNCHANGED inst \/ UNCHANGED <<conf, linked>>
    BY <1>0, <1>1 DEF ConfOpen, Fits, Busy, Goto, Reply, TypeOK
  <2> QED
    BY <1>0, <1>1, <2>1 DEF ConfOpen, EmptyConfigIsFilled, Goto, Reply, TypeOK
<1>2. CASE ~ConfOpen(h)
  <2> SUFFICES FillingAction
    BY <1>0, FillingStep
  <2> USE <1>0, RepositoryAssumption DEF FillingAction, TypeOK, Goto, Reply, dirVars
  <2>1. CASE ConfWrite(h)
    BY <2>1 DEF ConfWrite, Written, Fits, Busy
  <2>2. CASE DeleteFiles(h)
    BY <2>2 DEF DeleteFiles, Fits, Busy
  <2>3. CASE RunningUnlink(h) \/ CleanPid(h)
    BY <2>3 DEF RunningUnlink, RunningReturns, CleanPid, TryRemovePidFile, RemovePidFile, Fits
  <2>4. CASE StartPidOpen(h) \/ StartPidWrite(h) \/ StartSpawn(h)
    BY <2>4 DEF StartPidOpen, StartPidWrite, StartSpawn, Fits
  <2>5. CASE Exists(h) \/ RunningStat(h) \/ RunningRead(h) \/ RunningProbe(h)
    BY <2>5 DEF Exists, RunningStat, RunningRead, RunningProbe, RunningReturns
  <2>6. CASE CreateMkdir(h) \/ CleanRest(h) \/ DeleteDir(h) \/ StartPrepare(h) \/ StartFork(h)
    BY <2>6 DEF CreateMkdir, CleanRest, DeleteDir, StartPrepare, StartFork
  <2>7. CASE SignalRead(h) \/ SignalSend(h) \/ CommandDial(h)
    BY <2>7 DEF SignalRead, SignalSend, CommandDial
  <2>8. CASE UploadForm(h) \/ FileOpen(h) \/ FileCopy(h)
    BY <2>8 DEF UploadForm, FileOpen, FileCopy
  <2> QED
    BY <1>2, <2>1, <2>2, <2>3, <2>4, <2>5, <2>6, <2>7, <2>8 DEF HandlerStep
<1> QED
  BY <1>1, <1>2

\* Every step keeps each empty config.json about to be filled, but for a crash.
LEMMA FilledStep == IInv /\ [Next]_vars => EmptyConfigIsFilled'
<1> SUFFICES ASSUME IInv, [Next]_vars PROVE EmptyConfigIsFilled'
  OBVIOUS
<1>0. TypeOK /\ Fits /\ EmptyConfigIsFilled
  BY DEF IInv
<1>1. CASE UNCHANGED vars
  BY <1>0, <1>1, FillingStep DEF FillingAction, vars, dirVars, reqVars
<1>2. ASSUME NEW h \in Handlers, NEW o \in Ops, NEW i \in Instances, Accept(h, o, i)
      PROVE  EmptyConfigIsFilled'
  BY <1>0, <1>2, FillingStep DEF FillingAction, Accept, Busy, TypeOK, dirVars
<1>3. ASSUME NEW h \in Handlers, NEW o \in Ops, BadBody(h, o)
      PROVE  EmptyConfigIsFilled'
  BY <1>0, <1>3, FillingStep DEF FillingAction, BadBody, dirVars
<1>4. ASSUME NEW r \in Runs, WaiterReap(r) \/ WaiterRemove(r) \/ RunEnds(r)
      PROVE  EmptyConfigIsFilled'
  BY <1>0, <1>4, FillingStep
     DEF FillingAction, Fits, TypeOK, WaiterReap, WaiterRemove, TryRemovePidFile, RemovePidFile, RunEnds,
         dirVars, reqVars
<1>5. ASSUME NEW p \in Foreign, ForeignStarts(p) \/ ForeignEnds(p)
      PROVE  EmptyConfigIsFilled'
  BY <1>0, <1>5, FillingStep DEF FillingAction, ForeignStarts, ForeignEnds, dirVars, reqVars
<1>6. ASSUME NEW killed \in SUBSET Runs, Crash(killed)
      PROVE  EmptyConfigIsFilled'
  BY <1>0, <1>6, RepositoryAssumption DEF Crash, EmptyConfigIsFilled, TypeOK
<1> QED
  BY <1>1, <1>2, <1>3, <1>4, <1>5, <1>6, FilledByHandlers DEF Next

\* What every step does to launches, to waiters and to what run.pid tells.
LEMMA LinkedStep == ASSUME IInv, [Next]_vars PROVE Linked' /\ (PInv => Named')
<1>0. TypeOK /\ Fits /\ Holds
  BY DEF IInv
<1>1. CASE UNCHANGED vars
  <2>1. QuietAction /\ SeenAction
    BY <1>1 DEF vars, dirVars, procVars, reqVars, QuietAction, SeenAction
  <2> QED
    BY <2>1, QuietStep, SeenStep DEF Linked, PInv, Named
<1>2. ASSUME NEW h \in Handlers, NEW o \in Ops, NEW i \in Instances, Accept(h, o, i)
      PROVE  Linked' /\ (PInv => Named')
  <2>1. seen[h] = None
    BY <1>0, <1>2 DEF Holds, Holding, Accept, Busy
  <2>2. FirstLabel(o) \notin Launching
    BY RepositoryAssumption DEF FirstLabel, Launching, AllOps
  <2>3. QuietAction /\ SeenAction
    BY <1>0, <1>2, <2>1, <2>2
       DEF Accept, Busy, Launching, TypeOK, dirVars, procVars, QuietAction, SeenAction
  <2> QED
    BY <2>3, QuietStep, SeenStep DEF Linked, PInv, Named
<1>3. ASSUME NEW h \in Handlers, NEW o \in Ops, BadBody(h, o)
      PROVE  Linked' /\ (PInv => Named')
  <2>1. QuietAction /\ SeenAction
    BY <1>3 DEF BadBody, dirVars, procVars, QuietAction, SeenAction
  <2> QED
    BY <2>1, QuietStep, SeenStep DEF Linked, PInv, Named
<1>4. ASSUME NEW h \in Handlers, HandlerStep(h)
      PROVE  Linked' /\ (PInv => Named')
  <2>1. CASE StartFork(h) \/ StartPidWrite(h) \/ StartSpawn(h) \/ SignalSend(h)
    BY <2>1, ForkStep, PidWriteStep, SpawnStep, SignalStep
  <2>2. CASE ~StartFork(h) /\ ~StartPidWrite(h) /\ ~StartSpawn(h) /\ ~SignalSend(h)
    <3>1. OwnAction(h) /\ inst[h] \in Instances
      BY <1>4, <2>2, OwnStep
    <3>2. QuietAction /\ SeenAction
      BY <3>1, OwnIsQuiet
    <3> QED
      BY <3>2, QuietStep, SeenStep DEF Linked, PInv, Named
  <2> QED
    BY <2>1, <2>2
<1>5. ASSUME NEW r \in Runs, WaiterReap(r) \/ WaiterRemove(r) \/ RunEnds(r)
      PROVE  Linked' /\ (PInv => Named')
  BY <1>5, ReapStep, RemoveStep, EndStep
<1>6. ASSUME NEW p \in Foreign, ForeignStarts(p) \/ ForeignEnds(p)
      PROVE  Linked' /\ (PInv => Named')
  BY <1>6, EndStep
<1>7. ASSUME NEW killed \in SUBSET Runs, Crash(killed)
      PROVE  Linked' /\ (PInv => Named')
  BY <1>7, CrashStep
<1> QED
  BY <1>1, <1>2, <1>3, <1>4, <1>5, <1>6, <1>7 DEF Next

\* Every step keeps the inductive invariant.
LEMMA StepIInv == IInv /\ [Next]_vars => IInv'
  BY TypeStep, FitsStep, UnansweredStep, FilledStep, LinkedStep DEF IInv, Linked

\* The inductive invariant holds in every reachable state.
THEOREM Invariance == Spec => []IInv
  BY InitIInv, StepIInv, PTL DEF Spec

\* The types hold: no error path of a handler leaves a variable outside them.
THEOREM TypeCorrect == Spec => []TypeOK
<1>1. IInv => TypeOK
  BY DEF IInv
<1> QED
  BY <1>1, Invariance, PTL

\* No child of the controller is forgotten: each is waited for, or its launcher
\* is about to spawn the goroutine that waits.
THEOREM NoChildForgotten == Spec => []ChildHasWaiter
<1>1. IInv => ChildHasWaiter
  BY DEF IInv
<1> QED
  BY <1>1, Invariance, PTL

\* No order of creates, uploads and deletes leaves an instance with a config.json
\* that lost what was sent and that nobody is about to fill; only a crash, a host
\* that refuses a write, or an upload of nothing, does.
THEOREM EmptyConfigsAreFilled == Spec => []EmptyConfigIsFilled
<1>1. IInv => EmptyConfigIsFilled
  BY DEF IInv
<1> QED
  BY <1>1, Invariance, PTL

\* A handler at work is not a crash.
LEMMA HandlersDoNotCrash == ASSUME NEW h \in Handlers, HandlerStep(h) PROVE crashes' = crashes
  BY DEF HandlerStep, Exists, RunningStat, RunningRead, RunningProbe, RunningUnlink, CreateMkdir,
     ConfOpen, ConfWrite, CleanPid, CleanRest, DeleteFiles, DeleteDir, StartPrepare, StartFork,
     StartPidOpen, StartPidWrite, StartSpawn, SignalRead, SignalSend, CommandDial, UploadForm,
     FileOpen, FileCopy

\* A step that moves a handler, or changes its answer, and is neither a crash nor
\* the arrival of a request is that handler's own.
LEMMA OnlyOwnStep ==
  ASSUME IInv, Next, NEW h \in Handlers, Busy(h), crashes' = crashes,
         pc'[h] # pc[h] \/ code'[h] # code[h]
  PROVE  HandlerStep(h)
<1>0. TypeOK
  BY DEF IInv
<1>1. ASSUME NEW g \in Handlers, NEW o \in Ops, NEW i \in Instances, Accept(g, o, i) PROVE FALSE
  BY <1>0, <1>1 DEF Accept, TypeOK
<1>2. ASSUME NEW g \in Handlers, NEW o \in Ops, BadBody(g, o) PROVE FALSE
  BY <1>0, <1>2 DEF BadBody, TypeOK
<1>3. ASSUME NEW g \in Handlers, HandlerStep(g), g # h PROVE FALSE
  <2>1. \/ pc' = [pc EXCEPT ![g] = pc'[g]] /\ code' = [code EXCEPT ![g] = code'[g]]
        \/ pc' = [pc EXCEPT ![g] = pc'[g]] /\ code' = code
    BY <1>0, <1>3
       DEF TypeOK, HandlerStep, Goto, Reply, RunningReturns, Exists, RunningStat, RunningRead, RunningProbe, RunningUnlink, CreateMkdir,
         ConfOpen, ConfWrite, CleanPid, CleanRest, DeleteFiles, DeleteDir, StartPrepare,
         StartFork, StartPidOpen, StartPidWrite, StartSpawn, SignalRead, SignalSend,
         CommandDial, UploadForm, FileOpen, FileCopy
  <2> QED
    BY <1>0, <1>3, <2>1 DEF TypeOK
<1>4. ASSUME NEW r \in Runs, WaiterReap(r) \/ WaiterRemove(r) \/ RunEnds(r) PROVE FALSE
  BY <1>4 DEF WaiterReap, WaiterRemove, RunEnds, reqVars
<1>5. ASSUME NEW p \in Foreign, ForeignStarts(p) \/ ForeignEnds(p) PROVE FALSE
  BY <1>5 DEF ForeignStarts, ForeignEnds, reqVars
<1>6. ASSUME NEW killed \in SUBSET Runs, Crash(killed) PROVE FALSE
  BY <1>0, <1>6, RepositoryAssumption DEF Crash, TypeOK
<1> QED
  BY <1>1, <1>2, <1>3, <1>4, <1>5, <1>6 DEF Next

\* A start is answered 204 exactly when it has launched a run.
THEOREM StartAnswersAreTrue == Spec => StartAnswersTrue
<1> DEFINE Answer(h) == op[h] = "start" /\ ~Busy(h)' /\ crashes' = crashes =>
                          (code'[h] = "204" <=> mine[h] # None)
<1>1. IInv /\ [Next]_vars => [\A h \in Handlers : Answer(h)]_vars
  <2> SUFFICES ASSUME IInv, Next, NEW h \in Handlers,
                      op[h] = "start", ~Busy(h)', crashes' = crashes
               PROVE  code'[h] = "204" <=> mine[h] # None
    OBVIOUS
  <2>0. TypeOK /\ Fits /\ InFlight
    BY DEF IInv
  <2>1. Busy(h)
    BY <2>0, RepositoryAssumption DEF Fits, AllOps
  <2>2. HandlerStep(h)
    BY <2>1, OnlyOwnStep DEF Busy
  <2>3. mine[h] # None <=> pc[h] \in Launching
    BY <2>0 DEF InFlight
  <2> USE <2>0, <2>3 DEF TypeOK, Goto, Reply, Busy, Launching
  <2>4. CASE StartSpawn(h)
    BY <2>4 DEF StartSpawn
  <2>5. CASE StartPidOpen(h) \/ StartPidWrite(h)
    BY <2>5 DEF StartPidOpen, StartPidWrite
  <2>6. CASE DeleteFiles(h) \/ DeleteDir(h) \/ SignalRead(h) \/ SignalSend(h)
    BY <2>6 DEF DeleteFiles, DeleteDir, SignalRead, SignalSend, Fits
  <2>7. CASE Exists(h)
    BY <2>7 DEF Exists, Uploads
  <2>8. CASE RunningStat(h) \/ RunningRead(h) \/ RunningProbe(h) \/ RunningUnlink(h)
    BY <2>8 DEF RunningStat, RunningRead, RunningProbe, RunningUnlink, RunningReturns, FirstStep
  <2>9. CASE CreateMkdir(h) \/ ConfOpen(h) \/ ConfWrite(h)
    BY <2>9 DEF CreateMkdir, ConfOpen, ConfWrite
  <2>10. CASE CleanPid(h) \/ CleanRest(h) \/ StartPrepare(h) \/ StartFork(h)
    BY <2>10 DEF CleanPid, CleanRest, StartPrepare, StartFork
  <2>11. CASE CommandDial(h) \/ UploadForm(h) \/ FileOpen(h) \/ FileCopy(h)
    BY <2>11 DEF CommandDial, UploadForm, FileOpen, FileCopy, Fits, Uploads
  <2> QED
    BY <2>2, <2>4, <2>5, <2>6, <2>7, <2>8, <2>9, <2>10, <2>11 DEF HandlerStep
<1> QED
  BY <1>1, Invariance, PTL DEF Spec, StartAnswersTrue

\* A step that leaves every start that is about to write run.pid an empty file.
BlankAction ==
  \A h \in linked' : pc'[h] = "pidWrite" =>
    \/ pidFile'[inst'[h]] = Blank
    \/ /\ h \in linked /\ pc[h] = "pidWrite" /\ inst'[h] = inst[h]
       /\ pidFile'[inst[h]] = pidFile[inst[h]]

\* As long as one start at a time is between truncating and writing run.pid, nobody
\* puts anything into the file in between.
LEMMA TruncatedStep == ASSUME IInv, PInv, [Next]_vars PROVE Truncated'
<1> SUFFICES BlankAction
  BY DEF BlankAction, PInv, Truncated
<1>0. TypeOK /\ Fits
  BY DEF IInv
<1> USE <1>0 DEF BlankAction
<1>1. CASE UNCHANGED vars
  BY <1>1 DEF vars, dirVars, reqVars
<1>2. ASSUME NEW h \in Handlers, NEW o \in Ops, NEW i \in Instances, Accept(h, o, i)
      PROVE  BlankAction
  <2>1. FirstLabel(o) # "pidWrite"
    BY RepositoryAssumption DEF FirstLabel, AllOps
  <2> QED
    BY <1>2, <2>1 DEF Accept, TypeOK, dirVars
<1>3. ASSUME NEW h \in Handlers, NEW o \in Ops, BadBody(h, o) PROVE BlankAction
  BY <1>3 DEF BadBody, dirVars
<1>4. ASSUME NEW h \in Handlers, HandlerStep(h) PROVE BlankAction
  <2> USE DEF TypeOK, Goto, Reply, dirVars
  <2>1. CASE Exists(h) \/ CreateMkdir(h) \/ ConfOpen(h) \/ ConfWrite(h) \/ CleanRest(h)
    BY <2>1 DEF Exists, CreateMkdir, ConfOpen, ConfWrite, CleanRest
  <2>2. CASE RunningStat(h) \/ RunningRead(h) \/ RunningProbe(h)
    <3>1. UNCHANGED <<pidFile, linked>> /\ (UNCHANGED inst \/ inst' = [inst EXCEPT ![h] = None])
      BY <2>2 DEF RunningStat, RunningRead, RunningProbe, RunningReturns
    <3> QED
      BY <2>2, <3>1, RunningLeads
  <2>3. CASE RunningUnlink(h)
    <3>1. /\ TryRemovePidFile(inst[h]) /\ pc[h] = "unlink" /\ Busy(h)
          /\ UNCHANGED inst \/ inst' = [inst EXCEPT ![h] = None]
      BY <2>3 DEF RunningUnlink, RunningReturns, Busy
    <3>2. \A g \in Handlers : pc'[g] = "pidWrite" => pc[g] = "pidWrite" /\ g # h
      BY <2>3, RunningLeads
    <3>3. \A g \in Handlers : pc[g] = "pidWrite" => op[g] = "start" /\ inst[g] \in Instances
      BY DEF Fits, Launching, Busy
    <3>4. linked' \subseteq linked /\ \A g \in Handlers : g # h => inst'[g] = inst[g]
      BY <3>1 DEF TryRemovePidFile, RemovePidFile
    <3>5. \A g \in linked' : pc[g] = "pidWrite" => pidFile'[inst[g]] = pidFile[inst[g]]
      BY <3>1, <3>3 DEF TryRemovePidFile, RemovePidFile
    <3> QED
      BY <3>2, <3>4, <3>5
  <2>4. CASE CleanPid(h)
    BY <2>4 DEF CleanPid, RemovePidFile, Fits, Launching, Busy
  <2>5. CASE DeleteFiles(h)
    BY <2>5 DEF DeleteFiles, Fits, Launching, Busy
  <2>6. CASE DeleteDir(h) \/ StartPrepare(h) \/ StartFork(h) \/ StartSpawn(h)
    BY <2>6 DEF DeleteDir, StartPrepare, StartFork, StartSpawn
  <2>7. CASE StartPidOpen(h)
    BY <2>7 DEF StartPidOpen, Fits, Busy
  <2>8. CASE StartPidWrite(h)
    <3>1. \A g \in linked \ {h} : pc[g] = "pidWrite" /\ h \in linked => inst[g] # inst[h]
      BY <2>8 DEF StartPidWrite, PInv, OneWriter
    <3>2. \/ h \in linked /\ \A i \in Instances \ {inst[h]} : pidFile'[i] = pidFile[i]
          \/ UNCHANGED pidFile
      BY <2>8 DEF StartPidWrite
    <3>3. /\ linked' = linked \ {h} /\ UNCHANGED inst
          /\ \A g \in Handlers \ {h} : pc'[g] = pc[g]
      BY <2>8 DEF StartPidWrite
    <3>4. \A g \in Handlers : pc[g] = "pidWrite" => inst[g] \in Instances
      BY DEF Fits, Busy
    <3> QED
      BY <3>1, <3>2, <3>3, <3>4
  <2>9. CASE SignalRead(h) \/ SignalSend(h) \/ CommandDial(h)
    BY <2>9 DEF SignalRead, SignalSend, CommandDial
  <2>10. CASE UploadForm(h) \/ FileOpen(h) \/ FileCopy(h)
    BY <2>10 DEF UploadForm, FileOpen, FileCopy
  <2> QED
    BY <1>4, <2>1, <2>2, <2>3, <2>4, <2>5, <2>6, <2>7, <2>8, <2>9, <2>10 DEF HandlerStep
<1>5. ASSUME NEW r \in Runs, WaiterReap(r) \/ WaiterRemove(r) \/ RunEnds(r) PROVE BlankAction
  <2>1. \A g \in Handlers : pc[g] = "pidWrite" => op[g] = "start" /\ inst[g] \in Instances
    BY DEF Fits, Launching, Busy
  <2>2. UNCHANGED <<pc, inst>>
    BY <1>5 DEF WaiterReap, WaiterRemove, RunEnds, reqVars
  <2>3. CASE WaiterReap(r) \/ RunEnds(r)
    BY <2>2, <2>3 DEF WaiterReap, RunEnds, TypeOK, dirVars
  <2>4. CASE WaiterRemove(r)
    <3>1. TryRemovePidFile(owner[r])
      BY <2>4 DEF WaiterRemove
    <3>2. \A g \in linked' : g \in linked /\ (pc[g] = "pidWrite" => pidFile'[inst[g]] = pidFile[inst[g]])
      BY <2>1, <3>1 DEF TryRemovePidFile, RemovePidFile, TypeOK
    <3> QED
      BY <2>2, <3>2
  <2> QED
    BY <1>5, <2>3, <2>4
<1>6. ASSUME NEW p \in Foreign, ForeignStarts(p) \/ ForeignEnds(p) PROVE BlankAction
  BY <1>6 DEF ForeignStarts, ForeignEnds, reqVars, dirVars
<1>7. ASSUME NEW killed \in SUBSET Runs, Crash(killed) PROVE BlankAction
  BY <1>7 DEF Crash
<1> QED
  BY <1>1, <1>2, <1>3, <1>4, <1>5, <1>6, <1>7 DEF Next

\* Whatever the clients, both invariants hold as long as no run.pid is written by two
\* starts at once.
THEOREM UntornInvariance == UntornSpec => [](IInv /\ PInv)
<1>1. Init => IInv /\ PInv
  <2>1. ASSUME Init PROVE PInv
    BY <2>1, RepositoryAssumption DEF Init, PInv, OneWriter, Truncated, SeenIsOwn, WatchedPidFile
  <2> QED
    BY <2>1, InitIInv
<1>2. IInv /\ PInv /\ [Next /\ OneWriter']_vars => (IInv /\ PInv)'
  <2> SUFFICES ASSUME IInv, PInv, [Next /\ OneWriter']_vars PROVE IInv' /\ PInv'
    OBVIOUS
  <2>1. OneWriter'
    BY DEF PInv, OneWriter, vars, dirVars, reqVars
  <2> QED
    BY <2>1, StepIInv, LinkedStep, TruncatedStep DEF PInv, Named
<1> QED
  BY <1>1, <1>2, PTL DEF UntornSpec

\* A process id in run.pid belongs to a run of the instance whose waiter is there or
\* about to be, with faults, crashes, reuse of process ids and overlapping requests,
\* as long as no run.pid is written by two starts at once.
THEOREM PidFileIsWatched == UntornSpec => []WatchedPidFile
<1>1. IInv /\ PInv => WatchedPidFile
  BY DEF PInv
<1> QED
  BY <1>1, UntornInvariance, PTL

\* Where no process id is used twice and no run.pid is written by two starts at
\* once, a stop or a kill changes only runs of its own instance, whatever happens
\* between its read of run.pid and its signal.
THEOREM SignalsReachOwnRuns == ASSUME PidsNotReused PROVE UntornSpec => SignalsOwn
<1> DEFINE Own(h) == op[h] \in {"stop", "kill"} /\ code'[h] # code[h] /\ crashes' = crashes =>
                       \A p \in Procs : st'[p] # st[p] => p \in Runs /\ owner[p] = inst[h]
<1>1. IInv /\ PInv /\ [Next /\ OneWriter']_vars => [\A h \in Handlers : Own(h)]_vars
  <2> SUFFICES ASSUME IInv, PInv, Next, NEW h \in Handlers,
                      op[h] \in {"stop", "kill"}, code'[h] # code[h], crashes' = crashes,
                      NEW p \in Procs, st'[p] # st[p]
               PROVE  p \in Runs /\ owner[p] = inst[h]
    OBVIOUS
  <2>0. TypeOK /\ Fits /\ SeenIsOwn
    BY DEF IInv, PInv
  <2>1. Busy(h)
    BY <2>0, RepositoryAssumption DEF Fits, AllOps
  <2>2. HandlerStep(h)
    BY <2>1, OnlyOwnStep
  <2>3. SignalSend(h)
    <3>1. pc[h] # "fork"
      BY <2>0 DEF Fits
    <3> QED
      BY <2>2, <3>1 DEF HandlerStep, procVars, Exists, RunningStat, RunningRead, RunningProbe, RunningUnlink,
         CreateMkdir, ConfOpen, ConfWrite, CleanPid, CleanRest, DeleteFiles, DeleteDir,
         StartPrepare, StartFork, StartPidOpen, StartPidWrite, StartSpawn, SignalRead,
         CommandDial, UploadForm, FileOpen, FileCopy
  <2>4. PidOf[p] = seen[h]
    BY <2>3 DEF SignalSend, Targets
  <2>5. seen[h] # None
    BY <2>4, RepositoryAssumption
  <2>6. PICK r \in Runs : PidOf[r] = seen[h] /\ owner[r] = inst[h]
    BY <2>0, <2>5 DEF SeenIsOwn
  <2>7. p = r
    BY <2>4, <2>6, PidsNotReused DEF PidsNotReused, Procs
  <2> QED
    BY <2>6, <2>7
<1> QED
  BY <1>1, UntornInvariance, PTL DEF UntornSpec, SignalsOwn

\* Where no process id is used twice and no run.pid is written by two starts at
\* once, no instance looks as if it ran when it has no run: the id in a run.pid that
\* was left behind is not that of another process.
THEOREM NoRunIsMadeUp == ASSUME PidsNotReused PROVE UntornSpec => NoRunIsInvented
<1> DEFINE Told(h) ==
      op[h] \in {"status", "create", "delete", "start"} /\ ~Busy(h)'
        /\ code'[h] \in {"started", "412"} =>
          \E r \in Runs : owner[r] = inst[h] /\ InTable(r)
<1>1. IInv /\ PInv /\ [Next /\ OneWriter']_vars => [\A h \in Handlers : Told(h)]_vars
  <2> SUFFICES ASSUME IInv, PInv, Next, NEW h \in Handlers,
                      op[h] \in {"status", "create", "delete", "start"}, ~Busy(h)',
                      code'[h] \in {"started", "412"}
               PROVE  \E r \in Runs : owner[r] = inst[h] /\ InTable(r)
    OBVIOUS
  <2>0. TypeOK /\ Fits /\ SeenIsOwn
    BY DEF IInv, PInv
  <2>1. Busy(h) /\ code[h] \in {"none", "201", "204"}
    BY <2>0, RepositoryAssumption DEF Fits, AllOps, IInv, Unanswered
  <2>2. crashes' = crashes
    <3> SUFFICES ASSUME NEW killed \in SUBSET Runs, Crash(killed) PROVE FALSE
      BY HandlersDoNotCrash DEF Next, Accept, BadBody, WaiterReap, WaiterRemove, RunEnds,
         ForeignStarts, ForeignEnds
    <3> QED
      BY DEF Crash
  <2>3. HandlerStep(h)
    BY <2>1, <2>2, OnlyOwnStep DEF Busy
  <2>4. RunningProbe(h) /\ ~PidFree(seen[h])
    <3> USE <2>0, <2>1 DEF TypeOK, Goto, Reply, Busy
    <3>1. ~Exists(h) /\ ~UploadForm(h) /\ ~FileOpen(h) /\ ~FileCopy(h) /\ ~CommandDial(h)
      BY DEF Exists, UploadForm, FileOpen, FileCopy, CommandDial, Fits, Uploads
    <3>2. ~RunningStat(h) /\ ~RunningRead(h) /\ ~RunningUnlink(h)
      BY DEF RunningStat, RunningRead, RunningUnlink, RunningReturns, FirstStep
    <3>3. ~CreateMkdir(h) /\ ~ConfOpen(h) /\ ~ConfWrite(h) /\ ~CleanPid(h) /\ ~CleanRest(h)
      BY DEF CreateMkdir, ConfOpen, ConfWrite, CleanPid, CleanRest
    <3>4. ~DeleteFiles(h) /\ ~DeleteDir(h) /\ ~StartPrepare(h) /\ ~StartFork(h)
      BY DEF DeleteFiles, DeleteDir, StartPrepare, StartFork
    <3>5. ~StartPidOpen(h) /\ ~StartPidWrite(h) /\ ~StartSpawn(h)
      BY DEF StartPidOpen, StartPidWrite, StartSpawn
    <3>6. ~SignalRead(h) /\ ~SignalSend(h)
      BY DEF SignalRead, SignalSend
    <3>7. RunningProbe(h)
      BY <2>3, <3>1, <3>2, <3>3, <3>4, <3>5, <3>6 DEF HandlerStep
    <3>8. PidFree(seen[h]) => FALSE
      BY <3>7 DEF RunningProbe
    <3> QED
      BY <3>7, <3>8
  <2>5. PICK p \in Procs : InTable(p) /\ PidOf[p] = seen[h]
    BY <2>4 DEF PidFree
  <2>6. PICK r \in Runs : PidOf[r] = seen[h] /\ owner[r] = inst[h]
    BY <2>0, <2>5, RepositoryAssumption DEF SeenIsOwn
  <2>7. p = r
    BY <2>5, <2>6, PidsNotReused DEF PidsNotReused, Procs
  <2> QED
    BY <2>5, <2>6, <2>7
<1> QED
  BY <1>1, UntornInvariance, PTL DEF UntornSpec, NoRunIsInvented

\* Into a run.pid that no two starts write at once, only a start writes a process id,
\* that of the run it launched; all else takes it away, or leaves the file as it is.
LEMMA OnlyStartsWriteIds ==
  ASSUME IInv, PInv, Next, NEW i \in Instances
  PROVE  \/ pidFile'[i] = pidFile[i]
         \/ pidFile'[i] \in {None, Blank}
         \/ \E h \in Handlers : StartPidWrite(h) /\ inst[h] = i /\ pidFile'[i] = PidOf[mine[h]]
<1>0. TypeOK
  BY DEF IInv
<1> USE <1>0 DEF TypeOK
<1>1. CASE UNCHANGED pidFile
  BY <1>1
<1>2. ASSUME NEW h \in Handlers, HandlerStep(h), pidFile' # pidFile
      PROVE  \/ pidFile'[i] \in {pidFile[i], None, Blank}
             \/ StartPidWrite(h) /\ inst[h] = i /\ pidFile'[i] = PidOf[mine[h]]
  <2>1. /\ ~Exists(h) /\ ~RunningStat(h) /\ ~RunningRead(h) /\ ~RunningProbe(h) /\ ~CreateMkdir(h)
        /\ ~ConfOpen(h) /\ ~ConfWrite(h) /\ ~CleanRest(h) /\ ~DeleteDir(h)
    BY <1>2 DEF Exists, RunningStat, RunningRead, RunningProbe, CreateMkdir, ConfOpen, ConfWrite,
       CleanRest, DeleteDir, dirVars
  <2>2. /\ ~StartPrepare(h) /\ ~StartFork(h) /\ ~StartSpawn(h) /\ ~SignalRead(h) /\ ~SignalSend(h)
        /\ ~CommandDial(h) /\ ~UploadForm(h) /\ ~FileOpen(h) /\ ~FileCopy(h)
    BY <1>2 DEF StartPrepare, StartFork, StartSpawn, SignalRead, SignalSend, CommandDial, UploadForm,
       FileOpen, FileCopy, dirVars
  <2>3. CASE RunningUnlink(h) \/ CleanPid(h) \/ DeleteFiles(h)
    BY <2>3 DEF RunningUnlink, CleanPid, DeleteFiles, TryRemovePidFile, RemovePidFile
  <2>4. CASE StartPidOpen(h)
    BY <2>4 DEF StartPidOpen
  <2>5. CASE StartPidWrite(h)
    BY <2>5 DEF StartPidWrite, PInv, Truncated
  <2> QED
    BY <1>2, <2>1, <2>2, <2>3, <2>4, <2>5 DEF HandlerStep
<1>3. ASSUME NEW r \in Runs, WaiterRemove(r)
      PROVE  pidFile'[i] \in {pidFile[i], None}
  BY <1>3 DEF WaiterRemove, TryRemovePidFile, RemovePidFile
<1>4. CASE pidFile' # pidFile
  <2>1. \/ \E h \in Handlers : HandlerStep(h)
        \/ \E r \in Runs : WaiterRemove(r)
    BY <1>4 DEF Next, Accept, BadBody, WaiterReap, RunEnds, ForeignStarts, ForeignEnds, Crash, dirVars
  <2> QED
    BY <1>2, <1>3, <1>4, <2>1
<1> QED
  BY <1>1, <1>4

\* If no process id is used twice and no run.pid is written by two starts at once, a
\* run that is gone does not come back into run.pid once it was taken out.
THEOREM GoneRunsStayForgotten == ASSUME PidsNotReused PROVE UntornSpec => GoneStaysForgotten
<1>1. IInv /\ PInv /\ [Next /\ OneWriter']_vars =>
        [\A r \in Runs : st[r] = "dead" /\ pidFile[owner[r]] # PidOf[r] =>
           pidFile'[owner[r]] # PidOf[r]]_vars
  <2> SUFFICES ASSUME IInv, PInv, Next, NEW r \in Runs, st[r] = "dead",
                      pidFile[owner[r]] # PidOf[r], pidFile'[owner[r]] = PidOf[r]
               PROVE  FALSE
    OBVIOUS
  <2>1. TypeOK /\ InFlight /\ Waiting
    BY DEF IInv
  <2>2. owner[r] \in Instances
    BY <2>1 DEF Waiting
  <2>3. PidOf[r] \notin {None, Blank}
    BY RepositoryAssumption DEF Procs
  <2>4. PICK h \in Handlers : StartPidWrite(h) /\ PidOf[mine[h]] = PidOf[r]
    BY <2>2, <2>3, OnlyStartsWriteIds
  <2>5. mine[h] \in Runs /\ InTable(mine[h])
    BY <2>1, <2>4, RepositoryAssumption DEF StartPidWrite, InFlight, Launching, TypeOK
  <2>6. mine[h] = r
    BY <2>4, <2>5 DEF PidsNotReused, Procs
  <2> QED
    BY <2>5, <2>6 DEF InTable, Live
<1> QED
  BY <1>1, UntornInvariance, PTL DEF UntornSpec, GoneStaysForgotten

\* Every step of a handler brings it nearer to its answer.
LEMMA AdvanceStep ==
  ASSUME IInv, NEW h \in Handlers, HandlerStep(h)
  PROVE  StepsLeft(pc'[h]) < StepsLeft(pc[h])
<1>0. TypeOK /\ Fits
  BY DEF IInv
<1> USE <1>0 DEF TypeOK, Goto, Reply, StepsLeft
<1>1. CASE Exists(h)
  BY <1>1 DEF Exists
<1>2. CASE RunningStat(h) \/ RunningRead(h) \/ RunningProbe(h) \/ RunningUnlink(h)
  BY <1>2, RunningLeads
<1>3. CASE CreateMkdir(h) \/ ConfOpen(h) \/ ConfWrite(h)
  BY <1>3 DEF CreateMkdir, ConfOpen, ConfWrite
<1>4. CASE CleanPid(h) \/ CleanRest(h) \/ DeleteFiles(h) \/ DeleteDir(h)
  BY <1>4 DEF CleanPid, CleanRest, DeleteFiles, DeleteDir
<1>5. CASE StartPrepare(h) \/ StartFork(h) \/ StartPidOpen(h)
  BY <1>5 DEF StartPrepare, StartFork, StartPidOpen
<1>6. CASE StartPidWrite(h) \/ StartSpawn(h)
  BY <1>6 DEF StartPidWrite, StartSpawn
<1>7. CASE SignalRead(h) \/ SignalSend(h) \/ CommandDial(h)
  BY <1>7 DEF SignalRead, SignalSend, CommandDial
<1>8. CASE UploadForm(h) \/ FileOpen(h) \/ FileCopy(h)
  BY <1>8 DEF UploadForm, FileOpen, FileCopy
<1> QED
  BY <1>1, <1>2, <1>3, <1>4, <1>5, <1>6, <1>7, <1>8 DEF HandlerStep

\* No request loops: it is answered, or cut off by a crash, within fifteen steps of
\* its own, whatever others do between them.
THEOREM RequestsDoNotLoop == Spec => RequestsAdvance
<1>1. IInv /\ [Next]_vars =>
        [\A h \in Handlers :
           Busy(h) /\ pc'[h] # pc[h] => StepsLeft(pc'[h]) < StepsLeft(pc[h])]_vars
  <2> SUFFICES ASSUME IInv, Next, NEW h \in Handlers, Busy(h), pc'[h] # pc[h]
               PROVE  StepsLeft(pc'[h]) < StepsLeft(pc[h])
    OBVIOUS
  <2>1. CASE crashes' = crashes
    BY <2>1, OnlyOwnStep, AdvanceStep
  <2>2. CASE crashes' # crashes
    <3>1. pc'[h] = "idle"
      BY <2>2, HandlersDoNotCrash DEF Next, Accept, BadBody, WaiterReap, WaiterRemove, RunEnds,
         ForeignStarts, ForeignEnds, Crash
    <3>2. pc[h] \in Labels
      BY DEF IInv, TypeOK
    <3> QED
      BY <3>1, <3>2 DEF StepsLeft, Labels, Busy
  <2> QED
    BY <2>1, <2>2
<1> QED
  BY <1>1, Invariance, PTL DEF Spec, RequestsAdvance
=============================================================================
