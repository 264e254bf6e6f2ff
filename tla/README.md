# TLA+ models and proofs of the bngblaster controller

The controller is a small daemon with a REST interface. It keeps one folder per
*instance* under a configuration folder, starts one `bngblaster` child process
per instance, signals it, forwards commands to its control socket and exports
its counters as metrics. It holds no lock and keeps no table in memory: what it
knows of an instance is in the instance's folder (above all in `run.pid`) and in
the kernel's process table, and every request, every child's waiter and every
metrics collector is a goroutine that works on both. That is where the
difficulty of this code lies, and what this directory is about.

## The system

| Component | Code | State | Operations |
|---|---|---|---|
| Instance repository | `pkg/controller/repository.go` | the folder: `config.json`, `run.pid`, `run.json`, report, log, output files, uploads | `Create`, `Delete`, `Exists`, `Running`, `Start`, `Stop`, `Kill`, `Command`, `cleanupRunFiles` |
| Process runner | `pkg/controller/process.go` | the child, its files, `run.pid` | `RunCommand` and the goroutine it spawns to wait for the child |
| HTTP handlers | `pkg/server/server.go` | none; a goroutine per request | `create`, `status`, `delete`, `start`, `stop`, `kill`, `command`, `uploadFile`, and others that read only |
| Control socket | `repository.go:289-332`, `server.go:354-397` | a connection per command | dial, write with deadline, read loop with deadline, decode |
| Metrics collector | `pkg/controller/prom.go`, `model.go:70-248` | a wait group and a channel per scrape | `Describe`, `Collect`, `collectInstance`, the six collectors |
| Daemon | `pkg/daemonize`, `cmd/bngblasterctrl` | a channel, `err` | `Daemonize`, `serve` |
| Not modelled | file serving, interfaces and version, name cleaning, start-up, mock | | see the last section but one |

How they interact. A handler calls the repository; `start` calls `RunCommand`,
which forks the child, writes its id to `run.pid` and leaves a goroutine that
waits for the child and removes `run.pid`. `Running` decides by `run.pid` and
signal 0 and removes the file when it finds it stale, so even a `status`, a
`command` and a scrape write. `stop` and `kill` signal the number they find in
`run.pid`. An upload writes into the folder without asking `Running`. The
collector calls `Running` and `Command` from one goroutine per running instance.
Systemd restarts the daemon when it exits with a failure, and children may
survive it.

What is hard: the check in `Running` and the act that relies on it are many
system calls apart; files are removed by path, long after they were looked at;
process ids are reused; errors of `WriteFile(run.pid)`, `Remove` and `RemoveAll`
are dropped; the controller can die between two calls. What makes each part
correct is stated as the properties below; `PROJECT.json` lists each hazard at
its line with the properties that would catch it going wrong.

## The modules

**`Repository.tla`**, the core: repository, process runner and instance handlers.

* *State.* The folder of each instance (`folder`, `conf`, `output`, `pidFile`,
  `extra` for an uploaded file, and `linked`: the handlers holding open a file
  which still has its name); each process (`st`: unborn, alive, stopping, zombie,
  dead; `owner`, `orphans`, `waiter`); each handler (`pc`, `op`, `inst`, `seen`,
  `mine`, `code`). `seen` is the process id a handler read from `run.pid` and is
  about to probe or to signal.
* *Steps.* One action per system call of a goroutine, or per group of calls that
  nobody can observe in between in this state: `RunningStat`, `RunningRead`,
  `RunningProbe`, `RunningUnlink` are the four calls of `Running`;
  `os.WriteFile` is an open that truncates and a write; `RemoveAll` empties the
  folder and then removes it. `Accept` is the arrival of a request, `BadBody` one
  whose body cannot be read. `WaiterReap` and `WaiterRemove` are the goroutine of
  `RunCommand`. `RunEnds`, `ForeignStarts`, `ForeignEnds` and `Crash` are the
  environment.
* *Commands.* `CommandDial` is the whole conversation here: the dial reaches
  whatever run lives by then, and 200 stands for any code of its reply. The
  conversation itself is in `SocketCommand`.
* *Uploads.* `upload` is a file whose name no other operation uses; `uploadConf`
  is one named `config.json`, which goes through the same `ConfOpen` and
  `ConfWrite` as a create. `AllowUpload` is the flag `-upload`.
* *Data.* A configuration is none, empty, empty because an upload of zero bytes
  was accepted (`sentEmpty`), damaged or whole; an output is absent, blank, or
  carries the report of a named run; a process id is a value of `Pids`, and `PidOf`
  says which process gets which, not necessarily injectively. Two starts that have
  both truncated `run.pid` write their ids one over the other: what the file then
  holds is any member of `Pids`, since digits over digits are a number ("9999"
  over "10000" is 99990). `Pids` has a member that no run gets where that matters.
* *Failures.* `Faults` names the system calls the host may refuse. Where the
  code drops the error, the action goes on.

**`Lifecycle.tla`** is what the repository promises: an instance is absent,
stopped or running; only a stopped one is configured, started or deleted.
`Repository` instantiates it with a refinement mapping (`Abstract`): running means
that a live run belongs to the instance, absent that there is no folder.

**`SocketCommand.tla`** is one command to a running bngblaster, with several
clients. It implements **`Exchange.tla`**, what a command promises: one answer to
each request, which is a refusal, and then it has reached no run, or what the one run
it was connected to replied, if that came whole and in time, or a failure. The
refinement mapping shows a client as free, pending (it has not
dialled), connected, or cut from its run. The instance is only its phase; the far end answers in pieces, for ever,
or not at all, closes, resets, or dies. Time is a countdown per connection.
`Deadline` is set once for all reads, as in the code. `Running` is one step with
either outcome, whatever the instance does: what it says need not be true of it (see
`StatusDuringStart` and `LateWaiter`), and what it races with is in `Repository`, where
`NoRunIsDenied` says when a 412 is true.

**`PromFamilies.tla`** is the data of the metrics: the families that `NewProm`
makes and `Describe` lists, the structures of the socket's replies with the key
each field is read from, and what each collector exports for a row of a reply. A
family is a tuple of the parts of its name, so that the many similar names are
products of small sets, as they are in the code but for the spelling.

**`Metrics.tla`** is one scrape: `Collect`, the goroutines it spawns, the wait
group, the channel the registry closes, and the registry, which refuses a metric
it has already or was not told of. `Lifecycle` is instantiated as the environment
(`Host`): instances come, go and restart during the scrape as the repository
promises, and `Overwrite` adds what an overlapping create or start does to
`run.json`. A command that fails gives no metric. `Metrics` implements
**`Gather.tla`**, what the registry relies on: whoever sends was listed, sends for
itself, joins once, and is gone when the channel is closed; the mapping forgets the
wait group, the flags and `run.json`.

**`Daemonize.tla`** is the end of the daemon: main, the goroutine that serves,
signals, the channel of capacity one, and the shared `err`, which is assigned in
two steps since an interface value is two words and nothing locks it.

`MCRepository.tla` and `MCMetrics.tla` hold the constants of the runs.
`RepositoryProofs.tla`, `DisciplineProofs.tla` (which extends it),
`MetricsProofs.tla`, `DaemonizeProofs.tla` and `SocketCommandProofs.tla` hold the
theorems.

Definitions marked `mutant:` are plausible bugs of the definition that follows;
none is part of a specification. With one of them in the place of that
definition a property of the same module fails, which shows that the property
depends on that line of the code.

## The specifications of Repository and their assumptions

`Spec` is unrestricted. Its guarantees are weak, and honestly so: the code
relies on its clients. `DisciplinedSpec` adds what is needed for the strong ones:

* `ExclusiveStart`: while a start is served nothing else is asked of the same
  instance (a status, a command or a scrape included), except uploads;
* `PromptWaiter`: a start takes no step between the end of a child of its
  instance and the removal of `run.pid` by that child's goroutine;
* `LaunchIsRecorded`: the controller does not die between the fork of a child
  and the write of its id;

and its results take `run.pid` to be writable. Each of the first two is
necessary: dropping one gives a violation run. `ExclusiveSpec` and `PromptSpec`
keep one of the two, and `PollSpec` allows a start to overlap with statuses and
commands only. Creates, deletes, stops, kills, statuses, commands and uploads may
overlap each other in any way under all of them.

`UntornSpec` adds much less to `Spec`: `OneWriter`, no two starts are between
truncating and writing the same `run.pid`. Starts may overlap with each other and with
anything else in all other ways. Without it what is in `run.pid` may be the id of no
run at all: with `Spec` in its place TLC finds `WatchedPidFile` violated and, where a
program of the host has that id, `SignalsOwn`. This is a consequence of the overlap that
`DoubleStart` shows. `DisciplinedSpec` excludes the overlap too.

An upload named `config.json` asks nobody whether the instance runs. It
therefore breaks `Lifecycle`, which configures stopped instances only, and is left
out of `DisciplinedRepository` and assumed away in `LifecycleIsImplemented`, but
not in the other theorems. No document says such an upload is refused. An empty one is
accepted too, though a create refuses an empty body (`server.go:243`), so
`EmptyConfigIsFilled` is about configurations that were lost, not those sent empty.

## The runs

| Run | Question | Instance of the model | Distinct states |
|---|---|---|---|
| `FreeRepository` | What holds with any clients? `IInv`, `EmptyConfigIsFilled` | 1 instance, 2 handlers that create, delete, start and upload (`config.json` too), 2 runs, a third process id, 1 crash | 2.3 million |
| `TwoInstances` | What holds under `UntornSpec`; does a signal stay in its instance? `PInv`, `SignalsOwn` | 2 instances, 2 handlers, 2 runs, a third process id, uploads forbidden | 2.4 million |
| `DisciplinedRepository` | What is promised to disciplined clients? `DInv`, `OneLiveRun`, `LiveIsKnown`, `NoStaleReport`, `NoRunIsDenied`, `ConfigurationIsKept`, `StopReaches`, and `ImplementsLifecycle`; four that hold more generally, checked here for all operations: `WatchedPidFile`, `NoRunIsInvented`, `GoneStaysForgotten` (of `UntornSpec`), `RequestsAdvance` (of `Spec`) | 1 instance, 2 handlers, 2 runs, 1 crash, every failure but that of `run.pid` | 0.8 million |
| `FairRepository` | Is every request answered, every child reaped? `ChildHasWaiter`, `StartAnswersTrue`, `RequestAnswered`, `StoppedIsForgotten` | 1 instance, 2 handlers, 1 run, failing `run.pid`, 1 foreign process with the same id | 0.4 million |
| `SocketCommand` | Are whole replies delivered, and only those, and in time? `IInv`, `WholeReplyDelivered`, `OnlyWholeReplies`, `DeadlineIsFinal`, `CommandAnswered`, and `ImplementsExchange` | 2 clients, deadlines of 1 and 2 ticks | 0.24 million |
| `Metrics` | Does a scrape end, without a send on a closed channel, and when does the registry refuse it? `IInv`, `NoSendAfterClose`, `ScrapeEnds`, `OnlyRepeatsFail`, and `ImplementsGather` | 2 instances; one list of flags that share families, one with a repeated and an unknown flag | 0.15 million |
| `Daemonize` | Does main end, with the right error and status? `NormalIsWhole`, `ZeroMeansAsked`, `SomethingWaits`, `EndsWhenTold` | 3 signals | |

Violation runs, each the shortest behaviour of the code that contradicts what
the repository says of itself:

| Run | What it shows |
|---|---|
| `LateWaiter` | The goroutine of an ended run removes the `run.pid` of the next one: the live run is reported as stopped and cannot be stopped. |
| `DoubleStart` | Two starts that overlap are both answered 204; two bngblasters run in one folder. |
| `StatusDuringStart` | A status (likewise a command or a scrape) that overlaps a start removes the new `run.pid`. |
| `ReusedPid` | A run outlives a restart of the controller and ends; nobody removes its `run.pid`, the kernel gives its id to another program, and a stop signals that one. |
| `TxMulticast` | The counters of multicast sent through network interfaces are read from the keys of multicast received (`model.go:169-170`), and exported as the former. |

Differences between code and documentation that a model adds nothing to:

* `docs/swagger.yaml` lists 412 for a command to an instance that does not exist;
  `server.go:371-373` answers 404.
* `docs/swagger.yaml:490` and `:512` limit an upload to 4 GB; the number given
  to `ParseMultipartForm` (`server.go:413`) is how much of the form to keep in
  memory, and a larger file goes to disk. 413 is what an unreadable form gets.
* `docs/swagger.yaml:219-220` promises with 204 that the instance was deleted;
  `Delete` drops the error of `RemoveAll` (`repository.go:117`). In the model the
  folder may survive (`DeleteDir`).
* `docs/swagger.yaml:143` says a create replaces the configuration; two that
  overlap may leave a mixture of both. In the model `conf` is then damaged.
* `daemonize.go:16` speaks of a graceful shutdown; on a signal main returns and
  exits without `Shutdown`, and requests on their way are cut off.

*Why the bounds are enough.* All interference in this code is between two
goroutines, or a goroutine and a child, on one folder: two handlers are two
overlapping requests of any kinds, and a child's waiter is a third. Two runs of
an instance are an old and a new one. Handlers are reused without limit, so the
length of a behaviour is not bounded; only launches (`Runs`) and crashes
(`MaxCrashes`) are. Without a free run a start is answered 500, like a fork that
fails. Two instances are needed only for what crosses from one to another. In
`SocketCommand` a deadline of two ticks lets data arrive before, at and after half
of it. In `Metrics` two instances let one goroutine be late while another is
done; the rows of one reply differ only in a label, so one interface and one
stream are enough, and what the six collectors share is decided by families, all
of which are there. `Daemonize` takes three signals: one received, one in the
buffer, one lost. Each run has the operations its properties are sensitive to, and all of them
are in `DisciplinedRepository` but uploads of `config.json`. Symmetry is used for handlers, runs and (in `TwoInstances`)
instances, never with liveness.

*Deadlock.* Checked in all runs but `Daemonize`, whose process ends.

*Fairness.* `FairSpec` assumes weak fairness of each handler's step, of each
waiter's step and of the end of a run that was asked to end. The first two are the
Go scheduler: no step waits for another goroutine, and each is one system call on
a local file or process. (A command is one step there; that its conversation
ends is `CommandAnswered`.) The third is the bngblaster's reaction to SIGINT; a run
nobody stopped owes nothing. `SocketCommand` assumes the scheduler and that time
passes, and nothing of the bngblaster. `Metrics` assumes the scheduler; that a
command ends within its deadlines is `CommandAnswered`. `Daemonize` assumes the
scheduler of both goroutines and neither a signal nor the end of the server.

## The proofs

Every theorem is for all values of the constants: any sets of instances,
handlers, runs, foreign processes and process ids, any number of crashes, any
flags, interfaces and streams, any clients and deadlines. The assumptions are the
named ones of each module, which say what kind of values the constants are and
are evaluated by every run, and those named here.

**Any clients** (`RepositoryProofs`, from `Spec`): `IInv` (`Invariance`), and from
it `TypeOK`, `ChildHasWaiter`, `EmptyConfigIsFilled` and the action properties
`StartAnswersTrue` and `RequestsAdvance`.

**No two starts writing one `run.pid`** (the same module, from `UntornSpec`): `PInv`
with `IInv` (`UntornInvariance`), and from them `WatchedPidFile`; and `SignalsOwn`,
`NoRunIsInvented` and `GoneStaysForgotten` assuming `PidsNotReused`.

*The argument.* `WatchedPidFile` and `ChildHasWaiter` are not inductive: that the
id in `run.pid` belongs to a run of the same instance depends on what a handler
between fork and write remembers, and that a waiter exists depends on who spawns
it. `IInv` adds five facts to the types: `Unanswered` (a request has no answer before its last
step, but for the status a create chose when it looked for the folder), `Fits` (where a handler stands tells which operation
it serves), `InFlight` (a handler remembers a run exactly between its fork and
its spawn; that run is of its instance, in the process table, no orphan, nobody
else's and not waited for), `Waiting` (a waiter's child is no orphan, and is dead once the waiter goes
on to remove the file) and `Holds` (only who is about to probe or signal holds an id
read from `run.pid`). `PInv` adds three to `OneWriter`, which the specification gives:
`Truncated` (a start writes into an empty file: nobody but a start puts anything into
`run.pid`, and there is no second one; `TruncatedStep`), so that what it writes is the
id of its own run, `SeenIsOwn` (an id read from `run.pid` is that of a run of the same
instance) and `WatchedPidFile`. `TypeOK` and `Fits` are proved action by action. For the
others, most actions of a handler are shown to be *quiet* (`QuietAction`: no
process, waiter or launch changes, and `run.pid` at most disappears) or to change
only what the handler has seen (`SeenAction`), and one lemma each settles those;
fork, write of `run.pid`, spawn, signal, reap, removal and crash have a lemma of
their own. `EmptyConfigIsFilled` is inductive by itself once `Fits` is known: a
handler that holds the file open under its name fills it, or was sent nothing to
fill it with, and one that lost the name leaves no empty file behind. `SignalsOwn` follows from `SeenIsOwn`: the id was
read from the folder of the instance, so with unique ids the process that has it
is a run of that instance, however late the signal is sent. `NoRunIsInvented`
follows from the same part: whoever is told that an instance runs held an id from
its `run.pid` when signal 0 found a process with it. `GoneStaysForgotten` follows from
`InFlight`, as only starts write ids (`OnlyStartsWriteIds`), and the run a start
is about to name is still in the process table: nobody waits for it yet.
`RequestsAdvance` needs no
invariant but the types and `Fits`: `StepsLeft` is a rank of the program points
that every step of a handler lowers, so a request has at most fifteen steps
of its own, whatever others do between them.

**Disciplined clients** (`DisciplineProofs`, from `DisciplinedSpec`, assuming
`"pid" \notin Faults`): `DInv` (`DisciplinedInvariance`), and from it `OneLiveRun`,
`LiveIsKnown`, `NoStaleReport`, `StopReaches` and `NoRunIsDenied`; and, assuming that nobody uploads a `config.json`,
`ConfigurationIsKept` and `ImplementsLifecycle` (`LifecycleIsImplemented`). Process ids
may be reused in all of them: nobody is told that a live run is stopped, even then,
while that nobody is told that a stopped instance runs (`NoRunIsInvented`) needs
unique ids and, of the discipline, only `OneWriter`.

*The argument.* `OneLiveRun` says nothing of the check that was made many steps
before the fork. `DInv` does, with one part for each thing that must survive in
between. `Checked`: whoever was told that no run lives finds none while it acts,
nor does a waiter that is about to remove `run.pid`. `Known`: `run.pid` names the
run of the instance from the write of its start to its *reaping*, not only while
it lives, since signal 0 finds a zombie. `Single`: so an instance has one child in
the process table. `Remembered`: an id that a handler holds is that of the run
there is. `Prepared`: a start finds its folder and its fresh output as it left
them, and its child where it was launched. `Housed`: a run and a configuration have
a folder. Each part is a lemma. Uploads may overlap a start, as they touch nothing
these parts speak of but the folder (`UploadKeeps`). `FrameStep` (a handler changes only its own request and the folder of its
instance), `KeptStep` (which steps change what), `ShrinkStep` (every step but a fork
only takes runs away) and `ForkFacts` reduce most actions to a few cases. The
refinement follows from the same invariant: a fork is `Start` because `Checked`
holds of it, creates and deletes that act are `Configure`, `Create` and `Delete` of
a stopped instance, and everything else, which leaves the folders alone and only
takes runs away, is `Finish` or a stutter.

**`MetricsProofs`**: `IInv`, `TypeOK`, `NoSendAfterClose`, `OnlyRepeatsFail`, and that
every metric sent was described (`ExportsAreDescribed`) and that no two flags or
instances send the same metric (`ExportsAreApart`). Assumptions: finitely many
instances, and that a bngblaster gives the interfaces of different commands
different types, which is all that keeps the four collectors of interfaces apart.
`IInv` says that the wait group equals the number of goroutines on their way
(`Counted`), where they can be in each phase of `Collect` (`Phases`), and that what
the registry has taken lies behind each goroutine in its list (`Taken`).
`GatherIsImplemented` maps each step to one of `Gather`: `Wait` is `Close` because
`Counted` leaves no goroutine when the counter is zero, `Look` is `Join` because
`Phases` says that an entry not yet looked at has none. Of the data it is proved too
that every described family is sent by some collector (`DescribedAreExported`), and
that the two fields of the run `TxMulticast` are the only ones read from the key
of another counter (`OnlyMulticastIsMisread`), so that the finding is complete.

**`DaemonizeProofs`**: `TypeOK`, `NormalIsWhole`, `ZeroMeansAsked`, from an invariant that
says how far the assignment of `err` has come wherever the server goroutine stands,
and that the value for completion is sent after it; and `SomethingWaits`
(`NothingIsLost`), from that and the fact that signals are delivered until the server
is done.

**`SocketCommandProofs`**: `IInv`, `TypeOK`, `WholeReplyDelivered`,
`OnlyWholeReplies`, and `ImplementsExchange` (`ExchangeIsImplemented`). `IInv` adds
`Connected` to the types: nobody is answered before the request is over, what was
read or is unread came over the connection of this request, and an open one leads
to the run there is. The refinement rests on two lemmas: a step of one client
moves only that client in the mapped functions (`OneMoves`), and one that ends a
request tells its client once and leaves it nothing (`AnswersTell`). `DeadlineIsFinal`
needs only that a step of one client leaves the others alone (`StepsAreAlone`).

*Only model-checked*: liveness (`RequestAnswered`, `StoppedIsForgotten`,
`CommandAnswered`, `ScrapeEnds`, `EndsWhenTold`), which needs `ENABLED` and is out of
the prover's reach. The safety half of each, what makes it true once the scheduler
is fair, is proved: `RequestsAdvance`, `GoneStaysForgotten` (with `ChildHasWaiter`),
`DeadlineIsFinal`, `Counted` (in the `IInv` of `Metrics`) and `SomethingWaits`. That
fairness turns the one into the other is TLC's to show.

## What is not modelled

* File serving, interfaces, version and the instance list read and change
  nothing.
* `cleanPathVariable` is a function on strings; distinct URLs it maps to one
  name are one instance here.
* The command line of the bngblaster, the help texts of metrics, logging, flags
  and the generated mock.
* Within `Repository`: an upload named like a file of a run (`run.pid`, `run.json`
  and so on); writes to `run.json`, `run.stdout` and `run.stderr` are one step and
  one piece of state; a file is read in one system call; an instance folder is
  never a file or unreadable; a `status` writes its header before it calls
  `Running`, which no client can tell; the server drops a connection 40 seconds
  after it read the request (`bngblasterctrld.go:47`), so that what is an answer
  here may reach nobody.
* Within `SocketCommand`: what a code means to HTTP beyond being valid; a write
  that blocks is a `Send` that comes late.
* Within `Metrics`: values of metrics, and the conversation of each command.

## Plan

1. Uploads named like a file of a run: which of the results for any clients
   survive a `run.pid` that a client wrote.
2. A composition of `Repository` with `SocketCommand`, so that the run a command
   meets may end in the middle of its reply while a start is under way.
3. A weaker `ExclusiveStart`. Kills beside a start do no harm (a kill that comes
   before the write of the id reaches nobody, so `StopReaches` would except it), and
   the proofs could take the set of operations allowed beside a start as a constant.
4. A version of `DisciplineProofs` for `PollSpec` restricted to statuses that find
   no `run.pid`, to name the weakest discipline that polls satisfy.
