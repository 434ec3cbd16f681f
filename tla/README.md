# opd_panel: TLA+ models and proofs

This directory holds the specifications of opd_panel: TLA+ modules translated
from the source, the TLC configurations that check them on small instances, and
theorems checked by TLAPS. `PROJECT.json` lists the runs, the source lines each
definition stands for, the hazards and the findings.

    tlc -workers 2 -config Quiet.cfg SupervisorQuiet    # a run: cfg and module
    tlapm SupervisorProofs.tla                          # the proofs

## 1. The system

opd_panel runs Minecraft servers. Two stacks live in the repository: `cli/`, a
Go daemon that owns its Java processes and is used over a local TCP socket, an
HTTP API and a terminal interface; and `panel/` with `agent/`, a Go panel with
a database that drives a Rust agent on each node. They share no code.

| Component | State | Operations | Interacts with | What makes it correct |
|---|---|---|---|---|
| CLI supervisor (`cli/internal/supervisor`, `process/handle.go`) | map of server id to `Handle`; per handle the OS process, status, stopped flag, done channel | Start, Stop, Restart, StopAll, RestoreState, watch, the waiter of Spawn | state file (every change), configurations (Start, Restart), broadcast, IPC daemon, HTTP API | one process per server; a stop stops; a crash is noticed and answered; every call returns; the file lists what runs |
| State file (`state/state.go`) | `daemon-state.json` and its `.tmp` | Save, Load | supervisor | a whole list after any crash |
| Log broadcast (`process/broadcast.go`) | subscriber channels, closed flag | subscribe, send, close | pipe readers, waiter, log streams of both interfaces | no send on a closed channel, no line lost but on a full channel, streams end |
| IPC daemon (`daemon/daemon.go`, `cmd/daemon.go`) | listener, connection wait group, shutdown flag | New, ListenAndServe, handleConn, Shutdown | supervisor, configurations | a shutdown ends, and leaves nothing running |
| HTTP API (`httpapi/server.go`) | none but the open requests | actions, settings, create, plugins, files, logs | supervisor, configurations, files of a server | as the IPC daemon |
| Configurations (`config/config.go`) | `opd.json` of each server, `ServersRoot` and `config.json` | Load, Save, Create, ListAll, Remove | both interfaces, Start, Restart | no half-written file is read, no update lost, no running server removed |
| IPC client, commands (`client/`, `cmd/`) | none | one request each | IPC daemon | - |
| Terminal interface (`tui/model.go`) | current view, cursor, server list, log stream | Update | IPC client | what is confirmed is what is done; the view shows the stream of its server |
| Agent supervisor (`agent/src/supervisor`, `api/server.rs`) | registry of processes | start, stop, restart, console, watchdog | configuration, process | as the CLI supervisor |
| Agent files, backup, auth, metrics | files of a server | list, read, write, archive | - | a backup is consistent |
| Panel use cases (`panel/internal/usecase`) | rows of servers, schedules, allocations, databases, subusers; the cron table | create, delete, start, ... | repositories, agent client | the rows agree with the agent, the cron table and the database server |
| Panel versions (`panel/internal/versions`) | jar cache | resolve, download, copy | providers over HTTP | a cached jar is whole |
| Panel delivery, repositories, boot | database | routers, SQL, migrations | use cases | migrations run once |
| Web interface (`web/`) | none | polls the API | HTTP API of the daemon | - |

The supervisor and what it shares state with are the hard part. The supervisor is entered by as
many goroutines as there are clients; a watcher goroutine per handle reacts to
crashes after a backoff of up to 30 s during which it holds no lock; Stop and
Restart wait up to 30 s, also without a lock; spawning is outside the lock
except in Start; each of them rewrites the whole state file; the daemon may die
at any point, and its children may survive it. The files of a server and the
root directory are changed by both interfaces without any lock; the terminal
interface mixes an event loop with goroutines for its streams; the panel splits
its operations into statements and agent calls that any other request may come
between. The repository has no tests.

## 2. Modules and how they correspond to the code

    Supervisor ---- MCSupervisor        TLC: symmetry, a daemon that only serves
       |  \-------- SupervisorQuiet --- implements --> ServerProcesses
       |                |
       \-- SupervisorProofs --- SupervisorQuietProofs        (EXTENDS both)
    StateFile ------ StateFileProofs       implements --> AtomicState
    LogBroadcast --- LogBroadcastProofs
    Configurations - ConfigurationsProofs
    Tui ------------ TuiProofs
    Agent ---------- AgentProofs
    PanelRequests --- PanelResources --- Panel --- PanelProofs
                                           \------ MCPanel   TLC: whose ids begin alike

Each module EXTENDS those to its left; the modules in `Proofs` hold the theorems
that TLAPS checks and no part of a model.

### Supervisor

One action per critical section, and one per step taken outside the lock.

| TLA+ | Code |
|---|---|
| `servers`, `None` for an absent key | `Supervisor.servers` |
| `owner`, `status`, `stopped` | `Handle.cfg.ID`, `.status`, `.stopped` |
| `life` | the Java process and the waiter goroutine: `up`, `exited` (the process has ended), `reaped` (the status is recorded), `done` (`doneCh` closed); `orphan` and `gone` belong to a daemon that has died |
| `call[p]` | the goroutine of a client, or of StopAll for the server it is named after: which call, where in it, and the local `h` |
| `watch[r]` | the watcher launched when `r` was registered: where it is, the `h` it looked up, `attempts` |
| `stateFile` | the ids in `daemon-state.json` (`StateFile` justifies that it changes in one step) |
| `daemon`, `toRestore` | the phase between `New` and the end of `Shutdown`; the rest of RestoreState's loop |

- `Start` is one action because the code holds the lock from the check to the
  launch of the watcher. Each reason for refusal (running, no configuration, no
  jar, spawn fails) ends in `StartFails`, which may happen at any time.
- `Stop` and `Restart` share `Lookup`, `MarkStopped`, `SendStop`,
  `HandleStopped` or `StopTimesOut`; they part at `FinishStop` (save, then
  delete) and `RestartSpawn`, then `RestartRegister` or `RestartUnregister`.
- `watch` is `WatchLookup` (by id, so not always its own handle), the 30 s of
  stability, `WatchDecide`, the backoff, `WatchRespawn` without a lock, and
  `WatchRegister` or `WatchUnregister`. `go s.watch` after the unlock is the
  state `lookup`, in which the new watcher may stay as long as it likes.
- Timers: a timer may fire at any time. Nothing in the code depends on how long
  30 s or 2^n s are, only on the orders they leave possible.
- `saveState` reads every status under the lock, but a waiter may change one
  meanwhile. A status only ever leaves `running`, so what is written is the list
  at some moment of the section or a list with an id more; that extra id is the
  one that would have been written had the section been run a little earlier.
- `Shutdown` starts one Stop for each registered server; from then on no
  request begins. An accepted connection whose request is still on its way is a
  call in `called`, so its Start may come after StopAll's snapshot.
- `Halt` is the end of the daemon process, by `ExitDaemon` or `Crash`: all
  goroutines and handles vanish, any subset of the processes lives on.

Errors of `state.Save` are dropped by the callers; the model has no action for
a failed save here (the file then stays old), it is in `StateFile`.

### SupervisorQuiet and ServerProcesses

`ServerProcesses` is what an operator expects: a server that is on has at most
one process, a process is launched only for a server that is on and has none, a
server is switched off only when its process has ended. The supervisor does not
implement it (section 5). `SupervisorQuiet` restricts the environment, never the
supervisor: a request comes only while nothing is in progress for that server,
no process crashes during a call, and a daemon that dies takes its processes
along. Under that assumption the refinement holds, and shows that the findings
are races between those and nothing else.

### StateFile and AtomicState

`Save` statement by statement, with every error path, a daemon crash between any
two statements, and power failures. `disk` is the set of contents the directory
entry may lead to after a power failure: Rename adds the new one, torn unless it
was synced. `AtomicState` is a register that changes at one point or not at all.

### LogBroadcast

One handle's broadcast with two pipe readers, the waiter, and the stream
handlers. `process = "closing"` is the window between `cmd.Wait` and `close` in
which a reader may still hold a line. `log`, `from` and `dropped` are history.

### Agent

A handler or a watchdog runs alone while it holds the registry's mutex, and
anything may happen between two of its locks; each such section is an action.

| TLA+ | Code |
|---|---|
| `registry` | `ServerRegistry.servers`: status and pid of each `ServerHandle` |
| `owner`, `running` | the processes and `is_alive`; a pid is not used twice |
| `task[t]` | an HTTP request: what it asks, and start between its check, its spawn and its insert |
| `dog[r]` | the watchdog launched by the start that spawned `r`: where it is and what it saw |

- Stop and Restart change the registry alike, so they share `Stop`.
- `Dropped`: a handler that waits for the mutex is dropped when its client hangs
  up; a start that has spawned leaves a process behind.
- The code never sets Running or Crashed, never raises `intentional_stop` and
  never removes an entry; the states and branches that need them are left out
  (`TypeOK` says so: of the status, and of a look-up, which stores the status of
  an entry and never "none").

### Configurations

The files of the servers, the root directory, and every request of both
interfaces that reads or writes them. A handler is split at its system calls,
since it holds no lock; only Start and IsRunning use the supervisor's mutex.

| TLA+ | Code |
|---|---|
| `root`, `saved` | `config.ServersRoot`; `servers_root` in `config.json` |
| `dirs`, `file`, `plugins` | a server's directory under a root, its `opd.json`, its plugins directory with one jar: whose bytes its head and its tail are |
| `on`, `home` | what `IsRunning` sees of the server, and the directory its process was started in |
| `task[t]` | a handler goroutine: its request, where it is, the path and the configuration it holds, the file it has open |

- `ServersRoot` is a Go string that one goroutine assigns while others read it:
  a data race. A string is two words, so a read that overlaps an assignment may
  yield the old root, the new one, or `Torn`, half of each.
- Save calls os.Create, which truncates, and writes the whole text with one
  call of the encoder: `SaveCreates`, then `SaveEncodes`. A file that is removed
  in between is written without a directory entry (`fd = "lost"`).
- An upload truncates the jar with os.Create (`UploadCreates`); then io.Copy
  writes it, in two calls if the jar is `Long`, each at the offset of its own
  descriptor (`UploadCopies`), whatever another upload does to the jar meanwhile.
  `met` is history: the paths at which two uploads had the jar open at once.
- Any system call may fail (`IoFails`), those of SetServersRoot and
  saveGlobalConfig too.
- os.RemoveAll is `RemoveEmpties` and `RemoveDir`: the unlinks of the contents
  are one step, the rmdir another, which fails if something was put back.
- Two fields stand for all: `name` for those a settings request sets when they
  are not zero, `flags` for `java_flags` and `auto_restart`, which CmdUpdateSettings
  always overwrites and an HTTP request may leave alone.
- `Alone` says what each request does in one step; `solo` remembers the last
  request if nothing ran beside it. The crash of `Reboot` is that of a process,
  so what system calls have done is done.

### Tui

`Update` handles one message at a time: each key and each message is an action.
Beside it run the commands it returned (`cmd`), the goroutines of the log
streams (`stream`) and the daemon's connections; the daemon is the one embedded
by the tui command, so that quitting is also a Shutdown.

| TLA+ | Code |
|---|---|
| `servers`, `cursor`, `curTab`, `curView`, `activeServer` | the fields of `Model`; logs and console are one view, the other two tabs one value |
| `setFields` | the server whose row filled the settings form |
| `stream[k]` | `pump` the goroutine of startLogStream, `cancelled` its context, `ch` the client's channel, `net` the connection, `handler` the daemon's loop |
| `logCancel` | the stream whose cancel function is stored |

- What the daemon answers to a list request is up to its other clients and to
  the order of a map: `ServersMsg` takes any rows in any order. A failed request
  is an empty list.
- start, stop, restart, remove and console commands change nothing here but
  the command on its way; they share `act`.
- The last of the `NetCap` lines does not fit into the connection: the handler
  hangs in its write until the reader of StreamLogs takes a line.
- `StopAll` stops the handle that the map has for each id of its snapshot. The
  handle a stream is of may be another one: a watcher has registered over it, or
  the stream connected after the snapshot, to a handle registered since. Which
  streams it misses (`missed`) is therefore any choice.
- `activeServer` and `setFields` are cleared when no view reads them, and the
  fields are reset at `Quit`: nobody sees them after.

### Panel, PanelResources, PanelRequests

`PanelRequests` is what all requests of opdd share: goroutines, tables as sets
of rows, the statements on them and their failure. `PanelResources` adds ports,
subusers and databases with the MySQL server behind them, `Panel` the servers
with the agent, the schedules with the cron library, and restarts.

| TLA+ | Code |
|---|---|
| `task[t]` | a goroutine of net/http or of a socket connection: its operation, the step it is at, the id of the request, the row it holds, the power calls still to make |
| `servers`, `schedules`, `allocations`, `subusers`, `records` | the tables |
| `schema` | who made the tables: opdd at boot, or the migrations, which name other columns |
| `accepted` | the last power call the agent carried out |
| `cron`, `entries` | the entries of the cron library with the copy each holds; `ScheduleUseCase.entries` |
| `run[g]` | a goroutine in `execute` |
| `mysqlDBs`, `mysqlUsers`, `grants` | the MySQL server; its names hold the first eight characters of the server's id, `Short[s]`, and no table checks that the server exists |

- One statement, one call of the agent, one section under the mutex is one step;
  requests interleave between them. A statement may fail (`StatementFails`: the
  database is busy, the client has hung up). The error ends the request, but
  Create of a server and Add of a subuser drop that of their look-up and go on to
  the INSERT. SQLite runs in the process of opdd, so that a statement that
  returns an error has changed nothing; MySQL and the agent are elsewhere, and may
  have done what was asked although the answer is lost.
- `GetFreePort` takes a row that fails to scan for one that is not there, as
  the code does: the port then looks free, and the INSERT is what refuses it.
- A uuid is the number of the call that made it. Every kind of request runs with
  those it shares state with (`Workloads`): servers and schedules share the agent,
  the other tables are used by one use case each.
- A body of a schedule is one of four: nothing to do, a restart, disabled,
  an expression that does not parse.
- `drift`, `tangled`, `tried`, `dropped` are history: the servers, schedules and
  MySQL users for which the code promises nothing any more, and why.

## 3. Runs

| Run | Bounds | Checks |
|---|---|---|
| safety | 2 servers, 1 client, 2 handles, StopAll's 2 goroutines | `RunningIsPersisted`, `RegisteredIsWatched`, `MarkedIsInHand`, `SpawnedIsPrivate`, `TypeOK` |
| liveness | 1 server, 1 client, 2 handles | `EveryCallReturns`, `DeadHandleLeaves`, `ShutdownEnds` |
| quiet | 2 servers, 2 clients, 3 handles | `KeepsPromise`, `StopIsRemembered`, `ShutdownIsClean` |
| state_file | 2 savers, 2 states | `NeverTorn`, `RenamesOwnState`, `ImplementsAtomicState`, `EverySaveReturns` |
| log_broadcast | 2 pipes of 2 lines, 2 subscribers, capacity 2 | `OpenIffSubscribed`, `NothingLostUnlessFull`, `OrderKept`, `StreamsEnd`, `ReadersEnd`, `TypeOK` |
| agent | 1 server, 2 handlers, 3 processes | `LiveIsWatched`, `AutoRestart`, `TypeOK` |
| configs | 1 server, 2 roots, 2 jars (one written in two calls), 2 handlers, 3 requests, 1 fault | `AloneAsPromised`, `PartialIsBeingWritten`, `GoneUntilCreated`, `TypeOK` |
| tui | 2 servers, 2 streams, 1 command, channel and connection of 1 line | `CursorOnARow`, `NeverStranded`, `NoStreamForgotten`, `SavesWhatItShows`, `QuitEnds`, `TypeOK` |
| panel | 2 goroutines, 3 calls, 1 fault, 2 ports, 3 owners (two whose ids begin alike), 2 slots for names, 1 schedule run | `FirstComeKeepsKey`, `RowAgreesWithAgent`, `CronMatchesRows`, `RecordUsable`, `DeletedStaysDeleted`, `TypeOK` |
| stop_leaves, restore, agent_stop | as small as the counterexample | the claims of section 5, each violated |

`Handles` bounds the spawns of a behaviour: when all are used, spawning is no
longer enabled, only its failure. `MaxRespawnAttempts` is 1 or 2 instead of 5:
the code compares, and 2^attempts only sets a delay. Two handles give every pair
of old and new handle of a server, and a respawn followed by giving up; three
give a watcher that comes to watch a handle that is neither its own nor the one
it was launched for. One client and StopAll's goroutine are two callers of one
server. The channel's 512 becomes 2, so that it fills. Safety of the
supervisor does not depend on these bounds: it is proved (section 4).

In `agent`, three processes give two starts that overlap and a respawn by either
watchdog, and more watchdogs than handlers. Only clients that start and stop
appear in `agent_stop`, since a restart is meant to bring the server back.

In `log_broadcast` deadlock is not checked: when the process has ended and the
streams have too, the broadcast is finished. The same holds of `configs` and
`panel` when the calls are used up, and of `tui` when the process has ended.
Everywhere else a deadlock would be reported.

In `configs`, three requests give any two that overlap after one that prepared
the files (or before one that finds what they left), the fault a write cut short
or a reboot into what they left. Two jars of different length give every way two
uploads can mix: the tail of the longer behind the head of the shorter, and each
order of the writes. Servers share no file, so one id is enough; two
roots give `Torn`. In `tui`, two servers give a cursor that can be past the end,
two rows that change places, and a form whose server is no longer selected; two
streams give one that is forgotten behind another; a channel of one line fills.
In `panel`, three calls give a create and two requests on what it created, in
every interleaving of two goroutines; the restart of a server is two power calls
in one. Two ports are exhausted by two of three assigns. Two owners with one
`Short` share a MySQL user, the third shows that others are left alone.

### Fairness

Weak fairness of each goroutine's next step (the Go scheduler runs what can run;
`sync.RWMutex` starves nobody, and lock waits are within an action), of the
waiter, and of the end of a process that was killed. Nothing makes a process end
on its own, a client call, or a daemon boot or shut down. `ShutdownEnds` reads
"each accepted connection has sent its request": the model has no silent
connections, for which `connWg.Wait` does wait for ever. In `StateFile` fairness
is strong, because the mutex is an action of its own there. In `LogBroadcast`
only clients in `Reading` are assumed to accept what they are sent. In `Agent`
each handler and each watchdog is a task of tokio, which runs what can run; its
mutex is first come, first served. No process is assumed to end: `AutoRestart`
speaks of those that have. In `Tui` the goroutines of commands and streams run,
requests are answered (which `EveryCallReturns` shows of the supervisor), and once
Shutdown has stopped the servers each log handler whose handle StopAll did stop
finds its channel closed unless it is stuck in a write (`StreamsEnd` of
`LogBroadcast`). Nothing is assumed of a stream StopAll missed, whose process may
run for ever, and `QuitEnds` excepts it: it says that the process ends unless a
handler is stuck in a write or was missed. Nobody has to press a key, and no line
has to be printed.

## 4. Theorems

All are proved for every value of the constants that satisfies the assumptions
of their module, which say that names which stand for "nothing" or "unreadable"
are nobody's (a handle is not `None`, no state is `Torn`) and that bounds are
natural numbers; a channel holds at least one line (the code makes it with
capacity 512), and requests name servers that may have been created. `IsFiniteSet(Ids)` of
`TuiAssumption` is the one that says more: a list on the screen is finite.

Every module has an `IInv` (`QInv` in SupervisorQuietProofs) that is inductive,
since none of the properties is by itself. Each was checked with TLC, as an
invariant of the run of its component, before it was proved. One lemma per
action, or per group of actions of one actor, shows that a step keeps it.

| Module | Invariant of the proof | Properties proved |
|---|---|---|
| SupervisorProofs | `Invariance` | `RunningIsPersisted`, `RegisteredIsWatched`, `MarkedIsInHand`, `SpawnedIsPrivate`, `TypeOK` |
| SupervisorQuietProofs | `QuietInvariance` | `KeepsPromise` (refinement), `ShutdownIsClean`, `StopIsRemembered` |
| StateFileProofs | `StateFileInvariance` | `NeverTorn`, `RenamesOwnState`, `ImplementsAtomicState` (refinement) |
| LogBroadcastProofs | `LogInvariance` | `OpenIffSubscribed`, `NothingLostUnlessFull`, `OrderKept`, `TypeOK` |
| AgentProofs | its `IInv` | `LiveIsWatched`, `TypeOK` |
| ConfigurationsProofs | `ConfigurationsInvariance` | `AloneAsPromised`, `PartialIsBeingWritten`, `GoneUntilCreated`, `TypeOK` |
| TuiProofs | `TuiInvariance` | `CursorOnARow`, `NeverStranded`, `NoStreamForgotten`, `SavesWhatItShows`, `TypeOK` |
| PanelProofs | `PanelInvariance` | `FirstComeKeepsKey`, `RowAgreesWithAgent`, `CronMatchesRows`, `RecordUsable`, `DeletedStaysDeleted`, `TypeOK` |

These are all the invariants, all the action properties and both refinements
that the passing runs check. Only model-checked are the liveness properties,
`EveryCallReturns`, `DeadHandleLeaves`, `ShutdownEnds`, `EverySaveReturns`,
`StreamsEnd`, `ReadersEnd`, `AutoRestart` and `QuitEnds`: they need fairness,
hence ENABLED, which the prover does not handle. The refinements are those of
the safety part of each specification; the abstract ones state no fairness.

### SupervisorProofs

From `ConstantsAssumption`, for any number of servers, clients, handles and
attempts. `IInv` adds to the properties:

- `MapOK`: a registered handle belongs to its id and was spawned by this daemon.
  Without it a step on one server could change what the map says of another.
- `CallOK`, `WatchOK`: what a caller or a watcher holds at each place: a handle
  of its server, marked once past `marked`, done once past `exited`, no longer
  running once `stopping` was written. This is what makes "save, then delete" of
  Stop leave a correct file, and giving up remove only a dead entry.
- `FreshOK`: a handle that is not born yet is nobody's. It gives
  `SpawnedIsPrivate` after a spawn.
- `DaemonOK`: nothing is registered, called or watched while the daemon is down,
  and what StopAll's goroutines are.

### SupervisorQuietProofs

A step in a quiet environment is a step of the supervisor (`QuietIsASupervisor`),
so `IInv` of SupervisorProofs holds too. `QInv` adds what the environment buys:

- `OneCaller`, `BusyOK`, `WaitingOK`: a server is in the hands of one caller or
  of the watcher of its registered handle, never of both. A watcher that only
  waits looks at its own handle.
- `CallersOK`: what is registered for the server a caller is about, at each
  place of its call; `AliveOK`: a process is the one registered for its server
  or the one that the caller or watcher in charge has just spawned. The two give
  `OneProcess`: a server never has two.
- `StatusesOK`: a process nobody stops says running, so Start is right to
  believe the status.
- `RestoringOK`, `DrainingOK`: nobody calls before the daemon serves, and
  StopAll has one call under way for each server still registered.

The mapping takes `on` for the servers with an entry and `procs` for the
processes alive. Start and Restore switch on, the respawns of Restart and of a
watcher launch again, the deletions of an entry switch off, an exit ends the one
process there is; every other step stutters.

### StateFileProofs

From `StatesAssumption` and `SaversAssumption`. Whoever is past `mu.Lock` is the
only one (`OneHolder`), hence what it wrote is still in the temporary file when
it renames (`OwnsTmp`). The rename is the step of `AtomicState`, a power failure
its choice among the contents the disk may have, and the rest stutters.

### LogBroadcastProofs

From `BroadcastAssumption`, for any capacity and any number of lines. What a
stream has got and what its channel still holds are one sequence, `Out`. A
receive moves a line from one part to the other (`MoveHead`), a send appends to
it (`AppendToConcat`) and to the log (`SubSeqAppend`), or drops the line.
`LinesOK` says that a line that is about to be sent is later than all its
reader sent before, which gives `OrderKept`; `StreamsOK` that a stream of an open
broadcast is subscribed, which gives `NothingLostUnlessFull` at the send.

### AgentProofs

From `NoneAssumption` and `OpsAssumption`. The invariant adds what requests and
watchdogs hold (`TasksHold`, `DogsHold`). The argument for `LiveIsWatched` has two
lemmas: a watchdog keeps looking at its server until it marks it, which clears
the pid (`StillWatched`), and whoever puts a pid into an entry watches it
afterwards (`NewlyWatched`).

### ConfigurationsProofs

From `ConfigurationsAssumption`, for any number of servers, roots and requests.

- `TasksOK`: what each request holds at each system call, and which requests
  come to it.
- `EntriesOK`: there is no file without its directory, and an open file is in
  it until it is unlinked; with it `PartialOK`, which says of `opd.json` what
  `PartialIsBeingWritten` says, and `JarsOK`, which says of a jar which upload a
  missing part of it waits for, and that one upload at a time (until the path is in
  `met`) leaves there exactly what it has written so far.
- `SoloOK` is what `AloneAsPromised` needs. While `solo` records a request that
  has had the daemon to itself, what it has found out (`FoundOK`) and what it has
  done to the files by each step (`DoneOK`) are written as functions of the state
  it began in; when it answers, that is `Alone`. A second request, an error, a
  reboot or a process that ends clears `solo`.

`GoneUntilCreated` follows from `TypeOK` and `TasksOK`: to write a configuration takes a
request that has loaded or made one.

### TuiProofs

From `TuiAssumption`, for any number of servers and streams. `FormOK` (in the
settings view the active server is the one of the form) makes
`SavesWhatItShows` hold at the key that saves; `DialOK` (while a stream connects
none is registered, unless `overlap`) makes `NoStreamForgotten` hold when it has
connected; `CmdOK` keeps the commands apart from the free slots. The cursor is
clamped with each list, whatever rows come.

### PanelProofs

From `PanelAssumption`, `WorkloadsAssumption` and `ResourcesAssumption`, for any
number of goroutines, calls, rows, faults and restarts. No lock is held from
statement to statement, so the invariant says what each request knows about the
copy it holds, at each statement:

- `TasksOK`: each request has a number of its own. Ids of rows are such
  numbers, so the row a Create holds is in no table and in no other request's
  hand; this, and the check in the INSERT, which is atomic where the look-up of
  Create, Add and Assign is not, is why the first to have a key keeps it.
- `ServersOK`, `AllocationsOK`, `SubusersOK`: an UPDATE writes back a copy, and
  the key in the copy is the one that is stored.
- `StatusOK`: on a server that has not drifted there is at most one power call,
  and only between the agent's answer and its write does the row lag behind.
- `EntriesOK`: an entry of the cron library is named by one call, and `entries`
  names only entries of the same schedule. `SchedulesOK` and `CronOK`: on a
  schedule that is not tangled there is one request, and `Progress` says at each
  of its statements what is in the table, in cron and in `entries`.
- `DatabasesOK`: after each statement of Create what MySQL has by then, unless
  there was a Delete of a database whose name begins alike, be it of another
  server; the record comes last.

A step touches one table; a lemma per table (`SchedulesRest`, `ResourcesRest`, ...)
says that the others keep their part of the invariant meanwhile.

## 5. Where the code disagrees with its documentation

Each is a run that ends in a counterexample.

- `stop_leaves`: a Stop during the backoff reports "stopped", and the server
  comes back, since `watch` looks at `IntentionallyStopped` only before it
  sleeps. One client suffices. StopAll runs the same Stop on a snapshot of the
  ids, so a shutdown inherits it, and may miss an accepted Start besides.
- `restore`: RestoreState's first Start overwrites the list it is restoring.
- `agent_stop`: the agent's watchdog starts a stopped server again after some
  seconds, because nothing raises `intentional_stop`; README of the agent:
  "Graceful stop", in the line before "Restart".

Seen while modelling, and allowed by the modules, without a run of their own:

- A Start during a watcher's backoff, or while a Restart waits, gives one server
  two processes, and the map forgets one of them; README of the CLI:
  "process.Handle - one per server". `KeepsPromise` fails without the assumption
  of `SupervisorQuiet`.
- The agent: no code sets the status Running, so it neither notices a crash nor
  lets a crashed server be started; a watchdog that marks an entry a start has
  just replaced loses a live process.
- Configurations: Remove tests IsRunning before it deletes, so it may delete the
  files of a server that a Start launches meanwhile; two creates of one id may
  both succeed; of two settings requests that overlap one update is lost; a
  plugins request puts the directory of a removed server back, and CmdCreate then
  refuses the id while everything else reports it missing; two uploads of one
  plugin may leave the head of one jar and the tail of the other, with no error
  anywhere (server.go:486); a change of the root while a settings request is under
  way writes the configuration elsewhere.
- A respawn uses the configuration of the last Start or Restart, not what was
  saved since; `auto_restart` is stored and read by nothing (config.go:86).
- The terminal interface sends no flags with its settings: saving them empties
  `java_flags` and clears `auto_restart` (model.go:610, daemon.go:223). A stream
  that is left with a full channel keeps its handler in a write, and Shutdown
  waits for it for ever, as it does for a stream on a handle StopAll did not stop:
  after a crash, a Start in the backoff and a stream on the new handle, the
  watcher registers over it, and no map knows it any more. Of two streams
  that connect at once the first is never cancelled; a create answered late closes
  the view a stream runs in. A delete is confirmed for the row under the cursor,
  whichever it is by then.
- The panel: no code writes the status running, so Delete's guard never holds it
  back, and a Stop is refused only by the status of the row; a scheduled start or
  stop writes no row. After a restart no stored schedule fires until it is
  updated. Deleting a server leaves its schedules, which go on firing: the
  migrations say ON DELETE CASCADE, opdd makes tables without it and foreign keys
  are off. On tables made by opdd no subuser can be added and no database
  recorded, since the statements name columns they lack; each Create of a database
  then leaves a MySQL database and a user behind. The second database of a server
  is given a password MySQL ignores, and deleting one drops the user of all. MySQL
  names hold the first eight characters of the server's id, so servers whose ids
  begin alike share the user (database.go:35-38) and lose it together. Create of
  a server and Add of a subuser ignore the error of their look-up (server.go:37,
  subuser.go:23), and leave it to the UNIQUE columns to refuse the row.

## 6. Not modelled

The read-only operations (List, Metrics, disks, the file browser), the Java
arguments, rendering, wording and layout; the SendCommand of a client (it writes
to stdin only); connections that never send a request, and those of other clients
in `Tui`; a line of more than 64 KiB, at which the scanner of a pipe stops while
the process runs on (handle.go:102); a failed save of the state file in
`Supervisor`, whose error the callers drop. The jar cache of the
panel (`versions`): its manager is constructed and called by nothing. The
agent's files, backups, metrics and authentication, and the web interface: single
I/O calls without state that outlives a request. The CLI of the panel names
actions the router does not know (tunnels, backups, logs, versions): they are
answered with an error and change nothing. Each has its reason in `PROJECT.json`.

## 7. Plan

All components with state of their own are modelled, and what their runs check
of safety is proved. What is left:

1. The long case analyses of ConfigurationsProofs and PanelProofs could share
   more lemmas: one for the requests that do not move, one for an UPDATE of a
   copy, whatever the table.
2. Lemmas on the operators themselves that say more than the invariants need:
   what `Alone` of Configurations does to two requests in either order, hence
   which pairs of requests commute.
3. The liveness properties stay with TLC.
