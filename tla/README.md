# A TLA+ verification of Ampehre

Ampehre measures the energy, power, temperature and utilisation of the devices
of a heterogeneous node. These modules model the parts of it in which threads,
callbacks, processes and files meet and the computations whose results a user
sees, check them with TLC on small instances, and prove with TLAPS what matters
most for every value of the constants.

## The system

| component | state | operations | hard part | modules |
|---|---|---|---|---|
| measurement threads, `libmeasure/common` | thread objects, start mutexes, `mStartSem`, timer mutexes, stop flags | `ms_init/start/stop/join/fini_measurement` | a start handshake, a mutex used as a binary semaphore, flags written by two threads | `MeasureThreads`, `MeasurementSession` |
| worker loops, `libmeasure/*/CMeasure*Thread.cpp` | control, sums of the samples | `run()` | a stop may come at any point of a round; counters wrap | `MeasureThreads`, `WorkerRounds` |
| device access, `libmeasure/*/CMeasure*.cpp` | registers, vendor handles, settings of the device | `init()`, `measure()`, `destroy()` | settings outlive the process that an error ends | `Devices`, `WorkerRounds` |
| kernel driver, `driver/driver_measure.c` | open count, file positions, IPMI answer, message id, timeout and its lock | `open`, `close`, `lseek`, `read`, `write`, `ioctl`, IPMI callback | answers that come after the timeout, early returns that hold a mutex, kinds of values told apart by position and size | `IpmiRequest`, `DriverUsers`, `DriverFile` |
| monitor, `utilities/msmonitor` | ring buffers, collecting thread, timers, curves | push, reset, `getDataPtr`, start, stop, refresh, quit | the plots keep raw pointers while the thread pushes | `RingBuffer`, `SlidingWindow`, `Monitor`, `Heatmap`, `Reports` |
| server of `utilities/msmonitor_cs` | registry of clients, a thread per connection | register, request, terminate, accept | shared vectors without locks, a limit on clients | `MsmServer` |
| client of `utilities/msmonitor_cs` | the row in memory, plots, heat maps, settings | start, stop, timers, redraw, show, message boxes | event loops nested in message boxes, vectors that are kept in step by hand | `ClientData`, `ClientPlots`, `ClientWindow` |
| apapi, `apapi/library/libapapi` | files, event sets, sampling timers, statistics | init, create, start, stop, join, destroy | life cycle of the timer's thread, files that are partly wrong, buffers reused | `EventFiles`, `DefaultEvents`, `ApapiTimer`, `ApapiSampling` |
| libmeasure on apapi, `apapi/library/libmeasure_apapi` | enabled components, maps to the measurement structs | `ms_init`, `ms_init_measurement`, the callback | a table of copied blocks that differ in a name, a type and a factor | `ApapiMapper`, `ApapiEvents`, `ApapiSampling` |
| hettime, `utilities/hettime` | parent, child, their semaphore | one run, from options to output | fork, errors that end the process anywhere | `Hettime`, `Reports` |
| wrappers, `misc/libraries` | intervals (phases of tasks, measurements of a node) | init, start and stop of an interval, transfer, free | sums are read while the worker adds to them | `Wrappers`, `DriverFile` (IPMI wrapper) |
| `driver_ipmi`, `amsr`, tools | - | register access | - | only `gpu_management`, in `Devices` |

A caller sets up an `MS_SYSTEM` and a list of measurement structs, calls
`ms_init_measurement` with the kinds it wants, then start, stop, join and fini.
libmeasure loads one plugin for each kind (CPU, GPU, FPGA, SYSTEM, MIC); a kind
built without a plugin gets a stub that has no thread. A plugin's worker reads
its device directly or through the kernel driver and adds to the measurement
struct, which the caller reads after the join, and the monitor while it runs.
`libms_common_apapi` offers the same interface and measures with `libapapi`
instead. hettime and the monitors call either. The client/server monitor sends
the rows of a collecting server over TCP to clients on other machines.

What makes each part correct: the threads start together and end before the
results are used, and the results are what was read (libmeasure); the child runs
under measurement from start to end (hettime); a request gets its own answer or
an error (driver); a plot shows the last samples, in order, at their times
(monitor, client); a client is answered about its own registration (server);
every timer started is stopped, and the statistics and fields are those of this
measurement and of the files (apapi).

## The modules

### MeasureThreads, and what it promises: MeasurementSession

`MeasureThreads` is `libmeasure/common` with one client. `Kind` is `1 .. N`,
the five bits of `ALL` in the code; `Real` are the kinds whose plugin is not
the stub.

| module | code |
|---|---|
| `pc`, `i` | the client inside `ms_*`, and the index of its loop over the kinds |
| `thread` | kinds with a `mpResourceThread` |
| `mutexStart[k]` | `mMutexStartResource`: locked by the client, unlocked by worker or stub |
| `startSem` | `CMgmt::mStartSem` |
| `timerMutex[k]` | `mMutexTimer`: unlocked by the timer at each tick, locked by the worker |
| `worker[k]`, `workerStop[k]` | a plugin's `run()` and its `mThreadStateStop` |
| `timer[k]`, `timerStop[k]` | `CMeasureThreadTimer::run` and its flag |
| `late[k]` | history: rounds finished after the flag was set |

Each action is one piece of code between two points at which another thread
can be seen: a lock, a semaphore, a flag. The five plugins share the control
flow of `run()`; the actions `Worker...` name the lines of the CPU plugin.
Two loops of the client are one action each. The ten `sem_post` calls are one
action at the time of the first of them: the tokens that come later are there
a little earlier than in the code, which only adds behaviours, and the client
does nothing else in between. The unlocking of the start mutexes is one
because no thread uses them at that point. Mutexes behave as the default kind
of the GNU C library: an unlock by another thread, or of a free mutex, leaves
the mutex free.

The order init, start, stop, join, fini is that of every caller in the
repository. Starting a stopped measurement again is excluded by the manual
(`docs/het_node_doc/software.tex:187`), but a second measurement may be set up on
the same `MS_SYSTEM` (`MaxCycles`).

`MeasurementSession` says what a caller relies on: the requested kinds prepare,
one gate opens when all of them are armed, they measure, and once the caller has
ended the measurement all finish before the results are handed out.
`SessionPhase`, `SessionOpen` and `SessionEnding` map the threads to it, and
`SessionSpec` is the refinement.

### RingBuffer, and what it promises: SlidingWindow

`RingBuffer` is `CRingBuffer.hpp` of the monitor between two threads without a
lock: the collecting thread pushes, the thread of the plots takes a raw pointer
and reads through it until its next refresh.

| module | code |
|---|---|
| `mpData`, `mFirst`, `mSecond` | the members of `CRingBuffer`; the array has three thirds of `Size` |
| `PushData`, `PushMirror`, `PushAdvance` | the three writes of `push_back` that a plot can see |
| `Reset` | `CDataMeasurement::reset`, while no collecting thread runs |
| `TakeDataPtr` | `getDataPtr` in a plot's `setupCurves`, at any moment |
| `ptr`, `seen`, `age` | the plot's pointer; history: what it showed, pushes since |

`Word` stands for 2^32: `mFirst` is unsigned and wraps below zero while
`mSecond` is in the middle third. The stores are taken to reach memory in
program order. `SlidingWindow` is the promise: the last `Size` values in order.
`RingBuffer` implements it with the window that begins at `getDataPtr`.

### IpmiRequest

`driver_read` of an IPMI sensor, `ipmi_request` and the callback
`ipmi_msg_handler` in `driver/driver_measure.c`.

| module | code |
|---|---|
| `msgid`, `datarc_length`, `datarc`, `read_complete` | `IPMI_DATA`, one for all processes |
| `Lock` .. `EndRequest` | `ipmi_request` between `mutex_lock` and `mutex_unlock` |
| `ReadLength`, `CopyToUser` | the rest of `driver_read`, after the unlock |
| `HandlerTake` .. `HandlerComplete` | the callback, which takes no mutex |
| `pending` | requests the BMC has not answered; external |
| `own`, `got` | history: the reader's last request and what it was given |

The id of a request stands for the request, its length and its bytes, so that a
foreign answer can be told from the reader's own. Answers come late or never.
They come in the order of the requests because the system interface of a BMC
carries one message at a time. Two assumptions on the surroundings have names:

* `PromptCallback`: a callback that runs has ended before the next request
  begins. Without it `AnswerIsOwn` fails with a single reader: a callback that
  has compared the ids when its request expires stores into the next one.
* `Accepts`: the IPMI layer refuses no request. Without it `ReadIsOwn` fails at
  once: `ipmi_request` returns a negative error number, `driver_read` negates it,
  and `read()` returns a count.

### DriverUsers

`driver_open`, `driver_close` and `driver_ioctl` of the same file, and what all
processes share: the count `opened`, the IPMI user, `/proc/meminfo`, the timeout
of IPMI requests and its lock. `driver_open` works under `ipmi_mutex` but for
its last part (`OpenSetup`); `driver_close` under no mutex, so `opened--` is a
load and a store. Kernel mutexes have no owner here: an unlock by anyone leaves
the mutex free. Two assumptions on the callers have names:

* `Serial`: opens and closes do not overlap. Without it a close and an open, or two
  closes, lose an update of `opened`, and the count no longer is the number of openings
  (`CountsOpens` fails).
* `SetThenGet`: a process that sets the timeout reads it next, as
  `CMeasureIPMI::setIPMITimeout` does. Without it `IoctlReturns` fails: a bad
  timeout makes `IOC_SET_IPMI_TIMEOUT` return with `ioctl_mutex` locked, and only
  `IOC_GET_IPMI_TIMEOUT`, which unlocks without having locked, frees it.

The last close forgets the lock of the timeout and the next open resets the
timeout (`ReleasedAtLastClose`), though the manual names only another lock or
reloading the module as ways to change it. `SharedWhileOpen` is that together with
`UsersServed`: the IPMI user and `/proc/meminfo` are there while anyone holds the file open.

### DriverFile

The third part of the driver: `lseek`, `read` and `write`, from the side of
those who use them, `CMeasureMSR` and the IPMI wrapper with `CMeasureIPMI`.

| module | code |
|---|---|
| `f_pos[f]` | the position `driver_lseek` stores: whence, core or command, register, record or sensor |
| `todo[f]`, `sought[f]` | the user's requests in their order; whether the `lseek` of the first one is done |
| `Delivered` | the tests of `driver_read`, one after another, on position and size |
| `state[f]`, `tries[f]` | of the user: `init()`, `measure()`, ended, refused; tries to set the energy to zero |
| `counter`, `worked` | the performance counters of each core; history: the same without the writes |
| `temp[f]`, `distance[f]` | the last reading of a counter and the distance computed from it |
| `got[f]`, `misled[f]` | history: what was read and what was wanted; a request was refused |

The users keep a file each, so a position is not shared, but the driver's idea of which
positions mean what must fit theirs: the numbers of cores they are built for
(`CoresAssumption`), the core 0xff that stands for the memory where `lseek`
accepts no fourth whence (`MemInfoAssumption`), and the sizes, which alone
tell some requests apart. The counters are shared: every process sets
those of all cores to zero when it starts. What the IPMI layer
does with a request is `IpmiRequest`'s; here it answers, times out, fails or refuses.

### WorkerRounds, Devices and Hettime

`WorkerRounds` holds what the workers of the five plugins do with their struct,
as operators on the struct `m`, the machine `h` and the settings `s`: `Measure`
(what `measure()` may leave behind, with the IPMI requests that time out), the
first reading, a round, the averages. One core, one rail, one
quantity stands for its fellows. The register of the CPU is `h.energy` modulo
`CounterSize`, so that it wraps. `Devices` holds `init()` and `destroy()` of the
plugins as sets of outcomes: a process that goes on, or one that calls `exit()`
and puts nothing back. cpufreq's rule that a policy's minimum is not above its
maximum is external; the GPU's modes are set by `gpu_management`, which the
plugin calls.

`Hettime` composes both with `MeasureThreads`: a process of hettime reads its
options, sets up the devices, forks, starts, lets the child go through the
semaphore `sync`, waits, stops, joins, prints and cleans up, and another process
with other settings follows on the same machine.

| module | code |
|---|---|
| `main` | where `main()` of `hettime.c` and `run` and `exec_app` of `measure.c` are |
| `child`, `sync` | the forked process and the semaphore in shared memory |
| `device` | settings of the devices, which outlive a process |
| `ms`, `hw` | `MS_MEASUREMENT_*` of the plugin; the machine (external) |
| `seen` | history: what was read since the first reading |

`plugin` picks one of the five at `HInit`; the others are stubs, as the build
configuration allows. A worker's step of `MeasureThreads` is joined with the
round of `WorkerRounds` that it stands for. Any error met by a plugin or by
`main()` is the exit of the process, and the next process finds the devices as they
were left. A worker may exit in every reading (`first`, `sample`), and while it prepares
(`clear`) where the plugin asks its device before the gate: the memory of the GPU
(`CMeasureNVML.cpp:322`) and of the MIC, the timeout of IPMI (`CMeasureIPMI.cpp:271`).

### Wrappers

Programs that measure themselves: a scheduler with `taskwrapper` and `hetschedwrapper`,
a program with `hetnodewrapper`, a script with `pythonwrapper`. `Wrappers` EXTENDS
`Hettime`: the measuring process goes through the same steps with the
settings and resources the wrapper fixes, and in place of a child there are
the threads of the program, each with its interval.

| module | code |
|---|---|
| `program` | which wrapper the program uses |
| `cell[v][q]` | what the wrapper keeps of a quantity: `cur_*` and `acc_*`, or `temp_data[]` |
| `call[v]` | the start or stop under way and the quantities it has not captured yet |
| `started[v]`, `calls[v]` | node: the flag of the interval; starts so far |
| `Transfer` | `mshetsched_get_all`, what the scheduler's client is sent |
| `inside[v][q]` | history: what the worker has added while the interval was open |

A start and a stop read one sum after another without a lock, the worker adds in between. Each
interval is used by one thread, and the wrapper's two functions are called
in turns, which `taskwrapper` leaves to its caller and `hetnodewrapper` checks.
The server's energy is left out of `NodeCounts`: it is stored at the stop as it stands.

### Monitor and Heatmap

`Monitor` is the life cycle of msmonitor: the user interface, the collecting
thread (`CDataLibrary`), its timer (`CDataTimer`) and a `CGuiTimer` per form whose
refresh is a queued signal.

| module | code |
|---|---|
| `gui` | the step of the user interface: buttons, `pressStop`, destructors |
| `library`, `mThreadStateStop`, `mMutexTimer` | the collecting thread |
| `timer`, `timerStop`; `form[f]`, `formStop[f]` | the timers and their flags |
| `queued[f]` | refreshes emitted and not executed |
| `allocation`, `rows` | which buffers exist; values pushed to those of x and of y |
| `curve[p]` | what a plot's curves point to: the allocation, and the rows seen |

A buffer is a count here; that its pointer shows the last values is what
`RingBuffer` shows. Pointers to x and y are taken in two steps, a row is pushed
in two steps. `Heatmap` EXTENDS `RingBuffer`: the buffer holds the times of the rows,
and at each refresh a heat map moves its axis on, computes back the index it
starts at and fills its cells; unsigned arithmetic wraps at `Word`.

### MsmServer

The server of the client/server monitor (`utilities/msmonitor_cs`): the acceptor,
a thread for each connection and the clients.

| module | code |
|---|---|
| `stage[k]`, `request[k]`, `mReg[k]` | the client: how far it is, its message that is not answered yet, the registry it was told |
| `task[k]`, `mRegistry[k]`, `newReg[k]` | `clientTask`: its place, `CComTCPData::mRegistry`, the `reg` of `registerClient` |
| `mRegClients`, `mIterator` | the list of registrations and the member iterator that `ut::find` sets |
| `mTimesForClients` | the registries with a time, that is, not -1 |
| `mDataVec`, `acceptor`, `index` | the vectors of connections, `acceptLoop` and the `i` of `controlClients` |
| `reset` | connections over which an answer went to a client that is gone |
| `server` | "down": exited, or after undefined behaviour |
| `troubles` | history: clients that dropped out or were too slow |

A client waits for each answer, so a message and its answer are a record each,
not a channel; the queue of connections is taken in any order. A request for
data is two steps, since it uses the iterator after the search; registering and
terminating are two as well. The CPU time since a client's last request is
arbitrary: the acceptor may find a client too slow at any look, but within
`MaxTroubles` unless it is gone. An erased iterator, data of a thread that has
ended and an index behind a vector are undefined behaviour: the first and the
last take the server down, the second reads any registry. `dataCode` is the
connection's own name, so that one client's answer can be told from another's.
Left out: the format of the messages, `pthread_create` failing, the handler of
SIGINT and the list of applications. `OneHandler` is an assumption on the
surroundings that no line of the code enforces: a handler ends before the next
one begins. The acceptor erases registrations only between handlers then, too.
With `FALSE` the handlers overlap as the threads of the server do.

### ClientData, ClientPlots and ClientWindow

The client of msmonitor_cs. `ClientData` is the way of a row: the 64 bit code of
the wanted values as the set of its bits, its eight characters on the wire (each
20 more than its byte), the signed characters the server decodes, the values and
strings of the answer, what `extractData` takes from them. `ClientPlots` is
`QMSMplot` and its five subclasses. The subclasses differ in the curves they
name, and each of their functions names them again, so that a plot is the record
of what its functions name (`PowerInit`, `PowerDrawn`, `PowerShown`, `PowerErased`,
...) and `Update` and `Curve` are the common bodies of `updateValues` and `redraw`:
a name left out of one of them shows. Heat maps, overview and CSV export are
there too.

`ClientWindow` is `mainwindow.cpp` with one view: start, stop, `requestData` with an
answer, a slow exchange or a failure, the message boxes of the latter two, redraw,
show, settings, import of a configuration, signals of applications, a server that
stops and comes back.

| module | code |
|---|---|
| `view`, `set`, `shown` | the view, the settings of its rows, the connections `show*` made |
| `mpTimer`, `mpGuiTimer` | active or not |
| `mValues`, `strings` | the row in memory; `mValues_pid` |
| `boxes` | open message boxes, each with the slots that run when it closes |
| `crashed` | the access outside a vector that ended the client |
| `answered`, `got`, `all` | history: rows answered and rows the view got |

A read behind the end of a vector is `Garbage`, an erase of an empty one or a
read of a vector that was never filled ends the client. `rare` counts shows but
the first, boxes after slow exchanges, changed settings, signals and stops of the
server, and `MaxRare` bounds them together.

### ApapiTimer

The sampling timers of `libapapi` and a client that uses them as
`libms_common_apapi` and `atime` do and keeps the rules of `apapi.h`: it
prepares a timer before it starts it and tells it to stop before it joins it.

| module | code |
|---|---|
| `timer[c]` | `struct apapi_timer`: `state` (`NULL`: freed), `mutex`, `interrupt` |
| `thread[c]` | `_apapi_timer_thread`: its place, and whether it has got the mutex |
| `eventset[c]` | does PAPI count; `count` of the set; a final sample was taken |
| `call[c]` | the call in which the client waits for this timer |
| `asked[c]` | history: it was told to stop since its last reset |

The mutex is an alarm clock: the thread holds it and waits for it with a
timeout. A timeout is a sample, and an unlock by the client is the signal to
stop. Threads and memory can be had; the values of the samples, timers without
an event set and `PAPI_start` failing for other reasons than that the set counts
are left out. Two assumptions on the client have names:

* `PromptStop = FALSE`: it does not stop a timer whose thread has not taken the
  mutex yet. With `TRUE` the unlock of the stop finds a free mutex and is lost:
  `CallsReturn` fails.
* `DestroyUnstarted = FALSE`: it destroys no timer it has not started.
  `APAPI_destroy_timer` calls `APAPI_interrupt_timer`, which refuses a READY
  timer: with `TRUE` the thread stays at the mutex of a freed timer.

### EventFiles, DefaultEvents, ApapiMapper, Reports and ApapiEvents

From the environment of a process to the numbers it reports. `EventFiles` is
`apapi_defaults.c`: which lines of a file count, when a malformed one drops the
whole file, sorting by components, the first definition of an event. A file is a
sequence of records, already split where the code splits it. `DefaultEvents` are
the two files in the repository. `ApapiMapper` is the table `__create_mapper` makes, as a
set of rules: an event, and the entries (source, statistic, prefix, field, type,
factor) it adds to the map of every sample and to that of the last one. `Reports`
is the other end: the getters, the three outputs of hettime, what msmonitor
pushes and shows, each field with its unit.

`ApapiEvents` is `ms_init` and `ms_init_measurement` on top of them:

| module | code |
|---|---|
| `env` | the files, variables and PAPI components a process may find |
| `at` | the step of `APAPI_init`, `ms_init`, `ms_init_measurement` |
| `errno` | `strtoll` and the readers look at it without clearing it first |
| `default`, `user` | the lists and operations read |
| `enabled`, `set[c]` | components found; the event set of each |

Assumptions, each with its name: `CleanErrno`, no call before has left an error in
`errno` when the user's files are read; `EnvironmentAssumption` and
`OfferedAssumption`, the files and what PAPI offers are sequences, an event of a component
offered as that component's; `ShippedAssumption`, the default files are
those of `libapapi`: a default list that can be read names every event the maps know, the
line of an event is the shipped one (other lines may follow, lines may be missing);
`BoardAssumption`, there are the packages 0 and 1 and the cores 0 to 3 that hettime prints, and no
more than the map of `rapl` has room for, which is 100 entries with the one at its end. The 2 packages
of 4 cores of `ms_cpu_intel_xeon_sandy.h` need at most 64; 2 packages of 9 cores would not fit.

### ApapiSampling

A sample of one event set: swap the buffers, read the counters, take the time,
repair what has wrapped, fold into the statistics, and the callback that copies
to the fields. Ratios are exact; the code has long doubles. A timer that is
destroyed leaves its buffers to the next timer of the set. With `Softfail` a
failed `PAPI_read` leaves the older values.

## What the runs show

| run | question | properties |
|---|---|---|
| `threads_once` | one measurement, every subset of three kinds requested | `StartsTogether`, `OneLateRound`, `ResultsFinal`, `WorkersEnd`, `SessionSpec` |
| `threads_again` | two measurements on one `MS_SYSTEM` | `MeasurementCompletes` |
| `hettime_run` | two processes of hettime, each plugin; or of a program with a wrapper | `ResultsExact`, `MeasuredWhileRunning`, `DevicesRight`, `IntervalsCounted`, `RunEnds` |
| `ipmi_requests` | two readers, late answers | `AnswerIsOwn`, `ReadReturns` |
| `driver_users` | two processes open, close and set the timeout; or read the cpu; or one reads the system | `SharedWhileOpen`, `ReadingsRight`, `IoctlReturns` |
| `monitor` | threads, forms and buttons of msmonitor | `QuietWhenStopped`, `RowsInStep`, `FormsOutliveTimers`, `StopReturns`, `PlotsCatchUp` |
| `viewers` | what the two viewers show | `PointerGood`, `WindowSpec`, `HeatmapInWindow`, `DrawnRows`, `ExtremesHold`, `RowsAreAnswers`, `RunsOn` |
| `msm_server` | a server for two clients | `RegistriesDiffer`, `OrderlyStaysUp`, `RequestsHandled` |
| `apapi_library` | files and maps of apapi; or two sampling timers in every legal order | `SetsFollowFiles`, `MappingSound`, `EverythingReported`, `FinalOnRequest`, `DoneIsComplete`, `CallsReturn` |
| `apapi_sampling` | a set sampled by two timers in a row | `StatisticsOfMeasurement`, `EnergyReported` |

The other two are counterexamples, of one property each:

| run | what the code does | property |
|---|---|---|
| `msm_other_answer` | a client gets another client's values | `OwnAnswer` |
| `apapi_stale_sample` | every second sample is the one before | `MapsLastSample` |

`threads_once`: three kinds are the fewest with two workers that race and a stub
between them in the client's loops; the stop comes at any moment after the start.
Nobody measures before all workers are ready, every worker that is
told to stop ends even if its timer does not, a stop costs at most one more
round, after the join no thread runs, and the threads implement
`MeasurementSession`. `StartsTogether` and `SessionSpec` are about the first measurement
on an `MS_SYSTEM`: `ms_start_measurement` posts ten tokens whatever was
requested, and those nobody took open the gate of the next one early.

`threads_again`: start mutexes and tokens of the first measurement meet
the second. `MeasurementCompletes` says that a measurement whose start has been called is
started, stopped and joined; it needs that the client stops no earlier than the timer
threads have executed their first lines (`PromptStop = FALSE`).

`hettime_run`: an energy register of five values and at most two ticks of the clock,
so that a register can turn between two readings (the clock stands in the second run, of which
the devices alone are of interest); power of two levels, so
that a mean lies between two values; CPU frequencies of which the first run
may leave a narrow policy that the second has to widen; a GPU left in other modes by a
process that an error ended. Two runs are the fewest in which what is left behind
matters. With a wrapper one interval is started
twice, which is the fewest to tell a sum of intervals from the last one; the node runs on
the GPU with the same bounds and on the system with less than the last tick and one
power level, as the requests that may time out multiply its states. `RunEnds` is
liveness, the others are safety.

`ipmi_requests`: four ids are enough for two expired requests of each reader and
their late answers. A late answer is not taken for the next request, every read
returns.

`driver_users`: two processes suffice for a first opener, a second one and each
order of their closes; a largest timeout of two and arguments zero, one and
too large. `part` decides at the start which users move: those of the file as
a whole, two processes that measure the cpu, or one that measures the system. Two
cores are the fewest with a first and a last one next to the position that means all
of them; two rounds are needed for a distance, two sensors to mistake one for the other.
The numbers of cores of driver and library are equal, as the build sets them.

`monitor`: a form that plots raw samples and one that does not, two resets, two
rows, one queued refresh per form. Two rows tell a pointer that lags from one
that does not; more queued refreshes of a form all do what one does.

`viewers`: `viewer` decides at the start which of two programs moves; the other one
stands still. msmonitor: the sampling rates, buffered and shown times scaled down
so that every division leaves the remainder it leaves with the settings the
program starts with; 23 units of time take the buffer round its turn. Client: each of
the eight views; plots of 1, 2 or 3 rows for 60, 120 and 500 (the code compares
the lengths with the setting only), four rows, two starts and two rare events,
one fewer row for each turn spent on them (`MaxTurns`). Two rare
events are the fewest for a box inside a box or a show after a change.

`msm_server`: the third client comes when the server is full or has been; two
troubles are the fewest with which a slow client has shifted the vectors when
another one is judged by a wrong index. Registries stay different even when the
wrong client is erased. As long as nobody drops out or is slow, no
request is ignored and a registry is left for every client accepted. Handlers
do not overlap here; `msm_other_answer` shows what happens when they do.

`apapi_library`: `part` decides at the start which of two parts moves. The event sets: two packages of four cores, as in the shipped files; files that are shipped,
missing, partial, malformed, with duplicates, comments, unknown events;
with and without `APAPI_SOFTFAIL` and a list of components; PAPI with components
disabled; each environment is a behaviour of a few steps. The timers: they meet only in the
client, which waits for one at a time; two show that.

`apapi_sampling`: a counter of three values that advances by 0 or 2 and so
wraps within five units of time, a sensor with each operation. Two timers, because the
second finds the buffers of the first.

The counterexamples, with the sentence of the repository each refutes:

* `msm_other_answer`: "The server will only send back those values, which are requested by
  the client" (`protocol.tex:81`). The handlers overlap (`OneHandler = FALSE`), nobody is slow or
  drops out (`MaxTroubles = 0`), and `OwnAnswer` is about clients with different registries:
  one thread's search moves the shared `mIterator` between another's search and its use
  (`CServer.cpp:292`, `:294`). The first client then gets the values the other one asked for.
* `apapi_stale_sample`: the comment of `_apapi_timer_measure` (`apapi.c:542`) promises that the
  most current values are in `current_samples` for later access; the maps took the address of
  an entry before the swap, so at every second sample the callback copies the sample before
  the last one to the `*_cur` fields (`ms_common_apapi.c:182`). What hettime prints is not
  affected; what msmonitor plots is.

`CHECK_DEADLOCK FALSE` is given where the system may really stop: all measurements
or runs done, all ids used, the time or the rows of the bound used up, a client
that crashed, a reset timer that blocks. The others are checked for deadlock.

### Fairness

Threads: the operating system runs every thread that can run (weak fairness of
each). A worker that locks a mutex its timer unlocks again and again needs no
strong fairness: nobody else takes that mutex. The client of libmeasure and `main()` of
hettime go on when they can; the child's program ends. Kernel mutexes
queue their waiters: strong fairness of `Lock` and `MutexLock`. In `monitor`
each form's refresh is strongly fair, because the event loop of Qt serves its queue in
order while the user goes on pressing buttons; nothing obliges the user to press
any. In `ApapiTimer` the calls under
way and the threads go on. The other runs check safety only.

## What is proved

The first part of `HettimeProofs` is about `MeasureThreads` alone. For every `N`, `Real`,
`MaxCycles` and `PromptStop` that satisfy the four assumptions of `MeasureThreads`:

* `TypeCorrect`, by induction alone;
* `Invariance`: `IInv` is inductive. `StartsTogether` and `ResultsFinal` are not
  inductive themselves. The first needs that a worker that has not reported
  holds up the client at its start mutex (`HandshakeInv`) and that until the
  client has posted nobody is past the gate (`GateInv`); the second that
  the join passes a kind only when its threads are done (`JoinInv`), that threads
  exist exactly where the first loop has been (`CreatedInv`) and where the
  cursor is between two loops (`CursorInv`). `StopInv` ties the flag of a worker to how
  far `ms_stop_measurement` has come, `LateInv` the history variable to the
  worker's place;
* from it `FirstStartTogether`, `StopKept`, `AtMostOneLateRound`,
  `WaitersReleased` and `JoinedResultsFinal`;
* `FirstMeasurementIsSession`: with one measurement the threads implement
  `MeasurementSession`, step by step: `SessionClientStep` and
  `SessionWorkerStep`, and timers stutter. With two measurements this is false
  because of the tokens that are left, hence the assumption `MaxCycles = 1`.

`IInv` was checked with TLC as an invariant of two measurements of two kinds
before it was proved.

`ViewsProofs`, for every `Size`, `Value` and `Word` that satisfy the three
assumptions of `RingBuffer`: `BufferTypeCorrect`, `PointersGood` and the
refinement `ImplementsSlidingWindow`. The invariant is `FirstInv`, which puts
`mFirst` two thirds behind `mSecond` once `mSecond` is in the last third,
`MirrorInv`, by which the first third copies the last up to `mSecond` (up to and
including it between the two steps of a push), and `AgeInv`, which says how far
`mSecond` has moved from a pointer of a given age.

The module also proves of the heat maps above the buffer, for every length of buffer and
axis, every sampling rate and every delay of rows and refreshes that `Heatmap` assumes:
`HeatmapsInWindow`. The assumptions on the settings are those that the settings of the program fulfil
(30 ms, 150 ms, 60 s of 180 s, an axis that moves by 10 s): rates that divide the times, an
interval that leaves at most a third over where the axis moves, and rows and refreshes late by less than
a move. A third is what the choice of the place among three samples needs, and the settings
have exactly it. `AscendInv` says that the times in the buffer ascend by an
interval per row, so that few rows lie between two times; `AxisInv` that the axis stays behind
the newest row and is never left behind by more than two moves. Then the place of the mark is
in the window (`MarkFound`) and every cell reads what is there (`CellsFilled`).

And it proves of the client of msmonitor_cs, for all levels of values, settings, strings of
processes and bounds that `ClientWindow` assumes: `RowIs`, `ClientRunsOn` and
`ClientRowsAreAnswers`. `RowIs` follows a value from the server's buffer to its place in the
client; it works because the client asks for all values, which makes the code of the wanted ones hold
bits 0 to 30 whatever the signed characters do to the others (`EveryValueRegistered`). `ClientInv`,
the invariant of the other two, has five parts: `WindowTypes`; `HistoryInv`, by which the row
in memory is the last one answered, and before the first answer since a start the view has got
nothing and no box is open;
`ServerInv`, by which the server has stopped wherever there is no answer; `LengthsInv`, by which
the means of a plot whose settings are steady are as many as its rows less those of an interval; and
`MarkersInv`, by which the markers begin the applications a plot was given, these the strings in
memory while a box is open, and these the applications of the server: the slots behind a box take strings
that are older than the server's, and may not be older than the plot's. An erasure then finds as many
means as rows to erase (`ErasureSucceeds`), as no interval is longer than the limit. TLC
checked `ClientInv` as an invariant of `viewers` first.

Under the same assumptions it then proves what the client's window shows: `RowsAreDrawn`
and `ExtremesOfAllRows`, of the plots, their files, the heat maps and the overview. Two
assumptions serve these alone. `LevelAssumption` puts all values between the extremes
that are not set, as the program takes its 1000000 and -1000000 to be; `RateAssumption` is the end of the
slider of the rate, 2 s, with which an interval of at least 2 s holds a row
(`IntervalHolds`); a median of no rows reads an empty vector. `DrawnInv`,
which `ClientDraws` shows to be invariant, relates what a view holds to the rows it got and to
those it ever got:

* `RowsHeld`: the vectors of a plot are the last rows it got, with the value its curve is meant for
  (`PlotsWellMeant` reads the names in `initPlot`, `redraw`, `updateValues` and the
  file of each of the five plots, so that a curve crossed with another would fail here);
* `FilteredRight`: while the settings are steady the mean at a place is that of the rows
  behind it, the median likewise. It survives an erasure because values and means lose the
  same number of rows at the front, and a push because the last values are those
  behind the first row without a mean (`VectorTakes`);
* `ExtremesRight`: a maximum is the largest value ever taken and a minimum the smallest of
  those that were not larger than all before them; the lines of an extreme that no other curve
  shares are filled with it (`ExtremeTakes`, `BoxTakes`). All values are needed here, and not
  those held, since erasing and starting leave the extremes;
* `MapsRight` and `OverviewRight`: a heat map holds a column per row, the overview a row that was
  answered.

What the boxes and curves show follows from it: `MiddleIs`, by which `computeMedian` returns an upper
median of any values, `CsvColumns`, by which the columns of a file are those of its first
line, and `LimitsAre`, for which the limits a user may choose have to be finitely many
(`FiniteAssumption`). Medians,
columns, extremes and the slots of a timer are computed by recursive functions; what they are is
shown with the function itself (`RemainingIs`, `KeptIs`, `ExtremesAre`, `AfterIs`) and the
least place at which the claim would fail. A mean is only stated to be the total
of the right values: the same fold on both sides.

`IpmiRequestProofs`, for any number of readers and any `MaxId`:
`OneRequestAtATime`; `AnswersAreOwn`, assuming `PromptCallback`; and
`SingleReaderReadsOwn`, assuming also `Accepts` and a single reader:
another one may overwrite the answer before it is copied. `MutexInv` says that the
owner of the mutex is the reader inside a request, `PendingInv` that the
current id is on its way only while its reader waits, `WaitInv` that a waiting
reader meets no other answer than its own and `CopyInv` that nothing changes before a single reader has copied.

`DriverUsersProofs`, for any number of processes and any timeouts: `TypeCorrect`
without assumptions; `OpensCounted`, `AllUsersServed` and `LastCloseReleases`
assuming `Serial`; `SharedMatchesOpens`, which is the last two together. `OneInside` and `Alone` say who is inside open and close,
`Served` what is allocated then, and the count is proved step by step with the
cardinality of the set of holders.

It proves `FilesReadRight` of `DriverFile` as well, for any number of files, rounds and cores, any
records and sensors and any tries, under the assumptions of `DriverFile`: no reading that
`CMeasureMSR` or the IPMI wrapper takes is that of another request, and a distance is what the core
has worked. `FileInv` says of each file what its user may still have
to do: the first request under way is one that `init()` or `measure()` makes, a position is its request's
once the `lseek` is done, a reading of a record is followed by its sensor's
(`RequestsOf`); and of each counter that since its last reading it has gone on by what the core
has worked, unless another process wrote to it meanwhile (`CountersInv`). `CpuDelivered` and
`SysDelivered` go through the tests of `driver_read` for each kind of request, in the order
of the code: no size or position of one request passes for that of another.

`ApapiProofs` has two parts. The first is about `ApapiTimer`, for any number of timers, assuming `~DestroyUnstarted` but
with prompt stops: `TypeCorrect`, `ThreadsWait`, `FinalWhenAsked`,
`StoppedIsComplete`, `EventsCountWhenRead`, `NoThreadLeft`. The invariant says
for each timer what the waiting call (`CallInv`), the state (`StateInv`) and the
place of the thread (`ThreadInv`) say of the rest; its core is that the mutex of
a thread that samples is free only after a stop. `OtherTimer` carries it over
the steps of other timers.

The second part of `ApapiProofs` is about `ApapiEvents`, for any environment, offer of PAPI and number of
packages and cores, under the assumptions above. `ReadAsWritten` is the
inductive invariant `EventsInv`: what has been read of a file is what the file says, if it counts at all
(`OpsAre`, `ListsAre`), `errno` is clear until something disabled is reported (`ErrnoInv`), and a set
that was created holds what the files promise (`MadeRight`), the others nothing.
From it

* `FilesFollowed`, assuming `CleanErrno`: `SetsFollowFiles`. `FilesFollowedAnyway`, without it: the events follow
  the lists, and the operations follow the files when PAPI has no component disabled. A list goes
  through `ReadEventList`, `UsedComponents` and `SortEvents` before it is looked up;
  `EventsOfList` and the lemmas about `Chosen` show that the events of a component come out in the
  order of the file, whatever is dropped around them;
* `TablesSound`: `MappingSound`. The rules of a component are indexed by event, the claim is about
  fields; `EntryFor` is the table the other way round, from a field to the
  one entry that may write it, and `EntriesSound` goes through every block of `__create_mapper`: its
  entries are those of `EntryFor`, behind operations that compute what they read
  (`Operation`). So two entries with one field are the same entry. `UnitOf` gives the unit of
  each field, and both ends meet there: the getters, printers and curves (`PrintedFits`,
  `PlottedFits`) and the factor and the operation of the entry. `RaplFits` and its like count the entries:
  at most 10 per package, 4 per core and 12 more;
* `ReportsFilled`: `EverythingReported`. With the default list each event a map asks for is found
  (`EveryEventFound`), and each field that is printed or plotted is the field of some entry, at the end
  (`PrintedWritten`) or at every sample (`PlottedSampled`).

The attempt to prove it changed the model in two places. `EverythingReported` spoke of a set whose
events are those of the default list even when that list could not be read, and so of an empty
one; `AsShipped` now says that it was read. The sorting of a file was a fold over `SelectSeq`, of
which nothing can be proved for every length; it is the recursive function `Chosen` now, over
the indices that are kept. A third one is a matter of notation: `tlapm` takes
`UNION S \cup T` as `UNION (S \cup T)`, SANY as `(UNION S) \cup T`, hence the parentheses in
`RaplRules` and `Plotted`.

`MsmServerProofs`, for any number of clients, places and troubles: `TypeCorrect`
without assumptions, the rest assuming `OneHandler`: `RegistriesUnique`,
`TimesFollow`, `StaysRegistered`, `HandlesRequests`, `LimitHolds`,
`StaysUp`. `HandlerInv` keeps what a handler has looked up until it is done;
`ListInv` is both properties of the registrations; `ConnectionInv` ties client
and thread; `ServingInv` says that every thread at work is in `mDataVec`, so
that fewer than `MaxClients` are registered when another one registers, and a
registry is free (`ServedBound`, `RegistryLeft`: a pigeonhole argument with
cardinalities).

`MonitorProofs`, for any number of forms: `StoppedIsQuiet` and `RowsKeepStep`
without assumptions, also when the user is faster than a thread that has just
started; `FormsDeletedLast` assuming `~PromptStop`, since a stop that a fast user
gives is lost and the timer outlives the forms. `CollectInv` says that the collecting
thread and its timer live from the start to the join and what the stop has told them by
then, `FormsInv` that the forms' timers are on while monitor runs, `QuitInv` what is left to
do of a quit. `RowsInv` counts rows and ticks: whoever holds the mutex has pushed the one
before the other, and a free mutex lets one more row come, which has its tick already.

`HettimeProofs`, for any number of kinds and runs, any plugin, settings, set of
frequencies and governors, register width, length of a second and power levels: `HettimeInvariance`,
`HettimeResults`, `HettimeMeasures`, `HettimeDevices`; and for a program with a wrapper, with any number of
intervals, `WrapperInvariance`, `WrapperIntervals`, `WrapperResults`. It
assumes that one kind is real (`OneRealPlugin`, as the build configures), that cpufreq
names limits that are positive (`FrequenciesAssumption`), that the settings are those of the
struct `ARGUMENTS`, that power has a least level and that the register has more than
one value. The invariant `HettimeInv` is the invariant of `MeasureThreads`, whose
steps are taken over by `ThreadsKept` (threads that vanish with their process keep
it as well, `GoneInv`), and beside it

* `MainInv`, `TokenInv`, `ChildInv`: the place of `main()` says where libmeasure is,
  both threads of the one kind find a token, and the child lives while `main()` waits.
  `MeasuredWhileRunning` follows;
* `DeviceInv`: besides `DevicesRight` a policy's minimum is never above its maximum, in whatever state
  an `exit()` leaves it, which is why widening before narrowing puts any
  policy in force;
* `FreshInv`, `RoundInv`: nothing is added up before the first reading, and between two rounds
  the struct holds the references of the last reading and the register has not gone
  round since then. Without the latter `EnergyCounted`, that the
  sum is the true increment less one unit per turn, is not inductive (`RegisterAdvance`);
* `PowerInv`, which puts the energy between the lowest and the highest sample times the runtime
  (`RoundWithin`), and from it the printed mean; `ServerRounded` is inductive by itself (`UnitsCut`).

`StepKinds` splits the steps into those in which only `main()` or the child go on, allocations,
commands to the threads, rounds of the worker, ticks of the clock, exits; each part of the invariant is
carried over these and not over some thirty actions. For the wrappers `CountsInv` ties the
flag of an interval to what is left of the call under way, so that a round of the worker
between two captures of one call is counted by exactly the quantities
captured on the right side of it; `UnusedInv` says that nobody calls before the measurement has started.

`ApapiSamplingProofs`, for any events with their operations, any counters, sensors, intervals and
number of samples, assuming `~Softfail`: `EnergyIsReported` and `StatisticsAreRight`. The first assumes of the operations what
`default_eventops.csv` has, that an event whose energy or power is derived is asked for the sum of the
one and the average of the other (`ReportedAssumption`). Ratios are in lowest terms, and
`Is(r, n, d)` says that such a ratio is n by d; `RatioIs`, `PlusIs`, `TimesIs` and `LessTerms`
are the arithmetic, with the greatest common divisor from the well-foundedness of the natural numbers
(`GreatestThere`). From them `AverageIs`: a weighted average of what was before and a new value is the
sum by the whole time. The invariant has three parts: `TimesInv`, by which the times are
those of the samples counted and the first lies before the last; `CountersInv`, by which both
buffers hold the last two readings, between which no counter went round twice, and the sum is what was
counted (`WrapFixed`: a correction of a wrap loses one unit); and `PowerInv`, by which an average
over the time so far is the sum of the other kind (`Fits`). None of the statistics' halves is
inductive without the other one.

`StatisticsAreRight` says of every event what the statistics of all its samples are, the
average weighted with the time each sample accounts for. `StatisticsInv` adds to the invariant that the
times grow along the series, that a buffer of a sensor holds its last sample and the other one the next
while a sample is read, and `StatsRight`, that what is
kept of samples 2 to n are their sum, average, minimum and maximum. A step from n to n + 1
(`StatsFold`) needs that a ratio in lowest terms is one thing only (`SameRatio`), which the
least positive combination of two numbers gives (Bezout), and that the total of the values,
a recursive function, exists for every n and agrees with the one of fewer values, which
the least n without it gives. Of accumulating events the second value is claimed only where it is the power
(`DIV_DIFF_TIME`), as in the property. With `Softfail` both theorems are false: a failed read
counts the older values once more.

Not proved but checked with TLC: the liveness properties (`WorkersEnd`,
`MeasurementCompletes`, `ReadReturns`, `IoctlReturns`, `CallsReturn`, `RunEnds`, `StopReturns`,
`PlotsCatchUp`), because liveness under fairness is outside what the prover does. Every
invariant and every action property of a passing run is stated by a theorem. What a fold computes for
every input would need an induction theorem that takes the claim as a parameter, which no installed
prover can instantiate; folds are therefore recursive functions where a proof needs them, and
the least-number principle (`WFMin`) stands in for induction, as in `ViewsProofs`,
`ApapiSamplingProofs` and `ApapiProofs`. That the two default files satisfy `ShippedAssumption`
is not proved but evaluated by TLC, line by line, for the 2 packages of 4 cores they are written for.

## What goes wrong

What a user of this code should know. The defects of the first lists are part of the
models, which take them as the code has them; an assumption or a guard of a property keeps
them out where a property speaks of what holds in spite of them.

Measurement threads and workers:

* A stop that precedes the first line of a timer's `run()` is lost, because that
  line clears the flag (`CMeasureThreadTimer.cpp:86`): the timer never ends and
  `ms_join_measurement` does not return. A worker clears its flag before the
  handshake and is safe. hettime with a program that ends at once may meet it.
* `ms_start_measurement` posts tokens for kinds without threads too
  (`mgmt.cpp:228`); those left open the gate of the next measurement early.
* A worker stopped before its first round divides its energy by a runtime of zero
  (`CMeasureMSRThread.cpp:268`): the average is not a number.
* An energy register counts `energy_max + 1` values, and the correction of a wrap adds
  `energy_max`: one unit is lost per turn (`CMeasureMSR.cpp:375`). The server's energy
  is cut to whole units each round (`CMeasureIPMIThread.cpp:103`).
* A minimum frequency above the maximum in force is silently refused
  (`CMeasureMSR.cpp:204`): the maximum set next is right, the minimum stays.
* An exit between fork and `sem_post` leaves hettime's child waiting for ever; an
  exit after the GPU's modes were set leaves them to the next process.

Kernel driver:

* Between the unlock in `ipmi_request` and the copy in `driver_read` another
  reader's request empties or overwrites the answer (`driver_measure.c:477`).
* `driver_read` negates an error number that is negative already (`:372`): `read()`
  returns a count. An answer of the wrong length ends the measured program
  (`CMeasureIPMI.cpp:216`).
* `IOC_SET_IPMI_TIMEOUT` returns with `ioctl_mutex` locked after a bad value, and
  tests the lock of the timeout before it takes the mutex: a timeout locked in between is
  changed all the same. Overlapping opens and closes lose an update of `opened`.

* Every process that starts to measure the cpu sets the performance counters of all cores to
  zero (`CMeasureMSR.cpp:381`): the next distance of another process that measures is wrong
  (`ReadingsRight` leaves it out). A distance of zero is taken for a wrap, and a wrap is
  taken modulo `UINT64_MAX` (`CMeasureMSRThread.cpp:155`).
* The count that a refused request yields lets the IPMI wrapper take a record, a sensor or a
  completion code from bytes nobody wrote (`misled`).

Wrappers:

* `hetnodewrapper` keeps the server's energy of an interval as the total at its
  stop, nothing subtracted (`ms_hetnodewrapper_data.c:148`).
* `taskwrapper` does not notice a stop without a start, or two starts in a row;
  `mshetsched_get_all` does not ask whether a phase is still open.

msmonitor:

* `CDataTimer::run` clears a stop flag as above (`CDataTimer.cpp:47`): `StopReturns` needs
  `PromptStop = FALSE`.
* Heat maps: an interval that divides the 10 s the axis moves by makes the start index
  one below zero at the first move; an interval below that of the samples makes the factor
  zero (`QMSMFormSettings.cpp:93`, `:161`). The settings checked are those the
  program starts with.

msmonitor_cs, server:

* Two clients that register at once find the same registry free (`CServer.cpp:245`); of two
  that ask at once one may get the other's values (`:294`).
* A full server joins all its threads before it accepts again (`CServer.cpp:164`): a queued
  client waits although a place is free, for ever if the others stay, where the manual says it waits
  until one client logs off (`manual.tex:32`; `QueuedServed` states that and fails under `FairSpec`).
* The registry of a slow client indexes vectors in another order (`CServer.cpp:82`): the
  wrong client is erased, and waits for ever.

msmonitor_cs, client (stated in `RunsOn`, `ExtremesHold`, `RowsAreAnswers`, `DrawnRows`
as what holds in spite of it):

* Means and medians are fewer than the rows but erased together with them: an interval of
  more values than the plot holds, or either changed while it runs, erases from an empty vector
  (`QMSMpowerplot.cpp:354`). The spin boxes allow 200 values and 60 rows.
* The lines of the extremes are never shortened: once rows are erased, redraw reads behind the
  vector of times (`QMSMpowerplot.cpp:130`). Extremes and markers survive a start.
* The first value sets only the maximum, so that a value is a minimum only when an earlier
  one was at least as large. The two FPGA curves of the temperature plot share one line
  (`QMSMtemperatureplot.cpp:506`).
* A mean is drawn at the time of the first of its rows. The interval is multiplied
  with the rate of redrawing although the tooltip says it is an amount of values
  (`qmsmplot.ui:175`), with an integer division as guard (`mainwindow.cpp:384`).
* The slider of the rate ends at 2 s, but the rate of a configuration file is taken as it is
  (`mainwindow.cpp:137`): above an interval the interval holds no row, a mean is divided by 0 and a
  median read from an empty vector (`QMSMplot.cpp:319`, `:361`). The model stays within
  the slider (`RateAssumption`).
* The box about a server that is gone runs inside the first slot of the timer
  (`mainwindow.cpp:316`): the slots behind it push the old row again, or read a vector that
  was never filled. The box about a slow exchange lets the timer go on: rows come twice
  and out of step. `show*` connects a view once more each time (`:409`).
* Temperature heat maps are not cleared at a start and begin with a column of zeros
  (`:290`); `mpGuiTimer` is never stopped; a configuration that is imported does not set the
  interval; the overview shows only the last GPU process.
* On the wire a code whose byte is 108 or more is decoded from a negative character and
  sets higher bits (`CProtocolS.cpp:90`). The client asks for all values, where that
  is harmless.

apapi:

* The thread of a stopped timer ends while it holds the mutex that
  `APAPI_reset_timer` locks (`apapi.c:773`): a second measurement of
  `libms_common_apapi` on one `MS_SYSTEM` hangs. A stop before the thread has the mutex
  is lost (`:816`). A READY timer cannot be destroyed.
* `max_sample` is the highest value of a counter and is used as its modulus; a maximum
  starts at 0, so that a negative one is never seen; under `APAPI_SOFTFAIL` a
  failed read counts the older values once more (`:555`).

These were read in the code and are outside the models:

* The current power of the CPU is not corrected for a wrap that the sum is corrected for
  (`CMeasureMSRThread.cpp:186`). Dividing a sampling rate can leave `tv_nsec` at 10^9 (`mgmt.cpp:286`); an IPMI timeout below 10 ms
  underflows; `ms_reg_sighandler_stop` registers the handler of the start.
* A second opener of the driver may read before the first has set up the address
  (`driver_measure.c:673`).
* `msmRecv` writes every part of a message to the start of the buffer
  (`CComTCPAbstract.cpp:70`); the handler of SIGUSR appends to `mApplications` while a thread
  copies it (`server/main.cpp:144`, `CServer.cpp:377`).
* A list compressed to the components in use is indexed by the number of a component
  (`apapi.c:917`), when a set is created without names.
* `errno` is not cleared before `strtoll` (`apapi_defaults.c:258`); a malformed user file is ignored
  without a word (`ms_common_apapi.c:1817`); `print_apapi_eventset` prints a sum
  as an average; adding two times carries only above a full second (`apapi.c:320`).
* Captions of the CSV output: `temp_max_cpu0_c4` for core 3, `temp_max_fpga_imgt` and
  `temp_max_vddg` twice (`csv_printer.c`).

## Not modelled, and why

* Reads of registers and calls of vendor libraries, sockets, Qt widgets, the layout of
  outputs and plots (axis scaling, zoom, line widths): input and output whose result is data.
* In `WorkerRounds`: temperatures, frequencies and memory, which are copied or of which the
  maximum is kept; the forced idle FPGA; the part of a round's time that `skip_ms` names.
* The signals raised at start and stop; `ms_set_timer`'s division; in hettime the marker
  messages and the printing of the elapsed time.
* In `Monitor`: `CGuiMarker`, a change of the number of ticks while buffers are in use
  (`QMSMFormSettings.cpp:95`), a repaint between a reset and the next refresh, the list of GPU
  processes.
* In the driver: the contents of CPU statistics and memory; a second opener
  before the first has set up the address (`Serial` excludes it). In the wrappers: tests of
  versions, the registration of tasks, the conversion of sensor values, the sockets of
  `ushmsmonitor`, over which hettime tells msmonitor of its markers.
* In `MsmServer`: the format of the messages, which is `ClientData`'s; the list of
  applications, which `ClientWindow` has; `pthread_create` failing.
* The printing of an event set by apapi and its tools.
* `driver_ipmi`, an older copy of a part of the driver; the other tools and
  examples, which call libmeasure in the modelled order; the vendored cJSON; `amsr`, register access for one processor family.

## What is left

1. `Signals`: the handlers registered for start and stop, and those of the server.
2. Liveness of `MsmServer` without troubles: that all clients of a server whose
   clients all end are accepted.
3. `MsmServer` and `ClientWindow` composed: the message boxes of a client against the
   server's judgement that it is too slow.
