# Sandboxie: a TLA+ verification of its processes, configuration, logs and service calls

Sandboxie runs programs in sandboxes. A kernel driver (`Sandboxie/core/drv`)
decides what a sandboxed process may do, a library inside every such process
(`core/dll`) redirects its calls, a service (`core/svc`) does for it what it may
not do itself, proxies started by the service (`UserServer`, `GuiServer`) do
that in the user's session, and a control program (`SandboxiePlus`) shows what
happens. This directory models the parts of it in which several of these
processes meet and in which a test would hardly reach the interesting order of
steps: the creation and injection of sandboxed processes, the configuration and
the file behind it, the registry hive of a box, the driver's logs and their
readers, the service's port, the request queues between sandboxed programs and
proxies, and the start of the proxies.

Paths below are relative to `src/Sandboxie/core/` unless they start with
`SandboxiePlus`. `PROJECT.json` maps every definition to its source lines and
lists the runs, mutants, hazards and theorems.

## 1. Inventory

| Component | State | Operations | Module |
|---|---|---|---|
| Driver log ring, `drv/log_buff.c` | bytes, start, size, counter | push with or without dropping, get, pop | `LogBuffer`, promise in `BoundedLog` |
| Driver messages and readers, `drv/api.c`, `drv/log.c`, `svc/DriverAssistLog.cpp`, `SandboxiePlus/QSbieAPI/SbieAPI.cpp` | the ring; per reader the last number; the service's buffer | `Api_AddMessage`, `Api_GetMessage`, `DriverAssist::LogMessage`, `CSbieAPI::GetLog` | `DriverLog` |
| Sessions and monitor, `drv/session.c` | session list, leaders, monitor logs, their count | leader, enable, disable, put, three ways to get, cancel with the process | `SessionMonitor` |
| Queue server, `svc/queueserver.cpp`, `dll/callsvc.c`, loops of `svc/UserServer.cpp`, `svc/GuiServer.cpp` | queues, requests, numbers, events | create, put and get request, put and get reply | `QueueServer` |
| Service port, `svc/PipeServer.cpp`, `dll/callsvc.c` | connections, half-collected requests, half-sent replies | connect, disconnect, request, reply, call | `PipeServer` |
| Start of proxies, `svc/UserServer.cpp`, `svc/GuiServer.cpp`, `dll/callsvc.c` | proxies of a session, event by which they report | `StartProxy`, `StartupHandler`, `StartAsync`, `StartWorker`, `RunWorker` | `ProxyStartup` |
| Driver process list, `drv/process.c`, `process_api.c`, `process_force.c`, `process_util.c` | PROCESS blocks by id, exempt ids, forced children | creation with its decision on the box, first image, exit, start into a box, kill | `ProcessLife` |
| Injection handshake, `drv/process_low.c`, `svc/DriverAssist.cpp`, `svc/DriverAssistInject.cpp` | the port, the threads of the service, whether it is ready | message, wait, answer, error, cancel, start and death of the service | `ProcessLife` |
| Configuration, `drv/conf.c` | the tree in force with its pool and use count, virtual sections | reload in its steps, query, update | `Configuration` |
| INI server, `svc/sbieiniserver.cpp`, `common/ini.cpp` | the cached copy of the file | get, set, save, purge after a reload | `IniServer`, over `Configuration` |
| Registry hive of a box, `drv/key.c`, `svc/DriverAssist.cpp` | mounts with their count of users, hives loaded, messages | mount, unmount, hand out, unload | `HiveMount` |
| COM server, `svc/comserver.cpp` | slave, shared block, two events | request, answer, restart | planned |
| Box mounting, `svc/MountManager.cpp` | mounted images and their counts | acquire, release, unmount | planned |
| File and other registry virtualization, `dll/file*.c`, `dll/key*.c` | deleted-path tree, merged keys | delete, rename, merge | planned in part |
| Everything else | | | not modelled, section 7 |

How the parts interact. A sandboxed program calls the service with
`SbieDll_CallServer`: chunks over an LPC port, handled by a pool of worker
threads (`PipeServer`). Some of these calls go to the queue server: the program
puts a request into a named queue, a proxy fetches it, answers, and an event
wakes the program, which collects the answer with another call (`QueueServer`).
When no proxy serves the queue, the program asks for one and waits for it
(`ProxyStartup`). The driver reports through a ring of messages that the
service and the control program poll (`DriverLog`), and through the monitor log
of a session (`SessionMonitor`); both use the same ring code in its two modes
(`LogBuffer`).

The driver is called when a process is created, decides on its box from the
process that creates it, the parent named and the rules, and has the service
put the low-level code into it before it runs (`ProcessLife`). The first image
of a process makes the driver load the registry hive of its box; the last
process to leave makes it ask the service to unload it (`HiveMount`). The
service changes `Sandboxie.ini` for its clients and has the driver read it
again, as editors outside do too (`IniServer`, `Configuration`).

What is hard. The readers of the ring hold numbers of entries that may be gone.
Entries wrap at arbitrary cells. Clients of the queue time out, end, and have
their ids reused while their request is queued. One auto-reset event stands for
several requests. Worker threads share connections without a lock and rely on
the client to wait. Threads that start proxies do not exclude each other.
Process ids come back while the driver or a thread of the service still means
the process that had them. The driver waits for a service that may be starting,
dying or without memory. Reloads of the configuration overlap with each other,
with readers of the old one and with changes that exist in memory alone; copies
of the file in the service are stale until a message arrives. A hive is being
unloaded while the next process of the box looks for it.

What makes each part correct:

- ring: it is a first-in first-out log of whole entries, whatever wraps;
- messages: each reader gets each retained message of its sessions once, in
  order, and the service gets past every message;
- sessions: a session's leader runs in that session, the global count of logs is
  right, reading removes exactly what it returns;
- queues: a proxy keeps its queue, requests are fetched in order and not left
  behind, a call gets its own answer;
- port: a connection is never worked on twice at once, a handler gets exactly
  one whole request, a call gets its own reply;
- start: one proxy serves, a call is refused only for a reason, every call ends;
- processes: what a boxed process creates, with a parent other than the service,
  is in its box, a boxed process does not run without the low-level code, and nothing known of a process is taken for
  the next one with its id;
- configuration: memory is freed once and not under a reader, a setting that was
  acknowledged is in the file, saving loses no edit the service was told of, a
  reload keeps virtual sections;
- hives: the count of users is right, one process loads, a hive with users stays,
  one without is unloaded.

## 2. Plan

Done: the modules above, each with its runs; the proofs of section 6, which cover
every invariant, every action property and both refinements that the passing runs
check. What is left to TLC alone is liveness.

Next, the model:

1. `ComServer`: a second request and reply protocol, over shared memory.
2. `MountManager`: counts of mounted images against processes that start and end,
   composed with `HiveMount` at `ReleaseBoxRoot`.
3. `KeyMerge` and `PathTree`: pure algorithms against reference definitions.
4. `CallThroughQueue`: `QueueServer` over `PipeServer`, to show that a queue
   handler's reply reaches the thread that made the call.

Next, the proofs: those of the modules above, and `ReaderGetsOldestPending` across
a wrap of the log numbers, which first needs a statement of what a reader should
get then.

## 3. Modules

### LogBuffer, BoundedLog

`LogBuffer` is `drv/log_buff.c` byte for byte in cells: a ring is a record of
`buffer_data`, `buffer_start`, `buffer_used` and `seq_counter`, and
`push_entry`, `push_bytes`, `get_bytes`, `get_next`, `pop_entry` take and return
rings. An entry is `[length][number][data][length]`. A length field is
`FieldLen` cells, so it can wrap inside itself; the value is put into and taken
out of the cells as the code does. `BoundedLog` knows sequences of entries only.
The two modules that use a ring state with `INSTANCE BoundedLog` that each step
of theirs is a step of the bounded log or leaves it alone. Pointers are offsets;
`NULL` lies below every offset that the code computes. Loops are recursive
functions of the cells that are left, not `RECURSIVE` operators, so that the
prover can reason about them: the pops of a push (`MakeRoom`), the walk back of
`get_next`, and `Entries`, which shows the ring as a list.

### DriverLog

`Api_LogBuffer` with the variables of its readers. `Log_Popup_MsgEx`
and `LogProcessStart` add a message with `Api_AddMessage`; `ServiceWakes` and `ServiceCollects`
are the thread and the loop of `DriverAssist::LogMessage`; the user interface
polls, and comes and goes. All driver calls hold `Api_LockResource`, so a call
is a step. `woken` abstracts the messages on the port that ask for a thread to
one flag: a second thread finds the critical section taken and does the same
work. The failure of `CreateThread` or of the heap in the service is not
modelled. The text of a message is its number and its length. `Pending` is the set
of places in the ring of the messages that a reader has not seen. The bound on
messages is below `SeqMod`: no number is given out twice.

### SessionMonitor

`Session_List` in list order, with the optional ring per session; actions are
`Session_Api_Leader`, `Session_Api_MonitorControl`, `Session_MonitorPutEx`,
`Session_Api_MonitorGetEx`, `Session_Api_MonitorGet2` and `Session_Cancel`. They
hold `Session_ListLock`. The monitor log is allocated with the size asked for
(the smaller fallback size behaves the same); `Session_Unload` and the disabling
of forced processes are not modelled. `Get2Data` is the loop of
`Session_Api_MonitorGet2`, a function of the cells left in the log and the room
left in the caller's buffer; the code compares unsigned numbers, so room for less
than a length lets every entry through (`TooSmall`, `RoomLeft`).
`Session_Api_MonitorGetEx` casts the size of the data to 16 bits, which is left
out: entries are taken to be shorter. Definitions that
`DriverLog` has too begin with `Monitor` here, so that one module can prove about
both.

### QueueServer

`m_queues` per full name, `m_RequestId` modulo `IdMod`, the processes with box
and time of creation, the threads of clients and proxies, and the events. Each
handler of `svc/queueserver.cpp` is an action (`CreateHandler`, `PutReqHandler`,
`GetReqHandler`, `PutRplHandler`, `GetRplHandler`) with its refusals as
disjuncts, each at the point where the code returns, since `FindQueueObj` may
have deleted a dead queue before. `QueueCallback` is the thread pool, `Wake` and
`Timeout` the client's wait. `Start` and `Exit` are Windows; ids are reused, the
time of creation is not. The data of a request is its place in the order of
putting, and the answer is the data answered, so that an answer that reaches the
wrong call shows.

Not modelled: failures of handle duplication, a reply lost by the transport,
proxies that are clients themselves, `NotifyHandler` (never called, section 5). The number -1
can be handed out once before the counter skips it, as in the code.

### PipeServer

One action per call of `SbieDll_CallServer` that reaches the port, and per phase
of a worker: take a message, `PortConnect` in its two halves (the connection is
accepted before the `SClient` is stored), `PortFindClient`, `PortRequest`,
`PortReply`, `PortDisconnect`. Lengths are in chunks. A handler's reply is as
long as it likes, up to `MaxLen`, and carries the call that the collected chunks
belong to. Not modelled: errors of the port itself, shutdown, failure of
`make_shared`, the guard check in `FreeMsg`, the reuse of a freed `SClient`'s
address as the context of a new connection.

### ProxyStartup

One session, any number of clients. `client` is the progress of
`SbieDll_QueuePutReq`, `starter` the thread of `StartAsync` for it,
`proc` a proxy from creation to readiness, `event` the named event with the set
of proxies that set it (so that its meaning can be stated; the code sees only
whether it is set). Waits may time out at any moment: there is no clock.
`disturbed` is a history variable for `RefusedWhenDisturbed`. List operations of
two threads are taken not to overlap although nothing in the code prevents it;
`GuiServer::InitProcess` (which calls `StartSlave` under `m_SlavesLock`) and the
hand-over of the parent's handle by an APC are not modelled.

### ProcessLife

`os` is what Windows knows of each id, with the time of creation and, as history,
whether the low-level code is in place and the box of the creator, unless that
one named the service as the parent; `Process_Map`
holds the PROCESS blocks of each id, newest first, `Process_MapDfp` the exempt
ids and `Process_MapFcp` the boxes of forced children. `notify` is the call of
`Process_NotifyProcess_Create`: the look at the caller, the look at the parent
(two critical sections), the force rules as a choice of the possible results of
`GetForcedStartBox`,
the block, and `Process_Low_Inject` with its message and its polls. Whoever
creates a process may name any process as its parent, the service too. The driver
then looks at nobody and boxes nothing: it takes the process for one that the
service creates and will assign itself. A process
that the service starts for a box (`Process_Api_Start`) takes the same path, but
Windows does not lock it and it may exit on the way. `svc`, `port` and `workers`
are the service: it registers, becomes ready, takes messages, makes a thread for
each (or has no memory for it), injects, answers, reports, and may die at any
time; from then on its id is that of any program outside (`SvcGone`). `Exit` is `Process_NotifyProcess_Delete`; the id is free once nobody holds
the process open. `late` records ids that were entered in a map after their
process had exited, which the code does not prevent. Before the service is
ready, `InjectLow` jumps over the initialisation of a handle that it looks at
later: both outcomes are possible. Not modelled: the matching of rules, process
information, overlapping changes of one map under a shared lock, `DRV_BREAKOUT`
(not built).

### Configuration, IniServer

`Configuration` is the driver: `Conf_Read` is cut where it gives up the lock
(read the file into a new pool; take the use count and walk over the virtual
sections; wait for the count and swap, or discard), followed by the reset after a
missing file and the message to the service. A query takes the use count, gets a
string, and gives the count back. `Conf_Api_Update` sets or drops a virtual
section and frees what it drops without regard to the count; `torn` records the
calls that held it. It has no check for a pool that a reset took away, where it
would stop the system; that is no step here. A walk over virtual sections that
were freed meanwhile may find any of them, or a name clash. The content of a file is a set of items. `IniServer` adds
the service: `m_pSbieIni` is the cached copy, or none, a request changes it and
may have it written (backup, write, reload, delete the backup or copy it back, if
one was made, all under `m_critsec`), and the message on a reload by another program purges it.
`Edit` is an editor outside, which writes the file and may have it reloaded.
Reading, backing up, writing and copying back may fail, a message may be lost. Not modelled:
parsing and expansion, templates, passwords, the restart of host services.

### HiveMount

`Key_Mounts` has the `KEY_MOUNT` of each box, `loaded` the hives Windows has
loaded, `handles` the processes that hold keys open. `Key_MountHive` waits for a
busy mount and either joins it or loads the hive outside the lock in two steps
(`Key_MountHive2`, `QueryHivelist`), each of which may fail, the first also after
`ZwLoadKey` succeeded: `left` records the hives that such a mount left loaded, until
a process of the box has mounted them. A process leaves the
list before it gives up its mount (`Process_Delete`, `Key_UnmountHive`), and its
keys are closed later still. A thread of the service takes a message, looks
whether its box is empty, gets a hive to unload, which may be that of another
box, and tries to unload it. `late` records processes that joined a hive already
handed out, and `dropped` counts the unmounts that were lost or given up. Any
waiting hive may be handed out, in place of the first in the list. Not modelled:
two file paths for one key, the Windows XP path, hives never unmounted, and the
message `SVC_MOUNTED_HIVE`, on which the service locks the image of the box.

## 4. Runs that pass

| Run | Checks | Instance, and why it is enough |
|---|---|---|
| `driver_log` | `RingIsBoundedLog`, `ReaderGetsOldestPending`, `NoForeignText`, `ServiceCollectsAll` | Ring of 29 cells, texts of 1, 4 and 20 cells, four messages of two sessions; the service, and a user interface that comes and goes. Entries, their fields and a text wrap, a message pushes none, one or two old ones out, one length never fits, a reader's number falls out of the ring, and one text is longer than the service's first buffer. |
| `session_monitor` | `LeaderRunsInSession`, `MonitorCountIsLogs`, `LogIsBoundedLog`, `GetRemovesWhatItReturns` | Two ids with two starts in two sessions (one id may be used twice), two entry lengths, three entries, which wrap the ring. A caller's buffer of 6 cells cuts data and holds entries back, one of 16 takes one or, when what is left is shorter than a length, all. |
| `queue_calls` | `ServerKeepsQueue`, `FetchedInOrder`, `NoLostWakeup`, `ReplyAnswersCall`, `ReplyWakesClient`, `EndOfFileMeansClientGone`, `TypeOK` | Two ids used three times, and the service; two threads each, two requests, one failed allocation. Two requests and two threads are what each of these hazards needs. The counter has four values, so that the second request is the one at which the reserved values are skipped. |
| `queue_served` | `ServerBelongsToName`, `RequestServed` | One box and outside, one name of each kind, so that every combination of caller and name occurs; liveness with two requests for one event. One thread per process: two threads in the loop are the subject of `NoLostWakeup` above. |
| `pipe_calls` | `SClientNotShared`, `HandlerGetsRequest`, `ReplyAnswersCall`, `InStepBetweenCalls`, `StoredClientAnswered` | Two clients, two workers, two connections, two calls of up to two chunks with replies of up to two; the sequence number has two values and wraps; allocation may fail on one connection. Both calls may be made over one connection or over two. |
| `startup_calls` | `OneServer`, `RefusedWhenDisturbed`, `CallEnds`, `TypeOK` | Two clients, three proxies, two faults: enough for a thread to terminate the proxy of another and to reset the event it waits on. More clients and proxies are covered by the proofs. |
| `process_life` | `LoadedIsInjected`, `RunsInjectedOrTimedOut`, `ChildStaysInBox`, `NothingInherited`, `CancelHitsMarked` | Two ids, two boxes, two creations (the second may have the id of the first or be its child, with any parent named), one wait before the driver gives up, one death of the service. The hazards are about a process and its successor or its child, so two are enough. |
| `ini_conf` | `PoolsAccounted`, `ReaderKeepsPool`, `CacheCovers`, `AckedIsSaved`, `VirtualSurvives` | The service's thread and an editor's, one query, one setting of requests and one of editors, which is a virtual section's name too; four calls, a failed read and a failed write. Four calls are an addition, an edit with its reload, and two more that overlap with them. Deadlock is checked. |
| `hive_mounts` | `RefCountIsUsers`, `OneLoader`, `HiveStays`, `UnusedIsUnloaded` | Two ids with three starts in two boxes, two threads of the service, two attempts. A box may be left and entered again while either thread unloads, and the thread of one box may get the hive of the other. |

The type invariants are checked too: in `queue_calls` and `startup_calls` under
their own name, in the others as the first conjunct of `NoForeignText`,
`MonitorCountIsLogs`, `SClientNotShared`, `LoadedIsInjected`, `PoolsAccounted` and
`RefCountIsUsers`.

All configurations but `IniConf.cfg` say `CHECK_DEADLOCK FALSE`: the bounds on
messages, requests, starts and calls end every behaviour. That nobody waits
forever is stated by the liveness properties instead.

Process ids and threads are interchangeable, so `MCQueueServer` permutes them,
and so are ids and boxes in `MCProcessLife`; runs with liveness use no symmetry.

Several properties name the cases they leave out (`late`, `torn`, `unseen`,
`dropped`, `left`, the service named as the parent, a failed read or write, a
failed connection, the service's own calls). In each of them the code does
what the property would rule out; the hazards in `PROJECT.json` say where, without
naming the property when it leaves out the whole hazard, and
section 5 lists those that contradict a comment.

Every property has a mutant of the code model under which its run fails, for
example one pop too few, a skipped wake-up, a queue that counts as alive by its
server's id alone.

Fairness. `QueueServer` assumes that the thread pool runs a callback for a
signalled event and that a thread inside a handler gets done; clients may time
out, exit or never wake. `PipeServer` assumes that workers and clients inside a
call run on; a client need not call. `ProxyStartup` assumes the same of the
threads of clients, service and proxies. `DriverLog` assumes that the thread
asked for runs and that the loop it is in goes on. `HiveMount` assumes that
processes inside the driver's calls and threads with a message go on, and that
Windows closes the keys of an ended process at some time; a process need not
end. These are ordinary scheduling
of runnable threads; no fairness is assumed of faults, of exits or of the user.

## 5. Runs that show a disagreement

| Run | What it shows |
|---|---|
| `process_timeout` | `STATUS_TIMEOUT` satisfies `NT_SUCCESS`: when the service does not answer, the process is neither cancelled nor reported and runs in its box without the low-level code (`drv/process_low.c:201`). |
| `conf_reset` | When `Templates.ini` is missing, a reload frees the configuration whatever the use count, under a query that holds a string of it (`drv/conf.c:1745`). |
| `pipe_connect` | A first chunk can overtake the storing of its connection and is dropped without a reply (`svc/PipeServer.cpp:455`). |

More were met while modelling and have no run of their own:

- `Api_GetMessage` copies strings that wrap with one `memcpy` past the end of the
  ring (`drv/api.c:800`); `NoForeignText` is what remains true.
- `Session_Api_MonitorGetEx` subtracts 12 in place of 20 bytes of header and
  returns eight bytes that are not data (`drv/session.c:1146`).
- `STATUS_END_OF_FILE` does not mean that the client has gone when the client is
  the service, whose calls share one event (`svc/GuiServer.cpp:320`, comment at
  919); `EndOfFileMeansClientGone` leaves the service out.
- Requests of ended processes are not removed from the queues, since
  `NotifyTargets` is only called by the old port code (`svc/PipeServer.cpp:631`).
- `StartWorker` terminates a proxy that works, under a comment that speaks of one
  "that stopped functioning" (`svc/UserServer.cpp:144`).
- `CacheConfig` leaves an empty copy in `m_pSbieIni` when the file cannot be read;
  the next request that changes a setting writes it over the file
  (`svc/sbieiniserver.cpp:844`). `AckedIsSaved` leaves such behaviours out.
- In `UnmountHive` the result of `NtOpenKey` replaces that of `NtUnloadKey`: after
  the last attempt the box image is released with the hive loaded, and SBIE2208
  is not reported (`svc/DriverAssist.cpp:827`).
- The test for `SbieSvc` as the parent comes before the look at the caller, under a
  comment that says "process created by SbieSvc" (`drv/process.c:1137`): a process
  with that parent is not boxed by the driver, whoever created it.
  `ChildStaysInBox` leaves such processes out.
- A mount that fails after `ZwLoadKey`, because the token does not get its default
  DACL back (`drv/key.c:1031`) or the new key not its own (`drv/key.c:1157`), leaves
  the hive loaded without a user, a mark or a message. `UnusedIsUnloaded` leaves
  such hives out.
- A hive is handed out to be unloaded without being marked busy, so a process can
  join it before it goes (`drv/key.c:1369`), and the box that was found empty need
  not be the one whose hive is handed out (`svc/DriverAssist.cpp:811`).
- `GetBoxRootLocked` may return a root without the lock that its callers then
  leave (`svc/MountManager.cpp:1054`).
- `Api_GetMessage` moves the caller's number although the text did not fit, under
  the comment "update when everything went fine" (`drv/api.c:807`); both callers
  pass a copy.
- A failed allocation in `PortRequest` is answered by the same empty message as a
  stored chunk (`svc/PipeServer.cpp:810`).
- `UserServer__StartupWorker` tells its client that the proxy is up whatever
  `StartWorker` returned, and also when another thread has terminated it meanwhile
  (`svc/UserServer.cpp:339`).

## 6. Proofs

All proofs are for arbitrary constants that satisfy the modules' `ASSUME`s: the
service is a process and outside the boxes, names with and without asterisk
differ, the counter of requests has more than three values, bounds are natural
numbers, values that stand for nothing (no box, no pool, no copy of the file) are
none of the things, and, where the code counts users, the processes or threads
that can be users are finitely many, as they are in Windows. The ring has at least
one cell, and fewer messages are logged than there are log numbers (2^32).

Each invariant is shown by an inductive one: it holds at first, each action keeps
it, and it implies the property. What had to be added, and why:

| Module | Theorems | Inductive invariant |
|---|---|---|
| `LogProofs`, over `LogBufferProofs` | `MessageLogIsQueue`, `ReaderGetsOldest`, `TextIsOwn` of `DriverLog` | `DriverInv` |
| | `MonitorLogIsQueue`, `ReadsRemove`, `LeadersRun`, `CountOfLogs` of `SessionMonitor` | `SessionInv` |
| `QueueServerProofs` | `TypeCorrect`, `ProxyKeepsQueue`, `ProxyBelongsToName`, `RequestsFetchedInOrder` | `TypeOK`, `ThreadsOK`, `Servers`, `Ordered` |
| | `ReplyWakes`, `ReplyIsTheAnswer`, `EndOfFileIsClientGone`, `NoWakeupIsLost` | the former as `Base`, with `CallInv`, `ServeInv`, `AllAttended` |
| `PipeServerProofs` | `NoSharedSClient`, `RequestIsWhole`, `ReplyIsWhole`, `StepsAgree` | `PipeInv` |
| `ProxyStartupProofs` | `TypeCorrect`, `OneProxyServes`, `RefusalHasCause` | `TypeOK`, `HasProc`, `Fresh`, `Settled` |
| `ProcessLifeProofs` | `AnswerIsForTheProcess`, `BareOnlyAfterTimeout`, `ChildIsBoxed`, `IdIsClean`, `CancelIsMarked` | `LifeInv` |
| `IniServerProofs` | `NoPoolLeaked`, `StringsKept`, `VirtualCarriedOver`, `CacheCoversFile`, `AcknowledgedIsSaved` | `IniInv`, then `Covered` and `Saved` |
| `HiveMountProofs` | `CountIsUsers`, `OneProcessLoads`, `HiveStaysLoaded` | `CountInv`, then `OneLoader` and `NotHandedOut` |

`LogBufferProofs`. Lemmas only, about one ring of any size. A cell is named by its
distance from the start of the ring, and `Points` says which cell a pointer means,
below 0 or beyond the end included; `AfterPoints`, `GetField` and `PushBytes` say
that the byte loops move, read and write the right cells wherever the buffer ends.
`Chain(lb, n, off, num)` is the invariant of the ring: its occupied part is `n`
entries, the i-th from cell `off[i - 1]` to `off[i]`, each with its length in front
and behind and the number `num[i]`. From it `EntriesAre` (the walk forwards finds
these entries), `GetNext` (the walk backwards returns the successor of a number,
or the oldest entry if that is gone), `Pushed` and `EntriesPopped` (a push drops
the oldest entries, no more than it needs, and adds one whole entry; a pop drops
one), and `RoomIsUsed`. A recursive function is a `CHOOSE`: that one with the
equation exists is `WalkExists` and `CollectExists`, by induction over a set of
numbers (`NatInd`), with a rank that falls in every turn.

`LogProofs`. With `Chain` in the invariant, a step of either log is an entry more
behind some of the old ones (`Grown`), entries less (`Shrunk`), or a number used
up, and each of these is a step of `BoundedLog`. For `DriverLog` the invariant adds
that the numbers in the ring are consecutive up to the counter and that the data of
each entry is a message with that number (`Messages`). The loop of `Api_GetMessage`
then goes on from message to later message (`ScanIs`, so it ends) and stops at the
first wanted one after the reader's number (`ScanFinds`); what it reads there is
the session, the number and the text of that message, and behind the end of the
ring what nobody wrote (`MessageRead`). For `SessionMonitor`, `Get2Is` shows that
the loop of `MonitorGet2` hands out the first entries, whole, and leaves the rest.
The count of logs is first shown to be the number of monitored session ids, a set,
and then that of the logs, since no two sessions have one id.

`QueueServerProofs`. `TypeOK` alone is not inductive, for a thread that collects
or serves indexes `m_queues` with its own `name`; `ThreadsOK` says that such a
thread has a queue's name, and that one in the loop of a callback belongs to a
proxy. That no request is numbered 0 is part of the type and needs `NextNumber`:
the counter stays below -1, so the incremented value never reaches 0. `Servers`
adds that no process or queue was created after the latest `starts` (so that a
new process is never taken for an old server with the same id), and that a live
queue's server serves that queue. `Ordered`: every list is sorted by the order
of putting, none is newer than `sent`, and fetched requests come before unfetched
ones. These theorems hold across wraps of the counter.

The second half is about calls. Every step is of one of seven kinds (`Kind`: a request is put,
fetched, answered, collected or dropped, a client wakes, or calls and queues are
lost), and the invariants are carried over each kind once. `CallInv` is about
clients: a request is in one queue, once, has one caller in the process it names,
and its event is signalled neither before the answer nor reset before the client
wakes. `ReplyWakes` follows for every counter. The other three theorems need the
numbers to be distinct, since the service looks requests up by number: they are
proved under `NumbersDistinct`, for as many requests as the counter has numbers
(2^32 less two), which is the instance of the run too. `ServeInv` then says that
number and data determine each other, that one thread serves a request, which was
fetched, is not answered and, unless the service made it, stays in its queue.

`PipeServerProofs`. The code has no lock on an `SClient` and relies on the client,
which waits for an answer before it sends the next chunk. The invariant makes that
exact: at most one REQUEST of a connection is at the port or with a worker
(`Unique`), it is the chunk its client waits for (`Messages`), a connection belongs
to one client (`Owned`), and what the service has collected or has left to send is
what the client has sent or not yet got (`Steps`), for every length of request and
reply. After a failed allocation the two sides disagree about the chunk, so
`Steps` and the theorems on whole requests and replies leave such connections out;
`NoSharedSClient` does not.

`ProxyStartupProofs`. `Fresh` (proxies not yet created are nowhere named) with
`Settled`: as long as there was no fault, timeout or termination, evidence that a
proxy is up (a report, a notified client, a client on its second try) implies that
one is, and nobody was refused. `CalmBefore` shows that calm is never regained,
which carries `Settled` over a step.

`ProcessLifeProofs`. `LifeInv` has a part for each process, for each thread of the
service and for each message. The decisive ones: the creator of a process that has
another parent than the service is still there with its block while the driver
decides on the box (`Created`); the block
found after `Process_Create` is the one it entered (`Entered`); a thread that
injects holds the process open, so that its id cannot come back before the answer
(`Works`); a process that a message wants ended was marked before the message was
sent, and a mark is not taken back (`Cancels`).

`IniServerProofs`. The pools of the driver are the one in force and those of the
reloads between their reading and their swap, all different (`Owned`), and the use
count is the number of calls in the sections that take it (`Counted`).
`VirtCopied` compares what a reload is about to put in force with what is.
`Covered` and `Saved` include the backup, since a reload that the driver refuses
has it copied back.

`HiveMountProofs`. `Placed` ties the place of a process or thread to its box and
hive; `NotHandedOut` says that the hive of a process that did not come late is with
no thread of the service, which `HiveStays` alone does not.

Only model-checked:

- liveness (`RequestServed`, `StoredClientAnswered`, `CallEnds`,
  `ServiceCollectsAll`, `UnusedIsUnloaded`): the prover does not handle fairness;
- the three properties of section 5, which the code violates.

## 7. Limits

- `DriverLog` keeps `SeqMod` above the number of messages: when its 32-bit counter
  wraps, a reader's number may be that of a later message, and nothing says what it
  should get. The proofs about `SessionMonitor` hold across wraps.
  `ReplyAnswersCall`, `EndOfFileMeansClientGone` and `NoLostWakeup` of the queues
  are checked and proved for as many requests as the counter has numbers; after
  2^32 requests an abandoned request could have the number of a new one.
- A proxy's loop that ends for lack of memory leaves queued requests until the
  next one arrives; `NoLostWakeup` and `RequestServed` are stated for behaviours
  without failed allocations.
- A client's message of 2^24 bytes or more is cut, since the sequence number takes
  the highest byte of its length (`dll/callsvc.c:263`); lengths here are chunks.
- An erased `SClient` keeps its port handle and half-collected request
  (`svc/PipeServer.cpp:637`); `monitor_overflow` outlives the log it is about
  (`drv/session.c:744`); requests of clients that timed out stay in the queue
  (`svc/queueserver.cpp:826`). Nothing says what should happen instead.
- A thread of `Process_ScheduleKill` knows the id alone (`drv/process_util.c:1570`)
  and ends whichever process has it; `CancelHitsMarked` is about the way through
  the service.
- `ChildStaysInBox` says nothing of a process whose parent is the service, and
  `UnusedIsUnloaded` nothing of a hive that a failed mount left loaded (section 5).
- `AckedIsSaved` leaves out every behaviour in which the file could once not be
  read, backed up, written or copied back.
- Of two overlapping reloads the one that read the older file may be put in force
  last (`svc/sbieiniserver.cpp:1218`); `AckedIsSaved` is about the file.
- Overlapping changes of the maps of `drv/process.c` under a shared lock, and of
  the lists of proxies under none, are taken one after the other: what they do
  together is not defined.
- A reload that finds the use count taken time and again may wait forever; no
  fairness that the code justifies rules that out.
- Not modelled: the mounting of box images (`svc/MountManager.cpp`, with an image
  driver outside the repository); hooks and access decisions of single Windows calls (`dll/*`,
  `drv/syscall*.c`, `drv/ipc*.c`, `drv/token.c`), which have no state of their own
  or depend on kernel structures throughout; the functions that proxies and
  service servers perform for one request; packet rules of `drv/wfp.c`; the
  installer, tools, templates and translations; the Qt user interface apart from
  its polling of logs.
