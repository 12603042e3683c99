# TLA+ models of android_device_asus_qcom_common

The repository is the device tree of the Asus MSM8916 phones. Most of it is
configuration; its program logic is the Qualcomm GPS HAL under `src/gps`, the
camera shims and the camera wrapper under `src/libshims` and `src/camera`, and
the light HAL in `src/liblight`. This directory models them: TLA+ modules for
the components, TLC configurations for small instances, and TLAPS proofs of what
matters most for every value of the constants.

Run a check with `tlc -config X.cfg M`, a proof with `tlapm M.tla`.

## 1. Inventory

### How the system works

The framework (GpsLocationProvider) calls the HAL functions of `loc.cpp`, which
forward to `loc_eng.cpp`. Almost every call becomes a `LocMsg` in the queue of
one `MsgTask`, whose thread runs `proc()` of one message after the other. The
modem (behind `LocApiBase`), the daemons (over sockets) and the connectivity
service post to the same queue. So the handlers themselves are not concurrent;
what is hard is that every message was decided upon in an older state than the
one it is handled in. Four things do run beside the message thread: the NI
threads, the timer's poll thread, the framework's thread (which calls the ULP
proxy and NI functions directly), and the daemon connection.

| component | sources | state | operations | talks to |
|---|---|---|---|---|
| AGPS NIF state machine | `loc_eng_agps.cpp/.h` | state (RELEASED, PENDING, ACQUIRED, RELEASING), subscriber list with inactive marks | subscribe, unsubscribe, GRANTED, RELEASED, DENIED, drop all | modem's ATL clients, BIT daemon, connectivity service |
| DS NIF | `loc_eng_agps.cpp` | the same, plus retries and a timer | start and stop of a data call, retry, fallback to ATL | data services interface, timer service |
| NI sessions | `loc_eng_ni.cpp` | two sessions (ordinary, emergency): raw request, reqID, response, lock and condition | request, respond, timeout, reset on restart | modem, framework, one thread per request |
| Timer service | `LocTimer.cpp`, `LocSharedLock.h` | heap of delegates, one timerfd, epoll set | start, stop, delete, expire | clients' threads, message thread, poll thread |
| Engine session | `loc_eng.cpp`, `LocEngAdapter.*` | session flag, fix criteria, engine and session status, muting, pending deletion, ULP proxy | start, stop, position mode, cleanup, delete aiding data, reports, engine down and up, change of proxy | framework, ULP library, modem |
| Message queue and threads | `msg_q.c`, `linked_list.c`, `MsgTask.cpp`, `LocThread.cpp` | FIFO with an unblock flag, thread life | send, receive, unblock, destroy | everything above |
| Heap | `LocHeap.cpp` | a binary tree of ranked objects with subtree sizes | push, pop, peek, remove | timer service |
| LocApi base, adapters, contexts | `src/gps/core` | per context: a table of adapters, an event mask, the choice of the API; the context features are injected through | add, remove, change of mask, restart, report to all or to the first that takes it | engine, modem, message task |
| Daemon connection | `loc_eng_dmn_conn*` | five named pipes, a thread helper with mutex, condition and two flags | launch, signal, serve, answer, unblock, join | BIT and Wi-Fi daemons |
| NMEA generation | `loc_eng_nmea.cpp`, `LocEngReportSv` | satellites used and DOP, cached between satellite and position reports | satellite report, position report, end of the fix | framework |
| HAL glue and engine settings | `loc.cpp`, `loc_eng.cpp`, `LocEngAdapter.*` | `gps_conf`, SUPL server, data availability, power vote, callbacks | init, cleanup, AGPS and RIL calls, measurements, configuration update, re-initialisation | framework, modem |
| Camera binder interfaces | `ICamera*.cpp`, `camera2/*` | none; nine interfaces, four parcelables | every method's write, read, write and read | camera service |
| Camera client | `CameraBase.cpp`, `Camera.cpp` | the cached service, a Camera's remote, two listeners | connect, methods, disconnect, obituaries, recording, frames | camera service, application threads |
| Vendor tags | `VendorTagDescriptor.cpp` | maps of tags, sections and names | from the vendor, to and from a parcel, lookups | camera service |
| Metadata | `CameraMetadata.cpp` | a buffer and a lock per object | assign, lend, release, acquire, swap, append, update, erase, read from a parcel | camera service, applications |
| Parameters | `CameraParameters*.cpp` | a map of texts, sorted or in the order of setting | set, remove, flatten, unflatten, sizes | application, wrapper |
| Camera wrapper | `CameraWrapper.cpp` | devices, one array of parameter texts for all cameras | open, set parameters, close | vendor's camera module |
| Light HAL | `lights.c` | two kept lights under a mutex, five sysfs files | set each of four lights | framework, kernel |
| XTRA, configuration reader | `loc_eng_xtra.cpp`, `loc_cfg.cpp` | little | injection, parsing | framework, files |

`PROJECT.json` lists all components, also the ones that are data, vendored code
or pure I/O, and the hazards with their lines.

### What makes the components correct

* **NIF.** A client that believes its connection open is a subscriber of a
  machine that holds it; a waiting client is never forgotten; every request and
  every release is answered; no connection is left open for nobody.
* **NI.** Every request is answered once, by its own thread, with the response
  its own user gave; every thread exits.
* **Timer.** The soonest timer is the one armed; a delegate is deleted once and
  after its last use; every timer is stopped or calls back, and not early.
* **Session.** What is stopped stays stopped and what is asked for is served,
  through late reports, restarts and the change of proxy; muting ends; what the
  framework was told is true.
* **Adapters.** Every adapter of a context gets every report, and the modem is
  registered for every event some adapter wants, after restarts too.
* **Heap.** It is the set that gives out its highest ranks first and finds what
  is to be removed, with equal ranks too.
* **Daemon connection.** Requests arrive once and in order, answers reach their
  sender, launch returns, and unblock and join end a server that is ready.
* **NMEA.** Each satellite of a report is named once, the sentences of a fix
  agree, and a report's satellites are shown for one fix only.
* **Settings.** A modem that has restarted has again what the engine holds, and
  the lock follows the power vote.
* **Camera.** A binder call is what a local call would be; deaths of the service
  are noticed, and a listener set in time is told; copies under locks make the
  races harmless; the text the vendor was given lives until the next one or the
  close; tags survive the parcel; a metadata buffer has one
  owner and stands still while it is lent; parameters survive their texts.
* **Lights.** The shared LED shows the light with priority.

## 2. Plan

Order: the NIF first, because that is where a lost step costs the user an
emergency location; then the DS variant, NI, the timer, the session, and the
message task with the abstract FIFO the other modules assume; then the other
parts of the HAL (daemon connection, adapters and contexts, heap, NMEA, settings)
and the camera and light code. Those are done. Composition is by assumption: the
modules take their queues for the FIFO that `MsgTask` implements and their heap
for the `RankedSet` that `LocHeap` implements; `AgpsNif` and `AgpsDs` share
`AgpsStateMachine`, `CameraBinder` and `VendorTags` share `Parcels`.

Left:

* XTRA injection and the configuration reader.

## 3. The modules

### AgpsStateMachine, AgpsNif (`loc_eng_agps.cpp`)

`AgpsStateMachine` has no variables. `onRsrcEvent(m, event, c, ds, ok)` gives,
for a machine `m` (a record of state, subscribers and inactive subscribers), the
machine after the event, who is told what, and what is requested of the service;
`OnReleased`, `OnPending`, `OnAcquired` and `OnReleasing` are the four classes'
`onRsrcEvent`. `AgpsNif` puts one such machine at work: `msgs` is the adapter's
queue, `requests` the calls of `agps_status_cb` the service has not acted upon,
`conn` the service's connection, `client` what each ATL or BIT client believes.
`subscribeRsrc` and `unsubscribeRsrc` are the handlers of `LocEngRequestATL` and
`LocEngReleaseATL` (and `LocEngReqRelBIT`); `LocEngAtlOpenSuccess`,
`LocEngAtlClosed` and `LocEngAtlOpenFailed` handle the service's reports;
`LocEngUp` is the part of `loc_eng_handle_engine_up` that drops all subscribers.

*Environment.* The modem does not use a handle again while the HAL still knows
it (`HandleFree`). The service acts on requests in order and may lose a network
at any time. A BIT subscriber is dropped by a modem restart without being told;
the properties excuse it (`DroppedUntold`). In `notifySubscribers` the ID of a
receiver that has just been deleted is assumed still to be read as it was.

*Bounds.* Two ATL handles and one BIT client, two queued messages and two unread
requests when a client sends, one restart. Two handles are what stale reports
need: one that has gone and one that has come; the bounds limit only the
clients, reports are always queued.

### AgpsDs (`DSStateMachine`)

The same machine with a list in order (the first active subscriber is the one
retried), `retries`, retry `timers` and the service's `call`. `Dispatch` is one
event with the result of `openAndStartDataCall`; `Retried`, `GivenUp` and
`Exhausted` are the branches on its failure; `ReleasedReport` is the RELEASED
that is handled again as DENIED; `retryCallback` runs on the timer thread.
`atl` is the set of handles that went to the ordinary NIF.

An engine without a `ds_nif` is not modelled: there an emergency request is an
ordinary ATL request, which `AgpsNif` has, or is refused.

*Environment.* A closed handle is used again only when no message for it is
queued and it is not inactive. `MaxRetries` is the code's 4. Note that
`loc_timer_start` returns a handle, which `sendRsrcRequest` takes for an error:
the timer runs and the request still counts as failed, as modelled.

*Bounds.* One client in the passing run, two in the violation run: with two,
the machine can be left in PENDING with no call under way, see below. All three
parts of `DsAgrees` are false then: a RELEASING that follows such a PENDING has
no call to wait for, and the retry is made for the head of the list, so that a
client that joined later takes the retry of the one that was busy.

### NiSession (`loc_eng_ni.cpp`)

A request is its number `n`, which names its thread and its payload too. Every
access outside `tLock` is a step of its own: the check and the store of
`loc_eng_ni_respond` (`respond`, `RespondIgnore`, `RespondSet`), the check, free
and signal of the reset (`ResetCheck`, `ResetFree`, `ResetSignal`), and in
`ni_thread_proc` the wait, the time-out, the taking of the request and the
posting of the answer.

*Environment.* The framework answers each notification once, on one thread; the
two-field check of `loc_eng_ni_respond` is one step. `loc_afw_data` is static,
so `resp` starts as zero.

*Bounds.* Two requests and one restart, so that a late response, a leftover
thread and a new request meet.

### LocTimer (`LocTimer.cpp`)

A delegate is the number of its start; `heap` is `LocHeap` seen as a set whose
top is the least time, ties broken by age. `start`, `stop` and `Delete` run on
clients' threads under the shared lock; `MsgTimerPush`, `MsgTimerRemove` and
`MsgTimerExpire` on the message thread, with the read of the client
(`ExpireRead`), the `stop` (`ExpireStop`) and the callback as separate steps;
`PollWake`, `PollDisarm` and `PollSend` on the poll thread.

*Environment.* One container; a deleted client reads as one without a timer. The
branch of `updateSoonestTime` that disarms the fd is unreachable, because
`remove` passes NULL as the prior top; it is not modelled.

*Bounds.* Two clients, three starts, delays 1 and 2, time to 3: enough for a
timer that is started while an earlier one expires and a third that is soonest.

### LocEngSession (`loc_eng.cpp`, `LocEngAdapter.cpp`, `UlpProxyBase.h`)

`queue` is the message task's, `ulpQueue` what a ULP library has taken and not
passed on. `loc_eng_start`, `loc_eng_stop`, `loc_eng_set_position_mode`,
`loc_eng_cleanup` and `loc_eng_delete_aiding_data` run on the framework's thread
and go through `ToProxy`: the base proxy remembers the call and leaves it to the
engine, a library takes it. The message thread's actions are named for their
handlers. `track` is the fix the modem works on, with the criteria it was
started with; `told` what the framework was told through `status_cb`.
`setUlpProxy` hands the remembered mode and start to the library. A position
report is reduced to its status and to whether it meets the reporting criteria.

`loc_eng_cleanup` stops the session it finds; a start that is still queued it
does not see, and that session stays asked for.

*Environment.* The framework sets a mode before each start and starts what is
stopped. A library forwards calls in order. The
modem ends a single shot after a final fix, does not refuse to start again what
it works on, stops when told to, says ENGINE_ON before SESSION_BEGIN and
SESSION_END before ENGINE_OFF, and loses its fix when the connection is closed
and opened again (`LocSsrMsg`). Calls through the proxy are atomic.

*Bounds.* Five calls (mode, start, stop, and two more: a second session, a
deletion or a cleanup), two reports, one restart, two messages waiting when
another one is posted.

### MsgTask, MsgFifo (`msg_q.c`, `linked_list.c`, `MsgTask.cpp`, `LocThread.cpp`)

`MsgFifo` is what the other modules assume of their queues: messages are handled
one at a time, once, in the order of acceptance; after the queue is closed at
most one more is handled and the rest is discarded. `MsgTask` is the code: the
list (`linked_list_add` at the head, `linked_list_remove` at the tail), the flag
`unblocked`, and two program counters, `thread` for `threadMain` with
`msg_q_rcv` and `proc`, and `owner` for `MsgTask::destroy()` with `bye()`,
`stop()`, the join and `LocThreadDelegate::destroy()`. Every critical section is
a step; the accesses of `mRunnable`, which no lock protects, are steps of their
own. The refinement mapping reads the list backwards, puts the message in the
thread's hands in front of it, and counts an unblocked queue as closing while
the thread waits or handles a message.

*Environment.* Messages are sent while the task exists, by any thread; the owner
calls `destroy()` at most once and not from a handler. A list element may fail
to be allocated, and so may the thread; the queue itself may not. No code in the
repository destroys a task; the model covers what the classes offer.

*Bounds.* Four messages: one in the thread's hands, two queued, one refused.

### DmnConn (`loc_eng_dmn_conn*.c`, `.cpp`)

The owner (`dOwner`) launches, unblocks and joins; the server's thread
(`dThread`) opens the pipes (`proc_init`), signals (`signal_ready`), and handles
one message at a time (`loc_api_server_proc`, `if_request_handler`,
`if_release_handler`) until it is told to exit; the engine answers through
`data_conn`. `dPipe` is what the pipes hold; a write to a full pipe and a read
of an empty one wait. A write that waits is a state of its own: unblock in
`dOwner = "writing"`, an answer in `dAnswering`. It goes on when somebody has
read (`unblock_written`, `data_conn_written`), and not because the server closes
the pipe: `close()` in one thread does not end a `write()` that another has
begun, and a descriptor opened `O_RDWR` is its own reader, so that the pipe
never breaks. A server that leaves by an error with its pipe full, or whose last
free place a client has taken, therefore leaves unblock waiting for ever
(`UnblockHangs`). The model reaches this state; `JoinReturns` excuses it by name
and says that the owner returns in every other. A client that still has an
answer pipe open may read from it when it is removed, which ends the wait of an
answer (`Removed`). `signal_wait` may return without a signal, as POSIX allows
and as the code, which has an `if` where a loop would be, lets through
(`cond_wait_returns`).

*Environment.* Nothing in the repository launches the server, so the owner is
any client of the header. *Bounds.* Pipes of two messages and three written
messages, so that the pipe is full once more after the server has read; one known
and one unknown sender, two launches (the second finds the state the first has
left), three outcomes of open.

### LocApi (`LocApiBase`, `LocAdapterBase`, `ContextBase`, `LocDualContext`)

Per context: the class of its API (`aApi`), the table (`aTable`), what is
registered with the modem (`aOpened`). `addAdapter`, `removeAdapter`, which
moves the last adapter to the free slot, `updateEvtMask` and the messages of the one task (`MsgProc`); `report`
and `request` are the two macros that go through the table. `handleEngineUpEvent`
and `handleEngineDownEvent` queue as the code does.

*Bounds.* Three adapters for two slots, two contexts, two events, two queued
messages: a full table, an empty one, and one with a hole to close.

### LocHeap, RankedSet (`LocHeap.cpp`)

`node_push`, `node_pop` and `node_remove` return the tree that replaces their
argument and are recursive, which keeps the module out of TLAPS's reach;
`RankedSet` is the promise and `IsRankedSet` the refinement. `checkNodes` is the
code's own test. *Bounds.* Six objects of three ranks: trees of depth three with
equal ranks on both sides.

### Nmea (`loc_eng_nmea.cpp`)

A sentence is a record of what it says. `ReportSv` and `ReportPosition` are the
two generators with the caches between them; `setGnssSvUsedListData` and
`clearGnssSvUsedListData` the part of the engine's handlers that fills and
empties the list of satellites used. *Bounds.* Lists of 0, 4, 9 and 14
satellites, mixed and not: none, one full sentence, a remainder, more than the
twelve a GSA shows.

### GpsHal (`loc.cpp`, `loc_eng.cpp`, `LocEngAdapter.cpp`)

The framework's calls queue messages; `HalProc` passes them to the modem, which
loses them while it is down. `gps_conf` is used by both threads without a lock,
so a configuration update is three steps (`UpdateParse`, `UpdateSend`,
`UpdateRestore`). `gExcuse` records what the properties excuse, with the place
in the code that makes it necessary: a re-initialisation within an update
(`race`), a lock sent to a modem that is down (`lock`), data availability sent
without an APN (`no APN`). *Bounds.* Four calls, one restart, one message
waiting when a call is made.

### Parcels, CameraBinder (`ICamera*.cpp`, `camera2/*`)

A parcel is a sequence of typed items. `Bp...` says what a proxy writes and
reads for each method, `Bn...` what its stub reads, calls and writes; a call
goes through `BinderCall`, `onTransact`, `BinderReturn`, and the service may die
between them. The methods of all nine interfaces are covered, with the nulls,
lists and descriptors each takes. Parcels' operators are the four parcelables.

### CameraClient (`CameraBase.cpp`, `Camera.cpp`)

The service is known by its incarnation, 0 is null. A thread's local pointer is
in `kThread[t].p`; where the code uses a reference or the member again the
pointer is read at the step that uses it. A call through null is a fault and
ends the behaviour. Frames pass `dataCallbackTimestamp` in steps, because the
two listeners are read under two locks. `CameraDied` is `binderDied` with
`notifyCallback`: the error reaches the listener that is set and is dropped when
there is none, which `mObituary` records. `mListening` is history: a listener was
set while the remote lived and has been since. *Environment.* A new Camera is
made when the last one has been disconnected and nothing of it is under way.
*Bounds.* Two threads (symmetric), two deaths, of which the second is for good,
one frame, one stop.

### CameraMetadata (`CameraMetadata.cpp`)

`mMem` are the library's buffers with their room for entries and data, `mObj`
the objects' `mBuffer` and `mLocked`, `mLent` what `getAndLock` has handed out,
`mRaw` what `release` has. An allocation may fail; a free address is used again
at once. `resizeIfNeeded` gives the buffer afterwards and the one it loses.
*Environment.* Nobody appends an object to itself or null. *Bounds.* Two objects,
four buffers, four calls: fill, grow, lend, and one call that must not disturb.

### CameraParameters (`CameraParameters.cpp`, `CameraParameters2.cpp`, fixups)

A text is a sequence of tokens: marks, words, numbers. Both classes share
`flatten`, `unflatten` and `parse_pair`, as their code does; they differ in
`add`, `get` and `set`. `camera_fixup_getparams` and `fixup_set` are the
wrapper's edits on the way to the application and back. `hdr-need-1x` is added
as with `QCOM_HARDWARE`, which `BoardConfigCommon.mk` turns on. *Bounds.* Eight
texts of vendors (with empty, doubled and ill-formed parts), three calls.

### CameraWrapper, VendorTags, Lights

`CameraWrapper`: texts are numbers; `wShared` records that an open came while
another camera was open, which the properties exclude, because the array is one
for all. `camera_device_close` is two steps, because the texts are freed before
the vendor's device is closed (`camera_vendor_close`); `wClosing` is the camera
in between, whose device the vendor has open with a freed text. Opens and other
closes wait for the lock, settings of another camera do not. Two cameras, four
texts. `VendorTags`: every list of up to three tags
with two names and two sections, acceptable or not, through the parcel. `Lights`:
eight states of a light at the borders of every comparison.

### The MC modules

`MCFair`, `MCParts` and `MCCamera` each put several components that do not
interact into one run: the first state chooses in `part` which of them moves, so
that the state space is the sum of theirs. They define the instances; no
definition is replaced. In `MCCamera` the application's threads are symmetric,
which is sound as the run checks invariants only and no constant tells the
threads apart.

## 4. The runs

| run | shows |
|---|---|
| `agps_nif` | list, state, clients and connection stay consistent under stale reports, withdrawn requests, lost networks and a restart; every request and release is answered |
| `agps_nif_leak` (violation) | a stale DENIED or RELEASED ends a newer session; the GRANTED that follows is ignored in RELEASED and the connection stays open with nobody subscribed |
| `agps_ds_pending` (violation) | RELEASING moves to PENDING though starting the new call failed: nothing will ever answer |
| `ni_session` | no request is answered twice or for ever unanswered, until a restart payloads and answers belong to their own thread, every thread exits |
| `ni_stale_answer` (violation) | a response checked before the time-out and stored after it answers the next request |
| `loc_timer_early` (violation) | a timer restarted while its previous expiration is handled calls back at the old time |
| `loc_eng` | stopped stays stopped, asked for is served, muting and pending deletions end, what was told is true |
| `loc_eng_restart` (violation) | the session restarted after a modem crash is started without a valid position mode |
| `msg_task` | the message task implements the FIFO; the thread is woken for every message and for the end; task and delegate are deleted after their last use and none is left |
| `fair` | the daemon connection delivers, and returns unless unblock is left at a full pipe that was removed; the soonest timer stays armed, delegates are deleted after their last use and every timer ends once; with one emergency client every request ends in the data call or the fallback |
| `parts` | adapters and events, the heap as a ranked set, NMEA sentences, the modem's settings after restarts, the LED |
| `camera` | binder calls and parcels, deaths of the service, races of the client, the wrapper's texts, vendor tags, owners of metadata buffers, parameters as texts |

Where a component has several invariants that are checked together, one named
conjunction stands for them (`MachineAgrees`, `DsAgrees`, `TimersAreSound`,
`ModemFollowsEngine`, `SessionSettles`, `CallsAreFaithful` and so on); its parts are defined above
it, each with what it says, and each part has a mutant of its own.

`agps_nif`, `ni_session` and `fair` check for deadlock. `loc_eng` and `msg_task`
do not, since a framework whose calls are used up may stop, and a task that was
destroyed has ended; nor do `parts` and `camera`, whose components wait for
calls and have bounded many. In `NiSession` and `LocTimer` the end of a bounded
behaviour is an explicit stuttering step (`Quiet`) that is enabled only when
nothing is left to do; `MCFair` has such a step (`Rest`) for a server that has
ended.

### Fairness

Weak fairness of the message thread, the poll thread, the NI threads and the
timer: they are threads that run whenever they have work. NI waits time out.
The connectivity and data services answer what they were asked. In `MsgTask` the
task's thread runs, handlers return, and `destroy()` goes on once called. In
`DmnConn` both threads go on; nothing is assumed of clients. In
`LocEngSession` a ULP library passes its calls on, and the modem comes back
after a crash, reports its status, and ends a single shot. No client has to
ask, release, answer, start or stop, and nothing has to fail. `MCFair` states
the same assumptions for its parts; time passes only in the part that has it.

## 5. The proofs

For every value of the constants (any number of clients, requests, restarts,
messages):

* **AgpsNifProofs**: `TypeOK`, `ReleasedHasNoSubscribers`, `GrantIsBacked`,
  `WaitingIsTracked`, `MachineAgrees`. None is inductive. `IInv` adds that an ATL or BIT machine
  never has inactive subscribers, hence never is RELEASING (`MachineInv`); that
  a handle has at most one request queued (`QueueInv`); and that between a crash
  and `LocEngUp` no modem client holds the NIF and one that waits has its
  request behind `LocEngUp`, so the drop cannot forget it (`RestartInv`).
  `MachineAgrees` needs more (`AgreeInv`): where subscribers come from
  (`NoGhostSubscriber`, `OriginInv`); that without a connection every
  AtlOpenSuccess in the queue, and the one already acted upon, has an AtlClosed
  behind it (`ConnInv`); and that in PENDING the last request to the service is
  a REQUEST or its answer is on its way (`PendInv`).
* **NiProofs**: `AnsweredOnce`, `EsIsNewer`, `AnswerBySelf`, `NiIsSound`. `NiInv` adds that
  all numbers in use have been handed out, so a new request is different from
  every old one (`NumbersInv`), and that before a restart a waiting thread finds
  its own request (`OwnInv`). That a payload has one owner is proved from
  `FreedInv`: until a restart, what was handed out is freed once if nobody holds
  it and not at all otherwise.
* **LocEngProofs**: `SessionTypeOK`, `StoppedIsIdle`, `RequestIsServed`,
  `StatusIsKnown` (`MutedIsOn` and `ToldIsTrue`). `StoppedIsIdle` and `RequestIsServed` speak of
  empty queues; the invariant says what holds before that: of the start and stop
  commands under way, first in the engine's queue and then in the library's, the
  last one is the framework's last word, or there is none against it and the
  session already is as the framework wants (`StopInv`, `StartInv`). That the
  change of proxy keeps it rests on `ProxyInv`: the base proxy remembers a fix
  only while it is asked for. `TrackInv` relates the modem's fix to the
  session's recurrence, `BeginInv` keeps ENGINE_ON in front of SESSION_BEGIN.

* **MsgTaskProofs**: `MsgTypeOK`, `AliveWhileUsed`, `NothingIsLeft`, and the
  refinement `Spec => IsFifo`. `MsgInv` says that the thread ends only after
  the owner has unblocked the queue (`UnblockInv`: otherwise a discard would
  happen in an open queue), that the count is the number of threads which still
  hold a reference and the one that finds it 1 deletes the delegate alone
  (`RefInv`), and who deletes the task (`TaskInv`). The refinement needs three
  lemmas on sequences (`AddIsAppend`, `TakeIsHead`, `InFront`) and then goes
  action by action: `Queued` accepts, `proc` handles, `msg_q_unblock` closes,
  deleting the task discards, a woken thread that finds nothing gives up, and
  everything else changes nothing of the queue.

* **LocApiProofs**: `AdaptersAreServed` and the action property
  `RightAdaptersAreTold`. `LocApiIInv` says that the first n slots of a table
  hold the adapters of the context, each once, and the others none
  (`TablesInv`, which makes the loops that stop at the first free slot reach
  everyone), and that an event somebody wants is registered, or a
  message queued for the context brings it (`PendingInv`).
* **CameraProofs**: `DeathsAreNoticed` and `RacesAreSafe` of the client from
  `ClientIInv` (what is cached is linked to, what is linked to and dead has an
  obituary to come, what a thread has copied is at most as new as the service,
  a listener that was set before the death is still set when the obituary is
  handled); `VendorIsServed` of the wrapper from `WrapperIInv`; of the metadata that a
  buffer has one owner and stands still while it is lent, from `MetaIInv`, with
  one lemma for each way a buffer changes hands (`OwnGiveAway`, `OwnTake`,
  `OwnSwap` ...) and for what a call does to the memory.
* **HalProofs**: `LedIsRight` and `ModemFollowsEngine`. The priority part of the
  first is inductive with the types; the range needs that a weighted sum of
  bytes and a ratio of on to off are bytes (`BrightnessIsAByte`,
  `RatioIsAByte`). The second speaks of a settled HAL; `HalIInv` says what holds
  before that. Of each setting, the lock, the power vote, the server, the data
  status and the measurements: the last queued message about it brings the
  wanted value, or none is queued and the modem has it, unless the modem is down
  or a restart or an Init that will send it again is queued (`SettingsInv`,
  `LockInv`, `PowerInv`, `ServerInv`, `DataInv`, `MeasInv`). During a
  configuration update the wanted value is that of the copy the update works on.
  That one Init or restart sends every setting rests on a lemma on `SetToSeq`,
  proved by counting: it lists each member once.
* **ServiceProofs**: `TimersAreSound` and `EndsOnce` of the timers. `TimerIInv`
  says that a `LocTimer` and its delegate point at each other until the timer
  stops and the delegate's outcome is open just as long (`LinksInv`), and of
  each message that a Remove is the last one about its delegate, whose client
  has let go of it (`QueueInv`). The heap's top exists by well-foundedness
  (`TopIsSoonest`), and from it follows that `updateSoonestTime` arms the fd
  early enough for everyone (`ForcedArms`, `PushStep`). Of the daemon
  connection: `MessagesArrive`. `DmnInv` says what the pipes and the forwarded
  messages may hold. The order is stated by counting: the number of a written
  message is how many of those up to it are passed on. What the engine has are
  the first of them (`ToldInv`), what is in the server's pipe are the others, in
  order (`NextInv`), until the server stops reading; a write adds one at the end
  of both (`WrittenKeeps`), taking one moves it from the second to the first
  (`TakenKeeps`). Of the data-services NIF: `DsTypeOK` for any number of clients
  (`KeptIs` and `RelistIs`: the list after an event holds the subscribers the
  machine has, each once), and `DsAgrees` for one client. `OneInv` adds that the
  client is inactive exactly in RELEASING and idle then, that its release is
  queued once and only while it is closing, that a call is stopped only from
  RELEASING on, and that a report of an opening that is no longer true has one
  of the closing behind it (`OpenedInv`). One client is not a bound chosen for
  the prover: with two the property is false.

The assumptions are the named ones of the modules, which TLC evaluates in the
runs: bounds are naturals, the kinds of clients are disjoint
(`AgpsNifAssumption`, `LocTimerAssumption`), the handle -1 is no client's
(`AgpsDsAssumption`), there are finitely many settings, each is either updatable
or read at init only, and a configuration has a value for each
(`GpsHalAssumption`), tokens differ from the values they
stand beside (`LocApiAssumption`: an adapter is not NULL, a mask not "closed"),
light states have bytes and times that are not negative (`LightAssumption`), and
open() concerns the five pipes (`DmnAssumption`).

Only model-checked:

* everything about liveness, and what is a conjunction with it (`TimersEndOnce`,
  `OwnerReturns`);
* `UpdatesAreMade`, the third part of `MetadataIsKept`, which adds up sizes and
  sorts, and `TagsSurviveParcel`, which folds and sorts: both need induction over
  data;
* `CallsAreFaithful`, which is about one finite table of methods that TLC checks
  as a whole, and `Nmea`'s sentences;
* `LocHeap` and `CameraParameters`, whose operators are recursive.

## 6. Findings

Each violation run has an entry under `findings` with the line and the comment it
disagrees with: the leaked connection (`loc_eng_agps.cpp:296`), the PENDING state
nobody answers (`:563`), the stale NI response (`loc_eng_ni.cpp:404`), the early
timer (`LocTimer.cpp:526`) and the restart without a mode (`loc_eng.cpp:2987`).

Met while modelling, and in the models as they are, without a run of their own:

* `loc_eng_init` clears the instance with `memset` (`loc_eng.cpp:1834`), and with
  it a SUPL server set before; `:2360` speaks of "server addresses which came
  before init".
* A GPS lock sent to a modem that is down is not sent again after the restart.
* The wait of the daemon's thread helper is not a loop; after a wake-up without
  a signal, unblock may write to no pipe and join would wait for ever.
* `loc_eng_dmn_conn_loc_api_server_unblock` waits for ever when it finds the pipe
  full and the server leaves by an error, or a client takes the room first
  (`loc_eng_dmn_conn.cpp:183`); in the same way the engine's message thread waits
  for a client that does not read its answers.
* The last adapter closes the API at once while an earlier `LocOpenMsg` waits,
  which then opens it with no adapter; an adapter that finds the table full is
  dropped without an error.
* `supportsCameraApi` and `getLegacyParameters` read their result from the
  parcel they have sent (`ICameraService.cpp:299,321`); most proxies ignore what
  `transact` returns, so that the death of the service reads as success; a
  request submitted without room for the frame number is reported as failed.
* `CameraBase` keeps references to the cached service after the unlock, and
  `getParameters`, `setPreviewCallbackFlags` and `disconnect` read `mCamera`
  again: a call through null is possible.
* A camera whose service dies before the application has set a listener, between
  `connect` and `linkToDeath` for one, is never reported to it: `notifyCallback`
  drops the error (`CameraBase.cpp:178`) and nothing repeats it.
* Closing a camera frees the text that the vendor was given last before the
  vendor's device is closed (`CameraWrapper.cpp:475-482`).
* Closing one camera frees the parameter texts of all, without forgetting them;
  an open out of memory for its operations leaves the vendor's device open; the
  check of the camera's id lets one past the last through to the vendor.
* `CameraMetadata::resizeIfNeeded` overwrites `mBuffer` with the null of a failed
  allocation: content and buffer are lost. `acquire` of a buffer by a locked
  object loses it, and `acquire` from a locked object empties the acquiring one.
* A list of `CameraParameters2` made of a text with a key twice keeps both, and
  `set` replaces the first, so that `get` then returns the older second one;
  `vectorIdx < 0` in its `removeItem` tests an unsigned number.
* `getRotationTransform` tests `entry.count` again where it means
  `entryFacing.count` (`CameraUtils.cpp`).
* The battery's light replaces a lit notification and is not shown again after
  one is cleared; a flash on for less than 1/255 of its period is written as 0.

## 7. Not modelled

Uses of freed memory (the proxy deleted under the framework's thread, a deleted
`LocTimer`, the receiver read in `notifySubscribers`, the C timer wrapper, the
field `MsgTask::destroy()` resets after its thread may have deleted it): what
the memory holds decides, and the models assume the benign outcome. The Wi-Fi
subscriber, XTRA injection, time and location injection and certificates, which
pass one value to the modem and keep nothing; the configuration reader; the
layout of numbers and the checksum in NMEA sentences. Of the camera code: the
tables of keys and formats, the functions of the wrapper that only pass a call
on, the reading accessors of `CameraMetadata`, the transform of `CameraUtils`
and the global vendor tag descriptor. The WCNSS client and the
recovery updater are pure I/O; the CyanogenMod classes write one file each;
configuration, policies, overlays and build files have no logic to model.
