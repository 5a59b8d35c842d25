# Verification of the msm8916 location HAL

The repository is the common device tree of the Samsung msm8916 phones. Nearly
all of its program logic is the GPS/location HAL under `src/gps`; the rest is a
few small HAL wrappers (camera, light, sensors), shims, build files and device
configuration. This project models the concurrent and stateful core of the
location HAL in TLA+, checks it with TLC and proves its most important
invariants with TLAPS.

All paths below are under `src/`. `LA` stands for
`gps/loc_api/libloc_api_50001`.

## 1. The system

### Threads and how they talk

The HAL runs in one process with these threads:

* the **MsgTask** of the location context: one thread and one FIFO of `LocMsg`.
  Nearly all engine, A-GPS and NI-request code runs there;
* the **LocApi thread**, which delivers the modem's indications (positions, NI
  requests, A-GPS requests, engine down/up). It mostly posts messages, but
  reopens the modem handle on its own message and calls `sendMsg` twice for one
  engine-up event;
* the **framework's threads**, which call the HAL entry points (`LA/loc.cpp`):
  most calls post a message, but `loc_eng_ni_respond` writes a slot and
  `loc_eng_cleanup` reads the session flag in the caller's thread;
* an **NI thread** per network-initiated request, waiting for the user's answer;
* the **timer threads**: one MsgTask that owns the heap of timers and one poll
  thread on the timerfds;
* the **daemon connection** threads (Wi-Fi scanner, MSAPM/MSAPU sockets).

### Components, their state and what makes them correct

| Component | State | Operations | Correct when |
|---|---|---|---|
| A-GPS broker (`LA/loc_eng_agps.cpp`) | per NIF: state Released / Pending / Acquired (/ Releasing), list of subscribers | subscribe, unsubscribe, grant, release, deny, engine up | nobody waits for an answer that never comes; who is told "granted" has a link or news of its loss on the way; a link nobody wants is given back |
| Emergency data connection (DSStateMachine, same file) | the same plus a retry count and a timer | the same, plus retry | every client answered, by a call or by the ordinary NIF; no call is left open for nobody |
| NI sessions (`LA/loc_eng_ni.cpp`) | two slots with the raw request, its id, the answer, a flag, the time left; a lock for part of it | request, user answer, timeout, reset on engine restart | one answer per request, the user's own; no slot blocked for ever |
| Timers (`gps/utils/LocTimer.cpp`) | heap of delegates, timerfd, epoll set, a message queue; per client its running timer | start, stop, delete; push, remove, expire | no running timer is lost or left without a wake-up; none fires after its stop; delegates are freed once |
| Heap (`gps/utils/LocHeap.cpp`) | binary tree | push, pop, remove | a priority set: no object lost, top outranked by none |
| Linked list (`gps/utils/linked_list.c`) | doubly linked elements | add, remove, search (and take out), flush | a FIFO whose elements are handed out or deallocated once |
| Message queue and task (`msg_q.c`, `MsgTask.cpp`) | list, `unblocked` flag, condition variable | send, receive, unblock, destroy | no lost wake-up; each message once and in order; destroy returns |
| Threads (`LocThread.cpp`) | delegate shared by owner and thread, reference count | start, stop, delete, the thread's main loop | the delegate lives exactly as long as it is used |
| Engine sessions (`LA/loc_eng.cpp`) | navigating or not, session mute, aiding-data mask, engine on/off, callbacks | init, start, stop, delete aiding data, engine down/up, reports | a requested deletion happens once the engine is off; a session survives an engine restart; a muted session reports nothing |
| Engine settings (`LA/loc_eng.cpp`, `LA/loc.cpp`) | `gps_conf`, `agpsStatus`, server buffers, power vote, measurement and capabilities callbacks, all shared by two threads without a lock | init, clean-up, set server, availability, configuration update, measurements, reinit after a restart | what was set last reaches the modem, also after a restart; nothing stale stays there |
| LocApi and adapters (`gps/core`) | array of up to ten adapters, event mask, open state | add/remove adapter, update mask, SSR, engine up | the modem is open with the union of the masks; an upcall reaches each adapter once, none after its removal |
| Contexts (`gps/core/LocDualContext.cpp`) | lazily created singletons | get | one context, one MsgTask |
| Daemon connection (`LA/loc_eng_dmn_conn*`) | server thread, two handshake flags, three pipes | launch, wait, ready, unblock, join; receive, handle | launch returns once the server is ready; join returns; the daemon is answered |
| NMEA generator (`LA/loc_eng_nmea.cpp`) | masks of used satellites, dilutions, session state | position report, satellite report | the sentences tell one story |
| Configuration (`gps/utils/loc_cfg.cpp`) | tables of parameters with validity bits | read a file, apply an update | the last value given holds |
| Camera wrapper (`camera/CameraWrapper.cpp`) | vendor device per camera, one array of parameter strings, one set of callbacks | open, close, release, parameters, forward | a camera is served as if it were alone |
| XTRA, logging, light and sensors wrappers | callbacks or one vendor handle each | forward | |

They interact through three mechanisms: **messages** (every client of the
engine to the MsgTask), **callbacks** (the broker to the framework and to its
subscribers, the timer task to its clients) and **shared memory** with a partial
lock (NI slots, `LocTimerDelegate::mClient`, `LocThreadDelegate::mRunnable`).
The hard behaviours are almost all of one kind: by the time a message, a
callback or a value read without a lock is used, the state it was about has
moved on. Engine restarts add a crash between any two steps; the NI thread and
the timers add timeouts that race with late answers. `PROJECT.json` lists every
hazard at its line.

## 2. The modules

| Module | Models | Extends / refines |
|---|---|---|
| `Agps` | the A-GPS broker of the two data NIFs, the adapter's queue, modem, BIT client and framework | |
| `AgpsProofs` | its theorems | `Agps` |
| `NiSession` | both NI slots, their threads, the user's answers and the reset | |
| `NiProofs` | its theorems | `NiSession` |
| `EngineSession` | fix sessions of the engine: framework, MsgTask and modem around one queue | relies on `MsgTask`'s FIFO |
| `EngineProofs` | its theorems | `EngineSession` |
| `DSStateMachine` | the emergency data connection: calls, retries, fall-back, Releasing | relies on what `Agps` promises of the SUPL NIF |
| `DsProofs` | its theorems | `DSStateMachine` |
| `EngineSettings` | what the framework sets and what reaches the modem | relies on `MsgTask`'s FIFO |
| `SettingsProofs` | its theorems | `EngineSettings` |
| `LocApiAdapters` | the array of adapters, their masks, upcalls and the reopening of the modem | |
| `AdaptersProofs` | its theorems | `LocApiAdapters` |
| `DmnServer` | server thread of the daemon connection, its owner, clients and pipes | |
| `Nmea` | sentences and the caches between reports | |
| `LocCfg` | tables of parameters | |
| `CameraWrapper` | cameras, their strings and callbacks | |
| `LocTimer` | the timer service: clients, message task, poll thread, timerfd | relies on `RankedSet`'s behaviour |
| `TimerProofs` | its theorems | `LocTimer` |
| `LocHeap` | the tree of timers | implements `RankedSet` |
| `RankedSet` | abstract: a set with a top | |
| `LinkedList` | the list, element by element | implements `ListOfPointers` |
| `ListOfPointers` | abstract: the list of data pointers | |
| `LocThread` | owner, spawned thread and their delegate | |
| `MsgTask` | queue and task on top of a thread | extends `LocThread`; relies on `ListOfPointers`' behaviour |
| `UnitProofs` | theorems about the units that interact with no other model | `MsgTask`, `DmnServer`, `CameraWrapper`, `LinkedList` |
| `MCNiSession`, `MCEngineSession`, `MCEngineSettings`, `MCLocApiAdapters`, `MCLocTimer` | TLC instances | |
| `MCUnits` | one instance of each of `LocHeap`, `LinkedList`, `Nmea`, `LocCfg`, `CameraWrapper` | composes them side by side |
| `MCThreads` | `MsgTask` and `DmnServer`: the server is launched, and the task runs where that has failed | composes them one after the other |

The sequential units share one run: the variable `which` chooses one of them for
a behaviour, the others stay at their initial states.

Several properties hold "up to named circumstances": where the code gives up a
promise, a history variable (`seen`, `late`, `mixed`, `hasty`, `crossed`, ...)
records the sequence of events in which it does, and the property excludes
exactly that. The comment at each circumstance says how it comes about; each is
described below, so the list of them is the list of what the code does not do.

An operator whose comment begins with "Faulty variant" is not part
of a specification: it is a plausible mistake in the definition that follows
it. Putting it in the place of that definition must break a property, which
shows that the property looks at the code (`mutants` in `PROJECT.json`).

### Agps

State: `st` and `subs` are `mStatePtr` and `mSubscribers` of each NIF; `msgq`
is the adapter's queue; `calls` holds the framework callbacks (`agps_status_cb`
only posts), `conn` the framework's link; `cs` is what each client believes of
its link; `link` and `upcall` follow an engine restart through
`LocApiBase::handleEngineUpEvent`, which posts `LocSsrMsg` and then calls the
adapters, i.e. in two steps. Each `onRsrcEvent` branch is an operator
(`Subscribe`, `Unsubscribe`, `Granted`, `Released`, `Denied`), each `LocMsg`
an action that takes it from the head of `msgq` and runs its whole handler.
Modem, BIT daemon and framework are external: they may ask, release, open,
fail and lose links whenever their own protocol allows it.

The framework is asked for a link by its type, and keeps one link for each type
it is asked for (external). Its answers come in through `loc_agps_open`,
`loc_agps_closed` and `loc_agps_open_failed`, each of which says `AGPS_TYPE_SUPL`
(`loc.cpp:704`, 732, 776, 803; `Answer`): whichever link an answer is about
(`about`, history), its handler works on `agnss_nif`. So `internet_nif` is never
answered, and the SUPL machine is granted, released and denied by news of the
internet link too. A device without a SUPL NIF (`NifInit` chooses whether
`gps.conf` asks for one) dereferences NULL in such a handler, as it does when the
BIT daemon asks for the SUPL NIF: `dead`, after which nothing is handled
(`Crashed`). An opened link without the name of its APN is not reported at all
(`loc_eng.cpp:2507`, `NoApn`, `TellOpen`). Three more history variables name what
follows: `strayed` (the SUPL machine has acted on news of the internet link),
`nameless` (an open of the SUPL link was dropped) and `hasty` (a client has released
a link before it was granted).

The subscriber list is a set, since its order only selects an address and an
order of notifications. A status sent to the modem while its handle is closed
is lost.

Checked (`agps`, and the violation `agps_internet`):

* `PendingIsAnswered`: the SUPL machine in Pending has the answer about its own
  link coming, although Pending ignores RSRC_RELEASED, grants may be stale and
  news of the internet link moves it at any time; only a nameless open leaves it
  waiting;
* `AcquiredIsBacked`: in Acquired its link is open or the close is in the queue;
  once it has strayed, this holds of one of the two links, and it still never
  grants with no link and no news coming;
* `LinkIsReleased`: a machine in Released has its link closed, or a call on its
  way to the framework. For the internet NIF this holds always. For the SUPL NIF it
  fails once a client has been hasty (the framework may still be opening the link),
  the modem has restarted, or the machine has strayed: a close of the internet link
  releases it by force while its own link stays open for nobody (`loc.cpp:776`);
* `OnlyStraysCrash`: a process without a SUPL NIF dies only of an answer about the
  internet link or of a request of the BIT daemon, never of one of the modem;
* `RequestsAnswered` (liveness): every request for the SUPL NIF is answered, also on
  a device that has none and across a restart. Excepted are a BIT client dropped by a
  restart, a nameless open and a dead process. Nothing is promised to clients of the
  internet NIF;
* `PendingExpects` (refuted): a machine in Pending, whichever it is, has its answer
  coming, as "we are expecting either GRANTED or DENIED" (`loc_eng_agps.cpp:381`) and
  "It should inform ARM 9 about the data open result" (`loc.cpp:689`) say. The
  internet machine has not.

Acquired takes each RSRC_RELEASED for "a force rsrc release" (its log text) of
the framework. It may be the answer to the machine's own RELEASE of an abandoned
request, whose stale grant has moved the machine to Acquired in between; the
subscribers it drops are told and may ask again.

Bounds: one modem connection, which asks for either NIF, and one BIT client, which
asks for the SUPL NIF; at most two messages and calls in flight when a client sends,
one lost link, one restart. Two clients on the SUPL NIF are what first/later
subscriber and last/other leaver need, and one of them is enough to bring news of the
internet link. What a third client or a longer queue could add is left to the theorems,
which hold for any.

Fairness: `MsgTask` and each framework NIF handler. The MsgTask thread loops on
its queue for as long as the process lives; the framework answers each call
(its protocol with the HAL). Clients need not act.

### NiSession

`raw`, `reqID`, `left`, `recvd`, `resp` are the fields of the two
`loc_eng_ni_session_s_type` slots; `pc` follows each request's thread through
`ni_thread_proc`; `mt` and `fw` follow the MsgTask through
`loc_eng_ni_reset_on_engine_restart` and the framework's thread through
`loc_eng_ni_respond`. The lock protects `resp` and `respRecvd` only, so each
access to the other fields is a step of its own: check and write in
`loc_eng_ni_respond`, check, free and signal in the reset, and the three writes
a thread makes after releasing the lock.

All of it is checked by the run `ni`. `AnsweredOnce` and
`NothingLost` hold across a restart, `SlotIsFreed` under fair scheduling
(deadlines pass and threads run, the user need not answer). `AnswerIsUsers`
holds as long as no answer crosses a timeout, another answer (`crossed`, a
history variable) or a restart. Three comments are contradicted:

* the flag is not always "reset for the next session" (`loc_eng_ni.cpp:235`, 403): an
  answer that is checked before a timeout and written after it is taken for
  the user's answer to the next request;
* "we need the thread to exit without calling sending data"
  (`loc_eng_ni.cpp:239-241`): a thread that has taken the payload when the reset
  frees it sends it, and the old thread sends a request accepted before it has
  run;
* "automatically sends 'no response' in %d seconds" (177): the previous thread
  clears `respTimeLeft` after it has released the slot, so a request may time
  out at once.

Bounds: two requests and one restart. A thread's unlocked tail can only meet
the next request of its slot, so two suffice for each race. Deadlock is not
checked: with all bounded requests served the system rests.

Left out: failing thread creation (180-184), which leaves its slot taken, freeing of payload memory, and the muting of
the session on GPS_NI_PRIVACY_OVERRIDE (`MuteOneSession` of `EngineSession`).

### EngineSession

The state is that of `loc_eng_data` and `LocEngAdapter` which the MsgTask
handlers of a session work on: `inSession` (`mNavigating`), `criteria`
(`mFixCriteria`, reduced to "is the mode valid" and the recurrence),
`engine_status`, `mute`, `aiding`. There is one action for each message
(`StartFix`, `StopFix`, `PositionMode`, `ReportPosition`, `ReportStatus`,
`DelAidData`, `MuteOneSession`, `EngineDown`, `Ssr`, `EngineUp`). `Report` is
`loc_eng_report_status`, shared by two of them. The framework's calls (`Fw...`)
only post; `FwCleanup` reads `inSession` in its own thread, as the code does.
The modem (`Modem...`, external) runs at most one session and reports what it
does. A crash closes the handle; `LocApiDown`, `LocApiSsr` and `LocApiUp` are
the upcalls that follow, a step each. The framework's calls and the modem's
reports can therefore be queued in any order between any two handlers.

`startFix` may succeed, fail in one of the ways that count as a session, or fail
otherwise. `told`, `muted` and `seen` are history; `told` follows the framework's
view of the session, `seen` the circumstances listed at `Circumstances`, which
the properties name where the code gives up a promise:

* `StopIsObeyed`: a session the modem runs can be stopped. Not so after a fix of
  an *earlier* session has ended a new single shot ("superseded"): positions
  carry no session, so `LocEngReportPosition` clears the flag of whatever session
  is on, and does not call `stopFix` for a final fix;
* `SessionIsKept`: a session is not lost, in particular not in a crash. A start
  that fails with PHONE_OFFLINE or INTERNAL ("refused"), and a final fix that is
  muted or not passed on ("unheard"), leave the flag set for nothing;
* `EndIsTold`: hiding SESSION_END during a session and all statuses of a muted
  one never leaves the framework believing in a session that is over: the engine
  runs, or the news that it does not is on its way;
* `AidingIsDeleted`, `DeletedWhileOff`: a deletion is neither forgotten nor
  carried out under an engine known to run. Only a crash leaves one pending: engine
  down does not call `update_aiding_data_for_deletion`;
* `MutedIsSilent`: no position of a session that begins muted is passed on. A
  second request in that session ends its mute ("remuted");
* `CleanupStops`: after `loc_cleanup` the session ends, unless its start was still
  queued ("late");
* `ModeIsGiven`: sessions run with the mode that was set, unless a late fix of a
  single shot has invalidated it ("wiped") or an engine restart started them.

The last is a disagreement of its own (violation `engine_mode`): "This sets the
copy in adapter to modem" (`loc_eng.cpp:2986`) stands above a call that
invalidates the adapter's copy and sends nothing. Another comment does not hold:
"otherwise, the actual action will happen when gps engine is turned off" (2228)
fails for a request that a second one overwrites (`DelAidData` replaces the
mask). The run has one kind of aiding data, the theorems any number.

Bounds: two sessions of the modem (a stale fix needs an earlier session), two
*events* (deletions, mutes, crashes, clean-ups; each pair of them meets), and
`MaxLoad` four: framework and modem post while the waiting messages and the events
so far are fewer than four, so the queue is longest where nothing else has
happened. The upcalls of a restart are not bounded by it. Liveness is not
checked: what is promised to come is stated as what is already waiting.
Deadlock is not checked: the bounded system rests.

### LocTimer

`mTimer` and `alive` are the clients, `dels` their delegates, `heap`/`top` the
container, `armed`/`polled` the timerfd and its place in the epoll set. `start`
and `stop` hold the client's lock from beginning to end and are one step each.
The message task's handlers are split where another thread can see the middle:
at `addPoll` and `timerfd_settime`, and in `LocTimerDelegate::expire` at the
unlocked read of `mClient`, the call of `stop()` and the callback. The poll
thread's `expire()` is three steps. The timerfd is never read, so it stays
readable until it is set again. A step into a deleted client leads to `"lost"`,
from where nothing is promised.

`TimerIsKept` is the heart. It has three parts: a running timer is in the heap,
in a push message or in the hands of the expire loop; in whatever order the two
threads program the timerfd and the epoll set, a timer in the heap has a wake-up
coming; and a delegate in use is not freed. `StoppedIsSilent` follows a stop to
the callback it must prevent; `TimerEnds` is the liveness property. Four comments are contradicted:

* the callback comes "only if stop() returns true, i.e. it hasn't been stopped
  already" (`LocTimer.cpp:525-529`): a client that stops and restarts its timer
  between the read of `mClient` and `stop()` has the new timer stopped and is
  called back for it at once;
* "pop everything in the heap that outRanks now" (`LocTimer.cpp:365-366`): the
  first timer is popped whatever its time;
* "so that expire() won't call the callback on the dead handle" (486-488): a
  client deleted after the read is called all the same (`"lost"`);
* "if tree is empty now, we remove poll and disarm timer" (288): the branch
  cannot be reached, since all callers that empty the heap pass NULL as the
  prior top; the timerfd fires once for nobody.

Bounds: two clients, three starts, delays of one and two ticks, a clock of two.
Three delegates are one being expired, one stopped and
one behind them. `Start` requires its time to be within the clock's bound, so
that a bounded clock is no reason for a timer not to fire. Fairness: both
threads run and time passes. Deadlock is not checked: timers need not be
started.

### LocHeap and RankedSet

The tree is a nested record; `PushNode`, `PopNode`, `RemoveNode` return the
tree that the call leaves. `checkNodes` is the code's own consistency check.
`IsRankedSet` is the refinement that `LocTimer` relies on, with that check, and
that no object is doubled or lost, at every step. Seven objects on four ranks give complete
and lopsided trees of three levels with ties everywhere, which is where the
pruning in `remove` matters. The operators are recursive, so this stays with TLC.

### LinkedList and ListOfPointers

Elements are addresses with `next`, `prev` and `data_ptr`; malloc gives any
free address and fails when there is none. `IsListOfPointers` is the refinement
of the list that the users rely on, and says besides that both directions and both
ends agree and that what is reachable is what is allocated.
A loop over `tmp->next` is `From`: the sequence of addresses, if there is one, whose links
lead from one to the next and from the last to null (`IsWalk`).
Three elements with two data values make every position (head, middle, tail,
only one) and equal data; `ListCorrect` proves the refinement for any number.

### LocThread and MsgTask

`LocThread` has one action for each statement of `threadMain`, `create` and
`~LocThread` that another thread can observe; nobody calls `LocThread::stop`.
`DelegateIsCounted`: the delegate exists exactly while one of the two uses it
and the count says how many do. Two comments of `LocThread.h` are contradicted
by behaviours of the model: "deleted by LocThread if start() returns true" (75)
when the thread is stopped before it has looked for its runnable, and "else it is
client's responsibility" (76) when the thread has run to its end before
`create()` looks at `mRunnable`. `LocThread` has no run of its own: `MsgTask`
puts its steps together and checks its properties.

`MsgTask` puts the queue into the thread's `run()`. A queue operation holds
`list_mutex` and is one step; `pthread_cond_wait` splits `msg_q_rcv`, with
spurious wake-ups. `EachMessageOnce` is FIFO order and exactly-once together;
`EachIsHandled` and `DestroyReturns` exclude lost wake-ups: they
are live when the thread runs, handlers return and the destroyer goes on. Three
messages are one in `proc`, one queued and one arriving. A message for which
`linked_list_add` has no memory is lost, although the receiver is woken for it; it
counts as refused, and `EachIsHandled` promises nothing of it. The comment "this obj
will be deleted once thread is deleted" (`MsgTask.h:50`) does not hold: the
thread, once unblocked, deletes the object while `destroy()` still writes `mThread`. Nobody
may send to a deleted task; the code leaves that to its callers.

### DSStateMachine

`st`, `list`, `retries` are the state machine's; `timers` and `found` the thread
of the timers inside `retryCallback`; `call` the data call of the data services
client; `supl` the list of the ordinary SUPL NIF, of which only the promise of
`Agps` is used: whoever is on it is answered. The list is a sequence here, newest
first as `linked_list_add` makes it, since requests are made for its first active
member.

* `CallIsStopped`: with every client gone and nothing in flight no call is open;
* `RetryReadsLive`: the subscriber that the timers' thread has found is still on
  the list when it is read, two steps of two threads later;
* `EsAnswered` (liveness): every request is answered, by a call after up to
  `MaxRetries` retries or by the SUPL NIF, also across a restart.

Where the code gives up: a start that fails after the close of the previous call
is not looked at, and the state is Pending all the same ("unstarted",
`loc_eng_agps.cpp:555`, although 275-276 says "if the data call setup fails for
DS State Machine, we want to retry in released state"): the retry is swallowed
and everybody waits. A start that fails with an error `sendRsrcRequest` has no case
for ("dropped", 905, any of `LOC_API_ADAPTER_ERR_GENERAL_FAILURE`, `_INTERNAL`,
`_TIMEOUT`...) is only logged: the client stays on the list in Released with neither
a retry nor a fall-back (violation `ds_retry`, `FailedIsRetried`). A handle that is used again while its old subscriber waits
for the close is taken for its twin and not added ("twin", 742). A client that
leaves, or one more that asks, while a start is being retried ("left", "crowd") and
the fall-back of a client that has left ("ghost") leave subscribers nobody removes.

Bounds: two handles, three requests, one retry, one restart: one more client than
the call has, and the third request for a handle used again. A retry timer that
cannot be started (out of memory) is not modelled; `loc_timer_start` is tested the
wrong way round (885), which logs an error for a timer that runs and changes the
value returned, which nobody tells apart from busy. Fairness: MsgTask and
timers' thread run, data services answer each start and stop, the SUPL NIF
answers. Deadlock is not checked: the bounded system rests.

### EngineSettings

Two threads share `gps_conf`, `agpsStatus` and `loc_eng_data` without a lock. A
message takes its value when it is made and its place in the queue when it is
sent; the framework's calls do both at once, the MsgTask's handlers
(`StepMake`, `StepSend`) in two steps. `Reinit` is `loc_eng_reinit`: what a
modem that is (again) open is told. `has` is what the modem has of what it was
given; a restart empties it.

* `SettingsArrive`: at rest the modem has the version, availability, server,
  measurements and power vote set last;
* `NothingStale`: GPS lock, which loc_eng_reinit does not send, and access point,
  which it sends empty, are never older than the last given;
* `CapabilitiesTold`: the framework is told capabilities that `gps_conf` has, and
  an update does not change them.

Where the code gives up: a message made from an older value is sent after a newer
one ("late", e.g. `loc_eng.cpp:1935`); the capabilities are read or added to
while an update has replaced `gps_conf` ("mixed", 2829-2872); a modem that was
down when asked has its measurements capability added after the one report
("outdated", 1715). Besides, "This proxy buffers server settings and calls
loc_eng_set_server when the client is open" (2689-2691) holds only for an engine
that was initialised and has no callbacks: `loc_eng_init` clears the buffer
(1835), so a server set before it is forgotten, and
`SettingsArrive` speaks of the buffer (`host`) only.

A modem that opens (`HandleOpen`) is given measurements as if they had been asked
for, although `updateEvtMask` may have cleared that bit after `measurement_close`; no
property depends on it.

Bounds: two versions and servers, one lock and access point, two calls after the
initialisations, one restart: a crash between a call and its sending, and a call in the
middle of a handler, need no more. The servers are interchangeable. Deadlock is
not checked.

### LocApiAdapters

Owners' threads add, fill, compact and announce (`AddFind` to `RemoveLeave`), a
step for each access that another thread can see. `LocSsrMsg` closes the handle
and `Reopen` opens it with a mask computed from the array as it then is; `loop` is
an upcall on its way through the array, to all adapters or to the first that
takes it.

* `Subscribed`: once the queue is drained the modem reports every event an adapter
  in the array asks for. That the owners post *after* they have finished with the
  array is what makes it true, as a mask computed in the middle is repaired by a
  later message;
* `EachToldOnce`: an upcall reaches every adapter registered when it began once,
  and a request is taken at most once and passed over only if all refuse.

Where the code gives up: two owners in the array at once ("crossed") and an upcall
during a removal ("disturbed"). In both an adapter may be lost, told twice, or
called after its deletion: the loop reads a slot to compare it with NULL and again
to call it (`LocApiBase.h:49-55`), and a slot filled by compaction has been passed
already. TLC does not follow a behaviour past its first crossing (`Uncrossed`).

Bounds: two adapters (as many as the HAL has: the engine's and one more), an array of
two, one event, two mask updates, upcalls and restarts together.

### DmnServer

Owner and server thread with the flags `thread_ready` and `thread_exit`; a pipe
that may fail to open, cut a message short or carry one of an unknown sender. No
caller of launch is in the repository and the calls in `loc_eng_cleanup` are
disabled: the owner does what those would do.

* `LaunchIsReady`: an owner told of success finds the pipes opened, unless it was
  woken without a signal ("spurious": `thelper_signal_wait` tests with `if`);
* `JoinReturns`: launch returns, and join once the server was unblocked, wherever
  the server was: the flag is set before the message is written;
* `DaemonIsAnswered`: each request is answered in spite of other senders' messages,
  until a read fails ("failed": one broken message ends the thread, although its log
  says "retry later") or the owner stops.

Bounds: three messages of the clients, whole or not. Fairness: both threads and the
MsgTask run; the owner goes on once it has begun to end the server. The run `threads`
checks the server; where it could not be launched, the message task runs beside it.

### Nmea

`used` and `avail` are what a position was made from, which marks the next
satellite report; `gpsMask`, `gloMask` and `dop` are what that report leaves for
the next position. A sentence is a record of what it says. `SentencesAgree` says
that GSV lists every satellite once and in order in the pages it announces, and
that GSA, GGA, VTG and RMC of a position speak of the same satellites, fix,
dilutions and mode. It does not say of *which* position: masks survive a stop and
a start, a position that is not final clears the dilution but not the masks, and
the final fix of a single shot makes no sentence because the session flag is
cleared first. Two things the model shows and no property promises: `1 << (svid -
1)` (`loc_eng.cpp:917`) marks 33 satellites for id 32 and an undefined bit
beyond, for a 64-bit mask; and the magnetic track of VTG is the true one, since an
inner `magTrack` shadows the one that is printed (`loc_eng_nmea.cpp:321-331`).

Bounds: eight satellites of three systems in six views, among them four and five
GPS satellites (a full page, and one more) and ids 31, 32 and 33; three sets of used
satellites.

### LocCfg

A line is a name with a value, or has not two operands; a table says name, type and
whether there is a validity bit. `ReadConf` reads a file twice, as the code does,
`UpdateConf` applies the framework's update. `LastValueHolds` says that a parameter has
the last value the data gives it, or the one it had, as long as the lines that name
parameters are not more than the table has entries: reading stops at that count, for
an update one earlier ("start with one record off", `loc_cfg.cpp:340`), so an update
that names every parameter loses its last. The number it returns counts lines, not
"records in the table that is updated" (319).

Bounds: a table of one parameter of each type, files of four lines with repeated,
unknown and unreadable ones, and a file with one line more than an update reads.

### CameraWrapper

`params` is the array `fixed_set_params` that every open makes anew, with the address
of each camera's string; `live` are the allocated blocks. `CameraIsServed` says that no
string is freed twice or used after it was freed, callbacks reach the camera's own
user, and the vendor's device is open exactly while the wrapper's is. Two cameras at once
("together") share array and callbacks; the HAL 1 service opens one at a time. An open that
runs out of memory after the vendor's device is open does not close it ("leaked", 594).
Not modelled: `cameraid > num_cameras` accepts one camera too many (566), and
`*device` is left alone if the vendor module is missing.

Bounds: two cameras, two blocks (enough for a double free and for one address used again).

## 3. What is proved

`AgpsProofs` proves for all sets of handles and clients, all bounds, and any
number of restarts and losses, from the assumption `AgpsAssumption` only:

* `TypeCorrect`: `Spec => []TypeOK`;
* `PendingCorrect`, `AcquiredCorrect` and `LinkCorrect`: the three safety
  invariants above, with answers about either link given to the SUPL machine, and
  opened links that come without an APN name;
* `ReleasedCorrect`: a machine in Released has no subscribers (`ReleasedIsEmpty`), so
  that the branch that logs "subscriber list not empty!!!" is unreachable. It is a
  conjunct both inductive invariants need, and is proved only.

None is inductive alone. The inductive invariant of all but `LinkCorrect` is

    AgpsInv == TypeOK /\ ReleasedIsEmpty /\ PendingInv /\ BackedInv

* `PendingInv` strengthens `PendingIsAnswered`: the **last** call posted for the SUPL
  link is a REQUEST, or all are handled and the link is opening or the answer is
  queued. "Last" is what makes it inductive: calls are handled in order, so a
  trailing REQUEST survives any number of stale RELEASEs before it. News of the
  internet link may take the machine out of Pending, but never an answer from it;
* `BackedInv` strengthens `AcquiredIsBacked` to grants that are still queued:
  behind every grant in the queue, about either link, that link is open or its close
  is queued, so handling the grant leads to an Acquired that is backed by the link
  the grant is about. That is the SUPL link unless the machine strays by this step.

`LinkCorrect` needs more, since a client that releases a link too early breaks what it
says. The internet NIF needs little: `InternetInv` says that its machine, which no answer
reaches, never grants, and that in Released its link is closed or its last call is a RELEASE.
For the SUPL NIF, the invariant `CalmInv` holds as long as no client is hasty, the machine has
not strayed and the modem does not restart (`Calm`; by `UpInv` no EngineUp waits before the
first restart):

* `StandsInv` and `OrderInv` follow each client's own messages: its one request is
  behind its releases, and while a release is queued, or the client believes in its
  link, each list it is on is that of a machine in Acquired. So no release reaches a
  machine in Pending;
* `PhaseInv` is what that buys: calls, link and queued answers of a NIF go through fixed
  phases. In Released there is no answer and the link is closed or one RELEASE is on its
  way; in Pending there is one REQUEST, or one answer that agrees with the link,
  or, once an open without a name was dropped, neither; in Acquired there is neither.

The proofs have one lemma per group of actions (clients, framework, restart,
message handlers) and per conjunct; facts about the queue (what Append and Tail
do to "is there a message such that") are lemmas of their own. TLC checks
the invariants it strengthens in `agps`.

`EngineProofs` proves for any kinds of aiding data and any number of sessions,
messages, crashes and other events, from `EngineAssumption` only:

* `TypeCorrect`: `Spec => []TypeOK`. It needs `BeginsNamed`: a waiting
  SESSION_BEGIN carries a session;
* `AidingCorrect`: `AidingIsDeleted`, which is inductive;
* `CleanupCorrect`: `CleanupStops`, from `CleanupInv`, which adds that after a
  clean-up a waiting start has been noticed. Without it the handler of such a
  start would be a step out of the invariant;
* `SessionCorrect`: `SessionIsKept`, together with `RestartInv`: a closed handle
  means that the modem has just crashed or that the message which opens the
  handle waits *in front of* EngineUp. That order is why a start that fails with
  ENGINE_DOWN is always retried;
* `EndIsToldCorrect`: `EndIsTold`, from `ToldInv`: not only what was told but every
  SESSION_BEGIN in the queue has "engine off" coming *behind* it. A begin that is told
  late, after the end it belongs to, is thereby covered;
* `StopCorrect`: `StopIsObeyed`, from `StopInv`. A position mode waits in the queue only
  where a stop in front of it has ended every session (`OrderInv`), so that a mode is
  never changed under a running one and a final fix is judged by the recurrence its
  session was started with (`RunInv`, `FixesInv`);
* `ModeCorrect`: `ModeIsGiven`, from `ModeInv`: each start in the queue has its mode in
  front of it, or in the adapter, and no stop in between;
* `MutedCorrect`: `MutedIsSilent`, from `MuteInv`. Positions of a session stand in the
  queue behind its begin, with nothing between them that ends a session
  (`BracketInv`); so the mute that its begin has set is still set (`SilentInv`);
* `DeletionCorrect`: the action property `DeletedWhileOff`, from `LastWordIsOn`:
  while the modem's engine runs, the last status handled or waiting says so. It
  needs `RestartInv` again: no "engine down" is posted once the engine may run.

`SettingsProofs` proves `SettingsTypeCorrect` (`Spec => []TypeInv`),
`SettingsArriveCorrect` (`SettingsArrive`), `NothingStaleCorrect` (`NothingStale`) and
`CapabilitiesCorrect` (`CapabilitiesTold`) for any versions, locks, hosts, access points,
calls and restarts, on targets with and without QCA1530, from no assumption but
`SettingsAssumption`. The first three share one inductive invariant,
`TypeInv /\ Arriving`; `Arriving` has a part for each setting. They are built from three
predicates on a setting *s* and a set *T* of values:

* `NotStale`: the last message for *s* in the queue carries a value in *T*, and if there is
  none the modem has a value in *T* or nothing;
* `Reaches`: a message for *s* waits which an open modem will have when it is handled
  (because it is open, or an "open" stands in front), or the modem has *s* already;
* `Arrives`: both of these; or the MsgTask holds a message with a value in *T*; or its
  handler has still to read *s*; or a message waits, behind an "open", whose handler will;
  or the modem is down, and such a message is posted when it is back.

At rest only the first way is left, which is `SettingsArrive`. The parts differ in *T* and in
what makes *s* be read again:

* `VerInv`, `DataInv`, `ServerInv`: `Arrives`, with the current value, unless the setting is
  "late". Between the reading of an update and the posting of what changed, the version put
  aside is as good as the new one (`Vers`); while a server's name is being copied nothing is
  claimed. "up" sends the server again and "init" does not, so that for the server
  only an "up" in the queue counts;
* `PowerInv`: the vote the MsgTask holds is the current one or is known to be late. The modem
  gets it directly, not through the queue;
* `MeasInv`: a client that opens has measurements on, so that only `NotStale` is needed;
* `LockInv`, `ApnInv`: `NotStale` always, `Reaches` only before a restart, since nobody sends
  them again. `LocEngInit` locks the modem on its way, whatever the vote; `LockFollows`
  says that the "lock" `loc_init` posted is then still behind it. Without it the
  invariant is not inductive;
* `BaseInv`: before initialisation there is no queue; a modem that is up and not open has
  "open" in the queue; one that is not open has nothing.

Each way of posting to the queue, taking from it and giving to the modem has one lemma about
these predicates (`PostOther`, `PostSame`, `TakeOther`, `TakeSame`, `TakeOpen`, `GiveOther`), for
any *s* and *T*. `TaskKeeps` and `TaskArrives` make of them what a step of the MsgTask does to a setting
it does not send, and to one it does; `PostArrives` and `PostedArrives` the same for the framework's calls.
`CapsInv` needs `TypeInv` only: during an update the capabilities in force are those
put aside (`InForce`), and as long as nothing is "mixed" or "outdated" all that was told is equal to
them.

`DsProofs` proves `DsTypeCorrect` (`Spec => []TypeInv`), `CallIsStoppedCorrect`
(`CallIsStopped`) and `RetryReadsLiveCorrect` (`RetryReadsLive`) for any handles, requests,
retries and restarts. The inductive invariant is

    IInv == TypeInv /\ (Exempt \/ Stuck \/ Normal)

The two properties name the circumstances in which subscribers are left over ("left",
"ghost", "crowd", "restart"); once one has occurred (`Exempt`) nothing more is claimed. They do
not name "unstarted", the start that fails unseen, so the proof has to say what it leads to
("dropped" needs no such care: it opens no call and starts no timer):
`Stuck`, a Pending (or, later, Releasing) state in which neither a call nor news of one will
ever be there again. It stays so, and no call is open in it. `Normal` is the rest:

* `CallInv`: state, call and the news in the queue agree. At most one Opened and one Closed
  wait, never Closed in front of Opened; an opening or a stopping call has its news still to
  come, a closed one outside Released has Closed waiting;
* `ListInv`: Pending and Acquired have an active subscriber, Released at most one subscriber;
* `RetryInv`: there is at most one retry, a timer or what the timers' thread has found, and
  then the machine is in Released with just that subscriber;
* `ClientInv`: a client's request is not behind its release unless it is already subscribed
  and waits in Released, and an active subscriber has a client that has not gone. This
  is why the last client's release always finds the call it has to stop.

The queue is seen through three predicates only (`In`, `Once`, `Before`), with one lemma for
each way of taking a message and posting another. Releasing drops the inactive subscribers
of a list and keeps the order of the rest; `Smallest`, that a set of naturals has a least
member, gives what the proof needs of that (`FirstActive`).

`NiProofs` proves `AnsweredOnceCorrect` and `NothingLostCorrect` for any number of
requests and restarts, from `NiAssumption` only. Its invariant `NiInv` follows the
payload of a request. `OneHolder`: the lock of a slot has one holder. `TookHolds`: what
a thread has taken is still in its slot, unless the reset has freed it and waits for the
lock. `OneHand`: a payload is in one pair of hands, and in no slot besides but for the
thread about to clear it. `SentByDone`: each answer was sent by the thread that has its
payload. The reset frees without the lock; that it asks for the lock *afterwards*, in
the MsgTask that also accepts requests, is what keeps a new request out of the slot
until the old thread has cleared it: without `TookHolds`, the clearing could lose one.

`AnswerIsUsersCorrect` (`AnswerIsUsers`) adds `UsersInv`: as long as nothing crosses, a
flag that is set, an answer taken with the lock and an answer on its way to the modem
are all what the user said of the request in that slot. `AnswerInTime` is the part that
needs care: an answer that was checked is written while its request still waits.

`TimerProofs` proves `TimerIsKeptCorrect` (`TimerIsKept`) and `StoppedIsSilentCorrect`
(`StoppedIsSilent`) for any clients, starts, delays and clock, from `LocTimerAssumption`
only. The inductive invariant is

    TimerInv == TypeInv /\ LifeInv /\ TrackInv /\ WakeInv /\ EndInv

* `LifeInv`: a delegate is alive wherever it is found, its push comes before its remove,
  and it points to its client exactly as long as the client points to it;
* `TrackInv` adds to the first part of `TimerIsKept` what the loop of MsgTimerExpire
  knows between its read of `mClient` and the call of `stop()`;
* `WakeInv` adds to the second part the state between the two system calls of the task:
  the poll thread may take the timerfd out of the epoll set just then, but it is about
  to send an expire message, or has. That is why no wake-up is lost;
* `EndInv`: what was withdrawn or called has no client any more, so it is neither twice.

`AdaptersProofs` proves `SubscribedCorrect` (`Subscribed`) and `EachToldOnceCorrect`
(`EachToldOnce`) for any adapters, slots, event masks, updates and restarts, from
`AdaptersAssumption` only. As long as nothing has crossed, the invariant has three parts:

* `ArrayInv`: the array is filled from its first slot with the registered adapters, once
  each; between the three accesses of removeAdapter it has one hole (`Holed`) or its
  last adapter twice (`Doubled`), and nobody else changes it meanwhile;
* `CoverInv`: what a registered adapter asks for is in the open handle or in a message
  queued or about to be posted, or the array will be read again. A reading in the
  middle of a compaction may miss an adapter; the owner who compacts has yet to read;
* `LoopInv`: as long as nobody is removed, the adapters told are those of the slots
  passed, in order, and all who were there when the upcall began still are. An adapter
  that is added goes behind them, so the first free slot ends a complete walk.

`UnitProofs` holds four independent parts. It proves `LaunchCorrect` (`LaunchIsReady`) for any number of messages.
Its invariant `LaunchOrder` adds that both flags are clear, and the owner still
waits, as long as the server opens its pipes.

Of the message task it proves `DelegateCorrect` (`DelegateIsCounted`) for any number of messages.
`CountInv` adds that before the owner's start the count is two and there is no thread;
each lemma is about who of the two begins or ends a use of the delegate.
`EachMessageOnceCorrect` (`EachMessageOnce`) adds only that nothing is queued once the
task no longer runs (`OrderInv`): what is deleted with the queue came last.

Of the camera wrapper it proves `CameraCorrect` (`CameraIsServed`) for any cameras and strings, if
the value for "none" is neither an address nor an array of them (`NoBlockIsApart`). The
invariant says that only the open camera has callbacks and a string in the array, that
this string is allocated, and that the strings held by users are others. Nothing is
said of the array while all cameras are closed: it is then full of freed strings.

Of the linked list it proves `ListCorrect` (`IsListOfPointers`), the refinement of
`ListOfPointers` step by step and the agreement of all links, for any data pointers and any
number of elements, if the value for null is no address (`ListApart`). `ListInv` says that there
is a walk without repetitions on which head, tail, both directions of links and the set of
allocated elements agree. `OneWalk` (two walks that differ would differ first somewhere) makes
it the walk that `From` finds, so a step is proved by naming the walk it leaves behind:
`Before(w, e)` for an addition, `Without(w, k)` for a removal, of which
`linked_list_remove` is the case of the last place (`TakesOut`), and the empty one for a flush.
The data on that walk is then compared with the abstract list element by element.

Out of the prover's reach, and only model-checked: liveness and ENABLED, and what the
recursive definitions of `LocHeap`, `Nmea` and `LocCfg` compute
(`IsRankedSet`, `SentencesAgree`, `LastValueHolds`).

## 4. Runs

| Run | Shows |
|---|---|
| `agps` | Released/Pending/Acquired invariants across a restart, with answers that all reach the SUPL NIF; unused links are given back; what crashes a device without a SUPL NIF; every request for the SUPL NIF is answered |
| `agps_internet` (violation) | the internet machine waits in Pending for an answer the SUPL machine was given |
| `ds` | emergency calls are stopped, retries read live subscribers, every request is answered, up to named circumstances |
| `ds_retry` (violation) | an unknown error of the adapter leaves the client with neither a retry nor a fall-back |
| `ni` | requests are neither lost nor answered twice, get the user's own answer, and leave their slot |
| `engine` | engine and modem agree on sessions, deletions, muting and modes, up to named circumstances |
| `engine_mode` (violation) | a session restarted after a crash has lost its mode |
| `settings` | what was set last reaches the modem, nothing stale stays there |
| `adapters` | the modem reports what adapters ask for; each upcall reaches each of them once |
| `timer` | timers are not lost, freed in use, or called back after a stop; they end |
| `threads` | life cycle of queue, message thread and its delegate; launch, join and the service of the daemon's server in between |
| `units` | the heap is the ranked set, the list is the list of its data, sentences agree, the last value holds, a camera is served |

To check one: `tlc -config Units.cfg MCUnits.tla`; to prove: `tlapm M.tla`
for `AgpsProofs`, `DsProofs`, `EngineProofs`, `SettingsProofs`, `NiProofs`, `AdaptersProofs`,
`TimerProofs` or `UnitProofs`.

## 5. Plan

What is left, in order of importance:

1. Abstract specifications beyond the two above: the queue as an unbounded FIFO
   channel (for `EngineSession` and `Agps`), the timer as "fires once or is stopped"
   (for `DSStateMachine`), the broker as a reference-counted link.
2. Injection, RIL, XTRA and geofence entry points of `LA/loc.cpp`, and zero-power
   positions.

## 6. What is not modelled, and why

* Memory: frees are modelled where an object's life time is the point
  (`LocTimer`, `LocThread`, `MsgTask`, `LinkedList`). In
  `notifySubscribers` the receiver is compared after it may have been freed; the
  model takes the outcome in which its memory is still intact.
* On engine up the BIT subscribers are dropped without being told; the model
  does so too, and no property promises otherwise.
* XTRA, the layout of NMEA sentences, the splitting of configuration lines, target
  detection and logging: sequential code on strings and files.
* Contexts (`LocDualContext.cpp`): created lazily, the whole of it under one mutex.
* Sensors wrapper: it forwards to one vendor device. Its close leaves the pointer
  to that device set, and an open while it is set is refused; the failing open then
  frees it. Four states, described here rather than modelled.
* Light HAL: writes a scaled brightness to one file, under a lock.
* The pipe glue of the daemon connection, the vendor camera and sensors
  libraries, QMI and the modem: external.
* Build files, overlays, init scripts, security policy: data.
