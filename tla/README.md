# Verification of the native code of android_device_sony_taoshan

TLA+ models of the hand-written native code in this device tree, TLC
configurations that check them on small instances, and TLAPS proofs of their
main properties for every value of the constants.

The repository is an Android device tree. Most of its files are settings:
makefiles, overlays, policies, boot scripts. The code with logic of its own is
the GPS library (`gps/libloc_api_50001`, `gps/utils`), the camera wrapper, the
lights HAL and a small Java class. The GPS library is by far the largest and the
only concurrent part; most of the modules are about it, one is about the camera.

## 1. Inventory

| Component | State | Operations | Hard behaviour |
|---|---|---|---|
| AGPS state machine (`loc_eng_agps.cpp/.h`) | state (Released, Pending, Acquired, Releasing), list of subscribers, their inactive flags | subscribe, unsubscribe, `onRsrcEvent`, drop all subscribers | answers of the framework that cross newer requests; notifications that remove the subscriber they notify |
| AGPS messages (`loc_eng.cpp` 1561-1755, `loc_eng_agps_*`) | deferred queue, framework's connection | request and release of ATL, BIT and Wi-Fi; open, open failed, closed | ordering, stale answers, modem restart |
| Message queue (`msg_q.c`) | list, mutex, condition, `unblocked` | init, destroy, snd, rcv, flush, unblock | lost wakeups, several receivers, spurious wakeups, shutdown |
| Linked list (`linked_list.c`) | head, tail, elements with next, prev, data, dealloc | init, add, remove, search, flush, destroy, empty | dangling pointers, leaks, double free |
| Network-initiated requests (`loc_eng_ni.cpp`) | `rawRequest`, `reqID`, `resp`, `respRecvd`, `respTimeLeft`, thread, `tLock`, `tCond` | request handler, NI thread, response, reset on restart | fields used outside the lock, a timeout that races a response, a restart in between |
| Fix sessions (`loc_eng.cpp`, `LocApiAdapter.cpp`) | navigating flag, `engine_status`, `mute_session_state`, `aiding_data_for_deletion` | start, stop, status and position reports, delete aiding data, engine down and up, cleanup | reports that are stale when they are handled, modem crashes in the middle of a session |
| Server configuration and init (`loc_eng.cpp`, `loc.cpp`) | `loc_eng_data`, buffered servers, `LocEngContext`, the adapter's connection | init with retries, reinit, `agps_init`, `set_server_proxy`, cleanup | calls before init, a modem that starts late or crashes, what a restart loses |
| HAL interface (`loc.cpp`, `gps.c`), XTRA, ULP | `loc_eng_ulp_inf`, `ulp_initialized`, two queues, callbacks | settings, injections, reports, requests of the ULP library | settings that cross a restart, two routes for a message, a callback cleared while it is called |
| Configuration parser (`loc_cfg.cpp`) | parameter table, `gps_conf` | read the file, set an entry | repeated lines, hexadecimal and missing operands |
| Daemon connection (`loc_eng_dmn_conn*.c/.cpp`) | thread, its ready and exit flags, four named pipes | launch; interface request and release; answers | start-up handshake, full pipes, answers that carry no request, the loss of a connection |
| Camera wrapper (`CameraWrapper.cpp`) | vendor module and device, parameters in two vocabularies | open, close, 20 forwarded calls, get and set parameters | failures half-way through open, settings that overwrite each other in translation, NULL strings |
| Lights HAL, vibrator, logging, boot scripts | LED files, sysfs files | brightness, intensity | none between calls |

**Interaction.** Three kinds of thread meet. Calls of the Android framework and
callbacks of the modem *enqueue* messages on one `msg_q`; the deferred action
thread (`loc_eng_deferred_action_thread`) takes them one at a time and is the
only one to change sessions and AGPS machines. An NI thread per
network-initiated request waits for the user with a timeout. With a ULP library
on the device, starts, stops and positions make a detour through it. A server
thread reads the requests of three daemons from a named pipe and enqueues them;
the deferred thread writes the answers to a pipe of each daemon. A message is
therefore handled some time after its sender saw the world it speaks of, and
nearly every hazard in `PROJECT.json` is a form of this: the answer, report or
flag is stale when it is used.

**Properties that make the parts correct.** Queue: no message is lost, taken out
of order, taken twice or used after it was freed, and nobody sleeps for ever.
AGPS: what clients were told agrees with the machine, which agrees with the
interface; everybody is answered. NI: a request is answered once, with the
response to it, and never lost; the interface becomes free again. Sessions: the
modem's fix and the session flag agree once all messages are handled, and a
crash is recovered. Pointer structure: it is the list its users believe in.
Engine: the modem has the configuration of the file and the last settings of the
framework, whatever restarts came between. Daemons: a grant is backed by an
interface, an answer fits the last request, and there always is one. Camera: an
application reads back what it set, and no camera gets a special mode it does not
list.

## 2. Modules

| Module | Models | State and actions |
|---|---|---|
| `AgpsStateMachine` | the machine of one network interface | `mStatePtr`, `mSubscribers`; the four states' `onRsrcEvent` are operators, one per state; `client` records what each subscriber was told |
| `AgpsNif` | the machine with the deferred thread and the framework | adds `deferred_q` and `nif`; the framework's steps (`Afw...`) are external |
| `MsgQ` | `msg_q.c` | `msg_list`, the receivers' places (waiting, woken, ...), one action per call and per wakeup |
| `DataList` | what `linked_list.h` promises | a sequence, the object handed out, the objects freed |
| `LinkedList` | `linked_list.c`, field by field | `p_head`, `p_tail`, `next`, `prev`, `data_ptr`; loops take a step per iteration; `chain` is a ghost |
| `LocEngNi` | `loc_eng_ni.cpp` | the session record, one thread per request, the two steps of a response and the three of a reset |
| `LocEngSession` | sessions in `loc_eng.cpp` and `LocApiAdapter.cpp` | the queue, the flags above and the modem (external) |
| `LocCfg` | `loc_cfg.cpp` and the parameter table of `loc_eng.cpp` | no state: what one line does to the table (`loc_read_conf`), and a reference definition (`Written`): the last line that sets a parameter counts |
| `LocHal` (`MCLocHal`) | `loc.cpp`, the initialisation, settings and pass-through of `loc_eng.cpp`, XTRA | configuration, `loc_eng_data`, two queues, the framework's thread, the modem's settings; one action per line of gps.conf, per call of the interface and per message |
| `DmnConn` | the `loc_eng_dmn_conn` files with two instances of `AgpsNif` (Wi-Fi and SUPL) | handshake flags, pipes, the server thread, the answers the deferred thread still has to write; the daemons are external |
| `CameraWrapper` (`MCCameraWrapper`) | `CameraWrapper.cpp` | module, handle, the vendor's and the application's parameters; each `if` of the two fix-ups is an operator |
| `...Proofs` | theorems about the module of that name | |

`AgpsNif` extends `AgpsStateMachine`, `LocHal` extends `LocCfg`, and `DmnConn` composes
two `AgpsNif` with the pipes and the server thread. `LinkedList` implements `DataList` with the
refinement mapping `list <- [i \in 1..Len(chain) |-> data_ptr[chain[i]]]`.
`PROJECT.json` maps each definition to its lines. A few definitions have a
neighbour of nearly the same form with a name that describes a slip
(`FlushKeepsTail`, `FoundKeepsCursor`, ...). No specification uses them; they
are the mutants that show that each property can fail.

Points where the models decide something a reader should know:

* **AGPS.** A client's message is modelled by the step that handles it: clients
  may send at any time, so nothing is lost by not queueing it. Answers of the
  framework are queued, because there the delay matters. `loc_eng_agps_open`
  with a NULL APN sends no message; the framework is assumed not to do this. On
  a restart `dropAllSubscribers` tells clients nothing (status `dropped`). A
  client that the Wi-Fi machine refuses is told DENIED, also one that is on the
  list already (status `denied`).
  `ConfigAssumption` holds the shapes in which `loc_eng_agps_init` creates
  machines.
* **MsgQ.** `pthread_cond_wait` may return spuriously, and a signal wakes any
  one waiter. Destroy assumes, as `LocEngContext::drop` ensures by waiting for QUIT to be
  handled, that the receivers left.
* **LinkedList.** `linked_list_search` on an empty list leaves `*data_p` alone;
  its callers preset NULL, which is what the model returns.
* **LocEngNi.** `pthread_create` may fail: the request then has no thread (place
  `failed`) and stays in progress. Accesses outside
  `tLock` are steps of their own: the check of `reqID` in the response, the
  read and write of `reqID++`, and the test, free and clear of the reset.
* **LocEngSession.** The modem refuses every call until the ENGINE_UP of its
  restart was handled and the connection reopened; over an open
  connection it may fail any start or stop, and then goes on with the fix it has
  (`stray` remembers that it is one of the framework).
  `agps_request_pending` is never set, so the deferral of a stop in
  `loc_eng_stop_handler` is dead code. `fix_session_status` is written and never
  read. The recurrence is chosen once.
* **LocHal.** The framework calls from one thread, and only what it may call:
  after an init that returned 0, except for servers, init and cleanup. A call
  that returns at once without effect (INIT_CHECK, no ULP library) is a stutter.
  Calls without INIT_CHECK crash when there is no context; the model has this
  outcome (`fw = "dead"`), reached when `/dev/gss` cannot be opened and
  `loc_init` returns NULL, which is 0. `LocEngContext::drop` sends QUIT with
  itself as owner, where the thread expects `loc_eng_data`: what it finds there
  is a choice, and the caller may hang. The modem takes settings only over an
  open connection, and a crash erases them. Of the parameters with the same
  treatment one or two stand for all.
* **DmnConn.** A message is written with one `write` of less than PIPE_BUF, so
  it arrives as a whole. The deferred queue appears as three queues whose mixing
  is left open. `lost` marks senders the code drops without an answer: a request
  of a type that is only logged (`loc_eng.cpp:1570`), and the subscribers of a
  restarted modem.
* **CameraWrapper.** One camera. It lists any of the modes the wrapper knows,
  for the exposure and both stabilisers, or none, and has one of those it lists in
  force when it is opened (`VendorsAssumption`). The vendor either keeps keys it
  does not know or drops them, and stores a value it does not list. An
  application sets keys it was shown to values it was offered. The camera
  service serialises the calls on a device.

## 3. Runs

Passing runs:

| Run | Instance | Shows |
|---|---|---|
| `agps_atl` | 3 subscribers, 3 requests and 3 answers under way, restarts | a Released machine has an empty list; a grant is of an open interface or its loss is queued; a pending machine has an answer under way; every client is answered |
| `agps_wifi` | 2 subscribers, one at a time, 4 and 4 | the machine that waits for the close: list, state and what clients were told agree, but for a second request that is refused; Releasing has somebody to tell and the close on its way; every close completes |
| `msg_q` | 2 receivers, 4 messages, spurious wakeups, flush, unblock | no lost wakeup, order, no use after free, everybody leaves after unblock |
| `linked_list` | 3 cells, 3 objects, every set of matches | well-formed pointers, live cursor, refinement of `DataList` |
| `ni` | 3 requests, 1 restart, 1 response, threads that cannot be created | the request in progress has its thread, if one was created; one answer, nothing lost, busy ends |
| `session` | 3 queued messages, 2 crashes, both recurrences | flag and modem agree at rest unless a stop or restart of the fix failed; statuses in order; the engine's status catches up with the engine; a crash is recovered |
| `loc_hal` | 3 devices, 3 calls or reports, 1 crash or late start, 2 attempts | the modem's configuration is restored; settings made on an open connection are in force; the configuration is the file's; start and positions take one route; an initialisation returns |
| `dmn_conn` | 3 daemons, 2 requests, pipes of 1 message, 1 restart, a pipe that cannot be opened | a grant is backed from end to end; answers fit; who waits has something under way, and is answered, also through full pipes; the launch returns |
| `camera` | cameras with every list of exposure modes and any mode in force, five more with other stabilisers and keys, 2 openings, any number of calls | no handle without a device; settings are read back where the mode behind them is listed; special values only if listed; no absent key is read |

Runs that expect a violation. Each shows a place where the code does not do what
the repository says of it; the quoted lines are in `PROJECT.json`:

| Run | Property | What happens |
|---|---|---|
| `ni_response` | `ResponseMatchesRequest` | The thread of request 1 times out and releases the lock; `reqID++` comes after that. Before it, request 2 is accepted and shown with the same id, so the user's response to request 1 passes the `reqID` test and the thread of request 2 sends it. (The other order, a response between its test and the lock while the thread times out, has the same result.) |
| `ni_restart` | `FreedNeverSent` | The reset frees `rawRequest` without the lock while a thread that just timed out takes it. |
| `hal_server` | `EarlyServerReachesModem` | `loc_agps_set_server` before `loc_init` is buffered in `loc_eng_data`; `loc_eng_init` clears it with `memset`; `loc_eng_agps_reinit` finds no server. |

**Known deviations.** The models show more behaviour of this kind. These cases
follow from one interleaving each and are stated here instead of in a run:

* A stale answer of the framework. A client releases and requests again while the
  denial of its first request is on the way. Pending goes to Released on it; the
  second request then opens the interface, the grant is ignored in Released, and
  nobody closes it until the next client comes (`loc_eng_agps.cpp:357`).
* A second request to the Wi-Fi machine. A client that is on the list and asks again
  is told DENIED and stays on the list, so that it may have an interface it
  believes was refused (`loc_eng_agps.cpp:708`). `ClientsAgree` names this case.
* An NI thread that cannot be created. The failure of `pthread_create` is only
  logged. The request stays in progress until the modem restarts: later ones are
  ignored, and the user's response is set and taken by nobody
  (`loc_eng_ni.cpp:123`). `RequestIsWatched` and `BusyEnds` name this case.
* A fix that cannot be stopped. `loc_eng_stop_handler` clears the session flag even if
  the modem fails to stop, and so does a failed start for a fix that is running;
  the fix goes on and no later stop reaches it (`loc_eng.cpp:592`).
  `PeriodicSessionAgrees` names this case.
* Aiding data after a restart. `loc_eng_handle_engine_up` reports ENGINE_ON although
  the engine of the restarted modem is off; a deletion of aiding data then waits
  for an ENGINE_OFF (`loc_eng.cpp:1285`).
* A start behind a cleanup. `loc_eng_cleanup` reads the session flag before a
  queued START_FIX is handled; the fix then starts and nobody stops it
  (`loc_eng.cpp:445`).
* Dropped subscriptions. After a restart the gpsOne daemon keeps a grant, or waits,
  and is not told (`loc_eng.cpp:1276`). A server that was set after the
  initialisation is not sent again (`loc_eng.cpp:813`).
* An end of the server thread. When its `malloc` fails it leaves for good, and the
  daemons' requests stay in the pipe (`loc_eng_dmn_conn.cpp:105`). When the thread
  cannot be created, the launch waits for ever.
* A callback cleared in use. `loc_cb` tests `gps_loc_cb` and calls it in two reads;
  `loc_cleanup` may clear it in between (`loc.cpp:992`).
* The vendor's camera stays open when `camera_ops` cannot be allocated, and can
  then not be opened again (`CameraWrapper.cpp:678`).
* Camera modes that are not listed. The wrapper writes `shutter-prio`
  (`CameraWrapper.cpp:236`), `manual` beside a listed `iso-prio` (`260`) and the
  stabilisers' `on` and `off` (`275`, `289`, `291`) without a look at the camera's
  lists, to cameras without a stabiliser, too. Where `iso-prio` or `auto` is not
  listed, an ISO value or an automatic setting leaves the mode as it is and need not
  be read back (`239`, `253`, `258`).
* `camera_device_open` does not write the service's handle when the vendor's module
  cannot be loaded (`CameraWrapper.cpp:645`), and returns 0 without one for a NULL
  name.
* Not modelled, seen while reading: `loc_eng_agps_open` with a NULL APN sends no
  message and leaves the machine Pending (`loc_eng.cpp:902`); `msg_q_destroy` takes no
  lock (`msg_q.c:144`); a mute that waits survives a crash (`loc_eng.cpp:1202`); a
  SUPL url that is too long is dropped without an error (`loc_eng.cpp:1060`);
  `camera_set_parameters` does not free its translation, and the ISO string is
  allocated one byte short (`CameraWrapper.cpp:526`, `184`).

**Bounds.** Two receivers are the least with which a signal can reach the wrong
one, and two messages more than receivers fill the list while both are awake.
Three cells give a list with a first, a middle and a last element, and reuse of
freed cells. Three requests leave two older NI threads running beside the
current one. Three queued messages let a report of a dead session, a restart and
a new start be queued together, and two crashes let the second hit the recovery
of the first. Three requests and answers let a release and a new request stand
between a request and its answer. Three calls around a crash put a setting
before, into and after the time the modem is down, and two attempts include one
that fails and one that succeeds or is the last. The three devices differ in
everything the code tests: a plain file with capabilities of the ULP library, a
file of oddities on a standalone device, no file and no library. A pipe of one
message makes every second write meet a full pipe; two requests let two daemons
compete for Wi-Fi, or one ask again. Counters are bounded in the guards
(`MaxRequests`, `MaxReplies`, `MaxMsgs`, `MaxRestarts`, `MaxResponses`,
`MaxQueue`, `MaxInputs`, `MaxCrashes`, `MaxTries`, `MaxPipe`, `MaxCommands`,
`MaxOpens`); the proofs hold for every value of these. One bound is fixed in a
model: in `DmnConn` each machine has at most two requests and two answers of the
framework under way. Deadlock is checked except in the NI,
`loc_hal` and `dmn_conn` runs, where the bounded inputs come to an end and the
system may stop.

**Fairness.** The deferred thread is weakly fair: it loops on its queue for ever
and no handler waits for another message. An NI thread is weakly fair: its wait has a timeout. A
woken receiver gets the mutex, because each holder releases it after a bounded
piece of code. The loop of `loc_eng_init` sleeps one second and goes on. The
server thread is weakly fair, and so are the daemons' reads: a daemon that waits
for its answer reads its pipe. A spurious wakeup is never fair. The framework takes requests and ends an opening one way or the
other, and the modem comes back after a crash; these are assumptions on
externals, used only by `EveryRequestAnswered`, `EveryCloseCompletes`,
`EverySenderAnswered` and `CrashIsRecovered`. Clients, users, crashes and connection losses are never
fair.

## 4. Proofs

Each `...Proofs` module proves the safety invariants of its model's runs for
every value of the constants under the named assumptions of the model
(`ConfigAssumption`, `BoundsAssumption`, `HeapAssumption`, `SessionAssumption`,
...), by an inductive invariant that is stated at its head.

* **AGPS.** `MachineInv` adds the shape of the list in each state to the
  invariants: without it nothing says that the list of a Releasing machine
  consists of the one subscriber that waits. `GrantIsReal` and
  `PendingIsServed` have invariants of their own about the two queues: which of
  the machine's calls is the last one on the way to the framework, and what
  answer follows from it. `ClosingIsServed` needs `ClosingInv`: the framework may
  leave a release of a closed interface unanswered, so one must know, before the
  last subscriber leaves, that a closed interface under a request has already
  reported itself at the end of the queue.
* **MsgQ.** `QueueInv` adds that a message in the queue, taken or freed was
  created before; `WakeInv` is proved from cardinalities. A `snd` adds a message
  and wakes one waiter, a receiver takes both a message and itself away, and a
  spurious wakeup only adds to the woken.
* **LinkedList.** `WellFormed` is inductive with two additions: the elements on
  the list hold distinct data objects, and a search that still runs has freed
  nothing. The second is needed for the refinement. While `flush` runs `p_tail`
  is stale, and so is the `prev` of the newest element; the invariant says so
  exactly. `Refinement` shows that every step is a step of `DataList` or
  invisible.
* **NI.** The invariant adds that a request is in at most one place
  (`rawRequest`, a thread's message, the modem), that threads past their message
  are empty-handed, and what the reset handler may find at each of its steps.
* **Sessions.** Flag and fix may differ only while the connection is closed, and
  then the modem is down or an ENGINE_UP is queued (`ConnectionInv`, `FixInv`), or
  after a call that failed (`stray`).
  This is why an empty queue and a running modem imply agreement.
  `EngineStatusKnown` needs to know that no report of an engine that is off is
  queued behind the last one that it is on (`PowerInv`).
* **Camera.** A setting is read back only if both translations keep to a shape
  that no single `if` of them states: which keys a camera can show at all, and
  which value needs which list (ISO priority that of the exposure modes, for
  instance, and the HDR scene the stabiliser's). `Shape` states it for the vendor's
  parameters and the application's; every stage of the two fix-ups is shown to
  keep it, field by field, for every vendor of `VendorsAssumption`.
* **HAL.** `ConfigRestored` and `SettingsInForce` speak of an empty queue, so
  their invariants (`ConfigInv`, `SettingsInv`) speak of what is queued: over an
  open connection a parameter of gps.conf is in the modem or on its way, and
  behind the last message of a setting there is no ENGINE_UP, which would reopen
  the connection to a modem without it. The parser takes a step per line, so
  that what it has read so far is an invariant (`gps_conf = Written(file,
  lines_read)`): `ConfigAlwaysTheFiles` holds for files of any length without an
  induction over sequences.
* **Daemon connection.** First, `WifiRefines` and `AgnssRefines`: under all the
  steps of pipes, threads and daemons, each machine only takes steps of
  `AgpsNif`. The invariants proved in `AgpsNifProofs` therefore hold here, and are
  taken over through `INSTANCE AgpsNifProofs`. The properties from end to end
  compare what a daemon believes with what its machine has it down for, and
  anything may be in flight between the two. `DmnInv` describes it: a sender's
  messages in the pipe and the queue form a word of at most three requests and
  releases (`Sent`, `Words`), and `Fits` lists the combinations of the sender's
  state, its status at the machine, the word and the unread answers that can
  occur. Each action changes the four in step. A release may be in front of the
  sender's next request: the framework lost the connection before the release
  was handled, and the sender took RELEASE_SUCCESS for its answer. That this
  stale release never ends the next subscription is the point of the table
  (a release that finds its sender not listed is ignored). `LostInv` describes
  the gpsOne daemon after the code dropped it, without which nothing excludes an
  answer it does not expect. `FreshInv` says that nothing was sent before the
  pipes were opened. `SendersServed` then follows from the table and from what
  the two machines owe (`PendingIsServed`, `ClosingIsServed`): a sender that waits
  with nothing in flight and nothing to read is waited for by its machine.

Every invariant of a passing run is stated by a theorem. Only model-checked are
the liveness properties, which are outside the prover's reach
(`EveryRequestAnswered`, `EveryCloseCompletes`, `EveryMessageTaken`,
`UnblockReleasesWaiters`, `BusyEnds`, `CrashIsRecovered`, `InitReturns`,
`EverySenderAnswered`, `LaunchReturns`), and the violation runs: a
counterexample needs no proof.

## 5. Not modelled, and plan

`PROJECT.json` lists every component with its status. Settings, policies and log
tables have no behaviour to check. In the modelled components:

* the choice among the three AGPS machines is modelled for the daemons
  (`DmnConn`), not for the modem's ATL requests (`RELEASE_ATL` tries the SUPL
  machine first);
* `loc_eng_dmn_conn_loc_api_server_unblock` and `_join` are not modelled: their
  only calls, in `loc_eng_cleanup`, are compiled out by `#if 0`;
* splitting a line of gps.conf into words, trimming it, and the logger's two
  parameters;
* `hexcode` and `decodeAddress` of `LocApiAdapter.cpp`, which only the modem's
  library calls;
* memory of strings in the camera wrapper;
* the lights HAL: its open and close have the shape of the camera wrapper's, and
  its brightness conversion keeps no state.

The order of the work:

1. AGPS machine and its interface - done, proved.
2. Message queue; linked list as a refinement of `DataList` - done, proved.
3. Network-initiated requests - done, proved.
4. Sessions on the deferred thread - done, safety proved.
5. Initialisation, servers, settings, ULP and the HAL interface - done, safety
   proved.
6. Daemon connection, composed with two `AgpsNif` - done, safety and refinement
   proved.
7. Camera wrapper - done, proved.

What is proved of the liveness arguments is their safety half, what is pending
at every moment: `PendingIsServed` and `ClosingIsServed` for the machines,
`EveryMessageHasAWaker` for the queue, `RequestIsWatched` for the NI interface,
`SenderIsServed` and `WaiterIsSignalled` (a theorem only, next to the run's
`LaunchReturns`) for the daemon connection. Worth adding
is the same for `CrashIsRecovered` (a crashed modem always has an ENGINE_UP to
come) and `InitReturns`.
