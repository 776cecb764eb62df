# LanMiHome in TLA+

LanMiHome keeps a small home running from an OpenWrt router and an Android
phone: Cuktech chargers, a MIoT fan and a desk lamp, a W96D fan, an SP651E light
strip and a handful of BLE sensors, and, next to them, tools for the router's
network (proxy tiers, a modem's Wi-Fi schedule, a campus multi-WAN, a CDN health
check, an SSH tunnel).  The program has few algorithms and many actors that
share something: one Bluetooth adapter, one fan that can only be toggled, one
charger that answers late, one state file.  These modules model those actors,
the TLC runs explore their interleavings and failures on small instances, and
the TLAPS theorems establish the main safety properties for any number of them.

Contents: [inventory](#inventory), [modules](#modules), [runs](#runs),
[findings](#findings), [proofs](#proofs), [assumptions](#assumptions),
[limits](#what-is-not-modelled), [plan](#plan).

To check it: `tlc -config GateSafety.cfg GattGate` (and so on, see the table of
runs) and `tlapm GattGateProofs.tla`.  `PROJECT.json` maps every definition that
stands for code to the source lines it models, and gives for every property
of a passing run a mutation of the code that the property rejects (the operators
named `X_Something`, each defined just before the `X` it is a broken form of).

## Inventory

Paths are below `src/`.  "Correct" lists what makes the component correct, whether
or not a property states it yet.

### Bluetooth on the router

**GATT setup gate** - `router/lanmihome_coordinated.py`.
State: one `asyncio.Lock` (`_gatt_gate`), the internal owner, the token of the
external lease, the watchdog task, `_gatt_scan_paused`, per charger the number of
initial port reads.  Operations: patched `connect`, `authenticate`,
`get_ports`, `disconnect` of a charger; `_acquire_external`, `_release_external`
and the watchdog behind `POST .../gatt/acquire` and `/release`; `_pause_scan`,
`_resume_scan`.  Users: every charger's worker, the W96D sidecar over HTTP, the
SP651E driver inside the loop.  Hard: every release path awaits
the scanner before it frees the lock, holders are cancelled, calls to the scanner
raise, HTTP callers give up without cancelling what they asked for.
Correct: one setup at a time; a lock is freed by whoever holds it; a stale token
releases nothing; a paused scan is resumed; nobody waits for ever.

**Charger manager and command channel** - `tools/cuktech_ble_probe/src/lanmihome_cuktech`
(`manager.py`, `controller.py`, `miot.py`, `state.py`).  State: per charger a
queue of operations with futures, the session, the settings cache.  Operations:
`execute` from HTTP threads, the worker's loop (reconnect, run one
operation, receive window, refresh), `set_port` as read-modify-write
of a shared mask, GET/SET whose replies are recognised by opcode and property
alone, `stop`.  Hard: late replies, pushes in the middle of a handshake,
callers that give up, links lost between GET and SET.  Correct: every
operation is answered once, none starts after its caller left, no acknowledged
port switch is lost, the cache catches up.

**Charger session** - `session.py`, `protocol.py`, `active_poll.py`.  State: login keys,
frame counters (16 bits on the wire, 32 in memory), reassembly of
fragments.  Hard: counter wrap with lost frames, an authentication that is cut
off.  Correct: both ends agree on the epoch, fragments of different messages
never mix.

**W96D ownership** - `router/w96d_sidecar.py` as patched by
`router/w96d_coordinated.py`, and `W96d.kt`, `W96dScreen.kt` in the app.  State: the
pause flag in memory and in its file, the BLE client, the runner; on the phone
the OUTDOOR preference and its own GATT connection.  Operations: `release`, `resume`
and `state` requests, the runner's turn (connect, refresh, disconnect), a PATCH,
the screen's `enterOutdoor` and `exitOutdoor`, its polling loop.  Hard: a pause flag
that is read before several awaits, requests that outlive the party that asked,
restarts of either side.  Correct: a release is durable, a released router leaves
the fan alone, a phone that is home gets the router back.

**W96D command and refresh** - the same sidecar under `_op_lock`.  State: cached fan
state, refresh cycle, forced reads.  Operations: a PATCH as an ordered series of
GATT writes with an optimistic cache update, a three-tier refresh.  Hard: a write
that fails in the middle, fields that are read in a fraction of the cycles only.
Correct: natural wind and Turbo exclude each other, an accepted PATCH is shown,
the cache converges.

**Light strip** - `router/light_strip.py`, `router/sp651e.py`.  State: session lock,
snapshot with its age, queue of frames.  Operations: poll, notification, PATCH confirmed
by a read-back under a 14 s limit.  Hard: snapshot written by poll,
notification and HTTP thread; commands cancelled between two writes; readers
behind a lock held across a reconnect.  Correct: an acknowledged command is in force, no write
of an abandoned command follows it, a snapshot older than 20 s is not shown.

**BLE runtime and sensors** - `router/lanmihome.py` (`BleRuntime`, `SensorStore`).
State: the loop thread, scanner, device cache, sensor values with age.  Operations: start,
stop, advertisement, external report, expiry.  Hard: thread to loop calls, repeated
and alternating frames.  Correct: a value is as old as its measurement, not as
its last repetition.

### MIoT devices and recovery

**Fan power and morning recovery** - `router/lanmihome.py` (`FanAdapter`,
`RecoveryController`), `router/recovery_supervisor.py`.  State: the adapter's lock;
`active`, `success`, `reason` and the worker thread; in a second process
the keys of the triggered and the completed window.  Operations: power PATCH,
`ensure_power`, `start`, `maybe_start`, `snapshot`, the worker's loop, the
supervisor's poll.  Hard: the fan can only be toggled, replies are lost,
two processes remember different things and restart separately.  Correct: no
toggle goes the wrong way, a lasting window ends with the fan on, workers end.

**HTTP API and desk lamp** - the rest of `router/lanmihome.py`: routing, validation,
one device call per request under a lock.

### App

**Screens and HTTP client** (`App.kt`, `Api.kt`, `Miio.kt`, `MainActivity.kt`):
presentation and blocking calls.  **Phone Bluetooth client of the W96D** (`W96dBle.kt`): a
queue of GATT operations with a time limit each; correct when a late callback never
completes a later operation.  **10S night node** (`NightNode*.kt`): parked,
`README.md:7` and `docs/W96D.md:3` keep it out of the active design.

### Network tools

| component | state | what is hard, and what makes it correct |
|---|---|---|
| `tools/homeproxy_tiers/tiered_proxy.py` | choice per tier, streaks, state file | two controller calls that may fail between; go back to a cheaper tier after two successes only, keep the last choice when everything fails |
| `tools/modem_wifi_schedule/modem_wifi_schedule.py` | last slot, retry time, file lock shared with the proxy | clock steps, restarts; once per slot, both bands read back |
| `tools/modem_wifi_schedule/modem_wifi_proxy.py` | web session | renewal races; a POST is never carried out twice |
| `tools/campus_multiwan/service.py` | DHCP leases, rules, portal logins, policy table | DHCP events against the supervisor's round; a fixed line never borrows another |
| `tools/homeproxy_multiwan/integration.py` | last status it followed | a stale status file must not leave the proxy on a dead line |
| `tools/steam_cdn_health/health.py` | success counts, published pool | two successes admit, one failure removes, across crashes between publishing and saving |
| `tools/ssh_proxy/tunnel.py` | two byte streams | half-closed streams |

Installation scripts, CI and build files keep no state at run time.

### How they interact

```
 app ----HTTP----> lanmihome.py ---- MIoT ----> fan, lamp
  |                  |    ^  ^
  |   recovery_supervisor-+  |
  |                  |       +---- execute() ----> ChargerManager --+
  +--HTTP--> W96D sidecar --HTTP lease--> GATT setup gate <---------+--> chargers
  |               |                          ^   |
  +----BLE----> W96D fan <----BLE------------+   +--> scanner --> sensors
                                             |
                              SP651E driver -+-----> light strip
```

The gate is the meeting point of everything that uses Bluetooth.  The supervisor and the
sidecar are processes of their own that procd starts again after a crash.

## Modules

| module | models | source |
|---|---|---|
| `GattGate` | the gate, its users and the scanner | `lanmihome_coordinated.py`, parts of `manager.py`, `sp651e.py` |
| `FifoLock` | what the gate promises: an abstract FIFO lock | - |
| `W96dOwnership` | sidecar, ownership requests, phone | `w96d_sidecar.py`, `w96d_coordinated.py`, `W96d.kt`, `W96dScreen.kt` |
| `W96dCommand` | PATCH and refresh of the fan | `w96d_coordinated.py` |
| `ChargerCommands` | operations on one charger | `manager.py`, `controller.py`, `miot.py`, `state.py` |
| `PortSwitches` | what a charger's switches promise: atomic operations on one mask | - |
| `ChargerSession` | what a session reads, and its frame counter | `session.py`, `controller.py` |
| `FanRecovery` | fan power, recovery worker, supervisor | `lanmihome.py`, `recovery_supervisor.py` |
| `LightStrip` | poll, PATCH and notifications of the strip | `sp651e.py`, `light_strip.py` |
| `TieredProxy` | configuration generator, controller rounds, sing-box | `tiered_proxy.py`, `generate_client.uc` |
| `ModemWifi` | schedule, manual commands, web proxy, modem | `modem_wifi_schedule.py`, `modem_wifi_proxy.py` |
| `CampusMultiwan` | supervisor, DHCP hook, the proxy that follows | `campus_multiwan/service.py`, `homeproxy_multiwan/integration.py` |
| `*Proofs` | the theorems about the module of that name; `W96dProofs` and `ChargerProofs` have those about both modules of the name | - |
| `MC*` | constants for TLC | - |

### GattGate

A process is a charger worker, an HTTP lease (the request and the lease it creates), or
the strip.  Everything runs on one event loop, so an action is what happens
between two awaits; `pc` says which await a process is in.  `locked` and
`waiters` are the `asyncio.Lock`; `restart[p]` is the `restart_scan` flag a
holder carries from its pause to its release; `caller[e]` is what the party behind
a lease believes.

A charger goes `idle -> queued -> (pausing) -> connecting -> authenticating ->
polling -> (resuming) -> online`.  The gate is freed in the patched `get_ports` after
the last of `InitialPorts` reads, in the error handlers of `connect` and
`authenticate`, or by `disconnect()` in the worker's `finally`; `cause` says
which, because an exception in `scanner.start()` has another effect in each: it is
swallowed by the worker's `except`, or it ends the worker and with it the
`TaskGroup` (`aborting`, `ChargerCancelled`).  `InManagerSetup` is the
manager's own `_setup_lock`.  A lease goes `idle -> queued -> (pausing) -> leased ->
(resuming) -> idle`; its token is represented by its own name.
`LeaseExpires` is the watchdog, whose caller goes on working and becomes `stale`;
`CallerGone` is a caller that times out or dies; `StripCancelled` is the timeout
around the strip's acquisition.

The scanner may raise in `stop()` and `start()`.  `ScannerReports` distinguishes
scanners with an `is_scanning` attribute from those for which the code goes by
its own pause flag.

`FifoLock` says what a user of the gate may rely on: grants in order of arrival, one
holder, released by that holder only.  `Forfeit` is the one thing
it concedes: a holder may vanish with the lock.  The refinement maps `holder` to the process
between grant and release, or to `Lost` when the lock is taken and there is none.

### W96dOwnership

`runner` and `patch` are the two coroutines that may connect, `client` is `self._client`,
`link` the adapter's connection (it can outlive the client object that made it and is
shared by all clients on the router).  `paused` and `file` are the two copies of the
pause; `settled` remembers the outcome of the last ownership request.  Requests live
in three slots: the screen's, the polling loop's, and `late` for one whose asker
stopped waiting (HTTP timeout, the sidecar's own 8 s limit, the app killed): its
work continues.  `ui` follows `enterOutdoor`/`exitOutdoor`; `PollStarts`, `PollAnswered`,
`PollResumed` are `W96dRemoteClient.state()`, which resumes a router it finds paused.
`Restart` is a crash of the sidecar, which then reads the file.  Waiting for the gate
is a step that succeeds or fails; `GattGate` shows that it ends.

### W96dCommand

`todo` is what is left of the writes of a PATCH, `claims` the dict `optimistic`, `left` and
`got` what a refresh has still to read and has read.  `Writes` and `Claims` give for
each field the writes in their order and the claimed values, `AllWrites` and `AllClaims` for a body; the body's
fields are handled in the order of the code whatever their order in the request.
`Reads` is the refresh schedule.  The values are on and off; `setting`
stands for the fields that are one plain write followed by a forced read of the settings.
`FanChanges` is the fan by itself (buttons, the end of Turbo).

### ChargerCommands

One charger, the worker (`phase`, `cur`), the callers (`status`, `op`), and the channel on
which replies arrive in order but possibly after the client gave up on them.  `SET`
is done at an ACK or at a push of the property; `GET` takes the first value frame of
its property, which may be the answer to an earlier GET.  `op` is the operation in the
worker's hands, chosen when it is taken.  `acked[p]` remembers what a
caller was last told of port `p`.  `Reconnect` clears cache and channel and makes the first
refresh; `Stop` and `RuntimeEnds` are the end of the process.

`PortSwitches` says what the HTTP threads may rely on: an operation begins when its caller
still waits, changes the mask once and in one step, from the mask the charger has at that
moment, is answered, and is over.  It may leave its caller with an error although it took
effect, and it makes no promise about masks any more once `trusted` is gone.  The refinement
maps `turn` and `asked` to the operation in the worker's hands, `done` to the wait for the
ACK, and `trusted` to `Trusted` (no connection saw two commands given up, nobody pressed a
button): the GET, the comparison and the frames skipped meanwhile are stutters.

### ChargerSession

The receiving side of one connection: `inbox` is the notification queue (a full one drops its
oldest frame), `saved` the frames that `_capture_initial_pushes` sets aside after the login,
`hi` and `last` the two halves of the counter that a frame is decrypted with.  The charger numbers its
frames 0, 1, 2, ...; a frame carries only its number modulo `W`.  `Capture`, `Drain` and
`Read` are the three places that take frames from the queue, and each treats a long message
in its own way: a header makes the reader wait for chunks (`Swallow`) which have no header
themselves, so that a late one is taken for whatever its bytes look like (`stray`).  `next` is
history.  The login is one action, the ciphers are left out: a frame is readable exactly if
its counter is rebuilt right.

### FanRecovery

Threads are the PATCH requests and the recovery worker; each goes through `wait` (for the
adapter's lock), `read`, `toggle`, `verify`.  The clock has windows numbered by
day; the supervisor's keys `triggered` and `completed` are such numbers.
`ToggleLost` is a toggle whose reply was lost: carried out, not carried out, or
carried out twice because the library sent it again.  `fresh` and `confirmedIn`
are history.  `BackendRestarts` and `SupervisorRestarts` forget what the processes keep
in memory.

### LightStrip

The actors are the poll and the PATCH requests; `op` says for each whether its `_operate()`
waits for `_session_lock` or is inside, and `stage` where the one inside is: connecting, sending a
query, waiting for its answer, writing, disconnecting after an error.  A PATCH also has an HTTP `thread`,
which submits the coroutine, waits 14 s, saves the result and compares the
snapshot; `GivesUp` is its limit, which cancels the coroutine wherever it is.  `air` and `queue` are
the status frames on their way and in `self._queue`, answers and
pushes alike.  `cached` is the snapshot: empty, or one state.  A controller has power, two
values of brightness and the constant-light mode, in which alone brightness is
obeyed; `Applied` says what a write may do, including that mode and brightness may
switch the strip on, which is what the code's restoring write is for.  `since` and `over` are history.

### TieredProxy

A node is its place in the order by cost and label in which `eligible_nodes` returns them.  A generation
(`generate_client.uc`) runs in the steps `Prepare`, `NativeGenerate`, `ReplaceConfig`, `WritePool`, `StopBox`, `StartBox`.
`NativeGenerate` overwrites `config`, the file sing-box runs, with one that has no tiers (`initial = Null`); `ReplaceConfig`
and `WritePool` are `finalize`, which reads the subscription a second time and may find it changed (`FinalizeFails`).
`GeneratorDies` is any other failure between those steps, a rejected candidate and a kill included, also one between the
two files of `finalize`.  What a failed generation wrote stays, `GiveUp` leaves open whether HomeProxy restarts sing-box
all the same, and nobody generates again until asked (`due`).
`box` is what runs in sing-box: the tier main-out points to and the member of each tier, or `Unpatched(S)`, whose main-out is
no selector (`NoTier`).  `Started` says where a new sing-box begins: each group at its default, or at the selection in the `cache` file.
`round[p]` holds the locals of `reconcile()` in process `p` (the daemon or a manual
`once`): `Begin` under the file lock and only with a main-out that is a selector (a round that returns at `tiered_proxy.py:308-310` changes nothing),
`Measure`, the two calls `PutMember` and `PutMain`, `Save`.
`RoundDies` is a kill or a call that fails, carried out or not; `Reboot` loses what is on tmpfs.
Probe ports are numbered by position, so a pool that is newer than the running configuration
measures another node than it names (`Probed`).  `lastPassed`, `sameBox` and `broken` are history.

### ModemWifi

The cron jobs and manual commands (`cli`) go through login, and per band a check, a write and a read-back,
to a second reading of all bands, then the state file (`file`: slot, boot, confirmed, and whether the
attempt is less than 300 s old).  Browser requests (`req`) wait for the radio gate, take the proxy's own lock
and the file lock, log in when there is no client, and are sent; an answer that is a login page
makes `forward()` drop the client and send once more.  `posts` counts how often the modem
carried a request out.  `session` says whose session the modem still knows.  The answer codes of a finished
request are one value, `done`.  `Wanted(slot)` alternates: slots are numbered, and each is for on or off.

### CampusMultiwan

`net` is what the kernel holds per line: interface, the rule of its mark, rules of
source addresses, addresses, and the routing table of the line.  `hook[l]` is one `lease_event`
called by udhcpc, one step per group of `ip` commands, ending in the lease file; `sup` is the daemon's round: per line the lease is read
and `reconcile_lease` puts routes and rule in place again, without the lease lock, then udhcpc is
started if it is missing, then come the checks, the policy table, the status file.
A check that raises, and a main WAN that is down, leave a state without interface (`Checked(raised)`, by the portal value `failing` or once by `CheckRaises`):
the status is then not `whole`.  Any exception of a round deletes the policy table (`RoundRaises`, `RoundFails`).  `Start` is
the clean-up that a new daemon makes after a crash.  `proxy` is the follower with its own table and
the signature in its state file; it refuses a status that is stale or not whole and keeps its table (`Follow`).  An address stands for its prefix and gateway.  `torn`
and `lost` are history: a hook that was killed half-way, a follower killed between table and file.

## Runs

| run | module, cfg | expected | states |
|---|---|---|---|
| `gate_safety` | `GattGate`, `GateSafety.cfg` | pass | 53 k |
| `gate_orphan` | `GattGate`, `GateOrphan.cfg` | violation | |
| `ownership` | `W96dOwnership`, `Ownership.cfg` | pass | 352 k |
| `ownership_outdoor` | `W96dOwnership`, `OwnershipOutdoor.cfg` | violation | |
| `command` | `W96dCommand`, `CommandState.cfg` | pass | 2.8 M |
| `commands` | `MCChargerCommands`, `Commands.cfg` | pass | 1.1 M |
| `session` | `ChargerSession`, `ChargerSession.cfg` | pass | 286 k |
| `recovery` | `FanRecovery`, `FanRecovery.cfg` | pass | 315 k |
| `light_strip` | `LightStrip`, `LightStrip.cfg` | pass | 1.6 M |
| `tiers` | `MCTieredProxy`, `TieredProxy.cfg` | pass | 348 k |
| `modem` | `ModemWifi`, `ModemWifi.cfg` | pass | 546 k |
| `campus` | `CampusMultiwan`, `CampusMultiwan.cfg` | pass | 2.0 M |

No run uses symmetry, which is not sound for the liveness properties most of them check.

**gate_safety.**  Two chargers, one lease, the strip, two initial ports, a
scanner without a state of its own.  Two chargers
are the least that show the task group's cancellation and the manager's setup lock; lease and strip both
publish tokens, so an expired one meets its successor; and there are three kinds of waiters behind one holder.
`GateSafety` is the conjunction of what must hold in every state: types, an exact queue (`QueueIsExact`), exclusive setup
sections, `HolderHasLock` (`if lock.locked(): lock.release()` never frees a lock that has passed to somebody else),
`TokenIsCurrent` and `LeaseFencing` (late releases are refused, and a caller within its
TTL has the gate), `PausedScanHasOwner` (the pause flag never outlives the one who
will restart the scan).  `SnapshotBeforeOnline`: the countdown of initial reads starts
anew with each attempt.  `ImplementsFifoLock`: the refinement of `FifoLock`.
`OnlyCancellationOrphans`: the gate loses its holder in one way only.  `NobodyLeftWaiting`: every request is
answered, every lease ends (also if the caller never comes back), the scan resumes; the first of these exempts an orphaned gate, which
`OnlyCancellationOrphans` shows to be the work of a cancellation.

**ownership.**  One fault at any point (restart, app killed, answer lost, file not
written).  One fault is enough to separate memory and file, to make a request late and
to restart a paused sidecar; the interleaving of runner, PATCH, three requests and the
screen around it is unbounded.  `LastRequestHolds`: the last request carried out is what both copies
say.  `HandOverSettles`: a release that stays empties the router's connection for good.
It is stated as "in the end" because a connection attempt that is past its pause check
(`w96d_coordinated.py:224`) completes after the release was answered, and only the runner's
next turn lets go of the fan.
`PauseIsRepaired`: the polling loop mends a release whose answer was lost.

**command.**  PATCH bodies of up to two fields, Turbo and settings read in every second
cycle, one disturbance anywhere (failed read or write, lost link, a change at the
fan), and no bound on the number of PATCHes and refreshes.  Two fields give
every pair of modes in one body; the periods are scaled down, which keeps that
a slow field is skipped in some cycles.  `ModesExclusive` between any two writes and after
every failure; `AcceptedIsShown`: the claims of `optimistic` cover all that the
writes touched; `ShownCatchesUp`: the schedule reads every field again in the end.
The first two are about the code's own writes: a change that the fan makes by itself in the
middle of a PATCH breaks both and is excluded in them (`changes = 0`, and `synced` is given up).

**commands.**  Two callers, two ports, one each of late reply, press at the charger and lost link, callers that give up
at any time.  `NobodyForgotten`, `NoLateStart`, `EveryOperationAnswered` across reconnections;
`AcknowledgedHolds`: no switch that
was acknowledged is undone by the read-modify-write of another one; `SwitchesAreAtomic`: the refinement of `PortSwitches`;
`CacheConverges`: with callers silent the settings shown agree with the charger in the end.
`AcknowledgedHolds` and `SwitchesAreAtomic` have two limits (`Trusted`).  After two commands were given up on one connection a GET may be answered by an old mask, since a reply is matched by
opcode and property only: serialising the commands, on which the comments at `manager.py:110` and `miot.py:103` rely, does not help against a reply that comes after its command was given up; then an acknowledged switch is lost.  And a
button pressed at the charger pushes a frame which counts as the
acknowledgement of a SET whatever it carries; the property does not cover a switch made beside a press.

**session.**  A counter of ten values, so that 22 frames wrap it twice; a queue of three, so that it overflows; two
frames kept at the login; two long messages of up to two chunks, which come late, in part or not
at all.  `EpochInSync`: the counter rebuilt for a frame is the one it was sent with.  It assumes `MaxUnread < W / 2`: no more than
32 767 frames are lost in a row.  `NewestLast`: frames are read in the order they were sent, although those of the login are set aside;
so an old state never overwrites a newer one.  `EpochInSync` exempts a connection on which a stray chunk was
taken for a message: `session.py:366` moves the counter before the tag is verified, and every later frame of that connection may
be unreadable, until a reconnection.

**recovery.**  One PATCH request, two windows, three disturbances (presses, mains,
lost requests and replies, restarts of either process, forced starts).  Two windows are the least
in which yesterday's `confirmed-on` can be taken for today's.
`TogglesFromReading`, `ActiveHasWorker`, `WindowRecovers` (a window that lasts with the
mains back and the clock set ends with the fan confirmed on), `WorkersEnd`.  Deadlock is not checked: after the
last window everything may be at rest.

**light_strip.**  Two PATCH requests, one failed call, lost link or late poll, one change made at the
strip, and no bound on the polls.  One failure is enough to cancel a command between any two of
its awaits with the other command waiting; one press is enough to put a pushed
frame before any answer.  `NoLateCommand`: a command that was given up has left the session when a
later one is done.  `ConfirmedWasReal`: no pushed or left-over frame confirms a command.
`SnapshotCatchesUp`: whoever of the poll, a notification and a late HTTP thread wrote the snapshot
last, it ends up as the strip's.  PATCHes ask for one of the two values of brightness,
which keeps the graph small; the strip starts in any state.

**tiers.**  Two nodes of one tier and a dearer one, two processes, one change (of the subscription or of a
node's speed) and one fault.  `NoDetour`: new connections go from the old node to the chosen one and never through
the old member of the tier that is entered.  The exception, which is stated in it, is a sing-box that was restarted in the middle of the round: then the call
for the tier routes through that tier's default member until the next round.
`SwitchIsEarned`: a node that still answers is left only for one that answered in this round and in the round
saved before.  Rounds that fail between measuring and saving do not count for either.  `Settles`: after the last disturbance the choice
stays on one node of the cheapest tier that answers, although measurements vary by `Jitter`; the margin of 50 ms is what prevents
flapping.  It exempts what a failed generation leaves behind (`broken /\ Ungoverned`): a sing-box started from the native
generator's configuration, or from one that `pool.json` does not describe, which no round can put right.  `AlwaysSettles`, without the exemption, is refuted (finding 3).  A streak is capped at 2 instead of 100, the least the code tells apart.  Deadlock is not
checked: after a reboot with an empty subscription nothing happens.

**modem.**  Two overlapping cron jobs, a manual command, one browser request, two slots, two faults (failed requests, killed commands, expired
sessions, reboots, clock steps), one change by hand.  One request is enough: the lock
serialises them, and the initial states include a proxy with a session, without one and in its back-off.
`CarriedOutOnce`: no POST is carried out twice.  `ConfirmedHolds`: when a command
reports both bands confirmed, nobody wrote a radio since they were read.  `DoneOnce`: a slot that is done in this boot is not
worked on again, so a change by hand stays.  `SlotSettles`: the current slot is confirmed in the end.  Deadlock is not checked: requests, slots and
changes by hand are bounded.

**campus.**  One secondary line with two addresses, one fault, one change.  The code treats its lines one after
the other with no state in common except the policy table, so one line beside the primary shows the interplay of hook and round; two addresses are the least with a
move.  `NoBorrow`: while udhcpc serves a line and no hook is at work in its table, marked traffic finds a default or an unreachable route and never
falls through to the main WAN; a hook that was killed between flushing and filling the table (`torn`) is exempt, the table stays empty until
the next event.  `LinesSettle`: although `reconcile_lease` puts the rules of an older lease back beside the hook, address, route and rule end up as the
lease's, and a disabled line has no interface, udhcpc, lease, mark rule or route left.  (A source rule of an older address may
be left, for an enabled and for a disabled line, although `tools/campus_multiwan/README.md:7` has the rules removed: the property asks only for the rule of the lease.)
`PoliciesSettle`: both policy tables end up with the lines that can be online.  It has two exceptions, for the follower's table only:
a follower killed between its table and its file (`lost`), and an enabled identity whose check fails for good; `DeadLineLeft`, which has no such exception, is refuted (finding 4).
A disabled line that would fail is none, for its state has an interface (`service.py:426`).
Met on the way, and allowed for by the properties: the source rule of an old address can stay for good when `reconcile_lease` adds it after the hook deleted it;
`ip rule add` raises "File exists" when both add the same rule, and ends the hook or the round, which the next one repairs; a hook of a daemon that was killed can
save its lease after the clean-up, and then every round fails on the missing interface before `setup_line` until that lease expires;
a follower killed between `nft` and its state file keeps a table its file does not know, which it does not replace when the
old set of lines returns (`integration.py:181-185`, `lost`).

### Fairness

Weak fairness of what the event loop or the scheduler has ready: tasks that can run
do, every Bluetooth or HTTP call ends (with a result or an error: each such call in the code is
under a timeout), watchdogs' sleeps end.  Nobody has to ask,
release, press, resume or stop.  Beyond that:

- `W96dCommand`: strong fairness of `RefreshBegins`, because `_op_lock` is handed out
  in order and a PATCH therefore cannot keep a waiting refresh out for ever.
- `ChargerCommands`: strong fairness of `RefreshStarts`, which is a genuine assumption about the
  charger: settings are refreshed only after a receive window in which nothing arrived, and
  a charger that never falls silent would put the refresh off for ever.
- `FanRecovery`: strong fairness of `TakeLock(Worker)` (the waiting thread gets the
  `threading.Lock` eventually) and of `GivesUp` (a forced worker has a deadline, and the
  model has no clock).
- `W96dOwnership`: the screen stays open, so that it polls.
- `LightStrip`: one weak fairness condition for the loop and one for the threads, so the properties do not
  depend on the order in which the loop serves its tasks.
- `TieredProxy`: HomeProxy and procd as one condition: a generation that was asked for runs and a sing-box that is down is
  started again.  The rounds are another: the daemon starts one every two minutes.
- `ModemWifi`: cron starts a job every minute, and 300 s pass (`RetryDue`).
- `CampusMultiwan`: procd restarts the daemon; a DHCP server answers and udhcpc renews; a lease that no udhcpc
  renews expires.

## Findings

Four places where the code does something else than the repository says.
TLC ends each with a counterexample: the first two are runs of the table; the last two have a configuration of their
own for a property that a passing run checks with an exemption.

1. `gate_orphan` - `_acquire_external` returns the lock in `except Exception`.  A
   `CancelledError` is none: a strip that is timed out while `scanner.stop()` is awaited
   leaves the gate locked for good (`lanmihome_coordinated.py:275`).  `OnlyCancellationOrphans` shows that
   this is the only way.
2. `ownership_outdoor` - a polling GET sent before OUTDOOR is entered finds the router
   paused and resumes it (`W96d.kt:222` against `docs/W96D.md:13`).
3. `AlwaysSettles` (`MCTieredProxy`, `TieredDeadGeneration.cfg`: a node of each tier, one generation, one failure) - the native generator overwrites the configuration that sing-box runs before `finalize` has
   checked anything (`generate_client.uc:3`); if `finalize` fails the former file is gone, and a sing-box started then has no
   tiers and no controller until somebody generates again (against "checked first, then replaced atomically",
   `tools/homeproxy_tiers/README.md:30`, and the choice of the cheapest working node, line 9).
4. `DeadLineLeft` (`CampusMultiwan`, `CampusDeadLine.cfg`: one change, no fault) - with the main WAN down, or a check that keeps raising, a line's state has no `interface`
   (`service.py:344-345`, `440-441`); the follower raises on every such status (`integration.py:120-131`, called at 177) and keeps the
   dead line in its table (against "assigned by healthy line", `tools/homeproxy_multiwan/README.md:8`).

Two more were met and have no run: `scanner.start()` that raises inside the `disconnect()` of a
worker's `finally` ends that worker, and the `TaskGroup` cancels the others
(`manager.py:246`, against `router/README.md:56`; the step is in `GattGate` as `ChargerResumeFails`); and
the worker started at boot confirms before the supervisor's
first poll, which then triggers another one in the same window
(`recovery_supervisor.py:112`, against `router/README.md:76`; the steps are in `FanRecovery`).

## Proofs

All theorems are of the form `Spec => []P` or `Spec => [][A]_vars` (two are refinements) and hold for all values of the
constants that satisfy the module's named assumption.  Every invariant, every action property and
every refinement that a passing run checks is the property of a theorem here.  The inductive invariants of `W96dCommand`, `ChargerCommands`, `LightStrip` and `CampusMultiwan` were
checked by TLC on the instances of their runs as well.

**`GattGateProofs`** - from `GattGateAssumption` (the sets of processes are disjoint, at
least one initial port): `TypeCorrect`, `SetupSectionsExclusive`, `NoForeignRelease`,
`LeasesSound`, `PauseIsOwned`, `GateIsSafe` (all of `GateSafety`), `GateIsFifoLock`, `SnapshotComplete`,
`OrphansOnlyByCancellation`.  The
inductive invariant is `TypeOK /\ GateInv`, later joined by the exact queue.  Mutual exclusion is not inductive
alone: a release frees the lock unconditionally, so one needs `HolderHasLock` (the
lock is not free while somebody is between grant and release), and a release by token needs `TokenIsCurrent` to know
that its holder is the one whose lease is in force.  `PausedScanHasOwner` needs
`RestartWhileHolding`: nobody but a holder has the restart flag set, or the grant of the
gate to the next one would find a paused scan without an owner.  The refinement
theorem characterises `holder` without its `CHOOSE` (`HolderIs`: the one process
that holds, by mutual exclusion unique) and maps every action to a step of `FifoLock` or a stutter.
`SnapshotComplete` uses `PortsInv`: a charger between connection and release
has between one and all of its reads to do.

**`W96dProofs`**, ownership - from `OwnershipAssumption`: `ReleaseIsDurable`
(`LastRequestHolds`) and `OwnershipTyped`.  `LastRequestHolds` is inductive as it
stands because only served requests, failed writes and restarts touch memory or file (`StoreIsLocal`), and a restart
copies a file that agrees with memory unless the last request failed.

**`W96dProofs`**, command - from `CommandAssumption`, for bodies of any size: `NeverBothModes`
(`ModesExclusive`), `ShowsWhatItDid` (`AcceptedIsShown`), `CommandTyped`.  Neither is inductive: in the middle of a PATCH the fan
is between two states, and what is shown afterwards was claimed before.  `RestGuarded` looks at the writes
that are left: one that switches a mode on comes right after the reset of the other mode, or
finds that reset done.  `ClaimsKept` does the same for the claims: what is claimed of a field is what its
last write left in `todo` will set, or no write of it is left and the fan has it.  `InHand` says what the
lock is for: a PATCH and a refresh have only their own work in hand, and nothing a refresh has read was
overtaken by a PATCH.  That a body's writes, put together field by field, have these two properties is a case split on the fields asked for
(`AllWrites` and `AllClaims` are explicit concatenations, as in the code, so no induction is needed).

**`ChargerProofs`**, commands - from `CommandsAssumption`: `NoneForgotten`,
`NoneStartsLate`, `TypeCorrect`, `NoUpdateLost` (`AcknowledgedHolds`), `SwitchesAtomic` (`SwitchesAreAtomic`).
`HandsInv /\ NobodyForgotten`: the worker has an operation in its hands only in the phases of one, so that picking up the
next never drops one.  The two theorems about masks rest on `Replies`, which says what may be on the
channel at each place of the worker as long as at most one command was given up on this connection.
Then every value on the channel is the mask the charger has (`Current`), except while a SET waits for
its acknowledgement; values sent before the SET come before its ACK (`ValuesFirst`) and are therefore gone when the ACK
has been read (`NoValue`); an answer that is awaited is the last value (`ValuesLast`, `OnlyLast`).  With two commands given up this is false,
and that is where the properties end.  `Pending` carries it through the handshake: the mask to SET is the charger's
mask with the ports switched, also after other frames were skipped.  `SwitchesAtomic` then maps each action of the worker: `SendSet` is `Applies`, a
comparison that finds nothing to do and `SetDone` are `Succeeds`, a command given up is `Breaks`.

**`ChargerProofs`**, session - from `SessionAssumption` (fewer than half of the counter's values are lost in a row):
`SessionTypeCorrect`, `CounterInSync` (`EpochInSync`), `ReadInOrder` (`NewestLast`).  `Rebuilt` is the arithmetic: a number that is
less than half a range above the last one has fallen by more than half exactly if it has wrapped.  The invariant adds `Near` (what is sent is
at most `MaxUnread` ahead of what was read), `Fresh` (a connection starts at 0) and `Waiting`: the frames set aside, then those in the queue, are
ascending and none of them is older than `next`.  Because reading is in order the counter never has to step
back, and the threshold matters for long gaps only.

**`FanRecoveryProofs`** - from `RecoveryAssumption`: `ReadingHolds`
(`TogglesFromReading`), `NoWorkerLost` (`ActiveHasWorker`) and `TypeCorrect`.  The invariant is
`PcInv /\ LockHeld /\ ActiveHasWorker /\ TogglesFromReading`: a reading stays valid
because whoever toggles is in the block of the adapter's lock, and the lock has one holder.

**`LightStripProofs`** - from `StripAssumption`: `NoneUndone` (`NoLateCommand`), `ReadBackIsReal` (`ConfirmedWasReal`), `StripTyped`.  The invariant
of the first adds that `_session_lock` is held by the one actor inside it (`HolderBusy`) and that a thread which
no longer waits has no coroutine waiting for the lock (`WaitsForThread`): whoever finishes holds the
lock, so every command given up before is idle.  That of the second is `DataInv`, whose
`Reports` says that after a PATCH's last write the strip, and every frame on its way, is a state the strip has had since, and
that once the queue was drained it holds only such frames: a read-back finds no older one.  The type invariant and `Reports` need each other,
because a frame that is taken has to be there.

**`TieredProxyProofs`** - from `TiersAssumption` (ascending positive costs, of which only the order matters): `TypeCorrect`, `SwitchesEarned` (`SwitchIsEarned`), `NoDetourEver` (`NoDetour`).
The invariant is `TypeOK /\ ConfigOK /\ OneRound /\ StreaksEarned /\ ChoiceReady`.  A switch is earned because a streak that is
positive was counted from a node that answered in the round saved last (`StreaksEarned`), which needs one round at a time (`OneRound`, the file lock): else a round
could count from streaks older than the last one saved.  There is no detour because the second call finds the tier pointing to the choice already
(`ChoiceReady`), unless sing-box was restarted.
A sing-box without tiers and one with them are different records; `BoxKinds` tells them apart.
That a tier has a member at all is the type invariant together with `ConfigOK` (a configuration that `finalize` has patched starts at one of its own nodes); the minima of the choice rest on
`SmallestExists`, from the well-foundedness of the naturals.

**`ModemWifiProofs`** - from `ModemAssumption`: `TypeCorrect`, `PostsOnce` (`CarriedOutOnce`), `ConfirmationTrue`
(`ConfirmedHolds`), `SlotsOnce` (`DoneOnce`).  The invariant adds `LockHeld` (one command, or one request, is past the file lock) and `SentOnce` (a request that was carried out has its
answer, or will not be sent again).

**`CampusMultiwanProofs`** - from `CampusAssumption` (at least one secondary line, as `service.py:61` demands):
`NeverBorrows` (`NoBorrow`) and `CampusTyped`.  `NoBorrow` is about a lookup; what is inductive is `Served`: while udhcpc serves a
line, the line has its interface and the rule of its mark, and its table has a default or an unreachable
route unless a hook is at work in it or was killed there.  Every step that takes interface or rule
away (`CleanedUp`) stops udhcpc as well, and udhcpc starts only after `setup_line` has put them there.

Only model-checked: liveness (temporal reasoning under fairness and `ENABLED` are out of the provers' reach here), that is
`NobodyLeftWaiting`, `HandOverSettles`, `PauseIsRepaired`, `ShownCatchesUp`, `EveryOperationAnswered`,
`CacheConverges`, `WindowRecovers`, `WorkersEnd`, `SnapshotCatchesUp`, `Settles`, `SlotSettles`, `LinesSettle` and `PoliciesSettle`; and the
four refuted properties of the [findings](#findings).

## Assumptions

- The event loop runs one coroutine between two awaits; `asyncio.Lock` is first in,
  first out.
- A dead sidecar's link goes down.  The fan accepts one central at a time, and
  all BlueZ clients of the router share the adapter's link to it.
- A charger carries out what is delivered, answers in order, numbers its frames one by one, and may answer late; it
  does not invent replies.
- The two fan processes share one clock and configuration, and a window is longer than one
  poll of the supervisor.
- The strip's frames and write responses arrive in order on a link; a write that raised may have
  been carried out.
- The MIoT library may send a toggle again when its reply is lost.
- sing-box starts from the generated file.  Whether a selection in its cache file goes before the default that the
  file names is left open, anew at each start.  Also left open is whether HomeProxy restarts sing-box after its generator
  failed.  What the native generator writes has a main-out that is no selector, and no controller.
- The campus portal's `is_online` may raise, once or for good.
- `flock` is released when its process dies; the modem carries a request out at most once per transmission.
- Times are not modelled.  A timeout may occur whenever its wait is in progress; only the orderings
  it allows matter to the properties.

## What is not modelled

Of the modelled components: charger operations other than port switching, the poll of stale
ports, protocol switches; the login handshake of a session and its ciphers; W96D values other than on and off and its telemetry
tier; the fan's plain writes other than its power switch; start and shutdown of the strip's poll
and the lock a GET of the strip waits for; changes of the
enabled flags of the tiers; the access rules of the modem's proxy; the portal login, the forward rule of the firewall and a manual `cleanup` of the
campus lines; the text that the network tools generate.

Not at all: the sensor store, the Steam CDN health check, the phone's Bluetooth client, start and stop of
the BLE runtime; they are in the plan.  Left out for good, because they keep no state that two actors share or are a single device call under a lock: parsing and
formatting of payloads, HTTP routing and the desk lamp, the screens, the probe's command line, the parked night node,
the byte relay of the SSH tunnel, installation and build files.

## Plan

The modules above are done.  What is left, in order of what a defect would cost:

| | module | about | properties |
|---|---|---|---|
| 1 | `SensorStore` | advertisements and external reports of one sensor | age belongs to the measurement, not to its last repetition; alternating repeats |
| 2 | `SteamCdnHealth` | admission and publication with crashes | two successes admit, one failure removes, also across a crash |
| 3 | `W96dPhone` | operation queue of the phone's client | a late callback completes nothing else |

Compositions: `W96dOwnership` abstracts the gate to waits that end, which `GattGate`'s
liveness justifies; `LightStrip` abstracts it in the same way.  `ChargerCommands` takes the frames of a session in order, which
`ChargerSession` justifies (`NewestLast`).
`ChargerCommands` and `GattGate` meet in the worker's session and stay apart because the
gate is held during setup only and commands run after it.

Abstract specifications still worth stating: the cache of the W96D (a PATCH is one step, as `PortSwitches`
has it for the charger), a schedule that carries out each slot once for `ModemWifi`, and the published CDN pool.

Theorems to come: the refinements of these, and the safety properties of the three modules above.
