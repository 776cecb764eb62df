------------------------------ MODULE GattGate ------------------------------
(***************************************************************************)
(* The GATT setup gate of the router's BLE runtime                         *)
(* (router/lanmihome_coordinated.py): one asyncio.Lock that the charger    *)
(* workers, the HTTP lease holders (the W96D sidecar) and the SP651E       *)
(* driver take before they disturb the shared Bluetooth adapter, together  *)
(* with the pause and resume of the advertisement scanner around it.       *)
(*                                                                         *)
(* All of it runs on one event loop: an action is what happens between two *)
(* awaits.  A process is                                                   *)
(*   - a charger: the worker task of one CuktechController,                *)
(*   - a lease: one POST .../gatt/acquire and the lease it creates,        *)
(*   - a strip: the SP651E driver, which takes the same kind of lease from *)
(*     inside the loop, under a timeout that cancels the acquisition.      *)
(***************************************************************************)
EXTENDS Naturals, Sequences, SequencesExt

CONSTANTS
    Chargers,
    Leases,
    Strips,
    NoProc,           \* no process: the token or owner is None
    Lost,             \* the holder of a gate that nobody is left to release
    InitialPorts,     \* port reads a charger makes before it lets the gate go
    ScannerReports    \* does the scanner object have an is_scanning attribute?

External == Leases \cup Strips
Procs == Chargers \cup External

ASSUME GattGateAssumption ==
    /\ Chargers \cap External = {}
    /\ Leases \cap Strips = {}
    /\ NoProc \notin Procs
    /\ Lost \notin Procs
    /\ NoProc # Lost
    /\ InitialPorts \in Nat \ {0}
    /\ ScannerReports \in BOOLEAN

VARIABLES
    locked,         \* _gatt_gate.locked()
    waiters,        \* the FIFO of tasks suspended in _gatt_gate.acquire()
    pc,             \* where each process is
    restart,        \* its restart_scan flag: it stopped the scanner itself
    cause,          \* charger: why it is releasing the gate
    ports,          \* charger: _btcoord_initial_ports
    internalOwner,  \* _gatt_internal_owner
    token,          \* _gatt_external_token, named by the lease it belongs to
    caller,         \* lease: what the party that asked for it is doing
    scanning,       \* the scanner is running
    scanPaused,     \* _gatt_scan_paused
    seen,           \* chargers advertised within the last 15 s (_btcoord_seen)
    aborting        \* the charger manager's TaskGroup is cancelling its workers

gateVars == <<locked, waiters>>
scanVars == <<scanning, scanPaused>>
vars == <<locked, waiters, pc, restart, cause, ports, internalOwner, token,
          caller, scanning, scanPaused, seen, aborting>>

Setup == {"connecting", "authenticating", "polling"}
ChargerPC == {"idle", "queued", "pausing", "resuming", "online", "dead"} \cup Setup
ExternalPC == {"idle", "queued", "pausing", "leased", "resuming"}

TypeOK ==
    /\ locked \in BOOLEAN
    /\ waiters \in Seq(Procs)
    /\ pc \in [Procs -> ChargerPC \cup ExternalPC]
    /\ \A c \in Chargers : pc[c] \in ChargerPC
    /\ \A e \in External : pc[e] \in ExternalPC
    /\ restart \in [Procs -> BOOLEAN]
    /\ cause \in [Chargers -> {"polled", "failed", "disconnect"}]
    /\ ports \in [Chargers -> 0..InitialPorts]
    /\ internalOwner \in Chargers \cup {NoProc}
    /\ token \in External \cup {NoProc}
    /\ caller \in [External -> {"none", "waiting", "using", "stale"}]
    /\ scanning \in BOOLEAN
    /\ scanPaused \in BOOLEAN
    /\ seen \in SUBSET Chargers
    /\ aborting \in BOOLEAN

\* The runtime after _main has started the scanner.
Init ==
    /\ locked = FALSE
    /\ waiters = <<>>
    /\ pc = [p \in Procs |-> "idle"]
    /\ restart = [p \in Procs |-> FALSE]
    /\ cause = [c \in Chargers |-> "failed"]
    /\ ports = [c \in Chargers |-> 0]
    /\ internalOwner = NoProc
    /\ token = NoProc
    /\ caller = [e \in External |-> "none"]
    /\ scanning = TRUE
    /\ scanPaused = FALSE
    /\ seen = {}
    /\ aborting = FALSE

(***************************************************************************)
(* The lock and the scanner                                                *)
(***************************************************************************)

\* The gate is in p's hands: from the grant until the release in its finally.
Holds(p) == pc[p] \in {"pausing", "leased", "resuming"} \cup Setup

\* acquire(): an asyncio.Lock serves its waiters in order.
Enqueue_LastComeFirstServed(p) ==
    /\ pc' = [pc EXCEPT ![p] = "queued"]
    /\ waiters' = <<p>> \o waiters
    /\ UNCHANGED locked

Enqueue(p) ==
    /\ pc' = [pc EXCEPT ![p] = "queued"]
    /\ waiters' = Append(waiters, p)
    /\ UNCHANGED locked

Dequeue(p) ==
    /\ pc[p] = "queued"
    /\ ~locked
    /\ waiters # <<>>
    /\ Head(waiters) = p
    /\ locked' = TRUE
    /\ waiters' = Tail(waiters)

\* A task cancelled inside acquire() takes its future out of the queue.
LeaveQueue(p) ==
    /\ pc[p] = "queued"
    /\ \E i \in DOMAIN waiters :
          /\ waiters[i] = p
          /\ waiters' = RemoveAt(waiters, i)
    /\ UNCHANGED locked

\* if lock.locked(): lock.release()
Unlock ==
    /\ locked' = FALSE
    /\ UNCHANGED waiters

ScannerRunning == ~scanPaused /\ (ScannerReports => scanning)

\* _pause_scan has nothing to wait for: either the scanner does not run, or
\* it is reported as running but stop() finds nothing to stop.
PauseAtOnce(p) ==
    /\ ~(ScannerRunning /\ scanning)
    /\ restart' = [restart EXCEPT ![p] = ScannerRunning]
    /\ scanPaused' = (scanPaused \/ ScannerRunning)
    /\ UNCHANGED scanning

\* _pause_scan suspends in scanner.stop() ...
PauseBegins(p) ==
    /\ ScannerRunning /\ scanning
    /\ pc' = [pc EXCEPT ![p] = "pausing"]
    /\ UNCHANGED <<restart, scanVars>>

\* ... and marks the scanner as paused when it returns.
PauseEnds(p) ==
    /\ pc[p] = "pausing"
    /\ restart' = [restart EXCEPT ![p] = TRUE]
    /\ scanning' = FALSE
    /\ scanPaused' = TRUE

(***************************************************************************)
(* Releasing, common to chargers and leases.  The release functions clear  *)
(* the owner fields first, then await _resume_scan, then free the lock in  *)
(* a finally.  Without a scanner to restart nothing is awaited.            *)
(***************************************************************************)
ReleaseBegins(p) ==
    /\ restart[p]
    /\ pc' = [pc EXCEPT ![p] = "resuming"]
    /\ UNCHANGED <<gateVars, restart, scanVars>>

ReleaseAtOnce(p, where) ==
    /\ ~restart[p]
    /\ pc' = [pc EXCEPT ![p] = where]
    /\ Unlock
    /\ UNCHANGED <<restart, scanVars>>

ResumeEnds_NoFinally(p, on) ==
    /\ pc[p] = "resuming"
    /\ scanning' = on
    /\ scanPaused' = FALSE
    /\ restart' = [restart EXCEPT ![p] = FALSE]
    /\ locked' = ~on
    /\ UNCHANGED waiters

\* scanner.start() returned (on) or raised; the finally blocks run either way.
ResumeEnds(p, on) ==
    /\ pc[p] = "resuming"
    /\ scanning' = on
    /\ scanPaused' = FALSE
    /\ restart' = [restart EXCEPT ![p] = FALSE]
    /\ Unlock

(***************************************************************************)
(* Chargers                                                                *)
(***************************************************************************)

\* An advertisement of the charger reaches _on_detect.
Advertised(c) ==
    /\ scanning
    /\ c \notin seen
    /\ seen' = seen \cup {c}
    /\ UNCHANGED <<gateVars, pc, restart, cause, ports, internalOwner, token,
                   caller, scanVars, aborting>>

\* 15 s without an advertisement.
SeenExpires(c) ==
    /\ c \in seen
    /\ seen' = seen \ {c}
    /\ UNCHANGED <<gateVars, pc, restart, cause, ports, internalOwner, token,
                   caller, scanVars, aborting>>

\* The manager's workers connect and authenticate under one lock of their own
\* (_setup_lock), which a worker leaves before its disconnect().
InManagerSetup(c) ==
    \/ pc[c] \in {"queued", "pausing", "connecting", "authenticating"}
    \/ pc[c] = "resuming" /\ cause[c] = "failed"

\* connect() up to the gate: a charger not seen recently raises instead.
ChargerConnect(c) ==
    /\ ~aborting
    /\ pc[c] = "idle"
    /\ \A d \in Chargers : ~InManagerSetup(d)
    /\ c \in seen
    /\ Enqueue(c)
    /\ UNCHANGED <<restart, cause, ports, internalOwner, token, caller,
                   scanVars, seen, aborting>>

ChargerGranted(c) ==
    /\ ~aborting
    /\ Dequeue(c)
    /\ internalOwner' = c
    /\ \/ /\ PauseAtOnce(c)
          /\ pc' = [pc EXCEPT ![c] = "connecting"]
          /\ ports' = [ports EXCEPT ![c] = InitialPorts]
       \/ /\ PauseBegins(c)
          /\ UNCHANGED ports
    /\ UNCHANGED <<cause, token, caller, seen, aborting>>

ChargerPaused(c) ==
    /\ ~aborting
    /\ PauseEnds(c)
    /\ pc' = [pc EXCEPT ![c] = "connecting"]
    /\ ports' = [ports EXCEPT ![c] = InitialPorts]
    /\ UNCHANGED <<gateVars, cause, internalOwner, token, caller, seen, aborting>>

\* scanner.stop() raised before the setup is marked as held.
ChargerPauseFails(c) ==
    /\ ~aborting
    /\ pc[c] = "pausing"
    /\ pc' = [pc EXCEPT ![c] = "idle"]
    /\ internalOwner' = NoProc
    /\ scanning' \in BOOLEAN
    /\ Unlock
    /\ UNCHANGED <<restart, cause, ports, token, caller, scanPaused, seen, aborting>>

\* connect() or authenticate() of the device succeeded.
ChargerSetupStep(c) ==
    /\ ~aborting
    /\ \/ /\ pc[c] = "connecting"
          /\ pc' = [pc EXCEPT ![c] = "authenticating"]
       \/ /\ pc[c] = "authenticating"
          /\ pc' = [pc EXCEPT ![c] = "polling"]
    /\ UNCHANGED <<gateVars, restart, cause, ports, internalOwner, token,
                   caller, scanVars, seen, aborting>>

\* _release_cuktech_setup, reached for reason r; where the worker goes if
\* there is no scan to resume.
ReleaseSetup(c, r, where) ==
    /\ cause' = [cause EXCEPT ![c] = r]
    /\ ports' = [ports EXCEPT ![c] = 0]
    /\ internalOwner' = NoProc
    /\ ReleaseBegins(c) \/ ReleaseAtOnce(c, where)
    /\ UNCHANGED <<token, caller, seen>>

ChargerPoll_OneShort(c) ==
    /\ ~aborting
    /\ pc[c] = "polling"
    /\ \/ /\ ports[c] > 2
          /\ ports' = [ports EXCEPT ![c] = ports[c] - 1]
          /\ UNCHANGED <<gateVars, pc, restart, cause, internalOwner, token,
                         caller, scanVars, seen>>
       \/ /\ ports[c] <= 2
          /\ ReleaseSetup(c, "polled", "online")
    /\ UNCHANGED aborting

\* A port was read during the initial snapshot; the last one frees the gate.
ChargerPoll(c) ==
    /\ ~aborting
    /\ pc[c] = "polling"
    /\ \/ /\ ports[c] > 1
          /\ ports' = [ports EXCEPT ![c] = ports[c] - 1]
          /\ UNCHANGED <<gateVars, pc, restart, cause, internalOwner, token,
                         caller, scanVars, seen>>
       \/ /\ ports[c] <= 1
          /\ ReleaseSetup(c, "polled", "online")
    /\ UNCHANGED aborting

\* connect() or authenticate() raised: the patched method releases the gate.
ChargerSetupFails(c) ==
    /\ ~aborting
    /\ pc[c] \in {"connecting", "authenticating"}
    /\ ReleaseSetup(c, "failed", "idle")
    /\ UNCHANGED aborting

\* A read failed or the link closed during the initial snapshot: nothing
\* releases the gate until the worker's finally calls disconnect().
ChargerPollFails(c) ==
    /\ ~aborting
    /\ pc[c] = "polling"
    /\ ReleaseSetup(c, "disconnect", "idle")
    /\ UNCHANGED aborting

\* The scanner is back.
ChargerResumed(c) ==
    /\ ~aborting
    /\ ResumeEnds(c, TRUE)
    /\ pc' = [pc EXCEPT ![c] = IF cause[c] = "polled" THEN "online" ELSE "idle"]
    /\ UNCHANGED <<cause, ports, internalOwner, token, caller, seen, aborting>>

\* scanner.start() raised.  The worker's except clause turns the error into
\* "offline" unless it comes out of the disconnect() in its finally: then the
\* worker task fails and its TaskGroup cancels every other worker.
ChargerResumeFails(c) ==
    /\ ~aborting
    /\ ResumeEnds(c, FALSE)
    /\ pc' = [pc EXCEPT ![c] = IF cause[c] = "disconnect" THEN "dead" ELSE "idle"]
    /\ aborting' = (cause[c] = "disconnect")
    /\ UNCHANGED <<cause, ports, internalOwner, token, caller, seen>>

\* A session that is past its setup ends; it holds no gate.
ChargerOffline(c) ==
    /\ ~aborting
    /\ pc[c] = "online"
    /\ pc' = [pc EXCEPT ![c] = "idle"]
    /\ UNCHANGED <<gateVars, restart, cause, ports, internalOwner, token,
                   caller, scanVars, seen, aborting>>

\* The TaskGroup cancels a worker wherever it is.  The except clauses of the
\* patched methods do not see a CancelledError; only disconnect() in the
\* worker's finally does, and it releases what is marked as held.
CancelledOffGate(c) ==
    /\ pc[c] \in {"idle", "online"}
    /\ pc' = [pc EXCEPT ![c] = "dead"]
    /\ UNCHANGED <<gateVars, restart, cause, ports, internalOwner, scanVars,
                   token, caller, seen>>

CancelledQueued(c) ==
    /\ LeaveQueue(c)
    /\ pc' = [pc EXCEPT ![c] = "dead"]
    /\ UNCHANGED <<restart, cause, ports, internalOwner, scanVars, token, caller,
                   seen>>

\* Not marked as held yet: nothing gives the lock back.
CancelledPausing(c) ==
    /\ pc[c] = "pausing"
    /\ pc' = [pc EXCEPT ![c] = "dead"]
    /\ scanning' \in BOOLEAN
    /\ UNCHANGED <<gateVars, restart, cause, ports, internalOwner, scanPaused,
                   token, caller, seen>>

CancelledInSetup(c) ==
    /\ pc[c] \in Setup
    /\ ReleaseSetup(c, "disconnect", "dead")

CancelledResuming(c) ==
    /\ \E on \in BOOLEAN : ResumeEnds(c, on)
    /\ pc' = [pc EXCEPT ![c] = "dead"]
    /\ UNCHANGED <<cause, ports, internalOwner, token, caller, seen>>

ChargerCancelled(c) ==
    /\ aborting
    /\ \/ CancelledOffGate(c) \/ CancelledQueued(c) \/ CancelledPausing(c)
       \/ CancelledInSetup(c) \/ CancelledResuming(c)
    /\ UNCHANGED aborting

(***************************************************************************)
(* Leases                                                                  *)
(***************************************************************************)

LeaseRequested(e) ==
    /\ pc[e] = "idle"
    /\ caller[e] = "none"
    /\ Enqueue(e)
    /\ caller' = [caller EXCEPT ![e] = "waiting"]
    /\ UNCHANGED <<restart, cause, ports, internalOwner, token, scanVars, seen,
                   aborting>>

\* A fresh token is published and its watchdog starts.  The strip reads the
\* token in the same task; an HTTP caller still has to receive it.
Publish(e) ==
    /\ token' = e
    /\ pc' = [pc EXCEPT ![e] = "leased"]
    /\ caller' = [caller EXCEPT ![e] = IF e \in Strips THEN "using" ELSE @]

\* An HTTP caller chooses whether its lease pauses the scan; the strip pauses.
LeaseGranted(e) ==
    /\ Dequeue(e)
    /\ \/ /\ e \in Leases
          /\ Publish(e)
          /\ UNCHANGED <<restart, scanVars>>
       \/ /\ PauseAtOnce(e)
          /\ Publish(e)
       \/ /\ PauseBegins(e)
          /\ UNCHANGED <<token, caller>>
    /\ UNCHANGED <<cause, ports, internalOwner, seen, aborting>>

LeasePaused(e) ==
    /\ PauseEnds(e)
    /\ Publish(e)
    /\ UNCHANGED <<gateVars, cause, ports, internalOwner, seen, aborting>>

\* scanner.stop() raised; the caller gets the error.
LeasePauseFails(e) ==
    /\ pc[e] = "pausing"
    /\ pc' = [pc EXCEPT ![e] = "idle"]
    /\ caller' = [caller EXCEPT ![e] = "none"]
    /\ scanning' \in BOOLEAN
    /\ Unlock
    /\ UNCHANGED <<restart, cause, ports, internalOwner, token, scanPaused, seen,
                   aborting>>

\* The HTTP caller receives the token, perhaps after the lease has expired.
LeaseAnswered(e) ==
    /\ e \in Leases
    /\ caller[e] = "waiting"
    /\ pc[e] \notin {"queued", "pausing"}
    /\ caller' = [caller EXCEPT ![e] = IF pc[e] = "leased" THEN "using" ELSE "stale"]
    /\ UNCHANGED <<gateVars, pc, restart, cause, ports, internalOwner, token,
                   scanVars, seen, aborting>>

\* The HTTP caller times out, dies, or loses its release request.  Nothing
\* cancels the acquisition it started.
CallerGone(e) ==
    /\ e \in Leases
    /\ caller[e] \in {"waiting", "using"}
    /\ caller' = [caller EXCEPT ![e] = "none"]
    /\ UNCHANGED <<gateVars, pc, restart, cause, ports, internalOwner, token,
                   scanVars, seen, aborting>>

\* _release_external with the current token.
ReleaseLease(e) ==
    /\ token = e
    /\ token' = NoProc
    /\ ReleaseBegins(e) \/ ReleaseAtOnce(e, "idle")
    /\ UNCHANGED <<cause, ports, internalOwner, seen, aborting>>

LeaseReleased(e) ==
    /\ caller[e] = "using"
    /\ ReleaseLease(e)
    /\ caller' = [caller EXCEPT ![e] = "none"]

LeaseExpires_OnlyWhileUsed(e) ==
    /\ caller[e] = "using"
    /\ ReleaseLease(e)
    /\ caller' = [caller EXCEPT ![e] = "stale"]

\* The watchdog's sleep ends.  A caller at work does not hear of it.
LeaseExpires(e) ==
    /\ ReleaseLease(e)
    /\ caller' = [caller EXCEPT ![e] = IF @ = "using" THEN "stale" ELSE @]

LeaseResumed(e) ==
    /\ \E on \in BOOLEAN : ResumeEnds(e, on)
    /\ pc' = [pc EXCEPT ![e] = "idle"]
    /\ UNCHANGED <<cause, ports, internalOwner, token, caller, seen, aborting>>

ReleaseRefused_UnlocksAnyway(e) ==
    /\ caller[e] = "stale"
    /\ caller' = [caller EXCEPT ![e] = "none"]
    /\ Unlock
    /\ UNCHANGED <<pc, restart, cause, ports, internalOwner, token, scanVars,
                   seen, aborting>>

\* A release with a token that is not the current one raises ValueError.
ReleaseRefused(e) ==
    /\ caller[e] = "stale"
    /\ token # e
    /\ caller' = [caller EXCEPT ![e] = "none"]
    /\ UNCHANGED <<gateVars, pc, restart, cause, ports, internalOwner, token,
                   scanVars, seen, aborting>>

\* wait_for(self.acquire(), 9), or the 14 s limit of the whole operation,
\* cancels the acquisition.  Its except Exception clause does not see that:
\* once the lock is granted, nobody gives it back.
StripCancelled(s) ==
    /\ s \in Strips
    /\ \/ /\ LeaveQueue(s)
          /\ UNCHANGED scanning
       \/ /\ pc[s] = "pausing"
          /\ scanning' \in BOOLEAN
          /\ UNCHANGED gateVars
    /\ pc' = [pc EXCEPT ![s] = "idle"]
    /\ caller' = [caller EXCEPT ![s] = "none"]
    /\ UNCHANGED <<restart, cause, ports, internalOwner, token, scanPaused, seen,
                   aborting>>

ChargerNext(c) ==
    \/ Advertised(c) \/ SeenExpires(c)
    \/ ChargerConnect(c) \/ ChargerGranted(c) \/ ChargerPaused(c)
    \/ ChargerPauseFails(c) \/ ChargerSetupStep(c) \/ ChargerPoll(c)
    \/ ChargerSetupFails(c) \/ ChargerPollFails(c) \/ ChargerResumed(c)
    \/ ChargerResumeFails(c) \/ ChargerOffline(c) \/ ChargerCancelled(c)

LeaseNext(e) ==
    \/ LeaseRequested(e) \/ LeaseGranted(e) \/ LeasePaused(e) \/ LeasePauseFails(e)
    \/ LeaseAnswered(e) \/ CallerGone(e) \/ LeaseReleased(e) \/ LeaseExpires(e)
    \/ LeaseResumed(e) \/ ReleaseRefused(e) \/ StripCancelled(e)

Next ==
    \/ \E c \in Chargers : ChargerNext(c)
    \/ \E e \in External : LeaseNext(e)

Spec == Init /\ [][Next]_vars

\* The event loop runs ready tasks; every Bluetooth call and every sleep of
\* the watchdog ends.  Nobody has to ask for the gate, no caller has to
\* release its lease, and no advertisement has to arrive.
ChargerProgress(c) ==
    \/ ChargerGranted(c) \/ ChargerPaused(c) \/ ChargerPauseFails(c)
    \/ ChargerSetupStep(c) \/ ChargerPoll(c) \/ ChargerSetupFails(c)
    \/ ChargerPollFails(c) \/ ChargerResumed(c) \/ ChargerResumeFails(c)
    \/ ChargerCancelled(c)

LeaseProgress(e) ==
    \/ LeaseGranted(e) \/ LeasePaused(e) \/ LeasePauseFails(e) \/ LeaseExpires(e)
    \/ LeaseResumed(e)

Fairness ==
    /\ \A c \in Chargers : WF_vars(ChargerProgress(c))
    /\ \A e \in External : WF_vars(LeaseProgress(e))

FairSpec == Spec /\ Fairness

(***************************************************************************)
(* Properties                                                              *)
(***************************************************************************)

\* Setup sections never overlap: from the grant of the gate to the release
\* in the finally, at most one charger or lease is between them, whatever is
\* cancelled, expires or fails ("Other GATT connections must not start while
\* a charger is still completing its post-auth initialization").
MutualExclusion == \A p, q \in Procs : Holds(p) /\ Holds(q) => p = q

\* Whoever is between grant and release has the lock locked: no release path
\* (token, watchdog, error handler, disconnect) frees a lock that has already
\* gone to somebody else.  asyncio.Lock would not notice.
HolderHasLock == \A p \in Procs : Holds(p) => locked

\* The published token is that of the lease in force, so the release of a
\* lease that is over is refused and cannot end its successor.
TokenIsCurrent == \A e \in External : (token = e) <=> (pc[e] = "leased")

\* A paused scan always has a holder of the gate that will restart it: the
\* pause flag, which makes every later holder skip the restart, does not
\* outlive the one that set it.
PausedScanHasOwner == scanPaused => \E p \in Procs : Holds(p) /\ restart[p]

\* Every suspended acquire() is in the queue once, and nobody else is.
QueueIsExact ==
    /\ \A i, j \in DOMAIN waiters : waiters[i] = waiters[j] => i = j
    /\ \A p \in Procs : pc[p] = "queued" <=> Contains(waiters, p)

\* A caller that works under a lease has it, unless its TTL ran out first.
LeaseFencing == \A e \in External : caller[e] = "using" => pc[e] = "leased"

\* A process marked as having stopped the scanner is past its pause and holds
\* the gate.
RestartWhileHolding ==
    \A p \in Procs : restart[p] => pc[p] \in {"leased", "resuming"} \cup Setup

\* The safety properties of the gate, inductive together with TypeOK.
GateInv ==
    /\ MutualExclusion
    /\ HolderHasLock
    /\ TokenIsCurrent
    /\ LeaseFencing
    /\ PausedScanHasOwner
    /\ RestartWhileHolding

\* All of it: what TLC checks on a small instance and the proofs for every one.
GateSafety == TypeOK /\ QueueIsExact /\ GateInv

\* A charger lets go of the gate on the way to its steady session only after
\* the whole initial snapshot, and a connect attempt starts with all of it to do.
SnapshotBeforeOnline ==
    [][\A c \in Chargers :
         /\ pc[c] # "online" /\ pc'[c] = "online" => ports'[c] = 0 /\ cause'[c] = "polled"
         /\ pc[c] = "polling" /\ pc'[c] # "polling" /\ cause'[c] = "polled" => ports[c] = 1]_vars

\* The gate as an abstract lock.
holder ==
    IF \E p \in Procs : Holds(p) THEN CHOOSE p \in Procs : Holds(p)
    ELSE IF locked THEN Lost ELSE NoProc

Abstract == INSTANCE FifoLock WITH queue <- waiters

\* The gate, with scanner, tokens, watchdogs and cancellations, is that lock.
ImplementsFifoLock == Abstract!LockSpec

\* "The setup lock is held only while a connection is made and subscribed":
\* a locked gate has somebody who will release it.
NoOrphanedGate == locked => \E p \in Procs : Holds(p)

\* The gate is orphaned in one way only: a cancellation that hits a holder in
\* the await of scanner.stop(), before it is marked as held.  No error of the
\* scanner or of a device, no expiry and no lost caller leaves it locked.
OnlyCancellationOrphans ==
    [][NoOrphanedGate /\ ~NoOrphanedGate' =>
         \/ \E s \in Strips : pc[s] = "pausing" /\ pc'[s] = "idle"
         \/ \E c \in Chargers : pc[c] = "pausing" /\ pc'[c] = "dead" /\ aborting]_vars

\* Every task that asks for the gate gets its answer, a lease ends even if its
\* caller never comes back, and the scan is not left paused: in spite of failed
\* scanner calls, expiries and cancellations, unless the gate was orphaned
\* (which NoOrphanedGate is about).
EveryRequestServed == \A p \in Procs : pc[p] = "queued" ~> pc[p] # "queued" \/ ~NoOrphanedGate
EveryLeaseEnds == \A e \in External : pc[e] = "leased" ~> pc[e] # "leased"
ScanResumes == scanPaused ~> ~scanPaused

\* All three, for every charger, lease and strip.
NobodyLeftWaiting == EveryRequestServed /\ EveryLeaseEnds /\ ScanResumes
=============================================================================
