---------------------------- MODULE FanRecovery ----------------------------
(***************************************************************************)
(* Bringing the MIoT fan back after the mains return in the morning:       *)
(* RecoveryController's worker thread and FanAdapter's read-toggle-verify  *)
(* (router/lanmihome.py), PATCH requests that switch the same fan, and the *)
(* supervisor process that watches the clock and triggers the worker over  *)
(* HTTP (router/recovery_supervisor.py).  The fan can only be toggled.     *)
(***************************************************************************)
EXTENDS Naturals

CONSTANTS
    Users,             \* PATCH requests, each with one target
    MaxWindows,        \* bound on recovery windows (days)
    MaxDisturbances    \* bound on everything under \E below that goes wrong

Worker == "recovery"

ASSUME RecoveryAssumption ==
    /\ Worker \notin Users /\ "none" \notin Users
    /\ MaxWindows \in Nat \ {0}
    /\ MaxDisturbances \in Nat

VARIABLES
    window, inside, ready,             \* the clock
    power, online,                     \* the fan
    holder,                            \* whose thread holds FanAdapter.lock
    pc,                                \* per thread
    target,                            \* what each thread wants
    active, success, reason, forced,   \* RecoveryController
    sup, seen, completed, triggered,   \* the supervisor
    fresh,         \* threads whose reading nothing else has outdated (history)
    confirmedIn,   \* the last window in which the worker confirmed (history)
    disturbances

clock == <<window, inside, ready>>
fan == <<power, online>>
threads == <<holder, pc, target>>
recovery == <<active, success, reason, forced>>
supervisor == <<sup, seen, completed, triggered>>
history == <<fresh, confirmedIn>>
vars == <<clock, fan, threads, recovery, supervisor, history, disturbances>>

Threads == Users \cup {Worker}
Windows == 0..MaxWindows
Holding == {"read", "toggle", "verify"}
WorkerSteps == {"idle", "top", "wait", "sleep", "confirm", "ending"} \cup Holding
RequestSteps == {"idle", "wait", "ok", "failed"} \cup Holding
Snapshots == [active : BOOLEAN, confirmed : BOOLEAN]

TypeOK ==
    /\ window \in Windows
    /\ inside \in BOOLEAN
    /\ ready \in BOOLEAN
    /\ power \in BOOLEAN
    /\ online \in BOOLEAN
    /\ holder \in Threads \cup {"none"}
    /\ pc \in [Threads -> WorkerSteps \cup RequestSteps]
    /\ pc[Worker] \in WorkerSteps
    /\ \A u \in Users : pc[u] \in RequestSteps
    /\ target \in [Threads -> BOOLEAN]
    /\ active \in BOOLEAN
    /\ success \in BOOLEAN
    /\ reason \in {"none", "started", "outside-window", "confirmed-on", "timeout", "window-ended"}
    /\ forced \in BOOLEAN
    /\ sup \in {"sleep", "answered"}
    /\ seen \in Snapshots
    /\ completed \in Windows
    /\ triggered \in Windows
    /\ fresh \subseteq Threads
    /\ confirmedIn \in Windows
    /\ disturbances \in 0..MaxDisturbances

\* The router boots in a window or out of one; maybe_start runs in it.  Key 0
\* stands for None.
Init ==
    /\ inside \in BOOLEAN
    /\ window = IF inside THEN 1 ELSE 0
    /\ ready \in BOOLEAN
    /\ power \in BOOLEAN
    /\ online \in BOOLEAN
    /\ holder = "none"
    /\ pc = [t \in Threads |-> IF t = Worker /\ inside THEN "top" ELSE "idle"]
    /\ target = [t \in Threads |-> TRUE]
    /\ active = inside
    /\ success = FALSE
    /\ reason = IF inside THEN "started" ELSE "none"
    /\ forced = FALSE
    /\ sup = "sleep"
    /\ seen = [active |-> FALSE, confirmed |-> FALSE]
    /\ completed = 0
    /\ triggered = 0
    /\ fresh = {}
    /\ confirmedIn = 0
    /\ disturbances = 0

Disturbed == disturbances < MaxDisturbances /\ disturbances' = disturbances + 1

(***************************************************************************)
(* The clock and the fan                                                   *)
(***************************************************************************)
\* A day later no request of the supervisor's is under way, and no worker but
\* one that was forced just now.
WindowOpens ==
    /\ ~inside
    /\ sup = "sleep"
    /\ active => forced
    /\ window < MaxWindows
    /\ window' = window + 1
    /\ inside' = TRUE
    /\ UNCHANGED <<ready, fan, threads, recovery, supervisor, history, disturbances>>

WindowCloses ==
    /\ inside
    /\ inside' = FALSE
    /\ UNCHANGED <<window, ready, fan, threads, recovery, supervisor, history, disturbances>>

\* NTP: the year is no longer below clock_min_year.
ClockSet ==
    /\ ~ready
    /\ ready' = TRUE
    /\ UNCHANGED <<window, inside, fan, threads, recovery, supervisor, history, disturbances>>

\* The fan's own button, or its remote control.
ButtonPressed ==
    /\ Disturbed
    /\ online
    /\ power' = ~power
    /\ fresh' = {}
    /\ UNCHANGED <<clock, online, threads, recovery, supervisor, confirmedIn>>

MainsLost ==
    /\ Disturbed
    /\ online
    /\ online' = FALSE
    /\ power' = FALSE
    /\ fresh' = {}
    /\ UNCHANGED <<clock, threads, recovery, supervisor, confirmedIn>>

MainsReturn ==
    /\ ~online
    /\ online' = TRUE
    /\ UNCHANGED <<clock, power, threads, recovery, supervisor, history, disturbances>>

(***************************************************************************)
(* RecoveryController.start, and FanAdapter for both kinds of callers      *)
(***************************************************************************)
\* Nothing happens to a running worker; outside the window only a forced one
\* starts.
StartEffect(force) ==
    IF active THEN UNCHANGED <<pc, recovery>>
    ELSE IF ~force /\ ~inside
    THEN reason' = "outside-window" /\ UNCHANGED <<pc, active, success, forced>>
    ELSE /\ active' = TRUE
         /\ success' = FALSE
         /\ reason' = "started"
         /\ forced' = force
         /\ pc' = [pc EXCEPT ![Worker] = "top"]

ForcedRequest ==
    /\ Disturbed
    /\ StartEffect(TRUE)
    /\ UNCHANGED <<clock, fan, holder, target, supervisor, history>>

Patch(u, on) ==
    /\ pc[u] = "idle"
    /\ pc' = [pc EXCEPT ![u] = "wait"]
    /\ target' = [target EXCEPT ![u] = on]
    /\ UNCHANGED <<clock, fan, holder, recovery, supervisor, history, disturbances>>

\* Leaving the `with self.lock` block.
Leaves(t, step) ==
    /\ holder' = "none"
    /\ pc' = [pc EXCEPT ![t] = step]

Goes(t, step) ==
    /\ pc' = [pc EXCEPT ![t] = step]
    /\ UNCHANGED holder

Fails(t) == Leaves(t, IF t = Worker THEN "sleep" ELSE "failed")

TakeLock_NoLock(t) ==
    /\ pc[t] = "wait"
    /\ holder' = t
    /\ pc' = [pc EXCEPT ![t] = "read"]
    /\ UNCHANGED <<clock, fan, target, recovery, supervisor, history, disturbances>>

TakeLock(t) ==
    /\ pc[t] = "wait"
    /\ holder = "none"
    /\ holder' = t
    /\ pc' = [pc EXCEPT ![t] = "read"]
    /\ UNCHANGED <<clock, fan, target, recovery, supervisor, history, disturbances>>

\* Without a toggle ensure_power reads once more; patch does not.
ReadPower(t) ==
    /\ pc[t] = "read"
    /\ online
    /\ fresh' = fresh \cup {t}
    /\ IF power # target[t] THEN Goes(t, "toggle")
       ELSE IF t = Worker THEN Goes(t, "verify") ELSE Leaves(t, "ok")
    /\ UNCHANGED <<clock, fan, target, recovery, supervisor, confirmedIn, disturbances>>

Toggle(t) ==
    /\ pc[t] = "toggle"
    /\ online
    /\ power' = ~power
    /\ Goes(t, "verify")
    /\ UNCHANGED <<clock, online, target, recovery, supervisor, history, disturbances>>

\* The reply is lost.  The fan has toggled or not, and the library may have
\* sent the command again.
ToggleLost(t) ==
    /\ pc[t] = "toggle"
    /\ Disturbed
    /\ power' \in (IF online THEN BOOLEAN ELSE {power})
    /\ Fails(t) \/ (online /\ Goes(t, "verify"))
    /\ UNCHANGED <<clock, online, target, recovery, supervisor, history>>

Verify(t) ==
    /\ pc[t] = "verify"
    /\ online
    /\ IF power = target[t] THEN Leaves(t, IF t = Worker THEN "confirm" ELSE "ok")
       ELSE Fails(t)
    /\ UNCHANGED <<clock, fan, target, recovery, supervisor, history, disturbances>>

\* A call raises: the fan is away, or one exchange failed.
CallFails(t) ==
    /\ pc[t] \in Holding
    /\ IF online THEN pc[t] # "toggle" /\ Disturbed ELSE UNCHANGED disturbances
    /\ Fails(t)
    /\ UNCHANGED <<clock, fan, target, recovery, supervisor, history>>

(***************************************************************************)
(* The worker, RecoveryController._run                                     *)
(***************************************************************************)
\* The forced worker's deadline passes at some time.
Attempt ==
    /\ pc[Worker] = "top"
    /\ forced \/ inside
    /\ Goes(Worker, "wait")
    /\ UNCHANGED <<clock, fan, target, recovery, supervisor, history, disturbances>>

GivesUp_OnlyForced ==
    /\ pc[Worker] = "top"
    /\ forced
    /\ Goes(Worker, "ending")
    /\ UNCHANGED <<clock, fan, target, recovery, supervisor, history, disturbances>>

GivesUp ==
    /\ pc[Worker] = "top"
    /\ forced \/ ~inside
    /\ Goes(Worker, "ending")
    /\ UNCHANGED <<clock, fan, target, recovery, supervisor, history, disturbances>>

Retries ==
    /\ pc[Worker] = "sleep"
    /\ Goes(Worker, "top")
    /\ UNCHANGED <<clock, fan, target, recovery, supervisor, history, disturbances>>

Confirms_ForgetsActive ==
    /\ pc[Worker] = "confirm"
    /\ success' = TRUE
    /\ reason' = "confirmed-on"
    /\ confirmedIn' = window
    /\ Goes(Worker, "idle")
    /\ UNCHANGED <<clock, fan, target, active, forced, supervisor, fresh, disturbances>>

Confirms ==
    /\ pc[Worker] = "confirm"
    /\ active' = FALSE
    /\ success' = TRUE
    /\ reason' = "confirmed-on"
    /\ confirmedIn' = window
    /\ Goes(Worker, "idle")
    /\ UNCHANGED <<clock, fan, target, forced, supervisor, fresh, disturbances>>

Ends ==
    /\ pc[Worker] = "ending"
    /\ active' = FALSE
    /\ reason' = IF forced THEN "timeout" ELSE "window-ended"
    /\ Goes(Worker, "idle")
    /\ UNCHANGED <<clock, fan, target, success, forced, supervisor, history, disturbances>>

\* A new process: its requests are gone, and maybe_start runs in a window.
BackendRestarts ==
    /\ Disturbed
    /\ holder' = "none"
    /\ pc' = [t \in Threads |->
                CASE t = Worker -> IF inside THEN "top" ELSE "idle"
                  [] t \in Users /\ pc[t] \in {"idle", "ok"} -> pc[t]
                  [] OTHER -> "failed"]
    /\ active' = inside
    /\ success' = FALSE
    /\ reason' = IF inside THEN "started" ELSE "none"
    /\ forced' = FALSE
    /\ UNCHANGED <<clock, fan, target, supervisor, history>>

(***************************************************************************)
(* The supervisor.  A failed request is a poll that did not happen, except *)
(* for a POST that was carried out and not answered.                       *)
(***************************************************************************)
Snapshot == [active |-> active, confirmed |-> success /\ reason = "confirmed-on"]
NoSnapshot == [active |-> FALSE, confirmed |-> FALSE]

Polls ==
    /\ sup = "sleep"
    /\ ready /\ inside
    /\ completed # window
    /\ sup' = "answered"
    /\ seen' = Snapshot
    /\ UNCHANGED <<clock, fan, threads, recovery, completed, triggered, history, disturbances>>

Decided == sup' = "sleep" /\ seen' = NoSnapshot

SeesConfirmed_Stale ==
    /\ sup = "answered"
    /\ seen.confirmed
    /\ completed' = window
    /\ Decided
    /\ UNCHANGED <<clock, fan, threads, recovery, triggered, history, disturbances>>

\* The key is of the window of the poll: a window outlasts a poll's requests.
SeesConfirmed ==
    /\ sup = "answered"
    /\ triggered = window /\ seen.confirmed
    /\ completed' = window
    /\ Decided
    /\ UNCHANGED <<clock, fan, threads, recovery, triggered, history, disturbances>>

SeesActive ==
    /\ sup = "answered"
    /\ ~(triggered = window /\ seen.confirmed)
    /\ seen.active
    /\ triggered' = window
    /\ Decided
    /\ UNCHANGED <<clock, fan, threads, recovery, completed, history, disturbances>>

Triggers ==
    /\ sup = "answered"
    /\ ~(triggered = window /\ seen.confirmed)
    /\ ~seen.active
    /\ \/ StartEffect(FALSE) /\ triggered' = window /\ UNCHANGED disturbances
       \/ Disturbed /\ StartEffect(FALSE) /\ UNCHANGED triggered
       \/ Disturbed /\ UNCHANGED <<pc, recovery, triggered>>
    /\ Decided
    /\ UNCHANGED <<clock, fan, holder, target, completed, history>>

SupervisorRestarts ==
    /\ Disturbed
    /\ completed' = 0
    /\ triggered' = 0
    /\ Decided
    /\ UNCHANGED <<clock, fan, threads, recovery, history>>

FanStep(t) == TakeLock(t) \/ ReadPower(t) \/ Toggle(t) \/ Verify(t) \/ CallFails(t)
WorkerStep == FanStep(Worker) \/ Attempt \/ Retries \/ Confirms \/ Ends
SupervisorStep == Polls \/ SeesConfirmed \/ SeesActive \/ Triggers

Next ==
    \/ WindowOpens \/ WindowCloses \/ ClockSet
    \/ ButtonPressed \/ MainsLost \/ MainsReturn
    \/ ForcedRequest \/ BackendRestarts \/ SupervisorRestarts
    \/ \E u \in Users, on \in BOOLEAN : Patch(u, on)
    \/ \E t \in Threads : FanStep(t) \/ ToggleLost(t)
    \/ WorkerStep \/ GivesUp \/ SupervisorStep

Spec == Init /\ [][Next]_vars

\* Both processes and every request are scheduled.  A forced worker reaches
\* its deadline.  Windows, presses and the mains follow no schedule.
Fairness ==
    /\ WF_vars(WorkerStep)
    /\ SF_vars(GivesUp)
    /\ SF_vars(TakeLock(Worker))
    /\ WF_vars(SupervisorStep)
    /\ \A u \in Users : WF_vars(FanStep(u))
FairSpec == Spec /\ Fairness

(***************************************************************************)
(* Properties                                                              *)
(***************************************************************************)

\* A toggle goes the right way: between a thread's reading and its toggle no
\* other request and no recovery attempt switches the fan.
TogglesFromReading ==
    \A t \in Threads : pc[t] = "toggle" /\ t \in fresh => power # target[t]

\* `active` says whether there is a worker, whatever raised or restarted: one
\* left behind would keep every later recovery from starting.
ActiveHasWorker == active <=> pc[Worker] # "idle"

\* A window that lasts, with the clock set and the mains back, is one in which
\* the fan is confirmed on: after failed attempts, restarts of either process
\* and lost requests, and also on the second day.
WindowRecovers ==
    <>[](inside /\ ready /\ online) => <>[](confirmedIn = window)

\* Out of the window every worker ends, also one whose fan never came back.
WorkersEnd == <>[]~inside => <>[]~active
=============================================================================
