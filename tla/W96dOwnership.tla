---------------------------- MODULE W96dOwnership ----------------------------
(***************************************************************************)
(* Who holds the Bluetooth link to the W96D fan: the router's sidecar      *)
(* (router/w96d_sidecar.py as patched by router/w96d_coordinated.py) or,   *)
(* in OUTDOOR mode, the phone (W96dScreen.kt, W96d.kt).                    *)
(*                                                                         *)
(* The sidecar's coroutines share one event loop: its runner, a PATCH in   *)
(* progress and the ownership requests each take a step between two        *)
(* awaits.  The phone's screen and its polling loop talk to the sidecar    *)
(* over HTTP; a request whose answer is lost stays in the sidecar.  The    *)
(* fan accepts one central at a time, and every BlueZ client of the router *)
(* shares the adapter's one link to it.                                    *)
(***************************************************************************)
EXTENDS Naturals

CONSTANTS
    MaxFaults    \* bound on restarts, kills, lost answers and failed writes

ASSUME OwnershipAssumption == MaxFaults \in Nat

VARIABLES
    paused,     \* PauseStore._paused
    file,       \* what the state file says
    settled,    \* outcome of the last ownership request (history)
    client,     \* self._client is set
    link,       \* the router's adapter is connected to the fan
    runner,     \* where _runner is
    patch,      \* where the PATCH in progress is
    op, at,     \* per request slot: what was asked, and how far it is
    ui,         \* where enterOutdoor or exitOutdoor is
    forced,     \* OUTDOOR was entered without a release
    phoneLink,  \* the phone's GATT connection to the fan is up
    faults

store == <<paused, file, settled>>
radio == <<client, link>>
requests == <<op, at>>
phone == <<ui, forced, phoneLink>>
vars == <<store, radio, runner, patch, requests, phone, faults>>

\* A request of the screen, one of its polling loop, and one whose asker has
\* stopped waiting.
Slots == {"ui", "poll", "late"}

RunnerPC == {"top", "gate", "connecting", "ungate", "lock", "refresh", "failing", "dropping"}
PatchPC == {"none", "lock", "gate", "connecting", "ungate", "failing", "cmdgate", "writing"}
UiPC == {"indoor", "releasing", "asking", "linking", "undo", "outdoor", "leaving", "resuming"}

TypeOK ==
    /\ paused \in BOOLEAN
    /\ file \in BOOLEAN
    /\ settled \in {"release", "resume", "failed"}
    /\ client \in BOOLEAN
    /\ link \in BOOLEAN
    /\ runner \in RunnerPC
    /\ patch \in PatchPC
    /\ op \in [Slots -> {"none", "get", "release", "resume"}]
    /\ at \in [Slots -> {"idle", "sent", "dropping", "ok", "error", "paused"}]
    /\ ui \in UiPC
    /\ forced \in BOOLEAN
    /\ phoneLink \in BOOLEAN
    /\ faults \in 0..MaxFaults

\* A router that owns the fan and has just started, and an indoor phone.
Init ==
    /\ paused = FALSE
    /\ file = FALSE
    /\ settled = "resume"
    /\ client = FALSE
    /\ link = FALSE
    /\ runner = "top"
    /\ patch = "none"
    /\ op = [r \in Slots |-> "none"]
    /\ at = [r \in Slots |-> "idle"]
    /\ ui = "indoor"
    /\ forced = FALSE
    /\ phoneLink = FALSE
    /\ faults = 0

Fault == faults < MaxFaults /\ faults' = faults + 1

\* _connected(): the current client, on a link that is up.
Connected == client /\ link

\* client.connect() succeeds unless the phone has the fan.
Connects ==
    /\ ~phoneLink
    /\ client' = TRUE
    /\ link' = TRUE

\* client.disconnect() ends; an error in it is swallowed.
Disconnected ==
    /\ link' \in {FALSE, link}
    /\ UNCHANGED client

(***************************************************************************)
(* The sidecar's runner: one turn of the loop in _runner.  Of the three    *)
(* gate leases only their waiting matters here.                            *)
(***************************************************************************)
OpLockFree == runner # "refresh" /\ patch \in {"none", "lock"}

\* _disconnect() forgets the client, then awaits its disconnection if it is up.
RunnerDisconnects ==
    /\ client' = FALSE
    /\ runner' = IF Connected THEN "dropping" ELSE "top"
    /\ UNCHANGED link

RunnerTurn_IgnoresPause ==
    /\ runner = "top"
    /\ runner' = IF Connected THEN "lock" ELSE "gate"
    /\ UNCHANGED radio

\* The pause is read here, before the gate is awaited, and not again.
RunnerTurn ==
    /\ runner = "top"
    /\ \/ /\ ~paused
          /\ runner' = IF Connected THEN "lock" ELSE "gate"
          /\ UNCHANGED radio
       \/ /\ paused
          /\ RunnerDisconnects

RunnerGate ==
    /\ runner = "gate"
    /\ runner' \in {"connecting", "failing"}
    /\ UNCHANGED radio

RunnerConnects ==
    /\ runner = "connecting"
    /\ \/ Connects /\ runner' = "ungate"
       \/ runner' = "failing" /\ UNCHANGED radio

\* The gate is released; a link that is still up is refreshed.
RunnerUngates ==
    /\ runner = "ungate"
    /\ runner' = IF Connected THEN "lock" ELSE "top"
    /\ UNCHANGED radio

RunnerLocks ==
    /\ runner = "lock"
    /\ OpLockFree
    /\ runner' = "refresh"
    /\ UNCHANGED radio

\* The reads succeed, or the connection is lost or fails three times.
RunnerRefreshes ==
    /\ runner = "refresh"
    /\ runner' \in (IF Connected THEN {"top"} ELSE {}) \cup {"failing"}
    /\ UNCHANGED radio

RunnerFails ==
    /\ runner = "failing"
    /\ RunnerDisconnects

RunnerDropped ==
    /\ runner = "dropping"
    /\ runner' = "top"
    /\ Disconnected

RunnerStep ==
    /\ \/ RunnerTurn \/ RunnerGate \/ RunnerConnects \/ RunnerUngates
       \/ RunnerLocks \/ RunnerRefreshes \/ RunnerFails \/ RunnerDropped
    /\ UNCHANGED <<store, patch, requests, phone, faults>>

(***************************************************************************)
(* A PATCH: _ensure_owned, which may connect, and the writes, all of it    *)
(* under _op_lock.                                                         *)
(***************************************************************************)
PatchArrives ==
    /\ patch = "none"
    /\ patch' = "lock"
    /\ UNCHANGED radio

PatchLocks ==
    /\ patch = "lock"
    /\ OpLockFree
    /\ patch' = IF paused THEN "none" ELSE IF Connected THEN "cmdgate" ELSE "gate"
    /\ UNCHANGED radio

PatchGate ==
    /\ patch = "gate"
    /\ patch' \in {"connecting", "none"}
    /\ UNCHANGED radio

PatchConnects ==
    /\ patch = "connecting"
    /\ \/ Connects /\ patch' = "ungate"
       \/ patch' = "failing" /\ UNCHANGED radio

PatchUngates ==
    /\ \/ patch = "ungate" /\ patch' = "cmdgate"
       \/ patch = "failing" /\ patch' = "none"
    /\ UNCHANGED radio

PatchCommandGate ==
    /\ patch = "cmdgate"
    /\ patch' \in {"writing", "none"}
    /\ UNCHANGED radio

\* The last write, or the first that fails.
PatchWrites ==
    /\ patch = "writing"
    /\ patch' = "none"
    /\ UNCHANGED radio

PatchProgress ==
    /\ \/ PatchLocks \/ PatchGate \/ PatchConnects \/ PatchUngates
       \/ PatchCommandGate \/ PatchWrites
    /\ UNCHANGED <<store, runner, requests, phone, faults>>

PatchStep ==
    \/ PatchProgress
    \/ PatchArrives /\ UNCHANGED <<store, runner, requests, phone, faults>>

\* The link breaks by itself.
LinkLost ==
    /\ link
    /\ link' = FALSE
    /\ UNCHANGED <<store, client, runner, patch, requests, phone, faults>>

(***************************************************************************)
(* Ownership requests in the sidecar                                       *)
(***************************************************************************)
Answer(r, a) == at' = [at EXCEPT ![r] = a] /\ UNCHANGED op

ServeGet(r) ==
    /\ op[r] = "get" /\ at[r] = "sent"
    /\ Answer(r, IF paused THEN "paused" ELSE "ok")
    /\ UNCHANGED <<store, radio, runner, patch, phone, faults>>

StorePause_MemoryOnly(value) ==
    /\ paused' = value
    /\ settled' = IF value THEN "release" ELSE "resume"
    /\ UNCHANGED <<file, faults>>

\* PauseStore.set: memory first, then the file.
StorePause(value) ==
    /\ paused' = value
    /\ file' = value
    /\ settled' = IF value THEN "release" ELSE "resume"
    /\ UNCHANGED faults

\* The file cannot be written: memory has changed and the caller gets an error.
StorePauseFails(value) ==
    /\ Fault
    /\ paused' = value
    /\ settled' = "failed"
    /\ UNCHANGED file

ServeResume(r) ==
    /\ op[r] = "resume" /\ at[r] = "sent"
    /\ \/ StorePause(FALSE) /\ Answer(r, "ok")
       \/ StorePauseFails(FALSE) /\ Answer(r, "error")
    /\ UNCHANGED <<radio, runner, patch, phone>>

ServeRelease(r) ==
    /\ op[r] = "release" /\ at[r] = "sent"
    /\ \/ /\ StorePause(TRUE)
          /\ client' = FALSE
          /\ Answer(r, IF Connected THEN "dropping" ELSE "ok")
       \/ /\ StorePauseFails(TRUE)
          /\ Answer(r, "error")
          /\ UNCHANGED client
    /\ UNCHANGED <<link, runner, patch, phone>>

ReleaseDropped(r) ==
    /\ at[r] = "dropping"
    /\ Disconnected
    /\ Answer(r, "ok")
    /\ UNCHANGED <<store, runner, patch, phone, faults>>

\* Nobody reads the answer of a late request.
LateDone ==
    /\ at["late"] \in {"ok", "error", "paused"}
    /\ op' = [op EXCEPT !["late"] = "none"]
    /\ at' = [at EXCEPT !["late"] = "idle"]
    /\ UNCHANGED <<store, radio, runner, patch, phone, faults>>

Serve(r) == ServeGet(r) \/ ServeResume(r) \/ ServeRelease(r) \/ ReleaseDropped(r)

\* The asker, or the sidecar's own call with its 8 s limit, gives up.  What
\* was asked still happens.
AnswerLost(r) ==
    /\ r \in {"ui", "poll"}
    /\ at[r] \in {"sent", "dropping"}
    /\ at["late"] = "idle"
    /\ Fault
    /\ op' = [op EXCEPT !["late"] = op[r]]
    /\ at' = [at EXCEPT !["late"] = at[r], ![r] = "error"]
    /\ UNCHANGED <<store, radio, runner, patch, phone>>

\* The sidecar stops or dies, its link goes down, and procd starts it again.
Restart ==
    /\ Fault
    /\ paused' = file
    /\ client' = FALSE
    /\ link' = FALSE
    /\ runner' = "top"
    /\ patch' = "none"
    /\ at' = [r \in Slots |-> IF at[r] \in {"sent", "dropping"} THEN "error" ELSE at[r]]
    /\ UNCHANGED <<file, settled, op, phone>>

(***************************************************************************)
(* The phone's screen                                                      *)
(***************************************************************************)
Send(r, what) ==
    /\ op' = [op EXCEPT ![r] = what]
    /\ at' = [at EXCEPT ![r] = "sent"]

Clear(r) ==
    /\ op' = [op EXCEPT ![r] = "none"]
    /\ at' = [at EXCEPT ![r] = "idle"]

EnterOutdoor ==
    /\ ui = "indoor"
    /\ ui' = "releasing"
    /\ Send("ui", "release")
    /\ UNCHANGED <<forced, phoneLink>>

\* Only a release that was answered leads to the phone's own connection.
ReleaseAnswered ==
    /\ ui = "releasing"
    /\ at["ui"] \in {"ok", "error"}
    /\ ui' = IF at["ui"] = "ok" THEN "linking" ELSE "asking"
    /\ forced' = FALSE
    /\ Clear("ui")
    /\ UNCHANGED phoneLink

\* The dialog shown after a failed release.
ForceDialog ==
    /\ ui = "asking"
    /\ \/ ui' = "linking" /\ forced' = TRUE
       \/ ui' = "indoor" /\ UNCHANGED forced
    /\ UNCHANGED <<requests, phoneLink>>

PhoneConnects ==
    /\ ui = "linking"
    /\ ~link
    /\ phoneLink' = TRUE
    /\ ui' = "outdoor"
    /\ UNCHANGED <<requests, forced>>

\* Back to the router, which gets the fan again if it had released it.
PhoneConnectFails ==
    /\ ui = "linking"
    /\ \/ forced /\ ui' = "indoor" /\ UNCHANGED requests
       \/ ~forced /\ ui' = "undo" /\ Send("ui", "resume")
    /\ UNCHANGED <<forced, phoneLink>>

ExitOutdoor ==
    /\ ui = "outdoor"
    /\ ui' = "leaving"
    /\ UNCHANGED <<requests, forced, phoneLink>>

\* ble.disconnect(), then the preference, then the resume.
PhoneDisconnects ==
    /\ ui = "leaving"
    /\ phoneLink' = FALSE
    /\ ui' = "resuming"
    /\ Send("ui", "resume")
    /\ UNCHANGED forced

ResumeAnswered ==
    /\ ui \in {"undo", "resuming"}
    /\ at["ui"] \in {"ok", "error"}
    /\ ui' = "indoor"
    /\ Clear("ui")
    /\ UNCHANGED <<forced, phoneLink>>

\* In OUTDOOR the polling loop reconnects the phone.
PhoneReconnects ==
    /\ ui = "outdoor"
    /\ ~phoneLink /\ ~link
    /\ phoneLink' = TRUE
    /\ UNCHANGED <<requests, ui, forced>>

PhoneLinkLost ==
    /\ phoneLink
    /\ phoneLink' = FALSE
    /\ UNCHANGED <<requests, ui, forced>>

UiProgress ==
    /\ ReleaseAnswered \/ PhoneConnects \/ PhoneConnectFails \/ PhoneDisconnects \/ ResumeAnswered
    /\ UNCHANGED <<store, radio, runner, patch, faults>>

UiStep ==
    \/ UiProgress
    \/ /\ EnterOutdoor \/ ForceDialog \/ ExitOutdoor \/ PhoneReconnects \/ PhoneLinkLost
       /\ UNCHANGED <<store, radio, runner, patch, faults>>

(***************************************************************************)
(* The phone's polling loop.  Indoors, W96dRemoteClient.state() resumes a  *)
(* router it finds paused.  Its coroutine is cancelled when OUTDOOR is     *)
(* entered, but a request it has sent is served.                           *)
(***************************************************************************)
PollsRouter == ui \in {"indoor", "asking"}
OutdoorFlag == ui \in {"linking", "outdoor", "leaving"}

PollStarts ==
    /\ PollsRouter
    /\ op["poll"] = "none"
    /\ Send("poll", "get")

PollAnswered_NeverResumes ==
    /\ op["poll"] = "get"
    /\ at["poll"] \in {"ok", "error", "paused"}
    /\ Clear("poll")

PollAnswered ==
    /\ op["poll"] = "get"
    /\ \/ at["poll"] = "paused" /\ Send("poll", "resume")
       \/ at["poll"] = "paused" /\ OutdoorFlag /\ Clear("poll")
       \/ at["poll"] \in {"ok", "error"} /\ Clear("poll")

PollResumed ==
    /\ op["poll"] = "resume"
    /\ at["poll"] \in {"ok", "error"}
    /\ Clear("poll")

PollStep ==
    /\ PollStarts \/ PollAnswered \/ PollResumed
    /\ UNCHANGED <<store, radio, runner, patch, phone, faults>>

\* The app's process dies; a request it waited for is served all the same.
\* When it is opened again it starts from the stored OUTDOOR preference.
AppKilled ==
    /\ Fault
    /\ at["late"] = "idle"
    /\ \E r \in {"ui", "poll"} :
          /\ op' = [op EXCEPT !["ui"] = "none", !["poll"] = "none",
                              !["late"] = IF at[r] \in {"sent", "dropping"} THEN op[r] ELSE "none"]
          /\ at' = [at EXCEPT !["ui"] = "idle", !["poll"] = "idle",
                              !["late"] = IF at[r] \in {"sent", "dropping"} THEN at[r] ELSE "idle"]
    /\ ui' = IF OutdoorFlag THEN "outdoor" ELSE "indoor"
    /\ phoneLink' = FALSE
    /\ UNCHANGED <<store, radio, runner, patch, forced>>

Next ==
    \/ RunnerStep \/ PatchStep \/ LinkLost \/ Restart
    \/ \E r \in Slots : Serve(r)
    \/ \E r \in Slots : AnswerLost(r)
    \/ LateDone
    \/ UiStep \/ PollStep \/ AppKilled

Spec == Init /\ [][Next]_vars

\* The loop runs its tasks and every Bluetooth call ends; requests are served
\* and their answers handled; the screen stays open, so it polls.  Nobody has
\* to enter or leave OUTDOOR, and a PATCH need not arrive.
Fairness ==
    /\ WF_vars(RunnerStep)
    /\ WF_vars(PatchProgress)
    /\ \A r \in Slots : WF_vars(Serve(r))
    /\ WF_vars(LateDone)
    /\ WF_vars(UiProgress)
    /\ WF_vars(PollStep)

FairSpec == Spec /\ Fairness

(***************************************************************************)
(* Properties                                                              *)
(***************************************************************************)

\* The last release or resume that was carried out completely is in force, in
\* memory and on disk, whatever restarts, lost answers and late requests
\* there were ("remains paused across sidecar restart").
LastRequestHolds ==
    /\ settled = "release" => paused /\ file
    /\ settled = "resume" => ~paused /\ ~file

\* If the router stays released, its runner and any PATCH that was under way
\* end with no client of theirs on the fan, for good.
HandOverSettles == <>[]paused => <>[]~client

\* A phone that stays indoors gets the router back, also after a release that
\* was carried out when the phone had stopped waiting for it.
PauseIsRepaired == <>[](ui = "indoor") => <>[]~paused

\* "`OUTDOOR` first asks the router sidecar to persist a `release`; the phone
\* then connects directly": in an OUTDOOR session that began with a release,
\* the router stays released.
OutdoorKeepsRelease == ui \in {"linking", "outdoor"} /\ ~forced => paused
=============================================================================
