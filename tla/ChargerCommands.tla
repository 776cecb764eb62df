-------------------------- MODULE ChargerCommands --------------------------
(***************************************************************************)
(* Switching the ports of one charger: the HTTP threads' calls of          *)
(* ChargerManager.execute (manager.py), the worker that runs them between  *)
(* two receive windows, set_port's read-modify-write of property 16        *)
(* (controller.py) and the MiOT command channel (miot.py), on which a      *)
(* reply is recognised by its opcode and property alone.                   *)
(*                                                                         *)
(* The charger acts on a command when it is delivered; what it sends back  *)
(* arrives in order, but possibly after the client stopped waiting.        *)
(***************************************************************************)
EXTENDS Naturals, Sequences

CONSTANTS
    Callers,       \* HTTP requests, each with one operation
    Ports,         \* the charger's ports
    MaxTimeouts,   \* bound on commands given up on one connection while it is up
    MaxPresses,    \* bound on changes made at the charger itself
    MaxDrops       \* bound on lost links

ASSUME CommandsAssumption ==
    /\ MaxTimeouts \in Nat
    /\ MaxPresses \in Nat
    /\ MaxDrops \in Nat
    /\ "worker" \notin Callers

VARIABLES
    status,     \* per caller: what its execute() has come to
    queue,      \* self._operations: callers in order
    phase,      \* where the worker is
    cur,        \* the caller whose operation the worker runs, or "worker"
    op,         \* the ports that operation switches, and on or off
    want,       \* the mask being SET
    gotAck,     \* miot.set has seen the 0x01 frame
    cache,      \* state.settings[16]: empty, or the singleton of a mask
    device,     \* the charger's port mask
    channel,    \* cmd_recv and what is on its way there
    up,         \* controller.connected
    stopped,    \* self._stop
    acked,      \* per port: the last value a caller was told is set (history)
    late,       \* two commands of one connection were given up (history)
    timeouts, presses, drops

calls == <<status, queue>>
worker == <<phase, cur, op, want, gotAck, cache>>
charger == <<device, channel, up>>
faults == <<late, timeouts, presses, drops>>
vars == <<calls, worker, charger, stopped, acked, faults>>

Masks == SUBSET Ports
Targets == {{p} : p \in Ports} \cup {Ports}
Ops == [ports : Targets, on : BOOLEAN]
NoOp == [ports |-> {}, on |-> FALSE]
Frames == [kind : {"value", "ack", "push"}, mask : Masks]

TypeOK ==
    /\ status \in [Callers -> {"idle", "waiting", "timeout", "ok", "unacked", "error"}]
    /\ queue \in Seq(Callers)
    /\ phase \in {"offline", "loop", "recv", "get", "send", "set", "refresh", "down"}
    /\ cur \in Callers \cup {"worker"}
    /\ op \in Ops \cup {NoOp}
    /\ want \in Masks
    /\ gotAck \in BOOLEAN
    /\ cache \in SUBSET Masks /\ \A m, n \in cache : m = n
    /\ device \in Masks
    /\ channel \in Seq(Frames)
    /\ up \in BOOLEAN
    /\ stopped \in BOOLEAN
    /\ acked \in [Ports -> {"none", "on", "off"}]
    /\ late \in BOOLEAN
    /\ timeouts \in 0..MaxTimeouts
    /\ presses \in 0..MaxPresses
    /\ drops \in 0..MaxDrops

\* The charger may have any mask.
Init ==
    /\ status = [c \in Callers |-> "idle"]
    /\ queue = <<>>
    /\ phase = "offline"
    /\ cur = "worker"
    /\ op = NoOp
    /\ want = {}
    /\ gotAck = FALSE
    /\ cache = {}
    /\ device \in Masks
    /\ channel = <<>>
    /\ up = FALSE
    /\ stopped = FALSE
    /\ acked = [p \in Ports |-> "none"]
    /\ late = FALSE
    /\ timeouts = 0
    /\ presses = 0
    /\ drops = 0

(***************************************************************************)
(* execute()                                                               *)
(***************************************************************************)
Answer(c, s) == status' = [status EXCEPT ![c] = IF @ = "waiting" THEN s ELSE @]

Execute(c) ==
    /\ status[c] = "idle"
    /\ \/ /\ stopped
          /\ status' = [status EXCEPT ![c] = "error"]
          /\ UNCHANGED queue
       \/ /\ ~stopped
          /\ status' = [status EXCEPT ![c] = "waiting"]
          /\ queue' = Append(queue, c)
    /\ UNCHANGED <<worker, charger, stopped, acked, faults>>

\* The future is cancelled; the item stays in the queue, and an operation
\* that has begun goes on.
CallerTimesOut(c) ==
    /\ status[c] = "waiting"
    /\ status' = [status EXCEPT ![c] = "timeout"]
    /\ UNCHANGED <<queue, worker, charger, stopped, acked, faults>>

(***************************************************************************)
(* The charger and the link                                                *)
(***************************************************************************)
Value == [kind |-> "value", mask |-> device]
Ack(mask) == [kind |-> "ack", mask |-> mask]
Push(mask) == [kind |-> "push", mask |-> mask]

\* A port is switched at the charger, which reports it.
PortPressed(p) ==
    /\ up
    /\ presses < MaxPresses
    /\ presses' = presses + 1
    /\ device' = IF p \in device THEN device \ {p} ELSE device \cup {p}
    /\ channel' = Append(channel, Push(device'))
    /\ acked' = [acked EXCEPT ![p] = "none"]
    /\ UNCHANGED <<calls, worker, up, stopped, late, timeouts, drops>>

LinkLost ==
    /\ up
    /\ drops < MaxDrops
    /\ drops' = drops + 1
    /\ up' = FALSE
    /\ UNCHANGED <<calls, worker, device, channel, stopped, acked, late, timeouts, presses>>

(***************************************************************************)
(* MiotCommandClient: a command is delivered or the handshake fails, in    *)
(* which case the charger may have got it or not.                          *)
(***************************************************************************)
GivesUp ==
    IF ~up THEN UNCHANGED <<late, timeouts>>
    ELSE /\ timeouts < MaxTimeouts
         /\ timeouts' = timeouts + 1
         /\ late' = (late \/ timeouts > 0)

DeliverGet == channel' = Append(channel, Value) /\ UNCHANGED device

\* Some chargers stop at the ACK, some add the result.
DeliverSet(mask) ==
    /\ device' = mask
    /\ \/ channel' = Append(channel, Ack(mask))
       \/ channel' = channel \o <<Ack(mask), Push(mask)>>
    /\ acked' = [p \in Ports |-> IF p \in op.ports THEN "none" ELSE acked[p]]

(***************************************************************************)
(* The worker                                                              *)
(***************************************************************************)
\* Back in the loop; the finished call's locals are gone.
Back ==
    /\ phase' = "loop"
    /\ cur' = "worker"
    /\ op' = NoOp
    /\ want' = {}
    /\ gotAck' = FALSE

Reconnect ==
    /\ phase = "offline"
    /\ ~stopped
    /\ up' = TRUE
    /\ phase' = "refresh"
    /\ cur' = "worker"
    /\ cache' = {}
    /\ channel' = <<Value>>
    /\ timeouts' = 0
    /\ UNCHANGED <<calls, op, want, gotAck, device, stopped, acked, late, presses, drops>>

\* while not stop and connected
LoopEnds ==
    /\ phase = "loop"
    /\ stopped \/ ~up
    /\ phase' = IF stopped THEN "down" ELSE "offline"
    /\ up' = FALSE
    /\ channel' = <<>>
    /\ UNCHANGED <<calls, cur, op, want, gotAck, cache, device, stopped, acked, faults>>

TakeNext_RunsCancelled ==
    /\ phase = "loop" /\ up /\ ~stopped
    /\ queue # <<>>
    /\ queue' = Tail(queue)
    /\ cur' = Head(queue)
    /\ op' \in Ops
    /\ phase' = "get"
    /\ DeliverGet
    /\ UNCHANGED <<status, late, timeouts, want, gotAck, cache, up, stopped, acked, presses, drops>>

\* _run_one_operation: an item whose caller has gone is skipped.  What a caller
\* asked for when it called matters from here on.
TakeNext ==
    /\ phase = "loop" /\ up /\ ~stopped
    /\ queue # <<>>
    /\ queue' = Tail(queue)
    /\ LET c == Head(queue) IN
          \/ /\ status[c] # "waiting"
             /\ UNCHANGED <<status, phase, cur, op, device, channel, late, timeouts>>
          \/ /\ status[c] = "waiting"
             /\ cur' = c
             /\ op' \in Ops
             /\ phase' = "get"
             /\ DeliverGet
             /\ UNCHANGED <<status, late, timeouts>>
          \/ /\ status[c] = "waiting"
             /\ GivesUp
             /\ Answer(c, "error")
             /\ DeliverGet \/ UNCHANGED <<device, channel>>
             /\ UNCHANGED <<phase, cur, op>>
    /\ UNCHANGED <<want, gotAck, cache, up, stopped, acked, presses, drops>>

ReceiveWindow ==
    /\ phase = "loop" /\ up /\ ~stopped
    /\ queue = <<>>
    /\ phase' = "recv"
    /\ UNCHANGED <<calls, cur, op, want, gotAck, cache, charger, stopped, acked, faults>>

\* Only a push means anything to the monitor.
Cached(frame) == IF frame.kind = "push" THEN {frame.mask} ELSE cache

Receive ==
    /\ phase = "recv"
    /\ phase' = "loop"
    /\ \/ /\ up
          /\ channel # <<>>
          /\ cache' = Cached(Head(channel))
          /\ channel' = Tail(channel)
       \/ UNCHANGED <<cache, channel>>
    /\ UNCHANGED <<calls, cur, op, want, gotAck, device, up, stopped, acked, faults>>

\* refresh_settings, after a window in which nothing arrived.
RefreshStarts ==
    /\ phase = "recv"
    /\ up
    /\ phase' = "refresh"
    /\ cur' = "worker"
    /\ DeliverGet
    /\ UNCHANGED <<calls, op, want, gotAck, cache, up, stopped, acked, faults>>

\* miot.get takes the first value frame of its property; pushes are kept.
Awaiting == phase \in {"get", "refresh"} /\ channel # <<>> /\ up

SkipFrame ==
    /\ Awaiting
    /\ Head(channel).kind # "value"
    /\ cache' = Cached(Head(channel))
    /\ channel' = Tail(channel)
    /\ UNCHANGED <<calls, phase, cur, op, want, gotAck, device, up, stopped, acked, faults>>

Takes(frame) ==
    /\ channel' = Tail(channel)
    /\ cache' = {frame.mask}

Refreshed_NotStored ==
    /\ Awaiting /\ phase = "refresh"
    /\ Head(channel).kind = "value"
    /\ channel' = Tail(channel)
    /\ Back
    /\ UNCHANGED <<calls, cache, device, up, stopped, acked, faults>>

Refreshed ==
    /\ Awaiting /\ phase = "refresh"
    /\ Head(channel).kind = "value"
    /\ Takes(Head(channel))
    /\ Back
    /\ UNCHANGED <<calls, device, up, stopped, acked, faults>>

Switched_Overwrites(o, mask) == IF o.on THEN o.ports ELSE {}

Switched(o, mask) == IF o.on THEN mask \cup o.ports ELSE mask \ o.ports

Told(c) ==
    acked' = [p \in Ports |-> IF p \in op.ports /\ status[c] = "waiting"
                              THEN IF op.on THEN "on" ELSE "off" ELSE acked[p]]

\* set_port writes only a mask that differs from the one it read.
MaskRead ==
    /\ Awaiting /\ phase = "get"
    /\ Head(channel).kind = "value"
    /\ Takes(Head(channel))
    /\ LET mask == Head(channel).mask IN
          \/ /\ Switched(op, mask) = mask
             /\ Told(cur)
             /\ Answer(cur, "ok")
             /\ Back
          \/ /\ Switched(op, mask) # mask
             /\ want' = Switched(op, mask)
             /\ phase' = "send"
             /\ UNCHANGED <<status, acked, cur, op, gotAck>>
    /\ UNCHANGED <<queue, device, up, stopped, faults>>

GetTimesOut_Unanswered ==
    /\ phase \in {"get", "refresh"}
    /\ GivesUp
    /\ Back
    /\ UNCHANGED <<calls, cache, charger, stopped, acked, presses, drops>>

\* The GET is given up: an operation fails, a refresh goes without.
GetTimesOut ==
    /\ phase \in {"get", "refresh"}
    /\ GivesUp
    /\ Back
    /\ IF phase = "get" THEN Answer(cur, "error") ELSE UNCHANGED status
    /\ UNCHANGED <<queue, cache, charger, stopped, acked, presses, drops>>

SendSet ==
    /\ phase = "send"
    /\ up
    /\ DeliverSet(want)
    /\ gotAck' = FALSE
    /\ phase' = "set"
    /\ UNCHANGED <<calls, cur, op, want, cache, up, stopped, faults>>

\* On a lost link a call fails at once or is not acknowledged.
NotSet == IF up THEN Answer(cur, "unacked") ELSE Answer(cur, "unacked") \/ Answer(cur, "error")

SendSetFails ==
    /\ phase = "send"
    /\ GivesUp
    /\ \/ up /\ DeliverSet(want)
       \/ UNCHANGED <<device, channel, acked>>
    /\ NotSet
    /\ Back
    /\ UNCHANGED <<queue, cache, up, stopped, presses, drops>>

\* miot.set: the ACK is noted, a push of the property ends the wait.
SetFrame ==
    /\ phase = "set" /\ up
    /\ channel # <<>>
    /\ Head(channel).kind # "push"
    /\ gotAck' = (gotAck \/ Head(channel).kind = "ack")
    /\ channel' = Tail(channel)
    /\ UNCHANGED <<calls, phase, cur, op, want, cache, device, up, stopped, acked, faults>>

SetDone ==
    /\ phase = "set"
    /\ \/ gotAck /\ UNCHANGED channel
       \/ /\ up
          /\ channel # <<>>
          /\ Head(channel).kind = "push"
          /\ channel' = Tail(channel)
    /\ cache' = {want}
    /\ Told(cur)
    /\ Answer(cur, "ok")
    /\ Back
    /\ UNCHANGED <<queue, device, up, stopped, faults>>

SetTimesOut_Retries ==
    /\ phase = "set"
    /\ ~gotAck \/ ~up
    /\ GivesUp
    /\ phase' = "send"
    /\ UNCHANGED <<calls, cur, op, want, gotAck, cache, charger, stopped, acked, presses, drops>>

SetTimesOut ==
    /\ phase = "set"
    /\ ~gotAck \/ ~up
    /\ GivesUp
    /\ NotSet
    /\ Back
    /\ UNCHANGED <<queue, cache, charger, stopped, acked, presses, drops>>

(***************************************************************************)
(* stop(): the sessions are disconnected, the queue is answered, and the   *)
(* runtime cancels the workers and then every caller that still waits.     *)
(***************************************************************************)
Stop ==
    /\ ~stopped
    /\ stopped' = TRUE
    /\ up' = FALSE
    /\ UNCHANGED <<calls, worker, device, channel, acked, faults>>

RuntimeEnds ==
    /\ stopped
    /\ phase # "down" \/ queue # <<>>
    /\ phase' = "down"
    /\ queue' = <<>>
    /\ status' = [c \in Callers |-> IF status[c] = "waiting" THEN "error" ELSE status[c]]
    /\ UNCHANGED <<cur, op, want, gotAck, cache, charger, stopped, acked, faults>>

\* The process has ended.
Ended == phase = "down" /\ queue = <<>> /\ UNCHANGED vars

WorkerStep ==
    \/ Reconnect \/ LoopEnds \/ TakeNext \/ ReceiveWindow \/ Receive
    \/ SkipFrame \/ Refreshed \/ MaskRead \/ SendSet \/ SetFrame \/ SetDone
    \/ GetTimesOut \/ SendSetFails \/ SetTimesOut

Next ==
    \/ \E c \in Callers : Execute(c) \/ CallerTimesOut(c)
    \/ \E p \in Ports : PortPressed(p)
    \/ LinkLost \/ Stop \/ RuntimeEnds \/ Ended
    \/ WorkerStep \/ RefreshStarts

Spec == Init /\ [][Next]_vars

\* The worker is never starved, and the charger falls silent often enough for
\* the 60 s settings refresh.  Nobody has to time out, press or stop.
Fairness == WF_vars(WorkerStep) /\ SF_vars(RefreshStarts) /\ WF_vars(RuntimeEnds)
FairSpec == Spec /\ Fairness

(***************************************************************************)
(* Properties                                                              *)
(***************************************************************************)

Trusted == ~late /\ presses = 0

\* A port a caller was told is switched stays so until it is switched again,
\* here or at the charger: the read-modify-write of the shared mask loses no
\* acknowledged update and acknowledges none that is not there.  One command
\* given up per connection, with what it leaves on the channel, does not change
\* that.  Two of them do, because a reply does not say which command it answers,
\* and so does a press beside a switch, which writes the mask it read before.
AcknowledgedHolds ==
    Trusted =>
        \A p \in Ports : acked[p] # "none" => (acked[p] = "on" <=> p \in device)

\* The switches are atomic (PortSwitches): the mask changes in one step of the
\* operation whose turn it is, from the mask the charger then has, at most once
\* per operation and never after its answer, although set_port reads, writes and
\* waits in three commands.  The worker's hands are empty once it has ended.
Switches == INSTANCE PortSwitches WITH
    mask <- device,
    answer <- status,
    turn <- IF phase = "down" THEN "worker" ELSE cur,
    asked <- IF phase = "down" THEN NoOp ELSE op,
    done <- phase = "set",
    trusted <- Trusted

SwitchesAreAtomic == Switches!SwitchSpec

\* A caller that waits has its operation in the queue or in the worker's hands:
\* no failure on the way, no lost link and no stop() forgets its future.
NobodyForgotten ==
    \A c \in Callers : status[c] = "waiting" =>
        cur = c \/ \E i \in 1..Len(queue) : queue[i] = c

\* An operation whose caller gave up before it began never begins: a retry
\* does not race the operation it replaces.
NoLateStart ==
    [][\A c \in Callers : status[c] = "timeout" /\ cur # c => cur' # c]_vars

\* Every operation is answered, across lost links and reconnections, also
\* without its own timeout.
EveryOperationAnswered ==
    \A c \in Callers : status[c] = "waiting" ~> status[c] # "waiting"

\* Once nobody switches any more, the settings shown over HTTP agree with the
\* charger again, whatever replies came late or were missed.
CacheConverges ==
    <>[](~stopped /\ \A c \in Callers : status[c] # "waiting") => <>[](cache = {device})
=============================================================================
