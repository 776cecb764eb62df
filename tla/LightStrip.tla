----------------------------- MODULE LightStrip -----------------------------
(***************************************************************************)
(* The SP651E light strip (router/sp651e.py, router/light_strip.py): the   *)
(* poll task and the PATCH requests operate on one GATT session under      *)
(* _session_lock.  A command is a query, writes and a read-back; its HTTP  *)
(* thread gives up after 14 s and cancels it.  Status frames, asked for or *)
(* pushed, go into the queue of the session and into the snapshot that GET *)
(* shows.                                                                  *)
(*                                                                         *)
(* The session's frames and write responses arrive in order.  The setup    *)
(* gate, which GattGate models, is part of connecting here.                *)
(***************************************************************************)
EXTENDS Naturals, Sequences, FiniteSets

CONSTANTS
    Patches,       \* PATCH requests, each with one body
    Targets,       \* the values of brightness they may ask for, of two
    MaxFaults,     \* bound on calls that fail, lost links and late polls
    MaxPresses     \* bound on changes made at the strip itself

Poll == "poll"
Actors == Patches \cup {Poll}

ASSUME StripAssumption ==
    /\ Poll \notin Patches /\ "none" \notin Actors
    /\ Targets \subseteq 0..1
    /\ MaxFaults \in Nat
    /\ MaxPresses \in Nat

VARIABLES
    device,     \* the controller's power, brightness and mode
    client,     \* self._client: none, or one whose link is up or down
    air, queue, \* status frames on their way, and in self._queue
    session,    \* who holds _session_lock
    op,         \* per actor: its _operate()
    stage,      \* where the holder is in it
    base,       \* `current`, what the first query returned
    todo,       \* the writes that are left
    thread,     \* per PATCH: its HTTP thread
    body,       \* per PATCH: the changes it asks for
    result,     \* per PATCH: what its future returns
    cached,     \* self._cached: empty, or the singleton of a state
    since,      \* states of the strip since the holder's last write (history)
    over,       \* PATCHes given up before a later one was done (history)
    faults, presses

radio == <<device, client, air, queue>>
work == <<session, stage, base, todo>>
requests == <<thread, body, result>>
history == <<since, over>>
vars == <<radio, work, op, requests, cached, history, faults, presses>>

\* Two values of brightness; `static` is the constant-light mode.
States == [power : BOOLEAN, level : 0..1, static : BOOLEAN]
Dark == [power |-> FALSE, level |-> 0, static |-> FALSE]
Visible(s) == [power |-> s.power, level |-> s.level]
Nothing == [power |-> FALSE]
Bodies == [power : BOOLEAN] \cup [level : Targets] \cup [power : BOOLEAN, level : Targets]
Writes == [what : {"static"}] \cup [what : {"level"}, level : Targets] \cup [what : {"power"}, power : BOOLEAN]

Queries == {"query", "requery", "lastquery"}
Answers == {"answer", "reanswer", "lastanswer"}
Writing == {"write", "restore"}
Stages == {"none", "connect", "closing"} \cup Queries \cup Answers \cup Writing

TypeOK ==
    /\ device \in States
    /\ client \in {"none", "up", "down"}
    /\ air \in Seq(States)
    /\ queue \in Seq(States)
    /\ session \in Actors \cup {"none"}
    /\ op \in [Actors -> {"idle", "lock", "busy"}]
    /\ stage \in Stages
    /\ base \in States
    /\ todo \in Seq(Writes)
    /\ thread \in [Patches -> {"idle", "pending", "result", "saved", "ok", "failed", "timeout"}]
    /\ body \in [Patches -> Bodies]
    /\ result \in [Patches -> States]
    /\ cached \in SUBSET [power : BOOLEAN, level : 0..1] /\ Cardinality(cached) <= 1
    /\ since \subseteq States
    /\ over \subseteq Patches
    /\ faults \in 0..MaxFaults
    /\ presses \in 0..MaxPresses

Init ==
    /\ device \in States
    /\ client = "none"
    /\ air = <<>>
    /\ queue = <<>>
    /\ session = "none"
    /\ op = [x \in Actors |-> "idle"]
    /\ stage = "none"
    /\ base = Dark
    /\ todo = <<>>
    /\ thread = [p \in Patches |-> "idle"]
    /\ body = [p \in Patches |-> Nothing]
    /\ result = [p \in Patches |-> Dark]
    /\ cached = {}
    /\ since = {}
    /\ over = {}
    /\ faults = 0
    /\ presses = 0

Fault == faults < MaxFaults /\ faults' = faults + 1

(***************************************************************************)
(* The controller and its link                                             *)
(***************************************************************************)
Report == \/ client = "up" /\ air' = Append(air, device')
          \/ UNCHANGED air

\* What a write does.  Brightness is ignored outside the constant-light mode;
\* mode and brightness may switch the strip on.
Applied(w) ==
    CASE w.what = "power"  -> {[device EXCEPT !.power = w.power]}
      [] w.what = "static" -> {[device EXCEPT !.static = TRUE, !.power = @ \/ on] : on \in BOOLEAN}
      [] w.what = "level"  -> IF device.static
                              THEN {[device EXCEPT !.level = w.level, !.power = @ \/ on] : on \in BOOLEAN}
                              ELSE {device}

\* The wall switch or the remote control.
Pressed ==
    /\ presses < MaxPresses
    /\ presses' = presses + 1
    /\ device' \in {[device EXCEPT !.power = ~@], [device EXCEPT !.level = 1 - @],
                    [device EXCEPT !.static = ~@]}
    /\ since' = IF since = {} THEN {} ELSE since \cup {device'}
    /\ Report
    /\ UNCHANGED <<client, queue, work, op, requests, cached, over, faults>>

LinkLost ==
    /\ client = "up"
    /\ Fault
    /\ client' = "down"
    /\ air' = <<>>
    /\ UNCHANGED <<device, queue, work, op, requests, cached, history, presses>>

Save(s) == cached' = {Visible(s)}

\* The notification callback.
Received ==
    /\ air # <<>>
    /\ queue' = Append(queue, Head(air))
    /\ air' = Tail(air)
    /\ Save(Head(air))
    /\ UNCHANGED <<device, client, work, op, requests, history, faults, presses>>

\* No report for 20 s.
SnapshotExpires ==
    /\ cached # {}
    /\ Fault
    /\ cached' = {}
    /\ UNCHANGED <<radio, work, op, requests, history, presses>>

(***************************************************************************)
(* Beginning and ending an _operate()                                      *)
(***************************************************************************)
\* LightStripAdapter._lock: one PATCH at a time is inside its transport.
AdapterFree == \A p \in Patches : thread[p] \notin {"pending", "result", "saved"}

\* _run up to future.result.
Submit(p, b) ==
    /\ thread[p] = "idle"
    /\ AdapterFree
    /\ thread' = [thread EXCEPT ![p] = "pending"]
    /\ body' = [body EXCEPT ![p] = b]
    /\ op' = [op EXCEPT ![p] = "lock"]
    /\ cached' = {}
    /\ UNCHANGED <<radio, work, result, history, faults, presses>>

PollWakes ==
    /\ op[Poll] = "idle"
    /\ op' = [op EXCEPT ![Poll] = "lock"]
    /\ UNCHANGED <<radio, work, requests, cached, history, faults, presses>>

Begin_NoLock(x) ==
    /\ op[x] = "lock"
    /\ session' = x
    /\ op' = [op EXCEPT ![x] = "busy"]
    /\ stage' = IF client = "up" THEN "query" ELSE "connect"
    /\ UNCHANGED <<radio, base, todo, requests, cached, history, faults, presses>>

Begin(x) ==
    /\ op[x] = "lock"
    /\ session = "none"
    /\ session' = x
    /\ op' = [op EXCEPT ![x] = "busy"]
    /\ stage' = IF client = "up" THEN "query" ELSE "connect"
    /\ UNCHANGED <<radio, base, todo, requests, cached, history, faults, presses>>

Leaves(x) ==
    /\ session' = "none"
    /\ stage' = "none"
    /\ op' = [op EXCEPT ![x] = "idle"]
    /\ base' = Dark
    /\ todo' = <<>>
    /\ since' = {}

\* An exception in _operate: the snapshot is dropped, the client forgotten
\* and then disconnected, all before the lock is left.
Fails(x) ==
    /\ cached' = {}
    /\ client' = "none"
    /\ air' = <<>>
    /\ queue' = <<>>
    /\ \/ client # "none" /\ stage' = "closing" /\ since' = {} /\ UNCHANGED <<session, op, base, todo>>
       \/ client = "none" /\ Leaves(x)

\* The thread of x, if it still waits, gets its answer; a thread that is
\* done with it forgets what it asked for.
Ended(x, answer) ==
    LET waits == x \in Patches /\ thread[x] = "pending" IN
    /\ thread' = IF waits THEN [thread EXCEPT ![x] = answer] ELSE thread
    /\ body' = IF waits /\ answer # "result" THEN [body EXCEPT ![x] = Nothing] ELSE body

\* The disconnection ends or is given up after 2 s.
Closed(x) ==
    /\ session = x /\ stage = "closing"
    /\ Leaves(x)
    /\ Ended(x, "failed")
    /\ cached' = IF x = Poll THEN {} ELSE cached
    /\ UNCHANGED <<radio, result, over, faults, presses>>

\* A thread may give up at the moment its command is done.
Done(x, s) ==
    /\ Leaves(x)
    /\ IF x = Poll THEN Save(s) /\ UNCHANGED <<thread, body, result, over>>
       ELSE /\ \/ thread[x] = "pending" /\ \E a \in {"result", "timeout"} : Ended(x, a)
               \/ thread[x] # "pending" /\ UNCHANGED <<thread, body>>
            /\ result' = [result EXCEPT ![x] = IF thread'[x] = "result" THEN s ELSE Dark]
            /\ over' = over \cup {p \in Patches : thread[p] = "timeout"}
            /\ UNCHANGED cached

(***************************************************************************)
(* The steps of an _operate()                                              *)
(***************************************************************************)
Connects(x) ==
    /\ session = x /\ stage = "connect"
    /\ client' = "up"
    /\ air' = <<>>
    /\ queue' = <<>>
    /\ stage' = "query"
    /\ UNCHANGED <<device, session, base, todo, op, requests, cached, history, faults, presses>>

AnswerOf(q) == CASE q = "query" -> "answer" [] q = "requery" -> "reanswer" [] q = "lastquery" -> "lastanswer"

Query_KeepsQueue(x) ==
    /\ session = x /\ stage \in Queries
    /\ client = "up"
    /\ air' = Append(air, device)
    /\ stage' = AnswerOf(stage)
    /\ UNCHANGED <<device, client, queue, session, base, todo, op, requests, cached, history, faults, presses>>

\* _query drains the queue and asks.
Query(x) ==
    /\ session = x /\ stage \in Queries
    /\ client = "up"
    /\ queue' = <<>>
    /\ air' = Append(air, device)
    /\ stage' = AnswerOf(stage)
    /\ UNCHANGED <<device, client, session, base, todo, op, requests, cached, history, faults, presses>>

When(condition, s) == IF condition THEN s ELSE <<>>

\* control_frames
Commands(b, current) ==
    When("level" \in DOMAIN b,
         When(~current.static, <<[what |-> "static"]>>) \o <<[what |-> "level", level |-> b.level]>>)
    \o When("power" \in DOMAIN b, <<[what |-> "power", power |-> b.power]>>)

\* The read-back agrees with the request and with the power it had.
Confirms(b, s) ==
    /\ "power" \in DOMAIN b => s.power = b.power
    /\ "power" \notin DOMAIN b => s.power = base.power
    /\ "level" \in DOMAIN b => s.level = b.level /\ s.static

FirstAnswer(x, s) ==
    /\ stage = "answer"
    /\ \/ x = Poll /\ Done(x, s) /\ UNCHANGED client
       \/ /\ x # Poll
          /\ base' = s
          /\ todo' = Commands(body[x], s)
          /\ stage' = "write"
          /\ UNCHANGED <<session, op, thread, body, result, client, cached, history>>

NeedsRestore(x, s) == stage = "reanswer" /\ "power" \notin DOMAIN body[x] /\ s.power # base.power

ReadBack(x, s) ==
    /\ stage \in {"reanswer", "lastanswer"}
    /\ \/ /\ NeedsRestore(x, s)
          /\ stage' = "restore"
          /\ todo' = <<[what |-> "power", power |-> base.power]>>
          /\ UNCHANGED <<session, base, op, thread, body, result, client, cached, history>>
       \/ /\ ~NeedsRestore(x, s)
          /\ Confirms(body[x], s)
          /\ Done(x, s) /\ UNCHANGED client

Answer(x) ==
    /\ session = x /\ stage \in Answers
    /\ queue # <<>>
    /\ FirstAnswer(x, Head(queue)) \/ ReadBack(x, Head(queue))
    /\ queue' = Tail(queue)
    /\ UNCHANGED <<device, air, faults, presses>>

Refuted(x, s) == stage \in {"reanswer", "lastanswer"} /\ ~NeedsRestore(x, s) /\ ~Confirms(body[x], s)

\* "SP651E command was not confirmed"
NotConfirmed(x) ==
    /\ session = x
    /\ queue # <<>>
    /\ Refuted(x, Head(queue))
    /\ Fails(x)
    /\ UNCHANGED <<device, requests, over, faults, presses>>

\* A write and its response; whatever was sent before has arrived.
Write(x) ==
    /\ session = x /\ stage \in Writing
    /\ client = "up"
    /\ air = <<>>
    /\ device' \in Applied(Head(todo))
    /\ since' = {device'}
    /\ Report
    /\ todo' = Tail(todo)
    /\ stage' = IF Len(todo) > 1 THEN stage ELSE IF stage = "write" THEN "requery" ELSE "lastquery"
    /\ UNCHANGED <<client, queue, session, base, op, requests, cached, over, faults, presses>>

\* What a call that does not return may have done to the strip.
MayHaveWritten ==
    \/ UNCHANGED device
    \/ stage \in Writing /\ client = "up" /\ device' \in Applied(Head(todo))

\* A Bluetooth call raises or exceeds its limit; on a link that is down it has to.
CallFails(x) ==
    /\ session = x /\ stage # "closing"
    /\ IF client = "down" /\ stage # "connect" THEN UNCHANGED faults ELSE Fault
    /\ MayHaveWritten
    /\ Fails(x)
    /\ IF client = "none" THEN Ended(x, "failed") ELSE UNCHANGED <<thread, body>>
    /\ UNCHANGED <<result, over, presses>>

(***************************************************************************)
(* The HTTP thread                                                         *)
(***************************************************************************)
GivesUp_LeavesLock(p) ==
    /\ thread[p] = "pending"
    /\ Fault
    /\ Ended(p, "timeout")
    /\ op' = [op EXCEPT ![p] = "idle"]
    /\ stage' = "none"
    /\ UNCHANGED <<radio, session, base, todo, cached, history, result, presses>>

\* 14 s: the operation is cancelled where it is.
GivesUp(p) ==
    /\ thread[p] = "pending"
    /\ Fault
    /\ Ended(p, "timeout")
    /\ \/ /\ op[p] = "lock"
          /\ op' = [op EXCEPT ![p] = "idle"]
          /\ UNCHANGED <<radio, work, cached, since>>
       \/ /\ op[p] = "busy" /\ stage = "closing"
          /\ Leaves(p)
          /\ UNCHANGED <<radio, cached>>
       \/ /\ op[p] = "busy" /\ stage # "closing"
          /\ MayHaveWritten
          /\ Fails(p)
    /\ UNCHANGED <<result, over, presses>>

ResultSaved(p) ==
    /\ thread[p] = "result"
    /\ thread' = [thread EXCEPT ![p] = "saved"]
    /\ Save(result[p])
    /\ UNCHANGED <<radio, work, op, body, result, history, faults, presses>>

\* LightStripAdapter.patch compares the snapshot, whoever wrote it last.
Answered(p) ==
    /\ thread[p] = "saved"
    /\ LET agrees == \E s \in cached : \A f \in DOMAIN body[p] : s[f] = body[p][f]
       IN thread' = [thread EXCEPT ![p] = IF agrees THEN "ok" ELSE "failed"]
    /\ result' = [result EXCEPT ![p] = Dark]
    /\ body' = [body EXCEPT ![p] = Nothing]
    /\ UNCHANGED <<radio, work, op, cached, history, faults, presses>>

OperateStep(x) ==
    \/ Begin(x) \/ Connects(x) \/ Query(x) \/ Answer(x) \/ NotConfirmed(x)
    \/ Write(x) \/ CallFails(x) \/ Closed(x)

LoopStep == Received \/ PollWakes \/ \E x \in Actors : OperateStep(x)
ThreadStep == \E p \in Patches : ResultSaved(p) \/ Answered(p)

Next ==
    \/ Pressed \/ LinkLost \/ SnapshotExpires \/ LoopStep \/ ThreadStep
    \/ \E p \in Patches : GivesUp(p) \/ \E b \in Bodies : Submit(p, b)

Spec == Init /\ [][Next]_vars

\* The loop and the threads run; the poll wakes every 8 s.
FairSpec == Spec /\ WF_vars(LoopStep) /\ WF_vars(ThreadStep)

(***************************************************************************)
(* Properties                                                              *)
(***************************************************************************)

\* A command is complete only when a read-back agrees with it (docs/SP651E.md
\* on control): whatever frames were pushed, delayed or left over, the state a
\* PATCH returns was one of the strip's after the last write of that PATCH,
\* with what it asked for and the power it did not ask to change.
ConfirmedWasReal ==
    [][\A p \in Patches : thread[p] = "pending" /\ thread'[p] = "result" =>
          result'[p] \in since /\ Confirms(body[p], result'[p])]_vars

\* A PATCH that was given up has made its last write by the time a later one
\* is done, so it cannot undo it.
NoLateCommand == \A p \in over : op[p] = "idle"

\* Once requests and faults end the snapshot is that of the strip, whichever
\* of the poll, a notification and a late HTTP thread wrote it last.
SnapshotCatchesUp ==
    <>[](\A p \in Patches : thread[p] \notin {"pending", "result", "saved"})
        => <>[](cached = {Visible(device)})
=============================================================================
