-------------------------- MODULE LightStripProofs --------------------------
(***************************************************************************)
(* Proofs about LightStrip, for any number of PATCH requests and faults: a *)
(* command that was given up makes no write after a later one is done.     *)
(***************************************************************************)
EXTENDS LightStrip, SequenceTheorems, FiniteSetTheorems, TLAPS

Threads == {"idle", "pending", "result", "saved", "ok", "failed", "timeout"}

ActorTypes ==
    /\ op \in [Actors -> {"idle", "lock", "busy"}]
    /\ thread \in [Patches -> Threads]
    /\ session \in Actors \cup {"none"}

\* _session_lock is held by the one actor that is inside its block.
HolderBusy == \A x \in Actors : op[x] = "busy" <=> session = x

\* A coroutine is submitted by its thread, and cancelled if it still waits for
\* the lock when the thread gives up.
WaitsForThread ==
    \A p \in Patches : /\ thread[p] = "idle" => op[p] = "idle"
                       /\ thread[p] \notin {"idle", "pending"} => op[p] # "lock"

OverIsTimedOut == \A p \in over : p \in Patches /\ thread[p] = "timeout"

StripInv ==
    /\ ActorTypes
    /\ HolderBusy
    /\ WaitsForThread
    /\ OverIsTimedOut
    /\ NoLateCommand

\* The thread of x stays as it was or, if it waits, hears how its command ended.
HearsEnd(x) ==
    \/ thread' = thread
    \/ /\ x \in Patches /\ thread[x] = "pending"
       /\ \E a \in Threads \ {"idle"} : thread' = [thread EXCEPT ![x] = a]

\* The state the invariant is about.
stripVars == <<op, thread, session, over>>

LEMMA StripStutter == StripInv /\ UNCHANGED stripVars => StripInv'
  BY DEF StripInv, ActorTypes, HolderBusy, WaitsForThread, OverIsTimedOut, NoLateCommand, stripVars

\* The holder of the lock leaves its block.  Its thread gets an answer only if
\* it still waits; those that gave up before are idle, as the lock was not theirs.
LEMMA HolderLeaves ==
  ASSUME StripInv, NEW x \in Actors, session = x,
         session' = "none", op' = [op EXCEPT ![x] = "idle"],
         HearsEnd(x),
         over' \in {over, over \cup {p \in Patches : thread[p] = "timeout"}}
  PROVE  StripInv'
<1> USE DEF StripInv, HearsEnd
<1>1. ActorTypes'
  BY DEF ActorTypes
<1>2. HolderBusy'
  BY StripAssumption DEF ActorTypes, HolderBusy
<1>3. WaitsForThread'
  BY DEF ActorTypes, WaitsForThread, Actors
<1>4. OverIsTimedOut'
  BY DEF ActorTypes, OverIsTimedOut
<1>5. NoLateCommand'
  <2> SUFFICES ASSUME NEW p \in over', p # x PROVE op[p] = "idle"
    BY <1>4 DEF NoLateCommand, OverIsTimedOut, ActorTypes, Actors
  <2>1. CASE p \in over
    BY <2>1 DEF NoLateCommand
  <2>2. CASE p \in Patches /\ thread[p] = "timeout"
    <3>1. op[p] # "lock"
      BY <2>2 DEF WaitsForThread
    <3>2. op[p] # "busy"
      BY <2>2 DEF HolderBusy, Actors
    <3> QED
      BY <2>2, <3>1, <3>2 DEF ActorTypes, Actors
  <2> QED
    BY <2>1, <2>2
<1> QED
  BY <1>1, <1>2, <1>3, <1>4, <1>5

\* The holder stays in its block, to disconnect, when its thread gives up.
LEMMA HolderStays ==
  ASSUME StripInv, NEW x \in Actors, session = x,
         UNCHANGED <<session, op, over>>,
         HearsEnd(x)
  PROVE  StripInv'
<1> USE DEF StripInv, HearsEnd
<1>1. op[x] = "busy"
  BY DEF HolderBusy
<1>2. WaitsForThread'
  BY <1>1 DEF ActorTypes, WaitsForThread
<1>3. ActorTypes' /\ HolderBusy' /\ OverIsTimedOut' /\ NoLateCommand'
  BY DEF ActorTypes, HolderBusy, OverIsTimedOut, NoLateCommand
<1> QED
  BY <1>2, <1>3

LEMMA FailsKeeps ==
  ASSUME StripInv, NEW x \in Actors, session = x, Fails(x), UNCHANGED over,
         HearsEnd(x)
  PROVE  StripInv'
<1>1. CASE UNCHANGED <<session, op>>
  BY <1>1, HolderStays
<1>2. CASE Leaves(x)
  BY <1>2, HolderLeaves DEF Leaves
<1> QED
  BY <1>1, <1>2 DEF Fails

LEMMA DoneKeeps ==
  ASSUME StripInv, NEW x \in Actors, NEW s, session = x, Done(x, s)
  PROVE  StripInv'
<1>1. Leaves(x)
  BY DEF Done
<1>2. CASE x = Poll
  <2>1. UNCHANGED <<thread, over>>
    BY <1>2 DEF Done
  <2> QED
    BY <1>1, <2>1, HolderLeaves DEF Leaves, HearsEnd
<1>3. CASE x # Poll
  <2>1. x \in Patches
    BY <1>3 DEF Actors
  <2>2. over' = over \cup {p \in Patches : thread[p] = "timeout"}
    BY <1>3 DEF Done
  <2>3. HearsEnd(x)
    BY <1>3, <2>1 DEF Done, Ended, Threads, HearsEnd
  <2> QED
    BY <1>1, <2>1, <2>2, <2>3, HolderLeaves DEF Leaves
<1> QED
  BY <1>2, <1>3

LEMMA OperateKeeps ==
  ASSUME StripInv, NEW x \in Actors, OperateStep(x)
  PROVE  StripInv'
<1>1. CASE Begin(x)
  <2>1. op' = [op EXCEPT ![x] = "busy"] /\ op[x] = "lock" /\ session = "none" /\ session' = x
    BY <1>1 DEF Begin
  <2>2. UNCHANGED <<thread, over>>
    BY <1>1 DEF Begin, requests, history
  <2>3. x \notin over
    BY <2>1 DEF StripInv, NoLateCommand
  <2>4. ActorTypes' /\ WaitsForThread' /\ OverIsTimedOut' /\ NoLateCommand'
    BY <2>1, <2>2, <2>3 DEF StripInv, ActorTypes, WaitsForThread, OverIsTimedOut, NoLateCommand, Actors
  <2>5. HolderBusy'
    BY <2>1, StripAssumption DEF StripInv, ActorTypes, HolderBusy
  <2> QED
    BY <2>4, <2>5 DEF StripInv
<1>2. CASE Connects(x) \/ Query(x) \/ Write(x)
  BY <1>2, StripStutter DEF Connects, Query, Write, requests, history, stripVars
<1>3. CASE Answer(x)
  <2>1. session = x
    BY <1>3 DEF Answer
  <2>2. PICK s : FirstAnswer(x, s) \/ ReadBack(x, s)
    BY <1>3 DEF Answer
  <2>3. Done(x, s) \/ UNCHANGED stripVars
    BY <2>2 DEF FirstAnswer, ReadBack, stripVars, history
  <2> QED
    BY <2>1, <2>3, DoneKeeps, StripStutter
<1>4. CASE NotConfirmed(x)
  BY <1>4, FailsKeeps DEF NotConfirmed, requests, HearsEnd
<1>5. CASE CallFails(x)
  <2>1. HearsEnd(x)
    BY <1>5 DEF CallFails, Ended, Threads, HearsEnd
  <2> QED
    BY <1>5, <2>1, FailsKeeps DEF CallFails
<1>6. CASE Closed(x)
  <2>1. HearsEnd(x)
    BY <1>6 DEF Closed, Ended, Threads, HearsEnd
  <2> QED
    BY <1>6, <2>1, HolderLeaves DEF Closed, Leaves
<1> QED
  BY <1>1, <1>2, <1>3, <1>4, <1>5, <1>6 DEF OperateStep

LEMMA GivesUpKeeps ==
  ASSUME StripInv, NEW p \in Patches, GivesUp(p)
  PROVE  StripInv'
<1>1. thread[p] = "pending" /\ HearsEnd(p) /\ thread'[p] = "timeout" /\ UNCHANGED over
  BY DEF GivesUp, Ended, Threads, HearsEnd, StripInv, ActorTypes
<1>2. p \in Actors
  BY DEF Actors
<1>3. CASE op[p] = "lock"
  <2>1. op' = [op EXCEPT ![p] = "idle"] /\ UNCHANGED session
    BY <1>3 DEF GivesUp, work
  <2>2. session # p
    BY <1>2, <1>3 DEF StripInv, HolderBusy
  <2> QED
    BY <1>1, <1>2, <1>3, <2>1, <2>2
       DEF HearsEnd, StripInv, ActorTypes, HolderBusy, WaitsForThread, OverIsTimedOut, NoLateCommand, Actors
<1>4. CASE op[p] = "busy"
  <2>1. session = p
    BY <1>2, <1>4 DEF StripInv, HolderBusy
  <2>2. Leaves(p) \/ Fails(p)
    BY <1>4 DEF GivesUp
  <2>3. CASE Leaves(p)
    BY <1>1, <1>2, <2>1, <2>3, HolderLeaves DEF Leaves
  <2>4. CASE Fails(p)
    BY <1>1, <1>2, <2>1, <2>4, FailsKeeps
  <2> QED
    BY <2>2, <2>3, <2>4
<1> QED
  BY <1>3, <1>4 DEF GivesUp

LEMMA ThreadKeeps ==
  ASSUME StripInv, NEW p \in Patches, ResultSaved(p) \/ Answered(p)
  PROVE  StripInv'
<1>1. /\ thread[p] \in {"result", "saved"}
      /\ \E a \in Threads \ {"idle", "pending"} : thread' = [thread EXCEPT ![p] = a]
      /\ UNCHANGED <<op, session, over>>
  BY DEF ResultSaved, Answered, work, history, Threads
<1> QED
  BY <1>1 DEF StripInv, ActorTypes, HolderBusy, WaitsForThread, OverIsTimedOut, NoLateCommand

LEMMA SubmitKeeps ==
  ASSUME StripInv, NEW p \in Patches, NEW b, Submit(p, b)
  PROVE  StripInv'
<1>1. /\ thread[p] = "idle"
      /\ thread' = [thread EXCEPT ![p] = "pending"]
      /\ op' = [op EXCEPT ![p] = "lock"]
      /\ UNCHANGED <<session, over>>
  BY DEF Submit, work, history
<1>2. p \notin over
  BY <1>1 DEF StripInv, OverIsTimedOut
<1> QED
  BY <1>1, <1>2, StripAssumption
     DEF StripInv, ActorTypes, Threads, HolderBusy, WaitsForThread, OverIsTimedOut, NoLateCommand, Actors

LEMMA StripStep == StripInv /\ [Next]_vars => StripInv'
<1> SUFFICES ASSUME StripInv, [Next]_vars PROVE StripInv'
  OBVIOUS
<1>1. CASE UNCHANGED vars
  BY <1>1, StripStutter DEF vars, work, requests, history, stripVars
<1>2. CASE Pressed \/ LinkLost \/ SnapshotExpires \/ Received
  BY <1>2, StripStutter
     DEF Pressed, LinkLost, SnapshotExpires, Received, work, requests, history, stripVars
<1>3. CASE PollWakes
  BY <1>3, StripAssumption DEF PollWakes, work, requests, history, StripInv, ActorTypes,
     HolderBusy, WaitsForThread, OverIsTimedOut, NoLateCommand, Actors
<1>4. CASE \E x \in Actors : OperateStep(x)
  BY <1>4, OperateKeeps
<1>5. CASE ThreadStep
  BY <1>5, ThreadKeeps DEF ThreadStep
<1>6. CASE \E p \in Patches : GivesUp(p)
  BY <1>6, GivesUpKeeps
<1>7. CASE \E p \in Patches : \E b \in Bodies : Submit(p, b)
  BY <1>7, SubmitKeeps
<1> QED
  BY <1>1, <1>2, <1>3, <1>4, <1>5, <1>6, <1>7 DEF Next, LoopStep

LEMMA StripInit == Init => StripInv
  BY StripAssumption DEF Init, StripInv, ActorTypes, Threads, HolderBusy, WaitsForThread,
     OverIsTimedOut, NoLateCommand, Actors

\* A PATCH whose thread gave up (SP651ETransport._run cancels it after 14 s)
\* is out of _operate() when a later PATCH is done, for any number of them.
THEOREM NoneUndone == Spec => []NoLateCommand
<1>1. Init => StripInv
  BY StripInit
<1>2. StripInv /\ [Next]_vars => StripInv'
  BY StripStep
<1>3. StripInv => NoLateCommand
  BY DEF StripInv
<1> QED
  BY <1>1, <1>2, <1>3, PTL DEF Spec

(***************************************************************************)
(* The types, and where the frames of a session come from                  *)
(***************************************************************************)
Shown == [power : BOOLEAN, level : 0..1]

RadioTypes ==
    /\ device \in States
    /\ client \in {"none", "up", "down"}
    /\ air \in Seq(States)
    /\ queue \in Seq(States)

WorkTypes ==
    /\ stage \in Stages
    /\ base \in States
    /\ todo \in Seq(Writes)
    /\ since \subseteq States

RequestTypes == body \in [Patches -> Bodies] /\ result \in [Patches -> States]

SnapshotType == cached = {} \/ \E v \in Shown : cached = {v}

Bounded == faults \in 0..MaxFaults /\ presses \in 0..MaxPresses

Known(s) == \A i \in 1..Len(s) : s[i] \in since

\* After a write the strip and the frames on their way are states it has had
\* since, and a drained queue holds only those, so that is what a read-back reads.
Reports ==
    /\ since # {} => device \in since /\ Known(air)
    /\ stage \in Queries \cup Answers \cup {"restore"} =>
          since # {} \/ stage \in {"query", "answer"}
    /\ stage \in {"reanswer", "lastanswer"} => Known(queue)
    /\ stage \in Writing => todo # <<>>
    /\ session \in Patches \/ stage \in {"none", "connect", "closing", "query", "answer"}

DataInv == RadioTypes /\ WorkTypes /\ RequestTypes /\ SnapshotType /\ Bounded /\ Reports

LEMMA SetState ==
  ASSUME NEW s \in States, NEW v \in BOOLEAN, NEW n \in 0..1
  PROVE  /\ [s EXCEPT !.static = TRUE, !.power = v] \in States
         /\ [s EXCEPT !.level = n, !.power = v] \in States
  BY DEF States

LEMMA LitState ==
  ASSUME NEW s \in States, NEW on \in BOOLEAN, NEW n \in 0..1
  PROVE  /\ [s EXCEPT !.static = TRUE, !.power = @ \/ on] \in States
         /\ [s EXCEPT !.level = n, !.power = @ \/ on] \in States
<1>1. (s.power \/ on) \in BOOLEAN
  OBVIOUS
<1> QED
  BY <1>1, SetState, Zenon

LEMMA AppliedState ==
  ASSUME device \in States, NEW w \in Writes
  PROVE  Applied(w) \subseteq States
<1>1. CASE w \in [what : {"power"}, power : BOOLEAN]
  BY <1>1 DEF Applied, States
<1>2. CASE w \in [what : {"static"}]
  <2>1. Applied(w) = {[device EXCEPT !.static = TRUE, !.power = @ \/ on] : on \in BOOLEAN}
    BY <1>2 DEF Applied
  <2>2. \A on \in BOOLEAN : [device EXCEPT !.static = TRUE, !.power = @ \/ on] \in States
    BY 0 \in 0..1, LitState
  <2> QED
    BY <2>1, <2>2
<1>3. CASE w \in [what : {"level"}, level : Targets]
  <2>1. w.level \in 0..1
    BY <1>3, StripAssumption
  <2>2. \A on \in BOOLEAN : [device EXCEPT !.level = w.level, !.power = @ \/ on] \in States
    BY <2>1, LitState
  <2>3. Applied(w) \subseteq {[device EXCEPT !.level = w.level, !.power = @ \/ on] : on \in BOOLEAN} \cup {device}
    BY <1>3 DEF Applied
  <2> QED
    BY <2>2, <2>3
<1> QED
  BY <1>1, <1>2, <1>3 DEF Writes

LEMMA CommandsTyped ==
  ASSUME NEW b \in Bodies, NEW s \in States
  PROVE  Commands(b, s) \in Seq(Writes) /\ Commands(b, s) # <<>>
<1> DEFINE
     st == When(~s.static, <<[what |-> "static"]>>)
     lv == When("level" \in DOMAIN b, st \o <<[what |-> "level", level |-> b.level]>>)
     pw == When("power" \in DOMAIN b, <<[what |-> "power", power |-> b.power]>>)
<1>1. st \in Seq(Writes)
  <2>1. [what |-> "static"] \in Writes
    BY DEF Writes
  <2> QED
    BY <2>1 DEF When
<1>2. ASSUME "level" \in DOMAIN b PROVE lv \in Seq(Writes) /\ lv # <<>>
  <2>1. [what |-> "level", level |-> b.level] \in Writes
    BY <1>2 DEF Bodies, Writes
  <2>2. lv = Append(st, [what |-> "level", level |-> b.level])
    BY <1>1, <1>2, <2>1, AppendIsConcat DEF When
  <2> HIDE DEF st, lv
  <2> QED
    BY <1>1, <2>1, <2>2, AppendProperties
<1>3. ASSUME "power" \in DOMAIN b PROVE pw \in Seq(Writes) /\ pw # <<>>
  <2>1. [what |-> "power", power |-> b.power] \in Writes
    BY <1>3 DEF Bodies, Writes
  <2> QED
    BY <1>3, <2>1 DEF When
<1>4. "level" \notin DOMAIN b => lv = <<>>
  BY DEF When
<1>5. "power" \notin DOMAIN b => pw = <<>>
  BY DEF When
<1>6. "level" \in DOMAIN b \/ "power" \in DOMAIN b
  BY DEF Bodies
<1>7. Commands(b, s) = lv \o pw
  BY DEF Commands
<1> HIDE DEF st, lv, pw
<1>8. lv \in Seq(Writes) /\ pw \in Seq(Writes) /\ (lv # <<>> \/ pw # <<>>)
  <2>1. <<>> \in Seq(Writes)
    OBVIOUS
  <2>2. lv \in Seq(Writes) /\ ("level" \in DOMAIN b => lv # <<>>)
    BY <1>2, <1>4, <2>1
  <2>3. pw \in Seq(Writes) /\ ("power" \in DOMAIN b => pw # <<>>)
    BY <1>3, <1>5, <2>1
  <2> QED
    BY <1>6, <2>2, <2>3
<1>9. lv \o pw \in Seq(Writes) /\ Len(lv \o pw) = Len(lv) + Len(pw)
  BY <1>8, ConcatProperties
<1>10. Len(lv \o pw) # 0
  BY <1>8, <1>9, EmptySeq, LenProperties
<1> QED
  BY <1>7, <1>9, <1>10, EmptySeq

LEMMA VisibleShown == ASSUME NEW s \in States PROVE Visible(s) \in Shown
  BY DEF Visible, States, Shown

LEMMA HeadTail ==
  ASSUME NEW S, NEW s \in Seq(S), s # <<>>
  PROVE  Head(s) \in S /\ Tail(s) \in Seq(S)
  BY HeadTailProperties

LEMMA LongTail ==
  ASSUME NEW S, NEW s \in Seq(S), Len(s) > 1
  PROVE  Tail(s) # <<>>
<1>1. s # <<>> /\ Len(s) \in Nat
  BY EmptySeq, LenProperties
<1>2. Len(Tail(s)) = Len(s) - 1
  BY <1>1, HeadTailProperties
<1>3. Len(Tail(s)) # 0
  BY <1>1, <1>2
<1> QED
  BY <1>3, EmptySeq

LEMMA KnownHead ==
  ASSUME NEW s \in Seq(States), s # <<>>, Known(s)
  PROVE  Head(s) \in since /\ Known(Tail(s))
<1>1. /\ Len(s) \in Nat \ {0} /\ Head(s) = s[1]
      /\ Len(Tail(s)) = Len(s) - 1 /\ \A i \in 1..Len(Tail(s)) : Tail(s)[i] = s[i + 1]
  BY HeadTailProperties, EmptySeq, LenProperties
<1> QED
  BY <1>1 DEF Known

LEMMA KnownAppend ==
  ASSUME NEW s \in Seq(States), NEW d \in States, Known(s), since \subseteq since', d \in since'
  PROVE  \A i \in 1..Len(Append(s, d)) : Append(s, d)[i] \in since'
<1>1. /\ Len(s) \in Nat /\ Len(Append(s, d)) = Len(s) + 1
      /\ \A i \in 1..Len(s) : Append(s, d)[i] = s[i]
      /\ Append(s, d)[Len(s) + 1] = d
  BY AppendProperties, LenProperties
<1> QED
  BY <1>1 DEF Known

\* A write that may have been made leaves the strip in one of its states.
LEMMA WrittenState ==
  ASSUME RadioTypes, WorkTypes, Reports, MayHaveWritten
  PROVE  device' \in States
<1>1. CASE UNCHANGED device
  BY <1>1 DEF RadioTypes
<1>2. CASE stage \in Writing /\ device' \in Applied(Head(todo))
  <2>1. Head(todo) \in Writes
    BY <1>2, HeadTail DEF WorkTypes, Reports
  <2> QED
    BY <1>2, <2>1, AppliedState DEF RadioTypes
<1> QED
  BY <1>1, <1>2 DEF MayHaveWritten

\* Once the holder has left, or only disconnects, no frame is waited for.
LEMMA LeavesData ==
  ASSUME NEW x, Leaves(x)
  PROVE  WorkTypes' /\ Reports'
  BY DEF Leaves, WorkTypes, Reports, Stages, States, Dark, Queries, Answers, Writing

LEMMA FailsData ==
  ASSUME DataInv, NEW x, Fails(x), MayHaveWritten
  PROVE  RadioTypes' /\ WorkTypes' /\ SnapshotType' /\ Reports'
<1>1. RadioTypes'
  BY WrittenState DEF DataInv, RadioTypes, Fails
<1>2. SnapshotType'
  BY DEF Fails, SnapshotType
<1>3. CASE stage' = "closing" /\ since' = {} /\ UNCHANGED <<base, todo>>
  BY <1>1, <1>2, <1>3 DEF DataInv, WorkTypes, Reports, Stages, Queries, Answers, Writing
<1>4. CASE Leaves(x)
  BY <1>1, <1>2, <1>4, LeavesData
<1> QED
  BY <1>3, <1>4 DEF Fails

LEMMA EndedBody ==
  ASSUME RequestTypes, NEW x, NEW a, Ended(x, a)
  PROVE  body' \in [Patches -> Bodies]
<1>1. Nothing \in Bodies
  BY DEF Nothing, Bodies
<1> QED
  BY <1>1 DEF RequestTypes, Ended

LEMMA FaultBounded ==
  ASSUME Bounded, Fault, UNCHANGED presses
  PROVE  Bounded'
  BY StripAssumption DEF Bounded, Fault

LEMMA SaveSnapshot ==
  ASSUME NEW s \in States, Save(s)
  PROVE  SnapshotType'
  BY VisibleShown DEF Save, SnapshotType

LEMMA DoneData ==
  ASSUME DataInv, NEW x \in Actors, NEW s \in States, Done(x, s)
  PROVE  WorkTypes' /\ Reports' /\ RequestTypes' /\ SnapshotType'
<1>1. WorkTypes' /\ Reports'
  BY LeavesData DEF Done
<1>2. CASE x = Poll
  BY <1>1, <1>2, SaveSnapshot DEF Done, DataInv, RequestTypes
<1>3. CASE x # Poll
  <2>1. body' \in [Patches -> Bodies]
    BY <1>3, EndedBody DEF Done, DataInv, RequestTypes
  <2>2. result' \in [Patches -> States]
    <3>1. Dark \in States
      BY DEF Dark, States
    <3>2. result' = [result EXCEPT ![x] = s] \/ result' = [result EXCEPT ![x] = Dark]
      BY <1>3 DEF Done
    <3> QED
      BY <3>1, <3>2 DEF DataInv, RequestTypes
  <2>3. SnapshotType'
    BY <1>3 DEF Done, DataInv, SnapshotType
  <2> QED
    BY <1>1, <2>1, <2>2, <2>3 DEF RequestTypes
<1> QED
  BY <1>2, <1>3

\* A report of a state that the strip has had since the holder's last write.
LEMMA ReportData ==
  ASSUME RadioTypes, device' \in States, Report
  PROVE  /\ air' \in Seq(States)
         /\ Known(air) /\ since \subseteq since' /\ device' \in since' => Known(air)'
<1>1. CASE air' = Append(air, device')
  BY <1>1, AppendProperties, KnownAppend DEF RadioTypes, Known
<1>2. CASE UNCHANGED air
  BY <1>2 DEF RadioTypes, Known
<1> QED
  BY <1>1, <1>2 DEF Report

LEMMA ToggledState ==
  ASSUME NEW s \in States
  PROVE  /\ [s EXCEPT !.power = ~@] \in States
         /\ [s EXCEPT !.level = 1 - @] \in States
         /\ [s EXCEPT !.static = ~@] \in States
<1>1. \A v \in BOOLEAN : [s EXCEPT !.power = v] \in States /\ [s EXCEPT !.static = v] \in States
  BY DEF States
<1>2. (~s.power) \in BOOLEAN /\ (~s.static) \in BOOLEAN
  OBVIOUS
<1>3. [s EXCEPT !.level = 1 - @] \in States
  BY DEF States
<1> QED
  BY <1>1, <1>2, <1>3, Zenon

LEMMA OutsideData ==
  ASSUME DataInv, Pressed \/ LinkLost \/ SnapshotExpires \/ Received
  PROVE  DataInv'
<1> USE DEF DataInv
<1>1. CASE Pressed
  <2>1. device' \in States
    <3>1. /\ [device EXCEPT !.power = ~@] \in States
          /\ [device EXCEPT !.level = 1 - @] \in States
          /\ [device EXCEPT !.static = ~@] \in States
      BY ToggledState DEF RadioTypes
    <3> QED
      BY <1>1, <3>1 DEF Pressed
  <2>2. since' \subseteq States /\ since \subseteq since' /\ (since' # {} => since # {} /\ device' \in since')
    BY <1>1, <2>1 DEF Pressed, WorkTypes
  <2>3. air' \in Seq(States) /\ (since' # {} => Known(air)')
    BY <1>1, <2>1, <2>2, ReportData DEF Pressed, Reports
  <2>4. UNCHANGED <<client, queue, session, stage, base, todo, body, result, cached, faults>>
    BY <1>1 DEF Pressed, work, requests
  <2>5. RadioTypes' /\ WorkTypes' /\ RequestTypes' /\ SnapshotType'
    BY <2>1, <2>2, <2>3, <2>4 DEF RadioTypes, WorkTypes, RequestTypes, SnapshotType
  <2>6. Bounded'
    BY <1>1, <2>4, StripAssumption DEF Pressed, Bounded
  <2>7. Known(queue) => Known(queue)'
    BY <2>2, <2>4 DEF Known
  <2>8. Reports'
    BY <2>2, <2>3, <2>4, <2>7 DEF Reports, Queries, Answers
  <2> QED
    BY <2>5, <2>6, <2>8
<1>2. CASE LinkLost
  <2>1. air' = <<>> /\ client' = "down" /\ Fault
        /\ UNCHANGED <<device, queue, session, stage, base, todo, body, result, cached, since, presses>>
    BY <1>2 DEF LinkLost, work, requests, history
  <2>2. RadioTypes' /\ WorkTypes' /\ RequestTypes' /\ SnapshotType'
    BY <2>1 DEF RadioTypes, WorkTypes, RequestTypes, SnapshotType
  <2>3. Known(air)' /\ (Known(queue) => Known(queue)')
    BY <2>1 DEF Known
  <2>4. Reports'
    BY <2>1, <2>3 DEF Reports
  <2> QED
    BY <2>1, <2>2, <2>4, FaultBounded
<1>3. CASE SnapshotExpires
  <2>1. cached' = {} /\ Fault
        /\ UNCHANGED <<device, client, air, queue, session, stage, base, todo, body, result, since, presses>>
    BY <1>3 DEF SnapshotExpires, radio, work, requests, history
  <2>2. RadioTypes' /\ WorkTypes' /\ RequestTypes' /\ SnapshotType' /\ Reports'
    BY <2>1 DEF RadioTypes, WorkTypes, RequestTypes, SnapshotType, Reports, Known
  <2> QED
    BY <2>1, <2>2, FaultBounded
<1>4. CASE Received
  <2>1. air # <<>> /\ queue' = Append(queue, Head(air)) /\ air' = Tail(air) /\ Save(Head(air))
        /\ UNCHANGED <<device, client, session, stage, base, todo, body, result, since, faults, presses>>
    BY <1>4 DEF Received, work, requests, history
  <2>2. Head(air) \in States /\ Tail(air) \in Seq(States)
    BY <2>1, HeadTail DEF RadioTypes
  <2>3. RadioTypes'
    BY <2>1, <2>2, AppendProperties DEF RadioTypes
  <2>4. SnapshotType'
    BY <2>1, <2>2, SaveSnapshot
  <2>5. WorkTypes' /\ RequestTypes' /\ Bounded'
    BY <2>1 DEF WorkTypes, RequestTypes, Bounded
  <2>6. Known(air) => Head(air) \in since /\ Known(air)'
    <3>1. Known(air) => Head(air) \in since /\ Known(Tail(air))
      BY <2>1, KnownHead DEF RadioTypes
    <3> QED
      BY <2>1, <3>1 DEF Known
  <2>7. Known(air) /\ Known(queue) => Known(queue)'
    <3> SUFFICES ASSUME Known(air), Known(queue) PROVE Known(queue)'
      OBVIOUS
    <3>1. \A i \in 1..Len(Append(queue, Head(air))) : Append(queue, Head(air))[i] \in since'
      BY <2>1, <2>2, <2>6, KnownAppend DEF RadioTypes
    <3> QED
      BY <2>1, <3>1 DEF Known
  <2>8. Reports'
    BY <2>1, <2>6, <2>7 DEF Reports, Queries, Answers
  <2> QED
    BY <2>3, <2>4, <2>5, <2>8
<1> QED
  BY <1>1, <1>2, <1>3, <1>4

LEMMA AnswerData ==
  ASSUME StripInv, DataInv, NEW x \in Actors, Answer(x)
  PROVE  DataInv'
<1> USE DEF DataInv
<1> DEFINE s == Head(queue)
<1>1. /\ session = x /\ stage \in Answers /\ queue # <<>>
      /\ queue' = Tail(queue) /\ UNCHANGED <<device, air, faults, presses>>
      /\ FirstAnswer(x, s) \/ ReadBack(x, s)
  BY DEF Answer
<1>2. s \in States /\ queue' \in Seq(States)
  BY <1>1, HeadTail DEF RadioTypes
<1> HIDE DEF s
<1>3. Bounded' /\ (UNCHANGED client => RadioTypes')
  BY <1>1, <1>2 DEF Bounded, RadioTypes
<1>4. CASE Done(x, s) /\ UNCHANGED client
  BY <1>2, <1>3, <1>4, DoneData
<1>5. CASE FirstAnswer(x, s) /\ x # Poll /\ stage' = "write"
  <2>1. /\ base' = s /\ todo' = Commands(body[x], s)
        /\ UNCHANGED <<session, body, result, client, cached, since>>
        /\ x \in Patches
    BY <1>5, StripAssumption DEF FirstAnswer, history, Actors, Done, Leaves
  <2>2. todo' \in Seq(Writes) /\ todo' # <<>>
    BY <1>2, <2>1, CommandsTyped DEF RequestTypes
  <2>3. WorkTypes' /\ RequestTypes' /\ SnapshotType'
    BY <1>2, <1>5, <2>1, <2>2 DEF WorkTypes, RequestTypes, SnapshotType, Stages, Writing
  <2>4. Known(air) => Known(air)'
    BY <1>1, <2>1 DEF Known
  <2>5. Reports'
    BY <1>1, <1>5, <2>1, <2>2, <2>4 DEF Reports, Queries, Answers, Writing
  <2> QED
    BY <1>3, <2>1, <2>3, <2>5
<1>6. CASE ReadBack(x, s) /\ NeedsRestore(x, s) /\ stage' = "restore"
  <2>1. /\ todo' = <<[what |-> "power", power |-> base.power]>>
        /\ UNCHANGED <<session, base, body, result, client, cached, since>>
        /\ stage \in {"reanswer", "lastanswer"}
    BY <1>6 DEF ReadBack, history, NeedsRestore, Done, Leaves
  <2>2. todo' \in Seq(Writes) /\ todo' # <<>>
    <3>1. [what |-> "power", power |-> base.power] \in Writes
      BY DEF WorkTypes, States, Writes
    <3> QED
      BY <2>1, <3>1
  <2>3. WorkTypes' /\ RequestTypes' /\ SnapshotType'
    BY <1>6, <2>1, <2>2 DEF WorkTypes, RequestTypes, SnapshotType, Stages, Writing
  <2>4. Known(air) => Known(air)'
    BY <1>1, <2>1 DEF Known
  <2>5. Reports'
    BY <1>1, <1>6, <2>1, <2>2, <2>4 DEF Reports, Queries, Answers, Writing
  <2> QED
    BY <1>3, <2>1, <2>3, <2>5
<1> QED
  BY <1>1, <1>4, <1>5, <1>6 DEF FirstAnswer, ReadBack

LEMMA WriteData ==
  ASSUME DataInv, NEW x \in Actors, Write(x)
  PROVE  DataInv'
<1> USE DEF DataInv
<1>1. /\ stage \in Writing /\ air = <<>> /\ device' \in Applied(Head(todo)) /\ since' = {device'}
      /\ Report /\ todo' = Tail(todo)
      /\ stage' = IF Len(todo) > 1 THEN stage ELSE IF stage = "write" THEN "requery" ELSE "lastquery"
      /\ UNCHANGED <<client, queue, session, base, body, result, cached, faults, presses>>
  BY DEF Write, requests
<1>2. todo # <<>> /\ Head(todo) \in Writes /\ todo' \in Seq(Writes)
  BY <1>1, HeadTail DEF Reports, WorkTypes
<1>3. device' \in States
  BY <1>1, <1>2, AppliedState DEF RadioTypes
<1>4. air' \in Seq(States)
  BY <1>3, <1>1, ReportData
<1>5. Known(air)'
  BY <1>1, <1>3 DEF Report, Known
<1>6. Len(todo) > 1 => todo' # <<>>
  BY <1>1, <1>2, LongTail DEF WorkTypes
<1>7. RadioTypes' /\ RequestTypes' /\ SnapshotType' /\ Bounded'
  BY <1>1, <1>3, <1>4 DEF RadioTypes, RequestTypes, SnapshotType, Bounded
<1>8. WorkTypes'
  BY <1>1, <1>2, <1>3 DEF WorkTypes, Stages, Queries, Writing
<1>9. session' \in Patches
  BY <1>1 DEF Reports, Writing
<1>10. Reports'
  BY <1>1, <1>5, <1>6, <1>9 DEF Reports, Queries, Answers, Writing
<1> QED
  BY <1>7, <1>8, <1>10

LEMMA OperateData ==
  ASSUME StripInv, DataInv, NEW x \in Actors, OperateStep(x)
  PROVE  DataInv'
<1> USE DEF DataInv
<1>1. CASE Begin(x)
  <2>1. /\ session = "none" /\ session' = x /\ stage' \in {"query", "connect"}
        /\ UNCHANGED <<device, client, air, queue, base, todo, body, result, cached, since, faults, presses>>
    BY <1>1 DEF Begin, radio, requests, history
  <2>2. RadioTypes' /\ WorkTypes' /\ RequestTypes' /\ SnapshotType' /\ Bounded'
    BY <2>1 DEF RadioTypes, WorkTypes, RequestTypes, SnapshotType, Bounded, Stages, Queries
  <2>3. Reports'
    BY <2>1 DEF Reports, Known, Queries, Answers, Writing
  <2> QED
    BY <2>2, <2>3
<1>2. CASE Connects(x)
  <2>1. /\ client' = "up" /\ air' = <<>> /\ queue' = <<>> /\ stage' = "query"
        /\ UNCHANGED <<device, session, base, todo, body, result, cached, since, faults, presses>>
    BY <1>2 DEF Connects, requests, history
  <2>2. RadioTypes' /\ WorkTypes' /\ RequestTypes' /\ SnapshotType' /\ Bounded'
    BY <2>1 DEF RadioTypes, WorkTypes, RequestTypes, SnapshotType, Bounded, Stages, Queries
  <2>3. Reports'
    BY <2>1 DEF Reports, Known, Queries, Answers, Writing
  <2> QED
    BY <2>2, <2>3
<1>3. CASE Query(x)
  <2>1. /\ stage \in Queries /\ queue' = <<>> /\ air' = Append(air, device) /\ stage' = AnswerOf(stage)
        /\ UNCHANGED <<device, client, session, base, todo, body, result, cached, since, faults, presses>>
    BY <1>3 DEF Query, requests, history
  <2>2. air' \in Seq(States) /\ (since # {} => Known(air)')
    BY <2>1, AppendProperties, KnownAppend DEF RadioTypes, Reports, Known
  <2>3. stage' \in Answers /\ (stage' = "answer" <=> stage = "query")
    BY <2>1 DEF AnswerOf, Queries, Answers
  <2>4. RadioTypes' /\ WorkTypes' /\ RequestTypes' /\ SnapshotType' /\ Bounded'
    BY <2>1, <2>2, <2>3 DEF RadioTypes, WorkTypes, RequestTypes, SnapshotType, Bounded, Stages
  <2>5. Known(queue)'
    BY <2>1 DEF Known
  <2>6. Reports'
    BY <2>1, <2>2, <2>3, <2>5 DEF Reports, Queries, Answers, Writing
  <2> QED
    BY <2>4, <2>6
<1>4. CASE Answer(x)
  BY <1>4, AnswerData
<1>5. CASE NotConfirmed(x)
  <2>1. Fails(x) /\ UNCHANGED device /\ UNCHANGED <<body, result, faults, presses>>
    BY <1>5 DEF NotConfirmed, requests
  <2>2. RadioTypes' /\ WorkTypes' /\ SnapshotType' /\ Reports'
    BY <2>1, FailsData DEF MayHaveWritten
  <2> QED
    BY <2>1, <2>2 DEF RequestTypes, Bounded
<1>6. CASE Write(x)
  BY <1>6, WriteData
<1>7. CASE CallFails(x)
  <2>1. RadioTypes' /\ WorkTypes' /\ SnapshotType' /\ Reports'
    BY <1>7, FailsData DEF CallFails
  <2>2. RequestTypes'
    BY <1>7, EndedBody DEF CallFails, RequestTypes
  <2>3. Bounded'
    BY <1>7, FaultBounded DEF CallFails, Bounded
  <2> QED
    BY <2>1, <2>2, <2>3
<1>8. CASE Closed(x)
  <2>1. WorkTypes' /\ Reports'
    BY <1>8, LeavesData DEF Closed
  <2>2. RequestTypes'
    BY <1>8, EndedBody DEF Closed, RequestTypes
  <2>3. RadioTypes' /\ SnapshotType' /\ Bounded'
    BY <1>8 DEF Closed, radio, RadioTypes, SnapshotType, Bounded
  <2> QED
    BY <2>1, <2>2, <2>3
<1> QED
  BY <1>1, <1>2, <1>3, <1>4, <1>5, <1>6, <1>7, <1>8 DEF OperateStep

LEMMA ThreadData ==
  ASSUME DataInv, NEW p \in Patches,
         GivesUp(p) \/ ResultSaved(p) \/ Answered(p) \/ \E b \in Bodies : Submit(p, b)
  PROVE  DataInv'
<1> USE DEF DataInv
<1>1. CASE GivesUp(p)
  <2>1. RequestTypes'
    BY <1>1, EndedBody DEF GivesUp, RequestTypes
  <2>2. Bounded'
    BY <1>1, FaultBounded DEF GivesUp
  <2>3. CASE UNCHANGED <<radio, work, cached, since>>
    BY <2>1, <2>2, <2>3 DEF radio, work, RadioTypes, WorkTypes, SnapshotType, Reports, Known
  <2>4. CASE Leaves(p) /\ UNCHANGED <<radio, cached>>
    BY <2>1, <2>2, <2>4, LeavesData DEF radio, RadioTypes, SnapshotType
  <2>5. CASE MayHaveWritten /\ Fails(p)
    BY <2>1, <2>2, <2>5, FailsData
  <2> QED
    BY <1>1, <2>3, <2>4, <2>5 DEF GivesUp
<1>2. CASE ResultSaved(p) \/ Answered(p) \/ \E b \in Bodies : Submit(p, b)
  <2>1. UNCHANGED <<device, client, air, queue, session, stage, base, todo, since, faults, presses>>
    BY <1>2 DEF ResultSaved, Answered, Submit, radio, work, history
  <2>2. RadioTypes' /\ WorkTypes' /\ Reports' /\ Bounded'
    BY <2>1 DEF RadioTypes, WorkTypes, Reports, Known, Bounded
  <2>3. RequestTypes'
    <3>1. Nothing \in Bodies /\ Dark \in States
      BY DEF Nothing, Bodies, Dark, States
    <3> QED
      BY <1>2, <3>1 DEF ResultSaved, Answered, Submit, RequestTypes
  <2>4. SnapshotType'
    <3>1. CASE ResultSaved(p)
      BY <3>1, SaveSnapshot DEF ResultSaved, RequestTypes
    <3>2. CASE Answered(p) \/ \E b \in Bodies : Submit(p, b)
      BY <3>2 DEF Answered, Submit, SnapshotType
    <3> QED
      BY <1>2, <3>1, <3>2
  <2> QED
    BY <2>2, <2>3, <2>4
<1> QED
  BY <1>1, <1>2

LEMMA DataStep == StripInv /\ DataInv /\ [Next]_vars => DataInv'
<1> SUFFICES ASSUME StripInv, DataInv, [Next]_vars PROVE DataInv'
  OBVIOUS
<1>1. CASE UNCHANGED vars
  BY <1>1 DEF vars, radio, work, requests, history, DataInv, RadioTypes, WorkTypes, RequestTypes,
     SnapshotType, Bounded, Reports, Known
<1>2. CASE PollWakes
  BY <1>2 DEF PollWakes, radio, work, requests, history, DataInv, RadioTypes, WorkTypes, RequestTypes,
     SnapshotType, Bounded, Reports, Known
<1>3. CASE Next /\ ~PollWakes
  BY <1>3, OutsideData, OperateData, ThreadData DEF Next, LoopStep, ThreadStep
<1> QED
  BY <1>1, <1>2, <1>3

LEMMA DataInit == Init => DataInv
  BY StripAssumption, EmptySeq DEF Init, DataInv, RadioTypes, WorkTypes, RequestTypes, SnapshotType, Bounded,
     Reports, Known, States, Dark, Nothing, Bodies, Stages, Queries, Answers, Writing

\* The transport keeps frames, writes, snapshot and answers of the kinds
\* sp651e.py declares, in every order of polls, requests, pushes and failures.
THEOREM StripTyped == Spec => []TypeOK
<1>1. Init => StripInv /\ DataInv
  BY StripInit, DataInit
<1>2. StripInv /\ DataInv /\ [Next]_vars => StripInv' /\ DataInv'
  BY StripStep, DataStep
<1>3. StripInv /\ DataInv => TypeOK
  <2> SUFFICES ASSUME StripInv, DataInv PROVE TypeOK
    OBVIOUS
  <2>1. cached \in SUBSET Shown /\ Cardinality(cached) <= 1
    <3>1. CASE cached = {}
      BY <3>1, FS_EmptySet
    <3>2. ASSUME NEW v \in Shown, cached = {v} PROVE cached \in SUBSET Shown /\ Cardinality(cached) = 1
      BY <3>2, FS_Singleton
    <3> QED
      BY <3>1, <3>2 DEF DataInv, SnapshotType
  <2>2. over \subseteq Patches
    BY DEF StripInv, OverIsTimedOut
  <2> QED
    BY <2>1, <2>2 DEF StripInv, ActorTypes, Threads, DataInv, RadioTypes, WorkTypes, RequestTypes,
       Bounded, Shown, TypeOK
<1> QED
  BY <1>1, <1>2, <1>3, PTL DEF Spec

\* Only a read-back ends a PATCH with a result, and it read a frame that
\* the strip sent after the last write (SP651ETransport._operate drains the
\* queue before each query).
LEMMA ResultIsReadBack ==
  ASSUME StripInv, DataInv, [Next]_vars,
         NEW p \in Patches, thread[p] = "pending", thread'[p] = "result"
  PROVE  result'[p] \in since /\ Confirms(body[p], result'[p])
<1> DEFINE s == Head(queue)
<1>1. Answer(p) /\ session = p
  <2>1. ASSUME NEW x \in Actors, OperateStep(x) PROVE x = p /\ Answer(x)
    <3>1. thread' # thread
      OBVIOUS
    <3>2. CASE CallFails(x) \/ Closed(x)
      BY <3>2 DEF CallFails, Closed, Ended, StripInv, ActorTypes
    <3>3. CASE Begin(x) \/ Connects(x) \/ Query(x) \/ Write(x) \/ NotConfirmed(x)
      BY <3>1, <3>3 DEF Begin, Connects, Query, Write, NotConfirmed, requests
    <3>4. CASE Answer(x)
      <4>1. PICK r : Done(x, r)
        BY <3>1, <3>4 DEF Answer, FirstAnswer, ReadBack
      <4>2. PICK a : Ended(x, a)
        BY <3>1, <4>1 DEF Done
      <4> QED
        BY <3>4, <4>2 DEF Ended, StripInv, ActorTypes
    <3> QED
      BY <2>1, <3>2, <3>3, <3>4 DEF OperateStep
  <2>2. ASSUME NEW q \in Patches,
               GivesUp(q) \/ ResultSaved(q) \/ Answered(q) \/ \E b \in Bodies : Submit(q, b)
        PROVE  FALSE
    BY <2>2 DEF GivesUp, Ended, ResultSaved, Answered, Submit, StripInv, ActorTypes
  <2>3. ~(Pressed \/ LinkLost \/ SnapshotExpires \/ Received \/ PollWakes \/ UNCHANGED vars)
    BY DEF Pressed, LinkLost, SnapshotExpires, Received, PollWakes, vars, requests
  <2>4. PICK x \in Actors : OperateStep(x)
    <3>1. Next /\ ~(Pressed \/ LinkLost \/ SnapshotExpires \/ Received \/ PollWakes)
      BY <2>3
    <3>2. ~ThreadStep
      BY <2>2 DEF ThreadStep
    <3>3. ~\E q \in Patches : GivesUp(q) \/ \E b \in Bodies : Submit(q, b)
      BY <2>2
    <3> QED
      BY <3>1, <3>2, <3>3, Zenon DEF Next, LoopStep
  <2> QED
    BY <2>1, <2>4 DEF Answer
<1>2. p \in Actors /\ p # Poll
  BY StripAssumption DEF Actors
<1>3. queue # <<>> /\ queue \in Seq(States) /\ (FirstAnswer(p, s) \/ ReadBack(p, s))
  BY <1>1 DEF Answer, DataInv, RadioTypes
<1> HIDE DEF s
<1>4. stage \in {"reanswer", "lastanswer"} /\ Confirms(body[p], s) /\ Done(p, s)
  BY <1>2, <1>3 DEF FirstAnswer, ReadBack
<1>5. result'[p] = s
  BY <1>2, <1>4 DEF Done, DataInv, RequestTypes
<1>6. s \in since
  BY <1>3, <1>4, KnownHead DEF s, DataInv, Reports
<1> QED
  BY <1>4, <1>5, <1>6

\* Whatever was pushed, delayed or left over in the queue, a PATCH returns
\* what a frame read after its last write said, and that agrees with it.
THEOREM ReadBackIsReal == Spec => ConfirmedWasReal
<1>1. Init => StripInv /\ DataInv
  BY StripInit, DataInit
<1>2. StripInv /\ DataInv /\ [Next]_vars => StripInv' /\ DataInv'
  BY StripStep, DataStep
<1>3. StripInv /\ DataInv /\ [Next]_vars =>
        [\A p \in Patches : thread[p] = "pending" /\ thread'[p] = "result" =>
            result'[p] \in since /\ Confirms(body[p], result'[p])]_vars
  BY ResultIsReadBack
<1> QED
  BY <1>1, <1>2, <1>3, PTL DEF Spec, ConfirmedWasReal
=============================================================================
