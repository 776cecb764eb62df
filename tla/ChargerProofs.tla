---------------------------- MODULE ChargerProofs ----------------------------
(***************************************************************************)
(* The charger's worker forgets no operation, starts none late, loses no   *)
(* acknowledged switch and implements the atomic switches of PortSwitches, *)
(* for any callers, ports, timeouts, presses and lost links.  Its session  *)
(* rebuilds the counter of every frame and reads the frames in order, for  *)
(* any width of the counter and size of the queues.                        *)
(***************************************************************************)
EXTENDS ChargerCommands, ChargerSession, SequenceTheorems, TLAPS

(***************************************************************************)
(* The manager's operations                                                *)
(***************************************************************************)

\* While the worker is not inside an operation it has none in its hands.
Outcomes == {"idle", "waiting", "timeout", "ok", "unacked", "error"}

HandsInv ==
    /\ status \in [Callers -> Outcomes]
    /\ queue \in Seq(Callers)
    /\ cur \in Callers \cup {"worker"}
    /\ cur \in Callers => phase \in {"get", "send", "set", "down"}

CommandsInv == HandsInv /\ NobodyForgotten

\* Finishing a call empties the worker's hands.
LEMMA BackEmptiesHands == Back => phase' = "loop" /\ cur' = "worker"
  BY DEF Back

\* The worker's hands agree with its place.
LEMMA HandsStep == HandsInv /\ [Next]_vars => HandsInv'
<1> SUFFICES ASSUME HandsInv, [Next]_vars
             PROVE  HandsInv'
  OBVIOUS
<1> USE CommandsAssumption DEF HandsInv, CommandsAssumption, Answer, NotSet, Outcomes
<1>1. ASSUME NEW c \in Callers, Execute(c) \/ CallerTimesOut(c)
      PROVE  HandsInv'
  BY <1>1 DEF Execute, CallerTimesOut, worker
<1>2. ASSUME NEW p \in Ports, PortPressed(p)
      PROVE  HandsInv'
  BY <1>2 DEF PortPressed, worker, calls
<1>3. CASE LinkLost \/ Stop \/ Ended
  BY <1>3 DEF LinkLost, Stop, Ended, vars, worker, calls
<1>4. CASE RuntimeEnds
  BY <1>4 DEF RuntimeEnds
<1>5. CASE Reconnect \/ LoopEnds \/ ReceiveWindow \/ Receive \/ SkipFrame \/ RefreshStarts
  BY <1>5 DEF Reconnect, LoopEnds, ReceiveWindow, Receive, SkipFrame, RefreshStarts, Awaiting, calls
<1>6. CASE TakeNext
  <2>1. queue' \in Seq(Callers) /\ Head(queue) \in Callers
    BY <1>6 DEF TakeNext
  <2> QED
    BY <1>6, <2>1 DEF TakeNext
<1>7. CASE Refreshed \/ GetTimesOut \/ SendSetFails \/ SetDone \/ SetTimesOut
  BY <1>7, BackEmptiesHands DEF Refreshed, GetTimesOut, SendSetFails, SetDone, SetTimesOut, calls
<1>8. CASE MaskRead
  BY <1>8, BackEmptiesHands DEF MaskRead
<1>9. CASE SendSet \/ SetFrame
  BY <1>9 DEF SendSet, SetFrame, calls
<1>10. CASE UNCHANGED vars
  BY <1>10 DEF vars, worker, calls
<1> QED
  BY <1>1, <1>2, <1>3, <1>4, <1>5, <1>6, <1>7, <1>8, <1>9, <1>10 DEF Next, WorkerStep

\* What the queue or the worker holds stays there until it is answered.
LEMMA HeldStep == CommandsInv /\ [Next]_vars => NobodyForgotten'
<1> SUFFICES ASSUME CommandsInv, [Next]_vars, NEW d \in Callers, status'[d] = "waiting"
             PROVE  (cur = d \/ \E i \in 1..Len(queue) : queue[i] = d)'
  BY DEF NobodyForgotten
<1> DEFINE Held == cur = d \/ \E i \in 1..Len(queue) : queue[i] = d
<1>0. status[d] = "waiting" => Held
  BY DEF CommandsInv, NobodyForgotten
<1>a. queue \in Seq(Callers) /\ status \in [Callers -> Outcomes] /\ cur \in Callers \cup {"worker"}
  BY DEF CommandsInv, HandsInv
<1>b. \A c \in Callers \cup {"worker"} :
         \A s \in {"ok", "unacked", "error"} : Answer(c, s) => status[d] = "waiting" /\ c # d
  <2>1. status \in [Callers -> Outcomes]
    BY DEF CommandsInv, HandsInv
  <2> QED
    BY <2>1 DEF Answer
<1>1. ASSUME NEW c \in Callers, Execute(c)
      PROVE  Held'
  <2>1. CASE stopped
    BY <1>0, <1>a, <1>1, <2>1 DEF Execute, worker
  <2>2. CASE ~stopped
    <3>1. queue' = Append(queue, c) /\ cur' = cur
      BY <1>1, <2>2 DEF Execute, worker
    <3>2. /\ Len(queue') = Len(queue) + 1
          /\ queue'[Len(queue) + 1] = c
          /\ \A i \in 1..Len(queue) : queue'[i] = queue[i]
      BY <1>a, <3>1, AppendProperties
    <3>3. Len(queue) \in Nat
      BY <1>a
    <3>4. CASE c = d
      BY <3>2, <3>3, <3>4
    <3>5. CASE c # d
      <4>1. status[d] = "waiting"
        BY <1>1, <1>a, <3>5 DEF Execute
      <4> QED
        BY <1>0, <4>1, <3>1, <3>2, <3>3
    <3> QED
      BY <3>4, <3>5
  <2> QED
    BY <2>1, <2>2
<1>2. ASSUME NEW c \in Callers, CallerTimesOut(c)
      PROVE  Held'
  BY <1>0, <1>a, <1>2 DEF CallerTimesOut, worker
<1>3. CASE (\E p \in Ports : PortPressed(p)) \/ LinkLost \/ Stop \/ Ended \/ UNCHANGED vars
  BY <1>0, <1>3 DEF PortPressed, LinkLost, Stop, Ended, vars, worker, calls
<1>4. CASE RuntimeEnds
  BY <1>4 DEF RuntimeEnds
<1>5. CASE LoopEnds \/ ReceiveWindow \/ Receive \/ SkipFrame \/ SendSet \/ SetFrame
  BY <1>0, <1>5 DEF LoopEnds, ReceiveWindow, Receive, SkipFrame, SendSet, SetFrame, calls
<1>6. CASE Reconnect \/ RefreshStarts
  <2>1. cur # d
    BY <1>6 DEF Reconnect, RefreshStarts, CommandsInv, HandsInv
  <2> QED
    BY <1>0, <1>6, <2>1 DEF Reconnect, RefreshStarts, calls
<1>7. CASE TakeNext
  <2>1. queue # <<>> /\ queue' = Tail(queue) /\ cur # d
    BY <1>7 DEF TakeNext, CommandsInv, HandsInv
  <2>2. /\ Len(queue') = Len(queue) - 1
        /\ \A i \in 1..Len(queue') : queue'[i] = queue[i + 1]
        /\ Head(queue) = queue[1]
        /\ Len(queue) \in Nat
    BY <1>a, <2>1
  <2>3. Head(queue) \in Callers
    BY <1>a, <2>1
  <2>7. status[d] = "waiting"
    BY <1>7, <1>b, <2>3 DEF TakeNext
  <2>4. PICK i \in 1..Len(queue) : queue[i] = d
    BY <1>0, <2>1, <2>7
  <2>5. CASE i = 1
    <3>1. Head(queue) = d
      BY <2>2, <2>4, <2>5
    <3> QED
      BY <1>7, <1>b, <2>3, <2>7, <3>1 DEF TakeNext
  <2>6. CASE i # 1
    <3>1. i - 1 \in 1..Len(queue') /\ queue'[i - 1] = d
      BY <2>2, <2>4, <2>6
    <3> QED
      BY <3>1
  <2> QED
    BY <2>5, <2>6
<1>8. CASE Refreshed
  <2>1. cur # d
    BY <1>8 DEF Refreshed, CommandsInv, HandsInv
  <2> QED
    BY <1>0, <1>8, <2>1 DEF Refreshed, calls
<1>9. CASE MaskRead
  BY <1>0, <1>a, <1>9, <1>b DEF MaskRead
<1>10. CASE GetTimesOut
  <2>1. phase = "refresh" => cur # d
    BY DEF CommandsInv, HandsInv
  <2> QED
    BY <1>0, <1>a, <1>10, <1>b, <2>1 DEF GetTimesOut
<1>11. CASE SendSetFails \/ SetDone \/ SetTimesOut
  BY <1>0, <1>a, <1>11, <1>b DEF SendSetFails, SetDone, SetTimesOut, NotSet
<1> QED
  BY <1>1, <1>2, <1>3, <1>4, <1>5, <1>6, <1>7, <1>8, <1>9, <1>10, <1>11 DEF Next, WorkerStep

\* Whatever fails, every waiting execute() is in the queue or being run.
THEOREM NoneForgotten == Spec => []NobodyForgotten
<1>1. Init => CommandsInv
  BY CommandsAssumption DEF Init, CommandsInv, HandsInv, NobodyForgotten, CommandsAssumption, Outcomes
<1>2. CommandsInv /\ [Next]_vars => CommandsInv'
  BY HandsStep, HeldStep DEF CommandsInv
<1>3. CommandsInv => NobodyForgotten
  BY DEF CommandsInv
<1> QED
  BY <1>1, <1>2, <1>3, PTL DEF Spec

\* Only _run_one_operation begins an operation, and not a cancelled one.
THEOREM NoneStartsLate == Spec => NoLateStart
<1>1. [Next]_vars => [\A c \in Callers : status[c] = "timeout" /\ cur # c => cur' # c]_vars
  <2> SUFFICES ASSUME [Next]_vars, NEW c \in Callers, status[c] = "timeout", cur # c
               PROVE  cur' # c
    OBVIOUS
  <2>1. CASE TakeNext
    BY <2>1 DEF TakeNext
  <2>2. CASE Reconnect \/ RefreshStarts
    BY <2>2, CommandsAssumption DEF Reconnect, RefreshStarts, CommandsAssumption
  <2>3. CASE Refreshed \/ GetTimesOut \/ SendSetFails \/ SetDone \/ SetTimesOut \/ MaskRead
    BY <2>3, BackEmptiesHands, CommandsAssumption
       DEF Refreshed, GetTimesOut, SendSetFails, SetDone, SetTimesOut, MaskRead, CommandsAssumption
  <2>4. CASE LoopEnds \/ ReceiveWindow \/ Receive \/ SkipFrame \/ SendSet \/ SetFrame
    BY <2>4 DEF LoopEnds, ReceiveWindow, Receive, SkipFrame, SendSet, SetFrame
  <2>5. CASE \/ \E d \in Callers : Execute(d) \/ CallerTimesOut(d)
             \/ \E p \in Ports : PortPressed(p)
             \/ LinkLost \/ Stop \/ RuntimeEnds \/ Ended \/ UNCHANGED vars
    BY <2>5 DEF Execute, CallerTimesOut, PortPressed, LinkLost, Stop, RuntimeEnds, Ended,
       vars, worker
  <2> QED
    BY <2>1, <2>2, <2>3, <2>4, <2>5 DEF Next, WorkerStep
<1> QED
  BY <1>1, PTL DEF Spec, NoLateStart

(***************************************************************************)
(* Types                                                                   *)
(***************************************************************************)

\* An operation in progress is some caller's.
BusyInv == phase \in {"get", "send", "set"} => cur \in Callers

\* Frames of every kind carry a mask, and so does every operation's result.
LEMMA FrameTypes ==
    ASSUME TypeOK
    PROVE  /\ Value \in Frames
           /\ \A m \in Masks : Ack(m) \in Frames /\ Push(m) \in Frames
           /\ channel # <<>> => Head(channel) \in Frames /\ Tail(channel) \in Seq(Frames)
           /\ \A f \in Frames : f.mask \in Masks
           /\ \A m \in Masks : Switched(op, m) \in Masks
<1>1. Value \in Frames /\ \A m \in Masks : Ack(m) \in Frames /\ Push(m) \in Frames
  BY DEF TypeOK, Value, Ack, Push, Frames
<1>2. channel # <<>> => Head(channel) \in Frames /\ Tail(channel) \in Seq(Frames)
  BY DEF TypeOK
<1>3. \A f \in Frames : f.mask \in Masks
  BY DEF Frames
<1>4. ASSUME NEW m \in Masks
      PROVE  Switched(op, m) \in Masks
  <2>1. op.ports \subseteq Ports
    BY DEF TypeOK, Ops, NoOp, Targets
  <2> QED
    BY <2>1 DEF Switched, Masks
<1> QED
  BY <1>1, <1>2, <1>3, <1>4

\* What a call that ends, or a command that is delivered, does to the types.
LEMMA CallTypes ==
    ASSUME TypeOK
    PROVE  /\ \A c \in Callers \cup {"worker"}, s \in {"ok", "unacked", "error"} :
                 Answer(c, s) => status' \in [Callers -> Outcomes]
           /\ NotSet => status' \in [Callers -> Outcomes]
           /\ GivesUp => late' \in BOOLEAN /\ timeouts' \in 0..MaxTimeouts
           /\ Back => /\ phase' = "loop" /\ cur' = "worker" /\ op' \in Ops \cup {NoOp}
                      /\ want' \in Masks /\ gotAck' \in BOOLEAN
           /\ DeliverGet => device' \in Masks /\ channel' \in Seq(Frames)
           /\ Told(cur) => acked' \in [Ports -> {"none", "on", "off"}]
           /\ DeliverSet(want) => /\ device' \in Masks /\ channel' \in Seq(Frames)
                                  /\ acked' \in [Ports -> {"none", "on", "off"}]
<1>1. \A c \in Callers \cup {"worker"}, s \in {"ok", "unacked", "error"} :
         Answer(c, s) => status' \in [Callers -> Outcomes]
  BY DEF TypeOK, Answer, Outcomes
<1>2. NotSet => status' \in [Callers -> Outcomes]
  BY <1>1 DEF NotSet, TypeOK
<1>3. GivesUp => late' \in BOOLEAN /\ timeouts' \in 0..MaxTimeouts
  BY CommandsAssumption DEF CommandsAssumption, TypeOK, GivesUp
<1>4. Back => /\ phase' = "loop" /\ cur' = "worker" /\ op' \in Ops \cup {NoOp}
              /\ want' \in Masks /\ gotAck' \in BOOLEAN
  BY DEF Back, Masks
<1>5. DeliverGet => device' \in Masks /\ channel' \in Seq(Frames)
  BY FrameTypes DEF DeliverGet, TypeOK
<1>6. Told(cur) => acked' \in [Ports -> {"none", "on", "off"}]
  BY DEF Told, TypeOK
<1>7. ASSUME DeliverSet(want)
      PROVE  /\ device' \in Masks /\ channel' \in Seq(Frames)
             /\ acked' \in [Ports -> {"none", "on", "off"}]
  <2>1. Ack(want) \in Frames /\ Push(want) \in Frames /\ channel \in Seq(Frames) /\ want \in Masks
    BY FrameTypes DEF TypeOK
  <2>2. Append(channel, Ack(want)) \in Seq(Frames)
    BY <2>1
  <2>3. <<Ack(want), Push(want)>> \in Seq(Frames)
    BY <2>1
  <2>4. channel \o <<Ack(want), Push(want)>> \in Seq(Frames)
    BY <2>1, <2>3, ConcatProperties
  <2> QED
    BY <1>7, <2>1, <2>2, <2>4 DEF DeliverSet, TypeOK
<1> QED
  BY <1>1, <1>2, <1>3, <1>4, <1>5, <1>6, <1>7

\* Every step keeps the types.
LEMMA TypeStep == TypeOK /\ HandsInv /\ BusyInv /\ [Next]_vars => TypeOK' /\ BusyInv'
<1> SUFFICES ASSUME TypeOK, HandsInv, BusyInv, [Next]_vars
             PROVE  TypeOK' /\ BusyInv'
  OBVIOUS
<1>0. HandsInv'
  BY HandsStep
<1> USE DEF calls, worker, charger, faults
<1>1. ASSUME NEW c \in Callers, Execute(c) \/ CallerTimesOut(c)
      PROVE  TypeOK' /\ BusyInv'
  <2>1. queue' \in Seq(Callers) /\ status' \in [Callers -> Outcomes]
    BY <1>0 DEF HandsInv
  <2> QED
    BY <1>1, <2>1 DEF Execute, CallerTimesOut, TypeOK, BusyInv, Outcomes
<1>2. ASSUME NEW p \in Ports, PortPressed(p)
      PROVE  TypeOK' /\ BusyInv'
  <2>1. device' \in Masks
    BY <1>2 DEF PortPressed, TypeOK, Masks
  <2>2. Push(device') \in Frames
    BY <2>1, FrameTypes
  <2>3. channel' \in Seq(Frames) /\ presses' \in 0..MaxPresses
    BY <1>2, <2>2, CommandsAssumption DEF CommandsAssumption, PortPressed, TypeOK
  <2> QED
    BY <1>2, <2>1, <2>3 DEF PortPressed, TypeOK, BusyInv
<1>3. CASE LinkLost
  <2>1. drops' \in 0..MaxDrops
    BY <1>3, CommandsAssumption DEF CommandsAssumption, LinkLost, TypeOK
  <2> QED
    BY <1>3, <2>1 DEF LinkLost, TypeOK, BusyInv
<1>4. CASE Stop \/ Ended \/ UNCHANGED vars
  BY <1>4 DEF Stop, Ended, vars, TypeOK, BusyInv
<1>5. CASE RuntimeEnds
  <2>1. queue' \in Seq(Callers) /\ status' \in [Callers -> Outcomes]
    BY <1>0 DEF HandsInv
  <2> QED
    BY <1>5, <2>1 DEF RuntimeEnds, TypeOK, BusyInv, Outcomes
<1>6. CASE Reconnect
  <2>1. channel' \in Seq(Frames) /\ 0 \in 0..MaxTimeouts /\ cache' \in SUBSET Masks
    BY <1>6, FrameTypes, CommandsAssumption DEF CommandsAssumption, Reconnect
  <2> QED
    BY <1>6, <2>1 DEF Reconnect, TypeOK, BusyInv
<1>7. CASE LoopEnds \/ ReceiveWindow
  <2>1. channel' \in Seq(Frames)
    <3>1. channel \in Seq(Frames) /\ <<>> \in Seq(Frames)
      BY DEF TypeOK
    <3>2. channel' = channel \/ channel' = <<>>
      BY <1>7 DEF LoopEnds, ReceiveWindow
    <3> QED
      BY <3>1, <3>2
  <2> QED
    BY <1>7, <2>1 DEF LoopEnds, ReceiveWindow, TypeOK, BusyInv
<1>8. CASE Receive \/ SkipFrame
  BY <1>8, FrameTypes DEF Receive, SkipFrame, Awaiting, Cached, TypeOK, BusyInv
<1>9. CASE RefreshStarts
  BY <1>9, CallTypes DEF RefreshStarts, TypeOK, BusyInv
<1>10. CASE TakeNext
  <2>1. queue' \in Seq(Callers) /\ status' \in [Callers -> Outcomes] /\ Head(queue) \in Callers
    BY <1>0, <1>10 DEF HandsInv, TakeNext
  <2>2. device' \in Masks /\ channel' \in Seq(Frames)
    BY <1>10, CallTypes DEF TakeNext, TypeOK
  <2>3. late' \in BOOLEAN /\ timeouts' \in 0..MaxTimeouts
    BY <1>10, CallTypes DEF TakeNext, TypeOK
  <2>4. \/ phase' = "loop" /\ cur' = cur /\ op' = op
        \/ phase' = "get" /\ cur' \in Callers /\ op' \in Ops
    BY <1>10, <2>1 DEF TakeNext
  <2> QED
    BY <1>10, <2>1, <2>2, <2>3, <2>4 DEF TakeNext, TypeOK, BusyInv, Outcomes
<1>11. CASE Refreshed
  BY <1>11, CallTypes, FrameTypes DEF Refreshed, Awaiting, Takes, TypeOK, BusyInv
<1>12. CASE MaskRead
  <2>1. cur \in Callers /\ Head(channel).mask \in Masks /\ Tail(channel) \in Seq(Frames)
    BY <1>12, FrameTypes DEF MaskRead, Awaiting, BusyInv
  <2>2. /\ want' \in Masks /\ gotAck' \in BOOLEAN /\ op' \in Ops \cup {NoOp}
        /\ ((phase' = "loop" /\ cur' = "worker") \/ (phase' = "send" /\ cur' = cur))
    <3>1. CASE Back
      BY <3>1 DEF Back, Masks
    <3>2. CASE want' = Switched(op, Head(channel).mask) /\ phase' = "send" /\ UNCHANGED <<cur, op, gotAck>>
      BY <3>2, <2>1, FrameTypes DEF TypeOK
    <3> QED
      BY <1>12, <3>1, <3>2 DEF MaskRead
  <2>3. status' \in [Callers -> Outcomes] /\ acked' \in [Ports -> {"none", "on", "off"}]
    BY <1>0, <1>12, CallTypes DEF MaskRead, TypeOK, HandsInv
  <2> QED
    BY <1>12, <2>1, <2>2, <2>3 DEF MaskRead, Takes, TypeOK, BusyInv, Outcomes
<1>13. CASE GetTimesOut
  <2>1. status' \in [Callers -> Outcomes]
    BY <1>0 DEF HandsInv
  <2> QED
    BY <1>13, <2>1, CallTypes DEF GetTimesOut, TypeOK, BusyInv, Outcomes
<1>14. CASE SendSet
  BY <1>14, CallTypes DEF SendSet, TypeOK, BusyInv
<1>15. CASE SendSetFails
  <2>1. device' \in Masks /\ channel' \in Seq(Frames) /\ acked' \in [Ports -> {"none", "on", "off"}]
    BY <1>15, CallTypes DEF SendSetFails, TypeOK
  <2>2. status' \in [Callers -> Outcomes]
    BY <1>0 DEF HandsInv
  <2> QED
    BY <1>15, <2>1, <2>2, CallTypes DEF SendSetFails, TypeOK, BusyInv, Outcomes
<1>16. CASE SetFrame
  BY <1>16, FrameTypes DEF SetFrame, TypeOK, BusyInv
<1>17. CASE SetDone
  <2>1. channel' \in Seq(Frames)
    BY <1>17, FrameTypes DEF SetDone, TypeOK
  <2>2. status' \in [Callers -> Outcomes]
    BY <1>0 DEF HandsInv
  <2> QED
    BY <1>17, <2>1, <2>2, CallTypes DEF SetDone, TypeOK, BusyInv, Outcomes
<1>18. CASE SetTimesOut
  <2>1. status' \in [Callers -> Outcomes]
    BY <1>0 DEF HandsInv
  <2> QED
    BY <1>18, <2>1, CallTypes DEF SetTimesOut, TypeOK, BusyInv, Outcomes
<1> QED
  BY <1>1, <1>2, <1>3, <1>4, <1>5, <1>6, <1>7, <1>8, <1>9, <1>10, <1>11, <1>12, <1>13, <1>14,
     <1>15, <1>16, <1>17, <1>18 DEF Next, WorkerStep

LEMMA TypeInit == Init => TypeOK /\ HandsInv /\ BusyInv
<1> SUFFICES ASSUME Init PROVE TypeOK /\ HandsInv /\ BusyInv
  OBVIOUS
<1>1. 0 \in 0..MaxTimeouts /\ 0 \in 0..MaxPresses /\ 0 \in 0..MaxDrops
  BY CommandsAssumption DEF CommandsAssumption
<1>2. HandsInv /\ BusyInv
  BY CommandsAssumption DEF CommandsAssumption, Init, HandsInv, BusyInv, Outcomes
<1>3. want \in Masks /\ cache \in SUBSET Masks
  BY DEF Init, Masks
<1>4. op \in Ops \cup {NoOp} /\ acked \in [Ports -> {"none", "on", "off"}]
  BY DEF Init
<1>5. status \in [Callers -> Outcomes] /\ queue \in Seq(Callers) /\ channel \in Seq(Frames)
  BY DEF Init, Outcomes
<1>6. \A m, n \in cache : m = n
  BY DEF Init
<1>7. /\ phase = "offline" /\ cur = "worker" /\ gotAck = FALSE /\ up = FALSE
      /\ stopped = FALSE /\ late = FALSE /\ device \in Masks
  BY DEF Init
<1>8. timeouts = 0 /\ presses = 0 /\ drops = 0
  BY DEF Init
<1>9. /\ late \in BOOLEAN
      /\ timeouts \in 0..MaxTimeouts
      /\ presses \in 0..MaxPresses
      /\ drops \in 0..MaxDrops
  BY <1>1, <1>7, <1>8
<1>10. TypeOK
  BY <1>3, <1>4, <1>5, <1>6, <1>7, <1>9 DEF TypeOK, Outcomes
<1> QED
  BY <1>2, <1>10

\* Callers, worker, command channel and charger are well typed in every
\* reachable state.
THEOREM TypeCorrect == Spec => []TypeOK
<1>1. Init => TypeOK /\ HandsInv /\ BusyInv
  BY TypeInit
<1>2. HandsInv /\ [Next]_vars => HandsInv'
  BY HandsStep
<1>3. TypeOK /\ HandsInv /\ BusyInv /\ [Next]_vars => TypeOK' /\ BusyInv'
  BY TypeStep
<1> QED
  BY <1>1, <1>2, <1>3, PTL DEF Spec

(***************************************************************************)
(* Acknowledged switches                                                   *)
(*                                                                         *)
(* A reply is matched by opcode and property alone, so what matters is     *)
(* which frames may still be on the channel, while no more than one        *)
(* command was given up (~late) and nobody pressed a button.  One GET      *)
(* given up leaves one old value there for good, but it shows the mask     *)
(* the charger has: only a SET changes that, and the wait for its ACK      *)
(* reads every value that was sent before it.                              *)
(***************************************************************************)
Current(ch, mask) == \A i \in 1..Len(ch) : ch[i].kind = "value" => ch[i].mask = mask
ValuesLast(ch) == \A i, j \in 1..Len(ch) : i < j /\ ch[i].kind = "value" => ch[j].kind = "value"
ValuesFirst(ch) == \A i, j \in 1..Len(ch) : i < j /\ ch[j].kind = "value" => ch[i].kind = "value"
NoValue(ch) == \A i \in 1..Len(ch) : ch[i].kind # "value"
OnlyLast(ch) == \A i \in 1..Len(ch) : ch[i].kind = "value" => i = Len(ch)

\* What may be on the channel at each place of the worker.
Replies ==
    up /\ Trusted =>
        /\ phase # "set" => Current(channel, device) /\ ValuesLast(channel)
        /\ phase \in {"send", "set"} => ValuesFirst(channel)
        /\ phase = "set" /\ gotAck => NoValue(channel)
        /\ timeouts = 0 /\ phase \in {"get", "refresh"} => OnlyLast(channel)
        /\ timeouts = 0 /\ phase \notin {"get", "refresh"} => NoValue(channel)

\* The mask to SET is the one the charger has with the ports switched.
Pending ==
    Trusted => /\ phase = "send" => want = Switched(op, device)
               /\ phase = "set" => /\ device = want
                                   /\ \A p \in op.ports : op.on <=> p \in want

StoppedIsDown == stopped => ~up

AckInv == StoppedIsDown /\ Replies /\ Pending /\ AcknowledgedHolds

LEMMA TailFrames ==
  ASSUME NEW ch \in Seq(Frames), ch # <<>>
  PROVE  /\ Len(ch) \in Nat \ {0} /\ Head(ch) = ch[1]
         /\ Tail(ch) \in Seq(Frames) /\ Len(Tail(ch)) = Len(ch) - 1
         /\ \A i \in 1..Len(Tail(ch)) : Tail(ch)[i] = ch[i + 1] /\ i + 1 \in 1..Len(ch)
<1>1. Len(ch) \in Nat \ {0} /\ Head(ch) = ch[1]
  BY EmptySeq
<1>2. /\ Tail(ch) \in Seq(Frames) /\ Len(Tail(ch)) = Len(ch) - 1
      /\ \A i \in 1..Len(Tail(ch)) : Tail(ch)[i] = ch[i + 1]
  BY HeadTailProperties
<1> QED
  BY <1>1, <1>2

\* A frame that is read leaves the masks of the others as they were.
LEMMA TailCurrent ==
  ASSUME NEW ch \in Seq(Frames), ch # <<>>, NEW mask \in Masks, Current(ch, mask)
  PROVE  /\ Current(Tail(ch), mask)
         /\ Head(ch).kind = "value" => Head(ch).mask = mask
<1>1. 1 \in 1..Len(ch) /\ Head(ch) = ch[1]
  BY TailFrames
<1> QED
  BY <1>1, TailFrames DEF Current

\* Reading a frame keeps the order of the ones behind it.
LEMMA TailKeeps ==
  ASSUME NEW ch \in Seq(Frames), ch # <<>>
  PROVE  /\ ValuesLast(ch) => /\ ValuesLast(Tail(ch))
                              /\ Head(ch).kind = "value" => ValuesFirst(Tail(ch))
         /\ ValuesFirst(ch) => /\ ValuesFirst(Tail(ch))
                               /\ Head(ch).kind # "value" => NoValue(Tail(ch))
         /\ NoValue(ch) => NoValue(Tail(ch))
         /\ OnlyLast(ch) => /\ OnlyLast(Tail(ch))
                            /\ Head(ch).kind = "value" => NoValue(Tail(ch))
<1> DEFINE tl == Tail(ch)
<1>1. /\ Len(ch) \in Nat \ {0} /\ Head(ch) = ch[1] /\ Len(tl) = Len(ch) - 1
      /\ \A i \in 1..Len(tl) : tl[i] = ch[i + 1] /\ i + 1 \in 1..Len(ch)
  BY TailFrames
<1>2. 1 \in 1..Len(ch) /\ \A i, j \in 1..Len(tl) : i < j => i + 1 < j + 1
  BY <1>1
<1>3. \A i \in 1..Len(tl) : 1 < i + 1
  OBVIOUS
<1> HIDE DEF tl
<1>4. ValuesLast(ch) => ValuesLast(tl)
  BY <1>1, <1>2 DEF ValuesLast
<1>5. ValuesLast(ch) /\ Head(ch).kind = "value" => \A i \in 1..Len(tl) : tl[i].kind = "value"
  BY <1>1, <1>2, <1>3 DEF ValuesLast
<1>6. ValuesFirst(ch) => ValuesFirst(tl)
  BY <1>1, <1>2 DEF ValuesFirst
<1>7. ValuesFirst(ch) /\ Head(ch).kind # "value" => NoValue(tl)
  BY <1>1, <1>2, <1>3 DEF ValuesFirst, NoValue
<1>8. NoValue(ch) => NoValue(tl)
  BY <1>1 DEF NoValue
<1>9. OnlyLast(ch) => OnlyLast(tl)
  BY <1>1 DEF OnlyLast
<1>10. OnlyLast(ch) /\ Head(ch).kind = "value" => NoValue(tl)
  BY <1>1, <1>2 DEF OnlyLast, NoValue
<1>11. (\A i \in 1..Len(tl) : tl[i].kind = "value") => ValuesFirst(tl)
  BY DEF ValuesFirst
<1> QED
  BY <1>4, <1>5, <1>6, <1>7, <1>8, <1>9, <1>10, <1>11 DEF tl

\* A value goes behind the others, an ACK or a push is no value.
LEMMA AppendKeeps ==
  ASSUME NEW ch \in Seq(Frames), NEW f \in Frames
  PROVE  /\ Append(ch, f) \in Seq(Frames)
         /\ f.kind = "value" =>
               /\ ValuesLast(ch) => ValuesLast(Append(ch, f))
               /\ NoValue(ch) => OnlyLast(Append(ch, f))
               /\ Current(ch, f.mask) => Current(Append(ch, f), f.mask)
         /\ f.kind # "value" =>
               /\ ValuesFirst(ch) => ValuesFirst(Append(ch, f))
               /\ NoValue(ch) => NoValue(Append(ch, f))
<1> DEFINE ap == Append(ch, f)
<1>1. /\ ap \in Seq(Frames) /\ Len(ap) = Len(ch) + 1 /\ Len(ch) \in Nat
      /\ \A i \in 1..Len(ch) : ap[i] = ch[i]
      /\ ap[Len(ch) + 1] = f
  BY AppendProperties, LenProperties
<1> HIDE DEF ap
<1>2. \A i \in 1..Len(ap) : i \in 1..Len(ch) \/ i = Len(ch) + 1
  BY <1>1
<1>3. \A i, j \in 1..Len(ap) : i < j => i \in 1..Len(ch)
  BY <1>1
<1>4. ASSUME f.kind = "value"
      PROVE  /\ ValuesLast(ch) => ValuesLast(ap)
             /\ NoValue(ch) => OnlyLast(ap)
             /\ Current(ch, f.mask) => Current(ap, f.mask)
  <2>1. ValuesLast(ch) => ValuesLast(ap)
    BY <1>1, <1>2, <1>3, <1>4 DEF ValuesLast
  <2>2. NoValue(ch) => OnlyLast(ap)
    BY <1>1, <1>2 DEF NoValue, OnlyLast
  <2>3. Current(ch, f.mask) => Current(ap, f.mask)
    BY <1>1, <1>2 DEF Current
  <2> QED
    BY <2>1, <2>2, <2>3
<1>5. ASSUME f.kind # "value"
      PROVE  /\ ValuesFirst(ch) => ValuesFirst(ap)
             /\ NoValue(ch) => NoValue(ap)
  <2>1. ValuesFirst(ch) => ValuesFirst(ap)
    BY <1>1, <1>2, <1>3, <1>5 DEF ValuesFirst
  <2>2. NoValue(ch) => NoValue(ap)
    BY <1>1, <1>2, <1>5 DEF NoValue
  <2> QED
    BY <2>1, <2>2
<1> QED
  BY <1>1, <1>4, <1>5 DEF ap

LEMMA ValueFrame == TypeOK => Value \in Frames /\ Value.kind = "value" /\ Value.mask = device
  BY DEF TypeOK, Value, Frames

\* A delivered GET is answered with the charger's mask.
LEMMA GetKeeps ==
  ASSUME TypeOK, DeliverGet
  PROVE  /\ Current(channel, device) => Current(channel, device)'
         /\ ValuesLast(channel) => ValuesLast(channel)'
         /\ NoValue(channel) => OnlyLast(channel)'
<1>1. channel' = Append(channel, Value) /\ device' = device /\ channel \in Seq(Frames)
  BY DEF DeliverGet, TypeOK
<1>2. Current(channel, device) => Current(Append(channel, Value), device)
  BY <1>1, ValueFrame, AppendKeeps
<1>3. ValuesLast(channel) => ValuesLast(Append(channel, Value))
  BY <1>1, ValueFrame, AppendKeeps
<1>4. NoValue(channel) => OnlyLast(Append(channel, Value))
  BY <1>1, ValueFrame, AppendKeeps
<1> QED
  BY <1>1, <1>2, <1>3, <1>4 DEF Current, ValuesLast, OnlyLast

\* A delivered SET adds an ACK and perhaps a push.
LEMMA SetKeeps ==
  ASSUME TypeOK, DeliverSet(want)
  PROVE  /\ ValuesFirst(channel) => ValuesFirst(channel)'
         /\ NoValue(channel) => NoValue(channel)'
<1> DEFINE one == Append(channel, Ack(want))
           two == Append(one, Push(want))
<1>1. /\ Ack(want) \in Frames /\ Push(want) \in Frames /\ channel \in Seq(Frames)
      /\ Ack(want).kind # "value" /\ Push(want).kind # "value"
  BY DEF TypeOK, Ack, Push, Frames
<1>2. /\ one \in Seq(Frames)
      /\ ValuesFirst(channel) => ValuesFirst(one)
      /\ NoValue(channel) => NoValue(one)
  BY <1>1, AppendKeeps
<1>3. /\ ValuesFirst(channel) => ValuesFirst(two)
      /\ NoValue(channel) => NoValue(two)
  <2> HIDE DEF one
  <2> QED
    BY <1>1, <1>2, AppendKeeps
<1>4. channel \o <<Ack(want), Push(want)>> = two
  BY <1>1
<1>5. channel' = one \/ channel' = two
  BY <1>4 DEF DeliverSet
<1> HIDE DEF one, two
<1> QED
  BY <1>2, <1>3, <1>5 DEF ValuesFirst, NoValue

\* While the link is up a command that is given up is the first of its
\* connection, or two of them have been.
LEMMA GivesUpTrusted ==
  ASSUME TypeOK, GivesUp, UNCHANGED presses, Trusted', up
  PROVE  Trusted /\ timeouts = 0 /\ timeouts' # 0
<1>1. timeouts \in Nat /\ timeouts' = timeouts + 1 /\ late' = (late \/ timeouts > 0)
  BY CommandsAssumption DEF CommandsAssumption, TypeOK, GivesUp
<1>2. ~late /\ ~(timeouts > 0)
  BY <1>1, Zenon DEF Trusted
<1> QED
  BY <1>1, <1>2 DEF Trusted

LEMMA TrustedStep ==
  ASSUME TypeOK, [Next]_vars, Trusted'
  PROVE  Trusted
<1>1. presses' = 0 => presses = 0
  BY CommandsAssumption DEF CommandsAssumption, TypeOK, Next, WorkerStep, Execute, CallerTimesOut, PortPressed,
     LinkLost, Stop, RuntimeEnds, Ended, Reconnect, LoopEnds, TakeNext, ReceiveWindow, Receive, SkipFrame,
     Refreshed, MaskRead, SendSet, SetFrame, SetDone, GetTimesOut, SendSetFails, SetTimesOut, RefreshStarts,
     vars, faults
<1>2. late => late'
  BY DEF Next, WorkerStep, Execute, CallerTimesOut, PortPressed, GivesUp,
     LinkLost, Stop, RuntimeEnds, Ended, Reconnect, LoopEnds, TakeNext, ReceiveWindow, Receive, SkipFrame,
     Refreshed, MaskRead, SendSet, SetFrame, SetDone, GetTimesOut, SendSetFails, SetTimesOut, RefreshStarts,
     vars, faults
<1> QED
  BY <1>1, <1>2 DEF Trusted

LEMMA StoppedStep ==
  ASSUME StoppedIsDown, [Next]_vars
  PROVE  StoppedIsDown'
  BY DEF StoppedIsDown, Next, WorkerStep, Execute, CallerTimesOut, PortPressed,
     LinkLost, Stop, RuntimeEnds, Ended, Reconnect, LoopEnds, TakeNext, ReceiveWindow, Receive, SkipFrame,
     Refreshed, MaskRead, SendSet, SetFrame, SetDone, GetTimesOut, SendSetFails, SetTimesOut, RefreshStarts,
     vars, charger

LEMMA RepliesStep ==
  ASSUME TypeOK, StoppedIsDown, Replies, [Next]_vars
  PROVE  Replies'
<1> SUFFICES ASSUME up', Trusted' PROVE Replies'
  BY DEF Replies
<1>0. Trusted
  BY TrustedStep
<1> DEFINE Orders == <<channel, device, phase, gotAck, timeouts>>
<1>s. up /\ UNCHANGED Orders => Replies'
  BY <1>0 DEF Replies, Current, ValuesLast, ValuesFirst, NoValue, OnlyLast
<1>c. up /\ channel # <<>> => channel \in Seq(Frames)
  BY DEF TypeOK
<1>d. up /\ channel # <<>> /\ Current(channel, device) =>
         Current(Tail(channel), device) /\ (Head(channel).kind = "value" => Head(channel).mask = device)
  <2> SUFFICES ASSUME up, channel # <<>>, Current(channel, device)
               PROVE  Current(Tail(channel), device)
                      /\ (Head(channel).kind = "value" => Head(channel).mask = device)
    OBVIOUS
  <2>1. channel \in Seq(Frames) /\ device \in Masks
    BY DEF TypeOK
  <2> QED
    BY <2>1, TailCurrent
<1> HIDE DEF Orders
<1>1. CASE \/ \E c \in Callers : Execute(c) \/ CallerTimesOut(c)
           \/ LinkLost \/ Stop \/ Ended \/ UNCHANGED vars
  BY <1>1, <1>s DEF Execute, CallerTimesOut, LinkLost, Stop, Ended, vars, worker, charger, faults, Orders
<1>2. CASE RuntimeEnds
  BY <1>2 DEF RuntimeEnds, StoppedIsDown, charger
<1>3. CASE LoopEnds
  BY <1>3 DEF LoopEnds
<1>4. CASE \E p \in Ports : PortPressed(p)
  BY <1>4, CommandsAssumption DEF CommandsAssumption, PortPressed, Trusted, TypeOK
<1>5. CASE Reconnect
  <2>1. channel' = <<Value>> /\ phase' = "refresh" /\ device' = device
    BY <1>5 DEF Reconnect
  <2>2. Len(channel') = 1 /\ channel'[1].kind = "value" /\ channel'[1].mask = device'
    BY <2>1, ValueFrame
  <2>3. Current(channel, device)' /\ ValuesLast(channel)' /\ OnlyLast(channel)'
    BY <2>2 DEF Current, ValuesLast, OnlyLast
  <2> QED
    BY <2>1, <2>3 DEF Replies
<1>6. CASE ReceiveWindow
  BY <1>0, <1>6 DEF ReceiveWindow, charger, faults, Replies, Current, ValuesLast, ValuesFirst, NoValue, OnlyLast
<1>7. CASE RefreshStarts
  <2>1. phase = "recv" /\ up /\ DeliverGet /\ phase' = "refresh" /\ timeouts' = timeouts
    BY <1>7 DEF RefreshStarts, faults
  <2> QED
    BY <1>0, <2>1, GetKeeps DEF Replies
<1>8. CASE TakeNext
  <2>1. phase = "loop" /\ up
    BY <1>8 DEF TakeNext
  <2>2. CASE UNCHANGED Orders
    BY <1>s, <2>1, <2>2
  <2>3. CASE phase' = "get" /\ DeliverGet /\ UNCHANGED timeouts
    BY <1>0, <2>1, <2>3, GetKeeps DEF Replies
  <2>4. CASE GivesUp /\ (DeliverGet \/ UNCHANGED <<device, channel>>) /\ UNCHANGED phase
    <3>1. timeouts' # 0
      BY <1>8, <2>1, <2>4, GivesUpTrusted DEF TakeNext
    <3>2. Current(channel, device)' /\ ValuesLast(channel)'
      BY <1>0, <2>1, <2>4, GetKeeps DEF Replies, Current, ValuesLast
    <3> QED
      BY <2>1, <2>4, <3>1, <3>2 DEF Replies
  <2> QED
    BY <1>8, <2>2, <2>3, <2>4 DEF TakeNext, Orders
<1>9. CASE Receive
  <2>1. /\ phase = "recv" /\ phase' = "loop"
        /\ channel' = channel \/ (channel # <<>> /\ channel' = Tail(channel))
        /\ UNCHANGED <<device, up, timeouts>>
    BY <1>9 DEF Receive, faults
  <2>2. CASE channel' = channel
    BY <1>0, <2>1, <2>2 DEF Replies, Current, ValuesLast, NoValue
  <2>3. CASE channel # <<>> /\ channel' = Tail(channel)
    <3>1. Current(Tail(channel), device) /\ ValuesLast(Tail(channel)) /\ (timeouts = 0 => NoValue(Tail(channel)))
      BY <1>0, <1>c, <1>d, <2>1, <2>3, TailKeeps DEF Replies
    <3> QED
      BY <2>1, <2>3, <3>1 DEF Replies, Current, ValuesLast, NoValue
  <2> QED
    BY <2>1, <2>2, <2>3
<1>10. CASE SkipFrame
  <2>1. /\ phase \in {"get", "refresh"} /\ phase' = phase /\ channel # <<>> /\ up
        /\ channel' = Tail(channel) /\ UNCHANGED <<device, timeouts>>
    BY <1>10 DEF SkipFrame, Awaiting, faults
  <2>2. Current(Tail(channel), device) /\ ValuesLast(Tail(channel)) /\ (timeouts = 0 => OnlyLast(Tail(channel)))
    BY <1>0, <1>c, <1>d, <2>1, TailKeeps DEF Replies
  <2> QED
    BY <2>1, <2>2 DEF Replies, Current, ValuesLast, OnlyLast
<1>11. CASE Refreshed \/ MaskRead
  <2>1. /\ phase \in {"get", "refresh"} /\ phase' \in {"loop", "send"} /\ channel # <<>> /\ up
        /\ Head(channel).kind = "value"
        /\ channel' = Tail(channel) /\ UNCHANGED <<device, timeouts>>
    BY <1>11, BackEmptiesHands DEF Refreshed, MaskRead, Awaiting, Takes, faults
  <2>2. /\ Current(Tail(channel), device) /\ ValuesLast(Tail(channel)) /\ ValuesFirst(Tail(channel))
        /\ timeouts = 0 => NoValue(Tail(channel))
    BY <1>0, <1>c, <1>d, <2>1, TailKeeps DEF Replies
  <2> QED
    BY <2>1, <2>2 DEF Replies, Current, ValuesLast, ValuesFirst, NoValue
<1>12. CASE GetTimesOut
  <2>1. phase \in {"get", "refresh"} /\ phase' = "loop" /\ up /\ GivesUp /\ UNCHANGED <<channel, device, presses>>
    BY <1>12, BackEmptiesHands DEF GetTimesOut, charger
  <2>2. timeouts' # 0
    BY <2>1, GivesUpTrusted
  <2> QED
    BY <1>0, <2>1, <2>2 DEF Replies, Current, ValuesLast
<1>13. CASE SendSet
  <2>1. /\ phase = "send" /\ up /\ DeliverSet(want) /\ phase' = "set" /\ gotAck' = FALSE
        /\ UNCHANGED timeouts
    BY <1>13 DEF SendSet, faults
  <2> QED
    BY <1>0, <2>1, SetKeeps DEF Replies
<1>14. CASE SendSetFails
  <2>1. /\ phase = "send" /\ phase' = "loop" /\ up /\ GivesUp /\ UNCHANGED presses
        /\ DeliverSet(want) \/ UNCHANGED <<device, channel>>
    BY <1>14, BackEmptiesHands DEF SendSetFails
  <2>2. timeouts = 0 /\ timeouts' # 0
    BY <2>1, GivesUpTrusted
  <2>3. NoValue(channel)'
    BY <1>0, <2>1, <2>2, SetKeeps DEF Replies, NoValue
  <2> QED
    BY <2>1, <2>2, <2>3 DEF Replies, Current, ValuesLast, NoValue
<1>15. CASE SetFrame
  <2>1. /\ phase = "set" /\ phase' = "set" /\ up /\ channel # <<>> /\ channel' = Tail(channel)
        /\ gotAck' = (gotAck \/ Head(channel).kind = "ack")
        /\ UNCHANGED <<device, timeouts>>
    BY <1>15 DEF SetFrame, faults
  <2>2. ValuesFirst(Tail(channel)) /\ (timeouts = 0 => NoValue(Tail(channel)))
    BY <1>0, <1>c, <1>d, <2>1, TailKeeps DEF Replies
  <2>3. gotAck' => NoValue(Tail(channel))
    <3>1. CASE gotAck
      BY <1>0, <1>c, <2>1, <3>1, TailKeeps DEF Replies
    <3>2. CASE Head(channel).kind = "ack"
      BY <1>0, <1>c, <2>1, <3>2, TailKeeps DEF Replies
    <3> QED
      BY <2>1, <3>1, <3>2
  <2> QED
    BY <2>1, <2>2, <2>3 DEF Replies, ValuesFirst, NoValue
<1>16. CASE SetDone
  <2>1. phase = "set" /\ phase' = "loop" /\ up /\ UNCHANGED <<device, timeouts>>
    BY <1>16, BackEmptiesHands DEF SetDone, faults
  <2>2. NoValue(channel)'
    <3>1. CASE gotAck /\ UNCHANGED channel
      BY <1>0, <2>1, <3>1 DEF Replies, NoValue
    <3>2. CASE channel # <<>> /\ Head(channel).kind = "push" /\ channel' = Tail(channel)
      <4>1. NoValue(Tail(channel))
        BY <1>0, <1>c, <2>1, <3>2, TailKeeps DEF Replies
      <4> QED
        BY <3>2, <4>1 DEF NoValue
    <3> QED
      BY <1>16, <3>1, <3>2 DEF SetDone
  <2> QED
    BY <2>1, <2>2 DEF Replies, Current, ValuesLast, NoValue
<1>17. CASE SetTimesOut
  <2>1. phase = "set" /\ phase' = "loop" /\ up /\ GivesUp /\ UNCHANGED <<channel, device, presses>>
    BY <1>17, BackEmptiesHands DEF SetTimesOut, charger
  <2>2. timeouts = 0 /\ timeouts' # 0
    BY <2>1, GivesUpTrusted
  <2> QED
    BY <1>0, <2>1, <2>2 DEF Replies, Current, ValuesLast, NoValue
<1> QED
  BY <1>1, <1>2, <1>3, <1>4, <1>5, <1>6, <1>7, <1>8, <1>9, <1>10, <1>11, <1>12, <1>13, <1>14, <1>15,
     <1>16, <1>17 DEF Next, WorkerStep

\* A GET is answered with the mask the charger has when it is read.
LEMMA ReadIsCurrent ==
  ASSUME TypeOK, Replies, Trusted, Awaiting, Head(channel).kind = "value"
  PROVE  Head(channel).mask = device
<1>1. /\ channel \in Seq(Frames) /\ device \in Masks /\ channel # <<>>
      /\ up /\ phase \in {"get", "refresh"}
  BY DEF TypeOK, Awaiting
<1>2. Current(channel, device)
  BY <1>1 DEF Replies
<1> QED
  BY <1>1, <1>2, TailCurrent

LEMMA SwitchedPorts ==
  ASSUME TypeOK, NEW p
  PROVE  /\ p \in op.ports => (op.on <=> p \in Switched(op, device))
         /\ p \notin op.ports => (p \in device <=> p \in Switched(op, device))
<1>1. op.on \in BOOLEAN
  <2>1. op \in Ops \cup {NoOp}
    BY DEF TypeOK
  <2>2. \A o \in Ops : o.on \in BOOLEAN
    BY DEF Ops
  <2>3. NoOp.on = FALSE
    BY DEF NoOp
  <2> QED
    BY <2>1, <2>2, <2>3, Zenon
<1> QED
  BY <1>1 DEF Switched

LEMMA PendingStep ==
  ASSUME TypeOK, Replies, Pending, [Next]_vars
  PROVE  Pending'
<1> SUFFICES ASSUME Trusted' PROVE Pending'
  BY DEF Pending
<1>0. Trusted
  BY TrustedStep
<1>1. CASE phase' \notin {"send", "set"}
  BY <1>1 DEF Pending
<1>2. CASE UNCHANGED <<phase, want, op, device>>
  BY <1>0, <1>2 DEF Pending
<1>3. CASE MaskRead
  <2>1. CASE want' = Switched(op, Head(channel).mask) /\ phase' = "send" /\ UNCHANGED <<op, device>>
    <3>1. Head(channel).mask = device
      BY <1>0, <1>3, ReadIsCurrent DEF MaskRead
    <3> QED
      BY <2>1, <3>1 DEF Pending, Switched
  <2>2. CASE Back
    BY <1>1, <2>2, BackEmptiesHands
  <2> QED
    BY <1>3, <2>1, <2>2 DEF MaskRead
<1>4. CASE SendSet
  <2>1. phase = "send" /\ device' = want /\ phase' = "set" /\ UNCHANGED <<op, want>>
    BY <1>4 DEF SendSet, DeliverSet
  <2>2. want = Switched(op, device)
    BY <1>0, <2>1 DEF Pending
  <2>3. \A p \in op.ports : op.on <=> p \in want
    BY <2>2, SwitchedPorts
  <2> QED
    BY <2>1, <2>3 DEF Pending
<1>5. CASE \/ \E c \in Callers : Execute(c) \/ CallerTimesOut(c)
           \/ LinkLost \/ Stop \/ Ended \/ SkipFrame \/ SetFrame \/ UNCHANGED vars
  BY <1>2, <1>5 DEF Execute, CallerTimesOut, LinkLost, Stop, Ended, SkipFrame, SetFrame, vars, worker, charger
<1>6. CASE \E p \in Ports : PortPressed(p)
  BY <1>6, CommandsAssumption DEF CommandsAssumption, PortPressed, Trusted, TypeOK
<1>7. CASE \/ RuntimeEnds \/ Reconnect \/ LoopEnds \/ TakeNext \/ ReceiveWindow \/ Receive \/ RefreshStarts
           \/ Refreshed \/ GetTimesOut \/ SendSetFails \/ SetDone \/ SetTimesOut
  BY <1>1, <1>7, BackEmptiesHands DEF RuntimeEnds, Reconnect, LoopEnds, TakeNext, ReceiveWindow, Receive,
     RefreshStarts, Refreshed, GetTimesOut, SendSetFails, SetDone, SetTimesOut
<1> QED
  BY <1>3, <1>4, <1>5, <1>6, <1>7 DEF Next, WorkerStep

\* A mask with the ports switched that is the charger's: what a delivered SET
\* leaves, and what an operation finds that has nothing to change.
LEMMA SetHolds ==
  ASSUME TypeOK, AcknowledgedHolds, Trusted, DeliverSet(want), want = Switched(op, device)
  PROVE  AcknowledgedHolds'
<1>1. device' = want /\ acked' = [p \in Ports |-> IF p \in op.ports THEN "none" ELSE acked[p]]
  BY DEF DeliverSet
<1> SUFFICES ASSUME NEW p \in Ports, acked'[p] # "none"
             PROVE  acked'[p] = "on" <=> p \in device'
  BY DEF AcknowledgedHolds
<1>2. p \notin op.ports /\ acked'[p] = acked[p]
  BY <1>1
<1>3. p \in device' <=> p \in device
  BY <1>1, <1>2, SwitchedPorts
<1> QED
  BY <1>2, <1>3 DEF AcknowledgedHolds, Trusted

LEMMA ToldHolds ==
  ASSUME TypeOK, AcknowledgedHolds, Trusted, NEW c, Told(c), UNCHANGED device,
         \A p \in op.ports : op.on <=> p \in device
  PROVE  AcknowledgedHolds'
<1> SUFFICES ASSUME NEW p \in Ports, acked'[p] # "none"
             PROVE  acked'[p] = "on" <=> p \in device
  BY DEF AcknowledgedHolds
<1>1. CASE p \in op.ports /\ status[c] = "waiting"
  <2>1. acked'[p] = IF op.on THEN "on" ELSE "off"
    BY <1>1 DEF Told
  <2> QED
    BY <1>1, <2>1
<1>2. CASE ~(p \in op.ports /\ status[c] = "waiting")
  <2>1. acked'[p] = acked[p]
    BY <1>2 DEF Told
  <2> QED
    BY <2>1 DEF AcknowledgedHolds, Trusted
<1> QED
  BY <1>1, <1>2

LEMMA AckStep ==
  ASSUME TypeOK, Replies, Pending, AcknowledgedHolds, [Next]_vars
  PROVE  AcknowledgedHolds'
<1> SUFFICES ASSUME Trusted' PROVE AcknowledgedHolds'
  BY DEF AcknowledgedHolds, Trusted
<1>0. Trusted
  BY TrustedStep
<1>1. CASE UNCHANGED <<acked, device>>
  BY <1>0, <1>1 DEF AcknowledgedHolds, Trusted
<1>2. CASE MaskRead
  <2>1. CASE Switched(op, Head(channel).mask) = Head(channel).mask /\ Told(cur) /\ UNCHANGED device
    <3>1. Head(channel).mask = device
      BY <1>0, <1>2, ReadIsCurrent DEF MaskRead
    <3>2. \A p \in op.ports : op.on <=> p \in device
      BY <2>1, <3>1, SwitchedPorts
    <3> QED
      BY <1>0, <2>1, <3>2, ToldHolds
  <2> QED
    BY <1>1, <1>2, <2>1 DEF MaskRead
<1>3. CASE SendSet \/ SendSetFails
  <2>1. want = Switched(op, device)
    BY <1>0, <1>3 DEF SendSet, SendSetFails, Pending
  <2> QED
    BY <1>0, <1>1, <1>3, <2>1, SetHolds DEF SendSet, SendSetFails
<1>4. CASE SetDone
  <2>1. \A p \in op.ports : op.on <=> p \in device
    BY <1>0, <1>4 DEF SetDone, Pending
  <2> QED
    BY <1>0, <1>4, <2>1, ToldHolds DEF SetDone
<1>5. CASE \E p \in Ports : PortPressed(p)
  BY <1>5, CommandsAssumption DEF CommandsAssumption, PortPressed, Trusted, TypeOK
<1>6. CASE \/ \E c \in Callers : Execute(c) \/ CallerTimesOut(c)
           \/ LinkLost \/ Stop \/ RuntimeEnds \/ Ended \/ UNCHANGED vars
           \/ Reconnect \/ LoopEnds \/ TakeNext \/ ReceiveWindow \/ Receive \/ RefreshStarts
           \/ SkipFrame \/ SetFrame \/ Refreshed \/ GetTimesOut \/ SetTimesOut
  BY <1>1, <1>6 DEF Execute, CallerTimesOut, LinkLost, Stop, RuntimeEnds, Ended, Reconnect, LoopEnds,
     TakeNext, DeliverGet, ReceiveWindow, Receive, RefreshStarts, SkipFrame, SetFrame, Refreshed,
     GetTimesOut, SetTimesOut, vars, charger
<1> QED
  BY <1>2, <1>3, <1>4, <1>5, <1>6 DEF Next, WorkerStep

\* Whatever ports and callers there are and however often the link is lost, a
\* port a caller was told is switched stays so until it is switched again, as
\* long as no connection saw two commands given up and nobody pressed a button.
THEOREM NoUpdateLost == Spec => []AcknowledgedHolds
<1>1. Init => TypeOK /\ HandsInv /\ BusyInv
  BY TypeInit
<1>2. TypeOK /\ HandsInv /\ BusyInv /\ [Next]_vars => TypeOK' /\ HandsInv' /\ BusyInv'
  BY HandsStep, TypeStep
<1>3. Init => AckInv
  BY DEF Init, AckInv, StoppedIsDown, Replies, Pending, AcknowledgedHolds
<1>4. TypeOK /\ AckInv /\ [Next]_vars => AckInv'
  BY StoppedStep, RepliesStep, PendingStep, AckStep DEF AckInv
<1>5. AckInv => AcknowledgedHolds
  BY DEF AckInv
<1> QED
  BY <1>1, <1>2, <1>3, <1>4, <1>5, PTL DEF Spec

(***************************************************************************)
(* The switches are atomic                                                 *)
(***************************************************************************)

\* The worker's hands hold no operation unless they hold its caller.
EmptyHands == cur = "worker" => op = NoOp

LEMMA EmptyHandsStep ==
  ASSUME HandsInv, EmptyHands, [Next]_vars
  PROVE  EmptyHands'
<1>1. CASE UNCHANGED <<cur, op>>
  BY <1>1 DEF EmptyHands
<1>2. CASE Back
  BY <1>2 DEF Back, EmptyHands
<1>3. CASE Reconnect \/ RefreshStarts
  <2>1. cur = "worker" /\ UNCHANGED op
    BY <1>3 DEF Reconnect, RefreshStarts, HandsInv
  <2> QED
    BY <2>1 DEF EmptyHands
<1>4. CASE TakeNext
  <2>1. Head(queue) \in Callers
    BY <1>4 DEF TakeNext, HandsInv
  <2> QED
    BY <1>1, <1>4, <2>1, CommandsAssumption DEF CommandsAssumption, TakeNext, EmptyHands
<1>5. CASE \/ \E c \in Callers : Execute(c) \/ CallerTimesOut(c)
           \/ \E p \in Ports : PortPressed(p)
           \/ LinkLost \/ Stop \/ RuntimeEnds \/ Ended \/ UNCHANGED vars
           \/ LoopEnds \/ ReceiveWindow \/ Receive \/ SkipFrame \/ SendSet \/ SetFrame
  BY <1>1, <1>5 DEF Execute, CallerTimesOut, PortPressed, LinkLost, Stop, RuntimeEnds, Ended,
     LoopEnds, ReceiveWindow, Receive, SkipFrame, SendSet, SetFrame, vars, worker
<1>6. CASE Refreshed \/ MaskRead \/ GetTimesOut \/ SendSetFails \/ SetDone \/ SetTimesOut
  BY <1>1, <1>2, <1>6 DEF Refreshed, MaskRead, GetTimesOut, SendSetFails, SetDone, SetTimesOut
<1> QED
  BY <1>3, <1>4, <1>5, <1>6 DEF Next, WorkerStep

LEMMA SwitchInitMap == Init => Switches!SwitchInit
  BY DEF Init, Trusted, NoOp, Masks, Switches!SwitchInit, Switches!Masks, Switches!NoOp

\* The ports that are to be switched, as the abstract operation names them.
LEMMA AskedIsOp ==
  ASSUME phase # "down"
  PROVE  /\ Switches!Changed = Switched(op, device)
         /\ Switches!InForce <=> \A p \in op.ports : p \in device <=> op.on
  BY DEF Switches!Changed, Switches!InForce, Switched

\* An operation in the worker's hands has its turn, and the end of its call ends it.
LEMMA BackEndsTurn ==
  ASSUME TypeOK, HandsInv, BusyInv, phase \in {"get", "send", "set"}, Back
  PROVE  Switches!TurnEnds
  BY DEF Back, BusyInv, NoOp, Switches!TurnEnds, Switches!NoOp

LEMMA AnswerIsHeard ==
  ASSUME phase # "down", NEW s, Answer(cur, s)
  PROVE  Switches!Hears(s)
  BY DEF Answer, Switches!Hears

\* Every step of the worker, the callers and the charger is one of the
\* switches, or none at all.
LEMMA SwitchStep ==
  ASSUME TypeOK, HandsInv, BusyInv, Replies, Pending, EmptyHands, [Next]_vars
  PROVE  [Switches!SwitchNext]_(Switches!switchVars)
<1> DEFINE Step == [Switches!SwitchNext]_(Switches!switchVars)
<1>a. Switches!Doubtable
  BY TrustedStep DEF Switches!Doubtable
<1>b. ASSUME UNCHANGED <<device, status, cur, op, late, presses>>,
             phase' = phase \/ (phase \notin {"set", "down"} /\ phase' \notin {"set", "down"})
      PROVE  Step
  <2>1. Trusted' = Trusted
    BY <1>b DEF Trusted
  <2> QED
    BY <1>b, <2>1 DEF Switches!switchVars
<1>c. ASSUME phase \in {"get", "send", "set"}, Back, NotSet \/ Answer(cur, "error"),
             UNCHANGED device \/ (phase = "send" /\ device' = want)
      PROVE  Step
  <2>1. Switches!TurnEnds
    BY <1>c, BackEndsTurn
  <2>2. \E a \in {"unacked", "error"} : Switches!Hears(a)
    BY <1>c, AnswerIsHeard DEF NotSet
  <2>3. CASE UNCHANGED device
    BY <1>a, <2>1, <2>2, <2>3 DEF Switches!Breaks, Switches!SwitchNext
  <2>4. CASE phase = "send" /\ device' = want
    <3>1. Switches!Changes
      BY <1>a, <1>c, <2>1, <2>4, AskedIsOp, TrustedStep
      DEF Switches!Changes, Switches!TurnEnds, Switches!Masks, Pending, TypeOK, Masks
    <3> QED
      BY <2>1, <2>2, <3>1 DEF Switches!Breaks, Switches!SwitchNext
  <2> QED
    BY <1>c, <2>3, <2>4
<1>d. ASSUME phase \in {"get", "send", "set"}, Back, Answer(cur, "ok"),
             UNCHANGED <<device, late, presses>>,
             Trusted => \A p \in op.ports : p \in device <=> op.on
      PROVE  Step
  <2>1. Trusted' = Trusted
    BY <1>d DEF Trusted
  <2>2. Switches!TurnEnds /\ Switches!Hears("ok")
    BY <1>d, BackEndsTurn, AnswerIsHeard
  <2>3. Trusted => Switches!InForce
    BY <1>d, AskedIsOp
  <2> QED
    BY <1>d, <2>1, <2>2, <2>3 DEF Switches!Succeeds, Switches!SwitchNext
<1>1. ASSUME NEW c \in Callers, Execute(c) \/ CallerTimesOut(c)
      PROVE  Step
  <2>1. Trusted' = Trusted
    BY <1>1 DEF Execute, CallerTimesOut, faults, Trusted
  <2>2. CASE Execute(c)
    BY <2>1, <2>2 DEF Execute, worker, charger, Switches!Calls, Switches!SwitchNext
  <2>3. CASE CallerTimesOut(c)
    BY <1>a, <2>1, <2>3 DEF CallerTimesOut, worker, charger, Switches!Leaves, Switches!SwitchNext
  <2> QED
    BY <1>1, <2>2, <2>3
<1>2. ASSUME NEW p \in Ports, PortPressed(p)
      PROVE  Step
  <2>1. Trusted' = FALSE
    BY <1>2, CommandsAssumption DEF CommandsAssumption, TypeOK, PortPressed, Trusted
  <2> QED
    BY <1>2, <2>1 DEF PortPressed, calls, worker, Switches!Pressed, Switches!SwitchNext
<1>3. CASE LinkLost \/ Stop \/ Ended \/ UNCHANGED vars
  BY <1>b, <1>3 DEF LinkLost, Stop, Ended, vars, calls, worker, charger, faults
<1>4. CASE RuntimeEnds
  <2>1. Trusted' = Trusted
    BY <1>4 DEF RuntimeEnds, faults, Trusted
  <2> QED
    BY <1>4, <2>1 DEF RuntimeEnds, charger, NoOp, Switches!NoOp, Switches!Closes, Switches!SwitchNext
<1>5. CASE LoopEnds
  <2>1. Trusted' = Trusted
    BY <1>5 DEF LoopEnds, faults, Trusted
  <2>2. cur = "worker" /\ op = NoOp /\ phase = "loop" /\ phase' # "set" /\ UNCHANGED <<cur, op, status, device>>
    BY <1>5 DEF LoopEnds, HandsInv, EmptyHands, calls
  <2> QED
    BY <2>1, <2>2 DEF Switches!switchVars
<1>6. CASE Reconnect \/ RefreshStarts
  <2>1. cur = "worker"
    BY <1>6 DEF Reconnect, RefreshStarts, HandsInv
  <2> QED
    BY <1>b, <1>6, <2>1 DEF Reconnect, RefreshStarts, DeliverGet, calls, faults
<1>7. CASE ReceiveWindow \/ Receive \/ SkipFrame \/ SetFrame
  BY <1>b, <1>7 DEF ReceiveWindow, Receive, SkipFrame, SetFrame, calls, charger, faults
<1>8. CASE TakeNext
  <2>1. Head(queue) \in Callers /\ phase = "loop" /\ cur = "worker" /\ UNCHANGED <<presses, device>>
    BY <1>8 DEF TakeNext, HandsInv, DeliverGet
  <2>2. CASE UNCHANGED <<status, phase, cur, op, late>>
    BY <1>b, <2>1, <2>2
  <2>3. CASE /\ status[Head(queue)] = "waiting" /\ cur' = Head(queue) /\ op' \in Ops
             /\ phase' = "get" /\ UNCHANGED <<status, late>>
    <3>1. Trusted' = Trusted
      BY <2>1, <2>3 DEF Trusted
    <3>2. Ops \subseteq Switches!Ops
      BY DEF Ops, Targets, Switches!Ops, Switches!Masks
    <3>3. Switches!Begins(Head(queue))
      BY <2>1, <2>3, <3>1, <3>2 DEF Switches!Begins
    <3> QED
      BY <2>1, <3>3 DEF Switches!SwitchNext
  <2>4. CASE status[Head(queue)] = "waiting" /\ Answer(Head(queue), "error") /\ UNCHANGED <<phase, cur, op>>
    <3>1. status' = [status EXCEPT ![Head(queue)] = "error"]
      BY <2>4 DEF Answer
    <3>2. Switches!Leaves(Head(queue))
      BY <1>a, <2>1, <2>4, <3>1 DEF Switches!Leaves
    <3> QED
      BY <2>1, <3>2 DEF Switches!SwitchNext
  <2> QED
    BY <1>8, <2>2, <2>3, <2>4 DEF TakeNext
<1>9. CASE Refreshed
  <2>1. cur = "worker" /\ op = NoOp
    BY <1>9 DEF Refreshed, HandsInv, EmptyHands
  <2> QED
    BY <1>b, <1>9, <2>1 DEF Refreshed, Back, calls, faults
<1>10. CASE GetTimesOut
  <2>1. CASE phase = "get"
    BY <1>c, <1>10, <2>1 DEF GetTimesOut, charger
  <2>2. CASE phase = "refresh"
    <3>1. cur = "worker" /\ op = NoOp /\ UNCHANGED <<cur, op, device, status>> /\ phase' = "loop"
      BY <1>10, <2>2 DEF GetTimesOut, HandsInv, EmptyHands, Back, charger
    <3>2. (Trusted' = Trusted) \/ ~Trusted'
      BY <1>a DEF Switches!Doubtable, Trusted
    <3>3. CASE Trusted' = Trusted
      BY <2>2, <3>1, <3>3 DEF Switches!switchVars
    <3>4. CASE ~Trusted'
      BY <2>2, <3>1, <3>4 DEF Switches!Doubted, Switches!SwitchNext
    <3> QED
      BY <3>2, <3>3, <3>4
  <2> QED
    BY <1>10, <2>1, <2>2 DEF GetTimesOut
<1>11. CASE SendSetFails \/ SetTimesOut
  BY <1>c, <1>11 DEF SendSetFails, SetTimesOut, DeliverSet, charger
<1>12. CASE MaskRead
  <2>1. CASE Switched(op, Head(channel).mask) = Head(channel).mask /\ Answer(cur, "ok") /\ Back
    <3>1. Trusted => \A p \in op.ports : p \in device <=> op.on
      BY <1>12, <2>1, ReadIsCurrent, SwitchedPorts DEF MaskRead
    <3> QED
      BY <1>d, <1>12, <2>1, <3>1 DEF MaskRead, faults
  <2>2. CASE phase' = "send" /\ UNCHANGED <<status, cur, op>>
    BY <1>b, <1>12, <2>2 DEF MaskRead, faults
  <2> QED
    BY <1>12, <2>1, <2>2 DEF MaskRead
<1>13. CASE SendSet
  <2>1. /\ phase = "send" /\ phase' = "set" /\ device' = want
        /\ UNCHANGED <<status, cur, op, late, presses>>
    BY <1>13 DEF SendSet, DeliverSet, calls, faults
  <2>2. Trusted' = Trusted
    BY <2>1 DEF Trusted
  <2>3. Trusted => device' = Switches!Changed
    BY <2>1, AskedIsOp DEF Pending
  <2>4. want \in Switches!Masks /\ cur \in Callers
    BY <2>1 DEF TypeOK, BusyInv, Masks, Switches!Masks
  <2>5. Switches!Changes
    BY <1>a, <2>1, <2>2, <2>3, <2>4 DEF Switches!Changes
  <2> QED
    BY <2>1, <2>5 DEF Switches!Applies, Switches!SwitchNext
<1>14. CASE SetDone
  <2>1. Trusted => \A p \in op.ports : p \in device <=> op.on
    BY <1>14 DEF SetDone, Pending
  <2> QED
    BY <1>d, <1>14, <2>1 DEF SetDone, faults
<1> QED
  BY <1>1, <1>2, <1>3, <1>4, <1>5, <1>6, <1>7, <1>8, <1>9, <1>10, <1>11, <1>12, <1>13, <1>14
  DEF Next, WorkerStep

\* The worker's three commands implement PortSwitches: for any callers and
\* ports, one operation at a time changes the mask at most once, in one step,
\* from the mask the charger then has, and nothing of it comes after its answer.
THEOREM SwitchesAtomic == Spec => SwitchesAreAtomic
<1>1. Init => TypeOK /\ HandsInv /\ BusyInv
  BY TypeInit
<1>2. TypeOK /\ HandsInv /\ BusyInv /\ [Next]_vars => TypeOK' /\ HandsInv' /\ BusyInv'
  BY HandsStep, TypeStep
<1>3. Init => AckInv /\ EmptyHands
  BY DEF Init, AckInv, StoppedIsDown, Replies, Pending, AcknowledgedHolds, EmptyHands
<1>4. TypeOK /\ AckInv /\ [Next]_vars => AckInv'
  BY StoppedStep, RepliesStep, PendingStep, AckStep DEF AckInv
<1>5. HandsInv /\ EmptyHands /\ [Next]_vars => EmptyHands'
  BY EmptyHandsStep
<1>6. Init => Switches!SwitchInit
  BY SwitchInitMap
<1>7. TypeOK /\ HandsInv /\ BusyInv /\ AckInv /\ EmptyHands /\ [Next]_vars
        => [Switches!SwitchNext]_(Switches!switchVars)
  BY SwitchStep DEF AckInv
<1> QED
  BY <1>1, <1>2, <1>3, <1>4, <1>5, <1>6, <1>7, PTL DEF Spec, SwitchesAreAtomic, Switches!SwitchSpec

(***************************************************************************)
(* The session's counter                                                   *)
(***************************************************************************)

(***************************************************************************)
(* The counter                                                             *)
(***************************************************************************)

\* Products with the width grow with the factor.
LEMMA Products ==
    ASSUME NEW a \in Int, NEW b \in Int, a + 1 <= b
    PROVE  a * W + W <= b * W
<1>1. W \in Nat
  BY SessionAssumption DEF SessionAssumption
<1>2. PICK d \in Nat : b = a + 1 + d
  <2>1. b - a - 1 \in Nat
    OBVIOUS
  <2> QED
    BY <2>1
<1>3. b * W = a * W + W + d * W
  BY <1>1, <1>2
<1>4. d * W >= 0
  BY <1>1
<1> QED
  BY <1>1, <1>3, <1>4

\* What is on the wire of a counter of which both halves are known.
LEMMA LowHalf ==
    ASSUME NEW k \in Nat, NEW r \in 0..(W - 1)
    PROVE  (k * W + r) % W = r
<1> DEFINE n == k * W + r
           q == n \div W
           m == n % W
<1>1. W \in Nat /\ W > 0
  BY SessionAssumption DEF SessionAssumption
<1>2. n \in Int
  BY <1>1
<1>3. q \in Int /\ m \in 0..(W - 1) /\ n = W * q + m
  BY <1>1, <1>2
<1> HIDE DEF q, m
<1>4. q * W + m = k * W + r
  BY <1>1, <1>3
<1>5. ~(q + 1 <= k)
  <2>1. q + 1 <= k => q * W + W <= k * W
    BY <1>3, Products
  <2> QED
    BY <1>1, <1>3, <1>4, <2>1
<1>6. ~(k + 1 <= q)
  <2>1. k + 1 <= q => k * W + W <= q * W
    BY <1>3, Products
  <2> QED
    BY <1>1, <1>3, <1>4, <2>1
<1>7. q = k
  BY <1>3, <1>5, <1>6
<1>8. m = r
  BY <1>1, <1>3, <1>4, <1>7
<1> QED
  BY <1>8 DEF m

\* The frame that is read next is not further away than half the range, so that
\* a wrap shows as a fall by more than that.
LEMMA Rebuilt ==
    ASSUME NEW h \in Nat, NEW l \in 0..(W - 1), NEW n \in Nat,
           h * W + l <= n, n <= h * W + l + MaxUnread
    PROVE  (IF n % W < l /\ l - (n % W) > W \div 2 THEN h + 1 ELSE h) * W + (n % W) = n
<1>1. W \in Nat /\ W > 0 /\ MaxUnread \in Nat /\ 2 * MaxUnread < W
  BY SessionAssumption DEF SessionAssumption
<1>2. h * W \in Nat /\ (h + 1) * W = h * W + W
  BY <1>1
<1> DEFINE g == n - (h * W + l)
<1>3. g \in 0..MaxUnread /\ n = h * W + l + g
  BY <1>1, <1>2
<1> HIDE DEF g
<1>4. CASE l + g < W
  <2>1. l + g \in 0..(W - 1) /\ n = h * W + (l + g)
    BY <1>1, <1>2, <1>3, <1>4
  <2>2. n % W = l + g
    BY <2>1, LowHalf
  <2>3. ~(l + g < l)
    BY <1>1, <1>3
  <2> QED
    BY <2>1, <2>2, <2>3
<1>5. CASE l + g >= W
  <2>1. l + g - W \in 0..(W - 1) /\ n = (h + 1) * W + (l + g - W)
    BY <1>1, <1>2, <1>3, <1>5
  <2>2. n % W = l + g - W
    BY <2>1, LowHalf
  <2>3. l + g - W < l /\ l - (l + g - W) > W \div 2
    BY <1>1, <1>3
  <2> QED
    BY <2>1, <2>2, <2>3
<1> QED
  BY <1>1, <1>2, <1>3, <1>4, <1>5

(***************************************************************************)
(* The frames that wait                                                    *)
(***************************************************************************)
IsSingle(frame) == frame.kind = "single"

\* A queue's messages are in order, and lie between two numbers.
Ascending(s) ==
    \A i, j \in 1..Len(s) : i < j /\ IsSingle(s[i]) /\ IsSingle(s[j]) => s[i].n < s[j].n
Within(s, low, top) ==
    \A i \in 1..Len(s) : IsSingle(s[i]) => low <= s[i].n /\ s[i].n < top

\* What was set aside was sent before what is in the queue.
Earlier(s, t) ==
    \A i \in 1..Len(s), j \in 1..Len(t) :
        IsSingle(s[i]) /\ IsSingle(t[j]) => s[i].n < t[j].n

Waiting ==
    /\ Ascending(saved) /\ Ascending(inbox) /\ Earlier(saved, inbox)
    /\ Within(saved, next, sent) /\ Within(inbox, next, sent)
    /\ stage = "ready" => saved = <<>>

Near == sent <= next + MaxUnread
Fresh == ~stray /\ next = 0 => hi = 0 /\ last = 0

SessionInv == SessionTypeOK /\ Waiting /\ Near /\ Fresh /\ EpochInSync

\* The kinds of frames and their numbers.
LEMMA FrameFacts ==
    ASSUME NEW f \in Notices
    PROVE  /\ f.kind \in {"single", "head", "chunk"}
           /\ f.kind = "single" => f.n \in 0..MaxFrames
           /\ f.kind = "head" => f.n \in 1..MaxCount
  BY DEF Notices, Single, LongOf, Chunk

LEMMA MadeFrames ==
    /\ \A n \in 0..MaxFrames : Single(n) \in Notices /\ IsSingle(Single(n)) /\ Single(n).n = n
    /\ \A c \in 1..MaxCount : LongOf(c) \in Notices /\ ~IsSingle(LongOf(c))
    /\ Chunk \in Notices /\ ~IsSingle(Chunk)
  BY DEF Notices, Single, LongOf, Chunk, IsSingle

\* What taking the first frame leaves.
LEMMA Taken ==
    ASSUME NEW s \in Seq(Notices), s # <<>>
    PROVE  /\ Head(s) \in Notices /\ Head(s) = s[1] /\ Len(s) \in Nat /\ Len(s) > 0
           /\ Tail(s) \in Seq(Notices) /\ Len(Tail(s)) = Len(s) - 1
           /\ \A i \in 1..Len(Tail(s)) : i + 1 \in 1..Len(s) /\ Tail(s)[i] = s[i + 1]
  BY HeadTailProperties

LEMMA TakenOrder ==
    ASSUME NEW s \in Seq(Notices), s # <<>>, Ascending(s),
           NEW low \in Nat, NEW top \in Nat, Within(s, low, top)
    PROVE  /\ Ascending(Tail(s)) /\ Within(Tail(s), low, top)
           /\ IsSingle(Head(s)) => /\ low <= Head(s).n /\ Head(s).n < top
                                   /\ Within(Tail(s), Head(s).n + 1, top)
           /\ \A t \in Seq(Notices) : /\ Earlier(s, t) => Earlier(Tail(s), t)
                                      /\ Earlier(t, s) => Earlier(t, Tail(s))
                                      /\ Earlier(s, t) /\ IsSingle(Head(s)) /\ Within(t, low, top)
                                            => Within(t, Head(s).n + 1, top)
<1>1. /\ Head(s) \in Notices /\ Head(s) = s[1] /\ Len(s) \in Nat /\ Len(s) > 0
      /\ Tail(s) \in Seq(Notices) /\ Len(Tail(s)) = Len(s) - 1
      /\ \A i \in 1..Len(Tail(s)) : i + 1 \in 1..Len(s) /\ Tail(s)[i] = s[i + 1]
  BY Taken
<1>2. Ascending(Tail(s))
  BY <1>1 DEF Ascending
<1>3. Within(Tail(s), low, top)
  BY <1>1 DEF Within
<1>4. ASSUME IsSingle(Head(s))
      PROVE  /\ low <= Head(s).n /\ Head(s).n < top
             /\ Within(Tail(s), Head(s).n + 1, top)
  <2>1. 1 \in 1..Len(s) /\ IsSingle(s[1])
    BY <1>1, <1>4
  <2>2. low <= s[1].n /\ s[1].n < top /\ s[1].n \in Nat
    BY <1>1, <2>1, FrameFacts DEF Within, IsSingle
  <2>3. ASSUME NEW i \in 1..Len(Tail(s)), IsSingle(Tail(s)[i])
        PROVE  s[1].n + 1 <= Tail(s)[i].n /\ Tail(s)[i].n < top
    <3>1. i + 1 \in 1..Len(s) /\ Tail(s)[i] = s[i + 1] /\ 1 < i + 1
      BY <1>1
    <3>2. s[1].n < s[i + 1].n /\ s[i + 1].n < top
      BY <2>1, <2>3, <3>1 DEF Ascending, Within
    <3>3. s[i + 1] \in Notices
      BY <3>1
    <3>4. s[i + 1].n \in Nat
      BY <2>3, <3>1, <3>3, FrameFacts DEF IsSingle
    <3> QED
      BY <2>2, <3>1, <3>2, <3>4
  <2> QED
    BY <1>1, <2>2, <2>3 DEF Within
<1>5. ASSUME NEW t \in Seq(Notices)
      PROVE  /\ Earlier(s, t) => Earlier(Tail(s), t)
             /\ Earlier(t, s) => Earlier(t, Tail(s))
             /\ Earlier(s, t) /\ IsSingle(Head(s)) /\ Within(t, low, top)
                   => Within(t, Head(s).n + 1, top)
  <2>1. Earlier(s, t) => Earlier(Tail(s), t)
    BY <1>1 DEF Earlier
  <2>2. Earlier(t, s) => Earlier(t, Tail(s))
    BY <1>1 DEF Earlier
  <2>3. ASSUME Earlier(s, t), IsSingle(Head(s)), Within(t, low, top),
               NEW i \in 1..Len(t), IsSingle(t[i])
        PROVE  Head(s).n + 1 <= t[i].n /\ t[i].n < top
    <3>1. 1 \in 1..Len(s) /\ s[1].n < t[i].n /\ t[i].n < top
      BY <1>1, <2>3 DEF Earlier, Within
    <3>2. t[i].n \in Nat /\ s[1].n \in Nat
      BY <1>1, <2>3, FrameFacts DEF IsSingle
    <3> QED
      BY <1>1, <3>1, <3>2
  <2> QED
    BY <2>1, <2>2, <2>3 DEF Within
<1> QED
  BY <1>2, <1>3, <1>4, <1>5

\* What putting a frame at the end of a queue leaves, given that it is newer.
LEMMA Added ==
    ASSUME NEW s \in Seq(Notices), Ascending(s), NEW low \in Nat, NEW top \in Nat, NEW upper \in Nat,
           Within(s, low, top), top <= upper, NEW f \in Notices,
           IsSingle(f) => /\ low <= f.n /\ f.n < upper
                          /\ \A i \in 1..Len(s) : IsSingle(s[i]) => s[i].n < f.n
    PROVE  /\ Append(s, f) \in Seq(Notices) /\ Len(Append(s, f)) = Len(s) + 1
           /\ Ascending(Append(s, f)) /\ Within(Append(s, f), low, upper)
           /\ \A t \in Seq(Notices) :
                 /\ Earlier(t, s) /\ (IsSingle(f) => Within(t, low, f.n)) => Earlier(t, Append(s, f))
                 /\ Earlier(s, t) /\ (IsSingle(f) => Within(t, f.n + 1, upper)) => Earlier(Append(s, f), t)
<1> DEFINE a == Append(s, f)
<1>1. /\ a \in Seq(Notices) /\ Len(a) = Len(s) + 1 /\ Len(s) \in Nat
      /\ \A i \in 1..Len(s) : a[i] = s[i]
      /\ a[Len(s) + 1] = f
  BY AppendProperties
<1> HIDE DEF a
<1>2. \A i \in 1..Len(a) : i \in 1..Len(s) \/ i = Len(s) + 1
  BY <1>1
<1>3. Ascending(a)
  <2> SUFFICES ASSUME NEW i \in 1..Len(a), NEW j \in 1..Len(a), i < j, IsSingle(a[i]), IsSingle(a[j])
               PROVE  a[i].n < a[j].n
    BY DEF Ascending
  <2>1. i \in 1..Len(s) /\ a[i] = s[i]
    BY <1>1
  <2>2. CASE j \in 1..Len(s)
    BY <1>1, <2>1, <2>2 DEF Ascending
  <2>3. CASE j = Len(s) + 1
    BY <1>1, <2>1, <2>3
  <2> QED
    BY <1>2, <2>2, <2>3
<1>4. Within(a, low, upper)
  <2> SUFFICES ASSUME NEW i \in 1..Len(a), IsSingle(a[i])
               PROVE  low <= a[i].n /\ a[i].n < upper
    BY DEF Within
  <2>1. CASE i \in 1..Len(s)
    <3>1. a[i] = s[i] /\ s[i] \in Notices /\ low <= s[i].n /\ s[i].n < top
      BY <1>1, <2>1 DEF Within
    <3>2. s[i].n \in Nat
      BY <3>1, FrameFacts DEF IsSingle
    <3> QED
      BY <3>1, <3>2
  <2>2. CASE i = Len(s) + 1
    BY <1>1, <2>2
  <2> QED
    BY <1>2, <2>1, <2>2
<1>5. ASSUME NEW t \in Seq(Notices)
      PROVE  /\ Earlier(t, s) /\ (IsSingle(f) => Within(t, low, f.n)) => Earlier(t, a)
             /\ Earlier(s, t) /\ (IsSingle(f) => Within(t, f.n + 1, upper)) => Earlier(a, t)
  <2>1. ASSUME Earlier(t, s), IsSingle(f) => Within(t, low, f.n),
               NEW i \in 1..Len(t), NEW j \in 1..Len(a), IsSingle(t[i]), IsSingle(a[j])
        PROVE  t[i].n < a[j].n
    <3>1. CASE j \in 1..Len(s)
      BY <1>1, <2>1, <3>1 DEF Earlier
    <3>2. CASE j = Len(s) + 1
      BY <1>1, <2>1, <3>2 DEF Within
    <3> QED
      BY <1>2, <3>1, <3>2
  <2>2. ASSUME Earlier(s, t), IsSingle(f) => Within(t, f.n + 1, upper),
               NEW i \in 1..Len(a), NEW j \in 1..Len(t), IsSingle(a[i]), IsSingle(t[j])
        PROVE  a[i].n < t[j].n
    <3>1. CASE i \in 1..Len(s)
      BY <1>1, <2>2, <3>1 DEF Earlier
    <3>2. CASE i = Len(s) + 1
      <4>1. IsSingle(f) /\ f.n + 1 <= t[j].n /\ t[j] \in Notices
        BY <1>1, <2>2, <3>2 DEF Within
      <4>2. f.n \in Nat /\ t[j].n \in Nat
        BY <2>2, <4>1, FrameFacts DEF IsSingle
      <4> QED
        BY <1>1, <3>2, <4>1, <4>2
    <3> QED
      BY <1>2, <3>1, <3>2
  <2> QED
    BY <2>1, <2>2 DEF Earlier
<1> QED
  BY <1>1, <1>3, <1>4, <1>5 DEF a

\* A lower floor or a higher ceiling is no harm.
LEMMA Widened ==
    ASSUME NEW s \in Seq(Notices), NEW low \in Nat, NEW top \in Nat, NEW upper \in Nat,
           Within(s, low, top), top <= upper
    PROVE  Within(s, low, upper)
<1> SUFFICES ASSUME NEW i \in 1..Len(s), IsSingle(s[i])
             PROVE  low <= s[i].n /\ s[i].n < upper
  BY DEF Within
<1>1. low <= s[i].n /\ s[i].n < top /\ s[i] \in Notices
  BY DEF Within
<1>2. s[i].n \in Nat
  BY <1>1, FrameFacts DEF IsSingle
<1> QED
  BY <1>1, <1>2

(***************************************************************************)
(* The steps                                                               *)
(***************************************************************************)

\* Any decryption keeps the types of the two halves.
LEMMA DecryptTypes ==
    ASSUME SessionTypeOK, NEW lo \in 0..(W - 1), Decrypt(lo)
    PROVE  hi' \in Nat /\ last' \in 0..(W - 1)
  BY DEF SessionTypeOK, Decrypt

\* Reading a message that waits: the rebuilt counter is its number.
LEMMA MessageRead ==
    ASSUME SessionTypeOK, Near, Fresh, EpochInSync, NEW n \in Nat, next <= n, n < sent,
           Decrypt(n % W), next' = n + 1, stray' = stray, sent' = sent
    PROVE  /\ hi' \in Nat /\ last' \in 0..(W - 1) /\ next' \in 0..sent'
           /\ Near' /\ Fresh' /\ EpochInSync'
<1>1. W \in Nat /\ W > 0 /\ MaxUnread \in Nat /\ n % W \in 0..(W - 1)
  BY SessionAssumption DEF SessionAssumption
<1>2. hi' \in Nat /\ last' \in 0..(W - 1)
  BY <1>1, DecryptTypes
<1>3. sent \in Nat /\ next \in Nat /\ hi \in Nat /\ last \in 0..(W - 1)
  BY SessionAssumption DEF SessionAssumption, SessionTypeOK
<1>4. next' \in 0..sent' /\ Near' /\ Fresh'
  BY <1>1, <1>3 DEF Near, Fresh
<1>5. ASSUME ~stray
      PROVE  hi' * W + last' = n
  <2>1. hi * W + last <= n /\ n <= hi * W + last + MaxUnread
    <3>1. CASE next = 0
      <4>1. hi * W + last = 0
        BY <1>1, <1>5, <3>1 DEF Fresh
      <4> QED
        BY <1>1, <1>3, <3>1, <4>1 DEF Near
    <3>2. CASE next > 0
      <4>1. hi * W + last = next - 1
        BY <1>5, <3>2 DEF EpochInSync
      <4> QED
        BY <1>1, <1>3, <4>1 DEF Near
    <3> QED
      BY <1>3, <3>1, <3>2
  <2>2. (IF n % W < last /\ last - (n % W) > W \div 2 THEN hi + 1 ELSE hi) * W + (n % W) = n
    BY <1>3, <2>1, Rebuilt
  <2>3. /\ hi' = IF n % W < last /\ last - (n % W) > W \div 2 THEN hi + 1 ELSE hi
        /\ last' = n % W
    BY DEF Decrypt
  <2> HIDE DEF Decrypt
  <2> QED
    BY <2>2, <2>3
<1>6. EpochInSync'
  BY <1>3, <1>5 DEF EpochInSync
<1> QED
  BY <1>2, <1>4, <1>6

\* A stray chunk may move the counter, which is noted.
LEMMA StrayRead ==
    ASSUME SessionTypeOK, Near, NEW lo \in 0..(W - 1), Decrypt(lo), stray' = TRUE,
           UNCHANGED <<next, sent>>
    PROVE  /\ hi' \in Nat /\ last' \in 0..(W - 1) /\ next' \in 0..sent'
           /\ Near' /\ Fresh' /\ EpochInSync'
  BY DecryptTypes DEF SessionTypeOK, Near, Fresh, EpochInSync

\* What reading one frame does to all but the queues.
LEMMA ProcessStep ==
    ASSUME SessionTypeOK, Near, Fresh, EpochInSync, NEW f \in Notices,
           IsSingle(f) => next <= f.n /\ f.n < sent, Process(f), sent' = sent
    PROVE  /\ hi' \in Nat /\ last' \in 0..(W - 1) /\ next' \in 0..sent' /\ stray' \in BOOLEAN
           /\ skip' \in 0..MaxCount /\ owed' \in 0..MaxCount
           /\ Near' /\ Fresh' /\ EpochInSync'
           /\ IsSingle(f) => next' = f.n + 1
           /\ ~IsSingle(f) => next' = next
<1>1. MaxCount \in Nat /\ f.kind \in {"single", "head", "chunk"}
  BY SessionAssumption, FrameFacts DEF SessionAssumption
<1>2. CASE f.kind = "single"
  <2>1. f.n \in Nat /\ next <= f.n /\ f.n < sent
    BY <1>2, FrameFacts, SessionAssumption DEF IsSingle, SessionAssumption
  <2>2. Decrypt(f.n % W) /\ next' = f.n + 1 /\ stray' = stray /\ skip' = skip /\ owed' = owed
    BY <1>2 DEF Process
  <2>3. /\ hi' \in Nat /\ last' \in 0..(W - 1) /\ next' \in 0..sent'
        /\ Near' /\ Fresh' /\ EpochInSync'
    BY <2>1, <2>2, MessageRead
  <2> QED
    BY <1>2, <2>2, <2>3 DEF SessionTypeOK, IsSingle
<1>3. CASE f.kind = "head"
  <2>1. f.n \in 1..MaxCount /\ skip' = f.n /\ owed' = f.n /\ UNCHANGED counter
    BY <1>3, FrameFacts DEF Process
  <2> QED
    BY <1>1, <1>3, <2>1 DEF counter, SessionTypeOK, Near, Fresh, EpochInSync, IsSingle
<1>4. CASE f.kind = "chunk"
  <2>1. CASE UNCHANGED <<owed, counter>> /\ skip' \in 0..MaxCount
    BY <1>4, <2>1 DEF counter, SessionTypeOK, Near, Fresh, EpochInSync, IsSingle
  <2>2. CASE /\ \E lo \in 0..(W - 1) : Decrypt(lo)
             /\ stray' = TRUE
             /\ UNCHANGED <<skip, owed, next>>
    <3>1. /\ hi' \in Nat /\ last' \in 0..(W - 1) /\ next' \in 0..sent'
          /\ Near' /\ Fresh' /\ EpochInSync'
      BY <2>2, StrayRead
    <3> QED
      BY <1>4, <2>2, <3>1 DEF SessionTypeOK, IsSingle
  <2>3. \/ UNCHANGED <<owed, counter>> /\ skip' \in 0..MaxCount
        \/ /\ \E lo \in 0..(W - 1) : Decrypt(lo)
           /\ stray' = TRUE
           /\ UNCHANGED <<skip, owed, next>>
    BY <1>1, <1>4 DEF Process, SessionTypeOK
  <2> QED
    BY <2>1, <2>2, <2>3
<1> QED
  BY <1>1, <1>2, <1>3, <1>4

\* Queueing a frame, with the oldest one dropped when there is no room.
LEMMA QueuedStep ==
    ASSUME SessionInv, NEW f \in Notices, Queued(f), NEW upper \in Nat, sent <= upper,
           IsSingle(f) => f.n = sent /\ sent < upper
    PROVE  /\ inbox' \in Seq(Notices) /\ Len(inbox') <= QueueSize
           /\ Ascending(inbox') /\ Within(inbox', next, upper) /\ Earlier(saved, inbox')
<1> DEFINE s == IF Len(inbox) = QueueSize THEN Tail(inbox) ELSE inbox
<1>1. /\ inbox \in Seq(Notices) /\ Len(inbox) \in Nat /\ saved \in Seq(Notices) /\ QueueSize \in Nat \ {0}
      /\ next \in Nat /\ sent \in Nat /\ Len(inbox) <= QueueSize
  BY SessionAssumption DEF SessionAssumption, SessionInv, SessionTypeOK
<1>2. /\ s \in Seq(Notices) /\ Len(s) < QueueSize /\ Len(s) \in Nat
      /\ Ascending(s) /\ Within(s, next, sent) /\ Earlier(saved, s)
  <2>1. CASE Len(inbox) = QueueSize
    <3>1. inbox # <<>>
      BY <1>1, <2>1
    <3>2. Tail(inbox) \in Seq(Notices) /\ Len(Tail(inbox)) = Len(inbox) - 1
      BY <1>1, <3>1, Taken
    <3>3. Ascending(Tail(inbox)) /\ Within(Tail(inbox), next, sent) /\ Earlier(saved, Tail(inbox))
      BY <1>1, <3>1, TakenOrder DEF SessionInv, Waiting
    <3> QED
      BY <1>1, <2>1, <3>2, <3>3
  <2>2. CASE Len(inbox) # QueueSize
    BY <1>1, <2>2 DEF SessionInv, Waiting
  <2> QED
    BY <2>1, <2>2
<1>3. inbox' = Append(s, f)
  BY DEF Queued
<1> HIDE DEF s
<1>4. IsSingle(f) => /\ next <= f.n /\ f.n < upper
                     /\ \A i \in 1..Len(s) : IsSingle(s[i]) => s[i].n < f.n
  <2>1. next <= sent
    BY <1>1 DEF SessionInv, SessionTypeOK
  <2>2. \A i \in 1..Len(s) : IsSingle(s[i]) => s[i].n < sent
    BY <1>2 DEF Within
  <2> QED
    BY <2>1, <2>2
<1>5. IsSingle(f) => Within(saved, next, f.n)
  BY DEF SessionInv, Waiting
<1>6. /\ Append(s, f) \in Seq(Notices) /\ Len(Append(s, f)) = Len(s) + 1
      /\ Ascending(Append(s, f)) /\ Within(Append(s, f), next, upper)
      /\ Earlier(saved, Append(s, f))
  BY <1>1, <1>2, <1>4, <1>5, Added
<1> QED
  BY <1>1, <1>2, <1>3, <1>6

\* Every step keeps the invariant.
LEMMA InvStep == SessionInv /\ [SessionNext]_sessionVars => SessionInv'
<1> SUFFICES ASSUME SessionInv, [SessionNext]_sessionVars
             PROVE  SessionInv'
  OBVIOUS
<1>0. /\ MaxCount \in Nat \ {0} /\ MaxUnread \in Nat /\ MaxSaved \in Nat /\ MaxLong \in Nat
      /\ MaxFrames \in Nat /\ QueueSize \in Nat /\ W \in Nat \ {0} /\ 0 \in 0..(W - 1)
  BY SessionAssumption DEF SessionAssumption
<1>00. /\ SessionTypeOK /\ Waiting /\ Near /\ Fresh /\ EpochInSync
       /\ sent \in Nat /\ next \in Nat /\ inbox \in Seq(Notices) /\ saved \in Seq(Notices)
       /\ Len(inbox) \in Nat /\ Len(saved) \in Nat
  BY <1>0 DEF SessionInv, SessionTypeOK
<1>1. CASE Login
  BY <1>00, <1>1 DEF Login, SessionInv, SessionTypeOK, Waiting, Near, Fresh, EpochInSync, counter, sender
<1>2. CASE Disconnected
  <2>1. SessionTypeOK'
    <3>1. <<>> \in Seq(Notices) /\ Len(<<>>) = 0
      OBVIOUS
    <3>2. /\ inbox' \in Seq(Notices) /\ Len(inbox') = 0
          /\ saved' \in Seq(Notices) /\ Len(saved') = 0
      BY <1>2, <3>1 DEF Disconnected
    <3>3. /\ stage' = "offline" /\ sent' = 0 /\ owed' = 0 /\ long' = 0 /\ skip' = 0
          /\ hi' = 0 /\ last' = 0 /\ next' = 0 /\ stray' = FALSE
      BY <1>2 DEF Disconnected
    <3>4. /\ 0 \in 0..MaxFrames /\ 0 \in 0..MaxCount /\ 0 \in 0..MaxLong /\ 0 \in 0..(W - 1)
          /\ 0 \in 0..0 /\ 0 \in Nat /\ FALSE \in BOOLEAN
      BY <1>0
    <3>5. Len(inbox') <= QueueSize /\ Len(saved') <= MaxSaved
      BY <1>0, <3>2
    <3> QED
      BY <3>2, <3>3, <3>4, <3>5 DEF SessionTypeOK
  <2>2. Waiting'
    BY <1>2 DEF Disconnected, Waiting, Ascending, Earlier, Within
  <2> QED
    BY <1>0, <1>2, <2>1, <2>2 DEF Disconnected, SessionInv, Near, Fresh, EpochInSync
<1>3. CASE Sends
  <2>1. /\ sent' = sent + 1 /\ sent + 1 - next <= MaxUnread /\ sent + 1 <= MaxFrames
        /\ UNCHANGED <<stage, saved, skip, owed, counter>> /\ long' \in 0..MaxLong
    BY <1>0, <1>00, <1>3 DEF Sends, SessionTypeOK
  <2>2. PICK f \in Notices : Queued(f) /\ (IsSingle(f) => f.n = sent)
    <3>1. Queued(Single(sent)) \/ \E c \in 1..MaxCount : Queued(LongOf(c))
      BY <1>3 DEF Sends
    <3>2. sent \in 0..MaxFrames
      BY <1>0, <1>00, <2>1
    <3> QED
      BY <3>1, <3>2, MadeFrames
  <2>3. /\ inbox' \in Seq(Notices) /\ Len(inbox') <= QueueSize
        /\ Ascending(inbox') /\ Within(inbox', next, sent + 1) /\ Earlier(saved, inbox')
    BY <1>00, <2>2, QueuedStep
  <2>4. Within(saved, next, sent + 1)
    BY <1>00, Widened DEF Waiting
  <2>5. SessionTypeOK'
    BY <1>00, <2>1, <2>3 DEF SessionTypeOK, counter
  <2>6. Waiting'
    BY <1>00, <2>1, <2>3, <2>4 DEF Waiting, counter
  <2> QED
    BY <1>0, <1>00, <2>1, <2>5, <2>6 DEF SessionInv, Near, Fresh, EpochInSync, counter
<1>4. CASE SendsChunk
  <2>1. /\ inbox' \in Seq(Notices) /\ Len(inbox') <= QueueSize
        /\ Ascending(inbox') /\ Within(inbox', next, sent) /\ Earlier(saved, inbox')
    <3>1. Queued(Chunk) \/ inbox' = inbox
      BY <1>4 DEF SendsChunk
    <3>2. CASE Queued(Chunk)
      BY <1>00, <3>2, QueuedStep, MadeFrames
    <3>3. CASE inbox' = inbox
      BY <1>00, <3>3 DEF SessionTypeOK, Waiting
    <3> QED
      BY <3>1, <3>2, <3>3
  <2> QED
    BY <1>0, <1>00, <1>4, <2>1 DEF SendsChunk, SessionInv, SessionTypeOK, Waiting, Near, Fresh, EpochInSync, counter
<1>5. CASE Capture
  <2>1. /\ stage = "capture" /\ inbox # <<>> /\ Len(saved) < MaxSaved /\ inbox' = Tail(inbox)
        /\ UNCHANGED <<stage, counter, sent, long>>
    BY <1>5 DEF Capture
  <2>2. Head(inbox) \in Notices /\ Tail(inbox) \in Seq(Notices) /\ Len(Tail(inbox)) = Len(inbox) - 1
    BY <1>00, <2>1, Taken
  <2>3. /\ Ascending(Tail(inbox)) /\ Within(Tail(inbox), next, sent) /\ Earlier(saved, Tail(inbox))
        /\ IsSingle(Head(inbox)) => /\ next <= Head(inbox).n /\ Head(inbox).n < sent
                                    /\ Within(Tail(inbox), Head(inbox).n + 1, sent)
    BY <1>00, <2>1, TakenOrder DEF Waiting
  <2>4. /\ skip' \in 0..MaxCount /\ owed' \in 0..MaxCount
        /\ saved' = saved \/ saved' = Append(saved, Head(inbox))
    <3> DEFINE f == Head(inbox)
    <3>1. /\ f.kind \in {"single", "head", "chunk"}
          /\ f.kind = "head" => f.n \in 1..MaxCount
      BY <2>2, FrameFacts
    <3>2. /\ f.kind = "single" => saved' = Append(saved, f) /\ UNCHANGED <<skip, owed>>
          /\ f.kind = "head" => skip' = f.n /\ owed' = f.n /\ UNCHANGED saved
          /\ f.kind = "chunk" =>
                \/ UNCHANGED <<saved, skip, owed>>
                \/ skip' \in 1..MaxCount /\ UNCHANGED <<saved, owed>>
                \/ saved' = Append(saved, f) /\ UNCHANGED <<skip, owed>>
      BY <1>5 DEF Capture
    <3> HIDE DEF f
    <3>3. \/ skip' = skip \/ skip' \in 1..MaxCount
      BY <3>1, <3>2
    <3>4. \/ owed' = owed \/ owed' \in 1..MaxCount
      BY <3>1, <3>2
    <3>5. saved' = saved \/ saved' = Append(saved, f)
      BY <3>1, <3>2
    <3> QED
      BY <1>0, <1>00, <3>3, <3>4, <3>5 DEF SessionTypeOK, f
  <2>5. CASE saved' = saved
    BY <1>0, <1>00, <2>1, <2>2, <2>3, <2>4, <2>5
       DEF SessionInv, SessionTypeOK, Waiting, Near, Fresh, EpochInSync, counter
  <2>6. CASE saved' = Append(saved, Head(inbox))
    <3>1. IsSingle(Head(inbox)) =>
             \A i \in 1..Len(saved) : IsSingle(saved[i]) => saved[i].n < Head(inbox).n
      BY <1>00, <2>1, Taken DEF Waiting, Earlier
    <3>2. /\ Append(saved, Head(inbox)) \in Seq(Notices) /\ Len(Append(saved, Head(inbox))) = Len(saved) + 1
          /\ Ascending(Append(saved, Head(inbox))) /\ Within(Append(saved, Head(inbox)), next, sent)
          /\ Earlier(Append(saved, Head(inbox)), Tail(inbox))
      <4>1. IsSingle(Head(inbox)) =>
               /\ next <= Head(inbox).n /\ Head(inbox).n < sent
               /\ \A i \in 1..Len(saved) : IsSingle(saved[i]) => saved[i].n < Head(inbox).n
        BY <2>3, <3>1
      <4>2. Ascending(saved) /\ Within(saved, next, sent) /\ sent <= sent
        BY <1>00 DEF Waiting
      <4>3. IsSingle(Head(inbox)) => Within(Tail(inbox), Head(inbox).n + 1, sent)
        BY <2>3
      <4> QED
        BY <1>00, <2>2, <2>3, <4>1, <4>2, <4>3, Added
    <3> HIDE DEF Capture
    <3>3. SessionTypeOK'
      BY <1>0, <1>00, <2>1, <2>2, <2>4, <2>6, <3>2 DEF SessionTypeOK, counter
    <3>4. Waiting'
      BY <1>00, <2>1, <2>3, <2>6, <3>2 DEF Waiting, counter
    <3> QED
      BY <1>00, <2>1, <3>3, <3>4 DEF SessionInv, Near, Fresh, EpochInSync, counter
  <2> QED
    BY <2>4, <2>5, <2>6
<1>6. CASE CaptureEnds
  BY <1>00, <1>6 DEF CaptureEnds, SessionInv, SessionTypeOK, Waiting, Near, Fresh, EpochInSync, counter, sender
<1>7. CASE Swallow
  <2>1. /\ inbox' \in Seq(Notices) /\ Len(inbox') <= QueueSize
        /\ Ascending(inbox') /\ Within(inbox', next, sent) /\ Earlier(saved, inbox')
    <3>1. (inbox # <<>> /\ inbox' = Tail(inbox)) \/ inbox' = inbox
      BY <1>7 DEF Swallow
    <3>2. CASE inbox # <<>> /\ inbox' = Tail(inbox)
      <4>1. Tail(inbox) \in Seq(Notices) /\ Len(Tail(inbox)) = Len(inbox) - 1
        BY <1>00, <3>2, Taken
      <4>2. Ascending(Tail(inbox)) /\ Within(Tail(inbox), next, sent) /\ Earlier(saved, Tail(inbox))
        BY <1>00, <3>2, TakenOrder DEF Waiting
      <4> QED
        BY <1>0, <1>00, <3>2, <4>1, <4>2 DEF SessionTypeOK
    <3>3. CASE inbox' = inbox
      BY <1>00, <3>3 DEF SessionTypeOK, Waiting
    <3> QED
      BY <3>1, <3>2, <3>3
  <2>2. skip' \in 0..MaxCount
    BY <1>0, <1>00, <1>7 DEF Swallow, SessionTypeOK
  <2> QED
    BY <1>00, <1>7, <2>1, <2>2 DEF Swallow, SessionInv, SessionTypeOK, Waiting, Near, Fresh, EpochInSync, counter, sender
<1>8. CASE Drain
  <2> DEFINE f == Head(saved)
  <2>1. /\ stage = "drain" /\ saved # <<>> /\ saved' = Tail(saved) /\ UNCHANGED <<stage, inbox, sent, long>>
        /\ \/ f.kind = "single" /\ Process(f)
           \/ /\ f.kind = "chunk"
              /\ \E lo \in 0..(W - 1) : Decrypt(lo)
              /\ stray' = TRUE
              /\ UNCHANGED <<skip, owed, next>>
    BY <1>8 DEF Drain
  <2>2. f \in Notices /\ Tail(saved) \in Seq(Notices) /\ Len(Tail(saved)) = Len(saved) - 1
    BY <1>00, <2>1, Taken
  <2>3. /\ Ascending(Tail(saved)) /\ Within(Tail(saved), next, sent) /\ Earlier(Tail(saved), inbox)
        /\ IsSingle(f) => /\ next <= f.n /\ f.n < sent
                          /\ Within(Tail(saved), f.n + 1, sent) /\ Within(inbox, f.n + 1, sent)
    BY <1>00, <2>1, TakenOrder DEF Waiting
  <2> HIDE DEF f
  <2>4. /\ hi' \in Nat /\ last' \in 0..(W - 1) /\ next' \in 0..sent' /\ stray' \in BOOLEAN
        /\ skip' \in 0..MaxCount /\ owed' \in 0..MaxCount
        /\ Near' /\ Fresh' /\ EpochInSync'
        /\ IsSingle(f) => next' = f.n + 1
        /\ ~IsSingle(f) => next' = next
    <3>1. CASE f.kind = "single" /\ Process(f)
      BY <1>00, <2>1, <2>2, <2>3, <3>1, ProcessStep
    <3>2. CASE /\ f.kind = "chunk"
               /\ \E lo \in 0..(W - 1) : Decrypt(lo)
               /\ stray' = TRUE
               /\ UNCHANGED <<skip, owed, next>>
      <4>1. /\ hi' \in Nat /\ last' \in 0..(W - 1) /\ next' \in 0..sent'
            /\ Near' /\ Fresh' /\ EpochInSync'
        BY <1>00, <2>1, <3>2, StrayRead
      <4> QED
        BY <1>00, <3>2, <4>1 DEF SessionTypeOK, IsSingle
    <3> QED
      BY <2>1, <3>1, <3>2
  <2>5. SessionTypeOK'
    BY <1>0, <1>00, <2>1, <2>2, <2>4 DEF SessionTypeOK
  <2>6. Waiting'
    BY <1>00, <2>1, <2>3, <2>4 DEF Waiting
  <2> QED
    BY <2>4, <2>5, <2>6 DEF SessionInv
<1>9. CASE Drained
  BY <1>00, <1>9 DEF Drained, SessionInv, SessionTypeOK, Waiting, Near, Fresh, EpochInSync, counter, sender
<1>10. CASE Read
  <2> DEFINE f == Head(inbox)
  <2>1. /\ stage = "ready" /\ inbox # <<>> /\ inbox' = Tail(inbox) /\ Process(f)
        /\ UNCHANGED <<stage, saved, sent, long>>
    BY <1>10 DEF Read
  <2>2. f \in Notices /\ Tail(inbox) \in Seq(Notices) /\ Len(Tail(inbox)) = Len(inbox) - 1
    BY <1>00, <2>1, Taken
  <2>3. /\ Ascending(Tail(inbox)) /\ Within(Tail(inbox), next, sent)
        /\ IsSingle(f) => /\ next <= f.n /\ f.n < sent
                          /\ Within(Tail(inbox), f.n + 1, sent)
    BY <1>00, <2>1, TakenOrder DEF Waiting
  <2>4. saved = <<>>
    BY <1>00, <2>1 DEF Waiting
  <2> HIDE DEF f
  <2>5. /\ hi' \in Nat /\ last' \in 0..(W - 1) /\ next' \in 0..sent' /\ stray' \in BOOLEAN
        /\ skip' \in 0..MaxCount /\ owed' \in 0..MaxCount
        /\ Near' /\ Fresh' /\ EpochInSync'
        /\ IsSingle(f) => next' = f.n + 1
        /\ ~IsSingle(f) => next' = next
    BY <1>00, <2>1, <2>2, <2>3, ProcessStep
  <2>6. SessionTypeOK'
    BY <1>0, <1>00, <2>1, <2>2, <2>5 DEF SessionTypeOK
  <2>7. Waiting'
    <3>1. Within(saved, next', sent) /\ Earlier(saved, Tail(inbox)) /\ Ascending(saved)
      BY <2>4 DEF Within, Earlier, Ascending
    <3> QED
      BY <1>00, <2>1, <2>3, <2>4, <2>5, <3>1 DEF Waiting
  <2> QED
    BY <2>5, <2>6, <2>7 DEF SessionInv
<1>11. CASE UNCHANGED sessionVars
  BY <1>00, <1>11 DEF sessionVars, reader, counter, sender, SessionInv, SessionTypeOK, Waiting, Near, Fresh, EpochInSync
<1> QED
  BY <1>1, <1>2, <1>3, <1>4, <1>5, <1>6, <1>7, <1>8, <1>9, <1>10, <1>11 DEF SessionNext

\* The invariant holds at the start.
LEMMA InitInv == SessionInit => SessionInv
<1> SUFFICES ASSUME SessionInit PROVE SessionInv
  OBVIOUS
<1>1. /\ MaxCount \in Nat \ {0} /\ MaxUnread \in Nat /\ MaxSaved \in Nat /\ MaxLong \in Nat
      /\ MaxFrames \in Nat /\ QueueSize \in Nat /\ W \in Nat \ {0}
  BY SessionAssumption DEF SessionAssumption
<1>2. SessionTypeOK
  <2>1. <<>> \in Seq(Notices) /\ Len(<<>>) = 0
    OBVIOUS
  <2>2. /\ inbox \in Seq(Notices) /\ Len(inbox) = 0
        /\ saved \in Seq(Notices) /\ Len(saved) = 0
    BY <2>1 DEF SessionInit
  <2>3. /\ stage = "offline" /\ sent = 0 /\ owed = 0 /\ long = 0 /\ skip = 0
        /\ hi = 0 /\ last = 0 /\ next = 0 /\ stray = FALSE
    BY DEF SessionInit
  <2>4. /\ 0 \in 0..MaxFrames /\ 0 \in 0..MaxCount /\ 0 \in 0..MaxLong /\ 0 \in 0..(W - 1)
        /\ 0 \in 0..0 /\ 0 \in Nat /\ FALSE \in BOOLEAN
    BY <1>1
  <2>5. Len(inbox) <= QueueSize /\ Len(saved) <= MaxSaved
    BY <1>1, <2>2
  <2> QED
    BY <2>2, <2>3, <2>4, <2>5 DEF SessionTypeOK
<1>3. Waiting
  BY DEF SessionInit, Waiting, Ascending, Earlier, Within
<1> QED
  BY <1>1, <1>2, <1>3 DEF SessionInit, SessionInv, Near, Fresh, EpochInSync

\* The reading side of a session is well typed in every reachable state, for
\* every width of the counter and size of the queues.
THEOREM SessionTypeCorrect == SessionSpec => []SessionTypeOK
<1>1. SessionInv => SessionTypeOK
  BY DEF SessionInv
<1> QED
  BY <1>1, InitInv, InvStep, PTL DEF SessionSpec

\* The rebuilt counter is that of the last frame read, for every width of its
\* half on the wire, as long as less than half that range is lost in a row.
THEOREM CounterInSync == SessionSpec => []EpochInSync
<1>1. SessionInv => EpochInSync
  BY DEF SessionInv
<1> QED
  BY <1>1, InitInv, InvStep, PTL DEF SessionSpec

\* No frame is read after a newer one.
THEOREM ReadInOrder == SessionSpec => NewestLast
<1>1. SessionInv /\ [SessionNext]_sessionVars =>
         [next' # next => next' > next \/ stage' = "offline"]_sessionVars
  <2> SUFFICES ASSUME SessionInv, SessionNext, next' # next, stage' # "offline"
               PROVE  next' > next
    BY DEF sessionVars, counter
  <2>1. next \in Nat /\ SessionTypeOK /\ Waiting /\ inbox \in Seq(Notices) /\ saved \in Seq(Notices)
        /\ sent \in Nat
    BY SessionAssumption DEF SessionAssumption, SessionInv, SessionTypeOK
  <2>2. ASSUME NEW f \in Notices, IsSingle(f) => next <= f.n, Process(f)
        PROVE  next' > next
    <3>1. f.kind = "single"
      BY <2>2, FrameFacts DEF Process, counter
    <3>2. next <= f.n /\ next' = f.n + 1 /\ f.n \in Nat
      BY <2>2, <3>1, FrameFacts, SessionAssumption DEF Process, IsSingle, SessionAssumption
    <3> QED
      BY <2>1, <3>2
  <2>3. CASE Drain
    <3>1. saved # <<>> /\ Process(Head(saved))
      BY <2>3 DEF Drain
    <3>2. Head(saved) \in Notices /\ (IsSingle(Head(saved)) => next <= Head(saved).n)
      BY <2>1, <3>1, Taken, TakenOrder DEF Waiting
    <3> QED
      BY <2>2, <3>1, <3>2
  <2>4. CASE Read
    <3>1. inbox # <<>> /\ Process(Head(inbox))
      BY <2>4 DEF Read
    <3>2. Head(inbox) \in Notices /\ (IsSingle(Head(inbox)) => next <= Head(inbox).n)
      BY <2>1, <3>1, Taken, TakenOrder DEF Waiting
    <3> QED
      BY <2>2, <3>1, <3>2
  <2> QED
    BY <2>3, <2>4 DEF SessionNext, Login, Disconnected, Sends, SendsChunk, Capture, CaptureEnds, Swallow,
       Drained, counter
<1> QED
  BY <1>1, InitInv, InvStep, PTL DEF SessionSpec, NewestLast
=============================================================================
