------------------------- MODULE FanRecoveryProofs -------------------------
(* The fan's switch is never worked by two threads at once and no recovery *)
(* worker is lost, for any number of requests, windows and disturbances.   *)
EXTENDS FanRecovery, TLAPS

\* Where a thread may be.
PcInv ==
    /\ pc \in [Threads -> WorkerSteps \cup RequestSteps]
    /\ pc[Worker] \in WorkerSteps
    /\ \A u \in Users : pc[u] \in RequestSteps
    /\ inside \in BOOLEAN
    /\ target \in [Threads -> BOOLEAN]

\* FanAdapter.lock is held by the one thread that is in its block.
LockHeld == \A t \in Threads : pc[t] \in Holding <=> holder = t

SwitchInv == PcInv /\ LockHeld /\ ActiveHasWorker /\ TogglesFromReading

\* start() moves the worker only, and only an idle one.
LEMMA StartStep ==
    ASSUME PcInv, ActiveHasWorker, NEW force \in BOOLEAN, StartEffect(force)
    PROVE  /\ \/ UNCHANGED <<pc, active>>
              \/ pc[Worker] = "idle" /\ pc' = [pc EXCEPT ![Worker] = "top"] /\ active' = TRUE
           /\ UNCHANGED <<inside, target>> => PcInv'
           /\ ActiveHasWorker'
<1>1. \/ UNCHANGED <<pc, active>>
      \/ pc[Worker] = "idle" /\ pc' = [pc EXCEPT ![Worker] = "top"] /\ active' = TRUE
  BY DEF StartEffect, ActiveHasWorker, recovery
<1>2. Worker \in Threads /\ \A u \in Users : u \in Threads /\ u # Worker
  BY RecoveryAssumption DEF RecoveryAssumption, Threads
<1>3. UNCHANGED <<inside, target>> => PcInv'
  BY <1>1, <1>2 DEF PcInv, WorkerSteps
<1>4. ActiveHasWorker'
  BY <1>1, <1>2 DEF ActiveHasWorker, PcInv
<1> QED
  BY <1>1, <1>3, <1>4

\* What a thread does inside FanAdapter, as far as the other threads can see.
StepsOf(t) == IF t = Worker THEN WorkerSteps ELSE RequestSteps
InBlock(t, step) ==
    /\ step \in StepsOf(t) \ {"idle"}
    /\ pc' = [pc EXCEPT ![t] = step]
    /\ holder' = IF step \in Holding THEN t ELSE "none"
    /\ step = "toggle" => pc[t] = "read" /\ power # target[t] /\ power' = power

LEMMA FanStepEffect ==
    ASSUME PcInv, LockHeld, NEW t \in Threads, FanStep(t) \/ ToggleLost(t)
    PROVE  /\ \E step \in WorkerSteps \cup RequestSteps : InBlock(t, step)
           /\ pc[t] \in Holding \/ (pc[t] = "wait" /\ holder = "none")
           /\ UNCHANGED <<active, target, inside>>
           /\ pc[t] # "toggle" => power' = power
           /\ fresh' \subseteq fresh \cup {t}
<1> DEFINE Entered == \E step \in WorkerSteps \cup RequestSteps : InBlock(t, step)
           Rest == /\ pc[t] \in Holding \/ (pc[t] = "wait" /\ holder = "none")
                   /\ UNCHANGED <<active, target, inside>>
                   /\ pc[t] # "toggle" => power' = power
                   /\ fresh' \subseteq fresh \cup {t}
<1>a. pc[t] \in Holding => holder = t
  BY DEF LockHeld
<1>b. ASSUME NEW step \in Holding, Goes(t, step), holder = t,
             step = "toggle" => pc[t] = "read" /\ power # target[t] /\ power' = power
      PROVE  Entered
  <2>1. InBlock(t, step)
    BY <1>b DEF InBlock, Goes, StepsOf, WorkerSteps, RequestSteps, Holding
  <2> QED
    BY <2>1 DEF WorkerSteps
<1>c. ASSUME NEW step \in {"ok", "failed", "sleep", "confirm"}, Leaves(t, step),
             step \in StepsOf(t)
      PROVE  Entered
  <2>1. step \notin Holding /\ step # "idle" /\ step # "toggle"
    BY DEF Holding
  <2>2. InBlock(t, step)
    BY <1>c, <2>1 DEF InBlock, Leaves
  <2> QED
    BY <2>2 DEF WorkerSteps, RequestSteps
<1>d. ASSUME Fails(t)
      PROVE  Entered
  <2>1. CASE t = Worker
    BY <1>c, <1>d, <2>1 DEF Fails, StepsOf, WorkerSteps
  <2>2. CASE t # Worker
    BY <1>c, <1>d, <2>2 DEF Fails, StepsOf, RequestSteps
  <2> QED
    BY <2>1, <2>2
<1>1. CASE TakeLock(t)
  <2>1. InBlock(t, "read")
    BY <1>1 DEF TakeLock, InBlock, StepsOf, WorkerSteps, RequestSteps, Holding
  <2>2. Rest
    BY <1>1 DEF TakeLock, clock, fan, recovery, history
  <2> QED
    BY <2>1, <2>2 DEF WorkerSteps, Holding
<1>2. CASE ReadPower(t)
  <2>1. Rest
    BY <1>2 DEF ReadPower, clock, fan, recovery, Holding
  <2>2. holder = t
    BY <1>2, <1>a DEF ReadPower, Holding
  <2>3. CASE power # target[t]
    BY <1>2, <1>b, <2>1, <2>2, <2>3 DEF ReadPower, Holding, fan
  <2>4. CASE power = target[t] /\ t = Worker
    BY <1>2, <1>b, <2>1, <2>2, <2>4 DEF ReadPower, Holding
  <2>5. CASE power = target[t] /\ t # Worker
    BY <1>2, <1>c, <2>5, <2>1 DEF ReadPower, StepsOf, RequestSteps
  <2> QED
    BY <2>1, <2>3, <2>4, <2>5
<1>3. CASE Toggle(t)
  <2>1. Rest
    BY <1>3 DEF Toggle, clock, recovery, history, Holding
  <2>2. Entered
    BY <1>3, <1>a, <1>b DEF Toggle, Holding
  <2> QED
    BY <2>1, <2>2
<1>4. CASE Verify(t)
  <2>1. Rest
    BY <1>4 DEF Verify, clock, fan, recovery, history, Holding
  <2>2. CASE power = target[t] /\ t = Worker
    BY <1>4, <1>c, <2>2, <2>1 DEF Verify, StepsOf, WorkerSteps
  <2>3. CASE power = target[t] /\ t # Worker
    BY <1>4, <1>c, <2>3, <2>1 DEF Verify, StepsOf, RequestSteps
  <2>4. CASE power # target[t]
    BY <1>4, <1>d, <2>4, <2>1 DEF Verify
  <2> QED
    BY <2>1, <2>2, <2>3, <2>4
<1>5. CASE CallFails(t)
  <2>1. Rest
    BY <1>5 DEF CallFails, clock, fan, recovery, history
  <2> QED
    BY <1>5, <1>d, <2>1 DEF CallFails
<1>6. CASE ToggleLost(t)
  <2>1. Rest
    BY <1>6 DEF ToggleLost, clock, recovery, history, Holding
  <2>2. Entered
    BY <1>6, <1>a, <1>b, <1>d DEF ToggleLost, Holding
  <2> QED
    BY <2>1, <2>2
<1> QED
  BY <1>1, <1>2, <1>3, <1>4, <1>5, <1>6 DEF FanStep

\* The worker's own steps outside FanAdapter.
OwnStep == Attempt \/ GivesUp \/ Retries \/ Confirms \/ Ends
\* What moves no thread.
Elsewhere == WindowOpens \/ WindowCloses \/ ClockSet \/ ButtonPressed \/ MainsLost \/ MainsReturn
             \/ Polls \/ SeesConfirmed \/ SeesActive \/ SupervisorRestarts \/ UNCHANGED vars

LEMMA NextCases ==
    ASSUME [Next]_vars
    PROVE  \/ Elsewhere
           \/ ForcedRequest \/ Triggers
           \/ BackendRestarts
           \/ \E u \in Users, on \in BOOLEAN : Patch(u, on)
           \/ \E t \in Threads : FanStep(t) \/ ToggleLost(t)
           \/ OwnStep
  BY DEF Next, Elsewhere, OwnStep, WorkerStep, SupervisorStep, Threads

LEMMA OwnStepEffect ==
    ASSUME OwnStep
    PROVE  /\ pc[Worker] \notin Holding /\ pc[Worker] # "wait"
           /\ \E step \in {"idle", "top", "wait", "ending"} :
                 /\ pc' = [pc EXCEPT ![Worker] = step]
                 /\ IF step = "idle" THEN active' = FALSE ELSE active' = active /\ pc[Worker] # "idle"
           /\ UNCHANGED <<holder, target, inside, power>>
           /\ fresh' = fresh
  BY DEF OwnStep, Attempt, GivesUp, Retries, Confirms, Ends, Goes, Holding, clock, fan, recovery, history

LEMMA ElsewhereEffect ==
    ASSUME Elsewhere, PcInv
    PROVE  /\ UNCHANGED <<pc, holder, target, active>>
           /\ inside' \in BOOLEAN
           /\ fresh' = {} \/ UNCHANGED <<fresh, power>>
  BY DEF Elsewhere, PcInv, WindowOpens, WindowCloses, ClockSet, ButtonPressed, MainsLost, MainsReturn,
     Polls, SeesConfirmed, SeesActive, SupervisorRestarts, vars, clock, fan, threads, recovery, history

\* What the other cases leave alone.
LEMMA RequestEffect ==
    ASSUME ForcedRequest \/ Triggers
    PROVE  /\ (\E force \in BOOLEAN : StartEffect(force)) \/ UNCHANGED <<pc, recovery>>
           /\ UNCHANGED <<holder, target, inside, power, fresh>>
  BY DEF ForcedRequest, Triggers, clock, fan, history

LEMMA PatchEffect ==
    ASSUME NEW u \in Users, NEW on \in BOOLEAN, Patch(u, on)
    PROVE  /\ pc[u] = "idle"
           /\ pc' = [pc EXCEPT ![u] = "wait"]
           /\ target' = [target EXCEPT ![u] = on]
           /\ UNCHANGED <<holder, inside, power, fresh, active>>
  BY DEF Patch, clock, fan, recovery, history

LEMMA RestartEffect ==
    ASSUME BackendRestarts, PcInv
    PROVE  /\ \A t \in Threads : pc'[t] \notin Holding
           /\ PcInv'
           /\ ActiveHasWorker'
           /\ holder' = "none"
<1>1. Worker \in Threads /\ \A u \in Users : u \in Threads /\ u # Worker
  BY RecoveryAssumption DEF RecoveryAssumption, Threads
<1>2. UNCHANGED <<inside, target>> /\ inside \in BOOLEAN /\ target \in [Threads -> BOOLEAN]
  BY DEF BackendRestarts, clock, PcInv
<1>4. pc'[Worker] = IF inside THEN "top" ELSE "idle"
  BY <1>1 DEF BackendRestarts
<1>5. \A u \in Users : pc'[u] \in {"idle", "ok", "failed"}
  BY <1>1 DEF BackendRestarts
<1>3. \A t \in Threads : pc'[t] \in {"idle", "ok", "failed", "top"}
  BY <1>4, <1>5 DEF Threads
<1>6. pc' \in [Threads -> WorkerSteps \cup RequestSteps]
  BY <1>3 DEF BackendRestarts, WorkerSteps, RequestSteps
<1>7. PcInv'
  BY <1>2, <1>4, <1>5, <1>6 DEF PcInv, WorkerSteps, RequestSteps
<1>8. ActiveHasWorker'
  BY <1>2, <1>4 DEF BackendRestarts, ActiveHasWorker
<1> QED
  BY <1>3, <1>7, <1>8 DEF BackendRestarts, Holding

LEMMA ThreadNames == Worker \in Threads /\ \A u \in Users : u \in Threads /\ u # Worker
  BY RecoveryAssumption DEF RecoveryAssumption, Threads

\* Every thread stays on its own steps, and `active` follows the worker.
LEMMA WorkerStays ==
    PcInv /\ LockHeld /\ ActiveHasWorker /\ [Next]_vars => PcInv' /\ ActiveHasWorker'
<1> SUFFICES ASSUME PcInv, LockHeld, ActiveHasWorker, [Next]_vars
             PROVE  PcInv' /\ ActiveHasWorker'
  OBVIOUS
<1>1. CASE Elsewhere
  BY <1>1, ElsewhereEffect DEF PcInv, ActiveHasWorker
<1>2. CASE ForcedRequest \/ Triggers
  <2>1. CASE \E force \in BOOLEAN : StartEffect(force)
    BY <1>2, <2>1, StartStep, RequestEffect
  <2>2. CASE UNCHANGED <<pc, recovery>>
    BY <1>2, <2>2, RequestEffect DEF PcInv, ActiveHasWorker, recovery
  <2> QED
    BY <1>2, <2>1, <2>2, RequestEffect
<1>3. CASE BackendRestarts
  BY <1>3, RestartEffect
<1>4. ASSUME NEW u \in Users, NEW on \in BOOLEAN, Patch(u, on)
      PROVE  PcInv' /\ ActiveHasWorker'
  BY <1>4, PatchEffect, ThreadNames DEF PcInv, ActiveHasWorker, RequestSteps
<1>5. ASSUME NEW t \in Threads, FanStep(t) \/ ToggleLost(t)
      PROVE  PcInv' /\ ActiveHasWorker'
  <2>1. PICK step \in WorkerSteps \cup RequestSteps : InBlock(t, step)
    BY <1>5, FanStepEffect
  <2>2. pc[t] # "idle" /\ step # "idle" /\ UNCHANGED <<active, inside, target>>
    BY <1>5, <2>1, FanStepEffect DEF InBlock, Holding
  <2>3. PcInv'
    BY <2>1, <2>2, ThreadNames DEF PcInv, InBlock, StepsOf, Threads
  <2>4. pc'[Worker] = "idle" <=> pc[Worker] = "idle"
    BY <2>1, <2>2, ThreadNames DEF PcInv, InBlock
  <2> QED
    BY <2>2, <2>3, <2>4 DEF ActiveHasWorker
<1>6. CASE OwnStep
  <2>1. PICK step \in {"idle", "top", "wait", "ending"} :
          /\ pc' = [pc EXCEPT ![Worker] = step]
          /\ IF step = "idle" THEN active' = FALSE ELSE active' = active /\ pc[Worker] # "idle"
    BY <1>6, OwnStepEffect
  <2>2. PcInv'
    BY <1>6, <2>1, OwnStepEffect, ThreadNames DEF PcInv, WorkerSteps
  <2>3. pc'[Worker] = step
    BY <2>1, ThreadNames DEF PcInv
  <2> QED
    BY <2>1, <2>2, <2>3 DEF ActiveHasWorker
<1> QED
  BY <1>1, <1>2, <1>3, <1>4, <1>5, <1>6, NextCases

\* The lock goes with the block.
LEMMA LockStep == PcInv /\ LockHeld /\ ActiveHasWorker /\ [Next]_vars => LockHeld'
<1> SUFFICES ASSUME PcInv, LockHeld, ActiveHasWorker, [Next]_vars, NEW d \in Threads
             PROVE  pc'[d] \in Holding <=> holder' = d
  BY DEF LockHeld
<1>0. pc[d] \in Holding <=> holder = d
  BY DEF LockHeld
<1>1. CASE Elsewhere
  BY <1>0, <1>1, ElsewhereEffect
<1>2. CASE ForcedRequest \/ Triggers
  <2>1. UNCHANGED pc \/ (pc[Worker] = "idle" /\ pc' = [pc EXCEPT ![Worker] = "top"])
    BY <1>2, StartStep, RequestEffect
  <2> QED
    BY <1>0, <1>2, <2>1, RequestEffect, ThreadNames DEF PcInv, Holding
<1>3. CASE BackendRestarts
  <2>1. d # "none"
    BY RecoveryAssumption DEF RecoveryAssumption, Threads, Worker
  <2> QED
    BY <1>3, <2>1, RestartEffect
<1>4. ASSUME NEW u \in Users, NEW on \in BOOLEAN, Patch(u, on)
      PROVE  pc'[d] \in Holding <=> holder' = d
  BY <1>0, <1>4, PatchEffect, ThreadNames DEF PcInv, Holding
<1>5. ASSUME NEW t \in Threads, FanStep(t) \/ ToggleLost(t)
      PROVE  pc'[d] \in Holding <=> holder' = d
  <2>1. PICK step \in WorkerSteps \cup RequestSteps : InBlock(t, step)
    BY <1>5, FanStepEffect
  <2>2. pc[t] \in Holding \/ (pc[t] = "wait" /\ holder = "none")
    BY <1>5, FanStepEffect
  <2>3. holder \in {t, "none"}
    BY <2>2 DEF LockHeld
  <2>n. t # "none" /\ d # "none"
    BY RecoveryAssumption DEF RecoveryAssumption, Threads, Worker
  <2>4. CASE d = t
    BY <2>1, <2>4, <2>n DEF InBlock, PcInv
  <2>5. CASE d # t
    BY <1>0, <2>1, <2>3, <2>5, <2>n DEF InBlock, PcInv
  <2> QED
    BY <2>4, <2>5
<1>6. CASE OwnStep
  BY <1>0, <1>6, OwnStepEffect, ThreadNames DEF PcInv, Holding
<1> QED
  BY <1>1, <1>2, <1>3, <1>4, <1>5, <1>6, NextCases

\* Nobody outdates another thread's reading, or forgets that he did.
LEMMA ReadingStep == SwitchInv /\ [Next]_vars => TogglesFromReading'
<1> SUFFICES ASSUME SwitchInv, [Next]_vars, NEW d \in Threads,
                    pc'[d] = "toggle", d \in fresh'
             PROVE  power' # target'[d]
  BY DEF TogglesFromReading
<1> USE DEF SwitchInv
<1>0. pc[d] = "toggle" /\ d \in fresh => power # target[d]
  BY DEF TogglesFromReading
<1>1. CASE Elsewhere
  BY <1>0, <1>1, ElsewhereEffect
<1>2. CASE ForcedRequest \/ Triggers
  <2>1. UNCHANGED pc \/ (pc[Worker] = "idle" /\ pc' = [pc EXCEPT ![Worker] = "top"])
    BY <1>2, StartStep, RequestEffect
  <2>2. pc[d] = "toggle"
    BY <2>1 DEF PcInv
  <2> QED
    BY <1>0, <1>2, <2>2, RequestEffect
<1>3. CASE BackendRestarts
  BY <1>3, RestartEffect DEF Holding
<1>4. ASSUME NEW u \in Users, NEW on \in BOOLEAN, Patch(u, on)
      PROVE  power' # target'[d]
  <2>1. d # u /\ pc[d] = "toggle"
    BY <1>4, PatchEffect DEF PcInv
  <2>2. target' = [target EXCEPT ![u] = on] /\ power' = power /\ fresh' = fresh
    BY <1>4, PatchEffect
  <2>3. target'[d] = target[d]
    BY <2>1, <2>2 DEF PcInv
  <2> QED
    BY <1>0, <2>1, <2>2, <2>3
<1>5. ASSUME NEW t \in Threads, FanStep(t) \/ ToggleLost(t)
      PROVE  power' # target'[d]
  <2>1. PICK step \in WorkerSteps \cup RequestSteps : InBlock(t, step)
    BY <1>5, FanStepEffect
  <2>2. target' = target /\ (pc[t] # "toggle" => power' = power) /\ fresh' \subseteq fresh \cup {t}
    BY <1>5, FanStepEffect
  <2>3. CASE d = t
    BY <2>1, <2>2, <2>3 DEF InBlock, PcInv
  <2>4. CASE d # t
    <3>1. pc[d] = "toggle" /\ d \in fresh
      BY <2>1, <2>2, <2>4 DEF InBlock, PcInv
    <3>2. pc[t] # "toggle"
      BY <2>4, <3>1 DEF LockHeld, Holding
    <3> QED
      BY <1>0, <2>2, <3>1, <3>2
  <2> QED
    BY <2>3, <2>4
<1>6. CASE OwnStep
  <2>1. pc[d] = "toggle"
    BY <1>6, OwnStepEffect DEF PcInv
  <2> QED
    BY <1>0, <1>6, <2>1, OwnStepEffect
<1> QED
  BY <1>1, <1>2, <1>3, <1>4, <1>5, <1>6, NextCases

LEMMA SwitchStart == Init => SwitchInv
<1> SUFFICES ASSUME Init
             PROVE  SwitchInv
  OBVIOUS
<1>1. PcInv
  BY ThreadNames DEF Init, PcInv, WorkerSteps, RequestSteps
<1>2. LockHeld
  BY RecoveryAssumption DEF Init, LockHeld, Holding, RecoveryAssumption, Threads, Worker
<1>3. ActiveHasWorker
  BY ThreadNames DEF Init, ActiveHasWorker
<1>4. TogglesFromReading
  BY DEF Init, TogglesFromReading
<1> QED
  BY <1>1, <1>2, <1>3, <1>4 DEF SwitchInv

LEMMA SwitchStep == SwitchInv /\ [Next]_vars => SwitchInv'
  BY WorkerStays, LockStep, ReadingStep DEF SwitchInv

\* For any number of requests, windows and disturbances: between a thread's
\* reading of the fan and its toggle nobody else switches the fan.
THEOREM ReadingHolds == Spec => []TogglesFromReading
<1>1. SwitchInv => TogglesFromReading
  BY DEF SwitchInv
<1> QED
  BY <1>1, SwitchStart, SwitchStep, PTL DEF Spec

\* For any number of them, `active` is set exactly while there is a worker.
THEOREM NoWorkerLost == Spec => []ActiveHasWorker
<1>1. SwitchInv => ActiveHasWorker
  BY DEF SwitchInv
<1> QED
  BY <1>1, SwitchStart, SwitchStep, PTL DEF Spec

(***************************************************************************)
(* Types of everything but the threads' steps                              *)
(***************************************************************************)
Reasons == {"none", "started", "outside-window", "confirmed-on", "timeout", "window-ended"}
ClockOK == window \in Windows /\ ready \in BOOLEAN
FanOK == power \in BOOLEAN /\ online \in BOOLEAN /\ holder \in Threads \cup {"none"}
RecoveryOK == active \in BOOLEAN /\ success \in BOOLEAN /\ reason \in Reasons /\ forced \in BOOLEAN
SupervisorOK ==
    /\ sup \in {"sleep", "answered"} /\ seen \in Snapshots
    /\ completed \in Windows /\ triggered \in Windows
HistoryOK == fresh \subseteq Threads /\ confirmedIn \in Windows
DataOK == ClockOK /\ FanOK /\ RecoveryOK /\ SupervisorOK /\ HistoryOK /\ disturbances \in 0..MaxDisturbances

LEMMA DisturbedType ==
    ASSUME disturbances \in 0..MaxDisturbances, Disturbed \/ UNCHANGED disturbances
    PROVE  disturbances' \in 0..MaxDisturbances
BY RecoveryAssumption DEF RecoveryAssumption, Disturbed

LEMMA StartType ==
    ASSUME RecoveryOK, NEW force \in BOOLEAN, StartEffect(force)
    PROVE  RecoveryOK'
BY DEF StartEffect, RecoveryOK, Reasons, recovery

LEMMA FanStepType ==
    ASSUME DataOK, NEW t \in Threads, FanStep(t) \/ ToggleLost(t)
    PROVE  DataOK'
<1>1. disturbances' \in 0..MaxDisturbances
  BY DisturbedType DEF DataOK, FanStep, TakeLock, ReadPower, Toggle, Verify, CallFails, ToggleLost
<1>2. FanOK' /\ HistoryOK'
  <2> USE DEF DataOK, FanOK, HistoryOK, Fails, Leaves, Goes, fan, history
  <2>1. CASE TakeLock(t)
    BY <2>1 DEF TakeLock
  <2>2. CASE ReadPower(t)
    BY <2>2 DEF ReadPower
  <2>3. CASE Toggle(t)
    BY <2>3 DEF Toggle
  <2>4. CASE Verify(t)
    BY <2>4 DEF Verify
  <2>5. CASE CallFails(t)
    BY <2>5 DEF CallFails
  <2>6. CASE ToggleLost(t)
    BY <2>6 DEF ToggleLost
  <2> QED
    BY <2>1, <2>2, <2>3, <2>4, <2>5, <2>6 DEF FanStep
<1>3. ClockOK' /\ RecoveryOK' /\ SupervisorOK'
  BY DEF DataOK, ClockOK, RecoveryOK, SupervisorOK, clock, recovery, supervisor,
     FanStep, TakeLock, ReadPower, Toggle, Verify, CallFails, ToggleLost
<1> QED
  BY <1>1, <1>2, <1>3 DEF DataOK

LEMMA DataStep == PcInv /\ DataOK /\ [Next]_vars => DataOK'
<1> SUFFICES ASSUME PcInv, DataOK, [Next]_vars
             PROVE  DataOK'
  OBVIOUS
<1>0. inside \in BOOLEAN
  BY DEF PcInv
<1> USE DEF clock, fan, recovery, supervisor, history
<1>1. CASE Elsewhere
  <2>1. disturbances' \in 0..MaxDisturbances
    BY <1>1, DisturbedType DEF DataOK, Elsewhere, WindowOpens, WindowCloses, ClockSet, ButtonPressed,
       MainsLost, MainsReturn, Polls, SeesConfirmed, SeesActive, SupervisorRestarts, vars
  <2>2. ClockOK'
    <3>1. CASE WindowOpens
      BY <3>1, RecoveryAssumption DEF RecoveryAssumption, DataOK, ClockOK, Windows, WindowOpens
    <3>2. CASE UNCHANGED window /\ ready' \in BOOLEAN
      BY <3>2 DEF DataOK, ClockOK
    <3>3. WindowOpens \/ (UNCHANGED window /\ ready' \in BOOLEAN)
      BY <1>1 DEF DataOK, ClockOK, Elsewhere, WindowCloses, ClockSet, ButtonPressed,
         MainsLost, MainsReturn, Polls, SeesConfirmed, SeesActive, SupervisorRestarts, vars
    <3> QED
      BY <3>1, <3>2, <3>3
  <2>3. FanOK' /\ HistoryOK' /\ RecoveryOK'
    BY <1>1 DEF DataOK, FanOK, HistoryOK, RecoveryOK, Elsewhere, WindowOpens, WindowCloses, ClockSet,
       ButtonPressed, MainsLost, MainsReturn, Polls, SeesConfirmed, SeesActive, SupervisorRestarts, vars,
       threads
  <2>4. SupervisorOK'
    <3>1. Snapshot \in Snapshots /\ NoSnapshot \in Snapshots /\ 0 \in Windows
      BY RecoveryAssumption DEF RecoveryAssumption, Windows, DataOK, RecoveryOK, Snapshot, NoSnapshot,
         Snapshots
    <3> QED
      BY <1>1, <3>1 DEF DataOK, SupervisorOK, ClockOK, Decided, Elsewhere, WindowOpens, WindowCloses,
         ClockSet, ButtonPressed, MainsLost, MainsReturn, Polls, SeesConfirmed, SeesActive,
         SupervisorRestarts, vars
  <2> QED
    BY <2>1, <2>2, <2>3, <2>4 DEF DataOK
<1>2. CASE ForcedRequest
  BY <1>2, DisturbedType, StartType DEF ForcedRequest, DataOK, ClockOK, FanOK, SupervisorOK, HistoryOK
<1>3. CASE Triggers
  <2>1. RecoveryOK'
    BY <1>3, StartType DEF Triggers, DataOK, RecoveryOK
  <2>2. SupervisorOK'
    BY <1>3 DEF Triggers, Decided, DataOK, SupervisorOK, ClockOK, NoSnapshot, Snapshots
  <2>3. disturbances' \in 0..MaxDisturbances
    BY <1>3, DisturbedType DEF Triggers, DataOK
  <2> QED
    BY <1>3, <2>1, <2>2, <2>3 DEF Triggers, DataOK, ClockOK, FanOK, HistoryOK
<1>4. CASE BackendRestarts
  BY <1>0, <1>4, DisturbedType DEF BackendRestarts, DataOK, ClockOK, FanOK, RecoveryOK, Reasons,
     SupervisorOK, HistoryOK
<1>5. ASSUME NEW u \in Users, NEW on \in BOOLEAN, Patch(u, on)
      PROVE  DataOK'
  BY <1>5 DEF Patch, DataOK, ClockOK, FanOK, RecoveryOK, SupervisorOK, HistoryOK
<1>6. ASSUME NEW t \in Threads, FanStep(t) \/ ToggleLost(t)
      PROVE  DataOK'
  BY <1>6, FanStepType
<1>7. CASE OwnStep
  BY <1>7 DEF OwnStep, Attempt, GivesUp, Retries, Confirms, Ends, Goes, DataOK, ClockOK, FanOK,
     RecoveryOK, Reasons, SupervisorOK, HistoryOK
<1> QED
  BY <1>1, <1>2, <1>3, <1>4, <1>5, <1>6, <1>7, NextCases

\* Every reachable state of the fan, the worker, the requests and the
\* supervisor is well typed.
THEOREM TypeCorrect == Spec => []TypeOK
<1>1. Init => DataOK
  <2> SUFFICES ASSUME Init PROVE DataOK
    OBVIOUS
  <2>1. window \in Windows /\ 0 \in Windows
    BY RecoveryAssumption DEF RecoveryAssumption, Init, Windows
  <2>2. 0 \in 0..MaxDisturbances
    BY RecoveryAssumption DEF RecoveryAssumption
  <2> QED
    BY <2>1, <2>2 DEF Init, DataOK, ClockOK, FanOK, RecoveryOK, Reasons, SupervisorOK, HistoryOK, Snapshots
<1>2. PcInv /\ DataOK /\ [Next]_vars => DataOK'
  BY DataStep
<1>3. SwitchInv => PcInv
  BY DEF SwitchInv
<1>4. PcInv /\ DataOK => TypeOK
  BY DEF PcInv, DataOK, ClockOK, FanOK, RecoveryOK, Reasons, SupervisorOK, HistoryOK, TypeOK
<1> QED
  BY <1>1, <1>2, <1>3, <1>4, SwitchStart, SwitchStep, PTL DEF Spec
=============================================================================
