--------------------------- MODULE GattGateProofs ---------------------------
(* Safety of the GATT gate for every set of chargers, leases and strips. *)
EXTENDS GattGate, SequenceTheorems, TLAPS

USE GattGateAssumption DEF GattGateAssumption

(***************************************************************************)
(* Types                                                                   *)
(***************************************************************************)

\* Removing one position of a queue leaves a queue.
LEMMA RemoveAtType ==
    ASSUME NEW S, NEW s \in Seq(S), NEW i \in DOMAIN s
    PROVE  RemoveAt(s, i) \in Seq(S)
<1>1. i \in 1..Len(s) /\ Len(s) \in Nat
  OBVIOUS
<1>2. SubSeq(s, 1, i-1) \in Seq(S)
  <2>1. \A j \in 1..i-1 : s[j] \in S
    BY <1>1
  <2> QED
    BY <1>1, <2>1, SubSeqProperties
<1>3. SubSeq(s, i+1, Len(s)) \in Seq(S)
  <2>1. \A j \in i+1..Len(s) : s[j] \in S
    BY <1>1
  <2> QED
    BY <1>1, <2>1, SubSeqProperties
<1> QED
  BY <1>2, <1>3, ConcatProperties DEF RemoveAt

\* The runtime starts well typed.
LEMMA TypeInit == Init => TypeOK
<1> SUFFICES ASSUME Init PROVE TypeOK
  OBVIOUS
<1> USE DEF Init, ChargerPC, ExternalPC, Procs, External
<1>1. waiters \in Seq(Procs)
  OBVIOUS
<1>2. pc \in [Procs -> ChargerPC \cup ExternalPC]
  OBVIOUS
<1>3. restart \in [Procs -> BOOLEAN] /\ caller \in [External -> {"none", "waiting", "using", "stale"}]
  OBVIOUS
<1>4. ports \in [Chargers -> 0..InitialPorts]
  OBVIOUS
<1>5. cause \in [Chargers -> {"polled", "failed", "disconnect"}]
  OBVIOUS
<1> QED
  BY <1>1, <1>2, <1>3, <1>4, <1>5 DEF TypeOK

\* Leaving the queue leaves a queue.
LEMMA LeaveQueueType ==
    ASSUME waiters \in Seq(Procs), NEW p, LeaveQueue(p)
    PROVE  waiters' \in Seq(Procs)
BY RemoveAtType DEF LeaveQueue

\* The two values a port counter is set to.
LEMMA PortBounds == 0 \in 0..InitialPorts /\ InitialPorts \in 0..InitialPorts
OBVIOUS

\* Releasing a setup section keeps every variable in its type.
LEMMA ReleaseSetupType ==
    ASSUME TypeOK, NEW c \in Chargers, NEW r \in {"polled", "failed", "disconnect"},
           NEW where \in {"online", "idle", "dead"}, ReleaseSetup(c, r, where),
           aborting' \in BOOLEAN
    PROVE  TypeOK'
<1> USE DEF TypeOK, ReleaseSetup, gateVars, scanVars
<1>1. ports' \in [Chargers -> 0..InitialPorts]
  BY PortBounds
<1>2. cause' \in [Chargers -> {"polled", "failed", "disconnect"}]
  OBVIOUS
<1>3. CASE ReleaseBegins(c)
  BY <1>1, <1>2, <1>3 DEF ReleaseBegins, ChargerPC, ExternalPC, Procs, External
<1>4. CASE ReleaseAtOnce(c, where)
  BY <1>1, <1>2, <1>4 DEF ReleaseAtOnce, Unlock, ChargerPC, ExternalPC, Procs, External
<1> QED
  BY <1>3, <1>4

\* Every step keeps every variable in its type.
LEMMA TypeStep == TypeOK /\ [Next]_vars => TypeOK'
<1> SUFFICES ASSUME TypeOK, [Next]_vars
             PROVE  TypeOK'
  OBVIOUS
<1> USE DEF TypeOK, ChargerPC, ExternalPC, Setup, Procs, External, gateVars, scanVars
<1>1. ASSUME NEW c \in Chargers, Advertised(c)
      PROVE  TypeOK'
  BY <1>1 DEF Advertised
<1>2. ASSUME NEW c \in Chargers, SeenExpires(c)
      PROVE  TypeOK'
  BY <1>2 DEF SeenExpires
<1>3. ASSUME NEW c \in Chargers, ChargerConnect(c)
      PROVE  TypeOK'
  BY <1>3 DEF ChargerConnect, Enqueue
<1>4. ASSUME NEW c \in Chargers, ChargerGranted(c)
      PROVE  TypeOK'
  <2>1. ports' \in [Chargers -> 0..InitialPorts]
    BY <1>4, PortBounds DEF ChargerGranted
  <2>2. waiters' \in Seq(Procs) /\ locked' \in BOOLEAN
    BY <1>4 DEF ChargerGranted, Dequeue
  <2>3. CASE PauseAtOnce(c)
    <3>1. restart' \in [Procs -> BOOLEAN] /\ scanPaused' \in BOOLEAN /\ scanning' \in BOOLEAN
      BY <2>3 DEF PauseAtOnce, ScannerRunning
    <3>2. pc' = [pc EXCEPT ![c] = "connecting"]
      BY <1>4, <2>3 DEF ChargerGranted, PauseAtOnce, PauseBegins
    <3> QED
      BY <1>4, <2>1, <2>2, <3>1, <3>2 DEF ChargerGranted
  <2>4. CASE PauseBegins(c)
    BY <1>4, <2>1, <2>2, <2>4 DEF ChargerGranted, PauseAtOnce, PauseBegins
  <2> QED
    BY <1>4, <2>3, <2>4 DEF ChargerGranted
<1>5. ASSUME NEW c \in Chargers, ChargerPaused(c)
      PROVE  TypeOK'
  <2>1. ports' \in [Chargers -> 0..InitialPorts]
    BY <1>5, PortBounds DEF ChargerPaused
  <2> QED
    BY <1>5, <2>1 DEF ChargerPaused, PauseEnds
<1>6. ASSUME NEW c \in Chargers, ChargerPauseFails(c)
      PROVE  TypeOK'
  BY <1>6 DEF ChargerPauseFails, Unlock
<1>7. ASSUME NEW c \in Chargers, ChargerSetupStep(c)
      PROVE  TypeOK'
  BY <1>7 DEF ChargerSetupStep
<1>8. ASSUME NEW c \in Chargers, ChargerPoll(c)
      PROVE  TypeOK'
  <2>1. CASE ports[c] > 1 /\ ports' = [ports EXCEPT ![c] = ports[c] - 1]
    <3>1. ports[c] - 1 \in 0..InitialPorts
      BY <2>1
    <3>2. ports' \in [Chargers -> 0..InitialPorts]
      BY <2>1, <3>1
    <3> QED
      BY <1>8, <2>1, <3>2 DEF ChargerPoll
  <2>2. CASE ReleaseSetup(c, "polled", "online")
    BY <1>8, <2>2, ReleaseSetupType DEF ChargerPoll
  <2> QED
    BY <1>8, <2>1, <2>2 DEF ChargerPoll
<1>9. ASSUME NEW c \in Chargers, ChargerSetupFails(c)
      PROVE  TypeOK'
  BY <1>9, ReleaseSetupType DEF ChargerSetupFails
<1>10. ASSUME NEW c \in Chargers, ChargerPollFails(c)
      PROVE  TypeOK'
  BY <1>10, ReleaseSetupType DEF ChargerPollFails
<1>11. ASSUME NEW c \in Chargers, ChargerResumed(c)
      PROVE  TypeOK'
  BY <1>11 DEF ChargerResumed, ResumeEnds, Unlock
<1>12. ASSUME NEW c \in Chargers, ChargerResumeFails(c)
      PROVE  TypeOK'
  BY <1>12 DEF ChargerResumeFails, ResumeEnds, Unlock
<1>13. ASSUME NEW c \in Chargers, ChargerOffline(c)
      PROVE  TypeOK'
  BY <1>13 DEF ChargerOffline
<1>14. ASSUME NEW c \in Chargers, ChargerCancelled(c)
      PROVE  TypeOK'
  <2>1. CASE CancelledOffGate(c)
    BY <1>14, <2>1 DEF ChargerCancelled, CancelledOffGate
  <2>2. CASE CancelledQueued(c)
    <3>1. waiters' \in Seq(Procs) /\ locked' \in BOOLEAN
      BY <2>2, LeaveQueueType DEF CancelledQueued, LeaveQueue
    <3> QED
      BY <1>14, <2>2, <3>1 DEF ChargerCancelled, CancelledQueued
  <2>3. CASE CancelledPausing(c)
    BY <1>14, <2>3 DEF ChargerCancelled, CancelledPausing
  <2>4. CASE CancelledInSetup(c)
    BY <1>14, <2>4, ReleaseSetupType DEF ChargerCancelled, CancelledInSetup
  <2>5. CASE CancelledResuming(c)
    BY <1>14, <2>5 DEF ChargerCancelled, CancelledResuming, ResumeEnds, Unlock
  <2> QED
    BY <1>14, <2>1, <2>2, <2>3, <2>4, <2>5 DEF ChargerCancelled
<1>15. ASSUME NEW e \in External, LeaseRequested(e)
      PROVE  TypeOK'
  BY <1>15 DEF LeaseRequested, Enqueue
<1>16. ASSUME NEW e \in External, LeaseGranted(e)
      PROVE  TypeOK'
  <2>1. waiters' \in Seq(Procs) /\ locked' \in BOOLEAN
    BY <1>16 DEF LeaseGranted, Dequeue
  <2>2. CASE Publish(e) /\ UNCHANGED <<restart, scanVars>>
    BY <1>16, <2>1, <2>2 DEF LeaseGranted, Publish
  <2>3. CASE Publish(e) /\ PauseAtOnce(e)
    BY <1>16, <2>1, <2>3 DEF LeaseGranted, Publish, PauseAtOnce, ScannerRunning
  <2>4. CASE PauseBegins(e) /\ UNCHANGED <<token, caller>>
    BY <1>16, <2>1, <2>4 DEF LeaseGranted, PauseBegins
  <2> QED
    BY <1>16, <2>2, <2>3, <2>4 DEF LeaseGranted
<1>17. ASSUME NEW e \in External, LeasePaused(e)
      PROVE  TypeOK'
  BY <1>17 DEF LeasePaused, PauseEnds, Publish
<1>18. ASSUME NEW e \in External, LeasePauseFails(e)
      PROVE  TypeOK'
  BY <1>18 DEF LeasePauseFails, Unlock
<1>19. ASSUME NEW e \in External, LeaseAnswered(e)
      PROVE  TypeOK'
  BY <1>19 DEF LeaseAnswered
<1>20. ASSUME NEW e \in External, CallerGone(e)
      PROVE  TypeOK'
  BY <1>20 DEF CallerGone
<1>21. ASSUME NEW e \in External, LeaseReleased(e)
      PROVE  TypeOK'
  BY <1>21 DEF LeaseReleased, ReleaseLease, ReleaseBegins, ReleaseAtOnce, Unlock
<1>22. ASSUME NEW e \in External, LeaseExpires(e)
      PROVE  TypeOK'
  BY <1>22 DEF LeaseExpires, ReleaseLease, ReleaseBegins, ReleaseAtOnce, Unlock
<1>23. ASSUME NEW e \in External, LeaseResumed(e)
      PROVE  TypeOK'
  BY <1>23 DEF LeaseResumed, ResumeEnds, Unlock
<1>24. ASSUME NEW e \in External, ReleaseRefused(e)
      PROVE  TypeOK'
  BY <1>24 DEF ReleaseRefused
<1>25. ASSUME NEW e \in External, StripCancelled(e)
      PROVE  TypeOK'
  <2>1. waiters' \in Seq(Procs) /\ locked' \in BOOLEAN /\ scanning' \in BOOLEAN
    BY <1>25, LeaveQueueType DEF StripCancelled, LeaveQueue
  <2> QED
    BY <1>25, <2>1 DEF StripCancelled
<1>26. CASE UNCHANGED vars
  BY <1>26 DEF vars
<1> QED
  BY <1>1, <1>2, <1>3, <1>4, <1>5, <1>6, <1>7, <1>8, <1>9, <1>10, <1>11, <1>12, <1>13, <1>14, <1>15, <1>16, <1>17, <1>18, <1>19, <1>20, <1>21, <1>22, <1>23, <1>24, <1>25, <1>26 DEF Next, ChargerNext, LeaseNext

(***************************************************************************)
(* The gate invariant                                                      *)
(***************************************************************************)

\* The invariant holds when the runtime starts.
LEMMA GateInit == Init => GateInv
BY DEF Init, GateInv, MutualExclusion, HolderHasLock, TokenIsCurrent, LeaseFencing,
       PausedScanHasOwner, RestartWhileHolding, Holds, Setup, Procs, External

\* A holder on its way out, with or without a scan to resume.
LEMMA ReleaseBeginsGate ==
    ASSUME TypeOK, GateInv, NEW p \in Procs, pc[p] \in Setup \cup {"leased"}, ReleaseBegins(p),
           token' = IF token = p THEN NoProc ELSE token,
           \A e \in External : caller'[e] = "using" => caller[e] = "using" /\ e # p
    PROVE  GateInv'
<1> USE DEF TypeOK, ChargerPC, ExternalPC, Setup, Procs, External, gateVars, scanVars, Holds,
            GateInv, ReleaseBegins
<1>1. MutualExclusion' /\ HolderHasLock'
  BY DEF MutualExclusion, HolderHasLock
<1>2. TokenIsCurrent'
  BY DEF TokenIsCurrent
<1>3. LeaseFencing'
  BY DEF LeaseFencing
<1>4. PausedScanHasOwner' /\ RestartWhileHolding'
  BY DEF PausedScanHasOwner, RestartWhileHolding
<1> QED
  BY <1>1, <1>2, <1>3, <1>4

\* A holder on its way out with no scan to resume.
LEMMA ReleaseAtOnceGate ==
    ASSUME TypeOK, GateInv, NEW p \in Procs, pc[p] \in Setup \cup {"leased"},
           NEW where \in {"online", "idle", "dead"}, ReleaseAtOnce(p, where),
           token' = IF token = p THEN NoProc ELSE token,
           \A e \in External : caller'[e] = "using" => caller[e] = "using" /\ e # p
    PROVE  GateInv'
<1> USE DEF TypeOK, ChargerPC, ExternalPC, Setup, Procs, External, gateVars, scanVars, Holds,
            GateInv, ReleaseAtOnce, Unlock
<1>1. MutualExclusion' /\ HolderHasLock'
  BY DEF MutualExclusion, HolderHasLock
<1>2. TokenIsCurrent'
  BY DEF TokenIsCurrent
<1>3. LeaseFencing'
  BY DEF LeaseFencing
<1>4. ~scanPaused
  BY DEF MutualExclusion, PausedScanHasOwner
<1>5. PausedScanHasOwner' /\ RestartWhileHolding'
  BY <1>4 DEF PausedScanHasOwner, RestartWhileHolding
<1> QED
  BY <1>1, <1>2, <1>3, <1>5

\* _release_cuktech_setup keeps the invariant.
LEMMA ReleaseSetupGate ==
    ASSUME TypeOK, GateInv, NEW c \in Chargers, pc[c] \in Setup, NEW r,
           NEW where \in {"online", "idle", "dead"}, ReleaseSetup(c, r, where)
    PROVE  GateInv'
<1>1. c \in Procs /\ c \notin External
  BY DEF Procs
<1>2. token # c /\ token' = token
  BY <1>1 DEF TypeOK, ReleaseSetup
<1>3. \A e \in External : caller'[e] = "using" => caller[e] = "using" /\ e # c
  BY <1>1 DEF ReleaseSetup
<1>4. ReleaseBegins(c) \/ ReleaseAtOnce(c, where)
  BY DEF ReleaseSetup
<1> QED
  BY <1>1, <1>2, <1>3, <1>4, ReleaseBeginsGate, ReleaseAtOnceGate

\* _release_external keeps the invariant.
LEMMA ReleaseLeaseGate ==
    ASSUME TypeOK, GateInv, NEW e \in External, ReleaseLease(e),
           \A x \in External : caller'[x] = "using" => caller[x] = "using" /\ x # e
    PROVE  GateInv'
<1>1. e \in Procs /\ pc[e] = "leased"
  BY DEF Procs, ReleaseLease, GateInv, TokenIsCurrent
<1>2. token = e /\ token' = NoProc
  BY DEF ReleaseLease
<1>3. ReleaseBegins(e) \/ ReleaseAtOnce(e, "idle")
  BY DEF ReleaseLease
<1> QED
  BY <1>1, <1>2, <1>3, ReleaseBeginsGate, ReleaseAtOnceGate

\* A granted lock was free: nobody held the gate and no scan was paused.
LEMMA GrantedWasFree ==
    ASSUME TypeOK, GateInv, NEW p \in Procs, Dequeue(p)
    PROVE  /\ \A q \in Procs : ~Holds(q)
           /\ ~scanPaused
           /\ token = NoProc
           /\ \A q \in Procs : restart[q] = FALSE
BY DEF TypeOK, GateInv, HolderHasLock, PausedScanHasOwner, TokenIsCurrent, RestartWhileHolding,
       Holds, Dequeue, Procs, Setup

\* Every step keeps the invariant.
LEMMA GateStep == TypeOK /\ GateInv /\ [Next]_vars => GateInv'
<1> SUFFICES ASSUME TypeOK, GateInv, [Next]_vars
             PROVE  GateInv'
  OBVIOUS
<1> USE DEF TypeOK, ChargerPC, ExternalPC, Setup, Procs, External, gateVars, scanVars, Holds,
            GateInv, MutualExclusion, HolderHasLock, TokenIsCurrent, LeaseFencing,
            PausedScanHasOwner, RestartWhileHolding
<1>1. ASSUME NEW c \in Chargers, Advertised(c)
      PROVE  GateInv'
  BY <1>1 DEF Advertised
<1>2. ASSUME NEW c \in Chargers, SeenExpires(c)
      PROVE  GateInv'
  BY <1>2 DEF SeenExpires
<1>3. ASSUME NEW c \in Chargers, ChargerConnect(c)
      PROVE  GateInv'
  BY <1>3 DEF ChargerConnect, Enqueue
<1>4. ASSUME NEW c \in Chargers, ChargerGranted(c)
      PROVE  GateInv'
  <2>1. Dequeue(c)
    BY <1>4 DEF ChargerGranted
  <2>2. CASE PauseAtOnce(c)
    <3>1. pc' = [pc EXCEPT ![c] = "connecting"]
      BY <1>4, <2>2 DEF ChargerGranted, PauseAtOnce, PauseBegins
    <3> QED
      BY <1>4, <2>1, <2>2, <3>1, GrantedWasFree DEF ChargerGranted, Dequeue, PauseAtOnce, ScannerRunning
  <2>3. CASE PauseBegins(c)
    BY <1>4, <2>1, <2>3, GrantedWasFree DEF ChargerGranted, Dequeue, PauseBegins
  <2> QED
    BY <1>4, <2>2, <2>3 DEF ChargerGranted
<1>5. ASSUME NEW c \in Chargers, ChargerPaused(c)
      PROVE  GateInv'
  BY <1>5 DEF ChargerPaused, PauseEnds
<1>6. ASSUME NEW c \in Chargers, ChargerPauseFails(c)
      PROVE  GateInv'
  BY <1>6 DEF ChargerPauseFails, Unlock
<1>7. ASSUME NEW c \in Chargers, ChargerSetupStep(c)
      PROVE  GateInv'
  <2>1. pc[c] \in Setup /\ \E s \in Setup : pc' = [pc EXCEPT ![c] = s]
    BY <1>7 DEF ChargerSetupStep
  <2> QED
    BY <1>7, <2>1 DEF ChargerSetupStep
<1>8. ASSUME NEW c \in Chargers, ChargerPoll(c)
      PROVE  GateInv'
  <2>1. CASE ReleaseSetup(c, "polled", "online")
    BY <1>8, <2>1, ReleaseSetupGate DEF ChargerPoll
  <2>2. CASE ~ReleaseSetup(c, "polled", "online")
    BY <1>8, <2>2 DEF ChargerPoll
  <2> QED
    BY <2>1, <2>2
<1>9. ASSUME NEW c \in Chargers, ChargerSetupFails(c)
      PROVE  GateInv'
  BY <1>9, ReleaseSetupGate DEF ChargerSetupFails
<1>10. ASSUME NEW c \in Chargers, ChargerPollFails(c)
      PROVE  GateInv'
  BY <1>10, ReleaseSetupGate DEF ChargerPollFails
<1>11. ASSUME NEW c \in Chargers, ChargerResumed(c)
      PROVE  GateInv'
  BY <1>11 DEF ChargerResumed, ResumeEnds, Unlock
<1>12. ASSUME NEW c \in Chargers, ChargerResumeFails(c)
      PROVE  GateInv'
  BY <1>12 DEF ChargerResumeFails, ResumeEnds, Unlock
<1>13. ASSUME NEW c \in Chargers, ChargerOffline(c)
      PROVE  GateInv'
  BY <1>13 DEF ChargerOffline
<1>14. ASSUME NEW c \in Chargers, ChargerCancelled(c)
      PROVE  GateInv'
  <2>1. CASE CancelledOffGate(c)
    BY <1>14, <2>1 DEF ChargerCancelled, CancelledOffGate
  <2>2. CASE CancelledQueued(c)
    BY <1>14, <2>2 DEF ChargerCancelled, CancelledQueued, LeaveQueue
  <2>3. CASE CancelledPausing(c)
    BY <1>14, <2>3 DEF ChargerCancelled, CancelledPausing
  <2>4. CASE CancelledInSetup(c)
    BY <1>14, <2>4, ReleaseSetupGate DEF ChargerCancelled, CancelledInSetup
  <2>5. CASE CancelledResuming(c)
    BY <1>14, <2>5 DEF ChargerCancelled, CancelledResuming, ResumeEnds, Unlock
  <2> QED
    BY <1>14, <2>1, <2>2, <2>3, <2>4, <2>5 DEF ChargerCancelled
<1>15. ASSUME NEW e \in External, LeaseRequested(e)
      PROVE  GateInv'
  BY <1>15 DEF LeaseRequested, Enqueue
<1>16. ASSUME NEW e \in External, LeaseGranted(e)
      PROVE  GateInv'
  BY <1>16 DEF LeaseGranted, Dequeue, Publish, PauseAtOnce, PauseBegins, ScannerRunning
<1>17. ASSUME NEW e \in External, LeasePaused(e)
      PROVE  GateInv'
  BY <1>17 DEF LeasePaused, PauseEnds, Publish
<1>18. ASSUME NEW e \in External, LeasePauseFails(e)
      PROVE  GateInv'
  BY <1>18 DEF LeasePauseFails, Unlock
<1>19. ASSUME NEW e \in External, LeaseAnswered(e)
      PROVE  GateInv'
  BY <1>19 DEF LeaseAnswered
<1>20. ASSUME NEW e \in External, CallerGone(e)
      PROVE  GateInv'
  BY <1>20 DEF CallerGone
<1>21. ASSUME NEW e \in External, LeaseReleased(e)
      PROVE  GateInv'
  <2>1. \A x \in External : caller'[x] = "using" => caller[x] = "using" /\ x # e
    BY <1>21 DEF LeaseReleased
  <2> QED
    BY <1>21, <2>1, ReleaseLeaseGate DEF LeaseReleased
<1>22. ASSUME NEW e \in External, LeaseExpires(e)
      PROVE  GateInv'
  <2>1. \A x \in External : caller'[x] = "using" => caller[x] = "using" /\ x # e
    BY <1>22 DEF LeaseExpires
  <2> QED
    BY <1>22, <2>1, ReleaseLeaseGate DEF LeaseExpires
<1>23. ASSUME NEW e \in External, LeaseResumed(e)
      PROVE  GateInv'
  BY <1>23 DEF LeaseResumed, ResumeEnds, Unlock
<1>24. ASSUME NEW e \in External, ReleaseRefused(e)
      PROVE  GateInv'
  BY <1>24 DEF ReleaseRefused
<1>25. ASSUME NEW e \in External, StripCancelled(e)
      PROVE  GateInv'
  BY <1>25 DEF StripCancelled, LeaveQueue
<1>26. CASE UNCHANGED vars
  BY <1>26 DEF vars
<1> QED
  BY <1>1, <1>2, <1>3, <1>4, <1>5, <1>6, <1>7, <1>8, <1>9, <1>10, <1>11, <1>12, <1>13, <1>14, <1>15, <1>16, <1>17, <1>18, <1>19, <1>20, <1>21, <1>22, <1>23, <1>24, <1>25, <1>26 DEF Next, ChargerNext, LeaseNext

\* Types and gate invariant together hold in every reachable state.
LEMMA Invariance == Spec => [](TypeOK /\ GateInv)
<1>1. Init => TypeOK /\ GateInv
  BY TypeInit, GateInit
<1>2. TypeOK /\ GateInv /\ [Next]_vars => (TypeOK /\ GateInv)'
  BY TypeStep, GateStep
<1> QED
  BY <1>1, <1>2, PTL DEF Spec

\* Every reachable state of the gate is well typed.
THEOREM TypeCorrect == Spec => []TypeOK
BY Invariance, PTL

\* Setup sections never overlap, for any number of chargers, leases and strips.
THEOREM SetupSectionsExclusive == Spec => []MutualExclusion
<1>1. GateInv => MutualExclusion
  BY DEF GateInv
<1> QED
  BY <1>1, Invariance, PTL

\* No release path frees a lock that already belongs to the next holder.
THEOREM NoForeignRelease == Spec => []HolderHasLock
<1>1. GateInv => HolderHasLock
  BY DEF GateInv
<1> QED
  BY <1>1, Invariance, PTL

\* The published token is the lease in force, and a caller whose TTL has not
\* run out works under it.
THEOREM LeasesSound == Spec => [](TokenIsCurrent /\ LeaseFencing)
<1>1. GateInv => TokenIsCurrent /\ LeaseFencing
  BY DEF GateInv
<1> QED
  BY <1>1, Invariance, PTL

\* A paused scan always has a holder that will restart it.
THEOREM PauseIsOwned == Spec => []PausedScanHasOwner
<1>1. GateInv => PausedScanHasOwner
  BY DEF GateInv
<1> QED
  BY <1>1, Invariance, PTL

(***************************************************************************)
(* The gate implements the abstract lock                                   *)
(***************************************************************************)

\* The three readings of the refinement mapping.
HolderIs ==
    /\ \A p \in Procs : Holds(p) => holder = p
    /\ ~locked => holder = NoProc
    /\ locked /\ (\A p \in Procs : ~Holds(p)) => holder = Lost

\* In a reachable state the mapped holder is the one process between grant
\* and release.
LEMMA HolderIsUnique == TypeOK /\ GateInv => HolderIs
BY DEF TypeOK, GateInv, MutualExclusion, HolderHasLock, HolderIs, holder

\* The holder of the lock follows from locked and Holds.
LEMMA SameHolder ==
    ASSUME HolderIs, HolderIs', locked' = locked, locked \in BOOLEAN,
           \A q \in Procs : Holds(q)' <=> Holds(q)
    PROVE  holder' = holder
BY DEF HolderIs

\* A grant takes the lock for the first waiter.
LEMMA TakesFirst ==
    ASSUME HolderIs, HolderIs', NEW p \in Procs, Dequeue(p), Holds(p)'
    PROVE  Abstract!TakeFirst
BY DEF HolderIs, Dequeue, Abstract!TakeFirst

\* A release gives the lock back.
LEMMA GivesBack ==
    ASSUME HolderIs, HolderIs', NEW p \in Procs, Holds(p), Unlock
    PROVE  Abstract!GiveBack
BY DEF HolderIs, Unlock, Abstract!GiveBack

\* A holder that vanishes with the lock forfeits it.
LEMMA Forfeits ==
    ASSUME HolderIs, HolderIs', HolderHasLock, NEW p \in Procs, Holds(p),
           UNCHANGED gateVars, \A q \in Procs : ~Holds(q)'
    PROVE  Abstract!Forfeit
BY DEF HolderIs, HolderHasLock, gateVars, Abstract!Forfeit

\* Releasing, with or without a scan to restart first.
LEMMA ReleaseMaps ==
    ASSUME TypeOK, GateInv, HolderIs, HolderIs', NEW p \in Procs, Holds(p),
           NEW where \in {"online", "idle", "dead"},
           ReleaseBegins(p) \/ ReleaseAtOnce(p, where)
    PROVE  [Abstract!LockNext]_(Abstract!lockVars)
<1>1. CASE ReleaseBegins(p)
  <2>1. \A q \in Procs : Holds(q)' <=> Holds(q)
    BY <1>1 DEF TypeOK, ReleaseBegins, Holds
  <2> QED
    BY <1>1, <2>1, SameHolder DEF TypeOK, ReleaseBegins, gateVars, Abstract!lockVars
<1>2. CASE ReleaseAtOnce(p, where)
  BY <1>2, GivesBack DEF ReleaseAtOnce, Abstract!LockNext
<1> QED
  BY <1>1, <1>2

\* The gate starts as a free lock without waiters.
LEMMA MapInit == Init => Abstract!LockInit
BY DEF Init, Holds, Setup, holder, Abstract!LockInit

\* Every step of the gate is a step of the abstract lock, or none.
LEMMA MapStep ==
    TypeOK /\ GateInv /\ HolderIs /\ HolderIs' /\ [Next]_vars
        => [Abstract!LockNext]_(Abstract!lockVars)
<1> SUFFICES ASSUME TypeOK, GateInv, HolderIs, HolderIs', [Next]_vars
             PROVE  [Abstract!LockNext]_(Abstract!lockVars)
  OBVIOUS
<1> DEFINE Same == \A q \in Procs : Holds(q)' <=> Holds(q)
<1>0. locked \in BOOLEAN /\ pc \in [Procs -> ChargerPC \cup ExternalPC] /\ HolderHasLock
  BY DEF TypeOK, GateInv
<1>a. ASSUME UNCHANGED gateVars, Same
      PROVE  UNCHANGED Abstract!lockVars
  BY <1>a, <1>0, SameHolder DEF gateVars, Abstract!lockVars
<1>b. ASSUME UNCHANGED locked, Same, NEW p \in Procs, waiters' = Append(waiters, p)
      PROVE  Abstract!LockNext
  BY <1>b, <1>0, SameHolder DEF Abstract!LockNext, Abstract!Enqueue
<1>c. ASSUME NEW p \in Procs, LeaveQueue(p), Same
      PROVE  Abstract!LockNext
  <2>1. PICK i \in DOMAIN waiters : waiters' = RemoveAt(waiters, i)
    BY <1>c DEF LeaveQueue
  <2>2. holder' = holder
    BY <1>c, <1>0, SameHolder DEF LeaveQueue
  <2>3. Abstract!Withdraw(i)
    BY <2>1, <2>2 DEF RemoveAt, Abstract!RemoveAt, Abstract!Withdraw
  <2> QED
    BY <2>3 DEF Abstract!LockNext
<1> HIDE DEF Same
<1>1. ASSUME NEW c \in Chargers, Advertised(c) \/ SeenExpires(c) \/ ChargerOffline(c)
                                  \/ ChargerSetupStep(c)
      PROVE  UNCHANGED gateVars /\ Same
  BY <1>1, <1>0 DEF Advertised, SeenExpires, ChargerOffline, ChargerSetupStep, Same, Holds,
                    Setup, Procs, gateVars
<1>3. ASSUME NEW c \in Chargers, ChargerConnect(c)
      PROVE  Abstract!LockNext
  <2>1. Same /\ c \in Procs
    BY <1>3, <1>0 DEF ChargerConnect, Enqueue, Same, Holds, Setup, Procs
  <2> QED
    BY <1>3, <1>b, <2>1 DEF ChargerConnect, Enqueue
<1>4. ASSUME NEW c \in Chargers, ChargerGranted(c)
      PROVE  Abstract!LockNext
  <2>1. Dequeue(c) /\ c \in Procs
    BY <1>4 DEF ChargerGranted, Procs
  <2>2. Holds(c)'
    BY <1>4, <1>0, <2>1 DEF ChargerGranted, PauseBegins, Holds, Setup
  <2> QED
    BY <2>1, <2>2, TakesFirst DEF Abstract!LockNext
<1>5. ASSUME NEW c \in Chargers, ChargerPaused(c)
      PROVE  UNCHANGED gateVars /\ Same
  BY <1>5, <1>0 DEF ChargerPaused, PauseEnds, Same, Holds, Setup, Procs, gateVars
<1>6. ASSUME NEW c \in Chargers, ChargerPauseFails(c)
      PROVE  Abstract!LockNext
  BY <1>6, GivesBack DEF ChargerPauseFails, Holds, Procs, Abstract!LockNext
<1>8. ASSUME NEW c \in Chargers, ChargerPoll(c)
      PROVE  [Abstract!LockNext]_(Abstract!lockVars)
  <2>1. c \in Procs /\ Holds(c)
    BY <1>8 DEF ChargerPoll, Holds, Setup, Procs
  <2>2. CASE ReleaseSetup(c, "polled", "online")
    BY <2>1, <2>2, ReleaseMaps DEF ReleaseSetup
  <2>3. CASE UNCHANGED gateVars /\ UNCHANGED pc
    BY <2>3, <1>a DEF Same, Holds
  <2> QED
    BY <1>8, <2>2, <2>3 DEF ChargerPoll
<1>9. ASSUME NEW c \in Chargers, ChargerSetupFails(c) \/ ChargerPollFails(c)
      PROVE  [Abstract!LockNext]_(Abstract!lockVars)
  <2>1. c \in Procs /\ Holds(c)
    BY <1>9 DEF ChargerSetupFails, ChargerPollFails, Holds, Setup, Procs
  <2>2. ReleaseBegins(c) \/ ReleaseAtOnce(c, "idle")
    BY <1>9 DEF ChargerSetupFails, ChargerPollFails, ReleaseSetup
  <2> QED
    BY <2>1, <2>2, ReleaseMaps
<1>11. ASSUME NEW p \in Procs, NEW on, ResumeEnds(p, on)
       PROVE  Abstract!LockNext
  BY <1>11, GivesBack DEF ResumeEnds, Holds, Abstract!LockNext
<1>14. ASSUME NEW c \in Chargers, ChargerCancelled(c)
       PROVE  [Abstract!LockNext]_(Abstract!lockVars)
  <2>0. c \in Procs
    BY DEF Procs
  <2>1. CASE CancelledOffGate(c)
    BY <2>1, <1>0, <1>a DEF CancelledOffGate, Same, Holds, Setup, Procs, gateVars
  <2>2. CASE CancelledQueued(c)
    <3>1. Same
      BY <2>2, <1>0 DEF CancelledQueued, LeaveQueue, Same, Holds, Setup
    <3> QED
      BY <2>0, <2>2, <3>1, <1>c DEF CancelledQueued
  <2>3. CASE CancelledPausing(c)
    <3>1. Holds(c) /\ UNCHANGED gateVars
      BY <2>3 DEF CancelledPausing, Holds
    <3>2. \A q \in Procs : ~Holds(q)'
      BY <2>0, <2>3, <1>0, <3>1 DEF GateInv, MutualExclusion, CancelledPausing, Holds, Setup
    <3> QED
      BY <2>0, <3>1, <3>2, <1>0, Forfeits DEF Abstract!LockNext
  <2>4. CASE CancelledInSetup(c)
    BY <2>0, <2>4, ReleaseMaps DEF CancelledInSetup, ReleaseSetup, Holds
  <2>5. CASE CancelledResuming(c)
    BY <2>0, <2>5, <1>11 DEF CancelledResuming
  <2> QED
    BY <1>14, <2>1, <2>2, <2>3, <2>4, <2>5 DEF ChargerCancelled
<1>15. ASSUME NEW e \in External, LeaseRequested(e)
       PROVE  Abstract!LockNext
  <2>1. Same /\ e \in Procs
    BY <1>15, <1>0 DEF LeaseRequested, Enqueue, Same, Holds, Setup, Procs
  <2> QED
    BY <1>15, <1>b, <2>1 DEF LeaseRequested, Enqueue
<1>16. ASSUME NEW e \in External, LeaseGranted(e)
       PROVE  Abstract!LockNext
  <2>1. Dequeue(e) /\ e \in Procs
    BY <1>16 DEF LeaseGranted, Procs
  <2>2. Holds(e)'
    BY <1>16, <1>0, <2>1 DEF LeaseGranted, Publish, PauseBegins, Holds, Setup
  <2> QED
    BY <2>1, <2>2, TakesFirst DEF Abstract!LockNext
<1>17. ASSUME NEW e \in External, LeasePaused(e)
       PROVE  UNCHANGED gateVars /\ Same
  BY <1>17, <1>0 DEF LeasePaused, PauseEnds, Publish, Same, Holds, Setup, Procs, gateVars
<1>18. ASSUME NEW e \in External, LeasePauseFails(e)
       PROVE  Abstract!LockNext
  BY <1>18, GivesBack DEF LeasePauseFails, Holds, Procs, Abstract!LockNext
<1>19. ASSUME NEW e \in External, LeaseAnswered(e) \/ CallerGone(e) \/ ReleaseRefused(e)
       PROVE  UNCHANGED gateVars /\ Same
  BY <1>19 DEF LeaseAnswered, CallerGone, ReleaseRefused, Same, Holds, gateVars
<1>21. ASSUME NEW e \in External, ReleaseLease(e)
       PROVE  [Abstract!LockNext]_(Abstract!lockVars)
  <2>1. e \in Procs /\ Holds(e)
    BY <1>21 DEF GateInv, TokenIsCurrent, ReleaseLease, Holds, Procs
  <2> QED
    BY <1>21, <2>1, ReleaseMaps DEF ReleaseLease
<1>25. ASSUME NEW s \in External, StripCancelled(s)
       PROVE  [Abstract!LockNext]_(Abstract!lockVars)
  <2>0. s \in Procs
    BY DEF Procs
  <2>1. CASE LeaveQueue(s)
    <3>1. Same
      BY <1>25, <2>1, <1>0 DEF StripCancelled, LeaveQueue, Same, Holds, Setup
    <3> QED
      BY <2>0, <2>1, <3>1, <1>c
  <2>2. CASE pc[s] = "pausing" /\ UNCHANGED gateVars
    <3>1. Holds(s)
      BY <2>2 DEF Holds
    <3>2. \A q \in Procs : ~Holds(q)'
      BY <1>25, <2>0, <1>0, <3>1 DEF GateInv, MutualExclusion, StripCancelled, Holds, Setup
    <3> QED
      BY <2>0, <2>2, <3>1, <3>2, <1>0, Forfeits DEF Abstract!LockNext
  <2> QED
    BY <1>25, <2>1, <2>2 DEF StripCancelled
<1>26. CASE UNCHANGED vars
  BY <1>26, <1>a DEF vars, gateVars, Same, Holds
<1>27. ASSUME NEW c \in Chargers, ChargerNext(c)
       PROVE  [Abstract!LockNext]_(Abstract!lockVars)
  <2>1. c \in Procs
    BY DEF Procs
  <2> QED
    BY <1>27, <2>1, <1>a, <1>1, <1>3, <1>4, <1>5, <1>6, <1>8, <1>9, <1>11, <1>14
       DEF ChargerNext, ChargerResumed, ChargerResumeFails
<1>28. ASSUME NEW e \in External, LeaseNext(e)
       PROVE  [Abstract!LockNext]_(Abstract!lockVars)
  <2>1. e \in Procs
    BY DEF Procs
  <2> QED
    BY <1>28, <2>1, <1>a, <1>11, <1>15, <1>16, <1>17, <1>18, <1>19, <1>21, <1>25
       DEF LeaseNext, LeaseResumed, LeaseReleased, LeaseExpires
<1> QED
  BY <1>26, <1>27, <1>28 DEF Next

\* The gate with its scanner, tokens, watchdogs and cancellations is a FIFO
\* lock with one holder at a time that may be forfeited but never stolen.
THEOREM GateIsFifoLock == Spec => ImplementsFifoLock
<1>1. Init => Abstract!LockInit
  BY MapInit
<1>2. TypeOK /\ GateInv => HolderIs
  BY HolderIsUnique
<1>3. TypeOK /\ GateInv /\ HolderIs /\ HolderIs' /\ [Next]_vars
        => [Abstract!LockNext]_(Abstract!lockVars)
  BY MapStep
<1> QED
  BY <1>1, <1>2, <1>3, Invariance, PTL DEF Spec, ImplementsFifoLock, Abstract!LockSpec

(***************************************************************************)
(* The initial snapshot                                                    *)
(***************************************************************************)

\* A charger in its setup has reads to make; one on its way out has none.
PortsInv ==
    \A c \in Chargers :
        /\ pc[c] \in Setup => ports[c] > 0
        /\ pc[c] = "resuming" => ports[c] = 0

\* Releasing forgets the reads that were left.
LEMMA ReleaseSetupPorts ==
    ASSUME TypeOK, PortsInv, NEW c \in Chargers, NEW r, NEW where \in {"online", "idle", "dead"},
           ReleaseSetup(c, r, where)
    PROVE  PortsInv' /\ ports'[c] = 0
BY DEF TypeOK, PortsInv, ReleaseSetup, ReleaseBegins, ReleaseAtOnce, Setup, Procs

\* PortsInv is inductive.
LEMMA PortsStep == TypeOK /\ PortsInv /\ [Next]_vars => PortsInv'
<1> SUFFICES ASSUME TypeOK, PortsInv, [Next]_vars
             PROVE  PortsInv'
  OBVIOUS
<1>0. /\ pc \in [Procs -> ChargerPC \cup ExternalPC]
      /\ ports \in [Chargers -> 0..InitialPorts]
      /\ \A c \in Chargers : c \in Procs /\ c \notin External
      /\ InitialPorts > 0
  BY DEF TypeOK, Procs
<1>1. ASSUME NEW c \in Chargers, ChargerConnect(c) \/ ChargerPauseFails(c) \/ ChargerOffline(c)
      PROVE  PortsInv'
  BY <1>0, <1>1 DEF PortsInv, ChargerConnect, Enqueue, ChargerPauseFails, ChargerOffline, Setup
<1>2. ASSUME NEW c \in Chargers, ChargerGranted(c)
      PROVE  PortsInv'
  BY <1>0, <1>2 DEF PortsInv, ChargerGranted, PauseAtOnce, PauseBegins, Setup
<1>3. ASSUME NEW c \in Chargers, ChargerPaused(c)
      PROVE  PortsInv'
  BY <1>0, <1>3 DEF PortsInv, ChargerPaused, Setup
<1>4. ASSUME NEW c \in Chargers, ChargerSetupStep(c)
      PROVE  PortsInv'
  BY <1>0, <1>4 DEF PortsInv, ChargerSetupStep, Setup
<1>5. ASSUME NEW c \in Chargers, ChargerPoll(c)
      PROVE  PortsInv'
  <2>1. CASE ReleaseSetup(c, "polled", "online")
    BY <2>1, ReleaseSetupPorts
  <2>2. CASE ports[c] > 1 /\ ports' = [ports EXCEPT ![c] = ports[c] - 1] /\ UNCHANGED pc
    <3>1. ports'[c] > 0 /\ \A d \in Chargers \ {c} : ports'[d] = ports[d]
      BY <1>0, <2>2
    <3>2. pc[c] = "polling"
      BY <1>5 DEF ChargerPoll
    <3> QED
      BY <2>2, <3>1, <3>2 DEF PortsInv
  <2> QED
    BY <1>5, <2>1, <2>2 DEF ChargerPoll
<1>6. ASSUME NEW c \in Chargers, ChargerSetupFails(c) \/ ChargerPollFails(c) \/ CancelledInSetup(c)
      PROVE  PortsInv'
  BY <1>6, ReleaseSetupPorts DEF ChargerSetupFails, ChargerPollFails, CancelledInSetup
<1>7. ASSUME NEW c \in Chargers, ChargerResumed(c) \/ ChargerResumeFails(c)
      PROVE  PortsInv'
  BY <1>0, <1>7 DEF PortsInv, ChargerResumed, ChargerResumeFails, Setup
<1>8. ASSUME NEW c \in Chargers, ChargerCancelled(c)
      PROVE  PortsInv'
  BY <1>0, <1>6, <1>8 DEF PortsInv, ChargerCancelled, CancelledOffGate, CancelledQueued,
                          CancelledPausing, CancelledResuming, Setup
<1>9. ASSUME NEW e \in External, LeaseNext(e)
      PROVE  PortsInv'
  <2>1. ports' = ports /\ \A c \in Chargers : pc'[c] = pc[c]
    BY <1>0, <1>9 DEF LeaseNext, LeaseRequested, Enqueue, LeaseGranted, Publish, PauseBegins,
       LeasePaused, LeasePauseFails, LeaseAnswered, CallerGone, LeaseReleased, LeaseExpires,
       ReleaseLease, ReleaseBegins, ReleaseAtOnce, LeaseResumed, ReleaseRefused, StripCancelled
  <2> QED
    BY <2>1 DEF PortsInv
<1>10. CASE UNCHANGED vars
  BY <1>10 DEF vars, PortsInv
<1> QED
  BY <1>1, <1>2, <1>3, <1>4, <1>5, <1>6, <1>7, <1>8, <1>9, <1>10
     DEF Next, ChargerNext, Advertised, SeenExpires, PortsInv

\* What one step may do to a charger that leaves its setup.
SnapshotStep ==
    \A c \in Chargers :
        /\ pc[c] # "online" /\ pc'[c] = "online" => ports'[c] = 0 /\ cause'[c] = "polled"
        /\ pc[c] = "polling" /\ pc'[c] # "polling" /\ cause'[c] = "polled" => ports[c] = 1

\* Every step is such a step.
LEMMA SnapshotHolds == TypeOK /\ PortsInv /\ [Next]_vars => SnapshotStep
<1> SUFFICES ASSUME TypeOK, PortsInv, [Next]_vars
             PROVE  SnapshotStep
  OBVIOUS
<1>0. /\ pc \in [Procs -> ChargerPC \cup ExternalPC]
      /\ ports \in [Chargers -> 0..InitialPorts]
      /\ cause \in [Chargers -> {"polled", "failed", "disconnect"}]
      /\ \A c \in Chargers : c \in Procs /\ c \notin External
  BY DEF TypeOK, Procs
<1>1. ASSUME NEW c \in Chargers, ChargerPoll(c)
      PROVE  SnapshotStep
  <2>1. CASE ReleaseSetup(c, "polled", "online")
    <3>a. ports[c] \in Nat /\ pc[c] = "polling"
      BY <1>0, <1>1 DEF ChargerPoll
    <3>b. ports[c] > 0
      BY <1>1, <3>a DEF PortsInv, Setup
    <3>c. pc'[c] # "polling" => ports[c] = 1
      BY <1>1, <3>a, <3>b DEF ChargerPoll
    <3>1. ports'[c] = 0 /\ cause'[c] = "polled" /\ (pc'[c] # "polling" => ports[c] = 1)
      BY <1>0, <2>1, <3>c DEF ReleaseSetup
    <3>2. \A d \in Chargers \ {c} : pc'[d] = pc[d]
      BY <1>0, <2>1 DEF ReleaseSetup, ReleaseBegins, ReleaseAtOnce
    <3> QED
      BY <3>1, <3>2 DEF SnapshotStep
  <2>2. CASE UNCHANGED pc
    BY <2>2 DEF SnapshotStep
  <2> QED
    BY <1>1, <2>1, <2>2 DEF ChargerPoll
<1>2. ASSUME NEW c \in Chargers, ChargerResumed(c)
      PROVE  SnapshotStep
  BY <1>0, <1>2 DEF PortsInv, SnapshotStep, ChargerResumed, ResumeEnds
<1>3. ASSUME NEW c \in Chargers, NEW r \in {"failed", "disconnect"}, NEW where \in {"idle", "dead"},
             ReleaseSetup(c, r, where)
      PROVE  SnapshotStep
  BY <1>0, <1>3 DEF SnapshotStep, ReleaseSetup, ReleaseBegins, ReleaseAtOnce
<1>4. ASSUME NEW c \in Chargers,
             ChargerConnect(c) \/ ChargerGranted(c) \/ ChargerPaused(c) \/ ChargerPauseFails(c)
      PROVE  SnapshotStep
  BY <1>0, <1>4 DEF SnapshotStep, ChargerConnect, Enqueue, ChargerGranted, Dequeue, PauseAtOnce,
                    PauseBegins, ChargerPaused, PauseEnds, ChargerPauseFails
<1>5. ASSUME NEW c \in Chargers, ChargerSetupStep(c) \/ ChargerOffline(c) \/ ChargerResumeFails(c)
      PROVE  SnapshotStep
  BY <1>0, <1>5 DEF SnapshotStep, ChargerSetupStep, ChargerOffline, ChargerResumeFails, ResumeEnds
<1>6. ASSUME NEW c \in Chargers, ChargerCancelled(c)
      PROVE  SnapshotStep
  <2>1. CASE CancelledInSetup(c)
    BY <1>3, <2>1 DEF CancelledInSetup
  <2>2. CASE ~CancelledInSetup(c)
    BY <1>0, <1>6, <2>2 DEF SnapshotStep, ChargerCancelled, CancelledOffGate, CancelledQueued,
         LeaveQueue, CancelledPausing, CancelledResuming, ResumeEnds
  <2> QED
    BY <2>1, <2>2
<1>7. ASSUME NEW e \in External, LeaseNext(e)
      PROVE  SnapshotStep
  <2>1. \A c \in Chargers : pc'[c] = pc[c]
    BY <1>0, <1>7 DEF LeaseNext, LeaseRequested, Enqueue, LeaseGranted, Publish, PauseBegins,
       LeasePaused, LeasePauseFails, LeaseAnswered, CallerGone, LeaseReleased, LeaseExpires,
       ReleaseLease, ReleaseBegins, ReleaseAtOnce, LeaseResumed, ReleaseRefused, StripCancelled
  <2> QED
    BY <2>1 DEF SnapshotStep
<1>8. CASE UNCHANGED vars
  BY <1>8 DEF vars, SnapshotStep
<1>9. ASSUME NEW c \in Chargers, ChargerSetupFails(c) \/ ChargerPollFails(c)
      PROVE  SnapshotStep
  BY <1>3, <1>9 DEF ChargerSetupFails, ChargerPollFails
<1>10. ASSUME NEW c \in Chargers, Advertised(c) \/ SeenExpires(c)
       PROVE  SnapshotStep
  BY <1>10 DEF Advertised, SeenExpires, SnapshotStep
<1> QED
  BY <1>1, <1>2, <1>4, <1>5, <1>6, <1>7, <1>8, <1>9, <1>10 DEF Next, ChargerNext

\* No charger reaches its steady session, and frees the gate on the way,
\* before its whole initial snapshot is read.
THEOREM SnapshotComplete == Spec => SnapshotBeforeOnline
<1>1. Init => PortsInv
  BY DEF Init, PortsInv, Setup, Procs
<1>2. TypeOK /\ PortsInv /\ [Next]_vars => PortsInv'
  BY PortsStep
<1>3. TypeOK /\ PortsInv /\ [Next]_vars => SnapshotStep
  BY SnapshotHolds
<1>4. Spec => []TypeOK
  BY TypeCorrect
<1>5. SnapshotStep => \A c \in Chargers :
         /\ pc[c] # "online" /\ pc'[c] = "online" => ports'[c] = 0 /\ cause'[c] = "polled"
         /\ pc[c] = "polling" /\ pc'[c] # "polling" /\ cause'[c] = "polled" => ports[c] = 1
  BY DEF SnapshotStep
<1> QED
  BY <1>1, <1>2, <1>3, <1>4, <1>5, PTL DEF Spec, SnapshotBeforeOnline

(***************************************************************************)
(* The queue                                                               *)
(***************************************************************************)

\* A step that leaves the queue and everybody's place in or out of it alone.
QueueSame ==
    /\ waiters' = waiters
    /\ \A p \in Procs : pc'[p] = "queued" <=> pc[p] = "queued"

\* The i-th waiter leaves the queue, whether first or from the middle of it.
Without(i) ==
    /\ waiters' \in Seq(Procs)
    /\ Len(waiters') = Len(waiters) - 1
    /\ \A j \in 1..Len(waiters') : waiters'[j] = IF j < i THEN waiters[j] ELSE waiters[j+1]

\* Nothing happens to the queue.
LEMMA QueueKept ==
    ASSUME QueueIsExact, QueueSame
    PROVE  QueueIsExact'
BY DEF QueueIsExact, QueueSame, Contains

\* A process that was in no queue joins this one.
LEMMA QueueGrows ==
    ASSUME TypeOK, QueueIsExact, NEW p \in Procs, pc[p] # "queued", Enqueue(p)
    PROVE  QueueIsExact'
<1>1. /\ waiters \in Seq(Procs)
      /\ waiters' = Append(waiters, p)
      /\ \A q \in Procs : pc'[q] = "queued" <=> q = p \/ pc[q] = "queued"
  BY DEF TypeOK, Enqueue
<1>2. /\ Len(waiters') = Len(waiters) + 1
      /\ waiters'[Len(waiters) + 1] = p
      /\ \A i \in 1..Len(waiters) : waiters'[i] = waiters[i]
      /\ DOMAIN waiters = 1..Len(waiters) /\ DOMAIN waiters' = 1..Len(waiters')
      /\ Len(waiters) \in Nat
  BY <1>1
<1>3. \A i \in 1..Len(waiters) : waiters[i] # p
  BY <1>1 DEF QueueIsExact, Contains
<1>4. \A i, j \in 1..Len(waiters') : waiters'[i] = waiters'[j] => i = j
  BY <1>2, <1>3 DEF QueueIsExact
<1>5. \A q \in Procs : pc'[q] = "queued" <=> \E i \in 1..Len(waiters') : waiters'[i] = q
  <2> SUFFICES ASSUME NEW q \in Procs
               PROVE  pc'[q] = "queued" <=> \E i \in 1..Len(waiters') : waiters'[i] = q
    OBVIOUS
  <2>1. pc[q] = "queued" <=> \E i \in 1..Len(waiters) : waiters[i] = q
    BY DEF QueueIsExact, Contains
  <2> QED
    BY <1>1, <1>2, <2>1
<1> QED
  BY <1>2, <1>4, <1>5 DEF QueueIsExact, Contains

\* A process leaves the queue, and nobody else does.
LEMMA QueueShrinks ==
    ASSUME TypeOK, QueueIsExact, NEW i \in 1..Len(waiters), Without(i),
           pc'[waiters[i]] # "queued",
           \A q \in Procs \ {waiters[i]} : pc'[q] = "queued" <=> pc[q] = "queued"
    PROVE  QueueIsExact'
<1>1. /\ DOMAIN waiters = 1..Len(waiters) /\ DOMAIN waiters' = 1..Len(waiters')
      /\ Len(waiters) \in Nat /\ Len(waiters') = Len(waiters) - 1
  BY DEF TypeOK, Without
<1>2. \A j, k \in 1..Len(waiters') : waiters'[j] = waiters'[k] => j = k
  <2> DEFINE was(j) == IF j < i THEN j ELSE j + 1
  <2> TAKE j, k \in 1..Len(waiters')
  <2>1. was(j) \in 1..Len(waiters) /\ was(k) \in 1..Len(waiters) /\ (was(j) = was(k) => j = k)
    BY <1>1
  <2>2. waiters'[j] = waiters[was(j)] /\ waiters'[k] = waiters[was(k)]
    BY DEF Without
  <2>3. waiters[was(j)] = waiters[was(k)] => was(j) = was(k)
    BY <1>1, <2>1 DEF QueueIsExact
  <2> QED
    BY <2>1, <2>2, <2>3
<1>3. \A q \in Procs : pc'[q] = "queued" <=> \E j \in 1..Len(waiters') : waiters'[j] = q
  <2> SUFFICES ASSUME NEW q \in Procs
               PROVE  pc'[q] = "queued" <=> \E j \in 1..Len(waiters') : waiters'[j] = q
    OBVIOUS
  <2>1. pc[q] = "queued" <=> \E j \in 1..Len(waiters) : waiters[j] = q
    BY DEF QueueIsExact, Contains
  <2>2. \A j, k \in 1..Len(waiters) : waiters[j] = waiters[k] => j = k
    BY <1>1 DEF QueueIsExact
  <2>3. CASE q = waiters[i]
    <3>1. \A j \in 1..Len(waiters') : waiters'[j] # q
      BY <1>1, <2>2, <2>3 DEF Without
    <3> QED
      BY <3>1, <2>3
  <2>4. CASE q # waiters[i]
    <3>1. ASSUME NEW j \in 1..Len(waiters), waiters[j] = q
          PROVE  \E k \in 1..Len(waiters') : waiters'[k] = q
      <4>1. CASE j < i
        BY <1>1, <3>1, <4>1 DEF Without
      <4>2. CASE i < j
        <5>1. j - 1 \in 1..Len(waiters') /\ ~(j - 1 < i) /\ (j - 1) + 1 = j
          BY <1>1, <4>2
        <5>2. waiters'[j-1] = q
          BY <5>1, <3>1 DEF Without
        <5> QED
          BY <5>1, <5>2
      <4> QED
        BY <1>1, <3>1, <2>4, <4>1, <4>2
    <3>2. ASSUME NEW k \in 1..Len(waiters'), waiters'[k] = q
          PROVE  \E j \in 1..Len(waiters) : waiters[j] = q
      <4>1. k \in 1..Len(waiters) /\ k + 1 \in 1..Len(waiters)
        BY <1>1
      <4> QED
        BY <3>2, <4>1 DEF Without
    <3> QED
      BY <2>1, <2>4, <3>1, <3>2
  <2> QED
    BY <2>3, <2>4
<1> QED
  BY <1>1, <1>2, <1>3 DEF QueueIsExact, Contains

\* A grant takes the first waiter out of the queue.
LEMMA DequeueWithout ==
    ASSUME TypeOK, NEW p, Dequeue(p)
    PROVE  1 \in 1..Len(waiters) /\ waiters[1] = p /\ Without(1)
<1>1. waiters \in Seq(Procs) /\ waiters # <<>> /\ waiters' = Tail(waiters) /\ Head(waiters) = p
  BY DEF TypeOK, Dequeue
<1> QED
  BY <1>1 DEF Without

\* A cancelled acquisition takes its own place out of the queue.
LEMMA LeaveQueueWithout ==
    ASSUME TypeOK, NEW p, LeaveQueue(p)
    PROVE  \E i \in 1..Len(waiters) : waiters[i] = p /\ Without(i)
<1>1. PICK i \in DOMAIN waiters : waiters[i] = p /\ waiters' = RemoveAt(waiters, i)
  BY DEF LeaveQueue
<1>2. waiters \in Seq(Procs) /\ i \in 1..Len(waiters) /\ Len(waiters) \in Nat
  BY DEF TypeOK
<1>3. /\ SubSeq(waiters, 1, i-1) \in Seq(Procs)
      /\ Len(SubSeq(waiters, 1, i-1)) = i - 1
      /\ \A j \in 1..i-1 : SubSeq(waiters, 1, i-1)[j] = waiters[j]
  <2>1. \A j \in 1..i-1 : waiters[j] \in Procs
    BY <1>2
  <2> QED
    BY <1>2, <2>1, SubSeqProperties
<1>4. /\ SubSeq(waiters, i+1, Len(waiters)) \in Seq(Procs)
      /\ Len(SubSeq(waiters, i+1, Len(waiters))) = Len(waiters) - i
      /\ \A j \in 1..Len(waiters) - i : SubSeq(waiters, i+1, Len(waiters))[j] = waiters[i+j]
  <2>1. \A j \in i+1..Len(waiters) : waiters[j] \in Procs
    BY <1>2
  <2>2. i + 1 + 1 - 1 = i + 1
    BY <1>2
  <2> QED
    BY <1>2, <2>1, <2>2, SubSeqProperties
<1>5. waiters' = SubSeq(waiters, 1, i-1) \o SubSeq(waiters, i+1, Len(waiters))
  BY <1>1 DEF RemoveAt
<1> DEFINE a == SubSeq(waiters, 1, i-1)
           b == SubSeq(waiters, i+1, Len(waiters))
<1> HIDE DEF a, b
<1>a. a \in Seq(Procs) /\ Len(a) = i - 1 /\ \A j \in 1..i-1 : a[j] = waiters[j]
  BY <1>3 DEF a
<1>b. /\ b \in Seq(Procs) /\ Len(b) = Len(waiters) - i
      /\ \A j \in 1..Len(waiters)-i : b[j] = waiters[i+j]
  BY <1>4 DEF b
<1>c. a \o b \in Seq(Procs) /\ Len(a \o b) = Len(waiters) - 1
  BY <1>2, <1>a, <1>b, ConcatProperties
<1>6. \A j \in 1..Len(a \o b) : (a \o b)[j] = IF j < i THEN waiters[j] ELSE waiters[j+1]
  <2> TAKE j \in 1..Len(a \o b)
  <2>1. (a \o b)[j] = IF j <= i - 1 THEN a[j] ELSE b[j - (i - 1)]
    BY <1>2, <1>a, <1>b, <1>c, ConcatProperties
  <2>2. CASE j < i
    <3>1. j <= i - 1 /\ j \in 1..i-1
      BY <1>2, <1>c, <2>2
    <3> QED
      BY <1>a, <2>1, <2>2, <3>1
  <2>3. CASE ~(j < i)
    <3>1. ~(j <= i - 1) /\ j - (i - 1) \in 1..Len(waiters) - i /\ i + (j - (i - 1)) = j + 1
      BY <1>2, <1>c, <2>3
    <3> QED
      BY <1>b, <2>1, <2>3, <3>1
  <2> QED
    BY <2>2, <2>3
<1>7. waiters' = a \o b
  BY <1>5 DEF a, b
<1> QED
  BY <1>1, <1>2, <1>c, <1>6, <1>7 DEF Without

\* Every step keeps the queue exact.
LEMMA QueueStep == TypeOK /\ GateInv /\ QueueIsExact /\ [Next]_vars => QueueIsExact'
<1> SUFFICES ASSUME TypeOK, GateInv, QueueIsExact, [Next]_vars
             PROVE  QueueIsExact'
  OBVIOUS
<1>0. pc \in [Procs -> ChargerPC \cup ExternalPC]
  BY DEF TypeOK
<1> USE DEF Procs
<1>1. ASSUME NEW p \in Procs, Dequeue(p), pc'[p] # "queued",
             \A q \in Procs \ {p} : pc'[q] = pc[q]
      PROVE  QueueIsExact'
  BY <1>1, DequeueWithout, QueueShrinks
<1>2. ASSUME NEW p \in Procs, LeaveQueue(p), pc'[p] # "queued",
             \A q \in Procs \ {p} : pc'[q] = pc[q]
      PROVE  QueueIsExact'
  BY <1>2, LeaveQueueWithout, QueueShrinks
<1>3. ASSUME NEW p \in Procs, NEW where \in {"online", "idle", "dead"}, pc[p] # "queued",
             ReleaseBegins(p) \/ ReleaseAtOnce(p, where)
      PROVE  QueueSame
  BY <1>0, <1>3 DEF ReleaseBegins, ReleaseAtOnce, Unlock, QueueSame, gateVars
<1>4. ASSUME NEW c \in Chargers, Advertised(c) \/ SeenExpires(c) \/ ChargerPaused(c)
                 \/ ChargerPauseFails(c) \/ ChargerSetupStep(c) \/ ChargerOffline(c)
      PROVE  QueueSame
  BY <1>0, <1>4 DEF Advertised, SeenExpires, ChargerPaused, PauseEnds, ChargerPauseFails,
     ChargerSetupStep, ChargerOffline, Unlock, QueueSame, gateVars
<1>5. ASSUME NEW c \in Chargers, ChargerPoll(c) \/ ChargerSetupFails(c) \/ ChargerPollFails(c)
                                  \/ CancelledInSetup(c)
      PROVE  QueueSame
  BY <1>0, <1>3, <1>5 DEF ChargerPoll, ChargerSetupFails, ChargerPollFails, CancelledInSetup,
     ReleaseSetup, Setup, QueueSame, gateVars
<1>6. ASSUME NEW c \in Chargers, ChargerResumed(c) \/ ChargerResumeFails(c)
                 \/ CancelledResuming(c) \/ CancelledOffGate(c) \/ CancelledPausing(c)
      PROVE  QueueSame
  BY <1>0, <1>6 DEF ChargerResumed, ChargerResumeFails, CancelledResuming, CancelledOffGate,
     CancelledPausing, ResumeEnds, Unlock, QueueSame, gateVars
<1>7. ASSUME NEW c \in Chargers, ChargerConnect(c)
      PROVE  QueueIsExact'
  BY <1>7, QueueGrows DEF ChargerConnect
<1>8. ASSUME NEW c \in Chargers, ChargerGranted(c)
      PROVE  QueueIsExact'
  <2>1. Dequeue(c) /\ pc'[c] # "queued" /\ \A q \in Procs \ {c} : pc'[q] = pc[q]
    BY <1>0, <1>8 DEF ChargerGranted, PauseBegins
  <2> QED
    BY <1>1, <2>1
<1>9. ASSUME NEW c \in Chargers, CancelledQueued(c)
      PROVE  QueueIsExact'
  <2>1. LeaveQueue(c) /\ pc'[c] # "queued" /\ \A q \in Procs \ {c} : pc'[q] = pc[q]
    BY <1>0, <1>9 DEF CancelledQueued
  <2> QED
    BY <1>2, <2>1
<1>10. ASSUME NEW c \in Chargers, ChargerNext(c)
       PROVE  QueueIsExact'
  BY <1>4, <1>5, <1>6, <1>7, <1>8, <1>9, <1>10, QueueKept DEF ChargerNext, ChargerCancelled
<1>11. ASSUME NEW e \in External, LeasePaused(e) \/ LeasePauseFails(e) \/ LeaseAnswered(e)
                  \/ CallerGone(e) \/ LeaseResumed(e) \/ ReleaseRefused(e)
       PROVE  QueueSame
  BY <1>0, <1>11 DEF LeasePaused, PauseEnds, Publish, LeasePauseFails, LeaseAnswered, CallerGone,
     LeaseResumed, ResumeEnds, ReleaseRefused, Unlock, QueueSame, gateVars
<1>12. ASSUME NEW e \in External, LeaseRequested(e)
       PROVE  QueueIsExact'
  BY <1>12, QueueGrows DEF LeaseRequested
<1>13. ASSUME NEW e \in External, LeaseGranted(e)
       PROVE  QueueIsExact'
  <2>1. Dequeue(e) /\ pc'[e] # "queued" /\ \A q \in Procs \ {e} : pc'[q] = pc[q]
    BY <1>0, <1>13 DEF LeaseGranted, Publish, PauseBegins
  <2> QED
    BY <1>1, <2>1
<1>14. ASSUME NEW e \in External, ReleaseLease(e)
       PROVE  QueueSame
  BY <1>3, <1>14 DEF ReleaseLease, GateInv, TokenIsCurrent
<1>15. ASSUME NEW e \in External, StripCancelled(e)
       PROVE  QueueIsExact'
  <2>1. pc'[e] # "queued" /\ \A q \in Procs \ {e} : pc'[q] = pc[q]
    BY <1>0, <1>15 DEF StripCancelled
  <2>2. CASE LeaveQueue(e)
    BY <1>2, <2>1, <2>2
  <2>3. CASE pc[e] = "pausing" /\ UNCHANGED gateVars
    BY <2>1, <2>3, QueueKept DEF QueueSame, gateVars
  <2> QED
    BY <1>15, <2>2, <2>3 DEF StripCancelled
<1>16. ASSUME NEW e \in External, LeaseNext(e)
       PROVE  QueueIsExact'
  BY <1>11, <1>12, <1>13, <1>14, <1>15, <1>16, QueueKept
     DEF LeaseNext, LeaseReleased, LeaseExpires
<1>17. CASE UNCHANGED vars
  BY <1>17, QueueKept DEF vars, QueueSame
<1> QED
  BY <1>10, <1>16, <1>17 DEF Next

\* Every reachable state of the gate satisfies the whole of GateSafety: types,
\* an exact queue, exclusive setup sections, and owners for the lock, the token
\* and the pause of the scanner.
THEOREM GateIsSafe == Spec => []GateSafety
<1>1. Init => QueueIsExact
  BY DEF Init, QueueIsExact, Contains
<1>2. TypeOK /\ GateInv /\ QueueIsExact /\ [Next]_vars => QueueIsExact'
  BY QueueStep
<1>3. TypeOK /\ GateInv /\ QueueIsExact => GateSafety
  BY DEF GateSafety
<1> QED
  BY <1>1, <1>2, <1>3, Invariance, PTL DEF Spec

(***************************************************************************)
(* Who can orphan the gate                                                 *)
(***************************************************************************)

\* A cancellation that finds a holder in the await of scanner.stop().
CancelledInPause ==
    \/ \E s \in Strips : pc[s] = "pausing" /\ pc'[s] = "idle"
    \/ \E c \in Chargers : pc[c] = "pausing" /\ pc'[c] = "dead" /\ aborting

\* A step orphans the gate only by such a cancellation.
LEMMA OrphanStep ==
    TypeOK /\ GateInv /\ NoOrphanedGate /\ [Next]_vars => NoOrphanedGate' \/ CancelledInPause
<1> SUFFICES ASSUME TypeOK, GateInv, NoOrphanedGate, [Next]_vars
             PROVE  NoOrphanedGate' \/ CancelledInPause
  OBVIOUS
<1>0. locked \in BOOLEAN /\ pc \in [Procs -> ChargerPC \cup ExternalPC]
  BY DEF TypeOK
<1> USE DEF Procs
<1>1. ASSUME locked' = locked, \A q \in Procs : Holds(q) => Holds(q)'
      PROVE  NoOrphanedGate'
  BY <1>1 DEF NoOrphanedGate
<1>2. ASSUME NEW p \in Procs, Holds(p)'
      PROVE  NoOrphanedGate'
  BY <1>2 DEF NoOrphanedGate
<1>3. ASSUME Unlock
      PROVE  NoOrphanedGate'
  BY <1>3 DEF NoOrphanedGate, Unlock
<1>4. ASSUME NEW p \in Procs, NEW where, ReleaseBegins(p) \/ ReleaseAtOnce(p, where)
      PROVE  NoOrphanedGate'
  BY <1>0, <1>2, <1>3, <1>4 DEF ReleaseBegins, ReleaseAtOnce, Holds
<1>5. ASSUME NEW p \in Procs, NEW on, ResumeEnds(p, on)
      PROVE  NoOrphanedGate'
  BY <1>3, <1>5 DEF ResumeEnds
<1>6. ASSUME NEW p \in Procs, pc[p] = "queued", locked' = locked,
             \A q \in Procs \ {p} : pc'[q] = pc[q]
      PROVE  NoOrphanedGate'
  BY <1>1, <1>6 DEF Holds, Setup
<1>7. ASSUME NEW c \in Chargers, ChargerCancelled(c)
      PROVE  NoOrphanedGate' \/ CancelledInPause
  <2>1. CASE CancelledOffGate(c)
    BY <2>1, <1>0, <1>1 DEF CancelledOffGate, Holds, Setup, gateVars
  <2>2. CASE CancelledQueued(c)
    BY <2>2, <1>0, <1>6 DEF CancelledQueued, LeaveQueue
  <2>3. CASE CancelledPausing(c)
    BY <2>3, <1>7, <1>0 DEF CancelledPausing, ChargerCancelled, CancelledInPause
  <2>4. CASE CancelledInSetup(c) \/ CancelledResuming(c)
    BY <2>4, <1>4, <1>5 DEF CancelledInSetup, CancelledResuming, ReleaseSetup
  <2> QED
    BY <1>7, <2>1, <2>2, <2>3, <2>4 DEF ChargerCancelled
<1>8. ASSUME NEW c \in Chargers, ChargerNext(c)
      PROVE  NoOrphanedGate' \/ CancelledInPause
  <2>1. CASE Advertised(c) \/ SeenExpires(c) \/ ChargerOffline(c) \/ ChargerSetupStep(c)
             \/ ChargerPaused(c)
    BY <2>1, <1>0, <1>1 DEF Advertised, SeenExpires, ChargerOffline, ChargerSetupStep,
       ChargerPaused, PauseEnds, Holds, Setup, gateVars
  <2>2. CASE ChargerConnect(c)
    <3>1. locked' = locked /\ pc[c] = "idle" /\ \A q \in Procs \ {c} : pc'[q] = pc[q]
      BY <2>2, <1>0 DEF ChargerConnect, Enqueue
    <3> QED
      BY <3>1, <1>1 DEF Holds, Setup
  <2>3. CASE ChargerGranted(c)
    BY <2>3, <1>0, <1>2 DEF ChargerGranted, PauseBegins, Holds, Setup
  <2>4. CASE ChargerPauseFails(c)
    BY <2>4, <1>3 DEF ChargerPauseFails
  <2>5. CASE ChargerPoll(c)
    BY <2>5, <1>1, <1>4 DEF ChargerPoll, ReleaseSetup, Holds, gateVars
  <2>6. CASE ChargerSetupFails(c) \/ ChargerPollFails(c)
    BY <2>6, <1>4 DEF ChargerSetupFails, ChargerPollFails, ReleaseSetup
  <2>7. CASE ChargerResumed(c) \/ ChargerResumeFails(c)
    BY <2>7, <1>5 DEF ChargerResumed, ChargerResumeFails
  <2> QED
    BY <1>7, <1>8, <2>1, <2>2, <2>3, <2>4, <2>5, <2>6, <2>7 DEF ChargerNext
<1>9. ASSUME NEW e \in External, LeaseNext(e)
      PROVE  NoOrphanedGate' \/ CancelledInPause
  <2>1. CASE LeaseRequested(e)
    <3>1. locked' = locked /\ pc[e] = "idle" /\ \A q \in Procs \ {e} : pc'[q] = pc[q]
      BY <2>1, <1>0 DEF LeaseRequested, Enqueue
    <3> QED
      BY <3>1, <1>1 DEF Holds, Setup
  <2>2. CASE LeaseGranted(e) \/ LeasePaused(e)
    BY <2>2, <1>0, <1>2 DEF LeaseGranted, LeasePaused, Publish, PauseBegins, Holds
  <2>3. CASE LeasePauseFails(e)
    BY <2>3, <1>3 DEF LeasePauseFails
  <2>4. CASE LeaseAnswered(e) \/ CallerGone(e) \/ ReleaseRefused(e)
    BY <2>4, <1>1 DEF LeaseAnswered, CallerGone, ReleaseRefused, Holds, gateVars
  <2>5. CASE LeaseReleased(e) \/ LeaseExpires(e)
    BY <2>5, <1>4 DEF LeaseReleased, LeaseExpires, ReleaseLease
  <2>6. CASE LeaseResumed(e)
    BY <2>6, <1>5 DEF LeaseResumed
  <2>7. CASE StripCancelled(e)
    <3>1. CASE LeaveQueue(e)
      BY <2>7, <3>1, <1>0, <1>6 DEF StripCancelled, LeaveQueue
    <3>2. CASE pc[e] = "pausing"
      BY <2>7, <3>2, <1>0 DEF StripCancelled, CancelledInPause
    <3> QED
      BY <2>7, <3>1, <3>2 DEF StripCancelled
  <2> QED
    BY <1>9, <2>1, <2>2, <2>3, <2>4, <2>5, <2>6, <2>7 DEF LeaseNext
<1>10. CASE UNCHANGED vars
  BY <1>10, <1>1 DEF vars, Holds
<1> QED
  BY <1>8, <1>9, <1>10 DEF Next

\* The gate is left locked without a holder by nothing but a task cancelled
\* while it waits for the scanner to stop.
THEOREM OrphansOnlyByCancellation == Spec => OnlyCancellationOrphans
<1>1. TypeOK /\ GateInv /\ NoOrphanedGate /\ [Next]_vars => NoOrphanedGate' \/ CancelledInPause
  BY OrphanStep
<1> QED
  BY <1>1, Invariance, PTL DEF Spec, OnlyCancellationOrphans, CancelledInPause
=============================================================================
