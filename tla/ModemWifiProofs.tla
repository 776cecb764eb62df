--------------------------- MODULE ModemWifiProofs ---------------------------
(* The commands and the proxy never work on the radios at the same time, a *)
(* confirmation is true when it is reported and no POST is carried out     *)
(* twice, for any number of commands, requests, slots and faults.          *)
EXTENDS ModemWifi, TLAPS

\* One process at a time is past the file lock, or the proxy's own lock.
LockHeld ==
    /\ \A p, q \in Clis : Running(p) /\ Running(q) => p = q
    /\ \A r, s \in Requests : InGate(r) /\ InGate(s) => r = s
    /\ \A p \in Clis, r \in Requests : ~(Running(p) /\ InGate(r))

\* A request that was carried out has been answered, or is not sent again.
SentOnce == \A r \in Requests : posts[r] \in 0 .. 1 /\ (posts[r] = 1 => req[r].pc = "done")

\* Boots are faults.
BootsCounted == boot <= faults

ModemInv == TypeOK /\ BootsCounted /\ LockHeld /\ SentOnce /\ ConfirmedHolds /\ DoneOnce

-----------------------------------------------------------------------------
\* The commands' part of a step: one of them moves, or all of them end.
CliType ==
    [pc : {"idle", "login", "check", "write", "readback", "confirm", "save"},
     want : BOOLEAN, force : BOOLEAN, slot : 0 .. MaxSlots, boot : 0 .. MaxFaults,
     band : Bands, pressed : BOOLEAN]
ReqType ==
    [pc : {"new", "wait", "session", "send", "again", "resend", "done"},
     method : Methods, band : Bands, value : BOOLEAN]
FileType == [slot : -1 .. MaxSlots, boot : -1 .. MaxFaults, confirmed : BOOLEAN, recent : BOOLEAN]

\* Going to the next band, or to the confirmation, keeps a command well typed.
LEMMA NextBandType ==
    ASSUME NEW c \in CliType
    PROVE  /\ NextBand(c) \in CliType
           /\ NextBand(c).pc \in {"check", "confirm"}
           /\ NextBand(c).want = c.want /\ NextBand(c).slot = c.slot /\ NextBand(c).boot = c.boot
<1>1. CASE c.band = 1
  <2>1. NextBand(c) = [c EXCEPT !.pc = "check", !.band = 2]
    BY <1>1 DEF NextBand
  <2>2. 2 \in Bands
    BY DEF Bands
  <2> QED
    BY <2>1, <2>2 DEF CliType
<1>2. CASE c.band # 1
  BY <1>2 DEF NextBand, CliType, Bands
<1> QED
  BY <1>1, <1>2

\* What a command that failed or ended leaves behind is well typed.
LEMMA SavedType ==
    ASSUME TypeOK, NEW p \in Clis, NEW confirmed \in BOOLEAN, Saved(p, confirmed)
    PROVE  file' \in FileType
<1>1. cli[p] \in CliType /\ file \in FileType
  BY DEF TypeOK, CliType, FileType
<1> QED
  BY <1>1, ModemAssumption DEF Saved, CliType, FileType, ModemAssumption

LEMMA EndedType == Ended \in CliType
  BY ModemAssumption DEF Ended, CliType, Bands, ModemAssumption

LEMMA StartedType ==
    ASSUME TypeOK, NEW on \in BOOLEAN, NEW force \in BOOLEAN
    PROVE  Started(on, force) \in CliType
  BY DEF Started, CliType, Bands, TypeOK

LEMMA AnsweredType == NewRequest \in ReqType /\ Answered \in ReqType /\ Answered.pc = "done"
<1>1. NewRequest \in ReqType
  BY DEF NewRequest, ReqType, Methods, Bands
<1> QED
  BY <1>1 DEF Answered, ReqType

LEMMA NoFileType == NoFile \in FileType
  BY ModemAssumption DEF NoFile, FileType, ModemAssumption

LEMMA InitTyped == Init => TypeOK
<1> SUFFICES ASSUME Init PROVE TypeOK
  OBVIOUS
<1> QED
  BY NoFileType, EndedType, AnsweredType, ModemAssumption
     DEF Init, TypeOK, CliType, ReqType, FileType, ModemAssumption

LEMMA CommandTyped ==
    ASSUME TypeOK, BootsCounted, NEW p \in Clis,
           \/ Reconcile(p) \/ Set(p) \/ CommandStep(p) \/ RequestFails(p) \/ Killed(p)
    PROVE  TypeOK' /\ BootsCounted'
<1> USE ModemAssumption DEF ModemAssumption
<1>t. /\ cli \in [Clis -> CliType] /\ file \in FileType /\ radio \in [Bands -> BOOLEAN]
      /\ session \subseteq Clis \cup {"proxy"} /\ slot \in 0 .. MaxSlots
      /\ boot \in 0 .. MaxFaults /\ hands \in 0 .. MaxHands /\ faults \in 0 .. MaxFaults
  BY DEF TypeOK, CliType, FileType
<1>s. SUFFICES /\ cli' \in [Clis -> CliType] /\ file' \in FileType /\ radio' \in [Bands -> BOOLEAN]
               /\ session' \subseteq Clis \cup {"proxy"} /\ hands' \in 0 .. MaxHands
               /\ faults' \in 0 .. MaxFaults /\ faults' >= faults
               /\ UNCHANGED <<slot, boot, client, backoff, req, posts>>
  BY <1>t DEF TypeOK, CliType, FileType, BootsCounted
<1>1. CASE Reconcile(p)
  <2>1. Wanted(slot) \in BOOLEAN
    BY DEF Wanted
  <2>2. PICK on, force \in BOOLEAN : cli' = [cli EXCEPT ![p] = Started(on, force)]
    BY <1>1, <2>1 DEF Reconcile
  <2>3. UNCHANGED <<slot, boot, client, backoff, req, posts, hands, radio, session, file, faults>>
    BY <1>1 DEF Reconcile, cliFrame
  <2> QED
    BY <1>t, <2>2, <2>3, StartedType
<1>2. CASE Set(p)
  <2>1. PICK on, force \in BOOLEAN : cli' = [cli EXCEPT ![p] = Started(on, force)]
    BY <1>2 DEF Set
  <2>2. hands' \in 0 .. MaxHands /\ UNCHANGED <<slot, boot, client, backoff, req, posts, radio, session, file, faults>>
    BY <1>2, <1>t DEF Set, ByHand
  <2> QED
    BY <1>t, <2>1, <2>2, StartedType
<1>3. CASE Login(p)
  BY <1>3, <1>t DEF Login, cliFrame, CliType
<1>4. CASE CheckBand(p)
  <2>1. cli'[p] \in CliType
    BY <1>4, <1>t, NextBandType DEF CheckBand, CliType
  <2> QED
    BY <1>4, <1>t, <2>1 DEF CheckBand, cliFrame
<1>5. CASE WriteBand(p)
  BY <1>5, <1>t DEF WriteBand, cliFrame, CliType
<1>6. CASE ReadBack(p)
  BY <1>6, <1>t, NextBandType DEF ReadBack, cliFrame
<1>7. CASE Confirm(p)
  <2>1. cli'[p] = [cli[p] EXCEPT !.pc = "save", !.pressed = FALSE]
    BY <1>7, <1>t DEF Confirm
  <2>2. cli'[p] \in CliType
    BY <1>t, <2>1 DEF CliType
  <2> QED
    BY <1>7, <1>t, <2>2 DEF Confirm, cliFrame
<1>8. CASE SaveConfirmed(p)
  <2>1. file' \in FileType
    BY <1>8, SavedType DEF SaveConfirmed
  <2> QED
    BY <1>8, <1>t, <2>1, EndedType DEF SaveConfirmed, cliFrame
<1>9. CASE CommandFails(p)
  <2>1. file' \in FileType
    BY <1>9, SavedType DEF CommandFails, Failed
  <2> QED
    BY <1>9, <1>t, <2>1, EndedType DEF CommandFails, Failed, cliFrame
<1>10. CASE RequestFails(p)
  <2>1. radio' \in [Bands -> BOOLEAN]
    BY <1>10, <1>t DEF RequestFails, CliType
  <2>2. file' \in FileType
    BY <1>10, SavedType DEF RequestFails, Failed
  <2>3. cli' = [cli EXCEPT ![p] = Ended] /\ session' = session \ {p} /\ UNCHANGED cliFrame
    BY <1>10 DEF RequestFails, Failed
  <2>4. faults' = faults + 1 /\ faults < MaxFaults
    BY <1>10 DEF RequestFails, Fault
  <2> QED
    BY <1>t, <2>1, <2>2, <2>3, <2>4, EndedType DEF cliFrame
<1>11. CASE Killed(p)
  BY <1>11, <1>t, EndedType DEF Killed, cliFrame, Fault
<1> QED
  BY <1>1, <1>2, <1>3, <1>4, <1>5, <1>6, <1>7, <1>8, <1>9, <1>10, <1>11 DEF CommandStep

\* The proxy's part: one request moves.
ProxyAction(r) ==
    \/ Arrive(r) \/ GateTimesOut(r) \/ ProxyStep(r)
    \/ ProxyLoginFails(r) \/ LoggedOutAfter(r) \/ ForwardFails(r)

\* What it does to the request, the radios and the count of POSTs.
LEMMA ProxyEffect ==
    ASSUME TypeOK, NEW r \in Requests, ProxyAction(r)
    PROVE  /\ \E new \in ReqType :
                /\ req' = [req EXCEPT ![r] = new]
                /\ new.pc \in {"session", "send", "again", "resend"} =>
                      InGate(r) \/ (req[r].pc = "wait" /\ Free)
                /\ new.pc = "done" \/ req[r].method = "GET" \/ UNCHANGED posts
           /\ req[r].pc # "done"
           /\ UNCHANGED radio \/ (InGate(r) /\ radio' \in [Bands -> BOOLEAN])
           /\ UNCHANGED posts \/ (req[r].method = "POST" /\ posts' = [posts EXCEPT ![r] = @ + 1])
<1>t. req \in [Requests -> ReqType] /\ radio \in [Bands -> BOOLEAN]
  BY DEF TypeOK, ReqType
<1> DEFINE To1(new) ==
      /\ req' = [req EXCEPT ![r] = new]
      /\ new.pc \in {"session", "send", "again", "resend"} =>
            InGate(r) \/ (req[r].pc = "wait" /\ Free)
      /\ new.pc = "done" \/ req[r].method = "GET" \/ UNCHANGED posts
<1>a. ASSUME NEW pc \in {"wait", "session", "send", "again", "resend", "done"}, To(r, pc),
             pc \in {"session", "send", "again", "resend"} =>
                 InGate(r) \/ (req[r].pc = "wait" /\ Free),
             pc = "done" \/ req[r].method = "GET" \/ UNCHANGED posts
      PROVE  \E new \in ReqType : To1(new)
  <2>1. CASE pc = "done"
    BY <1>a, <1>t, <2>1, AnsweredType DEF To
  <2>2. CASE pc # "done"
    <3>1. [req[r] EXCEPT !.pc = pc] \in ReqType
      BY <1>t, <1>a DEF ReqType
    <3>2. To1([req[r] EXCEPT !.pc = pc])
      BY <1>a, <1>t, <2>2 DEF To, ReqType
    <3> QED
      BY <3>1, <3>2
  <2> QED
    BY <2>1, <2>2
<1>b. ASSUME Sending(r), CarriedOut(r)
      PROVE  /\ UNCHANGED radio \/ (InGate(r) /\ radio' \in [Bands -> BOOLEAN])
             /\ UNCHANGED posts \/ (req[r].method = "POST" /\ posts' = [posts EXCEPT ![r] = @ + 1])
  BY <1>b, <1>t DEF CarriedOut, Sending, InGate, ReqType
<1>1. CASE Arrive(r)
  <2>1. req[r].pc = "new" /\ UNCHANGED <<radio, posts>>
    BY <1>1 DEF Arrive
  <2>2. ASSUME NEW m \in {"GET", "ENTRY"}, req' = [req EXCEPT ![r].pc = "wait", ![r].method = m]
        PROVE  \E new \in ReqType : To1(new)
    <3>1. req'[r] \in ReqType /\ req'[r].pc = "wait" /\ req' = [req EXCEPT ![r] = req'[r]]
      BY <1>t, <2>2 DEF ReqType, Methods
    <3> QED
      BY <2>1, <3>1
  <2>3. ASSUME NEW b \in Bands, NEW v \in BOOLEAN,
               req' = [req EXCEPT ![r] = [pc |-> "wait", method |-> "POST", band |-> b, value |-> v]]
        PROVE  \E new \in ReqType : To1(new)
    <3>1. [pc |-> "wait", method |-> "POST", band |-> b, value |-> v] \in ReqType
      BY DEF ReqType, Methods
    <3> QED
      BY <2>1, <2>3, <3>1
  <2> QED
    BY <1>1, <2>1, <2>2, <2>3 DEF Arrive
<1>2. CASE GateTimesOut(r)
  BY <1>2, <1>a DEF GateTimesOut, Answer
<1>3. CASE Enter(r)
  BY <1>3, <1>a DEF Enter
<1>4. CASE HasClient(r)
  BY <1>4, <1>a DEF HasClient, Proceed, InGate
<1>5. CASE LoginBacksOff(r)
  BY <1>5, <1>a DEF LoginBacksOff, Answer, NeedsLogin
<1>6. CASE ProxyLogin(r)
  BY <1>6, <1>a DEF ProxyLogin, Proceed, NeedsLogin, InGate
<1>7. CASE ProxyLoginFails(r)
  BY <1>7, <1>a DEF ProxyLoginFails, Answer, NeedsLogin
<1>8. CASE Forward(r)
  BY <1>8, <1>a, <1>b DEF Forward, Answer, Sending
<1>9. CASE LoggedOut(r)
  BY <1>9, <1>a DEF LoggedOut, LoggedOutTo, Sending, InGate
<1>10. CASE LoggedOutAfter(r)
  BY <1>10, <1>a, <1>b DEF LoggedOutAfter, LoggedOutTo, Sending, InGate
<1>11. CASE ForwardFails(r)
  BY <1>11, <1>a, <1>b DEF ForwardFails, Answer, Sending
<1> QED
  BY <1>1, <1>2, <1>3, <1>4, <1>5, <1>6, <1>7, <1>8, <1>9, <1>10, <1>11 DEF ProxyAction, ProxyStep
LEMMA ProxyTyped ==
    ASSUME TypeOK, BootsCounted, NEW r \in Requests, ProxyAction(r)
    PROVE  TypeOK' /\ BootsCounted'
<1> USE ModemAssumption DEF ModemAssumption
<1>1. UNCHANGED <<slot, boot, file, cli>>
  BY DEF ProxyAction, ProxyStep, Arrive, GateTimesOut, Enter, HasClient, LoginBacksOff, ProxyLogin,
         ProxyLoginFails, Forward, LoggedOut, LoggedOutAfter, ForwardFails, proxyFrame
<1>2. hands' = hands /\ (faults' = faults \/ (faults < MaxFaults /\ faults' = faults + 1))
  BY DEF ProxyAction, ProxyStep, Arrive, GateTimesOut, Enter, HasClient, LoginBacksOff, ProxyLogin,
         ProxyLoginFails, Forward, LoggedOut, LoggedOutAfter, ForwardFails, proxyFrame, Fault
<1>3. session' \subseteq Clis \cup {"proxy"} /\ client' \in BOOLEAN /\ backoff' \in BOOLEAN
  BY DEF ProxyAction, ProxyStep, Arrive, GateTimesOut, Enter, HasClient, LoginBacksOff, ProxyLogin,
         ProxyLoginFails, Forward, LoggedOut, LoggedOutAfter, ForwardFails, proxyFrame, TypeOK
<1>4. req' \in [Requests -> ReqType] /\ radio' \in [Bands -> BOOLEAN] /\ posts' \in [Requests -> Nat]
  BY ProxyEffect DEF TypeOK, ReqType
<1> QED
  BY <1>1, <1>2, <1>3, <1>4 DEF TypeOK, BootsCounted, ReqType

\* The clock, the router, the modem.
WorldAction ==
    \/ SlotBegins \/ RetryDue \/ BackoffEnds \/ ClockStepsBack \/ Reboot
    \/ (\E x \in session : SessionExpires(x)) \/ (\E b \in Bands : Press(b))

LEMMA WorldTyped ==
    ASSUME TypeOK, BootsCounted, WorldAction
    PROVE  TypeOK' /\ BootsCounted'
<1> USE ModemAssumption DEF ModemAssumption
<1>1. CASE SlotBegins
  BY <1>1 DEF SlotBegins, worldFrame, TypeOK, BootsCounted
<1>2. CASE RetryDue
  BY <1>2 DEF RetryDue, worldFrame, TypeOK, BootsCounted
<1>3. CASE BackoffEnds
  BY <1>3 DEF BackoffEnds, proxyFrame, TypeOK, BootsCounted
<1>4. CASE ClockStepsBack
  <2>1. PICK recent \in BOOLEAN : file' = [file EXCEPT !.recent = recent]
    BY <1>4 DEF ClockStepsBack
  <2>2. file' \in FileType
    BY <2>1 DEF TypeOK, FileType
  <2>3. /\ slot > 0 /\ slot' = slot - 1 /\ faults < MaxFaults /\ faults' = faults + 1
        /\ UNCHANGED <<client, backoff, req, posts, radio, session, boot, cli, hands>>
    BY <1>4 DEF ClockStepsBack, Fault, worldFrame
  <2> QED
    BY <2>2, <2>3 DEF TypeOK, BootsCounted, FileType
<1>5. CASE Reboot
  <2>1. file' \in FileType
    BY <1>5, NoFileType DEF Reboot, TypeOK, FileType
  <2>2. cli' \in [Clis -> CliType]
    BY <1>5, EndedType DEF Reboot
  <2>3. req' \in [Requests -> ReqType]
    BY <1>5, AnsweredType DEF Reboot, TypeOK, ReqType
  <2>4. /\ boot' = boot + 1 /\ faults < MaxFaults /\ faults' = faults + 1
        /\ client' = FALSE /\ backoff' = FALSE /\ session' = {} /\ UNCHANGED <<radio, slot, posts, hands>>
    BY <1>5 DEF Reboot, Fault
  <2>5. posts' \in [Requests -> Nat] /\ boot' \in 0 .. MaxFaults /\ faults' \in 0 .. MaxFaults /\ boot' <= faults'
    BY <2>4 DEF TypeOK, BootsCounted
  <2> QED
    BY <2>1, <2>2, <2>3, <2>4, <2>5 DEF TypeOK, BootsCounted, CliType, ReqType, FileType
<1>6. ASSUME NEW x \in session, SessionExpires(x)
      PROVE  TypeOK' /\ BootsCounted'
  BY <1>6 DEF SessionExpires, Fault, worldFrame, TypeOK, BootsCounted
<1>7. ASSUME NEW b \in Bands, Press(b)
      PROVE  TypeOK' /\ BootsCounted'
  <2>1. cli' \in [Clis -> CliType]
    <3>1. ASSUME NEW p \in Clis PROVE [cli[p] EXCEPT !.pressed = Running(p)] \in CliType
      <4>1. Running(p) \in BOOLEAN
        BY DEF Running
      <4> HIDE DEF Running
      <4>2. cli[p] \in CliType
        BY DEF TypeOK, CliType
      <4> QED
        BY <4>1, <4>2 DEF CliType
    <3> QED
      BY <1>7, <3>1 DEF Press
  <2> QED
    BY <1>7, <2>1 DEF Press, ByHand, worldFrame, TypeOK, BootsCounted, CliType
<1> QED
  BY <1>1, <1>2, <1>3, <1>4, <1>5, <1>6, <1>7 DEF WorldAction

\* Every step is one of the three kinds.
CommandAction(p) == Reconcile(p) \/ Set(p) \/ CommandStep(p) \/ RequestFails(p) \/ Killed(p)

LEMMA Kinds ==
    [Next]_vars => \/ \E p \in Clis : CommandAction(p)
                   \/ \E r \in Requests : ProxyAction(r)
                   \/ WorldAction \/ UNCHANGED vars
  BY DEF Next, Mishap, CommandAction, ProxyAction, WorldAction

LEMMA TypeStep == TypeOK /\ BootsCounted /\ [Next]_vars => TypeOK' /\ BootsCounted'
<1> SUFFICES ASSUME TypeOK, BootsCounted, [Next]_vars PROVE TypeOK' /\ BootsCounted'
  OBVIOUS
<1>1. CASE UNCHANGED vars
  BY <1>1 DEF vars, TypeOK, BootsCounted
<1>2. ASSUME NEW p \in Clis, CommandAction(p) PROVE TypeOK' /\ BootsCounted'
  BY <1>2, CommandTyped DEF CommandAction
<1>3. ASSUME NEW r \in Requests, ProxyAction(r) PROVE TypeOK' /\ BootsCounted'
  BY <1>3, ProxyTyped
<1>4. CASE WorldAction
  BY <1>4, WorldTyped
<1> QED
  BY <1>1, <1>2, <1>3, <1>4, Kinds
-----------------------------------------------------------------------------
\* What a step of a command does to itself, the radios and the file.
LEMMA CommandEffect ==
    ASSUME TypeOK, NEW p \in Clis, CommandAction(p)
    PROVE  /\ UNCHANGED <<req, posts, slot, boot>>
           /\ \A q \in Clis : q # p => cli'[q] = cli[q]
           /\ \/ /\ Running(p)
                 /\ cli'[p].slot = cli[p].slot /\ cli'[p].boot = cli[p].boot
              \/ cli'[p] = Ended
              \/ /\ Free /\ (p \in Crons => NeedsReconcile)
                 /\ cli'[p].slot = slot /\ cli'[p].boot = boot
           /\ UNCHANGED radio \/ Running(p)
           /\ UNCHANGED file \/ (Running(p) /\ cli'[p] = Ended)
           /\ cli'[p].pc = "save" => cli[p].pc = "confirm" /\ UNCHANGED radio
                                     /\ \A b \in Bands : radio[b] = cli'[p].want
<1>t. cli \in [Clis -> CliType] /\ cli[p] \in CliType
  BY DEF TypeOK, CliType
<1>1. CASE Reconcile(p)
  <2>1. PICK on, force \in BOOLEAN : cli' = [cli EXCEPT ![p] = Started(on, force)]
    BY <1>1 DEF Reconcile, Wanted
  <2> QED
    BY <1>1, <1>t, <2>1 DEF Reconcile, Started, cliFrame
<1>2. CASE Set(p)
  <2>1. PICK on, force \in BOOLEAN : cli' = [cli EXCEPT ![p] = Started(on, force)]
    BY <1>2 DEF Set
  <2>2. p \notin Crons
    BY <1>2, ModemAssumption DEF Set, ModemAssumption
  <2> QED
    BY <1>2, <1>t, <2>1, <2>2 DEF Set, Started
<1>3. CASE Login(p)
  BY <1>3, <1>t DEF Login, cliFrame, Running, CliType
<1>4. CASE CheckBand(p)
  BY <1>4, <1>t, NextBandType DEF CheckBand, cliFrame, Running, CliType
<1>5. CASE WriteBand(p)
  BY <1>5, <1>t DEF WriteBand, cliFrame, Running, CliType
<1>6. CASE ReadBack(p)
  BY <1>6, <1>t, NextBandType DEF ReadBack, cliFrame, Running
<1>7. CASE Confirm(p)
  BY <1>7, <1>t DEF Confirm, cliFrame, Running, CliType
<1>8. CASE SaveConfirmed(p)
  BY <1>8, <1>t DEF SaveConfirmed, cliFrame, Running, Ended
<1>9. CASE CommandFails(p)
  BY <1>9, <1>t DEF CommandFails, Unconfirmed, Failed, cliFrame, Running, Ended
<1>10. CASE RequestFails(p)
  BY <1>10, <1>t DEF RequestFails, Failed, cliFrame, Running, Ended
<1>11. CASE Killed(p)
  BY <1>11, <1>t DEF Killed, cliFrame, Running, Ended
<1> QED
  BY <1>1, <1>2, <1>3, <1>4, <1>5, <1>6, <1>7, <1>8, <1>9, <1>10, <1>11 DEF CommandAction, CommandStep

\* The locks are passed on only when they are free.
LEMMA LockStep == TypeOK /\ LockHeld /\ [Next]_vars => LockHeld'
<1> SUFFICES ASSUME TypeOK, LockHeld, [Next]_vars PROVE LockHeld'
  OBVIOUS
<1>1. CASE UNCHANGED vars
  BY <1>1 DEF vars, LockHeld, Running, InGate
<1>2. ASSUME NEW p \in Clis, CommandAction(p) PROVE LockHeld'
  <2>1. \A r \in Requests : InGate(r)' <=> InGate(r)
    BY <1>2, CommandEffect DEF InGate
  <2>2. \A q \in Clis : q # p => (Running(q)' <=> Running(q))
    BY <1>2, CommandEffect DEF Running
  <2>3. Running(p)' => Running(p) \/ Free
    BY <1>2, CommandEffect DEF Running, Ended
  <2> QED
    BY <2>1, <2>2, <2>3 DEF LockHeld, Free
<1>3. ASSUME NEW r \in Requests, ProxyAction(r) PROVE LockHeld'
  <2>1. cli' = cli
    BY <1>3 DEF ProxyAction, ProxyStep, Arrive, GateTimesOut, Enter, HasClient, LoginBacksOff, ProxyLogin,
         ProxyLoginFails, Forward, LoggedOut, LoggedOutAfter, ForwardFails, proxyFrame
  <2>2. \A s \in Requests : s # r => (InGate(s)' <=> InGate(s))
    BY <1>3, ProxyEffect DEF InGate, TypeOK
  <2>3. InGate(r)' => InGate(r) \/ Free
    BY <1>3, ProxyEffect DEF InGate, TypeOK
  <2> QED
    BY <2>1, <2>2, <2>3 DEF LockHeld, Free, Running
<1>4. CASE WorldAction
  <2>1. \A q \in Clis : Running(q)' => Running(q)
    BY <1>4 DEF WorldAction, SlotBegins, RetryDue, BackoffEnds, ClockStepsBack, Reboot, SessionExpires, Press,
         worldFrame, proxyFrame, Running, Ended, TypeOK
  <2>2. \A s \in Requests : InGate(s)' => InGate(s)
    BY <1>4, AnsweredType DEF WorldAction, SlotBegins, RetryDue, BackoffEnds, ClockStepsBack, Reboot, SessionExpires,
         Press, worldFrame, proxyFrame, InGate
  <2> QED
    BY <2>1, <2>2 DEF LockHeld
<1> QED
  BY <1>1, <1>2, <1>3, <1>4, Kinds

\* Whoever carries a POST out answers it, as it is not sent again.
LEMMA SentStep == TypeOK /\ SentOnce /\ [Next]_vars => SentOnce'
<1> SUFFICES ASSUME TypeOK, SentOnce, [Next]_vars PROVE SentOnce'
  OBVIOUS
<1>1. CASE UNCHANGED vars
  BY <1>1 DEF vars, SentOnce
<1>2. ASSUME NEW p \in Clis, CommandAction(p) PROVE SentOnce'
  BY <1>2, CommandEffect DEF SentOnce
<1>3. ASSUME NEW r \in Requests, ProxyAction(r) PROVE SentOnce'
  <2>1. PICK new \in ReqType :
          /\ req' = [req EXCEPT ![r] = new]
          /\ new.pc = "done" \/ req[r].method = "GET" \/ UNCHANGED posts
    BY <1>3, ProxyEffect
  <2>2. posts[r] = 0
    BY <1>3, ProxyEffect DEF SentOnce
  <2>3. UNCHANGED posts \/ (req[r].method = "POST" /\ posts' = [posts EXCEPT ![r] = @ + 1])
    BY <1>3, ProxyEffect
  <2>4. posts' # posts => new.pc = "done"
    BY <1>3, <2>1, <2>3
  <2>5. posts \in [Requests -> Nat] /\ req \in [Requests -> ReqType]
    BY DEF TypeOK, ReqType
  <2> QED
    BY <2>1, <2>2, <2>3, <2>4, <2>5 DEF SentOnce
<1>4. CASE WorldAction
  <2>1. posts' = posts
    BY <1>4 DEF WorldAction, SlotBegins, RetryDue, BackoffEnds, ClockStepsBack, Reboot, SessionExpires, Press,
         worldFrame, proxyFrame
  <2>2. \A r \in Requests : req[r].pc = "done" => req'[r].pc = "done"
    BY <1>4, AnsweredType DEF WorldAction, SlotBegins, RetryDue, BackoffEnds, ClockStepsBack, Reboot, SessionExpires,
         Press, worldFrame, proxyFrame
  <2> QED
    BY <2>1, <2>2 DEF SentOnce
<1> QED
  BY <1>1, <1>2, <1>3, <1>4, Kinds
\* A confirmed command is alone with the radios until it has reported.
LEMMA ConfirmStep == TypeOK /\ LockHeld /\ ConfirmedHolds /\ [Next]_vars => ConfirmedHolds'
<1> SUFFICES ASSUME TypeOK, LockHeld, ConfirmedHolds, [Next]_vars,
                    NEW q \in Clis, cli'[q].pc = "save", ~cli'[q].pressed, NEW b \in Bands
             PROVE  radio'[b] = cli'[q].want
  BY DEF ConfirmedHolds
<1>0. cli \in [Clis -> CliType] /\ radio \in [Bands -> BOOLEAN]
  BY DEF TypeOK, CliType
<1>1. CASE UNCHANGED vars
  BY <1>1 DEF vars, ConfirmedHolds
<1>2. ASSUME NEW p \in Clis, CommandAction(p) PROVE radio'[b] = cli'[q].want
  <2>1. CASE p = q
    BY <1>2, <2>1, CommandEffect
  <2>2. CASE p # q
    <3>1. cli'[q] = cli[q]
      BY <1>2, <2>2, CommandEffect
    <3>2. ~Running(p)
      BY <2>2, <3>1 DEF LockHeld, Running
    <3>3. radio' = radio
      BY <1>2, <3>2, CommandEffect
    <3> QED
      BY <3>1, <3>3 DEF ConfirmedHolds
  <2> QED
    BY <2>1, <2>2
<1>3. ASSUME NEW r \in Requests, ProxyAction(r) PROVE radio'[b] = cli'[q].want
  <2>1. cli' = cli
    BY <1>3 DEF ProxyAction, ProxyStep, Arrive, GateTimesOut, Enter, HasClient, LoginBacksOff, ProxyLogin,
         ProxyLoginFails, Forward, LoggedOut, LoggedOutAfter, ForwardFails, proxyFrame
  <2>2. ~InGate(r)
    BY <2>1 DEF LockHeld, Running
  <2>3. radio' = radio
    BY <1>3, <2>2, ProxyEffect
  <2> QED
    BY <2>1, <2>3 DEF ConfirmedHolds
<1>4. CASE WorldAction
  <2>1. CASE UNCHANGED <<cli, radio>>
    BY <2>1 DEF ConfirmedHolds
  <2>2. CASE Reboot
    BY <2>2 DEF Reboot, Ended
  <2>3. ASSUME NEW c \in Bands, Press(c) PROVE FALSE
    BY <1>0, <2>3 DEF Press, Running, CliType
  <2> QED
    BY <1>4, <2>1, <2>2, <2>3 DEF WorldAction, SlotBegins, RetryDue, BackoffEnds, ClockStepsBack, SessionExpires,
         worldFrame, proxyFrame
<1> QED
  BY <1>1, <1>2, <1>3, <1>4, Kinds

\* Nobody but the job in the lock says in the file that a slot is done.
LEMMA DoneStep == TypeOK /\ LockHeld /\ DoneOnce /\ [Next]_vars => DoneOnce'
<1> SUFFICES ASSUME TypeOK, LockHeld, DoneOnce, [Next]_vars,
                    NEW q \in Crons, Running(q)'
             PROVE  ~(file'.confirmed /\ file'.slot = cli'[q].slot /\ file'.boot = cli'[q].boot)
  BY DEF DoneOnce
<1>0. q \in Clis /\ cli \in [Clis -> CliType] /\ file \in FileType
  BY DEF TypeOK, CliType, FileType, Clis
<1>a. Running(q) /\ UNCHANGED <<file>> /\ cli'[q].slot = cli[q].slot /\ cli'[q].boot = cli[q].boot
        => ~(file'.confirmed /\ file'.slot = cli'[q].slot /\ file'.boot = cli'[q].boot)
  BY DEF DoneOnce
<1>1. CASE UNCHANGED vars
  BY <1>1, <1>a DEF vars, Running
<1>2. ASSUME NEW p \in Clis, CommandAction(p)
      PROVE  ~(file'.confirmed /\ file'.slot = cli'[q].slot /\ file'.boot = cli'[q].boot)
  <2>1. CASE p = q
    <3>1. file' = file /\ cli'[p] # Ended
      BY <1>2, <2>1, CommandEffect DEF Running, Ended
    <3>2. CASE Running(q)
      <4>1. cli'[p].slot = cli[p].slot /\ cli'[p].boot = cli[p].boot
        BY <1>0, <1>2, <2>1, <3>1, <3>2, CommandEffect DEF Free
      <4> QED
        BY <1>a, <2>1, <3>1, <3>2, <4>1
    <3>3. CASE ~Running(q)
      BY <1>2, <2>1, <3>1, <3>3, CommandEffect DEF NeedsReconcile
    <3> QED
      BY <3>2, <3>3
  <2>2. CASE p # q
    <3>1. cli'[q] = cli[q] /\ Running(q)
      BY <1>0, <1>2, <2>2, CommandEffect DEF Running
    <3>2. file' = file
      BY <1>0, <1>2, <2>2, <3>1, CommandEffect DEF LockHeld
    <3> QED
      BY <1>a, <3>1, <3>2
  <2> QED
    BY <2>1, <2>2
<1>3. ASSUME NEW r \in Requests, ProxyAction(r)
      PROVE  ~(file'.confirmed /\ file'.slot = cli'[q].slot /\ file'.boot = cli'[q].boot)
  <2>1. cli' = cli /\ file' = file
    BY <1>3 DEF ProxyAction, ProxyStep, Arrive, GateTimesOut, Enter, HasClient, LoginBacksOff, ProxyLogin,
         ProxyLoginFails, Forward, LoggedOut, LoggedOutAfter, ForwardFails, proxyFrame
  <2> QED
    BY <1>a, <2>1 DEF Running
<1>4. CASE WorldAction
  <2>1. CASE Reboot
    BY <1>0, <2>1 DEF Reboot, Running, Ended
  <2>2. ASSUME NEW c \in Bands, Press(c)
        PROVE  file' = file /\ Running(q) /\ cli'[q].slot = cli[q].slot /\ cli'[q].boot = cli[q].boot
    BY <1>0, <2>2 DEF Press, Running, CliType
  <2>3. CASE RetryDue \/ ClockStepsBack
    <3>1. cli' = cli
      BY <2>3 DEF RetryDue, ClockStepsBack, worldFrame
    <3>2. file'.confirmed = file.confirmed /\ file'.slot = file.slot /\ file'.boot = file.boot
      BY <1>0, <2>3 DEF RetryDue, ClockStepsBack, FileType
    <3> QED
      BY <3>1, <3>2 DEF DoneOnce, Running
  <2>4. CASE UNCHANGED <<cli, file>>
    BY <1>a, <2>4 DEF Running
  <2> QED
    BY <1>4, <1>a, <2>1, <2>2, <2>3, <2>4
       DEF WorldAction, SlotBegins, BackoffEnds, SessionExpires, worldFrame, proxyFrame
<1> QED
  BY <1>1, <1>2, <1>3, <1>4, Kinds

-----------------------------------------------------------------------------
LEMMA InitInv == Init => ModemInv
<1> SUFFICES ASSUME Init PROVE ModemInv
  OBVIOUS
<1>1. TypeOK
  BY InitTyped
<1>2. \A p \in Clis : ~Running(p)
  BY DEF Init, Running, Ended
<1>3. \A r \in Requests : ~InGate(r) /\ posts[r] = 0
  BY DEF Init, InGate, NewRequest
<1> QED
  BY <1>1, <1>2, <1>3 DEF Init, ModemInv, BootsCounted, LockHeld, SentOnce, ConfirmedHolds, DoneOnce, Running, Clis

LEMMA InvStep == ModemInv /\ [Next]_vars => ModemInv'
  BY TypeStep, LockStep, SentStep, ConfirmStep, DoneStep DEF ModemInv

LEMMA Invariance == Spec => []ModemInv
<1> QED
  BY InitInv, InvStep, PTL DEF Spec

\* Commands, requests, radios, sessions and the state file are well typed in
\* every reachable state of the schedule and its proxy.
THEOREM TypeCorrect == Spec => []TypeOK
<1>1. ModemInv => TypeOK
  BY DEF ModemInv
<1> QED
  BY <1>1, Invariance, PTL

\* However many browsers send requests and however often a session expires,
\* forward() has no POST carried out twice.
THEOREM PostsOnce == Spec => []CarriedOutOnce
<1>1. ModemInv => CarriedOutOnce
  BY DEF ModemInv, SentOnce, CarriedOutOnce
<1> QED
  BY <1>1, Invariance, PTL

\* For any number of jobs, commands and requests, a confirmation of both bands
\* holds when it is recorded.
THEOREM ConfirmationTrue == Spec => []ConfirmedHolds
<1>1. ModemInv => ConfirmedHolds
  BY DEF ModemInv
<1> QED
  BY <1>1, Invariance, PTL

\* However many jobs overlap and whatever the clock does, no job works on a slot
\* that the file says is done in this boot.
THEOREM SlotsOnce == Spec => []DoneOnce
<1>1. ModemInv => DoneOnce
  BY DEF ModemInv
<1> QED
  BY <1>1, Invariance, PTL
=============================================================================
