------------------------------ MODULE W96dProofs ------------------------------
(***************************************************************************)
(* The release of the W96D is durable, for any number of faults.  A PATCH  *)
(* never leaves the fan in both of its modes, and shows what it did, for   *)
(* any body, schedule of reads and number of failures.                     *)
(***************************************************************************)
EXTENDS W96dOwnership, W96dCommand, SequenceTheorems, TLAPS

(***************************************************************************)
(* Who owns the fan                                                        *)
(***************************************************************************)

\* Only an ownership request or a restart touches the pause store.
LEMMA StoreIsLocal ==
    ASSUME [Next]_vars
    PROVE  \/ UNCHANGED store
           \/ \E r \in Slots : ServeResume(r) \/ ServeRelease(r)
           \/ Restart
<1>1. RunnerStep \/ PatchStep \/ LinkLost \/ LateDone \/ UiStep \/ PollStep \/ AppKilled
        => UNCHANGED store
  BY DEF RunnerStep, PatchStep, PatchProgress, LinkLost, LateDone, UiStep, UiProgress, PollStep,
         AppKilled, store
<1>2. \A r \in Slots : ServeGet(r) \/ ReleaseDropped(r) \/ AnswerLost(r) => UNCHANGED store
  BY DEF ServeGet, ReleaseDropped, AnswerLost, store
<1>3. UNCHANGED vars => UNCHANGED store
  BY DEF vars
<1> QED
  BY <1>1, <1>2, <1>3 DEF Next, Serve

\* What a request leaves behind agrees with its outcome; a restart reads the file.
LEMMA LastRequestStep == LastRequestHolds /\ [Next]_vars => LastRequestHolds'
<1> SUFFICES ASSUME LastRequestHolds, [Next]_vars
             PROVE  LastRequestHolds'
  OBVIOUS
<1>1. CASE UNCHANGED store
  BY <1>1 DEF store, LastRequestHolds
<1>2. ASSUME NEW r \in Slots, ServeResume(r) \/ ServeRelease(r)
      PROVE  LastRequestHolds'
  BY <1>2 DEF ServeResume, ServeRelease, StorePause, StorePauseFails, LastRequestHolds
<1>3. CASE Restart
  BY <1>3 DEF Restart, LastRequestHolds
<1> QED
  BY <1>1, <1>2, <1>3, StoreIsLocal

\* A release or a resume that was carried out completely stays in force
\* across restarts, lost answers and late requests.
THEOREM ReleaseIsDurable == Spec => []LastRequestHolds
<1>1. Init => LastRequestHolds
  BY DEF Init, LastRequestHolds
<1> QED
  BY <1>1, LastRequestStep, PTL DEF Spec

\* The values a request slot takes.
Asked == [Slots -> {"none", "get", "release", "resume"}]
Heard == [Slots -> {"idle", "sent", "dropping", "ok", "error", "paused"}]

\* Sending, answering and clearing a request keep the slots typed.
LEMMA SlotTypes ==
    ASSUME op \in Asked, at \in Heard, NEW r \in Slots
    PROVE  /\ \A what \in {"get", "release", "resume"} :
                  Send(r, what) => op' \in Asked /\ at' \in Heard
           /\ \A a \in {"dropping", "ok", "error", "paused"} :
                  Answer(r, a) => op' \in Asked /\ at' \in Heard
           /\ Clear(r) => op' \in Asked /\ at' \in Heard
  BY DEF Send, Answer, Clear, Asked, Heard

\* The screen's two slots are slots.
LEMMA NamedSlots == "ui" \in Slots /\ "poll" \in Slots /\ "late" \in Slots
  BY DEF Slots

\* Every step of the sidecar, of a request and of the phone keeps the types.
LEMMA OwnershipTypeStep == TypeOK /\ [Next]_vars => TypeOK'
<1> SUFFICES ASSUME TypeOK, [Next]_vars
             PROVE  TypeOK'
  OBVIOUS
<1> DEFINE Sidecar == /\ paused \in BOOLEAN /\ file \in BOOLEAN
                      /\ settled \in {"release", "resume", "failed"}
                      /\ client \in BOOLEAN /\ link \in BOOLEAN
                      /\ runner \in RunnerPC /\ patch \in PatchPC
           Asking == op \in Asked /\ at \in Heard
           App == ui \in UiPC /\ forced \in BOOLEAN /\ phoneLink \in BOOLEAN
           Faulty == faults \in 0..MaxFaults
<1>a. TypeOK <=> Sidecar /\ Asking /\ App /\ Faulty
  BY DEF TypeOK, Asked, Heard
<1>b. (TypeOK <=> Sidecar /\ Asking /\ App /\ Faulty)'
  BY DEF TypeOK, Asked, Heard
<1>c. Fault => Faulty'
  BY <1>a, OwnershipAssumption DEF Fault, OwnershipAssumption
<1>d. /\ UNCHANGED <<store, radio, runner, patch>> => Sidecar'
      /\ UNCHANGED requests => Asking'
      /\ UNCHANGED phone => App'
      /\ UNCHANGED faults => Faulty'
  BY <1>a DEF store, radio, requests, phone
<1>1. CASE RunnerStep
  <2>1. client' \in BOOLEAN /\ link' \in BOOLEAN /\ runner' \in RunnerPC
    BY <1>1, <1>a DEF RunnerStep, RunnerTurn, RunnerGate, RunnerConnects, RunnerUngates,
       RunnerLocks, RunnerRefreshes, RunnerFails, RunnerDropped, RunnerDisconnects, Connects,
       Disconnected, radio, RunnerPC
  <2> QED
    BY <1>1, <1>a, <1>b, <1>d, <2>1 DEF RunnerStep, store
<1>2. CASE PatchStep
  <2>1. client' \in BOOLEAN /\ link' \in BOOLEAN /\ patch' \in PatchPC
    BY <1>2, <1>a DEF PatchStep, PatchProgress, PatchArrives, PatchLocks, PatchGate, PatchConnects,
       PatchUngates, PatchCommandGate, PatchWrites, Connects, radio, PatchPC
  <2> QED
    BY <1>2, <1>a, <1>b, <1>d, <2>1 DEF PatchStep, PatchProgress, store
<1>3. CASE LinkLost
  BY <1>3, <1>a, <1>b, <1>d DEF LinkLost, store
<1>4. CASE Restart
  <2>1. Sidecar'
    BY <1>4, <1>a DEF Restart, RunnerPC, PatchPC
  <2>2. Asking'
    BY <1>4, <1>a DEF Restart, Asked, Heard
  <2> QED
    BY <1>4, <1>b, <1>c, <1>d, <2>1, <2>2 DEF Restart
<1>5. ASSUME NEW r \in Slots, ServeGet(r)
      PROVE  TypeOK'
  BY <1>5, <1>a, <1>b, <1>d, SlotTypes DEF ServeGet
<1>6. ASSUME NEW r \in Slots, ServeResume(r) \/ ServeRelease(r)
      PROVE  TypeOK'
  <2>1. Faulty'
    BY <1>6, <1>a, <1>c, <1>d DEF ServeResume, ServeRelease, StorePause, StorePauseFails
  <2>2. Sidecar'
    BY <1>6, <1>a DEF ServeResume, ServeRelease, StorePause, StorePauseFails, radio
  <2>3. Asking'
    BY <1>6, <1>a, SlotTypes DEF ServeResume, ServeRelease
  <2> QED
    BY <1>6, <1>b, <1>d, <2>1, <2>2, <2>3 DEF ServeResume, ServeRelease
<1>7. ASSUME NEW r \in Slots, ReleaseDropped(r)
      PROVE  TypeOK'
  <2>1. Asking'
    BY <1>7, <1>a, SlotTypes DEF ReleaseDropped
  <2>2. Sidecar'
    BY <1>7, <1>a DEF ReleaseDropped, Disconnected, store
  <2> QED
    BY <1>7, <1>b, <1>d, <2>1, <2>2 DEF ReleaseDropped
<1>8. ASSUME NEW r \in Slots, AnswerLost(r)
      PROVE  TypeOK'
  <2>1. Asking'
    BY <1>8, <1>a DEF AnswerLost, Asked, Heard
  <2> QED
    BY <1>8, <1>b, <1>c, <1>d, <2>1 DEF AnswerLost
<1>9. CASE LateDone
  <2>1. Asking'
    BY <1>9, <1>a DEF LateDone, Asked, Heard
  <2> QED
    BY <1>9, <1>b, <1>d, <2>1 DEF LateDone
<1>10. CASE UiStep
  <2>1. Asking'
    BY <1>10, <1>a, <1>d, SlotTypes, NamedSlots DEF UiStep, UiProgress, ReleaseAnswered,
       PhoneConnects, PhoneConnectFails, PhoneDisconnects, ResumeAnswered, EnterOutdoor,
       ForceDialog, ExitOutdoor, PhoneReconnects, PhoneLinkLost
  <2>2. App'
    BY <1>10, <1>a DEF UiStep, UiProgress, ReleaseAnswered, PhoneConnects, PhoneConnectFails,
       PhoneDisconnects, ResumeAnswered, EnterOutdoor, ForceDialog, ExitOutdoor, PhoneReconnects,
       PhoneLinkLost, UiPC
  <2> QED
    BY <1>10, <1>b, <1>d, <2>1, <2>2 DEF UiStep, UiProgress
<1>11. CASE PollStep
  <2>1. Asking'
    BY <1>11, <1>a, SlotTypes, NamedSlots DEF PollStep, PollStarts, PollAnswered, PollResumed
  <2> QED
    BY <1>11, <1>b, <1>d, <2>1 DEF PollStep
<1>12. CASE AppKilled
  <2>1. Asking'
    <3>1. PICK r \in {"ui", "poll"} :
            /\ op' = [op EXCEPT !["ui"] = "none", !["poll"] = "none",
                                !["late"] = IF at[r] \in {"sent", "dropping"} THEN op[r] ELSE "none"]
            /\ at' = [at EXCEPT !["ui"] = "idle", !["poll"] = "idle",
                                !["late"] = IF at[r] \in {"sent", "dropping"} THEN at[r] ELSE "idle"]
      BY <1>12 DEF AppKilled
    <3>2. op[r] \in {"none", "get", "release", "resume"}
      BY <1>a, <3>1, NamedSlots DEF Asked
    <3> QED
      BY <1>a, <3>1, <3>2, NamedSlots DEF Asked, Heard
  <2>2. App'
    BY <1>12, <1>a DEF AppKilled, UiPC
  <2> QED
    BY <1>12, <1>b, <1>c, <1>d, <2>1, <2>2 DEF AppKilled
<1>13. CASE UNCHANGED vars
  BY <1>13, <1>a, <1>b, <1>d DEF vars
<1> QED
  BY <1>1, <1>2, <1>3, <1>4, <1>5, <1>6, <1>7, <1>8, <1>9, <1>10, <1>11, <1>12, <1>13 DEF Next, Serve

\* Every reachable state of sidecar and phone is well typed.
THEOREM OwnershipTyped == Spec => []TypeOK
<1>1. ASSUME Init PROVE TypeOK
  <2>1. op \in Asked /\ at \in Heard
    BY <1>1 DEF Init, Asked, Heard
  <2>2. paused \in BOOLEAN /\ file \in BOOLEAN /\ client \in BOOLEAN /\ link \in BOOLEAN
    BY <1>1 DEF Init
  <2>3. forced \in BOOLEAN /\ phoneLink \in BOOLEAN
    BY <1>1 DEF Init
  <2>4. faults \in 0..MaxFaults
    BY <1>1, OwnershipAssumption DEF Init, OwnershipAssumption
  <2> QED
    BY <1>1, <2>1, <2>2, <2>3, <2>4 DEF Init, TypeOK, RunnerPC, PatchPC, UiPC, Asked, Heard
<1> QED
  BY <1>1, OwnershipTypeStep, PTL DEF Spec

(***************************************************************************)
(* The writes of a PATCH and what it claims                                *)
(***************************************************************************)
Modes == {"natural", "turbo"}
OtherMode(f) == IF f = "natural" THEN "turbo" ELSE "natural"
SwitchesOn(w) == w.field \in Modes /\ w.value = 1

\* A mode is switched on right after the other one was switched off.
Guarded(s) ==
    \A i \in 1..Len(s) : SwitchesOn(s[i]) => i > 1 /\ s[i - 1] = W(OtherMode(s[i].field), 0)

Untouched(s, f) == \A j \in 1..Len(s) : s[j].field # f

\* The last write of f in s sets it to v.
LastSets(s, f, v) ==
    \E i \in 1..Len(s) : s[i] = W(f, v) /\ \A j \in (i + 1)..Len(s) : s[j].field # f

\* The dict d says of every field that s writes what s leaves in it.
Carries(s, d) ==
    /\ \A j \in 1..Len(s) : s[j].field \in DOMAIN d
    /\ \A f \in DOMAIN d : LastSets(s, f, d[f])

\* A dict of fields, and one more merged into it.
LEMMA PartialFacts ==
    ASSUME NEW d \in Partial
    PROVE  /\ DOMAIN d \subseteq Fields
           /\ \A f \in DOMAIN d : d[f] \in Bit
           /\ d = [f \in DOMAIN d |-> d[f]]
  BY DEF Partial

LEMMA PartialIntro ==
    ASSUME NEW S \in SUBSET Fields, NEW d \in [S -> Bit]
    PROVE  d \in Partial
  BY DEF Partial

LEMMA MergedFacts ==
    ASSUME NEW d \in Partial, NEW e \in Partial
    PROVE  /\ Merged(d, e) \in Partial
           /\ DOMAIN Merged(d, e) = DOMAIN d \cup DOMAIN e
           /\ \A f \in DOMAIN e : Merged(d, e)[f] = e[f]
           /\ \A f \in DOMAIN d \ DOMAIN e : Merged(d, e)[f] = d[f]
<1>1. Merged(d, e) \in [DOMAIN d \cup DOMAIN e -> Bit]
  BY PartialFacts DEF Merged
<1>2. DOMAIN d \cup DOMAIN e \in SUBSET Fields
  BY PartialFacts
<1> QED
  BY <1>1, <1>2, PartialIntro DEF Merged

LEMMA ClaimFacts ==
    ASSUME NEW S \in SUBSET Fields, NEW v \in Bit
    PROVE  /\ Claim(S, v) \in Partial
           /\ DOMAIN Claim(S, v) = S
           /\ \A f \in S : Claim(S, v)[f] = v
<1>1. Claim(S, v) \in [S -> Bit]
  BY DEF Claim
<1> QED
  BY <1>1, PartialIntro DEF Claim

LEMMA EmptyFacts == Empty \in Partial /\ DOMAIN Empty = {}
<1>1. Empty \in [{} -> Bit] /\ DOMAIN Empty = {}
  BY DEF Empty
<1> QED
  BY <1>1, PartialIntro

\* One list of writes after another.
LEMMA Joined ==
    ASSUME NEW s \in Seq(Write), NEW t \in Seq(Write), Guarded(s), Guarded(t),
           NEW d \in Partial, NEW e \in Partial, Carries(s, d), Carries(t, e)
    PROVE  /\ s \o t \in Seq(Write)
           /\ Guarded(s \o t)
           /\ Carries(s \o t, Merged(d, e))
<1> DEFINE u == s \o t
           m == Merged(d, e)
<1>1. /\ u \in Seq(Write) /\ Len(u) = Len(s) + Len(t)
      /\ Len(s) \in Nat /\ Len(t) \in Nat
      /\ \A i \in 1..Len(s) : u[i] = s[i]
      /\ \A i \in 1..Len(t) : u[Len(s) + i] = t[i]
  OBVIOUS
<1>2. /\ DOMAIN m = DOMAIN d \cup DOMAIN e
      /\ \A f \in DOMAIN e : m[f] = e[f]
      /\ \A f \in DOMAIN d \ DOMAIN e : m[f] = d[f]
  BY MergedFacts
<1> HIDE DEF u, m
<1>a. ASSUME NEW i \in 1..Len(u)
      PROVE  \/ i \in 1..Len(s) /\ u[i] = s[i]
             \/ \E k \in 1..Len(t) : i = Len(s) + k /\ u[i] = t[k]
  <2>1. CASE i <= Len(s)
    BY <1>1, <2>1
  <2>2. CASE i > Len(s)
    <3>1. i - Len(s) \in 1..Len(t) /\ i = Len(s) + (i - Len(s))
      BY <1>1, <2>2
    <3> QED
      BY <1>1, <3>1
  <2> QED
    BY <1>1, <2>1, <2>2
<1>3. Guarded(u)
  <2> SUFFICES ASSUME NEW i \in 1..Len(u), SwitchesOn(u[i])
               PROVE  i > 1 /\ u[i - 1] = W(OtherMode(u[i].field), 0)
    BY DEF Guarded
  <2>1. CASE i \in 1..Len(s) /\ u[i] = s[i]
    <3>1. i > 1 /\ s[i - 1] = W(OtherMode(s[i].field), 0)
      BY <2>1 DEF Guarded
    <3>2. i - 1 \in 1..Len(s)
      BY <1>1, <2>1, <3>1
    <3> QED
      BY <1>1, <2>1, <3>1, <3>2
  <2>2. ASSUME NEW k \in 1..Len(t), i = Len(s) + k, u[i] = t[k]
        PROVE  i > 1 /\ u[i - 1] = W(OtherMode(u[i].field), 0)
    <3>1. k > 1 /\ t[k - 1] = W(OtherMode(t[k].field), 0)
      BY <2>2 DEF Guarded
    <3>2. k - 1 \in 1..Len(t) /\ i - 1 = Len(s) + (k - 1) /\ i > 1
      BY <1>1, <2>2, <3>1
    <3>3. u[i - 1] = t[k - 1]
      BY <1>1, <3>2
    <3> QED
      BY <2>2, <3>1, <3>2, <3>3
  <2> QED
    BY <1>a, <2>1, <2>2
<1>4. \A j \in 1..Len(u) : u[j].field \in DOMAIN m
  BY <1>a, <1>2 DEF Carries
<1>5. ASSUME NEW f \in DOMAIN e
      PROVE  LastSets(u, f, e[f])
  <2>1. PICK k \in 1..Len(t) : t[k] = W(f, e[f]) /\ \A j \in (k + 1)..Len(t) : t[j].field # f
    BY DEF Carries, LastSets
  <2>2. Len(s) + k \in 1..Len(u) /\ u[Len(s) + k] = W(f, e[f])
    BY <1>1, <2>1
  <2>3. ASSUME NEW j \in (Len(s) + k + 1)..Len(u)
        PROVE  u[j].field # f
    <3>1. j - Len(s) \in (k + 1)..Len(t) /\ j - Len(s) \in 1..Len(t) /\ j = Len(s) + (j - Len(s))
      BY <1>1
    <3> QED
      BY <1>1, <2>1, <3>1
  <2> QED
    BY <2>2, <2>3 DEF LastSets
<1>6. ASSUME NEW f \in DOMAIN d \ DOMAIN e
      PROVE  LastSets(u, f, d[f])
  <2>1. PICK k \in 1..Len(s) : s[k] = W(f, d[f]) /\ \A j \in (k + 1)..Len(s) : s[j].field # f
    BY DEF Carries, LastSets
  <2>2. k \in 1..Len(u) /\ u[k] = W(f, d[f])
    BY <1>1, <2>1
  <2>3. ASSUME NEW j \in (k + 1)..Len(u)
        PROVE  u[j].field # f
    <3>1. j \in 1..Len(u)
      BY <1>1
    <3>2. CASE j \in 1..Len(s) /\ u[j] = s[j]
      BY <1>1, <2>1, <3>2
    <3>3. ASSUME NEW i \in 1..Len(t), u[j] = t[i]
          PROVE  u[j].field # f
      BY <3>3 DEF Carries
    <3> QED
      BY <1>a, <3>1, <3>2, <3>3
  <2> QED
    BY <2>2, <2>3 DEF LastSets
<1>7. Carries(u, m)
  BY <1>2, <1>4, <1>5, <1>6 DEF Carries
<1> QED
  BY <1>1, <1>3, <1>7 DEF u, m

\* The write sequence of one field, and what the cached state claims of it.
LEMMA NothingCarried ==
    <<>> \in Seq(Write) /\ Guarded(<<>>) /\ Empty \in Partial /\ Carries(<<>>, Empty)
  BY EmptyFacts DEF Guarded, Carries

LEMMA OneWrite ==
    ASSUME NEW f \in Fields, NEW v \in Bit, NEW s, s = <<W(f, v)>>,
           f \notin Modes \/ v = 0
    PROVE  /\ s \in Seq(Write) /\ Guarded(s)
           /\ Claim({f}, v) \in Partial /\ Carries(s, Claim({f}, v))
<1>1. W(f, v) \in Write /\ W(f, v).field = f /\ W(f, v).value = v
  BY DEF W, Write
<1>2. s \in Seq(Write) /\ Len(s) = 1 /\ s[1] = W(f, v)
  BY <1>1
<1>3. Guarded(s)
  BY <1>1, <1>2 DEF Guarded, SwitchesOn, Bit
<1>4. LastSets(s, f, v)
  BY <1>1, <1>2 DEF LastSets
<1> QED
  BY <1>1, <1>2, <1>3, <1>4, ClaimFacts DEF Carries

LEMMA TupleJoin ==
    ASSUME NEW a, NEW b
    PROVE  <<a>> \o <<b>> = <<a, b>>
<1> DEFINE S == {a, b}
<1>1. <<a>> \in Seq(S) /\ <<b>> \in Seq(S) /\ <<a, b>> \in Seq(S)
  OBVIOUS
<1>2. /\ <<a>> \o <<b>> \in Seq(S) /\ Len(<<a>> \o <<b>>) = Len(<<a, b>>)
      /\ \A i \in 1..Len(<<a, b>>) : (<<a>> \o <<b>>)[i] = <<a, b>>[i]
  BY <1>1
<1> QED
  BY <1>1, <1>2, SeqEqual

LEMMA TwoWrites ==
    ASSUME NEW f \in Modes, NEW s, s = <<W(OtherMode(f), 0), W(f, 1)>>,
           NEW d \in Partial, DOMAIN d = Modes, d[f] = 1, d[OtherMode(f)] = 0
    PROVE  s \in Seq(Write) /\ Guarded(s) /\ Carries(s, d)
<1> DEFINE g == OtherMode(f)
<1>1. g \in Fields /\ f \in Fields /\ g # f /\ Modes = {f, g} /\ OtherMode(f) = g
  BY DEF OtherMode, Modes, Fields
<1> HIDE DEF g
<1>2. /\ W(f, 1) \in Write /\ W(f, 1).field = f /\ W(f, 1).value = 1
      /\ W(g, 0) \in Write /\ W(g, 0).field = g /\ W(g, 0).value = 0
  BY <1>1 DEF W, Write, Bit
<1>3. s \in Seq(Write) /\ Len(s) = 2 /\ s[1] = W(g, 0) /\ s[2] = W(f, 1)
  BY <1>1, <1>2
<1>4. Guarded(s)
  BY <1>1, <1>2, <1>3 DEF Guarded, SwitchesOn
<1>5. LastSets(s, f, 1) /\ LastSets(s, g, 0)
  BY <1>1, <1>2, <1>3 DEF LastSets
<1>6. \A j \in 1..Len(s) : s[j].field \in DOMAIN d
  BY <1>1, <1>2, <1>3
<1> QED
  BY <1>1, <1>3, <1>4, <1>5, <1>6 DEF Carries

LEMMA WritesCarried ==
    ASSUME NEW f \in Fields, NEW v \in Bit
    PROVE  /\ Writes(f, v) \in Seq(Write) /\ Guarded(Writes(f, v))
           /\ Claims(f, v) \in Partial /\ Carries(Writes(f, v), Claims(f, v))
<1> DEFINE Fine(s, d) == s \in Seq(Write) /\ Guarded(s) /\ d \in Partial /\ Carries(s, d)
<1>1. CASE f = "speed"
  <2> DEFINE s == Writes(f, v)
             d == Claims(f, v)
             modes == Claim({"natural", "turbo"}, 0)
             on == Claim({"power"}, 1)
             own == Claim({f}, v)
  <2>1. s = <<W("turbo", 0), W("power", 1), W("natural", 0), W(f, v)>>
        /\ d = Merged(modes, Merged(on, own))
    BY <1>1 DEF Writes, Claims
  <2>2. /\ modes \in Partial /\ DOMAIN modes = {"natural", "turbo"}
        /\ modes["natural"] = 0 /\ modes["turbo"] = 0
    <3>1. {"natural", "turbo"} \in SUBSET Fields /\ 0 \in Bit
      BY DEF Fields, Bit
    <3> QED
      BY <3>1, ClaimFacts
  <2>3. on \in Partial /\ DOMAIN on = {"power"} /\ on["power"] = 1
    <3>1. {"power"} \in SUBSET Fields /\ 1 \in Bit
      BY DEF Fields, Bit
    <3> QED
      BY <3>1, ClaimFacts
  <2>4. own \in Partial /\ DOMAIN own = {"speed"} /\ own["speed"] = v
    BY <1>1, ClaimFacts
  <2> HIDE DEF s, d, modes, on, own
  <2>5. /\ d \in Partial /\ DOMAIN d = {"natural", "turbo", "power", "speed"}
        /\ d["natural"] = 0 /\ d["turbo"] = 0 /\ d["power"] = 1 /\ d["speed"] = v
    <3>1. /\ Merged(on, own) \in Partial /\ DOMAIN Merged(on, own) = {"power", "speed"}
          /\ Merged(on, own)["power"] = 1 /\ Merged(on, own)["speed"] = v
      <4>1. DOMAIN on \cup DOMAIN own = {"power", "speed"} /\ "power" \in DOMAIN on \ DOMAIN own
        BY <2>3, <2>4
      <4> QED
        BY <2>3, <2>4, <4>1, MergedFacts
    <3>2. /\ DOMAIN modes \cup {"power", "speed"} = {"natural", "turbo", "power", "speed"}
          /\ "natural" \in DOMAIN modes \ {"power", "speed"}
          /\ "turbo" \in DOMAIN modes \ {"power", "speed"}
      BY <2>2
    <3> QED
      BY <2>1, <2>2, <3>1, <3>2, MergedFacts
  <2>6. \A g \in Fields, w \in Bit : /\ W(g, w) \in Write
                                      /\ W(g, w).field = g /\ W(g, w).value = w
    BY DEF W, Write
  <2>7. /\ s \in Seq(Write) /\ Len(s) = 4 /\ s[1] = W("turbo", 0) /\ s[2] = W("power", 1)
        /\ s[3] = W("natural", 0) /\ s[4] = W("speed", v)
    BY <1>1, <2>1, <2>6 DEF Fields, Bit
  <2>8. /\ s[1].field = "turbo" /\ s[1].value = 0 /\ s[2].field = "power"
        /\ s[3].field = "natural" /\ s[3].value = 0 /\ s[4].field = "speed"
    BY <2>6, <2>7 DEF Fields, Bit
  <2>9. Guarded(s)
    BY <2>7, <2>8 DEF Guarded, SwitchesOn, Modes
  <2>10. LastSets(s, "turbo", 0)
    <3>1. \A j \in 2..4 : s[j].field # "turbo"
      BY <2>8
    <3> QED
      BY <2>7, <3>1 DEF LastSets
  <2>11. LastSets(s, "power", 1)
    <3>1. \A j \in 3..4 : s[j].field # "power"
      BY <2>8
    <3> QED
      BY <2>7, <3>1 DEF LastSets
  <2>12. LastSets(s, "natural", 0)
    <3>1. \A j \in 4..4 : s[j].field # "natural"
      BY <2>8
    <3> QED
      BY <2>7, <3>1 DEF LastSets
  <2>13. LastSets(s, "speed", v)
    BY <2>7 DEF LastSets
  <2>14. \A j \in 1..Len(s) : s[j].field \in DOMAIN d
    BY <2>5, <2>7, <2>8
  <2>15. Carries(s, d)
    BY <2>5, <2>10, <2>11, <2>12, <2>13, <2>14 DEF Carries
  <2> QED
    BY <2>5, <2>7, <2>9, <2>15 DEF s, d
<1>2. CASE f \in Modes /\ v = 1
  <2> DEFINE g == OtherMode(f)
             d == Merged(Claim({g}, 0), Claim({f}, v))
  <2>1. Writes(f, v) = <<W(g, 0), W(f, 1)>> /\ Claims(f, v) = d
    <3>1. /\ f = "natural" => Writes(f, v) = <<W("turbo", 0)>> \o <<W(f, 1)>>
          /\ f = "turbo" => Writes(f, v) = <<W("natural", 0)>> \o <<W(f, 1)>>
          /\ f = "natural" => Claims(f, v) = Merged(Claim({"turbo"}, 0), Claim({f}, v))
          /\ f = "turbo" => Claims(f, v) = Merged(Claim({"natural"}, 0), Claim({f}, v))
      BY <1>2 DEF Writes, Claims, When
    <3>2. <<W(g, 0)>> \o <<W(f, 1)>> = <<W(g, 0), W(f, 1)>>
      BY TupleJoin
    <3>3. (f = "natural" /\ g = "turbo") \/ (f = "turbo" /\ g = "natural")
      BY <1>2 DEF Modes, OtherMode
    <3> QED
      BY <3>1, <3>2, <3>3
  <2>2. g \in Fields /\ f \in Fields /\ g # f /\ Modes = {f, g} /\ 0 \in Bit
    BY <1>2 DEF OtherMode, Modes, Fields, Bit
  <2>3. d \in Partial /\ DOMAIN d = Modes /\ d[f] = 1 /\ d[g] = 0
    <3>1. /\ Claim({g}, 0) \in Partial /\ DOMAIN Claim({g}, 0) = {g} /\ Claim({g}, 0)[g] = 0
          /\ Claim({f}, v) \in Partial /\ DOMAIN Claim({f}, v) = {f} /\ Claim({f}, v)[f] = 1
      BY <1>2, <2>2, ClaimFacts
    <3>2. {g} \cup {f} = Modes /\ g \in {g} \ {f}
      BY <2>2
    <3>3. ASSUME NEW a \in Partial, NEW b \in Partial, DOMAIN a = {g}, DOMAIN b = {f},
                 a[g] = 0, b[f] = 1
          PROVE  /\ Merged(a, b) \in Partial /\ DOMAIN Merged(a, b) = Modes
                 /\ Merged(a, b)[f] = 1 /\ Merged(a, b)[g] = 0
      <4> HIDE DEF g
      <4>1. /\ Merged(a, b) \in Partial /\ DOMAIN Merged(a, b) = DOMAIN a \cup DOMAIN b
            /\ \A h \in DOMAIN b : Merged(a, b)[h] = b[h]
            /\ \A h \in DOMAIN a \ DOMAIN b : Merged(a, b)[h] = a[h]
        BY MergedFacts
      <4>2. f \in DOMAIN b /\ g \in DOMAIN a \ DOMAIN b
        BY <3>2, <3>3
      <4> QED
        BY <3>2, <3>3, <4>1, <4>2
    <3> QED
      BY <3>1, <3>3
  <2> QED
    BY <1>2, <2>1, <2>3, TwoWrites
<1>3. CASE f \in Modes /\ v = 0
  <2>1. Writes(f, v) = <<>> \o <<W(f, v)>> /\ Claims(f, v) = Merged(Empty, Claim({f}, v))
    BY <1>3 DEF Writes, Claims, When, Modes
  <2>2. Fine(<<>>, Empty) /\ Fine(<<W(f, v)>>, Claim({f}, v))
    BY <1>3, NothingCarried, OneWrite
  <2>3. Fine(<<>> \o <<W(f, v)>>, Merged(Empty, Claim({f}, v)))
    <3> DEFINE s == <<>>
               t == <<W(f, v)>>
               d == Claim({f}, v)
    <3> HIDE DEF s, t, d
    <3>1. Fine(s, Empty) /\ Fine(t, d)
      BY <2>2 DEF s, t, d
    <3> QED
      BY <3>1, Joined, MergedFacts DEF s, t, d
  <2> QED
    BY <2>1, <2>3
<1>4. CASE f = "power"
  <2> DEFINE s == Writes(f, v)
             d == Claims(f, v)
             modes == Claim({"natural", "turbo"}, 0)
             own == Claim({f}, v)
  <2>1. s = <<W("turbo", 0), W("natural", 0), W(f, v)>> /\ d = Merged(modes, own)
    BY <1>4 DEF Writes, Claims
  <2>2. /\ modes \in Partial /\ DOMAIN modes = {"natural", "turbo"}
        /\ modes["natural"] = 0 /\ modes["turbo"] = 0
    <3>1. {"natural", "turbo"} \in SUBSET Fields /\ 0 \in Bit
      BY DEF Fields, Bit
    <3> QED
      BY <3>1, ClaimFacts
  <2>3. own \in Partial /\ DOMAIN own = {"power"} /\ own["power"] = v
    BY <1>4, ClaimFacts
  <2> HIDE DEF s, d, modes, own
  <2>4. /\ d \in Partial /\ DOMAIN d = {"natural", "turbo", "power"}
        /\ d["natural"] = 0 /\ d["turbo"] = 0 /\ d["power"] = v
    <3>1. /\ DOMAIN modes \cup DOMAIN own = {"natural", "turbo", "power"}
          /\ "natural" \in DOMAIN modes \ DOMAIN own
          /\ "turbo" \in DOMAIN modes \ DOMAIN own
      BY <2>2, <2>3
    <3>2. /\ d \in Partial /\ DOMAIN d = DOMAIN modes \cup DOMAIN own
          /\ \A g \in DOMAIN own : d[g] = own[g]
          /\ \A g \in DOMAIN modes \ DOMAIN own : d[g] = modes[g]
      BY <2>1, <2>2, <2>3, MergedFacts
    <3> QED
      BY <2>2, <2>3, <3>1, <3>2
  <2>5. \A g \in Fields, w \in Bit : /\ W(g, w) \in Write
                                      /\ W(g, w).field = g /\ W(g, w).value = w
    BY DEF W, Write
  <2>6. /\ s \in Seq(Write) /\ Len(s) = 3 /\ s[1] = W("turbo", 0)
        /\ s[2] = W("natural", 0) /\ s[3] = W("power", v)
    BY <1>4, <2>1, <2>5 DEF Fields, Bit
  <2>7. /\ s[1].field = "turbo" /\ s[1].value = 0
        /\ s[2].field = "natural" /\ s[2].value = 0 /\ s[3].field = "power"
    BY <2>5, <2>6 DEF Fields, Bit
  <2>8. Guarded(s)
    BY <2>6, <2>7 DEF Guarded, SwitchesOn, Modes
  <2>9. LastSets(s, "turbo", 0)
    <3>1. \A j \in 2..3 : s[j].field # "turbo"
      BY <2>7
    <3> QED
      BY <2>6, <3>1 DEF LastSets
  <2>10. LastSets(s, "natural", 0)
    <3>1. \A j \in 3..3 : s[j].field # "natural"
      BY <2>7
    <3> QED
      BY <2>6, <3>1 DEF LastSets
  <2>11. LastSets(s, "power", v)
    BY <2>6 DEF LastSets
  <2>12. \A j \in 1..Len(s) : s[j].field \in DOMAIN d
    BY <2>4, <2>6, <2>7
  <2>13. Carries(s, d)
    BY <2>4, <2>9, <2>10, <2>11, <2>12 DEF Carries
  <2> QED
    BY <2>4, <2>6, <2>8, <2>13 DEF s, d
<1>5. CASE f = "setting"
  <2>1. Writes(f, v) = <<W(f, v)>> /\ Claims(f, v) = Claim({f}, v)
    BY <1>5 DEF Writes, Claims
  <2> QED
    BY <1>5, <2>1, OneWrite DEF Modes
<1> QED
  BY <1>1, <1>2, <1>3, <1>4, <1>5 DEF Fields, Modes, Bit

\* The writes of a whole body, and what the cached state will say of it.
LEMMA BodyCarried ==
    ASSUME NEW body \in Partial
    PROVE  /\ AllWrites(body) \in Seq(Write) /\ Guarded(AllWrites(body))
           /\ AllClaims(body) \in Partial /\ Carries(AllWrites(body), AllClaims(body))
<1> DEFINE Fine(s, d) == s \in Seq(Write) /\ Guarded(s) /\ d \in Partial /\ Carries(s, d)
<1>1. ASSUME NEW f \in Fields
      PROVE  Fine(WritesAsked(body, f), Promised(body, f))
  <2>1. CASE f \in DOMAIN body
    BY <2>1, PartialFacts, WritesCarried DEF WritesAsked, Promised, When
  <2>2. CASE f \notin DOMAIN body
    BY <2>2, NothingCarried DEF WritesAsked, Promised, When
  <2> QED
    BY <2>1, <2>2
<1>2. ASSUME NEW s, NEW t, NEW d, NEW e, Fine(s, d), Fine(t, e)
      PROVE  Fine(s \o t, Merged(d, e))
  BY <1>2, Joined, MergedFacts
<1>3. /\ Fine(WritesAsked(body, "speed"), Promised(body, "speed"))
      /\ Fine(WritesAsked(body, "natural"), Promised(body, "natural"))
      /\ Fine(WritesAsked(body, "turbo"), Promised(body, "turbo"))
      /\ Fine(WritesAsked(body, "power"), Promised(body, "power"))
      /\ Fine(WritesAsked(body, "setting"), Promised(body, "setting"))
  BY <1>1 DEF Fields
<1> HIDE DEF Fine
<1>4. Fine(WritesAsked(body, "power") \o WritesAsked(body, "setting"),
           Merged(Promised(body, "power"), Promised(body, "setting")))
  BY <1>2, <1>3
<1>5. Fine(WritesAsked(body, "turbo") \o (WritesAsked(body, "power") \o WritesAsked(body, "setting")),
           Merged(Promised(body, "turbo"),
                  Merged(Promised(body, "power"), Promised(body, "setting"))))
  BY <1>2, <1>3, <1>4
<1>6. Fine(WritesAsked(body, "natural") \o (WritesAsked(body, "turbo")
               \o (WritesAsked(body, "power") \o WritesAsked(body, "setting"))),
           Merged(Promised(body, "natural"), Merged(Promised(body, "turbo"),
                  Merged(Promised(body, "power"), Promised(body, "setting")))))
  BY <1>2, <1>3, <1>5
<1>7. Fine(AllWrites(body), AllClaims(body))
  BY <1>2, <1>3, <1>6 DEF AllWrites, AllClaims
<1> QED
  BY <1>7 DEF Fine

(***************************************************************************)
(* The inductive invariant of a PATCH and a refresh                        *)
(***************************************************************************)
\* A write that would switch a mode on finds the other one off.
RestGuarded ==
    \A i \in 1..Len(todo) : SwitchesOn(todo[i]) =>
        IF i = 1 THEN fan[OtherMode(todo[1].field)] = 0
        ELSE todo[i - 1] = W(OtherMode(todo[i].field), 0)

\* What is claimed is in the fan already, or a write that is left puts it there.
ClaimsKept ==
    \A f \in DOMAIN claims : \/ LastSets(todo, f, claims[f])
                             \/ Untouched(todo, f) /\ fan[f] = claims[f]

\* _op_lock: a PATCH and a refresh have nothing in hand but their own work,
\* and what a refresh has read is still so, as far as a PATCH set it.
InHand ==
    /\ pc # "writing" => todo = <<>> /\ claims = Empty
    /\ pc # "reading" => got = Empty /\ left = <<>>
    /\ \A f \in DOMAIN got \cap synced : got[f] = fan[f]

\* Nobody but the router has switched the fan.
Alone == changes = 0 => ModesExclusive /\ RestGuarded /\ ClaimsKept

CommandInv == CommandTypeOK /\ InHand /\ AcceptedIsShown /\ Alone

\* The first of the writes that are left.
LEMMA HeadFacts ==
    ASSUME CommandTypeOK, todo # <<>>
    PROVE  /\ Head(todo) \in Write /\ Head(todo).field \in Fields /\ Head(todo).value \in Bit
           /\ Head(todo) = todo[1] /\ Len(todo) \in Nat /\ Len(todo) > 0
           /\ Tail(todo) \in Seq(Write) /\ Len(Tail(todo)) = Len(todo) - 1
           /\ \A i \in 1..Len(Tail(todo)) : Tail(todo)[i] = todo[i + 1]
<1>1. todo \in Seq(Write)
  BY DEF CommandTypeOK
<1>2. /\ Head(todo) \in Write /\ Head(todo) = todo[1] /\ Len(todo) \in Nat /\ Len(todo) > 0
      /\ Tail(todo) \in Seq(Write) /\ Len(Tail(todo)) = Len(todo) - 1
      /\ \A i \in 1..Len(Tail(todo)) : Tail(todo)[i] = todo[i + 1]
  BY <1>1
<1> QED
  BY <1>2 DEF Write

\* A write of the fan.
LEMMA TakenFacts ==
    ASSUME CommandTypeOK, NEW w \in Write, Taken(w)
    PROVE  /\ fan' \in [Fields -> Bit] /\ synced' \subseteq Fields
           /\ fan'[w.field] = w.value
           /\ \A g \in Fields \ {w.field} : fan'[g] = fan[g]
           /\ synced' = synced \ {w.field}
  BY DEF CommandTypeOK, Taken, Write

\* A write leaves what is shown, or was read, of the other fields in agreement.
LEMMA TakenAgrees ==
    ASSUME CommandTypeOK, NEW w \in Write, Taken(w), NEW d,
           \A f \in DOMAIN d \cap synced : d[f] = fan[f]
    PROVE  \A f \in DOMAIN d \cap synced' : d[f] = fan'[f]
<1>1. synced \subseteq Fields
  BY DEF CommandTypeOK
<1> QED
  BY <1>1, TakenFacts

\* With nothing left to write, nothing is guarded and nothing claimed.
LEMMA NothingInHand ==
    ASSUME todo' = <<>>, claims' = Empty
    PROVE  RestGuarded' /\ ClaimsKept'
  BY EmptyFacts DEF RestGuarded, ClaimsKept

\* The write of the head of `todo` keeps the two modes exclusive.
LEMMA WriteKeepsExclusive ==
    ASSUME CommandTypeOK, todo # <<>>, Taken(Head(todo)), RestGuarded,
           ~(fan["natural"] = 1 /\ fan["turbo"] = 1)
    PROVE  ~(fan'["natural"] = 1 /\ fan'["turbo"] = 1)
<1> DEFINE w == Head(todo)
<1>1. w \in Write /\ w.field \in Fields /\ w.value \in Bit /\ w = todo[1] /\ 1 \in 1..Len(todo)
  BY HeadFacts
<1>2. SwitchesOn(w) => fan[OtherMode(w.field)] = 0
  BY <1>1 DEF RestGuarded
<1>3. fan'[w.field] = w.value /\ \A g \in Fields \ {w.field} : fan'[g] = fan[g]
  BY <1>1, TakenFacts
<1> HIDE DEF w
<1>4. CASE w.field = "natural"
  BY <1>1, <1>2, <1>3, <1>4 DEF SwitchesOn, OtherMode, Modes, Fields, Bit
<1>5. CASE w.field = "turbo"
  BY <1>1, <1>2, <1>3, <1>5 DEF SwitchesOn, OtherMode, Modes, Fields, Bit
<1>6. CASE w.field \notin {"natural", "turbo"}
  BY <1>3, <1>6 DEF Fields
<1> QED
  BY <1>4, <1>5, <1>6

\* A step of the writes leaves the rest guarded and the claims to be kept.
LEMMA WriteKeepsRest ==
    ASSUME CommandTypeOK, todo # <<>>, Taken(Head(todo)), RestGuarded, ClaimsKept,
           claims \in Partial, todo' = Tail(todo), claims' = claims
    PROVE  RestGuarded' /\ ClaimsKept'
<1> DEFINE w == Head(todo)
           t == Tail(todo)
<1>1. /\ w \in Write /\ w.field \in Fields /\ w.value \in Bit /\ w = todo[1]
      /\ Len(todo) \in Nat /\ Len(todo) > 0 /\ Len(t) = Len(todo) - 1
      /\ \A i \in 1..Len(t) : t[i] = todo[i + 1]
  BY HeadFacts
<1>2. fan'[w.field] = w.value /\ \A g \in Fields \ {w.field} : fan'[g] = fan[g]
  BY <1>1, TakenFacts
<1>3. todo' = t
  OBVIOUS
<1> HIDE DEF w, t
<1>4. RestGuarded'
  <2> SUFFICES ASSUME NEW i \in 1..Len(t), SwitchesOn(t[i])
               PROVE  IF i = 1 THEN fan'[OtherMode(t[1].field)] = 0
                      ELSE t[i - 1] = W(OtherMode(t[i].field), 0)
    BY <1>3 DEF RestGuarded
  <2>1. i + 1 \in 1..Len(todo) /\ i + 1 # 1 /\ t[i] = todo[i + 1]
    BY <1>1
  <2>2. todo[i] = W(OtherMode(t[i].field), 0)
    BY <2>1 DEF RestGuarded
  <2>3. CASE i = 1
    <3>1. w = W(OtherMode(t[1].field), 0)
      BY <1>1, <2>2, <2>3
    <3>2. w.field = OtherMode(t[1].field) /\ w.value = 0
      BY <3>1 DEF W
    <3> QED
      BY <1>2, <2>3, <3>2
  <2>4. CASE i # 1
    <3>1. i - 1 \in 1..Len(t) /\ t[i - 1] = todo[i]
      BY <1>1, <2>4
    <3> QED
      BY <2>2, <2>4, <3>1
  <2> QED
    BY <2>3, <2>4
<1>5. ClaimsKept'
  <2> SUFFICES ASSUME NEW f \in DOMAIN claims
               PROVE  \/ LastSets(t, f, claims[f])
                      \/ Untouched(t, f) /\ fan'[f] = claims[f]
    BY <1>3 DEF ClaimsKept
  <2>0. f \in Fields
    BY PartialFacts
  <2>1. CASE LastSets(todo, f, claims[f])
    <3>1. PICK i \in 1..Len(todo) : /\ todo[i] = W(f, claims[f])
                                    /\ \A j \in (i + 1)..Len(todo) : todo[j].field # f
      BY <2>1 DEF LastSets
    <3>2. CASE i = 1
      <4>1. w.field = f /\ w.value = claims[f]
        BY <1>1, <3>1, <3>2 DEF W
      <4>2. Untouched(t, f)
        <5> SUFFICES ASSUME NEW j \in 1..Len(t)
                     PROVE  t[j].field # f
          BY DEF Untouched
        <5>1. j + 1 \in (i + 1)..Len(todo)
          BY <1>1, <3>2
        <5> QED
          BY <1>1, <3>1, <5>1
      <4> QED
        BY <1>2, <4>1, <4>2
    <3>3. CASE i # 1
      <4>1. i - 1 \in 1..Len(t) /\ t[i - 1] = todo[i]
        BY <1>1, <3>3
      <4>2. ASSUME NEW j \in ((i - 1) + 1)..Len(t)
            PROVE  t[j].field # f
        <5>1. j + 1 \in (i + 1)..Len(todo) /\ j \in 1..Len(t)
          BY <1>1
        <5> QED
          BY <1>1, <3>1, <5>1
      <4> QED
        BY <3>1, <4>1, <4>2 DEF LastSets
    <3> QED
      BY <3>2, <3>3
  <2>2. CASE Untouched(todo, f) /\ fan[f] = claims[f]
    <3>1. w.field # f
      BY <1>1, <2>2 DEF Untouched
    <3>2. Untouched(t, f)
      <4> SUFFICES ASSUME NEW j \in 1..Len(t)
                   PROVE  t[j].field # f
        BY DEF Untouched
      <4>1. j + 1 \in 1..Len(todo)
        BY <1>1
      <4> QED
        BY <1>1, <2>2, <4>1 DEF Untouched
    <3> QED
      BY <1>2, <2>0, <2>2, <3>1, <3>2
  <2> QED
    BY <2>1, <2>2 DEF ClaimsKept
<1> QED
  BY <1>4, <1>5

\* The link is lost, or a write fails: the rest of the work is given up.
LEMMA GivenUp ==
    ASSUME CommandInv, pc' = "idle", todo' = <<>>, claims' = Empty, left' = <<>>, got' = Empty,
           shown' = shown, updated' = updated, changes' = changes, Failure,
           cycle' \in 0..SettingsEvery, force' \in BOOLEAN,
           \/ UNCHANGED <<fan, synced>>
           \/ pc = "writing" /\ todo # <<>> /\ Taken(Head(todo))
    PROVE  CommandInv'
<1>1. CommandTypeOK /\ InHand /\ AcceptedIsShown /\ Alone
  BY DEF CommandInv
<1>2. /\ fan' \in [Fields -> Bit] /\ synced' \subseteq Fields
      /\ \A f \in DOMAIN shown \cap synced' : shown[f] = fan'[f]
  <2>1. CASE UNCHANGED <<fan, synced>>
    BY <1>1, <2>1 DEF CommandTypeOK, AcceptedIsShown
  <2>2. CASE pc = "writing" /\ todo # <<>> /\ Taken(Head(todo))
    <3>1. Head(todo) \in Write
      BY <1>1, <2>2, HeadFacts
    <3>2. \A f \in DOMAIN shown \cap synced : shown[f] = fan[f]
      BY <1>1 DEF AcceptedIsShown
    <3> QED
      BY <1>1, <2>2, <3>1, <3>2, TakenFacts, TakenAgrees
  <2> QED
    BY <2>1, <2>2
<1>3. CommandTypeOK'
  <2>1. <<>> \in Seq(Write) /\ <<>> \in Seq(Fields)
    OBVIOUS
  <2>2. todo' \in Seq(Write) /\ left' \in Seq(Fields)
    BY <2>1
  <2>3. changes' \in Nat /\ failures' \in Nat /\ changes' + failures' <= MaxDisturbances
    BY <1>1, CommandAssumption DEF CommandTypeOK, Failure, MayDisturb, CommandAssumption
  <2> QED
    BY <1>1, <1>2, <2>2, <2>3, EmptyFacts DEF CommandTypeOK
<1>4. InHand'
  BY EmptyFacts DEF InHand
<1>5. AcceptedIsShown'
  <2>1. synced' \subseteq DOMAIN shown
    BY <1>1, <1>2 DEF CommandTypeOK
  <2> QED
    BY <1>2, <2>1 DEF AcceptedIsShown
<1>6. Alone'
  <2> SUFFICES ASSUME changes = 0
               PROVE  ~(fan'["natural"] = 1 /\ fan'["turbo"] = 1)
    BY NothingInHand DEF Alone, ModesExclusive
  <2>1. RestGuarded /\ ~(fan["natural"] = 1 /\ fan["turbo"] = 1)
    BY <1>1 DEF Alone, ModesExclusive
  <2> QED
    BY <1>1, <2>1, WriteKeepsExclusive
<1> QED
  BY <1>3, <1>4, <1>5, <1>6 DEF CommandInv

\* The position in the refresh schedule.
LEMMA CycleStep ==
    ASSUME cycle \in 0..SettingsEvery
    PROVE  (cycle % SettingsEvery) + 1 \in 0..SettingsEvery
  BY CommandAssumption DEF CommandAssumption

\* What a refresh is to read.
LEMMA ReadsTyped == updated \in BOOLEAN /\ force \in BOOLEAN => Reads \in Seq(Fields)
<1>1. /\ <<"power", "speed", "natural">> \in Seq(Fields)
      /\ <<"turbo">> \in Seq(Fields) /\ <<"setting">> \in Seq(Fields) /\ <<>> \in Seq(Fields)
  BY DEF Fields
<1>2. \A c : When(c, <<"turbo">>) \in Seq(Fields) /\ When(c, <<"setting">>) \in Seq(Fields)
  BY <1>1 DEF When
<1>3. \A s, t \in Seq(Fields) : s \o t \in Seq(Fields)
  OBVIOUS
<1> QED
  BY <1>1, <1>2, <1>3 DEF Reads

\* Every step of a PATCH, a refresh, the link and the fan.
LEMMA CommandStep == CommandInv /\ [CommandNext]_commandVars => CommandInv'
<1> SUFFICES ASSUME CommandInv, [CommandNext]_commandVars
             PROVE  CommandInv'
  OBVIOUS
<1>0. CommandTypeOK /\ InHand /\ AcceptedIsShown /\ Alone
  BY DEF CommandInv
<1>a. /\ fan \in [Fields -> Bit] /\ shown \in [Fields -> 0..2] /\ synced \subseteq Fields
      /\ got \in Partial /\ claims \in Partial /\ left \in Seq(Fields) /\ todo \in Seq(Write)
      /\ cycle \in 0..SettingsEvery /\ changes \in Nat /\ failures \in Nat
      /\ updated \in BOOLEAN /\ force \in BOOLEAN
  BY <1>0 DEF CommandTypeOK
<1>1. ASSUME NEW body \in Bodies, PatchBegins(body)
      PROVE  CommandInv'
  <2>1. body \in Partial
    BY DEF Bodies
  <2>2. /\ todo' \in Seq(Write) /\ Guarded(todo') /\ claims' \in Partial /\ Carries(todo', claims')
    BY <1>1, <2>1, BodyCarried DEF PatchBegins
  <2>3. CommandTypeOK' /\ InHand' /\ AcceptedIsShown'
    BY <1>0, <1>1, <2>2
       DEF PatchBegins, CommandTypeOK, InHand, AcceptedIsShown, refreshVars
  <2>4. RestGuarded'
    BY <2>2 DEF Guarded, RestGuarded
  <2>5. ClaimsKept'
    BY <2>2 DEF Carries, ClaimsKept
  <2>6. Alone'
    BY <1>0, <1>1, <2>4, <2>5 DEF PatchBegins, Alone, ModesExclusive
  <2> QED
    BY <2>3, <2>6 DEF CommandInv
<1>2. CASE WriteNext
  <2>1. /\ pc = "writing" /\ todo # <<>> /\ Taken(Head(todo)) /\ todo' = Tail(todo)
        /\ force' = (force \/ Head(todo).field = "setting")
        /\ UNCHANGED <<shown, pc, claims, left, got, cycle, updated, changes, failures>>
    BY <1>2 DEF WriteNext, refreshVars
  <2>2. Head(todo) \in Write /\ Tail(todo) \in Seq(Write)
    BY <1>0, <2>1, HeadFacts
  <2>3. /\ fan' \in [Fields -> Bit] /\ synced' \subseteq Fields
        /\ force' \in BOOLEAN
    BY <1>0, <2>1, <2>2, TakenFacts
  <2>4. CommandTypeOK'
    BY <1>0, <2>1, <2>2, <2>3 DEF CommandTypeOK
  <2>5. InHand'
    BY <1>0, <2>1, EmptyFacts DEF InHand
  <2>6. AcceptedIsShown'
    <3>1. \A f \in DOMAIN shown \cap synced : shown[f] = fan[f]
      BY <1>0 DEF AcceptedIsShown
    <3>2. \A f \in DOMAIN shown \cap synced' : shown[f] = fan'[f]
      BY <1>0, <2>1, <2>2, <3>1, TakenAgrees
    <3> QED
      BY <1>a, <2>1, <2>3, <3>2 DEF AcceptedIsShown
  <2>7. Alone'
    <3> SUFFICES ASSUME changes = 0
                 PROVE  ModesExclusive' /\ RestGuarded' /\ ClaimsKept'
      BY <2>1 DEF Alone
    <3>1. RestGuarded /\ ClaimsKept /\ ~(fan["natural"] = 1 /\ fan["turbo"] = 1)
      BY <1>0 DEF Alone, ModesExclusive
    <3> QED
      BY <1>0, <1>a, <2>1, <3>1, WriteKeepsExclusive, WriteKeepsRest DEF ModesExclusive
  <2> QED
    BY <2>4, <2>5, <2>6, <2>7 DEF CommandInv
<1>3. CASE PatchDone
  <2>1. /\ pc = "writing" /\ todo = <<>> /\ shown' = Updated(shown, claims)
        /\ synced' = IF changes = 0 THEN synced \cup DOMAIN claims ELSE {}
        /\ pc' = "idle" /\ claims' = Empty
        /\ UNCHANGED <<fan, todo, left, got, cycle, updated, force, changes, failures>>
    BY <1>3 DEF PatchDone, refreshVars
  <2>2. DOMAIN claims \subseteq Fields /\ \A f \in DOMAIN claims : claims[f] \in Bit
    BY <1>a, PartialFacts
  <2>3. /\ shown' \in [Fields -> 0..2]
        /\ \A f \in DOMAIN claims : shown'[f] = claims[f]
        /\ \A f \in Fields \ DOMAIN claims : shown'[f] = shown[f]
    BY <1>a, <2>1, <2>2 DEF Updated, Bit
  <2>4. CommandTypeOK'
    BY <1>0, <2>1, <2>2, <2>3, EmptyFacts DEF CommandTypeOK
  <2>5. InHand'
    BY <1>0, <2>1, EmptyFacts DEF InHand
  <2>6. AcceptedIsShown'
    <3> SUFFICES ASSUME NEW f \in synced'
                 PROVE  shown'[f] = fan[f]
      BY <2>1 DEF AcceptedIsShown
    <3>1. changes = 0 /\ f \in Fields
      BY <1>a, <2>1, <2>2
    <3>2. CASE f \in DOMAIN claims
      <4>1. ~LastSets(todo, f, claims[f])
        BY <2>1 DEF LastSets
      <4>2. fan[f] = claims[f]
        BY <1>0, <3>1, <3>2, <4>1 DEF Alone, ClaimsKept
      <4> QED
        BY <2>3, <3>2, <4>2
    <3>3. CASE f \notin DOMAIN claims
      BY <1>0, <2>1, <2>3, <3>1, <3>3 DEF AcceptedIsShown
    <3> QED
      BY <3>2, <3>3
  <2>7. Alone'
    <3>1. todo' = <<>>
      BY <2>1
    <3> QED
      BY <1>0, <2>1, <3>1, NothingInHand DEF Alone, ModesExclusive
  <2> QED
    BY <2>4, <2>5, <2>6, <2>7 DEF CommandInv
<1>4. CASE PatchFails
  <2>1. left = <<>> /\ got = Empty
    BY <1>0, <1>4 DEF PatchFails, InHand
  <2> QED
    BY <1>4, <1>a, <2>1, GivenUp DEF PatchFails, refreshVars
<1>5. CASE RefreshBegins
  <2>1. /\ pc = "idle" /\ pc' = "reading" /\ cycle' = (cycle % SettingsEvery) + 1 /\ left' = Reads
        /\ force' = (force /\ ~ReadsSettings)
        /\ UNCHANGED <<fan, shown, todo, claims, got, updated, synced, changes, failures>>
    BY <1>5 DEF RefreshBegins, patchVars
  <2>2. left' \in Seq(Fields) /\ cycle' \in 0..SettingsEvery /\ force' \in BOOLEAN
    BY <1>a, <2>1, ReadsTyped, CycleStep
  <2>3. CommandTypeOK'
    BY <1>0, <2>1, <2>2 DEF CommandTypeOK
  <2>4. InHand' /\ AcceptedIsShown'
    BY <1>0, <2>1 DEF InHand, AcceptedIsShown
  <2>5. Alone'
    BY <1>0, <2>1 DEF Alone, ModesExclusive, RestGuarded, ClaimsKept
  <2> QED
    BY <2>3, <2>4, <2>5 DEF CommandInv
<1>6. CASE ReadNext
  <2> DEFINE f == Head(left)
             read == Claim({f}, fan[f])
  <2>1. /\ pc = "reading" /\ left # <<>> /\ left' = Tail(left)
        /\ \/ got' = Merged(got, read) /\ UNCHANGED failures
           \/ Failure /\ UNCHANGED got
        /\ UNCHANGED <<fan, shown, pc, todo, claims, cycle, updated, force, synced, changes>>
    BY <1>6 DEF ReadNext, patchVars
  <2>2. f \in Fields /\ Tail(left) \in Seq(Fields) /\ fan[f] \in Bit
    BY <1>a, <2>1
  <2> HIDE DEF f
  <2>3. read \in Partial /\ DOMAIN read = {f} /\ read[f] = fan[f]
    BY <2>2, ClaimFacts
  <2> HIDE DEF read
  <2>4. /\ Merged(got, read) \in Partial /\ DOMAIN Merged(got, read) = DOMAIN got \cup DOMAIN read
        /\ \A g \in DOMAIN read : Merged(got, read)[g] = read[g]
        /\ \A g \in DOMAIN got \ DOMAIN read : Merged(got, read)[g] = got[g]
    BY <1>a, <2>3, MergedFacts
  <2>5. got' \in Partial /\ \A g \in DOMAIN got' \cap synced : got'[g] = fan[g]
    <3>1. \A g \in DOMAIN got \cap synced : got[g] = fan[g]
      BY <1>0 DEF InHand
    <3> QED
      BY <1>a, <2>1, <2>3, <2>4, <3>1
  <2>6. failures' \in Nat /\ changes + failures' <= MaxDisturbances
    BY <1>0, <2>1, CommandAssumption DEF CommandTypeOK, CommandAssumption, Failure, MayDisturb
  <2>7. CommandTypeOK'
    BY <1>0, <2>1, <2>2, <2>5, <2>6 DEF CommandTypeOK
  <2>8. InHand' /\ AcceptedIsShown'
    BY <1>0, <2>1, <2>5 DEF InHand, AcceptedIsShown
  <2>9. Alone'
    BY <1>0, <2>1 DEF Alone, ModesExclusive, RestGuarded, ClaimsKept
  <2> QED
    BY <2>7, <2>8, <2>9 DEF CommandInv
<1>7. CASE RefreshDone
  <2>1. /\ pc = "reading" /\ left = <<>> /\ shown' = Updated(shown, got)
        /\ updated' = (updated \/ got # Empty) /\ got' = Empty /\ pc' = "idle"
        /\ UNCHANGED <<fan, todo, claims, left, cycle, force, synced, changes, failures>>
    BY <1>7 DEF RefreshDone, patchVars
  <2>2. DOMAIN got \subseteq Fields /\ \A f \in DOMAIN got : got[f] \in Bit
    BY <1>a, PartialFacts
  <2>3. /\ shown' \in [Fields -> 0..2]
        /\ \A f \in DOMAIN got : shown'[f] = got[f]
        /\ \A f \in Fields \ DOMAIN got : shown'[f] = shown[f]
    BY <1>a, <2>1, <2>2 DEF Updated, Bit
  <2>4. CommandTypeOK'
    BY <1>0, <2>1, <2>3, EmptyFacts DEF CommandTypeOK
  <2>5. InHand'
    BY <1>0, <2>1, EmptyFacts DEF InHand
  <2>6. AcceptedIsShown'
    BY <1>0, <1>a, <2>1, <2>3 DEF InHand, AcceptedIsShown
  <2>7. Alone'
    BY <1>0, <2>1 DEF Alone, ModesExclusive, RestGuarded, ClaimsKept
  <2> QED
    BY <2>4, <2>5, <2>6, <2>7 DEF CommandInv
<1>8. CASE LinkRemade
  <2>1. 0 \in 0..SettingsEvery
    BY CommandAssumption DEF CommandAssumption
  <2> QED
    BY <1>8, <2>1, GivenUp DEF LinkRemade
<1>9. ASSUME NEW f \in Fields, FanChanges(f)
      PROVE  CommandInv'
  <2> DEFINE touched == {f} \cup (IF f \in {"natural", "turbo"} /\ fan[f] = 0
                                  THEN {"natural", "turbo"} \ {f} ELSE {})
  <2>1. /\ MayDisturb /\ changes' = changes + 1 /\ synced' = {}
        /\ fan' = [g \in Fields |-> IF g = f THEN 1 - fan[f] ELSE IF g \in touched THEN 0 ELSE fan[g]]
        /\ UNCHANGED <<shown, pc, todo, claims, left, got, cycle, updated, force, failures>>
    BY <1>9 DEF FanChanges, patchVars, refreshVars
  <2> HIDE DEF touched
  <2>2. fan' \in [Fields -> Bit]
    BY <1>a, <2>1 DEF Bit
  <2>3. changes' \in Nat /\ changes' # 0 /\ changes' + failures <= MaxDisturbances
    BY <1>a, <2>1, CommandAssumption DEF MayDisturb, CommandAssumption
  <2>4. CommandTypeOK'
    BY <1>0, <2>1, <2>2, <2>3 DEF CommandTypeOK
  <2> QED
    BY <1>0, <2>1, <2>3, <2>4 DEF CommandInv, InHand, AcceptedIsShown, Alone
<1>10. CASE UNCHANGED commandVars
  BY <1>0, <1>10 DEF commandVars, patchVars, refreshVars, CommandInv, CommandTypeOK, InHand,
                     AcceptedIsShown, Alone, ModesExclusive, RestGuarded, ClaimsKept
<1> QED
  BY <1>1, <1>2, <1>3, <1>4, <1>5, <1>6, <1>7, <1>8, <1>9, <1>10
     DEF CommandNext, WriteStep, RefreshStep

LEMMA CommandInitially == CommandInit => CommandInv
<1> SUFFICES ASSUME CommandInit PROVE CommandInv
  OBVIOUS
<1>1. todo = <<>> /\ claims = Empty /\ left = <<>> /\ got = Empty /\ synced = {}
  BY DEF CommandInit
<1>2. todo \in Seq(Write) /\ left \in Seq(Fields)
  BY <1>1
<1>3. CommandTypeOK
  <2>1. fan \in [Fields -> Bit] /\ shown \in [Fields -> 0..2]
    BY DEF CommandInit
  <2>2. /\ cycle \in 0..SettingsEvery /\ changes \in Nat /\ failures \in Nat
        /\ changes + failures <= MaxDisturbances
    BY CommandAssumption DEF CommandInit, CommandAssumption
  <2>3. pc = "idle" /\ force = FALSE /\ updated = FALSE
    BY DEF CommandInit
  <2> QED
    BY <1>1, <1>2, <2>1, <2>2, <2>3, EmptyFacts DEF CommandTypeOK
<1>4. RestGuarded /\ ClaimsKept
  BY <1>1, EmptyFacts DEF RestGuarded, ClaimsKept
<1> QED
  BY <1>1, <1>3, <1>4, EmptyFacts
     DEF CommandInit, CommandInv, InHand, AcceptedIsShown, Alone, ModesExclusive

\* Cached state, writes that are left and the schedule are well typed.
THEOREM CommandTyped == CommandSpec => []CommandTypeOK
<1>1. CommandInv => CommandTypeOK
  BY DEF CommandInv
<1> QED
  BY <1>1, CommandInitially, CommandStep, PTL DEF CommandSpec

\* Between any two writes of any PATCH, and after any of them failed, the
\* fan is in natural wind or in Turbo, never both.
THEOREM NeverBothModes == CommandSpec => []ModesExclusive
<1>1. CommandInv => ModesExclusive
  BY DEF CommandInv, Alone, CommandTypeOK, ModesExclusive
<1> QED
  BY <1>1, CommandInitially, CommandStep, PTL DEF CommandSpec

\* What a PATCH that succeeded shows is what the fan does.
THEOREM ShowsWhatItDid == CommandSpec => []AcceptedIsShown
<1>1. CommandInv => AcceptedIsShown
  BY DEF CommandInv
<1> QED
  BY <1>1, CommandInitially, CommandStep, PTL DEF CommandSpec
=============================================================================
