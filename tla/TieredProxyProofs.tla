-------------------------- MODULE TieredProxyProofs --------------------------
(* A working node is left only for one that answered twice in a row, and   *)
(* traffic never passes through another node on the way, for any nodes,    *)
(* speeds, processes and faults.                                           *)
EXTENDS TieredProxy, WellFoundedInduction, TLAPS

-----------------------------------------------------------------------------
(* Minima of sets of naturals.                                              *)

LEMMA SmallestExists ==
    ASSUME NEW S, S \subseteq Nat, S # {}
    PROVE  \E x \in S : \A y \in S : x <= y
<1> DEFINE R == {ss \in Nat \X Nat : ss[1] < ss[2]}
<1>1. IsWellFoundedOn(R, Nat)
  BY NatLessThanWellFounded DEF OpToRel
<1> HIDE DEF R
<1>2. PICK x \in S : \A y \in S : ~ (<<y, x>> \in R)
  BY <1>1, WFMin
<1>3. ASSUME NEW y \in S PROVE x <= y
  <2>1. x \in Nat /\ y \in Nat
    OBVIOUS
  <2>2. CASE y < x
    <3>1. <<y, x>> \in Nat \X Nat
      BY <2>1
    <3>2. <<y, x>>[1] < <<y, x>>[2]
      BY <2>2
    <3>3. <<y, x>> \in R
      BY <3>1, <3>2, Zenon DEF R
    <3> QED
      BY <1>2, <3>3
  <2> QED
    BY <2>1, <2>2
<1> QED
  BY <1>3

LEMMA MinIs ==
    ASSUME NEW S, S \subseteq Nat, S # {}
    PROVE  Min(S) \in S /\ \A y \in S : Min(S) <= y
  BY SmallestExists DEF Min

-----------------------------------------------------------------------------
(* The choice of a round.                                                   *)

\* The cheapest and quickest node is one of those that answered.
LEMMA CandidatePassed ==
    ASSUME NEW passed \in SUBSET Nodes, passed # {}, NEW delay \in [passed -> Nat]
    PROVE  Candidate(passed, delay) \in passed
<1> USE TiersAssumption DEF TiersAssumption
<1> DEFINE cheap == {n \in passed : \A m \in passed : Cost[n] <= Cost[m]}
           quick == {n \in cheap : \A m \in cheap : delay[n] <= delay[m]}
           delays == {delay[n] : n \in cheap}
<1>1. Min(passed) \in cheap
  BY MinIs
<1>2. delays \subseteq Nat /\ delays # {}
  BY <1>1
<1>3. PICK d \in delays : \A e \in delays : d <= e
  BY <1>2, SmallestExists
<1>4. PICK n \in cheap : d = delay[n]
  BY <1>3
<1>5. n \in quick
  BY <1>3, <1>4
<1>6. quick \subseteq Nat /\ quick # {}
  BY <1>5
<1>7. Min(quick) \in quick
  BY <1>6, MinIs
<1>8. Candidate(passed, delay) = Min(quick)
  BY DEF Candidate
<1> QED
  BY <1>7, <1>8

\* What select_node returns answered, and a selection that answered is left only
\* for a node that answered twice in a row.
LEMMA Selected ==
    ASSUME NEW passed \in SUBSET Nodes, passed # {}, NEW delay \in [passed -> Nat],
           NEW selected, NEW streaks
    PROVE  LET choice == SelectNode(passed, delay, selected, streaks)
           IN  /\ choice \in passed
               /\ selected \in passed /\ choice # selected => streaks[choice] >= 2
  BY CandidatePassed DEF SelectNode

\* A node has a streak if it answered, and a longer one than 1 if it had one.
LEMMA Streaks ==
    ASSUME NEW streaks \in [Nodes -> 0 .. StreakCap], NEW nodes, NEW passed
    PROVE  LET counted == Counted(streaks, nodes, passed)
           IN  /\ counted \in [Nodes -> 0 .. StreakCap]
               /\ \A n \in Nodes : counted[n] > 0 => n \in passed
               /\ \A n \in Nodes : counted[n] >= 2 => streaks[n] > 0
<1> USE TiersAssumption DEF TiersAssumption
<1>1. ASSUME NEW n \in Nodes
      PROVE  LET m == Min({streaks[n] + 1, StreakCap})
             IN  m \in 0 .. StreakCap /\ (m >= 2 => streaks[n] > 0)
  <2> DEFINE S == {streaks[n] + 1, StreakCap}
  <2>1. S \subseteq Nat /\ S # {}
    OBVIOUS
  <2>2. Min(S) \in S /\ \A y \in S : Min(S) <= y
    BY <2>1, MinIs
  <2> QED
    BY <2>2
<1> QED
  BY <1>1 DEF Counted
-----------------------------------------------------------------------------
(* Types.                                                                   *)

MemberFns == UNION {[Tiers(S) -> Nodes] : S \in SUBSET Nodes}
Running == [nodes : SUBSET Nodes, main : Tiers(Nodes), member : MemberFns]

\* A sing-box with tiers: every tier points to a node of its own.
Sound(b) ==
    /\ b \in Running
    /\ b.main \in Tiers(b.nodes)
    /\ b.member \in [Tiers(b.nodes) -> Nodes]
    /\ \A t \in Tiers(b.nodes) : b.member[t] \in b.nodes /\ Tier(b.member[t]) = t

\* A sing-box without tiers, or none.
Plain(b) == \E S \in SUBSET Nodes : b = Unpatched(S)

\* A configuration that finalize has seen starts with one of its nodes.
ConfigOK == config.initial # Null => config.initial \in config.nodes

\* Multipliers are positive, so that tiers are told apart from none.
LEMMA BoxKinds ==
    /\ Plain(Off)
    /\ \A b : Plain(b) => b.main = NoTier /\ b.nodes \subseteq Nodes
    /\ \A b : Sound(b) => b.main # NoTier /\ b.nodes \subseteq Nodes
<1> USE TiersAssumption DEF TiersAssumption
<1>1. Plain(Off)
  BY DEF Plain, Off
<1>2. ASSUME NEW b, Plain(b) PROVE b.main = NoTier /\ b.nodes \subseteq Nodes
  BY <1>2 DEF Plain, Unpatched
<1>3. NoTier \notin Tiers(Nodes)
  BY DEF Tiers, Tier, NoTier
<1>4. ASSUME NEW b, Sound(b) PROVE b.main # NoTier /\ b.nodes \subseteq Nodes
  BY <1>3, <1>4 DEF Sound, Running
<1> QED
  BY <1>1, <1>2, <1>4

LEMMA BoxTyped == TypeOK => Plain(box) \/ Sound(box)
<1> SUFFICES ASSUME TypeOK, ~ Plain(box) PROVE Sound(box)
  OBVIOUS
<1>1. box \in Running
  BY DEF TypeOK, BoxType, Running, MemberFns, Plain
<1>2. box.main # NoTier
  <2>1. box.main \in Tiers(Nodes) /\ \A n \in Nodes : Tier(n) # NoTier
    BY <1>1, TiersAssumption DEF Running, TiersAssumption, Tier, NoTier
  <2> QED
    BY <2>1 DEF Tiers
<1>3. /\ box.main \in Tiers(box.nodes) /\ DOMAIN box.member = Tiers(box.nodes)
      /\ \A t \in Tiers(box.nodes) : box.member[t] \in box.nodes /\ Tier(box.member[t]) = t
  BY <1>2 DEF TypeOK
<1>4. PICK S \in SUBSET Nodes : box.member \in [Tiers(S) -> Nodes]
  BY <1>1 DEF Running, MemberFns
<1>5. box.member \in [Tiers(box.nodes) -> Nodes]
  BY <1>3, <1>4
<1> QED
  BY <1>1, <1>3, <1>5 DEF Sound

LEMMA SoundTyped ==
    ASSUME NEW b, Sound(b)
    PROVE  b \in BoxType /\ DOMAIN b.member = Tiers(b.nodes)
  BY DEF Sound, BoxType, Running, MemberFns

\* sing-box starts sound from a configuration that finalize has seen, whatever
\* its cache file holds.
LEMMA StartedSound ==
    ASSUME NEW c, c.nodes \in SUBSET Nodes, c.initial \in c.nodes, NEW kept
    PROVE  Sound(Started(c, kept))
<1> USE TiersAssumption DEF TiersAssumption
<1> DEFINE T == Tiers(c.nodes)
           f == [t \in T |-> IF kept.member[t] \in Members(c.nodes, t) THEN kept.member[t]
                             ELSE IF t = Tier(c.initial) THEN c.initial
                             ELSE Min(Members(c.nodes, t))]
           m == IF kept.main \in T THEN kept.main ELSE Tier(c.initial)
<1>1. ASSUME NEW t \in T
      PROVE  f[t] \in c.nodes /\ Tier(f[t]) = t
  <2>1. CASE kept.member[t] \in Members(c.nodes, t)
    BY <2>1 DEF Members
  <2>2. CASE kept.member[t] \notin Members(c.nodes, t) /\ t = Tier(c.initial)
    BY <2>2
  <2>3. CASE kept.member[t] \notin Members(c.nodes, t) /\ t # Tier(c.initial)
    <3>1. Members(c.nodes, t) \subseteq Nat /\ Members(c.nodes, t) # {}
      BY DEF Tiers, Members
    <3>2. Min(Members(c.nodes, t)) \in Members(c.nodes, t)
      BY <3>1, MinIs
    <3>3. f[t] = Min(Members(c.nodes, t))
      BY <2>3
    <3> QED
      BY <3>2, <3>3 DEF Members
  <2> QED
    BY <2>1, <2>2, <2>3
<1>2. f \in [T -> Nodes]
  BY <1>1
<1>3. m \in T /\ T \subseteq Tiers(Nodes)
  BY DEF Tiers
<1>4. Started(c, kept) = [nodes |-> c.nodes, main |-> m, member |-> f]
  BY DEF Started, Null
<1>5. f \in MemberFns
  BY <1>2 DEF MemberFns
<1> HIDE DEF f, m
<1> QED
  BY <1>1, <1>2, <1>3, <1>4, <1>5 DEF Sound, Running

\* Both calls of a round leave it sound.
LEMMA MemberSetSound ==
    ASSUME Sound(box), NEW n \in box.nodes
    PROVE  LET b == MemberSet(box, n)
           IN  /\ Sound(b) /\ b.nodes = box.nodes /\ b.main = box.main
               /\ b.member = [box.member EXCEPT ![Tier(n)] = n] /\ b.member[Tier(n)] = n
<1>1. n \in Nodes /\ Tier(n) \in Tiers(box.nodes)
  BY DEF Sound, Running, Tiers
<1> DEFINE f == [box.member EXCEPT ![Tier(n)] = n]
<1>2. MemberSet(box, n) = [nodes |-> box.nodes, main |-> box.main, member |-> f]
  BY DEF MemberSet, Sound, Running
<1>3. f \in [Tiers(box.nodes) -> Nodes] /\ f[Tier(n)] = n
  BY <1>1 DEF Sound
<1>4. \A t \in Tiers(box.nodes) : f[t] \in box.nodes /\ Tier(f[t]) = t
  BY <1>1 DEF Sound
<1>5. f \in MemberFns
  BY <1>3 DEF Sound, Running, MemberFns
<1> HIDE DEF f
<1>6. Sound(MemberSet(box, n))
  BY <1>2, <1>3, <1>4, <1>5 DEF Sound, Running
<1> QED
  BY <1>2, <1>3, <1>6 DEF f

LEMMA MainSetSound ==
    ASSUME Sound(box), NEW n, Tier(n) \in Tiers(box.nodes)
    PROVE  LET b == MainSet(box, n)
           IN  Sound(b) /\ b.nodes = box.nodes /\ b.main = Tier(n) /\ b.member = box.member
<1>1. MainSet(box, n) = [nodes |-> box.nodes, main |-> Tier(n), member |-> box.member]
  BY DEF MainSet, Sound, Running
<1>2. Tier(n) \in Tiers(Nodes)
  BY DEF Sound, Running, Tiers
<1> QED
  BY <1>1, <1>2 DEF Sound, Running

\* The cache file keeps a selection of every tier at most.
LEMMA CacheSetTyped ==
    ASSUME cache \in CacheType, NEW n
    PROVE  /\ n \in Nodes => MemberSet(cache, n) \in CacheType
           /\ Tier(n) \in Tiers(Nodes) => MainSet(cache, n) \in CacheType
  BY DEF CacheType, MemberSet, MainSet

StateType == [selected : Nodes \cup {Null, Absent}, streaks : [Nodes -> 0 .. StreakCap]]

\* TypeOK in parts that few actions touch at a time.
GenOK ==
    /\ sub \in SUBSET Nodes /\ urltest \in SUBSET Nodes /\ pool \in SUBSET Nodes
    /\ config \in ConfigType /\ gen \in {"idle", "native", "finalize", "pool", "restart"}
    /\ due \in BOOLEAN /\ broken \in BOOLEAN
BoxOK == (Plain(box) \/ Sound(box)) /\ cache \in CacheType
RoundOK == round \in [Rounds -> RoundType]
RestOK ==
    /\ state \in StateType /\ speed \in [Nodes -> Speeds \cup {Down}] /\ lastPassed \in SUBSET Nodes
    /\ changes \in 0 .. MaxChanges /\ faults \in 0 .. MaxFaults

LEMMA TypeParts == TypeOK <=> GenOK /\ BoxOK /\ RoundOK /\ RestOK
<1>1. TypeOK => GenOK /\ BoxOK /\ RoundOK /\ RestOK
  BY BoxTyped DEF TypeOK, GenOK, BoxOK, RoundOK, RestOK, StateType
<1>2. BoxOK => /\ box \in BoxType
               /\ box.main # NoTier =>
                    /\ box.main \in Tiers(box.nodes) /\ DOMAIN box.member = Tiers(box.nodes)
                    /\ \A t \in Tiers(box.nodes) : box.member[t] \in box.nodes /\ Tier(box.member[t]) = t
  <2> SUFFICES ASSUME BoxOK
               PROVE  /\ box \in BoxType
                      /\ box.main # NoTier => Sound(box) /\ DOMAIN box.member = Tiers(box.nodes)
    BY DEF Sound
  <2>1. CASE Plain(box)
    BY <2>1, BoxKinds DEF Plain, BoxType
  <2>2. CASE Sound(box)
    BY <2>2, SoundTyped
  <2> QED
    BY <2>1, <2>2 DEF BoxOK
<1>3. GenOK /\ BoxOK /\ RoundOK /\ RestOK => TypeOK
  BY <1>2 DEF TypeOK, GenOK, BoxOK, RoundOK, RestOK, StateType
<1> QED
  BY <1>1, <1>3

LEMMA IdleTyped == Idle \in RoundType /\ Idle.pc = "idle" /\ NoState \in StateType
<1> USE TiersAssumption DEF TiersAssumption
<1>1. NoStreaks \in [Nodes -> 0 .. StreakCap]
  BY DEF NoStreaks
<1> QED
  BY <1>1 DEF Idle, NoState, RoundType, StateType, Null, Absent

\* The node that traffic goes through is one of sing-box's.
LEMMA NowTyped == BoxOK /\ box.main # NoTier => Now \in box.nodes /\ box.nodes \subseteq Nodes
  BY BoxKinds DEF BoxOK, Sound, Running, Now

LEMMA InitialTyped ==
    ASSUME NEW nodes \in SUBSET Nodes, nodes # {}
    PROVE  Initial(nodes) \in nodes
<1> USE TiersAssumption DEF TiersAssumption
<1>1. Min(nodes) \in nodes
  BY MinIs
<1> QED
  BY <1>1 DEF Initial

LEMMA InitTyped == Init => TypeOK /\ ConfigOK
<1> SUFFICES ASSUME Init PROVE TypeOK /\ ConfigOK
  OBVIOUS
<1> USE TiersAssumption DEF TiersAssumption
<1>1. Initial(Nodes) \in Nodes
  BY InitialTyped
<1>2. config \in ConfigType /\ config.nodes = Nodes /\ config.initial \in config.nodes
  BY <1>1 DEF Init, ConfigType
<1>3. BoxOK
  <2>1. Sound(Started(config, cache))
    BY <1>2, StartedSound
  <2>2. box = Started(config, cache) /\ cache = NoCache
    BY DEF Init
  <2>3. NoCache \in CacheType
    BY DEF NoCache, CacheType
  <2> QED
    BY <2>1, <2>2, <2>3 DEF BoxOK
<1>4. RoundOK
  BY IdleTyped DEF Init, RoundOK
<1>5. RestOK
  <2>1. speed \in [Nodes -> Speeds \cup {Down}]
    BY DEF Init
  <2>2. state \in StateType
    BY IdleTyped DEF Init
  <2> QED
    BY <2>1, <2>2 DEF Init, RestOK
<1>6. GenOK
  BY <1>2 DEF Init, GenOK
<1> QED
  BY <1>2, <1>3, <1>4, <1>5, <1>6, TypeParts DEF ConfigOK

LEMMA GenerationTyped == TypeOK /\ ConfigOK /\ Generation => TypeOK' /\ ConfigOK'
<1> SUFFICES ASSUME GenOK, BoxOK, RoundOK, RestOK, ConfigOK, Generation
             PROVE  GenOK' /\ BoxOK' /\ RoundOK' /\ RestOK' /\ ConfigOK'
  BY TypeParts, PTL
<1>1. CASE Prepare \/ PrepareFails
  BY <1>1 DEF Prepare, PrepareFails, GiveUp, genFrame, GenOK, BoxOK, RoundOK, RestOK, ConfigOK
<1>2. CASE NativeGenerate
  BY <1>2 DEF NativeGenerate, genFrame, GenOK, BoxOK, RoundOK, RestOK, ConfigOK, ConfigType
<1>3. CASE ReplaceConfig
  <2>1. Initial(sub) \in sub
    BY <1>3, InitialTyped DEF ReplaceConfig, GenOK
  <2>2. config' \in ConfigType /\ config'.initial \in config'.nodes
    BY <1>3, <2>1 DEF ReplaceConfig, GenOK, ConfigType
  <2> QED
    BY <1>3, <2>2 DEF ReplaceConfig, genFrame, GenOK, BoxOK, RoundOK, RestOK, ConfigOK
<1>4. CASE FinalizeFails
  BY <1>4 DEF FinalizeFails, GiveUp, genFrame, GenOK, BoxOK, RoundOK, RestOK, ConfigOK
<1>5. CASE WritePool
  BY <1>5 DEF WritePool, genFrame, GenOK, BoxOK, RoundOK, RestOK, ConfigOK, ConfigType
<1>6. CASE StopBox
  BY <1>6, BoxKinds DEF StopBox, GenOK, BoxOK, RoundOK, RestOK, ConfigOK
<1>7. CASE StartBox
  <2>1. PICK kept : box' = Started(config, kept)
    BY <1>7 DEF StartBox
  <2>2. Plain(box') \/ Sound(box')
    <3>1. CASE config.initial = Null
      BY <2>1, <3>1 DEF Started, Plain, GenOK, ConfigType
    <3>2. CASE config.initial # Null
      BY <2>1, <3>2, StartedSound DEF GenOK, ConfigOK, ConfigType
    <3> QED
      BY <3>1, <3>2
  <2>3. ASSUME NEW p \in Rounds
        PROVE  [round[p] EXCEPT !.sameBox = round[p].pc = "idle"] \in RoundType
    BY DEF RoundOK, RoundType
  <2>4. RoundOK'
    BY <1>7, <2>3 DEF StartBox, RoundOK
  <2> QED
    BY <1>7, <2>2, <2>4 DEF StartBox, GenOK, BoxOK, RestOK, ConfigOK, genVars
<1> QED
  BY <1>1, <1>2, <1>3, <1>4, <1>5, <1>6, <1>7 DEF Generation
\* What a round finds out is well typed, and what it chooses answered.
LEMMA Measured ==
    ASSUME TypeOK, NEW p \in Rounds, Measure(p)
    PROVE  /\ round'[p] \in RoundType /\ round' = [round EXCEPT ![p] = round'[p]]
           /\ round'[p].selected = round[p].selected /\ round'[p].sameBox = round[p].sameBox
           /\ round'[p].pc \in {"save", "member"}
           /\ \A n \in Nodes : round'[p].streaks[n] > 0 => n \in round'[p].passed
           /\ \A n \in Nodes : round'[p].streaks[n] >= 2 => round[p].streaks[n] > 0
           /\ round'[p].pc = "member" =>
                 /\ round'[p].choice \in round'[p].passed
                 /\ round'[p].selected \in round'[p].passed /\ round'[p].choice # round'[p].selected =>
                       round'[p].streaks[round'[p].choice] >= 2
<1> USE TiersAssumption DEF TiersAssumption
<1> DEFINE r == round[p]
           passed == {n \in r.nodes : Probed(n, r.nodes) # Down}
           streaks == Counted(r.streaks, r.nodes, passed)
<1>1. r \in RoundType /\ round \in [Rounds -> RoundType] /\ box.nodes \subseteq Nodes
  BY TypeParts, BoxKinds DEF RoundOK, BoxOK
<1>2. passed \in SUBSET Nodes /\ r.streaks \in [Nodes -> 0 .. StreakCap]
  BY <1>1 DEF RoundType
<1>3. ASSUME NEW n \in passed PROVE Probed(n, r.nodes) \in Nat
  <2> DEFINE there == {m \in box.nodes : Position(m, box.nodes) = Position(n, r.nodes)}
  <2>1. there # {}
    BY <1>3 DEF Probed
  <2>2. (CHOOSE m \in there : TRUE) \in Nodes
    BY <1>1, <2>1
  <2>3. Probed(n, r.nodes) = speed[CHOOSE m \in there : TRUE]
    BY <2>1 DEF Probed
  <2>4. Probed(n, r.nodes) \in Speeds \cup {Down}
    BY <2>2, <2>3, TypeParts DEF RestOK
  <2> QED
    BY <1>3, <2>4
<1>4. /\ streaks \in [Nodes -> 0 .. StreakCap]
      /\ \A n \in Nodes : streaks[n] > 0 => n \in passed
      /\ \A n \in Nodes : streaks[n] >= 2 => r.streaks[n] > 0
  BY <1>2, Streaks
<1>5. PICK delays \in Delays(r) :
        LET came == DOMAIN delays
            counted == Counted(r.streaks, r.nodes, came)
            chosen == SelectNode(came, delays, r.selected, counted)
        IN  round' = [round EXCEPT ![p] =
               [r EXCEPT !.streaks = counted, !.passed = came, !.choice = chosen,
                         !.pc = IF chosen = Null THEN "save" ELSE "member"]]
  BY DEF Measure
<1>6. delays \in [passed -> Nat]
  <2>1. PICK extra \in [passed -> {0, Jitter}] : delays = [n \in passed |-> Probed(n, r.nodes) + extra[n]]
    BY DEF Delays
  <2> QED
    BY <1>3, <2>1
<1> DEFINE choice == SelectNode(passed, delays, r.selected, streaks)
           new == [r EXCEPT !.streaks = streaks, !.passed = passed, !.choice = choice,
                            !.pc = IF choice = Null THEN "save" ELSE "member"]
<1>7. /\ passed # {} => /\ choice \in passed
                        /\ r.selected \in passed /\ choice # r.selected => streaks[choice] >= 2
      /\ passed = {} => choice = Null
  <2>1. CASE passed # {}
    <3> HIDE DEF passed, streaks
    <3> QED
      BY <1>2, <1>6, <2>1, Selected
  <2>2. CASE passed = {}
    BY <2>2 DEF SelectNode
  <2> QED
    BY <2>1, <2>2
<1>8. round' = [round EXCEPT ![p] = new]
  <2>1. DOMAIN delays = passed
    BY <1>6
  <2> QED
    BY <1>5, <2>1
<1> HIDE DEF choice, passed, streaks, r
<1>9. choice \in Nodes \cup {Null} /\ (choice # Null => choice \in passed)
  <2>1. CASE passed # {}
    <3>1. choice \in passed
      BY <1>7, <2>1
    <3> QED
      BY <1>2, <3>1
  <2>2. CASE passed = {}
    <3>1. choice = Null
      BY <1>7, <2>2
    <3> QED
      BY <3>1
  <2> QED
    BY <2>1, <2>2
<1>10. /\ new.pc = (IF choice = Null THEN "save" ELSE "member") /\ new.nodes = r.nodes
       /\ new.selected = r.selected /\ new.streaks = streaks /\ new.passed = passed
       /\ new.choice = choice /\ new.sameBox = r.sameBox
  BY <1>1 DEF RoundType
<1>11. new \in RoundType
  BY <1>1, <1>2, <1>4, <1>9 DEF RoundType
<1>12. round'[p] = new
  BY <1>1, <1>8
<1> HIDE DEF new
<1> QED
  BY <1>4, <1>7, <1>8, <1>9, <1>10, <1>11, <1>12 DEF r, Null
\* A call is accepted only by a sing-box with tiers.
LEMMA AcceptedSound ==
    ASSUME BoxOK, NEW p \in Rounds, Accepted(p)
    PROVE  /\ box.main # NoTier /\ Sound(box)
           /\ round[p].pc = "member" => round[p].choice \in box.nodes
           /\ round[p].pc = "main" => Tier(round[p].choice) \in Tiers(box.nodes)
  BY BoxKinds DEF Accepted, BoxOK

\* A call that is carried out leaves it sound.
LEMMA CarriedOutSound ==
    ASSUME BoxOK, NEW p \in Rounds, Accepted(p), CarriedOut(p)
    PROVE  BoxOK' /\ Sound(box')
<1>1. Sound(box) /\ cache \in CacheType /\ box.nodes \subseteq Nodes
  BY AcceptedSound, BoxKinds DEF BoxOK
<1>2. CASE round[p].pc = "member"
  <2>1. box' = MemberSet(box, round[p].choice) /\ cache' = MemberSet(cache, round[p].choice)
    BY <1>2 DEF CarriedOut
  <2>2. round[p].choice \in box.nodes
    BY <1>2, AcceptedSound
  <2> QED
    BY <1>1, <2>1, <2>2, MemberSetSound, CacheSetTyped DEF BoxOK
<1>3. CASE round[p].pc = "main"
  <2>1. box' = MainSet(box, round[p].choice) /\ cache' = MainSet(cache, round[p].choice)
    BY <1>3 DEF CarriedOut
  <2>2. Tier(round[p].choice) \in Tiers(box.nodes) /\ Tier(round[p].choice) \in Tiers(Nodes)
    BY <1>1, <1>3, AcceptedSound DEF Tiers
  <2> QED
    BY <1>1, <2>1, <2>2, MainSetSound, CacheSetTyped DEF BoxOK
<1> QED
  BY <1>2, <1>3 DEF Accepted

LEMMA RoundTyped ==
    ASSUME TypeOK, ConfigOK, NEW p \in Rounds, Begin(p) \/ RoundStep(p)
    PROVE  TypeOK' /\ ConfigOK'
<1>1. GenOK /\ BoxOK /\ RoundOK /\ RestOK
  BY TypeParts
<1>2. GenOK' /\ ConfigOK'
  BY <1>1 DEF RoundStep, Begin, Measure, PutMember, PutMain, PutRefused, Save, roundFrame, genVars, GenOK, ConfigOK
<1>3. BoxOK' /\ RoundOK' /\ RestOK'
  <2>1. CASE Begin(p)
    <3>1. Now \in pool => Now \in Nodes
      BY <1>1 DEF GenOK
    <3> DEFINE new == [Idle EXCEPT !.pc = "probe", !.nodes = pool, !.streaks = state.streaks,
                                   !.selected = IF Now \in pool THEN Now ELSE state.selected]
    <3>2. pool \in SUBSET Nodes /\ state.streaks \in [Nodes -> 0 .. StreakCap]
          /\ state.selected \in Nodes \cup {Null, Absent}
      BY <1>1 DEF GenOK, RestOK, StateType
    <3>3. new \in RoundType
      BY <3>1, <3>2, IdleTyped DEF RoundType
    <3>4. round' = [round EXCEPT ![p] = new]
      BY <2>1 DEF Begin
    <3> HIDE DEF new
    <3> QED
      BY <1>1, <2>1, <3>3, <3>4 DEF Begin, roundFrame, boxVars, BoxOK, RoundOK, RestOK
  <2>2. CASE Measure(p)
    BY <1>1, <2>2, Measured DEF Measure, roundFrame, boxVars, BoxOK, RoundOK, RestOK
  <2>3. CASE PutMember(p)
    <3>1. BoxOK'
      BY <1>1, <2>3, CarriedOutSound DEF PutMember
    <3>2. RoundOK'
      BY <1>1, <2>3 DEF PutMember, RoundOK, RoundType
    <3>3. RestOK'
      BY <1>1, <2>3 DEF PutMember, roundFrame, RestOK
    <3> QED
      BY <3>1, <3>2, <3>3
  <2>4. CASE PutMain(p)
    <3>1. BoxOK'
      BY <1>1, <2>4, CarriedOutSound DEF PutMain
    <3>2. RoundOK'
      BY <1>1, <2>4 DEF PutMain, RoundOK, RoundType
    <3> QED
      BY <1>1, <2>4, <3>1, <3>2 DEF PutMain, roundFrame, RestOK
  <2>5. CASE PutRefused(p)
    BY <1>1, <2>5, IdleTyped DEF PutRefused, roundFrame, boxVars, BoxOK, RoundOK, RestOK
  <2>6. CASE Save(p)
    <3>1. round[p] \in RoundType
      BY <1>1 DEF RoundOK
    <3>2. state' \in StateType /\ lastPassed' \in SUBSET Nodes
      BY <2>6, <3>1 DEF Save, StateType, RoundType
    <3> QED
      BY <1>1, <2>6, <3>2, IdleTyped DEF Save, roundFrame, boxVars, BoxOK, RoundOK, RestOK
  <2> QED
    BY <2>1, <2>2, <2>3, <2>4, <2>5, <2>6 DEF RoundStep
<1> QED
  BY <1>2, <1>3, TypeParts, PTL

LEMMA EnvironmentTyped ==
    ASSUME TypeOK, ConfigOK, Environment
    PROVE  TypeOK' /\ ConfigOK'
<1> USE TiersAssumption DEF TiersAssumption
<1>1. GenOK /\ BoxOK /\ RoundOK /\ RestOK
  BY TypeParts
<1> SUFFICES GenOK' /\ BoxOK' /\ RoundOK' /\ RestOK' /\ ConfigOK'
  BY TypeParts, PTL
<1>2. CASE SubscriptionChanges
  BY <1>1, <1>2 DEF SubscriptionChanges, Change, boxVars, GenOK, BoxOK, RoundOK, RestOK, ConfigOK
<1>3. CASE BoxDies
  BY <1>1, <1>3, BoxKinds DEF BoxDies, Fault, genVars, GenOK, BoxOK, RoundOK, RestOK, ConfigOK
<1>4. CASE Reboot
  <2>1. config' \in ConfigType /\ config' = NoConfig
    BY <1>4 DEF Reboot, NoConfig, ConfigType
  <2>2. RoundOK' /\ state' \in StateType
    BY <1>4, IdleTyped DEF Reboot, RoundOK
  <2>3. box' = Off /\ gen' = "idle" /\ due' = TRUE /\ faults < MaxFaults /\ faults' = faults + 1
        /\ UNCHANGED <<sub, urltest, pool, broken, cache, speed, lastPassed, changes>>
    BY <1>4 DEF Reboot, Fault
  <2>4. config'.initial = Null
    BY <2>1 DEF NoConfig
  <2> QED
    BY <1>1, <2>1, <2>2, <2>3, <2>4, BoxKinds DEF GenOK, BoxOK, RestOK, ConfigOK
<1>5. ASSUME NEW n \in Nodes, SpeedChanges(n)
      PROVE  GenOK' /\ BoxOK' /\ RoundOK' /\ RestOK' /\ ConfigOK'
  BY <1>1, <1>5 DEF SpeedChanges, Change, genVars, boxVars, GenOK, BoxOK, RoundOK, RestOK, ConfigOK
<1>6. ASSUME NEW p \in Rounds, RoundDies(p)
      PROVE  GenOK' /\ BoxOK' /\ RoundOK' /\ RestOK' /\ ConfigOK'
  <2>1. BoxOK'
    <3>1. CASE UNCHANGED boxVars
      BY <1>1, <3>1 DEF BoxOK, boxVars
    <3>2. CASE Accepted(p) /\ CarriedOut(p)
      BY <1>1, <3>2, CarriedOutSound
    <3> QED
      BY <1>6, <3>1, <3>2 DEF RoundDies
  <2>2. RoundOK'
    BY <1>1, <1>6, IdleTyped DEF RoundDies, RoundOK
  <2> QED
    BY <1>1, <1>6, <2>1, <2>2 DEF RoundDies, Fault, genVars, GenOK, RestOK, ConfigOK
<1>7. CASE GeneratorDies
  BY <1>1, <1>7 DEF GeneratorDies, Fault, GiveUp, boxVars, GenOK, BoxOK, RoundOK, RestOK, ConfigOK
<1> QED
  BY <1>2, <1>3, <1>4, <1>5, <1>6, <1>7 DEF Environment

LEMMA TypeStep == TypeOK /\ ConfigOK /\ [Next]_vars => TypeOK' /\ ConfigOK'
<1>1. TypeOK /\ ConfigOK /\ UNCHANGED vars => TypeOK' /\ ConfigOK'
  BY DEF vars, TypeOK, ConfigOK
<1> QED
  BY <1>1, GenerationTyped, RoundTyped, EnvironmentTyped DEF Next

-----------------------------------------------------------------------------
(* Streaks and switches.                                                    *)

\* One process at a time is in a round.
OneRound ==
    \A p, q \in Rounds : round[p].pc # "idle" /\ round[q].pc # "idle" => p = q

\* A node with a streak answered in the round that was saved last, or in the
\* one that has just measured it.
StreaksEarned ==
    /\ \A n \in Nodes : state.streaks[n] > 0 => n \in lastPassed
    /\ \A p \in Rounds, n \in Nodes :
        /\ round[p].pc = "probe" /\ round[p].streaks[n] > 0 => n \in lastPassed
        /\ round[p].pc \in {"member", "main", "save"} /\ round[p].streaks[n] > 0 => n \in round[p].passed

\* What is switched to answered, and main-out is only switched to a tier that
\* points to the choice already.
ChoiceReady ==
    \A p \in Rounds :
        /\ round[p].pc \in {"member", "main"} => round[p].choice \in round[p].passed
        /\ round[p].pc = "main" /\ round[p].sameBox /\ box.main # NoTier
              => /\ Tier(round[p].choice) \in Tiers(box.nodes)
                 /\ box.member[Tier(round[p].choice)] = round[p].choice

TiersInv == TypeOK /\ ConfigOK /\ OneRound /\ StreaksEarned /\ ChoiceReady

\* A step of a round leaves the other processes alone, and only begins when
\* no round is at work.
LEMMA RoundEffect ==
    ASSUME TypeOK, NEW p \in Rounds, Begin(p) \/ RoundStep(p) \/ RoundDies(p)
    PROVE  /\ \A q \in Rounds : q # p => round'[q] = round[q]
           /\ round[p].pc # "idle" \/ LockFree
<1>1. round \in [Rounds -> RoundType]
  BY DEF TypeOK
<1> QED
  BY <1>1, Measured DEF Begin, RoundStep, RoundDies, Measure, PutMember, PutMain, PutRefused, Save

LEMMA OneRoundStep == TypeOK /\ OneRound /\ [Next]_vars => OneRound'
<1> SUFFICES ASSUME TypeOK, OneRound, [Next]_vars PROVE OneRound'
  OBVIOUS
<1>1. CASE UNCHANGED round
  BY <1>1 DEF OneRound
<1>2. CASE StartBox \/ Reboot
  <2>1. \A q \in Rounds : round'[q].pc # "idle" => round[q].pc # "idle"
    BY <1>2 DEF StartBox, Reboot, Idle, TypeOK, RoundType
  <2> QED
    BY <2>1 DEF OneRound
<1>3. ASSUME NEW p \in Rounds, Begin(p) \/ RoundStep(p) \/ RoundDies(p)
      PROVE  OneRound'
  BY <1>3, RoundEffect DEF OneRound, LockFree
<1> QED
  BY <1>1, <1>2, <1>3
     DEF Next, Generation, Environment, Prepare, PrepareFails, NativeGenerate, ReplaceConfig,
         FinalizeFails, WritePool, StopBox, SubscriptionChanges, BoxDies, GeneratorDies, SpeedChanges,
         genFrame, boxVars, vars
\* What a step of round p may do to the streaks and to what answered.
LEMMA StreaksOfRound ==
    ASSUME TypeOK, OneRound, StreaksEarned, NEW p \in Rounds, Begin(p) \/ RoundStep(p) \/ RoundDies(p)
    PROVE  StreaksEarned'
<1> USE TiersAssumption DEF TiersAssumption
<1>1. round \in [Rounds -> RoundType] /\ state.streaks \in [Nodes -> 0 .. StreakCap]
  BY DEF TypeOK
<1>2. ASSUME NEW q \in Rounds, q # p, round[q].pc # "idle"
      PROVE  FALSE
  BY <1>2, RoundEffect DEF OneRound, LockFree
<1>3. \A q \in Rounds : q # p => round'[q] = round[q] /\ round[q].pc = "idle"
  BY <1>2, RoundEffect
<1>4. CASE UNCHANGED <<state, lastPassed>>
  <2> SUFFICES ASSUME NEW n \in Nodes
               PROVE  /\ round'[p].pc = "probe" /\ round'[p].streaks[n] > 0 => n \in lastPassed
                      /\ round'[p].pc \in {"member", "main", "save"} /\ round'[p].streaks[n] > 0
                            => n \in round'[p].passed
    BY <1>3, <1>4 DEF StreaksEarned
  <2>1. CASE Begin(p)
    <3>1. round'[p].pc = "probe" /\ round'[p].streaks = state.streaks
      BY <1>1, <2>1 DEF Begin, Idle
    <3> QED
      BY <3>1 DEF StreaksEarned
  <2>2. CASE Measure(p)
    BY <2>2, Measured
  <2>3. CASE PutMember(p) \/ PutMain(p)
    <3>1. /\ round'[p].streaks = round[p].streaks /\ round'[p].passed = round[p].passed
          /\ round[p].pc \in {"member", "main"} /\ round'[p].pc \in {"main", "save"}
      BY <1>1, <2>3 DEF PutMember, PutMain, RoundType
    <3> QED
      BY <3>1 DEF StreaksEarned
  <2>4. CASE PutRefused(p) \/ RoundDies(p) \/ Save(p)
    BY <1>1, <2>4 DEF PutRefused, RoundDies, Save, Idle
  <2> QED
    BY <2>1, <2>2, <2>3, <2>4 DEF RoundStep
<1>5. CASE Save(p)
  <2>1. state'.streaks = round[p].streaks /\ lastPassed' = round[p].passed /\ round'[p].pc = "idle"
        /\ round[p].pc = "save"
    BY <1>1, <1>5 DEF Save, Idle
  <2> QED
    BY <1>3, <2>1 DEF StreaksEarned
<1> QED
  BY <1>4, <1>5 DEF Begin, RoundStep, RoundDies, Measure, PutMember, PutMain, PutRefused

LEMMA StreaksStep == TypeOK /\ OneRound /\ StreaksEarned /\ [Next]_vars => StreaksEarned'
<1> SUFFICES ASSUME TypeOK, OneRound, StreaksEarned, [Next]_vars PROVE StreaksEarned'
  OBVIOUS
<1>1. CASE UNCHANGED <<round, state, lastPassed>>
  BY <1>1 DEF StreaksEarned
<1>2. CASE StartBox
  <2>1. \A p \in Rounds : /\ round'[p].pc = round[p].pc /\ round'[p].streaks = round[p].streaks
                           /\ round'[p].passed = round[p].passed
    BY <1>2 DEF StartBox, TypeOK, RoundType
  <2> QED
    BY <1>2, <2>1 DEF StartBox, StreaksEarned
<1>3. CASE Reboot
  <2>1. \A n \in Nodes : state'.streaks[n] = 0
    BY <1>3 DEF Reboot, NoState, NoStreaks
  <2>2. \A p \in Rounds : round'[p].pc = "idle"
    BY <1>3 DEF Reboot, Idle
  <2> QED
    BY <2>1, <2>2 DEF StreaksEarned
<1>4. ASSUME NEW p \in Rounds, Begin(p) \/ RoundStep(p) \/ RoundDies(p)
      PROVE  StreaksEarned'
  BY <1>4, StreaksOfRound
<1> QED
  BY <1>1, <1>2, <1>3, <1>4
     DEF Next, Generation, Environment, Prepare, PrepareFails, NativeGenerate, ReplaceConfig,
         FinalizeFails, WritePool, StopBox, SubscriptionChanges, BoxDies, GeneratorDies, SpeedChanges,
         genFrame, boxVars, vars

LEMMA ChoiceOfRound ==
    ASSUME TypeOK, OneRound, ChoiceReady, NEW p \in Rounds, Begin(p) \/ RoundStep(p) \/ RoundDies(p)
    PROVE  ChoiceReady'
<1>1. round \in [Rounds -> RoundType] /\ BoxOK
  BY TypeParts DEF TypeOK
<1>2. ASSUME NEW q \in Rounds, q # p, round[q].pc # "idle"
      PROVE  FALSE
  BY <1>2, RoundEffect DEF OneRound, LockFree
<1>3. \A q \in Rounds : q # p => round'[q].pc = "idle"
  BY <1>2, RoundEffect
<1> SUFFICES /\ round'[p].pc \in {"member", "main"} => round'[p].choice \in round'[p].passed
             /\ round'[p].pc = "main" /\ box'.main # NoTier
                   => /\ Tier(round'[p].choice) \in Tiers(box'.nodes)
                      /\ box'.member[Tier(round'[p].choice)] = round'[p].choice
  BY <1>3 DEF ChoiceReady
<1>4. CASE Begin(p)
  BY <1>1, <1>4 DEF Begin, Idle
<1>5. CASE Measure(p)
  BY <1>5, Measured
<1>6. CASE PutMember(p)
  <2>1. /\ round'[p].choice = round[p].choice /\ round'[p].passed = round[p].passed
        /\ round[p].pc = "member"
    BY <1>1, <1>6 DEF PutMember, RoundType
  <2>2. Sound(box) /\ round[p].choice \in box.nodes
    BY <1>1, <1>6, AcceptedSound DEF PutMember
  <2>3. box' = MemberSet(box, round[p].choice)
    BY <1>6 DEF PutMember, CarriedOut
  <2>4. Tier(round[p].choice) \in Tiers(box'.nodes) /\ box'.member[Tier(round[p].choice)] = round[p].choice
    BY <2>2, <2>3, MemberSetSound DEF Tiers
  <2> QED
    BY <2>1, <2>4 DEF ChoiceReady
<1>7. CASE PutMain(p) \/ PutRefused(p) \/ Save(p) \/ RoundDies(p)
  BY <1>1, <1>7 DEF PutMain, PutRefused, Save, RoundDies, Idle, RoundType
<1> QED
  BY <1>4, <1>5, <1>6, <1>7 DEF RoundStep

LEMMA ChoiceStep == TypeOK /\ OneRound /\ ChoiceReady /\ [Next]_vars => ChoiceReady'
<1> SUFFICES ASSUME TypeOK, OneRound, ChoiceReady, [Next]_vars PROVE ChoiceReady'
  OBVIOUS
<1>1. CASE UNCHANGED <<round, box>>
  BY <1>1 DEF ChoiceReady
<1>2. CASE UNCHANGED round /\ box' = Off
  BY <1>2, BoxKinds DEF ChoiceReady
<1>3. CASE StartBox
  <2>1. \A p \in Rounds : /\ round'[p].pc = round[p].pc /\ round'[p].choice = round[p].choice
                           /\ round'[p].passed = round[p].passed /\ round'[p].sameBox = (round[p].pc = "idle")
    BY <1>3 DEF StartBox, TypeOK, RoundType
  <2> QED
    BY <2>1 DEF ChoiceReady
<1>4. CASE Reboot
  BY <1>4 DEF Reboot, Idle, ChoiceReady
<1>5. ASSUME NEW p \in Rounds, Begin(p) \/ RoundStep(p) \/ RoundDies(p)
      PROVE  ChoiceReady'
  BY <1>5, ChoiceOfRound
<1> QED
  BY <1>1, <1>2, <1>3, <1>4, <1>5
     DEF Next, Generation, Environment, Prepare, PrepareFails, NativeGenerate, ReplaceConfig,
         FinalizeFails, WritePool, StopBox, SubscriptionChanges, BoxDies, GeneratorDies, SpeedChanges,
         genFrame, boxVars, vars

-----------------------------------------------------------------------------
(* The invariant.                                                           *)

LEMMA InitInv == Init => TiersInv
<1> SUFFICES ASSUME Init PROVE TiersInv
  OBVIOUS
<1>1. TypeOK /\ ConfigOK
  BY InitTyped
<1>2. \A p \in Rounds : round[p].pc = "idle"
  BY DEF Init, Idle
<1>3. \A n \in Nodes : state.streaks[n] = 0
  BY DEF Init, NoState, NoStreaks
<1>4. OneRound /\ ChoiceReady
  BY <1>2 DEF OneRound, ChoiceReady
<1>5. StreaksEarned
  BY <1>2, <1>3 DEF StreaksEarned
<1> QED
  BY <1>1, <1>4, <1>5 DEF TiersInv

LEMMA Invariance == Spec => []TiersInv
<1>1. TiersInv /\ [Next]_vars => TiersInv'
  BY TypeStep, OneRoundStep, StreaksStep, ChoiceStep DEF TiersInv
<1> QED
  BY InitInv, <1>1, PTL DEF Spec

\* The types of all variables; a tier of the running sing-box always points to
\* a node of that tier (generator, patch_config and the two calls of a round).
THEOREM TypeCorrect == Spec => []TypeOK
<1>1. TiersInv => TypeOK
  BY DEF TiersInv
<1> QED
  BY Invariance, <1>1, PTL

-----------------------------------------------------------------------------
(* What a step may do to the node that traffic goes through.                *)

\* A node that still answers is left only for one that answered in the round
\* saved before as well (select_node with the streaks of STATE), for any nodes,
\* speeds, number of processes and faults.
THEOREM SwitchesEarned == Spec => SwitchIsEarned
<1> DEFINE Earned ==
      \A p \in Rounds :
        LET r == round'[p]
        IN  /\ round[p].pc = "probe" /\ r.pc = "member"
            /\ r.selected \in r.passed /\ r.choice # r.selected
            => r.choice \in lastPassed
<1>1. TiersInv /\ [Next]_vars => Earned
  <2> SUFFICES ASSUME TiersInv, [Next]_vars, NEW p \in Rounds,
                      round[p].pc = "probe", round'[p].pc = "member",
                      round'[p].selected \in round'[p].passed, round'[p].choice # round'[p].selected
               PROVE  round'[p].choice \in lastPassed
    OBVIOUS
  <2>1. TypeOK /\ StreaksEarned
    BY DEF TiersInv
  <2>2. CASE UNCHANGED round
    BY <2>2
  <2>3. CASE StartBox \/ Reboot
    BY <2>1, <2>3 DEF StartBox, Reboot, Idle, TypeOK, RoundType
  <2>4. ASSUME NEW q \in Rounds, Begin(q) \/ RoundStep(q) \/ RoundDies(q)
        PROVE  round'[p].choice \in lastPassed
    <3>1. p = q
      BY <2>1, <2>4, RoundEffect
    <3>2. Measure(p)
      <4>1. round \in [Rounds -> RoundType]
        BY <2>1 DEF TypeOK
      <4> QED
        BY <2>4, <3>1, <4>1 DEF Begin, RoundStep, RoundDies, PutMember, PutMain, PutRefused, Save, Idle
    <3> DEFINE c == round'[p].choice
    <3>3. c \in Nodes /\ round[p].streaks[c] > 0
      <4>1. /\ round'[p] \in RoundType /\ c \in round'[p].passed /\ round'[p].streaks[c] >= 2
        BY <2>1, <3>2, Measured
      <4>2. c \in Nodes
        BY <4>1 DEF RoundType
      <4> QED
        BY <2>1, <3>2, <4>1, <4>2, Measured
    <3> QED
      BY <2>1, <3>3 DEF StreaksEarned
  <2> QED
    BY <2>2, <2>3, <2>4
       DEF Next, Generation, Environment, Prepare, PrepareFails, NativeGenerate, ReplaceConfig, FinalizeFails, WritePool, StopBox,
           SubscriptionChanges, BoxDies, GeneratorDies, SpeedChanges, genFrame, boxVars, vars
<1>2. TiersInv /\ [Next]_vars => [Earned]_vars
  BY <1>1
<1>3. Spec => [][Earned]_vars
  BY Invariance, <1>2, PTL DEF Spec
<1> QED
  BY <1>3 DEF SwitchIsEarned

\* A call that is carried out moves traffic to the choice of its round or not at all.
LEMMA CallMoves ==
    ASSUME TiersInv, NEW p \in Rounds, Accepted(p), CarriedOut(p)
    PROVE  /\ round[p].pc # "idle"
           /\ Now # Now' /\ round[p].sameBox => Now' = round[p].choice /\ Now' \in round[p].passed
<1>1. BoxOK /\ ChoiceReady
  BY TypeParts DEF TiersInv
<1>2. box.main # NoTier /\ Sound(box) /\ box'.main # NoTier
  BY <1>1, AcceptedSound, CarriedOutSound, BoxKinds
<1>3. Now = box.member[box.main] /\ Now' = box'.member[box'.main]
  BY <1>2 DEF Now
<1>4. CASE round[p].pc = "member"
  <2>1. round[p].choice \in box.nodes /\ round[p].choice \in round[p].passed
    BY <1>1, <1>4, AcceptedSound DEF ChoiceReady
  <2>2. /\ box'.main = box.main
        /\ box'.member = [box.member EXCEPT ![Tier(round[p].choice)] = round[p].choice]
    BY <1>2, <1>4, <2>1, MemberSetSound DEF CarriedOut
  <2>3. box.main \in Tiers(box.nodes) /\ box.member \in [Tiers(box.nodes) -> Nodes]
    BY <1>2 DEF Sound
  <2>4. Now # Now' => Now' = round[p].choice
    BY <1>3, <2>2, <2>3
  <2> QED
    BY <1>4, <2>1, <2>4
<1>5. CASE round[p].pc = "main"
  <2>1. Tier(round[p].choice) \in Tiers(box.nodes) /\ round[p].choice \in round[p].passed
    BY <1>1, <1>5, AcceptedSound DEF ChoiceReady
  <2>2. box'.main = Tier(round[p].choice) /\ box'.member = box.member
    BY <1>2, <1>5, <2>1, MainSetSound DEF CarriedOut
  <2>3. round[p].sameBox => Now' = round[p].choice
    BY <1>1, <1>2, <1>3, <1>5, <2>2 DEF ChoiceReady
  <2> QED
    BY <1>5, <2>1, <2>3
<1> QED
  BY <1>4, <1>5 DEF Accepted

\* Traffic moves only to the node that the round at work measured and chose
\* (reconcile: the member first, then the tier), for any nodes, speeds, number
\* of processes and faults.
THEOREM NoDetourEver == Spec => NoDetour
<1> DEFINE Direct ==
      Now # Now' /\ box # Off /\ box' # Off =>
        \E p \in Rounds :
            /\ round[p].pc # "idle"
            /\ round[p].sameBox => Now' = round[p].choice /\ Now' \in round[p].passed
<1>1. TiersInv /\ [Next]_vars => Direct
  <2> SUFFICES ASSUME TiersInv, [Next]_vars, Now # Now', box # Off, box' # Off
               PROVE  \E p \in Rounds :
                         /\ round[p].pc # "idle"
                         /\ round[p].sameBox => Now' = round[p].choice /\ Now' \in round[p].passed
    BY Zenon
  <2>1. ~ UNCHANGED box
    BY DEF Now
  <2>2. PICK p \in Rounds : PutMember(p) \/ PutMain(p) \/ RoundDies(p)
    BY <2>1
       DEF Next, Generation, Environment, Prepare, PrepareFails, NativeGenerate, ReplaceConfig, FinalizeFails, WritePool, StopBox,
           StartBox, SubscriptionChanges, BoxDies, GeneratorDies, Reboot, SpeedChanges, RoundStep, Begin,
           Measure, PutRefused, Save, genFrame, roundFrame, boxVars, vars
  <2>3. Accepted(p) /\ CarriedOut(p)
    BY <2>1, <2>2 DEF PutMember, PutMain, RoundDies, boxVars
  <2> QED
    BY <2>3, CallMoves
<1>2. TiersInv /\ [Next]_vars => [Direct]_vars
  BY <1>1
<1>3. Spec => [][Direct]_vars
  BY Invariance, <1>2, PTL DEF Spec
<1> QED
  BY <1>3 DEF NoDetour
=============================================================================
