----------------------------- MODULE TieredProxy -----------------------------
(***************************************************************************)
(* The HomeProxy price tiers (src/tools/homeproxy_tiers/tiered_proxy.py):   *)
(* the generation of sing-box's configuration (generate_client.uc: prepare, *)
(* the native generator, finalize), the controller rounds of the daemon and *)
(* of a manual `once`, which measure every node and switch the member of a  *)
(* tier and the tier itself by two calls, the state file, and the selection *)
(* that sing-box keeps in memory and, if configured so, in its cache file.  *)
(*                                                                          *)
(* A node is its position in the order (cost, label) that eligible_nodes    *)
(* sorts by, so the cheapest and first of a set of nodes is its minimum.    *)
(* lotus_tiers_enabled and main_node stay as the installation sets them.    *)
(***************************************************************************)
EXTENDS Integers, FiniteSets, FiniteSetsExt

CONSTANTS
    Cost,          \* sequence of the nodes' multipliers, ascending
    Speeds,        \* delays a node may have, in milliseconds
    FirstSpeeds,   \* bound: what the nodes' probes may take at first
    Jitter,        \* by how much a measurement may exceed the delay
    Margin,        \* 50 ms in select_node
    StreakCap,     \* 100 in reconcile
    Bootstrap,     \* private.json's bootstrap_tag
    Rounds,        \* the processes that may run a round
    MaxChanges,    \* bound: changes of subscription, of node speeds, restarts by hand
    MaxFaults      \* bound: lost calls, killed processes, reboots

Nodes == DOMAIN Cost
Null == 0              \* JSON null, Python None
Absent == -1           \* no STATE file
Down == -1             \* a node that does not answer
NoTier == 0            \* of a main-out that is no selector
\* A sing-box that runs what the native generator writes: one group of all
\* nodes that chooses by itself, no tiers, no probe ports, no controller.
Unpatched(S) == [nodes |-> S, main |-> NoTier, member |-> <<>>]
Off == Unpatched({})
NoConfig == [nodes |-> {}, initial |-> Null]

ASSUME TiersAssumption ==
    /\ Nodes \subseteq Nat \ {0} /\ Nodes # {}
    /\ \A n \in Nodes : Cost[n] \in Nat \ {0}
    /\ \A m, n \in Nodes : m <= n => Cost[m] <= Cost[n]
    /\ Speeds \subseteq Nat /\ FirstSpeeds \subseteq Speeds \cup {Down}
    /\ Jitter \in Nat /\ Margin \in Nat
    /\ StreakCap \in Nat /\ StreakCap >= 2
    /\ Bootstrap \in Nodes \cup {Null}
    /\ MaxChanges \in Nat /\ MaxFaults \in Nat

VARIABLES
    sub,        \* nodes of the subscription that eligible_nodes returns
    urltest,    \* homeproxy.config.main_urltest_nodes
    config,     \* GENERATED: the nodes and the one selected initially, Null if
                \* it is the native generator's own
    pool,       \* pool.json
    due,        \* HomeProxy has been asked to generate
    gen,        \* progress of generate_client.uc
    box,        \* sing-box: nodes, now of main-out, now of every tier
    cache,      \* the selections in sing-box's cache file
    state,      \* STATE: selected and streaks
    round,      \* per process, the locals of reconcile()
    speed,      \* environment: what a node's probe would take
    lastPassed, \* history: nodes that answered in the last round saved
    broken,     \* history: the last generation that began failed
    changes, faults

vars == <<sub, urltest, config, pool, due, gen, box, cache, state, round, speed,
          lastPassed, broken, changes, faults>>

Tier(n) == Cost[n]
Tiers(S) == {Tier(n) : n \in S}
NoStreaks == [n \in Nodes |-> 0]
NoState == [selected |-> Absent, streaks |-> NoStreaks]
Idle == [pc |-> "idle", nodes |-> {}, selected |-> Null, streaks |-> NoStreaks,
         passed |-> {}, choice |-> Null, sameBox |-> TRUE]

Members(S, t) == {n \in S : Tier(n) = t}
NoCache == [main |-> NoTier, member |-> [t \in Tiers(Nodes) |-> Null]]

\* patch_config: selector groups per tier, with the initial node as default
\* of its own group and of main-out. A selection of the cache file that the
\* group still offers goes before its default.
Started(c, kept) ==
    IF c.initial = Null THEN Unpatched(c.nodes)
    ELSE [nodes |-> c.nodes,
          main |-> IF kept.main \in Tiers(c.nodes) THEN kept.main ELSE Tier(c.initial),
          member |-> [t \in Tiers(c.nodes) |->
                        IF kept.member[t] \in Members(c.nodes, t) THEN kept.member[t]
                        ELSE IF t = Tier(c.initial) THEN c.initial
                        ELSE Min(Members(c.nodes, t))]]

\* The node that new connections go through by the tiers' choice.
Now == IF box.main = NoTier THEN Null ELSE box.member[box.main]

Initial(nodes) ==
    LET wanted == IF state.selected = Absent THEN Bootstrap ELSE state.selected
    IN  IF wanted \in nodes THEN wanted ELSE Min(nodes)

Init ==
    /\ sub = Nodes /\ urltest = Nodes /\ pool = Nodes
    /\ state = NoState
    /\ config = [nodes |-> Nodes, initial |-> Initial(Nodes)]
    /\ cache = NoCache
    /\ box = Started(config, cache)
    /\ due = FALSE /\ gen = "idle" /\ broken = FALSE
    /\ round = [p \in Rounds |-> Idle]
    /\ speed \in [Nodes -> FirstSpeeds]
    /\ lastPassed = {}
    /\ changes = 0 /\ faults = 0

-----------------------------------------------------------------------------
(* generate_client.uc: prepare, the native generator, finalize; the restart. *)

genVars == <<urltest, config, pool, due, gen, broken>>
genFrame == <<sub, box, cache, state, round, speed, lastPassed, changes, faults>>

Prepare ==
    /\ gen = "idle" /\ due
    /\ sub # {}
    /\ urltest' = sub
    /\ due' = FALSE /\ gen' = "native"
    /\ UNCHANGED <<genFrame, config, pool, broken>>

\* Whether HomeProxy restarts sing-box although its generator failed is not
\* in this repository.
GiveUp == gen' \in {"idle", "restart"}

PrepareFails ==
    /\ gen = "idle" /\ due
    /\ sub = {}
    /\ due' = FALSE /\ GiveUp
    /\ UNCHANGED <<genFrame, urltest, config, pool, broken>>

\* It writes the file that sing-box runs, before finalize has seen it.
NativeGenerate ==
    /\ gen = "native"
    /\ config' = [nodes |-> urltest, initial |-> Null]
    /\ gen' = "finalize"
    /\ UNCHANGED <<genFrame, urltest, pool, due, broken>>

\* finalize reads the subscription again: it may have changed meanwhile.
ReplaceConfig ==
    /\ gen = "finalize"
    /\ sub # {} /\ sub \subseteq urltest
    /\ config' = [nodes |-> sub, initial |-> Initial(sub)]
    /\ gen' = "pool"
    /\ UNCHANGED <<genFrame, urltest, pool, due, broken>>

\* What the native generator wrote stays.
FinalizeFails ==
    /\ gen = "finalize"
    /\ sub = {} \/ ~(sub \subseteq urltest)
    /\ broken' = TRUE /\ GiveUp
    /\ UNCHANGED <<genFrame, urltest, config, pool, due>>

WritePool ==
    /\ gen = "pool"
    /\ pool' = config.nodes
    /\ broken' = FALSE /\ gen' = "restart"
    /\ UNCHANGED <<genFrame, urltest, config, due>>

StopBox ==
    /\ gen = "restart"
    /\ box' = Off
    /\ gen' = "idle"
    /\ UNCHANGED <<sub, urltest, config, pool, due, broken, cache, state, round, speed,
                   lastPassed, changes, faults>>

\* By HomeProxy, or by procd in the middle of a generation.
StartBox ==
    /\ box = Off /\ config # NoConfig
    /\ \E kept \in {cache, NoCache} : box' = Started(config, kept)
    /\ round' = [p \in Rounds |-> [round[p] EXCEPT !.sameBox = round[p].pc = "idle"]]
    /\ UNCHANGED <<sub, genVars, cache, state, speed, lastPassed, changes, faults>>

-----------------------------------------------------------------------------
(* One round of reconcile() in process p.                                   *)

roundFrame == <<sub, genVars, speed, changes, faults>>
boxVars == <<box, cache>>

\* The file lock is not taken.
LockFree_Always == TRUE

LockFree == \A q \in Rounds : round[q].pc = "idle"

\* A round without a main-out that is a selector ends before it began. The
\* selection found in sing-box replaces the one of the file, unless the pool
\* does not know it.
Begin(p) ==
    /\ round[p].pc = "idle" /\ LockFree
    /\ box.main # NoTier
    /\ round' = [round EXCEPT ![p] =
        [Idle EXCEPT !.pc = "probe", !.nodes = pool, !.streaks = state.streaks,
                     !.selected = IF Now \in pool THEN Now ELSE state.selected]]
    /\ UNCHANGED <<roundFrame, boxVars, state, lastPassed>>

\* Probe port i of the pool leads to the i-th node of the configuration that
\* sing-box runs.
Position(n, S) == Cardinality({m \in S : m < n})
Probed(n, S) ==
    LET there == {m \in box.nodes : Position(m, box.nodes) = Position(n, S)}
    IN  IF box.main = NoTier \/ there = {} THEN Down ELSE speed[CHOOSE m \in there : TRUE]

\* Cheapest tier first, then the shortest delay, then the order of the pool.
Candidate(passed, delay) ==
    LET cheap == {n \in passed : \A m \in passed : Cost[n] <= Cost[m]}
    IN  Min({n \in cheap : \A m \in cheap : delay[n] <= delay[m]})

\* Any shorter delay wins within a tier.
SelectNode_NoMargin(passed, delay, selected, streaks) ==
    LET candidate == Candidate(passed, delay)
    IN  IF passed = {} THEN Null
        ELSE IF selected \notin passed THEN candidate
        ELSE IF /\ streaks[candidate] >= 2
                /\ Cost[candidate] < Cost[selected] \/ delay[candidate] < delay[selected]
             THEN candidate
        ELSE selected

SelectNode(passed, delay, selected, streaks) ==
    LET candidate == Candidate(passed, delay)
    IN  IF passed = {} THEN Null
        ELSE IF selected \notin passed THEN candidate
        ELSE IF /\ streaks[candidate] >= 2
                /\ \/ Cost[candidate] < Cost[selected]
                   \/ delay[candidate] + Margin < delay[selected]
             THEN candidate
        ELSE selected

Counted_Uncapped(streaks, nodes, passed) ==
    [n \in Nodes |-> IF n \in nodes \cap passed THEN streaks[n] + 1 ELSE 0]

Counted(streaks, nodes, passed) ==
    [n \in Nodes |-> IF n \in nodes \cap passed THEN Min({streaks[n] + 1, StreakCap}) ELSE 0]

\* What a round may measure: the delays of the nodes that answer.
Delays(r) ==
    LET answering == {n \in r.nodes : Probed(n, r.nodes) # Down}
    IN  {[n \in answering |-> Probed(n, r.nodes) + extra[n]] : extra \in [answering -> {0, Jitter}]}

Measure(p) ==
    /\ round[p].pc = "probe"
    /\ \E delays \in Delays(round[p]) :
         LET r == round[p]
             passed == DOMAIN delays
             streaks == Counted(r.streaks, r.nodes, passed)
             choice == SelectNode(passed, delays, r.selected, streaks)
         IN  round' = [round EXCEPT ![p] =
                [r EXCEPT !.streaks = streaks, !.passed = passed, !.choice = choice,
                          !.pc = IF choice = Null THEN "save" ELSE "member"]]
    /\ UNCHANGED <<roundFrame, boxVars, state, lastPassed>>

Accepted(p) ==
    /\ box.main # NoTier
    /\ \/ round[p].pc = "member" /\ round[p].choice \in box.nodes
       \/ round[p].pc = "main" /\ Tier(round[p].choice) \in Tiers(box.nodes)

MemberSet(b, n) == [b EXCEPT !.member[Tier(n)] = n]
MainSet(b, n) == [b EXCEPT !.main = Tier(n)]

\* A call that is carried out, and stored in the cache file.
CarriedOut(p) ==
    LET n == round[p].choice
    IN  \/ round[p].pc = "member" /\ box' = MemberSet(box, n) /\ cache' = MemberSet(cache, n)
        \/ round[p].pc = "main" /\ box' = MainSet(box, n) /\ cache' = MainSet(cache, n)

PutMember(p) ==
    /\ round[p].pc = "member" /\ Accepted(p)
    /\ CarriedOut(p)
    /\ round' = [round EXCEPT ![p].pc = "main"]
    /\ UNCHANGED <<roundFrame, state, lastPassed>>

PutMain(p) ==
    /\ round[p].pc = "main" /\ Accepted(p)
    /\ CarriedOut(p)
    /\ round' = [round EXCEPT ![p].pc = "save"]
    /\ UNCHANGED <<roundFrame, state, lastPassed>>

\* sing-box is down, or its configuration has no such node, tier or
\* controller: the exception ends the round before the state is saved.
PutRefused(p) ==
    /\ round[p].pc \in {"member", "main"} /\ ~Accepted(p)
    /\ round' = [round EXCEPT ![p] = Idle]
    /\ UNCHANGED <<roundFrame, boxVars, state, lastPassed>>

\* If no node answered the last selection stays.
Save(p) ==
    LET r == round[p]
    IN  /\ r.pc = "save"
        /\ state' = [streaks |-> r.streaks,
                     selected |-> IF r.choice # Null THEN r.choice
                                  ELSE IF r.selected = Absent THEN Null ELSE r.selected]
        /\ lastPassed' = r.passed
        /\ round' = [round EXCEPT ![p] = Idle]
        /\ UNCHANGED <<roundFrame, boxVars>>

-----------------------------------------------------------------------------
(* Environment and faults.                                                  *)

Fault == faults < MaxFaults /\ faults' = faults + 1
Change == changes < MaxChanges /\ changes' = changes + 1

\* The subscription is updated, or its user only saves or restarts: HomeProxy
\* generates.
SubscriptionChanges ==
    /\ Change
    /\ sub' \in SUBSET Nodes
    /\ due' = TRUE
    /\ UNCHANGED <<urltest, config, pool, gen, broken, boxVars, state, round, speed, lastPassed, faults>>

SpeedChanges(n) ==
    /\ Change
    /\ \E s \in (Speeds \cup {Down}) \ {speed[n]} : speed' = [speed EXCEPT ![n] = s]
    /\ UNCHANGED <<sub, genVars, boxVars, state, round, lastPassed, faults>>

\* The process is killed, or a call fails, with or without being carried out.
RoundDies(p) ==
    /\ Fault
    /\ round[p].pc # "idle"
    /\ \/ UNCHANGED boxVars
       \/ Accepted(p) /\ CarriedOut(p)
    /\ round' = [round EXCEPT ![p] = Idle]
    /\ UNCHANGED <<sub, genVars, state, speed, lastPassed, changes>>

BoxDies ==
    /\ Fault
    /\ box # Off
    /\ box' = Off
    /\ UNCHANGED <<sub, genVars, cache, state, round, speed, lastPassed, changes>>

\* A step of the generator fails or is killed (the native generator, the check
\* by sing-box, the writing of pool.json); nobody repeats it.
GeneratorDies ==
    /\ Fault
    /\ gen \in {"native", "finalize", "pool"}
    /\ broken' = TRUE /\ GiveUp
    /\ UNCHANGED <<sub, urltest, config, pool, due, boxVars, state, round, speed, lastPassed, changes>>

\* STATE and GENERATED are on tmpfs, pool.json is not.
Reboot ==
    /\ Fault
    /\ state' = NoState /\ config' = NoConfig
    /\ box' = Off /\ gen' = "idle" /\ due' = TRUE
    /\ round' = [p \in Rounds |-> Idle]
    /\ UNCHANGED <<sub, urltest, pool, broken, cache, speed, lastPassed, changes>>

Generation ==
    \/ Prepare \/ PrepareFails \/ NativeGenerate \/ ReplaceConfig \/ FinalizeFails \/ WritePool
    \/ StopBox \/ StartBox

\* The order of the two calls swapped.
RoundStep_MainFirst(p) ==
    \/ Measure(p) \/ Save(p)
    \/ /\ round[p].pc = "member" /\ Accepted(p)
       /\ box' = MainSet(box, round[p].choice)
       /\ round' = [round EXCEPT ![p].pc = "main"]
       /\ UNCHANGED <<roundFrame, cache, state, lastPassed>>
    \/ /\ round[p].pc = "main" /\ round[p].choice \in box.nodes
       /\ box' = MemberSet(box, round[p].choice)
       /\ round' = [round EXCEPT ![p].pc = "save"]
       /\ UNCHANGED <<roundFrame, cache, state, lastPassed>>

RoundStep(p) == Measure(p) \/ PutMember(p) \/ PutMain(p) \/ PutRefused(p) \/ Save(p)
Environment ==
    \/ SubscriptionChanges \/ BoxDies \/ GeneratorDies \/ Reboot
    \/ \E n \in Nodes : SpeedChanges(n)
    \/ \E p \in Rounds : RoundDies(p)

Next == Generation \/ Environment \/ \E p \in Rounds : Begin(p) \/ RoundStep(p)

Spec == Init /\ [][Next]_vars

\* The daemon starts a round every two minutes for ever, a round that began
\* goes on by itself (every call has a timeout), HomeProxy generates and
\* restarts sing-box when it was asked to, procd respawns sing-box.
FairSpec ==
    /\ Spec
    /\ WF_vars(Generation)
    /\ WF_vars(\E p \in Rounds : Begin(p) \/ RoundStep(p))

-----------------------------------------------------------------------------
(* Properties.                                                              *)

ConfigType == [nodes : SUBSET Nodes, initial : Nodes \cup {Null}]
BoxType == {Unpatched(S) : S \in SUBSET Nodes} \cup
    [nodes : SUBSET Nodes, main : Tiers(Nodes),
     member : UNION {[Tiers(S) -> Nodes] : S \in SUBSET Nodes}]
CacheType == [main : Tiers(Nodes) \cup {NoTier}, member : [Tiers(Nodes) -> Nodes \cup {Null}]]
RoundType ==
    [pc : {"idle", "probe", "member", "main", "save"}, nodes : SUBSET Nodes,
     selected : Nodes \cup {Null, Absent}, streaks : [Nodes -> 0 .. StreakCap],
     passed : SUBSET Nodes, choice : Nodes \cup {Null}, sameBox : BOOLEAN]

\* The types of all variables; a tier of the running sing-box always points to
\* a node of that tier, and main-out to one of its tiers.
TypeOK ==
    /\ sub \in SUBSET Nodes /\ urltest \in SUBSET Nodes /\ pool \in SUBSET Nodes
    /\ config \in ConfigType
    /\ due \in BOOLEAN /\ broken \in BOOLEAN
    /\ gen \in {"idle", "native", "finalize", "pool", "restart"}
    /\ cache \in CacheType
    /\ box \in BoxType
    /\ box.main # NoTier =>
        /\ box.main \in Tiers(box.nodes) /\ DOMAIN box.member = Tiers(box.nodes)
        /\ \A t \in Tiers(box.nodes) : box.member[t] \in box.nodes /\ Tier(box.member[t]) = t
    /\ state \in [selected : Nodes \cup {Null, Absent}, streaks : [Nodes -> 0 .. StreakCap]]
    /\ round \in [Rounds -> RoundType]
    /\ speed \in [Nodes -> Speeds \cup {Down}]
    /\ lastPassed \in SUBSET Nodes
    /\ changes \in 0 .. MaxChanges /\ faults \in 0 .. MaxFaults

\* While sing-box runs, traffic moves only to the node that the round at work
\* measured and chose, never for a moment to the old member of a tier that is
\* being entered; unless sing-box was restarted in the middle of that round.
NoDetour == [][
    Now # Now' /\ box # Off /\ box' # Off =>
        \E p \in Rounds :
            /\ round[p].pc # "idle"
            /\ round[p].sameBox => Now' = round[p].choice /\ Now' \in round[p].passed]_vars

\* A node that still answers is left only for one that answered in this round
\* and in the round saved before it, whoever ran that round, whatever became
\* of the file, the pool and the rounds that failed in between.
SwitchIsEarned == [][
    \A p \in Rounds :
        LET r == round'[p]
        IN  /\ round[p].pc = "probe" /\ r.pc = "member"
            /\ r.selected \in r.passed /\ r.choice # r.selected
            => r.choice \in lastPassed]_vars

\* Once the nodes, the subscription and sing-box are left alone, the choice
\* settles on one node of the cheapest tier that answers, in spite of
\* measurements that vary by up to Jitter: no flapping, no node kept although
\* it is dead or dearer than necessary. Left out is only what a failed
\* generation leaves behind for good: sing-box runs the native generator's
\* configuration, or another one than pool.json describes (AlwaysSettles).
Best(n) ==
    LET up == {m \in box.nodes : speed[m] # Down}
    IN  up # {} => n \in up /\ \A m \in up : Tier(n) <= Tier(m)

Ungoverned == box # Off /\ (box.main = NoTier \/ box.nodes # pool)

Settled == \E n \in Nodes \cup {Null} : <>[](Now = n /\ Best(n))
Settles == <>[](broken /\ Ungoverned) \/ Settled

\* The tools' README promises "on failure, choose the cheapest that still
\* works" every two minutes; that is, whatever became of a generation.
AlwaysSettles == Settled
=============================================================================
