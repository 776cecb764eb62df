---------------------------- MODULE CampusMultiwan ----------------------------
(***************************************************************************)
(* The campus multi-WAN supervisor (src/tools/campus_multiwan/service.py), *)
(* the DHCP hook that udhcpc calls for each line, and the HomeProxy        *)
(* follower of its status file (src/tools/homeproxy_multiwan).  The kernel *)
(* state they write is a record per line: the interface, the rule of the   *)
(* line's mark, the rules of source addresses, the addresses, and the      *)
(* line's routing table (default route and unreachable route).             *)
(*                                                                         *)
(* An address stands for its prefix and gateway too.  The hook holds the   *)
(* lease lock from start to end; reconcile_lease takes no lock.            *)
(***************************************************************************)
EXTENDS Integers, FiniteSets, FiniteSetsExt

CONSTANTS
    Lines,       \* the secondary identities
    Addresses,   \* the addresses DHCP may assign
    MaxFaults,   \* bound: failures, crashes, deleted tables
    MaxChanges   \* bound: changes of configuration, portal and leases

None == 0
Primary == 1
NoTable == {None}     \* an nft table that does not exist

ASSUME CampusAssumption ==
    /\ Lines \subseteq Nat \ {0, 1} /\ Lines # {} /\ IsFiniteSet(Lines)
    /\ None \notin Addresses /\ MaxFaults \in Nat /\ MaxChanges \in Nat

VARIABLES
    enabled,   \* configuration: `enabled` of each line
    portal,    \* campus portal, per identity: "on", "login" (needs one), "refused",
               \* "failing" (the check raises, or the main WAN is down)
    net,       \* kernel: links, rules, addresses and routes per line
    child,     \* udhcpc per line: "none", "dead", "new" (no event yet), "on"
    dhcp,      \* the address udhcpc holds
    lease,     \* lease-<id>.json
    hook,      \* lease_event per line: progress, address, previous address
    torn,      \* history: the last hook of the line died half-way
    sup,       \* the supervisor's progress and locals
    defer,     \* next_auth lies ahead
    table,     \* nft table campus_multiwan: its active lines
    last,      \* last_policy
    status,    \* status.json
    proxy,     \* the follower's progress and locals
    ptable,    \* nft table lotus_proxy_multiwan
    psig,      \* signature in its state file
    lost,      \* history: it died with a new table and the old signature
    faults, changes

lineVars == <<net, child, dhcp, lease, hook, torn>>
supVars == <<sup, defer, table, last, status>>
proxyVars == <<proxy, ptable, psig, lost>>
world == <<enabled, portal, faults, changes>>
vars == <<lineVars, supVars, proxyVars, world>>

NoLease == [addr |-> None, valid |-> FALSE]
NoNet == [link |-> FALSE, mark |-> FALSE, src |-> {}, addrs |-> {}, via |-> None, unreach |-> FALSE]
NoHook == [pc |-> "idle", addr |-> None, prev |-> None]
Down == [pc |-> "down", todo |-> {}, addr |-> None, active |-> {}, whole |-> FALSE, exists |-> FALSE]
Waiting == [Down EXCEPT !.pc = "wait"]
NoProxy == [pc |-> "idle", want |-> {}, exists |-> FALSE]

Init ==
    /\ enabled \in [Lines -> BOOLEAN]
    /\ portal = [i \in Lines \cup {Primary} |-> IF i = Primary THEN "on" ELSE "login"]
    /\ net = [l \in Lines |-> NoNet] /\ child = [l \in Lines |-> "none"]
    /\ dhcp = [l \in Lines |-> None] /\ lease = [l \in Lines |-> NoLease]
    /\ hook = [l \in Lines |-> NoHook] /\ torn = [l \in Lines |-> FALSE]
    /\ sup = Down /\ defer = {} /\ table = NoTable /\ last = NoTable
    /\ status = [active |-> {}, whole |-> FALSE, fresh |-> FALSE]
    /\ proxy = NoProxy /\ ptable = NoTable /\ psig = NoTable /\ lost = FALSE
    /\ faults = 0 /\ changes = 0

Fault == faults < MaxFaults /\ faults' = faults + 1 /\ UNCHANGED <<enabled, portal, changes>>
Change == changes < MaxChanges /\ changes' = changes + 1 /\ UNCHANGED faults

-----------------------------------------------------------------------------
(* udhcpc's events and lease_event, one step per group of commands.         *)

hookFrame == <<child, dhcp, supVars, proxyVars, world>>

\* udhcpc starts the hook; a new udhcpc begins with `deconfig`.
HookStarts(l, pc, addr) ==
    /\ hook[l].pc = "idle"
    /\ hook' = [hook EXCEPT ![l] = [pc |-> pc, addr |-> addr, prev |-> lease[l].addr]]
    /\ dhcp' = [dhcp EXCEPT ![l] = addr]
    /\ UNCHANGED <<net, lease, torn, supVars, proxyVars>>

UdhcpcStarts(l) ==
    /\ child[l] = "new"
    /\ child' = [child EXCEPT ![l] = "on"]
    /\ HookStarts(l, "deconfig", None)
    /\ UNCHANGED world

LeaseLost(l) ==
    /\ Change
    /\ child[l] = "on" /\ dhcp[l] # None
    /\ HookStarts(l, "deconfig", None)
    /\ UNCHANGED <<child, enabled, portal>>

Bound(l, a) ==
    /\ child[l] = "on" /\ dhcp[l] = None
    /\ HookStarts(l, "bound", a)
    /\ UNCHANGED <<child, world>>

Renewed(l) ==
    /\ child[l] = "on" /\ dhcp[l] # None
    /\ HookStarts(l, "bound", dhcp[l])
    /\ UNCHANGED <<child, world>>

Deconfig(l) ==
    /\ hook[l].pc = "deconfig"
    /\ lease' = [lease EXCEPT ![l] = NoLease]
    /\ net' = [net EXCEPT ![l].addrs = {}, ![l].via = None, ![l].unreach = FALSE]
    /\ hook' = [hook EXCEPT ![l].pc = "closing"]
    /\ UNCHANGED <<torn, hookFrame>>

\* The unreachable route is not put back.
Deconfigured_LeavesTableEmpty(l) ==
    /\ hook[l].pc = "closing"
    /\ net' = [net EXCEPT ![l].src = @ \ {hook[l].prev}]
    /\ torn' = [torn EXCEPT ![l] = FALSE]
    /\ hook' = [hook EXCEPT ![l] = NoHook]
    /\ UNCHANGED <<lease, hookFrame>>

Deconfigured(l) ==
    /\ hook[l].pc = "closing"
    /\ net' = [net EXCEPT ![l].unreach = TRUE, ![l].src = @ \ {hook[l].prev}]
    /\ torn' = [torn EXCEPT ![l] = FALSE]
    /\ hook' = [hook EXCEPT ![l] = NoHook]
    /\ UNCHANGED <<lease, hookFrame>>

\* Another address before: its rule, address and routes go first.
DropPrevious(l) ==
    /\ hook[l].pc = "bound"
    /\ net' = IF hook[l].prev \in {None, hook[l].addr} THEN net
              ELSE [net EXCEPT ![l].src = @ \ {hook[l].prev}, ![l].addrs = @ \ {hook[l].prev},
                               ![l].via = None, ![l].unreach = FALSE]
    /\ hook' = [hook EXCEPT ![l].pc = "routes"]
    /\ UNCHANGED <<lease, torn, hookFrame>>

Routed(n, a) == [n EXCEPT !.addrs = @ \cup {a}, !.via = a]

AddRoutes(l) ==
    /\ hook[l].pc = "routes" /\ net[l].link
    /\ net' = [net EXCEPT ![l] = [Routed(@, hook[l].addr) EXCEPT !.unreach = TRUE]]
    /\ torn' = [torn EXCEPT ![l] = FALSE]
    /\ hook' = [hook EXCEPT ![l].pc = IF hook[l].prev = hook[l].addr THEN "save" ELSE "delete"]
    /\ UNCHANGED <<lease, hookFrame>>

DeleteRule(l) ==
    /\ hook[l].pc = "delete"
    /\ net' = [net EXCEPT ![l].src = @ \ {hook[l].addr}]
    /\ hook' = [hook EXCEPT ![l].pc = "add"]
    /\ UNCHANGED <<lease, torn, hookFrame>>

AddRule(l) ==
    /\ hook[l].pc = "add" /\ hook[l].addr \notin net[l].src
    /\ net' = [net EXCEPT ![l].src = @ \cup {hook[l].addr}]
    /\ hook' = [hook EXCEPT ![l].pc = "save"]
    /\ UNCHANGED <<lease, torn, hookFrame>>

\* No interface any more, or a rule that the supervisor has just added
\* (`ip rule add`: File exists): the hook ends without saving the lease.
HookRaises(l) ==
    /\ \/ hook[l].pc = "routes" /\ ~net[l].link
       \/ hook[l].pc = "add" /\ hook[l].addr \in net[l].src
    /\ hook' = [hook EXCEPT ![l] = NoHook]
    /\ UNCHANGED <<net, lease, torn, hookFrame>>

SaveLease(l) ==
    /\ hook[l].pc = "save"
    /\ lease' = [lease EXCEPT ![l] = [addr |-> hook[l].addr, valid |-> TRUE]]
    /\ hook' = [hook EXCEPT ![l] = NoHook]
    /\ UNCHANGED <<net, torn, hookFrame>>

HookDies(l) ==
    /\ Fault
    /\ hook[l].pc # "idle"
    /\ hook' = [hook EXCEPT ![l] = NoHook]
    /\ torn' = [torn EXCEPT ![l] = TRUE]
    /\ UNCHANGED <<net, lease, child, dhcp, supVars, proxyVars>>

-----------------------------------------------------------------------------
(* The supervisor: daemon().                                                *)

\* cleanup_line; a source rule that is not the current lease's stays behind.
Removed(l) == [NoNet EXCEPT !.src = net[l].src \ {lease[l].addr}]
CleanedUp(S) ==
    /\ net' = [l \in Lines |-> IF l \in S THEN Removed(l) ELSE net[l]]
    /\ lease' = [l \in Lines |-> IF l \in S THEN NoLease ELSE lease[l]]
    /\ UNCHANGED <<hook, torn>>
Terminated(S) ==
    /\ child' = [l \in Lines |-> IF l \in S THEN "none" ELSE child[l]]
    /\ dhcp' = [l \in Lines |-> IF l \in S THEN None ELSE dhcp[l]]

\* procd starts the daemon; a former one's udhcpc is found by its pid file.
Start ==
    /\ sup.pc = "down"
    /\ CleanedUp(Lines) /\ Terminated(Lines)
    /\ table' = NoTable /\ last' = NoTable /\ defer' = {}
    /\ sup' = Waiting
    /\ UNCHANGED <<status, proxyVars, world>>

supFrame == <<status, proxyVars, world>>
Goto(pc) == sup' = [sup EXCEPT !.pc = pc]

Wake ==
    /\ sup.pc = "wait"
    /\ sup' = [Waiting EXCEPT !.pc = "line", !.todo = Lines]
    /\ UNCHANGED <<lineVars, defer, table, last, supFrame>>

\* The lines are handled without end.
NextLine_KeepsLine(l) == sup' = [sup EXCEPT !.todo = @ \ {l}, !.pc = "line"]

NextLine(l) == sup' = [sup EXCEPT !.todo = @ \ {l}, !.pc = IF sup.todo = {l} THEN "check" ELSE "line"]
AtLine(pc, l) == sup.pc = pc /\ sup.todo # {} /\ l = Min(sup.todo)

\* A lease file that a late hook wrote is not noticed.
DisabledLine_LooksAtLinkOnly(l) ==
    /\ AtLine("line", l) /\ ~enabled[l]
    /\ Terminated({l})
    /\ CleanedUp(IF net[l].link THEN {l} ELSE {})
    /\ NextLine(l)
    /\ defer' = defer \ {l}
    /\ UNCHANGED <<table, last, supFrame>>

DisabledLine(l) ==
    /\ AtLine("line", l) /\ ~enabled[l]
    /\ Terminated({l})
    /\ CleanedUp(IF net[l].link \/ lease[l] # NoLease THEN {l} ELSE {})
    /\ NextLine(l)
    /\ defer' = defer \ {l}
    /\ UNCHANGED <<table, last, supFrame>>

ReadLease(l) ==
    /\ AtLine("line", l) /\ enabled[l]
    /\ sup' = IF lease[l].valid THEN [sup EXCEPT !.pc = "routes", !.addr = lease[l].addr]
                                ELSE [sup EXCEPT !.pc = "child"]
    /\ UNCHANGED <<lineVars, defer, table, last, supFrame>>

PutRoutes(l) ==
    /\ AtLine("routes", l) /\ net[l].link
    /\ net' = [net EXCEPT ![l] = Routed(@, sup.addr)]
    /\ Goto("delete")
    /\ UNCHANGED <<child, dhcp, lease, hook, torn, defer, table, last, supFrame>>

TakeRule(l) ==
    /\ AtLine("delete", l)
    /\ net' = [net EXCEPT ![l].src = @ \ {sup.addr}]
    /\ Goto("add")
    /\ UNCHANGED <<child, dhcp, lease, hook, torn, defer, table, last, supFrame>>

PutRule(l) ==
    /\ AtLine("add", l) /\ sup.addr \notin net[l].src
    /\ net' = [net EXCEPT ![l].src = @ \cup {sup.addr}]
    /\ Goto("child")
    /\ UNCHANGED <<child, dhcp, lease, hook, torn, defer, table, last, supFrame>>

\* setup_line when udhcpc is missing or has ended.
EnsureChild(l) ==
    /\ AtLine("child", l)
    /\ IF child[l] \in {"none", "dead"}
       THEN /\ net' = [net EXCEPT ![l].link = TRUE, ![l].mark = TRUE, ![l].unreach = TRUE]
            /\ child' = [child EXCEPT ![l] = "new"]
            /\ dhcp' = [dhcp EXCEPT ![l] = None]
            /\ torn' = [torn EXCEPT ![l] = FALSE]
       ELSE UNCHANGED <<net, child, dhcp, torn>>
    /\ NextLine(l)
    /\ UNCHANGED <<lease, hook, defer, table, last, supFrame>>

\* probe_primary and check_secondary: who is online, who could log in, and
\* whose next login is put off. A check that raises or takes too long, and a
\* main WAN that is down, leave a state that names no interface: the status is
\* not whole. A check that took too long may have logged in all the same.
Checkable == {Primary} \cup {l \in Lines : enabled[l] /\ lease[l].valid}
LogsIn == {l \in Checkable \ (defer \cup {Primary}) : portal[l] = "login"}
Checked(raised) ==
    /\ sup.pc = "check"
    /\ \E late \in SUBSET (LogsIn \cap raised) :
         portal' = [i \in DOMAIN portal |-> IF i \in (LogsIn \ raised) \cup late THEN "on" ELSE portal[i]]
    /\ defer' = {l \in Checkable \ (raised \cup {Primary}) :
                    portal[l] = "refused" \/ (portal[l] = "login" /\ l \in defer)}
    /\ sup' = [sup EXCEPT !.pc = "policy", !.whole = (raised = {}),
                          !.active = {i \in Checkable \ raised : portal'[i] = "on"}]
    /\ UNCHANGED <<lineVars, table, last, status, proxyVars, enabled>>

Failing == {i \in Checkable : portal[i] = "failing"}
Check == Checked(Failing) /\ UNCHANGED <<faults, changes>>

\* A table that is gone is not noticed.
Policy_SignatureOnly ==
    /\ sup.pc = "policy"
    /\ sup' = [sup EXCEPT !.exists = table # NoTable,
                          !.pc = IF sup.active # last THEN "apply" ELSE "status"]
    /\ UNCHANGED <<lineVars, defer, table, last, supFrame>>

\* The policy is installed when it changed or its table is gone.
Policy ==
    /\ sup.pc = "policy"
    /\ sup' = [sup EXCEPT !.exists = table # NoTable,
                          !.pc = IF sup.active # last \/ table = NoTable THEN "apply" ELSE "status"]
    /\ UNCHANGED <<lineVars, defer, table, last, supFrame>>

Apply ==
    /\ sup.pc = "apply" /\ sup.exists = (table # NoTable)
    /\ table' = sup.active /\ last' = sup.active
    /\ Goto("status")
    /\ UNCHANGED <<lineVars, defer, supFrame>>

WriteStatus ==
    /\ sup.pc = "status"
    /\ status' = [active |-> sup.active, whole |-> sup.whole, fresh |-> TRUE]
    /\ sup' = Waiting
    /\ UNCHANGED <<lineVars, defer, table, last, proxyVars, world>>

\* Any exception of a round deletes the policy table.
RoundEnds ==
    /\ table' = NoTable /\ last' = NoTable
    /\ sup' = Waiting
    /\ UNCHANGED <<lineVars, defer, status, proxyVars>>

RoundRaises ==
    /\ \/ \E l \in Lines : AtLine("routes", l) /\ ~net[l].link
       \/ \E l \in Lines : AtLine("add", l) /\ sup.addr \in net[l].src
       \/ sup.pc = "apply" /\ sup.exists # (table # NoTable)
    /\ RoundEnds
    /\ UNCHANGED world

\* Another check raises this time.
CheckRaises ==
    /\ faults < MaxFaults /\ faults' = faults + 1 /\ UNCHANGED changes
    /\ \E i \in Checkable \ Failing : Checked(Failing \cup {i})

RoundFails == Fault /\ sup.pc \notin {"down", "wait"} /\ RoundEnds

Stop ==
    /\ Fault
    /\ sup.pc = "wait"
    /\ CleanedUp(Lines) /\ Terminated(Lines)
    /\ table' = NoTable
    /\ status' = [active |-> {}, whole |-> FALSE, fresh |-> TRUE]
    /\ sup' = Down
    /\ UNCHANGED <<defer, last, proxyVars>>

Crash ==
    /\ Fault
    /\ sup.pc # "down"
    /\ sup' = Down
    /\ UNCHANGED <<lineVars, defer, table, last, status, proxyVars>>

LoginDue ==
    /\ defer # {}
    /\ \E l \in defer : defer' = defer \ {l}
    /\ UNCHANGED <<lineVars, sup, table, last, supFrame>>

-----------------------------------------------------------------------------
(* The HomeProxy follower: reconcile() of integration.py.                   *)

\* A status that is stale, that a stopped supervisor left, or that lacks the
\* interface of any identity, is refused and the table stays. (The signature
\* also names the disabled lines, on which only source NAT depends.)
Follow ==
    /\ proxy.pc = "idle" /\ status.fresh /\ status.whole
    /\ ptable = NoTable \/ psig # status.active
    /\ proxy' = [pc |-> "apply", want |-> status.active, exists |-> ptable # NoTable]
    /\ UNCHANGED <<lineVars, supVars, ptable, psig, lost, world>>

FollowApply ==
    /\ proxy.pc = "apply"
    /\ IF proxy.exists = (ptable # NoTable)
       THEN ptable' = proxy.want /\ lost' = FALSE /\ proxy' = [proxy EXCEPT !.pc = "save"]
       ELSE proxy' = NoProxy /\ UNCHANGED <<ptable, lost>>
    /\ UNCHANGED <<lineVars, supVars, psig, world>>

FollowSave ==
    /\ proxy.pc = "save"
    /\ psig' = proxy.want /\ proxy' = NoProxy
    /\ UNCHANGED <<lineVars, supVars, ptable, lost, world>>

FollowerDies ==
    /\ Fault
    /\ proxy.pc # "idle" /\ proxy' = NoProxy
    /\ lost' = (lost \/ proxy.pc = "save")
    /\ UNCHANGED <<lineVars, supVars, ptable, psig>>

-----------------------------------------------------------------------------
(* Environment.                                                             *)

ConfigChanges(l) ==
    /\ Change
    /\ enabled' = [enabled EXCEPT ![l] = ~@]
    /\ UNCHANGED <<portal, lineVars, supVars, proxyVars>>

PortalChanges(i) ==
    /\ Change
    /\ \E s \in {"on", "login", "refused", "failing"} \ {portal[i]} : portal' = [portal EXCEPT ![i] = s]
    /\ UNCHANGED <<enabled, lineVars, supVars, proxyVars>>

UdhcpcDies(l) ==
    /\ Fault
    /\ child[l] \in {"new", "on"} /\ child' = [child EXCEPT ![l] = "dead"]
    /\ dhcp' = [dhcp EXCEPT ![l] = None]
    /\ UNCHANGED <<net, lease, hook, torn, supVars, proxyVars>>

\* A lease that no udhcpc renews.
LeaseExpires(l) ==
    /\ lease[l].valid /\ dhcp[l] # lease[l].addr /\ hook[l].pc = "idle"
    /\ lease' = [lease EXCEPT ![l].valid = FALSE]
    /\ UNCHANGED <<net, child, dhcp, hook, torn, supVars, proxyVars, world>>

TableDeleted ==
    /\ Fault
    /\ \/ table # NoTable /\ table' = NoTable /\ UNCHANGED ptable
       \/ ptable # NoTable /\ ptable' = NoTable /\ UNCHANGED table
    /\ UNCHANGED <<lineVars, sup, defer, last, status, proxy, psig, lost>>

StatusAges ==
    /\ Fault
    /\ status.fresh /\ status' = [status EXCEPT !.fresh = FALSE]
    /\ UNCHANGED <<lineVars, sup, defer, table, last, proxyVars>>

-----------------------------------------------------------------------------
HookStep(l) ==
    \/ Deconfig(l) \/ Deconfigured(l) \/ DropPrevious(l) \/ AddRoutes(l)
    \/ DeleteRule(l) \/ AddRule(l) \/ HookRaises(l) \/ SaveLease(l)
Udhcpc(l) == UdhcpcStarts(l) \/ \E a \in Addresses : Bound(l, a)
Round ==
    \/ Start \/ Wake \/ Check \/ Policy \/ Apply \/ WriteStatus \/ RoundRaises
    \/ \E l \in Lines :
        DisabledLine(l) \/ ReadLease(l) \/ PutRoutes(l) \/ TakeRule(l) \/ PutRule(l) \/ EnsureChild(l)
Follower == Follow \/ FollowApply \/ FollowSave
Environment ==
    \/ CheckRaises \/ RoundFails \/ Stop \/ Crash \/ FollowerDies \/ TableDeleted \/ StatusAges
    \/ \E l \in Lines : LeaseLost(l) \/ HookDies(l) \/ ConfigChanges(l) \/ UdhcpcDies(l)
    \/ \E i \in DOMAIN portal : PortalChanges(i)

Next ==
    \/ Round \/ LoginDue \/ Follower \/ Environment
    \/ \E l \in Lines : HookStep(l) \/ Udhcpc(l) \/ Renewed(l) \/ LeaseExpires(l)

Spec == Init /\ [][Next]_vars

\* procd restarts the daemon, which runs a round every 15 s; DHCP servers
\* answer and udhcpc renews its leases, and others expire; a hook that started goes on; the
\* follower looks at the status every 5 s; a deferred login falls due.
FairSpec ==
    /\ Spec
    /\ WF_vars(Round) /\ WF_vars(Follower) /\ WF_vars(LoginDue)
    /\ \A l \in Lines : WF_vars(HookStep(l)) /\ WF_vars(Udhcpc(l) \/ Renewed(l)) /\ WF_vars(LeaseExpires(l))

-----------------------------------------------------------------------------
(* Properties.                                                              *)

Tables == (SUBSET (Lines \cup {Primary})) \cup {NoTable}

\* The types of all variables.
TypeOK ==
    /\ enabled \in [Lines -> BOOLEAN]
    /\ portal \in [Lines \cup {Primary} -> {"on", "login", "refused", "failing"}]
    /\ net \in [Lines -> [link : BOOLEAN, mark : BOOLEAN, src : SUBSET Addresses, addrs : SUBSET Addresses,
                          via : Addresses \cup {None}, unreach : BOOLEAN]]
    /\ child \in [Lines -> {"none", "dead", "new", "on"}]
    /\ dhcp \in [Lines -> Addresses \cup {None}]
    /\ lease \in [Lines -> [addr : Addresses \cup {None}, valid : BOOLEAN]]
    /\ hook \in [Lines -> [pc : {"idle", "deconfig", "closing", "bound", "routes", "delete", "add", "save"},
                           addr : Addresses \cup {None}, prev : Addresses \cup {None}]]
    /\ torn \in [Lines -> BOOLEAN] /\ lost \in BOOLEAN
    /\ sup.pc \in {"down", "wait", "line", "routes", "delete", "add", "child", "check", "policy", "apply", "status"}
    /\ sup.pc \in {"line", "routes", "delete", "add", "child"} => sup.todo # {} /\ sup.todo \subseteq Lines
    /\ sup.pc \in {"routes", "delete", "add"} => sup.addr \in Addresses
    /\ defer \subseteq Lines
    /\ table \in Tables /\ last \in Tables /\ ptable \in Tables /\ psig \in Tables
    /\ sup.active \in Tables /\ status.active \in Tables
    /\ sup.whole \in BOOLEAN /\ status.whole \in BOOLEAN /\ status.fresh \in BOOLEAN
    /\ proxy.pc \in {"idle", "apply", "save"} /\ proxy.want \in Tables

\* Marked traffic of a line never borrows another one: whenever udhcpc serves
\* the line and no hook is at work in its table, the rule of its mark leads to a
\* table with a default or an unreachable route, so that a lookup cannot fall
\* through to the main WAN; whatever the supervisor, an old hook and restarts
\* did in between.  (A hook that was killed half-way is the exception.)
NoBorrow ==
    \A l \in Lines :
        child[l] \in {"new", "on"} /\ hook[l].pc = "idle" /\ ~torn[l] =>
            net[l].mark /\ (net[l].via # None \/ net[l].unreach)

\* In the end routes, address and rule of an enabled line are those of its
\* lease, although reconcile_lease may put the ones of an older lease back, and
\* a disabled line has no udhcpc, interface, lease, mark rule or default route
\* left.
Settled(l) ==
    IF enabled[l]
    THEN LET a == lease[l].addr
         IN  /\ lease[l].valid /\ child[l] = "on" /\ dhcp[l] = a
             /\ net[l].mark /\ net[l].via = a /\ a \in net[l].addrs
             /\ a \in net[l].src \/ sup.pc = "add"
    ELSE child[l] = "none" /\ lease[l] = NoLease /\ ~net[l].link /\ ~net[l].mark /\ net[l].via = None

LinesSettle == \A l \in Lines : <>[]Settled(l)

\* In the end both policy tables hold exactly the identities that can be online,
\* after any failed round or check, deleted table, refused login or restart.
\* Two exceptions, both for the follower's table only: a follower killed between
\* its table and its state file (the file's signature may be that of the lines
\* to come), and an identity whose check keeps failing, which makes every status
\* one that the follower refuses (DeadLineLeft).
Identities == {Primary} \cup {l \in Lines : enabled[l]}
Online == {i \in Identities : portal[i] = "on" \/ (portal[i] = "login" /\ i # Primary)}

PoliciesSettle ==
    <>[](/\ table = Online
         /\ ptable = Online \/ lost \/ \E i \in Identities : portal[i] = "failing")

\* The integration's README: connections are assigned "by healthy line". An
\* identity that stays dead leaves the follower's table in the end.
DeadLineLeft ==
    \A i \in {Primary} \cup Lines : <>[](i \notin Online) => <>[](i \notin ptable)
=============================================================================
