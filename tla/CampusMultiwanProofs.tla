------------------------- MODULE CampusMultiwanProofs -------------------------
(***************************************************************************)
(* A line's marked traffic never falls through to the main WAN, for any    *)
(* lines, addresses and number of failures, crashes and changes.           *)
(***************************************************************************)
EXTENDS CampusMultiwan, TLAPS

(***************************************************************************)
(* The inductive invariant                                                 *)
(***************************************************************************)
MaybeAddress == Addresses \cup {None}
AllIds == Lines \cup {Primary}
Net == [link : BOOLEAN, mark : BOOLEAN, src : SUBSET Addresses, addrs : SUBSET Addresses,
        via : MaybeAddress, unreach : BOOLEAN]
Lease == [addr : MaybeAddress, valid : BOOLEAN]
Hook == [pc : {"idle", "deconfig", "closing", "bound", "routes", "delete", "add", "save"},
         addr : MaybeAddress, prev : MaybeAddress]
Supervisor ==
    [pc : {"down", "wait", "line", "routes", "delete", "add", "child", "check", "policy", "apply", "status"},
     todo : SUBSET Lines, addr : MaybeAddress, active : SUBSET AllIds, whole : BOOLEAN,
     exists : BOOLEAN]
Proxy == [pc : {"idle", "apply", "save"}, want : Tables, exists : BOOLEAN]

\* A valid lease, and a hook that a lease started, have an address.
LeaseOK(x) == x.valid => x.addr \in Addresses
HookOK(h) == h.pc \in {"bound", "routes", "delete", "add", "save"} => h.addr \in Addresses

LinesOK ==
    /\ net \in [Lines -> Net]
    /\ child \in [Lines -> {"none", "dead", "new", "on"}]
    /\ dhcp \in [Lines -> MaybeAddress]
    /\ lease \in [Lines -> Lease]
    /\ hook \in [Lines -> Hook]
    /\ torn \in [Lines -> BOOLEAN]
    /\ \A l \in Lines : LeaseOK(lease[l]) /\ HookOK(hook[l])

\* The lines a round has still to handle, and the lease it reconciles.
RoundOK(s) ==
    /\ s.pc \in {"line", "routes", "delete", "add", "child"} => s.todo # {}
    /\ s.pc \in {"routes", "delete", "add"} => s.addr \in Addresses

SupOK ==
    /\ sup \in Supervisor /\ RoundOK(sup)
    /\ defer \subseteq Lines /\ table \in Tables /\ last \in Tables
    /\ status \in [active : SUBSET AllIds, whole : BOOLEAN, fresh : BOOLEAN]

ProxyOK == proxy \in Proxy /\ ptable \in Tables /\ psig \in Tables /\ lost \in BOOLEAN

WorldOK ==
    /\ enabled \in [Lines -> BOOLEAN]
    /\ portal \in [AllIds -> {"on", "login", "refused", "failing"}]

\* The table of the line's mark: a lookup in it finds a route, or is refused.
Filled(l) == net[l].via # None \/ net[l].unreach

\* The line has its interface and its rule while udhcpc serves it, and its
\* table is empty only in the hands of a hook, or after one that was killed.
Served(l) ==
    child[l] \in {"new", "on"} =>
        /\ net[l].link /\ net[l].mark
        /\ torn[l] \/ hook[l].pc \in {"closing", "routes"} \/ Filled(l)

AllServed == \A l \in Lines : Served(l)

Types == LinesOK /\ SupOK /\ ProxyOK /\ WorldOK
CampusInv == Types /\ AllServed

\* What a step that leaves a group of variables alone cannot disturb.
LEMMA LinesFrame == LinesOK /\ UNCHANGED <<net, child, dhcp, lease, hook, torn>> => LinesOK'
  BY DEF LinesOK

LEMMA ServedFrame == AllServed /\ UNCHANGED <<net, child, hook, torn>> => AllServed'
  BY DEF AllServed, Served, Filled

LEMMA SupFrame == SupOK /\ UNCHANGED <<sup, defer, table, last, status>> => SupOK'
  BY DEF SupOK

LEMMA ProxyFrame == ProxyOK /\ UNCHANGED <<proxy, ptable, psig, lost>> => ProxyOK'
  BY DEF ProxyOK

LEMMA WorldFrame == WorldOK /\ UNCHANGED <<enabled, portal>> => WorldOK'
  BY DEF WorldOK

\* The three groups that the hook leaves alone.
LEMMA HookFrame ==
    ASSUME Types, UNCHANGED <<supVars, proxyVars, enabled, portal>>
    PROVE  SupOK' /\ ProxyOK' /\ WorldOK'
  BY SupFrame, ProxyFrame, WorldFrame DEF Types, supVars, proxyVars

\* Records of the groups.
LEMMA NetFacts ==
    ASSUME NEW n \in Net
    PROVE  /\ n.link \in BOOLEAN /\ n.mark \in BOOLEAN /\ n.unreach \in BOOLEAN
           /\ n.src \in SUBSET Addresses /\ n.addrs \in SUBSET Addresses /\ n.via \in MaybeAddress
  BY DEF Net

\* The hook's steps, and udhcpc's events that start it.
LEMMA HookStarted ==
    ASSUME CampusInv, NEW l \in Lines, NEW pc \in {"deconfig", "bound"}, NEW a \in MaybeAddress,
           pc = "bound" => a \in Addresses,
           child' = child \/ (child[l] = "new" /\ child' = [child EXCEPT ![l] = "on"]),
           HookStarts(l, pc, a)
    PROVE  LinesOK' /\ AllServed'
<1>1. LinesOK /\ AllServed
  BY DEF CampusInv, Types
<1> DEFINE h == [pc |-> pc, addr |-> a, prev |-> lease[l].addr]
<1>2. /\ hook[l].pc = "idle" /\ hook' = [hook EXCEPT ![l] = h]
      /\ dhcp' = [dhcp EXCEPT ![l] = a] /\ UNCHANGED <<net, lease, torn>>
  BY DEF HookStarts
<1>3. h \in Hook /\ HookOK(h) /\ h.pc = pc
  BY <1>1 DEF LinesOK, Lease, Hook, HookOK
<1> HIDE DEF h
<1>4. child' \in [Lines -> {"none", "dead", "new", "on"}]
  BY <1>1 DEF LinesOK
<1>5. LinesOK'
  BY <1>1, <1>2, <1>3, <1>4 DEF LinesOK
<1>6. AllServed'
  <2> SUFFICES ASSUME NEW k \in Lines, child'[k] \in {"new", "on"}
               PROVE  /\ net[k].link /\ net[k].mark
                      /\ torn[k] \/ hook'[k].pc \in {"closing", "routes"} \/ Filled(k)
    BY <1>2 DEF AllServed, Served, Filled
  <2>1. child[k] \in {"new", "on"}
    BY <1>1 DEF LinesOK
  <2>2. /\ net[k].link /\ net[k].mark
        /\ torn[k] \/ hook[k].pc \in {"closing", "routes"} \/ Filled(k)
    BY <1>1, <2>1 DEF AllServed, Served
  <2> QED
    BY <1>1, <1>2, <2>2 DEF LinesOK
<1> QED
  BY <1>5, <1>6

\* One line's kernel state, lease and hook are replaced.
LEMMA LineReplaced ==
    ASSUME CampusInv, NEW l \in Lines, NEW n \in Net, NEW x \in Lease, NEW h \in Hook, NEW t \in BOOLEAN,
           LeaseOK(x), HookOK(h),
           net' = [net EXCEPT ![l] = n], lease' = [lease EXCEPT ![l] = x],
           hook' = [hook EXCEPT ![l] = h], torn' = [torn EXCEPT ![l] = t],
           UNCHANGED <<child, dhcp>>,
           child[l] \in {"new", "on"} =>
               /\ n.link /\ n.mark
               /\ t \/ h.pc \in {"closing", "routes"} \/ n.via # None \/ n.unreach
    PROVE  LinesOK' /\ AllServed'
<1>1. LinesOK /\ AllServed
  BY DEF CampusInv, Types
<1>2. LinesOK'
  BY <1>1 DEF LinesOK
<1>3. ASSUME NEW k \in Lines
      PROVE  Served(k)'
  <2>1. CASE k = l
    <3>1. net'[l] = n /\ hook'[l] = h /\ torn'[l] = t /\ child'[l] = child[l]
      BY <1>1 DEF LinesOK
    <3> QED
      BY <2>1, <3>1 DEF Served, Filled
  <2>2. CASE k # l
    BY <1>1, <2>2 DEF LinesOK, AllServed, Served, Filled
  <2> QED
    BY <2>1, <2>2
<1> QED
  BY <1>2, <1>3 DEF AllServed

LEMMA Same ==
    ASSUME NEW T, NEW f \in [Lines -> T], NEW l \in Lines
    PROVE  f = [f EXCEPT ![l] = f[l]]
  OBVIOUS

\* The hook's own steps.
LEMMA HookStepTaken ==
    ASSUME CampusInv, NEW l \in Lines, HookStep(l)
    PROVE  LinesOK' /\ AllServed'
<1>1. LinesOK /\ AllServed
  BY DEF CampusInv, Types
<1> DEFINE n == net[l]
           x == lease[l]
           h == hook[l]
           t == torn[l]
<1>2. n \in Net /\ x \in Lease /\ h \in Hook /\ t \in BOOLEAN /\ LeaseOK(x) /\ HookOK(h)
  BY <1>1 DEF LinesOK
<1>3. child[l] \in {"new", "on"} =>
          n.link /\ n.mark /\ (t \/ h.pc \in {"closing", "routes"} \/ n.via # None \/ n.unreach)
  BY <1>1 DEF AllServed, Served, Filled
<1>4. /\ net = [net EXCEPT ![l] = n] /\ lease = [lease EXCEPT ![l] = x]
      /\ hook = [hook EXCEPT ![l] = h] /\ torn = [torn EXCEPT ![l] = t]
  <2> HIDE DEF n, x, h, t
  <2> QED
    BY <1>1, Same DEF LinesOK, n, x, h, t
<1>5. NoLease \in Lease /\ LeaseOK(NoLease) /\ NoHook \in Hook /\ HookOK(NoHook) /\ NoHook.pc = "idle"
  BY DEF NoLease, NoHook, Lease, Hook, LeaseOK, HookOK, MaybeAddress
<1>6. ASSUME NEW p \in {"closing"}
      PROVE  [h EXCEPT !.pc = p] \in Hook /\ HookOK([h EXCEPT !.pc = p]) /\ [h EXCEPT !.pc = p].pc = p
  BY <1>2 DEF Hook, HookOK
<1>7. ASSUME NEW p \in {"routes", "delete", "add", "save"}, h.addr \in Addresses
      PROVE  [h EXCEPT !.pc = p] \in Hook /\ HookOK([h EXCEPT !.pc = p]) /\ [h EXCEPT !.pc = p].pc = p
  BY <1>2, <1>7 DEF Hook, HookOK
<1>8. h.pc \in {"bound", "routes", "delete", "add", "save"} => h.addr \in Addresses
  BY <1>2 DEF HookOK
<1>9. None \notin Addresses
  BY CampusAssumption DEF CampusAssumption
<1>10. CASE Deconfig(l)
  <2> DEFINE m == [n EXCEPT !.addrs = {}, !.via = None, !.unreach = FALSE]
  <2>1. /\ net' = [net EXCEPT ![l] = m] /\ lease' = [lease EXCEPT ![l] = NoLease]
        /\ hook' = [hook EXCEPT ![l] = [h EXCEPT !.pc = "closing"]]
        /\ torn' = torn /\ child' = child /\ dhcp' = dhcp
    BY <1>1, <1>10 DEF Deconfig, hookFrame, LinesOK
  <2>2. m \in Net /\ m.link = n.link /\ m.mark = n.mark
    BY <1>2 DEF Net, MaybeAddress
  <2> HIDE DEF m, n, x, h, t
  <2> QED
    BY <1>2, <1>3, <1>4, <1>5, <1>6, <2>1, <2>2, LineReplaced
<1>11. CASE Deconfigured(l)
  <2> DEFINE m == [n EXCEPT !.unreach = TRUE, !.src = @ \ {h.prev}]
  <2>1. /\ net' = [net EXCEPT ![l] = m] /\ lease' = lease
        /\ hook' = [hook EXCEPT ![l] = NoHook] /\ torn' = [torn EXCEPT ![l] = FALSE]
        /\ child' = child /\ dhcp' = dhcp
    BY <1>1, <1>11 DEF Deconfigured, hookFrame, LinesOK
  <2>2. m \in Net /\ m.link = n.link /\ m.mark = n.mark /\ m.unreach
    BY <1>2 DEF Net
  <2> HIDE DEF m, n, x, h, t
  <2> QED
    BY <1>2, <1>3, <1>4, <1>5, <2>1, <2>2, LineReplaced
<1>12. CASE DropPrevious(l)
  <2> DEFINE m == [n EXCEPT !.src = @ \ {h.prev}, !.addrs = @ \ {h.prev}, !.via = None, !.unreach = FALSE]
             r == IF h.prev \in {None, h.addr} THEN n ELSE m
  <2>1. /\ h.pc = "bound" /\ net' = [net EXCEPT ![l] = r] /\ lease' = lease
        /\ hook' = [hook EXCEPT ![l] = [h EXCEPT !.pc = "routes"]] /\ torn' = torn
        /\ child' = child /\ dhcp' = dhcp
    BY <1>1, <1>4, <1>12 DEF DropPrevious, hookFrame, LinesOK
  <2>2. r \in Net /\ r.link = n.link /\ r.mark = n.mark
    BY <1>2 DEF Net, MaybeAddress
  <2> HIDE DEF m, r, n, x, h, t
  <2> QED
    BY <1>2, <1>3, <1>4, <1>7, <1>8, <2>1, <2>2, LineReplaced
<1>13. CASE AddRoutes(l)
  <2> DEFINE m == [Routed(n, h.addr) EXCEPT !.unreach = TRUE]
             p == IF h.prev = h.addr THEN "save" ELSE "delete"
  <2>1. /\ h.pc = "routes" /\ net' = [net EXCEPT ![l] = m] /\ lease' = lease
        /\ hook' = [hook EXCEPT ![l] = [h EXCEPT !.pc = p]] /\ torn' = [torn EXCEPT ![l] = FALSE]
        /\ child' = child /\ dhcp' = dhcp
    BY <1>1, <1>13 DEF AddRoutes, hookFrame, LinesOK
  <2>2. m \in Net /\ m.link = n.link /\ m.mark = n.mark /\ m.unreach
    BY <1>2, <1>8, <2>1 DEF Routed, Net, MaybeAddress
  <2> HIDE DEF m, p, n, x, h, t
  <2>3. p \in {"routes", "delete", "add", "save"}
    BY DEF p
  <2> QED
    BY <1>2, <1>3, <1>4, <1>7, <1>8, <2>1, <2>2, <2>3, LineReplaced
<1>14. CASE DeleteRule(l)
  <2> DEFINE m == [n EXCEPT !.src = @ \ {h.addr}]
  <2>1. /\ h.pc = "delete" /\ net' = [net EXCEPT ![l] = m] /\ lease' = lease
        /\ hook' = [hook EXCEPT ![l] = [h EXCEPT !.pc = "add"]] /\ torn' = torn
        /\ child' = child /\ dhcp' = dhcp
    BY <1>1, <1>14 DEF DeleteRule, hookFrame, LinesOK
  <2>2. m \in Net /\ m.link = n.link /\ m.mark = n.mark /\ m.via = n.via /\ m.unreach = n.unreach
    BY <1>2 DEF Net
  <2> HIDE DEF m, n, x, h, t
  <2> QED
    BY <1>2, <1>3, <1>4, <1>7, <1>8, <2>1, <2>2, LineReplaced
<1>15. CASE AddRule(l)
  <2> DEFINE m == [n EXCEPT !.src = @ \cup {h.addr}]
  <2>1. /\ h.pc = "add" /\ net' = [net EXCEPT ![l] = m] /\ lease' = lease
        /\ hook' = [hook EXCEPT ![l] = [h EXCEPT !.pc = "save"]] /\ torn' = torn
        /\ child' = child /\ dhcp' = dhcp
    BY <1>1, <1>15 DEF AddRule, hookFrame, LinesOK
  <2>2. m \in Net /\ m.link = n.link /\ m.mark = n.mark /\ m.via = n.via /\ m.unreach = n.unreach
    BY <1>2, <1>8, <2>1 DEF Net
  <2> HIDE DEF m, n, x, h, t
  <2> QED
    BY <1>2, <1>3, <1>4, <1>7, <1>8, <2>1, <2>2, LineReplaced
<1>16. CASE HookRaises(l)
  <2>1. /\ (h.pc = "routes" /\ ~n.link) \/ h.pc = "add"
        /\ net' = net /\ lease' = lease /\ hook' = [hook EXCEPT ![l] = NoHook] /\ torn' = torn
        /\ child' = child /\ dhcp' = dhcp
    BY <1>16 DEF HookRaises, hookFrame
  <2> HIDE DEF n, x, h, t
  <2> QED
    BY <1>2, <1>3, <1>4, <1>5, <2>1, LineReplaced
<1>17. CASE SaveLease(l)
  <2> DEFINE y == [addr |-> h.addr, valid |-> TRUE]
  <2>1. /\ h.pc = "save" /\ net' = net /\ lease' = [lease EXCEPT ![l] = y]
        /\ hook' = [hook EXCEPT ![l] = NoHook] /\ torn' = torn
        /\ child' = child /\ dhcp' = dhcp
    BY <1>17 DEF SaveLease, hookFrame
  <2>2. y \in Lease /\ LeaseOK(y)
    BY <1>8, <2>1 DEF Lease, LeaseOK, MaybeAddress
  <2> HIDE DEF y, n, x, h, t
  <2> QED
    BY <1>2, <1>3, <1>4, <1>5, <2>1, <2>2, LineReplaced
<1> QED
  BY <1>10, <1>11, <1>12, <1>13, <1>14, <1>15, <1>16, <1>17 DEF HookStep

\* cleanup_line of the lines S, after udhcpc of the lines T was ended.
LEMMA CleanedLines ==
    ASSUME CampusInv, NEW T \in SUBSET Lines, NEW S \in SUBSET T, CleanedUp(S), Terminated(T)
    PROVE  LinesOK' /\ AllServed'
<1>1. LinesOK /\ AllServed
  BY DEF CampusInv, Types
<1>2. ASSUME NEW l \in Lines
      PROVE  Removed(l) \in Net
  <2>1. net[l].src \ {lease[l].addr} \in SUBSET Addresses
    BY <1>1, NetFacts DEF LinesOK
  <2> QED
    BY <2>1 DEF Removed, NoNet, Net, MaybeAddress
<1>3. net' \in [Lines -> Net]
  BY <1>1, <1>2 DEF LinesOK, CleanedUp
<1>4. lease' \in [Lines -> Lease] /\ \A l \in Lines : LeaseOK(lease'[l])
  <2>1. NoLease \in Lease /\ LeaseOK(NoLease)
    BY DEF NoLease, Lease, LeaseOK, MaybeAddress
  <2> QED
    BY <1>1, <2>1 DEF LinesOK, CleanedUp
<1>5. /\ child' \in [Lines -> {"none", "dead", "new", "on"}]
      /\ dhcp' \in [Lines -> MaybeAddress]
  BY <1>1 DEF LinesOK, Terminated, MaybeAddress
<1>6. LinesOK'
  BY <1>1, <1>3, <1>4, <1>5 DEF LinesOK, CleanedUp
<1>7. ASSUME NEW l \in Lines, child'[l] \in {"new", "on"}
      PROVE  Served(l)'
  <2>1. l \notin T /\ child'[l] = child[l]
    BY <1>7 DEF Terminated
  <2>2. net'[l] = net[l] /\ hook' = hook /\ torn' = torn
    BY <2>1 DEF CleanedUp
  <2> QED
    BY <1>1, <2>1, <2>2 DEF AllServed, Served, Filled
<1> QED
  BY <1>6, <1>7 DEF AllServed, Served

\* Places of the supervisor in its round.
LEMMA SupFacts ==
    ASSUME SupOK
    PROVE  /\ sup.todo \in SUBSET Lines /\ sup.addr \in MaybeAddress
           /\ sup.active \in SUBSET AllIds /\ sup.active \in Tables
           /\ sup.whole \in BOOLEAN /\ sup.exists \in BOOLEAN
           /\ Waiting \in Supervisor /\ RoundOK(Waiting)
           /\ Down \in Supervisor /\ RoundOK(Down)
           /\ NoTable \in Tables
<1>1. /\ sup.todo \in SUBSET Lines /\ sup.addr \in MaybeAddress
      /\ sup.active \in SUBSET AllIds /\ sup.whole \in BOOLEAN /\ sup.exists \in BOOLEAN
  BY DEF SupOK, Supervisor
<1>2. Down \in Supervisor /\ RoundOK(Down)
  BY DEF Down, Supervisor, RoundOK, MaybeAddress
<1>3. Waiting \in Supervisor /\ RoundOK(Waiting)
  BY DEF Down, Waiting, Supervisor, RoundOK, MaybeAddress
<1>4. sup.active \in Tables /\ NoTable \in Tables
  BY <1>1 DEF Tables, AllIds
<1> QED
  BY <1>1, <1>2, <1>3, <1>4

\* A line is done, and either it was the last one or there are more.
LEMMA LineDone ==
    ASSUME SupOK, NEW l \in Lines, sup.todo # {}, NextLine(l)
    PROVE  sup' \in Supervisor /\ RoundOK(sup')
<1>1. sup.todo \ {l} \in SUBSET Lines
  BY SupFacts
<1>2. sup' = [sup EXCEPT !.todo = sup.todo \ {l}, !.pc = IF sup.todo = {l} THEN "check" ELSE "line"]
  BY DEF NextLine, SupOK, Supervisor
<1>3. sup' \in Supervisor
  BY <1>1, <1>2 DEF SupOK, Supervisor
<1>4. CASE sup.todo = {l}
  <2>1. sup'.pc = "check"
    BY <1>2, <1>4 DEF SupOK, Supervisor
  <2> QED
    BY <1>3, <2>1 DEF RoundOK
<1>5. CASE sup.todo # {l}
  <2>1. sup'.pc = "line" /\ sup'.todo = sup.todo \ {l}
    BY <1>2, <1>5 DEF SupOK, Supervisor
  <2>2. sup.todo \ {l} # {}
    BY <1>5
  <2> QED
    BY <1>3, <2>1, <2>2 DEF RoundOK
<1> QED
  BY <1>4, <1>5

\* A round that goes on with the same line.
LEMMA Onwards ==
    ASSUME SupOK, NEW pc, sup' = [sup EXCEPT !.pc = pc],
           \/ pc = "child" /\ sup.todo # {}
           \/ pc \in {"apply", "status"}
           \/ pc \in {"delete", "add"} /\ sup.todo # {} /\ sup.addr \in Addresses
    PROVE  sup' \in Supervisor /\ RoundOK(sup')
  BY DEF SupOK, Supervisor, RoundOK

\* The steps of a round that are about one line.
LEMMA LineStep ==
    ASSUME CampusInv, NEW l \in Lines,
           \/ DisabledLine(l) \/ ReadLease(l) \/ PutRoutes(l)
           \/ TakeRule(l) \/ PutRule(l) \/ EnsureChild(l)
    PROVE  CampusInv'
<1>1. LinesOK /\ AllServed /\ SupOK /\ ProxyOK /\ WorldOK
  BY DEF CampusInv, Types
<1>2. sup \in Supervisor /\ RoundOK(sup)
  BY <1>1 DEF SupOK
<1>3. net[l] \in Net /\ lease[l] \in Lease /\ hook[l] \in Hook /\ torn[l] \in BOOLEAN
      /\ LeaseOK(lease[l]) /\ HookOK(hook[l])
  BY <1>1 DEF LinesOK
<1>4. /\ net = [net EXCEPT ![l] = net[l]] /\ lease = [lease EXCEPT ![l] = lease[l]]
      /\ hook = [hook EXCEPT ![l] = hook[l]] /\ torn = [torn EXCEPT ![l] = torn[l]]
  BY <1>1, Same DEF LinesOK
<1>5. ASSUME NEW n \in Net, net' = [net EXCEPT ![l] = n], UNCHANGED <<child, dhcp, lease, hook, torn>>,
             n.link = net[l].link, n.mark = net[l].mark,
             n.unreach = net[l].unreach, n.via = net[l].via \/ n.via # None
      PROVE  LinesOK' /\ AllServed'
  <2>1. child[l] \in {"new", "on"} =>
            /\ n.link /\ n.mark
            /\ torn[l] \/ hook[l].pc \in {"closing", "routes"} \/ n.via # None \/ n.unreach
    BY <1>1, <1>5 DEF AllServed, Served, Filled
  <2> QED
    BY <1>3, <1>4, <1>5, <2>1, LineReplaced
<1>6. ASSUME sup' \in Supervisor, RoundOK(sup'), defer' \subseteq defer, UNCHANGED <<table, last, supFrame>>
      PROVE  SupOK' /\ ProxyOK' /\ WorldOK'
  BY <1>1, <1>6, ProxyFrame, WorldFrame DEF SupOK, supFrame, proxyVars, world
<1>7. CASE DisabledLine(l)
  <2>1. LinesOK' /\ AllServed'
    <3> DEFINE S == IF net[l].link \/ lease[l] # NoLease THEN {l} ELSE {}
    <3>1. {l} \in SUBSET Lines /\ S \in SUBSET {l} /\ CleanedUp(S) /\ Terminated({l})
      BY <1>7 DEF DisabledLine
    <3> QED
      BY <3>1, CleanedLines
  <2>2. sup' \in Supervisor /\ RoundOK(sup')
    BY <1>1, <1>7, LineDone DEF DisabledLine, AtLine
  <2> QED
    BY <1>6, <1>7, <2>1, <2>2 DEF DisabledLine, CampusInv, Types
<1>8. CASE ReadLease(l)
  <2>1. LinesOK' /\ AllServed'
    BY <1>1, <1>8, LinesFrame, ServedFrame DEF ReadLease, lineVars
  <2>2. sup.todo # {} /\ sup' = IF lease[l].valid THEN [sup EXCEPT !.pc = "routes", !.addr = lease[l].addr]
                                                  ELSE [sup EXCEPT !.pc = "child"]
    BY <1>8 DEF ReadLease, AtLine
  <2>3. CASE lease[l].valid
    <3>1. lease[l].addr \in Addresses
      BY <1>3, <2>3 DEF LeaseOK
    <3> QED
      BY <1>2, <1>6, <1>8, <2>1, <2>2, <2>3, <3>1
         DEF ReadLease, Supervisor, RoundOK, MaybeAddress, CampusInv, Types
  <2>4. CASE ~lease[l].valid
    <3>1. sup' \in Supervisor /\ RoundOK(sup')
      BY <1>1, <2>2, <2>4, Onwards
    <3> QED
      BY <1>6, <1>8, <2>1, <3>1 DEF ReadLease, CampusInv, Types
  <2> QED
    BY <2>3, <2>4
<1>9. CASE PutRoutes(l)
  <2>1. sup.pc = "routes" /\ sup.todo # {} /\ sup.addr \in Addresses
    BY <1>2, <1>9 DEF PutRoutes, AtLine, RoundOK
  <2> DEFINE n == Routed(net[l], sup.addr)
  <2>2. n \in Net /\ n.link = net[l].link /\ n.mark = net[l].mark /\ n.unreach = net[l].unreach
        /\ n.via = sup.addr
    BY <1>3, <2>1 DEF Routed, Net, MaybeAddress
  <2>3. net' = [net EXCEPT ![l] = n] /\ UNCHANGED <<child, dhcp, lease, hook, torn>>
    BY <1>1, <1>9 DEF PutRoutes, LinesOK
  <2>4. n.via # None
    BY <2>1, <2>2, CampusAssumption DEF CampusAssumption
  <2> HIDE DEF n
  <2>5. LinesOK' /\ AllServed'
    BY <1>5, <2>2, <2>3, <2>4
  <2>6. sup' \in Supervisor /\ RoundOK(sup')
    BY <1>1, <1>9, <2>1, Onwards DEF PutRoutes, Goto
  <2> QED
    BY <1>6, <1>9, <2>5, <2>6 DEF PutRoutes, CampusInv, Types
<1>10. CASE TakeRule(l)
  <2>1. sup.pc = "delete" /\ sup.todo # {} /\ sup.addr \in Addresses
    BY <1>2, <1>10 DEF TakeRule, AtLine, RoundOK
  <2> DEFINE n == [net[l] EXCEPT !.src = @ \ {sup.addr}]
  <2>2. n \in Net /\ n.link = net[l].link /\ n.mark = net[l].mark /\ n.unreach = net[l].unreach
        /\ n.via = net[l].via
    BY <1>3 DEF Net
  <2>3. net' = [net EXCEPT ![l] = n] /\ UNCHANGED <<child, dhcp, lease, hook, torn>>
    BY <1>1, <1>10 DEF TakeRule, LinesOK
  <2> HIDE DEF n
  <2>4. LinesOK' /\ AllServed'
    BY <1>5, <2>2, <2>3
  <2>5. sup' \in Supervisor /\ RoundOK(sup')
    BY <1>1, <1>10, <2>1, Onwards DEF TakeRule, Goto
  <2> QED
    BY <1>6, <1>10, <2>4, <2>5 DEF TakeRule, CampusInv, Types
<1>11. CASE PutRule(l)
  <2>1. sup.pc = "add" /\ sup.todo # {} /\ sup.addr \in Addresses
    BY <1>2, <1>11 DEF PutRule, AtLine, RoundOK
  <2> DEFINE n == [net[l] EXCEPT !.src = @ \cup {sup.addr}]
  <2>2. n \in Net /\ n.link = net[l].link /\ n.mark = net[l].mark /\ n.unreach = net[l].unreach
        /\ n.via = net[l].via
    BY <1>3, <2>1 DEF Net
  <2>3. net' = [net EXCEPT ![l] = n] /\ UNCHANGED <<child, dhcp, lease, hook, torn>>
    BY <1>1, <1>11 DEF PutRule, LinesOK
  <2> HIDE DEF n
  <2>4. LinesOK' /\ AllServed'
    BY <1>5, <2>2, <2>3
  <2>5. sup' \in Supervisor /\ RoundOK(sup')
    BY <1>1, <1>11, <2>1, Onwards DEF PutRule, Goto
  <2> QED
    BY <1>6, <1>11, <2>4, <2>5 DEF PutRule, CampusInv, Types
<1>12. CASE EnsureChild(l)
  <2>1. sup' \in Supervisor /\ RoundOK(sup')
    BY <1>1, <1>12, LineDone DEF EnsureChild, AtLine
  <2>2. LinesOK' /\ AllServed'
    <3>1. CASE child[l] \in {"none", "dead"}
      <4> DEFINE n == [net[l] EXCEPT !.link = TRUE, !.mark = TRUE, !.unreach = TRUE]
      <4>1. n \in Net /\ n.link /\ n.mark /\ n.unreach
        BY <1>3 DEF Net
      <4>2. /\ net' = [net EXCEPT ![l] = n] /\ child' = [child EXCEPT ![l] = "new"]
            /\ dhcp' = [dhcp EXCEPT ![l] = None] /\ torn' = [torn EXCEPT ![l] = FALSE]
            /\ UNCHANGED <<lease, hook>>
        BY <1>1, <1>12, <3>1 DEF EnsureChild, LinesOK
      <4> HIDE DEF n
      <4>3. LinesOK'
        BY <1>1, <4>1, <4>2 DEF LinesOK, MaybeAddress
      <4>4. ASSUME NEW k \in Lines
            PROVE  Served(k)'
        <5>1. CASE k = l
          <6>1. net'[l] = n
            BY <1>1, <4>2 DEF LinesOK
          <6> QED
            BY <4>1, <5>1, <6>1 DEF Served, Filled
        <5>2. CASE k # l
          BY <1>1, <4>2, <5>2 DEF LinesOK, AllServed, Served, Filled
        <5> QED
          BY <5>1, <5>2
      <4> QED
        BY <4>3, <4>4 DEF AllServed
    <3>2. CASE child[l] \notin {"none", "dead"}
      BY <1>1, <1>12, <3>2, LinesFrame, ServedFrame DEF EnsureChild
    <3> QED
      BY <3>1, <3>2
  <2> QED
    BY <1>6, <1>12, <2>1, <2>2 DEF EnsureChild, CampusInv, Types
<1> QED
  BY <1>7, <1>8, <1>9, <1>10, <1>11, <1>12

\* The supervisor's start and the steps of a round that are about all lines.
LEMMA RoundStep ==
    ASSUME CampusInv,
           \/ Start \/ Wake \/ Check \/ CheckRaises \/ Policy \/ Apply \/ WriteStatus \/ RoundRaises \/ RoundFails
           \/ Stop \/ Crash \/ LoginDue
    PROVE  CampusInv'
<1>1. LinesOK /\ AllServed /\ SupOK /\ ProxyOK /\ WorldOK
  BY DEF CampusInv, Types
<1>2. sup \in Supervisor /\ RoundOK(sup) /\ defer \in SUBSET Lines
  BY <1>1 DEF SupOK
<1>3. UNCHANGED lineVars => LinesOK' /\ AllServed'
  BY <1>1, LinesFrame, ServedFrame DEF lineVars
<1>4. UNCHANGED proxyVars => ProxyOK'
  BY <1>1, ProxyFrame DEF proxyVars
<1>5. UNCHANGED <<enabled, portal>> => WorldOK'
  BY <1>1, WorldFrame
<1>6. CleanedUp(Lines) /\ Terminated(Lines) => LinesOK' /\ AllServed'
  BY CleanedLines
<1>7. ASSUME LinesOK', AllServed', SupOK', ProxyOK', WorldOK'
      PROVE  CampusInv'
  BY <1>7 DEF CampusInv, Types
<1>8. CASE Start
  <2>1. SupOK'
    BY <1>1, <1>8, SupFacts DEF Start, SupOK
  <2> QED
    BY <1>4, <1>5, <1>6, <1>7, <1>8, <2>1 DEF Start, world
<1>9. CASE Wake
  <2>1. sup' \in Supervisor /\ RoundOK(sup')
    <3>1. sup' = [Waiting EXCEPT !.pc = "line", !.todo = Lines] /\ Lines # {} /\ Lines \in SUBSET Lines
      BY <1>9, CampusAssumption DEF Wake, CampusAssumption
    <3>2. Waiting \in Supervisor
      BY <1>1, SupFacts
    <3> QED
      BY <3>1, <3>2 DEF Supervisor, RoundOK
  <2>2. SupOK'
    BY <1>1, <1>9, <2>1 DEF Wake, supFrame, SupOK
  <2> QED
    BY <1>3, <1>4, <1>5, <1>7, <1>9, <2>2 DEF Wake, supFrame, world
<1>10. CASE Check \/ CheckRaises
  <2>1. PICK raised : Checked(raised)
    BY <1>10 DEF Check, CheckRaises
  <2>2. WorldOK'
    BY <1>1, <2>1 DEF Checked, WorldOK, AllIds
  <2>3. Checkable \in SUBSET AllIds /\ \A l \in Checkable \ {Primary} : l \in Lines
    BY DEF Checkable, AllIds
  <2>4. sup' \in Supervisor /\ RoundOK(sup')
    <3> DEFINE online == {i \in Checkable \ raised : portal'[i] = "on"}
               whole == raised = {}
    <3>1. sup' = [sup EXCEPT !.pc = "policy", !.whole = whole, !.active = online]
          /\ online \in SUBSET AllIds /\ whole \in BOOLEAN
      BY <2>1, <2>3 DEF Checked
    <3> HIDE DEF online, whole
    <3> QED
      BY <1>2, <3>1 DEF Supervisor, RoundOK
  <2>5. defer' \subseteq Lines
    BY <2>1, <2>3 DEF Checked
  <2>6. SupOK'
    BY <1>1, <2>1, <2>4, <2>5 DEF Checked, SupOK
  <2> QED
    BY <1>3, <1>4, <1>7, <2>1, <2>2, <2>6 DEF Checked
<1>11. CASE Policy
  <2>1. sup' \in Supervisor /\ RoundOK(sup')
    <3> DEFINE exists == table # NoTable
               next == IF sup.active # last \/ table = NoTable THEN "apply" ELSE "status"
    <3>1. sup' = [sup EXCEPT !.exists = exists, !.pc = next]
      BY <1>11 DEF Policy
    <3>2. exists \in BOOLEAN /\ next \in {"apply", "status"}
      OBVIOUS
    <3> HIDE DEF exists, next
    <3> QED
      BY <1>2, <3>1, <3>2 DEF Supervisor, RoundOK
  <2>2. SupOK'
    BY <1>1, <1>11, <2>1 DEF Policy, supFrame, SupOK
  <2> QED
    BY <1>3, <1>4, <1>5, <1>7, <1>11, <2>2 DEF Policy, supFrame, world
<1>12. CASE Apply
  <2>1. sup' \in Supervisor /\ RoundOK(sup')
    BY <1>1, <1>12, Onwards DEF Apply, Goto
  <2>2. SupOK'
    BY <1>1, <1>12, <2>1, SupFacts DEF Apply, supFrame, SupOK
  <2> QED
    BY <1>3, <1>4, <1>5, <1>7, <1>12, <2>2 DEF Apply, supFrame, world
<1>13. CASE WriteStatus
  <2>1. status' \in [active : SUBSET AllIds, whole : BOOLEAN, fresh : BOOLEAN]
    BY <1>1, <1>13, SupFacts DEF WriteStatus
  <2>2. SupOK'
    BY <1>1, <1>13, <2>1, SupFacts DEF WriteStatus, SupOK
  <2> QED
    BY <1>3, <1>4, <1>5, <1>7, <1>13, <2>2 DEF WriteStatus, world
<1>14. CASE RoundRaises \/ RoundFails
  <2>1. RoundEnds /\ UNCHANGED <<enabled, portal>>
    BY <1>14 DEF RoundRaises, RoundFails, Fault, world
  <2>2. SupOK'
    BY <1>1, <2>1, SupFacts DEF RoundEnds, SupOK
  <2> QED
    BY <1>3, <1>4, <1>5, <1>7, <2>1, <2>2 DEF RoundEnds
<1>15. CASE Stop
  <2>1. [active |-> {}, whole |-> FALSE, fresh |-> TRUE] \in [active : SUBSET AllIds, whole : BOOLEAN, fresh : BOOLEAN]
    OBVIOUS
  <2>2. SupOK'
    BY <1>1, <1>15, <2>1, SupFacts DEF Stop, SupOK
  <2> QED
    BY <1>4, <1>5, <1>6, <1>7, <1>15, <2>2 DEF Stop, Fault
<1>16. CASE Crash
  <2>1. SupOK'
    BY <1>1, <1>16, SupFacts DEF Crash, SupOK
  <2> QED
    BY <1>3, <1>4, <1>5, <1>7, <1>16, <2>1 DEF Crash, Fault
<1>17. CASE LoginDue
  <2>1. SupOK'
    BY <1>1, <1>17 DEF LoginDue, SupOK, supFrame
  <2> QED
    BY <1>3, <1>4, <1>5, <1>7, <1>17, <2>1 DEF LoginDue, supFrame, world
<1> QED
  BY <1>8, <1>9, <1>10, <1>11, <1>12, <1>13, <1>14, <1>15, <1>16, <1>17

\* The follower of the status file.
LEMMA FollowerStep ==
    ASSUME CampusInv, Follower \/ FollowerDies
    PROVE  CampusInv'
<1>1. LinesOK /\ AllServed /\ SupOK /\ ProxyOK /\ WorldOK
  BY DEF CampusInv, Types
<1>2. UNCHANGED <<lineVars, supVars, enabled, portal>>
  BY DEF Follower, Follow, FollowApply, FollowSave, FollowerDies, Fault, world
<1>3. LinesOK' /\ AllServed' /\ SupOK' /\ WorldOK'
  BY <1>1, <1>2, LinesFrame, ServedFrame, SupFrame, WorldFrame DEF lineVars, supVars
<1>4. NoProxy \in Proxy
  BY DEF NoProxy, Proxy, Tables
<1>5. ProxyOK'
  <2>1. CASE Follow
    <3>1. status.active \in Tables
      BY <1>1 DEF SupOK, Tables, AllIds
    <3> QED
      BY <1>1, <2>1, <3>1 DEF Follow, ProxyOK, Proxy
  <2>2. CASE FollowApply
    BY <1>1, <1>4, <2>2 DEF FollowApply, ProxyOK, Proxy
  <2>3. CASE FollowSave
    BY <1>1, <1>4, <2>3 DEF FollowSave, ProxyOK, Proxy
  <2>4. CASE FollowerDies
    BY <1>1, <1>4, <2>4 DEF FollowerDies, ProxyOK
  <2> QED
    BY <2>1, <2>2, <2>3, <2>4 DEF Follower
<1> QED
  BY <1>3, <1>5 DEF CampusInv, Types

\* Lines that their environment disturbs, and changes of configuration and
\* portal.
LEMMA EnvironmentStep ==
    ASSUME CampusInv,
           \/ TableDeleted \/ StatusAges
           \/ \E l \in Lines : HookDies(l) \/ ConfigChanges(l) \/ UdhcpcDies(l) \/ LeaseExpires(l)
           \/ \E i \in DOMAIN portal : PortalChanges(i)
    PROVE  CampusInv'
<1>1. LinesOK /\ AllServed /\ SupOK /\ ProxyOK /\ WorldOK
  BY DEF CampusInv, Types
<1>2. UNCHANGED lineVars => LinesOK' /\ AllServed'
  BY <1>1, LinesFrame, ServedFrame DEF lineVars
<1>3. UNCHANGED supVars => SupOK'
  BY <1>1, SupFrame DEF supVars
<1>4. UNCHANGED proxyVars => ProxyOK'
  BY <1>1, ProxyFrame DEF proxyVars
<1>5. UNCHANGED <<enabled, portal>> => WorldOK'
  BY <1>1, WorldFrame
<1>6. ASSUME LinesOK', AllServed', SupOK', ProxyOK', WorldOK'
      PROVE  CampusInv'
  BY <1>6 DEF CampusInv, Types
<1>7. CASE TableDeleted
  <2>1. SupOK' /\ ProxyOK'
    BY <1>1, <1>7, SupFacts DEF TableDeleted, SupOK, ProxyOK
  <2> QED
    BY <1>2, <1>5, <1>6, <1>7, <2>1 DEF TableDeleted, Fault
<1>8. CASE StatusAges
  <2>1. SupOK'
    BY <1>1, <1>8 DEF StatusAges, SupOK
  <2> QED
    BY <1>2, <1>4, <1>5, <1>6, <1>8, <2>1 DEF StatusAges, Fault
<1>9. ASSUME NEW l \in Lines, HookDies(l)
      PROVE  CampusInv'
  <2>1. /\ net[l] \in Net /\ lease[l] \in Lease /\ LeaseOK(lease[l])
        /\ net = [net EXCEPT ![l] = net[l]] /\ lease = [lease EXCEPT ![l] = lease[l]]
    BY <1>1, Same DEF LinesOK
  <2>2. NoHook \in Hook /\ HookOK(NoHook) /\ TRUE \in BOOLEAN
    BY DEF NoHook, Hook, HookOK, MaybeAddress
  <2>3. child[l] \in {"new", "on"} => net[l].link /\ net[l].mark
    BY <1>1 DEF AllServed, Served
  <2>4. LinesOK' /\ AllServed'
    BY <1>9, <2>1, <2>2, <2>3, LineReplaced DEF HookDies
  <2> QED
    BY <1>3, <1>4, <1>5, <1>6, <1>9, <2>4 DEF HookDies, Fault
<1>10. ASSUME NEW l \in Lines, ConfigChanges(l)
       PROVE  CampusInv'
  <2>1. WorldOK'
    BY <1>1, <1>10 DEF ConfigChanges, WorldOK
  <2> QED
    BY <1>2, <1>3, <1>4, <1>6, <1>10, <2>1 DEF ConfigChanges
<1>11. ASSUME NEW l \in Lines, UdhcpcDies(l)
       PROVE  CampusInv'
  <2>1. child' = [child EXCEPT ![l] = "dead"] /\ dhcp' = [dhcp EXCEPT ![l] = None]
        /\ UNCHANGED <<net, lease, hook, torn>>
    BY <1>11 DEF UdhcpcDies
  <2>2. LinesOK'
    BY <1>1, <2>1 DEF LinesOK, MaybeAddress
  <2>3. AllServed'
    BY <1>1, <2>1 DEF LinesOK, AllServed, Served, Filled
  <2> QED
    BY <1>3, <1>4, <1>5, <1>6, <1>11, <2>2, <2>3 DEF UdhcpcDies, Fault
<1>12. ASSUME NEW l \in Lines, LeaseExpires(l)
       PROVE  CampusInv'
  <2> DEFINE x == [lease[l] EXCEPT !.valid = FALSE]
  <2>1. x \in Lease /\ LeaseOK(x)
    BY <1>1 DEF LinesOK, Lease, LeaseOK
  <2>2. lease' = [lease EXCEPT ![l] = x] /\ UNCHANGED <<net, child, dhcp, hook, torn>>
    BY <1>1, <1>12 DEF LeaseExpires, LinesOK
  <2> HIDE DEF x
  <2>3. LinesOK' /\ AllServed'
    BY <1>1, <2>1, <2>2, ServedFrame DEF LinesOK
  <2> QED
    BY <1>3, <1>4, <1>5, <1>6, <1>12, <2>3 DEF LeaseExpires, world
<1>13. ASSUME NEW i \in DOMAIN portal, PortalChanges(i)
       PROVE  CampusInv'
  <2>1. WorldOK'
    BY <1>1, <1>13 DEF PortalChanges, WorldOK
  <2> QED
    BY <1>2, <1>3, <1>4, <1>6, <1>13, <2>1 DEF PortalChanges
<1> QED
  BY <1>7, <1>8, <1>9, <1>10, <1>11, <1>12, <1>13

\* Every step of hook, supervisor, follower and environment.
LEMMA CampusStep == CampusInv /\ [Next]_vars => CampusInv'
<1> SUFFICES ASSUME CampusInv, [Next]_vars
             PROVE  CampusInv'
  OBVIOUS
<1>1. Types /\ LinesOK /\ dhcp \in [Lines -> MaybeAddress]
  BY DEF CampusInv, Types, LinesOK
<1>2. UNCHANGED <<supVars, proxyVars, enabled, portal>> => SupOK' /\ ProxyOK' /\ WorldOK'
  BY <1>1, HookFrame
<1>3. ASSUME NEW l \in Lines, HookStep(l)
      PROVE  CampusInv'
  <2>1. UNCHANGED <<supVars, proxyVars, enabled, portal>>
    BY <1>3 DEF HookStep, Deconfig, Deconfigured, DropPrevious, AddRoutes, DeleteRule, AddRule,
                HookRaises, SaveLease, hookFrame, world
  <2> QED
    BY <1>2, <1>3, <2>1, HookStepTaken DEF CampusInv, Types
<1>4. ASSUME NEW l \in Lines, UdhcpcStarts(l) \/ LeaseLost(l) \/ Renewed(l) \/ \E a \in Addresses : Bound(l, a)
      PROVE  CampusInv'
  <2>1. UNCHANGED <<supVars, proxyVars, enabled, portal>>
    BY <1>4 DEF UdhcpcStarts, LeaseLost, Renewed, Bound, HookStarts, world
  <2>2. LinesOK' /\ AllServed'
    <3>1. None \in MaybeAddress /\ \A a \in MaybeAddress : a # None => a \in Addresses
      BY DEF MaybeAddress
    <3>2. CASE UdhcpcStarts(l)
      BY <3>1, <3>2, HookStarted DEF UdhcpcStarts
    <3>3. CASE LeaseLost(l)
      BY <3>1, <3>3, HookStarted DEF LeaseLost
    <3>4. CASE Renewed(l)
      BY <1>1, <3>1, <3>4, HookStarted DEF Renewed
    <3>5. ASSUME NEW a \in Addresses, Bound(l, a)
          PROVE  LinesOK' /\ AllServed'
      BY <3>5, HookStarted DEF Bound, MaybeAddress
    <3> QED
      BY <1>4, <3>2, <3>3, <3>4, <3>5
  <2> QED
    BY <1>2, <2>1, <2>2 DEF CampusInv, Types
<1>5. CASE UNCHANGED vars
  <2>1. UNCHANGED <<net, child, dhcp, lease, hook, torn, supVars, proxyVars, enabled, portal>>
    BY <1>5 DEF vars, lineVars, world
  <2> QED
    BY <1>1, <1>2, <2>1, LinesFrame, ServedFrame DEF CampusInv, Types
<1>6. CASE Next
  BY <1>3, <1>4, <1>6, LineStep, RoundStep, FollowerStep, EnvironmentStep
     DEF Next, Round, Environment, Udhcpc
<1> QED
  BY <1>5, <1>6

LEMMA CampusInitially == Init => CampusInv
<1> SUFFICES ASSUME Init PROVE CampusInv
  OBVIOUS
<1>1. /\ NoNet \in Net /\ NoLease \in Lease /\ LeaseOK(NoLease) /\ NoHook \in Hook /\ HookOK(NoHook)
      /\ None \in MaybeAddress /\ NoTable \in Tables /\ NoProxy \in Proxy
      /\ Down \in Supervisor /\ RoundOK(Down)
  BY DEF NoNet, Net, NoLease, Lease, LeaseOK, NoHook, Hook, HookOK, MaybeAddress, Tables, NoProxy, Proxy,
         Down, Supervisor, RoundOK
<1>2. LinesOK /\ AllServed
  BY <1>1 DEF Init, LinesOK, AllServed, Served
<1>3. SupOK /\ ProxyOK
  BY <1>1 DEF Init, SupOK, ProxyOK
<1>4. WorldOK
  BY DEF Init, WorldOK, AllIds
<1> QED
  BY <1>2, <1>3, <1>4 DEF CampusInv, Types

\* Interfaces, leases, hooks, policy tables and the places of supervisor and
\* follower are well typed.
THEOREM CampusTyped == Spec => []TypeOK
<1>1. CampusInv => TypeOK
  <2> SUFFICES ASSUME CampusInv PROVE TypeOK
    OBVIOUS
  <2>1. LinesOK /\ SupOK /\ ProxyOK /\ WorldOK
    BY DEF CampusInv, Types
  <2>2. /\ proxy.pc \in {"idle", "apply", "save"} /\ proxy.want \in Tables
        /\ ptable \in Tables /\ psig \in Tables /\ lost \in BOOLEAN
    BY <2>1 DEF ProxyOK, Proxy
  <2>3. /\ sup.active \in Tables /\ status.active \in Tables /\ defer \subseteq Lines
        /\ table \in Tables /\ last \in Tables
        /\ sup.whole \in BOOLEAN /\ status.whole \in BOOLEAN /\ status.fresh \in BOOLEAN
    BY <2>1, SupFacts DEF SupOK, Supervisor, Tables, AllIds
  <2>4. /\ sup.pc \in {"down", "wait", "line", "routes", "delete", "add", "child", "check", "policy",
                       "apply", "status"}
        /\ sup.pc \in {"line", "routes", "delete", "add", "child"} => sup.todo # {} /\ sup.todo \subseteq Lines
        /\ sup.pc \in {"routes", "delete", "add"} => sup.addr \in Addresses
    BY <2>1 DEF SupOK, Supervisor, RoundOK
  <2> QED
    BY <2>1, <2>2, <2>3, <2>4
       DEF LinesOK, WorldOK, TypeOK, Net, Lease, Hook, MaybeAddress, AllIds
<1> QED
  BY <1>1, CampusInitially, CampusStep, PTL DEF Spec

\* Whatever the supervisor, an old hook and restarts did in between: while
\* udhcpc serves a line and no hook is at work, a lookup for the line's mark
\* ends in the line's table.
THEOREM NeverBorrows == Spec => []NoBorrow
<1>1. CampusInv => NoBorrow
  BY DEF CampusInv, AllServed, Served, Filled, NoBorrow
<1> QED
  BY <1>1, CampusInitially, CampusStep, PTL DEF Spec
=============================================================================
