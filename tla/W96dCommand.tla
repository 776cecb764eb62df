---------------------------- MODULE W96dCommand ----------------------------
(***************************************************************************)
(* What the router's sidecar writes to the W96D fan and what it shows of   *)
(* it (router/w96d_coordinated.py): a PATCH is a sequence of GATT writes,  *)
(* any of which may fail, followed by an update of the cached state with   *)
(* the values it claims to have set; a refresh reads some of the           *)
(* characteristics in every cycle and the others more rarely.  Both run    *)
(* under _op_lock.  The fan also changes by itself: by its buttons, and    *)
(* when Turbo runs out.                                                    *)
(***************************************************************************)
EXTENDS Naturals, Sequences, FiniteSets

CONSTANTS
    SlowEvery,      \* Turbo is read once in so many cycles
    SettingsEvery,  \* and the persistent settings once in so many
    MaxFields,      \* bound on the fields of one PATCH
    MaxDisturbances \* bound on failed reads and writes, lost links and the
                    \* fan's own changes, taken together

ASSUME CommandAssumption ==
    /\ SlowEvery \in Nat \ {0, 1}
    /\ SettingsEvery \in Nat \ {0, 1}
    /\ SettingsEvery % SlowEvery = 0
    /\ MaxFields \in Nat
    /\ MaxDisturbances \in Nat

VARIABLES
    fan,       \* the characteristics' values
    shown,     \* the cached state: 2 stands for None
    pc,        \* what holds _op_lock
    todo,      \* PATCH: the writes that are left
    claims,    \* PATCH: the dict `optimistic` when all writes succeed
    left,      \* refresh: the characteristics that are left to read
    got,       \* refresh: the dict `updates`
    cycle,     \* _coord_refresh_cycle
    force,     \* _coord_force_settings
    updated,   \* updated_at is not None
    synced,    \* fields a PATCH set and nothing wrote since (history; given up
               \* when the fan changes by itself)
    changes, failures

patchVars == <<todo, claims>>
refreshVars == <<left, got, cycle, updated>>
commandVars == <<fan, shown, pc, patchVars, refreshVars, force, synced, changes, failures>>

\* "setting" stands for any of the fields that are one plain write (the
\* indicator, the timer, the delays).
Fields == {"speed", "natural", "turbo", "power", "setting"}
Bit == 0..1
Write == [field : Fields, value : Bit]
Partial == UNION {[S -> Bit] : S \in SUBSET Fields}
Empty == [f \in {} |-> 0]
Bodies == {b \in Partial : Cardinality(DOMAIN b) \in 1..MaxFields}

CommandTypeOK ==
    /\ fan \in [Fields -> Bit]
    /\ shown \in [Fields -> 0..2]
    /\ pc \in {"idle", "writing", "reading"}
    /\ todo \in Seq(Write)
    /\ claims \in Partial
    /\ left \in Seq(Fields)
    /\ got \in Partial
    /\ cycle \in 0..SettingsEvery
    /\ force \in BOOLEAN
    /\ updated \in BOOLEAN
    /\ synced \subseteq Fields
    /\ changes \in Nat
    /\ failures \in Nat
    /\ changes + failures <= MaxDisturbances

CommandInit ==
    /\ fan \in {v \in [Fields -> Bit] : ~(v["natural"] = 1 /\ v["turbo"] = 1)}
    /\ shown = [f \in Fields |-> 2]
    /\ pc = "idle"
    /\ todo = <<>>
    /\ claims = Empty
    /\ left = <<>>
    /\ got = Empty
    /\ cycle = 0
    /\ force = FALSE
    /\ updated = FALSE
    /\ synced = {}
    /\ changes = 0
    /\ failures = 0

MayDisturb == changes + failures < MaxDisturbances
Failure == MayDisturb /\ failures' = failures + 1

\* state.update(changes)
Updated(state, new) == [f \in Fields |-> IF f \in DOMAIN new THEN new[f] ELSE state[f]]
Merged(d, new) == [f \in DOMAIN d \cup DOMAIN new |-> IF f \in DOMAIN new THEN new[f] ELSE d[f]]

(***************************************************************************)
(* PATCH                                                                   *)
(***************************************************************************)
W(f, v) == [field |-> f, value |-> v]
When(condition, s) == IF condition THEN s ELSE <<>>

Writes_NaturalKeepsTurbo(f, v) ==
    CASE f = "speed"   -> <<W("turbo", 0), W("power", 1), W("natural", 0), W("speed", v)>>
      [] f = "natural" -> <<W("natural", v)>>
      [] f = "turbo"   -> When(v = 1, <<W("natural", 0)>>) \o <<W("turbo", v)>>
      [] f = "power"   -> <<W("turbo", 0), W("natural", 0), W("power", v)>>
      [] OTHER         -> <<W(f, v)>>

\* The writes of one field of the body.
Writes(f, v) ==
    CASE f = "speed"   -> <<W("turbo", 0), W("power", 1), W("natural", 0), W("speed", v)>>
      [] f = "natural" -> When(v = 1, <<W("turbo", 0)>>) \o <<W("natural", v)>>
      [] f = "turbo"   -> When(v = 1, <<W("natural", 0)>>) \o <<W("turbo", v)>>
      [] f = "power"   -> <<W("turbo", 0), W("natural", 0), W("power", v)>>
      [] OTHER         -> <<W(f, v)>>

Claim(S, v) == [f \in S |-> v]

Claims_PowerOnly(f, v) ==
    CASE f = "speed"   -> Merged(Claim({"natural", "turbo"}, 0), Merged(Claim({"power"}, 1), Claim({f}, v)))
      [] f = "natural" -> Merged(IF v = 1 THEN Claim({"turbo"}, 0) ELSE Empty, Claim({f}, v))
      [] f = "turbo"   -> Merged(IF v = 1 THEN Claim({"natural"}, 0) ELSE Empty, Claim({f}, v))
      [] OTHER         -> Claim({f}, v)

\* What `optimistic` says of it.
Claims(f, v) ==
    CASE f = "speed"   -> Merged(Claim({"natural", "turbo"}, 0), Merged(Claim({"power"}, 1), Claim({f}, v)))
      [] f = "natural" -> Merged(IF v = 1 THEN Claim({"turbo"}, 0) ELSE Empty, Claim({f}, v))
      [] f = "turbo"   -> Merged(IF v = 1 THEN Claim({"natural"}, 0) ELSE Empty, Claim({f}, v))
      [] f = "power"   -> Merged(Claim({"natural", "turbo"}, 0), Claim({f}, v))
      [] OTHER         -> Claim({f}, v)

\* A PATCH handles the fields of its body in this order.
WritesAsked(body, f) == When(f \in DOMAIN body, Writes(f, body[f]))
AllWrites(body) ==
    WritesAsked(body, "speed") \o (WritesAsked(body, "natural") \o (WritesAsked(body, "turbo")
        \o (WritesAsked(body, "power") \o WritesAsked(body, "setting"))))

Promised(body, f) == IF f \in DOMAIN body THEN Claims(f, body[f]) ELSE Empty
AllClaims(body) ==
    Merged(Promised(body, "speed"), Merged(Promised(body, "natural"), Merged(Promised(body, "turbo"),
        Merged(Promised(body, "power"), Promised(body, "setting")))))

PatchBegins(body) ==
    /\ pc = "idle"
    /\ pc' = "writing"
    /\ todo' = AllWrites(body)
    /\ claims' = AllClaims(body)
    /\ UNCHANGED <<fan, shown, refreshVars, force, synced, changes, failures>>

Taken(w) ==
    /\ fan' = [fan EXCEPT ![w.field] = w.value]
    /\ synced' = synced \ {w.field}

WriteNext ==
    /\ pc = "writing"
    /\ todo # <<>>
    /\ Taken(Head(todo))
    /\ force' = (force \/ Head(todo).field = "setting")
    /\ todo' = Tail(todo)
    /\ UNCHANGED <<shown, pc, claims, refreshVars, changes, failures>>

\* A write raises, or a later value is out of range; the fan may have taken it.
PatchFails ==
    /\ pc = "writing"
    /\ todo # <<>>
    /\ Failure
    /\ Taken(Head(todo)) \/ UNCHANGED <<fan, synced>>
    /\ pc' = "idle"
    /\ todo' = <<>>
    /\ claims' = Empty
    /\ UNCHANGED <<shown, refreshVars, force, changes>>

PatchDone ==
    /\ pc = "writing"
    /\ todo = <<>>
    /\ shown' = Updated(shown, claims)
    /\ synced' = IF changes = 0 THEN synced \cup DOMAIN claims ELSE {}
    /\ pc' = "idle"
    /\ claims' = Empty
    /\ UNCHANGED <<fan, todo, refreshVars, force, changes, failures>>

(***************************************************************************)
(* A refresh                                                               *)
(***************************************************************************)
ReadsSettings == ~updated \/ force \/ cycle' % SettingsEvery = 1

Reads_SlowOnce ==
    <<"power", "speed", "natural">>
    \o When(~updated, <<"turbo">>)
    \o When(ReadsSettings, <<"setting">>)

\* The counter only matters modulo the longer period.
Reads ==
    <<"power", "speed", "natural">>
    \o When(~updated \/ cycle' % SlowEvery = 1, <<"turbo">>)
    \o When(ReadsSettings, <<"setting">>)

RefreshBegins ==
    /\ pc = "idle"
    /\ pc' = "reading"
    /\ cycle' = (cycle % SettingsEvery) + 1
    /\ left' = Reads
    /\ force' = (force /\ ~ReadsSettings)
    /\ UNCHANGED <<fan, shown, patchVars, got, updated, synced, changes, failures>>

ReadNext_StoresNone ==
    /\ pc = "reading"
    /\ left # <<>>
    /\ left' = Tail(left)
    /\ \/ got' = Merged(got, Claim({Head(left)}, fan[Head(left)])) /\ UNCHANGED failures
       \/ Failure /\ got' = Merged(got, Claim({Head(left)}, 2))
    /\ UNCHANGED <<fan, shown, pc, patchVars, cycle, updated, force, synced, changes>>

\* A read that fails on a link that is up leaves its field out.
ReadNext ==
    /\ pc = "reading"
    /\ left # <<>>
    /\ left' = Tail(left)
    /\ \/ got' = Merged(got, Claim({Head(left)}, fan[Head(left)])) /\ UNCHANGED failures
       \/ Failure /\ UNCHANGED got
    /\ UNCHANGED <<fan, shown, pc, patchVars, cycle, updated, force, synced, changes>>

RefreshDone ==
    /\ pc = "reading"
    /\ left = <<>>
    /\ shown' = Updated(shown, got)
    /\ updated' = (updated \/ got # Empty)
    /\ got' = Empty
    /\ pc' = "idle"
    /\ UNCHANGED <<fan, patchVars, left, cycle, force, synced, changes, failures>>

\* The link is lost and made again: what was in progress fails.
LinkRemade ==
    /\ Failure
    /\ pc' = "idle"
    /\ todo' = <<>>
    /\ claims' = Empty
    /\ left' = <<>>
    /\ got' = Empty
    /\ cycle' = 0
    /\ force' = FALSE
    /\ \/ UNCHANGED <<fan, synced>>
       \/ pc = "writing" /\ todo # <<>> /\ Taken(Head(todo))
    /\ UNCHANGED <<shown, updated, changes>>

(***************************************************************************)
(* The fan by itself: it leaves Turbo for natural wind and back.           *)
(***************************************************************************)
FanChanges(f) ==
    /\ MayDisturb
    /\ changes' = changes + 1
    /\ LET touched == {f} \cup (IF f \in {"natural", "turbo"} /\ fan[f] = 0
                                THEN {"natural", "turbo"} \ {f} ELSE {})
       IN fan' = [g \in Fields |-> IF g = f THEN 1 - fan[f]
                                   ELSE IF g \in touched THEN 0 ELSE fan[g]]
    /\ synced' = {}
    /\ UNCHANGED <<shown, pc, patchVars, refreshVars, force, failures>>

WriteStep == WriteNext \/ PatchDone
RefreshStep == RefreshBegins \/ ReadNext \/ RefreshDone

CommandNext ==
    \/ \E b \in Bodies : PatchBegins(b)
    \/ WriteStep \/ PatchFails \/ RefreshStep \/ LinkRemade
    \/ \E f \in Fields : FanChanges(f)

CommandSpec == CommandInit /\ [][CommandNext]_commandVars

\* The loop goes on refreshing: _op_lock is handed out in order, so a PATCH
\* cannot keep a refresh waiting for ever.
FairCommandSpec ==
    /\ CommandSpec
    /\ WF_commandVars(WriteStep)
    /\ WF_commandVars(ReadNext \/ RefreshDone)
    /\ SF_commandVars(RefreshBegins)

(***************************************************************************)
(* Properties                                                              *)
(***************************************************************************)

\* "Natural wind and Turbo are mutually exclusive": between any two writes of
\* any PATCH, and after any of them failed, the fan is in one of them at most
\* (as long as nobody else switches it in the middle of the writes).
ModesExclusive == changes = 0 => ~(fan["natural"] = 1 /\ fan["turbo"] = 1)

\* A PATCH that succeeded shows what it did: the cached state agrees with the
\* fan on every field it set, until the fan is written again or changes.
AcceptedIsShown == \A f \in synced : shown[f] = fan[f]

\* The cached state catches up with the fan once nobody patches it any more,
\* after failed commands, failed reads and changes nobody asked for.
ShownCatchesUp == <>[][pc' # "writing"]_commandVars => <>[](shown = fan)
=============================================================================
