---------------------------- MODULE PortSwitches ----------------------------
(***************************************************************************)
(* What a charger's port switches promise those who call them: one         *)
(* operation has its turn at a time, it changes the mask of the ports at   *)
(* most once and in one step, from the mask the charger has at that        *)
(* moment, and nothing of it comes after its answer.  An "ok" means that   *)
(* its ports are as it asked.                                              *)
(*                                                                         *)
(* The promise about masks ends when it is doubted: replies that do not    *)
(* say what they answer may then be taken for others, and somebody at the  *)
(* charger may press a button between reading and writing the mask.        *)
(***************************************************************************)
CONSTANTS Callers, Ports

VARIABLES
    mask,       \* the ports that are on
    answer,     \* per caller
    turn,       \* the caller whose operation has begun, or "worker"
    asked,      \* the ports it switches, and on or off
    done,       \* whether it has changed the mask
    trusted     \* whether the promise still holds

switchVars == <<mask, answer, turn, asked, done, trusted>>

Masks == SUBSET Ports
Ops == [ports : Masks, on : BOOLEAN]
NoOp == [ports |-> {}, on |-> FALSE]

SwitchInit ==
    /\ mask \in Masks
    /\ answer = [c \in Callers |-> "idle"]
    /\ turn = "worker"
    /\ asked = NoOp
    /\ done = FALSE
    /\ trusted = TRUE

\* What was doubted once is not trusted again.
Doubtable == trusted' => trusted

Changed == IF asked.on THEN mask \cup asked.ports ELSE mask \ asked.ports
InForce == \A p \in asked.ports : p \in mask <=> asked.on

Calls(c) ==
    /\ answer[c] = "idle"
    /\ answer' \in {[answer EXCEPT ![c] = a] : a \in {"waiting", "error"}}
    /\ UNCHANGED <<mask, turn, asked, done, trusted>>

\* The caller gives up, or its operation fails before it has begun.
Leaves(c) ==
    /\ answer[c] = "waiting"
    /\ answer' \in {[answer EXCEPT ![c] = a] : a \in {"timeout", "error"}}
    /\ Doubtable
    /\ UNCHANGED <<mask, turn, asked, done>>

Begins(c) ==
    /\ turn = "worker"
    /\ answer[c] = "waiting"
    /\ turn' = c
    /\ asked' \in Ops
    /\ UNCHANGED <<mask, answer, done, trusted>>

\* The operation takes effect.
Changes ==
    /\ turn \in Callers /\ ~done
    /\ IF trusted' THEN mask' = Changed ELSE mask' \in Masks
    /\ Doubtable

Applies ==
    /\ Changes
    /\ done' = TRUE
    /\ UNCHANGED <<answer, turn, asked>>

\* A caller that is gone does not hear the answer.
Hears(a) == answer' = [answer EXCEPT ![turn] = IF @ = "waiting" THEN a ELSE @]

TurnEnds ==
    /\ turn \in Callers
    /\ turn' = "worker" /\ asked' = NoOp /\ done' = FALSE

Succeeds ==
    /\ TurnEnds
    /\ trusted => InForce
    /\ Hears("ok")
    /\ UNCHANGED <<mask, trusted>>

\* An operation that fails may have taken effect.
Breaks ==
    /\ TurnEnds
    /\ \E a \in {"unacked", "error"} : Hears(a)
    /\ Changes \/ (Doubtable /\ UNCHANGED mask)

Pressed ==
    /\ \E p \in Ports : mask' = IF p \in mask THEN mask \ {p} ELSE mask \cup {p}
    /\ trusted' = FALSE
    /\ UNCHANGED <<answer, turn, asked, done>>

Doubted ==
    /\ trusted' = FALSE
    /\ UNCHANGED <<mask, answer, turn, asked, done>>

\* The end of the process answers everybody.
Closes ==
    /\ answer' = [c \in Callers |-> IF answer[c] = "waiting" THEN "error" ELSE answer[c]]
    /\ turn' = "worker" /\ asked' = NoOp /\ done' = FALSE
    /\ UNCHANGED <<mask, trusted>>

SwitchNext ==
    \/ \E c \in Callers : Calls(c) \/ Leaves(c) \/ Begins(c)
    \/ Applies \/ Succeeds \/ Breaks
    \/ Pressed \/ Doubted \/ Closes

SwitchSpec == SwitchInit /\ [][SwitchNext]_switchVars
=============================================================================
