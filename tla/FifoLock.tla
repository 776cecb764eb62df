------------------------------ MODULE FifoLock ------------------------------
(***************************************************************************)
(* What the GATT gate of the BLE runtime promises to its users, without    *)
(* scanners, tokens or timers: one holder at a time, first come first      *)
(* served.  The one thing an ideal lock would not do and this one may do   *)
(* is Forfeit: the holder vanishes without giving the lock back (a task    *)
(* cancelled while it pauses the scanner), and the lock stays taken.       *)
(***************************************************************************)
EXTENDS Naturals, Sequences, SequencesExt

CONSTANTS
    Procs,      \* everything that may ask for the lock
    NoProc,     \* the lock is free
    Lost        \* the lock is taken and nobody is left to release it

VARIABLES holder, queue
lockVars == <<holder, queue>>

LockInit == holder = NoProc /\ queue = <<>>

Enqueue(p) ==
    /\ queue' = Append(queue, p)
    /\ UNCHANGED holder

\* A free lock goes to the process that has waited longest.
TakeFirst ==
    /\ holder = NoProc
    /\ queue # <<>>
    /\ holder' = Head(queue)
    /\ queue' = Tail(queue)

\* A waiter may leave the queue from any position.
Withdraw(i) ==
    /\ queue' = RemoveAt(queue, i)
    /\ UNCHANGED holder

\* Only a process that holds the lock gives it back.
GiveBack ==
    /\ holder \in Procs
    /\ holder' = NoProc
    /\ UNCHANGED queue

Forfeit ==
    /\ holder \in Procs
    /\ holder' = Lost
    /\ UNCHANGED queue

LockNext ==
    \/ \E p \in Procs : Enqueue(p)
    \/ TakeFirst
    \/ \E i \in DOMAIN queue : Withdraw(i)
    \/ GiveBack
    \/ Forfeit

LockSpec == LockInit /\ [][LockNext]_lockVars
=============================================================================
