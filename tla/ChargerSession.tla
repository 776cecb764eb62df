--------------------------- MODULE ChargerSession ---------------------------
(***************************************************************************)
(* The receiving side of one charger session (session.py): encrypted       *)
(* frames wait in the queue of cmd_recv, those that follow the login are   *)
(* set aside and read first, and the 32-bit counter each one is decrypted  *)
(* with is rebuilt from the half that is on the wire.                      *)
(*                                                                         *)
(* The charger numbers its frames 0, 1, 2, ...  A number that is guessed   *)
(* wrong makes the frame unreadable, and every later one too.              *)
(***************************************************************************)
EXTENDS Naturals, Sequences

CONSTANTS
    W,            \* values of the counter on the wire: 65536
    QueueSize,    \* maxsize of the notification queue: 1024
    MaxSaved,     \* frames _capture_initial_pushes keeps: 60
    MaxCount,     \* most chunks of a long message that are waited for: 100
    MaxUnread,    \* bound on the frames sent since the last one that was read
    MaxFrames,    \* bound on the frames of one connection
    MaxLong       \* bound on long messages of one connection

ASSUME SessionAssumption ==
    /\ W \in Nat \ {0} /\ QueueSize \in Nat \ {0} /\ MaxSaved \in Nat
    /\ MaxCount \in Nat \ {0} /\ MaxFrames \in Nat /\ MaxLong \in Nat
    /\ MaxUnread \in Nat /\ 2 * MaxUnread < W

VARIABLES
    stage,    \* where the worker is with this session
    sent,     \* frames the charger has numbered
    owed,     \* chunks of a long message the charger has still to send
    inbox,    \* the queue of cmd_recv
    saved,    \* self._init_frames
    skip,     \* chunks the reader still waits for
    hi,       \* self._dev_it_hi
    last,     \* self._last_dev_it_lo
    next,     \* no frame before this one is read any more (history)
    stray,    \* a chunk was taken for a message of its own (history)
    long      \* long messages so far

reader == <<stage, inbox, saved, skip>>
counter == <<hi, last, next, stray>>
sender == <<sent, owed, long>>
sessionVars == <<reader, counter, sender>>

Single(n) == [kind |-> "single", n |-> n]
LongOf(count) == [kind |-> "head", n |-> count]
Chunk == [kind |-> "chunk", n |-> 0]
Notices == {Single(n) : n \in 0..MaxFrames} \cup {LongOf(c) : c \in 1..MaxCount} \cup {Chunk}

SessionTypeOK ==
    /\ stage \in {"offline", "capture", "drain", "ready"}
    /\ sent \in 0..MaxFrames
    /\ owed \in 0..MaxCount
    /\ inbox \in Seq(Notices) /\ Len(inbox) <= QueueSize
    /\ saved \in Seq(Notices) /\ Len(saved) <= MaxSaved
    /\ skip \in 0..MaxCount
    /\ hi \in Nat
    /\ last \in 0..(W - 1)
    /\ next \in 0..sent
    /\ stray \in BOOLEAN
    /\ long \in 0..MaxLong

SessionInit ==
    /\ stage = "offline"
    /\ sent = 0 /\ owed = 0 /\ long = 0
    /\ inbox = <<>> /\ saved = <<>> /\ skip = 0
    /\ hi = 0 /\ last = 0 /\ next = 0 /\ stray = FALSE

(***************************************************************************)
(* The connection: every one has a session object, keys and counters of    *)
(* its own.                                                                *)
(***************************************************************************)
Login ==
    /\ stage = "offline"
    /\ stage' = "capture"
    /\ UNCHANGED <<inbox, saved, skip, counter, sender>>

Disconnected ==
    /\ stage # "offline"
    /\ stage' = "offline"
    /\ sent' = 0 /\ owed' = 0 /\ long' = 0
    /\ inbox' = <<>> /\ saved' = <<>> /\ skip' = 0
    /\ hi' = 0 /\ last' = 0 /\ next' = 0 /\ stray' = FALSE

(***************************************************************************)
(* The charger's notifications and the callback that queues them           *)
(***************************************************************************)
\* A full queue loses its oldest frame.
Queued(frame) ==
    inbox' = Append(IF Len(inbox) = QueueSize THEN Tail(inbox) ELSE inbox, frame)

Sends ==
    /\ stage # "offline"
    /\ sent < MaxFrames
    /\ sent + 1 - next <= MaxUnread
    /\ sent' = sent + 1
    /\ \/ Queued(Single(sent)) /\ UNCHANGED long
       \/ /\ long < MaxLong
          /\ long' = long + 1
          /\ \E c \in 1..MaxCount : Queued(LongOf(c))
    /\ UNCHANGED <<stage, saved, skip, owed, counter>>

\* The chunks of a long message follow the reader's go-ahead, or some do.
SendsChunk ==
    /\ owed > 0
    /\ owed' = owed - 1
    /\ Queued(Chunk) \/ UNCHANGED inbox
    /\ UNCHANGED <<stage, saved, skip, counter, sent, long>>

(***************************************************************************)
(* Reading                                                                 *)
(***************************************************************************)
Decrypt_NeverWraps(lo) ==
    /\ hi' = hi
    /\ last' = lo

\* A counter that fell by more than half its range has wrapped.
Decrypt(lo) ==
    /\ hi' = IF lo < last /\ last - lo > W \div 2 THEN hi + 1 ELSE hi
    /\ last' = lo

\* A chunk has no header: what its bytes look like is chance.  Taken for a
\* message it moves the counter before its tag is found wrong.
Process(frame) ==
    CASE frame.kind = "single" ->
            /\ Decrypt(frame.n % W)
            /\ next' = frame.n + 1
            /\ UNCHANGED <<skip, stray, owed>>
      [] frame.kind = "head" ->
            /\ skip' = frame.n
            /\ owed' = frame.n
            /\ UNCHANGED counter
      [] frame.kind = "chunk" ->
            \/ UNCHANGED <<skip, owed, counter>>
            \/ skip' \in 1..MaxCount /\ UNCHANGED <<owed, counter>>
            \/ /\ \E lo \in 0..(W - 1) : Decrypt(lo)
               /\ stray' = TRUE
               /\ UNCHANGED <<skip, owed, next>>

\* The chunks of a long message are waited for, 3 s each, and thrown away,
\* and so is whatever else comes in between.
Swallow ==
    /\ skip > 0
    /\ skip' = skip - 1
    /\ \/ inbox # <<>> /\ inbox' = Tail(inbox)
       \/ UNCHANGED inbox
    /\ UNCHANGED <<stage, saved, counter, sender>>

\* _capture_initial_pushes: acknowledged and kept, not decrypted yet.
Capture ==
    /\ stage = "capture" /\ skip = 0
    /\ inbox # <<>> /\ Len(saved) < MaxSaved
    /\ inbox' = Tail(inbox)
    /\ LET frame == Head(inbox) IN
          CASE frame.kind = "single" ->
                  saved' = Append(saved, frame) /\ UNCHANGED <<skip, owed>>
            [] frame.kind = "head" ->
                  skip' = frame.n /\ owed' = frame.n /\ UNCHANGED saved
            [] frame.kind = "chunk" ->
                  \/ UNCHANGED <<saved, skip, owed>>
                  \/ skip' \in 1..MaxCount /\ UNCHANGED <<saved, owed>>
                  \/ saved' = Append(saved, frame) /\ UNCHANGED <<skip, owed>>
    /\ UNCHANGED <<stage, counter, sent, long>>

\* 0.8 s of silence, 6 s in all, or enough frames.
CaptureEnds ==
    /\ stage = "capture" /\ skip = 0
    /\ stage' = "drain"
    /\ UNCHANGED <<inbox, saved, skip, counter, sender>>

\* drain_initial_events, before the first GET of the worker.
Drain_NewestFirst ==
    /\ stage = "drain" /\ saved # <<>>
    /\ saved' = SubSeq(saved, 1, Len(saved) - 1)
    /\ LET frame == saved[Len(saved)] IN
          \/ frame.kind = "single" /\ Process(frame)
          \/ /\ frame.kind = "chunk"
             /\ \E lo \in 0..(W - 1) : Decrypt(lo)
             /\ stray' = TRUE
             /\ UNCHANGED <<skip, owed, next>>
    /\ UNCHANGED <<stage, inbox, sent, long>>

Drain ==
    /\ stage = "drain" /\ saved # <<>>
    /\ saved' = Tail(saved)
    /\ LET frame == Head(saved) IN
          \/ frame.kind = "single" /\ Process(frame)
          \/ /\ frame.kind = "chunk"
             /\ \E lo \in 0..(W - 1) : Decrypt(lo)
             /\ stray' = TRUE
             /\ UNCHANGED <<skip, owed, next>>
    /\ UNCHANGED <<stage, inbox, sent, long>>

Drained ==
    /\ stage = "drain" /\ saved = <<>>
    /\ stage' = "ready"
    /\ UNCHANGED <<inbox, saved, skip, counter, sender>>

\* A receive window or the wait for a reply.  next_plaintext would read what was
\* set aside first, but nothing is by now.
Read ==
    /\ stage = "ready" /\ skip = 0
    /\ inbox # <<>>
    /\ inbox' = Tail(inbox)
    /\ Process(Head(inbox))
    /\ UNCHANGED <<stage, saved, sent, long>>

SessionNext ==
    \/ Login \/ Disconnected
    \/ Sends \/ SendsChunk
    \/ Capture \/ CaptureEnds \/ Swallow
    \/ Drain \/ Drained \/ Read

SessionSpec == SessionInit /\ [][SessionNext]_sessionVars

(***************************************************************************)
(* Properties                                                              *)
(***************************************************************************)

\* The counter the session rebuilds is that of the last frame it read, across
\* lost frames, a full queue, long messages, the frames set aside at the login
\* and every wrap, as long as no chunk was taken for a message.
EpochInSync ==
    ~stray /\ next > 0 => hi * W + last = next - 1

\* What is read is newer than all that was read before on the connection, so
\* that an old state never overwrites a new one.
NewestLast ==
    [][next' # next => next' > next \/ stage' = "offline"]_sessionVars
=============================================================================
