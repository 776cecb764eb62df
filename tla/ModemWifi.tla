------------------------------ MODULE ModemWifi ------------------------------
(***************************************************************************)
(* The modem's Wi-Fi schedule and its web proxy                            *)
(* (src/tools/modem_wifi_schedule): cron starts `reconcile` every minute,  *)
(* `set` is a manual command, and the proxy forwards browser requests over *)
(* a session of its own.  They share one file lock, which the commands try *)
(* once and the proxy tries for ten seconds, and the modem's two radios.   *)
(*                                                                         *)
(* Slots are numbered: in even ones the schedule wants the radios on.      *)
(* Parsing, tokens, headers and access rules are left out.                 *)
(***************************************************************************)
EXTENDS Integers, FiniteSets

CONSTANTS
    Crons,       \* overlapping `reconcile` processes
    Manuals,     \* manual `set` processes
    Requests,    \* browser requests, each made once
    MaxSlots,    \* bound: last slot
    MaxFaults,   \* bound: failures, expired sessions, reboots, clock steps
    MaxHands     \* bound: `set` commands and changes at the modem, by hand

Bands == 1 .. 2       \* "2.4GHz", then "5GHz"
Clis == Crons \cup Manuals
Methods == {"GET", "POST", "ENTRY"}    \* ENTRY: a path of LOGIN_PATHS

ASSUME ModemAssumption ==
    /\ Crons \cap Manuals = {} /\ Clis \cap Requests = {} /\ "proxy" \notin Clis
    /\ MaxSlots \in Nat /\ MaxFaults \in Nat /\ MaxHands \in Nat

VARIABLES
    radio,     \* modem: the Enable of each band
    session,   \* modem: clients whose login is valid
    slot,      \* schedule_slot(now)
    boot,      \* boot_id
    file,      \* the state file; `recent`: it failed less than 300 s ago
    cli,       \* per command process: progress and locals of run()
    client,    \* proxy: Backend.client is set
    backoff,   \* proxy: now < next_login_at
    req,       \* per request: progress, method, the band and value it posts
    posts,     \* history: how often the modem carried the request's POST out
    faults, hands

vars == <<radio, session, slot, boot, file, cli, client, backoff, req, posts, faults, hands>>

Wanted(s) == s % 2 = 0
NoFile == [slot |-> -1, boot |-> -1, confirmed |-> FALSE, recent |-> FALSE]
Ended == [pc |-> "idle", want |-> FALSE, force |-> FALSE, slot |-> 0, boot |-> 0,
          band |-> 1, pressed |-> FALSE]
NewRequest == [pc |-> "new", method |-> "GET", band |-> 1, value |-> FALSE]
Answered == [NewRequest EXCEPT !.pc = "done"]

\* The proxy has served requests before: it may have a session, or its last
\* login may have failed.
Init ==
    /\ radio \in [Bands -> BOOLEAN]
    /\ client \in BOOLEAN /\ session = IF client THEN {"proxy"} ELSE {}
    /\ backoff \in BOOLEAN /\ ~(client /\ backoff)
    /\ slot = 0 /\ boot = 0
    /\ file = NoFile
    /\ cli = [p \in Clis |-> Ended]
    /\ req = [r \in Requests |-> NewRequest]
    /\ posts = [r \in Requests |-> 0]
    /\ faults = 0 /\ hands = 0

Running(p) == cli[p].pc # "idle"
InGate(r) == req[r].pc \in {"session", "send", "again", "resend"}
Free == ~(\E p \in Clis : Running(p)) /\ ~(\E r \in Requests : InGate(r))

Fault == faults < MaxFaults /\ faults' = faults + 1
ByHand == hands < MaxHands /\ hands' = hands + 1

cliFrame == <<slot, boot, client, backoff, req, posts, hands>>

-----------------------------------------------------------------------------
(* The commands, run() under the file lock.                                 *)

\* A failed attempt counts as done.
NeedsReconcile_OncePerSlot == file.slot # slot \/ file.boot # boot

NeedsReconcile ==
    \/ file.slot # slot \/ file.boot # boot
    \/ ~file.confirmed /\ ~file.recent

Started(on, force) ==
    [pc |-> "login", want |-> on, force |-> force, slot |-> slot, boot |-> boot,
     band |-> 1, pressed |-> FALSE]

\* The state file is not looked at under the lock.
Reconcile_ChecksFirst(p) ==
    /\ p \in Crons /\ ~Running(p)
    /\ NeedsReconcile
    /\ cli' = [cli EXCEPT ![p] = Started(Wanted(slot), FALSE)]
    /\ UNCHANGED <<cliFrame, radio, session, file, faults>>

\* cron's job; one that finds the lock taken or nothing to do just ends.
Reconcile(p) ==
    /\ p \in Crons /\ ~Running(p)
    /\ Free /\ NeedsReconcile
    /\ cli' = [cli EXCEPT ![p] = Started(Wanted(slot), FALSE)]
    /\ UNCHANGED <<cliFrame, radio, session, file, faults>>

Set(p) ==
    /\ ByHand
    /\ p \in Manuals /\ ~Running(p)
    /\ Free
    /\ \E on, force \in BOOLEAN :
        cli' = [cli EXCEPT ![p] = Started(on, force)]
    /\ UNCHANGED <<slot, boot, client, backoff, req, posts, radio, session, file, faults>>

Login(p) ==
    /\ cli[p].pc = "login"
    /\ session' = session \cup {p}
    /\ cli' = [cli EXCEPT ![p].pc = "check"]
    /\ UNCHANGED <<cliFrame, radio, file, faults>>

\* The loop over the bands does not end after the second.
NextBand_Beyond(c) == IF c.pc = "check" THEN [c EXCEPT !.band = @ + 1]
                                        ELSE [c EXCEPT !.pc = "confirm"]

NextBand(c) == IF c.band = 1 THEN [c EXCEPT !.pc = "check", !.band = 2]
                             ELSE [c EXCEPT !.pc = "confirm"]

\* A band that is as wanted is not written, unless forced.
CheckBand(p) ==
    /\ cli[p].pc = "check" /\ p \in session
    /\ cli' = [cli EXCEPT ![p] =
        IF ~cli[p].force /\ radio[cli[p].band] = cli[p].want THEN NextBand(cli[p])
        ELSE [cli[p] EXCEPT !.pc = "write"]]
    /\ UNCHANGED <<cliFrame, radio, session, file, faults>>

WriteBand(p) ==
    /\ cli[p].pc = "write" /\ p \in session
    /\ radio' = [radio EXCEPT ![cli[p].band] = cli[p].want]
    /\ cli' = [cli EXCEPT ![p].pc = "readback"]
    /\ UNCHANGED <<cliFrame, session, file, faults>>

ReadBack(p) ==
    /\ cli[p].pc = "readback" /\ p \in session
    /\ radio[cli[p].band] = cli[p].want
    /\ cli' = [cli EXCEPT ![p] = NextBand(cli[p])]
    /\ UNCHANGED <<cliFrame, radio, session, file, faults>>

Confirm(p) ==
    /\ cli[p].pc = "confirm" /\ p \in session
    /\ \A b \in Bands : radio[b] = cli[p].want
    /\ cli' = [cli EXCEPT ![p].pc = "save", ![p].pressed = FALSE]
    /\ UNCHANGED <<cliFrame, radio, session, file, faults>>

Saved(p, confirmed) ==
    file' = IF p \in Crons
            THEN [slot |-> cli[p].slot, boot |-> cli[p].boot,
                  confirmed |-> confirmed, recent |-> ~confirmed]
            ELSE file

\* `set` writes no state.
SaveConfirmed(p) ==
    /\ cli[p].pc = "save"
    /\ Saved(p, TRUE)
    /\ cli' = [cli EXCEPT ![p] = Ended]
    /\ session' = session \ {p}
    /\ UNCHANGED <<cliFrame, radio, faults>>

\* Any exception: a radio that does not read as wanted, an expired session
\* (its login page holds no radios), or a request that failed.
Unconfirmed(p) ==
    \/ cli[p].pc \in {"check", "write", "readback", "confirm"} /\ p \notin session
    \/ cli[p].pc = "readback" /\ radio[cli[p].band] # cli[p].want
    \/ cli[p].pc = "confirm" /\ \E b \in Bands : radio[b] # cli[p].want

Failed(p) ==
    /\ Saved(p, FALSE)
    /\ cli' = [cli EXCEPT ![p] = Ended]
    /\ session' = session \ {p}
    /\ UNCHANGED cliFrame

CommandFails(p) == Unconfirmed(p) /\ Failed(p) /\ UNCHANGED <<radio, faults>>

\* A request of the command fails; a POST may have been carried out.
RequestFails(p) ==
    /\ Fault
    /\ Running(p) /\ cli[p].pc # "save"
    /\ Failed(p)
    /\ \/ UNCHANGED radio
       \/ cli[p].pc = "write" /\ p \in session /\ radio' = [radio EXCEPT ![cli[p].band] = cli[p].want]

Killed(p) ==
    /\ Fault
    /\ Running(p)
    /\ cli' = [cli EXCEPT ![p] = Ended]
    /\ session' = session \ {p}
    /\ UNCHANGED <<cliFrame, radio, file>>

-----------------------------------------------------------------------------
(* The proxy: handle_proxy() in a thread per request, Backend.forward()     *)
(* under the thread lock and the file lock.                                 *)

proxyFrame == <<slot, boot, file, cli, hands>>

\* Whatever the answer says ("done"), the request is over.
To(r, pc) == req' = [req EXCEPT ![r] = IF pc = "done" THEN Answered ELSE [@ EXCEPT !.pc = pc]]
Answer(r) == To(r, "done")

Arrive(r) ==
    /\ req[r].pc = "new"
    /\ \/ \E m \in {"GET", "ENTRY"} : req' = [req EXCEPT ![r].pc = "wait", ![r].method = m]
       \/ \E b \in Bands, v \in BOOLEAN :
             req' = [req EXCEPT ![r] = [pc |-> "wait", method |-> "POST", band |-> b, value |-> v]]
    /\ UNCHANGED <<proxyFrame, radio, session, client, backoff, posts, faults>>

\* The proxy takes its own lock only.
Enter_ThreadLockOnly(r) ==
    /\ req[r].pc = "wait" /\ ~(\E s \in Requests : InGate(s))
    /\ To(r, "session")
    /\ UNCHANGED <<proxyFrame, radio, session, client, backoff, posts, faults>>

Enter(r) ==
    /\ req[r].pc = "wait" /\ Free
    /\ To(r, "session")
    /\ UNCHANGED <<proxyFrame, radio, session, client, backoff, posts, faults>>

\* radio_gate: ten seconds have passed with a command in the lock.
GateTimesOut(r) ==
    /\ req[r].pc = "wait" /\ \E p \in Clis : Running(p)
    /\ Answer(r)
    /\ UNCHANGED <<proxyFrame, radio, session, client, backoff, posts, faults>>

\* forward() up to its first request to the modem.
Proceed(r) == To(r, IF req[r].method = "ENTRY" THEN "done" ELSE "send")

HasClient(r) ==
    /\ req[r].pc = "session" /\ client
    /\ Proceed(r)
    /\ UNCHANGED <<proxyFrame, radio, session, client, backoff, posts, faults>>

NeedsLogin(r) == (req[r].pc = "session" /\ ~client) \/ req[r].pc = "again"

LoginBacksOff(r) ==
    /\ NeedsLogin(r) /\ backoff
    /\ Answer(r)
    /\ UNCHANGED <<proxyFrame, radio, session, client, backoff, posts, faults>>

ProxyLogin(r) ==
    /\ NeedsLogin(r) /\ ~backoff
    /\ client' = TRUE /\ session' = session \cup {"proxy"}
    /\ IF req[r].pc = "again" THEN To(r, "resend") ELSE Proceed(r)
    /\ UNCHANGED <<proxyFrame, radio, backoff, posts, faults>>

ProxyLoginFails(r) ==
    /\ Fault
    /\ NeedsLogin(r) /\ ~backoff
    /\ client' = FALSE /\ backoff' = TRUE
    /\ Answer(r)
    /\ UNCHANGED <<proxyFrame, radio, session, posts>>

\* What the modem does with the request.
CarriedOut(r) ==
    IF req[r].method = "POST"
    THEN /\ radio' = [radio EXCEPT ![req[r].band] = req[r].value]
         /\ posts' = [posts EXCEPT ![r] = @ + 1]
    ELSE UNCHANGED <<radio, posts>>

Sending(r) == req[r].pc \in {"send", "resend"}

Forward(r) ==
    /\ Sending(r) /\ "proxy" \in session
    /\ CarriedOut(r)
    /\ Answer(r)
    /\ UNCHANGED <<proxyFrame, session, client, backoff, faults>>

\* A POST is sent again like a GET.
LoggedOutTo_ReplaysPost(r) == IF req[r].pc = "send" THEN "again" ELSE "done"

\* The answer is a login page: a GET is sent once more after a new login.
LoggedOutTo(r) == IF req[r].pc = "send" /\ req[r].method = "GET" THEN "again" ELSE "done"

LoggedOut(r) ==
    /\ Sending(r) /\ "proxy" \notin session
    /\ client' = FALSE
    /\ To(r, LoggedOutTo(r))
    /\ UNCHANGED <<proxyFrame, radio, session, backoff, posts, faults>>

\* The session ends with the very request, which was carried out.
LoggedOutAfter(r) ==
    /\ Fault
    /\ Sending(r) /\ "proxy" \in session
    /\ CarriedOut(r)
    /\ client' = FALSE /\ session' = session \ {"proxy"}
    /\ To(r, LoggedOutTo(r))
    /\ UNCHANGED <<proxyFrame, backoff>>

\* No answer within eight seconds, carried out or not; the client is kept.
ForwardFails(r) ==
    /\ Fault
    /\ Sending(r)
    /\ \/ "proxy" \in session /\ CarriedOut(r)
       \/ UNCHANGED <<radio, posts>>
    /\ Answer(r)
    /\ UNCHANGED <<proxyFrame, session, client, backoff>>

BackoffEnds ==
    /\ backoff
    /\ backoff' = FALSE
    /\ UNCHANGED <<proxyFrame, radio, session, client, req, posts, faults>>

-----------------------------------------------------------------------------
(* Clock, router and modem.                                                 *)

worldFrame == <<client, backoff, req, posts>>

SlotBegins ==
    /\ slot < MaxSlots
    /\ slot' = slot + 1
    /\ UNCHANGED <<worldFrame, radio, session, boot, file, cli, faults, hands>>

RetryDue ==
    /\ file.recent
    /\ file' = [file EXCEPT !.recent = FALSE]
    /\ UNCHANGED <<worldFrame, radio, session, slot, boot, cli, faults, hands>>

\* The clock is set back: the slot before, and an old attempt counts as recent
\* again or not.
ClockStepsBack ==
    /\ Fault
    /\ slot > 0 /\ slot' = slot - 1
    /\ \E recent \in BOOLEAN : file' = [file EXCEPT !.recent = recent /\ file # NoFile /\ ~file.confirmed]
    /\ UNCHANGED <<worldFrame, radio, session, boot, cli, hands>>

\* The state file may be on /tmp or not; the modem may drop its sessions.
Reboot ==
    /\ Fault
    /\ boot' = boot + 1
    /\ file' \in {file, NoFile}
    /\ cli' = [p \in Clis |-> Ended]
    /\ client' = FALSE /\ backoff' = FALSE /\ session' = {}
    /\ req' = [r \in Requests |-> IF req[r].pc \in {"wait", "session", "send", "again", "resend"}
                                  THEN Answered ELSE req[r]]
    /\ UNCHANGED <<radio, slot, posts, hands>>

SessionExpires(x) ==
    /\ Fault
    /\ x \in session
    /\ session' = session \ {x}
    /\ UNCHANGED <<worldFrame, radio, slot, boot, file, cli, hands>>

Press(b) ==
    /\ ByHand
    /\ radio' = [radio EXCEPT ![b] = ~@]
    /\ cli' = [p \in Clis |-> [cli[p] EXCEPT !.pressed = Running(p)]]
    /\ UNCHANGED <<worldFrame, session, slot, boot, file, faults>>

-----------------------------------------------------------------------------
CommandStep(p) ==
    \/ Login(p) \/ CheckBand(p) \/ WriteBand(p) \/ ReadBack(p) \/ Confirm(p)
    \/ SaveConfirmed(p) \/ CommandFails(p)
ProxyStep(r) ==
    \/ Enter(r) \/ HasClient(r) \/ LoginBacksOff(r) \/ ProxyLogin(r)
    \/ Forward(r) \/ LoggedOut(r)
Mishap ==
    \/ \E p \in Clis : RequestFails(p) \/ Killed(p)
    \/ \E r \in Requests : ProxyLoginFails(r) \/ LoggedOutAfter(r) \/ ForwardFails(r)
    \/ ClockStepsBack \/ Reboot
    \/ \E x \in session : SessionExpires(x)
    \/ \E b \in Bands : Press(b)

Next ==
    \/ \E p \in Clis : Reconcile(p) \/ Set(p) \/ CommandStep(p)
    \/ \E r \in Requests : Arrive(r) \/ GateTimesOut(r) \/ ProxyStep(r)
    \/ SlotBegins \/ RetryDue \/ BackoffEnds \/ Mishap

Spec == Init /\ [][Next]_vars

\* cron starts a job every minute, a command or request that runs goes on by
\* itself (every request to the modem has a timeout), five minutes pass.
FairSpec ==
    /\ Spec
    /\ WF_vars(\E p \in Crons : Reconcile(p))
    /\ WF_vars(\E p \in Clis : CommandStep(p))
    /\ WF_vars(\E r \in Requests : ProxyStep(r))
    /\ WF_vars(RetryDue)

-----------------------------------------------------------------------------
(* Properties.                                                              *)

\* The types of all variables.
TypeOK ==
    /\ radio \in [Bands -> BOOLEAN]
    /\ session \subseteq Clis \cup {"proxy"}
    /\ slot \in 0 .. MaxSlots /\ boot \in 0 .. MaxFaults
    /\ file \in [slot : -1 .. MaxSlots, boot : -1 .. MaxFaults, confirmed : BOOLEAN, recent : BOOLEAN]
    /\ cli \in [Clis ->
         [pc : {"idle", "login", "check", "write", "readback", "confirm", "save"},
          want : BOOLEAN, force : BOOLEAN, slot : 0 .. MaxSlots, boot : 0 .. MaxFaults,
          band : Bands, pressed : BOOLEAN]]
    /\ client \in BOOLEAN /\ backoff \in BOOLEAN
    /\ req \in [Requests ->
         [pc : {"new", "wait", "session", "send", "again", "resend", "done"},
          method : Methods, band : Bands, value : BOOLEAN]]
    /\ posts \in [Requests -> Nat]
    /\ faults \in 0 .. MaxFaults /\ hands \in 0 .. MaxHands

\* The modem never carries a browser's POST out twice, although an expired
\* session makes forward() log in and send again, and although the answer that
\* says so may come after the POST was carried out.
CarriedOutOnce == \A r \in Requests : posts[r] <= 1

\* When a command reports (and cron's job records) both bands confirmed, they
\* are as it wanted: no other command and no request of the proxy wrote a
\* radio since they were read; only a change at the modem itself can have.
ConfirmedHolds ==
    \A p \in Clis :
        cli[p].pc = "save" /\ ~cli[p].pressed => \A b \in Bands : radio[b] = cli[p].want

\* cron's jobs control the modem once per slot and boot: while one works on a
\* slot the file does not say that this slot is done, so what is changed by
\* hand afterwards stays until the next slot, although jobs overlap and the
\* clock may step.
DoneOnce ==
    \A p \in Crons :
        Running(p) => ~(file.confirmed /\ file.slot = cli[p].slot /\ file.boot = cli[p].boot)

\* Whatever failed, once the failures, the slots and the hands come to rest the
\* current slot is confirmed in the current boot and stays so.
SlotSettles == <>[](file.confirmed /\ file.slot = slot /\ file.boot = boot)
=============================================================================
