------------------------------ MODULE Accounts ------------------------------
(***************************************************************************)
(* One WhatsApp account in the two processes that keep it: its row in the  *)
(* service (accounts/service.py, api/v1/accounts.py) and its session in    *)
(* the bridge (account-manager.js, account-session.js). Requests of the    *)
(* console read the row, call the bridge and change the row afterwards; a  *)
(* round of the reconciler (accounts/reconciler.py) reads the bridge, then *)
(* the row, and creates and connects afterwards. A call can fail or time   *)
(* out, and one that timed out can still be carried out. The bridge keeps  *)
(* sessions in memory: its restart forgets them, sockets and timers too.   *)
(* What a session goes through is told to the service by events that come  *)
(* later, in their order (EventPipeline).                                  *)
(*                                                                         *)
(* A generation is a number in use by the session, by a connect in         *)
(* progress or by an open socket. Left out: the primary account, names,    *)
(* the confirmation of a deletion, session files, other accounts, the      *)
(* image of a QR code. MaxGen, MaxEvents, MaxOps and MaxFaults (late calls,  *)
(* expired codes and restarts of the bridge together) bound the model.     *)
(***************************************************************************)
EXTENDS Naturals, FiniteSets, FiniteSetsExt, Sequences

CONSTANTS Thread, MaxGen, MaxEvents, MaxOps, MaxFaults

VARIABLES
    row,       \* the row: is there one, enabled, status
    session,   \* the session: is it known, its state, generation, socket, timer
    connects,  \* connects in progress: generation, and whether announced
    live,      \* open sockets, by their generations
    deleting,  \* a deletion waits for the session to close
    leaving,   \* a logout waits for its socket
    queued,    \* expired codes that the bridge has still to tell of
    events,    \* status events on their way
    th,        \* th[t]: the request of thread t: operation, how far, answer,
               \* and the row that a logout has read
    late,      \* calls that timed out and may be carried out yet
    round,     \* the round of the reconciler: how far, and what it found to do
    revived,   \* history: a connect came after the stop of an account put off
    astray,    \* history: the status in the row need not follow the session
    ops, faults

bridge == <<session, connects, live, deleting, leaving, queued, events>>
service == <<row, th, round>>
history == <<revived, astray>>
bounds == <<ops, faults>>
vars == <<bridge, service, late, history, bounds>>

-----------------------------------------------------------------------------
ASSUME AccountsAssumption ==
    /\ MaxGen \in Nat \ {0} /\ MaxEvents \in Nat
    /\ MaxOps \in Nat /\ MaxFaults \in Nat

Status == {"new", "qr_pending", "connecting", "online", "offline", "error", "logged_out"}
Op == {"create", "disable", "enable", "connect", "logout", "delete"}
Gen == 0..MaxGen

NoRow == [exists |-> FALSE, enabled |-> FALSE, status |-> "new"]
NewRow == [exists |-> TRUE, enabled |-> TRUE, status |-> "new"]
Unknown == [known |-> FALSE, state |-> "new", gen |-> 0, socket |-> 0, auto |-> FALSE,
            timer |-> FALSE, qr |-> FALSE]
NewSession == [Unknown EXCEPT !.known = TRUE]
Idle == [op |-> "create", at |-> "idle", ok |-> FALSE, was |-> NoRow]
NoRound == [at |-> "idle", todo |-> "nothing"]

Init ==
    /\ row = NoRow
    /\ session = Unknown /\ connects = {} /\ live = {} /\ deleting = FALSE /\ leaving = FALSE
    /\ queued = 0 /\ events = <<>>
    /\ th = [t \in Thread |-> Idle]
    /\ late = {}
    /\ round = NoRound
    /\ revived = FALSE /\ astray = FALSE
    /\ ops = 0 /\ faults = 0

(* What the reconciler keeps connected.                                    *)
Wanted == row.exists /\ row.enabled /\ row.status # "logged_out"
Off == ~(row.exists /\ row.enabled)

Used == {session.gen, 0} \cup {c.gen : c \in connects} \cup live
Emits(status) == events' = Append(events, status)
Room == Len(events) < MaxEvents
Fault == faults < MaxFaults /\ faults' = faults + 1

-----------------------------------------------------------------------------
(* The bridge                                                              *)

(* A request that turns the account off has stopped the session already.   *)
Stopping == \E t \in Thread :
    th[t].op \in {"disable", "logout", "delete"} /\ th[t].at = "answered" /\ th[t].ok

(* AccountSession.connect up to its first await; a new call forgets an     *)
(* earlier failure, a reconnect does not.                                  *)
ConnectBegins(reconnect) ==
    LET gen == Min((1..MaxGen) \ Used) IN
    /\ (1..MaxGen) \ Used # {}
    /\ session' = [session EXCEPT !.gen = gen, !.state = "connecting", !.qr = FALSE,
                     !.auto = @ \/ ~reconnect, !.timer = FALSE]
    /\ connects' = connects \cup {[gen |-> gen, announced |-> FALSE]}
    /\ revived' = (revived \/ Off \/ Stopping)
    /\ UNCHANGED <<live, deleting, leaving, queued, events, astray>>

Connecting == \E c \in connects : c.gen = session.gen

Connect ==
    IF (session.state = "online" /\ session.socket # 0) \/ Connecting
    THEN UNCHANGED <<bridge, history>>
    ELSE ConnectBegins(FALSE)

(* Mutant: the generation stays.                                           *)
StoppedSameGeneration ==
    [session EXCEPT !.socket = 0, !.auto = FALSE, !.timer = FALSE, !.qr = FALSE]

(* What stop, logout and close have in common.                             *)
Stopped == [session EXCEPT !.gen = 0, !.socket = 0, !.auto = FALSE, !.timer = FALSE,
                           !.qr = FALSE]

(* Mutant: nobody is told.                                                 *)
StopSilently ==
    /\ Room
    /\ session' = [Stopped EXCEPT !.state = "offline"]
    /\ live' = live \ {session.socket}
    /\ UNCHANGED <<connects, deleting, leaving, queued, events, astray>>
    /\ revived' = FALSE

Stop ==
    /\ Room
    /\ session' = [Stopped EXCEPT !.state = "offline"]
    /\ live' = live \ {session.socket}
    /\ Emits("offline")
    /\ UNCHANGED <<connects, deleting, leaving, queued, astray>>
    /\ revived' = FALSE

(* logout waits for the socket; no event tells of it.                      *)
Logout ==
    /\ session' = Stopped
    /\ leaving' = TRUE
    /\ live' = live \ {session.socket}
    /\ UNCHANGED <<connects, deleting, queued, events>>
    /\ revived' = FALSE
    /\ astray' = TRUE

LogoutEnds ==
    /\ leaving
    /\ leaving' = FALSE
    /\ session' = IF session.known THEN [session EXCEPT !.state = "logged_out"] ELSE session
    /\ UNCHANGED <<connects, live, deleting, queued, events, service, late, history, bounds>>

(* A call is carried out. An unknown account is an error; a deletion in    *)
(* progress lets creation, connection and deletion wait.                   *)
Fails(op) == ~session.known /\ op # "create"

Carry(op) ==
    /\ deleting => op \notin {"create", "connect", "delete"}
    /\ CASE Fails(op) -> UNCHANGED <<bridge, history>>
         [] op = "create" ->
              /\ session' = IF session.known THEN session ELSE NewSession
              /\ astray' = (astray \/ (~session.known /\ row.status # "new"))
              /\ UNCHANGED <<connects, live, deleting, leaving, queued, events, revived>>
         [] op = "connect" /\ session.known -> Connect
         [] op = "disable" /\ session.known -> Stop
         [] op = "logout" /\ session.known -> Logout
         [] op = "delete" /\ session.known ->
              /\ Room
              /\ session' = [Stopped EXCEPT !.state = "offline"]
              /\ live' = live \ {session.socket}
              /\ Emits("offline")
              /\ deleting' = TRUE
              /\ revived' = FALSE
              /\ UNCHANGED <<connects, leaving, queued, astray>>

(* The session has closed; AccountManager.delete forgets it.               *)
DeleteEnds ==
    /\ deleting
    /\ deleting' = FALSE
    /\ session' = Unknown
    /\ astray' = TRUE
    /\ UNCHANGED <<connects, live, leaving, queued, events, service, late, revived, bounds>>

(* The connect of the session has not told of itself yet.                  *)
ToBeTold == \E c \in connects : c.gen = session.gen /\ ~c.announced

(* The connect goes on, whatever has become of the session: it tells that  *)
(* it connects, ...                                                        *)
Announce(c) ==
    /\ c \in connects /\ ~c.announced
    /\ Room
    /\ Emits("connecting")
    /\ connects' = (connects \ {c}) \cup {[c EXCEPT !.announced = TRUE]}
    /\ astray' = (astray \/ c.gen # session.gen)
    /\ UNCHANGED <<session, live, deleting, leaving, queued, service, late, revived, bounds>>

(* ... makes a socket, and ends it if it has been overtaken; a socket that *)
(* the session had before is not ended.                                    *)
SocketMade(c) ==
    /\ c \in connects /\ c.announced
    /\ connects' = connects \ {c}
    /\ IF c.gen = session.gen
       THEN session' = [session EXCEPT !.socket = c.gen] /\ live' = live \cup {c.gen}
       ELSE UNCHANGED <<session, live>>
    /\ UNCHANGED <<deleting, leaving, queued, events, service, late, history, bounds>>

ConnectFails(c) ==
    /\ c \in connects
    /\ connects' = connects \ {c}
    /\ IF c.gen = session.gen
       THEN /\ Room
            /\ session' = [session EXCEPT !.state = "error", !.socket = 0, !.timer = session.auto]
            /\ Emits("error")
       ELSE UNCHANGED <<session, events>>
    /\ UNCHANGED <<live, deleting, leaving, queued, service, late, history, bounds>>

(* The socket of the session reports. Its reports are handled one after    *)
(* the other, an expired code in its turn among them; only a QR code may   *)
(* have been in hand by then, for its image takes time.                    *)
Reports(state, next) ==
    /\ session.socket # 0 /\ session.socket = session.gen /\ session.socket \in live
    /\ Room
    /\ session' = next
    /\ Emits(state)
    /\ UNCHANGED <<connects, deleting, leaving, queued, service, late, history>>

QrShown ==
    /\ session.state # "online"
    /\ Reports("qr_pending", [session EXCEPT !.state = "qr_pending", !.qr = TRUE])
    /\ UNCHANGED <<live, bounds>>

Opened ==
    /\ queued = 0 /\ session.state # "online"
    /\ Reports("online", [session EXCEPT !.state = "online", !.qr = FALSE, !.timer = FALSE])
    /\ UNCHANGED <<live, bounds>>

Closed(loggedOut) ==
    /\ queued = 0
    /\ Reports(IF loggedOut THEN "logged_out" ELSE "offline",
               [session EXCEPT !.gen = 0, !.socket = 0, !.qr = FALSE,
                  !.state = IF loggedOut THEN "logged_out" ELSE "offline",
                  !.auto = @ /\ ~loggedOut, !.timer = session.auto /\ ~loggedOut])
    /\ live' = live \ {session.socket}
    /\ UNCHANGED bounds

(* The QR code expires; the socket stays. Either its timer finds that, ... *)
Expires ==
    /\ Fault
    /\ session.known /\ session.qr /\ session.state = "qr_pending"
    /\ session' = [session EXCEPT !.qr = FALSE, !.state = "offline"]
    /\ UNCHANGED <<connects, live, deleting, leaving, service, late, history, ops>>

QrExpires ==
    /\ Expires /\ queued = 0
    /\ Room /\ Emits("offline")
    /\ UNCHANGED queued

(* ... or somebody who asks for the status or the code, and it is told     *)
(* when what is in hand is done, whatever the session is in by then.       *)
CodeExpires ==
    /\ Expires
    /\ queued' = queued + 1
    /\ UNCHANGED events

ExpiryTold ==
    /\ queued > 0 /\ queued' = queued - 1
    /\ Room /\ Emits("offline")
    /\ astray' = (astray \/ (session.state # "offline" /\ ~ToBeTold))
    /\ UNCHANGED <<session, connects, live, deleting, leaving, service, late, revived, bounds>>

(* The timer calls connect, which goes on with a connect in progress.      *)
Reconnect ==
    /\ session.timer
    /\ IF ~session.auto \/ session.state = "logged_out" \/ Connecting
       THEN /\ session' = [session EXCEPT !.timer = FALSE]
            /\ UNCHANGED <<connects, live, deleting, leaving, queued, events, history>>
       ELSE ConnectBegins(TRUE)
    /\ UNCHANGED <<service, late, bounds>>

(* A socket that no session has closes by itself.                          *)
LooseCloses(g) ==
    /\ g \in live /\ g # session.socket
    /\ live' = live \ {g}
    /\ UNCHANGED <<session, connects, deleting, leaving, queued, events, service, late, history, bounds>>

(* The bridge ends and starts again; calls in progress end.                *)
Crash ==
    /\ Fault
    /\ session' = Unknown /\ connects' = {} /\ live' = {} /\ deleting' = FALSE /\ leaving' = FALSE
    /\ queued' = 0 /\ late' = {}
    /\ revived' = FALSE
    /\ astray' = TRUE
    /\ UNCHANGED <<events, service, ops>>

-----------------------------------------------------------------------------
(* The service                                                             *)

(* An event reaches the row; the events of an account without one wait.    *)
Apply ==
    /\ events # <<>> /\ row.exists
    /\ row' = [row EXCEPT !.status = Head(events)]
    /\ events' = Tail(events)
    /\ UNCHANGED <<session, connects, live, deleting, leaving, queued, th, round, late, history, bounds>>

Goes(t, s) == th' = [th EXCEPT ![t] = s]

(* A request reads the row. Only create commits before it calls, with an   *)
(* id of its own.                                                          *)
Request(t, op) ==
    /\ th[t].at = "idle"
    /\ ops < MaxOps /\ ops' = ops + 1
    /\ IF op = "create" THEN ops = 0 ELSE row.exists
    /\ row' = IF op = "create" THEN NewRow ELSE row
    /\ Goes(t, [op |-> op, at |-> IF op = "enable" THEN "answered" ELSE "calling",
                ok |-> TRUE, was |-> IF op = "logout" THEN row ELSE NoRow])
    /\ UNCHANGED <<bridge, round, late, history, faults>>

Call(t) ==
    /\ th[t].at = "calling"
    /\ Carry(th[t].op)
    /\ Goes(t, [th[t] EXCEPT !.at = "answered", !.ok = ~Fails(th[t].op)])
    /\ UNCHANGED <<row, round, late, bounds>>

(* No answer comes in time, and the call has been, will or will not be     *)
(* carried out.                                                            *)
MayCome(op) ==
    \/ UNCHANGED <<late, faults>>
    \/ Fault /\ op \notin late /\ late' = late \cup {op}

TimesOut(t) ==
    /\ th[t].at \in {"calling", "answered"} /\ th[t].op # "enable"
    /\ IF th[t].at = "calling" THEN MayCome(th[t].op) ELSE UNCHANGED <<late, faults>>
    /\ Goes(t, [th[t] EXCEPT !.at = "answered", !.ok = FALSE])
    /\ th[t].at = "calling" \/ th[t].ok
    /\ UNCHANGED <<bridge, row, round, history, ops>>

LateCall(op) ==
    /\ op \in late
    /\ late' = late \ {op}
    /\ Carry(op)
    /\ UNCHANGED <<service, bounds>>

(* The row is changed by what the bridge answered. A failed create takes   *)
(* its row back, without a word to the bridge; a logout writes what it     *)
(* changes in the row that it read before the call.                        *)
Write(old, read, new) == IF new = read THEN old ELSE new

Changed(op, ok, was) ==
    CASE op = "create" /\ ~ok -> NoRow
      [] op = "disable" /\ ok -> [row EXCEPT !.enabled = FALSE]
      [] op = "enable" -> [row EXCEPT !.enabled = TRUE]
      [] op = "logout" /\ ok -> [row EXCEPT !.enabled = Write(@, was.enabled, FALSE),
                                             !.status = Write(@, was.status, "logged_out")]
      [] op = "delete" /\ ok -> NoRow
      [] OTHER -> row

Finish(t) ==
    /\ th[t].at = "answered"
    /\ Goes(t, Idle)
    /\ row' = IF row.exists THEN Changed(th[t].op, th[t].ok, th[t].was) ELSE row
    /\ revived' = (revived \/ (th[t].op = "create" /\ ~th[t].ok))
    /\ astray' = (astray \/ th[t].op = "logout" \/ row' = NoRow)
    /\ UNCHANGED <<bridge, round, late, bounds>>

(* A round reads the bridge, ...                                           *)
Todo ==
    IF ~session.known THEN "create"
    ELSE IF session.state \in {"online", "connecting", "qr_pending"} THEN "nothing" ELSE "connect"

RoundLists ==
    /\ round.at = "idle"
    /\ round' = [at |-> "listed", todo |-> Todo]
    /\ UNCHANGED <<bridge, row, th, late, history, bounds>>

(* Mutant: only accounts that the bridge knows.                            *)
TurnsToKnown(wanted) ==
    IF wanted /\ round.todo = "connect" THEN [NoRound EXCEPT !.at = "connect"] ELSE NoRound

(* ... then the row, ...                                                   *)
Turns(wanted) ==
    IF wanted /\ round.todo # "nothing" THEN [NoRound EXCEPT !.at = round.todo] ELSE NoRound

RoundReads ==
    /\ round.at = "listed"
    /\ round' = Turns(Wanted)
    /\ UNCHANGED <<bridge, row, th, late, history, bounds>>

(* ... creates a session that is missing, and connects it.                 *)
RoundCreates ==
    /\ round.at = "create"
    /\ Carry("create")
    /\ round' = [NoRound EXCEPT !.at = "connect"]
    /\ UNCHANGED <<row, th, late, bounds>>

RoundConnects ==
    /\ round.at = "connect"
    /\ Carry("connect")
    /\ round' = NoRound
    /\ UNCHANGED <<row, th, late, bounds>>

RoundFails ==
    /\ round.at \in {"create", "connect"}
    /\ MayCome(round.at)
    /\ round' = NoRound
    /\ UNCHANGED <<bridge, row, th, history, ops>>

-----------------------------------------------------------------------------
Bridge ==
    \/ \E c \in connects : Announce(c) \/ SocketMade(c) \/ ConnectFails(c)
    \/ LogoutEnds \/ DeleteEnds \/ ExpiryTold \/ Reconnect

Phone ==
    \/ QrShown \/ Opened \/ QrExpires \/ CodeExpires
    \/ \E b \in BOOLEAN : Closed(b)
    \/ \E g \in live : LooseCloses(g)

Round == RoundLists \/ RoundReads \/ RoundCreates \/ RoundConnects

Next ==
    \/ Bridge \/ Phone \/ Crash \/ Apply \/ Round \/ RoundFails
    \/ \E t \in Thread, op \in Op : Request(t, op)
    \/ \E t \in Thread : Call(t) \/ TimesOut(t) \/ Finish(t)
    \/ \E op \in late : LateCall(op)

Spec == Init /\ [][Next]_vars

(* What is under way in the bridge goes on: connects, closings, events,    *)
(* and sockets that nobody holds (their generations are used again).       *)
GoesOn ==
    \/ \E c \in connects : Announce(c) \/ SocketMade(c) \/ ConnectFails(c)
    \/ LogoutEnds \/ DeleteEnds \/ ExpiryTold \/ Apply
    \/ \E g \in live : LooseCloses(g)

(* The loop of the reconciler runs for ever and does not fail for ever.    *)
(* Nothing is assumed of the console, late calls and the phone.            *)
Fairness ==
    /\ WF_vars(RoundLists \/ RoundReads) /\ SF_vars(RoundCreates \/ RoundConnects)
    /\ WF_vars(GoesOn)

FairSpec == Spec /\ Fairness

-----------------------------------------------------------------------------
(* Types, and the socket of a session is open.                             *)
AccountsTypeOK ==
    /\ row \in [exists : BOOLEAN, enabled : BOOLEAN, status : Status]
    /\ session \in [known : BOOLEAN, state : Status, gen : Gen, socket : Gen, auto : BOOLEAN,
                    timer : BOOLEAN, qr : BOOLEAN]
    /\ connects \subseteq [gen : Gen, announced : BOOLEAN]
    /\ live \subseteq Gen
    /\ session.socket # 0 => session.socket \in live

(* Nothing is under way but what the phone may do.                         *)
Settled ==
    /\ \A t \in Thread : th[t].at = "idle"
    /\ late = {} /\ round.at \in {"idle", "listed"}
    /\ connects = {} /\ ~deleting /\ ~leaving

(* An account that was disabled, logged out or deleted has neither a       *)
(* socket nor a timer that makes one, unless a connect came after its      *)
(* stop: asked for by a round that had read before, or by the console,     *)
(* which does not look at enabled; or unless a failed creation left it     *)
(* (api/v1/accounts.py update, logout, delete; generations).               *)
OffIsOff ==
    Settled /\ Off /\ ~revived => session.socket = 0 /\ ~session.timer

(* When all events have come, the row says what the session is in, unless  *)
(* a connect overtaken by a stop told of itself afterwards, an expired     *)
(* code was told after something newer, a logout wrote the row itself, or  *)
(* a session was forgotten with the bridge.                                *)
StatusFollows ==
    Settled /\ queued = 0 /\ events = <<>> /\ row.exists /\ session.known /\ ~astray =>
        row.status = session.state

(* An account that stays enabled is connected, or tries for ever to be,    *)
(* whatever its session has gone through: a restart of the bridge, a       *)
(* creation that failed, a stop (reconcile_once).                          *)
ComesBack == []<>(Wanted => session.auto)

=============================================================================
