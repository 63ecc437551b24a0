--------------------------- MODULE AccountsProofs ---------------------------
(***************************************************************************)
(* The proofs about Accounts: what an account that is turned off leaves in *)
(* the bridge, and when its row says what its session is in, for every     *)
(* number of requests, late calls and generations.                         *)
(***************************************************************************)
EXTENDS Accounts, WellFoundedInduction, SequenceTheorems, TLAPS

-----------------------------------------------------------------------------
(* Types. Generations that are in use are numbered from one.               *)
RowSet == [exists : BOOLEAN, enabled : BOOLEAN, status : Status]
SessionSet == [known : BOOLEAN, state : Status, gen : Gen, socket : Gen, auto : BOOLEAN,
               timer : BOOLEAN, qr : BOOLEAN]
ConnectSet == [gen : 1..MaxGen, announced : BOOLEAN]
RequestSet == [op : Op, at : {"idle", "calling", "answered"}, ok : BOOLEAN, was : RowSet]
RoundSet == [at : {"idle", "listed", "create", "connect"},
             todo : {"nothing", "create", "connect"}]
CallOp == Op \ {"enable"}

AccTypes ==
    /\ row \in RowSet
    /\ session \in SessionSet
    /\ connects \in SUBSET ConnectSet
    /\ live \in SUBSET Gen
    /\ queued \in Nat
    /\ events \in Seq(Status)
    /\ th \in [Thread -> RequestSet]
    /\ late \in SUBSET CallOp
    /\ round \in RoundSet
    /\ revived \in BOOLEAN /\ astray \in BOOLEAN
    /\ ops \in Nat
    /\ \A t \in Thread : th[t].at = "calling" => th[t].op \in CallOp
    /\ session.socket # 0 => session.socket \in live

(* Nothing in the bridge makes a socket for the account.                   *)
Quiet ==
    /\ session.socket = 0 /\ ~session.timer
    /\ \A c \in connects : c.gen # session.gen

(* From the stop on, before the row is changed and after it, ...           *)
StaysQuiet == (Off \/ Stopping) /\ ~revived => Quiet

(* The last that the service is told.                                      *)
Told == IF events = <<>> THEN row.status ELSE events[Len(events)]

(* A connect that is the session's own has no socket and no code yet.      *)
OwnConnect ==
    \A c \in connects : c.gen = session.gen =>
        session.state = "connecting" /\ ~session.qr /\ session.socket # session.gen

(* The service has been told the state, or will be: by the connect of the  *)
(* session or of its expired code.                                         *)
IsTold ==
    \/ Told = session.state \/ ToBeTold
    \/ queued > 0 /\ session.state = "offline"

Forgotten == session = Unknown /\ connects = {} /\ queued = 0 /\ events = <<>>

Follows ==
    /\ leaving => astray
    /\ \A c, d \in connects : c.gen = d.gen => c = d
    /\ ~astray =>
         /\ OwnConnect
         /\ ~session.known => Forgotten
         /\ session.known => IsTold

(* Before the first request there is nothing.                              *)
Untouched ==
    ops = 0 => /\ ~row.exists /\ session = Unknown /\ connects = {} /\ queued = 0 /\ late = {}
               /\ \A t \in Thread : th[t].at = "idle"
               /\ round.at \in {"idle", "listed"}

AccInv == AccTypes /\ StaysQuiet /\ Follows /\ Untouched

-----------------------------------------------------------------------------
(* The parts that the actions share.                                       *)

LEMMA NatLess ==
    ASSUME NEW x \in Nat, NEW y \in Nat, ~(<<y, x>> \in OpToRel(<, Nat))
    PROVE  x <= y
BY DEF OpToRel

LEMMA MinIsIn ==
    ASSUME NEW S \in SUBSET Nat, S # {}
    PROVE  Min(S) \in S
<1>1. \E x \in S : \A y \in S : ~ (<<y, x>> \in OpToRel(<, Nat))
    BY WFMin, NatLessThanWellFounded
<1>2. \E x \in S : \A y \in S : x <= y
    BY <1>1, NatLess
<1> QED BY <1>2 DEF Min

LEMMA GenIs ==
    /\ Gen \subseteq Nat /\ 0 \in Gen /\ 1..MaxGen \subseteq Gen
    /\ \A g \in 1..MaxGen : g # 0
    /\ \A g \in Gen : g # 0 => g \in 1..MaxGen
BY AccountsAssumption DEF Gen

LEMMA RecordsAre ==
    /\ NoRow \in RowSet /\ NewRow \in RowSet
    /\ Unknown \in SessionSet /\ NewSession \in SessionSet
    /\ Idle \in RequestSet /\ Idle.at = "idle"
    /\ NoRound \in RoundSet /\ NoRound.at = "idle"
<1>1. NoRow \in RowSet /\ NewRow \in RowSet
    BY DEF NoRow, NewRow, RowSet, Status
<1>2. Unknown \in SessionSet /\ NewSession \in SessionSet
    BY GenIs DEF Unknown, NewSession, SessionSet, Status
<1>3. Idle \in RequestSet /\ Idle.at = "idle"
    BY <1>1 DEF Idle, RequestSet, Op
<1>4. NoRound \in RoundSet /\ NoRound.at = "idle"
    BY DEF NoRound, RoundSet
<1> QED BY <1>1, <1>2, <1>3, <1>4

LEMMA UnknownIs ==
    /\ Unknown.socket = 0 /\ Unknown.gen = 0 /\ ~Unknown.timer /\ ~Unknown.known /\ ~Unknown.qr
    /\ NewSession.socket = 0 /\ NewSession.gen = 0 /\ ~NewSession.timer /\ NewSession.known
    /\ ~NewSession.qr /\ NewSession.state = "new"
BY DEF Unknown, NewSession

(* A new generation is nobody's.                                           *)
LEMMA FreshGen ==
    ASSUME AccTypes, (1..MaxGen) \ Used # {}
    PROVE  \E g \in 1..MaxGen :
             /\ g = Min((1..MaxGen) \ Used)
             /\ g \notin live /\ g # session.socket
             /\ \A c \in connects : c.gen # g
<1>1. PICK S : S = (1..MaxGen) \ Used OBVIOUS
<1>2. S \in SUBSET Nat /\ S # {}
    BY <1>1
<1>3. Min(S) \in S
    BY <1>2, MinIsIn
<1>4. PICK g : g = Min(S) OBVIOUS
<1>5. g \in 1..MaxGen /\ g \notin Used
    BY <1>1, <1>3, <1>4
<1>6. g \notin live /\ \A c \in connects : c.gen # g
    BY <1>5 DEF Used
<1>7. g # session.socket
    BY <1>5, <1>6, GenIs DEF AccTypes
<1> QED BY <1>1, <1>4, <1>5, <1>6, <1>7

Begins ==
    /\ session.known \/ session.timer
    /\ \E reconnect \in BOOLEAN : ConnectBegins(reconnect)

LEMMA BeginsIs ==
    ASSUME AccTypes, Begins
    PROVE  \E g \in 1..MaxGen, s \in SessionSet, c \in ConnectSet :
             /\ g \notin live /\ \A d \in connects : d.gen # g
             /\ s.gen = g /\ s.state = "connecting" /\ s.socket = session.socket /\ s.socket # g
             /\ ~s.qr /\ ~s.timer /\ s.known = session.known
             /\ c.gen = g /\ ~c.announced
             /\ session' = s /\ connects' = connects \cup {c}
<1>1. PICK reconnect \in BOOLEAN : ConnectBegins(reconnect)
    BY DEF Begins
<1>2. PICK g \in 1..MaxGen :
        /\ g = Min((1..MaxGen) \ Used)
        /\ g \notin live /\ g # session.socket
        /\ \A c \in connects : c.gen # g
    BY <1>1, FreshGen DEF ConnectBegins
<1>3. PICK a : a = (session.auto \/ ~reconnect) OBVIOUS
<1>4. a \in BOOLEAN
    BY <1>3
<1>5. PICK s : s = [session EXCEPT !.gen = g, !.state = "connecting", !.qr = FALSE,
                     !.auto = a, !.timer = FALSE] OBVIOUS
<1>6. session \in SessionSet /\ g \in Gen
    BY GenIs DEF AccTypes
<1>7. s \in SessionSet
    BY <1>4, <1>5, <1>6 DEF SessionSet, Status
<1>8. /\ s.gen = g /\ s.state = "connecting" /\ s.socket = session.socket
      /\ s.qr = FALSE /\ s.timer = FALSE /\ s.known = session.known
    BY <1>5, <1>6 DEF SessionSet
<1>9. PICK c : c = [gen |-> g, announced |-> FALSE] OBVIOUS
<1>10. c \in ConnectSet /\ c.gen = g /\ c.announced = FALSE
    BY <1>9 DEF ConnectSet
<1>11. session' = s
    BY <1>1, <1>2, <1>3, <1>5 DEF ConnectBegins
<1>12. connects' = connects \cup {c}
    BY <1>1, <1>2, <1>9 DEF ConnectBegins
<1> QED BY <1>2, <1>7, <1>8, <1>10, <1>11, <1>12

LEMMA StoppedIs ==
    ASSUME AccTypes, NEW state \in Status
    PROVE  /\ \E s \in SessionSet :
                /\ s = [Stopped EXCEPT !.state = state]
                /\ s.gen = 0 /\ s.socket = 0 /\ ~s.timer /\ ~s.qr
                /\ s.state = state /\ s.known = session.known
           /\ \E s \in SessionSet :
                /\ s = Stopped
                /\ s.gen = 0 /\ s.socket = 0 /\ ~s.timer /\ ~s.qr
                /\ s.known = session.known
<1>1. session \in SessionSet /\ 0 \in Gen
    BY GenIs DEF AccTypes
<1>2. PICK s : s = Stopped OBVIOUS
<1>3. /\ s \in SessionSet /\ s.gen = 0 /\ s.socket = 0 /\ s.timer = FALSE /\ s.qr = FALSE
      /\ s.known = session.known
    BY <1>1, <1>2 DEF Stopped, SessionSet
<1>4. PICK q : q = [s EXCEPT !.state = state] OBVIOUS
<1>5. /\ q \in SessionSet /\ q.gen = 0 /\ q.socket = 0 /\ q.timer = FALSE /\ q.qr = FALSE
      /\ q.known = session.known /\ q.state = state
    BY <1>3, <1>4 DEF SessionSet
<1> QED BY <1>2, <1>3, <1>4, <1>5

-----------------------------------------------------------------------------
(* What a step does to the session.                                        *)

(* Nothing, except that a loose socket may close.                          *)
Stands ==
    /\ UNCHANGED <<session, connects, leaving, queued, events>>
    /\ live' \in SUBSET live /\ (session.socket # 0 => session.socket \in live')
    /\ (revived => revived') /\ (astray => astray')

Creates ==
    /\ ~session.known
    /\ session' = NewSession
    /\ UNCHANGED <<connects, live, leaving, queued, events, revived>>
    /\ astray' = (astray \/ row.status # "new")

Halts ==
    /\ Room
    /\ session.known
    /\ session' = [Stopped EXCEPT !.state = "offline"]
    /\ live' = live \ {session.socket}
    /\ Emits("offline")
    /\ UNCHANGED <<connects, leaving, queued, astray>>
    /\ revived' = FALSE

(* The timer finds nothing to do.                                          *)
Lapses ==
    /\ session.timer
    /\ session' = [session EXCEPT !.timer = FALSE]
    /\ UNCHANGED <<connects, live, leaving, queued, events, history>>

StopOp == {"disable", "logout", "delete"}

LEMMA CarryIs ==
    ASSUME AccTypes, NEW op \in CallOp, Carry(op)
    PROVE  /\ Stands \/ Creates \/ Begins \/ Halts \/ Logout
           /\ op \in StopOp /\ ~Fails(op) => Halts \/ Logout
<1>1. CASE Fails(op)
    <2>1. ~session.known /\ op # "create"
        BY <1>1 DEF Fails
    <2>2. UNCHANGED <<bridge, history>>
        BY <1>1, <2>1 DEF Carry
    <2> QED BY <1>1, <2>2 DEF Stands, bridge, history, AccTypes
<1>2. CASE ~Fails(op) /\ op = "create"
    <2>1. /\ session' = IF session.known THEN session ELSE NewSession
          /\ astray' = (astray \/ (~session.known /\ row.status # "new"))
          /\ UNCHANGED <<connects, live, deleting, leaving, queued, events, revived>>
        BY <1>2 DEF Carry
    <2>2. CASE session.known
        <3>1. session' = session
            BY <2>1, <2>2
        <3>2. astray => astray'
            BY <2>1
        <3> QED BY <1>2, <2>1, <3>1, <3>2 DEF Stands, AccTypes, StopOp
    <2>3. CASE ~session.known
        <3>1. session' = NewSession
            BY <2>1, <2>3
        <3>2. astray' = (astray \/ row.status # "new")
            BY <2>1, <2>3
        <3> QED BY <1>2, <2>1, <2>3, <3>1, <3>2 DEF Creates, StopOp
    <2> QED BY <2>2, <2>3
<1>3. CASE ~Fails(op) /\ op = "connect"
    <2>1. session.known /\ Connect
        BY <1>3 DEF Carry, Fails
    <2>2. CASE (session.state = "online" /\ session.socket # 0) \/ Connecting
        <3>1. UNCHANGED <<bridge, history>>
            BY <2>1, <2>2 DEF Connect
        <3> QED BY <1>3, <3>1 DEF Stands, bridge, history, AccTypes, StopOp
    <2>3. CASE ~((session.state = "online" /\ session.socket # 0) \/ Connecting)
        <3>1. ConnectBegins(FALSE)
            BY <2>1, <2>3 DEF Connect
        <3>2. Begins
            BY <2>1, <3>1 DEF Begins
        <3> QED BY <1>3, <2>1, <3>2 DEF StopOp
    <2> QED BY <2>2, <2>3
<1>4. CASE ~Fails(op) /\ op = "disable"
    <2>1. session.known /\ Stop
        BY <1>4 DEF Carry, Fails
    <2> QED BY <2>1 DEF Stop, Halts
<1>5. CASE ~Fails(op) /\ op = "logout"
    BY <1>5 DEF Carry, Fails
<1>6. CASE ~Fails(op) /\ op = "delete"
    <2>1. session.known
        BY <1>6 DEF Fails
    <2>2. /\ Room
          /\ session' = [Stopped EXCEPT !.state = "offline"]
          /\ live' = live \ {session.socket}
          /\ Emits("offline")
          /\ deleting' = TRUE
          /\ revived' = FALSE
          /\ UNCHANGED <<connects, leaving, queued, astray>>
        BY <1>6, <2>1 DEF Carry
    <2> QED BY <2>1, <2>2 DEF Halts
<1> QED BY <1>1, <1>2, <1>3, <1>4, <1>5, <1>6 DEF CallOp, Op

(* The steps of the bridge and the phone of their own.                     *)
Own ==
    \/ \E c \in connects : Announce(c) \/ SocketMade(c) \/ ConnectFails(c)
    \/ LogoutEnds \/ DeleteEnds \/ QrShown \/ Opened
    \/ QrExpires \/ CodeExpires \/ ExpiryTold
    \/ \E b \in BOOLEAN : Closed(b)

(* A call is carried out.                                                  *)
Carries == \E op \in CallOp : Carry(op)

LEMMA BridgeStep ==
    ASSUME AccTypes, [Next]_vars
    PROVE  Stands \/ Creates \/ Begins \/ Halts \/ Logout \/ Lapses \/ Own \/ Apply \/ Crash
<1>1. CASE Carries
    BY <1>1, CarryIs DEF Carries
<1>2. CASE UNCHANGED <<bridge, history>>
    BY <1>2 DEF Stands, bridge, history, AccTypes
<1>3. ASSUME NEW t \in Thread, Call(t) PROVE Carries
    BY <1>3 DEF Call, Carries, AccTypes
<1>4. (\E op \in late : LateCall(op)) => Carries
    BY DEF LateCall, Carries, AccTypes
<1>5. RoundCreates \/ RoundConnects => Carries
    BY DEF RoundCreates, RoundConnects, Carries, CallOp, Op
<1>6. \/ RoundLists \/ RoundReads \/ RoundFails
      \/ \E t \in Thread, op \in Op : Request(t, op)
      \/ \E t \in Thread : TimesOut(t)
      => UNCHANGED <<bridge, history>>
    BY DEF RoundLists, RoundReads, RoundFails, Request, TimesOut
<1>7. ASSUME NEW t \in Thread, Finish(t) PROVE Stands
    BY <1>7 DEF Finish, bridge, Stands, AccTypes
<1>8. ASSUME NEW g \in live, LooseCloses(g) PROVE Stands
    BY <1>8 DEF LooseCloses, history, Stands, AccTypes
<1>9. CASE Reconnect
    <2>1. CASE ~session.auto \/ session.state = "logged_out" \/ Connecting
        BY <1>9, <2>1 DEF Reconnect, Lapses
    <2>2. CASE ~(~session.auto \/ session.state = "logged_out" \/ Connecting)
        BY <1>9, <2>2 DEF Reconnect, Begins
    <2> QED BY <2>1, <2>2
<1>10. CASE UNCHANGED vars
    BY <1>2, <1>10 DEF vars
<1>11. CASE Bridge \/ Phone
    BY <1>8, <1>9, <1>11 DEF Bridge, Phone, Own
<1>12. CASE Round \/ RoundFails
    BY <1>1, <1>2, <1>5, <1>6, <1>12 DEF Round
<1>13. CASE \E t \in Thread : Call(t) \/ TimesOut(t) \/ Finish(t)
    BY <1>1, <1>2, <1>3, <1>6, <1>7, <1>13
<1>14. CASE \E t \in Thread, op \in Op : Request(t, op)
    BY <1>2, <1>6, <1>14
<1>15. CASE \E op \in late : LateCall(op)
    BY <1>1, <1>4, <1>15
<1> QED BY <1>10, <1>11, <1>12, <1>13, <1>14, <1>15 DEF Next

-----------------------------------------------------------------------------
(* What a step does to the row and the requests.                           *)

LEMMA ServiceStep ==
    ASSUME AccTypes, [Next]_vars
    PROVE  \/ UNCHANGED <<row, th>>
           \/ Apply
           \/ \E t \in Thread, op \in Op : Request(t, op)
           \/ \E t \in Thread : Call(t) \/ TimesOut(t) \/ Finish(t)
<1>1. CASE Bridge \/ Phone \/ Crash
    BY <1>1 DEF Bridge, Phone, Crash, Announce, SocketMade, ConnectFails, LogoutEnds, DeleteEnds,
                Reconnect, QrShown, Opened, QrExpires, CodeExpires, Expires, ExpiryTold, Closed, Reports, LooseCloses, service
<1>2. CASE Round \/ RoundFails
    BY <1>2 DEF Round, RoundFails, RoundLists, RoundReads, RoundCreates, RoundConnects
<1>3. CASE \E op \in late : LateCall(op)
    BY <1>3 DEF LateCall, service
<1>4. CASE UNCHANGED vars
    BY <1>4 DEF vars, service
<1> QED BY <1>1, <1>2, <1>3, <1>4 DEF Next

(* A request becomes one that has stopped the session when it stops it.    *)
LEMMA StoppingStep ==
    ASSUME AccTypes, [Next]_vars, Stopping'
    PROVE  Stopping \/ Halts \/ Logout
<1>1. PICK t \in Thread : th'[t].op \in StopOp /\ th'[t].at = "answered" /\ th'[t].ok
    BY DEF Stopping, StopOp
<1>2. th \in [Thread -> RequestSet] /\ th[t] \in RequestSet
    BY DEF AccTypes
<1>3. CASE th'[t] = th[t]
    BY <1>1, <1>3 DEF Stopping, StopOp
<1>4. ASSUME NEW q \in Thread, NEW op \in Op, Request(q, op) PROVE th'[t] = th[t]
    <2>1. PICK s : s = [op |-> op, at |-> IF op = "enable" THEN "answered" ELSE "calling",
                        ok |-> TRUE, was |-> IF op = "logout" THEN row ELSE NoRow] OBVIOUS
    <2>2. th' = [th EXCEPT ![q] = s]
        BY <1>4, <2>1 DEF Request, Goes
    <2>3. s.op = op /\ s.at = IF op = "enable" THEN "answered" ELSE "calling"
        BY <2>1
    <2>4. ~(s.op \in StopOp /\ s.at = "answered")
        BY <2>3 DEF StopOp
    <2> QED BY <1>1, <1>2, <2>2, <2>4
<1>5. ASSUME NEW q \in Thread, Call(q), th'[t] # th[t] PROVE Halts \/ Logout
    <2>1. PICK fails \in BOOLEAN : fails = Fails(th[q].op)
        BY DEF Fails
    <2>2. PICK s : s = [th[q] EXCEPT !.at = "answered", !.ok = ~fails] OBVIOUS
    <2>3. th' = [th EXCEPT ![q] = s]
        BY <1>5, <2>1, <2>2 DEF Call, Goes
    <2>4. q = t /\ th'[t] = s
        BY <1>2, <1>5, <2>3
    <2>5. s.op = th[t].op /\ s.ok = ~fails
        BY <1>2, <2>2, <2>4 DEF RequestSet
    <2>6. th[t].op \in StopOp /\ ~Fails(th[t].op)
        BY <1>1, <2>1, <2>4, <2>5
    <2>7. th[t].op \in CallOp /\ Carry(th[t].op)
        BY <1>5, <2>4 DEF Call, AccTypes
    <2> QED BY <2>6, <2>7, CarryIs
<1>6. ASSUME NEW q \in Thread, TimesOut(q) PROVE th'[t] = th[t]
    <2>1. PICK s : s = [th[q] EXCEPT !.at = "answered", !.ok = FALSE] OBVIOUS
    <2>2. th' = [th EXCEPT ![q] = s]
        BY <1>6, <2>1 DEF TimesOut, Goes
    <2>3. th[q] \in RequestSet
        BY <1>2
    <2>4. s.ok = FALSE
        BY <2>1, <2>3 DEF RequestSet
    <2> QED BY <1>1, <1>2, <2>2, <2>4
<1>7. ASSUME NEW q \in Thread, Finish(q) PROVE th'[t] = th[t]
    BY <1>1, <1>2, <1>7, RecordsAre DEF Finish, Goes
<1>8. CASE UNCHANGED <<row, th>> \/ Apply
    BY <1>3, <1>8 DEF Apply
<1> QED BY <1>3, <1>4, <1>5, <1>6, <1>7, <1>8, ServiceStep

(* What a request leaves of the row.                                       *)
LEMMA FinishIs ==
    ASSUME AccTypes, NEW t \in Thread, Finish(t)
    PROVE  /\ row' \in RowSet
           /\ row' = NoRow => astray'
           /\ row'.status = row.status \/ astray'
           /\ Off' => Off \/ Stopping \/ revived'
<1>1. /\ th[t] \in RequestSet /\ row \in RowSet /\ th[t].at = "answered" /\ th[t].op \in Op
      /\ th[t].was \in RowSet
    BY DEF AccTypes, Finish, RequestSet
<1>2. /\ row' = IF row.exists THEN Changed(th[t].op, th[t].ok, th[t].was) ELSE row
      /\ th[t].op = "logout" \/ row' = NoRow \/ astray => astray'
      /\ th[t].op = "create" /\ ~th[t].ok => revived'
    BY DEF Finish
<1>3. th[t].op \in StopOp /\ th[t].ok => Stopping
    BY <1>1 DEF Stopping, StopOp
<1>4. CASE ~row.exists
    BY <1>1, <1>2, <1>4 DEF Off
<1>5. CASE row.exists /\ th[t].op = "create" /\ ~th[t].ok
    <2>1. row' = NoRow
        BY <1>2, <1>5 DEF Changed
    <2> QED BY <1>2, <1>5, <2>1, RecordsAre
<1>6. CASE row.exists /\ th[t].op = "disable" /\ th[t].ok
    <2>1. row' = [row EXCEPT !.enabled = FALSE]
        BY <1>2, <1>6 DEF Changed
    <2> QED BY <1>1, <1>2, <1>3, <1>6, <2>1 DEF RowSet, StopOp
<1>7. CASE row.exists /\ th[t].op = "enable"
    <2>1. row' = [row EXCEPT !.enabled = TRUE]
        BY <1>2, <1>7 DEF Changed
    <2> QED BY <1>1, <1>2, <1>7, <2>1 DEF RowSet, Off
<1>8. CASE row.exists /\ th[t].op = "logout" /\ th[t].ok
    <2>1. row' = [row EXCEPT !.enabled = Write(row.enabled, th[t].was.enabled, FALSE),
                             !.status = Write(row.status, th[t].was.status, "logged_out")]
        BY <1>2, <1>8 DEF Changed
    <2>2. /\ row.enabled \in BOOLEAN /\ th[t].was.enabled \in BOOLEAN
          /\ row.status \in Status /\ th[t].was.status \in Status /\ "logged_out" \in Status
        BY <1>1 DEF RowSet, Status
    <2>3. PICK enabled \in BOOLEAN : enabled = Write(row.enabled, th[t].was.enabled, FALSE)
        BY <2>2 DEF Write
    <2>4. PICK status \in Status : status = Write(row.status, th[t].was.status, "logged_out")
        BY <2>2 DEF Write
    <2>5. row' = [row EXCEPT !.enabled = enabled, !.status = status]
        BY <2>1, <2>3, <2>4
    <2>6. row' \in RowSet
        BY <1>1, <2>5 DEF RowSet
    <2> QED BY <1>2, <1>3, <1>8, <2>6 DEF StopOp
<1>9. CASE row.exists /\ th[t].op = "delete" /\ th[t].ok
    <2>1. row' = NoRow
        BY <1>2, <1>9 DEF Changed
    <2> QED BY <1>2, <1>3, <1>9, <2>1, RecordsAre DEF StopOp
<1>10. CASE /\ row.exists /\ th[t].op # "enable"
            /\ th[t].op = "create" => th[t].ok
            /\ th[t].op \in StopOp => ~th[t].ok
    <2>1. row' = row
        BY <1>2, <1>10 DEF Changed, StopOp
    <2> QED BY <1>1, <1>2, <2>1 DEF Off
<1> QED BY <1>1, <1>4, <1>5, <1>6, <1>7, <1>8, <1>9, <1>10 DEF StopOp, Op

(* The account is turned off by a request that has stopped its session.    *)
LEMMA OffStep ==
    ASSUME AccTypes, [Next]_vars, Off'
    PROVE  Off \/ Stopping \/ revived'
<1>1. row \in RowSet
    BY DEF AccTypes
<1>2. CASE row' = row
    BY <1>2 DEF Off
<1>3. CASE Apply
    <2>1. row'.exists = row.exists /\ row'.enabled = row.enabled
        BY <1>1, <1>3 DEF Apply, RowSet
    <2> QED BY <2>1 DEF Off
<1>4. ASSUME NEW t \in Thread, NEW op \in Op, Request(t, op), row' # row PROVE FALSE
    <2>1. row' = NewRow
        BY <1>4 DEF Request
    <2> QED BY <2>1 DEF Off, NewRow
<1>5. ASSUME NEW t \in Thread, Call(t) \/ TimesOut(t) PROVE row' = row
    BY <1>5 DEF Call, TimesOut
<1> QED BY <1>2, <1>3, <1>4, <1>5, FinishIs, ServiceStep

-----------------------------------------------------------------------------
(* The steps keep the types.                                               *)
BridgeTypes ==
    /\ session \in SessionSet
    /\ connects \in SUBSET ConnectSet
    /\ live \in SUBSET Gen
    /\ queued \in Nat
    /\ events \in Seq(Status)
    /\ session.socket # 0 => session.socket \in live

LEMMA EmitsIs ==
    ASSUME events \in Seq(Status), NEW status \in Status, Emits(status)
    PROVE  /\ events' \in Seq(Status) /\ events' # <<>>
           /\ events'[Len(events')] = status
<1>1. events' = Append(events, status)
    BY DEF Emits
<1> QED BY <1>1, AppendProperties

LEMMA AnnounceIs ==
    ASSUME AccTypes, NEW c \in connects, Announce(c)
    PROVE  \E d \in ConnectSet :
             /\ d.gen = c.gen /\ d.announced
             /\ connects' = (connects \ {c}) \cup {d}
<1>1. c \in ConnectSet
    BY DEF AccTypes
<1>2. PICK d : d = [c EXCEPT !.announced = TRUE] OBVIOUS
<1>3. d \in ConnectSet /\ d.gen = c.gen /\ d.announced = TRUE
    BY <1>1, <1>2 DEF ConnectSet
<1> QED BY <1>2, <1>3 DEF Announce

(* The socket of a connect that has not been overtaken.                    *)
LEMMA SocketIs ==
    ASSUME AccTypes, NEW c \in connects, SocketMade(c), c.gen = session.gen
    PROVE  \E s \in SessionSet :
             /\ session' = s
             /\ s.socket = c.gen /\ s.gen = session.gen /\ s.state = session.state
             /\ s.timer = session.timer /\ s.known = session.known /\ s.qr = session.qr
             /\ live' = live \cup {c.gen}
<1>1. session \in SessionSet /\ c.gen \in Gen
    BY GenIs DEF AccTypes, ConnectSet
<1>2. PICK s : s = [session EXCEPT !.socket = c.gen] OBVIOUS
<1>3. /\ s \in SessionSet /\ s.socket = c.gen /\ s.gen = session.gen /\ s.state = session.state
      /\ s.timer = session.timer /\ s.known = session.known /\ s.qr = session.qr
    BY <1>1, <1>2 DEF SessionSet
<1> QED BY <1>2, <1>3 DEF SocketMade

LEMMA FailsIs ==
    ASSUME AccTypes, NEW c \in connects, ConnectFails(c), c.gen = session.gen
    PROVE  \E s \in SessionSet :
             /\ session' = s /\ Emits("error")
             /\ s.socket = 0 /\ s.gen = session.gen /\ s.state = "error" /\ s.known = session.known
<1>1. session \in SessionSet /\ 0 \in Gen /\ session.auto \in BOOLEAN
    BY GenIs DEF AccTypes, SessionSet
<1>2. PICK auto \in BOOLEAN : auto = session.auto
    BY <1>1
<1>3. PICK s : s = [session EXCEPT !.state = "error", !.socket = 0, !.timer = auto] OBVIOUS
<1>4. /\ s \in SessionSet /\ s.socket = 0 /\ s.gen = session.gen /\ s.state = "error"
      /\ s.known = session.known
    BY <1>1, <1>3 DEF SessionSet, Status
<1> QED BY <1>2, <1>3, <1>4 DEF ConnectFails

(* The socket of the session reports something.                            *)
Reported(state) ==
    /\ session.socket # 0 /\ session.socket = session.gen
    /\ Emits(state)
    /\ UNCHANGED <<connects, leaving, queued, history>>
    /\ \E s \in SessionSet :
         /\ session' = s
         /\ s.state = state /\ s.known = session.known
         /\ \/ s.gen = session.gen /\ s.socket = session.socket /\ live' = live
            \/ s.gen = 0 /\ s.socket = 0 /\ live' \in SUBSET live

LEMMA ReportsIs ==
    ASSUME AccTypes,
           QrShown \/ Opened \/ \E b \in BOOLEAN : Closed(b)
    PROVE  \E state \in Status : Reported(state)
<1>1. session \in SessionSet /\ 0 \in Gen /\ session.auto \in BOOLEAN
    BY GenIs DEF AccTypes, SessionSet
<1>2. CASE QrShown
    <2>1. PICK s : s = [session EXCEPT !.state = "qr_pending", !.qr = TRUE] OBVIOUS
    <2>2. /\ s \in SessionSet /\ s.state = "qr_pending" /\ s.known = session.known
          /\ s.gen = session.gen /\ s.socket = session.socket
        BY <1>1, <2>1 DEF SessionSet, Status
    <2>3. session' = s
        BY <1>2, <2>1 DEF QrShown, Reports
    <2>4. Reported("qr_pending")
        BY <1>2, <2>2, <2>3 DEF QrShown, Reports, Reported
    <2> QED BY <2>4 DEF Status
<1>3. CASE Opened
    <2>1. PICK s : s = [session EXCEPT !.state = "online", !.qr = FALSE, !.timer = FALSE] OBVIOUS
    <2>2. /\ s \in SessionSet /\ s.state = "online" /\ s.known = session.known
          /\ s.gen = session.gen /\ s.socket = session.socket
        BY <1>1, <2>1 DEF SessionSet, Status
    <2>3. session' = s
        BY <1>3, <2>1 DEF Opened, Reports
    <2>4. Reported("online")
        BY <1>3, <2>2, <2>3 DEF Opened, Reports, Reported
    <2> QED BY <2>4 DEF Status
<1>4. ASSUME NEW b \in BOOLEAN, Closed(b) PROVE \E state \in Status : Reported(state)
    <2>1. PICK state \in Status : state = IF b THEN "logged_out" ELSE "offline"
        BY DEF Status
    <2>2. PICK auto \in BOOLEAN : auto = (session.auto /\ ~b)
        BY <1>1
    <2>3. PICK s : s = [session EXCEPT !.gen = 0, !.socket = 0, !.qr = FALSE, !.state = state,
                                       !.auto = auto, !.timer = auto] OBVIOUS
    <2>4. /\ s \in SessionSet /\ s.state = state /\ s.known = session.known
          /\ s.gen = 0 /\ s.socket = 0
        BY <1>1, <2>3 DEF SessionSet
    <2>5. session' = s
        BY <1>4, <2>1, <2>2, <2>3 DEF Closed, Reports
    <2>6. live' \in SUBSET live
        BY <1>4 DEF Closed
    <2>7. Reported(state)
        BY <1>4, <2>1, <2>4, <2>5, <2>6 DEF Closed, Reports, Reported
    <2> QED BY <2>7
<1> QED BY <1>2, <1>3, <1>4

LEMMA ExpiresIs ==
    ASSUME AccTypes, Expires
    PROVE  \E s \in SessionSet :
             /\ session' = s /\ s.state = "offline" /\ s.known = session.known
             /\ s.gen = session.gen /\ s.socket = session.socket /\ s.timer = session.timer
<1>1. session \in SessionSet
    BY DEF AccTypes
<1>2. PICK s : s = [session EXCEPT !.qr = FALSE, !.state = "offline"] OBVIOUS
<1>3. /\ s \in SessionSet /\ s.state = "offline" /\ s.known = session.known
      /\ s.gen = session.gen /\ s.socket = session.socket /\ s.timer = session.timer
    BY <1>1, <1>2 DEF SessionSet, Status
<1> QED BY <1>2, <1>3 DEF Expires

LEMMA LogoutEndsIs ==
    ASSUME AccTypes, LogoutEnds
    PROVE  \E s \in SessionSet :
             /\ session' = s /\ s.known = session.known
             /\ s.gen = session.gen /\ s.socket = session.socket /\ s.timer = session.timer
<1>1. session \in SessionSet
    BY DEF AccTypes
<1>2. CASE session.known
    <2>1. PICK s : s = [session EXCEPT !.state = "logged_out"] OBVIOUS
    <2>2. /\ s \in SessionSet /\ s.known = session.known
          /\ s.gen = session.gen /\ s.socket = session.socket /\ s.timer = session.timer
        BY <1>1, <2>1 DEF SessionSet, Status
    <2> QED BY <1>2, <2>1, <2>2 DEF LogoutEnds
<1>3. CASE ~session.known
    BY <1>1, <1>3 DEF LogoutEnds
<1> QED BY <1>2, <1>3

LEMMA LapsesIs ==
    ASSUME AccTypes, Lapses
    PROVE  \E s \in SessionSet :
             /\ session' = s /\ s.known = session.known /\ s.state = session.state
             /\ s.gen = session.gen /\ s.socket = session.socket /\ ~s.timer /\ s.qr = session.qr
<1>1. session \in SessionSet
    BY DEF AccTypes
<1>2. PICK s : s = [session EXCEPT !.timer = FALSE] OBVIOUS
<1>3. /\ s \in SessionSet /\ s.known = session.known /\ s.state = session.state
      /\ s.gen = session.gen /\ s.socket = session.socket /\ s.timer = FALSE /\ s.qr = session.qr
    BY <1>1, <1>2 DEF SessionSet
<1> QED BY <1>2, <1>3 DEF Lapses

(* A stop, a deletion or a logout.                                         *)
LEMMA HaltsIs ==
    ASSUME AccTypes, Halts \/ Logout
    PROVE  /\ \E s \in SessionSet :
                /\ session' = s
                /\ s.gen = 0 /\ s.socket = 0 /\ ~s.timer /\ ~s.qr /\ s.known = session.known
                /\ Halts => s.state = "offline"
           /\ live' \in SUBSET live /\ UNCHANGED <<connects, queued>>
           /\ events' \in Seq(Status)
           /\ Logout => astray'
<1>1. CASE Halts
    <2>1. PICK s \in SessionSet :
            /\ s = [Stopped EXCEPT !.state = "offline"]
            /\ s.gen = 0 /\ s.socket = 0 /\ ~s.timer /\ ~s.qr
            /\ s.state = "offline" /\ s.known = session.known
        BY StoppedIs DEF Status
    <2>2. events' \in Seq(Status)
        BY <1>1, EmitsIs DEF Halts, AccTypes, Status
    <2> QED BY <1>1, <2>1, <2>2 DEF Halts, Logout
<1>2. CASE Logout /\ ~Halts
    <2>1. PICK s \in SessionSet :
            /\ s = Stopped
            /\ s.gen = 0 /\ s.socket = 0 /\ ~s.timer /\ ~s.qr /\ s.known = session.known
        BY StoppedIs DEF Status
    <2> QED BY <1>2, <2>1 DEF Logout, AccTypes
<1> QED BY <1>1, <1>2

LEMMA OwnTypes ==
    ASSUME AccTypes, Own
    PROVE  BridgeTypes'
<1>1. /\ session \in SessionSet /\ connects \in SUBSET ConnectSet /\ live \in SUBSET Gen
      /\ events \in Seq(Status) /\ (session.socket # 0 => session.socket \in live)
      /\ queued \in Nat
    BY DEF AccTypes
<1>2. {"connecting", "error", "offline"} \subseteq Status
    BY DEF Status
<1>3. ASSUME NEW c \in connects, Announce(c) PROVE BridgeTypes'
    <2>1. events' \in Seq(Status)
        BY <1>1, <1>2, <1>3, EmitsIs DEF Announce
    <2>2. connects' \in SUBSET ConnectSet
        BY <1>1, <1>3, AnnounceIs
    <2> QED BY <1>1, <1>3, <2>1, <2>2 DEF Announce, BridgeTypes
<1>4. ASSUME NEW c \in connects, SocketMade(c) PROVE BridgeTypes'
    <2>1. connects' \in SUBSET ConnectSet /\ events' = events /\ queued' = queued
        BY <1>1, <1>4 DEF SocketMade
    <2>2. c.gen \in Gen
        BY <1>1, GenIs DEF ConnectSet
    <2>3. CASE c.gen = session.gen
        BY <1>1, <1>4, <2>1, <2>2, <2>3, SocketIs DEF BridgeTypes
    <2>4. CASE c.gen # session.gen
        BY <1>1, <1>4, <2>1, <2>4 DEF SocketMade, BridgeTypes
    <2> QED BY <2>3, <2>4
<1>5. ASSUME NEW c \in connects, ConnectFails(c) PROVE BridgeTypes'
    <2>1. connects' \in SUBSET ConnectSet /\ live' = live /\ queued' = queued
        BY <1>1, <1>5 DEF ConnectFails
    <2>2. CASE c.gen = session.gen
        <3>1. PICK s \in SessionSet : session' = s /\ Emits("error") /\ s.socket = 0
            BY <1>5, <2>2, FailsIs
        <3>2. events' \in Seq(Status)
            BY <1>1, <1>2, <3>1, EmitsIs
        <3> QED BY <1>1, <2>1, <3>1, <3>2 DEF BridgeTypes
    <2>3. CASE c.gen # session.gen
        BY <1>1, <1>5, <2>1, <2>3 DEF ConnectFails, BridgeTypes
    <2> QED BY <2>2, <2>3
<1>6. CASE LogoutEnds
    <2>1. PICK s \in SessionSet : session' = s /\ s.socket = session.socket
        BY <1>6, LogoutEndsIs
    <2>2. UNCHANGED <<connects, live, queued, events>>
        BY <1>6 DEF LogoutEnds
    <2> QED BY <1>1, <2>1, <2>2 DEF BridgeTypes
<1>7. CASE DeleteEnds
    BY <1>1, <1>7, RecordsAre, UnknownIs DEF DeleteEnds, BridgeTypes
<1>8. CASE QrExpires \/ CodeExpires
    <2>1. events' \in Seq(Status) /\ queued' \in Nat
        BY <1>1, <1>2, <1>8, EmitsIs DEF QrExpires, CodeExpires
    <2>2. PICK s \in SessionSet : session' = s /\ s.socket = session.socket
        BY <1>8, ExpiresIs DEF QrExpires, CodeExpires
    <2>3. UNCHANGED <<connects, live>>
        BY <1>8 DEF QrExpires, CodeExpires, Expires
    <2> QED BY <1>1, <2>1, <2>2, <2>3 DEF BridgeTypes
<1>10. CASE ExpiryTold
    <2>1. events' \in Seq(Status)
        BY <1>1, <1>2, <1>10, EmitsIs DEF ExpiryTold
    <2>2. queued' \in Nat
        BY <1>1, <1>10 DEF ExpiryTold
    <2> QED BY <1>1, <1>10, <2>1, <2>2 DEF ExpiryTold, BridgeTypes
<1>9. CASE QrShown \/ Opened \/ \E b \in BOOLEAN : Closed(b)
    <2>1. PICK state \in Status : Reported(state)
        BY <1>9, ReportsIs
    <2>2. events' \in Seq(Status)
        BY <1>1, <2>1, EmitsIs DEF Reported
    <2> QED BY <1>1, <2>1, <2>2 DEF Reported, BridgeTypes
<1> QED BY <1>3, <1>4, <1>5, <1>6, <1>7, <1>8, <1>9, <1>10 DEF Own

LEMMA BridgeTypesKept ==
    ASSUME AccTypes, [Next]_vars
    PROVE  BridgeTypes'
<1>1. /\ session \in SessionSet /\ connects \in SUBSET ConnectSet /\ live \in SUBSET Gen
      /\ events \in Seq(Status) /\ (session.socket # 0 => session.socket \in live)
      /\ queued \in Nat
    BY DEF AccTypes
<1>2. CASE Stands
    BY <1>1, <1>2 DEF Stands, BridgeTypes
<1>3. CASE Creates
    BY <1>1, <1>3, RecordsAre, UnknownIs DEF Creates, BridgeTypes
<1>4. CASE Begins
    <2>1. PICK g \in 1..MaxGen, s \in SessionSet, c \in ConnectSet :
             s.socket = session.socket /\ session' = s /\ connects' = connects \cup {c}
        BY <1>4, BeginsIs
    <2> QED BY <1>1, <1>4, <2>1 DEF Begins, ConnectBegins, BridgeTypes
<1>5. CASE Halts \/ Logout
    BY <1>1, <1>5, HaltsIs DEF BridgeTypes
<1>6. CASE Lapses
    <2>1. PICK s \in SessionSet : session' = s /\ s.socket = session.socket
        BY <1>6, LapsesIs
    <2>2. UNCHANGED <<connects, live, queued, events>>
        BY <1>6 DEF Lapses
    <2> QED BY <1>1, <2>1, <2>2 DEF BridgeTypes
<1>7. CASE Apply
    <2>1. events' \in Seq(Status)
        BY <1>1, <1>7, HeadTailProperties DEF Apply
    <2> QED BY <1>1, <1>7, <2>1 DEF Apply, BridgeTypes
<1>8. CASE Crash
    <2>1. events' = events
        BY <1>8 DEF Crash
    <2> QED BY <1>1, <1>8, <2>1, RecordsAre, UnknownIs DEF Crash, BridgeTypes
<1> QED BY <1>2, <1>3, <1>4, <1>5, <1>6, <1>7, <1>8, OwnTypes, BridgeStep

LEMMA RequestTypes ==
    ASSUME AccTypes, [Next]_vars
    PROVE  /\ th' \in [Thread -> RequestSet]
           /\ \A t \in Thread : th'[t].at = "calling" => th'[t].op \in CallOp
<1>1. /\ th \in [Thread -> RequestSet] /\ row \in RowSet
      /\ \A t \in Thread : th[t].at = "calling" => th[t].op \in CallOp
    BY DEF AccTypes
<1> DEFINE Goal == /\ th' \in [Thread -> RequestSet]
                   /\ \A t \in Thread : th'[t].at = "calling" => th'[t].op \in CallOp
<1>2. ASSUME NEW t \in Thread, NEW s \in RequestSet, s.at = "calling" => s.op \in CallOp,
             th' = [th EXCEPT ![t] = s]
      PROVE  Goal
    BY <1>1, <1>2
<1>3. ASSUME NEW t \in Thread, NEW op \in Op, Request(t, op) PROVE Goal
    <2>1. PICK at : at = IF op = "enable" THEN "answered" ELSE "calling" OBVIOUS
    <2>2. PICK was \in RowSet : was = IF op = "logout" THEN row ELSE NoRow
        BY <1>1, RecordsAre
    <2>3. PICK s : s = [op |-> op, at |-> at, ok |-> TRUE, was |-> was] OBVIOUS
    <2>4. s \in RequestSet /\ s.op = op /\ s.at = at
        BY <2>1, <2>3 DEF RequestSet
    <2>5. s.at = "calling" => s.op \in CallOp
        BY <2>1, <2>4 DEF CallOp
    <2>6. th' = [th EXCEPT ![t] = s]
        BY <1>3, <2>1, <2>2, <2>3 DEF Request, Goes
    <2> QED BY <1>2, <2>4, <2>5, <2>6
<1>4. ASSUME NEW t \in Thread, NEW ok \in BOOLEAN,
             th' = [th EXCEPT ![t] = [th[t] EXCEPT !.at = "answered", !.ok = ok]]
      PROVE  Goal
    <2>1. PICK s : s = [th[t] EXCEPT !.at = "answered", !.ok = ok] OBVIOUS
    <2>2. s \in RequestSet /\ s.at = "answered"
        BY <1>1, <2>1 DEF RequestSet
    <2> QED BY <1>2, <1>4, <2>1, <2>2
<1>5. ASSUME NEW t \in Thread, Call(t) PROVE Goal
    <2>1. PICK ok \in BOOLEAN : ok = ~Fails(th[t].op)
        BY DEF Fails
    <2> QED BY <1>4, <1>5, <2>1 DEF Call, Goes
<1>6. ASSUME NEW t \in Thread, TimesOut(t) PROVE Goal
    BY <1>4, <1>6 DEF TimesOut, Goes
<1>7. ASSUME NEW t \in Thread, Finish(t) PROVE Goal
    BY <1>2, <1>7, RecordsAre DEF Finish, Goes
<1>8. CASE UNCHANGED <<row, th>> \/ Apply
    BY <1>1, <1>8 DEF Apply
<1> QED BY <1>3, <1>5, <1>6, <1>7, <1>8, ServiceStep

LEMMA RowTypes ==
    ASSUME AccTypes, [Next]_vars
    PROVE  row' \in RowSet
<1>1. row \in RowSet /\ events \in Seq(Status)
    BY DEF AccTypes
<1>2. CASE Apply
    <2>1. Head(events) \in Status
        BY <1>1, <1>2, HeadTailProperties DEF Apply
    <2> QED BY <1>1, <1>2, <2>1 DEF Apply, RowSet
<1>3. ASSUME NEW t \in Thread, NEW op \in Op, Request(t, op) PROVE row' \in RowSet
    BY <1>1, <1>3, RecordsAre DEF Request
<1>4. ASSUME NEW t \in Thread, Call(t) \/ TimesOut(t) PROVE row' \in RowSet
    BY <1>1, <1>4 DEF Call, TimesOut
<1> QED BY <1>1, <1>2, <1>3, <1>4, FinishIs, ServiceStep

LEMMA RoundTypes ==
    ASSUME AccTypes, [Next]_vars
    PROVE  /\ round' \in RoundSet
           /\ late' \in SUBSET CallOp
           /\ ops' \in Nat
<1>1. /\ round \in RoundSet /\ late \in SUBSET CallOp /\ ops \in Nat
      /\ \A t \in Thread : th[t].at = "calling" => th[t].op \in CallOp
      /\ {"create", "connect"} \subseteq CallOp
    BY DEF AccTypes, CallOp, Op
<1>2. Todo \in {"nothing", "create", "connect"}
    BY DEF Todo
<1>3. \A todo \in {"create", "connect"} : [NoRound EXCEPT !.at = todo] \in RoundSet
    BY DEF NoRound, RoundSet
<1>4. \A todo \in {"nothing", "create", "connect"} : [at |-> "listed", todo |-> todo] \in RoundSet
    BY DEF RoundSet
<1>5. round' \in RoundSet
    <2>1. CASE RoundLists
        BY <1>2, <1>4, <2>1 DEF RoundLists
    <2>2. CASE RoundReads
        <3>1. round.todo \in {"nothing", "create", "connect"}
            BY <1>1 DEF RoundSet
        <3>2. round' = NoRound \/ (round.todo # "nothing" /\ round' = [NoRound EXCEPT !.at = round.todo])
            BY <2>2 DEF RoundReads, Turns
        <3>3. PICK todo : todo = round.todo OBVIOUS
        <3> QED BY <1>3, <3>1, <3>2, <3>3, RecordsAre
    <2>3. CASE RoundCreates \/ RoundConnects \/ RoundFails
        BY <1>3, <2>3, RecordsAre DEF RoundCreates, RoundConnects, RoundFails
    <2>4. CASE Bridge \/ Phone \/ Crash \/ Apply
        BY <1>1, <2>4 DEF Bridge, Phone, Crash, Apply, Announce, SocketMade, ConnectFails, LogoutEnds,
                DeleteEnds, Reconnect, QrShown, Opened, QrExpires, CodeExpires, Expires, ExpiryTold, Closed, Reports, LooseCloses, service
    <2>5. CASE \E t \in Thread, op \in Op : Request(t, op)
        BY <1>1, <2>5 DEF Request
    <2>6. CASE \E t \in Thread : Call(t) \/ TimesOut(t) \/ Finish(t)
        BY <1>1, <2>6 DEF Call, TimesOut, Finish
    <2>7. CASE \E op \in late : LateCall(op)
        BY <1>1, <2>7 DEF LateCall, service
    <2>8. CASE UNCHANGED vars
        BY <1>1, <2>8 DEF vars, service
    <2> QED BY <2>1, <2>2, <2>3, <2>4, <2>5, <2>6, <2>7, <2>8 DEF Next, Round
<1>6. late' \in SUBSET CallOp
    <2>1. ASSUME NEW op \in CallOp, MayCome(op) PROVE late' \in SUBSET CallOp
        BY <1>1, <2>1 DEF MayCome
    <2>2. CASE RoundFails
        BY <1>1, <2>1, <2>2 DEF RoundFails
    <2>3. CASE Round
        BY <1>1, <2>3 DEF Round, RoundLists, RoundReads, RoundCreates, RoundConnects
    <2>4. CASE Bridge \/ Phone \/ Crash \/ Apply
        BY <1>1, <2>4 DEF Bridge, Phone, Crash, Apply, Announce, SocketMade, ConnectFails, LogoutEnds,
                DeleteEnds, Reconnect, QrShown, Opened, QrExpires, CodeExpires, Expires, ExpiryTold, Closed, Reports, LooseCloses
    <2>5. CASE \E t \in Thread, op \in Op : Request(t, op)
        BY <1>1, <2>5 DEF Request
    <2>6. CASE \E t \in Thread : Call(t) \/ Finish(t)
        BY <1>1, <2>6 DEF Call, Finish
    <2>7. ASSUME NEW t \in Thread, TimesOut(t) PROVE late' \in SUBSET CallOp
        BY <1>1, <2>1, <2>7 DEF TimesOut
    <2>8. CASE \E op \in late : LateCall(op)
        BY <1>1, <2>8 DEF LateCall
    <2>9. CASE UNCHANGED vars
        BY <1>1, <2>9 DEF vars
    <2> QED BY <2>2, <2>3, <2>4, <2>5, <2>6, <2>7, <2>8, <2>9 DEF Next
<1>7. ops' \in Nat
    <2>1. CASE Bridge \/ Phone \/ Crash \/ Apply
        BY <1>1, <2>1 DEF Bridge, Phone, Crash, Apply, Announce, SocketMade, ConnectFails, LogoutEnds,
                DeleteEnds, Reconnect, QrShown, Opened, QrExpires, CodeExpires, Expires, ExpiryTold, Closed, Reports, LooseCloses, bounds
    <2>2. CASE Round \/ RoundFails
        BY <1>1, <2>2 DEF Round, RoundLists, RoundReads, RoundCreates, RoundConnects, RoundFails, bounds
    <2>3. CASE \E t \in Thread, op \in Op : Request(t, op)
        BY <1>1, <2>3 DEF Request
    <2>4. CASE \E t \in Thread : Call(t) \/ TimesOut(t) \/ Finish(t)
        BY <1>1, <2>4 DEF Call, TimesOut, Finish, bounds
    <2>5. CASE \E op \in late : LateCall(op)
        BY <1>1, <2>5 DEF LateCall, bounds
    <2>6. CASE UNCHANGED vars
        BY <1>1, <2>6 DEF vars, bounds
    <2> QED BY <2>1, <2>2, <2>3, <2>4, <2>5, <2>6 DEF Next
<1> QED BY <1>5, <1>6, <1>7

LEMMA HistoryTypes ==
    ASSUME AccTypes, [Next]_vars
    PROVE  revived' \in BOOLEAN /\ astray' \in BOOLEAN
<1>1. revived \in BOOLEAN /\ astray \in BOOLEAN
    BY DEF AccTypes
<1>2. CASE Carries
    <2>1. PICK op \in CallOp : Carry(op)
        BY <1>2 DEF Carries
    <2>2. CASE Fails(op)
        <3>1. ~session.known /\ op # "create"
            BY <2>2 DEF Fails
        <3> QED BY <1>1, <2>1, <2>2, <3>1 DEF Carry, history
    <2>3. CASE ~Fails(op)
        BY <1>1, <2>1, <2>3 DEF Carry, Fails, CallOp, Op, Connect, ConnectBegins, Stop, Logout, history
    <2> QED BY <2>2, <2>3
<1>3. CASE Bridge \/ Phone \/ Crash \/ Apply
    BY <1>1, <1>3 DEF Bridge, Phone, Crash, Apply, Announce, SocketMade, ConnectFails, LogoutEnds,
            DeleteEnds, Reconnect, ConnectBegins, QrShown, Opened, QrExpires, CodeExpires, Expires, ExpiryTold, Closed, Reports,
            LooseCloses, history
<1>4. CASE RoundLists \/ RoundReads \/ RoundFails
    BY <1>1, <1>4 DEF RoundLists, RoundReads, RoundFails, history
<1>5. RoundCreates \/ RoundConnects => Carries
    BY DEF RoundCreates, RoundConnects, Carries, CallOp, Op
<1>6. CASE \E t \in Thread, op \in Op : Request(t, op)
    BY <1>1, <1>6 DEF Request, history
<1>7. ASSUME NEW t \in Thread, Call(t) PROVE Carries
    BY <1>7 DEF Call, Carries, AccTypes
<1>8. ASSUME NEW t \in Thread, TimesOut(t) \/ Finish(t)
      PROVE  revived' \in BOOLEAN /\ astray' \in BOOLEAN
    BY <1>1, <1>8 DEF TimesOut, Finish, history
<1>9. (\E op \in late : LateCall(op)) => Carries
    BY DEF LateCall, Carries, AccTypes
<1>10. CASE UNCHANGED vars
    BY <1>1, <1>10 DEF vars, history
<1> QED BY <1>2, <1>3, <1>4, <1>5, <1>6, <1>7, <1>8, <1>9, <1>10 DEF Next, Round

LEMMA TypesKept ==
    ASSUME AccTypes, [Next]_vars
    PROVE  AccTypes'
BY BridgeTypesKept, RequestTypes, RowTypes, RoundTypes, HistoryTypes DEF AccTypes, BridgeTypes

-----------------------------------------------------------------------------
(* An account that is turned off stays quiet.                              *)

LEMMA QuietOwn ==
    ASSUME AccTypes, Quiet, ~revived, Own
    PROVE  Quiet'
<1>1. /\ connects \in SUBSET ConnectSet /\ session.socket = 0 /\ ~session.timer
      /\ \A c \in connects : c.gen # session.gen
    BY DEF AccTypes, Quiet
<1>2. \A c \in ConnectSet : c.gen # 0
    BY GenIs DEF ConnectSet
<1>3. ASSUME NEW c \in connects, Announce(c) PROVE Quiet'
    <2>1. PICK d \in ConnectSet : d.gen = c.gen /\ connects' = (connects \ {c}) \cup {d}
        BY <1>3, AnnounceIs
    <2>2. session' = session
        BY <1>3 DEF Announce
    <2> QED BY <1>1, <2>1, <2>2 DEF Quiet
<1>4. ASSUME NEW c \in connects, SocketMade(c) PROVE Quiet'
    BY <1>1, <1>4 DEF SocketMade, Quiet
<1>5. ASSUME NEW c \in connects, ConnectFails(c) PROVE Quiet'
    BY <1>1, <1>5 DEF ConnectFails, Quiet
<1>6. CASE LogoutEnds
    <2>1. PICK s \in SessionSet :
             /\ session' = s
             /\ s.gen = session.gen /\ s.socket = session.socket /\ s.timer = session.timer
        BY <1>6, LogoutEndsIs
    <2>2. connects' = connects
        BY <1>6 DEF LogoutEnds
    <2> QED BY <1>1, <2>1, <2>2 DEF Quiet
<1>7. CASE DeleteEnds
    BY <1>1, <1>2, <1>7, UnknownIs DEF DeleteEnds, Quiet
<1>8. CASE QrExpires \/ CodeExpires
    <2>1. PICK s \in SessionSet :
             /\ session' = s
             /\ s.gen = session.gen /\ s.socket = session.socket /\ s.timer = session.timer
        BY <1>8, ExpiresIs DEF QrExpires, CodeExpires
    <2>2. connects' = connects
        BY <1>8 DEF QrExpires, CodeExpires, Expires
    <2> QED BY <1>1, <2>1, <2>2 DEF Quiet
<1>10. CASE ExpiryTold
    BY <1>1, <1>10 DEF ExpiryTold, Quiet
<1>9. ASSUME QrShown \/ Opened \/ \E b \in BOOLEAN : Closed(b) PROVE FALSE
    BY <1>1, <1>9 DEF QrShown, Opened, Closed, Reports
<1> QED BY <1>3, <1>4, <1>5, <1>6, <1>7, <1>8, <1>9, <1>10 DEF Own

LEMMA QuietKept ==
    ASSUME AccTypes, StaysQuiet, [Next]_vars
    PROVE  StaysQuiet'
<1>1. SUFFICES ASSUME Off' \/ Stopping', ~revived' PROVE Quiet'
    BY DEF StaysQuiet
<1>2. connects \in SUBSET ConnectSet /\ \A c \in ConnectSet : c.gen # 0
    BY GenIs DEF AccTypes, ConnectSet
<1>3. CASE Halts \/ Logout
    BY <1>2, <1>3, HaltsIs DEF Quiet
<1>4. CASE Off \/ Stopping
    <2>1. ~revived => Quiet
        BY <1>4 DEF StaysQuiet
    <2>2. CASE Stands
        BY <1>1, <2>1, <2>2 DEF Stands, Quiet
    <2>3. CASE Creates
        BY <1>2, <2>3, UnknownIs DEF Creates, Quiet
    <2>4. ~Begins
        BY <1>1, <1>4 DEF Begins, ConnectBegins
    <2>5. ~Lapses
        BY <1>1, <2>1 DEF Lapses, history, Quiet
    <2>6. CASE Own
        <3>1. ~revived
            BY <1>1, <2>6 DEF Own, Announce, SocketMade, ConnectFails, LogoutEnds, DeleteEnds, QrShown,
                              Opened, QrExpires, CodeExpires, Expires, ExpiryTold, Closed, Reports, history
        <3> QED BY <2>1, <2>6, <3>1, QuietOwn
    <2>7. CASE Apply
        BY <1>1, <2>1, <2>7 DEF Apply, history, Quiet
    <2>8. CASE Crash
        BY <2>8, UnknownIs DEF Crash, Quiet
    <2> QED BY <1>3, <2>2, <2>3, <2>4, <2>5, <2>6, <2>7, <2>8, BridgeStep
<1> QED BY <1>1, <1>3, <1>4, OffStep, StoppingStep

-----------------------------------------------------------------------------
(* The row follows the session.                                            *)

(* The status in the row changes when an event comes; otherwise it is      *)
(* written by a logout, or with the row.                                   *)
LEMMA StatusStep ==
    ASSUME AccTypes, [Next]_vars, ~Apply
    PROVE  row'.status = row.status \/ astray' \/ (ops = 0 /\ session' = session)
<1>1. ASSUME NEW t \in Thread, NEW op \in Op, Request(t, op)
      PROVE  row' = row \/ (ops = 0 /\ session' = session)
    BY <1>1 DEF Request, bridge
<1>2. ASSUME NEW t \in Thread, Call(t) \/ TimesOut(t) PROVE row' = row
    BY <1>2 DEF Call, TimesOut
<1> QED BY <1>1, <1>2, FinishIs, ServiceStep

LEMMA AstrayStays ==
    ASSUME AccTypes, [Next]_vars, astray
    PROVE  astray'
<1>1. CASE Halts \/ Logout \/ Stands \/ Creates \/ Begins \/ Lapses \/ Apply \/ Crash
    BY <1>1 DEF Halts, Logout, Stands, Creates, Begins, ConnectBegins, Lapses, Apply, Crash, history
<1>2. CASE Own
    BY <1>2 DEF Own, Announce, SocketMade, ConnectFails, LogoutEnds, DeleteEnds, QrShown,
                Opened, QrExpires, CodeExpires, Expires, ExpiryTold, Closed, Reports, history
<1> QED BY <1>1, <1>2, BridgeStep

(* Nothing happens in the bridge before the first request.                 *)
LEMMA UntouchedKept ==
    ASSUME AccTypes, Untouched, [Next]_vars
    PROVE  Untouched'
<1>1. SUFFICES ASSUME ops' = 0
               PROVE  /\ ~row'.exists /\ session' = Unknown /\ connects' = {} /\ queued' = 0
                      /\ late' = {}
                      /\ \A t \in Thread : th'[t].at = "idle"
                      /\ round'.at \in {"idle", "listed"}
    BY DEF Untouched
<1>2. ASSUME NEW t \in Thread, NEW op \in Op, Request(t, op) PROVE FALSE
    <2>1. ops' = ops + 1 /\ ops \in Nat
        BY <1>2 DEF Request, AccTypes
    <2> QED BY <1>1, <2>1
<1>3. ops = 0
    <2>1. CASE Bridge \/ Phone \/ Crash \/ Apply
        BY <1>1, <2>1 DEF Bridge, Phone, Crash, Apply, Announce, SocketMade, ConnectFails, LogoutEnds,
                DeleteEnds, Reconnect, QrShown, Opened, QrExpires, CodeExpires, Expires, ExpiryTold, Closed, Reports, LooseCloses, bounds
    <2>2. CASE Round \/ RoundFails
        BY <1>1, <2>2 DEF Round, RoundLists, RoundReads, RoundCreates, RoundConnects, RoundFails, bounds
    <2>3. CASE \E t \in Thread : Call(t) \/ TimesOut(t) \/ Finish(t)
        BY <1>1, <2>3 DEF Call, TimesOut, Finish, bounds
    <2>4. CASE \E op \in late : LateCall(op)
        BY <1>1, <2>4 DEF LateCall, bounds
    <2>5. CASE UNCHANGED vars
        BY <1>1, <2>5 DEF vars, bounds
    <2> QED BY <1>2, <2>1, <2>2, <2>3, <2>4, <2>5 DEF Next
<1>4. /\ ~row.exists /\ session = Unknown /\ connects = {} /\ queued = 0 /\ late = {}
      /\ \A t \in Thread : th[t].at = "idle"
      /\ round.at \in {"idle", "listed"}
    BY <1>3 DEF Untouched
<1>5. ~Halts /\ ~Lapses /\ ~Begins /\ ~Apply
    BY <1>4, UnknownIs DEF Halts, Lapses, Begins, Apply
<1>6. \A t \in Thread : ~Call(t) /\ ~TimesOut(t) /\ ~Finish(t)
    BY <1>4 DEF Call, TimesOut, Finish
<1>7. ~RoundCreates /\ ~RoundConnects /\ ~RoundFails
    BY <1>4 DEF RoundCreates, RoundConnects, RoundFails
<1>8. ~(\E op \in late : LateCall(op)) /\ ~Reconnect
    BY <1>4, UnknownIs DEF Reconnect
<1>9. /\ ~QrShown /\ ~Opened /\ ~QrExpires /\ ~CodeExpires /\ ~ExpiryTold
      /\ \A b \in BOOLEAN : ~Closed(b)
    BY <1>4, UnknownIs DEF QrShown, Opened, QrExpires, CodeExpires, Expires, ExpiryTold, Closed, Reports
<1>10. CASE LogoutEnds \/ DeleteEnds \/ Crash \/ \E g \in live : LooseCloses(g)
    BY <1>4, <1>10, UnknownIs DEF LogoutEnds, DeleteEnds, Crash, LooseCloses, service
<1>11. CASE RoundLists \/ RoundReads
    <2>1. round'.at \in {"idle", "listed"}
        BY <1>4, <1>11, RecordsAre DEF RoundLists, RoundReads, Turns, Wanted
    <2> QED BY <1>4, <1>11, <2>1 DEF RoundLists, RoundReads, bridge
<1>12. CASE UNCHANGED vars
    BY <1>4, <1>12 DEF vars, bridge, service
<1> QED BY <1>2, <1>4, <1>5, <1>6, <1>7, <1>8, <1>9, <1>10, <1>11, <1>12 DEF Next, Bridge, Phone, Round

LEMMA ToldEmits ==
    ASSUME AccTypes, NEW status \in Status, Emits(status)
    PROVE  Told' = status /\ events' # <<>>
BY EmitsIs DEF AccTypes, Told

LEMMA SeqIs ==
    ASSUME NEW s \in Seq(Status)
    PROVE  /\ Len(s) \in Nat /\ (Len(s) = 0 <=> s = <<>>)
           /\ s # <<>> =>
                /\ Head(s) = s[1] /\ Tail(s) \in Seq(Status) /\ Len(Tail(s)) = Len(s) - 1
                /\ \A i \in 1..Len(Tail(s)) : Tail(s)[i] = s[i + 1]
<1>1. Len(s) \in Nat /\ (Len(s) = 0 <=> s = <<>>)
    BY EmptySeq
<1>2. ASSUME s # <<>>
      PROVE  /\ Head(s) = s[1] /\ Tail(s) \in Seq(Status) /\ Len(Tail(s)) = Len(s) - 1
             /\ \A i \in 1..Len(Tail(s)) : Tail(s)[i] = s[i + 1]
    BY <1>2, HeadTailProperties
<1> QED BY <1>1, <1>2

LEMMA ToldApply ==
    ASSUME AccTypes, Apply
    PROVE  Told' = Told
<1>1. /\ events \in Seq(Status) /\ events # <<>> /\ events' = Tail(events)
      /\ row' = [row EXCEPT !.status = Head(events)] /\ row \in RowSet
    BY DEF AccTypes, Apply
<1>2. row'.status = Head(events)
    BY <1>1 DEF RowSet
<1>3. PICK rest \in Seq(Status) :
        /\ rest = Tail(events) /\ Len(rest) = Len(events) - 1 /\ Head(events) = events[1]
        /\ \A i \in 1..Len(rest) : rest[i] = events[i + 1]
    BY <1>1, SeqIs
<1>4. PICK n \in Nat : n = Len(rest) /\ (n = 0 <=> rest = <<>>)
    BY SeqIs
<1>5. Len(events) = n + 1
    <2>1. PICK m \in Nat : m = Len(events)
        BY <1>1, SeqIs
    <2> QED BY <1>3, <1>4, <2>1
<1>6. CASE n = 0
    BY <1>1, <1>2, <1>3, <1>4, <1>5, <1>6 DEF Told
<1>7. CASE n # 0
    <2>1. rest[n] = events[n + 1]
        BY <1>3, <1>4, <1>7
    <2> QED BY <1>1, <1>3, <1>4, <1>5, <1>7, <2>1 DEF Told
<1> QED BY <1>6, <1>7

LEMMA LeavingStep ==
    ASSUME AccTypes, [Next]_vars, leaving'
    PROVE  leaving \/ astray'
<1>1. CASE Halts \/ Logout \/ Stands \/ Creates \/ Begins \/ Lapses \/ Apply \/ Crash
    BY <1>1 DEF Halts, Logout, Stands, Creates, Begins, ConnectBegins, Lapses, Apply, Crash
<1>2. CASE Own
    BY <1>2 DEF Own, Announce, SocketMade, ConnectFails, LogoutEnds, DeleteEnds, QrShown,
                Opened, QrExpires, CodeExpires, Expires, ExpiryTold, Closed, Reports
<1> QED BY <1>1, <1>2, BridgeStep

LEMMA UniqueKept ==
    ASSUME AccTypes, Follows, [Next]_vars
    PROVE  \A c, d \in connects' : c.gen = d.gen => c = d
<1>1. \A c, d \in connects : c.gen = d.gen => c = d
    BY DEF Follows
<1>2. CASE Begins
    <2>1. PICK g \in 1..MaxGen, c \in ConnectSet :
             /\ \A d \in connects : d.gen # g
             /\ c.gen = g /\ connects' = connects \cup {c}
        BY <1>2, BeginsIs
    <2> QED BY <1>1, <2>1
<1>3. ASSUME NEW c \in connects, Announce(c)
      PROVE  \A e, d \in connects' : e.gen = d.gen => e = d
    <2>1. PICK d \in ConnectSet : d.gen = c.gen /\ connects' = (connects \ {c}) \cup {d}
        BY <1>3, AnnounceIs
    <2> QED BY <1>1, <2>1
<1>4. CASE Halts \/ Logout \/ Stands \/ Creates \/ Lapses \/ Apply \/ Crash
    BY <1>1, <1>4 DEF Halts, Logout, Stands, Creates, Lapses, Apply, Crash
<1>5. CASE Own /\ \A c \in connects : ~Announce(c)
    BY <1>1, <1>5 DEF Own, SocketMade, ConnectFails, LogoutEnds, DeleteEnds, QrShown,
                Opened, QrExpires, CodeExpires, Expires, ExpiryTold, Closed, Reports
<1> QED BY <1>2, <1>3, <1>4, <1>5, BridgeStep

(* The service is told, or will be.                                        *)
Tells ==
    /\ OwnConnect
    /\ ~session.known => Forgotten
    /\ session.known => IsTold

LEMMA TellsOwn ==
    ASSUME AccTypes, Follows, ~astray, ~astray', Own
    PROVE  Tells'
<1>1. /\ \A c, d \in connects : c.gen = d.gen => c = d
      /\ OwnConnect
      /\ ~session.known => Forgotten
      /\ session.known => IsTold
      /\ ~leaving
    BY DEF Follows
<1>2. {"connecting", "error", "offline"} \subseteq Status
    BY DEF Status
<1>3. connects \in SUBSET ConnectSet /\ \A c \in ConnectSet : c.gen # 0
    BY GenIs DEF AccTypes, ConnectSet
<1>4. ASSUME NEW c \in connects, Announce(c) PROVE Tells'
    <2>1. PICK d \in ConnectSet : d.gen = c.gen /\ connects' = (connects \ {c}) \cup {d}
        BY <1>4, AnnounceIs
    <2>2. c.gen = session.gen /\ session' = session
        BY <1>4 DEF Announce
    <2>3. session.state = "connecting" /\ session.known
        BY <1>1, <2>2 DEF OwnConnect, Forgotten
    <2>4. Told' = "connecting"
        BY <1>2, <1>4, ToldEmits DEF Announce
    <2>5. OwnConnect'
        BY <1>1, <2>1, <2>2 DEF OwnConnect
    <2> QED BY <2>2, <2>3, <2>4, <2>5 DEF Tells, IsTold
<1>5. ASSUME NEW c \in connects, SocketMade(c) PROVE Tells'
    <2>1. /\ connects' = connects \ {c} /\ c.announced /\ session.known
          /\ UNCHANGED <<queued, events, row>>
        BY <1>1, <1>5 DEF SocketMade, Forgotten, service
    <2>2. Told' = Told
        BY <2>1 DEF Told
    <2>3. CASE c.gen = session.gen
        <3>1. PICK s \in SessionSet :
                 session' = s /\ s.gen = session.gen /\ s.state = session.state /\ s.known = session.known
            BY <1>5, <2>3, SocketIs
        <3>2. \A d \in connects' : d.gen # session.gen
            BY <1>1, <2>1, <2>3
        <3>3. ~ToBeTold
            BY <1>1, <2>1, <2>3 DEF ToBeTold
        <3> QED BY <1>1, <2>1, <2>2, <3>1, <3>2, <3>3 DEF Tells, OwnConnect, IsTold
    <2>4. CASE c.gen # session.gen
        <3>1. session' = session
            BY <1>5, <2>4 DEF SocketMade
        <3>2. ToBeTold => ToBeTold'
            BY <2>1, <2>4, <3>1 DEF ToBeTold
        <3> QED BY <1>1, <2>1, <2>2, <3>1, <3>2 DEF Tells, OwnConnect, IsTold
    <2> QED BY <2>3, <2>4
<1>6. ASSUME NEW c \in connects, ConnectFails(c) PROVE Tells'
    <2>1. connects' = connects \ {c} /\ UNCHANGED <<queued, row>> /\ session.known
        BY <1>1, <1>6 DEF ConnectFails, Forgotten, service
    <2>2. CASE c.gen = session.gen
        <3>1. PICK s \in SessionSet :
                 /\ session' = s /\ Emits("error")
                 /\ s.gen = session.gen /\ s.state = "error" /\ s.known = session.known
            BY <1>6, <2>2, FailsIs
        <3>2. \A d \in connects' : d.gen # session.gen
            BY <1>1, <2>1, <2>2
        <3>3. Told' = "error"
            BY <1>2, <3>1, ToldEmits
        <3> QED BY <2>1, <3>1, <3>2, <3>3 DEF Tells, OwnConnect, IsTold
    <2>3. CASE c.gen # session.gen
        <3>1. session' = session /\ events' = events
            BY <1>6, <2>3 DEF ConnectFails
        <3>2. ToBeTold => ToBeTold'
            BY <2>1, <2>3, <3>1 DEF ToBeTold
        <3>3. Told' = Told
            BY <2>1, <3>1 DEF Told
        <3> QED BY <1>1, <2>1, <3>1, <3>2, <3>3 DEF Tells, OwnConnect, IsTold
    <2> QED BY <2>2, <2>3
<1>7. ~LogoutEnds /\ ~DeleteEnds
    BY <1>1 DEF LogoutEnds, DeleteEnds
<1>8. CASE QrExpires \/ CodeExpires
    <2>1. PICK s \in SessionSet :
             /\ session' = s /\ s.state = "offline" /\ s.known = session.known
             /\ s.gen = session.gen
        BY <1>8, ExpiresIs DEF QrExpires, CodeExpires
    <2>2. session.known /\ session.qr /\ connects' = connects
        BY <1>8 DEF QrExpires, CodeExpires, Expires
    <2>3. \A c \in connects : c.gen # session.gen
        BY <1>1, <2>2 DEF OwnConnect
    <2>4. QrExpires => Told' = "offline"
        BY <1>2, ToldEmits DEF QrExpires
    <2>5. CodeExpires => queued' > 0
        BY DEF CodeExpires, AccTypes
    <2> QED BY <1>8, <2>1, <2>2, <2>3, <2>4, <2>5 DEF Tells, OwnConnect, IsTold
<1>10. CASE ExpiryTold
    <2>1. UNCHANGED <<session, connects>> /\ queued # 0
        BY <1>10 DEF ExpiryTold, AccTypes
    <2>2. session.known
        BY <1>1, <2>1 DEF Forgotten
    <2>3. session.state = "offline" \/ ToBeTold
        BY <1>10 DEF ExpiryTold
    <2>4. Told' = "offline"
        BY <1>2, <1>10, ToldEmits DEF ExpiryTold
    <2> QED BY <1>1, <2>1, <2>2, <2>3, <2>4 DEF Tells, OwnConnect, IsTold, ToBeTold
<1>9. CASE QrShown \/ Opened \/ \E b \in BOOLEAN : Closed(b)
    <2>1. PICK state \in Status : Reported(state)
        BY <1>9, ReportsIs
    <2>2. session.socket # 0 /\ session.socket = session.gen /\ Emits(state) /\ connects' = connects
        BY <2>1 DEF Reported
    <2>3. PICK s \in SessionSet :
            session' = s /\ s.state = state /\ s.known = session.known /\ s.gen \in {session.gen, 0}
        BY <2>1 DEF Reported
    <2>4. session.known
        BY <1>1, <2>2, UnknownIs DEF Forgotten
    <2>5. \A c \in connects : c.gen # session.gen /\ c.gen # 0
        BY <1>1, <1>3, <2>2 DEF OwnConnect
    <2>6. Told' = state
        BY <2>2, ToldEmits
    <2> QED BY <2>2, <2>3, <2>4, <2>5, <2>6 DEF Tells, OwnConnect, IsTold
<1> QED BY <1>4, <1>5, <1>6, <1>7, <1>8, <1>9, <1>10 DEF Own

LEMMA TellsKept ==
    ASSUME AccTypes, Follows, Untouched, [Next]_vars, ~astray'
    PROVE  Tells'
<1>1. ~astray
    BY AstrayStays
<1>2. /\ OwnConnect
      /\ ~session.known => Forgotten
      /\ session.known => IsTold
    BY <1>1 DEF Follows
<1>3. connects \in SUBSET ConnectSet /\ \A c \in ConnectSet : c.gen # 0
    BY GenIs DEF AccTypes, ConnectSet
<1>4. "offline" \in Status
    BY DEF Status
<1>5. CASE Apply
    <2>1. UNCHANGED <<session, connects, queued>> /\ events # <<>>
        BY <1>5 DEF Apply
    <2>2. Told' = Told /\ session.known
        BY <1>2, <1>5, <2>1, ToldApply DEF Forgotten
    <2> QED BY <1>2, <2>1, <2>2 DEF Tells, OwnConnect, ToBeTold, IsTold, Forgotten
<1>6. ASSUME ~Apply
      PROVE  row'.status = row.status \/ (ops = 0 /\ session' = session)
    BY <1>6, StatusStep
<1>7. ops = 0 => session = Unknown
    BY DEF Untouched
<1>8. CASE Stands /\ ~Apply
    <2>1. UNCHANGED <<session, connects, queued, events>>
        BY <1>8 DEF Stands
    <2>2. session.known => Told' = Told
        BY <1>6, <1>7, <1>8, <2>1, UnknownIs DEF Told
    <2> QED BY <1>2, <2>1, <2>2 DEF Tells, OwnConnect, ToBeTold, IsTold, Forgotten
<1>9. CASE Creates /\ ~Apply
    <2>1. /\ ~session.known /\ session' = NewSession /\ UNCHANGED <<connects, events>>
          /\ row.status = "new"
        BY <1>9 DEF Creates
    <2>2. row'.status = "new"
        BY <1>6, <1>9, <2>1, UnknownIs
    <2>3. Told' = "new" /\ connects' = {}
        BY <1>2, <2>1, <2>2 DEF Told, Forgotten
    <2> QED BY <2>1, <2>3, UnknownIs DEF Tells, OwnConnect, IsTold
<1>10. CASE Begins
    <2>1. PICK g \in 1..MaxGen, s \in SessionSet, c \in ConnectSet :
             /\ g \notin live /\ \A d \in connects : d.gen # g
             /\ s.gen = g /\ s.state = "connecting" /\ s.socket = session.socket /\ s.socket # g
             /\ ~s.qr /\ ~s.timer /\ s.known = session.known
             /\ c.gen = g /\ ~c.announced
             /\ session' = s /\ connects' = connects \cup {c}
        BY <1>10, BeginsIs
    <2>2. session.known
        BY <1>2, <1>10, UnknownIs DEF Begins, Forgotten
    <2>3. OwnConnect'
        BY <2>1 DEF OwnConnect
    <2>4. ToBeTold'
        BY <2>1 DEF ToBeTold
    <2> QED BY <2>1, <2>2, <2>3, <2>4 DEF Tells, IsTold
<1>11. CASE Halts
    <2>1. PICK s \in SessionSet :
             /\ session' = s
             /\ s.gen = 0 /\ s.known = session.known /\ s.state = "offline"
        BY <1>11, HaltsIs
    <2>2. session.known /\ connects' = connects /\ Emits("offline")
        BY <1>11 DEF Halts
    <2>3. Told' = "offline"
        BY <1>4, <2>2, ToldEmits
    <2> QED BY <1>3, <2>1, <2>2, <2>3 DEF Tells, OwnConnect, IsTold
<1>12. ~Logout /\ ~Crash
    BY DEF Logout, Crash
<1>13. CASE Lapses /\ ~Apply
    <2>1. PICK s \in SessionSet :
             /\ session' = s /\ s.known = session.known /\ s.state = session.state
             /\ s.gen = session.gen /\ s.socket = session.socket /\ s.qr = session.qr
        BY <1>13, LapsesIs
    <2>2. session.timer /\ UNCHANGED <<connects, queued, events>>
        BY <1>13 DEF Lapses
    <2>3. session.known /\ ops # 0
        BY <1>2, <1>7, <2>2, UnknownIs DEF Forgotten
    <2>4. Told' = Told
        BY <1>6, <1>13, <2>2, <2>3 DEF Told
    <2>5. ToBeTold => ToBeTold'
        BY <2>1, <2>2 DEF ToBeTold
    <2> QED BY <1>2, <2>1, <2>2, <2>3, <2>4, <2>5 DEF Tells, OwnConnect, IsTold
<1>14. CASE Own
    BY <1>1, <1>14, TellsOwn
<1> QED BY <1>5, <1>8, <1>9, <1>10, <1>11, <1>12, <1>13, <1>14, BridgeStep

LEMMA FollowsKept ==
    ASSUME AccTypes, Follows, Untouched, [Next]_vars
    PROVE  Follows'
<1>1. leaving' => astray'
    BY LeavingStep, AstrayStays DEF Follows
<1>2. \A c, d \in connects' : c.gen = d.gen => c = d
    BY UniqueKept
<1>3. ~astray' => Tells'
    BY TellsKept
<1> QED BY <1>1, <1>2, <1>3 DEF Follows, Tells

-----------------------------------------------------------------------------
LEMMA AccInit == Init => AccInv
<1>1. SUFFICES ASSUME Init PROVE AccInv
    OBVIOUS
<1>2. AccTypes
    <2>1. \A t \in Thread : th[t] = Idle
        BY <1>1 DEF Init
    <2>2. th \in [Thread -> RequestSet] /\ \A t \in Thread : th[t].at # "calling"
        BY <1>1, <2>1, RecordsAre DEF Init
    <2>3. events \in Seq(Status) /\ queued \in Nat
        BY <1>1, EmptySeq DEF Init
    <2>4. /\ row \in RowSet /\ session \in SessionSet /\ round \in RoundSet
          /\ session.socket = 0
        BY <1>1, RecordsAre, UnknownIs DEF Init
    <2>5. /\ connects \in SUBSET ConnectSet /\ live \in SUBSET Gen /\ late \in SUBSET CallOp
          /\ revived \in BOOLEAN /\ astray \in BOOLEAN /\ ops \in Nat
        BY <1>1 DEF Init
    <2> QED BY <2>2, <2>3, <2>4, <2>5 DEF AccTypes
<1>3. StaysQuiet /\ Follows
    BY <1>1, UnknownIs DEF Init, StaysQuiet, Quiet, Follows, OwnConnect, Forgotten
<1>4. Untouched
    BY <1>1, RecordsAre DEF Init, Untouched, NoRow
<1> QED BY <1>2, <1>3, <1>4 DEF AccInv

(* The invariant holds: what is stopped stays quiet until a connect comes  *)
(* after it, and the last status told is the session's.                    *)
THEOREM AccInvariant == Spec => []AccInv
<1>1. AccInv /\ [Next]_vars => AccInv'
    BY TypesKept, QuietKept, FollowsKept, UntouchedKept DEF AccInv
<1> QED BY <1>1, AccInit, PTL DEF Spec

(* AccountsTypeOK: types, and the socket of a session is an open one.      *)
THEOREM AccountsTyped == Spec => []AccountsTypeOK
<1>1. AccInv => AccountsTypeOK
    <2>1. SUFFICES ASSUME AccInv PROVE AccountsTypeOK
        OBVIOUS
    <2>2. ConnectSet \subseteq [gen : Gen, announced : BOOLEAN]
        BY GenIs DEF ConnectSet
    <2> QED BY <2>1, <2>2 DEF AccInv, AccTypes, AccountsTypeOK, RowSet, SessionSet
<1> QED BY <1>1, AccInvariant, PTL

(* OffIsOff: an account that was disabled, logged out or deleted has       *)
(* neither a socket nor a timer that makes one, unless a connect came      *)
(* after its stop or a failed creation left it (api/v1/accounts.py update, *)
(* logout, delete against AccountSession.connect).                         *)
THEOREM OffStaysOff == Spec => []OffIsOff
<1>1. AccInv => OffIsOff
    BY DEF AccInv, StaysQuiet, Quiet, OffIsOff
<1> QED BY <1>1, AccInvariant, PTL

(* StatusFollows: when all events have come, the row says what the session *)
(* is in, unless a connect overtaken by a stop told of itself afterwards,  *)
(* an expired code was told after something newer, a logout wrote the row  *)
(* itself, or a session was forgotten.                                     *)
THEOREM StatusTold == Spec => []StatusFollows
<1>1. AccInv => StatusFollows
    BY DEF AccInv, Follows, IsTold, Told, ToBeTold, Settled, StatusFollows
<1> QED BY <1>1, AccInvariant, PTL

=============================================================================
