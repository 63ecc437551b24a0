--------------------------- MODULE ConsoleProofs ---------------------------
(***************************************************************************)
(* For any number of users, threads, restarts and failed saves, in either  *)
(* console: types, the file that follows what is in memory, and requests   *)
(* that change nothing but what they are about unless they overtook one    *)
(* another.                                                                *)
(***************************************************************************)
EXTENDS Consoles, TLAPS

(* The standalone console.                                                 *)
Contents == [users : [User -> Record \cup {None}],
             sessions : [Thread -> User \cup {None}], option : BOOLEAN]

Sessions == [Thread -> User \cup {None}]

Stage == {"new", "hashing", "found", "withdrawing", "listed", "copied", "changed", "encoded",
          "done", "failed"}

ThState == [at : Stage,
            op : {"login", "logout", "register", "delete", "change", "put", "toggle", None},
            user : User \cup {None}, ref : DictName, rec : Record \cup {None}, given : Nat,
            token : Thread \cup {None}, list : Sessions \cup {None}, copy : Contents \cup {None},
            data : Contents \cup {None}, late : BOOLEAN]

ConsoleTypes ==
    /\ dicts \in [DictName -> [User -> Record \cup {None}]]
    /\ root \in [users : DictName, sessions : [Thread -> User \cup {None}], option : BOOLEAN]
    /\ file \in Contents
    /\ lock \in Thread \cup {None}
    /\ th \in [Thread -> ThState]
    /\ overtaken \in BOOLEAN
    /\ touched \in [Thread -> SUBSET User]
    /\ restarts \in Nat

LockHeld ==
    \A t \in Thread :
        lock = t <=> /\ th[t].op \in {"login", "logout"}
                     /\ th[t].at \in {"hashing", "withdrawing", "listed", "changed", "encoded"}

(* A dict of users is nobody's before its copy takes the place of another. *)
CopyIsOwn ==
    \A t \in Thread : th[t].at \in {"new", "copied"} =>
        root.users # t /\ \A k \in Thread : th[k].ref # t

(* What a request under way has.                                           *)
UnderWay(t) ==
    /\ th[t].at = "hashing" =>
         th[t].op \in {"login", "register", "change"} /\ th[t].user \in User
    /\ th[t].at = "hashing" /\ th[t].op = "register" => th[t].rec = None
    /\ th[t].at = "hashing" /\ th[t].op = "change" =>
         /\ th[t].rec # None
         /\ th[t].token \in Thread
         /\ th[th[t].token].op = "login" /\ th[th[t].token].at \notin {"new", "hashing"}
         /\ th[th[t].token].user = th[t].user
    /\ th[t].at = "found" => th[t].op = "delete" /\ th[t].user \in User
    /\ th[t].at = "withdrawing" => th[t].op \in {"logout", "delete", "change"}
    /\ th[t].at = "listed" =>
         /\ th[t].op \in {"login", "logout", "delete", "change"}
         /\ th[t].op = "login" => th[t].user \in User
         /\ th[t].list \in Sessions
    /\ th[t].at = "copied" => th[t].op = "put"
    /\ th[t].at = "copied" => th[t].copy \in Contents /\ dicts[t] = th[t].copy.users
    /\ th[t].at = "encoded" => th[t].data \in Contents

(* Who is a user in what a request is going to put back, and who is now.   *)
TouchedKnows(t) ==
    /\ th[t].at \in {"hashing", "found"} => \A u \in User :
         (dicts[th[t].ref][u] = None) # (Users[u] = None) => u \in touched[t]
    /\ th[t].at = "copied" => \A u \in User :
         (dicts[t][u] = None) # (Users[u] = None) => u \in touched[t]
    /\ th[t].at = "hashing" /\ th[t].op = "change" /\ Users[th[t].user] = None =>
         th[t].user \in touched[t]

(* Sessions, in memory or stored: of a login that verified its user, and   *)
(* one for each user.                                                      *)
IssuedIn(s, f) ==
    /\ \A k \in Thread : s[k] # None =>
         /\ f[k].op = "login" /\ f[k].at \notin {"new", "hashing"}
         /\ f[k].rec # None /\ s[k] = f[k].user
    /\ \A j, k \in Thread : s[j] = s[k] /\ s[j] # None => j = k

Issued(s) == IssuedIn(s, th)

AllIssued ==
    /\ Issued(root.sessions) /\ Issued(file.sessions)
    /\ \A t \in Thread :
         /\ th[t].at = "listed" => Issued(th[t].list)
         /\ th[t].at = "copied" => Issued(th[t].copy.sessions)
         /\ th[t].at = "encoded" => Issued(th[t].data.sessions)

(* Unless a change is still to be encoded or was given up: the newest save *)
(* is to come, or has come and what is to come is late, or the file has    *)
(* been overtaken and all that is to come is late.                         *)
NewestSave ==
    (\A t \in Thread : th[t].at \notin {"withdrawing", "listed", "changed", "failed"}) =>
        \/ \E t \in Thread : th[t].at = "encoded" /\ th[t].data = Content
        \/ /\ file = Content
           /\ \A t \in Thread : th[t].at = "encoded" /\ th[t].data # Content => th[t].late
        \/ /\ overtaken
           /\ \A t \in Thread : th[t].at = "encoded" => th[t].late

ConsoleInv ==
    /\ ConsoleTypes /\ LockHeld /\ CopyIsOwn
    /\ \A t \in Thread : UnderWay(t) /\ TouchedKnows(t)
    /\ AllIssued /\ NewestSave

-----------------------------------------------------------------------------
LEMMA MainName == Main \in DictName /\ \A t \in Thread : t \in DictName /\ t # Main /\ t # None
  BY ConsoleAssumption DEF DictName

LEMMA NewState == New \in ThState
  BY MainName DEF New, ThState, Stage

LEMMA UsersType ==
    ASSUME ConsoleTypes
    PROVE  /\ Users \in [User -> Record \cup {None}]
           /\ Content \in Contents
  BY DEF ConsoleTypes, Users, Content, Contents

(* What a request is when it begins.                                       *)
LEMMA BeginsType ==
    ASSUME ConsoleTypes, NEW t \in Thread, NEW u \in User \cup {None},
           NEW op \in {"login", "logout", "register", "delete", "change", "put", "toggle"},
           NEW at \in {"hashing", "found", "withdrawing", "copied", "changed"}
    PROVE  /\ Begins(t, op, at, u) \in ThState
           /\ Begins(t, op, at, u).at = at /\ Begins(t, op, at, u).op = op
           /\ Begins(t, op, at, u).user = u /\ Begins(t, op, at, u).ref = root.users
           /\ u \in User => Begins(t, op, at, u).rec = Users[u]
<1>1. u \in User => u # None /\ Users[u] \in Record \cup {None}
  <2>1. Users \in [User -> Record \cup {None}]
    BY UsersType
  <2> QED BY <2>1, ConsoleAssumption
<1> DEFINE r == IF u = None THEN None ELSE Users[u]
           s == [New EXCEPT !.op = op, !.at = at, !.user = u, !.ref = root.users, !.rec = r]
<1>2. r \in Record \cup {None}
  BY <1>1
<1>3. Begins(t, op, at, u) = s
  BY DEF Begins
<1>4. u \in User => r = Users[u]
  BY <1>1
<1> HIDE DEF r
<1>5. s \in ThState
  <2>1. at \in Stage /\ root.users \in DictName
    BY DEF Stage, ConsoleTypes
  <2> QED BY <1>2, <2>1, NewState DEF ThState
<1>6. s.at = at /\ s.op = op /\ s.user = u /\ s.ref = root.users /\ s.rec = r
  BY DEF New
<1> HIDE DEF s
<1> QED BY <1>3, <1>4, <1>5, <1>6

(* A state with other fields is still one.                                 *)
LEMMA StateUpdates ==
    ASSUME NEW s \in ThState
    PROVE  /\ \A a \in Stage : [s EXCEPT !.at = a] \in ThState
           /\ \A l \in Sessions : [s EXCEPT !.at = "listed", !.list = l] \in ThState
           /\ [s EXCEPT !.at = "changed", !.list = None] \in ThState
           /\ [s EXCEPT !.at = "done", !.list = None, !.data = None, !.copy = None] \in ThState
           /\ \A k \in Thread : [s EXCEPT !.token = k] \in ThState
           /\ \A k \in Thread, pw \in 0..1 : [s EXCEPT !.given = pw, !.token = k] \in ThState
           /\ \A pw \in 0..1 : [s EXCEPT !.given = pw] \in ThState
           /\ \A c \in Contents : [s EXCEPT !.copy = c] \in ThState
           /\ \A c \in Contents : [s EXCEPT !.at = "encoded", !.data = c] \in ThState
           /\ \A a \in {"done", "failed"} :
                [s EXCEPT !.at = a, !.data = None, !.copy = None] \in ThState
           /\ \A r \in Record : [s EXCEPT !.rec = r] \in ThState
           /\ [s EXCEPT !.late = TRUE] \in ThState
<1>1. \A a \in Stage : [s EXCEPT !.at = a] \in ThState
  BY DEF ThState
<1>2. \A k \in Thread : [s EXCEPT !.token = k] \in ThState
  BY DEF ThState
<1>3. \A k \in Thread, pw \in 0..1 : [s EXCEPT !.given = pw, !.token = k] \in ThState
  <2> TAKE k \in Thread, pw \in 0..1
  <2>1. pw \in Nat
    OBVIOUS
  <2> QED BY <2>1 DEF ThState
<1>4. \A pw \in 0..1 : [s EXCEPT !.given = pw] \in ThState
  BY DEF ThState
<1>5. \A c \in Contents : [s EXCEPT !.copy = c] \in ThState
  BY DEF ThState
<1>6. \A c \in Contents : [s EXCEPT !.at = "encoded", !.data = c] \in ThState
  BY DEF ThState, Stage
<1>7. \A a \in {"done", "failed"} : [s EXCEPT !.at = a, !.data = None, !.copy = None] \in ThState
  BY DEF ThState, Stage
<1>8. \A r \in Record : [s EXCEPT !.rec = r] \in ThState
  BY DEF ThState
<1>9. [s EXCEPT !.late = TRUE] \in ThState
  BY DEF ThState
<1>10. \A l \in Sessions : [s EXCEPT !.at = "listed", !.list = l] \in ThState
  BY DEF ThState, Stage
<1>11. [s EXCEPT !.at = "changed", !.list = None] \in ThState
  BY DEF ThState, Stage
<1>12. [s EXCEPT !.at = "done", !.list = None, !.data = None, !.copy = None] \in ThState
  BY DEF ThState, Stage
<1> QED BY <1>1, <1>2, <1>3, <1>4, <1>5, <1>6, <1>7, <1>8, <1>9, <1>10, <1>11, <1>12

LEMMA ThType == ASSUME ConsoleTypes, NEW t \in Thread PROVE th[t] \in ThState
  BY DEF ConsoleTypes

LEMMA GoesTo ==
    ASSUME ConsoleTypes, NEW t \in Thread, NEW s, Goes(t, s)
    PROVE  /\ th'[t] = s
           /\ \A u \in Thread \ {t} : th'[u] = th[u]
           /\ s \in ThState => th' \in [Thread -> ThState]
  BY DEF ConsoleTypes, Goes

(* The sessions that a request leaves.                                     *)
LEMMA RemainingType ==
    ASSUME ConsoleTypes, NEW t \in Thread, th[t].op \in {"login", "logout", "delete", "change"},
           th[t].op = "login" => th[t].user \in User
    PROVE  /\ Remaining(t) \in Sessions
           /\ \A k \in Thread : Remaining(t)[k] \in {root.sessions[k], None}
                                 \/ (th[t].op = "login" /\ k = t)
<1> DEFINE u == th[t].user
           w(keep) == WithoutSessions(u, keep)
<1>1. root.sessions \in Sessions
  BY DEF ConsoleTypes, Sessions
<1>2. \A keep : /\ w(keep) \in Sessions
                /\ \A k \in Thread : w(keep)[k] \in {root.sessions[k], None}
  BY <1>1 DEF WithoutSessions, Sessions
<1> HIDE DEF w, u
<1>3. CASE th[t].op = "login"
  <2>1. Remaining(t) = [w(None) EXCEPT ![t] = u]
    BY <1>3 DEF Remaining, w, u
  <2>2. u \in User
    BY <1>3 DEF u
  <2> QED BY <1>2, <1>3, <2>1, <2>2 DEF Sessions
<1>4. CASE th[t].op = "logout"
  <2>1. Remaining(t) = [root.sessions EXCEPT ![th[t].token] = None]
    BY <1>4 DEF Remaining
  <2> QED BY <1>1, <2>1 DEF Sessions
<1>5. CASE th[t].op = "delete"
  <2>1. Remaining(t) = w(None)
    BY <1>5 DEF Remaining, w, u
  <2> QED BY <1>2, <2>1
<1>6. CASE th[t].op = "change"
  <2>1. Remaining(t) = w(th[t].token)
    BY <1>6 DEF Remaining, w, u
  <2> QED BY <1>2, <2>1
<1> QED BY <1>3, <1>4, <1>5, <1>6

(* The record that a change of password puts back is the user's next one.  *)
LEMMA HeldRecord ==
    ASSUME ConsoleTypes, NEW t \in Thread, UnderWay(t), Hashed(t, "change")
    PROVE  [Held(t) EXCEPT !.pw = @ + 1] \in Record
<1>1. /\ th[t].rec \in Record /\ th[t].user \in User /\ th[t].ref \in DictName
  BY DEF ConsoleTypes, UnderWay, Hashed, ThState
<1>2. dicts[th[t].ref][th[t].user] \in Record \cup {None}
  BY <1>1 DEF ConsoleTypes
<1>3. Held(t) \in Record
  BY <1>1, <1>2 DEF Held
<1> QED BY <1>3 DEF Record

LEMMA TokenOther ==
    ASSUME NEW t \in Thread, UnderWay(t), Hashed(t, "change")
    PROVE  th[t].token \in Thread /\ th[t].token # t
  BY DEF UnderWay, Hashed

LEMMA ChangesTh ==
    ASSUME ConsoleTypes, NEW t \in Thread, UnderWay(t), Changes(t)
    PROVE  /\ th'[t] = [th[t] EXCEPT !.at = "withdrawing"]
           /\ th'[th[t].token] = [th[th[t].token] EXCEPT !.rec = [Held(t) EXCEPT !.pw = @ + 1]]
           /\ \A u \in Thread \ {t, th[t].token} : th'[u] = th[u]
           /\ th' \in [Thread -> ThState]
<1> DEFINE k == th[t].token
           rec == [Held(t) EXCEPT !.pw = @ + 1]
<1>1. Hashed(t, "change") /\ k \in Thread /\ k # t
  BY TokenOther DEF Changes
<1>2. rec \in Record
  BY <1>1, HeldRecord
<1>3. th' = [th EXCEPT ![t].at = "withdrawing", ![k].rec = rec]
  BY DEF Changes
<1> HIDE DEF k, rec
<1>4. th' = [[th EXCEPT ![t] = [th[t] EXCEPT !.at = "withdrawing"]] EXCEPT ![k] = [th[k] EXCEPT !.rec = rec]]
  BY <1>1, <1>3 DEF ConsoleTypes
<1>5. [th[t] EXCEPT !.at = "withdrawing"] \in ThState /\ [th[k] EXCEPT !.rec = rec] \in ThState
  BY <1>1, <1>2, ThType, StateUpdates DEF Stage
<1> QED BY <1>1, <1>4, <1>5 DEF ConsoleTypes, k, rec

-----------------------------------------------------------------------------
LEMMA InitConsole == Init => ConsoleInv
<1> SUFFICES ASSUME Init PROVE ConsoleInv
  OBVIOUS
<1>1. ConsoleTypes
  <2>1. dicts \in [DictName -> [User -> Record \cup {None}]]
    BY MainName DEF Init, Record
  <2>2. root \in [users : DictName, sessions : [Thread -> User \cup {None}], option : BOOLEAN]
    BY MainName DEF Init
  <2>3. file \in Contents
    BY <2>1, <2>2 DEF Init, Content, Contents, Users
  <2>4. th \in [Thread -> ThState]
    BY NewState DEF Init
  <2> QED BY <2>1, <2>2, <2>3, <2>4 DEF Init, ConsoleTypes
<1>2. \A t \in Thread : th[t].at = "new" /\ th[t].op = None /\ th[t].ref = Main
  BY DEF Init, New
<1>3. LockHeld
  BY <1>2, MainName DEF Init, LockHeld
<1>4. CopyIsOwn
  BY <1>2, MainName DEF CopyIsOwn, Init
<1>5. \A t \in Thread : UnderWay(t) /\ TouchedKnows(t)
  BY <1>2 DEF UnderWay, TouchedKnows
<1>6. AllIssued
  BY <1>2 DEF AllIssued, Issued, IssuedIn, Init, Content
<1>7. NewestSave
  BY <1>2 DEF NewestSave, Init
<1> QED BY <1>1, <1>3, <1>4, <1>5, <1>6, <1>7 DEF ConsoleInv

LEMMA ConsoleTypesStep == ConsoleInv /\ [Next]_vars => ConsoleTypes'
<1> SUFFICES ASSUME ConsoleInv, Next PROVE ConsoleTypes'
  BY DEF ConsoleInv, ConsoleTypes, vars
<1>0. ConsoleTypes /\ \A t \in Thread : UnderWay(t)
  BY DEF ConsoleInv
<1> USE <1>0, MainName
<1>a. touched' \in [Thread -> SUBSET User]
  BY DEF Next, Watch, ConsoleTypes
<1> DEFINE Rest == /\ dicts' \in [DictName -> [User -> Record \cup {None}]]
                   /\ root' \in [users : DictName, sessions : [Thread -> User \cup {None}],
                                 option : BOOLEAN]
                   /\ file' \in Contents
                   /\ lock' \in Thread \cup {None}
                   /\ th' \in [Thread -> ThState]
                   /\ overtaken' \in BOOLEAN
                   /\ restarts' \in Nat
<1>b. ASSUME NEW t \in Thread, NEW s \in ThState, Goes(t, s) PROVE th' \in [Thread -> ThState]
  BY <1>b, GoesTo
<1>c. \A t \in Thread : th[t] \in ThState
  BY DEF ConsoleTypes
<1>1. ASSUME NEW t \in Thread, NEW u \in User, NEW pw \in 0..1, LoginBegins(t, u, pw) PROVE Rest
  <2>1. [Begins(t, "login", "hashing", u) EXCEPT !.given = pw] \in ThState
    <3>1. Begins(t, "login", "hashing", u) \in ThState
      BY BeginsType
    <3> QED BY <3>1, StateUpdates
  <2>2. th' \in [Thread -> ThState]
    BY <1>1, <2>1, <1>b DEF LoginBegins
  <2> QED BY <1>1, <2>2 DEF LoginBegins, ConsoleTypes
<1>2. ASSUME NEW t \in Thread, LoginRefused(t) PROVE Rest
  <2>1. th' \in [Thread -> ThState]
    BY <1>2, <1>b, <1>c, StateUpdates DEF LoginRefused, Saves, Stage
  <2> QED BY <1>2, <2>1 DEF LoginRefused, ConsoleTypes
<1>3. ASSUME NEW t \in Thread, ListsSessions(t) PROVE Rest
  <2>1. Remaining(t) \in Sessions
    BY <1>3, RemainingType DEF ListsSessions, Hashed, UnderWay
  <2>2. th' \in [Thread -> ThState]
    BY <1>3, <2>1, <1>b, <1>c, StateUpdates DEF ListsSessions
  <2> QED BY <1>3, <2>2 DEF ListsSessions, ConsoleTypes
<1>4. ASSUME NEW t \in Thread, NEW k \in Thread, Logout(t, k) PROVE Rest
  <2>1. [Begins(t, "logout", "withdrawing", None) EXCEPT !.token = k] \in ThState
    <3>1. Begins(t, "logout", "withdrawing", None) \in ThState
      BY BeginsType
    <3> QED BY <3>1, StateUpdates
  <2>2. th' \in [Thread -> ThState]
    BY <1>4, <2>1, <1>b DEF Logout
  <2> QED BY <1>4, <2>2 DEF Logout, ConsoleTypes
<1>17. ASSUME NEW t \in Thread, PutsSessions(t) PROVE Rest
  <2>1. th[t].list \in Sessions
    BY <1>17 DEF PutsSessions, UnderWay
  <2>2. th' \in [Thread -> ThState]
    BY <1>17, <1>b, <1>c, StateUpdates DEF PutsSessions
  <2> QED BY <1>17, <2>1, <2>2 DEF PutsSessions, ConsoleTypes, Sessions
<1>5. ASSUME NEW t \in Thread, NEW u \in User, RegisterBegins(t, u) PROVE Rest
  <2>1. th' \in [Thread -> ThState]
    BY <1>5, BeginsType, <1>b DEF RegisterBegins
  <2> QED BY <1>5, <2>1 DEF RegisterBegins, ConsoleTypes
<1>6. ASSUME NEW t \in Thread, Registers(t) PROVE Rest
  <2>1. [by |-> t, pw |-> 0] \in Record
    BY DEF Record
  <2>2. th[t].ref \in DictName /\ th[t].user \in User
    BY <1>6, <1>c DEF Registers, Hashed, UnderWay, ThState
  <2>3. dicts' = [dicts EXCEPT ![th[t].ref] = [dicts[th[t].ref] EXCEPT ![th[t].user] = [by |-> t, pw |-> 0]]]
    BY <1>6 DEF Registers, PutsUser
  <2>4. dicts' \in [DictName -> [User -> Record \cup {None}]]
    BY <2>1, <2>2, <2>3 DEF ConsoleTypes
  <2>5. th' \in [Thread -> ThState]
    BY <1>6, <1>b, <1>c, StateUpdates DEF Registers, Saves, Stage
  <2> QED BY <1>6, <2>2, <2>4, <2>5 DEF Registers, ConsoleTypes
<1>7. ASSUME NEW t \in Thread, NEW u \in User, DeleteBegins(t, u) PROVE Rest
  <2>1. th' \in [Thread -> ThState]
    BY <1>7, BeginsType, <1>b DEF DeleteBegins
  <2> QED BY <1>7, <2>1 DEF DeleteBegins, ConsoleTypes
<1>18. ASSUME NEW t \in Thread, Deletes(t) PROVE Rest
  <2>1. th[t].ref \in DictName /\ th[t].user \in User
    BY <1>18, <1>c DEF Deletes, UnderWay, ThState
  <2>2. dicts' = [dicts EXCEPT ![th[t].ref] = [dicts[th[t].ref] EXCEPT ![th[t].user] = None]]
    BY <1>18 DEF Deletes, PutsUser
  <2>3. dicts' \in [DictName -> [User -> Record \cup {None}]]
    BY <2>1, <2>2 DEF ConsoleTypes
  <2>4. th' \in [Thread -> ThState]
    BY <1>18, <1>b, <1>c, StateUpdates DEF Deletes, Stage
  <2> QED BY <1>18, <2>1, <2>3, <2>4 DEF Deletes, ConsoleTypes
<1>19. ASSUME NEW t \in Thread, DeleteMisses(t) PROVE Rest
  <2>1. th' \in [Thread -> ThState]
    BY <1>19, <1>b, <1>c, StateUpdates DEF DeleteMisses, Ends, Stage
  <2> QED BY <1>19, <2>1 DEF DeleteMisses, ConsoleTypes
<1>8. ASSUME NEW t \in Thread, NEW k \in Thread, NEW pw \in 0..1, ChangeBegins(t, k, pw) PROVE Rest
  <2>1. root.sessions[k] \in User
    BY <1>8 DEF ChangeBegins, ConsoleTypes
  <2>2. [Begins(t, "change", "hashing", root.sessions[k]) EXCEPT !.given = pw, !.token = k] \in ThState
    <3>1. Begins(t, "change", "hashing", root.sessions[k]) \in ThState
      BY <2>1, BeginsType
    <3> QED BY <3>1, StateUpdates
  <2>3. th' \in [Thread -> ThState]
    BY <1>8, <2>2, <1>b DEF ChangeBegins
  <2> QED BY <1>8, <2>3 DEF ChangeBegins, ConsoleTypes
<1>9. ASSUME NEW t \in Thread, Changes(t) PROVE Rest
  <2>1. [Held(t) EXCEPT !.pw = @ + 1] \in Record
    BY <1>9, HeldRecord DEF Changes
  <2>2. th[t].ref \in DictName /\ th[t].user \in User
    BY <1>9, <1>c DEF Changes, Hashed, UnderWay, ThState
  <2> DEFINE rec == [Held(t) EXCEPT !.pw = @ + 1]
  <2>3. dicts' = [dicts EXCEPT ![th[t].ref] = [dicts[th[t].ref] EXCEPT ![th[t].user] = rec]]
    BY <1>9 DEF Changes, PutsUser
  <2> HIDE DEF rec
  <2>4. dicts' \in [DictName -> [User -> Record \cup {None}]]
    BY <2>1, <2>2, <2>3 DEF ConsoleTypes, rec
  <2>5. th' \in [Thread -> ThState]
    BY <1>9, ChangesTh
  <2> QED BY <1>9, <2>2, <2>4, <2>5 DEF Changes, ConsoleTypes
<1>10. ASSUME NEW t \in Thread, PutCopies(t) PROVE Rest
  <2>1. [Begins(t, "put", "copied", None) EXCEPT !.copy = Content] \in ThState
    <3>1. Begins(t, "put", "copied", None) \in ThState /\ Content \in Contents
      BY BeginsType, UsersType
    <3> QED BY <3>1, StateUpdates
  <2>2. th' \in [Thread -> ThState]
    BY <1>10, <2>1, <1>b DEF PutCopies
  <2> QED BY <1>10, <2>2, UsersType DEF PutCopies, ConsoleTypes
<1>11. ASSUME NEW t \in Thread, PutReplaces(t) PROVE Rest
  <2>1. th[t].copy \in Contents
    BY <1>11 DEF PutReplaces, UnderWay
  <2>2. th' \in [Thread -> ThState]
    BY <1>11, <1>b, <1>c, StateUpdates DEF PutReplaces, Saves, Stage
  <2> QED BY <1>11, <2>1, <2>2 DEF PutReplaces, ConsoleTypes, Contents
<1>12. ASSUME NEW t \in Thread, Toggle(t) PROVE Rest
  <2>1. th' \in [Thread -> ThState]
    BY <1>12, BeginsType, <1>b DEF Toggle
  <2> QED BY <1>12, <2>1 DEF Toggle, ConsoleTypes
<1>13. ASSUME NEW t \in Thread, Encode(t) PROVE Rest
  <2>1. th' \in [Thread -> ThState]
    BY <1>13, <1>b, <1>c, UsersType, StateUpdates DEF Encode
  <2> QED BY <1>13, <2>1 DEF Encode, ConsoleTypes
<1>14. ASSUME NEW t \in Thread, Replace(t) PROVE Rest
  <2>1. th[t].data \in Contents /\ th[t].late \in BOOLEAN
    BY <1>14, <1>c DEF Replace, UnderWay, ThState
  <2>2. \A k \in Thread : th'[k] \in ThState
    BY <1>14, <1>c, StateUpdates DEF Replace, Ends
  <2>3. th' \in [Thread -> ThState]
    BY <1>14, <2>2 DEF Replace
  <2> QED BY <1>14, <2>1, <2>3 DEF Replace, Unlocked, ConsoleTypes
<1>15. ASSUME NEW t \in Thread, SaveFails(t) PROVE Rest
  <2>1. th' \in [Thread -> ThState]
    BY <1>15, <1>b, <1>c, StateUpdates DEF SaveFails
  <2> QED BY <1>15, <2>1 DEF SaveFails, Unlocked, ConsoleTypes
<1>16. ASSUME Restart PROVE Rest
  <2>1. \A k \in Thread : th'[k] \in ThState
    BY <1>16, <1>c, NewState, StateUpdates DEF Restart
  <2>2. th' \in [Thread -> ThState]
    BY <1>16, <2>1 DEF Restart
  <2>3. /\ file.users \in [User -> Record \cup {None}] /\ file.option \in BOOLEAN
        /\ file.sessions \in [Thread -> User \cup {None}]
    BY DEF ConsoleTypes, Contents
  <2>4. dicts' \in [DictName -> [User -> Record \cup {None}]]
    BY <1>16, <2>3 DEF Restart, ConsoleTypes
  <2>5. root' \in [users : DictName, sessions : [Thread -> User \cup {None}], option : BOOLEAN]
    BY <1>16, <2>3 DEF Restart
  <2>6. /\ restarts' \in Nat /\ overtaken' \in BOOLEAN /\ lock' \in Thread \cup {None}
        /\ file' \in Contents
    <3>1. restarts' = restarts + 1 /\ overtaken' = FALSE /\ lock' = None /\ file' = file
      BY <1>16 DEF Restart
    <3>2. restarts \in Nat /\ file \in Contents
      BY DEF ConsoleTypes
    <3>3. restarts' \in Nat
      BY <3>1, <3>2
    <3>4. overtaken' \in BOOLEAN /\ lock' \in Thread \cup {None}
      BY <3>1
    <3>5. file' \in Contents
      BY <3>1, <3>2
    <3> QED BY <3>3, <3>4, <3>5
  <2> QED BY <2>2, <2>4, <2>5, <2>6
<1> QED
  BY <1>a, <1>1, <1>2, <1>3, <1>4, <1>5, <1>6, <1>7, <1>8, <1>9, <1>10, <1>11, <1>12, <1>13,
     <1>14, <1>15, <1>16, <1>17, <1>18, <1>19
  DEF Next, Step, ConsoleTypes

-----------------------------------------------------------------------------
(* The actions, field by field: a request begins, or goes on.              *)
Only(t) == \A k \in Thread \ {t} : th'[k] = th[k]

Same(s, r) ==
    /\ s.op = r.op /\ s.user = r.user /\ s.ref = r.ref /\ s.rec = r.rec /\ s.token = r.token

Begun(t, op, at, u) ==
    /\ th[t].at = "new"
    /\ th'[t].at = at /\ th'[t].op = op /\ th'[t].user = u /\ th'[t].ref = root.users
    /\ u \in User => th'[t].rec = Users[u]
    /\ Only(t)

Went(t, at) == th'[t].at = at /\ Same(th'[t], th[t]) /\ Only(t)

LEMMA LoginBeginsDoes ==
    ASSUME ConsoleTypes, NEW t \in Thread, NEW u \in User, NEW pw \in 0..1, LoginBegins(t, u, pw)
    PROVE  Begun(t, "login", "hashing", u)
<1> DEFINE s == Begins(t, "login", "hashing", u)
<1>1. /\ s \in ThState /\ s.at = "hashing" /\ s.op = "login" /\ s.user = u
      /\ s.ref = root.users /\ s.rec = Users[u]
  BY BeginsType
<1> HIDE DEF s
<1>2. th'[t] = [s EXCEPT !.given = pw] /\ Only(t)
  BY GoesTo DEF LoginBegins, s, Only
<1>3. Same(s, th'[t]) /\ th'[t].at = s.at
  BY <1>1, <1>2 DEF ThState, Same
<1> QED BY <1>1, <1>2, <1>3 DEF Begun, Same, LoginBegins

LEMMA LogoutDoes ==
    ASSUME ConsoleTypes, NEW t \in Thread, NEW k \in Thread, Logout(t, k)
    PROVE  Begun(t, "logout", "withdrawing", None)
<1> DEFINE s == Begins(t, "logout", "withdrawing", None)
<1>1. /\ s \in ThState /\ s.at = "withdrawing" /\ s.op = "logout" /\ s.user = None
      /\ s.ref = root.users
  BY BeginsType
<1> HIDE DEF s
<1>2. th'[t] = [s EXCEPT !.token = k] /\ Only(t)
  BY GoesTo DEF Logout, s, Only
<1>3. th'[t].at = s.at /\ th'[t].op = s.op /\ th'[t].user = s.user /\ th'[t].ref = s.ref
  BY <1>1, <1>2 DEF ThState, Same
<1> QED BY <1>1, <1>2, <1>3, ConsoleAssumption DEF Begun, Logout

LEMMA RegisterBeginsDoes ==
    ASSUME ConsoleTypes, NEW t \in Thread, NEW u \in User, RegisterBegins(t, u)
    PROVE  Begun(t, "register", "hashing", u)
<1>1. th'[t] = Begins(t, "register", "hashing", u) /\ Only(t)
  BY GoesTo DEF RegisterBegins, Only
<1> QED BY <1>1, BeginsType DEF Begun, RegisterBegins

LEMMA DeleteBeginsDoes ==
    ASSUME ConsoleTypes, NEW t \in Thread, NEW u \in User, DeleteBegins(t, u)
    PROVE  Begun(t, "delete", "found", u)
<1>1. th'[t] = Begins(t, "delete", "found", u) /\ Only(t)
  BY GoesTo DEF DeleteBegins, Only
<1> QED BY <1>1, BeginsType DEF Begun, DeleteBegins

LEMMA ChangeBeginsDoes ==
    ASSUME ConsoleTypes, NEW t \in Thread, NEW k \in Thread, NEW pw \in 0..1, ChangeBegins(t, k, pw)
    PROVE  /\ root.sessions[k] \in User
           /\ Begun(t, "change", "hashing", root.sessions[k])
           /\ th'[t].token = k
<1> DEFINE u == root.sessions[k]
           s == Begins(t, "change", "hashing", u)
<1>0. u \in User
  BY DEF ConsoleTypes, ChangeBegins
<1> HIDE DEF u
<1>1. /\ s \in ThState /\ s.at = "hashing" /\ s.op = "change" /\ s.user = u
      /\ s.ref = root.users /\ s.rec = Users[u]
  BY <1>0, BeginsType
<1> HIDE DEF s
<1>2. th'[t] = [s EXCEPT !.given = pw, !.token = k] /\ Only(t)
  BY GoesTo DEF ChangeBegins, s, u, Only
<1>3. /\ th'[t].at = s.at /\ th'[t].op = s.op /\ th'[t].user = s.user /\ th'[t].ref = s.ref
      /\ th'[t].rec = s.rec /\ th'[t].token = k
  BY <1>1, <1>2 DEF ThState, Same
<1> QED BY <1>0, <1>1, <1>2, <1>3 DEF Begun, ChangeBegins, u

LEMMA PutCopiesDoes ==
    ASSUME ConsoleTypes, NEW t \in Thread, PutCopies(t)
    PROVE  Begun(t, "put", "copied", None) /\ th'[t].copy = Content
<1> DEFINE s == Begins(t, "put", "copied", None)
<1>1. /\ s \in ThState /\ s.at = "copied" /\ s.op = "put" /\ s.user = None
      /\ s.ref = root.users
  BY BeginsType
<1> HIDE DEF s
<1>2. th'[t] = [s EXCEPT !.copy = Content] /\ Only(t)
  BY GoesTo DEF PutCopies, s, Only
<1>3. Same(s, th'[t]) /\ th'[t].at = s.at /\ th'[t].copy = Content
  BY <1>1, <1>2 DEF ThState, Same
<1> QED BY <1>1, <1>2, <1>3, ConsoleAssumption DEF Begun, PutCopies, Same

LEMMA ToggleDoes ==
    ASSUME ConsoleTypes, NEW t \in Thread, Toggle(t)
    PROVE  Begun(t, "toggle", "changed", None)
<1>1. th'[t] = Begins(t, "toggle", "changed", None) /\ Only(t)
  BY GoesTo DEF Toggle, Only
<1> QED BY <1>1, BeginsType, ConsoleAssumption DEF Begun, Toggle

LEMMA SavesDoes ==
    ASSUME ConsoleTypes, NEW t \in Thread, Goes(t, Saves(t))
    PROVE  Went(t, "changed")
<1>1. th'[t] = [th[t] EXCEPT !.at = "changed"] /\ Only(t)
  BY GoesTo DEF Saves, Only
<1> QED BY <1>1, ThType DEF Went, Same, ThState

LEMMA DeletesDoes ==
    ASSUME ConsoleTypes, NEW t \in Thread
    PROVE  /\ Deletes(t) => Went(t, "withdrawing")
           /\ DeleteMisses(t) => Went(t, "done")
<1>1. ASSUME Deletes(t) PROVE Went(t, "withdrawing")
  <2>1. th'[t] = [th[t] EXCEPT !.at = "withdrawing"] /\ Only(t)
    BY <1>1, GoesTo DEF Deletes, Only
  <2> QED BY <2>1, ThType DEF Went, Same, ThState
<1>2. ASSUME DeleteMisses(t) PROVE Went(t, "done")
  <2>1. th'[t] = [th[t] EXCEPT !.at = "done"] /\ Only(t)
    BY <1>2, GoesTo DEF DeleteMisses, Ends, Only
  <2> QED BY <2>1, ThType DEF Went, Same, ThState
<1> QED BY <1>1, <1>2

LEMMA ListsDoes ==
    ASSUME ConsoleTypes, NEW t \in Thread, ListsSessions(t)
    PROVE  Went(t, "listed") /\ th'[t].list = Remaining(t)
<1> DEFINE l == Remaining(t)
<1>1. th'[t] = [th[t] EXCEPT !.at = "listed", !.list = l] /\ Only(t)
  BY GoesTo DEF ListsSessions, Only
<1> HIDE DEF l
<1>2. Went(t, "listed") /\ th'[t].list = l
  BY <1>1, ThType DEF Went, Same, ThState
<1> QED BY <1>2 DEF l

LEMMA PutsDoes ==
    ASSUME ConsoleTypes, NEW t \in Thread, PutsSessions(t)
    PROVE  Went(t, "changed") /\ root'.sessions = th[t].list /\ root'.users = root.users
<1>1. th'[t] = [th[t] EXCEPT !.at = "changed", !.list = None] /\ Only(t)
  BY GoesTo DEF PutsSessions, Only
<1>2. Went(t, "changed")
  BY <1>1, ThType DEF Went, Same, ThState
<1> QED BY <1>2 DEF PutsSessions, ConsoleTypes

LEMMA EncodeDoes ==
    ASSUME ConsoleTypes, NEW t \in Thread, Encode(t)
    PROVE  Went(t, "encoded") /\ th'[t].data = Content
<1>1. th'[t] = [th[t] EXCEPT !.at = "encoded", !.data = Content] /\ Only(t)
  BY GoesTo DEF Encode, Only
<1> QED BY <1>1, ThType DEF Went, Same, ThState

LEMMA SaveFailsDoes ==
    ASSUME ConsoleTypes, NEW t \in Thread, SaveFails(t)
    PROVE  Went(t, "failed")
<1>1. th'[t] = [th[t] EXCEPT !.at = "failed", !.data = None, !.copy = None] /\ Only(t)
  BY GoesTo DEF SaveFails, Only
<1> QED BY <1>1, ThType DEF Went, Same, ThState

LEMMA ReplaceDoes ==
    ASSUME ConsoleTypes, NEW t \in Thread, Replace(t)
    PROVE  /\ th'[t].at = "done" /\ Same(th'[t], th[t])
           /\ \A k \in Thread \ {t} :
                /\ th'[k].at = th[k].at /\ Same(th'[k], th[k])
                /\ th'[k].copy = th[k].copy /\ th'[k].data = th[k].data
                /\ th'[k].list = th[k].list
                /\ th[k].at = "encoded" => th'[k].late
<1>0. \A k \in Thread : th[k] \in ThState
  BY ThType
<1>1. th'[t] = [[th[t] EXCEPT !.at = "done"] EXCEPT !.data = None, !.copy = None]
  BY DEF Replace, Ends
<1>2. th'[t] = [th[t] EXCEPT !.at = "done", !.data = None, !.copy = None]
  BY <1>0, <1>1 DEF ThState
<1>3. th'[t].at = "done" /\ Same(th'[t], th[t])
  BY <1>0, <1>2 DEF ThState, Same
<1>4. ASSUME NEW k \in Thread \ {t}
      PROVE  th'[k] = IF th[k].at = "encoded" THEN [th[k] EXCEPT !.late = TRUE] ELSE th[k]
  BY DEF Replace
<1>5. ASSUME NEW k \in Thread \ {t}
      PROVE  /\ th'[k].at = th[k].at /\ Same(th'[k], th[k])
             /\ th'[k].copy = th[k].copy /\ th'[k].data = th[k].data
             /\ th'[k].list = th[k].list
             /\ th[k].at = "encoded" => th'[k].late
  BY <1>0, <1>4 DEF ThState, Same
<1> QED BY <1>3, <1>5

LEMMA RestartDoes ==
    ASSUME ConsoleTypes, Restart, NEW t \in Thread
    PROVE  /\ th[t].at = "new" => th'[t] = New /\ th'[t].at = "new" /\ th'[t].ref = Main
           /\ th[t].at # "new" => th'[t].at = "done" /\ Same(th'[t], th[t])
<1>1. th[t].at = "new" => th'[t] = New
  BY DEF Restart
<1>2. th[t].at # "new" =>
        th'[t] = [th[t] EXCEPT !.at = "done", !.list = None, !.data = None, !.copy = None]
  BY DEF Restart
<1>3. th[t].at # "new" => th'[t].at = "done" /\ Same(th'[t], th[t])
  BY <1>2, ThType DEF ThState, Same
<1>4. New.at = "new" /\ New.ref = Main
  BY DEF New
<1> QED BY <1>1, <1>3, <1>4

LEMMA ChangesDoes ==
    ASSUME ConsoleTypes, NEW t \in Thread, UnderWay(t), Changes(t)
    PROVE  /\ th[t].token \in Thread \ {t}
           /\ th'[t].at = "withdrawing" /\ Same(th'[t], th[t])
           /\ LET k == th[t].token IN
                /\ th'[k].at = th[k].at /\ th'[k].op = th[k].op /\ th'[k].user = th[k].user
                /\ th'[k].ref = th[k].ref /\ th'[k].token = th[k].token
                /\ th'[k].copy = th[k].copy /\ th'[k].data = th[k].data
                /\ th'[k].late = th[k].late /\ th'[k].list = th[k].list
                /\ th'[k].rec = [Held(t) EXCEPT !.pw = @ + 1]
           /\ \A u \in Thread \ {t, th[t].token} : th'[u] = th[u]
<1>1. th[t].token \in Thread \ {t}
  BY TokenOther DEF Changes
<1>2. th'[t].at = "withdrawing" /\ Same(th'[t], th[t])
  <2>1. th'[t] = [th[t] EXCEPT !.at = "withdrawing"] /\ th[t] \in ThState
    BY ChangesTh, ThType
  <2> QED BY <2>1 DEF ThState, Same
<1> DEFINE r == [Held(t) EXCEPT !.pw = @ + 1]
<1>3. th'[th[t].token] = [th[th[t].token] EXCEPT !.rec = r]
  BY ChangesTh
<1> HIDE DEF r
<1>4. th[th[t].token] \in ThState
  BY <1>1, ThType
<1>5. LET k == th[t].token IN
        /\ th'[k].at = th[k].at /\ th'[k].op = th[k].op /\ th'[k].user = th[k].user
        /\ th'[k].ref = th[k].ref /\ th'[k].token = th[k].token
        /\ th'[k].copy = th[k].copy /\ th'[k].data = th[k].data
        /\ th'[k].late = th[k].late /\ th'[k].list = th[k].list
        /\ th'[k].rec = r
  BY <1>3, <1>4 DEF ThState
<1> QED BY <1>1, <1>2, <1>5, ChangesTh DEF r

LEMMA ChangesFields ==
    ASSUME ConsoleTypes, NEW t \in Thread, UnderWay(t), Changes(t)
    PROVE  /\ th'[t].at = "withdrawing"
           /\ \A k \in Thread :
                /\ th'[k].op = th[k].op /\ th'[k].user = th[k].user /\ th'[k].ref = th[k].ref
                /\ th'[k].token = th[k].token
           /\ \A k \in Thread \ {t} :
                /\ th'[k].at = th[k].at /\ th'[k].copy = th[k].copy /\ th'[k].data = th[k].data
                /\ th'[k].late = th[k].late /\ th'[k].list = th[k].list
                /\ k # th[t].token => th'[k].rec = th[k].rec
           /\ th'[t].rec = th[t].rec
<1> DEFINE j == th[t].token
<1>1. /\ j \in Thread \ {t}
      /\ th'[t].at = "withdrawing" /\ Same(th'[t], th[t])
      /\ th'[j].at = th[j].at /\ th'[j].op = th[j].op /\ th'[j].user = th[j].user
      /\ th'[j].ref = th[j].ref /\ th'[j].token = th[j].token
      /\ th'[j].copy = th[j].copy /\ th'[j].data = th[j].data /\ th'[j].late = th[j].late
      /\ th'[j].list = th[j].list
      /\ \A u \in Thread \ {t, j} : th'[u] = th[u]
  BY ChangesDoes
<1> HIDE DEF j
<1> QED BY <1>1 DEF Same, j

-----------------------------------------------------------------------------
(* All of a step that the rest of the invariant is about.                  *)
LEMMA LockStep == ConsoleInv /\ [Next]_vars => LockHeld'
<1> SUFFICES ASSUME ConsoleInv, Next PROVE LockHeld'
  BY DEF ConsoleInv, LockHeld, vars
<1>0. ConsoleTypes /\ LockHeld /\ \A t \in Thread : UnderWay(t)
  BY DEF ConsoleInv
<1> USE <1>0, MainName
<1>1. ASSUME NEW t \in Thread, NEW u, NEW op \in {"register", "delete", "change", "put", "toggle"},
             NEW at, Begun(t, op, at, u), lock' = lock
      PROVE  LockHeld'
  BY <1>1 DEF Begun, Only, LockHeld
<1>2. ASSUME NEW t \in Thread, NEW u, NEW op \in {"login", "logout"},
             NEW at \in {"hashing", "withdrawing"}, Begun(t, op, at, u), lock = None, lock' = t
      PROVE  LockHeld'
  BY <1>2 DEF Begun, Only, LockHeld
<1>3. ASSUME NEW t \in Thread, NEW at \in {"withdrawing", "listed", "changed", "encoded", "done"},
             Went(t, at), lock' = lock,
             \/ th[t].at \in {"hashing", "withdrawing", "listed", "changed"} /\ at # "done"
             \/ th[t].op \in {"put", "delete"}
      PROVE  LockHeld'
  BY <1>3 DEF Went, Only, LockHeld, Same
<1>4. ASSUME NEW t \in Thread, NEW u \in User, NEW pw \in 0..1, LoginBegins(t, u, pw) PROVE LockHeld'
  BY <1>4, <1>2, LoginBeginsDoes DEF LoginBegins
<1>5. ASSUME NEW t \in Thread, NEW k \in Thread, Logout(t, k) PROVE LockHeld'
  BY <1>5, <1>2, LogoutDoes DEF Logout
<1>6. ASSUME NEW t \in Thread, NEW u \in User, RegisterBegins(t, u) PROVE LockHeld'
  BY <1>6, <1>1, RegisterBeginsDoes DEF RegisterBegins
<1>7. ASSUME NEW t \in Thread, NEW u \in User, DeleteBegins(t, u) PROVE LockHeld'
  BY <1>7, <1>1, DeleteBeginsDoes DEF DeleteBegins
<1>8. ASSUME NEW t \in Thread, NEW k \in Thread, NEW pw \in 0..1, ChangeBegins(t, k, pw) PROVE LockHeld'
  <2>1. \E u \in User : Begun(t, "change", "hashing", u)
    BY <1>8, ChangeBeginsDoes
  <2> QED BY <1>8, <1>1, <2>1 DEF ChangeBegins
<1>9. ASSUME NEW t \in Thread, PutCopies(t) PROVE LockHeld'
  BY <1>9, <1>1, PutCopiesDoes DEF PutCopies
<1>10. ASSUME NEW t \in Thread, Toggle(t) PROVE LockHeld'
  BY <1>10, <1>1, ToggleDoes DEF Toggle
<1>11. ASSUME NEW t \in Thread, LoginRefused(t) \/ Registers(t) \/ PutReplaces(t)
       PROVE  LockHeld'
  <2>1. Went(t, "changed")
    BY <1>11, SavesDoes DEF LoginRefused, Registers, PutReplaces
  <2>2. lock' = lock /\ (th[t].at = "hashing" \/ th[t].op = "put")
    BY <1>11 DEF LoginRefused, Registers, PutReplaces, Hashed, UnderWay
  <2> QED BY <1>3, <2>1, <2>2
<1>17. ASSUME NEW t \in Thread, Deletes(t) \/ DeleteMisses(t) PROVE LockHeld'
  <2>1. lock' = lock /\ th[t].op = "delete" /\ (Went(t, "withdrawing") \/ Went(t, "done"))
    BY <1>17, DeletesDoes DEF Deletes, DeleteMisses, UnderWay
  <2> QED BY <1>3, <2>1
<1>18. ASSUME NEW t \in Thread, ListsSessions(t) PROVE LockHeld'
  <2>1. lock' = lock /\ Went(t, "listed") /\ th[t].at \in {"hashing", "withdrawing"}
    BY <1>18, ListsDoes DEF ListsSessions, Hashed
  <2> QED BY <1>3, <2>1
<1>19. ASSUME NEW t \in Thread, PutsSessions(t) PROVE LockHeld'
  <2>1. lock' = lock /\ Went(t, "changed") /\ th[t].at = "listed"
    BY <1>19, PutsDoes DEF PutsSessions
  <2> QED BY <1>3, <2>1
<1>12. ASSUME NEW t \in Thread, Changes(t) PROVE LockHeld'
  <2>1. lock' = lock /\ th[t].at = "hashing" /\ th[t].op = "change"
    BY <1>12 DEF Changes, Hashed
  <2> QED BY <1>12, <2>1, ChangesFields DEF LockHeld
<1>13. ASSUME NEW t \in Thread, Encode(t) PROVE LockHeld'
  BY <1>13, <1>3, EncodeDoes DEF Encode
<1>14. ASSUME NEW t \in Thread, Replace(t) PROVE LockHeld'
  <2>1. th[t].at = "encoded" /\ lock' = IF lock = t THEN None ELSE lock
    BY <1>14 DEF Replace, Unlocked
  <2> QED BY <1>14, <2>1, ReplaceDoes DEF LockHeld, Same
<1>15. ASSUME NEW t \in Thread, SaveFails(t) PROVE LockHeld'
  <2>1. th[t].at \in {"changed", "encoded"} /\ lock' = IF lock = t THEN None ELSE lock
    BY <1>15 DEF SaveFails, Unlocked
  <2> QED BY <1>15, <2>1, SaveFailsDoes DEF LockHeld, Same, Went, Only
<1>16. ASSUME Restart PROVE LockHeld'
  <2>1. lock' = None /\ \A t \in Thread : th'[t].at \in {"new", "done"}
    BY <1>16, RestartDoes DEF Restart
  <2> QED BY <2>1 DEF LockHeld
<1> QED
  BY <1>4, <1>5, <1>6, <1>7, <1>8, <1>9, <1>10, <1>11, <1>12, <1>13, <1>14, <1>15, <1>16, <1>17,
     <1>18, <1>19
  DEF Next, Step

LEMMA OwnStep == ConsoleInv /\ [Next]_vars => CopyIsOwn'
<1> SUFFICES ASSUME ConsoleInv, Next PROVE CopyIsOwn'
  BY DEF ConsoleInv, CopyIsOwn, vars
<1>0. ConsoleTypes /\ CopyIsOwn /\ \A t \in Thread : UnderWay(t)
  BY DEF ConsoleInv
<1> USE <1>0, MainName
<1>1. ASSUME NEW t \in Thread, NEW u, NEW op, NEW at, Begun(t, op, at, u), root'.users = root.users
      PROVE  CopyIsOwn'
  BY <1>1 DEF Begun, Only, CopyIsOwn
<1>2. ASSUME NEW t \in Thread, NEW at \in Stage \ {"new", "copied"}, Went(t, at),
             root'.users \in {root.users, t, th[t].ref}
      PROVE  CopyIsOwn'
  BY <1>2 DEF Went, Only, CopyIsOwn, Same
<1>4. ASSUME NEW t \in Thread, NEW u \in User, NEW pw \in 0..1, LoginBegins(t, u, pw) PROVE CopyIsOwn'
  BY <1>4, <1>1, LoginBeginsDoes DEF LoginBegins
<1>5. ASSUME NEW t \in Thread, NEW k \in Thread, Logout(t, k) PROVE CopyIsOwn'
  BY <1>5, <1>1, LogoutDoes DEF Logout
<1>6. ASSUME NEW t \in Thread, NEW u \in User, RegisterBegins(t, u) PROVE CopyIsOwn'
  BY <1>6, <1>1, RegisterBeginsDoes DEF RegisterBegins
<1>7. ASSUME NEW t \in Thread, NEW u \in User, DeleteBegins(t, u) PROVE CopyIsOwn'
  BY <1>7, <1>1, DeleteBeginsDoes DEF DeleteBegins
<1>8. ASSUME NEW t \in Thread, NEW k \in Thread, NEW pw \in 0..1, ChangeBegins(t, k, pw) PROVE CopyIsOwn'
  <2>1. \E u \in User : Begun(t, "change", "hashing", u)
    BY <1>8, ChangeBeginsDoes
  <2> QED BY <1>8, <1>1, <2>1 DEF ChangeBegins
<1>9. ASSUME NEW t \in Thread, PutCopies(t) PROVE CopyIsOwn'
  BY <1>9, <1>1, PutCopiesDoes DEF PutCopies
<1>10. ASSUME NEW t \in Thread, Toggle(t) PROVE CopyIsOwn'
  <2>1. root'.users = root.users
    BY <1>10 DEF Toggle, ConsoleTypes
  <2> QED BY <1>10, <1>1, <2>1, ToggleDoes
<1>11. ASSUME NEW t \in Thread, LoginRefused(t) \/ Registers(t) \/ PutReplaces(t)
       PROVE  CopyIsOwn'
  <2>1. Went(t, "changed")
    BY <1>11, SavesDoes DEF LoginRefused, Registers, PutReplaces
  <2>2. root'.users \in {root.users, t, th[t].ref}
    BY <1>11 DEF LoginRefused, Registers, PutReplaces, ConsoleTypes
  <2> QED BY <1>2, <2>1, <2>2 DEF Stage
<1>17. ASSUME NEW t \in Thread, Deletes(t) \/ DeleteMisses(t) PROVE CopyIsOwn'
  <2>1. Went(t, "withdrawing") \/ Went(t, "done")
    BY <1>17, DeletesDoes
  <2>2. root'.users \in {root.users, th[t].ref}
    BY <1>17 DEF Deletes, DeleteMisses, ConsoleTypes
  <2> QED BY <1>2, <2>1, <2>2 DEF Stage
<1>18. ASSUME NEW t \in Thread, ListsSessions(t) PROVE CopyIsOwn'
  <2>1. Went(t, "listed") /\ root' = root
    BY <1>18, ListsDoes DEF ListsSessions
  <2> QED BY <1>2, <2>1 DEF Stage
<1>19. ASSUME NEW t \in Thread, PutsSessions(t) PROVE CopyIsOwn'
  <2>1. Went(t, "changed") /\ root'.users = root.users
    BY <1>19, PutsDoes
  <2> QED BY <1>2, <2>1 DEF Stage
<1>12. ASSUME NEW t \in Thread, Changes(t) PROVE CopyIsOwn'
  <2>1. root'.users = th[t].ref
    BY <1>12 DEF Changes, ConsoleTypes
  <2> QED BY <1>12, <2>1, ChangesFields DEF CopyIsOwn
<1>13. ASSUME NEW t \in Thread, Encode(t) PROVE CopyIsOwn'
  BY <1>13, <1>2, EncodeDoes DEF Encode, Stage
<1>14. ASSUME NEW t \in Thread, Replace(t) PROVE CopyIsOwn'
  <2>1. root' = root
    BY <1>14 DEF Replace
  <2> QED BY <1>14, <2>1, ReplaceDoes DEF CopyIsOwn, Same
<1>15. ASSUME NEW t \in Thread, SaveFails(t) PROVE CopyIsOwn'
  BY <1>15, <1>2, SaveFailsDoes DEF SaveFails, Stage
<1>16. ASSUME Restart PROVE CopyIsOwn'
  <2>1. root'.users = Main
    BY <1>16 DEF Restart
  <2> QED BY <1>16, <2>1, RestartDoes DEF CopyIsOwn, Same
<1> QED
  BY <1>4, <1>5, <1>6, <1>7, <1>8, <1>9, <1>10, <1>11, <1>12, <1>13, <1>14, <1>15, <1>16, <1>17,
     <1>18, <1>19
  DEF Next, Step

-----------------------------------------------------------------------------
(* A dict of users changes when it is made, or is the one in place then.   *)
LEMMA DictStep ==
    ASSUME ConsoleInv, NEW t \in Thread, Step(t), NEW d \in DictName
    PROVE  \/ dicts'[d] = dicts[d]
           \/ d = t /\ th[t].at = "new"
           \/ d = root'.users
<1>0. ConsoleTypes /\ \A k \in Thread : UnderWay(k)
  BY DEF ConsoleInv
<1>1. ASSUME NEW rec, PutsUser(t, rec), root'.users = th[t].ref
      PROVE  dicts'[d] = dicts[d] \/ d = root'.users
  BY <1>0, <1>1 DEF PutsUser, Users, ConsoleTypes
<1>2. CASE Registers(t)
  <2>1. root'.users = th[t].ref
    BY <1>0, <1>2 DEF Registers, ConsoleTypes
  <2> QED BY <1>1, <1>2, <2>1 DEF Registers
<1>3. CASE Changes(t)
  <2>1. root'.users = th[t].ref
    BY <1>0, <1>3 DEF Changes, ConsoleTypes
  <2> DEFINE rec == [Held(t) EXCEPT !.pw = @ + 1]
  <2>2. PutsUser(t, rec)
    BY <1>3 DEF Changes
  <2> HIDE DEF rec
  <2> QED BY <1>0, <2>1, <2>2 DEF PutsUser, Users, ConsoleTypes
<1>4. CASE Deletes(t)
  <2>1. root'.users = th[t].ref
    BY <1>0, <1>4 DEF Deletes, ConsoleTypes
  <2> QED BY <1>1, <1>4, <2>1 DEF Deletes
<1>5. CASE PutCopies(t)
  BY <1>0, <1>5 DEF PutCopies, ConsoleTypes
<1> QED BY <1>2, <1>3, <1>4, <1>5
  DEF Step, LoginBegins, LoginRefused, RegisterBegins, Logout, ChangeBegins, DeleteBegins,
      DeleteMisses, ListsSessions, PutsSessions, PutReplaces, Toggle, Encode, Replace, SaveFails

(* A thread that is hashing or has a copy after a step was so before, or   *)
(* has just begun; the others move on.                                     *)
LEMMA Stays ==
    ASSUME ConsoleInv, NEW t \in Thread, Step(t), NEW k \in Thread
    PROVE  /\ th'[k].at \in {"hashing", "found", "copied"} =>
                \/ /\ k # t /\ th'[k].at = th[k].at /\ th'[k].op = th[k].op /\ th'[k].user = th[k].user
                   /\ th'[k].ref = th[k].ref /\ th'[k].copy = th[k].copy /\ th'[k].token = th[k].token
                   /\ th'[k].rec = th[k].rec
                \/ /\ k = t /\ th[k].at = "new" /\ th'[k].ref = root.users /\ root' = root
                   /\ file' = file
           /\ th'[k].at = "copied" /\ k = t => PutCopies(t)
           /\ th'[k].at = "hashing" /\ k = t =>
                /\ dicts' = dicts
                /\ \/ \E u \in User : Begun(t, "login", "hashing", u)
                   \/ \E u \in User : RegisterBegins(t, u)
                   \/ \E j \in Thread, pw \in 0..1 : ChangeBegins(t, j, pw)
           /\ th'[k].at = "found" /\ k = t => \E u \in User : DeleteBegins(t, u)
           /\ th[k].at # "new" => th'[k].at # "new" /\ th'[k].op = th[k].op /\ th'[k].user = th[k].user
           /\ th[k].at \notin {"new", "hashing"} => th'[k].at # "hashing"
           /\ th[k].at # "new" /\ th[k].rec # None => th'[k].rec # None
<1>0. ConsoleTypes /\ \A j \in Thread : UnderWay(j)
  BY DEF ConsoleInv
<1> USE <1>0 DEF Begun, Only, Went, Same
<1>2. CASE \E u \in User, pw \in 0..1 : LoginBegins(t, u, pw)
  BY <1>2, LoginBeginsDoes DEF LoginBegins
<1>3. CASE \E u \in User : RegisterBegins(t, u)
  BY <1>3, RegisterBeginsDoes DEF RegisterBegins
<1>4. CASE \E j \in Thread, pw \in 0..1 : ChangeBegins(t, j, pw)
  <2>1. \E u \in User : Begun(t, "change", "hashing", u)
    BY <1>4, ChangeBeginsDoes
  <2>2. dicts' = dicts /\ root' = root /\ file' = file
    BY <1>4 DEF ChangeBegins
  <2> QED BY <1>4, <2>1, <2>2
<1>5. CASE \E u \in User : DeleteBegins(t, u)
  BY <1>5, DeleteBeginsDoes DEF DeleteBegins
<1>6. CASE \E j \in Thread : Logout(t, j)
  BY <1>6, LogoutDoes
<1>7. CASE PutCopies(t)
  BY <1>7, PutCopiesDoes DEF PutCopies
<1>8. CASE Toggle(t)
  BY <1>8, ToggleDoes
<1>9. CASE \/ LoginRefused(t) \/ Registers(t) \/ PutReplaces(t)
           \/ Deletes(t) \/ DeleteMisses(t) \/ ListsSessions(t) \/ PutsSessions(t)
  <2>1. \E at \in {"changed", "withdrawing", "done", "listed"} : Went(t, at)
    BY <1>9, SavesDoes, DeletesDoes, ListsDoes, PutsDoes
    DEF LoginRefused, Registers, PutReplaces
  <2> QED BY <2>1
<1>10. CASE Changes(t)
  <2>1. [Held(t) EXCEPT !.pw = @ + 1] # None
    BY <1>10, HeldRecord, ConsoleAssumption DEF Changes
  <2>2. th[th[t].token].at \notin {"new", "hashing", "found", "copied"}
    BY <1>10 DEF UnderWay, Changes, Hashed
  <2>3. th'[th[t].token].rec = [Held(t) EXCEPT !.pw = @ + 1]
    BY <1>10, ChangesDoes
  <2> DEFINE r == [Held(t) EXCEPT !.pw = @ + 1]
  <2> HIDE DEF r
  <2>4. r # None /\ th'[th[t].token].rec = r
    BY <2>1, <2>3 DEF r
  <2> QED BY <1>10, <2>2, <2>4, ChangesFields
<1>11. CASE Encode(t)
  BY <1>11, EncodeDoes DEF Encode
<1>12. CASE Replace(t)
  <2>1. th[t].at = "encoded" /\ th'[t].at = "done" /\ Same(th'[t], th[t])
    BY <1>12, ReplaceDoes DEF Replace
  <2>2. CASE k = t
    BY <2>1, <2>2
  <2>3. CASE k # t
    <3>1. th'[k].at = th[k].at /\ Same(th'[k], th[k]) /\ th'[k].copy = th[k].copy
      BY <1>12, <2>3, ReplaceDoes
    <3> QED BY <2>3, <3>1
  <2> QED BY <2>2, <2>3
<1>13. CASE SaveFails(t)
  BY <1>13, SaveFailsDoes
<1> QED BY <1>2, <1>3, <1>4, <1>5, <1>6, <1>7, <1>8, <1>9, <1>10, <1>11, <1>12, <1>13 DEF Step

(* What is encoded was so, or is what is in memory now.                    *)
LEMMA Encoded ==
    ASSUME ConsoleInv, NEW t \in Thread, Step(t), NEW k \in Thread, th'[k].at = "encoded"
    PROVE  \/ /\ k # t /\ th[k].at = "encoded" /\ th'[k].data = th[k].data
              /\ th[k].late => th'[k].late
           \/ k = t /\ Encode(t) /\ th'[k].data = Content
<1>0. ConsoleTypes /\ \A j \in Thread : UnderWay(j)
  BY DEF ConsoleInv
<1> USE <1>0
<1>1. CASE \/ \E u \in User, pw \in 0..1 : LoginBegins(t, u, pw)
           \/ \E u \in User : RegisterBegins(t, u)
           \/ \E u \in User : DeleteBegins(t, u)
           \/ \E j \in Thread : Logout(t, j)
           \/ \E j \in Thread, pw \in 0..1 : ChangeBegins(t, j, pw)
           \/ PutCopies(t) \/ Toggle(t)
  <2>1. th'[t].at \in {"hashing", "found", "withdrawing", "changed", "copied"} /\ Only(t)
    BY <1>1, LoginBeginsDoes, RegisterBeginsDoes, DeleteBeginsDoes, LogoutDoes, ChangeBeginsDoes,
       PutCopiesDoes, ToggleDoes DEF Begun
  <2> QED BY <2>1 DEF Only
<1>2. CASE \/ LoginRefused(t) \/ Registers(t) \/ PutReplaces(t)
           \/ Deletes(t) \/ DeleteMisses(t) \/ ListsSessions(t) \/ PutsSessions(t)
  <2>1. \E at \in {"changed", "withdrawing", "done", "listed"} : Went(t, at)
    BY <1>2, SavesDoes, DeletesDoes, ListsDoes, PutsDoes
    DEF LoginRefused, Registers, PutReplaces
  <2> QED BY <2>1 DEF Went, Only
<1>3. CASE Changes(t)
  BY <1>3, ChangesFields
<1>4. CASE Encode(t)
  BY <1>4, EncodeDoes DEF Went, Only
<1>5. CASE Replace(t)
  BY <1>5, ReplaceDoes
<1>6. CASE SaveFails(t)
  BY <1>6, SaveFailsDoes DEF Went, Only
<1> QED BY <1>1, <1>2, <1>3, <1>4, <1>5, <1>6 DEF Step

(* What is listed was so, or is what remains of the sessions of now.       *)
LEMMA Withdraws ==
    ASSUME ConsoleInv, NEW t \in Thread, Step(t), NEW k \in Thread,
           th'[k].at \in {"withdrawing", "listed"}
    PROVE  \/ /\ k # t /\ th'[k].at = th[k].at /\ th'[k].op = th[k].op
              /\ th'[k].user = th[k].user /\ th'[k].token = th[k].token
              /\ th'[k].list = th[k].list
           \/ k = t /\ th'[k].at = "withdrawing" /\ th'[k].op \in {"logout", "delete", "change"}
           \/ /\ k = t /\ ListsSessions(t) /\ Went(t, "listed")
              /\ th'[k].list = Remaining(t)
<1>0. ConsoleTypes /\ \A j \in Thread : UnderWay(j)
  BY DEF ConsoleInv
<1> USE <1>0
<1>1. CASE \/ \E u \in User, pw \in 0..1 : LoginBegins(t, u, pw)
           \/ \E u \in User : RegisterBegins(t, u)
           \/ \E u \in User : DeleteBegins(t, u)
           \/ \E j \in Thread, pw \in 0..1 : ChangeBegins(t, j, pw)
           \/ PutCopies(t) \/ Toggle(t)
  <2>1. th'[t].at \in {"hashing", "found", "changed", "copied"} /\ Only(t)
    BY <1>1, LoginBeginsDoes, RegisterBeginsDoes, DeleteBeginsDoes, ChangeBeginsDoes,
       PutCopiesDoes, ToggleDoes DEF Begun
  <2> QED BY <2>1 DEF Only
<1>2. CASE \E j \in Thread : Logout(t, j)
  <2>1. th'[t].at = "withdrawing" /\ th'[t].op = "logout" /\ Only(t)
    BY <1>2, LogoutDoes DEF Begun
  <2> QED BY <2>1 DEF Only
<1>3. CASE LoginRefused(t) \/ Registers(t) \/ PutReplaces(t) \/ PutsSessions(t) \/ DeleteMisses(t)
  <2>1. Went(t, "changed") \/ Went(t, "done")
    BY <1>3, SavesDoes, PutsDoes, DeletesDoes DEF LoginRefused, Registers, PutReplaces
  <2> QED BY <2>1 DEF Went, Only
<1>4. CASE Deletes(t)
  <2>1. Went(t, "withdrawing") /\ th[t].op = "delete"
    BY <1>4, DeletesDoes DEF Deletes, UnderWay
  <2> QED BY <2>1 DEF Went, Only, Same
<1>5. CASE ListsSessions(t)
  BY <1>5, ListsDoes DEF Went, Only
<1>6. CASE Changes(t)
  <2>1. th'[t].at = "withdrawing" /\ th'[t].op = "change"
    BY <1>6, ChangesFields DEF Changes, Hashed
  <2>2. CASE k # t
    BY <1>6, <2>2, ChangesFields
  <2> QED BY <2>1, <2>2
<1>7. CASE Encode(t)
  BY <1>7, EncodeDoes DEF Went, Only
<1>8. CASE Replace(t)
  BY <1>8, ReplaceDoes DEF Same
<1>9. CASE SaveFails(t)
  BY <1>9, SaveFailsDoes DEF Went, Only
<1> QED BY <1>1, <1>2, <1>3, <1>4, <1>5, <1>6, <1>7, <1>8, <1>9 DEF Step

(* The same for a restart: nothing is under way after it.                  *)
LEMMA AfterRestart ==
    ASSUME ConsoleInv, Restart, NEW t \in Thread
    PROVE  /\ th'[t].at \in {"new", "done"}
           /\ th[t].at # "new" => th'[t].at = "done" /\ Same(th'[t], th[t])
  BY RestartDoes DEF ConsoleInv

LEMMA UnderWayStep == ConsoleInv /\ [Next]_vars => \A t \in Thread : UnderWay(t)'
<1> SUFFICES ASSUME ConsoleInv, Next, NEW k \in Thread PROVE UnderWay(k)'
  BY DEF ConsoleInv, UnderWay, vars
<1>1. CASE Restart
  BY <1>1, AfterRestart DEF UnderWay
<1>2. ASSUME NEW t \in Thread, Step(t) PROVE UnderWay(k)'
  <2> USE <1>2
  <2>0. ConsoleTypes /\ CopyIsOwn /\ AllIssued /\ UnderWay(k)
    BY DEF ConsoleInv
  <2>1. CASE th'[k].at = "hashing" /\ k # t
    <3>1. /\ th[k].at = "hashing" /\ th'[k].op = th[k].op /\ th'[k].user = th[k].user
          /\ th'[k].token = th[k].token /\ th'[k].rec = th[k].rec
      BY <2>1, Stays
    <3>2. ASSUME th[k].op = "change"
          PROVE  LET j == th[k].token IN
                 /\ j \in Thread /\ th'[j].op = "login" /\ th'[j].at \notin {"new", "hashing"}
                 /\ th'[j].user = th[k].user
      <4> DEFINE j == th[k].token
      <4>1. /\ j \in Thread /\ th[j].op = "login" /\ th[j].at \notin {"new", "hashing"}
            /\ th[j].user = th[k].user
        BY <2>0, <3>1, <3>2 DEF UnderWay
      <4> HIDE DEF j
      <4>2. /\ th[j].at # "new" =>
                 th'[j].at # "new" /\ th'[j].op = th[j].op /\ th'[j].user = th[j].user
            /\ th[j].at \notin {"new", "hashing"} => th'[j].at # "hashing"
        BY <4>1, Stays
      <4> QED BY <4>1, <4>2 DEF j
    <3> QED BY <2>0, <2>1, <3>1, <3>2 DEF UnderWay
  <2>2. CASE th'[k].at = "hashing" /\ k = t
    <3>1. CASE \E u \in User : Begun(t, "login", "hashing", u)
      BY <2>2, <3>1 DEF Begun, UnderWay
    <3>2. CASE \E u \in User : RegisterBegins(t, u)
      <4>1. PICK u \in User : RegisterBegins(t, u)
        BY <3>2
      <4>2. Begun(t, "register", "hashing", u) /\ Users[u] = None
        BY <2>0, <4>1, RegisterBeginsDoes DEF RegisterBegins
      <4> QED BY <2>2, <4>2 DEF Begun, UnderWay
    <3>3. CASE \E j \in Thread, pw \in 0..1 : ChangeBegins(t, j, pw)
      <4>1. PICK j \in Thread, pw \in 0..1 : ChangeBegins(t, j, pw)
        BY <3>3
      <4>2. /\ root.sessions[j] \in User
            /\ Begun(t, "change", "hashing", root.sessions[j]) /\ th'[t].token = j
            /\ Users[root.sessions[j]] # None
        BY <2>0, <4>1, ChangeBeginsDoes DEF ChangeBegins
      <4>3. /\ th[j].op = "login" /\ th[j].at \notin {"new", "hashing"}
            /\ th[j].user = root.sessions[j]
        BY <2>0, <4>2, ConsoleAssumption DEF AllIssued, Issued, IssuedIn
      <4>4. th[t].at = "new" /\ th'[j] = th[j]
        BY <4>2, <4>3 DEF Begun, Only
      <4>5. /\ th'[t].op = "change" /\ th'[t].user = root.sessions[j]
            /\ th'[t].rec # None
        BY <4>2 DEF Begun
      <4> QED BY <2>2, <4>2, <4>3, <4>4, <4>5 DEF UnderWay
    <3> QED BY <2>2, <3>1, <3>2, <3>3, Stays
  <2>3. CASE th'[k].at = "copied" /\ k # t
    <3>1. th[k].at = "copied" /\ th'[k].copy = th[k].copy /\ th'[k].op = th[k].op
      BY <2>3, Stays
    <3>2. root'.users # k
      <4>1. CopyIsOwn'
        BY OwnStep
      <4> QED BY <2>3, <4>1 DEF CopyIsOwn
    <3>3. dicts'[k] = dicts[k]
      BY <2>3, <3>2, DictStep, MainName
    <3> QED BY <2>0, <2>3, <3>1, <3>3 DEF UnderWay
  <2>4. CASE th'[k].at = "copied" /\ k = t
    <3>1. PutCopies(t)
      BY <2>4, Stays
    <3>2. th'[t].op = "put" /\ th'[t].copy = Content
      BY <2>0, <3>1, PutCopiesDoes DEF Begun
    <3>3. dicts'[t] = Content.users /\ Content \in Contents
      BY <2>0, <3>1, MainName, UsersType DEF PutCopies, ConsoleTypes, Content
    <3> QED BY <2>4, <3>2, <3>3 DEF UnderWay
  <2>5. CASE th'[k].at = "encoded"
    BY <2>0, <2>5, Encoded, UsersType DEF UnderWay
  <2>6. CASE th'[k].at = "found"
    <3>1. CASE k # t
      BY <2>0, <2>6, <3>1, Stays DEF UnderWay
    <3>2. CASE k = t
      <4>1. PICK u \in User : DeleteBegins(t, u)
        BY <2>6, <3>2, Stays
      <4> QED BY <2>0, <2>6, <3>2, <4>1, DeleteBeginsDoes DEF Begun, UnderWay
    <3> QED BY <3>1, <3>2
  <2>7. CASE th'[k].at \in {"withdrawing", "listed"}
    <3>1. CASE k # t
      BY <2>0, <2>7, <3>1, Withdraws DEF UnderWay
    <3>2. CASE k = t /\ th'[k].at = "withdrawing" /\ th'[k].op \in {"logout", "delete", "change"}
      BY <3>2 DEF UnderWay
    <3>3. CASE k = t /\ ListsSessions(t) /\ Went(t, "listed") /\ th'[k].list = Remaining(t)
      <4>1. /\ th[t].op \in {"login", "logout", "delete", "change"}
            /\ th[t].op = "login" => th[t].user \in User
        BY <2>0, <3>3 DEF ListsSessions, Hashed, UnderWay
      <4>2. Remaining(t) \in Sessions
        BY <2>0, <4>1, RemainingType
      <4>3. th'[k].op = th[t].op /\ th'[k].user = th[t].user /\ th'[k].at = "listed"
        BY <3>3 DEF Went, Same
      <4> QED BY <3>3, <4>1, <4>2, <4>3 DEF UnderWay
    <3> QED BY <2>7, <3>1, <3>2, <3>3, Withdraws
  <2> QED BY <2>1, <2>2, <2>3, <2>4, <2>5, <2>6, <2>7 DEF UnderWay
<1> QED BY <1>1, <1>2 DEF Next

LEMMA TouchedStep == ConsoleInv /\ [Next]_vars => \A t \in Thread : TouchedKnows(t)'
<1> SUFFICES ASSUME ConsoleInv, Next, NEW k \in Thread PROVE TouchedKnows(k)'
  BY DEF ConsoleInv, TouchedKnows, Users, vars
<1>1. CASE Restart
  BY <1>1, AfterRestart DEF TouchedKnows
<1>2. ASSUME NEW t \in Thread, Step(t) PROVE TouchedKnows(k)'
  <2> USE <1>2
  <2>0. ConsoleTypes /\ CopyIsOwn /\ UnderWay(k) /\ TouchedKnows(k) /\ CopyIsOwn'
    BY OwnStep DEF ConsoleInv
  <2>1. CASE th'[k].at \in {"hashing", "found", "copied"} /\ k # t
    <3>1. /\ th[k].at = th'[k].at /\ th'[k].op = th[k].op /\ th'[k].user = th[k].user
          /\ th'[k].ref = th[k].ref
      BY <2>1, Stays
    <3>2. ASSUME NEW u \in User, (Users[u] = None) # (Users'[u] = None) \/ u \in touched[k]
          PROVE  u \in touched'[k]
      BY <2>1, <3>1, <3>2 DEF Next, Watch
    <3>3. ASSUME NEW d \in DictName, dicts'[d] = dicts[d] \/ d = root'.users, NEW u \in User,
                 (dicts[d][u] = None) # (Users[u] = None) => u \in touched[k],
                 (dicts'[d][u] = None) # (Users'[u] = None)
          PROVE  u \in touched'[k]
      <4>1. dicts'[d] = dicts[d]
        BY <3>3 DEF Users
      <4> QED BY <3>2, <3>3, <4>1
    <3>4. CASE th[k].at \in {"hashing", "found"}
      <4>1. th[k].ref \in DictName
        BY <2>0, ThType DEF ThState
      <4>2. th[k].ref # t \/ th[t].at # "new"
        BY <2>0 DEF CopyIsOwn
      <4>3. dicts'[th[k].ref] = dicts[th[k].ref] \/ th[k].ref = root'.users
        BY <4>1, <4>2, DictStep
      <4>4. \A u \in User : (dicts[th[k].ref][u] = None) # (Users[u] = None) => u \in touched[k]
        BY <2>0, <3>4 DEF TouchedKnows
      <4>5. \A u \in User : (dicts'[th[k].ref][u] = None) # (Users'[u] = None) => u \in touched'[k]
        BY <3>3, <4>1, <4>3, <4>4
      <4>6. th[k].at = "hashing" /\ th[k].op = "change" /\ Users'[th[k].user] = None =>
              th[k].user \in touched'[k]
        <5>1. th[k].user \in User
          BY <2>0, <3>4 DEF UnderWay
        <5>2. th[k].at = "hashing" /\ th[k].op = "change" /\ Users[th[k].user] = None =>
                th[k].user \in touched[k]
          BY <2>0, <3>4 DEF TouchedKnows
        <5> QED BY <3>2, <5>1, <5>2
      <4> QED BY <3>1, <3>4, <4>5, <4>6 DEF TouchedKnows
    <3>5. CASE th[k].at = "copied"
      <4>1. k \in DictName /\ root'.users # k
        BY <2>0, <3>1, <3>5, MainName DEF CopyIsOwn
      <4>2. dicts'[k] = dicts[k]
        BY <2>1, <4>1, DictStep
      <4>3. \A u \in User : (dicts[k][u] = None) # (Users[u] = None) => u \in touched[k]
        BY <2>0, <3>5 DEF TouchedKnows
      <4>4. \A u \in User : (dicts'[k][u] = None) # (Users'[u] = None) => u \in touched'[k]
        BY <3>3, <4>1, <4>2, <4>3
      <4> QED BY <3>1, <3>5, <4>4 DEF TouchedKnows
    <3> QED BY <2>1, <3>1, <3>4, <3>5
  <2>2. CASE th'[k].at = "hashing" /\ k = t
    <3>1. th'[t].ref = root.users /\ root' = root /\ dicts' = dicts
      BY <2>2, Stays
    <3>2. dicts'[th'[t].ref] = Users'
      BY <3>1 DEF Users
    <3>3. th'[t].op = "change" => Users'[th'[t].user] # None
      <4>1. CASE \E u \in User : Begun(t, "login", "hashing", u)
        BY <4>1 DEF Begun
      <4>2. CASE \E u \in User : RegisterBegins(t, u)
        <5>1. \E u \in User : Begun(t, "register", "hashing", u)
          BY <2>0, <4>2, RegisterBeginsDoes
        <5> QED BY <5>1 DEF Begun
      <4>3. CASE \E j \in Thread, pw \in 0..1 : ChangeBegins(t, j, pw)
        <5>1. PICK j \in Thread, pw \in 0..1 : ChangeBegins(t, j, pw)
          BY <4>3
        <5>2. th'[t].user = root.sessions[j] /\ Users[root.sessions[j]] # None
          BY <2>0, <5>1, ChangeBeginsDoes DEF ChangeBegins, Begun
        <5> QED BY <3>1, <5>2 DEF Users
      <4> QED BY <2>2, <4>1, <4>2, <4>3, Stays
    <3> QED BY <2>2, <3>2, <3>3 DEF TouchedKnows
  <2>3. CASE th'[k].at = "copied" /\ k = t
    <3>1. PutCopies(t)
      BY <2>3, Stays
    <3>2. root.users # t
      BY <2>0, <3>1 DEF CopyIsOwn, PutCopies
    <3>3. dicts'[t] = Users /\ Users' = Users
      BY <2>0, <3>1, <3>2, MainName DEF PutCopies, ConsoleTypes, Users
    <3> QED BY <2>3, <3>3 DEF TouchedKnows
  <2>4. CASE th'[k].at = "found" /\ k = t
    <3>1. th'[t].ref = root.users /\ root' = root
      BY <2>4, Stays
    <3>2. dicts' = dicts
      BY <2>4, Stays DEF DeleteBegins
    <3>3. dicts'[th'[t].ref] = Users'
      BY <3>1, <3>2 DEF Users
    <3> QED BY <2>4, <3>3 DEF TouchedKnows
  <2> QED BY <2>1, <2>2, <2>3, <2>4 DEF TouchedKnows
<1> QED BY <1>1, <1>2 DEF Next

-----------------------------------------------------------------------------
LEMMA IssuedLess ==
    ASSUME NEW r, NEW s, NEW f, IssuedIn(s, f), \A k \in Thread : r[k] \in {s[k], None}
    PROVE  IssuedIn(r, f)
  BY DEF IssuedIn

(* A session stays issued whatever the requests do.                        *)
LEMMA IssuedKept ==
    ASSUME ConsoleInv, Next, NEW s, IssuedIn(s, th)
    PROVE  IssuedIn(s, th')
<1>1. ASSUME NEW k \in Thread, s[k] # None
      PROVE  /\ th'[k].op = "login" /\ th'[k].at \notin {"new", "hashing"}
             /\ th'[k].rec # None /\ s[k] = th'[k].user
  <2>1. /\ th[k].op = "login" /\ th[k].at \notin {"new", "hashing"}
        /\ th[k].rec # None /\ s[k] = th[k].user
    BY <1>1 DEF IssuedIn
  <2>2. CASE Restart
    BY <2>1, <2>2, AfterRestart DEF Same
  <2>3. ASSUME NEW t \in Thread, Step(t)
        PROVE  /\ th'[k].at \notin {"new", "hashing"}
               /\ th'[k].op = th[k].op /\ th'[k].user = th[k].user /\ th'[k].rec # None
    BY <2>1, <2>3, Stays
  <2> QED BY <2>1, <2>2, <2>3 DEF Next
<1>2. \A j, k \in Thread : s[j] = s[k] /\ s[j] # None => j = k
  BY DEF IssuedIn
<1> QED BY <1>1, <1>2 DEF IssuedIn

LEMMA ListIssued ==
    ASSUME ConsoleInv, NEW t \in Thread, ListsSessions(t), IssuedIn(root.sessions, th')
    PROVE  IssuedIn(Remaining(t), th')
<1>0. ConsoleTypes /\ UnderWay(t)
  BY DEF ConsoleInv
<1> DEFINE u == th[t].user
           q == root.sessions
           r == Remaining(t)
           f == th'
<1>1. CASE Hashed(t, "login") /\ Verified(t)
  <2>1. u \in User /\ u # None
    BY <1>0, <1>1, ConsoleAssumption DEF UnderWay, Hashed
  <2>2. r = [WithoutSessions(u, None) EXCEPT ![t] = u]
    BY <1>1 DEF Remaining, Hashed
  <2>3. f[t].op = "login" /\ f[t].at = "listed" /\ f[t].rec # None /\ f[t].user = u
    BY <1>0, <1>1, ListsDoes DEF Went, Same, Hashed, Verified
  <2> HIDE DEF u, r
  <2>4. /\ r[t] = u
        /\ \A k \in Thread \ {t} : r[k] \in {q[k], None} /\ r[k] # u
    BY <2>1, <2>2, MainName DEF WithoutSessions
  <2>5. IssuedIn(q, f)
    OBVIOUS
  <2> HIDE DEF f, q
  <2>6. ASSUME NEW k \in Thread, r[k] # None
        PROVE  /\ f[k].op = "login" /\ f[k].at \notin {"new", "hashing"}
               /\ f[k].rec # None /\ r[k] = f[k].user
    BY <2>3, <2>4, <2>5, <2>6 DEF IssuedIn
  <2>7. ASSUME NEW j \in Thread, NEW k \in Thread, r[j] = r[k], r[j] # None PROVE j = k
    BY <2>4, <2>5, <2>7 DEF IssuedIn
  <2>8. IssuedIn(r, f)
    BY <2>6, <2>7 DEF IssuedIn
  <2> QED BY <2>8 DEF r, f
<1>2. CASE th[t].at = "withdrawing"
  <2>1. th[t].op \in {"logout", "delete", "change"}
    BY <1>0, <1>2 DEF UnderWay
  <2>2. \A k \in Thread : r[k] \in {q[k], None}
    BY <1>0, <2>1, RemainingType
  <2>3. IssuedIn(q, f)
    OBVIOUS
  <2> HIDE DEF r, q, f
  <2>4. IssuedIn(r, f)
    BY <2>2, <2>3, IssuedLess
  <2> QED BY <2>4 DEF r, f
<1> QED BY <1>1, <1>2 DEF ListsSessions

LEMMA RootIssued ==
    ASSUME ConsoleInv, NEW t \in Thread, Step(t), Next
    PROVE  IssuedIn(root'.sessions, th')
<1>0. ConsoleTypes /\ AllIssued
  BY DEF ConsoleInv
<1>1. IssuedIn(root.sessions, th')
  BY <1>0, IssuedKept DEF AllIssued, Issued
<1>2. CASE PutsSessions(t)
  <2>1. root'.sessions = th[t].list
    BY <1>0, <1>2, PutsDoes
  <2>2. IssuedIn(th[t].list, th')
    BY <1>0, <1>2, IssuedKept DEF AllIssued, Issued, PutsSessions
  <2> QED BY <2>1, <2>2
<1>3. CASE PutReplaces(t)
  <2>1. root'.sessions = th[t].copy.sessions
    BY <1>3 DEF PutReplaces
  <2>2. IssuedIn(th[t].copy.sessions, th')
    BY <1>0, <1>3, IssuedKept DEF AllIssued, Issued, PutReplaces
  <2> QED BY <2>1, <2>2
<1>4. CASE root'.sessions = root.sessions
  BY <1>1, <1>4
<1>5. CASE Registers(t) \/ Deletes(t) \/ Changes(t) \/ Toggle(t)
  BY <1>0, <1>4, <1>5 DEF Registers, Deletes, Changes, Toggle, ConsoleTypes
<1> QED BY <1>2, <1>3, <1>4, <1>5
  DEF Step, LoginBegins, LoginRefused, Logout, RegisterBegins, ChangeBegins, DeleteBegins,
      DeleteMisses, ListsSessions, PutCopies, Encode, Replace, SaveFails

LEMMA IssuedStep == ConsoleInv /\ [Next]_vars => AllIssued'
<1> SUFFICES ASSUME ConsoleInv, Next PROVE AllIssued'
  BY DEF ConsoleInv, AllIssued, Issued, IssuedIn, vars
<1>0. ConsoleTypes /\ AllIssued /\ \A t \in Thread : UnderWay(t)
  BY DEF ConsoleInv
<1>1. \A s : IssuedIn(s, th) => IssuedIn(s, th')
  BY IssuedKept
<1>2. CASE Restart
  <2>1. root'.sessions = file.sessions /\ file' = file
    BY <1>2 DEF Restart
  <2> QED BY <1>0, <1>1, <1>2, <2>1, AfterRestart DEF AllIssued, Issued
<1>3. ASSUME NEW t \in Thread, Step(t) PROVE AllIssued'
  <2>1. IssuedIn(root'.sessions, th')
    BY <1>3, RootIssued
  <2>2. IssuedIn(file'.sessions, th')
    <3>1. file' = file \/ (th[t].at = "encoded" /\ file' = th[t].data)
      BY <1>3 DEF Step, LoginBegins, LoginRefused, RegisterBegins, DeleteBegins, Deletes,
             DeleteMisses, Registers, Changes, Logout, ListsSessions, PutsSessions, ChangeBegins,
             PutCopies, PutReplaces, Toggle, Encode, Replace, SaveFails
    <3> QED BY <1>0, <1>1, <3>1 DEF AllIssued, Issued
  <2>3. ASSUME NEW k \in Thread, th'[k].at = "copied" PROVE IssuedIn(th'[k].copy.sessions, th')
    <3>1. CASE k = t
      <4>1. th'[k].copy = Content /\ root' = root
        BY <1>0, <1>3, <2>3, <3>1, Stays, PutCopiesDoes
      <4> QED BY <2>1, <4>1 DEF Content
    <3>2. CASE k # t
      <4>1. th'[k].copy = th[k].copy /\ th[k].at = "copied"
        BY <1>3, <2>3, <3>2, Stays
      <4> QED BY <1>0, <1>1, <4>1 DEF AllIssued, Issued
    <3> QED BY <3>1, <3>2
  <2>4. ASSUME NEW k \in Thread, th'[k].at = "encoded" PROVE IssuedIn(th'[k].data.sessions, th')
    <3>1. CASE k # t /\ th[k].at = "encoded" /\ th'[k].data = th[k].data
      BY <1>0, <1>1, <3>1 DEF AllIssued, Issued
    <3>2. CASE Encode(t) /\ th'[k].data = Content
      <4>1. root' = root
        BY <3>2 DEF Encode
      <4> QED BY <2>1, <3>2, <4>1 DEF Content
    <3> QED BY <1>3, <2>4, <3>1, <3>2, Encoded
  <2>5. ASSUME NEW k \in Thread, th'[k].at = "listed" PROVE IssuedIn(th'[k].list, th')
    <3>1. CASE k # t /\ th[k].at = "listed" /\ th'[k].list = th[k].list
      BY <1>0, <1>1, <3>1 DEF AllIssued, Issued
    <3>2. CASE ListsSessions(t) /\ th'[k].list = Remaining(t)
      <4>1. IssuedIn(root.sessions, th')
        BY <1>0, <1>1 DEF AllIssued, Issued
      <4> QED BY <3>2, <4>1, ListIssued
    <3> QED BY <1>3, <2>5, <3>1, <3>2, Withdraws
  <2> QED BY <2>1, <2>2, <2>3, <2>4, <2>5 DEF AllIssued, Issued
<1> QED BY <1>2, <1>3 DEF Next

LEMMA NewestStep == ConsoleInv /\ [Next]_vars => NewestSave'
<1> SUFFICES ASSUME ConsoleInv, Next,
                    \A t \in Thread :
                        th'[t].at \notin {"withdrawing", "listed", "changed", "failed"}
             PROVE  \/ \E t \in Thread : th'[t].at = "encoded" /\ th'[t].data = Content'
                    \/ /\ file' = Content'
                       /\ \A t \in Thread : th'[t].at = "encoded" /\ th'[t].data # Content' => th'[t].late
                    \/ /\ overtaken'
                       /\ \A t \in Thread : th'[t].at = "encoded" => th'[t].late
  BY DEF ConsoleInv, NewestSave, Content, Users, vars
<1>0. ConsoleTypes /\ NewestSave /\ CopyIsOwn /\ \A t \in Thread : UnderWay(t)
  BY DEF ConsoleInv
<1>1. CASE Restart
  <2>1. \A t \in Thread : th'[t].at # "encoded"
    BY <1>1, AfterRestart
  <2>2. file' = Content'
    <3>1. Users' = file.users
      BY <1>0, <1>1, MainName DEF Restart, Users, ConsoleTypes
    <3>2. Content' = [users |-> file.users, sessions |-> file.sessions, option |-> file.option]
      BY <1>1, <3>1 DEF Restart, Content
    <3> QED BY <1>0, <1>1, <3>2 DEF Restart, ConsoleTypes, Contents
  <2> QED BY <2>1, <2>2
<1>2. ASSUME NEW t \in Thread, th[t].at \in {"new", "found"}, Only(t),
             th'[t].at \in {"hashing", "found", "copied", "done"},
             Content' = Content, file' = file, overtaken' = overtaken
      PROVE  NewestSave'
  <2> USE <1>2
  <2>1. \A k \in Thread : th[k].at \notin {"withdrawing", "listed", "changed", "failed"}
    BY DEF Only
  <2>2. \A k \in Thread : (th'[k].at = "encoded" <=> th[k].at = "encoded")
                           /\ (th'[k].at = "encoded" => th'[k] = th[k])
    BY DEF Only
  <2> QED BY <1>0, <2>1, <2>2 DEF NewestSave
<1>3. ASSUME NEW t \in Thread, Step(t) PROVE NewestSave'
  <2>1. CASE \/ \E u \in User, pw \in 0..1 : LoginBegins(t, u, pw)
             \/ \E u \in User : RegisterBegins(t, u)
             \/ \E j \in Thread, pw \in 0..1 : ChangeBegins(t, j, pw)
             \/ \E u \in User : DeleteBegins(t, u)
             \/ DeleteMisses(t)
    <3>1. /\ th[t].at \in {"new", "found"} /\ Only(t)
          /\ th'[t].at \in {"hashing", "found", "done"}
      BY <1>0, <2>1, LoginBeginsDoes, RegisterBeginsDoes, ChangeBeginsDoes, DeleteBeginsDoes,
         DeletesDoes DEF Begun, Went, DeleteMisses
    <3>2. dicts' = dicts /\ root' = root /\ file' = file /\ overtaken' = overtaken
      BY <2>1 DEF LoginBegins, RegisterBegins, ChangeBegins, DeleteBegins, DeleteMisses
    <3> QED BY <1>2, <3>1, <3>2 DEF Content, Users
  <2>2. CASE PutCopies(t)
    <3>1. th[t].at = "new" /\ Only(t) /\ th'[t].at = "copied"
      BY <1>0, <2>2, PutCopiesDoes DEF Begun
    <3>2. root' = root /\ file' = file /\ overtaken' = overtaken /\ root.users # t
      BY <1>0, <2>2 DEF PutCopies, CopyIsOwn
    <3>3. Users' = Users
      BY <1>0, <2>2, <3>2, MainName DEF PutCopies, ConsoleTypes, Users
    <3> QED BY <1>2, <3>1, <3>2, <3>3 DEF Content
  <2>3. CASE \/ \E j \in Thread : Logout(t, j)
             \/ Toggle(t)
    <3>1. th'[t].at \in {"withdrawing", "changed"}
      BY <1>0, <2>3, LogoutDoes, ToggleDoes DEF Begun
    <3> QED BY <3>1
  <2>4. CASE \/ LoginRefused(t) \/ Registers(t) \/ PutReplaces(t) \/ Deletes(t) \/ Changes(t)
             \/ ListsSessions(t) \/ PutsSessions(t)
    <3>1. th'[t].at \in {"withdrawing", "listed", "changed"}
      BY <1>0, <2>4, SavesDoes, ChangesFields, DeletesDoes, ListsDoes, PutsDoes
      DEF LoginRefused, Registers, PutReplaces, Went
    <3> QED BY <3>1
  <2>5. CASE Encode(t)
    <3>1. th'[t].at = "encoded" /\ th'[t].data = Content
      BY <1>0, <2>5, EncodeDoes DEF Went
    <3>2. Content' = Content
      BY <2>5 DEF Encode, Content, Users
    <3> QED BY <3>1, <3>2 DEF NewestSave
  <2>6. CASE Replace(t)
    <3>1. /\ th'[t].at = "done"
          /\ \A k \in Thread \ {t} :
               /\ th'[k].at = th[k].at /\ th'[k].data = th[k].data
               /\ th[k].at = "encoded" => th'[k].late
      BY <1>0, <2>6, ReplaceDoes
    <3>2. th[t].at = "encoded" /\ file' = th[t].data /\ overtaken' = th[t].late
      BY <2>6 DEF Replace
    <3>3. Content' = Content
      BY <2>6 DEF Replace, Content, Users
    <3>4. \A k \in Thread : th[k].at \notin {"withdrawing", "listed", "changed", "failed"}
      BY <3>1, <3>2
    <3>5. \A k \in Thread : th'[k].at = "encoded" => th'[k].late
      BY <3>1
    <3>6. CASE th[t].data = Content
      BY <3>2, <3>3, <3>5, <3>6 DEF NewestSave
    <3>7. CASE th[t].late
      BY <3>2, <3>5, <3>7 DEF NewestSave
    <3>8. CASE th[t].data # Content /\ ~th[t].late
      <4>1. \E k \in Thread : th[k].at = "encoded" /\ th[k].data = Content
        BY <1>0, <3>2, <3>4, <3>8 DEF NewestSave
      <4>2. \E k \in Thread : th'[k].at = "encoded" /\ th'[k].data = Content'
        BY <3>1, <3>3, <3>8, <4>1
      <4> QED BY <4>2 DEF NewestSave
    <3> QED BY <3>6, <3>7, <3>8
  <2>7. CASE SaveFails(t)
    <3>1. th'[t].at = "failed"
      BY <1>0, <2>7, SaveFailsDoes DEF Went
    <3> QED BY <3>1
  <2> QED BY <1>3, <2>1, <2>2, <2>3, <2>4, <2>5, <2>6, <2>7 DEF Step
<1>4. CASE \E t \in Thread : Step(t)
  <2>1. NewestSave'
    BY <1>3, <1>4
  <2> QED BY <2>1 DEF NewestSave
<1> QED BY <1>1, <1>4 DEF Next

LEMMA ConsoleInvStep == ConsoleInv /\ [Next]_vars => ConsoleInv'
  BY ConsoleTypesStep, LockStep, OwnStep, UnderWayStep, TouchedStep, IssuedStep, NewestStep
  DEF ConsoleInv

(* What runs the standalone console takes only its steps.                  *)
LEMMA ConsolesSpecSteps ==
    ConsolesSpec => Init /\ Legacy!Init /\ [][[Next]_vars /\ [Legacy!Next]_legacyVars]_allVars
<1>1. ConsolesInit => Init /\ Legacy!Init
  BY DEF ConsolesInit
<1>2. [Standalone \/ InLegacy]_allVars => [[Next]_vars /\ [Legacy!Next]_legacyVars]_allVars
  BY DEF Standalone, InLegacy, allVars
<1> QED BY <1>1, <1>2, PTL DEF ConsolesSpec

LEMMA ConsoleHolds == ConsolesSpec => []ConsoleInv
<1>1. ConsoleInv /\ [[Next]_vars /\ [Legacy!Next]_legacyVars]_allVars => ConsoleInv'
  <2>1. allVars' = allVars => vars' = vars
    BY DEF allVars
  <2> QED BY <2>1, ConsoleInvStep
<1> QED BY <1>1, InitConsole, ConsolesSpecSteps, PTL

-----------------------------------------------------------------------------
(* Types, the lock is held by a login or a logout in progress, and a user  *)
(* has one session at most.                                                *)
THEOREM ConsoleTypesHold == ConsolesSpec => []ConsoleTypeOK
<1>1. ConsoleInv => ConsoleTypeOK
  <2> SUFFICES ASSUME ConsoleInv PROVE ConsoleTypeOK
    OBVIOUS
  <2>1. \A s \in {root.sessions, file.sessions}, j, k \in Thread :
          s[j] = s[k] /\ s[j] # None => j = k
    BY DEF ConsoleInv, AllIssued, Issued, IssuedIn
  <2>2. \A t \in Thread : th[t].at \in Stage
    BY ThType DEF ConsoleInv, ThState
  <2> QED BY <2>1, <2>2 DEF ConsoleInv, ConsoleTypes, LockHeld, ConsoleTypeOK, Stage
<1> QED BY <1>1, ConsoleHolds, PTL

(* When nothing is left to be saved and no save has failed, the file has   *)
(* what is in memory, unless the last to replace it was encoded before     *)
(* another one.                                                            *)
THEOREM FileCurrent == ConsolesSpec => []FileIsCurrent
<1>1. ConsoleInv => FileIsCurrent
  BY DEF ConsoleInv, NewestSave, FileIsCurrent
<1> QED BY <1>1, ConsoleHolds, PTL

-----------------------------------------------------------------------------
(* Only the thread that takes a step moves, and it does.                   *)
LEMMA Moves ==
    ASSUME ConsoleInv, NEW t \in Thread, Step(t)
    PROVE  /\ th'[t].at # th[t].at
           /\ \A k \in Thread \ {t} :
                /\ th'[k].at = th[k].at
                /\ \/ th'[k].rec = th[k].rec
                   \/ Changes(t) /\ k = th[t].token
<1>0. ConsoleTypes /\ \A j \in Thread : UnderWay(j)
  BY DEF ConsoleInv
<1> USE <1>0
<1>1. CASE \/ \E u \in User, pw \in 0..1 : LoginBegins(t, u, pw)
           \/ \E u \in User : RegisterBegins(t, u)
           \/ \E u \in User : DeleteBegins(t, u)
           \/ \E j \in Thread : Logout(t, j)
           \/ \E j \in Thread, pw \in 0..1 : ChangeBegins(t, j, pw)
           \/ PutCopies(t) \/ Toggle(t)
  <2>1. /\ th[t].at = "new" /\ Only(t)
        /\ th'[t].at \in {"hashing", "found", "withdrawing", "changed", "copied"}
    BY <1>1, LoginBeginsDoes, RegisterBeginsDoes, DeleteBeginsDoes, LogoutDoes, ChangeBeginsDoes,
       PutCopiesDoes, ToggleDoes DEF Begun
  <2> QED BY <2>1 DEF Only
<1>2. CASE \/ LoginRefused(t) \/ Registers(t) \/ PutReplaces(t)
           \/ Deletes(t) \/ DeleteMisses(t) \/ ListsSessions(t) \/ PutsSessions(t)
  <2>1. \E at \in {"changed", "withdrawing", "done", "listed"} : Went(t, at) /\ th[t].at # at
    BY <1>2, SavesDoes, DeletesDoes, ListsDoes, PutsDoes
    DEF LoginRefused, Registers, PutReplaces, Hashed, Deletes, DeleteMisses, ListsSessions,
        PutsSessions
  <2> QED BY <2>1 DEF Went, Only
<1>3. CASE Changes(t)
  BY <1>3, ChangesFields DEF Changes, Hashed
<1>4. CASE Encode(t)
  BY <1>4, EncodeDoes DEF Went, Only, Encode
<1>5. CASE Replace(t)
  BY <1>5, ReplaceDoes DEF Replace, Same
<1>6. CASE SaveFails(t)
  BY <1>6, SaveFailsDoes DEF Went, Only, SaveFails
<1> QED BY <1>1, <1>2, <1>3, <1>4, <1>5, <1>6 DEF Step

(* The users after each step that changes them.                            *)
LEMMA UsersAfter ==
    ASSUME ConsoleInv, NEW t \in Thread, Step(t)
    PROVE  \/ Users' = Users
           \/ PutReplaces(t) /\ Users' = dicts[t]
           \/ /\ Registers(t) \/ Deletes(t)
              /\ \A w \in User \ {th[t].user} : Users'[w] = dicts[th[t].ref][w]
           \/ /\ Changes(t) /\ Users'[th[t].user] = [Held(t) EXCEPT !.pw = @ + 1]
              /\ \A w \in User \ {th[t].user} : Users'[w] = dicts[th[t].ref][w]
<1>0. ConsoleTypes /\ CopyIsOwn /\ UnderWay(t)
  BY DEF ConsoleInv
<1>2. CASE PutReplaces(t)
  BY <1>2 DEF PutReplaces, Users
<1>3. ASSUME NEW rec, PutsUser(t, rec), root'.users = th[t].ref, th[t].user \in User
      PROVE  /\ Users'[th[t].user] = rec
             /\ \A w \in User \ {th[t].user} : Users'[w] = dicts[th[t].ref][w]
  <2>1. th[t].ref \in DictName
    BY <1>0, ThType DEF ThState
  <2> QED BY <1>0, <1>3, <2>1 DEF PutsUser, ConsoleTypes, Users
<1>4. CASE Registers(t)
  <2>1. root'.users = th[t].ref /\ th[t].user \in User
    BY <1>0, <1>4 DEF Registers, ConsoleTypes, UnderWay, Hashed
  <2> QED BY <1>3, <1>4, <2>1 DEF Registers
<1>1. CASE Deletes(t)
  <2>1. root'.users = th[t].ref /\ th[t].user \in User
    BY <1>0, <1>1 DEF Deletes, ConsoleTypes, UnderWay
  <2> QED BY <1>1, <1>3, <2>1 DEF Deletes
<1>5. CASE Changes(t)
  <2>1. root'.users = th[t].ref /\ th[t].user \in User
    BY <1>0, <1>5 DEF Changes, ConsoleTypes, UnderWay, Hashed
  <2>2. PutsUser(t, [Held(t) EXCEPT !.pw = @ + 1])
    BY <1>5 DEF Changes
  <2> DEFINE rec == [Held(t) EXCEPT !.pw = @ + 1]
  <2>3. PutsUser(t, rec)
    BY <2>2
  <2> HIDE DEF rec
  <2>4. /\ Users'[th[t].user] = rec
        /\ \A w \in User \ {th[t].user} : Users'[w] = dicts[th[t].ref][w]
    <3>1. th[t].ref \in DictName
      BY <1>0, ThType DEF ThState
    <3> QED BY <1>0, <2>1, <2>3, <3>1 DEF PutsUser, ConsoleTypes, Users
  <2> QED BY <1>5, <2>4 DEF rec
<1>6. CASE PutCopies(t)
  <2>1. root' = root /\ root.users # t
    BY <1>0, <1>6 DEF PutCopies, CopyIsOwn
  <2> QED BY <1>0, <1>6, <2>1, MainName DEF PutCopies, ConsoleTypes, Users
<1>7. CASE dicts' = dicts /\ root'.users = root.users
  BY <1>7 DEF Users
<1>8. CASE PutsSessions(t) \/ Toggle(t)
  <2>1. dicts' = dicts /\ root'.users = root.users
    BY <1>0, <1>8 DEF PutsSessions, Toggle, ConsoleTypes
  <2> QED BY <1>7, <2>1
<1> QED BY <1>1, <1>2, <1>4, <1>5, <1>6, <1>7, <1>8
  DEF Step, LoginBegins, LoginRefused, Logout, RegisterBegins, ChangeBegins, DeleteBegins,
      DeleteMisses, ListsSessions, Encode, Replace, SaveFails

LEMMA NoRestart == ASSUME ConsoleInv, Next, restarts' = restarts PROVE \E t \in Thread : Step(t)
<1>1. restarts \in Nat
  BY DEF ConsoleInv, ConsoleTypes
<1>2. restarts + 1 # restarts
  BY <1>1
<1> QED BY <1>2 DEF Next, Restart

(* Nobody becomes or ceases to be a user by the way: a request that puts   *)
(* back an older state of somebody overtook what changed it.               *)
THEOREM UsersKnown == ConsolesSpec => UsersChangeKnowingly
<1> DEFINE A == \A t \in Thread, u \in User :
                   th'[t].at # th[t].at /\ restarts' = restarts
                     /\ (Users[u] = None) # (Users'[u] = None) =>
                       \/ th'[t].op \in {"register", "delete"} /\ th'[t].user = u
                       \/ u \in touched[t]
<1>1. ConsoleInv /\ [Next]_vars => [A]_vars
  <2> SUFFICES ASSUME ConsoleInv, Next, restarts' = restarts,
                      NEW t \in Thread, NEW u \in User, th'[t].at # th[t].at,
                      (Users[u] = None) # (Users'[u] = None),
                      u \notin touched[t]
               PROVE  th'[t].op \in {"register", "delete"} /\ th'[t].user = u
    OBVIOUS
  <2>1. Step(t)
    BY NoRestart, Moves
  <2>2. ConsoleTypes /\ UnderWay(t) /\ TouchedKnows(t)
    BY DEF ConsoleInv
  <2>3. CASE /\ Deletes(t)
             /\ \A w \in User \ {th[t].user} : Users'[w] = dicts[th[t].ref][w]
    <3>1. u = th[t].user
      BY <2>2, <2>3 DEF Deletes, TouchedKnows
    <3>2. th'[t].op = "delete" /\ th'[t].user = th[t].user
      BY <2>2, <2>3, DeletesDoes DEF Deletes, UnderWay, Went, Same
    <3> QED BY <3>1, <3>2
  <2>4. CASE PutReplaces(t) /\ Users' = dicts[t]
    BY <2>2, <2>4 DEF PutReplaces, TouchedKnows
  <2>5. CASE /\ Registers(t)
             /\ \A w \in User \ {th[t].user} : Users'[w] = dicts[th[t].ref][w]
    <3>1. u = th[t].user
      BY <2>2, <2>5 DEF Registers, Hashed, TouchedKnows
    <3>2. th'[t].op = "register" /\ th'[t].user = th[t].user
      BY <2>2, <2>5, SavesDoes DEF Registers, Hashed, Went, Same
    <3> QED BY <3>1, <3>2
  <2>6. CASE /\ Changes(t) /\ Users'[th[t].user] = [Held(t) EXCEPT !.pw = @ + 1]
             /\ \A w \in User \ {th[t].user} : Users'[w] = dicts[th[t].ref][w]
    <3>1. Users'[th[t].user] # None
      BY <2>2, <2>6, HeldRecord, ConsoleAssumption DEF Changes
    <3>2. u # th[t].user
      BY <2>2, <2>6, <3>1 DEF Changes, Hashed, TouchedKnows
    <3> QED BY <2>2, <2>6, <3>2 DEF Changes, Hashed, TouchedKnows
  <2> QED BY <2>1, <2>3, <2>4, <2>5, <2>6, UsersAfter
<1>2. ConsoleInv /\ [[Next]_vars /\ [Legacy!Next]_legacyVars]_allVars => [A]_vars
  BY <1>1 DEF allVars
<1>3. ConsolesSpec => [][A]_vars
  BY <1>2, ConsoleHolds, ConsolesSpecSteps, PTL
<1> QED BY <1>3 DEF UsersChangeKnowingly

(* The sessions after each step that changes them.                         *)
LEMMA SessionsAfter ==
    ASSUME ConsoleInv, NEW t \in Thread, Step(t)
    PROVE  \/ root'.sessions = root.sessions
           \/ PutsSessions(t) /\ root'.sessions = th[t].list
           \/ PutReplaces(t) /\ root'.sessions = th[t].copy.sessions
<1>0. ConsoleTypes
  BY DEF ConsoleInv
<1>1. CASE PutsSessions(t)
  BY <1>0, <1>1, PutsDoes
<1>2. CASE PutReplaces(t)
  BY <1>2 DEF PutReplaces
<1>3. CASE Registers(t) \/ Deletes(t) \/ Changes(t) \/ Toggle(t)
  BY <1>0, <1>3 DEF Registers, Deletes, Changes, Toggle, ConsoleTypes
<1> QED BY <1>1, <1>2, <1>3
  DEF Step, LoginBegins, LoginRefused, Logout, RegisterBegins, ChangeBegins, DeleteBegins,
      DeleteMisses, ListsSessions, PutCopies, Encode, Replace, SaveFails

(* What withdraws the session of a user withdraws it while there is one.   *)
Withdrawn(t, k, u) ==
    \/ th[t].op = "logout" /\ th[t].token = k
    \/ th[t].op = "delete" /\ th[t].user = u
    \/ th[t].op = "change" /\ th[t].user = u /\ th[t].token # k

LEMMA WithdrawnIs ==
    ASSUME ConsoleTypes, NEW t \in Thread, UnderWay(t), th[t].at = "withdrawing",
           NEW k \in Thread, root.sessions[k] # None
    PROVE  Remaining(t)[k] = None <=> Withdrawn(t, k, root.sessions[k])
<1>1. th[t].op \in {"logout", "delete", "change"} /\ k # None
  BY MainName DEF UnderWay
<1>2. root.sessions \in [Thread -> User \cup {None}]
  BY DEF ConsoleTypes
<1>3. CASE th[t].op = "logout"
  <2>1. Remaining(t) = [root.sessions EXCEPT ![th[t].token] = None]
    BY <1>3 DEF Remaining
  <2> QED BY <1>2, <1>3, <2>1 DEF Withdrawn
<1>4. CASE th[t].op = "delete"
  <2>1. Remaining(t) = WithoutSessions(th[t].user, None)
    BY <1>4 DEF Remaining
  <2> QED BY <1>1, <1>4, <2>1 DEF Withdrawn, WithoutSessions
<1>5. CASE th[t].op = "change"
  <2>1. Remaining(t) = WithoutSessions(th[t].user, th[t].token)
    BY <1>5 DEF Remaining
  <2> QED BY <1>1, <1>5, <2>1 DEF Withdrawn, WithoutSessions
<1> QED BY <1>1, <1>3, <1>4, <1>5

LEMMA WithdrawnNext ==
    ASSUME ConsoleTypes', NEW t \in Thread, th'[t].op \in {"logout", "delete", "change"},
           NEW k \in Thread, root'.sessions[k] # None, Withdrawn(t, k, root.sessions[k])'
    PROVE  Remaining(t)'[k] = None
<1> DEFINE q == root'.sessions
<1>1. q \in [Thread -> User \cup {None}] /\ k # None
  BY MainName DEF ConsoleTypes
<1>2. CASE th'[t].op = "logout"
  <2>1. Remaining(t)' = [q EXCEPT ![th'[t].token] = None] /\ th'[t].token = k
    BY <1>2 DEF Remaining, Withdrawn
  <2> QED BY <1>1, <2>1
<1>3. CASE th'[t].op = "delete"
  <2>1. Remaining(t)' = WithoutSessions(th[t].user, None)' /\ th'[t].user = q[k]
    BY <1>3 DEF Remaining, Withdrawn
  <2> QED BY <1>1, <2>1 DEF WithoutSessions
<1>4. CASE th'[t].op = "change"
  <2>1. /\ Remaining(t)' = WithoutSessions(th[t].user, th[t].token)'
        /\ th'[t].user = q[k] /\ th'[t].token # k
    BY <1>4 DEF Remaining, Withdrawn
  <2> QED BY <1>1, <2>1 DEF WithoutSessions
<1> QED BY <1>2, <1>3, <1>4

(* Where a thread is that another one leaves alone.                        *)
LEMMA Aside ==
    ASSUME ConsoleInv, NEW t \in Thread, Step(t), NEW j \in Thread \ {t}
    PROVE  /\ th'[j].at = th[j].at
           /\ th[j].at \in {"withdrawing", "listed"} =>
                /\ th'[j].op = th[j].op /\ th'[j].user = th[j].user
                /\ th'[j].token = th[j].token /\ th'[j].list = th[j].list
<1>1. th'[j].at = th[j].at
  BY Moves
<1> QED BY <1>1, Withdraws

(* A session that is about to go, goes or is still about to.               *)
LEMMA DoomedStays ==
    ASSUME ConsoleInv, Next, NEW t \in Thread, Step(t), NEW k \in Thread, Doomed(k),
           root.sessions[k] # None, root'.sessions[k] = root.sessions[k]
    PROVE  Doomed(k)'
<1>0. ConsoleTypes /\ ConsoleTypes' /\ \A j \in Thread : UnderWay(j)
  BY ConsoleTypesStep DEF ConsoleInv
<1>1. PICK j \in Thread : \/ (th[j].at = "withdrawing" /\ Remaining(j)[k] = None)
                         \/ (th[j].at = "listed" /\ th[j].list[k] = None)
  BY DEF Doomed
<1> SUFFICES \/ (th'[j].at = "withdrawing" /\ Remaining(j)'[k] = None)
             \/ (th'[j].at = "listed" /\ th'[j].list[k] = None)
  BY DEF Doomed
<1>2. CASE j # t /\ th[j].at = "listed"
  BY <1>1, <1>2, Aside
<1>3. CASE j # t /\ th[j].at = "withdrawing"
  <2>1. /\ th'[j].at = "withdrawing" /\ th'[j].op = th[j].op /\ th'[j].user = th[j].user
        /\ th'[j].token = th[j].token
    BY <1>3, Aside
  <2>2. Withdrawn(j, k, root.sessions[k])
    BY <1>0, <1>1, <1>3, WithdrawnIs
  <2>3. Withdrawn(j, k, root.sessions[k])'
    BY <2>1, <2>2 DEF Withdrawn
  <2>4. Remaining(j)'[k] = None
    <3>1. th'[j].op \in {"logout", "delete", "change"}
      BY <1>0, <1>3, <2>1 DEF UnderWay
    <3> QED BY <1>0, <2>3, <3>1, WithdrawnNext
  <2> QED BY <2>1, <2>4
<1>4. CASE j = t /\ th[t].at = "listed"
  <2>1. PutsSessions(t)
    BY <1>4 DEF Step, LoginBegins, LoginRefused, Logout, RegisterBegins, DeleteBegins, Registers,
                Deletes, DeleteMisses, Changes, ListsSessions, ChangeBegins, PutCopies,
                PutReplaces, Toggle, Encode, Replace, SaveFails, Hashed
  <2>2. root'.sessions = th[t].list
    BY <1>0, <2>1, PutsDoes
  <2> QED BY <1>1, <1>4, <2>2
<1>5. CASE j = t /\ th[t].at = "withdrawing"
  <2>1. ListsSessions(t)
    BY <1>5 DEF Step, LoginBegins, LoginRefused, Logout, RegisterBegins, DeleteBegins, Registers,
                Deletes, DeleteMisses, Changes, PutsSessions, ChangeBegins, PutCopies,
                PutReplaces, Toggle, Encode, Replace, SaveFails, Hashed
  <2>2. th'[t].at = "listed" /\ th'[t].list = Remaining(t)
    BY <1>0, <2>1, ListsDoes DEF Went
  <2> QED BY <1>1, <1>5, <2>2
<1> QED BY <1>1, <1>2, <1>3, <1>4, <1>5

(* A deletion and a change of password doom the sessions of their user.    *)
LEMMA Dooms ==
    ASSUME ConsoleInv, Next, NEW t \in Thread, Step(t), Deletes(t) \/ Changes(t),
           NEW k \in Thread, root'.sessions[k] = th[t].user, th[t].user \in User,
           Changes(t) => k # th[t].token
    PROVE  Doomed(k)'
<1>0. ConsoleTypes /\ ConsoleTypes' /\ UnderWay(t)
  BY ConsoleTypesStep DEF ConsoleInv
<1>1. /\ th'[t].at = "withdrawing" /\ th'[t].op = th[t].op /\ th'[t].user = th[t].user
      /\ th'[t].token = th[t].token
  BY <1>0, DeletesDoes, ChangesFields DEF Went, Same
<1>2. IF Changes(t) THEN th[t].op = "change" ELSE th[t].op = "delete"
  BY <1>0 DEF Changes, Hashed, Deletes, UnderWay
<1>3. Withdrawn(t, k, root.sessions[k])'
  BY <1>1, <1>2 DEF Withdrawn
<1>4. Remaining(t)'[k] = None
  <2>1. root'.sessions[k] # None /\ th'[t].op \in {"logout", "delete", "change"}
    BY <1>1, <1>2, ConsoleAssumption
  <2> QED BY <1>0, <1>3, <2>1, WithdrawnNext
<1> QED BY <1>1, <1>4 DEF Doomed

(* A session loses its backing, or comes without, only by a request that   *)
(* worked on what it had read before.                                      *)
THEOREM Backing == ConsolesSpec => SessionsBacked
<1> DEFINE Stale(t, k) ==
             \/ th[t].at = "listed" /\ t = k /\ Users[th[t].user] # th[t].rec
             \/ th[t].at = "listed" /\ th[t].list # Remaining(t)
             \/ th[t].at \in {"hashing", "found"} /\ th[t].ref # root.users
             \/ Hashed(t, "register") /\ Users[th[t].user] # None
             \/ th[t].at = "copied" /\ th[t].copy # Content
           A == \A k \in Thread : Backed(k) /\ ~Backed(k)' /\ restarts' = restarts =>
                  \E t \in Thread :
                    /\ th'[t] # th[t]
                    /\ \/ th[t].at = "listed" /\ t = k /\ Users[th[t].user] # th[t].rec
                       \/ th[t].at = "listed" /\ th[t].list # Remaining(t)
                       \/ th[t].at \in {"hashing", "found"} /\ th[t].ref # root.users
                       \/ Hashed(t, "register") /\ Users[th[t].user] # None
                       \/ th[t].at = "copied" /\ th[t].copy # Content
<1>1. ConsoleInv /\ [Next]_vars => [A]_vars
  <2> SUFFICES ASSUME ConsoleInv, Next, restarts' = restarts, NEW k \in Thread,
                      Backed(k), ~Backed(k)'
               PROVE  \E t \in Thread : th'[t] # th[t] /\ Stale(t, k)
    OBVIOUS
  <2>0. PICK t \in Thread : Step(t)
    BY NoRestart
  <2>1. th'[t] # th[t]
    BY <2>0, Moves
  <2> SUFFICES ASSUME ~Stale(t, k) PROVE FALSE
    BY <2>1
  <2> DEFINE u == root'.sessions[k]
  <2>2. u # None /\ Users'[u] # th'[k].rec /\ ~Doomed(k)'
    BY DEF Backed
  <2>3. ConsoleTypes /\ AllIssued /\ UnderWay(t) /\ ConsoleTypes'
    BY ConsoleTypesStep DEF ConsoleInv
  <2>4. u \in User
    BY <2>2, <2>3 DEF ConsoleTypes
  <2>5. PutReplaces(t) => Users' = Users /\ root'.sessions = root.sessions
    <3> SUFFICES ASSUME PutReplaces(t) PROVE Users' = Users /\ root'.sessions = root.sessions
      OBVIOUS
    <3>1. th[t].copy = Content /\ dicts[t] = th[t].copy.users
      BY <2>3 DEF PutReplaces, UnderWay
    <3>2. Users' = dicts[t] /\ root'.sessions = th[t].copy.sessions
      BY DEF PutReplaces, Users
    <3> QED BY <3>1, <3>2 DEF Content
  <2>6. root.sessions[k] = u
    <3>1. CASE PutsSessions(t)
      <4>1. root'.sessions = Remaining(t) /\ th[t].at = "listed"
        BY <2>3, <3>1, PutsDoes DEF PutsSessions
      <4>2. CASE th[t].op = "login" /\ k = t
        <5>1. Remaining(t) = [WithoutSessions(th[t].user, None) EXCEPT ![t] = th[t].user]
          BY <4>2 DEF Remaining
        <5>2. u = th[t].user
          BY <4>1, <4>2, <5>1 DEF WithoutSessions
        <5>3. Users[th[t].user] = th[t].rec
          BY <4>1, <4>2
        <5>4. th'[t].rec = th[t].rec /\ Users' = Users
          BY <2>3, <3>1, PutsDoes DEF Went, Same, PutsSessions, Users
        <5> QED BY <2>2, <4>2, <5>2, <5>3, <5>4
      <4>3. CASE ~(th[t].op = "login" /\ k = t)
        <5>1. Remaining(t)[k] \in {root.sessions[k], None}
          BY <2>3, <4>1, <4>3, RemainingType DEF UnderWay
        <5> QED BY <2>2, <4>1, <5>1
      <4> QED BY <4>2, <4>3
    <3> QED BY <2>0, <2>5, <3>1, SessionsAfter
  <2>7. Users[u] = th[k].rec /\ th[k].rec # None /\ th[k].user = u /\ th[k].at \notin {"new", "hashing"}
    <3>1. ~Doomed(k)
      BY <2>0, <2>2, <2>6, DoomedStays
    <3>2. Users[u] = th[k].rec
      BY <2>2, <2>6, <3>1 DEF Backed
    <3> QED BY <2>2, <2>3, <2>6, <3>2 DEF AllIssued, Issued, IssuedIn
  <2> HIDE DEF u
  <2>8. CASE Changes(t) /\ k = th[t].token
    <3>1. Hashed(t, "change") /\ th[t].ref = root.users
      BY <2>8 DEF Changes, Hashed
    <3>2. u = th[t].user
      BY <2>3, <2>7, <2>8, <3>1 DEF UnderWay, Hashed
    <3> DEFINE rec == [Held(t) EXCEPT !.pw = @ + 1]
    <3>3. th'[k].rec = rec
      BY <2>3, <2>8, ChangesDoes
    <3>4. Users'[th[t].user] = rec
      <4>1. th[t].ref \in DictName /\ root'.users = th[t].ref
        BY <2>3, <2>8, ThType DEF Changes, ConsoleTypes, ThState
      <4>2. dicts' = [dicts EXCEPT ![th[t].ref][th[t].user] = rec]
        BY <2>8 DEF Changes, PutsUser
      <4> HIDE DEF rec
      <4> QED BY <2>3, <2>4, <3>2, <4>1, <4>2 DEF ConsoleTypes, Users
    <3> QED BY <2>2, <3>2, <3>3, <3>4
  <2>9. CASE ~(Changes(t) /\ k = th[t].token)
    <3>1. th'[k].rec = th[k].rec
      <4>1. CASE k # t
        BY <2>0, <2>9, <4>1, Moves
      <4>2. CASE k = t
        BY <2>0, <2>3, <2>7, <4>2, EncodeDoes, SaveFailsDoes, ReplaceDoes, SavesDoes, DeletesDoes,
           ListsDoes, PutsDoes
        DEF Step, LoginBegins, LoginRefused, RegisterBegins, DeleteBegins, Registers,
            Changes, Logout, ChangeBegins, PutCopies, PutReplaces, Toggle, Hashed, Went, Same
      <4> QED BY <4>1, <4>2
    <3>2. Users'[u] = Users[u]
      <4>1. CASE /\ Deletes(t) \/ Changes(t)
                 /\ \A w \in User \ {th[t].user} : Users'[w] = dicts[th[t].ref][w]
        <5>1. th[t].ref = root.users
          BY <4>1 DEF Deletes, Changes, Hashed
        <5>2. u # th[t].user
          BY <2>0, <2>2, <2>4, <2>9, <4>1, Dooms DEF u
        <5> QED BY <2>4, <4>1, <5>1, <5>2 DEF Users
      <4>2. CASE /\ Registers(t)
                 /\ \A w \in User \ {th[t].user} : Users'[w] = dicts[th[t].ref][w]
        <5>1. th[t].ref = root.users /\ Users[th[t].user] = None
          BY <4>2 DEF Registers, Hashed
        <5>2. u # th[t].user
          BY <2>7, <5>1
        <5> QED BY <2>4, <4>2, <5>1, <5>2 DEF Users
      <4> QED BY <2>0, <2>5, <4>1, <4>2, UsersAfter
    <3> QED BY <2>2, <2>7, <3>1, <3>2
  <2> QED BY <2>8, <2>9
<1>2. ConsoleInv /\ [[Next]_vars /\ [Legacy!Next]_legacyVars]_allVars => [A]_vars
  BY <1>1 DEF allVars
<1>3. ConsolesSpec => [][A]_vars
  BY <1>2, ConsoleHolds, ConsolesSpecSteps, PTL
<1> QED BY <1>3 DEF SessionsBacked

-----------------------------------------------------------------------------
(* The legacy console.                                                     *)
RequestState ==
    [at : {"new", "read", "copied", "changed", "encoded", "writing", "done"},
     op : {"none", "login", "logout", "create", "drop", "pin", "put", "job"},
     key : Legacy!Owner, read : SUBSET Legacy!Owner, copy : Legacy!Settings,
     data : Legacy!Saved, late : BOOLEAN, clash : BOOLEAN]

LegacyTypes ==
    /\ settings \in Legacy!Settings
    /\ pins \in [Legacy!Owner -> SUBSET Legacy!Owner]
    /\ disk \in Legacy!Saved \cup {Torn}
    /\ serving \in [Thread -> RequestState]
    /\ spoiled \in BOOLEAN
    /\ starts \in Nat /\ failures \in Nat

(* A dict of chat_ops is nobody's before the request that makes it.        *)
OpsIsOwn ==
    \A t \in Thread : serving[t].at = "new" =>
        /\ settings.ops # t
        /\ \A k \in Thread : serving[k].at = "copied" => serving[k].copy.ops # t

(* What a request has read differs from what there is in what changed.     *)
ChangedKnows(t) ==
    /\ serving[t].at = "read" => serving[t].op \in {"login", "logout", "create", "drop", "pin"}
    /\ serving[t].at = "copied" => serving[t].op = "put"
    /\ serving[t].at = "read" /\ serving[t].op \in {"login", "create"} => serving[t].key = t
    /\ serving[t].at = "read" /\ serving[t].op \in {"login", "logout"} =>
         Legacy!Of("sessions", settings.sessions, serving[t].read) \subseteq changed[t]
    /\ serving[t].at = "read" /\ serving[t].op \in {"create", "drop"} =>
         Legacy!Of("workspaces", settings.workspaces, serving[t].read) \subseteq changed[t]
    /\ serving[t].at = "read" /\ serving[t].op = "pin" =>
         Legacy!Of("pins", pins[serving[t].key], serving[t].read) \subseteq changed[t]
    /\ serving[t].at = "copied" =>
         /\ Legacy!Of("sessions", settings.sessions, serving[t].copy.sessions) \subseteq changed[t]
         /\ Legacy!Of("workspaces", settings.workspaces, serving[t].copy.workspaces)
              \subseteq changed[t]
         /\ Legacy!Of("pins", pins[settings.ops], pins[serving[t].copy.ops]) \subseteq changed[t]

ToWrite == {t \in Thread : serving[t].at \in {"encoded", "writing"}}

Excused(t) == serving[t].late \/ serving[t].op = "job"

(* Unless a change is still to be encoded: the newest save is to come, or  *)
(* the file has it or is being written and what is to come besides is late *)
(* or a job's, or the file is spoiled and so is all that is to come.       *)
NewestWrite ==
    (\A t \in Thread : serving[t].at # "changed") =>
        \/ \E t \in ToWrite : serving[t].data = Legacy!Content
        \/ /\ disk = Legacy!Content \/ Legacy!Writing # {}
           /\ \A t \in ToWrite : serving[t].data # Legacy!Content => Excused(t)
        \/ /\ spoiled
           /\ \A t \in ToWrite : Excused(t)

LegacyInv ==
    /\ LegacyTypes /\ OpsIsOwn
    /\ \A t \in Thread : ChangedKnows(t)
    /\ NewestWrite

-----------------------------------------------------------------------------
LEMMA OwnerName == Main \in Legacy!Owner /\ \A t \in Thread : t \in Legacy!Owner /\ t # Main
  BY ConsoleAssumption DEF Legacy!Owner

LEMMA LegacyDefaults ==
    /\ Legacy!Default \in Legacy!Saved
    /\ \A c \in Legacy!Saved : Legacy!Loaded(c) \in Legacy!Settings
    /\ Legacy!New \in RequestState
<1>1. Legacy!Default \in Legacy!Saved
  BY OwnerName DEF Legacy!Default, Legacy!Saved
<1>2. \A c \in Legacy!Saved : Legacy!Loaded(c) \in Legacy!Settings
  BY OwnerName DEF Legacy!Saved, Legacy!Settings, Legacy!Loaded
<1>3. Legacy!Loaded(Legacy!Default) \in Legacy!Settings
  BY <1>1, <1>2
<1> QED BY <1>1, <1>2, <1>3, OwnerName DEF Legacy!New, RequestState

LEMMA ContentType == ASSUME LegacyTypes PROVE Legacy!Content \in Legacy!Saved
  BY DEF LegacyTypes, Legacy!Content, Legacy!Saved, Legacy!Settings

LEMMA RequestUpdates ==
    ASSUME NEW s \in RequestState
    PROVE  /\ \A a \in {"changed", "done"} : [s EXCEPT !.at = a] \in RequestState
           /\ \A op \in {"login", "logout", "create", "drop", "pin"},
                key \in Legacy!Owner, part \in SUBSET Legacy!Owner :
                [s EXCEPT !.at = "read", !.op = op, !.key = key, !.read = part] \in RequestState
           /\ \A c \in Legacy!Settings :
                [s EXCEPT !.at = "copied", !.op = "put", !.copy = c] \in RequestState
           /\ \A c \in Legacy!Saved : [s EXCEPT !.at = "encoded", !.data = c] \in RequestState
           /\ \A b \in BOOLEAN : [s EXCEPT !.at = "writing", !.clash = b] \in RequestState
           /\ [s EXCEPT !.at = "encoded", !.op = "job"] \in RequestState
           /\ [s EXCEPT !.clash = TRUE] \in RequestState
           /\ [s EXCEPT !.late = TRUE] \in RequestState
<1>1. \A a \in {"changed", "done"} : [s EXCEPT !.at = a] \in RequestState
  BY DEF RequestState
<1>2. \A op \in {"login", "logout", "create", "drop", "pin"},
         key \in Legacy!Owner, part \in SUBSET Legacy!Owner :
        [s EXCEPT !.at = "read", !.op = op, !.key = key, !.read = part] \in RequestState
  BY DEF RequestState
<1>3. \A c \in Legacy!Settings :
        [s EXCEPT !.at = "copied", !.op = "put", !.copy = c] \in RequestState
  BY DEF RequestState
<1>4. \A c \in Legacy!Saved : [s EXCEPT !.at = "encoded", !.data = c] \in RequestState
  BY DEF RequestState
<1>5. \A b \in BOOLEAN : [s EXCEPT !.at = "writing", !.clash = b] \in RequestState
  BY DEF RequestState
<1>6. [s EXCEPT !.at = "encoded", !.op = "job"] \in RequestState
  BY DEF RequestState
<1>7. [s EXCEPT !.clash = TRUE] \in RequestState /\ [s EXCEPT !.late = TRUE] \in RequestState
  BY DEF RequestState
<1> QED BY <1>1, <1>2, <1>3, <1>4, <1>5, <1>6, <1>7

LEMMA InitLegacy == Legacy!Init => LegacyInv
<1> SUFFICES ASSUME Legacy!Init PROVE LegacyInv
  OBVIOUS
<1>1. LegacyTypes
  <2>1. settings \in Legacy!Settings
    <3>1. Legacy!Loaded(Legacy!Default) \in Legacy!Settings
      BY LegacyDefaults
    <3> DEFINE d == Legacy!Loaded(Legacy!Default)
    <3>2. d \in Legacy!Settings
      BY <3>1
    <3> HIDE DEF d
    <3>3. settings = [d EXCEPT !.sessions = {Main}]
      BY DEF d, Legacy!Init
    <3> QED BY <3>2, <3>3, OwnerName DEF Legacy!Settings
  <2>2. pins \in [Legacy!Owner -> SUBSET Legacy!Owner]
    BY DEF Legacy!Init
  <2>3. disk \in Legacy!Saved
    BY <2>1, <2>2 DEF Legacy!Init, Legacy!Content, Legacy!Saved, Legacy!Settings
  <2>4. serving \in [Thread -> RequestState]
    BY LegacyDefaults DEF Legacy!Init
  <2> QED BY <2>1, <2>2, <2>3, <2>4 DEF LegacyTypes, Legacy!Init
<1>2. \A t \in Thread : serving[t].at = "new"
  BY DEF Legacy!Init, Legacy!New
<1>3. settings.ops = Main
  BY DEF Legacy!Init, Legacy!Loaded
<1>4. OpsIsOwn
  BY <1>2, <1>3, OwnerName DEF OpsIsOwn
<1>5. \A t \in Thread : ChangedKnows(t)
  BY <1>2 DEF ChangedKnows
<1>6. NewestWrite
  BY <1>2 DEF NewestWrite, ToWrite, Legacy!Init
<1> QED BY <1>1, <1>4, <1>5, <1>6 DEF LegacyInv

-----------------------------------------------------------------------------
(* The steps of the threads, field by field.                               *)
Alone(t) ==
    /\ serving' \in [Thread -> RequestState]
    /\ \A k \in Thread \ {t} : serving'[k] = serving[k]

(* Another thread's step leaves all of a request but its marks.            *)
LeavesOthers(t) ==
    /\ serving' \in [Thread -> RequestState]
    /\ \A k \in Thread \ {t} :
         /\ serving'[k].at = serving[k].at /\ serving'[k].op = serving[k].op
         /\ serving'[k].key = serving[k].key /\ serving'[k].read = serving[k].read
         /\ serving'[k].copy = serving[k].copy /\ serving'[k].data = serving[k].data
         /\ serving[k].late => serving'[k].late

LEMMA AloneLeaves == \A t \in Thread : Alone(t) => LeavesOthers(t)
  BY DEF Alone, LeavesOthers

LEMMA LegacyGoes ==
    ASSUME LegacyTypes, NEW t \in Thread, NEW s \in RequestState, Legacy!Goes(t, s)
    PROVE  serving'[t] = s /\ Alone(t)
  BY DEF LegacyTypes, Legacy!Goes, Alone

LEMMA ReadsDoes ==
    ASSUME LegacyTypes, NEW t \in Thread, NEW op \in {"login", "logout", "create", "drop", "pin"},
           NEW key \in Legacy!Owner, NEW part \in SUBSET Legacy!Owner,
           Legacy!Goes(t, [Legacy!New EXCEPT !.at = "read", !.op = op, !.key = key, !.read = part])
    PROVE  /\ serving'[t].at = "read" /\ serving'[t].op = op
           /\ serving'[t].key = key /\ serving'[t].read = part
           /\ Alone(t)
<1> DEFINE n == Legacy!New
           s == [n EXCEPT !.at = "read", !.op = op, !.key = key, !.read = part]
<1>1. n \in RequestState
  BY LegacyDefaults
<1>2. Legacy!Goes(t, s)
  OBVIOUS
<1> HIDE DEF n
<1>3. s \in RequestState
  BY <1>1, RequestUpdates
<1>4. s.at = "read" /\ s.op = op /\ s.key = key /\ s.read = part
  BY <1>1 DEF RequestState
<1> HIDE DEF s
<1> QED BY <1>2, <1>3, <1>4, LegacyGoes

LEMMA ChangedDoes ==
    ASSUME LegacyTypes, NEW t \in Thread, Legacy!Goes(t, Legacy!Changed)
    PROVE  serving'[t].at = "changed" /\ Alone(t)
<1>1. Legacy!Changed \in RequestState
  BY LegacyDefaults, RequestUpdates DEF Legacy!Changed
<1>2. Legacy!Changed.at = "changed"
  BY DEF Legacy!Changed, Legacy!New
<1> QED BY <1>1, <1>2, LegacyGoes

LEMMA CopiesDoes ==
    ASSUME LegacyTypes, NEW t \in Thread, NEW sent \in BOOLEAN, Legacy!PutCopies(t, sent)
    PROVE  /\ serving'[t].at = "copied" /\ serving'[t].op = "put"
           /\ serving'[t].copy = IF sent THEN [settings EXCEPT !.ops = t] ELSE settings
           /\ serving'[t].copy \in Legacy!Settings
           /\ Alone(t)
<1> DEFINE n == Legacy!New
           c == IF sent THEN [settings EXCEPT !.ops = t] ELSE settings
           s == [n EXCEPT !.at = "copied", !.op = "put", !.copy = c]
<1>1. n \in RequestState
  BY LegacyDefaults
<1>2. c \in Legacy!Settings
  BY OwnerName DEF LegacyTypes, Legacy!Settings
<1>3. Legacy!Goes(t, s)
  BY DEF Legacy!PutCopies
<1> HIDE DEF n, c
<1>4. s \in RequestState
  BY <1>1, <1>2, RequestUpdates
<1>5. s.at = "copied" /\ s.op = "put" /\ s.copy = c
  BY <1>1 DEF RequestState
<1> HIDE DEF s
<1>6. /\ serving'[t].at = "copied" /\ serving'[t].op = "put" /\ serving'[t].copy = c
      /\ Alone(t)
  BY <1>3, <1>4, <1>5, LegacyGoes
<1> QED BY <1>2, <1>6 DEF c

LEMMA LegacyEncodeDoes ==
    ASSUME LegacyTypes, NEW t \in Thread, Legacy!Encode(t)
    PROVE  serving'[t].at = "encoded" /\ serving'[t].data = Legacy!Content /\ Alone(t)
<1> DEFINE c == Legacy!Content
           s == [serving[t] EXCEPT !.at = "encoded", !.data = c]
<1>1. serving[t] \in RequestState /\ c \in Legacy!Saved
  BY ContentType DEF LegacyTypes
<1>2. Legacy!Goes(t, s)
  BY DEF Legacy!Encode
<1> HIDE DEF c
<1>3. s \in RequestState
  BY <1>1, RequestUpdates
<1>4. s.at = "encoded" /\ s.data = c
  BY <1>1 DEF RequestState
<1> HIDE DEF s
<1>5. serving'[t].at = "encoded" /\ serving'[t].data = c /\ Alone(t)
  BY <1>2, <1>3, <1>4, LegacyGoes
<1> QED BY <1>5 DEF c

LEMMA JobDoes ==
    ASSUME LegacyTypes, NEW t \in Thread, Legacy!JobLoads(t)
    PROVE  serving'[t].at = "encoded" /\ serving'[t].op = "job" /\ Alone(t)
<1> DEFINE n == Legacy!New
           s == [n EXCEPT !.at = "encoded", !.op = "job"]
<1>1. n \in RequestState
  BY LegacyDefaults
<1>2. Legacy!Goes(t, s)
  BY DEF Legacy!JobLoads
<1> HIDE DEF n
<1>3. s \in RequestState
  BY <1>1, RequestUpdates
<1>4. s.at = "encoded" /\ s.op = "job"
  BY <1>1 DEF RequestState
<1> HIDE DEF s
<1> QED BY <1>2, <1>3, <1>4, LegacyGoes

LEMMA EndsDoes ==
    ASSUME LegacyTypes, NEW t \in Thread, Legacy!Ends(t)
    PROVE  /\ serving'[t].at = "done" /\ LeavesOthers(t)
           /\ \A k \in Thread \ {t} : serving[k].at \in {"encoded", "writing"} => serving'[k].late
<1> DEFINE n == Legacy!New
           d == [n EXCEPT !.at = "done"]
<1>0. \A k \in Thread : serving[k] \in RequestState
  BY DEF LegacyTypes
<1>1. n \in RequestState
  BY LegacyDefaults
<1>2. serving' = [k \in Thread |->
                    IF k = t THEN d
                    ELSE IF serving[k].at \in {"encoded", "writing"}
                      THEN [serving[k] EXCEPT !.late = TRUE] ELSE serving[k]]
  BY DEF Legacy!Ends
<1> HIDE DEF n
<1>3. d \in RequestState /\ d.at = "done"
  <2>1. d \in RequestState
    BY <1>1, RequestUpdates
  <2>2. d.at = "done"
    BY <1>1 DEF RequestState
  <2> QED BY <2>1, <2>2
<1> HIDE DEF d
<1>4. ASSUME NEW k \in Thread \ {t}
      PROVE  /\ serving'[k] \in RequestState
             /\ serving'[k].at = serving[k].at /\ serving'[k].op = serving[k].op
             /\ serving'[k].key = serving[k].key /\ serving'[k].read = serving[k].read
             /\ serving'[k].copy = serving[k].copy /\ serving'[k].data = serving[k].data
             /\ serving[k].late => serving'[k].late
             /\ serving[k].at \in {"encoded", "writing"} => serving'[k].late
  <2>1. serving'[k] = IF serving[k].at \in {"encoded", "writing"}
                      THEN [serving[k] EXCEPT !.late = TRUE] ELSE serving[k]
    BY <1>2
  <2>2. [serving[k] EXCEPT !.late = TRUE] \in RequestState
    BY <1>0, RequestUpdates
  <2> QED BY <1>0, <2>1, <2>2 DEF RequestState
<1>5. serving'[t] = d
  BY <1>2
<1>6. \A k \in Thread : serving'[k] \in RequestState
  BY <1>3, <1>4, <1>5
<1>7. serving' \in [Thread -> RequestState]
  BY <1>2, <1>6
<1> QED BY <1>3, <1>4, <1>5, <1>7 DEF LeavesOthers

LEMMA OpenDoes ==
    ASSUME LegacyTypes, NEW t \in Thread, Legacy!Open(t)
    PROVE  /\ serving[t].at = "encoded" /\ serving'[t].at = "writing"
           /\ serving'[t].op = serving[t].op /\ serving'[t].data = serving[t].data
           /\ serving'[t].late = serving[t].late
           /\ LeavesOthers(t)
<1>0. \A k \in Thread : serving[k] \in RequestState
  BY DEF LegacyTypes
<1> DEFINE b == Legacy!Writing # {}
<1>1. serving' = [k \in Thread |->
                IF k = t THEN [serving[t] EXCEPT !.at = "writing", !.clash = b]
                ELSE IF k \in Legacy!Writing THEN [serving[k] EXCEPT !.clash = TRUE] ELSE serving[k]]
  BY DEF Legacy!Open
<1>2. b \in BOOLEAN
  OBVIOUS
<1> HIDE DEF b
<1>3. serving'[t] = [serving[t] EXCEPT !.at = "writing", !.clash = b]
  BY <1>1
<1>4. /\ serving'[t] \in RequestState /\ serving'[t].at = "writing"
      /\ serving'[t].op = serving[t].op /\ serving'[t].data = serving[t].data
      /\ serving'[t].late = serving[t].late
  <2>1. [serving[t] EXCEPT !.at = "writing", !.clash = b] \in RequestState
    BY <1>0, <1>2, RequestUpdates
  <2> QED BY <1>0, <1>3, <2>1 DEF RequestState
<1>5. ASSUME NEW k \in Thread \ {t}
      PROVE  /\ serving'[k] \in RequestState
             /\ serving'[k].at = serving[k].at /\ serving'[k].op = serving[k].op
             /\ serving'[k].key = serving[k].key /\ serving'[k].read = serving[k].read
             /\ serving'[k].copy = serving[k].copy /\ serving'[k].data = serving[k].data
             /\ serving[k].late => serving'[k].late
  <2>1. serving'[k] = serving[k] \/ serving'[k] = [serving[k] EXCEPT !.clash = TRUE]
    BY <1>1
  <2>2. [serving[k] EXCEPT !.clash = TRUE] \in RequestState
    BY <1>0, RequestUpdates
  <2> QED BY <1>0, <2>1, <2>2 DEF RequestState
<1>6. \A k \in Thread : serving'[k] \in RequestState
  BY <1>4, <1>5
<1>7. serving' \in [Thread -> RequestState]
  BY <1>1, <1>6
<1> QED BY <1>4, <1>5, <1>7 DEF LeavesOthers, Legacy!Open

LEMMA LegacyRestartDoes ==
    ASSUME LegacyTypes, Legacy!Restart
    PROVE  /\ serving' \in [Thread -> RequestState]
           /\ \A k \in Thread :
                \/ serving[k].at = "new" /\ serving'[k].at = "new"
                \/ serving'[k].at = "done"
                \/ /\ serving[k].op = "job" /\ serving'[k].at = serving[k].at
                   /\ serving'[k].op = "job" /\ serving'[k].late
<1>0. \A k \in Thread : serving[k] \in RequestState
  BY DEF LegacyTypes
<1> DEFINE n == Legacy!New
           d == [n EXCEPT !.at = "done"]
<1>1. n \in RequestState /\ n.at = "new"
  BY LegacyDefaults DEF Legacy!New
<1>2. serving' = [k \in Thread |->
                IF serving[k].at = "new" THEN n
                ELSE IF serving[k].op = "job" THEN [serving[k] EXCEPT !.late = TRUE] ELSE d]
  BY DEF Legacy!Restart
<1> HIDE DEF n
<1>3. d \in RequestState /\ d.at = "done"
  <2>1. d \in RequestState
    BY <1>1, RequestUpdates
  <2>2. d.at = "done"
    BY <1>1 DEF RequestState
  <2> QED BY <2>1, <2>2
<1> HIDE DEF d
<1>4. ASSUME NEW k \in Thread
      PROVE  /\ serving'[k] \in RequestState
             /\ \/ serving[k].at = "new" /\ serving'[k].at = "new"
                \/ serving'[k].at = "done"
                \/ /\ serving[k].op = "job" /\ serving'[k].at = serving[k].at
                   /\ serving'[k].op = "job" /\ serving'[k].late
  <2>1. serving'[k] = IF serving[k].at = "new" THEN n
                ELSE IF serving[k].op = "job" THEN [serving[k] EXCEPT !.late = TRUE] ELSE d
    BY <1>2
  <2>2. [serving[k] EXCEPT !.late = TRUE] \in RequestState
    BY <1>0, RequestUpdates
  <2> QED BY <1>0, <1>1, <1>3, <2>1, <2>2 DEF RequestState
<1>5. serving' \in [Thread -> RequestState]
  BY <1>2, <1>4
<1> QED BY <1>4, <1>5

(* The steps in kinds: a request reads a part, ...                         *)
ReadsPart(t) ==
    /\ serving[t].at = "new" /\ serving'[t].at = "read" /\ Alone(t)
    /\ settings' = settings /\ pins' = pins
    /\ disk' = disk /\ spoiled' = spoiled /\ starts' = starts /\ failures' = failures
    /\ \/ /\ serving'[t].op \in {"login", "logout"} /\ serving'[t].read = settings.sessions
          /\ serving'[t].op = "login" => serving'[t].key = t
       \/ /\ serving'[t].op \in {"create", "drop"} /\ serving'[t].read = settings.workspaces
          /\ serving'[t].op = "create" => serving'[t].key = t
       \/ /\ serving'[t].op = "pin"
          /\ serving'[t].key = settings.ops /\ serving'[t].read = pins[settings.ops]

(* ... or it changes what is in memory, by what it has read or copied.     *)
ChangesMemory(t) ==
    /\ serving[t].at \in {"new", "read", "copied"} /\ serving'[t].at = "changed" /\ Alone(t)
    /\ settings' \in Legacy!Settings /\ pins' \in [Legacy!Owner -> SUBSET Legacy!Owner]
    /\ disk' = disk /\ spoiled' = spoiled /\ starts' = starts /\ failures' = failures
    /\ settings'.ops = IF serving[t].at = "copied" THEN serving[t].copy.ops ELSE settings.ops

LEMMA Reading ==
    ASSUME LegacyTypes, NEW t \in Thread
    PROVE  /\ \A op \in {"login", "logout"}, k \in Legacy!Owner :
                 Legacy!ReadSessions(t, op, k) => ReadsPart(t)
           /\ Legacy!ReadWorkspaces(t, "create", t) => ReadsPart(t)
           /\ \A k \in Legacy!Owner : Legacy!ReadWorkspaces(t, "drop", k) => ReadsPart(t)
           /\ Legacy!ReadPins(t) => ReadsPart(t)
<1>0. /\ settings.sessions \in SUBSET Legacy!Owner /\ settings.workspaces \in SUBSET Legacy!Owner
      /\ settings.ops \in Legacy!Owner /\ pins[settings.ops] \in SUBSET Legacy!Owner
  BY DEF LegacyTypes, Legacy!Settings
<1>1. ASSUME NEW op \in {"login", "logout"}, NEW k \in Legacy!Owner, Legacy!ReadSessions(t, op, k)
      PROVE  ReadsPart(t)
  <2>1. /\ serving[t].at = "new" /\ settings' = settings /\ pins' = pins
        /\ disk' = disk /\ spoiled' = spoiled /\ starts' = starts /\ failures' = failures
        /\ op = "login" => k = t
    BY <1>1 DEF Legacy!ReadSessions, Legacy!Reads, Legacy!Quiet
  <2>2. PICK part \in SUBSET Legacy!Owner :
          /\ part = settings.sessions
          /\ Legacy!Goes(t, [Legacy!New EXCEPT !.at = "read", !.op = op, !.key = k, !.read = part])
    BY <1>0, <1>1 DEF Legacy!ReadSessions, Legacy!Reads
  <2>3. /\ serving'[t].at = "read" /\ serving'[t].op = op
        /\ serving'[t].key = k /\ serving'[t].read = part /\ Alone(t)
    BY <2>2, ReadsDoes
  <2> QED BY <2>1, <2>2, <2>3 DEF ReadsPart
<1>2. ASSUME NEW op \in {"create", "drop"}, NEW k \in Legacy!Owner, Legacy!ReadWorkspaces(t, op, k)
      PROVE  ReadsPart(t)
  <2>1. /\ serving[t].at = "new" /\ settings' = settings /\ pins' = pins
        /\ disk' = disk /\ spoiled' = spoiled /\ starts' = starts /\ failures' = failures
        /\ op = "create" => k = t
    BY <1>2 DEF Legacy!ReadWorkspaces, Legacy!Reads, Legacy!Quiet
  <2>2. PICK part \in SUBSET Legacy!Owner :
          /\ part = settings.workspaces
          /\ Legacy!Goes(t, [Legacy!New EXCEPT !.at = "read", !.op = op, !.key = k, !.read = part])
    BY <1>0, <1>2 DEF Legacy!ReadWorkspaces, Legacy!Reads
  <2>3. /\ serving'[t].at = "read" /\ serving'[t].op = op
        /\ serving'[t].key = k /\ serving'[t].read = part /\ Alone(t)
    BY <2>2, ReadsDoes
  <2> QED BY <2>1, <2>2, <2>3 DEF ReadsPart
<1>3. ASSUME Legacy!ReadPins(t) PROVE ReadsPart(t)
  <2>1. /\ serving[t].at = "new" /\ settings' = settings /\ pins' = pins
        /\ disk' = disk /\ spoiled' = spoiled /\ starts' = starts /\ failures' = failures
    BY <1>3 DEF Legacy!ReadPins, Legacy!Quiet
  <2>2. PICK op \in {"login", "logout", "create", "drop", "pin"},
             key \in Legacy!Owner, part \in SUBSET Legacy!Owner :
          /\ op = "pin" /\ key = settings.ops /\ part = pins[settings.ops]
          /\ Legacy!Goes(t, [Legacy!New EXCEPT !.at = "read", !.op = op, !.key = key, !.read = part])
    BY <1>0, <1>3 DEF Legacy!ReadPins
  <2>3. Legacy!Goes(t, [Legacy!New EXCEPT !.at = "read", !.op = op, !.key = key, !.read = part])
    BY <2>2
  <2>4. /\ serving'[t].at = "read" /\ serving'[t].op = op
        /\ serving'[t].key = key /\ serving'[t].read = part /\ Alone(t)
    BY <2>3, ReadsDoes
  <2> QED BY <2>1, <2>2, <2>4 DEF ReadsPart
<1>4. t \in Legacy!Owner
  BY OwnerName
<1>5. Legacy!ReadWorkspaces(t, "create", t) => ReadsPart(t)
  BY <1>2, <1>4
<1> QED BY <1>1, <1>2, <1>3, <1>5

LEMMA Changing ==
    ASSUME LegacyTypes, NEW t \in Thread,
           \/ Legacy!PutsSessions(t) \/ Legacy!PutsWorkspaces(t) \/ Legacy!Pins(t)
           \/ Legacy!Toggle(t) \/ Legacy!SetsPassword(t)
           \/ \E password \in BOOLEAN : Legacy!PutReplaces(t, password)
    PROVE  ChangesMemory(t)
<1>0. serving[t] \in RequestState /\ t \in Legacy!Owner
  BY OwnerName DEF LegacyTypes
<1>1. serving'[t].at = "changed" /\ Alone(t)
  BY ChangedDoes DEF Legacy!PutsSessions, Legacy!PutsWorkspaces, Legacy!Pins, Legacy!Toggle,
     Legacy!SetsPassword, Legacy!PutReplaces
<1>2. disk' = disk /\ spoiled' = spoiled /\ starts' = starts /\ failures' = failures
  BY DEF Legacy!PutsSessions, Legacy!PutsWorkspaces, Legacy!Pins, Legacy!Toggle,
     Legacy!SetsPassword, Legacy!PutReplaces, Legacy!Quiet
<1>a. settings \in Legacy!Settings /\ pins \in [Legacy!Owner -> SUBSET Legacy!Owner]
  BY DEF LegacyTypes
<1>b. ASSUME NEW x \in SUBSET Legacy!Owner
      PROVE  /\ [settings EXCEPT !.sessions = x] \in Legacy!Settings
             /\ [settings EXCEPT !.sessions = x].ops = settings.ops
             /\ [settings EXCEPT !.workspaces = x] \in Legacy!Settings
             /\ [settings EXCEPT !.workspaces = x].ops = settings.ops
  BY <1>a DEF Legacy!Settings
<1>c. ASSUME NEW c \in Legacy!Settings
      PROVE  [c EXCEPT !.auth = t] \in Legacy!Settings /\ [c EXCEPT !.auth = t].ops = c.ops
  BY <1>0 DEF Legacy!Settings
<1> DEFINE Rest == /\ serving[t].at \in {"new", "read", "copied"}
                   /\ settings' \in Legacy!Settings
                   /\ pins' \in [Legacy!Owner -> SUBSET Legacy!Owner]
                   /\ settings'.ops = IF serving[t].at = "copied" THEN serving[t].copy.ops
                                       ELSE settings.ops
<1>3. ASSUME Legacy!PutsSessions(t) PROVE Rest
  <2>1. \E x \in SUBSET Legacy!Owner : settings' = [settings EXCEPT !.sessions = x]
    BY <1>0, <1>3 DEF Legacy!PutsSessions, Legacy!Sessions, RequestState
  <2>2. serving[t].at = "read" /\ pins' = pins
    BY <1>3 DEF Legacy!PutsSessions
  <2> QED BY <1>a, <1>b, <2>1, <2>2
<1>4. ASSUME Legacy!PutsWorkspaces(t) PROVE Rest
  <2>1. \E x \in SUBSET Legacy!Owner : settings' = [settings EXCEPT !.workspaces = x]
    BY <1>0, <1>4 DEF Legacy!PutsWorkspaces, RequestState
  <2>2. serving[t].at = "read" /\ pins' = pins
    BY <1>4 DEF Legacy!PutsWorkspaces
  <2> QED BY <1>a, <1>b, <2>1, <2>2
<1>5. ASSUME Legacy!Pins(t) PROVE Rest
  <2>1. serving[t].read \cup {t} \in SUBSET Legacy!Owner
    BY <1>0 DEF RequestState
  <2>2. pins' \in [Legacy!Owner -> SUBSET Legacy!Owner]
    BY <1>a, <1>5, <2>1 DEF Legacy!Pins
  <2>3. serving[t].at = "read" /\ settings' = settings
    BY <1>5 DEF Legacy!Pins
  <2> QED BY <1>a, <2>2, <2>3
<1>6. ASSUME Legacy!Toggle(t) PROVE Rest
  <2>1. pins' \in [Legacy!Owner -> SUBSET Legacy!Owner]
    BY <1>0, <1>a, <1>6 DEF Legacy!Toggle
  <2>2. serving[t].at = "new" /\ settings' = settings
    BY <1>6 DEF Legacy!Toggle
  <2> QED BY <1>a, <2>1, <2>2
<1>7. ASSUME Legacy!SetsPassword(t) PROVE Rest
  <2>1. settings' = [settings EXCEPT !.auth = t] /\ serving[t].at = "new" /\ pins' = pins
    BY <1>7 DEF Legacy!SetsPassword
  <2>2. settings' \in Legacy!Settings /\ settings'.ops = settings.ops
    BY <1>0, <1>a, <2>1 DEF Legacy!Settings
  <2> QED BY <1>a, <2>1, <2>2
<1>8. ASSUME NEW password \in BOOLEAN, Legacy!PutReplaces(t, password) PROVE Rest
  <2>1. PICK c \in Legacy!Settings : c = serving[t].copy
    BY <1>0 DEF RequestState
  <2>2. settings' \in {c, [c EXCEPT !.auth = t]} /\ pins' = pins /\ serving[t].at = "copied"
    BY <1>8, <2>1 DEF Legacy!PutReplaces
  <2>3. settings' \in Legacy!Settings /\ settings'.ops = c.ops
    BY <1>c, <2>2
  <2> QED BY <1>a, <2>1, <2>2, <2>3
<1>9. Rest
  BY <1>3, <1>4, <1>5, <1>6, <1>7, <1>8
<1> QED BY <1>1, <1>2, <1>9 DEF ChangesMemory

LEMMA LegacyKinds ==
    ASSUME LegacyTypes, NEW t \in Thread, Legacy!Step(t)
    PROVE  \/ ReadsPart(t)
           \/ ChangesMemory(t)
           \/ \E sent \in BOOLEAN : Legacy!PutCopies(t, sent)
           \/ Legacy!Encode(t) \/ Legacy!Open(t) \/ Legacy!Write(t) \/ Legacy!SaveFails(t)
           \/ Legacy!JobLoads(t)
  BY Reading, Changing DEF Legacy!Step

LEMMA LegacyTypesStep == LegacyInv /\ [Legacy!Next]_legacyVars => LegacyTypes'
<1> SUFFICES ASSUME LegacyInv, Legacy!Next PROVE LegacyTypes'
  BY DEF LegacyInv, LegacyTypes, legacyVars, Legacy!vars
<1>0. LegacyTypes
  BY DEF LegacyInv
<1>1. CASE Legacy!Restart
  <2>1. disk' \in Legacy!Saved
    BY <1>0, <1>1, LegacyDefaults DEF Legacy!Restart, LegacyTypes
  <2>2. settings' \in Legacy!Settings
    BY <1>1, <2>1, LegacyDefaults DEF Legacy!Restart
  <2>3. disk'.pins \in SUBSET Legacy!Owner
    BY <2>1 DEF Legacy!Saved
  <2>4. pins' \in [Legacy!Owner -> SUBSET Legacy!Owner]
    BY <1>1, <2>3 DEF Legacy!Restart
  <2>5. spoiled' = FALSE /\ starts' = starts + 1 /\ failures' = failures /\ starts \in Nat /\ failures \in Nat
    BY <1>0, <1>1 DEF Legacy!Restart, LegacyTypes
  <2>6. spoiled' \in BOOLEAN
    BY <2>5
  <2>7. starts' \in Nat /\ failures' \in Nat
    BY <2>5
  <2> QED BY <1>0, <1>1, <2>1, <2>2, <2>4, <2>6, <2>7, LegacyRestartDoes DEF LegacyTypes
<1>2. ASSUME NEW t \in Thread, Legacy!Step(t) PROVE LegacyTypes'
  <2>1. CASE ReadsPart(t)
    BY <1>0, <2>1 DEF ReadsPart, Alone, LegacyTypes
  <2>2. CASE ChangesMemory(t)
    BY <1>0, <2>2 DEF ChangesMemory, Alone, LegacyTypes
  <2>3. ASSUME NEW sent \in BOOLEAN, Legacy!PutCopies(t, sent) PROVE LegacyTypes'
    <3>1. serving' \in [Thread -> RequestState]
      BY <1>0, <2>3, CopiesDoes DEF Alone
    <3>2. Legacy!Content.pins \in SUBSET Legacy!Owner
      BY <1>0 DEF Legacy!Content, LegacyTypes, Legacy!Settings
    <3>3. pins' \in [Legacy!Owner -> SUBSET Legacy!Owner]
      BY <1>0, <2>3, <3>2 DEF Legacy!PutCopies, LegacyTypes
    <3> QED BY <1>0, <2>3, <3>1, <3>3 DEF Legacy!PutCopies, Legacy!Quiet, LegacyTypes
  <2>4. CASE Legacy!Encode(t)
    <3>1. serving' \in [Thread -> RequestState]
      BY <1>0, <2>4, LegacyEncodeDoes DEF Alone
    <3> QED BY <1>0, <2>4, <3>1 DEF Legacy!Encode, Legacy!Quiet, LegacyTypes
  <2>5. CASE Legacy!Open(t)
    <3>1. serving' \in [Thread -> RequestState]
      BY <1>0, <2>5, OpenDoes DEF LeavesOthers
    <3> QED BY <1>0, <2>5, <3>1 DEF Legacy!Open, LegacyTypes
  <2>6. CASE Legacy!Write(t)
    <3>1. serving' \in [Thread -> RequestState]
      BY <1>0, <2>6, EndsDoes DEF LeavesOthers, Legacy!Write
    <3>2. serving[t] \in RequestState
      BY <1>0 DEF LegacyTypes
    <3>3. disk' \in Legacy!Saved \cup {Torn}
      BY <2>6, <3>2 DEF Legacy!Write, RequestState
    <3>4. spoiled' \in BOOLEAN
      BY <2>6 DEF Legacy!Write
    <3> QED BY <1>0, <2>6, <3>1, <3>3, <3>4 DEF Legacy!Write, LegacyTypes
  <2>7. CASE Legacy!SaveFails(t)
    <3>1. serving' \in [Thread -> RequestState]
      BY <1>0, <2>7, EndsDoes DEF LeavesOthers, Legacy!SaveFails
    <3>2. failures' = failures + 1 /\ failures \in Nat
      BY <1>0, <2>7 DEF Legacy!SaveFails, LegacyTypes
    <3>3. failures' \in Nat
      BY <3>2
    <3> QED BY <1>0, <2>7, <3>1, <3>3 DEF Legacy!SaveFails, LegacyTypes
  <2>8. CASE Legacy!JobLoads(t)
    <3>1. serving' \in [Thread -> RequestState]
      BY <1>0, <2>8, JobDoes DEF Alone
    <3> QED BY <1>0, <2>8, <3>1 DEF Legacy!JobLoads, Legacy!Quiet, LegacyTypes
  <2> QED BY <1>0, <1>2, <2>1, <2>2, <2>3, <2>4, <2>5, <2>6, <2>7, <2>8, LegacyKinds
<1> QED BY <1>1, <1>2 DEF Legacy!Next

(* What is saved moves on; what is in memory stays.                        *)
LEMMA Saving ==
    ASSUME LegacyTypes, NEW t \in Thread,
           \/ Legacy!Encode(t) \/ Legacy!Open(t) \/ Legacy!Write(t)
           \/ Legacy!SaveFails(t) \/ Legacy!JobLoads(t)
    PROVE  /\ settings' = settings /\ pins' = pins
           /\ LeavesOthers(t) /\ serving'[t].at \in {"encoded", "writing", "done"}
<1>1. CASE Legacy!Encode(t)
  BY <1>1, LegacyEncodeDoes, AloneLeaves DEF Legacy!Encode
<1>2. CASE Legacy!Open(t)
  BY <1>2, OpenDoes DEF Legacy!Open
<1>3. CASE Legacy!Write(t)
  BY <1>3, EndsDoes DEF Legacy!Write
<1>4. CASE Legacy!SaveFails(t)
  BY <1>4, EndsDoes DEF Legacy!SaveFails
<1>5. CASE Legacy!JobLoads(t)
  BY <1>5, JobDoes, AloneLeaves DEF Legacy!JobLoads
<1> QED BY <1>1, <1>2, <1>3, <1>4, <1>5

LEMMA OpsStep == LegacyInv /\ [Legacy!Next]_legacyVars => OpsIsOwn'
<1> SUFFICES ASSUME LegacyInv, Legacy!Next PROVE OpsIsOwn'
  BY DEF LegacyInv, OpsIsOwn, legacyVars, Legacy!vars
<1>0. LegacyTypes /\ OpsIsOwn /\ \A t \in Thread : ChangedKnows(t)
  BY DEF LegacyInv
<1>1. CASE Legacy!Restart
  <2>1. settings'.ops = Main
    BY <1>1 DEF Legacy!Restart, Legacy!Loaded
  <2>2. \A k \in Thread : serving'[k].at # "copied"
    BY <1>0, <1>1, LegacyRestartDoes DEF ChangedKnows
  <2> QED BY <2>1, <2>2, OwnerName DEF OpsIsOwn
<1>2. ASSUME NEW t \in Thread, Legacy!Step(t) PROVE OpsIsOwn'
  <2>1. CASE ReadsPart(t)
    BY <1>0, <2>1 DEF ReadsPart, Alone, OpsIsOwn
  <2>2. CASE ChangesMemory(t)
    BY <1>0, <2>2 DEF ChangesMemory, Alone, OpsIsOwn
  <2>3. ASSUME NEW sent \in BOOLEAN, Legacy!PutCopies(t, sent) PROVE OpsIsOwn'
    <3>1. serving'[t].copy.ops \in {t, settings.ops}
      BY <1>0, <2>3, CopiesDoes DEF LegacyTypes, Legacy!Settings
    <3>2. settings' = settings
      BY <2>3 DEF Legacy!PutCopies
    <3>3. serving'[t].at = "copied" /\ Alone(t)
      BY <1>0, <2>3, CopiesDoes
    <3> QED BY <1>0, <3>1, <3>2, <3>3 DEF Alone, OpsIsOwn
  <2>4. CASE settings' = settings /\ LeavesOthers(t)
             /\ serving'[t].at \in {"encoded", "writing", "done"}
    BY <1>0, <2>4 DEF LeavesOthers, OpsIsOwn
  <2> QED BY <1>0, <1>2, <2>1, <2>2, <2>3, <2>4, LegacyKinds, Saving
<1> QED BY <1>1, <1>2 DEF Legacy!Next

LEMMA OfDiffers ==
    ASSUME NEW f, NEW a, NEW b, NEW c
    PROVE  /\ Legacy!Of(f, a, a) = {}
           /\ Legacy!Of(f, a, c) \subseteq Legacy!Of(f, a, b) \cup Legacy!Of(f, b, c)
           /\ Legacy!Of(f, a, b) = Legacy!Of(f, b, a)
<1>1. Legacy!Of(f, a, a) = {}
  BY DEF Legacy!Of
<1>2. Legacy!Of(f, a, c) \subseteq Legacy!Of(f, a, b) \cup Legacy!Of(f, b, c)
  <2> SUFFICES ASSUME NEW k \in (a \ c) \cup (c \ a)
               PROVE  <<f, k>> \in Legacy!Of(f, a, b) \cup Legacy!Of(f, b, c)
    BY DEF Legacy!Of
  <2>1. k \in (a \ b) \cup (b \ a) \/ k \in (b \ c) \cup (c \ b)
    OBVIOUS
  <2> QED BY <2>1 DEF Legacy!Of
<1>3. Legacy!Of(f, a, b) = Legacy!Of(f, b, a)
  BY DEF Legacy!Of
<1> QED BY <1>1, <1>2, <1>3

(* What a request has read, and what changes then.                         *)
LEMMA ChangedGrows ==
    ASSUME LegacyInv, Legacy!Next, NEW k \in Thread,
           serving[k].at \in {"read", "copied"}, serving'[k].at = serving[k].at
    PROVE  /\ changed[k] \subseteq changed'[k]
           /\ Legacy!Of("sessions", settings'.sessions, settings.sessions) \subseteq changed'[k]
           /\ Legacy!Of("workspaces", settings'.workspaces, settings.workspaces) \subseteq changed'[k]
           /\ Legacy!Of("pins", pins'[settings'.ops], pins[settings.ops]) \subseteq changed'[k]
           /\ \A d \in Legacy!Owner : Legacy!Of("pins", pins'[d], pins[d]) \subseteq changed'[k]
<1>1. changed'[k] = changed[k] \cup Legacy!Differs(Legacy!Content, Legacy!Content')
                      \cup UNION {Legacy!Of("pins", pins[d], pins'[d]) : d \in Legacy!Owner}
  BY DEF Legacy!Next, Legacy!Watch
<1>2. /\ Legacy!Of("sessions", settings.sessions, settings'.sessions) \subseteq changed'[k]
      /\ Legacy!Of("workspaces", settings.workspaces, settings'.workspaces) \subseteq changed'[k]
      /\ Legacy!Of("pins", pins[settings.ops], pins'[settings'.ops]) \subseteq changed'[k]
  BY <1>1 DEF Legacy!Differs, Legacy!Content
<1>3. \A d \in Legacy!Owner : Legacy!Of("pins", pins[d], pins'[d]) \subseteq changed'[k]
  BY <1>1
<1>4. \A f, a, b : Legacy!Of(f, a, b) = Legacy!Of(f, b, a)
  BY OfDiffers
<1> QED BY <1>1, <1>2, <1>3, <1>4

LEMMA ChangedStep == LegacyInv /\ [Legacy!Next]_legacyVars => \A t \in Thread : ChangedKnows(t)'
<1> SUFFICES ASSUME LegacyInv, Legacy!Next, NEW k \in Thread PROVE ChangedKnows(k)'
  BY DEF LegacyInv, ChangedKnows, legacyVars, Legacy!vars
<1>0. LegacyTypes /\ OpsIsOwn /\ ChangedKnows(k)
  BY DEF LegacyInv
<1>a. \A f, a, b, c :
        /\ Legacy!Of(f, a, a) = {}
        /\ Legacy!Of(f, a, c) \subseteq Legacy!Of(f, a, b) \cup Legacy!Of(f, b, c)
  BY OfDiffers
<1>1. CASE Legacy!Restart
  <2>1. serving'[k].at \notin {"read", "copied"}
    BY <1>0, <1>1, LegacyRestartDoes DEF ChangedKnows
  <2> QED BY <2>1 DEF ChangedKnows
<1>2. ASSUME /\ serving[k].at \in {"read", "copied"} /\ serving'[k].at = serving[k].at
             /\ serving'[k].op = serving[k].op /\ serving'[k].key = serving[k].key
             /\ serving'[k].read = serving[k].read /\ serving'[k].copy = serving[k].copy
      PROVE  ChangedKnows(k)'
  <2> USE <1>2
  <2>1. /\ changed[k] \subseteq changed'[k]
        /\ Legacy!Of("sessions", settings'.sessions, settings.sessions) \subseteq changed'[k]
        /\ Legacy!Of("workspaces", settings'.workspaces, settings.workspaces) \subseteq changed'[k]
        /\ Legacy!Of("pins", pins'[settings'.ops], pins[settings.ops]) \subseteq changed'[k]
        /\ \A d \in Legacy!Owner : Legacy!Of("pins", pins'[d], pins[d]) \subseteq changed'[k]
    BY ChangedGrows
  <2>2. ASSUME NEW f, NEW a, NEW b, NEW c,
               Legacy!Of(f, a, b) \subseteq changed'[k], Legacy!Of(f, b, c) \subseteq changed[k]
        PROVE  Legacy!Of(f, a, c) \subseteq changed'[k]
    BY <1>a, <2>1, <2>2
  <2>3. serving[k] \in RequestState
    BY <1>0 DEF LegacyTypes
  <2>4. CASE serving[k].at = "read"
    <3>1. CASE serving[k].op \in {"login", "logout"}
      <4>1. Legacy!Of("sessions", settings'.sessions, serving[k].read) \subseteq changed'[k]
        <5>1. Legacy!Of("sessions", settings.sessions, serving[k].read) \subseteq changed[k]
          BY <1>0, <2>4, <3>1 DEF ChangedKnows
        <5> QED BY <1>a, <2>1, <5>1
      <4> QED BY <1>0, <2>4, <3>1, <4>1 DEF ChangedKnows
    <3>2. CASE serving[k].op \in {"create", "drop"}
      <4>1. Legacy!Of("workspaces", settings'.workspaces, serving[k].read) \subseteq changed'[k]
        <5>1. Legacy!Of("workspaces", settings.workspaces, serving[k].read) \subseteq changed[k]
          BY <1>0, <2>4, <3>2 DEF ChangedKnows
        <5> QED BY <1>a, <2>1, <5>1
      <4> QED BY <1>0, <2>4, <3>2, <4>1 DEF ChangedKnows
    <3>3. CASE serving[k].op = "pin"
      <4>1. Legacy!Of("pins", pins'[serving[k].key], serving[k].read) \subseteq changed'[k]
        <5>1. Legacy!Of("pins", pins[serving[k].key], serving[k].read) \subseteq changed[k]
          BY <1>0, <2>4, <3>3 DEF ChangedKnows
        <5>2. serving[k].key \in Legacy!Owner
          BY <2>3 DEF RequestState
        <5> QED BY <1>a, <2>1, <5>1, <5>2
      <4> QED BY <2>4, <3>3, <4>1 DEF ChangedKnows
    <3> QED BY <1>0, <2>4, <3>1, <3>2, <3>3 DEF ChangedKnows
  <2>5. CASE serving[k].at = "copied"
    <3> DEFINE c == serving[k].copy
    <3>1. /\ Legacy!Of("sessions", settings.sessions, c.sessions) \subseteq changed[k]
          /\ Legacy!Of("workspaces", settings.workspaces, c.workspaces) \subseteq changed[k]
          /\ Legacy!Of("pins", pins[settings.ops], pins[c.ops]) \subseteq changed[k]
          /\ serving[k].op = "put" /\ c.ops \in Legacy!Owner
      BY <1>0, <2>3, <2>5 DEF ChangedKnows, RequestState, Legacy!Settings
    <3> HIDE DEF c
    <3>2. Legacy!Of("sessions", settings'.sessions, c.sessions) \subseteq changed'[k]
      BY <1>a, <2>1, <3>1
    <3>3. Legacy!Of("workspaces", settings'.workspaces, c.workspaces) \subseteq changed'[k]
      BY <1>a, <2>1, <3>1
    <3>4. Legacy!Of("pins", pins'[settings'.ops], pins'[c.ops]) \subseteq changed'[k]
      <4>1. Legacy!Of("pins", pins'[settings'.ops], pins[c.ops]) \subseteq changed'[k]
        BY <1>a, <2>1, <3>1
      <4>2. Legacy!Of("pins", pins[c.ops], pins'[c.ops]) \subseteq changed'[k]
        BY <2>1, <3>1, OfDiffers
      <4> QED BY <1>a, <4>1, <4>2
    <3> QED BY <2>5, <3>1, <3>2, <3>3, <3>4 DEF ChangedKnows, c
  <2> QED BY <2>4, <2>5
<1>3. ASSUME NEW t \in Thread, Legacy!Step(t) PROVE ChangedKnows(k)'
  <2>1. CASE k # t
    <3>1. LeavesOthers(t)
      BY <1>0, <1>3, LegacyKinds, Saving, AloneLeaves, CopiesDoes DEF ReadsPart, ChangesMemory
    <3>2. CASE serving'[k].at \in {"read", "copied"}
      BY <1>2, <2>1, <3>1, <3>2 DEF LeavesOthers
    <3>3. CASE serving'[k].at \notin {"read", "copied"}
      BY <3>3 DEF ChangedKnows
    <3> QED BY <3>2, <3>3
  <2>2. CASE k = t
    <3>1. CASE ReadsPart(t)
      BY <1>a, <2>2, <3>1 DEF ReadsPart, ChangedKnows
    <3>2. ASSUME NEW sent \in BOOLEAN, Legacy!PutCopies(t, sent) PROVE ChangedKnows(k)'
      <4>1. /\ serving'[t].at = "copied" /\ serving'[t].op = "put"
            /\ serving'[t].copy = IF sent THEN [settings EXCEPT !.ops = t] ELSE settings
        BY <1>0, <3>2, CopiesDoes
      <4>2. /\ settings' = settings /\ settings.ops # t /\ settings.ops \in Legacy!Owner
            /\ pins' = IF sent THEN [pins EXCEPT ![t] = pins[settings.ops]] ELSE pins
        BY <1>0, <3>2 DEF Legacy!PutCopies, OpsIsOwn, Legacy!Content, LegacyTypes, Legacy!Settings
      <4>3. /\ serving'[t].copy.sessions = settings.sessions
            /\ serving'[t].copy.workspaces = settings.workspaces
            /\ serving'[t].copy.ops = IF sent THEN t ELSE settings.ops
        BY <1>0, <4>1 DEF LegacyTypes, Legacy!Settings
      <4>4. pins'[settings.ops] = pins[settings.ops]
            /\ pins'[serving'[t].copy.ops] = pins[settings.ops]
        BY <1>0, <4>2, <4>3, OwnerName DEF LegacyTypes
      <4> QED BY <1>a, <2>2, <4>1, <4>2, <4>3, <4>4 DEF ChangedKnows
    <3>3. CASE serving'[t].at \notin {"read", "copied"}
      BY <2>2, <3>3 DEF ChangedKnows
    <3> QED BY <1>0, <1>3, <3>1, <3>2, <3>3, LegacyKinds, Saving DEF ChangesMemory
  <2> QED BY <2>1, <2>2
<1> QED BY <1>1, <1>3 DEF Legacy!Next

LEMMA NewestWriteStep == LegacyInv /\ [Legacy!Next]_legacyVars => NewestWrite'
<1> SUFFICES ASSUME LegacyInv, Legacy!Next, \A t \in Thread : serving'[t].at # "changed"
             PROVE  NewestWrite'
  BY DEF LegacyInv, NewestWrite, ToWrite, Excused, Legacy!Content, Legacy!Writing, legacyVars,
         Legacy!vars
<1>0. LegacyTypes /\ NewestWrite /\ OpsIsOwn
  BY DEF LegacyInv
<1>1. CASE Legacy!Restart
  <2>1. \A t \in ToWrite' : Excused(t)'
    BY <1>0, <1>1, LegacyRestartDoes DEF ToWrite, Excused
  <2>2. disk' \in Legacy!Saved
    BY <1>0, <1>1, LegacyDefaults DEF Legacy!Restart, LegacyTypes
  <2>3. pins'[Main] = disk'.pins /\ settings' = Legacy!Loaded(disk')
    BY <1>1, OwnerName DEF Legacy!Restart
  <2>4. disk' = Legacy!Content'
    <3>1. Legacy!Content' = [sessions |-> disk'.sessions, workspaces |-> disk'.workspaces,
                             pins |-> disk'.pins, auth |-> disk'.auth]
      BY <2>3 DEF Legacy!Content, Legacy!Loaded
    <3> QED BY <2>2, <3>1 DEF Legacy!Saved
  <2> QED BY <2>1, <2>4 DEF NewestWrite
<1>2. ASSUME NEW t \in Thread, Legacy!Content' = Legacy!Content, disk' = disk, spoiled' = spoiled,
             serving[t].at = "new", serving'[t].at \in {"read", "copied"}, Alone(t)
      PROVE  NewestWrite'
  <2>1. \A k \in Thread : serving[k].at # "changed"
    BY <1>2 DEF Alone
  <2>2. ToWrite' = ToWrite /\ \A k \in ToWrite : serving'[k] = serving[k]
    BY <1>2 DEF ToWrite, Alone
  <2>3. Legacy!Writing' = Legacy!Writing
    BY <1>2 DEF Alone, Legacy!Writing
  <2> QED BY <1>0, <1>2, <2>1, <2>2, <2>3 DEF NewestWrite, Excused
<1>3. ASSUME NEW t \in Thread, Legacy!Step(t) PROVE NewestWrite'
  <2>1. CASE ReadsPart(t)
    <3>1. Legacy!Content' = Legacy!Content
      BY <2>1 DEF ReadsPart, Legacy!Content
    <3> QED BY <1>2, <2>1, <3>1 DEF ReadsPart
  <2>2. CASE ChangesMemory(t)
    BY <2>2 DEF ChangesMemory
  <2>3. ASSUME NEW sent \in BOOLEAN, Legacy!PutCopies(t, sent) PROVE NewestWrite'
    <3>1. serving[t].at = "new" /\ settings' = settings /\ disk' = disk /\ spoiled' = spoiled
      BY <2>3 DEF Legacy!PutCopies, Legacy!Quiet
    <3>2. pins'[settings.ops] = pins[settings.ops]
      BY <1>0, <2>3, <3>1 DEF Legacy!PutCopies, OpsIsOwn, LegacyTypes, Legacy!Settings
    <3>3. Legacy!Content' = Legacy!Content
      BY <3>1, <3>2 DEF Legacy!Content
    <3> QED BY <1>0, <1>2, <2>3, <3>1, <3>3, CopiesDoes
  <2>4. CASE Legacy!Encode(t)
    <3>1. t \in ToWrite' /\ serving'[t].data = Legacy!Content'
      BY <1>0, <2>4, LegacyEncodeDoes DEF ToWrite, Legacy!Encode, Legacy!Content
    <3> QED BY <3>1 DEF NewestWrite
  <2>5. CASE Legacy!Open(t)
    <3>1. Legacy!Content' = Legacy!Content /\ spoiled' = spoiled
      BY <2>5 DEF Legacy!Open, Legacy!Content
    <3>2. /\ \A k \in Thread : serving[k].at # "changed"
          /\ t \in Legacy!Writing'
      BY <1>0, <2>5, OpenDoes DEF LeavesOthers, Legacy!Writing
    <3>3. ToWrite' = ToWrite
      BY <1>0, <2>5, OpenDoes DEF LeavesOthers, ToWrite
    <3>4. \A k \in ToWrite :
            /\ serving'[k].data = serving[k].data
            /\ Excused(k) => Excused(k)'
      BY <1>0, <2>5, OpenDoes DEF LeavesOthers, ToWrite, Excused
    <3> QED BY <1>0, <3>1, <3>2, <3>3, <3>4 DEF NewestWrite
  <2>6. CASE Legacy!Write(t)
    <3>1. /\ serving'[t].at = "done" /\ LeavesOthers(t)
          /\ \A k \in Thread \ {t} :
               serving[k].at \in {"encoded", "writing"} => serving'[k].late
      BY <1>0, <2>6, EndsDoes DEF Legacy!Write
    <3>2. \A k \in ToWrite' : Excused(k)'
      BY <3>1 DEF LeavesOthers, ToWrite, Excused
    <3>3. Legacy!Content' = Legacy!Content
      BY <2>6 DEF Legacy!Write, Legacy!Content
    <3>4. CASE spoiled'
      BY <3>2, <3>4 DEF NewestWrite
    <3>5. CASE ~spoiled'
      <4>1. ~serving[t].late /\ ~serving[t].clash /\ serving[t].op # "job" /\ t \in ToWrite
        BY <2>6, <3>5 DEF Legacy!Write, ToWrite
      <4>2. disk' = serving[t].data
        BY <2>6, <4>1 DEF Legacy!Write
      <4>3. \A k \in Thread : serving[k].at # "changed"
        BY <2>6, <3>1 DEF LeavesOthers, Legacy!Write
      <4>4. CASE serving[t].data = Legacy!Content
        BY <3>2, <3>3, <4>2, <4>4 DEF NewestWrite
      <4>5. CASE serving[t].data # Legacy!Content
        <5>1. PICK k \in ToWrite : serving[k].data = Legacy!Content
          BY <1>0, <4>1, <4>3, <4>5 DEF NewestWrite, Excused
        <5>2. k \in ToWrite' /\ serving'[k].data = Legacy!Content'
          BY <3>1, <3>3, <4>5, <5>1 DEF LeavesOthers, ToWrite
        <5> QED BY <5>2 DEF NewestWrite
      <4> QED BY <4>4, <4>5
    <3> QED BY <3>4, <3>5
  <2>7. CASE Legacy!SaveFails(t)
    <3>1. /\ serving'[t].at = "done" /\ LeavesOthers(t) /\ spoiled'
          /\ \A k \in Thread \ {t} :
               serving[k].at \in {"encoded", "writing"} => serving'[k].late
      BY <1>0, <2>7, EndsDoes DEF Legacy!SaveFails
    <3>2. \A k \in ToWrite' : Excused(k)'
      BY <3>1 DEF LeavesOthers, ToWrite, Excused
    <3> QED BY <3>1, <3>2 DEF NewestWrite
  <2>8. CASE Legacy!JobLoads(t)
    <3>1. /\ serving'[t].at = "encoded" /\ serving'[t].op = "job" /\ Alone(t)
          /\ serving[t].at = "new"
      BY <1>0, <2>8, JobDoes DEF Legacy!JobLoads
    <3>2. Legacy!Content' = Legacy!Content /\ disk' = disk /\ spoiled' = spoiled
      BY <2>8 DEF Legacy!JobLoads, Legacy!Quiet, Legacy!Content
    <3>3. \A k \in Thread : serving[k].at # "changed"
      BY <3>1 DEF Alone
    <3>4. ToWrite' = ToWrite \cup {t} /\ t \notin ToWrite
          /\ \A k \in ToWrite : serving'[k] = serving[k]
      BY <3>1 DEF ToWrite, Alone
    <3>5. Excused(t)'
      BY <3>1 DEF Excused
    <3>6. Legacy!Writing' = Legacy!Writing
      BY <3>1 DEF Alone, Legacy!Writing
    <3> QED BY <1>0, <3>2, <3>3, <3>4, <3>5, <3>6 DEF NewestWrite, Excused
  <2> QED BY <1>0, <1>3, <2>1, <2>2, <2>3, <2>4, <2>5, <2>6, <2>7, <2>8, LegacyKinds
<1> QED BY <1>1, <1>3 DEF Legacy!Next

LEMMA LegacyInvStep == LegacyInv /\ [Legacy!Next]_legacyVars => LegacyInv'
  BY LegacyTypesStep, OpsStep, ChangedStep, NewestWriteStep DEF LegacyInv

LEMMA LegacyHolds == ConsolesSpec => []LegacyInv
<1>1. LegacyInv /\ [[Next]_vars /\ [Legacy!Next]_legacyVars]_allVars => LegacyInv'
  <2>1. allVars' = allVars => legacyVars' = legacyVars
    BY DEF allVars, legacyVars
  <2> QED BY <2>1, LegacyInvStep
<1> QED BY <1>1, InitLegacy, ConsolesSpecSteps, PTL

(* Types.                                                                  *)
THEOREM LegacyTypesHold == ConsolesSpec => []Legacy!LegacyTypeOK
<1>1. LegacyInv => Legacy!LegacyTypeOK
  BY DEF LegacyInv, LegacyTypes, Legacy!LegacyTypeOK, RequestState
<1> QED BY <1>1, LegacyHolds, PTL

(* When nothing is left to be saved, the file has what is in memory,       *)
(* unless its last writer failed, was late, clashed or was a job.          *)
THEOREM LegacyFile == ConsolesSpec => []LegacyFileFollows
<1>1. LegacyInv => LegacyFileFollows
  BY DEF LegacyInv, NewestWrite, ToWrite, LegacyFileFollows, Legacy!FileFollows, Legacy!Writing
<1> QED BY <1>1, LegacyHolds, PTL

LEMMA OfPut ==
    ASSUME NEW f, NEW a, NEW r, NEW x
    PROVE  /\ Legacy!Of(f, a, r \cup {x}) \subseteq Legacy!Of(f, a, r) \cup {<<f, x>>}
           /\ Legacy!Of(f, a, r \ {x}) \subseteq Legacy!Of(f, a, r) \cup {<<f, x>>}
<1>1. \A k \in (a \ (r \cup {x})) \cup ((r \cup {x}) \ a) : k = x \/ k \in (a \ r) \cup (r \ a)
  OBVIOUS
<1>2. \A k \in (a \ (r \ {x})) \cup ((r \ {x}) \ a) : k = x \/ k \in (a \ r) \cup (r \ a)
  OBVIOUS
<1> QED BY <1>1, <1>2 DEF Legacy!Of

(* What differs after a step that puts a part, or a copy, in place.        *)
LEMMA PutsKnown ==
    ASSUME LegacyInv, NEW t \in Thread, ChangesMemory(t), Legacy!Step(t),
           serving[t].at \in {"read", "copied"}
    PROVE  Legacy!Differs(Legacy!Content, Legacy!Content') \subseteq Legacy!Purpose(t) \cup changed[t]
<1>0. LegacyTypes /\ ChangedKnows(t) /\ serving[t] \in RequestState
  BY DEF LegacyInv, LegacyTypes
<1>a. settings \in Legacy!Settings /\ pins \in [Legacy!Owner -> SUBSET Legacy!Owner]
  BY <1>0 DEF LegacyTypes
<1> DEFINE r == serving[t].read
           key == serving[t].key
<1>b. ASSUME NEW f, NEW a, NEW q, NEW x, Legacy!Of(f, a, q) \subseteq changed[t]
      PROVE  /\ Legacy!Of(f, a, q \cup {x}) \subseteq {<<f, x>>} \cup changed[t]
             /\ Legacy!Of(f, a, q \ {x}) \subseteq {<<f, x>>} \cup changed[t]
  BY <1>b, OfPut
<1>1. CASE Legacy!PutsSessions(t)
  <2>1. Legacy!Content' = [Legacy!Content EXCEPT !.sessions = Legacy!Sessions(t)]
    <3>1. /\ settings'.sessions = Legacy!Sessions(t) /\ settings'.workspaces = settings.workspaces
          /\ settings'.ops = settings.ops /\ settings'.auth = settings.auth /\ pins' = pins
      BY <1>a, <1>1 DEF Legacy!PutsSessions, Legacy!Settings
    <3> QED BY <3>1 DEF Legacy!Content
  <2>2. Legacy!Differs(Legacy!Content, Legacy!Content')
          = Legacy!Of("sessions", settings.sessions, Legacy!Sessions(t))
    BY <2>1, OfDiffers DEF Legacy!Differs, Legacy!Content
  <2>3. /\ serving[t].op \in {"login", "logout"}
        /\ Legacy!Of("sessions", settings.sessions, r) \subseteq changed[t]
        /\ serving[t].op = "login" => key = t
    BY <1>0, <1>1 DEF Legacy!PutsSessions, ChangedKnows
  <2>4. Legacy!Of("sessions", settings.sessions, Legacy!Sessions(t))
          \subseteq {<<"sessions", key>>} \cup changed[t]
    BY <1>b, <2>3 DEF Legacy!Sessions
  <2>5. Legacy!Purpose(t) = {<<"sessions", key>>}
    BY <2>3 DEF Legacy!Purpose
  <2> QED BY <2>2, <2>4, <2>5
<1>2. CASE Legacy!PutsWorkspaces(t)
  <2> DEFINE w == IF serving[t].op = "create" THEN r \cup {t} ELSE r \ {key}
  <2>1. Legacy!Content' = [Legacy!Content EXCEPT !.workspaces = w]
    <3>1. settings' = [settings EXCEPT !.workspaces = w] /\ pins' = pins
      BY <1>2 DEF Legacy!PutsWorkspaces
    <3> HIDE DEF w
    <3>2. /\ settings'.workspaces = w /\ settings'.sessions = settings.sessions
          /\ settings'.ops = settings.ops /\ settings'.auth = settings.auth
      BY <1>a, <3>1 DEF Legacy!Settings
    <3> QED BY <3>1, <3>2 DEF Legacy!Content
  <2>2. Legacy!Differs(Legacy!Content, Legacy!Content')
          = Legacy!Of("workspaces", settings.workspaces, w)
    <3> HIDE DEF w
    <3> QED BY <2>1, OfDiffers DEF Legacy!Differs, Legacy!Content
  <2>3. /\ serving[t].op \in {"create", "drop"}
        /\ Legacy!Of("workspaces", settings.workspaces, r) \subseteq changed[t]
        /\ serving[t].op = "create" => key = t
    BY <1>0, <1>2 DEF Legacy!PutsWorkspaces, ChangedKnows
  <2>4. Legacy!Of("workspaces", settings.workspaces, w)
          \subseteq {<<"workspaces", key>>} \cup changed[t]
    BY <1>b, <2>3
  <2>5. Legacy!Purpose(t) = {<<"workspaces", key>>}
    BY <2>3 DEF Legacy!Purpose
  <2> QED BY <2>2, <2>4, <2>5
<1>3. CASE Legacy!Pins(t)
  <2>1. /\ settings' = settings /\ pins' = [pins EXCEPT ![key] = r \cup {t}]
        /\ serving[t].op = "pin" /\ key \in Legacy!Owner
    BY <1>0, <1>3 DEF Legacy!Pins, RequestState
  <2>2. Legacy!Differs(Legacy!Content, Legacy!Content')
          = Legacy!Of("pins", pins[settings.ops], pins'[settings.ops])
    BY <2>1, OfDiffers DEF Legacy!Differs, Legacy!Content
  <2>3. Legacy!Of("pins", pins[key], r) \subseteq changed[t]
    BY <1>0, <1>3 DEF Legacy!Pins, ChangedKnows
  <2>4. Legacy!Of("pins", pins[settings.ops], pins'[settings.ops])
          \subseteq {<<"pins", t>>} \cup changed[t]
    <3>1. CASE settings.ops = key
      <4>1. pins'[key] = r \cup {t}
        BY <1>a, <2>1
      <4> QED BY <1>b, <2>3, <3>1, <4>1
    <3>2. CASE settings.ops # key
      <4>1. pins'[settings.ops] = pins[settings.ops]
        BY <1>a, <2>1, <3>2
      <4> QED BY <4>1, OfDiffers
    <3> QED BY <3>1, <3>2
  <2>5. Legacy!Purpose(t) = {<<"pins", t>>}
    BY <2>1 DEF Legacy!Purpose
  <2> QED BY <2>2, <2>4, <2>5
<1>4. ASSUME NEW password \in BOOLEAN, Legacy!PutReplaces(t, password)
      PROVE  Legacy!Differs(Legacy!Content, Legacy!Content') \subseteq Legacy!Purpose(t) \cup changed[t]
  <2> DEFINE c == serving[t].copy
  <2>1. /\ serving[t].at = "copied" /\ serving[t].op = "put" /\ c \in Legacy!Settings
        /\ Legacy!Of("sessions", settings.sessions, c.sessions) \subseteq changed[t]
        /\ Legacy!Of("workspaces", settings.workspaces, c.workspaces) \subseteq changed[t]
        /\ Legacy!Of("pins", pins[settings.ops], pins[c.ops]) \subseteq changed[t]
    BY <1>0, <1>4 DEF Legacy!PutReplaces, ChangedKnows, RequestState
  <2>2. settings' \in {c, [c EXCEPT !.auth = t]} /\ pins' = pins
    BY <1>4 DEF Legacy!PutReplaces
  <2> HIDE DEF c
  <2>3. /\ settings'.sessions = c.sessions /\ settings'.workspaces = c.workspaces
        /\ settings'.ops = c.ops
    BY <2>1, <2>2 DEF Legacy!Settings
  <2>4. Legacy!Purpose(t) = {<<"auth", Main>>}
    BY <2>1 DEF Legacy!Purpose
  <2> QED BY <2>1, <2>2, <2>3, <2>4 DEF Legacy!Differs, Legacy!Content
<1> QED
  BY <1>1, <1>2, <1>3, <1>4
  DEF Legacy!Step, ChangesMemory, Legacy!ReadSessions, Legacy!ReadWorkspaces, Legacy!Reads,
      Legacy!ReadPins, Legacy!Toggle, Legacy!PutCopies, Legacy!SetsPassword, Legacy!Encode,
      Legacy!Open, Legacy!Write, Legacy!SaveFails, Legacy!JobLoads

(* A request undoes nothing it is not about, unless that changed after it  *)
(* was read.                                                               *)
THEOREM LegacyKnown == ConsolesSpec => LegacyChangesKnowingly
<1> DEFINE A == \A t \in Thread :
                  /\ serving'[t].at # serving[t].at /\ starts' = starts
                  /\ serving[t].at \in {"read", "copied"}
                  => Legacy!Differs(Legacy!Content, Legacy!Content')
                       \subseteq Legacy!Purpose(t) \cup changed[t]
<1>1. LegacyInv /\ [Legacy!Next]_legacyVars => [A]_legacyVars
  <2> SUFFICES ASSUME LegacyInv, Legacy!Next, starts' = starts,
                      NEW t \in Thread, serving'[t].at # serving[t].at,
                      serving[t].at \in {"read", "copied"}
               PROVE  Legacy!Differs(Legacy!Content, Legacy!Content')
                        \subseteq Legacy!Purpose(t) \cup changed[t]
    OBVIOUS
  <2>0. LegacyTypes
    BY DEF LegacyInv
  <2>1. ~Legacy!Restart
    <3>1. starts + 1 # starts
      BY <2>0 DEF LegacyTypes
    <3> QED BY <3>1 DEF Legacy!Restart
  <2>2. PICK k \in Thread : Legacy!Step(k)
    BY <2>1 DEF Legacy!Next
  <2>3. LeavesOthers(k)
    BY <2>0, <2>2, LegacyKinds, Saving, AloneLeaves, CopiesDoes DEF ReadsPart, ChangesMemory
  <2>4. k = t
    BY <2>3 DEF LeavesOthers
  <2>5. ChangesMemory(t)
    BY <2>0, <2>2, <2>4, LegacyKinds
    DEF ReadsPart, Legacy!PutCopies, Legacy!Encode, Legacy!Open, Legacy!Write, Legacy!SaveFails,
        Legacy!JobLoads
  <2> QED BY <2>2, <2>4, <2>5, PutsKnown
<1>2. LegacyInv /\ [[Next]_vars /\ [Legacy!Next]_legacyVars]_allVars => [A]_legacyVars
  BY <1>1 DEF allVars, legacyVars
<1>3. ConsolesSpec => [][A]_legacyVars
  BY <1>2, LegacyHolds, ConsolesSpecSteps, PTL
<1>4. [][A]_legacyVars => LegacyChangesKnowingly
  BY DEF LegacyChangesKnowingly, Legacy!ChangesKnowingly, legacyVars, Legacy!vars
<1> QED BY <1>3, <1>4

=============================================================================
