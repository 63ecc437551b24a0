------------------------------ MODULE Console ------------------------------
(***************************************************************************)
(* The settings of the standalone console (runtime.py): users, sessions    *)
(* and options in one dict, changed by the threads of the API and saved in *)
(* one file. A login and a logout hold a lock (standalone_api.py); users   *)
(* (api/v1/users.py), settings (api/v1/settings.py), plugins and personas  *)
(* do not. A thread keeps a reference to the dict of users while it        *)
(* computes a hash; PUT /settings copies everything, users included, and   *)
(* puts the copy in its place.                                             *)
(*                                                                         *)
(* The list of sessions is copied by logins, logouts, deletions and        *)
(* changes of password, and the copy put in its place a step later. Else,  *)
(* statements between two calls that take time (a hash, a deep copy, the   *)
(* encoding, the writing of the file) are one step. A thread serves one    *)
(* request; a session is named after the thread that issued it. Left out:  *)
(* expiry, the count of failed logins, the bootstrap password (with which  *)
(* admin logs in while it is no user, and which its first login makes a    *)
(* user of) and password_change_required, which nothing sets. MaxRestarts  *)
(* bounds the model.                                                       *)
(***************************************************************************)
EXTENDS Naturals, FiniteSets

CONSTANTS User, Registered, Thread, Main, MaxRestarts, None

VARIABLES
    dicts,       \* dicts[d]: a dict of users: the record of each, or None
    root,        \* web_settings: which dict of users, sessions, an option
    file,        \* web-settings.json
    lock,        \* who holds login_lock
    th,          \* th[t]: how far the request of thread t came
    overtaken,   \* history: the last save was encoded before the one before it
    touched,     \* history: who became or ceased to be a user since t began
    restarts

vars == <<dicts, root, file, lock, th, overtaken, touched, restarts>>

-----------------------------------------------------------------------------
(* The dict of the start, and one for each copy.                           *)
DictName == Thread \cup {Main}

(* A record, made at registration, and the version of its password.        *)
Record == [by : DictName, pw : Nat]

ASSUME ConsoleAssumption ==
    /\ Registered \subseteq User
    /\ Main \notin Thread /\ None \notin Thread
    /\ None \notin User /\ None \notin Record
    /\ MaxRestarts \in Nat

Users == dicts[root.users]

Content == [users |-> Users, sessions |-> root.sessions, option |-> root.option]

New == [at |-> "new", op |-> None, user |-> None, ref |-> Main, rec |-> None,
        given |-> 0, token |-> None, list |-> None, copy |-> None,
        data |-> None, late |-> FALSE]

Init ==
    /\ dicts = [d \in DictName |->
                  [u \in User |-> IF u \in Registered THEN [by |-> Main, pw |-> 0] ELSE None]]
    /\ root = [users |-> Main, sessions |-> [t \in Thread |-> None], option |-> FALSE]
    /\ file = Content
    /\ lock = None
    /\ th = [t \in Thread |-> New]
    /\ overtaken = FALSE
    /\ touched = [t \in Thread |-> {}]
    /\ restarts = 0

Goes(t, s) == th' = [th EXCEPT ![t] = s]

(* A request that has read the users.                                      *)
Begins(t, op, at, u) ==
    [New EXCEPT !.op = op, !.at = at, !.user = u, !.ref = root.users,
                !.rec = IF u = None THEN None ELSE Users[u]]

Saves(t) == [th[t] EXCEPT !.at = "changed"]
Ends(t) == [th[t] EXCEPT !.at = "done"]

WithoutSessions(u, keep) ==
    [k \in Thread |-> IF root.sessions[k] = u /\ k # keep THEN None ELSE root.sessions[k]]

-----------------------------------------------------------------------------
(* POST /login                                                             *)
LoginBegins(t, u, pw) ==
    /\ th[t].at = "new"
    /\ lock = None
    /\ lock' = t
    /\ Goes(t, [Begins(t, "login", "hashing", u) EXCEPT !.given = pw])
    /\ UNCHANGED <<dicts, root, file, overtaken, restarts>>

Hashed(t, op) == th[t].at = "hashing" /\ th[t].op = op

Verified(t) == th[t].rec # None /\ th[t].rec.pw = th[t].given

(* A refused login is counted and saved too.                               *)
LoginRefused(t) ==
    /\ Hashed(t, "login")
    /\ ~Verified(t)
    /\ Goes(t, Saves(t))
    /\ UNCHANGED <<dicts, root, file, lock, overtaken, restarts>>

(* Mutant: a deletion withdraws no session.                                *)
RemainingKept(t) ==
    LET u == th[t].user IN
    CASE th[t].op = "login" -> [WithoutSessions(u, None) EXCEPT ![t] = u]
      [] th[t].op = "logout" -> [root.sessions EXCEPT ![th[t].token] = None]
      [] th[t].op = "delete" -> root.sessions
      [] th[t].op = "change" -> WithoutSessions(u, th[t].token)

(* The sessions there will be for all that a request knows: one for the    *)
(* user of a login, none for a deleted user, ...                           *)
Remaining(t) ==
    LET u == th[t].user IN
    CASE th[t].op = "login" -> [WithoutSessions(u, None) EXCEPT ![t] = u]
      [] th[t].op = "logout" -> [root.sessions EXCEPT ![th[t].token] = None]
      [] th[t].op = "delete" -> WithoutSessions(u, None)
      [] th[t].op = "change" -> WithoutSessions(u, th[t].token)

(* A request copies the sessions and changes the copy, ...                 *)
ListsSessions(t) ==
    /\ (Hashed(t, "login") /\ Verified(t)) \/ th[t].at = "withdrawing"
    /\ Goes(t, [th[t] EXCEPT !.at = "listed", !.list = Remaining(t)])
    /\ UNCHANGED <<dicts, root, file, lock, overtaken, restarts>>

(* ... and puts it in their place.                                         *)
PutsSessions(t) ==
    /\ th[t].at = "listed"
    /\ root' = [root EXCEPT !.sessions = th[t].list]
    /\ Goes(t, [th[t] EXCEPT !.at = "changed", !.list = None])
    /\ UNCHANGED <<dicts, file, lock, overtaken, restarts>>

(* POST /logout                                                            *)
Logout(t, token) ==
    /\ th[t].at = "new"
    /\ lock = None
    /\ lock' = t
    /\ Goes(t, [Begins(t, "logout", "withdrawing", None) EXCEPT !.token = token])
    /\ UNCHANGED <<dicts, root, file, overtaken, restarts>>

(* POST /users/register                                                    *)
RegisterBegins(t, u) ==
    /\ th[t].at = "new"
    /\ Users[u] = None
    /\ Goes(t, Begins(t, "register", "hashing", u))
    /\ UNCHANGED <<dicts, root, file, lock, overtaken, restarts>>

(* The dict of users that was read takes the place of the present one.     *)
PutsUser(t, rec) ==
    dicts' = [dicts EXCEPT ![th[t].ref][th[t].user] = rec]

Registers(t) ==
    /\ Hashed(t, "register")
    /\ PutsUser(t, [by |-> t, pw |-> 0])
    /\ root' = [root EXCEPT !.users = th[t].ref]
    /\ Goes(t, Saves(t))
    /\ UNCHANGED <<file, lock, overtaken, restarts>>

(* POST /users/delete: the users are read, ...                             *)
DeleteBegins(t, u) ==
    /\ th[t].at = "new"
    /\ Users[u] # None
    /\ Goes(t, Begins(t, "delete", "found", u))
    /\ UNCHANGED <<dicts, root, file, lock, overtaken, restarts>>

(* ... and put back without one, ...                                       *)
Deletes(t) ==
    /\ th[t].at = "found"
    /\ dicts[th[t].ref][th[t].user] # None
    /\ PutsUser(t, None)
    /\ root' = [root EXCEPT !.users = th[t].ref]
    /\ Goes(t, [th[t] EXCEPT !.at = "withdrawing"])
    /\ UNCHANGED <<file, lock, overtaken, restarts>>

(* ... unless another request has deleted it from them.                    *)
DeleteMisses(t) ==
    /\ th[t].at = "found"
    /\ dicts[th[t].ref][th[t].user] = None
    /\ Goes(t, Ends(t))
    /\ UNCHANGED <<dicts, root, file, lock, overtaken, restarts>>

(* POST /users/change-password, by the user of a session                   *)
ChangeBegins(t, token, pw) ==
    LET u == root.sessions[token] IN
    /\ th[t].at = "new"
    /\ u # None
    /\ Users[u] # None /\ Users[u].pw = pw
    /\ Goes(t, [Begins(t, "change", "hashing", u) EXCEPT !.given = pw, !.token = token])
    /\ UNCHANGED <<dicts, root, file, lock, overtaken, restarts>>

(* The record that was read is changed where it is, and put back.          *)
Held(t) ==
    LET now == dicts[th[t].ref][th[t].user]
    IN IF now # None /\ now.by = th[t].rec.by THEN now ELSE th[t].rec

Changes(t) ==
    LET rec == [Held(t) EXCEPT !.pw = @ + 1]
    IN
    /\ Hashed(t, "change")
    /\ PutsUser(t, rec)
    /\ root' = [root EXCEPT !.users = th[t].ref]
    /\ th' = [th EXCEPT ![t].at = "withdrawing", ![th[t].token].rec = rec]
    /\ UNCHANGED <<file, lock, overtaken, restarts>>

-----------------------------------------------------------------------------
(* PUT /settings: _deep_merge copies all there is, ...                     *)
PutCopies(t) ==
    /\ th[t].at = "new"
    /\ dicts' = [dicts EXCEPT ![t] = Users]
    /\ Goes(t, [Begins(t, "put", "copied", None) EXCEPT !.copy = Content])
    /\ UNCHANGED <<root, file, lock, overtaken, restarts>>

(* Mutant: the users of the copy are those in the file.                    *)
PutReplacesSaved(t) ==
    /\ th[t].at = "copied"
    /\ dicts' = [dicts EXCEPT ![t] = file.users]
    /\ root' = [users |-> t, sessions |-> th[t].copy.sessions, option |-> th[t].copy.option]
    /\ Goes(t, Saves(t))
    /\ UNCHANGED <<file, lock, overtaken, restarts>>

(* ... and the copy becomes web_settings.                                  *)
PutReplaces(t) ==
    /\ th[t].at = "copied"
    /\ root' = [users |-> t, sessions |-> th[t].copy.sessions, option |-> th[t].copy.option]
    /\ Goes(t, Saves(t))
    /\ UNCHANGED <<dicts, file, lock, overtaken, restarts>>

(* Mutant: the switch is not saved.                                        *)
ToggleUnsaved(t) ==
    /\ th[t].at = "new"
    /\ root' = [root EXCEPT !.option = ~@]
    /\ Goes(t, Begins(t, "toggle", "done", None))
    /\ UNCHANGED <<dicts, file, lock, overtaken, restarts>>

(* A plugin or a persona is switched.                                      *)
Toggle(t) ==
    /\ th[t].at = "new"
    /\ root' = [root EXCEPT !.option = ~@]
    /\ Goes(t, Begins(t, "toggle", "changed", None))
    /\ UNCHANGED <<dicts, file, lock, overtaken, restarts>>

-----------------------------------------------------------------------------
(* save_runtime_settings encodes what there is, ...                        *)
Encode(t) ==
    /\ th[t].at = "changed"
    /\ Goes(t, [th[t] EXCEPT !.at = "encoded", !.data = Content])
    /\ UNCHANGED <<dicts, root, file, lock, overtaken, restarts>>

Unlocked(t) == IF lock = t THEN None ELSE lock

(* ... and replaces the file.                                              *)
Replace(t) ==
    /\ th[t].at = "encoded"
    /\ file' = th[t].data
    /\ overtaken' = th[t].late
    /\ lock' = Unlocked(t)
    /\ th' = [k \in Thread |->
                IF k = t THEN [Ends(t) EXCEPT !.data = None, !.copy = None]
                ELSE IF th[k].at = "encoded" THEN [th[k] EXCEPT !.late = TRUE] ELSE th[k]]
    /\ UNCHANGED <<dicts, root, restarts>>

(* The dict changes while it is encoded, or the file cannot be written:    *)
(* the request fails, and its change stays.                                *)
SaveFails(t) ==
    /\ th[t].at \in {"changed", "encoded"}
    /\ lock' = Unlocked(t)
    /\ Goes(t, [th[t] EXCEPT !.at = "failed", !.data = None, !.copy = None])
    /\ UNCHANGED <<dicts, root, file, overtaken, restarts>>

(* The process ends and starts again from the file.                        *)
Restart ==
    /\ restarts < MaxRestarts
    /\ restarts' = restarts + 1
    /\ dicts' = [dicts EXCEPT ![Main] = file.users]
    /\ root' = [users |-> Main, sessions |-> file.sessions, option |-> file.option]
    /\ th' = [t \in Thread |-> IF th[t].at = "new" THEN New
                ELSE [th[t] EXCEPT !.at = "done", !.list = None, !.data = None, !.copy = None]]
    /\ lock' = None
    /\ overtaken' = FALSE
    /\ UNCHANGED file

-----------------------------------------------------------------------------
Step(t) ==
    \/ \E u \in User, pw \in 0..1 : LoginBegins(t, u, pw)
    \/ LoginRefused(t)
    \/ \E k \in Thread : Logout(t, k)
    \/ \E u \in User : RegisterBegins(t, u) \/ DeleteBegins(t, u)
    \/ Registers(t) \/ Deletes(t) \/ DeleteMisses(t) \/ Changes(t)
    \/ ListsSessions(t) \/ PutsSessions(t)
    \/ \E k \in Thread, pw \in 0..1 : ChangeBegins(t, k, pw)
    \/ PutCopies(t) \/ PutReplaces(t) \/ Toggle(t)
    \/ Encode(t) \/ Replace(t) \/ SaveFails(t)

Watch ==
    touched' = [t \in Thread |->
                  IF th[t].at = "new" THEN {}
                  ELSE touched[t] \cup {u \in User : (Users[u] = None) # (Users'[u] = None)}]

Next == (Restart \/ \E t \in Thread : Step(t)) /\ Watch

Spec == Init /\ [][Next]_vars

-----------------------------------------------------------------------------
(* Types, the lock is held by a login or a logout in progress, and a user  *)
(* has one session at most.                                                *)
ConsoleTypeOK ==
    /\ dicts \in [DictName -> [User -> Record \cup {None}]]
    /\ root.users \in DictName
    /\ root.sessions \in [Thread -> User \cup {None}]
    /\ root.option \in BOOLEAN
    /\ \A t \in Thread : th[t].at \in {"new", "hashing", "found", "withdrawing", "listed",
                                       "copied", "changed", "encoded", "done", "failed"}
    /\ \A t \in Thread :
         lock = t <=> /\ th[t].op \in {"login", "logout"}
                      /\ th[t].at \in {"hashing", "withdrawing", "listed", "changed", "encoded"}
    /\ \A s \in {root.sessions, file.sessions}, j, k \in Thread :
         s[j] = s[k] /\ s[j] # None => j = k

(* Nobody becomes or ceases to be a user by the way: a step that neither   *)
(* registers nor deletes them puts back an older state of theirs only if   *)
(* that changed while its request was in progress (PUT /settings, and a    *)
(* dict of users that is put back after a hash).                           *)
UsersChangeKnowingly ==
    [][\A t \in Thread, u \in User :
         th'[t].at # th[t].at /\ restarts' = restarts
           /\ (Users[u] = None) # (Users'[u] = None) =>
             \/ th'[t].op \in {"register", "delete"} /\ th'[t].user = u
             \/ u \in touched[t]]_vars

(* A request is about to withdraw the session.                             *)
Doomed(k) ==
    \E t \in Thread : \/ (th[t].at = "withdrawing" /\ Remaining(t)[k] = None)
                     \/ (th[t].at = "listed" /\ th[t].list[k] = None)

(* A session is backed by the record that its login verified, or that its  *)
(* user made of it with a new password; or it is about to go.              *)
Backed(k) ==
    root.sessions[k] # None => Users[root.sessions[k]] = th[k].rec \/ Doomed(k)

(* A session loses its backing, or comes without, only by a request that   *)
(* worked on what it had read before: a login whose user was deleted or    *)
(* changed while it hashed, a registration of somebody registered since,   *)
(* or a copy of the sessions, of the users or of everything that is stale  *)
(* when it is put in place (login, logout, delete_user, change_password,   *)
(* update_settings).                                                       *)
SessionsBacked ==
    [][\A k \in Thread : Backed(k) /\ ~Backed(k)' /\ restarts' = restarts =>
         \E t \in Thread :
           /\ th'[t] # th[t]
           /\ \/ th[t].at = "listed" /\ t = k /\ Users[th[t].user] # th[t].rec
              \/ th[t].at = "listed" /\ th[t].list # Remaining(t)
              \/ th[t].at \in {"hashing", "found"} /\ th[t].ref # root.users
              \/ Hashed(t, "register") /\ Users[th[t].user] # None
              \/ th[t].at = "copied" /\ th[t].copy # Content]_vars

(* When nothing is left to be saved and no save has failed, the file has   *)
(* what is in memory, unless a save that was encoded before another has    *)
(* replaced the file after it (save_runtime_settings).                     *)
FileIsCurrent ==
    /\ \A t \in Thread : th[t].at \notin {"withdrawing", "listed", "changed", "encoded", "failed"}
    /\ ~overtaken
    => file = Content

=============================================================================
