---------------------------- MODULE LegacyConsole ----------------------------
(***************************************************************************)
(* The settings of the legacy console (web_api.py): one dict, changed by   *)
(* the threads of the API without a lock and saved as a whole in one file, *)
(* which is written in place: opening it empties it. A job of the command  *)
(* line (cli.py) reads the same file when it starts; a file that cannot be *)
(* read is replaced with the defaults, by a job as by the console's start. *)
(*                                                                         *)
(* Most handlers copy a part, change the copy and put it in place          *)
(* (sessions; the list of workspaces, standing for hidden messages too);   *)
(* some change a nested dict where it is (chat_ops, standing for plugins   *)
(* and personas too); PUT /settings copies the outer dict alone, and the   *)
(* nested ones that it was sent.                                           *)
(*                                                                         *)
(* A thread serves one request or is one job; a session, a workspace and a *)
(* pin are named after the thread that made them. Left out: the count of   *)
(* logins and what it saves, and the check of the password.                *)
(* MaxFaults bounds restarts and failed saves together.                    *)
(***************************************************************************)
EXTENDS Naturals, FiniteSets

CONSTANTS Thread, Main, Torn, MaxFaults

VARIABLES
    settings,    \* web_settings: its sessions, workspaces, ...
    pins,        \* pins[d]: what is pinned in a dict d of chat_ops
    file,        \* web-settings.json, or Torn
    th,          \* th[t]: how far thread t came
    touched,     \* history: what has changed since t read it
    spoiled,     \* history: why the file may differ from what is in memory
    restarts, failures

vars == <<settings, pins, file, th, touched, spoiled, restarts, failures>>

-----------------------------------------------------------------------------
Owner == Thread \cup {Main}

(* `ops' says which dict of chat_ops is in it, `auth' whose password holds *)
Settings == [sessions : SUBSET Owner, workspaces : SUBSET Owner, ops : Owner, auth : Owner]

Saved == [sessions : SUBSET Owner, workspaces : SUBSET Owner, pins : SUBSET Owner, auth : Owner]

Content == [sessions |-> settings.sessions, workspaces |-> settings.workspaces,
            pins |-> pins[settings.ops], auth |-> settings.auth]

(* default_web_settings                                                    *)
Default == [sessions |-> {}, workspaces |-> {Main}, pins |-> {}, auth |-> Main]

(* AppConfig.from_profile gives what it read a place in memory.            *)
Loaded(c) == [sessions |-> c.sessions, workspaces |-> c.workspaces, ops |-> Main, auth |-> c.auth]

New == [at |-> "new", op |-> "none", key |-> Main, read |-> {}, copy |-> Loaded(Default),
        data |-> Default, late |-> FALSE, clash |-> FALSE]

Init ==
    /\ settings = [Loaded(Default) EXCEPT !.sessions = {Main}]
    /\ pins = [d \in Owner |-> {}]
    /\ file = Content
    /\ th = [t \in Thread |-> New]
    /\ touched = [t \in Thread |-> {}]
    /\ spoiled = FALSE
    /\ restarts = 0 /\ failures = 0

Goes(t, s) == th' = [th EXCEPT ![t] = s]
Changed == [New EXCEPT !.at = "changed"]
Quiet == UNCHANGED <<file, spoiled, restarts, failures>>

-----------------------------------------------------------------------------
(* A handler copies the part it is about, ...                              *)
Reads(t, op, part, key) ==
    /\ th[t].at = "new"
    /\ Goes(t, [New EXCEPT !.at = "read", !.op = op, !.key = key, !.read = part])
    /\ UNCHANGED <<settings, pins>> /\ Quiet

(* ... a login after its hash; a request whose session has expired ends it *)
(* as a logout does.                                                       *)
ReadSessions(t, op, key) ==
    /\ IF op = "login" THEN key = t ELSE key \in settings.sessions
    /\ Reads(t, op, settings.sessions, key)

(* Mutant: a logout ends all sessions.                                     *)
SessionsCleared(t) == IF th[t].op = "login" THEN th[t].read \cup {t} ELSE {}

Sessions(t) == IF th[t].op = "login" THEN th[t].read \cup {t} ELSE th[t].read \ {th[t].key}

(* ... and puts the copy in place.                                         *)
PutsSessions(t) ==
    /\ th[t].at = "read" /\ th[t].op \in {"login", "logout"}
    /\ settings' = [settings EXCEPT !.sessions = Sessions(t)]
    /\ Goes(t, Changed)
    /\ UNCHANGED pins /\ Quiet

(* POST, PUT and DELETE /workspaces, POST /messages/hide                   *)
ReadWorkspaces(t, op, key) ==
    /\ IF op = "create" THEN key = t ELSE key \in settings.workspaces
    /\ Reads(t, op, settings.workspaces, key)

(* Mutant: the file is not written.                                        *)
PutsUnsaved(t) ==
    /\ th[t].at = "read" /\ th[t].op \in {"create", "drop"}
    /\ settings' = [settings EXCEPT !.workspaces =
                      IF th[t].op = "create" THEN th[t].read \cup {t} ELSE th[t].read \ {th[t].key}]
    /\ Goes(t, [Changed EXCEPT !.at = "done"])
    /\ UNCHANGED pins /\ Quiet

(* _save_workspaces                                                        *)
PutsWorkspaces(t) ==
    /\ th[t].at = "read" /\ th[t].op \in {"create", "drop"}
    /\ settings' = [settings EXCEPT !.workspaces =
                      IF th[t].op = "create" THEN th[t].read \cup {t} ELSE th[t].read \ {th[t].key}]
    /\ Goes(t, Changed)
    /\ UNCHANGED pins /\ Quiet

(* POST /chat/pin and /chat/delete, in the dict that was there before.     *)
ReadPins(t) ==
    /\ th[t].at = "new"
    /\ Goes(t, [New EXCEPT !.at = "read", !.op = "pin", !.key = settings.ops,
                           !.read = pins[settings.ops]])
    /\ UNCHANGED <<settings, pins>> /\ Quiet

Pins(t) ==
    /\ th[t].at = "read" /\ th[t].op = "pin"
    /\ pins' = [pins EXCEPT ![th[t].key] = th[t].read \cup {t}]
    /\ Goes(t, Changed)
    /\ UNCHANGED settings /\ Quiet

(* A plugin or a persona is switched, in the dict of now.                  *)
Toggle(t) ==
    /\ th[t].at = "new"
    /\ pins' = [pins EXCEPT ![settings.ops] = (@ \ {t}) \cup ({t} \ @)]
    /\ Goes(t, Changed)
    /\ UNCHANGED settings /\ Quiet

-----------------------------------------------------------------------------
(* PUT /settings: it copies the dict, and that of chat_ops if it was sent  *)
(* that; a new password is then hashed; ...                                *)
PutCopies(t, sent) ==
    /\ th[t].at = "new"
    /\ pins' = IF sent THEN [pins EXCEPT ![t] = Content.pins] ELSE pins
    /\ Goes(t, [New EXCEPT !.at = "copied", !.op = "put",
                           !.copy = IF sent THEN [settings EXCEPT !.ops = t] ELSE settings])
    /\ UNCHANGED settings /\ Quiet

(* ... and the copy becomes web_settings.                                  *)
PutReplaces(t, password) ==
    /\ th[t].at = "copied"
    /\ settings' = IF password THEN [th[t].copy EXCEPT !.auth = t] ELSE th[t].copy
    /\ Goes(t, Changed)
    /\ UNCHANGED pins /\ Quiet

(* With a password alone nothing is copied.                                *)
SetsPassword(t) ==
    /\ th[t].at = "new"
    /\ settings' = [settings EXCEPT !.auth = t]
    /\ Goes(t, Changed)
    /\ UNCHANGED pins /\ Quiet

-----------------------------------------------------------------------------
(* save_json encodes what there is, ...                                    *)
Encode(t) ==
    /\ th[t].at = "changed"
    /\ Goes(t, [th[t] EXCEPT !.at = "encoded", !.data = Content])
    /\ UNCHANGED <<settings, pins>> /\ Quiet

Writing == {t \in Thread : th[t].at = "writing"}

(* Who has encoded before that may write what is out of date.              *)
Ends(t) ==
    th' = [k \in Thread |->
             IF k = t THEN [New EXCEPT !.at = "done"]
             ELSE IF th[k].at \in {"encoded", "writing"} THEN [th[k] EXCEPT !.late = TRUE]
             ELSE th[k]]

(* ... opens the file, ...                                                 *)
Open(t) ==
    /\ th[t].at = "encoded"
    /\ file' = Torn
    /\ th' = [k \in Thread |->
                IF k = t THEN [th[t] EXCEPT !.at = "writing", !.clash = Writing # {}]
                ELSE IF k \in Writing THEN [th[k] EXCEPT !.clash = TRUE] ELSE th[k]]
    /\ UNCHANGED <<settings, pins, spoiled, restarts, failures>>

(* ... and writes it. Of two that write at once either may leave a mixture *)
(* that nobody can read.                                                   *)
Write(t) ==
    /\ th[t].at = "writing"
    /\ file' \in {th[t].data} \cup (IF th[t].clash THEN {Torn} ELSE {})
    /\ spoiled' = (th[t].late \/ th[t].clash \/ th[t].op = "job")
    /\ Ends(t)
    /\ UNCHANGED <<settings, pins, restarts, failures>>

(* The dict changes while it is encoded, or the file cannot be written.    *)
SaveFails(t) ==
    /\ restarts + failures < MaxFaults
    /\ failures' = failures + 1
    /\ th[t].at \in {"changed", "encoded", "writing"}
    /\ spoiled' = TRUE
    /\ Ends(t)
    /\ UNCHANGED <<settings, pins, file, restarts>>

(* AppConfig.from_profile in a job that reads the file half-written.       *)
JobLoads(t) ==
    /\ th[t].at = "new"
    /\ file = Torn
    /\ Goes(t, [New EXCEPT !.at = "encoded", !.op = "job"])
    /\ UNCHANGED <<settings, pins>> /\ Quiet

(* The console ends and starts again; a job goes on.                       *)
Restart ==
    /\ restarts + failures < MaxFaults
    /\ restarts' = restarts + 1
    /\ file' = IF file = Torn THEN Default ELSE file
    /\ settings' = Loaded(file')
    /\ pins' = [d \in Owner |-> IF d = Main THEN file'.pins ELSE {}]
    /\ th' = [t \in Thread |->
                IF th[t].at = "new" THEN New
                ELSE IF th[t].op = "job" THEN [th[t] EXCEPT !.late = TRUE]
                ELSE [New EXCEPT !.at = "done"]]
    /\ spoiled' = FALSE
    /\ UNCHANGED failures

-----------------------------------------------------------------------------
Step(t) ==
    \/ \E op \in {"login", "logout"}, k \in Owner : ReadSessions(t, op, k)
    \/ PutsSessions(t)
    \/ ReadWorkspaces(t, "create", t) \/ \E k \in Owner : ReadWorkspaces(t, "drop", k)
    \/ PutsWorkspaces(t)
    \/ ReadPins(t) \/ Pins(t) \/ Toggle(t)
    \/ \E sent \in BOOLEAN : PutCopies(t, sent)
    \/ \E password \in BOOLEAN : PutReplaces(t, password)
    \/ SetsPassword(t)
    \/ Encode(t) \/ Open(t) \/ Write(t) \/ SaveFails(t)
    \/ JobLoads(t)

(* What differs between two contents.                                      *)
Of(f, a, b) == {<<f, k>> : k \in (a \ b) \cup (b \ a)}

Differs(a, b) ==
    Of("sessions", a.sessions, b.sessions) \cup Of("workspaces", a.workspaces, b.workspaces)
    \cup Of("pins", a.pins, b.pins) \cup (IF a.auth = b.auth THEN {} ELSE {<<"auth", Main>>})

Watch ==
    touched' = [t \in Thread |->
                  IF th'[t].at \in {"read", "copied"} /\ th[t].at # "new"
                  THEN touched[t] \cup Differs(Content, Content')
                         \cup UNION {Of("pins", pins[d], pins'[d]) : d \in Owner}
                  ELSE {}]

Next == (Restart \/ \E t \in Thread : Step(t)) /\ Watch

Spec == Init /\ [][Next]_vars

-----------------------------------------------------------------------------
(* Types.                                                                  *)
LegacyTypeOK ==
    /\ settings \in Settings
    /\ pins \in [Owner -> SUBSET Owner]
    /\ file \in Saved \cup {Torn}
    /\ \A t \in Thread : th[t].at \in {"new", "read", "copied", "changed", "encoded",
                                       "writing", "done"}

(* What a request is for.                                                  *)
Purpose(t) ==
    CASE th[t].op \in {"login", "logout"} -> {<<"sessions", th[t].key>>}
      [] th[t].op \in {"create", "drop"} -> {<<"workspaces", th[t].key>>}
      [] th[t].op = "pin" -> {<<"pins", t>>}
      [] OTHER -> {<<"auth", Main>>}

(* A request undoes nothing it is not about, unless another request        *)
(* changed that after it was read: a logout then comes undone, a login or  *)
(* a password is lost (login, logout, create_workspace, update_settings).     *)
ChangesKnowingly ==
    [][\A t \in Thread :
         /\ th'[t].at # th[t].at /\ restarts' = restarts
         /\ th[t].at \in {"read", "copied"}
         => Differs(Content, Content') \subseteq Purpose(t) \cup touched[t]]_vars

(* When nothing is left to be saved, the file has what is in memory,       *)
(* unless its last writer failed, had encoded before another wrote, wrote  *)
(* at the same time as another, or was a job that had read it half-written *)
(* (save_json, AppConfig.from_profile).                                    *)
FileFollows ==
    /\ \A t \in Thread : th[t].at \notin {"changed", "encoded", "writing"}
    /\ ~spoiled
    => file = Content

=============================================================================
