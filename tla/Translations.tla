---------------------------- MODULE Translations ----------------------------
(***************************************************************************)
(* Translations of the messages of one conversation into one language.     *)
(* The TranslationDispatcher (translations_dispatcher.py) takes the queued *)
(* batches in order and translates a window of messages in one long        *)
(* transaction; POST /messages/{id}/translate (api/v1/messages.py) does so *)
(* for one message in short ones, and events overwrite the texts meanwhile.*)
(* Both upsert a row for each message and text. Both look a text up in a   *)
(* memory before they ask the model (module TranslationMemory): here it    *)
(* may know any text.                                                      *)
(*                                                                         *)
(* A text is a message with the number of its version. The database is     *)
(* PostgreSQL at READ COMMITTED, which locks rows, or SQLite, where the    *)
(* transaction of the dispatcher locks out every other writer. MaxEdits    *)
(* and MaxCrashes bound the model, not the code.                           *)
(***************************************************************************)
EXTENDS Naturals, FiniteSets

CONSTANTS
    Message, Request,
    Batch,       \* numbers, by created_at
    Kind,        \* Kind[m]: "foreign", "padded" with blanks, "chinese", "empty"
    Pos,         \* Pos[m]: place of m by time and id
    WindowSize,
    Retries,     \* max_retries of the provider
    MaxEdits,    \* MaxEdits[m]: how often m is edited
    MaxCrashes,
    None

VARIABLES
    engine,      \* the database, which does not change
    version,     \* version[m]: the text that message m has now
    row,         \* row[k]: the MessageTranslation of text k
    batch,       \* batch[b]: status, anchor and, as history, the texts it saw
    disp,        \* the dispatcher in run_once
    req,         \* req[r]: one translate request
    crashes

rowVars == <<row, batch>>
vars == <<engine, version, rowVars, disp, req, crashes>>

-----------------------------------------------------------------------------
Versions == UNION {0..MaxEdits[m] : m \in Message}
Text == {k \in Message \X Versions : k[2] <= MaxEdits[k[1]]}

Row == [status : {"none", "failed", "completed"},
        of : Versions \cup {None}, by : Batch \cup {None}]
NoRow == [status |-> "none", of |-> None, by |-> None]

ASSUME TranslationAssumption ==
    /\ Kind \in [Message -> {"foreign", "padded", "chinese", "empty"}]
    /\ Pos \in [Message -> Nat]
    /\ \A m, n \in Message : Pos[m] = Pos[n] => m = n
    /\ WindowSize \in Nat \ {0}
    /\ Batch \subseteq Nat
    /\ {Retries, MaxCrashes} \subseteq Nat
    /\ MaxEdits \in [Message -> Nat]
    /\ None \notin Nat /\ None \notin Text

CurrentText(m) == <<m, version[m]>>
Completed == {k \in Text : row[k].status = "completed"}

(* What SQLAlchemy writes for a row that was read as `old' and set to      *)
(* `new': an INSERT, or an UPDATE of the columns that differ. Two          *)
(* translations have different wordings, so a text is always written.      *)
Written(now, old, new) ==
    IF old = NoRow THEN new
    ELSE [status |-> IF new.status # old.status THEN new.status ELSE now.status,
          of |-> IF {new.of, old.of} # {None} THEN new.of ELSE now.of,
          by |-> IF new.by # old.by THEN new.by ELSE now.by]

(* The INSERT meets a row that was not there when it was looked for.       *)
Conflicts(k, old) == old = NoRow /\ row[k] # NoRow

Idle == [at |-> "idle", batch |-> None, seen |-> <<>>, todo |-> {}, got |-> {},
         out |-> <<>>, held |-> None, done |-> {}, try |-> 0]
Fresh == [at |-> "new", msg |-> None, given |-> 0, key |-> None, old |-> NoRow,
          new |-> NoRow, done |-> {}, try |-> 0]

Init ==
    /\ engine \in {"postgres", "sqlite"}
    /\ version = [m \in Message |-> 0]
    /\ row = [k \in Text |-> NoRow]
    /\ batch = [b \in Batch |-> [status |-> "unused", anchor |-> None, seen |-> <<>>]]
    /\ disp = Idle
    /\ req = [r \in Request |-> Fresh]
    /\ crashes = 0

-----------------------------------------------------------------------------
(* The transaction of the dispatcher, open while it asks the model, keeps  *)
(* every writer of a SQLite database out; on PostgreSQL the rows that it   *)
(* has flushed: all it wrote but the last.                                 *)
InTransaction == disp.at \in {"window", "items"}
LockedOut == engine = "sqlite" /\ InTransaction
Flushed == DOMAIN disp.out \ {disp.held}

(* An event overwrites the text of a message.                              *)
Edit(m) ==
    /\ ~LockedOut
    /\ version[m] < MaxEdits[m]
    /\ version' = [version EXCEPT ![m] = @ + 1]
    /\ UNCHANGED <<engine, rowVars, disp, req, crashes>>

(* POST /conversations/{id}/translations                                   *)
Queue(b, anchor) ==
    /\ ~LockedOut
    /\ batch[b].status = "unused"
    /\ \A c \in Batch : c < b => batch[c].status # "unused"
    /\ batch' = [batch EXCEPT ![b].status = "pending", ![b].anchor = anchor]
    /\ UNCHANGED <<engine, version, row, disp, req, crashes>>

-----------------------------------------------------------------------------
(* translate_to_zh_result. Completed: the memory knows the text, the model *)
(* translates it, or LaoTalk does after an error of the model; an answer   *)
(* that cannot be read counts too, with the source as the translation.     *)
(* Failed: an error, and LaoTalk returned nothing or the source.           *)
Outcome == {"completed", "failed"}

(* One request of the provider is worth another: a timeout, 429 or 5xx.    *)
Retried(try) == try < Retries

(* The row that an answer about version v makes, over the row `old'.       *)
Answered(status, v, by) ==
    [status |-> status, of |-> IF status = "completed" THEN v ELSE None, by |-> by]

-----------------------------------------------------------------------------
(* The dispatcher.                                                         *)
WindowOf(anchor) ==
    {m \in Message :
        /\ Pos[m] <= Pos[anchor]
        /\ Cardinality({n \in Message : Pos[m] < Pos[n] /\ Pos[n] <= Pos[anchor]})
             < WindowSize}

First(S) == CHOOSE m \in S : \A n \in S : Pos[m] <= Pos[n]

(* Mutant: texts that have a translation are not left out.                 *)
FindsNothing(m) == FALSE

(* A padded text is looked for under the hash of its stripped form, and    *)
(* saved under the other.                                                  *)
Finds(m) == Kind[m] # "padded" /\ CurrentText(m) \in Completed

Untranslated(anchor) ==
    {m \in WindowOf(anchor) : Kind[m] # "empty" /\ ~Finds(m)}

Pending == {b \in Batch : batch[b].status = "pending"}

Oldest(S) == CHOOSE b \in S : \A c \in S : b <= c

(* _process_batch up to the call: Chinese texts are done at once.          *)
TakeBatch ==
    /\ disp.at = "idle"
    /\ Pending # {}
    /\ LET b == Oldest(Pending)
           anchor == batch[b].anchor
           rest == Untranslated(anchor)
           chinese == {m \in rest : Kind[m] = "chinese"}
           todo == rest \ chinese
       IN disp' = [at |-> IF todo = {} THEN "items" ELSE "window",
                   batch |-> b,
                   seen |-> [m \in WindowOf(anchor) |-> version[m]],
                   todo |-> todo,
                   got |-> {},
                   out |-> [k \in {CurrentText(m) : m \in chinese} |->
                              [old |-> row[k], new |-> Answered("completed", None, b)]],
                   held |-> IF anchor \in chinese THEN CurrentText(anchor) ELSE None,
                   done |-> Completed,
                   try |-> 0]
    /\ UNCHANGED <<engine, version, rowVars, req, crashes>>

(* _translate_window: one call for all; after an error, or without the     *)
(* message in the answer, each is asked about on its own.                  *)
WindowRetry ==
    /\ disp.at = "window"
    /\ Retried(disp.try)
    /\ disp' = [disp EXCEPT !.try = @ + 1]
    /\ UNCHANGED <<engine, version, rowVars, req, crashes>>

Window(got) ==
    /\ disp.at = "window"
    /\ disp' = [disp EXCEPT !.at = "items", !.got = got, !.try = 0]
    /\ UNCHANGED <<engine, version, rowVars, req, crashes>>

(* Mutant: the row is keyed by the text that the message has by then.      *)
SeenNow(m) == <<m, version[m]>>

Seen(m) == <<m, disp.seen[m]>>

(* _upsert_translation. Its query flushes the row before; a unique key     *)
(* that was taken meanwhile fails the round.                               *)
LostRace == disp.held # None /\ Conflicts(disp.held, disp.out[disp.held].old)

Failing == [Idle EXCEPT !.at = "failing", !.batch = disp.batch, !.seen = disp.seen]

Upsert(m, status, of) ==
    disp' = IF LostRace THEN Failing
            ELSE LET k == Seen(m)
                     new == Answered(status, of, disp.batch)
                 IN [disp EXCEPT !.todo = @ \ {m}, !.try = 0, !.held = k,
                                 !.out = [j \in DOMAIN @ \cup {k} |->
                                            IF j = k THEN [old |-> row[k], new |-> new]
                                                     ELSE @[j]]]

Item(m) ==
    /\ disp.at = "items"
    /\ disp.todo # {}
    /\ m = First(disp.todo)

ItemInWindow(m) ==
    /\ Item(m)
    /\ m \in disp.got
    /\ Upsert(m, "completed", disp.seen[m])
    /\ UNCHANGED <<engine, version, rowVars, req, crashes>>

ItemRetry(m) ==
    /\ Item(m)
    /\ m \notin disp.got
    /\ Retried(disp.try)
    /\ disp' = [disp EXCEPT !.try = @ + 1]
    /\ UNCHANGED <<engine, version, rowVars, req, crashes>>

(* Mutant: no call for a message that the answer for all left out.         *)
ItemDropped(m, outcome) ==
    /\ Item(m)
    /\ m \notin disp.got
    /\ disp' = [disp EXCEPT !.todo = @ \ {m}, !.try = 0]
    /\ UNCHANGED <<engine, version, rowVars, req, crashes>>

(* Mutant: an error of the model is raised to run_once.                    *)
ItemRaises(m, outcome) ==
    /\ Item(m)
    /\ m \notin disp.got
    /\ IF outcome = "failed" THEN disp' = Failing ELSE Upsert(m, outcome, disp.seen[m])
    /\ UNCHANGED <<engine, version, rowVars, req, crashes>>

ItemAsked(m, outcome) ==
    /\ Item(m)
    /\ m \notin disp.got
    /\ Upsert(m, outcome, disp.seen[m])
    /\ UNCHANGED <<engine, version, rowVars, req, crashes>>

(* run_once after _process_batch.                                          *)
Commit ==
    /\ disp.at = "items"
    /\ disp.todo = {}
    /\ ~LostRace
    /\ row' = [k \in Text |->
                 IF k \in DOMAIN disp.out
                 THEN Written(row[k], disp.out[k].old, disp.out[k].new) ELSE row[k]]
    /\ batch' = [batch EXCEPT ![disp.batch].status = "completed",
                              ![disp.batch].seen = disp.seen]
    /\ disp' = Idle
    /\ UNCHANGED <<engine, version, req, crashes>>

CommitFails ==
    /\ disp.at = "items"
    /\ disp.todo = {}
    /\ LostRace
    /\ disp' = Failing
    /\ UNCHANGED <<engine, version, rowVars, req, crashes>>

(* Mutant: only a batch that is still running is marked.                   *)
MarkRunning ==
    /\ disp.at = "failing"
    /\ batch[disp.batch].status = "running"
    /\ batch' = [batch EXCEPT ![disp.batch].status = "failed",
                              ![disp.batch].seen = disp.seen]
    /\ disp' = Idle
    /\ UNCHANGED <<engine, version, row, req, crashes>>

(* The rollback left the batch pending; a second session marks it.         *)
MarkFailed ==
    /\ disp.at = "failing"
    /\ batch' = [batch EXCEPT ![disp.batch].status = "failed",
                              ![disp.batch].seen = disp.seen]
    /\ disp' = Idle
    /\ UNCHANGED <<engine, version, row, req, crashes>>

-----------------------------------------------------------------------------
(* POST /messages/{id}/translate, with the text v that the client shows.   *)
Goes(r, s) == req' = [req EXCEPT ![r] = s]

(* Phase one. A Chinese text is written in the same session.               *)
Request1(r, m, v) ==
    /\ req[r].at = "new"
    /\ v <= version[m]
    /\ Kind[m] # "empty"
    /\ Goes(r, [Fresh EXCEPT
         !.msg = m, !.given = v, !.done = Completed,
         !.at = IF CurrentText(m) \in Completed THEN "cached"
                ELSE IF Kind[m] = "chinese" THEN "flush" ELSE "call",
         !.key = CurrentText(m),
         !.old = row[CurrentText(m)],
         !.new = Answered("completed", None, row[CurrentText(m)].by)])
    /\ UNCHANGED <<engine, version, rowVars, disp, crashes>>

(* Phase two, without a session.                                           *)
RequestRetry(r) ==
    /\ req[r].at = "call"
    /\ Retried(req[r].try)
    /\ Goes(r, [req[r] EXCEPT !.try = @ + 1])
    /\ UNCHANGED <<engine, version, rowVars, disp, crashes>>

RequestAsked(r, outcome) ==
    /\ req[r].at = "call"
    /\ Goes(r, [req[r] EXCEPT !.at = "select", !.try = 0,
                              !.new = Answered(outcome, None, None)])
    /\ UNCHANGED <<engine, version, rowVars, disp, crashes>>

(* Phase three reads the message again and writes under its text of now.   *)
RequestSelect(r) ==
    /\ req[r].at = "select"
    /\ LET k == CurrentText(req[r].msg)
       IN Goes(r, [req[r] EXCEPT
            !.at = "flush", !.key = k, !.old = row[k],
            !.new = Answered(@.status, req[r].given, row[k].by)])
    /\ UNCHANGED <<engine, version, rowVars, disp, crashes>>

RequestFlush(r) ==
    /\ req[r].at = "flush"
    /\ ~LockedOut
    /\ req[r].key \notin Flushed
    /\ ~Conflicts(req[r].key, req[r].old)
    /\ row' = [row EXCEPT ![req[r].key] = Written(@, req[r].old, req[r].new)]
    /\ Goes(r, [req[r] EXCEPT !.at = "done"])
    /\ UNCHANGED <<engine, version, batch, disp, crashes>>

(* The unique key was taken, or SQLite stayed locked for busy_timeout.     *)
RequestError(r) ==
    /\ req[r].at = "flush"
    /\ \/ LockedOut
       \/ req[r].key \notin Flushed /\ Conflicts(req[r].key, req[r].old)
    /\ Goes(r, [req[r] EXCEPT !.at = "error"])
    /\ UNCHANGED <<engine, version, rowVars, disp, crashes>>

-----------------------------------------------------------------------------
(* The process dies: the open transaction is rolled back.                  *)
Crash ==
    /\ crashes < MaxCrashes
    /\ crashes' = crashes + 1
    /\ disp' = Idle
    /\ req' = [r \in Request |-> IF req[r].at \in {"call", "select", "flush"}
                                 THEN [req[r] EXCEPT !.at = "error"] ELSE req[r]]
    /\ UNCHANGED <<engine, version, rowVars>>

-----------------------------------------------------------------------------
Dispatch ==
    \/ TakeBatch \/ WindowRetry
    \/ \E got \in SUBSET disp.todo : Window(got)
    \/ \E m \in disp.todo :
         \/ ItemInWindow(m) \/ ItemRetry(m)
         \/ \E outcome \in Outcome : ItemAsked(m, outcome)
    \/ Commit \/ CommitFails \/ MarkFailed

Handle(r) ==
    \/ \E m \in Message, v \in Versions : Request1(r, m, v)
    \/ RequestRetry(r)
    \/ \E outcome \in Outcome : RequestAsked(r, outcome)
    \/ RequestSelect(r) \/ RequestFlush(r) \/ RequestError(r)

Next ==
    \/ \E m \in Message : Edit(m)
    \/ \E b \in Batch, m \in Message : Queue(b, m)
    \/ Dispatch
    \/ \E r \in Request : Handle(r)
    \/ Crash

(* translation_loop calls run_once for ever; the model answers or the      *)
(* request of it times out.                                                *)
Fairness == WF_vars(Dispatch)

Spec == Init /\ [][Next]_vars /\ Fairness

-----------------------------------------------------------------------------
(* Types, and the dispatcher works on the oldest batch.                    *)
TransTypeOK ==
    /\ engine \in {"postgres", "sqlite"}
    /\ version \in [Message -> Versions]
    /\ row \in [Text -> Row]
    /\ \A b \in Batch : batch[b].status \in {"unused", "pending", "completed", "failed"}
    /\ disp.at \in {"idle", "window", "items", "failing"}
    /\ disp.at # "idle" => disp.batch \in Pending /\ disp.batch = Oldest(Pending)
    /\ \A r \in Request :
         req[r].at \in {"new", "call", "select", "flush", "cached", "done", "error"}
    /\ crashes \in 0..MaxCrashes

(* A completed batch left a row, translated or failed, for every text that *)
(* its window had when it was taken, whatever the model answered to the    *)
(* call for all and to the calls for each (_process_batch).                *)
BatchCovers ==
    \A b \in Batch : batch[b].status = "completed" =>
        \A m \in WindowOf(batch[b].anchor) :
            Kind[m] # "empty" => row[<<m, batch[b].seen[m]>>].status # "none"

(* A batch fails only when the row of one of its texts was written by      *)
(* someone else while it was in progress: errors of the model never fail   *)
(* it (run_once), and never on SQLite, where nobody else could write.      *)
FailedByRace ==
    \A b \in Batch : batch[b].status = "failed" =>
        /\ engine = "postgres"
        /\ \E m \in DOMAIN batch[b].seen : row[<<m, batch[b].seen[m]>>] # NoRow

(* A translation kept under a text is one of that text, unless a request   *)
(* translated what its client showed while the message had been edited:    *)
(* phase three of translate_message looks the message up again.            *)
MistranslationExplained ==
    \A k \in Text : row[k].of \notin {None, k[2]} =>
        \E r \in Request : /\ req[r].at = "done"
                           /\ req[r].msg = k[1]
                           /\ req[r].given = row[k].of

(* A completed translation turns into a failed one only by a batch or a    *)
(* request that began before it was completed, or by a batch for a padded  *)
(* text, whose row it never finds.                                         *)
CompletedStays ==
    [][\A k \in Text : row[k].status = "completed" /\ row'[k].status = "failed" =>
         \/ disp.at = "items" /\ disp'.at = "idle"
              /\ (k \notin disp.done \/ Kind[k[1]] = "padded")
         \/ \E r \in Request : /\ req[r].at = "flush" /\ req'[r].at = "done"
                                /\ k \notin req[r].done]_vars

(* A queued batch is completed or marked failed in the end, although the   *)
(* model fails and the process is restarted.                               *)
BatchesEnd == \A b \in Batch : []<>(batch[b].status # "pending")

=============================================================================
