------------------------------- MODULE Relay -------------------------------
(***************************************************************************)
(* The jobs of the legacy console that relay messages: the router sends on *)
(* what an admin commands (router.py), the forwarder shows the admins each *)
(* message of a user with its answer (forwarder.py), and a reply can be    *)
(* sent from the console (web_api.py). Router and forwarder are started by *)
(* a timer or from the console and run to their end once; nothing keeps    *)
(* two runs apart. A run reads how far the last one came from a file,      *)
(* handles all later rows of the table of messages, and writes the file at *)
(* its end. Files are written in place: opening one empties it, two that   *)
(* write it at once may leave a mixture, and what cannot be read counts as *)
(* none. Any step can raise (the client of Hermes times out after a        *)
(* minute) or the process die: the run ends there.                         *)
(*                                                                         *)
(* A message is its row. Left out: the texts (a text that the model cannot *)
(* word is sent as it is), names in place of numbers, rows without         *)
(* content, and the ids of handled messages and pairs in the files: they   *)
(* are never above the position, so no later run meets them. One user      *)
(* writes. MaxRows and MaxRuns bound the model.                            *)
(***************************************************************************)
EXTENDS Naturals, FiniteSets, FiniteSetsExt, Sequences

CONSTANTS
    Runner, Contact, MaxRows, MaxRuns,
    Listing,     \* what Hermes may list
    Named,       \* the numbers that commands and replies name
    Nobody,      \* no contact
    Torn         \* the content of a file that is being written

VARIABLES
    table,       \* state.db, written by Hermes: its messages in order
    aliases,     \* the file of the contacts' numbers
    known,       \* history: its last complete content
    position,    \* position[job]: the file with the last row of the job
    run,         \* run[r]: how far a run came
    sent,        \* sent[i]: how often command i reached a contact, up to 2
    tried,       \* history: commands handled (after 0), and pairs sent on
    excused,     \* history: commands that a later run may not know of
    cuts,        \* history: messages right after which a forwarder began
    runs

vars == <<table, aliases, known, position, run, sent, tried, excused, cuts, runs>>

-----------------------------------------------------------------------------
Job == {"router", "forward", "reply"}
Number == 1..Cardinality(Contact)

ASSUME RelayAssumption ==
    /\ IsFiniteSet(Contact) /\ Contact \subseteq Nat /\ Nobody \notin Contact
    /\ Torn \notin Nat
    /\ Listing \subseteq SUBSET Contact
    /\ Named \subseteq Number
    /\ MaxRows \in Nat /\ MaxRuns \in Nat

(* A command names a number; one that asks for a list or for the status is *)
(* answered like one whose number names nobody.                            *)
Row == [kind : {"command"}, no : Named] \cup [kind : {"text", "reply"}, no : {0}]

Is(i, kind) == i \in 1..Len(table) /\ table[i].kind = kind
Commands == {i \in 1..Len(table) : Is(i, "command")}
Sent == {i \in Commands : sent[i] > 0}

NoNumbers == [n \in Number |-> Nobody]

Idle == [at |-> "idle", job |-> "router", row |-> 0, from |-> 0, upto |-> 0, no |-> 0,
         listed |-> {}, read |-> NoNumbers, now |-> NoNumbers, pending |-> 0]

Init ==
    /\ table = <<>>
    /\ aliases = NoNumbers /\ known = NoNumbers
    /\ position = [j \in {"router", "forward"} |-> 0]
    /\ run = [r \in Runner |-> Idle]
    /\ sent = [i \in 1..MaxRows |-> 0]
    /\ tried = {} /\ excused = {} /\ cuts = {}
    /\ runs = 0

Goes(r, s) == run' = [run EXCEPT ![r] = s]

(* Hermes records a message.                                               *)
Recorded(row) == Len(table) < MaxRows /\ table' = Append(table, row)

Arrives(row) ==
    /\ Recorded(row)
    /\ UNCHANGED <<aliases, known, position, run, sent, tried, excused, cuts, runs>>

-----------------------------------------------------------------------------
(* load_json gives a default for a file it cannot read.                    *)
Loaded(file, default) == IF file = Torn THEN default ELSE file

Takes(job, i) == IF job = "router" THEN Is(i, "command") ELSE TRUE

Rows(s) == {i \in s.from + 1 .. s.upto : Takes(s.job, i)}

Starts(r) == run[r].at = "idle" /\ runs < MaxRuns /\ runs' = runs + 1

NewRun(job, from) ==
    [Idle EXCEPT !.job = job, !.at = "rows", !.from = from, !.row = from, !.upto = Len(table)]

(* It numbers the contacts that Hermes lists.                              *)
Numbering(s, listed) ==
    [s EXCEPT !.at = "numbering", !.listed = listed, !.read = Loaded(aliases, NoNumbers)]

(* What a run that begins now may send although another has.               *)
Unseen(from) ==
    UNION {{i \in Commands : from < i /\ i <= run[q].upto} :
             q \in {q \in Runner : run[q].at # "idle" /\ run[q].job = "router"}}

BeginRouter(r, listed) ==
    LET from == Loaded(position["router"], 0) IN
    /\ Starts(r)
    /\ Goes(r, Numbering(NewRun("router", from), listed))
    /\ excused' = excused \cup Unseen(from)
         \cup (IF position["router"] = Torn THEN Sent ELSE {})
    /\ UNCHANGED <<table, aliases, known, position, sent, tried, cuts>>

BeginForward(r) ==
    LET from == Loaded(position["forward"], 0) IN
    /\ Starts(r)
    /\ from < Len(table)
    /\ Goes(r, NewRun("forward", from))
    /\ cuts' = IF Is(from, "text") THEN cuts \cup {from} ELSE cuts
    /\ UNCHANGED <<table, aliases, known, position, sent, tried, excused>>

(* POST /api/reply with a number                                           *)
BeginReply(r, n, listed) ==
    /\ Starts(r)
    /\ Goes(r, Numbering([NewRun("reply", 0) EXCEPT !.upto = 0, !.no = n], listed))
    /\ UNCHANGED <<table, aliases, known, position, sent, tried, excused, cuts>>

-----------------------------------------------------------------------------
(* refresh_aliases: a contact keeps its number while it is listed, others  *)
(* get the lowest that were not in the file, in the order of their names.  *)
Rank(x, S) == Cardinality({y \in S : y < x})

(* Mutant: all are numbered anew.                                          *)
RefreshedAnew(read, listed) ==
    [n \in Number |-> LET c == {d \in listed : Rank(d, listed) = n - 1}
                      IN IF c = {} THEN Nobody ELSE CHOOSE d \in c : TRUE]

Refreshed(read, listed) ==
    LET named == {read[n] : n \in Number}
        free == {n \in Number : read[n] = Nobody}
        new(n) == {c \in listed \ named : Rank(c, listed \ named) = Rank(n, free)}
    IN  [n \in Number |->
           IF n \in free THEN (IF new(n) = {} THEN Nobody ELSE CHOOSE c \in new(n) : TRUE)
           ELSE IF read[n] \in listed THEN read[n] ELSE Nobody]

(* A file that is not empty when it is written has been written since it   *)
(* was opened.                                                             *)
Written(was, now) == IF was = Torn THEN {now} ELSE {now, Torn}

NumbersOpen(r) ==
    /\ run[r].at = "numbering"
    /\ aliases' = Torn
    /\ Goes(r, [run[r] EXCEPT !.at = "numbers"])
    /\ UNCHANGED <<table, known, position, sent, tried, excused, cuts, runs>>

NumbersWritten(r) ==
    LET now == Refreshed(run[r].read, run[r].listed) IN
    /\ run[r].at = "numbers"
    /\ aliases' \in Written(aliases, now)
    /\ known' = now
    /\ Goes(r, [run[r] EXCEPT !.at = IF run[r].job = "router" THEN "rows" ELSE "reply",
                              !.listed = {}, !.read = NoNumbers, !.now = now])
    /\ UNCHANGED <<table, position, sent, tried, excused, cuts, runs>>

-----------------------------------------------------------------------------
(* The row that a run comes to.                                            *)
Left(r) == {i \in Rows(run[r]) : i > run[r].row}
At(r, i) == run[r].at = "rows" /\ Left(r) # {} /\ i = Min(Left(r))
To(r, no) == run[r].now[no]

Reach(i, reached) ==
    sent' = IF reached /\ i # 0 /\ sent[i] < 2 THEN [sent EXCEPT ![i] = @ + 1] ELSE sent

(* Before it sends, the model is asked to word the text, which takes long. *)
(* Whatever comes of that (rewrite never raises), there is a text to send. *)
Words(r, i) ==
    /\ \/ run[r].job = "router" /\ At(r, i) /\ To(r, table[i].no) # Nobody
       \/ run[r].at = "reply" /\ i = 0 /\ To(r, run[r].no) # Nobody
    /\ Goes(r, IF i = 0 THEN [run[r] EXCEPT !.at = "worded", !.no = 0, !.now = NoNumbers]
               ELSE [run[r] EXCEPT !.at = "worded"])
    /\ UNCHANGED <<table, aliases, known, position, sent, tried, excused, cuts, runs>>

Worded(r, i) == run[r].at = "worded" /\ i = IF run[r].job = "router" THEN Min(Left(r)) ELSE 0

(* A command is handled when an answer is there, whatever it says: the     *)
(* admin is told, and the run goes on. A reply has a last step.            *)
Answered(r, i, ok) ==
    /\ tried' = IF run[r].job = "router" THEN tried \cup {<<0, i>>} ELSE tried
    /\ Goes(r, [run[r] EXCEPT !.row = i,
                  !.at = IF run[r].job = "router" THEN "rows" ELSE IF ok THEN "sent" ELSE "failed"])

(* send_whatsapp asks the bridge, whose answer may not come, ...           *)
AsksBridge(r, i, reached, answered) ==
    /\ answered => reached
    /\ Reach(i, reached)
    /\ excused' = IF reached /\ ~answered THEN excused \cup {i} ELSE excused
    /\ IF answered THEN Answered(r, i, TRUE)
       ELSE /\ Goes(r, [run[r] EXCEPT !.row = i, !.at = "fallback"])
            /\ UNCHANGED tried

SendCommand(r, i, reached, answered) ==
    /\ run[r].job = "router" /\ Worded(r, i)
    /\ AsksBridge(r, i, reached, answered)
    /\ UNCHANGED <<table, aliases, known, position, cuts, runs>>

SendReply(r, answered) ==
    /\ run[r].job = "reply" /\ Worded(r, 0)
    /\ AsksBridge(r, 0, answered, answered)
    /\ UNCHANGED <<table, aliases, known, position, cuts, runs>>

(* ... and then the client of Hermes, whose answer may not come either.    *)
Fallback(r, reached, answered) ==
    /\ run[r].at = "fallback"
    /\ answered => reached
    /\ Reach(run[r].row, reached)
    /\ Answered(r, run[r].row, answered)
    /\ UNCHANGED <<table, aliases, known, position, excused, cuts, runs>>

(* A command that names nobody is only answered.                           *)
NotFound(r, i) ==
    /\ run[r].job = "router" /\ At(r, i)
    /\ To(r, table[i].no) = Nobody
    /\ Answered(r, i, FALSE)
    /\ UNCHANGED <<table, aliases, known, position, sent, excused, cuts, runs>>

(* append_assistant_message, or a preview or an error                     *)
EndReply(r) ==
    /\ run[r].job = "reply"
    /\ IF run[r].at = "sent" THEN Recorded([kind |-> "reply", no |-> 0])
       ELSE /\ \/ run[r].at = "failed"
               \/ run[r].at = "reply" /\ To(r, run[r].no) = Nobody
               \/ run[r].at = "worded"
            /\ UNCHANGED table
    /\ Goes(r, Idle)
    /\ UNCHANGED <<aliases, known, position, sent, tried, excused, cuts, runs>>

-----------------------------------------------------------------------------
(* Mutant: an earlier one goes on waiting.                                 *)
WaitsFirst(r, i) == [run[r] EXCEPT !.row = i, !.pending = IF @ = 0 THEN i ELSE @]

(* The forwarder: a message of the user waits for its answer.              *)
Waits(r, i) == [run[r] EXCEPT !.row = i, !.pending = i]

TakeText(r, i) ==
    /\ run[r].job = "forward" /\ At(r, i) /\ Is(i, "text")
    /\ Goes(r, Waits(r, i))
    /\ UNCHANGED <<table, aliases, known, position, sent, tried, excused, cuts, runs>>

(* An answer is sent on, to all channels or not; it waits on if not.       *)
ForwardPair(r, i, ok) ==
    /\ run[r].job = "forward" /\ At(r, i) /\ Is(i, "reply")
    /\ run[r].pending # 0
    /\ tried' = tried \cup {<<run[r].pending, i>>}
    /\ Goes(r, [run[r] EXCEPT !.row = i, !.pending = IF ok THEN 0 ELSE @])
    /\ UNCHANGED <<table, aliases, known, position, sent, excused, cuts, runs>>

Skip(r, i) ==
    /\ run[r].job = "forward" /\ At(r, i)
    /\ \/ Is(i, "command")
       \/ Is(i, "reply") /\ run[r].pending = 0
    /\ Goes(r, [run[r] EXCEPT !.row = i])
    /\ UNCHANGED <<table, aliases, known, position, sent, tried, excused, cuts, runs>>

-----------------------------------------------------------------------------
(* save_state                                                              *)
SaveOpens(r) ==
    /\ run[r].at = "rows" /\ Left(r) = {}
    /\ position' = [position EXCEPT ![run[r].job] = Torn]
    /\ Goes(r, [run[r] EXCEPT !.at = "saving", !.now = NoNumbers, !.pending = 0])
    /\ UNCHANGED <<table, aliases, known, sent, tried, excused, cuts, runs>>

(* Mutant: the router's is the last row of the table, not the last handled *)
PositionLast(r) == IF run[r].job = "router" THEN Len(table) ELSE run[r].row

(* Mutant: the row before the last handled.                                *)
PositionBefore(r) == IF run[r].row = 0 THEN 0 ELSE run[r].row - 1

Position(r) == run[r].row

SaveWrites(r) ==
    /\ run[r].at = "saving"
    /\ \E p \in Written(position[run[r].job], Position(r)) :
         position' = [position EXCEPT ![run[r].job] = p]
    /\ excused' = IF run[r].job = "router"
                  THEN excused \cup {i \in Sent : i > run[r].row}
                  ELSE excused
    /\ Goes(r, Idle)
    /\ UNCHANGED <<table, aliases, known, sent, tried, cuts, runs>>

(* A step raises, or the process dies.                                     *)
Abort(r) ==
    /\ run[r].at # "idle"
    /\ excused' = IF run[r].job = "router" THEN excused \cup {i \in Sent : run[r].from < i /\ i <= run[r].row}
                  ELSE excused
    /\ Goes(r, Idle)
    /\ UNCHANGED <<table, aliases, known, position, sent, tried, cuts, runs>>

-----------------------------------------------------------------------------
Work(r) ==
    \/ BeginForward(r)
    \/ \E listed \in Listing :
         BeginRouter(r, listed) \/ \E n \in Named : BeginReply(r, n, listed)
    \/ NumbersOpen(r) \/ NumbersWritten(r)
    \/ \E i \in 0..MaxRows : Words(r, i)
    \/ \E i \in 1..MaxRows, reached, answered \in BOOLEAN : SendCommand(r, i, reached, answered)
    \/ \E answered \in BOOLEAN :
         SendReply(r, answered) \/ \E reached \in BOOLEAN : Fallback(r, reached, answered)
    \/ \E i \in 1..MaxRows : NotFound(r, i) \/ TakeText(r, i) \/ Skip(r, i)
    \/ \E i \in 1..MaxRows, ok \in BOOLEAN : ForwardPair(r, i, ok)
    \/ EndReply(r)
    \/ SaveOpens(r) \/ SaveWrites(r) \/ Abort(r)

Next ==
    \/ \E row \in Row : Arrives(row)
    \/ \E r \in Runner : Work(r)

Spec == Init /\ [][Next]_vars

-----------------------------------------------------------------------------
(* Types.                                                                  *)
RelayTypeOK ==
    /\ table \in Seq(Row) /\ Len(table) <= MaxRows
    /\ known \in [Number -> Contact \cup {Nobody}]
    /\ aliases \in {known, Torn}
    /\ \A j \in DOMAIN position : position[j] \in 0..MaxRows \cup {Torn}
    /\ sent \in [1..MaxRows -> 0..2]

(* No command is passed over: one that is not above the position of the    *)
(* router was sent, or refused and answered (router.run).                  *)
NothingSkipped ==
    \A i \in 1..Len(table) :
        Is(i, "command") /\ i <= Loaded(position["router"], 0) => <<0, i>> \in tried

(* A command reaches its contact twice only if the bridge did not answer   *)
(* and Hermes was asked too, if a run that had sent it ended before its    *)
(* position was saved, if two runs overlapped, or if the file of positions *)
(* was read while it was being written (router.run, send_whatsapp).        *)
ResentExplained == \A i \in 1..MaxRows : sent[i] = 2 => i \in excused

(* A message of the user and the answer next to it are sent on together,   *)
(* by any number of runs, unless a run began between the two: the cursor   *)
(* had passed the message, and nothing remembers it (forwarder.run). A     *)
(* forward that failed counts as tried: the pair that forwarder.py:96-101  *)
(* then drops for good is no violation of this property.                   *)
PairsForwarded ==
    \A i \in 1..Len(table) :
        /\ Is(i, "text") /\ Is(i + 1, "reply")
        /\ i + 1 <= Loaded(position["forward"], 0)
        => <<i, i + 1>> \in tried \/ i \in cuts

(* A number goes on naming the contact it names as long as that is listed, *)
(* or was when the run read the directory, unless the run did not read the *)
(* last numbers: the file was being written, or has been since             *)
(* (refresh_aliases).                                                      *)
NumbersStay ==
    [][\A n \in Number :
         known[n] # Nobody /\ known'[n] # known[n] =>
           \E r \in Runner :
             /\ run[r].at = "numbers" /\ run'[r].at # "numbers"
             /\ known[n] \notin run[r].listed \/ run[r].read # known]_vars

=============================================================================
