------------------------- MODULE TranslationsProofs -------------------------
(***************************************************************************)
(* The proofs about Translations: what a batch that was completed or       *)
(* failed says of the rows, for every conversation, window and number of   *)
(* requests.                                                               *)
(***************************************************************************)
EXTENDS Translations, WellFoundedInduction, TLAPS

-----------------------------------------------------------------------------
(* Types.                                                                  *)
Seens == UNION {[D -> Versions] : D \in SUBSET Message}
Entry == [old : Row, new : Row]
Outs == UNION {[D -> Entry] : D \in SUBSET Text}

BatchSet == [status : {"unused", "pending", "completed", "failed"},
             anchor : Message \cup {None}, seen : Seens]

DispSet == [at : {"idle", "window", "items", "failing"}, batch : Batch \cup {None},
            seen : Seens, todo : SUBSET Message, got : SUBSET Message, out : Outs,
            held : Text \cup {None}, done : SUBSET Text, try : Nat]

ReqSet == [at : {"new", "call", "select", "flush", "cached", "done", "error"},
           msg : Message \cup {None}, given : Nat, key : Text \cup {None},
           old : Row, new : Row, done : SUBSET Text, try : Nat]

TransTypes ==
    /\ engine \in {"postgres", "sqlite"}
    /\ version \in [Message -> Versions]
    /\ \A m \in Message : version[m] <= MaxEdits[m]
    /\ row \in [Text -> Row]
    /\ batch \in [Batch -> BatchSet]
    /\ disp \in DispSet
    /\ req \in [Request -> ReqSet]

(* A row is there or not, and it is of a text that the message has had.    *)
RowsOK ==
    \A k \in Text :
        /\ row[k].status = "none" => row[k] = NoRow
        /\ row[k] # NoRow => k[2] <= version[k[1]]

-----------------------------------------------------------------------------
(* What the dispatcher knows of the rows while its transaction is open.    *)

(* It works on a batch that is pending, on the window of its anchor.       *)
WindowOK ==
    /\ disp.batch \in Pending
    /\ batch[disp.batch].anchor \in Message
    /\ DOMAIN disp.seen = WindowOf(batch[disp.batch].anchor)
    /\ \A m \in DOMAIN disp.seen : disp.seen[m] <= version[m]

(* It does not touch a text that was translated when it began, unless that *)
(* is padded.                                                              *)
Touches(k) == Kind[k[1]] = "padded" \/ k \notin disp.done

TodoOK == \A m \in disp.todo : m \in DOMAIN disp.seen /\ Touches(Seen(m))

(* What it will write for a text: a row that was there is there, and one   *)
(* that it inserted and flushed is nobody else's.                          *)
OutOK(k) ==
    LET old == disp.out[k].old
        new == disp.out[k].new
    IN  /\ k[1] \in DOMAIN disp.seen /\ k = Seen(k[1])
        /\ Touches(k)
        /\ new.status \in Outcome /\ new.of \in {None, k[2]}
        /\ old # NoRow => row[k] # NoRow
        /\ k \in Flushed /\ old = NoRow => row[k] = NoRow
        /\ engine = "sqlite" => old = row[k]

(* Every text of the window has a row, or gets one, or is yet to be asked  *)
(* about.                                                                  *)
Covered(m) ==
    Kind[m] # "empty" =>
        m \in disp.todo \/ Seen(m) \in DOMAIN disp.out \/ row[Seen(m)].status # "none"

(* What a lost race leaves.                                                *)
Raced(seen) ==
    /\ engine = "postgres"
    /\ \E m \in DOMAIN seen : <<m, seen[m]>> \in Text /\ row[<<m, seen[m]>>] # NoRow

DispOK ==
    /\ InTransaction =>
         /\ WindowOK /\ TodoOK
         /\ \A k \in DOMAIN disp.out : OutOK(k)
         /\ disp.held \in DOMAIN disp.out \cup {None}
         /\ \A m \in DOMAIN disp.seen : Covered(m)
    /\ disp.at = "failing" => disp.batch \in Batch /\ Raced(disp.seen)

(* What a request knows. The text that it asks about was not translated    *)
(* when it began.                                                          *)
ReqOK(s) ==
    /\ s.at \in {"call", "select"} =>
         /\ s.msg \in Message /\ s.given \in Versions
         /\ \A k \in s.done : k[1] = s.msg => k[2] < version[s.msg]
    /\ s.at = "select" => s.new.status \in Outcome
    /\ s.at = "flush" =>
         /\ s.key \in Text /\ s.key[1] = s.msg /\ s.key[2] <= version[s.msg]
         /\ s.new.status \in Outcome /\ s.new.of \in {None, s.given}
         /\ s.key \in s.done => s.new.status = "completed"
         /\ s.old # NoRow => row[s.key] # NoRow

(* What a batch keeps after the round that worked on it.                   *)
BatchOK(b) ==
    /\ batch[b].status \in {"pending", "completed"} => batch[b].anchor \in Message
    /\ batch[b].status = "completed" =>
         /\ DOMAIN batch[b].seen = WindowOf(batch[b].anchor)
         /\ \A m \in DOMAIN batch[b].seen : <<m, batch[b].seen[m]>> \in Text
    /\ batch[b].status = "failed" => Raced(batch[b].seen)

TransInv ==
    /\ TransTypes /\ RowsOK /\ DispOK
    /\ \A r \in Request : ReqOK(req[r])
    /\ \A b \in Batch : BatchOK(b)
    /\ BatchCovers /\ MistranslationExplained

-----------------------------------------------------------------------------
(* Numbers and texts.                                                      *)

(* The relation of the library is the order of numbers.                    *)
LEMMA NatLess ==
    ASSUME NEW x \in Nat, NEW y \in Nat, ~(<<y, x>> \in OpToRel(<, Nat))
    PROVE  x <= y
BY DEF OpToRel

LEMMA OldestOf ==
    ASSUME NEW S \in SUBSET Nat, S # {}
    PROVE  Oldest(S) \in S
<1>1. \E x \in S : \A y \in S : ~ (<<y, x>> \in OpToRel(<, Nat))
    BY WFMin, NatLessThanWellFounded
<1>2. \E x \in S : \A y \in S : x <= y
    BY <1>1, NatLess
<1> QED BY <1>2 DEF Oldest

LEMMA TextIs ==
    ASSUME NEW m \in Message, NEW v \in Nat, v <= MaxEdits[m]
    PROVE  v \in Versions /\ <<m, v>> \in Text
<1>1. v \in 0..MaxEdits[m]
    BY TranslationAssumption
<1>2. v \in Versions
    BY <1>1 DEF Versions
<1> QED BY <1>2 DEF Text

LEMMA TextParts ==
    ASSUME NEW k \in Text
    PROVE  k[1] \in Message /\ k[2] \in Versions /\ k = <<k[1], k[2]>>
BY DEF Text

LEMMA VersionsAreNat == Versions \subseteq Nat
BY TranslationAssumption DEF Versions

LEMMA CurrentIsText ==
    ASSUME TransTypes, NEW m \in Message
    PROVE  CurrentText(m) \in Text /\ version[m] \in Nat
<1>1. version[m] \in Nat /\ version[m] <= MaxEdits[m]
    BY VersionsAreNat DEF TransTypes
<1>2. PICK v \in Nat : v = version[m]
    BY <1>1
<1> QED BY <1>1, <1>2, TextIs DEF CurrentText

LEMMA RowParts ==
    /\ NoRow \in Row
    /\ \A x \in Row : x.status \in {"none", "failed", "completed"}
    /\ \A x, y \in Row : x.status # y.status => x # y
    /\ NoRow.status = "none"
BY DEF Row, NoRow

(* A write leaves a row that is there, with what one of both had.          *)
LEMMA WrittenIs ==
    ASSUME NEW now \in Row, NEW old \in Row, NEW new \in Row,
           new.status \in Outcome,
           old # NoRow => now.status # "none"
    PROVE  /\ Written(now, old, new) \in Row
           /\ Written(now, old, new).status # "none"
           /\ Written(now, old, new).of \in {new.of, now.of}
           /\ old # NoRow /\ now.status = "completed" /\ new.status = "completed" =>
                Written(now, old, new).status = "completed"
<1>1. CASE old = NoRow
    BY <1>1 DEF Written, Outcome
<1>2. CASE old # NoRow
    <2>1. PICK s : s = IF new.status # old.status THEN new.status ELSE now.status OBVIOUS
    <2>2. PICK o : o = IF {new.of, old.of} # {None} THEN new.of ELSE now.of OBVIOUS
    <2>3. PICK b : b = IF new.by # old.by THEN new.by ELSE now.by OBVIOUS
    <2>4. Written(now, old, new) = [status |-> s, of |-> o, by |-> b]
        BY <1>2, <2>1, <2>2, <2>3 DEF Written
    <2>5. /\ s \in {"failed", "completed"} /\ o \in {new.of, now.of}
          /\ o \in Versions \cup {None} /\ b \in Batch \cup {None}
          /\ now.status = "completed" /\ new.status = "completed" => s = "completed"
        BY <1>2, <2>1, <2>2, <2>3 DEF Row, Outcome
    <2> QED BY <2>4, <2>5 DEF Row
<1> QED BY <1>1, <1>2

LEMMA EmptyIs ==
    /\ <<>> \in Seens /\ <<>> \in Outs
    /\ DOMAIN <<>> = {}
<1>1. DOMAIN <<>> = {} /\ \A S : <<>> \in [{} -> S]
    OBVIOUS
<1>2. {} \in SUBSET Message /\ {} \in SUBSET Text
    OBVIOUS
<1> QED BY <1>1, <1>2 DEF Seens, Outs

LEMMA SeensAre ==
    ASSUME NEW f \in Seens
    PROVE  /\ DOMAIN f \subseteq Message /\ f \in [DOMAIN f -> Versions]
           /\ \A m \in DOMAIN f : f[m] \in Versions /\ f[m] \in Nat
BY VersionsAreNat DEF Seens

LEMMA OutsAre ==
    ASSUME NEW f \in Outs
    PROVE  /\ DOMAIN f \subseteq Text /\ f \in [DOMAIN f -> Entry]
           /\ \A k \in DOMAIN f : f[k] \in Entry /\ f[k].old \in Row /\ f[k].new \in Row
BY DEF Outs, Entry

LEMMA IdleIs == Idle \in DispSet
BY EmptyIs DEF Idle, DispSet

LEMMA AnsweredIs ==
    ASSUME NEW status \in Outcome, NEW v \in Versions \cup {None}, NEW by \in Batch \cup {None}
    PROVE  /\ Answered(status, v, by) \in Row
           /\ Answered(status, v, by).status = status
           /\ Answered(status, v, by).of \in {None, v}
BY DEF Answered, Row, Outcome

-----------------------------------------------------------------------------
(* The steps keep the types.                                               *)

LEMMA WrittenRow ==
    ASSUME NEW now \in Row, NEW old \in Row, NEW new \in Row
    PROVE  Written(now, old, new) \in Row
<1>1. CASE old = NoRow
    BY <1>1 DEF Written
<1>2. CASE old # NoRow
    <2>1. PICK s : s = IF new.status # old.status THEN new.status ELSE now.status OBVIOUS
    <2>2. PICK o : o = IF {new.of, old.of} # {None} THEN new.of ELSE now.of OBVIOUS
    <2>3. PICK b : b = IF new.by # old.by THEN new.by ELSE now.by OBVIOUS
    <2>4. Written(now, old, new) = [status |-> s, of |-> o, by |-> b]
        BY <1>2, <2>1, <2>2, <2>3 DEF Written
    <2>5. s \in {"none", "failed", "completed"} /\ o \in Versions \cup {None} /\ b \in Batch \cup {None}
        BY <2>1, <2>2, <2>3 DEF Row
    <2> QED BY <2>4, <2>5 DEF Row
<1> QED BY <1>1, <1>2

LEMMA SeenIs ==
    ASSUME TransTypes, DispOK, InTransaction, NEW m \in DOMAIN disp.seen
    PROVE  /\ m \in Message /\ Seen(m) \in Text /\ disp.seen[m] \in Versions
           /\ Seen(m) = <<m, disp.seen[m]>> /\ disp.seen[m] <= version[m]
<1>1. disp.seen \in Seens
    BY DEF TransTypes, DispSet
<1>2. m \in Message /\ disp.seen[m] \in Versions /\ disp.seen[m] \in Nat
    BY <1>1, SeensAre
<1>3. disp.seen[m] <= version[m] /\ version[m] <= MaxEdits[m] /\ version[m] \in Nat
      /\ MaxEdits[m] \in Nat
    BY <1>2, VersionsAreNat, TranslationAssumption DEF DispOK, WindowOK, TransTypes
<1>4. PICK v \in Nat : v = disp.seen[m]
    BY <1>2
<1>5. v <= MaxEdits[m]
    BY <1>3, <1>4
<1>6. <<m, v>> \in Text
    BY <1>2, <1>5, TextIs
<1> QED BY <1>2, <1>3, <1>4, <1>6 DEF Seen

(* What the dispatcher finds when it takes a batch.                        *)
LEMMA TakeBatchIs ==
    ASSUME TransTypes, TakeBatch, \A b \in Pending : batch[b].anchor \in Message
    PROVE  \E b \in Pending, chinese \in SUBSET Message, todo \in SUBSET Message :
             LET anchor == batch[b].anchor IN
             /\ anchor \in Message
             /\ chinese \cap todo = {} /\ chinese \cup todo = Untranslated(anchor)
             /\ disp' = [at |-> IF todo = {} THEN "items" ELSE "window",
                         batch |-> b,
                         seen |-> [m \in WindowOf(anchor) |-> version[m]],
                         todo |-> todo,
                         got |-> {},
                         out |-> [k \in {CurrentText(m) : m \in chinese} |->
                                    [old |-> row[k], new |-> Answered("completed", None, b)]],
                         held |-> IF anchor \in chinese THEN CurrentText(anchor) ELSE None,
                         done |-> Completed,
                         try |-> 0]
<1>1. PICK b : b = Oldest(Pending) OBVIOUS
<1>2. Pending \in SUBSET Nat /\ Pending # {}
    BY TranslationAssumption DEF Pending, TakeBatch
<1>3. b \in Pending
    BY <1>1, <1>2, OldestOf
<1>4. PICK rest : rest = Untranslated(batch[b].anchor) OBVIOUS
<1>5. PICK chinese : chinese = {m \in rest : Kind[m] = "chinese"} OBVIOUS
<1>6. PICK todo : todo = rest \ chinese OBVIOUS
<1>7. chinese \in SUBSET Message /\ todo \in SUBSET Message
    BY <1>4, <1>5, <1>6 DEF Untranslated, WindowOf
<1>8. chinese \cap todo = {} /\ chinese \cup todo = rest
    BY <1>5, <1>6
<1>9. disp' = [at |-> IF todo = {} THEN "items" ELSE "window",
               batch |-> b,
               seen |-> [m \in WindowOf(batch[b].anchor) |-> version[m]],
               todo |-> todo,
               got |-> {},
               out |-> [k \in {CurrentText(m) : m \in chinese} |->
                          [old |-> row[k], new |-> Answered("completed", None, b)]],
               held |-> IF batch[b].anchor \in chinese THEN CurrentText(batch[b].anchor) ELSE None,
               done |-> Completed,
               try |-> 0]
    BY <1>1, <1>4, <1>5, <1>6 DEF TakeBatch
<1> QED BY <1>3, <1>4, <1>7, <1>8, <1>9

LEMMA TakeBatchTypes ==
    ASSUME TransTypes, TakeBatch, \A b \in Pending : batch[b].anchor \in Message
    PROVE  disp' \in DispSet
<1>1. PICK b \in Pending, chinese \in SUBSET Message, todo \in SUBSET Message :
        LET anchor == batch[b].anchor IN
        /\ anchor \in Message
        /\ chinese \cap todo = {} /\ chinese \cup todo = Untranslated(anchor)
        /\ disp' = [at |-> IF todo = {} THEN "items" ELSE "window",
                    batch |-> b,
                    seen |-> [m \in WindowOf(anchor) |-> version[m]],
                    todo |-> todo,
                    got |-> {},
                    out |-> [k \in {CurrentText(m) : m \in chinese} |->
                               [old |-> row[k], new |-> Answered("completed", None, b)]],
                    held |-> IF anchor \in chinese THEN CurrentText(anchor) ELSE None,
                    done |-> Completed,
                    try |-> 0]
    BY TakeBatchIs
<1>2. b \in Batch
    BY DEF Pending
<1>3. PICK seen : seen = [m \in WindowOf(batch[b].anchor) |-> version[m]] OBVIOUS
<1>4. seen \in Seens
    <2>1. WindowOf(batch[b].anchor) \in SUBSET Message
        BY DEF WindowOf
    <2>2. seen \in [WindowOf(batch[b].anchor) -> Versions]
        BY <1>3, <2>1 DEF TransTypes
    <2> QED BY <2>1, <2>2 DEF Seens
<1>5. PICK out : out = [k \in {CurrentText(m) : m \in chinese} |->
                          [old |-> row[k], new |-> Answered("completed", None, b)]] OBVIOUS
<1>6. out \in Outs
    <2>1. PICK D : D = {CurrentText(m) : m \in chinese} OBVIOUS
    <2>2. D \in SUBSET Text
        BY <2>1, CurrentIsText
    <2>3. Answered("completed", None, b) \in Row
        BY <1>2, AnsweredIs DEF Outcome
    <2>4. \A k \in D : [old |-> row[k], new |-> Answered("completed", None, b)] \in Entry
        BY <2>2, <2>3 DEF TransTypes, Entry
    <2>5. out \in [D -> Entry]
        BY <1>5, <2>1, <2>4
    <2> QED BY <2>2, <2>5 DEF Outs
<1>7. PICK held : held = IF batch[b].anchor \in chinese THEN CurrentText(batch[b].anchor) ELSE None
    OBVIOUS
<1>8. held \in Text \cup {None}
    BY <1>1, <1>7, CurrentIsText
<1>9. PICK at : at = IF todo = {} THEN "items" ELSE "window" OBVIOUS
<1>10. Completed \in SUBSET Text
    BY DEF Completed
<1>11. disp' = [at |-> at, batch |-> b, seen |-> seen, todo |-> todo, got |-> {}, out |-> out,
                held |-> held, done |-> Completed, try |-> 0]
    BY <1>1, <1>3, <1>5, <1>7, <1>9
<1> QED BY <1>2, <1>4, <1>6, <1>8, <1>9, <1>10, <1>11 DEF DispSet

LEMMA FailingIs ==
    ASSUME TransTypes
    PROVE  /\ Failing \in DispSet
           /\ Failing.at = "failing" /\ Failing.batch = disp.batch /\ Failing.seen = disp.seen
<1>1. disp.batch \in Batch \cup {None} /\ disp.seen \in Seens
    BY DEF TransTypes, DispSet
<1>2. PICK b \in Batch \cup {None} : b = disp.batch
    BY <1>1
<1>3. PICK seen \in Seens : seen = disp.seen
    BY <1>1
<1>4. PICK idle \in DispSet : idle = Idle
    BY IdleIs
<1>5. PICK f : f = [idle EXCEPT !.at = "failing", !.batch = b, !.seen = seen] OBVIOUS
<1>6. f \in DispSet /\ f.at = "failing" /\ f.batch = b /\ f.seen = seen
    BY <1>5 DEF DispSet
<1>7. Failing = f
    BY <1>2, <1>3, <1>4, <1>5 DEF Failing
<1> QED BY <1>2, <1>3, <1>6, <1>7

(* An answer about a message of the window: the row of its text is to be   *)
(* written, unless the row before it met another.                          *)
LEMMA UpsertIs ==
    ASSUME TransTypes, DispOK, InTransaction, NEW m \in disp.todo,
           NEW status \in Outcome, Upsert(m, status, disp.seen[m]), ~LostRace
    PROVE  \E k \in Text, e \in Entry, out \in Outs :
             /\ k = Seen(m)
             /\ e.old = row[k] /\ e.new.status = status /\ e.new.of \in {None, disp.seen[m]}
             /\ DOMAIN out = DOMAIN disp.out \cup {k}
             /\ out[k] = e
             /\ \A j \in DOMAIN disp.out : j # k => out[j] = disp.out[j]
             /\ disp' = [disp EXCEPT !.todo = disp.todo \ {m}, !.try = 0, !.held = k, !.out = out]
<1>1. m \in DOMAIN disp.seen
    BY DEF DispOK, TodoOK
<1>2. PICK k : k = Seen(m) OBVIOUS
<1>3. k \in Text /\ disp.seen[m] \in Versions
    BY <1>1, <1>2, SeenIs
<1>4. disp.out \in Outs /\ disp.batch \in Batch \cup {None} /\ row \in [Text -> Row]
    BY DEF TransTypes, DispSet
<1>5. PICK v : v = disp.seen[m] OBVIOUS
<1>5b. PICK by : by = disp.batch OBVIOUS
<1>5c. PICK new : new = Answered(status, v, by) OBVIOUS
<1>6. new \in Row /\ new.status = status /\ new.of \in {None, v}
    BY <1>3, <1>4, <1>5, <1>5b, <1>5c, AnsweredIs
<1>7. PICK e : e = [old |-> row[k], new |-> new] OBVIOUS
<1>8. e \in Entry /\ e.old = row[k] /\ e.new = new
    BY <1>3, <1>4, <1>6, <1>7 DEF Entry
<1>9. PICK out : out = [j \in DOMAIN disp.out \cup {k} |-> IF j = k THEN e ELSE disp.out[j]]
    OBVIOUS
<1>10. DOMAIN disp.out \subseteq Text /\ \A j \in DOMAIN disp.out : disp.out[j] \in Entry
    BY <1>4, OutsAre
<1>11. /\ DOMAIN out = DOMAIN disp.out \cup {k}
       /\ out[k] = e
       /\ \A j \in DOMAIN disp.out : j # k => out[j] = disp.out[j]
    BY <1>9
<1>12. out \in Outs
    <2>1. PICK D : D = DOMAIN disp.out \cup {k} OBVIOUS
    <2>2. D \in SUBSET Text /\ out \in [D -> Entry]
        BY <1>3, <1>8, <1>9, <1>10, <2>1
    <2> QED BY <2>2 DEF Outs
<1>13. disp' = [disp EXCEPT !.todo = disp.todo \ {m}, !.try = 0, !.held = k, !.out = out]
    BY <1>2, <1>5, <1>5b, <1>5c, <1>7, <1>9 DEF Upsert
<1> QED BY <1>2, <1>3, <1>5, <1>6, <1>8, <1>11, <1>12, <1>13

-----------------------------------------------------------------------------
(* Which steps change what.                                                *)

Others == <<engine, version, rowVars, req, crashes>>

(* The dispatcher asks, or has an answer that it does not write yet.       *)
Asks ==
    /\ InTransaction
    /\ \E at \in {"window", "items"}, got \in SUBSET Message, try \in Nat :
         disp' = [disp EXCEPT !.at = at, !.got = got, !.try = try]
    /\ UNCHANGED Others

Answers ==
    /\ disp.at = "items"
    /\ \E m \in disp.todo, status \in Outcome : Upsert(m, status, disp.seen[m])
    /\ UNCHANGED Others

LEMMA AsksIs ==
    ASSUME disp \in DispSet,
           \/ WindowRetry
           \/ \E got \in SUBSET disp.todo : Window(got)
           \/ \E m \in disp.todo : ItemRetry(m)
    PROVE  Asks
<1>0. /\ disp.got \in SUBSET Message /\ disp.try \in Nat /\ disp.todo \in SUBSET Message
      /\ disp.try + 1 \in Nat
    BY DEF DispSet
<1>1. disp.at \in {"window", "items"}
    BY DEF WindowRetry, Window, ItemRetry, Item
<1>2. CASE WindowRetry \/ \E m \in disp.todo : ItemRetry(m)
    <2>1. disp' = [disp EXCEPT !.try = disp.try + 1] /\ UNCHANGED Others /\ InTransaction
        BY <1>2 DEF WindowRetry, ItemRetry, Others, Item, InTransaction
    <2>2. disp' = [disp EXCEPT !.at = disp.at, !.got = disp.got, !.try = disp.try + 1]
        BY <2>1 DEF DispSet
    <2> QED BY <1>0, <1>1, <2>1, <2>2 DEF Asks
<1>3. ASSUME NEW got \in SUBSET disp.todo, Window(got) PROVE Asks
    <2>1. /\ disp' = [disp EXCEPT !.at = "items", !.got = got, !.try = 0]
          /\ UNCHANGED Others /\ InTransaction
        BY <1>3 DEF Window, Others, InTransaction
    <2>2. got \in SUBSET Message
        BY <1>0
    <2> QED BY <1>0, <2>1, <2>2 DEF Asks
<1> QED BY <1>2, <1>3

LEMMA AnswersIs ==
    ASSUME NEW m \in disp.todo,
           ItemInWindow(m) \/ \E outcome \in Outcome : ItemAsked(m, outcome)
    PROVE  Answers
<1>1. CASE ItemInWindow(m)
    BY <1>1 DEF ItemInWindow, Answers, Others, Outcome, Item
<1>2. ASSUME NEW outcome \in Outcome, ItemAsked(m, outcome) PROVE Answers
    BY <1>2 DEF ItemAsked, Answers, Others, Item
<1> QED BY <1>1, <1>2

(* All steps, in the forms of the lemmas.                                  *)
LEMMA NextIs ==
    ASSUME TransTypes, [Next]_vars
    PROVE  \/ UNCHANGED vars
           \/ \E m \in Message : Edit(m)
           \/ \E b \in Batch, m \in Message : Queue(b, m)
           \/ TakeBatch \/ Asks \/ Answers \/ Commit \/ CommitFails \/ MarkFailed
           \/ \E r \in Request : Handle(r)
           \/ Crash
<1>1. disp \in DispSet
    BY DEF TransTypes
<1>2. CASE Dispatch
    BY <1>1, <1>2, AsksIs, AnswersIs DEF Dispatch
<1> QED BY <1>2 DEF Next

LEMMA HandleKeeps ==
    ASSUME NEW r \in Request, Handle(r)
    PROVE  /\ UNCHANGED <<engine, version, batch, disp, crashes>>
           /\ \E s : Goes(r, s)
           /\ UNCHANGED row \/ RequestFlush(r)
<1>1. CASE RequestFlush(r)
    BY <1>1 DEF RequestFlush
<1>2. CASE ~RequestFlush(r)
    BY <1>2 DEF Handle, Request1, RequestRetry, RequestAsked, RequestSelect, RequestError, rowVars
<1> QED BY <1>1, <1>2

LEMMA DispStep ==
    ASSUME TransTypes, [Next]_vars
    PROVE  \/ UNCHANGED disp
           \/ TakeBatch \/ Asks \/ Answers \/ CommitFails
           \/ disp' = Idle
<1>1. \A r \in Request : Handle(r) => UNCHANGED disp
    BY HandleKeeps
<1>2. UNCHANGED vars \/ (\E m \in Message : Edit(m)) \/ (\E b \in Batch, m \in Message : Queue(b, m))
      => UNCHANGED disp
    BY DEF vars, Edit, Queue
<1>3. Commit \/ MarkFailed \/ Crash => disp' = Idle
    BY DEF Commit, MarkFailed, Crash
<1> QED BY <1>1, <1>2, <1>3, NextIs

LEMMA RowStep ==
    ASSUME TransTypes, [Next]_vars
    PROVE  UNCHANGED row \/ Commit \/ \E r \in Request : RequestFlush(r)
<1>1. \A r \in Request : Handle(r) => UNCHANGED row \/ RequestFlush(r)
    BY HandleKeeps
<1>2. \/ UNCHANGED vars \/ (\E m \in Message : Edit(m)) \/ (\E b \in Batch, m \in Message : Queue(b, m))
      \/ TakeBatch \/ Asks \/ Answers \/ CommitFails \/ MarkFailed \/ Crash
      => UNCHANGED row
    BY DEF vars, Edit, Queue, TakeBatch, Asks, Answers, CommitFails, MarkFailed, Crash, Others, rowVars
<1> QED BY <1>1, <1>2, NextIs

LEMMA VersionStep ==
    ASSUME TransTypes, [Next]_vars
    PROVE  /\ engine' = engine
           /\ \/ UNCHANGED version
              \/ \E m \in Message : Edit(m)
<1>1. \A r \in Request : Handle(r) => UNCHANGED <<engine, version>>
    BY HandleKeeps
<1>2. \/ UNCHANGED vars \/ (\E b \in Batch, m \in Message : Queue(b, m))
      \/ TakeBatch \/ Asks \/ Answers \/ Commit \/ CommitFails \/ MarkFailed \/ Crash
      => UNCHANGED <<engine, version>>
    BY DEF vars, Queue, TakeBatch, Asks, Answers, Commit, CommitFails, MarkFailed, Crash, Others
<1>3. (\E m \in Message : Edit(m)) => UNCHANGED engine
    BY DEF Edit
<1> QED BY <1>1, <1>2, <1>3, NextIs

LEMMA BatchStep ==
    ASSUME TransTypes, [Next]_vars
    PROVE  \/ UNCHANGED batch
           \/ \E b \in Batch, m \in Message : Queue(b, m)
           \/ Commit \/ MarkFailed
<1>1. \A r \in Request : Handle(r) => UNCHANGED batch
    BY HandleKeeps
<1>2. \/ UNCHANGED vars \/ (\E m \in Message : Edit(m))
      \/ TakeBatch \/ Asks \/ Answers \/ CommitFails \/ Crash
      => UNCHANGED batch
    BY DEF vars, Edit, TakeBatch, Asks, Answers, CommitFails, Crash, Others, rowVars
<1> QED BY <1>1, <1>2, NextIs

LEMMA ReqStep ==
    ASSUME TransTypes, [Next]_vars, NEW r \in Request
    PROVE  \/ req'[r] = req[r]
           \/ Handle(r)
           \/ Crash
<1>0. req \in [Request -> ReqSet]
    BY DEF TransTypes
<1>1. ASSUME NEW q \in Request, Handle(q), q # r PROVE req'[r] = req[r]
    BY <1>0, <1>1, HandleKeeps DEF Goes
<1>2. \/ UNCHANGED vars \/ (\E m \in Message : Edit(m)) \/ (\E b \in Batch, m \in Message : Queue(b, m))
      \/ TakeBatch \/ Asks \/ Answers \/ Commit \/ CommitFails \/ MarkFailed
      => UNCHANGED req
    BY DEF vars, Edit, Queue, TakeBatch, Asks, Answers, Commit, CommitFails, MarkFailed, Others
<1> QED BY <1>1, <1>2, NextIs
-----------------------------------------------------------------------------
(* The two steps that write rows.                                          *)

LEMMA RowStatus ==
    ASSUME TransTypes, RowsOK, NEW k \in Text, row[k] # NoRow
    PROVE  row[k].status # "none"
BY DEF RowsOK

LEMMA FlushIs ==
    ASSUME TransInv, NEW r \in Request, RequestFlush(r)
    PROVE  \E k \in Text, w \in Row :
             /\ k = req[r].key
             /\ row' = [row EXCEPT ![k] = w]
             /\ w.status # "none"
             /\ w.of \in {None, req[r].given, row[k].of}
             /\ k \in req[r].done /\ row[k].status = "completed" => w.status = "completed"
<1>1. req[r] \in ReqSet /\ ReqOK(req[r]) /\ req[r].at = "flush" /\ row \in [Text -> Row]
    BY DEF TransInv, TransTypes, RequestFlush
<1>2. PICK k \in Text : k = req[r].key
    BY <1>1 DEF ReqOK
<1>3. PICK old \in Row : old = req[r].old
    BY <1>1 DEF ReqSet
<1>4. PICK new \in Row : new = req[r].new
    BY <1>1 DEF ReqSet
<1>5. PICK now \in Row : now = row[k]
    BY <1>1
<1>6. /\ new.status \in Outcome /\ new.of \in {None, req[r].given}
      /\ k \in req[r].done => new.status = "completed"
      /\ old # NoRow => row[k] # NoRow
    BY <1>1, <1>2, <1>3, <1>4 DEF ReqOK
<1>7. old # NoRow => now.status # "none"
    BY <1>5, <1>6, RowStatus DEF TransInv
<1>8. PICK w : w = Written(now, old, new) OBVIOUS
<1>9. /\ w \in Row /\ w.status # "none" /\ w.of \in {new.of, now.of}
      /\ old # NoRow /\ now.status = "completed" /\ new.status = "completed" => w.status = "completed"
    BY <1>6, <1>7, <1>8, WrittenIs
<1>10. now.status = "completed" => old # NoRow
    BY <1>2, <1>3, <1>5, RowParts DEF RequestFlush, Conflicts
<1>11. row' = [row EXCEPT ![k] = w]
    BY <1>2, <1>3, <1>4, <1>5, <1>8 DEF RequestFlush
<1> QED BY <1>2, <1>5, <1>6, <1>9, <1>10, <1>11

LEMMA CommitIs ==
    ASSUME TransInv, Commit, NEW k \in Text
    PROVE  /\ k \notin DOMAIN disp.out => row'[k] = row[k]
           /\ k \in DOMAIN disp.out =>
                /\ row'[k].status # "none"
                /\ row'[k].of \in {None, k[2], row[k].of}
<1>1. /\ disp \in DispSet /\ DispOK /\ row \in [Text -> Row] /\ InTransaction
      /\ disp.out \in Outs
    BY DEF TransInv, TransTypes, Commit, InTransaction, DispSet
<1>2. \A j \in DOMAIN disp.out : disp.out[j].old \in Row /\ disp.out[j].new \in Row
    BY <1>1, OutsAre
<1>3. row' = [j \in Text |-> IF j \in DOMAIN disp.out
                THEN Written(row[j], disp.out[j].old, disp.out[j].new) ELSE row[j]]
    BY DEF Commit
<1>6. ASSUME k \in DOMAIN disp.out
      PROVE  row'[k].status # "none" /\ row'[k].of \in {None, k[2], row[k].of}
    <2>1. PICK old \in Row : old = disp.out[k].old
        BY <1>2, <1>6
    <2>2. PICK new \in Row : new = disp.out[k].new
        BY <1>2, <1>6
    <2>3. PICK now \in Row : now = row[k]
        BY <1>1
    <2>4. OutOK(k)
        BY <1>1, <1>6 DEF DispOK
    <2>5. /\ new.status \in Outcome /\ new.of \in {None, k[2]}
          /\ old # NoRow => row[k] # NoRow
        BY <2>1, <2>2, <2>4 DEF OutOK
    <2>6. old # NoRow => now.status # "none"
        BY <2>3, <2>5, RowStatus DEF TransInv
    <2>7. row'[k] = Written(now, old, new)
        BY <1>3, <1>6, <2>1, <2>2, <2>3
    <2>8. PICK w : w = Written(now, old, new) OBVIOUS
    <2>9. w.status # "none" /\ w.of \in {new.of, now.of}
        BY <2>5, <2>6, <2>8, WrittenIs
    <2>10. row'[k] = w
        BY <2>7, <2>8
    <2> QED BY <2>3, <2>5, <2>9, <2>10
<1>7. k \notin DOMAIN disp.out => row'[k] = row[k]
    BY <1>3
<1> QED BY <1>6, <1>7

LEMMA CommitTypes ==
    ASSUME TransInv, Commit
    PROVE  row' \in [Text -> Row]
<1>1. /\ disp \in DispSet /\ row \in [Text -> Row]
      /\ disp.out \in Outs
    BY DEF TransInv, TransTypes, DispSet
<1>2. \A j \in DOMAIN disp.out : disp.out[j].old \in Row /\ disp.out[j].new \in Row
    BY <1>1, OutsAre
<1>3. row' = [j \in Text |-> IF j \in DOMAIN disp.out
                THEN Written(row[j], disp.out[j].old, disp.out[j].new) ELSE row[j]]
    BY DEF Commit
<1>4. \A j \in Text : j \in DOMAIN disp.out =>
        Written(row[j], disp.out[j].old, disp.out[j].new) \in Row
    BY <1>1, <1>2, WrittenRow
<1> QED BY <1>1, <1>3, <1>4

(* A row that is there stays there.                                        *)
LEMMA RowsStay ==
    ASSUME TransInv, [Next]_vars
    PROVE  /\ row' \in [Text -> Row]
           /\ \A k \in Text : row'[k] = row[k] \/ row'[k].status # "none"
           /\ \A k \in Text : row[k].status # "none" => row'[k].status # "none"
           /\ \A k \in Text : row[k] # NoRow => row'[k] # NoRow
<1>1. row \in [Text -> Row]
    BY DEF TransInv, TransTypes
<1>2. /\ row' \in [Text -> Row]
      /\ \A k \in Text : row'[k] = row[k] \/ row'[k].status # "none"
    <2>1. CASE UNCHANGED row
        BY <1>1, <2>1
    <2>2. CASE Commit
        BY <2>2, CommitIs, CommitTypes
    <2>3. ASSUME NEW r \in Request, RequestFlush(r)
          PROVE  /\ row' \in [Text -> Row]
                 /\ \A k \in Text : row'[k] = row[k] \/ row'[k].status # "none"
        BY <1>1, <2>3, FlushIs
    <2> QED BY <2>1, <2>2, <2>3, RowStep DEF TransInv
<1> QED BY <1>2, RowParts

(* Versions only grow.                                                     *)
LEMMA VersionsGrow ==
    ASSUME TransTypes, [Next]_vars
    PROVE  /\ version' \in [Message -> Versions]
           /\ \A m \in Message : version'[m] <= MaxEdits[m]
           /\ \A m \in Message : version[m] \in Nat /\ version'[m] \in Nat /\ version[m] <= version'[m]
<1>1. /\ version \in [Message -> Versions]
      /\ \A m \in Message : version[m] <= MaxEdits[m] /\ version[m] \in Nat
    BY VersionsAreNat DEF TransTypes
<1>2. CASE UNCHANGED version
    BY <1>1, <1>2
<1>3. ASSUME NEW m \in Message, Edit(m)
      PROVE  /\ version' \in [Message -> Versions]
             /\ \A n \in Message : version'[n] <= MaxEdits[n]
             /\ \A n \in Message : version'[n] \in Nat /\ version[n] <= version'[n]
    <2>1. version[m] < MaxEdits[m] /\ MaxEdits[m] \in Nat
          /\ version' = [version EXCEPT ![m] = version[m] + 1]
        BY <1>3, TranslationAssumption DEF Edit
    <2>2. PICK v \in Nat : v = version[m]
        BY <1>1
    <2>3. v + 1 \in Nat /\ v + 1 <= MaxEdits[m]
        BY <2>1, <2>2
    <2>4. v + 1 \in Versions
        BY <2>3, TextIs
    <2>5. version' = [version EXCEPT ![m] = v + 1]
        BY <2>1, <2>2
    <2> QED BY <1>1, <2>2, <2>3, <2>4, <2>5
<1> QED BY <1>1, <1>2, <1>3, VersionStep

LEMMA BatchTypes ==
    ASSUME TransInv, [Next]_vars
    PROVE  batch' \in [Batch -> BatchSet]
<1>1. batch \in [Batch -> BatchSet] /\ disp \in DispSet
    BY DEF TransInv, TransTypes
<1>2. ASSUME NEW b \in Batch, NEW m \in Message, Queue(b, m) PROVE batch' \in [Batch -> BatchSet]
    <2>1. batch' = [batch EXCEPT ![b].status = "pending", ![b].anchor = m]
        BY <1>2 DEF Queue
    <2> QED BY <1>1, <2>1 DEF BatchSet
<1>3. ASSUME NEW status \in {"completed", "failed"},
             batch' = [batch EXCEPT ![disp.batch].status = status, ![disp.batch].seen = disp.seen]
      PROVE  batch' \in [Batch -> BatchSet]
    <2>1. PICK seen \in Seens : seen = disp.seen
        BY <1>1 DEF DispSet
    <2>2. PICK b \in Batch \cup {None} : b = disp.batch
        BY <1>1 DEF DispSet
    <2>3. batch' = [batch EXCEPT ![b].status = status, ![b].seen = seen]
        BY <1>3, <2>1, <2>2
    <2>4. CASE b \in Batch
        BY <1>1, <2>3, <2>4 DEF BatchSet
    <2>5. CASE b \notin Batch
        BY <1>1, <2>3, <2>5
    <2> QED BY <2>4, <2>5
<1>4. CASE Commit
    BY <1>3, <1>4 DEF Commit
<1>5. CASE MarkFailed
    BY <1>3, <1>5 DEF MarkFailed
<1> QED BY <1>1, <1>2, <1>4, <1>5, BatchStep DEF TransInv

LEMMA DispTypes ==
    ASSUME TransInv, [Next]_vars
    PROVE  disp' \in DispSet
<1>1. disp \in DispSet
    BY DEF TransInv, TransTypes
<1>2. CASE TakeBatch
    BY <1>2, TakeBatchTypes DEF TransInv, Pending, BatchOK
<1>3. CASE Asks
    BY <1>1, <1>3 DEF Asks, DispSet
<1>4. CASE Answers
    <2>1. PICK m \in disp.todo, status \in Outcome : Upsert(m, status, disp.seen[m])
        BY <1>4 DEF Answers
    <2>2. CASE LostRace
        BY <2>1, <2>2, FailingIs DEF Upsert, TransInv
    <2>3. CASE ~LostRace
        <3>1. InTransaction
            BY <1>4 DEF Answers, InTransaction
        <3>2. PICK k \in Text, out \in Outs :
                disp' = [disp EXCEPT !.todo = disp.todo \ {m}, !.try = 0, !.held = k, !.out = out]
            BY <2>1, <2>3, <3>1, UpsertIs DEF TransInv
        <3>3. disp.todo \ {m} \in SUBSET Message /\ 0 \in Nat
            BY <1>1 DEF DispSet
        <3> QED BY <1>1, <3>2, <3>3 DEF DispSet
    <2> QED BY <2>2, <2>3
<1>5. CASE CommitFails
    BY <1>5, FailingIs DEF CommitFails, TransInv
<1>6. CASE disp' = Idle
    BY <1>6, IdleIs
<1> QED BY <1>1, <1>2, <1>3, <1>4, <1>5, <1>6, DispStep DEF TransInv

-----------------------------------------------------------------------------
(* The requests.                                                           *)

LEMMA FreshIs == Fresh \in ReqSet /\ Fresh.at = "new" /\ Fresh.try = 0
<1>1. {} \in SUBSET Text /\ 0 \in Nat
    OBVIOUS
<1> QED BY <1>1, RowParts DEF Fresh, ReqSet

LEMMA Request1Is ==
    ASSUME TransInv, NEW r \in Request, NEW m \in Message, NEW v \in Versions, Request1(r, m, v)
    PROVE  \E s \in ReqSet :
             /\ req' = [req EXCEPT ![r] = s]
             /\ s.msg = m /\ s.given = v /\ s.done = Completed
             /\ s.at \in {"call", "flush", "cached"}
             /\ s.at # "cached" => CurrentText(m) \notin Completed
             /\ s.key = CurrentText(m) /\ s.old = row[CurrentText(m)]
             /\ s.new.status = "completed" /\ s.new.of = None
<1>1. PICK k \in Text : k = CurrentText(m)
    BY CurrentIsText DEF TransInv
<1>2. row[k] \in Row
    BY DEF TransInv, TransTypes
<1>3. PICK old \in Row : old = row[k]
    BY <1>2
<1>4. old.by \in Batch \cup {None}
    BY DEF Row
<1>5. PICK by \in Batch \cup {None} : by = old.by
    BY <1>4
<1>6. PICK new : new = Answered("completed", None, by) OBVIOUS
<1>7. new \in Row /\ new.status = "completed" /\ new.of = None
    BY <1>6, AnsweredIs DEF Outcome
<1>8. PICK done \in SUBSET Text : done = Completed
    BY DEF Completed
<1>9. PICK at : at = IF k \in Completed THEN "cached"
                     ELSE IF Kind[m] = "chinese" THEN "flush" ELSE "call" OBVIOUS
<1>10. at \in {"call", "flush", "cached"} /\ (at # "cached" => k \notin Completed)
    BY <1>9
<1>11. PICK fresh \in ReqSet : fresh = Fresh
    BY FreshIs
<1>12. PICK s : s = [fresh EXCEPT !.msg = m, !.given = v, !.done = done, !.at = at, !.key = k,
                                  !.old = old, !.new = new] OBVIOUS
<1>13. v \in Nat
    BY VersionsAreNat
<1>14. /\ s \in ReqSet /\ s.msg = m /\ s.given = v /\ s.done = done /\ s.at = at /\ s.key = k
       /\ s.old = old /\ s.new = new
    BY <1>7, <1>10, <1>12, <1>13 DEF ReqSet
<1>15. req' = [req EXCEPT ![r] = s]
    BY <1>1, <1>3, <1>5, <1>6, <1>8, <1>9, <1>11, <1>12 DEF Request1, Goes
<1> QED BY <1>1, <1>3, <1>7, <1>8, <1>10, <1>14, <1>15

LEMMA RequestAskedIs ==
    ASSUME TransInv, NEW r \in Request, NEW outcome \in Outcome, RequestAsked(r, outcome)
    PROVE  \E new \in Row :
             /\ new.status = outcome
             /\ req' = [req EXCEPT ![r] = [req[r] EXCEPT !.at = "select", !.try = 0, !.new = new]]
<1>1. PICK new : new = Answered(outcome, None, None) OBVIOUS
<1>2. new \in Row /\ new.status = outcome
    BY <1>1, AnsweredIs
<1> QED BY <1>1, <1>2 DEF RequestAsked, Goes

LEMMA RequestSelectIs ==
    ASSUME TransInv, NEW r \in Request, RequestSelect(r)
    PROVE  \E s \in ReqSet :
             /\ req' = [req EXCEPT ![r] = s]
             /\ s.at = "flush" /\ s.msg = req[r].msg /\ s.given = req[r].given /\ s.done = req[r].done
             /\ s.msg \in Message /\ s.key = CurrentText(s.msg)
             /\ s.old = row[s.key]
             /\ s.new.status \in Outcome /\ s.new.of \in {None, s.given}
<1>1. req[r] \in ReqSet /\ ReqOK(req[r]) /\ req[r].at = "select"
    BY DEF TransInv, TransTypes, RequestSelect
<1>2. req[r].msg \in Message /\ req[r].given \in Versions /\ req[r].new.status \in Outcome
    BY <1>1 DEF ReqOK
<1>3. PICK k \in Text : k = CurrentText(req[r].msg)
    BY <1>2, CurrentIsText DEF TransInv
<1>4. PICK old \in Row : old = row[k]
    BY DEF TransInv, TransTypes
<1>5. old.by \in Batch \cup {None}
    BY DEF Row
<1>6. PICK by \in Batch \cup {None} : by = old.by
    BY <1>5
<1>7. PICK v \in Versions : v = req[r].given
    BY <1>2
<1>8. PICK status \in Outcome : status = req[r].new.status
    BY <1>2
<1>9. PICK new : new = Answered(status, v, by) OBVIOUS
<1>10. new \in Row /\ new.status = status /\ new.of \in {None, v}
    BY <1>9, AnsweredIs
<1>11. PICK s : s = [req[r] EXCEPT !.at = "flush", !.key = k, !.old = old, !.new = new] OBVIOUS
<1>12. /\ s \in ReqSet /\ s.at = "flush" /\ s.msg = req[r].msg /\ s.given = req[r].given
       /\ s.done = req[r].done /\ s.key = k /\ s.old = old /\ s.new = new
    BY <1>1, <1>10, <1>11 DEF ReqSet
<1>13. req' = [req EXCEPT ![r] = s]
    BY <1>3, <1>4, <1>6, <1>7, <1>8, <1>9, <1>11 DEF RequestSelect, Goes
<1> QED BY <1>2, <1>3, <1>4, <1>7, <1>8, <1>10, <1>12, <1>13

LEMMA CrashReq ==
    ASSUME TransTypes, Crash, NEW r \in Request
    PROVE  \/ req'[r] = req[r]
           \/ /\ req[r].at \in {"call", "select", "flush"}
              /\ req'[r] = [req[r] EXCEPT !.at = "error"]
BY DEF Crash

LEMMA ReqTypes ==
    ASSUME TransInv, [Next]_vars
    PROVE  req' \in [Request -> ReqSet]
<1>1. req \in [Request -> ReqSet]
    BY DEF TransInv, TransTypes
<1>2. ASSUME NEW r \in Request, Handle(r) PROVE req' \in [Request -> ReqSet]
    <2>1. req[r] \in ReqSet
        BY <1>1
    <2>2. ASSUME NEW m \in Message, NEW v \in Versions, Request1(r, m, v)
          PROVE  req' \in [Request -> ReqSet]
        BY <1>1, <2>2, Request1Is
    <2>3. CASE RequestRetry(r)
        <3>1. req' = [req EXCEPT ![r] = [req[r] EXCEPT !.try = req[r].try + 1]]
            BY <2>3 DEF RequestRetry, Goes
        <3>2. req[r].try + 1 \in Nat
            BY <2>1 DEF ReqSet
        <3> QED BY <1>1, <2>1, <3>1, <3>2 DEF ReqSet
    <2>4. ASSUME NEW outcome \in Outcome, RequestAsked(r, outcome)
          PROVE  req' \in [Request -> ReqSet]
        <3>1. PICK new \in Row :
                req' = [req EXCEPT ![r] = [req[r] EXCEPT !.at = "select", !.try = 0, !.new = new]]
            BY <2>4, RequestAskedIs
        <3>2. [req[r] EXCEPT !.at = "select", !.try = 0, !.new = new] \in ReqSet
            BY <2>1 DEF ReqSet
        <3> QED BY <1>1, <3>1, <3>2
    <2>5. CASE RequestSelect(r)
        BY <1>1, <2>5, RequestSelectIs
    <2>6. CASE RequestFlush(r)
        <3>1. [req[r] EXCEPT !.at = "done"] \in ReqSet
            BY <2>1 DEF ReqSet
        <3> QED BY <1>1, <2>6, <3>1 DEF RequestFlush, Goes
    <2>7. CASE RequestError(r)
        <3>1. [req[r] EXCEPT !.at = "error"] \in ReqSet
            BY <2>1 DEF ReqSet
        <3> QED BY <1>1, <2>7, <3>1 DEF RequestError, Goes
    <2> QED BY <1>2, <2>2, <2>3, <2>4, <2>5, <2>6, <2>7 DEF Handle
<1>3. CASE Crash
    <2>1. PICK f : f = [r \in Request |-> IF req[r].at \in {"call", "select", "flush"}
                                 THEN [req[r] EXCEPT !.at = "error"] ELSE req[r]] OBVIOUS
    <2>2. f \in [Request -> ReqSet]
        BY <1>1, <2>1 DEF ReqSet
    <2> QED BY <1>3, <2>1, <2>2 DEF Crash
<1>4. \/ UNCHANGED vars \/ (\E m \in Message : Edit(m)) \/ (\E b \in Batch, m \in Message : Queue(b, m))
      \/ TakeBatch \/ Asks \/ Answers \/ Commit \/ CommitFails \/ MarkFailed
      => UNCHANGED req
    BY DEF vars, Edit, Queue, TakeBatch, Asks, Answers, Commit, CommitFails, MarkFailed, Others
<1> QED BY <1>1, <1>2, <1>3, <1>4, NextIs DEF TransInv

LEMMA TypesKept ==
    ASSUME TransInv, [Next]_vars
    PROVE  TransTypes'
BY VersionStep, VersionsGrow, RowsStay, BatchTypes, DispTypes, ReqTypes DEF TransInv, TransTypes

-----------------------------------------------------------------------------
(* The steps keep each part of the invariant.                              *)

(* Rows are written for texts that the message has had.                    *)
LEMMA KnownText ==
    ASSUME TransInv, Commit \/ \E r \in Request : RequestFlush(r),
           NEW k \in Text, row'[k] # row[k]
    PROVE  k[2] <= version[k[1]]
<1>1. row \in [Text -> Row]
    BY DEF TransInv, TransTypes
<1>2. CASE Commit
    <2>1. k \in DOMAIN disp.out /\ InTransaction
        BY <1>2, CommitIs DEF Commit, InTransaction
    <2>2. k[1] \in DOMAIN disp.seen /\ k = Seen(k[1])
        BY <2>1 DEF TransInv, DispOK, OutOK
    <2>3. PICK m \in DOMAIN disp.seen : m = k[1]
        BY <2>2
    <2>4. Seen(m) = <<m, disp.seen[m]>> /\ disp.seen[m] <= version[m]
        BY <2>1, SeenIs DEF TransInv
    <2> QED BY <2>2, <2>3, <2>4
<1>3. ASSUME NEW r \in Request, RequestFlush(r) PROVE k[2] <= version[k[1]]
    <2>1. k = req[r].key
        BY <1>1, <1>3, FlushIs
    <2>2. ReqOK(req[r]) /\ req[r].at = "flush"
        BY <1>3 DEF TransInv, RequestFlush
    <2> QED BY <2>1, <2>2 DEF ReqOK
<1> QED BY <1>2, <1>3

LEMMA RowsKept ==
    ASSUME TransInv, [Next]_vars
    PROVE  RowsOK'
<1>1. /\ row \in [Text -> Row] /\ row' \in [Text -> Row]
      /\ \A k \in Text : row'[k] = row[k] \/ row'[k].status # "none"
    BY RowsStay DEF TransInv, TransTypes
<1>2. ASSUME NEW k \in Text, row'[k] # NoRow PROVE k[2] <= version'[k[1]]
    <2>1. k[1] \in Message /\ k[2] \in Nat
        BY TextParts, VersionsAreNat
    <2>2. version[k[1]] <= version'[k[1]] /\ version[k[1]] \in Nat /\ version'[k[1]] \in Nat
        BY <2>1, VersionsGrow DEF TransInv
    <2>3. k[2] <= version[k[1]]
        <3>1. CASE row'[k] = row[k]
            BY <1>2, <3>1 DEF TransInv, RowsOK
        <3>2. CASE row'[k] # row[k]
            <4>1. Commit \/ \E r \in Request : RequestFlush(r)
                BY <3>2, RowStep DEF TransInv
            <4> QED BY <3>2, <4>1, KnownText
        <3> QED BY <3>1, <3>2
    <2> QED BY <2>1, <2>2, <2>3
<1>3. ASSUME NEW k \in Text, row'[k].status = "none" PROVE row'[k] = NoRow
    BY <1>1, <1>3 DEF TransInv, RowsOK
<1> QED BY <1>2, <1>3 DEF RowsOK

(* While the dispatcher stands still, nobody writes the rows that it has   *)
(* locked or its batch.                                                    *)
LEMMA LocksHold ==
    ASSUME TransInv, [Next]_vars, UNCHANGED disp, InTransaction
    PROVE  /\ \A k \in Text \cap Flushed : row'[k] = row[k]
           /\ engine = "sqlite" => row' = row
           /\ batch'[disp.batch] = batch[disp.batch]
<1>1. row \in [Text -> Row] /\ batch \in [Batch -> BatchSet] /\ disp.batch \in Pending
    BY DEF TransInv, TransTypes, DispOK, WindowOK
<1>2. ~Commit /\ ~MarkFailed
    BY DEF Commit, MarkFailed, Idle
<1>3. ASSUME NEW r \in Request, RequestFlush(r)
      PROVE  /\ \A k \in Text \cap Flushed : row'[k] = row[k]
             /\ engine # "sqlite"
    <2>1. PICK k \in Text, w \in Row : k = req[r].key /\ row' = [row EXCEPT ![k] = w]
        BY <1>3, FlushIs
    <2>2. k \notin Flushed /\ engine # "sqlite"
        BY <1>3, <2>1 DEF RequestFlush, LockedOut
    <2> QED BY <1>1, <2>1, <2>2
<1>4. ASSUME NEW b \in Batch, NEW m \in Message, Queue(b, m) PROVE batch'[disp.batch] = batch[disp.batch]
    <2>1. b # disp.batch /\ disp.batch \in Batch
        BY <1>1, <1>4 DEF Queue, Pending
    <2> QED BY <1>1, <1>4, <2>1 DEF Queue
<1>5. UNCHANGED row \/ \E r \in Request : RequestFlush(r)
    BY <1>2, RowStep DEF TransInv
<1>6. UNCHANGED batch \/ \E b \in Batch, m \in Message : Queue(b, m)
    BY <1>2, BatchStep DEF TransInv
<1> QED BY <1>3, <1>4, <1>5, <1>6

LEMMA DispFrame ==
    ASSUME TransInv, [Next]_vars, UNCHANGED disp
    PROVE  DispOK'
<1>1. /\ disp \in DispSet /\ DispOK /\ engine' = engine
      /\ \A k \in Text : row[k].status # "none" => row'[k].status # "none"
      /\ \A k \in Text : row[k] # NoRow => row'[k] # NoRow
    BY RowsStay, VersionStep DEF TransInv, TransTypes
<1>2. ASSUME InTransaction
      PROVE  /\ WindowOK' /\ TodoOK'
             /\ \A k \in DOMAIN disp.out : OutOK(k)'
             /\ \A m \in DOMAIN disp.seen : Covered(m)'
    <2>1. /\ \A k \in Text \cap Flushed : row'[k] = row[k]
          /\ engine = "sqlite" => row' = row
          /\ batch'[disp.batch] = batch[disp.batch]
        BY <1>2, LocksHold
    <2>2. WindowOK /\ TodoOK
        BY <1>1, <1>2 DEF DispOK
    <2>3. WindowOK'
        <3>1. disp.batch \in Pending'
            BY <2>1, <2>2 DEF WindowOK, Pending
        <3>2. ASSUME NEW m \in DOMAIN disp.seen PROVE disp.seen[m] <= version'[m]
            <4>1. m \in Message /\ disp.seen[m] \in Nat
                BY <1>1, SeensAre DEF DispSet
            <4>2. disp.seen[m] <= version[m]
                BY <2>2 DEF WindowOK
            <4>3. version[m] <= version'[m] /\ version[m] \in Nat /\ version'[m] \in Nat
                BY <4>1, VersionsGrow DEF TransInv
            <4> QED BY <4>1, <4>2, <4>3
        <3> QED BY <2>1, <2>2, <3>1, <3>2 DEF WindowOK
    <2>4. TodoOK'
        BY <2>2 DEF TodoOK, Touches, Seen
    <2>5. ASSUME NEW k \in DOMAIN disp.out PROVE OutOK(k)'
        <3>1. k \in Text
            BY <1>1, OutsAre DEF DispSet
        <3>2. OutOK(k)
            BY <1>1, <1>2 DEF DispOK
        <3>3. k \in Flushed => row'[k] = row[k]
            BY <2>1, <3>1
        <3>4. row[k] # NoRow => row'[k] # NoRow
            BY <1>1, <3>1
        <3> QED BY <1>1, <2>1, <3>2, <3>3, <3>4 DEF OutOK, Touches, Seen, Flushed
    <2>6. ASSUME NEW m \in DOMAIN disp.seen PROVE Covered(m)'
        <3>1. Seen(m) \in Text
            BY <1>1, <1>2, SeenIs DEF TransInv
        <3>2. Covered(m)
            BY <1>1, <1>2 DEF DispOK
        <3>3. row[Seen(m)].status # "none" => row'[Seen(m)].status # "none"
            BY <1>1, <3>1
        <3>4. Seen(m)' = Seen(m)
            BY DEF Seen
        <3> QED BY <3>2, <3>3, <3>4 DEF Covered
    <2> QED BY <2>3, <2>4, <2>5, <2>6
<1>3. Raced(disp.seen) => Raced(disp.seen)'
    <2>1. PICK seen : seen = disp.seen OBVIOUS
    <2>2. Raced(seen) => Raced(seen)'
        BY <1>1 DEF Raced
    <2> QED BY <2>1, <2>2 DEF Raced
<1> QED BY <1>1, <1>2, <1>3 DEF DispOK, InTransaction, DispSet

(* A row that is met by an insert was written by someone else meanwhile.   *)
LEMMA RaceIs ==
    ASSUME TransInv, InTransaction, LostRace
    PROVE  Raced(disp.seen) /\ disp.batch \in Batch
<1>1. disp \in DispSet /\ DispOK
    BY DEF TransInv, TransTypes
<1>2. disp.held \in DOMAIN disp.out /\ WindowOK
    BY <1>1 DEF DispOK, LostRace
<1>3. PICK k \in DOMAIN disp.out : k = disp.held
    BY <1>2
<1>4. OutOK(k) /\ k \in Text
    BY <1>1, OutsAre DEF DispOK, DispSet
<1>5. disp.out[k].old = NoRow /\ row[k] # NoRow
    BY <1>3 DEF LostRace, Conflicts
<1>6. engine = "postgres"
    BY <1>4, <1>5 DEF OutOK, TransInv, TransTypes
<1>7. k[1] \in DOMAIN disp.seen /\ k = <<k[1], disp.seen[k[1]]>>
    BY <1>4 DEF OutOK, Seen
<1> QED BY <1>2, <1>4, <1>5, <1>6, <1>7 DEF Raced, WindowOK, Pending

LEMMA DispFails ==
    ASSUME TransInv, InTransaction, LostRace, disp' = Failing, UNCHANGED Others
    PROVE  DispOK'
<1>1. disp'.at = "failing" /\ disp'.batch = disp.batch /\ disp'.seen = disp.seen
    BY FailingIs DEF TransInv
<1>2. Raced(disp.seen) /\ disp.batch \in Batch
    BY RaceIs
<1>3. PICK seen : seen = disp.seen OBVIOUS
<1>4. Raced(seen)'
    BY <1>2, <1>3 DEF Raced, Others, rowVars
<1>5. Raced(disp.seen)'
    BY <1>1, <1>3, <1>4 DEF Raced
<1> QED BY <1>1, <1>2, <1>5 DEF DispOK, InTransaction

LEMMA DispAsks ==
    ASSUME TransInv, Asks
    PROVE  DispOK'
<1>1. disp \in DispSet /\ DispOK /\ InTransaction
    BY DEF TransInv, TransTypes, Asks
<1>2. PICK at \in {"window", "items"}, got \in SUBSET Message, try \in Nat :
        disp' = [disp EXCEPT !.at = at, !.got = got, !.try = try]
    BY DEF Asks
<1>3. /\ disp'.at = at /\ disp'.batch = disp.batch /\ disp'.seen = disp.seen
      /\ disp'.todo = disp.todo /\ disp'.out = disp.out /\ disp'.held = disp.held
      /\ disp'.done = disp.done
    BY <1>1, <1>2 DEF DispSet
<1>4. engine' = engine /\ version' = version /\ row' = row /\ batch' = batch
    BY DEF Asks, Others, rowVars
<1>5. WindowOK' /\ TodoOK'
    BY <1>1, <1>3, <1>4 DEF DispOK, WindowOK, TodoOK, Touches, Seen, Pending
<1>6. ASSUME NEW k \in DOMAIN disp.out PROVE OutOK(k)'
    <2>1. OutOK(k)
        BY <1>1 DEF DispOK
    <2> QED BY <1>3, <1>4, <2>1 DEF OutOK, Touches, Seen, Flushed
<1>7. ASSUME NEW m \in DOMAIN disp.seen PROVE Covered(m)'
    <2>1. Covered(m)
        BY <1>1 DEF DispOK
    <2> QED BY <1>3, <1>4, <2>1 DEF Covered, Seen
<1>8. disp'.held \in DOMAIN disp'.out \cup {None}
    BY <1>1, <1>3 DEF DispOK
<1>9. disp'.at # "failing"
    BY <1>3
<1> QED BY <1>3, <1>5, <1>6, <1>7, <1>8, <1>9 DEF DispOK

LEMMA DispAnswers ==
    ASSUME TransInv, Answers
    PROVE  DispOK'
<1>1. disp \in DispSet /\ DispOK /\ InTransaction /\ row \in [Text -> Row]
    BY DEF TransInv, TransTypes, Answers, InTransaction
<1>2. PICK m \in disp.todo, status \in Outcome : Upsert(m, status, disp.seen[m])
    BY DEF Answers
<1>3. CASE LostRace
    BY <1>1, <1>2, <1>3, DispFails DEF Upsert, Answers
<1>4. CASE ~LostRace
    <2>1. PICK k \in Text, e \in Entry, out \in Outs :
            /\ k = Seen(m)
            /\ e.old = row[k] /\ e.new.status = status /\ e.new.of \in {None, disp.seen[m]}
            /\ DOMAIN out = DOMAIN disp.out \cup {k}
            /\ out[k] = e
            /\ \A j \in DOMAIN disp.out : j # k => out[j] = disp.out[j]
            /\ disp' = [disp EXCEPT !.todo = disp.todo \ {m}, !.try = 0, !.held = k, !.out = out]
        BY <1>1, <1>2, <1>4, UpsertIs DEF TransInv
    <2>2. /\ disp'.at = disp.at /\ disp'.batch = disp.batch /\ disp'.seen = disp.seen
          /\ disp'.todo = disp.todo \ {m} /\ disp'.out = out /\ disp'.held = k
          /\ disp'.done = disp.done
        BY <1>1, <2>1 DEF DispSet
    <2>3. engine' = engine /\ version' = version /\ row' = row /\ batch' = batch
        BY DEF Answers, Others, rowVars
    <2>4. WindowOK' /\ TodoOK'
        BY <1>1, <2>2, <2>3 DEF DispOK, WindowOK, TodoOK, Touches, Seen, Pending
    <2>5. m \in DOMAIN disp.seen /\ Touches(k) /\ k = <<m, disp.seen[m]>>
        BY <1>1, <2>1 DEF DispOK, TodoOK, Seen
    <2>6. ASSUME NEW j \in DOMAIN out PROVE OutOK(j)'
        <3>1. CASE j = k
            BY <2>1, <2>2, <2>3, <2>5, <3>1 DEF OutOK, Touches, Seen, Flushed
        <3>2. CASE j # k
            <4>1. j \in DOMAIN disp.out /\ out[j] = disp.out[j] /\ OutOK(j) /\ j \in Text
                BY <1>1, <2>1, <3>2, OutsAre DEF DispOK, DispSet
            <4>2. disp.out[j].old = NoRow => row[j] = NoRow
                BY <1>4, <4>1, TranslationAssumption DEF OutOK, Flushed, LostRace, Conflicts
            <4> QED BY <2>2, <2>3, <4>1, <4>2 DEF OutOK, Touches, Seen, Flushed
        <3> QED BY <3>1, <3>2
    <2>7. ASSUME NEW n \in DOMAIN disp.seen PROVE Covered(n)'
        <3>1. Covered(n)
            BY <1>1 DEF DispOK
        <3> QED BY <2>1, <2>2, <2>3, <3>1 DEF Covered, Seen
    <2>8. disp'.held \in DOMAIN disp'.out \cup {None} /\ disp'.at # "failing"
        BY <2>1, <2>2 DEF Answers
    <2> QED BY <2>2, <2>4, <2>6, <2>7, <2>8 DEF DispOK
<1> QED BY <1>3, <1>4

LEMMA DispTakes ==
    ASSUME TransInv, TakeBatch
    PROVE  DispOK'
<1>1. \A b \in Pending : batch[b].anchor \in Message
    BY DEF TransInv, BatchOK, Pending
<1>2. PICK b \in Pending, chinese \in SUBSET Message, todo \in SUBSET Message :
        LET anchor == batch[b].anchor IN
        /\ anchor \in Message
        /\ chinese \cap todo = {} /\ chinese \cup todo = Untranslated(anchor)
        /\ disp' = [at |-> IF todo = {} THEN "items" ELSE "window",
                    batch |-> b,
                    seen |-> [m \in WindowOf(anchor) |-> version[m]],
                    todo |-> todo,
                    got |-> {},
                    out |-> [k \in {CurrentText(m) : m \in chinese} |->
                               [old |-> row[k], new |-> Answered("completed", None, b)]],
                    held |-> IF anchor \in chinese THEN CurrentText(anchor) ELSE None,
                    done |-> Completed,
                    try |-> 0]
    BY <1>1, TakeBatchIs DEF TransInv
<1>3. PICK anchor \in Message : anchor = batch[b].anchor
    BY <1>2
<1>4. /\ disp'.at \in {"window", "items"} /\ disp'.batch = b
      /\ disp'.seen = [m \in WindowOf(anchor) |-> version[m]]
      /\ disp'.todo = todo /\ disp'.done = Completed
      /\ disp'.out = [k \in {CurrentText(m) : m \in chinese} |->
                        [old |-> row[k], new |-> Answered("completed", None, b)]]
      /\ disp'.held = IF anchor \in chinese THEN CurrentText(anchor) ELSE None
    BY <1>2, <1>3
<1>5. engine' = engine /\ version' = version /\ row' = row /\ batch' = batch
    BY DEF TakeBatch, rowVars
<1>6. /\ WindowOf(anchor) \subseteq Message
      /\ chinese \cup todo = Untranslated(anchor)
      /\ Untranslated(anchor) \subseteq WindowOf(anchor)
    BY <1>2, <1>3 DEF Untranslated, WindowOf
<1>7. DOMAIN disp'.seen = WindowOf(anchor)
      /\ \A m \in WindowOf(anchor) : disp'.seen[m] = version[m] /\ Seen(m)' = CurrentText(m)
    BY <1>4 DEF Seen, CurrentText
<1>8. WindowOK'
    <2>1. b \in Pending'
        BY <1>5 DEF Pending
    <2>2. \A m \in WindowOf(anchor) : version[m] <= version'[m]
        BY <1>5, <1>6, CurrentIsText DEF TransInv
    <2> QED BY <1>3, <1>4, <1>5, <1>7, <2>1, <2>2 DEF WindowOK
<1>9. \A m \in Untranslated(anchor) : Kind[m] = "padded" \/ CurrentText(m) \notin Completed
    BY DEF Untranslated, Finds
<1>10. ASSUME NEW m \in Untranslated(anchor), NEW k \in Text, k = CurrentText(m)
       PROVE  Kind[k[1]] = "padded" \/ k \notin disp'.done
    <2>1. k[1] = m
        BY <1>10 DEF CurrentText
    <2> QED BY <1>4, <1>9, <1>10, <2>1
<1>11. TodoOK'
    <2>1. ASSUME NEW m \in todo
          PROVE  m \in DOMAIN disp'.seen /\ Touches(Seen(m))'
        <3>1. PICK k \in Text : k = CurrentText(m)
            BY <1>6, CurrentIsText DEF TransInv
        <3>2. m \in Untranslated(anchor) /\ m \in WindowOf(anchor)
            BY <1>6
        <3>3. Seen(m)' = k
            BY <1>7, <3>1, <3>2
        <3>4. Touches(k)'
            BY <1>10, <3>1, <3>2 DEF Touches
        <3> QED BY <1>7, <3>2, <3>3, <3>4 DEF Touches
    <2> QED BY <1>4, <2>1 DEF TodoOK
<1>12. ASSUME NEW m \in chinese PROVE OutOK(CurrentText(m))'
    <2>1. m \in DOMAIN disp'.seen /\ Seen(m)' = CurrentText(m)
        BY <1>6, <1>7
    <2>2. PICK k \in Text : k = CurrentText(m)
        BY CurrentIsText DEF TransInv
    <2>3. k[1] = m /\ k[2] = disp'.seen[m]
        BY <1>6, <1>7, <2>2 DEF CurrentText
    <2>4. disp'.out[k] = [old |-> row[k], new |-> Answered("completed", None, b)]
        BY <1>4, <2>2
    <2>5. PICK new : new = Answered("completed", None, b) OBVIOUS
    <2>6. new.status \in Outcome /\ new.of = None
        BY <2>5, AnsweredIs DEF Outcome, Pending
    <2>7. disp'.out[k].old = row[k] /\ disp'.out[k].new = new
        BY <2>4, <2>5
    <2>8. Touches(k)'
        <3>1. m \in Untranslated(anchor)
            BY <1>6
        <3> QED BY <1>10, <2>2, <3>1 DEF Touches
    <2>9. k = Seen(k[1])'
        BY <2>1, <2>2, <2>3 DEF Seen
    <2>10. OutOK(k)'
        BY <1>5, <2>1, <2>3, <2>6, <2>7, <2>8, <2>9 DEF OutOK
    <2> QED BY <1>5, <2>2, <2>10 DEF CurrentText
<1>13. ASSUME NEW k \in DOMAIN disp'.out PROVE OutOK(k)'
    <2>1. PICK m \in chinese : k = CurrentText(m)
        BY <1>4
    <2>2. CurrentText(m)' = CurrentText(m)
        BY <1>5 DEF CurrentText
    <2> QED BY <1>12, <2>1, <2>2
<1>14. disp'.held \in DOMAIN disp'.out \cup {None}
    BY <1>4
<1>15. ASSUME NEW m \in WindowOf(anchor) PROVE Covered(m)'
    <2>1. CASE Kind[m] = "empty"
        BY <2>1 DEF Covered
    <2>2. CASE Kind[m] # "empty" /\ m \in Untranslated(anchor)
        <3>1. m \in todo \/ Seen(m)' \in DOMAIN disp'.out
            BY <1>4, <1>6, <1>7, <2>2
        <3> QED BY <1>4, <3>1 DEF Covered
    <2>3. CASE Kind[m] # "empty" /\ m \notin Untranslated(anchor)
        <3>1. CurrentText(m) \in Completed
            BY <2>3 DEF Untranslated, Finds
        <3>2. row[CurrentText(m)].status # "none"
            BY <3>1 DEF Completed
        <3> QED BY <1>5, <1>7, <3>2 DEF Covered
    <2> QED BY <2>1, <2>2, <2>3
<1> QED BY <1>4, <1>7, <1>8, <1>11, <1>13, <1>14, <1>15 DEF DispOK

LEMMA DispKept ==
    ASSUME TransInv, [Next]_vars
    PROVE  DispOK'
<1>1. CASE CommitFails
    BY <1>1, DispFails DEF CommitFails, InTransaction, Others
<1>2. CASE disp' = Idle
    <2>1. disp'.at = "idle"
        BY <1>2 DEF Idle
    <2> QED BY <2>1 DEF DispOK, InTransaction
<1> QED BY <1>1, <1>2, DispStep, DispFrame, DispTakes, DispAsks, DispAnswers DEF TransInv

LEMMA ReqFrame ==
    ASSUME TransInv, [Next]_vars, NEW s \in ReqSet, ReqOK(s)
    PROVE  ReqOK(s)'
<1>1. \A m \in Message : version[m] \in Nat /\ version'[m] \in Nat /\ version[m] <= version'[m]
    BY VersionsGrow DEF TransInv
<1>2. \A k \in s.done : k[2] \in Nat
    <2>1. s.done \subseteq Text
        BY DEF ReqSet
    <2> QED BY <2>1, TextParts, VersionsAreNat
<1>3. ASSUME s.at \in {"call", "select"}, NEW k \in s.done, k[1] = s.msg
      PROVE  k[2] < version'[s.msg]
    <2>1. s.msg \in Message /\ k[2] < version[s.msg]
        BY <1>3 DEF ReqOK
    <2> QED BY <1>1, <1>2, <2>1
<1>4. ASSUME s.at = "flush" PROVE s.key[2] <= version'[s.msg] /\ (s.old # NoRow => row'[s.key] # NoRow)
    <2>1. /\ s.key \in Text /\ s.key[1] = s.msg /\ s.key[2] <= version[s.msg]
          /\ s.old # NoRow => row[s.key] # NoRow
        BY <1>4 DEF ReqOK
    <2>2. s.msg \in Message /\ s.key[2] \in Nat
        BY <2>1, TextParts, VersionsAreNat
    <2> QED BY <1>1, <2>1, <2>2, RowsStay
<1> QED BY <1>3, <1>4 DEF ReqOK

LEMMA ReqHandled ==
    ASSUME TransInv, [Next]_vars, NEW r \in Request, Handle(r)
    PROVE  ReqOK(req[r])'
<1>1. req \in [Request -> ReqSet] /\ req[r] \in ReqSet /\ ReqOK(req[r]) /\ version' = version
    BY HandleKeeps DEF TransInv, TransTypes
<1>2. ASSUME NEW m \in Message, NEW v \in Versions, Request1(r, m, v)
      PROVE  ReqOK(req[r])'
    <2>1. PICK s \in ReqSet :
            /\ req' = [req EXCEPT ![r] = s]
            /\ s.msg = m /\ s.given = v /\ s.done = Completed
            /\ s.at \in {"call", "flush", "cached"}
            /\ s.at # "cached" => CurrentText(m) \notin Completed
            /\ s.key = CurrentText(m) /\ s.old = row[CurrentText(m)]
            /\ s.new.status = "completed" /\ s.new.of = None
        BY <1>2, Request1Is
    <2>2. version[m] \in Nat /\ CurrentText(m) \in Text
        BY CurrentIsText DEF TransInv
    <2>3. ASSUME s.at = "call", NEW k \in s.done, k[1] = m PROVE k[2] < version[m]
        <3>1. k \in Text /\ row[k].status = "completed" /\ k # CurrentText(m)
            BY <2>1, <2>3 DEF Completed
        <3>2. k = <<k[1], k[2]>> /\ k[2] \in Nat
            BY <3>1, TextParts, VersionsAreNat
        <3>3. row[k] # NoRow
            BY <3>1, RowParts
        <3>4. k[2] <= version[m]
            BY <2>3, <3>1, <3>3 DEF TransInv, RowsOK
        <3>5. k[2] # version[m]
            BY <2>3, <3>1, <3>2 DEF CurrentText
        <3> QED BY <2>2, <3>2, <3>4, <3>5
    <2>4. s.key[1] = m /\ s.key[2] <= version[m]
        BY <2>1, <2>2 DEF CurrentText
    <2>5. row' = row
        BY <1>2 DEF Request1, rowVars
    <2>6. ReqOK(s)'
        BY <1>1, <2>1, <2>2, <2>3, <2>4, <2>5 DEF ReqOK, Outcome
    <2>7. req'[r] = s
        BY <1>1, <2>1
    <2> QED BY <2>6, <2>7 DEF ReqOK
<1>3. CASE RequestRetry(r)
    <2>1. PICK s : s = [req[r] EXCEPT !.try = req[r].try + 1] OBVIOUS
    <2>2. s \in ReqSet
        BY <1>1, <2>1 DEF ReqSet
    <2>3. /\ s.at = "call" /\ s.msg = req[r].msg /\ s.given = req[r].given /\ s.done = req[r].done
        BY <1>1, <1>3, <2>1 DEF ReqSet, RequestRetry
    <2>4. ReqOK(s)
        BY <1>1, <1>3, <2>3 DEF ReqOK, RequestRetry
    <2>5. req'[r] = s
        BY <1>1, <1>3, <2>1 DEF RequestRetry, Goes
    <2>6. ReqOK(s)'
        BY <2>2, <2>4, ReqFrame
    <2> QED BY <2>5, <2>6 DEF ReqOK
<1>4. ASSUME NEW outcome \in Outcome, RequestAsked(r, outcome) PROVE ReqOK(req[r])'
    <2>1. PICK new \in Row :
            /\ new.status = outcome
            /\ req' = [req EXCEPT ![r] = [req[r] EXCEPT !.at = "select", !.try = 0, !.new = new]]
        BY <1>4, RequestAskedIs
    <2>2. PICK s : s = [req[r] EXCEPT !.at = "select", !.try = 0, !.new = new] OBVIOUS
    <2>3. s \in ReqSet
        BY <1>1, <2>2 DEF ReqSet
    <2>4. /\ s.at = "select" /\ s.msg = req[r].msg /\ s.given = req[r].given /\ s.done = req[r].done
          /\ s.new = new
        BY <1>1, <2>2 DEF ReqSet
    <2>5. ReqOK(s)
        BY <1>1, <1>4, <2>1, <2>4 DEF ReqOK, RequestAsked
    <2>6. req'[r] = s
        BY <1>1, <2>1, <2>2
    <2>7. ReqOK(s)'
        BY <2>3, <2>5, ReqFrame
    <2> QED BY <2>6, <2>7 DEF ReqOK
<1>5. CASE RequestSelect(r)
    <2>1. PICK s \in ReqSet :
             /\ req' = [req EXCEPT ![r] = s]
             /\ s.at = "flush" /\ s.msg = req[r].msg /\ s.given = req[r].given /\ s.done = req[r].done
             /\ s.msg \in Message /\ s.key = CurrentText(s.msg)
             /\ s.old = row[s.key]
             /\ s.new.status \in Outcome /\ s.new.of \in {None, s.given}
        BY <1>5, RequestSelectIs
    <2>2. PICK m \in Message : m = s.msg
        BY <2>1
    <2>3. PICK k \in Text : k = s.key /\ k[1] = m /\ k[2] = version[m]
        BY <2>1, <2>2, CurrentIsText DEF TransInv, CurrentText
    <2>4. version[m] \in Nat
        BY CurrentIsText DEF TransInv
    <2>5. \A j \in s.done : j[1] = m => j[2] < version[m]
        BY <1>1, <1>5, <2>1, <2>2 DEF ReqOK, RequestSelect
    <2>6. k \notin s.done
        BY <2>3, <2>4, <2>5
    <2>7. ReqOK(s)
        BY <2>1, <2>2, <2>3, <2>4, <2>6 DEF ReqOK
    <2>8. req'[r] = s
        BY <1>1, <2>1
    <2>9. ReqOK(s)'
        BY <2>7, ReqFrame
    <2> QED BY <2>8, <2>9 DEF ReqOK
<1>6. CASE RequestFlush(r)
    <2>1. req'[r].at = "done"
        BY <1>1, <1>6 DEF RequestFlush, Goes, ReqSet
    <2> QED BY <2>1 DEF ReqOK
<1>7. CASE RequestError(r)
    <2>1. req'[r].at = "error"
        BY <1>1, <1>7 DEF RequestError, Goes, ReqSet
    <2> QED BY <2>1 DEF ReqOK
<1> QED BY <1>2, <1>3, <1>4, <1>5, <1>6, <1>7 DEF Handle

LEMMA ReqsKept ==
    ASSUME TransInv, [Next]_vars
    PROVE  \A r \in Request : ReqOK(req[r])'
<1>1. ASSUME NEW r \in Request PROVE ReqOK(req[r])'
    <2>1. req[r] \in ReqSet /\ ReqOK(req[r])
        BY DEF TransInv, TransTypes
    <2>2. CASE req'[r] = req[r]
        <3>1. PICK s \in ReqSet : s = req[r]
            BY <2>1
        <3>2. ReqOK(s)'
            BY <2>1, <3>1, ReqFrame
        <3> QED BY <2>2, <3>1, <3>2 DEF ReqOK
    <2>3. CASE Crash
        <3>1. CASE req'[r] = [req[r] EXCEPT !.at = "error"]
            <4>1. req'[r].at = "error"
                BY <2>1, <3>1 DEF ReqSet
            <4> QED BY <4>1 DEF ReqOK
        <3> QED BY <2>2, <2>3, <3>1, CrashReq DEF TransInv
    <2> QED BY <2>2, <2>3, ReqHandled, ReqStep DEF TransInv
<1> QED BY <1>1

LEMMA RacedStays ==
    ASSUME TransInv, [Next]_vars, NEW seen, Raced(seen)
    PROVE  Raced(seen)'
BY RowsStay, VersionStep DEF TransInv, Raced

LEMMA MarksIs ==
    ASSUME TransInv, InTransaction \/ disp.at = "failing", NEW status \in {"completed", "failed"},
           batch' = [batch EXCEPT ![disp.batch].status = status, ![disp.batch].seen = disp.seen]
    PROVE  /\ disp.batch \in Batch
           /\ batch'[disp.batch].status = status
           /\ batch'[disp.batch].anchor = batch[disp.batch].anchor
           /\ batch'[disp.batch].seen = disp.seen
           /\ \A b \in Batch : b # disp.batch => batch'[b] = batch[b]
<1>1. batch \in [Batch -> BatchSet] /\ disp.batch \in Batch
    BY DEF TransInv, TransTypes, DispOK, WindowOK, Pending
<1>2. PICK c \in Batch : c = disp.batch
    BY <1>1
<1>3. PICK seen : seen = disp.seen OBVIOUS
<1>4. batch[c] \in BatchSet
    BY <1>1
<1>5. PICK s : s = [batch[c] EXCEPT !.status = status, !.seen = seen] OBVIOUS
<1>6. s.status = status /\ s.anchor = batch[c].anchor /\ s.seen = seen
    BY <1>4, <1>5 DEF BatchSet
<1>7. batch' = [batch EXCEPT ![c] = s]
    BY <1>1, <1>2, <1>3, <1>5
<1> QED BY <1>1, <1>2, <1>3, <1>6, <1>7

LEMMA BatchesKept ==
    ASSUME TransInv, [Next]_vars
    PROVE  \A b \in Batch : BatchOK(b)'
<1>1. SUFFICES ASSUME NEW b \in Batch PROVE BatchOK(b)'
    OBVIOUS
<1>2. BatchOK(b) /\ batch \in [Batch -> BatchSet]
    BY DEF TransInv, TransTypes
<1>3. CASE batch'[b] = batch[b]
    <2>1. PICK seen : seen = batch[b].seen OBVIOUS
    <2>2. Raced(seen) => Raced(seen)'
        BY RacedStays
    <2>3. Raced(batch[b].seen) => Raced(batch[b].seen)'
        BY <1>3, <2>1, <2>2 DEF Raced
    <2> QED BY <1>2, <1>3, <2>3 DEF BatchOK
<1>4. ASSUME NEW c \in Batch, NEW m \in Message, Queue(c, m) PROVE BatchOK(b)'
    <2>1. CASE b = c
        <3>1. batch'[b].status = "pending" /\ batch'[b].anchor = m
            BY <1>2, <1>4, <2>1 DEF Queue, BatchSet
        <3> QED BY <3>1 DEF BatchOK
    <2>2. CASE b # c
        <3>1. batch'[b] = batch[b]
            BY <1>2, <1>4, <2>2 DEF Queue
        <3> QED BY <1>3, <3>1
    <2> QED BY <2>1, <2>2
<1>5. CASE Commit
    <2>1. /\ disp.batch \in Batch
          /\ batch'[disp.batch].status = "completed"
          /\ batch'[disp.batch].anchor = batch[disp.batch].anchor
          /\ batch'[disp.batch].seen = disp.seen
          /\ \A c \in Batch : c # disp.batch => batch'[c] = batch[c]
          /\ InTransaction
        BY <1>5, MarksIs DEF Commit, InTransaction
    <2>2. CASE b # disp.batch
        BY <1>3, <2>1, <2>2
    <2>3. CASE b = disp.batch
        <3>1. WindowOK
            BY <2>1 DEF TransInv, DispOK
        <3>2. \A m \in DOMAIN disp.seen : <<m, disp.seen[m]>> \in Text
            BY <2>1, SeenIs DEF TransInv
        <3> QED BY <2>1, <2>3, <3>1, <3>2 DEF BatchOK, WindowOK
    <2> QED BY <2>2, <2>3
<1>6. CASE MarkFailed
    <2>1. /\ disp.batch \in Batch
          /\ batch'[disp.batch].status = "failed"
          /\ batch'[disp.batch].seen = disp.seen
          /\ \A c \in Batch : c # disp.batch => batch'[c] = batch[c]
          /\ disp.at = "failing"
        BY <1>6, MarksIs DEF MarkFailed
    <2>2. CASE b # disp.batch
        BY <1>3, <2>1, <2>2
    <2>3. CASE b = disp.batch
        <3>1. PICK seen : seen = disp.seen OBVIOUS
        <3>2. Raced(seen)
            BY <2>1, <3>1 DEF TransInv, DispOK, Raced
        <3>3. Raced(seen)'
            BY <3>2, RacedStays
        <3>4. Raced(batch[b].seen)'
            BY <2>1, <2>3, <3>1, <3>3 DEF Raced
        <3> QED BY <2>1, <2>3, <3>4 DEF BatchOK
    <2> QED BY <2>2, <2>3
<1> QED BY <1>3, <1>4, <1>5, <1>6, BatchStep DEF TransInv

(* A batch is completed only when each text of its window has a row.       *)
LEMMA CoversKept ==
    ASSUME TransInv, [Next]_vars
    PROVE  BatchCovers'
<1>1. SUFFICES ASSUME NEW b \in Batch, batch'[b].status = "completed",
                      NEW m \in WindowOf(batch'[b].anchor), Kind[m] # "empty"
               PROVE  row'[<<m, batch'[b].seen[m]>>].status # "none"
    BY DEF BatchCovers, WindowOf
<1>2. BatchOK(b) /\ batch \in [Batch -> BatchSet] /\ BatchCovers
    BY DEF TransInv, TransTypes
<1>3. CASE batch'[b] = batch[b]
    <2>1. row[<<m, batch[b].seen[m]>>].status # "none" /\ <<m, batch[b].seen[m]>> \in Text
        BY <1>1, <1>2, <1>3 DEF BatchCovers, BatchOK
    <2> QED BY <1>3, <2>1, RowsStay
<1>4. ASSUME NEW c \in Batch, NEW n \in Message, Queue(c, n) PROVE batch'[b] = batch[b]
    <2>1. CASE b = c
        <3>1. batch'[b].status = "pending"
            BY <1>2, <1>4, <2>1 DEF Queue, BatchSet
        <3> QED BY <1>1, <3>1
    <2>2. CASE b # c
        BY <1>2, <1>4, <2>2 DEF Queue
    <2> QED BY <2>1, <2>2
<1>5. CASE Commit
    <2>1. /\ batch'[disp.batch].anchor = batch[disp.batch].anchor
          /\ batch'[disp.batch].seen = disp.seen
          /\ \A c \in Batch : c # disp.batch => batch'[c] = batch[c]
          /\ InTransaction /\ disp.todo = {}
        BY <1>5, MarksIs DEF Commit, InTransaction
    <2>2. CASE b # disp.batch
        BY <1>3, <2>1, <2>2
    <2>3. CASE b = disp.batch
        <3>1. m \in DOMAIN disp.seen /\ Covered(m)
            BY <1>1, <2>1, <2>3 DEF TransInv, DispOK, WindowOK
        <3>2. PICK k \in Text : k = Seen(m) /\ k = <<m, disp.seen[m]>>
            BY <2>1, <3>1, SeenIs DEF TransInv
        <3>3. k \in DOMAIN disp.out \/ row[k].status # "none"
            BY <1>1, <2>1, <3>1, <3>2 DEF Covered
        <3>4. row'[k].status # "none"
            BY <1>5, <3>3, CommitIs, RowsStay
        <3> QED BY <2>1, <2>3, <3>2, <3>4
    <2> QED BY <2>2, <2>3
<1>6. CASE MarkFailed
    <2>1. /\ batch'[disp.batch].status = "failed"
          /\ \A c \in Batch : c # disp.batch => batch'[c] = batch[c]
        BY <1>6, MarksIs DEF MarkFailed
    <2> QED BY <1>1, <1>3, <2>1
<1> QED BY <1>3, <1>4, <1>5, <1>6, BatchStep DEF TransInv

(* A request that is done stays done.                                      *)
LEMMA DoneStays ==
    ASSUME TransInv, [Next]_vars, NEW r \in Request, req[r].at = "done"
    PROVE  req'[r] = req[r]
<1>1. ~Handle(r)
    BY DEF Handle, Request1, RequestRetry, RequestAsked, RequestSelect, RequestFlush, RequestError
<1>2. CASE Crash
    BY <1>2, CrashReq DEF TransInv
<1> QED BY <1>1, <1>2, ReqStep DEF TransInv

LEMMA FlushDone ==
    ASSUME TransInv, NEW r \in Request, RequestFlush(r)
    PROVE  /\ req'[r].at = "done" /\ req'[r].msg = req[r].msg /\ req'[r].given = req[r].given
           /\ req[r].key[1] = req[r].msg
<1>1. req \in [Request -> ReqSet] /\ req[r] \in ReqSet /\ ReqOK(req[r])
    BY DEF TransInv, TransTypes
<1>2. PICK s : s = [req[r] EXCEPT !.at = "done"] OBVIOUS
<1>3. s.at = "done" /\ s.msg = req[r].msg /\ s.given = req[r].given
    BY <1>1, <1>2 DEF ReqSet
<1>4. req'[r] = s
    BY <1>1, <1>2 DEF RequestFlush, Goes
<1>5. req[r].key[1] = req[r].msg
    BY <1>1 DEF RequestFlush, ReqOK
<1> QED BY <1>3, <1>4, <1>5

LEMMA ExplainedKept ==
    ASSUME TransInv, [Next]_vars
    PROVE  MistranslationExplained'
<1>1. SUFFICES ASSUME NEW k \in Text, row'[k].of \notin {None, k[2]}
               PROVE  \E r \in Request : /\ req'[r].at = "done"
                                         /\ req'[r].msg = k[1]
                                         /\ req'[r].given = row'[k].of
    BY DEF MistranslationExplained
<1>2. CASE row'[k].of = row[k].of
    <2>1. PICK r \in Request : /\ req[r].at = "done" /\ req[r].msg = k[1]
                               /\ req[r].given = row[k].of
        BY <1>1, <1>2 DEF TransInv, MistranslationExplained
    <2>2. req'[r] = req[r]
        BY <2>1, DoneStays
    <2> QED BY <1>2, <2>1, <2>2
<1>3. CASE Commit
    BY <1>1, <1>2, <1>3, CommitIs
<1>4. ASSUME NEW r \in Request, RequestFlush(r), row'[k].of # row[k].of
      PROVE  req'[r].at = "done" /\ req'[r].msg = k[1] /\ req'[r].given = row'[k].of
    <2>1. PICK j \in Text, w \in Row :
             /\ j = req[r].key
             /\ row' = [row EXCEPT ![j] = w]
             /\ w.of \in {None, req[r].given, row[j].of}
        BY <1>4, FlushIs
    <2>2. row \in [Text -> Row]
        BY DEF TransInv, TransTypes
    <2>3. j = k /\ row'[k] = w
        BY <1>4, <2>1, <2>2
    <2> QED BY <1>1, <1>4, <2>1, <2>3, FlushDone
<1>5. CASE UNCHANGED row
    BY <1>2, <1>5
<1> QED BY <1>2, <1>3, <1>4, <1>5, RowStep DEF TransInv

-----------------------------------------------------------------------------
LEMMA TransInit ==
    ASSUME Init
    PROVE  TransInv
<1>1. TransTypes
    <2>1. version \in [Message -> Versions] /\ \A m \in Message : version[m] <= MaxEdits[m]
        <3>1. \A m \in Message : MaxEdits[m] \in Nat /\ 0 <= MaxEdits[m]
            BY TranslationAssumption
        <3>2. 0 \in Nat /\ \A m \in Message : 0 \in Versions
            BY <3>1, TextIs
        <3> QED BY <3>1, <3>2 DEF Init
    <2>2. row \in [Text -> Row]
        BY RowParts DEF Init
    <2>3. batch \in [Batch -> BatchSet]
        <3>1. PICK seen \in Seens : seen = <<>>
            BY EmptyIs
        <3>2. batch = [b \in Batch |-> [status |-> "unused", anchor |-> None, seen |-> seen]]
            BY <3>1 DEF Init
        <3>3. [status |-> "unused", anchor |-> None, seen |-> seen] \in BatchSet
            BY DEF BatchSet
        <3> QED BY <3>2, <3>3
    <2>4. disp \in DispSet
        BY IdleIs DEF Init
    <2>5. req \in [Request -> ReqSet]
        BY FreshIs DEF Init
    <2> QED BY <2>1, <2>2, <2>3, <2>4, <2>5 DEF Init, TransTypes
<1>2. RowsOK /\ \A k \in Text : row[k].of = None
    BY DEF Init, RowsOK, NoRow
<1>3. DispOK
    BY DEF Init, Idle, DispOK, InTransaction
<1>4. \A r \in Request : ReqOK(req[r])
    BY FreshIs DEF Init, ReqOK
<1>5. \A b \in Batch : batch[b].status = "unused"
    BY DEF Init
<1>6. \A b \in Batch : BatchOK(b)
    BY <1>5 DEF BatchOK
<1>7. BatchCovers
    BY <1>5 DEF BatchCovers
<1>8. MistranslationExplained
    BY <1>2 DEF MistranslationExplained
<1> QED BY <1>1, <1>2, <1>3, <1>4, <1>6, <1>7, <1>8 DEF TransInv

(* In every state of every behaviour the types hold, and what the          *)
(* dispatcher and the requests remember agrees with the rows.              *)
THEOREM TransInvariant == Spec => []TransInv
<1>1. Init => TransInv
    BY TransInit
<1>2. TransInv /\ [Next]_vars => TransInv'
    <2>1. ASSUME TransInv, [Next]_vars PROVE TransInv'
        BY <2>1, TypesKept, RowsKept, DispKept, ReqsKept, BatchesKept, CoversKept, ExplainedKept
           DEF TransInv
    <2> QED BY <2>1
<1> QED BY <1>1, <1>2, PTL DEF Spec

(* A completed batch left a row for every text that its window had when it *)
(* was taken: _process_batch and _translate_window lose none of them,      *)
(* whatever the model answers and whoever writes meanwhile.                *)
THEOREM BatchesCover == Spec => []BatchCovers
<1>1. TransInv => BatchCovers
    BY DEF TransInv
<1> QED BY <1>1, TransInvariant, PTL

(* A batch is marked failed by run_once only after another writer took the *)
(* row of one of its texts, and never on SQLite.                           *)
THEOREM FailuresByRace == Spec => []FailedByRace
<1>1. TransInv => FailedByRace
    BY DEF TransInv, BatchOK, Raced, FailedByRace
<1> QED BY <1>1, TransInvariant, PTL

(* A translation kept under a text of which it is none was written by a    *)
(* request of translate_message that was given another text.               *)
THEOREM MistranslationsExplained == Spec => []MistranslationExplained
<1>1. TransInv => MistranslationExplained
    BY DEF TransInv
<1> QED BY <1>1, TransInvariant, PTL

LEMMA OnlyOldersOverwrite ==
    ASSUME TransInv, [Next]_vars, NEW k \in Text,
           row[k].status = "completed", row'[k].status = "failed"
    PROVE  \/ disp.at = "items" /\ disp'.at = "idle"
                /\ (k \notin disp.done \/ Kind[k[1]] = "padded")
           \/ \E r \in Request : /\ req[r].at = "flush" /\ req'[r].at = "done"
                                  /\ k \notin req[r].done
<1>1. row \in [Text -> Row] /\ row'[k] # row[k]
    BY DEF TransInv, TransTypes
<1>2. CASE Commit
    <2>1. k \in DOMAIN disp.out /\ InTransaction
        BY <1>1, <1>2, CommitIs DEF Commit, InTransaction
    <2>2. Touches(k)
        BY <2>1 DEF TransInv, DispOK, OutOK
    <2> QED BY <1>2, <2>2 DEF Commit, Idle, Touches
<1>3. ASSUME NEW r \in Request, RequestFlush(r)
      PROVE  req[r].at = "flush" /\ req'[r].at = "done" /\ k \notin req[r].done
    <2>1. PICK j \in Text, w \in Row :
             /\ row' = [row EXCEPT ![j] = w]
             /\ j \in req[r].done /\ row[j].status = "completed" => w.status = "completed"
        BY <1>3, FlushIs
    <2>2. j = k /\ row'[k] = w
        BY <1>1, <2>1
    <2> QED BY <1>3, <2>1, <2>2, FlushDone DEF RequestFlush
<1> QED BY <1>1, <1>2, <1>3, RowStep DEF TransInv

(* A completed translation turns into a failed one only by a batch or a    *)
(* request that began before it was completed, or by a batch that never    *)
(* finds it, for its text is padded.                                       *)
THEOREM CompletedKept == Spec => CompletedStays
<1>1. TransInv /\ [Next]_vars =>
        [\A k \in Text : row[k].status = "completed" /\ row'[k].status = "failed" =>
           \/ disp.at = "items" /\ disp'.at = "idle"
                /\ (k \notin disp.done \/ Kind[k[1]] = "padded")
           \/ \E r \in Request : /\ req[r].at = "flush" /\ req'[r].at = "done"
                                  /\ k \notin req[r].done]_vars
    BY OnlyOldersOverwrite
<1> QED BY <1>1, TransInvariant, PTL DEF Spec, CompletedStays

-----------------------------------------------------------------------------
(* The queue. Batches are numbered as they are queued, and the dispatcher  *)
(* works on the oldest that is pending.                                    *)
QueueInv ==
    /\ \A b, c \in Batch : c < b /\ batch[b].status # "unused" => batch[c].status # "unused"
    /\ disp.at # "idle" => disp.batch \in Pending /\ \A c \in Pending : disp.batch <= c
    /\ crashes \in 0..MaxCrashes

LEMMA OldestIs ==
    ASSUME NEW S \in SUBSET Nat, NEW b \in S, \A c \in S : b <= c
    PROVE  Oldest(S) = b
<1>1. Oldest(S) \in S /\ \A c \in S : Oldest(S) <= c
    BY DEF Oldest
<1>2. PICK x \in S : x = Oldest(S)
    BY <1>1
<1>3. x <= b /\ b <= x /\ x \in Nat /\ b \in Nat
    BY <1>1, <1>2
<1> QED BY <1>2, <1>3

LEMMA OldestIsLeast ==
    ASSUME NEW S \in SUBSET Nat, S # {}
    PROVE  \A c \in S : Oldest(S) <= c
<1>1. \E x \in S : \A y \in S : ~ (<<y, x>> \in OpToRel(<, Nat))
    BY WFMin, NatLessThanWellFounded
<1>2. \E x \in S : \A y \in S : x <= y
    BY <1>1, NatLess
<1> QED BY <1>2 DEF Oldest

(* The dispatcher keeps its batch until it is done with it.                *)
LEMMA SameBatch ==
    ASSUME TransInv, [Next]_vars, UNCHANGED disp \/ Asks \/ Answers \/ CommitFails
    PROVE  /\ disp'.at = "idle" \/ disp'.batch = disp.batch
           /\ disp'.at # "idle" => disp.at # "idle"
<1>1. disp \in DispSet
    BY DEF TransInv, TransTypes
<1>2. CASE UNCHANGED disp
    BY <1>2
<1>3. CASE Asks
    <2>1. PICK at \in {"window", "items"}, got \in SUBSET Message, try \in Nat :
            disp' = [disp EXCEPT !.at = at, !.got = got, !.try = try]
        BY <1>3 DEF Asks
    <2> QED BY <1>1, <1>3, <2>1 DEF Asks, InTransaction, DispSet
<1>4. CASE Answers
    <2>1. PICK m \in disp.todo, status \in Outcome : Upsert(m, status, disp.seen[m])
        BY <1>4 DEF Answers
    <2>2. InTransaction
        BY <1>4 DEF Answers, InTransaction
    <2>3. CASE LostRace
        BY <2>1, <2>2, <2>3, FailingIs DEF Upsert, TransInv, InTransaction
    <2>4. CASE ~LostRace
        <3>1. PICK k \in Text, out \in Outs :
                disp' = [disp EXCEPT !.todo = disp.todo \ {m}, !.try = 0, !.held = k, !.out = out]
            BY <2>1, <2>2, <2>4, UpsertIs DEF TransInv
        <3> QED BY <1>1, <2>2, <3>1 DEF DispSet, InTransaction
    <2> QED BY <2>3, <2>4
<1>5. CASE CommitFails
    BY <1>5, FailingIs DEF CommitFails, TransInv
<1> QED BY <1>2, <1>3, <1>4, <1>5

LEMMA QueueKept ==
    ASSUME TransInv, QueueInv, [Next]_vars
    PROVE  QueueInv'
<1>1. /\ batch \in [Batch -> BatchSet] /\ batch' \in [Batch -> BatchSet] /\ Batch \subseteq Nat
      /\ disp \in DispSet
    BY BatchTypes, TranslationAssumption DEF TransInv, TransTypes
<1>2. ASSUME NEW status \in {"completed", "failed"}, disp.at # "idle",
             InTransaction \/ disp.at = "failing",
             batch' = [batch EXCEPT ![disp.batch].status = status, ![disp.batch].seen = disp.seen]
      PROVE  \A b \in Batch : batch'[b].status = "unused" <=> batch[b].status = "unused"
    <2>1. /\ disp.batch \in Batch /\ batch'[disp.batch].status = status
          /\ \A b \in Batch : b # disp.batch => batch'[b] = batch[b]
        BY <1>2, MarksIs
    <2>2. batch[disp.batch].status = "pending"
        BY <1>2 DEF QueueInv, Pending
    <2> QED BY <2>1, <2>2
<1>3. \/ \A b \in Batch : batch'[b].status = "unused" <=> batch[b].status = "unused"
      \/ \E b \in Batch, m \in Message : Queue(b, m)
    <2>1. CASE Commit
        BY <1>2, <2>1 DEF Commit, InTransaction
    <2>2. CASE MarkFailed
        BY <1>2, <2>2 DEF MarkFailed
    <2> QED BY <2>1, <2>2, BatchStep DEF TransInv
<1>4. ASSUME NEW b \in Batch, NEW m \in Message, Queue(b, m)
      PROVE  /\ batch[b].status = "unused" /\ batch'[b].status = "pending"
             /\ \A c \in Batch : c # b => batch'[c] = batch[c]
             /\ \A c \in Batch : c < b => batch[c].status # "unused"
             /\ UNCHANGED disp
    BY <1>1, <1>4 DEF Queue, BatchSet
<1>5. \A b, c \in Batch : c < b /\ batch'[b].status # "unused" => batch'[c].status # "unused"
    <2>1. ASSUME NEW q \in Batch, NEW m \in Message, Queue(q, m),
                 NEW b \in Batch, NEW c \in Batch, c < b, batch'[b].status # "unused"
          PROVE  batch'[c].status # "unused"
        BY <1>4, <2>1 DEF QueueInv
    <2> QED BY <1>3, <2>1 DEF QueueInv
<1>6. ASSUME disp'.at # "idle", UNCHANGED disp \/ Asks \/ Answers \/ CommitFails
      PROVE  disp'.batch \in Pending' /\ \A c \in Pending' : disp'.batch <= c
    <2>1. disp'.batch = disp.batch /\ disp.at # "idle"
        BY <1>6, SameBatch
    <2>2. disp.batch \in Pending /\ \A c \in Pending : disp.batch <= c
        BY <2>1 DEF QueueInv
    <2>3. CASE UNCHANGED batch
        BY <2>1, <2>2, <2>3 DEF Pending
    <2>4. ASSUME NEW b \in Batch, NEW m \in Message, Queue(b, m)
          PROVE  disp'.batch \in Pending' /\ \A c \in Pending' : disp'.batch <= c
        <3>1. disp.batch \in Batch /\ batch[disp.batch].status = "pending"
            BY <2>2 DEF Pending
        <3>2. disp.batch # b /\ ~(b < disp.batch)
            BY <1>4, <2>4, <3>1 DEF QueueInv
        <3>3. disp.batch <= b
            <4>1. PICK x \in Nat : x = disp.batch
                BY <1>1, <3>1
            <4>2. b \in Nat
                BY <1>1
            <4> QED BY <3>2, <4>1, <4>2
        <3>4. Pending' = Pending \cup {b}
            BY <1>4, <2>4 DEF Pending
        <3> QED BY <2>1, <2>2, <3>3, <3>4
    <2>5. ~Commit /\ ~MarkFailed
        BY <1>6, <2>1 DEF Commit, MarkFailed, Idle
    <2> QED BY <2>3, <2>4, <2>5, BatchStep DEF TransInv
<1>7. ASSUME TakeBatch
      PROVE  disp'.batch \in Pending' /\ \A c \in Pending' : disp'.batch <= c
    <2>1. disp'.batch = Oldest(Pending) /\ Pending' = Pending /\ Pending # {}
        BY <1>7 DEF TakeBatch, rowVars, Pending
    <2>2. Pending \in SUBSET Nat
        BY <1>1 DEF Pending
    <2> QED BY <2>1, <2>2, OldestOf, OldestIsLeast
<1>8. crashes' \in 0..MaxCrashes
    <2>1. CASE Crash
        BY <2>1, TranslationAssumption DEF Crash, QueueInv
    <2>2. CASE ~Crash
        <3>1. \A r \in Request : Handle(r) => UNCHANGED crashes
            BY HandleKeeps
        <3>2. \/ UNCHANGED vars \/ (\E m \in Message : Edit(m)) \/ (\E b \in Batch, m \in Message : Queue(b, m))
              \/ TakeBatch \/ Asks \/ Answers \/ Commit \/ CommitFails \/ MarkFailed
              => UNCHANGED crashes
            BY DEF vars, Edit, Queue, TakeBatch, Asks, Answers, Commit, CommitFails, MarkFailed, Others
        <3> QED BY <2>2, <3>1, <3>2, NextIs DEF TransInv, QueueInv
    <2> QED BY <2>1, <2>2
<1>9. CASE disp' = Idle
    <2>1. disp'.at = "idle"
        BY <1>9 DEF Idle
    <2> QED BY <1>5, <1>8, <2>1 DEF QueueInv
<1> QED BY <1>5, <1>6, <1>7, <1>8, <1>9, DispStep DEF QueueInv, TransInv

(* The types, and run_once takes the oldest pending batch and keeps it     *)
(* until it is completed or failed, although batches are queued meanwhile. *)
THEOREM OldestFirst == Spec => []TransTypeOK
<1>1. Init => QueueInv
    <2>1. ASSUME Init PROVE QueueInv
        <3>1. (\A b \in Batch : batch[b].status = "unused") /\ disp.at = "idle" /\ crashes = 0
            BY <2>1 DEF Init, Idle
        <3> QED BY <3>1, TranslationAssumption DEF QueueInv
    <2> QED BY <2>1
<1>2. TransInv /\ QueueInv /\ [Next]_vars => QueueInv'
    BY QueueKept
<1>3. TransInv /\ QueueInv => TransTypeOK
    <2>1. ASSUME TransInv, QueueInv PROVE TransTypeOK
        <3>1. TransTypes
            BY <2>1 DEF TransInv
        <3>2. \A b \in Batch : batch[b].status \in {"unused", "pending", "completed", "failed"}
            BY <3>1 DEF TransTypes, BatchSet
        <3>3. disp.at \in {"idle", "window", "items", "failing"}
            BY <3>1 DEF TransTypes, DispSet
        <3>4. \A r \in Request :
                req[r].at \in {"new", "call", "select", "flush", "cached", "done", "error"}
            BY <3>1 DEF TransTypes, ReqSet
        <3>5. disp.at # "idle" => disp.batch \in Pending /\ disp.batch = Oldest(Pending)
            <4>1. Pending \in SUBSET Nat
                BY TranslationAssumption DEF Pending
            <4> QED BY <2>1, <4>1, OldestIs DEF QueueInv
        <3> QED BY <2>1, <3>1, <3>2, <3>3, <3>4, <3>5 DEF TransTypes, TransTypeOK, QueueInv
    <2> QED BY <2>1
<1> QED BY <1>1, <1>2, <1>3, TransInvariant, PTL DEF Spec

=============================================================================
