---------------------------- MODULE RelayProofs ----------------------------
(***************************************************************************)
(* The proofs about Relay: what a run of the router or the forwarder may   *)
(* take for granted of the runs before it and beside it, for every table,  *)
(* every number of runners and every contact.                              *)
(***************************************************************************)
EXTENDS Relay, WellFoundedInduction, TLAPS

-----------------------------------------------------------------------------
(* Types.                                                                  *)
Place == {"idle", "rows", "numbering", "numbers", "reply", "worded", "fallback",
          "sent", "failed", "saving"}

Numbers == [Number -> Contact \cup {Nobody}]

RunSet == [at : Place, job : Job, row : Nat, from : Nat, upto : Nat, no : Nat,
           listed : SUBSET Contact, read : Numbers, now : Numbers, pending : Nat]

LeftOf(s) == {i \in Rows(s) : i > s.row}

(* What a run says of itself and of the table.                             *)
RunOK(s) ==
    /\ s \in RunSet
    /\ s.from <= s.row /\ s.row <= s.upto /\ s.upto <= Len(table)
    /\ s.at \in {"rows", "saving"} => s.job \in {"router", "forward"}
    /\ s.at \in {"numbering", "numbers", "worded", "fallback"} => s.job \in {"router", "reply"}
    /\ s.at \in {"reply", "sent", "failed"} => s.job = "reply"
    /\ s.job = "reply" => s.upto = 0
    /\ s.job = "reply" /\ s.at \in {"numbering", "numbers", "reply"} => s.no \in Number
    /\ s.job = "router" /\ s.at = "worded" => LeftOf(s) # {}
    /\ s.job = "router" /\ s.at = "fallback" => s.from < s.row /\ Is(s.row, "command")

RelayTypes ==
    /\ table \in Seq(Row) /\ Len(table) <= MaxRows
    /\ known \in Numbers
    /\ aliases \in {known, Torn}
    /\ position \in [{"router", "forward"} -> Nat \cup {Torn}]
    /\ \A j \in {"router", "forward"} : Loaded(position[j], 0) <= Len(table)
    /\ run \in [Runner -> RunSet]
    /\ sent \in [1..MaxRows -> 0..2]
    /\ \A r \in Runner : RunOK(run[r])

-----------------------------------------------------------------------------
(* The commands that a router has behind it, those it has before it, and   *)
(* all that it took up.                                                    *)
Routes(s) == s.job = "router" /\ s.at # "idle"
Behind(s, i) == i < s.row \/ (i = s.row /\ s.at # "fallback")
Before(s, i) == i <= s.upto /\ ~Behind(s, i)
TakesUp(s, i) == s.from < i /\ i <= s.upto

(* What it has behind it was handled.                                      *)
HandledOK(s) == Routes(s) => \A i \in Commands : Behind(s, i) => <<0, i>> \in tried

(* What it has before it has not been sent, as far as it could know.       *)
UnsentOK(s) == Routes(s) => \A i \in Sent : Before(s, i) => i \in excused

(* Two of them share no command, as far as they could know.                *)
ApartOK(s, t) ==
    Routes(s) /\ Routes(t) =>
        \A i \in Commands : TakesUp(s, i) /\ TakesUp(t, i) => i \in excused

(* What has been sent is behind the position, or behind a router that goes *)
(* on from it, as far as a run that begins could know.                     *)
SentBehind ==
    \A i \in Sent :
        \/ i \in excused
        \/ position["router"] = Torn
        \/ i <= position["router"]
        \/ \E r \in Runner : Routes(run[r]) /\ run[r].from < i /\ i <= run[r].row

RouterInv ==
    /\ NothingSkipped
    /\ \A r \in Runner : HandledOK(run[r])

SentInv ==
    /\ ResentExplained
    /\ SentBehind
    /\ \A i \in 1..MaxRows : sent[i] > 0 => i \in Commands
    /\ \A r \in Runner : UnsentOK(run[r])
    /\ \A q, r \in Runner : q # r => ApartOK(run[q], run[r])

(* A pair that the forwarder has behind it was sent on or cut, and the     *)
(* message that it has just passed waits for its answer.                   *)
PairDone(i) == <<i, i + 1>> \in tried \/ i \in cuts
Pair(i) == Is(i, "text") /\ Is(i + 1, "reply")

PairsOK(s) ==
    s.job = "forward" /\ s.at # "idle" =>
        /\ \A i \in 1..Len(table) : Pair(i) /\ i + 1 <= s.row => PairDone(i)
        /\ s.at = "rows" /\ Is(s.row, "text") => s.pending = s.row \/ s.row \in cuts

ForwardInv ==
    /\ PairsForwarded
    /\ \A r \in Runner : PairsOK(run[r])

-----------------------------------------------------------------------------
(* Arithmetic and sequences.                                               *)

(* The relation of the library is the order of numbers.                    *)
LEMMA NatLess ==
    ASSUME NEW x \in Nat, NEW y \in Nat, ~(<<y, x>> \in OpToRel(<, Nat))
    PROVE  x <= y
BY DEF OpToRel

(* A set of numbers has a least one.                                       *)
LEMMA MinOf ==
    ASSUME NEW S \in SUBSET Nat, S # {}
    PROVE  Min(S) \in S /\ \A n \in S : Min(S) <= n
<1>1. \E x \in S : \A y \in S : ~ (<<y, x>> \in OpToRel(<, Nat))
    BY WFMin, NatLessThanWellFounded
<1>2. \E x \in S : \A y \in S : x <= y
    BY <1>1, NatLess
<1> QED BY <1>2 DEF Min

(* Rows are added to the table, and none is changed.                       *)
Grows ==
    /\ Len(table) <= Len(table')
    /\ \A i \in 1..Len(table) : table'[i] = table[i]

LEMMA RecordedGrows ==
    ASSUME table \in Seq(Row), NEW row \in Row, Recorded(row)
    PROVE  Grows /\ table' \in Seq(Row) /\ Len(table') <= MaxRows
BY RelayAssumption DEF Recorded, Grows

LEMMA SameGrows ==
    ASSUME table \in Seq(Row), table' = table
    PROVE  Grows
BY DEF Grows

LEMMA GrowsIs ==
    ASSUME table \in Seq(Row), table' \in Seq(Row), Grows, NEW kind
    PROVE  /\ Len(table) \in Nat /\ Len(table') \in Nat /\ Len(table) <= Len(table')
           /\ \A i : i <= Len(table) => (Is(i, kind)' <=> Is(i, kind))
BY DEF Grows, Is

-----------------------------------------------------------------------------
(* Runs and their rows.                                                    *)

LEMMA RowsAreNat ==
    ASSUME NEW s \in RunSet
    PROVE  /\ Rows(s) \subseteq s.from + 1 .. s.upto
           /\ Rows(s) \subseteq Nat /\ LeftOf(s) \subseteq Nat
           /\ LeftOf(s) \subseteq Rows(s)
BY DEF Rows, LeftOf, RunSet

(* The rows that a run read do not change under it.                        *)
LEMMA RowsStay ==
    ASSUME table \in Seq(Row), table' \in Seq(Row), Grows,
           NEW s \in RunSet, s.upto <= Len(table)
    PROVE  Rows(s)' = Rows(s) /\ LeftOf(s)' = LeftOf(s)
<1>1. s.from \in Nat /\ s.upto \in Nat
    BY DEF RunSet
<1>2. \A i \in s.from + 1 .. s.upto : Is(i, "command")' <=> Is(i, "command")
    BY <1>1, GrowsIs
<1>3. Rows(s)' = Rows(s)
    BY <1>2 DEF Rows, Takes
<1> QED BY <1>3 DEF LeftOf

LEMMA RunFrame ==
    ASSUME table \in Seq(Row), table' \in Seq(Row), Grows, NEW s, RunOK(s)
    PROVE  RunOK(s)'
<1>1. s \in RunSet /\ s.upto \in Nat /\ s.row \in Nat /\ s.row <= s.upto /\ s.upto <= Len(table)
    BY DEF RunOK, RunSet
<1>2. LeftOf(s)' = LeftOf(s)
    BY <1>1, RowsStay
<1>3. s.upto <= Len(table') /\ (Is(s.row, "command")' <=> Is(s.row, "command"))
    BY <1>1, GrowsIs
<1> QED BY <1>1, <1>2, <1>3 DEF RunOK

(* One run goes on and the others stay as they are.                        *)
LEMMA OneGoes ==
    ASSUME table \in Seq(Row), table' \in Seq(Row), Grows, run \in [Runner -> RunSet],
           \A q \in Runner : RunOK(run[q]),
           NEW r \in Runner, NEW s, RunOK(s), Goes(r, s)
    PROVE  /\ run' \in [Runner -> RunSet]
           /\ run'[r] = s
           /\ \A q \in Runner : q # r => run'[q] = run[q]
           /\ \A q \in Runner : RunOK(run[q])'
<1>1. /\ run' \in [Runner -> RunSet] /\ run'[r] = s
      /\ \A q \in Runner : q # r => run'[q] = run[q]
    BY DEF Goes, RunOK
<1>2. ASSUME NEW q \in Runner PROVE RunOK(run[q])'
    <2>1. PICK u : u = run'[q] OBVIOUS
    <2>2. RunOK(u)
        BY <2>1, <1>1
    <2>3. RunOK(u)'
        BY <2>2, RunFrame
    <2> QED BY <2>1, <2>3 DEF RunOK, LeftOf, Rows, Takes, Is
<1> QED BY <1>1, <1>2

-----------------------------------------------------------------------------
(* The steps keep the types.                                               *)

Files ==
    /\ known \in Numbers
    /\ aliases \in {known, Torn}
    /\ position \in [{"router", "forward"} -> Nat \cup {Torn}]
    /\ \A j \in {"router", "forward"} : Loaded(position[j], 0) <= Len(table)
    /\ sent \in [1..MaxRows -> 0..2]

LEMMA FilesSame ==
    ASSUME RelayTypes, UNCHANGED <<table, known, aliases, position, sent>>
    PROVE  Files'
BY DEF RelayTypes, Files

LEMMA TypesGo ==
    ASSUME RelayTypes, NEW r \in Runner, NEW s, RunOK(s), Goes(r, s),
           table' = table, Files'
    PROVE  RelayTypes' /\ Grows
<1>1. table \in Seq(Row) /\ table' \in Seq(Row) /\ Grows
    BY SameGrows DEF RelayTypes
<1>2. run \in [Runner -> RunSet] /\ \A q \in Runner : RunOK(run[q])
    BY DEF RelayTypes
<1>3. run' \in [Runner -> RunSet] /\ (\A q \in Runner : RunOK(run[q]))'
    BY <1>1, <1>2, OneGoes
<1>4. Len(table') <= MaxRows
    BY DEF RelayTypes
<1> QED BY <1>1, <1>3, <1>4 DEF RelayTypes, Files

LEMMA IdleOK ==
    ASSUME RelayTypes
    PROVE  RunOK(Idle)
<1>1. NoNumbers \in Numbers
    BY DEF NoNumbers, Numbers
<1>2. Idle \in RunSet
    BY <1>1 DEF Idle, RunSet, Place, Job
<1>3. Len(table) \in Nat
    BY DEF RelayTypes
<1> QED BY <1>2, <1>3 DEF RunOK, Idle

LEMMA NewRunOK ==
    ASSUME RelayTypes, NEW job \in {"router", "forward"}, NEW from \in Nat, from <= Len(table)
    PROVE  /\ NewRun(job, from) \in RunSet
           /\ NewRun(job, from).at = "rows" /\ NewRun(job, from).job = job
           /\ NewRun(job, from).from = from /\ NewRun(job, from).row = from
           /\ NewRun(job, from).upto = Len(table) /\ NewRun(job, from).pending = 0
<1>1. NoNumbers \in Numbers
    BY DEF NoNumbers, Numbers
<1>2. Len(table) \in Nat
    BY DEF RelayTypes
<1> QED BY <1>1, <1>2 DEF NewRun, Idle, RunSet, Place, Job

LEMMA LoadedOK ==
    ASSUME RelayTypes
    PROVE  /\ Loaded(aliases, NoNumbers) \in Numbers
           /\ \A j \in {"router", "forward"} :
                Loaded(position[j], 0) \in Nat /\ Loaded(position[j], 0) <= Len(table)
BY DEF RelayTypes, Loaded, NoNumbers, Numbers

LEMMA BeginRouterTypes ==
    ASSUME RelayTypes, NEW r \in Runner, NEW listed \in Listing, BeginRouter(r, listed)
    PROVE  RelayTypes' /\ Grows
<1>1. PICK from : from = Loaded(position["router"], 0) OBVIOUS
<1>2. from \in Nat /\ from <= Len(table)
    BY <1>1, LoadedOK
<1>3. PICK n : n = NewRun("router", from) OBVIOUS
<1>4. /\ n \in RunSet /\ n.job = "router" /\ n.from = from /\ n.row = from
      /\ n.upto = Len(table)
    BY <1>2, <1>3, NewRunOK
<1>5. PICK s : s = Numbering(n, listed) OBVIOUS
<1>6. s \in RunSet
    BY <1>4, <1>5, LoadedOK, RelayAssumption DEF Numbering, RunSet, Place
<1>7. /\ s.job = "router" /\ s.at = "numbering" /\ s.from = from /\ s.row = from
      /\ s.upto = Len(table)
    BY <1>4, <1>5 DEF Numbering, RunSet
<1>8. RunOK(s)
    BY <1>2, <1>6, <1>7 DEF RunOK, RelayTypes
<1>9. Goes(r, s)
    BY <1>1, <1>3, <1>5 DEF BeginRouter
<1> QED BY <1>8, <1>9, TypesGo, FilesSame DEF BeginRouter

LEMMA BeginForwardTypes ==
    ASSUME RelayTypes, NEW r \in Runner, BeginForward(r)
    PROVE  RelayTypes' /\ Grows
<1>1. PICK from : from = Loaded(position["forward"], 0) OBVIOUS
<1>2. from \in Nat /\ from <= Len(table)
    BY <1>1, LoadedOK
<1>3. PICK s : s = NewRun("forward", from) OBVIOUS
<1>4. RunOK(s)
    BY <1>2, <1>3, NewRunOK DEF RunOK, RelayTypes
<1>9. Goes(r, s)
    BY <1>1, <1>3 DEF BeginForward
<1> QED BY <1>4, <1>9, TypesGo, FilesSame DEF BeginForward

LEMMA BeginReplyTypes ==
    ASSUME RelayTypes, NEW r \in Runner, NEW n \in Named, NEW listed \in Listing,
           BeginReply(r, n, listed)
    PROVE  RelayTypes' /\ Grows
<1>1. NoNumbers \in Numbers /\ n \in Number /\ n \in Nat
    BY RelayAssumption DEF NoNumbers, Numbers, Number
<1>2. PICK m : m = [NewRun("reply", 0) EXCEPT !.upto = 0, !.no = n] OBVIOUS
<1>3. /\ m \in RunSet
      /\ m.job = "reply" /\ m.from = 0 /\ m.row = 0 /\ m.upto = 0 /\ m.no = n
    BY <1>1, <1>2 DEF NewRun, Idle, RunSet, Place, Job
<1>5. PICK s : s = Numbering(m, listed) OBVIOUS
<1>6. s \in RunSet
    BY <1>3, <1>5, LoadedOK, RelayAssumption DEF Numbering, RunSet, Place
<1>7. /\ s.job = "reply" /\ s.at = "numbering" /\ s.from = 0 /\ s.row = 0 /\ s.upto = 0
      /\ s.no = n
    BY <1>3, <1>5 DEF Numbering, RunSet
<1>8. RunOK(s)
    BY <1>1, <1>6, <1>7 DEF RunOK, RelayTypes
<1>9. Goes(r, s)
    BY <1>2, <1>5 DEF BeginReply
<1> QED BY <1>8, <1>9, TypesGo, FilesSame DEF BeginReply

(* The next row is the first of those left.                                *)
LEMMA NextRow ==
    ASSUME NEW s \in RunSet, LeftOf(s) # {}, NEW i, i = Min(LeftOf(s))
    PROVE  /\ i \in Rows(s) /\ i \in Nat /\ s.row < i /\ s.from < i /\ i <= s.upto
           /\ \A j \in Rows(s) : s.row < j => i <= j
<1>1. LeftOf(s) \in SUBSET Nat /\ LeftOf(s) \subseteq Rows(s)
    BY RowsAreNat
<1>2. i \in LeftOf(s) /\ \A j \in LeftOf(s) : i <= j
    BY <1>1, MinOf
<1>3. i \in Rows(s) /\ i \in Nat /\ s.row < i
    BY <1>1, <1>2 DEF LeftOf
<1>4. s.from < i /\ i <= s.upto
    BY <1>3, RowsAreNat DEF RunSet
<1>5. \A j \in Rows(s) : s.row < j => i <= j
    BY <1>2 DEF LeftOf
<1> QED BY <1>3, <1>4, <1>5

LEMMA NextOf ==
    ASSUME RelayTypes, NEW r \in Runner, NEW i, At(r, i) \/ (Left(r) # {} /\ i = Min(Left(r)))
    PROVE  /\ run[r].row < i /\ run[r].from < i /\ i <= run[r].upto
           /\ i \in Rows(run[r]) /\ i \in Nat /\ i <= Len(table)
           /\ \A j \in Rows(run[r]) : run[r].row < j => i <= j
<1>1. PICK s : s = run[r] OBVIOUS
<1>2. s \in RunSet /\ s.upto \in Nat /\ s.upto <= Len(table) /\ Len(table) \in Nat
    BY <1>1 DEF RelayTypes, RunOK, RunSet
<1>3. LeftOf(s) # {} /\ i = Min(LeftOf(s))
    BY <1>1 DEF At, Left, LeftOf
<1>4. /\ i \in Rows(s) /\ i \in Nat /\ s.row < i /\ s.from < i /\ i <= s.upto
      /\ \A j \in Rows(s) : s.row < j => i <= j
    BY <1>2, <1>3, NextRow
<1>5. i <= Len(table)
    BY <1>2, <1>4
<1> QED BY <1>1, <1>4, <1>5

(* A run that has the same rows before it.                                 *)
SameRows(s, t) ==
    t.job = s.job /\ t.from = s.from /\ t.row = s.row /\ t.upto = s.upto

LEMMA SameRowsOK ==
    ASSUME NEW s, NEW t, RunOK(s), t \in RunSet, SameRows(s, t),
           t.at \in {"rows", "saving"} => t.job \in {"router", "forward"},
           t.at \in {"numbering", "numbers", "worded", "fallback"} => t.job \in {"router", "reply"},
           t.at \in {"reply", "sent", "failed"} => t.job = "reply",
           t.job = "reply" /\ t.at \in {"numbering", "numbers", "reply"} => t.no \in Number,
           t.job = "router" /\ t.at = "worded" => LeftOf(s) # {},
           t.at # "fallback"
    PROVE  RunOK(t)
<1>1. LeftOf(t) = LeftOf(s)
    BY DEF SameRows, LeftOf, Rows
<1> QED BY <1>1 DEF RunOK, SameRows

(* A run that has come to its next row.                                    *)
LEMMA NextRowOK ==
    ASSUME NEW s, NEW t, NEW i, RunOK(s), t \in RunSet,
           t.job = s.job, t.from = s.from, t.upto = s.upto, t.row = i,
           i \in Nat, s.row < i, i <= s.upto,
           t.job # "reply",
           \/ t.at = "rows"
           \/ t.at = "fallback" /\ t.job = "router" /\ Is(i, "command")
    PROVE  RunOK(t)
<1>1. s.from \in Nat /\ s.row \in Nat /\ t.job \in {"router", "forward"}
    BY DEF RunOK, RunSet, Job
<1> QED BY <1>1 DEF RunOK

LEMMA NumbersOpenTypes ==
    ASSUME RelayTypes, NEW r \in Runner, NumbersOpen(r)
    PROVE  RelayTypes' /\ Grows
<1>1. PICK s : s = run[r] OBVIOUS
<1>2. RunOK(s) /\ s \in RunSet /\ s.at = "numbering"
    BY <1>1 DEF RelayTypes, RunOK, NumbersOpen
<1>3. PICK t : t = [s EXCEPT !.at = "numbers"] OBVIOUS
<1>4. t \in RunSet /\ SameRows(s, t) /\ t.at = "numbers" /\ t.no = s.no
    BY <1>2, <1>3 DEF RunSet, Place, SameRows
<1>5. RunOK(t)
    BY <1>2, <1>4, SameRowsOK DEF RunOK, SameRows
<1>6. Goes(r, t)
    BY <1>1, <1>3 DEF NumbersOpen
<1>7. Files'
    BY DEF NumbersOpen, Files, RelayTypes
<1> QED BY <1>5, <1>6, <1>7, TypesGo DEF NumbersOpen

LEMMA RefreshedOK ==
    ASSUME NEW read \in Numbers, NEW listed \in SUBSET Contact
    PROVE  /\ Refreshed(read, listed) \in Numbers
           /\ \A n \in Number :
                read[n] # Nobody /\ read[n] \in listed => Refreshed(read, listed)[n] = read[n]
BY RelayAssumption DEF Refreshed, Numbers

LEMMA NumbersWrittenTypes ==
    ASSUME RelayTypes, NEW r \in Runner, NumbersWritten(r)
    PROVE  RelayTypes' /\ Grows
<1>1. PICK s : s = run[r] OBVIOUS
<1>2. RunOK(s) /\ s \in RunSet /\ s.at = "numbers" /\ s.job \in {"router", "reply"}
    BY <1>1 DEF RelayTypes, RunOK, NumbersWritten
<1>n. s.read \in Numbers /\ s.listed \in SUBSET Contact
    BY <1>2 DEF RunSet
<1>3. PICK now : now = Refreshed(s.read, s.listed) OBVIOUS
<1>4. now \in Numbers /\ NoNumbers \in Numbers
    BY <1>n, <1>3, RefreshedOK DEF NoNumbers, Numbers
<1>5. PICK t : t = [s EXCEPT !.at = IF s.job = "router" THEN "rows" ELSE "reply",
                              !.listed = {}, !.read = NoNumbers, !.now = now] OBVIOUS
<1>6. /\ t \in RunSet /\ SameRows(s, t) /\ t.no = s.no
      /\ t.at = IF s.job = "router" THEN "rows" ELSE "reply"
    BY <1>2, <1>4, <1>5 DEF RunSet, Place, SameRows
<1>7. RunOK(t)
    BY <1>2, <1>6, SameRowsOK DEF RunOK, SameRows
<1>8. Goes(r, t)
    BY <1>1, <1>3, <1>5 DEF NumbersWritten
<1>9. known' = now /\ aliases' \in {now, Torn}
    BY <1>1, <1>3 DEF NumbersWritten, Written
<1>10. Files'
    BY <1>4, <1>9 DEF NumbersWritten, Files, RelayTypes
<1> QED BY <1>7, <1>8, <1>10, TypesGo DEF NumbersWritten

LEMMA WordsTypes ==
    ASSUME RelayTypes, NEW r \in Runner, NEW i \in Nat, Words(r, i)
    PROVE  RelayTypes' /\ Grows
<1>1. PICK s : s = run[r] OBVIOUS
<1>2. RunOK(s) /\ s \in RunSet
    BY <1>1 DEF RelayTypes, RunOK
<1>3. Files'
    BY FilesSame DEF Words
<1>4. CASE s.job = "router" /\ At(r, i)
    <2>1. i # 0 /\ LeftOf(s) # {}
        <3>1. run[r].row < i
            BY <1>4, NextOf
        <3> QED BY <1>1, <1>2, <1>4, <3>1 DEF At, Left, LeftOf, RunSet
    <2>2. PICK t : t = [s EXCEPT !.at = "worded"] OBVIOUS
    <2>3. t \in RunSet /\ SameRows(s, t) /\ t.at = "worded"
        BY <1>2, <2>2 DEF RunSet, Place, SameRows
    <2>4. RunOK(t)
        BY <1>2, <1>4, <2>1, <2>3, SameRowsOK DEF SameRows
    <2>5. Goes(r, t)
        BY <1>1, <2>1, <2>2 DEF Words
    <2> QED BY <1>3, <2>4, <2>5, TypesGo DEF Words
<1>5. CASE s.at = "reply" /\ i = 0
    <2>1. s.job = "reply"
        BY <1>2, <1>5 DEF RunOK
    <2>2. PICK t : t = [s EXCEPT !.at = "worded", !.no = 0, !.now = NoNumbers] OBVIOUS
    <2>3. t \in RunSet /\ SameRows(s, t) /\ t.at = "worded"
        BY <1>2, <2>2 DEF RunSet, Place, SameRows, NoNumbers, Numbers
    <2>4. RunOK(t)
        BY <1>2, <2>1, <2>3, SameRowsOK DEF SameRows
    <2>5. Goes(r, t)
        BY <1>1, <1>5, <2>2 DEF Words
    <2> QED BY <1>3, <2>4, <2>5, TypesGo DEF Words
<1> QED BY <1>1, <1>4, <1>5 DEF Words

LEMMA ReachOK ==
    ASSUME sent \in [1..MaxRows -> 0..2], NEW i \in Nat, NEW reached, Reach(i, reached)
    PROVE  /\ sent' \in [1..MaxRows -> 0..2]
           /\ \A j \in 1..MaxRows : j # i => sent'[j] = sent[j]
           /\ i \in 1..MaxRows => /\ sent[i] <= sent'[i] /\ sent'[i] <= sent[i] + 1
           /\ ~reached => sent' = sent
<1>1. CASE reached /\ i # 0 /\ sent[i] < 2
    <2>1. sent' = [sent EXCEPT ![i] = sent[i] + 1]
        BY <1>1 DEF Reach
    <2>2. \A j \in 1..MaxRows : j # i => sent'[j] = sent[j]
        BY <2>1
    <2>3. i \in 1..MaxRows => sent[i] \in 0..2 /\ sent[i] + 1 \in 0..2 /\ sent'[i] = sent[i] + 1
        BY <1>1, <2>1
    <2>4. sent' \in [1..MaxRows -> 0..2]
        BY <2>1, <2>2, <2>3
    <2> QED BY <1>1, <2>2, <2>3, <2>4
<1>2. CASE ~(reached /\ i # 0 /\ sent[i] < 2)
    <2>1. sent' = sent
        BY <1>2 DEF Reach
    <2> QED BY <2>1, <1>2
<1> QED BY <1>1, <1>2

(* What the bridge is asked for is behind the router then, or waits for    *)
(* the client of Hermes.                                                   *)
Sends(r, i) ==
    \E reached, answered \in BOOLEAN : SendCommand(r, i, reached, answered)

LEMMA SendCommandIs ==
    ASSUME RelayTypes, NEW r \in Runner, NEW i \in Nat, Sends(r, i)
    PROVE  /\ run[r].job = "router" /\ run[r].at = "worded" /\ Is(i, "command")
           /\ run[r].row < i /\ run[r].from < i /\ i <= run[r].upto
           /\ \A j \in Rows(run[r]) : run[r].row < j => i <= j
           /\ \E t \in RunSet :
                /\ Goes(r, t)
                /\ t.job = "router" /\ t.from = run[r].from /\ t.upto = run[r].upto
                /\ t.row = i /\ t.at \in {"rows", "fallback"}
                /\ t.at = "rows" => tried' = tried \cup {<<0, i>>}
                /\ t.at = "fallback" => tried' = tried
                /\ t.at = "fallback" => sent' = sent \/ i \in excused'
           /\ sent' \in [1..MaxRows -> 0..2]
           /\ \A j \in 1..MaxRows : j # i => sent'[j] = sent[j]
           /\ i \in 1..MaxRows => /\ sent[i] <= sent'[i] /\ sent'[i] <= sent[i] + 1
           /\ excused \subseteq excused'
           /\ UNCHANGED <<table, aliases, known, position, cuts>>
<1>p. PICK reached \in BOOLEAN, answered \in BOOLEAN : SendCommand(r, i, reached, answered)
    BY DEF Sends
<1>1. PICK s : s = run[r] OBVIOUS
<1>2. RunOK(s) /\ s \in RunSet /\ s.job = "router" /\ s.at = "worded"
    BY <1>1, <1>p DEF RelayTypes, RunOK, SendCommand, Worded
<1>3. Left(r) # {} /\ i = Min(Left(r))
    BY <1>1, <1>2, <1>p DEF SendCommand, Worded, RunOK, Left, LeftOf
<1>4. /\ run[r].row < i /\ run[r].from < i /\ i <= run[r].upto
      /\ i \in Rows(run[r]) /\ i \in Nat
      /\ \A j \in Rows(run[r]) : run[r].row < j => i <= j
    BY <1>3, NextOf
<1>5. Is(i, "command")
    BY <1>1, <1>2, <1>4 DEF Rows, Takes
<1>6. PICK t : t = [s EXCEPT !.row = i, !.at = IF answered THEN "rows" ELSE "fallback"] OBVIOUS
<1>7. /\ t \in RunSet /\ t.row = i /\ t.job = "router" /\ t.from = s.from /\ t.upto = s.upto
      /\ t.at = IF answered THEN "rows" ELSE "fallback"
    <2>1. CASE answered
        BY <1>2, <1>6, <2>1 DEF RunSet, Place
    <2>2. CASE ~answered
        BY <1>2, <1>6, <2>2 DEF RunSet, Place
    <2> QED BY <2>1, <2>2
<1>8. Goes(r, t)
    BY <1>1, <1>2, <1>6, <1>p DEF SendCommand, AsksBridge, Answered
<1>9. Reach(i, reached) /\ UNCHANGED <<table, aliases, known, position, cuts>>
    BY <1>p DEF SendCommand, AsksBridge
<1>10. /\ sent' \in [1..MaxRows -> 0..2]
       /\ \A j \in 1..MaxRows : j # i => sent'[j] = sent[j]
       /\ i \in 1..MaxRows => /\ sent[i] <= sent'[i] /\ sent'[i] <= sent[i] + 1
       /\ ~reached => sent' = sent
    BY <1>9, ReachOK DEF RelayTypes
<1>11. CASE answered
    <2>1. tried' = tried \cup {<<0, i>>} /\ excused' = excused /\ t.at = "rows"
        BY <1>1, <1>2, <1>7, <1>11, <1>p DEF SendCommand, AsksBridge, Answered
    <2> QED BY <1>1, <1>2, <1>4, <1>5, <1>7, <1>8, <1>9, <1>10, <2>1
<1>12. CASE ~answered
    <2>1. tried' = tried /\ t.at = "fallback"
        BY <1>7, <1>12, <1>p DEF SendCommand, AsksBridge
    <2>2. excused' = IF reached THEN excused \cup {i} ELSE excused
        BY <1>12, <1>p DEF SendCommand, AsksBridge
    <2>3. excused \subseteq excused' /\ (sent' = sent \/ i \in excused')
        BY <1>10, <2>2
    <2> QED BY <1>1, <1>2, <1>4, <1>5, <1>7, <1>8, <1>9, <1>10, <2>1, <2>3
<1> QED BY <1>11, <1>12

LEMMA SendCommandTypes ==
    ASSUME RelayTypes, NEW r \in Runner, NEW i \in Nat, Sends(r, i)
    PROVE  RelayTypes' /\ Grows
<1>1. PICK s : s = run[r] OBVIOUS
<1>2. RunOK(s)
    BY <1>1 DEF RelayTypes
<1>3. PICK t \in RunSet :
        /\ Goes(r, t)
        /\ t.job = "router" /\ t.from = run[r].from /\ t.upto = run[r].upto
        /\ t.row = i /\ t.at \in {"rows", "fallback"}
    BY SendCommandIs
<1>4. /\ s.job = "router" /\ s.row < i /\ i <= s.upto /\ Is(i, "command")
    BY <1>1, SendCommandIs
<1>5. RunOK(t)
    BY <1>1, <1>2, <1>3, <1>4, NextRowOK
<1>6. sent' \in [1..MaxRows -> 0..2] /\ UNCHANGED <<table, aliases, known, position>>
    BY SendCommandIs
<1>7. Files'
    BY <1>6 DEF Files, RelayTypes
<1> QED BY <1>3, <1>5, <1>6, <1>7, TypesGo

LEMMA SendReplyTypes ==
    ASSUME RelayTypes, NEW r \in Runner, NEW answered \in BOOLEAN, SendReply(r, answered)
    PROVE  RelayTypes' /\ Grows
<1>1. PICK s : s = run[r] OBVIOUS
<1>2. RunOK(s) /\ s \in RunSet /\ s.job = "reply"
    BY <1>1 DEF RelayTypes, RunOK, SendReply
<1>3. PICK t : t = [s EXCEPT !.row = 0, !.at = IF answered THEN "sent" ELSE "fallback"] OBVIOUS
<1>r. s.row = 0
    BY <1>2 DEF RunOK, RunSet
<1>4. t \in RunSet /\ SameRows(s, t) /\ t.at \in {"sent", "fallback"}
    <2>1. CASE answered
        BY <1>2, <1>3, <1>r, <2>1 DEF RunSet, Place, SameRows
    <2>2. CASE ~answered
        BY <1>2, <1>3, <1>r, <2>2 DEF RunSet, Place, SameRows
    <2> QED BY <2>1, <2>2
<1>5. RunOK(t)
    BY <1>2, <1>4 DEF SameRows, RunOK
<1>6. Goes(r, t)
    BY <1>1, <1>2, <1>3 DEF SendReply, AsksBridge, Answered
<1>7. sent' \in [1..MaxRows -> 0..2]
    BY ReachOK DEF RelayTypes, SendReply, AsksBridge
<1>8. Files'
    BY <1>7 DEF SendReply, Files, RelayTypes
<1> QED BY <1>5, <1>6, <1>8, TypesGo DEF SendReply

AsksHermes(r) == \E reached, answered \in BOOLEAN : Fallback(r, reached, answered)

LEMMA FallbackIs ==
    ASSUME RelayTypes, NEW r \in Runner, AsksHermes(r)
    PROVE  /\ run[r].at = "fallback" /\ run[r].job \in {"router", "reply"}
           /\ run[r].job = "reply" => run[r].row = 0
           /\ \E t \in RunSet :
                /\ Goes(r, t) /\ SameRows(run[r], t)
                /\ t.job = "router" => t.at = "rows"
                /\ t.job = "reply" => t.at \in {"sent", "failed"}
           /\ tried' = IF run[r].job = "router" THEN tried \cup {<<0, run[r].row>>} ELSE tried
           /\ sent' \in [1..MaxRows -> 0..2]
           /\ \A j \in 1..MaxRows : j # run[r].row => sent'[j] = sent[j]
           /\ \A j \in 1..MaxRows : sent[j] <= sent'[j] /\ sent'[j] <= sent[j] + 1
           /\ UNCHANGED <<table, aliases, known, position, excused, cuts>>
<1>p. PICK reached \in BOOLEAN, answered \in BOOLEAN : Fallback(r, reached, answered)
    BY DEF AsksHermes
<1>1. PICK s : s = run[r] OBVIOUS
<1>2. RunOK(s) /\ s \in RunSet /\ s.at = "fallback" /\ s.job \in {"router", "reply"} /\ s.row \in Nat
    BY <1>1, <1>p DEF RelayTypes, RunOK, Fallback, RunSet
<1>3. PICK t : t = [s EXCEPT !.row = s.row, !.at = IF s.job = "router" THEN "rows"
                               ELSE IF answered THEN "sent" ELSE "failed"] OBVIOUS
<1>4. /\ t \in RunSet /\ SameRows(s, t)
      /\ t.job = "router" => t.at = "rows"
      /\ t.job = "reply" => t.at \in {"sent", "failed"}
    <2>1. CASE answered
        BY <1>2, <1>3, <2>1 DEF RunSet, Place, SameRows
    <2>2. CASE ~answered
        BY <1>2, <1>3, <2>2 DEF RunSet, Place, SameRows
    <2> QED BY <2>1, <2>2
<1>5. Goes(r, t)
    BY <1>1, <1>3, <1>p DEF Fallback, Answered
<1>6. s.job = "reply" => s.row = 0
    BY <1>2 DEF RunOK, RunSet
<1>7. /\ Reach(s.row, reached)
      /\ tried' = IF s.job = "router" THEN tried \cup {<<0, s.row>>} ELSE tried
      /\ UNCHANGED <<table, aliases, known, position, excused, cuts>>
    BY <1>1, <1>p DEF Fallback, Answered
<1>8. PICK i \in Nat : i = s.row
    BY <1>2
<1>9. /\ sent' \in [1..MaxRows -> 0..2]
      /\ \A j \in 1..MaxRows : j # i => sent'[j] = sent[j]
      /\ i \in 1..MaxRows => sent[i] <= sent'[i] /\ sent'[i] <= sent[i] + 1
    BY <1>7, <1>8, ReachOK DEF RelayTypes
<1>10. \A j \in 1..MaxRows : sent[j] <= sent'[j] /\ sent'[j] <= sent[j] + 1
    <2>1. \A j \in 1..MaxRows : sent[j] \in 0..2
        BY DEF RelayTypes
    <2> QED BY <1>9, <2>1
<1> QED BY <1>1, <1>2, <1>4, <1>5, <1>6, <1>7, <1>8, <1>9, <1>10

LEMMA FallbackTypes ==
    ASSUME RelayTypes, NEW r \in Runner, AsksHermes(r)
    PROVE  RelayTypes' /\ Grows
<1>1. PICK s : s = run[r] OBVIOUS
<1>2. RunOK(s) /\ s.job \in {"router", "reply"}
    BY <1>1, FallbackIs DEF RelayTypes
<1>3. PICK t \in RunSet :
        /\ Goes(r, t) /\ SameRows(run[r], t)
        /\ t.job = "router" => t.at = "rows"
        /\ t.job = "reply" => t.at \in {"sent", "failed"}
    BY FallbackIs
<1>4. RunOK(t)
    BY <1>1, <1>2, <1>3, SameRowsOK DEF SameRows
<1>5. sent' \in [1..MaxRows -> 0..2] /\ UNCHANGED <<table, aliases, known, position>>
    BY FallbackIs
<1>6. Files'
    BY <1>5 DEF Files, RelayTypes
<1> QED BY <1>3, <1>4, <1>5, <1>6, TypesGo

LEMMA NotFoundIs ==
    ASSUME RelayTypes, NEW r \in Runner, NEW i \in Nat, NotFound(r, i)
    PROVE  /\ run[r].job = "router" /\ run[r].at = "rows"
           /\ run[r].row < i /\ run[r].from < i /\ i <= run[r].upto
           /\ \A j \in Rows(run[r]) : run[r].row < j => i <= j
           /\ \E t \in RunSet :
                /\ Goes(r, t)
                /\ t.job = "router" /\ t.from = run[r].from /\ t.upto = run[r].upto
                /\ t.row = i /\ t.at = "rows"
           /\ tried' = tried \cup {<<0, i>>}
           /\ UNCHANGED <<table, aliases, known, position, sent, excused, cuts>>
<1>1. PICK s : s = run[r] OBVIOUS
<1>2. s \in RunSet /\ s.job = "router" /\ s.at = "rows"
    BY <1>1 DEF RelayTypes, NotFound, At
<1>3. At(r, i)
    BY DEF NotFound
<1>4. /\ run[r].row < i /\ run[r].from < i /\ i <= run[r].upto
      /\ \A j \in Rows(run[r]) : run[r].row < j => i <= j
    BY <1>3, NextOf
<1>5. PICK t : t = [s EXCEPT !.row = i, !.at = "rows"] OBVIOUS
<1>6. /\ t \in RunSet /\ t.row = i /\ t.job = "router" /\ t.from = s.from /\ t.upto = s.upto
      /\ t.at = "rows"
    BY <1>2, <1>5 DEF RunSet, Place
<1>7. Goes(r, t) /\ tried' = tried \cup {<<0, i>>}
    BY <1>1, <1>2, <1>5 DEF NotFound, Answered
<1> QED BY <1>1, <1>2, <1>4, <1>6, <1>7 DEF NotFound

(* The forwarder takes every row.                                          *)
Passes(r, i) ==
    TakeText(r, i) \/ Skip(r, i) \/ \E ok \in BOOLEAN : ForwardPair(r, i, ok)

PassesTo(r, i, t) ==
    /\ run[r].job = "forward" /\ run[r].at = "rows"
    /\ i = run[r].row + 1 /\ i <= run[r].upto
    /\ Goes(r, t)
    /\ t.job = "forward" /\ t.from = run[r].from /\ t.upto = run[r].upto
    /\ t.row = i /\ t.at = "rows"
    /\ Is(i, "text") => t.pending = i
    /\ tried \subseteq tried'
    /\ \A j \in Nat : <<0, j>> \in tried' => <<0, j>> \in tried
    /\ Is(i, "reply") /\ run[r].pending # 0 => <<run[r].pending, i>> \in tried'
    /\ UNCHANGED <<table, aliases, known, position, sent, excused, cuts>>

LEMMA PassesIs ==
    ASSUME RelayTypes, NEW r \in Runner, NEW i \in Nat, Passes(r, i)
    PROVE  \E t \in RunSet : PassesTo(r, i, t)
<1>1. PICK s : s = run[r] OBVIOUS
<1>2. s \in RunSet /\ s.job = "forward" /\ s.at = "rows" /\ RunOK(s)
    BY <1>1 DEF RelayTypes, Passes, TakeText, Skip, ForwardPair, At
<1>3. At(r, i)
    BY DEF Passes, TakeText, Skip, ForwardPair
<1>4. /\ s.row < i /\ s.from < i /\ i <= s.upto
      /\ \A j \in Rows(s) : s.row < j => i <= j
    BY <1>1, <1>3, NextOf
<1>5. s.row \in Nat /\ s.from \in Nat /\ s.upto \in Nat /\ s.from <= s.row
    BY <1>2 DEF RunSet, RunOK
<1>6. i = s.row + 1
    <2>1. s.row + 1 \in s.from + 1 .. s.upto
        BY <1>4, <1>5
    <2>2. s.row + 1 \in Rows(s)
        BY <1>2, <2>1 DEF Rows, Takes
    <2> QED BY <1>4, <1>5, <2>2
<1>7. UNCHANGED <<table, aliases, known, position, sent, excused, cuts>>
    BY DEF Passes, TakeText, Skip, ForwardPair
<1>8. CASE TakeText(r, i)
    <2>1. PICK t : t = [s EXCEPT !.row = i, !.pending = i] OBVIOUS
    <2>2. /\ t \in RunSet /\ t.job = "forward" /\ t.from = s.from /\ t.upto = s.upto
          /\ t.row = i /\ t.at = "rows" /\ t.pending = i
        BY <1>2, <2>1 DEF RunSet
    <2>3. Goes(r, t) /\ tried' = tried /\ ~Is(i, "reply")
        BY <1>1, <1>8, <2>1 DEF TakeText, Waits, Is
    <2> QED BY <1>1, <1>2, <1>4, <1>6, <1>7, <2>2, <2>3 DEF PassesTo
<1>9. CASE Skip(r, i)
    <2>1. PICK t : t = [s EXCEPT !.row = i] OBVIOUS
    <2>2. /\ t \in RunSet /\ t.job = "forward" /\ t.from = s.from /\ t.upto = s.upto
          /\ t.row = i /\ t.at = "rows"
        BY <1>2, <2>1 DEF RunSet
    <2>3. Goes(r, t) /\ tried' = tried /\ ~Is(i, "text") /\ ~(Is(i, "reply") /\ s.pending # 0)
        BY <1>1, <1>9, <2>1 DEF Skip, Is
    <2> QED BY <1>1, <1>2, <1>4, <1>6, <1>7, <2>2, <2>3 DEF PassesTo
<1>10. CASE \E ok \in BOOLEAN : ForwardPair(r, i, ok)
    <2>p. PICK ok \in BOOLEAN : ForwardPair(r, i, ok)
        BY <1>10
    <2>1. PICK t : t = [s EXCEPT !.row = i, !.pending = IF ok THEN 0 ELSE s.pending] OBVIOUS
    <2>2. /\ t \in RunSet /\ t.job = "forward" /\ t.from = s.from /\ t.upto = s.upto
          /\ t.row = i /\ t.at = "rows"
        <3>1. CASE ok
            BY <1>2, <2>1, <3>1 DEF RunSet
        <3>2. CASE ~ok
            BY <1>2, <2>1, <3>2 DEF RunSet
        <3> QED BY <3>1, <3>2
    <2>3. /\ Goes(r, t) /\ tried' = tried \cup {<<s.pending, i>>}
          /\ ~Is(i, "text") /\ s.pending # 0
        BY <1>1, <1>2, <2>p, <2>1 DEF ForwardPair, Is
    <2> QED BY <1>1, <1>2, <1>4, <1>6, <1>7, <2>2, <2>3 DEF PassesTo
<1> QED BY <1>8, <1>9, <1>10 DEF Passes

LEMMA NextRowTypes ==
    ASSUME RelayTypes, NEW r \in Runner, NEW i \in Nat, NotFound(r, i) \/ Passes(r, i)
    PROVE  RelayTypes' /\ Grows
<1>1. PICK s : s = run[r] OBVIOUS
<1>2. RunOK(s)
    BY <1>1 DEF RelayTypes
<1>3. PICK t \in RunSet :
        /\ Goes(r, t)
        /\ t.job = s.job /\ t.from = s.from /\ t.upto = s.upto
        /\ t.row = i /\ t.at = "rows"
    <2>1. CASE NotFound(r, i)
        BY <1>1, <2>1, NotFoundIs
    <2>2. CASE Passes(r, i)
        <3>1. PICK t \in RunSet : PassesTo(r, i, t)
            BY <2>2, PassesIs
        <3>2. /\ Goes(r, t) /\ t.job = s.job /\ t.from = s.from /\ t.upto = s.upto
              /\ t.row = i /\ t.at = "rows"
            BY <1>1, <3>1 DEF PassesTo
        <3> QED BY <3>2
    <2> QED BY <2>1, <2>2
<1>4. s.job \in {"router", "forward"} /\ s.row < i /\ i <= s.upto
    <2>1. CASE NotFound(r, i)
        BY <1>1, <2>1, NotFoundIs
    <2>2. CASE Passes(r, i)
        <3>1. PICK u \in RunSet : PassesTo(r, i, u)
            BY <2>2, PassesIs
        <3>2. s.job = "forward" /\ i = s.row + 1 /\ i <= s.upto
            BY <1>1, <3>1 DEF PassesTo
        <3> QED BY <1>2, <3>2 DEF RunOK, RunSet
    <2> QED BY <2>1, <2>2
<1>5. RunOK(t)
    BY <1>1, <1>2, <1>3, <1>4, NextRowOK
<1>6. UNCHANGED <<table, aliases, known, position, sent>>
    BY DEF NotFound, Passes, TakeText, Skip, ForwardPair
<1> QED BY <1>3, <1>5, <1>6, TypesGo, FilesSame

LEMMA SaveOpensIs ==
    ASSUME RelayTypes, NEW r \in Runner, SaveOpens(r)
    PROVE  /\ run[r].at = "rows" /\ run[r].job \in {"router", "forward"} /\ LeftOf(run[r]) = {}
           /\ \E t \in RunSet : Goes(r, t) /\ SameRows(run[r], t) /\ t.at = "saving"
           /\ position' = [position EXCEPT ![run[r].job] = Torn]
           /\ UNCHANGED <<table, aliases, known, sent, tried, excused, cuts>>
<1>1. PICK s : s = run[r] OBVIOUS
<1>2. s \in RunSet /\ s.at = "rows" /\ s.job \in {"router", "forward"} /\ LeftOf(s) = {}
    BY <1>1 DEF RelayTypes, RunOK, SaveOpens, Left, LeftOf
<1>3. PICK t : t = [s EXCEPT !.at = "saving", !.now = NoNumbers, !.pending = 0] OBVIOUS
<1>4. t \in RunSet /\ SameRows(s, t) /\ t.at = "saving"
    BY <1>2, <1>3 DEF RunSet, Place, SameRows, NoNumbers, Numbers
<1>5. Goes(r, t)
    BY <1>1, <1>3 DEF SaveOpens
<1> QED BY <1>1, <1>2, <1>4, <1>5 DEF SaveOpens

LEMMA SaveOpensTypes ==
    ASSUME RelayTypes, NEW r \in Runner, SaveOpens(r)
    PROVE  RelayTypes' /\ Grows
<1>1. PICK s : s = run[r] OBVIOUS
<1>2. RunOK(s) /\ s.job \in {"router", "forward"}
    BY <1>1, SaveOpensIs DEF RelayTypes
<1>3. PICK t \in RunSet : Goes(r, t) /\ SameRows(s, t) /\ t.at = "saving"
    BY <1>1, SaveOpensIs
<1>4. RunOK(t)
    BY <1>2, <1>3, SameRowsOK DEF SameRows
<1>5. position' = [position EXCEPT ![s.job] = Torn]
    BY <1>1, SaveOpensIs
<1>6. /\ position' \in [{"router", "forward"} -> Nat \cup {Torn}]
      /\ \A j \in {"router", "forward"} : Loaded(position'[j], 0) <= Len(table)
    <2>1. Len(table) \in Nat
        BY DEF RelayTypes
    <2> QED BY <1>2, <1>5, <2>1 DEF RelayTypes, Loaded
<1>7. UNCHANGED <<table, aliases, known, sent>>
    BY SaveOpensIs
<1>8. Files'
    BY <1>6, <1>7 DEF Files, RelayTypes, Loaded
<1> QED BY <1>3, <1>4, <1>7, <1>8, TypesGo

LEMMA SaveWritesIs ==
    ASSUME RelayTypes, NEW r \in Runner, SaveWrites(r)
    PROVE  /\ run[r].at = "saving" /\ run[r].job \in {"router", "forward"}
           /\ Goes(r, Idle)
           /\ \E p \in {run[r].row, Torn} : position' = [position EXCEPT ![run[r].job] = p]
           /\ excused \subseteq excused'
           /\ run[r].job = "router" => {i \in Sent : i > run[r].row} \subseteq excused'
           /\ UNCHANGED <<table, aliases, known, sent, tried, cuts>>
<1>1. PICK s : s = run[r] OBVIOUS
<1>2. s.at = "saving" /\ s.job \in {"router", "forward"}
    BY <1>1 DEF RelayTypes, RunOK, SaveWrites
<1>3. \E p \in {s.row, Torn} : position' = [position EXCEPT ![s.job] = p]
    BY <1>1 DEF SaveWrites, Written, Position
<1> QED BY <1>1, <1>2, <1>3 DEF SaveWrites

LEMMA SaveWritesTypes ==
    ASSUME RelayTypes, NEW r \in Runner, SaveWrites(r)
    PROVE  RelayTypes' /\ Grows
<1>1. PICK s : s = run[r] OBVIOUS
<1>2. RunOK(s) /\ s.job \in {"router", "forward"}
    BY <1>1, SaveWritesIs DEF RelayTypes
<1>3. PICK p \in {s.row, Torn} : position' = [position EXCEPT ![s.job] = p]
    BY <1>1, SaveWritesIs
<1>4. s.row \in Nat /\ s.row <= Len(table) /\ Len(table) \in Nat
    BY <1>2 DEF RunOK, RunSet, RelayTypes
<1>5. /\ position' \in [{"router", "forward"} -> Nat \cup {Torn}]
      /\ \A j \in {"router", "forward"} : Loaded(position'[j], 0) <= Len(table)
    BY <1>2, <1>3, <1>4 DEF RelayTypes, Loaded
<1>6. UNCHANGED <<table, aliases, known, sent>> /\ Goes(r, Idle)
    BY SaveWritesIs
<1>7. Files'
    BY <1>5, <1>6 DEF Files, RelayTypes, Loaded
<1>8. PICK t : t = Idle OBVIOUS
<1> QED BY <1>6, <1>7, <1>8, IdleOK, TypesGo

LEMMA AbortTypes ==
    ASSUME RelayTypes, NEW r \in Runner, Abort(r)
    PROVE  RelayTypes' /\ Grows
<1>1. UNCHANGED <<table, aliases, known, position, sent>> /\ Goes(r, Idle)
    BY DEF Abort
<1>2. PICK t : t = Idle OBVIOUS
<1> QED BY <1>1, <1>2, IdleOK, TypesGo, FilesSame

LEMMA TableTypes ==
    ASSUME RelayTypes, table' \in Seq(Row), Len(table') <= MaxRows, Grows,
           UNCHANGED <<aliases, known, position, sent>>,
           UNCHANGED run \/ \E r \in Runner : Goes(r, Idle)
    PROVE  RelayTypes'
<1>1. table \in Seq(Row) /\ run \in [Runner -> RunSet] /\ \A q \in Runner : RunOK(run[q])
    BY DEF RelayTypes
<1>2. run' \in [Runner -> RunSet] /\ (\A q \in Runner : RunOK(run[q]))'
    <2>1. CASE UNCHANGED run
        <3>1. ASSUME NEW q \in Runner PROVE RunOK(run[q])'
            <4>1. PICK u : u = run[q] OBVIOUS
            <4>2. RunOK(u)'
                BY <1>1, <4>1, RunFrame
            <4> QED BY <2>1, <4>1, <4>2 DEF RunOK, LeftOf, Rows, Takes, Is
        <3> QED BY <1>1, <2>1, <3>1
    <2>2. ASSUME NEW r \in Runner, Goes(r, Idle)
          PROVE  run' \in [Runner -> RunSet] /\ (\A q \in Runner : RunOK(run[q]))'
        <3>1. PICK t : t = Idle OBVIOUS
        <3> QED BY <1>1, <2>2, <3>1, IdleOK, OneGoes
    <2> QED BY <2>1, <2>2
<1>3. \A j \in {"router", "forward"} : Loaded(position[j], 0) <= Len(table')
    BY LoadedOK, <1>1 DEF RelayTypes, Grows
<1> QED BY <1>2, <1>3 DEF RelayTypes, Loaded

LEMMA EndReplyTypes ==
    ASSUME RelayTypes, NEW r \in Runner, EndReply(r)
    PROVE  RelayTypes' /\ Grows
<1>1. table \in Seq(Row) /\ Len(table) <= MaxRows
    BY DEF RelayTypes
<1>2. PICK row : row = [kind |-> "reply", no |-> 0] OBVIOUS
<1>3. row \in Row
    BY <1>2 DEF Row
<1>4. table' \in Seq(Row) /\ Len(table') <= MaxRows /\ Grows
    <2>1. CASE Recorded(row)
        BY <1>1, <1>3, <2>1, RecordedGrows
    <2>2. CASE UNCHANGED table
        BY <1>1, <2>2, SameGrows
    <2> QED BY <1>2, <2>1, <2>2 DEF EndReply
<1> QED BY <1>4, TableTypes DEF EndReply

LEMMA ArrivesTypes ==
    ASSUME RelayTypes, NEW row \in Row, Arrives(row)
    PROVE  RelayTypes' /\ Grows
<1>1. table' \in Seq(Row) /\ Len(table') <= MaxRows /\ Grows
    BY RecordedGrows DEF RelayTypes, Arrives
<1> QED BY <1>1, TableTypes DEF Arrives

(* What a runner may do, in the forms of the lemmas.                       *)
LEMMA WorkIs ==
    ASSUME NEW r \in Runner, Work(r)
    PROVE  \/ BeginForward(r)
           \/ \E listed \in Listing : BeginRouter(r, listed)
           \/ \E n \in Named, listed \in Listing : BeginReply(r, n, listed)
           \/ NumbersOpen(r) \/ NumbersWritten(r)
           \/ \E i \in Nat : Words(r, i) \/ Sends(r, i) \/ NotFound(r, i) \/ Passes(r, i)
           \/ \E answered \in BOOLEAN : SendReply(r, answered)
           \/ AsksHermes(r) \/ EndReply(r)
           \/ SaveOpens(r) \/ SaveWrites(r) \/ Abort(r)
BY RelayAssumption DEF Work, Sends, AsksHermes, Passes

LEMMA TypesStep ==
    ASSUME RelayTypes, [Next]_vars
    PROVE  RelayTypes' /\ Grows
<1>1. CASE UNCHANGED vars
    <2>1. table \in Seq(Row) /\ Len(table) <= MaxRows
        BY DEF RelayTypes
    <2> QED BY <1>1, <2>1, SameGrows, TableTypes DEF vars
<1>2. ASSUME NEW row \in Row, Arrives(row) PROVE RelayTypes' /\ Grows
    BY <1>2, ArrivesTypes
<1>3. ASSUME NEW r \in Runner, Work(r) PROVE RelayTypes' /\ Grows
    BY <1>3, WorkIs, BeginForwardTypes, BeginRouterTypes, BeginReplyTypes, NumbersOpenTypes,
       NumbersWrittenTypes, WordsTypes, SendCommandTypes, NextRowTypes, SendReplyTypes,
       FallbackTypes, EndReplyTypes, SaveOpensTypes, SaveWritesTypes, AbortTypes
<1> QED BY <1>1, <1>2, <1>3 DEF Next

LEMMA TypesInit == Init => RelayTypes
<1> SUFFICES ASSUME Init PROVE RelayTypes
    OBVIOUS
<1>1. NoNumbers \in Numbers
    BY DEF NoNumbers, Numbers
<1>2. Idle \in RunSet
    BY <1>1 DEF Idle, RunSet, Place, Job
<1>3. table \in Seq(Row) /\ Len(table) = 0
    BY DEF Init
<1>4. RunOK(Idle)
    BY <1>2, <1>3 DEF RunOK, Idle
<1>5. \A r \in Runner : RunOK(run[r])
    <2> TAKE r \in Runner
    <2> QED BY <1>4 DEF Init
<1>6. \A j \in {"router", "forward"} : Loaded(position[j], 0) = 0
    BY DEF Init, Loaded
<1> QED BY <1>1, <1>2, <1>3, <1>5, <1>6, RelayAssumption DEF Init, RelayTypes

(* Numbers, positions and counts are what they are for, and every run is   *)
(* within the table.                                                       *)
THEOREM RelayTypesHold == Spec => []RelayTypes
<1>1. RelayTypes /\ [Next]_vars => RelayTypes'
    BY TypesStep
<1> QED BY <1>1, TypesInit, PTL DEF Spec

(* The types as the module states them.                                    *)
THEOREM RelayTyped == Spec => []RelayTypeOK
<1>1. RelayTypes => RelayTypeOK
    BY RelayAssumption DEF RelayTypes, RelayTypeOK, Loaded, Numbers
<1> QED BY <1>1, RelayTypesHold, PTL

-----------------------------------------------------------------------------
(* What a step does to one run.                                            *)

LEMMA OthersStay ==
    ASSUME run \in [Runner -> RunSet], NEW r \in Runner, Work(r), NEW q \in Runner, q # r
    PROVE  run'[q] = run[q]
<1>1. ASSUME NEW s, Goes(r, s) PROVE run'[q] = run[q]
    BY <1>1 DEF Goes
<1>2. \E s : Goes(r, s)
    <2>1. CASE \/ BeginForward(r)
               \/ \E listed \in Listing : BeginRouter(r, listed)
               \/ \E n \in Named, listed \in Listing : BeginReply(r, n, listed)
        BY <2>1 DEF BeginForward, BeginRouter, BeginReply
    <2>2. CASE NumbersOpen(r) \/ NumbersWritten(r) \/ SaveOpens(r) \/ SaveWrites(r) \/ Abort(r)
               \/ EndReply(r)
        BY <2>2 DEF NumbersOpen, NumbersWritten, SaveOpens, SaveWrites, Abort, EndReply
    <2>3. CASE \E i \in Nat : Words(r, i) \/ Sends(r, i) \/ NotFound(r, i) \/ Passes(r, i)
        BY <2>3 DEF Words, Sends, NotFound, Passes, SendCommand, AsksBridge, Answered, TakeText,
                    Skip, ForwardPair
    <2>4. CASE AsksHermes(r) \/ \E answered \in BOOLEAN : SendReply(r, answered)
        BY <2>4 DEF AsksHermes, Fallback, SendReply, AsksBridge, Answered
    <2> QED BY <2>1, <2>2, <2>3, <2>4, WorkIs
<1> QED BY <1>1, <1>2

(* Nothing that a run remembers is forgotten.                              *)
LEMMA Remembers ==
    ASSUME RelayTypes, [Next]_vars
    PROVE  tried \subseteq tried' /\ cuts \subseteq cuts' /\ excused \subseteq excused'
<1>1. CASE UNCHANGED vars
    BY <1>1 DEF vars
<1>2. ASSUME NEW row \in Row, Arrives(row)
      PROVE  tried \subseteq tried' /\ cuts \subseteq cuts' /\ excused \subseteq excused'
    BY <1>2 DEF Arrives
<1>3. ASSUME NEW r \in Runner, Work(r)
      PROVE  tried \subseteq tried' /\ cuts \subseteq cuts' /\ excused \subseteq excused'
    <2>1. CASE \/ BeginForward(r)
               \/ \E listed \in Listing : BeginRouter(r, listed)
               \/ \E n \in Named, listed \in Listing : BeginReply(r, n, listed)
        BY <2>1 DEF BeginForward, BeginRouter, BeginReply
    <2>2. CASE NumbersOpen(r) \/ NumbersWritten(r) \/ SaveOpens(r) \/ SaveWrites(r) \/ Abort(r)
               \/ EndReply(r)
        BY <2>2 DEF NumbersOpen, NumbersWritten, SaveOpens, SaveWrites, Abort, EndReply
    <2>3. CASE \E i \in Nat : Words(r, i) \/ Sends(r, i) \/ NotFound(r, i) \/ Passes(r, i)
        BY <2>3 DEF Words, Sends, NotFound, Passes, SendCommand, AsksBridge, Answered, TakeText,
                    Skip, ForwardPair
    <2>4. CASE AsksHermes(r) \/ \E answered \in BOOLEAN : SendReply(r, answered)
        BY <2>4 DEF AsksHermes, Fallback, SendReply, AsksBridge, Answered
    <2> QED BY <1>3, <2>1, <2>2, <2>3, <2>4, WorkIs
<1> QED BY <1>1, <1>2, <1>3 DEF Next

(* A position changes only when a run saves it.                            *)
LEMMA PositionStep ==
    ASSUME RelayTypes, [Next]_vars
    PROVE  \/ UNCHANGED position
           \/ \E r \in Runner : SaveOpens(r) \/ SaveWrites(r)
<1>1. CASE UNCHANGED vars
    BY <1>1 DEF vars
<1>2. ASSUME NEW row \in Row, Arrives(row) PROVE UNCHANGED position
    BY <1>2 DEF Arrives
<1>3. ASSUME NEW r \in Runner, Work(r), ~SaveOpens(r), ~SaveWrites(r) PROVE UNCHANGED position
    <2>1. CASE \/ BeginForward(r)
               \/ \E listed \in Listing : BeginRouter(r, listed)
               \/ \E n \in Named, listed \in Listing : BeginReply(r, n, listed)
        BY <2>1 DEF BeginForward, BeginRouter, BeginReply
    <2>2. CASE NumbersOpen(r) \/ NumbersWritten(r) \/ Abort(r) \/ EndReply(r)
        BY <2>2 DEF NumbersOpen, NumbersWritten, Abort, EndReply
    <2>3. CASE \E i \in Nat : Words(r, i) \/ Sends(r, i) \/ NotFound(r, i) \/ Passes(r, i)
        BY <2>3 DEF Words, Sends, NotFound, Passes, SendCommand, TakeText, Skip, ForwardPair
    <2>4. CASE AsksHermes(r) \/ \E answered \in BOOLEAN : SendReply(r, answered)
        BY <2>4 DEF AsksHermes, Fallback, SendReply
    <2> QED BY <1>3, <2>1, <2>2, <2>3, <2>4, WorkIs
<1> QED BY <1>1, <1>2, <1>3 DEF Next

(* A step of a router that goes on without sending.                        *)
Prepares(s, u) == Routes(s) /\ Routes(u) /\ SameRows(s, u) /\ s.at # "fallback" /\ u.at # "fallback"

LEMMA RouterStep ==
    ASSUME RelayTypes, [Next]_vars, NEW q \in Runner
    PROVE  \/ run'[q] = run[q]
           \/ ~Routes(run'[q]) /\ (Routes(run[q]) => SaveWrites(q) \/ Abort(q))
           \/ Prepares(run[q], run'[q])
           \/ \E listed \in Listing : BeginRouter(q, listed)
           \/ \E i \in Nat : Sends(q, i) \/ NotFound(q, i)
           \/ AsksHermes(q) /\ run[q].job = "router"
<1> DEFINE Goal == \/ run'[q] = run[q]
                   \/ ~Routes(run'[q]) /\ (Routes(run[q]) => SaveWrites(q) \/ Abort(q))
                   \/ Prepares(run[q], run'[q])
                   \/ \E listed \in Listing : BeginRouter(q, listed)
                   \/ \E i \in Nat : Sends(q, i) \/ NotFound(q, i)
                   \/ AsksHermes(q) /\ run[q].job = "router"
<1>0. run \in [Runner -> RunSet] /\ RunOK(run[q])
    BY DEF RelayTypes
<1>g. ASSUME NEW s, Goes(q, s) PROVE run'[q] = s
    BY <1>0, <1>g DEF Goes
<1>1. CASE UNCHANGED vars
    BY <1>1 DEF vars
<1>2. ASSUME NEW row \in Row, Arrives(row) PROVE Goal
    BY <1>2 DEF Arrives
<1>3. ASSUME NEW r \in Runner, Work(r), r # q PROVE Goal
    BY <1>0, <1>3, OthersStay
<1>4. ASSUME Work(q) PROVE Goal
    <2>1. ASSUME BeginForward(q) PROVE Goal
        <3>1. run'[q].job = "forward"
            BY <1>g, <2>1 DEF BeginForward, NewRun, Idle
        <3> QED BY <2>1, <3>1 DEF Routes, BeginForward, Starts
    <2>2. ASSUME \E n \in Named, listed \in Listing : BeginReply(q, n, listed) PROVE Goal
        <3>1. run'[q].job = "reply"
            BY <1>g, <2>2 DEF BeginReply, Numbering, NewRun, Idle
        <3> QED BY <2>2, <3>1 DEF Routes, BeginReply, Starts
    <2>3. ASSUME NumbersOpen(q) PROVE Goal
        <3>1. run'[q] = [run[q] EXCEPT !.at = "numbers"]
            BY <1>g, <2>3 DEF NumbersOpen
        <3>2. SameRows(run[q], run'[q]) /\ run[q].at = "numbering" /\ run'[q].at = "numbers"
            BY <1>0, <2>3, <3>1 DEF SameRows, RunSet, NumbersOpen
        <3> QED BY <3>2 DEF Prepares, Routes, SameRows
    <2>4. ASSUME NumbersWritten(q) PROVE Goal
        <3>1. PICK now : now = Refreshed(run[q].read, run[q].listed) OBVIOUS
        <3>2. run'[q] = [run[q] EXCEPT !.at = IF run[q].job = "router" THEN "rows" ELSE "reply",
                              !.listed = {}, !.read = NoNumbers, !.now = now]
            BY <1>g, <2>4, <3>1 DEF NumbersWritten
        <3>3. SameRows(run[q], run'[q]) /\ run[q].at = "numbers" /\ run'[q].at \in {"rows", "reply"}
            BY <1>0, <2>4, <3>2 DEF SameRows, RunSet, NumbersWritten
        <3> QED BY <3>3 DEF Prepares, Routes, SameRows
    <2>5. ASSUME NEW i \in Nat, Words(q, i) PROVE Goal
        <3>1. run'[q] = IF i = 0 THEN [run[q] EXCEPT !.at = "worded", !.no = 0, !.now = NoNumbers]
                        ELSE [run[q] EXCEPT !.at = "worded"]
            BY <1>g, <2>5 DEF Words
        <3>2. SameRows(run[q], run'[q]) /\ run[q].at \in {"rows", "reply"} /\ run'[q].at = "worded"
            BY <1>0, <2>5, <3>1 DEF SameRows, RunSet, Words, At
        <3> QED BY <3>2 DEF Prepares, Routes, SameRows
    <2>6. ASSUME NEW i \in Nat, Passes(q, i) PROVE Goal
        <3>1. PICK t \in RunSet : PassesTo(q, i, t)
            BY <2>6, PassesIs
        <3>2. run'[q] = t /\ t.job = "forward" /\ run[q].job = "forward"
            BY <1>g, <3>1 DEF PassesTo
        <3> QED BY <3>2 DEF Routes
    <2>7. ASSUME NEW answered \in BOOLEAN, SendReply(q, answered) PROVE Goal
        <3>1. PICK a, b : run'[q] = [run[q] EXCEPT !.row = 0, !.at = b]
            BY <1>g, <2>7 DEF SendReply, AsksBridge, Answered
        <3>2. run'[q].job = "reply"
            BY <1>0, <2>7, <3>1 DEF SendReply, RunSet
        <3> QED BY <2>7, <3>2 DEF Routes, SendReply
    <2>8. ASSUME AsksHermes(q) PROVE Goal
        <3>1. PICK t \in RunSet : Goes(q, t) /\ SameRows(run[q], t)
            BY <2>8, FallbackIs
        <3>2. run'[q].job = run[q].job
            BY <1>g, <3>1 DEF SameRows
        <3> QED BY <2>8, <3>2 DEF Routes
    <2>9. ASSUME EndReply(q) \/ SaveWrites(q) \/ Abort(q) PROVE Goal
        <3>1. run'[q] = Idle
            BY <1>g, <2>9 DEF EndReply, SaveWrites, Abort
        <3> QED BY <2>9, <3>1 DEF Routes, Idle, EndReply
    <2>10. ASSUME SaveOpens(q) PROVE Goal
        <3>1. PICK t \in RunSet : Goes(q, t) /\ SameRows(run[q], t) /\ t.at = "saving"
            BY <2>10, SaveOpensIs
        <3>2. run'[q] = t /\ run[q].at = "rows"
            BY <1>g, <2>10, <3>1 DEF SaveOpens
        <3> QED BY <3>1, <3>2 DEF Prepares, Routes, SameRows
    <2> QED BY <1>4, WorkIs, <2>1, <2>2, <2>3, <2>4, <2>5, <2>6, <2>7, <2>8, <2>9, <2>10
<1> QED BY <1>1, <1>2, <1>3, <1>4 DEF Next

-----------------------------------------------------------------------------
(* Numbers stay.                                                           *)

LEMMA KnownStep ==
    ASSUME RelayTypes, [Next]_vars, known' # known
    PROVE  \E r \in Runner : NumbersWritten(r)
<1>1. CASE UNCHANGED vars
    BY <1>1 DEF vars
<1>2. ASSUME NEW row \in Row, Arrives(row) PROVE UNCHANGED known
    BY <1>2 DEF Arrives
<1>3. ASSUME NEW r \in Runner, Work(r), ~NumbersWritten(r) PROVE UNCHANGED known
    <2>1. CASE \/ BeginForward(r)
               \/ \E listed \in Listing : BeginRouter(r, listed)
               \/ \E n \in Named, listed \in Listing : BeginReply(r, n, listed)
        BY <2>1 DEF BeginForward, BeginRouter, BeginReply
    <2>2. CASE NumbersOpen(r) \/ Abort(r) \/ EndReply(r) \/ SaveOpens(r) \/ SaveWrites(r)
        BY <2>2 DEF NumbersOpen, Abort, EndReply, SaveOpens, SaveWrites
    <2>3. CASE \E i \in Nat : Words(r, i) \/ Sends(r, i) \/ NotFound(r, i) \/ Passes(r, i)
        BY <2>3 DEF Words, Sends, NotFound, Passes, SendCommand, TakeText, Skip, ForwardPair
    <2>4. CASE AsksHermes(r) \/ \E answered \in BOOLEAN : SendReply(r, answered)
        BY <2>4 DEF AsksHermes, Fallback, SendReply
    <2> QED BY <1>3, <2>1, <2>2, <2>3, <2>4, WorkIs
<1> QED BY <1>1, <1>2, <1>3 DEF Next

LEMMA NumbersStep ==
    ASSUME RelayTypes, [Next]_vars, NEW n \in Number, known[n] # Nobody, known'[n] # known[n]
    PROVE  \E r \in Runner :
             /\ run[r].at = "numbers" /\ run'[r].at # "numbers"
             /\ known[n] \notin run[r].listed \/ run[r].read # known
<1>1. PICK r \in Runner : NumbersWritten(r)
    BY KnownStep
<1>2. run \in [Runner -> RunSet]
    BY DEF RelayTypes
<1>3. run[r].at = "numbers" /\ run'[r].at # "numbers"
    BY <1>1, <1>2 DEF NumbersWritten, Goes, RunSet
<1>4. PICK read : read = run[r].read OBVIOUS
<1>5. PICK listed : listed = run[r].listed OBVIOUS
<1>6. read \in Numbers /\ listed \in SUBSET Contact
    BY <1>2, <1>4, <1>5 DEF RunSet
<1>7. known' = Refreshed(read, listed)
    BY <1>1, <1>4, <1>5 DEF NumbersWritten
<1>8. ASSUME read = known, known[n] \in listed PROVE FALSE
    BY <1>6, <1>7, <1>8, RefreshedOK
<1> QED BY <1>3, <1>4, <1>5, <1>8

(* A number goes on naming the contact it names while that is listed,      *)
(* however many runs refresh the numbers, unless a run read others than    *)
(* the last ones (refresh_aliases).                                        *)
THEOREM NumbersKept == Spec => NumbersStay
<1>1. RelayTypes /\ [Next]_vars =>
        [\A n \in Number :
         known[n] # Nobody /\ known'[n] # known[n] =>
           \E r \in Runner :
             /\ run[r].at = "numbers" /\ run'[r].at # "numbers"
             /\ known[n] \notin run[r].listed \/ run[r].read # known]_vars
    BY NumbersStep
<1> QED BY <1>1, RelayTypesHold, PTL DEF Spec, NumbersStay

-----------------------------------------------------------------------------
(* No command is passed over.                                              *)

LEMMA GrowsCommands ==
    ASSUME RelayTypes, RelayTypes', Grows
    PROVE  /\ \A i \in Commands : i \in Nat /\ 0 < i
           /\ Commands \subseteq Commands'
           /\ \A i \in Commands' : i <= Len(table) => i \in Commands
<1>1. table \in Seq(Row) /\ table' \in Seq(Row)
    BY DEF RelayTypes
<1> QED BY <1>1 DEF Grows, Commands, Is

LEMMA HandledFrame ==
    ASSUME RelayTypes, RelayTypes', Grows, tried \subseteq tried',
           NEW s, RunOK(s), HandledOK(s)
    PROVE  HandledOK(s)'
<1>1. \A i \in Commands' : Behind(s, i) => i \in Commands
    <2>1. /\ s.row \in Nat /\ s.upto \in Nat /\ s.row <= s.upto /\ s.upto <= Len(table)
          /\ Len(table) \in Nat
        BY DEF RunOK, RunSet, RelayTypes
    <2>2. \A i \in Commands' : i \in Nat
        BY DEF Commands
    <2> QED BY <2>1, <2>2, GrowsCommands DEF Behind
<1> QED BY <1>1 DEF HandledOK

LEMMA HandledGo ==
    ASSUME RelayTypes, RelayTypes', Grows, tried \subseteq tried', RouterInv, NEW q \in Runner,
           [Next]_vars
    PROVE  \A i \in Commands : Routes(run'[q]) /\ Behind(run'[q], i) => <<0, i>> \in tried'
<1> DEFINE Goal == \A i \in Commands :
                     Routes(run'[q]) /\ Behind(run'[q], i) => <<0, i>> \in tried'
<1>0. run \in [Runner -> RunSet] /\ RunOK(run[q]) /\ HandledOK(run[q])
    BY DEF RelayTypes, RouterInv
<1>c. \A i \in Commands : i \in Nat /\ 0 < i /\ i \in 1..Len(table) /\ Is(i, "command")
    BY DEF Commands, Is
<1>g. ASSUME NEW s, Goes(q, s) PROVE run'[q] = s
    BY <1>0, <1>g DEF Goes
<1>1. ASSUME run'[q] = run[q] PROVE Goal
    BY <1>0, <1>1 DEF HandledOK
<1>2. ASSUME ~Routes(run'[q]) PROVE Goal
    BY <1>2
<1>3. ASSUME Prepares(run[q], run'[q]) PROVE Goal
    BY <1>0, <1>3 DEF HandledOK, Prepares, SameRows, Behind
<1>4. ASSUME NEW listed \in Listing, BeginRouter(q, listed) PROVE Goal
    <2>1. PICK from : from = Loaded(position["router"], 0) OBVIOUS
    <2>2. from \in Nat
        BY <2>1, LoadedOK
    <2>3. run'[q].row = from
        BY <1>g, <1>4, <2>1 DEF BeginRouter, Numbering, NewRun, Idle
    <2>4. \A i \in Commands : i <= from => <<0, i>> \in tried
        BY <1>c, <2>1 DEF RouterInv, NothingSkipped
    <2> QED BY <1>c, <2>2, <2>3, <2>4 DEF Behind
<1>5. ASSUME NEW i \in Nat, Sends(q, i) PROVE Goal
    <2>1. PICK t \in RunSet :
            /\ Goes(q, t)
            /\ t.job = "router" /\ t.from = run[q].from /\ t.upto = run[q].upto
            /\ t.row = i /\ t.at \in {"rows", "fallback"}
            /\ t.at = "rows" => tried' = tried \cup {<<0, i>>}
        BY <1>5, SendCommandIs
    <2>2. /\ run[q].job = "router" /\ run[q].at = "worded" /\ run[q].row < i /\ i <= run[q].upto
          /\ \A j \in Rows(run[q]) : run[q].row < j => i <= j
        BY <1>5, SendCommandIs
    <2>3. run[q].row \in Nat /\ run[q].from \in Nat /\ run[q].upto \in Nat
          /\ run[q].from <= run[q].row
        BY <1>0 DEF RunOK, RunSet
    <2>4. \A j \in Commands : j < i => j <= run[q].row
        BY <1>c, <2>2, <2>3 DEF Rows, Takes
    <2>5. \A j \in Commands : j < i => <<0, j>> \in tried
        BY <1>0, <1>c, <2>2, <2>3, <2>4 DEF HandledOK, Routes, Behind
    <2> QED BY <1>g, <2>1, <2>5 DEF Behind
<1>6. ASSUME NEW i \in Nat, NotFound(q, i) PROVE Goal
    <2>1. PICK t \in RunSet :
            /\ Goes(q, t)
            /\ t.job = "router" /\ t.from = run[q].from /\ t.upto = run[q].upto
            /\ t.row = i /\ t.at = "rows"
        BY <1>6, NotFoundIs
    <2>2. /\ run[q].job = "router" /\ run[q].at = "rows" /\ run[q].row < i /\ i <= run[q].upto
          /\ \A j \in Rows(run[q]) : run[q].row < j => i <= j
          /\ tried' = tried \cup {<<0, i>>}
        BY <1>6, NotFoundIs
    <2>3. run[q].row \in Nat /\ run[q].from \in Nat /\ run[q].upto \in Nat
          /\ run[q].from <= run[q].row
        BY <1>0 DEF RunOK, RunSet
    <2>4. \A j \in Commands : j < i => j <= run[q].row
        BY <1>c, <2>2, <2>3 DEF Rows, Takes
    <2>5. \A j \in Commands : j < i => <<0, j>> \in tried
        BY <1>0, <1>c, <2>2, <2>3, <2>4 DEF HandledOK, Routes, Behind
    <2> QED BY <1>g, <2>1, <2>2, <2>5 DEF Behind
<1>7. ASSUME AsksHermes(q), run[q].job = "router" PROVE Goal
    <2>1. PICK t \in RunSet : Goes(q, t) /\ SameRows(run[q], t)
        BY <1>7, FallbackIs
    <2>2. tried' = tried \cup {<<0, run[q].row>>} /\ run[q].at = "fallback"
        BY <1>7, FallbackIs
    <2>3. \A j \in Commands : j < run[q].row => <<0, j>> \in tried
        BY <1>0, <1>7, <2>2 DEF HandledOK, Routes, Behind
    <2> QED BY <1>g, <2>1, <2>2, <2>3 DEF Behind, SameRows
<1> QED BY RouterStep, <1>1, <1>2, <1>3, <1>4, <1>5, <1>6, <1>7

(* The table grows beside what the router and the forwarder do.            *)
LEMMA TableStep ==
    ASSUME RelayTypes, [Next]_vars
    PROVE  \/ UNCHANGED table
           \/ /\ UNCHANGED <<position, sent, tried, excused, cuts>>
              /\ \A q \in Runner : \/ run'[q] = run[q]
                                   \/ run[q].job = "reply" /\ run'[q] = Idle
<1>0. run \in [Runner -> RunSet]
    BY DEF RelayTypes
<1>1. CASE UNCHANGED vars
    BY <1>1 DEF vars
<1>2. ASSUME NEW row \in Row, Arrives(row)
      PROVE  UNCHANGED <<position, run, sent, tried, excused, cuts>>
    BY <1>2 DEF Arrives
<1>3. ASSUME NEW r \in Runner, EndReply(r)
      PROVE  /\ UNCHANGED <<position, sent, tried, excused, cuts>>
             /\ \A q \in Runner : \/ run'[q] = run[q]
                                  \/ run[q].job = "reply" /\ run'[q] = Idle
    BY <1>0, <1>3 DEF EndReply, Goes
<1>4. ASSUME NEW r \in Runner, Work(r), ~EndReply(r) PROVE UNCHANGED table
    <2>1. CASE \/ BeginForward(r)
               \/ \E listed \in Listing : BeginRouter(r, listed)
               \/ \E n \in Named, listed \in Listing : BeginReply(r, n, listed)
        BY <2>1 DEF BeginForward, BeginRouter, BeginReply
    <2>2. CASE NumbersOpen(r) \/ NumbersWritten(r) \/ Abort(r) \/ SaveOpens(r) \/ SaveWrites(r)
        BY <2>2 DEF NumbersOpen, NumbersWritten, Abort, SaveOpens, SaveWrites
    <2>3. CASE \E i \in Nat : Words(r, i) \/ Sends(r, i) \/ NotFound(r, i) \/ Passes(r, i)
        BY <2>3 DEF Words, Sends, NotFound, Passes, SendCommand, TakeText, Skip, ForwardPair
    <2>4. CASE AsksHermes(r) \/ \E answered \in BOOLEAN : SendReply(r, answered)
        BY <2>4 DEF AsksHermes, Fallback, SendReply
    <2> QED BY <1>4, <2>1, <2>2, <2>3, <2>4, WorkIs
<1> QED BY <1>1, <1>2, <1>3, <1>4 DEF Next

LEMMA PositionBound ==
    ASSUME RelayTypes, RelayTypes', [Next]_vars, NEW j \in {"router", "forward"}
    PROVE  /\ Loaded(position'[j], 0) \in Nat
           /\ \/ position'[j] = position[j]
              \/ position'[j] = Torn
              \/ \E r \in Runner : /\ SaveWrites(r) /\ run[r].job = j
                                   /\ position'[j] = run[r].row
<1>0. position \in [{"router", "forward"} -> Nat \cup {Torn}]
    BY DEF RelayTypes
<1>1. Loaded(position'[j], 0) \in Nat
    BY DEF RelayTypes, Loaded
<1>2. ASSUME NEW r \in Runner, SaveOpens(r) PROVE position'[j] = position[j] \/ position'[j] = Torn
    BY <1>0, <1>2 DEF SaveOpens
<1>3. ASSUME NEW r \in Runner, SaveWrites(r)
      PROVE  \/ position'[j] = position[j] \/ position'[j] = Torn
             \/ run[r].job = j /\ position'[j] = run[r].row
    <2>1. PICK p \in {run[r].row, Torn} : position' = [position EXCEPT ![run[r].job] = p]
        BY <1>3, SaveWritesIs
    <2> QED BY <1>0, <2>1
<1> QED BY <1>1, <1>2, <1>3, PositionStep

LEMMA RouterInvStep ==
    ASSUME RelayTypes, RouterInv, [Next]_vars
    PROVE  RouterInv'
<1>1. RelayTypes' /\ Grows /\ tried \subseteq tried'
    BY TypesStep, Remembers
<1>2. ASSUME NEW q \in Runner PROVE HandledOK(run[q])'
    <2>1. CASE UNCHANGED table
        <3>1. Commands' = Commands
            BY <2>1 DEF Commands, Is
        <3>2. \A i \in Commands : Routes(run'[q]) /\ Behind(run'[q], i) => <<0, i>> \in tried'
            BY <1>1, HandledGo
        <3> QED BY <3>1, <3>2 DEF HandledOK, Routes, Behind
    <2>2. CASE run'[q] = run[q]
        <3>1. PICK u : u = run[q] OBVIOUS
        <3>2. RunOK(u) /\ HandledOK(u)
            BY <3>1 DEF RelayTypes, RouterInv
        <3>3. HandledOK(u)'
            BY <1>1, <3>2, HandledFrame
        <3> QED BY <2>2, <3>1, <3>3 DEF HandledOK, Routes, Behind, Commands, Is
    <2>3. CASE run'[q] = Idle
        BY <2>3 DEF HandledOK, Routes, Idle
    <2> QED BY <2>1, <2>2, <2>3, TableStep
<1>3. ASSUME NEW i \in 1..Len(table'), Is(i, "command")', i <= Loaded(position'["router"], 0)
      PROVE  <<0, i>> \in tried'
    <2>1. i \in Nat /\ 0 < i
        OBVIOUS
    <2>2. CASE position'["router"] = position["router"]
        <3>1. i <= Len(table) /\ Len(table) \in Nat
            BY <1>3, <2>1, <2>2, LoadedOK DEF RelayTypes
        <3>2. i \in 1..Len(table) /\ Is(i, "command")
            BY <1>1, <1>3, <2>1, <3>1, GrowsIs DEF RelayTypes
        <3> QED BY <1>1, <1>3, <2>2, <3>2 DEF RouterInv, NothingSkipped
    <2>3. CASE position'["router"] = Torn
        BY <1>3, <2>1, <2>3, RelayAssumption DEF Loaded
    <2>4. ASSUME NEW r \in Runner, SaveWrites(r), run[r].job = "router",
                 position'["router"] = run[r].row
          PROVE  <<0, i>> \in tried'
        <3>1. /\ RunOK(run[r]) /\ HandledOK(run[r]) /\ run[r].at = "saving"
              /\ run[r].row \in Nat /\ Len(table) \in Nat /\ run[r].row <= Len(table)
            BY <2>4 DEF RelayTypes, RouterInv, SaveWrites, RunOK, RunSet
        <3>2. i <= run[r].row
            BY <1>3, <2>4, <3>1, RelayAssumption DEF Loaded
        <3>3. i \in 1..Len(table) /\ Is(i, "command")
            BY <1>1, <1>3, <2>1, <3>1, <3>2, GrowsIs DEF RelayTypes
        <3>4. i \in Commands /\ Behind(run[r], i)
            BY <2>1, <3>1, <3>2, <3>3 DEF Commands, Behind
        <3> QED BY <1>1, <2>4, <3>1, <3>4 DEF HandledOK, Routes
    <2> QED BY <1>1, <2>2, <2>3, <2>4, PositionBound
<1> QED BY <1>2, <1>3 DEF RouterInv, NothingSkipped

LEMMA RouterInvInit == Init => RouterInv
<1> SUFFICES ASSUME Init PROVE RouterInv
    OBVIOUS
<1>1. NothingSkipped
    BY DEF Init, NothingSkipped
<1>2. \A r \in Runner : HandledOK(run[r])
    BY DEF Init, HandledOK, Routes, Idle
<1> QED BY <1>1, <1>2 DEF RouterInv

(* However many runs of the router overlap, end early or read a position   *)
(* that is being written: no command of an admin is passed over.           *)
THEOREM CommandsHandled == Spec => []NothingSkipped
<1>1. RelayTypes /\ RouterInv /\ [Next]_vars => RouterInv'
    BY RouterInvStep
<1>2. RouterInv => NothingSkipped
    BY DEF RouterInv
<1> QED BY <1>1, <1>2, RouterInvInit, RelayTypesHold, PTL DEF Spec

-----------------------------------------------------------------------------
(* Pairs are forwarded.                                                    *)
Forwards(s) == s.job = "forward" /\ s.at # "idle"

LEMMA ForwardStep ==
    ASSUME RelayTypes, [Next]_vars, NEW q \in Runner
    PROVE  \/ run'[q] = run[q]
           \/ ~Forwards(run'[q])
           \/ BeginForward(q)
           \/ \E i \in Nat : Passes(q, i)
           \/ SaveOpens(q)
<1> DEFINE Goal == \/ run'[q] = run[q]
                   \/ ~Forwards(run'[q])
                   \/ BeginForward(q)
                   \/ \E i \in Nat : Passes(q, i)
                   \/ SaveOpens(q)
<1>0. run \in [Runner -> RunSet] /\ RunOK(run[q])
    BY DEF RelayTypes
<1>g. ASSUME NEW s, Goes(q, s) PROVE run'[q] = s
    BY <1>0, <1>g DEF Goes
<1>1. CASE UNCHANGED vars
    BY <1>1 DEF vars
<1>2. ASSUME NEW row \in Row, Arrives(row) PROVE Goal
    BY <1>2 DEF Arrives
<1>3. ASSUME NEW r \in Runner, Work(r), r # q PROVE Goal
    BY <1>0, <1>3, OthersStay
<1>4. ASSUME Work(q) PROVE Goal
    <2>1. ASSUME NEW listed \in Listing, BeginRouter(q, listed) PROVE Goal
        <3>1. run'[q].job = "router"
            BY <1>g, <2>1 DEF BeginRouter, Numbering, NewRun, Idle
        <3> QED BY <3>1 DEF Forwards
    <2>2. ASSUME \E n \in Named, listed \in Listing : BeginReply(q, n, listed) PROVE Goal
        <3>1. run'[q].job = "reply"
            BY <1>g, <2>2 DEF BeginReply, Numbering, NewRun, Idle
        <3> QED BY <3>1 DEF Forwards
    <2>3. ASSUME NumbersOpen(q) PROVE Goal
        <3>1. run'[q].job = run[q].job /\ run[q].job # "forward"
            BY <1>0, <1>g, <2>3 DEF NumbersOpen, RunOK, RunSet
        <3> QED BY <3>1 DEF Forwards
    <2>4. ASSUME NumbersWritten(q) PROVE Goal
        <3>1. PICK now : now = Refreshed(run[q].read, run[q].listed) OBVIOUS
        <3>2. run'[q] = [run[q] EXCEPT !.at = IF run[q].job = "router" THEN "rows" ELSE "reply",
                              !.listed = {}, !.read = NoNumbers, !.now = now]
            BY <1>g, <2>4, <3>1 DEF NumbersWritten
        <3>3. run'[q].job = run[q].job /\ run[q].job # "forward"
            BY <1>0, <2>4, <3>2 DEF RunOK, RunSet, NumbersWritten
        <3> QED BY <3>3 DEF Forwards
    <2>5. ASSUME NEW i \in Nat, Words(q, i) PROVE Goal
        <3>1. run'[q] = IF i = 0 THEN [run[q] EXCEPT !.at = "worded", !.no = 0, !.now = NoNumbers]
                        ELSE [run[q] EXCEPT !.at = "worded"]
            BY <1>g, <2>5 DEF Words
        <3>2. run'[q].job = run[q].job /\ run[q].job # "forward"
            BY <1>0, <2>5, <3>1 DEF RunOK, RunSet, Words, At
        <3> QED BY <3>2 DEF Forwards
    <2>6. ASSUME NEW i \in Nat, Sends(q, i) PROVE Goal
        <3>1. PICK t \in RunSet : Goes(q, t) /\ t.job = "router"
            BY <2>6, SendCommandIs
        <3> QED BY <1>g, <3>1 DEF Forwards
    <2>7. ASSUME NEW i \in Nat, NotFound(q, i) PROVE Goal
        <3>1. PICK t \in RunSet : Goes(q, t) /\ t.job = "router"
            BY <2>7, NotFoundIs
        <3> QED BY <1>g, <3>1 DEF Forwards
    <2>8. ASSUME NEW answered \in BOOLEAN, SendReply(q, answered) PROVE Goal
        <3>1. PICK b : run'[q] = [run[q] EXCEPT !.row = 0, !.at = b]
            BY <1>g, <2>8 DEF SendReply, AsksBridge, Answered
        <3>2. run'[q].job = "reply"
            BY <1>0, <2>8, <3>1 DEF SendReply, RunSet
        <3> QED BY <3>2 DEF Forwards
    <2>9. ASSUME AsksHermes(q) PROVE Goal
        <3>1. PICK t \in RunSet : Goes(q, t) /\ SameRows(run[q], t)
            BY <2>9, FallbackIs
        <3>2. run'[q].job = run[q].job /\ run[q].job # "forward"
            BY <1>g, <2>9, <3>1, FallbackIs DEF SameRows
        <3> QED BY <3>2 DEF Forwards
    <2>10. ASSUME EndReply(q) \/ SaveWrites(q) \/ Abort(q) PROVE Goal
        <3>1. run'[q] = Idle
            BY <1>g, <2>10 DEF EndReply, SaveWrites, Abort
        <3> QED BY <3>1 DEF Forwards, Idle
    <2> QED BY <1>4, WorkIs, <2>1, <2>2, <2>3, <2>4, <2>5, <2>6, <2>7, <2>8, <2>9, <2>10
<1> QED BY <1>1, <1>2, <1>3, <1>4 DEF Next

(* The two parts of PairsOK.                                               *)
PairsBehind(s) == \A i \in 1..Len(table) : Pair(i) /\ i + 1 <= s.row => PairDone(i)
TextWaits(s) == s.at = "rows" /\ Is(s.row, "text") => s.pending = s.row \/ s.row \in cuts

(* A row is a message of the user, an answer, or a command.                *)
LEMMA OneKind ==
    ASSUME NEW i, Is(i, "text")
    PROVE  ~Is(i, "reply")
BY DEF Is

LEMMA PairsFrame ==
    ASSUME RelayTypes, RelayTypes', Grows, tried \subseteq tried', cuts \subseteq cuts',
           NEW s, RunOK(s), PairsOK(s)
    PROVE  PairsOK(s)'
<1> SUFFICES ASSUME Forwards(s) PROVE PairsBehind(s)' /\ TextWaits(s)'
    BY DEF PairsOK, PairsBehind, TextWaits, Forwards
<1>1. /\ s.row \in Nat /\ s.row <= Len(table) /\ Len(table) \in Nat /\ Len(table') \in Nat
      /\ Len(table) <= Len(table')
    BY DEF RunOK, RunSet, RelayTypes, Grows
<1>2. PairsBehind(s) /\ TextWaits(s)
    BY DEF PairsOK, PairsBehind, TextWaits, Forwards
<1>3. \A i : i <= Len(table) => /\ (Is(i, "text")' <=> Is(i, "text"))
                                /\ (Is(i, "reply")' <=> Is(i, "reply"))
    BY GrowsIs DEF RelayTypes
<1>4. ASSUME NEW i \in 1..Len(table'), Pair(i)', i + 1 <= s.row PROVE PairDone(i)'
    <2>1. i \in 1..Len(table) /\ i <= Len(table) /\ i + 1 <= Len(table)
        BY <1>1, <1>4
    <2>2. Pair(i)
        BY <1>3, <1>4, <2>1 DEF Pair
    <2>3. PairDone(i)
        BY <1>2, <1>4, <2>1, <2>2 DEF PairsBehind
    <2> QED BY <2>3 DEF PairDone
<1>5. TextWaits(s)'
    BY <1>1, <1>2, <1>3 DEF TextWaits
<1> QED BY <1>4, <1>5 DEF PairsBehind

LEMMA PairsGo ==
    ASSUME RelayTypes, RelayTypes', UNCHANGED table, ForwardInv, NEW q \in Runner, [Next]_vars,
           Forwards(run'[q]), run'[q] # run[q]
    PROVE  /\ \A i \in 1..Len(table) : Pair(i) /\ i + 1 <= run'[q].row =>
                <<i, i + 1>> \in tried' \/ i \in cuts'
           /\ run'[q].at = "rows" /\ Is(run'[q].row, "text") =>
                run'[q].pending = run'[q].row \/ run'[q].row \in cuts'
<1>0. run \in [Runner -> RunSet] /\ RunOK(run[q]) /\ PairsOK(run[q])
    BY DEF RelayTypes, ForwardInv
<1>m. tried \subseteq tried' /\ cuts \subseteq cuts'
    BY Remembers
<1>g. ASSUME NEW s, Goes(q, s) PROVE run'[q] = s
    BY <1>0, <1>g DEF Goes
<1>1. CASE BeginForward(q)
    <2>1. PICK from : from = Loaded(position["forward"], 0) OBVIOUS
    <2>2. run'[q].row = from
        BY <1>g, <1>1, <2>1 DEF BeginForward, NewRun, Idle
    <2>3. \A i \in 1..Len(table) : Pair(i) /\ i + 1 <= from => PairDone(i)
        BY <2>1 DEF ForwardInv, PairsForwarded, Pair, PairDone
    <2>4. Is(from, "text") => from \in cuts'
        BY <1>1, <2>1 DEF BeginForward
    <2> QED BY <1>m, <2>2, <2>3, <2>4 DEF PairDone
<1>2. ASSUME NEW i \in Nat, Passes(q, i)
      PROVE  /\ \A j \in 1..Len(table) : Pair(j) /\ j + 1 <= run'[q].row =>
                   <<j, j + 1>> \in tried' \/ j \in cuts'
             /\ run'[q].at = "rows" /\ Is(run'[q].row, "text") =>
                   run'[q].pending = run'[q].row \/ run'[q].row \in cuts'
    <2>1. PICK t \in RunSet : PassesTo(q, i, t)
        BY <1>2, PassesIs
    <2>2. run'[q] = t /\ t.row = i
        BY <1>g, <2>1 DEF PassesTo
    <2>3. /\ run[q].job = "forward" /\ run[q].at = "rows" /\ i = run[q].row + 1
          /\ Is(i, "text") => t.pending = i
          /\ Is(i, "reply") /\ run[q].pending # 0 => <<run[q].pending, i>> \in tried'
        BY <2>1 DEF PassesTo
    <2>4. PairsBehind(run[q]) /\ TextWaits(run[q])
        BY <1>0, <2>3 DEF PairsOK, PairsBehind, TextWaits
    <2>5. run[q].row \in Nat
        BY <1>0 DEF RunSet
    <2>6. ASSUME NEW j \in 1..Len(table), Pair(j), j + 1 <= i
          PROVE  <<j, j + 1>> \in tried' \/ j \in cuts'
        <3>1. CASE j + 1 <= run[q].row
            BY <1>m, <2>4, <2>6, <3>1 DEF PairsBehind, PairDone
        <3>2. CASE ~(j + 1 <= run[q].row)
            <4>1. j = run[q].row /\ j + 1 = i /\ j # 0
                BY <2>3, <2>5, <2>6, <3>2
            <4>2. Is(run[q].row, "text") /\ Is(i, "reply")
                BY <2>6, <4>1 DEF Pair
            <4>3. run[q].pending = j \/ j \in cuts
                BY <2>3, <2>4, <4>1, <4>2 DEF TextWaits
            <4> QED BY <1>m, <2>3, <4>1, <4>2, <4>3
        <3> QED BY <3>1, <3>2
    <2> QED BY <2>2, <2>3, <2>6
<1>3. CASE SaveOpens(q)
    <2>1. PICK t \in RunSet : Goes(q, t) /\ SameRows(run[q], t) /\ t.at = "saving"
        BY <1>3, SaveOpensIs
    <2>2. run'[q] = t
        BY <1>g, <2>1
    <2>3. PairsBehind(run[q]) /\ t.row = run[q].row
        BY <1>0, <1>3, <2>1, <2>2 DEF PairsOK, PairsBehind, SaveOpens, SameRows, Forwards
    <2> QED BY <1>m, <2>1, <2>2, <2>3 DEF PairsBehind, PairDone
<1> QED BY ForwardStep, <1>1, <1>2, <1>3

LEMMA ForwardInvStep ==
    ASSUME RelayTypes, ForwardInv, [Next]_vars
    PROVE  ForwardInv'
<1>1. RelayTypes' /\ Grows /\ tried \subseteq tried' /\ cuts \subseteq cuts'
    BY TypesStep, Remembers
<1>2. ASSUME NEW q \in Runner PROVE PairsOK(run[q])'
    <2>1. CASE run'[q] = run[q]
        <3>1. PICK u : u = run[q] OBVIOUS
        <3>2. RunOK(u) /\ PairsOK(u)
            BY <3>1 DEF RelayTypes, ForwardInv
        <3>3. PairsOK(u)'
            BY <1>1, <3>2, PairsFrame
        <3> QED BY <2>1, <3>1, <3>3 DEF PairsOK, Pair, PairDone, Is
    <2>2. CASE ~Forwards(run'[q])
        BY <2>2 DEF PairsOK, Forwards
    <2>3. CASE UNCHANGED table /\ Forwards(run'[q]) /\ run'[q] # run[q]
        <3>1. /\ \A i \in 1..Len(table) : Pair(i) /\ i + 1 <= run'[q].row =>
                   <<i, i + 1>> \in tried' \/ i \in cuts'
              /\ run'[q].at = "rows" /\ Is(run'[q].row, "text") =>
                   run'[q].pending = run'[q].row \/ run'[q].row \in cuts'
            BY <1>1, <2>3, PairsGo
        <3> QED BY <2>3, <3>1 DEF PairsOK, Pair, PairDone, Is
    <2>4. CASE run'[q] = Idle
        BY <2>4 DEF PairsOK, Idle
    <2> QED BY <2>1, <2>2, <2>3, <2>4, TableStep
<1>3. ASSUME NEW i \in 1..Len(table'), Pair(i)', i + 1 <= Loaded(position'["forward"], 0)
      PROVE  PairDone(i)'
    <2>0. \A k : k <= Len(table) => /\ (Is(k, "text")' <=> Is(k, "text"))
                                    /\ (Is(k, "reply")' <=> Is(k, "reply"))
        BY <1>1, GrowsIs DEF RelayTypes
    <2>1. i \in Nat /\ 0 < i /\ Len(table) \in Nat
        BY DEF RelayTypes
    <2>2. CASE position'["forward"] = position["forward"]
        <3>1. i + 1 <= Len(table)
            BY <1>3, <2>1, <2>2, LoadedOK
        <3>2. i \in 1..Len(table) /\ Pair(i)
            BY <1>3, <2>0, <2>1, <3>1 DEF Pair
        <3> QED BY <1>1, <1>3, <2>2, <3>2 DEF ForwardInv, PairsForwarded, Pair, PairDone
    <2>3. CASE position'["forward"] = Torn
        BY <1>3, <2>1, <2>3, RelayAssumption DEF Loaded
    <2>4. ASSUME NEW r \in Runner, SaveWrites(r), run[r].job = "forward",
                 position'["forward"] = run[r].row
          PROVE  PairDone(i)'
        <3>1. /\ PairsBehind(run[r]) /\ run[r].row \in Nat /\ run[r].row <= Len(table)
            BY <2>4 DEF RelayTypes, ForwardInv, SaveWrites, RunOK, RunSet, PairsOK, PairsBehind
        <3>2. i + 1 <= run[r].row
            BY <1>3, <2>4, <3>1, RelayAssumption DEF Loaded
        <3>3. i \in 1..Len(table) /\ Pair(i)
            BY <1>3, <2>0, <2>1, <3>1, <3>2 DEF Pair
        <3> QED BY <1>1, <3>1, <3>2, <3>3 DEF PairsBehind, PairDone
    <2> QED BY <1>1, <2>2, <2>3, <2>4, PositionBound
<1>4. PairsForwarded'
    BY <1>3 DEF PairsForwarded, Pair, PairDone
<1> QED BY <1>2, <1>4 DEF ForwardInv

LEMMA ForwardInvInit == Init => ForwardInv
<1> SUFFICES ASSUME Init PROVE ForwardInv
    OBVIOUS
<1>1. PairsForwarded
    BY DEF Init, PairsForwarded
<1>2. \A r \in Runner : PairsOK(run[r])
    BY DEF Init, PairsOK, Idle
<1> QED BY <1>1, <1>2 DEF ForwardInv

(* A message and the answer next to it are sent on together by some run of *)
(* the forwarder, unless one began between the two.                        *)
THEOREM PairsSentOn == Spec => []PairsForwarded
<1>1. RelayTypes /\ ForwardInv /\ [Next]_vars => ForwardInv'
    BY ForwardInvStep
<1>2. ForwardInv => PairsForwarded
    BY DEF ForwardInv
<1> QED BY <1>1, <1>2, ForwardInvInit, RelayTypesHold, PTL DEF Spec

-----------------------------------------------------------------------------
(* What is sent again is excused.                                          *)

(* The router that sends a command has taken it up and not yet behind it.  *)
Sending(r, i) ==
    /\ run[r].job = "router"
    /\ \/ Sends(r, i)
       \/ AsksHermes(r) /\ run[r].row = i

LEMMA SendingIs ==
    ASSUME RelayTypes, NEW r \in Runner, NEW i \in Nat, Sending(r, i)
    PROVE  /\ Routes(run[r]) /\ i \in Commands
           /\ TakesUp(run[r], i) /\ Before(run[r], i)
<1>0. RunOK(run[r]) /\ run[r].row \in Nat /\ run[r].upto \in Nat /\ Len(table) \in Nat
    BY DEF RelayTypes, RunOK, RunSet
<1>1. CASE Sends(r, i)
    <2>1. /\ run[r].at = "worded" /\ Is(i, "command")
          /\ run[r].row < i /\ run[r].from < i /\ i <= run[r].upto
        BY <1>1, SendCommandIs
    <2> QED BY <1>0, <2>1 DEF Sending, Routes, Commands, Is, TakesUp, Before, Behind
<1>2. CASE AsksHermes(r) /\ run[r].row = i
    <2>1. run[r].at = "fallback" /\ run[r].job = "router"
        BY <1>2, FallbackIs DEF Sending
    <2>2. run[r].from < i /\ i <= run[r].upto /\ Is(i, "command")
        BY <1>0, <1>2, <2>1 DEF RunOK
    <2> QED BY <1>0, <1>2, <2>1, <2>2 DEF Routes, Commands, Is, TakesUp, Before, Behind
<1> QED BY <1>1, <1>2 DEF Sending

LEMMA SentStep ==
    ASSUME RelayTypes, [Next]_vars, NEW i \in 1..MaxRows, sent'[i] # sent[i]
    PROVE  /\ \E r \in Runner : Sending(r, i)
           /\ sent'[i] <= sent[i] + 1
<1>0. sent \in [1..MaxRows -> 0..2] /\ i \in Nat /\ i # 0
    BY DEF RelayTypes
<1>1. CASE UNCHANGED vars
    BY <1>1 DEF vars
<1>2. ASSUME NEW row \in Row, Arrives(row) PROVE FALSE
    BY <1>2 DEF Arrives
<1>3. ASSUME NEW r \in Runner, Work(r) PROVE Sending(r, i) /\ sent'[i] <= sent[i] + 1
    <2>1. CASE \/ BeginForward(r)
               \/ \E listed \in Listing : BeginRouter(r, listed)
               \/ \E n \in Named, listed \in Listing : BeginReply(r, n, listed)
        BY <2>1 DEF BeginForward, BeginRouter, BeginReply
    <2>2. CASE NumbersOpen(r) \/ NumbersWritten(r) \/ Abort(r) \/ SaveOpens(r) \/ SaveWrites(r)
               \/ EndReply(r)
        BY <2>2 DEF NumbersOpen, NumbersWritten, Abort, SaveOpens, SaveWrites, EndReply
    <2>3. ASSUME NEW k \in Nat, Words(r, k) \/ NotFound(r, k) \/ Passes(r, k) PROVE FALSE
        BY <2>3 DEF Words, NotFound, Passes, TakeText, Skip, ForwardPair
    <2>4. ASSUME NEW k \in Nat, Sends(r, k) PROVE Sending(r, i) /\ sent'[i] <= sent[i] + 1
        <3>1. /\ run[r].job = "router"
              /\ \A j \in 1..MaxRows : j # k => sent'[j] = sent[j]
              /\ k \in 1..MaxRows => sent'[k] <= sent[k] + 1
            BY <2>4, SendCommandIs
        <3>2. i = k
            BY <3>1
        <3> QED BY <2>4, <3>1, <3>2 DEF Sending
    <2>5. ASSUME AsksHermes(r) PROVE Sending(r, i) /\ sent'[i] <= sent[i] + 1
        <3>1. /\ run[r].job \in {"router", "reply"}
              /\ run[r].job = "reply" => run[r].row = 0
              /\ \A j \in 1..MaxRows : j # run[r].row => sent'[j] = sent[j]
              /\ \A j \in 1..MaxRows : sent'[j] <= sent[j] + 1
            BY <2>5, FallbackIs
        <3>2. i = run[r].row
            BY <3>1
        <3> QED BY <1>0, <2>5, <3>1, <3>2 DEF Sending
    <2>6. ASSUME NEW answered \in BOOLEAN, SendReply(r, answered) PROVE FALSE
        BY <2>6 DEF SendReply, AsksBridge, Reach
    <2> QED BY <1>3, <2>1, <2>2, <2>3, <2>4, <2>5, <2>6, WorkIs
<1> QED BY <1>1, <1>2, <1>3 DEF Next

(* A router goes on from where it began, or has just begun, or ends.       *)
LEMMA RouterGoes ==
    ASSUME RelayTypes, [Next]_vars, NEW q \in Runner, Routes(run[q]) \/ Routes(run'[q])
    PROVE  \/ /\ Routes(run[q]) /\ Routes(run'[q])
              /\ run'[q].from = run[q].from /\ run'[q].upto = run[q].upto
              /\ run[q].row <= run'[q].row
              /\ \A i \in Nat : Before(run'[q], i) => Before(run[q], i)
           \/ ~Routes(run[q]) /\ \E listed \in Listing : BeginRouter(q, listed)
           \/ ~Routes(run'[q]) /\ (SaveWrites(q) \/ Abort(q))
<1> DEFINE On == /\ Routes(run[q]) /\ Routes(run'[q])
                 /\ run'[q].from = run[q].from /\ run'[q].upto = run[q].upto
                 /\ run[q].row <= run'[q].row
                 /\ \A i \in Nat : Before(run'[q], i) => Before(run[q], i)
<1>0. run \in [Runner -> RunSet] /\ RunOK(run[q]) /\ run[q].row \in Nat
    BY DEF RelayTypes, RunSet
<1>g. ASSUME NEW s, Goes(q, s) PROVE run'[q] = s
    BY <1>0, <1>g DEF Goes
<1>1. ASSUME run'[q] = run[q] PROVE On
    BY <1>0, <1>1
<1>2. ASSUME Prepares(run[q], run'[q]) PROVE On
    BY <1>0, <1>2 DEF Prepares, SameRows, Before, Behind
<1>3. ASSUME NEW listed \in Listing, BeginRouter(q, listed) PROVE ~Routes(run[q])
    BY <1>3 DEF BeginRouter, Starts, Routes
<1>4. ASSUME NEW i \in Nat, Sends(q, i) PROVE On
    <2>1. PICK t \in RunSet :
            /\ Goes(q, t)
            /\ t.job = "router" /\ t.from = run[q].from /\ t.upto = run[q].upto
            /\ t.row = i /\ t.at \in {"rows", "fallback"}
        BY <1>4, SendCommandIs
    <2>2. run[q].job = "router" /\ run[q].at = "worded" /\ run[q].row < i
        BY <1>4, SendCommandIs
    <2>3. run'[q] = t
        BY <1>g, <2>1
    <2>4. \A j \in Nat : Before(t, j) => Before(run[q], j)
        BY <1>0, <2>1, <2>2 DEF Before, Behind
    <2> QED BY <1>0, <2>1, <2>2, <2>3, <2>4 DEF Routes
<1>5. ASSUME NEW i \in Nat, NotFound(q, i) PROVE On
    <2>1. PICK t \in RunSet :
            /\ Goes(q, t)
            /\ t.job = "router" /\ t.from = run[q].from /\ t.upto = run[q].upto
            /\ t.row = i /\ t.at = "rows"
        BY <1>5, NotFoundIs
    <2>2. run[q].job = "router" /\ run[q].at = "rows" /\ run[q].row < i
        BY <1>5, NotFoundIs
    <2>3. run'[q] = t
        BY <1>g, <2>1
    <2>4. \A j \in Nat : Before(t, j) => Before(run[q], j)
        BY <1>0, <2>1, <2>2 DEF Before, Behind
    <2> QED BY <1>0, <2>1, <2>2, <2>3, <2>4 DEF Routes
<1>6. ASSUME AsksHermes(q), run[q].job = "router" PROVE On
    <2>1. PICK t \in RunSet : Goes(q, t) /\ SameRows(run[q], t) /\ (t.job = "router" => t.at = "rows")
        BY <1>6, FallbackIs
    <2>2. run'[q] = t /\ run[q].at = "fallback" /\ t.job = "router" /\ t.at = "rows"
        BY <1>g, <1>6, <2>1, FallbackIs DEF SameRows
    <2>3. \A j \in Nat : Before(t, j) => Before(run[q], j)
        BY <1>0, <2>1, <2>2 DEF Before, Behind, SameRows
    <2> QED BY <1>0, <1>6, <2>1, <2>2, <2>3 DEF Routes, SameRows
<1>7. CASE ~Routes(run'[q]) /\ (Routes(run[q]) => SaveWrites(q) \/ Abort(q))
    BY <1>7
<1> QED BY RouterStep, <1>1, <1>2, <1>3, <1>4, <1>5, <1>6, <1>7

(* A router that begins has before it what the position says, and what     *)
(* another has taken up it does not know of.                               *)
LEMMA BeginRouterIs ==
    ASSUME RelayTypes, SentInv, NEW q \in Runner, NEW listed \in Listing, BeginRouter(q, listed)
    PROVE  /\ UNCHANGED <<table, position, sent>>
           /\ \A r \in Runner : \A i \in Commands :
                Routes(run[r]) /\ TakesUp(run[r], i) /\ TakesUp(run'[q], i) => i \in excused'
           /\ \A i \in Sent : Before(run'[q], i) => i \in excused'
<1>0. run \in [Runner -> RunSet]
    BY DEF RelayTypes
<1>1. PICK from : from = Loaded(position["router"], 0) OBVIOUS
<1>2. from \in Nat
    BY <1>1, LoadedOK
<1>3. run'[q].from = from /\ run'[q].row = from /\ run'[q].at = "numbering"
    BY <1>0, <1>1 DEF BeginRouter, Goes, Numbering, NewRun, Idle
<1>4. excused' = excused \cup Unseen(from) \cup (IF position["router"] = Torn THEN Sent ELSE {})
    BY <1>1 DEF BeginRouter
<1>5. ASSUME NEW r \in Runner, NEW i \in Commands, Routes(run[r]), from < i, i <= run[r].upto
      PROVE  i \in excused'
    BY <1>4, <1>5 DEF Unseen, Routes
<1>6. \A r \in Runner : \A i \in Commands :
        Routes(run[r]) /\ TakesUp(run[r], i) /\ TakesUp(run'[q], i) => i \in excused'
    BY <1>3, <1>5 DEF TakesUp
<1>7. ASSUME NEW i \in Sent, Before(run'[q], i) PROVE i \in excused'
    <2>1. i \in Commands /\ i \in Nat /\ from < i
        BY <1>2, <1>3, <1>7 DEF Sent, Commands, Before, Behind
    <2>2. CASE i \in excused
        BY <1>4, <2>2
    <2>3. CASE position["router"] = Torn
        BY <1>4, <2>3
    <2>4. CASE position["router"] # Torn /\ i <= position["router"]
        BY <1>1, <1>2, <2>1, <2>4 DEF Loaded
    <2>5. ASSUME NEW r \in Runner, Routes(run[r]), i <= run[r].row PROVE i \in excused'
        <3>1. run[r].row \in Nat /\ run[r].upto \in Nat /\ run[r].row <= run[r].upto
            BY DEF RelayTypes, RunOK, RunSet
        <3> QED BY <1>5, <2>1, <2>5, <3>1
    <2> QED BY <2>2, <2>3, <2>4, <2>5 DEF SentInv, SentBehind
<1> QED BY <1>6, <1>7 DEF BeginRouter

(* Nothing that a router has sent, or will, is missed: what it sends now   *)
(* has been sent before only if it is excused.                             *)
LEMMA SentAgain ==
    ASSUME RelayTypes, SentInv, [Next]_vars, NEW i \in 1..MaxRows, sent'[i] # sent[i]
    PROVE  /\ i \in Commands
           /\ sent[i] > 0 => i \in excused
           /\ \E r \in Runner :
                /\ Sending(r, i) /\ Routes(run[r])
                /\ \A q \in Runner : q # r /\ Routes(run[q]) /\ Before(run[q], i) => i \in excused
<1>1. PICK r \in Runner : Sending(r, i)
    BY SentStep
<1>2. Routes(run[r]) /\ i \in Commands /\ TakesUp(run[r], i) /\ Before(run[r], i)
    BY <1>1, SendingIs
<1>3. sent[i] > 0 => i \in excused
    BY <1>2 DEF SentInv, UnsentOK, Sent
<1>4. ASSUME NEW q \in Runner, q # r, Routes(run[q]), Before(run[q], i) PROVE i \in excused
    <2>1. RunOK(run[q]) /\ run[q].from \in Nat /\ run[q].row \in Nat /\ run[q].upto \in Nat
        BY DEF RelayTypes, RunOK, RunSet
    <2>2. TakesUp(run[q], i)
        BY <1>4, <2>1 DEF RunOK, Routes, Before, Behind, TakesUp
    <2> QED BY <1>2, <1>4, <2>2 DEF SentInv, ApartOK
<1> QED BY <1>1, <1>2, <1>3, <1>4

LEMMA UnsentStep ==
    ASSUME RelayTypes, SentInv, [Next]_vars, NEW q \in Runner, NEW i \in 1..MaxRows,
           sent'[i] > 0, Routes(run'[q]), Before(run'[q], i)
    PROVE  i \in excused'
<1>0. /\ run \in [Runner -> RunSet] /\ sent \in [1..MaxRows -> 0..2] /\ i \in Nat
      /\ excused \subseteq excused'
    BY Remembers DEF RelayTypes
<1>g. ASSUME NEW s, Goes(q, s) PROVE run'[q] = s
    BY <1>0, <1>g DEF Goes
<1>1. CASE sent'[i] = sent[i]
    <2>1. i \in Sent
        BY <1>1 DEF SentInv, Sent
    <2>2. CASE Routes(run[q]) /\ Before(run[q], i)
        BY <1>0, <2>1, <2>2 DEF SentInv, UnsentOK
    <2>3. ASSUME NEW listed \in Listing, BeginRouter(q, listed) PROVE i \in excused'
        BY <2>1, <2>3, BeginRouterIs
    <2> QED BY <1>0, <2>2, <2>3, RouterGoes
<1>2. CASE sent'[i] # sent[i]
    <2>1. PICK r \in Runner :
            /\ Sending(r, i) /\ Routes(run[r])
            /\ \A p \in Runner : p # r /\ Routes(run[p]) /\ Before(run[p], i) => i \in excused
        BY <1>2, SentAgain
    <2>2. UNCHANGED position /\ ~\E listed \in Listing : BeginRouter(q, listed)
        BY <1>2, <2>1, BeginRouterIs, SendCommandIs, FallbackIs DEF Sending
    <2>3. Routes(run[q]) /\ Before(run[q], i)
        BY <1>0, <2>2, RouterGoes
    <2>4. CASE q # r
        BY <1>0, <2>1, <2>3, <2>4
    <2>5. CASE q = r /\ Sends(r, i)
        <3>1. PICK t \in RunSet :
                /\ Goes(q, t) /\ t.row = i /\ t.at \in {"rows", "fallback"}
                /\ t.at = "fallback" => sent' = sent \/ i \in excused'
            BY <1>0, <2>5, SendCommandIs
        <3>2. t.at = "fallback"
            BY <1>g, <3>1 DEF Before, Behind
        <3> QED BY <1>2, <3>1, <3>2
    <2>6. CASE q = r /\ AsksHermes(r) /\ run[r].row = i
        <3>1. PICK t \in RunSet :
                /\ Goes(q, t) /\ SameRows(run[q], t)
                /\ t.job = "router" => t.at = "rows"
            BY <2>6, FallbackIs
        <3>2. t.row = i /\ t.at = "rows"
            BY <2>3, <2>6, <3>1 DEF SameRows, Routes
        <3>3. Behind(t, i)
            BY <3>2 DEF Behind
        <3> QED BY <1>g, <3>1, <3>3 DEF Before
    <2> QED BY <2>1, <2>4, <2>5, <2>6 DEF Sending
<1> QED BY <1>1, <1>2

LEMMA ApartStep ==
    ASSUME RelayTypes, SentInv, [Next]_vars, NEW q \in Runner, NEW r \in Runner, q # r,
           NEW i \in Commands, Routes(run'[q]), Routes(run'[r]),
           TakesUp(run'[q], i), TakesUp(run'[r], i)
    PROVE  i \in excused'
<1>0. excused \subseteq excused' /\ run \in [Runner -> RunSet]
    BY Remembers DEF RelayTypes
<1>1. ASSUME NEW p \in Runner, Routes(run'[p]), TakesUp(run'[p], i)
      PROVE  \/ Routes(run[p]) /\ TakesUp(run[p], i)
             \/ \E listed \in Listing : BeginRouter(p, listed)
    BY <1>1, RouterGoes DEF TakesUp
<1>2. ASSUME NEW p \in Runner, NEW o \in Runner, o # p, NEW listed \in Listing,
             BeginRouter(p, listed)
      PROVE  run'[o] = run[o]
    BY <1>0, <1>2 DEF BeginRouter, Goes
<1>3. CASE Routes(run[q]) /\ TakesUp(run[q], i) /\ Routes(run[r]) /\ TakesUp(run[r], i)
    BY <1>0, <1>3 DEF SentInv, ApartOK
<1>4. ASSUME NEW listed \in Listing, BeginRouter(q, listed) PROVE i \in excused'
    BY <1>2, <1>4, BeginRouterIs
<1>5. ASSUME NEW listed \in Listing, BeginRouter(r, listed) PROVE i \in excused'
    BY <1>2, <1>5, BeginRouterIs
<1> QED BY <1>1, <1>3, <1>4, <1>5

LEMMA SentBehindStep ==
    ASSUME RelayTypes, SentInv, [Next]_vars, NEW i \in Commands, sent'[i] > 0, i \in 1..MaxRows
    PROVE  \/ i \in excused'
           \/ position'["router"] = Torn
           \/ i <= position'["router"]
           \/ \E r \in Runner : Routes(run'[r]) /\ run'[r].from < i /\ i <= run'[r].row
<1> DEFINE Goal == \/ i \in excused'
                   \/ position'["router"] = Torn
                   \/ i <= position'["router"]
                   \/ \E r \in Runner : Routes(run'[r]) /\ run'[r].from < i /\ i <= run'[r].row
<1>0. /\ run \in [Runner -> RunSet] /\ i \in Nat /\ excused \subseteq excused'
      /\ position \in [{"router", "forward"} -> Nat \cup {Torn}] /\ RelayTypes'
    BY Remembers, TypesStep DEF RelayTypes
<1>1. CASE sent'[i] # sent[i]
    <2>1. PICK r \in Runner : Sending(r, i) /\ Routes(run[r])
        BY <1>1, SentAgain
    <2>2. TakesUp(run[r], i)
        BY <2>1, SendingIs
    <2>g. ASSUME NEW s, Goes(r, s) PROVE run'[r] = s
        BY <1>0, <2>g DEF Goes
    <2>3. /\ Routes(run'[r]) /\ run'[r].row = i
        <3>1. CASE Sends(r, i)
            <4>1. PICK t \in RunSet :
                    Goes(r, t) /\ t.job = "router" /\ t.row = i /\ t.at \in {"rows", "fallback"}
                BY <1>0, <3>1, SendCommandIs
            <4> QED BY <2>g, <4>1 DEF Routes
        <3>2. CASE AsksHermes(r) /\ run[r].row = i
            <4>1. PICK t \in RunSet :
                    /\ Goes(r, t) /\ SameRows(run[r], t)
                    /\ t.job = "router" => t.at = "rows"
                BY <3>2, FallbackIs
            <4> QED BY <2>1, <2>g, <3>2, <4>1 DEF Routes, SameRows
        <3> QED BY <2>1, <3>1, <3>2 DEF Sending
    <2>4. run'[r].from < i
        BY <2>1, <2>2, <2>3, RouterGoes DEF TakesUp
    <2>5. i <= run'[r].row
        BY <1>0, <2>3
    <2> QED BY <2>3, <2>4, <2>5
<1>2. CASE sent'[i] = sent[i]
    <2>1. i \in Sent
        BY <1>2 DEF Sent
    <2>2. ASSUME NEW r \in Runner, SaveWrites(r), run[r].job = "router" PROVE Goal
        <3>1. PICK p \in {run[r].row, Torn} : position' = [position EXCEPT !["router"] = p]
            BY <2>2, SaveWritesIs
        <3>2. run[r].row \in Nat /\ {k \in Sent : k > run[r].row} \subseteq excused'
            BY <2>2, SaveWritesIs DEF RelayTypes, RunSet
        <3> QED BY <1>0, <2>1, <3>1, <3>2
    <2>3. CASE \A r \in Runner : SaveWrites(r) => run[r].job # "router"
        <3>1. position'["router"] \in {position["router"], Torn}
            BY <1>0, <2>3, PositionBound
        <3>2. CASE i \in excused \/ position["router"] = Torn \/ i <= position["router"]
            BY <1>0, <3>1, <3>2
        <3>3. ASSUME NEW r \in Runner, Routes(run[r]), run[r].from < i, i <= run[r].row PROVE Goal
            <4>1. ASSUME Routes(run'[r]), run'[r].from = run[r].from, run[r].row <= run'[r].row
                  PROVE  Goal
                <5>1. run[r].row \in Nat /\ run'[r].row \in Nat
                    BY <1>0 DEF RelayTypes, RunSet
                <5> QED BY <1>0, <3>3, <4>1, <5>1
            <4>2. ASSUME Abort(r) PROVE Goal
                BY <2>1, <3>3, <4>2 DEF Abort, Routes
            <4>3. ~SaveWrites(r)
                BY <2>3, <3>3 DEF Routes
            <4> QED BY <3>3, <4>1, <4>2, <4>3, RouterGoes
        <3> QED BY <2>1, <3>2, <3>3 DEF SentInv, SentBehind
    <2> QED BY <2>2, <2>3
<1> QED BY <1>1, <1>2

LEMMA SentInvStep ==
    ASSUME RelayTypes, SentInv, [Next]_vars
    PROVE  SentInv'
<1>1. RelayTypes' /\ Grows /\ excused \subseteq excused'
    BY TypesStep, Remembers
<1>2. Commands \subseteq Commands' /\ \A i \in Commands' : i <= Len(table) => i \in Commands
    BY <1>1, GrowsCommands
<1>3. sent \in [1..MaxRows -> 0..2] /\ sent' \in [1..MaxRows -> 0..2]
    BY <1>1 DEF RelayTypes
<1>4. ASSUME NEW i \in 1..MaxRows, sent'[i] > 0 PROVE i \in Commands
    <2>1. CASE sent'[i] = sent[i]
        BY <1>4, <2>1 DEF SentInv
    <2>2. CASE sent'[i] # sent[i]
        BY <2>2, SentAgain
    <2> QED BY <2>1, <2>2
<1>5. \A i \in Commands' : i \in 1..MaxRows
    BY <1>1, RelayAssumption DEF Commands, RelayTypes
<1>6. ASSUME NEW i \in 1..MaxRows, sent'[i] = 2 PROVE i \in excused'
    <2>1. CASE sent'[i] = sent[i]
        BY <1>1, <1>6, <2>1 DEF SentInv, ResentExplained
    <2>2. CASE sent'[i] # sent[i]
        <3>1. sent[i] > 0
            BY <1>3, <1>6, <2>2, SentStep
        <3> QED BY <1>1, <2>2, <3>1, SentAgain
    <2> QED BY <2>1, <2>2
<1>7. ASSUME NEW q \in Runner PROVE UnsentOK(run[q])'
    BY <1>5, UnsentStep DEF UnsentOK, Sent, Routes, Before, Behind
<1>8. ASSUME NEW q \in Runner, NEW r \in Runner, q # r PROVE ApartOK(run[q], run[r])'
    <2>1. ASSUME NEW i \in Commands', Routes(run'[q]), Routes(run'[r]),
                 TakesUp(run'[q], i), TakesUp(run'[r], i)
          PROVE  i \in excused'
        <3>1. i <= Len(table)
            <4>1. /\ run[q].upto \in Nat /\ run[q].upto <= Len(table)
                  /\ Len(table) \in Nat
                BY DEF RelayTypes, RunOK, RunSet
            <4>2. CASE UNCHANGED table
                BY <4>1, <4>2 DEF Commands
            <4>3. CASE run'[q] = run[q]
                BY <1>5, <2>1, <4>1, <4>3 DEF TakesUp
            <4>4. CASE run'[q] = Idle
                BY <2>1, <4>4 DEF Routes, Idle
            <4> QED BY <4>2, <4>3, <4>4, TableStep
        <3>2. i \in Commands
            BY <1>2, <3>1
        <3> QED BY <1>8, <2>1, <3>2, ApartStep
    <2> QED BY <2>1 DEF ApartOK, Routes, TakesUp
<1>9. ASSUME NEW i \in Sent'
      PROVE  \/ i \in excused'
             \/ position'["router"] = Torn
             \/ i <= position'["router"]
             \/ \E r \in Runner : Routes(run'[r]) /\ run'[r].from < i /\ i <= run'[r].row
    <2>1. i \in 1..MaxRows /\ sent'[i] > 0
        BY <1>5 DEF Sent
    <2>2. i \in Commands
        BY <1>4, <2>1
    <2> QED BY <2>1, <2>2, SentBehindStep
<1>10. SentBehind'
    BY <1>9 DEF SentBehind, Routes
<1>11. ResentExplained'
    BY <1>6 DEF ResentExplained
<1>12. \A i \in 1..MaxRows : sent'[i] > 0 => i \in Commands'
    BY <1>2, <1>4
<1> QED BY <1>7, <1>8, <1>10, <1>11, <1>12 DEF SentInv

LEMMA SentInvInit == Init => SentInv
<1> SUFFICES ASSUME Init PROVE SentInv
    OBVIOUS
<1>1. \A i \in 1..MaxRows : sent[i] = 0
    BY DEF Init
<1>2. ResentExplained /\ \A i \in 1..MaxRows : ~(sent[i] > 0)
    BY <1>1 DEF ResentExplained
<1>3. SentBehind
    BY DEF Init, SentBehind, Sent, Commands
<1>4. \A r \in Runner : UnsentOK(run[r])
    BY DEF Init, UnsentOK, Routes, Idle
<1>5. \A q, r \in Runner : q # r => ApartOK(run[q], run[r])
    BY DEF Init, ApartOK, Routes, Idle
<1> QED BY <1>2, <1>3, <1>4, <1>5 DEF SentInv

(* A command reaches its contact twice only if the bridge did not answer,  *)
(* a run that had sent it ended early, two runs overlapped, or the file of *)
(* positions was read while it was being written.                          *)
THEOREM ResendsExplained == Spec => []ResentExplained
<1>1. RelayTypes /\ SentInv /\ [Next]_vars => SentInv'
    BY SentInvStep
<1>2. SentInv => ResentExplained
    BY DEF SentInv
<1> QED BY <1>1, <1>2, SentInvInit, RelayTypesHold, PTL DEF Spec

=============================================================================
