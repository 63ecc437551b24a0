---------------------- MODULE TranslationMemoryProofs ----------------------
(***************************************************************************)
(* For any number of messages, texts, threads and crashes: the types of    *)
(* the translations kept in files, that the memory's file follows the      *)
(* instance that saved last, and that a correction in the cache is undone  *)
(* only by who had read before it.                                         *)
(***************************************************************************)
EXTENDS TranslationMemory, TLAPS, FiniteSetTheorems

Kinds == {"ai", "human", None}
Made == UNION {[D -> Kinds] : D \in SUBSET Message}

ThState == [at : {"new", "asking", "model", "saving", "writing", "reading", "putting", "done"},
            job : {"translate", "backfill", "correct", None},
            todo : SUBSET Message, made : Made, text : Texts \cup {None},
            data : Dict, saw : SUBSET Message]

Types ==
    /\ process \in {"standalone", "legacy"}
    /\ file \in Dict
    /\ torn \in BOOLEAN
    /\ known \in [Instance -> Dict \cup {None}]
    /\ cache \in [Message -> Kinds]
    /\ th \in [Thread -> ThState]

(* One thread at a time has the file open.                                 *)
OneWriter ==
    /\ torn <=> \E t \in Thread : th[t].at = "writing"
    /\ \A t, u \in Thread : th[t].at = "writing" /\ th[u].at = "writing" => t = u

(* Whoever asks the model or saves has loaded the memory.                  *)
LoadedFirst ==
    \A t \in Thread : th[t].at \in {"model", "saving", "writing"} =>
        known[Uses(t)] \in Dict /\ th[t].text \in Texts

(* What is being written is the dict of the instance, or another of its    *)
(* threads has changed that since and is about to save.                    *)
WritesNewest ==
    \A t \in Thread : th[t].at = "writing" =>
        \/ th[t].data = known[Uses(t)]
        \/ \E u \in Thread : Uses(u) = Uses(t) /\ th[u].at = "saving"

SaverKept ==
    saver # None => saver \in Instance /\ known[saver] \in Dict

(* In the legacy console, a thread that has read a correction in the memory *)
(* has it in what it makes; one that has read it in the cache puts it back. *)
SawMemory(t) ==
    /\ known[t] = None => DOMAIN th[t].made = {} /\ th[t].saw = {}
    /\ \A m \in th[t].saw : known[t][Source[m]] = "human"
    /\ \A m \in DOMAIN th[t].made :
         known[t][Source[m]] = "human" => th[t].made[m] = "human"

SawOne(t) ==
    /\ process = "legacy" /\ th[t].at \in {"asking", "model", "saving", "writing"}
         => SawMemory(t)
    /\ process = "legacy" /\ th[t].at = "model" => known[t][th[t].text] = None
    /\ th[t].at = "putting" =>
         /\ th[t].todo \subseteq DOMAIN th[t].made
         /\ \A m \in th[t].todo : m \in th[t].saw => th[t].made[m] = "human"

SawKept == \A t \in Thread : SawOne(t)

MemoryInv ==
    /\ Types /\ OneWriter /\ LoadedFirst /\ WritesNewest
    /\ SaverKept /\ MemoryFollowsLastSaver

-----------------------------------------------------------------------------
LEMMA MadeFrom ==
    ASSUME NEW D \in SUBSET Message, NEW f \in [D -> Kinds]
    PROVE  f \in Made
  BY DEF Made

LEMMA MadeDomain ==
    ASSUME NEW f \in Made
    PROVE  /\ DOMAIN f \in SUBSET Message
           /\ \A m \in DOMAIN f : f[m] \in Kinds
  BY DEF Made

LEMMA UsesInstance == ASSUME NEW t \in Thread PROVE Uses(t) \in Instance
  BY DEF Uses, Instance

LEMMA EmptyDict == Empty \in Dict
  BY DEF Empty, Dict

LEMMA NewState == New \in ThState /\ Done \in ThState
<1>1. [m \in {} |-> None] \in Made
  <2>1. [m \in {} |-> None] \in [{} -> Kinds]
    OBVIOUS
  <2> QED BY <2>1, MadeFrom
<1>2. \A f \in Made : [at |-> "new", job |-> None, todo |-> {}, made |-> f,
                       text |-> None, data |-> Empty, saw |-> {}] \in ThState
  BY EmptyDict DEF ThState
<1>3. New \in ThState
  BY <1>1, <1>2 DEF New
<1> QED BY <1>3 DEF Done, ThState

LEMMA EntriesDict ==
    ASSUME Types, NEW t \in Thread
    PROVE  Readable \in Dict /\ Entries(t) \in Dict
  BY EmptyDict, UsesInstance DEF Types, Readable, Entries

(* A thread goes on to a state; the others stay where they are.            *)
LEMMA GoesType ==
    ASSUME Types, NEW t \in Thread, NEW s \in ThState, Goes(t, s)
    PROVE  /\ th' \in [Thread -> ThState]
           /\ th'[t] = s
           /\ \A u \in Thread \ {t} : th'[u] = th[u]
  BY DEF Types, Goes

-----------------------------------------------------------------------------
LEMMA InitInv == Init => MemoryInv /\ SawKept
<1> SUFFICES ASSUME Init PROVE MemoryInv /\ SawKept
  OBVIOUS
<1>1. \A t \in Thread : th[t] \in ThState /\ th[t].at = "new"
  <2>1. New.at = "new"
    BY DEF New
  <2> QED BY <2>1, NewState DEF Init
<1>2. Types
  <2>1. th \in [Thread -> ThState]
    BY NewState DEF Init
  <2> QED BY <2>1, EmptyDict DEF Init, Types, Kinds
<1>3. OneWriter /\ LoadedFirst /\ WritesNewest /\ SawKept
  BY <1>1 DEF OneWriter, LoadedFirst, WritesNewest, SawKept, SawOne, Init
<1>4. SaverKept /\ MemoryFollowsLastSaver
  BY DEF Init, SaverKept, MemoryFollowsLastSaver
<1> QED BY <1>2, <1>3, <1>4 DEF MemoryInv

(* The states that the threads go to.                                      *)
LEMMA StepTypes == Types /\ LoadedFirst /\ SawKept /\ [Next]_vars => Types'
<1> SUFFICES ASSUME Types, LoadedFirst, SawKept, [Next]_vars PROVE Types'
  OBVIOUS
<1> USE NewState, EmptyDict
<1>1. ASSUME NEW t \in Thread, NEW m \in Message, Translate(t, m) PROVE Types'
  <2>1. [New EXCEPT !.at = "asking", !.job = "translate", !.todo = {m}] \in ThState
    BY DEF ThState, New
  <2> QED BY <1>1, <2>1, GoesType DEF Translate, Types
<1>2. ASSUME NEW t \in Thread, Backfill(t) PROVE Types'
  <2>1. [New EXCEPT !.at = "asking", !.job = "backfill",
                    !.todo = {m \in Message : cache[m] = None}] \in ThState
    BY DEF ThState, New
  <2> QED BY <1>2, <2>1, GoesType DEF Backfill, Types
<1>3. ASSUME NEW t \in Thread, NEW s \in Texts, Correct(t, s) PROVE Types'
  <2>1. \A a \in {"reading", "saving"} :
          [New EXCEPT !.at = a, !.job = "correct", !.text = s] \in ThState
    BY DEF ThState, New
  <2>2. /\ Entries(t) \in Dict
        /\ [Entries(t) EXCEPT ![s] = "human"] \in Dict
    BY EntriesDict DEF Dict
  <2>3. known' \in [Instance -> Dict \cup {None}]
    BY <1>3, <2>2, UsesInstance DEF Correct, Types
  <2>4. th' \in [Thread -> ThState]
    BY <1>3, <2>1, GoesType DEF Correct
  <2> QED BY <1>3, <2>3, <2>4 DEF Correct, Types
<1>4. ASSUME NEW t \in Thread, NEW m \in Message, Lookup(t, m) PROVE Types'
  <2> DEFINE f == [n \in DOMAIN th[t].made \cup {m} |->
                     IF n = m THEN Entries(t)[Source[m]] ELSE th[t].made[n]]
             w == IF known[Uses(t)] = None THEN Corrected(Readable) ELSE th[t].saw
  <2>0. th[t] \in ThState
    BY DEF Types
  <2>1. Entries(t) \in Dict /\ Source[m] \in Texts /\ Entries(t)[Source[m]] \in Kinds
    BY EntriesDict DEF Dict, Texts, Kinds
  <2>2. f \in Made
    <3>1. DOMAIN th[t].made \in SUBSET Message /\ \A n \in DOMAIN th[t].made : th[t].made[n] \in Kinds
      BY <2>0, MadeDomain DEF ThState
    <3>2. f \in [DOMAIN th[t].made \cup {m} -> Kinds]
      BY <3>1, <2>1
    <3> QED BY <3>1, <3>2, MadeFrom
  <2>3. w \in SUBSET Message
    BY <2>0 DEF ThState, Corrected
  <2> HIDE DEF f, w
  <2>4. \A a \in {"model", "asking"} :
          [th[t] EXCEPT !.at = a, !.text = Source[m], !.todo = @ \ {m}, !.made = f, !.saw = w]
            \in ThState
    BY <2>0, <2>1, <2>2, <2>3 DEF ThState
  <2>5. th' \in [Thread -> ThState]
    BY <1>4, <2>4, GoesType DEF Lookup, f, w
  <2> QED BY <1>4, <2>1, <2>5, UsesInstance DEF Lookup, Types
<1>5. ASSUME NEW t \in Thread, Answer(t) PROVE Types'
  <2> DEFINE f == [m \in DOMAIN th[t].made |->
                     IF th[t].made[m] = None THEN "ai" ELSE th[t].made[m]]
  <2>0. th[t] \in ThState
    BY DEF Types
  <2>1. f \in Made
    BY <2>0, MadeDomain, MadeFrom DEF ThState, Kinds
  <2> HIDE DEF f
  <2>2. [th[t] EXCEPT !.at = "saving", !.made = f] \in ThState
    BY <2>0, <2>1 DEF ThState
  <2>3. th' \in [Thread -> ThState]
    BY <1>5, <2>2, GoesType DEF Answer, f
  <2>4. known[Uses(t)] \in Dict /\ th[t].text \in Texts
    BY <1>5 DEF Answer, LoadedFirst
  <2>5. [known[Uses(t)] EXCEPT ![th[t].text] = "ai"] \in Dict
    BY <2>4 DEF Dict
  <2>6. known' = [known EXCEPT ![Uses(t)] = [known[Uses(t)] EXCEPT ![th[t].text] = "ai"]]
    BY <1>5 DEF Answer
  <2>7. known' \in [Instance -> Dict \cup {None}]
    BY <2>5, <2>6, UsesInstance DEF Types
  <2> QED BY <1>5, <2>3, <2>7 DEF Answer, Types
<1>6. ASSUME NEW t \in Thread, NoAnswer(t) PROVE Types'
  <2> DEFINE f == [m \in {n \in DOMAIN th[t].made : th[t].made[n] # None} |-> th[t].made[m]]
  <2>0. th[t] \in ThState
    BY DEF Types
  <2>1. f \in Made
    <3>1. DOMAIN th[t].made \in SUBSET Message /\ \A n \in DOMAIN th[t].made : th[t].made[n] \in Kinds
      BY <2>0, MadeDomain DEF ThState
    <3>2. f \in [{n \in DOMAIN th[t].made : th[t].made[n] # None} -> Kinds]
      BY <3>1
    <3> QED BY <3>1, <3>2, MadeFrom
  <2> HIDE DEF f
  <2>2. [th[t] EXCEPT !.at = "asking", !.made = f] \in ThState
    BY <2>0, <2>1 DEF ThState
  <2>3. th' \in [Thread -> ThState]
    BY <1>6, <2>2, GoesType DEF NoAnswer, f
  <2> QED BY <1>6, <2>3 DEF NoAnswer, Types
<1>7. ASSUME NEW t \in Thread, SaveOpens(t) PROVE Types'
  <2>1. [th[t] EXCEPT !.at = "writing", !.data = known[Uses(t)]] \in ThState
    BY <1>7 DEF SaveOpens, LoadedFirst, Types, ThState
  <2> QED BY <1>7, <2>1, GoesType DEF SaveOpens, Types
<1>8. ASSUME NEW t \in Thread, SaveWrites(t) PROVE Types'
  <2>1. \A a \in {"reading", "asking"} : [th[t] EXCEPT !.at = a, !.data = Empty] \in ThState
    BY DEF Types, ThState
  <2>2. th' \in [Thread -> ThState]
    BY <1>8, <2>1, GoesType DEF SaveWrites
  <2> QED BY <1>8, <2>2 DEF SaveWrites, Types, ThState
<1>9. ASSUME NEW t \in Thread, Finish(t) PROVE Types'
  <2>1. cache' \in [Message -> Kinds]
    BY <1>9, MadeDomain DEF Finish, Put, Types, ThState
  <2> QED BY <1>9, <2>1, GoesType DEF Finish, Types
<1>10. ASSUME NEW t \in Thread, ReadCache(t) PROVE Types'
  <2> DEFINE items == {m \in Message : cache[m] # None}
             hits == {m \in Message : cache[m] # None /\ Source[m] = th[t].text}
             f == [m \in items |-> IF m \in hits THEN "human" ELSE cache[m]]
  <2>1. f \in Made
    <3>1. f \in [items -> Kinds]
      BY DEF Types, Kinds
    <3> QED BY <3>1, MadeFrom
  <2>2. [th[t] EXCEPT !.at = "putting", !.todo = items, !.made = f,
                      !.saw = {m \in Message : cache[m] = "human"}] \in ThState
    <3> HIDE DEF f
    <3> QED BY <2>1 DEF Types, ThState
  <2>3. th' \in [Thread -> ThState]
    BY <1>10, <2>2, GoesType DEF ReadCache
  <2> QED BY <1>10, <2>3 DEF ReadCache, Types
<1>11. ASSUME NEW t \in Thread, NEW m \in Message, PutItem(t, m) PROVE Types'
  <2>1. th[t].made[m] \in Kinds
    BY <1>11, MadeDomain DEF PutItem, Takes, SawKept, SawOne, Types, ThState
  <2>2. cache' \in [Message -> Kinds]
    BY <1>11, <2>1 DEF PutItem, Put, Types
  <2>3. [th[t] EXCEPT !.todo = @ \ {m}] \in ThState
    BY DEF Types, ThState
  <2>4. th' \in [Thread -> ThState]
    BY <1>11, <2>3, GoesType DEF PutItem
  <2> QED BY <1>11, <2>2, <2>4 DEF PutItem, Types
<1>12. CASE Crash
  BY <1>12, EntriesDict DEF Crash, Types, Readable
<1>13. CASE UNCHANGED vars
  BY <1>13 DEF vars, Types
<1> QED BY <1>1, <1>2, <1>3, <1>4, <1>5, <1>6, <1>7, <1>8, <1>9, <1>10, <1>11, <1>12, <1>13
  DEF Next, Step

-----------------------------------------------------------------------------
(* What a step of a thread does to the fields that the rest is about.      *)
LEMMA UsesKept == ASSUME NEW t \in Thread, process' = process PROVE Uses(t)' = Uses(t)
  BY DEF Uses

LEMMA ProcessKept == [Next]_vars => process' = process
  BY DEF Next, Step, vars, Translate, Backfill, Correct, Lookup, Answer, NoAnswer, SaveOpens,
         SaveWrites, Finish, ReadCache, PutItem, Crash

(* Steps that neither load, change nor save a dict.                        *)
LEMMA OtherStepInv ==
    ASSUME Types, Types', OneWriter, LoadedFirst, WritesNewest, SaverKept, MemoryFollowsLastSaver,
           NEW t \in Thread, process' = process,
           \A u \in Thread \ {t} : th'[u] = th[u],
           th[t].at \notin {"saving", "writing"},
           th'[t].at \notin {"model", "saving", "writing"},
           UNCHANGED <<file, torn, known, saver>>
    PROVE  (OneWriter /\ LoadedFirst /\ WritesNewest /\ SaverKept /\ MemoryFollowsLastSaver)'
  BY UsesKept DEF OneWriter, LoadedFirst, WritesNewest, SaverKept, MemoryFollowsLastSaver

LEMMA StepWriters == MemoryInv /\ Types' /\ [Next]_vars => MemoryInv'
<1> SUFFICES ASSUME MemoryInv, Types', [Next]_vars PROVE MemoryInv'
  OBVIOUS
<1> DEFINE Rest == OneWriter /\ LoadedFirst /\ WritesNewest /\ SaverKept /\ MemoryFollowsLastSaver
<1>0. process' = process /\ \A t \in Thread : Uses(t)' = Uses(t)
  BY ProcessKept, UsesKept
<1> USE <1>0 DEF MemoryInv
<1>1. ASSUME NEW t \in Thread, NEW m \in Message, Translate(t, m) PROVE Rest'
  BY <1>1, OtherStepInv DEF Translate, Goes, New, Types
<1>2. ASSUME NEW t \in Thread, Backfill(t) PROVE Rest'
  BY <1>2, OtherStepInv DEF Backfill, Goes, New, Types
<1>3. ASSUME NEW t \in Thread, NEW s \in Texts, Correct(t, s) PROVE Rest'
  <2>1. Uses(t) \in Instance /\ known'[Uses(t)] \in Dict
    BY <1>3, UsesInstance, EntriesDict DEF Correct, Types, Dict
  <2>2. \A i \in Instance \ {Uses(t)} : known'[i] = known[i]
    BY <1>3 DEF Correct, Types
  <2>3. \A u \in Thread \ {t} : th'[u] = th[u]
    BY <1>3 DEF Correct, Goes, Types
  <2>4. /\ th'[t].text = s
        /\ th'[t].at = "saving" \/ (th'[t].at = "reading" /\ known'[Uses(t)] = Entries(t))
    BY <1>3 DEF Correct, Goes, Types, New
  <2>5. th[t].at = "new" /\ UNCHANGED <<file, torn, saver>>
    BY <1>3 DEF Correct
  <2>6. th'[t].at = "saving" \/ known[Uses(t)] = None \/ known' = known
    BY <1>3, <2>1, <2>4 DEF Correct, Entries, Types
  <2>7. OneWriter' /\ LoadedFirst'
    BY <2>1, <2>2, <2>3, <2>4, <2>5, UsesInstance DEF OneWriter, LoadedFirst
  <2>8. WritesNewest'
    BY <2>1, <2>2, <2>3, <2>4, <2>5, <2>6, UsesInstance, MemoryAssumption
    DEF WritesNewest, LoadedFirst
  <2>9. SaverKept'
    BY <2>1, <2>2, <2>5 DEF SaverKept
  <2>10. MemoryFollowsLastSaver'
    BY <2>1, <2>2, <2>3, <2>4, <2>5, <2>6, MemoryAssumption DEF MemoryFollowsLastSaver, SaverKept
  <2> QED BY <2>7, <2>8, <2>9, <2>10
<1>4. ASSUME NEW t \in Thread, NEW m \in Message, Lookup(t, m) PROVE Rest'
  <2>1. Uses(t) \in Instance /\ known'[Uses(t)] \in Dict
    BY <1>4, UsesInstance, EntriesDict DEF Lookup, Types
  <2>2. \A i \in Instance \ {Uses(t)} : known'[i] = known[i]
    BY <1>4 DEF Lookup, Types
  <2>3. \A u \in Thread \ {t} : th'[u] = th[u]
    BY <1>4 DEF Lookup, Goes, Types
  <2>4. th'[t].at \in {"model", "asking"} /\ th'[t].text \in Texts
    BY <1>4 DEF Lookup, Goes, Types, ThState, Texts
  <2>5. th[t].at = "asking" /\ UNCHANGED <<file, torn, saver>>
    BY <1>4 DEF Lookup
  <2>6. known[Uses(t)] = None \/ known' = known
    BY <1>4, <2>1 DEF Lookup, Entries, Types
  <2>7. OneWriter' /\ LoadedFirst'
    BY <2>1, <2>2, <2>3, <2>4, <2>5, UsesInstance DEF OneWriter, LoadedFirst
  <2>8. WritesNewest'
    BY <2>1, <2>2, <2>3, <2>4, <2>5, <2>6, UsesInstance, MemoryAssumption
    DEF WritesNewest, LoadedFirst
  <2>9. SaverKept' /\ MemoryFollowsLastSaver'
    BY <2>1, <2>2, <2>3, <2>4, <2>5, <2>6, MemoryAssumption DEF MemoryFollowsLastSaver, SaverKept
  <2> QED BY <2>7, <2>8, <2>9
<1>5. ASSUME NEW t \in Thread, Answer(t) PROVE Rest'
  <2>1. Uses(t) \in Instance /\ known'[Uses(t)] \in Dict
    <3>1. known[Uses(t)] \in Dict /\ th[t].text \in Texts
      BY <1>5 DEF Answer, LoadedFirst
    <3>2. [known[Uses(t)] EXCEPT ![th[t].text] = "ai"] \in Dict
      BY <3>1 DEF Dict
    <3>3. known' = [known EXCEPT ![Uses(t)] = [known[Uses(t)] EXCEPT ![th[t].text] = "ai"]]
      BY <1>5 DEF Answer
    <3> QED BY <3>2, <3>3, UsesInstance DEF Types
  <2>2. \A i \in Instance \ {Uses(t)} : known'[i] = known[i]
    BY <1>5 DEF Answer, Types
  <2>3. \A u \in Thread \ {t} : th'[u] = th[u]
    BY <1>5 DEF Answer, Goes, Types
  <2>4. th'[t].at = "saving" /\ th'[t].text \in Texts
    BY <1>5 DEF Answer, Goes, Types, ThState, LoadedFirst
  <2>5. th[t].at = "model" /\ UNCHANGED <<file, torn, saver>>
    BY <1>5 DEF Answer
  <2>7. OneWriter' /\ LoadedFirst'
    BY <2>1, <2>2, <2>3, <2>4, <2>5, UsesInstance DEF OneWriter, LoadedFirst
  <2>8. WritesNewest'
    BY <2>1, <2>2, <2>3, <2>4, <2>5, UsesInstance DEF WritesNewest
  <2>9. SaverKept' /\ MemoryFollowsLastSaver'
    BY <2>1, <2>2, <2>3, <2>4, <2>5 DEF MemoryFollowsLastSaver, SaverKept
  <2> QED BY <2>7, <2>8, <2>9
<1>6. ASSUME NEW t \in Thread, NoAnswer(t) PROVE Rest'
  <2>1. th[t].at = "model" /\ th'[t].at = "asking" /\ \A u \in Thread \ {t} : th'[u] = th[u]
    BY <1>6 DEF NoAnswer, Goes, Types, ThState
  <2> QED BY <1>6, <2>1, OtherStepInv DEF NoAnswer
<1>7. ASSUME NEW t \in Thread, SaveOpens(t) PROVE Rest'
  <2>1. /\ th'[t].at = "writing" /\ th'[t].data = known[Uses(t)] /\ th'[t].text = th[t].text
        /\ \A u \in Thread \ {t} : th'[u] = th[u]
    BY <1>7 DEF SaveOpens, Goes, Types, ThState
  <2>2. /\ th[t].at = "saving" /\ torn' = TRUE /\ UNCHANGED <<file, known, saver>>
        /\ \A u \in Thread : th[u].at # "writing"
    BY <1>7 DEF SaveOpens
  <2>3. OneWriter' /\ LoadedFirst' /\ WritesNewest'
    BY <2>1, <2>2 DEF OneWriter, LoadedFirst, WritesNewest
  <2>4. SaverKept' /\ MemoryFollowsLastSaver'
    BY <2>1, <2>2 DEF MemoryFollowsLastSaver, SaverKept
  <2> QED BY <2>3, <2>4
<1>8. ASSUME NEW t \in Thread, SaveWrites(t) PROVE Rest'
  <2>1. /\ th'[t].at \in {"reading", "asking"}
        /\ \A u \in Thread \ {t} : th'[u] = th[u]
    BY <1>8 DEF SaveWrites, Goes, Types, ThState
  <2>2. /\ th[t].at = "writing" /\ torn' = FALSE /\ known' = known
        /\ file' = th[t].data /\ saver' = Uses(t)
    BY <1>8 DEF SaveWrites
  <2>3. OneWriter' /\ LoadedFirst' /\ WritesNewest'
    BY <2>1, <2>2 DEF OneWriter, LoadedFirst, WritesNewest
  <2>4. Uses(t) \in Instance /\ known[Uses(t)] \in Dict
    BY <2>2, UsesInstance DEF LoadedFirst
  <2>5. SaverKept' /\ MemoryFollowsLastSaver'
    BY <2>1, <2>2, <2>4 DEF MemoryFollowsLastSaver, SaverKept, WritesNewest
  <2> QED BY <2>3, <2>5
<1>9. ASSUME NEW t \in Thread, Finish(t) PROVE Rest'
  BY <1>9, OtherStepInv DEF Finish, Goes, Done, New, Types
<1>10. ASSUME NEW t \in Thread, ReadCache(t) PROVE Rest'
  <2>1. /\ th[t].at = "reading" /\ th'[t].at \in {"done", "putting"}
        /\ \A u \in Thread \ {t} : th'[u] = th[u]
    BY <1>10 DEF ReadCache, Goes, Types, ThState, Done, New
  <2> QED BY <1>10, <2>1, OtherStepInv DEF ReadCache
<1>11. ASSUME NEW t \in Thread, NEW m \in Message, PutItem(t, m) PROVE Rest'
  <2>1. /\ th[t].at = "putting" /\ th'[t].at \in {"done", "putting"}
        /\ \A u \in Thread \ {t} : th'[u] = th[u]
    BY <1>11 DEF PutItem, Goes, Types, ThState, Done, New
  <2> QED BY <1>11, <2>1, OtherStepInv DEF PutItem
<1>12. CASE Crash
  <2>1. \A t \in Thread : th'[t].at \in {"new", "done"}
    BY <1>12 DEF Crash, New, Done
  <2>2. saver' = None /\ torn' = FALSE
    BY <1>12 DEF Crash
  <2> QED BY <2>1, <2>2 DEF OneWriter, LoadedFirst, WritesNewest, SaverKept, MemoryFollowsLastSaver
<1>13. CASE UNCHANGED vars
  BY <1>13 DEF vars, OneWriter, LoadedFirst, WritesNewest, SaverKept, MemoryFollowsLastSaver
<1> QED BY <1>1, <1>2, <1>3, <1>4, <1>5, <1>6, <1>7, <1>8, <1>9, <1>10, <1>11, <1>12, <1>13
  DEF Next, Step

-----------------------------------------------------------------------------
(* Corrections that were read stay in what a thread makes. The other       *)
(* threads of the legacy console have instances of their own.              *)
LEMMA OthersSaw ==
    ASSUME Types, SawKept, NEW t \in Thread, process' = process,
           \A u \in Thread \ {t} : th'[u] = th[u],
           process = "legacy" => \A i \in Instance \ {t} : known'[i] = known[i],
           SawOne(t)'
    PROVE  SawKept'
  BY DEF SawKept, SawOne, SawMemory, Instance

LEMMA StepSaw == Types /\ Types' /\ LoadedFirst /\ SawKept /\ [Next]_vars => SawKept'
<1> SUFFICES ASSUME Types, Types', LoadedFirst, SawKept, [Next]_vars PROVE SawKept'
  OBVIOUS
<1>0. process' = process
  BY ProcessKept
<1> USE <1>0
<1>a. ASSUME NEW t \in Thread, process = "legacy" PROVE Uses(t) = t /\ t \in Instance
  BY <1>a DEF Uses, Instance
<1>1. ASSUME NEW t \in Thread, NEW m \in Message, Translate(t, m) PROVE SawKept'
  <2>1. /\ \A u \in Thread \ {t} : th'[u] = th[u]
        /\ known' = known
        /\ th'[t].at = "asking" /\ DOMAIN th'[t].made = {} /\ th'[t].saw = {}
    BY <1>1 DEF Translate, Goes, Types, New
  <2>2. SawOne(t)'
    BY <2>1 DEF SawOne, SawMemory
  <2> QED BY <2>1, <2>2, OthersSaw
<1>2. ASSUME NEW t \in Thread, Backfill(t) PROVE SawKept'
  <2>1. /\ \A u \in Thread \ {t} : th'[u] = th[u]
        /\ known' = known
        /\ th'[t].at = "asking" /\ DOMAIN th'[t].made = {} /\ th'[t].saw = {}
    BY <1>2 DEF Backfill, Goes, Types, New
  <2>2. SawOne(t)'
    BY <2>1 DEF SawOne, SawMemory
  <2> QED BY <2>1, <2>2, OthersSaw
<1>3. ASSUME NEW t \in Thread, NEW s \in Texts, Correct(t, s) PROVE SawKept'
  <2>1. /\ \A u \in Thread \ {t} : th'[u] = th[u]
        /\ \A i \in Instance \ {Uses(t)} : known'[i] = known[i]
        /\ th'[t].at \in {"reading", "saving"} /\ DOMAIN th'[t].made = {} /\ th'[t].saw = {}
    BY <1>3 DEF Correct, Goes, Types, New
  <2>2. SawOne(t)'
    BY <2>1 DEF SawOne, SawMemory
  <2> QED BY <2>1, <2>2, <1>a, OthersSaw
<1>4. ASSUME NEW t \in Thread, NEW m \in Message, Lookup(t, m) PROVE SawKept'
  <2> DEFINE e == Entries(t)
  <2>1. /\ \A u \in Thread \ {t} : th'[u] = th[u]
        /\ \A i \in Instance \ {Uses(t)} : known'[i] = known[i]
        /\ known'[Uses(t)] = e
    BY <1>4, UsesInstance DEF Lookup, Goes, Types
  <2>2. th[t] \in ThState
    BY DEF Types
  <2>3. /\ th'[t].at \in {"model", "asking"} /\ th'[t].text = Source[m]
        /\ th'[t].at = "model" => e[Source[m]] = None
        /\ th'[t].saw = IF known[Uses(t)] = None THEN Corrected(Readable) ELSE th[t].saw
        /\ th'[t].made = [n \in DOMAIN th[t].made \cup {m} |->
                            IF n = m THEN e[Source[m]] ELSE th[t].made[n]]
    BY <1>4, <2>2 DEF Lookup, Goes, Types, ThState
  <2>4. CASE process = "legacy"
    <3>0. Uses(t) = t /\ t \in Instance
      BY <2>4, <1>a
    <3>1. e \in Dict /\ Readable \in Dict
      BY EntriesDict
    <3>2. SawMemory(t)
      BY <1>4, <2>4 DEF Lookup, SawKept, SawOne
    <3>3. SawMemory(t)'
      <4>1. known'[t] = e /\ e # None
        BY <2>1, <3>0, <3>1, MemoryAssumption
      <4>2. CASE known[t] = None
        <5>1. e = Readable /\ th'[t].saw = Corrected(Readable) /\ DOMAIN th'[t].made = {m}
          BY <2>3, <3>0, <3>2, <4>2 DEF Entries, SawMemory
        <5> QED BY <2>3, <4>1, <5>1 DEF SawMemory, Corrected
      <4>3. CASE known[t] # None
        <5>1. e = known[t] /\ th'[t].saw = th[t].saw
          BY <2>3, <3>0, <4>3 DEF Entries
        <5>2. \A n \in DOMAIN th'[t].made :
                e[Source[n]] = "human" => th'[t].made[n] = "human"
          BY <2>3, <3>2, <5>1 DEF SawMemory
        <5> QED BY <2>3, <3>2, <4>1, <5>1, <5>2 DEF SawMemory
      <4> QED BY <4>2, <4>3
    <3>4. SawOne(t)'
      BY <2>1, <2>3, <3>0, <3>3 DEF SawOne
    <3> QED BY <2>1, <3>0, <3>4, OthersSaw
  <2>5. CASE process # "legacy"
    <3>1. SawOne(t)'
      BY <2>3, <2>5 DEF SawOne
    <3> QED BY <2>1, <2>5, <3>1, OthersSaw
  <2> QED BY <2>4, <2>5
<1>5. ASSUME NEW t \in Thread, Answer(t) PROVE SawKept'
  <2>1. /\ \A u \in Thread \ {t} : th'[u] = th[u]
        /\ \A i \in Instance \ {Uses(t)} : known'[i] = known[i]
        /\ known'[Uses(t)] = [known[Uses(t)] EXCEPT ![th[t].text] = "ai"]
    BY <1>5, UsesInstance DEF Answer, Goes, Types
  <2>2. /\ th'[t].at = "saving" /\ th'[t].text = th[t].text /\ th'[t].saw = th[t].saw
        /\ th'[t].made = [m \in DOMAIN th[t].made |->
                            IF th[t].made[m] = None THEN "ai" ELSE th[t].made[m]]
    BY <1>5 DEF Answer, Goes, Types, ThState
  <2>3. th[t].at = "model" /\ known[Uses(t)] \in Dict /\ th[t].text \in Texts
    BY <1>5 DEF Answer, LoadedFirst
  <2>4. CASE process = "legacy"
    <3>0. Uses(t) = t /\ t \in Instance
      BY <2>4, <1>a
    <3>1. SawMemory(t) /\ known[t][th[t].text] = None
      BY <2>3, <2>4 DEF SawKept, SawOne
    <3>2. SawMemory(t)'
      <4>1. /\ \A s \in Texts : known'[t][s] = "human" <=> known[t][s] = "human"
            /\ known'[t] # None
        BY <2>1, <2>3, <3>0, <3>1, MemoryAssumption DEF Dict
      <4>2. \A m \in Message : Source[m] \in Texts
        BY DEF Texts
      <4>3. /\ DOMAIN th[t].made \subseteq Message /\ th[t].saw \subseteq Message
            /\ \A m \in DOMAIN th[t].made : th[t].made[m] \in Kinds
        BY MadeDomain DEF Types, ThState
      <4> QED BY <2>2, <3>1, <4>1, <4>2, <4>3, MemoryAssumption DEF SawMemory
    <3>3. SawOne(t)'
      BY <2>2, <3>2 DEF SawOne
    <3> QED BY <2>1, <3>0, <3>3, OthersSaw
  <2>5. CASE process # "legacy"
    <3>1. SawOne(t)'
      BY <2>2, <2>5 DEF SawOne
    <3> QED BY <2>1, <2>5, <3>1, OthersSaw
  <2> QED BY <2>4, <2>5
<1>6. ASSUME NEW t \in Thread, NoAnswer(t) PROVE SawKept'
  <2>1. /\ \A u \in Thread \ {t} : th'[u] = th[u]
        /\ known' = known /\ th[t].at = "model" /\ th'[t].at = "asking" /\ th'[t].saw = th[t].saw
        /\ th'[t].made = [m \in {n \in DOMAIN th[t].made : th[t].made[n] # None} |-> th[t].made[m]]
    BY <1>6 DEF NoAnswer, Goes, Types, ThState
  <2>2. SawOne(t)'
    BY <2>1 DEF SawKept, SawOne, SawMemory
  <2> QED BY <2>1, <2>2, OthersSaw
<1>7. ASSUME NEW t \in Thread, SaveOpens(t) PROVE SawKept'
  <2>1. /\ \A u \in Thread \ {t} : th'[u] = th[u]
        /\ known' = known /\ th[t].at = "saving" /\ th'[t].at = "writing"
        /\ th'[t].saw = th[t].saw /\ th'[t].made = th[t].made
    BY <1>7 DEF SaveOpens, Goes, Types, ThState
  <2>2. SawOne(t)'
    BY <2>1 DEF SawKept, SawOne, SawMemory
  <2> QED BY <2>1, <2>2, OthersSaw
<1>8. ASSUME NEW t \in Thread, SaveWrites(t) PROVE SawKept'
  <2>1. /\ \A u \in Thread \ {t} : th'[u] = th[u]
        /\ known' = known /\ th[t].at = "writing" /\ th'[t].at \in {"reading", "asking"}
        /\ th'[t].saw = th[t].saw /\ th'[t].made = th[t].made
    BY <1>8 DEF SaveWrites, Goes, Types, ThState
  <2>2. SawOne(t)'
    BY <2>1 DEF SawKept, SawOne, SawMemory
  <2> QED BY <2>1, <2>2, OthersSaw
<1>9. ASSUME NEW t \in Thread, Finish(t) PROVE SawKept'
  <2>1. /\ \A u \in Thread \ {t} : th'[u] = th[u]
        /\ known' = known /\ th'[t].at = "done"
    BY <1>9 DEF Finish, Goes, Types, Done, New
  <2>2. SawOne(t)'
    BY <2>1 DEF SawOne
  <2> QED BY <2>1, <2>2, OthersSaw
<1>10. ASSUME NEW t \in Thread, ReadCache(t) PROVE SawKept'
  <2> DEFINE items == {m \in Message : cache[m] # None}
             hits == {m \in Message : cache[m] # None /\ Source[m] = th[t].text}
  <2>1. /\ \A u \in Thread \ {t} : th'[u] = th[u]
        /\ known' = known
        /\ \/ th'[t].at = "done"
           \/ /\ th'[t].at = "putting" /\ th'[t].todo = items
              /\ th'[t].made = [m \in items |-> IF m \in hits THEN "human" ELSE cache[m]]
              /\ th'[t].saw = {m \in Message : cache[m] = "human"}
    BY <1>10 DEF ReadCache, Goes, Types, ThState, Done, New
  <2>2. SawOne(t)'
    BY <2>1 DEF SawOne
  <2> QED BY <2>1, <2>2, OthersSaw
<1>11. ASSUME NEW t \in Thread, NEW m \in Message, PutItem(t, m) PROVE SawKept'
  <2>1. /\ \A u \in Thread \ {t} : th'[u] = th[u]
        /\ known' = known /\ th[t].at = "putting"
        /\ \/ th'[t].at = "done"
           \/ /\ th'[t].at = "putting" /\ th'[t].todo = th[t].todo \ {m}
              /\ th'[t].made = th[t].made /\ th'[t].saw = th[t].saw
    BY <1>11 DEF PutItem, Goes, Types, ThState, Done, New
  <2>2. SawOne(t)'
    BY <2>1 DEF SawKept, SawOne
  <2> QED BY <2>1, <2>2, OthersSaw
<1>12. CASE Crash
  <2>1. \A t \in Thread : th'[t].at \in {"new", "done"}
    BY <1>12 DEF Crash, New, Done
  <2> QED BY <2>1 DEF SawKept, SawOne
<1>13. CASE UNCHANGED vars
  BY <1>13 DEF vars, SawKept, SawOne, SawMemory
<1> QED BY <1>1, <1>2, <1>3, <1>4, <1>5, <1>6, <1>7, <1>8, <1>9, <1>10, <1>11, <1>12, <1>13
  DEF Next, Step

-----------------------------------------------------------------------------
LEMMA Invariant == Spec => [](MemoryInv /\ SawKept)
<1>1. MemoryInv /\ SawKept /\ [Next]_vars => (MemoryInv /\ SawKept)'
  BY StepTypes, StepWriters, StepSaw DEF MemoryInv
<1> QED BY InitInv, <1>1, PTL DEF Spec

LEMMA WriterAlone == Types /\ OneWriter => MemoryTypeOK
<1> SUFFICES ASSUME Types, OneWriter PROVE MemoryTypeOK
  OBVIOUS
<1> DEFINE W == {t \in Thread : th[t].at = "writing"}
<1>1. Cardinality(W) <= 1
  <2>1. CASE W = {}
    BY <2>1, FS_EmptySet
  <2>2. ASSUME NEW t \in W PROVE Cardinality(W) <= 1
    <3>1. W = {t}
      BY <2>2 DEF OneWriter
    <3>2. Cardinality({t}) = 1
      BY FS_Singleton
    <3>3. Cardinality(W) = 1
      BY <3>1, <3>2
    <3> HIDE DEF W
    <3> QED BY <3>3
  <2> QED BY <2>1, <2>2
<1>2. \A t \in Thread : DOMAIN th[t].made \subseteq Message
  BY MadeDomain DEF Types, ThState
<1> QED BY <1>1, <1>2 DEF MemoryTypeOK, Types, ThState, OneWriter, Kinds

(* Types, and the file has one writer at a time, whatever the number of    *)
(* threads and instances (_save, under the class-wide lock).               *)
THEOREM MemoryTypes == Spec => []MemoryTypeOK
  BY Invariant, WriterAlone, PTL DEF MemoryInv

(* After any saves, answers, corrections and crashes, the memory's file is *)
(* the dict of the instance that saved last, or one of its threads is      *)
(* about to save again (TranslationMemory._save).                          *)
THEOREM FileFollowsLastSaver == Spec => []MemoryFollowsLastSaver
  BY Invariant, PTL DEF MemoryInv

(* A correction in the cache is undone only by a request that had read the *)
(* memory or the cache before it was there (bulk_put, put_translation,     *)
(* _update_all_cached_translations).                                       *)
THEOREM CorrectionsStay == Spec => CorrectionStays
<1>1. ASSUME Types, SawKept, Next, NEW m \in Message, cache[m] = "human", cache'[m] # "human"
      PROVE  \E t \in Thread : th'[t] # th[t] /\ m \notin th[t].saw
  <2>1. ASSUME NEW t \in Thread, Finish(t)
        PROVE  th'[t] # th[t] /\ m \notin th[t].saw
    <3>1. /\ process = "legacy" /\ th[t].at = "asking"
          /\ m \in DOMAIN th[t].made /\ th[t].made[m] # "human"
      BY <1>1, <2>1 DEF Finish, Put
    <3>2. th'[t].at = "done"
      BY <1>1, <2>1 DEF Finish, Goes, Types, Done, New
    <3>3. SawMemory(t)
      BY <3>1, <1>1 DEF SawKept, SawOne
    <3> QED BY <3>1, <3>2, <3>3 DEF SawMemory
  <2>2. ASSUME NEW t \in Thread, NEW n \in Message, PutItem(t, n)
        PROVE  th'[t] # th[t] /\ m \notin th[t].saw
    <3>1. /\ th[t].at = "putting" /\ m = n /\ n \in th[t].todo /\ th[t].made[m] # "human"
      BY <1>1, <2>2 DEF PutItem, Put, Takes
    <3>2. th'[t].at = "done" \/ th'[t].todo = th[t].todo \ {n}
      BY <1>1, <2>2 DEF PutItem, Goes, Types, ThState, Done, New
    <3> QED BY <1>1, <3>1, <3>2 DEF SawKept, SawOne
  <2>3. CASE Crash
    BY <1>1, <2>3 DEF Crash
  <2> QED BY <1>1, <2>1, <2>2, <2>3
    DEF Next, Step, Translate, Backfill, Correct, Lookup, Answer, NoAnswer, SaveOpens,
        SaveWrites, ReadCache
<1>2. MemoryInv /\ SawKept /\ [Next]_vars =>
        [\A m \in Message : cache[m] = "human" /\ cache'[m] # "human" =>
           \E t \in Thread : th'[t] # th[t] /\ m \notin th[t].saw]_vars
  BY <1>1 DEF MemoryInv
<1> QED BY Invariant, <1>2, PTL DEF Spec, CorrectionStays

=============================================================================
