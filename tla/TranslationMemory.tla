------------------------- MODULE TranslationMemory -------------------------
(***************************************************************************)
(* The translations kept in files. TranslationMemory                       *)
(* (translation_memory.py) is a dict per instance, loaded once, and one    *)
(* file that every instance writes as a whole and in place; a class-wide   *)
(* lock orders the writers and not the readers. In the standalone process  *)
(* the threads of one endpoint share an instance; the legacy console       *)
(* (web_api.py) makes one for each request, and also keeps a cache by      *)
(* message (translations.py), whose file is replaced at once under a lock, *)
(* and takes corrections by an operator.                                   *)
(*                                                                         *)
(* A message stands for its key in the cache, Source for its text as the   *)
(* memory keys it. One language, one user. MaxCrashes bounds the model.    *)
(***************************************************************************)
EXTENDS Naturals, FiniteSets

CONSTANTS
    Message,     \* numbers, in the order in which a request takes them
    Source,      \* Source[m]: the text of message m
    Thread,      \* one request each
    Lone,        \* threads that make an instance of their own in either process
    Kept,        \* the instance that the others share in the standalone process
    MaxCrashes,
    None

VARIABLES
    process,     \* which console it is, for good
    file, torn,  \* the memory file; it has been truncated and not yet written
    known,       \* known[i]: _entries of instance i; None: not loaded
    cache,       \* the cached translation of each message
    th,          \* th[t]: how far thread t came
    saver,       \* history: the instance that wrote the file last
    crashes

vars == <<process, file, torn, known, cache, th, saver, crashes>>

-----------------------------------------------------------------------------
Texts == {Source[m] : m \in Message}
Instance == Thread \cup {Kept}

(* A translation is the machine's or a correction by a human.              *)
Dict == [Texts -> {"ai", "human", None}]
Empty == [s \in Texts |-> None]

ASSUME MemoryAssumption ==
    /\ Message \subseteq Nat
    /\ Lone \subseteq Thread
    /\ Kept \notin Thread
    /\ None \notin {"ai", "human"} /\ None \notin Dict
    /\ MaxCrashes \in Nat

Uses(t) == IF process = "legacy" \/ t \in Lone THEN t ELSE Kept

(* `todo' are the messages still to do, `made' what goes to the cache,     *)
(* `text' what is being asked about, `data' what is being written, `saw',  *)
(* as history, the messages whose correction the thread has read.          *)
New == [at |-> "new", job |-> None, todo |-> {}, made |-> [m \in {} |-> None],
        text |-> None, data |-> Empty, saw |-> {}]

Init ==
    /\ process \in {"standalone", "legacy"}
    /\ file = Empty
    /\ torn = FALSE
    /\ known = [i \in Instance |-> None]
    /\ cache = [m \in Message |-> None]
    /\ th = [t \in Thread |-> New]
    /\ saver = None
    /\ crashes = 0

Done == [New EXCEPT !.at = "done"]

Takes(t, m) == m \in th[t].todo /\ \A n \in th[t].todo : m <= n

Goes(t, s) == th' = [th EXCEPT ![t] = s]

-----------------------------------------------------------------------------
(* Requests begin. One message is translated.                              *)
Translate(t, m) ==
    /\ th[t].at = "new"
    /\ Goes(t, [New EXCEPT !.at = "asking", !.job = "translate", !.todo = {m}])
    /\ UNCHANGED <<process, file, torn, known, cache, saver, crashes>>

(* _ensure_message_translations: all that the cache has not.               *)
Backfill(t) ==
    /\ process = "legacy"
    /\ th[t].at = "new"
    /\ Goes(t, [New EXCEPT !.at = "asking", !.job = "backfill",
                           !.todo = {m \in Message : cache[m] = None}])
    /\ UNCHANGED <<process, file, torn, known, cache, saver, crashes>>

(* _load, when the instance is first used: a file that is being written    *)
(* cannot be parsed and counts as empty.                                   *)
Readable == IF torn THEN Empty ELSE file
Entries(t) == IF known[Uses(t)] = None THEN Readable ELSE known[Uses(t)]

Corrected(d) == {m \in Message : d[Source[m]] = "human"}

(* correct_translation: review_update changes an entry that is there, and  *)
(* saves then.                                                             *)
Correct(t, s) ==
    /\ process = "legacy"
    /\ th[t].at = "new"
    /\ known' = [known EXCEPT ![Uses(t)] =
                   IF Entries(t)[s] = None THEN Entries(t)
                   ELSE [Entries(t) EXCEPT ![s] = "human"]]
    /\ Goes(t, [New EXCEPT !.at = IF Entries(t)[s] = None THEN "reading" ELSE "saving",
                           !.job = "correct", !.text = s])
    /\ UNCHANGED <<process, file, torn, cache, saver, crashes>>

-----------------------------------------------------------------------------
(* Mutant: the memory is loaded and not asked.                             *)
LookupNothing(t, m) ==
    /\ th[t].at = "asking"
    /\ Takes(t, m)
    /\ known' = [known EXCEPT ![Uses(t)] = Entries(t)]
    /\ Goes(t, [th[t] EXCEPT
         !.at = "model",
         !.text = Source[m],
         !.todo = @ \ {m},
         !.made = [n \in DOMAIN @ \cup {m} |-> IF n = m THEN None ELSE @[n]],
         !.saw = IF known[Uses(t)] = None THEN Corrected(Readable) ELSE @])
    /\ UNCHANGED <<process, file, torn, cache, saver, crashes>>

(* translate_to_zh_result for a message, with the memory ...               *)
Lookup(t, m) ==
    LET s == Source[m] IN
    /\ th[t].at = "asking"
    /\ Takes(t, m)
    /\ known' = [known EXCEPT ![Uses(t)] = Entries(t)]
    /\ Goes(t, [th[t] EXCEPT
         !.at = IF Entries(t)[s] = None THEN "model" ELSE "asking",
         !.text = s,
         !.todo = @ \ {m},
         !.made = [n \in DOMAIN @ \cup {m} |-> IF n = m THEN Entries(t)[s] ELSE @[n]],
         !.saw = IF known[Uses(t)] = None THEN Corrected(Readable) ELSE @])
    /\ UNCHANGED <<process, file, torn, cache, saver, crashes>>

(* ... and the model. put enters the answer; without one nothing is kept.  *)
Answer(t) ==
    /\ th[t].at = "model"
    /\ known' = [known EXCEPT ![Uses(t)][th[t].text] = "ai"]
    /\ Goes(t, [th[t] EXCEPT
         !.at = "saving",
         !.made = [m \in DOMAIN @ |-> IF @[m] = None THEN "ai" ELSE @[m]]])
    /\ UNCHANGED <<process, file, torn, cache, saver, crashes>>

NoAnswer(t) ==
    /\ th[t].at = "model"
    /\ Goes(t, [th[t] EXCEPT
         !.at = "asking",
         !.made = [m \in {n \in DOMAIN @ : @[n] # None} |-> @[m]]])
    /\ UNCHANGED <<process, file, torn, known, cache, saver, crashes>>

(* Mutant: only the entry that has changed is written.                     *)
SaveEntry(t) ==
    /\ th[t].at = "saving"
    /\ \A u \in Thread : th[u].at # "writing"
    /\ torn' = TRUE
    /\ Goes(t, [th[t] EXCEPT !.at = "writing",
                  !.data = [Empty EXCEPT ![th[t].text] = known[Uses(t)][th[t].text]]])
    /\ UNCHANGED <<process, file, known, cache, saver, crashes>>

(* _save. The dict is copied under the lock, the file truncated, ...       *)
SaveOpens(t) ==
    /\ th[t].at = "saving"
    /\ \A u \in Thread : th[u].at # "writing"
    /\ torn' = TRUE
    /\ Goes(t, [th[t] EXCEPT !.at = "writing", !.data = known[Uses(t)]])
    /\ UNCHANGED <<process, file, known, cache, saver, crashes>>

(* ... and written.                                                        *)
SaveWrites(t) ==
    /\ th[t].at = "writing"
    /\ file' = th[t].data
    /\ torn' = FALSE
    /\ saver' = Uses(t)
    /\ Goes(t, [th[t] EXCEPT !.at = IF th[t].job = "correct" THEN "reading" ELSE "asking",
                             !.data = Empty])
    /\ UNCHANGED <<process, known, cache, crashes>>

-----------------------------------------------------------------------------
(* The cache. put_translation and bulk_put read, merge and replace it      *)
(* under the lock; the standalone process writes to the database instead.  *)
Put(made) ==
    cache' = [m \in Message |-> IF m \in DOMAIN made THEN made[m] ELSE cache[m]]

Finish(t) ==
    /\ th[t].at = "asking"
    /\ th[t].todo = {}
    /\ IF process = "legacy" THEN Put(th[t].made) ELSE UNCHANGED cache
    /\ Goes(t, Done)
    /\ UNCHANGED <<process, file, torn, known, saver, crashes>>

(* _update_all_cached_translations reads the cache, without the lock, ...  *)
ReadCache(t) ==
    LET hits == {m \in Message : cache[m] # None /\ Source[m] = th[t].text}
        items == {m \in Message : cache[m] # None}
    IN
    /\ th[t].at = "reading"
    /\ Goes(t, IF hits = {} THEN Done
               ELSE [th[t] EXCEPT
                 !.at = "putting",
                 !.todo = items,
                 !.made = [m \in items |-> IF m \in hits THEN "human" ELSE cache[m]],
                 !.saw = {m \in Message : cache[m] = "human"}])
    /\ UNCHANGED <<process, file, torn, known, cache, saver, crashes>>

(* ... and puts back all it read, item by item.                            *)
PutItem(t, m) ==
    /\ th[t].at = "putting"
    /\ Takes(t, m)
    /\ Put([n \in {m} |-> th[t].made[m]])
    /\ Goes(t, IF th[t].todo = {m} THEN Done ELSE [th[t] EXCEPT !.todo = @ \ {m}])
    /\ UNCHANGED <<process, file, torn, known, saver, crashes>>

(* The process dies; a file that was being written stays unreadable.       *)
Crash ==
    /\ crashes < MaxCrashes
    /\ crashes' = crashes + 1
    /\ file' = Readable
    /\ torn' = FALSE
    /\ known' = [i \in Instance |-> None]
    /\ th' = [t \in Thread |-> IF th[t].at = "new" THEN New ELSE Done]
    /\ saver' = None
    /\ UNCHANGED <<process, cache>>

-----------------------------------------------------------------------------
Step(t) ==
    \/ \E m \in Message : Translate(t, m) \/ Lookup(t, m) \/ PutItem(t, m)
    \/ Backfill(t)
    \/ \E s \in Texts : Correct(t, s)
    \/ Answer(t) \/ NoAnswer(t)
    \/ SaveOpens(t) \/ SaveWrites(t)
    \/ Finish(t) \/ ReadCache(t)

Next == Crash \/ \E t \in Thread : Step(t)

Spec == Init /\ [][Next]_vars

-----------------------------------------------------------------------------
(* Types, and one writer at a time holds the file open.                    *)
MemoryTypeOK ==
    /\ process \in {"standalone", "legacy"}
    /\ file \in Dict
    /\ known \in [Instance -> Dict \cup {None}]
    /\ cache \in [Message -> {"ai", "human", None}]
    /\ \A t \in Thread :
         /\ th[t].at \in {"new", "asking", "model", "saving", "writing", "reading",
                          "putting", "done"}
         /\ th[t].todo \subseteq Message /\ DOMAIN th[t].made \subseteq Message
    /\ torn <=> \E t \in Thread : th[t].at = "writing"
    /\ Cardinality({t \in Thread : th[t].at = "writing"}) <= 1

(* The file is the dict of the instance that saved last, unless one of its *)
(* threads is about to save again: nothing that an instance learnt is      *)
(* missing from its own save, and everything that others learnt since it   *)
(* was loaded is (_save).                                                  *)
MemoryFollowsLastSaver ==
    saver # None =>
        \/ file = known[saver]
        \/ \E t \in Thread : Uses(t) = saver /\ th[t].at \in {"saving", "writing"}

(* A corrected translation in the cache gives way to the machine's only by *)
(* a request that had read the memory or the cache before the correction   *)
(* was there: a translation on its way, or the stale items that another    *)
(* correction puts back.                                                   *)
CorrectionStays ==
    [][\A m \in Message : cache[m] = "human" /\ cache'[m] # "human" =>
         \E t \in Thread : th'[t] # th[t] /\ m \notin th[t].saw]_vars

=============================================================================
