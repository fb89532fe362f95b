---------------------------- MODULE SavePipeline ----------------------------
(***************************************************************************)
(* How a turn becomes a memory and a memory becomes facts: the threads of  *)
(* MemoryProxy around the store.  Request handlers put finished turns on   *)
(* the save queue; the saver thread embeds one at a time, merges it with a *)
(* duplicate or inserts it, evicts, hands it on for fact extraction and    *)
(* purges; the fact worker asks the backend for facts and stores them; the *)
(* admin endpoints delete.                                                 *)
(*                                                                         *)
(* The store is module MemoryStore, statement by statement.  A thread that *)
(* has called a store operation holds db_mutex_ until the operation        *)
(* returns (owner), and the other threads do what needs no db_mutex_.      *)
(* find_duplicate takes only the cache's mutex, so the saver reads the     *)
(* cache in the middle of somebody's deletion.                             *)
(*                                                                         *)
(* A text is a whole turn: what is embedded of it and the answer.  Whether *)
(* two turns are near-identical is decided on the user's side alone, by a  *)
(* cosine and a threshold; the model is given the cosines (Closeness), so  *)
(* turns with other answers, or only a like question, are merged, and near *)
(* to near need not be near.  A turn's fact has the turn's text as its     *)
(* value, so a fact shows which turn it was drawn from.                    *)
(***************************************************************************)
EXTENDS MemoryStore, Sequences

CONSTANTS
    Closeness,     \* [t][u]: the cosine of t's user side, as asked, with u's, as
                   \* stored, in whole steps; 0 when it is not positive
    Threshold,     \* dedup_threshold, in those steps
    SaveCap,       \* 100 in enqueue_save
    FactCap,       \* fact_queue_size
    MaxTurns, MaxDeletes     \* bounds of the model

ASSUME PipelineAssumption ==
    /\ Values = Texts
    /\ Closeness \in [Texts -> [Texts -> Nat]] /\ Threshold \in Nat
    /\ SaveCap \in Nat \ {0} /\ FactCap \in Nat \ {0}
    /\ MaxTurns \in Nat /\ MaxDeletes \in Nat
    \* Dates play no part here: module MemoryStore has them.
    /\ \A t \in Texts : Mentions[t] = {}
    \* The store's own bounds never stop the saver.
    /\ MaxMemory >= MaxTurns /\ MaxCount > MaxTurns

VARIABLES
    owner,         \* the thread inside a store operation
    saveQueue, saveDrops,    \* save_queue_ of [turn, agent, text], save_drop_count_
    factQueue, factDrops,    \* fact_queue_ of [agent, text, source], fact_drop_count_
    saver,         \* where the saver stands: [at, job, id]
    worker,        \* where the fact worker stands: [at, job]
    fate,          \* history: each turn is queued, held by the saver, dropped,
                   \* lost, merged or saved
    deletes

threads == <<owner, saveQueue, saveDrops, factQueue, factDrops, saver, worker,
             fate, deletes>>
pvars == <<vars, threads>>

Turns == 1..MaxTurns
Threads == {"saver", "worker", "admin"}

NoJob == [turn |-> 0]
SaverWaits == [at |-> "wait", job |-> NoJob, id |-> 0]
WorkerWaits == [at |-> "wait", job |-> NoJob]

PipelineInit ==
    /\ Init
    /\ owner = "nobody"
    /\ saveQueue = <<>> /\ saveDrops = 0
    /\ factQueue = <<>> /\ factDrops = 0
    /\ saver = SaverWaits /\ worker = WorkerWaits
    /\ fate = Nothing /\ deletes = 0

-----------------------------------------------------------------------------
(* Store calls.  Acquire holds db_mutex_ if the first step did not already
   return; the owner's later steps keep it until the operation is over. *)

Acquire(t) == owner' = IF pc' = "idle" THEN "nobody" ELSE t
Free == pc = "idle"
Returned(t) == owner # t

StoreStep ==
    /\ owner # "nobody"
    /\ \/ AddToCache \/ TouchCache
       \/ \E i \in MemoryIds : EvictDates(i) \/ EvictRow(i) \/ EvictFacts(i)
       \/ EvictCache
       \/ RemoveFacts \/ RemoveRow \/ RemoveCache
       \/ \E i \in MemoryIds : PurgeDates(i) \/ PurgeFacts(i)
       \/ PurgeRow \/ PurgeCache
       \/ \E f \in FactIds : Supersede(f)
    /\ owner' = IF pc' = "idle" THEN "nobody" ELSE owner
    /\ UNCHANGED <<saveQueue, saveDrops, factQueue, factDrops, saver, worker,
                   fate, deletes>>

(* Near enough to merge with; best_cos starts at 0, so some likeness there must
   be whatever the threshold. *)
Close(t, u) == Closeness[t][u] > 0 /\ Closeness[t][u] >= Threshold

(* Mutant: the scan starts at the second entry. *)
AlikeButFirst(a, t) ==
    {m \in DOMAIN cache : /\ Visible(a, cache[m].agent) /\ Close(t, cache[m].text)
                          /\ ~IsLeast(m, DOMAIN cache)}

(* The visible entries find_duplicate may answer with. *)
Alike(a, t) ==
    {m \in DOMAIN cache : Visible(a, cache[m].agent) /\ Close(t, cache[m].text)}

(* The scan prefers the closer text and, of two as close, the earlier place in
   the vector: here that of u at m to that of v at k. *)
Preferred(t, u, m, v, k) ==
    \/ Closeness[t][u] > Closeness[t][v]
    \/ Closeness[t][u] = Closeness[t][v] /\ m < k

(* find_duplicate returns the id of the entry it prefers to all others; a purged
   entry's id says "none". *)
FindDuplicate(a, t, id) ==
    IF Alike(a, t) = {} THEN id = Hole
    ELSE \E m \in Alike(a, t) :
           /\ \A k \in Alike(a, t) \ {m} :
                Preferred(t, cache[m].text, m, cache[k].text, k)
           /\ id = cache[m].id

-----------------------------------------------------------------------------
(* Mutant: one job too many. *)
SaveQueueOverfull == Len(saveQueue) > SaveCap

SaveQueueFull == Len(saveQueue) >= SaveCap

(* enqueue_save, called by a handler with a finished turn: a full queue loses
   its oldest job. *)
EnqueueSave(a, t) ==
    LET turn == Cardinality(DOMAIN fate) + 1
        full == SaveQueueFull
        kept == IF full THEN Tail(saveQueue) ELSE saveQueue
    IN  /\ turn <= MaxTurns
        /\ saveQueue' = Append(kept, [turn |-> turn, agent |-> a, text |-> t])
        /\ saveDrops' = IF full THEN saveDrops + 1 ELSE saveDrops
        /\ fate' = Put(IF full
                       THEN [fate EXCEPT ![Head(saveQueue).turn] = "dropped"]
                       ELSE fate,
                       turn, "queued")
        /\ UNCHANGED <<vars, owner, factQueue, factDrops, saver, worker,
                       deletes>>

-----------------------------------------------------------------------------
(* saver_loop *)

(* Mutant: front without pop. *)
SaverTakeKeeping ==
    /\ saver.at = "wait" /\ Returned("saver")
    /\ saveQueue # <<>>
    /\ saver' = [at |-> "embed", job |-> Head(saveQueue), id |-> 0]
    /\ fate' = [fate EXCEPT ![Head(saveQueue).turn] = "held"]
    /\ UNCHANGED <<vars, owner, saveQueue, saveDrops, factQueue, factDrops,
                   worker, deletes>>

SaverTake ==
    /\ saver.at = "wait" /\ Returned("saver")
    /\ saveQueue # <<>>
    /\ saver' = [at |-> "embed", job |-> Head(saveQueue), id |-> 0]
    /\ saveQueue' = Tail(saveQueue)
    /\ fate' = [fate EXCEPT ![Head(saveQueue).turn] = "held"]
    /\ UNCHANGED <<vars, owner, saveDrops, factQueue, factDrops, worker,
                   deletes>>

(* Mutant: a turn that could not be embedded is tried again, for ever. *)
SaverLoseRetrying ==
    /\ saver.at = "embed"
    /\ saver' = SaverWaits
    /\ saveQueue' = <<saver.job>> \o saveQueue
    /\ fate' = [fate EXCEPT ![saver.job.turn] = "queued"]
    /\ UNCHANGED <<vars, owner, saveDrops, factQueue, factDrops, worker,
                   deletes>>

(* The model is not loaded, or embed came back empty (a failure or its ten
   seconds over): the turn is forgotten, housekeeping left out. *)
SaverLose ==
    /\ saver.at = "embed"
    /\ saver' = SaverWaits
    /\ fate' = [fate EXCEPT ![saver.job.turn] = "lost"]
    /\ UNCHANGED <<vars, owner, saveQueue, saveDrops, factQueue, factDrops,
                   worker, deletes>>

(* Both embeddings are there: find_duplicate on the cache as it is now. *)
SaverLookup ==
    /\ saver.at = "embed"
    /\ \E id \in MemoryIds \cup {Hole} :
         /\ FindDuplicate(saver.job.agent, saver.job.text, id)
         /\ saver' = [saver EXCEPT !.at = IF id > 0 THEN "touch" ELSE "insert",
                                   !.id = id]
    /\ UNCHANGED <<vars, owner, saveQueue, saveDrops, factQueue, factDrops,
                   worker, fate, deletes>>

SaverTouch ==
    /\ saver.at = "touch" /\ Free
    /\ IF saver.id \in DOMAIN memories THEN TouchRow(saver.id) ELSE UNCHANGED vars
    /\ Acquire("saver")
    /\ saver' = [saver EXCEPT !.at = "facts"]
    /\ fate' = [fate EXCEPT ![saver.job.turn] = "merged"]
    /\ UNCHANGED <<saveQueue, saveDrops, factQueue, factDrops, worker, deletes>>

SaverInsert ==
    /\ saver.at = "insert" /\ Free
    /\ InsertRow(saver.job.agent, saver.job.text)
    /\ Acquire("saver")
    /\ saver' = [saver EXCEPT !.at = "sentences", !.id = nextMemory]
    /\ fate' = [fate EXCEPT ![saver.job.turn] = "saved"]
    /\ UNCHANGED <<saveQueue, saveDrops, factQueue, factDrops, worker, deletes>>

(* Only sentences that could be embedded are stored, which may be none. *)
SaverSentences ==
    /\ saver.at = "sentences" /\ Free
    /\ StoreSentences(saver.id) \/ UNCHANGED vars
    /\ saver' = [saver EXCEPT !.at = "evict"]
    /\ UNCHANGED <<owner, saveQueue, saveDrops, factQueue, factDrops, worker,
                   fate, deletes>>

SaverEvict ==
    /\ saver.at = "evict" /\ Free
    /\ IF Cardinality(MemoriesOf(saver.job.agent)) > LimitOf(saver.job.agent)
       THEN Evict(saver.job.agent) ELSE UNCHANGED vars
    /\ Acquire("saver")
    /\ saver' = [saver EXCEPT !.at = "facts"]
    /\ UNCHANGED <<saveQueue, saveDrops, factQueue, factDrops, worker, fate,
                   deletes>>

(* Mutant: the source is the newest memory, not the one merged with. *)
SaverFactsOfNewest ==
    /\ saver.at = "facts" /\ Returned("saver")
    /\ Len(factQueue) < FactCap
    /\ factQueue' = Append(factQueue,
         [agent |-> saver.job.agent, text |-> saver.job.text,
          source |-> nextMemory - 1])
    /\ saver' = [saver EXCEPT !.at = "housekeeping", !.job = NoJob, !.id = 0]
    /\ UNCHANGED <<vars, owner, saveQueue, saveDrops, factDrops, worker, fate,
                   deletes>>

(* enqueue_fact_extraction: a full queue refuses the new job.  Without a model
   name, or with extract_facts off, there is none. *)
SaverFacts ==
    /\ saver.at = "facts" /\ Returned("saver")
    /\ \/ /\ Len(factQueue) < FactCap
          /\ factQueue' = Append(factQueue,
               [agent |-> saver.job.agent, text |-> saver.job.text,
                source |-> saver.id])
          /\ UNCHANGED factDrops
       \/ /\ Len(factQueue) >= FactCap
          /\ factDrops' = factDrops + 1
          /\ UNCHANGED factQueue
       \/ UNCHANGED <<factQueue, factDrops>>
    /\ saver' = [saver EXCEPT !.at = "housekeeping", !.job = NoJob, !.id = 0]
    /\ UNCHANGED <<vars, owner, saveQueue, saveDrops, worker, fate, deletes>>

(* Thirty seconds without a job also lead to housekeeping. *)
SaverTimeout ==
    /\ saver.at = "wait" /\ Returned("saver")
    /\ saveQueue = <<>>
    /\ saver' = [saver EXCEPT !.at = "housekeeping"]
    /\ UNCHANGED <<vars, owner, saveQueue, saveDrops, factQueue, factDrops,
                   worker, fate, deletes>>

(* An hour may or may not have passed since the last purge. *)
SaverHousekeeping ==
    /\ saver.at = "housekeeping"
    /\ \/ Free /\ Purge
       \/ UNCHANGED vars
    /\ owner' = IF pc' = pc THEN owner ELSE "saver"
    /\ saver' = SaverWaits
    /\ UNCHANGED <<saveQueue, saveDrops, factQueue, factDrops, worker, fate,
                   deletes>>

-----------------------------------------------------------------------------
(* fact_loop *)

WorkerTake ==
    /\ worker.at = "wait" /\ Returned("worker")
    /\ factQueue # <<>>
    /\ worker' = [at |-> "extract", job |-> Head(factQueue)]
    /\ factQueue' = Tail(factQueue)
    /\ UNCHANGED <<vars, owner, saveQueue, saveDrops, factDrops, saver, fate,
                   deletes>>

(* The backend fails, finds nothing, or no fact can be embedded; or there is
   a fact to store. *)
WorkerExtract ==
    /\ worker.at = "extract"
    /\ \/ worker' = WorkerWaits
       \/ nextFact <= MaxFact /\ worker' = [worker EXCEPT !.at = "insert"]
    /\ UNCHANGED <<vars, owner, saveQueue, saveDrops, factQueue, factDrops,
                   saver, fate, deletes>>

(* insert_fact, with the source the job was given when it was queued; the
   answer may hold more facts. *)
WorkerInsert ==
    /\ worker.at = "insert" /\ Free
    /\ \E k \in Keys :
         LET job == worker.job
         IN  \/ InsertFact(job.agent, k, job.text, job.source)
             \/ \E old \in FactIds :
                  \/ InsertRival(job.agent, k, job.text, job.source, old)
                  \/ /\ IsLeast(old, Rivals(job.agent, k))
                     /\ factsCache[old].value = job.text
                     /\ UNCHANGED vars
    /\ Acquire("worker")
    /\ worker' \in {WorkerWaits, [worker EXCEPT !.at = "extract"]}
    /\ UNCHANGED <<saveQueue, saveDrops, factQueue, factDrops, saver, fate,
                   deletes>>

-----------------------------------------------------------------------------
(* DELETE /admin/memories/:id and DELETE /admin/facts/:id *)

AdminRemove(i) ==
    /\ deletes < MaxDeletes /\ Free
    /\ i < nextMemory
    /\ Remove(i)
    /\ Acquire("admin")
    /\ deletes' = deletes + 1
    /\ UNCHANGED <<saveQueue, saveDrops, factQueue, factDrops, saver, worker,
                   fate>>

AdminRemoveFact(f) ==
    /\ deletes < MaxDeletes
    /\ RemoveFact(f)
    /\ deletes' = deletes + 1
    /\ UNCHANGED <<owner, saveQueue, saveDrops, factQueue, factDrops, saver,
                   worker, fate>>

TimePasses == DayPasses /\ UNCHANGED threads

-----------------------------------------------------------------------------

SaverStep ==
    \/ SaverTake \/ SaverLose \/ SaverLookup \/ SaverTouch \/ SaverInsert
    \/ SaverSentences \/ SaverEvict \/ SaverFacts \/ SaverTimeout
    \/ SaverHousekeeping

WorkerStep == WorkerTake \/ WorkerExtract \/ WorkerInsert

PipelineNext ==
    \/ StoreStep \/ SaverStep \/ WorkerStep \/ TimePasses
    \/ \E a \in Agents, t \in Texts : EnqueueSave(a, t)
    \/ \E i \in MemoryIds : AdminRemove(i)
    \/ \E f \in FactIds : AdminRemoveFact(f)

PipelineSpec == PipelineInit /\ [][PipelineNext]_pvars

(* A thread that can run is scheduled in the end; embed gives up after ten
   seconds and the SQL statements return. *)
FairPipelineSpec ==
    /\ PipelineSpec
    /\ WF_op(StoreStep)
    /\ WF_saver(SaverStep)
    /\ WF_worker(WorkerStep)

-----------------------------------------------------------------------------
(* Properties *)

(* Deduplication: no turn is stored in sight of an older live memory it is
   near-identical to, although find_duplicate looks at a cache that deletions
   are changing and its answer is used after the lock is gone.  The one
   exception is the purge's doing: an entry it has left behind was preferred to
   that memory, and says "none". *)
NoDuplicateMemories ==
    \A i, j \in DOMAIN memories :
      /\ i < j
      /\ Visible(memories[j].agent, memories[i].agent)
      /\ Close(memories[j].text, memories[i].text)
      => \E m \in Alike(memories[j].agent, memories[j].text) :
           /\ cache[m].id = Hole
           /\ Preferred(memories[j].text, cache[m].text, m, memories[i].text, i)

(* However long a fact job waits in its queue, and whatever is deleted and
   inserted meanwhile, the memory its fact ends up attached to is the one its
   turn was saved as, or one the turn was merged with for being near-identical;
   or it is gone.  In the second case the fact is of the new turn, whose answer
   may be another and is stored nowhere. *)
FactsKeepTheirSource ==
    \A f \in DOMAIN facts :
      LET source == facts[f].source
      IN  source \in DOMAIN memories =>
            /\ Visible(facts[f].agent, memories[source].agent)
            /\ \/ memories[source].text = facts[f].value
               \/ Close(facts[f].value, memories[source].text)

(* No turn is lost track of: those on the queue are in order of arrival, no more
   than its 100 and exactly those nothing has happened to, the saver holds
   at most one, and save_drop_count_ counts those the full queue gave up, each
   older than all it kept. *)
TurnsAccounted ==
    /\ Len(saveQueue) <= SaveCap
    /\ \A p, q \in DOMAIN saveQueue : p < q => saveQueue[p].turn < saveQueue[q].turn
    /\ {saveQueue[q].turn : q \in DOMAIN saveQueue} =
         {n \in DOMAIN fate : fate[n] = "queued"}
    /\ \A n \in DOMAIN fate : fate[n] = "held" => saver.job.turn = n
    /\ saveDrops = Cardinality({n \in DOMAIN fate : fate[n] = "dropped"})
    /\ \A n \in DOMAIN fate, q \in DOMAIN saveQueue :
         fate[n] = "dropped" => n < saveQueue[q].turn

(* Every accepted turn is settled in the end: saved, merged, dropped or, when
   embedding fails, lost; whoever holds db_mutex_ meanwhile only delays it. *)
TurnsSettle ==
    \A n \in Turns :
      (n \in DOMAIN fate) ~>
        (n \in DOMAIN fate /\ fate[n] \notin {"queued", "held"})

=============================================================================
