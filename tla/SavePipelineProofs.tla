------------------------- MODULE SavePipelineProofs -------------------------
(***************************************************************************)
(* What the threads around the store guarantee together, for any number of *)
(* turns, deletions, agents and texts and any size of the two queues.      *)
(*                                                                         *)
(* The threads change the store by its operations alone, so a behaviour of *)
(* the pipeline is one of MemoryStore and the store's theorems hold in it  *)
(* (PipelineUsesStore).  On that rest the three invariants: each says what *)
(* a thread still knows of the store when it comes back to it, having let  *)
(* db_mutex_ go in between.                                                *)
(***************************************************************************)
EXTENDS SavePipeline, MemoryStoreProofs

StoreInv == TypeInv /\ OpInv /\ TableInv /\ CacheInv

LEMMA StoreInit == Init => StoreInv
BY TypeInit, TableInit, CacheInit DEF StoreInv

LEMMA StoreInvStep == StoreInv /\ [Next]_vars => StoreInv'
BY TypeStep, TableStep, CacheStep DEF StoreInv

-----------------------------------------------------------------------------
(* What the threads hold *)

Job == [turn : Nat, agent : Agents, text : Texts]
FactJob == [agent : Agents, text : Texts, source : MemoryIds]

AtWork == {"embed", "touch", "insert", "sentences", "evict", "facts"}
WithMemory == {"touch", "sentences", "evict", "facts"}
AtRest == {"wait", "housekeeping"}

(* The jobs are jobs, and each memory id in somebody's hands has been given
   out. *)
ThreadsInv ==
    /\ saveQueue \in Seq(Job)
    /\ factQueue \in Seq(FactJob)
    /\ \A q \in DOMAIN factQueue : factQueue[q].source < nextMemory
    /\ saver \in [at : AtWork \cup AtRest, job : Job \cup {NoJob},
                  id : MemoryIds \cup {0, Hole}]
    /\ saver.at \in AtWork => saver.job \in Job
    /\ saver.at \in AtRest => saver.job = NoJob
    /\ saver.at \in WithMemory => saver.id \in MemoryIds /\ saver.id < nextMemory
    /\ worker \in [at : {"wait", "extract", "insert"}, job : FactJob \cup {NoJob}]
    /\ worker.at # "wait" =>
         worker.job \in FactJob /\ worker.job.source < nextMemory

(* A call of the pipeline is an operation of the store. *)
LEMMA ThreadsCallStore ==
    ASSUME TypeInv, ThreadsInv, [PipelineNext]_pvars
    PROVE  [Next]_vars
<1> USE DEF Next
<1>1. CASE StoreStep
  BY <1>1 DEF StoreStep, MemoryStep, EvictStep, RemoveStep, PurgeStep, FactStep
<1>2. CASE SaverStep
  <2>1. saver.at \in AtWork => saver.job.agent \in Agents /\ saver.job.text \in Texts
    BY DEF ThreadsInv, Job
  <2>2. CASE SaverTouch
    BY <2>2 DEF SaverTouch, ThreadsInv, WithMemory, MemoryStep
  <2>3. CASE SaverInsert
    BY <2>1, <2>3 DEF SaverInsert, AtWork, MemoryStep
  <2>4. CASE SaverSentences
    BY <2>4 DEF SaverSentences, ThreadsInv, WithMemory, MemoryStep
  <2>5. CASE SaverEvict
    BY <2>1, <2>5 DEF SaverEvict, AtWork, EvictStep
  <2>6. CASE SaverHousekeeping
    BY <2>6 DEF SaverHousekeeping, PurgeStep
  <2> QED
    BY <1>2, <2>2, <2>3, <2>4, <2>5, <2>6
       DEF SaverStep, SaverTake, SaverLose, SaverLookup, SaverFacts, SaverTimeout
<1>3. CASE WorkerStep
  <2>1. CASE WorkerInsert
    <3>1. /\ worker.job.agent \in Agents /\ worker.job.text \in Values
          /\ worker.job.source \in 0..(nextMemory - 1)
      BY <2>1, PipelineAssumption
         DEF WorkerInsert, ThreadsInv, FactJob, MemoryIds, TypeInv, TypeOK
    <3> QED
      BY <2>1, <3>1 DEF WorkerInsert, FactStep
  <2> QED
    BY <1>3, <2>1 DEF WorkerStep, WorkerTake, WorkerExtract
<1>4. CASE \E i \in MemoryIds : AdminRemove(i)
  BY <1>4 DEF AdminRemove, RemoveStep
<1>5. CASE \E f \in FactIds : AdminRemoveFact(f)
  BY <1>5 DEF AdminRemoveFact, FactStep
<1>6. CASE TimePasses
  BY <1>6 DEF TimePasses
<1>7. CASE \E a \in Agents, t \in Texts : EnqueueSave(a, t)
  BY <1>7 DEF EnqueueSave
<1>8. CASE UNCHANGED pvars
  BY <1>8 DEF pvars
<1> QED
  BY <1>1, <1>2, <1>3, <1>4, <1>5, <1>6, <1>7, <1>8 DEF PipelineNext

LEMMA ThreadsInit == PipelineInit => ThreadsInv
BY DEF PipelineInit, ThreadsInv, SaverWaits, WorkerWaits, AtWork, AtRest, WithMemory

(* The first job of a queue that holds one, and the others behind it. *)
LEMMA FirstAndRest ==
    ASSUME NEW S, NEW s \in Seq(S), s # <<>>
    PROVE  /\ Len(s) \in Nat \ {0} /\ DOMAIN s = 1..Len(s)
           /\ Head(s) = s[1] /\ Head(s) \in S
           /\ Tail(s) \in Seq(S) /\ Len(Tail(s)) = Len(s) - 1
           /\ DOMAIN Tail(s) = 1..(Len(s) - 1)
           /\ \A q \in 1..(Len(s) - 1) : Tail(s)[q] = s[q + 1]
OBVIOUS

LEMMA OneMore ==
    ASSUME NEW S, NEW s \in Seq(S), NEW x \in S
    PROVE  /\ Append(s, x) \in Seq(S)
           /\ Len(s) \in Nat /\ DOMAIN s = 1..Len(s)
           /\ DOMAIN Append(s, x) = 1..(Len(s) + 1)
           /\ Len(Append(s, x)) = Len(s) + 1
           /\ \A q \in 1..Len(s) : Append(s, x)[q] = s[q]
           /\ Append(s, x)[Len(s) + 1] = x
OBVIOUS

(* Taking and adding jobs, the ids already given out staying so. *)
LEMMA FactQueueGrows ==
    ASSUME ThreadsInv, nextMemory \in Int, nextMemory' \in Int,
           nextMemory <= nextMemory', factQueue' = factQueue
    PROVE  /\ factQueue' \in Seq(FactJob)
           /\ \A q \in DOMAIN factQueue' : factQueue'[q].source < nextMemory'
<1>1. ASSUME NEW q \in DOMAIN factQueue
      PROVE  factQueue[q].source < nextMemory'
  <2>1. factQueue[q] \in FactJob /\ MemoryIds \subseteq Int
    BY DEF ThreadsInv, MemoryIds
  <2>2. factQueue[q].source < nextMemory
    BY DEF ThreadsInv
  <2>3. factQueue[q].source \in Int
    BY <2>1 DEF FactJob
  <2> QED
    BY <2>2, <2>3
<1> QED
  BY <1>1 DEF ThreadsInv

(* What purge_expired has overwritten comes before text v at place k when the
   duplicate of t is looked for in sight of a. *)
HoleBefore(a, t, v, k) ==
    \E m \in Alike(a, t) :
      cache[m].id = Hole /\ Preferred(t, cache[m].text, m, v, k)

(* The answer of find_duplicate: an entry served and close; or none, and then
   each close entry is overwritten or comes after one that is. *)
LEMMA DuplicateFound ==
    ASSUME EntriesInv, NEW a, NEW t, NEW id, FindDuplicate(a, t, id)
    PROVE  \/ id = Hole /\ \A k \in Alike(a, t) :
                             cache[k].id = Hole \/ HoleBefore(a, t, cache[k].text, k)
           \/ id \in Alike(a, t) /\ cache[id].id = id
<1>1. CASE Alike(a, t) = {}
  BY <1>1 DEF FindDuplicate
<1>2. CASE Alike(a, t) # {}
  <2>1. PICK m \in Alike(a, t) :
          /\ \A k \in Alike(a, t) \ {m} :
               Preferred(t, cache[m].text, m, cache[k].text, k)
          /\ id = cache[m].id
    BY <1>2 DEF FindDuplicate
  <2>2. cache[m].id \in {m, Hole}
    BY <2>1 DEF EntriesInv, Alike
  <2>3. CASE id = Hole
    BY <2>1, <2>3 DEF HoleBefore
  <2> QED
    BY <2>1, <2>2, <2>3
<1> QED
  BY <1>1, <1>2

LEMMA IdsAreNumbers == Hole \in Int /\ ~(Hole > 0) /\ \A i \in MemoryIds : i > 0
BY DEF Hole, MemoryIds

LEMMA ThreadsSaverStep ==
    ASSUME StoreInv, ThreadsInv, SaverStep
    PROVE  ThreadsInv'
<1> USE DEF ThreadsInv, AtWork, AtRest, WithMemory
<1>0. /\ nextMemory \in Int /\ nextMemory' \in Int /\ nextMemory <= nextMemory'
      /\ MemoryIds \subseteq Int
  <2>1. [Next]_vars
    BY ThreadsCallStore DEF StoreInv, PipelineNext
  <2>2. nextMemory \in Int
    BY DEF StoreInv, TypeInv, TypeOK
  <2> QED
    BY <2>1, <2>2, NewRows DEF StoreInv, MemoryIds
<1>1. ASSUME UNCHANGED <<saveQueue, factQueue, worker>>,
             saver' \in [at : AtWork \cup AtRest, job : Job \cup {NoJob},
                         id : MemoryIds \cup {0, Hole}],
             saver'.at \in AtWork => saver'.job \in Job,
             saver'.at \in AtRest => saver'.job = NoJob,
             saver'.at \in WithMemory =>
               saver'.id \in MemoryIds /\ saver'.id < nextMemory'
      PROVE  ThreadsInv'
  <2>1. worker'.at # "wait" =>
          worker'.job \in FactJob /\ worker'.job.source < nextMemory'
    <3>1. worker' = worker /\ (worker.at # "wait" =>
                                worker.job \in FactJob /\ worker.job.source < nextMemory)
      BY <1>1
    <3>2. \A job \in FactJob : job.source \in Int
      BY <1>0 DEF FactJob
    <3> QED
      BY <1>0, <3>1, <3>2
  <2>2. /\ factQueue' \in Seq(FactJob)
        /\ \A q \in DOMAIN factQueue' : factQueue'[q].source < nextMemory'
    BY <1>0, <1>1, FactQueueGrows
  <2>3. saveQueue' \in Seq(Job) /\ worker' \in [at : {"wait", "extract", "insert"}, job : FactJob \cup {NoJob}]
    BY <1>1
  <2> HIDE DEF NoJob
  <2> QED
    BY <1>1, <2>1, <2>2, <2>3
<1>2. CASE SaverTake
  <2>1. /\ Head(saveQueue) \in Job /\ Tail(saveQueue) \in Seq(Job)
        /\ nextMemory' = nextMemory
    BY <1>2, FirstAndRest DEF SaverTake, vars, tables
  <2> QED
    BY <1>2, <2>1 DEF SaverTake
<1>3. CASE SaverLose
  BY <1>1, <1>3 DEF SaverLose, SaverWaits
<1>4. CASE SaverLookup
  <2>1. PICK id \in MemoryIds \cup {Hole} :
          /\ FindDuplicate(saver.job.agent, saver.job.text, id)
          /\ saver' = [saver EXCEPT !.at = IF id > 0 THEN "touch" ELSE "insert",
                                    !.id = id]
    BY <1>4 DEF SaverLookup
  <2>2. id > 0 => id \in MemoryIds /\ id < nextMemory
    BY <2>1, DuplicateFound, IdsAreNumbers
       DEF StoreInv, CacheInv, EntriesInv, Alike
  <2>3. /\ saver'.at = IF id > 0 THEN "touch" ELSE "insert"
        /\ saver'.id = id /\ saver'.job = saver.job
        /\ DOMAIN saver' = DOMAIN saver
    BY <2>1
  <2>4. saver.at = "embed" /\ UNCHANGED <<saveQueue, factQueue, worker, nextMemory>>
    BY <1>4 DEF SaverLookup, vars, tables
  <2>5. saver' \in [at : AtWork \cup AtRest, job : Job \cup {NoJob},
                    id : MemoryIds \cup {0, Hole}]
    BY <2>1, <2>4
  <2> QED
    BY <1>1, <2>2, <2>3, <2>4, <2>5
<1>5. CASE SaverTouch
  <2>1. nextMemory' = nextMemory
    BY <1>5 DEF SaverTouch, TouchRow, vars, tables
  <2> QED
    BY <1>1, <1>5, <2>1 DEF SaverTouch
<1>6. CASE SaverInsert
  <2>1. nextMemory \in MemoryIds /\ nextMemory < nextMemory'
    BY <1>0, <1>6 DEF SaverInsert, InsertRow, MemoryIds, StoreInv, TypeInv, TypeOK
  <2> QED
    BY <1>1, <1>6, <2>1 DEF SaverInsert
<1>7. CASE SaverSentences
  <2>1. nextMemory' = nextMemory
    BY <1>7 DEF SaverSentences, StoreSentences, vars, tables
  <2> QED
    BY <1>1, <1>7, <2>1 DEF SaverSentences
<1>8. CASE SaverEvict
  <2>1. nextMemory' = nextMemory
    BY <1>8 DEF SaverEvict, Evict, vars, tables
  <2> QED
    BY <1>1, <1>8, <2>1 DEF SaverEvict
<1>9. CASE SaverFacts
  <2> DEFINE job == [agent |-> saver.job.agent, text |-> saver.job.text,
                     source |-> saver.id]
  <2>1. job \in FactJob /\ job.source < nextMemory
    BY <1>9 DEF SaverFacts, FactJob, Job
  <2> HIDE DEF job
  <2>2. nextMemory' = nextMemory /\ UNCHANGED <<saveQueue, worker>>
    BY <1>9 DEF SaverFacts, vars, tables
  <2>3. saver' = [saver EXCEPT !.at = "housekeeping", !.job = NoJob, !.id = 0]
    BY <1>9 DEF SaverFacts
  <2>4. factQueue' = factQueue \/ factQueue' = Append(factQueue, job)
    BY <1>9 DEF SaverFacts, job
  <2>5. /\ factQueue' \in Seq(FactJob)
        /\ \A q \in DOMAIN factQueue' : factQueue'[q].source < nextMemory'
    <3>1. CASE factQueue' = factQueue
      BY <2>2, <3>1
    <3>2. CASE factQueue' = Append(factQueue, job)
      <4>1. /\ factQueue' \in Seq(FactJob)
            /\ Len(factQueue) \in Nat /\ DOMAIN factQueue = 1..Len(factQueue)
            /\ DOMAIN factQueue' = 1..(Len(factQueue) + 1)
            /\ \A q \in 1..Len(factQueue) : factQueue'[q] = factQueue[q]
            /\ factQueue'[Len(factQueue) + 1] = job
        BY <2>1, <3>2, OneMore
      <4>2. \A q \in DOMAIN factQueue' :
              q \in DOMAIN factQueue \/ q = Len(factQueue) + 1
        BY <4>1
      <4> QED
        BY <2>1, <2>2, <4>1, <4>2
    <3> QED
      BY <2>4, <3>1, <3>2
  <2> QED
    BY <2>2, <2>3, <2>5
<1>10. CASE SaverTimeout
  BY <1>1, <1>10 DEF SaverTimeout
<1>11. CASE SaverHousekeeping
  <2>1. nextMemory' = nextMemory
    BY <1>11 DEF SaverHousekeeping, Purge, vars, tables
  <2> QED
    BY <1>1, <1>11, <2>1 DEF SaverHousekeeping, SaverWaits
<1> QED
  BY <1>2, <1>3, <1>4, <1>5, <1>6, <1>7, <1>8, <1>9, <1>10, <1>11 DEF SaverStep

(* Turns are numbered as they come. *)
TurnsNumbered == \E n \in Nat : DOMAIN fate = 1..n

NextTurn == Cardinality(DOMAIN fate) + 1

LEMMA NextTurnIsNext ==
    ASSUME TurnsNumbered
    PROVE  /\ NextTurn \in Nat \ {0}
           /\ DOMAIN fate = 1..(NextTurn - 1)
           /\ IsFiniteSet(DOMAIN fate)
<1>1. PICK n \in Nat : DOMAIN fate = 1..n
  BY DEF TurnsNumbered
<1>2. IsFiniteSet(1..n) /\ Cardinality(1..n) = n
  BY FS_Interval
<1> QED
  BY <1>1, <1>2 DEF NextTurn

LEMMA NumberedStep ==
    ASSUME TurnsNumbered, [PipelineNext]_pvars
    PROVE  TurnsNumbered'
<1>1. CASE \E a \in Agents, t \in Texts : EnqueueSave(a, t)
  <2>1. DOMAIN fate' = DOMAIN fate \cup {NextTurn}
    BY <1>1 DEF EnqueueSave, Put, NextTurn
  <2>2. DOMAIN fate' = 1..NextTurn
    BY <2>1, NextTurnIsNext
  <2> QED
    BY <2>2, NextTurnIsNext DEF TurnsNumbered
<1>2. CASE ~(\E a \in Agents, t \in Texts : EnqueueSave(a, t))
  <2>1. DOMAIN fate' = DOMAIN fate
    BY <1>2
       DEF PipelineNext, StoreStep, SaverStep, SaverTake, SaverLose, SaverLookup,
           SaverTouch, SaverInsert, SaverSentences, SaverEvict, SaverFacts,
           SaverTimeout, SaverHousekeeping, WorkerStep, WorkerTake, WorkerExtract,
           WorkerInsert, AdminRemove, AdminRemoveFact, TimePasses, threads, pvars
  <2> QED
    BY <2>1 DEF TurnsNumbered
<1> QED
  BY <1>1, <1>2

LEMMA ThreadsWorkerStep ==
    ASSUME StoreInv, ThreadsInv, WorkerStep
    PROVE  ThreadsInv'
<1> USE DEF ThreadsInv
<1>1. UNCHANGED <<nextMemory, saveQueue, saver>>
  BY DEF WorkerStep, WorkerTake, WorkerExtract, WorkerInsert, InsertFact,
         InsertRival, InsertFactRow, vars, tables
<1>2. CASE WorkerTake
  <2> DEFINE n == Len(factQueue)
  <2>1. /\ n \in Nat \ {0} /\ DOMAIN factQueue = 1..n
        /\ Head(factQueue) = factQueue[1] /\ Head(factQueue) \in FactJob
        /\ Tail(factQueue) \in Seq(FactJob) /\ DOMAIN Tail(factQueue) = 1..(n - 1)
        /\ \A q \in 1..(n - 1) : Tail(factQueue)[q] = factQueue[q + 1]
    BY <1>2, FirstAndRest DEF WorkerTake
  <2>2. factQueue' = Tail(factQueue) /\ worker' = [at |-> "extract", job |-> Head(factQueue)]
    BY <1>2 DEF WorkerTake
  <2> HIDE DEF n
  <2>3. Head(factQueue).source < nextMemory
    BY <2>1
  <2>4. \A q \in DOMAIN Tail(factQueue) : q + 1 \in DOMAIN factQueue
    BY <2>1
  <2> QED
    BY <1>1, <2>1, <2>2, <2>3, <2>4
<1>3. CASE WorkerExtract \/ WorkerInsert
  <2>1. /\ factQueue' = factQueue
        /\ worker' \in {WorkerWaits, [worker EXCEPT !.at = "extract"],
                        [worker EXCEPT !.at = "insert"]}
        /\ worker.at # "wait"
    BY <1>3 DEF WorkerExtract, WorkerInsert
  <2> QED
    BY <1>1, <2>1 DEF WorkerWaits
<1> QED
  BY <1>2, <1>3 DEF WorkerStep

LEMMA ThreadsStep ==
    ASSUME StoreInv, ThreadsInv, TurnsNumbered, [PipelineNext]_pvars
    PROVE  ThreadsInv'
<1>1. CASE StoreStep \/ (\E i \in MemoryIds : AdminRemove(i))
           \/ (\E f \in FactIds : AdminRemoveFact(f)) \/ TimePasses
  <2>1. UNCHANGED <<nextMemory, saveQueue, factQueue, saver, worker>>
    BY <1>1
       DEF StoreStep, AdminRemove, AdminRemoveFact, TimePasses, threads, AddToCache,
           TouchCache, EvictDates, EvictRow, EvictFacts, EvictCache, RemoveFacts,
           RemoveRow, RemoveCache, PurgeDates, PurgeFacts, PurgeRow, PurgeCache,
           Supersede, Remove, RemoveFact, DayPasses, tables
  <2> QED
    BY <2>1 DEF ThreadsInv
<1>2. CASE \E a \in Agents, t \in Texts : EnqueueSave(a, t)
  <2>1. PICK a \in Agents, t \in Texts : EnqueueSave(a, t)
    BY <1>2
  <2> DEFINE kept == IF SaveQueueFull THEN Tail(saveQueue) ELSE saveQueue
             turn == Cardinality(DOMAIN fate) + 1
             job == [turn |-> turn, agent |-> a, text |-> t]
  <2>2. saveQueue' = Append(kept, job) /\ UNCHANGED <<nextMemory, factQueue, saver, worker>>
    BY <2>1 DEF EnqueueSave, vars, tables
  <2>3. kept \in Seq(Job)
    <3>1. saveQueue \in Seq(Job) /\ SaveCap \in Nat \ {0}
      BY PipelineAssumption DEF ThreadsInv
    <3>2. SaveQueueFull => saveQueue # <<>>
      BY <3>1 DEF SaveQueueFull
    <3> QED
      BY <3>1, <3>2, FirstAndRest
  <2>4. turn \in Nat
    BY NextTurnIsNext DEF NextTurn
  <2>5. Append(kept, job) \in Seq(Job)
    BY <2>3, <2>4 DEF Job
  <2> QED
    BY <2>2, <2>5 DEF ThreadsInv
<1>3. CASE UNCHANGED pvars
  BY <1>3 DEF pvars, threads, vars, tables, ThreadsInv
<1> QED
  BY <1>1, <1>2, <1>3, ThreadsSaverStep, ThreadsWorkerStep DEF PipelineNext

-----------------------------------------------------------------------------
(* The pipeline is a user of the store *)

LEMMA PipelineStores ==
    PipelineSpec => [](StoreInv /\ ThreadsInv /\ TurnsNumbered)
<1> DEFINE Inv == StoreInv /\ ThreadsInv /\ TurnsNumbered
<1>1. PipelineInit => Inv
  <2>1. PipelineInit => TurnsNumbered
    BY DEF PipelineInit, Nothing, TurnsNumbered
  <2> QED
    BY <2>1, StoreInit, ThreadsInit DEF PipelineInit
<1>2. Inv /\ [PipelineNext]_pvars => Inv'
  BY ThreadsCallStore, StoreInvStep, ThreadsStep, NumberedStep DEF StoreInv
<1> QED
  BY <1>1, <1>2, PTL DEF PipelineSpec

(* Saver, fact worker, handlers and admin together do nothing to the store but
   what its operations do, one at a time: with jobs that waited in two queues,
   ids that were looked up before somebody's deletion, and housekeeping in
   between, a behaviour of the pipeline is a behaviour of the store. *)
THEOREM PipelineUsesStore == PipelineSpec => Spec
<1>1. PipelineInit => Init
  BY DEF PipelineInit
<1>2. StoreInv /\ ThreadsInv /\ TurnsNumbered /\ [PipelineNext]_pvars => [Next]_vars
  BY ThreadsCallStore DEF StoreInv
<1> QED
  BY <1>1, <1>2, PipelineStores, PTL DEF PipelineSpec, Spec

-----------------------------------------------------------------------------
(* Who is inside the store *)

SaverOps == {"insert", "touch", "evictDates", "evictRows", "evictFacts",
             "evictCache", "purgeDates", "purgeRow", "purgeFacts", "purgeCache"}

(* The owner of db_mutex_ is the thread whose operation is running; the saver
   has then gone on to where it waits for the return. *)
OwnerInv ==
    /\ pc \notin NotLoaded
    /\ owner = "nobody" <=> pc = "idle"
    /\ pc \in SaverOps => owner = "saver"
    /\ pc = "supersede" => owner = "worker"
    /\ pc \in Removing => owner = "admin"
    /\ owner = "saver" => saver.at \in {"sentences", "facts", "wait"}

(* An operation keeps to itself until it returns. *)
LEMMA StoreStepKeepsOperation ==
    ASSUME StoreStep
    PROVE  /\ owner # "nobody" /\ saver' = saver
           /\ owner' = IF pc' = "idle" THEN "nobody" ELSE owner
           /\ \/ pc \in SaverOps /\ pc' \in SaverOps \cup {"idle"}
              \/ pc = "supersede" /\ pc' = "idle"
              \/ pc \in Removing /\ pc' \in Removing \cup {"idle"}
BY DEF StoreStep, AddToCache, TouchCache, EvictDates, EvictRow, EvictFacts,
       EvictCache, RemoveFacts, RemoveRow, RemoveCache, PurgeDates, PurgeFacts,
       PurgeRow, PurgeCache, Supersede, Loop, Goto, Return, SaverOps, Removing

LEMMA OwnerInit == PipelineInit => OwnerInv
BY DEF PipelineInit, Init, OwnerInv, NotLoaded, SaverOps, Removing

LEMMA OwnerStep ==
    ASSUME OwnerInv, [PipelineNext]_pvars
    PROVE  OwnerInv'
<1> USE DEF OwnerInv, NotLoaded, SaverOps, Removing
<1>1. CASE StoreStep
  BY <1>1, StoreStepKeepsOperation
<1>2. CASE SaverStep
  <2>1. CASE SaverTouch
    BY <2>1 DEF SaverTouch, Free, Acquire, TouchRow, Goto, vars, op
  <2>2. CASE SaverInsert
    BY <2>2 DEF SaverInsert, Free, Acquire, InsertRow, Goto
  <2>3. CASE SaverSentences
    BY <2>3 DEF SaverSentences, Free, StoreSentences, vars, op
  <2>4. CASE SaverEvict
    BY <2>4 DEF SaverEvict, Free, Acquire, Evict, Goto, vars, op
  <2>5. CASE SaverHousekeeping
    BY <2>5 DEF SaverHousekeeping, SaverWaits, Free, Purge, Goto, vars, op
  <2>6. CASE SaverLookup
    <3>1. saver.at = "embed" /\ UNCHANGED <<pc, owner>>
      BY <2>6 DEF SaverLookup, vars, op
    <3> QED
      BY <3>1
  <2> QED
    BY <1>2, <2>1, <2>2, <2>3, <2>4, <2>5, <2>6
       DEF SaverStep, SaverTake, SaverLose, SaverWaits, SaverFacts, SaverTimeout,
           Returned, vars, op
<1>3. CASE WorkerStep
  BY <1>3 DEF WorkerStep, WorkerTake, WorkerExtract, WorkerInsert, Free, Acquire,
              InsertFact, InsertRival, Goto, vars, op
<1>4. CASE \E i \in MemoryIds : AdminRemove(i)
  BY <1>4 DEF AdminRemove, Free, Acquire, Remove, Goto
<1>5. CASE \E f \in FactIds : AdminRemoveFact(f)
  BY <1>5 DEF AdminRemoveFact, RemoveFact, op
<1>6. CASE TimePasses
  BY <1>6 DEF TimePasses, DayPasses, threads, op
<1>7. CASE \E a \in Agents, t \in Texts : EnqueueSave(a, t)
  BY <1>7 DEF EnqueueSave, vars, op
<1>8. CASE UNCHANGED pvars
  BY <1>8 DEF pvars, threads, vars, op
<1> QED
  BY <1>1, <1>2, <1>3, <1>4, <1>5, <1>6, <1>7, <1>8 DEF PipelineNext

-----------------------------------------------------------------------------
(* What no step of the store changes *)

(* A row keeps its text and its namespace; a new one has the next id, and
   comes from insert. *)
LEMMA RowsKeepText ==
    ASSUME TypeInv, TableInv, [Next]_vars
    PROVE  /\ \A i \in DOMAIN memories \cap DOMAIN memories' :
                /\ memories'[i].agent = memories[i].agent
                /\ memories'[i].text = memories[i].text
           /\ DOMAIN memories' \subseteq DOMAIN memories
              \/ \E a \in Agents, t \in Texts : InsertRow(a, t)
<1> USE DEF tables, DeleteRow, Drop, Restrict
<1>1. CASE MemoryStep
  <2>1. CASE \E a \in Agents, t \in Texts : InsertRow(a, t)
    <3>1. nextMemory \notin DOMAIN memories
      BY DEF TableInv, TypeInv, TypeOK
    <3> QED
      BY <2>1, <3>1 DEF InsertRow, Put
  <2>2. CASE \E i \in MemoryIds : TouchRow(i)
    BY <2>2 DEF TouchRow, TypeInv, TypeOK, IsTable, Row
  <2> QED
    BY <1>1, <2>1, <2>2 DEF MemoryStep, InsertDate, AddToCache, StoreSentences,
                            TouchCache
<1>2. CASE EvictStep
  BY <1>2 DEF EvictStep, Evict, EvictDates, EvictRow, EvictFacts, EvictCache
<1>3. CASE RemoveStep
  BY <1>3 DEF RemoveStep, Remove, RemoveFacts, RemoveRow, RemoveCache
<1>4. CASE PurgeStep
  BY <1>4 DEF PurgeStep, Purge, PurgeDates, PurgeRow, PurgeFacts, PurgeCache
<1>5. CASE FactStep
  BY <1>5 DEF FactStep, InsertFact, InsertFactRow, InsertRival, Supersede, RemoveFact
<1>6. CASE RestartStep
  BY <1>6 DEF RestartStep, Crash, Open, BackfillDate, LoadCaches
<1> QED
  BY <1>1, <1>2, <1>3, <1>4, <1>5, <1>6 DEF Next, DayPasses, vars

(* An entry keeps its text and its namespace; one that purge_expired has
   overwritten stays; only an insertion adds one. *)
LEMMA EntriesKeepText ==
    ASSUME TypeInv, CacheInv, [Next]_vars, pc \notin NotLoaded, pc' # "closed"
    PROVE  /\ \A m \in DOMAIN cache \cap DOMAIN cache' :
                /\ cache'[m].agent = cache[m].agent
                /\ cache'[m].text = cache[m].text
           /\ \A m \in DOMAIN cache :
                cache[m].id = Hole => m \in DOMAIN cache' /\ cache'[m].id = Hole
           /\ DOMAIN cache' \subseteq DOMAIN cache \/ AddToCache
<1> USE DEF ram
<1>1. CASE MemoryStep
  <2>1. CASE AddToCache
    <3>1. cur \notin DOMAIN cache
      BY <2>1 DEF AddToCache, CacheInv, EntriesInv
    <3> QED
      BY <2>1, <3>1 DEF AddToCache, Put
  <2>2. CASE TouchCache
    BY <2>2 DEF TouchCache, TypeInv, TypeOK, IsTable, Entry
  <2> QED
    BY <1>1, <2>1, <2>2 DEF MemoryStep, InsertRow, InsertDate, TouchRow, StoreSentences
<1>2. ASSUME NEW S \in SUBSET MemoryIds, EraseEntries(S)
      PROVE  /\ DOMAIN cache' \subseteq DOMAIN cache
             /\ \A m \in DOMAIN cache' : cache'[m] = cache[m]
             /\ \A m \in DOMAIN cache : cache[m].id = Hole => m \in DOMAIN cache'
  BY <1>2, HoleIsNoId DEF EraseEntries, Drop, Restrict
<1>3. CASE EvictStep
  <2>1. victims \in SUBSET MemoryIds
    BY DEF TypeInv, TypeOK
  <2> QED
    BY <1>2, <1>3, <2>1 DEF EvictStep, Evict, EvictDates, EvictRow, EvictFacts, EvictCache
<1>4. CASE RemoveStep
  <2>1. CASE RemoveCache
    <3>1. cur # Hole
      BY DEF TypeInv, TypeOK, MemoryIds, FactIds, Hole
    <3> QED
      BY <2>1, <3>1 DEF RemoveCache, EraseEntries, Drop, Restrict
  <2> QED
    BY <1>4, <2>1 DEF RemoveStep, Remove, RemoveFacts, RemoveRow
<1>5. CASE PurgeStep
  <2>1. CASE PurgeCache
    <3>1. Hole \notin victims
      BY HoleIsNoId DEF TypeInv, TypeOK
    <3> QED
      BY <2>1, <3>1 DEF PurgeCache, TypeInv, TypeOK, IsTable, Entry
  <2> QED
    BY <1>5, <2>1 DEF PurgeStep, Purge, PurgeDates, PurgeRow, PurgeFacts
<1>6. CASE FactStep
  BY <1>6 DEF FactStep, InsertFact, InsertFactRow, InsertRival, Supersede, RemoveFact
<1>7. CASE RestartStep
  BY <1>7 DEF RestartStep, Crash, Open, BackfillDate, LoadCaches, NotLoaded, Goto
<1> QED
  BY <1>1, <1>3, <1>4, <1>5, <1>6, <1>7 DEF Next, DayPasses, vars

(* An entry says what its row says: a merge rests on it. *)
TextInv == \A i \in DOMAIN cache \cap DOMAIN memories :
             cache[i].text = memories[i].text

LEMMA TextStep ==
    ASSUME StoreInv, TextInv, [Next]_vars, pc \notin NotLoaded, pc' # "closed"
    PROVE  TextInv'
<1> USE DEF StoreInv
<1>1. CASE AddToCache
  <2>1. cur \notin DOMAIN cache
    BY <1>1 DEF AddToCache, CacheInv, EntriesInv
  <2> QED
    BY <1>1, <2>1 DEF AddToCache, Put, TextInv, tables
<1>2. CASE ~AddToCache
  <2>1. /\ DOMAIN cache' \subseteq DOMAIN cache
        /\ \A m \in DOMAIN cache' : cache'[m].text = cache[m].text
    BY <1>2, EntriesKeepText
  <2>2. \A i \in DOMAIN cache : i # nextMemory
    BY DEF CacheInv, EntriesInv, TypeInv, TypeOK
  <2>3. DOMAIN memories' \subseteq DOMAIN memories \cup {nextMemory}
    BY NewRows
  <2> QED
    BY <2>1, <2>2, <2>3, RowsKeepText DEF TextInv
<1> QED
  BY <1>1, <1>2

-----------------------------------------------------------------------------
(* Facts and their sources *)

(* A memory of agent b and text u can be where turn t of agent a went: it was
   saved as that, or merged with it. *)
Holds(b, u, a, t) == Visible(a, b) /\ (u = t \/ Close(t, u))

(* The memory an id names, if there still is one, is where the turn went: since
   ids are not given out again, this stays true of an id once given out. *)
Names(id, a, t) ==
    id \in DOMAIN memories => Holds(memories[id].agent, memories[id].text, a, t)

(* Wherever the id of a memory is on its way to a fact, it names the memory
   where the turn went that the fact is drawn from. *)
SourceInv ==
    /\ \A f \in DOMAIN facts :
         /\ facts[f].source < nextMemory
         /\ Names(facts[f].source, facts[f].agent, facts[f].value)
    /\ \A q \in DOMAIN factQueue :
         Names(factQueue[q].source, factQueue[q].agent, factQueue[q].text)
    /\ worker.at # "wait" =>
         Names(worker.job.source, worker.job.agent, worker.job.text)
    /\ saver.at \in WithMemory => Names(saver.id, saver.job.agent, saver.job.text)

(* A fact is what it was, or comes from the worker's job. *)
LEMMA FactsComeFromJobs ==
    ASSUME StoreInv, ThreadsInv, [PipelineNext]_pvars, NEW f \in DOMAIN facts'
    PROVE  \/ /\ f \in DOMAIN facts
              /\ facts'[f].source = facts[f].source
              /\ facts'[f].agent = facts[f].agent
              /\ facts'[f].value = facts[f].value
           \/ /\ WorkerInsert
              /\ facts'[f].source = worker.job.source
              /\ facts'[f].agent = worker.job.agent
              /\ facts'[f].value = worker.job.text
<1> USE DEF StoreInv
<1>1. CASE WorkerInsert
  <2>1. CASE facts' = facts
    BY <2>1
  <2>2. CASE \E k \in Keys : InsertFactRow(worker.job.agent, k, worker.job.text,
                                           worker.job.source)
    <3>1. /\ DOMAIN facts' = DOMAIN facts \cup {nextFact}
          /\ facts'[nextFact].value = worker.job.text
          /\ facts'[nextFact].agent = worker.job.agent
          /\ facts'[nextFact].source = worker.job.source
          /\ \A g \in DOMAIN facts \ {nextFact} : facts'[g] = facts[g]
      BY <2>2 DEF InsertFactRow, Put
    <3> QED
      BY <1>1, <3>1
  <2> QED
    BY <1>1, <2>1, <2>2 DEF WorkerInsert, InsertFact, InsertRival, vars, tables
<1>2. CASE \E old \in FactIds : Supersede(old)
  BY <1>2 DEF Supersede, TypeInv, TypeOK, IsTable, FactRow
<1>3. CASE ~WorkerInsert /\ ~(\E old \in FactIds : Supersede(old))
  <2>1. DOMAIN facts' \subseteq DOMAIN facts /\ \A g \in DOMAIN facts' : facts'[g] = facts[g]
    BY <1>3
       DEF PipelineNext, StoreStep, AddToCache, TouchCache, EvictDates, EvictRow,
           EvictFacts, EvictCache, RemoveFacts, RemoveRow, RemoveCache, PurgeDates,
           PurgeFacts, PurgeRow, PurgeCache, DeleteFacts, Drop, Restrict, SaverStep,
           SaverTake, SaverLose, SaverLookup, SaverTouch, TouchRow, SaverInsert,
           InsertRow, SaverSentences, StoreSentences, SaverEvict, Evict, SaverFacts,
           SaverTimeout, SaverHousekeeping, Purge, WorkerStep, WorkerTake,
           WorkerExtract, AdminRemove, Remove, AdminRemoveFact, RemoveFact,
           TimePasses, DayPasses, EnqueueSave, pvars, vars, tables
  <2> QED
    BY <2>1
<1> QED
  BY <1>1, <1>2, <1>3

(* Ids that somebody holds are below the counter. *)
LEMMA HeldIds ==
    ASSUME StoreInv, ThreadsInv, SourceInv
    PROVE  /\ \A f \in DOMAIN facts : facts[f].source # nextMemory
           /\ \A q \in DOMAIN factQueue : factQueue[q].source # nextMemory
           /\ worker.at # "wait" => worker.job.source # nextMemory
           /\ saver.at \in WithMemory => saver.id # nextMemory
<1>1. nextMemory \in Int
  BY DEF StoreInv, TypeInv, TypeOK
<1> QED
  BY <1>1 DEF ThreadsInv, SourceInv

LEMMA SourceInit == PipelineInit => SourceInv
BY DEF PipelineInit, Init, Nothing, SourceInv, SaverWaits, WorkerWaits, WithMemory

(* What an id names after the step. *)
NamesNext(id, a, t) ==
    id \in DOMAIN memories' => Holds(memories'[id].agent, memories'[id].text, a, t)

(* What is named before a step is named after it, whoever takes it. *)
LEMMA HeldNames ==
    ASSUME StoreInv, ThreadsInv, SourceInv, [PipelineNext]_pvars
    PROVE  /\ nextMemory \in Int /\ nextMemory' \in Int /\ nextMemory <= nextMemory'
           /\ \A f \in DOMAIN facts :
                NamesNext(facts[f].source, facts[f].agent, facts[f].value)
           /\ \A q \in DOMAIN factQueue :
                NamesNext(factQueue[q].source, factQueue[q].agent, factQueue[q].text)
           /\ worker.at # "wait" =>
                NamesNext(worker.job.source, worker.job.agent, worker.job.text)
           /\ saver.at \in WithMemory =>
                NamesNext(saver.id, saver.job.agent, saver.job.text)
<1>1. [Next]_vars
  BY ThreadsCallStore DEF StoreInv
<1>2. \A id, a, t : id # nextMemory /\ Names(id, a, t) => NamesNext(id, a, t)
  <2> SUFFICES ASSUME NEW id, NEW a, NEW t, id # nextMemory, Names(id, a, t)
               PROVE  NamesNext(id, a, t)
    OBVIOUS
  <2> QED
    BY <1>1, NewRows, RowsKeepText DEF StoreInv, Names, NamesNext
<1>3. nextMemory \in Int /\ nextMemory' \in Int /\ nextMemory <= nextMemory'
  BY <1>1, NewRows DEF StoreInv, TypeInv, TypeOK
<1> QED
  BY <1>2, <1>3, HeldIds DEF SourceInv

(* Facts keep their memory, the one a worker's job adds included. *)
LEMMA FactsNamed ==
    ASSUME StoreInv, ThreadsInv, SourceInv, [PipelineNext]_pvars,
           NEW f \in DOMAIN facts'
    PROVE  /\ facts'[f].source < nextMemory'
           /\ NamesNext(facts'[f].source, facts'[f].agent, facts'[f].value)
<1>1. CASE /\ f \in DOMAIN facts
           /\ facts'[f].source = facts[f].source
           /\ facts'[f].agent = facts[f].agent
           /\ facts'[f].value = facts[f].value
  <2>1. facts[f].source < nextMemory /\ facts[f].source \in Int
    BY <1>1 DEF SourceInv, StoreInv, TypeInv, TypeOK, IsTable, FactRow
  <2> QED
    BY <1>1, <2>1, HeldNames
<1>2. CASE /\ WorkerInsert
           /\ facts'[f].source = worker.job.source
           /\ facts'[f].agent = worker.job.agent
           /\ facts'[f].value = worker.job.text
  <2>1. worker.at # "wait"
    BY <1>2 DEF WorkerInsert
  <2>2. worker.job.source \in Int /\ worker.job.source < nextMemory
    BY <2>1 DEF ThreadsInv, FactJob, MemoryIds
  <2> QED
    BY <1>2, <2>1, <2>2, HeldNames
<1> QED
  BY <1>1, <1>2, FactsComeFromJobs

(* The id the saver goes on with names the memory where its turn went. *)
LEMMA SaverNames ==
    ASSUME StoreInv, TextInv, ThreadsInv, TurnsNumbered, SourceInv,
           [PipelineNext]_pvars, saver'.at \in WithMemory
    PROVE  NamesNext(saver'.id, saver'.job.agent, saver'.job.text)
<1> USE DEF WithMemory
<1>1. CASE SaverLookup
  <2>1. PICK id \in MemoryIds \cup {Hole} :
          /\ FindDuplicate(saver.job.agent, saver.job.text, id)
          /\ saver' = [saver EXCEPT !.at = IF id > 0 THEN "touch" ELSE "insert",
                                    !.id = id]
    BY <1>1 DEF SaverLookup
  <2>2. saver \in [at : AtWork \cup AtRest, job : Job \cup {NoJob},
                   id : MemoryIds \cup {0, Hole}]
    BY DEF ThreadsInv
  <2>3. saver'.id = id /\ saver'.job = saver.job /\ id # Hole
    BY <2>1, <2>2, IdsAreNumbers
  <2>4. id \in Alike(saver.job.agent, saver.job.text) /\ cache[id].id = id
    BY <2>1, <2>3, DuplicateFound DEF StoreInv, CacheInv
  <2>5. memories' = memories
    BY <1>1 DEF SaverLookup, vars, tables
  <2>6. id \in DOMAIN memories => /\ cache[id].agent = memories[id].agent
                                  /\ cache[id].text = memories[id].text
    BY <2>3, <2>4 DEF Alike, LiveIds, StoreInv, CacheInv, AgreeInv, TextInv
  <2> QED
    BY <2>3, <2>4, <2>5, <2>6 DEF Alike, Holds, NamesNext
<1>2. CASE SaverInsert
  <2>1. saver \in [at : AtWork \cup AtRest, job : Job \cup {NoJob},
                   id : MemoryIds \cup {0, Hole}]
    BY DEF ThreadsInv
  <2>2. saver'.id = nextMemory /\ saver'.job = saver.job
    BY <1>2, <2>1 DEF SaverInsert
  <2>3. /\ memories'[nextMemory].agent = saver.job.agent
        /\ memories'[nextMemory].text = saver.job.text
    BY <1>2 DEF SaverInsert, InsertRow, Put
  <2> QED
    BY <2>2, <2>3 DEF NamesNext, Holds, Visible
<1>3. CASE ~SaverLookup /\ ~SaverInsert
  <2>1. saver.at \in WithMemory /\ saver'.id = saver.id /\ saver'.job = saver.job
    <3>1. saver \in [at : AtWork \cup AtRest, job : Job \cup {NoJob},
                     id : MemoryIds \cup {0, Hole}]
      BY DEF ThreadsInv
    <3>2. CASE SaverTouch
      BY <3>1, <3>2 DEF SaverTouch
    <3>3. CASE SaverSentences
      BY <3>1, <3>3 DEF SaverSentences
    <3>4. CASE SaverEvict
      BY <3>1, <3>4 DEF SaverEvict
    <3>5. CASE SaverTake \/ SaverLose \/ SaverFacts \/ SaverTimeout \/ SaverHousekeeping
      <4>1. saver'.at \in {"embed", "wait", "housekeeping"}
        <5>1. SaverTake \/ SaverLose \/ SaverHousekeeping =>
                saver'.at \in {"embed", "wait"}
          BY DEF SaverTake, SaverLose, SaverHousekeeping, SaverWaits
        <5>2. SaverFacts => saver'.at = "housekeeping"
          BY <3>1 DEF SaverFacts
        <5>3. SaverTimeout => saver'.at = "housekeeping"
          BY <3>1 DEF SaverTimeout
        <5> QED
          BY <3>5, <5>1, <5>2, <5>3
      <4> QED
        BY <4>1
    <3>6. CASE saver' = saver
      BY <3>6
    <3>7. SaverStep \/ saver' = saver
      BY DEF PipelineNext, StoreStep, WorkerStep, WorkerTake, WorkerExtract,
             WorkerInsert, AdminRemove, AdminRemoveFact, TimePasses, EnqueueSave,
             threads, pvars
    <3> QED
      BY <1>3, <3>2, <3>3, <3>4, <3>5, <3>6, <3>7 DEF SaverStep
  <2> QED
    BY <2>1, HeldNames
<1> QED
  BY <1>1, <1>2, <1>3

(* Where an id is handed on, agent and text of the turn go with it. *)
LEMMA SourceStep ==
    ASSUME StoreInv, TextInv, ThreadsInv, TurnsNumbered, SourceInv,
           [PipelineNext]_pvars
    PROVE  SourceInv'
<1>1. \A f \in DOMAIN facts' : /\ facts'[f].source < nextMemory'
                               /\ NamesNext(facts'[f].source, facts'[f].agent,
                                            facts'[f].value)
  BY FactsNamed
<1>2. saver'.at \in WithMemory =>
        NamesNext(saver'.id, saver'.job.agent, saver'.job.text)
  BY SaverNames
<1>3. \A q \in DOMAIN factQueue' :
        NamesNext(factQueue'[q].source, factQueue'[q].agent, factQueue'[q].text)
  <2>1. CASE factQueue' = factQueue
    BY <2>1, HeldNames
  <2>2. CASE SaverFacts /\ factQueue' # factQueue
    <3> DEFINE job == [agent |-> saver.job.agent, text |-> saver.job.text,
                       source |-> saver.id]
               n == Len(factQueue)
    <3>1. factQueue' = Append(factQueue, job)
      BY <2>2 DEF SaverFacts
    <3>2. job \in FactJob /\ NamesNext(job.source, job.agent, job.text)
      BY <2>2, HeldNames DEF SaverFacts, ThreadsInv, FactJob, Job, AtWork, WithMemory
    <3> HIDE DEF job
    <3>3. /\ n \in Nat /\ DOMAIN factQueue = 1..n
          /\ DOMAIN factQueue' = 1..(n + 1)
          /\ \A q \in 1..n : factQueue'[q] = factQueue[q]
          /\ factQueue'[n + 1] = job
      BY <3>1, <3>2, OneMore DEF ThreadsInv
    <3> HIDE DEF n
    <3>4. \A q \in DOMAIN factQueue' : q \in DOMAIN factQueue \/ q = n + 1
      BY <3>3
    <3> QED
      BY <3>2, <3>3, <3>4, HeldNames
  <2>3. CASE WorkerTake
    <3> DEFINE n == Len(factQueue)
    <3>1. /\ n \in Nat \ {0} /\ DOMAIN factQueue = 1..n
          /\ DOMAIN Tail(factQueue) = 1..(n - 1)
          /\ \A q \in 1..(n - 1) : Tail(factQueue)[q] = factQueue[q + 1]
      BY <2>3, FirstAndRest DEF WorkerTake, ThreadsInv
    <3>2. factQueue' = Tail(factQueue)
      BY <2>3 DEF WorkerTake
    <3> HIDE DEF n
    <3>3. \A q \in 1..(n - 1) : q + 1 \in DOMAIN factQueue
      BY <3>1
    <3> QED
      BY <3>1, <3>2, <3>3, HeldNames
  <2>4. factQueue' = factQueue \/ SaverFacts \/ WorkerTake
    BY DEF PipelineNext, StoreStep, SaverStep, SaverTake, SaverLose, SaverLookup,
           SaverTouch, SaverInsert, SaverSentences, SaverEvict, SaverTimeout,
           SaverHousekeeping, WorkerStep, WorkerExtract, WorkerInsert, AdminRemove,
           AdminRemoveFact, TimePasses, EnqueueSave, threads, pvars
  <2> QED
    BY <2>1, <2>2, <2>3, <2>4
<1>4. worker'.at # "wait" =>
        NamesNext(worker'.job.source, worker'.job.agent, worker'.job.text)
  <2>0. worker \in [at : {"wait", "extract", "insert"}, job : FactJob \cup {NoJob}]
    BY DEF ThreadsInv
  <2>1. CASE WorkerTake
    <3>1. worker'.job = factQueue[1] /\ 1 \in DOMAIN factQueue
      BY <2>1, FirstAndRest DEF WorkerTake, ThreadsInv
    <3> QED
      BY <3>1, HeldNames
  <2>2. CASE WorkerExtract \/ WorkerInsert
    <3>1. /\ worker.at # "wait"
          /\ worker'.at # "wait" => worker'.job = worker.job
      BY <2>0, <2>2 DEF WorkerExtract, WorkerInsert, WorkerWaits
    <3> QED
      BY <3>1, HeldNames
  <2>3. CASE worker' = worker
    BY <2>3, HeldNames
  <2>4. WorkerStep \/ worker' = worker
    BY DEF PipelineNext, StoreStep, SaverStep, SaverTake, SaverLose, SaverLookup,
           SaverTouch, SaverInsert, SaverSentences, SaverEvict, SaverFacts,
           SaverTimeout, SaverHousekeeping, AdminRemove, AdminRemoveFact, TimePasses,
           EnqueueSave, threads, pvars
  <2> QED
    BY <2>1, <2>2, <2>3, <2>4 DEF WorkerStep
<1> QED
  BY <1>1, <1>2, <1>3, <1>4 DEF SourceInv, Names, NamesNext

LEMMA TextInit == Init => TextInv
BY DEF Init, Nothing, TextInv

(* The invariants of the pipeline that the properties below rest on. *)
PipelineInv ==
    StoreInv /\ ThreadsInv /\ TurnsNumbered /\ OwnerInv /\ TextInv /\ SourceInv

LEMMA PipelineInvInit == PipelineInit => PipelineInv
<1>1. PipelineInit => TurnsNumbered
  BY DEF PipelineInit, Nothing, TurnsNumbered
<1> QED
  BY <1>1, StoreInit, ThreadsInit, OwnerInit, TextInit, SourceInit
     DEF PipelineInit, PipelineInv

LEMMA PipelineInvStep == PipelineInv /\ [PipelineNext]_pvars => PipelineInv'
<1> SUFFICES ASSUME PipelineInv, [PipelineNext]_pvars
             PROVE  PipelineInv'
  OBVIOUS
<1> USE DEF PipelineInv
<1>1. [Next]_vars
  BY ThreadsCallStore DEF StoreInv
<1>2. OwnerInv'
  BY OwnerStep
<1>3. pc \notin NotLoaded /\ pc' # "closed"
  BY <1>2 DEF OwnerInv, NotLoaded
<1>4. TextInv'
  BY <1>1, <1>3, TextStep
<1> QED
  BY <1>1, <1>2, <1>4, StoreInvStep, ThreadsStep, NumberedStep, SourceStep

LEMMA PipelineInvEver == PipelineSpec => []PipelineInv
BY PipelineInvInit, PipelineInvStep, PTL DEF PipelineSpec

(* However long a fact job waits, and whatever is deleted and inserted in
   between: a fact's source is the memory its turn was saved as, one in sight
   it was merged with as near-identical, or no memory any more, whatever the
   likeness of turns and the threshold are.  What makes it true is that ids are
   not given out twice. *)
THEOREM FactsKeepTheirSourceEver == PipelineSpec => []FactsKeepTheirSource
<1>1. PipelineInv => FactsKeepTheirSource
  BY DEF PipelineInv, SourceInv, Names, Holds, FactsKeepTheirSource
<1> QED
  BY <1>1, PipelineInvEver, PTL

-----------------------------------------------------------------------------
(* Deduplication *)

LEMMA OnlySaverAddsRows ==
    ASSUME TypeInv, [PipelineNext]_pvars
    PROVE  SaverInsert \/ DOMAIN memories' \subseteq DOMAIN memories
<1> USE DEF tables, vars, DeleteRow, Drop, Restrict
<1>1. StoreStep => DOMAIN memories' \subseteq DOMAIN memories
  BY DEF StoreStep, AddToCache, TouchCache, EvictDates, EvictRow, EvictFacts,
         EvictCache, RemoveFacts, RemoveRow, RemoveCache, PurgeDates, PurgeFacts,
         PurgeRow, PurgeCache, Supersede
<1>2. SaverStep => SaverInsert \/ DOMAIN memories' \subseteq DOMAIN memories
  <2>1. SaverTouch => DOMAIN memories' \subseteq DOMAIN memories
    BY DEF SaverTouch, TouchRow
  <2> QED
    BY <2>1 DEF SaverStep, SaverTake, SaverLose, SaverLookup, SaverSentences,
                StoreSentences, SaverEvict, Evict, SaverFacts, SaverTimeout,
                SaverHousekeeping, Purge
<1>3. WorkerStep => UNCHANGED memories
  BY DEF WorkerStep, WorkerTake, WorkerExtract, WorkerInsert, InsertFact,
         InsertRival, InsertFactRow
<1> QED
  BY <1>1, <1>2, <1>3
     DEF PipelineNext, AdminRemove, Remove, AdminRemoveFact, RemoveFact, TimePasses,
         DayPasses, EnqueueSave, pvars

(* The same after a step. *)
HoleNext(a, t, v, k) ==
    \E m \in DOMAIN cache' : /\ Visible(a, cache'[m].agent)
                             /\ Close(t, cache'[m].text)
                             /\ cache'[m].id = Hole
                             /\ Preferred(t, cache'[m].text, m, v, k)

(* Between find_duplicate's "none" and the insert, made without db_mutex_: still
   an overwritten entry comes before each close one that is served. *)
LookupInv ==
    saver.at = "insert" =>
      LET a == saver.job.agent
          t == saver.job.text
      IN  \A k \in Alike(a, t) :
            cache[k].id = Hole \/ HoleBefore(a, t, cache[k].text, k)

DupInv == NoDuplicateMemories /\ LookupInv

(* A row whose operation is over has its entry, so find_duplicate sees it. *)
LEMMA RowsAreServed ==
    ASSUME PipelineInv, pc = "idle", NEW i \in DOMAIN memories
    PROVE  /\ i \in DOMAIN cache /\ cache[i].id # Hole
           /\ cache[i].agent = memories[i].agent
           /\ cache[i].text = memories[i].text
<1>1. i \in LiveIds
  BY DEF PipelineInv, StoreInv, CacheInv, ServedInv, OwnerInv
<1>2. cache[i].agent = memories[i].agent
  BY <1>1 DEF PipelineInv, StoreInv, CacheInv, AgreeInv
<1> QED
  BY <1>1, <1>2 DEF LiveIds, PipelineInv, TextInv

LEMMA HolesStay ==
    ASSUME PipelineInv, [PipelineNext]_pvars, NEW a, NEW t, NEW v, NEW k,
           HoleBefore(a, t, v, k)
    PROVE  HoleNext(a, t, v, k)
<1>1. [Next]_vars /\ pc \notin NotLoaded /\ pc' # "closed"
  BY ThreadsCallStore, OwnerStep DEF PipelineInv, StoreInv, OwnerInv, NotLoaded
<1>2. PICK m \in Alike(a, t) :
        cache[m].id = Hole /\ Preferred(t, cache[m].text, m, v, k)
  BY DEF HoleBefore
<1>3. m \in DOMAIN cache' /\ cache'[m].id = Hole
  BY <1>1, <1>2, EntriesKeepText DEF PipelineInv, StoreInv, Alike
<1>4. cache'[m].agent = cache[m].agent /\ cache'[m].text = cache[m].text
  BY <1>1, <1>2, <1>3, EntriesKeepText DEF PipelineInv, StoreInv, Alike
<1> QED
  BY <1>2, <1>3, <1>4 DEF HoleNext, Alike

LEMMA DupInit == PipelineInit => DupInv
BY DEF PipelineInit, Init, Nothing, SaverWaits, DupInv, NoDuplicateMemories, LookupInv

LEMMA LookupStep ==
    ASSUME PipelineInv, LookupInv, [PipelineNext]_pvars
    PROVE  LookupInv'
<1> DEFINE a == saver.job.agent
           t == saver.job.text
<1>0. saver \in [at : AtWork \cup AtRest, job : Job \cup {NoJob},
                 id : MemoryIds \cup {0, Hole}]
  BY DEF PipelineInv, ThreadsInv
<1>1. CASE SaverLookup
  <2>1. PICK id \in MemoryIds \cup {Hole} :
          /\ FindDuplicate(a, t, id)
          /\ saver' = [saver EXCEPT !.at = IF id > 0 THEN "touch" ELSE "insert",
                                    !.id = id]
    BY <1>1 DEF SaverLookup
  <2>2. saver'.job = saver.job /\ saver'.at = IF id > 0 THEN "touch" ELSE "insert"
    BY <1>0, <2>1
  <2>3. saver'.at = "insert" => id = Hole
    BY <2>1, <2>2, IdsAreNumbers
  <2>4. saver'.at = "insert" =>
          \A k \in Alike(a, t) : cache[k].id = Hole \/ HoleBefore(a, t, cache[k].text, k)
    BY <2>1, <2>3, DuplicateFound, HoleIsNoId
       DEF PipelineInv, StoreInv, CacheInv, Alike, TypeInv, TypeOK, IsTable
  <2>5. cache' = cache
    BY <1>1 DEF SaverLookup, vars, ram
  <2> QED
    BY <2>2, <2>4, <2>5 DEF LookupInv, HoleBefore, Alike
<1>2. CASE saver'.at = "insert" /\ ~SaverLookup
  <2>1. saver.at = "insert" /\ saver' = saver
    <3>1. CASE SaverStep
      <4>1. SaverTake \/ SaverLose \/ SaverHousekeeping =>
              saver'.at \in {"embed", "wait"}
        BY DEF SaverTake, SaverLose, SaverHousekeeping, SaverWaits
      <4>2. SaverFacts \/ SaverTouch => saver'.at \in {"housekeeping", "facts"}
        BY <1>0 DEF SaverFacts, SaverTouch
      <4>3. SaverInsert => saver'.at = "sentences"
        BY <1>0 DEF SaverInsert
      <4>4. SaverSentences \/ SaverEvict => saver'.at \in {"evict", "facts"}
        BY <1>0 DEF SaverSentences, SaverEvict
      <4>5. SaverTimeout => saver'.at = "housekeeping"
        BY <1>0 DEF SaverTimeout
      <4> QED
        BY <1>2, <3>1, <4>1, <4>2, <4>3, <4>4, <4>5 DEF SaverStep
    <3>2. SaverStep \/ saver' = saver
      BY DEF PipelineNext, StoreStep, WorkerStep, WorkerTake, WorkerExtract,
             WorkerInsert, AdminRemove, AdminRemoveFact, TimePasses, EnqueueSave,
             threads, pvars
    <3> QED
      BY <1>2, <3>1, <3>2
  <2>2. ~AddToCache
    BY <2>1 DEF AddToCache, PipelineInv, OwnerInv, SaverOps
  <2>3. [Next]_vars /\ pc \notin NotLoaded /\ pc' # "closed"
    BY ThreadsCallStore, OwnerStep DEF PipelineInv, StoreInv, OwnerInv, NotLoaded
  <2> HIDE DEF a, t
  <2>4. ASSUME NEW k \in DOMAIN cache', Visible(a, cache'[k].agent),
               Close(t, cache'[k].text), cache'[k].id # Hole
        PROVE  HoleNext(a, t, cache'[k].text, k)
    <3>1. /\ k \in DOMAIN cache
          /\ cache'[k].agent = cache[k].agent /\ cache'[k].text = cache[k].text
          /\ cache[k].id # Hole
      BY <2>2, <2>3, <2>4, EntriesKeepText DEF PipelineInv, StoreInv
    <3>2. k \in Alike(a, t)
      BY <2>4, <3>1 DEF Alike
    <3>3. HoleBefore(a, t, cache[k].text, k)
      BY <2>1, <3>1, <3>2 DEF LookupInv, a, t
    <3> QED
      BY <3>1, <3>3, HolesStay
  <2> QED
    BY <2>1, <2>4 DEF LookupInv, HoleBefore, HoleNext, Alike, a, t
<1> QED
  BY <1>1, <1>2 DEF LookupInv

LEMMA NoDuplicatesStep ==
    ASSUME PipelineInv, DupInv, [PipelineNext]_pvars
    PROVE  NoDuplicateMemories'
<1>0. [Next]_vars /\ TypeInv /\ TableInv /\ CacheInv
  BY ThreadsCallStore DEF PipelineInv, StoreInv
<1> SUFFICES ASSUME NEW i \in DOMAIN memories', NEW j \in DOMAIN memories', i < j,
                    Visible(memories'[j].agent, memories'[i].agent),
                    Close(memories'[j].text, memories'[i].text)
             PROVE  HoleNext(memories'[j].agent, memories'[j].text,
                             memories'[i].text, i)
  BY DEF NoDuplicateMemories, HoleNext, Alike
<1>1. CASE i \in DOMAIN memories /\ j \in DOMAIN memories
  <2>1. /\ memories'[i].agent = memories[i].agent /\ memories'[i].text = memories[i].text
        /\ memories'[j].agent = memories[j].agent /\ memories'[j].text = memories[j].text
    BY <1>0, <1>1, RowsKeepText
  <2>2. HoleBefore(memories[j].agent, memories[j].text, memories[i].text, i)
    BY <1>1, <2>1 DEF DupInv, NoDuplicateMemories, HoleBefore
  <2> QED
    BY <2>1, <2>2, HolesStay
<1>2. CASE ~(i \in DOMAIN memories /\ j \in DOMAIN memories)
  <2>1. SaverInsert
    BY <1>0, <1>2, OnlySaverAddsRows
  <2>2. /\ pc = "idle" /\ saver.at = "insert"
        /\ DOMAIN memories' = DOMAIN memories \cup {nextMemory}
        /\ memories'[nextMemory].agent = saver.job.agent
        /\ memories'[nextMemory].text = saver.job.text
    BY <2>1 DEF SaverInsert, InsertRow, Put
  <2>3. j = nextMemory /\ i \in DOMAIN memories
    <3>1. nextMemory \in Int /\ \A k \in DOMAIN memories : k < nextMemory /\ k \in Int
      BY <1>0 DEF TableInv, TypeInv, TypeOK, IsTable, MemoryIds
    <3> QED
      BY <1>2, <2>2, <3>1
  <2>4. memories'[i].agent = memories[i].agent /\ memories'[i].text = memories[i].text
    BY <1>0, <2>3, RowsKeepText
  <2>5. /\ i \in Alike(saver.job.agent, saver.job.text)
        /\ cache[i].id # Hole /\ cache[i].text = memories[i].text
    BY <2>2, <2>3, <2>4, RowsAreServed DEF Alike
  <2>6. HoleBefore(saver.job.agent, saver.job.text, memories[i].text, i)
    BY <2>2, <2>5 DEF DupInv, LookupInv
  <2> QED
    BY <2>2, <2>3, <2>4, <2>6, HolesStay
<1> QED
  BY <1>1, <1>2

(* No turn is stored in sight of an older live memory it is near-identical to,
   whatever is deleted between the lookup and the insert, and whatever the
   likeness of turns and the threshold are; the exception is an entry the purge
   left behind that the scan preferred. *)
THEOREM NoDuplicateMemoriesEver == PipelineSpec => []NoDuplicateMemories
<1>1. PipelineInit => DupInv
  BY DupInit
<1>2. PipelineInv /\ DupInv /\ [PipelineNext]_pvars => DupInv'
  BY LookupStep, NoDuplicatesStep DEF DupInv
<1>3. DupInv => NoDuplicateMemories
  BY DEF DupInv
<1> QED
  BY <1>1, <1>2, <1>3, PipelineInvEver, PTL DEF PipelineSpec

-----------------------------------------------------------------------------
(* The save queue's accounts *)

InOrder(s) == \A p, q \in DOMAIN s : p < q => s[p].turn < s[q].turn
TurnsOn(s) == {s[q].turn : q \in DOMAIN s}
TurnsOf(what) == {n \in DOMAIN fate : fate[n] = what}

LEMMA TakeFirst ==
    ASSUME NEW s \in Seq(Job), s # <<>>, InOrder(s)
    PROVE  /\ InOrder(Tail(s))
           /\ Head(s).turn \in TurnsOn(s)
           /\ TurnsOn(Tail(s)) = TurnsOn(s) \ {Head(s).turn}
           /\ \A n \in TurnsOn(Tail(s)) : Head(s).turn < n
<1> DEFINE k == Len(s)
           r == Tail(s)
<1>1. /\ k \in Nat \ {0} /\ DOMAIN s = 1..k
      /\ Head(s) = s[1]
      /\ DOMAIN r = 1..(k - 1)
      /\ \A q \in 1..(k - 1) : r[q] = s[q + 1]
  BY FirstAndRest
<1> HIDE DEF k, r
<1>2. \A q \in 1..k : s[q] \in Job
  BY <1>1
<1>3. \A q \in 1..k : s[q].turn \in Nat
  BY <1>2 DEF Job
<1>4. \A q \in 1..(k - 1) : q + 1 \in 1..k /\ r[q].turn = s[q + 1].turn
  BY <1>1
<1>5. \A q \in 1..k : q # 1 => q - 1 \in 1..(k - 1) /\ r[q - 1].turn = s[q].turn
  <2>1. \A q \in 1..k : q # 1 => q - 1 \in 1..(k - 1) /\ (q - 1) + 1 = q
    BY <1>1
  <2> QED
    BY <1>1, <2>1
<1>6. InOrder(r)
  <2> SUFFICES ASSUME NEW p \in 1..(k - 1), NEW q \in 1..(k - 1), p < q
               PROVE  r[p].turn < r[q].turn
    BY <1>1 DEF InOrder
  <2>1. p + 1 < q + 1
    BY <1>1
  <2> QED
    BY <1>1, <1>4, <2>1 DEF InOrder
<1>7. \A q \in 1..(k - 1) : s[1].turn < r[q].turn
  <2> SUFFICES ASSUME NEW q \in 1..(k - 1)
               PROVE  s[1].turn < r[q].turn
    OBVIOUS
  <2>1. 1 \in 1..k /\ 1 < q + 1
    BY <1>1
  <2> QED
    BY <1>1, <1>4, <2>1 DEF InOrder
<1>8. \A n \in TurnsOn(r) : n \in TurnsOn(s) /\ s[1].turn < n
  BY <1>1, <1>4, <1>7 DEF TurnsOn
<1>9. \A n \in TurnsOn(s) : n = s[1].turn \/ n \in TurnsOn(r)
  <2>1. \A q \in 1..k : q # 1 => s[q].turn \in TurnsOn(r)
    <3> SUFFICES ASSUME NEW q \in 1..k, q # 1
                 PROVE  s[q].turn \in TurnsOn(r)
      OBVIOUS
    <3>1. q - 1 \in DOMAIN r /\ r[q - 1].turn = s[q].turn
      BY <1>1, <1>5
    <3> QED
      BY <3>1 DEF TurnsOn
  <2> QED
    BY <1>1, <2>1 DEF TurnsOn
<1>10. 1 \in 1..k /\ s[1].turn \in TurnsOn(s) /\ ~(s[1].turn < s[1].turn)
  <2>1. 1 \in 1..k
    BY <1>1
  <2> QED
    BY <1>1, <1>3, <2>1 DEF TurnsOn
<1>11. s[1].turn \notin TurnsOn(r)
  BY <1>8, <1>10
<1> QED
  BY <1>1, <1>6, <1>8, <1>9, <1>10, <1>11 DEF r

LEMMA AddLast ==
    ASSUME NEW s \in Seq(Job), NEW j \in Job, InOrder(s),
           \A n \in TurnsOn(s) : n < j.turn
    PROVE  InOrder(Append(s, j)) /\ TurnsOn(Append(s, j)) = TurnsOn(s) \cup {j.turn}
<1> DEFINE k == Len(s)
           r == Append(s, j)
<1>1. /\ k \in Nat /\ DOMAIN s = 1..k /\ DOMAIN r = 1..(k + 1)
      /\ \A q \in 1..k : r[q] = s[q]
      /\ r[k + 1] = j
  BY OneMore
<1> HIDE DEF k, r
<1>2. \A q \in 1..(k + 1) : q \in 1..k \/ q = k + 1
  BY <1>1
<1>3. \A q \in 1..k : s[q].turn < j.turn
  BY <1>1 DEF TurnsOn
<1>4. InOrder(r)
  BY <1>1, <1>2, <1>3 DEF InOrder
<1>5. TurnsOn(r) = TurnsOn(s) \cup {j.turn}
  BY <1>1, <1>2 DEF TurnsOn
<1> QED
  BY <1>4, <1>5 DEF r

(* What is held is what the saver has taken and not yet brought to the store. *)
AccountInv ==
    /\ Len(saveQueue) <= SaveCap
    /\ InOrder(saveQueue)
    /\ TurnsOn(saveQueue) = TurnsOf("queued")
    /\ TurnsOf("held") = IF saver.at \in {"embed", "touch", "insert"}
                         THEN {saver.job.turn} ELSE {}
    /\ saveDrops = Cardinality(TurnsOf("dropped"))
    /\ \A n \in TurnsOf("dropped"), m \in TurnsOf("queued") : n < m

LEMMA AccountInit == PipelineInit => AccountInv
<1> SUFFICES ASSUME PipelineInit PROVE AccountInv
  OBVIOUS
<1>1. DOMAIN fate = {} /\ saveQueue = <<>> /\ saveDrops = 0 /\ saver.at = "wait"
  BY DEF PipelineInit, Nothing, SaverWaits
<1>2. Len(saveQueue) = 0 /\ DOMAIN saveQueue = {} /\ SaveCap \in Nat
  BY <1>1, PipelineAssumption
<1> QED
  BY <1>1, <1>2, FS_EmptySet DEF AccountInv, InOrder, TurnsOn, TurnsOf

LEMMA AccountEnqueue ==
    ASSUME PipelineInv, AccountInv, NEW a \in Agents, NEW t \in Texts,
           EnqueueSave(a, t)
    PROVE  AccountInv'
<1> DEFINE full == SaveQueueFull
           kept == IF full THEN Tail(saveQueue) ELSE saveQueue
           first == Head(saveQueue).turn
           job == [turn |-> NextTurn, agent |-> a, text |-> t]
           N == NextTurn - 1
<1>1. /\ saveQueue' = Append(kept, job)
      /\ saveDrops' = IF full THEN saveDrops + 1 ELSE saveDrops
      /\ fate' = Put(IF full THEN [fate EXCEPT ![first] = "dropped"] ELSE fate,
                     NextTurn, "queued")
      /\ saver' = saver
  BY DEF EnqueueSave, NextTurn
<1>2. /\ NextTurn \in Nat \ {0} /\ DOMAIN fate = 1..N /\ IsFiniteSet(DOMAIN fate)
      /\ saveQueue \in Seq(Job) /\ SaveCap \in Nat \ {0} /\ job \in Job
      /\ Len(saveQueue) \in Nat
  BY NextTurnIsNext, PipelineAssumption DEF PipelineInv, ThreadsInv, Job
<1>3. full => saveQueue # <<>> /\ Len(saveQueue) = SaveCap
  BY <1>2 DEF SaveQueueFull, AccountInv
<1>4. ~full => Len(saveQueue) < SaveCap
  BY <1>2 DEF SaveQueueFull
<1>5. full => first \in TurnsOf("queued") /\ first \in DOMAIN fate
  BY <1>2, <1>3, TakeFirst DEF AccountInv, TurnsOf
<1>6. /\ kept \in Seq(Job) /\ Len(kept) \in Nat /\ Len(kept) < SaveCap /\ InOrder(kept)
      /\ TurnsOn(kept) = IF full THEN TurnsOf("queued") \ {first} ELSE TurnsOf("queued")
  <2>1. CASE full
    <3>1. /\ saveQueue # <<>> /\ kept = Tail(saveQueue)
          /\ Len(Tail(saveQueue)) = Len(saveQueue) - 1
          /\ Tail(saveQueue) \in Seq(Job)
      BY <1>2, <1>3, <2>1, FirstAndRest
    <3>2. InOrder(Tail(saveQueue)) /\ TurnsOn(Tail(saveQueue)) = TurnsOf("queued") \ {first}
      BY <1>2, <3>1, TakeFirst DEF AccountInv
    <3>3. Len(Tail(saveQueue)) \in Nat /\ Len(Tail(saveQueue)) < SaveCap
      BY <1>2, <1>3, <2>1, <3>1
    <3> QED
      BY <2>1, <3>1, <3>2, <3>3
  <2>2. CASE ~full
    BY <1>2, <1>4, <2>2 DEF AccountInv
  <2> QED
    BY <2>1, <2>2
<1>7. \A n \in TurnsOn(kept) : n < job.turn
  BY <1>2, <1>6 DEF TurnsOf
<1> HIDE DEF kept, job, full, first
<1>8. /\ InOrder(saveQueue') /\ Len(saveQueue') <= SaveCap
      /\ TurnsOn(saveQueue') = TurnsOn(kept) \cup {NextTurn}
  <2>1. job.turn = NextTurn
    BY DEF job
  <2> QED
    BY <1>1, <1>2, <1>6, <1>7, <2>1, AddLast
<1>9. /\ DOMAIN fate' = DOMAIN fate \cup {NextTurn}
      /\ NextTurn \notin DOMAIN fate
      /\ fate'[NextTurn] = "queued"
      /\ \A n \in DOMAIN fate :
           fate'[n] = IF full /\ n = first THEN "dropped" ELSE fate[n]
  <2>1. NextTurn \notin DOMAIN fate
    BY <1>2
  <2> QED
    BY <1>1, <2>1 DEF Put
<1>10. /\ TurnsOf("queued")' = TurnsOn(kept) \cup {NextTurn}
       /\ TurnsOf("held")' = TurnsOf("held")
       /\ TurnsOf("dropped")' = IF full THEN TurnsOf("dropped") \cup {first}
                                        ELSE TurnsOf("dropped")
  BY <1>5, <1>6, <1>9 DEF TurnsOf
<1>11. saveDrops' = Cardinality(TurnsOf("dropped")')
  <2>1. IsFiniteSet(TurnsOf("dropped"))
    BY <1>2, FS_Subset DEF TurnsOf
  <2>2. full => first \notin TurnsOf("dropped")
    BY <1>5 DEF TurnsOf
  <2> QED
    BY <1>1, <1>10, <2>1, <2>2, FS_AddElement DEF AccountInv
<1>12. \A n \in TurnsOf("dropped")', m \in TurnsOf("queued")' : n < m
  <2>1. \A n \in DOMAIN fate : n < NextTurn
    BY <1>2
  <2>2. full => \A m \in TurnsOn(kept) : first < m
    BY <1>2, <1>3, TakeFirst DEF AccountInv, kept, first
  <2>3. \A n \in TurnsOf("dropped"), m \in TurnsOn(kept) : n < m
    BY <1>6 DEF AccountInv
  <2> QED
    BY <1>5, <1>10, <2>1, <2>2, <2>3 DEF TurnsOf
<1> QED
  BY <1>1, <1>6, <1>8, <1>10, <1>11, <1>12 DEF AccountInv

(* The saver settles the turn it holds. *)
LEMMA AccountSettle ==
    ASSUME PipelineInv, AccountInv, saver.at \in {"embed", "touch", "insert"},
           saver'.at \notin {"embed", "touch", "insert"},
           UNCHANGED <<saveQueue, saveDrops>>,
           NEW what \in {"lost", "merged", "saved"},
           fate' = [fate EXCEPT ![saver.job.turn] = what]
    PROVE  AccountInv'
<1>1. /\ saver.job.turn \in DOMAIN fate /\ fate[saver.job.turn] = "held"
      /\ TurnsOf("held") = {saver.job.turn}
  BY DEF AccountInv, TurnsOf
<1>2. /\ TurnsOf("queued")' = TurnsOf("queued")
      /\ TurnsOf("dropped")' = TurnsOf("dropped")
      /\ TurnsOf("held")' = {}
  BY <1>1 DEF TurnsOf
<1> QED
  BY <1>2 DEF AccountInv

LEMMA AccountStep ==
    ASSUME PipelineInv, AccountInv, [PipelineNext]_pvars
    PROVE  AccountInv'
<1>0. saver \in [at : AtWork \cup AtRest, job : Job \cup {NoJob},
                 id : MemoryIds \cup {0, Hole}]
  BY DEF PipelineInv, ThreadsInv
<1>1. CASE SaverTake
  <2> DEFINE first == Head(saveQueue).turn
  <2>1. /\ saveQueue \in Seq(Job) /\ saveQueue # <<>>
        /\ saveQueue' = Tail(saveQueue) /\ saveDrops' = saveDrops
        /\ fate' = [fate EXCEPT ![first] = "held"]
        /\ saver'.at = "embed" /\ saver'.job.turn = first /\ saver.at = "wait"
    BY <1>1 DEF SaverTake, PipelineInv, ThreadsInv
  <2>2. /\ InOrder(saveQueue') /\ TurnsOn(saveQueue') = TurnsOn(saveQueue) \ {first}
        /\ first \in TurnsOn(saveQueue)
    BY <2>1, TakeFirst DEF AccountInv
  <2>3. Len(saveQueue') <= SaveCap
    <3>1. Len(saveQueue) \in Nat /\ Len(saveQueue') = Len(saveQueue) - 1
      BY <2>1, FirstAndRest
    <3> QED
      BY <3>1, PipelineAssumption DEF AccountInv
  <2>4. first \in TurnsOf("queued") /\ TurnsOf("held") = {}
    BY <2>1, <2>2 DEF AccountInv
  <2> HIDE DEF first
  <2>5. /\ TurnsOf("queued")' = TurnsOf("queued") \ {first}
        /\ TurnsOf("held")' = {first}
        /\ TurnsOf("dropped")' = TurnsOf("dropped")
    BY <2>1, <2>4 DEF TurnsOf
  <2> QED
    BY <2>1, <2>2, <2>3, <2>5 DEF AccountInv
<1>2. CASE SaverLose
  BY <1>2, AccountSettle DEF SaverLose, SaverWaits
<1>3. CASE SaverTouch
  BY <1>0, <1>3, AccountSettle DEF SaverTouch
<1>4. CASE SaverInsert
  BY <1>0, <1>4, AccountSettle DEF SaverInsert
<1>5. CASE SaverLookup
  <2>1. /\ saver.at = "embed" /\ saver'.at \in {"touch", "insert"}
        /\ saver'.job = saver.job
        /\ UNCHANGED <<fate, saveQueue, saveDrops>>
    BY <1>0, <1>5 DEF SaverLookup
  <2> QED
    BY <2>1 DEF AccountInv, TurnsOf
<1>6. CASE SaverSentences \/ SaverEvict \/ SaverFacts \/ SaverTimeout \/ SaverHousekeeping
  <2>1. /\ saver.at \notin {"embed", "touch", "insert"}
        /\ UNCHANGED <<fate, saveQueue, saveDrops>>
    BY <1>6 DEF SaverSentences, SaverEvict, SaverFacts, SaverTimeout, SaverHousekeeping
  <2>2. saver'.at \notin {"embed", "touch", "insert"}
    <3>1. SaverSentences \/ SaverEvict => saver'.at \in {"evict", "facts"}
      BY <1>0 DEF SaverSentences, SaverEvict
    <3>2. SaverFacts => saver'.at = "housekeeping"
      BY <1>0 DEF SaverFacts
    <3>3. SaverTimeout => saver'.at = "housekeeping"
      BY <1>0 DEF SaverTimeout
    <3>4. SaverHousekeeping => saver'.at = "wait"
      BY DEF SaverHousekeeping, SaverWaits
    <3> QED
      BY <1>6, <3>1, <3>2, <3>3, <3>4
  <2> QED
    BY <2>1, <2>2 DEF AccountInv, TurnsOf
<1>7. CASE UNCHANGED <<fate, saveQueue, saveDrops, saver>>
  BY <1>7 DEF AccountInv, TurnsOf
<1>8. \/ SaverStep
      \/ \E a \in Agents, t \in Texts : EnqueueSave(a, t)
      \/ UNCHANGED <<fate, saveQueue, saveDrops, saver>>
  BY DEF PipelineNext, StoreStep, WorkerStep, WorkerTake, WorkerExtract,
         WorkerInsert, AdminRemove, AdminRemoveFact, TimePasses, threads, pvars
<1> QED
  BY <1>1, <1>2, <1>3, <1>4, <1>5, <1>6, <1>7, <1>8, AccountEnqueue DEF SaverStep

(* No turn is lost track of, however many come: the queue holds, in order and up
   to its capacity, the turns nothing has happened to, and what the drop counter
   counts is older than all of them. *)
THEOREM TurnsAccountedEver == PipelineSpec => []TurnsAccounted
<1>1. PipelineInv /\ AccountInv => TurnsAccounted
  <2> SUFFICES ASSUME PipelineInv, AccountInv
               PROVE  TurnsAccounted
    OBVIOUS
  <2>1. \A n \in DOMAIN fate : fate[n] = "held" => saver.job.turn = n
    BY DEF AccountInv, TurnsOf
  <2>2. \A n \in DOMAIN fate, q \in DOMAIN saveQueue :
          fate[n] = "dropped" => n < saveQueue[q].turn
    BY DEF AccountInv, TurnsOf, TurnsOn
  <2> QED
    BY <2>1, <2>2 DEF TurnsAccounted, AccountInv, InOrder, TurnsOn, TurnsOf
<1>2. PipelineInit => AccountInv
  BY AccountInit
<1>3. PipelineInv /\ AccountInv /\ [PipelineNext]_pvars => AccountInv'
  BY AccountStep
<1> QED
  BY <1>1, <1>2, <1>3, PipelineInvEver, PTL DEF PipelineSpec
=============================================================================
