----------------------------- MODULE MemoryStore -----------------------------
(***************************************************************************)
(* The memory store: SQLite tables, the RAM caches beside them, and every  *)
(* operation of class MemoryStore that writes to either.                   *)
(*                                                                         *)
(* Every writing operation holds db_mutex_ from its first statement to its *)
(* return, so at most one is in progress: pc names where it stands.  But   *)
(* each SQL statement commits on its own and the cache has a mutex of its  *)
(* own, so two things happen between the steps of an operation: a reader   *)
(* (search, list_memories, find_duplicate, get_stats) looks at the cache,  *)
(* and the process dies.  Each statement is therefore a step.  RAM that    *)
(* only db_mutex_ guards (facts_cache_) is written in the step of the      *)
(* statement before it: nobody can look in between, and a crash loses it.  *)
(*                                                                         *)
(* A memory's texts are abstracted to the days they mention, its vectors   *)
(* to nothing (module VectorIndex has the flat array).  Time is in days,   *)
(* the unit of the eviction score.                                         *)
(***************************************************************************)
EXTENDS Integers, FiniteSets, Functions

CONSTANTS
    Agents,        \* agent namespaces, Global among them
    Global,        \* the empty agent id
    Texts,         \* what a turn can say
    Mentions,      \* Mentions[t]: days extract_mentioned_days finds in t
    Keys, Values,  \* normalized fact keys and values
    MaxPerAgent, MaxGlobal,   \* eviction caps
    Ttl,           \* memory_ttl_days, 0 for off
    MaxMemory, MaxFact, MaxCount, MaxNow, MaxCrashes  \* bounds of the model

Hole == -1         \* the id purge_expired writes over a cache entry's id
Active == 0        \* a NULL superseded_by

Days == UNION {Mentions[t] : t \in Texts}

ASSUME StoreAssumption ==
    /\ Global \in Agents
    /\ Mentions \in [Texts -> SUBSET Int]
    /\ {MaxPerAgent, MaxGlobal, Ttl} \subseteq Nat
    /\ {MaxMemory, MaxFact, MaxCount, MaxNow, MaxCrashes} \subseteq Nat

VARIABLES
    (* SQLite, durable *)
    memories,      \* table memories: id -> row
    memoryDates,   \* table memory_dates: set of <<memory_id, day>>
    sentences,     \* memory ids that have rows in memory_sentences
    facts,         \* table facts: id -> row
    nextMemory, nextFact,    \* AUTOINCREMENT: ids are never given out twice
    (* RAM *)
    cache,         \* cache_: keyed by the memory the entry was built from
    factsCache,    \* facts_cache_
    (* the operation that holds db_mutex_ *)
    pc,
    cur,           \* the memory or fact it works on, 0 if none
    victims,       \* ids_to_remove / to_delete
    todo,          \* the part of them its present loop has not reached
    (* environment *)
    now, crashes

tables == <<memories, memoryDates, sentences, facts, nextMemory, nextFact>>
ram == <<cache, factsCache>>
op == <<pc, cur, victims, todo>>
vars == <<tables, ram, op, now, crashes>>

MemoryIds == 1..MaxMemory
FactIds == 1..MaxFact

Row == [agent : Agents, text : Texts, created : 0..MaxNow,
        updated : 0..MaxNow, count : Nat]
FactRow == [agent : Agents, key : Keys, value : Values,
            source : 0..MaxMemory, superseded : 0..MaxFact]
Entry == [id : MemoryIds \cup {Hole}, agent : Agents, text : Texts,
          created : 0..MaxNow, days : SUBSET Days, count : Nat]

Pc == {"closed", "opening", "idle", "insert", "touch", "supersede",
       "evictDates", "evictRows", "evictFacts", "evictCache",
       "removeFacts", "removeRow", "removeCache",
       "purgeDates", "purgeRow", "purgeFacts", "purgeCache"}

IsTable(f, Ids, T) == DOMAIN f \subseteq Ids /\ f \in [DOMAIN f -> T]

TypeOK ==
    /\ IsTable(memories, MemoryIds, Row)
    /\ memoryDates \subseteq MemoryIds \X Days
    /\ sentences \subseteq MemoryIds
    /\ IsTable(facts, FactIds, FactRow)
    /\ nextMemory \in 1..(MaxMemory + 1)
    /\ nextFact \in 1..(MaxFact + 1)
    /\ IsTable(cache, MemoryIds, Entry)
    /\ IsTable(factsCache, FactIds, FactRow)
    /\ pc \in Pc
    /\ cur \in {0} \cup MemoryIds \cup FactIds
    /\ victims \subseteq MemoryIds
    /\ todo \subseteq MemoryIds \cup FactIds
    /\ now \in 0..MaxNow
    /\ crashes \in 0..MaxCrashes

-----------------------------------------------------------------------------
(* Helpers *)

IsLeast(x, S) == x \in S /\ \A y \in S : x <= y

Drop(f, S) == Restrict(f, DOMAIN f \ S)
Put(f, x, v) == [y \in DOMAIN f \cup {x} |-> IF y = x THEN v ELSE f[y]]
Nothing == [i \in {} |-> i]    \* the empty table or cache

DatesOf(i) == {d \in Days : <<i, d>> \in memoryDates}
MissingDates(i) == Mentions[memories[i].text] \ DatesOf(i)

MemoriesOf(a) == {i \in DOMAIN memories : memories[i].agent = a}
LimitOf(a) == IF a = Global THEN MaxGlobal ELSE MaxPerAgent

(* updated_at + 86400 * access_count, in days *)
Score(i) == memories[i].updated + memories[i].count

Expired == {i \in DOMAIN memories : memories[i].created < now - Ttl}

DerivedFrom(table, S) == {f \in DOMAIN table : table[f].source \in S}

(* A reader of namespace a sees its own memories and the global ones; the
   global namespace sees only itself. *)
Visible(a, owner) == owner = Global \/ owner = a

LiveIds == {i \in DOMAIN cache : cache[i].id # Hole}

Goto(next, id, ids, rest) ==
    pc' = next /\ cur' = id /\ victims' = ids /\ todo' = rest

Return == Goto("idle", 0, {}, {})

(* Mutant: foreign keys left off, as SQLite's default is. *)
DeleteRowNoCascade(i) ==
    /\ memories' = Drop(memories, {i})
    /\ UNCHANGED <<memoryDates, sentences>>

(* DELETE FROM memories WHERE id = i; the foreign keys cascade. *)
DeleteRow(i) ==
    /\ memories' = Drop(memories, {i})
    /\ memoryDates' = {r \in memoryDates : r[1] # i}
    /\ sentences' = sentences \ {i}

(* DELETE FROM memory_dates WHERE memory_id = i *)
DeleteDates(i) == memoryDates' = {r \in memoryDates : r[1] # i}

(* DELETE FROM facts WHERE source_memory_id IN S *)
DeleteFacts(S) == facts' = Drop(facts, DerivedFrom(facts, S))
ForgetFacts(S) == factsCache' = Drop(factsCache, DerivedFrom(factsCache, S))

EraseEntries(S) == cache' = Drop(cache, {i \in DOMAIN cache : cache[i].id \in S})

-----------------------------------------------------------------------------
(* insert *)

(* Mutant: without AUTOINCREMENT an id above the largest is given out again. *)
InsertRowReusingId(a, t) ==
    /\ pc = "idle"
    /\ \E id \in MemoryIds :
         /\ \A i \in DOMAIN memories : i < id
         /\ id = 1 \/ id - 1 \in DOMAIN memories
         /\ memories' = Put(memories, id,
                            [agent |-> a, text |-> t, created |-> now,
                             updated |-> now, count |-> 1])
         /\ nextMemory' = IF id = nextMemory THEN id + 1 ELSE nextMemory
         /\ Goto("insert", id, {}, {})
    /\ UNCHANGED <<memoryDates, sentences, facts, nextFact, ram, now, crashes>>

InsertRow(a, t) ==
    /\ pc = "idle"
    /\ nextMemory <= MaxMemory
    /\ memories' = Put(memories, nextMemory,
                       [agent |-> a, text |-> t, created |-> now,
                        updated |-> now, count |-> 1])
    /\ nextMemory' = nextMemory + 1
    /\ Goto("insert", nextMemory, {}, {})
    /\ UNCHANGED <<memoryDates, sentences, facts, nextFact, ram, now, crashes>>

InsertDate ==
    /\ pc = "insert"
    /\ \E d \in Days :
         /\ IsLeast(d, MissingDates(cur))
         /\ memoryDates' = memoryDates \cup {<<cur, d>>}
    /\ UNCHANGED <<memories, sentences, facts, nextMemory, nextFact, ram, op,
                   now, crashes>>

AddToCache ==
    /\ pc = "insert"
    /\ MissingDates(cur) = {}
    /\ cache' = Put(cache, cur,
                    [id |-> cur, agent |-> memories[cur].agent,
                     text |-> memories[cur].text,
                     created |-> memories[cur].created,
                     days |-> Mentions[memories[cur].text], count |-> 1])
    /\ Return
    /\ UNCHANGED <<tables, factsCache, now, crashes>>

(* touch: without a row of that id the UPDATE changes nothing, and neither
   does the cache, so the call leaves no trace. *)
TouchRow(i) ==
    /\ pc = "idle"
    /\ i \in DOMAIN memories
    /\ memories[i].count < MaxCount
    /\ memories' = [memories EXCEPT ![i].updated = now, ![i].count = @ + 1]
    /\ Goto("touch", i, {}, {})
    /\ UNCHANGED <<memoryDates, sentences, facts, nextMemory, nextFact, ram,
                   now, crashes>>

(* Mutant: touch leaves the cache alone. *)
TouchCacheSkipped ==
    pc = "touch" /\ Return /\ UNCHANGED <<tables, ram, now, crashes>>

TouchCache ==
    /\ pc = "touch"
    /\ cache' = [i \in DOMAIN cache |->
                   IF cache[i].id = cur
                   THEN [cache[i] EXCEPT !.count = @ + 1] ELSE cache[i]]
    /\ Return
    /\ UNCHANGED <<tables, factsCache, now, crashes>>

(* store_sentences: each row is a statement that commits by itself, and one whose
   memory is gone breaks the foreign key, an error that is only logged.  Which
   memories have rows is all that is kept of them, so this is one step: after the
   first row the others change nothing. *)
StoreSentences(i) ==
    /\ pc = "idle"
    /\ i \in DOMAIN memories
    /\ sentences' = sentences \cup {i}
    /\ UNCHANGED <<memories, memoryDates, facts, nextMemory, nextFact, ram, op,
                   now, crashes>>

-----------------------------------------------------------------------------
(* evict: nothing to do up to the limit; else the lowest scores go.  The
   loops take the victims by score; here in any order. *)

(* Mutant: one insert, one victim. *)
EvictOne(a) ==
    /\ pc = "idle"
    /\ Cardinality(MemoriesOf(a)) > LimitOf(a)
    /\ \E i \in MemoriesOf(a) :
         /\ \A j \in MemoriesOf(a) : Score(i) <= Score(j)
         /\ Goto("evictDates", 0, {i}, {i})
    /\ UNCHANGED <<tables, ram, now, crashes>>

Evict(a) ==
    /\ pc = "idle"
    /\ Cardinality(MemoriesOf(a)) > LimitOf(a)
    /\ \E S \in SUBSET MemoriesOf(a) :
         /\ Cardinality(S) = Cardinality(MemoriesOf(a)) - LimitOf(a)
         /\ \A i \in S, j \in MemoriesOf(a) \ S : Score(i) <= Score(j)
         /\ Goto("evictDates", 0, S, S)
    /\ UNCHANGED <<tables, ram, now, crashes>>

(* One pass of one of evict's three loops, the last pass moving on. *)
Loop(here, next, i) ==
    /\ pc = here
    /\ i \in todo
    /\ IF todo = {i} THEN pc' = next /\ todo' = victims
                     ELSE pc' = pc /\ todo' = todo \ {i}
    /\ UNCHANGED <<cur, victims>>

EvictDates(i) ==
    /\ Loop("evictDates", "evictRows", i)
    /\ DeleteDates(i)
    /\ UNCHANGED <<memories, sentences, facts, nextMemory, nextFact, ram, now,
                   crashes>>

EvictRow(i) ==
    /\ Loop("evictRows", "evictFacts", i)
    /\ DeleteRow(i)
    /\ UNCHANGED <<facts, nextMemory, nextFact, ram, now, crashes>>

EvictFacts(i) ==
    /\ Loop("evictFacts", "evictCache", i)
    /\ DeleteFacts({i})
    /\ IF todo = {i} THEN ForgetFacts(victims) ELSE UNCHANGED factsCache
    /\ UNCHANGED <<memories, memoryDates, sentences, nextMemory, nextFact,
                   cache, now, crashes>>

EvictCache ==
    /\ pc = "evictCache"
    /\ EraseEntries(victims)
    /\ Return
    /\ UNCHANGED <<tables, factsCache, now, crashes>>

-----------------------------------------------------------------------------
(* remove: dates, then facts, then the row; any id may be asked for. *)

Remove(i) ==
    /\ pc = "idle"
    /\ DeleteDates(i)
    /\ Goto("removeFacts", i, {i}, {})
    /\ UNCHANGED <<memories, sentences, facts, nextMemory, nextFact, ram, now,
                   crashes>>

(* Mutant: facts_cache_ keeps the facts. *)
RemoveFactsTableOnly ==
    /\ pc = "removeFacts"
    /\ DeleteFacts({cur})
    /\ Goto("removeRow", cur, victims, {})
    /\ UNCHANGED <<memories, memoryDates, sentences, nextMemory, nextFact,
                   ram, now, crashes>>

RemoveFacts ==
    /\ pc = "removeFacts"
    /\ DeleteFacts({cur})
    /\ ForgetFacts({cur})
    /\ Goto("removeRow", cur, victims, {})
    /\ UNCHANGED <<memories, memoryDates, sentences, nextMemory, nextFact,
                   cache, now, crashes>>

(* Mutant: the cache entry is never erased. *)
RemoveRowOnly ==
    /\ pc = "removeRow"
    /\ DeleteRow(cur)
    /\ Return
    /\ UNCHANGED <<facts, nextMemory, nextFact, ram, now, crashes>>

RemoveRow ==
    /\ pc = "removeRow"
    /\ DeleteRow(cur)
    /\ IF cur \in DOMAIN memories THEN Goto("removeCache", cur, victims, {})
                                  ELSE Return
    /\ UNCHANGED <<facts, nextMemory, nextFact, ram, now, crashes>>

RemoveCache ==
    /\ pc = "removeCache"
    /\ EraseEntries({cur})
    /\ Return
    /\ UNCHANGED <<tables, factsCache, now, crashes>>

-----------------------------------------------------------------------------
(* purge_expired: dates and row of each victim in turn, then the facts of
   all, then the cache, whose entries stay with their id overwritten. *)

Purge ==
    /\ pc = "idle"
    /\ Ttl > 0
    /\ Expired # {}
    /\ Goto("purgeDates", 0, Expired, Expired)
    /\ UNCHANGED <<tables, ram, now, crashes>>

PurgeDates(i) ==
    /\ pc = "purgeDates"
    /\ i \in todo
    /\ DeleteDates(i)
    /\ Goto("purgeRow", i, victims, todo)
    /\ UNCHANGED <<memories, sentences, facts, nextMemory, nextFact, ram, now,
                   crashes>>

PurgeRow ==
    /\ pc = "purgeRow"
    /\ DeleteRow(cur)
    /\ IF todo = {cur} THEN Goto("purgeFacts", 0, victims, victims)
                       ELSE Goto("purgeDates", 0, victims, todo \ {cur})
    /\ UNCHANGED <<facts, nextMemory, nextFact, ram, now, crashes>>

(* Mutant: facts_cache_ keeps the facts. *)
PurgeFactsTableOnly(i) ==
    /\ Loop("purgeFacts", "purgeCache", i)
    /\ DeleteFacts({i})
    /\ UNCHANGED <<memories, memoryDates, sentences, nextMemory, nextFact,
                   ram, now, crashes>>

PurgeFacts(i) ==
    /\ Loop("purgeFacts", "purgeCache", i)
    /\ DeleteFacts({i})
    /\ IF todo = {i} THEN ForgetFacts(victims) ELSE UNCHANGED factsCache
    /\ UNCHANGED <<memories, memoryDates, sentences, nextMemory, nextFact,
                   cache, now, crashes>>

(* Mutant: the cache entries stay as they are. *)
PurgeCacheSkipped ==
    pc = "purgeCache" /\ Return /\ UNCHANGED <<tables, ram, now, crashes>>

PurgeCache ==
    /\ pc = "purgeCache"
    /\ cache' = [i \in DOMAIN cache |->
                   IF cache[i].id \in victims
                   THEN [cache[i] EXCEPT !.id = Hole] ELSE cache[i]]
    /\ Return
    /\ UNCHANGED <<tables, factsCache, now, crashes>>

-----------------------------------------------------------------------------
(* insert_fact and remove_fact *)

(* Mutant: the key is not compared. *)
RivalsOfAnyKey(a, k) ==
    {f \in DOMAIN factsCache :
       factsCache[f].superseded = Active /\ factsCache[f].agent = a}

Rivals(a, k) == {f \in DOMAIN factsCache :
                   /\ factsCache[f].superseded = Active
                   /\ factsCache[f].agent = a
                   /\ factsCache[f].key = k}

(* The INSERT.  The scan of facts_cache_ stops at the first rival, which is
   the oldest, the vector being in id order; if its value is the new one,
   the call returns that fact's id and changes nothing. *)
InsertFactRow(a, k, v, source) ==
    /\ pc = "idle"
    /\ nextFact <= MaxFact
    /\ facts' = Put(facts, nextFact,
                    [agent |-> a, key |-> k, value |-> v, source |-> source,
                     superseded |-> Active])
    /\ nextFact' = nextFact + 1
    /\ UNCHANGED <<memories, memoryDates, sentences, nextMemory, cache, now,
                   crashes>>

InsertFact(a, k, v, source) ==
    /\ Rivals(a, k) = {}
    /\ InsertFactRow(a, k, v, source)
    /\ factsCache' = Put(factsCache, nextFact, facts'[nextFact])
    /\ UNCHANGED op

InsertRival(a, k, v, source, old) ==
    /\ IsLeast(old, Rivals(a, k))
    /\ factsCache[old].value # v
    /\ InsertFactRow(a, k, v, source)
    /\ Goto("supersede", nextFact, {}, {old})
    /\ UNCHANGED factsCache

(* Mutant: the old fact stays active in facts_cache_. *)
SupersedeTableOnly(old) ==
    /\ pc = "supersede"
    /\ old \in todo
    /\ facts' = [facts EXCEPT ![old].superseded = cur]
    /\ factsCache' = Put(factsCache, cur, facts[cur])
    /\ Return
    /\ UNCHANGED <<memories, memoryDates, sentences, nextMemory, nextFact,
                   cache, now, crashes>>

(* UPDATE facts SET superseded_by, then both cache writes. *)
Supersede(old) ==
    /\ pc = "supersede"
    /\ old \in todo
    /\ facts' = [facts EXCEPT ![old].superseded = cur]
    /\ factsCache' = Put([factsCache EXCEPT ![old].superseded = cur],
                         cur, facts[cur])
    /\ Return
    /\ UNCHANGED <<memories, memoryDates, sentences, nextMemory, nextFact,
                   cache, now, crashes>>

RemoveFact(f) ==
    /\ pc = "idle"
    /\ f \in DOMAIN facts
    /\ facts' = Drop(facts, {f})
    /\ factsCache' = Drop(factsCache, {f})
    /\ UNCHANGED <<memories, memoryDates, sentences, nextMemory, nextFact,
                   cache, op, now, crashes>>

-----------------------------------------------------------------------------
(* The process dies between two steps and is started again: the constructor
   backfills memory_dates for memories that have no date row at all, one
   statement a day, and loads both caches. *)

Crash ==
    /\ pc # "closed"
    /\ crashes < MaxCrashes
    /\ crashes' = crashes + 1
    /\ cache' = Nothing
    /\ factsCache' = Nothing
    /\ Goto("closed", 0, {}, {})
    /\ UNCHANGED <<tables, now>>

Undated == {i \in DOMAIN memories : DatesOf(i) = {} /\ MissingDates(i) # {}}

Open ==
    /\ pc = "closed"
    /\ Goto("opening", 0, {}, Undated)
    /\ UNCHANGED <<tables, ram, now, crashes>>

BackfillDate ==
    /\ pc = "opening"
    /\ \E i \in MemoryIds, d \in Days :
         /\ IsLeast(i, todo)
         /\ IsLeast(d, MissingDates(i))
         /\ memoryDates' = memoryDates \cup {<<i, d>>}
         /\ todo' = IF MissingDates(i) = {d} THEN todo \ {i} ELSE todo
    /\ UNCHANGED <<memories, sentences, facts, nextMemory, nextFact, ram, pc,
                   cur, victims, now, crashes>>

LoadCaches ==
    /\ pc = "opening"
    /\ todo = {}
    /\ cache' = [i \in DOMAIN memories |->
                   [id |-> i, agent |-> memories[i].agent,
                    text |-> memories[i].text,
                    created |-> memories[i].created,
                    days |-> DatesOf(i), count |-> memories[i].count]]
    /\ factsCache' = facts
    /\ Return
    /\ UNCHANGED <<tables, now, crashes>>

DayPasses ==
    /\ now < MaxNow
    /\ now' = now + 1
    /\ UNCHANGED <<tables, ram, op, crashes>>

-----------------------------------------------------------------------------

Init ==
    /\ memories = Nothing /\ facts = Nothing
    /\ memoryDates = {} /\ sentences = {}
    /\ nextMemory = 1 /\ nextFact = 1
    /\ cache = Nothing /\ factsCache = Nothing
    /\ pc = "idle" /\ cur = 0 /\ victims = {} /\ todo = {}
    /\ now = 0 /\ crashes = 0

MemoryStep ==
    \/ \E a \in Agents, t \in Texts : InsertRow(a, t)
    \/ InsertDate \/ AddToCache
    \/ \E i \in MemoryIds : TouchRow(i) \/ StoreSentences(i)
    \/ TouchCache

EvictStep ==
    \/ \E a \in Agents : Evict(a)
    \/ \E i \in MemoryIds : EvictDates(i) \/ EvictRow(i) \/ EvictFacts(i)
    \/ EvictCache

RemoveStep ==
    \/ \E i \in MemoryIds : Remove(i)
    \/ RemoveFacts \/ RemoveRow \/ RemoveCache

PurgeStep ==
    \/ Purge
    \/ \E i \in MemoryIds : PurgeDates(i) \/ PurgeFacts(i)
    \/ PurgeRow \/ PurgeCache

(* A fact's source is any memory that once existed, or none: the caller may
   be behind, and the store does not ask. *)
FactStep ==
    \/ \E a \in Agents, k \in Keys, v \in Values :
         \E source \in 0..(nextMemory - 1) :
           \/ InsertFact(a, k, v, source)
           \/ \E old \in FactIds : InsertRival(a, k, v, source, old)
    \/ \E f \in FactIds : Supersede(f) \/ RemoveFact(f)

RestartStep == Crash \/ Open \/ BackfillDate \/ LoadCaches

Next == \/ MemoryStep \/ EvictStep \/ RemoveStep \/ PurgeStep
        \/ FactStep \/ RestartStep \/ DayPasses

Spec == Init /\ [][Next]_vars

-----------------------------------------------------------------------------
(* Properties *)

(* Between operations the RAM cache and the tables tell one story: the live
   entries are the rows, with the row's namespace, access count and date rows.
   insert, touch, evict, remove, purge_expired and load_cache each write both
   sides, in different steps and orders. *)
CacheCoherent ==
    pc = "idle" =>
      /\ LiveIds = DOMAIN memories
      /\ \A i \in LiveIds :
           /\ cache[i].id = i
           /\ cache[i].agent = memories[i].agent
           /\ cache[i].count = memories[i].count
           /\ cache[i].days = DatesOf(i)

(* Between operations facts_cache_ is the facts table, whichever of insert,
   supersession, the three memory deletions or a restart came before. *)
FactsCoherent == pc = "idle" => factsCache = facts

(* At every statement boundary, the ones a crash exposes included, date and
   sentence rows belong to a row of memories. *)
NoDanglingRows ==
    /\ \A r \in memoryDates : r[1] \in DOMAIN memories
    /\ sentences \subseteq DOMAIN memories

(* A reader of the cache, which does not wait for db_mutex_, meets only
   memories that are in the table or that the running deletion has already
   taken out of it: the cache is never ahead of the table. *)
CacheNeverAhead ==
    \A i \in LiveIds : i \in DOMAIN memories \/ i \in victims

(* One latest value: apart from the moment between insert_fact's INSERT and
   UPDATE, a namespace has at most one active fact for a key. *)
OneActiveFact ==
    pc # "supersede" =>
      \A f, g \in DOMAIN facts :
        /\ facts[f].superseded = Active /\ facts[g].superseded = Active
        /\ facts[f].agent = facts[g].agent /\ facts[f].key = facts[g].key
        => f = g

ActiveFacts(a, k) ==
    {f \in DOMAIN facts : /\ facts[f].superseded = Active
                          /\ facts[f].agent = a /\ facts[f].key = k}

(* What is left of it when the process may die in that moment: each crash
   leaves at most one outdated fact active beside the latest, however many
   insertions, supersessions and deletions come before and after. *)
ActiveFactsPerCrash ==
    pc # "supersede" =>
      \A a \in Agents, k \in Keys : Cardinality(ActiveFacts(a, k)) <= 1 + crashes

(* Supersession runs forward in time and stays within a namespace's key, so
   following superseded_by never cycles; deletions may cut the chain. *)
SupersessionForward ==
    \A f \in DOMAIN facts :
      LET g == facts[f].superseded
      IN  g # Active =>
            /\ g > f
            /\ g \in DOMAIN facts => /\ facts[g].agent = facts[f].agent
                                     /\ facts[g].key = facts[f].key

(* A memory that is gone from table and cache never comes back to either,
   not by a restart and not by its id being given to another turn: an id that
   a queued fact job, an admin or a reader still holds means that memory or
   nothing. *)
DeletedForGood ==
    [][\A i \in 1..(nextMemory - 1) :
         i \notin DOMAIN memories /\ i \notin LiveIds =>
           i \notin DOMAIN memories' /\ i \notin LiveIds']_vars

(* evict returns with its namespace at the cap, also when a crash between an
   insert and its evict had left it more than one over; and all it took was
   of that namespace. *)
EvictReachesCap ==
    [][pc = "evictCache" /\ pc' = "idle" =>
         \E a \in Agents :
           /\ \A i \in victims : cache[i].agent = a
           /\ Cardinality(MemoriesOf(a)') = LimitOf(a)]_vars

(* A deletion returns with no fact of the deleted memories in the table or in
   facts_cache_. *)
DeletionTakesFacts ==
    [][pc' = "idle" /\ pc \in {"evictCache", "removeCache", "purgeCache"} =>
         /\ DerivedFrom(facts', victims) = {}
         /\ DerivedFrom(factsCache', victims) = {}]_vars

(* What the source says and the code does not do; each is refuted by a run.

   purge_expired's "Invalidate RAM cache entries" and the option it serves,
   "Auto-delete memories older than N days": between operations no entry of a
   purged memory is left for search and list_memories to find. *)
PurgedNotServed ==
    pc = "idle" => \A i \in DOMAIN cache : cache[i].id # Hole

=============================================================================
