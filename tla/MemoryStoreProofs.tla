------------------------- MODULE MemoryStoreProofs -------------------------
(***************************************************************************)
(* What MemoryStore guarantees for every value of its constants.           *)
(*                                                                         *)
(* None of the invariants is inductive alone: whether the cache agrees     *)
(* with the tables when an operation returns depends on what the steps     *)
(* before it left undone.  The inductive invariant is built in layers,     *)
(* each proved from the ones below: types (TypeInv), the operation and the *)
(* tables (OpInv, TableInv), the memory cache (CacheInv), the facts cache  *)
(* (FactsInv).                                                             *)
(***************************************************************************)
EXTENDS MemoryStore, FiniteSetTheorems, TLAPS

(* Types, with what cur has to be where a step reads a row or writes an id. *)
TypeInv ==
    /\ TypeOK
    /\ pc \in {"insert", "touch"} => cur \in DOMAIN memories
    /\ pc = "supersede" => cur \in DOMAIN facts

LEMMA DropTable ==
    ASSUME NEW Ids, NEW T, NEW f, IsTable(f, Ids, T), NEW S
    PROVE  /\ IsTable(Drop(f, S), Ids, T)
           /\ DOMAIN Drop(f, S) = DOMAIN f \ S
           /\ \A x \in DOMAIN f \ S : Drop(f, S)[x] = f[x]
BY DEF IsTable, Drop, Restrict

LEMMA TypeInit == Init => TypeInv
BY StoreAssumption
   DEF Init, TypeInv, TypeOK, IsTable, Nothing, Pc

LEMMA TypeMemoryStep ==
    ASSUME TypeInv, MemoryStep
    PROVE  TypeInv'
<1> USE StoreAssumption DEF TypeInv, TypeOK, IsTable, Goto, Return, ram, tables, op
<1>1. CASE \E a \in Agents, t \in Texts : InsertRow(a, t)
  <2>1. PICK a \in Agents, t \in Texts : InsertRow(a, t)
    BY <1>1
  <2>2. nextMemory \in MemoryIds /\ nextMemory' \in 1..(MaxMemory + 1)
    BY <2>1 DEF InsertRow, MemoryIds
  <2>3. IsTable(memories', MemoryIds, Row) /\ nextMemory \in DOMAIN memories'
    BY <2>1, <2>2 DEF InsertRow, Put, Row
  <2> QED
    BY <2>1, <2>2, <2>3 DEF InsertRow, Pc
<1>2. CASE InsertDate
  BY <1>2 DEF InsertDate, IsLeast, MemoryIds
<1>3. CASE AddToCache
  <2>1. IsTable(cache', MemoryIds, Entry)
    BY <1>3 DEF AddToCache, Put, Entry, Row, Days
  <2> QED
    BY <1>3, <2>1 DEF AddToCache, Pc
<1>4. CASE \E i \in MemoryIds : TouchRow(i)
  <2>1. PICK i \in MemoryIds : TouchRow(i)
    BY <1>4
  <2>2. IsTable(memories', MemoryIds, Row) /\ i \in DOMAIN memories'
    BY <2>1 DEF TouchRow, Row
  <2> QED
    BY <2>1, <2>2 DEF TouchRow, Pc, MemoryIds
<1>5. CASE \E i \in MemoryIds : StoreSentences(i)
  BY <1>5 DEF StoreSentences
<1>6. CASE TouchCache
  <2>1. IsTable(cache', MemoryIds, Entry)
    BY <1>6 DEF TouchCache, Entry
  <2> QED
    BY <1>6, <2>1 DEF TouchCache, Pc
<1> QED
  BY <1>1, <1>2, <1>3, <1>4, <1>5, <1>6 DEF MemoryStep

(* One pass of evict's and purge_expired's loops. *)
LEMMA LoopPass ==
    ASSUME NEW here, NEW next, NEW i, Loop(here, next, i)
    PROVE  /\ pc = here /\ i \in todo
           /\ pc' \in {here, next}
           /\ cur' = cur /\ victims' = victims
           /\ todo' \subseteq victims \cup todo
           /\ \/ todo = {i} /\ pc' = next /\ todo' = victims
              \/ todo # {i} /\ pc' = pc /\ todo' = todo \ {i}
BY DEF Loop

LEMMA TypeEvictStep ==
    ASSUME TypeInv, EvictStep
    PROVE  TypeInv'
<1> USE StoreAssumption
    DEF TypeInv, TypeOK, Goto, Return, DeleteDates, DeleteRow, DeleteFacts,
        ForgetFacts, EraseEntries, ram, tables, op, Pc
<1>1. CASE \E a \in Agents : Evict(a)
  BY <1>1 DEF Evict, MemoriesOf, IsTable
<1>2. CASE \E i \in MemoryIds : EvictDates(i)
  <2>1. PICK i \in MemoryIds : EvictDates(i)
    BY <1>2
  <2>2. memoryDates' \subseteq MemoryIds \X Days
    BY <2>1 DEF EvictDates
  <2>3. /\ pc' \in {"evictDates", "evictRows"} /\ todo' \subseteq MemoryIds \cup FactIds
        /\ cur' = cur /\ victims' = victims
    BY <2>1, LoopPass DEF EvictDates
  <2> QED
    BY <2>1, <2>2, <2>3 DEF EvictDates
<1>3. CASE \E i \in MemoryIds : EvictRow(i)
  <2>1. PICK i \in MemoryIds : EvictRow(i)
    BY <1>3
  <2>2. IsTable(memories', MemoryIds, Row)
    BY <2>1, DropTable DEF EvictRow
  <2>3. memoryDates' \subseteq MemoryIds \X Days /\ sentences' \subseteq MemoryIds
    BY <2>1 DEF EvictRow
  <2>4. /\ pc' \in {"evictRows", "evictFacts"} /\ todo' \subseteq MemoryIds \cup FactIds
        /\ cur' = cur /\ victims' = victims
    BY <2>1, LoopPass DEF EvictRow
  <2> QED
    BY <2>1, <2>2, <2>3, <2>4 DEF EvictRow
<1>4. CASE \E i \in MemoryIds : EvictFacts(i)
  <2>1. PICK i \in MemoryIds : EvictFacts(i)
    BY <1>4
  <2>2. IsTable(facts', FactIds, FactRow) /\ IsTable(factsCache', FactIds, FactRow)
    BY <2>1 DEF EvictFacts, IsTable, Drop, Restrict
  <2>3. /\ pc' \in {"evictFacts", "evictCache"} /\ todo' \subseteq MemoryIds \cup FactIds
        /\ cur' = cur /\ victims' = victims
    BY <2>1, LoopPass DEF EvictFacts
  <2> QED
    BY <2>1, <2>2, <2>3 DEF EvictFacts
<1>5. CASE EvictCache
  <2>1. IsTable(cache', MemoryIds, Entry)
    BY <1>5, DropTable DEF EvictCache
  <2> QED
    BY <1>5, <2>1 DEF EvictCache
<1> QED
  BY <1>1, <1>2, <1>3, <1>4, <1>5 DEF EvictStep

LEMMA TypeRemoveStep ==
    ASSUME TypeInv, RemoveStep
    PROVE  TypeInv'
<1> USE DEF TypeInv, TypeOK, Goto, Return, DeleteDates, DeleteRow, DeleteFacts,
        ForgetFacts, EraseEntries, ram, tables, op, Pc
<1>1. CASE \E i \in MemoryIds : Remove(i)
  BY <1>1 DEF Remove
<1>2. CASE RemoveFacts
  <2>1. IsTable(facts', FactIds, FactRow) /\ IsTable(factsCache', FactIds, FactRow)
    BY <1>2, DropTable DEF RemoveFacts
  <2> QED
    BY <1>2, <2>1 DEF RemoveFacts
<1>3. CASE RemoveRow
  <2>1. IsTable(memories', MemoryIds, Row)
    BY <1>3, DropTable DEF RemoveRow
  <2>2. memoryDates' \subseteq MemoryIds \X Days /\ sentences' \subseteq MemoryIds
    BY <1>3 DEF RemoveRow
  <2>3. /\ pc' \in {"removeCache", "idle"} /\ cur' \in {0} \cup MemoryIds \cup FactIds
        /\ victims' \subseteq MemoryIds /\ todo' = {}
    BY <1>3 DEF RemoveRow
  <2> QED
    BY <1>3, <2>1, <2>2, <2>3 DEF RemoveRow
<1>4. CASE RemoveCache
  <2>1. IsTable(cache', MemoryIds, Entry)
    BY <1>4, DropTable DEF RemoveCache
  <2> QED
    BY <1>4, <2>1 DEF RemoveCache
<1> QED
  BY <1>1, <1>2, <1>3, <1>4 DEF RemoveStep

LEMMA TypePurgeStep ==
    ASSUME TypeInv, PurgeStep
    PROVE  TypeInv'
<1> USE DEF TypeInv, TypeOK, Goto, Return, DeleteDates, DeleteRow,
        DeleteFacts, ForgetFacts, ram, tables, op, Pc
<1>1. CASE Purge
  BY <1>1 DEF Purge, Expired, IsTable
<1>2. CASE \E i \in MemoryIds : PurgeDates(i)
  BY <1>2 DEF PurgeDates
<1>3. CASE \E i \in MemoryIds : PurgeFacts(i)
  <2>1. PICK i \in MemoryIds : PurgeFacts(i)
    BY <1>3
  <2>2. IsTable(facts', FactIds, FactRow) /\ IsTable(factsCache', FactIds, FactRow)
    BY <2>1 DEF PurgeFacts, IsTable, Drop, Restrict
  <2>3. /\ pc' \in {"purgeFacts", "purgeCache"} /\ todo' \subseteq MemoryIds \cup FactIds
        /\ cur' = cur /\ victims' = victims
    BY <2>1, LoopPass DEF PurgeFacts
  <2> QED
    BY <2>1, <2>2, <2>3 DEF PurgeFacts
<1>4. CASE PurgeRow
  <2>1. IsTable(memories', MemoryIds, Row)
    BY <1>4, DropTable DEF PurgeRow
  <2> QED
    BY <1>4, <2>1 DEF PurgeRow
<1>5. CASE PurgeCache
  <2>1. IsTable(cache', MemoryIds, Entry)
    BY <1>5 DEF PurgeCache, IsTable, Entry
  <2> QED
    BY <1>5, <2>1 DEF PurgeCache
<1> QED
  BY <1>1, <1>2, <1>3, <1>4, <1>5 DEF PurgeStep

LEMMA TypeFactStep ==
    ASSUME TypeInv, FactStep
    PROVE  TypeInv'
<1> USE StoreAssumption
    DEF TypeInv, TypeOK, IsTable, Goto, Return, ram, tables, op, Pc, FactIds
<1>1. ASSUME NEW a \in Agents, NEW k \in Keys, NEW v \in Values,
             NEW source \in 0..(nextMemory - 1), InsertFactRow(a, k, v, source)
      PROVE  /\ nextFact \in FactIds /\ nextFact' \in 1..(MaxFact + 1)
             /\ IsTable(facts', FactIds, FactRow)
             /\ nextFact \in DOMAIN facts'
  BY <1>1 DEF InsertFactRow, Put, FactRow, Active
<1>2. CASE \E a \in Agents, k \in Keys, v \in Values :
             \E source \in 0..(nextMemory - 1) : InsertFact(a, k, v, source)
  <2>1. PICK a \in Agents, k \in Keys, v \in Values, source \in 0..(nextMemory - 1) :
          InsertFact(a, k, v, source)
    BY <1>2
  <2>2. InsertFactRow(a, k, v, source)
    BY <2>1 DEF InsertFact
  <2>3. IsTable(factsCache', FactIds, FactRow)
    BY <2>1, <2>2, <1>1 DEF InsertFact, Put
  <2> QED
    BY <2>1, <2>2, <2>3, <1>1 DEF InsertFact, InsertFactRow
<1>3. CASE \E a \in Agents, k \in Keys, v \in Values :
             \E source \in 0..(nextMemory - 1), old \in FactIds :
               InsertRival(a, k, v, source, old)
  <2>1. PICK a \in Agents, k \in Keys, v \in Values,
             source \in 0..(nextMemory - 1), old \in FactIds :
          InsertRival(a, k, v, source, old)
    BY <1>3
  <2>2. InsertFactRow(a, k, v, source)
    BY <2>1 DEF InsertRival
  <2> QED
    BY <2>1, <2>2, <1>1 DEF InsertRival, InsertFactRow
<1>4. CASE \E f \in FactIds : Supersede(f)
  <2>1. PICK f \in FactIds : Supersede(f)
    BY <1>4
  <2>2. cur \in FactIds /\ facts[cur] \in FactRow
    BY <2>1 DEF Supersede
  <2>3. IsTable(facts', FactIds, FactRow)
    <3>1. \A g \in DOMAIN facts : [facts[g] EXCEPT !.superseded = cur] \in FactRow
      BY <2>2 DEF FactRow
    <3> QED
      BY <2>1, <3>1 DEF Supersede
  <2>4. IsTable(factsCache', FactIds, FactRow)
    <3>1. \A g \in DOMAIN factsCache :
            [factsCache[g] EXCEPT !.superseded = cur] \in FactRow
      BY <2>2 DEF FactRow
    <3> QED
      BY <2>1, <2>2, <3>1 DEF Supersede, Put
  <2> QED
    BY <2>1, <2>3, <2>4 DEF Supersede
<1>5. CASE \E f \in FactIds : RemoveFact(f)
  BY <1>5 DEF RemoveFact, Drop, Restrict
<1> QED
  BY <1>2, <1>3, <1>4, <1>5 DEF FactStep

LEMMA TypeRestartStep ==
    ASSUME TypeInv, RestartStep
    PROVE  TypeInv'
<1> USE StoreAssumption
    DEF TypeInv, TypeOK, IsTable, Goto, Return, ram, tables, op, Pc
<1>1. CASE Crash
  BY <1>1 DEF Crash, Nothing
<1>2. CASE Open
  BY <1>2 DEF Open, Undated
<1>3. CASE BackfillDate
  BY <1>3 DEF BackfillDate
<1>4. CASE LoadCaches
  <2>1. IsTable(cache', MemoryIds, Entry)
    BY <1>4 DEF LoadCaches, Entry, Row, DatesOf
  <2> QED
    BY <1>4, <2>1 DEF LoadCaches
<1> QED
  BY <1>1, <1>2, <1>3, <1>4 DEF RestartStep

LEMMA TypeStep ==
    ASSUME TypeInv, [Next]_vars
    PROVE  TypeInv'
<1>1. CASE DayPasses
  BY <1>1, StoreAssumption
     DEF DayPasses, TypeInv, TypeOK, tables, ram, op
<1>2. CASE UNCHANGED vars
  BY <1>2 DEF vars, TypeInv, TypeOK, tables, ram, op
<1> QED
  BY <1>1, <1>2, TypeMemoryStep, TypeEvictStep, TypeRemoveStep, TypePurgeStep,
     TypeFactStep, TypeRestartStep DEF Next

(* At every step boundary all variables are of their types: ids are within
   the tables' ranges, timestamps are not in the future, counters have not
   left their bounds. *)
THEOREM TypeCorrect == Spec => []TypeOK
<1>1. Spec => []TypeInv
  BY TypeInit, TypeStep, PTL DEF Spec
<1>2. TypeInv => TypeOK
  BY DEF TypeInv
<1> QED
  BY <1>1, <1>2, PTL

-----------------------------------------------------------------------------
(* The operation and the tables *)

NotLoaded == {"closed", "opening"}
Single == {"idle", "insert", "touch", "supersede"}
Removing == {"removeFacts", "removeRow", "removeCache"}
Looping == {"evictDates", "evictRows", "evictFacts",
            "purgeDates", "purgeRow", "purgeFacts"}
RowsGoing == {"evictRows", "purgeDates", "purgeRow"}
RowsGone == {"evictFacts", "evictCache", "purgeFacts", "purgeCache",
             "removeCache"}

(* What victims and todo mean at each pc. *)
OpInv ==
    /\ pc \in NotLoaded \cup Single => victims = {}
    /\ pc = "opening" => todo \subseteq DOMAIN memories
    /\ pc \in Removing => victims = {cur}
    /\ pc \in Looping => todo \subseteq victims
    /\ pc = "purgeRow" => cur \in todo
    /\ pc \in RowsGoing => victims \cap DOMAIN memories \subseteq todo
    /\ pc \in RowsGone => victims \cap DOMAIN memories = {}

(* The tables among themselves. *)
TableInv ==
    /\ \A i \in DOMAIN memories : i < nextMemory
    /\ \A r \in memoryDates : /\ r[1] \in DOMAIN memories
                              /\ r[2] \in Mentions[memories[r[1]].text]
    /\ sentences \subseteq DOMAIN memories
    /\ \A f \in DOMAIN facts : f < nextFact

LEMMA TablesUnchanged ==
    ASSUME TableInv, UNCHANGED tables
    PROVE  TableInv' /\ memories' = memories
BY DEF TableInv, tables

(* Deleting a row of memories with what hangs on it. *)
LEMMA DeleteRowTables ==
    ASSUME TypeInv, TableInv, NEW i, DeleteRow(i),
           UNCHANGED <<facts, nextMemory, nextFact>>
    PROVE  TableInv' /\ DOMAIN memories' = DOMAIN memories \ {i}
<1>1. /\ DOMAIN memories' = DOMAIN memories \ {i}
      /\ \A x \in DOMAIN memories \ {i} : memories'[x] = memories[x]
  BY DEF DeleteRow, Drop, Restrict
<1> QED
  BY <1>1 DEF DeleteRow, TableInv

LEMMA DeleteDatesTables ==
    ASSUME TableInv, NEW i, DeleteDates(i),
           UNCHANGED <<memories, sentences, facts, nextMemory, nextFact>>
    PROVE  TableInv'
BY DEF DeleteDates, TableInv

LEMMA DeleteFactsTables ==
    ASSUME TableInv, NEW S, facts' = Drop(facts, S),
           UNCHANGED <<memories, memoryDates, sentences, nextMemory, nextFact>>
    PROVE  TableInv'
BY DEF Drop, Restrict, TableInv

LEMMA TableMemoryStep ==
    ASSUME TypeInv, OpInv, TableInv, MemoryStep
    PROVE  OpInv' /\ TableInv'
<1> USE DEF Goto, Return
<1>1. CASE \E a \in Agents, t \in Texts : InsertRow(a, t)
  <2>1. PICK a \in Agents, t \in Texts : InsertRow(a, t)
    BY <1>1
  <2>2. nextMemory \in Int /\ nextMemory \notin DOMAIN memories /\ \A i \in DOMAIN memories : i \in Int
    BY DEF TypeInv, TypeOK, IsTable, MemoryIds, TableInv
  <2>3. /\ DOMAIN memories' = DOMAIN memories \cup {nextMemory}
        /\ \A i \in DOMAIN memories : memories'[i] = memories[i]
    BY <2>1, <2>2 DEF InsertRow, Put
  <2>4. TableInv'
    BY <2>1, <2>2, <2>3 DEF InsertRow, TableInv
  <2>5. OpInv'
    BY <2>1 DEF InsertRow, OpInv, NotLoaded, Single, Removing, Looping, RowsGoing, RowsGone
  <2> QED
    BY <2>4, <2>5
<1>2. CASE InsertDate
  <2>1. OpInv'
    BY <1>2 DEF InsertDate, op, OpInv
  <2>2. PICK d \in Days : /\ d \in MissingDates(cur)
                          /\ memoryDates' = memoryDates \cup {<<cur, d>>}
    BY <1>2 DEF InsertDate, IsLeast
  <2>3. cur \in DOMAIN memories /\ d \in Mentions[memories[cur].text]
    BY <1>2, <2>2 DEF InsertDate, MissingDates, TypeInv
  <2>4. TableInv'
    BY <1>2, <2>2, <2>3 DEF InsertDate, TableInv
  <2> QED
    BY <2>1, <2>4
<1>3. CASE AddToCache
  BY <1>3, TablesUnchanged
     DEF AddToCache, OpInv, NotLoaded, Single, Removing, Looping, RowsGoing, RowsGone
<1>4. CASE \E i \in MemoryIds : TouchRow(i)
  <2>1. PICK i \in MemoryIds : TouchRow(i)
    BY <1>4
  <2>2. /\ DOMAIN memories' = DOMAIN memories
        /\ \A j \in DOMAIN memories : memories'[j].text = memories[j].text
    BY <2>1 DEF TouchRow, TypeInv, TypeOK, IsTable, Row
  <2>3. TableInv'
    BY <2>1, <2>2 DEF TouchRow, TableInv
  <2>4. OpInv'
    BY <2>1 DEF TouchRow, OpInv, NotLoaded, Single, Removing, Looping, RowsGoing, RowsGone
  <2> QED
    BY <2>3, <2>4
<1>5. CASE \E i \in MemoryIds : StoreSentences(i)
  BY <1>5 DEF StoreSentences, OpInv, TableInv, op
<1>6. CASE TouchCache
  BY <1>6, TablesUnchanged
     DEF TouchCache, OpInv, NotLoaded, Single, Removing, Looping, RowsGoing, RowsGone
<1> QED
  BY <1>1, <1>2, <1>3, <1>4, <1>5, <1>6 DEF MemoryStep

LEMMA TableEvictStep ==
    ASSUME TypeInv, OpInv, TableInv, EvictStep
    PROVE  OpInv' /\ TableInv'
<1> USE DEF OpInv, NotLoaded, Single, Removing, Looping, RowsGoing, RowsGone
<1>1. CASE \E a \in Agents : Evict(a)
  BY <1>1, TablesUnchanged DEF Evict, Goto, tables
<1>2. CASE \E i \in MemoryIds : EvictDates(i)
  <2>1. PICK i \in MemoryIds : EvictDates(i)
    BY <1>2
  <2>2. TableInv' /\ memories' = memories
    BY <2>1, DeleteDatesTables DEF EvictDates
  <2>3. OpInv'
    BY <2>1, <2>2 DEF EvictDates, Loop
  <2> QED
    BY <2>2, <2>3
<1>3. CASE \E i \in MemoryIds : EvictRow(i)
  <2>1. PICK i \in MemoryIds : EvictRow(i)
    BY <1>3
  <2>2. TableInv' /\ DOMAIN memories' = DOMAIN memories \ {i}
    BY <2>1, DeleteRowTables DEF EvictRow
  <2>3. OpInv'
    BY <2>1, <2>2 DEF EvictRow, Loop
  <2> QED
    BY <2>2, <2>3
<1>4. CASE \E i \in MemoryIds : EvictFacts(i)
  <2>1. PICK i \in MemoryIds : EvictFacts(i)
    BY <1>4
  <2>2. TableInv' /\ memories' = memories
    BY <2>1, DeleteFactsTables DEF EvictFacts, DeleteFacts
  <2>3. OpInv'
    BY <2>1, <2>2 DEF EvictFacts, Loop
  <2> QED
    BY <2>2, <2>3
<1>5. CASE EvictCache
  BY <1>5, TablesUnchanged DEF EvictCache, Goto, Return
<1> QED
  BY <1>1, <1>2, <1>3, <1>4, <1>5 DEF EvictStep

LEMMA TableRemoveStep ==
    ASSUME TypeInv, OpInv, TableInv, RemoveStep
    PROVE  OpInv' /\ TableInv'
<1> USE DEF OpInv, NotLoaded, Single, Removing, Looping, RowsGoing, RowsGone,
            Goto, Return
<1>1. CASE \E i \in MemoryIds : Remove(i)
  <2>1. PICK i \in MemoryIds : Remove(i)
    BY <1>1
  <2>2. TableInv'
    BY <2>1, DeleteDatesTables DEF Remove
  <2> QED
    BY <2>1, <2>2 DEF Remove
<1>2. CASE RemoveFacts
  <2>1. TableInv'
    BY <1>2, DeleteFactsTables DEF RemoveFacts, DeleteFacts
  <2> QED
    BY <1>2, <2>1 DEF RemoveFacts
<1>3. CASE RemoveRow
  <2>1. TableInv' /\ DOMAIN memories' = DOMAIN memories \ {cur}
    BY <1>3, DeleteRowTables DEF RemoveRow
  <2> QED
    BY <1>3, <2>1 DEF RemoveRow
<1>4. CASE RemoveCache
  BY <1>4, TablesUnchanged DEF RemoveCache
<1> QED
  BY <1>1, <1>2, <1>3, <1>4 DEF RemoveStep

LEMMA TablePurgeStep ==
    ASSUME TypeInv, OpInv, TableInv, PurgeStep
    PROVE  OpInv' /\ TableInv'
<1> USE DEF OpInv, NotLoaded, Single, Removing, Looping, RowsGoing, RowsGone,
            Goto, Return
<1>1. CASE Purge
  BY <1>1, TablesUnchanged DEF Purge, Expired
<1>2. CASE \E i \in MemoryIds : PurgeDates(i)
  <2>1. PICK i \in MemoryIds : PurgeDates(i)
    BY <1>2
  <2>2. TableInv' /\ memories' = memories
    BY <2>1, DeleteDatesTables DEF PurgeDates
  <2> QED
    BY <2>1, <2>2 DEF PurgeDates
<1>3. CASE \E i \in MemoryIds : PurgeFacts(i)
  <2>1. PICK i \in MemoryIds : PurgeFacts(i)
    BY <1>3
  <2>2. TableInv' /\ memories' = memories
    BY <2>1, DeleteFactsTables DEF PurgeFacts, DeleteFacts
  <2>3. OpInv'
    BY <2>1, <2>2 DEF PurgeFacts, Loop
  <2> QED
    BY <2>2, <2>3
<1>4. CASE PurgeRow
  <2>1. TableInv' /\ DOMAIN memories' = DOMAIN memories \ {cur}
    BY <1>4, DeleteRowTables DEF PurgeRow
  <2> QED
    BY <1>4, <2>1 DEF PurgeRow
<1>5. CASE PurgeCache
  BY <1>5, TablesUnchanged DEF PurgeCache
<1> QED
  BY <1>1, <1>2, <1>3, <1>4, <1>5 DEF PurgeStep

LEMMA TableFactStep ==
    ASSUME TypeInv, OpInv, TableInv, FactStep
    PROVE  OpInv' /\ TableInv'
<1> USE DEF OpInv, NotLoaded, Single, Removing, Looping, RowsGoing, RowsGone,
            Goto, Return, op
<1>1. ASSUME NEW a, NEW k, NEW v, NEW source, InsertFactRow(a, k, v, source)
      PROVE  TableInv' /\ memories' = memories /\ pc = "idle"
  BY <1>1 DEF InsertFactRow, TableInv, Put, TypeInv, TypeOK, IsTable, FactIds
<1>2. CASE \E a \in Agents, k \in Keys, v \in Values :
             \E source \in 0..(nextMemory - 1) : InsertFact(a, k, v, source)
  <2>1. PICK a \in Agents, k \in Keys, v \in Values, source \in 0..(nextMemory - 1) :
          InsertFact(a, k, v, source)
    BY <1>2
  <2> QED
    BY <2>1, <1>1 DEF InsertFact
<1>3. CASE \E a \in Agents, k \in Keys, v \in Values :
             \E source \in 0..(nextMemory - 1), old \in FactIds :
               InsertRival(a, k, v, source, old)
  <2>1. PICK a \in Agents, k \in Keys, v \in Values,
             source \in 0..(nextMemory - 1), old \in FactIds :
          InsertRival(a, k, v, source, old)
    BY <1>3
  <2> QED
    BY <2>1, <1>1 DEF InsertRival
<1>4. CASE \E f \in FactIds : Supersede(f)
  BY <1>4 DEF Supersede, TableInv
<1>5. CASE \E f \in FactIds : RemoveFact(f)
  <2>1. PICK f \in FactIds : RemoveFact(f)
    BY <1>5
  <2>2. TableInv'
    BY <2>1, DeleteFactsTables DEF RemoveFact
  <2> QED
    BY <2>1, <2>2 DEF RemoveFact
<1> QED
  BY <1>2, <1>3, <1>4, <1>5 DEF FactStep

LEMMA TableRestartStep ==
    ASSUME TypeInv, OpInv, TableInv, RestartStep
    PROVE  OpInv' /\ TableInv'
<1> USE DEF OpInv, NotLoaded, Single, Removing, Looping, RowsGoing, RowsGone,
            Goto, Return
<1>1. CASE Crash
  BY <1>1, TablesUnchanged DEF Crash
<1>2. CASE Open
  BY <1>2, TablesUnchanged DEF Open, Undated
<1>3. CASE BackfillDate
  <2>1. PICK i \in MemoryIds, d \in Days :
          /\ IsLeast(i, todo)
          /\ IsLeast(d, MissingDates(i))
          /\ memoryDates' = memoryDates \cup {<<i, d>>}
          /\ todo' = IF MissingDates(i) = {d} THEN todo \ {i} ELSE todo
    BY <1>3 DEF BackfillDate
  <2>2. i \in DOMAIN memories /\ d \in Mentions[memories[i].text]
    BY <1>3, <2>1 DEF BackfillDate, IsLeast, MissingDates
  <2>3. TableInv'
    BY <1>3, <2>1, <2>2 DEF BackfillDate, TableInv
  <2>4. OpInv'
    BY <1>3, <2>1 DEF BackfillDate
  <2> QED
    BY <2>3, <2>4
<1>4. CASE LoadCaches
  BY <1>4, TablesUnchanged DEF LoadCaches
<1> QED
  BY <1>1, <1>2, <1>3, <1>4 DEF RestartStep

LEMMA TableInit == Init => OpInv /\ TableInv
BY DEF Init, OpInv, TableInv, NotLoaded, Single, Removing, Looping, RowsGoing,
       RowsGone, Nothing

LEMMA TableStep ==
    ASSUME TypeInv, OpInv, TableInv, [Next]_vars
    PROVE  OpInv' /\ TableInv'
<1>1. CASE DayPasses \/ UNCHANGED vars
  BY <1>1 DEF DayPasses, vars, tables, op, OpInv, TableInv
<1> QED
  BY <1>1, TableMemoryStep, TableEvictStep, TableRemoveStep, TablePurgeStep,
     TableFactStep, TableRestartStep DEF Next

LEMMA TablesAlways == Spec => [](TypeInv /\ OpInv /\ TableInv)
BY TypeInit, TypeStep, TableInit, TableStep, PTL DEF Spec

(* At every statement boundary, a crash in the middle of any deletion
   included, no date or sentence row refers to a memory that is gone. *)
THEOREM NoDanglingRowsEver == Spec => []NoDanglingRows
<1>1. TableInv => NoDanglingRows
  BY DEF TableInv, NoDanglingRows
<1> QED
  BY <1>1, TablesAlways, PTL

-----------------------------------------------------------------------------
(* The cache against the tables *)

(* Which entries there are, and what is known of a row being inserted. *)
EntriesInv ==
    /\ pc \in NotLoaded => DOMAIN cache = {}
    /\ pc = "insert" => cur \notin DOMAIN cache /\ memories[cur].count = 1
    /\ \A i \in DOMAIN cache : i < nextMemory /\ cache[i].id \in {i, Hole}

(* Every row is served, but the one being inserted; every entry served is a
   row, but what is being deleted. *)
ServedInv ==
    /\ pc \notin NotLoaded =>
         \A i \in DOMAIN memories : i \in LiveIds \/ (pc = "insert" /\ i = cur)
    /\ LiveIds \subseteq DOMAIN memories \cup victims
    /\ pc \in {"removeFacts", "removeRow"} =>
         victims \cap LiveIds \subseteq DOMAIN memories

(* An entry says what its row says; of a row about to go, the dates are gone
   first. *)
AgreeInv ==
    \A i \in LiveIds \cap DOMAIN memories :
      /\ cache[i].agent = memories[i].agent
      /\ memories[i].count = IF pc = "touch" /\ i = cur THEN cache[i].count + 1
                                                        ELSE cache[i].count
      /\ i \notin victims => cache[i].days = DatesOf(i)

CacheInv == EntriesInv /\ ServedInv /\ AgreeInv

LEMMA HoleIsNoId == Hole \notin MemoryIds
BY DEF Hole, MemoryIds

LEMMA CacheMemoryStep ==
    ASSUME TypeInv, OpInv, TableInv, CacheInv, MemoryStep
    PROVE  CacheInv'
<1> USE DEF Goto, Return, ram, op, tables, CacheInv, NotLoaded
<1>0. /\ IsTable(memories, MemoryIds, Row) /\ IsTable(cache, MemoryIds, Entry)
      /\ memoryDates \subseteq MemoryIds \X Days
  BY DEF TypeInv, TypeOK
<1>1. CASE \E a \in Agents, t \in Texts : InsertRow(a, t)
  <2>1. PICK a \in Agents, t \in Texts : InsertRow(a, t)
    BY <1>1
  <2>2. /\ nextMemory \in Int /\ nextMemory \notin DOMAIN memories
        /\ nextMemory \notin DOMAIN cache
        /\ DOMAIN cache \subseteq Int
    BY DEF TypeInv, TypeOK, IsTable, MemoryIds, TableInv, EntriesInv
  <2>3. /\ DOMAIN memories' = DOMAIN memories \cup {nextMemory}
        /\ \A i \in DOMAIN memories : memories'[i] = memories[i]
        /\ memories'[nextMemory].count = 1
    BY <2>1, <2>2 DEF InsertRow, Put
  <2>4. victims = {} /\ victims' = {} /\ pc = "idle" /\ LiveIds' = LiveIds
    BY <2>1 DEF InsertRow, OpInv, Single, LiveIds
  <2>5. EntriesInv'
    BY <2>1, <2>2, <2>3 DEF InsertRow, EntriesInv
  <2>6. ServedInv'
    BY <2>1, <2>3, <2>4 DEF InsertRow, ServedInv
  <2>7. AgreeInv'
    BY <2>1, <2>2, <2>3, <2>4 DEF InsertRow, AgreeInv, DatesOf, LiveIds
  <2> QED
    BY <2>5, <2>6, <2>7
<1>2. CASE InsertDate
  <2>1. LiveIds' = LiveIds /\ cur \notin LiveIds /\ pc = "insert"
    BY <1>2 DEF InsertDate, LiveIds, EntriesInv
  <2>2. \A i \in LiveIds : DatesOf(i)' = DatesOf(i)
    BY <1>2, <2>1 DEF InsertDate, DatesOf
  <2>3. AgreeInv'
    BY <1>2, <2>1, <2>2 DEF InsertDate, AgreeInv
  <2> QED
    BY <1>2, <2>1, <2>3 DEF InsertDate, EntriesInv, ServedInv
<1>3. CASE AddToCache
  <2>1. /\ cur \in DOMAIN memories /\ cur \notin DOMAIN cache
        /\ cur # Hole /\ cur < nextMemory /\ memories[cur].count = 1
        /\ victims = {} /\ victims' = {} /\ pc = "insert" /\ pc' = "idle"
    BY <1>3, HoleIsNoId, <1>0
       DEF AddToCache, TypeInv, EntriesInv, TableInv, OpInv, Single, IsTable
  <2>2. /\ DOMAIN cache' = DOMAIN cache \cup {cur}
        /\ \A i \in DOMAIN cache : cache'[i] = cache[i]
        /\ cache'[cur].id = cur /\ cache'[cur].count = 1
        /\ cache'[cur].agent = memories[cur].agent
        /\ cache'[cur].days = Mentions[memories[cur].text]
    BY <1>3, <2>1 DEF AddToCache, Put
  <2>3. LiveIds' = LiveIds \cup {cur}
    BY <2>1, <2>2 DEF LiveIds
  <2>4. DatesOf(cur) = Mentions[memories[cur].text]
    <3>1. \A d \in Mentions[memories[cur].text] : d \in DatesOf(cur)
      BY <1>3 DEF AddToCache, MissingDates
    <3>2. \A d \in DatesOf(cur) : d \in Mentions[memories[cur].text]
      <4>1. TAKE d \in DatesOf(cur)
      <4>2. <<cur, d>> \in memoryDates
        BY <4>1 DEF DatesOf
      <4> QED
        BY <4>2 DEF TableInv
    <3> QED
      BY <3>1, <3>2
  <2>5. EntriesInv'
    BY <1>3, <2>1, <2>2 DEF AddToCache, EntriesInv
  <2>6. ServedInv'
    BY <1>3, <2>1, <2>3 DEF AddToCache, ServedInv
  <2>7. AgreeInv'
    BY <1>3, <2>1, <2>2, <2>3, <2>4 DEF AddToCache, AgreeInv, LiveIds, DatesOf
  <2> QED
    BY <2>5, <2>6, <2>7
<1>4. CASE \E i \in MemoryIds : TouchRow(i)
  <2>1. PICK i \in MemoryIds : TouchRow(i)
    BY <1>4
  <2>2. /\ DOMAIN memories' = DOMAIN memories
        /\ memories'[i].count = memories[i].count + 1
        /\ memories'[i].agent = memories[i].agent
        /\ \A j \in DOMAIN memories \ {i} : memories'[j] = memories[j]
    BY <2>1, <1>0 DEF TouchRow, IsTable, Row
  <2>3. LiveIds' = LiveIds /\ pc = "idle" /\ pc' = "touch" /\ cur' = i /\ victims = {} /\ victims' = {}
    BY <2>1 DEF TouchRow, LiveIds, OpInv, Single
  <2>4. AgreeInv'
    BY <2>1, <2>2, <2>3 DEF TouchRow, AgreeInv, DatesOf
  <2>5. EntriesInv'
    BY <2>1, <2>3 DEF TouchRow, EntriesInv
  <2>6. ServedInv'
    BY <2>1, <2>2, <2>3 DEF TouchRow, ServedInv
  <2> QED
    BY <2>4, <2>5, <2>6
<1>5. CASE \E i \in MemoryIds : StoreSentences(i)
  BY <1>5 DEF StoreSentences, EntriesInv, ServedInv, AgreeInv, LiveIds, DatesOf
<1>6. CASE TouchCache
  <2>1. /\ DOMAIN cache' = DOMAIN cache
        /\ \A i \in DOMAIN cache :
             /\ cache'[i].id = cache[i].id
             /\ cache'[i].agent = cache[i].agent
             /\ cache'[i].days = cache[i].days
             /\ cache'[i].count = IF cache[i].id = cur THEN cache[i].count + 1
                                                       ELSE cache[i].count
    BY <1>6, <1>0 DEF TouchCache, IsTable, Entry
  <2>2. LiveIds' = LiveIds /\ pc = "touch" /\ victims = {}
    BY <1>6, <2>1 DEF TouchCache, LiveIds, OpInv, Single
  <2>3. \A i \in LiveIds : cache[i].id = i
    BY DEF LiveIds, EntriesInv
  <2>4. EntriesInv'
    BY <1>6, <2>1 DEF TouchCache, EntriesInv
  <2>5. ServedInv'
    BY <1>6, <2>2 DEF TouchCache, ServedInv
  <2>6. AgreeInv'
    BY <1>6, <2>1, <2>2, <2>3 DEF TouchCache, AgreeInv, LiveIds, DatesOf
  <2> QED
    BY <2>4, <2>5, <2>6
<1> QED
  BY <1>1, <1>2, <1>3, <1>4, <1>5, <1>6 DEF MemoryStep

(* What leaves the cache alone leaves the entries served alone; deleting the
   dates of i changes the dates of nobody else. *)
LEMMA OthersKeepDates ==
    ASSUME NEW i, DeleteDates(i)
    PROVE  \A j : j # i => DatesOf(j)' = DatesOf(j)
BY DEF DeleteDates, DatesOf

(* Deleting rows that the running operation counts among its victims. *)
LEMMA CacheDeleteRow ==
    ASSUME TypeInv, OpInv, TableInv, CacheInv, NEW i \in victims,
           DeleteRow(i), UNCHANGED <<cache, nextMemory, victims>>,
           pc \notin NotLoaded, pc' \notin NotLoaded,
           pc \notin {"insert", "touch"}, pc' \notin {"insert", "touch"},
           pc' \notin {"removeFacts", "removeRow"}
    PROVE  CacheInv'
<1>1. /\ DOMAIN memories' = DOMAIN memories \ {i}
      /\ \A j \in DOMAIN memories' : memories'[j] = memories[j]
  BY DEF DeleteRow, Drop, Restrict
<1>2. LiveIds' = LiveIds
  BY DEF LiveIds
<1>3. \A j : j # i => DatesOf(j)' = DatesOf(j)
  BY DEF DeleteRow, DatesOf
<1>4. AgreeInv'
  BY <1>1, <1>2, <1>3 DEF CacheInv, AgreeInv
<1> QED
  BY <1>1, <1>2, <1>4 DEF CacheInv, EntriesInv, ServedInv

(* Steps that neither touch the cache nor a row that is not a victim's. *)
LEMMA CacheKept ==
    ASSUME CacheInv, UNCHANGED <<cache, memories, nextMemory>>,
           \A j \in LiveIds : j \notin victims' => DatesOf(j)' = DatesOf(j),
           victims \subseteq victims',
           pc \notin NotLoaded, pc' \notin NotLoaded,
           pc \notin {"insert", "touch"}, pc' \notin {"insert", "touch"},
           pc' \in {"removeFacts", "removeRow"} =>
             \/ pc \in {"removeFacts", "removeRow"} /\ victims' = victims
             \/ victims = {}
    PROVE  CacheInv'
<1>1. LiveIds' = LiveIds
  BY DEF LiveIds
<1>2. AgreeInv'
  BY <1>1 DEF CacheInv, AgreeInv
<1>3. EntriesInv'
  BY DEF CacheInv, EntriesInv
<1>4. ServedInv'
  BY <1>1 DEF CacheInv, ServedInv
<1> QED
  BY <1>2, <1>3, <1>4 DEF CacheInv

(* Erasing the victims' entries, once their rows are gone, and forgetting the
   victims. *)
LEMMA CacheErased ==
    ASSUME TypeInv, CacheInv, EraseEntries(victims),
           victims \cap DOMAIN memories = {},
           UNCHANGED <<memories, memoryDates, nextMemory>>,
           pc \notin NotLoaded \cup {"insert", "touch"}, pc' = "idle",
           victims' = {}
    PROVE  CacheInv'
<1>1. \A i \in LiveIds : cache[i].id = i
  BY DEF LiveIds, CacheInv, EntriesInv
<1>2. Hole \notin victims
  BY HoleIsNoId DEF TypeInv, TypeOK
<1>3. /\ DOMAIN cache' \subseteq DOMAIN cache
      /\ \A i \in DOMAIN cache' : cache'[i] = cache[i]
      /\ \A i \in DOMAIN cache : i \in DOMAIN cache' <=> cache[i].id \notin victims
  BY DEF EraseEntries, Drop, Restrict
<1>4. LiveIds' = LiveIds \ victims
  BY <1>1, <1>2, <1>3 DEF LiveIds
<1>5. AgreeInv'
  BY <1>3, <1>4 DEF CacheInv, AgreeInv, LiveIds, DatesOf
<1>6. EntriesInv'
  BY <1>3 DEF CacheInv, EntriesInv, NotLoaded
<1>7. ServedInv'
  BY <1>4 DEF CacheInv, ServedInv, NotLoaded
<1> QED
  BY <1>5, <1>6, <1>7 DEF CacheInv

LEMMA CacheEvictStep ==
    ASSUME TypeInv, OpInv, TableInv, CacheInv, EvictStep
    PROVE  CacheInv'
<1> USE DEF NotLoaded, ram, tables
<1>1. CASE \E a \in Agents : Evict(a)
  BY <1>1, CacheKept DEF Evict, Goto, DatesOf, OpInv, Single
<1>2. CASE \E i \in MemoryIds : EvictDates(i)
  <2>1. PICK i \in MemoryIds : EvictDates(i)
    BY <1>2
  <2>2. /\ pc = "evictDates" /\ pc' \in {"evictDates", "evictRows"}
        /\ i \in todo /\ victims' = victims
    BY <2>1 DEF EvictDates, Loop
  <2>3. i \in victims
    BY <2>2 DEF OpInv, Looping
  <2>4. \A j \in LiveIds : j \notin victims' => DatesOf(j)' = DatesOf(j)
    BY <2>1, <2>2, <2>3, OthersKeepDates DEF EvictDates
  <2> QED
    BY <2>1, <2>2, <2>4, CacheKept DEF EvictDates
<1>3. CASE \E i \in MemoryIds : EvictRow(i)
  <2>1. PICK i \in MemoryIds : EvictRow(i)
    BY <1>3
  <2>2. /\ pc = "evictRows" /\ pc' \in {"evictRows", "evictFacts"}
        /\ i \in todo /\ victims' = victims
    BY <2>1 DEF EvictRow, Loop
  <2>3. i \in victims
    BY <2>2 DEF OpInv, Looping
  <2> QED
    BY <2>1, <2>2, <2>3, CacheDeleteRow DEF EvictRow
<1>4. CASE \E i \in MemoryIds : EvictFacts(i)
  <2>1. PICK i \in MemoryIds : EvictFacts(i)
    BY <1>4
  <2>2. /\ pc = "evictFacts" /\ pc' \in {"evictFacts", "evictCache"}
        /\ victims' = victims
    BY <2>1 DEF EvictFacts, Loop
  <2> QED
    BY <2>1, <2>2, CacheKept DEF EvictFacts, DatesOf
<1>5. CASE EvictCache
  BY <1>5, CacheErased DEF EvictCache, Goto, Return, OpInv, RowsGone
<1> QED
  BY <1>1, <1>2, <1>3, <1>4, <1>5 DEF EvictStep

LEMMA CacheRemoveStep ==
    ASSUME TypeInv, OpInv, TableInv, CacheInv, RemoveStep
    PROVE  CacheInv'
<1> USE DEF NotLoaded, ram, tables, Goto, Return
<1>1. CASE \E i \in MemoryIds : Remove(i)
  <2>1. PICK i \in MemoryIds : Remove(i)
    BY <1>1
  <2>2. victims = {} /\ victims' = {i} /\ pc = "idle" /\ pc' = "removeFacts"
    BY <2>1 DEF Remove, OpInv, Single
  <2>3. \A j \in LiveIds : j \notin victims' => DatesOf(j)' = DatesOf(j)
    BY <2>1, <2>2, OthersKeepDates DEF Remove
  <2> QED
    BY <2>1, <2>2, <2>3, CacheKept DEF Remove
<1>2. CASE RemoveFacts
  BY <1>2, CacheKept DEF RemoveFacts, DatesOf
<1>3. CASE RemoveRow
  <2>1. victims = {cur} /\ pc = "removeRow"
    BY <1>3 DEF RemoveRow, OpInv, Removing
  <2>2. CASE cur \in DOMAIN memories
    BY <1>3, <2>1, <2>2, CacheDeleteRow DEF RemoveRow
  <2>3. CASE cur \notin DOMAIN memories
    <3>1. memories' = memories
      BY <1>3, <2>3 DEF RemoveRow, DeleteRow, Drop, Restrict, TypeInv, TypeOK, IsTable
    <3>2. LiveIds' = LiveIds /\ LiveIds \subseteq DOMAIN memories
      BY <1>3, <2>1, <2>3 DEF RemoveRow, LiveIds, CacheInv, ServedInv
    <3>3. \A j \in DOMAIN memories : DatesOf(j)' = DatesOf(j)
      BY <1>3, <2>3 DEF RemoveRow, DeleteRow, DatesOf
    <3>4. AgreeInv'
      BY <1>3, <2>1, <2>3, <3>1, <3>2, <3>3 DEF RemoveRow, CacheInv, AgreeInv
    <3>5. EntriesInv' /\ ServedInv'
      BY <1>3, <2>1, <2>3, <3>1, <3>2 DEF RemoveRow, CacheInv, EntriesInv, ServedInv
    <3> QED
      BY <3>4, <3>5 DEF CacheInv
  <2> QED
    BY <2>2, <2>3
<1>4. CASE RemoveCache
  BY <1>4, CacheErased DEF RemoveCache, OpInv, RowsGone, Removing
<1> QED
  BY <1>1, <1>2, <1>3, <1>4 DEF RemoveStep

LEMMA CachePurgeStep ==
    ASSUME TypeInv, OpInv, TableInv, CacheInv, PurgeStep
    PROVE  CacheInv'
<1> USE DEF NotLoaded, ram, tables, Goto, Return
<1>1. CASE Purge
  BY <1>1, CacheKept DEF Purge, DatesOf, OpInv, Single
<1>2. CASE \E i \in MemoryIds : PurgeDates(i)
  <2>1. PICK i \in MemoryIds : PurgeDates(i)
    BY <1>2
  <2>2. i \in victims /\ victims' = victims /\ pc = "purgeDates" /\ pc' = "purgeRow"
    BY <2>1 DEF PurgeDates, OpInv, Looping
  <2>3. \A j \in LiveIds : j \notin victims' => DatesOf(j)' = DatesOf(j)
    BY <2>1, <2>2, OthersKeepDates DEF PurgeDates
  <2> QED
    BY <2>1, <2>2, <2>3, CacheKept DEF PurgeDates
<1>3. CASE \E i \in MemoryIds : PurgeFacts(i)
  <2>1. PICK i \in MemoryIds : PurgeFacts(i)
    BY <1>3
  <2>2. /\ pc = "purgeFacts" /\ pc' \in {"purgeFacts", "purgeCache"}
        /\ victims' = victims
    BY <2>1 DEF PurgeFacts, Loop
  <2> QED
    BY <2>1, <2>2, CacheKept DEF PurgeFacts, DatesOf
<1>4. CASE PurgeRow
  <2>1. cur \in victims /\ pc = "purgeRow"
    BY <1>4 DEF PurgeRow, OpInv, Looping
  <2>2. victims' = victims /\ pc' \in {"purgeDates", "purgeFacts"}
    BY <1>4 DEF PurgeRow
  <2> QED
    BY <1>4, <2>1, <2>2, CacheDeleteRow DEF PurgeRow
<1>5. CASE PurgeCache
  <2>1. \A i \in LiveIds : cache[i].id = i
    BY DEF LiveIds, CacheInv, EntriesInv
  <2>2. /\ DOMAIN cache' = DOMAIN cache
        /\ \A i \in DOMAIN cache :
             /\ cache'[i].agent = cache[i].agent
             /\ cache'[i].count = cache[i].count
             /\ cache'[i].days = cache[i].days
             /\ cache'[i].id = IF cache[i].id \in victims THEN Hole ELSE cache[i].id
    BY <1>5 DEF PurgeCache, TypeInv, TypeOK, IsTable, Entry
  <2>3. victims \cap DOMAIN memories = {} /\ pc = "purgeCache"
    BY <1>5 DEF PurgeCache, OpInv, RowsGone
  <2>4. LiveIds' = LiveIds \ victims
    <3>1. Hole \notin victims
      BY HoleIsNoId DEF TypeInv, TypeOK
    <3> QED
      BY <2>1, <2>2, <3>1 DEF LiveIds
  <2>5. AgreeInv'
    BY <1>5, <2>2, <2>3, <2>4 DEF PurgeCache, CacheInv, AgreeInv, LiveIds, DatesOf
  <2>6. EntriesInv'
    BY <1>5, <2>2, <2>3 DEF PurgeCache, CacheInv, EntriesInv
  <2>7. ServedInv'
    BY <1>5, <2>3, <2>4 DEF PurgeCache, CacheInv, ServedInv
  <2> QED
    BY <2>5, <2>6, <2>7 DEF CacheInv
<1> QED
  BY <1>1, <1>2, <1>3, <1>4, <1>5 DEF PurgeStep

LEMMA CacheFactStep ==
    ASSUME TypeInv, OpInv, TableInv, CacheInv, FactStep
    PROVE  CacheInv'
<1>1. /\ UNCHANGED <<cache, memories, memoryDates, nextMemory>>
      /\ pc \in {"idle", "supersede"} /\ pc' \in {"idle", "supersede"}
      /\ victims = {} /\ victims' = {}
  BY DEF FactStep, InsertFact, InsertFactRow, InsertRival, Supersede, RemoveFact,
         Goto, Return, op, OpInv, Single
<1> QED
  BY <1>1, CacheKept DEF DatesOf, NotLoaded

LEMMA CacheRestartStep ==
    ASSUME TypeInv, OpInv, TableInv, CacheInv, RestartStep
    PROVE  CacheInv'
<1> USE DEF NotLoaded, ram, tables, Goto, Return, CacheInv, EntriesInv,
            ServedInv, AgreeInv, LiveIds
<1>1. CASE Crash
  BY <1>1 DEF Crash, Nothing
<1>2. CASE Open
  BY <1>2 DEF Open
<1>3. CASE BackfillDate
  BY <1>3 DEF BackfillDate
<1>4. CASE LoadCaches
  <2>1. /\ DOMAIN cache' = DOMAIN memories
        /\ \A i \in DOMAIN memories :
             /\ cache'[i].id = i
             /\ cache'[i].agent = memories[i].agent
             /\ cache'[i].count = memories[i].count
             /\ cache'[i].days = DatesOf(i)
    BY <1>4 DEF LoadCaches
  <2>2. \A i \in DOMAIN memories : i # Hole
    BY HoleIsNoId DEF TypeInv, TypeOK, IsTable
  <2> QED
    BY <1>4, <2>1, <2>2 DEF LoadCaches, TableInv, DatesOf
<1> QED
  BY <1>1, <1>2, <1>3, <1>4 DEF RestartStep

LEMMA CacheInit == Init => CacheInv
BY DEF Init, CacheInv, EntriesInv, ServedInv, AgreeInv, LiveIds, Nothing, NotLoaded

LEMMA CacheStep ==
    ASSUME TypeInv, OpInv, TableInv, CacheInv, [Next]_vars
    PROVE  CacheInv'
<1>1. CASE DayPasses \/ UNCHANGED vars
  BY <1>1 DEF DayPasses, vars, tables, ram, op, CacheInv, EntriesInv, ServedInv,
              AgreeInv, LiveIds, DatesOf
<1> QED
  BY <1>1, CacheMemoryStep, CacheEvictStep, CacheRemoveStep, CachePurgeStep,
     CacheFactStep, CacheRestartStep DEF Next

LEMMA CacheAlways == Spec => [](TypeInv /\ OpInv /\ TableInv /\ CacheInv)
BY TypeInit, TypeStep, TableInit, TableStep, CacheInit, CacheStep, PTL DEF Spec

LEMMA CoherentBetweenOperations == OpInv /\ CacheInv => CacheCoherent
<1> SUFFICES ASSUME OpInv, CacheInv, pc = "idle"
             PROVE  /\ LiveIds = DOMAIN memories
                    /\ \A i \in LiveIds :
                         /\ cache[i].id = i
                         /\ cache[i].agent = memories[i].agent
                         /\ cache[i].count = memories[i].count
                         /\ cache[i].days = DatesOf(i)
  BY DEF CacheCoherent
<1>1. victims = {}
  BY DEF OpInv, Single
<1>2. LiveIds = DOMAIN memories
  BY <1>1 DEF CacheInv, ServedInv, NotLoaded
<1>3. \A i \in LiveIds : cache[i].id = i
  BY DEF LiveIds, CacheInv, EntriesInv
<1> QED
  BY <1>1, <1>2, <1>3 DEF CacheInv, AgreeInv

(* Whatever inserts, touches, evictions, deletions, purges and restarts came
   before: when no operation is running, the entries served from RAM are the
   rows of the table, with the rows' namespaces, access counts and dates. *)
THEOREM CacheCoherentEver == Spec => []CacheCoherent
BY CoherentBetweenOperations, CacheAlways, PTL

(* A reader of the cache, at any step of anybody's deletion, meets only
   memories that are in the table or that this deletion is taking out. *)
THEOREM CacheNeverAheadEver == Spec => []CacheNeverAhead
<1>1. CacheInv => CacheNeverAhead
  BY DEF CacheInv, ServedInv, CacheNeverAhead
<1> QED
  BY <1>1, CacheAlways, PTL

(* Rows come from INSERT only, with the next id; entries come from rows. *)
LEMMA NewRows ==
    ASSUME TypeInv, [Next]_vars
    PROVE  /\ DOMAIN memories' \subseteq DOMAIN memories \cup {nextMemory}
           /\ nextMemory' \in {nextMemory, nextMemory + 1}
<1> USE DEF tables, DeleteRow, Drop, Restrict
<1>1. CASE MemoryStep
  BY <1>1 DEF MemoryStep, InsertRow, Put, InsertDate, AddToCache, TouchRow,
              StoreSentences, TouchCache
<1>2. CASE EvictStep
  BY <1>2 DEF EvictStep, Evict, EvictDates, EvictRow, EvictFacts, EvictCache
<1>3. CASE RemoveStep
  BY <1>3 DEF RemoveStep, Remove, RemoveFacts, RemoveRow, RemoveCache
<1>4. CASE PurgeStep
  BY <1>4 DEF PurgeStep, Purge, PurgeDates, PurgeRow, PurgeFacts, PurgeCache
<1>5. CASE FactStep
  BY <1>5 DEF FactStep, InsertFact, InsertFactRow, InsertRival, Supersede, RemoveFact
<1>6. CASE RestartStep
  BY <1>6 DEF RestartStep, Crash, Open, BackfillDate, LoadCaches
<1> QED
  BY <1>1, <1>2, <1>3, <1>4, <1>5, <1>6 DEF Next, DayPasses, vars

LEMMA NewEntries ==
    ASSUME TypeInv, [Next]_vars
    PROVE  LiveIds' \subseteq LiveIds \cup DOMAIN memories
<1> USE DEF ram, LiveIds
<1>1. CASE MemoryStep
  <2>1. CASE AddToCache
    BY <2>1 DEF AddToCache, Put, TypeInv
  <2>2. CASE TouchCache
    BY <2>2 DEF TouchCache, TypeInv, TypeOK, IsTable, Entry
  <2> QED
    BY <1>1, <2>1, <2>2 DEF MemoryStep, InsertRow, InsertDate, TouchRow, StoreSentences
<1>2. ASSUME NEW S, EraseEntries(S)
      PROVE  LiveIds' \subseteq LiveIds
  BY <1>2 DEF EraseEntries, Drop, Restrict
<1>3. CASE EvictStep
  BY <1>2, <1>3 DEF EvictStep, Evict, EvictDates, EvictRow, EvictFacts, EvictCache
<1>4. CASE RemoveStep
  BY <1>2, <1>4 DEF RemoveStep, Remove, RemoveFacts, RemoveRow, RemoveCache
<1>5. CASE PurgeStep
  <2>1. CASE PurgeCache
    BY <2>1 DEF PurgeCache, TypeInv, TypeOK, IsTable, Entry
  <2> QED
    BY <1>5, <2>1 DEF PurgeStep, Purge, PurgeDates, PurgeRow, PurgeFacts
<1>6. CASE FactStep
  BY <1>6 DEF FactStep, InsertFact, InsertFactRow, InsertRival, Supersede, RemoveFact
<1>7. CASE RestartStep
  BY <1>7 DEF RestartStep, Crash, Nothing, Open, BackfillDate, LoadCaches
<1> QED
  BY <1>1, <1>3, <1>4, <1>5, <1>6, <1>7 DEF Next, DayPasses, vars

(* A memory gone from table and cache comes back to neither, by no step: ids
   are given out once, and a restart loads what the table has. *)
THEOREM DeletedMemoriesStayDeleted == Spec => DeletedForGood
<1> DEFINE Stays == \A i \in 1..(nextMemory - 1) :
                      i \notin DOMAIN memories /\ i \notin LiveIds =>
                        i \notin DOMAIN memories' /\ i \notin LiveIds'
<1>1. ASSUME TypeInv, [Next]_vars
      PROVE  Stays
  <2>1. \A i \in 1..(nextMemory - 1) : i # nextMemory
    BY <1>1 DEF TypeInv, TypeOK
  <2> QED
    BY <1>1, <2>1, NewRows, NewEntries
<1> HIDE DEF Stays
<1>2. Spec => [][Stays]_vars
  BY <1>1, TablesAlways, PTL DEF Spec
<1> QED
  BY <1>2 DEF DeletedForGood, Stays

-----------------------------------------------------------------------------
(* The facts cache against the facts table *)

FactsGoing == {"evictFacts", "purgeFacts"}
FactsGone == {"evictCache", "removeRow", "removeCache", "purgeCache"}

(* While a loop deletes facts, the table has what facts_cache_ will keep when
   the loop is over, and what the loop has not reached. *)
GoingInv ==
    pc \in FactsGoing =>
      /\ DOMAIN facts = {f \in DOMAIN factsCache :
                           factsCache[f].source \notin victims \ todo}
      /\ \A f \in DOMAIN facts : facts[f] = factsCache[f]

(* While insert_fact supersedes, the table has one row more, cur, and the old
   fact is of the same namespace and key. *)
SupersedeInv ==
    pc = "supersede" =>
      /\ cur \notin DOMAIN factsCache
      /\ DOMAIN facts = DOMAIN factsCache \cup {cur}
      /\ \A f \in DOMAIN factsCache : facts[f] = factsCache[f]
      /\ \A old \in todo : /\ old \in DOMAIN factsCache /\ old < cur
                           /\ facts[old].agent = facts[cur].agent
                           /\ facts[old].key = facts[cur].key
      /\ facts[cur].superseded = Active

FactsInv ==
    /\ pc \notin NotLoaded \cup FactsGoing \cup {"supersede"} => factsCache = facts
    /\ GoingInv
    /\ SupersedeInv
    /\ pc \in FactsGone => DerivedFrom(facts, victims) = {}

LEMMA SameTable ==
    ASSUME NEW Ids, NEW T, NEW f, NEW g, IsTable(f, Ids, T), IsTable(g, Ids, T),
           DOMAIN f = DOMAIN g, \A x \in DOMAIN f : f[x] = g[x]
    PROVE  f = g
BY DEF IsTable

(* One pass of the loop over the facts of the victims. *)
LEMMA FactsLoop ==
    ASSUME TypeInv, OpInv, FactsInv, TypeInv', NEW here, NEW next, NEW i,
           here \in FactsGoing, next \in {"evictCache", "purgeCache"},
           Loop(here, next, i), DeleteFacts({i}),
           IF todo = {i} THEN ForgetFacts(victims) ELSE UNCHANGED factsCache
    PROVE  FactsInv'
<1>1. /\ pc = here /\ i \in todo /\ todo \subseteq victims /\ victims' = victims
      /\ i \in victims
  BY DEF Loop, OpInv, Looping, FactsGoing
<1>2. /\ DOMAIN facts = {f \in DOMAIN factsCache :
                           factsCache[f].source \notin victims \ todo}
      /\ \A f \in DOMAIN facts : facts[f] = factsCache[f]
  BY <1>1 DEF FactsInv, GoingInv
<1>3. /\ DOMAIN facts' = {f \in DOMAIN facts : facts[f].source # i}
      /\ \A f \in DOMAIN facts' : facts'[f] = facts[f]
  BY DEF DeleteFacts, DerivedFrom, Drop, Restrict
<1>4. CASE todo = {i}
  <2>1. pc' = next /\ pc' \notin FactsGoing \cup NotLoaded \cup {"supersede"}
    BY <1>4 DEF Loop, FactsGoing, NotLoaded
  <2>2. /\ DOMAIN factsCache' = {f \in DOMAIN factsCache :
                                   factsCache[f].source \notin victims}
        /\ \A f \in DOMAIN factsCache' : factsCache'[f] = factsCache[f]
    BY <1>4 DEF ForgetFacts, DerivedFrom, Drop, Restrict
  <2>3. DOMAIN facts' = DOMAIN factsCache'
    <3>1. \A f : f \in DOMAIN facts' <=> f \in DOMAIN factsCache'
      BY <1>1, <1>2, <1>3, <1>4, <2>2
    <3> QED
      BY <3>1
  <2>4. \A f \in DOMAIN facts' : facts'[f] = factsCache'[f]
    BY <1>2, <1>3, <2>2, <2>3
  <2>5. facts' = factsCache'
    BY <2>3, <2>4, SameTable DEF TypeInv, TypeOK
  <2>6. DerivedFrom(facts', victims') = {}
    BY <1>1, <2>2, <2>5 DEF DerivedFrom
  <2> QED
    BY <2>1, <2>5, <2>6 DEF FactsInv, GoingInv, SupersedeInv
<1>5. CASE todo # {i}
  <2>1. pc' = here /\ todo' = todo \ {i} /\ factsCache' = factsCache
    BY <1>5, <1>1 DEF Loop
  <2>2. victims' \ todo' = (victims \ todo) \cup {i}
    BY <1>1, <2>1
  <2>3. \A f : f \in DOMAIN facts' <=>
                 f \in DOMAIN factsCache' /\ factsCache'[f].source \notin victims' \ todo'
    BY <1>2, <1>3, <2>1, <2>2
  <2>4. \A f \in DOMAIN facts' : facts'[f] = factsCache'[f]
    BY <1>2, <1>3, <2>1
  <2>5. GoingInv'
    BY <2>3, <2>4 DEF GoingInv
  <2> QED
    BY <2>1, <2>5 DEF FactsInv, SupersedeInv, FactsGoing, FactsGone
<1> QED
  BY <1>4, <1>5

(* Steps that leave both alone and are not about facts. *)
LEMMA FactsKept ==
    ASSUME FactsInv, UNCHANGED <<facts, factsCache>>,
           pc \notin NotLoaded \cup FactsGoing \cup {"supersede"},
           pc' \notin FactsGoing \cup {"supersede"},
           pc' \in FactsGone => pc \in FactsGone /\ victims' = victims
    PROVE  FactsInv'
BY DEF FactsInv, GoingInv, SupersedeInv

(* Entering the loop over the facts: it has reached none. *)
LEMMA FactsLoopStarts ==
    ASSUME FactsInv, UNCHANGED <<facts, factsCache>>,
           pc \notin NotLoaded \cup FactsGoing \cup {"supersede"},
           pc' \in FactsGoing, todo' = victims'
    PROVE  FactsInv'
<1>1. GoingInv'
  BY DEF FactsInv, GoingInv
<1> QED
  BY <1>1 DEF FactsInv, SupersedeInv, FactsGoing, FactsGone

LEMMA FactsMemoryStep ==
    ASSUME FactsInv, MemoryStep
    PROVE  FactsInv'
<1>1. /\ UNCHANGED <<facts, factsCache>>
      /\ pc \in {"idle", "insert", "touch"} /\ pc' \in {"idle", "insert", "touch"}
  BY DEF MemoryStep, InsertRow, InsertDate, AddToCache, TouchRow, StoreSentences,
         TouchCache, Goto, Return, ram, op, tables
<1> QED
  BY <1>1, FactsKept DEF NotLoaded, FactsGoing, FactsGone

LEMMA FactsEvictStep ==
    ASSUME TypeInv, OpInv, FactsInv, TypeInv', EvictStep
    PROVE  FactsInv'
<1> USE DEF NotLoaded, FactsGoing, FactsGone, ram, tables
<1>1. CASE \E a \in Agents : Evict(a)
  BY <1>1, FactsKept DEF Evict, Goto
<1>2. CASE \E i \in MemoryIds : EvictDates(i)
  BY <1>2, FactsKept DEF EvictDates, Loop
<1>3. CASE \E i \in MemoryIds : EvictRow(i)
  <2>1. PICK i \in MemoryIds : EvictRow(i)
    BY <1>3
  <2>2. CASE todo = {i}
    BY <2>1, <2>2, FactsLoopStarts DEF EvictRow, Loop
  <2>3. CASE todo # {i}
    BY <2>1, <2>3, FactsKept DEF EvictRow, Loop
  <2> QED
    BY <2>2, <2>3
<1>4. CASE \E i \in MemoryIds : EvictFacts(i)
  <2>1. PICK i \in MemoryIds : EvictFacts(i)
    BY <1>4
  <2> QED
    BY <2>1, FactsLoop DEF EvictFacts
<1>5. CASE EvictCache
  BY <1>5, FactsKept DEF EvictCache, Goto, Return
<1> QED
  BY <1>1, <1>2, <1>3, <1>4, <1>5 DEF EvictStep

LEMMA FactsRemoveStep ==
    ASSUME TypeInv, OpInv, FactsInv, RemoveStep
    PROVE  FactsInv'
<1> USE DEF NotLoaded, FactsGoing, FactsGone, ram, tables, Goto, Return
<1>1. CASE \E i \in MemoryIds : Remove(i)
  BY <1>1, FactsKept DEF Remove
<1>2. CASE RemoveFacts
  <2>1. pc = "removeFacts" /\ pc' = "removeRow" /\ facts = factsCache
        /\ victims = {cur} /\ victims' = {cur}
    BY <1>2 DEF RemoveFacts, FactsInv, OpInv, Removing
  <2>2. facts' = factsCache'
    BY <1>2, <2>1 DEF RemoveFacts, DeleteFacts, ForgetFacts
  <2>3. DerivedFrom(facts', victims') = {}
    BY <1>2, <2>1 DEF RemoveFacts, DeleteFacts, DerivedFrom, Drop, Restrict
  <2> QED
    BY <2>1, <2>2, <2>3 DEF FactsInv, GoingInv, SupersedeInv
<1>3. CASE RemoveRow
  BY <1>3, FactsKept DEF RemoveRow
<1>4. CASE RemoveCache
  BY <1>4, FactsKept DEF RemoveCache
<1> QED
  BY <1>1, <1>2, <1>3, <1>4 DEF RemoveStep

LEMMA FactsPurgeStep ==
    ASSUME TypeInv, OpInv, FactsInv, TypeInv', PurgeStep
    PROVE  FactsInv'
<1> USE DEF NotLoaded, FactsGoing, FactsGone, ram, tables, Goto, Return
<1>1. CASE Purge
  BY <1>1, FactsKept DEF Purge
<1>2. CASE \E i \in MemoryIds : PurgeDates(i)
  BY <1>2, FactsKept DEF PurgeDates
<1>3. CASE \E i \in MemoryIds : PurgeFacts(i)
  <2>1. PICK i \in MemoryIds : PurgeFacts(i)
    BY <1>3
  <2> QED
    BY <2>1, FactsLoop DEF PurgeFacts
<1>4. CASE PurgeRow
  <2>1. CASE todo = {cur}
    BY <1>4, <2>1, FactsLoopStarts DEF PurgeRow
  <2>2. CASE todo # {cur}
    BY <1>4, <2>2, FactsKept DEF PurgeRow
  <2> QED
    BY <2>1, <2>2
<1>5. CASE PurgeCache
  BY <1>5, FactsKept DEF PurgeCache
<1> QED
  BY <1>1, <1>2, <1>3, <1>4, <1>5 DEF PurgeStep

LEMMA FactsFactStep ==
    ASSUME TypeInv, TableInv, FactsInv, FactStep
    PROVE  FactsInv'
<1> USE DEF NotLoaded, FactsGoing, FactsGone, Goto, Return, op
<1>1. ASSUME NEW a, NEW k, NEW v, NEW source, InsertFactRow(a, k, v, source)
      PROVE  /\ pc = "idle" /\ facts = factsCache
             /\ nextFact \notin DOMAIN facts
             /\ DOMAIN facts' = DOMAIN facts \cup {nextFact}
             /\ \A f \in DOMAIN facts : facts'[f] = facts[f] /\ f < nextFact
             /\ facts'[nextFact] = [agent |-> a, key |-> k, value |-> v,
                                    source |-> source, superseded |-> Active]
  <2>1. nextFact \notin DOMAIN facts /\ \A f \in DOMAIN facts : f < nextFact
    BY DEF TableInv, TypeInv, TypeOK, IsTable, FactIds
  <2> QED
    BY <1>1, <2>1 DEF InsertFactRow, Put, FactsInv
<1>2. CASE \E a \in Agents, k \in Keys, v \in Values :
             \E source \in 0..(nextMemory - 1) : InsertFact(a, k, v, source)
  <2>1. PICK a \in Agents, k \in Keys, v \in Values, source \in 0..(nextMemory - 1) :
          InsertFact(a, k, v, source)
    BY <1>2
  <2>2. InsertFactRow(a, k, v, source) /\ pc' = "idle"
    BY <2>1 DEF InsertFact, InsertFactRow
  <2>3. factsCache' = facts'
    <3>1. /\ factsCache' = Put(facts, nextFact, facts'[nextFact])
          /\ facts' = Put(facts, nextFact, [agent |-> a, key |-> k, value |-> v,
                            source |-> source, superseded |-> Active])
      BY <2>1, <2>2, <1>1 DEF InsertFact, InsertFactRow
    <3> QED
      BY <3>1, <2>2, <1>1
  <2> QED
    BY <2>2, <2>3 DEF FactsInv, GoingInv, SupersedeInv
<1>3. CASE \E a \in Agents, k \in Keys, v \in Values :
             \E source \in 0..(nextMemory - 1), old \in FactIds :
               InsertRival(a, k, v, source, old)
  <2>1. PICK a \in Agents, k \in Keys, v \in Values,
             source \in 0..(nextMemory - 1), old \in FactIds :
          InsertRival(a, k, v, source, old)
    BY <1>3
  <2>2. InsertFactRow(a, k, v, source)
    BY <2>1 DEF InsertRival
  <2>3. /\ pc' = "supersede" /\ cur' = nextFact /\ todo' = {old}
        /\ factsCache' = factsCache
    BY <2>1 DEF InsertRival
  <2>4. /\ old \in DOMAIN factsCache /\ factsCache[old].agent = a
        /\ factsCache[old].key = k
    BY <2>1 DEF InsertRival, IsLeast, Rivals
  <2>5. /\ nextFact \notin DOMAIN factsCache
        /\ DOMAIN facts' = DOMAIN factsCache \cup {nextFact}
        /\ \A f \in DOMAIN factsCache : facts'[f] = factsCache[f] /\ f < nextFact
    <3>1. pc = "idle" /\ facts = factsCache
      BY <2>2, <1>1
    <3> QED
      BY <2>2, <1>1, <3>1
  <2>6. /\ facts'[nextFact].agent = a /\ facts'[nextFact].key = k
        /\ facts'[nextFact].superseded = Active
    <3>1. facts'[nextFact] = [agent |-> a, key |-> k, value |-> v,
                              source |-> source, superseded |-> Active]
      BY <2>2, <1>1
    <3> QED
      BY <3>1
  <2>7. SupersedeInv'
    BY <2>3, <2>4, <2>5, <2>6 DEF SupersedeInv
  <2> QED
    BY <2>3, <2>7 DEF FactsInv, GoingInv
<1>4. CASE \E f \in FactIds : Supersede(f)
  <2>1. PICK old \in FactIds : Supersede(old)
    BY <1>4
  <2>2. /\ pc = "supersede" /\ pc' = "idle" /\ old \in todo
        /\ facts' = [facts EXCEPT ![old].superseded = cur]
        /\ factsCache' = Put([factsCache EXCEPT ![old].superseded = cur],
                             cur, facts[cur])
    BY <2>1 DEF Supersede
  <2>3. /\ cur \notin DOMAIN factsCache /\ old \in DOMAIN factsCache
        /\ DOMAIN facts = DOMAIN factsCache \cup {cur}
        /\ \A f \in DOMAIN factsCache : facts[f] = factsCache[f]
    BY <2>2 DEF FactsInv, SupersedeInv
  <2>4. DOMAIN facts' = DOMAIN factsCache'
    BY <2>2, <2>3 DEF Put
  <2>5. \A f \in DOMAIN facts' : facts'[f] = factsCache'[f]
    BY <2>2, <2>3 DEF Put
  <2>6. IsTable(facts', FactIds, FactRow) /\ IsTable(factsCache', FactIds, FactRow)
    BY TypeFactStep DEF TypeInv, TypeOK
  <2>7. factsCache' = facts'
    BY <2>4, <2>5, <2>6, SameTable
  <2> QED
    BY <2>2, <2>7 DEF FactsInv, GoingInv, SupersedeInv
<1>5. CASE \E f \in FactIds : RemoveFact(f)
  BY <1>5 DEF RemoveFact, FactsInv, GoingInv, SupersedeInv
<1> QED
  BY <1>2, <1>3, <1>4, <1>5 DEF FactStep

LEMMA FactsRestartStep ==
    ASSUME FactsInv, RestartStep
    PROVE  FactsInv'
BY DEF RestartStep, Crash, Open, BackfillDate, LoadCaches, Goto, Return, ram,
       tables, FactsInv, GoingInv, SupersedeInv, NotLoaded, FactsGoing, FactsGone

LEMMA FactsInit == Init => FactsInv
BY DEF Init, FactsInv, GoingInv, SupersedeInv, FactsGoing, FactsGone

LEMMA FactsStep ==
    ASSUME TypeInv, OpInv, TableInv, FactsInv, [Next]_vars
    PROVE  FactsInv'
<1>1. CASE DayPasses \/ UNCHANGED vars
  BY <1>1 DEF DayPasses, vars, tables, ram, op, FactsInv, GoingInv, SupersedeInv,
              DerivedFrom
<1> QED
  BY <1>1, TypeStep, FactsMemoryStep, FactsEvictStep, FactsRemoveStep,
     FactsPurgeStep, FactsFactStep, FactsRestartStep DEF Next

LEMMA FactsAlways == Spec => [](TypeInv /\ OpInv /\ TableInv /\ FactsInv)
BY TypeInit, TypeStep, TableInit, TableStep, FactsInit, FactsStep, PTL DEF Spec

(* When no operation is running facts_cache_, which no transaction ties to the
   facts table, is that table. *)
THEOREM FactsCoherentEver == Spec => []FactsCoherent
<1>1. FactsInv => FactsCoherent
  BY DEF FactsInv, FactsCoherent, NotLoaded, FactsGoing
<1> QED
  BY <1>1, FactsAlways, PTL

(* remove, evict and purge_expired return with no fact of the memories they
   deleted left, in the table or in facts_cache_. *)
THEOREM DeletionsTakeFacts == Spec => DeletionTakesFacts
<1> DEFINE Taken ==
      pc' = "idle" /\ pc \in {"evictCache", "removeCache", "purgeCache"} =>
        /\ DerivedFrom(facts', victims) = {}
        /\ DerivedFrom(factsCache', victims) = {}
<1>1. ASSUME FactsInv, [Next]_vars
      PROVE  Taken
  <2> SUFFICES ASSUME pc' = "idle", pc \in {"evictCache", "removeCache", "purgeCache"}
               PROVE  /\ DerivedFrom(facts', victims) = {}
                      /\ DerivedFrom(factsCache', victims) = {}
    OBVIOUS
  <2>1. UNCHANGED <<facts, factsCache>>
    BY <1>1
       DEF Next, MemoryStep, InsertRow, InsertDate, AddToCache, TouchRow, TouchCache,
           StoreSentences, EvictStep, Evict, EvictDates, EvictRow, EvictFacts,
           EvictCache, RemoveStep, Remove, RemoveFacts, RemoveRow, RemoveCache,
           PurgeStep, Purge, PurgeDates, PurgeRow, PurgeFacts, PurgeCache, Loop,
           FactStep, InsertFact, InsertRival, InsertFactRow, Supersede, RemoveFact,
           RestartStep, Crash, Open, BackfillDate, LoadCaches, DayPasses, Goto,
           Return, vars, tables, ram
  <2>2. factsCache = facts /\ DerivedFrom(facts, victims) = {}
    BY <1>1 DEF FactsInv, NotLoaded, FactsGoing, FactsGone
  <2> QED
    BY <2>1, <2>2 DEF DerivedFrom
<1> HIDE DEF Taken
<1>2. Spec => [][Taken]_vars
  BY <1>1, FactsAlways, PTL DEF Spec
<1> QED
  BY <1>2 DEF DeletionTakesFacts, Taken

-----------------------------------------------------------------------------
(* Supersession *)

LEMMA OthersOnlyDeleteFacts ==
    ASSUME [Next]_vars, ~FactStep
    PROVE  /\ DOMAIN facts' \subseteq DOMAIN facts
           /\ \A f \in DOMAIN facts' : facts'[f] = facts[f]
           /\ nextFact' = nextFact
           /\ pc' = "supersede" => UNCHANGED op
<1> USE DEF tables, ram, op, Goto, Return, Loop
<1>1. CASE MemoryStep
  BY <1>1 DEF MemoryStep, InsertRow, InsertDate, AddToCache, TouchRow,
              StoreSentences, TouchCache
<1>2. CASE EvictStep
  BY <1>2 DEF EvictStep, Evict, EvictDates, EvictRow, EvictFacts, EvictCache,
              DeleteFacts, Drop, Restrict
<1>3. CASE RemoveStep
  BY <1>3 DEF RemoveStep, Remove, RemoveFacts, RemoveRow, RemoveCache,
              DeleteFacts, Drop, Restrict
<1>4. CASE PurgeStep
  BY <1>4 DEF PurgeStep, Purge, PurgeDates, PurgeRow, PurgeFacts, PurgeCache,
              DeleteFacts, Drop, Restrict
<1>5. CASE RestartStep
  BY <1>5 DEF RestartStep, Crash, Open, BackfillDate, LoadCaches
<1>6. CASE DayPasses \/ UNCHANGED vars
  BY <1>6 DEF DayPasses, vars
<1> QED
  BY <1>1, <1>2, <1>3, <1>4, <1>5, <1>6 DEF Next

(* The fact an insert_fact adds; SupersedeInv says of the superseding step
   what the property needs. *)
LEMMA InsertedFact ==
    ASSUME TypeInv, TableInv, NEW a, NEW k, NEW v, NEW source,
           InsertFactRow(a, k, v, source)
    PROVE  /\ nextFact \notin DOMAIN facts /\ nextFact' = nextFact + 1
           /\ DOMAIN facts' = DOMAIN facts \cup {nextFact}
           /\ \A f \in DOMAIN facts : facts'[f] = facts[f]
           /\ facts'[nextFact].agent = a /\ facts'[nextFact].key = k
           /\ facts'[nextFact].superseded = Active
<1>1. nextFact \notin DOMAIN facts
  BY DEF TableInv, TypeInv, TypeOK, IsTable, FactIds
<1>2. facts'[nextFact] = [agent |-> a, key |-> k, value |-> v,
                          source |-> source, superseded |-> Active]
  BY DEF InsertFactRow, Put
<1> QED
  BY <1>1, <1>2 DEF InsertFactRow, Put

ForwardInv ==
    \A f \in DOMAIN facts :
      facts[f].superseded # Active =>
        LET g == facts[f].superseded
        IN  /\ f < g /\ g < nextFact
            /\ g \in DOMAIN facts => /\ facts[g].agent = facts[f].agent
                                     /\ facts[g].key = facts[f].key

LEMMA ForwardStep ==
    ASSUME TypeInv, TableInv, FactsInv, ForwardInv, [Next]_vars
    PROVE  ForwardInv'
<1>1. CASE ~FactStep
  BY <1>1, OthersOnlyDeleteFacts DEF ForwardInv
<1>2. ASSUME NEW a, NEW k, NEW v, NEW source, InsertFactRow(a, k, v, source)
      PROVE  ForwardInv'
  <2>1. nextFact \in Nat /\ \A f \in DOMAIN facts : facts[f].superseded \in Nat /\ f \in Nat
    BY DEF TypeInv, TypeOK, IsTable, FactRow, FactIds
  <2> QED
    BY <1>2, <2>1, InsertedFact DEF ForwardInv
<1>3. CASE \E f \in FactIds : Supersede(f)
  <2>1. PICK old \in FactIds : Supersede(old)
    BY <1>3
  <2>2. /\ old \in DOMAIN facts /\ old < cur /\ cur < nextFact
        /\ cur \in DOMAIN facts /\ cur # old
        /\ facts[old].agent = facts[cur].agent /\ facts[old].key = facts[cur].key
    <3>1. /\ pc = "supersede" /\ old \in todo /\ cur \in DOMAIN facts
          /\ DOMAIN facts = DOMAIN factsCache \cup {cur} /\ cur \notin DOMAIN factsCache
      BY <2>1 DEF Supersede, FactsInv, SupersedeInv, TypeInv
    <3> QED
      BY <3>1 DEF FactsInv, SupersedeInv, TableInv
  <2>3. /\ DOMAIN facts' = DOMAIN facts /\ nextFact' = nextFact
        /\ facts'[old].superseded = cur
        /\ \A f \in DOMAIN facts : f # old => facts'[f] = facts[f]
        /\ \A f \in DOMAIN facts : /\ facts'[f].agent = facts[f].agent
                                   /\ facts'[f].key = facts[f].key
    <3>1. facts' = [facts EXCEPT ![old] = [@ EXCEPT !.superseded = cur]]
      BY <2>1 DEF Supersede
    <3>2. facts[old] \in FactRow
      BY <2>2 DEF TypeInv, TypeOK, IsTable
    <3> QED
      BY <2>1, <2>2, <3>1, <3>2 DEF Supersede, FactRow
  <2> QED
    BY <2>2, <2>3 DEF ForwardInv
<1>4. CASE \E f \in FactIds : RemoveFact(f)
  BY <1>4 DEF RemoveFact, Drop, Restrict, ForwardInv
<1> QED
  BY <1>1, <1>2, <1>3, <1>4 DEF FactStep, InsertFact, InsertRival

(* A fact is superseded only by a younger one of its namespace and key, so no
   chain of superseded_by comes back to where it started, whatever is deleted
   out of it and wherever the process died. *)
THEOREM SupersessionForwardEver == Spec => []SupersessionForward
<1>1. Init => ForwardInv
  BY DEF Init, ForwardInv, Nothing
<1>2. ForwardInv /\ TypeInv => SupersessionForward
  BY DEF ForwardInv, SupersessionForward, TypeInv, TypeOK, IsTable, FactRow, FactIds
<1>3. Spec => []ForwardInv
  BY <1>1, FactsAlways, ForwardStep, PTL DEF Spec
<1> QED
  BY <1>2, <1>3, FactsAlways, PTL

(* The active facts of a key that are not the new row of a supersession in
   progress, and what makes the bound on them inductive: the fact such a
   supersession is about to retire is active. *)
SettledFacts(a, k) ==
    IF pc = "supersede" THEN ActiveFacts(a, k) \ {cur} ELSE ActiveFacts(a, k)

CountInv ==
    /\ \A a \in Agents, k \in Keys : Cardinality(SettledFacts(a, k)) <= 1 + crashes
    /\ pc = "supersede" => \E old \in DOMAIN facts :
                              todo = {old} /\ facts[old].superseded = Active

LEMMA ActiveFactsFinite ==
    ASSUME TypeInv, NEW a, NEW k
    PROVE  /\ IsFiniteSet(ActiveFacts(a, k)) /\ IsFiniteSet(SettledFacts(a, k))
           /\ Cardinality(ActiveFacts(a, k)) \in Nat
           /\ Cardinality(SettledFacts(a, k)) \in Nat
<1>1. IsFiniteSet(1..MaxFact)
  BY FS_Interval, StoreAssumption
<1>2. /\ ActiveFacts(a, k) \subseteq 1..MaxFact
      /\ SettledFacts(a, k) \subseteq 1..MaxFact
  BY DEF ActiveFacts, SettledFacts, TypeInv, TypeOK, IsTable, FactIds
<1> QED
  BY <1>1, <1>2, FS_Subset, FS_CardinalityType

(* Where the counted set only shrinks and no crash is taken back, the bound
   stays. *)
LEMMA FewerFacts ==
    ASSUME TypeInv, TypeInv', CountInv, crashes' >= crashes,
           NEW a \in Agents, NEW k \in Keys,
           SettledFacts(a, k)' \subseteq SettledFacts(a, k)
    PROVE  Cardinality(SettledFacts(a, k)') <= 1 + crashes'
<1>1. Cardinality(SettledFacts(a, k)') <= Cardinality(SettledFacts(a, k))
  BY ActiveFactsFinite, FS_Subset
<1>2. /\ Cardinality(SettledFacts(a, k)) <= 1 + crashes
      /\ Cardinality(SettledFacts(a, k)) \in Nat
  BY ActiveFactsFinite DEF CountInv
<1>3. IsFiniteSet(SettledFacts(a, k)') /\ Cardinality(SettledFacts(a, k)') \in Nat
  BY <1>1, ActiveFactsFinite, FS_Subset, FS_CardinalityType
<1>4. crashes \in Nat /\ crashes' \in Nat
  BY StoreAssumption DEF TypeInv, TypeOK
<1> QED
  BY <1>1, <1>2, <1>3, <1>4

LEMMA CountStep ==
    ASSUME TypeInv, TypeInv', TableInv, FactsInv, CountInv, [Next]_vars
    PROVE  CountInv'
<1>0. crashes \in Nat
  BY StoreAssumption DEF TypeInv, TypeOK
<1>1. CASE Crash
  <2>1. /\ pc' = "closed" /\ crashes' = crashes + 1 /\ facts' = facts
    BY <1>1 DEF Crash, Goto, tables
  <2>2. CASE pc # "supersede"
    <3>1. \A a \in Agents, k \in Keys : SettledFacts(a, k)' = SettledFacts(a, k)
      BY <2>1, <2>2 DEF SettledFacts, ActiveFacts
    <3>2. crashes' >= crashes
      BY <1>0, <2>1
    <3> QED
      BY <2>1, <3>1, <3>2, FewerFacts DEF CountInv
  <2>3. CASE pc = "supersede"
    <3> SUFFICES ASSUME NEW a \in Agents, NEW k \in Keys
                 PROVE  Cardinality(SettledFacts(a, k)') <= 1 + crashes'
      BY <2>1 DEF CountInv
    <3>1. SettledFacts(a, k)' \subseteq SettledFacts(a, k) \cup {cur}
      BY <2>1, <2>3 DEF SettledFacts, ActiveFacts
    <3>2. /\ IsFiniteSet(SettledFacts(a, k) \cup {cur})
          /\ Cardinality(SettledFacts(a, k) \cup {cur}) <=
               Cardinality(SettledFacts(a, k)) + 1
      <4>1. /\ IsFiniteSet(SettledFacts(a, k))
            /\ Cardinality(SettledFacts(a, k)) \in Nat
        BY ActiveFactsFinite
      <4>2. /\ IsFiniteSet(SettledFacts(a, k) \cup {cur})
            /\ Cardinality(SettledFacts(a, k) \cup {cur}) =
                 IF cur \in SettledFacts(a, k)
                 THEN Cardinality(SettledFacts(a, k))
                 ELSE Cardinality(SettledFacts(a, k)) + 1
        BY <4>1, FS_AddElement
      <4> QED
        BY <4>1, <4>2
    <3>3. Cardinality(SettledFacts(a, k)') <=
            Cardinality(SettledFacts(a, k) \cup {cur})
      BY <3>1, <3>2, FS_Subset
    <3>4. /\ Cardinality(SettledFacts(a, k)) \in Nat
          /\ Cardinality(SettledFacts(a, k) \cup {cur}) \in Nat
          /\ Cardinality(SettledFacts(a, k)) <= 1 + crashes
      <4>1. Cardinality(SettledFacts(a, k)) \in Nat
        BY ActiveFactsFinite
      <4>2. Cardinality(SettledFacts(a, k) \cup {cur}) \in Nat
        BY <3>2, FS_CardinalityType
      <4> QED
        BY <4>1, <4>2 DEF CountInv
    <3>5. Cardinality(SettledFacts(a, k)') \in Nat
      BY ActiveFactsFinite, <3>1, <3>2, FS_Subset, FS_CardinalityType
    <3> QED
      BY <1>0, <2>1, <3>2, <3>3, <3>4, <3>5
  <2> QED
    BY <2>2, <2>3
<1>2. CASE ~FactStep /\ ~Crash
  <2>1. crashes' = crashes /\ (pc = "supersede" => UNCHANGED <<pc, cur, todo, facts>>)
    BY <1>2
       DEF Next, MemoryStep, InsertRow, InsertDate, AddToCache, TouchRow,
           TouchCache, StoreSentences, EvictStep, Evict, EvictDates, EvictRow,
           EvictFacts, EvictCache, RemoveStep, Remove, RemoveFacts, RemoveRow,
           RemoveCache, PurgeStep, Purge, PurgeDates, PurgeRow, PurgeFacts,
           PurgeCache, Loop, RestartStep, Open, BackfillDate, LoadCaches,
           DayPasses, Goto, Return, vars, op, tables, ram
  <2>2. /\ DOMAIN facts' \subseteq DOMAIN facts
        /\ \A f \in DOMAIN facts' : facts'[f] = facts[f]
        /\ pc' = "supersede" => UNCHANGED op
    BY <1>2, OthersOnlyDeleteFacts
  <2>3. \A a \in Agents, k \in Keys : SettledFacts(a, k)' \subseteq SettledFacts(a, k)
    BY <2>1, <2>2 DEF op, SettledFacts, ActiveFacts
  <2>4. crashes' >= crashes
    BY <1>0, <2>1
  <2>5. \A a \in Agents, k \in Keys : Cardinality(SettledFacts(a, k)') <= 1 + crashes'
    BY <2>3, <2>4, FewerFacts
  <2>6. pc' = "supersede" => pc = "supersede"
    BY <2>2 DEF op
  <2> QED
    BY <2>1, <2>5, <2>6 DEF CountInv
<1>3. CASE \E a \in Agents, k \in Keys, v \in Values :
             \E source \in 0..(nextMemory - 1) : InsertFact(a, k, v, source)
  <2>1. PICK a \in Agents, k \in Keys, v \in Values, source \in 0..(nextMemory - 1) :
          InsertFact(a, k, v, source)
    BY <1>3
  <2>2. /\ InsertFactRow(a, k, v, source) /\ pc = "idle" /\ pc' = "idle"
        /\ crashes' = crashes
    BY <2>1 DEF InsertFact, InsertFactRow, op
  <2>3. /\ SettledFacts(a, k)' = {nextFact}
        /\ \A b \in Agents, j \in Keys :
             <<b, j>> # <<a, k>> => SettledFacts(b, j)' = SettledFacts(b, j)
    <3>1. ActiveFacts(a, k) = {}
      BY <2>1, <2>2 DEF InsertFact, Rivals, FactsInv, NotLoaded, FactsGoing, ActiveFacts
    <3> QED
      BY <2>2, <3>1, InsertedFact DEF SettledFacts, ActiveFacts
  <2>4. Cardinality({nextFact}) = 1
    BY FS_Singleton
  <2>5. Cardinality(SettledFacts(a, k)') <= 1 + crashes'
    BY <1>0, <2>2, <2>3, <2>4
  <2> QED
    BY <2>2, <2>3, <2>5 DEF CountInv
<1>4. CASE \E a \in Agents, k \in Keys, v \in Values :
             \E source \in 0..(nextMemory - 1), old \in FactIds :
               InsertRival(a, k, v, source, old)
  <2>1. PICK a \in Agents, k \in Keys, v \in Values,
             source \in 0..(nextMemory - 1), old \in FactIds :
          InsertRival(a, k, v, source, old)
    BY <1>4
  <2>2. /\ InsertFactRow(a, k, v, source) /\ pc = "idle" /\ pc' = "supersede"
        /\ cur' = nextFact /\ todo' = {old} /\ crashes' = crashes
    BY <2>1 DEF InsertRival, InsertFactRow, Goto
  <2>3. old \in DOMAIN facts /\ facts[old].superseded = Active
    BY <2>1, <2>2 DEF InsertRival, IsLeast, Rivals, FactsInv, NotLoaded, FactsGoing
  <2>4. \A b \in Agents, j \in Keys : SettledFacts(b, j)' = SettledFacts(b, j)
    BY <2>2, InsertedFact DEF SettledFacts, ActiveFacts
  <2>5. old \in DOMAIN facts' /\ facts'[old].superseded = Active
    BY <2>2, <2>3, InsertedFact
  <2> QED
    BY <2>2, <2>4, <2>5 DEF CountInv
<1>5. CASE \E f \in FactIds : Supersede(f)
  <2>1. PICK old \in FactIds : Supersede(old)
    BY <1>5
  <2>2. /\ pc = "supersede" /\ pc' = "idle" /\ todo = {old} /\ cur # Active
        /\ facts' = [facts EXCEPT ![old].superseded = cur]
        /\ old \in DOMAIN facts /\ old # cur /\ cur \in DOMAIN facts
        /\ facts[old].superseded = Active /\ facts[cur].superseded = Active
        /\ facts[old].agent = facts[cur].agent /\ facts[old].key = facts[cur].key
        /\ crashes' = crashes
    BY <2>1 DEF Supersede, CountInv, Return, Goto, FactsInv, SupersedeInv,
                TypeInv, TypeOK, IsTable, FactIds, Active
  <2>3. /\ DOMAIN facts' = DOMAIN facts
        /\ facts'[old].superseded = cur
        /\ facts'[old].agent = facts[old].agent /\ facts'[old].key = facts[old].key
        /\ \A f \in DOMAIN facts : f # old => facts'[f] = facts[f]
    <3>1. facts[old] \in FactRow
      BY <2>2 DEF TypeInv, TypeOK, IsTable
    <3> QED
      BY <2>2, <3>1 DEF FactRow
  <2> SUFFICES ASSUME NEW a \in Agents, NEW k \in Keys
               PROVE  Cardinality(SettledFacts(a, k)') <= 1 + crashes'
    BY <2>2 DEF CountInv
  <2>4. CASE facts[old].agent = a /\ facts[old].key = k
    <3>1. /\ old \in SettledFacts(a, k) /\ cur \notin SettledFacts(a, k) \ {old}
          /\ SettledFacts(a, k)' = (SettledFacts(a, k) \ {old}) \cup {cur}
      <4>1. old \in ActiveFacts(a, k) /\ cur \in ActiveFacts(a, k)
        BY <2>2, <2>4 DEF ActiveFacts
      <4>2. ActiveFacts(a, k)' = ActiveFacts(a, k) \ {old}
        BY <2>2, <2>3 DEF ActiveFacts
      <4> QED
        BY <2>2, <4>1, <4>2 DEF SettledFacts
    <3>2. /\ Cardinality(SettledFacts(a, k) \ {old}) = Cardinality(SettledFacts(a, k)) - 1
          /\ IsFiniteSet(SettledFacts(a, k) \ {old})
      BY <3>1, ActiveFactsFinite, FS_RemoveElement
    <3>3. Cardinality((SettledFacts(a, k) \ {old}) \cup {cur}) =
            Cardinality(SettledFacts(a, k) \ {old}) + 1
      BY <3>1, <3>2, FS_AddElement
    <3>4. /\ Cardinality(SettledFacts(a, k)) <= 1 + crashes
          /\ Cardinality(SettledFacts(a, k)) \in Nat
      BY ActiveFactsFinite DEF CountInv
    <3>5. Cardinality(SettledFacts(a, k)') = Cardinality(SettledFacts(a, k))
      BY <3>1, <3>2, <3>3, <3>4
    <3> QED
      BY <2>2, <3>4, <3>5
  <2>5. CASE ~(facts[old].agent = a /\ facts[old].key = k)
    <3>1. SettledFacts(a, k)' = SettledFacts(a, k)
      BY <2>2, <2>3, <2>5 DEF SettledFacts, ActiveFacts
    <3> QED
      BY <2>2, <3>1 DEF CountInv
  <2> QED
    BY <2>4, <2>5
<1>6. CASE \E f \in FactIds : RemoveFact(f)
  <2>1. /\ DOMAIN facts' \subseteq DOMAIN facts
        /\ \A f \in DOMAIN facts' : facts'[f] = facts[f]
        /\ pc = "idle" /\ pc' = "idle" /\ crashes' = crashes
    BY <1>6 DEF RemoveFact, Drop, Restrict, op
  <2>2. crashes' >= crashes
    BY <1>0, <2>1
  <2>3. \A a \in Agents, k \in Keys : SettledFacts(a, k)' \subseteq SettledFacts(a, k)
    BY <2>1 DEF SettledFacts, ActiveFacts
  <2> QED
    BY <2>1, <2>2, <2>3, FewerFacts DEF CountInv
<1> QED
  BY <1>1, <1>2, <1>3, <1>4, <1>5, <1>6 DEF FactStep

LEMMA CountAlways == Spec => [](TypeInv /\ CountInv)
<1>1. Init => CountInv
  <2>1. Init => \A a \in Agents, k \in Keys :
                  Cardinality(SettledFacts(a, k)) = 0 /\ crashes = 0 /\ pc = "idle"
    BY FS_EmptySet DEF Init, SettledFacts, ActiveFacts, Nothing
  <2> QED
    BY <2>1 DEF CountInv, Init
<1>2. TypeInv /\ TypeInv' /\ TableInv /\ FactsInv /\ CountInv /\ [Next]_vars => CountInv'
  BY CountStep
<1> QED
  BY <1>1, <1>2, FactsAlways, PTL DEF Spec

(* Each crash leaves at most one outdated fact active: the count of active
   facts of a key never exceeds the crashes by more than the latest one. *)
THEOREM ActiveFactsPerCrashEver == Spec => []ActiveFactsPerCrash
<1>1. CountInv => ActiveFactsPerCrash
  BY DEF CountInv, ActiveFactsPerCrash, SettledFacts
<1> QED
  BY <1>1, CountAlways, PTL

(* As long as the process does not die, a namespace has one latest value for
   a key.  The hypothesis is needed: FactSupersessionCrash.cfg shows why. *)
THEOREM OneActiveFactWithoutCrash ==
    ASSUME MaxCrashes = 0
    PROVE  Spec => []OneActiveFact
<1>1. TypeInv /\ CountInv => OneActiveFact
  <2> SUFFICES ASSUME TypeInv, CountInv, pc # "supersede",
                      NEW f \in DOMAIN facts, NEW g \in DOMAIN facts,
                      facts[f].superseded = Active, facts[g].superseded = Active,
                      facts[f].agent = facts[g].agent, facts[f].key = facts[g].key,
                      f # g
               PROVE  FALSE
    BY DEF OneActiveFact
  <2> DEFINE same == ActiveFacts(facts[f].agent, facts[f].key)
  <2>1. facts[f].agent \in Agents /\ facts[f].key \in Keys /\ crashes = 0
    BY DEF TypeInv, TypeOK, IsTable, FactRow
  <2>2. {f, g} \subseteq same /\ IsFiniteSet(same) /\ Cardinality(same) \in Nat
    BY ActiveFactsFinite DEF ActiveFacts
  <2>3. Cardinality(same) <= 1
    BY <2>1 DEF CountInv, SettledFacts
  <2>4. /\ Cardinality({g}) = 1 /\ IsFiniteSet({g})
        /\ Cardinality({g} \cup {f}) = Cardinality({g}) + 1
        /\ {g} \cup {f} \subseteq same
    BY <2>2, FS_Singleton, FS_AddElement
  <2>5. Cardinality({g} \cup {f}) <= Cardinality(same)
    BY <2>2, <2>4, FS_Subset
  <2> QED
    BY <2>2, <2>3, <2>4, <2>5
<1> QED
  BY <1>1, CountAlways, PTL

-----------------------------------------------------------------------------
(* Eviction *)

Evicting == {"evictDates", "evictRows", "evictFacts", "evictCache"}

(* Within LimitOf(a) rows of a are spared; the victims' entries, the last that
   is left of them, are of a too. *)
EvictedFrom(a) ==
    /\ \A i \in victims : cache[i].agent = a
    /\ Cardinality(MemoriesOf(a) \ victims) = LimitOf(a)

EvictInv == pc \in Evicting => \E a \in Agents : EvictedFrom(a)

LEMMA EvictBegins ==
    ASSUME TypeInv, CacheInv, NEW a \in Agents, Evict(a)
    PROVE  EvictedFrom(a)'
<1> DEFINE all == MemoriesOf(a)
<1>1. PICK S \in SUBSET all :
        /\ Cardinality(S) = Cardinality(all) - LimitOf(a)
        /\ Goto("evictDates", 0, S, S)
  BY DEF Evict
<1>2. pc = "idle" /\ memories' = memories /\ cache' = cache /\ victims' = S
  BY <1>1 DEF Evict, Goto, tables, ram
<1>3. \A i \in S : cache[i].agent = a
  <2> SUFFICES ASSUME NEW i \in S
               PROVE  cache[i].agent = a
    OBVIOUS
  <2>1. i \in DOMAIN memories /\ memories[i].agent = a
    BY DEF MemoriesOf
  <2>2. i \in LiveIds
    BY <1>2, <2>1 DEF CacheInv, ServedInv, NotLoaded
  <2> QED
    BY <2>1, <2>2 DEF CacheInv, AgreeInv
<1>4. Cardinality(all \ S) = LimitOf(a)
  <2>1. DOMAIN memories \subseteq 1..MaxMemory /\ MaxMemory \in Int
    BY StoreAssumption DEF TypeInv, TypeOK, IsTable, MemoryIds
  <2>2. IsFiniteSet(1..MaxMemory)
    BY <2>1, FS_Interval
  <2>3. IsFiniteSet(all)
    BY <2>1, <2>2, FS_Subset DEF MemoriesOf
  <2>4. Cardinality(all \ S) = Cardinality(all) - Cardinality(all \cap S)
    BY <2>3, FS_Difference
  <2>5. all \cap S = S
    OBVIOUS
  <2>6. LimitOf(a) \in Nat /\ Cardinality(all) \in Nat
    BY <2>3, FS_CardinalityType, StoreAssumption DEF LimitOf
  <2> QED
    BY <1>1, <2>4, <2>5, <2>6
<1>5. MemoriesOf(a)' = all
  BY <1>2 DEF MemoriesOf
<1> HIDE DEF all
<1>6. EvictedFrom(a)' = (/\ \A i \in victims' : cache'[i].agent = a
                         /\ Cardinality(MemoriesOf(a)' \ victims') = LimitOf(a))
  BY DEF EvictedFrom, LimitOf
<1> QED
  BY <1>2, <1>3, <1>4, <1>5, <1>6

(* A pass takes victims only, and the entries are left for the end. *)
LEMMA EvictGoesOn ==
    ASSUME OpInv, NEW i, EvictDates(i) \/ EvictRow(i) \/ EvictFacts(i), EvictInv
    PROVE  EvictInv'
<1>1. pc \in Evicting /\ UNCHANGED <<victims, cache>>
  BY DEF EvictDates, EvictRow, EvictFacts, Loop, Evicting, ram
<1>2. DOMAIN memories' = DOMAIN memories \/ DOMAIN memories' = DOMAIN memories \ {i}
  BY DEF EvictDates, EvictRow, EvictFacts, DeleteRow, Drop, Restrict
<1>3. \A j \in DOMAIN memories' : memories'[j] = memories[j]
  BY DEF EvictDates, EvictRow, EvictFacts, DeleteRow, Drop, Restrict
<1>4. i \in victims
  BY DEF EvictDates, EvictRow, EvictFacts, Loop, OpInv, Looping
<1>5. \A a : MemoriesOf(a)' \ victims' = MemoriesOf(a) \ victims
  BY <1>1, <1>2, <1>3, <1>4 DEF MemoriesOf
<1>6. PICK a \in Agents : EvictedFrom(a)
  BY <1>1 DEF EvictInv
<1>7. EvictedFrom(a)'
  BY <1>1, <1>5, <1>6 DEF EvictedFrom, LimitOf
<1> QED
  BY <1>7 DEF EvictInv

LEMMA EvictStepKeeps ==
    ASSUME TypeInv, OpInv, CacheInv, EvictInv, [Next]_vars
    PROVE  EvictInv'
<1> USE DEF Goto, Return, op
<1>1. CASE \E a \in Agents : Evict(a)
  BY <1>1, EvictBegins DEF EvictInv
<1>2. CASE \E i \in MemoryIds : EvictDates(i) \/ EvictRow(i) \/ EvictFacts(i)
  BY <1>2, EvictGoesOn
<1>3. CASE UNCHANGED vars
  BY <1>3 DEF EvictInv, EvictedFrom, MemoriesOf, LimitOf, vars, tables, ram
<1>4. CASE DayPasses
  BY <1>4 DEF DayPasses, EvictInv, EvictedFrom, MemoriesOf, LimitOf, tables, ram
<1>5. ASSUME MemoryStep \/ EvictCache \/ RemoveStep \/ PurgeStep \/ FactStep \/ RestartStep
      PROVE  pc' \notin Evicting
  <2>1. CASE MemoryStep
    BY <2>1 DEF MemoryStep, InsertRow, InsertDate, AddToCache, TouchRow, TouchCache,
                StoreSentences, Evicting
  <2>2. CASE RemoveStep
    BY <2>2 DEF RemoveStep, Remove, RemoveFacts, RemoveRow, RemoveCache, Evicting
  <2>3. CASE PurgeStep
    BY <2>3 DEF PurgeStep, Purge, PurgeDates, PurgeRow, PurgeFacts, PurgeCache, Loop,
                Evicting
  <2>4. CASE FactStep
    BY <2>4 DEF FactStep, InsertFact, InsertRival, InsertFactRow, Supersede,
                RemoveFact, Evicting
  <2>5. CASE RestartStep
    BY <2>5 DEF RestartStep, Crash, Open, BackfillDate, LoadCaches, Evicting
  <2>6. CASE EvictCache
    BY <2>6 DEF EvictCache, Evicting
  <2> QED
    BY <1>5, <2>1, <2>2, <2>3, <2>4, <2>5, <2>6
<1> QED
  BY <1>1, <1>2, <1>3, <1>4, <1>5 DEF Next, EvictStep, EvictInv

(* However far over its cap a namespace is, one evict brings it exactly there,
   and takes from no other. *)
THEOREM EvictReachesCapEver == Spec => EvictReachesCap
<1> DEFINE Reached ==
      pc = "evictCache" /\ pc' = "idle" =>
        \E a \in Agents :
          /\ \A i \in victims : cache[i].agent = a
          /\ Cardinality(MemoriesOf(a)') = LimitOf(a)
<1>1. ASSUME TypeInv, OpInv, EvictInv, [Next]_vars
      PROVE  Reached
  <2> SUFFICES ASSUME pc = "evictCache", pc' = "idle"
               PROVE  \E a \in Agents :
                        /\ \A i \in victims : cache[i].agent = a
                        /\ Cardinality(MemoriesOf(a)') = LimitOf(a)
    OBVIOUS
  <2>1. memories' = memories
    BY <1>1
       DEF Next, MemoryStep, InsertRow, InsertDate, AddToCache, TouchRow, TouchCache,
           StoreSentences, EvictStep, Evict, EvictDates, EvictRow, EvictFacts,
           EvictCache, RemoveStep, Remove, RemoveFacts, RemoveRow, RemoveCache,
           PurgeStep, Purge, PurgeDates, PurgeRow, PurgeFacts, PurgeCache, Loop,
           FactStep, InsertFact, InsertRival, InsertFactRow, Supersede, RemoveFact,
           RestartStep, Crash, Open, BackfillDate, LoadCaches, DayPasses, Goto,
           Return, vars, tables
  <2>2. PICK a \in Agents : EvictedFrom(a)
    BY <1>1 DEF EvictInv, Evicting
  <2>3. MemoriesOf(a)' = MemoriesOf(a) \ victims
    BY <1>1, <2>1 DEF MemoriesOf, OpInv, RowsGone
  <2> QED
    BY <2>2, <2>3 DEF EvictedFrom
<1> HIDE DEF Reached
<1>2. Init => EvictInv
  BY DEF Init, EvictInv, Evicting
<1>3. Spec => []EvictInv
  BY <1>2, EvictStepKeeps, CacheAlways, PTL DEF Spec
<1>4. Spec => [][Reached]_vars
  BY <1>1, <1>3, CacheAlways, PTL DEF Spec
<1> QED
  BY <1>4 DEF EvictReachesCap, Reached
=============================================================================
