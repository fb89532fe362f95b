---------------------------- MODULE HybridSearch ----------------------------
(***************************************************************************)
(* search and search_hybrid beside the store that changes under them.      *)
(*                                                                         *)
(* The dense ranking is read from the RAM cache under cache_mutex_, which  *)
(* a writer holds only for its own cache write: it may fall between any    *)
(* two statements of an insertion or a deletion.  The lexical ranking is   *)
(* read from the table under db_mutex_, which the call then keeps, so the  *)
(* second look at the cache, for hits the dense ranking lacks, meets a     *)
(* store at rest.  Between the two rankings anything may happen.           *)
(*                                                                         *)
(* What cosine, boosts, windows and bm25 make of the texts is left out: a  *)
(* ranking is any injective sequence of what its filter lets through.      *)
(***************************************************************************)
EXTENDS MemoryStore, Sequences

CONSTANTS
    TopK,          \* top_k
    Candidates,    \* candidate_count, never below top_k
    Weight         \* Weight[r]: 1 / (rrf_k + r), scaled to a whole number

ASSUME SearchAssumption ==
    /\ TopK \in Nat
    /\ Candidates \in Nat
    /\ TopK <= Candidates
    /\ Weight \in [1..Candidates -> Nat \ {0}]
    /\ \A q, r \in 1..Candidates : q < r => Weight[q] > Weight[r]

VARIABLE query     \* the search_hybrid call in progress

NoQuery == [at |-> "idle", agent |-> Global, dense |-> <<>>, lexical |-> <<>>,
            result |-> <<>>, gone |-> {}]

searchVars == <<vars, query>>

(* A found memory: whose cache entry it was copied from, and that entry's id
   and namespace at the time. *)
Copy(k) == [key |-> k, id |-> cache[k].id, agent |-> cache[k].agent]

(* The orders in which up to n members of S can come out of a ranking. *)
Rankings(S, n) ==
    {s \in UNION {[1..m -> S] : m \in 0..n} : IsInjective(s)}

(* Mutant: without search's second filter the global namespace sees all. *)
ReadableByGlobal(a) ==
    {k \in DOMAIN cache : a = Global \/ Visible(a, cache[k].agent)}

Readable(a) == {k \in DOMAIN cache : Visible(a, cache[k].agent)}
DenseRankings(a, n) == Rankings({Copy(k) : k \in Readable(a)}, n)

(* History: the ids whose deletion was complete before the call began. *)
Gone == (1..(nextMemory - 1)) \ (DOMAIN memories \cup victims)

Running == pc \notin {"closed", "opening"}

-----------------------------------------------------------------------------
(* search alone, or search_hybrid for a text without a word in it. *)
PlainSearch(a) ==
    /\ Running
    /\ query.at = "idle"
    /\ \E ranking \in DenseRankings(a, TopK) :
         query' = [NoQuery EXCEPT !.at = "done", !.agent = a, !.gone = Gone,
                                  !.result = ranking]
    /\ UNCHANGED vars

DenseSearch(a) ==
    /\ Running
    /\ query.at = "idle"
    /\ \E ranking \in DenseRankings(a, Candidates) :
         query' = [NoQuery EXCEPT !.at = "dense", !.agent = a, !.gone = Gone,
                                  !.dense = ranking]
    /\ UNCHANGED vars

Matching(a) == {i \in DOMAIN memories : Visible(a, memories[i].agent)}

(* From here the call holds db_mutex_. *)
LexicalQuery ==
    /\ query.at = "dense"
    /\ pc = "idle"
    /\ \E ranking \in Rankings(Matching(query.agent), Candidates) :
         query' = [query EXCEPT !.at = "lexical", !.lexical = ranking]
    /\ UNCHANGED vars

DenseIds == {query.dense[r].id : r \in DOMAIN query.dense}
LexicalIds == {query.lexical[r] : r \in DOMAIN query.lexical}

(* by_id: the first dense item of each id, then for the other lexical ids the
   cache entry of that id, where there is one. *)
FirstRanks == {r \in DOMAIN query.dense :
                 \A q \in 1..(r - 1) : query.dense[q].id # query.dense[r].id}
Cached(id) == {k \in DOMAIN cache : cache[k].id = id}
ById == {query.dense[r] : r \in FirstRanks}
        \cup {Copy(k) : k \in UNION {Cached(id) : id \in LexicalIds \ DenseIds}}

(* fused_scores: entries whose ids were overwritten by purge_expired share one
   id, so the weights of all of them add up. *)
Fused(id) ==
    SumFunctionOnSet(Weight, {r \in DOMAIN query.dense : query.dense[r].id = id})
    + SumFunctionOnSet(Weight, {r \in DOMAIN query.lexical : query.lexical[r] = id})

(* Mutant: sorted the other way. *)
AheadReversed(x, y) == Fused(x.id) < Fused(y.id)

Ahead(x, y) == Fused(x.id) > Fused(y.id)

(* sort by descending score, equal scores in any order, cut to top_k *)
Fuse ==
    /\ query.at = "lexical"
    /\ \E ranking \in Rankings(ById, TopK) :
         LET rest == ById \ Range(ranking)
         IN  /\ rest = {} \/ Len(ranking) = TopK
             /\ \A q, r \in DOMAIN ranking :
                  Ahead(ranking[q], ranking[r]) => q < r
             /\ \A x \in rest, r \in DOMAIN ranking : ~Ahead(x, ranking[r])
             /\ query' = [query EXCEPT !.at = "fused", !.result = ranking]
    /\ UNCHANGED vars

Answered == query.at \in {"done", "fused"}

(* The call returns; search_hybrid gives db_mutex_ up only here. *)
Deliver ==
    /\ Answered
    /\ query' = NoQuery
    /\ UNCHANGED vars

-----------------------------------------------------------------------------
(* Mutant: search_hybrid gives db_mutex_ up after the SELECT. *)
LockAlwaysFree == TRUE

LockFree == query.at \notin {"lexical", "fused"}

(* Everything that locks db_mutex_, the constructor's work included. *)
Write ==
    /\ LockFree
    /\ \/ MemoryStep \/ EvictStep \/ RemoveStep \/ PurgeStep \/ FactStep
       \/ Open \/ BackfillDate \/ LoadCaches
    /\ UNCHANGED query

Die == Crash /\ query' = NoQuery

Midnight == DayPasses /\ UNCHANGED query

SearchInit == Init /\ query = NoQuery

SearchNext ==
    \/ \E a \in Agents : PlainSearch(a) \/ DenseSearch(a)
    \/ LexicalQuery \/ Fuse \/ Deliver
    \/ Write \/ Die \/ Midnight

SearchSpec == SearchInit /\ [][SearchNext]_searchVars

-----------------------------------------------------------------------------
(* Properties *)

(* The find_if that may end at cache_.end() never does: while search_hybrid
   holds db_mutex_, each lexical hit is one live cache entry, of the namespace
   the SELECT saw, however the store was changed since the dense ranking. *)
LexicalHitsFound ==
    query.at = "lexical" =>
      \A id \in LexicalIds :
        \E k \in DOMAIN cache :
          /\ Cached(id) = {k}
          /\ Visible(query.agent, cache[k].agent)

(* A memory whose deletion had ended before the call began is in neither
   ranking under its id, so it is not in the answer. *)
ResultsWereThere ==
    Answered =>
      \A r \in DOMAIN query.result : query.result[r].id \notin query.gone

(* The answer is of namespaces the caller sees and names no id twice, the
   overwritten one included. *)
ResultIsOwn ==
    Answered =>
      /\ \A r \in DOMAIN query.result :
           Visible(query.agent, query.result[r].agent)
      /\ query.at = "fused" =>
           \A q, r \in DOMAIN query.result :
             query.result[q].id = query.result[r].id => q = r

(* a is ahead of b in every ranking b is in. *)
Beats(list, a, b) ==
    \A r \in DOMAIN list : list[r] = b => \E q \in 1..(r - 1) : list[q] = a

IdsOf(list) == [r \in DOMAIN list |-> list[r].id]

(* Unanimity: of two memories, one that every ranking with the other puts ahead
   of it is also ahead in the fused answer, the cut to top_k included. *)
AgreementKept ==
    query.at = "fused" =>
      \A r \in DOMAIN query.result, a \in MemoryIds :
        LET b == query.result[r].id
        IN  /\ b # Hole /\ a # b
            /\ Beats(IdsOf(query.dense), a, b) /\ Beats(query.lexical, a, b)
            => \E q \in 1..(r - 1) : query.result[q].id = a
=============================================================================
