------------------------------ MODULE ChatRequests ------------------------------
(* POST /v1/chat/completions (src/src/proxy.cpp): a request is trimmed, the    *)
(* blocks of its earlier turns are put back from the sticky cache, a block for *)
(* its last turn is retrieved, injected and remembered, and the prompt goes to *)
(* the backend.  Handlers of several clients run at once and meet in the cache *)
(* (src/src/sticky.cpp), which each of its operations locks for itself.        *)
EXTENDS HistoryTrim, SequencesExt

CONSTANTS
    Clients,        \* each holds one conversation and has one request at a time
    Agents, AgentOf,\* X-Agent-Id of a client; clients may share one
    Memories,       \* what a search can return, each by the id it was given
    Hole,           \* -1, the id under which a purged memory is still returned
    TopK,           \* memories in a block
    InjectMode,     \* --inject-mode
    Capacity,       \* --sticky-cache-entries
    Opening,        \* what a conversation begins with, a system message or nothing
    AskContents, AnswerContents, CallContents,  \* what users ask, and what answers
                    \* and tool calls say
    MaxMessages,    \* bound: messages of a client's conversation
    MaxPurges       \* bound: purged memories

ASSUME RequestAssumption ==
    /\ AgentOf \in [Clients -> Agents]
    /\ Hole \notin Memories
    /\ TopK \in Nat /\ Capacity \in Nat
    /\ InjectMode \in {"system", "suffix", "sticky"}
    /\ Opening \in {<<>>, <<[role |-> "system", content |-> "text"]>>}
    /\ MaxMessages \in [Clients -> Nat] /\ MaxPurges \in Nat
    /\ AskContents \cup AnswerContents \cup CallContents \cup {"text"} \subseteq Contents

VARIABLES
    conversation,   \* what the client has: its messages and the answers it got
    request,        \* the handler working for the client
    lru,            \* StickyCache::lru_, most recent key first
    entries,        \* StickyCache::entries_
    purged,         \* memories whose entry in the store's cache purge_expired has
                    \* overwritten the id of (MemoryStore)
    sent,           \* history: the last prompt sent for the conversation as it is
    putFor          \* history: the question, and whose, that an entry is the latest
                    \* block of

cacheVars == <<lru, entries>>
history == <<sent, putFor>>
vars == <<conversation, request, lru, entries, purged, sent, putFor>>

Sticky == InjectMode = "sticky"

\* A memory as a search returns it: what it says, and the id it goes by.
Hits == {h \in [memory : Memories, id : Memories \cup {Hole}] : h.id \in {h.memory, Hole}}
Ids(hits) == {h.id : h \in Range(hits)}

\* A block of the prompt: the hits it shows, whether it lists facts, and how many
\* messages it reports omitted.
Block(hits, facts, omitted) == [hits |-> hits, facts |-> facts, omitted |-> omitted]
NoEntry == <<>>

Key(c, messages, i) == <<AgentOf[c], SubSeq(messages, 1, i)>>

LastUser(messages) == Max(UserStarts(messages))

NoRequest == [stage |-> "idle", window |-> <<>>, dropped |-> 0,
              prompt |-> <<>>, next |-> 1, shown |-> {}]
NothingSent == [asked |-> <<>>, prompt |-> <<>>, facts |-> FALSE]

Plain(messages) == [i \in DOMAIN messages |->
    [role |-> messages[i].role, content |-> messages[i].content, blocks |-> <<>>]]

Init ==
    /\ conversation = [c \in Clients |-> Opening]
    /\ request = [c \in Clients |-> NoRequest]
    /\ lru = <<>> /\ entries = <<>>
    /\ purged = {}
    /\ sent = [c \in Clients |-> NothingSent]
    /\ putFor = <<>>

--------------------------------------------------------------------------------
(* The sticky cache: each operation under its own mutex.                       *)

(* Mutant: the key is put in front and not taken from where it was. *)
ToFrontTwice(k) == <<k>> \o lru

\* splice(begin, lru_, found->second.order)
ToFront(k) ==
    LET p == CHOOSE i \in DOMAIN lru : lru[i] = k
    IN  <<k>> \o SubSeq(lru, 1, p - 1) \o SubSeq(lru, p + 1, Len(lru))

CacheGet(k) ==
    /\ lru' = IF k \in DOMAIN entries THEN ToFront(k) ELSE lru
    /\ UNCHANGED entries

CachePut(k, entry) ==
    LET all  == DOMAIN entries \cup {k}
        list == IF k \in DOMAIN entries THEN ToFront(k) ELSE <<k>> \o lru
        over == k \notin DOMAIN entries /\ Cardinality(all) > Capacity
        gone == IF over THEN {list[Len(list)]} ELSE {}
    IN  /\ lru' = IF over THEN SubSeq(list, 1, Len(list) - 1) ELSE list
        /\ entries' = [x \in all \ gone |-> IF x = k THEN entry ELSE entries[x]]

--------------------------------------------------------------------------------
(* Clients.                                                                    *)

Idle(c) == request[c].stage \in {"idle", "refused"}
Says(c, role, contents) ==
    /\ Len(conversation[c]) < MaxMessages[c]
    /\ \E content \in contents :
        conversation' = [conversation EXCEPT
            ![c] = Append(@, [role |-> role, content |-> content])]
    /\ UNCHANGED <<request, cacheVars, purged, history>>

AtLast(c, role) == conversation[c] # <<>> /\ Last(conversation[c]).role = role

\* The next question, after an answer or at the beginning.
Ask(c) ==
    /\ Idle(c)
    /\ \/ conversation[c] = Opening
       \/ AtLast(c, "assistant") /\ Last(conversation[c]).content \notin CallContents
    /\ Says(c, "user", AskContents)

\* An agent ran the tool that the answer called.
ToolResult(c) ==
    /\ Idle(c)
    /\ AtLast(c, "assistant") /\ Last(conversation[c]).content \in CallContents
    /\ Says(c, "tool", {"text"})

\* The client goes back to an earlier question.
Rewind(c) ==
    /\ Idle(c)
    /\ \E i \in UserStarts(conversation[c]) :
        /\ i < Len(conversation[c])
        /\ conversation' = [conversation EXCEPT ![c] = SubSeq(@, 1, i)]
    /\ sent' = [sent EXCEPT ![c] = NothingSent]
    /\ UNCHANGED <<request, cacheVars, purged, putFor>>

--------------------------------------------------------------------------------
(* The handler.                                                                *)

\* json::value("content", "") throws on a content that is present and no string:
\* extract_last_user_message and extract_conversation_context read them all.
NotAString == {"null", "parts"}
Unreadable(messages) ==
    \E i \in DOMAIN messages : messages[i].content \in NotAString

CanReceive(c) ==
    /\ Idle(c)
    /\ AtLast(c, "user") \/ AtLast(c, "tool")

\* The request is trimmed, its texts are read and, in sticky mode, its messages
\* stand as the client sent them while the earlier turns are looked up.
Receive(c) ==
    /\ CanReceive(c)
    /\ LET window == Retained(conversation[c])
       IN  /\ ~ Unreadable(window)
           /\ request' = [request EXCEPT ![c] =
                [stage |-> "history", window |-> window,
                 dropped |-> Cardinality(DroppedMessages(conversation[c])),
                 prompt |-> Plain(window), next |-> 1, shown |-> {}]]
    /\ UNCHANGED <<conversation, cacheVars, purged, history>>

\* The exception reaches the server, which answers 500.
Refuse(c) ==
    /\ CanReceive(c)
    /\ Unreadable(Retained(conversation[c]))
    /\ request' = [request EXCEPT ![c] = [NoRequest EXCEPT !.stage = "refused"]]
    /\ UNCHANGED <<conversation, cacheVars, purged, history>>

\* The user messages before the last one that apply_sticky_history has yet to see.
EarlierTurns(r) ==
    IF Sticky
    THEN {i \in UserStarts(r.window) : r.next <= i /\ i < LastUser(r.window)}
    ELSE {}

\* inject_sticky_block, inject_memories (suffix): in front of a user message.
AboveUser(prompt, i, block) ==
    [prompt EXCEPT ![i].blocks = <<block>> \o @]

\* apply_sticky_history, one turn.
Lookup(c) ==
    LET r == request[c]
        i == Min(EarlierTurns(r))
        k == Key(c, r.window, i)
        hits == IF k \in DOMAIN entries THEN entries[k] ELSE NoEntry
    IN  /\ r.stage = "history" /\ EarlierTurns(r) # {}
        /\ CacheGet(k)
        /\ request' = [request EXCEPT
            ![c].next = i + 1,
            ![c].shown = @ \cup Ids(hits),
            ![c].prompt = IF hits = NoEntry THEN @
                          ELSE AboveUser(@, i, Block(hits, FALSE, 0))]
        /\ UNCHANGED <<conversation, purged, history>>

\* inject_memories: above the last user message, or at the end of the leading
\* system message, which is added when there is none.
Inject(prompt, block, mode) ==
    IF mode # "system"
    THEN AboveUser(prompt, LastUser(prompt), block)
    ELSE IF prompt # <<>> /\ IsSystem(prompt[1])
    THEN [prompt EXCEPT ![1].blocks = Append(@, block)]
    ELSE <<[role |-> "system", content |-> "text", blocks |-> <<block>>]>> \o prompt

\* The end of the handler: the notice of a trimmed history goes next to the memory
\* block, or into the system prompt when there is none, and the prompt is posted.
Forward(c, prompt, hasBlock, facts) ==
    LET r == request[c]
        notice == Block(<<>>, FALSE, r.dropped)
        final == IF r.dropped = 0 THEN prompt
                 ELSE Inject(prompt, notice, IF hasBlock THEN InjectMode ELSE "system")
    IN  /\ sent' = [sent EXCEPT ![c] = [asked |-> conversation[c],
                                        prompt |-> final, facts |-> facts]]
        /\ request' = [request EXCEPT ![c] = [NoRequest EXCEPT !.stage = "waiting"]]
        /\ UNCHANGED <<conversation, purged>>

Retrieving(c) == request[c].stage = "history" /\ EarlierTurns(request[c]) = {}

\* The question that is being answered, and the entries of others.
Question(c) == <<c, SubSeq(conversation[c], 1, LastUser(conversation[c]))>>
OfOthers(c) == {k \in DOMAIN putFor : putFor[k] # Question(c)}

\* What the last turn is given, under its key.
Remember(c, hits) ==
    LET k == Key(c, request[c].window, LastUser(request[c].window))
    IN  /\ CachePut(k, hits)
        /\ putFor' = [x \in (OfOthers(c) \cup {k}) \cap DOMAIN entries' |->
                        IF x = k THEN Question(c) ELSE putFor[x]]

(* Mutant: the cache is not told that this turn has no block. *)
InjectNothingUntold(c) ==
    /\ Retrieving(c)
    /\ UNCHANGED <<cacheVars, putFor>>
    /\ Forward(c, request[c].prompt, FALSE, FALSE)

\* No question, no embedding, or nothing found that fits the budget.
InjectNothing(c) ==
    /\ Retrieving(c)
    /\ IF Sticky
       THEN Remember(c, NoEntry)
       ELSE UNCHANGED <<cacheVars, putFor>>
    /\ Forward(c, request[c].prompt, FALSE, FALSE)

\* A memory as the store's cache serves it: the id of a purged one says nothing.
Served(m) == [memory |-> m, id |-> IF m \in purged THEN Hole ELSE m]

\* What a search can return, best first: each memory at most once.
Rankings(n) ==
    {[i \in DOMAIN s |-> Served(s[i])] : s \in {t \in SeqOf(Memories, n) : IsInjective(t)}}

(* Mutant: nothing is excluded. *)
UnshownAll(found, shown) == found

\* filter_excluded_memories, by the ids, before the top_k are taken.
Unshown(found, shown) == AtPositions(found, {i \in DOMAIN found : found[i].id \notin shown})

\* The search asks for as many more as were shown already; the token budget may
\* end the block after any line.
InjectMemories(c) ==
    LET r == request[c]
    IN  /\ Retrieving(c)
        /\ \E found \in Rankings(TopK + Cardinality(r.shown)) :
            LET fresh == IF Sticky THEN Unshown(found, r.shown) ELSE found
            IN  \E n \in 1..Min({TopK, Len(fresh)}) :
                LET hits == SubSeq(fresh, 1, n)
                IN  /\ IF Sticky THEN Remember(c, hits)
                       ELSE UNCHANGED <<cacheVars, putFor>>
                    /\ Forward(c, Inject(r.prompt, Block(hits, FALSE, 0), InjectMode),
                               TRUE, FALSE)

\* With facts the cache is not told of this turn, and the memories beside them are
\* the best ones, shown before or not: the block does not list them here.  Nothing
\* may fit the budget.
InjectFacts(c) ==
    /\ Retrieving(c)
    /\ LET prompt == request[c].prompt
       IN  \/ Forward(c, Inject(prompt, Block(<<>>, TRUE, 0), InjectMode), TRUE, TRUE)
           \/ Forward(c, prompt, FALSE, TRUE)
    /\ putFor' = [k \in OfOthers(c) |-> putFor[k]]
    /\ UNCHANGED cacheVars

\* The backend answers, with words or with a tool call; the finished turn goes to
\* enqueue_save (SavePipeline).
Answer(c) ==
    /\ request[c].stage = "waiting"
    /\ Len(conversation[c]) < MaxMessages[c]
    /\ \E content \in AnswerContents \cup CallContents :
        conversation' = [conversation EXCEPT
            ![c] = Append(@, [role |-> "assistant", content |-> content])]
    /\ request' = [request EXCEPT ![c] = NoRequest]
    /\ UNCHANGED <<cacheVars, purged, history>>

\* The backend does not answer: 502, and the client may send the same again.
Unreachable(c) ==
    /\ request[c].stage = "waiting"
    /\ request' = [request EXCEPT ![c] = NoRequest]
    /\ UNCHANGED <<conversation, cacheVars, purged, history>>

\* The saver's housekeeping purges an expired memory (SavePipeline): its row goes, its
\* entry stays and is served without its id.
Purge(m) ==
    /\ m \notin purged /\ Cardinality(purged) < MaxPurges
    /\ purged' = purged \cup {m}
    /\ UNCHANGED <<conversation, request, cacheVars, history>>

RequestStep(c) ==
    \/ Ask(c) \/ ToolResult(c) \/ Rewind(c)
    \/ Receive(c) \/ Refuse(c) \/ Lookup(c)
    \/ InjectNothing(c) \/ InjectMemories(c) \/ InjectFacts(c)
    \/ Answer(c) \/ Unreachable(c)

Next ==
    \/ \E c \in Clients : RequestStep(c)
    \/ \E m \in Memories : Purge(m)

Spec == Init /\ [][Next]_vars

--------------------------------------------------------------------------------
(* Properties.                                                                 *)

\* The LRU list and the map are one cache: the list names each entry once and
\* nothing else, and it never holds more than the capacity (sticky.cpp:60-85).
CacheIsOne ==
    /\ IsInjective(lru)
    /\ Range(lru) = DOMAIN entries
    /\ Len(lru) <= Capacity

\* Where a prompt shows a memory: in a message's block, at a place of its list.
Places(prompt) ==
    UNION {UNION {{<<i, j, n>> : n \in DOMAIN prompt[i].blocks[j].hits} :
                  j \in DOMAIN prompt[i].blocks} :
           i \in DOMAIN prompt}
At(prompt, p) == prompt[p[1]].blocks[p[2]].hits[p[3]]

\* No memory stands at two places, but for one that was purged in between: by its own
\* id at one of them and by none at the other.
ShowsOnce(prompt) ==
    \A p, q \in Places(prompt) :
        At(prompt, p).memory = At(prompt, q).memory =>
            p = q \/ {At(prompt, p).id, At(prompt, q).id} = {At(prompt, p).memory, Hole}

\* The blocks that a request shows above its earlier turns are in the cache still and
\* are what these turns were given last.  A key is an agent and the messages of a window,
\* so it may also belong to another client's turn, or to a later turn whose trimmed window
\* begins alike; and a turn answered with facts leaves the block of an earlier try.
OwnBlocks(c) ==
    LET r == request[c]
        dropped == Len(conversation[c]) - Len(r.window)
    IN  \A i \in UserStarts(r.window) :
            r.prompt[i].blocks # <<>> =>
                /\ Key(c, r.window, i) \in DOMAIN putFor
                /\ putFor[Key(c, r.window, i)] = <<c, SubSeq(conversation[c], 1, i + dropped)>>

\* A prompt never shows a memory in two of its blocks: search results exclude what
\* the blocks of the earlier turns show (proxy.cpp:130, 184), which are those turns'
\* own.  The exclusion goes by ids (sticky.cpp:167) and purge_expired overwrites them
\* (memory_store.cpp:1065), so a memory purged after it was shown is shown once more,
\* and no oftener.  A turn answered with facts is outside the promise (README.md:106).
NoMemoryTwice ==
    [][\A c \in Clients :
        /\ sent'[c] # sent[c] /\ ~ sent'[c].facts
        /\ OwnBlocks(c)
        => ShowsOnce(sent'[c].prompt)]_vars

\* A conversation that went on, with a question of its own at the end.
FollowsUp(before, after) ==
    /\ before # <<>> /\ IsPrefix(before, after)
    /\ UserStarts(after) # {} /\ Len(before) < LastUser(after)

\* The keys of the turns that showed a block in what was last sent.
ShownKeys(c) ==
    {Key(c, sent[c].asked, i) : i \in {j \in UserStarts(sent[c].asked) :
                                        sent[c].prompt[j].blocks # <<>>}}

\* The next question of a conversation extends the prompt of the one before to the
\* letter (README.md:309), through retries, tool calls and turns taken back, except
\* where the documentation says otherwise: a turn answered with facts, a block that
\* the cache gave up, a history that was trimmed.
FollowUpExtends ==
    [][\A c \in Clients :
        /\ sent[c] # sent'[c]
        /\ FollowsUp(sent[c].asked, sent'[c].asked)
        /\ ~ sent[c].facts
        /\ ~ OverBudget(sent'[c].asked)
        /\ ShownKeys(c) \subseteq DOMAIN entries
        => IsPrefix(sent[c].prompt, sent'[c].prompt)]_vars

\* What was dropped from a conversation stays dropped as it goes on: the window
\* never reaches back (history.cpp:47-57).
DroppedStaysDropped ==
    [][\A c \in Clients :
        /\ conversation[c] # conversation'[c]
        /\ IsPrefix(conversation[c], conversation'[c])
        => DroppedMessages(conversation[c]) \subseteq DroppedMessages(conversation'[c])]_vars

\* A trimmed window is what the backend accepts and within the target: system
\* messages, then a user message; it reaches to the end and holds the last question;
\* and it fits unless nothing but the last turn is left (README.md:277-283).
WindowIsWhole ==
    \A c \in Clients :
        LET all == conversation[c]
            w == Retained(all)
            talk == AtPositions(w, NonSystem(w))
        IN  OverBudget(all) =>
                /\ talk[1].role = "user"
                /\ IsSuffix(talk, AtPositions(all, NonSystem(all)))
                /\ AtPositions(w, DOMAIN w \ NonSystem(w))
                     = AtPositions(all, DOMAIN all \ NonSystem(all))
                /\ \/ TokensFrom(w, 1) <= HistoryTarget
                   \/ Cardinality(UserStarts(w)) = 1

--------------------------------------------------------------------------------
(* What the documentation says and the code does not do.                       *)

\* "Assistant tool calls and their following tool messages stay in the same turn"
\* (README.md:281): a request that carries a tool call is served like any other.
ToolTurnsServed == \A c \in Clients : request[c].stage # "refused"
================================================================================
