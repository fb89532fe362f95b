-------------------------- MODULE EmbeddingService --------------------------
(***************************************************************************)
(* What the embedding worker is to the threads that call it.  Calls of one *)
(* priority are answered in the order in which they were made, each once,  *)
(* with the embedding of its own text or none; a caller that gives up      *)
(* disturbs nobody's order; and once a search waits, of the saves only     *)
(* those already admitted, one batch at most, are answered before it.      *)
(***************************************************************************)
EXTENDS Naturals, FiniteSets

CONSTANTS
    HighCallers, NormalCallers,  \* threads that search, threads that save
    Texts,
    MaxBatch,
    NoVector, None

VARIABLES
    call,      \* each thread's call: [text, answer]
    ahead,     \* the calls of the same priority that are to be answered first
    admitted,  \* saves that may be answered although a search waits
    ended      \* the process is gone

serviceVars == <<call, ahead, admitted, ended>>

Callers == HighCallers \cup NormalCallers
Peers(c) == IF c \in HighCallers THEN HighCallers ELSE NormalCallers

NoCall == [text |-> None, answer |-> None]
Waiting(c) == call[c].text # None /\ call[c].answer = None

Init ==
    /\ call = [c \in Callers |-> NoCall]
    /\ ahead = [c \in Callers |-> {}]
    /\ admitted = {}
    /\ ended = FALSE

Ask(c, t) ==
    /\ call[c] = NoCall
    /\ call' = [call EXCEPT ![c] = [text |-> t, answer |-> None]]
    /\ ahead' = [ahead EXCEPT ![c] = {d \in Peers(c) : Waiting(d)}]
    /\ UNCHANGED admitted

\* A call that was answered or given up is ahead of no other.
Settled(c) ==
    /\ Waiting(c)
    /\ ahead' = [d \in Callers |-> IF d = c THEN {} ELSE ahead[d] \ {c}]
    /\ admitted' = admitted \ {c}

Answer(c) ==
    /\ ahead[c] = {} /\ c \in HighCallers \cup admitted
    /\ \E v \in {call[c].text, NoVector} :
         call' = [call EXCEPT ![c] = [text |-> call[c].text, answer |-> v]]
    /\ Settled(c)

GiveUp(c) ==
    /\ call' = [call EXCEPT ![c] = NoCall]
    /\ Settled(c)

Return(c) ==
    /\ call[c].answer # None
    /\ call' = [call EXCEPT ![c] = NoCall]
    /\ UNCHANGED <<ahead, admitted>>

\* The first saves of their line, while no search waits.
Admit(S) ==
    /\ admitted = {} /\ Cardinality(S) <= MaxBatch
    /\ \A c \in S : Waiting(c) /\ ahead[c] \subseteq S
    /\ \A c \in HighCallers : ~Waiting(c)
    /\ admitted' = S
    /\ UNCHANGED <<call, ahead>>

Serve ==
    \/ \E c \in Callers : Answer(c) \/ GiveUp(c) \/ Return(c) \/ \E t \in Texts : Ask(c, t)
    \/ \E S \in SUBSET NormalCallers : Admit(S)

\* The library ends the process when it is given too many tokens.
End ==
    /\ ended' = TRUE
    /\ ahead' = [c \in Callers |-> {}] /\ admitted' = {}
    /\ UNCHANGED call

Next == ~ended /\ (End \/ (Serve /\ UNCHANGED ended))

Spec == Init /\ [][Next]_serviceVars
=============================================================================
