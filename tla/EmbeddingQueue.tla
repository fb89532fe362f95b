--------------------------- MODULE EmbeddingQueue ---------------------------
(***************************************************************************)
(* EmbeddingWorker: one thread computes embeddings for all the others.     *)
(* embed() puts a job on the queue of its priority and waits ten seconds   *)
(* for the job's promise; worker_loop sleeps on cv_, takes up to           *)
(* kMaxBatchTexts jobs of one priority, and fulfils their promises, one    *)
(* text at a time or through one batch of several sequences.               *)
(*                                                                         *)
(* mutex_ is held for a push, and by the worker from its test of the       *)
(* queues until it waits or has taken jobs.  The notifications come after  *)
(* the push, and stop_ is set, without it.                                 *)
(*                                                                         *)
(* A text is its number of tokens; the embedding of a text is the text.    *)
(* Tokenizer and model are the library's: evaluating may fail, and more    *)
(* tokens than the context takes end the process.  The program does not    *)
(* start without a model, so ready_ holds.                                 *)
(***************************************************************************)
EXTENDS Naturals, Sequences, FiniteSets

CONSTANTS
    HighCallers,    \* threads that search: request handlers
    NormalCallers,  \* threads that save: saver_loop, fact_loop
    Texts, Tokens,  \* texts and their numbers of tokens
    NBatch,         \* n_batch_max_
    MaxBatchTexts,  \* kMaxBatchTexts
    NoVector,       \* the empty vector: no embedding
    None,           \* no text, no answer yet, nobody waiting
    MaxQueued,      \* bound of the model: jobs waiting on one queue
    MaxAbandoned    \* bound of the model: jobs nobody waits for any more

Callers == HighCallers \cup NormalCallers

ASSUME QueueAssumption ==
    /\ HighCallers \cap NormalCallers = {}
    /\ Tokens \in [Texts -> Nat]
    /\ NBatch \in Nat \ {0} /\ MaxBatchTexts \in Nat \ {0}
    /\ NoVector \notin Texts /\ None \notin Texts \cup Callers \cup {NoVector}
    /\ MaxQueued \in Nat /\ MaxAbandoned \in Nat

VARIABLES
    jobsHigh, jobsNormal,  \* jobs_high_, jobs_normal_
    caller,                \* each thread's call: [at, text, answer]
    worker,                \* worker_loop: [at, jobs, next, ok]
    shutdown               \* how far shutdown() has come

vars == <<jobsHigh, jobsNormal, caller, worker, shutdown>>

\* A job's promise is kept for the caller that waits; after a time-out for None.
Jobs(callers) == [text : Texts, for : callers \cup {None}]
WorkerAt == {"lock", "tested", "blocked", "serial", "decode", "answer",
             "gone", "aborted"}

Busy == worker.at \in {"serial", "decode", "answer"}

TypeOK ==
    /\ jobsHigh \in Seq(Jobs(HighCallers)) /\ jobsNormal \in Seq(Jobs(NormalCallers))
    /\ caller \in [Callers -> [at : {"idle", "notify", "wait"},
                               text : Texts \cup {None},
                               answer : Texts \cup {NoVector, None}]]
    /\ worker \in [at : WorkerAt, jobs : Seq(Jobs(Callers)), next : Nat, ok : BOOLEAN]
    /\ Len(worker.jobs) <= MaxBatchTexts
    /\ Busy => worker.next \in DOMAIN worker.jobs
    /\ shutdown \in {"none", "set", "notified", "joined"}

Idle == [at |-> "idle", text |-> None, answer |-> None]
Empty == [at |-> "lock", jobs |-> <<>>, next |-> 1, ok |-> FALSE]

Init ==
    /\ jobsHigh = <<>> /\ jobsNormal = <<>>
    /\ caller = [c \in Callers |-> Idle]
    /\ worker = Empty
    /\ shutdown = "none"

Pending(c) == caller[c].at # "idle" /\ caller[c].answer = None

\* The jobs in the worker's hands whose promises are still to be fulfilled.
Held == IF Busy THEN worker.next .. Len(worker.jobs) ELSE {}

\* Where the promise of a call is.
OwnQueue(c) == IF c \in HighCallers THEN jobsHigh ELSE jobsNormal
QueuedFor(c) == {p \in DOMAIN OwnQueue(c) : OwnQueue(c)[p].for = c}
HeldFor(c) == {p \in Held : worker.jobs[p].for = c}
Promises(c) == {<<"queue", p>> : p \in QueuedFor(c)} \cup {<<"worker", p>> : p \in HeldFor(c)}

Alive == worker.at # "aborted"

-----------------------------------------------------------------------------
(* embed *)

MutexFree == worker.at # "tested"

Enqueue(c, t) ==
    LET job == [text |-> t, for |-> c] IN
    IF c \in HighCallers
    THEN /\ Len(jobsHigh) < MaxQueued
         /\ jobsHigh' = Append(jobsHigh, job)
         /\ UNCHANGED jobsNormal
    ELSE /\ Len(jobsNormal) < MaxQueued
         /\ jobsNormal' = Append(jobsNormal, job)
         /\ UNCHANGED jobsHigh

(* Mutant: the job is pushed without mutex_. *)
CallUnlocked(c, t) ==
    /\ shutdown = "none" /\ caller[c] = Idle
    /\ Enqueue(c, t)
    /\ caller' = [caller EXCEPT ![c] = [at |-> "notify", text |-> t, answer |-> None]]
    /\ UNCHANGED <<worker, shutdown>>

(* A thread calls embed; when the worker is being shut down the threads that
   call it are gone. *)
Call(c, t) ==
    /\ shutdown = "none" /\ caller[c] = Idle
    /\ MutexFree
    /\ Enqueue(c, t)
    /\ caller' = [caller EXCEPT ![c] = [at |-> "notify", text |-> t, answer |-> None]]
    /\ UNCHANGED <<worker, shutdown>>

Woken == IF worker.at = "blocked" THEN [worker EXCEPT !.at = "lock"] ELSE worker

Notify(c) ==
    /\ caller[c].at = "notify"
    /\ worker' = Woken
    /\ caller' = [caller EXCEPT ![c].at = "wait"]
    /\ UNCHANGED <<jobsHigh, jobsNormal, shutdown>>

Return(c) ==
    /\ caller[c].at = "wait" /\ caller[c].answer # None
    /\ caller' = [caller EXCEPT ![c] = Idle]
    /\ UNCHANGED <<jobsHigh, jobsNormal, worker, shutdown>>

Abandoned(q, c) ==
    [p \in DOMAIN q |-> IF q[p].for = c THEN [q[p] EXCEPT !.for = None] ELSE q[p]]

AbandonedJobs ==
    Cardinality({p \in DOMAIN jobsHigh : jobsHigh[p].for = None})
    + Cardinality({p \in DOMAIN jobsNormal : jobsNormal[p].for = None})
    + Cardinality({p \in Held : worker.jobs[p].for = None})

(* Ten seconds have passed: the caller goes without, the job stays. *)
TimeOut(c) ==
    /\ caller[c].at = "wait" /\ caller[c].answer = None
    /\ AbandonedJobs < MaxAbandoned
    /\ caller' = [caller EXCEPT ![c] = Idle]
    /\ jobsHigh' = Abandoned(jobsHigh, c)
    /\ jobsNormal' = Abandoned(jobsNormal, c)
    /\ worker' = [worker EXCEPT !.jobs = Abandoned(@, c)]
    /\ UNCHANGED shutdown

-----------------------------------------------------------------------------
(* worker_loop *)

Drained == jobsHigh = <<>> /\ jobsNormal = <<>>

BatchOf(q) == SubSeq(q, 1, IF Len(q) <= MaxBatchTexts THEN Len(q) ELSE MaxBatchTexts)
RestOf(q) == SubSeq(q, Len(BatchOf(q)) + 1, Len(q))

TokensUpTo(jobs) ==
    LET sum[n \in 0..Len(jobs)] == IF n = 0 THEN 0 ELSE sum[n - 1] + Tokens[jobs[n].text]
    IN  sum[Len(jobs)]

(* One text, or more tokens than one evaluation takes: text by text. *)
Path(jobs) ==
    IF Len(jobs) = 1 \/ TokensUpTo(jobs) > NBatch THEN "serial" ELSE "decode"

(* Mutant: saves before searches. *)
SavesFirst == jobsNormal = <<>>

SearchesFirst == jobsHigh # <<>>

Taking(jobs) ==
    worker' = [at |-> Path(jobs), jobs |-> jobs, next |-> 1, ok |-> FALSE]

WorkerTake ==
    /\ worker.at = "lock" /\ ~Drained
    /\ IF SearchesFirst
       THEN /\ Taking(BatchOf(jobsHigh))
            /\ jobsHigh' = RestOf(jobsHigh) /\ UNCHANGED jobsNormal
       ELSE /\ Taking(BatchOf(jobsNormal))
            /\ jobsNormal' = RestOf(jobsNormal) /\ UNCHANGED jobsHigh
    /\ UNCHANGED <<caller, shutdown>>

(* Mutant: stop_ is obeyed at once. *)
WorkerLeaveAtOnce ==
    /\ worker.at = "lock" /\ shutdown # "none"
    /\ worker' = [worker EXCEPT !.at = "gone"]
    /\ UNCHANGED <<jobsHigh, jobsNormal, caller, shutdown>>

WorkerLeave ==
    /\ worker.at = "lock" /\ Drained /\ shutdown # "none"
    /\ worker' = [worker EXCEPT !.at = "gone"]
    /\ UNCHANGED <<jobsHigh, jobsNormal, caller, shutdown>>

(* The predicate of cv_.wait is false; the wait begins a step later. *)
WorkerTest ==
    /\ worker.at = "lock" /\ Drained /\ shutdown = "none"
    /\ worker' = [worker EXCEPT !.at = "tested"]
    /\ UNCHANGED <<jobsHigh, jobsNormal, caller, shutdown>>

WorkerBlock ==
    /\ worker.at = "tested"
    /\ worker' = [worker EXCEPT !.at = "blocked"]
    /\ UNCHANGED <<jobsHigh, jobsNormal, caller, shutdown>>

\* A condition variable may wake without a notification.
WakeUnasked ==
    /\ worker.at = "blocked"
    /\ worker' = [worker EXCEPT !.at = "lock"]
    /\ UNCHANGED <<jobsHigh, jobsNormal, caller, shutdown>>

(* promise.set_value *)
Fulfil(v) ==
    LET job == worker.jobs[worker.next] IN
    /\ caller' = IF job.for = None THEN caller ELSE [caller EXCEPT ![job.for].answer = v]
    /\ worker' = IF worker.next = Len(worker.jobs) THEN Empty
                 ELSE [worker EXCEPT !.next = @ + 1, !.jobs[worker.next].for = None]

Found(t) == IF Tokens[t] = 0 THEN {NoVector} ELSE {t, NoVector}

(* Mutant: after the serial fallback the batch is evaluated as well. *)
EncodeSingleAndGoOn ==
    LET text == worker.jobs[worker.next].text IN
    /\ worker.at = "serial" /\ Tokens[text] <= NBatch
    /\ \E v \in Found(text) :
         LET job == worker.jobs[worker.next] IN
         /\ caller' = IF job.for = None THEN caller ELSE [caller EXCEPT ![job.for].answer = v]
         /\ worker' = IF worker.next < Len(worker.jobs)
                      THEN [worker EXCEPT !.next = @ + 1]
                      ELSE [worker EXCEPT !.at = "answer", !.next = 1, !.ok = FALSE]
    /\ UNCHANGED <<jobsHigh, jobsNormal, shutdown>>

(* encode_single *)
EncodeSingle ==
    LET text == worker.jobs[worker.next].text IN
    /\ worker.at = "serial" /\ Tokens[text] <= NBatch
    /\ \E v \in Found(text) : Fulfil(v)
    /\ UNCHANGED <<jobsHigh, jobsNormal, shutdown>>

\* The encoder asserts that its context takes all the tokens.
EncodeTooLong ==
    /\ worker.at = "serial" /\ Tokens[worker.jobs[worker.next].text] > NBatch
    /\ worker' = [worker EXCEPT !.at = "aborted"]
    /\ UNCHANGED <<jobsHigh, jobsNormal, caller, shutdown>>

(* The batch has a sequence for each text with tokens, numbered in order. *)
HasSeq(jobs, i) == Tokens[jobs[i].text] > 0
JobSeq(jobs, i) == Cardinality({j \in 1..(i - 1) : HasSeq(jobs, j)})
SeqTexts(jobs, s) ==
    {jobs[j].text : j \in {k \in DOMAIN jobs : HasSeq(jobs, k) /\ JobSeq(jobs, k) = s}}

Decode ==
    /\ worker.at = "decode"
    /\ \E ok \in BOOLEAN :
         /\ ok => \E i \in DOMAIN worker.jobs : HasSeq(worker.jobs, i)
         /\ worker' = [worker EXCEPT !.at = "answer", !.ok = ok]
    /\ UNCHANGED <<jobsHigh, jobsNormal, caller, shutdown>>

(* Mutant: the sequence is looked up by the job's place in the batch. *)
BatchedByPlace(jobs, i) == SeqTexts(jobs, i - 1)

Batched(jobs, i) == IF HasSeq(jobs, i) THEN SeqTexts(jobs, JobSeq(jobs, i)) ELSE {}

Answer ==
    /\ worker.at = "answer"
    /\ \E v \in {NoVector} \cup IF worker.ok THEN Batched(worker.jobs, worker.next) ELSE {} :
         Fulfil(v)
    /\ UNCHANGED <<jobsHigh, jobsNormal, shutdown>>

-----------------------------------------------------------------------------
(* shutdown, called when nobody calls embed any more *)

SetStop ==
    /\ shutdown = "none" /\ \A c \in Callers : caller[c] = Idle
    /\ shutdown' = "set"
    /\ UNCHANGED <<jobsHigh, jobsNormal, caller, worker>>

NotifyStop ==
    /\ shutdown = "set"
    /\ worker' = Woken
    /\ shutdown' = "notified"
    /\ UNCHANGED <<jobsHigh, jobsNormal, caller>>

Join ==
    /\ shutdown = "notified" /\ worker.at = "gone"
    /\ shutdown' = "joined"
    /\ UNCHANGED <<jobsHigh, jobsNormal, caller, worker>>

WorkerStep ==
    /\ Alive
    /\ \/ WorkerTake \/ WorkerLeave \/ WorkerTest \/ WorkerBlock
       \/ EncodeSingle \/ EncodeTooLong \/ Decode \/ Answer

Stopping == Alive /\ (NotifyStop \/ Join)
NotifyStep(c) == Alive /\ Notify(c)

Next ==
    \/ WorkerStep \/ Stopping
    \/ \E c \in Callers : NotifyStep(c)
    \/ /\ Alive
       /\ \/ WakeUnasked \/ SetStop
          \/ \E c \in Callers : Return(c) \/ TimeOut(c) \/ \E t \in Texts : Call(c, t)

Spec == Init /\ [][Next]_vars

(* The threads are scheduled.  Nothing is assumed of the time-outs, which
   would answer every call, nor of wake-ups without a notification. *)
FairSpec ==
    /\ Spec
    /\ WF_vars(WorkerStep) /\ WF_vars(Stopping)
    /\ \A c \in Callers : WF_vars(NotifyStep(c))

-----------------------------------------------------------------------------
(* The service *)

\* d's promise is kept before c's, which is of the same priority.
Before(d, c) ==
    \/ HeldFor(d) # {} /\ QueuedFor(c) # {}
    \/ \E p \in HeldFor(d), r \in HeldFor(c) : p < r
    \/ \E p \in QueuedFor(d), r \in QueuedFor(c) : p < r

Peers(c) == IF c \in HighCallers THEN HighCallers ELSE NormalCallers

Calls == [c \in Callers |-> [text |-> caller[c].text, answer |-> caller[c].answer]]
Ahead == [c \in Callers |-> IF Alive THEN {d \in Peers(c) : Before(d, c)} ELSE {}]
Admitted == {c \in NormalCallers : HeldFor(c) # {}}

Service == INSTANCE EmbeddingService WITH
             MaxBatch <- MaxBatchTexts, call <- Calls, ahead <- Ahead,
             admitted <- Admitted, ended <- ~Alive

-----------------------------------------------------------------------------
(* Properties *)

(* Every call that waits has exactly one unfulfilled promise, on its own
   queue or in the worker's hands and for its own text, and nobody else has
   one: no caller is forgotten, and no promise is fulfilled twice, which would
   end the process. *)
JobsMatchCalls ==
    Alive => \A c \in Callers :
        /\ Cardinality(Promises(c)) = IF Pending(c) THEN 1 ELSE 0
        /\ \A p \in QueuedFor(c) : OwnQueue(c)[p].text = caller[c].text
        /\ \A p \in HeldFor(c) : worker.jobs[p].text = caller[c].text

(* A caller gets the embedding of its own text or none, whatever texts
   without tokens stand in the same batch. *)
OwnAnswers ==
    \A c \in Callers : caller[c].answer \in {caller[c].text, NoVector, None}

(* The worker never sleeps on a job: one that waits while the worker does has
   a caller about to notify. *)
NoLostWakeUp ==
    worker.at \in {"tested", "blocked"} /\ ~Drained =>
        \E c \in Callers : caller[c].at = "notify"

(* The worker serves its callers: each priority in the order of the calls,
   of the saves at most one batch before a waiting search, whatever fallbacks
   and time-outs happen on the way. *)
IsService == Service!Spec

(* A search's embedding is computed in the end even if its caller never gave
   up, with searches and saves coming in without end; a save's is, unless
   searches never stop. *)
CallsAnswered ==
    /\ \A c \in HighCallers : Pending(c) ~> ~Pending(c) \/ ~Alive
    /\ \A c \in NormalCallers :
        \/ Pending(c) ~> ~Pending(c) \/ ~Alive
        \/ []<>(\E h \in HighCallers : Pending(h))

(* What was queued before shutdown is computed, also for callers that gave
   up, before the worker leaves or sleeps for good. *)
ShutdownDrains ==
    shutdown # "none" ~> (Drained /\ ~Busy) \/ ~Alive

=============================================================================
