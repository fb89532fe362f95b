------------------------ MODULE EmbeddingQueueProofs ------------------------
(***************************************************************************)
(* Proofs about EmbeddingQueue, for any callers, texts and batch sizes:    *)
(* types; that the worker never sleeps on a job; that every waiting call   *)
(* has exactly one promise; that callers get their own embeddings; and     *)
(* that the worker implements EmbeddingService.                            *)
(***************************************************************************)
EXTENDS EmbeddingQueue, FiniteSetTheorems, TLAPS

-----------------------------------------------------------------------------
(* Queues *)

LEMMA BatchFacts ==
    ASSUME NEW S, NEW q \in Seq(S)
    PROVE  /\ BatchOf(q) \in Seq(S) /\ RestOf(q) \in Seq(S)
           /\ Len(BatchOf(q)) \in 0..MaxBatchTexts
           /\ Len(BatchOf(q)) <= Len(q)
           /\ q # <<>> => Len(BatchOf(q)) >= 1
           /\ Len(RestOf(q)) = Len(q) - Len(BatchOf(q))
           /\ \A p \in DOMAIN BatchOf(q) : BatchOf(q)[p] = q[p]
           /\ \A p \in DOMAIN RestOf(q) : RestOf(q)[p] = q[p + Len(BatchOf(q))]
<1>1. MaxBatchTexts \in Nat \ {0}
  BY QueueAssumption
<1>2. Len(q) \in Nat /\ (q # <<>> => Len(q) >= 1)
  OBVIOUS
<1>3. PICK k \in 0..Len(q) :
        /\ BatchOf(q) = SubSeq(q, 1, k) /\ k <= MaxBatchTexts
        /\ q # <<>> => k >= 1
  BY <1>1, <1>2 DEF BatchOf
<1>4. BatchOf(q) \in Seq(S) /\ Len(BatchOf(q)) = k
      /\ \A p \in 1..k : BatchOf(q)[p] = q[p]
  BY <1>2, <1>3
<1>5. RestOf(q) = SubSeq(q, k + 1, Len(q))
  BY <1>4 DEF RestOf
<1>6. RestOf(q) \in Seq(S) /\ Len(RestOf(q)) = Len(q) - k
      /\ \A p \in 1..(Len(q) - k) : RestOf(q)[p] = q[p + k]
  BY <1>2, <1>3, <1>5
<1>7. DOMAIN BatchOf(q) = 1..k /\ DOMAIN RestOf(q) = 1..(Len(q) - k)
  BY <1>4, <1>6
<1>8. QED
  BY <1>1, <1>2, <1>3, <1>4, <1>6, <1>7

LEMMA AbandonedFacts ==
    ASSUME NEW S, NEW q \in Seq(Jobs(S)), NEW c
    PROVE  /\ Abandoned(q, c) \in Seq(Jobs(S))
           /\ Len(Abandoned(q, c)) = Len(q) /\ DOMAIN Abandoned(q, c) = DOMAIN q
           /\ \A p \in DOMAIN q :
                /\ Abandoned(q, c)[p].text = q[p].text
                /\ Abandoned(q, c)[p].for = IF q[p].for = c THEN None ELSE q[p].for
<1>1. Len(q) \in Nat /\ DOMAIN q = 1..Len(q)
  OBVIOUS
<1>2. ASSUME NEW p \in DOMAIN q
      PROVE  /\ Abandoned(q, c)[p] \in Jobs(S)
             /\ Abandoned(q, c)[p].text = q[p].text
             /\ Abandoned(q, c)[p].for = IF q[p].for = c THEN None ELSE q[p].for
  <2>1. q[p] \in Jobs(S)
    OBVIOUS
  <2>2. Abandoned(q, c)[p] = IF q[p].for = c THEN [q[p] EXCEPT !.for = None] ELSE q[p]
    BY DEF Abandoned
  <2>3. QED
    BY <2>1, <2>2 DEF Jobs
<1>3. Abandoned(q, c) = [p \in 1..Len(q) |-> Abandoned(q, c)[p]]
  BY <1>1 DEF Abandoned
<1>4. Abandoned(q, c) \in [1..Len(q) -> Jobs(S)]
  BY <1>1, <1>2, <1>3
<1>5. Abandoned(q, c) \in Seq(Jobs(S)) /\ Len(Abandoned(q, c)) = Len(q)
  BY <1>1, <1>4
<1>6. QED
  BY <1>1, <1>2, <1>4, <1>5

-----------------------------------------------------------------------------
(* Types *)

LEMMA JobsMonotone ==
    /\ Seq(Jobs(HighCallers)) \subseteq Seq(Jobs(Callers))
    /\ Seq(Jobs(NormalCallers)) \subseteq Seq(Jobs(Callers))
<1>1. Jobs(HighCallers) \subseteq Jobs(Callers) /\ Jobs(NormalCallers) \subseteq Jobs(Callers)
  BY DEF Jobs, Callers
<1>2. ASSUME NEW S, NEW T, S \subseteq T, NEW q \in Seq(S)
      PROVE  q \in Seq(T)
  <2>1. Len(q) \in Nat /\ q \in [1..Len(q) -> S]
    OBVIOUS
  <2>2. q \in [1..Len(q) -> T]
    BY <1>2, <2>1
  <2>3. QED
    BY <2>1, <2>2
<1>3. QED
  BY <1>1, <1>2

LEMMA FulfilType ==
    ASSUME TypeOK, Busy, NEW v \in Texts \cup {NoVector}, Fulfil(v)
    PROVE  /\ caller' \in [Callers -> [at : {"idle", "notify", "wait"},
                                       text : Texts \cup {None},
                                       answer : Texts \cup {NoVector, None}]]
           /\ worker' \in [at : WorkerAt, jobs : Seq(Jobs(Callers)), next : Nat, ok : BOOLEAN]
           /\ Len(worker'.jobs) <= MaxBatchTexts
           /\ Busy' => worker'.next \in DOMAIN worker'.jobs
<1> DEFINE n == worker.next
           job == worker.jobs[n]
           jobs2 == [worker.jobs EXCEPT ![n].for = None]
<1>1. /\ n \in 1..Len(worker.jobs) /\ worker.jobs \in Seq(Jobs(Callers))
      /\ Len(worker.jobs) \in Nat
  BY DEF TypeOK
<1>2. job \in Jobs(Callers)
  BY <1>1
<1>3. caller' \in [Callers -> [at : {"idle", "notify", "wait"},
                               text : Texts \cup {None},
                               answer : Texts \cup {NoVector, None}]]
  <2>1. job.for \in Callers \cup {None}
    BY <1>2 DEF Jobs
  <2>2. CASE job.for = None
    BY <2>2 DEF Fulfil, TypeOK
  <2>3. CASE job.for # None
    <3>1. job.for \in Callers /\ caller' = [caller EXCEPT ![job.for].answer = v]
      BY <2>1, <2>3 DEF Fulfil
    <3>2. [caller[job.for] EXCEPT !.answer = v]
            \in [at : {"idle", "notify", "wait"}, text : Texts \cup {None},
                 answer : Texts \cup {NoVector, None}]
      BY <3>1 DEF TypeOK
    <3>3. QED
      BY <3>1, <3>2 DEF TypeOK
  <2>4. QED
    BY <2>2, <2>3
<1>4. jobs2 \in Seq(Jobs(Callers)) /\ Len(jobs2) = Len(worker.jobs)
  <2>1. [job EXCEPT !.for = None] \in Jobs(Callers)
    BY <1>2 DEF Jobs
  <2>2. jobs2 = [worker.jobs EXCEPT ![n] = [job EXCEPT !.for = None]]
    OBVIOUS
  <2> HIDE DEF jobs2
  <2>3. QED
    BY <1>1, <2>1, <2>2
<1>5. CASE n = Len(worker.jobs)
  <2>1. worker' = Empty
    BY <1>5 DEF Fulfil
  <2>2. MaxBatchTexts \in Nat
    BY QueueAssumption
  <2>3. <<>> \in Seq(Jobs(Callers)) /\ Len(<<>>) = 0
    OBVIOUS
  <2>4. QED
    BY <1>3, <2>1, <2>2, <2>3 DEF Empty, WorkerAt, Busy
<1>6. CASE n # Len(worker.jobs)
  <2>1. worker' = [worker EXCEPT !.next = n + 1, !.jobs = jobs2]
    BY <1>6 DEF Fulfil, TypeOK
  <2> HIDE DEF jobs2
  <2>2. worker' \in [at : WorkerAt, jobs : Seq(Jobs(Callers)), next : Nat, ok : BOOLEAN]
        /\ worker'.jobs = jobs2 /\ worker'.next = n + 1
    <3>1. worker' = [at |-> worker.at, jobs |-> jobs2, next |-> n + 1, ok |-> worker.ok]
      BY <2>1 DEF TypeOK
    <3>2. worker.at \in WorkerAt /\ worker.ok \in BOOLEAN /\ n + 1 \in Nat
      BY <1>1 DEF TypeOK
    <3>3. QED
      BY <1>4, <3>1, <3>2
  <2>3. n + 1 \in DOMAIN jobs2
    BY <1>1, <1>4, <1>6
  <2>4. QED
    BY <1>3, <1>4, <2>2, <2>3 DEF TypeOK
<1>7. QED
  BY <1>5, <1>6

LEMMA NextTypeOK == TypeOK /\ [Next]_vars => TypeOK'
<1> SUFFICES ASSUME TypeOK, [Next]_vars PROVE TypeOK'
  OBVIOUS
<1> USE DEF TypeOK, WorkerAt
<1>1. ASSUME NEW c \in Callers, NEW t \in Texts, Call(c, t) PROVE TypeOK'
  <2>1. [text |-> t, for |-> c] \in Jobs(IF c \in HighCallers THEN HighCallers ELSE NormalCallers)
    BY DEF Jobs, Callers
  <2>2. jobsHigh' \in Seq(Jobs(HighCallers)) /\ jobsNormal' \in Seq(Jobs(NormalCallers))
    <3>1. CASE c \in HighCallers
      <4>1. jobsHigh' = Append(jobsHigh, [text |-> t, for |-> c]) /\ jobsNormal' = jobsNormal
        BY <1>1, <3>1 DEF Call, Enqueue
      <4>2. [text |-> t, for |-> c] \in Jobs(HighCallers)
        BY <2>1, <3>1
      <4>3. QED
        BY <4>1, <4>2
    <3>2. CASE c \notin HighCallers
      <4>1. jobsNormal' = Append(jobsNormal, [text |-> t, for |-> c]) /\ jobsHigh' = jobsHigh
        BY <1>1, <3>2 DEF Call, Enqueue
      <4>2. [text |-> t, for |-> c] \in Jobs(NormalCallers)
        BY <2>1, <3>2 DEF Callers
      <4>3. QED
        BY <4>1, <4>2
    <3>3. QED
      BY <3>1, <3>2
  <2>3. [at |-> "notify", text |-> t, answer |-> None]
          \in [at : {"idle", "notify", "wait"}, text : Texts \cup {None},
               answer : Texts \cup {NoVector, None}]
    OBVIOUS
  <2>4. QED
    BY <1>1, <2>2, <2>3 DEF Call, Busy
<1>2. ASSUME NEW c \in Callers, Notify(c) PROVE TypeOK'
  <2>1. [caller[c] EXCEPT !.at = "wait"]
          \in [at : {"idle", "notify", "wait"}, text : Texts \cup {None},
               answer : Texts \cup {NoVector, None}]
    OBVIOUS
  <2>2. caller' = [caller EXCEPT ![c] = [caller[c] EXCEPT !.at = "wait"]]
    BY <1>2 DEF Notify
  <2>3. worker' = worker \/ worker' = [worker EXCEPT !.at = "lock"]
    BY <1>2 DEF Notify, Woken
  <2>4. /\ worker' \in [at : WorkerAt, jobs : Seq(Jobs(Callers)), next : Nat, ok : BOOLEAN]
        /\ worker'.jobs = worker.jobs /\ worker'.next = worker.next
        /\ Busy' => Busy
    BY <2>3 DEF Busy
  <2>5. caller' \in [Callers -> [at : {"idle", "notify", "wait"}, text : Texts \cup {None},
                                 answer : Texts \cup {NoVector, None}]]
    BY <2>1, <2>2
  <2>6. QED
    BY <1>2, <2>4, <2>5 DEF Notify
<1>3. ASSUME NEW c \in Callers, Return(c) PROVE TypeOK'
  BY <1>3 DEF Return, Idle, Busy
<1>4. ASSUME NEW c \in Callers, TimeOut(c) PROVE TypeOK'
  <2>1. jobsHigh' \in Seq(Jobs(HighCallers)) /\ jobsNormal' \in Seq(Jobs(NormalCallers))
    BY <1>4, AbandonedFacts DEF TimeOut
  <2>2. /\ Abandoned(worker.jobs, c) \in Seq(Jobs(Callers))
        /\ Len(Abandoned(worker.jobs, c)) = Len(worker.jobs)
        /\ DOMAIN Abandoned(worker.jobs, c) = DOMAIN worker.jobs
    BY AbandonedFacts
  <2>3. worker' = [at |-> worker.at, jobs |-> Abandoned(worker.jobs, c),
                   next |-> worker.next, ok |-> worker.ok]
    BY <1>4 DEF TimeOut
  <2>4. QED
    BY <1>4, <2>1, <2>2, <2>3 DEF TimeOut, Idle, Busy
<1>5. CASE WorkerTake
  <2>1. ASSUME NEW S, NEW q \in Seq(Jobs(S)), q # <<>>,
               Seq(Jobs(S)) \subseteq Seq(Jobs(Callers)), Taking(BatchOf(q))
        PROVE  /\ worker' \in [at : WorkerAt, jobs : Seq(Jobs(Callers)), next : Nat, ok : BOOLEAN]
               /\ Len(worker'.jobs) <= MaxBatchTexts
               /\ worker'.next \in DOMAIN worker'.jobs
    <3>1. /\ BatchOf(q) \in Seq(Jobs(Callers))
          /\ Len(BatchOf(q)) \in 1..MaxBatchTexts
      BY <2>1, BatchFacts, QueueAssumption
    <3>2. Path(BatchOf(q)) \in WorkerAt
      BY DEF Path
    <3>3. worker' = [at |-> Path(BatchOf(q)), jobs |-> BatchOf(q), next |-> 1, ok |-> FALSE]
      BY <2>1 DEF Taking
    <3>4. QED
      BY <3>1, <3>2, <3>3
  <2>2. RestOf(jobsHigh) \in Seq(Jobs(HighCallers)) /\ RestOf(jobsNormal) \in Seq(Jobs(NormalCallers))
    BY BatchFacts
  <2>3. CASE SearchesFirst
    BY <1>5, <2>1, <2>2, <2>3, JobsMonotone DEF WorkerTake, SearchesFirst
  <2>4. CASE ~SearchesFirst
    BY <1>5, <2>1, <2>2, <2>4, JobsMonotone DEF WorkerTake, SearchesFirst, Drained
  <2>5. QED
    BY <2>3, <2>4
<1>6. CASE WorkerLeave \/ WorkerTest \/ WorkerBlock \/ WakeUnasked \/ EncodeTooLong
  <2>1. \E a \in {"gone", "tested", "blocked", "lock", "aborted"} :
           worker' = [worker EXCEPT !.at = a]
    BY <1>6 DEF WorkerLeave, WorkerTest, WorkerBlock, WakeUnasked, EncodeTooLong
  <2>2. UNCHANGED <<jobsHigh, jobsNormal, caller, shutdown>>
    BY <1>6 DEF WorkerLeave, WorkerTest, WorkerBlock, WakeUnasked, EncodeTooLong
  <2>3. QED
    BY <2>1, <2>2 DEF Busy
<1>7. CASE EncodeSingle
  <2>1. PICK v \in Found(worker.jobs[worker.next].text) : Fulfil(v)
    BY <1>7 DEF EncodeSingle
  <2>2. Busy
    BY <1>7 DEF EncodeSingle, Busy
  <2>3. v \in Texts \cup {NoVector}
    <3>1. worker.jobs[worker.next] \in Jobs(Callers)
      BY <2>2
    <3>2. QED
      BY <2>1, <3>1 DEF Found, Jobs
  <2>4. UNCHANGED <<jobsHigh, jobsNormal, shutdown>>
    BY <1>7 DEF EncodeSingle
  <2>5. QED
    BY <2>1, <2>2, <2>3, <2>4, FulfilType
<1>8. CASE Decode
  <2>1. PICK ok \in BOOLEAN : worker' = [worker EXCEPT !.at = "answer", !.ok = ok]
    BY <1>8 DEF Decode
  <2>2. Busy
    BY <1>8 DEF Decode, Busy
  <2>3. UNCHANGED <<jobsHigh, jobsNormal, caller, shutdown>>
    BY <1>8 DEF Decode
  <2>4. QED
    BY <2>1, <2>2, <2>3 DEF Busy
<1>9. CASE Answer
  <2>1. PICK v \in {NoVector} \cup (IF worker.ok THEN Batched(worker.jobs, worker.next) ELSE {}) :
          Fulfil(v)
    BY <1>9 DEF Answer
  <2>2. Busy
    BY <1>9 DEF Answer, Busy
  <2>3. v \in Texts \cup {NoVector}
    <3>1. \A j \in DOMAIN worker.jobs : worker.jobs[j].text \in Texts
      <4>1. \A j \in DOMAIN worker.jobs : worker.jobs[j] \in Jobs(Callers)
        OBVIOUS
      <4>2. QED
        BY <4>1 DEF Jobs
    <3>2. Batched(worker.jobs, worker.next) \subseteq Texts
      BY <3>1 DEF Batched, SeqTexts
    <3>3. QED
      BY <2>1, <3>2
  <2>4. UNCHANGED <<jobsHigh, jobsNormal, shutdown>>
    BY <1>9 DEF Answer
  <2>5. QED
    BY <2>1, <2>2, <2>3, <2>4, FulfilType
<1>10. CASE SetStop \/ Join
  BY <1>10 DEF SetStop, Join, Busy
<1>11. CASE NotifyStop
  <2>1. worker' = worker \/ worker' = [worker EXCEPT !.at = "lock"]
    BY <1>11 DEF NotifyStop, Woken
  <2>2. QED
    BY <1>11, <2>1 DEF NotifyStop, Busy
<1>12. CASE UNCHANGED vars
  BY <1>12 DEF vars, Busy
<1>13. QED
  BY <1>1, <1>2, <1>3, <1>4, <1>5, <1>6, <1>7, <1>8, <1>9, <1>10, <1>11, <1>12
     DEF Next, WorkerStep, Stopping, NotifyStep

(* Types: queues hold jobs of their own callers, a batch keeps to
   kMaxBatchTexts, and the worker answers jobs it has. *)
THEOREM QueueTypeCorrect == Spec => []TypeOK
<1>1. Init => TypeOK
  BY QueueAssumption DEF Init, TypeOK, Idle, Empty, WorkerAt, Busy
<1>2. QED
  BY <1>1, NextTypeOK, PTL DEF Spec

-----------------------------------------------------------------------------
(* Sleeping.  While the worker is between its test and its wait nobody can
   push, so the queues it found empty still are; a job pushed while it sleeps
   has a caller that has not notified yet, and the notification wakes it. *)
SleepInv ==
    /\ worker.at = "tested" => Drained
    /\ worker.at = "blocked" /\ ~Drained => \E c \in Callers : caller[c].at = "notify"

LEMMA NextSleepInv == TypeOK /\ SleepInv /\ [Next]_vars => SleepInv'
<1> SUFFICES ASSUME TypeOK, SleepInv, [Next]_vars PROVE SleepInv'
  OBVIOUS
<1>1. ASSUME NEW c \in Callers, NEW t \in Texts, Call(c, t) PROVE SleepInv'
  <2>1. caller'[c].at = "notify"
    BY <1>1 DEF Call, TypeOK
  <2>2. worker'.at # "tested"
    BY <1>1 DEF Call, MutexFree
  <2>3. QED
    BY <2>1, <2>2 DEF SleepInv
<1>2. ASSUME NEW c \in Callers, Notify(c) PROVE SleepInv'
  <2>1. worker.at = "tested" => worker' = worker /\ UNCHANGED <<jobsHigh, jobsNormal>>
    BY <1>2 DEF Notify, Woken
  <2>2. worker'.at # "blocked" /\ (worker'.at = "tested" => worker.at = "tested")
    BY <1>2 DEF Notify, Woken, TypeOK
  <2>3. QED
    BY <2>1, <2>2 DEF SleepInv, Drained
<1>3. ASSUME NEW c \in Callers, Return(c) PROVE SleepInv'
  <2>1. \A d \in Callers : caller[d].at = "notify" => caller'[d].at = "notify"
    BY <1>3 DEF Return, TypeOK
  <2>2. QED
    BY <1>3, <2>1 DEF Return, SleepInv, Drained
<1>4. ASSUME NEW c \in Callers, TimeOut(c) PROVE SleepInv'
  <2>1. \A d \in Callers : caller[d].at = "notify" => caller'[d].at = "notify"
    BY <1>4 DEF TimeOut, TypeOK
  <2>2. worker'.at = worker.at
    BY <1>4 DEF TimeOut, TypeOK
  <2>3. Drained' <=> Drained
    <3>1. Len(jobsHigh') = Len(jobsHigh) /\ Len(jobsNormal') = Len(jobsNormal)
          /\ jobsHigh' \in Seq(Jobs(HighCallers)) /\ jobsNormal' \in Seq(Jobs(NormalCallers))
      BY <1>4, AbandonedFacts DEF TimeOut, TypeOK
    <3>2. QED
      BY <3>1 DEF Drained, TypeOK
  <2>4. QED
    BY <2>1, <2>2, <2>3 DEF SleepInv
<1>5. CASE WorkerTake
  <2>1. worker'.at \in {"serial", "decode"}
    BY <1>5 DEF WorkerTake, Taking, Path
  <2>2. QED
    BY <2>1 DEF SleepInv
<1>6. CASE WorkerTest
  BY <1>6 DEF WorkerTest, SleepInv, Drained, TypeOK
<1>7. CASE WorkerBlock
  BY <1>7 DEF WorkerBlock, SleepInv, Drained, TypeOK
<1>8. CASE WorkerLeave \/ WakeUnasked \/ EncodeTooLong \/ Decode
  BY <1>8 DEF WorkerLeave, WakeUnasked, EncodeTooLong, Decode, SleepInv, TypeOK
<1>9. CASE EncodeSingle \/ Answer
  <2>1. PICK v : Fulfil(v)
    BY <1>9 DEF EncodeSingle, Answer
  <2>2. worker.at \in {"serial", "answer"}
    BY <1>9 DEF EncodeSingle, Answer
  <2>3. worker'.at \in {"serial", "answer", "lock"}
    BY <2>1, <2>2 DEF Fulfil, Empty, TypeOK
  <2>4. QED
    BY <2>3 DEF SleepInv
<1>10. CASE SetStop \/ Join
  BY <1>10 DEF SetStop, Join, SleepInv, Drained
<1>11. CASE NotifyStop
  <2>1. worker'.at # "blocked" /\ (worker'.at = "tested" => worker.at = "tested")
    BY <1>11 DEF NotifyStop, Woken, TypeOK
  <2>2. UNCHANGED <<jobsHigh, jobsNormal>>
    BY <1>11 DEF NotifyStop
  <2>3. QED
    BY <2>1, <2>2 DEF SleepInv, Drained
<1>12. CASE UNCHANGED vars
  BY <1>12 DEF vars, SleepInv, Drained
<1>13. QED
  BY <1>1, <1>2, <1>3, <1>4, <1>5, <1>6, <1>7, <1>8, <1>9, <1>10, <1>11, <1>12
     DEF Next, WorkerStep, Stopping, NotifyStep

(* The worker never sleeps on a job without a notification on its way,
   although callers notify after they have let go of the mutex. *)
THEOREM NoLostWakeUpEver == Spec => []NoLostWakeUp
<1>1. Init => TypeOK /\ SleepInv
  BY QueueAssumption DEF Init, TypeOK, SleepInv, Idle, Empty, WorkerAt, Busy
<1>2. SleepInv => NoLostWakeUp
  BY DEF SleepInv, NoLostWakeUp
<1>3. QED
  BY <1>1, <1>2, NextTypeOK, NextSleepInv, PTL DEF Spec

-----------------------------------------------------------------------------
(* Promises.  A call that waits has its promise at one place, on its queue or
   in the worker's hands; taking jobs moves it, fulfilling and giving up end
   it.  A thread that is idle has no text and no answer. *)
OnePromise(c) ==
    /\ Pending(c) <=> QueuedFor(c) # {} \/ HeldFor(c) # {}
    /\ QueuedFor(c) = {} \/ HeldFor(c) = {}
    /\ \A p, r \in QueuedFor(c) : p = r
    /\ \A p, r \in HeldFor(c) : p = r
OwnText(c) ==
    /\ \A p \in QueuedFor(c) : OwnQueue(c)[p].text = caller[c].text
    /\ \A p \in HeldFor(c) : worker.jobs[p].text = caller[c].text
PromiseInv == Alive => \A c \in Callers : OnePromise(c) /\ OwnText(c)

IdleInv == \A c \in Callers : caller[c].at = "idle" => caller[c] = Idle

LEMMA NextIdleInv == TypeOK /\ IdleInv /\ PromiseInv /\ [Next]_vars => IdleInv'
<1> SUFFICES ASSUME TypeOK, IdleInv, PromiseInv, [Next]_vars PROVE IdleInv'
  OBVIOUS
<1>1. ASSUME NEW c \in Callers, NEW t \in Texts, Call(c, t) PROVE IdleInv'
  BY <1>1 DEF Call, IdleInv, TypeOK, Idle
<1>2. ASSUME NEW c \in Callers, Notify(c) PROVE IdleInv'
  BY <1>2 DEF Notify, IdleInv, TypeOK, Idle
<1>3. ASSUME NEW c \in Callers, Return(c) \/ TimeOut(c) PROVE IdleInv'
  BY <1>3 DEF Return, TimeOut, IdleInv, TypeOK, Idle
<1>4. CASE EncodeSingle \/ Answer
  <2>1. PICK v : Fulfil(v)
    BY <1>4 DEF EncodeSingle, Answer
  <2>2. Busy
    BY <1>4 DEF EncodeSingle, Answer, Busy
  <2> DEFINE job == worker.jobs[worker.next]
  <2>3. CASE job.for = None
    BY <2>1, <2>3 DEF Fulfil, IdleInv
  <2>4. CASE job.for # None
    <3>1. caller' = [caller EXCEPT ![job.for].answer = v]
      BY <2>1, <2>4 DEF Fulfil
    <3>2. job.for \in Callers /\ worker.next \in HeldFor(job.for)
      <4>1. job \in Jobs(Callers) /\ worker.next \in Held
        BY <2>2 DEF TypeOK, Held
      <4>2. QED
        BY <2>4, <4>1 DEF Jobs, HeldFor
    <3>3. caller[job.for].at # "idle"
      BY <2>2, <3>2 DEF PromiseInv, OnePromise, Pending, Alive, Busy
    <3> HIDE DEF job
    <3>4. QED
      BY <3>1, <3>2, <3>3 DEF IdleInv, TypeOK
  <2>5. QED
    BY <2>3, <2>4
<1>5. CASE UNCHANGED caller
  BY <1>5 DEF IdleInv
<1>6. QED
  BY <1>1, <1>2, <1>3, <1>4, <1>5
     DEF Next, WorkerStep, Stopping, NotifyStep, vars, WorkerTake, WorkerLeave, WorkerTest,
         WorkerBlock, EncodeTooLong, Decode, NotifyStop, Join, WakeUnasked, SetStop

\* Where promises are after a step, from where they were before it.
LEMMA SamePlaces ==
    ASSUME UNCHANGED <<jobsHigh, jobsNormal, caller>>, NEW c \in Callers,
           OnePromise(c), OwnText(c), HeldFor(c)' = HeldFor(c),
           \A p \in HeldFor(c) : worker'.jobs[p] = worker.jobs[p]
    PROVE  OnePromise(c)' /\ OwnText(c)'
<1>1. QueuedFor(c)' = QueuedFor(c) /\ OwnQueue(c)' = OwnQueue(c) /\ Pending(c)' = Pending(c)
  BY DEF QueuedFor, OwnQueue, Pending
<1>2. OnePromise(c)'
  BY <1>1 DEF OnePromise
<1>3. OwnText(c)'
  BY <1>1 DEF OwnText
<1>4. QED
  BY <1>2, <1>3

LEMMA CallKeepsPromises ==
    ASSUME TypeOK, IdleInv, PromiseInv, Alive, NEW c \in Callers, NEW t \in Texts, Call(c, t)
    PROVE  PromiseInv'
<1> DEFINE job == [text |-> t, for |-> c]
<1>0. TypeOK'
  BY NextTypeOK DEF Next
<1> SUFFICES ASSUME NEW d \in Callers PROVE OnePromise(d)' /\ OwnText(d)'
  BY DEF PromiseInv
<1>1. OnePromise(d) /\ OwnText(d) /\ OnePromise(c)
  BY DEF PromiseInv
<1>2. worker' = worker /\ caller[c] = Idle
      /\ caller' = [caller EXCEPT ![c] = [at |-> "notify", text |-> t, answer |-> None]]
  BY DEF Call
<1>3. HeldFor(d)' = HeldFor(d)
  BY <1>2 DEF HeldFor, Held, Busy
<1>4. ~Pending(c) /\ QueuedFor(c) = {} /\ HeldFor(c) = {}
  BY <1>1, <1>2 DEF Pending, OnePromise, Idle
<1>5. CASE d = c
  <2>1. PICK n \in Nat : /\ n = Len(OwnQueue(c)) + 1
                         /\ OwnQueue(c)' = Append(OwnQueue(c), job)
                         /\ OwnQueue(c) \in Seq(Jobs(Callers))
    <3>1. OwnQueue(c)' = Append(OwnQueue(c), job)
      BY DEF Call, Enqueue, OwnQueue
    <3>2. OwnQueue(c) \in Seq(Jobs(Callers))
      BY JobsMonotone DEF OwnQueue, TypeOK
    <3>3. QED
      BY <3>1, <3>2
  <2>2. /\ DOMAIN (OwnQueue(c)') = DOMAIN OwnQueue(c) \cup {n}
        /\ OwnQueue(c)'[n] = job
        /\ \A p \in DOMAIN OwnQueue(c) : OwnQueue(c)'[p] = OwnQueue(c)[p]
    BY <2>1
  <2>3. QueuedFor(c)' = {n}
    BY <1>4, <2>2 DEF QueuedFor
  <2>4. Pending(c)' /\ caller'[c].text = t
    BY <1>2 DEF Pending, TypeOK
  <2>5. OnePromise(c)'
    BY <1>3, <1>4, <1>5, <2>3, <2>4 DEF OnePromise
  <2>6. OwnText(c)'
    BY <1>3, <1>4, <1>5, <2>2, <2>3, <2>4 DEF OwnText
  <2>7. QED
    BY <1>5, <2>5, <2>6
<1>6. CASE d # c
  <2>1. QueuedFor(d)' = QueuedFor(d)
        /\ \A p \in QueuedFor(d) : OwnQueue(d)'[p] = OwnQueue(d)[p]
    <3>1. \/ OwnQueue(d)' = OwnQueue(d)
          \/ OwnQueue(d)' = Append(OwnQueue(d), job)
      BY DEF Call, Enqueue, OwnQueue
    <3>2. OwnQueue(d) \in Seq(Jobs(Callers))
      BY JobsMonotone DEF OwnQueue, TypeOK
    <3>3. CASE OwnQueue(d)' = OwnQueue(d)
      BY <3>3 DEF QueuedFor
    <3>4. CASE OwnQueue(d)' = Append(OwnQueue(d), job)
      <4>1. PICK n \in Nat : /\ DOMAIN (OwnQueue(d)') = DOMAIN OwnQueue(d) \cup {n}
                             /\ OwnQueue(d)'[n] = job
                             /\ \A p \in DOMAIN OwnQueue(d) : OwnQueue(d)'[p] = OwnQueue(d)[p]
        BY <3>2, <3>4
      <4>2. QED
        BY <1>6, <4>1 DEF QueuedFor
    <3>5. QED
      BY <3>1, <3>3, <3>4
  <2>2. caller'[d] = caller[d]
    BY <1>2, <1>6 DEF TypeOK
  <2>3. OnePromise(d)'
    BY <1>1, <1>3, <2>1, <2>2 DEF OnePromise, Pending
  <2>4. OwnText(d)'
    BY <1>1, <1>2, <1>3, <2>1, <2>2 DEF OwnText
  <2>5. QED
    BY <2>3, <2>4
<1>7. QED
  BY <1>5, <1>6

LEMMA CallerStepKeepsPromises ==
    ASSUME TypeOK, PromiseInv, Alive, NEW c \in Callers, Notify(c) \/ Return(c)
    PROVE  PromiseInv'
<1> SUFFICES ASSUME NEW d \in Callers PROVE OnePromise(d)' /\ OwnText(d)'
  BY DEF PromiseInv
<1>1. OnePromise(d) /\ OwnText(d) /\ OnePromise(c)
  BY DEF PromiseInv
<1>2. QueuedFor(d)' = QueuedFor(d) /\ OwnQueue(d)' = OwnQueue(d)
  BY DEF Notify, Return, QueuedFor, OwnQueue
<1>3. HeldFor(d)' = HeldFor(d) /\ worker'.jobs = worker.jobs
  <2>1. \/ worker' = worker
        \/ worker.at = "blocked" /\ worker' = [worker EXCEPT !.at = "lock"]
    BY DEF Notify, Return, Woken
  <2>2. worker'.jobs = worker.jobs /\ worker'.next = worker.next /\ (Busy' <=> Busy)
    BY <2>1 DEF TypeOK, Busy
  <2>3. QED
    BY <2>2 DEF HeldFor, Held
<1>4. Pending(d)' <=> Pending(d)
  <2>1. CASE Notify(c)
    BY <2>1 DEF Notify, Pending, TypeOK
  <2>2. CASE Return(c)
    BY <2>2 DEF Return, Pending, TypeOK, Idle
  <2>3. QED
    BY <2>1, <2>2
<1>5. OnePromise(d)'
  BY <1>1, <1>2, <1>3, <1>4 DEF OnePromise
<1>6. Pending(d) => caller'[d].text = caller[d].text
  <2>1. CASE Notify(c)
    BY <2>1 DEF Notify, TypeOK
  <2>2. CASE Return(c)
    BY <2>2 DEF Return, Pending, TypeOK
  <2>3. QED
    BY <2>1, <2>2
<1>7. OwnText(d)'
  BY <1>1, <1>2, <1>3, <1>6 DEF OwnText, OnePromise
<1>8. QED
  BY <1>5, <1>7

LEMMA TimeOutKeepsPromises ==
    ASSUME TypeOK, PromiseInv, Alive, NEW c \in Callers, TimeOut(c)
    PROVE  PromiseInv'
<1> SUFFICES ASSUME NEW d \in Callers PROVE OnePromise(d)' /\ OwnText(d)'
  BY DEF PromiseInv
<1>1. OnePromise(d) /\ OwnText(d)
  BY DEF PromiseInv
<1>2. None # d /\ None # c
  BY QueueAssumption
<1>3. /\ OwnQueue(d)' = Abandoned(OwnQueue(d), c)
      /\ DOMAIN Abandoned(OwnQueue(d), c) = DOMAIN OwnQueue(d)
      /\ \A p \in DOMAIN OwnQueue(d) :
           /\ Abandoned(OwnQueue(d), c)[p].text = OwnQueue(d)[p].text
           /\ Abandoned(OwnQueue(d), c)[p].for =
                IF OwnQueue(d)[p].for = c THEN None ELSE OwnQueue(d)[p].for
  <2>1. OwnQueue(d)' = Abandoned(OwnQueue(d), c)
    BY DEF TimeOut, OwnQueue
  <2>2. OwnQueue(d) \in Seq(Jobs(Callers))
    BY JobsMonotone DEF OwnQueue, TypeOK
  <2>3. QED
    BY <2>1, <2>2, AbandonedFacts
<1>4. /\ worker'.jobs = Abandoned(worker.jobs, c) /\ Held' = Held
      /\ Held \subseteq DOMAIN worker.jobs
      /\ \A p \in DOMAIN worker.jobs :
           /\ Abandoned(worker.jobs, c)[p].text = worker.jobs[p].text
           /\ Abandoned(worker.jobs, c)[p].for =
                IF worker.jobs[p].for = c THEN None ELSE worker.jobs[p].for
  <2>1. worker.jobs \in Seq(Jobs(Callers))
    BY DEF TypeOK
  <2>2. /\ worker'.jobs = Abandoned(worker.jobs, c)
        /\ worker'.next = worker.next /\ worker'.at = worker.at
    BY DEF TimeOut, TypeOK
  <2>3. Len(Abandoned(worker.jobs, c)) = Len(worker.jobs)
    BY <2>1, AbandonedFacts
  <2>4. Held' = Held
    BY <2>2, <2>3 DEF Held, Busy
  <2>5. Held \subseteq DOMAIN worker.jobs
    BY <2>1 DEF Held, TypeOK
  <2>6. QED
    BY <2>1, <2>2, <2>4, <2>5, AbandonedFacts
<1>5. CASE d = c
  <2>1. QueuedFor(d)' = {} /\ HeldFor(d)' = {}
    BY <1>2, <1>3, <1>4, <1>5 DEF QueuedFor, HeldFor
  <2>2. ~Pending(d)'
    BY <1>5 DEF Pending, TimeOut, TypeOK, Idle
  <2>3. QED
    BY <2>1, <2>2 DEF OnePromise, OwnText
<1>6. CASE d # c
  <2>1. QueuedFor(d)' = QueuedFor(d) /\ HeldFor(d)' = HeldFor(d)
    BY <1>2, <1>3, <1>4, <1>6 DEF QueuedFor, HeldFor
  <2>2. caller'[d] = caller[d]
    BY <1>6 DEF TimeOut, TypeOK
  <2>3. OnePromise(d)'
    BY <1>1, <2>1, <2>2 DEF OnePromise, Pending
  <2>4. \A p \in QueuedFor(d) : OwnQueue(d)'[p].text = OwnQueue(d)[p].text
    BY <1>3 DEF QueuedFor
  <2>5. \A p \in HeldFor(d) : worker'.jobs[p].text = worker.jobs[p].text
    BY <1>4 DEF HeldFor
  <2>6. OwnText(d)'
    BY <1>1, <2>1, <2>2, <2>4, <2>5 DEF OwnText
  <2>7. QED
    BY <2>3, <2>6
<1>7. QED
  BY <1>5, <1>6

\* A batch taken from a queue: its first jobs are in hand, the others move up.
LEMMA TakeMovesPromises ==
    ASSUME TypeOK, PromiseInv, Alive, NEW d \in Callers, UNCHANGED caller,
           worker.at = "lock",
           OwnQueue(d) \in Seq(Jobs(Callers)), OwnQueue(d) # <<>>,
           OwnQueue(d)' = RestOf(OwnQueue(d)), Taking(BatchOf(OwnQueue(d)))
    PROVE  OnePromise(d)' /\ OwnText(d)'
<1> DEFINE q == OwnQueue(d)
           k == Len(BatchOf(q))
<1>1. OnePromise(d) /\ OwnText(d)
  BY DEF PromiseInv
<1>2. /\ BatchOf(q) \in Seq(Jobs(Callers)) /\ RestOf(q) \in Seq(Jobs(Callers))
      /\ k \in Nat /\ k >= 1 /\ k <= Len(q) /\ Len(q) \in Nat
      /\ Len(RestOf(q)) = Len(q) - k
      /\ \A p \in DOMAIN BatchOf(q) : BatchOf(q)[p] = q[p]
      /\ \A p \in DOMAIN RestOf(q) : RestOf(q)[p] = q[p + k]
  BY BatchFacts, QueueAssumption
<1>3. DOMAIN q = 1..Len(q) /\ DOMAIN BatchOf(q) = 1..k /\ DOMAIN RestOf(q) = 1..(Len(q) - k)
  BY <1>2
<1>4. HeldFor(d) = {}
  BY DEF HeldFor, Held, Busy
<1>5. worker'.jobs = BatchOf(q) /\ Held' = 1..k
  <2>1. worker' = [at |-> Path(BatchOf(q)), jobs |-> BatchOf(q), next |-> 1, ok |-> FALSE]
    BY DEF Taking
  <2>2. Path(BatchOf(q)) \in {"serial", "decode"}
    BY DEF Path
  <2> HIDE DEF q
  <2>3. QED
    BY <2>1, <2>2 DEF Held, Busy
<1> HIDE DEF k, q
<1>6. HeldFor(d)' = {p \in 1..k : q[p].for = d}
  BY <1>2, <1>3, <1>5 DEF HeldFor
<1>7. QueuedFor(d)' = {p \in 1..(Len(q) - k) : q[p + k].for = d}
  BY <1>2, <1>3 DEF QueuedFor, q
<1>8. QueuedFor(d) = {p \in 1..Len(q) : q[p].for = d}
  BY <1>3 DEF QueuedFor, q
<1>9. Pending(d)' = Pending(d) /\ caller'[d].text = caller[d].text
  BY DEF Pending
<1>10. /\ \A p \in HeldFor(d)' : p \in QueuedFor(d)
       /\ \A p \in QueuedFor(d)' : p + k \in QueuedFor(d) /\ p + k > k /\ p \in Nat
       /\ \A p \in HeldFor(d)' : p <= k /\ p \in Nat
  BY <1>2, <1>6, <1>7, <1>8
<1>11. QueuedFor(d) # {} => HeldFor(d)' # {} \/ QueuedFor(d)' # {}
  <2> SUFFICES ASSUME NEW p \in QueuedFor(d) PROVE HeldFor(d)' # {} \/ QueuedFor(d)' # {}
    OBVIOUS
  <2>1. CASE p <= k
    BY <1>2, <1>6, <1>8, <2>1
  <2>2. CASE ~(p <= k)
    <3>1. p - k \in 1..(Len(q) - k) /\ (p - k) + k = p
      BY <1>2, <1>8, <2>2
    <3>2. QED
      BY <1>7, <1>8, <3>1
  <2>3. QED
    BY <2>1, <2>2
<1>12. OnePromise(d)'
  <2>1. Pending(d)' <=> QueuedFor(d)' # {} \/ HeldFor(d)' # {}
    BY <1>1, <1>4, <1>9, <1>10, <1>11 DEF OnePromise
  <2>2. QueuedFor(d)' = {} \/ HeldFor(d)' = {}
    <3> SUFFICES ASSUME NEW p \in QueuedFor(d)', NEW r \in HeldFor(d)' PROVE FALSE
      OBVIOUS
    <3>1. p + k = r
      BY <1>1, <1>10 DEF OnePromise
    <3>2. QED
      BY <1>10, <3>1, <1>2
  <2>3. \A p, r \in QueuedFor(d)' : p = r
    <3> SUFFICES ASSUME NEW p \in QueuedFor(d)', NEW r \in QueuedFor(d)' PROVE p = r
      OBVIOUS
    <3>1. p + k = r + k
      BY <1>1, <1>10 DEF OnePromise
    <3>2. QED
      BY <1>2, <1>10, <3>1
  <2>4. \A p, r \in HeldFor(d)' : p = r
    BY <1>1, <1>10 DEF OnePromise
  <2>5. QED
    BY <2>1, <2>2, <2>3, <2>4 DEF OnePromise
<1>13. OwnText(d)'
  <2>1. \A p \in QueuedFor(d) : q[p].text = caller[d].text
    BY <1>1 DEF OwnText, q
  <2>2. \A p \in QueuedFor(d)' : OwnQueue(d)'[p].text = caller'[d].text
    BY <1>2, <1>3, <1>7, <1>9, <1>10, <2>1 DEF q
  <2>3. \A p \in HeldFor(d)' : worker'.jobs[p].text = caller'[d].text
    BY <1>2, <1>3, <1>5, <1>6, <1>9, <1>10, <2>1
  <2>4. QED
    BY <2>2, <2>3 DEF OwnText
<1>14. QED
  BY <1>12, <1>13

LEMMA TakeKeepsPromises ==
    ASSUME TypeOK, PromiseInv, Alive, WorkerTake
    PROVE  PromiseInv'
<1> SUFFICES ASSUME NEW d \in Callers PROVE OnePromise(d)' /\ OwnText(d)'
  BY DEF PromiseInv
<1>1. OnePromise(d) /\ OwnText(d)
  BY DEF PromiseInv
<1>2. worker.at = "lock" /\ caller' = caller
  BY DEF WorkerTake
<1>3. OwnQueue(d) \in Seq(Jobs(Callers))
  BY JobsMonotone DEF OwnQueue, TypeOK
\* The queue of the other priority: none of its jobs is this caller's.
<1>4. ASSUME NEW S \in SUBSET Callers, d \notin S, NEW q \in Seq(Jobs(S)),
             Taking(BatchOf(q)), OwnQueue(d)' = OwnQueue(d)
      PROVE  OnePromise(d)' /\ OwnText(d)'
  <2>1. \A p \in DOMAIN BatchOf(q) : BatchOf(q)[p].for # d
    <3>1. BatchOf(q) \in Seq(Jobs(S))
      BY BatchFacts
    <3>2. \A p \in DOMAIN BatchOf(q) : BatchOf(q)[p] \in Jobs(S)
      BY <3>1
    <3>3. QED
      BY <1>4, <3>2, QueueAssumption DEF Jobs
  <2>2. worker'.jobs = BatchOf(q) /\ worker'.next = 1
    BY <1>4 DEF Taking
  <2>3. BatchOf(q) \in Seq(Jobs(S))
    BY BatchFacts
  <2>4. Held' \subseteq DOMAIN BatchOf(q)
    BY <2>2, <2>3 DEF Held
  <2>5. HeldFor(d)' = {}
    BY <2>1, <2>2, <2>4 DEF HeldFor
  <2>6. HeldFor(d) = {}
    BY <1>2 DEF HeldFor, Held, Busy
  <2>7. QueuedFor(d)' = QueuedFor(d) /\ Pending(d)' = Pending(d)
    BY <1>2, <1>4 DEF QueuedFor, Pending
  <2>8. OnePromise(d)'
    BY <1>1, <2>5, <2>6, <2>7 DEF OnePromise
  <2>9. OwnText(d)'
    BY <1>1, <1>2, <1>4, <2>5, <2>7 DEF OwnText
  <2>10. QED
    BY <2>8, <2>9
<1>5. CASE SearchesFirst
  <2>1. Taking(BatchOf(jobsHigh)) /\ jobsHigh' = RestOf(jobsHigh) /\ jobsNormal' = jobsNormal
        /\ jobsHigh # <<>>
    BY <1>5 DEF WorkerTake, SearchesFirst
  <2>2. CASE d \in HighCallers
    <3>1. OwnQueue(d) = jobsHigh /\ OwnQueue(d)' = RestOf(OwnQueue(d))
      BY <2>1, <2>2 DEF OwnQueue
    <3>2. QED
      BY <1>2, <1>3, <2>1, <3>1, TakeMovesPromises
  <2>3. CASE d \notin HighCallers
    BY <1>4, <2>1, <2>3 DEF OwnQueue, TypeOK, Callers
  <2>4. QED
    BY <2>2, <2>3
<1>6. CASE ~SearchesFirst
  <2>1. Taking(BatchOf(jobsNormal)) /\ jobsNormal' = RestOf(jobsNormal) /\ jobsHigh' = jobsHigh
        /\ jobsNormal # <<>>
    BY <1>6 DEF WorkerTake, SearchesFirst, Drained
  <2>2. CASE d \in HighCallers
    <3>1. d \notin NormalCallers /\ OwnQueue(d)' = OwnQueue(d)
      BY <2>1, <2>2, QueueAssumption DEF OwnQueue
    <3>2. QED
      BY <1>4, <2>1, <3>1 DEF TypeOK, Callers
  <2>3. CASE d \notin HighCallers
    <3>1. OwnQueue(d) = jobsNormal /\ OwnQueue(d)' = RestOf(OwnQueue(d))
      BY <2>1, <2>3 DEF OwnQueue
    <3>2. QED
      BY <1>2, <1>3, <2>1, <3>1, TakeMovesPromises
  <2>4. QED
    BY <2>2, <2>3
<1>7. QED
  BY <1>5, <1>6

LEMMA FulfilKeepsPromises ==
    ASSUME TypeOK, PromiseInv, Busy, NEW v, v # None, Fulfil(v),
           UNCHANGED <<jobsHigh, jobsNormal>>
    PROVE  PromiseInv'
<1> DEFINE n == worker.next
           job == worker.jobs[n]
<1> SUFFICES ASSUME NEW d \in Callers PROVE OnePromise(d)' /\ OwnText(d)'
  BY DEF PromiseInv
<1>1. OnePromise(d) /\ OwnText(d)
  BY DEF PromiseInv, Alive, Busy
<1>2. /\ n \in Nat /\ n \in 1..Len(worker.jobs) /\ Len(worker.jobs) \in Nat
      /\ worker.jobs \in Seq(Jobs(Callers)) /\ DOMAIN worker.jobs = 1..Len(worker.jobs)
  BY DEF TypeOK
<1>3. job \in Jobs(Callers) /\ Held = n..Len(worker.jobs)
  BY <1>2 DEF Held
<1>4. QueuedFor(d)' = QueuedFor(d) /\ OwnQueue(d)' = OwnQueue(d)
  BY DEF QueuedFor, OwnQueue
<1>5. /\ HeldFor(d)' = HeldFor(d) \ {n}
      /\ \A p \in HeldFor(d)' : worker'.jobs[p] = worker.jobs[p]
  <2>1. CASE n = Len(worker.jobs)
    <3>1. worker' = Empty
      BY <2>1 DEF Fulfil
    <3>2. HeldFor(d)' = {}
      BY <3>1 DEF HeldFor, Held, Busy, Empty
    <3>3. HeldFor(d) \subseteq {n}
      BY <1>2, <1>3, <2>1 DEF HeldFor
    <3>4. QED
      BY <3>2, <3>3
  <2>2. CASE n # Len(worker.jobs)
    <3>1. worker' = [worker EXCEPT !.next = n + 1, !.jobs[n].for = None]
      BY <2>2 DEF Fulfil
    <3>2. /\ worker'.next = n + 1 /\ worker'.at = worker.at
          /\ worker'.jobs = [worker.jobs EXCEPT ![n].for = None]
      BY <3>1 DEF TypeOK
    <3>3. /\ DOMAIN (worker'.jobs) = DOMAIN worker.jobs
          /\ \A p \in DOMAIN worker.jobs : p # n => worker'.jobs[p] = worker.jobs[p]
      BY <3>2
    <3>4. Len(worker'.jobs) = Len(worker.jobs)
      BY <1>2, <3>2, <3>3
    <3>5. Held' = (n + 1)..Len(worker.jobs)
      BY <3>2, <3>4 DEF Held, Busy
    <3> HIDE DEF n
    <3>6. Held' = Held \ {n} /\ Held \subseteq DOMAIN worker.jobs
      BY <1>2, <1>3, <3>5
    <3>7. QED
      BY <3>3, <3>6 DEF HeldFor
  <2>3. QED
    BY <2>1, <2>2
<1>6. CASE job.for = d
  <2>1. d # None
    BY QueueAssumption
  <2>2. n \in HeldFor(d)
    BY <1>2, <1>3, <1>6 DEF HeldFor
  <2>3. QueuedFor(d) = {} /\ HeldFor(d) \subseteq {n}
    BY <1>1, <2>2 DEF OnePromise
  <2>4. caller'[d].answer = v
    BY <1>6, <2>1 DEF Fulfil, TypeOK
  <2>5. ~Pending(d)'
    BY <2>4 DEF Pending
  <2> HIDE DEF n
  <2>6. QueuedFor(d)' = {} /\ HeldFor(d)' = {}
    BY <1>4, <1>5, <2>3
  <2>7. QED
    BY <2>5, <2>6 DEF OnePromise, OwnText
<1>7. CASE job.for # d
  <2>1. n \notin HeldFor(d)
    BY <1>7 DEF HeldFor
  <2> HIDE DEF n
  <2>2. HeldFor(d)' = HeldFor(d)
    BY <1>5, <2>1
  <2>3. caller'[d] = caller[d]
    <3>1. caller' = caller \/ (job.for # None /\ caller' = [caller EXCEPT ![job.for].answer = v])
      BY DEF Fulfil, n
    <3>2. QED
      BY <1>7, <3>1 DEF TypeOK
  <2>4. OnePromise(d)'
    BY <1>1, <1>4, <2>2, <2>3 DEF OnePromise, Pending
  <2>5. OwnText(d)'
    BY <1>1, <1>4, <1>5, <2>2, <2>3 DEF OwnText
  <2>6. QED
    BY <2>4, <2>5
<1>8. QED
  BY <1>6, <1>7

LEMMA NextPromiseInv == TypeOK /\ IdleInv /\ PromiseInv /\ [Next]_vars => PromiseInv'
<1> SUFFICES ASSUME TypeOK, IdleInv, PromiseInv, [Next]_vars PROVE PromiseInv'
  OBVIOUS
<1>1. CASE UNCHANGED vars
  BY <1>1 DEF vars, PromiseInv, OnePromise, OwnText, QueuedFor, HeldFor, Held, OwnQueue, Pending,
              Busy, Alive
<1>2. CASE Alive /\ \E c \in Callers : \/ Notify(c) \/ Return(c) \/ TimeOut(c)
                                        \/ \E t \in Texts : Call(c, t)
  BY <1>2, CallKeepsPromises, CallerStepKeepsPromises, TimeOutKeepsPromises
<1>3. CASE Alive /\ WorkerTake
  BY <1>3, TakeKeepsPromises
<1>4. CASE EncodeSingle \/ Answer
  <2>1. PICK v \in Texts \cup {NoVector} : Fulfil(v)
    <3>1. \A j \in DOMAIN worker.jobs : worker.jobs[j].text \in Texts
      <4>1. \A j \in DOMAIN worker.jobs : worker.jobs[j] \in Jobs(Callers)
        BY DEF TypeOK
      <4>2. QED
        BY <4>1 DEF Jobs
    <3>2. CASE EncodeSingle
      <4>1. PICK v \in Found(worker.jobs[worker.next].text) : Fulfil(v)
        BY <3>2 DEF EncodeSingle
      <4>2. worker.next \in DOMAIN worker.jobs
        BY <3>2 DEF EncodeSingle, TypeOK, Busy
      <4>3. QED
        BY <3>1, <4>1, <4>2 DEF Found
    <3>3. CASE Answer
      <4>1. Batched(worker.jobs, worker.next) \subseteq Texts
        BY <3>1 DEF Batched, SeqTexts
      <4>2. QED
        BY <3>3, <4>1 DEF Answer
    <3>4. QED
      BY <1>4, <3>2, <3>3
  <2>2. v # None
    BY QueueAssumption
  <2>3. Busy /\ UNCHANGED <<jobsHigh, jobsNormal>>
    BY <1>4 DEF EncodeSingle, Answer, Busy
  <2>4. QED
    BY <2>1, <2>2, <2>3, FulfilKeepsPromises
\* The remaining steps move the worker, not the jobs.
<1>5. ASSUME UNCHANGED <<jobsHigh, jobsNormal, caller>>, Alive, worker'.jobs = worker.jobs,
             Held' = Held
      PROVE  PromiseInv'
  <2> SUFFICES ASSUME NEW c \in Callers PROVE OnePromise(c)' /\ OwnText(c)'
    BY DEF PromiseInv
  <2>1. OnePromise(c) /\ OwnText(c)
    BY <1>5 DEF PromiseInv
  <2>2. HeldFor(c)' = HeldFor(c)
    BY <1>5 DEF HeldFor
  <2>3. QED
    BY <1>5, <2>1, <2>2, SamePlaces
<1>6. CASE EncodeTooLong
  BY <1>6 DEF EncodeTooLong, PromiseInv, Alive, TypeOK
<1>7. CASE Alive /\ (WorkerLeave \/ WorkerTest \/ WorkerBlock \/ WakeUnasked)
  <2>1. \E a \in {"gone", "tested", "blocked", "lock"} : worker' = [worker EXCEPT !.at = a]
    BY <1>7 DEF WorkerLeave, WorkerTest, WorkerBlock, WakeUnasked
  <2>2. ~Busy
    BY <1>7 DEF WorkerLeave, WorkerTest, WorkerBlock, WakeUnasked, Busy
  <2>3. ~Busy' /\ worker'.jobs = worker.jobs
    BY <2>1 DEF Busy, TypeOK
  <2>4. Held' = Held
    BY <2>2, <2>3 DEF Held
  <2>5. UNCHANGED <<jobsHigh, jobsNormal, caller>>
    BY <1>7 DEF WorkerLeave, WorkerTest, WorkerBlock, WakeUnasked
  <2>6. QED
    BY <1>5, <1>7, <2>3, <2>4, <2>5
<1>8. CASE Alive /\ Decode
  <2>1. PICK ok \in BOOLEAN : worker' = [worker EXCEPT !.at = "answer", !.ok = ok]
    BY <1>8 DEF Decode
  <2>2. Busy
    BY <1>8 DEF Decode, Busy
  <2>3. Busy' /\ worker'.jobs = worker.jobs /\ worker'.next = worker.next
    BY <2>1 DEF Busy, TypeOK
  <2>4. Held' = Held
    BY <2>2, <2>3 DEF Held
  <2>5. QED
    BY <1>5, <1>8, <2>3, <2>4 DEF Decode
<1>9. CASE Alive /\ (SetStop \/ Join)
  BY <1>5, <1>9 DEF SetStop, Join, Held, Busy
<1>10. CASE Alive /\ NotifyStop
  <2>1. \/ worker' = worker
        \/ worker.at = "blocked" /\ worker' = [worker EXCEPT !.at = "lock"]
    BY <1>10 DEF NotifyStop, Woken
  <2>2. worker'.jobs = worker.jobs /\ worker'.next = worker.next /\ (Busy' <=> Busy)
    BY <2>1 DEF TypeOK, Busy
  <2>3. Held' = Held
    BY <2>2 DEF Held
  <2>4. QED
    BY <1>5, <1>10, <2>2, <2>3 DEF NotifyStop
<1>11. QED
  BY <1>1, <1>2, <1>3, <1>4, <1>6, <1>7, <1>8, <1>9, <1>10
     DEF Next, WorkerStep, Stopping, NotifyStep

LEMMA InitPromises == Init => TypeOK /\ IdleInv /\ PromiseInv
<1> SUFFICES ASSUME Init PROVE TypeOK /\ IdleInv /\ PromiseInv
  OBVIOUS
<1>1. TypeOK
  BY QueueAssumption DEF Init, TypeOK, Idle, Empty, WorkerAt, Busy
<1>2. IdleInv
  BY DEF Init, IdleInv
<1>3. ASSUME NEW c \in Callers PROVE QueuedFor(c) = {} /\ HeldFor(c) = {} /\ ~Pending(c)
  BY DEF Init, QueuedFor, OwnQueue, HeldFor, Held, Busy, Pending, Idle, Empty
<1>4. PromiseInv
  BY <1>3 DEF PromiseInv, OnePromise, OwnText
<1>5. QED
  BY <1>1, <1>2, <1>4

(* Every waiting call has exactly one unfulfilled promise and nobody else has
   one, through batches, fallbacks and time-outs: no caller is forgotten and
   no promise is fulfilled twice. *)
THEOREM JobsMatchCallsEver == Spec => []JobsMatchCalls
<1>1. TypeOK /\ PromiseInv => JobsMatchCalls
  <2> SUFFICES ASSUME TypeOK, PromiseInv, Alive, NEW c \in Callers
               PROVE  /\ Cardinality(Promises(c)) = IF Pending(c) THEN 1 ELSE 0
                      /\ OwnText(c)
    BY DEF JobsMatchCalls, OwnText
  <2>1. OnePromise(c) /\ OwnText(c)
    BY DEF PromiseInv
  <2>2. CASE ~Pending(c)
    <3>1. Promises(c) = {}
      BY <2>1, <2>2 DEF OnePromise, Promises
    <3>2. QED
      BY <2>1, <2>2, <3>1, FS_EmptySet
  <2>3. CASE Pending(c)
    <3>1. PICK x : Promises(c) = {x}
      <4>1. CASE QueuedFor(c) # {}
        <5>1. PICK p : QueuedFor(c) = {p}
          BY <2>1, <4>1 DEF OnePromise
        <5>2. Promises(c) = {<<"queue", p>>}
          BY <2>1, <5>1 DEF OnePromise, Promises
        <5>3. QED
          BY <5>2
      <4>2. CASE HeldFor(c) # {}
        <5>1. PICK p : HeldFor(c) = {p}
          BY <2>1, <4>2 DEF OnePromise
        <5>2. Promises(c) = {<<"worker", p>>}
          BY <2>1, <5>1 DEF OnePromise, Promises
        <5>3. QED
          BY <5>2
      <4>3. QED
        BY <2>1, <2>3, <4>1, <4>2 DEF OnePromise
    <3>2. QED
      BY <2>1, <2>3, <3>1, FS_Singleton
  <2>4. QED
    BY <2>2, <2>3
<1>2. QED
  BY <1>1, InitPromises, NextTypeOK, NextIdleInv, NextPromiseInv, PTL DEF Spec

-----------------------------------------------------------------------------
(* Answers.  In a batch each text with tokens has a sequence of its own. *)

LEMMA JobSeqIncreases ==
    ASSUME NEW jobs, NEW i \in Nat, NEW k \in Nat, 1 <= i, i < k, HasSeq(jobs, i)
    PROVE  JobSeq(jobs, i) < JobSeq(jobs, k)
<1> DEFINE A == {j \in 1..(i - 1) : HasSeq(jobs, j)}
           B == {j \in 1..(k - 1) : HasSeq(jobs, j)}
<1>1. IsFiniteSet(1..(i - 1)) /\ IsFiniteSet(1..(k - 1))
  BY FS_Interval
<1>2. IsFiniteSet(A) /\ IsFiniteSet(B)
  BY <1>1, FS_Subset
<1>3. i \notin A /\ A \cup {i} \subseteq B
  OBVIOUS
<1>4. Cardinality(A \cup {i}) = Cardinality(A) + 1 /\ IsFiniteSet(A \cup {i})
  BY <1>2, <1>3, FS_AddElement
<1>5. Cardinality(A \cup {i}) <= Cardinality(B)
  BY <1>2, <1>3, FS_Subset
<1>6. Cardinality(A) \in Nat /\ Cardinality(B) \in Nat
  BY <1>2, FS_CardinalityType
<1>7. JobSeq(jobs, i) = Cardinality(A) /\ JobSeq(jobs, k) = Cardinality(B)
  BY DEF JobSeq
<1> HIDE DEF A, B
<1>8. QED
  BY <1>4, <1>5, <1>6, <1>7

\* job_seq leads back to the job's own text.
LEMMA BatchedIsOwn ==
    ASSUME NEW S, NEW jobs \in Seq(S), NEW i \in DOMAIN jobs
    PROVE  Batched(jobs, i) \subseteq {jobs[i].text}
<1> SUFFICES ASSUME HasSeq(jobs, i), NEW k \in DOMAIN jobs, HasSeq(jobs, k),
                    JobSeq(jobs, k) = JobSeq(jobs, i)
             PROVE  k = i
  BY DEF Batched, SeqTexts
<1>1. i \in Nat /\ k \in Nat /\ 1 <= i /\ 1 <= k
  OBVIOUS
<1>2. JobSeq(jobs, i) \in Nat
  <2> DEFINE A == {j \in 1..(i - 1) : HasSeq(jobs, j)}
  <2>1. IsFiniteSet(1..(i - 1))
    <3>1. 1 \in Int /\ i - 1 \in Int
      BY <1>1
    <3>2. QED
      BY <3>1, FS_Interval
  <2>2. IsFiniteSet(A)
    BY <2>1, FS_Subset
  <2>3. JobSeq(jobs, i) = Cardinality(A)
    BY DEF JobSeq
  <2> HIDE DEF A
  <2>4. QED
    BY <2>2, <2>3, FS_CardinalityType
<1>3. ~(i < k)
  BY <1>1, <1>2, JobSeqIncreases
<1>4. ~(k < i)
  BY <1>1, <1>2, JobSeqIncreases
<1>5. QED
  BY <1>1, <1>3, <1>4

LEMMA NextOwnAnswers ==
    TypeOK /\ PromiseInv /\ OwnAnswers /\ [Next]_vars => OwnAnswers'
<1> SUFFICES ASSUME TypeOK, PromiseInv, OwnAnswers, [Next]_vars PROVE OwnAnswers'
  OBVIOUS
<1>1. ASSUME NEW c \in Callers, NEW t \in Texts, Call(c, t) PROVE OwnAnswers'
  BY <1>1 DEF Call, OwnAnswers, TypeOK
<1>2. ASSUME NEW c \in Callers, Notify(c) PROVE OwnAnswers'
  BY <1>2 DEF Notify, OwnAnswers, TypeOK
<1>3. ASSUME NEW c \in Callers, Return(c) \/ TimeOut(c) PROVE OwnAnswers'
  BY <1>3 DEF Return, TimeOut, OwnAnswers, TypeOK, Idle
<1>4. CASE EncodeSingle \/ Answer
  <2> DEFINE n == worker.next
             job == worker.jobs[n]
  <2>1. /\ worker.next \in DOMAIN worker.jobs /\ worker.jobs \in Seq(Jobs(Callers))
        /\ Busy /\ n \in Held
    BY <1>4 DEF EncodeSingle, Answer, Busy, Held, TypeOK
  <2>2. PICK v \in {job.text, NoVector} : Fulfil(v)
    <3>1. CASE EncodeSingle
      BY <3>1 DEF EncodeSingle, Found
    <3>2. CASE Answer
      <4>1. Batched(worker.jobs, n) \subseteq {job.text}
        BY <2>1, BatchedIsOwn
      <4>2. QED
        BY <3>2, <4>1 DEF Answer
    <3>3. QED
      BY <1>4, <3>1, <3>2
  <2>3. CASE job.for = None
    BY <2>2, <2>3 DEF Fulfil, OwnAnswers
  <2>4. CASE job.for # None
    <3>1. job.for \in Callers /\ caller' = [caller EXCEPT ![job.for].answer = v]
      <4>1. job \in Jobs(Callers)
        BY <2>1
      <4>2. QED
        BY <2>2, <2>4, <4>1 DEF Fulfil, Jobs
    <3>2. n \in HeldFor(job.for)
      BY <2>1 DEF HeldFor
    <3>3. job.text = caller[job.for].text
      BY <2>1, <3>1, <3>2 DEF PromiseInv, OwnText, Alive, Busy
    <3> HIDE DEF job
    <3>4. QED
      BY <2>2, <3>1, <3>3 DEF OwnAnswers, TypeOK
  <2>5. QED
    BY <2>3, <2>4
<1>5. CASE UNCHANGED caller
  BY <1>5 DEF OwnAnswers
<1>6. QED
  BY <1>1, <1>2, <1>3, <1>4, <1>5
     DEF Next, WorkerStep, Stopping, NotifyStep, vars, WorkerTake, WorkerLeave, WorkerTest,
         WorkerBlock, EncodeTooLong, Decode, NotifyStop, Join, WakeUnasked, SetStop

(* A caller only ever gets the embedding of its own text or none, with jobs of
   callers that gave up and texts without tokens in the same batch. *)
THEOREM OwnAnswersEver == Spec => []OwnAnswers
<1>1. Init => OwnAnswers
  BY DEF Init, OwnAnswers, Idle
<1>2. QED
  BY <1>1, InitPromises, NextTypeOK, NextIdleInv, NextPromiseInv, NextOwnAnswers, PTL DEF Spec

-----------------------------------------------------------------------------
(* The service.  What the service's callers see of a step is where the promises
   are after it: who is ahead of whom, and which saves are in hand. *)

\* A thread that is not idle has a text.
AskedInv == \A c \in Callers : caller[c].at # "idle" => caller[c].text # None

ServiceInv == TypeOK /\ IdleInv /\ AskedInv /\ PromiseInv

LEMMA NextAskedInv == TypeOK /\ AskedInv /\ [Next]_vars => AskedInv'
<1> SUFFICES ASSUME TypeOK, AskedInv, [Next]_vars PROVE AskedInv'
  OBVIOUS
<1>1. ASSUME NEW c \in Callers, NEW t \in Texts, Call(c, t) PROVE AskedInv'
  <2>1. t # None
    BY QueueAssumption
  <2> QED
    BY <1>1, <2>1 DEF Call, AskedInv, TypeOK
<1>2. ASSUME NEW c \in Callers, Notify(c) PROVE AskedInv'
  BY <1>2 DEF Notify, AskedInv, TypeOK
<1>3. ASSUME NEW c \in Callers, Return(c) \/ TimeOut(c) PROVE AskedInv'
  BY <1>3 DEF Return, TimeOut, AskedInv, TypeOK, Idle
<1>4. CASE EncodeSingle \/ Answer
  <2> DEFINE job == worker.jobs[worker.next]
  <2>1. PICK v : Fulfil(v)
    BY <1>4 DEF EncodeSingle, Answer
  <2>2. caller' = caller \/ caller' = [caller EXCEPT ![job.for].answer = v]
    BY <2>1 DEF Fulfil
  <2> HIDE DEF job
  <2> QED
    BY <2>2 DEF AskedInv, TypeOK
<1>5. CASE UNCHANGED caller
  BY <1>5 DEF AskedInv
<1> QED
  BY <1>1, <1>2, <1>3, <1>4, <1>5
     DEF Next, WorkerStep, Stopping, NotifyStep, vars, WorkerTake, WorkerLeave, WorkerTest,
         WorkerBlock, EncodeTooLong, Decode, NotifyStop, Join, WakeUnasked, SetStop

LEMMA NextServiceInv == ServiceInv /\ [Next]_vars => ServiceInv'
  BY NextTypeOK, NextIdleInv, NextAskedInv, NextPromiseInv DEF ServiceInv

LEMMA WaitingIs ==
    ASSUME ServiceInv, NEW c \in Callers
    PROVE  /\ Service!Waiting(c) <=> Pending(c)
           /\ Calls[c] = [text |-> caller[c].text, answer |-> caller[c].answer]
<1>1. Calls[c] = [text |-> caller[c].text, answer |-> caller[c].answer]
  BY DEF Calls
<1>2. caller[c].at = "idle" => caller[c].text = None
  BY DEF ServiceInv, IdleInv, Idle
<1>3. caller[c].at # "idle" => caller[c].text # None
  BY DEF ServiceInv, AskedInv
<1> QED
  BY <1>1, <1>2, <1>3 DEF Service!Waiting, Pending

LEMMA PeersAre ==
    ASSUME NEW c \in Callers
    PROVE  /\ Peers(c) = Service!Peers(c) /\ Peers(c) \subseteq Callers
           /\ \A d \in Peers(c) : OwnQueue(d) = OwnQueue(c) /\ Peers(d) = Peers(c)
           /\ c \in Peers(c)
  BY QueueAssumption DEF Peers, Service!Peers, OwnQueue, Callers

(* Steps that leave every promise where it is. *)
LEMMA SameLines ==
    ASSUME Alive, Alive',
           \A d \in Callers : QueuedFor(d)' = QueuedFor(d) /\ HeldFor(d)' = HeldFor(d)
    PROVE  Ahead' = Ahead /\ Admitted' = Admitted
<1>1. ASSUME NEW c \in Callers, NEW d \in Callers PROVE Before(d, c)' <=> Before(d, c)
  BY DEF Before
<1>2. \A c \in Callers : {d \in Peers(c) : Before(d, c)'} = {d \in Peers(c) : Before(d, c)}
  BY <1>1, PeersAre
<1>3. Ahead' = Ahead
  BY <1>2 DEF Ahead
<1>4. Admitted' = Admitted
  BY DEF Admitted, Callers
<1> QED
  BY <1>3, <1>4

(* Steps that end one promise. *)
LEMMA OneSettled ==
    ASSUME Alive, Alive', NEW c \in Callers, QueuedFor(c)' = {}, HeldFor(c)' = {},
           \A d \in Callers : d # c => QueuedFor(d)' = QueuedFor(d) /\ HeldFor(d)' = HeldFor(d)
    PROVE  /\ Ahead' = [d \in Callers |-> IF d = c THEN {} ELSE Ahead[d] \ {c}]
           /\ Admitted' = Admitted \ {c}
<1>1. \A d \in Callers : ~Before(d, c)'
  BY DEF Before
<1>2. \A e \in Callers : ~Before(c, e)'
  BY DEF Before
<1>3. \A d, e \in Callers : d # c /\ e # c => (Before(d, e)' <=> Before(d, e))
  BY DEF Before
<1>4. ASSUME NEW e \in Callers
      PROVE  {d \in Peers(e) : Before(d, e)'}
               = IF e = c THEN {} ELSE {d \in Peers(e) : Before(d, e)} \ {c}
  <2>1. Peers(e) \subseteq Callers
    BY PeersAre
  <2>2. CASE e = c
    BY <1>1, <2>1, <2>2
  <2>3. CASE e # c
    BY <1>2, <1>3, <2>1, <2>3
  <2> QED
    BY <2>2, <2>3
<1>5. Ahead' = [d \in Callers |-> IF d = c THEN {} ELSE Ahead[d] \ {c}]
  BY <1>4 DEF Ahead
<1>6. Admitted' = Admitted \ {c}
  BY DEF Admitted, Callers
<1> QED
  BY <1>5, <1>6

LEMMA StartsEmpty == Init => Service!Init
<1> SUFFICES ASSUME Init PROVE Service!Init
  OBVIOUS
<1>1. \A c \in Callers : QueuedFor(c) = {} /\ HeldFor(c) = {}
  BY DEF Init, QueuedFor, OwnQueue, HeldFor, Held, Busy, Empty
<1>2. \A c, d \in Callers : ~Before(d, c)
  BY <1>1 DEF Before
<1>3. Ahead = [c \in Service!Callers |-> {}]
  BY <1>2, PeersAre DEF Ahead, Service!Callers, Callers
<1>4. Calls = [c \in Service!Callers |-> Service!NoCall]
  BY DEF Init, Calls, Service!Callers, Callers, Service!NoCall, Idle
<1>5. Admitted = {}
  BY <1>1 DEF Admitted, Callers
<1>6. Alive
  BY DEF Init, Alive, Empty
<1> QED
  BY <1>3, <1>4, <1>5, <1>6 DEF Service!Init

LEMMA CallIsAsk ==
    ASSUME ServiceInv, Alive, NEW c \in Callers, NEW t \in Texts, Call(c, t)
    PROVE  Service!Ask(c, t) /\ Alive'
<1> DEFINE job == [text |-> t, for |-> c]
           q == OwnQueue(c)
           n == Len(q) + 1
<1>0. TypeOK /\ PromiseInv
  BY DEF ServiceInv
<1>1. /\ worker' = worker /\ caller[c] = Idle /\ caller' = [caller EXCEPT ![c] =
           [at |-> "notify", text |-> t, answer |-> None]]
      /\ \A d \in Callers : OwnQueue(d)' = IF d \in Peers(c) THEN Append(q, job) ELSE OwnQueue(d)
  BY QueueAssumption DEF Call, Enqueue, OwnQueue, Peers, Callers
<1>2. Alive' /\ \A d \in Callers : HeldFor(d)' = HeldFor(d)
  BY <1>1 DEF Alive, HeldFor, Held, Busy
<1>3. ~Pending(c) /\ QueuedFor(c) = {} /\ HeldFor(c) = {}
  BY <1>0, <1>1 DEF Pending, PromiseInv, OnePromise, Idle
<1>4. /\ q \in Seq(Jobs(Callers)) /\ n \in Nat
      /\ DOMAIN Append(q, job) = DOMAIN q \cup {n} /\ n \notin DOMAIN q
      /\ Append(q, job)[n] = job
      /\ \A p \in DOMAIN q : Append(q, job)[p] = q[p] /\ p < n /\ p \in Nat
  <2>1. q \in Seq(Jobs(Callers))
    BY <1>0, JobsMonotone DEF OwnQueue, TypeOK
  <2> QED
    BY <2>1
<1>5. QueuedFor(c)' = {n}
  <2>1. OwnQueue(c)' = Append(q, job)
    BY <1>1, PeersAre
  <2> HIDE DEF n, job
  <2> QED
    BY <1>3, <1>4, <2>1 DEF QueuedFor, job
<1>6. ASSUME NEW d \in Callers, d # c PROVE QueuedFor(d)' = QueuedFor(d)
  <2>1. CASE d \in Peers(c)
    <3>1. OwnQueue(d) = q /\ OwnQueue(d)' = Append(q, job)
      BY <1>1, <2>1, PeersAre
    <3> HIDE DEF n, q
    <3> QED
      BY <1>4, <1>6, <3>1 DEF QueuedFor
  <2>2. CASE d \notin Peers(c)
    BY <1>1, <2>2 DEF QueuedFor
  <2> QED
    BY <2>1, <2>2
<1>7. ASSUME NEW d \in Peers(c) PROVE QueuedFor(d) \subseteq DOMAIN q
  BY PeersAre DEF QueuedFor
<1> HIDE DEF n, q
<1>8. ASSUME NEW e \in Callers, e # c, NEW d \in Peers(e)
      PROVE  Before(d, e)' <=> Before(d, e)
  <2>1. d \in Callers
    BY PeersAre
  <2>2. CASE d # c
    BY <1>2, <1>6, <1>8, <2>1, <2>2 DEF Before
  <2>3. CASE d = c
    <3>1. ~Before(d, e)
      BY <1>3, <2>3 DEF Before
    <3>2. QueuedFor(e)' \subseteq DOMAIN q /\ HeldFor(d)' = {} /\ QueuedFor(d)' = {n}
      BY <1>2, <1>3, <1>5, <1>6, <1>7, <1>8, <2>3, PeersAre
    <3>3. \A r \in DOMAIN q : ~(n < r)
      BY <1>4
    <3> QED
      BY <3>1, <3>2, <3>3 DEF Before
  <2> QED
    BY <2>2, <2>3
<1>9. ASSUME NEW d \in Peers(c) PROVE Before(d, c)' <=> Pending(d)
  <2>1. d \in Callers /\ (Pending(d) <=> QueuedFor(d) # {} \/ HeldFor(d) # {})
    BY <1>0, PeersAre DEF PromiseInv, OnePromise
  <2>2. HeldFor(c)' = {} /\ QueuedFor(c)' = {n}
    BY <1>2, <1>3, <1>5
  <2>3. CASE d = c
    <3>1. ~(n < n)
      BY <1>4
    <3> QED
      BY <1>3, <2>2, <2>3, <3>1 DEF Before
  <2>4. CASE d # c
    <3>1. HeldFor(d)' = HeldFor(d) /\ QueuedFor(d)' = QueuedFor(d)
      BY <1>2, <1>6, <2>1, <2>4
    <3>2. \A p \in QueuedFor(d) : p < n
      BY <1>4, <1>7
    <3> QED
      BY <2>1, <2>2, <3>1, <3>2 DEF Before
  <2> QED
    BY <2>3, <2>4
<1>10. Ahead' = [Ahead EXCEPT ![c] = {d \in Service!Peers(c) : Service!Waiting(d)}]
  <2>1. {d \in Peers(c) : Before(d, c)'} = {d \in Service!Peers(c) : Service!Waiting(d)}
    BY <1>9, PeersAre, WaitingIs
  <2>2. \A e \in Callers : e # c =>
          {d \in Peers(e) : Before(d, e)'} = {d \in Peers(e) : Before(d, e)}
    BY <1>8
  <2> QED
    BY <1>2, <2>1, <2>2 DEF Ahead
<1>11. Admitted' = Admitted
  BY <1>2 DEF Admitted, Callers
<1>12. Calls[c] = Service!NoCall
  BY <1>1 DEF Calls, Service!NoCall, Idle
<1>13. Calls' = [Calls EXCEPT ![c] = [text |-> t, answer |-> None]]
  BY <1>0, <1>1 DEF Calls, TypeOK
<1> QED
  BY <1>2, <1>10, <1>11, <1>12, <1>13 DEF Service!Ask

LEMMA ReturnIsReturn ==
    ASSUME ServiceInv, Alive, NEW c \in Callers, Return(c)
    PROVE  Service!Return(c) /\ Alive'
<1>1. /\ caller' = [caller EXCEPT ![c] = Idle] /\ caller[c].answer # None
      /\ UNCHANGED <<jobsHigh, jobsNormal, worker>>
  BY DEF Return
<1>2. Alive' /\ \A d \in Callers : QueuedFor(d)' = QueuedFor(d) /\ HeldFor(d)' = HeldFor(d)
  BY <1>1 DEF Alive, QueuedFor, OwnQueue, HeldFor, Held, Busy
<1>3. Ahead' = Ahead /\ Admitted' = Admitted
  BY <1>2, SameLines
<1>4. Calls' = [Calls EXCEPT ![c] = Service!NoCall] /\ Calls[c].answer # None
  BY <1>1 DEF Calls, Service!NoCall, Idle, ServiceInv, TypeOK
<1> QED
  BY <1>2, <1>3, <1>4 DEF Service!Return

LEMMA TimeOutIsGiveUp ==
    ASSUME ServiceInv, Alive, NEW c \in Callers, TimeOut(c)
    PROVE  Service!GiveUp(c) /\ Alive'
<1>0. TypeOK /\ PromiseInv /\ TypeOK'
  BY NextTypeOK DEF ServiceInv, Next
<1>1. /\ caller' = [caller EXCEPT ![c] = Idle] /\ Pending(c)
      /\ worker' = [worker EXCEPT !.jobs = Abandoned(worker.jobs, c)]
  BY DEF TimeOut, Pending
<1>2. Alive' /\ worker'.at = worker.at /\ worker'.next = worker.next
      /\ worker'.jobs = Abandoned(worker.jobs, c)
  BY <1>0, <1>1 DEF Alive, TypeOK
<1>3. ASSUME NEW d \in Callers
      PROVE  /\ QueuedFor(d)' = IF d = c THEN {} ELSE QueuedFor(d)
             /\ HeldFor(d)' = IF d = c THEN {} ELSE HeldFor(d)
  <2>1. None # d /\ None # c
    BY QueueAssumption
  <2>2. /\ OwnQueue(d) \in Seq(Jobs(Callers)) /\ worker.jobs \in Seq(Jobs(Callers))
        /\ OwnQueue(d)' = Abandoned(OwnQueue(d), c)
    BY <1>0, JobsMonotone DEF OwnQueue, TypeOK, TimeOut
  <2>3. /\ DOMAIN Abandoned(OwnQueue(d), c) = DOMAIN OwnQueue(d)
        /\ \A p \in DOMAIN OwnQueue(d) : Abandoned(OwnQueue(d), c)[p].for =
             IF OwnQueue(d)[p].for = c THEN None ELSE OwnQueue(d)[p].for
    BY <2>2, AbandonedFacts
  <2>4. /\ Len(Abandoned(worker.jobs, c)) = Len(worker.jobs)
        /\ \A p \in DOMAIN worker.jobs : Abandoned(worker.jobs, c)[p].for =
             IF worker.jobs[p].for = c THEN None ELSE worker.jobs[p].for
    BY <2>2, AbandonedFacts
  <2>5. Held' = Held /\ Held \subseteq DOMAIN worker.jobs
    BY <1>0, <1>2, <2>2, <2>4 DEF Held, Busy, TypeOK
  <2>6. QueuedFor(d)' = IF d = c THEN {} ELSE QueuedFor(d)
    BY <2>1, <2>2, <2>3 DEF QueuedFor
  <2>7. HeldFor(d)' = IF d = c THEN {} ELSE HeldFor(d)
    BY <1>2, <2>1, <2>4, <2>5 DEF HeldFor
  <2> QED
    BY <2>6, <2>7
<1>4. /\ Ahead' = [d \in Callers |-> IF d = c THEN {} ELSE Ahead[d] \ {c}]
      /\ Admitted' = Admitted \ {c}
  BY <1>2, <1>3, OneSettled
<1>5. Calls' = [Calls EXCEPT ![c] = Service!NoCall]
  BY <1>0, <1>1 DEF Calls, Service!NoCall, Idle, TypeOK
<1>6. Service!Waiting(c)
  BY <1>1, WaitingIs
<1> QED
  BY <1>2, <1>4, <1>5, <1>6 DEF Service!GiveUp, Service!Settled, Service!Callers, Callers

(* A fulfilled promise answers the first call of its line, or nobody's. *)
LEMMA FulfilIsAnswer ==
    ASSUME ServiceInv, Busy, UNCHANGED <<jobsHigh, jobsNormal>>,
           NEW v \in {worker.jobs[worker.next].text, NoVector}, Fulfil(v)
    PROVE  /\ Alive'
           /\ \/ \E c \in Callers : Service!Answer(c)
              \/ UNCHANGED <<Calls, Ahead, Admitted>>
<1> DEFINE n == worker.next
           job == worker.jobs[n]
<1>0. TypeOK /\ PromiseInv /\ Alive
  BY DEF ServiceInv, Busy, Alive
<1>1. /\ n \in Nat /\ n \in 1..Len(worker.jobs) /\ Len(worker.jobs) \in Nat
      /\ worker.jobs \in Seq(Jobs(Callers)) /\ DOMAIN worker.jobs = 1..Len(worker.jobs)
      /\ job \in Jobs(Callers) /\ Held = n..Len(worker.jobs)
  <2>1. worker.jobs \in Seq(Jobs(Callers)) /\ n \in DOMAIN worker.jobs /\ n \in Nat
    BY <1>0 DEF TypeOK
  <2> QED
    BY <2>1 DEF Held
<1>2. Alive' /\ \A d \in Callers : HeldFor(d)' = HeldFor(d) \ {n}
  <2>1. CASE n = Len(worker.jobs)
    <3>1. worker' = Empty
      BY <2>1 DEF Fulfil
    <3>2. Alive' /\ \A d \in Callers : HeldFor(d)' = {}
      BY <3>1 DEF HeldFor, Held, Busy, Empty, Alive
    <3>3. \A d \in Callers : HeldFor(d) \subseteq {n}
      BY <1>1, <2>1 DEF HeldFor
    <3> QED
      BY <3>2, <3>3
  <2>2. CASE n # Len(worker.jobs)
    <3>1. worker' = [worker EXCEPT !.next = n + 1, !.jobs[n].for = None]
      BY <2>2 DEF Fulfil
    <3>2. /\ worker'.next = n + 1 /\ worker'.at = worker.at
          /\ worker'.jobs = [worker.jobs EXCEPT ![n].for = None]
      BY <1>0, <3>1 DEF TypeOK
    <3>3. /\ DOMAIN (worker'.jobs) = DOMAIN worker.jobs
          /\ \A p \in DOMAIN worker.jobs : p # n => worker'.jobs[p] = worker.jobs[p]
      BY <3>2
    <3>4. Len(worker'.jobs) = Len(worker.jobs)
      BY <1>1, <3>2, <3>3
    <3>5. Held' = (n + 1)..Len(worker.jobs) /\ Alive'
      BY <1>0, <3>2, <3>4 DEF Held, Busy, Alive
    <3> HIDE DEF n
    <3>6. Held' = Held \ {n} /\ Held \subseteq DOMAIN worker.jobs
      BY <1>1, <3>5
    <3> QED
      BY <3>3, <3>5, <3>6 DEF HeldFor
  <2> QED
    BY <2>1, <2>2
<1>3. \A d \in Callers : QueuedFor(d)' = QueuedFor(d)
  BY DEF QueuedFor, OwnQueue
<1>4. CASE job.for = None
  <2>1. caller' = caller
    BY <1>4 DEF Fulfil
  <2>2. \A d \in Callers : d # None
    BY QueueAssumption
  <2>3. \A d \in Callers : n \notin HeldFor(d)
    BY <1>4, <2>2 DEF HeldFor
  <2> HIDE DEF n
  <2>4. \A d \in Callers : HeldFor(d)' = HeldFor(d)
    BY <1>2, <2>3
  <2>5. Ahead' = Ahead /\ Admitted' = Admitted
    BY <1>0, <1>2, <1>3, <2>4, SameLines
  <2> QED
    BY <1>2, <2>1, <2>5 DEF Calls
<1>5. CASE job.for # None
  <2>0. PICK c \in Callers : c = job.for
    BY <1>1, <1>5 DEF Jobs
  <2>1. caller' = [caller EXCEPT ![c].answer = v]
    BY <1>5, <2>0 DEF Fulfil
  <2>2. n \in HeldFor(c)
    BY <1>1, <2>0 DEF HeldFor
  <2>3. /\ OnePromise(c) /\ job.text = caller[c].text
    BY <1>0, <2>2 DEF PromiseInv, OwnText
  <2>4. Pending(c) /\ QueuedFor(c) = {} /\ HeldFor(c) = {n}
    BY <2>2, <2>3 DEF OnePromise
  <2>5. ASSUME NEW d \in Callers, d # c PROVE n \notin HeldFor(d)
    BY <2>0, <2>5 DEF HeldFor
  <2>6. ASSUME NEW d \in Callers, NEW p \in HeldFor(d) PROVE ~(p < n)
    <3>1. p \in n..Len(worker.jobs)
      BY <1>1 DEF HeldFor
    <3> QED
      BY <1>1, <3>1
  <2>7. Service!Waiting(c) /\ Calls[c].text = job.text
    <3>1. /\ Service!Waiting(c) <=> Pending(c)
          /\ Calls[c] = [text |-> caller[c].text, answer |-> caller[c].answer]
      BY WaitingIs
    <3>2. Calls[c].text = caller[c].text
      BY <3>1
    <3> QED
      BY <2>3, <2>4, <3>1, <3>2
  <2>8. Calls' = [Calls EXCEPT ![c] = [text |-> Calls[c].text, answer |-> v]]
    BY <1>0, <2>1 DEF Calls, TypeOK
  <2> HIDE DEF job, n
  <2>9. /\ Ahead' = [d \in Callers |-> IF d = c THEN {} ELSE Ahead[d] \ {c}]
        /\ Admitted' = Admitted \ {c}
    <3>1. QueuedFor(c)' = {} /\ HeldFor(c)' = {}
      BY <1>2, <1>3, <2>4
    <3>2. \A d \in Callers : d # c => QueuedFor(d)' = QueuedFor(d) /\ HeldFor(d)' = HeldFor(d)
      BY <1>2, <1>3, <2>5
    <3> QED
      BY <1>0, <1>2, <3>1, <3>2, OneSettled
  <2>10. Ahead[c] = {}
    <3>1. \A d \in Peers(c) : ~Before(d, c)
      BY <2>4, <2>6, PeersAre DEF Before
    <3> QED
      BY <1>0, <3>1 DEF Ahead
  <2>11. c \in HighCallers \cup Admitted
    BY <2>4 DEF Admitted, Callers
  <2>12. v \in {Calls[c].text, NoVector}
    BY <2>7 DEF job, n
  <2>13. Service!Answer(c)
    BY <2>7, <2>8, <2>9, <2>10, <2>11, <2>12
       DEF Service!Answer, Service!Settled, Service!Callers, Callers
  <2> QED
    BY <1>2, <2>13
<1> QED
  BY <1>4, <1>5

(* Taking a batch moves the first promises of one line into the worker's hands. *)
LEMMA TakePlaces ==
    ASSUME TypeOK, worker.at = "lock", NEW S \in {HighCallers, NormalCallers},
           NEW q \in Seq(Jobs(S)), Taking(BatchOf(q)), q # <<>>,
           \A d \in Callers : d \in S => OwnQueue(d) = q /\ OwnQueue(d)' = RestOf(q),
           \A d \in Callers : d \notin S => OwnQueue(d)' = OwnQueue(d),
           NEW d \in Callers
    PROVE  LET k == Len(BatchOf(q)) IN
           /\ k \in Nat /\ HeldFor(d) = {} /\ QueuedFor(d) \subseteq Nat
           /\ d \in S => /\ HeldFor(d)' = {p \in QueuedFor(d) : p <= k}
                         /\ \A p \in Nat : p \in QueuedFor(d)' <=> p + k \in QueuedFor(d) /\ p # 0
           /\ d \notin S => HeldFor(d)' = {} /\ QueuedFor(d)' = QueuedFor(d)
<1> DEFINE k == Len(BatchOf(q))
<1>1. S \subseteq Callers /\ None # d
  BY QueueAssumption DEF Callers
<1>2. /\ BatchOf(q) \in Seq(Jobs(S)) /\ RestOf(q) \in Seq(Jobs(S))
      /\ k \in Nat /\ k >= 1 /\ k <= Len(q) /\ Len(q) \in Nat
      /\ Len(RestOf(q)) = Len(q) - k
      /\ \A p \in DOMAIN BatchOf(q) : BatchOf(q)[p] = q[p]
      /\ \A p \in DOMAIN RestOf(q) : RestOf(q)[p] = q[p + k]
  BY BatchFacts
<1>3. DOMAIN q = 1..Len(q) /\ DOMAIN BatchOf(q) = 1..k /\ DOMAIN RestOf(q) = 1..(Len(q) - k)
  BY <1>2
<1>4. HeldFor(d) = {}
  BY DEF HeldFor, Held, Busy
<1>5. worker'.jobs = BatchOf(q) /\ Held' = 1..k
  <2>1. worker' = [at |-> Path(BatchOf(q)), jobs |-> BatchOf(q), next |-> 1, ok |-> FALSE]
    BY DEF Taking
  <2>2. Path(BatchOf(q)) \in {"serial", "decode"}
    BY DEF Path
  <2> QED
    BY <2>1, <2>2 DEF Held, Busy
<1> HIDE DEF k
<1>6. HeldFor(d)' = {p \in 1..k : q[p].for = d}
  BY <1>2, <1>3, <1>5 DEF HeldFor
<1>7. ASSUME d \in S
      PROVE  /\ HeldFor(d)' = {p \in QueuedFor(d) : p <= k}
             /\ \A p \in Nat : p \in QueuedFor(d)' <=> p + k \in QueuedFor(d) /\ p # 0
  <2>1. QueuedFor(d)' = {p \in 1..(Len(q) - k) : q[p + k].for = d}
    BY <1>2, <1>3, <1>7 DEF QueuedFor
  <2>2. QueuedFor(d) = {p \in 1..Len(q) : q[p].for = d}
    BY <1>3, <1>7 DEF QueuedFor
  <2>3. HeldFor(d)' = {p \in QueuedFor(d) : p <= k}
    BY <1>2, <1>6, <2>2
  <2>4. \A p \in Nat : p \in QueuedFor(d)' <=> p + k \in QueuedFor(d) /\ p # 0
    BY <1>2, <2>1, <2>2
  <2> QED
    BY <2>3, <2>4
<1>8. ASSUME d \notin S PROVE HeldFor(d)' = {} /\ QueuedFor(d)' = QueuedFor(d)
  <2>1. \A p \in 1..k : q[p].for # d
    <3>1. \A p \in 1..k : q[p] \in Jobs(S)
      BY <1>2, <1>3
    <3> QED
      BY <1>1, <1>8, <3>1 DEF Jobs
  <2>2. HeldFor(d)' = {}
    BY <1>6, <2>1
  <2> QED
    BY <1>8, <2>2 DEF QueuedFor
<1>9. QueuedFor(d) \subseteq Nat
  <2>1. OwnQueue(d) \in Seq(Jobs(Callers))
    BY JobsMonotone DEF OwnQueue, TypeOK
  <2> QED
    BY <2>1 DEF QueuedFor
<1> QED
  BY <1>2, <1>4, <1>7, <1>8, <1>9 DEF k

(* Whom a batch is taken from, nobody's turn changes. *)
LEMMA TakeKeepsOrder ==
    ASSUME TypeOK, Alive, worker.at = "lock", NEW S \in {HighCallers, NormalCallers},
           NEW q \in Seq(Jobs(S)), Taking(BatchOf(q)), q # <<>>,
           \A d \in Callers : d \in S => OwnQueue(d) = q /\ OwnQueue(d)' = RestOf(q),
           \A d \in Callers : d \notin S => OwnQueue(d)' = OwnQueue(d)
    PROVE  Alive' /\ Ahead' = Ahead
<1> DEFINE k == Len(BatchOf(q))
<1>1. \A d \in Callers :
        /\ k \in Nat /\ HeldFor(d) = {} /\ QueuedFor(d) \subseteq Nat
        /\ d \in S => /\ HeldFor(d)' = {p \in QueuedFor(d) : p <= k}
                      /\ \A p \in Nat : p \in QueuedFor(d)' <=> p + k \in QueuedFor(d) /\ p # 0
        /\ d \notin S => HeldFor(d)' = {} /\ QueuedFor(d)' = QueuedFor(d)
  BY TakePlaces
<1>2. Alive'
  <2>1. worker'.at = Path(BatchOf(q))
    BY DEF Taking
  <2> QED
    BY <2>1 DEF Path, Alive
<1> HIDE DEF k
<1>3. ASSUME NEW d \in Callers PROVE QueuedFor(d)' \subseteq Nat
  <2>1. OwnQueue(d)' \in Seq(Jobs(Callers))
    <3>1. OwnQueue(d) \in Seq(Jobs(Callers))
      BY JobsMonotone DEF OwnQueue, TypeOK
    <3>2. d \in S => OwnQueue(d)' \in Seq(Jobs(Callers))
      BY <3>1, BatchFacts
    <3> QED
      BY <3>1, <3>2
  <2> QED
    BY <2>1 DEF QueuedFor
<1>4. ASSUME NEW c \in Callers, NEW d \in Peers(c) PROVE Before(d, c)' <=> Before(d, c)
  <2>1. d \in Callers /\ (c \in S <=> d \in S)
    BY QueueAssumption DEF Peers, Callers
  <2>2. CASE c \notin S
    BY <1>1, <2>1, <2>2 DEF Before
  <2>3. CASE c \in S
    <3>1. Before(d, c) <=> \E p \in QueuedFor(d), r \in QueuedFor(c) : p < r
      BY <1>1, <2>1 DEF Before
    <3>2. ASSUME NEW p \in QueuedFor(d), NEW r \in QueuedFor(c), p < r PROVE Before(d, c)'
      <4>1. p \in Nat /\ r \in Nat /\ k \in Nat
        BY <1>1, <2>1
      <4>2. CASE r <= k
        <5>1. p \in HeldFor(d)' /\ r \in HeldFor(c)'
          BY <1>1, <2>1, <2>3, <3>2, <4>1, <4>2
        <5> QED
          BY <3>2, <5>1 DEF Before
      <4>3. CASE p <= k /\ ~(r <= k)
        <5>1. p \in HeldFor(d)'
          BY <1>1, <2>1, <2>3, <4>3
        <5>2. r - k \in Nat /\ (r - k) + k = r /\ r - k # 0
          BY <4>1, <4>3
        <5>3. r - k \in QueuedFor(c)'
          BY <1>1, <2>3, <5>2
        <5> QED
          BY <5>1, <5>3 DEF Before
      <4>4. CASE ~(p <= k)
        <5>1. /\ p - k \in Nat /\ (p - k) + k = p /\ p - k # 0
              /\ r - k \in Nat /\ (r - k) + k = r /\ r - k # 0 /\ p - k < r - k
          BY <3>2, <4>1, <4>4
        <5>2. p - k \in QueuedFor(d)' /\ r - k \in QueuedFor(c)'
          BY <1>1, <2>1, <2>3, <5>1
        <5> QED
          BY <5>1, <5>2 DEF Before
      <4> QED
        BY <4>2, <4>3, <4>4
    <3>3. ASSUME Before(d, c)' PROVE Before(d, c)
      <4>1. CASE \E p \in HeldFor(d)', r \in HeldFor(c)' : p < r
        BY <1>1, <2>1, <2>3, <3>1, <4>1
      <4>2. CASE \E p \in QueuedFor(d)', r \in QueuedFor(c)' : p < r
        <5>1. PICK p \in QueuedFor(d)', r \in QueuedFor(c)' : p < r
          BY <4>2
        <5>2. p \in Nat /\ r \in Nat /\ k \in Nat
          BY <1>1, <1>3, <2>1
        <5>3. p + k \in QueuedFor(d) /\ r + k \in QueuedFor(c) /\ p + k < r + k
          BY <1>1, <2>1, <2>3, <5>1, <5>2
        <5> QED
          BY <3>1, <5>3
      <4>3. CASE HeldFor(d)' # {} /\ QueuedFor(c)' # {}
        <5>1. PICK p \in HeldFor(d)' : p \in QueuedFor(d) /\ p <= k
          BY <1>1, <2>1, <2>3, <4>3
        <5>2. PICK r \in QueuedFor(c)' : r \in Nat /\ r + k \in QueuedFor(c) /\ r # 0
          BY <1>1, <1>3, <2>3, <4>3
        <5>3. p \in Nat /\ k \in Nat
          BY <1>1, <2>1, <5>1
        <5>4. p < r + k
          BY <5>1, <5>2, <5>3
        <5> QED
          BY <3>1, <5>1, <5>2, <5>4
      <4> QED
        BY <3>3, <4>1, <4>2, <4>3 DEF Before
    <3> QED
      BY <3>1, <3>2, <3>3
  <2> QED
    BY <2>2, <2>3
<1>5. Ahead' = Ahead
  <2>1. \A c \in Callers : {d \in Peers(c) : Before(d, c)'} = {d \in Peers(c) : Before(d, c)}
    BY <1>4
  <2> QED
    BY <1>2, <2>1 DEF Ahead
<1> QED
  BY <1>2, <1>5

(* A batch of saves admits those whose jobs are in it; a batch of searches is
   nothing to the callers. *)
LEMMA TakeIsAdmit ==
    ASSUME ServiceInv, Alive, WorkerTake
    PROVE  /\ Alive'
           /\ \/ \E S \in SUBSET NormalCallers : Service!Admit(S)
              \/ UNCHANGED <<Calls, Ahead, Admitted>>
<1>0. TypeOK /\ PromiseInv /\ worker.at = "lock" /\ caller' = caller
  BY DEF ServiceInv, WorkerTake
<1>1. Calls' = Calls
  BY <1>0 DEF Calls
<1>2. CASE SearchesFirst
  <2>1. /\ Taking(BatchOf(jobsHigh)) /\ jobsHigh # <<>>
        /\ jobsHigh' = RestOf(jobsHigh) /\ jobsNormal' = jobsNormal
        /\ jobsHigh \in Seq(Jobs(HighCallers))
    BY <1>0, <1>2 DEF WorkerTake, SearchesFirst, TypeOK
  <2>2. /\ \A d \in Callers : d \in HighCallers =>
             OwnQueue(d) = jobsHigh /\ OwnQueue(d)' = RestOf(jobsHigh)
        /\ \A d \in Callers : d \notin HighCallers => OwnQueue(d)' = OwnQueue(d)
    BY <2>1 DEF OwnQueue
  <2>3. Alive' /\ Ahead' = Ahead
    BY <1>0, <2>1, <2>2, TakeKeepsOrder
  <2>4. ASSUME NEW d \in Callers, d \notin HighCallers
        PROVE  HeldFor(d) = {} /\ HeldFor(d)' = {}
    BY <1>0, <2>1, <2>2, <2>4, TakePlaces
  <2>5. Admitted' = Admitted
    BY <2>4, QueueAssumption DEF Admitted, Callers
  <2> QED
    BY <1>1, <2>3, <2>5
<1>3. CASE ~SearchesFirst
  <2>1. /\ Taking(BatchOf(jobsNormal)) /\ jobsNormal # <<>> /\ jobsHigh = <<>>
        /\ jobsNormal' = RestOf(jobsNormal) /\ jobsHigh' = jobsHigh
        /\ jobsNormal \in Seq(Jobs(NormalCallers))
    BY <1>0, <1>3 DEF WorkerTake, SearchesFirst, Drained, TypeOK
  <2>2. /\ \A d \in Callers : d \in NormalCallers =>
             OwnQueue(d) = jobsNormal /\ OwnQueue(d)' = RestOf(jobsNormal)
        /\ \A d \in Callers : d \notin NormalCallers => OwnQueue(d)' = OwnQueue(d)
    BY <2>1, QueueAssumption DEF OwnQueue, Callers
  <2>3. Alive' /\ Ahead' = Ahead
    BY <1>0, <2>1, <2>2, TakeKeepsOrder
  <2> DEFINE k == Len(BatchOf(jobsNormal))
             S == {c \in NormalCallers : \E p \in QueuedFor(c) : p <= k}
  <2>4. ASSUME NEW d \in Callers
        PROVE  /\ HeldFor(d) = {} /\ QueuedFor(d) \subseteq Nat /\ k \in Nat
               /\ d \in NormalCallers => HeldFor(d)' = {p \in QueuedFor(d) : p <= k}
    BY <1>0, <2>1, <2>2, TakePlaces
  <2>5. Admitted = {} /\ Admitted' = S
    BY <2>4 DEF Admitted, Callers
  <2>6. ASSUME NEW c \in S PROVE Service!Waiting(c) /\ Ahead[c] \subseteq S
    <3>1. c \in NormalCallers /\ c \in Callers /\ Peers(c) = NormalCallers
      BY QueueAssumption DEF Callers, Peers
    <3>2. PICK r \in QueuedFor(c) : r <= k
      OBVIOUS
    <3>3. Pending(c) /\ \A p \in QueuedFor(c) : p = r
      BY <1>0, <3>1, <3>2 DEF PromiseInv, OnePromise
    <3>4. ASSUME NEW d \in NormalCallers, Before(d, c) PROVE d \in S
      <4>1. d \in Callers
        BY DEF Callers
      <4>2. PICK p \in QueuedFor(d) : p < r
        BY <2>4, <3>1, <3>3, <3>4, <4>1 DEF Before
      <4>3. p \in Nat /\ r \in Nat /\ k \in Nat
        BY <2>4, <3>1, <4>1
      <4>4. p <= k
        BY <3>2, <4>2, <4>3
      <4> QED
        BY <4>4
    <3>5. Ahead[c] \subseteq S
      BY <3>1, <3>4 DEF Ahead
    <3> QED
      BY <3>1, <3>3, <3>5, WaitingIs
  <2>7. ASSUME NEW c \in HighCallers PROVE ~Service!Waiting(c)
    <3>1. c \in Callers /\ OwnQueue(c) = <<>>
      BY <2>1 DEF Callers, OwnQueue
    <3>2. QueuedFor(c) = {} /\ HeldFor(c) = {}
      BY <2>4, <3>1 DEF QueuedFor
    <3>3. ~Pending(c)
      BY <1>0, <3>1, <3>2 DEF PromiseInv, OnePromise
    <3> QED
      BY <3>1, <3>3, WaitingIs
  <2>8. Cardinality(S) <= MaxBatchTexts
    <3>1. k \in Nat /\ k <= MaxBatchTexts /\ MaxBatchTexts \in Nat
      BY <2>1, BatchFacts, QueueAssumption
    <3> DEFINE f == [c \in S |-> CHOOSE p \in QueuedFor(c) : p <= k]
    <3>2. ASSUME NEW c \in S
          PROVE  f[c] \in 1..k /\ jobsNormal[f[c]].for = c
      <4>1. c \in Callers /\ OwnQueue(c) = jobsNormal
        BY <2>2 DEF Callers
      <4>2. f[c] \in QueuedFor(c) /\ f[c] <= k
        OBVIOUS
      <4>3. f[c] \in DOMAIN jobsNormal /\ jobsNormal[f[c]].for = c
        BY <4>1, <4>2 DEF QueuedFor
      <4>4. DOMAIN jobsNormal = 1..Len(jobsNormal) /\ Len(jobsNormal) \in Nat
        BY <2>1
      <4> HIDE DEF f
      <4> QED
        BY <3>1, <4>2, <4>3, <4>4
    <3>3. f = [c \in S |-> f[c]]
      OBVIOUS
    <3> HIDE DEF f, k, S
    <3>4. f \in Injection(S, 1..k)
      BY <3>2, <3>3 DEF Injection, IsInjective
    <3>5. IsFiniteSet(1..k) /\ Cardinality(1..k) = IF 1 > k THEN 0 ELSE k - 1 + 1
      BY <3>1, FS_Interval
    <3>6. Cardinality(1..k) = k
      BY <3>1, <3>5
    <3>7. IsFiniteSet(S) /\ Cardinality(S) <= Cardinality(1..k)
      BY <3>4, <3>5, FS_Injection
    <3>8. Cardinality(S) \in Nat
      BY <3>7, FS_CardinalityType
    <3> QED
      BY <3>1, <3>6, <3>7, <3>8
  <2>9. S \in SUBSET NormalCallers
    OBVIOUS
  <2> HIDE DEF S, k
  <2>10. \E T \in SUBSET NormalCallers : T = S
    BY <2>9
  <2>11. PICK T \in SUBSET NormalCallers : T = S
    BY <2>10
  <2>12. Service!Admit(T)
    <3>1. Service!Cardinality(T) = Cardinality(T)
      BY DEF Service!Cardinality, Cardinality, Service!IsFiniteSet, IsFiniteSet
    <3> QED
      BY <1>1, <2>3, <2>5, <2>6, <2>7, <2>8, <2>11, <3>1 DEF Service!Admit
  <2> QED
    BY <2>3, <2>12
<1> QED
  BY <1>2, <1>3

LEMMA StepServes ==
    ASSUME ServiceInv, [Next]_vars
    PROVE  [Service!Next]_<<Calls, Ahead, Admitted, ~Alive>>
<1>0. TypeOK /\ PromiseInv
  BY DEF ServiceInv
<1>1. ASSUME Alive, Alive',
             \/ \E c \in Callers : \/ Service!Answer(c) \/ Service!GiveUp(c) \/ Service!Return(c)
                                   \/ \E t \in Texts : Service!Ask(c, t)
             \/ \E S \in SUBSET NormalCallers : Service!Admit(S)
             \/ UNCHANGED <<Calls, Ahead, Admitted>>
      PROVE  [Service!Next]_<<Calls, Ahead, Admitted, ~Alive>>
  <2>1. (~Alive)' = ~Alive /\ ~~Alive
    BY <1>1
  <2>2. CASE UNCHANGED <<Calls, Ahead, Admitted>>
    BY <2>1, <2>2
  <2>3. CASE ~UNCHANGED <<Calls, Ahead, Admitted>>
    <3>1. Service!Serve
      BY <1>1, <2>3 DEF Service!Serve, Service!Callers, Callers
    <3> QED
      BY <2>1, <3>1 DEF Service!Next
  <2> QED
    BY <2>2, <2>3
\* Steps that move the worker or a caller, not the promises.
<1>2. ASSUME Alive, Alive', Calls' = Calls, worker'.jobs = worker.jobs, Held' = Held,
             UNCHANGED <<jobsHigh, jobsNormal>>
      PROVE  [Service!Next]_<<Calls, Ahead, Admitted, ~Alive>>
  <2>1. \A d \in Callers : QueuedFor(d)' = QueuedFor(d) /\ HeldFor(d)' = HeldFor(d)
    BY <1>2 DEF QueuedFor, OwnQueue, HeldFor
  <2>2. Ahead' = Ahead /\ Admitted' = Admitted
    BY <1>2, <2>1, SameLines
  <2> QED
    BY <1>1, <1>2, <2>2
<1>3. CASE UNCHANGED vars
  <2>1. UNCHANGED <<Calls, Ahead, Admitted, ~Alive>>
    BY <1>3 DEF vars, Calls, Ahead, Admitted, Alive, Before, QueuedFor, OwnQueue, HeldFor, Held, Busy
  <2> QED
    BY <2>1
<1>4. CASE Alive /\ \E c \in Callers : \/ Return(c) \/ TimeOut(c) \/ \E t \in Texts : Call(c, t)
  BY <1>1, <1>4, ReturnIsReturn, TimeOutIsGiveUp, CallIsAsk
<1>5. CASE Alive /\ WorkerTake
  BY <1>1, <1>5, TakeIsAdmit
<1>6. CASE EncodeSingle \/ Answer
  <2>1. /\ Busy /\ worker.next \in DOMAIN worker.jobs /\ worker.jobs \in Seq(Jobs(Callers))
        /\ UNCHANGED <<jobsHigh, jobsNormal>> /\ Alive
    BY <1>0, <1>6 DEF EncodeSingle, Answer, Busy, TypeOK, Alive
  <2>2. PICK v \in {worker.jobs[worker.next].text, NoVector} : Fulfil(v)
    <3>1. CASE EncodeSingle
      BY <3>1 DEF EncodeSingle, Found
    <3>2. CASE Answer
      <4>1. Batched(worker.jobs, worker.next) \subseteq {worker.jobs[worker.next].text}
        BY <2>1, BatchedIsOwn
      <4> QED
        BY <3>2, <4>1 DEF Answer
    <3> QED
      BY <1>6, <3>1, <3>2
  <2> QED
    BY <1>1, <2>1, <2>2, FulfilIsAnswer
<1>7. CASE Alive /\ EncodeTooLong
  <2>1. /\ worker' = [worker EXCEPT !.at = "aborted"]
        /\ UNCHANGED <<jobsHigh, jobsNormal, caller>>
    BY <1>7 DEF EncodeTooLong
  <2>2. ~Alive' /\ ~Busy'
    BY <1>0, <2>1 DEF Alive, Busy, TypeOK
  <2>3. Calls' = Calls /\ Ahead' = [c \in Callers |-> {}] /\ Admitted' = {}
    BY <2>1, <2>2 DEF Calls, Ahead, Admitted, HeldFor, Held
  <2>4. (~Alive)' = TRUE /\ ~~Alive
    BY <1>7, <2>2
  <2>5. Service!End
    BY <2>3, <2>4 DEF Service!End, Service!Callers, Callers
  <2> QED
    BY <2>4, <2>5 DEF Service!Next
<1>8. CASE Alive /\ \E c \in Callers : Notify(c)
  <2>1. PICK c \in Callers : Notify(c)
    BY <1>8
  <2>2. \/ worker' = worker
        \/ worker.at = "blocked" /\ worker' = [worker EXCEPT !.at = "lock"]
    BY <2>1 DEF Notify, Woken
  <2>3. worker'.jobs = worker.jobs /\ worker'.next = worker.next /\ (Busy' <=> Busy) /\ Alive'
    BY <1>0, <1>8, <2>2 DEF TypeOK, Busy, Alive
  <2>4. Held' = Held
    BY <2>3 DEF Held
  <2>5. Calls' = Calls
    BY <1>0, <2>1 DEF Notify, Calls, TypeOK
  <2> QED
    BY <1>2, <1>8, <2>1, <2>3, <2>4, <2>5 DEF Notify
<1>9. CASE Alive /\ (WorkerLeave \/ WorkerTest \/ WorkerBlock \/ WakeUnasked)
  <2>1. \E a \in {"gone", "tested", "blocked", "lock"} : worker' = [worker EXCEPT !.at = a]
    BY <1>9 DEF WorkerLeave, WorkerTest, WorkerBlock, WakeUnasked
  <2>2. ~Busy /\ UNCHANGED <<jobsHigh, jobsNormal, caller>>
    BY <1>9 DEF WorkerLeave, WorkerTest, WorkerBlock, WakeUnasked, Busy
  <2>3. ~Busy' /\ worker'.jobs = worker.jobs /\ Alive'
    BY <1>0, <2>1 DEF Busy, TypeOK, Alive
  <2>4. Held' = Held
    BY <2>2, <2>3 DEF Held
  <2>5. Calls' = Calls
    BY <2>2 DEF Calls
  <2> QED
    BY <1>2, <1>9, <2>2, <2>3, <2>4, <2>5
<1>10. CASE Alive /\ Decode
  <2>1. PICK ok \in BOOLEAN : worker' = [worker EXCEPT !.at = "answer", !.ok = ok]
    BY <1>10 DEF Decode
  <2>2. Busy /\ UNCHANGED <<jobsHigh, jobsNormal, caller>>
    BY <1>10 DEF Decode, Busy
  <2>3. Busy' /\ worker'.jobs = worker.jobs /\ worker'.next = worker.next /\ Alive'
    BY <1>0, <2>1 DEF Busy, TypeOK, Alive
  <2>4. Held' = Held
    BY <2>2, <2>3 DEF Held
  <2>5. Calls' = Calls
    BY <2>2 DEF Calls
  <2> QED
    BY <1>2, <1>10, <2>2, <2>3, <2>4, <2>5
<1>11. CASE Alive /\ (SetStop \/ Join)
  <2>1. UNCHANGED <<jobsHigh, jobsNormal, caller, worker>>
    BY <1>11 DEF SetStop, Join
  <2>2. Alive' /\ Held' = Held /\ Calls' = Calls
    BY <1>11, <2>1 DEF Alive, Held, Busy, Calls
  <2> QED
    BY <1>2, <1>11, <2>1, <2>2
<1>12. CASE Alive /\ NotifyStop
  <2>1. \/ worker' = worker
        \/ worker.at = "blocked" /\ worker' = [worker EXCEPT !.at = "lock"]
    BY <1>12 DEF NotifyStop, Woken
  <2>2. worker'.jobs = worker.jobs /\ worker'.next = worker.next /\ (Busy' <=> Busy) /\ Alive'
    BY <1>0, <1>12, <2>1 DEF TypeOK, Busy, Alive
  <2>3. Held' = Held /\ UNCHANGED <<jobsHigh, jobsNormal, caller>>
    BY <1>12, <2>2 DEF Held, NotifyStop
  <2>4. Calls' = Calls
    BY <2>3 DEF Calls
  <2> QED
    BY <1>2, <1>12, <2>2, <2>3, <2>4
<1> QED
  BY <1>3, <1>4, <1>5, <1>6, <1>7, <1>8, <1>9, <1>10, <1>11, <1>12
     DEF Next, WorkerStep, Stopping, NotifyStep

(* The worker serves its callers: each priority in the order of the calls,
   and of the saves at most one batch before a waiting search, whatever fallbacks
   and time-outs happen on the way. *)
THEOREM WorkerIsService == Spec => IsService
<1>1. Init => ServiceInv
  <2>1. Init => AskedInv
    BY DEF Init, AskedInv, Idle
  <2> QED
    BY <2>1, InitPromises DEF ServiceInv
<1>2. Spec => []ServiceInv
  BY <1>1, NextServiceInv, PTL DEF Spec
<1>3. ServiceInv /\ [Next]_vars => [Service!Next]_<<Calls, Ahead, Admitted, ~Alive>>
  BY StepServes
<1> QED
  BY <1>2, <1>3, StartsEmpty, PTL DEF Spec, IsService, Service!Spec, Service!serviceVars

=============================================================================
