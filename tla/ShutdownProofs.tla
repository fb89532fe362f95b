--------------------------- MODULE ShutdownProofs ---------------------------
(***************************************************************************)
(* Proofs about Shutdown, for any pool of request threads, capacities and  *)
(* signals: what the end of the process never loses and never outlives.    *)
(***************************************************************************)
EXTENDS Shutdown, TLAPS

Saving == IF saver = "busy" THEN 1 ELSE 0

\* Requests are handled only while the server serves; the two loops run from
\* the constructor on.
ServingInv ==
    /\ main \notin {"serving", "draining"} => \A p \in Pool : pool[p] = "idle"
    /\ main = "starting" => saver = "absent" /\ worker = "absent" /\ saveQueue = 0

\* Who has left, and what main waited for.
LeavingInv ==
    /\ saver = "gone" => stop_ /\ saveQueue = 0
    /\ worker \in {"logs", "gone"} => stop_
    /\ main = "saverJoined" => saver = "gone"
    /\ main \in After => saver \in {"absent", "gone"} /\ worker \in {"absent", "gone"}

\* From the stop on turns only become fewer, each is at most one fact job, and
\* while the worker logs what it drops nobody can push.
OwedInv ==
    /\ stop_ => saveQueue + Saving <= owed
    /\ worker = "logs" => factQueue = 0
    /\ worker = "gone" => factQueue + saveQueue + Saving <= owed

ShutdownInv == TypeOK /\ ServingInv /\ LeavingInv /\ OwedInv

-----------------------------------------------------------------------------
LEMMA ShutdownInvInit == Init => ShutdownInv
<1> SUFFICES ASSUME Init PROVE ShutdownInv
  OBVIOUS
<1>1. 0 \in 0..SaveCap /\ 0 \in 0..FactCap /\ 0 \in 0..MaxTurns /\ 0 \in 0..MaxSignals
  BY ShutdownAssumption DEF ShutdownAssumption
<1>2. TypeOK
  BY <1>1 DEF Init, TypeOK, MainAt, WaiterAt, PoolAt, HandlerAt
<1>3. ServingInv /\ LeavingInv
  BY DEF Init, ServingInv, LeavingInv, TakingDown, After, stop_
<1>4. OwedInv
  BY DEF Init, OwedInv, TakingDown, After, stop_
<1>5. QED
  BY <1>2, <1>3, <1>4 DEF ShutdownInv

\* main goes on its way; each of its steps is one place forward.
LEMMA MainKeeps == ShutdownInv /\ MainStep => ShutdownInv'
<1> SUFFICES ASSUME ShutdownInv, MainStep PROVE ShutdownInv'
  OBVIOUS
<1> USE ShutdownAssumption DEF ShutdownInv, TypeOK, ServingInv, LeavingInv, OwedInv, MainAt, WaiterAt,
            Serving, TakingDown, After, stop_, Saving, queues, MainGoes, Untouched
<1>1. CASE NoModel
  <2>1. /\ main' = "embedderGone" /\ saveQueue' = 0 /\ owed' \in Nat
        /\ saver' = "absent" /\ worker' = "absent"
    BY <1>1 DEF NoModel
  <2>2. TypeOK' /\ ServingInv'
    BY <1>1 DEF NoModel
  <2>3. LeavingInv' /\ OwedInv'
    BY <2>1
  <2>4. QED
    BY <2>2, <2>3
<1>2. CASE Build
  BY <1>2 DEF Build
<1>3. CASE Register
  BY <1>3 DEF Register
<1>4. CASE MainLogs
  BY <1>4 DEF MainLogs
<1>5. CASE Listen
  BY <1>5 DEF Listen
<1>6. CASE CannotBind
  BY <1>6 DEF CannotBind
<1>7. CASE Drain
  BY <1>7 DEF Drain
<1>8. CASE PoolJoined
  BY <1>8 DEF PoolJoined
<1>9. CASE Clear
  BY <1>9 DEF Clear
<1>10. CASE Leave
  BY <1>10 DEF Leave
<1>11. CASE SetStop
  BY <1>11 DEF SetStop
<1>12. CASE NotifySaver
  BY <1>12 DEF NotifySaver, Woken
<1>13. CASE NotifyWorker
  BY <1>13 DEF NotifyWorker, Woken
<1>14. CASE JoinSaver
  BY <1>14 DEF JoinSaver
<1>15. CASE JoinWorker
  BY <1>15 DEF JoinWorker
<1>16. CASE EndEmbedder
  BY <1>16 DEF EndEmbedder
<1>17. CASE EndStore
  BY <1>17 DEF EndStore
<1>18. QED
  BY <1>1, <1>2, <1>3, <1>4, <1>5, <1>6, <1>7, <1>8, <1>9, <1>10, <1>11, <1>12, <1>13, <1>14, <1>15, <1>16, <1>17 DEF MainStep

\* Requests: none is in progress when the saver may leave.
LEMMA PoolKeeps ==
    ASSUME ShutdownInv, NEW p \in Pool, Accept(p) \/ PoolStep(p)
    PROVE  ShutdownInv'
<1> USE ShutdownAssumption DEF ShutdownInv, TypeOK, ServingInv, LeavingInv, OwedInv, MainAt, WaiterAt,
            PoolAt, Serving, TakingDown, After, stop_, Saving, PoolGoes, IsRunning
<1>1. CASE Accept(p)
  BY <1>1, ShutdownAssumption DEF Accept
<1>2. CASE PoolLogs(p)
  BY <1>2, ShutdownAssumption DEF PoolLogs
<1>3. CASE Answered(p)
  BY <1>3, ShutdownAssumption DEF Answered
<1>4. CASE Forget(p)
  BY <1>4, ShutdownAssumption DEF Forget
<1>5. CASE PushTurn(p)
  BY <1>5, ShutdownAssumption DEF PushTurn
<1>6. CASE NotifyTurn(p)
  BY <1>6, ShutdownAssumption DEF NotifyTurn, Woken
<1>7. QED
  BY <1>1, <1>2, <1>3, <1>4, <1>5, <1>6 DEF PoolStep

\* The saver: a turn it takes is one fewer owed, or one fact job.
LEMMA SaverKeeps == ShutdownInv /\ (SaverStep) => ShutdownInv'
<1> SUFFICES ASSUME ShutdownInv, SaverStep PROVE ShutdownInv'
  OBVIOUS
<1> USE ShutdownAssumption DEF ShutdownInv, TypeOK, ServingInv, LeavingInv, OwedInv, MainAt, WaiterAt,
            Serving, TakingDown, After, stop_, Saving, queues, SaverGoes
<1>1. CASE SaverTake
  BY <1>1 DEF SaverTake
<1>2. CASE SaverLeave
  BY <1>2 DEF SaverLeave
<1>3. CASE SaverTest
  BY <1>3 DEF SaverTest
<1>4. CASE SaverSleep
  BY <1>4 DEF SaverSleep
<1>5. CASE SaverTimeOut
  BY <1>5 DEF SaverTimeOut
<1>6. CASE SaverLose
  BY <1>6 DEF SaverLose
<1>7. CASE SaverPushFact
  BY <1>7 DEF SaverPushFact
<1>8. CASE SaverNotifyFact
  BY <1>8 DEF SaverNotifyFact, Woken
<1>9. CASE SaverNoFact
  BY <1>9 DEF SaverNoFact
<1>10. CASE SaverLogged
  BY <1>10 DEF SaverLogged
<1>11. QED
  BY <1>1, <1>2, <1>3, <1>4, <1>5, <1>6, <1>7, <1>8, <1>9, <1>10 DEF SaverStep

\* The fact worker: it leaves with its queue empty.
LEMMA WorkerKeeps == ShutdownInv /\ (WorkerStep \/ WakeUnasked) => ShutdownInv'
<1> SUFFICES ASSUME ShutdownInv, WorkerStep \/ WakeUnasked PROVE ShutdownInv'
  OBVIOUS
<1> USE ShutdownAssumption DEF ShutdownInv, TypeOK, ServingInv, LeavingInv, OwedInv, MainAt, WaiterAt,
            Serving, TakingDown, After, stop_, Saving, WorkerGoes
<1>1. CASE WorkerTake
  BY <1>1 DEF WorkerTake
<1>2. CASE WorkerDone
  BY <1>2 DEF WorkerDone
<1>3. CASE WorkerTest
  BY <1>3 DEF WorkerTest
<1>4. CASE WorkerSleep
  BY <1>4 DEF WorkerSleep
<1>5. CASE WorkerDrop
  BY <1>5 DEF WorkerDrop
<1>6. CASE WorkerLogged
  BY <1>6 DEF WorkerLogged
<1>7. CASE WorkerLeave
  BY <1>7 DEF WorkerLeave
<1>8. CASE WakeUnasked
  BY <1>8 DEF WakeUnasked
<1>9. QED
  BY <1>1, <1>2, <1>3, <1>4, <1>5, <1>6, <1>7, <1>8 DEF WorkerStep

\* Signal handlers move no thread and touch no queue.
LEMMA HandlerKeeps ==
    ASSUME ShutdownInv, NEW t \in Threads, Signal(t) \/ HandlerStep(t)
    PROVE  ShutdownInv'
<1>1. /\ UNCHANGED <<threads, queues, ok, turns, owed, early>>
      /\ \E to \in HandlerAt : handler' = [handler EXCEPT ![t] = to]
  BY DEF Signal, HandlerStep, HandlerLogs, HandlerLoads, HandlerStops, HandlerGoes,
         HandlerAt
<1>2. socketOpen' \in BOOLEAN /\ crashed' \in BOOLEAN
  <2>1. CASE HandlerStops(t)
    <3>1. socketOpen' \in BOOLEAN
      BY <2>1, Zenon DEF HandlerStops
    <3>2. crashed' \in BOOLEAN
      BY <2>1, Zenon DEF HandlerStops
    <3>3. QED
      BY <3>1, <3>2
  <2>2. CASE HandlerLoads(t)
    <3>1. socketOpen' \in BOOLEAN
      BY <2>2, Zenon DEF HandlerLoads, ShutdownInv, TypeOK
    <3>2. crashed' \in BOOLEAN
      BY <2>2, Zenon DEF HandlerLoads
    <3>3. QED
      BY <3>1, <3>2
  <2>3. CASE Signal(t) \/ HandlerLogs(t)
    <3>1. socketOpen' = socketOpen /\ crashed' = crashed
      BY <2>3, SMT DEF Signal, HandlerLogs
    <3>2. socketOpen \in BOOLEAN /\ crashed \in BOOLEAN
      BY Zenon DEF ShutdownInv, TypeOK
    <3>3. QED
      BY <3>1, <3>2
  <2>4. QED
    BY <2>1, <2>2, <2>3 DEF HandlerStep
<1>3. signals' \in 0..MaxSignals
  <2>1. signals \in 0..MaxSignals /\ MaxSignals \in Nat
    BY ShutdownAssumption DEF ShutdownInv, TypeOK, ShutdownAssumption
  <2>2. signals' = signals \/ (signals' = signals + 1 /\ signals < MaxSignals)
    BY DEF Signal, HandlerStep, HandlerLogs, HandlerLoads, HandlerStops
  <2>3. QED
    BY <2>1, <2>2
<1>4. TypeOK'
  BY <1>1, <1>2, <1>3 DEF ShutdownInv, TypeOK, threads, queues
<1>5. QED
  BY <1>1, <1>4 DEF ShutdownInv, ServingInv, LeavingInv, OwedInv, stop_, Saving,
                    threads, queues

LEMMA ShutdownInvNext == ShutdownInv /\ [Next]_vars => ShutdownInv'
<1> SUFFICES ASSUME ShutdownInv, [Next]_vars PROVE ShutdownInv'
  OBVIOUS
<1>1. CASE MainStep
  BY <1>1, MainKeeps
<1>2. CASE SaverStep
  BY <1>2, SaverKeeps
<1>3. CASE WorkerStep \/ WakeUnasked
  BY <1>3, WorkerKeeps
<1>4. ASSUME NEW p \in Pool, Accept(p) \/ PoolStep(p) PROVE ShutdownInv'
  BY <1>4, PoolKeeps
<1>5. ASSUME NEW t \in Threads, Signal(t) \/ HandlerStep(t) PROVE ShutdownInv'
  BY <1>5, HandlerKeeps
<1>6. CASE UNCHANGED vars
  BY <1>6 DEF vars, threads, queues, ShutdownInv, TypeOK, ServingInv, LeavingInv,
              OwedInv, stop_, Saving
<1>7. QED
  BY <1>1, <1>2, <1>3, <1>4, <1>5, <1>6 DEF Next

LEMMA ShutdownInvEver == Spec => []ShutdownInv
  BY ShutdownInvInit, ShutdownInvNext, PTL DEF Spec

-----------------------------------------------------------------------------
(* Type correctness: every thread stands where the code has a place for it, and
   both queues keep to their capacities. *)
THEOREM ShutdownTypeCorrect == Spec => []TypeOK
<1>1. ShutdownInv => TypeOK
  BY DEF ShutdownInv
<1>2. QED
  BY <1>1, ShutdownInvEver, PTL

(* Whenever the saver has left, no accepted turn is on its queue and none can
   come any more. *)
THEOREM AcceptedTurnsTakenEver == Spec => []AcceptedTurnsTaken
<1>1. ShutdownInv => AcceptedTurnsTaken
  BY DEF ShutdownInv, TypeOK, ServingInv, LeavingInv, AcceptedTurnsTaken, stop_,
         TakingDown, After
<1>2. QED
  BY <1>1, ShutdownInvEver, PTL

(* No thread outlives the proxy, the embedding worker or the store. *)
THEOREM UsersGoneFirstEver == Spec => []UsersGoneFirst
<1>1. ShutdownInv => UsersGoneFirst
  BY DEF ShutdownInv, ServingInv, LeavingInv, UsersGoneFirst, After
<1>2. QED
  BY <1>1, ShutdownInvEver, PTL

(* Fact jobs that are dropped without a word are never more than the turns that
   were still unsaved when stop_ was set. *)
THEOREM SilentFactsAreLateEver == Spec => []SilentFactsAreLate
<1>1. ShutdownInv => SilentFactsAreLate
  BY DEF ShutdownInv, TypeOK, OwedInv, SilentFactsAreLate, Saving
<1>2. QED
  BY <1>1, ShutdownInvEver, PTL

=============================================================================
