------------------------------ MODULE Shutdown ------------------------------
(***************************************************************************)
(* The life of the process: main() builds the store, the embedding worker  *)
(* and the proxy, serves until a signal stops it, and takes everything     *)
(* down again in the opposite order.                                       *)
(*                                                                         *)
(* Four kinds of threads meet: main, the HTTP server's pool, the saver and *)
(* the fact worker.  A signal handler runs on top of any of them and keeps *)
(* it from going on.  Turns and fact jobs are counted, not named: what is  *)
(* done with each is module SavePipeline's matter.                         *)
(*                                                                         *)
(* Places that matter are held by name: a thread at "logs" is inside log() *)
(* and holds its mutex, a thread at "tested" has found its wait's          *)
(* predicate false and holds the queue's mutex until it sleeps.            *)
(***************************************************************************)
EXTENDS Naturals

CONSTANTS
    Pool,          \* threads of the HTTP server
    SaveCap,       \* capacity of save_queue_, 100 in the code
    FactCap,       \* fact_queue_size
    MaxTurns, MaxSignals   \* bounds of the model

ASSUME ShutdownAssumption ==
    /\ Pool \cap {"main", "saver", "worker"} = {}
    /\ {SaveCap, FactCap} \subseteq Nat \ {0}
    /\ {MaxTurns, MaxSignals} \subseteq Nat

VARIABLES
    main, pool, saver, worker,   \* where each thread stands
    handler,       \* how far a signal handler on top of each thread is
    socketOpen,    \* svr_sock_ # INVALID_SOCKET
    saveQueue, factQueue,        \* lengths of the two queues
    ok,            \* what run() will return
    turns, signals,              \* environment
    owed,          \* history: unsaved turns when stop_ was set
    early,         \* history: the fact worker was told while not yet asleep
    crashed        \* a destroyed object was used, with that outcome

threads == <<main, pool, saver, worker>>
queues == <<saveQueue, factQueue>>
vars == <<threads, handler, socketOpen, queues, ok, turns, signals, owed, early, crashed>>

Threads == Pool \cup {"main", "saver", "worker"}

(* Server built, pointer published, bound; then stopped, cleared, left; then
   ~MemoryProxy's steps; then the other two objects. *)
Serving == {"registered", "logs", "serving", "draining", "returned"}
TakingDown == {"stopSet", "saverNotified", "workerNotified", "saverJoined"}
After == {"proxyGone", "embedderGone", "exited"}
MainAt == {"starting", "built", "cleared", "left"} \cup Serving \cup TakingDown \cup After
WaiterAt == {"absent", "runs", "tested", "asleep", "busy", "queued", "logs", "gone"}
PoolAt == {"idle", "request", "logs", "answered", "pushed"}
HandlerAt == {"none", "entered", "logged", "loaded"}

TypeOK ==
    /\ main \in MainAt /\ pool \in [Pool -> PoolAt]
    /\ saver \in WaiterAt /\ worker \in WaiterAt
    /\ handler \in [Threads -> HandlerAt]
    /\ socketOpen \in BOOLEAN /\ ok \in BOOLEAN /\ crashed \in BOOLEAN
    /\ saveQueue \in 0..SaveCap /\ factQueue \in 0..FactCap
    /\ turns \in 0..MaxTurns /\ signals \in 0..MaxSignals
    /\ owed \in Nat /\ early \in BOOLEAN

Init ==
    /\ main = "starting" /\ pool = [p \in Pool |-> "idle"]
    /\ saver = "absent" /\ worker = "absent"
    /\ handler = [t \in Threads |-> "none"]
    /\ socketOpen = FALSE /\ saveQueue = 0 /\ factQueue = 0 /\ ok = TRUE
    /\ turns = 0 /\ signals = 0 /\ owed = 0
    /\ early = FALSE /\ crashed = FALSE

PointerSet == main \in Serving                    \* svr_ptr_
ServerAlive == main \in Serving \cup {"cleared"}  \* run()'s local svr
IsRunning == main \in {"serving", "draining"}     \* Server::is_running_
stop_ == main \in TakingDown \cup After
LogFree ==
    /\ "logs" \notin {main, saver, worker}
    /\ \A p \in Pool : pool[p] # "logs"
Runs(t) == handler[t] = "none" /\ ~crashed

-----------------------------------------------------------------------------
(* main *)

MainGoes(from, to) ==
    /\ Runs("main") /\ main = from /\ main' = to
    /\ UNCHANGED <<pool, handler, turns, signals, crashed>>

Untouched == UNCHANGED <<saver, worker, socketOpen, queues, ok, owed, early>>

(* The embedding model did not load: main returns 1. *)
NoModel ==
    /\ MainGoes("starting", "embedderGone") /\ ok' = FALSE
    /\ UNCHANGED <<saver, worker, socketOpen, queues, owed, early>>

(* The proxy's constructor starts both threads (with --extract-facts); then
   the signal handlers are installed. *)
Build ==
    /\ MainGoes("starting", "built")
    /\ saver' = "runs" /\ worker' = "runs"
    /\ UNCHANGED <<socketOpen, queues, ok, owed, early>>

Register == MainGoes("built", "registered") /\ Untouched

MainLogs == LogFree /\ MainGoes("registered", "logs") /\ Untouched

(* listen: bind, then is_running_. *)
Listen ==
    /\ MainGoes("logs", "serving") /\ socketOpen' = TRUE
    /\ UNCHANGED <<saver, worker, queues, ok, owed, early>>

CannotBind ==
    /\ MainGoes("logs", "returned") /\ ok' = FALSE
    /\ UNCHANGED <<saver, worker, socketOpen, queues, owed, early>>

(* The accept loop ends once the socket is closed; the pool's shutdown joins
   its threads, so requests in progress are finished first. *)
Drain == ~socketOpen /\ MainGoes("serving", "draining") /\ Untouched

PoolJoined ==
    /\ \A p \in Pool : pool[p] = "idle"
    /\ MainGoes("draining", "returned") /\ Untouched

Clear == MainGoes("returned", "cleared") /\ Untouched

Leave == (ok \/ LogFree) /\ MainGoes("cleared", "left") /\ Untouched

(* ~MemoryProxy: neither the flag nor the notifications take a mutex. *)
SetStop ==
    /\ MainGoes("left", "stopSet")
    /\ owed' = saveQueue + (IF saver = "busy" THEN 1 ELSE 0)
    /\ UNCHANGED <<saver, worker, socketOpen, queues, ok, early>>

Woken(waiter) == IF waiter = "asleep" THEN "runs" ELSE waiter

NotifySaver ==
    /\ MainGoes("stopSet", "saverNotified") /\ saver' = Woken(saver)
    /\ UNCHANGED <<worker, socketOpen, queues, ok, owed, early>>

(* Mutant: only save_cv_ is notified. *)
NotifyWorkerNot == MainGoes("saverNotified", "workerNotified") /\ Untouched

NotifyWorker ==
    /\ MainGoes("saverNotified", "workerNotified") /\ worker' = Woken(worker)
    /\ early' = (worker = "tested")
    /\ UNCHANGED <<saver, socketOpen, queues, ok, owed>>

JoinSaver ==
    saver = "gone" /\ MainGoes("workerNotified", "saverJoined") /\ Untouched

(* Mutant: the fact worker is detached. *)
JoinWorkerNot == MainGoes("saverJoined", "proxyGone") /\ Untouched

JoinWorker ==
    worker = "gone" /\ MainGoes("saverJoined", "proxyGone") /\ Untouched

EndEmbedder == MainGoes("proxyGone", "embedderGone") /\ Untouched
EndStore == MainGoes("embedderGone", "exited") /\ Untouched

-----------------------------------------------------------------------------
(* A request, from the pool's side.  Its logging stands for all of it. *)

PoolGoes(p, from, to) ==
    /\ Runs(p) /\ pool[p] = from /\ pool' = [pool EXCEPT ![p] = to]
    /\ UNCHANGED <<main, worker, handler, socketOpen, factQueue, ok, signals,
                   owed, early, crashed>>

Accept(p) ==
    /\ main = "serving" /\ socketOpen /\ turns < MaxTurns
    /\ PoolGoes(p, "idle", "request") /\ turns' = turns + 1
    /\ UNCHANGED <<saver, saveQueue>>

PoolLogs(p) ==
    /\ LogFree /\ PoolGoes(p, "request", "logs")
    /\ UNCHANGED <<saver, saveQueue, turns>>

Answered(p) ==
    /\ PoolGoes(p, "logs", "answered") /\ UNCHANGED <<saver, saveQueue, turns>>

(* Nothing to remember: an error, no user text, or an empty answer. *)
Forget(p) ==
    /\ \E at \in {"request", "answered"} : PoolGoes(p, at, "idle")
    /\ UNCHANGED <<saver, saveQueue, turns>>

(* enqueue_save: under save_mutex_, a full queue loses its oldest job. *)
PushTurn(p) ==
    /\ saver # "tested"
    /\ PoolGoes(p, "answered", "pushed")
    /\ saveQueue' = IF saveQueue >= SaveCap THEN saveQueue ELSE saveQueue + 1
    /\ UNCHANGED <<saver, turns>>

NotifyTurn(p) ==
    /\ PoolGoes(p, "pushed", "idle") /\ saver' = Woken(saver)
    /\ UNCHANGED <<saveQueue, turns>>

-----------------------------------------------------------------------------
(* saver_loop *)

SaverGoes(from, to) ==
    /\ Runs("saver") /\ saver = from /\ saver' = to
    /\ UNCHANGED <<main, pool, handler, socketOpen, ok, turns, signals, owed,
                   early, crashed>>

SaverTake ==
    /\ saveQueue > 0 /\ SaverGoes("runs", "busy") /\ saveQueue' = saveQueue - 1
    /\ UNCHANGED <<worker, factQueue>>

(* Mutant: stop_ alone sends the saver home. *)
SaverLeaveAtOnce ==
    stop_ /\ SaverGoes("runs", "gone") /\ UNCHANGED <<worker, queues>>

SaverLeave ==
    /\ stop_ /\ saveQueue = 0
    /\ SaverGoes("runs", "gone") /\ UNCHANGED <<worker, queues>>

SaverTest ==
    /\ ~stop_ /\ saveQueue = 0
    /\ SaverGoes("runs", "tested") /\ UNCHANGED <<worker, queues>>

SaverSleep == SaverGoes("tested", "asleep") /\ UNCHANGED <<worker, queues>>

(* Thirty seconds; housekeeping follows. *)
SaverTimeOut == SaverGoes("asleep", "runs") /\ UNCHANGED <<worker, queues>>

(* No embedding: the turn is lost. *)
SaverLose == SaverGoes("busy", "runs") /\ UNCHANGED <<worker, queues>>

(* enqueue_fact_extraction: under fact_mutex_, a full queue refuses. *)
SaverPushFact ==
    /\ worker \notin {"tested", "logs"} /\ factQueue < FactCap
    /\ SaverGoes("busy", "queued") /\ factQueue' = factQueue + 1
    /\ UNCHANGED <<worker, saveQueue>>

SaverNotifyFact ==
    /\ LogFree /\ SaverGoes("queued", "logs") /\ worker' = Woken(worker)
    /\ UNCHANGED queues

(* No model name, or the queue is full. *)
SaverNoFact ==
    LogFree /\ SaverGoes("busy", "logs") /\ UNCHANGED <<worker, queues>>

SaverLogged == SaverGoes("logs", "runs") /\ UNCHANGED <<worker, queues>>

-----------------------------------------------------------------------------
(* fact_loop *)

WorkerGoes(from, to) ==
    /\ Runs("worker") /\ worker = from /\ worker' = to
    /\ UNCHANGED <<main, pool, saver, handler, socketOpen, saveQueue, ok, turns,
                   signals, owed, early, crashed>>

WorkerTake ==
    /\ ~stop_ /\ factQueue > 0
    /\ WorkerGoes("runs", "busy") /\ factQueue' = factQueue - 1

(* A backend call and the insertion of its facts, whatever becomes of them. *)
WorkerDone == WorkerGoes("busy", "runs") /\ UNCHANGED factQueue

WorkerTest ==
    /\ ~stop_ /\ factQueue = 0
    /\ WorkerGoes("runs", "tested") /\ UNCHANGED factQueue

WorkerSleep == WorkerGoes("tested", "asleep") /\ UNCHANGED factQueue

(* Stopped: what is queued is dropped, and the log says how many, still under
   fact_mutex_. *)
WorkerDrop ==
    /\ stop_ /\ factQueue > 0 /\ LogFree
    /\ WorkerGoes("runs", "logs") /\ factQueue' = 0

WorkerLogged == WorkerGoes("logs", "gone") /\ UNCHANGED factQueue

(* Mutant: the worker just leaves. *)
WorkerLeaveKeeping ==
    stop_ /\ WorkerGoes("runs", "gone") /\ UNCHANGED factQueue

WorkerLeave ==
    /\ stop_ /\ factQueue = 0
    /\ WorkerGoes("runs", "gone") /\ UNCHANGED factQueue

WakeUnasked == WorkerGoes("asleep", "runs") /\ UNCHANGED factQueue

-----------------------------------------------------------------------------
(* Signals *)

Alive(t) ==
    CASE t = "main" -> main \notin {"starting", "exited"}
      [] t = "saver" -> saver \notin {"absent", "gone"}
      [] t = "worker" -> worker \notin {"absent", "gone"}
      [] OTHER -> pool[t] # "idle"

HandlerGoes(t, from, to) ==
    /\ ~crashed /\ handler[t] = from /\ handler' = [handler EXCEPT ![t] = to]
    /\ UNCHANGED <<threads, queues, ok, turns, owed, early>>

(* The handlers are installed once the proxy and its threads are there. *)
Signal(t) ==
    /\ saver # "absent" /\ main # "exited" /\ Alive(t) /\ signals < MaxSignals
    /\ HandlerGoes(t, "none", "entered") /\ signals' = signals + 1
    /\ UNCHANGED <<socketOpen, crashed>>

(* log()'s mutex is not recursive. *)
HandlerLogs(t) ==
    /\ LogFree /\ HandlerGoes(t, "entered", "logged")
    /\ UNCHANGED <<socketOpen, signals, crashed>>

(* MemoryProxy::stop: the pointer to the server is read, from a proxy that may be
   no more, for nothing clears g_proxy: then nothing or anything may happen; *)
HandlerLoads(t) ==
    /\ HandlerGoes(t, "logged", IF PointerSet THEN "loaded" ELSE "none")
    /\ crashed' \in (IF main \in After THEN BOOLEAN ELSE {FALSE})
    /\ UNCHANGED <<socketOpen, signals>>

(* and then used, on a server that listens, one that does not, or one that is
   no more, with the same outcome. *)
HandlerStops(t) ==
    /\ HandlerGoes(t, "loaded", "none")
    /\ socketOpen' = (socketOpen /\ ~IsRunning)
    /\ crashed' \in (IF ServerAlive THEN {FALSE} ELSE BOOLEAN)
    /\ UNCHANGED signals

-----------------------------------------------------------------------------
MainStep ==
    \/ NoModel \/ Build \/ Register \/ MainLogs \/ Listen \/ CannotBind
    \/ Drain \/ PoolJoined \/ Clear \/ Leave
    \/ SetStop \/ NotifySaver \/ NotifyWorker \/ JoinSaver \/ JoinWorker
    \/ EndEmbedder \/ EndStore

PoolStep(p) ==
    PoolLogs(p) \/ Answered(p) \/ Forget(p) \/ PushTurn(p) \/ NotifyTurn(p)

SaverStep ==
    \/ SaverTake \/ SaverLeave \/ SaverTest \/ SaverSleep \/ SaverTimeOut
    \/ SaverLose \/ SaverPushFact \/ SaverNotifyFact \/ SaverNoFact
    \/ SaverLogged

WorkerStep ==
    \/ WorkerTake \/ WorkerDone \/ WorkerTest \/ WorkerSleep
    \/ WorkerDrop \/ WorkerLogged \/ WorkerLeave

HandlerStep(t) == HandlerLogs(t) \/ HandlerLoads(t) \/ HandlerStops(t)

Next ==
    \/ MainStep \/ SaverStep \/ WorkerStep \/ WakeUnasked
    \/ \E p \in Pool : Accept(p) \/ PoolStep(p)
    \/ \E t \in Threads : Signal(t) \/ HandlerStep(t)

Spec == Init /\ [][Next]_vars

(* Every thread is scheduled, backend calls and embeddings time out, and so
   does the saver's wait; nothing makes requests, signals or spurious
   wake-ups come. *)
FairSpec ==
    /\ Spec
    /\ WF_vars(MainStep) /\ WF_vars(SaverStep) /\ WF_vars(WorkerStep)
    /\ \A p \in Pool : WF_vars(PoolStep(p))
    /\ \A t \in Threads : WF_vars(HandlerStep(t))

-----------------------------------------------------------------------------
(* Every turn a handler accepted before the server stopped is taken by the
   saver before it leaves: stop_ is set only when no handler can push any
   more, and the saver looks at its queue before it looks at stop_. *)
AcceptedTurnsTaken ==
    saver = "gone" => /\ saveQueue = 0
                      /\ \A p \in Pool : pool[p] = "idle"

(* Store, embedding worker and proxy outlive the threads that use them. *)
UsersGoneFirst ==
    main \in After => /\ saver \in {"absent", "gone"} /\ worker \in {"absent", "gone"}
                      /\ \A p \in Pool : pool[p] = "idle"

(* The fact worker says how many jobs it drops, but the saver may queue more
   when the worker has left.  Those stay unsaid; they are of turns that were
   not saved yet when the stop came, and no others. *)
SilentFactsAreLate == worker = "gone" => factQueue <= owed

(* fact_loop waits without a time-out: if stop_ is set and notified between
   its test and its wait, it sleeps on. *)
WakeUpMissed == early /\ main = "saverJoined" /\ worker = "asleep"

(* The signal came to a thread inside log(), whose mutex the handler wants. *)
LogsTwice ==
    \/ \E t \in Pool : handler[t] = "entered" /\ pool[t] = "logs"
    \/ handler["main"] = "entered" /\ main = "logs"
    \/ handler["saver"] = "entered" /\ saver = "logs"
    \/ handler["worker"] = "entered" /\ worker = "logs"

(* Once a stop has found the server listening the process ends, for whatever
   moment it came at and whatever the threads were doing; only a missed
   wake-up or a handler that waits for its own thread's log keeps it. *)
ShutdownEnds ==
    (main = "serving" /\ ~socketOpen)
        ~> (main = "exited" \/ crashed \/ []WakeUpMissed \/ []LogsTwice)
=============================================================================
