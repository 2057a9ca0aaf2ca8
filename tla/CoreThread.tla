------------------------------ MODULE CoreThread ------------------------------
(***************************************************************************)
(* The life of one CoreThread: CoreRunnable (start, stop, wait),           *)
(* BasicThread (the operating system thread, its state block, its cleanup) *)
(* and CoreThread (the run loop over a dispatch queue), the files of these *)
(* names under src/src/autowiring.                                         *)
(*                                                                         *)
(* Clients call the public operations; Worker is the operating system      *)
(* thread that OnStart creates.  Each critical section is one step, except *)
(* where a lock is held over something another thread can notice: m_lock   *)
(* over OnStart, the state lock between a predicate and the block,         *)
(* m_threadLock over the construction of the thread, m_stoppingLock over   *)
(* Rundown.  The operations of DispatchQueue are atomic here; the module   *)
(* DispatchQueue has their interleavings.                                  *)
(***************************************************************************)
EXTENDS Naturals, Sequences, FiniteSets, Functions

CONSTANTS
    Clients,      \* threads that call the public operations
    Worker,       \* the thread that OnStart creates
    NoThread,     \* a lock that nobody holds
    Thunks,       \* dispatchers pended by the clients
    AbortLambda,  \* the dispatcher a graceful OnStop pends
    Priorities,   \* the levels of ThreadPriority, lowest first
    NoPriority,   \* the priority was set while somebody had it elevated
    Programs,     \* the programs around the thread: what each client may call and pend
    Outcomes      \* the ways a dispatcher may end

OpNames == { "Start", "Stop", "SignalShutdown", "Wait", "WaitFor", "ThreadSleep",
             "WaitForStateUpdate", "PerformStatusUpdate", "Abort",
             "ElevatePriority", "SetThreadPriority" }

\* A dispatcher returns, throws dispatch_aborted_exception ("abort"), throws
\* anything else ("throw"), or calls Stop on its own thread and returns ("stop").
OutcomeNames == { "return", "throw", "abort", "stop" }

Threads == Clients \cup {Worker}
Jobs    == Thunks \cup {AbortLambda}

ASSUME ConstantsAssumption ==
    /\ Worker \notin Clients
    /\ NoThread \notin Threads
    /\ AbortLambda \notin Thunks
    /\ Priorities \subseteq Nat /\ 0 \in Priorities /\ NoPriority \notin Priorities
    /\ Programs \subseteq [Clients -> SUBSET (OpNames \cup Thunks)]
    /\ Outcomes \subseteq OutcomeNames

VARIABLES
    \* CoreRunnable
    m_wasStarted, m_shouldStop, m_outstanding,
    m_lock,             \* who holds m_lock across steps
    cvAsleep,           \* threads blocked on m_cv and not yet notified
    \* BasicThread and its state block
    started,            \* BasicThread::m_wasStarted
    m_completed,
    stateLock,          \* who holds m_state->m_lock across steps
    stAsleep,           \* threads blocked on m_stateCondition and not yet notified
    flag,               \* what the fn of WaitForStateUpdate tests
    m_thisThread,       \* "none", "joinable" or "detached"
    threadLock,         \* who holds m_threadLock across steps
    m_threadPriority,
    osPriority,         \* the priority the operating system was told
    oldPriority,        \* per client: m_oldPriority of its ElevatePriority
    \* CoreThread
    stoppingLock,       \* who holds m_stoppingLock across steps
    m_onStopCompleted,
    \* DispatchQueue
    queue, aborted,
    held,               \* the list Rundown took
    fate,               \* fate[k]: what became of dispatcher k
    \* The worker's reference on its context, and the context
    refTracker,
    context,            \* "alive", "down" (IsShutdown) or "expired"
    calls,              \* the program: what each client may call or pend, which never changes
    \* Per thread: program point, where Stop was called from, its argument
    pc, ret, graceful,
    \* History
    onStops,            \* calls of OnStop(graceful)
    promised,           \* dispatchers queued when a graceful OnStop began
    baseline,           \* the priority set while nobody had it elevated, if any
    harsh               \* an Abort, a stop that is not graceful or a throw happened

runnableVars == << m_wasStarted, m_shouldStop, m_outstanding, m_lock, cvAsleep >>
stateVars    == << started, m_completed, stateLock, stAsleep, flag >>
threadVars   == << m_thisThread, threadLock, m_threadPriority, osPriority, oldPriority,
                   baseline >>
stopVars     == << stoppingLock, m_onStopCompleted >>
queueVars    == << queue, aborted, held, fate >>
contextVars  == << refTracker, context, calls >>
localVars    == << ret, graceful >>
historyVars  == << onStops, promised, harsh >>
vars == << runnableVars, stateVars, threadVars, stopVars, queueVars, contextVars,
           pc, localVars, historyVars >>

StopPCs   == { "onstop", "quiesce", "stopping", "release" }
WaitPCs   == { "wait", "waitfor", "join", "joinfor", "sleep", "state", "stblock" }
ClientPCs == { "idle", "onstart", "spawn", "spawned", "signal", "waited", "elevated" }
WorkerPCs == { "none", "dorun", "run", "event", "dispatch", "cleanup", "rundown",
               "teardown", "detach", "untrack", "complete", "finished", "caught" }

\* Which lock is held across steps where: only a Start that failed, which needs
\* an expired context, calls OnStop with m_lock held.
LocksHeld ==
    /\ m_lock # NoThread
         => \/ pc[m_lock] \in {"onstart", "spawn", "spawned"}
            \/ pc[m_lock] \in StopPCs /\ context = "expired"
    /\ stateLock # NoThread => pc[stateLock] = "stblock"
    /\ threadLock # NoThread => pc[threadLock] \in {"spawn", "spawned"}
    /\ stoppingLock # NoThread
         => stoppingLock = Worker /\ pc[Worker] \in {"rundown", "caught"} \cup StopPCs

TypeOK ==
    /\ {m_wasStarted, m_shouldStop, m_outstanding, started, m_completed, flag,
        m_onStopCompleted, aborted, refTracker, harsh} \subseteq BOOLEAN
    /\ {m_lock, stateLock, threadLock, stoppingLock} \subseteq Threads \cup {NoThread}
    /\ cvAsleep \subseteq Clients /\ stAsleep \subseteq Clients
    /\ m_thisThread \in {"none", "joinable", "detached"}
    /\ {m_threadPriority, osPriority} \subseteq Priorities
    /\ oldPriority \in [Clients -> Priorities]
    /\ baseline \in Priorities \cup {NoPriority}
    /\ queue \in Seq(Jobs) /\ held \in Seq(Jobs)
    /\ fate \in [Thunks -> {"new", "queued", "done", "dropped", "refused"}]
    /\ context \in {"alive", "down", "expired"}
    /\ calls \in Programs
    /\ pc \in [Threads -> StopPCs \cup WaitPCs \cup ClientPCs \cup WorkerPCs]
    /\ ret \in [Threads -> {"idle", "run", "rundown", "cleanup", "detach"}]
    /\ graceful \in [Threads -> BOOLEAN]
    /\ onStops \in Nat /\ promised \subseteq Thunks
    /\ LocksHeld

Init ==
    /\ m_wasStarted = FALSE /\ m_shouldStop = FALSE /\ m_outstanding = FALSE
    /\ m_lock = NoThread /\ cvAsleep = {}
    /\ started = FALSE /\ m_completed = FALSE /\ flag = FALSE
    /\ stateLock = NoThread /\ stAsleep = {}
    /\ m_thisThread = "none" /\ threadLock = NoThread
    /\ m_threadPriority = 0 /\ osPriority = 0 /\ baseline = 0
    /\ oldPriority = [t \in Clients |-> 0]
    /\ stoppingLock = NoThread /\ m_onStopCompleted = FALSE
    /\ queue = << >> /\ held = << >> /\ aborted = FALSE
    /\ fate = [k \in Thunks |-> "new"]
    /\ refTracker = FALSE
    /\ calls \in Programs
    /\ context \in {"alive", "expired"}   \* m_context.lock() may give nothing
    /\ pc = [t \in Threads |-> IF t = Worker THEN "none" ELSE "idle"]
    /\ ret = [t \in Threads |-> "idle"]
    /\ graceful = [t \in Threads |-> FALSE]
    /\ onStops = 0 /\ promised = {} /\ harsh = FALSE

-----------------------------------------------------------------------------
At(t, l)   == pc[t] = l
Goto(t, l) == pc' = [pc EXCEPT ![t] = l]

\* Client t, which is idle, calls operation o (or pends the thunk o) and goes on at l.
Call(t, o, l) == At(t, "idle") /\ o \in calls[t] /\ Goto(t, l)

NotifyCv    == cvAsleep' = {}   \* m_cv.notify_all
NotifyState == stAsleep' = {}   \* m_stateCondition.notify_all

\* DispatchQueue::Abort: what is on the list is destroyed.
Dropped(s) == [k \in Thunks |-> IF k \in Range(s) THEN "dropped" ELSE fate[k]]
AbortQueue == aborted' = TRUE /\ queue' = << >> /\ fate' = Dropped(queue)

-----------------------------------------------------------------------------
(* CoreRunnable::Start and BasicThread::OnStart *)

\* The first call keeps m_lock until OnStart has returned.
Start(t) ==
    /\ m_lock = NoThread
    /\ \/ /\ m_wasStarted \/ m_outstanding \/ m_shouldStop
          /\ Call(t, "Start", "idle")
          /\ UNCHANGED runnableVars
       \/ /\ ~(m_wasStarted \/ m_outstanding \/ m_shouldStop)
          /\ Call(t, "Start", "onstart")
          /\ m_wasStarted' = TRUE
          /\ m_outstanding' = TRUE
          /\ m_lock' = t
          /\ UNCHANGED << m_shouldStop, cvAsleep >>
    /\ UNCHANGED << stateVars, threadVars, stopVars, queueVars, contextVars,
                    localVars, historyVars >>

\* OnStart: without a context it returns false, and Start calls OnStop(false)
\* with m_lock held.  With one it takes m_threadLock to construct the thread.
OnStart(t) ==
    /\ At(t, "onstart")
    /\ \/ /\ context = "expired"
          /\ m_shouldStop' = TRUE
          /\ m_outstanding' = FALSE
          /\ Goto(t, "onstop")
          /\ ret' = [ret EXCEPT ![t] = "idle"]
          /\ graceful' = [graceful EXCEPT ![t] = FALSE]
          /\ UNCHANGED << started, threadLock >>
       \/ /\ context # "expired"
          /\ threadLock = NoThread
          /\ threadLock' = t
          /\ started' = TRUE
          /\ Goto(t, "spawn")
          /\ UNCHANGED << m_shouldStop, m_outstanding, localVars >>
    /\ UNCHANGED << m_wasStarted, m_lock, cvAsleep, m_completed, stateLock, stAsleep,
                    flag, m_thisThread, m_threadPriority, osPriority, oldPriority,
                    baseline, stopVars, queueVars, contextVars, historyVars >>

\* The constructor of std::thread: the worker runs from here on.
Spawn(t) ==
    /\ At(t, "spawn")
    /\ refTracker' = TRUE
    /\ pc' = [pc EXCEPT ![t] = "spawned", ![Worker] = "dorun"]
    /\ UNCHANGED << runnableVars, stateVars, threadVars, stopVars, queueVars,
                    context, calls, localVars, historyVars >>

\* The constructor returns and both locks are released.
Spawned(t) ==
    /\ At(t, "spawned")
    /\ m_thisThread' = "joinable"
    /\ threadLock' = NoThread
    /\ m_lock' = NoThread
    /\ NotifyCv
    /\ Goto(t, "idle")
    /\ UNCHANGED << m_wasStarted, m_shouldStop, m_outstanding, stateVars,
                    m_threadPriority, osPriority, oldPriority, baseline, stopVars,
                    queueVars, contextVars, localVars, historyVars >>

-----------------------------------------------------------------------------
(* CoreRunnable::Stop and the chain of OnStop handlers *)

\* Mutant: every caller invokes OnStop.
EnterStopAlways(t, g, l) ==
    /\ m_lock = NoThread
    /\ m_shouldStop' = TRUE
    /\ Goto(t, "onstop")
    /\ ret' = [ret EXCEPT ![t] = l]
    /\ graceful' = [graceful EXCEPT ![t] = g]
    /\ UNCHANGED << m_wasStarted, m_outstanding, m_lock, cvAsleep >>

\* Stop(g) by t, which is to go on at l: only the first caller invokes OnStop.
EnterStop(t, g, l) ==
    /\ m_lock = NoThread
    /\ IF m_shouldStop
         THEN /\ Goto(t, l)
              /\ m_outstanding' = FALSE
              /\ NotifyCv
              /\ UNCHANGED << m_shouldStop, localVars >>
         ELSE /\ m_shouldStop' = TRUE
              /\ Goto(t, "onstop")
              /\ ret' = [ret EXCEPT ![t] = l]
              /\ graceful' = [graceful EXCEPT ![t] = g]
              /\ UNCHANGED << m_outstanding, cvAsleep >>
    /\ UNCHANGED << m_wasStarted, m_lock >>

Stop(t) ==
    /\ At(t, "idle") /\ "Stop" \in calls[t]
    /\ \E g \in BOOLEAN : EnterStop(t, g, "idle")
    /\ UNCHANGED << stateVars, threadVars, stopVars, queueVars, contextVars, historyVars >>

\* CoreContext::SignalShutdown, as far as this thread is concerned.
SignalShutdown(t) ==
    /\ context # "expired"
    /\ Call(t, "SignalShutdown", IF context = "down" THEN "idle" ELSE "signal")
    /\ context' = "down"
    /\ UNCHANGED << runnableVars, stateVars, threadVars, stopVars, queueVars, refTracker, calls,
                    localVars, historyVars >>

StopSignalled(t) ==
    /\ At(t, "signal")
    /\ \E g \in BOOLEAN : EnterStop(t, g, "idle")
    /\ UNCHANGED << stateVars, threadVars, stopVars, queueVars, contextVars, historyVars >>

\* Mutant: OnStop notifies without taking the state lock.
StateLockIgnored == TRUE

\* BasicThread::OnStop: who was never started is completed.  The state lock is
\* taken before the notification, so that nobody is between predicate and block.
StateLockIsFree == stateLock = NoThread

BasicOnStop(t) ==
    /\ At(t, "onstop")
    /\ StateLockIsFree
    /\ m_completed' = (m_completed \/ ~started)
    /\ NotifyState
    /\ onStops' = onStops + 1
    /\ Goto(t, "quiesce")
    /\ UNCHANGED << runnableVars, started, stateLock, flag, threadVars, stopVars,
                    queueVars, contextVars, localVars, promised, harsh >>

\* Mutant: a graceful stop aborts.
GracefulStopAborts ==
    AbortQueue /\ promised' = Range(queue) \cap Thunks /\ UNCHANGED harsh

\* CoreThread::OnStop: a graceful stop pends its lambda behind what is queued.
GracefulStop ==
    /\ queue' = Append(queue, AbortLambda)
    /\ promised' = Range(queue) \cap Thunks
    /\ UNCHANGED << aborted, fate, harsh >>

HardStop == AbortQueue /\ harsh' = TRUE /\ UNCHANGED promised

Quiesce(t) ==
    /\ At(t, "quiesce")
    /\ IF graceful[t] THEN GracefulStop ELSE HardStop
    /\ Goto(t, "stopping")
    /\ UNCHANGED << runnableVars, stateVars, threadVars, stopVars, held, contextVars,
                    localVars, onStops >>

OnStopCompleted(t) ==
    /\ At(t, "stopping")
    /\ stoppingLock = NoThread
    /\ m_onStopCompleted' = TRUE
    /\ Goto(t, "release")
    /\ UNCHANGED << runnableVars, stateVars, threadVars, stoppingLock, queueVars,
                    contextVars, localVars, historyVars >>

\* Back in Stop, which lets m_outstanding go, or in Start, which leaves m_lock.
Release(t) ==
    /\ At(t, "release")
    /\ m_lock \in {NoThread, t}
    /\ m_lock' = NoThread
    /\ m_outstanding' = FALSE
    /\ NotifyCv
    /\ Goto(t, ret[t])
    /\ UNCHANGED << m_wasStarted, m_shouldStop, stateVars, threadVars, stopVars,
                    queueVars, contextVars, localVars, historyVars >>

-----------------------------------------------------------------------------
(* CoreRunnable::Wait, WaitFor, ThreadSleep; BasicThread::DoAdditionalWait and
   WaitForStateUpdate.  A thread in cvAsleep or stAsleep waits for a
   notification; the timed calls may also wake by themselves. *)

IsStopped == m_shouldStop /\ ~m_outstanding

\* The predicate p of a wait on m_cv by t at l: true, it goes on at next.
WaitOnCv(t, l, p, next) ==
    /\ At(t, l)
    /\ t \notin cvAsleep
    /\ m_lock = NoThread
    /\ IF p THEN Goto(t, next) /\ UNCHANGED cvAsleep
            ELSE cvAsleep' = cvAsleep \cup {t} /\ UNCHANGED pc
    /\ UNCHANGED << m_wasStarted, m_shouldStop, m_outstanding, m_lock, stateVars,
                    threadVars, stopVars, queueVars, contextVars, localVars, historyVars >>

EnterWait(t) ==
    /\ \/ Call(t, "Wait", "wait")
       \/ Call(t, "WaitFor", "waitfor")
       \/ Call(t, "ThreadSleep", "sleep")
       \/ Call(t, "WaitForStateUpdate", "state")
    /\ UNCHANGED << runnableVars, stateVars, threadVars, stopVars, queueVars,
                    contextVars, localVars, historyVars >>

Wait(t)        == WaitOnCv(t, "wait", IsStopped, "join")
WaitFor(t)     == WaitOnCv(t, "waitfor", IsStopped, "joinfor")
ThreadSleep(t) == WaitOnCv(t, "sleep", m_shouldStop, "idle")

\* A timed wait runs out: it evaluates its predicate once more and returns it.
CvTimeout(t) ==
    /\ At(t, "waitfor") \/ At(t, "sleep")
    /\ m_lock = NoThread
    /\ t \in cvAsleep
    /\ cvAsleep' = cvAsleep \ {t}
    /\ Goto(t, IF At(t, "waitfor") /\ IsStopped THEN "joinfor" ELSE "idle")
    /\ UNCHANGED << m_wasStarted, m_shouldStop, m_outstanding, m_lock, stateVars,
                    threadVars, stopVars, queueVars, contextVars, localVars, historyVars >>

\* Mutant: Wait does not wait for m_completed.
MayJoinAtOnce == TRUE

\* DoAdditionalWait, with and without a timeout.
MayJoin == m_completed

DoAdditionalWait(t) ==
    /\ At(t, "join") \/ At(t, "joinfor")
    /\ t \notin stAsleep
    /\ stateLock = NoThread
    /\ IF MayJoin THEN Goto(t, "waited") /\ UNCHANGED stAsleep
                  ELSE stAsleep' = stAsleep \cup {t} /\ UNCHANGED pc
    /\ UNCHANGED << runnableVars, started, m_completed, stateLock, flag, threadVars,
                    stopVars, queueVars, contextVars, localVars, historyVars >>

JoinTimeout(t) ==
    /\ At(t, "joinfor")
    /\ t \in stAsleep
    /\ stateLock = NoThread
    /\ stAsleep' = stAsleep \ {t}
    /\ Goto(t, IF MayJoin THEN "waited" ELSE "idle")
    /\ UNCHANGED << runnableVars, started, m_completed, stateLock, flag, threadVars,
                    stopVars, queueVars, contextVars, localVars, historyVars >>

\* Wait, or WaitFor with the result true, returns.
Waited(t) ==
    /\ At(t, "waited")
    /\ Goto(t, "idle")
    /\ UNCHANGED << runnableVars, stateVars, threadVars, stopVars, queueVars,
                    contextVars, localVars, historyVars >>

\* WaitForStateUpdate: the predicate is evaluated with the state lock held, and
\* the lock is kept until the thread has blocked.
WaitForStateUpdate(t) ==
    /\ At(t, "state")
    /\ t \notin stAsleep
    /\ stateLock = NoThread
    /\ IF flag \/ m_shouldStop
         THEN Goto(t, "idle") /\ UNCHANGED stateLock
         ELSE Goto(t, "stblock") /\ stateLock' = t
    /\ UNCHANGED << runnableVars, started, m_completed, stAsleep, flag, threadVars,
                    stopVars, queueVars, contextVars, localVars, historyVars >>

StateBlock(t) ==
    /\ At(t, "stblock")
    /\ stateLock' = NoThread
    /\ stAsleep' = stAsleep \cup {t}
    /\ Goto(t, "state")
    /\ UNCHANGED << runnableVars, started, m_completed, flag, threadVars, stopVars,
                    queueVars, contextVars, localVars, historyVars >>

PerformStatusUpdate(t) ==
    /\ Call(t, "PerformStatusUpdate", "idle")
    /\ stateLock = NoThread
    /\ flag' = TRUE
    /\ NotifyState
    /\ UNCHANGED << runnableVars, started, m_completed, stateLock, threadVars, stopVars,
                    queueVars, contextVars, localVars, historyVars >>

-----------------------------------------------------------------------------
(* The dispatch queue and the priority, as clients use them *)

\* DispatchQueue::operator+=: refused once the queue is aborted (its cap is 0).
Pend(t) ==
    /\ \E k \in Thunks :
         /\ Call(t, k, "idle")
         /\ fate[k] = "new"
         /\ fate' = [fate EXCEPT ![k] = IF aborted THEN "refused" ELSE "queued"]
         /\ queue' = IF aborted THEN queue ELSE Append(queue, k)
    /\ UNCHANGED << runnableVars, stateVars, threadVars, stopVars, aborted, held,
                    contextVars, localVars, historyVars >>

Abort(t) ==
    /\ Call(t, "Abort", "idle")
    /\ AbortQueue
    /\ harsh' = TRUE
    /\ UNCHANGED << runnableVars, stateVars, threadVars, stopVars, held, contextVars,
                    localVars, onStops, promised >>

\* UpdateThreadPriority: nothing is told to a thread that is not there.
Applied(p) == IF m_thisThread = "joinable" THEN p ELSE osPriority

Elevated == { t \in Clients : pc[t] = "elevated" }

SetThreadPriority(t) ==
    /\ Call(t, "SetThreadPriority", "idle")
    /\ threadLock = NoThread
    /\ \E p \in Priorities :
         /\ m_threadPriority' = p
         /\ osPriority' = Applied(p)
         /\ baseline' = IF Elevated = {} THEN p ELSE NoPriority
    /\ UNCHANGED << runnableVars, stateVars, m_thisThread, threadLock, oldPriority,
                    stopVars, queueVars, contextVars, localVars, historyVars >>

\* ElevatePriority: constructed, it raises the priority and keeps the old one;
\* destroyed, it goes back to the old one if that is lower.
Elevate(t) ==
    /\ Call(t, "ElevatePriority", "elevated")
    /\ threadLock = NoThread
    /\ oldPriority' = [oldPriority EXCEPT ![t] = m_threadPriority]
    /\ \E p \in Priorities :
         IF p < m_threadPriority
           THEN UNCHANGED << m_threadPriority, osPriority >>
           ELSE m_threadPriority' = p /\ osPriority' = Applied(p)
    /\ UNCHANGED << runnableVars, stateVars, m_thisThread, threadLock, baseline, stopVars,
                    queueVars, contextVars, localVars, historyVars >>

\* Mutant: the old priority is restored even if it is the higher one.
DeelevatedToAny(p) == p

DeelevatedTo(p) == IF p >= m_threadPriority THEN m_threadPriority ELSE p

Deelevate(t) ==
    /\ At(t, "elevated")
    /\ threadLock = NoThread
    /\ Goto(t, "idle")
    /\ LET p == DeelevatedTo(oldPriority[t])
       IN /\ m_threadPriority' = p
          /\ osPriority' = IF p = m_threadPriority THEN osPriority ELSE Applied(p)
          /\ baseline' = IF Elevated = {t} /\ baseline = NoPriority THEN p ELSE baseline
    /\ oldPriority' = [oldPriority EXCEPT ![t] = 0]
    /\ UNCHANGED << runnableVars, stateVars, m_thisThread, threadLock, stopVars,
                    queueVars, contextVars, localVars, historyVars >>

-----------------------------------------------------------------------------
(* The worker *)

W == Worker

\* DoRun tells the system the priority, which may have been set before, once the
\* thread's constructor has released m_threadLock.
ThreadIsConstructed == threadLock = NoThread

DoRun ==
    /\ At(W, "dorun")
    /\ ThreadIsConstructed
    /\ osPriority' = Applied(m_threadPriority)
    /\ Goto(W, "run")
    /\ UNCHANGED << runnableVars, stateVars, m_thisThread, threadLock, m_threadPriority,
                    oldPriority, baseline, stopVars, queueVars, contextVars, localVars,
                    historyVars >>

\* CoreThread::Run.
Run ==
    /\ At(W, "run")
    /\ Goto(W, IF m_shouldStop THEN "cleanup" ELSE "event")
    /\ UNCHANGED << runnableVars, stateVars, threadVars, stopVars, queueVars,
                    contextVars, localVars, historyVars >>

\* WaitForEvent throws on an aborted queue, or takes the first dispatcher.
WaitForEvent ==
    /\ At(W, "event")
    /\ \/ /\ aborted
          /\ Goto(W, "cleanup")
          /\ UNCHANGED << queue, held >>
       \/ /\ ~aborted /\ queue # << >>
          /\ held' = << Head(queue) >>
          /\ queue' = Tail(queue)
          /\ Goto(W, "dispatch")
    /\ UNCHANGED << runnableVars, stateVars, threadVars, stopVars, aborted, fate,
                    contextVars, localVars, historyVars >>

Finished(k) == [fate EXCEPT ![k] = "done"]

\* The lambda of a graceful OnStop aborts the queue and notifies.
RunAbortLambda ==
    /\ held # << >> /\ Head(held) = AbortLambda
    /\ \/ At(W, "dispatch") /\ Goto(W, "run")
       \/ At(W, "rundown") /\ UNCHANGED pc
    /\ AbortQueue
    /\ held' = Tail(held)
    /\ NotifyState
    /\ UNCHANGED << runnableVars, started, m_completed, stateLock, flag, threadVars,
                    stopVars, contextVars, localVars, historyVars >>

\* A dispatcher of the run loop.  An exception ends Run; one that is not
\* dispatch_aborted_exception makes DoRun shut the context down, which stops
\* this thread, gracefully, unless the context was shut down before.
Dispatch ==
    /\ At(W, "dispatch") /\ Head(held) # AbortLambda
    /\ held' = << >>
    /\ fate' = Finished(Head(held))
    /\ \E o \in Outcomes, g \in BOOLEAN :
         \/ /\ o \in {"return", "abort"} \/ (o = "throw" /\ context = "down")
            /\ Goto(W, IF o = "return" THEN "run" ELSE "cleanup")
            /\ UNCHANGED << runnableVars, context, localVars >>
         \/ /\ o = "throw" /\ context # "down"
            /\ EnterStop(W, TRUE, "cleanup")
            /\ context' = "down"
         \/ /\ o = "stop"
            /\ EnterStop(W, g, "run")
            /\ UNCHANGED context
    /\ UNCHANGED << stateVars, threadVars, stopVars, queue, aborted, refTracker, calls,
                    historyVars >>

\* CoreThread::DoRunLoopCleanup: a thread that is being stopped waits for its
\* OnStop; then Rundown takes the list, with m_stoppingLock held.
CleanupMayStart == m_shouldStop => m_onStopCompleted

DoRunLoopCleanup ==
    /\ At(W, "cleanup")
    /\ stoppingLock = NoThread
    /\ CleanupMayStart
    /\ stoppingLock' = W
    /\ aborted' = TRUE
    /\ held' = queue
    /\ queue' = << >>
    /\ Goto(W, "rundown")
    /\ UNCHANGED << runnableVars, stateVars, threadVars, m_onStopCompleted, fate,
                    contextVars, localVars, historyVars >>

\* Rundown runs the next dispatcher; after an exception it destroys the rest.
Rundown ==
    /\ At(W, "rundown") /\ held # << >> /\ Head(held) # AbortLambda
    /\ \E o \in Outcomes \ {"abort"}, g \in BOOLEAN :
         /\ fate' = IF o = "throw" THEN Dropped(held) ELSE Finished(Head(held))
         /\ held' = IF o = "throw" THEN << >> ELSE Tail(held)
         /\ harsh' = (harsh \/ o = "throw")
         /\ IF o = "stop" THEN EnterStop(W, g, "rundown")
                          ELSE UNCHANGED << runnableVars, pc, localVars >>
    /\ UNCHANGED << stateVars, threadVars, stopVars, queue, aborted, contextVars,
                    onStops, promised >>

\* dispatch_aborted_exception is caught with the dispatcher still at the head of the
\* list: the loop calls the same one again.
RundownCatches ==
    /\ At(W, "rundown") /\ held # << >> /\ Head(held) # AbortLambda
    /\ "abort" \in Outcomes
    /\ Goto(W, "caught")
    /\ UNCHANGED << runnableVars, stateVars, threadVars, stopVars, queueVars,
                    contextVars, localVars, historyVars >>

RundownRetries ==
    /\ At(W, "caught")
    /\ Goto(W, "rundown")
    /\ UNCHANGED << runnableVars, stateVars, threadVars, stopVars, queueVars,
                    contextVars, localVars, historyVars >>

RundownEnds ==
    /\ At(W, "rundown") /\ held = << >>
    /\ stoppingLock' = NoThread
    /\ Goto(W, "teardown")
    /\ UNCHANGED << runnableVars, stateVars, threadVars, m_onStopCompleted, queueVars,
                    contextVars, localVars, historyVars >>

\* BasicThread::DoRunLoopCleanup: Stop(false), detach, release the context, and
\* only then report completion.
StopSelf ==
    /\ At(W, "teardown")
    /\ EnterStop(W, FALSE, "detach")
    /\ UNCHANGED << stateVars, threadVars, stopVars, queueVars, contextVars, historyVars >>

Detach ==
    /\ At(W, "detach")
    /\ m_thisThread' = "detached"
    /\ Goto(W, "untrack")
    /\ UNCHANGED << runnableVars, stateVars, threadLock, m_threadPriority, osPriority,
                    oldPriority, baseline, stopVars, queueVars, contextVars, localVars,
                    historyVars >>

Untrack ==
    /\ At(W, "untrack")
    /\ refTracker' = FALSE
    /\ Goto(W, "complete")
    /\ UNCHANGED << runnableVars, stateVars, threadVars, stopVars, queueVars, context, calls,
                    localVars, historyVars >>

Complete ==
    /\ At(W, "complete")
    /\ stateLock = NoThread
    /\ m_completed' = TRUE
    /\ NotifyState
    /\ Goto(W, "finished")
    /\ UNCHANGED << runnableVars, started, stateLock, flag, threadVars, stopVars,
                    queueVars, contextVars, localVars, historyVars >>

-----------------------------------------------------------------------------
Request(t) ==
    \/ Start(t) \/ Stop(t) \/ SignalShutdown(t) \/ EnterWait(t)
    \/ PerformStatusUpdate(t) \/ Pend(t) \/ Abort(t)
    \/ SetThreadPriority(t) \/ Elevate(t)

\* Steps of Stop, by whoever called it.
Stopping(t) == BasicOnStop(t) \/ Quiesce(t) \/ OnStopCompleted(t) \/ Release(t)

Continue(t) ==
    \/ OnStart(t) \/ Spawn(t) \/ Spawned(t) \/ StopSignalled(t)
    \/ Wait(t) \/ WaitFor(t) \/ ThreadSleep(t) \/ CvTimeout(t)
    \/ DoAdditionalWait(t) \/ JoinTimeout(t) \/ Waited(t)
    \/ WaitForStateUpdate(t) \/ StateBlock(t) \/ Deelevate(t)

WorkerStep ==
    \/ DoRun \/ Run \/ WaitForEvent \/ RunAbortLambda \/ Dispatch
    \/ DoRunLoopCleanup \/ Rundown \/ RundownCatches \/ RundownRetries \/ RundownEnds
    \/ StopSelf \/ Detach \/ Untrack \/ Complete

Next ==
    \/ \E t \in Clients : Request(t) \/ Continue(t)
    \/ \E t \in Threads : Stopping(t)
    \/ WorkerStep

Spec == Init /\ [][Next]_vars

(* Fairness.  The scheduler runs every thread inside a call, a mutex that is
   free again and again is acquired, dispatchers end.  Nobody has to call an
   operation. *)
Fairness ==
    /\ \A t \in Clients : SF_vars(Continue(t) \/ Stopping(t))
    /\ SF_vars(WorkerStep \/ Stopping(Worker))

FairSpec == Spec /\ Fairness

-----------------------------------------------------------------------------
(* Safety *)

\* OnStop(graceful) "will be called at most once": concurrent calls of Stop, the
\* Stop of the cleanup and a Start that fails never invoke it twice.
OnStopOnce == onStops <= 1

\* When Wait has returned, or WaitFor with true, the thread is past its last use
\* of the object and of its context, and no reference is outstanding.
WaitMeansDone ==
    \A t \in Clients :
        pc[t] = "waited" => /\ m_shouldStop /\ ~m_outstanding /\ ~refTracker
                            /\ pc[Worker] \in {"none", "finished"}

\* While the thread runs, the system has been told the priority the object has,
\* also if it was set before the thread was there; and once every ElevatePriority
\* is gone the priority is the one before them, in whatever order they went.
PrioritySound ==
    /\ m_thisThread = "joinable" /\ pc[Worker] \notin {"none", "dorun"}
         => osPriority = m_threadPriority
    /\ Elevated = {} => m_threadPriority = baseline

(* Liveness *)

\* No dispatcher that Rundown runs throws dispatch_aborted_exception for ever.
Relents == <>[](pc[Worker] # "caught")

\* A dispatcher that Rundown runs is the first to call Stop: it waits for
\* m_stoppingLock, which its own thread holds.
StopsItself == pc[Worker] = "stopping" /\ stoppingLock = Worker

\* Once the thread is asked to stop, a call of Wait and, between predicate and block,
\* of WaitForStateUpdate returns, and a client's Stop returns, although it waits for
\* the cleanup of the thread and the cleanup waits for it; if no dispatcher throws
\* dispatch_aborted_exception for ever and none stops its own thread in Rundown.
CallsReturn ==
    Relents => \A t \in Clients :
        /\ m_shouldStop /\ pc[t] \in WaitPCs ~> pc[t] \notin WaitPCs \/ StopsItself
        /\ pc[t] \in StopPCs ~> pc[t] \notin StopPCs

\* "For graceful shutdown, the class completes the current job queue": what was queued
\* when a graceful stop began is run, also behind a dispatcher that throws
\* dispatch_aborted_exception in the cleanup, unless it throws it for ever; or something
\* harsh happens, or the thread was never started.
GracefulRunsAll ==
    Relents => \A k \in Thunks : k \in promised ~> fate[k] = "done" \/ harsh \/ ~started
=============================================================================
