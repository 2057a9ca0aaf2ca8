-------------------------- MODULE CoreThreadProofs --------------------------
(***************************************************************************)
(* Proofs about CoreThread, for any number of clients, dispatchers and     *)
(* priorities and any program around the thread: type correctness with the *)
(* lock discipline, that OnStop is invoked once, what a Wait that returned *)
(* can rely on, and that the priority is applied and restored.             *)
(***************************************************************************)
EXTENDS CoreThread, SequenceTheorems, TLAPS

StartPCs == { "onstart", "spawn", "spawned" }
Returns  == { "idle", "run", "rundown", "cleanup", "detach" }
Fates    == { "new", "queued", "done", "dropped", "refused" }

\* Who can be where.
Roles ==
    /\ \A t \in Clients : pc[t] \in ClientPCs \cup WaitPCs \cup StopPCs
    /\ pc[Worker] \in WorkerPCs \cup StopPCs

\* A start that is under way keeps m_lock, and with it everybody from stopping; the
\* worker is not there before it and cannot pass it.
Starting ==
    /\ \A t \in Clients : pc[t] \in StartPCs => m_lock = t /\ ~m_shouldStop
    /\ \A t \in Clients : pc[t] = "onstart" => ~started
    /\ \A t \in Clients : pc[t] \in {"spawn", "spawned"}
                          => threadLock = t /\ started /\ context # "expired"
    /\ \A t \in Clients : pc[t] = "spawn" => pc[Worker] = "none"
    /\ \A t \in Clients : pc[t] = "spawned" => pc[Worker] = "dorun"
    /\ started \/ (\E t \in Clients : pc[t] \in StartPCs) => m_wasStarted
    /\ pc[Worker] # "none" => started /\ context # "expired"

\* One thread is inside OnStop, ever, and m_shouldStop stays up from then on.
Stopped ==
    /\ \A t \in Threads : pc[t] \in StopPCs => m_shouldStop /\ (ret[t] = "idle" <=> t \in Clients)
    /\ \A t, u \in Threads : pc[t] \in StopPCs /\ pc[u] \in StopPCs => t = u
    /\ onStops # 0 => m_shouldStop /\ onStops = 1
    /\ \A t \in Threads : pc[t] = "onstop" => onStops = 0
    /\ stoppingLock = Worker /\ pc[Worker] \in StopPCs => ret[Worker] = "rundown"
    /\ pc[Worker] \in {"detach", "untrack", "complete", "finished"} => m_shouldStop

\* What a waiter has seen stays true; a completed thread is past its last use of the
\* object, or was never there and never will be.
Waiting ==
    /\ \A t \in Clients : pc[t] \in {"join", "joinfor", "waited"} => m_shouldStop /\ ~m_outstanding
    /\ \A t \in Clients : pc[t] = "waited" => m_completed
    /\ refTracker => pc[Worker] \notin {"none", "complete", "finished"}
    /\ m_completed => m_shouldStop /\ pc[Worker] \in {"none", "finished"}

\* The types that the control part needs.
ControlTyped ==
    /\ pc \in [Threads -> StopPCs \cup WaitPCs \cup ClientPCs \cup WorkerPCs]
    /\ ret \in [Threads -> Returns]
    /\ m_lock \in Threads \cup {NoThread} /\ stateLock \in Threads \cup {NoThread}
    /\ threadLock \in Threads \cup {NoThread} /\ stoppingLock \in Threads \cup {NoThread}
    /\ onStops \in Nat

Control == ControlTyped /\ LocksHeld /\ Roles /\ Starting /\ Stopped /\ Waiting

-----------------------------------------------------------------------------
(* Control: program points, locks, flags *)

LEMMA InitControl == Init => Control
  BY ConstantsAssumption
     DEF Init, Control, ControlTyped, LocksHeld, Roles, Starting, Stopped, Waiting, Returns,
         Threads, StopPCs, WaitPCs, ClientPCs, WorkerPCs, StartPCs

\* Stop, by a client or by the worker, keeps Control.
LEMMA EnterStopKeepsControl ==
  ASSUME Control, NEW t \in Threads, NEW g, NEW l \in Returns, EnterStop(t, g, l),
         l = "idle" <=> t \in Clients,
         t \in Clients => pc[t] \in {"idle", "signal"},
         t = Worker => /\ pc[Worker] \in {"dispatch", "rundown", "teardown"}
                       /\ pc[Worker] = "rundown" <=> l = "rundown",
         context' = context \/ (context # "expired" /\ context' = "down"),
         UNCHANGED << started, m_completed, stateLock, threadLock, stoppingLock, refTracker, onStops >>
  PROVE  Control'
  <1> USE ConstantsAssumption
      DEF Control, ControlTyped, LocksHeld, Roles, Starting, Stopped, Waiting, Returns, Threads,
          StopPCs, WaitPCs, ClientPCs, WorkerPCs, StartPCs, EnterStop, Goto, NotifyCv, localVars
  <1>1. ControlTyped' OBVIOUS
  <1>2. LocksHeld' OBVIOUS
  <1>3. Roles' OBVIOUS
  <1>4. Starting' OBVIOUS
  <1>5. Stopped' OBVIOUS
  <1>6. Waiting' OBVIOUS
  <1> QED BY <1>1, <1>2, <1>3, <1>4, <1>5, <1>6

LEMMA RequestKeepsControl ==
  ASSUME Control, NEW t \in Clients, Request(t)
  PROVE  Control'
  <1>1. CASE Stop(t)
    <2>1. PICK g \in BOOLEAN : EnterStop(t, g, "idle")
      BY <1>1 DEF Stop
    <2> QED BY <1>1, <2>1, EnterStopKeepsControl, ConstantsAssumption
            DEF Stop, At, Returns, Threads, stateVars, threadVars, stopVars, contextVars, historyVars
  <1>2. CASE ~Stop(t)
    <2> USE ConstantsAssumption
        DEF Control, ControlTyped, LocksHeld, Roles, Starting, Stopped, Waiting, Returns, Threads,
            StopPCs, WaitPCs, ClientPCs, WorkerPCs, StartPCs, At, Goto, Call, NotifyState,
            runnableVars, stateVars, threadVars, stopVars, contextVars, localVars, historyVars
    <2>1. CASE Start(t)               BY <2>1 DEF Start
    <2>2. CASE SignalShutdown(t)      BY <2>2 DEF SignalShutdown
    <2>3. CASE EnterWait(t)           BY <2>3 DEF EnterWait
    <2>4. CASE PerformStatusUpdate(t) BY <2>4 DEF PerformStatusUpdate
    <2>5. CASE Pend(t)                BY <2>5 DEF Pend
    <2>6. CASE Abort(t)               BY <2>6 DEF Abort
    <2>7. CASE SetThreadPriority(t)   BY <2>7 DEF SetThreadPriority
    <2>8. CASE Elevate(t)             BY <2>8 DEF Elevate
    <2> QED BY <1>2, <2>1, <2>2, <2>3, <2>4, <2>5, <2>6, <2>7, <2>8 DEF Request
  <1> QED BY <1>1, <1>2

\* The steps of Start after the first.
LEMMA OnStartKeepsControl ==
  ASSUME Control, NEW t \in Clients, OnStart(t) \/ Spawn(t) \/ Spawned(t)
  PROVE  Control'
  <1> USE ConstantsAssumption
      DEF Control, ControlTyped, LocksHeld, Roles, Starting, Stopped, Waiting, Returns, Threads,
          StopPCs, WaitPCs, ClientPCs, WorkerPCs, StartPCs, At, Goto, NotifyCv,
          runnableVars, stateVars, threadVars, stopVars, contextVars, localVars, historyVars
  <1>1. CASE OnStart(t)
    <2> USE <1>1 DEF OnStart
    <2>1. ControlTyped' OBVIOUS
    <2>2. LocksHeld' OBVIOUS
    <2>3. Roles' OBVIOUS
    <2>4. Starting'
      <3>1. \A u \in Clients \ {t} : pc[u] \notin StartPCs /\ pc'[u] = pc[u]
        OBVIOUS
      <3>2. pc[Worker] = "none" /\ pc'[Worker] = "none" /\ m_wasStarted
        OBVIOUS
      <3> QED BY <3>1, <3>2
    <2>5. Stopped' OBVIOUS
    <2>6. Waiting' OBVIOUS
    <2> QED BY <2>1, <2>2, <2>3, <2>4, <2>5, <2>6
  <1>2. CASE Spawn(t)
    <2> USE <1>2 DEF Spawn
    <2>1. ControlTyped' OBVIOUS
    <2>2. LocksHeld' OBVIOUS
    <2>3. Roles' OBVIOUS
    <2>4. Starting'
      <3>1. \A u \in Clients \ {t} : pc[u] \notin StartPCs /\ pc'[u] = pc[u]
        OBVIOUS
      <3>2. pc'[Worker] = "dorun" /\ pc'[t] = "spawned" /\ threadLock = t
        OBVIOUS
      <3> QED BY <3>1, <3>2
    <2>5. Stopped' OBVIOUS
    <2>6. Waiting' OBVIOUS
    <2> QED BY <2>1, <2>2, <2>3, <2>4, <2>5, <2>6
  <1>3. CASE Spawned(t) BY <1>3 DEF Spawned
  <1> QED BY <1>1, <1>2, <1>3

LEMMA ContinueKeepsControl ==
  ASSUME Control, NEW t \in Clients, Continue(t)
  PROVE  Control'
  <1>1. CASE OnStart(t) \/ Spawn(t) \/ Spawned(t)
    BY <1>1, OnStartKeepsControl
  <1>2. CASE StopSignalled(t)
    <2>1. PICK g \in BOOLEAN : EnterStop(t, g, "idle")
      BY <1>2 DEF StopSignalled
    <2> QED BY <1>2, <2>1, EnterStopKeepsControl, ConstantsAssumption
            DEF StopSignalled, At, Returns, Threads, stateVars, threadVars, stopVars, contextVars,
                historyVars
  <1>3. CASE ~(OnStart(t) \/ Spawn(t) \/ Spawned(t) \/ StopSignalled(t))
    <2> USE ConstantsAssumption
        DEF Control, ControlTyped, LocksHeld, Roles, Starting, Stopped, Waiting, Returns, Threads,
            StopPCs, WaitPCs, ClientPCs, WorkerPCs, StartPCs, At, Goto, WaitOnCv, IsStopped, MayJoin,
            runnableVars, stateVars, threadVars, stopVars, contextVars, localVars, historyVars
    <2>1. CASE Wait(t)               BY <2>1 DEF Wait
    <2>2. CASE WaitFor(t)            BY <2>2 DEF WaitFor
    <2>3. CASE ThreadSleep(t)        BY <2>3 DEF ThreadSleep
    <2>4. CASE CvTimeout(t)          BY <2>4 DEF CvTimeout
    <2>5. CASE DoAdditionalWait(t)   BY <2>5 DEF DoAdditionalWait
    <2>6. CASE JoinTimeout(t)        BY <2>6 DEF JoinTimeout
    <2>7. CASE Waited(t)             BY <2>7 DEF Waited
    <2>8. CASE WaitForStateUpdate(t) BY <2>8 DEF WaitForStateUpdate
    <2>9. CASE StateBlock(t)         BY <2>9 DEF StateBlock
    <2>10. CASE Deelevate(t)         BY <2>10 DEF Deelevate
    <2> QED BY <1>3, <2>1, <2>2, <2>3, <2>4, <2>5, <2>6, <2>7, <2>8, <2>9, <2>10 DEF Continue
  <1> QED BY <1>1, <1>2, <1>3

LEMMA StoppingKeepsControl ==
  ASSUME Control, NEW t \in Threads, Stopping(t)
  PROVE  Control'
  <1> USE ConstantsAssumption
      DEF Control, ControlTyped, LocksHeld, Roles, Starting, Stopped, Waiting, Returns, Threads,
          StopPCs, WaitPCs, ClientPCs, WorkerPCs, StartPCs, At, Goto, NotifyState, NotifyCv,
          StateLockIsFree,
          runnableVars, stateVars, threadVars, stopVars, contextVars, localVars, historyVars
  <1>1. CASE BasicOnStop(t)
    <2> USE <1>1 DEF BasicOnStop
    <2>1. ControlTyped' OBVIOUS
    <2>2. LocksHeld' OBVIOUS
    <2>3. Roles' OBVIOUS
    <2>4. Starting' OBVIOUS
    <2>5. Stopped' OBVIOUS
    <2>6. Waiting' OBVIOUS
    <2> QED BY <2>1, <2>2, <2>3, <2>4, <2>5, <2>6
  <1>2. CASE Quiesce(t)
    <2>1. UNCHANGED onStops
      BY <1>2 DEF Quiesce
    <2> QED BY <1>2, <2>1 DEF Quiesce
  <1>3. CASE OnStopCompleted(t) BY <1>3 DEF OnStopCompleted
  <1>4. CASE Release(t)         BY <1>4 DEF Release
  <1> QED BY <1>1, <1>2, <1>3, <1>4 DEF Stopping

\* A dispatcher that returns, throws, or stops its own thread.
LEMMA DispatcherKeepsControl ==
  ASSUME Control, Dispatch \/ Rundown
  PROVE  Control'
  <1> USE ConstantsAssumption
  <1>1. /\ UNCHANGED << started, m_completed, stateLock, threadLock, stoppingLock, refTracker, onStops >>
        /\ pc[Worker] \in {"dispatch", "rundown"} /\ context # "expired"
    BY DEF Dispatch, Rundown, At, W, stateVars, threadVars, stopVars, contextVars, historyVars,
           Control, Starting
  <1>2. context' = context \/ (context # "expired" /\ context' = "down")
    BY <1>1 DEF Dispatch, Rundown, contextVars
  <1>3. \/ \E g \in BOOLEAN, l \in Returns :
             /\ EnterStop(Worker, g, l) /\ l # "idle"
             /\ pc[Worker] = "rundown" <=> l = "rundown"
        \/ /\ UNCHANGED << runnableVars, localVars >>
           /\ \/ UNCHANGED pc
              \/ /\ pc[Worker] = "dispatch"
                 /\ \E l \in {"run", "cleanup"} : pc' = [pc EXCEPT ![Worker] = l]
    <2>1. CASE Dispatch
      BY <2>1 DEF Dispatch, At, W, Goto, Returns
    <2>2. CASE Rundown
      BY <2>2 DEF Rundown, At, W, Returns
    <2> QED BY <2>1, <2>2
  <1>4. CASE \E g \in BOOLEAN, l \in Returns :
               /\ EnterStop(Worker, g, l) /\ l # "idle"
               /\ pc[Worker] = "rundown" <=> l = "rundown"
    BY <1>1, <1>2, <1>4, EnterStopKeepsControl DEF Threads
  <1>5. CASE /\ UNCHANGED << runnableVars, localVars >>
             /\ \/ UNCHANGED pc
                \/ /\ pc[Worker] = "dispatch"
                   /\ \E l \in {"run", "cleanup"} : pc' = [pc EXCEPT ![Worker] = l]
    BY <1>1, <1>2, <1>5
       DEF Control, ControlTyped, LocksHeld, Roles, Starting, Stopped, Waiting, Returns, Threads,
           StopPCs, WaitPCs, ClientPCs, WorkerPCs, StartPCs, runnableVars, localVars
  <1> QED BY <1>3, <1>4, <1>5

LEMMA WorkerKeepsControl ==
  ASSUME Control, WorkerStep
  PROVE  Control'
  <1>1. CASE Dispatch \/ Rundown
    BY <1>1, DispatcherKeepsControl
  <1>2. CASE StopSelf
    BY <1>2, EnterStopKeepsControl, ConstantsAssumption
       DEF StopSelf, At, W, Returns, Threads, stateVars, threadVars, stopVars, contextVars, historyVars
  <1>3. CASE ~(Dispatch \/ Rundown \/ StopSelf)
    <2> USE ConstantsAssumption
        DEF Control, ControlTyped, LocksHeld, Roles, Starting, Stopped, Waiting, Returns, Threads,
            StopPCs, WaitPCs, ClientPCs, WorkerPCs, StartPCs, At, W, Goto, NotifyState,
            runnableVars, stateVars, threadVars, stopVars, contextVars, localVars, historyVars
    <2>1. CASE DoRun            BY <2>1 DEF DoRun, ThreadIsConstructed
    <2>2. CASE Run              BY <2>2 DEF Run
    <2>3. CASE WaitForEvent     BY <2>3 DEF WaitForEvent
    <2>4. CASE RunAbortLambda   BY <2>4 DEF RunAbortLambda
    <2>5. CASE DoRunLoopCleanup BY <2>5 DEF DoRunLoopCleanup
    <2>6. CASE RundownEnds      BY <2>6 DEF RundownEnds
    <2>7. CASE Detach           BY <2>7 DEF Detach
    <2>8. CASE Untrack          BY <2>8 DEF Untrack
    <2>9. CASE Complete         BY <2>9 DEF Complete
    <2>10. CASE RundownCatches  BY <2>10 DEF RundownCatches
    <2>11. CASE RundownRetries  BY <2>11 DEF RundownRetries
    <2> QED BY <1>3, <2>1, <2>2, <2>3, <2>4, <2>5, <2>6, <2>7, <2>8, <2>9, <2>10, <2>11
            DEF WorkerStep
  <1> QED BY <1>1, <1>2, <1>3

LEMMA NextKeepsControl ==
  ASSUME Control, [Next]_vars
  PROVE  Control'
  <1>1. CASE UNCHANGED vars
    BY <1>1 DEF vars, runnableVars, stateVars, threadVars, stopVars, contextVars, localVars,
                historyVars, Control, ControlTyped, LocksHeld, Roles, Starting, Stopped, Waiting
  <1> QED BY <1>1, RequestKeepsControl, ContinueKeepsControl, StoppingKeepsControl,
             WorkerKeepsControl DEF Next

-----------------------------------------------------------------------------
(* Data: what else TypeOK says *)

DataTyped ==
    /\ m_wasStarted \in BOOLEAN /\ m_shouldStop \in BOOLEAN /\ m_outstanding \in BOOLEAN
    /\ started \in BOOLEAN /\ m_completed \in BOOLEAN /\ flag \in BOOLEAN
    /\ m_onStopCompleted \in BOOLEAN /\ aborted \in BOOLEAN /\ refTracker \in BOOLEAN
    /\ harsh \in BOOLEAN
    /\ cvAsleep \subseteq Clients /\ stAsleep \subseteq Clients
    /\ m_thisThread \in {"none", "joinable", "detached"}
    /\ m_threadPriority \in Priorities /\ osPriority \in Priorities
    /\ oldPriority \in [Clients -> Priorities]
    /\ baseline \in Priorities \cup {NoPriority}
    /\ queue \in Seq(Jobs) /\ held \in Seq(Jobs)
    /\ fate \in [Thunks -> Fates]
    /\ context \in {"alive", "down", "expired"}
    /\ calls \in Programs
    /\ graceful \in [Threads -> BOOLEAN]
    /\ promised \subseteq Thunks

LEMMA TypeOKParts == TypeOK <=> DataTyped /\ ControlTyped /\ LocksHeld
  BY DEF TypeOK, DataTyped, ControlTyped, Returns, Fates

LEMMA InitData == Init => DataTyped
  <1> SUFFICES ASSUME Init PROVE DataTyped
    OBVIOUS
  <1>1. queue \in Seq(Jobs) /\ held \in Seq(Jobs)
    BY EmptySeq DEF Init
  <1>2. fate \in [Thunks -> Fates] /\ graceful \in [Threads -> BOOLEAN]
    BY DEF Init, Fates
  <1>3. oldPriority \in [Clients -> Priorities]
    BY ConstantsAssumption DEF Init
  <1> QED BY <1>1, <1>2, <1>3, ConstantsAssumption DEF Init, DataTyped

\* AbortQueue and EnterStop keep the types of what they change.
LEMMA AbortKeepsData ==
  ASSUME DataTyped, AbortQueue
  PROVE  queue' \in Seq(Jobs) /\ fate' \in [Thunks -> Fates] /\ aborted' \in BOOLEAN
  BY EmptySeq DEF DataTyped, AbortQueue, Dropped, Fates

LEMMA EnterStopKeepsData ==
  ASSUME DataTyped, NEW t \in Threads, NEW g \in BOOLEAN, NEW l, EnterStop(t, g, l)
  PROVE  /\ m_wasStarted' \in BOOLEAN /\ m_shouldStop' \in BOOLEAN /\ m_outstanding' \in BOOLEAN
         /\ cvAsleep' \subseteq Clients /\ graceful' \in [Threads -> BOOLEAN]
  BY DEF DataTyped, EnterStop, NotifyCv, localVars

LEMMA NextKeepsData ==
  ASSUME DataTyped, [Next]_vars
  PROVE  DataTyped'
  <1> USE ConstantsAssumption
  <1>1. CASE UNCHANGED vars
    BY <1>1 DEF vars, DataTyped, runnableVars, stateVars, threadVars, stopVars, queueVars,
                contextVars, localVars, historyVars
  <1>2. ASSUME NEW t \in Clients, Request(t)
        PROVE  DataTyped'
    <2> USE DEF DataTyped, runnableVars, stateVars, threadVars, stopVars, queueVars, contextVars,
                localVars, historyVars
    <2>1. CASE Start(t)
      <3>1. CASE m_wasStarted \/ m_outstanding \/ m_shouldStop BY <2>1, <3>1 DEF Start
      <3>2. CASE ~(m_wasStarted \/ m_outstanding \/ m_shouldStop)
        <4>1. m_wasStarted' \in BOOLEAN /\ m_outstanding' \in BOOLEAN
          BY <2>1, <3>2, Zenon DEF Start
        <4> QED BY <2>1, <3>2, <4>1 DEF Start
      <3> QED BY <3>1, <3>2
    <2>2. CASE Stop(t)
      BY <2>2, EnterStopKeepsData DEF Stop, Threads
    <2>3. CASE SignalShutdown(t) BY <2>3 DEF SignalShutdown
    <2>4. CASE EnterWait(t) BY <2>4 DEF EnterWait
    <2>5. CASE PerformStatusUpdate(t) BY <2>5 DEF PerformStatusUpdate, NotifyState
    <2>6. CASE Pend(t)
      <3>1. queue' \in Seq(Jobs) /\ fate' \in [Thunks -> Fates]
        BY <2>6 DEF Pend, Jobs, Fates
      <3> QED BY <2>6, <3>1 DEF Pend
    <2>7. CASE Abort(t) BY <2>7, AbortKeepsData DEF Abort
    <2>8. CASE SetThreadPriority(t) BY <2>8 DEF SetThreadPriority, Applied
    <2>9. CASE Elevate(t) BY <2>9 DEF Elevate, Applied
    <2> QED BY <1>2, <2>1, <2>2, <2>3, <2>4, <2>5, <2>6, <2>7, <2>8, <2>9 DEF Request
  <1>3. ASSUME NEW t \in Clients, Continue(t)
        PROVE  DataTyped'
    <2> USE DEF DataTyped, runnableVars, stateVars, threadVars, stopVars, queueVars, contextVars,
                localVars, historyVars
    <2>1. CASE OnStart(t)
      <3>1. CASE context = "expired" BY <2>1, <3>1 DEF OnStart, Threads
      <3>2. CASE context # "expired"
        <4>1. started' \in BOOLEAN
          BY <2>1, <3>2, Zenon DEF OnStart
        <4> QED BY <2>1, <3>2, <4>1 DEF OnStart
      <3> QED BY <3>1, <3>2
    <2>2. CASE Spawn(t) BY <2>2 DEF Spawn
    <2>3. CASE Spawned(t) BY <2>3 DEF Spawned, NotifyCv
    <2>4. CASE StopSignalled(t)
      BY <2>4, EnterStopKeepsData DEF StopSignalled, Threads
    <2>5. CASE Wait(t) \/ WaitFor(t) \/ ThreadSleep(t)
      BY <2>5 DEF Wait, WaitFor, ThreadSleep, WaitOnCv
    <2>6. CASE CvTimeout(t) BY <2>6 DEF CvTimeout
    <2>7. CASE DoAdditionalWait(t) \/ JoinTimeout(t) \/ Waited(t)
      BY <2>7 DEF DoAdditionalWait, JoinTimeout, Waited
    <2>8. CASE WaitForStateUpdate(t) \/ StateBlock(t)
      BY <2>8 DEF WaitForStateUpdate, StateBlock
    <2>9. CASE Deelevate(t)
      BY <2>9 DEF Deelevate, DeelevatedTo, Applied
    <2> QED BY <1>3, <2>1, <2>2, <2>3, <2>4, <2>5, <2>6, <2>7, <2>8, <2>9 DEF Continue
  <1>4. ASSUME NEW t \in Threads, Stopping(t)
        PROVE  DataTyped'
    <2> USE DEF DataTyped, runnableVars, stateVars, threadVars, stopVars, queueVars, contextVars,
                localVars, historyVars
    <2>1. CASE BasicOnStop(t) BY <2>1 DEF BasicOnStop, NotifyState
    <2>2. CASE Quiesce(t)
      <3>1. CASE graceful[t]
        <4>1. queue' = Append(queue, AbortLambda)
          BY <2>2, <3>1 DEF Quiesce, GracefulStop
        <4>2. queue \in Seq(Jobs) /\ AbortLambda \in Jobs
          BY DEF Jobs
        <4>3. queue' \in Seq(Jobs)
          BY <4>1, <4>2, AppendProperties
        <4> QED BY <2>2, <3>1, <4>3 DEF Quiesce, GracefulStop
      <3>2. CASE ~graceful[t]
        BY <2>2, <3>2, AbortKeepsData DEF Quiesce, HardStop
      <3> QED BY <3>1, <3>2
    <2>3. CASE OnStopCompleted(t) BY <2>3 DEF OnStopCompleted
    <2>4. CASE Release(t)
      <3>1. m_outstanding' \in BOOLEAN
        BY <2>4, Zenon DEF Release
      <3> QED BY <2>4, <3>1 DEF Release, NotifyCv
    <2> QED BY <1>4, <2>1, <2>2, <2>3, <2>4 DEF Stopping
  <1>5. CASE WorkerStep
    <2> USE DEF DataTyped, runnableVars, stateVars, threadVars, stopVars, queueVars, contextVars,
                localVars, historyVars
    <2>1. CASE DoRun BY <2>1 DEF DoRun, Applied
    <2>2. CASE Run BY <2>2 DEF Run
    <2>3. CASE WaitForEvent
      <3>1. queue' \in Seq(Jobs) /\ held' \in Seq(Jobs)
        <4>1. CASE aborted BY <2>3, <4>1 DEF WaitForEvent
        <4>2. CASE ~aborted
          <5>1. queue # << >> /\ held' = << Head(queue) >> /\ queue' = Tail(queue)
            BY <2>3, <4>2 DEF WaitForEvent
          <5>2. Head(queue) \in Jobs /\ Tail(queue) \in Seq(Jobs)
            BY <5>1, HeadTailProperties
          <5> QED BY <5>1, <5>2
        <4> QED BY <4>1, <4>2
      <3> QED BY <2>3, <3>1 DEF WaitForEvent
    <2>4. CASE RunAbortLambda
      <3>1. held' \in Seq(Jobs)
        BY <2>4 DEF RunAbortLambda
      <3> QED BY <2>4, <3>1, AbortKeepsData DEF RunAbortLambda, NotifyState
    <2>5. CASE Dispatch
      <3>1. held' \in Seq(Jobs) /\ fate' \in [Thunks -> Fates]
        BY <2>5, EmptySeq DEF Dispatch, Finished, Fates
      <3>2. context' \in {"alive", "down", "expired"}
        BY <2>5 DEF Dispatch
      <3>3. \/ UNCHANGED << runnableVars, localVars >>
            \/ \E g \in BOOLEAN, l \in Returns : EnterStop(Worker, g, l)
        BY <2>5 DEF Dispatch, W, Returns
      <3>4. /\ m_wasStarted' \in BOOLEAN /\ m_shouldStop' \in BOOLEAN /\ m_outstanding' \in BOOLEAN
            /\ cvAsleep' \subseteq Clients /\ graceful' \in [Threads -> BOOLEAN]
        BY <3>3, EnterStopKeepsData DEF Threads
      <3> QED BY <2>5, <3>1, <3>2, <3>4 DEF Dispatch
    <2>6. CASE DoRunLoopCleanup
      BY <2>6, EmptySeq DEF DoRunLoopCleanup
    <2>7. CASE Rundown
      <3>0. Tail(held) \in Seq(Jobs) /\ << >> \in Seq(Jobs)
        BY <2>7, HeadTailProperties, EmptySeq DEF Rundown
      <3>1. held' \in Seq(Jobs)
        BY <2>7, <3>0 DEF Rundown
      <3>5. fate' \in [Thunks -> Fates]
        <4>1. fate' = Dropped(held) \/ fate' = Finished(Head(held))
          BY <2>7 DEF Rundown
        <4> QED BY <4>1 DEF Finished, Dropped, Fates
      <3>2. harsh' \in BOOLEAN
        BY <2>7 DEF Rundown
      <3>3. \/ UNCHANGED << runnableVars, localVars >>
            \/ \E g \in BOOLEAN, l \in Returns : EnterStop(Worker, g, l)
        BY <2>7 DEF Rundown, W, Returns
      <3>4. /\ m_wasStarted' \in BOOLEAN /\ m_shouldStop' \in BOOLEAN /\ m_outstanding' \in BOOLEAN
            /\ cvAsleep' \subseteq Clients /\ graceful' \in [Threads -> BOOLEAN]
        BY <3>3, EnterStopKeepsData DEF Threads
      <3> QED BY <2>7, <3>1, <3>2, <3>4, <3>5 DEF Rundown
    <2>8. CASE RundownEnds BY <2>8 DEF RundownEnds
    <2>9. CASE Detach BY <2>9 DEF Detach
    <2>10. CASE Untrack
      <3>1. refTracker' \in BOOLEAN
        BY <2>10, Zenon DEF Untrack
      <3> QED BY <2>10, <3>1 DEF Untrack
    <2>11. CASE StopSelf
      <3>1. EnterStop(Worker, FALSE, "detach")
        BY <2>11 DEF StopSelf, W
      <3>2. /\ m_wasStarted' \in BOOLEAN /\ m_shouldStop' \in BOOLEAN /\ m_outstanding' \in BOOLEAN
            /\ cvAsleep' \subseteq Clients /\ graceful' \in [Threads -> BOOLEAN]
        BY <3>1, EnterStopKeepsData DEF Threads
      <3> QED BY <2>11, <3>2 DEF StopSelf
    <2>12. CASE Complete BY <2>12 DEF Complete, NotifyState
    <2>13. CASE RundownCatches BY <2>13 DEF RundownCatches
    <2>14. CASE RundownRetries BY <2>14 DEF RundownRetries
    <2> QED BY <1>5, <2>1, <2>2, <2>3, <2>4, <2>5, <2>6, <2>7, <2>8, <2>9, <2>10, <2>11,
         <2>12, <2>13, <2>14 DEF WorkerStep
  <1> QED BY <1>1, <1>2, <1>3, <1>4, <1>5 DEF Next

-----------------------------------------------------------------------------
(* The priority *)

\* Until it is known again, some elevation is there to find the value; otherwise
\* nobody remembers less than the baseline, and the priority is at the baseline or
\* somebody who will go remembers it.
Restorable ==
    /\ baseline = NoPriority => Elevated # {}
    /\ baseline # NoPriority =>
         /\ m_threadPriority >= baseline /\ \A t \in Elevated : oldPriority[t] >= baseline
         /\ m_threadPriority = baseline \/ \E t \in Elevated : oldPriority[t] = baseline

Told ==
    m_thisThread = "joinable" /\ pc[Worker] \notin {"none", "dorun"} => osPriority = m_threadPriority

PriorityInv == Told /\ Restorable

LEMMA InitPriority == Init => PriorityInv
  BY ConstantsAssumption DEF Init, PriorityInv, Told, Restorable, Elevated, Threads

\* A step of which this is true leaves the priority alone.
PriorityAlone ==
    /\ UNCHANGED << m_threadPriority, osPriority, oldPriority, baseline >>
    /\ \A t \in Clients : pc'[t] = "elevated" <=> pc[t] = "elevated"
    /\ m_thisThread' = "joinable" =>
         \/ m_thisThread = "joinable" /\ (pc[Worker] \in {"none", "dorun"} <=> pc'[Worker] \in {"none", "dorun"})
         \/ pc'[Worker] = "dorun"

LEMMA AloneKeepsPriority ==
  ASSUME PriorityInv, PriorityAlone
  PROVE  PriorityInv'
  <1>1. Elevated' = Elevated
    BY DEF PriorityAlone, Elevated
  <1> QED BY <1>1 DEF PriorityInv, PriorityAlone, Told, Restorable

LEMMA NextKeepsPriority ==
  ASSUME Control, DataTyped, PriorityInv, [Next]_vars
  PROVE  PriorityInv'
  <1> USE ConstantsAssumption
      DEF Control, ControlTyped, Roles, Starting, Threads, StopPCs, WaitPCs, ClientPCs, WorkerPCs,
          StartPCs, Returns
  <1>1. CASE UNCHANGED vars
    BY <1>1, AloneKeepsPriority DEF vars, threadVars, PriorityAlone
  <1>2. ASSUME NEW t \in Clients, SetThreadPriority(t)
        PROVE  PriorityInv'
    <2>1. Elevated' = Elevated
      BY <1>2 DEF SetThreadPriority, Call, At, Goto, Elevated
    <2>2. PICK p \in Priorities :
            /\ m_threadPriority' = p /\ osPriority' = Applied(p)
            /\ baseline' = IF Elevated = {} THEN p ELSE NoPriority
      BY <1>2 DEF SetThreadPriority
    <2>3. Told'
      BY <1>2, <2>2 DEF SetThreadPriority, Call, Goto, Applied, Told
    <2>4. Restorable'
      BY <2>1, <2>2 DEF Restorable
    <2> QED BY <2>3, <2>4 DEF PriorityInv
  <1>3. ASSUME NEW t \in Clients, Elevate(t)
        PROVE  PriorityInv'
    <2>1. Elevated' = Elevated \cup {t} /\ t \notin Elevated
      BY <1>3 DEF Elevate, Call, At, Goto, Elevated
    <2>2. PICK p \in Priorities :
            IF p < m_threadPriority
              THEN UNCHANGED << m_threadPriority, osPriority >>
              ELSE m_threadPriority' = p /\ osPriority' = Applied(p)
      BY <1>3 DEF Elevate
    <2>3. /\ oldPriority' = [oldPriority EXCEPT ![t] = m_threadPriority]
          /\ UNCHANGED << baseline, m_thisThread >> /\ pc'[Worker] = pc[Worker]
      BY <1>3 DEF Elevate, Call, Goto
    <2>4. m_threadPriority' >= m_threadPriority
      BY <2>2 DEF DataTyped
    <2>5. /\ oldPriority'[t] = m_threadPriority
          /\ \A u \in Elevated : oldPriority'[u] = oldPriority[u]
      BY <2>1, <2>3 DEF DataTyped, Elevated
    <2>6. Told'
      BY <2>2, <2>3 DEF Applied, Told, PriorityInv
    <2>7. Restorable'
      <3>1. CASE baseline = NoPriority
        BY <2>1, <2>3, <3>1 DEF Restorable
      <3>2. CASE baseline # NoPriority
        <4>1. /\ baseline \in Nat /\ m_threadPriority \in Nat /\ m_threadPriority' \in Nat
              /\ \A u \in Elevated : oldPriority[u] \in Nat
          BY <2>2, <3>2 DEF DataTyped, Elevated
        <4>2. m_threadPriority' >= baseline
          BY <2>4, <3>2, <4>1 DEF PriorityInv, Restorable
        <4>3. \A u \in Elevated' : oldPriority'[u] >= baseline
          BY <2>1, <2>5, <3>2 DEF PriorityInv, Restorable
        <4>4. \E u \in Elevated' : oldPriority'[u] = baseline
          BY <2>1, <2>5, <3>2 DEF PriorityInv, Restorable
        <4> QED BY <2>3, <3>2, <4>2, <4>3, <4>4 DEF Restorable
      <3> QED BY <3>1, <3>2
    <2> QED BY <2>6, <2>7 DEF PriorityInv
  <1>4. ASSUME NEW t \in Clients, Deelevate(t)
        PROVE  PriorityInv'
    <2> DEFINE p == DeelevatedTo(oldPriority[t])
    <2>1. Elevated' = Elevated \ {t} /\ t \in Elevated
      BY <1>4 DEF Deelevate, At, Goto, Elevated
    <2>2. /\ m_threadPriority' = p
          /\ osPriority' = IF p = m_threadPriority THEN osPriority ELSE Applied(p)
          /\ baseline' = IF Elevated = {t} /\ baseline = NoPriority THEN p ELSE baseline
          /\ oldPriority' = [oldPriority EXCEPT ![t] = 0]
          /\ UNCHANGED m_thisThread /\ pc'[Worker] = pc[Worker]
      BY <1>4 DEF Deelevate, Goto
    <2>3. /\ oldPriority[t] \in Nat /\ m_threadPriority \in Nat /\ p \in Priorities
          /\ p <= m_threadPriority /\ p <= oldPriority[t] /\ p \in {m_threadPriority, oldPriority[t]}
      <3>1. oldPriority[t] \in Priorities /\ m_threadPriority \in Priorities
        BY DEF DataTyped
      <3>2. oldPriority[t] \in Nat /\ m_threadPriority \in Nat
        BY <3>1
      <3>3. p = IF oldPriority[t] >= m_threadPriority THEN m_threadPriority ELSE oldPriority[t]
        BY DEF DeelevatedTo
      <3> HIDE DEF p
      <3> QED BY <3>1, <3>2, <3>3
    <2>4. \A u \in Elevated' : oldPriority'[u] = oldPriority[u]
      BY <2>1, <2>2 DEF DataTyped, Elevated
    <2> HIDE DEF p
    <2>5. Told'
      BY <2>2 DEF Applied, Told, PriorityInv
    <2>6. Restorable'
      <3>1. CASE baseline = NoPriority
        <4>1. CASE Elevated = {t}
          BY <2>1, <2>2, <2>3, <3>1, <4>1 DEF Restorable
        <4>2. CASE Elevated # {t}
          BY <2>1, <2>2, <3>1, <4>2 DEF Restorable
        <4> QED BY <4>1, <4>2
      <3>2. CASE baseline # NoPriority
        <4>1. baseline \in Nat /\ baseline' = baseline
          BY <2>2, <3>2 DEF DataTyped
        <4>2. p >= baseline
          BY <2>1, <2>3, <3>2, <4>1 DEF PriorityInv, Restorable
        <4>3. \A u \in Elevated' : oldPriority'[u] >= baseline
          BY <2>1, <2>4, <3>2 DEF PriorityInv, Restorable
        <4>4. CASE \E u \in Elevated \ {t} : oldPriority[u] = baseline
          BY <2>1, <2>2, <2>4, <3>2, <4>1, <4>2, <4>3, <4>4 DEF Restorable
        <4>5. CASE m_threadPriority = baseline \/ oldPriority[t] = baseline
          <5>1. p = baseline
            BY <2>3, <4>1, <4>2, <4>5
          <5> QED BY <2>2, <3>2, <4>1, <4>2, <4>3, <5>1 DEF Restorable
        <4> QED BY <3>2, <4>4, <4>5 DEF PriorityInv, Restorable
      <3> QED BY <3>1, <3>2
    <2> QED BY <2>5, <2>6 DEF PriorityInv
  <1>5. ASSUME NEW t \in Clients, Request(t), ~SetThreadPriority(t), ~Elevate(t)
        PROVE  PriorityAlone
    BY <1>5 DEF Request, Start, Stop, SignalShutdown, EnterWait, PerformStatusUpdate, Pend, Abort,
                EnterStop, Call, At, Goto, threadVars, PriorityAlone
  <1>6. ASSUME NEW t \in Clients, Continue(t), ~Deelevate(t)
        PROVE  PriorityAlone
    <2>1. CASE OnStart(t) BY <2>1 DEF OnStart, At, Goto, PriorityAlone
    <2>2. CASE Spawn(t) BY <2>2 DEF Spawn, At, threadVars, PriorityAlone
    <2>3. CASE Spawned(t) BY <2>3 DEF Spawned, At, Goto, PriorityAlone
    <2>4. CASE ~(OnStart(t) \/ Spawn(t) \/ Spawned(t))
      BY <1>6, <2>4
         DEF Continue, StopSignalled, Wait, WaitFor, ThreadSleep, CvTimeout, DoAdditionalWait,
             JoinTimeout, Waited, WaitForStateUpdate, StateBlock, WaitOnCv, EnterStop, At, Goto,
             threadVars, PriorityAlone
    <2> QED BY <2>1, <2>2, <2>3, <2>4
  <1>7. ASSUME NEW t \in Threads, Stopping(t)
        PROVE  PriorityAlone
    BY <1>7 DEF Stopping, BasicOnStop, Quiesce, OnStopCompleted, Release, At, Goto, threadVars,
                PriorityAlone
  <1>8. CASE DoRun
    <2>1. Elevated' = Elevated
      BY <1>8 DEF DoRun, Goto, W, Elevated
    <2> QED BY <1>8, <2>1 DEF DoRun, Applied, PriorityInv, Told, Restorable
  <1>9. ASSUME WorkerStep, ~DoRun
        PROVE  PriorityAlone
    <2>1. CASE Dispatch \/ Rundown \/ StopSelf
      BY <2>1 DEF Dispatch, Rundown, StopSelf, EnterStop, At, W, Goto, threadVars, PriorityAlone
    <2>2. CASE ~(Dispatch \/ Rundown \/ StopSelf)
      BY <1>9, <2>2
         DEF WorkerStep, Run, WaitForEvent, RunAbortLambda, DoRunLoopCleanup, RundownCatches,
             RundownRetries, RundownEnds, Detach, Untrack, Complete, At, W, Goto, threadVars, PriorityAlone
    <2> QED BY <2>1, <2>2
  <1> QED BY <1>1, <1>2, <1>3, <1>4, <1>5, <1>6, <1>7, <1>8, <1>9, AloneKeepsPriority DEF Next

-----------------------------------------------------------------------------
(* The theorems *)

Invariant == Control /\ DataTyped /\ PriorityInv

LEMMA Inductive == Spec => []Invariant
  <1>1. Init => Invariant
    BY InitControl, InitData, InitPriority DEF Invariant
  <1>2. Invariant /\ [Next]_vars => Invariant'
    BY NextKeepsControl, NextKeepsData, NextKeepsPriority DEF Invariant
  <1> QED BY <1>1, <1>2, PTL DEF Spec

\* Type correctness and lock discipline: who holds a lock across steps is where the
\* code holds it.
THEOREM TypeCorrect == Spec => []TypeOK
  <1>1. Invariant => TypeOK
    BY TypeOKParts DEF Invariant, Control
  <1> QED BY <1>1, Inductive, PTL

\* OnStop(graceful) is invoked at most once, by concurrent calls of Stop, the Stop of
\* the cleanup, a dispatcher's Stop or a Start that fails.
THEOREM OnStopInvokedOnce == Spec => []OnStopOnce
  <1>1. Invariant => OnStopOnce
    BY DEF Invariant, Control, ControlTyped, Stopped, OnStopOnce
  <1> QED BY <1>1, Inductive, PTL

\* When Wait has returned, the thread is past its last use of the object and of its
\* context, or was never there and never will be.
THEOREM WaitReturnsWhenDone == Spec => []WaitMeansDone
  <1>1. Invariant => WaitMeansDone
    BY DEF Invariant, Control, Waiting, WaitMeansDone
  <1> QED BY <1>1, Inductive, PTL

\* The system has been told the priority, and once every ElevatePriority is gone the
\* priority is the one before them.
THEOREM PriorityIsSound == Spec => []PrioritySound
  <1>1. Invariant => PrioritySound
    BY DEF Invariant, PriorityInv, Told, Restorable, PrioritySound
  <1> QED BY <1>1, Inductive, PTL
=============================================================================
