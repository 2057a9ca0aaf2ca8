-------------------------------- MODULE CoreJob --------------------------------
(***************************************************************************)
(* CoreJob: a dispatch queue without a thread of its own.  Whoever pends   *)
(* on an idle job launches an asynchronous task that dispatches until the  *)
(* queue is empty; m_curEvent holds the future of the last task launched,  *)
(* m_curEventInTeardown says that it will look at the queue no more        *)
(* (CoreJob.{h,cpp} and CoreRunnable.cpp under src/src/autowiring).        *)
(*                                                                         *)
(* A critical section is one step unless a lock is held over something     *)
(* that blocks or that others can notice: m_dispatchLock while OnPended    *)
(* destroys the old future, which waits for its task, and launches the new *)
(* one; m_lock over OnStart.                                               *)
(***************************************************************************)
EXTENDS Naturals, Sequences, FiniteSets, Functions

CONSTANTS
    Clients,      \* threads that call the public operations
    NoThread,     \* a lock that nobody holds
    Thunks,       \* dispatchers, each pended at most once
    AbortLambda,  \* the dispatcher a graceful OnStop pends
    MaxTasks,     \* bound: tasks launched
    Programs,     \* the programs around the job: what each client may call
    Outcomes      \* the ways a dispatcher may end: "return", "throw"

OpNames == { "Start", "Stop", "StopNow", "Wait", "WaitFor", "Pend" }

Tasks    == 1 .. MaxTasks
NoTask   == 0
Threads  == Clients \cup Tasks
Jobs     == Thunks \cup {AbortLambda}

ASSUME ConstantsAssumption ==
    /\ MaxTasks \in Nat
    /\ Clients \cap Tasks = {}
    /\ NoThread \notin Threads
    /\ AbortLambda \notin Thunks
    /\ Programs \subseteq [Clients -> SUBSET OpNames]
    /\ Outcomes \subseteq {"return", "throw"}

VARIABLES
    m_wasStarted, m_shouldStop, m_outstanding,   \* CoreRunnable
    m_lock,                 \* who holds m_lock across steps
    m_running, m_curEvent, m_curEventInTeardown, \* CoreJob
    dispatchLock,           \* who holds m_dispatchLock across steps
    queue, aborted,         \* DispatchQueue: its list, onAborted
    dangling,               \* m_pHead points at destroyed thunks
    fate,                   \* fate[k]: what became of thunk k
    pc,                     \* per thread and task: program point
    cur,                    \* per task: the dispatcher it runs
    event,                  \* per client: the future it has taken out of m_curEvent
    ret,                    \* per client: where it goes on after OnPended
    calls,                  \* the program, which never changes
    promised                \* history: thunks queued when a graceful OnStop pended

runnableVars == << m_wasStarted, m_shouldStop, m_outstanding, m_lock >>
jobVars      == << m_running, m_curEvent, m_curEventInTeardown >>
queueVars    == << queue, aborted, dangling, fate >>
localVars    == << cur, event, ret, calls, promised >>
vars == << runnableVars, jobVars, dispatchLock, queueVars, pc, localVars >>

ClientPCs == { "idle", "onstart", "pending", "started", "launch", "graceful",
               "abort", "unrun", "release", "wait", "waitfor", "join", "joining", "waited" }
TaskPCs   == { "none", "dispatch", "run", "unrun", "check", "tail", "done" }

At(t, l) == pc[t] = l

\* Tasks that may still take a dispatcher off the queue or are running one.
Active == { i \in Tasks : pc[i] \in {"dispatch", "run", "unrun", "check"} }

\* Which lock is held across steps where: only a Start that failed calls OnStop,
\* and that with false, while it holds m_lock.
LocksHeld ==
    /\ m_lock # NoThread
         => \/ pc[m_lock] \in {"onstart", "pending", "started", "abort", "unrun", "release"}
            \/ At(m_lock, "launch") /\ ret[m_lock] = "started"
    /\ \A t \in Clients : dispatchLock = t <=> At(t, "launch")

TypeOK ==
    /\ {m_wasStarted, m_shouldStop, m_outstanding, m_running, m_curEventInTeardown,
        aborted, dangling} \subseteq BOOLEAN
    /\ m_lock \in Clients \cup {NoThread}
    /\ dispatchLock \in Clients \cup {NoThread}
    /\ m_curEvent \in Tasks \cup {NoTask}
    /\ queue \in Seq(Jobs)
    /\ fate \in [Thunks -> {"new", "queued", "done", "dropped", "refused"}]
    /\ pc \in [Threads -> ClientPCs \cup TaskPCs]
    /\ \A t \in Clients : pc[t] \in ClientPCs
    /\ \A i \in Tasks : pc[i] \in TaskPCs
    /\ cur \in [Tasks -> Jobs \cup {NoTask}]
    /\ event \in [Clients -> Tasks \cup {NoTask}]
    /\ ret \in [Clients -> {"idle", "started", "release"}]
    /\ calls \in Programs
    /\ promised \subseteq Thunks
    /\ LocksHeld

Init ==
    /\ m_wasStarted = FALSE /\ m_shouldStop = FALSE /\ m_outstanding = FALSE
    /\ m_lock = NoThread
    /\ m_running = FALSE /\ m_curEvent = NoTask /\ m_curEventInTeardown = TRUE
    /\ dispatchLock = NoThread
    /\ queue = << >> /\ aborted = FALSE /\ dangling = FALSE
    /\ fate = [k \in Thunks |-> "new"]
    /\ pc = [t \in Threads |-> IF t \in Clients THEN "idle" ELSE "none"]
    /\ cur = [i \in Tasks |-> NoTask]
    /\ event = [t \in Clients |-> NoTask]
    /\ ret = [t \in Clients |-> "idle"]
    /\ calls \in Programs
    /\ promised = {}

-----------------------------------------------------------------------------
Goto(t, l)    == pc' = [pc EXCEPT ![t] = l]
Calling(t, o) == At(t, "idle") /\ o \in calls[t]
Dropped(s)    == [k \in Thunks |-> IF k \in Range(s) THEN "dropped" ELSE fate[k]]

-----------------------------------------------------------------------------
(* OnPended, called with m_dispatchLock held *)

\* Mutant: OnPended does not look for a task that is under way.
LeavesUnlessRunning == ~m_running

\* Somebody is on the queue already, or the job is not running: the entry stays.
Leaves == ~m_curEventInTeardown \/ ~m_running

\* OnPended by client t, q being the list and f the fates: t goes on at l.  A job
\* that has no outstanding count destroys its entries (and keeps m_pHead).
\* Otherwise t keeps the lock, takes the old future and launches a task.
OnPended(t, q, f, l) ==
    /\ aborted' = aborted
    /\ \/ /\ Leaves
          /\ Goto(t, l)
          /\ queue' = q /\ fate' = f
          /\ UNCHANGED << jobVars, dispatchLock, dangling, event, ret >>
       \/ /\ ~Leaves /\ ~m_outstanding
          /\ Goto(t, l)
          /\ queue' = << >>
          /\ fate' = [k \in Thunks |-> IF k \in Range(q) THEN "dropped" ELSE f[k]]
          /\ dangling' = TRUE
          /\ UNCHANGED << jobVars, dispatchLock, event, ret >>
       \/ /\ ~Leaves /\ m_outstanding
          /\ Goto(t, "launch")
          /\ ret' = [ret EXCEPT ![t] = l]
          /\ queue' = q /\ fate' = f
          /\ dispatchLock' = t
          /\ m_curEventInTeardown' = FALSE
          /\ event' = [event EXCEPT ![t] = m_curEvent]
          /\ m_curEvent' = NoTask
          /\ UNCHANGED << m_running, dangling >>

\* Mutant: a future is not waited for.
TaskIsOverOrNot(i) == TRUE

\* The task of a future, if there is one, is over.
TaskIsOver(i) == i # NoTask => pc[i] = "done"

\* The old future is destroyed, which waits for its task, and a task launched.
Launch(t) ==
    /\ At(t, "launch")
    /\ TaskIsOver(event[t])
    /\ \E i \in Tasks :
         /\ pc[i] = "none" /\ \A j \in 1 .. i - 1 : pc[j] # "none"
         /\ m_curEvent' = i
         /\ pc' = [pc EXCEPT ![i] = "dispatch", ![t] = ret[t]]
    /\ event' = [event EXCEPT ![t] = NoTask]
    /\ dispatchLock' = NoThread
    /\ UNCHANGED << runnableVars, m_running, m_curEventInTeardown, queueVars, cur,
                    ret, calls, promised >>

\* DispatchQueue::operator+=, which refuses an entry once the queue is aborted.
Pend(t) ==
    /\ Calling(t, "Pend")
    /\ dispatchLock = NoThread
    /\ \E k \in Thunks :
         /\ fate[k] = "new"
         /\ \/ /\ aborted
               /\ fate' = [fate EXCEPT ![k] = "refused"]
               /\ UNCHANGED << jobVars, dispatchLock, queue, aborted, dangling, pc, event, ret >>
            \/ /\ ~aborted
               /\ OnPended(t, Append(queue, k), [fate EXCEPT ![k] = "queued"], "idle")
    /\ UNCHANGED << runnableVars, cur, calls, promised >>

-----------------------------------------------------------------------------
(* Start and stop *)

\* CoreRunnable::Start: the first call keeps m_lock until OnStart has returned.
Start(t) ==
    /\ Calling(t, "Start")
    /\ m_lock = NoThread
    /\ IF m_wasStarted \/ m_outstanding \/ m_shouldStop
         THEN UNCHANGED << pc, m_wasStarted, m_outstanding, m_lock >>
         ELSE /\ m_wasStarted' = TRUE
              /\ m_outstanding' = TRUE
              /\ m_lock' = t
              /\ Goto(t, "onstart")
    /\ UNCHANGED << m_shouldStop, jobVars, dispatchLock, queueVars, localVars >>

\* OnStart sets m_running before it takes m_dispatchLock; without a context it
\* returns false, and Start calls OnStop(false) with m_lock held.
OnStart(t) ==
    /\ At(t, "onstart")
    /\ \/ /\ m_running' = TRUE
          /\ Goto(t, "pending")
          /\ UNCHANGED << m_shouldStop, m_outstanding >>
       \/ /\ m_shouldStop' = TRUE
          /\ m_outstanding' = FALSE
          /\ Goto(t, "abort")
          /\ UNCHANGED m_running
    /\ UNCHANGED << m_wasStarted, m_lock, m_curEvent, m_curEventInTeardown, dispatchLock,
                    queueVars, localVars >>

\* Mutant: OnStart does not look at the list.
HasNoBacklog == FALSE

\* OnStart then simulates a pend for what was queued before.
HasBacklog == queue # << >>

OnStartPending(t) ==
    /\ At(t, "pending")
    /\ dispatchLock = NoThread
    /\ \/ HasBacklog /\ OnPended(t, queue, fate, "started")
       \/ /\ ~HasBacklog /\ Goto(t, "started")
          /\ UNCHANGED << jobVars, dispatchLock, queueVars, event, ret >>
    /\ UNCHANGED << runnableVars, cur, calls, promised >>

Started(t) ==
    /\ At(t, "started")
    /\ m_lock' = NoThread
    /\ Goto(t, "idle")
    /\ UNCHANGED << m_wasStarted, m_shouldStop, m_outstanding, jobVars, dispatchLock,
                    queueVars, localVars >>

\* Mutant: the outstanding count is released before OnStop.
StopReleasesFirst(t) ==
    /\ Calling(t, "Stop") \/ Calling(t, "StopNow")
    /\ m_lock = NoThread
    /\ ~m_shouldStop
    /\ m_shouldStop' = TRUE
    /\ m_outstanding' = FALSE
    /\ \/ Calling(t, "Stop") /\ Goto(t, "graceful")
       \/ Calling(t, "StopNow") /\ Goto(t, "abort")
    /\ UNCHANGED << m_wasStarted, m_lock, jobVars, dispatchLock, queueVars, localVars >>

\* CoreRunnable::Stop: the first caller invokes OnStop without the lock, any
\* caller takes m_outstanding away.
Stop(t) ==
    /\ Calling(t, "Stop") \/ Calling(t, "StopNow")
    /\ m_lock = NoThread
    /\ IF m_shouldStop
         THEN m_outstanding' = FALSE /\ UNCHANGED << pc, m_shouldStop >>
         ELSE /\ m_shouldStop' = TRUE
              /\ \/ Calling(t, "Stop") /\ Goto(t, "graceful")
                 \/ Calling(t, "StopNow") /\ Goto(t, "abort")
              /\ UNCHANGED m_outstanding
    /\ UNCHANGED << m_wasStarted, m_lock, jobVars, dispatchLock, queueVars, localVars >>

\* OnStop(true) pends a lambda, past the cap.
OnStopGraceful(t) ==
    /\ At(t, "graceful")
    /\ dispatchLock = NoThread
    /\ promised' = Range(queue) \cap Thunks
    /\ OnPended(t, Append(queue, AbortLambda), fate, "release")
    /\ UNCHANGED << runnableVars, cur, calls >>

\* CoreJob::Abort, by a client in OnStop(false) or by the lambda: the queue is
\* cleared under the lock ...
ClearsQueue == queue' = << >> /\ fate' = Dropped(queue) /\ aborted' = TRUE

Abort(t) ==
    /\ \/ t \in Clients /\ At(t, "abort")
       \/ t \in Tasks /\ At(t, "run") /\ cur[t] = AbortLambda
    /\ dispatchLock = NoThread
    /\ ClearsQueue
    /\ Goto(t, "unrun")
    /\ UNCHANGED << runnableVars, jobVars, dispatchLock, dangling, localVars >>

\* ... and m_running reset after it.
Unrun(t) ==
    /\ At(t, "unrun")
    /\ m_running' = FALSE
    /\ Goto(t, IF t \in Tasks THEN "dispatch" ELSE "release")
    /\ UNCHANGED << runnableVars, m_curEvent, m_curEventInTeardown, dispatchLock,
                    queueVars, localVars >>

\* Back in Stop, which lets m_outstanding go, or in Start, which leaves m_lock.
Release(t) ==
    /\ At(t, "release")
    /\ m_lock \in {NoThread, t}
    /\ m_lock' = NoThread
    /\ m_outstanding' = FALSE
    /\ Goto(t, "idle")
    /\ UNCHANGED << m_wasStarted, m_shouldStop, jobVars, dispatchLock,
                    queueVars, localVars >>

-----------------------------------------------------------------------------
(* Wait.  m_cv is notified after every change of what it waits for. *)

EnterWait(t) ==
    /\ \/ Calling(t, "Wait") /\ Goto(t, "wait")
       \/ Calling(t, "WaitFor") /\ Goto(t, "waitfor")
    /\ UNCHANGED << runnableVars, jobVars, dispatchLock, queueVars, localVars >>

\* The job is told to stop and its count released; or WaitFor times out.
Wait(t) ==
    /\ m_lock = NoThread
    /\ \/ /\ At(t, "wait") \/ At(t, "waitfor")
          /\ m_shouldStop /\ ~m_outstanding
          /\ Goto(t, "join")
       \/ At(t, "waitfor") /\ Goto(t, "idle")
    /\ UNCHANGED << runnableVars, jobVars, dispatchLock, queueVars, localVars >>

\* DoAdditionalWait takes the future out of m_curEvent, in one exchange ...
DoAdditionalWait(t) ==
    /\ At(t, "join")
    /\ event' = [event EXCEPT ![t] = m_curEvent]
    /\ m_curEvent' = NoTask
    /\ Goto(t, "joining")
    /\ UNCHANGED << runnableVars, m_running, m_curEventInTeardown, dispatchLock,
                    queueVars, cur, ret, calls, promised >>

\* ... and waits for its task; WaitFor does so too, because it destroys the future.
Join(t) ==
    /\ At(t, "joining")
    /\ TaskIsOver(event[t])
    /\ event' = [event EXCEPT ![t] = NoTask]
    /\ Goto(t, "waited")
    /\ UNCHANGED << runnableVars, jobVars, dispatchLock, queueVars, cur, ret, calls, promised >>

Waited(t) ==
    /\ At(t, "waited")
    /\ Goto(t, "idle")
    /\ UNCHANGED << runnableVars, jobVars, dispatchLock, queueVars, localVars >>

-----------------------------------------------------------------------------
(* A task: DispatchAllAndClearCurrent *)

DispatchEvent(i) ==
    /\ At(i, "dispatch")
    /\ dispatchLock = NoThread
    /\ IF queue = << >>
         THEN Goto(i, "check") /\ UNCHANGED << queue, cur >>
         ELSE /\ cur' = [cur EXCEPT ![i] = Head(queue)]
              /\ queue' = Tail(queue)
              /\ Goto(i, "run")
    /\ UNCHANGED << runnableVars, jobVars, dispatchLock, aborted, dangling, fate,
                    event, ret, calls, promised >>

\* A dispatcher ends.  An exception leaves DispatchAllAndClearCurrent and the
\* task, whose future keeps it.
RunThunk(i) ==
    /\ At(i, "run")
    /\ cur[i] # AbortLambda
    /\ fate' = [fate EXCEPT ![cur[i]] = "done"]
    /\ \E o \in Outcomes : Goto(i, IF o = "throw" THEN "done" ELSE "dispatch")
    /\ cur' = [cur EXCEPT ![i] = NoTask]
    /\ UNCHANGED << runnableVars, jobVars, dispatchLock, queue, aborted, dangling,
                    event, ret, calls, promised >>

\* Mutant: the task ends without looking at the queue again.
MayTearDownAlways == TRUE

\* The queue is looked at once more, under the lock that the flag is set under.
MayTearDown == queue = << >>

CheckQueue(i) ==
    /\ At(i, "check")
    /\ dispatchLock = NoThread
    /\ IF MayTearDown
         THEN m_curEventInTeardown' = TRUE /\ Goto(i, "tail")
         ELSE UNCHANGED m_curEventInTeardown /\ Goto(i, "dispatch")
    /\ UNCHANGED << runnableVars, m_running, m_curEvent, dispatchLock, queueVars, localVars >>

\* The task releases its outstanding count and its future becomes ready.
EndTask(i) ==
    /\ At(i, "tail")
    /\ Goto(i, "done")
    /\ UNCHANGED << runnableVars, jobVars, dispatchLock, queueVars, localVars >>

-----------------------------------------------------------------------------
Request(t) == Start(t) \/ Stop(t) \/ EnterWait(t) \/ Pend(t)

Continue(t) ==
    \/ Launch(t) \/ OnStart(t) \/ OnStartPending(t) \/ Started(t)
    \/ OnStopGraceful(t) \/ Release(t)
    \/ Wait(t) \/ DoAdditionalWait(t) \/ Join(t) \/ Waited(t)

TaskStep(i) == DispatchEvent(i) \/ RunThunk(i) \/ CheckQueue(i) \/ EndTask(i)

Next ==
    \/ \E t \in Clients : Request(t) \/ Continue(t)
    \/ \E i \in Tasks : TaskStep(i)
    \/ \E t \in Threads : Abort(t) \/ Unrun(t)

Spec == Init /\ [][Next]_vars

(* Fairness.  Threads inside a call and launched tasks go on, free mutexes are
   acquired, dispatchers end; nobody has to call an operation. *)
Fairness ==
    /\ \A t \in Clients : SF_vars(Continue(t) \/ Abort(t) \/ Unrun(t))
    /\ \A i \in Tasks : SF_vars(TaskStep(i) \/ Abort(i) \/ Unrun(i))

FairSpec == Spec /\ Fairness

-----------------------------------------------------------------------------
(* Safety *)

Launching == { t \in Clients : At(t, "launch") }

\* A job is serial: at most one task is dispatching, whatever futures were taken
\* by waiters meanwhile, none while a client is about to launch the next one, and
\* neither once the flag says that the last one looks at the queue no more.
OneDispatcher ==
    /\ \A i, j \in Active : i = j
    /\ Launching # {} => Active = {}
    /\ m_curEventInTeardown => Active = {} /\ Launching = {}

\* Nothing is stranded: while a running job has an entry on its list, a task is
\* dispatching, or a client is about to launch one or to look at the list.
NothingStranded ==
    queue # << >> /\ m_running
        => \/ Active # {} \/ Launching # {}
           \/ \E t \in Clients : At(t, "pending")

\* The list is never left pointing at destroyed entries.
NoDangling == ~dangling

\* When Wait has returned no dispatcher of the job is running.
WaitMeansIdle ==
    \A t \in Clients : At(t, "waited") => Active = {}

(* Liveness *)

\* On a job that was started everything accepted is run or dropped in the end:
\* "Something is already outstanding, it will handle dispatching for us."  What was
\* queued when a graceful stop began is run.
EveryThunkSettles ==
    \A k \in Thunks :
        /\ fate[k] = "queued" /\ m_running ~> fate[k] \in {"done", "dropped"}
        /\ k \in promised /\ m_running ~> fate[k] = "done"

\* Every call returns once the job was told to stop: neither the lock that is held
\* while an old task is waited for, nor the two waits of Wait, block for ever.
WaitReturns ==
    \A t \in Clients :
        m_shouldStop /\ ~At(t, "idle") ~> At(t, "idle")
=============================================================================
