---------------------------- MODULE CoreJobProofs ----------------------------
(***************************************************************************)
(* Proofs about CoreJob, for every set of clients and thunks, any program  *)
(* around the job and any number of tasks: type correctness with the lock  *)
(* discipline, that a job is serial, that nothing is stranded on a job     *)
(* whose dispatchers throw nothing, and, when one client stops the job and *)
(* one waits for it, that its list never dangles and Wait is final.        *)
(***************************************************************************)
EXTENDS CoreJob, SequenceTheorems, TLAPS

\* The inductive invariant: who launches is known by the lock it holds, and the
\* teardown flag excludes both a dispatching task and a launch.
Invariant == TypeOK /\ OneDispatcher

LEMMA ThreadFacts ==
    /\ Clients \subseteq Threads /\ Tasks \subseteq Threads
    /\ Clients \cap Tasks = {} /\ NoThread \notin Clients
    /\ NoTask \notin Tasks /\ Thunks \subseteq Jobs /\ AbortLambda \in Jobs
  BY ConstantsAssumption DEF Threads, Tasks, NoTask, Jobs

LEMMA AppendInSeq ==
    ASSUME NEW k \in Jobs, queue \in Seq(Jobs)
    PROVE  Append(queue, k) \in Seq(Jobs)
  BY AppendProperties

LEMMA PopInSeq ==
    ASSUME queue \in Seq(Jobs), queue # << >>
    PROVE  Head(queue) \in Jobs /\ Tail(queue) \in Seq(Jobs)
  BY HeadTailProperties

LEMMA InitInvariant == Init => Invariant
  <1> SUFFICES ASSUME Init PROVE Invariant
    OBVIOUS
  <1> USE ThreadFacts
  <1>1. pc \in [Threads -> {"idle", "none"}]
    BY DEF Init
  <1>2. Active = {} /\ Launching = {}
    BY DEF Init, Active, Launching, At
  <1>3. TypeOK
    <2>1. queue \in Seq(Jobs)
      BY EmptySeq DEF Init
    <2>2. LocksHeld
      BY <1>2 DEF Init, LocksHeld, Launching, At
    <2> QED BY <1>1, <2>1, <2>2 DEF Init, TypeOK, ClientPCs, TaskPCs
  <1>4. OneDispatcher
    BY <1>2 DEF OneDispatcher
  <1> QED BY <1>3, <1>4 DEF Invariant

-----------------------------------------------------------------------------
\* The conjuncts of TypeOK and OneDispatcher that depend on pc and the locks.
Control ==
    /\ pc \in [Threads -> ClientPCs \cup TaskPCs]
    /\ \A t \in Clients : pc[t] \in ClientPCs
    /\ \A i \in Tasks : pc[i] \in TaskPCs
    /\ m_lock \in Clients \cup {NoThread}
    /\ dispatchLock \in Clients \cup {NoThread}
    /\ m_curEventInTeardown \in BOOLEAN
    /\ ret \in [Clients -> {"idle", "started", "release"}]
    /\ LocksHeld
    /\ OneDispatcher

\* The other conjuncts of TypeOK.
Data ==
    /\ {m_wasStarted, m_shouldStop, m_outstanding, m_running, aborted, dangling}
         \subseteq BOOLEAN
    /\ m_curEvent \in Tasks \cup {NoTask}
    /\ queue \in Seq(Jobs)
    /\ fate \in [Thunks -> {"new", "queued", "done", "dropped", "refused"}]
    /\ cur \in [Tasks -> Jobs \cup {NoTask}]
    /\ event \in [Clients -> Tasks \cup {NoTask}]
    /\ calls \in Programs
    /\ promised \subseteq Thunks

LEMMA InvariantParts == Invariant <=> Control /\ Data
  BY DEF Invariant, Control, Data, TypeOK

LEMMA InvariantPartsNext == Invariant' <=> Control' /\ Data'
  BY DEF Invariant, Control, Data, TypeOK

\* A client that moves between points other than "launch" and leaves the task
\* and the flag alone keeps Control, if it keeps the lock discipline.
LEMMA ClientMoves ==
    ASSUME Control, NEW t \in Clients, NEW l \in ClientPCs \ {"launch"},
           pc[t] # "launch", Goto(t, l),
           UNCHANGED << dispatchLock, m_curEventInTeardown, ret >>,
           m_lock' \in {m_lock, NoThread, t},
           m_lock' = t => l \in {"onstart", "pending", "started", "abort", "unrun", "release"}
    PROVE  Control'
  <1> USE ThreadFacts
  <1>1. pc' = [pc EXCEPT ![t] = l]
    BY DEF Goto
  <1>2. /\ pc' \in [Threads -> ClientPCs \cup TaskPCs]
        /\ \A u \in Clients : pc'[u] \in ClientPCs
        /\ \A i \in Tasks : pc'[i] \in TaskPCs /\ pc'[i] = pc[i]
    BY <1>1 DEF Control
  <1>3. Active' = Active
    BY <1>2 DEF Active
  <1>4. Launching' = Launching
    BY <1>1 DEF Launching, At, Control
  <1>5. OneDispatcher'
    BY <1>3, <1>4 DEF OneDispatcher, Control
  <1>6. LocksHeld'
    BY <1>1 DEF LocksHeld, At, Control
  <1>7. m_lock' \in Clients \cup {NoThread}
    BY DEF Control
  <1> QED BY <1>2, <1>5, <1>6, <1>7 DEF Control

\* A task that moves without leaving or entering the active points keeps Control,
\* and so does one that leaves them.
LEMMA TaskMoves ==
    ASSUME Control, NEW i \in Tasks, NEW l \in TaskPCs, Goto(i, l),
           l \in {"dispatch", "run", "unrun", "check"} => i \in Active,
           UNCHANGED << dispatchLock, m_lock, ret >>,
           m_curEventInTeardown' \in BOOLEAN,
           m_curEventInTeardown' # m_curEventInTeardown
             => i \in Active /\ l = "tail"
    PROVE  Control'
  <1> USE ThreadFacts
  <1>1. pc' = [pc EXCEPT ![i] = l]
    BY DEF Goto
  <1>2. /\ pc' \in [Threads -> ClientPCs \cup TaskPCs]
        /\ \A t \in Clients : pc'[t] \in ClientPCs /\ pc'[t] = pc[t]
        /\ \A j \in Tasks : pc'[j] \in TaskPCs
    BY <1>1 DEF Control
  <1>3. Active' \subseteq Active
    BY <1>1 DEF Active, Control
  <1>4. Launching' = Launching
    BY <1>2 DEF Launching, At
  <1>5. m_curEventInTeardown' # m_curEventInTeardown => Active' = {} /\ Launching = {}
    BY <1>1 DEF Active, Control, OneDispatcher
  <1>6. OneDispatcher'
    BY <1>3, <1>4, <1>5 DEF OneDispatcher, Control
  <1>7. LocksHeld'
    BY <1>2 DEF LocksHeld, At, Control
  <1> QED BY <1>2, <1>6, <1>7 DEF Control

\* OnPended keeps Control and types: to launch, the flag must be up.
LEMMA OnPendedKeeps ==
    ASSUME Control, Data, NEW t \in Clients, NEW l \in {"idle", "started", "release"},
           NEW q \in Seq(Jobs),
           NEW f \in [Thunks -> {"new", "queued", "done", "dropped", "refused"}],
           dispatchLock = NoThread, pc[t] # "launch",
           m_lock' = m_lock, m_lock = t => l = "started",
           OnPended(t, q, f, l)
    PROVE  Control' /\ {m_running', aborted', dangling'} \subseteq BOOLEAN
           /\ m_curEvent' \in Tasks \cup {NoTask}
           /\ queue' \in Seq(Jobs)
           /\ fate' \in [Thunks -> {"new", "queued", "done", "dropped", "refused"}]
           /\ event' \in [Clients -> Tasks \cup {NoTask}]
  <1> USE ThreadFacts
  <1>0. aborted' = aborted /\ aborted \in BOOLEAN
    BY DEF OnPended, Data
  <1>1. CASE Leaves
    <2>1. /\ Goto(t, l) /\ queue' = q /\ fate' = f
          /\ UNCHANGED << jobVars, dispatchLock, dangling, event, ret >>
      BY <1>1 DEF OnPended
    <2>2. Control'
      BY <2>1, ClientMoves DEF jobVars, ClientPCs
    <2> QED BY <1>0, <2>1, <2>2 DEF Data, jobVars
  <1>2. CASE ~Leaves /\ ~m_outstanding
    <2>1. /\ Goto(t, l) /\ queue' = << >>
          /\ fate' = [k \in Thunks |-> IF k \in Range(q) THEN "dropped" ELSE f[k]]
          /\ dangling' = TRUE
          /\ UNCHANGED << jobVars, dispatchLock, event, ret >>
      BY <1>2 DEF OnPended
    <2>2. Control'
      BY <2>1, ClientMoves DEF jobVars, ClientPCs
    <2>3. queue' \in Seq(Jobs)
      BY <2>1, EmptySeq
    <2>4. fate' \in [Thunks -> {"new", "queued", "done", "dropped", "refused"}]
      BY <2>1
    <2> QED BY <1>0, <2>1, <2>2, <2>3, <2>4 DEF Data, jobVars
  <1>3. CASE ~Leaves /\ m_outstanding
    <2>1. /\ pc' = [pc EXCEPT ![t] = "launch"] /\ queue' = q /\ fate' = f
          /\ ret' = [ret EXCEPT ![t] = l]
          /\ dispatchLock' = t
          /\ m_curEventInTeardown' = FALSE
          /\ event' = [event EXCEPT ![t] = m_curEvent]
          /\ m_curEvent' = NoTask
          /\ UNCHANGED << m_running, dangling >>
      BY <1>3 DEF OnPended, Goto
    <2>2. m_curEventInTeardown /\ Active = {} /\ Launching = {}
      BY <1>3 DEF Leaves, Control, OneDispatcher
    <2>3. /\ pc' \in [Threads -> ClientPCs \cup TaskPCs]
          /\ \A u \in Clients : pc'[u] \in ClientPCs
          /\ \A i \in Tasks : pc'[i] \in TaskPCs /\ pc'[i] = pc[i]
      BY <2>1 DEF Control, ClientPCs
    <2>4. Active' = {}
      BY <2>2, <2>3 DEF Active
    <2>5. OneDispatcher'
      BY <2>1, <2>4 DEF OneDispatcher
    <2>6. LocksHeld'
      BY <2>1 DEF LocksHeld, At, Control
    <2>7. Control'
      BY <2>1, <2>3, <2>5, <2>6 DEF Control
    <2> QED BY <1>0, <2>1, <2>7 DEF Data
  <1> QED BY <1>1, <1>2, <1>3

LEMMA DroppedInType ==
    ASSUME Data, NEW s
    PROVE  Dropped(s) \in [Thunks -> {"new", "queued", "done", "dropped", "refused"}]
  BY DEF Dropped, Data

-----------------------------------------------------------------------------
\* Every step of a client keeps the invariant.
LEMMA ClientStep ==
    ASSUME Control, Data, NEW t \in Clients, Request(t) \/ Continue(t)
    PROVE  Control' /\ Data'
  <1> USE ThreadFacts
  <1>1. CASE Pend(t)
    <2>1. /\ pc[t] = "idle" /\ dispatchLock = NoThread
          /\ UNCHANGED << runnableVars, cur, calls, promised >>
      BY <1>1 DEF Pend, Calling, At
    <2>2. PICK k \in Thunks :
            /\ fate[k] = "new"
            /\ \/ /\ aborted
                  /\ fate' = [fate EXCEPT ![k] = "refused"]
                  /\ UNCHANGED << jobVars, dispatchLock, queue, aborted, dangling, pc, event, ret >>
               \/ /\ ~aborted
                  /\ OnPended(t, Append(queue, k), [fate EXCEPT ![k] = "queued"], "idle")
      BY <1>1 DEF Pend
    <2>3. CASE aborted
      <3>1. Control'
        <4>1. UNCHANGED << pc, dispatchLock, m_lock, m_curEventInTeardown, ret >>
          BY <2>1, <2>2, <2>3 DEF jobVars, runnableVars
        <4> QED BY <4>1 DEF Control, OneDispatcher, LocksHeld, Active, Launching, At
      <3>2. Data'
        BY <2>1, <2>2, <2>3 DEF Data, jobVars, runnableVars
      <3> QED BY <3>1, <3>2
    <2>4. CASE ~aborted
      <3> DEFINE q == Append(queue, k)
                 f == [fate EXCEPT ![k] = "queued"]
      <3>1. OnPended(t, q, f, "idle")
        BY <2>2, <2>4
      <3>2. q \in Seq(Jobs)
        BY AppendInSeq DEF Data
      <3>3. f \in [Thunks -> {"new", "queued", "done", "dropped", "refused"}]
        BY DEF Data
      <3>4. m_lock' = m_lock /\ m_lock # t
        BY <2>1 DEF runnableVars, Control, LocksHeld, At
      <3> HIDE DEF q, f
      <3> QED BY <2>1, <3>1, <3>2, <3>3, <3>4, OnPendedKeeps DEF Data, runnableVars
    <2> QED BY <2>3, <2>4
  <1>2. CASE Start(t)
    <2>1. CASE m_wasStarted \/ m_outstanding \/ m_shouldStop
      <3>1. UNCHANGED << pc, dispatchLock, m_lock, m_curEventInTeardown, ret >>
        BY <1>2, <2>1 DEF Start, jobVars, localVars
      <3>2. Control'
        BY <3>1 DEF Control, OneDispatcher, LocksHeld, Active, Launching, At
      <3> QED BY <1>2, <2>1, <3>2 DEF Start, Data, jobVars, queueVars, localVars
    <2>2. CASE ~(m_wasStarted \/ m_outstanding \/ m_shouldStop)
      <3>1. Control'
        BY <1>2, <2>2, ClientMoves DEF Start, Calling, At, ClientPCs, jobVars, localVars
      <3> QED BY <1>2, <2>2, <3>1 DEF Start, Data, jobVars, queueVars, localVars
    <2> QED BY <2>1, <2>2
  <1>3. CASE Stop(t)
    <2>1. CASE m_shouldStop
      <3>1. UNCHANGED << pc, dispatchLock, m_lock, m_curEventInTeardown, ret >>
        BY <1>3, <2>1 DEF Stop, jobVars, localVars
      <3>2. Control'
        BY <3>1 DEF Control, OneDispatcher, LocksHeld, Active, Launching, At
      <3> QED BY <1>3, <2>1, <3>2 DEF Stop, Data, jobVars, queueVars, localVars
    <2>2. CASE ~m_shouldStop
      <3>1. PICK l \in {"graceful", "abort"} : Goto(t, l)
        BY <1>3, <2>2 DEF Stop
      <3>2. Control'
        BY <1>3, <2>2, <3>1, ClientMoves
           DEF Stop, Calling, At, ClientPCs, jobVars, localVars, Control, LocksHeld
      <3> QED BY <1>3, <2>2, <3>2 DEF Stop, Data, jobVars, queueVars, localVars
    <2> QED BY <2>1, <2>2
  <1>4. CASE EnterWait(t)
    <2>1. PICK l \in {"wait", "waitfor"} : Goto(t, l)
      BY <1>4 DEF EnterWait
    <2>2. Control'
      BY <1>4, <2>1, ClientMoves
         DEF EnterWait, Calling, At, ClientPCs, jobVars, localVars, runnableVars, Control, LocksHeld
    <2> QED BY <1>4, <2>2 DEF EnterWait, Data, jobVars, queueVars, localVars, runnableVars
  <1>5. CASE Launch(t)
    <2>1. PICK i \in Tasks :
            /\ pc[i] = "none"
            /\ m_curEvent' = i
            /\ pc' = [pc EXCEPT ![i] = "dispatch", ![t] = ret[t]]
      BY <1>5 DEF Launch
    <2>2. /\ pc[t] = "launch" /\ dispatchLock' = NoThread
          /\ event' = [event EXCEPT ![t] = NoTask]
          /\ UNCHANGED << runnableVars, m_running, m_curEventInTeardown, queueVars, cur,
                          ret, calls, promised >>
      BY <1>5 DEF Launch, At
    <2>3. Active = {} /\ ~m_curEventInTeardown /\ t \in Launching /\ dispatchLock = t
      BY <2>2 DEF Control, OneDispatcher, Launching, At, LocksHeld
    <2>4. /\ pc' \in [Threads -> ClientPCs \cup TaskPCs]
          /\ pc'[t] = ret[t] /\ pc'[i] = "dispatch"
          /\ \A u \in Threads \ {t, i} : pc'[u] = pc[u]
      BY <2>1 DEF Control, ClientPCs, TaskPCs
    <2>5. /\ \A u \in Clients : pc'[u] \in ClientPCs
          /\ \A j \in Tasks : pc'[j] \in TaskPCs
      BY <2>4 DEF Control, ClientPCs, TaskPCs
    <2>6. Active' = {i}
      BY <2>3, <2>4 DEF Active
    <2>7. \A u \in Clients : pc'[u] # "launch"
      BY <2>3, <2>4 DEF Control, LocksHeld, At
    <2>8. OneDispatcher'
      BY <2>2, <2>3, <2>6, <2>7 DEF OneDispatcher, Launching, At
    <2>9. LocksHeld'
      BY <2>2, <2>3, <2>4, <2>7 DEF LocksHeld, At, Control, runnableVars
    <2>10. Control'
      BY <2>2, <2>4, <2>5, <2>8, <2>9 DEF Control, runnableVars
    <2> QED BY <2>1, <2>2, <2>10 DEF Data, runnableVars, queueVars
  <1>6. CASE OnStart(t)
    <2>1. PICK l \in {"pending", "abort"} : Goto(t, l)
      BY <1>6 DEF OnStart
    <2>2. Control'
      BY <1>6, <2>1, ClientMoves DEF OnStart, At, ClientPCs, localVars
    <2> QED BY <1>6, <2>2 DEF OnStart, Data, queueVars, localVars
  <1>7. CASE OnStartPending(t)
    <2>1. /\ pc[t] = "pending" /\ dispatchLock = NoThread
          /\ UNCHANGED << runnableVars, cur, calls, promised >>
      BY <1>7 DEF OnStartPending, At
    <2>2. CASE HasBacklog
      <3>1. OnPended(t, queue, fate, "started")
        BY <1>7, <2>2 DEF OnStartPending
      <3> QED BY <2>1, <3>1, OnPendedKeeps DEF Data, runnableVars
    <2>3. CASE ~HasBacklog
      <3>1. /\ Goto(t, "started")
            /\ UNCHANGED << jobVars, dispatchLock, queueVars, event, ret >>
        BY <1>7, <2>3 DEF OnStartPending
      <3>2. Control'
        BY <2>1, <3>1, ClientMoves DEF ClientPCs, jobVars, runnableVars
      <3> QED BY <2>1, <3>1, <3>2 DEF Data, jobVars, queueVars, runnableVars
    <2> QED BY <2>2, <2>3
  <1>8. CASE Started(t)
    <2>1. Control'
      BY <1>8, ClientMoves DEF Started, At, ClientPCs, jobVars, localVars
    <2> QED BY <1>8, <2>1 DEF Started, Data, jobVars, queueVars, localVars
  <1>9. CASE OnStopGraceful(t)
    <2> DEFINE q == Append(queue, AbortLambda)
    <2>1. /\ pc[t] = "graceful" /\ dispatchLock = NoThread
          /\ OnPended(t, q, fate, "release")
          /\ promised' = Range(queue) \cap Thunks
          /\ UNCHANGED << runnableVars, cur, calls >>
      BY <1>9 DEF OnStopGraceful, At
    <2>2. q \in Seq(Jobs)
      BY AppendInSeq DEF Data
    <2>3. m_lock # t
      BY <2>1 DEF Control, LocksHeld, At
    <2> HIDE DEF q
    <2> QED BY <2>1, <2>2, <2>3, OnPendedKeeps DEF Data, runnableVars
  <1>10. CASE Release(t)
    <2>1. Control'
      BY <1>10, ClientMoves DEF Release, At, ClientPCs, jobVars, localVars
    <2> QED BY <1>10, <2>1 DEF Release, Data, jobVars, queueVars, localVars
  <1>11. CASE Wait(t)
    <2>1. PICK l \in {"join", "idle"} : Goto(t, l)
      BY <1>11 DEF Wait
    <2>2. Control'
      BY <1>11, <2>1, ClientMoves
         DEF Wait, At, ClientPCs, jobVars, localVars, runnableVars, Control, LocksHeld
    <2> QED BY <1>11, <2>2 DEF Wait, Data, jobVars, queueVars, localVars, runnableVars
  <1>12. CASE DoAdditionalWait(t)
    <2>1. Control'
      BY <1>12, ClientMoves DEF DoAdditionalWait, At, ClientPCs, runnableVars, Control, LocksHeld
    <2> QED BY <1>12, <2>1 DEF DoAdditionalWait, Data, queueVars, runnableVars
  <1>13. CASE Join(t)
    <2>1. Control'
      BY <1>13, ClientMoves DEF Join, At, ClientPCs, runnableVars, jobVars, Control, LocksHeld
    <2> QED BY <1>13, <2>1 DEF Join, Data, queueVars, runnableVars, jobVars
  <1>14. CASE Waited(t)
    <2>1. Control'
      BY <1>14, ClientMoves
         DEF Waited, At, ClientPCs, runnableVars, jobVars, localVars, Control, LocksHeld
    <2> QED BY <1>14, <2>1 DEF Waited, Data, queueVars, runnableVars, jobVars, localVars
  <1> QED BY <1>1, <1>2, <1>3, <1>4, <1>5, <1>6, <1>7, <1>8, <1>9, <1>10, <1>11, <1>12,
             <1>13, <1>14 DEF Request, Continue

-----------------------------------------------------------------------------
\* Every step of a task keeps the invariant: only a task whose check found the
\* list empty raises the flag, and it stops being active with it.
LEMMA TaskStepKeeps ==
    ASSUME Control, Data, NEW i \in Tasks, TaskStep(i)
    PROVE  Control' /\ Data'
  <1> USE ThreadFacts
  <1>1. CASE DispatchEvent(i)
    <2>1. /\ pc[i] = "dispatch"
          /\ UNCHANGED << runnableVars, jobVars, dispatchLock, aborted, dangling, fate,
                          event, ret, calls, promised >>
      BY <1>1 DEF DispatchEvent, At
    <2>2. i \in Active
      BY <2>1 DEF Active
    <2>3. CASE queue = << >>
      <3>1. Goto(i, "check") /\ UNCHANGED << queue, cur >>
        BY <1>1, <2>3 DEF DispatchEvent
      <3>2. Control'
        BY <2>1, <2>2, <3>1, TaskMoves DEF TaskPCs, jobVars, runnableVars, Control
      <3> QED BY <2>1, <3>1, <3>2 DEF Data, jobVars, runnableVars
    <2>4. CASE queue # << >>
      <3>1. /\ cur' = [cur EXCEPT ![i] = Head(queue)]
            /\ queue' = Tail(queue)
            /\ Goto(i, "run")
        BY <1>1, <2>4 DEF DispatchEvent
      <3>2. Control'
        BY <2>1, <2>2, <3>1, TaskMoves DEF TaskPCs, jobVars, runnableVars, Control
      <3>3. Head(queue) \in Jobs /\ Tail(queue) \in Seq(Jobs)
        BY <2>4, PopInSeq DEF Data
      <3> QED BY <2>1, <3>1, <3>2, <3>3 DEF Data, jobVars, runnableVars
    <2> QED BY <2>3, <2>4
  <1>2. CASE RunThunk(i)
    <2>1. /\ pc[i] = "run"
          /\ fate' = [fate EXCEPT ![cur[i]] = "done"]
          /\ cur' = [cur EXCEPT ![i] = NoTask]
          /\ UNCHANGED << runnableVars, jobVars, dispatchLock, queue, aborted, dangling,
                          event, ret, calls, promised >>
      BY <1>2 DEF RunThunk, At
    <2>2. i \in Active
      BY <2>1 DEF Active
    <2>3. PICK l \in {"done", "dispatch"} : Goto(i, l)
      BY <1>2 DEF RunThunk
    <2>4. Control'
      BY <2>1, <2>2, <2>3, TaskMoves DEF TaskPCs, jobVars, runnableVars, Control
    <2> QED BY <2>1, <2>4 DEF Data, jobVars, runnableVars
  <1>3. CASE CheckQueue(i)
    <2>1. /\ pc[i] = "check"
          /\ UNCHANGED << runnableVars, m_running, m_curEvent, dispatchLock, queueVars, localVars >>
      BY <1>3 DEF CheckQueue, At
    <2>2. i \in Active
      BY <2>1 DEF Active
    <2>3. Control'
      <3>1. CASE MayTearDown
        BY <1>3, <2>1, <2>2, <3>1, TaskMoves
           DEF CheckQueue, TaskPCs, runnableVars, localVars, Control
      <3>2. CASE ~MayTearDown
        BY <1>3, <2>1, <2>2, <3>2, TaskMoves
           DEF CheckQueue, TaskPCs, runnableVars, localVars, Control
      <3> QED BY <3>1, <3>2
    <2> QED BY <2>1, <2>3 DEF Data, runnableVars, queueVars, localVars
  <1>4. CASE EndTask(i)
    <2>1. Control'
      BY <1>4, TaskMoves DEF EndTask, TaskPCs, jobVars, runnableVars, localVars, Control
    <2> QED BY <1>4, <2>1 DEF EndTask, Data, jobVars, queueVars, localVars, runnableVars
  <1> QED BY <1>1, <1>2, <1>3, <1>4 DEF TaskStep

\* Abort, by a client or by the lambda in a task, keeps the invariant.
LEMMA AbortKeeps ==
    ASSUME Control, Data, NEW t \in Threads, Abort(t) \/ Unrun(t)
    PROVE  Control' /\ Data'
  <1> USE ThreadFacts
  <1>0. t \in Clients \/ t \in Tasks
    BY DEF Threads
  <1>1. CASE Abort(t)
    <2>1. /\ queue' = << >> /\ fate' = Dropped(queue) /\ aborted' = TRUE
          /\ Goto(t, "unrun")
          /\ UNCHANGED << runnableVars, jobVars, dispatchLock, dangling, localVars >>
      BY <1>1 DEF Abort, ClearsQueue
    <2>2. Control'
      <3>1. CASE t \in Clients
        <4>1. pc[t] = "abort"
          BY <1>1, <3>1 DEF Abort, At
        <4> QED BY <2>1, <3>1, <4>1, ClientMoves DEF ClientPCs, runnableVars, jobVars, localVars
      <3>2. CASE t \in Tasks
        <4>1. t \in Active
          BY <1>1, <3>2 DEF Abort, At, Active
        <4> QED BY <2>1, <3>2, <4>1, TaskMoves
                DEF TaskPCs, runnableVars, jobVars, localVars, Control
      <3> QED BY <1>0, <3>1, <3>2
    <2>3. queue' \in Seq(Jobs)
      BY <2>1, EmptySeq
    <2>4. fate' \in [Thunks -> {"new", "queued", "done", "dropped", "refused"}]
      BY <2>1, DroppedInType
    <2> QED BY <2>1, <2>2, <2>3, <2>4 DEF Data, runnableVars, jobVars, localVars
  <1>2. CASE Unrun(t)
    <2>1. /\ pc[t] = "unrun" /\ m_running' = FALSE
          /\ UNCHANGED << runnableVars, m_curEvent, m_curEventInTeardown, dispatchLock,
                          queueVars, localVars >>
      BY <1>2 DEF Unrun, At
    <2>2. Control'
      <3>1. CASE t \in Clients
        <4>1. Goto(t, "release")
          BY <1>2, <3>1 DEF Unrun
        <4> QED BY <2>1, <3>1, <4>1, ClientMoves DEF ClientPCs, runnableVars, localVars
      <3>2. CASE t \in Tasks
        <4>1. Goto(t, "dispatch") /\ t \in Active
          BY <1>2, <2>1, <3>2 DEF Unrun, Active
        <4> QED BY <2>1, <3>2, <4>1, TaskMoves DEF TaskPCs, runnableVars, localVars, Control
      <3> QED BY <1>0, <3>1, <3>2
    <2> QED BY <2>1, <2>2 DEF Data, runnableVars, queueVars, localVars
  <1> QED BY <1>1, <1>2

LEMMA NextInvariant == Invariant /\ [Next]_vars => Invariant'
  <1> SUFFICES ASSUME Control, Data, [Next]_vars PROVE Control' /\ Data'
    BY InvariantParts, InvariantPartsNext
  <1>1. CASE Next
    BY <1>1, ClientStep, TaskStepKeeps, AbortKeeps DEF Next
  <1>2. CASE UNCHANGED vars
    <2>1. Control'
      BY <1>2 DEF vars, runnableVars, jobVars, localVars, Control, OneDispatcher, LocksHeld,
                  Active, Launching, At
    <2> QED BY <1>2, <2>1 DEF vars, runnableVars, jobVars, queueVars, localVars, Data
  <1> QED BY <1>1, <1>2

LEMMA InvariantHolds == Spec => []Invariant
  BY InitInvariant, NextInvariant, PTL DEF Spec

-----------------------------------------------------------------------------
\* Every variable keeps its type and the locks are held across steps only where
\* the code holds them, whatever the clients call and however dispatchers end.
THEOREM TypeCorrect == Spec => []TypeOK
  <1>1. Invariant => TypeOK
    BY DEF Invariant
  <1> QED BY <1>1, InvariantHolds, PTL

\* A job is serial: OnPended launches a task only when no other is dispatching.
THEOREM Serial == Spec => []OneDispatcher
  <1>1. Invariant => OneDispatcher
    BY DEF Invariant
  <1> QED BY <1>1, InvariantHolds, PTL

-----------------------------------------------------------------------------
(* Nothing is stranded, if dispatchers do not throw. *)

\* The teardown flag is down only while somebody will look at the list again.
Attended == ~m_curEventInTeardown => Active # {} \/ Launching # {}

Pending == { t \in Clients : At(t, "pending") }

Served == Attended /\ NothingStranded

LEMMA ServedIs ==
    Served <=> /\ ~m_curEventInTeardown => Active # {} \/ Launching # {}
               /\ queue # << >> /\ m_running
                    => Active # {} \/ Launching # {} \/ Pending # {}
  BY DEF Served, Attended, NothingStranded, Pending

LEMMA ServedIsNext ==
    Served' <=> /\ ~m_curEventInTeardown' => Active' # {} \/ Launching' # {}
                /\ queue' # << >> /\ m_running'
                     => Active' # {} \/ Launching' # {} \/ Pending' # {}
  BY DEF Served, Attended, NothingStranded, Pending

\* What a client that moves does to the sets above.
LEMMA ClientSets ==
    ASSUME Control, NEW t \in Clients, NEW l \in ClientPCs, Goto(t, l)
    PROVE  /\ Active' = Active
           /\ pc[t] # "launch" => Launching \subseteq Launching'
           /\ pc[t] # "pending" => Pending \subseteq Pending'
           /\ l = "launch" => Launching' # {}
           /\ l = "pending" => Pending' # {}
  <1> USE ThreadFacts
  <1>1. /\ pc'[t] = l
        /\ \A u \in Threads \ {t} : pc'[u] = pc[u]
    BY DEF Goto, Control
  <1>2. Active' = Active
    BY <1>1 DEF Active
  <1>3. /\ Launching = { u \in Clients : pc[u] = "launch" }
        /\ Launching' = { u \in Clients : pc'[u] = "launch" }
        /\ Pending = { u \in Clients : pc[u] = "pending" }
        /\ Pending' = { u \in Clients : pc'[u] = "pending" }
    BY DEF Launching, Pending, At
  <1> QED BY <1>1, <1>2, <1>3

\* A task that stays active, or is the only one to change, leaves clients alone.
LEMMA TaskSets ==
    ASSUME Control, NEW i \in Tasks, NEW l \in TaskPCs, Goto(i, l)
    PROVE  /\ Launching' = Launching /\ Pending' = Pending
           /\ l \in {"dispatch", "run", "unrun", "check"} => Active' # {}
           /\ i \notin Active => Active \subseteq Active'
  <1> USE ThreadFacts
  <1>1. /\ pc'[i] = l
        /\ \A u \in Threads \ {i} : pc'[u] = pc[u]
    BY DEF Goto, Control
  <1>2. Launching' = Launching /\ Pending' = Pending
    BY <1>1 DEF Launching, Pending, At
  <1>3. /\ Active' = { j \in Tasks : pc'[j] \in {"dispatch", "run", "unrun", "check"} }
        /\ Active = { j \in Tasks : pc[j] \in {"dispatch", "run", "unrun", "check"} }
    BY DEF Active
  <1> QED BY <1>1, <1>2, <1>3

\* OnPended leaves the entry to somebody, destroys it or launches a task.
LEMMA OnPendedServes ==
    ASSUME Control, Served, NEW t \in Clients, NEW l \in {"idle", "started", "release"},
           NEW q, NEW f, pc[t] # "launch", OnPended(t, q, f, l)
    PROVE  Served'
  <1> USE ThreadFacts
  <1>1. CASE Leaves
    <2>1. /\ Goto(t, l)
          /\ UNCHANGED << m_running, m_curEventInTeardown >>
      BY <1>1 DEF OnPended, jobVars
    <2>2. Active' = Active /\ Launching \subseteq Launching'
      BY <2>1, ClientSets DEF ClientPCs
    <2> QED BY <1>1, <2>1, <2>2, ServedIs, ServedIsNext DEF Leaves
  <1>2. CASE ~Leaves /\ ~m_outstanding
    <2>1. /\ Goto(t, l) /\ queue' = << >>
          /\ UNCHANGED m_curEventInTeardown
      BY <1>2 DEF OnPended, jobVars
    <2>2. Active' = Active /\ Launching \subseteq Launching'
      BY <2>1, ClientSets DEF ClientPCs
    <2> QED BY <2>1, <2>2, ServedIs, ServedIsNext
  <1>3. CASE ~Leaves /\ m_outstanding
    <2>1. Goto(t, "launch")
      BY <1>3 DEF OnPended
    <2>2. Launching' # {}
      BY <2>1, ClientSets DEF ClientPCs
    <2> QED BY <2>2, ServedIsNext
  <1> QED BY <1>1, <1>2, <1>3

\* A client's step that neither pends nor launches: the flag and the list stay,
\* and if m_running is set the client is at "pending".
LEMMA ClientServes ==
    ASSUME Control, Served, NEW t \in Clients, NEW l \in ClientPCs, Goto(t, l),
           pc[t] \notin {"launch", "pending"},
           m_curEventInTeardown' = m_curEventInTeardown,
           queue' \in {queue, << >>},
           m_running' => m_running \/ l = "pending"
    PROVE  Served'
  <1>1. /\ Active' = Active /\ Launching \subseteq Launching' /\ Pending \subseteq Pending'
        /\ l = "pending" => Pending' # {}
    BY ClientSets
  <1> QED BY <1>1, ServedIs, ServedIsNext

LEMMA ClientStepServes ==
    ASSUME Control, Data, Served, NEW t \in Clients, Request(t) \/ Continue(t)
    PROVE  Served'
  <1> USE ThreadFacts DEF At, Calling
  <1>0. ASSUME UNCHANGED << pc, queue, m_running, m_curEventInTeardown >> PROVE Served'
    BY <1>0 DEF Served, Attended, NothingStranded, Active, Launching
  <1>1. CASE Pend(t)
    <2>1. PICK k \in Thunks :
            \/ UNCHANGED << jobVars, queue, pc >>
            \/ OnPended(t, Append(queue, k), [fate EXCEPT ![k] = "queued"], "idle")
      BY <1>1 DEF Pend
    <2>2. pc[t] # "launch"
      BY <1>1 DEF Pend
    <2>3. CASE UNCHANGED << jobVars, queue, pc >>
      BY <1>0, <2>3 DEF jobVars
    <2>4. CASE OnPended(t, Append(queue, k), [fate EXCEPT ![k] = "queued"], "idle")
      BY <2>2, <2>4, OnPendedServes
    <2> QED BY <2>1, <2>3, <2>4
  <1>2. CASE Start(t)
    <2>1. CASE m_wasStarted \/ m_outstanding \/ m_shouldStop
      BY <1>0, <1>2, <2>1 DEF Start, jobVars, queueVars
    <2>2. CASE ~(m_wasStarted \/ m_outstanding \/ m_shouldStop)
      BY <1>2, <2>2, ClientServes DEF Start, jobVars, queueVars, ClientPCs
    <2> QED BY <2>1, <2>2
  <1>3. CASE Stop(t)
    <2>1. CASE m_shouldStop
      BY <1>0, <1>3, <2>1 DEF Stop, jobVars, queueVars
    <2>2. CASE ~m_shouldStop
      <3>1. PICK l \in {"graceful", "abort"} : Goto(t, l)
        BY <1>3, <2>2 DEF Stop
      <3> QED BY <1>3, <3>1, ClientServes DEF Stop, jobVars, queueVars, ClientPCs
    <2> QED BY <2>1, <2>2
  <1>4. CASE EnterWait(t)
    <2>1. PICK l \in {"wait", "waitfor"} : Goto(t, l)
      BY <1>4 DEF EnterWait
    <2> QED BY <1>4, <2>1, ClientServes DEF EnterWait, jobVars, queueVars, ClientPCs
  <1>5. CASE Launch(t)
    <2>1. PICK i \in Tasks : pc' = [pc EXCEPT ![i] = "dispatch", ![t] = ret[t]]
      BY <1>5 DEF Launch
    <2>2. pc'[i] = "dispatch"
      BY <2>1 DEF Control
    <2>3. Active' # {}
      BY <2>2 DEF Active
    <2> QED BY <2>3, ServedIsNext
  <1>6. CASE OnStart(t)
    <2>1. PICK l \in {"pending", "abort"} : Goto(t, l) /\ (l = "abort" => m_running' = m_running)
      BY <1>6 DEF OnStart
    <2> QED BY <1>6, <2>1, ClientServes DEF OnStart, queueVars, ClientPCs
  <1>7. CASE OnStartPending(t)
    <2>1. CASE HasBacklog
      BY <1>7, <2>1, OnPendedServes DEF OnStartPending
    <2>2. CASE ~HasBacklog
      <3>1. Goto(t, "started") /\ UNCHANGED << jobVars, queueVars >> /\ pc[t] = "pending"
        BY <1>7, <2>2 DEF OnStartPending
      <3>2. Active' = Active /\ Launching \subseteq Launching'
        BY <3>1, ClientSets DEF ClientPCs
      <3> QED BY <2>2, <3>1, <3>2, ServedIs, ServedIsNext DEF HasBacklog, jobVars, queueVars
    <2> QED BY <2>1, <2>2
  <1>8. CASE Started(t)
    BY <1>8, ClientServes DEF Started, jobVars, queueVars, ClientPCs
  <1>9. CASE OnStopGraceful(t)
    BY <1>9, OnPendedServes DEF OnStopGraceful
  <1>10. CASE Release(t)
    BY <1>10, ClientServes DEF Release, jobVars, queueVars, ClientPCs
  <1>11. CASE Wait(t)
    <2>1. PICK l \in {"join", "idle"} : Goto(t, l)
      BY <1>11 DEF Wait
    <2> QED BY <1>11, <2>1, ClientServes DEF Wait, jobVars, queueVars, ClientPCs
  <1>12. CASE DoAdditionalWait(t)
    BY <1>12, ClientServes DEF DoAdditionalWait, queueVars, ClientPCs
  <1>13. CASE Join(t)
    BY <1>13, ClientServes DEF Join, jobVars, queueVars, ClientPCs
  <1>14. CASE Waited(t)
    BY <1>14, ClientServes DEF Waited, jobVars, queueVars, ClientPCs
  <1> QED BY <1>1, <1>2, <1>3, <1>4, <1>5, <1>6, <1>7, <1>8, <1>9, <1>10, <1>11, <1>12,
             <1>13, <1>14 DEF Request, Continue

\* A task leaves the active points only by its check, which found the list empty.
LEMMA TaskStepServes ==
    ASSUME Control, Served, "throw" \notin Outcomes, NEW i \in Tasks, TaskStep(i)
    PROVE  Served'
  <1> USE ThreadFacts DEF At
  <1>1. CASE DispatchEvent(i)
    <2>1. PICK l \in {"check", "run"} : Goto(i, l)
      BY <1>1 DEF DispatchEvent
    <2>2. Active' # {}
      BY <2>1, TaskSets DEF TaskPCs
    <2> QED BY <2>2, ServedIsNext
  <1>2. CASE RunThunk(i)
    <2>1. Goto(i, "dispatch")
      BY <1>2 DEF RunThunk
    <2>2. Active' # {}
      BY <2>1, TaskSets DEF TaskPCs
    <2> QED BY <2>2, ServedIsNext
  <1>3. CASE CheckQueue(i)
    <2>1. CASE MayTearDown
      BY <1>3, <2>1, ServedIsNext DEF CheckQueue, MayTearDown, queueVars
    <2>2. CASE ~MayTearDown
      <3>1. Goto(i, "dispatch")
        BY <1>3, <2>2 DEF CheckQueue
      <3>2. Active' # {}
        BY <3>1, TaskSets DEF TaskPCs
      <3> QED BY <3>2, ServedIsNext
    <2> QED BY <2>1, <2>2
  <1>4. CASE EndTask(i)
    <2>1. /\ pc[i] = "tail" /\ Goto(i, "done")
          /\ UNCHANGED << jobVars, queueVars >>
      BY <1>4 DEF EndTask
    <2>2. i \notin Active
      BY <2>1 DEF Active
    <2>3. Launching' = Launching /\ Pending' = Pending /\ Active \subseteq Active'
      BY <2>1, <2>2, TaskSets DEF TaskPCs
    <2> QED BY <2>1, <2>3, ServedIs, ServedIsNext DEF jobVars, queueVars
  <1> QED BY <1>1, <1>2, <1>3, <1>4 DEF TaskStep

LEMMA AbortServes ==
    ASSUME Control, Served, NEW t \in Threads, Abort(t) \/ Unrun(t)
    PROVE  Served'
  <1> USE ThreadFacts DEF At
  <1>1. CASE t \in Clients
    <2>1. CASE Abort(t)
      BY <1>1, <2>1, ClientServes DEF Abort, ClearsQueue, jobVars, ClientPCs
    <2>2. CASE Unrun(t)
      BY <1>1, <2>2, ClientServes DEF Unrun, queueVars, ClientPCs
    <2> QED BY <2>1, <2>2
  <1>2. CASE t \in Tasks
    <2>1. PICK l \in {"unrun", "dispatch"} : Goto(t, l)
      BY <1>2 DEF Abort, Unrun
    <2>2. Active' # {}
      BY <1>2, <2>1, TaskSets DEF TaskPCs
    <2> QED BY <2>2, ServedIsNext
  <1> QED BY <1>1, <1>2 DEF Threads

\* On a job whose dispatchers do not throw, an entry on the list of a running job
\* is always somebody's business: the check-then-teardown of a task and the test
\* of the flag in OnPended cannot miss each other.
THEOREM Attentive ==
    ASSUME "throw" \notin Outcomes
    PROVE  Spec => []NothingStranded
  <1>1. Init => Served
    <2> SUFFICES ASSUME Init PROVE Served
      OBVIOUS
    <2> QED BY ServedIs DEF Init
  <1>2. Invariant /\ Served /\ [Next]_vars => Served'
    <2> SUFFICES ASSUME Control, Data, Served, [Next]_vars PROVE Served'
      BY InvariantParts
    <2>1. CASE Next
      BY <2>1, ClientStepServes, TaskStepServes, AbortServes DEF Next
    <2>2. CASE UNCHANGED vars
      BY <2>2 DEF vars, jobVars, queueVars, Served, Attended, NothingStranded,
                  Active, Launching, At
    <2> QED BY <2>1, <2>2
  <1>3. Served => NothingStranded
    BY DEF Served
  <1> QED BY <1>1, <1>2, <1>3, InvariantHolds, PTL DEF Spec

-----------------------------------------------------------------------------
(* One client stops the job and one waits for it: the list is never left
   dangling, and Wait means that no dispatcher is running.  With two stoppers, or
   two waiters, neither is true. *)

Stops(c, t) == c[t] \cap {"Stop", "StopNow"} # {}
Waits(c, t) == c[t] \cap {"Wait", "WaitFor"} # {}

SingleStopper == \A c \in Programs, t, u \in Clients : Stops(c, t) /\ Stops(c, u) => t = u
SingleWaiter  == \A c \in Programs, t, u \in Clients : Waits(c, t) /\ Waits(c, u) => t = u

\* t is inside OnStart; inside Stop or a Start that failed; there, and has neither
\* pended the lambda nor reset m_running.
Starts(t) == pc[t] \in {"onstart", "pending", "started"} \/ (pc[t] = "launch" /\ ret[t] = "started")
Quits(t)  == pc[t] \in {"graceful", "abort", "unrun", "release"}
               \/ (pc[t] = "launch" /\ ret[t] = "release")
Halts(t)  == pc[t] \in {"graceful", "abort", "unrun"}

\* The lambda that aborts the queue is on the list; a task is running it.
LambdaQueued  == AbortLambda \in Range(queue)
LambdaRuns(i) == pc[i] = "unrun" \/ (pc[i] = "run" /\ cur[i] = AbortLambda)
AbortPending  == LambdaQueued \/ \E i \in Tasks : LambdaRuns(i)

\* A start that is under way keeps m_lock and the count.
StartHolds ==
    /\ \A t \in Clients : Starts(t) => m_lock = t /\ ~m_shouldStop /\ m_outstanding
    /\ \A t \in Clients : pc[t] = "onstart" => ~m_running /\ m_wasStarted
    /\ m_running => m_wasStarted

\* One client is inside OnStop: the stopper, or the start that failed.
OneQuits ==
    /\ \A t \in Clients : Quits(t) => /\ m_shouldStop
                                      /\ Stops(calls, t) \/ (m_lock = t /\ ~m_running)
    /\ \A t, u \in Clients : Quits(t) /\ Quits(u) => t = u

\* m_outstanding is there until OnStop has seen to it that m_running goes: it is
\* still to do so, or the lambda will.
Halting ==
    /\ m_running /\ ~m_shouldStop => m_outstanding
    /\ m_shouldStop /\ m_running =>
         \/ m_outstanding /\ \E t \in Clients : Halts(t)
         \/ AbortPending /\ \A t \in Clients : ~Halts(t)
    /\ AbortPending => m_shouldStop
    /\ LambdaQueued /\ m_running => ~m_curEventInTeardown

Orderly == NoDangling /\ StartHolds /\ OneQuits /\ Halting

LEMMA RangeIs ==
  ASSUME NEW S, NEW q \in Seq(S), NEW x
  PROVE  x \in Range(q) <=> \E n \in 1 .. Len(q) : q[n] = x
  BY DEF Range

LEMMA RangeAppend ==
  ASSUME NEW S, NEW q \in Seq(S), NEW k \in S, NEW x
  PROVE  x \in Range(Append(q, k)) <=> x \in Range(q) \/ x = k
  <1> DEFINE r == Append(q, k)
  <1>1. /\ r \in Seq(S) /\ Len(r) = Len(q) + 1 /\ r[Len(q) + 1] = k
        /\ \A n \in 1 .. Len(q) : r[n] = q[n]
        /\ Len(q) \in Nat
    BY AppendProperties
  <1> HIDE DEF r
  <1>2. x \in Range(r) <=> \E n \in 1 .. Len(r) : r[n] = x
    BY <1>1, RangeIs
  <1>3. x \in Range(q) <=> \E n \in 1 .. Len(q) : q[n] = x
    BY RangeIs
  <1>4. x \in Range(r) <=> x \in Range(q) \/ x = k
    BY <1>1, <1>2, <1>3
  <1> QED BY <1>4 DEF r

LEMMA RangePop ==
  ASSUME NEW S, NEW q \in Seq(S), q # << >>, NEW x
  PROVE  x \in Range(q) <=> x \in Range(Tail(q)) \/ x = Head(q)
  <1> DEFINE r == Tail(q)
  <1>1. /\ r \in Seq(S) /\ Len(q) = Len(r) + 1 /\ Head(q) = q[1]
        /\ \A n \in 1 .. Len(r) : r[n] = q[n + 1]
        /\ Len(r) \in Nat
    BY HeadTailProperties
  <1> HIDE DEF r
  <1>2. x \in Range(r) <=> \E n \in 1 .. Len(r) : r[n] = x
    BY <1>1, RangeIs
  <1>3. x \in Range(q) <=> \E n \in 1 .. Len(q) : q[n] = x
    BY RangeIs
  <1>4. x \in Range(q) => x \in Range(r) \/ x = q[1]
    <2> SUFFICES ASSUME NEW n \in 1 .. Len(q), q[n] = x PROVE x \in Range(r) \/ x = q[1]
      BY <1>3
    <2>1. CASE n = 1 BY <2>1
    <2>2. CASE n # 1
      <3>1. n - 1 \in 1 .. Len(r) /\ r[n - 1] = x
        BY <1>1, <2>2
      <3> QED BY <3>1, <1>2
    <2> QED BY <2>1, <2>2
  <1>5. x \in Range(r) \/ x = q[1] => x \in Range(q)
    BY <1>1, <1>2, <1>3
  <1> QED BY <1>1, <1>4, <1>5 DEF r

LEMMA RangeEmpty == Range(<< >>) = {}
  BY DEF Range
\* On an orderly job, a step that pends does not find it without its count.
LEMMA NeverDestroys ==
  ASSUME Control, Orderly
  PROVE  Leaves \/ m_outstanding
  BY ThreadFacts DEF Control, Orderly, Halting, Leaves, AbortPending, LambdaRuns, OneDispatcher,
       Active

LEMMA InitOrderly == Init => Orderly
  BY ThreadFacts, RangeEmpty
     DEF Init, Orderly, NoDangling, StartHolds, OneQuits, Halting, AbortPending, LambdaQueued,
         LambdaRuns, Starts, Quits, Halts

\* OnPended, by a client that pends a thunk, its backlog or the lambda.
LEMMA OnPendedOrderly ==
  ASSUME Control, Orderly, NEW t \in Clients, NEW l \in {"idle", "started", "release"},
         NEW q, NEW f, OnPended(t, q, f, l), UNCHANGED << runnableVars, cur, calls >>,
         \/ pc[t] = "idle" /\ l = "idle" /\ (AbortLambda \in Range(q) <=> LambdaQueued)
         \/ pc[t] = "pending" /\ l = "started" /\ q = queue
         \/ pc[t] = "graceful" /\ l = "release" /\ AbortLambda \in Range(q)
  PROVE  Orderly'
  <1>1. Leaves \/ m_outstanding
    BY NeverDestroys
  <1>2. queue' = q /\ dangling' = dangling /\ m_running' = m_running
    BY <1>1 DEF OnPended, jobVars
  <1>3. LambdaQueued' <=> AbortLambda \in Range(q)
    BY <1>2 DEF LambdaQueued
  <1>4. /\ \A u \in Threads \ {t} : pc'[u] = pc[u]
        /\ \A u \in Clients \ {t} : ret'[u] = ret[u]
        /\ \/ pc'[t] = l
           \/ pc'[t] = "launch" /\ ret'[t] = l /\ ~Leaves
        /\ Leaves => m_curEventInTeardown' = m_curEventInTeardown
        /\ ~Leaves => m_curEventInTeardown' = FALSE
    BY <1>1, ThreadFacts DEF OnPended, Goto, Control, jobVars
  <1>5. (\A i \in Tasks : LambdaRuns(i)' <=> LambdaRuns(i)) /\ t \notin Tasks
    BY <1>4, ThreadFacts DEF LambdaRuns
  <1>6. \A u \in Clients \ {t} : /\ Starts(u)' <=> Starts(u)
                                 /\ Quits(u)' <=> Quits(u)
                                 /\ Halts(u)' <=> Halts(u)
    BY <1>4, ThreadFacts DEF Starts, Quits, Halts
  <1>7. /\ Starts(t)' <=> Starts(t)
        /\ Quits(t)' <=> Quits(t)
        /\ ~Halts(t)'
    BY <1>4, ThreadFacts DEF Starts, Quits, Halts
  <1>8. m_shouldStop' = m_shouldStop /\ m_outstanding' = m_outstanding /\ m_lock' = m_lock
        /\ m_wasStarted' = m_wasStarted /\ calls' = calls
    BY DEF runnableVars
  <1>9. NoDangling'
    BY <1>2 DEF Orderly, NoDangling
  <1>10. StartHolds'
    BY <1>2, <1>4, <1>6, <1>7, <1>8, ThreadFacts DEF Orderly, StartHolds
  <1>11. OneQuits'
    BY <1>2, <1>6, <1>7, <1>8 DEF Orderly, OneQuits
  <1>12. Halting'
    <2>1. pc[t] = "graceful" => Halts(t) /\ Quits(t)
      BY DEF Halts, Quits
    <2>2. pc[t] # "graceful" => ~Halts(t)
      BY DEF Halts
    <2>3. \A u \in Clients : Halts(u) => Quits(u)
      BY DEF Halts, Quits
    <2> QED BY <1>2, <1>3, <1>4, <1>5, <1>6, <1>7, <1>8, <2>1, <2>2, <2>3
            DEF Orderly, OneQuits, Halting, AbortPending, Leaves, LambdaQueued
  <1> QED BY <1>9, <1>10, <1>11, <1>12 DEF Orderly

LEMMA ClientStepOrderly ==
  ASSUME Control, Data, Orderly, SingleStopper, NEW t \in Clients, Request(t) \/ Continue(t)
  PROVE  Orderly'
  <1>1. CASE Pend(t)
    <2>1. PICK k \in Thunks :
            \/ UNCHANGED << jobVars, queue, dangling, pc, ret >>
            \/ OnPended(t, Append(queue, k), [fate EXCEPT ![k] = "queued"], "idle")
      BY <1>1 DEF Pend
    <2>2. AbortLambda \in Range(Append(queue, k)) <=> LambdaQueued
      BY RangeAppend, ThreadFacts, ConstantsAssumption DEF Data, LambdaQueued
    <2>3. pc[t] = "idle" /\ UNCHANGED << runnableVars, cur, calls >>
      BY <1>1 DEF Pend, Calling, At
    <2>4. CASE UNCHANGED << jobVars, queue, dangling, pc, ret >>
      BY <2>3, <2>4 DEF Orderly, NoDangling, StartHolds, OneQuits, Halting, AbortPending,
         LambdaQueued, LambdaRuns, Starts, Quits, Halts, jobVars, runnableVars
    <2> QED BY <2>1, <2>2, <2>3, <2>4, OnPendedOrderly
  <1>2. CASE OnStartPending(t)
    <2>1. CASE HasBacklog
      BY <1>2, <2>1, OnPendedOrderly DEF OnStartPending, At
    <2>2. CASE ~HasBacklog
      BY <1>2, <2>2, ThreadFacts DEF OnStartPending, HasBacklog, At, Goto, Control,
         Orderly, NoDangling, StartHolds, OneQuits, Halting, AbortPending, LambdaQueued, LambdaRuns,
         Starts, Quits, Halts, jobVars, runnableVars, queueVars
    <2> QED BY <2>1, <2>2
  <1>3. CASE OnStopGraceful(t)
    <2>1. AbortLambda \in Range(Append(queue, AbortLambda))
      BY RangeAppend, ThreadFacts DEF Data
    <2> QED BY <1>3, <2>1, OnPendedOrderly DEF OnStopGraceful, At
  <1> USE ThreadFacts
      DEF At, Goto, Calling, Control, LocksHeld, Orderly, NoDangling, StartHolds, OneQuits, Halting,
          AbortPending, LambdaQueued, LambdaRuns, Starts, Quits, Halts,
          jobVars, runnableVars, queueVars, localVars
  <1>4. CASE Start(t)            BY <1>4 DEF Start
  <1>5. CASE Stop(t)
    <2>1. calls \in Programs /\ Stops(calls, t)
      BY <1>5 DEF Stop, Data, Stops
    <2>2. \A u \in Clients : Stops(calls, u) => u = t
      BY <2>1 DEF SingleStopper
    <2> QED BY <1>5, <2>1, <2>2 DEF Stop
  <1>6. CASE EnterWait(t)        BY <1>6 DEF EnterWait
  <1>7. CASE Launch(t)           BY <1>7 DEF Launch
  <1>8. CASE OnStart(t)
    <2> USE <1>8 DEF OnStart
    <2>1. NoDangling' OBVIOUS
    <2>2. StartHolds' OBVIOUS
    <2>3. OneQuits' OBVIOUS
    <2>4. Halting' OBVIOUS
    <2> QED BY <2>1, <2>2, <2>3, <2>4
  <1>9. CASE Started(t)          BY <1>9 DEF Started
  <1>10. CASE Release(t)         BY <1>10 DEF Release
  <1>11. CASE Wait(t)            BY <1>11 DEF Wait
  <1>12. CASE DoAdditionalWait(t) BY <1>12 DEF DoAdditionalWait
  <1>13. CASE Join(t)            BY <1>13 DEF Join
  <1>14. CASE Waited(t)          BY <1>14 DEF Waited
  <1> QED BY <1>1, <1>2, <1>3, <1>4, <1>5, <1>6, <1>7, <1>8, <1>9, <1>10, <1>11, <1>12,
             <1>13, <1>14 DEF Request, Continue

LEMMA TaskStepOrderly ==
  ASSUME Control, Data, Orderly, NEW i \in Tasks, TaskStep(i)
  PROVE  Orderly'
  <1> USE ThreadFacts
      DEF At, Goto, Control, LocksHeld, Orderly, NoDangling, StartHolds, OneQuits, Halting,
          AbortPending, LambdaQueued, LambdaRuns, Starts, Quits, Halts,
          jobVars, runnableVars, queueVars, localVars
  <1>1. CASE DispatchEvent(i)
    <2>1. CASE queue = << >>
      BY <1>1, <2>1 DEF DispatchEvent
    <2>2. CASE queue # << >>
      <3>1. LambdaQueued <=> AbortLambda \in Range(Tail(queue)) \/ AbortLambda = Head(queue)
        BY <2>2, RangePop DEF Data
      <3>2. /\ queue' = Tail(queue) /\ pc'[i] = "run" /\ cur'[i] = Head(queue)
            /\ pc[i] = "dispatch"
            /\ \A u \in Threads \ {i} : pc'[u] = pc[u]
            /\ \A j \in Tasks \ {i} : cur'[j] = cur[j]
            /\ UNCHANGED << runnableVars, jobVars, dangling, ret, calls >>
        BY <1>1, <2>2 DEF DispatchEvent, Data
      <3>3. AbortPending' <=> AbortPending
        BY <3>1, <3>2
      <3>4. LambdaQueued' => LambdaQueued
        BY <3>1, <3>2
      <3> HIDE DEF AbortPending, LambdaQueued
      <3> QED BY <3>2, <3>3, <3>4
    <2> QED BY <2>1, <2>2
  <1>2. CASE RunThunk(i)    BY <1>2 DEF RunThunk, Data
  <1>3. CASE CheckQueue(i)  BY <1>3, RangeEmpty DEF CheckQueue, MayTearDown
  <1>4. CASE EndTask(i)     BY <1>4 DEF EndTask
  <1> QED BY <1>1, <1>2, <1>3, <1>4 DEF TaskStep

LEMMA AbortOrderly ==
  ASSUME Control, Orderly, NEW t \in Threads, Abort(t) \/ Unrun(t)
  PROVE  Orderly'
  <1> USE ThreadFacts, RangeEmpty
      DEF At, Goto, Control, LocksHeld, Orderly, NoDangling, StartHolds, OneQuits, Halting,
          AbortPending, LambdaQueued, LambdaRuns, Starts, Quits, Halts,
          jobVars, runnableVars, queueVars, localVars
  <1>1. CASE Abort(t)
    <2>1. CASE t \in Clients BY <1>1, <2>1 DEF Abort, ClearsQueue
    <2>2. CASE t \in Tasks   BY <1>1, <2>2 DEF Abort, ClearsQueue
    <2> QED BY <2>1, <2>2 DEF Threads
  <1>2. CASE Unrun(t)
    <2>1. CASE t \in Clients BY <1>2, <2>1 DEF Unrun
    <2>2. CASE t \in Tasks   BY <1>2, <2>2 DEF Unrun
    <2> QED BY <2>1, <2>2 DEF Threads
  <1> QED BY <1>1, <1>2

LEMMA NextOrderly ==
  ASSUME SingleStopper
  PROVE  Invariant /\ Orderly /\ [Next]_vars => Orderly'
  <1> SUFFICES ASSUME Control, Data, Orderly, [Next]_vars PROVE Orderly'
    BY InvariantParts
  <1>1. CASE Next
    BY <1>1, ClientStepOrderly, TaskStepOrderly, AbortOrderly DEF Next
  <1>2. CASE UNCHANGED vars
    BY <1>2 DEF vars, jobVars, queueVars, runnableVars, localVars, Orderly, NoDangling, StartHolds,
       OneQuits, Halting, AbortPending, LambdaQueued, LambdaRuns, Starts, Quits, Halts
  <1> QED BY <1>1, <1>2

LEMMA OrderlyHolds ==
  ASSUME SingleStopper
  PROVE  Spec => []Orderly
  <1>1. Invariant /\ Orderly /\ [Next]_vars => Orderly'
    BY NextOrderly
  <1> QED BY <1>1, InitOrderly, InvariantHolds, PTL DEF Spec

\* While one client stops the job, its list never points at destroyed entries: the
\* branch of OnPended that destroys them under a job without a count is not reached.
THEOREM NeverDangling ==
  ASSUME SingleStopper
  PROVE  Spec => []NoDangling
  <1>1. Orderly => NoDangling
    BY DEF Orderly
  <1> QED BY <1>1, OrderlyHolds, PTL

-----------------------------------------------------------------------------
(* With one waiter too, Wait finds the future of the task that is dispatching. *)

\* OnStop is still to pend the lambda, to launch a task for it or to clear the list.
Unsettled(t) == pc[t] \in {"graceful", "abort"} \/ (pc[t] = "launch" /\ ret[t] = "release")

\* Nobody launches a task before the job runs, after OnStop has settled it, or
\* without its count.
LaunchesEnd ==
    /\ \A t \in Clients : pc[t] = "unrun" => aborted
    /\ ~m_running /\ ~m_shouldStop => Launching = {}
    /\ m_shouldStop /\ (\A t \in Clients : ~Unsettled(t)) => Launching = {}
    /\ m_shouldStop /\ ~m_outstanding => Launching = {}

\* A dispatching task is the one of m_curEvent or of the future a waiter has taken.
FutureKnown ==
    /\ \A t \in Clients : pc[t] \in {"wait", "waitfor", "join", "joining", "waited"}
                          => Waits(calls, t)
    /\ \A t \in Clients : pc[t] \in {"join", "joining", "waited"}
                          => m_shouldStop /\ ~m_outstanding
    /\ \A i \in Active : i = m_curEvent \/ \E t \in Clients : pc[t] = "joining" /\ event[t] = i
    /\ \A t \in Clients : pc[t] \in {"joining", "waited"} => m_curEvent = NoTask

Joined == LaunchesEnd /\ FutureKnown /\ WaitMeansIdle

\* What the control invariants give to a launch: nobody dispatches.
LEMMA LaunchAlone ==
  ASSUME Control, NEW t \in Clients, pc[t] = "launch"
  PROVE  Active = {} /\ dispatchLock = t /\ \A u \in Clients : pc[u] = "launch" => u = t
  BY ThreadFacts DEF Control, OneDispatcher, LocksHeld, Launching, At

LEMMA InitJoined == Init => Joined
  BY ThreadFacts DEF Init, Joined, LaunchesEnd, FutureKnown, WaitMeansIdle, Unsettled, Launching,
       Active, At

\* A launch begins only while OnStop, if it was called, has not settled the job.
LEMMA OnPendedJoined ==
  ASSUME Control, Data, Orderly, Joined, NEW t \in Clients, NEW l \in {"idle", "started", "release"},
         NEW q, NEW f, OnPended(t, q, f, l), UNCHANGED << runnableVars, cur, calls >>,
         dispatchLock = NoThread,
         \/ pc[t] = "idle" /\ l = "idle" /\ ~aborted
         \/ pc[t] = "pending" /\ l = "started"
         \/ pc[t] = "graceful" /\ l = "release"
  PROVE  Joined'
  <1>1. Leaves \/ m_outstanding
    BY NeverDestroys
  <1>2. Launching = {}
    BY ThreadFacts DEF Control, LocksHeld, Launching, At
  <1>3. /\ UNCHANGED << m_running, m_shouldStop, m_outstanding, aborted, calls >>
        /\ \A u \in Threads \ {t} : pc'[u] = pc[u]
        /\ \A u \in Clients \ {t} : ret'[u] = ret[u] /\ event'[u] = event[u]
    BY <1>1, ThreadFacts DEF OnPended, Goto, Control, Data, jobVars, runnableVars
  <1>4. Active' = Active
    BY <1>3, ThreadFacts DEF Active
  <1>5. CASE Leaves
    <2>1. pc'[t] = l /\ m_curEvent' = m_curEvent
      BY <1>5, ThreadFacts DEF OnPended, Goto, Control, jobVars
    <2>2. Launching' = {}
      BY <1>2, <1>3, <2>1, ThreadFacts DEF Launching, At
    <2> QED BY <1>3, <1>4, <2>1, <2>2, ThreadFacts
            DEF Joined, LaunchesEnd, FutureKnown, WaitMeansIdle, At
  <1>6. CASE ~Leaves
    <2>1. /\ pc'[t] = "launch" /\ ret'[t] = l /\ m_curEvent' = NoTask
          /\ m_running /\ m_outstanding /\ m_curEventInTeardown
      BY <1>1, <1>6, ThreadFacts DEF OnPended, Goto, Control, Leaves
    <2>2. Active = {}
      BY <2>1 DEF Control, OneDispatcher
    <2>3. ~AbortPending
      BY <2>1, <2>2 DEF AbortPending, LambdaRuns, Active, Orderly, Halting
    <2>4. m_shouldStop => \E u \in Clients : Unsettled(u)'
      <3> SUFFICES ASSUME m_shouldStop PROVE \E u \in Clients : Unsettled(u)'
        OBVIOUS
      <3>1. PICK u \in Clients : Halts(u)
        BY <2>1, <2>3 DEF Orderly, Halting
      <3>2. pc[t] # "pending"
        BY DEF Orderly, StartHolds, Starts
      <3>3. CASE u = t
        BY <2>1, <3>1, <3>2, <3>3 DEF Halts, Unsettled
      <3>4. CASE u # t
        <4>1. pc[t] = "idle"
          BY <3>1, <3>2, <3>4 DEF Orderly, OneQuits, Halts, Quits
        <4>2. pc[u] # "unrun"
          BY <4>1 DEF Joined, LaunchesEnd
        <4> QED BY <1>3, <3>1, <3>4, <4>2, ThreadFacts DEF Halts, Unsettled
      <3> QED BY <3>3, <3>4
    <2> QED BY <1>3, <1>4, <2>1, <2>2, <2>4, ThreadFacts
            DEF Joined, LaunchesEnd, FutureKnown, WaitMeansIdle, At
  <1> QED BY <1>5, <1>6

LEMMA ClientStepJoined ==
  ASSUME Control, Data, Orderly, Joined, SingleStopper, SingleWaiter,
         NEW t \in Clients, Request(t) \/ Continue(t)
  PROVE  Joined'
  <1>1. CASE Pend(t)
    <2>1. PICK k \in Thunks :
            \/ UNCHANGED << jobVars, aborted, pc, event, ret >>
            \/ ~aborted /\ OnPended(t, Append(queue, k), [fate EXCEPT ![k] = "queued"], "idle")
      BY <1>1 DEF Pend
    <2>2. pc[t] = "idle" /\ dispatchLock = NoThread /\ UNCHANGED << runnableVars, cur, calls >>
      BY <1>1 DEF Pend, Calling, At
    <2>3. CASE UNCHANGED << jobVars, aborted, pc, event, ret >>
      BY <2>2, <2>3 DEF Joined, LaunchesEnd, FutureKnown, WaitMeansIdle, Unsettled, Launching,
         Active, At, jobVars, runnableVars
    <2> QED BY <2>1, <2>2, <2>3, OnPendedJoined
  <1>2. CASE OnStopGraceful(t)
    BY <1>2, OnPendedJoined DEF OnStopGraceful, At
  <1>3. CASE OnStartPending(t) /\ HasBacklog
    BY <1>3, OnPendedJoined DEF OnStartPending, At
  <1> USE ThreadFacts
      DEF At, Goto, Calling, Control, LocksHeld, Joined, LaunchesEnd, FutureKnown, WaitMeansIdle,
          Unsettled, Launching, Active, jobVars, runnableVars, queueVars, localVars
  <1>4. CASE OnStartPending(t) /\ ~HasBacklog
    BY <1>4 DEF OnStartPending
  <1>5. CASE Start(t)            BY <1>5 DEF Start
  <1>6. CASE Stop(t)
    <2>1. calls \in Programs /\ Stops(calls, t)
      BY <1>6 DEF Stop, Data, Stops
    <2>2. \A u \in Clients : Stops(calls, u) => u = t
      BY <2>1 DEF SingleStopper
    <2>3. ~m_shouldStop /\ ~m_outstanding => ~m_running
      BY DEF Orderly, Halting
    <2>4. m_shouldStop => \A u \in Clients : ~Unsettled(u)
      BY <1>6, <2>2 DEF Stop, Orderly, OneQuits, Quits
    <2> QED BY <1>6, <2>3, <2>4 DEF Stop
  <1>7. CASE EnterWait(t)
    <2>1. Waits(calls, t)
      BY <1>7 DEF EnterWait, Waits
    <2> QED BY <1>7, <2>1 DEF EnterWait
  <1>8. CASE Launch(t)
    <2>1. Active = {} /\ \A u \in Clients : pc[u] = "launch" => u = t
      BY <1>8, LaunchAlone DEF Launch
    <2>2. \A u \in Clients : pc[u] \notin {"joining", "waited"}
      BY <1>8 DEF Launch
    <2> QED BY <1>8, <2>1, <2>2 DEF Launch
  <1>9. CASE OnStart(t)          BY <1>9 DEF OnStart, Orderly, StartHolds, Starts
  <1>10. CASE Started(t)         BY <1>10 DEF Started
  <1>11. CASE Release(t)
    <2>1. m_shouldStop /\ \A u \in Clients : ~Unsettled(u)
      BY <1>11 DEF Release, Orderly, OneQuits, Quits
    <2> QED BY <1>11, <2>1 DEF Release
  <1>12. CASE Wait(t)            BY <1>12 DEF Wait
  <1>13. CASE DoAdditionalWait(t) BY <1>13 DEF DoAdditionalWait, Data, SingleWaiter
  <1>14. CASE Join(t)            BY <1>14 DEF Join, SingleWaiter, TaskIsOver, Data
  <1>15. CASE Waited(t)          BY <1>15 DEF Waited
  <1> QED BY <1>1, <1>2, <1>3, <1>4, <1>5, <1>6, <1>7, <1>8, <1>9, <1>10, <1>11, <1>12,
             <1>13, <1>14, <1>15 DEF Request, Continue

LEMMA TaskStepJoined ==
  ASSUME Control, Data, Joined, NEW i \in Tasks, TaskStep(i)
  PROVE  Joined'
  <1> USE ThreadFacts
      DEF At, Goto, Control, Joined, LaunchesEnd, FutureKnown, WaitMeansIdle,
          Unsettled, Launching, Active, jobVars, runnableVars, queueVars, localVars
  <1>1. CASE DispatchEvent(i) BY <1>1 DEF DispatchEvent
  <1>2. CASE RunThunk(i)      BY <1>2 DEF RunThunk
  <1>3. CASE CheckQueue(i)    BY <1>3 DEF CheckQueue
  <1>4. CASE EndTask(i)       BY <1>4 DEF EndTask
  <1> QED BY <1>1, <1>2, <1>3, <1>4 DEF TaskStep

LEMMA AbortJoined ==
  ASSUME Control, Orderly, Joined, NEW t \in Threads, Abort(t) \/ Unrun(t)
  PROVE  Joined'
  <1>0. Unrun(t) => m_shouldStop
    BY ThreadFacts DEF Unrun, At, Orderly, OneQuits, Quits, Halting, AbortPending, LambdaRuns,
         Threads
  <1> USE ThreadFacts
      DEF At, Goto, Control, LocksHeld, Joined, LaunchesEnd, FutureKnown, WaitMeansIdle,
          Unsettled, Launching, Active, jobVars, runnableVars, queueVars, localVars
  <1>1. CASE Abort(t)
    <2>1. CASE t \in Clients BY <1>1, <2>1 DEF Abort, ClearsQueue
    <2>2. CASE t \in Tasks   BY <1>1, <2>2 DEF Abort, ClearsQueue
    <2> QED BY <2>1, <2>2 DEF Threads
  <1>2. CASE Unrun(t)
    <2>1. CASE t \in Clients BY <1>0, <1>2, <2>1 DEF Unrun
    <2>2. CASE t \in Tasks   BY <1>0, <1>2, <2>2 DEF Unrun
    <2> QED BY <2>1, <2>2 DEF Threads
  <1> QED BY <1>1, <1>2

\* While one client stops the job and one waits for it, a Wait that has returned
\* has joined the last task, and no other can be launched: no dispatcher runs.
THEOREM WaitIsFinal ==
  ASSUME SingleStopper, SingleWaiter
  PROVE  Spec => []WaitMeansIdle
  <1>1. Invariant /\ Orderly /\ Joined /\ [Next]_vars => Joined'
    <2> SUFFICES ASSUME Control, Data, Orderly, Joined, [Next]_vars PROVE Joined'
      BY InvariantParts
    <2>1. CASE Next
      BY <2>1, ClientStepJoined, TaskStepJoined, AbortJoined DEF Next
    <2>2. CASE UNCHANGED vars
      BY <2>2 DEF vars, jobVars, queueVars, runnableVars, localVars, Joined, LaunchesEnd,
         FutureKnown, WaitMeansIdle, Unsettled, Launching, Active, At
    <2> QED BY <2>1, <2>2
  <1>2. Joined => WaitMeansIdle
    BY DEF Joined
  <1>3. Spec => []Orderly
    BY OrderlyHolds
  <1> QED BY <1>1, <1>2, <1>3, InitJoined, InvariantHolds, PTL DEF Spec

=============================================================================
