------------------------------ MODULE ObjectPool ------------------------------
(***************************************************************************)
(* A pool of objects: a shared pointer to an object brings it back to the  *)
(* pool it was issued by when the last copy of it goes, from any thread    *)
(* and at any time, also when the pool was moved or destroyed meanwhile.   *)
(* An object finds its way through the monitor it shares with the pool     *)
(* (ObjectPool.h, ObjectPoolMonitor.{h,cpp} under src/src/autowiring).     *)
(*                                                                         *)
(* A critical section on the monitor is one step.  An object is built      *)
(* outside of it, m_maxPooled is written outside of it.  Which of the      *)
(* cached objects is issued, and where a new one lies, is of no            *)
(* consequence and left to CHOOSE.                                         *)
(***************************************************************************)
EXTENDS Naturals, FiniteSets

CONSTANTS
    Threads,    \* threads that call the operations of pools
    Pools,
    Entries,    \* PoolEntry: pieces of memory for an object
    None,       \* no monitor, no call
    Limits,     \* limits of pools that start out with a monitor: [Pools -> Nat]
    Unbounded,  \* ~0: what m_maxPooled is at first
    Programs,   \* the calls each thread may make, each once, in any order
    Outcomes,   \* how issuing an object may end: see Ends
    Overwrites  \* whether a pool with objects outstanding may be assigned to

\* A monitor is named after the pool it was made for.
Monitors == Pools

\* A call: the operation, the pool, and a number or the pool that is moved from.
Do(k, p, n) == [kind |-> k, pool |-> p, arg |-> n]

Requests ==
    [kind : {"get", "wait", "waitfor", "clear", "rundown", "destroy"}, pool : Pools, arg : {None}]
      \cup [kind : {"limit", "max", "preallocate"}, pool : Pools, arg : Nat]
      \cup [kind : {"move"}, pool : Pools, arg : Pools]

\* An object is issued; or the placement constructor throws, or the initializer, for a
\* new object or for a cached one.
Ends == { "ok", "placement", "initial", "reinitial" }

ASSUME ConstantsAssumption ==
    /\ None \notin Pools
    /\ IsFiniteSet(Entries)
    /\ Limits \in [Pools -> Nat]
    /\ Unbounded \in Nat
    /\ Outcomes \subseteq Ends
    /\ Overwrites \in BOOLEAN

ASSUME ProgramsAssumption == Programs \subseteq [Threads -> SUBSET Requests]

VARIABLES
    m_monitor, m_limit, m_maxPooled, m_outstanding, m_poolVersion, m_objs, \* per pool
    owner, m_abandoned,     \* per monitor
    hung,                   \* monitors a thread locked twice
    gone,                   \* pools that were destroyed
    at,                     \* per entry: where the object is
    monitor, poolVersion,   \* per entry
    pc, op,                 \* per thread: program point, call
    left,                   \* per thread: objects Preallocate has still to get
    mine,                   \* per thread: entries the call itself has hold of
    todo,                   \* per thread: calls it may still make
    ranDown                 \* history: monitors of pools a Rundown of which has returned

poolVars    == << m_monitor, m_limit, m_maxPooled, m_outstanding, m_poolVersion, m_objs, gone >>
monitorVars == << owner, m_abandoned, hung >>
entryVars   == << at, monitor, poolVersion >>
threadVars  == << pc, op, left, mine, todo >>
vars == << poolVars, monitorVars, entryVars, threadVars, ranDown >>

Points == { "idle", "enter", "construct", "fill", "release", "trim", "limit", "asleep", "woken",
            "clear", "abandon", "swap", "stuck" }

TypeOK ==
    /\ m_monitor \in [Pools -> Monitors \cup {None}]
    /\ {m_limit, m_maxPooled, m_outstanding, m_poolVersion} \subseteq [Pools -> Nat]
    /\ m_objs \in [Pools -> SUBSET Entries]
    /\ owner \in [Monitors -> Pools]
    /\ m_abandoned \in [Monitors -> BOOLEAN]
    /\ hung \subseteq Monitors
    /\ gone \subseteq Pools
    /\ at \in [Entries -> {"free", "building", "issued", "pooled"}]
    /\ monitor \in [Entries -> Monitors \cup {None}]
    /\ poolVersion \in [Entries -> Nat]
    /\ pc \in [Threads -> Points]
    /\ left \in [Threads -> Nat]
    /\ mine \in [Threads -> SUBSET Entries]
    /\ ranDown \subseteq Monitors

\* Every pool starts with the monitor of its own and nothing in it, or is still to
\* be made by moving another one.
Init ==
    /\ \E made \in SUBSET Pools :
         m_monitor = [p \in Pools |-> IF p \in made THEN p ELSE None]
    /\ m_limit = Limits
    /\ m_maxPooled = [p \in Pools |-> Unbounded]
    /\ m_outstanding = [p \in Pools |-> 0]
    /\ m_poolVersion = [p \in Pools |-> 0]
    /\ m_objs = [p \in Pools |-> {}]
    /\ owner = [m \in Monitors |-> m]
    /\ m_abandoned = [m \in Monitors |-> FALSE]
    /\ hung = {} /\ gone = {}
    /\ at = [e \in Entries |-> "free"]
    /\ monitor = [e \in Entries |-> None]
    /\ poolVersion = [e \in Entries |-> 0]
    /\ pc = [t \in Threads |-> "idle"]
    /\ op = [t \in Threads |-> None]
    /\ left = [t \in Threads |-> 0]
    /\ mine = [t \in Threads |-> {}]
    /\ todo \in Programs
    /\ ranDown = {}

-----------------------------------------------------------------------------
At(t, l)   == pc[t] = l
Goto(t, l) == pc' = [pc EXCEPT ![t] = l]
Free(p)    == m_monitor[p] \notin hung   \* the lock of p can be had

\* No thread but t is inside a call of p.
Quiet(t, p) ==
    \A u \in Threads \ {t} : ~At(u, "idle") => p \notin {op[u].pool, op[u].arg}

\* Callers keep away from a pool that was moved from or is being destroyed.
Usable(p) ==
    /\ m_monitor[p] # None /\ ~m_abandoned[m_monitor[p]]
    /\ \A u \in Threads :
         ~At(u, "idle") /\ op[u].kind \in {"destroy", "move"} => p \notin {op[u].pool, op[u].arg}

\* A thread calls an operation.
Call(t) ==
    /\ At(t, "idle")
    /\ \E w \in todo[t] :
         /\ w.kind \notin {"destroy", "move"} /\ Usable(w.pool)
         /\ op' = [op EXCEPT ![t] = w]
         /\ todo' = [todo EXCEPT ![t] = @ \ {w}]
    /\ Goto(t, "enter")
    /\ UNCHANGED << poolVars, monitorVars, entryVars, left, mine, ranDown >>

In(t, k, l) == At(t, l) /\ op[t].kind = k

-----------------------------------------------------------------------------
(* Issuing objects *)

\* The entries that count as outstanding for p: issued by it, or being built.
Out(p) ==
    { e \in Entries : /\ at[e] \in {"building", "issued"}
                      /\ ~m_abandoned[monitor[e]]
                      /\ owner[monitor[e]] = p }

New     == CHOOSE e \in Entries : at[e] = "free"
Back(p) == CHOOSE e \in m_objs[p] : TRUE
Room    == \E e \in Entries : at[e] = "free"     \* bound: memory

\* ObtainElementUnsafe with nothing cached: the version is read under the lock, the
\* object is built without.
ObtainNew(t, p) ==
    /\ m_objs[p] = {} /\ Room
    /\ m_outstanding' = [m_outstanding EXCEPT ![p] = @ + 1]
    /\ at' = [at EXCEPT ![New] = "building"]
    /\ monitor' = [monitor EXCEPT ![New] = m_monitor[p]]
    /\ poolVersion' = [poolVersion EXCEPT ![New] = m_poolVersion[p]]
    /\ mine' = [mine EXCEPT ![t] = @ \cup {New}]
    /\ Goto(t, "construct")
    /\ UNCHANGED << m_objs, hung >>

\* ObtainElementUnsafe with an object in the cache, which the initializer gets under
\* the lock; if it throws, the pointer to the object goes and Return locks again.
ObtainCached(t, p) ==
    /\ m_objs[p] # {}
    /\ m_outstanding' = [m_outstanding EXCEPT ![p] = @ + 1]
    /\ at' = [at EXCEPT ![Back(p)] = "issued"]
    /\ \/ /\ "ok" \in Outcomes
          /\ m_objs' = [m_objs EXCEPT ![p] = @ \ {Back(p)}]
          /\ IF op[t].kind = "preallocate"
             THEN Goto(t, "fill") /\ mine' = [mine EXCEPT ![t] = @ \cup {Back(p)}]
             ELSE Goto(t, "idle") /\ UNCHANGED mine
          /\ UNCHANGED hung
       \/ /\ "reinitial" \in Outcomes
          /\ hung' = hung \cup {m_monitor[p]}
          /\ Goto(t, "stuck")
          /\ mine' = [mine EXCEPT ![t] = @ \cup {Back(p)}]
          /\ UNCHANGED m_objs
    /\ UNCHANGED << monitor, poolVersion >>

Obtain(t, p) ==
    /\ ObtainNew(t, p) \/ ObtainCached(t, p)
    /\ UNCHANGED << m_monitor, m_limit, m_maxPooled, m_poolVersion, gone, owner, m_abandoned,
                    op, left, todo, ranDown >>

\* A call that comes back without an object, or with an exception.
ReturnNull(t) ==
    /\ Goto(t, "idle")
    /\ UNCHANGED << poolVars, monitorVars, entryVars, op, left, mine, todo, ranDown >>

\* Mutant: one object too many.
AtLimitLate(p) == m_limit[p] < m_outstanding[p]

\* The pool has issued all it may.
AtLimit(p) == m_limit[p] <= m_outstanding[p]

\* operator()
Get(t) ==
    LET p == op[t].pool IN
    /\ In(t, "get", "enter") /\ Free(p)
    /\ IF AtLimit(p) THEN ReturnNull(t) ELSE Obtain(t, p)

\* Wait and WaitFor: the first look at the limit, and the predicate, which throws in
\* Wait when the pool is run down.
Wait(t) ==
    LET p == op[t].pool IN
    /\ In(t, "wait", "enter") \/ In(t, "waitfor", "enter")
         \/ In(t, "wait", "woken") \/ In(t, "waitfor", "woken")
    /\ Free(p)
    /\ IF m_limit[p] = 0 /\ (In(t, "wait", "woken") \/ At(t, "enter"))
       THEN ReturnNull(t)
       ELSE IF m_outstanding[p] < m_limit[p]
            THEN Obtain(t, p)
            ELSE /\ Goto(t, "asleep")
                 /\ UNCHANGED << poolVars, monitorVars, entryVars, op, left, mine, todo, ranDown >>

\* WaitFor runs out of time, and looks once more.
Timeout(t) ==
    LET p == op[t].pool IN
    /\ In(t, "waitfor", "asleep") /\ Free(p)
    /\ IF m_outstanding[p] < m_limit[p] THEN Obtain(t, p) ELSE ReturnNull(t)

\* Preallocate looks at m_maxPooled without the lock, gets its objects one at a
\* time, and lets go of them at the end.
Preallocate(t) ==
    /\ In(t, "preallocate", "enter")
    /\ left' = [left EXCEPT ![t] = IF op[t].arg > m_maxPooled[op[t].pool]
                                   THEN m_maxPooled[op[t].pool] ELSE op[t].arg]
    /\ Goto(t, "fill")
    /\ UNCHANGED << poolVars, monitorVars, entryVars, op, mine, todo, ranDown >>

Fill(t) ==
    LET p == op[t].pool IN
    /\ At(t, "fill")
    /\ IF left[t] = 0
       THEN /\ Goto(t, "release")
            /\ UNCHANGED << poolVars, monitorVars, entryVars, op, left, mine, todo, ranDown >>
       ELSE /\ Free(p)
            /\ left' = [left EXCEPT ![t] = @ - 1]
            /\ IF AtLimit(p)
               THEN UNCHANGED << poolVars, monitorVars, entryVars, pc, op, mine, todo, ranDown >>
               ELSE /\ ObtainNew(t, p) \/ ObtainCached(t, p)
                    /\ UNCHANGED << m_monitor, m_limit, m_maxPooled, m_poolVersion, gone, owner,
                                    m_abandoned, op, todo, ranDown >>

-----------------------------------------------------------------------------
(* Returning objects *)

\* Mutant: notify_one.
NotifyOne(f, p) ==
    LET sleepers == { u \in Threads : f[u] = "asleep" /\ op[u].pool = p } IN
    IF sleepers = {} THEN f ELSE [f EXCEPT ![CHOOSE u \in sleepers : TRUE] = "woken"]

\* notify_all on the condition of p, f being where the threads are otherwise.
NotifyAll(f, p) ==
    [u \in Threads |-> IF f[u] = "asleep" /\ op[u].pool = p THEN "woken" ELSE f[u]]

\* Mutant: the count is not taken back.
DecrementNot(n) == n

\* m_outstanding, a size_t, goes down; below zero it is the largest there is.
Decrement(n) == IF n = 0 THEN Unbounded ELSE n - 1

\* Mutant: the version is not looked at.
KeepsStale(e, p) == Cardinality(m_objs[p]) < m_maxPooled[p]

\* Whether p puts e back into its cache.
Keeps(e, p) == poolVersion[e] = m_poolVersion[p] /\ Cardinality(m_objs[p]) < m_maxPooled[p]

\* Mutant: nobody is notified at a limit of zero.
WakesBelow(n, p) == n < m_limit[p]

\* Whether a return with which n objects are left outstanding notifies.
Wakes(n, p) == n <= m_limit[p]

\* ReturnUnsafe
ReturnUnsafe(e, p, f) ==
    LET n == Decrement(m_outstanding[p]) IN
    /\ m_outstanding' = [m_outstanding EXCEPT ![p] = n]
    /\ IF Keeps(e, p)
       THEN at' = [at EXCEPT ![e] = "pooled"] /\ m_objs' = [m_objs EXCEPT ![p] = @ \cup {e}]
       ELSE at' = [at EXCEPT ![e] = "free"] /\ UNCHANGED m_objs
    /\ pc' = IF Wakes(n, p) THEN NotifyAll(f, p) ELSE f

\* PoolEntry::Return, and the deletion when the pool does not keep the object.
Return(e, f) ==
    LET m == monitor[e] IN
    /\ m \notin hung
    /\ IF m_abandoned[m]
       THEN at' = [at EXCEPT ![e] = "free"] /\ pc' = f /\ UNCHANGED << m_outstanding, m_objs >>
       ELSE ReturnUnsafe(e, owner[m], f)
    /\ UNCHANGED << m_monitor, m_limit, m_maxPooled, m_poolVersion, gone, monitorVars,
                    monitor, poolVersion, op, todo, ranDown >>

\* The last pointer to an object that a caller had goes.
Drop(e) ==
    /\ at[e] = "issued" /\ \A t \in Threads : e \notin mine[t]
    /\ Return(e, pc)
    /\ UNCHANGED << left, mine >>

\* Preallocate's vector goes.
Release(t) ==
    /\ At(t, "release")
    /\ IF mine[t] = {}
       THEN ReturnNull(t)
       ELSE /\ \E e \in mine[t] :
                 Return(e, pc) /\ mine' = [mine EXCEPT ![t] = @ \ {e}]
            /\ UNCHANGED left

\* The entry a thread builds: the placement constructor and the initializer, each of
\* which may throw.  Without an entry nobody takes the count back.
Construct(t) ==
    /\ At(t, "construct")
    /\ \E e \in mine[t] :
         /\ at[e] = "building"
         /\ \/ /\ "ok" \in Outcomes
               /\ at' = [at EXCEPT ![e] = "issued"]
               /\ IF op[t].kind = "preallocate"
                  THEN Goto(t, "fill") /\ UNCHANGED mine
                  ELSE Goto(t, "idle") /\ mine' = [mine EXCEPT ![t] = @ \ {e}]
               /\ UNCHANGED << poolVars, monitorVars, monitor, poolVersion, op, left, todo, ranDown >>
            \/ /\ "placement" \in Outcomes
               /\ at' = [at EXCEPT ![e] = "free"]
               /\ Goto(t, "release")
               /\ mine' = [mine EXCEPT ![t] = @ \ {e}]
               /\ UNCHANGED << poolVars, monitorVars, monitor, poolVersion, op, left, todo, ranDown >>
            \/ /\ "initial" \in Outcomes
               /\ Return(e, [pc EXCEPT ![t] = "release"])
               /\ mine' = [mine EXCEPT ![t] = @ \ {e}]
               /\ UNCHANGED left

-----------------------------------------------------------------------------
(* Limits *)

\* SetMaximumPooledEntities, also as the first thing Rundown does.
SetMaximumPooledEntities(t) ==
    /\ In(t, "max", "enter") \/ In(t, "rundown", "enter")
    /\ m_maxPooled' = [m_maxPooled EXCEPT ![op[t].pool] =
                          IF op[t].kind = "rundown" THEN 0 ELSE op[t].arg]
    /\ Goto(t, "trim")
    /\ UNCHANGED << m_monitor, m_limit, m_outstanding, m_poolVersion, m_objs, gone, monitorVars,
                    entryVars, op, left, mine, todo, ranDown >>

\* A round of its loop.
Trim(t) ==
    LET p == op[t].pool IN
    /\ At(t, "trim") /\ Free(p)
    /\ IF Cardinality(m_objs[p]) <= m_maxPooled[p]
       THEN /\ Goto(t, IF op[t].kind = "rundown" THEN "limit" ELSE "idle")
            /\ UNCHANGED << m_objs, at >>
       ELSE /\ at' = [at EXCEPT ![Back(p)] = "free"]
            /\ m_objs' = [m_objs EXCEPT ![p] = @ \ {Back(p)}]
            /\ UNCHANGED pc
    /\ UNCHANGED << m_monitor, m_limit, m_maxPooled, m_outstanding, m_poolVersion, gone, monitorVars,
                    monitor, poolVersion, op, left, mine, todo, ranDown >>

\* SetOutstandingLimit, also as the second thing Rundown does; a limit of zero stays.
SetOutstandingLimit(t) ==
    LET p == op[t].pool
        n == IF op[t].kind = "rundown" THEN 0 ELSE op[t].arg IN
    /\ In(t, "limit", "enter") \/ In(t, "rundown", "limit")
    /\ Free(p)
    /\ m_limit' = IF m_limit[p] = 0 THEN m_limit ELSE [m_limit EXCEPT ![p] = n]
    /\ Goto(t, IF op[t].kind = "rundown" THEN "woken" ELSE "idle")
    /\ UNCHANGED << m_monitor, m_maxPooled, m_outstanding, m_poolVersion, m_objs, gone, monitorVars,
                    entryVars, op, left, mine, todo, ranDown >>

\* What Rundown waits for.
RundownWaits(t) ==
    LET p == op[t].pool IN
    /\ In(t, "rundown", "woken") /\ Free(p)
    /\ IF m_outstanding[p] = 0
       THEN Goto(t, "idle") /\ ranDown' = ranDown \cup {m_monitor[p]}
       ELSE Goto(t, "asleep") /\ UNCHANGED ranDown
    /\ UNCHANGED << poolVars, monitorVars, entryVars, op, left, mine, todo >>

-----------------------------------------------------------------------------
(* Clearing, destroying and moving *)

\* Where the objects of p are once its cache is cleared.
Cleared(p) == [e \in Entries |-> IF e \in m_objs[p] THEN "free" ELSE at[e]]

\* ClearCachedEntities, also as the second thing the destructor does.
ClearCachedEntities(t) ==
    LET p == op[t].pool IN
    /\ In(t, "clear", "enter") \/ In(t, "destroy", "clear")
    /\ Free(p)
    /\ at' = Cleared(p)
    /\ m_objs' = [m_objs EXCEPT ![p] = {}]
    /\ m_poolVersion' = [m_poolVersion EXCEPT ![p] = @ + 1]
    /\ gone' = IF op[t].kind = "destroy" THEN gone \cup {p} ELSE gone
    /\ Goto(t, "idle")
    /\ UNCHANGED << m_monitor, m_limit, m_maxPooled, m_outstanding, monitorVars, monitor, poolVersion,
                    op, left, mine, todo, ranDown >>

\* The destructor and the move assignment are called, which callers do not do while
\* others are inside a call; whether they do while objects of a pool that is
\* assigned to are issued is a matter of Overwrites.
CallAlone(t) ==
    /\ At(t, "idle")
    /\ \E w \in todo[t] :
         /\ w.pool \notin gone /\ Quiet(t, w.pool)
         /\ \/ w.kind = "destroy"
            \/ /\ w.kind = "move"
               /\ Quiet(t, w.arg) /\ w.arg \notin gone /\ m_monitor[w.arg] # None
               /\ Overwrites \/ Out(w.pool) = {}
         /\ op' = [op EXCEPT ![t] = w]
         /\ todo' = [todo EXCEPT ![t] = @ \ {w}]
    /\ Goto(t, "enter")
    /\ UNCHANGED << poolVars, monitorVars, entryVars, left, mine, ranDown >>

\* The destructor of a pool that another one was made from has nothing to do.
Destroy(t) ==
    LET p == op[t].pool IN
    /\ In(t, "destroy", "enter")
    /\ IF m_monitor[p] = None
       THEN Goto(t, "idle") /\ gone' = gone \cup {p}
       ELSE Goto(t, "abandon") /\ UNCHANGED gone
    /\ UNCHANGED << m_monitor, m_limit, m_maxPooled, m_outstanding, m_poolVersion, m_objs, monitorVars,
                    entryVars, op, left, mine, todo, ranDown >>

\* The move assignment points the old monitor to the other pool, without a lock.
Repoint(t) ==
    LET p == op[t].pool IN
    /\ In(t, "move", "enter")
    /\ IF m_monitor[p] = None
       THEN Goto(t, "swap") /\ UNCHANGED owner
       ELSE Goto(t, "abandon") /\ owner' = [owner EXCEPT ![m_monitor[p]] = op[t].arg]
    /\ UNCHANGED << poolVars, m_abandoned, hung, entryVars, op, left, mine, todo, ranDown >>

\* Mutant: the monitor is not marked.
AbandonedNot(p) == m_abandoned

\* The monitors that are abandoned once that of p is.
Abandoned(p) == [m_abandoned EXCEPT ![m_monitor[p]] = TRUE]

\* ObjectPoolMonitor::Abandon
Abandon(t) ==
    LET p == op[t].pool IN
    /\ At(t, "abandon") /\ Free(p)
    /\ m_abandoned' = Abandoned(p)
    /\ Goto(t, IF op[t].kind = "move" THEN "swap" ELSE "clear")
    /\ UNCHANGED << poolVars, owner, hung, entryVars, op, left, mine, todo, ranDown >>

\* Under the lock of the monitor that changes hands.
Swap(t) ==
    LET p == op[t].pool
        q == op[t].arg IN
    /\ At(t, "swap") /\ Free(q)
    /\ m_monitor' = [m_monitor EXCEPT ![p] = m_monitor[q], ![q] = m_monitor[p]]
    /\ m_objs' = [m_objs EXCEPT ![p] = m_objs[q], ![q] = m_objs[p]]
    /\ m_poolVersion' = [m_poolVersion EXCEPT ![p] = m_poolVersion[q]]
    /\ m_maxPooled' = [m_maxPooled EXCEPT ![p] = m_maxPooled[q]]
    /\ m_limit' = [m_limit EXCEPT ![p] = m_limit[q]]
    /\ m_outstanding' = [m_outstanding EXCEPT ![p] = m_outstanding[q]]
    /\ owner' = [owner EXCEPT ![m_monitor[q]] = p]
    /\ Goto(t, "idle")
    /\ UNCHANGED << gone, m_abandoned, hung, entryVars, op, left, mine, todo, ranDown >>

-----------------------------------------------------------------------------
\* A condition variable may wake a thread for no reason.
Spurious(t) ==
    /\ At(t, "asleep")
    /\ Goto(t, "woken")
    /\ UNCHANGED << poolVars, monitorVars, entryVars, op, left, mine, todo, ranDown >>

\* What a thread does that is inside a call.
Step(t) ==
    \/ Get(t) \/ Wait(t) \/ Timeout(t) \/ Preallocate(t) \/ Fill(t) \/ Release(t) \/ Construct(t)
    \/ SetMaximumPooledEntities(t) \/ Trim(t) \/ SetOutstandingLimit(t) \/ RundownWaits(t)
    \/ ClearCachedEntities(t) \/ Destroy(t) \/ Repoint(t) \/ Abandon(t) \/ Swap(t)

Next ==
    \/ \E t \in Threads : Call(t) \/ CallAlone(t) \/ Step(t) \/ Spurious(t)
    \/ \E e \in Entries : Drop(e)

Spec == Init /\ [][Next]_vars

\* A thread inside a call goes on, callers let go of every object one day (the
\* operations that wait ask for no less), and the deadline of WaitFor stays where it
\* is however often the thread wakes up before.
FairSpec ==
    /\ Spec
    /\ \A t \in Threads : WF_vars(Step(t)) /\ SF_vars(Timeout(t))
    /\ \A e \in Entries : WF_vars(Drop(e))

-----------------------------------------------------------------------------
(* Properties *)

\* Pools that issue objects: there is a monitor, and it is not abandoned.
Live(p) == m_monitor[p] # None /\ ~m_abandoned[m_monitor[p]]

\* m_outstanding is what the limit, Wait and Rundown go by: it counts the objects
\* that are issued or being built, no matter how clearing, moving, running down and
\* returning interleave.
CountExact == \A p \in Pools : Live(p) => m_outstanding[p] = Cardinality(Out(p))

\* The cache of a pool holds objects that came back to it, of the version it has
\* now: an object from before ClearCachedEntities is not issued again, not even one
\* that was being built at the time.
CacheSound ==
    \A p \in Pools : Live(p) =>
        \A e \in m_objs[p] :
            at[e] = "pooled" /\ monitor[e] = m_monitor[p] /\ poolVersion[e] = m_poolVersion[p]

\* A thread that sleeps in Wait or Rundown will be woken: some object of the pool is
\* still out, and its return notifies once none is, whatever the limit is by then.
SleeperHasWaker ==
    \A t \in Threads :
        At(t, "asleep") /\ op[t].kind \in {"wait", "rundown"} => Out(op[t].pool) # {}

\* Once a Rundown has returned nothing is out and nothing is ever issued again, and
\* the cache is empty unless somebody has asked for one since or is still at emptying
\* it.
RunDownIsFinal ==
    \A p \in Pools : Live(p) /\ m_monitor[p] \in ranDown =>
        /\ Out(p) = {}
        /\ m_maxPooled[p] = 0 /\ ~(\E t \in Threads : At(t, "trim") /\ op[t].pool = p)
             => m_objs[p] = {}

\* An object that comes back after its pool was destroyed leaves the memory of the
\* pool alone.
GoneUntouched ==
    [][\A p \in gone :
         << m_monitor[p], m_outstanding[p], m_objs[p], m_poolVersion[p] >>'
            = << m_monitor[p], m_outstanding[p], m_objs[p], m_poolVersion[p] >>]_vars

\* Every call returns once callers let go of what they hold: no waiter is left
\* behind, whichever of limits, caches and pools change under it.
CallsReturn == \A t \in Threads : ~At(t, "idle") ~> At(t, "idle")
=============================================================================
