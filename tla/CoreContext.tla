------------------------------ MODULE CoreContext ------------------------------
(***************************************************************************)
(* The life cycle of a tree of contexts and of the runnables in them: who  *)
(* starts a runnable when contexts are created, initiated and shut down    *)
(* while runnables are added, who stops it, and what Wait waits for        *)
(* (CoreContext.cpp, CoreContextStateBlock.cpp under src/src/autowiring).  *)
(*                                                                         *)
(* A critical section on the lock of a context is one step, and so is the  *)
(* one on the lock of a runnable in Start and Stop.  Contexts are kept     *)
(* alive by their users.  A runnable is what CoreRunnable.cpp and          *)
(* BasicThread.cpp make of it: started once at most and not after it was   *)
(* stopped, with a hold on the run counter until its thread has ended.     *)
(***************************************************************************)
EXTENDS Naturals, Sequences, FiniteSets

CONSTANTS
    Threads,      \* threads that call the operations of contexts
    Contexts,
    None,         \* no context, no counter, no runnable
    Parent,       \* m_pParent of each context; the global one has None
    Runnables,
    Of,           \* the context each runnable is added to
    Hold,         \* the DelayedContextHold that Initiate adds to a context
    MaxCounters,  \* bound: run counters of a context at a time
    Setups        \* [made, todo, ends]: contexts there are, calls each thread may
                  \* make, runnables that may end by themselves

\* A context and those above it: the least set with the parents of its members.
HasParents(S) == \A x \in S : Parent[x] \in S \cup {None}
Above == [c \in Contexts |->
            { a \in Contexts : \A S \in SUBSET Contexts : c \in S /\ HasParents(S) => a \in S }]

Counters == Contexts \X (1 .. MaxCounters)
States   == { "NotStarted", "CanRun", "Initiated", "Running", "Shutdown", "Abandoned" }

\* A call: the operation, and the context or the runnable.
Do(k, x) == [kind |-> k, of |-> x]

ASSUME ConstantsAssumption ==
    /\ None \notin Contexts \cup Runnables \cup Threads \cup Counters
    /\ Threads \cap Runnables = {}
    /\ Parent \in [Contexts -> Contexts \cup {None}]
    /\ Of \in [Runnables -> Contexts]
    /\ Hold \in [Contexts -> Runnables] /\ \A c \in Contexts : Of[Hold[c]] = c
    /\ MaxCounters \in Nat

\* Contexts form trees.
ASSUME TreeAssumption == \A c \in Contexts : Parent[c] # None => c \notin Above[Parent[c]]

Kinds == { "create", "initiate", "add", "shutdown", "signal", "wait", "quiescent", "delay" }
Holds == { Hold[c] : c \in Contexts }

\* A context is created once at most, and not if it is there already; a runnable is
\* added once at most, and not by the user if it is a DelayedContextHold.
ASSUME SetupsAssumption ==
    \A s \in Setups :
        /\ s.made \in [Contexts -> Seq(Contexts)]
        /\ s.todo \in [Threads -> SUBSET [kind : Kinds, of : Contexts \cup Runnables]]
        /\ \A c \in Contexts :
              /\ \A i \in DOMAIN s.made[c] : Parent[s.made[c][i]] = c
              /\ s.made[c] # << >> /\ Parent[c] # None
                    => \E i \in DOMAIN s.made[Parent[c]] : s.made[Parent[c]][i] = c
        /\ \A t \in Threads : \A w \in s.todo[t] :
              /\ w.of \in IF w.kind = "add" THEN Runnables \ Holds ELSE Contexts
              /\ w.kind = "create" =>
                    /\ Parent[w.of] # None
                    /\ \A i \in DOMAIN s.made[Parent[w.of]] : s.made[Parent[w.of]][i] # w.of
              /\ w.kind \in {"create", "add"} => \A u \in Threads \ {t} : w \notin s.todo[u]

VARIABLES
    m_state, m_threads, m_beforeRunning, m_children,  \* per context
    linked,         \* contexts whose parent has a pointer to them, and the global one
    m_outstanding,  \* per context: the counter its weak pointer points to
    counter,        \* per counter: "free", "live", or "dying" once nothing holds it
    parentCount,    \* per counter
    by,             \* per dying counter: the thread that destroys it
    started, stop,  \* runnables with m_wasStarted, with m_shouldStop
    held,           \* per runnable: the counter it holds while it runs
    pc, op,         \* per thread: program point, call
    ctx,            \* per thread: the context it is at
    run,            \* per thread: the runnable it adds
    rest,           \* per thread: the runnables it has still to start or to stop
    local,          \* per thread: the counter it holds
    stack,          \* per thread: the contexts it has come through
    todo, ends,     \* the calls still to be made; the setup's ends
    overtaken,      \* history: contexts that got a counter while an old one was dying
    unseen,         \* history: contexts linked to a running parent they took for one that is not
    settled,        \* history: runnables added before their context was shut down
    quieted         \* history: contexts a SignalShutdown that waits has returned for, when no
                    \* other thread was shutting down that context or one below

treeVars    == << m_state, m_threads, m_beforeRunning, m_children, linked >>
counterVars == << m_outstanding, counter, parentCount, by, held, overtaken >>
runVars     == << started, stop >>
threadVars  == << pc, op, ctx, run, rest, local, stack, todo >>
histVars    == << ends, unseen, settled, quieted >>
vars == << treeVars, counterVars, runVars, threadVars, histVars >>

Points == { "idle", "create", "construct", "link", "initiate", "count", "start", "children",
            "add", "added", "addstop", "shutdown", "signal", "collect", "kids", "stops",
            "wait", "quiescent", "delay" }

TypeOK ==
    /\ m_state \in [Contexts -> States]
    /\ m_threads \in [Contexts -> Seq(Runnables)]
    /\ m_beforeRunning \in [Contexts -> BOOLEAN]
    /\ m_children \in [Contexts -> Seq(Contexts)]
    /\ linked \subseteq Contexts
    /\ m_outstanding \in [Contexts -> Counters \cup {None}]
    /\ counter \in [Counters -> {"free", "live", "dying"}]
    /\ parentCount \in [Counters -> Counters \cup {None}]
    /\ by \in [Counters -> Threads \cup Runnables \cup {None}]
    /\ started \subseteq Runnables /\ stop \subseteq Runnables
    /\ held \in [Runnables -> Counters \cup {None}]
    /\ pc \in [Threads -> Points]
    /\ ctx \in [Threads -> Contexts \cup {None}]
    /\ run \in [Threads -> Runnables \cup {None}]
    /\ rest \in [Threads -> Seq(Runnables)]
    /\ local \in [Threads -> Counters \cup {None}]
    /\ settled \subseteq Runnables /\ quieted \subseteq Contexts
    /\ overtaken \subseteq Contexts /\ unseen \subseteq Contexts

Init ==
    \E s \in Setups :
        /\ m_state = [c \in Contexts |-> "NotStarted"]
        /\ m_threads = [c \in Contexts |-> << >>]
        /\ m_beforeRunning = [c \in Contexts |-> FALSE]
        /\ m_children = [c \in Contexts |-> s.made[c]]
        /\ linked = { c \in Contexts : Parent[c] = None }
                      \cup UNION { { s.made[c][i] : i \in DOMAIN s.made[c] } : c \in Contexts }
        /\ m_outstanding = [c \in Contexts |-> None]
        /\ counter = [k \in Counters |-> "free"]
        /\ parentCount = [k \in Counters |-> None]
        /\ by = [k \in Counters |-> None]
        /\ started = {} /\ stop = {}
        /\ held = [r \in Runnables |-> None]
        /\ pc = [t \in Threads |-> "idle"]
        /\ op = [t \in Threads |-> None]
        /\ ctx = [t \in Threads |-> None]
        /\ run = [t \in Threads |-> None]
        /\ rest = [t \in Threads |-> << >>]
        /\ local = [t \in Threads |-> None]
        /\ stack = [t \in Threads |-> << >>]
        /\ todo = s.todo
        /\ ends = s.ends
        /\ overtaken = {} /\ unseen = {} /\ settled = {} /\ quieted = {}

-----------------------------------------------------------------------------
IsInitiated(c) == m_state[c] \in {"Initiated", "Running", "Shutdown"}
IsRunning(c)   == m_state[c] = "Running"
IsShutdown(c)  == m_state[c] \in {"Shutdown", "Abandoned"}

\* A thread is at l, and not on its way through the destructor of a counter.
At(t, l)   == pc[t] = l /\ \A k \in Counters : by[k] # t
Goto(t, l) == pc' = [pc EXCEPT ![t] = l]

\* A thread calls an operation of a context there is, or creates one there is not.
Call(t) ==
    /\ At(t, "idle")
    /\ \E w \in todo[t] :
         LET c == IF w.kind = "add" THEN Of[w.of] ELSE w.of IN
         /\ IF w.kind = "create" THEN Parent[c] \in linked ELSE c \in linked
         /\ op' = [op EXCEPT ![t] = w]
         /\ ctx' = [ctx EXCEPT ![t] = c]
         /\ run' = [run EXCEPT ![t] = IF w.kind = "add" THEN w.of ELSE None]
         /\ todo' = [todo EXCEPT ![t] = @ \ {w}]
         /\ Goto(t, w.kind)
    /\ UNCHANGED << treeVars, counterVars, runVars, rest, local, stack, histVars >>

-----------------------------------------------------------------------------
(* The run counter *)

HasCounter(c) == m_outstanding[c] # None /\ counter[m_outstanding[c]] = "live"
Expired(c)    == ~HasCounter(c)

\* The contexts that need a new counter when one is asked for at c: those up to the
\* first that has one.
Needing(c) ==
    { a \in Above[c] : \A x \in Above[c] : a \in Above[x] => Expired(x) }

Fresh(c) == << c, CHOOSE n \in 1 .. MaxCounters : counter[<< c, n >>] = "free" >>
Room(c)  == \E n \in 1 .. MaxCounters : counter[<< c, n >>] = "free"

\* Mutant: a counter does not hold the parent's.
ParentCountNone(c) == None

\* The counter a new counter of c holds: that of the parent.
ParentCount(c) ==
    IF Parent[c] = None THEN None
    ELSE IF HasCounter(Parent[c]) THEN m_outstanding[Parent[c]] ELSE Fresh(Parent[c])

\* IncrementOutstandingThreadCount, and RunCounter's constructor, which asks the
\* parent for one under the lock.
Increment(t, c) ==
    /\ \A a \in Needing(c) : Room(a)
    /\ counter' = [k \in Counters |->
                     IF \E a \in Needing(c) : k = Fresh(a) THEN "live" ELSE counter[k]]
    /\ parentCount' = [k \in Counters |->
                         IF \E a \in Needing(c) : k = Fresh(a) THEN ParentCount(k[1]) ELSE parentCount[k]]
    /\ m_outstanding' = [a \in Contexts |-> IF a \in Needing(c) THEN Fresh(a) ELSE m_outstanding[a]]
    /\ local' = [local EXCEPT ![t] = IF HasCounter(c) THEN m_outstanding[c] ELSE Fresh(c)]
    /\ overtaken' = overtaken \cup { a \in Needing(c) :
                       \E n \in 1 .. MaxCounters : counter[<< a, n >>] = "dying" }
    /\ UNCHANGED << by, held >>

\* Counters that nothing holds when runnables hold h, threads hold l and the
\* counters are as in f.
Unheld(h, l, f) ==
    { k \in Counters :
        /\ f[k] = "live"
        /\ \A r \in Runnables : h[r] # k
        /\ \A t \in Threads : l[t] # k
        /\ \A j \in Counters : f[j] # "free" => parentCount[j] # k }

\* x lets go of something, after which runnables hold h, threads l, counters are f.
LetGo(x, h, l, f) ==
    /\ held' = h /\ local' = l
    /\ counter' = [k \in Counters |-> IF k \in Unheld(h, l, f) THEN "dying" ELSE f[k]]
    /\ by' = [k \in Counters |-> IF k \in Unheld(h, l, f) THEN x
                                 ELSE IF f[k] = "free" THEN None ELSE by[k]]

\* RunCounter's destructor resets the weak pointer, whatever it points to by now, and
\* lets go of the parent's counter after that.
Reset(k) == [m_outstanding EXCEPT ![k[1]] = None]
Destroy(k) ==
    /\ counter[k] = "dying"
    /\ m_outstanding' = Reset(k)
    /\ LetGo(by[k], held, local, [counter EXCEPT ![k] = "free"])
    /\ UNCHANGED << treeVars, parentCount, overtaken, runVars, pc, op, ctx, run, rest, stack, todo, histVars >>

-----------------------------------------------------------------------------
(* Runnables *)

\* Start, of a runnable that is given counter k; a DelayedContextHold fails to start
\* and is stopped at once.
Start(r, k) ==
    IF r \in started \cup stop
    THEN UNCHANGED << started, stop, held >>
    ELSE /\ started' = started \cup {r}
         /\ IF r \in Holds
            THEN stop' = stop \cup {r} /\ UNCHANGED held
            ELSE held' = [held EXCEPT ![r] = k] /\ UNCHANGED stop

Stop(r) == stop' = stop \cup {r}

\* A runnable's thread ends, which lets go of the counter.
RunnableEnds(r) ==
    /\ held[r] # None /\ r \in stop \cup ends
    /\ Stop(r)
    /\ LetGo(r, [held EXCEPT ![r] = None], local, counter)
    /\ UNCHANGED << treeVars, m_outstanding, parentCount, overtaken, started, pc, op, ctx, run, rest,
                    stack, todo, histVars >>

\* A thread starts the next of its runnables.
StartNext(t) ==
    /\ At(t, "start") /\ rest[t] # << >>
    /\ Start(Head(rest[t]), local[t])
    /\ rest' = [rest EXCEPT ![t] = Tail(@)]
    /\ UNCHANGED << treeVars, m_outstanding, counter, parentCount, by, overtaken, pc, op, ctx, run,
                    local, stack, todo, histVars >>

\* It has started them all, and lets go of the counter; then Initiate and the
\* transition of a child turn to the children, AddCoreRunnable looks at the state.
Started(t) ==
    /\ At(t, "start") /\ rest[t] = << >>
    /\ LetGo(t, held, [local EXCEPT ![t] = None], counter)
    /\ IF run[t] = None
       THEN Goto(t, "children") /\ stack' = [stack EXCEPT ![t] = << [of |-> ctx[t], at |-> 1] >> \o @]
       ELSE Goto(t, "added") /\ UNCHANGED stack
    /\ UNCHANGED << treeVars, m_outstanding, parentCount, overtaken, runVars, op, ctx, run, rest, todo,
                    histVars >>

\* It gets the counter for them.
Count(t) ==
    /\ At(t, "count")
    /\ Increment(t, ctx[t])
    /\ Goto(t, "start")
    /\ UNCHANGED << treeVars, runVars, op, ctx, run, rest, stack, todo, histVars >>

-----------------------------------------------------------------------------
(* Creating a child *)

\* CreateInternal reserves a place for the child, which is not linked yet.
Create(t) ==
    LET p == Parent[ctx[t]] IN
    /\ At(t, "create")
    /\ IF IsShutdown(p)
       THEN Goto(t, "idle") /\ UNCHANGED m_children
       ELSE /\ m_children' = [m_children EXCEPT ![p] = Append(@, ctx[t])]
            /\ Goto(t, "construct")
    /\ UNCHANGED << m_state, m_threads, m_beforeRunning, linked, counterVars, runVars, op, ctx, run,
                    rest, local, stack, todo, histVars >>

\* It looks at the parent without the lock.
Construct(t) ==
    /\ At(t, "construct")
    /\ m_state' = IF IsRunning(Parent[ctx[t]]) THEN [m_state EXCEPT ![ctx[t]] = "CanRun"] ELSE m_state
    /\ Goto(t, "link")
    /\ UNCHANGED << m_threads, m_beforeRunning, m_children, linked, counterVars, runVars, op, ctx,
                    run, rest, local, stack, todo, histVars >>

\* Mutant: the state of the parent is not looked at again.
BornStateKept(c) == m_state[c]

\* A child that is linked below a parent that was shut down is shut down, too; it
\* has neither children nor runnables.
BornState(c) == IF IsShutdown(Parent[c]) THEN "Abandoned" ELSE m_state[c]
Link(t) ==
    /\ At(t, "link")
    /\ linked' = linked \cup {ctx[t]}
    /\ m_state' = [m_state EXCEPT ![ctx[t]] = BornState(ctx[t])]
    /\ unseen' = IF IsRunning(Parent[ctx[t]]) /\ m_state[ctx[t]] = "NotStarted"
                 THEN unseen \cup {ctx[t]} ELSE unseen
    /\ Goto(t, "idle")
    /\ UNCHANGED << m_threads, m_beforeRunning, m_children, counterVars, runVars, op, ctx, run, rest,
                    local, stack, todo, ends, settled, quieted >>

-----------------------------------------------------------------------------
(* Initiate *)

\* The state Initiate puts a context in.
InitiatedState(c) ==
    IF m_state[c] = "NotStarted" THEN (IF Parent[c] = None THEN "Running" ELSE "Initiated")
    ELSE IF m_state[c] = "CanRun" THEN "Running" ELSE m_state[c]

\* Under the lock; a context that cannot run yet is given a DelayedContextHold.
Initiate(t) ==
    LET c == ctx[t] IN
    /\ At(t, "initiate")
    /\ m_state' = [m_state EXCEPT ![c] = InitiatedState(c)]
    /\ IF m_state[c] \notin {"NotStarted", "CanRun"}
       THEN Goto(t, "idle") /\ UNCHANGED << run, rest, stack >>
       ELSE IF InitiatedState(c) = "Initiated"
       THEN Goto(t, "add") /\ run' = [run EXCEPT ![t] = Hold[c]] /\ UNCHANGED << rest, stack >>
       ELSE /\ rest' = [rest EXCEPT ![t] = m_threads[c]]
            /\ IF m_threads[c] # << >>
               THEN Goto(t, "count") /\ UNCHANGED stack
               ELSE /\ Goto(t, "children")
                    /\ stack' = [stack EXCEPT ![t] = << [of |-> c, at |-> 1] >>]
            /\ UNCHANGED run
    /\ UNCHANGED << m_threads, m_beforeRunning, m_children, linked, counterVars, runVars, op, ctx,
                    local, todo, histVars >>

\* What becomes of a child in TryTransitionChildrenState.
ChildState(c) ==
    IF m_state[c] = "Initiated" THEN "Running"
    ELSE IF m_state[c] = "NotStarted" THEN "CanRun" ELSE m_state[c]

\* TryTransitionChildrenState: the next child, with what it has to start, and its
\* children after that; or there is no next child.
Transition(t) ==
    LET f == Head(stack[t])
        more == f.at <= Len(m_children[f.of])
        c == m_children[f.of][f.at] IN
    /\ At(t, "children")
    /\ IF ~more
       THEN /\ stack' = [stack EXCEPT ![t] = Tail(@)]
            /\ IF Len(stack[t]) = 1 THEN Goto(t, "idle") ELSE UNCHANGED pc
            /\ UNCHANGED << m_state, ctx, rest >>
       ELSE /\ stack' = [stack EXCEPT ![t][1].at = @ + 1]
            /\ IF c \notin linked
               THEN UNCHANGED << m_state, pc, ctx, rest >>
               ELSE /\ m_state' = [m_state EXCEPT ![c] = ChildState(c)]
                    /\ IF m_state[c] = "Initiated"
                       THEN /\ rest' = [rest EXCEPT ![t] = m_threads[c]]
                            /\ ctx' = [ctx EXCEPT ![t] = c]
                            /\ Goto(t, "count")
                       ELSE UNCHANGED << pc, ctx, rest >>
    /\ UNCHANGED << m_threads, m_beforeRunning, m_children, linked, counterVars, runVars, op, run,
                    local, todo, histVars >>

-----------------------------------------------------------------------------
(* AddCoreRunnable *)

\* A runnable that is added to a running context is started by who adds it.
ShouldRun(c) == IsRunning(c)

Add(t) ==
    LET c == ctx[t] IN
    /\ At(t, "add")
    /\ m_threads' = [m_threads EXCEPT ![c] = << run[t] >> \o @]
    /\ m_beforeRunning' = [m_beforeRunning EXCEPT ![c] = TRUE]
    /\ rest' = [rest EXCEPT ![t] = IF ShouldRun(c) THEN << run[t] >> ELSE << >>]
    /\ Goto(t, IF ShouldRun(c) THEN "count" ELSE "added")
    /\ UNCHANGED << m_state, m_children, linked, counterVars, runVars, op, ctx, run, local, stack,
                    todo, histVars >>

\* Mutant: AddCoreRunnable does not look at the state again.
ShouldStopHereNot(c) == FALSE

\* The stop signal may have passed the runnable by.
ShouldStopHere(c) == IsShutdown(c)

Added(t) ==
    LET c == ctx[t] IN
    /\ At(t, "added")
    /\ m_beforeRunning' = [m_beforeRunning EXCEPT ![c] = FALSE]
    /\ settled' = IF IsShutdown(c) THEN settled ELSE settled \cup {run[t]}
    /\ Goto(t, IF ShouldStopHere(c) THEN "addstop" ELSE "idle")
    /\ UNCHANGED << m_state, m_threads, m_children, linked, counterVars, runVars, op, ctx, run, rest,
                    local, stack, todo, ends, unseen, quieted >>

AddedStop(t) ==
    /\ At(t, "addstop")
    /\ Stop(run[t])
    /\ Goto(t, "idle")
    /\ UNCHANGED << treeVars, counterVars, started, op, ctx, run, rest, local, stack, todo, histVars >>

-----------------------------------------------------------------------------
(* SignalShutdown *)

Waits(t) == op[t].kind = "shutdown"     \* "signal" is the one that does not wait

\* Mutant: the newest runnable is always taken for one that is being added.
ToStopTail(c) == IF m_threads[c] = << >> THEN << >> ELSE Tail(m_threads[c])

\* The runnables to stop: all there are, but the one that is just being added.
ToStop(c) == IF m_beforeRunning[c] THEN Tail(m_threads[c]) ELSE m_threads[c]

\* Where a thread goes on when SignalShutdown of a context has returned.
Unwind(t) ==
    Goto(t, IF stack[t] # << >> THEN "kids" ELSE "idle")

\* The first critical section.
Shutdown(t) ==
    LET c == ctx[t] IN
    /\ At(t, "shutdown") \/ At(t, "signal")
    /\ IF IsShutdown(c)
       THEN Unwind(t) /\ UNCHANGED << m_state, stack >>
       ELSE /\ m_state' = [m_state EXCEPT ![c] =
                             IF IsInitiated(c) THEN "Shutdown" ELSE "Abandoned"]
            /\ stack' = [stack EXCEPT ![t] = << [of |-> c, kids |-> {}, stops |-> ToStop(c)] >> \o @]
            /\ Goto(t, "collect")
    /\ UNCHANGED << m_threads, m_beforeRunning, m_children, linked, counterVars, runVars, op, ctx, run,
                    rest, local, todo, histVars >>

\* The second one: the children there are, by their places.
Collect(t) ==
    LET p == Head(stack[t]).of IN
    /\ At(t, "collect")
    /\ stack' = [stack EXCEPT ![t][1].kids =
                   { i \in DOMAIN m_children[p] : m_children[p][i] \in linked }]
    /\ Goto(t, "kids")
    /\ UNCHANGED << treeVars, counterVars, runVars, op, ctx, run, rest, local, todo, histVars >>

\* Child by child, the last one first.
Kids(t) ==
    LET f == Head(stack[t]) IN
    /\ At(t, "kids")
    /\ \/ f.kids = {} /\ Goto(t, "stops") /\ UNCHANGED << stack, ctx >>
       \/ \E i \in f.kids :
            /\ \A j \in f.kids : j <= i
            /\ stack' = [stack EXCEPT ![t][1].kids = @ \ {i}]
            /\ ctx' = [ctx EXCEPT ![t] = m_children[f.of][i]]
            /\ Goto(t, "signal")
    /\ UNCHANGED << treeVars, counterVars, runVars, op, run, rest, local, todo, histVars >>

\* Runnable by runnable, then back to the parent or to Wait.
Stops(t) ==
    LET f == Head(stack[t]) IN
    /\ At(t, "stops")
    /\ IF f.stops # << >>
       THEN /\ Stop(Head(f.stops))
            /\ stack' = [stack EXCEPT ![t][1].stops = Tail(@)]
            /\ UNCHANGED << pc, ctx >>
       ELSE /\ stack' = [stack EXCEPT ![t] = Tail(@)]
            /\ ctx' = [ctx EXCEPT ![t] = op[t].of]
            /\ Goto(t, IF Len(stack[t]) > 1 THEN "kids" ELSE IF Waits(t) THEN "wait" ELSE "idle")
            /\ UNCHANGED stop
    /\ UNCHANGED << treeVars, counterVars, started, op, run, rest, local, todo, histVars >>

-----------------------------------------------------------------------------
\* Thread u is shutting down c or a context below.
ShutsBelow(u, c) ==
    /\ pc[u] \in { "signal", "collect", "kids", "stops" }
    /\ \E i \in DOMAIN stack[u] : c \in Above[stack[u][i].of]

\* Wait, Quiescent, DelayUntilInitiated: every change of what they wait for is made
\* under the lock and followed by notify_all, so that they look again.
Await(t) ==
    LET c == ctx[t] IN
    /\ \/ At(t, "wait") /\ IsShutdown(c) /\ Expired(c)
       \/ At(t, "quiescent") /\ Expired(c)
       \/ At(t, "delay") /\ IsInitiated(c)
    /\ quieted' = IF At(t, "wait") /\ Waits(t) /\ \A u \in Threads : ~ShutsBelow(u, c)
                  THEN quieted \cup {c} ELSE quieted
    /\ Goto(t, "idle")
    /\ UNCHANGED << treeVars, counterVars, runVars, op, ctx, run, rest, local, stack, todo, ends,
                    unseen, settled >>

Step(t) ==
    \/ Create(t) \/ Construct(t) \/ Link(t) \/ Initiate(t) \/ Transition(t)
    \/ Count(t) \/ StartNext(t) \/ Started(t) \/ Add(t) \/ Added(t) \/ AddedStop(t)
    \/ Shutdown(t) \/ Collect(t) \/ Kids(t) \/ Stops(t) \/ Await(t)

Next ==
    \/ \E t \in Threads : Call(t) \/ Step(t)
    \/ \E r \in Runnables : RunnableEnds(r)
    \/ \E k \in Counters : Destroy(k)

Spec == Init /\ [][Next]_vars

\* Threads inside a call go on, a runnable that was stopped ends, a counter that
\* nothing holds is destroyed.
FairSpec ==
    /\ Spec
    /\ \A t \in Threads : WF_vars(Step(t))
    /\ \A r \in Runnables : WF_vars(r \in stop /\ RunnableEnds(r))
    /\ \A k \in Counters : WF_vars(Destroy(k))

-----------------------------------------------------------------------------
(* Properties *)

\* Nobody is inside a call of any context.
Calm == \A t \in Threads : pc[t] = "idle"

InList(c) == { m_threads[c][i] : i \in DOMAIN m_threads[c] }

\* When a SignalShutdown that waits has returned, nothing runs in the context or
\* below that had been added before the shutdown.
WaitMeansQuiet ==
    \A c \in quieted : \A r \in settled : c \in Above[Of[r]] => held[r] = None

\* The same for runnables whose counters no destructor of an older one has got hold
\* of: that is the only way a runnable is lost to a Wait that returns when nobody else
\* is shutting down a context below.
QuietUnlessOvertaken ==
    \A c \in quieted : \A r \in settled :
        c \in Above[Of[r]] /\ Above[Of[r]] \cap overtaken = {} => held[r] = None

\* When all calls have returned, no runnable was missed when its context came to
\* run, by whichever way (Initiate here, Initiate of the parent after it, or
\* AddCoreRunnable), and none when the context was shut down, whether the runnable
\* was added before, meanwhile or afterwards.
NoRunnableMissed ==
    Calm => \A c \in Contexts :
        /\ IsRunning(c) => InList(c) \subseteq started \cup stop
        /\ IsShutdown(c) => InList(c) \subseteq stop

\* When all calls have returned a context that runs has no child that still waits
\* for it, and one that was shut down has no child that was not.  The only child
\* that is left behind is one that CreateInternal linked with a state it had from
\* before the parent ran.
TreeAgrees ==
    Calm => \A c \in linked : Parent[c] # None =>
        /\ IsRunning(Parent[c]) /\ c \notin unseen => m_state[c] \notin {"NotStarted", "Initiated"}
        /\ IsShutdown(Parent[c]) => IsShutdown(c)

\* Every call returns but those that wait for what has not happened: Initiate, Create,
\* AddCoreRunnable and SignalShutdown always, Wait and Quiescent once the context is
\* shut down, DelayUntilInitiated once it is initiated.
CallsReturn ==
    \A t \in Threads :
        /\ pc[t] \notin {"idle", "delay"}
             ~> \/ pc[t] = "idle"
                \/ pc[t] \in {"wait", "quiescent"} /\ ~IsShutdown(ctx[t])
        /\ pc[t] = "delay" /\ IsInitiated(ctx[t]) ~> pc[t] = "idle"

\* DelayUntilInitiated waits "until the context is initiated or, if never initiated,
\* until it starts shutting down".
DelayReturnsEver ==
    \A t \in Threads : pc[t] = "delay" /\ IsShutdown(ctx[t]) ~> pc[t] = "idle"
=============================================================================
