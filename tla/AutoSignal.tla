------------------------------ MODULE AutoSignal ------------------------------
(***************************************************************************)
(* A signal: listeners are linked and unlinked, calls reach all of them,   *)
(* nobody ever blocks.  The atomic m_state is the lock; who cannot have it *)
(* leaves a callable on m_delayedCalls, and whoever asserts the signal     *)
(* runs what was left there before it goes (auto_signal.h, atomic_list.h,  *)
(* atomic_list.cpp under src/src/autowiring).                              *)
(*                                                                         *)
(* Each compare-and-swap on m_state is one step, and so is each critical   *)
(* section of the atomic list; of a loop of compare-and-swaps only the one *)
(* that succeeds is a step.  A weak compare-and-swap that fails for no     *)
(* reason matters in one place, the first one of Link and Unlink.  Memory  *)
(* is sequentially consistent here.                                        *)
(***************************************************************************)
EXTENDS Naturals, Sequences, FiniteSets, Functions

CONSTANTS
    Threads,    \* threads that use the signal
    Entries,    \* listeners, each linked at most once
    Calls,      \* calls of operator() or invoke
    None,       \* no listener, no callable
    Programs,   \* the requests each thread may make
    Outcomes    \* the ways a handler may end: "return", "throw"

ASSUME ConstantsAssumption ==
    /\ None \notin Entries \cup Calls
    /\ Entries \cap Calls = {}
    /\ Outcomes \subseteq {"return", "throw"}

\* A callable_base: what it does and to what; "dead" is one whose entry was taken
\* back.
Callables ==
    [kind : {"link", "unlink", "dead"}, of : Entries]
        \cup [kind : {"signal", "invoke"}, of : Calls]

\* The callables that callers ask for, and lock.
Do(k, x) == [kind |-> k, of |-> x]
Requests == { w \in Callables : w.kind # "dead" } \cup { Do("lock", None) }

ASSUME ProgramsAssumption ==
    /\ None \notin Callables
    /\ Programs \subseteq [Threads -> SUBSET Requests]

VARIABLES
    m_state,        \* SignalState
    listeners,      \* m_pFirstListener .. m_pLastListener
    delayedCalls,   \* m_delayedCalls, newest first
    chainID,        \* m_chainID of it
    pc,             \* per thread: program point
    task,           \* per thread: the callable it deals with, or None
    id,             \* per thread: the chain its callable was pushed on; 0 if not pushed
    chain,          \* per thread: what it released and has still to run
    at,             \* per thread: the listener SignalUnsafe has got to
    calls,          \* the program, which never changes
    reg,            \* reg[e]: what the owner of e knows about it
    freed,          \* listeners that were deleted
    stage,          \* stage[c]: "new", "called", "running" or "done"
    returned,       \* history: calls that have returned
    due,            \* history, due[c]: listeners that must hear c
    heard,          \* history, heard[c]: listeners that heard c
    before,         \* history, before[c]: calls that had returned when c was made
    late            \* history: a handoff found the signal free

signalVars  == << m_state, listeners, delayedCalls, chainID, freed >>
localVars   == << task, id, chain, at, calls >>
historyVars == << reg, stage, returned, due, heard, before, late >>
vars == << signalVars, pc, localVars, historyVars >>

States == { "Free", "Updating", "Asserting", "Deferred" }
Points == { "idle", "try", "push", "defer", "update", "publish", "enter",
            "call", "handler", "fn", "locked", "leave", "release", "drain" }

TypeOK ==
    /\ m_state \in States
    /\ listeners \in Seq(Entries)
    /\ delayedCalls \in Seq(Callables)
    /\ chainID \in Nat \ {0}
    /\ pc \in [Threads -> Points]
    /\ task \in [Threads -> Callables \cup {None}]
    /\ id \in [Threads -> Nat]
    /\ chain \in [Threads -> Seq(Callables)]
    /\ at \in [Threads -> Nat]
    /\ calls \in Programs
    /\ reg \in [Entries -> {"new", "linking", "held", "unlinking", "left", "gone"}]
    /\ freed \subseteq Entries
    /\ stage \in [Calls -> {"new", "called", "running", "done"}]
    /\ returned \subseteq Calls
    /\ {due, heard} \subseteq [Calls -> SUBSET Entries]
    /\ before \in [Calls -> SUBSET Calls]
    /\ late \in BOOLEAN

Init ==
    /\ m_state = "Free"
    /\ listeners = << >> /\ delayedCalls = << >>
    /\ chainID = 1
    /\ pc = [t \in Threads |-> "idle"]
    /\ task = [t \in Threads |-> None]
    /\ id = [t \in Threads |-> 0]
    /\ chain = [t \in Threads |-> << >>]
    /\ at = [t \in Threads |-> 0]
    /\ calls \in Programs
    /\ reg = [e \in Entries |-> "new"]
    /\ freed = {}
    /\ stage = [c \in Calls |-> "new"]
    /\ returned = {}
    /\ due = [c \in Calls |-> {}]
    /\ heard = [c \in Calls |-> {}]
    /\ before = [c \in Calls |-> {}]
    /\ late = FALSE

-----------------------------------------------------------------------------
At(t, l)      == pc[t] = l
Goto(t, l)    == pc' = [pc EXCEPT ![t] = l]
Calling(t, w) == At(t, "idle") /\ w \in calls[t]

\* What a returning operation leaves behind: a listener that is linked or queued
\* to be is its owner's; Unlink knows whether it is gone for good or has left a
\* request; a call has returned.
Return(t, w, done) ==
    /\ reg' = IF w.kind = "link" THEN [reg EXCEPT ![w.of] = "held"]
              ELSE IF w.kind = "unlink"
                   THEN [reg EXCEPT ![w.of] = IF done THEN "gone" ELSE "left"]
                   ELSE reg
    /\ returned' = IF w.kind \in {"signal", "invoke"} THEN returned \cup {w.of} ELSE returned

\* The listeners that must hear a call made now, and those that need not hear
\* one any more because their owner takes them away.
Due(c)        == [due EXCEPT ![c] = { e \in Entries : reg[e] = "held" }]
DueWithout(e) == [c \in Calls |-> IF stage[c] = "done" THEN due[c] ELSE due[c] \ {e}]

-----------------------------------------------------------------------------
(* Link and Unlink *)

\* operator+= and operator-= are called.
EnterLink(t) ==
    /\ \E e \in Entries :
         /\ Calling(t, Do("link", e))
         /\ reg[e] = "new"
         /\ reg' = [reg EXCEPT ![e] = "linking"]
         /\ task' = [task EXCEPT ![t] = Do("link", e)]
    /\ Goto(t, "try")
    /\ UNCHANGED << signalVars, id, chain, at, calls, stage, returned, due, heard, before, late >>

EnterUnlink(t) ==
    /\ \E e \in Entries :
         /\ Calling(t, Do("unlink", e))
         /\ reg[e] = "held"
         /\ reg' = [reg EXCEPT ![e] = "unlinking"]
         /\ due' = DueWithout(e)
         /\ task' = [task EXCEPT ![t] = Do("unlink", e)]
    /\ Goto(t, "try")
    /\ UNCHANGED << signalVars, id, chain, at, calls, stage, returned, heard, before, late >>

\* The first compare-and-swap, Free to Updating, may fail spuriously.
TryUpdate(t) ==
    /\ At(t, "try")
    /\ \/ m_state = "Free" /\ m_state' = "Updating" /\ Goto(t, "update")
       \/ UNCHANGED m_state /\ Goto(t, "push")
    /\ UNCHANGED << listeners, delayedCalls, chainID, freed, localVars, historyVars >>

\* push_entry
Push(t) ==
    /\ At(t, "push")
    /\ delayedCalls' = << task[t] >> \o delayedCalls
    /\ id' = [id EXCEPT ![t] = chainID]
    /\ Goto(t, "defer")
    /\ UNCHANGED << m_state, listeners, chainID, freed, task, chain, at, calls, historyVars >>

\* The loop that passes the callable on: whoever asserts the signal will see it.
Defer(t) ==
    /\ At(t, "defer")
    /\ m_state \in {"Asserting", "Deferred"}
    /\ m_state' = "Deferred"
    /\ Return(t, task[t], FALSE)
    /\ id' = [id EXCEPT ![t] = 0]
    /\ task' = [task EXCEPT ![t] = None]
    /\ Goto(t, "idle")
    /\ UNCHANGED << listeners, delayedCalls, chainID, freed, chain, at, calls,
                    stage, due, heard, before, late >>

\* ... or nobody does, and Link and Unlink take over.
TakeOver(t) ==
    /\ At(t, "defer")
    /\ task[t].kind \in {"link", "unlink"}
    /\ m_state = "Free"
    /\ m_state' = "Updating"
    /\ Goto(t, "update")
    /\ UNCHANGED << listeners, delayedCalls, chainID, freed, localVars, historyVars >>

\* Mutant: whose turn it is is not looked up in the chain identifier.
IsOursAlways(t) == TRUE

\* The request was not pushed, or nobody has released the chain it is on.
IsOurs(t) == id[t] \in {0, chainID}

\* Mutant: the callable stays on the list after its work is done.
TakenBackNot(s, w) == s

\* The list s with the entry taken out of the callable w.
TakenBack(s, w) ==
    [i \in 1 .. Len(s) |-> IF s[i] = w THEN Do("dead", w.of) ELSE s[i]]

\* UnlinkUnsafe: the neighbours of e are joined.
Without(s, e) ==
    IF \E i \in 1 .. Len(s) : s[i] = e
      THEN LET i == CHOOSE i \in 1 .. Len(s) : s[i] = e
           IN  [j \in 1 .. Len(s) - 1 |-> IF j < i THEN s[j] ELSE s[j + 1]]
      ELSE s

\* LinkUnsafe or UnlinkUnsafe.
Linked(s, w) == IF w.kind = "link" THEN Append(s, w.of) ELSE Without(s, w.of)

\* Under Updating: unless a dispatcher got there first, the callable is made
\* harmless and its work done here.  Unlink's entry dies as Unlink returns.
Update(t) ==
    /\ At(t, "update")
    /\ \/ /\ IsOurs(t)
          /\ delayedCalls' = TakenBack(delayedCalls, task[t])
          /\ listeners' = Linked(listeners, task[t])
          /\ freed' = IF task[t].kind = "unlink" THEN freed \cup {task[t].of} ELSE freed
       \/ ~IsOurs(t) /\ UNCHANGED << delayedCalls, listeners, freed >>
    /\ Goto(t, "publish")
    /\ UNCHANGED << m_state, chainID, localVars, historyVars >>

Publish(t) ==
    /\ At(t, "publish")
    /\ m_state' = "Free"
    /\ Return(t, task[t], TRUE)
    /\ id' = [id EXCEPT ![t] = 0]
    /\ task' = [task EXCEPT ![t] = None]
    /\ Goto(t, "idle")
    /\ UNCHANGED << listeners, delayedCalls, chainID, freed, chain, at, calls,
                    stage, due, heard, before, late >>

-----------------------------------------------------------------------------
(* operator(), invoke and lock *)

EnterCall(t) ==
    /\ \E c \in Calls, k \in {"signal", "invoke"} :
         /\ Calling(t, Do(k, c))
         /\ stage[c] = "new"
         /\ stage' = [stage EXCEPT ![c] = "called"]
         /\ due' = IF k = "signal" THEN Due(c) ELSE due
         /\ before' = [before EXCEPT ![c] = returned]
         /\ task' = [task EXCEPT ![t] = Do(k, c)]
    /\ Goto(t, "enter")
    /\ UNCHANGED << signalVars, id, chain, at, calls, reg, returned, heard, late >>

\* Mutant: insertion is no obstacle to a call.
MayAssertUpdating == m_state \in {"Free", "Updating"}

\* A call begins only when nobody is linking, unlinking or calling.
MayAssert == m_state = "Free"

\* The call w begins: SignalUnsafe at the first listener, or the function.
Begin(t, w) ==
    /\ stage' = [stage EXCEPT ![w.of] = "running"]
    /\ at' = [at EXCEPT ![t] = 1]
    /\ Goto(t, IF w.kind = "signal" THEN "call" ELSE "fn")

\* try_enter spins while somebody updates: a call cannot be delegated to insertion.
TryEnter(t) ==
    /\ At(t, "enter")
    /\ \/ /\ MayAssert
          /\ m_state' = "Asserting"
          /\ Begin(t, task[t])
       \/ /\ m_state \in {"Asserting", "Deferred"}
          /\ Goto(t, "push")
          /\ UNCHANGED << m_state, stage, at >>
    /\ UNCHANGED << listeners, delayedCalls, chainID, freed, task, id, chain, calls,
                    reg, returned, due, heard, before, late >>

\* The end of handoff's loop: the signal is free again, and leave is to run the
\* callable just pushed.
HandoffLate(t) ==
    /\ At(t, "defer")
    /\ task[t].kind \in {"signal", "invoke"}
    /\ m_state = "Free"
    /\ m_state' = "Asserting"
    /\ late' = TRUE
    /\ id' = [id EXCEPT ![t] = 0]
    /\ Goto(t, "leave")
    /\ UNCHANGED << listeners, delayedCalls, chainID, freed, task, chain, at, calls,
                    reg, stage, returned, due, heard, before >>

\* lock and try_lock; unlock is leave.
TryLock(t) ==
    /\ Calling(t, Do("lock", None))
    /\ MayAssert
    /\ m_state' = "Asserting"
    /\ Goto(t, "locked")
    /\ UNCHANGED << listeners, delayedCalls, chainID, freed, localVars, historyVars >>

Unlock(t) ==
    /\ At(t, "locked")
    /\ Goto(t, "leave")
    /\ UNCHANGED << signalVars, localVars, historyVars >>

\* The callable that t runs: the first of what it released, or its own call.
Running(t) == IF chain[t] # << >> THEN Head(chain[t]) ELSE task[t]

\* A callable has ended: the next one, or leave.
Ended(t) ==
    /\ chain' = [chain EXCEPT ![t] = IF @ = << >> THEN @ ELSE Tail(@)]
    /\ Goto(t, IF chain[t] = << >> THEN "leave" ELSE "drain")

\* SignalUnsafe gets to the next listener, or to the end.
SignalNext(t) ==
    /\ At(t, "call")
    /\ \/ /\ at[t] <= Len(listeners)
          /\ Goto(t, "handler")
          /\ heard' = [heard EXCEPT ![Running(t).of] = @ \cup {listeners[at[t]]}]
          /\ UNCHANGED << chain, stage >>
       \/ /\ at[t] > Len(listeners)
          /\ Ended(t)
          /\ stage' = [stage EXCEPT ![Running(t).of] = "done"]
          /\ UNCHANGED heard
    /\ UNCHANGED << signalVars, task, id, at, calls, reg, returned, due, before, late >>

\* A handler ends.  An exception ends the call, and nobody else hears of it.
HandlerEnds(t) ==
    /\ At(t, "handler")
    /\ \/ /\ "return" \in Outcomes
          /\ at' = [at EXCEPT ![t] = @ + 1]
          /\ Goto(t, "call")
          /\ UNCHANGED << chain, stage, due >>
       \/ /\ "throw" \in Outcomes
          /\ Ended(t)
          /\ stage' = [stage EXCEPT ![Running(t).of] = "done"]
          /\ due' = [due EXCEPT ![Running(t).of] = @ \cap heard[Running(t).of]]
          /\ UNCHANGED at
    /\ UNCHANGED << signalVars, task, id, calls, reg, returned, heard, before, late >>

\* The function of invoke ends.
FunctionEnds(t) ==
    /\ At(t, "fn")
    /\ Ended(t)
    /\ stage' = [stage EXCEPT ![Running(t).of] = "done"]
    /\ UNCHANGED << signalVars, task, id, at, calls, reg, returned, due, heard, before, late >>

\* A handler, a function or the owner of the lock uses the signal: it leaves a
\* callable for itself to find (push_entry, and Asserting to Deferred, which no
\* other thread can undo in between).
Defers(t, w) ==
    /\ delayedCalls' = << w >> \o delayedCalls
    /\ m_state' = "Deferred"
    /\ UNCHANGED << listeners, chainID, freed, pc, localVars, heard, late >>

Nested(t) ==
    /\ pc[t] \in {"handler", "fn", "locked"}
    /\ \/ \E e \in Entries :
            /\ Do("link", e) \in calls[t] /\ reg[e] = "new"
            /\ reg' = [reg EXCEPT ![e] = "held"]
            /\ Defers(t, Do("link", e))
            /\ UNCHANGED << stage, returned, due, before >>
       \/ \E e \in Entries :
            /\ Do("unlink", e) \in calls[t] /\ reg[e] = "held"
            /\ reg' = [reg EXCEPT ![e] = "left"]
            /\ due' = DueWithout(e)
            /\ Defers(t, Do("unlink", e))
            /\ UNCHANGED << stage, returned, before >>
       \/ \E c \in Calls, k \in {"signal", "invoke"} :
            /\ Do(k, c) \in calls[t] /\ stage[c] = "new"
            /\ stage' = [stage EXCEPT ![c] = "called"]
            /\ due' = IF k = "signal" THEN Due(c) ELSE due
            /\ before' = [before EXCEPT ![c] = returned]
            /\ returned' = returned \cup {c}
            /\ Defers(t, Do(k, c))
            /\ UNCHANGED reg

-----------------------------------------------------------------------------
(* leave *)

\* Mutant: leave gives the signal up although work was deferred.
MayLeaveAlways == TRUE

\* Asserting to Free succeeds only if nothing was deferred since.
MayLeave == m_state = "Asserting"

Leave(t) ==
    /\ At(t, "leave")
    /\ \/ /\ MayLeave
          /\ m_state' = "Free"
          /\ returned' = IF task[t] = None THEN returned ELSE returned \cup {task[t].of}
          /\ task' = [task EXCEPT ![t] = None]
          /\ Goto(t, "idle")
       \/ /\ ~MayLeave
          /\ m_state' = "Asserting"
          /\ Goto(t, "release")
          /\ UNCHANGED << task, returned >>
    /\ UNCHANGED << listeners, delayedCalls, chainID, freed, id, chain, at, calls,
                    reg, stage, due, heard, before, late >>

\* Mutant: release hands the entries out newest first.
ReleasedAsIs(s) == s

\* release flips the links around, so that the oldest is first.
Released(s) == [i \in 1 .. Len(s) |-> s[Len(s) + 1 - i]]

Release(t) ==
    /\ At(t, "release")
    /\ chain' = [chain EXCEPT ![t] = Released(delayedCalls)]
    /\ delayedCalls' = << >>
    /\ chainID' = chainID + 1
    /\ Goto(t, "drain")
    /\ UNCHANGED << m_state, listeners, freed, task, id, at, calls, historyVars >>

\* The next callable of the chain: listeners come and go here, calls begin.
Drain(t) ==
    /\ At(t, "drain")
    /\ \/ /\ chain[t] = << >>
          /\ Goto(t, "leave")
          /\ UNCHANGED << listeners, freed, chain, stage, at >>
       \/ /\ chain[t] # << >> /\ Head(chain[t]).kind \in {"link", "unlink"}
          /\ listeners' = Linked(listeners, Head(chain[t]))
          /\ freed' = IF Head(chain[t]).kind = "unlink"
                        THEN freed \cup {Head(chain[t]).of} ELSE freed
          /\ chain' = [chain EXCEPT ![t] = Tail(@)]
          /\ UNCHANGED << pc, stage, at >>
       \/ /\ chain[t] # << >> /\ Head(chain[t]).kind = "dead"
          /\ chain' = [chain EXCEPT ![t] = Tail(@)]
          /\ UNCHANGED << pc, listeners, freed, stage, at >>
       \/ /\ chain[t] # << >> /\ Head(chain[t]).kind \in {"signal", "invoke"}
          /\ Begin(t, Head(chain[t]))
          /\ UNCHANGED << listeners, freed, chain >>
    /\ UNCHANGED << m_state, delayedCalls, chainID, task, id, calls,
                    reg, returned, due, heard, before, late >>

-----------------------------------------------------------------------------
Request(t) == EnterLink(t) \/ EnterUnlink(t) \/ EnterCall(t) \/ TryLock(t)

Continue(t) ==
    \/ TryUpdate(t) \/ Push(t) \/ Defer(t) \/ TakeOver(t) \/ Update(t) \/ Publish(t)
    \/ TryEnter(t) \/ HandoffLate(t) \/ Unlock(t)
    \/ SignalNext(t) \/ HandlerEnds(t) \/ FunctionEnds(t)
    \/ Leave(t) \/ Release(t) \/ Drain(t)

Next == \E t \in Threads : Request(t) \/ Continue(t) \/ Nested(t)

Spec == Init /\ [][Next]_vars

(* Fairness.  A thread inside an operation goes on, and handlers end.  Weak
   fairness is enough: the compare-and-swap loops are not wait free, but each
   thread makes finitely many requests here, so the state that a loop waits for
   is there to stay in the end. *)
Fairness == \A t \in Threads : WF_vars(Continue(t))

FairSpec == Spec /\ Fairness

-----------------------------------------------------------------------------
(* Safety *)

Updaters  == { t \in Threads : pc[t] \in {"update", "publish"} }
Asserters == { t \in Threads : pc[t] \in {"call", "handler", "fn", "locked", "leave",
                                          "release", "drain"} }

\* m_state is a lock: a thread changes the listeners or goes through them exactly
\* while the state says so, and never two at a time.  "No call is made on this
\* signal while another call is still underway."
Exclusive ==
    /\ \A t, u \in Updaters \cup Asserters : t = u
    /\ m_state = "Updating" <=> Updaters # {}
    /\ m_state \in {"Asserting", "Deferred"} <=> Asserters # {}

\* A listener is linked at most once, although its link may have been pushed, taken
\* back, or run by a dispatcher; and one that was deleted is neither linked nor on
\* its way to be.
ListenersSound ==
    /\ IsInjective(listeners)
    /\ Range(listeners) \cap freed = {}
    /\ \A t \in Threads : \A w \in Range(chain[t] \o delayedCalls) :
           w.kind \in {"link", "unlink"} => w.of \notin freed

\* A listener whose registration was complete before a call was made, and that
\* nobody has begun to take away, hears the call.  Once Unlink has returned true the
\* handler is not running and will not run again.
HeardExactly ==
    /\ \A c \in Calls : stage[c] = "done" => due[c] \subseteq heard[c]
    /\ \A e \in Entries : reg[e] = "gone" =>
         /\ e \notin Range(listeners)
         /\ \A t \in Threads : ~(At(t, "handler") /\ listeners[at[t]] = e)

\* "The signal's call-order is a single total order": a call that had returned
\* when another was made begins before it, unless a handoff came late.
CallOrder ==
    \A c, d \in Calls :
        c \in before[d] /\ stage[d] \in {"running", "done"} /\ ~late
            => stage[c] = "done"

(* Liveness *)

\* Work that was left to somebody else is done in the end: every call is made, and
\* a listener taken away is deleted, unless a handoff came late.
RequestsAreServed ==
    /\ \A c \in Calls : stage[c] = "called" ~> stage[c] = "done" \/ late
    /\ \A e \in Entries : reg[e] = "left" ~> e \in freed \/ late

\* "guarantee it will be called as soon as possible": every call is made.
EveryCallIsMade ==
    \A c \in Calls : stage[c] = "called" ~> stage[c] = "done"
=============================================================================
