---------------------------- MODULE DispatchQueue ----------------------------
(***************************************************************************)
(* The asynchronous queue of zero-argument functions (thunks) that every   *)
(* thread, job and thread pool of Autowiring is built on:                  *)
(* src/src/autowiring/DispatchQueue.{h,cpp} and DispatchThunk.h.           *)
(*                                                                         *)
(* Threads call the queue's operations concurrently.  A critical section   *)
(* under m_dispatchLock is one atomic step, with one exception: a thread   *)
(* in WaitForEvent(void) holds the lock (variable lock) from reading the   *)
(* version until it blocks or leaves, because m_version is incremented and *)
(* m_queueUpdated is notified without the lock.  Everything the code does  *)
(* outside the lock (running a thunk, decrementing m_count, the late       *)
(* notify_all, destroying a thunk) is a step of its own.                   *)
(*                                                                         *)
(* A thunk's calls back into the queue are not modelled as a nested stack: *)
(* the nested calls of a thunk running on thread t are a special case of   *)
(* the calls another thread makes while t is at "run".                     *)
(***************************************************************************)
EXTENDS Naturals, Sequences, FiniteSets, Functions

CONSTANTS
    Threads,     \* threads that call operations of the queue
    Thunks,      \* DispatchThunkBase objects, each pended at most once
    NoThunk,     \* nullptr
    NoThread,    \* m_dispatchLock is not held across a step
    Calls,       \* Calls[t]: the operations thread t may call
    Outcomes,    \* Outcomes[k]: the ways an invocation of thunk k may end
    InitCap,     \* the m_dispatchCap the queue is constructed with
    MaxTime,     \* bound: the clock stops here
    MaxVersion   \* bound: WakeAllWaitingThreads is called MaxVersion - 1 times

OpNames == { "Pend", "PendExisting", "PendDelayed", "Append", "DispatchEvent",
             "TryDispatchEvent", "DispatchAllEvents", "WaitForEvent",
             "WaitForEventUntil", "Abort", "Rundown", "Cancel", "WakeAll",
             "Barrier", "BarrierFor", "SetDispatcherCap" }

\* How an invocation of a thunk ends: it returns, throws
\* dispatch_aborted_exception ("abort") or throws anything else ("throw").
OutcomeNames == { "return", "throw", "abort" }

ASSUME ConstantsAssumption ==
    /\ IsFiniteSet(Thunks)
    /\ NoThunk \notin Thunks
    /\ NoThread \notin Threads
    /\ Calls \in [Threads -> SUBSET OpNames]
    /\ Outcomes \in [Thunks -> SUBSET OutcomeNames]
    /\ InitCap \in Nat
    /\ MaxTime \in Nat
    /\ MaxVersion \in Nat

VARIABLES
    list,       \* the thunks reachable from m_pHead along m_pFlink, in order
    tail,       \* m_pTail, which the code never resets when it pops
    fate,       \* fate[k]: who owns thunk k, or what became of it
    ready,      \* ready[k]: GetReadyTime() of a thunk in m_delayedQueue
    count,      \* m_count
    cap,        \* m_dispatchCap
    aborted,    \* onAborted
    version,    \* m_version
    now,        \* steady_clock::now()
    lock,       \* the thread inside WaitForEvent(void) that holds m_dispatchLock
    asleep,     \* threads blocked on m_queueUpdated and not yet notified
    pc, op,     \* per thread: program point, operation called last
    cur,        \* per thread: the thunk popped by DispatchEventUnsafe
    held,       \* per thread: the list taken by ClearQueueInternal
    wake,       \* per thread: wakeTime of a timed wait
    deadline,   \* per thread: the wakeTime the caller asked for
    seen,       \* per thread: the version WaitForEvent(void) read
    bar,        \* per thread: the lambda of the Barrier call under way
    complete,   \* per thread: the "complete" flag of that Barrier call
    ahead,      \* per thread: thunks on the list when Barrier was called
    lambda,     \* lambda[k]: k is a Barrier's lambda, and how it refers to complete
    failed      \* threads whose thunk under way has thrown

listVars  == << list, tail, fate, ready, count >>
stateVars == << cap, aborted, version >>
cvVars    == << lock, asleep >>
waitVars  == << wake, deadline, seen >>
barVars   == << bar, complete, ahead, lambda >>
localVars == << held, waitVars, barVars, failed >>
vars      == << listVars, stateVars, now, cvVars, pc, op, cur, localVars >>

Fates   == { "new", "queued", "delayed", "flight", "held", "expiring", "done",
             "dropped", "lost" }
PCs     == { "idle", "run", "putback", "dec", "zero", "delete", "again", "drain",
             "invoke", "sweep", "notify", "pred", "block", "asleep", "timed",
             "barrier", "bwait", "btimed" }
Times   == 0 .. MaxTime

\* Ready times of delayed thunks: the clock passes every one of them.
Delays  == { r \in Times : r < MaxTime }

TypeOK ==
    /\ list \in Seq(Thunks)
    /\ tail \in Thunks \cup {NoThunk}
    /\ fate \in [Thunks -> Fates]
    /\ ready \in [Thunks -> Nat]
    /\ count \in Nat
    /\ cap \in Nat
    /\ aborted \in BOOLEAN
    /\ version \in Nat
    /\ now \in Nat
    /\ lock \in Threads \cup {NoThread}
    /\ asleep \in SUBSET Threads
    /\ pc \in [Threads -> PCs]
    /\ op \in [Threads -> OpNames \cup {"none"}]
    /\ cur \in [Threads -> Thunks \cup {NoThunk}]
    /\ held \in [Threads -> Seq(Thunks)]
    /\ wake \in [Threads -> Nat]
    /\ deadline \in [Threads -> Nat]
    /\ seen \in [Threads -> Nat]
    /\ bar \in [Threads -> Thunks \cup {NoThunk}]
    /\ complete \in [Threads -> BOOLEAN]
    /\ ahead \in [Threads -> SUBSET Thunks]
    /\ lambda \in [Thunks -> {"no", "stack", "shared"}]
    /\ failed \in SUBSET Threads

Init ==
    /\ list = << >>
    /\ tail = NoThunk
    /\ fate = [k \in Thunks |-> "new"]
    /\ ready = [k \in Thunks |-> 0]
    /\ count = 0
    /\ cap = InitCap
    /\ aborted = FALSE
    /\ version = 1
    /\ now = 0
    /\ lock = NoThread
    /\ asleep = {}
    /\ pc = [t \in Threads |-> "idle"]
    /\ op = [t \in Threads |-> "none"]
    /\ cur = [t \in Threads |-> NoThunk]
    /\ held = [t \in Threads |-> << >>]
    /\ wake = [t \in Threads |-> 0]
    /\ deadline = [t \in Threads |-> 0]
    /\ seen = [t \in Threads |-> 0]
    /\ bar = [t \in Threads |-> NoThunk]
    /\ complete = [t \in Threads |-> FALSE]
    /\ ahead = [t \in Threads |-> {}]
    /\ lambda = [k \in Thunks |-> "no"]
    /\ failed = {}

-----------------------------------------------------------------------------
(* Control of the calling thread *)

Goto(t, p) == pc' = [pc EXCEPT ![t] = p]

\* Thread t, between calls, calls operation o and is next at p.
Call(t, o, p) ==
    /\ pc[t] = "idle"
    /\ o \in Calls[t]
    /\ op' = [op EXCEPT ![t] = IF p = "idle" THEN "none" ELSE o]
    /\ Goto(t, p)

\* The call under way returns to its caller, or throws.
Leave(t) ==
    /\ Goto(t, "idle")
    /\ op' = [op EXCEPT ![t] = "none"]

\* The local variables of a wait go out of scope.
EndWait(t) ==
    /\ wake' = [wake EXCEPT ![t] = 0]
    /\ deadline' = [deadline EXCEPT ![t] = 0]
    /\ seen' = [seen EXCEPT ![t] = 0]

LockFree == lock = NoThread

-----------------------------------------------------------------------------
(* The linked list and the delayed queue *)

Queued  == { k \in Thunks : fate[k] = "queued" }
Delayed == { k \in Thunks : fate[k] = "delayed" }

\* The thunks PromoteReadyDispatchersUnsafe moves: the comparison is strict.
Ready == { k \in Delayed : ready[k] < now }

\* The orders in which the priority queue may yield the thunks of S.
Chains(S) ==
    { s \in Bijection(1 .. Cardinality(S), S) :
        \A i, j \in 1 .. Cardinality(S) : i < j => ready[s[i]] <= ready[s[j]] }

\* The earliest ready time in m_delayedQueue, capped by latest.
SuggestSoonestWakeupTimeUnsafe(latest) ==
    IF \E k \in Delayed : ready[k] < latest
    THEN CHOOSE r \in { ready[k] : k \in Delayed } :
            \A k \in Delayed : r <= ready[k]
    ELSE latest

\* Mutant of Linked: the chain is hung on m_pHead.
LinkedInFront(s) == s \o list

\* The list once the chain s is hung on it: on m_pHead when the list is empty,
\* else on m_pTail->m_pFlink.  What was behind m_pTail is cut off; and when
\* m_pTail is null or is a thunk that is no longer on the list, s is hung on a
\* node nobody reaches (the outcome of the undefined behaviour that matters
\* here; the process may also crash).
Linked(s) ==
    IF list = << >> THEN s
    ELSE IF \E i \in DOMAIN list : list[i] = tail
         THEN SubSeq(list, 1, CHOOSE i \in DOMAIN list : list[i] = tail) \o s
         ELSE list

\* Linking the chain s, whose members leave the states they are in: they are
\* reachable from m_pHead from now on, or lost.
LinkedFate(s) ==
    [k \in Thunks |->
        IF k \in Range(Linked(s)) THEN "queued"
        ELSE IF k \in Range(list) \cup Range(s) THEN "lost"
        ELSE fate[k]]

\* An entry that leaves m_delayedQueue takes its ready time along.
KeepReady ==
    ready' = [k \in Thunks |-> IF fate'[k] = "delayed" THEN ready[k] ELSE 0]

\* m_pTail after linking.
LinkedTail(s) == IF s = << >> THEN NoThunk ELSE s[Len(s)]

\* Hanging the one thunk k on the list, and the unconditional m_count++.
Link(k) ==
    /\ list' = Linked(<< k >>)
    /\ fate' = LinkedFate(<< k >>)
    /\ tail' = LinkedTail(<< k >>)
    /\ count' = count + 1
    /\ UNCHANGED ready

\* notify_all on m_queueUpdated.
NotifyAll == asleep' = {}

\* Mutants of NotifyIfWasEmpty: m_count tested instead of m_pHead; the test
\* the wrong way round.
NotifyIfCountZero == asleep' = IF count = 0 THEN {} ELSE asleep
NotifyIfNotEmpty == asleep' = IF list # << >> THEN {} ELSE asleep

\* notify_all when m_pHead was null.
NotifyIfWasEmpty == asleep' = IF list = << >> THEN {} ELSE asleep

-----------------------------------------------------------------------------
(* Adding thunks *)

\* operator+=(fx) and AddExisting: the thunk is deleted when the queue is full.
Pend(t) ==
    /\ LockFree
    /\ Call(t, "Pend", "idle")
    /\ \E k \in Thunks :
        /\ fate[k] = "new"
        /\ IF count >= cap
           THEN /\ fate' = [fate EXCEPT ![k] = "dropped"]
                /\ UNCHANGED << list, tail, ready, count, asleep >>
           ELSE Link(k) /\ NotifyIfWasEmpty
    /\ UNCHANGED << stateVars, now, lock, cur, localVars >>

\* Pend and PendExisting, for derived classes: no check at all.
PendExisting(t) ==
    /\ LockFree
    /\ Call(t, "PendExisting", "idle")
    /\ \E k \in Thunks : fate[k] = "new" /\ Link(k)
    /\ NotifyIfWasEmpty
    /\ UNCHANGED << stateVars, now, lock, cur, localVars >>

\* Mutant of IsNewTop: only the first delayed thunk counts.
IsOnlyDelayed(r) == Delayed = {}

\* A thunk ready at r would be the top of m_delayedQueue.
IsNewTop(r) == \A j \in Delayed : r <= ready[j]

\* operator+=(DispatchThunkDelayed&&): pushed whatever cap and onAborted say;
\* notifies, once unlocked, if it is the new top and m_count is zero.
PendDelayed(t) ==
    \E k \in Thunks, r \in Delays :
        /\ LockFree
        /\ fate[k] = "new"
        /\ Call(t, "PendDelayed",
                IF IsNewTop(r) /\ count = 0 THEN "notify" ELSE "idle")
        /\ fate' = [fate EXCEPT ![k] = "delayed"]
        /\ ready' = [ready EXCEPT ![k] = r]
        /\ UNCHANGED << list, tail, count, stateVars, now, cvVars, cur, localVars >>

\* operator+=(DispatchQueue&&): everything on another queue, which nobody else
\* uses, is moved here: its list s and its delayed thunks D.  m_pTail becomes
\* the other queue's m_pTail, null if nothing was ever pended there.
AppendQueue(t) ==
    /\ LockFree
    /\ Call(t, "Append", "idle")
    /\ \E S, D \in SUBSET { k \in Thunks : fate[k] = "new" } :
        \E s \in Bijection(1 .. Cardinality(S), S), r \in [D -> Delays] :
            /\ S \cap D = {}
            /\ list' = Linked(s)
            /\ fate' = [k \in Thunks |->
                            IF k \in D THEN "delayed" ELSE LinkedFate(s)[k]]
            /\ ready' = [k \in Thunks |-> IF k \in D THEN r[k] ELSE ready[k]]
            /\ tail' = LinkedTail(s)
            /\ count' = count + Len(s)
    /\ NotifyAll
    /\ UNCHANGED << stateVars, now, lock, cur, localVars >>

-----------------------------------------------------------------------------
(* Dispatching *)

\* Mutant of Rest: m_pHead does not move.
RestKeepsHead(l) == l

\* m_pHead = thunk->m_pFlink.
Rest(l) == Tail(l)

\* The pop of DispatchEventUnsafe and TryDispatchEventUnsafe, from the list l
\* with fates f: m_pHead moves on, m_pTail stays, the lock is released.
Pop(t, l, f) ==
    /\ list' = Rest(l)
    /\ fate' = [f EXCEPT ![Head(l)] = "flight"]
    /\ cur' = [cur EXCEPT ![t] = Head(l)]
    /\ KeepReady

\* PromoteReadyDispatchersUnsafe followed by the pop; nothing is notified.
PromoteAndPop(t) ==
    \E s \in Chains(Ready) :
        /\ Pop(t, Linked(s), LinkedFate(s))
        /\ tail' = LinkedTail(s)
        /\ count' = count + Len(s)

PopHead(t) == Pop(t, list, fate) /\ UNCHANGED << tail, count >>

\* DispatchEvent, TryDispatchEvent and each turn of DispatchAllEvents: promote
\* only when the list is empty, return false when there is nothing to run.
\* None of them looks at onAborted.
Dispatch(t) ==
    /\ LockFree
    /\ \E o \in { "DispatchEvent", "TryDispatchEvent", "DispatchAllEvents" } :
        LET empty == list = << >> /\ Ready = {} IN
        /\ \/ Call(t, o, IF empty THEN "idle" ELSE "run")
           \/ pc[t] = "again" /\ op[t] = o /\ empty /\ Leave(t)
           \/ pc[t] = "again" /\ op[t] = o /\ ~empty /\ Goto(t, "run") /\ UNCHANGED op
        /\ \/ empty /\ UNCHANGED << listVars, cur >>
           \/ list # << >> /\ PopHead(t)
           \/ list = << >> /\ Ready # {} /\ PromoteAndPop(t)
    /\ UNCHANGED << stateVars, now, cvVars, localVars >>

\* What running thunk k does to the Barrier calls: a lambda sets its flag.
SetComplete(k) ==
    complete' = [u \in Threads |-> complete[u] \/ bar[u] = k]

\* A Barrier's lambda only returns.
OutcomesOf(k) == IF lambda[k] = "no" THEN Outcomes[k] ELSE {"return"}

\* (*thunk)(), in the caller's thread and without the lock.  After an exception
\* TryDispatchEvent puts the thunk back, DispatchEvent destroys it.
RunThunk(t) ==
    /\ pc[t] = "run"
    /\ \/ /\ "return" \in OutcomesOf(cur[t])
          /\ Goto(t, "dec")
          /\ UNCHANGED failed
       \/ /\ OutcomesOf(cur[t]) \cap { "throw", "abort" } # {}
          /\ Goto(t, IF op[t] = "TryDispatchEvent" THEN "putback" ELSE "dec")
          /\ failed' = failed \cup {t}
    /\ SetComplete(cur[t])
    /\ UNCHANGED << listVars, stateVars, now, cvVars, op, cur, held, waitVars,
                    bar, ahead, lambda >>

\* Mutant of PutBackCount: the thunk is pended anew.
PutBackRecounts == count + 1

\* m_count already stands for a thunk that is put back.
PutBackCount == count

\* The handler of TryDispatchEventUnsafe: the thunk goes back to the front;
\* m_pTail and m_count stay and nobody is notified.
PutBack(t) ==
    /\ pc[t] = "putback"
    /\ LockFree
    /\ list' = << cur[t] >> \o list
    /\ fate' = [fate EXCEPT ![cur[t]] = "queued"]
    /\ cur' = [cur EXCEPT ![t] = NoThunk]
    /\ count' = PutBackCount
    /\ Leave(t)
    /\ failed' = failed \ {t}
    /\ UNCHANGED << tail, ready, stateVars, now, cvVars, held, waitVars, barVars >>

\* Mutant of AfterDecrement: zero goes unnoticed.
AfterDecrementSilent == "delete"

\* Hitting zero must be notified.
AfterDecrement == IF count = 1 THEN "zero" ELSE "delete"

\* --m_count, outside the lock.
Decrement(t) ==
    /\ pc[t] = "dec"
    /\ count' = count - 1
    /\ fate' = [fate EXCEPT ![cur[t]] = "expiring"]
    /\ Goto(t, AfterDecrement)
    /\ UNCHANGED << list, tail, ready, stateVars, now, cvVars, op, cur, localVars >>

\* m_count hit zero: pass through the lock, then notify_all.
NotifyZero(t) ==
    /\ pc[t] = "zero"
    /\ LockFree
    /\ NotifyAll
    /\ Goto(t, "delete")
    /\ UNCHANGED << listVars, stateVars, now, lock, op, cur, localVars >>

\* The thunk is destroyed and the operation returns, or rethrows;
\* DispatchAllEvents goes on after a return.
DeleteThunk(t) ==
    /\ pc[t] = "delete"
    /\ fate' = [fate EXCEPT ![cur[t]] = "done"]
    /\ cur' = [cur EXCEPT ![t] = NoThunk]
    /\ IF op[t] = "DispatchAllEvents" /\ t \notin failed
       THEN Goto(t, "again") /\ UNCHANGED op
       ELSE Leave(t)
    /\ failed' = failed \ {t}
    /\ UNCHANGED << list, tail, ready, count, stateVars, now, cvVars, held,
                    waitVars, barVars >>

-----------------------------------------------------------------------------
(* Waiting for an event *)

\* WaitForEvent(void): takes the lock, throws if aborted, reads m_version.
WaitForEvent(t) ==
    /\ LockFree
    /\ Call(t, "WaitForEvent", IF aborted THEN "idle" ELSE "pred")
    /\ IF aborted
       THEN UNCHANGED << lock, seen >>
       ELSE lock' = t /\ seen' = [seen EXCEPT ![t] = version]
    /\ UNCHANGED << listVars, stateVars, now, asleep, cur, held, wake, deadline,
                    barVars, failed >>

\* The predicate of the unconditional wait, evaluated under the lock, and what
\* follows it.  With only delayed thunks the call goes on as a timed wait until
\* the first of them is ready.
WaitPredicate(t) ==
    /\ pc[t] = "pred"
    /\ \/ /\ aborted \/ (list = << >> /\ Delayed = {} /\ seen[t] # version)
          /\ Leave(t) /\ EndWait(t)
          /\ lock' = NoThread
          /\ UNCHANGED << listVars, asleep, cur >>
       \/ /\ ~aborted /\ list # << >>
          /\ Goto(t, "run") /\ EndWait(t)
          /\ PopHead(t)
          /\ lock' = NoThread
          /\ UNCHANGED << asleep, op >>
       \/ /\ ~aborted /\ list = << >>
          /\ \E k \in Delayed :
                /\ \A j \in Delayed : ready[k] <= ready[j]
                /\ wake' = [wake EXCEPT ![t] = ready[k]]
                /\ deadline' = [deadline EXCEPT ![t] = ready[k]]
          /\ Goto(t, "timed")
          /\ asleep' = asleep \cup {t}
          /\ lock' = NoThread
          /\ UNCHANGED << listVars, cur, seen, op >>
       \/ /\ ~aborted /\ list = << >> /\ Delayed = {} /\ seen[t] = version
          /\ Goto(t, "block")
          /\ UNCHANGED << listVars, lock, asleep, cur, waitVars, op >>
    /\ UNCHANGED << stateVars, now, held, barVars, failed >>

\* The predicate was false: unlock and block, atomically for whoever takes the
\* lock, but after a window in which an unlocked notify_all goes unheard.
Block(t) ==
    /\ pc[t] = "block"
    /\ Goto(t, "asleep")
    /\ lock' = NoThread
    /\ asleep' = asleep \cup {t}
    /\ UNCHANGED << listVars, stateVars, now, op, cur, localVars >>

\* Notified: retake the lock and evaluate the predicate again.
Reacquire(t) ==
    /\ pc[t] = "asleep"
    /\ t \notin asleep
    /\ LockFree
    /\ Goto(t, "pred")
    /\ lock' = t
    /\ UNCHANGED << listVars, stateVars, now, asleep, op, cur, localVars >>

\* WaitForEvent(wakeTime), and its first way through WaitForEventUnsafe.
WaitForEventUntil(t) ==
    /\ LockFree
    /\ \/ /\ aborted
          /\ Call(t, "WaitForEventUntil", "idle")
          /\ UNCHANGED << listVars, asleep, cur, waitVars >>
       \/ /\ ~aborted /\ list # << >>
          /\ Call(t, "WaitForEventUntil", "run")
          /\ PopHead(t)
          /\ UNCHANGED << asleep, waitVars >>
       \/ /\ ~aborted /\ list = << >>
          /\ Call(t, "WaitForEventUntil", "timed")
          /\ \E w \in Times :
                /\ deadline' = [deadline EXCEPT ![t] = w]
                /\ wake' = [wake EXCEPT ![t] = SuggestSoonestWakeupTimeUnsafe(w)]
          /\ asleep' = asleep \cup {t}
          /\ UNCHANGED << listVars, cur, seen >>
    /\ UNCHANGED << stateVars, now, lock, held, barVars, failed >>

\* wait_until returns, by a notification or because wakeTime is reached (then
\* the status may be timeout even if a notification came too): the rest of the
\* loop of WaitForEventUnsafe.  m_version is not looked at, and a timeout is
\* reported before the list is.
TimedWake(t) ==
    /\ pc[t] = "timed"
    /\ LockFree
    /\ \E timeout \in BOOLEAN :
        /\ timeout => now >= wake[t]
        /\ ~timeout => t \notin asleep
        /\ \/ /\ aborted \/ (Ready = {} /\ timeout)
              /\ Leave(t) /\ EndWait(t)
              /\ asleep' = asleep \ {t}
              /\ UNCHANGED << listVars, cur >>
           \/ /\ ~aborted /\ Ready # {}
              /\ Goto(t, "run") /\ EndWait(t)
              /\ PromoteAndPop(t)
              /\ asleep' = asleep \ {t}
              /\ UNCHANGED op
           \/ /\ ~aborted /\ Ready = {} /\ ~timeout /\ list # << >>
              /\ Goto(t, "run") /\ EndWait(t)
              /\ PopHead(t)
              /\ UNCHANGED << asleep, op >>
           \/ /\ ~aborted /\ Ready = {} /\ ~timeout /\ list = << >>
              /\ wake' = [wake EXCEPT ![t] = SuggestSoonestWakeupTimeUnsafe(@)]
              /\ asleep' = asleep \cup {t}
              /\ UNCHANGED << listVars, pc, cur, op, deadline, seen >>
    /\ UNCHANGED << stateVars, now, lock, held, barVars, failed >>

-----------------------------------------------------------------------------
(* Clearing the queue *)

\* Mutant: m_pHead is left as it is.
ClearedListKept == list

\* The list and the cap that ClearQueueInternal leaves behind.
ClearedList == << >>
ClearedCap == 0

\* ClearQueueInternal under the lock.  The delayed thunks, ready or not, are
\* destroyed; Rundown goes on to run the list, Abort to destroy it.
ClearQueue(t) ==
    /\ LockFree
    /\ \E o \in { "Abort", "Rundown" } :
        Call(t, o, IF o = "Rundown" THEN "drain" ELSE "sweep")
    /\ aborted' = TRUE
    /\ cap' = ClearedCap
    /\ held' = [held EXCEPT ![t] = list]
    /\ list' = ClearedList
    /\ tail' = NoThunk
    /\ fate' = [k \in Thunks |-> CASE fate[k] = "queued" -> "held"
                                   [] fate[k] = "delayed" -> "dropped"
                                   [] OTHER -> fate[k]]
    /\ KeepReady
    /\ UNCHANGED << count, version, now, cvVars, cur, waitVars, barVars, failed >>

\* The head of Rundown's loop.
DrainNext(t) ==
    /\ pc[t] = "drain"
    /\ Goto(t, IF held[t] = << >> THEN "sweep" ELSE "invoke")
    /\ UNCHANGED << listVars, stateVars, now, cvVars, op, cur, localVars >>

\* Only an exception other than dispatch_aborted_exception ends the loop.
AfterInvoke(o) == IF o = "throw" THEN "sweep" ELSE "drain"

\* Its body: after a return the thunk is deleted and m_count decremented; after
\* dispatch_aborted_exception pHead has not moved, so the same thunk is next;
\* any other exception ends the loop.
DrainRun(t) ==
    /\ pc[t] = "invoke"
    /\ \E o \in OutcomesOf(Head(held[t])) :
        /\ Goto(t, AfterInvoke(o))
        /\ IF o = "return"
           THEN /\ held' = [held EXCEPT ![t] = Tail(@)]
                /\ fate' = [fate EXCEPT ![Head(held[t])] = "done"]
                /\ count' = count - 1
           ELSE UNCHANGED << held, fate, count >>
    /\ SetComplete(Head(held[t]))
    /\ UNCHANGED << list, tail, ready, stateVars, now, cvVars, op, cur, waitVars,
                    bar, ahead, lambda, failed >>

\* Whatever is left is destroyed and m_count lowered by the number of nodes.
Sweep(t) ==
    /\ pc[t] = "sweep"
    /\ fate' = [k \in Thunks |-> IF k \in Range(held[t]) THEN "dropped" ELSE fate[k]]
    /\ count' = count - Len(held[t])
    /\ held' = [held EXCEPT ![t] = << >>]
    /\ Goto(t, "notify")
    /\ UNCHANGED << list, tail, ready, stateVars, now, cvVars, op, cur, waitVars,
                    barVars, failed >>

\* The unlocked notify_all that ends Abort, Rundown, WakeAllWaitingThreads and
\* a delayed pend.
LateNotify(t) ==
    /\ pc[t] = "notify"
    /\ NotifyAll
    /\ Leave(t)
    /\ UNCHANGED << listVars, stateVars, now, lock, cur, localVars >>

\* Cancel: the first thunk of the list, else the top of the delayed queue.
\* m_count is decremented and nobody is notified.
Cancel(t) ==
    /\ LockFree
    /\ Call(t, "Cancel", "idle")
    /\ \/ /\ list # << >>
          /\ list' = Tail(list)
          /\ fate' = [fate EXCEPT ![Head(list)] = "dropped"]
          /\ count' = count - 1
       \/ /\ list = << >>
          /\ \E k \in Delayed :
                /\ \A j \in Delayed : ready[k] <= ready[j]
                /\ fate' = [fate EXCEPT ![k] = "dropped"]
          /\ UNCHANGED << list, count >>
       \/ /\ list = << >> /\ Delayed = {}
          /\ UNCHANGED << list, fate, count >>
    /\ KeepReady
    /\ UNCHANGED << tail, stateVars, now, cvVars, cur, localVars >>

\* WakeAllWaitingThreads: m_version++, then notify_all, both without the lock.
WakeAll(t) ==
    /\ version < MaxVersion
    /\ Call(t, "WakeAll", "notify")
    /\ version' = version + 1
    /\ UNCHANGED << listVars, cap, aborted, now, cvVars, cur, localVars >>

\* SetDispatcherCap, for derived classes; not synchronised.
SetDispatcherCap(t) ==
    /\ Call(t, "SetDispatcherCap", "idle")
    /\ cap' \in 0 .. InitCap
    /\ UNCHANGED << listVars, aborted, version, now, cvVars, cur, localVars >>

-----------------------------------------------------------------------------
(* Barriers *)

\* Thread t enters Barrier with lambda k, which refers to complete by kind.
EnterBarrier(t, k, kind) ==
    /\ bar' = [bar EXCEPT ![t] = k]
    /\ complete' = [complete EXCEPT ![t] = FALSE]
    /\ ahead' = [ahead EXCEPT ![t] = Queued]
    /\ lambda' = [lambda EXCEPT ![k] = kind]

\* Barrier returns or throws: its stack frame is gone.
LeaveBarrier(t) ==
    /\ Leave(t) /\ EndWait(t)
    /\ bar' = [bar EXCEPT ![t] = NoThunk]
    /\ complete' = [complete EXCEPT ![t] = FALSE]
    /\ ahead' = [ahead EXCEPT ![t] = {}]
    /\ UNCHANGED lambda

\* Barrier(void) pends its lambda with operator+=, and ignores what that returns.
Barrier(t) ==
    /\ LockFree
    /\ Call(t, "Barrier", "barrier")
    /\ \E k \in Thunks :
        /\ fate[k] = "new"
        /\ EnterBarrier(t, k, "stack")
        /\ IF count >= cap
           THEN /\ fate' = [fate EXCEPT ![k] = "dropped"]
                /\ UNCHANGED << list, tail, ready, count, asleep >>
           ELSE Link(k) /\ NotifyIfWasEmpty
    /\ UNCHANGED << stateVars, now, lock, cur, held, waitVars, failed >>

\* The wait of Barrier(void), from the call or after a notification.
BarrierWait(t) ==
    /\ LockFree
    /\ pc[t] = "barrier" \/ (pc[t] = "bwait" /\ t \notin asleep)
    /\ \/ /\ aborted \/ complete[t]
          /\ LeaveBarrier(t)
          /\ UNCHANGED asleep
       \/ /\ ~aborted /\ ~complete[t]
          /\ Goto(t, "bwait")
          /\ asleep' = asleep \cup {t}
          /\ UNCHANGED << op, waitVars, barVars >>
    /\ UNCHANGED << listVars, stateVars, now, lock, cur, held, failed >>

\* Barrier(timeout), timeout not zero: throws if aborted, else pends its lambda
\* with PendExisting and blocks without releasing the lock in between.
BarrierFor(t) ==
    /\ LockFree
    /\ \/ /\ aborted
          /\ Call(t, "BarrierFor", "idle")
          /\ UNCHANGED << listVars, asleep, wake, barVars >>
       \/ /\ ~aborted
          /\ Call(t, "BarrierFor", "btimed")
          /\ \E k \in Thunks :
                fate[k] = "new" /\ Link(k) /\ EnterBarrier(t, k, "shared")
          /\ asleep' = (IF list = << >> THEN {} ELSE asleep) \cup {t}
          /\ \E w \in Times : w > now /\ wake' = [wake EXCEPT ![t] = w]
    /\ UNCHANGED << stateVars, now, lock, cur, held, deadline, seen, failed >>

\* Its wait_for, woken by a notification or at the end of the timeout.
BarrierForWake(t) ==
    /\ LockFree
    /\ pc[t] = "btimed"
    /\ t \notin asleep \/ now >= wake[t]
    /\ \/ /\ aborted \/ complete[t] \/ now >= wake[t]
          /\ LeaveBarrier(t)
          /\ asleep' = asleep \ {t}
       \/ /\ ~aborted /\ ~complete[t] /\ now < wake[t]
          /\ asleep' = asleep \cup {t}
          /\ UNCHANGED << pc, op, waitVars, barVars >>
    /\ UNCHANGED << listVars, stateVars, now, lock, cur, held, failed >>

-----------------------------------------------------------------------------
(* The environment: time passes, and a condition variable may wake a thread
   without a notification. *)

Tick ==
    /\ now < MaxTime
    /\ now' = now + 1
    /\ UNCHANGED << listVars, stateVars, cvVars, pc, op, cur, localVars >>

SpuriousWake(t) ==
    /\ t \in asleep
    /\ asleep' = asleep \ {t}
    /\ UNCHANGED << listVars, stateVars, now, lock, pc, op, cur, localVars >>

\* A thread calls an operation.
Request(t) ==
    \/ Pend(t) \/ PendExisting(t) \/ PendDelayed(t) \/ AppendQueue(t)
    \/ WaitForEvent(t) \/ WaitForEventUntil(t)
    \/ ClearQueue(t) \/ Cancel(t) \/ WakeAll(t) \/ SetDispatcherCap(t)
    \/ Barrier(t) \/ BarrierFor(t)

\* A thread inside an operation goes on (Dispatch is here for DispatchAllEvents).
Continue(t) ==
    \/ RunThunk(t) \/ PutBack(t) \/ Decrement(t) \/ NotifyZero(t) \/ DeleteThunk(t)
    \/ WaitPredicate(t) \/ Block(t) \/ Reacquire(t) \/ TimedWake(t)
    \/ DrainNext(t) \/ DrainRun(t) \/ Sweep(t) \/ LateNotify(t)
    \/ BarrierWait(t) \/ BarrierForWake(t)

Next ==
    \/ \E t \in Threads : Request(t) \/ Dispatch(t) \/ Continue(t) \/ SpuriousWake(t)
    \/ Tick

Spec == Init /\ [][Next]_vars

-----------------------------------------------------------------------------
(* Fairness.  A thread inside an operation goes on: the scheduler runs it, a
   mutex that is free again and again is acquired, a thunk ends, and the clock
   advances.  A thread that may call WaitForEvent is a run loop, as in
   CoreThread::Run: it calls it again and again.  No fairness is assumed of
   any other call, nor of spurious wakeups, nor of how a thunk ends. *)

Goes(t) == Continue(t) \/ (pc[t] = "again" /\ Dispatch(t))

Fairness ==
    /\ \A t \in Threads : SF_vars(Goes(t)) /\ SF_vars(WaitForEvent(t))
    /\ WF_vars(Tick)

FairSpec == Spec /\ Fairness

-----------------------------------------------------------------------------
(* Safety *)

\* The thunks m_count stands for: on the list, running, taken by Rundown or
\* Abort and not yet destroyed, or leaked.
Counted == { k \in Thunks : fate[k] \in {"queued", "flight", "held", "lost"} }

\* m_count, which the code changes at nine places in and out of the lock, is
\* never off: it is the number of thunks linked and not yet finished, cancelled
\* or swept.  Barrier(0), the cap and the zero notification all rely on it.  A
\* thunk that was run or cancelled is counted off before it is destroyed, so that its
\* destructor may find a length of 0, against the comment of GetDispatchQueueLength.
CountAccounts == count = Cardinality(Counted)

\* The list is the queue: a thunk is reachable from m_pHead exactly while the
\* queue owns it, and once; so nothing runs twice and nothing freed is reached.
ListIsQueue == IsInjective(list) /\ Range(list) = Queued

\* Points between the pop of a thunk and --m_count, and from there to its end.
Executing == { "run", "putback", "dec" }
Disposing == { "zero", "delete" }

\* A popped thunk belongs to the one thread that popped it.
CurOwned ==
    \A t \in Threads :
        /\ pc[t] \in Executing => cur[t] \in Thunks /\ fate[cur[t]] = "flight"
        /\ pc[t] \in Disposing => cur[t] \in Thunks /\ fate[cur[t]] = "expiring"
        /\ pc[t] \in Executing \cup Disposing
            => \A u \in Threads \ {t} :
                    pc[u] \in Executing \cup Disposing => cur[u] # cur[t]

\* A thunk taken by Abort or Rundown belongs to the thread that took it.
HeldOwned ==
    \A t \in Threads :
        /\ IsInjective(held[t])
        /\ \A k \in Range(held[t]) : fate[k] = "held"
        /\ \A u \in Threads \ {t} : Range(held[t]) \cap Range(held[u]) = {}
        /\ pc[t] = "invoke" => held[t] # << >>

\* Every thunk off the list that is not destroyed yet has one owner: no two
\* threads run or delete the same thunk.
Ownership == CurOwned /\ HeldOwned

\* A thread is on its way to notify_all after it cleared the queue.
Clearing(u) == pc[u] \in { "drain", "invoke", "sweep", "notify" }

\* No thread sleeps in WaitForEvent(void) on a queue with a thunk to run, or
\* on an aborted one, unless a notification is on its way.
NoLostWakeup ==
    \A t \in Threads :
        pc[t] = "asleep" /\ t \in asleep /\ (list # << >> \/ aborted)
            => \E u \in Threads : Clearing(u)

\* No thread sleeps past a delayed thunk: it wakes no later than the thunk is
\* ready, or something still counted will bring m_count to zero and notify, or
\* a notification is on its way.
DelayedIsAwaited ==
    \A t \in Threads, k \in Delayed :
        t \in asleep /\ pc[t] \in { "asleep", "timed" }
            => \/ pc[t] = "timed" /\ wake[t] <= ready[k]
               \/ count > 0
               \/ \E u \in Threads : pc[u] = "zero" \/ Clearing(u)

\* Once Barrier may succeed, every thunk that was on the list when it was called
\* has left it: it was invoked, or dropped by Cancel.
BarrierFlushes ==
    \A t \in Threads :
        complete[t] => \A k \in ahead[t] : fate[k] \notin { "queued", "held" }

\* Thunk k is being invoked.
Running(k) ==
    \E t \in Threads : \/ pc[t] = "run" /\ cur[t] = k
                       \/ pc[t] = "invoke" /\ Head(held[t]) = k

\* The life of a thunk as ThunkContract sees it.
ThunkState ==
    [k \in Thunks |->
        CASE fate[k] \in { "queued", "delayed" } -> "pending"
          [] fate[k] = "flight" -> "running"
          [] fate[k] = "held" -> IF Running(k) THEN "running" ELSE "pending"
          [] fate[k] = "expiring" -> "done"
          [] OTHER -> fate[k]]

Contract == INSTANCE ThunkContract WITH state <- ThunkState

\* Every behaviour of the queue is one that ThunkContract allows.
ImplementsContract == Contract!Spec

-----------------------------------------------------------------------------
(* Liveness *)

\* Every thunk the queue accepts is run or dropped in the end; a delayed one may
\* stay if it was pended after Abort or Rundown.
EveryThunkSettles ==
    \A k \in Thunks :
        /\ fate[k] \in { "queued", "flight", "held" } ~> fate[k] \in { "done", "dropped" }
        /\ fate[k] = "delayed" ~> fate[k] \in { "done", "dropped" } \/ aborted

Blocked == { "asleep", "timed", "bwait", "btimed" }

\* The lambda of t's Barrier was refused, because the queue was full: Barrier does not
\* notice and waits for an Abort.
Refused(t) == bar[t] # NoThunk /\ fate[bar[t]] = "dropped" /\ ~aborted

\* No thunk that Rundown runs throws dispatch_aborted_exception for ever.
Relents == \A t \in Threads : <>[](pc[t] # "invoke")

\* If Rundown is not kept by such a thunk: a Barrier(void) that is not refused returns
\* or throws, also one whose lambda was run before it slept and one under which the
\* queue is aborted; Abort and Rundown return, also when thunks throw; and nobody stays
\* blocked on an aborted queue.
CallsReturn ==
    Relents => \A t \in Threads :
        /\ pc[t] \in { "barrier", "bwait" } ~> pc[t] = "idle" \/ Refused(t)
        /\ Clearing(t) ~> pc[t] = "idle"
        /\ aborted /\ pc[t] \in Blocked ~> pc[t] \notin Blocked
=============================================================================
