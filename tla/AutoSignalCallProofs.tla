------------------------ MODULE AutoSignalCallProofs ------------------------
(***************************************************************************)
(* That calls are made in order and heard (CallOrder and HeardExactly),    *)
(* for any number of threads, listeners and calls, and any programs.  On   *)
(* top of where every request is (AutoSignalProofs) the invariant says     *)
(* how far each call has got (Known), what a call that has returned is to  *)
(* those made after it (Ordered), and where the listeners are that must    *)
(* hear a call (Heard).                                                    *)
(***************************************************************************)
EXTENDS AutoSignalProofs

-----------------------------------------------------------------------------
(* Calls *)

CallReqs   == { w \in Callables : w.kind \in {"signal", "invoke"} }
InCall(t)   == pc[t] \in {"call", "handler", "fn"}
Present(w)  == Waits(w) \/ \E t \in Threads : task[t] = w
Makes(t, w) == InCall(t) /\ Running(t) = w

\* Where calls are in their life.  A call is asked for in one way.
Known ==
    /\ \A c \in returned : stage[c] # "new"
    /\ \A v, w \in CallReqs : Present(v) /\ Present(w) /\ v.of = w.of => v = w
    /\ \A w \in CallReqs : In(delayedCalls, w) => stage[w.of] = "called"
    /\ \A t \in Threads, w \in CallReqs : In(chain[t], w) => stage[w.of] = "called" \/ Makes(t, w)
    /\ \A c \in Calls : stage[c] = "running" => \E t \in Threads : InCall(t) /\ Running(t).of = c
    /\ \A t \in Threads : InCall(t) => stage[Running(t).of] = "running"
    /\ \A t \in Threads : task[t] \in CallReqs /\ pc[t] \in {"enter", "push"}
                          => stage[task[t].of] = "called"
    /\ \A t \in Threads : InCall(t) /\ chain[t] = << >> => ~Waits(task[t])
    /\ \A t \in Threads : task[t] \in CallReqs /\ pc[t] = "defer"
                          => Waits(task[t]) \/ stage[task[t].of] \in {"running", "done"}

\* The thread t has made its own call and runs what was left to it.
Cleans(t) == pc[t] \in {"leave", "release", "drain"} \/ (InCall(t) /\ chain[t] # << >>)

\* What a call that has returned is to those made after it.
Ordered ==
    /\ \A t \in Threads : task[t] \in CallReqs => task[t].of \notin returned
    /\ \A d \in Calls : before[d] \subseteq returned
    /\ \A v, w \in CallReqs : v.of \in before[w.of] => v.of # w.of /\ ~Precedes(w, v)
    /\ ~late => \A w \in CallReqs : In(delayedCalls, w) => Seen(w)
    /\ ~late => \A c \in returned : \/ stage[c] \in {"running", "done"}
                                    \/ \E w \in CallReqs : w.of = c /\ Waits(w)
    /\ ~late => \A t \in Threads : task[t] \in CallReqs /\ Cleans(t) => stage[task[t].of] = "done"
    /\ CallOrder

\* What a listener that must hear a call is while the call waits and is made.
Hears(t, c) ==
    /\ \A e \in due[c] : In(listeners, e)
    /\ \A i \in 1 .. Len(listeners) : i < at[t] => listeners[i] \in heard[c]
    /\ pc[t] = "handler" => at[t] \in 1 .. Len(listeners) /\ listeners[at[t]] \in heard[c]

Heard ==
    /\ \A c \in Calls : stage[c] = "new" => due[c] = {}
    /\ \A c \in Calls : \A e \in due[c] : stage[c] \in {"called", "running"} => reg[e] = "held"
    /\ \A c \in Calls : \A e \in due[c] : ~Precedes(Call(c), Link(e))
    /\ \A c \in Calls : Present(Invoke(c)) => due[c] = {}
    /\ \A t \in Threads : pc[t] \in {"call", "handler"} => Hears(t, Running(t).of)
    /\ \A c \in Calls : stage[c] = "done" => due[c] \subseteq heard[c]

LEMMA CallReqFacts ==
  /\ CallReqs \subseteq Callables
  /\ \A c \in Calls : Call(c) \in CallReqs /\ Invoke(c) \in CallReqs
  /\ \A w \in CallReqs : /\ w.of \in Calls /\ w \in {Call(w.of), Invoke(w.of)}
                         /\ w.kind \in {"signal", "invoke"}
                         /\ w.kind = "signal" <=> w = Call(w.of)
  /\ None \notin CallReqs
  /\ \A e \in Entries : Link(e) \notin CallReqs /\ Unlink(e) \notin CallReqs
  BY LinkFacts DEF CallReqs

LEMMA PrecedesWaits ==
  \A u, v : Precedes(u, v) => Waits(u) /\ Waits(v)
  BY DEF Precedes, Waits, Chained, Before, In

\* The call a thread makes is one of the callables that were asked for.
LEMMA RunningFacts ==
  ASSUME Base, NEW t \in Threads, InCall(t)
  PROVE  /\ Running(t) \in CallReqs
         /\ pc[t] \in {"call", "handler"} <=> Running(t).kind = "signal"
         /\ chain[t] = << >> => Running(t) = task[t]
         /\ chain[t] # << >> => Running(t) = Head(chain[t]) /\ In(chain[t], Running(t))
         /\ Present(Running(t))
         /\ \A u \in Threads \ {t} : ~InCall(u) /\ chain[u] = << >>
  <1>1. /\ Running(t) \in CallReqs
        /\ pc[t] \in {"call", "handler"} <=> Running(t).kind = "signal"
    BY DEF Base, Roles, Role, InCall, CallReqs
  <1>2. chain[t] = << >> => Running(t) = task[t]
    BY DEF Running
  <1>3. chain[t] # << >> => Running(t) = Head(chain[t]) /\ In(chain[t], Running(t))
    <2> SUFFICES ASSUME chain[t] # << >> PROVE Running(t) = Head(chain[t]) /\ In(chain[t], Running(t))
      OBVIOUS
    <2>1. chain[t] \in Seq(Callables)
      BY DEF Base, ThreadsTyped
    <2>2. Running(t) = Head(chain[t])
      BY DEF Running
    <2>3. Head(chain[t]) = chain[t][1] /\ 1 \in 1 .. Len(chain[t])
      BY <2>1, SMT
    <2> QED BY <2>2, <2>3 DEF In
  <1>4. Present(Running(t))
    BY <1>2, <1>3 DEF Present, Waits, Chained
  <1>5. \A u \in Threads \ {t} : ~InCall(u) /\ chain[u] = << >>
    BY ChainOfOne DEF InCall, Updating, Asserting
  <1> QED BY <1>1, <1>2, <1>3, <1>4, <1>5

\* A step that leaves the calls where they are.
Frame(t) ==
    /\ Alone(t)
    /\ \A w \in CallReqs : In(delayedCalls, w)' <=> In(delayedCalls, w)
    /\ \A u \in Threads, w \in CallReqs : In(chain[u], w)' <=> In(chain[u], w)
    /\ \A v, w \in CallReqs : Precedes(v, w)' => Precedes(v, w)
    /\ UNCHANGED << stage, before >>
    /\ InCall(t)' <=> InCall(t)
    /\ InCall(t) => chain'[t] = chain[t] /\ task'[t] = task[t]
    /\ task'[t] \in CallReqs =>
         /\ task'[t] = task[t]
         /\ pc'[t] \in {"enter", "push"} => pc[t] \in {"enter", "push"}
         /\ pc'[t] = "defer" => pc[t] = "defer"

LEMMA FrameFacts ==
  ASSUME Base, NEW t \in Threads, Frame(t)
  PROVE  /\ \A w \in CallReqs : Waits(w)' <=> Waits(w)
         /\ \A w \in CallReqs : Present(w)' => Present(w)
         /\ \A u \in Threads : InCall(u)' <=> InCall(u)
         /\ \A u \in Threads : InCall(u) => /\ Running(u)' = Running(u) /\ chain'[u] = chain[u]
                                            /\ task'[u] = task[u]
         /\ \A u \in Threads : task'[u] \in CallReqs => task'[u] = task[u]
  <1>1. \A w \in CallReqs : Waits(w)' <=> Waits(w)
    BY DEF Frame, Waits, Chained
  <1>2. \A u \in Threads : task'[u] \in CallReqs => task'[u] = task[u]
    BY DEF Frame, Alone
  <1>3. \A w \in CallReqs : Present(w)' => Present(w)
    BY <1>1, <1>2 DEF Present
  <1>4. \A u \in Threads : InCall(u)' <=> InCall(u)
    BY DEF Frame, Alone, InCall
  <1>5. \A u \in Threads : InCall(u) => chain'[u] = chain[u] /\ task'[u] = task[u]
    BY DEF Frame, Alone
  <1>6. \A u \in Threads : InCall(u) => Running(u)' = Running(u)
    BY <1>5 DEF Running
  <1> QED BY <1>1, <1>2, <1>3, <1>4, <1>5, <1>6

LEMMA FrameKnown ==
  ASSUME Base, Known, NEW t \in Threads, Frame(t), \A c \in returned' : stage[c] # "new"
  PROVE  Known'
  <1>1. /\ \A w \in CallReqs : Waits(w)' <=> Waits(w)
        /\ \A w \in CallReqs : Present(w)' => Present(w)
        /\ \A u \in Threads : InCall(u)' <=> InCall(u)
        /\ \A u \in Threads : InCall(u) => /\ Running(u)' = Running(u) /\ chain'[u] = chain[u]
                                           /\ task'[u] = task[u]
        /\ \A u \in Threads : task'[u] \in CallReqs => task'[u] = task[u]
    BY FrameFacts
  <1>2. stage' = stage
    BY DEF Frame
  <1>3. \A v, w \in CallReqs : (Present(v) /\ Present(w))' /\ v.of = w.of => v = w
    BY <1>1 DEF Known
  <1>4. \A w \in CallReqs : In(delayedCalls, w)' => stage'[w.of] = "called"
    BY <1>2 DEF Known, Frame
  <1>5. \A u \in Threads, w \in CallReqs : In(chain[u], w)' => stage'[w.of] = "called" \/ Makes(u, w)'
    BY <1>1, <1>2 DEF Known, Frame, Makes
  <1>6. /\ \A c \in Calls : stage'[c] = "running" => \E u \in Threads : (InCall(u) /\ Running(u).of = c)'
        /\ \A u \in Threads : InCall(u)' => stage'[Running(u)'.of] = "running"
    BY <1>1, <1>2 DEF Known
  <1>7. \A u \in Threads : task'[u] \in CallReqs /\ pc'[u] \in {"enter", "push"}
                           => stage'[task'[u].of] = "called"
    BY <1>1, <1>2 DEF Known, Frame, Alone
  <1>8. \A u \in Threads : InCall(u)' /\ chain'[u] = << >> => ~Waits(task[u])'
    <2> SUFFICES ASSUME NEW u \in Threads, InCall(u)', chain'[u] = << >> PROVE ~Waits(task[u])'
      OBVIOUS
    <2>1. InCall(u) /\ chain[u] = << >> /\ task'[u] = task[u]
      BY <1>1
    <2>2. task[u] \in CallReqs /\ ~Waits(task[u])
      BY <2>1, RunningFacts DEF Known
    <2> PICK w : w = task[u]
      OBVIOUS
    <2>3. ~Waits(w)'
      BY <1>1, <2>2
    <2> QED BY <2>1, <2>3
  <1>9. \A u \in Threads : task'[u] \in CallReqs /\ pc'[u] = "defer"
                           => Waits(task[u])' \/ stage'[task'[u].of] \in {"running", "done"}
    <2> SUFFICES ASSUME NEW u \in Threads, task'[u] \in CallReqs, pc'[u] = "defer"
                 PROVE  Waits(task[u])' \/ stage'[task'[u].of] \in {"running", "done"}
      OBVIOUS
    <2>1. task'[u] = task[u] /\ pc[u] = "defer"
      BY <1>1 DEF Frame, Alone
    <2> PICK w : w = task[u]
      OBVIOUS
    <2>2. Waits(w)' \/ stage[w.of] \in {"running", "done"}
      BY <1>1, <2>1 DEF Known
    <2> QED BY <1>2, <2>1, <2>2
  <1> QED BY <1>2, <1>3, <1>4, <1>5, <1>6, <1>7, <1>8, <1>9 DEF Known

\* A thread that has handed over or made its call returns.
Returned(t) ==
    \/ returned' = returned
    \/ /\ task[t] \in CallReqs /\ task'[t] = None
       /\ returned' = returned \cup {task[t].of}
       /\ pc[t] \in {"defer", "leave"}

LEMMA FrameOrdered ==
  ASSUME Base, Synced, Known, Ordered, NEW t \in Threads, Frame(t), Returned(t), late => late',
         \A w \in CallReqs : ~late' /\ Seen(w) => Seen(w)',
         ~late' /\ task'[t] \in CallReqs /\ pc'[t] \in {"leave", "release", "drain"}
            => pc[t] \in {"leave", "release", "drain"}
  PROVE  Ordered'
  <1>1. /\ \A w \in CallReqs : Waits(w)' <=> Waits(w)
        /\ \A u \in Threads : InCall(u)' <=> InCall(u)
        /\ \A u \in Threads : InCall(u) => chain'[u] = chain[u] /\ task'[u] = task[u]
        /\ \A u \in Threads : task'[u] \in CallReqs => task'[u] = task[u]
    BY FrameFacts
  <1>2. stage' = stage /\ before' = before /\ returned \subseteq returned'
    BY DEF Frame, Returned
  <1>3. \A u \in Threads : task'[u] \in CallReqs => task'[u].of \notin returned'
    <2>1. CASE returned' = returned
      BY <1>1, <2>1 DEF Ordered
    <2>2. CASE returned' # returned
      <3>1. task[t] \in CallReqs /\ task'[t] = None /\ returned' = returned \cup {task[t].of}
        BY <2>2 DEF Returned
      <3>2. ASSUME NEW u \in Threads, task'[u] \in CallReqs PROVE task'[u].of # task[t].of
        <4>1. u # t /\ task'[u] = task[u]
          BY <1>1, <3>1, <3>2, CallReqFacts
        <4>2. Present(task[u]) /\ Present(task[t])
          BY DEF Present
        <4>3. task[u] # task[t]
          BY <3>1, <4>1, CallReqFacts DEF Synced, Owners
        <4> QED BY <3>1, <3>2, <4>1, <4>2, <4>3 DEF Known
      <3> QED BY <1>1, <3>1, <3>2 DEF Ordered
    <2> QED BY <2>1, <2>2
  <1>4. \A d \in Calls : before'[d] \subseteq returned'
    BY <1>2 DEF Ordered
  <1>5. \A v, w \in CallReqs : v.of \in before'[w.of] => v.of # w.of /\ ~Precedes(w, v)'
    BY <1>2 DEF Ordered, Frame
  <1>6. ~late' => \A w \in CallReqs : In(delayedCalls, w)' => Seen(w)'
    BY DEF Ordered, Frame
  <1>7. ~late' => \A u \in Threads : task'[u] \in CallReqs /\ Cleans(u)' => stage'[task'[u].of] = "done"
    <2> SUFFICES ASSUME ~late', NEW u \in Threads, task'[u] \in CallReqs, Cleans(u)'
                 PROVE  stage'[task'[u].of] = "done"
      OBVIOUS
    <2>1. Cleans(u)
      BY <1>1 DEF Cleans, Frame, Alone
    <2> QED BY <1>1, <1>2, <2>1 DEF Ordered
  <1>8. ~late' => \A c \in returned' : \/ stage'[c] \in {"running", "done"}
                                       \/ \E w \in CallReqs : w.of = c /\ Waits(w)'
    <2> SUFFICES ASSUME ~late', NEW c \in returned'
                 PROVE  stage[c] \in {"running", "done"} \/ \E w \in CallReqs : w.of = c /\ Waits(w)
      BY <1>1, <1>2
    <2>1. CASE c \in returned
      BY <2>1 DEF Ordered
    <2>2. CASE c \notin returned
      <3>1. task[t] \in CallReqs /\ c = task[t].of /\ pc[t] \in {"defer", "leave"}
        BY <2>2 DEF Returned
      <3>2. CASE pc[t] = "defer"
        BY <3>1, <3>2 DEF Known
      <3>3. CASE pc[t] = "leave"
        BY <3>1, <3>3 DEF Ordered, Cleans
      <3> QED BY <3>1, <3>2, <3>3
    <2> QED BY <2>1, <2>2
  <1>9. CallOrder'
    BY <1>2 DEF Ordered, CallOrder
  <1> QED BY <1>3, <1>4, <1>5, <1>6, <1>7, <1>8, <1>9 DEF Ordered

LEMMA FrameHeard ==
  ASSUME Base, Known, Heard, NEW t \in Threads, Frame(t), heard' = heard,
         \A c \in Calls : due'[c] \subseteq due[c],
         \A c \in Calls : \A e \in due'[c] : stage[c] \in {"called", "running"} => reg'[e] = "held",
         \A c \in Calls : \A e \in due'[c] : Precedes(Call(c), Link(e))' => Precedes(Call(c), Link(e)),
         InCall(t) => pc'[t] = pc[t] /\ at'[t] = at[t],
         listeners' = listeners \/ \A u \in Threads : ~InCall(u)
  PROVE  Heard'
  <1>1. /\ \A w \in CallReqs : Present(w)' => Present(w)
        /\ \A u \in Threads : InCall(u)' <=> InCall(u)
        /\ \A u \in Threads : InCall(u) => Running(u)' = Running(u)
    BY FrameFacts
  <1>2. stage' = stage
    BY DEF Frame
  <1>3. \A c \in Calls : Present(Invoke(c))' => due'[c] = {}
    BY <1>1, CallReqFacts DEF Heard
  <1>4. \A u \in Threads : pc'[u] \in {"call", "handler"} => Hears(u, Running(u).of)'
    <2> SUFFICES ASSUME NEW u \in Threads, pc'[u] \in {"call", "handler"}
                 PROVE  Hears(u, Running(u).of)'
      OBVIOUS
    <2>1. InCall(u) /\ listeners' = listeners /\ Running(u)' = Running(u)
      BY <1>1 DEF InCall
    <2>2. pc'[u] = pc[u] /\ at'[u] = at[u]
      BY <2>1 DEF Frame, Alone
    <2> PICK c : c = Running(u).of
      OBVIOUS
    <2>3. c \in Calls /\ Hears(u, c)
      BY <2>1, <2>2, RunningFacts, CallReqFacts DEF Heard
    <2>4. Hears(u, c)'
      BY <2>1, <2>2, <2>3 DEF Hears
    <2> QED BY <2>1, <2>4
  <1> QED BY <1>2, <1>3, <1>4 DEF Heard

CallsInv == Known /\ Ordered /\ Heard
Inv      == Base /\ Synced /\ Known /\ Ordered /\ Heard

\* A call is made.
LEMMA CallEnters ==
  ASSUME Inv, NEW t \in Threads, EnterCall(t)
  PROVE  CallsInv'
  <1>1. Alone(t) /\ ThreadsTyped'
    BY ThreadStep DEF Inv, Base, Request
  <1>2. PICK c \in Calls, k \in {"signal", "invoke"} :
          /\ stage[c] = "new" /\ stage' = [stage EXCEPT ![c] = "called"]
          /\ due' = IF k = "signal" THEN Due(c) ELSE due
          /\ before' = [before EXCEPT ![c] = returned]
          /\ task' = [task EXCEPT ![t] = Do(k, c)]
    BY DEF EnterCall
  <1>3. PICK w \in CallReqs : w = Do(k, c)
    BY CallReqFacts DEF Call, Invoke
  <1>4. w.of = c /\ w.kind = k
    BY <1>3, CallableFacts
  <1>5. /\ pc[t] = "idle" /\ pc'[t] = "enter" /\ task'[t] = w /\ chain[t] = << >>
        /\ stage'[c] = "called" /\ \A d \in Calls \ {c} : stage'[d] = stage[d]
        /\ before'[c] = returned /\ \A d \in Calls \ {c} : before'[d] = before[d]
        /\ due'[c] = IF k = "signal" THEN { e \in Entries : reg[e] = "held" } ELSE due[c]
        /\ \A d \in Calls \ {c} : due'[d] = due[d]
        /\ UNCHANGED << m_state, listeners, delayedCalls, chain, at, reg, returned, heard, late >>
    <2>1. /\ pc[t] = "idle" /\ pc'[t] = "enter" /\ task'[t] = w
          /\ UNCHANGED << m_state, listeners, delayedCalls, chain, at, reg, returned, heard, late >>
      BY <1>2, <1>3 DEF EnterCall, Calling, At, Goto, signalVars, Inv, Base, ThreadsTyped
    <2>2. chain[t] = << >>
      BY <2>1 DEF Inv, Base, Roles, Role
    <2>3. /\ stage'[c] = "called" /\ \A d \in Calls \ {c} : stage'[d] = stage[d]
          /\ before'[c] = returned /\ \A d \in Calls \ {c} : before'[d] = before[d]
      BY <1>2 DEF Inv, Base, HistoryTyped
    <2>4. /\ due'[c] = IF k = "signal" THEN { e \in Entries : reg[e] = "held" } ELSE due[c]
          /\ \A d \in Calls \ {c} : due'[d] = due[d]
      BY <1>2 DEF Due, Inv, Base, HistoryTyped
    <2> QED BY <2>1, <2>2, <2>3, <2>4
  <1>6. /\ \A v : Waits(v)' <=> Waits(v)
        /\ \A u, v : Precedes(u, v)' <=> Precedes(u, v)
    BY <1>5 DEF Waits, Chained, Precedes
  <1>7. \A v \in CallReqs : v.of = c => ~Waits(v) /\ \A u \in Threads : task[u] # v
    BY <1>2, CallReqFacts DEF Inv, Synced, Owners
  <1>8. c \notin returned
    BY <1>2 DEF Inv, Known
  <1>9. \A u \in Threads : /\ InCall(u)' <=> InCall(u)
                           /\ InCall(u) => Running(u)' = Running(u) /\ u # t
    <2>1. ~InCall(t) /\ ~InCall(t)'
      BY <1>5 DEF InCall
    <2>2. \A u \in Threads \ {t} : InCall(u)' <=> InCall(u)
      BY <1>1 DEF InCall, Alone
    <2>3. \A u \in Threads \ {t} : Running(u)' = Running(u)
      BY <1>1 DEF Running, Alone
    <2> QED BY <2>1, <2>2, <2>3
  <1>10. \A u \in Threads : InCall(u) => Running(u).of # c /\ Running(u).of \in Calls
    BY <1>2, RunningFacts, CallReqFacts DEF Inv, Known
  <1>11. \A u \in Threads \ {t} : task[u] \in CallReqs => task[u].of # c
    BY <1>7
  <1>12. Known'
    <2>1. \A v, x \in CallReqs : (Present(v) /\ Present(x))' /\ v.of = x.of => v = x
      <3>1. \A v \in CallReqs : v.of = c /\ Present(v)' => v = w
        BY <1>1, <1>5, <1>6, <1>7 DEF Present, Alone
      <3>2. \A v \in CallReqs : v.of # c /\ Present(v)' => Present(v)
        BY <1>1, <1>4, <1>5, <1>6 DEF Present, Alone
      <3> QED BY <3>1, <3>2 DEF Inv, Known
    <2>2. \A v \in CallReqs : In(delayedCalls, v)' => stage'[v.of] = "called"
      BY <1>5, CallReqFacts DEF Inv, Known
    <2>3. \A u \in Threads, v \in CallReqs : In(chain[u], v)' => stage'[v.of] = "called" \/ Makes(u, v)'
      BY <1>5, <1>9, CallReqFacts DEF Inv, Known, Makes
    <2>4. /\ \A d \in Calls : stage'[d] = "running" => \E u \in Threads : (InCall(u) /\ Running(u).of = d)'
          /\ \A u \in Threads : InCall(u)' => stage'[Running(u)'.of] = "running"
      BY <1>5, <1>9, <1>10 DEF Inv, Known
    <2>5. \A u \in Threads : task'[u] \in CallReqs /\ pc'[u] \in {"enter", "push"}
                             => stage'[task'[u].of] = "called"
      BY <1>1, <1>4, <1>5, <1>11, CallReqFacts DEF Inv, Known, Alone
    <2>6. \A u \in Threads : InCall(u)' /\ chain'[u] = << >> => ~Waits(task[u])'
      BY <1>1, <1>5, <1>6, <1>9 DEF Inv, Known, Alone
    <2>7. \A u \in Threads : task'[u] \in CallReqs /\ pc'[u] = "defer"
                             => Waits(task[u])' \/ stage'[task'[u].of] \in {"running", "done"}
      BY <1>1, <1>5, <1>6, <1>11, CallReqFacts DEF Inv, Known, Alone
    <2>8. \A d \in returned' : stage'[d] # "new"
      BY <1>5, <1>8 DEF Inv, Known, Base, HistoryTyped
    <2> QED BY <2>1, <2>2, <2>3, <2>4, <2>5, <2>6, <2>7, <2>8 DEF Known
  <1>13. Ordered'
    <2>1. \A u \in Threads : task'[u] \in CallReqs => task'[u].of \notin returned'
      BY <1>1, <1>4, <1>5, <1>8 DEF Inv, Ordered, Alone
    <2>2. \A d \in Calls : before'[d] \subseteq returned'
      BY <1>5 DEF Inv, Ordered
    <2>3. \A v, x \in CallReqs : v.of \in before'[x.of] => v.of # x.of /\ ~Precedes(x, v)'
      <3>1. \A v, x \in CallReqs : x.of = c /\ v.of \in returned => v.of # c /\ ~Precedes(x, v)
        BY <1>7, <1>8, PrecedesWaits
      <3> QED BY <1>5, <1>6, <3>1, CallReqFacts DEF Inv, Ordered
    <2>4. ~late' => \A v \in CallReqs : In(delayedCalls, v)' => Seen(v)'
      BY <1>1, <1>5 DEF Inv, Ordered, Seen, Alone
    <2>5. ~late' => \A d \in returned' : \/ stage'[d] \in {"running", "done"}
                                         \/ \E v \in CallReqs : v.of = d /\ Waits(v)'
      BY <1>5, <1>6, <1>8 DEF Inv, Ordered, Base, HistoryTyped
    <2>6. ~late' => \A u \in Threads : task'[u] \in CallReqs /\ Cleans(u)' => stage'[task'[u].of] = "done"
      <3>1. ~Cleans(t)'
        BY <1>5 DEF Cleans, InCall
      <3>2. \A u \in Threads \ {t} : Cleans(u)' <=> Cleans(u)
        BY <1>1 DEF Cleans, InCall, Alone
      <3> QED BY <1>1, <1>5, <1>11, <3>1, <3>2, CallReqFacts DEF Inv, Ordered, Alone
    <2>7. CallOrder'
      BY <1>5, <1>8 DEF Inv, Ordered, CallOrder
    <2> QED BY <2>1, <2>2, <2>3, <2>4, <2>5, <2>6, <2>7 DEF Ordered
  <1>14. Heard'
    <2>1. \A d \in Calls : stage'[d] = "new" => due'[d] = {}
      BY <1>5 DEF Inv, Heard
    <2>2. \A d \in Calls : \A e \in due'[d] : stage'[d] \in {"called", "running"} => reg'[e] = "held"
      BY <1>2, <1>5 DEF Inv, Heard
    <2>3. \A d \in Calls : \A e \in due'[d] : ~Precedes(Call(d), Link(e))'
      <3>1. \A e : ~Precedes(Call(c), Link(e))
        BY <1>7, PrecedesWaits, CallReqFacts, LinkFacts
      <3> QED BY <1>5, <1>6, <3>1 DEF Inv, Heard
    <2>4. \A d \in Calls : Present(Invoke(d))' => due'[d] = {}
      <3>1. Present(Invoke(c))' => k = "invoke"
        BY <1>1, <1>4, <1>5, <1>6, <1>7, CallReqFacts, LinkFacts DEF Present, Alone
      <3>2. \A d \in Calls \ {c} : Present(Invoke(d))' => Present(Invoke(d))
        BY <1>1, <1>4, <1>5, <1>6, LinkFacts DEF Present, Alone
      <3> QED BY <1>2, <1>5, <3>1, <3>2 DEF Inv, Heard
    <2>5. \A u \in Threads : pc'[u] \in {"call", "handler"} => Hears(u, Running(u).of)'
      <3> SUFFICES ASSUME NEW u \in Threads, pc'[u] \in {"call", "handler"}
                   PROVE  Hears(u, Running(u).of)'
        OBVIOUS
      <3>1. InCall(u) /\ u # t /\ Running(u)' = Running(u) /\ pc'[u] = pc[u] /\ at'[u] = at[u]
        BY <1>1, <1>9 DEF InCall, Alone
      <3> PICK d : d = Running(u).of
        OBVIOUS
      <3>2. d \in Calls \ {c} /\ Hears(u, d)
        BY <1>10, <3>1 DEF Inv, Heard
      <3>3. Hears(u, d)'
        BY <1>5, <3>1, <3>2 DEF Hears
      <3> QED BY <3>1, <3>3
    <2>6. \A d \in Calls : stage'[d] = "done" => due'[d] \subseteq heard'[d]
      BY <1>5 DEF Inv, Heard
    <2> QED BY <2>1, <2>2, <2>3, <2>4, <2>5, <2>6 DEF Heard
  <1> QED BY <1>12, <1>13, <1>14 DEF CallsInv

\* What holds as a call begins: its thread's own, while nobody asserts the signal, or
\* the first of a chain.
Ripe(t, w) ==
    /\ \A u \in Threads : ~InCall(u) /\ (u # t => chain[u] = << >>)
    /\ stage[w.of] = "called" /\ Present(w)
    /\ \A v \in CallReqs : v.of = w.of => ~In(delayedCalls, v) /\ (v # w => ~Present(v))
    /\ \A u \in Threads \ {t} : task[u] = w => pc[u] \notin {"enter", "push"}
    /\ ~late => \A d \in before[w.of] : stage[d] = "done"
    /\ w.kind = "signal" => \A e \in due[w.of] : In(listeners, e)
    /\ pc[t] = "enter" => ~Waits(w) /\ task[t] = w /\ chain[t] = << >>
    /\ pc[t] = "drain" => chain[t] # << >> /\ w = Head(chain[t])

LEMMA OwnIsRipe ==
  ASSUME Inv, NEW t \in Threads, NEW w \in CallReqs, pc[t] = "enter", task[t] = w, m_state = "Free"
  PROVE  Ripe(t, w)
  <1>0. w.of \in Calls /\ (w.kind = "signal" => w = Call(w.of)) /\ w # None
    BY CallReqFacts
  <1>1. /\ \A u \in Threads : chain[u] = << >> /\ pc[u] # "release"
        /\ \A v : ~Chained(v)
    BY NoChains DEF Inv
  <1>2. \A u \in Threads : ~InCall(u)
    BY DEF InCall, Inv, Base, LockInv, Exclusive, Asserters
  <1>3. stage[w.of] = "called" /\ Present(w)
    BY DEF Inv, Known, Present
  <1>4. ~Waits(w)
    BY DEF Inv, Synced, Handed, Unpushed
  <1>5. \A v \in CallReqs : v.of = w.of => ~In(delayedCalls, v) /\ (v # w => ~Present(v))
    BY <1>3, <1>4 DEF Inv, Known, Present, Waits
  <1>6. \A u \in Threads \ {t} : task[u] # w
    BY <1>0 DEF Inv, Synced, Owners
  <1>7. ASSUME ~late, NEW d \in before[w.of] PROVE stage[d] = "done"
    <2>1. d \in returned /\ d \in Calls
      BY <1>0 DEF Inv, Ordered, Base, HistoryTyped
    <2>2. stage[d] # "running"
      BY <1>2, <2>1 DEF Inv, Known
    <2>3. ASSUME NEW v \in CallReqs, v.of = d, Waits(v) PROVE FALSE
      <3>1. Seen(v)
        BY <1>1, <1>7, <2>3 DEF Inv, Ordered, Waits
      <3>2. PICK u \in Threads : task[u] = v
        BY <1>1, <3>1 DEF Seen
      <3> QED BY <2>1, <2>3, <3>2 DEF Inv, Ordered
    <2> QED BY <1>7, <2>1, <2>2, <2>3 DEF Inv, Ordered
  <1>8. ASSUME w.kind = "signal", NEW e \in due[w.of] PROVE In(listeners, e)
    <2>1. e \in Entries /\ reg[e] = "held"
      BY <1>0, <1>3 DEF Inv, Heard, Base, HistoryTyped
    <2>2. ASSUME Waits(Link(e)) PROVE FALSE
      <3>1. Seen(Link(e))
        BY <1>1, <2>1, <2>2, LinkFacts DEF Inv, Synced, LinksSeen, Waits
      <3>2. PICK u \in Threads : task[u] = Link(e)
        BY <1>1, <3>1 DEF Seen
      <3> QED BY <2>1, <3>2 DEF Inv, Synced, Owners
    <2> QED BY <2>1, <2>2 DEF Inv, Synced, Registered
  <1> QED BY <1>1, <1>2, <1>3, <1>4, <1>5, <1>6, <1>7, <1>8 DEF Ripe

LEMMA FirstIsRipe ==
  ASSUME Inv, NEW t \in Threads, NEW w \in CallReqs, pc[t] = "drain", chain[t] # << >>,
         Head(chain[t]) = w
  PROVE  Ripe(t, w)
  <1>0. w.of \in Calls /\ (w.kind = "signal" => w = Call(w.of)) /\ w \in Callables /\ w.kind # "dead"
    BY CallReqFacts
  <1>1. /\ \A u \in Threads \ {t} : chain[u] = << >> /\ ~InCall(u)
        /\ \A v : Chained(v) <=> In(chain[t], v)
        /\ ~InCall(t)
    BY ChainOfOne DEF Inv, Asserting, Updating, InCall
  <1>2. /\ In(chain[t], w)
        /\ \A v : In(chain[t], v) /\ v # w => Before(chain[t], w, v)
    <2>1. chain[t] \in Seq(Callables)
      BY DEF Inv, Base, ThreadsTyped
    <2>2. /\ \A v : In(chain[t], v) <=> v = w \/ In(Tail(chain[t]), v)
          /\ \A u, v : Before(chain[t], u, v)
                        <=> Before(Tail(chain[t]), u, v) \/ (u = w /\ In(Tail(chain[t]), v))
      BY <2>1, InTail
    <2> QED BY <2>2
  <1>3. \A v : Waits(v) /\ v # w => Precedes(w, v)
    BY <1>1, <1>2 DEF Waits, Precedes
  <1>4. Waits(w) /\ Present(w) /\ stage[w.of] = "called"
    BY <1>1, <1>2 DEF Waits, Present, Inv, Known, Makes
  <1>5. ~In(delayedCalls, w)
    BY <1>0, <1>1, <1>2 DEF Precedes, Inv, Synced, Queued
  <1>6. \A v \in CallReqs : v.of = w.of => ~In(delayedCalls, v) /\ (v # w => ~Present(v))
    BY <1>4, <1>5 DEF Inv, Known, Present, Waits
  <1>7. \A u \in Threads : task[u] = w => pc[u] \notin {"enter", "push"}
    BY <1>4 DEF Inv, Synced, Handed, Unpushed
  <1>8. ASSUME ~late, NEW d \in before[w.of] PROVE stage[d] = "done"
    <2>1. d \in returned /\ d \in Calls
      BY <1>0 DEF Inv, Ordered, Base, HistoryTyped
    <2>2. stage[d] # "running"
      BY <1>1, <2>1 DEF Inv, Known
    <2>3. ASSUME NEW v \in CallReqs, v.of = d, Waits(v) PROVE FALSE
      BY <1>3, <1>8, <2>3 DEF Inv, Ordered
    <2> QED BY <1>8, <2>1, <2>2, <2>3 DEF Inv, Ordered
  <1>9. ASSUME w.kind = "signal", NEW e \in due[w.of] PROVE In(listeners, e)
    <2>1. e \in Entries /\ reg[e] = "held"
      BY <1>0, <1>4 DEF Inv, Heard, Base, HistoryTyped
    <2>2. ~Waits(Link(e))
      BY <1>0, <1>3, <1>9, <2>1, LinkFacts DEF Inv, Heard
    <2> QED BY <2>1, <2>2 DEF Inv, Synced, Registered
  <1> QED BY <1>1, <1>4, <1>6, <1>7, <1>8, <1>9 DEF Ripe

LEMMA CallBegins ==
  ASSUME Inv, NEW t \in Threads, NEW w \in CallReqs, Alone(t), Ripe(t, w), pc[t] \in {"enter", "drain"},
         pc'[t] = IF w.kind = "signal" THEN "call" ELSE "fn",
         at'[t] = 1, stage' = [stage EXCEPT ![w.of] = "running"],
         m_state = "Deferred" => m_state' = "Deferred",
         UNCHANGED << listeners, delayedCalls, chain, task, reg, returned, due, heard, before, late >>
  PROVE  CallsInv'
  <1>0. PICK c \in Calls : c = w.of
    BY CallReqFacts
  <1>1. stage'[c] = "running" /\ stage[c] = "called" /\ \A d \in Calls \ {c} : stage'[d] = stage[d]
    BY <1>0 DEF Ripe, Inv, Base, HistoryTyped
  <1>2. /\ \A v : Waits(v)' <=> Waits(v)
        /\ \A u, v : Precedes(u, v)' <=> Precedes(u, v)
        /\ \A v : Present(v)' <=> Present(v)
    BY DEF Waits, Chained, Precedes, Present
  <1>3. InCall(t)' /\ \A u \in Threads \ {t} : ~InCall(u)'
    BY DEF InCall, Ripe, Alone
  <1>4. Running(t)' = w
    BY DEF Running, Ripe
  <1>5. \A v \in CallReqs : Present(v) /\ v.of = c => v = w
    BY <1>0 DEF Ripe
  <1>6. \A u \in Threads : task[u] \in CallReqs => Present(task[u]) /\ task[u].of \in Calls
    BY CallReqFacts DEF Present
  <1>7. Known'
    <2>1. \A v \in CallReqs : In(delayedCalls, v)' => stage'[v.of] = "called"
      BY <1>0, <1>1, CallReqFacts DEF Ripe, Inv, Known
    <2>2. \A u \in Threads, v \in CallReqs : In(chain[u], v)' => stage'[v.of] = "called" \/ Makes(u, v)'
      <3> SUFFICES ASSUME NEW u \in Threads, NEW v \in CallReqs, In(chain[u], v)
                   PROVE  stage'[v.of] = "called" \/ Makes(u, v)'
        OBVIOUS
      <3>1. u = t /\ Present(v) /\ stage[v.of] = "called" /\ v.of \in Calls
        <4>1. u = t
          BY InEmpty DEF Ripe
        <4>2. Present(v)
          BY DEF Present, Waits, Chained
        <4>3. ~InCall(u)
          BY DEF Ripe
        <4> QED BY <4>1, <4>2, <4>3, CallReqFacts DEF Inv, Known, Makes
      <3> QED BY <1>1, <1>3, <1>4, <1>5, <3>1 DEF Makes
    <2>3. /\ \A d \in Calls : stage'[d] = "running" => \E u \in Threads : (InCall(u) /\ Running(u).of = d)'
          /\ \A u \in Threads : InCall(u)' => stage'[Running(u)'.of] = "running"
      BY <1>0, <1>1, <1>3, <1>4 DEF Inv, Known, Ripe
    <2>4. \A u \in Threads : task'[u] \in CallReqs /\ pc'[u] \in {"enter", "push"}
                             => stage'[task'[u].of] = "called"
      <3> SUFFICES ASSUME NEW u \in Threads, task[u] \in CallReqs, pc'[u] \in {"enter", "push"}
                   PROVE  stage'[task[u].of] = "called"
        OBVIOUS
      <3>1. u # t /\ pc[u] = pc'[u]
        BY DEF Alone
      <3>2. task[u] # w
        BY <3>1 DEF Ripe
      <3>3. task[u].of # c
        BY <1>5, <1>6, <3>2
      <3> QED BY <1>1, <1>6, <3>1, <3>3 DEF Inv, Known
    <2>5. \A u \in Threads : InCall(u)' /\ chain'[u] = << >> => ~Waits(task[u])'
      BY <1>2, <1>3 DEF Ripe
    <2>6. \A u \in Threads : task'[u] \in CallReqs /\ pc'[u] = "defer"
                             => Waits(task[u])' \/ stage'[task'[u].of] \in {"running", "done"}
      <3> SUFFICES ASSUME NEW u \in Threads, task[u] \in CallReqs, pc'[u] = "defer"
                   PROVE  Waits(task[u]) \/ stage'[task[u].of] \in {"running", "done"}
        BY <1>2
      <3>1. u # t /\ pc[u] = "defer"
        BY DEF Alone
      <3> QED BY <1>1, <1>6, <3>1 DEF Inv, Known
    <2>7. \A d \in returned' : stage'[d] # "new"
      BY <1>1 DEF Inv, Known, Base, HistoryTyped
    <2>8. \A v, x \in CallReqs : (Present(v) /\ Present(x))' /\ v.of = x.of => v = x
      BY <1>2 DEF Inv, Known
    <2> QED BY <2>1, <2>2, <2>3, <2>4, <2>5, <2>6, <2>7, <2>8 DEF Known
  <1>8. Ordered'
    <2>1. /\ \A u \in Threads : task'[u] \in CallReqs => task'[u].of \notin returned'
          /\ \A d \in Calls : before'[d] \subseteq returned'
          /\ \A v, x \in CallReqs : v.of \in before'[x.of] => v.of # x.of /\ ~Precedes(x, v)'
      BY <1>2 DEF Inv, Ordered
    <2>2. ~late' => \A v \in CallReqs : In(delayedCalls, v)' => Seen(v)'
      BY DEF Inv, Ordered, Seen, Alone
    <2>3. ~late' => \A d \in returned' : \/ stage'[d] \in {"running", "done"}
                                         \/ \E v \in CallReqs : v.of = d /\ Waits(v)'
      BY <1>1, <1>2 DEF Inv, Ordered, Base, HistoryTyped
    <2>4. ~late' => \A u \in Threads : task'[u] \in CallReqs /\ Cleans(u)' => stage'[task'[u].of] = "done"
      <3> SUFFICES ASSUME ~late, NEW u \in Threads, task[u] \in CallReqs, Cleans(u)'
                   PROVE  stage'[task[u].of] = "done"
        OBVIOUS
      <3>1. Cleans(u)
        BY DEF Cleans, InCall, Alone, Ripe
      <3>2. stage[task[u].of] = "done"
        BY <3>1 DEF Inv, Ordered
      <3> QED BY <1>1, <1>6, <3>2
    <2>5. CallOrder'
      BY <1>0, <1>1 DEF Ripe, Inv, Ordered, CallOrder
    <2> QED BY <2>1, <2>2, <2>3, <2>4, <2>5 DEF Ordered
  <1>9. Heard'
    <2>1. \A d \in Calls : /\ stage'[d] = "new" => due'[d] = {}
                           /\ \A e \in due'[d] : stage'[d] \in {"called", "running"} => reg'[e] = "held"
                           /\ \A e \in due'[d] : ~Precedes(Call(d), Link(e))'
                           /\ Present(Invoke(d))' => due'[d] = {}
                           /\ stage'[d] = "done" => due'[d] \subseteq heard'[d]
      BY <1>1, <1>2 DEF Inv, Heard
    <2>2. \A u \in Threads : pc'[u] \in {"call", "handler"} => Hears(u, Running(u).of)'
      <3> SUFFICES ASSUME NEW u \in Threads, pc'[u] \in {"call", "handler"}
                   PROVE  Hears(u, Running(u).of)'
        OBVIOUS
      <3>1. u = t /\ w.kind = "signal" /\ pc'[t] = "call"
        BY <1>3 DEF InCall
      <3>2. Hears(t, c)'
        BY <1>0, <3>1 DEF Hears, Ripe
      <3> QED BY <1>0, <1>4, <3>1, <3>2
    <2> QED BY <2>1, <2>2 DEF Heard
  <1> QED BY <1>7, <1>8, <1>9 DEF CallsInv

\* A call ends.  Nothing of it waits, and nobody is calling.
LEMMA CallEnds ==
  ASSUME Inv, NEW t \in Threads, NEW w \in CallReqs, Alone(t), InCall(t), w = Running(t), Ended(t),
         stage' = [stage EXCEPT ![w.of] = "done"],
         due'[w.of] \subseteq due[w.of] \cap heard[w.of], \A d \in Calls \ {w.of} : due'[d] = due[d],
         UNCHANGED << m_state, listeners, delayedCalls, task, reg, returned, heard, before, late >>
  PROVE  CallsInv'
  <1>0. PICK c \in Calls : c = w.of
    BY CallReqFacts
  <1>1. stage'[c] = "done" /\ stage[c] = "running" /\ \A d \in Calls \ {c} : stage'[d] = stage[d]
    BY <1>0 DEF Inv, Known, Base, HistoryTyped
  <1>2. /\ pc'[t] = IF chain[t] = << >> THEN "leave" ELSE "drain"
        /\ chain'[t] = IF chain[t] = << >> THEN << >> ELSE Tail(chain[t])
    BY DEF Ended, Goto, Inv, Base, ThreadsTyped
  <1>3. /\ Present(w) /\ w.kind # "dead" /\ w \in Callables
        /\ chain[t] = << >> => w = task[t]
        /\ chain[t] # << >> => w = Head(chain[t])
        /\ \A u \in Threads \ {t} : ~InCall(u) /\ chain[u] = << >>
    BY RunningFacts, CallReqFacts DEF Inv
  <1>4. /\ \A u \in Threads : ~InCall(u)'
        /\ \A u \in Threads \ {t} : chain'[u] = << >>
    BY <1>2, <1>3 DEF InCall, Alone
  <1>5. /\ \A v : v # w => (Waits(v)' <=> Waits(v))
        /\ \A v : v = w => ~Waits(v)'
        /\ \A v : Waits(v)' => Waits(v)
        /\ \A u, v : Precedes(u, v)' => Precedes(u, v)
    <2>1. CASE chain[t] = << >>
      <3>1. \A u \in Threads : chain'[u] = chain[u]
        BY <1>2, <1>3, <1>4, <2>1
      <3>2. /\ \A v : Waits(v)' <=> Waits(v)
            /\ \A u, v : Precedes(u, v)' <=> Precedes(u, v)
        BY <3>1 DEF Waits, Chained, Precedes
      <3>3. ~Waits(w)
        BY <1>3, <2>1 DEF Inv, Known
      <3> QED BY <3>2, <3>3
    <2>2. CASE chain[t] # << >>
      <3>1. chain'[t] = Tail(chain[t]) /\ pc[t] \in Asserting /\ w = Head(chain[t])
        BY <1>2, <1>3, <2>2 DEF InCall, Asserting
      <3>2. /\ \A v : v # w => (Waits(v)' <=> Waits(v))
            /\ \A v : v = w => ~Waits(v)'
            /\ Waits(w)
            /\ \A u, v : Precedes(u, v)' => Precedes(u, v)
        BY <1>3, <2>2, <3>1, PopOrder DEF Inv
      <3> QED BY <3>2
    <2> QED BY <2>1, <2>2
  <1>6. \A v \in CallReqs : Present(v) /\ v.of = c => v = w
    BY <1>0, <1>3 DEF Inv, Known
  <1>7. \A v \in CallReqs : v.of = c => ~Waits(v)'
    BY <1>5, <1>6 DEF Present
  <1>8. \A v : Present(v)' => Present(v)
    BY <1>5 DEF Present
  <1>9. \A u \in Threads, v \in CallReqs : In(chain[u], v)' => Waits(v)' /\ u = t /\ In(chain[u], v)
    <2> SUFFICES ASSUME NEW u \in Threads, NEW v \in CallReqs, In(chain[u], v)'
                 PROVE  Waits(v)' /\ u = t /\ In(chain[u], v)
      OBVIOUS
    <2>1. u = t /\ chain[t] # << >>
      BY <1>2, <1>4, InEmpty
    <2>2. chain[t] \in Seq(Callables)
      BY DEF Inv, Base, ThreadsTyped
    <2>3. In(chain[t], v)
      BY <1>2, <2>1, <2>2, InTail
    <2> QED BY <2>1, <2>3 DEF Waits, Chained
  <1>10. Known'
    <2>1. \A v \in CallReqs : In(delayedCalls, v)' => stage'[v.of] = "called"
      BY <1>1, <1>7, CallReqFacts DEF Inv, Known, Waits
    <2>2. \A u \in Threads, v \in CallReqs : In(chain[u], v)' => stage'[v.of] = "called" \/ Makes(u, v)'
      <3> SUFFICES ASSUME NEW u \in Threads, NEW v \in CallReqs, In(chain[u], v)'
                   PROVE  stage'[v.of] = "called"
        OBVIOUS
      <3>1. u = t /\ In(chain[t], v) /\ v.of # c /\ v # w
        BY <1>0, <1>7, <1>9
      <3>2. stage[v.of] = "called"
        BY <3>1 DEF Inv, Known, Makes
      <3> QED BY <1>1, <3>1, <3>2, CallReqFacts
    <2>3. \A d \in Calls : stage'[d] # "running"
      <3>1. \A u \in Threads : InCall(u) => Running(u) = w
        BY <1>3
      <3> QED BY <1>0, <1>1, <3>1 DEF Inv, Known
    <2>4. \A u \in Threads : task'[u] \in CallReqs /\ pc'[u] \in {"enter", "push"}
                             => stage'[task'[u].of] = "called"
      <3> SUFFICES ASSUME NEW u \in Threads, task[u] \in CallReqs, pc'[u] \in {"enter", "push"}
                   PROVE  stage'[task[u].of] = "called"
        OBVIOUS
      <3>1. stage[task[u].of] = "called" /\ task[u].of \in Calls
        BY <1>2, CallReqFacts DEF Alone, Inv, Known
      <3> QED BY <1>1, <3>1
    <2>5. \A u \in Threads : task'[u] \in CallReqs /\ pc'[u] = "defer"
                             => Waits(task[u])' \/ stage'[task'[u].of] \in {"running", "done"}
      <3> SUFFICES ASSUME NEW u \in Threads, task[u] \in CallReqs, pc'[u] = "defer"
                   PROVE  Waits(task[u])' \/ stage'[task[u].of] \in {"running", "done"}
        OBVIOUS
      <3> PICK v : v = task[u]
        OBVIOUS
      <3>1. pc[u] = "defer" /\ v.of \in Calls
        BY <1>2, CallReqFacts DEF Alone
      <3>2. Waits(v) \/ stage[v.of] \in {"running", "done"}
        BY <3>1 DEF Inv, Known
      <3>3. Waits(v)' \/ stage'[v.of] \in {"running", "done"}
        BY <1>0, <1>1, <1>5, <3>1, <3>2
      <3> QED BY <3>3
    <2>6. \A d \in returned' : stage'[d] # "new"
      BY <1>1 DEF Inv, Known, Base, HistoryTyped
    <2>7. \A v, x \in CallReqs : (Present(v) /\ Present(x))' /\ v.of = x.of => v = x
      BY <1>8 DEF Inv, Known
    <2> QED BY <1>4, <2>1, <2>2, <2>3, <2>4, <2>5, <2>6, <2>7 DEF Known
  <1>11. Ordered'
    <2>1. /\ \A u \in Threads : task'[u] \in CallReqs => task'[u].of \notin returned'
          /\ \A d \in Calls : before'[d] \subseteq returned'
          /\ \A v, x \in CallReqs : v.of \in before'[x.of] => v.of # x.of /\ ~Precedes(x, v)'
      BY <1>5 DEF Inv, Ordered
    <2>2. ~late' => \A v \in CallReqs : In(delayedCalls, v)' => Seen(v)'
      BY <1>2 DEF Inv, Ordered, Seen, Alone, InCall
    <2>3. ~late' => \A d \in returned' : \/ stage'[d] \in {"running", "done"}
                                         \/ \E v \in CallReqs : v.of = d /\ Waits(v)'
      <3> SUFFICES ASSUME ~late, NEW d \in returned, d # c
                   PROVE  \/ stage'[d] \in {"running", "done"}
                          \/ \E v \in CallReqs : v.of = d /\ Waits(v)'
        BY <1>1
      <3>1. d \in Calls
        BY DEF Inv, Base, HistoryTyped
      <3> QED BY <1>0, <1>1, <1>5, <3>1 DEF Inv, Ordered
    <2>4. ~late' => \A u \in Threads : task'[u] \in CallReqs /\ Cleans(u)' => stage'[task'[u].of] = "done"
      <3> SUFFICES ASSUME ~late, NEW u \in Threads, task[u] \in CallReqs, Cleans(u)'
                   PROVE  stage'[task[u].of] = "done"
        OBVIOUS
      <3>1. CASE u = t /\ chain[t] = << >>
        BY <1>0, <1>1, <1>3, <3>1
      <3>2. CASE u # t \/ chain[t] # << >>
        <4>1. Cleans(u)
          BY <3>2 DEF Cleans, InCall, Alone
        <4> QED BY <1>1, <4>1, CallReqFacts DEF Inv, Ordered
      <3> QED BY <3>1, <3>2
    <2>5. CallOrder'
      BY <1>1 DEF Inv, Ordered, CallOrder
    <2> QED BY <2>1, <2>2, <2>3, <2>4, <2>5 DEF Ordered
  <1>12. Heard'
    <2>1. \A d \in Calls : due'[d] \subseteq due[d]
      BY <1>0
    <2>2. \A d \in Calls : Present(Invoke(d))' => due'[d] = {}
      BY <1>8, <2>1 DEF Inv, Heard
    <2>3. \A d \in Calls : /\ stage'[d] = "new" => due'[d] = {}
                           /\ \A e \in due'[d] : stage'[d] \in {"called", "running"} => reg'[e] = "held"
                           /\ \A e \in due'[d] : ~Precedes(Call(d), Link(e))'
                           /\ stage'[d] = "done" => due'[d] \subseteq heard'[d]
      BY <1>0, <1>1, <1>5, <2>1 DEF Inv, Heard
    <2> QED BY <1>4, <2>2, <2>3 DEF Heard, InCall
  <1> QED BY <1>10, <1>11, <1>12 DEF CallsInv

\* A call is pushed for somebody else to make.
LEMMA CallPushed ==
  ASSUME Inv, NEW t \in Threads, Push(t), task[t] \in CallReqs
  PROVE  CallsInv'
  <1>0. PICK w \in CallReqs : w = task[t]
    OBVIOUS
  <1>1. Alone(t) /\ ThreadsTyped'
    BY ThreadStep DEF Inv, Base, Continue
  <1>2. /\ pc[t] = "push" /\ pc'[t] = "defer" /\ delayedCalls' = << w >> \o delayedCalls
        /\ UNCHANGED << m_state, listeners, task, chain, at, stage, returned, before, late, due, heard, reg >>
    BY <1>0 DEF Push, Goto, At, Inv, Base, ThreadsTyped, historyVars
  <1>3. /\ \A v : In(delayedCalls, v)' <=> v = w \/ In(delayedCalls, v)
        /\ \A v : Waits(v)' <=> v = w \/ Waits(v)
        /\ \A u, v : Precedes(u, v)' => Precedes(u, v) \/ (v = w /\ Waits(u))
    BY <1>2, PushOrder, CallReqFacts DEF Inv, Base, SignalTyped
  <1>4. \A v : Present(v)' => Present(v)
    BY <1>0, <1>2, <1>3 DEF Present
  <1>5. \A u \in Threads : /\ InCall(u)' <=> InCall(u)
                           /\ Running(u)' = Running(u)
    BY <1>1, <1>2 DEF InCall, Alone, Running
  <1>6. stage[w.of] = "called" /\ w.of \notin returned
    BY <1>0, <1>2 DEF Inv, Known, Ordered
  <1>7. Known'
    <2>1. \A v \in CallReqs : In(delayedCalls, v)' => stage'[v.of] = "called"
      BY <1>2, <1>3, <1>6 DEF Inv, Known
    <2>2. \A u \in Threads, v \in CallReqs : In(chain[u], v)' => stage'[v.of] = "called" \/ Makes(u, v)'
      BY <1>2, <1>5 DEF Inv, Known, Makes
    <2>3. /\ \A d \in Calls : stage'[d] = "running" => \E u \in Threads : (InCall(u) /\ Running(u).of = d)'
          /\ \A u \in Threads : InCall(u)' => stage'[Running(u)'.of] = "running"
      BY <1>2, <1>5 DEF Inv, Known
    <2>4. \A u \in Threads : task'[u] \in CallReqs /\ pc'[u] \in {"enter", "push"}
                             => stage'[task'[u].of] = "called"
      BY <1>1, <1>2 DEF Inv, Known, Alone
    <2>5. \A u \in Threads : InCall(u)' /\ chain'[u] = << >> => ~Waits(task[u])'
      <3> SUFFICES ASSUME NEW u \in Threads, InCall(u), chain[u] = << >> PROVE ~Waits(task[u])'
        BY <1>2, <1>5
      <3>1. u # t /\ task[u] # w
        BY <1>0, <1>2, CallReqFacts DEF InCall, Inv, Synced, Owners
      <3> QED BY <1>2, <1>3, <3>1 DEF Inv, Known
    <2>6. \A u \in Threads : task'[u] \in CallReqs /\ pc'[u] = "defer"
                             => Waits(task[u])' \/ stage'[task'[u].of] \in {"running", "done"}
      BY <1>0, <1>1, <1>2, <1>3 DEF Inv, Known, Alone
    <2>7. \A v, x \in CallReqs : (Present(v) /\ Present(x))' /\ v.of = x.of => v = x
      BY <1>4 DEF Inv, Known
    <2>8. \A d \in returned' : stage'[d] # "new"
      BY <1>2 DEF Inv, Known
    <2> QED BY <2>1, <2>2, <2>3, <2>4, <2>5, <2>6, <2>7, <2>8 DEF Known
  <1>8. Ordered'
    <2>1. /\ \A u \in Threads : task'[u] \in CallReqs => task'[u].of \notin returned'
          /\ \A d \in Calls : before'[d] \subseteq returned'
      BY <1>2 DEF Inv, Ordered
    <2>2. \A v, x \in CallReqs : v.of \in before'[x.of] => v.of # x.of /\ ~Precedes(x, v)'
      <3>1. \A x \in CallReqs : w.of \notin before[x.of]
        BY <1>6, CallReqFacts DEF Inv, Ordered
      <3> QED BY <1>2, <1>3, <3>1 DEF Inv, Ordered
    <2>3. ~late' => \A v \in CallReqs : In(delayedCalls, v)' => Seen(v)'
      <3>1. \A v : Seen(v) => Seen(v)'
        BY <1>1, <1>2 DEF Seen, Alone
      <3>2. \A v : v = w => Seen(v)'
        BY <1>0, <1>2 DEF Seen
      <3> QED BY <1>2, <1>3, <3>1, <3>2 DEF Inv, Ordered
    <2>4. ~late' => \A d \in returned' : \/ stage'[d] \in {"running", "done"}
                                         \/ \E v \in CallReqs : v.of = d /\ Waits(v)'
      BY <1>2, <1>3 DEF Inv, Ordered
    <2>5. ~late' => \A u \in Threads : task'[u] \in CallReqs /\ Cleans(u)' => stage'[task'[u].of] = "done"
      BY <1>1, <1>2 DEF Inv, Ordered, Cleans, InCall, Alone
    <2>6. CallOrder'
      BY <1>2 DEF Inv, Ordered, CallOrder
    <2> QED BY <2>1, <2>2, <2>3, <2>4, <2>5, <2>6 DEF Ordered
  <1>9. Heard'
    <2>1. \A d \in Calls : Present(Invoke(d))' => due'[d] = {}
      BY <1>2, <1>4 DEF Inv, Heard
    <2>2. \A d \in Calls : \A e \in due'[d] : ~Precedes(Call(d), Link(e))'
      <3>1. \A d \in Calls : \A e \in due[d] : Link(e) # w
        BY CallReqFacts DEF Inv, Base, HistoryTyped
      <3> QED BY <1>2, <1>3, <3>1 DEF Inv, Heard
    <2>3. \A u \in Threads : pc'[u] \in {"call", "handler"} => Hears(u, Running(u).of)'
      <3> SUFFICES ASSUME NEW u \in Threads, pc'[u] \in {"call", "handler"}
                   PROVE  Hears(u, Running(u).of)'
        OBVIOUS
      <3>1. pc[u] = pc'[u] /\ at'[u] = at[u]
        BY <1>1, <1>2 DEF Alone
      <3> PICK d : d = Running(u).of
        OBVIOUS
      <3>2. Hears(u, d)
        BY <3>1 DEF Inv, Heard
      <3>3. Hears(u, d)'
        BY <1>2, <3>1, <3>2 DEF Hears
      <3> QED BY <1>5, <3>3
    <2>4. \A d \in Calls : /\ stage'[d] = "new" => due'[d] = {}
                           /\ \A e \in due'[d] : stage'[d] \in {"called", "running"} => reg'[e] = "held"
                           /\ stage'[d] = "done" => due'[d] \subseteq heard'[d]
      BY <1>2 DEF Inv, Heard
    <2> QED BY <2>1, <2>2, <2>3, <2>4 DEF Heard
  <1> QED BY <1>7, <1>8, <1>9 DEF CallsInv

\* A handler, a function or the owner of the lock makes a call: it is left for later,
\* and returns at once.
LEMMA CallNested ==
  ASSUME Inv, NEW t \in Threads, Nested(t), reg' = reg,
         NEW c \in Calls, NEW k \in {"signal", "invoke"},
         stage[c] = "new", stage' = [stage EXCEPT ![c] = "called"],
         due' = IF k = "signal" THEN Due(c) ELSE due,
         before' = [before EXCEPT ![c] = returned],
         returned' = returned \cup {c}, Defers(t, Do(k, c))
  PROVE  CallsInv'
  <1>1. PICK w \in CallReqs : w = Do(k, c)
    BY CallReqFacts DEF Call, Invoke
  <1>2. w.of = c /\ w.kind = k
    BY <1>1, CallableFacts
  <1>3. /\ delayedCalls' = << w >> \o delayedCalls /\ m_state' = "Deferred"
        /\ UNCHANGED << listeners, pc, task, chain, at, heard, late, reg >>
    BY <1>1 DEF Defers, localVars
  <1>4. /\ stage'[c] = "called" /\ \A d \in Calls \ {c} : stage'[d] = stage[d]
        /\ before'[c] = returned /\ \A d \in Calls \ {c} : before'[d] = before[d]
    BY DEF Inv, Base, HistoryTyped
  <1>5. /\ due'[c] = IF k = "signal" THEN { e \in Entries : reg[e] = "held" } ELSE due[c]
        /\ \A d \in Calls \ {c} : due'[d] = due[d]
    BY DEF Due, Inv, Base, HistoryTyped
  <1>6. /\ \A v : In(delayedCalls, v)' <=> v = w \/ In(delayedCalls, v)
        /\ \A v : Waits(v)' <=> v = w \/ Waits(v)
        /\ \A u, v : Precedes(u, v)' => Precedes(u, v) \/ (v = w /\ Waits(u))
    BY <1>3, PushOrder, CallReqFacts DEF Inv, Base, SignalTyped
  <1>7. \A v \in CallReqs : v.of = c => ~Waits(v) /\ ~Present(v) /\ \A u \in Threads : task[u] # v
    BY CallReqFacts DEF Inv, Synced, Owners, Present
  <1>8. c \notin returned
    BY DEF Inv, Known
  <1>9. \A u \in Threads : (InCall(u)' <=> InCall(u)) /\ Running(u)' = Running(u)
    BY <1>3 DEF InCall, Running
  <1>10. \A u \in Threads : InCall(u) => Running(u).of # c /\ Running(u).of \in Calls
    BY RunningFacts, CallReqFacts DEF Inv, Known
  <1>11. \A u \in Threads : task[u] \in CallReqs => task[u].of # c /\ task[u].of \in Calls
    BY <1>7, CallReqFacts
  <1>12. Known'
    <2>1. \A v, x \in CallReqs : (Present(v) /\ Present(x))' /\ v.of = x.of => v = x
      <3>1. \A v \in CallReqs : v.of = c /\ Present(v)' => v = w
        BY <1>3, <1>6, <1>7 DEF Present
      <3>2. \A v \in CallReqs : v.of # c /\ Present(v)' => Present(v)
        BY <1>2, <1>3, <1>6 DEF Present
      <3> QED BY <3>1, <3>2 DEF Inv, Known
    <2>2. \A v \in CallReqs : In(delayedCalls, v)' => stage'[v.of] = "called"
      BY <1>2, <1>4, <1>6, CallReqFacts DEF Inv, Known
    <2>3. \A u \in Threads, v \in CallReqs : In(chain[u], v)' => stage'[v.of] = "called" \/ Makes(u, v)'
      BY <1>3, <1>4, <1>9, CallReqFacts DEF Inv, Known, Makes
    <2>4. /\ \A d \in Calls : stage'[d] = "running" => \E u \in Threads : (InCall(u) /\ Running(u).of = d)'
          /\ \A u \in Threads : InCall(u)' => stage'[Running(u)'.of] = "running"
      BY <1>4, <1>9, <1>10 DEF Inv, Known
    <2>5. \A u \in Threads : task'[u] \in CallReqs /\ pc'[u] \in {"enter", "push"}
                             => stage'[task'[u].of] = "called"
      BY <1>3, <1>4, <1>11 DEF Inv, Known
    <2>6. \A u \in Threads : InCall(u)' /\ chain'[u] = << >> => ~Waits(task[u])'
      <3> SUFFICES ASSUME NEW u \in Threads, InCall(u), chain[u] = << >> PROVE ~Waits(task[u])'
        BY <1>3, <1>9
      <3>1. task[u] # w /\ ~Waits(task[u])
        BY <1>2, <1>7 DEF Inv, Known
      <3> QED BY <1>3, <1>6, <3>1
    <2>7. \A u \in Threads : task'[u] \in CallReqs /\ pc'[u] = "defer"
                             => Waits(task[u])' \/ stage'[task'[u].of] \in {"running", "done"}
      BY <1>3, <1>4, <1>6, <1>11 DEF Inv, Known
    <2>8. \A d \in returned' : stage'[d] # "new"
      BY <1>4 DEF Inv, Known, Base, HistoryTyped
    <2> QED BY <2>1, <2>2, <2>3, <2>4, <2>5, <2>6, <2>7, <2>8 DEF Known
  <1>13. Ordered'
    <2>1. \A u \in Threads : task'[u] \in CallReqs => task'[u].of \notin returned'
      BY <1>3, <1>11 DEF Inv, Ordered
    <2>2. \A d \in Calls : before'[d] \subseteq returned'
      BY <1>4 DEF Inv, Ordered
    <2>3. \A v, x \in CallReqs : v.of \in before'[x.of] => v.of # x.of /\ ~Precedes(x, v)'
      <3>1. \A v, x \in CallReqs : v.of \in before'[x.of] => v.of \in returned
        BY <1>4, CallReqFacts DEF Inv, Ordered
      <3>2. \A v, x \in CallReqs : v.of \in returned /\ Precedes(x, v)' => Precedes(x, v)
        BY <1>2, <1>6, <1>8
      <3>3. \A v, x \in CallReqs : v.of \in returned /\ x.of = c => v.of # c /\ ~Precedes(x, v)
        BY <1>7, <1>8, PrecedesWaits
      <3>4. \A v, x \in CallReqs : x.of # c /\ v.of \in before'[x.of] => v.of # x.of /\ ~Precedes(x, v)
        BY <1>4, CallReqFacts DEF Inv, Ordered
      <3> QED BY <3>1, <3>2, <3>3, <3>4
    <2>4. ~late' => \A v \in CallReqs : In(delayedCalls, v)' => Seen(v)'
      BY <1>3 DEF Seen
    <2>5. ~late' => \A d \in returned' : \/ stage'[d] \in {"running", "done"}
                                         \/ \E v \in CallReqs : v.of = d /\ Waits(v)'
      BY <1>2, <1>3, <1>4, <1>6, <1>8 DEF Inv, Ordered, Base, HistoryTyped
    <2>6. ~late' => \A u \in Threads : task'[u] \in CallReqs /\ Cleans(u)' => stage'[task'[u].of] = "done"
      BY <1>3, <1>4, <1>11 DEF Inv, Ordered, Cleans, InCall
    <2>7. CallOrder'
      BY <1>3, <1>4, <1>8 DEF Inv, Ordered, CallOrder
    <2> QED BY <2>1, <2>2, <2>3, <2>4, <2>5, <2>6, <2>7 DEF Ordered
  <1>14. Heard'
    <2>1. \A d \in Calls : stage'[d] = "new" => due'[d] = {}
      BY <1>4, <1>5 DEF Inv, Heard
    <2>2. \A d \in Calls : \A e \in due'[d] : stage'[d] \in {"called", "running"} => reg'[e] = "held"
      BY <1>3, <1>4, <1>5 DEF Inv, Heard
    <2>3. \A d \in Calls : \A e \in due'[d] : ~Precedes(Call(d), Link(e))'
      <3>0. \A d \in Calls : due'[d] \subseteq Entries
        BY <1>5 DEF Inv, Base, HistoryTyped
      <3>1. \A d \in Calls : \A e \in due'[d] : Precedes(Call(d), Link(e))' => Precedes(Call(d), Link(e))
        BY <1>6, <3>0, CallReqFacts
      <3>2. \A e : ~Precedes(Call(c), Link(e))
        BY <1>7, PrecedesWaits, CallReqFacts, LinkFacts
      <3> QED BY <1>5, <3>1, <3>2 DEF Inv, Heard
    <2>4. \A d \in Calls : Present(Invoke(d))' => due'[d] = {}
      <3>1. Present(Invoke(c))' => k = "invoke"
        BY <1>2, <1>3, <1>6, <1>7, CallReqFacts, LinkFacts DEF Present
      <3>2. \A d \in Calls \ {c} : Present(Invoke(d))' => Present(Invoke(d))
        BY <1>2, <1>3, <1>6, LinkFacts DEF Present
      <3> QED BY <1>5, <3>1, <3>2 DEF Inv, Heard
    <2>5. \A u \in Threads : pc'[u] \in {"call", "handler"} => Hears(u, Running(u).of)'
      <3> SUFFICES ASSUME NEW u \in Threads, pc[u] \in {"call", "handler"}
                   PROVE  Hears(u, Running(u).of)'
        BY <1>3
      <3> PICK d : d = Running(u).of
        OBVIOUS
      <3>1. d \in Calls \ {c} /\ Hears(u, d)
        BY <1>10 DEF Inv, Heard, InCall
      <3>2. Hears(u, d)'
        BY <1>3, <1>5, <3>1 DEF Hears
      <3> QED BY <1>9, <3>2
    <2>6. \A d \in Calls : stage'[d] = "done" => due'[d] \subseteq heard'[d]
      BY <1>3, <1>4, <1>5 DEF Inv, Heard
    <2> QED BY <2>1, <2>2, <2>3, <2>4, <2>5, <2>6 DEF Heard
  <1> QED BY <1>12, <1>13, <1>14 DEF CallsInv

\* leave takes over what was left: it waits in the same order, for one thread.
LEMMA CallsReleased ==
  ASSUME Inv, NEW t \in Threads, Release(t)
  PROVE  CallsInv'
  <1>1. Alone(t) /\ ThreadsTyped'
    BY ThreadStep DEF Inv, Base, Continue
  <1>2. /\ pc[t] = "release" /\ pc'[t] = "drain" /\ chain[t] = << >>
        /\ chain'[t] = Released(delayedCalls) /\ delayedCalls' = << >>
        /\ UNCHANGED << listeners, task, at, stage, returned, before, late, due, heard, reg >>
    BY DEF Release, Goto, At, Inv, Base, ThreadsTyped, Roles, Role, historyVars
  <1>3. /\ \A u \in Threads : chain[u] = << >> /\ ~InCall(u) /\ ~InCall(u)'
        /\ \A u \in Threads \ {t} : chain'[u] = << >>
    BY <1>1, <1>2, ChainOfOne DEF Alone, Asserting, Updating, InCall, Inv
  <1>4. /\ \A v : In(chain'[t], v) <=> In(delayedCalls, v)
        /\ \A u, v : Before(chain'[t], u, v) <=> Before(delayedCalls, v, u)
    BY <1>2, InReleased DEF Inv, Base, SignalTyped
  <1>5. /\ \A v : Waits(v)' <=> Waits(v)
        /\ \A v : ~In(delayedCalls, v)'
    BY <1>2, <1>3, <1>4, InEmpty DEF Waits, Chained
  <1>6. \A u, v : Precedes(u, v)' <=> Precedes(u, v)
    BY <1>2, <1>3, <1>4, InEmpty DEF Precedes, Chained
  <1>7. \A v : Present(v)' <=> Present(v)
    BY <1>2, <1>5 DEF Present
  <1>8. Known'
    <2>1. \A u \in Threads, v \in CallReqs : In(chain[u], v)' => stage'[v.of] = "called"
      BY <1>2, <1>3, <1>4, InEmpty DEF Inv, Known
    <2>2. \A d \in Calls : stage'[d] # "running"
      BY <1>2, <1>3 DEF Inv, Known
    <2>3. \A u \in Threads : task'[u] \in CallReqs /\ pc'[u] \in {"enter", "push"}
                             => stage'[task'[u].of] = "called"
      BY <1>1, <1>2 DEF Inv, Known, Alone
    <2>4. \A u \in Threads : task'[u] \in CallReqs /\ pc'[u] = "defer"
                             => Waits(task[u])' \/ stage'[task'[u].of] \in {"running", "done"}
      BY <1>1, <1>2, <1>5 DEF Inv, Known, Alone
    <2> QED BY <1>2, <1>3, <1>5, <1>7, <2>1, <2>2, <2>3, <2>4 DEF Inv, Known
  <1>9. Ordered'
    <2>1. ~late' => \A u \in Threads : task'[u] \in CallReqs /\ Cleans(u)' => stage'[task'[u].of] = "done"
      BY <1>1, <1>2, <1>3 DEF Inv, Ordered, Cleans, Alone
    <2>2. CallOrder'
      BY <1>2 DEF Inv, Ordered, CallOrder
    <2> QED BY <1>2, <1>5, <1>6, <2>1, <2>2 DEF Inv, Ordered
  <1>10. Heard'
    BY <1>2, <1>3, <1>6, <1>7 DEF Inv, Heard, InCall
  <1> QED BY <1>8, <1>9, <1>10 DEF CallsInv

-----------------------------------------------------------------------------
(* Every step *)

LEMMA FrameStep ==
  ASSUME Inv, NEW t \in Threads, Frame(t), Returned(t), late => late', pc[t] # "release",
         m_state = "Deferred" => m_state' = "Deferred" \/ pc'[t] = "release",
         task[t] \in CallReqs /\ pc[t] = "defer" => m_state' = "Deferred" \/ late',
         ~late' /\ task'[t] \in CallReqs /\ pc'[t] \in {"leave", "release", "drain"}
            => pc[t] \in {"leave", "release", "drain"},
         heard' = heard,
         \A c \in Calls : due'[c] \subseteq due[c],
         \A c \in Calls : \A e \in due'[c] : stage[c] \in {"called", "running"} => reg'[e] = "held",
         \A c \in Calls : \A e \in due'[c] : Precedes(Call(c), Link(e))' => Precedes(Call(c), Link(e)),
         InCall(t) => pc'[t] = pc[t] /\ at'[t] = at[t],
         listeners' = listeners \/ \A u \in Threads : ~InCall(u)
  PROVE  CallsInv'
  <1>1. \A c \in returned' : stage[c] # "new"
    <2>1. \A c \in returned : stage[c] # "new"
      BY DEF Inv, Known
    <2>2. task[t] \in CallReqs => stage[task[t].of] # "new"
      BY CallReqFacts DEF Inv, Synced, Owners
    <2> QED BY <2>1, <2>2 DEF Returned
  <1>2. Known'
    BY <1>1, FrameKnown DEF Inv
  <1>3. \A w \in CallReqs : ~late' /\ Seen(w) => Seen(w)'
    <2> SUFFICES ASSUME NEW w \in CallReqs, ~late', Seen(w) PROVE Seen(w)'
      OBVIOUS
    <2>1. CASE m_state = "Deferred"
      BY <2>1 DEF Seen
    <2>2. CASE \E u \in Threads : pc[u] = "release"
      BY <2>2 DEF Seen, Frame, Alone
    <2>3. CASE \E u \in Threads : pc[u] \in {"defer", "update"} /\ task[u] = w
      <3> PICK u \in Threads : pc[u] \in {"defer", "update"} /\ task[u] = w
        BY <2>3
      <3>1. pc[u] = "defer"
        BY CallReqFacts DEF Inv, Base, Roles, Role
      <3>2. CASE u = t
        BY <3>1, <3>2 DEF Seen
      <3>3. CASE u # t
        BY <3>1, <3>3 DEF Seen, Frame, Alone
      <3> QED BY <3>2, <3>3
    <2> QED BY <2>1, <2>2, <2>3 DEF Seen
  <1>4. Ordered'
    BY <1>3, FrameOrdered DEF Inv
  <1>5. Heard'
    BY FrameHeard DEF Inv
  <1> QED BY <1>2, <1>4, <1>5 DEF CallsInv

\* A step that is not about a call and leaves the queues and the listeners alone, or
\* with which a call is handed over or left.
LEMMA PassStep ==
  ASSUME Inv, NEW t \in Threads, Alone(t), Returned(t), late => late',
         ~InCall(t), pc'[t] \notin {"call", "handler", "fn"}, pc[t] # "release",
         UNCHANGED << delayedCalls, chain, stage, before, heard, listeners >>,
         m_state = "Deferred" => m_state' = "Deferred" \/ pc'[t] = "release",
         task[t] \in CallReqs /\ pc[t] = "defer" => m_state' = "Deferred" \/ late',
         ~late' /\ task'[t] \in CallReqs /\ pc'[t] \in {"leave", "release", "drain"}
            => pc[t] \in {"leave", "release", "drain"},
         task'[t] \in CallReqs => /\ task'[t] = task[t] /\ pc'[t] # "defer"
                                  /\ pc'[t] \in {"enter", "push"} => pc[t] \in {"enter", "push"},
         \A c \in Calls : due'[c] \subseteq due[c],
         \A c \in Calls : \A e \in due'[c] : stage[c] \in {"called", "running"} => reg'[e] = "held"
  PROVE  CallsInv'
  <1>1. \A u, v : Precedes(u, v)' <=> Precedes(u, v)
    BY DEF Precedes, Chained
  <1>2. ~InCall(t)'
    BY DEF InCall
  <1>3. Frame(t)
    BY <1>1, <1>2 DEF Frame
  <1> QED BY <1>1, <1>3, FrameStep

\* The owner of a listener learns that it is linked, or is asked to let go of it.
LEMMA HeldStaysHeld ==
  ASSUME Inv, NEW t \in Threads, Defer(t) \/ Publish(t)
  PROVE  \A e \in Entries : reg[e] = "held" => reg'[e] = "held"
  <1> SUFFICES ASSUME NEW e \in Entries, reg[e] = "held" PROVE reg'[e] = "held"
    OBVIOUS
  <1>1. PICK b \in BOOLEAN : Return(t, task[t], b)
    BY DEF Defer, Publish
  <1>2. task[t] \in Callables /\ reg \in [Entries -> Regs]
    <2>1. pc[t] \in {"defer", "publish"}
      BY DEF Defer, Publish, At
    <2> QED BY <2>1 DEF Inv, Base, ThreadsTyped, HistoryTyped, Roles, Role
  <1>3. task[t] # Unlink(e)
    BY DEF Inv, Synced, Owners
  <1>4. task[t].kind \in {"link", "unlink"} => task[t].of \in Entries
    BY <1>2, LinkFacts
  <1>5. task[t].kind = "unlink" => task[t].of # e
    BY <1>2, <1>3, LinkFacts
  <1> QED BY <1>1, <1>2, <1>4, <1>5 DEF Return

\* A request about a listener is pushed, by its owner or from within a call.
LEMMA WaitingStage ==
  ASSUME Inv, NEW c \in Calls, Waits(Call(c))
  PROVE  stage[c] \in {"called", "running"}
  <1>1. Call(c) \in CallReqs /\ Call(c).of = c
    BY CallReqFacts, LinkFacts
  <1>2. CASE In(delayedCalls, Call(c))
    BY <1>1, <1>2 DEF Inv, Known
  <1>3. CASE Chained(Call(c))
    <2> PICK u \in Threads : In(chain[u], Call(c))
      BY <1>3 DEF Chained
    <2> QED BY <1>1 DEF Inv, Known, Makes
  <1> QED BY <1>2, <1>3 DEF Waits

LEMMA LinkPushed ==
  ASSUME Inv, NEW t \in Threads, Alone(t), NEW w \in Callables, w.kind \in {"link", "unlink"},
         delayedCalls' = << w >> \o delayedCalls, UNCHANGED << chain, task >>,
         w.kind = "link" => reg[w.of] # "held",
         pc[t] # "release", task[t] \in CallReqs => pc'[t] = pc[t] /\ pc[t] # "defer",
         InCall(t)' <=> InCall(t), InCall(t) => pc'[t] = pc[t] /\ at'[t] = at[t],
         UNCHANGED << stage, before, returned, heard, late, listeners >>,
         m_state = "Deferred" => m_state' = "Deferred",
         \A c \in Calls : due'[c] \subseteq due[c],
         \A c \in Calls : \A e \in due'[c] : stage[c] \in {"called", "running"} => reg'[e] = "held"
  PROVE  CallsInv'
  <1>1. /\ \A v : In(delayedCalls, v)' <=> v = w \/ In(delayedCalls, v)
        /\ \A v : Waits(v)' <=> v = w \/ Waits(v)
        /\ \A u, v : Precedes(u, v)' => Precedes(u, v) \/ (v = w /\ Waits(u))
    BY PushOrder DEF Inv, Base, SignalTyped
  <1>2. w \notin CallReqs
    BY DEF CallReqs
  <1>3. Frame(t)
    BY <1>1, <1>2 DEF Frame
  <1>4. \A c \in Calls : \A e \in due'[c] : Precedes(Call(c), Link(e))' => Precedes(Call(c), Link(e))
    <2> SUFFICES ASSUME NEW c \in Calls, NEW e \in due'[c], Link(e) = w, Waits(Call(c)) PROVE FALSE
      BY <1>1
    <2>1. stage[c] \in {"called", "running"} /\ e \in due[c]
      BY WaitingStage
    <2>2. reg[e] = "held" /\ e \in Entries
      BY <2>1 DEF Inv, Heard, Base, HistoryTyped
    <2> QED BY <2>2, LinkFacts
  <1>5. Returned(t)
    BY DEF Returned
  <1> QED BY <1>3, <1>4, <1>5, FrameStep

\* Under Updating nobody is calling.
LEMMA UpdateCalls ==
  ASSUME Inv, NEW t \in Threads, Update(t)
  PROVE  CallsInv'
  <1>1. Alone(t) /\ ThreadsTyped'
    BY ThreadStep DEF Inv, Base, Continue
  <1>2. /\ pc[t] = "update" /\ task[t] \in Callables /\ task[t].kind \in {"link", "unlink"}
        /\ m_state = "Updating"
    BY DEF Update, At, Inv, Base, ThreadsTyped, Roles, Role, LockInv, Exclusive, Updaters
  <1>3. /\ pc'[t] = "publish"
        /\ UNCHANGED << m_state, chain, task, stage, before, returned, late, due, heard, reg >>
    BY DEF Update, Goto, Inv, Base, ThreadsTyped, localVars, historyVars
  <1>4. \A u \in Threads : ~InCall(u)
    BY <1>2 DEF InCall, Inv, Base, LockInv, Exclusive, Asserters
  <1>5. /\ \A v : v.kind \in {"link", "signal", "invoke"} =>
             (In(delayedCalls, v)' => In(delayedCalls, v))
        /\ \A v \in CallReqs : In(delayedCalls, v)' <=> In(delayedCalls, v)
        /\ \A u, v : u.kind \in {"signal", "invoke"} /\ v.kind \in {"link", "signal", "invoke"}
                     /\ Precedes(u, v)' => Precedes(u, v)
    <2>0. \A v \in CallReqs : v # task[t] /\ v.kind \in {"signal", "invoke"}
      BY <1>2, CallReqFacts
    <2>1. CASE IsOurs(t)
      <3>1. delayedCalls' = TakenBack(delayedCalls, task[t])
        BY <2>1 DEF Update
      <3>2. /\ \A v : v.kind # "dead" => (In(delayedCalls, v)' <=> In(delayedCalls, v) /\ v # task[t])
            /\ \A u, v : u.kind # "dead" /\ v.kind # "dead" /\ Before(delayedCalls, u, v)'
                         => Before(delayedCalls, u, v)
        BY <1>2, <3>1, InTakenBack DEF Inv, Base, SignalTyped
      <3>3. \A u, v : u.kind \in {"signal", "invoke"} /\ v.kind \in {"link", "signal", "invoke"}
                     /\ Precedes(u, v)' => Precedes(u, v)
        <4>1. \A v : Chained(v)' <=> Chained(v)
          BY <1>3 DEF Chained
        <4> QED BY <1>3, <3>2, <4>1 DEF Precedes
      <3> QED BY <2>0, <3>2, <3>3
    <2>2. CASE ~IsOurs(t)
      <3>1. delayedCalls' = delayedCalls
        BY <2>2 DEF Update
      <3> QED BY <1>3, <3>1 DEF Precedes, Chained
    <2> QED BY <2>1, <2>2
  <1>6. task[t] \notin CallReqs
    BY <1>2 DEF CallReqs
  <1>7. ~InCall(t)'
    BY <1>3 DEF InCall
  <1>8. Frame(t)
    BY <1>1, <1>3, <1>4, <1>5, <1>6, <1>7, CallReqFacts DEF Frame
  <1>9. \A c \in Calls : \A e \in due'[c] : Precedes(Call(c), Link(e))' => Precedes(Call(c), Link(e))
    <2>1. \A c \in Calls : \A e \in due[c] : e \in Entries
      BY DEF Inv, Base, HistoryTyped
    <2> QED BY <1>3, <1>5, <2>1, LinkFacts
  <1>10. Returned(t)
    BY <1>3 DEF Returned
  <1>11. \A c \in Calls : \A e \in due'[c] : stage[c] \in {"called", "running"} => reg'[e] = "held"
    BY <1>3 DEF Inv, Heard
  <1> QED BY <1>2, <1>3, <1>4, <1>6, <1>8, <1>9, <1>10, <1>11, FrameStep

\* A listener comes or goes, or nothing happens, as the first of a chain is run.
LEMMA ServeCalls ==
  ASSUME Inv, NEW t \in Threads, Alone(t), pc[t] = "drain", chain[t] # << >>,
         Head(chain[t]) \notin CallReqs, chain'[t] = Tail(chain[t]),
         UNCHANGED << pc, m_state, task, delayedCalls, stage, before, returned, late, due, heard, reg >>
  PROVE  CallsInv'
  <1>1. chain[t] \in Seq(Callables)
    BY DEF Inv, Base, ThreadsTyped
  <1>2. \A v \in CallReqs : In(chain[t], v)' <=> In(chain[t], v)
    BY <1>1, InTail
  <1>3. \A u, v : Precedes(u, v)' => Precedes(u, v)
    BY PopOrder DEF Inv, Asserting
  <1>4. /\ \A u \in Threads : ~InCall(u)
        /\ ~InCall(t)'
    BY ChainOfOne DEF Inv, Updating, Asserting, InCall
  <1>5. Frame(t)
    BY <1>2, <1>3, <1>4 DEF Frame, Alone
  <1>6. Returned(t)
    BY DEF Returned
  <1>7. \A c \in Calls : \A e \in due'[c] : stage[c] \in {"called", "running"} => reg'[e] = "held"
    BY DEF Inv, Heard
  <1> QED BY <1>3, <1>4, <1>5, <1>6, <1>7, FrameStep

\* SignalUnsafe gets to a listener, or past it.
LEMMA HandlerStep ==
  ASSUME Inv, NEW t \in Threads, Alone(t), pc[t] \in {"call", "handler"},
         \/ /\ pc[t] = "call" /\ pc'[t] = "handler" /\ at[t] <= Len(listeners) /\ at'[t] = at[t]
            /\ heard' = [heard EXCEPT ![Running(t).of] = @ \cup {listeners[at[t]]}]
         \/ pc[t] = "handler" /\ pc'[t] = "call" /\ at'[t] = at[t] + 1 /\ heard' = heard,
         UNCHANGED << m_state, delayedCalls, chain, task, listeners, stage, before, returned,
                      late, due, reg >>
  PROVE  CallsInv'
  <1>1. InCall(t) /\ InCall(t)'
    BY DEF InCall
  <1>2. \A u, v : Precedes(u, v)' <=> Precedes(u, v)
    BY DEF Precedes, Chained
  <1>3. Frame(t)
    BY <1>1, <1>2 DEF Frame
  <1>4. Known'
    <2>1. \A c \in returned' : stage[c] # "new"
      BY DEF Inv, Known
    <2> QED BY <1>3, <2>1, FrameKnown DEF Inv
  <1>5. Ordered'
    <2>1. \A w \in CallReqs : Seen(w) => Seen(w)'
      BY DEF Seen, Alone
    <2>2. Returned(t)
      BY DEF Returned
    <2> QED BY <1>3, <2>1, <2>2, FrameOrdered DEF Inv
  <1>6. PICK c \in Calls : c = Running(t).of
    BY <1>1, RunningFacts, CallReqFacts DEF Inv
  <1>7. \A d \in Calls : heard[d] \subseteq heard'[d]
    BY <1>6 DEF Inv, Base, HistoryTyped
  <1>8. Hears(t, c)'
    <2>0. /\ Hears(t, c) /\ at[t] \in Nat \ {0} /\ Len(listeners) \in Nat
      BY <1>6 DEF Inv, Heard, Base, ThreadsTyped, SignalTyped, Roles, Role
    <2>1. CASE pc[t] = "call"
      <3>1. heard'[c] = heard[c] \cup {listeners[at[t]]}
        BY <1>6, <2>1 DEF Inv, Base, HistoryTyped
      <3> QED BY <2>0, <2>1, <3>1 DEF Hears
    <2>2. CASE pc[t] = "handler"
      <3>1. \A i \in 1 .. Len(listeners) : i < at[t] + 1 => listeners[i] \in heard[c]
        BY <2>0, <2>2 DEF Hears
      <3> QED BY <2>0, <2>2, <3>1 DEF Hears
    <2> QED BY <2>1, <2>2
  <1>9. Heard'
    <2>1. \A u \in Threads : pc'[u] \in {"call", "handler"} => Hears(u, Running(u).of)'
      <3>1. \A u \in Threads \ {t} : pc'[u] \notin {"call", "handler"}
        BY <1>1, RunningFacts DEF Inv, Alone, InCall
      <3>2. Running(t)'.of = c
        BY <1>6 DEF Running
      <3> QED BY <1>8, <3>1, <3>2
    <2>2. \A d \in Calls : stage'[d] = "done" => due'[d] \subseteq heard'[d]
      BY <1>7 DEF Inv, Heard
    <2>3. \A d \in Calls : Present(Invoke(d))' => due'[d] = {}
      BY <1>1, <1>3, FrameFacts, CallReqFacts DEF Inv, Heard
    <2> QED BY <1>2, <2>1, <2>2, <2>3 DEF Inv, Heard
  <1> QED BY <1>4, <1>5, <1>9 DEF CallsInv

LEMMA CallsStep ==
  ASSUME Inv, NEW t \in Threads, Request(t) \/ Continue(t) \/ Nested(t)
  PROVE  CallsInv'
  <1>1. Alone(t) /\ ThreadsTyped'
    BY ThreadStep DEF Inv, Base
  <1>2. /\ Role(t) /\ task[t] \in Callables \cup {None}
        /\ pc \in [Threads -> Points] /\ task \in [Threads -> Callables \cup {None}]
        /\ chain \in [Threads -> Seq(Callables)] /\ at \in [Threads -> Nat]
        /\ due \in [Calls -> SUBSET Entries] /\ reg \in [Entries -> Regs]
    BY DEF Inv, Base, ThreadsTyped, HistoryTyped, Roles
  <1>3. \A c \in Calls : \A e \in due[c] : stage[c] \in {"called", "running"} => reg[e] = "held"
    BY DEF Inv, Heard
  <1> USE CallReqFacts
  <1>4. CASE EnterLink(t)
    <2>1. PICK e \in Entries : /\ reg[e] = "new" /\ reg' = [reg EXCEPT ![e] = "linking"]
                               /\ task' = [task EXCEPT ![t] = Link(e)]
      BY <1>4 DEF EnterLink, Link
    <2>2. /\ pc[t] = "idle" /\ pc'[t] = "try" /\ task'[t] = Link(e) /\ task[t] = None
          /\ UNCHANGED << m_state, delayedCalls, chain, stage, before, returned, late, heard, listeners, due >>
      BY <1>2, <1>4, <2>1 DEF EnterLink, Calling, At, Goto, signalVars, Role
    <2>3. \A c \in Calls : \A f \in due[c] : stage[c] \in {"called", "running"} => reg'[f] = "held"
      BY <1>2, <1>3, <2>1
    <2> QED BY <1>1, <2>2, <2>3, PassStep DEF Returned, InCall
  <1>5. CASE EnterUnlink(t)
    <2>1. PICK e \in Entries : /\ reg[e] = "held" /\ reg' = [reg EXCEPT ![e] = "unlinking"]
                               /\ task' = [task EXCEPT ![t] = Unlink(e)] /\ due' = DueWithout(e)
      BY <1>5 DEF EnterUnlink, Unlink
    <2>2. /\ pc[t] = "idle" /\ pc'[t] = "try" /\ task'[t] = Unlink(e) /\ task[t] = None
          /\ UNCHANGED << m_state, delayedCalls, chain, stage, before, returned, late, heard, listeners >>
      BY <1>2, <1>5, <2>1 DEF EnterUnlink, Calling, At, Goto, signalVars, Role
    <2>3. /\ \A c \in Calls : due'[c] \subseteq due[c]
          /\ \A c \in Calls : \A f \in due'[c] : stage[c] \in {"called", "running"} => reg'[f] = "held"
      BY <1>2, <1>3, <2>1 DEF DueWithout
    <2> QED BY <1>1, <2>2, <2>3, PassStep DEF Returned, InCall
  <1>6. CASE EnterCall(t)
    BY <1>6, CallEnters
  <1>7. CASE TryLock(t) \/ Unlock(t) \/ TryUpdate(t) \/ TakeOver(t)
    <2>1. UNCHANGED << delayedCalls, chain, stage, before, returned, late, heard, listeners, due, reg, task >>
      BY <1>7 DEF TryLock, Unlock, TryUpdate, TakeOver, localVars, historyVars, signalVars
    <2>2. /\ pc[t] \in {"idle", "locked", "try", "defer"}
          /\ pc'[t] \in {"locked", "leave", "push", "update"}
          /\ task[t] \notin CallReqs
      BY <1>2, <1>7
         DEF TryLock, Unlock, TryUpdate, TakeOver, Calling, At, Goto, Role, CallReqs
    <2>3. m_state = "Deferred" => m_state' = "Deferred"
      BY <1>7 DEF TryLock, Unlock, TryUpdate, TakeOver, signalVars, MayAssert
    <2> QED BY <1>1, <1>3, <2>1, <2>2, <2>3, PassStep DEF Returned, InCall
  <1>8. CASE Push(t)
    <2>1. CASE task[t] \in CallReqs
      BY <1>8, <2>1, CallPushed
    <2>2. CASE task[t] \notin CallReqs
      <3>1. /\ pc[t] = "push" /\ pc'[t] = "defer"
            /\ UNCHANGED << m_state, chain, task, stage, before, returned, late, heard, listeners, due, reg >>
        BY <1>2, <1>8 DEF Push, At, Goto, historyVars
      <3>2. PICK w \in Callables : w = task[t] /\ w.kind \in {"link", "unlink"}
        BY <1>2, <2>2, <3>1, LinkFacts DEF Role, CallReqs
      <3>3. w.kind = "link" => reg[w.of] # "held"
        BY <3>2, LinkFacts DEF Inv, Synced, Owners
      <3>4. delayedCalls' = << w >> \o delayedCalls
        BY <1>8, <3>2 DEF Push
      <3>5. ~InCall(t) /\ ~InCall(t)'
        BY <3>1 DEF InCall
      <3> QED BY <1>1, <1>3, <2>2, <3>1, <3>2, <3>3, <3>4, <3>5, LinkPushed
    <2> QED BY <2>1, <2>2
  <1>9. CASE Defer(t) \/ Publish(t)
    <2>1. /\ pc[t] \in {"defer", "publish"} /\ pc'[t] = "idle" /\ task'[t] = None
          /\ UNCHANGED << delayedCalls, chain, stage, before, late, heard, listeners, due >>
          /\ pc[t] = "defer" => m_state' = "Deferred"
      BY <1>2, <1>9 DEF Defer, Publish, At, Goto
    <2>2. \A c \in Calls : \A f \in due[c] : stage[c] \in {"called", "running"} => reg'[f] = "held"
      BY <1>2, <1>3, <1>9, HeldStaysHeld
    <2>3. m_state = "Deferred" => m_state' = "Deferred"
      BY <1>9, <2>1 DEF Defer, Publish, At, Inv, Base, LockInv, Exclusive, Updaters
    <2>4. Returned(t)
      <3>0. task[t] \in Callables
        BY <1>2, <2>1 DEF Role
      <3>1. returned' = IF task[t].kind \in {"signal", "invoke"}
                          THEN returned \cup {task[t].of} ELSE returned
        BY <1>9 DEF Defer, Publish, Return
      <3>2. CASE task[t].kind \in {"signal", "invoke"}
        <4>1. pc[t] = "defer"
          BY <1>2, <2>1, <3>2 DEF Role
        <4> QED BY <2>1, <3>0, <3>1, <3>2, <4>1 DEF Returned, CallReqs
      <3>3. CASE task[t].kind \notin {"signal", "invoke"}
        BY <3>1, <3>3 DEF Returned
      <3> QED BY <3>2, <3>3
    <2> QED BY <1>1, <2>1, <2>2, <2>3, <2>4, PassStep DEF InCall
  <1>10. CASE Update(t)
    BY <1>10, UpdateCalls
  <1>11. CASE TryEnter(t)
    <2>1. /\ pc[t] = "enter"
          /\ UNCHANGED << listeners, delayedCalls, chain, task, reg, returned, due, heard, before, late >>
      BY <1>11 DEF TryEnter, At
    <2>2. PICK w \in CallReqs : w = task[t]
      BY <1>2, <2>1, LinkFacts DEF Role, CallReqs
    <2>3. CASE MayAssert /\ m_state' = "Asserting" /\ Begin(t, task[t])
      <3>1. Ripe(t, w)
        BY <2>1, <2>2, <2>3, OwnIsRipe DEF MayAssert
      <3>2. /\ pc'[t] = IF w.kind = "signal" THEN "call" ELSE "fn"
            /\ at'[t] = 1 /\ stage' = [stage EXCEPT ![w.of] = "running"]
            /\ m_state = "Deferred" => m_state' = "Deferred"
        BY <1>2, <2>2, <2>3 DEF Begin, Goto, MayAssert
      <3> QED BY <1>1, <2>1, <2>2, <3>1, <3>2, CallBegins
    <2>4. CASE Goto(t, "push") /\ UNCHANGED << m_state, stage, at >>
      <3>1. pc'[t] = "push"
        BY <1>2, <2>4 DEF Goto
      <3> QED BY <1>1, <1>3, <2>1, <2>2, <2>4, <3>1, PassStep DEF Returned, InCall
    <2> QED BY <1>11, <2>3, <2>4 DEF TryEnter
  <1>12. CASE HandoffLate(t)
    <2>1. /\ pc[t] = "defer" /\ pc'[t] = "leave" /\ late' /\ m_state # "Deferred"
          /\ UNCHANGED << delayedCalls, chain, stage, before, returned, heard, listeners, due, reg, task >>
      BY <1>2, <1>12 DEF HandoffLate, At, Goto
    <2> QED BY <1>1, <1>3, <2>1, PassStep DEF Returned, InCall
  <1>13. CASE Leave(t)
    <2>1. /\ pc[t] = "leave" /\ pc'[t] \in {"idle", "release"}
          /\ UNCHANGED << delayedCalls, chain, stage, before, late, heard, listeners, due, reg >>
          /\ m_state = "Deferred" => pc'[t] = "release"
          /\ task'[t] \in {None, task[t]}
      BY <1>2, <1>13 DEF Leave, At, Goto, MayLeave
    <2>2. Returned(t)
      <3>1. task[t] = None \/ task[t] \in CallReqs
        BY <1>2, <2>1 DEF Role, CallReqs
      <3> QED BY <1>2, <1>13, <2>1, <3>1 DEF Leave, Returned
    <2>3. task'[t] \in CallReqs => task'[t] = task[t]
      BY <2>1
    <2> QED BY <1>1, <1>3, <2>1, <2>2, <2>3, PassStep DEF InCall
  <1>14. CASE SignalNext(t)
    <2>1. /\ pc[t] = "call" /\ InCall(t)
          /\ UNCHANGED << m_state, listeners, delayedCalls, task, at, reg, returned, due, before, late >>
      BY <1>14 DEF SignalNext, At, signalVars, InCall
    <2>2. PICK w \in CallReqs : w = Running(t) /\ w.kind = "signal"
      BY <2>1, RunningFacts DEF Inv
    <2>3. CASE /\ at[t] <= Len(listeners) /\ Goto(t, "handler")
               /\ heard' = [heard EXCEPT ![Running(t).of] = @ \cup {listeners[at[t]]}]
               /\ UNCHANGED << chain, stage >>
      <3>1. pc'[t] = "handler"
        BY <1>2, <2>3 DEF Goto
      <3> QED BY <1>1, <2>1, <2>3, <3>1, HandlerStep
    <2>4. CASE /\ at[t] > Len(listeners) /\ Ended(t)
               /\ stage' = [stage EXCEPT ![Running(t).of] = "done"] /\ heard' = heard
      <3>1. Hears(t, w.of) /\ w.of \in Calls
        BY <2>1, <2>2 DEF Inv, Heard
      <3>2. due[w.of] \subseteq heard[w.of]
        <4> SUFFICES ASSUME NEW e \in due[w.of] PROVE e \in heard[w.of]
          OBVIOUS
        <4>1. PICK i \in 1 .. Len(listeners) : listeners[i] = e
          BY <3>1 DEF Hears, In
        <4>2. i < at[t]
          BY <1>2, <2>4 DEF Inv, Base, SignalTyped
        <4> QED BY <3>1, <4>1, <4>2 DEF Hears
      <3>3. /\ due'[w.of] \subseteq due[w.of] \cap heard[w.of]
            /\ \A d \in Calls \ {w.of} : due'[d] = due[d]
            /\ stage' = [stage EXCEPT ![w.of] = "done"]
        BY <2>1, <2>2, <2>4, <3>2
      <3> QED BY <1>1, <2>1, <2>2, <2>4, <3>3, CallEnds
    <2> QED BY <1>14, <2>3, <2>4 DEF SignalNext
  <1>15. CASE HandlerEnds(t)
    <2>1. /\ pc[t] = "handler" /\ InCall(t)
          /\ UNCHANGED << m_state, listeners, delayedCalls, task, reg, returned, heard, before, late >>
      BY <1>15 DEF HandlerEnds, At, signalVars, InCall
    <2>2. PICK w \in CallReqs : w = Running(t) /\ w.of \in Calls
      BY <2>1, RunningFacts DEF Inv
    <2>3. CASE /\ at' = [at EXCEPT ![t] = @ + 1] /\ Goto(t, "call")
               /\ UNCHANGED << chain, stage, due >>
      <3>1. pc'[t] = "call" /\ at'[t] = at[t] + 1
        BY <1>2, <2>3 DEF Goto
      <3> QED BY <1>1, <2>1, <2>3, <3>1, HandlerStep
    <2>4. CASE /\ Ended(t) /\ stage' = [stage EXCEPT ![Running(t).of] = "done"]
               /\ due' = [due EXCEPT ![Running(t).of] = @ \cap heard[Running(t).of]]
      <3>1. /\ due'[w.of] \subseteq due[w.of] \cap heard[w.of]
            /\ \A d \in Calls \ {w.of} : due'[d] = due[d]
            /\ stage' = [stage EXCEPT ![w.of] = "done"]
        BY <1>2, <2>2, <2>4
      <3> QED BY <1>1, <2>1, <2>2, <2>4, <3>1, CallEnds
    <2> QED BY <1>15, <2>3, <2>4 DEF HandlerEnds
  <1>16. CASE FunctionEnds(t)
    <2>1. /\ pc[t] = "fn" /\ InCall(t) /\ Ended(t)
          /\ stage' = [stage EXCEPT ![Running(t).of] = "done"]
          /\ UNCHANGED << m_state, listeners, delayedCalls, task, reg, returned, due, heard, before, late >>
      BY <1>16 DEF FunctionEnds, At, signalVars, InCall
    <2>2. PICK w \in CallReqs : w = Running(t) /\ w.of \in Calls /\ w = Invoke(w.of) /\ Present(w)
      <3>1. Running(t) \in CallReqs /\ Running(t).kind # "signal" /\ Present(Running(t))
        BY <2>1, RunningFacts DEF Inv
      <3> QED BY <3>1
    <2>3. due[w.of] = {}
      BY <2>2 DEF Inv, Heard
    <2> QED BY <1>1, <2>1, <2>2, <2>3, CallEnds
  <1>17. CASE Release(t)
    BY <1>17, CallsReleased
  <1>18. CASE Drain(t)
    <2>1. /\ pc[t] = "drain"
          /\ UNCHANGED << m_state, delayedCalls, task, reg, returned, due, heard, before, late >>
      BY <1>18 DEF Drain, At
    <2>2. CASE chain[t] = << >>
      <3>1. pc'[t] = "leave" /\ UNCHANGED << chain, listeners, stage >>
        BY <1>2, <1>18, <2>2 DEF Drain, Goto
      <3> QED BY <1>1, <1>3, <2>1, <3>1, PassStep DEF Returned, InCall
    <2>3. CASE chain[t] # << >> /\ Head(chain[t]).kind \in {"link", "unlink", "dead"}
      <3>1. chain'[t] = Tail(chain[t]) /\ UNCHANGED << pc, stage >>
        BY <1>2, <1>18, <2>3 DEF Drain
      <3>2. Head(chain[t]) \notin CallReqs
        BY <2>3
      <3> QED BY <1>1, <2>1, <2>3, <3>1, <3>2, ServeCalls
    <2>4. CASE chain[t] # << >> /\ Head(chain[t]).kind \in {"signal", "invoke"}
      <3>1. PICK w \in CallReqs : w = Head(chain[t])
        <4>1. Head(chain[t]) \in Callables
          BY <1>2, <2>4, InTail
        <4> QED BY <2>4, <4>1 DEF CallReqs
      <3>2. Ripe(t, w)
        BY <2>1, <2>4, <3>1, FirstIsRipe
      <3>3. /\ pc'[t] = IF w.kind = "signal" THEN "call" ELSE "fn"
            /\ at'[t] = 1 /\ stage' = [stage EXCEPT ![w.of] = "running"]
            /\ UNCHANGED << chain, listeners >>
        BY <1>2, <1>18, <2>4, <3>1 DEF Drain, Begin, Goto
      <3> QED BY <1>1, <2>1, <3>1, <3>2, <3>3, CallBegins
    <2> QED BY <1>18, <2>2, <2>3, <2>4 DEF Drain
  <1>19. CASE Nested(t)
    <2>1. /\ pc[t] \in {"handler", "fn", "locked"}
          /\ UNCHANGED << listeners, pc, task, chain, at, heard, late >> /\ m_state' = "Deferred"
      BY <1>19 DEF Nested, Defers, localVars
    <2>2. InCall(t)' <=> InCall(t)
      BY <2>1 DEF InCall
    <2>3. CASE \E e \in Entries :
                 /\ reg[e] = "new" /\ reg' = [reg EXCEPT ![e] = "held"] /\ Defers(t, Do("link", e))
                 /\ UNCHANGED << stage, returned, due, before >>
      <3> PICK e \in Entries :
                 /\ reg[e] = "new" /\ reg' = [reg EXCEPT ![e] = "held"] /\ Defers(t, Do("link", e))
                 /\ UNCHANGED << stage, returned, due, before >>
        BY <2>3
      <3>1. PICK w \in Callables : w = Do("link", e) /\ w.kind = "link" /\ w.of = e
        BY CallableFacts
      <3>2. delayedCalls' = << w >> \o delayedCalls
        BY <3>1 DEF Defers
      <3>3. \A c \in Calls : \A f \in due'[c] : stage[c] \in {"called", "running"} => reg'[f] = "held"
        BY <1>2, <1>3
      <3> QED BY <1>1, <2>1, <2>2, <3>1, <3>2, <3>3, LinkPushed
    <2>4. CASE \E e \in Entries :
                 /\ reg[e] = "held" /\ reg' = [reg EXCEPT ![e] = "left"] /\ due' = DueWithout(e)
                 /\ Defers(t, Do("unlink", e)) /\ UNCHANGED << stage, returned, before >>
      <3> PICK e \in Entries :
                 /\ reg[e] = "held" /\ reg' = [reg EXCEPT ![e] = "left"] /\ due' = DueWithout(e)
                 /\ Defers(t, Do("unlink", e)) /\ UNCHANGED << stage, returned, before >>
        BY <2>4
      <3>1. PICK w \in Callables : w = Do("unlink", e) /\ w.kind = "unlink" /\ w.of = e
        BY CallableFacts
      <3>2. delayedCalls' = << w >> \o delayedCalls
        BY <3>1 DEF Defers
      <3>3. /\ \A c \in Calls : due'[c] \subseteq due[c]
            /\ \A c \in Calls : \A f \in due'[c] : stage[c] \in {"called", "running"} => reg'[f] = "held"
        BY <1>2, <1>3 DEF DueWithout
      <3> QED BY <1>1, <2>1, <2>2, <3>1, <3>2, <3>3, LinkPushed
    <2>5. CASE \E c \in Calls, k \in {"signal", "invoke"} :
                 /\ stage[c] = "new" /\ stage' = [stage EXCEPT ![c] = "called"]
                 /\ due' = IF k = "signal" THEN Due(c) ELSE due
                 /\ before' = [before EXCEPT ![c] = returned]
                 /\ returned' = returned \cup {c} /\ Defers(t, Do(k, c)) /\ reg' = reg
      BY <1>19, <2>5, CallNested
    <2> QED BY <1>19, <2>3, <2>4, <2>5 DEF Nested
  <1> QED
    BY <1>4, <1>5, <1>6, <1>7, <1>8, <1>9, <1>10, <1>11, <1>12, <1>13, <1>14, <1>15, <1>16,
       <1>17, <1>18, <1>19 DEF Request, Continue

LEMMA InitCalls == Init => Inv
  <1> SUFFICES ASSUME Init PROVE Inv
    OBVIOUS
  <1>1. Base /\ Synced
    BY InitSynced
  <1>2. /\ \A t \in Threads : pc[t] = "idle" /\ task[t] = None /\ chain[t] = << >>
        /\ delayedCalls = << >> /\ returned = {}
        /\ \A c \in Calls : stage[c] = "new" /\ due[c] = {} /\ before[c] = {}
    BY DEF Init
  <1>3. /\ \A w : ~In(delayedCalls, w) /\ ~Waits(w)
        /\ \A t \in Threads : ~InCall(t) /\ ~Cleans(t)
        /\ \A t \in Threads : \A w : ~In(chain[t], w)
        /\ \A w \in CallReqs : ~Present(w)
    BY <1>2, InEmpty, CallReqFacts DEF Waits, Chained, InCall, Cleans, Present
  <1>4. Known
    BY <1>2, <1>3, CallReqFacts DEF Known
  <1>5. Ordered
    BY <1>2, <1>3, CallReqFacts DEF Ordered, CallOrder
  <1>6. Heard
    BY <1>2, <1>3, CallReqFacts DEF Heard
  <1> QED BY <1>1, <1>4, <1>5, <1>6 DEF Inv

LEMMA NextCalls == Inv /\ [Next]_vars => Inv'
  <1> SUFFICES ASSUME Inv, [Next]_vars PROVE Inv'
    OBVIOUS
  <1>1. Base' /\ Synced'
    BY BaseStep DEF Inv
  <1>2. CASE Next
    <2> PICK t \in Threads : Request(t) \/ Continue(t) \/ Nested(t)
      BY <1>2 DEF Next
    <2>1. CallsInv'
      BY CallsStep
    <2> QED BY <1>1, <2>1 DEF Inv, CallsInv
  <1>3. CASE UNCHANGED vars
    <2> USE <1>3 DEF vars, signalVars, localVars, historyVars
    <2>1. /\ \A w : Waits(w)' <=> Waits(w)
          /\ \A u, v : Precedes(u, v)' <=> Precedes(u, v)
          /\ \A w : Present(w)' <=> Present(w)
          /\ \A w : Seen(w)' <=> Seen(w)
      BY DEF Waits, Chained, Precedes, Present, Seen
    <2>2. \A t \in Threads : /\ Running(t)' = Running(t)
                             /\ InCall(t)' <=> InCall(t)
                             /\ Cleans(t)' <=> Cleans(t)
      BY DEF Running, InCall, Cleans
    <2>3. Known'
      BY <2>1, <2>2 DEF Inv, Known, Makes
    <2>4. Ordered'
      BY <2>1, <2>2 DEF Inv, Ordered, CallOrder
    <2>5. Heard'
      <3>1. \A t \in Threads : pc'[t] \in {"call", "handler"} => Hears(t, Running(t).of)'
        BY <2>2 DEF Inv, Heard, Hears
      <3> QED BY <2>1, <3>1 DEF Inv, Heard
    <2> QED BY <1>1, <2>3, <2>4, <2>5 DEF Inv
  <1> QED BY <1>2, <1>3

\* Calls are made in the order in which their callers could tell: one that had
\* returned when another was made is over when that one begins, though either may
\* have been left to a third thread, unless a handoff came late.
THEOREM CallsInOrder == Spec => []CallOrder
  <1>1. Inv => CallOrder
    BY DEF Inv, Ordered
  <1> QED BY InitCalls, NextCalls, <1>1, PTL DEF Spec

\* Who was registered when a call was made, and stays, hears it; who is gone is not
\* in a handler and on no list.
THEOREM CallsAreHeard == Spec => []HeardExactly
  <1>1. Inv => HeardExactly
    <2> SUFFICES ASSUME Inv PROVE HeardExactly
      OBVIOUS
    <2>0. listeners \in Seq(Entries)
      BY DEF Inv, Base, SignalTyped
    <2>1. \A c \in Calls : stage[c] = "done" => due[c] \subseteq heard[c]
      BY DEF Inv, Heard
    <2>2. ASSUME NEW e \in Entries, reg[e] = "gone" PROVE ~In(listeners, e)
      BY <2>2 DEF Inv, Synced, Registered
    <2>3. ASSUME NEW e \in Entries, reg[e] = "gone" PROVE e \notin Range(listeners)
      BY <2>0, <2>2, <2>3 DEF Range, In
    <2>4. ASSUME NEW e \in Entries, reg[e] = "gone", NEW t \in Threads, pc[t] = "handler"
          PROVE  listeners[at[t]] # e
      <3>1. at[t] \in 1 .. Len(listeners)
        BY <2>4 DEF Inv, Heard, Hears
      <3> QED BY <2>2, <2>4, <3>1 DEF In
    <2> QED BY <2>1, <2>3, <2>4 DEF HeardExactly, At
  <1> QED BY InitCalls, NextCalls, <1>1, PTL DEF Spec
=============================================================================
