-------------------------- MODULE AutoSignalProofs --------------------------
(***************************************************************************)
(* For any number of threads, listeners and calls, and any programs:       *)
(*                                                                         *)
(* - m_state is a lock (Exclusive).  The invariant is inductive with the   *)
(*   types of the two variables it is about.  Every action is one of six   *)
(*   kinds of step on them, each of which keeps it;                        *)
(* - the signal is well typed (TypeOK), and its listeners are sound        *)
(*   (ListenersSound).  Both need to know where every request is: which    *)
(*   thread owns it, whether it still waits and behind which others, and   *)
(*   what has become of the listener it is about (Base and Synced).        *)
(***************************************************************************)
EXTENDS AutoSignal, SequenceTheorems, TLAPS

-----------------------------------------------------------------------------
(* The lock *)

Updating  == {"update", "publish"}
Asserting == {"call", "handler", "fn", "locked", "leave", "release", "drain"}
Outside   == Points \ (Updating \cup Asserting)

\* What the steps of a thread do to m_state and to its program point.
Moves(t, S, l) == pc[t] \in S /\ pc' = [pc EXCEPT ![t] = l]

StaysOut(t)  == m_state' = m_state /\ \E l \in Outside : Moves(t, Outside, l)
PassesOn(t)  == /\ m_state \in {"Asserting", "Deferred"} /\ m_state' = "Deferred"
                /\ \E l \in Outside : Moves(t, Outside, l)
Updates(t)   == m_state = "Free" /\ m_state' = "Updating" /\ \E l \in Updating : Moves(t, Outside, l)
Asserts(t)   == m_state = "Free" /\ m_state' = "Asserting" /\ \E l \in Asserting : Moves(t, Outside, l)
StaysIn(t)   == \/ m_state' = m_state /\ \E l \in Updating : Moves(t, Updating, l)
                \/ /\ m_state' = m_state \/ m_state' \in {"Asserting", "Deferred"}
                   /\ \E l \in Asserting : Moves(t, Asserting, l)
GivesUp(t)   == m_state' = "Free" /\ \E l \in Outside : Moves(t, Updating \cup Asserting, l)

LockStep(t) ==
    StaysOut(t) \/ PassesOn(t) \/ Updates(t) \/ Asserts(t) \/ StaysIn(t) \/ GivesUp(t)

PointsTyped == pc \in [Threads -> Points] /\ m_state \in States

\* The inductive invariant.
LockInv == PointsTyped /\ Exclusive

LEMMA InitLock == Init => LockInv
  BY DEF Init, LockInv, PointsTyped, Exclusive, Updaters, Asserters, Points, States

\* Every step of the signal is one of the six.
LEMMA NextIsLockStep ==
  ASSUME NEW t \in Threads, PointsTyped, Request(t) \/ Continue(t) \/ Nested(t)
  PROVE  LockStep(t)
  <1> USE DEF LockStep, Moves, Updating, Asserting, Outside, Points, PointsTyped, At, Goto,
              signalVars, Calling
  <1>1. CASE EnterLink(t) \/ EnterUnlink(t) \/ EnterCall(t)
    BY <1>1 DEF EnterLink, EnterUnlink, EnterCall, StaysOut
  <1>2. CASE TryLock(t)
    BY <1>2 DEF TryLock, MayAssert, Asserts
  <1>3. CASE TryUpdate(t)
    BY <1>3 DEF TryUpdate, StaysOut, Updates
  <1>4. CASE Push(t)
    BY <1>4 DEF Push, StaysOut
  <1>5. CASE Defer(t)
    BY <1>5 DEF Defer, PassesOn
  <1>6. CASE TakeOver(t)
    BY <1>6 DEF TakeOver, Updates
  <1>7. CASE Update(t)
    BY <1>7 DEF Update, StaysIn
  <1>8. CASE Publish(t)
    BY <1>8 DEF Publish, GivesUp
  <1>9. CASE TryEnter(t)
    BY <1>9 DEF TryEnter, MayAssert, Begin, Asserts, StaysOut
  <1>10. CASE HandoffLate(t)
    BY <1>10 DEF HandoffLate, Asserts
  <1>11. CASE Unlock(t)
    BY <1>11 DEF Unlock, StaysIn
  <1>12. CASE SignalNext(t) \/ HandlerEnds(t) \/ FunctionEnds(t)
    BY <1>12 DEF SignalNext, HandlerEnds, FunctionEnds, Ended, StaysIn
  <1>13. CASE Leave(t)
    BY <1>13 DEF Leave, MayLeave, StaysIn, GivesUp
  <1>14. CASE Release(t)
    BY <1>14 DEF Release, StaysIn
  <1>15. CASE Drain(t)
    BY <1>15 DEF Drain, Begin, StaysIn
  <1>16. CASE Nested(t)
    <2>1. m_state' = "Deferred" /\ pc' = pc /\ pc[t] \in Asserting
      BY <1>16 DEF Nested, Defers
    <2>2. pc' = [pc EXCEPT ![t] = pc[t]]
      BY <2>1
    <2> QED BY <2>1, <2>2 DEF StaysIn
  <1> QED
    BY <1>1, <1>2, <1>3, <1>4, <1>5, <1>6, <1>7, <1>8, <1>9, <1>10, <1>11, <1>12, <1>13,
       <1>14, <1>15, <1>16 DEF Request, Continue

LEMMA LockStepKeepsLock ==
  ASSUME NEW t \in Threads, LockInv, LockStep(t)
  PROVE  LockInv'
  <1> USE DEF LockInv, PointsTyped, Exclusive, Updaters, Asserters, Moves, Updating, Asserting,
              Outside, Points, States
  <1>1. CASE StaysOut(t) BY <1>1 DEF StaysOut
  <1>2. CASE PassesOn(t) BY <1>2 DEF PassesOn
  <1>3. CASE Updates(t)  BY <1>3 DEF Updates
  <1>4. CASE Asserts(t)  BY <1>4 DEF Asserts
  <1>5. CASE StaysIn(t)  BY <1>5 DEF StaysIn
  <1>6. CASE GivesUp(t)  BY <1>6 DEF GivesUp
  <1> QED BY <1>1, <1>2, <1>3, <1>4, <1>5, <1>6 DEF LockStep

\* m_state is a lock.
THEOREM ExclusiveAlways == Spec => []Exclusive
  <1>1. LockInv /\ [Next]_vars => LockInv'
    <2> SUFFICES ASSUME LockInv, [Next]_vars PROVE LockInv'
      OBVIOUS
    <2>1. CASE Next
      <3> PICK t \in Threads : Request(t) \/ Continue(t) \/ Nested(t)
        BY <2>1 DEF Next
      <3>1. PointsTyped BY DEF LockInv
      <3>2. LockStep(t) BY <3>1, NextIsLockStep
      <3> QED BY <3>2, LockStepKeepsLock
    <2>2. CASE UNCHANGED vars
      BY <2>2 DEF vars, signalVars, LockInv, PointsTyped, Exclusive, Updaters, Asserters
    <2> QED BY <2>1, <2>2
  <1>2. LockInv => Exclusive BY DEF LockInv
  <1> QED BY InitLock, <1>1, <1>2, PTL DEF Spec

-----------------------------------------------------------------------------
(* The invariant *)

\* Membership and order in a sequence.
In(s, v)        == \E i \in 1 .. Len(s) : s[i] = v
Before(s, u, v) == \E i, j \in 1 .. Len(s) : i < j /\ s[i] = u /\ s[j] = v

Link(e)   == Do("link", e)
Unlink(e) == Do("unlink", e)
Call(c)   == Do("signal", c)
Invoke(c) == Do("invoke", c)

\* The callable w waits to be run; u waits behind v or runs before it.
Chained(w)     == \E t \in Threads : In(chain[t], w)
Waits(w)       == In(delayedCalls, w) \/ Chained(w)
Precedes(u, v) == \/ Before(delayedCalls, v, u)
                  \/ \E t \in Threads : Before(chain[t], u, v)
                  \/ Chained(u) /\ In(delayedCalls, v)

\* What a thread deals with where.
Role(t) ==
    /\ pc[t] \in {"idle", "locked"} => task[t] = None
    /\ pc[t] \in {"try", "update", "publish"}
         => task[t] # None /\ task[t].kind \in {"link", "unlink"}
    /\ pc[t] \in {"push", "defer"} => task[t] # None /\ task[t].kind # "dead"
    /\ pc[t] = "enter" => task[t] # None
    /\ pc[t] \in {"enter", "call", "handler", "fn", "leave", "release", "drain"}
         => task[t] = None \/ task[t].kind \in {"signal", "invoke"}
    /\ id[t] # 0 => pc[t] \in {"defer", "update", "publish"}
    /\ pc[t] = "defer" => id[t] # 0
    /\ id[t] <= chainID
    /\ chain[t] # << >> => pc[t] \in {"call", "handler", "fn", "drain"}
    /\ pc[t] \in {"call", "handler"}
         => Running(t) \in Callables /\ Running(t).kind = "signal" /\ at[t] # 0
    /\ pc[t] = "fn" => Running(t) \in Callables /\ Running(t).kind = "invoke"

Roles == \A t \in Threads : Role(t)

\* A request that was not handed over has one thread that deals with it.
Owners ==
    /\ \A t \in Threads, e \in Entries : task[t] = Link(e) => reg[e] = "linking"
    /\ \A t \in Threads, e \in Entries : task[t] = Unlink(e) => reg[e] = "unlinking"
    /\ \A t, u \in Threads : task[t] = task[u] /\ task[t] # None => t = u
    /\ \A c \in Calls : stage[c] = "new"
         => /\ ~Waits(Call(c)) /\ ~Waits(Invoke(c))
            /\ \A t \in Threads : task[t] \notin {Call(c), Invoke(c)}

\* A request waits once, and no deletion of a listener waits before its insertion.
Queued ==
    /\ \A w \in Callables : w.kind # "dead" => ~Precedes(w, w)
    /\ \A e \in Entries : ~Precedes(Unlink(e), Link(e))

\* Where requests are in their life.
Unpushed(t) == pc[t] \in {"try", "push", "enter"} \/ (pc[t] = "update" /\ id[t] = 0)

Handed ==
    /\ \A t \in Threads : Unpushed(t) => ~Waits(task[t])
    /\ \A t \in Threads : pc[t] \in {"defer", "update"} /\ id[t] = chainID
                          => In(delayedCalls, task[t])
    /\ \A t \in Threads : /\ task[t] # None /\ task[t].kind \in {"link", "unlink"}
                          /\ In(delayedCalls, task[t])
                          => pc[t] \in {"defer", "update"} /\ id[t] = chainID
    /\ \A t \in Threads : pc[t] = "publish" => ~Waits(task[t])

\* What is on the list is some thread's that will not leave it there, or will be seen.
Seen(w) == \/ \E t \in Threads : pc[t] \in {"defer", "update"} /\ task[t] = w
           \/ m_state = "Deferred"
           \/ \E t \in Threads : pc[t] = "release"

LinksSeen == \A w \in Callables : w.kind \in {"link", "unlink"} /\ In(delayedCalls, w) => Seen(w)

\* What was linked and deleted, and what will be.
Registered ==
    /\ \A e \in Entries : ~Before(listeners, e, e)
    /\ \A e \in Entries : Waits(Link(e)) => reg[e] # "new" /\ ~In(listeners, e) /\ e \notin freed
    /\ \A e \in Entries : Waits(Unlink(e)) => reg[e] \in {"unlinking", "left"} /\ e \notin freed
    /\ \A e \in Entries : e \in freed => ~In(listeners, e) /\ reg[e] \in {"unlinking", "left", "gone"}
    /\ \A e \in Entries : reg[e] = "new" => ~In(listeners, e)
    /\ \A t \in Threads, e \in Entries : task[t] = Link(e) /\ Unpushed(t) => ~In(listeners, e)
    /\ \A t \in Threads, e \in Entries : task[t] = Unlink(e) /\ Unpushed(t) => e \notin freed
    /\ \A t \in Threads, e \in Entries : task[t] = Link(e) /\ ~Unpushed(t)
                                         => Waits(Link(e)) \/ In(listeners, e)
    /\ \A t \in Threads, e \in Entries : task[t] = Unlink(e) /\ ~Unpushed(t)
                                         => Waits(Unlink(e)) \/ e \in freed
    /\ \A e \in Entries : reg[e] = "held" => Waits(Link(e)) \/ In(listeners, e)
    /\ \A e \in Entries : reg[e] = "gone" => e \in freed
-----------------------------------------------------------------------------
(* Sequences *)

LEMMA InEmpty == \A u, v : ~In(<< >>, v) /\ ~Before(<< >>, u, v)
  BY DEF In, Before

LEMMA InCons ==
  ASSUME NEW S, NEW s \in Seq(S), NEW w \in S
  PROVE  /\ << w >> \o s \in Seq(S) /\ << w >> \o s # << >>
         /\ \A v : In(<< w >> \o s, v) <=> v = w \/ In(s, v)
         /\ \A u, v : Before(<< w >> \o s, u, v) <=> Before(s, u, v) \/ (u = w /\ In(s, v))
  <1> DEFINE r == << w >> \o s
  <1>1. /\ r \in Seq(S) /\ Len(r) = Len(s) + 1 /\ Len(s) \in Nat /\ r[1] = w
        /\ \A i \in 1 .. Len(s) : r[i + 1] = s[i]
    OBVIOUS
  <1> HIDE DEF r
  <1>2. \A i \in 1 .. Len(r) : i = 1 \/ (i - 1 \in 1 .. Len(s) /\ r[i] = s[i - 1])
    BY <1>1
  <1>3. r # << >>
    BY <1>1
  <1>4. \A v : In(r, v) <=> v = w \/ In(s, v)
    <2> TAKE v
    <2>1. In(r, v) => v = w \/ In(s, v)
      BY <1>1, <1>2 DEF In
    <2>2. v = w \/ In(s, v) => In(r, v)
      BY <1>1 DEF In
    <2> QED BY <2>1, <2>2
  <1>5. ASSUME NEW u, NEW v
        PROVE  Before(r, u, v) <=> Before(s, u, v) \/ (u = w /\ In(s, v))
    <2>1. ASSUME Before(r, u, v) PROVE Before(s, u, v) \/ (u = w /\ In(s, v))
      <3>1. PICK i \in 1 .. Len(r), j \in 1 .. Len(r) : i < j /\ r[i] = u /\ r[j] = v
        BY <2>1 DEF Before
      <3>2. j - 1 \in 1 .. Len(s) /\ s[j - 1] = v
        BY <1>1, <1>2, <3>1
      <3>3. CASE i = 1
        BY <1>1, <3>1, <3>2, <3>3 DEF In
      <3>4. CASE i # 1
        <4>1. i - 1 \in 1 .. Len(s) /\ s[i - 1] = u /\ i - 1 < j - 1
          BY <1>1, <1>2, <3>1, <3>4
        <4> QED BY <3>2, <4>1 DEF Before
      <3> QED BY <3>3, <3>4
    <2>2. ASSUME Before(s, u, v) PROVE Before(r, u, v)
      <3>1. PICK i \in 1 .. Len(s), j \in 1 .. Len(s) : i < j /\ s[i] = u /\ s[j] = v
        BY <2>2 DEF Before
      <3>2. i + 1 \in 1 .. Len(r) /\ j + 1 \in 1 .. Len(r) /\ i + 1 < j + 1
            /\ r[i + 1] = u /\ r[j + 1] = v
        BY <1>1, <3>1
      <3> QED BY <3>2 DEF Before
    <2>3. ASSUME u = w, In(s, v) PROVE Before(r, u, v)
      <3>1. PICK j \in 1 .. Len(s) : s[j] = v
        BY <2>3 DEF In
      <3>2. 1 \in 1 .. Len(r) /\ j + 1 \in 1 .. Len(r) /\ 1 < j + 1 /\ r[1] = u /\ r[j + 1] = v
        BY <1>1, <2>3, <3>1
      <3> QED BY <3>2 DEF Before
    <2> QED BY <2>1, <2>2, <2>3
  <1> QED BY <1>1, <1>3, <1>4, <1>5 DEF r

\* A sequence is its head in front of its tail.
LEMMA InTail ==
  ASSUME NEW S, NEW s \in Seq(S), s # << >>
  PROVE  /\ Head(s) \in S /\ Tail(s) \in Seq(S)
         /\ \A v : In(s, v) <=> v = Head(s) \/ In(Tail(s), v)
         /\ \A u, v : Before(s, u, v) <=> Before(Tail(s), u, v) \/ (u = Head(s) /\ In(Tail(s), v))
  <1> DEFINE h == Head(s)
             r == Tail(s)
  <1>1. h \in S /\ r \in Seq(S)
    OBVIOUS
  <1>2. s = << h >> \o r
    OBVIOUS
  <1> HIDE DEF h, r
  <1>3. /\ \A v : In(<< h >> \o r, v) <=> v = h \/ In(r, v)
        /\ \A u, v : Before(<< h >> \o r, u, v) <=> Before(r, u, v) \/ (u = h /\ In(r, v))
    BY <1>1, InCons
  <1>4. /\ \A v : In(s, v) <=> v = h \/ In(r, v)
        /\ \A u, v : Before(s, u, v) <=> Before(r, u, v) \/ (u = h /\ In(r, v))
    BY <1>2, <1>3, Zenon
  <1> QED BY <1>1, <1>4 DEF h, r

LEMMA InReleased ==
  ASSUME NEW S, NEW s \in Seq(S)
  PROVE  /\ Released(s) \in Seq(S)
         /\ \A v : In(Released(s), v) <=> In(s, v)
         /\ \A u, v : Before(Released(s), u, v) <=> Before(s, v, u)
  <1> DEFINE r == Released(s)
  <1>1. /\ r \in Seq(S) /\ Len(r) = Len(s) /\ Len(s) \in Nat
        /\ \A i \in 1 .. Len(s) : r[i] = s[Len(s) + 1 - i]
    BY DEF Released
  <1> HIDE DEF r
  <1>2. \A i \in 1 .. Len(s) : s[i] = r[Len(s) + 1 - i] /\ Len(s) + 1 - i \in 1 .. Len(s)
    BY <1>1
  <1>3. ASSUME NEW v PROVE In(r, v) <=> In(s, v)
    <2>1. ASSUME NEW i \in 1 .. Len(r), r[i] = v PROVE In(s, v)
      BY <1>1, <1>2, <2>1 DEF In
    <2>2. ASSUME NEW i \in 1 .. Len(s), s[i] = v PROVE In(r, v)
      BY <1>1, <1>2, <2>2 DEF In
    <2> QED BY <2>1, <2>2 DEF In
  <1>4. ASSUME NEW u, NEW v PROVE Before(r, u, v) <=> Before(s, v, u)
    <2>1. ASSUME NEW i \in 1 .. Len(r), NEW j \in 1 .. Len(r), i < j, r[i] = u, r[j] = v
          PROVE  Before(s, v, u)
      <3>1. /\ Len(s) + 1 - i \in 1 .. Len(s) /\ Len(s) + 1 - j \in 1 .. Len(s)
            /\ Len(s) + 1 - j < Len(s) + 1 - i
            /\ s[Len(s) + 1 - j] = v /\ s[Len(s) + 1 - i] = u
        BY <1>1, <2>1
      <3> QED BY <3>1 DEF Before
    <2>2. ASSUME NEW i \in 1 .. Len(s), NEW j \in 1 .. Len(s), i < j, s[i] = v, s[j] = u
          PROVE  Before(r, u, v)
      <3>1. /\ Len(s) + 1 - i \in 1 .. Len(r) /\ Len(s) + 1 - j \in 1 .. Len(r)
            /\ Len(s) + 1 - j < Len(s) + 1 - i
            /\ r[Len(s) + 1 - j] = u /\ r[Len(s) + 1 - i] = v
        BY <1>1, <1>2, <2>2
      <3> QED BY <3>1 DEF Before
    <2> QED BY <2>1, <2>2 DEF Before
  <1> QED BY <1>1, <1>3, <1>4 DEF r

\* Taking w back leaves the other requests where they are.
LEMMA InTakenBack ==
  ASSUME NEW s \in Seq(Callables), NEW w \in Callables, w.kind \in {"link", "unlink"}
  PROVE  /\ TakenBack(s, w) \in Seq(Callables)
         /\ \A v : v.kind # "dead" => (In(TakenBack(s, w), v) <=> In(s, v) /\ v # w)
         /\ \A u, v : u.kind # "dead" /\ v.kind # "dead"
                      => (Before(TakenBack(s, w), u, v) <=> Before(s, u, v) /\ u # w /\ v # w)
  <1> DEFINE r == TakenBack(s, w)
             d == Do("dead", w.of)
  <1>1. w.of \in Entries
    BY DEF Callables
  <1>2. d \in Callables /\ d.kind = "dead"
    BY <1>1 DEF Do, Callables
  <1>3. Len(s) \in Nat /\ s \in [1 .. Len(s) -> Callables]
    OBVIOUS
  <1>4. /\ r \in Seq(Callables) /\ Len(r) = Len(s)
        /\ \A i \in 1 .. Len(s) : r[i] = IF s[i] = w THEN d ELSE s[i]
    BY <1>2, <1>3 DEF TakenBack
  <1> HIDE DEF r, d
  <1>5. ASSUME NEW v, v.kind # "dead"
        PROVE  \A i \in 1 .. Len(s) : r[i] = v <=> s[i] = v /\ v # w
    BY <1>2, <1>4, <1>5
  <1>6. ASSUME NEW v, v.kind # "dead"
        PROVE  In(r, v) <=> In(s, v) /\ v # w
    BY <1>4, <1>5, <1>6 DEF In
  <1>7. ASSUME NEW u, NEW v, u.kind # "dead", v.kind # "dead"
        PROVE  Before(r, u, v) <=> Before(s, u, v) /\ u # w /\ v # w
    <2>1. \A i \in 1 .. Len(s) : /\ r[i] = u <=> s[i] = u /\ u # w
                                 /\ r[i] = v <=> s[i] = v /\ v # w
      BY <1>5, <1>7
    <2> QED BY <1>4, <2>1 DEF Before
  <1> QED BY <1>4, <1>6, <1>7 DEF r

LEMMA InAppend ==
  ASSUME NEW S, NEW s \in Seq(S), NEW e \in S
  PROVE  /\ Append(s, e) \in Seq(S)
         /\ \A v : In(Append(s, e), v) <=> v = e \/ In(s, v)
         /\ \A v : Before(Append(s, e), v, v) => Before(s, v, v) \/ (v = e /\ In(s, e))
  <1> DEFINE r == Append(s, e)
  <1>1. /\ r \in Seq(S) /\ Len(r) = Len(s) + 1 /\ Len(s) \in Nat /\ r[Len(s) + 1] = e
        /\ \A i \in 1 .. Len(s) : r[i] = s[i]
    OBVIOUS
  <1> HIDE DEF r
  <1>2. \A v : In(r, v) <=> v = e \/ In(s, v)
    BY <1>1 DEF In
  <1>3. ASSUME NEW v, Before(r, v, v) PROVE Before(s, v, v) \/ (v = e /\ In(s, e))
    BY <1>1, <1>3 DEF In, Before
  <1> QED BY <1>1, <1>2, <1>3 DEF r

\* Without takes one occurrence out.
LEMMA InWithout ==
  ASSUME NEW S, NEW s \in Seq(S), NEW e, ~Before(s, e, e)
  PROVE  /\ Without(s, e) \in Seq(S)
         /\ \A v : In(Without(s, e), v) <=> In(s, v) /\ v # e
         /\ \A v : Before(Without(s, e), v, v) => Before(s, v, v)
  <1>1. CASE ~In(s, e)
    <2>1. Without(s, e) = s
      BY <1>1 DEF Without, In
    <2> QED BY <1>1, <2>1
  <1>2. CASE In(s, e)
    <2> DEFINE p == CHOOSE i \in 1 .. Len(s) : s[i] = e
               r == [j \in 1 .. Len(s) - 1 |-> IF j < p THEN s[j] ELSE s[j + 1]]
    <2>1. p \in 1 .. Len(s) /\ s[p] = e
      BY <1>2 DEF In
    <2>2. Without(s, e) = r
      BY <1>2 DEF Without, In
    <2> HIDE DEF p
    <2>3. Len(s) \in Nat /\ Len(s) - 1 \in Nat /\ s \in [1 .. Len(s) -> S]
      BY <2>1
    <2>4. /\ r \in Seq(S) /\ Len(r) = Len(s) - 1
          /\ \A j \in 1 .. Len(r) : r[j] = IF j < p THEN s[j] ELSE s[j + 1]
      BY <2>1, <2>3
    <2>5. \A i \in 1 .. Len(s) : s[i] = e => i = p
      BY <2>1 DEF Before
    <2> HIDE DEF r
    <2>6. ASSUME NEW v PROVE In(r, v) <=> In(s, v) /\ v # e
      <3>1. ASSUME NEW j \in 1 .. Len(r), r[j] = v PROVE In(s, v) /\ v # e
        BY <2>1, <2>3, <2>4, <2>5, <3>1 DEF In
      <3>2. ASSUME NEW i \in 1 .. Len(s), s[i] = v, v # e PROVE In(r, v)
        <4>1. CASE i < p
          BY <2>1, <2>3, <2>4, <3>2, <4>1 DEF In
        <4>2. CASE i > p
          <5>1. i - 1 \in 1 .. Len(r) /\ r[i - 1] = v
            BY <2>1, <2>3, <2>4, <3>2, <4>2
          <5> QED BY <5>1 DEF In
        <4>3. i # p BY <2>1, <3>2
        <4> QED BY <2>1, <4>1, <4>2, <4>3
      <3> QED BY <3>1, <3>2 DEF In
    <2>7. ASSUME NEW v, Before(r, v, v) PROVE Before(s, v, v)
      <3>1. PICK i \in 1 .. Len(r), j \in 1 .. Len(r) : i < j /\ r[i] = v /\ r[j] = v
        BY <2>7 DEF Before
      <3>2. PICK k \in 1 .. Len(s) : s[k] = v /\ k = (IF i < p THEN i ELSE i + 1)
        BY <2>1, <2>3, <2>4, <3>1
      <3>3. PICK m \in 1 .. Len(s) : s[m] = v /\ m = (IF j < p THEN j ELSE j + 1)
        BY <2>1, <2>3, <2>4, <3>1
      <3>4. k < m
        BY <2>1, <2>4, <3>1, <3>2, <3>3
      <3> QED BY <3>2, <3>3, <3>4 DEF Before
    <2> QED BY <2>2, <2>4, <2>6, <2>7
  <1> QED BY <1>1, <1>2

-----------------------------------------------------------------------------
(* Types and roles *)

LEMMA CallableFacts ==
  /\ \A k, x : Do(k, x).kind = k /\ Do(k, x).of = x
  /\ \A e \in Entries : {Do("link", e), Do("unlink", e), Do("dead", e)} \subseteq Callables
  /\ \A c \in Calls : {Do("signal", c), Do("invoke", c)} \subseteq Callables
  /\ \A w \in Callables :
       /\ w = Do(w.kind, w.of)
       /\ w.kind \in {"link", "unlink", "dead"} => w.of \in Entries
       /\ w.kind \in {"signal", "invoke"} => w.of \in Calls
       /\ w.kind \in {"link", "unlink", "dead", "signal", "invoke"}
  /\ None \notin Callables
  BY ProgramsAssumption DEF Do, Callables

Regs   == {"new", "linking", "held", "unlinking", "left", "gone"}
Stages == {"new", "called", "running", "done"}

\* TypeOK in three parts: the signal, the threads, the histories.
SignalTyped ==
    /\ m_state \in States
    /\ listeners \in Seq(Entries) /\ delayedCalls \in Seq(Callables)
    /\ chainID \in Nat \ {0} /\ freed \subseteq Entries
ThreadsTyped ==
    /\ pc \in [Threads -> Points]
    /\ task \in [Threads -> Callables \cup {None}]
    /\ id \in [Threads -> Nat]
    /\ chain \in [Threads -> Seq(Callables)]
    /\ at \in [Threads -> Nat]
    /\ calls \in Programs
HistoryTyped ==
    /\ reg \in [Entries -> Regs]
    /\ stage \in [Calls -> Stages]
    /\ returned \subseteq Calls
    /\ due \in [Calls -> SUBSET Entries] /\ heard \in [Calls -> SUBSET Entries]
    /\ before \in [Calls -> SUBSET Calls]
    /\ late \in BOOLEAN

LEMMA TypeOKParts == TypeOK <=> SignalTyped /\ ThreadsTyped /\ HistoryTyped
  BY DEF TypeOK, SignalTyped, ThreadsTyped, HistoryTyped, Regs, Stages

LEMMA InitTyped == Init => SignalTyped /\ ThreadsTyped /\ HistoryTyped
  <1> SUFFICES ASSUME Init PROVE SignalTyped /\ ThreadsTyped /\ HistoryTyped
    OBVIOUS
  <1>1. << >> \in Seq(Entries) /\ << >> \in Seq(Callables)
    BY EmptySeq
  <1>2. SignalTyped
    BY <1>1 DEF Init, SignalTyped, States
  <1>3. ThreadsTyped
    BY <1>1 DEF Init, ThreadsTyped, Points
  <1>4. HistoryTyped
    BY DEF Init, HistoryTyped, Regs, Stages
  <1> QED BY <1>2, <1>3, <1>4

\* A request, and what can be left for later.
LEMMA HistoryStep ==
  ASSUME SignalTyped, ThreadsTyped, HistoryTyped, Roles,
         NEW t \in Threads, Request(t) \/ Continue(t) \/ Nested(t)
  PROVE  HistoryTyped'
  <1> USE DEF HistoryTyped, Regs, Stages, historyVars
  <1>1. CASE EnterLink(t) BY <1>1 DEF EnterLink
  <1>2. CASE EnterUnlink(t) BY <1>2 DEF EnterUnlink, DueWithout
  <1>3. CASE EnterCall(t)
    <2>1. PICK c \in Calls, k \in {"signal", "invoke"} :
            /\ stage' = [stage EXCEPT ![c] = "called"]
            /\ due' = IF k = "signal" THEN Due(c) ELSE due
            /\ before' = [before EXCEPT ![c] = returned]
      BY <1>3 DEF EnterCall
    <2>2. due' \in [Calls -> SUBSET Entries]
      BY <2>1 DEF Due
    <2> QED BY <1>3, <2>1, <2>2 DEF EnterCall
  <1>4. CASE Defer(t) \/ Publish(t)
    <2>1. task[t] \in Callables
      <3>1. pc[t] \in {"defer", "publish"}
        BY <1>4 DEF Defer, Publish, At
      <3> QED BY <3>1 DEF ThreadsTyped, Roles, Role
    <2>2. PICK b \in BOOLEAN : Return(t, task[t], b)
      BY <1>4 DEF Defer, Publish
    <2>3. reg' \in [Entries -> Regs] /\ returned' \subseteq Calls
      BY <2>1, <2>2, CallableFacts DEF Return
    <2> QED BY <1>4, <2>3 DEF Defer, Publish
  <1>5. CASE TryLock(t) \/ TryUpdate(t) \/ Push(t) \/ TakeOver(t) \/ Update(t) \/ Unlock(t) \/ Release(t)
    BY <1>5 DEF TryLock, TryUpdate, Push, TakeOver, Update, Unlock, Release
  <1>6. CASE TryEnter(t)
    <2>1. task[t] \in Callables /\ task[t].of \in Calls
      BY <1>6, CallableFacts DEF TryEnter, At, ThreadsTyped, Roles, Role
    <2> QED BY <1>6, <2>1 DEF TryEnter, Begin
  <1>7. CASE HandoffLate(t) BY <1>7 DEF HandoffLate
  <1>8. CASE SignalNext(t) \/ HandlerEnds(t) \/ FunctionEnds(t)
    <2>1. Running(t).of \in Calls
      BY <1>8, CallableFacts DEF SignalNext, HandlerEnds, FunctionEnds, At, Roles, Role
    <2> DEFINE c == Running(t).of
    <2>2. stage' = stage \/ stage' = [stage EXCEPT ![c] = "done"]
      BY <1>8 DEF SignalNext, HandlerEnds, FunctionEnds
    <2>3. heard' \in [Calls -> SUBSET Entries]
      <3>1. CASE SignalNext(t) /\ at[t] <= Len(listeners)
        <4>1. at[t] \in 1 .. Len(listeners)
          BY <3>1 DEF SignalNext, At, Roles, Role, ThreadsTyped, SignalTyped
        <4>2. listeners[at[t]] \in Entries
          BY <4>1 DEF SignalTyped
        <4>3. heard' = [heard EXCEPT ![c] = @ \cup {listeners[at[t]]}]
          BY <3>1, <4>1 DEF SignalNext
        <4> QED BY <2>1, <4>2, <4>3
      <3>2. CASE ~(SignalNext(t) /\ at[t] <= Len(listeners))
        BY <1>8, <3>2 DEF SignalNext, HandlerEnds, FunctionEnds
      <3> QED BY <3>1, <3>2
    <2>4. due' = due \/ due' = [due EXCEPT ![c] = @ \cap heard[c]]
      BY <1>8 DEF SignalNext, HandlerEnds, FunctionEnds
    <2>5. UNCHANGED << reg, returned, before, late >>
      BY <1>8 DEF SignalNext, HandlerEnds, FunctionEnds
    <2> HIDE DEF c
    <2> QED BY <2>1, <2>2, <2>3, <2>4, <2>5
  <1>9. CASE Leave(t)
    <2>1. task[t] # None => task[t].of \in Calls
      BY <1>9, CallableFacts DEF Leave, At, ThreadsTyped, Roles, Role
    <2> QED BY <1>9, <2>1 DEF Leave
  <1>10. CASE Drain(t)
    <2>1. chain[t] # << >> => Head(chain[t]) \in Callables
      BY InTail DEF ThreadsTyped
    <2> QED BY <1>10, <2>1, CallableFacts DEF Drain, Begin
  <1>11. CASE Nested(t)
    <2>1. UNCHANGED << heard, late >>
      BY <1>11 DEF Nested, Defers
    <2>2. reg' \in [Entries -> Regs]
      BY <1>11 DEF Nested
    <2>3. stage' \in [Calls -> Stages] /\ returned' \subseteq Calls /\ before' \in [Calls -> SUBSET Calls]
      BY <1>11 DEF Nested
    <2>4. due' \in [Calls -> SUBSET Entries]
      BY <1>11 DEF Nested, DueWithout, Due
    <2> QED BY <2>1, <2>2, <2>3, <2>4
  <1> QED BY <1>1, <1>2, <1>3, <1>4, <1>5, <1>6, <1>7, <1>8, <1>9, <1>10, <1>11
          DEF Request, Continue

LEMMA SignalStep ==
  ASSUME SignalTyped, ThreadsTyped, Roles, Registered,
         NEW t \in Threads, Request(t) \/ Continue(t) \/ Nested(t)
  PROVE  SignalTyped'
  <1> USE DEF SignalTyped, States, signalVars
  <1>0. << >> \in Seq(Callables)
    BY EmptySeq
  <1>1. CASE EnterLink(t) \/ EnterUnlink(t) \/ EnterCall(t) \/ TryLock(t)
    BY <1>1 DEF EnterLink, EnterUnlink, EnterCall, TryLock
  <1>2. CASE TryUpdate(t) \/ Defer(t) \/ TakeOver(t) \/ Publish(t)
    BY <1>2 DEF TryUpdate, Defer, TakeOver, Publish
  <1>3. CASE TryEnter(t) \/ HandoffLate(t) \/ Unlock(t) \/ Leave(t)
    BY <1>3 DEF TryEnter, HandoffLate, Unlock, Leave
  <1>4. CASE SignalNext(t) \/ HandlerEnds(t) \/ FunctionEnds(t)
    BY <1>4 DEF SignalNext, HandlerEnds, FunctionEnds
  <1>5. CASE Release(t) BY <1>0, <1>5 DEF Release
  <1>6. CASE Push(t)
    <2>1. pc[t] = "push"
      BY <1>6 DEF Push, At
    <2>2. task[t] \in Callables
      BY <2>1 DEF ThreadsTyped, Roles, Role
    <2> QED BY <1>6, <2>2, InCons DEF Push
  <1>7. CASE Update(t)
    <2>1. pc[t] = "update"
      BY <1>7 DEF Update, At
    <2>2. task[t] \in Callables /\ task[t].kind \in {"link", "unlink"}
      BY <2>1 DEF ThreadsTyped, Roles, Role
    <2>3. task[t].of \in Entries
      BY <2>2, CallableFacts
    <2>4. TakenBack(delayedCalls, task[t]) \in Seq(Callables)
      BY <2>2, InTakenBack
    <2>5. Linked(listeners, task[t]) \in Seq(Entries)
      BY <2>2, <2>3, InAppend, InWithout DEF Registered, Linked
    <2> QED BY <1>7, <2>3, <2>4, <2>5 DEF Update
  <1>8. CASE Drain(t)
    <2>1. CASE chain[t] # << >> /\ Head(chain[t]).kind \in {"link", "unlink"}
      <3>1. Head(chain[t]) \in Callables
        BY <2>1, InTail DEF ThreadsTyped
      <3>2. Head(chain[t]).of \in Entries
        BY <2>1, <3>1, CallableFacts
      <3>3. Linked(listeners, Head(chain[t])) \in Seq(Entries)
        BY <2>1, <3>2, InAppend, InWithout DEF Registered, Linked
      <3> QED BY <1>8, <2>1, <3>2, <3>3 DEF Drain
    <2>2. CASE ~(chain[t] # << >> /\ Head(chain[t]).kind \in {"link", "unlink"})
      BY <1>8, <2>2 DEF Drain
    <2> QED BY <2>1, <2>2
  <1>9. CASE Nested(t)
    <2>1. PICK w \in Callables : Defers(t, w)
      BY <1>9, CallableFacts DEF Nested
    <2> QED BY <2>1, InCons DEF Defers
  <1> QED BY <1>1, <1>2, <1>3, <1>4, <1>5, <1>6, <1>7, <1>8, <1>9 DEF Request, Continue

\* The threads other than t are where they were.
Alone(t) ==
    \A u \in Threads \ {t} :
        /\ pc'[u] = pc[u] /\ task'[u] = task[u] /\ id'[u] = id[u]
        /\ chain'[u] = chain[u] /\ at'[u] = at[u]

LEMMA ThreadStep ==
  ASSUME SignalTyped, ThreadsTyped,
         NEW t \in Threads, Request(t) \/ Continue(t) \/ Nested(t)
  PROVE  ThreadsTyped' /\ Alone(t)
  <1> USE DEF ThreadsTyped, Alone, localVars, Goto, Points
  <1>1. CASE EnterLink(t) \/ EnterUnlink(t) \/ EnterCall(t)
    <2>1. PICK w \in Callables : task' = [task EXCEPT ![t] = w]
      BY <1>1, CallableFacts DEF EnterLink, EnterUnlink, EnterCall
    <2>2. PICK l \in {"try", "enter"} : pc' = [pc EXCEPT ![t] = l]
      BY <1>1 DEF EnterLink, EnterUnlink, EnterCall
    <2>3. UNCHANGED << id, chain, at, calls >>
      BY <1>1 DEF EnterLink, EnterUnlink, EnterCall
    <2> QED BY <2>1, <2>2, <2>3
  <1>15. CASE TryLock(t) BY <1>15 DEF TryLock
  <1>2. CASE TryUpdate(t) \/ TakeOver(t) \/ Unlock(t) \/ Update(t)
    BY <1>2 DEF TryUpdate, TakeOver, Unlock, Update
  <1>3. CASE Defer(t) \/ Publish(t)
    <2>1. /\ pc' = [pc EXCEPT ![t] = "idle"] /\ task' = [task EXCEPT ![t] = None]
          /\ id' = [id EXCEPT ![t] = 0] /\ UNCHANGED << chain, at, calls >>
      BY <1>3 DEF Defer, Publish
    <2> QED BY <2>1
  <1>16. CASE HandoffLate(t)
    BY <1>16 DEF HandoffLate
  <1>4. CASE Push(t) BY <1>4 DEF Push, SignalTyped
  <1>5. CASE TryEnter(t)
    <2>1. PICK l \in {"call", "fn", "push"} : pc' = [pc EXCEPT ![t] = l]
      BY <1>5 DEF TryEnter, Begin
    <2>2. at' = at \/ at' = [at EXCEPT ![t] = 1]
      BY <1>5 DEF TryEnter, Begin
    <2> QED BY <1>5, <2>1, <2>2 DEF TryEnter
  <1>6. CASE Leave(t) BY <1>6 DEF Leave
  <1>7. CASE Release(t) BY <1>7, InReleased DEF Release, SignalTyped
  <1>8. chain[t] # << >> => Tail(chain[t]) \in Seq(Callables)
    BY InTail
  <1>9. ASSUME Ended(t)
        PROVE  /\ pc' \in [Threads -> Points] /\ chain' \in [Threads -> Seq(Callables)]
               /\ \A u \in Threads \ {t} : pc'[u] = pc[u] /\ chain'[u] = chain[u]
    BY <1>8, <1>9 DEF Ended
  <1>10. CASE SignalNext(t) BY <1>9, <1>10 DEF SignalNext
  <1>11. CASE HandlerEnds(t)
    <2>1. CASE Ended(t) /\ at' = at
      BY <1>9, <1>11, <2>1 DEF HandlerEnds
    <2>2. CASE pc' = [pc EXCEPT ![t] = "call"] /\ chain' = chain /\ at' = [at EXCEPT ![t] = @ + 1]
      BY <1>11, <2>2 DEF HandlerEnds
    <2> QED BY <1>11, <2>1, <2>2 DEF HandlerEnds
  <1>12. CASE FunctionEnds(t) BY <1>9, <1>12 DEF FunctionEnds
  <1>13. CASE Drain(t)
    <2>1. pc' = pc \/ \E l \in {"leave", "call", "fn"} : pc' = [pc EXCEPT ![t] = l]
      BY <1>13 DEF Drain, Begin
    <2>2. at' = at \/ at' = [at EXCEPT ![t] = 1]
      BY <1>13 DEF Drain, Begin
    <2>3. chain' = chain \/ (chain[t] # << >> /\ chain' = [chain EXCEPT ![t] = Tail(@)])
      BY <1>13 DEF Drain, Begin
    <2>4. UNCHANGED << task, id, calls >>
      BY <1>13 DEF Drain
    <2>5. pc' \in [Threads -> Points] /\ \A u \in Threads \ {t} : pc'[u] = pc[u]
      BY <2>1
    <2>6. at' \in [Threads -> Nat] /\ \A u \in Threads \ {t} : at'[u] = at[u]
      <3>1. CASE at' = at BY <3>1
      <3>2. CASE at' = [at EXCEPT ![t] = 1] BY <3>2
      <3> QED BY <2>2, <3>1, <3>2
    <2>7. chain' \in [Threads -> Seq(Callables)] /\ \A u \in Threads \ {t} : chain'[u] = chain[u]
      BY <1>8, <2>3
    <2> QED BY <2>4, <2>5, <2>6, <2>7
  <1>14. CASE Nested(t) BY <1>14 DEF Nested, Defers
  <1> QED BY <1>1, <1>2, <1>3, <1>4, <1>5, <1>6, <1>7, <1>10, <1>11, <1>12, <1>13, <1>14,
             <1>15, <1>16 DEF Request, Continue

LEMMA InitRoles == Init => Roles
  BY CallableFacts DEF Init, Roles, Role

\* One thread plays its role and the others are where they were.
LEMMA RolesFromOne ==
  ASSUME Roles, ThreadsTyped, SignalTyped, NEW t \in Threads, Alone(t), Role(t)',
         chainID' \in Nat, chainID <= chainID'
  PROVE  Roles'
  <1> SUFFICES ASSUME NEW u \in Threads \ {t} PROVE Role(u)'
    BY DEF Roles
  <1>1. Role(u) /\ id[u] \in Nat /\ chainID \in Nat
    BY DEF Roles, ThreadsTyped, SignalTyped
  <1>2. Running(u)' = Running(u)
    BY DEF Alone, Running
  <1> QED BY <1>1, <1>2 DEF Role, Alone

LEMMA RolesStep ==
  ASSUME SignalTyped, ThreadsTyped, Roles,
         NEW t \in Threads, Request(t) \/ Continue(t) \/ Nested(t)
  PROVE  Roles'
  <1>1. Alone(t) /\ ThreadsTyped'
    BY ThreadStep
  <1>2. chainID' \in Nat /\ chainID <= chainID'
    <2>1. CASE Request(t)
      BY <2>1 DEF Request, EnterLink, EnterUnlink, EnterCall, TryLock, signalVars, SignalTyped
    <2>2. CASE Continue(t) /\ ~Release(t)
      <3>1. chainID' = chainID
        BY <2>2 DEF Continue, TryUpdate, Push, Defer, TakeOver, Update, Publish, TryEnter,
           HandoffLate, Unlock, SignalNext, HandlerEnds, FunctionEnds, Leave, Drain, signalVars
      <3> QED BY <3>1 DEF SignalTyped
    <2>3. CASE Release(t)
      BY <2>3 DEF Release, SignalTyped
    <2>4. CASE Nested(t)
      <3>1. chainID' = chainID
        BY <2>4 DEF Nested, Defers
      <3> QED BY <3>1 DEF SignalTyped
    <2> QED BY <2>1, <2>2, <2>3, <2>4
  <1>3. SUFFICES Role(t)'
    BY <1>1, <1>2, RolesFromOne
  <1>4. Role(t)
    BY DEF Roles
  <1> USE <1>4 DEF Role, ThreadsTyped, SignalTyped, At, Goto, signalVars, localVars, historyVars, Running, Calling
  <1>5. CASE EnterLink(t) BY <1>5, CallableFacts DEF EnterLink
  <1>6. CASE EnterUnlink(t) BY <1>6, CallableFacts DEF EnterUnlink
  <1>7. CASE EnterCall(t) BY <1>7, CallableFacts DEF EnterCall
  <1>8. CASE TryLock(t) BY <1>8 DEF TryLock
  <1>9. CASE TryUpdate(t) BY <1>9 DEF TryUpdate
  <1>10. CASE Push(t) BY <1>10 DEF Push
  <1>11. CASE Defer(t) BY <1>11 DEF Defer
  <1>12. CASE TakeOver(t) BY <1>12 DEF TakeOver
  <1>13. CASE Update(t) BY <1>13 DEF Update
  <1>14. CASE Publish(t) BY <1>14 DEF Publish
  <1>15. CASE TryEnter(t) BY <1>15 DEF TryEnter, Begin
  <1>16. CASE HandoffLate(t) BY <1>16 DEF HandoffLate
  <1>17. CASE Unlock(t) BY <1>17 DEF Unlock
  <1>18. CASE SignalNext(t) BY <1>18 DEF SignalNext, Ended
  <1>19. CASE HandlerEnds(t) BY <1>19 DEF HandlerEnds, Ended
  <1>20. CASE FunctionEnds(t) BY <1>20 DEF FunctionEnds, Ended
  <1>21. CASE Leave(t) BY <1>21 DEF Leave
  <1>22. CASE Release(t) BY <1>22 DEF Release
  <1>23. CASE Drain(t) BY <1>23, InTail, CallableFacts DEF Drain, Begin
  <1>24. CASE Nested(t) BY <1>24 DEF Nested, Defers
  <1> QED BY <1>5, <1>6, <1>7, <1>8, <1>9, <1>10, <1>11, <1>12, <1>13, <1>14, <1>15, <1>16, <1>17,
             <1>18, <1>19, <1>20, <1>21, <1>22, <1>23, <1>24 DEF Request, Continue

-----------------------------------------------------------------------------
(* Listeners *)

Base   == SignalTyped /\ ThreadsTyped /\ HistoryTyped /\ Roles /\ LockInv
Synced == Owners /\ Queued /\ Handed /\ LinksSeen /\ Registered

LEMMA LinkFacts ==
  /\ \A e \in Entries : /\ Link(e) \in Callables /\ Link(e).kind = "link" /\ Link(e).of = e
                        /\ Unlink(e) \in Callables /\ Unlink(e).kind = "unlink" /\ Unlink(e).of = e
  /\ \A w \in Callables : /\ w.kind = "link" => w = Link(w.of) /\ w.of \in Entries
                          /\ w.kind = "unlink" => w = Unlink(w.of) /\ w.of \in Entries
  /\ \A c \in Calls : /\ Call(c) \in Callables /\ Call(c).kind = "signal" /\ Call(c).of = c
                      /\ Invoke(c) \in Callables /\ Invoke(c).kind = "invoke" /\ Invoke(c).of = c
  /\ \A w \in Callables : /\ w.kind = "signal" => w = Call(w.of) /\ w.of \in Calls
                          /\ w.kind = "invoke" => w = Invoke(w.of) /\ w.of \in Calls
  /\ \A w \in Callables : w.kind \in {"link", "unlink", "dead", "signal", "invoke"}
  /\ None \notin Callables
  BY CallableFacts DEF Link, Unlink, Call, Invoke

\* Only the thread that asserts the signal has a chain.
LEMMA ChainOfOne ==
  ASSUME Base, NEW t \in Threads, pc[t] \in Updating \cup Asserting
  PROVE  /\ \A u \in Threads \ {t} : chain[u] = << >> /\ pc[u] \notin Updating \cup Asserting
         /\ \A w : Chained(w) <=> In(chain[t], w)
         /\ \A u, v : (\E x \in Threads : Before(chain[x], u, v)) <=> Before(chain[t], u, v)
  <1>1. \A u \in Threads \ {t} : pc[u] \notin Updating \cup Asserting
    BY DEF Base, LockInv, Exclusive, Updaters, Asserters, Updating, Asserting
  <1>2. \A u \in Threads \ {t} : chain[u] = << >>
    BY <1>1 DEF Base, Roles, Role, Asserting
  <1> QED BY <1>1, <1>2, InEmpty DEF Chained

LEMMA NoChains ==
  ASSUME Base, m_state \notin {"Asserting", "Deferred"}
  PROVE  /\ \A u \in Threads : chain[u] = << >> /\ pc[u] # "release"
         /\ \A w : ~Chained(w)
  <1>1. \A u \in Threads : pc[u] \notin Asserting
    BY DEF Base, LockInv, Exclusive, Asserters, Asserting
  <1>2. \A u \in Threads : chain[u] = << >>
    BY <1>1 DEF Base, Roles, Role, Asserting
  <1> QED BY <1>1, <1>2, InEmpty DEF Chained, Asserting

\* The step of a thread that leaves lists, listeners and owners alone, and keeps its
\* task, or has a call or nothing to deal with.
Moved(t) ==
    \/ /\ task'[t] = task[t] /\ id'[t] = id[t] /\ task[t].kind \in {"link", "unlink"}
       /\ \/ pc[t] = "try" /\ pc'[t] \in {"push", "update"}
          \/ pc[t] = "defer" /\ pc'[t] = "update"
    \/ /\ task[t] = None \/ task[t].kind \in {"signal", "invoke"}
       /\ task'[t] \in {None, task[t]}
       /\ pc'[t] \notin {"try", "defer", "update", "publish", "enter"}
       /\ pc'[t] = "push" => pc[t] = "enter" /\ task'[t] = task[t]

LEMMA QuietStep ==
  ASSUME Base, Synced, NEW t \in Threads, Alone(t), Moved(t), pc[t] # "release",
         m_state = "Deferred" => m_state' = "Deferred" \/ pc'[t] = "release",
         \A c \in Calls : stage'[c] = "new" => stage[c] = "new",
         UNCHANGED << delayedCalls, chain, listeners, freed, reg, chainID >>
  PROVE  Synced'
  <1>1. /\ \A w : Waits(w)' <=> Waits(w)
        /\ \A u, v : Precedes(u, v)' <=> Precedes(u, v)
    BY DEF Waits, Chained, Precedes
  <1>2. \A u \in Threads \ {t} : Unpushed(u)' <=> Unpushed(u)
    BY DEF Alone, Unpushed
  <1>3. /\ Unpushed(t)' => Unpushed(t)
        /\ task'[t] # None /\ task'[t].kind \in {"link", "unlink"} => (Unpushed(t)' <=> Unpushed(t))
    BY DEF Moved, Unpushed, Base, Roles, Role
  <1> USE LinkFacts DEF Synced
  <1>4. Owners'
    <2>1. \A c \in Calls : stage[c] = "new" => task'[t] \notin {Call(c), Invoke(c)}
      BY DEF Owners, Moved
    <2> QED BY <1>1, <2>1 DEF Owners, Alone, Moved
  <1>5. Queued'
    BY <1>1 DEF Queued
  <1>6. Handed'
    <2>1. \A u \in Threads \ {t} :
            /\ Unpushed(u) => ~Waits(task[u])
            /\ pc[u] \in {"defer", "update"} /\ id[u] = chainID => In(delayedCalls, task[u])
      BY DEF Handed
    <2>2. Unpushed(t)' => ~Waits(task[t]) /\ task'[t] = task[t]
      BY <1>3 DEF Handed, Moved, Unpushed
    <2>3. pc'[t] \in {"defer", "update"} /\ id'[t] = chainID => In(delayedCalls, task'[t])
      BY DEF Handed, Moved, Base, Roles, Role, SignalTyped
    <2>4. /\ task'[t] # None /\ task'[t].kind \in {"link", "unlink"} /\ In(delayedCalls, task'[t])
          => pc'[t] \in {"defer", "update"} /\ id'[t] = chainID
      BY DEF Handed, Moved, Waits, Unpushed
    <2>5. pc'[t] # "publish"
      BY DEF Moved
    <2> QED BY <1>1, <1>2, <2>1, <2>2, <2>3, <2>4, <2>5 DEF Handed, Alone
  <1>7. LinksSeen'
    BY DEF LinksSeen, Seen, Alone, Moved
  <1>8. Registered'
    BY <1>1, <1>2, <1>3 DEF Registered, Alone, Moved
  <1> QED BY <1>4, <1>5, <1>6, <1>7, <1>8

\* A request comes in.
LEMMA EnterStep ==
  ASSUME Base, Synced, NEW t \in Threads, EnterLink(t) \/ EnterUnlink(t) \/ EnterCall(t)
  PROVE  Synced'
  <1>1. Alone(t) /\ ThreadsTyped'
    BY ThreadStep DEF Base, Request
  <1>2. UNCHANGED << m_state, delayedCalls, chain, listeners, freed, chainID >>
    BY DEF EnterLink, EnterUnlink, EnterCall, signalVars
  <1>3. /\ \A w : Waits(w)' <=> Waits(w)
        /\ \A u, v : Precedes(u, v)' <=> Precedes(u, v)
    BY <1>2 DEF Waits, Chained, Precedes
  <1>4. /\ pc[t] = "idle" /\ pc'[t] \in {"try", "enter"}
        /\ task[t] = None /\ id[t] = 0 /\ id'[t] = 0
    BY DEF EnterLink, EnterUnlink, EnterCall, Goto, Calling, At, Base, ThreadsTyped, Roles, Role
  <1>5. (\A u \in Threads \ {t} : Unpushed(u)' <=> Unpushed(u)) /\ Unpushed(t)' /\ ~Unpushed(t)
    BY <1>1, <1>4 DEF Alone, Unpushed
  <1> USE LinkFacts
  <1>6. LinksSeen'
    BY <1>1, <1>2, <1>4 DEF Synced, LinksSeen, Seen, Alone
  <1>7. Queued'
    BY <1>3 DEF Synced, Queued
  <1>8. ASSUME ~Waits(task'[t]), task'[t] \in Callables PROVE Handed'
    <2>1. /\ pc'[t] \notin {"defer", "update", "publish"}
          /\ ~In(delayedCalls, task'[t])
      BY <1>4, <1>8 DEF Waits
    <2> QED BY <1>1, <1>2, <1>3, <1>5, <1>8, <2>1 DEF Synced, Handed, Alone
  <1>9. CASE EnterLink(t)
    <2>1. PICK e \in Entries : reg[e] = "new" /\ reg' = [reg EXCEPT ![e] = "linking"]
                              /\ task' = [task EXCEPT ![t] = Link(e)]
      BY <1>9 DEF EnterLink, Link
    <2>2. /\ task'[t] = Link(e) /\ reg'[e] = "linking" /\ stage' = stage
          /\ \A f \in Entries \ {e} : reg'[f] = reg[f]
      BY <1>9, <2>1 DEF EnterLink, Base, ThreadsTyped, HistoryTyped
    <2>3. ~Waits(Link(e)) /\ ~Waits(Unlink(e)) /\ e \notin freed /\ ~In(listeners, e)
      BY <2>1 DEF Synced, Registered
    <2>4. \A u \in Threads : task[u] # Link(e) /\ task[u] # Unlink(e)
      BY <2>1 DEF Synced, Owners
    <2>5. Owners'
      BY <1>1, <1>3, <2>2, <2>4 DEF Synced, Owners, Alone
    <2>6. Registered'
      BY <1>1, <1>2, <1>3, <1>5, <2>2, <2>3, <2>4 DEF Synced, Registered, Alone
    <2> QED BY <1>6, <1>7, <1>8, <2>2, <2>3, <2>5, <2>6 DEF Synced
  <1>10. CASE EnterUnlink(t)
    <2>1. PICK e \in Entries : reg[e] = "held" /\ reg' = [reg EXCEPT ![e] = "unlinking"]
                              /\ task' = [task EXCEPT ![t] = Unlink(e)]
      BY <1>10 DEF EnterUnlink, Unlink
    <2>2. /\ task'[t] = Unlink(e) /\ reg'[e] = "unlinking" /\ stage' = stage
          /\ \A f \in Entries \ {e} : reg'[f] = reg[f]
      BY <1>10, <2>1 DEF EnterUnlink, Base, ThreadsTyped, HistoryTyped
    <2>3. ~Waits(Unlink(e)) /\ e \notin freed
      BY <2>1 DEF Synced, Registered
    <2>4. \A u \in Threads : task[u] # Link(e) /\ task[u] # Unlink(e)
      BY <2>1 DEF Synced, Owners
    <2>5. Owners'
      BY <1>1, <1>3, <2>2, <2>4 DEF Synced, Owners, Alone
    <2>6. Registered'
      BY <1>1, <1>2, <1>3, <1>5, <2>1, <2>2, <2>3, <2>4 DEF Synced, Registered, Alone
    <2> QED BY <1>6, <1>7, <1>8, <2>2, <2>3, <2>5, <2>6 DEF Synced
  <1>11. CASE EnterCall(t)
    <2>0. PICK c \in Calls, k \in {"signal", "invoke"} :
            /\ stage[c] = "new" /\ stage' = [stage EXCEPT ![c] = "called"]
            /\ task' = [task EXCEPT ![t] = Do(k, c)]
      BY <1>11 DEF EnterCall
    <2>1. PICK w \in {Call(c), Invoke(c)} : task' = [task EXCEPT ![t] = w]
      BY <2>0 DEF Call, Invoke
    <2>2. /\ task'[t] = w /\ reg' = reg /\ stage'[c] = "called" /\ w \in Callables
          /\ w.kind \in {"signal", "invoke"} /\ w.of = c
          /\ \A d \in Calls \ {c} : stage'[d] = stage[d]
      BY <1>11, <2>0, <2>1 DEF EnterCall, Base, ThreadsTyped, HistoryTyped
    <2>3. ~Waits(w) /\ \A u \in Threads : task[u] # w
      BY <2>0, <2>1 DEF Synced, Owners
    <2>4. Owners'
      BY <1>1, <1>3, <2>2, <2>3 DEF Synced, Owners, Alone
    <2>5. Registered'
      BY <1>1, <1>2, <1>3, <1>5, <2>2 DEF Synced, Registered, Alone
    <2> QED BY <1>6, <1>7, <1>8, <2>2, <2>3, <2>4, <2>5 DEF Synced
  <1> QED BY <1>9, <1>10, <1>11

\* A request is pushed: it waits behind all others.
LEMMA PushOrder ==
  ASSUME delayedCalls \in Seq(Callables), NEW w \in Callables,
         delayedCalls' = << w >> \o delayedCalls, chain' = chain
  PROVE  /\ \A v : In(delayedCalls, v)' <=> v = w \/ In(delayedCalls, v)
         /\ \A v : Waits(v)' <=> v = w \/ Waits(v)
         /\ \A u, v : Precedes(u, v)' => Precedes(u, v) \/ (v = w /\ Waits(u))
  <1>1. /\ \A v : In(delayedCalls', v) <=> v = w \/ In(delayedCalls, v)
        /\ \A u, v : Before(delayedCalls', u, v)
                      <=> Before(delayedCalls, u, v) \/ (u = w /\ In(delayedCalls, v))
    BY InCons
  <1>2. \A v : Chained(v)' <=> Chained(v)
    BY DEF Chained
  <1> QED BY <1>1, <1>2 DEF Waits, Precedes

LEMMA PushStep ==
  ASSUME Base, Synced, NEW t \in Threads, Push(t)
  PROVE  Synced'
  <1> DEFINE w == task[t]
  <1>1. Alone(t) /\ ThreadsTyped'
    BY ThreadStep DEF Base, Continue
  <1>2. /\ pc[t] = "push" /\ pc'[t] = "defer" /\ task'[t] = w /\ id'[t] = chainID
        /\ w \in Callables /\ w.kind # "dead" /\ chainID # 0
        /\ UNCHANGED << m_state, chain, listeners, freed, chainID, reg, stage >>
    BY DEF Push, Goto, At, Base, ThreadsTyped, SignalTyped, Roles, Role, historyVars
  <1>3. /\ \A v : In(delayedCalls, v)' <=> v = w \/ In(delayedCalls, v)
        /\ \A v : Waits(v)' <=> v = w \/ Waits(v)
        /\ \A u, v : Precedes(u, v)' => Precedes(u, v) \/ (v = w /\ Waits(u))
    BY <1>2, PushOrder DEF Push, Base, SignalTyped
  <1>4. Unpushed(t) /\ ~Unpushed(t)' /\ \A u \in Threads \ {t} : Unpushed(u)' <=> Unpushed(u)
    BY <1>1, <1>2 DEF Alone, Unpushed
  <1>5. ~Waits(w)
    BY <1>4 DEF Synced, Handed
  <1>6. \A u \in Threads \ {t} : task[u] # w
    BY <1>2, LinkFacts DEF Synced, Owners
  <1> HIDE DEF w
  <1> USE LinkFacts
  <1>7. Owners'
    BY <1>1, <1>2, <1>3 DEF Synced, Owners, Alone, w
  <1>8. Queued'
    BY <1>2, <1>3, <1>5 DEF Synced, Queued, Owners, Registered, w
  <1>9. Handed'
    BY <1>1, <1>2, <1>3, <1>4, <1>6 DEF Synced, Handed, Alone
  <1>10. LinksSeen'
    BY <1>1, <1>2, <1>3 DEF Synced, LinksSeen, Seen, Alone
  <1>11. Registered'
    BY <1>1, <1>2, <1>3, <1>4, <1>5, <1>6 DEF Synced, Registered, Owners, Alone, w
  <1> QED BY <1>7, <1>8, <1>9, <1>10, <1>11 DEF Synced

\* A request is handed over or done: its thread returns.
LEMMA ReturnStep ==
  ASSUME Base, Synced, NEW t \in Threads, Defer(t) \/ Publish(t)
  PROVE  Synced'
  <1> DEFINE w == task[t]
  <1>1. Alone(t) /\ ThreadsTyped'
    BY ThreadStep DEF Base, Continue
  <1>2. pc[t] \in {"defer", "publish"} /\ w \in Callables /\ w.kind # "dead"
    <2>1. pc[t] \in {"defer", "publish"}
      BY DEF Defer, Publish, At
    <2> QED BY <2>1 DEF Base, ThreadsTyped, Roles, Role
  <1>3. /\ pc'[t] = "idle" /\ task'[t] = None /\ id'[t] = 0
        /\ UNCHANGED << delayedCalls, chain, listeners, freed, chainID, stage >>
    BY DEF Defer, Publish, Goto, Base, ThreadsTyped
  <1>4. /\ \A v : Waits(v)' <=> Waits(v)
        /\ \A u, v : Precedes(u, v)' <=> Precedes(u, v)
    BY <1>3 DEF Waits, Chained, Precedes
  <1>5. ~Unpushed(t) /\ ~Unpushed(t)' /\ \A u \in Threads \ {t} : Unpushed(u)' <=> Unpushed(u)
    BY <1>1, <1>2, <1>3 DEF Alone, Unpushed
  <1>6. \A u \in Threads \ {t} : task[u] # w
    BY <1>2, LinkFacts DEF Synced, Owners
  <1>7. \A e \in Entries :
          /\ w = Link(e) => reg[e] = "linking" /\ reg'[e] = "held"
          /\ w = Unlink(e) => /\ reg[e] = "unlinking"
                             /\ reg'[e] = IF pc[t] = "publish" THEN "gone" ELSE "left"
          /\ w \notin {Link(e), Unlink(e)} => reg'[e] = reg[e]
    <2>1. Return(t, w, pc[t] = "publish")
      BY DEF Defer, Publish, At
    <2> QED BY <1>2, <2>1, LinkFacts DEF Return, Synced, Owners, Base, HistoryTyped
  <1>8. pc[t] = "publish" => ~Waits(w)
    BY DEF Synced, Handed
  <1>9. pc[t] = "publish" \/ m_state' = "Deferred"
    BY DEF Defer, Publish, At
  <1> HIDE DEF w
  <1> USE LinkFacts
  <1>10. Owners'
    BY <1>1, <1>3, <1>4, <1>6, <1>7 DEF Synced, Owners, Alone
  <1>11. Queued'
    BY <1>4 DEF Synced, Queued
  <1>12. Handed'
    BY <1>1, <1>3, <1>4, <1>5 DEF Synced, Handed, Alone
  <1>13. LinksSeen'
    <2>1. pc[t] = "publish" => m_state # "Deferred" /\ \A u \in Threads : pc[u] # "release"
      BY DEF Base, LockInv, Exclusive, Updaters, Asserters
    <2>2. pc[t] = "publish" => \A v : In(delayedCalls, v) => v # w
      BY <1>8 DEF Waits
    <2> QED BY <1>1, <1>3, <1>9, <2>1, <2>2 DEF Synced, LinksSeen, Seen, Alone, w
  <1>14. Registered'
    <2>1. \A e \in Entries : /\ w = Link(e) => Waits(w) \/ In(listeners, e)
                             /\ w = Unlink(e) => Waits(w) \/ e \in freed
      BY <1>5 DEF Synced, Registered, w
    <2> QED BY <1>1, <1>3, <1>4, <1>5, <1>6, <1>7, <1>8, <2>1 DEF Synced, Registered, Alone
  <1> QED BY <1>10, <1>11, <1>12, <1>13, <1>14 DEF Synced

\* LinkUnsafe or UnlinkUnsafe on a listener that is not linked twice.
LEMMA InLinked ==
  ASSUME SignalTyped, Registered, NEW w \in Callables, w.kind \in {"link", "unlink"},
         w.kind = "link" => ~In(listeners, w.of), listeners' = Linked(listeners, w)
  PROVE  /\ w.kind = "link" => \A v : In(listeners, v)' <=> v = w.of \/ In(listeners, v)
         /\ w.kind = "unlink" => \A v : In(listeners, v)' <=> v # w.of /\ In(listeners, v)
         /\ \A e \in Entries : ~Before(listeners, e, e)'
  <1>1. w.of \in Entries
    BY CallableFacts
  <1>2. CASE w.kind = "link"
    BY <1>1, <1>2, InAppend DEF Linked, SignalTyped, Registered
  <1>3. CASE w.kind = "unlink"
    BY <1>1, <1>3, InWithout DEF Linked, SignalTyped, Registered
  <1> QED BY <1>2, <1>3

\* Under Updating nothing waits for the same listener that is not the thread's own.
LEMMA UpdateStep ==
  ASSUME Base, Synced, NEW t \in Threads, Update(t)
  PROVE  Synced'
  <1> DEFINE w == task[t]
  <1>1. Alone(t) /\ ThreadsTyped'
    BY ThreadStep DEF Base, Continue
  <1>2. /\ pc[t] = "update" /\ w \in Callables /\ w.kind \in {"link", "unlink"}
        /\ m_state = "Updating"
    BY DEF Update, At, Base, ThreadsTyped, Roles, Role, LockInv, Exclusive, Updaters
  <1>3. /\ pc'[t] = "publish" /\ task'[t] = w /\ id'[t] = id[t]
        /\ UNCHANGED << m_state, chain, chainID, stage, reg >>
    BY DEF Update, Goto, Base, ThreadsTyped, localVars, historyVars
  <1>4. (\A v : ~Chained(v) /\ ~Chained(v)') /\ \A u \in Threads : pc[u] # "release"
    BY <1>2, <1>3, NoChains DEF Chained
  <1>5. ~Unpushed(t)' /\ \A u \in Threads \ {t} : Unpushed(u)' <=> Unpushed(u)
    BY <1>1, <1>3 DEF Alone, Unpushed
  <1>6. \A u \in Threads \ {t} : task[u] # w
    BY <1>2, LinkFacts DEF Synced, Owners
  <1> USE LinkFacts
  <1>8. CASE IsOurs(t)
    <2>1. /\ delayedCalls' = TakenBack(delayedCalls, w)
          /\ listeners' = Linked(listeners, w)
          /\ freed' = IF w.kind = "unlink" THEN freed \cup {w.of} ELSE freed
      BY <1>8 DEF Update
    <2>2. \A v : v.kind # "dead" => (In(delayedCalls, v)' <=> In(delayedCalls, v) /\ v # w)
      BY <1>2, <2>1, InTakenBack DEF Base, SignalTyped
    <2>3. \A u, v : u.kind # "dead" /\ v.kind # "dead" /\ Precedes(u, v)' => Precedes(u, v)
      <3>1. \A u, v : u.kind # "dead" /\ v.kind # "dead" /\ Before(delayedCalls, u, v)'
                      => Before(delayedCalls, u, v)
        BY <1>2, <2>1, InTakenBack DEF Base, SignalTyped
      <3> QED BY <1>3, <1>4, <3>1 DEF Precedes
    <2>4. \A v : v.kind # "dead" => (Waits(v)' <=> Waits(v) /\ v # w)
      BY <1>4, <2>2 DEF Waits
    <2>5. w.kind = "link" => ~In(listeners, w.of)
      <3>1. CASE id[t] = 0
        BY <1>2, <3>1 DEF Synced, Registered, Unpushed
      <3>2. CASE id[t] # 0
        <4>1. In(delayedCalls, w)
          BY <1>2, <1>8, <3>2 DEF IsOurs, Synced, Handed
        <4> QED BY <1>2, <4>1 DEF Synced, Registered, Waits
      <3> QED BY <3>1, <3>2
    <2>6. /\ w.kind = "link" => \A v : In(listeners, v)' <=> v = w.of \/ In(listeners, v)
          /\ w.kind = "unlink" => \A v : In(listeners, v)' <=> v # w.of /\ In(listeners, v)
          /\ \A e \in Entries : ~Before(listeners, e, e)'
      BY <1>2, <2>1, <2>5, InLinked DEF Base, Synced
    <2>7. w.kind = "unlink" => ~Waits(Link(w.of))
      <3> SUFFICES ASSUME w.kind = "unlink", Waits(Link(w.of)) PROVE FALSE
        OBVIOUS
      <3>1. w = Unlink(w.of) /\ w.of \in Entries /\ reg[w.of] = "unlinking"
        BY <1>2 DEF Synced, Owners
      <3>2. In(delayedCalls, Link(w.of))
        BY <1>4 DEF Waits
      <3>3. PICK u \in Threads : task[u] = Link(w.of)
        BY <1>2, <1>4, <3>1, <3>2 DEF Synced, LinksSeen, Seen
      <3> QED BY <3>1, <3>3 DEF Synced, Owners
    <2>8. \A e \in Entries : /\ w = Link(e) => reg[e] = "linking" /\ e \notin freed
                             /\ w = Unlink(e) => reg[e] = "unlinking"
      BY DEF Synced, Owners, Registered
    <2> HIDE DEF w
    <2>9. Owners'
      BY <1>1, <1>3, <2>4 DEF Synced, Owners, Alone, w
    <2>10. Queued'
      BY <2>3 DEF Synced, Queued
    <2>11. Handed'
      BY <1>1, <1>2, <1>3, <1>5, <1>6, <2>2, <2>4
         DEF Synced, Handed, Alone, Base, Roles, Role, Unpushed
    <2>12. LinksSeen'
      BY <1>1, <1>2, <1>3, <1>4, <1>6, <2>2 DEF Synced, LinksSeen, Seen, Alone, w
    <2>13. Registered'
      <3>1. CASE w.kind = "link"
        <4>1. PICK e \in Entries : w = Link(e) /\ w.of = e /\ freed' = freed
          BY <1>2, <2>1, <3>1
        <4> QED BY <1>1, <1>3, <1>5, <1>6, <2>4, <2>6, <2>8, <3>1, <4>1
                DEF Synced, Registered, Alone
      <3>2. CASE w.kind = "unlink"
        <4>1. PICK e \in Entries : w = Unlink(e) /\ w.of = e /\ freed' = freed \cup {e}
          BY <1>2, <2>1, <3>2
        <4>2. \A u \in Threads : task[u] # Link(e)
          BY <2>8, <4>1 DEF Synced, Owners
        <4> QED BY <1>1, <1>3, <1>5, <1>6, <2>4, <2>6, <2>7, <2>8, <3>2, <4>1, <4>2
                DEF Synced, Registered, Alone
      <3> QED BY <1>2, <3>1, <3>2
    <2> QED BY <2>9, <2>10, <2>11, <2>12, <2>13 DEF Synced
  <1>9. CASE ~IsOurs(t)
    <2>1. UNCHANGED << delayedCalls, listeners, freed >>
      BY <1>9 DEF Update
    <2>2. /\ \A v : Waits(v)' <=> Waits(v)
          /\ \A u, v : Precedes(u, v)' <=> Precedes(u, v)
      BY <1>3, <2>1 DEF Waits, Chained, Precedes
    <2>3. ~In(delayedCalls, w) /\ ~Waits(w) /\ ~Unpushed(t)
      BY <1>2, <1>4, <1>9 DEF IsOurs, Synced, Handed, Waits, Unpushed
    <2> HIDE DEF w
    <2>4. Owners'
      BY <1>1, <1>3, <2>2 DEF Synced, Owners, Alone, w
    <2>5. Queued'
      BY <2>2 DEF Synced, Queued
    <2>6. Handed'
      BY <1>1, <1>3, <1>5, <2>1, <2>2, <2>3 DEF Synced, Handed, Alone
    <2>7. LinksSeen'
      BY <1>1, <1>2, <1>3, <2>1, <2>3 DEF Synced, LinksSeen, Seen, Alone, w
    <2>8. Registered'
      BY <1>1, <1>3, <1>5, <2>1, <2>2, <2>3 DEF Synced, Registered, Alone, w
    <2> QED BY <2>4, <2>5, <2>6, <2>7, <2>8 DEF Synced
  <1> QED BY <1>8, <1>9

\* leave takes the list over, oldest first: what waits, waits in the same order.
LEMMA ReleaseStep ==
  ASSUME Base, Synced, NEW t \in Threads, Release(t)
  PROVE  Synced'
  <1>1. Alone(t) /\ ThreadsTyped'
    BY ThreadStep DEF Base, Continue
  <1>2. /\ pc[t] = "release" /\ pc'[t] = "drain" /\ task'[t] = task[t] /\ id[t] = 0 /\ id'[t] = 0
        /\ chain[t] = << >> /\ chain'[t] = Released(delayedCalls) /\ delayedCalls' = << >>
        /\ chainID' = chainID + 1
        /\ UNCHANGED << m_state, listeners, freed, stage, reg >>
    BY DEF Release, Goto, At, Base, ThreadsTyped, Roles, Role, historyVars
  <1>3. /\ \A u \in Threads : chain[u] = << >>
        /\ \A u \in Threads \ {t} : chain'[u] = << >>
    BY <1>1, <1>2, ChainOfOne DEF Alone, Asserting
  <1>4. /\ \A v : In(chain'[t], v) <=> In(delayedCalls, v)
        /\ \A u, v : Before(chain'[t], u, v) <=> Before(delayedCalls, v, u)
    BY <1>2, InReleased DEF Base, SignalTyped
  <1>5. /\ \A v : Waits(v)' <=> Waits(v)
        /\ \A v : ~In(delayedCalls, v)'
    BY <1>2, <1>3, <1>4, InEmpty DEF Waits, Chained
  <1>6. \A u, v : Precedes(u, v)' <=> Precedes(u, v)
    BY <1>2, <1>3, <1>4, InEmpty DEF Precedes, Chained
  <1>7. \A u \in Threads : Unpushed(u)' <=> Unpushed(u)
    BY <1>1, <1>2 DEF Alone, Unpushed
  <1>8. \A u \in Threads : task'[u] = task[u] /\ id'[u] = id[u] /\ id'[u] # chainID'
    BY <1>1, <1>2 DEF Alone, Base, Roles, Role, ThreadsTyped, SignalTyped
  <1> USE LinkFacts DEF Synced
  <1>9. Owners'
    BY <1>2, <1>5, <1>8 DEF Owners
  <1>10. Queued'
    BY <1>6 DEF Queued
  <1>11. Handed'
    BY <1>1, <1>2, <1>5, <1>7, <1>8 DEF Handed, Alone
  <1>12. LinksSeen'
    BY <1>5 DEF LinksSeen
  <1>13. Registered'
    BY <1>2, <1>5, <1>7, <1>8 DEF Registered
  <1> QED BY <1>9, <1>10, <1>11, <1>12, <1>13

\* The first callable of a chain is done with: nothing of it waits any more.
LEMMA PopOrder ==
  ASSUME Base, Synced, NEW t \in Threads, Alone(t), pc[t] \in Asserting, chain[t] # << >>,
         chain'[t] = Tail(chain[t]), delayedCalls' = delayedCalls
  PROVE  /\ Head(chain[t]) \in Callables
         /\ \A v : v # Head(chain[t]) => (Waits(v)' <=> Waits(v))
         /\ \A v : v = Head(chain[t]) /\ v.kind # "dead" => ~Waits(v)'
         /\ Waits(Head(chain[t]))
         /\ \A v : Waits(v)' => Precedes(Head(chain[t]), v)
         /\ \A u, v : Precedes(u, v)' => Precedes(u, v)
  <1> DEFINE h == Head(chain[t])
  <1>1. /\ h \in Callables /\ Tail(chain[t]) \in Seq(Callables)
        /\ \A v : In(chain[t], v) <=> v = h \/ In(chain'[t], v)
        /\ \A u, v : Before(chain[t], u, v)
                      <=> Before(chain'[t], u, v) \/ (u = h /\ In(chain'[t], v))
    BY InTail DEF Base, ThreadsTyped
  <1> HIDE DEF h
  <1>2. /\ \A u \in Threads \ {t} : chain[u] = << >> /\ chain'[u] = << >>
        /\ \A v : Chained(v) <=> In(chain[t], v)
        /\ \A u, v : (\E x \in Threads : Before(chain[x], u, v)) <=> Before(chain[t], u, v)
    BY ChainOfOne DEF Alone
  <1>3. /\ \A v : Chained(v)' <=> In(chain'[t], v)
        /\ \A u, v : (\E x \in Threads : Before(chain'[x], u, v)) <=> Before(chain'[t], u, v)
    BY <1>2, InEmpty DEF Chained
  <1>4. \A u, v : Precedes(u, v)' => Precedes(u, v)
    BY <1>1, <1>2, <1>3 DEF Precedes
  <1>5. \A v : Waits(v)' => Precedes(h, v)
    BY <1>1, <1>2, <1>3 DEF Precedes, Waits
  <1>6. \A v : v = h /\ v.kind # "dead" => ~Waits(v)'
    <2> SUFFICES ASSUME NEW v, v = h, v.kind # "dead", Waits(v)' PROVE FALSE
      OBVIOUS
    <2>1. Precedes(v, v)
      BY <1>5
    <2>2. ~Precedes(v, v)
      BY <1>1 DEF Synced, Queued
    <2> QED BY <2>1, <2>2
  <1>7. /\ \A v : v # h => (Waits(v)' <=> Waits(v))
        /\ Waits(h)
    BY <1>1, <1>2, <1>3 DEF Waits
  <1> QED BY <1>1, <1>4, <1>5, <1>6, <1>7 DEF h

\* The first of the chain is a call that has ended, or dead.
LEMMA PopStep ==
  ASSUME Base, Synced, NEW t \in Threads, Alone(t), pc[t] \in Asserting, pc'[t] \in Asserting,
         pc[t] # "release", chain[t] # << >>, chain'[t] = Tail(chain[t]),
         Head(chain[t]).kind \notin {"link", "unlink"},
         \A c \in Calls : stage'[c] = "new" => stage[c] = "new",
         UNCHANGED << m_state, delayedCalls, listeners, freed, reg, chainID, task, id >>
  PROVE  Synced'
  <1> DEFINE h == Head(chain[t])
  <1>1. /\ h \in Callables
        /\ \A v : v # h => (Waits(v)' <=> Waits(v))
        /\ \A v : Waits(v)' => Waits(v)
        /\ \A u, v : Precedes(u, v)' => Precedes(u, v)
    BY PopOrder
  <1> HIDE DEF h
  <1>2. \A u \in Threads : Unpushed(u)' <=> Unpushed(u)
    BY DEF Alone, Unpushed, Asserting
  <1>3. \A e \in Entries : (Waits(Link(e))' <=> Waits(Link(e))) /\ (Waits(Unlink(e))' <=> Waits(Unlink(e)))
    BY <1>1, LinkFacts DEF h
  <1> USE LinkFacts DEF Synced
  <1>4. Owners'
    BY <1>1 DEF Owners
  <1>5. Queued'
    BY <1>1 DEF Queued
  <1>6. Handed'
    BY <1>1, <1>2 DEF Handed, Alone, Asserting
  <1>7. LinksSeen'
    BY DEF LinksSeen, Seen, Alone, Asserting
  <1>8. Registered'
    BY <1>2, <1>3 DEF Registered
  <1> QED BY <1>4, <1>5, <1>6, <1>7, <1>8

\* The first of the chain is a listener to link or to unlink.
LEMMA ServeStep ==
  ASSUME Base, Synced, NEW t \in Threads, Alone(t), pc[t] = "drain", chain[t] # << >>,
         Head(chain[t]).kind \in {"link", "unlink"}, chain'[t] = Tail(chain[t]),
         listeners' = Linked(listeners, Head(chain[t])),
         freed' = IF Head(chain[t]).kind = "unlink" THEN freed \cup {Head(chain[t]).of} ELSE freed,
         UNCHANGED << pc, m_state, delayedCalls, reg, chainID, task, id, stage >>
  PROVE  Synced'
  <1>0. PICK h : h = Head(chain[t])
    OBVIOUS
  <1>1. /\ h \in Callables /\ Waits(h) /\ ~Waits(h)'
        /\ \A v : v # h => (Waits(v)' <=> Waits(v))
        /\ \A v : Waits(v)' => Precedes(h, v)
        /\ \A u, v : Precedes(u, v)' => Precedes(u, v)
    BY <1>0, PopOrder DEF Asserting
  <1>2. h.kind = "link" => ~In(listeners, h.of)
    BY <1>1, LinkFacts DEF Synced, Registered
  <1>3. /\ h.kind = "link" => \A v : In(listeners, v)' <=> v = h.of \/ In(listeners, v)
        /\ h.kind = "unlink" => \A v : In(listeners, v)' <=> v # h.of /\ In(listeners, v)
        /\ \A e \in Entries : ~Before(listeners, e, e)'
    BY <1>0, <1>1, <1>2, InLinked DEF Base, Synced
  <1>4. \A u \in Threads : Unpushed(u)' <=> Unpushed(u)
    BY DEF Unpushed
  <1> USE LinkFacts DEF Synced
  <1>5. Owners'
    BY <1>1 DEF Owners
  <1>6. Queued'
    BY <1>1 DEF Queued
  <1>7. Handed'
    BY <1>1, <1>4 DEF Handed
  <1>8. LinksSeen'
    BY DEF LinksSeen, Seen
  <1>9. Registered'
    <2>1. CASE h.kind = "link"
      <3>1. PICK e \in Entries : h = Link(e) /\ h.of = e /\ freed' = freed
        BY <1>0, <1>1, <2>1
      <3>2. \A f \in Entries : Unlink(f) # h /\ (f # e => Link(f) # h)
        BY <3>1
      <3>5. \A f \in Entries : Waits(Link(f))' <=> Waits(Link(f)) /\ f # e
        BY <1>1, <3>1, <3>2
      <3>6. \A f \in Entries : Waits(Unlink(f))' <=> Waits(Unlink(f))
        BY <1>1, <3>2
      <3>7. \A f \in Entries : In(listeners, f)' <=> In(listeners, f) \/ f = e
        BY <1>3, <2>1, <3>1
      <3>3. e \notin freed /\ reg[e] # "new"
        BY <1>1, <3>1 DEF Registered
      <3>4. \A u \in Threads : task[u] = Link(e) => ~Unpushed(u)
        BY <1>1, <3>1 DEF Handed
      <3> QED BY <1>3, <1>4, <3>1, <3>3, <3>4, <3>5, <3>6, <3>7 DEF Registered
    <2>2. CASE h.kind = "unlink"
      <3>1. PICK e \in Entries : h = Unlink(e) /\ h.of = e /\ freed' = freed \cup {e}
        BY <1>0, <1>1, <2>2
      <3>2. ~Waits(Link(e))' /\ reg[e] \in {"unlinking", "left"} /\ e \notin freed
        BY <1>1, <3>1 DEF Queued, Registered
      <3>3. \A u \in Threads : task[u] # Link(e)
        BY <3>2 DEF Owners
      <3>4. \A u \in Threads : task[u] = Unlink(e) => ~Unpushed(u)
        BY <1>1, <3>1 DEF Handed
      <3>5. \A f \in Entries : Link(f) # h /\ (f # e => Unlink(f) # h)
        BY <3>1
      <3>6. \A f \in Entries : Waits(Link(f))' <=> Waits(Link(f)) /\ f # e
        BY <1>1, <3>2, <3>5
      <3>7. \A f \in Entries : Waits(Unlink(f))' <=> Waits(Unlink(f)) /\ f # e
        BY <1>1, <3>1, <3>5
      <3>8. \A f \in Entries : In(listeners, f)' <=> In(listeners, f) /\ f # e
        BY <1>3, <2>2, <3>1
      <3>9. reg[e] \notin {"new", "held", "linking"}
        BY <3>2
      <3> QED BY <1>3, <1>4, <3>1, <3>2, <3>3, <3>4, <3>6, <3>7, <3>8, <3>9 DEF Registered
    <2> QED BY <1>0, <2>1, <2>2
  <1> QED BY <1>5, <1>6, <1>7, <1>8, <1>9

\* A handler, a function or the owner of the lock leaves a request for itself.
LEMMA NestedStep ==
  ASSUME Base, Synced, NEW t \in Threads, Nested(t)
  PROVE  Synced'
  <1>1. /\ UNCHANGED << listeners, freed, chainID, pc, task, id, chain >>
        /\ m_state' = "Deferred"
    BY DEF Nested, Defers, localVars
  <1>2. \A u \in Threads : Unpushed(u)' <=> Unpushed(u)
    BY <1>1 DEF Unpushed
  <1>3. LinksSeen'
    BY <1>1 DEF LinksSeen, Seen
  <1> USE LinkFacts
  <1>4. ASSUME NEW w \in Callables, w.kind # "dead", delayedCalls' = << w >> \o delayedCalls,
               ~Waits(w), \A u \in Threads : task[u] # w,
               \A e \in Entries : w = Link(e) => ~Waits(Unlink(e))
        PROVE  /\ \A v : Waits(v)' <=> v = w \/ Waits(v)
               /\ Queued' /\ Handed'
    <2>1. /\ \A v : In(delayedCalls, v)' <=> v = w \/ In(delayedCalls, v)
          /\ \A v : Waits(v)' <=> v = w \/ Waits(v)
          /\ \A u, v : Precedes(u, v)' => Precedes(u, v) \/ (v = w /\ Waits(u))
      BY <1>1, <1>4, PushOrder DEF Base, SignalTyped
    <2>2. Queued'
      BY <1>4, <2>1 DEF Synced, Queued
    <2>3. Handed'
      BY <1>1, <1>2, <1>4, <2>1 DEF Synced, Handed
    <2> QED BY <2>1, <2>2, <2>3
  <1>5. ASSUME NEW e \in Entries, reg[e] = "new", reg' = [reg EXCEPT ![e] = "held"],
               delayedCalls' = << Link(e) >> \o delayedCalls, stage' = stage
        PROVE  Synced'
    <2>1. ~Waits(Link(e)) /\ ~Waits(Unlink(e)) /\ e \notin freed /\ ~In(listeners, e)
      BY <1>5 DEF Synced, Registered
    <2>2. \A u \in Threads : task[u] # Link(e) /\ task[u] # Unlink(e)
      BY <1>5 DEF Synced, Owners
    <2>3. (\A v : Waits(v)' <=> v = Link(e) \/ Waits(v)) /\ Queued' /\ Handed'
      BY <1>4, <1>5, <2>1, <2>2
    <2>4. reg'[e] = "held" /\ \A f \in Entries \ {e} : reg'[f] = reg[f]
      BY <1>5 DEF Base, HistoryTyped
    <2>5. Owners'
      BY <1>1, <1>5, <2>2, <2>3, <2>4 DEF Synced, Owners
    <2>6. Registered'
      BY <1>1, <1>2, <2>1, <2>2, <2>3, <2>4 DEF Synced, Registered
    <2> QED BY <1>3, <2>3, <2>5, <2>6 DEF Synced
  <1>6. ASSUME NEW e \in Entries, reg[e] = "held", reg' = [reg EXCEPT ![e] = "left"],
               delayedCalls' = << Unlink(e) >> \o delayedCalls, stage' = stage
        PROVE  Synced'
    <2>1. ~Waits(Unlink(e)) /\ e \notin freed /\ (Waits(Link(e)) \/ In(listeners, e))
      BY <1>6 DEF Synced, Registered
    <2>2. \A u \in Threads : task[u] # Link(e) /\ task[u] # Unlink(e)
      BY <1>6 DEF Synced, Owners
    <2>3. (\A v : Waits(v)' <=> v = Unlink(e) \/ Waits(v)) /\ Queued' /\ Handed'
      BY <1>4, <1>6, <2>1, <2>2
    <2>4. reg'[e] = "left" /\ \A f \in Entries \ {e} : reg'[f] = reg[f]
      BY <1>6 DEF Base, HistoryTyped
    <2>5. Owners'
      BY <1>1, <1>6, <2>2, <2>3, <2>4 DEF Synced, Owners
    <2>6. Registered'
      BY <1>1, <1>2, <2>1, <2>2, <2>3, <2>4 DEF Synced, Registered
    <2> QED BY <1>3, <2>3, <2>5, <2>6 DEF Synced
  <1>7. ASSUME NEW c \in Calls, NEW w \in {Call(c), Invoke(c)}, stage[c] = "new",
               stage' = [stage EXCEPT ![c] = "called"], reg' = reg,
               delayedCalls' = << w >> \o delayedCalls
        PROVE  Synced'
    <2>1. ~Waits(w) /\ \A u \in Threads : task[u] # w
      BY <1>7 DEF Synced, Owners
    <2>2. w \in Callables /\ w.kind \in {"signal", "invoke"} /\ w.of = c
      BY <1>7
    <2>3. (\A v : Waits(v)' <=> v = w \/ Waits(v)) /\ Queued' /\ Handed'
      BY <1>4, <1>7, <2>1, <2>2
    <2>4. stage'[c] = "called" /\ \A d \in Calls \ {c} : stage'[d] = stage[d]
      BY <1>7 DEF Base, HistoryTyped
    <2>5. \A f \in Entries : (Waits(Link(f))' <=> Waits(Link(f))) /\ (Waits(Unlink(f))' <=> Waits(Unlink(f)))
      BY <2>2, <2>3
    <2>6. Owners'
      BY <1>1, <1>7, <2>2, <2>3, <2>4 DEF Synced, Owners
    <2>7. Registered'
      BY <1>1, <1>2, <1>7, <2>5 DEF Synced, Registered
    <2> QED BY <1>3, <2>3, <2>6, <2>7 DEF Synced
  <1>8. CASE \E e \in Entries : /\ reg[e] = "new" /\ reg' = [reg EXCEPT ![e] = "held"]
                                /\ Defers(t, Do("link", e)) /\ stage' = stage
    BY <1>5, <1>8 DEF Defers, Link
  <1>9. CASE \E e \in Entries : /\ reg[e] = "held" /\ reg' = [reg EXCEPT ![e] = "left"]
                                /\ Defers(t, Do("unlink", e)) /\ stage' = stage
    BY <1>6, <1>9 DEF Defers, Unlink
  <1>10. CASE \E c \in Calls, k \in {"signal", "invoke"} :
                /\ stage[c] = "new" /\ stage' = [stage EXCEPT ![c] = "called"]
                /\ Defers(t, Do(k, c)) /\ reg' = reg
    <2>1. PICK c \in Calls, k \in {"signal", "invoke"} :
            /\ stage[c] = "new" /\ stage' = [stage EXCEPT ![c] = "called"]
            /\ Defers(t, Do(k, c)) /\ reg' = reg
      BY <1>10
    <2>2. Do(k, c) \in {Call(c), Invoke(c)}
      BY DEF Call, Invoke
    <2> QED BY <1>7, <2>1, <2>2 DEF Defers
  <1> QED BY <1>8, <1>9, <1>10 DEF Nested

-----------------------------------------------------------------------------
(* Every step *)

LEMMA SyncedStep ==
  ASSUME Base, Synced, NEW t \in Threads, Request(t) \/ Continue(t) \/ Nested(t)
  PROVE  Synced'
  <1>1. Alone(t) /\ ThreadsTyped'
    BY ThreadStep DEF Base
  <1>2. task[t] \in Callables \cup {None} /\ Role(t) /\ pc \in [Threads -> Points]
        /\ task \in [Threads -> Callables \cup {None}] /\ stage \in [Calls -> Stages]
        /\ chain \in [Threads -> Seq(Callables)]
    BY DEF Base, ThreadsTyped, HistoryTyped, Roles
  <1>3. CASE EnterLink(t) \/ EnterUnlink(t) \/ EnterCall(t)
    BY <1>3, EnterStep
  <1>4. CASE TryLock(t) \/ Unlock(t)
    <2>1. /\ pc[t] \in {"idle", "locked"} /\ pc'[t] \in {"locked", "leave"} /\ task'[t] = task[t]
          /\ m_state = "Deferred" => m_state' = "Deferred"
          /\ UNCHANGED << delayedCalls, chain, listeners, freed, reg, chainID, stage >>
      BY <1>2, <1>4 DEF TryLock, Unlock, Calling, At, Goto, MayAssert, localVars, historyVars, signalVars
    <2>2. Moved(t)
      BY <1>2, <2>1 DEF Moved, Role
    <2> QED BY <1>1, <2>1, <2>2, QuietStep
  <1>5. CASE TryUpdate(t) \/ TakeOver(t)
    <2>1. /\ pc[t] \in {"try", "defer"} /\ task'[t] = task[t] /\ id'[t] = id[t]
          /\ task[t].kind \in {"link", "unlink"}
          /\ pc'[t] = "update" \/ (pc[t] = "try" /\ pc'[t] = "push")
          /\ m_state = "Deferred" => m_state' = "Deferred"
          /\ UNCHANGED << delayedCalls, chain, listeners, freed, reg, chainID, stage >>
      BY <1>2, <1>5 DEF TryUpdate, TakeOver, At, Goto, localVars, historyVars, Role
    <2>2. Moved(t)
      BY <2>1 DEF Moved
    <2> QED BY <1>1, <2>1, <2>2, QuietStep
  <1>6. CASE Push(t)
    BY <1>6, PushStep
  <1>7. CASE Defer(t) \/ Publish(t)
    BY <1>7, ReturnStep
  <1>8. CASE Update(t)
    BY <1>8, UpdateStep
  <1>9. CASE TryEnter(t)
    <2>1. /\ pc[t] = "enter" /\ pc'[t] \in {"call", "fn", "push"} /\ task'[t] = task[t]
          /\ m_state = "Deferred" => m_state' = "Deferred"
          /\ UNCHANGED << delayedCalls, chain, listeners, freed, reg, chainID >>
      BY <1>2, <1>9 DEF TryEnter, At, Goto, Begin, MayAssert
    <2>2. \A c \in Calls : stage'[c] = "new" => stage[c] = "new"
      BY <1>2, <1>9 DEF TryEnter, Begin
    <2>3. Moved(t)
      BY <1>2, <2>1 DEF Moved, Role
    <2> QED BY <1>1, <2>1, <2>2, <2>3, QuietStep
  <1>10. CASE HandoffLate(t) \/ Leave(t)
    <2>1. /\ pc[t] \in {"defer", "leave"} /\ pc'[t] \in {"leave", "idle", "release"}
          /\ task'[t] \in {None, task[t]}
          /\ task[t] = None \/ task[t].kind \in {"signal", "invoke"}
          /\ m_state = "Deferred" => pc'[t] = "release"
          /\ UNCHANGED << delayedCalls, chain, listeners, freed, reg, chainID, stage >>
      BY <1>2, <1>10 DEF HandoffLate, Leave, At, Goto, MayLeave, Role
    <2>2. Moved(t)
      BY <2>1 DEF Moved
    <2> QED BY <1>1, <2>1, <2>2, QuietStep
  <1>11. CASE SignalNext(t) \/ HandlerEnds(t) \/ FunctionEnds(t)
    <2>1. /\ pc[t] \in {"call", "handler", "fn"} /\ pc'[t] \in {"call", "handler", "leave", "drain"}
          /\ task[t] = None \/ task[t].kind \in {"signal", "invoke"}
          /\ UNCHANGED << task, id, m_state, delayedCalls, listeners, freed, reg, chainID >>
      BY <1>2, <1>11 DEF SignalNext, HandlerEnds, FunctionEnds, Ended, At, Goto, Role, signalVars
    <2>2. \A c \in Calls : stage'[c] = "new" => stage[c] = "new"
      BY <1>2, <1>11 DEF SignalNext, HandlerEnds, FunctionEnds
    <2>3. CASE chain' = chain
      <3>1. Moved(t)
        BY <2>1 DEF Moved
      <3> QED BY <1>1, <2>1, <2>2, <2>3, <3>1, QuietStep
    <2>4. CASE Ended(t) /\ chain[t] # << >>
      <3>1. chain'[t] = Tail(chain[t])
        BY <1>2, <2>4 DEF Ended
      <3>2. Head(chain[t]).kind \notin {"link", "unlink"}
        BY <1>2, <2>1, <2>4 DEF Role, Running
      <3> QED BY <1>1, <2>1, <2>2, <2>4, <3>1, <3>2, PopStep DEF Asserting
    <2>5. Ended(t) /\ chain[t] = << >> => chain' = chain
      BY <1>2 DEF Ended
    <2> QED BY <1>11, <2>3, <2>4, <2>5 DEF SignalNext, HandlerEnds, FunctionEnds
  <1>12. CASE Release(t)
    BY <1>12, ReleaseStep
  <1>13. CASE Drain(t)
    <2>1. /\ pc[t] = "drain"
          /\ task[t] = None \/ task[t].kind \in {"signal", "invoke"}
          /\ UNCHANGED << task, id, m_state, delayedCalls, reg, chainID >>
      BY <1>2, <1>13 DEF Drain, At, Role
    <2>2. CASE chain[t] = << >>
      <3>1. pc'[t] = "leave" /\ UNCHANGED << chain, listeners, freed, stage >>
        BY <1>2, <1>13, <2>2 DEF Drain, Goto
      <3>2. Moved(t)
        BY <2>1, <3>1 DEF Moved
      <3> QED BY <1>1, <2>1, <3>1, <3>2, QuietStep
    <2>3. CASE chain[t] # << >> /\ Head(chain[t]).kind \in {"link", "unlink"}
      <3>1. /\ chain'[t] = Tail(chain[t]) /\ UNCHANGED << pc, stage >>
            /\ listeners' = Linked(listeners, Head(chain[t]))
            /\ freed' = IF Head(chain[t]).kind = "unlink"
                          THEN freed \cup {Head(chain[t]).of} ELSE freed
        BY <1>2, <1>13, <2>3 DEF Drain
      <3> QED BY <1>1, <2>1, <2>3, <3>1, ServeStep
    <2>4. CASE chain[t] # << >> /\ Head(chain[t]).kind = "dead"
      <3>1. chain'[t] = Tail(chain[t]) /\ UNCHANGED << pc, stage, listeners, freed >>
        BY <1>2, <1>13, <2>4 DEF Drain
      <3> QED BY <1>1, <2>1, <2>4, <3>1, PopStep DEF Asserting
    <2>5. CASE chain[t] # << >> /\ Head(chain[t]).kind \in {"signal", "invoke"}
      <3>1. pc'[t] \in {"call", "fn"} /\ UNCHANGED << chain, listeners, freed >>
        BY <1>2, <1>13, <2>5 DEF Drain, Begin, Goto
      <3>2. \A c \in Calls : stage'[c] = "new" => stage[c] = "new"
        BY <1>2, <1>13, <2>5 DEF Drain, Begin
      <3>3. Moved(t)
        BY <2>1, <3>1 DEF Moved
      <3> QED BY <1>1, <2>1, <3>1, <3>2, <3>3, QuietStep
    <2> QED BY <1>13, <2>2, <2>3, <2>4, <2>5 DEF Drain
  <1>14. CASE Nested(t)
    BY <1>14, NestedStep
  <1> QED
    BY <1>3, <1>4, <1>5, <1>6, <1>7, <1>8, <1>9, <1>10, <1>11, <1>12, <1>13, <1>14
       DEF Request, Continue

LEMMA InitSynced == Init => Base /\ Synced
  <1> SUFFICES ASSUME Init PROVE Base /\ Synced
    OBVIOUS
  <1>1. Base
    BY InitTyped, InitRoles, InitLock DEF Base
  <1>2. /\ \A t \in Threads : pc[t] = "idle" /\ task[t] = None /\ chain[t] = << >>
        /\ delayedCalls = << >> /\ listeners = << >> /\ freed = {} /\ \A e \in Entries : reg[e] = "new"
    BY DEF Init
  <1>3. /\ \A w : ~Waits(w) /\ ~In(delayedCalls, w)
        /\ \A u, v : ~Precedes(u, v)
        /\ \A e : ~In(listeners, e) /\ ~Before(listeners, e, e)
    BY <1>2, InEmpty DEF Waits, Chained, Precedes
  <1>4. Owners /\ Queued
    BY <1>2, <1>3, LinkFacts DEF Owners, Queued
  <1>5. Handed /\ LinksSeen
    BY <1>2, <1>3 DEF Handed, LinksSeen, Unpushed
  <1>6. Registered
    BY <1>2, <1>3, LinkFacts DEF Registered
  <1> QED BY <1>1, <1>4, <1>5, <1>6 DEF Synced

LEMMA BaseStep ==
  ASSUME Base, Synced, [Next]_vars
  PROVE  Base' /\ Synced'
  <1>1. CASE Next
    <2> PICK t \in Threads : Request(t) \/ Continue(t) \/ Nested(t)
      BY <1>1 DEF Next
    <2>1. SignalTyped' /\ ThreadsTyped' /\ HistoryTyped' /\ Roles'
      BY SignalStep, ThreadStep, HistoryStep, RolesStep DEF Base, Synced
    <2>2. LockInv'
      BY NextIsLockStep, LockStepKeepsLock DEF Base, LockInv
    <2>3. Synced'
      BY SyncedStep
    <2> QED BY <2>1, <2>2, <2>3 DEF Base
  <1>2. CASE UNCHANGED vars
    <2> USE <1>2 DEF vars, signalVars, localVars, historyVars
    <2>1. SignalTyped' /\ ThreadsTyped' /\ HistoryTyped' /\ LockInv'
      BY DEF Base, SignalTyped, ThreadsTyped, HistoryTyped, LockInv, PointsTyped, Exclusive,
             Updaters, Asserters
    <2>2. Roles'
      BY DEF Base, Roles, Role, Running
    <2>3. Synced'
      BY DEF Synced, Owners, Queued, Handed, LinksSeen, Registered, Seen, Unpushed, Waits,
             Chained, Precedes
    <2> QED BY <2>1, <2>2, <2>3 DEF Base
  <1> QED BY <1>1, <1>2

\* Every variable has its type: no callable that is run, handed over or taken back is
\* ever anything but one that was asked for.
THEOREM TypeCorrect == Spec => []TypeOK
  <1>1. Base /\ Synced => TypeOK
    BY TypeOKParts DEF Base
  <1>2. Base /\ Synced /\ [Next]_vars => (Base /\ Synced)'
    BY BaseStep
  <1> QED BY InitSynced, <1>1, <1>2, PTL DEF Spec

LEMMA SyncedListeners == Base /\ Synced => ListenersSound
  <1> SUFFICES ASSUME Base, Synced PROVE ListenersSound
    OBVIOUS
  <1>0. listeners \in Seq(Entries) /\ delayedCalls \in Seq(Callables)
    BY DEF Base, SignalTyped
  <1>1. IsInjective(listeners)
    <2> SUFFICES ASSUME NEW i \in DOMAIN listeners, NEW j \in DOMAIN listeners,
                        listeners[i] = listeners[j], i # j
                 PROVE  FALSE
      BY DEF IsInjective
    <2>1. /\ i \in 1 .. Len(listeners) /\ j \in 1 .. Len(listeners)
          /\ listeners[i] \in Entries
      BY <1>0
    <2>2. i < j \/ j < i
      BY <2>1
    <2>3. Before(listeners, listeners[i], listeners[i])
      BY <2>1, <2>2 DEF Before
    <2> QED BY <2>1, <2>3 DEF Synced, Registered
  <1>2. Range(listeners) \cap freed = {}
    <2> SUFFICES ASSUME NEW e \in freed, e \in Range(listeners) PROVE FALSE
      OBVIOUS
    <2>1. In(listeners, e)
      BY <1>0 DEF Range, In
    <2> QED BY <2>1 DEF Synced, Registered, Base, SignalTyped
  <1>3. ASSUME NEW t \in Threads, NEW w \in Range(chain[t] \o delayedCalls),
               w.kind \in {"link", "unlink"}
        PROVE  w.of \notin freed
    <2>0. chain[t] \in Seq(Callables)
      BY DEF Base, ThreadsTyped
    <2>1. PICK i \in 1 .. Len(chain[t]) + Len(delayedCalls) : w = (chain[t] \o delayedCalls)[i]
      BY <1>0, <1>3, <2>0 DEF Range
    <2>2. Waits(w) /\ w \in Callables
      <3>1. CASE i <= Len(chain[t])
        <4>1. i \in 1 .. Len(chain[t]) /\ w = chain[t][i] /\ w \in Callables
          BY <1>0, <2>0, <2>1, <3>1
        <4> QED BY <4>1 DEF Waits, Chained, In
      <3>2. CASE i > Len(chain[t])
        <4>1. i - Len(chain[t]) \in 1 .. Len(delayedCalls) /\ w = delayedCalls[i - Len(chain[t])]
          BY <1>0, <2>0, <2>1, <3>2
        <4>2. w \in Callables
          BY <1>0, <4>1
        <4> QED BY <4>1, <4>2 DEF Waits, In
      <3> QED BY <2>0, <2>1, <3>1, <3>2
    <2> QED BY <1>3, <2>2, LinkFacts DEF Synced, Registered
  <1> QED BY <1>1, <1>2, <1>3 DEF ListenersSound

\* A listener is linked once, and one that was deleted is neither linked nor on its
\* way to be, whichever of the owner and the dispatcher gets to its request first.
THEOREM ListenersAreSound == Spec => []ListenersSound
  <1>1. Base /\ Synced /\ [Next]_vars => (Base /\ Synced)'
    BY BaseStep
  <1> QED BY InitSynced, SyncedListeners, <1>1, PTL DEF Spec
=============================================================================
