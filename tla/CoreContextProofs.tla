-------------------------- MODULE CoreContextProofs --------------------------
(***************************************************************************)
(* Proofs about CoreContext, for any tree of contexts, any runnables, any  *)
(* number of threads and any calls they make: type correctness, that       *)
(* children follow their parents, that no runnable is missed by Initiate,  *)
(* AddCoreRunnable and SignalShutdown, and what Wait means.                *)
(*                                                                         *)
(* The lemmas ...Does say once what each step does.  The invariants are    *)
(* built on one another: Typed (types and what is on the stacks), Kin (the *)
(* tree), ChildrenRun and ChildrenEnd (who is on the way to which child),  *)
(* NoneMissed (who is going to start or stop which runnable), Once (each   *)
(* runnable is added once), Counts (who keeps which run counter alive),    *)
(* Quieted (what holds after Wait).                                        *)
(***************************************************************************)
EXTENDS CoreContext, SequenceTheorems, TLAPS

-----------------------------------------------------------------------------
(* Sequences as lists and stacks *)

\* The first of a list, and the others.
LEMMA TailOf ==
    ASSUME NEW S, NEW s \in Seq(S), s # << >>
    PROVE  /\ Head(s) \in S /\ Tail(s) \in Seq(S)
           /\ Len(s) \in Nat /\ Len(s) >= 1 /\ Len(Tail(s)) = Len(s) - 1
           /\ 1 \in DOMAIN s /\ Head(s) = s[1] /\ Head(s) \in Range(s)
           /\ Range(s) = {Head(s)} \cup Range(Tail(s))
<1>1. /\ Head(s) \in S /\ Tail(s) \in Seq(S) /\ Head(s) = s[1]
      /\ Len(Tail(s)) = Len(s) - 1
      /\ \A i \in 1 .. Len(Tail(s)) : Tail(s)[i] = s[i + 1]
  BY HeadTailProperties
<1>2. /\ Len(s) \in Nat /\ Len(s) >= 1 /\ DOMAIN s = 1 .. Len(s)
      /\ DOMAIN Tail(s) = 1 .. (Len(s) - 1)
  BY <1>1, LenProperties, EmptySeq
<1>3. ASSUME NEW x \in Range(s) PROVE x \in {Head(s)} \cup Range(Tail(s))
  <2>1. PICK i \in 1 .. Len(s) : x = s[i]
    BY <1>2 DEF Range
  <2>2. CASE i = 1
    BY <1>1, <2>1, <2>2
  <2>3. CASE i # 1
    <3>1. i - 1 \in DOMAIN Tail(s) /\ Tail(s)[i - 1] = s[i]
      BY <1>1, <1>2, <2>1, <2>3
    <3> QED BY <2>1, <3>1 DEF Range
  <2> QED BY <2>2, <2>3
<1>4. ASSUME NEW x \in {Head(s)} \cup Range(Tail(s)) PROVE x \in Range(s)
  <2>1. CASE x = Head(s)
    BY <1>1, <1>2, <2>1 DEF Range
  <2>2. CASE x \in Range(Tail(s))
    <3>1. PICK i \in 1 .. (Len(s) - 1) : x = Tail(s)[i]
      BY <1>2, <2>2 DEF Range
    <3>2. i + 1 \in DOMAIN s /\ x = s[i + 1]
      BY <1>1, <1>2, <3>1
    <3> QED BY <3>2 DEF Range
  <2> QED BY <1>4, <2>1, <2>2
<1>5. Range(s) = {Head(s)} \cup Range(Tail(s))
  BY <1>3, <1>4
<1>6. 1 \in DOMAIN s /\ Head(s) \in Range(s)
  BY <1>2, <1>5
<1> QED BY <1>1, <1>2, <1>5, <1>6

\* Putting e in front.
LEMMA PushOf ==
    ASSUME NEW S, NEW s \in Seq(S), NEW e \in S
    PROVE  /\ << e >> \o s \in Seq(S) /\ << e >> \o s # << >>
           /\ Head(<< e >> \o s) = e
           /\ Range(<< e >> \o s) = {e} \cup Range(s)
<1>1. /\ << e >> \in Seq(S) /\ Len(<< e >>) = 1 /\ << e >>[1] = e
  OBVIOUS
<1> DEFINE q == << e >> \o s
<1>2. /\ q \in Seq(S) /\ Len(q) = 1 + Len(s) /\ Len(s) \in Nat
      /\ q[1] = e /\ \A i \in 1 .. Len(s) : q[i + 1] = s[i]
  <2>1. \A i \in 1 .. (1 + Len(s)) : q[i] = IF i <= 1 THEN << e >>[i] ELSE s[i - 1]
    BY <1>1, ConcatProperties
  <2>2. q \in Seq(S) /\ Len(q) = 1 + Len(s) /\ Len(s) \in Nat
    BY <1>1, ConcatProperties, LenProperties
  <2>3. q[1] = e
    BY <1>1, <2>1, <2>2
  <2>4. ASSUME NEW i \in 1 .. Len(s) PROVE q[i + 1] = s[i]
    <3>1. i + 1 \in 1 .. (1 + Len(s)) /\ ~(i + 1 <= 1) /\ (i + 1) - 1 = i
      BY <2>2
    <3> QED BY <2>1, <3>1
  <2> QED BY <2>2, <2>3, <2>4
<1>3. DOMAIN q = 1 .. (1 + Len(s)) /\ DOMAIN s = 1 .. Len(s)
  BY <1>2, LenProperties
<1> HIDE DEF q
<1>4. q # << >> /\ Head(q) = e
  <2>1. q # << >>
    BY <1>2, EmptySeq
  <2> QED BY <1>2, <2>1, HeadTailProperties
<1>5. ASSUME NEW x \in Range(q) PROVE x \in {e} \cup Range(s)
  <2>1. PICK i \in 1 .. (1 + Len(s)) : x = q[i]
    BY <1>3 DEF Range
  <2>2. CASE i = 1
    BY <1>2, <2>1, <2>2
  <2>3. CASE i # 1
    <3>1. i - 1 \in 1 .. Len(s) /\ (i - 1) + 1 = i
      BY <1>2, <2>3
    <3>2. q[i] = s[i - 1]
      BY <1>2, <3>1
    <3> QED BY <1>3, <2>1, <3>1, <3>2 DEF Range
  <2> QED BY <2>2, <2>3
<1>6. ASSUME NEW x \in {e} \cup Range(s) PROVE x \in Range(q)
  <2>1. CASE x = e
    <3>1. 1 \in DOMAIN q
      BY <1>2, <1>3
    <3> QED BY <1>2, <2>1, <3>1 DEF Range
  <2>2. CASE x \in Range(s)
    <3>1. PICK i \in 1 .. Len(s) : x = s[i]
      BY <1>3, <2>2 DEF Range
    <3>2. i + 1 \in DOMAIN q /\ x = q[i + 1]
      BY <1>2, <1>3, <3>1
    <3> QED BY <3>2 DEF Range
  <2> QED BY <1>6, <2>1, <2>2
<1>7. Range(q) = {e} \cup Range(s)
  BY <1>5, <1>6
<1> QED BY <1>2, <1>4, <1>7 DEF q

\* Changing the first one.
LEMMA PutOf ==
    ASSUME NEW S, NEW s \in Seq(S), s # << >>, NEW e \in S
    PROVE  /\ [s EXCEPT ![1] = e] \in Seq(S) /\ [s EXCEPT ![1] = e] # << >>
           /\ Head([s EXCEPT ![1] = e]) = e
           /\ Range([s EXCEPT ![1] = e]) = {e} \cup Range(Tail(s))
<1>1. /\ Len(s) \in Nat /\ Len(s) >= 1 /\ DOMAIN s = 1 .. Len(s) /\ Tail(s) \in Seq(S)
      /\ Len(Tail(s)) = Len(s) - 1
      /\ \A i \in 1 .. Len(Tail(s)) : Tail(s)[i] = s[i + 1]
  BY LenProperties, EmptySeq, HeadTailProperties
<1>2. PICK q : q = [s EXCEPT ![1] = e]
  OBVIOUS
<1>3. /\ q \in Seq(S) /\ Len(q) = Len(s)
      /\ \A j \in 1 .. Len(s) : q[j] = IF j = 1 THEN e ELSE s[j]
  <2>1. 1 \in 1 .. Len(s)
    BY <1>1
  <2> QED BY <1>2, <2>1, ExceptSeq
<1>4. q # << >>
  BY <1>1, <1>3, EmptySeq
<1>5. Head(q) = e
  BY <1>1, <1>3, <1>4, HeadTailProperties
<1>6. DOMAIN q = 1 .. Len(s) /\ DOMAIN Tail(s) = 1 .. (Len(s) - 1)
  BY <1>1, <1>3, LenProperties
<1>7. ASSUME NEW x \in Range(q) PROVE x \in {e} \cup Range(Tail(s))
  <2>1. PICK i \in 1 .. Len(s) : x = q[i]
    BY <1>6, <1>7 DEF Range
  <2>2. CASE i = 1
    BY <1>3, <2>1, <2>2
  <2>3. CASE i # 1
    <3>1. i - 1 \in 1 .. (Len(s) - 1) /\ (i - 1) + 1 = i
      BY <1>1, <2>3
    <3>2. Tail(s)[i - 1] = x
      BY <1>1, <1>3, <2>1, <2>3, <3>1
    <3> QED BY <1>6, <3>1, <3>2 DEF Range
  <2> QED BY <2>2, <2>3
<1>8. ASSUME NEW x \in {e} \cup Range(Tail(s)) PROVE x \in Range(q)
  <2>1. CASE x = e
    <3>1. 1 \in DOMAIN q /\ q[1] = e
      BY <1>1, <1>3, <1>6
    <3> QED BY <2>1, <3>1 DEF Range
  <2>2. CASE x \in Range(Tail(s))
    <3>1. PICK i \in 1 .. (Len(s) - 1) : x = Tail(s)[i]
      BY <1>6, <2>2 DEF Range
    <3>2. i + 1 \in DOMAIN q /\ i + 1 # 1 /\ x = s[i + 1]
      BY <1>1, <1>6, <3>1
    <3>3. q[i + 1] = s[i + 1]
      BY <1>3, <1>6, <3>2
    <3> QED BY <3>2, <3>3 DEF Range
  <2> QED BY <1>8, <2>1, <2>2
<1>9. Range(q) = {e} \cup Range(Tail(s))
  BY <1>7, <1>8
<1> QED BY <1>2, <1>3, <1>4, <1>5, <1>9

\* The same, of a stack q that is given.
LEMMA PutIs ==
    ASSUME NEW S, NEW s \in Seq(S), s # << >>, NEW e \in S, NEW q, q = [s EXCEPT ![1] = e]
    PROVE  /\ q \in Seq(S) /\ q # << >> /\ Head(q) = e /\ Range(q) = {e} \cup Range(Tail(s))
           /\ Range(s) = {Head(s)} \cup Range(Tail(s))
  BY PutOf, TailOf

-----------------------------------------------------------------------------
(* Trees *)

\* A context is above itself.
LEMMA AboveSelf ==
    ASSUME NEW c \in Contexts
    PROVE  Above[c] \subseteq Contexts /\ c \in Above[c]
  BY DEF Above

\* What is above the parent is above.
LEMMA AboveHasParents ==
    ASSUME NEW c \in Contexts
    PROVE  HasParents(Above[c])
<1> SUFFICES ASSUME NEW x \in Above[c], Parent[x] # None
             PROVE  Parent[x] \in Above[c]
  BY DEF HasParents
<1>1. x \in Contexts /\ Parent[x] \in Contexts
  BY ConstantsAssumption, AboveSelf
<1>2. ASSUME NEW S \in SUBSET Contexts, c \in S, HasParents(S) PROVE Parent[x] \in S
  <2>1. x \in S
    BY <1>2 DEF Above
  <2> QED BY <1>2, <2>1 DEF HasParents
<1> QED BY <1>1, <1>2 DEF Above

\* Above[c] is the least such set.
LEMMA AboveLeast ==
    ASSUME NEW c \in Contexts, NEW S \in SUBSET Contexts, c \in S, HasParents(S)
    PROVE  Above[c] \subseteq S
  BY DEF Above

\* What is above a context above is above.
LEMMA AboveTransitive ==
    ASSUME NEW c \in Contexts, NEW a \in Above[c]
    PROVE  Above[a] \subseteq Above[c]
<1>1. a \in Contexts /\ Above[c] \in SUBSET Contexts
  BY AboveSelf
<1> QED BY <1>1, AboveHasParents, AboveLeast

\* A context, and what is above its parent.
LEMMA AboveParent ==
    ASSUME NEW c \in Contexts
    PROVE  Above[c] = {c} \cup (IF Parent[c] = None THEN {} ELSE Above[Parent[c]])
<1> DEFINE U == {c} \cup (IF Parent[c] = None THEN {} ELSE Above[Parent[c]])
<1>1. Parent[c] # None => Parent[c] \in Contexts
  BY ConstantsAssumption
<1>2. U \in SUBSET Contexts /\ c \in U
  BY <1>1, AboveSelf
<1>3. HasParents(U)
  <2> SUFFICES ASSUME NEW x \in U, Parent[x] # None PROVE Parent[x] \in U
    BY DEF HasParents
  <2>1. CASE x = c
    BY <1>1, <2>1, AboveSelf
  <2>2. CASE x # c
    <3>1. Parent[c] # None /\ x \in Above[Parent[c]]
      BY <2>2
    <3>2. HasParents(Above[Parent[c]])
      BY <1>1, <3>1, AboveHasParents
    <3> QED BY <3>1, <3>2 DEF HasParents
  <2> QED BY <2>1, <2>2
<1>4. Above[c] \subseteq U
  BY <1>2, <1>3, AboveLeast
<1>5. U \subseteq Above[c]
  <2>1. c \in Above[c]
    BY AboveSelf
  <2>2. ASSUME Parent[c] # None PROVE Above[Parent[c]] \subseteq Above[c]
    <3>1. Parent[c] \in Above[c]
      BY <2>1, <2>2, AboveHasParents DEF HasParents
    <3> QED BY <3>1, AboveTransitive
  <2> QED BY <2>1, <2>2
<1> QED BY <1>4, <1>5

\* Those above a context are above one another.
LEMMA AboveChain ==
    ASSUME NEW c \in Contexts, NEW a \in Above[c], NEW b \in Above[c]
    PROVE  a \in Above[b] \/ b \in Above[a]
<1> DEFINE S == { x \in Contexts : x \in Above[a] \/ a \in Above[x] }
<1>0. a \in Contexts
  BY AboveSelf
<1>1. c \in S
  OBVIOUS
<1>2. HasParents(S)
  <2> SUFFICES ASSUME NEW x \in Contexts, x \in Above[a] \/ a \in Above[x], Parent[x] # None
               PROVE  Parent[x] \in Contexts /\ (Parent[x] \in Above[a] \/ a \in Above[Parent[x]])
    BY DEF HasParents
  <2>1. Parent[x] \in Contexts
    BY ConstantsAssumption
  <2>2. CASE x \in Above[a]
    <3>1. HasParents(Above[a])
      BY <1>0, AboveHasParents
    <3> QED BY <2>1, <2>2, <3>1 DEF HasParents
  <2>3. CASE a \in Above[x] /\ x \notin Above[a]
    <3>1. x # a
      BY <1>0, <2>3, AboveSelf
    <3> QED BY <2>1, <2>3, <3>1, AboveParent
  <2> QED BY <2>2, <2>3
<1>3. Above[c] \subseteq S
  BY <1>1, <1>2, AboveLeast
<1> QED BY <1>3

\* Nobody is above those above it.
LEMMA AboveAntisymmetric ==
    ASSUME NEW a \in Contexts, NEW b \in Above[a], a \in Above[b]
    PROVE  a = b
<1> SUFFICES ASSUME a # b PROVE FALSE
  OBVIOUS
<1>1. Parent[a] # None /\ b \in Above[Parent[a]]
  BY AboveParent
<1>2. Parent[a] \in Contexts
  BY <1>1, ConstantsAssumption
<1>3. a \in Above[Parent[a]]
  BY <1>1, <1>2, AboveTransitive
<1> QED BY <1>1, <1>3, TreeAssumption

-----------------------------------------------------------------------------
(* Types and shapes *)

WalkFrames == [of : Contexts, at : Nat \ {0}]
StopFrames == [of : Contexts, kids : SUBSET Nat, stops : Seq(Runnables)]
Calls      == [kind : Kinds, of : Contexts \cup Runnables]

Creating(t) == pc[t] \in {"create", "construct", "link"}
Stopping(t) == pc[t] \in {"signal", "collect", "kids", "stops"}
Starting(t) == pc[t] \in {"count", "start"}
Walking(t)  == pc[t] = "children" \/ (Starting(t) /\ run[t] = None)
Adding(t)   == pc[t] \in {"added", "addstop"} \/ (Starting(t) /\ run[t] # None)

\* What is on the stack of a thread, and what its other variables hold, where it is.
Shaped(t) ==
    /\ Walking(t) => stack[t] \in Seq(WalkFrames)
    /\ Stopping(t) => stack[t] \in Seq(StopFrames)
    /\ ~Walking(t) /\ ~Stopping(t) => stack[t] = << >>
    /\ pc[t] \in {"children", "collect", "kids", "stops"} => stack[t] # << >>
    /\ pc[t] = "stops" => Head(stack[t]).kids = {}
    /\ pc[t] # "idle" => ctx[t] \in Contexts
    /\ Adding(t) \/ pc[t] = "add" => run[t] \in Runnables /\ Of[run[t]] = ctx[t]
    /\ pc[t] \in {"initiate", "children"} => run[t] = None
    /\ Creating(t) => Parent[ctx[t]] # None
    /\ Stopping(t) \/ pc[t] \in {"shutdown", "wait"} => op[t].of \in Contexts
    /\ pc[t] = "start" => local[t] # None

\* The children a thread has still to shut down are there.
KidsThere(t) ==
    Stopping(t) => \A f \in Range(stack[t]) : f.kids \subseteq DOMAIN m_children[f.of]

\* The calls that are still to be made make sense.
Sensible(w) == w.of \in IF w.kind = "add" THEN Runnables \ Holds ELSE Contexts

CallsOK ==
    /\ todo \in [Threads -> SUBSET Calls]
    /\ op \in [Threads -> Calls \cup {None}]
    /\ stack \in [Threads -> Seq(WalkFrames) \cup Seq(StopFrames)]
    /\ \A t \in Threads : \A w \in todo[t] :
          Sensible(w) /\ (w.kind = "create" => Parent[w.of] # None)

\* When a runnable is being added to a context, there is one.
Flagged == \A c \in Contexts : m_beforeRunning[c] => m_threads[c] # << >>

Typed ==
    /\ TypeOK /\ CallsOK /\ Flagged
    /\ \A t \in Threads : Shaped(t) /\ KidsThere(t)

\* What a step of t leaves alone.
Others(t) ==
    \A u \in Threads \ {t} :
        /\ pc'[u] = pc[u] /\ op'[u] = op[u] /\ ctx'[u] = ctx[u] /\ run'[u] = run[u]
        /\ rest'[u] = rest[u] /\ local'[u] = local[u] /\ stack'[u] = stack[u] /\ todo'[u] = todo[u]

\* Children are only added.
ChildrenStay ==
    \A c \in Contexts :
        /\ DOMAIN m_children[c] \subseteq DOMAIN m_children'[c]
        /\ \A i \in DOMAIN m_children[c] : m_children'[c][i] = m_children[c][i]

\* What is left of Typed' after a step of t is about t.
LEMMA TypedStep ==
    ASSUME Typed, NEW t \in Threads, TypeOK', CallsOK', Flagged', Others(t), ChildrenStay, Shaped(t)', KidsThere(t)'
    PROVE  Typed'
<1>1. ASSUME NEW u \in Threads, u # t PROVE Shaped(u)'
  <2>1. Shaped(u)
    BY DEF Typed
  <2> QED BY <1>1, <2>1 DEF Shaped, Others, Walking, Stopping, Starting, Adding, Creating
<1>2. ASSUME NEW u \in Threads, u # t PROVE KidsThere(u)'
  <2>1. stack'[u] = stack[u] /\ pc'[u] = pc[u]
    BY <1>2 DEF Others
  <2> SUFFICES ASSUME Stopping(u), NEW f \in Range(stack[u])
               PROVE  f.kids \subseteq DOMAIN m_children'[f.of]
    BY <2>1 DEF KidsThere, Stopping
  <2>2. f.kids \subseteq DOMAIN m_children[f.of]
    BY DEF Typed, KidsThere
  <2>3. f.of \in Contexts
    <3>1. stack[u] \in Seq(StopFrames)
      BY DEF Typed, Shaped
    <3>2. f \in StopFrames
      BY <3>1 DEF Range
    <3> QED BY <3>2 DEF StopFrames
  <2> QED BY <2>2, <2>3 DEF ChildrenStay
<1> QED BY <1>1, <1>2 DEF Typed

\* The initial states are typed and well shaped.
LEMMA InitTyped ==
    ASSUME Init PROVE Typed
<1>1. PICK s \in Setups :
        /\ m_children = [c \in Contexts |-> s.made[c]] /\ todo = s.todo
  BY DEF Init
<1>2. /\ s.made \in [Contexts -> Seq(Contexts)]
      /\ s.todo \in [Threads -> SUBSET Calls]
      /\ \A t \in Threads : \A w \in s.todo[t] :
            Sensible(w) /\ (w.kind = "create" => Parent[w.of] # None)
  BY SetupsAssumption DEF Calls, Sensible
<1>3. linked \subseteq Contexts
  <2>1. PICK q \in Setups :
        linked = { c \in Contexts : Parent[c] = None }
                      \cup UNION { { q.made[c][i] : i \in DOMAIN q.made[c] } : c \in Contexts }
    BY DEF Init
  <2>2. q.made \in [Contexts -> Seq(Contexts)]
    BY SetupsAssumption
  <2>3. \A c \in Contexts : \A i \in DOMAIN q.made[c] : q.made[c][i] \in Contexts
    BY <2>2
  <2> QED BY <2>1, <2>3
<1>4. TypeOK
  <2>1. /\ m_state = [c \in Contexts |-> "NotStarted"]
        /\ m_threads = [c \in Contexts |-> << >>]
        /\ m_beforeRunning = [c \in Contexts |-> FALSE]
        /\ m_outstanding = [c \in Contexts |-> None]
        /\ counter = [k \in Counters |-> "free"]
        /\ parentCount = [k \in Counters |-> None]
        /\ by = [k \in Counters |-> None]
        /\ started = {} /\ stop = {}
        /\ held = [r \in Runnables |-> None]
        /\ pc = [t \in Threads |-> "idle"]
        /\ ctx = [t \in Threads |-> None]
        /\ run = [t \in Threads |-> None]
        /\ rest = [t \in Threads |-> << >>]
        /\ local = [t \in Threads |-> None]
        /\ overtaken = {} /\ unseen = {} /\ settled = {} /\ quieted = {}
    BY DEF Init
  <2>2. << >> \in Seq(Runnables)
    OBVIOUS
  <2>3. m_children \in [Contexts -> Seq(Contexts)]
    BY <1>1, <1>2
  <2>4. m_threads \in [Contexts -> Seq(Runnables)] /\ rest \in [Threads -> Seq(Runnables)]
    BY <2>1, <2>2
  <2> QED BY <1>3, <2>1, <2>3, <2>4 DEF TypeOK, States, Points
<1>5. CallsOK
  <2>1. op = [t \in Threads |-> None] /\ stack = [t \in Threads |-> << >>]
    BY DEF Init
  <2>2. << >> \in Seq(WalkFrames)
    OBVIOUS
  <2>3. stack \in [Threads -> Seq(WalkFrames) \cup Seq(StopFrames)]
    BY <2>1, <2>2
  <2> QED BY <1>1, <1>2, <2>1, <2>3 DEF CallsOK
<1>6. \A t \in Threads : pc[t] = "idle" /\ stack[t] = << >>
  BY DEF Init
<1>7. Flagged
  BY DEF Init, Flagged
<1> QED BY <1>7,  <1>4, <1>5, <1>6 DEF Typed, Shaped, KidsThere, Walking, Stopping, Starting, Adding, Creating

-----------------------------------------------------------------------------
(* What the steps do *)

\* A thread calls an operation.
LEMMA CallDoes ==
    ASSUME Typed, NEW t \in Threads, Call(t)
    PROVE  /\ TypeOK' /\ CallsOK' /\ Others(t)
           /\ UNCHANGED << treeVars, counterVars, runVars, rest, local, stack, histVars >>
           /\ pc[t] = "idle"
           /\ \E w \in todo[t] :
                LET c == IF w.kind = "add" THEN Of[w.of] ELSE w.of IN
                /\ w \in Calls /\ Sensible(w) /\ c \in Contexts
                /\ w.kind = "create" => Parent[c] # None /\ Parent[c] \in linked
                /\ w.kind # "create" => c \in linked
                /\ op'[t] = w /\ ctx'[t] = c /\ pc'[t] = w.kind
                /\ run'[t] = (IF w.kind = "add" THEN w.of ELSE None)
                /\ todo'[t] = todo[t] \ {w}
<1>1. PICK w \in todo[t] :
         /\ op' = [op EXCEPT ![t] = w]
         /\ ctx' = [ctx EXCEPT ![t] = IF w.kind = "add" THEN Of[w.of] ELSE w.of]
         /\ run' = [run EXCEPT ![t] = IF w.kind = "add" THEN w.of ELSE None]
         /\ todo' = [todo EXCEPT ![t] = @ \ {w}]
         /\ pc' = [pc EXCEPT ![t] = w.kind]
         /\ IF w.kind = "create" THEN Parent[w.of] \in linked
            ELSE (IF w.kind = "add" THEN Of[w.of] ELSE w.of) \in linked
  BY DEF Call, Goto
<1>2. /\ pc[t] = "idle"
      /\ UNCHANGED << treeVars, counterVars, runVars, rest, local, stack, histVars >>
  BY DEF Call, At
<1>3. /\ w \in Calls /\ Sensible(w) /\ (w.kind = "create" => Parent[w.of] # None)
      /\ todo \in [Threads -> SUBSET Calls] /\ op \in [Threads -> Calls \cup {None}]
      /\ stack \in [Threads -> Seq(WalkFrames) \cup Seq(StopFrames)]
  BY DEF Typed, CallsOK
<1>4. /\ w.kind \in Kinds
      /\ w.kind = "add" => w.of \in Runnables /\ Of[w.of] \in Contexts
      /\ w.kind # "add" => w.of \in Contexts
  BY <1>3, ConstantsAssumption DEF Calls, Sensible
<1>5. TypeOK'
  <2>1. pc' \in [Threads -> Points]
    BY <1>1, <1>4 DEF Typed, TypeOK, Kinds, Points
  <2>2. ctx' \in [Threads -> Contexts \cup {None}]
    BY <1>1, <1>4 DEF Typed, TypeOK
  <2>3. run' \in [Threads -> Runnables \cup {None}]
    BY <1>1, <1>4 DEF Typed, TypeOK
  <2> QED BY <1>2, <2>1, <2>2, <2>3 DEF Typed, TypeOK, treeVars, counterVars, runVars, histVars
<1>6. /\ todo' \in [Threads -> SUBSET Calls] /\ op' \in [Threads -> Calls \cup {None}]
      /\ todo'[t] = todo[t] \ {w} /\ op'[t] = w
      /\ \A u \in Threads \ {t} : todo'[u] = todo[u] /\ op'[u] = op[u]
  BY <1>1, <1>3
<1>7. CallsOK'
  <2>1. stack' = stack
    BY <1>2
  <2>2. \A u \in Threads : todo'[u] \subseteq todo[u]
    BY <1>6
  <2> QED BY <1>3, <1>6, <2>1, <2>2 DEF Typed, CallsOK, Sensible
<1>8. Others(t)
  BY <1>1, <1>2, <1>6 DEF Others, Typed, TypeOK
<1>9. pc'[t] = w.kind /\ ctx'[t] = (IF w.kind = "add" THEN Of[w.of] ELSE w.of)
      /\ run'[t] = (IF w.kind = "add" THEN w.of ELSE None)
  BY <1>1 DEF Typed, TypeOK
<1> QED BY <1>1, <1>2, <1>3, <1>4, <1>5, <1>6, <1>7, <1>8, <1>9

\* The calls of all threads and the stacks are as before.
LEMMA CallsKept ==
    ASSUME Typed, UNCHANGED << todo, op, stack >>
    PROVE  CallsOK'
  BY DEF Typed, CallsOK, Sensible

\* CreateInternal reserves a place, or gives up below a parent that was shut down.
LEMMA CreateDoes ==
    ASSUME Typed, NEW t \in Threads, Create(t)
    PROVE  /\ TypeOK' /\ CallsOK' /\ Others(t) /\ ChildrenStay
           /\ UNCHANGED << m_state, m_threads, m_beforeRunning, linked, counterVars, runVars, op, ctx,
                           run, rest, local, stack, todo, histVars >>
           /\ pc[t] = "create" /\ ctx[t] \in Contexts /\ Parent[ctx[t]] \in Contexts
           /\ \/ IsShutdown(Parent[ctx[t]]) /\ pc'[t] = "idle" /\ m_children' = m_children
              \/ /\ ~IsShutdown(Parent[ctx[t]]) /\ pc'[t] = "construct"
                 /\ m_children' = [m_children EXCEPT ![Parent[ctx[t]]] = Append(@, ctx[t])]
                 /\ \E i \in DOMAIN m_children'[Parent[ctx[t]]] : m_children'[Parent[ctx[t]]][i] = ctx[t]
<1> DEFINE p == Parent[ctx[t]]
<1>1. /\ UNCHANGED << m_state, m_threads, m_beforeRunning, linked, counterVars, runVars, op, ctx,
                      run, rest, local, stack, todo, histVars >>
      /\ pc[t] = "create"
      /\ \/ IsShutdown(p) /\ pc' = [pc EXCEPT ![t] = "idle"] /\ m_children' = m_children
         \/ /\ ~IsShutdown(p) /\ pc' = [pc EXCEPT ![t] = "construct"]
            /\ m_children' = [m_children EXCEPT ![p] = Append(@, ctx[t])]
  BY DEF Create, At, Goto
<1>2. ctx[t] \in Contexts /\ p \in Contexts
  BY <1>1, ConstantsAssumption DEF Typed, Shaped, Creating
<1>3. pc' \in [Threads -> Points] /\ \A u \in Threads \ {t} : pc'[u] = pc[u]
  BY <1>1 DEF Typed, TypeOK, Points
<1>4. m_children' \in [Contexts -> Seq(Contexts)] /\ ChildrenStay
  <2>1. CASE m_children' = m_children
    BY <2>1 DEF Typed, TypeOK, ChildrenStay
  <2>2. CASE m_children' = [m_children EXCEPT ![p] = Append(@, ctx[t])]
    BY <1>2, <2>2, AppendProperties DEF Typed, TypeOK, ChildrenStay
  <2> QED BY <1>1, <2>1, <2>2
<1>5. TypeOK'
  BY <1>1, <1>3, <1>4 DEF Typed, TypeOK, counterVars, runVars, histVars
<1>6. CallsOK' /\ Others(t)
  BY <1>1, <1>3, CallsKept DEF Others
<1>7. \/ IsShutdown(p) /\ pc'[t] = "idle" /\ m_children' = m_children
      \/ /\ ~IsShutdown(p) /\ pc'[t] = "construct"
         /\ m_children' = [m_children EXCEPT ![p] = Append(@, ctx[t])]
  BY <1>1 DEF Typed, TypeOK
<1>8. ASSUME m_children' = [m_children EXCEPT ![p] = Append(@, ctx[t])]
      PROVE  \E i \in DOMAIN m_children'[p] : m_children'[p][i] = ctx[t]
  <2>1. m_children'[p] = Append(m_children[p], ctx[t]) /\ m_children[p] \in Seq(Contexts)
    BY <1>2, <1>8 DEF Typed, TypeOK
  <2>2. Len(m_children[p]) + 1 \in DOMAIN m_children'[p]
    BY <1>2, <2>1, AppendProperties, LenProperties
  <2>3. m_children'[p][Len(m_children[p]) + 1] = ctx[t]
    BY <1>2, <2>1, AppendProperties, LenProperties
  <2> QED BY <2>2, <2>3
<1> QED BY <1>1, <1>2, <1>4, <1>5, <1>6, <1>7, <1>8

\* CreateInternal looks at the parent.
LEMMA ConstructDoes ==
    ASSUME Typed, NEW t \in Threads, Construct(t)
    PROVE  /\ TypeOK' /\ CallsOK' /\ Others(t) /\ ChildrenStay
           /\ UNCHANGED << m_threads, m_beforeRunning, m_children, linked, counterVars, runVars, op, ctx,
                           run, rest, local, stack, todo, histVars >>
           /\ pc[t] = "construct" /\ pc'[t] = "link" /\ ctx[t] \in Contexts
           /\ \A c \in Contexts \ {ctx[t]} : m_state'[c] = m_state[c]
           /\ m_state'[ctx[t]] = IF IsRunning(Parent[ctx[t]]) THEN "CanRun" ELSE m_state[ctx[t]]
<1>1. /\ UNCHANGED << m_threads, m_beforeRunning, m_children, linked, counterVars, runVars, op, ctx,
                      run, rest, local, stack, todo, histVars >>
      /\ pc[t] = "construct" /\ pc' = [pc EXCEPT ![t] = "link"]
      /\ m_state' = IF IsRunning(Parent[ctx[t]]) THEN [m_state EXCEPT ![ctx[t]] = "CanRun"] ELSE m_state
  BY DEF Construct, At, Goto
<1>2. ctx[t] \in Contexts
  BY <1>1 DEF Typed, Shaped
<1>3. pc' \in [Threads -> Points] /\ pc'[t] = "link" /\ \A u \in Threads \ {t} : pc'[u] = pc[u]
  BY <1>1 DEF Typed, TypeOK, Points
<1>4. /\ m_state' \in [Contexts -> States]
      /\ \A c \in Contexts \ {ctx[t]} : m_state'[c] = m_state[c]
      /\ m_state'[ctx[t]] = IF IsRunning(Parent[ctx[t]]) THEN "CanRun" ELSE m_state[ctx[t]]
  BY <1>1, <1>2 DEF Typed, TypeOK, States
<1>5. TypeOK'
  BY <1>1, <1>3, <1>4 DEF Typed, TypeOK, counterVars, runVars, histVars
<1>6. CallsOK' /\ Others(t) /\ ChildrenStay
  BY <1>1, <1>3, CallsKept DEF Others, ChildrenStay
<1> QED BY <1>1, <1>2, <1>3, <1>4, <1>5, <1>6

\* CreateInternal links the child.
LEMMA LinkDoes ==
    ASSUME Typed, NEW t \in Threads, Link(t)
    PROVE  /\ TypeOK' /\ CallsOK' /\ Others(t) /\ ChildrenStay
           /\ UNCHANGED << m_threads, m_beforeRunning, m_children, counterVars, runVars, op, ctx,
                           run, rest, local, stack, todo, ends, settled, quieted >>
           /\ pc[t] = "link" /\ pc'[t] = "idle" /\ ctx[t] \in Contexts
           /\ linked' = linked \cup {ctx[t]}
           /\ \A c \in Contexts \ {ctx[t]} : m_state'[c] = m_state[c]
           /\ m_state'[ctx[t]] = BornState(ctx[t])
           /\ unseen' = IF IsRunning(Parent[ctx[t]]) /\ m_state[ctx[t]] = "NotStarted"
                        THEN unseen \cup {ctx[t]} ELSE unseen
<1>1. /\ UNCHANGED << m_threads, m_beforeRunning, m_children, counterVars, runVars, op, ctx,
                      run, rest, local, stack, todo, ends, settled, quieted >>
      /\ pc[t] = "link" /\ pc' = [pc EXCEPT ![t] = "idle"]
      /\ linked' = linked \cup {ctx[t]}
      /\ m_state' = [m_state EXCEPT ![ctx[t]] = BornState(ctx[t])]
      /\ unseen' = IF IsRunning(Parent[ctx[t]]) /\ m_state[ctx[t]] = "NotStarted"
                   THEN unseen \cup {ctx[t]} ELSE unseen
  BY DEF Link, At, Goto
<1>2. ctx[t] \in Contexts
  BY <1>1 DEF Typed, Shaped
<1>3. pc' \in [Threads -> Points] /\ pc'[t] = "idle" /\ \A u \in Threads \ {t} : pc'[u] = pc[u]
  BY <1>1 DEF Typed, TypeOK, Points
<1>4. /\ m_state' \in [Contexts -> States]
      /\ \A c \in Contexts \ {ctx[t]} : m_state'[c] = m_state[c]
      /\ m_state'[ctx[t]] = BornState(ctx[t])
  BY <1>1, <1>2 DEF Typed, TypeOK, States, BornState
<1>5. linked' \subseteq Contexts /\ unseen' \subseteq Contexts
  BY <1>1, <1>2 DEF Typed, TypeOK
<1>6. TypeOK'
  BY <1>1, <1>3, <1>4, <1>5 DEF Typed, TypeOK, counterVars, runVars
<1>7. CallsOK' /\ Others(t) /\ ChildrenStay
  BY <1>1, <1>3, CallsKept DEF Others, ChildrenStay
<1> QED BY <1>1, <1>2, <1>3, <1>4, <1>5, <1>6, <1>7

\* Initiate: nothing to do, a context that cannot run yet, or one that runs now.
LEMMA InitiateDoes ==
    ASSUME Typed, NEW t \in Threads, Initiate(t)
    PROVE  /\ TypeOK' /\ CallsOK' /\ Others(t) /\ ChildrenStay
           /\ UNCHANGED << m_threads, m_beforeRunning, m_children, linked, counterVars, runVars, op, ctx,
                           local, todo, histVars >>
           /\ pc[t] = "initiate" /\ run[t] = None /\ stack[t] = << >> /\ ctx[t] \in Contexts
           /\ \A c \in Contexts \ {ctx[t]} : m_state'[c] = m_state[c]
           /\ \/ /\ m_state[ctx[t]] \notin {"NotStarted", "CanRun"} /\ pc'[t] = "idle"
                 /\ m_state' = m_state /\ UNCHANGED << run, rest, stack >>
              \/ /\ m_state[ctx[t]] = "NotStarted" /\ m_state'[ctx[t]] = "Initiated"
                 /\ pc'[t] = "add" /\ run'[t] = Hold[ctx[t]] /\ UNCHANGED << rest, stack >>
              \/ /\ m_state[ctx[t]] \in {"NotStarted", "CanRun"} /\ m_state'[ctx[t]] = "Running"
                 /\ run' = run /\ rest'[t] = m_threads[ctx[t]]
                 /\ \/ m_threads[ctx[t]] # << >> /\ pc'[t] = "count" /\ stack' = stack
                    \/ /\ m_threads[ctx[t]] = << >> /\ pc'[t] = "children"
                       /\ stack'[t] = << [of |-> ctx[t], at |-> 1] >>
<1> DEFINE c == ctx[t]
<1>1. /\ UNCHANGED << m_threads, m_beforeRunning, m_children, linked, counterVars, runVars, op, ctx,
                      local, todo, histVars >>
      /\ pc[t] = "initiate"
      /\ m_state' = [m_state EXCEPT ![c] = InitiatedState(c)]
      /\ \/ /\ m_state[c] \notin {"NotStarted", "CanRun"}
            /\ pc' = [pc EXCEPT ![t] = "idle"] /\ UNCHANGED << run, rest, stack >>
         \/ /\ m_state[c] \in {"NotStarted", "CanRun"} /\ InitiatedState(c) = "Initiated"
            /\ pc' = [pc EXCEPT ![t] = "add"] /\ run' = [run EXCEPT ![t] = Hold[c]]
            /\ UNCHANGED << rest, stack >>
         \/ /\ m_state[c] \in {"NotStarted", "CanRun"} /\ InitiatedState(c) # "Initiated"
            /\ rest' = [rest EXCEPT ![t] = m_threads[c]] /\ run' = run
            /\ \/ m_threads[c] # << >> /\ pc' = [pc EXCEPT ![t] = "count"] /\ stack' = stack
               \/ /\ m_threads[c] = << >> /\ pc' = [pc EXCEPT ![t] = "children"]
                  /\ stack' = [stack EXCEPT ![t] = << [of |-> c, at |-> 1] >>]
  BY DEF Initiate, At, Goto
<1>2. c \in Contexts /\ run[t] = None /\ stack[t] = << >>
  BY <1>1 DEF Typed, Shaped, Walking, Starting, Stopping
<1>3. /\ InitiatedState(c) \in States
      /\ m_state[c] \notin {"NotStarted", "CanRun"} => InitiatedState(c) = m_state[c]
      /\ InitiatedState(c) = "Initiated" /\ m_state[c] \in {"NotStarted", "CanRun"} => m_state[c] = "NotStarted"
      /\ InitiatedState(c) # "Initiated" /\ m_state[c] \in {"NotStarted", "CanRun"} => InitiatedState(c) = "Running"
  BY <1>2 DEF InitiatedState, Typed, TypeOK, States
<1>4. /\ m_state' \in [Contexts -> States] /\ m_state'[c] = InitiatedState(c)
      /\ \A x \in Contexts \ {c} : m_state'[x] = m_state[x]
      /\ InitiatedState(c) = m_state[c] => m_state' = m_state
  BY <1>1, <1>2, <1>3 DEF Typed, TypeOK
<1>5. Hold[c] \in Runnables /\ m_threads[c] \in Seq(Runnables)
  BY <1>2, ConstantsAssumption DEF Typed, TypeOK
<1>6. << [of |-> c, at |-> 1] >> \in Seq(WalkFrames)
  <2>1. [of |-> c, at |-> 1] \in WalkFrames
    BY <1>2 DEF WalkFrames
  <2> QED BY <2>1
<1>7. pc' \in [Threads -> Points] /\ \A u \in Threads \ {t} : pc'[u] = pc[u]
  BY <1>1 DEF Typed, TypeOK, Points
<1>8. run' \in [Threads -> Runnables \cup {None}] /\ \A u \in Threads \ {t} : run'[u] = run[u]
  BY <1>1, <1>5 DEF Typed, TypeOK
<1>9. rest' \in [Threads -> Seq(Runnables)] /\ \A u \in Threads \ {t} : rest'[u] = rest[u]
  BY <1>1, <1>5 DEF Typed, TypeOK
<1>10. /\ stack' \in [Threads -> Seq(WalkFrames) \cup Seq(StopFrames)]
       /\ \A u \in Threads \ {t} : stack'[u] = stack[u]
  BY <1>1, <1>6 DEF Typed, CallsOK
<1>11. TypeOK'
  BY <1>1, <1>4, <1>7, <1>8, <1>9 DEF Typed, TypeOK, counterVars, runVars, histVars
<1>12. CallsOK'
  BY <1>1, <1>10 DEF Typed, CallsOK, Sensible
<1>13. Others(t) /\ ChildrenStay
  BY <1>1, <1>7, <1>8, <1>9, <1>10 DEF Others, ChildrenStay
<1>14. CASE /\ m_state[c] \notin {"NotStarted", "CanRun"}
            /\ pc' = [pc EXCEPT ![t] = "idle"] /\ UNCHANGED << run, rest, stack >>
  <2>1. pc'[t] = "idle"
    BY <1>14 DEF Typed, TypeOK
  <2> QED BY <1>1, <1>2, <1>3, <1>4, <1>11, <1>12, <1>13, <1>14, <2>1
<1>15. CASE /\ m_state[c] \in {"NotStarted", "CanRun"} /\ InitiatedState(c) = "Initiated"
            /\ pc' = [pc EXCEPT ![t] = "add"] /\ run' = [run EXCEPT ![t] = Hold[c]]
            /\ UNCHANGED << rest, stack >>
  <2>1. pc'[t] = "add" /\ run'[t] = Hold[c]
    BY <1>15 DEF Typed, TypeOK
  <2> QED BY <1>1, <1>2, <1>3, <1>4, <1>11, <1>12, <1>13, <1>15, <2>1
<1>16. CASE /\ m_state[c] \in {"NotStarted", "CanRun"} /\ InitiatedState(c) # "Initiated"
            /\ rest' = [rest EXCEPT ![t] = m_threads[c]] /\ run' = run
            /\ \/ m_threads[c] # << >> /\ pc' = [pc EXCEPT ![t] = "count"] /\ stack' = stack
               \/ /\ m_threads[c] = << >> /\ pc' = [pc EXCEPT ![t] = "children"]
                  /\ stack' = [stack EXCEPT ![t] = << [of |-> c, at |-> 1] >>]
  <2>1. /\ rest'[t] = m_threads[c]
        /\ pc' = [pc EXCEPT ![t] = "count"] => pc'[t] = "count"
        /\ pc' = [pc EXCEPT ![t] = "children"] => pc'[t] = "children"
    BY <1>16 DEF Typed, TypeOK
  <2>2. stack' = [stack EXCEPT ![t] = << [of |-> c, at |-> 1] >>] => stack'[t] = << [of |-> c, at |-> 1] >>
    BY DEF Typed, CallsOK
  <2> QED BY <1>1, <1>2, <1>3, <1>4, <1>11, <1>12, <1>13, <1>16, <2>1, <2>2
<1> QED BY <1>1, <1>14, <1>15, <1>16

\* TryTransitionChildrenState is through with the children of f.of, or is at child c.
WalkEnds(t, f) ==
    /\ f.at > Len(m_children[f.of])
    /\ stack'[t] = Tail(stack[t]) /\ UNCHANGED << m_state, ctx, rest >>
    /\ \/ stack'[t] = << >> /\ pc'[t] = "idle"
       \/ stack'[t] # << >> /\ pc'[t] = "children"
WalkSkips(t, c) ==
    c \notin linked /\ pc'[t] = "children" /\ UNCHANGED << m_state, ctx, rest >>
WalkStarts(t, c) ==
    /\ c \in linked /\ m_state[c] = "Initiated" /\ m_state'[c] = "Running"
    /\ pc'[t] = "count" /\ ctx'[t] = c /\ rest'[t] = m_threads[c]
    /\ \A x \in Contexts \ {c} : m_state'[x] = m_state[x]
WalkTells(t, c) ==
    /\ c \in linked /\ m_state[c] # "Initiated" /\ pc'[t] = "children"
    /\ m_state'[c] = IF m_state[c] = "NotStarted" THEN "CanRun" ELSE m_state[c]
    /\ \A x \in Contexts \ {c} : m_state'[x] = m_state[x]
    /\ UNCHANGED << ctx, rest >>
WalkOn(t, f, c) ==
    /\ f.at \in DOMAIN m_children[f.of] /\ c = m_children[f.of][f.at]
    /\ stack'[t] = [stack[t] EXCEPT ![1] = [of |-> f.of, at |-> f.at + 1]]
    /\ WalkSkips(t, c) \/ WalkStarts(t, c) \/ WalkTells(t, c)

\* TryTransitionChildrenState: the end of the list, or the next child.
LEMMA TransitionDoes ==
    ASSUME Typed, NEW t \in Threads, Transition(t)
    PROVE  /\ TypeOK' /\ CallsOK' /\ Others(t) /\ ChildrenStay
           /\ UNCHANGED << m_threads, m_beforeRunning, m_children, linked, counterVars, runVars, op, run,
                           local, todo, histVars >>
           /\ pc[t] = "children" /\ run[t] = None /\ stack[t] \in Seq(WalkFrames) /\ stack[t] # << >>
           /\ \E f \in WalkFrames :
                /\ f = Head(stack[t])
                /\ WalkEnds(t, f) \/ \E c \in Contexts : WalkOn(t, f, c)
<1> DEFINE f == Head(stack[t])
           n == m_children[f.of][f.at]
<1>1. /\ UNCHANGED << m_threads, m_beforeRunning, m_children, linked, counterVars, runVars, op, run,
                      local, todo, histVars >>
      /\ pc[t] = "children"
      /\ \/ /\ ~(f.at <= Len(m_children[f.of])) /\ stack' = [stack EXCEPT ![t] = Tail(@)]
            /\ \/ Len(stack[t]) = 1 /\ pc' = [pc EXCEPT ![t] = "idle"]
               \/ Len(stack[t]) # 1 /\ pc' = pc
            /\ UNCHANGED << m_state, ctx, rest >>
         \/ /\ f.at <= Len(m_children[f.of]) /\ stack' = [stack EXCEPT ![t][1].at = @ + 1]
            /\ \/ n \notin linked /\ UNCHANGED << m_state, pc, ctx, rest >>
               \/ /\ n \in linked /\ m_state' = [m_state EXCEPT ![n] = ChildState(n)]
                  /\ \/ /\ m_state[n] = "Initiated"
                        /\ rest' = [rest EXCEPT ![t] = m_threads[n]]
                        /\ ctx' = [ctx EXCEPT ![t] = n]
                        /\ pc' = [pc EXCEPT ![t] = "count"]
                     \/ m_state[n] # "Initiated" /\ UNCHANGED << pc, ctx, rest >>
  BY ONLY Transition(t) DEF Transition, At, Goto
<1>2. stack[t] \in Seq(WalkFrames) /\ stack[t] # << >> /\ run[t] = None
  BY <1>1 DEF Typed, Shaped, Walking
<1>3. /\ f \in WalkFrames /\ f = stack[t][1] /\ Tail(stack[t]) \in Seq(WalkFrames)
      /\ Len(stack[t]) \in Nat /\ Len(Tail(stack[t])) = Len(stack[t]) - 1
  BY <1>2, TailOf
<1>4. /\ f.of \in Contexts /\ f.at \in Nat \ {0} /\ m_children[f.of] \in Seq(Contexts)
      /\ Len(m_children[f.of]) \in Nat /\ DOMAIN m_children[f.of] = 1 .. Len(m_children[f.of])
      /\ f = [of |-> f.of, at |-> f.at]
  <2>1. f.of \in Contexts /\ f.at \in Nat \ {0} /\ f = [of |-> f.of, at |-> f.at]
    BY <1>3 DEF WalkFrames
  <2>2. m_children[f.of] \in Seq(Contexts)
    BY <2>1 DEF Typed, TypeOK
  <2> QED BY <2>1, <2>2, LenProperties
<1>5. /\ pc \in [Threads -> Points] /\ ctx \in [Threads -> Contexts \cup {None}]
      /\ rest \in [Threads -> Seq(Runnables)] /\ m_state \in [Contexts -> States]
      /\ m_threads \in [Contexts -> Seq(Runnables)]
      /\ stack \in [Threads -> Seq(WalkFrames) \cup Seq(StopFrames)] /\ linked \subseteq Contexts
  BY DEF Typed, TypeOK, CallsOK
<1>6. ASSUME /\ stack' \in [Threads -> Seq(WalkFrames) \cup Seq(StopFrames)]
             /\ pc' \in [Threads -> Points] /\ ctx' \in [Threads -> Contexts \cup {None}]
             /\ rest' \in [Threads -> Seq(Runnables)] /\ m_state' \in [Contexts -> States]
             /\ \A u \in Threads \ {t} : /\ stack'[u] = stack[u] /\ pc'[u] = pc[u]
                                         /\ ctx'[u] = ctx[u] /\ rest'[u] = rest[u]
      PROVE  TypeOK' /\ CallsOK' /\ Others(t) /\ ChildrenStay
  <2>1. TypeOK'
    BY <1>1, <1>6 DEF Typed, TypeOK, counterVars, runVars, histVars
  <2>2. CallsOK'
    BY <1>1, <1>6 DEF Typed, CallsOK, Sensible
  <2>3. Others(t) /\ ChildrenStay
    BY <1>1, <1>6 DEF Others, ChildrenStay
  <2> QED BY <2>1, <2>2, <2>3
<1>7. CASE /\ ~(f.at <= Len(m_children[f.of])) /\ stack' = [stack EXCEPT ![t] = Tail(@)]
           /\ \/ Len(stack[t]) = 1 /\ pc' = [pc EXCEPT ![t] = "idle"]
              \/ Len(stack[t]) # 1 /\ pc' = pc
           /\ UNCHANGED << m_state, ctx, rest >>
  <2>1. /\ stack'[t] = Tail(stack[t]) /\ \A u \in Threads \ {t} : stack'[u] = stack[u]
        /\ stack' \in [Threads -> Seq(WalkFrames) \cup Seq(StopFrames)]
    BY <1>3, <1>5, <1>7
  <2>2. /\ pc' \in [Threads -> Points] /\ \A u \in Threads \ {t} : pc'[u] = pc[u]
        /\ Len(stack[t]) = 1 => pc'[t] = "idle"
        /\ Len(stack[t]) # 1 => pc'[t] = "children"
    BY <1>1, <1>5, <1>7 DEF Points
  <2>3. Tail(stack[t]) = << >> <=> Len(stack[t]) = 1
    <3>1. PICK q \in Seq(WalkFrames) : q = Tail(stack[t])
      BY <1>3
    <3>2. q = << >> <=> Len(q) = 0
      BY <3>1, EmptySeq
    <3> QED BY <1>3, <3>1, <3>2
  <2>4. f.at > Len(m_children[f.of])
    BY <1>4, <1>7
  <2>5. TypeOK' /\ CallsOK' /\ Others(t) /\ ChildrenStay
    BY <1>5, <1>6, <1>7, <2>1, <2>2
  <2>6. WalkEnds(t, f)
    BY <1>7, <2>1, <2>2, <2>3, <2>4 DEF WalkEnds
  <2> QED BY <1>1, <1>2, <1>3, <2>5, <2>6
<1>8. CASE /\ f.at <= Len(m_children[f.of]) /\ stack' = [stack EXCEPT ![t][1].at = @ + 1]
           /\ \/ n \notin linked /\ UNCHANGED << m_state, pc, ctx, rest >>
              \/ /\ n \in linked /\ m_state' = [m_state EXCEPT ![n] = ChildState(n)]
                 /\ \/ /\ m_state[n] = "Initiated"
                       /\ rest' = [rest EXCEPT ![t] = m_threads[n]]
                       /\ ctx' = [ctx EXCEPT ![t] = n]
                       /\ pc' = [pc EXCEPT ![t] = "count"]
                    \/ m_state[n] # "Initiated" /\ UNCHANGED << pc, ctx, rest >>
  <2>1. f.at \in DOMAIN m_children[f.of] /\ n \in Contexts
    <3>1. f.at <= Len(m_children[f.of])
      BY <1>8
    <3>2. f.at \in 1 .. Len(m_children[f.of])
      BY <1>4, <3>1
    <3> HIDE DEF f
    <3> QED BY <1>4, <3>2
  <2>2. /\ stack'[t] = [stack[t] EXCEPT ![1] = [of |-> f.of, at |-> f.at + 1]]
        /\ \A u \in Threads \ {t} : stack'[u] = stack[u]
        /\ stack' \in [Threads -> Seq(WalkFrames) \cup Seq(StopFrames)]
    <3>1. PICK e : e = [of |-> f.of, at |-> f.at + 1]
      OBVIOUS
    <3>2. e \in WalkFrames /\ e = [stack[t][1] EXCEPT !.at = @ + 1]
      BY <1>3, <1>4, <3>1 DEF WalkFrames
    <3>3. stack' = [stack EXCEPT ![t] = [stack[t] EXCEPT ![1] = e]]
      BY <1>8, <3>2
    <3>4. [stack[t] EXCEPT ![1] = e] \in Seq(WalkFrames)
      BY <1>2, <3>2, PutOf
    <3> QED BY <1>5, <3>1, <3>3, <3>4
  <2>3. /\ ChildState(n) \in States
        /\ m_state[n] = "Initiated" => ChildState(n) = "Running"
        /\ m_state[n] # "Initiated" => ChildState(n) = IF m_state[n] = "NotStarted" THEN "CanRun" ELSE m_state[n]
    BY <1>5, <2>1 DEF ChildState, States
  <2>4. CASE n \notin linked /\ UNCHANGED << m_state, pc, ctx, rest >>
    <3>1. TypeOK' /\ CallsOK' /\ Others(t) /\ ChildrenStay
      BY <1>5, <1>6, <2>2, <2>4
    <3>2. WalkOn(t, f, n)
      BY <1>1, <2>1, <2>2, <2>4 DEF WalkOn, WalkSkips
    <3> QED BY <1>1, <1>2, <1>3, <2>1, <3>1, <3>2
  <2>5. CASE /\ n \in linked /\ m_state' = [m_state EXCEPT ![n] = ChildState(n)]
             /\ m_state[n] = "Initiated"
             /\ rest' = [rest EXCEPT ![t] = m_threads[n]]
             /\ ctx' = [ctx EXCEPT ![t] = n]
             /\ pc' = [pc EXCEPT ![t] = "count"]
    <3>1. /\ m_state' \in [Contexts -> States] /\ m_state'[n] = "Running"
          /\ \A x \in Contexts \ {n} : m_state'[x] = m_state[x]
      BY <1>5, <2>1, <2>3, <2>5
    <3>2. /\ rest' \in [Threads -> Seq(Runnables)] /\ rest'[t] = m_threads[n]
          /\ ctx' \in [Threads -> Contexts \cup {None}] /\ ctx'[t] = n
          /\ pc' \in [Threads -> Points] /\ pc'[t] = "count"
          /\ \A u \in Threads \ {t} : rest'[u] = rest[u] /\ ctx'[u] = ctx[u] /\ pc'[u] = pc[u]
      BY <1>5, <2>1, <2>5 DEF Points
    <3>3. TypeOK' /\ CallsOK' /\ Others(t) /\ ChildrenStay
      BY <1>6, <2>2, <3>1, <3>2
    <3>4. WalkOn(t, f, n)
      BY <2>1, <2>2, <2>5, <3>1, <3>2 DEF WalkOn, WalkStarts
    <3> QED BY <1>1, <1>2, <1>3, <2>1, <3>3, <3>4
  <2>6. CASE /\ n \in linked /\ m_state' = [m_state EXCEPT ![n] = ChildState(n)]
             /\ m_state[n] # "Initiated" /\ UNCHANGED << pc, ctx, rest >>
    <3>1. /\ m_state' \in [Contexts -> States] /\ m_state'[n] = ChildState(n)
          /\ \A x \in Contexts \ {n} : m_state'[x] = m_state[x]
      BY <1>5, <2>1, <2>3, <2>6
    <3>2. TypeOK' /\ CallsOK' /\ Others(t) /\ ChildrenStay
      BY <1>5, <1>6, <2>2, <2>6, <3>1
    <3>3. WalkOn(t, f, n)
      BY <1>1, <2>1, <2>2, <2>3, <2>6, <3>1 DEF WalkOn, WalkTells
    <3> QED BY <1>1, <1>2, <1>3, <2>1, <3>2, <3>3
  <2> QED BY <1>8, <2>4, <2>5, <2>6
<1> QED BY <1>1, <1>7, <1>8

\* AddCoreRunnable puts the runnable in front of the list.
LEMMA AddDoes ==
    ASSUME Typed, NEW t \in Threads, Add(t)
    PROVE  /\ TypeOK' /\ CallsOK' /\ Others(t) /\ ChildrenStay
           /\ UNCHANGED << m_state, m_children, linked, counterVars, runVars, op, ctx, run, local, stack,
                           todo, histVars >>
           /\ pc[t] = "add" /\ ctx[t] \in Contexts /\ run[t] \in Runnables /\ Of[run[t]] = ctx[t]
           /\ stack[t] = << >>
           /\ m_threads'[ctx[t]] = << run[t] >> \o m_threads[ctx[t]]
           /\ m_beforeRunning'[ctx[t]] = TRUE
           /\ \A c \in Contexts \ {ctx[t]} : /\ m_threads'[c] = m_threads[c]
                                             /\ m_beforeRunning'[c] = m_beforeRunning[c]
           /\ \/ IsRunning(ctx[t]) /\ pc'[t] = "count" /\ rest'[t] = << run[t] >>
              \/ ~IsRunning(ctx[t]) /\ pc'[t] = "added" /\ rest'[t] = << >>
<1> DEFINE c == ctx[t]
<1>1. /\ UNCHANGED << m_state, m_children, linked, counterVars, runVars, op, ctx, run, local, stack,
                      todo, histVars >>
      /\ pc[t] = "add"
      /\ m_threads' = [m_threads EXCEPT ![c] = << run[t] >> \o @]
      /\ m_beforeRunning' = [m_beforeRunning EXCEPT ![c] = TRUE]
      /\ rest' = [rest EXCEPT ![t] = IF IsRunning(c) THEN << run[t] >> ELSE << >>]
      /\ pc' = [pc EXCEPT ![t] = IF IsRunning(c) THEN "count" ELSE "added"]
  BY DEF Add, At, Goto, ShouldRun
<1>2. c \in Contexts /\ run[t] \in Runnables /\ Of[run[t]] = c /\ stack[t] = << >>
  BY <1>1 DEF Typed, Shaped, Walking, Starting, Stopping
<1>3. /\ pc' \in [Threads -> Points] /\ \A u \in Threads \ {t} : pc'[u] = pc[u]
      /\ pc'[t] = IF IsRunning(c) THEN "count" ELSE "added"
  BY <1>1 DEF Typed, TypeOK, Points
<1>4. << run[t] >> \in Seq(Runnables) /\ << >> \in Seq(Runnables)
  BY <1>2
<1>5. /\ rest' \in [Threads -> Seq(Runnables)] /\ \A u \in Threads \ {t} : rest'[u] = rest[u]
      /\ rest'[t] = IF IsRunning(c) THEN << run[t] >> ELSE << >>
  BY <1>1, <1>4 DEF Typed, TypeOK
<1>6. << run[t] >> \o m_threads[c] \in Seq(Runnables)
  <2>1. m_threads[c] \in Seq(Runnables)
    BY <1>2 DEF Typed, TypeOK
  <2> QED BY <1>2, <2>1, PushOf
<1>7. /\ m_threads' \in [Contexts -> Seq(Runnables)]
      /\ m_threads'[c] = << run[t] >> \o m_threads[c]
      /\ \A x \in Contexts \ {c} : m_threads'[x] = m_threads[x]
  BY <1>1, <1>2, <1>6 DEF Typed, TypeOK
<1>8. /\ m_beforeRunning' \in [Contexts -> BOOLEAN] /\ m_beforeRunning'[c] = TRUE
      /\ \A x \in Contexts \ {c} : m_beforeRunning'[x] = m_beforeRunning[x]
  BY <1>1, <1>2 DEF Typed, TypeOK
<1>9. TypeOK'
  BY <1>1, <1>3, <1>5, <1>7, <1>8 DEF Typed, TypeOK, counterVars, runVars, histVars
<1>10. CallsOK' /\ Others(t) /\ ChildrenStay
  BY <1>1, <1>3, <1>5, CallsKept DEF Others, ChildrenStay
<1> QED BY <1>1, <1>2, <1>3, <1>5, <1>7, <1>8, <1>9, <1>10

\* AddCoreRunnable looks at the state again.
LEMMA AddedDoes ==
    ASSUME Typed, NEW t \in Threads, Added(t)
    PROVE  /\ TypeOK' /\ CallsOK' /\ Others(t) /\ ChildrenStay
           /\ UNCHANGED << m_state, m_threads, m_children, linked, counterVars, runVars, op, ctx, run,
                           rest, local, stack, todo, ends, unseen, quieted >>
           /\ pc[t] = "added" /\ ctx[t] \in Contexts /\ run[t] \in Runnables /\ Of[run[t]] = ctx[t]
           /\ m_beforeRunning'[ctx[t]] = FALSE
           /\ \A c \in Contexts \ {ctx[t]} : m_beforeRunning'[c] = m_beforeRunning[c]
           /\ \/ IsShutdown(ctx[t]) /\ pc'[t] = "addstop" /\ settled' = settled
              \/ ~IsShutdown(ctx[t]) /\ pc'[t] = "idle" /\ settled' = settled \cup {run[t]}
<1> DEFINE c == ctx[t]
<1>1. /\ UNCHANGED << m_state, m_threads, m_children, linked, counterVars, runVars, op, ctx, run,
                      rest, local, stack, todo, ends, unseen, quieted >>
      /\ pc[t] = "added"
      /\ m_beforeRunning' = [m_beforeRunning EXCEPT ![c] = FALSE]
      /\ settled' = IF IsShutdown(c) THEN settled ELSE settled \cup {run[t]}
      /\ pc' = [pc EXCEPT ![t] = IF IsShutdown(c) THEN "addstop" ELSE "idle"]
  BY DEF Added, At, Goto, ShouldStopHere
<1>2. c \in Contexts /\ run[t] \in Runnables /\ Of[run[t]] = c
  BY <1>1 DEF Typed, Shaped, Adding
<1>3. /\ pc' \in [Threads -> Points] /\ \A u \in Threads \ {t} : pc'[u] = pc[u]
      /\ pc'[t] = IF IsShutdown(c) THEN "addstop" ELSE "idle"
  BY <1>1 DEF Typed, TypeOK, Points
<1>4. /\ m_beforeRunning' \in [Contexts -> BOOLEAN] /\ m_beforeRunning'[c] = FALSE
      /\ \A x \in Contexts \ {c} : m_beforeRunning'[x] = m_beforeRunning[x]
  BY <1>1, <1>2 DEF Typed, TypeOK
<1>5. TypeOK'
  BY <1>1, <1>2, <1>3, <1>4 DEF Typed, TypeOK, counterVars, runVars
<1>6. CallsOK' /\ Others(t) /\ ChildrenStay
  BY <1>1, <1>3, CallsKept DEF Others, ChildrenStay
<1> QED BY <1>1, <1>2, <1>3, <1>4, <1>5, <1>6

\* AddCoreRunnable stops the runnable itself.
LEMMA AddedStopDoes ==
    ASSUME Typed, NEW t \in Threads, AddedStop(t)
    PROVE  /\ TypeOK' /\ CallsOK' /\ Others(t) /\ ChildrenStay
           /\ UNCHANGED << treeVars, counterVars, started, op, ctx, run, rest, local, stack, todo,
                           histVars >>
           /\ pc[t] = "addstop" /\ pc'[t] = "idle" /\ run[t] \in Runnables
           /\ stop' = stop \cup {run[t]}
<1>1. /\ UNCHANGED << treeVars, counterVars, started, op, ctx, run, rest, local, stack, todo, histVars >>
      /\ pc[t] = "addstop" /\ pc' = [pc EXCEPT ![t] = "idle"] /\ stop' = stop \cup {run[t]}
  BY DEF AddedStop, At, Goto, Stop
<1>2. run[t] \in Runnables
  BY <1>1 DEF Typed, Shaped, Adding
<1>3. pc' \in [Threads -> Points] /\ pc'[t] = "idle" /\ \A u \in Threads \ {t} : pc'[u] = pc[u]
  BY <1>1 DEF Typed, TypeOK, Points
<1>4. TypeOK'
  BY <1>1, <1>2, <1>3 DEF Typed, TypeOK, treeVars, counterVars, histVars
<1>5. CallsOK' /\ Others(t) /\ ChildrenStay
  BY <1>1, <1>3, CallsKept DEF Others, ChildrenStay, treeVars
<1> QED BY <1>1, <1>2, <1>3, <1>4, <1>5

\* Wait, Quiescent or DelayUntilInitiated returns.
LEMMA AwaitDoes ==
    ASSUME Typed, NEW t \in Threads, Await(t)
    PROVE  /\ TypeOK' /\ CallsOK' /\ Others(t) /\ ChildrenStay
           /\ UNCHANGED << treeVars, counterVars, runVars, op, ctx, run, rest, local, stack, todo, ends,
                           unseen, settled >>
           /\ pc[t] \in {"wait", "quiescent", "delay"} /\ pc'[t] = "idle" /\ ctx[t] \in Contexts
           /\ \/ quieted' = quieted
              \/ /\ pc[t] = "wait" /\ IsShutdown(ctx[t]) /\ Expired(ctx[t])
                 /\ \A u \in Threads : ~ShutsBelow(u, ctx[t])
                 /\ quieted' = quieted \cup {ctx[t]}
<1>1. /\ UNCHANGED << treeVars, counterVars, runVars, op, ctx, run, rest, local, stack, todo, ends,
                      unseen, settled >>
      /\ pc[t] \in {"wait", "quiescent", "delay"} /\ pc' = [pc EXCEPT ![t] = "idle"]
      /\ \/ quieted' = quieted
         \/ /\ pc[t] = "wait" /\ IsShutdown(ctx[t]) /\ Expired(ctx[t])
            /\ \A u \in Threads : ~ShutsBelow(u, ctx[t])
            /\ quieted' = quieted \cup {ctx[t]}
  BY DEF Await, At, Goto
<1>2. ctx[t] \in Contexts
  BY <1>1 DEF Typed, Shaped
<1>3. pc' \in [Threads -> Points] /\ pc'[t] = "idle" /\ \A u \in Threads \ {t} : pc'[u] = pc[u]
  BY <1>1 DEF Typed, TypeOK, Points
<1>4. TypeOK'
  BY <1>1, <1>2, <1>3 DEF Typed, TypeOK, treeVars, counterVars, runVars
<1>5. CallsOK' /\ Others(t) /\ ChildrenStay
  BY <1>1, <1>3, CallsKept DEF Others, ChildrenStay, treeVars
<1> QED BY <1>1, <1>2, <1>3, <1>4, <1>5

-----------------------------------------------------------------------------

\* SignalShutdown stops every runnable but the one that is being added.
LEMMA ToStopType ==
    ASSUME Typed, NEW c \in Contexts
    PROVE  /\ ToStop(c) \in Seq(Runnables)
           /\ \A r \in Range(m_threads[c]) : r \in Range(ToStop(c)) \/ (m_beforeRunning[c] /\ r = Head(m_threads[c]))
<1>1. m_threads[c] \in Seq(Runnables)
  BY DEF Typed, TypeOK
<1>2. CASE ~m_beforeRunning[c]
  BY <1>1, <1>2 DEF ToStop
<1>3. CASE m_beforeRunning[c]
  <2>1. m_threads[c] # << >> /\ ToStop(c) = Tail(m_threads[c])
    BY <1>3 DEF ToStop, Typed, Flagged
  <2> QED BY <1>1, <1>3, <2>1, TailOf
<1> QED BY <1>2, <1>3

\* The first critical section of SignalShutdown: it was done before, or it is done here.
LEMMA ShutdownDoes ==
    ASSUME Typed, NEW t \in Threads, Shutdown(t)
    PROVE  /\ TypeOK' /\ CallsOK' /\ Others(t) /\ ChildrenStay
           /\ UNCHANGED << m_threads, m_beforeRunning, m_children, linked, counterVars, runVars, op, ctx,
                           run, rest, local, todo, histVars >>
           /\ pc[t] \in {"shutdown", "signal"} /\ ctx[t] \in Contexts /\ stack[t] \in Seq(StopFrames)
           /\ \/ /\ IsShutdown(ctx[t]) /\ UNCHANGED << m_state, stack >>
                 /\ pc'[t] = IF stack[t] # << >> THEN "kids" ELSE "idle"
              \/ /\ ~IsShutdown(ctx[t]) /\ pc'[t] = "collect"
                 /\ m_state'[ctx[t]] = (IF IsInitiated(ctx[t]) THEN "Shutdown" ELSE "Abandoned")
                 /\ \A c \in Contexts \ {ctx[t]} : m_state'[c] = m_state[c]
                 /\ \E f \in StopFrames :
                      /\ f = [of |-> ctx[t], kids |-> {}, stops |-> ToStop(ctx[t])]
                      /\ stack'[t] = << f >> \o stack[t]
<1> DEFINE c == ctx[t]
           f == [of |-> c, kids |-> {}, stops |-> ToStop(c)]
<1>1. /\ UNCHANGED << m_threads, m_beforeRunning, m_children, linked, counterVars, runVars, op, ctx,
                      run, rest, local, todo, histVars >>
      /\ pc[t] \in {"shutdown", "signal"}
      /\ \/ /\ IsShutdown(c) /\ UNCHANGED << m_state, stack >>
            /\ pc' = [pc EXCEPT ![t] = IF stack[t] # << >> THEN "kids" ELSE "idle"]
         \/ /\ ~IsShutdown(c) /\ pc' = [pc EXCEPT ![t] = "collect"]
            /\ m_state' = [m_state EXCEPT ![c] = IF IsInitiated(c) THEN "Shutdown" ELSE "Abandoned"]
            /\ stack' = [stack EXCEPT ![t] = << f >> \o @]
  BY DEF Shutdown, At, Goto, Unwind
<1>2. c \in Contexts
  BY <1>1 DEF Typed, Shaped
<1>3. stack[t] \in Seq(StopFrames)
  <2>1. << >> \in Seq(StopFrames)
    OBVIOUS
  <2>2. pc[t] = "shutdown" => stack[t] = << >>
    BY DEF Typed, Shaped, Walking, Starting, Stopping
  <2>3. pc[t] = "signal" => stack[t] \in Seq(StopFrames)
    BY DEF Typed, Shaped, Stopping
  <2> QED BY <1>1, <2>1, <2>2, <2>3
<1>4. f \in StopFrames
  BY <1>2, ToStopType DEF StopFrames
<1>5. << f >> \o stack[t] \in Seq(StopFrames)
  <2> HIDE DEF f
  <2> QED BY <1>3, <1>4, PushOf
<1>6. pc' \in [Threads -> Points] /\ \A u \in Threads \ {t} : pc'[u] = pc[u]
  BY <1>1 DEF Typed, TypeOK, Points
<1>7. m_state' \in [Contexts -> States]
  BY <1>1, <1>2 DEF Typed, TypeOK, States
<1>8. TypeOK'
  BY <1>1, <1>6, <1>7 DEF Typed, TypeOK, counterVars, runVars, histVars
<1>9. /\ stack' \in [Threads -> Seq(WalkFrames) \cup Seq(StopFrames)]
      /\ \A u \in Threads \ {t} : stack'[u] = stack[u]
  <2> HIDE DEF f
  <2> QED BY <1>1, <1>5 DEF Typed, CallsOK
<1>10. CallsOK'
  BY <1>1, <1>9 DEF Typed, CallsOK, Sensible
<1>11. Others(t) /\ ChildrenStay
  BY <1>1, <1>6, <1>9 DEF Others, ChildrenStay
<1>12. CASE /\ IsShutdown(c) /\ UNCHANGED << m_state, stack >>
            /\ pc' = [pc EXCEPT ![t] = IF stack[t] # << >> THEN "kids" ELSE "idle"]
  <2>1. pc'[t] = IF stack[t] # << >> THEN "kids" ELSE "idle"
    BY <1>12 DEF Typed, TypeOK
  <2> QED BY <1>1, <1>2, <1>3, <1>8, <1>10, <1>11, <1>12, <2>1
<1>13. CASE /\ ~IsShutdown(c) /\ pc' = [pc EXCEPT ![t] = "collect"]
            /\ m_state' = [m_state EXCEPT ![c] = IF IsInitiated(c) THEN "Shutdown" ELSE "Abandoned"]
            /\ stack' = [stack EXCEPT ![t] = << f >> \o @]
  <2>1. /\ pc'[t] = "collect"
        /\ m_state'[c] = (IF IsInitiated(c) THEN "Shutdown" ELSE "Abandoned")
        /\ \A x \in Contexts \ {c} : m_state'[x] = m_state[x]
    BY <1>2, <1>13 DEF Typed, TypeOK
  <2>2. stack'[t] = << f >> \o stack[t]
    BY <1>13 DEF Typed, CallsOK
  <2> QED BY <1>1, <1>2, <1>3, <1>4, <1>8, <1>10, <1>11, <1>13, <2>1, <2>2
<1> QED BY <1>1, <1>12, <1>13

\* The second one: the children there are.
LEMMA CollectDoes ==
    ASSUME Typed, NEW t \in Threads, Collect(t)
    PROVE  /\ TypeOK' /\ CallsOK' /\ Others(t) /\ ChildrenStay
           /\ UNCHANGED << treeVars, counterVars, runVars, op, ctx, run, rest, local, todo, histVars >>
           /\ pc[t] = "collect" /\ pc'[t] = "kids"
           /\ stack[t] \in Seq(StopFrames) /\ stack[t] # << >>
           /\ \E f, e \in StopFrames :
                /\ f = Head(stack[t]) /\ stack'[t] = [stack[t] EXCEPT ![1] = e]
                /\ e = [of |-> f.of, stops |-> f.stops,
                        kids |-> { i \in DOMAIN m_children[f.of] : m_children[f.of][i] \in linked }]
<1> DEFINE g == Head(stack[t])
           ks == { i \in DOMAIN m_children[g.of] : m_children[g.of][i] \in linked }
<1>1. /\ UNCHANGED << treeVars, counterVars, runVars, op, ctx, run, rest, local, todo, histVars >>
      /\ pc[t] = "collect" /\ pc' = [pc EXCEPT ![t] = "kids"]
      /\ stack' = [stack EXCEPT ![t][1].kids = ks]
  BY DEF Collect, At, Goto
<1>2. stack[t] \in Seq(StopFrames) /\ stack[t] # << >>
  BY <1>1 DEF Typed, Shaped, Stopping
<1>3. g \in StopFrames /\ g = stack[t][1]
  BY <1>2, TailOf
<1>4. g.of \in Contexts /\ g.stops \in Seq(Runnables) /\ g.kids \in SUBSET Nat
      /\ g = [of |-> g.of, kids |-> g.kids, stops |-> g.stops]
  BY <1>3 DEF StopFrames
<1>5. ks \in SUBSET Nat
  <2>1. m_children[g.of] \in Seq(Contexts)
    BY <1>4 DEF Typed, TypeOK
  <2>2. DOMAIN m_children[g.of] \subseteq Nat
    BY <2>1, LenProperties
  <2> QED BY <2>2
<1>6. PICK f, e : f = g /\ e = [of |-> g.of, kids |-> ks, stops |-> g.stops]
  OBVIOUS
<1>7. /\ e = [of |-> f.of, kids |-> { i \in DOMAIN m_children[f.of] : m_children[f.of][i] \in linked },
              stops |-> f.stops]
  BY <1>6
<1> HIDE DEF ks
<1>8. e \in StopFrames /\ f \in StopFrames
  BY <1>3, <1>4, <1>5, <1>6 DEF StopFrames
<1>9. e = [stack[t][1] EXCEPT !.kids = ks]
  BY <1>3, <1>4, <1>6
<1>10. stack' = [stack EXCEPT ![t] = [stack[t] EXCEPT ![1] = e]]
  BY <1>1, <1>9
<1>11. [stack[t] EXCEPT ![1] = e] \in Seq(StopFrames)
  BY <1>2, <1>8, PutOf
<1>12. /\ stack'[t] = [stack[t] EXCEPT ![1] = e] /\ \A u \in Threads \ {t} : stack'[u] = stack[u]
       /\ stack' \in [Threads -> Seq(WalkFrames) \cup Seq(StopFrames)]
  BY <1>10, <1>11 DEF Typed, CallsOK
<1>13. pc' \in [Threads -> Points] /\ pc'[t] = "kids" /\ \A u \in Threads \ {t} : pc'[u] = pc[u]
  BY <1>1 DEF Typed, TypeOK, Points
<1>14. TypeOK'
  BY <1>1, <1>13 DEF Typed, TypeOK, treeVars, counterVars, runVars, histVars
<1>15. CallsOK'
  BY <1>1, <1>12 DEF Typed, CallsOK, Sensible
<1>16. Others(t) /\ ChildrenStay
  BY <1>1, <1>12, <1>13 DEF Others, ChildrenStay, treeVars
<1>17. e = [of |-> f.of, stops |-> f.stops,
            kids |-> { i \in DOMAIN m_children[f.of] : m_children[f.of][i] \in linked }]
  BY <1>7
<1> QED BY <1>1, <1>2, <1>6, <1>8, <1>12, <1>13, <1>14, <1>15, <1>16, <1>17

\* The next child, or no more children.
LEMMA KidsDoes ==
    ASSUME Typed, NEW t \in Threads, Kids(t)
    PROVE  /\ TypeOK' /\ CallsOK' /\ Others(t) /\ ChildrenStay
           /\ UNCHANGED << treeVars, counterVars, runVars, op, run, rest, local, todo, histVars >>
           /\ pc[t] = "kids" /\ stack[t] \in Seq(StopFrames) /\ stack[t] # << >>
           /\ \E f \in StopFrames : f = Head(stack[t]) /\
                \/ f.kids = {} /\ pc'[t] = "stops" /\ UNCHANGED << stack, ctx >>
                \/ \E i \in f.kids : \E e \in StopFrames :
                     /\ i \in DOMAIN m_children[f.of] /\ m_children[f.of][i] \in Contexts
                     /\ e = [of |-> f.of, kids |-> f.kids \ {i}, stops |-> f.stops]
                     /\ stack'[t] = [stack[t] EXCEPT ![1] = e]
                     /\ ctx'[t] = m_children[f.of][i] /\ pc'[t] = "signal"
<1> DEFINE g == Head(stack[t])
<1>1. /\ UNCHANGED << treeVars, counterVars, runVars, op, run, rest, local, todo, histVars >>
      /\ pc[t] = "kids"
      /\ \/ g.kids = {} /\ pc' = [pc EXCEPT ![t] = "stops"] /\ UNCHANGED << stack, ctx >>
         \/ \E i \in g.kids :
              /\ stack' = [stack EXCEPT ![t][1].kids = @ \ {i}]
              /\ ctx' = [ctx EXCEPT ![t] = m_children[g.of][i]]
              /\ pc' = [pc EXCEPT ![t] = "signal"]
  BY DEF Kids, At, Goto
<1>2. stack[t] \in Seq(StopFrames) /\ stack[t] # << >>
  BY <1>1 DEF Typed, Shaped, Stopping
<1>3. g \in StopFrames /\ g = stack[t][1] /\ g \in Range(stack[t])
  BY <1>2, TailOf
<1>4. g.of \in Contexts /\ g.stops \in Seq(Runnables) /\ g.kids \in SUBSET Nat
      /\ g = [of |-> g.of, kids |-> g.kids, stops |-> g.stops]
  BY <1>3 DEF StopFrames
<1>5. g.kids \subseteq DOMAIN m_children[g.of]
  BY <1>1, <1>3 DEF Typed, KidsThere, Stopping
<1>6. m_children[g.of] \in Seq(Contexts)
  BY <1>4 DEF Typed, TypeOK
<1>7. pc' \in [Threads -> Points] /\ \A u \in Threads \ {t} : pc'[u] = pc[u]
  BY <1>1 DEF Typed, TypeOK, Points
<1>8. ASSUME ctx' \in [Threads -> Contexts \cup {None}] /\ \A u \in Threads \ {t} : ctx'[u] = ctx[u],
             /\ stack' \in [Threads -> Seq(WalkFrames) \cup Seq(StopFrames)]
             /\ \A u \in Threads \ {t} : stack'[u] = stack[u]
      PROVE  TypeOK' /\ CallsOK' /\ Others(t) /\ ChildrenStay
  <2>1. TypeOK'
    BY <1>1, <1>7, <1>8 DEF Typed, TypeOK, treeVars, counterVars, runVars, histVars
  <2>2. CallsOK'
    BY <1>1, <1>8 DEF Typed, CallsOK, Sensible
  <2>3. Others(t) /\ ChildrenStay
    BY <1>1, <1>7, <1>8 DEF Others, ChildrenStay, treeVars
  <2> QED BY <2>1, <2>2, <2>3
<1>9. CASE g.kids = {} /\ pc' = [pc EXCEPT ![t] = "stops"] /\ UNCHANGED << stack, ctx >>
  <2>1. TypeOK' /\ CallsOK' /\ Others(t) /\ ChildrenStay
    BY <1>8, <1>9 DEF Typed, TypeOK, CallsOK
  <2>2. pc'[t] = "stops"
    BY <1>9 DEF Typed, TypeOK
  <2> QED BY <1>1, <1>2, <1>3, <1>9, <2>1, <2>2
<1>10. ASSUME NEW i \in g.kids,
              stack' = [stack EXCEPT ![t][1].kids = @ \ {i}],
              ctx' = [ctx EXCEPT ![t] = m_children[g.of][i]],
              pc' = [pc EXCEPT ![t] = "signal"]
       PROVE  /\ TypeOK' /\ CallsOK' /\ Others(t) /\ ChildrenStay
              /\ \E e \in StopFrames :
                   /\ i \in DOMAIN m_children[g.of] /\ m_children[g.of][i] \in Contexts
                   /\ e = [of |-> g.of, kids |-> g.kids \ {i}, stops |-> g.stops]
                   /\ stack'[t] = [stack[t] EXCEPT ![1] = e]
                   /\ ctx'[t] = m_children[g.of][i] /\ pc'[t] = "signal"
  <2>1. i \in DOMAIN m_children[g.of] /\ m_children[g.of][i] \in Contexts
    BY <1>5, <1>6
  <2>2. PICK e : e = [of |-> g.of, kids |-> g.kids \ {i}, stops |-> g.stops]
    OBVIOUS
  <2>3. e \in StopFrames
    BY <1>4, <2>2 DEF StopFrames
  <2>4. e = [stack[t][1] EXCEPT !.kids = @ \ {i}]
    BY <1>3, <1>4, <2>2
  <2>5. stack' = [stack EXCEPT ![t] = [stack[t] EXCEPT ![1] = e]]
    BY <1>10, <2>4
  <2>6. [stack[t] EXCEPT ![1] = e] \in Seq(StopFrames)
    BY <1>2, <2>3, PutOf
  <2>7. /\ stack'[t] = [stack[t] EXCEPT ![1] = e] /\ \A u \in Threads \ {t} : stack'[u] = stack[u]
        /\ stack' \in [Threads -> Seq(WalkFrames) \cup Seq(StopFrames)]
    BY <2>5, <2>6 DEF Typed, CallsOK
  <2>8. /\ ctx' \in [Threads -> Contexts \cup {None}] /\ \A u \in Threads \ {t} : ctx'[u] = ctx[u]
        /\ ctx'[t] = m_children[g.of][i] /\ pc'[t] = "signal"
    BY <1>10, <2>1 DEF Typed, TypeOK
  <2>9. TypeOK' /\ CallsOK' /\ Others(t) /\ ChildrenStay
    BY <1>8, <2>7, <2>8
  <2> QED BY <2>1, <2>2, <2>3, <2>7, <2>8, <2>9
<1> QED
  <2>1. PICK f \in StopFrames : f = g
    BY <1>3
  <2>2. CASE g.kids = {} /\ pc' = [pc EXCEPT ![t] = "stops"] /\ UNCHANGED << stack, ctx >>
    BY <1>9, <2>2
  <2>3. CASE \E i \in g.kids :
              /\ stack' = [stack EXCEPT ![t][1].kids = @ \ {i}]
              /\ ctx' = [ctx EXCEPT ![t] = m_children[g.of][i]]
              /\ pc' = [pc EXCEPT ![t] = "signal"]
    BY <1>1, <1>2, <1>10, <2>1, <2>3
  <2> QED BY <1>1, <2>2, <2>3

\* The next runnable, or back to where the thread came from.
LEMMA StopsDoes ==
    ASSUME Typed, NEW t \in Threads, Stops(t)
    PROVE  /\ TypeOK' /\ CallsOK' /\ Others(t) /\ ChildrenStay
           /\ UNCHANGED << treeVars, counterVars, started, op, run, rest, local, todo, histVars >>
           /\ pc[t] = "stops" /\ stack[t] \in Seq(StopFrames) /\ stack[t] # << >> /\ op[t].of \in Contexts
           /\ \E f \in StopFrames : f = Head(stack[t]) /\
                \/ /\ f.stops # << >> /\ stop' = stop \cup {Head(f.stops)} /\ Head(f.stops) \in Runnables
                   /\ pc' = pc /\ ctx' = ctx
                   /\ \E e \in StopFrames :
                        /\ e = [of |-> f.of, kids |-> f.kids, stops |-> Tail(f.stops)]
                        /\ stack'[t] = [stack[t] EXCEPT ![1] = e]
                \/ /\ f.stops = << >> /\ stop' = stop /\ stack'[t] = Tail(stack[t])
                   /\ ctx'[t] = op[t].of
                   /\ \/ stack'[t] # << >> /\ pc'[t] = "kids"
                      \/ stack'[t] = << >> /\ pc'[t] \in {"wait", "idle"}
<1> DEFINE g == Head(stack[t])
<1>1. /\ UNCHANGED << treeVars, counterVars, started, op, run, rest, local, todo, histVars >>
      /\ pc[t] = "stops"
      /\ \/ /\ g.stops # << >> /\ stop' = stop \cup {Head(g.stops)}
            /\ stack' = [stack EXCEPT ![t][1].stops = Tail(@)]
            /\ UNCHANGED << pc, ctx >>
         \/ /\ g.stops = << >> /\ stack' = [stack EXCEPT ![t] = Tail(@)]
            /\ ctx' = [ctx EXCEPT ![t] = op[t].of]
            /\ \/ Len(stack[t]) > 1 /\ pc' = [pc EXCEPT ![t] = "kids"]
               \/ /\ ~(Len(stack[t]) > 1)
                  /\ \/ pc' = [pc EXCEPT ![t] = "wait"]
                     \/ pc' = [pc EXCEPT ![t] = "idle"]
            /\ stop' = stop
  BY DEF Stops, At, Goto, Stop
<1>2. stack[t] \in Seq(StopFrames) /\ stack[t] # << >> /\ op[t].of \in Contexts
  BY <1>1 DEF Typed, Shaped, Stopping
<1>3. /\ g \in StopFrames /\ g = stack[t][1] /\ Tail(stack[t]) \in Seq(StopFrames)
      /\ Len(stack[t]) \in Nat /\ Len(Tail(stack[t])) = Len(stack[t]) - 1
  BY <1>2, TailOf
<1>4. g.of \in Contexts /\ g.stops \in Seq(Runnables) /\ g.kids \in SUBSET Nat
      /\ g = [of |-> g.of, kids |-> g.kids, stops |-> g.stops]
  BY <1>3 DEF StopFrames
<1>5. /\ ctx' \in [Threads -> Contexts \cup {None}] /\ \A u \in Threads \ {t} : ctx'[u] = ctx[u]
      /\ pc' \in [Threads -> Points] /\ \A u \in Threads \ {t} : pc'[u] = pc[u]
  BY <1>1, <1>2 DEF Typed, TypeOK, Points
<1>6. ASSUME /\ stack' \in [Threads -> Seq(WalkFrames) \cup Seq(StopFrames)]
             /\ \A u \in Threads \ {t} : stack'[u] = stack[u],
             stop' \subseteq Runnables
      PROVE  TypeOK' /\ CallsOK' /\ Others(t) /\ ChildrenStay
  <2>1. TypeOK'
    BY <1>1, <1>5, <1>6 DEF Typed, TypeOK, treeVars, counterVars, histVars
  <2>2. CallsOK'
    BY <1>1, <1>6 DEF Typed, CallsOK, Sensible
  <2>3. Others(t) /\ ChildrenStay
    BY <1>1, <1>5, <1>6 DEF Others, ChildrenStay, treeVars
  <2> QED BY <2>1, <2>2, <2>3
<1>7. CASE /\ g.stops # << >> /\ stop' = stop \cup {Head(g.stops)}
           /\ stack' = [stack EXCEPT ![t][1].stops = Tail(@)]
           /\ UNCHANGED << pc, ctx >>
  <2>1. Head(g.stops) \in Runnables /\ Tail(g.stops) \in Seq(Runnables)
    BY <1>4, <1>7, TailOf
  <2>2. PICK e : e = [of |-> g.of, kids |-> g.kids, stops |-> Tail(g.stops)]
    OBVIOUS
  <2>3. e \in StopFrames
    BY <1>4, <2>1, <2>2 DEF StopFrames
  <2>4. e = [stack[t][1] EXCEPT !.stops = Tail(@)]
    <3>1. PICK h, w : h = g /\ w = Tail(g.stops)
      OBVIOUS
    <3>2. h = [of |-> h.of, kids |-> h.kids, stops |-> h.stops] /\ e = [of |-> h.of, kids |-> h.kids, stops |-> w]
      BY <1>4, <2>2, <3>1
    <3>3. e = [h EXCEPT !.stops = w]
      BY <3>2
    <3>4. h = stack[t][1] /\ w = Tail(stack[t][1].stops)
      BY <1>3, <3>1
    <3> QED BY ONLY <3>3, <3>4
  <2>5. stack' = [stack EXCEPT ![t] = [stack[t] EXCEPT ![1] = e]]
    BY <1>7, <2>4
  <2>6. [stack[t] EXCEPT ![1] = e] \in Seq(StopFrames)
    BY <1>2, <2>3, PutOf
  <2>7. /\ stack'[t] = [stack[t] EXCEPT ![1] = e] /\ \A u \in Threads \ {t} : stack'[u] = stack[u]
        /\ stack' \in [Threads -> Seq(WalkFrames) \cup Seq(StopFrames)]
    BY <2>5, <2>6 DEF Typed, CallsOK
  <2>8. TypeOK' /\ CallsOK' /\ Others(t) /\ ChildrenStay
    <3>1. stop' \subseteq Runnables
      BY <1>7, <2>1 DEF Typed, TypeOK
    <3> QED BY <1>6, <2>7, <3>1
  <2> QED BY <1>1, <1>2, <1>3, <1>7, <2>1, <2>2, <2>3, <2>7, <2>8
<1>8. CASE /\ g.stops = << >> /\ stack' = [stack EXCEPT ![t] = Tail(@)]
           /\ ctx' = [ctx EXCEPT ![t] = op[t].of]
           /\ \/ Len(stack[t]) > 1 /\ pc' = [pc EXCEPT ![t] = "kids"]
              \/ /\ ~(Len(stack[t]) > 1)
                 /\ \/ pc' = [pc EXCEPT ![t] = "wait"]
                    \/ pc' = [pc EXCEPT ![t] = "idle"]
           /\ stop' = stop
  <2>1. /\ stack'[t] = Tail(stack[t]) /\ \A u \in Threads \ {t} : stack'[u] = stack[u]
        /\ stack' \in [Threads -> Seq(WalkFrames) \cup Seq(StopFrames)]
    BY <1>3, <1>8 DEF Typed, CallsOK
  <2>2. /\ ctx'[t] = op[t].of
        /\ \/ Len(stack[t]) > 1 /\ pc'[t] = "kids"
           \/ ~(Len(stack[t]) > 1) /\ pc'[t] \in {"wait", "idle"}
    BY <1>8 DEF Typed, TypeOK
  <2>3. Tail(stack[t]) = << >> <=> ~(Len(stack[t]) > 1)
    <3>1. PICK q \in Seq(StopFrames) : q = Tail(stack[t])
      BY <1>3
    <3>2. q = << >> <=> Len(q) = 0
      BY <3>1, EmptySeq
    <3> QED BY <1>3, <3>1, <3>2, LenProperties
  <2>4. TypeOK' /\ CallsOK' /\ Others(t) /\ ChildrenStay
    <3>1. stop' \subseteq Runnables
      BY <1>8 DEF Typed, TypeOK
    <3> QED BY <1>6, <2>1, <3>1
  <2> QED BY <1>1, <1>2, <1>3, <1>8, <2>1, <2>2, <2>3, <2>4
<1> QED BY <1>1, <1>7, <1>8

-----------------------------------------------------------------------------
(* Run counters *)

\* A counter that is let go of is dying or as it was.
LEMMA LetGoDoes ==
    ASSUME Typed, NEW x \in Threads \cup Runnables \cup {None},
           NEW h \in [Runnables -> Counters \cup {None}],
           NEW l \in [Threads -> Counters \cup {None}],
           NEW g \in [Counters -> {"free", "live", "dying"}],
           LetGo(x, h, l, g)
    PROVE  /\ held' = h /\ local' = l
           /\ counter' \in [Counters -> {"free", "live", "dying"}]
           /\ by' \in [Counters -> Threads \cup Runnables \cup {None}]
           /\ \A k \in Counters : counter'[k] = IF k \in Unheld(h, l, g) THEN "dying" ELSE g[k]
  BY DEF LetGo, Typed, TypeOK

\* A new counter is one that was free.
LEMMA FreshIsFree ==
    ASSUME NEW a \in Contexts, Room(a)
    PROVE  /\ Fresh(a) \in Counters /\ Fresh(a)[1] = a /\ counter[Fresh(a)] = "free"
<1>1. PICK n : n = CHOOSE m \in 1 .. MaxCounters : counter[<< a, m >>] = "free"
  OBVIOUS
<1>2. n \in 1 .. MaxCounters /\ counter[<< a, n >>] = "free"
  BY <1>1 DEF Room
<1>3. Fresh(a) = << a, n >>
  BY <1>1 DEF Fresh
<1> QED BY <1>2, <1>3 DEF Counters

\* Those that need a new counter reach from the context to one below the first that has one.
LEMMA NeedingUp ==
    ASSUME NEW c \in Contexts
    PROVE  /\ Needing(c) \subseteq Above[c] /\ Needing(c) \subseteq Contexts
           /\ Expired(c) => c \in Needing(c)
           /\ \A a \in Needing(c) : Expired(a)
           /\ \A a \in Needing(c) : Parent[a] # None /\ Expired(Parent[a]) => Parent[a] \in Needing(c)
<1>1. Needing(c) \subseteq Above[c] /\ Needing(c) \subseteq Contexts
  BY AboveSelf DEF Needing
<1>2. ASSUME Expired(c) PROVE c \in Needing(c)
  <2>1. \A x \in Above[c] : c \in Above[x] => x = c
    BY AboveAntisymmetric
  <2> QED BY <1>2, <2>1, AboveSelf DEF Needing
<1>3. ASSUME NEW a \in Needing(c) PROVE Expired(a)
  BY <1>1, AboveSelf DEF Needing
<1>4. ASSUME NEW a \in Needing(c), Parent[a] # None, Expired(Parent[a]) PROVE Parent[a] \in Needing(c)
  <2>1. a \in Above[c] /\ a \in Contexts /\ Parent[a] \in Contexts
    BY <1>1, <1>4, ConstantsAssumption
  <2>2. Parent[a] \in Above[c]
    BY <1>4, <2>1, AboveHasParents DEF HasParents
  <2>3. ASSUME NEW x \in Above[c], Parent[a] \in Above[x] PROVE Expired(x)
    <3>0. x \in Contexts
      BY AboveSelf
    <3>1. CASE a \in Above[x]
      BY <3>1 DEF Needing
    <3>2. CASE a \notin Above[x]
      <4>1. x \in Above[a] /\ x # a
        BY <2>1, <3>0, <3>2, AboveChain, AboveSelf
      <4>2. x \in Above[Parent[a]]
        BY <1>4, <2>1, <4>1, AboveParent
      <4>3. x = Parent[a]
        BY <2>1, <2>3, <3>0, <4>2, AboveAntisymmetric
      <4> QED BY <1>4, <4>3
    <3> QED BY <3>1, <3>2
  <2> QED BY <2>2, <2>3 DEF Needing
<1> QED BY <1>1, <1>2, <1>3, <1>4

\* IncrementOutstandingThreadCount: the counter of the context, and new ones where needed.
LEMMA CountDoes ==
    ASSUME Typed, NEW t \in Threads, Count(t)
    PROVE  /\ TypeOK' /\ CallsOK' /\ Others(t) /\ ChildrenStay
           /\ UNCHANGED << treeVars, runVars, by, held, op, ctx, run, rest, stack, todo, histVars >>
           /\ pc[t] = "count" /\ pc'[t] = "start" /\ ctx[t] \in Contexts
           /\ local'[t] \in Counters
           /\ local'[t] = IF HasCounter(ctx[t]) THEN m_outstanding[ctx[t]] ELSE Fresh(ctx[t])
           /\ overtaken' = overtaken \cup { a \in Needing(ctx[t]) :
                                \E n \in 1 .. MaxCounters : counter[<< a, n >>] = "dying" }
           /\ \A a \in Needing(ctx[t]) :
                /\ a \in Contexts /\ Fresh(a) \in Counters /\ Fresh(a)[1] = a
                /\ counter[Fresh(a)] = "free" /\ counter'[Fresh(a)] = "live"
                /\ m_outstanding'[a] = Fresh(a) /\ parentCount'[Fresh(a)] = ParentCount(a)
           /\ \A a \in Contexts : a \notin Needing(ctx[t]) => m_outstanding'[a] = m_outstanding[a]
           /\ \A k \in Counters :
                \/ k[1] \in Needing(ctx[t]) /\ k = Fresh(k[1])
                \/ counter'[k] = counter[k] /\ parentCount'[k] = parentCount[k]
<1> DEFINE c == ctx[t]
           N == Needing(c)
<1>1. /\ UNCHANGED << treeVars, runVars, by, held, op, ctx, run, rest, stack, todo, histVars >>
      /\ pc[t] = "count" /\ pc' = [pc EXCEPT ![t] = "start"]
      /\ \A a \in N : Room(a)
      /\ counter' = [k \in Counters |-> IF \E a \in N : k = Fresh(a) THEN "live" ELSE counter[k]]
      /\ parentCount' = [k \in Counters |-> IF \E a \in N : k = Fresh(a) THEN ParentCount(k[1]) ELSE parentCount[k]]
      /\ m_outstanding' = [a \in Contexts |-> IF a \in N THEN Fresh(a) ELSE m_outstanding[a]]
      /\ local' = [local EXCEPT ![t] = IF HasCounter(c) THEN m_outstanding[c] ELSE Fresh(c)]
      /\ overtaken' = overtaken \cup { a \in N : \E n \in 1 .. MaxCounters : counter[<< a, n >>] = "dying" }
  BY DEF Count, At, Goto, Increment
<1>2. c \in Contexts
  BY <1>1 DEF Typed, Shaped
<1>3. N \subseteq Contexts /\ (Expired(c) => c \in N)
      /\ \A a \in N : Parent[a] # None /\ Expired(Parent[a]) => Parent[a] \in N
  BY <1>2, NeedingUp
<1>4. \A a \in N : Fresh(a) \in Counters /\ Fresh(a)[1] = a /\ counter[Fresh(a)] = "free"
  BY <1>1, <1>3, FreshIsFree
<1> HIDE DEF N
<1>5. \A a \in Contexts : HasCounter(a) => m_outstanding[a] \in Counters
  BY DEF HasCounter, Typed, TypeOK
<1>6. \A a \in N : ParentCount(a) \in Counters \cup {None}
  <2> SUFFICES ASSUME NEW a \in N PROVE ParentCount(a) \in Counters \cup {None}
    OBVIOUS
  <2>1. a \in Contexts /\ (Parent[a] # None => Parent[a] \in Contexts)
    BY <1>3, ConstantsAssumption
  <2> QED BY <1>3, <1>4, <1>5, <2>1 DEF ParentCount, Expired
<1>7. counter' \in [Counters -> {"free", "live", "dying"}]
  BY <1>1 DEF Typed, TypeOK
<1>8. parentCount' \in [Counters -> Counters \cup {None}]
  <2>1. \A k \in Counters : (\E a \in N : k = Fresh(a)) => ParentCount(k[1]) \in Counters \cup {None}
    BY <1>4, <1>6
  <2> QED BY <1>1, <2>1 DEF Typed, TypeOK
<1>9. m_outstanding' \in [Contexts -> Counters \cup {None}]
  BY <1>1, <1>4 DEF Typed, TypeOK
<1>10. (IF HasCounter(c) THEN m_outstanding[c] ELSE Fresh(c)) \in Counters
  BY <1>2, <1>3, <1>4, <1>5 DEF Expired
<1>11. /\ local' \in [Threads -> Counters \cup {None}] /\ \A u \in Threads \ {t} : local'[u] = local[u]
       /\ local'[t] = IF HasCounter(c) THEN m_outstanding[c] ELSE Fresh(c)
  BY <1>1, <1>10 DEF Typed, TypeOK
<1>12. pc' \in [Threads -> Points] /\ pc'[t] = "start" /\ \A u \in Threads \ {t} : pc'[u] = pc[u]
  BY <1>1 DEF Typed, TypeOK, Points
<1>13. overtaken' \subseteq Contexts
  BY <1>1, <1>3 DEF Typed, TypeOK
<1>14. TypeOK'
  BY <1>1, <1>7, <1>8, <1>9, <1>11, <1>12, <1>13 DEF Typed, TypeOK, treeVars, runVars, histVars
<1>15. CallsOK' /\ Others(t) /\ ChildrenStay
  BY <1>1, <1>11, <1>12, CallsKept DEF Others, ChildrenStay, treeVars
<1>16. ASSUME NEW a \in N
       PROVE  /\ a \in Contexts /\ counter'[Fresh(a)] = "live" /\ m_outstanding'[a] = Fresh(a)
              /\ parentCount'[Fresh(a)] = ParentCount(a)
  <2>1. a \in Contexts /\ Fresh(a) \in Counters /\ Fresh(a)[1] = a
    BY <1>3, <1>4
  <2> QED BY <1>1, <2>1
<1>17. ASSUME NEW k \in Counters
       PROVE  \/ k[1] \in N /\ k = Fresh(k[1])
              \/ counter'[k] = counter[k] /\ parentCount'[k] = parentCount[k]
  <2>1. CASE \E a \in N : k = Fresh(a)
    BY <1>4, <2>1
  <2>2. CASE ~\E a \in N : k = Fresh(a)
    BY <1>1, <2>2
  <2> QED BY <2>1, <2>2
<1>18. \A a \in Contexts : a \notin N => m_outstanding'[a] = m_outstanding[a]
  BY <1>1
<1> USE DEF N
<1> QED BY <1>1, <1>2, <1>4, <1>10, <1>11, <1>12, <1>14, <1>15, <1>16, <1>17, <1>18

\* A runnable is started, unless it was started or stopped before.
LEMMA StartNextDoes ==
    ASSUME Typed, NEW t \in Threads, StartNext(t)
    PROVE  /\ TypeOK' /\ CallsOK' /\ Others(t) /\ ChildrenStay
           /\ UNCHANGED << treeVars, m_outstanding, counter, parentCount, by, overtaken, pc, op, ctx, run,
                           local, stack, todo, histVars >>
           /\ pc[t] = "start" /\ ctx[t] \in Contexts /\ local[t] \in Counters
           /\ rest[t] \in Seq(Runnables) /\ rest[t] # << >>
           /\ rest'[t] = Tail(rest[t]) /\ started \subseteq started' /\ stop \subseteq stop'
           /\ Head(rest[t]) \in started' \cup stop'
           /\ \/ held' = held
              \/ /\ Head(rest[t]) \notin stop
                 /\ held' = [held EXCEPT ![Head(rest[t])] = local[t]]
<1> DEFINE r == Head(rest[t])
<1>1. /\ UNCHANGED << treeVars, m_outstanding, counter, parentCount, by, overtaken, pc, op, ctx, run,
                      local, stack, todo, histVars >>
      /\ pc[t] = "start" /\ rest[t] # << >> /\ rest' = [rest EXCEPT ![t] = Tail(@)]
      /\ \/ r \in started \cup stop /\ UNCHANGED << started, stop, held >>
         \/ /\ r \notin started \cup stop /\ started' = started \cup {r}
            /\ \/ stop' = stop \cup {r} /\ held' = held
               \/ held' = [held EXCEPT ![r] = local[t]] /\ stop' = stop
  BY DEF StartNext, At, Start
<1>2. ctx[t] \in Contexts /\ local[t] \in Counters /\ rest[t] \in Seq(Runnables)
  <2>1. ctx[t] \in Contexts /\ local[t] # None
    BY <1>1 DEF Typed, Shaped
  <2> QED BY <2>1 DEF Typed, TypeOK
<1>3. r \in Runnables /\ Tail(rest[t]) \in Seq(Runnables)
  BY <1>1, <1>2, TailOf
<1>4. /\ rest' \in [Threads -> Seq(Runnables)] /\ rest'[t] = Tail(rest[t])
      /\ \A u \in Threads \ {t} : rest'[u] = rest[u]
  BY <1>1, <1>3 DEF Typed, TypeOK
<1>5. /\ started' \subseteq Runnables /\ stop' \subseteq Runnables
      /\ held' \in [Runnables -> Counters \cup {None}]
      /\ started \subseteq started' /\ stop \subseteq stop' /\ r \in started' \cup stop'
  BY <1>1, <1>2, <1>3 DEF Typed, TypeOK
<1>6. TypeOK'
  BY <1>1, <1>4, <1>5 DEF Typed, TypeOK, treeVars, histVars
<1>7. CallsOK' /\ Others(t) /\ ChildrenStay
  BY <1>1, <1>4, CallsKept DEF Others, ChildrenStay, treeVars
<1> QED BY <1>1, <1>2, <1>4, <1>5, <1>6, <1>7

\* All are started, and the counter is let go of.
LEMMA StartedDoes ==
    ASSUME Typed, NEW t \in Threads, Started(t)
    PROVE  /\ TypeOK' /\ CallsOK' /\ Others(t) /\ ChildrenStay
           /\ UNCHANGED << treeVars, m_outstanding, parentCount, overtaken, runVars, op, ctx, run, rest,
                           todo, histVars >>
           /\ pc[t] = "start" /\ rest[t] = << >> /\ ctx[t] \in Contexts
           /\ LetGo(t, held, [local EXCEPT ![t] = None], counter)
           /\ \/ /\ run[t] = None /\ pc'[t] = "children" /\ stack[t] \in Seq(WalkFrames)
                 /\ \E f \in WalkFrames : /\ f = [of |-> ctx[t], at |-> 1]
                                          /\ stack'[t] = << f >> \o stack[t]
              \/ run[t] # None /\ pc'[t] = "added" /\ stack' = stack
<1> DEFINE f == [of |-> ctx[t], at |-> 1]
<1>1. /\ UNCHANGED << treeVars, m_outstanding, parentCount, overtaken, runVars, op, ctx, run, rest,
                      todo, histVars >>
      /\ pc[t] = "start" /\ rest[t] = << >>
      /\ LetGo(t, held, [local EXCEPT ![t] = None], counter)
      /\ \/ /\ run[t] = None /\ pc' = [pc EXCEPT ![t] = "children"]
            /\ stack' = [stack EXCEPT ![t] = << f >> \o @]
         \/ run[t] # None /\ pc' = [pc EXCEPT ![t] = "added"] /\ stack' = stack
  BY DEF Started, At, Goto
<1>2. ctx[t] \in Contexts
  BY <1>1 DEF Typed, Shaped
<1>3. f \in WalkFrames
  BY <1>2 DEF WalkFrames
<1>4. run[t] = None => stack[t] \in Seq(WalkFrames)
  BY <1>1 DEF Typed, Shaped, Walking, Starting
<1>5. run[t] = None => << f >> \o stack[t] \in Seq(WalkFrames)
  <2> HIDE DEF f
  <2> QED BY <1>3, <1>4, PushOf
<1>6. /\ stack' \in [Threads -> Seq(WalkFrames) \cup Seq(StopFrames)]
      /\ \A u \in Threads \ {t} : stack'[u] = stack[u]
  <2> HIDE DEF f
  <2> QED BY <1>1, <1>5 DEF Typed, CallsOK
<1>7. pc' \in [Threads -> Points] /\ \A u \in Threads \ {t} : pc'[u] = pc[u]
  BY <1>1 DEF Typed, TypeOK, Points
<1>8. /\ held' = held /\ local' = [local EXCEPT ![t] = None]
      /\ counter' \in [Counters -> {"free", "live", "dying"}]
      /\ by' \in [Counters -> Threads \cup Runnables \cup {None}]
  <2>1. PICK l : l = [local EXCEPT ![t] = None]
    OBVIOUS
  <2>2. l \in [Threads -> Counters \cup {None}]
    BY <2>1 DEF Typed, TypeOK
  <2>3. LetGo(t, held, l, counter)
    BY <1>1, <2>1
  <2>4. held \in [Runnables -> Counters \cup {None}] /\ counter \in [Counters -> {"free", "live", "dying"}]
    BY DEF Typed, TypeOK
  <2> QED BY <2>1, <2>2, <2>3, <2>4, LetGoDoes
<1>9. local' \in [Threads -> Counters \cup {None}] /\ \A u \in Threads \ {t} : local'[u] = local[u]
  BY <1>8 DEF Typed, TypeOK
<1>10. TypeOK'
  BY <1>1, <1>7, <1>8, <1>9 DEF Typed, TypeOK, treeVars, runVars, histVars
<1>11. CallsOK'
  BY <1>1, <1>6 DEF Typed, CallsOK, Sensible
<1>12. Others(t) /\ ChildrenStay
  BY <1>1, <1>6, <1>7, <1>9 DEF Others, ChildrenStay, treeVars
<1>13. \/ /\ run[t] = None /\ pc'[t] = "children" /\ stack'[t] = << f >> \o stack[t]
       \/ run[t] # None /\ pc'[t] = "added" /\ stack' = stack
  <2> HIDE DEF f
  <2> QED BY <1>1 DEF Typed, TypeOK, CallsOK
<1> QED BY <1>1, <1>2, <1>3, <1>4, <1>10, <1>11, <1>12, <1>13

\* The thread of a runnable ends.
LEMMA RunnableEndsDoes ==
    ASSUME Typed, NEW r \in Runnables, RunnableEnds(r)
    PROVE  /\ TypeOK' /\ CallsOK' /\ ChildrenStay
           /\ UNCHANGED << treeVars, m_outstanding, parentCount, overtaken, started, pc, op, ctx, run, rest,
                           local, stack, todo, histVars >>
           /\ stop' = stop \cup {r} /\ held' = [held EXCEPT ![r] = None]
           /\ LetGo(r, [held EXCEPT ![r] = None], local, counter)
<1>1. /\ UNCHANGED << treeVars, m_outstanding, parentCount, overtaken, started, pc, op, ctx, run, rest,
                      stack, todo, histVars >>
      /\ stop' = stop \cup {r} /\ LetGo(r, [held EXCEPT ![r] = None], local, counter)
  BY DEF RunnableEnds, Stop
<1>2. /\ held' = [held EXCEPT ![r] = None] /\ local' = local
      /\ counter' \in [Counters -> {"free", "live", "dying"}]
      /\ by' \in [Counters -> Threads \cup Runnables \cup {None}]
  <2>1. PICK h : h = [held EXCEPT ![r] = None]
    OBVIOUS
  <2>2. h \in [Runnables -> Counters \cup {None}]
    BY <2>1 DEF Typed, TypeOK
  <2>3. LetGo(r, h, local, counter)
    BY <1>1, <2>1
  <2>4. local \in [Threads -> Counters \cup {None}] /\ counter \in [Counters -> {"free", "live", "dying"}]
    BY DEF Typed, TypeOK
  <2> QED BY <2>1, <2>2, <2>3, <2>4, LetGoDoes
<1>3. TypeOK'
  BY <1>1, <1>2 DEF Typed, TypeOK, treeVars, histVars
<1>4. CallsOK' /\ ChildrenStay
  BY <1>1, CallsKept DEF ChildrenStay, treeVars
<1> QED BY <1>1, <1>2, <1>3, <1>4

\* The destructor of a run counter.
LEMMA DestroyDoes ==
    ASSUME Typed, NEW k \in Counters, Destroy(k)
    PROVE  /\ TypeOK' /\ CallsOK' /\ ChildrenStay
           /\ UNCHANGED << treeVars, parentCount, overtaken, runVars, pc, op, ctx, run, rest, local, stack,
                           todo, held, histVars >>
           /\ counter[k] = "dying" /\ k[1] \in Contexts
           /\ m_outstanding' = [m_outstanding EXCEPT ![k[1]] = None]
           /\ LetGo(by[k], held, local, [counter EXCEPT ![k] = "free"])
<1>1. /\ UNCHANGED << treeVars, parentCount, overtaken, runVars, pc, op, ctx, run, rest, stack,
                      todo, histVars >>
      /\ counter[k] = "dying" /\ m_outstanding' = [m_outstanding EXCEPT ![k[1]] = None]
      /\ LetGo(by[k], held, local, [counter EXCEPT ![k] = "free"])
  BY DEF Destroy, Reset
<1>2. k[1] \in Contexts
  BY DEF Counters
<1>3. /\ held' = held /\ local' = local
      /\ counter' \in [Counters -> {"free", "live", "dying"}]
      /\ by' \in [Counters -> Threads \cup Runnables \cup {None}]
  <2>1. PICK g : g = [counter EXCEPT ![k] = "free"]
    OBVIOUS
  <2>2. g \in [Counters -> {"free", "live", "dying"}]
    BY <2>1 DEF Typed, TypeOK
  <2>3. LetGo(by[k], held, local, g)
    BY <1>1, <2>1
  <2>4. /\ local \in [Threads -> Counters \cup {None}] /\ held \in [Runnables -> Counters \cup {None}]
        /\ by[k] \in Threads \cup Runnables \cup {None}
    BY DEF Typed, TypeOK
  <2> QED BY <2>2, <2>3, <2>4, LetGoDoes
<1>4. m_outstanding' \in [Contexts -> Counters \cup {None}]
  BY <1>1, <1>2 DEF Typed, TypeOK
<1>5. TypeOK'
  BY <1>1, <1>3, <1>4 DEF Typed, TypeOK, treeVars, runVars, histVars
<1>6. CallsOK' /\ ChildrenStay
  BY <1>1, CallsKept DEF ChildrenStay, treeVars
<1> QED BY <1>1, <1>2, <1>3, <1>5, <1>6

\* Nothing is in the empty list.
LEMMA RangeEmpty == Range(<< >>) = {}
  BY DEF Range

\* Who sets m_beforeRunning has put a runnable in the list.
LEMMA FlaggedStep ==
    ASSUME Typed, \/ UNCHANGED << m_threads, m_beforeRunning >>
                  \/ \E t \in Threads : Add(t) \/ Added(t)
    PROVE  Flagged'
<1>1. CASE UNCHANGED << m_threads, m_beforeRunning >>
  BY <1>1 DEF Typed, Flagged
<1>2. ASSUME NEW t \in Threads, Add(t) PROVE Flagged'
  <2>1. /\ ctx[t] \in Contexts /\ run[t] \in Runnables
        /\ m_threads'[ctx[t]] = << run[t] >> \o m_threads[ctx[t]]
        /\ \A c \in Contexts \ {ctx[t]} : /\ m_threads'[c] = m_threads[c]
                                          /\ m_beforeRunning'[c] = m_beforeRunning[c]
    BY <1>2, AddDoes
  <2>2. m_threads[ctx[t]] \in Seq(Runnables)
    BY <2>1 DEF Typed, TypeOK
  <2>3. m_threads'[ctx[t]] # << >>
    BY <2>1, <2>2, PushOf
  <2> QED BY <2>1, <2>3 DEF Typed, Flagged
<1>3. ASSUME NEW t \in Threads, Added(t) PROVE Flagged'
  <2>1. /\ m_threads' = m_threads /\ ctx[t] \in Contexts /\ m_beforeRunning'[ctx[t]] = FALSE
        /\ \A c \in Contexts \ {ctx[t]} : m_beforeRunning'[c] = m_beforeRunning[c]
    BY <1>3, AddedDoes
  <2> QED BY <2>1 DEF Typed, Flagged
<1> QED BY <1>1, <1>2, <1>3

\* Steps that leave the stacks as they are, of threads that are not shutting down.
LEMMA CallTyped ==
    ASSUME Typed, NEW t \in Threads, Call(t) PROVE Typed'
<1>1. /\ TypeOK' /\ CallsOK' /\ Others(t)
      /\ UNCHANGED << treeVars, counterVars, runVars, rest, local, stack, histVars >>
      /\ pc[t] = "idle"
  BY CallDoes
<1>2. PICK w \in todo[t] :
        /\ w \in Calls /\ Sensible(w)
        /\ w.kind = "create" => Parent[ctx'[t]] # None
        /\ ctx'[t] \in Contexts /\ op'[t] = w /\ pc'[t] = w.kind
        /\ ctx'[t] = (IF w.kind = "add" THEN Of[w.of] ELSE w.of)
        /\ run'[t] = (IF w.kind = "add" THEN w.of ELSE None)
  BY CallDoes
<1>3. stack[t] = << >>
  BY <1>1 DEF Typed, Shaped, Walking, Starting, Stopping
<1>4. /\ w.kind \in Kinds
      /\ w.kind = "add" => w.of \in Runnables
      /\ w.kind # "add" => w.of \in Contexts
  BY <1>2 DEF Calls, Sensible
<1>5. << >> \in Seq(StopFrames) /\ << >> \in Seq(WalkFrames)
  OBVIOUS
<1>6. stack'[t] = << >>
  BY <1>1, <1>3
<1>7. Shaped(t)'
  BY <1>1, <1>2, <1>3, <1>4, <1>5, <1>6 DEF Shaped, Walking, Starting, Stopping, Adding, Creating, Kinds
<1>8. KidsThere(t)'
  BY <1>6, RangeEmpty DEF KidsThere
<1>9. Flagged' /\ ChildrenStay
  BY <1>1, FlaggedStep DEF treeVars, ChildrenStay
<1> QED BY <1>1, <1>7, <1>8, <1>9, TypedStep

\* CreateInternal, reserving a place, keeps the types and shapes.
LEMMA CreateTyped ==
    ASSUME Typed, NEW t \in Threads, Create(t) PROVE Typed'
<1>1. /\ TypeOK' /\ CallsOK' /\ Others(t) /\ ChildrenStay
      /\ UNCHANGED << m_threads, m_beforeRunning, op, ctx, run, local, stack >>
      /\ pc[t] = "create" /\ pc'[t] \in {"idle", "construct"}
  BY CreateDoes
<1>2. Shaped(t)' /\ KidsThere(t)'
  BY <1>1 DEF Typed, Shaped, KidsThere, Walking, Starting, Stopping, Adding, Creating
<1> QED BY <1>1, <1>2, FlaggedStep, TypedStep

\* CreateInternal, looking at the parent, keeps them.
LEMMA ConstructTyped ==
    ASSUME Typed, NEW t \in Threads, Construct(t) PROVE Typed'
<1>1. /\ TypeOK' /\ CallsOK' /\ Others(t) /\ ChildrenStay
      /\ UNCHANGED << m_threads, m_beforeRunning, op, ctx, run, local, stack >>
      /\ pc[t] = "construct" /\ pc'[t] = "link"
  BY ConstructDoes
<1>2. Shaped(t)' /\ KidsThere(t)'
  BY <1>1 DEF Typed, Shaped, KidsThere, Walking, Starting, Stopping, Adding, Creating
<1> QED BY <1>1, <1>2, FlaggedStep, TypedStep

\* CreateInternal, linking the child, keeps them.
LEMMA LinkTyped ==
    ASSUME Typed, NEW t \in Threads, Link(t) PROVE Typed'
<1>1. /\ TypeOK' /\ CallsOK' /\ Others(t) /\ ChildrenStay
      /\ UNCHANGED << m_threads, m_beforeRunning, op, ctx, run, local, stack >>
      /\ pc[t] = "link" /\ pc'[t] = "idle"
  BY LinkDoes
<1>2. Shaped(t)' /\ KidsThere(t)'
  BY <1>1 DEF Typed, Shaped, KidsThere, Walking, Starting, Stopping, Adding, Creating
<1> QED BY <1>1, <1>2, FlaggedStep, TypedStep

\* Initiate keeps them.
LEMMA InitiateTyped ==
    ASSUME Typed, NEW t \in Threads, Initiate(t) PROVE Typed'
<1>1. /\ TypeOK' /\ CallsOK' /\ Others(t) /\ ChildrenStay
      /\ UNCHANGED << m_threads, m_beforeRunning, op, ctx, local >>
      /\ pc[t] = "initiate" /\ run[t] = None /\ stack[t] = << >> /\ ctx[t] \in Contexts
      /\ \/ pc'[t] = "idle" /\ UNCHANGED << run, stack >>
         \/ pc'[t] = "add" /\ run'[t] = Hold[ctx[t]] /\ stack' = stack
         \/ pc'[t] = "count" /\ UNCHANGED << run, stack >>
         \/ pc'[t] = "children" /\ run' = run /\ stack'[t] = << [of |-> ctx[t], at |-> 1] >>
  BY InitiateDoes
<1>2. /\ Hold[ctx[t]] \in Runnables /\ Of[Hold[ctx[t]]] = ctx[t]
      /\ << >> \in Seq(WalkFrames)
  BY <1>1, ConstantsAssumption
<1>3. /\ << [of |-> ctx[t], at |-> 1] >> \in Seq(WalkFrames)
      /\ << [of |-> ctx[t], at |-> 1] >> # << >>
  <2>1. [of |-> ctx[t], at |-> 1] \in WalkFrames
    BY <1>1 DEF WalkFrames
  <2> QED BY <2>1
<1>4. Shaped(t)'
  <2>1. CASE pc'[t] = "idle" /\ UNCHANGED << run, stack >>
    BY <1>1, <2>1 DEF Shaped, Walking, Starting, Stopping, Adding, Creating
  <2>2. CASE pc'[t] = "add" /\ run'[t] = Hold[ctx[t]] /\ stack' = stack
    BY <1>1, <1>2, <2>2 DEF Shaped, Walking, Starting, Stopping, Adding, Creating
  <2>3. CASE pc'[t] = "count" /\ UNCHANGED << run, stack >>
    BY <1>1, <1>2, <2>3 DEF Shaped, Walking, Starting, Stopping, Adding, Creating
  <2>4. CASE pc'[t] = "children" /\ run' = run /\ stack'[t] = << [of |-> ctx[t], at |-> 1] >>
    BY <1>1, <1>3, <2>4 DEF Shaped, Walking, Starting, Stopping, Adding, Creating
  <2> QED BY <1>1, <2>1, <2>2, <2>3, <2>4
<1>5. KidsThere(t)'
  BY <1>1 DEF KidsThere, Stopping
<1> QED BY <1>1, <1>4, <1>5, FlaggedStep, TypedStep

\* TryTransitionChildrenState keeps them.
LEMMA TransitionTyped ==
    ASSUME Typed, NEW t \in Threads, Transition(t) PROVE Typed'
<1>1. /\ TypeOK' /\ CallsOK' /\ Others(t) /\ ChildrenStay
      /\ UNCHANGED << m_threads, m_beforeRunning, op, run, local >>
      /\ pc[t] = "children" /\ run[t] = None /\ stack[t] \in Seq(WalkFrames) /\ stack[t] # << >>
  BY TransitionDoes
<1>2. PICK f \in WalkFrames :
         /\ f = Head(stack[t])
         /\ WalkEnds(t, f) \/ \E c \in Contexts : WalkOn(t, f, c)
  BY TransitionDoes
<1>3. ctx[t] \in Contexts
  BY <1>1 DEF Typed, Shaped
<1>4. CASE WalkEnds(t, f)
  <2>1. /\ stack'[t] = Tail(stack[t]) /\ ctx' = ctx
        /\ \/ stack'[t] = << >> /\ pc'[t] = "idle"
           \/ stack'[t] # << >> /\ pc'[t] = "children"
    BY <1>4 DEF WalkEnds
  <2>2. stack'[t] \in Seq(WalkFrames)
    BY <1>1, <2>1, TailOf
  <2>3. Shaped(t)' /\ KidsThere(t)'
    BY <1>1, <1>3, <2>1, <2>2 DEF Shaped, KidsThere, Walking, Starting, Stopping, Adding, Creating
  <2> QED BY <1>1, <2>3, FlaggedStep, TypedStep
<1>5. ASSUME NEW c \in Contexts, WalkOn(t, f, c) PROVE Typed'
  <2>1. /\ stack'[t] = [stack[t] EXCEPT ![1] = [of |-> f.of, at |-> f.at + 1]]
        /\ \/ pc'[t] = "children" /\ ctx' = ctx
           \/ pc'[t] = "count" /\ ctx'[t] = c
    BY <1>5 DEF WalkOn, WalkSkips, WalkStarts, WalkTells
  <2>2. [of |-> f.of, at |-> f.at + 1] \in WalkFrames
    BY DEF WalkFrames
  <2>3. stack'[t] \in Seq(WalkFrames) /\ stack'[t] # << >>
    BY <1>1, <2>1, <2>2, PutOf
  <2>4. pc'[t] \in {"children", "count"} /\ ctx'[t] \in Contexts /\ run'[t] = None
    BY <1>1, <1>3, <2>1
  <2>5. Shaped(t)' /\ KidsThere(t)'
    BY <2>3, <2>4 DEF Shaped, KidsThere, Walking, Starting, Stopping, Adding, Creating
  <2> QED BY <1>1, <2>5, FlaggedStep, TypedStep
<1> QED BY <1>2, <1>4, <1>5

\* AddCoreRunnable keeps them.
LEMMA AddTyped ==
    ASSUME Typed, NEW t \in Threads, Add(t) PROVE Typed'
<1>1. /\ TypeOK' /\ CallsOK' /\ Others(t) /\ ChildrenStay
      /\ UNCHANGED << op, ctx, run, local, stack >>
      /\ pc[t] = "add" /\ ctx[t] \in Contexts /\ run[t] \in Runnables /\ Of[run[t]] = ctx[t]
      /\ stack[t] = << >> /\ pc'[t] \in {"count", "added"}
  BY AddDoes
<1>2. run[t] # None
  BY <1>1, ConstantsAssumption
<1>3. Shaped(t)' /\ KidsThere(t)'
  BY <1>1, <1>2 DEF Shaped, KidsThere, Walking, Starting, Stopping, Adding, Creating
<1> QED BY <1>1, <1>3, FlaggedStep, TypedStep

\* AddCoreRunnable, looking again, keeps them.
LEMMA AddedTyped ==
    ASSUME Typed, NEW t \in Threads, Added(t) PROVE Typed'
<1>1. /\ TypeOK' /\ CallsOK' /\ Others(t) /\ ChildrenStay
      /\ UNCHANGED << op, ctx, run, local, stack >>
      /\ pc[t] = "added" /\ pc'[t] \in {"addstop", "idle"}
  BY AddedDoes
<1>2. Shaped(t)' /\ KidsThere(t)'
  BY <1>1 DEF Typed, Shaped, KidsThere, Walking, Starting, Stopping, Adding, Creating
<1> QED BY <1>1, <1>2, FlaggedStep, TypedStep

\* AddCoreRunnable, stopping the runnable, keeps them.
LEMMA AddedStopTyped ==
    ASSUME Typed, NEW t \in Threads, AddedStop(t) PROVE Typed'
<1>1. /\ TypeOK' /\ CallsOK' /\ Others(t) /\ ChildrenStay
      /\ UNCHANGED << treeVars, op, ctx, run, local, stack >>
      /\ pc[t] = "addstop" /\ pc'[t] = "idle"
  BY AddedStopDoes
<1>2. Shaped(t)' /\ KidsThere(t)'
  BY <1>1 DEF Typed, Shaped, KidsThere, Walking, Starting, Stopping, Adding, Creating
<1>3. Flagged'
  BY <1>1, FlaggedStep DEF treeVars
<1> QED BY <1>1, <1>2, <1>3, TypedStep

\* The end of Wait keeps them.
LEMMA AwaitTyped ==
    ASSUME Typed, NEW t \in Threads, Await(t) PROVE Typed'
<1>1. /\ TypeOK' /\ CallsOK' /\ Others(t) /\ ChildrenStay
      /\ UNCHANGED << treeVars, op, ctx, run, local, stack >>
      /\ pc[t] \in {"wait", "quiescent", "delay"} /\ pc'[t] = "idle"
  BY AwaitDoes
<1>2. Shaped(t)' /\ KidsThere(t)'
  BY <1>1 DEF Typed, Shaped, KidsThere, Walking, Starting, Stopping, Adding, Creating
<1>3. Flagged'
  BY <1>1, FlaggedStep DEF treeVars
<1> QED BY <1>1, <1>2, <1>3, TypedStep

\* What KidsThere needs of a thread that has replaced or added a frame.
LEMMA KidsThereOf ==
    ASSUME NEW t, NEW T, NEW e,
           \A f \in T : f.kids \subseteq DOMAIN m_children'[f.of],
           e.kids \subseteq DOMAIN m_children'[e.of],
           Range(stack'[t]) = {e} \cup T
    PROVE  KidsThere(t)'
  BY DEF KidsThere

\* The first critical section of SignalShutdown keeps them.
LEMMA ShutdownTyped ==
    ASSUME Typed, NEW t \in Threads, Shutdown(t) PROVE Typed'
<1>1. /\ TypeOK' /\ CallsOK' /\ Others(t) /\ ChildrenStay
      /\ UNCHANGED << m_threads, m_beforeRunning, m_children, op, ctx, run, local >>
      /\ pc[t] \in {"shutdown", "signal"} /\ ctx[t] \in Contexts /\ stack[t] \in Seq(StopFrames)
      /\ \/ /\ stack' = stack
            /\ pc'[t] = IF stack[t] # << >> THEN "kids" ELSE "idle"
         \/ /\ pc'[t] = "collect"
            /\ \E f \in StopFrames :
                 /\ f = [of |-> ctx[t], kids |-> {}, stops |-> ToStop(ctx[t])]
                 /\ stack'[t] = << f >> \o stack[t]
  BY ShutdownDoes
<1>2. op[t].of \in Contexts
  BY <1>1 DEF Typed, Shaped, Stopping
<1>3. \A f \in Range(stack[t]) : f.kids \subseteq DOMAIN m_children[f.of]
  <2>1. CASE pc[t] = "signal"
    BY <2>1 DEF Typed, KidsThere, Stopping
  <2>2. CASE pc[t] = "shutdown"
    <3>1. stack[t] = << >>
      BY <2>2 DEF Typed, Shaped, Walking, Starting, Stopping
    <3> QED BY <3>1, RangeEmpty
  <2> QED BY <1>1, <2>1, <2>2
<1>4. CASE stack' = stack /\ pc'[t] = IF stack[t] # << >> THEN "kids" ELSE "idle"
  <2>1. Shaped(t)'
    BY <1>1, <1>2, <1>4 DEF Shaped, Walking, Starting, Stopping, Adding, Creating
  <2>2. KidsThere(t)'
    BY <1>1, <1>3, <1>4 DEF KidsThere
  <2> QED BY <1>1, <2>1, <2>2, FlaggedStep, TypedStep
<1>5. ASSUME pc'[t] = "collect", NEW f \in StopFrames,
             f = [of |-> ctx[t], kids |-> {}, stops |-> ToStop(ctx[t])],
             stack'[t] = << f >> \o stack[t]
      PROVE  Typed'
  <2>1. /\ stack'[t] \in Seq(StopFrames) /\ stack'[t] # << >>
        /\ Range(stack'[t]) = {f} \cup Range(stack[t])
    <3>1. f \in StopFrames /\ stack[t] \in Seq(StopFrames) /\ stack'[t] = << f >> \o stack[t]
      BY <1>1, <1>5
    <3>2. /\ << f >> \o stack[t] \in Seq(StopFrames) /\ << f >> \o stack[t] # << >>
          /\ Range(<< f >> \o stack[t]) = {f} \cup Range(stack[t])
      BY ONLY <3>1, PushOf
    <3> QED BY ONLY <3>1, <3>2
  <2>2. f.kids = {}
    BY <1>5
  <2>3. Shaped(t)'
    BY <1>1, <1>2, <1>5, <2>1 DEF Shaped, Walking, Starting, Stopping, Adding, Creating
  <2>4. KidsThere(t)'
    BY <1>1, <1>3, <2>1, <2>2, KidsThereOf
  <2> QED BY <1>1, <2>3, <2>4, FlaggedStep, TypedStep
<1> QED BY <1>1, <1>4, <1>5

\* The second one keeps them.
LEMMA CollectTyped ==
    ASSUME Typed, NEW t \in Threads, Collect(t) PROVE Typed'
<1>1. /\ TypeOK' /\ CallsOK' /\ Others(t) /\ ChildrenStay
      /\ UNCHANGED << treeVars, op, ctx, run, local >>
      /\ pc[t] = "collect" /\ pc'[t] = "kids"
      /\ stack[t] \in Seq(StopFrames) /\ stack[t] # << >>
  BY CollectDoes
<1>2. PICK f, e \in StopFrames :
                /\ f = Head(stack[t]) /\ stack'[t] = [stack[t] EXCEPT ![1] = e]
                /\ e = [of |-> f.of, stops |-> f.stops,
                        kids |-> { i \in DOMAIN m_children[f.of] : m_children[f.of][i] \in linked }]
  BY CollectDoes
<1>3. ctx[t] \in Contexts /\ op[t].of \in Contexts
  BY <1>1 DEF Typed, Shaped, Stopping
<1>4. /\ stack'[t] \in Seq(StopFrames) /\ stack'[t] # << >>
      /\ Range(stack'[t]) = {e} \cup Range(Tail(stack[t])) /\ Range(Tail(stack[t])) \subseteq Range(stack[t])
  <2>1. /\ e \in StopFrames /\ stack[t] \in Seq(StopFrames) /\ stack[t] # << >>
        /\ stack'[t] = [stack[t] EXCEPT ![1] = e]
    BY <1>1, <1>2
  <2> QED BY ONLY <2>1, PutIs
<1>5. m_children' = m_children
  BY <1>1 DEF treeVars
<1>6. \A g \in Range(Tail(stack[t])) : g.kids \subseteq DOMAIN m_children'[g.of]
  BY <1>1, <1>4, <1>5 DEF Typed, KidsThere, Stopping
<1>7. e.kids \subseteq DOMAIN m_children'[e.of]
  BY <1>2, <1>5
<1>8. Shaped(t)'
  BY <1>1, <1>3, <1>4 DEF Shaped, Walking, Starting, Stopping, Adding, Creating
<1>9. KidsThere(t)'
  BY <1>4, <1>6, <1>7, KidsThereOf
<1>10. Flagged'
  BY <1>1, FlaggedStep DEF treeVars
<1> QED BY <1>1, <1>8, <1>9, <1>10, TypedStep

\* The recursion into the children keeps them.
LEMMA KidsTyped ==
    ASSUME Typed, NEW t \in Threads, Kids(t) PROVE Typed'
<1>1. /\ TypeOK' /\ CallsOK' /\ Others(t) /\ ChildrenStay
      /\ UNCHANGED << treeVars, op, run, local >>
      /\ pc[t] = "kids" /\ stack[t] \in Seq(StopFrames) /\ stack[t] # << >>
  BY KidsDoes
<1>2. PICK f \in StopFrames : f = Head(stack[t]) /\
                \/ f.kids = {} /\ pc'[t] = "stops" /\ UNCHANGED << stack, ctx >>
                \/ \E i \in f.kids : \E e \in StopFrames :
                     /\ i \in DOMAIN m_children[f.of] /\ m_children[f.of][i] \in Contexts
                     /\ e = [of |-> f.of, kids |-> f.kids \ {i}, stops |-> f.stops]
                     /\ stack'[t] = [stack[t] EXCEPT ![1] = e]
                     /\ ctx'[t] = m_children[f.of][i] /\ pc'[t] = "signal"
  BY KidsDoes
<1>3. ctx[t] \in Contexts /\ op[t].of \in Contexts
  BY <1>1 DEF Typed, Shaped, Stopping
<1>4. m_children' = m_children /\ Flagged'
  BY <1>1, FlaggedStep DEF treeVars
<1>5. \A g \in Range(stack[t]) : g.kids \subseteq DOMAIN m_children[g.of]
  BY <1>1 DEF Typed, KidsThere, Stopping
<1>6. CASE f.kids = {} /\ pc'[t] = "stops" /\ UNCHANGED << stack, ctx >>
  <2>1. Shaped(t)'
    BY <1>1, <1>2, <1>3, <1>6 DEF Shaped, Walking, Starting, Stopping, Adding, Creating
  <2>2. KidsThere(t)'
    BY <1>4, <1>5, <1>6 DEF KidsThere
  <2> QED BY <1>1, <1>4, <2>1, <2>2, TypedStep
<1>7. ASSUME NEW i \in f.kids, NEW e \in StopFrames,
             m_children[f.of][i] \in Contexts,
             e = [of |-> f.of, kids |-> f.kids \ {i}, stops |-> f.stops],
             stack'[t] = [stack[t] EXCEPT ![1] = e],
             ctx'[t] = m_children[f.of][i] /\ pc'[t] = "signal"
      PROVE  Typed'
  <2>1. /\ stack'[t] \in Seq(StopFrames) /\ stack'[t] # << >>
        /\ Range(stack'[t]) = {e} \cup Range(Tail(stack[t])) /\ Range(Tail(stack[t])) \subseteq Range(stack[t])
        /\ f \in Range(stack[t])
    <3>1. /\ e \in StopFrames /\ stack[t] \in Seq(StopFrames) /\ stack[t] # << >>
          /\ stack'[t] = [stack[t] EXCEPT ![1] = e] /\ f = Head(stack[t])
      BY <1>1, <1>2, <1>7
    <3> QED BY ONLY <3>1, PutIs
  <2>2. e.kids \subseteq DOMAIN m_children'[e.of]
    BY <1>4, <1>5, <1>7, <2>1
  <2>3. \A g \in Range(Tail(stack[t])) : g.kids \subseteq DOMAIN m_children'[g.of]
    BY <1>4, <1>5, <2>1
  <2>4. KidsThere(t)'
    BY <2>1, <2>2, <2>3, KidsThereOf
  <2>5. Shaped(t)'
    BY <1>1, <1>3, <1>7, <2>1 DEF Shaped, Walking, Starting, Stopping, Adding, Creating
  <2> QED BY <1>1, <1>4, <2>4, <2>5, TypedStep
<1> QED BY <1>2, <1>6, <1>7

\* Stopping the runnables keeps them.
LEMMA StopsTyped ==
    ASSUME Typed, NEW t \in Threads, Stops(t) PROVE Typed'
<1>1. /\ TypeOK' /\ CallsOK' /\ Others(t) /\ ChildrenStay
      /\ UNCHANGED << treeVars, op, run, local >>
      /\ pc[t] = "stops" /\ stack[t] \in Seq(StopFrames) /\ stack[t] # << >> /\ op[t].of \in Contexts
  BY StopsDoes
<1>2. PICK f \in StopFrames : f = Head(stack[t]) /\
                \/ /\ pc' = pc /\ ctx' = ctx
                   /\ \E e \in StopFrames :
                        /\ e = [of |-> f.of, kids |-> f.kids, stops |-> Tail(f.stops)]
                        /\ stack'[t] = [stack[t] EXCEPT ![1] = e]
                \/ /\ stack'[t] = Tail(stack[t]) /\ ctx'[t] = op[t].of
                   /\ \/ stack'[t] # << >> /\ pc'[t] = "kids"
                      \/ stack'[t] = << >> /\ pc'[t] \in {"wait", "idle"}
  BY StopsDoes
<1>3. ctx[t] \in Contexts /\ f.kids = {}
  BY <1>1, <1>2 DEF Typed, Shaped, Stopping
<1>4. m_children' = m_children /\ Flagged'
  BY <1>1, FlaggedStep DEF treeVars
<1>5. \A g \in Range(stack[t]) : g.kids \subseteq DOMAIN m_children[g.of]
  BY <1>1 DEF Typed, KidsThere, Stopping
<1>6. Range(Tail(stack[t])) \subseteq Range(stack[t]) /\ Tail(stack[t]) \in Seq(StopFrames)
  BY <1>1, TailOf
<1>7. ASSUME pc' = pc /\ ctx' = ctx, NEW e \in StopFrames,
             e = [of |-> f.of, kids |-> f.kids, stops |-> Tail(f.stops)],
             stack'[t] = [stack[t] EXCEPT ![1] = e]
      PROVE  Typed'
  <2>1. /\ stack'[t] \in Seq(StopFrames) /\ stack'[t] # << >> /\ Head(stack'[t]) = e
        /\ Range(stack'[t]) = {e} \cup Range(Tail(stack[t]))
    <3>1. /\ e \in StopFrames /\ stack[t] \in Seq(StopFrames) /\ stack[t] # << >>
          /\ stack'[t] = [stack[t] EXCEPT ![1] = e]
      BY <1>1, <1>7
    <3> QED BY ONLY <3>1, PutIs
  <2>2. e.kids = {}
    BY <1>3, <1>7
  <2>3. \A g \in Range(Tail(stack[t])) : g.kids \subseteq DOMAIN m_children'[g.of]
    BY <1>4, <1>5, <1>6
  <2>4. KidsThere(t)'
    BY <2>1, <2>2, <2>3, KidsThereOf
  <2>5. Shaped(t)'
    BY <1>1, <1>3, <1>7, <2>1, <2>2 DEF Shaped, Walking, Starting, Stopping, Adding, Creating
  <2> QED BY <1>1, <1>4, <2>4, <2>5, TypedStep
<1>8. CASE /\ stack'[t] = Tail(stack[t]) /\ ctx'[t] = op[t].of
           /\ \/ stack'[t] # << >> /\ pc'[t] = "kids"
              \/ stack'[t] = << >> /\ pc'[t] \in {"wait", "idle"}
  <2>1. KidsThere(t)'
    BY <1>4, <1>5, <1>6, <1>8 DEF KidsThere
  <2>2. Shaped(t)'
    BY <1>1, <1>6, <1>8 DEF Shaped, Walking, Starting, Stopping, Adding, Creating
  <2> QED BY <1>1, <1>4, <2>1, <2>2, TypedStep
<1> QED BY <1>2, <1>7, <1>8

\* Taking a run counter keeps them.
LEMMA CountTyped ==
    ASSUME Typed, NEW t \in Threads, Count(t) PROVE Typed'
<1>1. /\ TypeOK' /\ CallsOK' /\ Others(t) /\ ChildrenStay
      /\ UNCHANGED << treeVars, op, ctx, run, stack >>
      /\ pc[t] = "count" /\ pc'[t] = "start" /\ local'[t] \in Counters
  BY CountDoes
<1>2. local'[t] # None
  BY <1>1, ConstantsAssumption
<1>3. Shaped(t)' /\ KidsThere(t)'
  BY <1>1, <1>2 DEF Typed, Shaped, KidsThere, Walking, Starting, Stopping, Adding, Creating
<1>4. Flagged'
  BY <1>1, FlaggedStep DEF treeVars
<1> QED BY <1>1, <1>3, <1>4, TypedStep

\* Starting a runnable keeps them.
LEMMA StartNextTyped ==
    ASSUME Typed, NEW t \in Threads, StartNext(t) PROVE Typed'
<1>1. /\ TypeOK' /\ CallsOK' /\ Others(t) /\ ChildrenStay
      /\ UNCHANGED << treeVars, pc, op, ctx, run, local, stack >>
  BY StartNextDoes
<1>2. m_children' = m_children /\ Flagged'
  BY <1>1, FlaggedStep DEF treeVars
<1>3. Shaped(t)' /\ KidsThere(t)'
  BY <1>1, <1>2 DEF Typed, Shaped, KidsThere, Walking, Starting, Stopping, Adding, Creating
<1> QED BY <1>1, <1>2, <1>3, TypedStep

\* Letting go of the run counter keeps them.
LEMMA StartedTyped ==
    ASSUME Typed, NEW t \in Threads, Started(t) PROVE Typed'
<1>1. /\ TypeOK' /\ CallsOK' /\ Others(t) /\ ChildrenStay
      /\ UNCHANGED << treeVars, op, ctx, run >>
      /\ pc[t] = "start" /\ ctx[t] \in Contexts
      /\ \/ /\ run[t] = None /\ pc'[t] = "children" /\ stack[t] \in Seq(WalkFrames)
            /\ \E f \in WalkFrames : stack'[t] = << f >> \o stack[t]
         \/ run[t] # None /\ pc'[t] = "added" /\ stack' = stack
  BY StartedDoes
<1>2. m_children' = m_children /\ Flagged'
  BY <1>1, FlaggedStep DEF treeVars
<1>3. CASE /\ run[t] = None /\ pc'[t] = "children" /\ stack[t] \in Seq(WalkFrames)
           /\ \E f \in WalkFrames : stack'[t] = << f >> \o stack[t]
  <2>1. stack'[t] \in Seq(WalkFrames) /\ stack'[t] # << >>
    BY <1>3, PushOf
  <2>2. Shaped(t)' /\ KidsThere(t)'
    BY <1>1, <1>3, <2>1 DEF Shaped, KidsThere, Walking, Starting, Stopping, Adding, Creating
  <2> QED BY <1>1, <1>2, <2>2, TypedStep
<1>4. CASE run[t] # None /\ pc'[t] = "added" /\ stack' = stack
  <2>1. Shaped(t)' /\ KidsThere(t)'
    BY <1>1, <1>4 DEF Typed, Shaped, KidsThere, Walking, Starting, Stopping, Adding, Creating
  <2> QED BY <1>1, <1>2, <2>1, TypedStep
<1> QED BY <1>1, <1>3, <1>4

\* Steps that no thread takes.
LEMMA QuietTyped ==
    ASSUME Typed, TypeOK', CallsOK', UNCHANGED << treeVars, pc, op, ctx, run, local, stack >>
    PROVE  Typed'
<1>1. m_children' = m_children /\ Flagged'
  BY FlaggedStep DEF treeVars
<1>2. ASSUME NEW t \in Threads PROVE Shaped(t)' /\ KidsThere(t)'
  <2>1. Shaped(t) /\ KidsThere(t)
    BY DEF Typed
  <2> QED BY <1>1, <2>1 DEF Shaped, KidsThere, Walking, Starting, Stopping, Adding, Creating
<1> QED BY <1>1, <1>2 DEF Typed

\* Every step keeps them.
LEMMA NextTyped ==
    ASSUME Typed, [Next]_vars PROVE Typed'
<1>1. ASSUME NEW t \in Threads, Call(t) \/ Step(t) PROVE Typed'
  BY <1>1, CallTyped, CreateTyped, ConstructTyped, LinkTyped, InitiateTyped, TransitionTyped, CountTyped,
     StartNextTyped, StartedTyped, AddTyped, AddedTyped, AddedStopTyped, ShutdownTyped, CollectTyped,
     KidsTyped, StopsTyped, AwaitTyped
     DEF Step
<1>2. ASSUME NEW r \in Runnables, RunnableEnds(r) PROVE Typed'
  BY <1>2, RunnableEndsDoes, QuietTyped
<1>3. ASSUME NEW k \in Counters, Destroy(k) PROVE Typed'
  BY <1>3, DestroyDoes, QuietTyped
<1>4. ASSUME UNCHANGED vars PROVE Typed'
  <2>1. TypeOK' /\ CallsOK'
    BY <1>4, CallsKept DEF Typed, TypeOK, vars, treeVars, counterVars, runVars, threadVars, histVars
  <2> QED BY <1>4, <2>1, QuietTyped DEF vars, threadVars
<1> QED BY <1>1, <1>2, <1>3, <1>4 DEF Next

\* The variables always have their types.
THEOREM TypeCorrect == Spec => []TypeOK
<1>1. Init => Typed
  BY InitTyped
<1>2. Typed /\ [Next]_vars => Typed'
  BY NextTyped
<1>3. Typed => TypeOK
  BY DEF Typed
<1> QED BY <1>1, <1>2, <1>3, PTL DEF Spec

-----------------------------------------------------------------------------
(* Parents and children *)

\* What a thread is at is linked, or about to be linked by this thread.
ThreadKin(t) ==
    /\ \A w \in todo[t] : w.kind = "create" => w.of \notin linked
    /\ Creating(t) => ctx[t] \notin linked /\ Parent[ctx[t]] \in linked
    /\ pc[t] \in {"construct", "link"} => ctx[t] \in Range(m_children[Parent[ctx[t]]])
    /\ pc[t] \in {"initiate", "add", "shutdown", "signal"} => ctx[t] \in linked
    /\ Stopping(t) =>
         \A f \in Range(stack[t]) : IsShutdown(f.of) /\ \A i \in f.kids : m_children[f.of][i] \in linked

\* A context is created once, a runnable added once.
PairKin(t, u) ==
    /\ \A w \in todo[t] : w.kind = "create" /\ Creating(u) => ctx[u] # w.of
    /\ t # u => /\ Creating(t) /\ Creating(u) => ctx[t] # ctx[u]
                /\ \A w \in todo[t] : w.kind \in {"create", "add"} => w \notin todo[u]

ContextKin(c) ==
    /\ \A i \in DOMAIN m_children[c] : Parent[m_children[c][i]] = c
    /\ c \in linked /\ Parent[c] # None => Parent[c] \in linked /\ c \in Range(m_children[Parent[c]])
    /\ c \notin linked => m_state[c] \in {"NotStarted", "CanRun"} /\ m_threads[c] = << >>

Kin ==
    /\ \A t \in Threads : ThreadKin(t)
    /\ \A t, u \in Threads : PairKin(t, u)
    /\ \A c \in Contexts : ContextKin(c)

\* A context that was shut down stays so.
ShutStays == \A c \in Contexts : IsShutdown(c) => IsShutdown(c)'

\* A child stays a child.
LEMMA ChildrenInRange ==
    ASSUME Typed, Typed', ChildrenStay, NEW c \in Contexts
    PROVE  Range(m_children[c]) \subseteq Range(m_children'[c])
  BY DEF ChildrenStay, Range

\* What is left of Kin' after a step of t is about t and the contexts.
LEMMA KinStep ==
    ASSUME Typed, Typed', Kin, NEW t \in Threads, Others(t), ChildrenStay, ShutStays,
           linked \subseteq linked',
           \A c \in linked' \ linked : Creating(t) /\ ctx[t] = c,
           todo'[t] \subseteq todo[t],
           Creating(t)' => Creating(t) /\ ctx'[t] = ctx[t],
           ThreadKin(t)', \A c \in Contexts : ContextKin(c)'
    PROVE  Kin'
<1>1. ASSUME NEW u \in Threads, u # t PROVE ThreadKin(u)'
  <2>1. ThreadKin(u) /\ PairKin(u, t) /\ PairKin(t, u)
    BY DEF Kin
  <2>2. pc'[u] = pc[u] /\ ctx'[u] = ctx[u] /\ stack'[u] = stack[u] /\ todo'[u] = todo[u]
    BY <1>1 DEF Others
  <2>3. ASSUME NEW w \in todo[u], w.kind = "create" PROVE w.of \notin linked'
    BY <2>1, <2>3 DEF ThreadKin, PairKin
  <2>4. ASSUME Creating(u) PROVE ctx[u] \notin linked' /\ Parent[ctx[u]] \in linked'
    BY <1>1, <2>1, <2>4 DEF ThreadKin, PairKin
  <2>5. ASSUME pc[u] \in {"construct", "link"} PROVE ctx[u] \in Range(m_children'[Parent[ctx[u]]])
    <3>1. ctx[u] \in Range(m_children[Parent[ctx[u]]])
      BY <2>1, <2>5 DEF ThreadKin
    <3>2. Parent[ctx[u]] \in Contexts
      BY <2>5, ConstantsAssumption DEF Typed, Shaped, Creating
    <3> QED BY <3>1, <3>2, ChildrenInRange
  <2>6. ASSUME Stopping(u), NEW f \in Range(stack[u])
        PROVE  IsShutdown(f.of)' /\ \A i \in f.kids : m_children'[f.of][i] \in linked'
    <3>1. f.of \in Contexts
      <4>1. stack[u] \in Seq(StopFrames)
        BY <2>6 DEF Typed, Shaped
      <4>2. f \in StopFrames
        BY <4>1 DEF Range
      <4> QED BY <4>2 DEF StopFrames
    <3>2. /\ IsShutdown(f.of) /\ f.kids \subseteq DOMAIN m_children[f.of]
          /\ \A i \in f.kids : m_children[f.of][i] \in linked
      BY <2>1, <2>6 DEF ThreadKin, Typed, KidsThere
    <3>3. PICK x : x = f.of
      OBVIOUS
    <3>4. IsShutdown(x)'
      BY <3>1, <3>2, <3>3 DEF ShutStays
    <3>5. IsShutdown(f.of)'
      BY <3>3, <3>4 DEF IsShutdown
    <3>6. \A i \in f.kids : m_children'[f.of][i] = m_children[f.of][i]
      BY <3>1, <3>2 DEF ChildrenStay
    <3> QED BY <3>2, <3>5, <3>6
  <2>7. pc[u] \in {"initiate", "add", "shutdown", "signal"} => ctx[u] \in linked'
    BY <2>1 DEF ThreadKin
  <2>8. (Creating(u)' <=> Creating(u)) /\ (Stopping(u)' <=> Stopping(u))
    BY <2>2 DEF Creating, Stopping
  <2> QED BY <2>2, <2>3, <2>4, <2>5, <2>6, <2>7, <2>8 DEF ThreadKin, IsShutdown
<1>2. ASSUME NEW u \in Threads, NEW v \in Threads PROVE PairKin(u, v)'
  <2>1. PairKin(u, v)
    BY DEF Kin
  <2>2. todo'[u] \subseteq todo[u] /\ todo'[v] \subseteq todo[v]
    BY DEF Others
  <2>3. /\ Creating(u)' => Creating(u) /\ ctx'[u] = ctx[u]
        /\ Creating(v)' => Creating(v) /\ ctx'[v] = ctx[v]
    BY DEF Others, Creating
  <2> QED BY <2>1, <2>2, <2>3 DEF PairKin
<1> QED BY <1>1, <1>2 DEF Kin

\* The contexts of a setup are related as Kin says.
LEMMA InitKin ==
    ASSUME Init PROVE Kin
<1>1. PICK s \in Setups :
        /\ m_state = [c \in Contexts |-> "NotStarted"]
        /\ m_threads = [c \in Contexts |-> << >>]
        /\ m_children = [c \in Contexts |-> s.made[c]] /\ todo = s.todo
        /\ linked = { c \in Contexts : Parent[c] = None }
                      \cup UNION { { s.made[c][i] : i \in DOMAIN s.made[c] } : c \in Contexts }
        /\ pc = [t \in Threads |-> "idle"]
  BY DEF Init
<1>2. /\ s.made \in [Contexts -> Seq(Contexts)]
      /\ s.todo \in [Threads -> SUBSET Calls]
      /\ \A c \in Contexts :
            /\ \A i \in DOMAIN s.made[c] : Parent[s.made[c][i]] = c
            /\ s.made[c] # << >> /\ Parent[c] # None
                  => \E i \in DOMAIN s.made[Parent[c]] : s.made[Parent[c]][i] = c
      /\ \A t \in Threads : \A w \in s.todo[t] :
            /\ Sensible(w)
            /\ w.kind = "create" =>
                  /\ Parent[w.of] # None
                  /\ \A i \in DOMAIN s.made[Parent[w.of]] : s.made[Parent[w.of]][i] # w.of
            /\ w.kind \in {"create", "add"} => \A u \in Threads \ {t} : w \notin s.todo[u]
  BY SetupsAssumption DEF Calls, Sensible
<1>3. \A c \in linked : Parent[c] # None => c \in Contexts /\ Parent[c] \in Contexts
                                           /\ \E i \in DOMAIN s.made[Parent[c]] : s.made[Parent[c]][i] = c
  <2> SUFFICES ASSUME NEW c \in linked, Parent[c] # None
               PROVE  c \in Contexts /\ Parent[c] \in Contexts
                      /\ \E i \in DOMAIN s.made[Parent[c]] : s.made[Parent[c]][i] = c
    OBVIOUS
  <2>1. PICK p \in Contexts : \E i \in DOMAIN s.made[p] : s.made[p][i] = c
    BY <1>1
  <2>2. Parent[c] = p /\ c \in Contexts
    BY <1>2, <2>1
  <2> QED BY <2>1, <2>2
<1>4. ASSUME NEW t \in Threads PROVE ThreadKin(t)
  <2>1. ASSUME NEW w \in todo[t], w.kind = "create" PROVE w.of \notin linked
    <3>1. /\ Parent[w.of] # None
          /\ \A i \in DOMAIN s.made[Parent[w.of]] : s.made[Parent[w.of]][i] # w.of
      <4>1. w \in s.todo[t]
        BY <1>1
      <4> QED BY <1>2, <2>1, <4>1
    <3> QED BY <1>3, <3>1
  <2>2. pc[t] = "idle"
    BY <1>1
  <2> QED BY <2>1, <2>2 DEF ThreadKin, Creating, Stopping
<1>5. ASSUME NEW t \in Threads, NEW u \in Threads PROVE PairKin(t, u)
  <2>1. pc[t] = "idle" /\ pc[u] = "idle"
    BY <1>1
  <2> QED BY <1>1, <1>2, <2>1 DEF PairKin, Creating
<1>6. ASSUME NEW c \in Contexts PROVE ContextKin(c)
  <2>1. \A i \in DOMAIN m_children[c] : Parent[m_children[c][i]] = c
    BY <1>1, <1>2
  <2>2. ASSUME c \in linked, Parent[c] # None
        PROVE  Parent[c] \in linked /\ c \in Range(m_children[Parent[c]])
    <3>1. PICK i \in DOMAIN s.made[Parent[c]] : s.made[Parent[c]][i] = c
      BY <1>3, <2>2
    <3>2. Parent[c] \in Contexts /\ m_children[Parent[c]] = s.made[Parent[c]]
      BY <1>1, <1>3, <2>2
    <3>3. c \in Range(m_children[Parent[c]])
      BY <3>1, <3>2 DEF Range
    <3>4. Parent[c] \in linked
      <4>1. CASE Parent[Parent[c]] = None
        BY <1>1, <3>2, <4>1
      <4>2. CASE Parent[Parent[c]] # None
        <5>1. s.made[Parent[c]] # << >>
          BY <3>1
        <5>2. PICK j \in DOMAIN s.made[Parent[Parent[c]]] : s.made[Parent[Parent[c]]][j] = Parent[c]
          BY <1>2, <3>2, <4>2, <5>1
        <5>3. Parent[Parent[c]] \in Contexts
          BY <3>2, <4>2, ConstantsAssumption
        <5> QED BY <1>1, <5>2, <5>3
      <4> QED BY <4>1, <4>2
    <3> QED BY <3>3, <3>4
  <2>3. m_state[c] = "NotStarted" /\ m_threads[c] = << >>
    BY <1>1
  <2> QED BY <2>1, <2>2, <2>3 DEF ContextKin
<1> QED BY <1>4, <1>5, <1>6 DEF Kin

\* Steps that leave the tree alone.
LEMMA ContextsKept ==
    ASSUME Kin, UNCHANGED << m_state, m_threads, m_children, linked >>
    PROVE  ShutStays /\ \A c \in Contexts : ContextKin(c)'
  BY DEF Kin, ContextKin, ShutStays, IsShutdown

\* A thread that is neither creating nor shutting down, nor about to change a context.
LEMMA ThreadKinElsewhere ==
    ASSUME Kin, NEW t \in Threads, linked' = linked, todo'[t] = todo[t],
           ~Creating(t)', ~Stopping(t)', pc'[t] \in {"initiate", "add", "shutdown"} => ctx'[t] \in linked
    PROVE  ThreadKin(t)'
  BY DEF Kin, ThreadKin, Creating, Stopping

\* A call is about a context that is linked, or about one to be created that nobody else creates.
LEMMA CallKin ==
    ASSUME Typed, Typed', Kin, NEW t \in Threads, Call(t) PROVE Kin'
<1>1. /\ Others(t)
      /\ UNCHANGED << treeVars, counterVars, runVars, rest, local, stack, histVars >>
      /\ pc[t] = "idle"
  BY CallDoes
<1>2. PICK w \in todo[t] :
        /\ w \in Calls
        /\ w.kind = "create" => Parent[ctx'[t]] \in linked
        /\ w.kind # "create" => ctx'[t] \in linked
        /\ ctx'[t] \in Contexts /\ pc'[t] = w.kind
        /\ ctx'[t] = (IF w.kind = "add" THEN Of[w.of] ELSE w.of)
        /\ todo'[t] = todo[t] \ {w}
  BY CallDoes
<1>3. UNCHANGED << m_state, m_threads, m_children, linked >>
  BY <1>1 DEF treeVars
<1>4. ASSUME NEW u \in Threads PROVE ThreadKin(u)'
  <2>1. ThreadKin(u)
    BY DEF Kin
  <2>2. CASE u # t
    BY <1>1, <1>3, <2>1, <2>2 DEF ThreadKin, Others, Creating, Stopping, IsShutdown
  <2>3. CASE u = t
    <3>1. stack'[t] = << >>
      BY <1>1 DEF Typed, Shaped, Walking, Starting, Stopping
    <3>2. Range(stack'[t]) = {}
      BY <3>1, RangeEmpty
    <3>3. w.kind = "create" => ctx'[t] \notin linked'
      BY <1>2, <1>3, <2>1, <2>3 DEF ThreadKin
    <3>4. \A v \in todo'[t] : v.kind = "create" => v.of \notin linked'
      BY <1>2, <1>3, <2>1, <2>3 DEF ThreadKin
    <3>5. w.kind \in Kinds
      BY <1>2 DEF Calls
    <3> QED BY <1>2, <1>3, <2>3, <3>2, <3>3, <3>4, <3>5 DEF ThreadKin, Creating, Kinds
  <2> QED BY <2>2, <2>3
<1>5. \A u \in Threads : todo'[u] \subseteq todo[u]
  BY <1>1, <1>2 DEF Others
<1>6. ASSUME NEW u \in Threads, NEW v \in todo'[u], v.kind = "create", w.kind = "create" PROVE v.of # w.of
  <2>1. v \in Calls /\ w \in Calls /\ v \in todo[u]
    BY <1>2, <1>5 DEF Typed, CallsOK
  <2>2. v # w
    <3>1. CASE u = t
      BY <1>2, <3>1
    <3>2. CASE u # t
      BY <1>6, <2>1, <3>2 DEF Kin, PairKin
    <3> QED BY <3>1, <3>2
  <2> QED BY <1>6, <2>1, <2>2 DEF Calls
<1>7. ASSUME NEW u \in Threads, NEW v \in Threads PROVE PairKin(u, v)'
  <2>1. ASSUME NEW x \in todo'[u], x.kind = "create", Creating(v)' PROVE ctx'[v] # x.of
    <3>1. CASE v # t
      <4>1. Creating(v) /\ ctx'[v] = ctx[v]
        BY <1>1, <2>1, <3>1 DEF Others, Creating
      <4> QED BY <1>5, <2>1, <4>1 DEF Kin, PairKin
    <3>2. CASE v = t
      <4>1. w.kind = "create" /\ ctx'[t] = w.of
        BY <1>2, <2>1, <3>2 DEF Creating, Calls, Kinds
      <4> QED BY <1>6, <2>1, <3>2, <4>1
    <3> QED BY <3>1, <3>2
  <2>2. ASSUME u # v, Creating(u)', Creating(v)' PROVE ctx'[u] # ctx'[v]
    <3>1. CASE u = t
      <4>1. w.kind = "create" /\ ctx'[t] = w.of
        BY <1>2, <2>2, <3>1 DEF Creating, Calls, Kinds
      <4>2. Creating(v) /\ ctx'[v] = ctx[v]
        BY <1>1, <2>2, <3>1 DEF Others, Creating
      <4> QED BY <3>1, <4>1, <4>2 DEF Kin, PairKin
    <3>2. CASE v = t
      <4>1. w.kind = "create" /\ ctx'[t] = w.of
        BY <1>2, <2>2, <3>2 DEF Creating, Calls, Kinds
      <4>2. Creating(u) /\ ctx'[u] = ctx[u]
        BY <1>1, <2>2, <3>2 DEF Others, Creating
      <4> QED BY <3>2, <4>1, <4>2 DEF Kin, PairKin
    <3>3. CASE u # t /\ v # t
      <4>1. Creating(u) /\ ctx'[u] = ctx[u] /\ Creating(v) /\ ctx'[v] = ctx[v]
        BY <1>1, <2>2, <3>3 DEF Others, Creating
      <4> QED BY <2>2, <4>1 DEF Kin, PairKin
    <3> QED BY <3>1, <3>2, <3>3
  <2>3. ASSUME u # v, NEW x \in todo'[u], x.kind \in {"create", "add"} PROVE x \notin todo'[v]
    BY <1>5, <2>3 DEF Kin, PairKin
  <2> QED BY <2>1, <2>2, <2>3 DEF PairKin
<1>8. \A c \in Contexts : ContextKin(c)'
  BY <1>3, ContextsKept
<1> QED BY <1>4, <1>7, <1>8 DEF Kin

\* The child has a place from here on.
LEMMA CreateKin ==
    ASSUME Typed, Typed', Kin, NEW t \in Threads, Create(t) PROVE Kin'
<1> DEFINE p == Parent[ctx[t]]
<1>1. /\ Others(t) /\ ChildrenStay
      /\ UNCHANGED << m_state, m_threads, linked, ctx, stack, todo >>
      /\ pc[t] = "create" /\ ctx[t] \in Contexts /\ p \in Contexts
      /\ \/ pc'[t] = "idle" /\ m_children' = m_children
         \/ /\ pc'[t] = "construct"
            /\ m_children' = [m_children EXCEPT ![p] = Append(@, ctx[t])]
            /\ \E i \in DOMAIN m_children'[p] : m_children'[p][i] = ctx[t]
  BY CreateDoes
<1>2. ThreadKin(t)
  BY DEF Kin
<1>3. ThreadKin(t)'
  <2>1. CASE pc'[t] = "idle"
    BY <1>1, <1>2, <2>1 DEF ThreadKin, Creating, Stopping
  <2>2. CASE pc'[t] = "construct" /\ \E i \in DOMAIN m_children'[p] : m_children'[p][i] = ctx[t]
    <3>1. ctx[t] \in Range(m_children'[p])
      BY <2>2 DEF Range
    <3> QED BY <1>1, <1>2, <2>2, <3>1 DEF ThreadKin, Creating, Stopping
  <2> QED BY <1>1, <2>1, <2>2
<1>4. ASSUME NEW c \in Contexts PROVE ContextKin(c)'
  <2>1. ContextKin(c)
    BY DEF Kin
  <2>2. ASSUME NEW i \in DOMAIN m_children'[c] PROVE Parent[m_children'[c][i]] = c
    <3>1. CASE m_children' = m_children \/ c # p
      <4>1. m_children'[c] = m_children[c]
        BY <1>1, <3>1 DEF Typed, TypeOK
      <4> QED BY <2>1, <2>2, <4>1 DEF ContextKin
    <3>2. CASE c = p /\ m_children' = [m_children EXCEPT ![p] = Append(@, ctx[t])]
      <4>1. m_children'[c] = Append(m_children[c], ctx[t]) /\ m_children[c] \in Seq(Contexts)
        BY <1>1, <3>2 DEF Typed, TypeOK
      <4>2. \/ i \in DOMAIN m_children[c] /\ m_children'[c][i] = m_children[c][i]
            \/ m_children'[c][i] = ctx[t]
        BY <1>1, <2>2, <4>1, AppendProperties, LenProperties
      <4> QED BY <2>1, <3>2, <4>2 DEF ContextKin
    <3> QED BY <1>1, <3>1, <3>2
  <2>3. ASSUME c \in linked, Parent[c] # None PROVE c \in Range(m_children'[Parent[c]])
    <3>1. c \in Range(m_children[Parent[c]]) /\ Parent[c] \in Contexts
      BY <2>1, <2>3, ConstantsAssumption DEF ContextKin
    <3> QED BY <1>1, <3>1, ChildrenInRange
  <2> QED BY <1>1, <2>1, <2>2, <2>3 DEF ContextKin
<1>5. ShutStays
  BY <1>1 DEF ShutStays, IsShutdown
<1>6. Creating(t)
  BY <1>1 DEF Creating
<1> QED BY <1>1, <1>3, <1>4, <1>5, <1>6, KinStep

\* A child that is not linked has not been initiated.
LEMMA ConstructKin ==
    ASSUME Typed, Typed', Kin, NEW t \in Threads, Construct(t) PROVE Kin'
<1>1. /\ Others(t) /\ ChildrenStay
      /\ UNCHANGED << m_threads, m_children, linked, ctx, stack, todo >>
      /\ pc[t] = "construct" /\ pc'[t] = "link" /\ ctx[t] \in Contexts
      /\ \A c \in Contexts \ {ctx[t]} : m_state'[c] = m_state[c]
      /\ m_state'[ctx[t]] \in {"CanRun", m_state[ctx[t]]}
  BY ConstructDoes
<1>2. ThreadKin(t) /\ Creating(t)
  BY <1>1 DEF Kin, Creating
<1>3. ThreadKin(t)'
  BY <1>1, <1>2 DEF ThreadKin, Creating, Stopping
<1>4. ctx[t] \notin linked /\ m_state[ctx[t]] \in {"NotStarted", "CanRun"}
  BY <1>1, <1>2 DEF ThreadKin, Kin, ContextKin
<1>5. ASSUME NEW c \in Contexts PROVE ContextKin(c)'
  BY <1>1, <1>4 DEF Kin, ContextKin
<1>6. ShutStays
  BY <1>1, <1>4 DEF ShutStays, IsShutdown
<1> QED BY <1>1, <1>2, <1>3, <1>5, <1>6, KinStep

\* The child is linked, by one thread only.
LEMMA LinkKin ==
    ASSUME Typed, Typed', Kin, NEW t \in Threads, Link(t) PROVE Kin'
<1>1. /\ Others(t) /\ ChildrenStay
      /\ UNCHANGED << m_threads, m_children, ctx, stack, todo >>
      /\ pc[t] = "link" /\ pc'[t] = "idle" /\ ctx[t] \in Contexts
      /\ linked' = linked \cup {ctx[t]}
      /\ \A c \in Contexts \ {ctx[t]} : m_state'[c] = m_state[c]
      /\ m_state'[ctx[t]] = BornState(ctx[t])
  BY LinkDoes
<1>2. ThreadKin(t) /\ Creating(t)
  BY <1>1 DEF Kin, Creating
<1>3. ThreadKin(t)'
  <2>1. ASSUME NEW w \in todo[t], w.kind = "create" PROVE w.of \notin linked'
    BY <1>1, <1>2, <2>1 DEF Kin, ThreadKin, PairKin
  <2> QED BY <1>1, <2>1 DEF ThreadKin, Creating, Stopping
<1>4. ctx[t] \notin linked /\ m_state[ctx[t]] \in {"NotStarted", "CanRun"}
  BY <1>1, <1>2 DEF ThreadKin, Kin, ContextKin
<1>5. ASSUME NEW c \in Contexts PROVE ContextKin(c)'
  <2>1. ContextKin(c)
    BY DEF Kin
  <2>2. CASE c # ctx[t]
    BY <1>1, <2>1, <2>2 DEF ContextKin
  <2>3. CASE c = ctx[t]
    <3>1. Parent[c] \in linked /\ c \in Range(m_children[Parent[c]])
      BY <1>1, <1>2, <2>3 DEF ThreadKin
    <3> QED BY <1>1, <2>1, <2>3, <3>1 DEF ContextKin
  <2> QED BY <2>2, <2>3
<1>6. ShutStays
  BY <1>1, <1>4 DEF ShutStays, IsShutdown
<1>7. ~Creating(t)'
  BY <1>1 DEF Creating
<1> QED BY <1>1, <1>2, <1>3, <1>5, <1>6, <1>7, KinStep

\* Steps of a thread that neither creates nor shuts down, and link nothing.
LEMMA KinElsewhere ==
    ASSUME Typed, Typed', Kin, NEW t \in Threads, Others(t), ChildrenStay, ShutStays,
           UNCHANGED << linked, m_children, todo >>,
           ~Creating(t)', ~Stopping(t)', pc'[t] \in {"initiate", "add", "shutdown"} => ctx'[t] \in linked,
           \A c \in linked : m_state'[c] \in States,
           \A c \in Contexts \ linked : m_state'[c] = m_state[c] /\ m_threads'[c] = m_threads[c]
    PROVE  Kin'
<1>1. ThreadKin(t)'
  BY ThreadKinElsewhere
<1>2. ASSUME NEW c \in Contexts PROVE ContextKin(c)'
  BY DEF Kin, ContextKin
<1> QED BY <1>1, <1>2, KinStep

\* Initiate is called for a context that is linked.
LEMMA InitiateKin ==
    ASSUME Typed, Typed', Kin, NEW t \in Threads, Initiate(t) PROVE Kin'
<1>1. /\ Others(t) /\ ChildrenStay
      /\ UNCHANGED << m_threads, m_children, linked, ctx, todo >>
      /\ pc[t] = "initiate" /\ ctx[t] \in Contexts /\ pc'[t] \in {"idle", "add", "count", "children"}
      /\ \A c \in Contexts \ {ctx[t]} : m_state'[c] = m_state[c]
      /\ \/ m_state' = m_state
         \/ m_state[ctx[t]] \in {"NotStarted", "CanRun"}
  BY InitiateDoes
<1>2. ctx[t] \in linked
  BY <1>1 DEF Kin, ThreadKin
<1>3. ShutStays
  BY <1>1 DEF ShutStays, IsShutdown
<1>4. ~Creating(t)' /\ ~Stopping(t)'
  BY <1>1 DEF Creating, Stopping
<1>5. \A c \in Contexts : m_state'[c] \in States
  BY DEF Typed, TypeOK
<1>6. linked \subseteq Contexts
  BY DEF Typed, TypeOK
<1> QED BY <1>1, <1>2, <1>3, <1>4, <1>5, <1>6, KinElsewhere

\* Only children that are linked are told that the parent runs.
LEMMA TransitionKin ==
    ASSUME Typed, Typed', Kin, NEW t \in Threads, Transition(t) PROVE Kin'
<1>1. /\ Others(t) /\ ChildrenStay
      /\ UNCHANGED << m_threads, m_children, linked, todo >>
  BY TransitionDoes
<1>2. PICK f \in WalkFrames :
         /\ f = Head(stack[t])
         /\ WalkEnds(t, f) \/ \E c \in Contexts : WalkOn(t, f, c)
  BY TransitionDoes
<1>3. \A c \in Contexts : m_state'[c] \in States
  BY DEF Typed, TypeOK
<1>4. linked \subseteq Contexts
  BY DEF Typed, TypeOK
<1>5. CASE WalkEnds(t, f)
  <2>1. m_state' = m_state /\ pc'[t] \in {"idle", "children"}
    BY <1>5 DEF WalkEnds
  <2>2. ShutStays /\ ~Creating(t)' /\ ~Stopping(t)'
    BY <2>1 DEF ShutStays, IsShutdown, Creating, Stopping
  <2> QED BY <1>1, <1>3, <1>4, <2>1, <2>2, KinElsewhere
<1>6. ASSUME NEW c \in Contexts, WalkOn(t, f, c) PROVE Kin'
  <2>1. /\ pc'[t] \in {"children", "count"}
        /\ m_state' = m_state \/ (c \in linked /\ \A x \in Contexts \ {c} : m_state'[x] = m_state[x])
        /\ IsShutdown(c) => m_state'[c] = m_state[c]
    BY <1>6 DEF WalkOn, WalkSkips, WalkStarts, WalkTells, IsShutdown
  <2>2. ShutStays /\ ~Creating(t)' /\ ~Stopping(t)'
    BY <2>1 DEF ShutStays, IsShutdown, Creating, Stopping
  <2> QED BY <1>1, <1>3, <1>4, <2>1, <2>2, KinElsewhere
<1> QED BY <1>2, <1>5, <1>6

\* A runnable is added to a context that is linked.
LEMMA AddKin ==
    ASSUME Typed, Typed', Kin, NEW t \in Threads, Add(t) PROVE Kin'
<1>1. /\ Others(t) /\ ChildrenStay
      /\ UNCHANGED << m_state, m_children, linked, todo >>
      /\ pc[t] = "add" /\ ctx[t] \in Contexts /\ pc'[t] \in {"count", "added"}
      /\ \A c \in Contexts \ {ctx[t]} : m_threads'[c] = m_threads[c]
  BY AddDoes
<1>2. ctx[t] \in linked
  BY <1>1 DEF Kin, ThreadKin
<1>3. ShutStays /\ ~Creating(t)' /\ ~Stopping(t)'
  BY <1>1 DEF ShutStays, IsShutdown, Creating, Stopping
<1>4. \A c \in linked : m_state'[c] \in States
  BY DEF Typed, TypeOK
<1> QED BY <1>1, <1>2, <1>3, <1>4, KinElsewhere

\* Steps that leave the tree alone, of a thread that is not shutting down.
LEMMA KinAside ==
    ASSUME Typed, Typed', Kin, NEW t \in Threads, Others(t), ChildrenStay,
           UNCHANGED << m_state, m_threads, m_children, linked, todo >>,
           pc'[t] \in {"idle", "addstop", "added", "start", "children"}
    PROVE  Kin'
<1>1. ShutStays /\ ~Creating(t)' /\ ~Stopping(t)'
  BY DEF ShutStays, IsShutdown, Creating, Stopping
<1>2. \A c \in linked : m_state'[c] \in States
  BY DEF Typed, TypeOK
<1> QED BY <1>1, <1>2, KinElsewhere

\* Steps that have nothing to do with the relations.
LEMMA AsideKin ==
    ASSUME Typed, Typed', Kin, NEW t \in Threads,
           Added(t) \/ AddedStop(t) \/ Await(t) \/ Count(t) \/ StartNext(t) \/ Started(t)
    PROVE  Kin'
<1>1. CASE Added(t)
  BY <1>1, AddedDoes, KinAside
<1>2. CASE AddedStop(t)
  BY <1>2, AddedStopDoes, KinAside DEF treeVars
<1>3. CASE Await(t)
  BY <1>3, AwaitDoes, KinAside DEF treeVars
<1>4. CASE Count(t)
  <2>1. /\ Others(t) /\ ChildrenStay /\ UNCHANGED << treeVars, todo >> /\ pc'[t] = "start"
    BY <1>4, CountDoes
  <2> QED BY <2>1, KinAside DEF treeVars
<1>5. CASE StartNext(t)
  <2>1. /\ Others(t) /\ ChildrenStay /\ UNCHANGED << treeVars, todo >> /\ pc'[t] = "start"
    BY <1>5, StartNextDoes
  <2> QED BY <2>1, KinAside DEF treeVars
<1>6. CASE Started(t)
  <2>1. /\ Others(t) /\ ChildrenStay /\ UNCHANGED << treeVars, todo >> /\ pc'[t] \in {"children", "added"}
    BY <1>6, StartedDoes
  <2> QED BY <2>1, KinAside DEF treeVars
<1> QED BY <1>1, <1>2, <1>3, <1>4, <1>5, <1>6

\* Steps of a thread that is shutting down: what its stack may be afterwards.
LEMMA KinShutting ==
    ASSUME Typed, Typed', Kin, NEW t \in Threads, Others(t), ChildrenStay, ShutStays,
           UNCHANGED << linked, m_children, todo >>,
           pc'[t] \in {"idle", "wait", "signal", "collect", "kids", "stops"},
           pc'[t] = "signal" => ctx'[t] \in linked,
           Stopping(t)' => \A f \in Range(stack'[t]) :
               IsShutdown(f.of)' /\ \A i \in f.kids : m_children[f.of][i] \in linked,
           \A c \in Contexts \ linked : m_state'[c] = m_state[c] /\ m_threads'[c] = m_threads[c]
    PROVE  Kin'
<1>1. ~Creating(t)'
  BY DEF Creating
<1>2. ThreadKin(t)'
  BY <1>1 DEF Kin, ThreadKin, IsShutdown
<1>3. ASSUME NEW c \in Contexts PROVE ContextKin(c)'
  BY DEF Kin, ContextKin
<1> QED BY <1>1, <1>2, <1>3, KinStep

\* A frame is pushed for a context that was shut down, and stays so.
LEMMA ShutdownKin ==
    ASSUME Typed, Typed', Kin, NEW t \in Threads, Shutdown(t) PROVE Kin' /\ ShutStays
<1>1. /\ Others(t) /\ ChildrenStay
      /\ UNCHANGED << m_threads, m_children, linked, ctx, todo >>
      /\ pc[t] \in {"shutdown", "signal"} /\ ctx[t] \in Contexts /\ stack[t] \in Seq(StopFrames)
      /\ \/ /\ UNCHANGED << m_state, stack >>
            /\ pc'[t] = IF stack[t] # << >> THEN "kids" ELSE "idle"
         \/ /\ ~IsShutdown(ctx[t]) /\ pc'[t] = "collect"
            /\ m_state'[ctx[t]] \in {"Shutdown", "Abandoned"}
            /\ \A c \in Contexts \ {ctx[t]} : m_state'[c] = m_state[c]
            /\ \E f \in StopFrames :
                 /\ f.of = ctx[t] /\ f.kids = {}
                 /\ stack'[t] = << f >> \o stack[t]
  <2>1. \A f \in StopFrames : f = [of |-> ctx[t], kids |-> {}, stops |-> ToStop(ctx[t])]
                               => f.of = ctx[t] /\ f.kids = {}
    OBVIOUS
  <2> QED BY <2>1, ShutdownDoes
<1>2. ctx[t] \in linked
  BY <1>1 DEF Kin, ThreadKin
<1>3. ShutStays
  BY <1>1 DEF ShutStays, IsShutdown
<1>4. \A f \in Range(stack[t]) : IsShutdown(f.of) /\ \A i \in f.kids : m_children[f.of][i] \in linked
  <2>1. CASE pc[t] = "signal"
    BY <2>1 DEF Kin, ThreadKin, Stopping
  <2>2. CASE pc[t] = "shutdown"
    <3>1. stack[t] = << >>
      BY <2>2 DEF Typed, Shaped, Walking, Starting, Stopping
    <3> QED BY <3>1, RangeEmpty
  <2> QED BY <1>1, <2>1, <2>2
<1>5. CASE /\ UNCHANGED << m_state, stack >>
           /\ pc'[t] = IF stack[t] # << >> THEN "kids" ELSE "idle"
  <2>1. pc'[t] \in {"kids", "idle"}
    BY <1>5
  <2>2. \A f \in Range(stack'[t]) : IsShutdown(f.of)' /\ \A i \in f.kids : m_children[f.of][i] \in linked
    BY <1>4, <1>5 DEF IsShutdown
  <2> QED BY <1>1, <1>3, <1>5, <2>1, <2>2, KinShutting
<1>6. ASSUME pc'[t] = "collect", m_state'[ctx[t]] \in {"Shutdown", "Abandoned"},
             \A c \in Contexts \ {ctx[t]} : m_state'[c] = m_state[c],
             NEW f \in StopFrames, f.of = ctx[t] /\ f.kids = {},
             stack'[t] = << f >> \o stack[t]
      PROVE  Kin'
  <2>1. Range(stack'[t]) = {f} \cup Range(stack[t])
    <3>1. Range(<< f >> \o stack[t]) = {f} \cup Range(stack[t])
      BY <1>1, PushOf
    <3> QED BY <1>6, <3>1
  <2>2. ASSUME NEW g \in Range(stack'[t])
        PROVE  IsShutdown(g.of)' /\ \A i \in g.kids : m_children[g.of][i] \in linked
    <3>1. CASE g = f
      BY <1>6, <3>1 DEF IsShutdown
    <3>2. CASE g \in Range(stack[t])
      <4>1. g.of \in Contexts
        <5>1. g \in StopFrames
          BY <1>1, <3>2 DEF Range
        <5> QED BY <5>1 DEF StopFrames
      <4>2. IsShutdown(g.of) /\ \A i \in g.kids : m_children[g.of][i] \in linked
        BY <1>4, <3>2
      <4> QED BY <1>6, <4>1, <4>2 DEF IsShutdown
    <3> QED BY <2>1, <2>2, <3>1, <3>2
  <2> QED BY <1>1, <1>2, <1>3, <1>6, <2>2, KinShutting
<1> QED BY <1>1, <1>3, <1>5, <1>6

\* Only children that are linked are collected.
LEMMA CollectKin ==
    ASSUME Typed, Typed', Kin, NEW t \in Threads, Collect(t) PROVE Kin'
<1>1. /\ Others(t) /\ ChildrenStay /\ UNCHANGED << treeVars, todo >>
      /\ pc[t] = "collect" /\ pc'[t] = "kids"
      /\ stack[t] \in Seq(StopFrames) /\ stack[t] # << >>
  BY CollectDoes
<1>2. PICK f, e \in StopFrames :
                /\ f = Head(stack[t]) /\ stack'[t] = [stack[t] EXCEPT ![1] = e]
                /\ e = [of |-> f.of, stops |-> f.stops,
                        kids |-> { i \in DOMAIN m_children[f.of] : m_children[f.of][i] \in linked }]
  BY CollectDoes
<1>3. e.of = f.of /\ \A i \in e.kids : m_children[e.of][i] \in linked
  BY <1>2
<1>4. /\ Range(stack'[t]) = {e} \cup Range(Tail(stack[t]))
      /\ Range(stack[t]) = {f} \cup Range(Tail(stack[t]))
  <2>1. /\ e \in StopFrames /\ stack[t] \in Seq(StopFrames) /\ stack[t] # << >> /\ f = Head(stack[t])
        /\ stack'[t] = [stack[t] EXCEPT ![1] = e]
    BY <1>1, <1>2
  <2> QED BY ONLY <2>1, PutIs
<1>5. UNCHANGED << m_state, m_threads, m_children, linked >>
  BY <1>1 DEF treeVars
<1>6. \A g \in Range(stack[t]) : IsShutdown(g.of) /\ \A i \in g.kids : m_children[g.of][i] \in linked
  BY <1>1 DEF Kin, ThreadKin, Stopping
<1>7. \A g \in Range(stack'[t]) : IsShutdown(g.of)' /\ \A i \in g.kids : m_children[g.of][i] \in linked
  <2>1. IsShutdown(f.of)
    BY <1>4, <1>6
  <2>2. \A g \in Range(stack'[t]) : IsShutdown(g.of)
    BY <1>3, <1>4, <1>6, <2>1
  <2>3. \A g \in Range(stack'[t]) : \A i \in g.kids : m_children[g.of][i] \in linked
    BY <1>3, <1>4, <1>6
  <2> QED BY <1>5, <2>2, <2>3 DEF IsShutdown
<1>8. ShutStays
  BY <1>5 DEF ShutStays, IsShutdown
<1> QED BY <1>1, <1>5, <1>7, <1>8, KinShutting

\* The thread goes on to a child that is linked.
LEMMA KidsKin ==
    ASSUME Typed, Typed', Kin, NEW t \in Threads, Kids(t) PROVE Kin'
<1>1. /\ Others(t) /\ ChildrenStay /\ UNCHANGED << treeVars, todo >>
      /\ pc[t] = "kids" /\ stack[t] \in Seq(StopFrames) /\ stack[t] # << >>
  BY KidsDoes
<1>2. PICK f \in StopFrames : f = Head(stack[t]) /\
                \/ f.kids = {} /\ pc'[t] = "stops" /\ UNCHANGED << stack, ctx >>
                \/ \E i \in f.kids : \E e \in StopFrames :
                     /\ i \in DOMAIN m_children[f.of] /\ m_children[f.of][i] \in Contexts
                     /\ e = [of |-> f.of, kids |-> f.kids \ {i}, stops |-> f.stops]
                     /\ stack'[t] = [stack[t] EXCEPT ![1] = e]
                     /\ ctx'[t] = m_children[f.of][i] /\ pc'[t] = "signal"
  BY KidsDoes
<1>3. UNCHANGED << m_state, m_threads, m_children, linked >> /\ ShutStays
  BY <1>1 DEF treeVars, ShutStays, IsShutdown
<1>4. \A g \in Range(stack[t]) : IsShutdown(g.of) /\ \A i \in g.kids : m_children[g.of][i] \in linked
  BY <1>1 DEF Kin, ThreadKin, Stopping
<1>5. CASE f.kids = {} /\ pc'[t] = "stops" /\ UNCHANGED << stack, ctx >>
  <2>1. \A g \in Range(stack'[t]) : IsShutdown(g.of)' /\ \A i \in g.kids : m_children[g.of][i] \in linked
    BY <1>3, <1>4, <1>5 DEF IsShutdown
  <2> QED BY <1>1, <1>3, <1>5, <2>1, KinShutting
<1>6. ASSUME NEW i \in f.kids, NEW e \in StopFrames,
             e = [of |-> f.of, kids |-> f.kids \ {i}, stops |-> f.stops],
             stack'[t] = [stack[t] EXCEPT ![1] = e],
             ctx'[t] = m_children[f.of][i] /\ pc'[t] = "signal"
      PROVE  Kin'
  <2>1. /\ Range(stack'[t]) = {e} \cup Range(Tail(stack[t]))
        /\ Range(stack[t]) = {f} \cup Range(Tail(stack[t]))
    <3>1. /\ e \in StopFrames /\ stack[t] \in Seq(StopFrames) /\ stack[t] # << >> /\ f = Head(stack[t])
          /\ stack'[t] = [stack[t] EXCEPT ![1] = e]
      BY <1>1, <1>2, <1>6
    <3> QED BY ONLY <3>1, PutIs
  <2>2. e.of = f.of /\ e.kids \subseteq f.kids
    BY <1>6
  <2>3. ctx'[t] \in linked
    BY <1>4, <1>6, <2>1
  <2>4. \A g \in Range(stack'[t]) : IsShutdown(g.of)
    BY <1>4, <2>1, <2>2
  <2>5. \A g \in Range(stack'[t]) : \A j \in g.kids : m_children[g.of][j] \in linked
    BY <1>4, <2>1, <2>2
  <2>6. \A g \in Range(stack'[t]) : IsShutdown(g.of)' /\ \A j \in g.kids : m_children[g.of][j] \in linked
    BY <1>3, <2>4, <2>5 DEF IsShutdown
  <2> QED BY <1>1, <1>3, <1>6, <2>3, <2>6, KinShutting
<1> QED BY <1>2, <1>5, <1>6

\* The frames that are left are as they were.
LEMMA StopsKin ==
    ASSUME Typed, Typed', Kin, NEW t \in Threads, Stops(t) PROVE Kin'
<1>1. /\ Others(t) /\ ChildrenStay /\ UNCHANGED << treeVars, todo >>
      /\ pc[t] = "stops" /\ stack[t] \in Seq(StopFrames) /\ stack[t] # << >>
  BY StopsDoes
<1>2. PICK f \in StopFrames : f = Head(stack[t]) /\
                \/ /\ pc' = pc
                   /\ \E e \in StopFrames :
                        /\ e = [of |-> f.of, kids |-> f.kids, stops |-> Tail(f.stops)]
                        /\ stack'[t] = [stack[t] EXCEPT ![1] = e]
                \/ /\ stack'[t] = Tail(stack[t]) /\ pc'[t] \in {"kids", "wait", "idle"}
  BY StopsDoes
<1>3. UNCHANGED << m_state, m_threads, m_children, linked >> /\ ShutStays
  BY <1>1 DEF treeVars, ShutStays, IsShutdown
<1>4. \A g \in Range(stack[t]) : IsShutdown(g.of) /\ \A i \in g.kids : m_children[g.of][i] \in linked
  BY <1>1 DEF Kin, ThreadKin, Stopping
<1>5. ASSUME pc' = pc, NEW e \in StopFrames,
             e = [of |-> f.of, kids |-> f.kids, stops |-> Tail(f.stops)],
             stack'[t] = [stack[t] EXCEPT ![1] = e]
      PROVE  Kin'
  <2>1. /\ Range(stack'[t]) = {e} \cup Range(Tail(stack[t]))
        /\ Range(stack[t]) = {f} \cup Range(Tail(stack[t]))
    <3>1. /\ e \in StopFrames /\ stack[t] \in Seq(StopFrames) /\ stack[t] # << >> /\ f = Head(stack[t])
          /\ stack'[t] = [stack[t] EXCEPT ![1] = e]
      BY <1>1, <1>2, <1>5
    <3> QED BY ONLY <3>1, PutIs
  <2>2. e.of = f.of /\ e.kids = f.kids
    BY <1>5
  <2>3. \A g \in Range(stack'[t]) : IsShutdown(g.of)
    BY <1>4, <2>1, <2>2
  <2>4. \A g \in Range(stack'[t]) : \A j \in g.kids : m_children[g.of][j] \in linked
    BY <1>4, <2>1, <2>2
  <2>5. \A g \in Range(stack'[t]) : IsShutdown(g.of)' /\ \A j \in g.kids : m_children[g.of][j] \in linked
    BY <1>3, <2>3, <2>4 DEF IsShutdown
  <2> QED BY <1>1, <1>3, <1>5, <2>5, KinShutting
<1>6. CASE stack'[t] = Tail(stack[t]) /\ pc'[t] \in {"kids", "wait", "idle"}
  <2>1. Range(stack'[t]) \subseteq Range(stack[t])
    BY <1>1, <1>6, TailOf
  <2>2. \A g \in Range(stack'[t]) : IsShutdown(g.of)' /\ \A j \in g.kids : m_children[g.of][j] \in linked
    BY <1>3, <1>4, <2>1 DEF IsShutdown
  <2> QED BY <1>1, <1>3, <1>6, <2>2, KinShutting
<1> QED BY <1>2, <1>5, <1>6

\* Steps that no thread takes.
LEMMA QuietKin ==
    ASSUME Kin, UNCHANGED << treeVars, pc, ctx, stack, todo >> PROVE Kin'
<1>1. UNCHANGED << m_state, m_threads, m_children, linked >>
  BY DEF treeVars
<1>2. \A t \in Threads : ThreadKin(t)'
  BY <1>1 DEF Kin, ThreadKin, Creating, Stopping, IsShutdown
<1>3. \A t, u \in Threads : PairKin(t, u)'
  BY DEF Kin, PairKin, Creating
<1> QED BY <1>1, <1>2, <1>3, ContextsKept DEF Kin

\* Every step keeps the relations of the contexts and of the threads to them.
LEMMA NextKin ==
    ASSUME Typed, Typed', Kin, [Next]_vars PROVE Kin'
<1>1. ASSUME NEW t \in Threads, Call(t) \/ Step(t) PROVE Kin'
  BY <1>1, CallKin, CreateKin, ConstructKin, LinkKin, InitiateKin, TransitionKin, AddKin, AsideKin,
     ShutdownKin, CollectKin, KidsKin, StopsKin
     DEF Step
<1>2. ASSUME NEW r \in Runnables, RunnableEnds(r) PROVE Kin'
  BY <1>2, RunnableEndsDoes, QuietKin
<1>3. ASSUME NEW k \in Counters, Destroy(k) PROVE Kin'
  BY <1>3, DestroyDoes, QuietKin
<1>4. ASSUME UNCHANGED vars PROVE Kin'
  BY <1>4, QuietKin DEF vars, threadVars
<1> QED BY <1>1, <1>2, <1>3, <1>4 DEF Next

-----------------------------------------------------------------------------
(* Children come to run with their parents *)

\* A thread is going to move child c on: it starts the runnables of the parent, or is
\* in front of c among the children.
Before(f, c) ==
    /\ f.of = Parent[c]
    /\ \E j \in DOMAIN m_children[Parent[c]] : f.at <= j /\ m_children[Parent[c]][j] = c
Walked(t, c) ==
    /\ Walking(t)
    /\ (Starting(t) /\ ctx[t] = Parent[c]) \/ \E f \in Range(stack[t]) : Before(f, c)

\* A child that waits for a parent that runs.
ToRun(c) ==
    /\ c \in linked /\ Parent[c] # None /\ IsRunning(Parent[c]) /\ c \notin unseen
    /\ m_state[c] \in {"NotStarted", "Initiated"}

ChildrenRun == \A c \in Contexts : ToRun(c) => \E t \in Threads : Walked(t, c)

\* New children do not move a child to another place.
LEMMA BeforeStays ==
    ASSUME Typed, ChildrenStay, NEW c \in Contexts, Parent[c] # None, NEW f, Before(f, c)
    PROVE  /\ f.of = Parent[c]
           /\ \E j \in DOMAIN m_children'[Parent[c]] : f.at <= j /\ m_children'[Parent[c]][j] = c
<1>1. Parent[c] \in Contexts
  BY ConstantsAssumption
<1> QED BY <1>1 DEF Before, ChildrenStay

\* A thread that does nothing goes on being in front of the child.
LEMMA WalkedStays ==
    ASSUME Typed, ChildrenStay, NEW c \in Contexts, Parent[c] # None, NEW u \in Threads, Walked(u, c),
           pc'[u] = pc[u], ctx'[u] = ctx[u], run'[u] = run[u], stack'[u] = stack[u]
    PROVE  Walked(u, c)'
<1>1. Walking(u)' /\ (Starting(u)' <=> Starting(u))
  BY DEF Walked, Walking, Starting
<1>2. CASE Starting(u) /\ ctx[u] = Parent[c]
  BY <1>1, <1>2 DEF Walked
<1>3. ASSUME NEW f \in Range(stack[u]), Before(f, c) PROVE Walked(u, c)'
  <2>1. /\ f.of = Parent[c]
        /\ \E j \in DOMAIN m_children'[Parent[c]] : f.at <= j /\ m_children'[Parent[c]][j] = c
    BY <1>3, BeforeStays
  <2> QED BY <1>1, <1>3, <2>1 DEF Walked, Before
<1> QED BY <1>2, <1>3 DEF Walked

\* What a step of t has to do.
LEMMA RunStep ==
    ASSUME Typed, ChildrenRun, NEW t \in Threads, Others(t), ChildrenStay,
           \A c \in Contexts : ToRun(c)' => ToRun(c) \/ Walked(t, c)',
           \A c \in Contexts : ToRun(c) /\ ToRun(c)' /\ Walked(t, c) => Walked(t, c)'
    PROVE  ChildrenRun'
<1> SUFFICES ASSUME NEW c \in Contexts, ToRun(c)', ~Walked(t, c)'
             PROVE  \E u \in Threads : Walked(u, c)'
  BY DEF ChildrenRun
<1>1. PICK u \in Threads : Walked(u, c)
  BY DEF ChildrenRun
<1>2. u # t /\ Parent[c] # None
  BY <1>1 DEF ToRun
<1>3. Walked(u, c)'
  BY <1>1, <1>2, WalkedStays DEF Others
<1> QED BY <1>3

\* Steps that change no state, of threads that are not walking.
LEMMA RunAside ==
    ASSUME Typed, ChildrenRun, NEW t \in Threads, Others(t), ChildrenStay,
           UNCHANGED << m_state, linked, unseen >>, ~Walking(t)
    PROVE  ChildrenRun'
<1>1. \A c \in Contexts : ToRun(c)' => ToRun(c)
  BY DEF ToRun, IsRunning
<1>2. \A c \in Contexts : ~Walked(t, c)
  BY DEF Walked
<1> QED BY <1>1, <1>2, RunStep

\* A call changes no state.
LEMMA CallRun ==
    ASSUME Typed, ChildrenRun, NEW t \in Threads, Call(t) PROVE ChildrenRun'
<1>1. Others(t) /\ UNCHANGED << treeVars, histVars >> /\ pc[t] = "idle"
  BY CallDoes
<1>2. ChildrenStay /\ UNCHANGED << m_state, linked, unseen >> /\ ~Walking(t)
  BY <1>1 DEF treeVars, histVars, ChildrenStay, Walking, Starting
<1> QED BY <1>1, <1>2, RunAside

\* A child that is only reserved does not wait yet.
LEMMA CreateRun ==
    ASSUME Typed, ChildrenRun, NEW t \in Threads, Create(t) PROVE ChildrenRun'
<1>1. Others(t) /\ ChildrenStay /\ UNCHANGED << m_state, linked, histVars >> /\ pc[t] = "create"
  BY CreateDoes
<1>2. unseen' = unseen /\ ~Walking(t)
  BY <1>1 DEF histVars, Walking, Starting
<1> QED BY <1>1, <1>2, RunAside

\* Nor does one that is not linked.
LEMMA ConstructRun ==
    ASSUME Typed, Kin, ChildrenRun, NEW t \in Threads, Construct(t) PROVE ChildrenRun'
<1>1. /\ Others(t) /\ ChildrenStay /\ UNCHANGED << linked, histVars >> /\ pc[t] = "construct"
      /\ ctx[t] \in Contexts /\ \A c \in Contexts \ {ctx[t]} : m_state'[c] = m_state[c]
  BY ConstructDoes
<1>2. unseen' = unseen /\ ~Walking(t) /\ ctx[t] \notin linked
  BY <1>1 DEF histVars, Walking, Starting, Kin, ThreadKin, Creating
<1>3. ASSUME NEW c \in Contexts, ToRun(c)' PROVE ToRun(c)
  <2>1. c \in linked /\ Parent[c] # None
    BY <1>1, <1>3 DEF ToRun
  <2>2. Parent[c] \in linked /\ Parent[c] \in Contexts
    BY <2>1, ConstantsAssumption DEF Kin, ContextKin
  <2>3. m_state'[c] = m_state[c] /\ m_state'[Parent[c]] = m_state[Parent[c]]
    BY <1>1, <1>2, <2>1, <2>2
  <2> QED BY <1>1, <1>2, <1>3, <2>3 DEF ToRun, IsRunning
<1>4. \A c \in Contexts : ~Walked(t, c)
  BY <1>2 DEF Walked
<1> QED BY <1>1, <1>3, <1>4, RunStep

\* A child that is linked waits for its parent only if that does not run, or is unseen.
LEMMA LinkRun ==
    ASSUME Typed, Kin, ChildrenRun, NEW t \in Threads, Link(t) PROVE ChildrenRun'
<1>1. /\ Others(t) /\ ChildrenStay /\ pc[t] = "link"
      /\ ctx[t] \in Contexts /\ \A c \in Contexts \ {ctx[t]} : m_state'[c] = m_state[c]
      /\ linked' = linked \cup {ctx[t]}
      /\ m_state'[ctx[t]] = BornState(ctx[t])
      /\ unseen' = IF IsRunning(Parent[ctx[t]]) /\ m_state[ctx[t]] = "NotStarted"
                   THEN unseen \cup {ctx[t]} ELSE unseen
  BY LinkDoes
<1>2. ~Walking(t) /\ ctx[t] \notin linked /\ Parent[ctx[t]] \in linked
  BY <1>1 DEF Walking, Starting, Kin, ThreadKin, Creating
<1>3. ASSUME NEW c \in Contexts, ToRun(c)' PROVE ToRun(c)
  <2>1. CASE c # ctx[t]
    <3>1. c \in linked /\ Parent[c] # None
      BY <1>1, <1>3, <2>1 DEF ToRun
    <3>2. Parent[c] \in linked /\ Parent[c] \in Contexts
      BY <3>1, ConstantsAssumption DEF Kin, ContextKin
    <3>3. m_state'[c] = m_state[c] /\ m_state'[Parent[c]] = m_state[Parent[c]]
      BY <1>1, <1>2, <2>1, <3>1, <3>2
    <3> QED BY <1>1, <1>3, <3>1, <3>3 DEF ToRun, IsRunning
  <2>2. CASE c = ctx[t]
    <3>1. Parent[c] \in Contexts /\ m_state'[Parent[c]] = m_state[Parent[c]]
      BY <1>1, <1>2, <2>2 DEF Typed, TypeOK
    <3>2. m_state[Parent[c]] = "Running" /\ c \notin unseen' /\ m_state'[c] \in {"NotStarted", "Initiated"}
      BY <1>3, <3>1 DEF ToRun, IsRunning
    <3>3. m_state'[c] = m_state[c]
      BY <1>1, <2>2, <3>2 DEF BornState, IsShutdown
    <3>4. m_state[c] = "NotStarted"
      BY <1>2, <2>2, <3>2, <3>3 DEF Kin, ContextKin
    <3> QED BY <1>1, <2>2, <3>2, <3>4 DEF IsRunning
  <2> QED BY <2>1, <2>2
<1>4. \A c \in Contexts : ~Walked(t, c)
  BY <1>2 DEF Walked
<1> QED BY <1>1, <1>3, <1>4, RunStep

\* A linked child has a place.
LEMMA ChildPlace ==
    ASSUME Typed, Kin, NEW c \in linked, Parent[c] # None
    PROVE  /\ Parent[c] \in Contexts /\ m_children[Parent[c]] \in Seq(Contexts)
           /\ \E j \in DOMAIN m_children[Parent[c]] : j \in Nat /\ 1 <= j /\ m_children[Parent[c]][j] = c
<1>1. c \in Contexts /\ Parent[c] \in Contexts
  BY ConstantsAssumption DEF Typed, TypeOK
<1>2. m_children[Parent[c]] \in Seq(Contexts)
  BY <1>1 DEF Typed, TypeOK
<1>3. c \in Range(m_children[Parent[c]])
  BY <1>1 DEF Kin, ContextKin
<1>4. PICK j \in DOMAIN m_children[Parent[c]] : m_children[Parent[c]][j] = c
  BY <1>3 DEF Range
<1>5. j \in Nat /\ 1 <= j
  BY <1>2, LenProperties
<1> QED BY <1>1, <1>2, <1>4, <1>5

\* When a context comes to run, who initiated it is in front of all its children.
LEMMA InitiateRun ==
    ASSUME Typed, Typed', Kin, ChildrenRun, NEW t \in Threads, Initiate(t) PROVE ChildrenRun'
<1>1. /\ Others(t) /\ ChildrenStay /\ UNCHANGED << linked, m_children, ctx, histVars >>
      /\ pc[t] = "initiate" /\ run[t] = None /\ ctx[t] \in Contexts
      /\ \A c \in Contexts \ {ctx[t]} : m_state'[c] = m_state[c]
      /\ \/ m_state' = m_state
         \/ m_state[ctx[t]] = "NotStarted" /\ m_state'[ctx[t]] = "Initiated"
         \/ /\ m_state'[ctx[t]] = "Running" /\ run' = run
            /\ \/ pc'[t] = "count"
               \/ pc'[t] = "children" /\ stack'[t] = << [of |-> ctx[t], at |-> 1] >>
  BY InitiateDoes
<1>2. unseen' = unseen /\ ~Walking(t)
  BY <1>1 DEF histVars, Walking, Starting
<1>3. ASSUME NEW c \in Contexts, ToRun(c)', ~ToRun(c) PROVE Walked(t, c)'
  <2>1. c \in linked /\ Parent[c] # None /\ Parent[c] \in Contexts /\ c \notin unseen
    BY <1>1, <1>2, <1>3, ConstantsAssumption DEF ToRun
  <2>2. m_state' # m_state
    BY <1>1, <1>2, <1>3 DEF ToRun, IsRunning
  <2>3. Parent[c] = ctx[t] /\ m_state'[ctx[t]] = "Running"
    <3>1. m_state'[Parent[c]] = "Running" /\ m_state'[c] \in {"NotStarted", "Initiated"}
      BY <1>3 DEF ToRun, IsRunning
    <3>2. m_state[Parent[c]] # "Running" \/ m_state[c] \notin {"NotStarted", "Initiated"}
      BY <1>3, <2>1 DEF ToRun, IsRunning
    <3>3. CASE m_state[ctx[t]] = "NotStarted" /\ m_state'[ctx[t]] = "Initiated"
      BY <1>1, <2>1, <3>1, <3>2, <3>3
    <3>4. CASE m_state'[ctx[t]] = "Running"
      BY <1>1, <2>1, <3>1, <3>2, <3>4
    <3> QED BY <1>1, <2>2, <3>3, <3>4
  <2>4. run'[t] = None
    BY <1>1, <2>2, <2>3
  <2>5. CASE pc'[t] = "count"
    BY <1>1, <2>3, <2>4, <2>5 DEF Walked, Walking, Starting
  <2>6. CASE pc'[t] = "children" /\ stack'[t] = << [of |-> ctx[t], at |-> 1] >>
    <3>1. PICK f : f = [of |-> ctx[t], at |-> 1]
      OBVIOUS
    <3>2. f \in Range(stack'[t])
      <4>1. stack'[t] = << f >>
        BY <2>6, <3>1
      <4>2. 1 \in DOMAIN << f >> /\ << f >>[1] = f
        OBVIOUS
      <4> QED BY <4>1, <4>2 DEF Range
    <3>3. f.of = Parent[c] /\ f.at = 1
      BY <2>3, <3>1
    <3>4. \E j \in DOMAIN m_children'[Parent[c]] : f.at <= j /\ m_children'[Parent[c]][j] = c
      BY <1>1, <2>1, <3>3, ChildPlace
    <3>5. Walking(t)'
      BY <2>6 DEF Walking
    <3> QED BY <3>2, <3>3, <3>4, <3>5 DEF Walked, Before
  <2> QED BY <1>1, <2>2, <2>3, <2>5, <2>6
<1>4. \A c \in Contexts : ~Walked(t, c)
  BY <1>2 DEF Walked
<1> QED BY <1>1, <1>3, <1>4, RunStep

\* The walk leaves no child behind that waits, and starts with the children of the next.
LEMMA TransitionRun ==
    ASSUME Typed, Typed', Kin, ChildrenRun, NEW t \in Threads, Transition(t) PROVE ChildrenRun'
<1>1. /\ Others(t) /\ ChildrenStay /\ UNCHANGED << m_children, linked, run, histVars >>
      /\ pc[t] = "children" /\ run[t] = None /\ stack[t] \in Seq(WalkFrames) /\ stack[t] # << >>
  BY TransitionDoes
<1>2. PICK f \in WalkFrames :
         /\ f = Head(stack[t])
         /\ WalkEnds(t, f) \/ \E c \in Contexts : WalkOn(t, f, c)
  BY TransitionDoes
<1>3. /\ unseen' = unseen /\ run'[t] = None /\ ~Starting(t)
      /\ Range(stack[t]) = {f} \cup Range(Tail(stack[t])) /\ Tail(stack[t]) \in Seq(WalkFrames)
      /\ f.of \in Contexts /\ f.at \in Nat \ {0}
  BY <1>1, <1>2, TailOf DEF histVars, Starting, WalkFrames
<1>4. CASE WalkEnds(t, f)
  <2>1. /\ f.at > Len(m_children[f.of]) /\ stack'[t] = Tail(stack[t]) /\ m_state' = m_state
        /\ \/ stack'[t] = << >> /\ pc'[t] = "idle"
           \/ stack'[t] # << >> /\ pc'[t] = "children"
    BY <1>4 DEF WalkEnds
  <2>2. ASSUME NEW c \in Contexts, Parent[c] # None, Walked(t, c) PROVE Walked(t, c)'
    <3>1. PICK g \in Range(stack[t]) : Before(g, c)
      BY <1>3, <2>2 DEF Walked
    <3>2. ~Before(f, c)
      <4>1. m_children[f.of] \in Seq(Contexts)
        BY <1>3 DEF Typed, TypeOK
      <4> QED BY <1>3, <2>1, <4>1, LenProperties DEF Before
    <3>3. g \in Range(stack'[t])
      BY <1>3, <2>1, <3>1, <3>2
    <3>4. pc'[t] = "children"
      BY <2>1, <3>3, RangeEmpty
    <3>5. Before(g, c)'
      BY <1>1, <3>1 DEF Before
    <3> QED BY <3>3, <3>4, <3>5 DEF Walked, Walking
  <2>3. \A c \in Contexts : ToRun(c)' => ToRun(c)
    BY <1>1, <1>3, <2>1 DEF ToRun, IsRunning
  <2>4. \A c \in Contexts : ToRun(c) => Parent[c] # None
    BY DEF ToRun
  <2> QED BY <1>1, <2>2, <2>3, <2>4, RunStep
<1>5. ASSUME NEW n \in Contexts, WalkOn(t, f, n) PROVE ChildrenRun'
  <2>1. /\ f.at \in DOMAIN m_children[f.of] /\ n = m_children[f.of][f.at]
        /\ stack'[t] = [stack[t] EXCEPT ![1] = [of |-> f.of, at |-> f.at + 1]]
        /\ WalkSkips(t, n) \/ WalkStarts(t, n) \/ WalkTells(t, n)
    BY <1>5 DEF WalkOn
  <2>2. /\ pc'[t] \in {"children", "count"}
        /\ \A x \in Contexts \ {n} : m_state'[x] = m_state[x]
        /\ n \in linked => m_state'[n] \notin {"NotStarted", "Initiated"}
        /\ \/ m_state'[n] = "Running" <=> m_state[n] = "Running"
           \/ pc'[t] = "count" /\ ctx'[t] = n
    BY <2>1 DEF WalkSkips, WalkStarts, WalkTells
  <2>3. Walking(t)'
    BY <1>3, <2>2 DEF Walking, Starting
  <2>14. [of |-> f.of, at |-> f.at + 1] \in WalkFrames
    BY <1>3 DEF WalkFrames
  <2>4. PICK e \in WalkFrames : e = [of |-> f.of, at |-> f.at + 1]
    BY <2>14
  <2>5. Range(stack'[t]) = {e} \cup Range(Tail(stack[t])) /\ e.of = f.of /\ e.at = f.at + 1
    <3>1. /\ stack[t] \in Seq(WalkFrames) /\ stack[t] # << >> /\ e \in WalkFrames
          /\ stack'[t] = [stack[t] EXCEPT ![1] = e]
      BY <1>1, <2>1, <2>4
    <3>2. Range(stack'[t]) = {e} \cup Range(Tail(stack[t]))
      BY ONLY <3>1, PutIs
    <3> QED BY <2>4, <3>2
  <2>6. ASSUME NEW c \in Contexts, ToRun(c)', ~ToRun(c) PROVE Walked(t, c)'
    <3>1. c \in linked /\ Parent[c] # None /\ Parent[c] \in Contexts /\ c \notin unseen
      BY <1>1, <1>3, <2>6, ConstantsAssumption DEF ToRun
    <3>2. m_state'[Parent[c]] = "Running" /\ m_state'[c] \in {"NotStarted", "Initiated"}
      BY <2>6 DEF ToRun, IsRunning
    <3>3. c # n /\ m_state'[c] = m_state[c]
      BY <2>2, <3>1, <3>2
    <3>4. m_state[Parent[c]] # "Running"
      BY <2>6, <3>1, <3>2, <3>3 DEF ToRun, IsRunning
    <3>5. Parent[c] = n /\ pc'[t] = "count" /\ ctx'[t] = n
      BY <2>2, <3>1, <3>2, <3>4
    <3> QED BY <2>3, <3>5 DEF Walked, Starting
  <2>7. ASSUME NEW c \in Contexts, ToRun(c), ToRun(c)', Walked(t, c) PROVE Walked(t, c)'
    <3>1. PICK g \in Range(stack[t]) : Before(g, c)
      BY <1>3, <2>7 DEF Walked
    <3>2. CASE g \in Range(Tail(stack[t]))
      <4>1. Before(g, c)'
        BY <1>1, <3>1 DEF Before
      <4> QED BY <2>3, <2>5, <3>2, <4>1 DEF Walked
    <3>3. CASE g = f
      <4>1. c # n
        <5>1. c \in linked /\ m_state'[c] \in {"NotStarted", "Initiated"}
          BY <1>1, <2>7 DEF ToRun
        <5> QED BY <2>2, <5>1
      <4>2. PICK j \in DOMAIN m_children[Parent[c]] : f.at <= j /\ m_children[Parent[c]][j] = c
        BY <3>1, <3>3 DEF Before
      <4>3. f.of = Parent[c] /\ j # f.at
        BY <2>1, <3>1, <3>3, <4>1, <4>2 DEF Before
      <4>4. j \in Nat
        <5>1. m_children[f.of] \in Seq(Contexts)
          BY <1>3 DEF Typed, TypeOK
        <5> QED BY <4>3, <5>1, LenProperties
      <4>5. f.at + 1 <= j
        BY <1>3, <4>2, <4>3, <4>4
      <4>6. Before(e, c)'
        BY <1>1, <2>5, <4>2, <4>3, <4>5 DEF Before
      <4> QED BY <2>3, <2>5, <4>6 DEF Walked
    <3> QED BY <1>3, <3>1, <3>2, <3>3
  <2> QED BY <1>1, <2>6, <2>7, RunStep
<1> QED BY <1>2, <1>4, <1>5

\* A thread that takes a counter is still going to the children.
LEMMA CountRun ==
    ASSUME Typed, ChildrenRun, NEW t \in Threads, Count(t) PROVE ChildrenRun'
<1>1. /\ Others(t) /\ ChildrenStay /\ UNCHANGED << treeVars, ctx, run, stack, histVars >>
      /\ pc[t] = "count" /\ pc'[t] = "start"
  BY CountDoes
<1>2. UNCHANGED << m_state, linked, unseen, m_children >>
  BY <1>1 DEF treeVars, histVars
<1>3. \A c \in Contexts : ToRun(c)' => ToRun(c)
  BY <1>2 DEF ToRun, IsRunning
<1>4. \A c \in Contexts : Walked(t, c) => Walked(t, c)'
  BY <1>1, <1>2 DEF Walked, Walking, Starting, Before
<1> QED BY <1>1, <1>3, <1>4, RunStep

\* And so is one that starts runnables.
LEMMA StartNextRun ==
    ASSUME Typed, ChildrenRun, NEW t \in Threads, StartNext(t) PROVE ChildrenRun'
<1>1. /\ Others(t) /\ ChildrenStay /\ UNCHANGED << treeVars, pc, ctx, run, stack, histVars >>
  BY StartNextDoes
<1>2. UNCHANGED << m_state, linked, unseen, m_children >>
  BY <1>1 DEF treeVars, histVars
<1>3. \A c \in Contexts : ToRun(c)' => ToRun(c)
  BY <1>2 DEF ToRun, IsRunning
<1>4. \A c \in Contexts : Walked(t, c) => Walked(t, c)'
  BY <1>1, <1>2 DEF Walked, Walking, Starting, Before
<1> QED BY <1>1, <1>3, <1>4, RunStep

\* When all are started, the walk is in front of the first child.
LEMMA StartedRun ==
    ASSUME Typed, Kin, ChildrenRun, NEW t \in Threads, Started(t) PROVE ChildrenRun'
<1>1. /\ Others(t) /\ ChildrenStay /\ UNCHANGED << treeVars, ctx, run, histVars >>
      /\ pc[t] = "start" /\ ctx[t] \in Contexts
      /\ \/ /\ run[t] = None /\ pc'[t] = "children" /\ stack[t] \in Seq(WalkFrames)
            /\ \E f \in WalkFrames : /\ f = [of |-> ctx[t], at |-> 1]
                                     /\ stack'[t] = << f >> \o stack[t]
         \/ run[t] # None
  BY StartedDoes
<1>2. UNCHANGED << m_state, linked, unseen, m_children >>
  BY <1>1 DEF treeVars, histVars
<1>3. \A c \in Contexts : ToRun(c)' => ToRun(c)
  BY <1>2 DEF ToRun, IsRunning
<1>4. CASE run[t] # None
  <2>1. \A c \in Contexts : ~Walked(t, c)
    BY <1>1, <1>4 DEF Walked, Walking
  <2> QED BY <1>1, <1>3, <2>1, RunStep
<1>5. ASSUME run[t] = None, pc'[t] = "children", stack[t] \in Seq(WalkFrames),
             NEW f \in WalkFrames, f = [of |-> ctx[t], at |-> 1], stack'[t] = << f >> \o stack[t]
      PROVE  ChildrenRun'
  <2>1. f.of = ctx[t] /\ f.at = 1
    BY <1>5
  <2>2. Range(stack'[t]) = {f} \cup Range(stack[t])
    <3>1. f \in WalkFrames /\ stack[t] \in Seq(WalkFrames) /\ stack'[t] = << f >> \o stack[t]
      BY <1>5
    <3>2. Range(<< f >> \o stack[t]) = {f} \cup Range(stack[t])
      BY ONLY <3>1, PushOf
    <3> QED BY ONLY <3>1, <3>2
  <2>3. Walking(t)'
    BY <1>5 DEF Walking
  <2>4. ASSUME NEW c \in Contexts, ToRun(c), Walked(t, c) PROVE Walked(t, c)'
    <3>1. CASE ctx[t] = Parent[c]
      <4>1. c \in linked /\ Parent[c] # None
        BY <2>4 DEF ToRun
      <4>2. \E j \in DOMAIN m_children[Parent[c]] : f.at <= j /\ m_children[Parent[c]][j] = c
        BY <2>1, <4>1, ChildPlace
      <4>3. Before(f, c)'
        BY <1>2, <2>1, <3>1, <4>2 DEF Before
      <4> QED BY <2>2, <2>3, <4>3 DEF Walked
    <3>2. ASSUME NEW g \in Range(stack[t]), Before(g, c) PROVE Walked(t, c)'
      <4>1. Before(g, c)'
        BY <1>2, <3>2 DEF Before
      <4> QED BY <2>2, <2>3, <4>1 DEF Walked
    <3> QED BY <2>4, <3>1, <3>2 DEF Walked
  <2> QED BY <1>1, <1>3, <2>4, RunStep
<1> QED BY <1>1, <1>4, <1>5

\* A shutdown makes no child wait.
LEMMA ShutdownRun ==
    ASSUME Typed, ChildrenRun, NEW t \in Threads, Shutdown(t) PROVE ChildrenRun'
<1>1. /\ Others(t) /\ ChildrenStay /\ UNCHANGED << linked, histVars >>
      /\ pc[t] \in {"shutdown", "signal"} /\ ctx[t] \in Contexts
      /\ \/ m_state' = m_state
         \/ /\ m_state'[ctx[t]] \in {"Shutdown", "Abandoned"}
            /\ \A c \in Contexts \ {ctx[t]} : m_state'[c] = m_state[c]
  BY ShutdownDoes
<1>2. unseen' = unseen /\ ~Walking(t)
  BY <1>1 DEF histVars, Walking, Starting
<1>3. ASSUME NEW c \in Contexts, ToRun(c)' PROVE ToRun(c)
  <2>1. Parent[c] # None /\ Parent[c] \in Contexts
    BY <1>3, ConstantsAssumption DEF ToRun
  <2>2. m_state'[c] \in {"NotStarted", "Initiated"} /\ m_state'[Parent[c]] = "Running"
    BY <1>3 DEF ToRun, IsRunning
  <2>3. m_state'[c] = m_state[c] /\ m_state'[Parent[c]] = m_state[Parent[c]]
    BY <1>1, <2>1, <2>2
  <2> QED BY <1>1, <1>2, <1>3, <2>3 DEF ToRun, IsRunning
<1>4. \A c \in Contexts : ~Walked(t, c)
  BY <1>2 DEF Walked
<1> QED BY <1>1, <1>3, <1>4, RunStep

\* Steps that change no state, of threads that are not walking.
LEMMA AsideRun ==
    ASSUME Typed, ChildrenRun, NEW t \in Threads,
           Add(t) \/ Added(t) \/ AddedStop(t) \/ Await(t) \/ Collect(t) \/ Kids(t) \/ Stops(t)
    PROVE  ChildrenRun'
<1>1. CASE Add(t)
  <2>1. Others(t) /\ ChildrenStay /\ UNCHANGED << m_state, linked, histVars >> /\ pc[t] = "add"
    BY <1>1, AddDoes
  <2> QED BY <2>1, RunAside DEF histVars, Walking, Starting
<1>2. CASE Added(t)
  <2>1. Others(t) /\ ChildrenStay /\ UNCHANGED << m_state, linked, unseen >> /\ pc[t] = "added"
    BY <1>2, AddedDoes
  <2> QED BY <2>1, RunAside DEF Walking, Starting
<1>3. CASE AddedStop(t)
  <2>1. Others(t) /\ ChildrenStay /\ UNCHANGED << treeVars, histVars >> /\ pc[t] = "addstop"
    BY <1>3, AddedStopDoes
  <2> QED BY <2>1, RunAside DEF treeVars, histVars, Walking, Starting
<1>4. CASE Await(t)
  <2>1. Others(t) /\ ChildrenStay /\ UNCHANGED << treeVars, unseen >> /\ pc[t] \in {"wait", "quiescent", "delay"}
    BY <1>4, AwaitDoes
  <2> QED BY <2>1, RunAside DEF treeVars, Walking, Starting
<1>5. CASE Collect(t)
  <2>1. Others(t) /\ ChildrenStay /\ UNCHANGED << treeVars, histVars >> /\ pc[t] = "collect"
    BY <1>5, CollectDoes
  <2> QED BY <2>1, RunAside DEF treeVars, histVars, Walking, Starting
<1>6. CASE Kids(t)
  <2>1. Others(t) /\ ChildrenStay /\ UNCHANGED << treeVars, histVars >> /\ pc[t] = "kids"
    BY <1>6, KidsDoes
  <2> QED BY <2>1, RunAside DEF treeVars, histVars, Walking, Starting
<1>7. CASE Stops(t)
  <2>1. Others(t) /\ ChildrenStay /\ UNCHANGED << treeVars, histVars >> /\ pc[t] = "stops"
    BY <1>7, StopsDoes
  <2> QED BY <2>1, RunAside DEF treeVars, histVars, Walking, Starting
<1> QED BY <1>1, <1>2, <1>3, <1>4, <1>5, <1>6, <1>7

\* The threads of runnables and the destructors change nothing of this.
LEMMA QuietRun ==
    ASSUME ChildrenRun, UNCHANGED << treeVars, pc, ctx, run, stack, histVars >> PROVE ChildrenRun'
<1>1. UNCHANGED << m_state, linked, unseen, m_children >>
  BY DEF treeVars, histVars
<1>2. \A c \in Contexts : ToRun(c)' => ToRun(c)
  BY <1>1 DEF ToRun, IsRunning
<1>3. \A c \in Contexts, u \in Threads : Walked(u, c) => Walked(u, c)'
  BY <1>1 DEF Walked, Walking, Starting, Before
<1> QED BY <1>2, <1>3 DEF ChildrenRun

\* Every step keeps the walk ahead of the children that wait.
LEMMA NextRun ==
    ASSUME Typed, Typed', Kin, ChildrenRun, [Next]_vars PROVE ChildrenRun'
<1>1. ASSUME NEW t \in Threads, Call(t) \/ Step(t) PROVE ChildrenRun'
  BY <1>1, CallRun, CreateRun, ConstructRun, LinkRun, InitiateRun, TransitionRun, CountRun, StartNextRun,
     StartedRun, ShutdownRun, AsideRun
     DEF Step
<1>2. ASSUME NEW r \in Runnables, RunnableEnds(r) PROVE ChildrenRun'
  BY <1>2, RunnableEndsDoes, QuietRun
<1>3. ASSUME NEW k \in Counters, Destroy(k) PROVE ChildrenRun'
  BY <1>3, DestroyDoes, QuietRun
<1>4. ASSUME UNCHANGED vars PROVE ChildrenRun'
  BY <1>4, QuietRun DEF vars, threadVars
<1> QED BY <1>1, <1>2, <1>3, <1>4 DEF Next

-----------------------------------------------------------------------------
(* Children are shut down with their parents *)

\* A thread is going to shut down child c: it has c among the children it collected
\* at the parent, is about to collect them, or is at c.
EndOf(f, c) == f.of = Parent[c] /\ \E j \in f.kids : m_children[Parent[c]][j] = c
Ending(t, c) ==
    /\ Stopping(t)
    /\ \/ \E f \in Range(stack[t]) : EndOf(f, c)
       \/ pc[t] = "collect" /\ Head(stack[t]).of = Parent[c]
       \/ pc[t] = "signal" /\ ctx[t] = c /\ \E f \in Range(stack[t]) : f.of = Parent[c]

\* A child that is still to be shut down with its parent.
ToEnd(c) == c \in linked /\ Parent[c] # None /\ IsShutdown(Parent[c]) /\ ~IsShutdown(c)

ChildrenEnd == \A c \in Contexts : ToEnd(c) => \E t \in Threads : Ending(t, c)

\* The places of children that were collected stay theirs.
LEMMA EndOfStays ==
    ASSUME Typed, ChildrenStay, NEW c \in Contexts, Parent[c] # None, NEW u \in Threads, Stopping(u),
           NEW f \in Range(stack[u]), EndOf(f, c)
    PROVE  EndOf(f, c)'
<1>1. Parent[c] \in Contexts
  BY ConstantsAssumption
<1>2. f.kids \subseteq DOMAIN m_children[f.of]
  BY DEF Typed, KidsThere
<1>3. PICK j \in f.kids : m_children[Parent[c]][j] = c
  BY DEF EndOf
<1>4. m_children'[Parent[c]][j] = c
  BY <1>1, <1>2, <1>3 DEF EndOf, ChildrenStay
<1> QED BY <1>3, <1>4 DEF EndOf

\* A thread that does nothing is still going to shut down the child.
LEMMA EndingStays ==
    ASSUME Typed, ChildrenStay, NEW c \in Contexts, Parent[c] # None, NEW u \in Threads, Ending(u, c),
           pc'[u] = pc[u], ctx'[u] = ctx[u], stack'[u] = stack[u]
    PROVE  Ending(u, c)'
<1>1. Stopping(u) /\ Stopping(u)'
  BY DEF Ending, Stopping
<1>2. ASSUME NEW f \in Range(stack[u]), EndOf(f, c) PROVE Ending(u, c)'
  BY <1>1, <1>2, EndOfStays DEF Ending
<1> QED BY <1>1, <1>2 DEF Ending

\* What a step of t has to do.
LEMMA EndStep ==
    ASSUME Typed, ChildrenEnd, NEW t \in Threads, Others(t), ChildrenStay,
           \A c \in Contexts : ToEnd(c)' => ToEnd(c) \/ Ending(t, c)',
           \A c \in Contexts : ToEnd(c) /\ ToEnd(c)' /\ Ending(t, c) => Ending(t, c)'
    PROVE  ChildrenEnd'
<1> SUFFICES ASSUME NEW c \in Contexts, ToEnd(c)', ~Ending(t, c)'
             PROVE  \E u \in Threads : Ending(u, c)'
  BY DEF ChildrenEnd
<1>1. PICK u \in Threads : Ending(u, c)
  BY DEF ChildrenEnd
<1>2. u # t /\ Parent[c] # None
  BY <1>1 DEF ToEnd
<1>3. Ending(u, c)'
  BY <1>1, <1>2, EndingStays DEF Others
<1> QED BY <1>3

\* Steps of threads that shut nothing down.
LEMMA EndAside ==
    ASSUME Typed, ChildrenEnd, NEW t \in Threads, Others(t), ChildrenStay, linked' = linked, ~Stopping(t),
           \A c \in Contexts : IsShutdown(c)' <=> IsShutdown(c)
    PROVE  ChildrenEnd'
<1>1. ASSUME NEW c \in Contexts, ToEnd(c)' PROVE ToEnd(c)
  <2>1. PICK p : p = Parent[c]
    OBVIOUS
  <2>2. p \in Contexts
    BY <1>1, <2>1, ConstantsAssumption DEF ToEnd
  <2>3. IsShutdown(p)' <=> IsShutdown(p)
    BY <2>2
  <2>4. IsShutdown(Parent[c])' <=> IsShutdown(Parent[c])
    BY <2>1, <2>3 DEF IsShutdown
  <2> QED BY <1>1, <2>4 DEF ToEnd
<1>2. \A c \in Contexts : ~Ending(t, c)
  BY DEF Ending
<1> QED BY <1>1, <1>2, EndStep

\* Steps that shut nothing down.
LEMMA AsideEnd ==
    ASSUME Typed, Kin, ChildrenEnd, NEW t \in Threads,
           \/ Call(t) \/ Create(t) \/ Construct(t) \/ Add(t) \/ Added(t) \/ AddedStop(t) \/ Await(t)
           \/ Count(t) \/ StartNext(t) \/ Started(t)
    PROVE  ChildrenEnd'
<1>1. CASE Call(t)
  <2>1. Others(t) /\ UNCHANGED << treeVars >> /\ pc[t] = "idle"
    BY <1>1, CallDoes
  <2> QED BY <2>1, EndAside DEF treeVars, ChildrenStay, Stopping, IsShutdown
<1>2. CASE Create(t)
  <2>1. Others(t) /\ ChildrenStay /\ UNCHANGED << m_state, linked >> /\ pc[t] = "create"
    BY <1>2, CreateDoes
  <2> QED BY <2>1, EndAside DEF Stopping, IsShutdown
<1>3. CASE Construct(t)
  <2>1. /\ Others(t) /\ ChildrenStay /\ linked' = linked /\ pc[t] = "construct" /\ ctx[t] \in Contexts
        /\ \A c \in Contexts \ {ctx[t]} : m_state'[c] = m_state[c]
        /\ m_state'[ctx[t]] = IF IsRunning(Parent[ctx[t]]) THEN "CanRun" ELSE m_state[ctx[t]]
    BY <1>3, ConstructDoes
  <2>2. ctx[t] \notin linked /\ m_state[ctx[t]] \in {"NotStarted", "CanRun"}
    BY <2>1 DEF Kin, ThreadKin, ContextKin, Creating
  <2>3. \A c \in Contexts : IsShutdown(c)' <=> IsShutdown(c)
    BY <2>1, <2>2 DEF IsShutdown
  <2> QED BY <2>1, <2>3, EndAside DEF Stopping
<1>4. CASE Add(t)
  <2>1. Others(t) /\ ChildrenStay /\ UNCHANGED << m_state, linked >> /\ pc[t] = "add"
    BY <1>4, AddDoes
  <2> QED BY <2>1, EndAside DEF Stopping, IsShutdown
<1>5. CASE Added(t)
  <2>1. Others(t) /\ ChildrenStay /\ UNCHANGED << m_state, linked >> /\ pc[t] = "added"
    BY <1>5, AddedDoes
  <2> QED BY <2>1, EndAside DEF Stopping, IsShutdown
<1>6. CASE AddedStop(t)
  <2>1. Others(t) /\ ChildrenStay /\ UNCHANGED << treeVars >> /\ pc[t] = "addstop"
    BY <1>6, AddedStopDoes
  <2> QED BY <2>1, EndAside DEF treeVars, Stopping, IsShutdown
<1>7. CASE Await(t)
  <2>1. Others(t) /\ ChildrenStay /\ UNCHANGED << treeVars >> /\ pc[t] \in {"wait", "quiescent", "delay"}
    BY <1>7, AwaitDoes
  <2> QED BY <2>1, EndAside DEF treeVars, Stopping, IsShutdown
<1>8. CASE Count(t)
  <2>1. Others(t) /\ ChildrenStay /\ UNCHANGED << treeVars >> /\ pc[t] = "count"
    BY <1>8, CountDoes
  <2> QED BY <2>1, EndAside DEF treeVars, Stopping, IsShutdown
<1>9. CASE StartNext(t)
  <2>1. Others(t) /\ ChildrenStay /\ UNCHANGED << treeVars >> /\ pc[t] = "start"
    BY <1>9, StartNextDoes
  <2> QED BY <2>1, EndAside DEF treeVars, Stopping, IsShutdown
<1>10. CASE Started(t)
  <2>1. Others(t) /\ ChildrenStay /\ UNCHANGED << treeVars >> /\ pc[t] = "start"
    BY <1>10, StartedDoes
  <2> QED BY <2>1, EndAside DEF treeVars, Stopping, IsShutdown
<1> QED BY <1>1, <1>2, <1>3, <1>4, <1>5, <1>6, <1>7, <1>8, <1>9, <1>10

\* Initiate and the transition of the children shut nothing down, nor undo it.
LEMMA InitiateShuts ==
    ASSUME Typed, NEW t \in Threads, Initiate(t)
    PROVE  \A c \in Contexts : IsShutdown(c)' <=> IsShutdown(c)
<1>1. /\ ctx[t] \in Contexts /\ \A c \in Contexts \ {ctx[t]} : m_state'[c] = m_state[c]
      /\ \/ m_state' = m_state
         \/ m_state[ctx[t]] \in {"NotStarted", "CanRun"} /\ m_state'[ctx[t]] \in {"Initiated", "Running"}
  BY InitiateDoes
<1> QED BY <1>1 DEF IsShutdown

\* The transition of a child does not undo a shutdown.
LEMMA TransitionShuts ==
    ASSUME Typed, NEW t \in Threads, Transition(t)
    PROVE  \A c \in Contexts : IsShutdown(c)' <=> IsShutdown(c)
<1>1. PICK f \in WalkFrames : WalkEnds(t, f) \/ \E c \in Contexts : WalkOn(t, f, c)
  BY TransitionDoes
<1>2. CASE WalkEnds(t, f)
  BY <1>2 DEF WalkEnds, IsShutdown
<1>3. ASSUME NEW n \in Contexts, WalkOn(t, f, n)
      PROVE  \A c \in Contexts : IsShutdown(c)' <=> IsShutdown(c)
  <2>1. CASE WalkSkips(t, n)
    BY <2>1 DEF WalkSkips, IsShutdown
  <2>2. CASE WalkStarts(t, n)
    BY <2>2 DEF WalkStarts, IsShutdown
  <2>3. CASE WalkTells(t, n)
    BY <2>3 DEF WalkTells, IsShutdown
  <2> QED BY <1>3, <2>1, <2>2, <2>3 DEF WalkOn
<1> QED BY <1>1, <1>2, <1>3

\* Initiate leaves no child to be shut down behind.
LEMMA InitiateEnd ==
    ASSUME Typed, ChildrenEnd, NEW t \in Threads, Initiate(t) PROVE ChildrenEnd'
<1>1. Others(t) /\ ChildrenStay /\ linked' = linked /\ pc[t] = "initiate"
  BY InitiateDoes
<1> QED BY <1>1, InitiateShuts, EndAside DEF Stopping

\* Nor does the transition of the children.
LEMMA TransitionEnd ==
    ASSUME Typed, ChildrenEnd, NEW t \in Threads, Transition(t) PROVE ChildrenEnd'
<1>1. Others(t) /\ ChildrenStay /\ linked' = linked /\ pc[t] = "children"
  BY TransitionDoes
<1> QED BY <1>1, TransitionShuts, EndAside DEF Stopping

\* A child that is linked below a parent that was shut down is shut down at once.
LEMMA LinkEnd ==
    ASSUME Typed, Kin, ChildrenEnd, NEW t \in Threads, Link(t) PROVE ChildrenEnd'
<1>1. /\ Others(t) /\ ChildrenStay /\ pc[t] = "link"
      /\ ctx[t] \in Contexts /\ \A c \in Contexts \ {ctx[t]} : m_state'[c] = m_state[c]
      /\ linked' = linked \cup {ctx[t]}
      /\ m_state'[ctx[t]] = BornState(ctx[t])
  BY LinkDoes
<1>2. ~Stopping(t) /\ ctx[t] \notin linked /\ Parent[ctx[t]] \in linked
  BY <1>1 DEF Stopping, Kin, ThreadKin, Creating
<1>3. ASSUME NEW c \in Contexts, ToEnd(c)' PROVE ToEnd(c)
  <2>1. CASE c # ctx[t]
    <3>1. c \in linked /\ Parent[c] # None
      BY <1>1, <1>3, <2>1 DEF ToEnd
    <3>2. Parent[c] \in linked /\ Parent[c] \in Contexts
      BY <3>1, ConstantsAssumption DEF Kin, ContextKin
    <3>3. m_state'[c] = m_state[c] /\ m_state'[Parent[c]] = m_state[Parent[c]]
      BY <1>1, <1>2, <2>1, <3>1, <3>2
    <3> QED BY <1>1, <1>3, <3>1, <3>3 DEF ToEnd, IsShutdown
  <2>2. CASE c = ctx[t]
    <3>1. Parent[c] \in Contexts /\ m_state'[Parent[c]] = m_state[Parent[c]]
      BY <1>1, <1>2, <2>2 DEF Typed, TypeOK
    <3>2. IsShutdown(Parent[c]) /\ m_state'[c] \notin {"Shutdown", "Abandoned"}
      BY <1>3, <3>1 DEF ToEnd, IsShutdown
    <3> QED BY <1>1, <2>2, <3>2 DEF BornState
  <2> QED BY <2>1, <2>2
<1>4. \A c \in Contexts : ~Ending(t, c)
  BY <1>2 DEF Ending
<1> QED BY <1>1, <1>3, <1>4, EndStep

\* Who shuts down a context is about to collect its children.
LEMMA ShutdownEnd ==
    ASSUME Typed, Typed', Kin, ChildrenEnd, NEW t \in Threads, Shutdown(t) PROVE ChildrenEnd'
<1>1. /\ Others(t) /\ ChildrenStay /\ UNCHANGED << m_children, linked, ctx >>
      /\ pc[t] \in {"shutdown", "signal"} /\ ctx[t] \in Contexts /\ stack[t] \in Seq(StopFrames)
  BY ShutdownDoes
<1>2. CASE IsShutdown(ctx[t]) /\ UNCHANGED << m_state, stack >>
           /\ pc'[t] = IF stack[t] # << >> THEN "kids" ELSE "idle"
  <2>1. \A c \in Contexts : ToEnd(c)' => ToEnd(c)
    BY <1>1, <1>2 DEF ToEnd, IsShutdown
  <2>2. ASSUME NEW c \in Contexts, ToEnd(c), Ending(t, c) PROVE Ending(t, c)'
    <3>1. c # ctx[t]
      BY <1>2, <2>2 DEF ToEnd
    <3>2. PICK f \in Range(stack[t]) : EndOf(f, c)
      BY <1>1, <2>2, <3>1 DEF Ending
    <3>3. pc'[t] = "kids"
      BY <1>2, <3>2, RangeEmpty
    <3>4. EndOf(f, c)'
      BY <1>1, <3>2 DEF EndOf
    <3> QED BY <1>2, <3>2, <3>3, <3>4 DEF Ending, Stopping
  <2> QED BY <1>1, <2>1, <2>2, EndStep
<1>3. ASSUME ~IsShutdown(ctx[t]), pc'[t] = "collect", m_state'[ctx[t]] \in {"Shutdown", "Abandoned"},
             \A c \in Contexts \ {ctx[t]} : m_state'[c] = m_state[c],
             NEW f \in StopFrames, f = [of |-> ctx[t], kids |-> {}, stops |-> ToStop(ctx[t])],
             stack'[t] = << f >> \o stack[t]
      PROVE  ChildrenEnd'
  <2>1. f.of = ctx[t]
    BY <1>3
  <2>2. Range(stack'[t]) = {f} \cup Range(stack[t]) /\ Head(stack'[t]) = f
    <3>1. f \in StopFrames /\ stack[t] \in Seq(StopFrames) /\ stack'[t] = << f >> \o stack[t]
      BY <1>1, <1>3
    <3>2. Range(<< f >> \o stack[t]) = {f} \cup Range(stack[t]) /\ Head(<< f >> \o stack[t]) = f
      BY ONLY <3>1, PushOf
    <3> QED BY ONLY <3>1, <3>2
  <2>3. Stopping(t)'
    BY <1>3 DEF Stopping
  <2>4. ASSUME NEW c \in Contexts, ToEnd(c)', ~ToEnd(c) PROVE Ending(t, c)'
    <3>1. c \in linked /\ Parent[c] # None /\ Parent[c] \in Contexts
      BY <1>1, <2>4, ConstantsAssumption DEF ToEnd
    <3>2. m_state'[c] \notin {"Shutdown", "Abandoned"} /\ m_state'[Parent[c]] \in {"Shutdown", "Abandoned"}
      BY <2>4 DEF ToEnd, IsShutdown
    <3>3. c # ctx[t] /\ m_state'[c] = m_state[c]
      BY <1>3, <3>2
    <3>4. Parent[c] = ctx[t]
      BY <1>3, <2>4, <3>1, <3>2, <3>3 DEF ToEnd, IsShutdown
    <3> QED BY <1>3, <2>1, <2>2, <2>3, <3>4 DEF Ending
  <2>5. ASSUME NEW c \in Contexts, ToEnd(c)', Ending(t, c) PROVE Ending(t, c)'
    <3>1. c # ctx[t]
      BY <1>3, <2>5 DEF ToEnd, IsShutdown
    <3>2. PICK g \in Range(stack[t]) : EndOf(g, c)
      BY <1>1, <2>5, <3>1 DEF Ending
    <3>3. EndOf(g, c)'
      BY <1>1, <3>2 DEF EndOf
    <3> QED BY <2>2, <2>3, <3>2, <3>3 DEF Ending
  <2> QED BY <1>1, <2>4, <2>5, EndStep
<1>4. \/ IsShutdown(ctx[t]) /\ UNCHANGED << m_state, stack >>
           /\ pc'[t] = IF stack[t] # << >> THEN "kids" ELSE "idle"
      \/ /\ ~IsShutdown(ctx[t]) /\ pc'[t] = "collect"
         /\ m_state'[ctx[t]] \in {"Shutdown", "Abandoned"}
         /\ \A c \in Contexts \ {ctx[t]} : m_state'[c] = m_state[c]
         /\ \E f \in StopFrames :
              /\ f = [of |-> ctx[t], kids |-> {}, stops |-> ToStop(ctx[t])]
              /\ stack'[t] = << f >> \o stack[t]
  BY ShutdownDoes
<1> QED BY <1>2, <1>3, <1>4

\* Steps of a shutdown that change no state.
LEMMA EndGoesOn ==
    ASSUME Typed, ChildrenEnd, NEW t \in Threads, Others(t), treeVars' = treeVars,
           \A c \in Contexts : ToEnd(c) /\ Ending(t, c) => Ending(t, c)'
    PROVE  ChildrenEnd'
<1>1. ChildrenStay /\ \A c \in Contexts : ToEnd(c)' => ToEnd(c)
  BY DEF treeVars, ChildrenStay, ToEnd, IsShutdown
<1> QED BY <1>1, EndStep

\* All children that are linked are collected; the others shut themselves down.
LEMMA CollectEnd ==
    ASSUME Typed, Kin, ChildrenEnd, NEW t \in Threads, Collect(t) PROVE ChildrenEnd'
<1>1. /\ Others(t) /\ treeVars' = treeVars /\ pc[t] = "collect" /\ pc'[t] = "kids"
      /\ stack[t] \in Seq(StopFrames) /\ stack[t] # << >>
      /\ \E f, e \in StopFrames :
           /\ f = Head(stack[t]) /\ stack'[t] = [stack[t] EXCEPT ![1] = e]
           /\ e = [of |-> f.of, stops |-> f.stops,
                   kids |-> { i \in DOMAIN m_children[f.of] : m_children[f.of][i] \in linked }]
  BY CollectDoes
<1>2. PICK f, e \in StopFrames :
           /\ f = Head(stack[t]) /\ stack'[t] = [stack[t] EXCEPT ![1] = e]
           /\ e = [of |-> f.of, stops |-> f.stops,
                   kids |-> { i \in DOMAIN m_children[f.of] : m_children[f.of][i] \in linked }]
  BY <1>1
<1>3. e.of = f.of /\ e.kids = { i \in DOMAIN m_children[f.of] : m_children[f.of][i] \in linked }
  BY <1>2
<1>4. Range(stack'[t]) = {e} \cup Range(Tail(stack[t])) /\ Range(stack[t]) = {f} \cup Range(Tail(stack[t]))
  <2>1. /\ stack[t] \in Seq(StopFrames) /\ stack[t] # << >> /\ e \in StopFrames
        /\ f = Head(stack[t]) /\ stack'[t] = [stack[t] EXCEPT ![1] = e]
    BY <1>1, <1>2
  <2> QED BY ONLY <2>1, PutIs
<1>5. m_children' = m_children /\ Stopping(t)'
  BY <1>1 DEF treeVars, Stopping
<1>6. ASSUME NEW c \in Contexts, ToEnd(c), Ending(t, c) PROVE Ending(t, c)'
  <2>1. CASE f.of = Parent[c]
    <3>1. c \in linked /\ Parent[c] # None
      BY <1>6 DEF ToEnd
    <3>2. PICK j \in DOMAIN m_children[Parent[c]] : m_children[Parent[c]][j] = c
      BY <3>1, ChildPlace
    <3>3. j \in e.kids
      BY <1>3, <2>1, <3>1, <3>2
    <3>4. EndOf(e, c)'
      BY <1>3, <1>5, <2>1, <3>2, <3>3 DEF EndOf
    <3> QED BY <1>4, <1>5, <3>4 DEF Ending
  <2>2. CASE f.of # Parent[c]
    <3>1. PICK g \in Range(stack[t]) : EndOf(g, c)
      BY <1>1, <1>2, <1>6, <2>2 DEF Ending
    <3>2. g \in Range(stack'[t])
      BY <1>4, <2>2, <3>1 DEF EndOf
    <3>3. EndOf(g, c)'
      BY <1>5, <3>1 DEF EndOf
    <3> QED BY <1>5, <3>2, <3>3 DEF Ending
  <2> QED BY <2>1, <2>2
<1> QED BY <1>1, <1>6, EndGoesOn

\* The child that is taken from the list is the next to be shut down.
LEMMA KidsEnd ==
    ASSUME Typed, Kin, ChildrenEnd, NEW t \in Threads, Kids(t) PROVE ChildrenEnd'
<1>1. /\ Others(t) /\ treeVars' = treeVars /\ pc[t] = "kids"
      /\ stack[t] \in Seq(StopFrames) /\ stack[t] # << >>
  BY KidsDoes
<1>2. PICK f \in StopFrames : f = Head(stack[t]) /\
        \/ f.kids = {} /\ pc'[t] = "stops" /\ UNCHANGED << stack, ctx >>
        \/ \E i \in f.kids : \E e \in StopFrames :
             /\ i \in DOMAIN m_children[f.of] /\ m_children[f.of][i] \in Contexts
             /\ e = [of |-> f.of, kids |-> f.kids \ {i}, stops |-> f.stops]
             /\ stack'[t] = [stack[t] EXCEPT ![1] = e]
             /\ ctx'[t] = m_children[f.of][i] /\ pc'[t] = "signal"
  BY KidsDoes
<1>3. m_children' = m_children
  BY <1>1 DEF treeVars
<1>4. ASSUME NEW c \in Contexts, Ending(t, c) PROVE \E g \in Range(stack[t]) : EndOf(g, c)
  BY <1>1, <1>4 DEF Ending
<1>5. CASE f.kids = {} /\ pc'[t] = "stops" /\ UNCHANGED << stack, ctx >>
  <2>1. ASSUME NEW c \in Contexts, Ending(t, c) PROVE Ending(t, c)'
    <3>1. PICK g \in Range(stack[t]) : EndOf(g, c)
      BY <1>4, <2>1
    <3>2. EndOf(g, c)'
      BY <1>3, <3>1 DEF EndOf
    <3> QED BY <1>5, <3>1, <3>2 DEF Ending, Stopping
  <2> QED BY <1>1, <2>1, EndGoesOn
<1>6. ASSUME NEW i \in f.kids, NEW e \in StopFrames,
             e = [of |-> f.of, kids |-> f.kids \ {i}, stops |-> f.stops],
             stack'[t] = [stack[t] EXCEPT ![1] = e],
             ctx'[t] = m_children[f.of][i], pc'[t] = "signal"
      PROVE  ChildrenEnd'
  <2>1. e.of = f.of /\ e.kids = f.kids \ {i}
    BY <1>6
  <2>2. Range(stack'[t]) = {e} \cup Range(Tail(stack[t])) /\ Range(stack[t]) = {f} \cup Range(Tail(stack[t]))
    <3>1. /\ stack[t] \in Seq(StopFrames) /\ stack[t] # << >> /\ e \in StopFrames
          /\ f = Head(stack[t]) /\ stack'[t] = [stack[t] EXCEPT ![1] = e]
      BY <1>1, <1>2, <1>6
    <3> QED BY ONLY <3>1, PutIs
  <2>3. Stopping(t)'
    BY <1>6 DEF Stopping
  <2>4. ASSUME NEW c \in Contexts, Ending(t, c) PROVE Ending(t, c)'
    <3>1. PICK g \in Range(stack[t]) : EndOf(g, c)
      BY <1>4, <2>4
    <3>2. CASE g \in Range(Tail(stack[t]))
      <4>1. EndOf(g, c)'
        BY <1>3, <3>1 DEF EndOf
      <4> QED BY <2>2, <2>3, <3>2, <4>1 DEF Ending
    <3>3. CASE g = f
      <4>1. PICK j \in f.kids : f.of = Parent[c] /\ m_children[Parent[c]][j] = c
        BY <3>1, <3>3 DEF EndOf
      <4>2. CASE j = i
        BY <1>6, <2>1, <2>2, <2>3, <4>1, <4>2 DEF Ending
      <4>3. CASE j # i
        <5>1. EndOf(e, c)'
          BY <1>3, <2>1, <4>1, <4>3 DEF EndOf
        <5> QED BY <2>2, <2>3, <5>1 DEF Ending
      <4> QED BY <4>2, <4>3
    <3> QED BY <2>2, <3>1, <3>2, <3>3
  <2> QED BY <1>1, <2>4, EndGoesOn
<1> QED BY <1>2, <1>5, <1>6

\* No child is left when the runnables are stopped.
LEMMA StopsEnd ==
    ASSUME Typed, Kin, ChildrenEnd, NEW t \in Threads, Stops(t) PROVE ChildrenEnd'
<1>1. /\ Others(t) /\ treeVars' = treeVars /\ pc[t] = "stops"
      /\ stack[t] \in Seq(StopFrames) /\ stack[t] # << >>
  BY StopsDoes
<1>2. PICK f \in StopFrames : f = Head(stack[t]) /\
        \/ /\ pc' = pc
           /\ \E e \in StopFrames :
                /\ e = [of |-> f.of, kids |-> f.kids, stops |-> Tail(f.stops)]
                /\ stack'[t] = [stack[t] EXCEPT ![1] = e]
        \/ /\ stack'[t] = Tail(stack[t])
           /\ \/ stack'[t] # << >> /\ pc'[t] = "kids"
              \/ stack'[t] = << >>
  BY StopsDoes
<1>3. m_children' = m_children /\ f.kids = {} /\ Range(stack[t]) = {f} \cup Range(Tail(stack[t]))
  BY <1>1, <1>2, TailOf DEF treeVars, Typed, Shaped
<1>4. ASSUME NEW c \in Contexts, Ending(t, c) PROVE \E g \in Range(Tail(stack[t])) : EndOf(g, c)
  BY <1>1, <1>3, <1>4 DEF Ending, EndOf
<1>5. ASSUME Stopping(t)' \/ Range(Tail(stack[t])) = {}, Range(Tail(stack[t])) \subseteq Range(stack'[t])
      PROVE  ChildrenEnd'
  <2>1. ASSUME NEW c \in Contexts, Ending(t, c) PROVE Ending(t, c)'
    <3>1. PICK g \in Range(Tail(stack[t])) : EndOf(g, c)
      BY <1>4, <2>1
    <3>2. EndOf(g, c)'
      BY <1>3, <3>1 DEF EndOf
    <3> QED BY <1>5, <3>1, <3>2 DEF Ending
  <2> QED BY <1>1, <2>1, EndGoesOn
<1>6. ASSUME pc' = pc, NEW e \in StopFrames, stack'[t] = [stack[t] EXCEPT ![1] = e] PROVE ChildrenEnd'
  <2>1. Range(stack'[t]) = {e} \cup Range(Tail(stack[t]))
    <3>1. /\ stack[t] \in Seq(StopFrames) /\ stack[t] # << >> /\ e \in StopFrames
          /\ stack'[t] = [stack[t] EXCEPT ![1] = e]
      BY <1>1, <1>6
    <3> QED BY ONLY <3>1, PutIs
  <2>2. Stopping(t)'
    BY <1>1, <1>6 DEF Stopping
  <2> QED BY <1>5, <2>1, <2>2
<1>7. CASE stack'[t] = Tail(stack[t]) /\ ((stack'[t] # << >> /\ pc'[t] = "kids") \/ stack'[t] = << >>)
  BY <1>5, <1>7, RangeEmpty DEF Stopping
<1> QED BY <1>2, <1>6, <1>7

\* The threads of runnables and the destructors change nothing of this.
LEMMA QuietEnd ==
    ASSUME ChildrenEnd, UNCHANGED << treeVars, pc, ctx, stack >> PROVE ChildrenEnd'
<1>1. UNCHANGED << m_state, linked, m_children >>
  BY DEF treeVars
<1>2. \A c \in Contexts : ToEnd(c)' => ToEnd(c)
  BY <1>1 DEF ToEnd, IsShutdown
<1>3. \A c \in Contexts, u \in Threads : Ending(u, c) => Ending(u, c)'
  BY <1>1 DEF Ending, Stopping, EndOf
<1> QED BY <1>2, <1>3 DEF ChildrenEnd

\* Every step keeps a thread on its way to the children of a context that was shut down.
LEMMA NextEnd ==
    ASSUME Typed, Typed', Kin, ChildrenEnd, [Next]_vars PROVE ChildrenEnd'
<1>1. ASSUME NEW t \in Threads, Call(t) \/ Step(t) PROVE ChildrenEnd'
  BY <1>1, AsideEnd, LinkEnd, InitiateEnd, TransitionEnd, ShutdownEnd, CollectEnd, KidsEnd, StopsEnd DEF Step
<1>2. ASSUME NEW r \in Runnables, RunnableEnds(r) PROVE ChildrenEnd'
  BY <1>2, RunnableEndsDoes, QuietEnd
<1>3. ASSUME NEW k \in Counters, Destroy(k) PROVE ChildrenEnd'
  BY <1>3, DestroyDoes, QuietEnd
<1>4. ASSUME UNCHANGED vars PROVE ChildrenEnd'
  BY <1>4, QuietEnd DEF vars, threadVars
<1> QED BY <1>1, <1>2, <1>3, <1>4 DEF Next

\* When all calls have returned, no context waits for its parent to come to run or to
\* be shut down (TryTransitionChildrenState and SignalShutdown pass no child by).
THEOREM ChildrenFollow == Spec => []TreeAgrees
<1> DEFINE Inv == Typed /\ Kin /\ ChildrenRun /\ ChildrenEnd
<1>1. Init => Inv
  <2> SUFFICES ASSUME Init PROVE Inv
    OBVIOUS
  <2>1. m_state = [c \in Contexts |-> "NotStarted"]
    BY DEF Init
  <2>2. \A c \in Contexts : ~ToRun(c) /\ ~ToEnd(c)
    BY <2>1, ConstantsAssumption DEF ToRun, ToEnd, IsRunning, IsShutdown
  <2> QED BY <2>2, InitTyped, InitKin DEF ChildrenRun, ChildrenEnd
<1>2. Inv /\ [Next]_vars => Inv'
  BY NextTyped, NextKin, NextRun, NextEnd
<1>3. Inv => TreeAgrees
  <2> SUFFICES ASSUME Inv, Calm, NEW c \in linked, Parent[c] # None
               PROVE  /\ IsRunning(Parent[c]) /\ c \notin unseen => m_state[c] \notin {"NotStarted", "Initiated"}
                      /\ IsShutdown(Parent[c]) => IsShutdown(c)
    BY DEF TreeAgrees
  <2>1. c \in Contexts
    BY DEF Typed, TypeOK
  <2>2. \A t \in Threads : ~Walked(t, c) /\ ~Ending(t, c)
    BY DEF Calm, Walked, Walking, Starting, Ending, Stopping
  <2>3. ~ToRun(c) /\ ~ToEnd(c)
    BY <2>1, <2>2 DEF ChildrenRun, ChildrenEnd
  <2> QED BY <2>3 DEF ToRun, ToEnd
<1> QED BY <1>1, <1>2, <1>3, PTL DEF Spec

-----------------------------------------------------------------------------
(* No runnable is missed *)

\* A runnable of a running context that has not been started, and the thread that is
\* going to start it.
Unstarted(c, r) == IsRunning(c) /\ r \in Range(m_threads[c]) /\ r \notin started \cup stop
Tended(t, c, r) == Starting(t) /\ ctx[t] = c /\ r \in Range(rest[t])

\* A runnable of a context that was shut down that has not been stopped, and the
\* thread that is going to stop it: who adds it, or who shuts down the context.
Unstopped(c, r) == IsShutdown(c) /\ r \in Range(m_threads[c]) /\ r \notin stop
StopsLeft(t, c, r) == Stopping(t) /\ \E f \in Range(stack[t]) : f.of = c /\ r \in Range(f.stops)
Doomed(t, c, r) == (Adding(t) /\ run[t] = r) \/ StopsLeft(t, c, r)

Placed     == \A c \in Contexts : \A r \in Range(m_threads[c]) : Of[r] = c
AllStarted == \A c \in Contexts, r \in Runnables : Unstarted(c, r) => \E t \in Threads : Tended(t, c, r)
AllStopped == \A c \in Contexts, r \in Runnables : Unstopped(c, r) => \E t \in Threads : Doomed(t, c, r)

\* The newest runnable of a context that is flagged is the one some thread adds, and
\* this thread has not looked at the state again.
Inserting(t) == Adding(t) /\ pc[t] # "addstop"
NewestAdded ==
    \A c \in Contexts : m_beforeRunning[c] => \E t \in Threads : Inserting(t) /\ run[t] = Head(m_threads[c])

NoneMissed == Placed /\ AllStarted /\ AllStopped /\ NewestAdded

\* A thread that does nothing is still going to start, to stop or to add its runnables.
LEMMA TendedStays ==
    ASSUME NEW t \in Threads, Others(t), NEW u \in Threads, u # t, NEW c, NEW r
    PROVE  /\ Tended(u, c, r) => Tended(u, c, r)'
           /\ Doomed(u, c, r) => Doomed(u, c, r)'
           /\ Inserting(u) => Inserting(u)' /\ run'[u] = run[u]
  BY DEF Others, Tended, Starting, Doomed, Adding, StopsLeft, Stopping, Inserting

\* What a step of t has to do.
LEMMA StartedStep ==
    ASSUME AllStarted, NEW t \in Threads, Others(t),
           \A c \in Contexts, r \in Runnables : Unstarted(c, r)' => Unstarted(c, r) \/ Tended(t, c, r)',
           \A c \in Contexts, r \in Runnables : Unstarted(c, r)' /\ Tended(t, c, r) => Tended(t, c, r)'
    PROVE  AllStarted'
<1> SUFFICES ASSUME NEW c \in Contexts, NEW r \in Runnables, Unstarted(c, r)', ~Tended(t, c, r)'
             PROVE  \E u \in Threads : Tended(u, c, r)'
  BY DEF AllStarted
<1>1. PICK u \in Threads : Tended(u, c, r)
  BY DEF AllStarted
<1>2. u # t
  BY <1>1
<1> QED BY <1>1, <1>2, TendedStays

\* The same for the runnables that are to be stopped.
LEMMA StoppedStep ==
    ASSUME AllStopped, NEW t \in Threads, Others(t),
           \A c \in Contexts, r \in Runnables :
               Unstopped(c, r)' => Unstopped(c, r) \/ \E u \in Threads : Doomed(u, c, r)',
           \A c \in Contexts, r \in Runnables : Unstopped(c, r)' /\ Doomed(t, c, r) => Doomed(t, c, r)'
    PROVE  AllStopped'
<1> SUFFICES ASSUME NEW c \in Contexts, NEW r \in Runnables, Unstopped(c, r)', Unstopped(c, r), ~Doomed(t, c, r)'
             PROVE  \E u \in Threads : Doomed(u, c, r)'
  BY DEF AllStopped
<1>1. PICK u \in Threads : Doomed(u, c, r)
  BY DEF AllStopped
<1>2. u # t
  BY <1>1
<1> QED BY <1>1, <1>2, TendedStays

\* The flag stays explained when the one who adds is not yet done.
LEMMA NewestStep ==
    ASSUME NewestAdded, NEW t \in Threads, Others(t), UNCHANGED << m_threads, m_beforeRunning >>,
           Inserting(t) => Inserting(t)' /\ run'[t] = run[t]
    PROVE  NewestAdded'
<1> SUFFICES ASSUME NEW c \in Contexts, m_beforeRunning[c]
             PROVE  \E u \in Threads : Inserting(u)' /\ run'[u] = Head(m_threads[c])
  BY DEF NewestAdded
<1>1. PICK u \in Threads : Inserting(u) /\ run[u] = Head(m_threads[c])
  BY DEF NewestAdded
<1>2. Inserting(u)' /\ run'[u] = run[u]
  BY <1>1, TendedStays
<1> QED BY <1>1, <1>2

\* Runnables stay in the list of their context.
LEMMA PlacedKept == ASSUME Placed, m_threads' = m_threads PROVE Placed'
  BY DEF Placed

\* The steps that leave the runnables alone, of threads that neither start nor stop any.
LEMMA MissedAside ==
    ASSUME Typed, NoneMissed, NEW t \in Threads, Others(t), UNCHANGED << m_threads, m_beforeRunning, started, stop >>,
           ~Starting(t), ~Adding(t), ~Stopping(t),
           \A c \in Contexts : Range(m_threads[c]) # {} =>
               (IsRunning(c)' => IsRunning(c)) /\ (IsShutdown(c)' => IsShutdown(c))
    PROVE  NoneMissed'
<1>1. \A c \in Contexts, r \in Runnables : Unstarted(c, r)' => Unstarted(c, r)
  BY DEF Unstarted
<1>2. \A c \in Contexts, r \in Runnables : Unstopped(c, r)' => Unstopped(c, r)
  BY DEF Unstopped
<1>3. \A c \in Contexts, r \in Runnables : ~Tended(t, c, r) /\ ~Doomed(t, c, r)
  BY DEF Tended, Doomed, StopsLeft
<1>4. ~Inserting(t)
  BY DEF Inserting
<1>5. Placed /\ AllStarted /\ AllStopped /\ NewestAdded
  BY DEF NoneMissed
<1>6. AllStarted'
  BY <1>1, <1>3, <1>5, StartedStep
<1>7. AllStopped'
  BY <1>2, <1>3, <1>5, StoppedStep
<1>8. NewestAdded'
  BY <1>4, <1>5, NewestStep
<1> QED BY <1>5, <1>6, <1>7, <1>8, PlacedKept DEF NoneMissed

\* Calls, reservations and the end of Wait touch no runnable.
LEMMA AsideMissed ==
    ASSUME Typed, Kin, NoneMissed, NEW t \in Threads, Call(t) \/ Create(t) \/ Await(t)
    PROVE  NoneMissed'
<1>1. CASE Call(t)
  <2>1. Others(t) /\ UNCHANGED << treeVars, runVars >> /\ pc[t] = "idle"
    BY <1>1, CallDoes
  <2> QED BY <2>1, MissedAside DEF treeVars, runVars, Starting, Adding, Stopping, IsRunning, IsShutdown
<1>2. CASE Create(t)
  <2>1. Others(t) /\ UNCHANGED << m_state, m_threads, m_beforeRunning, runVars >> /\ pc[t] = "create"
    BY <1>2, CreateDoes
  <2> QED BY <2>1, MissedAside DEF runVars, Starting, Adding, Stopping, IsRunning, IsShutdown
<1>3. CASE Await(t)
  <2>1. Others(t) /\ UNCHANGED << treeVars, runVars >> /\ pc[t] \in {"wait", "quiescent", "delay"}
    BY <1>3, AwaitDoes
  <2> QED BY <2>1, MissedAside DEF treeVars, runVars, Starting, Adding, Stopping, IsRunning, IsShutdown
<1> QED BY <1>1, <1>2, <1>3

\* A context has no runnables before it is linked.
LEMMA CreatingMissed ==
    ASSUME Typed, Kin, NoneMissed, NEW t \in Threads, Construct(t) \/ Link(t)
    PROVE  NoneMissed'
<1>1. /\ Others(t) /\ UNCHANGED << m_threads, m_beforeRunning, runVars >> /\ pc[t] \in {"construct", "link"}
      /\ ctx[t] \in Contexts /\ \A c \in Contexts \ {ctx[t]} : m_state'[c] = m_state[c]
  BY ConstructDoes, LinkDoes
<1>2. ctx[t] \notin linked
  BY <1>1 DEF Kin, ThreadKin, Creating
<1>3. Range(m_threads[ctx[t]]) = {}
  BY <1>1, <1>2, RangeEmpty DEF Kin, ContextKin
<1>4. \A c \in Contexts : Range(m_threads[c]) # {} => m_state'[c] = m_state[c]
  BY <1>1, <1>3
<1> QED BY <1>1, <1>4, MissedAside DEF runVars, Starting, Adding, Stopping, IsRunning, IsShutdown

\* Initiate takes over the whole list when the context comes to run.
LEMMA InitiateMissed ==
    ASSUME Typed, Typed', NoneMissed, NEW t \in Threads, Initiate(t) PROVE NoneMissed'
<1>1. /\ Others(t) /\ UNCHANGED << m_threads, m_beforeRunning, runVars, ctx >>
      /\ pc[t] = "initiate" /\ ctx[t] \in Contexts
      /\ \A c \in Contexts \ {ctx[t]} : m_state'[c] = m_state[c]
      /\ \/ m_state' = m_state
         \/ m_state'[ctx[t]] = "Initiated"
         \/ /\ m_state'[ctx[t]] = "Running"
            /\ rest'[t] = m_threads[ctx[t]] /\ (m_threads[ctx[t]] # << >> => pc'[t] = "count")
  BY InitiateDoes
<1>2. UNCHANGED << started, stop >> /\ ~Starting(t) /\ ~Adding(t) /\ ~Stopping(t)
  BY <1>1 DEF runVars, Starting, Adding, Stopping
<1>3. ASSUME NEW c \in Contexts, NEW r \in Runnables, Unstarted(c, r)', ~Unstarted(c, r)
      PROVE  Tended(t, c, r)'
  <2>1. m_state'[c] = "Running" /\ r \in Range(m_threads[c]) /\ m_state[c] # "Running"
    BY <1>1, <1>2, <1>3 DEF Unstarted, IsRunning
  <2>2. c = ctx[t] /\ rest'[t] = m_threads[c] /\ (m_threads[c] # << >> => pc'[t] = "count")
    BY <1>1, <2>1
  <2>3. m_threads[c] # << >>
    BY <2>1, RangeEmpty
  <2> QED BY <1>1, <2>1, <2>2, <2>3 DEF Tended, Starting
<1>4. \A c \in Contexts, r \in Runnables : Unstopped(c, r)' => Unstopped(c, r)
  BY <1>1, <1>2 DEF Unstopped, IsShutdown
<1>5. \A c \in Contexts, r \in Runnables : ~Tended(t, c, r) /\ ~Doomed(t, c, r)
  BY <1>2 DEF Tended, Doomed, StopsLeft
<1>6. Placed /\ AllStarted /\ AllStopped /\ NewestAdded
  BY DEF NoneMissed
<1>7. AllStarted'
  BY <1>1, <1>3, <1>5, <1>6, StartedStep
<1>8. AllStopped'
  BY <1>1, <1>4, <1>5, <1>6, StoppedStep
<1>9. NewestAdded'
  BY <1>1, <1>2, <1>6, NewestStep DEF Inserting
<1> QED BY <1>1, <1>6, <1>7, <1>8, <1>9, PlacedKept DEF NoneMissed

\* So does the transition of a child.
LEMMA TransitionMissed ==
    ASSUME Typed, Typed', NoneMissed, NEW t \in Threads, Transition(t) PROVE NoneMissed'
<1>1. /\ Others(t) /\ UNCHANGED << m_threads, m_beforeRunning, runVars >> /\ pc[t] = "children"
      /\ \E f \in WalkFrames : WalkEnds(t, f) \/ \E c \in Contexts : WalkOn(t, f, c)
  BY TransitionDoes
<1>2. \/ m_state' = m_state
      \/ \E n \in Contexts :
           /\ \A c \in Contexts \ {n} : m_state'[c] = m_state[c]
           /\ m_state'[n] = "Running" => \/ m_state[n] = "Running"
                                         \/ pc'[t] = "count" /\ ctx'[t] = n /\ rest'[t] = m_threads[n]
  BY <1>1 DEF WalkEnds, WalkOn, WalkSkips, WalkStarts, WalkTells
<1>3. UNCHANGED << started, stop >> /\ ~Starting(t) /\ ~Adding(t) /\ ~Stopping(t)
  BY <1>1 DEF runVars, Starting, Adding, Stopping
<1>4. ASSUME NEW c \in Contexts, NEW r \in Runnables, Unstarted(c, r)', ~Unstarted(c, r)
      PROVE  Tended(t, c, r)'
  <2>1. m_state'[c] = "Running" /\ r \in Range(m_threads[c]) /\ m_state[c] # "Running"
    BY <1>1, <1>3, <1>4 DEF Unstarted, IsRunning
  <2>2. pc'[t] = "count" /\ ctx'[t] = c /\ rest'[t] = m_threads[c]
    BY <1>2, <2>1
  <2> QED BY <2>1, <2>2 DEF Tended, Starting
<1>5. \A c \in Contexts, r \in Runnables : Unstopped(c, r)' => Unstopped(c, r)
  BY <1>1, <1>3, TransitionShuts DEF Unstopped
<1>6. \A c \in Contexts, r \in Runnables : ~Tended(t, c, r) /\ ~Doomed(t, c, r)
  BY <1>3 DEF Tended, Doomed, StopsLeft
<1>7. Placed /\ AllStarted /\ AllStopped /\ NewestAdded
  BY DEF NoneMissed
<1>8. AllStarted'
  BY <1>1, <1>4, <1>6, <1>7, StartedStep
<1>9. AllStopped'
  BY <1>1, <1>5, <1>6, <1>7, StoppedStep
<1>10. NewestAdded'
  BY <1>1, <1>3, <1>7, NewestStep DEF Inserting
<1> QED BY <1>1, <1>7, <1>8, <1>9, <1>10, PlacedKept DEF NoneMissed

\* The steps that leave the states and the lists alone.
LEMMA MissedGoesOn ==
    ASSUME NoneMissed, NEW t \in Threads, Others(t), treeVars' = treeVars,
           started \subseteq started', stop \subseteq stop',
           \A c \in Contexts, r \in Runnables : Unstarted(c, r)' /\ Tended(t, c, r) => Tended(t, c, r)',
           \A c \in Contexts, r \in Runnables : Unstopped(c, r)' /\ Doomed(t, c, r) => Doomed(t, c, r)',
           Inserting(t) => Inserting(t)' /\ run'[t] = run[t]
    PROVE  NoneMissed'
<1>1. UNCHANGED << m_state, m_threads, m_beforeRunning >>
  BY DEF treeVars
<1>2. \A c \in Contexts, r \in Runnables : Unstarted(c, r)' => Unstarted(c, r)
  BY <1>1 DEF Unstarted, IsRunning
<1>3. \A c \in Contexts, r \in Runnables : Unstopped(c, r)' => Unstopped(c, r)
  BY <1>1 DEF Unstopped, IsShutdown
<1>4. Placed /\ AllStarted /\ AllStopped /\ NewestAdded
  BY DEF NoneMissed
<1>5. AllStarted'
  BY <1>2, <1>4, StartedStep
<1>6. AllStopped'
  BY <1>3, <1>4, StoppedStep
<1>7. NewestAdded'
  BY <1>1, <1>4, NewestStep
<1> QED BY <1>1, <1>4, <1>5, <1>6, <1>7, PlacedKept DEF NoneMissed

\* Taking a counter loses no runnable.
LEMMA CountMissed ==
    ASSUME Typed, NoneMissed, NEW t \in Threads, Count(t) PROVE NoneMissed'
<1>1. /\ Others(t) /\ UNCHANGED << treeVars, runVars, ctx, run, rest >>
      /\ pc[t] = "count" /\ pc'[t] = "start"
  BY CountDoes
<1>2. treeVars' = treeVars /\ started' = started /\ stop' = stop
  BY <1>1 DEF runVars
<1>3. \A c \in Contexts, r \in Runnables : Tended(t, c, r) => Tended(t, c, r)'
  BY <1>1 DEF Tended, Starting
<1>4. \A c \in Contexts, r \in Runnables : Doomed(t, c, r) => Doomed(t, c, r)'
  BY <1>1 DEF Doomed, Adding, Starting, StopsLeft, Stopping
<1>5. Inserting(t) => Inserting(t)' /\ run'[t] = run[t]
  BY <1>1 DEF Inserting, Adding, Starting
<1> QED BY <1>1, <1>2, <1>3, <1>4, <1>5, MissedGoesOn

\* The next runnable is started, unless it was stopped.
LEMMA StartNextMissed ==
    ASSUME Typed, NoneMissed, NEW t \in Threads, StartNext(t) PROVE NoneMissed'
<1>1. /\ Others(t) /\ UNCHANGED << treeVars, pc, ctx, run, stack >>
      /\ pc[t] = "start" /\ rest[t] \in Seq(Runnables) /\ rest[t] # << >>
      /\ rest'[t] = Tail(rest[t]) /\ started \subseteq started' /\ stop \subseteq stop'
      /\ Head(rest[t]) \in started' \cup stop'
  BY StartNextDoes
<1>2. Range(rest[t]) = {Head(rest[t])} \cup Range(rest'[t])
  BY <1>1, TailOf
<1>3. ASSUME NEW c \in Contexts, NEW r \in Runnables, Unstarted(c, r)', Tended(t, c, r)
      PROVE  Tended(t, c, r)'
  <2>1. r # Head(rest[t])
    BY <1>1, <1>3 DEF Unstarted
  <2>2. r \in Range(rest'[t])
    BY <1>2, <1>3, <2>1 DEF Tended
  <2> QED BY <1>1, <1>3, <2>2 DEF Tended, Starting
<1>4. \A c \in Contexts, r \in Runnables : Doomed(t, c, r) => Doomed(t, c, r)'
  BY <1>1 DEF Doomed, Adding, Starting, StopsLeft, Stopping
<1>5. Inserting(t) => Inserting(t)' /\ run'[t] = run[t]
  BY <1>1 DEF Inserting, Adding, Starting
<1> QED BY <1>1, <1>3, <1>4, <1>5, MissedGoesOn

\* Who has started all has none left.
LEMMA StartedMissed ==
    ASSUME Typed, NoneMissed, NEW t \in Threads, Started(t) PROVE NoneMissed'
<1>1. /\ Others(t) /\ UNCHANGED << treeVars, runVars, ctx, run >>
      /\ pc[t] = "start" /\ rest[t] = << >> /\ (run[t] # None => pc'[t] = "added")
  BY StartedDoes
<1>2. treeVars' = treeVars /\ started' = started /\ stop' = stop
  BY <1>1 DEF runVars
<1>3. \A c \in Contexts, r \in Runnables : ~Tended(t, c, r)
  BY <1>1, RangeEmpty DEF Tended
<1>4. Adding(t) => run[t] # None
  BY <1>1 DEF Adding
<1>5. \A c \in Contexts, r \in Runnables : Doomed(t, c, r) => Doomed(t, c, r)'
  BY <1>1, <1>4 DEF Doomed, Adding, Starting, StopsLeft, Stopping
<1>6. Inserting(t) => Inserting(t)' /\ run'[t] = run[t]
  BY <1>1, <1>4 DEF Inserting, Adding, Starting
<1> QED BY <1>1, <1>2, <1>3, <1>5, <1>6, MissedGoesOn

\* Who adds a runnable starts it if the context runs, and will look at the state again.
LEMMA AddMissed ==
    ASSUME Typed, Typed', NoneMissed, NEW t \in Threads, Add(t) PROVE NoneMissed'
<1>1. /\ Others(t) /\ UNCHANGED << m_state, runVars, ctx, run >>
      /\ pc[t] = "add" /\ ctx[t] \in Contexts /\ run[t] \in Runnables /\ Of[run[t]] = ctx[t]
      /\ m_threads'[ctx[t]] = << run[t] >> \o m_threads[ctx[t]]
      /\ \A c \in Contexts \ {ctx[t]} : /\ m_threads'[c] = m_threads[c]
                                        /\ m_beforeRunning'[c] = m_beforeRunning[c]
      /\ \/ IsRunning(ctx[t]) /\ pc'[t] = "count" /\ rest'[t] = << run[t] >>
         \/ ~IsRunning(ctx[t]) /\ pc'[t] = "added"
  BY AddDoes
<1>2. Range(m_threads'[ctx[t]]) = {run[t]} \cup Range(m_threads[ctx[t]]) /\ Head(m_threads'[ctx[t]]) = run[t]
  <2>1. m_threads[ctx[t]] \in Seq(Runnables)
    BY <1>1 DEF Typed, TypeOK
  <2> QED BY <1>1, <2>1, PushOf
<1>3. ~Starting(t) /\ ~Adding(t) /\ ~Stopping(t) /\ started' = started /\ stop' = stop
  BY <1>1 DEF Starting, Adding, Stopping, runVars
<1>4. Placed /\ AllStarted /\ AllStopped /\ NewestAdded
  BY DEF NoneMissed
<1>5. \A c \in Contexts, r \in Runnables : ~Tended(t, c, r) /\ ~Doomed(t, c, r)
  BY <1>3 DEF Tended, Doomed, StopsLeft
<1>6. Inserting(t)' /\ run'[t] = run[t]
  <2>1. run[t] # None
    BY <1>1, ConstantsAssumption
  <2> QED BY <1>1, <2>1 DEF Inserting, Adding, Starting
<1>7. ASSUME NEW c \in Contexts, NEW r \in Runnables, Unstarted(c, r)', ~Unstarted(c, r)
      PROVE  Tended(t, c, r)'
  <2>1. m_state[c] = "Running" /\ r \in Range(m_threads'[c]) /\ r \notin Range(m_threads[c])
    BY <1>1, <1>3, <1>7 DEF Unstarted, IsRunning
  <2>2. c = ctx[t] /\ r = run[t]
    BY <1>1, <1>2, <2>1
  <2>3. pc'[t] = "count" /\ rest'[t] = << r >>
    BY <1>1, <2>1, <2>2 DEF IsRunning
  <2>4. r \in Range(rest'[t])
    <3>1. 1 \in DOMAIN << r >> /\ << r >>[1] = r
      OBVIOUS
    <3> QED BY <2>3, <3>1 DEF Range
  <2> QED BY <1>1, <2>2, <2>3, <2>4 DEF Tended, Starting
<1>8. ASSUME NEW c \in Contexts, NEW r \in Runnables, Unstopped(c, r)', ~Unstopped(c, r)
      PROVE  Doomed(t, c, r)'
  <2>1. r \in Range(m_threads'[c]) /\ r \notin Range(m_threads[c])
    BY <1>1, <1>3, <1>8 DEF Unstopped, IsShutdown
  <2>2. r = run[t]
    BY <1>1, <1>2, <2>1
  <2> QED BY <1>6, <2>2 DEF Doomed, Inserting
<1>9. AllStarted'
  BY <1>1, <1>4, <1>5, <1>7, StartedStep
<1>10. AllStopped'
  BY <1>1, <1>4, <1>5, <1>8, StoppedStep
<1>11. NewestAdded'
  <2> SUFFICES ASSUME NEW c \in Contexts, m_beforeRunning'[c]
               PROVE  \E u \in Threads : Inserting(u)' /\ run'[u] = Head(m_threads'[c])
    BY DEF NewestAdded
  <2>1. CASE c = ctx[t]
    BY <1>2, <1>6, <2>1
  <2>2. CASE c # ctx[t]
    <3>1. PICK u \in Threads : Inserting(u) /\ run[u] = Head(m_threads[c])
      BY <1>1, <1>4, <2>2 DEF NewestAdded
    <3>2. u # t
      BY <1>3, <3>1 DEF Inserting
    <3>3. Inserting(u)' /\ run'[u] = run[u]
      BY <1>1, <3>1, <3>2, TendedStays
    <3> QED BY <1>1, <2>2, <3>1, <3>3
  <2> QED BY <2>1, <2>2
<1>12. Placed'
  BY <1>1, <1>2, <1>4 DEF Placed
<1> QED BY <1>9, <1>10, <1>11, <1>12 DEF NoneMissed

\* Who looks again sees a shutdown that may have passed the runnable by.
LEMMA AddedMissed ==
    ASSUME Typed, NoneMissed, NEW t \in Threads, Added(t) PROVE NoneMissed'
<1>1. /\ Others(t) /\ UNCHANGED << m_state, m_threads, runVars, ctx, run >>
      /\ pc[t] = "added" /\ ctx[t] \in Contexts /\ run[t] \in Runnables /\ Of[run[t]] = ctx[t]
      /\ m_beforeRunning'[ctx[t]] = FALSE
      /\ \A c \in Contexts \ {ctx[t]} : m_beforeRunning'[c] = m_beforeRunning[c]
      /\ IsShutdown(ctx[t]) => pc'[t] = "addstop"
  BY AddedDoes
<1>2. ~Starting(t) /\ ~Stopping(t) /\ started' = started /\ stop' = stop
  BY <1>1 DEF Starting, Stopping, runVars
<1>3. Placed /\ AllStarted /\ AllStopped /\ NewestAdded
  BY DEF NoneMissed
<1>4. \A c \in Contexts, r \in Runnables : /\ Unstarted(c, r)' => Unstarted(c, r)
                                           /\ Unstopped(c, r)' => Unstopped(c, r)
  BY <1>1, <1>2 DEF Unstarted, Unstopped, IsRunning, IsShutdown
<1>5. \A c \in Contexts, r \in Runnables : ~Tended(t, c, r)
  BY <1>2 DEF Tended
<1>6. ASSUME NEW c \in Contexts, NEW r \in Runnables, Unstopped(c, r)', Doomed(t, c, r)
      PROVE  Doomed(t, c, r)'
  <2>1. run[t] = r
    BY <1>2, <1>6 DEF Doomed, StopsLeft
  <2>2. c = ctx[t] /\ IsShutdown(c)
    BY <1>1, <1>3, <1>4, <1>6, <2>1 DEF Placed, Unstopped
  <2> QED BY <1>1, <2>1, <2>2 DEF Doomed, Adding
<1>7. AllStarted'
  BY <1>1, <1>3, <1>4, <1>5, StartedStep
<1>8. AllStopped'
  BY <1>1, <1>3, <1>4, <1>6, StoppedStep
<1>9. NewestAdded'
  <2> SUFFICES ASSUME NEW c \in Contexts, m_beforeRunning'[c]
               PROVE  \E u \in Threads : Inserting(u)' /\ run'[u] = Head(m_threads[c])
    BY <1>1 DEF NewestAdded
  <2>1. c # ctx[t] /\ m_beforeRunning[c]
    BY <1>1
  <2>2. PICK u \in Threads : Inserting(u) /\ run[u] = Head(m_threads[c])
    BY <1>3, <2>1 DEF NewestAdded
  <2>3. Head(m_threads[c]) \in Range(m_threads[c])
    <3>1. m_threads[c] \in Seq(Runnables) /\ m_threads[c] # << >>
      BY <2>1 DEF Typed, TypeOK, Flagged
    <3> QED BY <3>1, TailOf
  <2>4. u # t
    BY <1>1, <1>3, <2>1, <2>2, <2>3 DEF Placed
  <2>5. Inserting(u)' /\ run'[u] = run[u]
    BY <1>1, <2>2, <2>4, TendedStays
  <2> QED BY <2>2, <2>5
<1> QED BY <1>1, <1>3, <1>7, <1>8, <1>9, PlacedKept DEF NoneMissed

\* And stops the runnable.
LEMMA AddedStopMissed ==
    ASSUME Typed, NoneMissed, NEW t \in Threads, AddedStop(t) PROVE NoneMissed'
<1>1. /\ Others(t) /\ treeVars' = treeVars /\ started' = started /\ run' = run
      /\ pc[t] = "addstop" /\ stop' = stop \cup {run[t]}
  BY AddedStopDoes
<1>2. ~Starting(t) /\ ~Stopping(t) /\ ~Inserting(t)
  BY <1>1 DEF Starting, Stopping, Inserting
<1>3. \A c \in Contexts, r \in Runnables : ~Tended(t, c, r)
  BY <1>2 DEF Tended
<1>4. \A c \in Contexts, r \in Runnables : Doomed(t, c, r) => ~Unstopped(c, r)'
  BY <1>1, <1>2 DEF Doomed, StopsLeft, Unstopped
<1> QED BY <1>1, <1>2, <1>3, <1>4, MissedGoesOn

\* SignalShutdown takes over all runnables but the one of a thread that will look again.
LEMMA ShutdownMissed ==
    ASSUME Typed, Typed', NoneMissed, NEW t \in Threads, Shutdown(t) PROVE NoneMissed'
<1>1. /\ Others(t) /\ UNCHANGED << m_threads, m_beforeRunning, runVars, ctx, run >>
      /\ pc[t] \in {"shutdown", "signal"} /\ ctx[t] \in Contexts /\ stack[t] \in Seq(StopFrames)
  BY ShutdownDoes
<1>2. ~Starting(t) /\ ~Adding(t) /\ ~Inserting(t) /\ started' = started /\ stop' = stop
  BY <1>1 DEF Starting, Adding, Inserting, runVars
<1>3. Placed /\ AllStarted /\ AllStopped /\ NewestAdded
  BY DEF NoneMissed
<1>4. \A c \in Contexts, r \in Runnables : ~Tended(t, c, r)
  BY <1>2 DEF Tended
<1>5. Placed' /\ NewestAdded'
  BY <1>1, <1>2, <1>3, NewestStep, PlacedKept
<1>6. CASE UNCHANGED << m_state, stack >> /\ pc'[t] = IF stack[t] # << >> THEN "kids" ELSE "idle"
  <2>1. \A c \in Contexts, r \in Runnables : /\ Unstarted(c, r)' => Unstarted(c, r)
                                             /\ Unstopped(c, r)' => Unstopped(c, r)
    BY <1>1, <1>2, <1>6 DEF Unstarted, Unstopped, IsRunning, IsShutdown
  <2>2. ASSUME NEW c \in Contexts, NEW r \in Runnables, Doomed(t, c, r) PROVE Doomed(t, c, r)'
    <3>1. PICK f \in Range(stack[t]) : f.of = c /\ r \in Range(f.stops)
      BY <1>2, <2>2 DEF Doomed, StopsLeft
    <3>2. pc'[t] = "kids"
      BY <1>6, <3>1, RangeEmpty
    <3> QED BY <1>6, <3>1, <3>2 DEF Doomed, StopsLeft, Stopping
  <2>3. AllStarted'
    BY <1>1, <1>3, <1>4, <2>1, StartedStep
  <2>4. AllStopped'
    BY <1>1, <1>3, <2>1, <2>2, StoppedStep
  <2> QED BY <1>5, <2>3, <2>4 DEF NoneMissed
<1>7. ASSUME pc'[t] = "collect", m_state'[ctx[t]] \in {"Shutdown", "Abandoned"},
             \A c \in Contexts \ {ctx[t]} : m_state'[c] = m_state[c],
             NEW f \in StopFrames, f = [of |-> ctx[t], kids |-> {}, stops |-> ToStop(ctx[t])],
             stack'[t] = << f >> \o stack[t]
      PROVE  NoneMissed'
  <2>1. f.of = ctx[t] /\ f.stops = ToStop(ctx[t])
    BY <1>7
  <2>2. Range(stack'[t]) = {f} \cup Range(stack[t])
    <3>1. f \in StopFrames /\ stack[t] \in Seq(StopFrames) /\ stack'[t] = << f >> \o stack[t]
      BY <1>1, <1>7
    <3>2. Range(<< f >> \o stack[t]) = {f} \cup Range(stack[t])
      BY ONLY <3>1, PushOf
    <3> QED BY ONLY <3>1, <3>2
  <2>3. Stopping(t)'
    BY <1>7 DEF Stopping
  <2>4. \A c \in Contexts, r \in Runnables : Unstarted(c, r)' => Unstarted(c, r)
    BY <1>1, <1>2, <1>7 DEF Unstarted, IsRunning
  <2>5. ASSUME NEW c \in Contexts, NEW r \in Runnables, Unstopped(c, r)', ~Unstopped(c, r)
        PROVE  \E u \in Threads : Doomed(u, c, r)'
    <3>1. r \in Range(m_threads[c]) /\ c = ctx[t]
      BY <1>1, <1>2, <1>7, <2>5 DEF Unstopped, IsShutdown
    <3>2. CASE r \in Range(ToStop(c))
      BY <2>1, <2>2, <2>3, <3>1, <3>2 DEF Doomed, StopsLeft
    <3>3. CASE m_beforeRunning[c] /\ r = Head(m_threads[c])
      <4>1. PICK u \in Threads : Inserting(u) /\ run[u] = r
        BY <1>3, <3>3 DEF NewestAdded
      <4>2. u # t
        BY <1>2, <4>1
      <4>3. Doomed(u, c, r)
        BY <4>1 DEF Inserting, Doomed
      <4> QED BY <1>1, <4>2, <4>3, TendedStays
    <3> QED BY <3>1, <3>2, <3>3, ToStopType
  <2>6. ASSUME NEW c \in Contexts, NEW r \in Runnables, Doomed(t, c, r) PROVE Doomed(t, c, r)'
    <3>1. PICK g \in Range(stack[t]) : g.of = c /\ r \in Range(g.stops)
      BY <1>2, <2>6 DEF Doomed, StopsLeft
    <3> QED BY <2>2, <2>3, <3>1 DEF Doomed, StopsLeft
  <2>7. AllStarted'
    BY <1>1, <1>3, <1>4, <2>4, StartedStep
  <2>8. AllStopped'
    BY <1>1, <1>3, <2>5, <2>6, StoppedStep
  <2> QED BY <1>5, <2>7, <2>8 DEF NoneMissed
<1>8. \/ UNCHANGED << m_state, stack >> /\ pc'[t] = IF stack[t] # << >> THEN "kids" ELSE "idle"
      \/ /\ pc'[t] = "collect" /\ m_state'[ctx[t]] \in {"Shutdown", "Abandoned"}
         /\ \A c \in Contexts \ {ctx[t]} : m_state'[c] = m_state[c]
         /\ \E f \in StopFrames :
              /\ f = [of |-> ctx[t], kids |-> {}, stops |-> ToStop(ctx[t])]
              /\ stack'[t] = << f >> \o stack[t]
  BY ShutdownDoes
<1> QED BY <1>6, <1>7, <1>8

\* The steps of a shutdown after the first critical section: what is on the stack
\* keeps the runnables that are still to be stopped.
LEMMA StoppingGoesOn ==
    ASSUME Typed, NoneMissed, NEW t \in Threads, Others(t), treeVars' = treeVars, started' = started,
           stop \subseteq stop', Stopping(t),
           \A f \in Range(stack[t]) : \A r \in Range(f.stops) :
               \/ r \in stop'
               \/ Stopping(t)' /\ \E e \in Range(stack'[t]) : e.of = f.of /\ r \in Range(e.stops)
    PROVE  NoneMissed'
<1>1. ~Starting(t) /\ ~Adding(t) /\ ~Inserting(t)
  BY DEF Starting, Adding, Inserting, Stopping
<1>2. \A c \in Contexts, r \in Runnables : ~Tended(t, c, r)
  BY <1>1 DEF Tended
<1>3. ASSUME NEW c \in Contexts, NEW r \in Runnables, Unstopped(c, r)', Doomed(t, c, r) PROVE Doomed(t, c, r)'
  <2>1. PICK f \in Range(stack[t]) : f.of = c /\ r \in Range(f.stops)
    BY <1>1, <1>3 DEF Doomed, StopsLeft
  <2>2. r \notin stop'
    BY <1>3 DEF Unstopped
  <2>3. Stopping(t)' /\ \E e \in Range(stack'[t]) : e.of = c /\ r \in Range(e.stops)
    BY <2>1, <2>2
  <2> QED BY <2>3 DEF Doomed, StopsLeft
<1> QED BY <1>1, <1>2, <1>3, MissedGoesOn

\* Collecting the children loses no runnable.
LEMMA CollectMissed ==
    ASSUME Typed, NoneMissed, NEW t \in Threads, Collect(t) PROVE NoneMissed'
<1>1. /\ Others(t) /\ treeVars' = treeVars /\ UNCHANGED << runVars >> /\ pc[t] = "collect" /\ pc'[t] = "kids"
      /\ stack[t] \in Seq(StopFrames) /\ stack[t] # << >>
  BY CollectDoes
<1>2. PICK f, e \in StopFrames :
        /\ f = Head(stack[t]) /\ stack'[t] = [stack[t] EXCEPT ![1] = e] /\ e.of = f.of /\ e.stops = f.stops
  <2>1. PICK f, e \in StopFrames :
          /\ f = Head(stack[t]) /\ stack'[t] = [stack[t] EXCEPT ![1] = e]
          /\ e = [of |-> f.of, stops |-> f.stops,
                  kids |-> { i \in DOMAIN m_children[f.of] : m_children[f.of][i] \in linked }]
    BY CollectDoes
  <2>2. e.of = f.of /\ e.stops = f.stops
    BY <2>1
  <2> QED BY <2>1, <2>2
<1>3. Range(stack'[t]) = {e} \cup Range(Tail(stack[t])) /\ Range(stack[t]) = {f} \cup Range(Tail(stack[t]))
  BY ONLY <1>1, <1>2, PutIs
<1>4. Stopping(t) /\ Stopping(t)' /\ started' = started /\ stop' = stop
  BY <1>1 DEF Stopping, runVars
<1> QED BY <1>1, <1>2, <1>3, <1>4, StoppingGoesOn

\* The recursion into the children loses none.
LEMMA KidsMissed ==
    ASSUME Typed, NoneMissed, NEW t \in Threads, Kids(t) PROVE NoneMissed'
<1>1. /\ Others(t) /\ treeVars' = treeVars /\ UNCHANGED << runVars >> /\ pc[t] = "kids"
      /\ stack[t] \in Seq(StopFrames) /\ stack[t] # << >>
  BY KidsDoes
<1>2. PICK f \in StopFrames : f = Head(stack[t]) /\
        \/ f.kids = {} /\ pc'[t] = "stops" /\ UNCHANGED << stack, ctx >>
        \/ \E i \in f.kids : \E e \in StopFrames :
             /\ i \in DOMAIN m_children[f.of] /\ m_children[f.of][i] \in Contexts
             /\ e = [of |-> f.of, kids |-> f.kids \ {i}, stops |-> f.stops]
             /\ stack'[t] = [stack[t] EXCEPT ![1] = e]
             /\ ctx'[t] = m_children[f.of][i] /\ pc'[t] = "signal"
  BY KidsDoes
<1>3. Stopping(t) /\ started' = started /\ stop' = stop
  BY <1>1 DEF Stopping, runVars
<1>4. CASE pc'[t] = "stops" /\ UNCHANGED << stack, ctx >>
  BY <1>1, <1>3, <1>4, StoppingGoesOn DEF Stopping
<1>5. ASSUME NEW i \in f.kids, NEW e \in StopFrames,
             e = [of |-> f.of, kids |-> f.kids \ {i}, stops |-> f.stops],
             stack'[t] = [stack[t] EXCEPT ![1] = e], pc'[t] = "signal"
      PROVE  NoneMissed'
  <2>1. e.of = f.of /\ e.stops = f.stops
    BY <1>5
  <2>2. Range(stack'[t]) = {e} \cup Range(Tail(stack[t])) /\ Range(stack[t]) = {f} \cup Range(Tail(stack[t]))
    <3>1. /\ stack[t] \in Seq(StopFrames) /\ stack[t] # << >> /\ e \in StopFrames
          /\ f = Head(stack[t]) /\ stack'[t] = [stack[t] EXCEPT ![1] = e]
      BY <1>1, <1>2, <1>5
    <3> QED BY ONLY <3>1, PutIs
  <2>3. Stopping(t)'
    BY <1>5 DEF Stopping
  <2> QED BY <1>1, <1>3, <2>1, <2>2, <2>3, StoppingGoesOn
<1> QED BY <1>2, <1>4, <1>5

\* The next runnable is stopped; a frame that is left has none.
LEMMA StopsMissed ==
    ASSUME Typed, NoneMissed, NEW t \in Threads, Stops(t) PROVE NoneMissed'
<1>1. /\ Others(t) /\ treeVars' = treeVars /\ started' = started /\ pc[t] = "stops"
      /\ stack[t] \in Seq(StopFrames) /\ stack[t] # << >>
  BY StopsDoes
<1>2. PICK f \in StopFrames : f = Head(stack[t]) /\
        \/ /\ f.stops # << >> /\ stop' = stop \cup {Head(f.stops)} /\ pc' = pc
           /\ \E e \in StopFrames :
                /\ e.of = f.of /\ e.stops = Tail(f.stops)
                /\ stack'[t] = [stack[t] EXCEPT ![1] = e]
        \/ /\ f.stops = << >> /\ stop' = stop /\ stack'[t] = Tail(stack[t])
           /\ \/ stack'[t] # << >> /\ pc'[t] = "kids"
              \/ stack'[t] = << >>
  <2>1. PICK f \in StopFrames : f = Head(stack[t]) /\
          \/ /\ f.stops # << >> /\ stop' = stop \cup {Head(f.stops)} /\ pc' = pc
             /\ \E e \in StopFrames :
                  /\ e = [of |-> f.of, kids |-> f.kids, stops |-> Tail(f.stops)]
                  /\ stack'[t] = [stack[t] EXCEPT ![1] = e]
          \/ /\ f.stops = << >> /\ stop' = stop /\ stack'[t] = Tail(stack[t])
             /\ \/ stack'[t] # << >> /\ pc'[t] = "kids"
                \/ stack'[t] = << >>
    BY StopsDoes
  <2> QED BY <2>1
<1>3. Stopping(t) /\ Range(stack[t]) = {f} \cup Range(Tail(stack[t])) /\ f.stops \in Seq(Runnables)
  BY <1>1, <1>2, TailOf DEF Stopping, StopFrames
<1>4. ASSUME f.stops # << >>, stop' = stop \cup {Head(f.stops)}, pc' = pc,
             NEW e \in StopFrames, e.of = f.of, e.stops = Tail(f.stops),
             stack'[t] = [stack[t] EXCEPT ![1] = e]
      PROVE  NoneMissed'
  <2>1. Range(stack'[t]) = {e} \cup Range(Tail(stack[t]))
    BY ONLY <1>1, <1>4, PutIs
  <2>2. Stopping(t)' /\ stop \subseteq stop'
    BY <1>1, <1>4 DEF Stopping
  <2>3. Range(f.stops) = {Head(f.stops)} \cup Range(e.stops)
    BY <1>3, <1>4, TailOf
  <2>4. \A g \in Range(stack[t]) : \A r \in Range(g.stops) :
            r \in stop' \/ \E d \in Range(stack'[t]) : d.of = g.of /\ r \in Range(d.stops)
    BY <1>3, <1>4, <2>1, <2>3
  <2> QED BY <1>1, <1>3, <2>2, <2>4, StoppingGoesOn
<1>5. CASE /\ f.stops = << >> /\ stop' = stop /\ stack'[t] = Tail(stack[t])
           /\ \/ stack'[t] # << >> /\ pc'[t] = "kids"
              \/ stack'[t] = << >>
  <2>1. \A g \in Range(stack[t]) : \A r \in Range(g.stops) : g \in Range(stack'[t]) /\ Stopping(t)'
    BY <1>3, <1>5, RangeEmpty DEF Stopping
  <2> QED BY <1>1, <1>3, <1>5, <2>1, StoppingGoesOn
<1> QED BY <1>2, <1>4, <1>5

\* The threads of runnables and the destructors change nothing of this.
LEMMA QuietMissed ==
    ASSUME NoneMissed, UNCHANGED << treeVars, started, pc, ctx, run, rest, stack >>, stop \subseteq stop'
    PROVE  NoneMissed'
<1>1. UNCHANGED << m_state, m_threads, m_beforeRunning >>
  BY DEF treeVars
<1>2. \A c \in Contexts, r \in Runnables : /\ Unstarted(c, r)' => Unstarted(c, r)
                                           /\ Unstopped(c, r)' => Unstopped(c, r)
  BY <1>1 DEF Unstarted, Unstopped, IsRunning, IsShutdown
<1>3. \A t \in Threads, c \in Contexts, r \in Runnables :
         (Tended(t, c, r) => Tended(t, c, r)') /\ (Doomed(t, c, r) => Doomed(t, c, r)')
  BY DEF Tended, Starting, Doomed, Adding, StopsLeft, Stopping
<1>4. \A t \in Threads : Inserting(t) => Inserting(t)' /\ run'[t] = run[t]
  BY DEF Inserting, Adding, Starting
<1>5. AllStarted' /\ AllStopped'
  BY <1>2, <1>3 DEF NoneMissed, AllStarted, AllStopped
<1>6. NewestAdded'
  BY <1>1, <1>4 DEF NoneMissed, NewestAdded
<1> QED BY <1>1, <1>5, <1>6, PlacedKept DEF NoneMissed

\* Every step keeps somebody responsible for each runnable that is to be started or stopped.
LEMMA NextMissed ==
    ASSUME Typed, Typed', Kin, NoneMissed, [Next]_vars PROVE NoneMissed'
<1>1. ASSUME NEW t \in Threads, Call(t) \/ Step(t) PROVE NoneMissed'
  BY <1>1, AsideMissed, CreatingMissed, InitiateMissed, TransitionMissed, CountMissed, StartNextMissed,
     StartedMissed, AddMissed, AddedMissed, AddedStopMissed, ShutdownMissed, CollectMissed, KidsMissed,
     StopsMissed DEF Step
<1>2. ASSUME NEW r \in Runnables, RunnableEnds(r) PROVE NoneMissed'
  <2>1. UNCHANGED << treeVars, started, pc, ctx, run, rest, stack >> /\ stop \subseteq stop'
    BY <1>2, RunnableEndsDoes
  <2> QED BY <2>1, QuietMissed
<1>3. ASSUME NEW k \in Counters, Destroy(k) PROVE NoneMissed'
  <2>1. UNCHANGED << treeVars, started, stop, pc, ctx, run, rest, stack >>
    BY <1>3, DestroyDoes DEF runVars
  <2> QED BY <2>1, QuietMissed
<1>4. ASSUME UNCHANGED vars PROVE NoneMissed'
  BY <1>4, QuietMissed DEF vars, threadVars, runVars
<1> QED BY <1>1, <1>2, <1>3, <1>4 DEF Next

\* When all calls have returned, every runnable of a context that runs was started or
\* stopped and every runnable of one that was shut down was stopped, in whatever order
\* AddCoreRunnable, Initiate and SignalShutdown took their locks.
THEOREM RunnablesFollow == Spec => []NoRunnableMissed
<1> DEFINE Inv == Typed /\ Kin /\ NoneMissed
<1>1. Init => Inv
  <2> SUFFICES ASSUME Init PROVE Inv
    OBVIOUS
  <2>1. /\ m_threads = [c \in Contexts |-> << >>]
        /\ m_beforeRunning = [c \in Contexts |-> FALSE]
    BY DEF Init
  <2>2. \A c \in Contexts : Range(m_threads[c]) = {}
    BY <2>1, RangeEmpty
  <2>3. NoneMissed
    BY <2>1, <2>2 DEF NoneMissed, Placed, AllStarted, AllStopped, NewestAdded, Unstarted, Unstopped
  <2> QED BY <2>3, InitTyped, InitKin
<1>2. Inv /\ [Next]_vars => Inv'
  BY NextTyped, NextKin, NextMissed
<1>3. Inv => NoRunnableMissed
  <2> SUFFICES ASSUME Inv, Calm, NEW c \in Contexts, NEW r \in InList(c)
               PROVE  /\ IsRunning(c) => r \in started \cup stop
                      /\ IsShutdown(c) => r \in stop
    BY DEF NoRunnableMissed
  <2>1. r \in Range(m_threads[c]) /\ r \in Runnables
    BY DEF InList, Range, Typed, TypeOK
  <2>2. \A t \in Threads : ~Tended(t, c, r) /\ ~Doomed(t, c, r)
    BY DEF Calm, Tended, Starting, Doomed, Adding, StopsLeft, Stopping
  <2>3. ~Unstarted(c, r) /\ ~Unstopped(c, r)
    BY <2>1, <2>2 DEF NoneMissed, AllStarted, AllStopped
  <2> QED BY <2>1, <2>3 DEF Unstarted, Unstopped
<1> QED BY <1>1, <1>2, <1>3, PTL DEF Spec

-----------------------------------------------------------------------------
(* A runnable is added once *)

\* A runnable nobody has added nor is adding.
Busy(t)    == pc[t] = "add" \/ Adding(t)
Unadded(r) == r \notin Range(m_threads[Of[r]]) /\ \A u \in Threads : Busy(u) => run[u] # r

OnceBy(t) ==
    /\ pc[t] = "add" => run[t] \notin Range(m_threads[Of[run[t]]])
    /\ Adding(t) => run[t] \notin settled /\ run[t] \in Range(m_threads[Of[run[t]]])
    /\ \A w \in todo[t] : w.kind = "add" => Unadded(w.of)

Once ==
    /\ \A t \in Threads : OnceBy(t)
    /\ \A t, u \in Threads : t # u /\ Busy(t) /\ Busy(u) => run[t] # run[u]
    /\ \A c \in Contexts : m_state[c] \in {"NotStarted", "CanRun"} => Unadded(Hold[c])
    /\ \A r \in settled : r \in Range(m_threads[Of[r]])

\* The runnables a thread has still to start belong to the context it is at.
RestOf == \A t \in Threads : Starting(t) => \A r \in Range(rest[t]) : Of[r] = ctx[t]

\* What a step of t has to do.
LEMMA RestStep ==
    ASSUME RestOf, NEW t \in Threads, Others(t), Starting(t)' => \A r \in Range(rest'[t]) : Of[r] = ctx'[t]
    PROVE  RestOf'
  BY DEF RestOf, Others, Starting

\* Every step keeps the runnables a thread is to start those of its context.
LEMMA NextRest ==
    ASSUME Typed, Placed, RestOf, [Next]_vars PROVE RestOf'
<1>1. ASSUME NEW t \in Threads, Call(t) PROVE RestOf'
  <2>1. Others(t) /\ pc'[t] \in Kinds
    <3>1. PICK w \in todo[t] : w \in Calls /\ pc'[t] = w.kind
      BY <1>1, CallDoes
    <3> QED BY <1>1, <3>1, CallDoes DEF Calls
  <2> QED BY <2>1, RestStep DEF Starting, Kinds
<1>2. ASSUME NEW t \in Threads, Create(t) \/ Construct(t) \/ Link(t) PROVE RestOf'
  <2>1. Others(t) /\ pc'[t] \in {"idle", "construct", "link"}
    BY <1>2, CreateDoes, ConstructDoes, LinkDoes
  <2> QED BY <2>1, RestStep DEF Starting
<1>3. ASSUME NEW t \in Threads, Initiate(t) PROVE RestOf'
  <2>1. /\ Others(t) /\ ctx' = ctx /\ ctx[t] \in Contexts
        /\ pc'[t] \in {"idle", "add", "children"} \/ rest'[t] = m_threads[ctx[t]]
    BY <1>3, InitiateDoes
  <2> QED BY <2>1, RestStep DEF Starting, Placed
<1>4. ASSUME NEW t \in Threads, Transition(t) PROVE RestOf'
  <2>1. Others(t) /\ \E f \in WalkFrames : WalkEnds(t, f) \/ \E c \in Contexts : WalkOn(t, f, c)
    BY <1>4, TransitionDoes
  <2>2. \/ pc'[t] \in {"idle", "children"}
        \/ \E c \in Contexts : rest'[t] = m_threads[c] /\ ctx'[t] = c
    BY <2>1 DEF WalkEnds, WalkOn, WalkSkips, WalkStarts, WalkTells
  <2> QED BY <2>1, <2>2, RestStep DEF Starting, Placed
<1>5. ASSUME NEW t \in Threads, Count(t) PROVE RestOf'
  <2>1. Others(t) /\ UNCHANGED << rest, ctx >> /\ pc[t] = "count"
    BY <1>5, CountDoes
  <2> QED BY <2>1, RestStep DEF Starting, RestOf
<1>6. ASSUME NEW t \in Threads, StartNext(t) PROVE RestOf'
  <2>1. /\ Others(t) /\ UNCHANGED << pc, ctx >> /\ pc[t] = "start" /\ rest'[t] = Tail(rest[t])
        /\ rest[t] \in Seq(Runnables) /\ rest[t] # << >>
    BY <1>6, StartNextDoes
  <2>2. Range(rest'[t]) \subseteq Range(rest[t])
    BY <2>1, TailOf
  <2> QED BY <2>1, <2>2, RestStep DEF Starting, RestOf
<1>7. ASSUME NEW t \in Threads, Started(t) \/ Added(t) \/ AddedStop(t) \/ Await(t) PROVE RestOf'
  <2>1. Others(t) /\ pc'[t] \in {"children", "added", "addstop", "idle"}
    BY <1>7, StartedDoes, AddedDoes, AddedStopDoes, AwaitDoes
  <2> QED BY <2>1, RestStep DEF Starting
<1>8. ASSUME NEW t \in Threads, Add(t) PROVE RestOf'
  <2>1. /\ Others(t) /\ ctx' = ctx /\ run[t] \in Runnables /\ Of[run[t]] = ctx[t]
        /\ rest'[t] = << run[t] >> \/ rest'[t] = << >>
    BY <1>8, AddDoes
  <2>2. Range(<< run[t] >>) = {run[t]}
    <3>1. DOMAIN << run[t] >> = {1} /\ << run[t] >>[1] = run[t]
      OBVIOUS
    <3> QED BY <3>1 DEF Range
  <2>3. \A r \in Range(rest'[t]) : Of[r] = ctx'[t]
    BY <2>1, <2>2, RangeEmpty
  <2> QED BY <2>1, <2>3, RestStep
<1>9. ASSUME NEW t \in Threads, Shutdown(t) PROVE RestOf'
  <2>1. Others(t) /\ pc'[t] \in {"kids", "idle", "collect"}
    BY <1>9, ShutdownDoes
  <2> QED BY <2>1, RestStep DEF Starting
<1>10. ASSUME NEW t \in Threads, Collect(t) \/ Kids(t) \/ Stops(t) PROVE RestOf'
  <2>1. Others(t) /\ pc'[t] \in {"kids", "stops", "signal", "wait", "idle"}
    <3>1. CASE Collect(t)
      BY <3>1, CollectDoes
    <3>2. CASE Kids(t)
      BY <3>2, KidsDoes
    <3>3. CASE Stops(t)
      BY <3>3, StopsDoes
    <3> QED BY <1>10, <3>1, <3>2, <3>3
  <2> QED BY <2>1, RestStep DEF Starting
<1>11. ASSUME NEW r \in Runnables, RunnableEnds(r) PROVE RestOf'
  <2>1. UNCHANGED << pc, ctx, rest >>
    BY <1>11, RunnableEndsDoes
  <2> QED BY <2>1 DEF RestOf, Starting
<1>12. ASSUME NEW k \in Counters, Destroy(k) PROVE RestOf'
  <2>1. UNCHANGED << pc, ctx, rest >>
    BY <1>12, DestroyDoes
  <2> QED BY <2>1 DEF RestOf, Starting
<1>13. ASSUME UNCHANGED vars PROVE RestOf'
  BY <1>13 DEF vars, threadVars, RestOf, Starting
<1> QED BY <1>1, <1>2, <1>3, <1>4, <1>5, <1>6, <1>7, <1>8, <1>9, <1>10, <1>11, <1>12, <1>13 DEF Next, Step

-----------------------------------------------------------------------------
\* The other threads go on with what they add.
LEMMA BusyOthers ==
    ASSUME NEW t \in Threads, Others(t), NEW u \in Threads, u # t
    PROVE  /\ Busy(u)' <=> Busy(u)
           /\ Adding(u)' <=> Adding(u)
           /\ pc'[u] = pc[u] /\ run'[u] = run[u] /\ todo'[u] = todo[u]
  BY DEF Others, Busy, Adding, Starting

\* Steps that add nothing.
LEMMA OnceKept ==
    ASSUME Once, NEW t \in Threads, Others(t), UNCHANGED << m_threads, settled >>,
           todo'[t] \subseteq todo[t],
           pc'[t] = "add" => pc[t] = "add", Adding(t)' => Adding(t), Busy(t)' => run'[t] = run[t],
           \A c \in Contexts : m_state'[c] \in {"NotStarted", "CanRun"} => m_state[c] \in {"NotStarted", "CanRun"}
    PROVE  Once'
<1>1. \A u \in Threads : Busy(u)' => Busy(u) /\ run'[u] = run[u]
  BY BusyOthers DEF Busy
<1>3. ASSUME NEW u \in Threads PROVE OnceBy(u)'
  <2>1. OnceBy(u)
    BY DEF Once
  <2>2. /\ pc'[u] = "add" => pc[u] = "add" /\ run'[u] = run[u]
        /\ Adding(u)' => Adding(u) /\ run'[u] = run[u]
        /\ todo'[u] \subseteq todo[u]
    BY BusyOthers DEF Busy
  <2>3. ASSUME NEW w \in todo'[u], w.kind = "add" PROVE Unadded(w.of)'
    <3>1. PICK x : x = w.of
      OBVIOUS
    <3>2. Unadded(x)
      BY <2>1, <2>2, <2>3, <3>1 DEF OnceBy
    <3>3. Unadded(x)'
      BY <1>1, <3>2 DEF Unadded
    <3> QED BY <3>1, <3>3 DEF Unadded
  <2> QED BY <2>1, <2>2, <2>3 DEF OnceBy
<1>4. \A u, v \in Threads : u # v /\ Busy(u)' /\ Busy(v)' => run'[u] # run'[v]
  BY <1>1 DEF Once
<1>5. \A c \in Contexts : m_state'[c] \in {"NotStarted", "CanRun"} => Unadded(Hold[c])'
  BY <1>1 DEF Once, Unadded
<1>6. \A r \in settled' : r \in Range(m_threads'[Of[r]])
  BY DEF Once
<1> QED BY <1>3, <1>4, <1>5, <1>6 DEF Once

\* A thread takes to adding a runnable nobody has added.
LEMMA OnceMore ==
    ASSUME Typed, Once, NEW t \in Threads, Others(t), UNCHANGED << m_threads, settled >>,
           todo'[t] \subseteq todo[t], pc'[t] = "add", ~Busy(t), Unadded(run'[t]),
           \A u \in Threads : \A w \in todo'[u] : w.kind = "add" => w.of # run'[t],
           \A c \in Contexts : m_state'[c] \in {"NotStarted", "CanRun"} =>
               m_state[c] \in {"NotStarted", "CanRun"} /\ Hold[c] # run'[t]
    PROVE  Once'
<1>1. \A u \in Threads \ {t} : Busy(u)' => Busy(u) /\ run'[u] = run[u]
  BY BusyOthers
<1>2. \A u \in Threads \ {t} : Busy(u) => run[u] # run'[t]
  BY DEF Unadded
<1>3. ASSUME NEW r, Unadded(r), r # run'[t] PROVE Unadded(r)'
  BY <1>1, <1>3 DEF Unadded
<1>4. ~Adding(t)' /\ run'[t] \notin Range(m_threads'[Of[run'[t]]])
  BY DEF Adding, Starting, Unadded
<1>5. ASSUME NEW u \in Threads PROVE OnceBy(u)'
  <2>1. OnceBy(u)
    BY DEF Once
  <2>2. todo'[u] \subseteq todo[u]
    BY BusyOthers
  <2>3. ASSUME NEW w \in todo'[u], w.kind = "add" PROVE Unadded(w.of)'
    <3>1. PICK x : x = w.of
      OBVIOUS
    <3>2. Unadded(x) /\ x # run'[t]
      BY <2>1, <2>2, <2>3, <3>1 DEF OnceBy
    <3>3. Unadded(x)'
      BY <1>3, <3>2
    <3> QED BY <3>1, <3>3 DEF Unadded
  <2>4. CASE u = t
    BY <1>4, <2>3, <2>4 DEF OnceBy
  <2>5. CASE u # t
    BY <2>1, <2>3, <2>5, BusyOthers DEF OnceBy
  <2> QED BY <2>4, <2>5
<1>6. \A u, v \in Threads : u # v /\ Busy(u)' /\ Busy(v)' => run'[u] # run'[v]
  BY <1>1, <1>2 DEF Once
<1>7. ASSUME NEW c \in Contexts, m_state'[c] \in {"NotStarted", "CanRun"} PROVE Unadded(Hold[c])'
  <2>1. Unadded(Hold[c]) /\ Hold[c] # run'[t]
    BY <1>7 DEF Once
  <2> QED BY <1>1, <2>1 DEF Unadded
<1>8. \A r \in settled' : r \in Range(m_threads'[Of[r]])
  BY DEF Once
<1> QED BY <1>5, <1>6, <1>7, <1>8 DEF Once

\* A call of AddCoreRunnable is about a runnable nobody has added.
LEMMA CallOnce ==
    ASSUME Typed, Kin, Once, NEW t \in Threads, Call(t) PROVE Once'
<1>1. /\ Others(t) /\ UNCHANGED << treeVars, histVars >> /\ pc[t] = "idle"
      /\ \E w \in todo[t] :
           /\ w \in Calls /\ Sensible(w)
           /\ pc'[t] = w.kind /\ run'[t] = (IF w.kind = "add" THEN w.of ELSE None)
           /\ todo'[t] = todo[t] \ {w}
  BY CallDoes
<1>2. PICK w \in todo[t] :
           /\ w \in Calls /\ Sensible(w)
           /\ pc'[t] = w.kind /\ run'[t] = (IF w.kind = "add" THEN w.of ELSE None)
           /\ todo'[t] = todo[t] \ {w}
  BY <1>1
<1>3. UNCHANGED << m_state, m_threads, settled >> /\ ~Busy(t) /\ todo'[t] \subseteq todo[t]
  BY <1>1, <1>2 DEF treeVars, histVars, Busy, Adding, Starting
<1>4. CASE w.kind # "add"
  <2>1. w.kind \in Kinds
    BY <1>2 DEF Calls
  <2>2. ~Busy(t)'
    BY <1>2, <1>4, <2>1 DEF Busy, Adding, Starting, Kinds
  <2> QED BY <1>1, <1>3, <2>2, OnceKept DEF Busy
<1>5. CASE w.kind = "add"
  <2>1. run'[t] = w.of /\ pc'[t] = "add" /\ w.of \in Runnables \ Holds /\ Unadded(w.of)
    BY <1>2, <1>5 DEF Sensible, Once, OnceBy
  <2>2. \A u \in Threads : \A x \in todo'[u] : x.kind = "add" => x.of # w.of
    <3> SUFFICES ASSUME NEW u \in Threads, NEW x \in todo'[u], x.kind = "add", x.of = w.of PROVE FALSE
      OBVIOUS
    <3>1. x \in todo[u] /\ x \in Calls
      BY <1>2, BusyOthers, <1>1 DEF Typed, CallsOK
    <3>2. x = w
      BY <1>2, <1>5, <3>1 DEF Calls
    <3>3. u # t
      BY <1>2, <3>2
    <3> QED BY <1>5, <3>1, <3>2, <3>3 DEF Kin, PairKin
  <2>3. \A c \in Contexts : Hold[c] # w.of
    BY <2>1 DEF Holds
  <2> QED BY <1>1, <1>3, <2>1, <2>2, <2>3, OnceMore
<1> QED BY <1>4, <1>5

\* Initiate adds the DelayedContextHold once, when the context was not initiated.
LEMMA InitiateOnce ==
    ASSUME Typed, Once, NEW t \in Threads, Initiate(t) PROVE Once'
<1>1. /\ Others(t) /\ UNCHANGED << m_threads, todo, histVars >>
      /\ pc[t] = "initiate" /\ ctx[t] \in Contexts /\ run[t] = None
      /\ \A c \in Contexts \ {ctx[t]} : m_state'[c] = m_state[c]
      /\ \/ pc'[t] = "idle" /\ m_state' = m_state
         \/ /\ m_state[ctx[t]] = "NotStarted" /\ m_state'[ctx[t]] = "Initiated"
            /\ pc'[t] = "add" /\ run'[t] = Hold[ctx[t]]
         \/ m_state'[ctx[t]] = "Running" /\ pc'[t] \in {"count", "children"} /\ run' = run
  BY InitiateDoes
<1>2. settled' = settled /\ ~Busy(t)
  BY <1>1 DEF histVars, Busy, Adding, Starting
<1>3. CASE pc'[t] = "idle" /\ m_state' = m_state
  BY <1>1, <1>2, <1>3, OnceKept DEF Busy, Adding, Starting
<1>4. CASE m_state'[ctx[t]] = "Running" /\ pc'[t] \in {"count", "children"} /\ run' = run
  BY <1>1, <1>2, <1>4, OnceKept DEF Busy, Adding, Starting
<1>5. CASE /\ m_state[ctx[t]] = "NotStarted" /\ m_state'[ctx[t]] = "Initiated"
           /\ pc'[t] = "add" /\ run'[t] = Hold[ctx[t]]
  <2>1. Unadded(Hold[ctx[t]])
    BY <1>1, <1>5 DEF Once
  <2>2. \A u \in Threads : \A w \in todo'[u] : w.kind = "add" => w.of # Hold[ctx[t]]
    <3> SUFFICES ASSUME NEW u \in Threads, NEW w \in todo[u], w.kind = "add" PROVE w.of # Hold[ctx[t]]
      BY <1>1
    <3>1. w.of \notin Holds
      BY DEF Typed, CallsOK, Sensible
    <3> QED BY <1>1, <3>1 DEF Holds
  <2>3. \A c \in Contexts : m_state'[c] \in {"NotStarted", "CanRun"} =>
           m_state[c] \in {"NotStarted", "CanRun"} /\ Hold[c] # Hold[ctx[t]]
    <3> SUFFICES ASSUME NEW c \in Contexts, m_state'[c] \in {"NotStarted", "CanRun"}
                 PROVE  m_state[c] \in {"NotStarted", "CanRun"} /\ Hold[c] # Hold[ctx[t]]
      OBVIOUS
    <3>1. c # ctx[t] /\ m_state'[c] = m_state[c]
      BY <1>1, <1>5
    <3>2. Of[Hold[c]] = c /\ Of[Hold[ctx[t]]] = ctx[t]
      BY <1>1, ConstantsAssumption
    <3> QED BY <3>1, <3>2
  <2>4. /\ Unadded(run'[t])
        /\ \A u \in Threads : \A w \in todo'[u] : w.kind = "add" => w.of # run'[t]
        /\ \A c \in Contexts : m_state'[c] \in {"NotStarted", "CanRun"} =>
              m_state[c] \in {"NotStarted", "CanRun"} /\ Hold[c] # run'[t]
    BY <1>5, <2>1, <2>2, <2>3
  <2> QED BY <1>1, <1>2, <1>5, <2>4, OnceMore
<1> QED BY <1>1, <1>3, <1>4, <1>5

\* The runnable is in the list from here on.
LEMMA AddOnce ==
    ASSUME Typed, Once, NEW t \in Threads, Add(t) PROVE Once'
<1>1. /\ Others(t) /\ UNCHANGED << m_state, ctx, run, todo, histVars >>
      /\ pc[t] = "add" /\ ctx[t] \in Contexts /\ run[t] \in Runnables /\ Of[run[t]] = ctx[t]
      /\ m_threads'[ctx[t]] = << run[t] >> \o m_threads[ctx[t]]
      /\ \A c \in Contexts \ {ctx[t]} : m_threads'[c] = m_threads[c]
      /\ pc'[t] \in {"count", "added"}
  BY AddDoes
<1>2. Range(m_threads'[ctx[t]]) = {run[t]} \cup Range(m_threads[ctx[t]])
  <2>1. m_threads[ctx[t]] \in Seq(Runnables)
    BY <1>1 DEF Typed, TypeOK
  <2> QED BY <1>1, <2>1, PushOf
<1>3. settled' = settled /\ Busy(t) /\ Busy(t)' /\ Adding(t)' /\ pc'[t] # "add"
  <2>1. run[t] # None
    BY <1>1, ConstantsAssumption
  <2> QED BY <1>1, <2>1 DEF histVars, Busy, Adding, Starting
<1>4. \A u \in Threads : Busy(u)' <=> Busy(u)
  BY <1>1, <1>3, BusyOthers
<1>5. \A r \in Runnables : /\ r \in Range(m_threads[Of[r]]) => r \in Range(m_threads'[Of[r]])
                           /\ r \in Range(m_threads'[Of[r]]) => r \in Range(m_threads[Of[r]]) \/ r = run[t]
  BY <1>1, <1>2, ConstantsAssumption
<1>6. \A r \in Runnables : Unadded(r) => Unadded(r)'
  BY <1>1, <1>3, <1>4, <1>5 DEF Unadded
<1>7. ASSUME NEW u \in Threads PROVE OnceBy(u)'
  <2>1. OnceBy(u)
    BY DEF Once
  <2>2. ASSUME NEW w \in todo[u], w.kind = "add" PROVE Unadded(w.of)'
    <3>1. PICK x \in Runnables : x = w.of
      BY <2>2 DEF Typed, CallsOK, Sensible
    <3>2. Unadded(x)'
      BY <1>6, <2>1, <2>2, <3>1 DEF OnceBy
    <3> QED BY <3>1, <3>2 DEF Unadded
  <2>3. CASE u = t
    <3>1. run[t] \notin settled
      BY <1>1 DEF Once, OnceBy
    <3>2. run[t] \in Range(m_threads'[Of[run[t]]])
      BY <1>1, <1>2
    <3> QED BY <1>1, <1>3, <2>2, <2>3, <3>1, <3>2 DEF OnceBy
  <2>4. CASE u # t
    <3>1. pc'[u] = pc[u] /\ (Adding(u)' <=> Adding(u))
      BY <1>1, <2>4, BusyOthers
    <3>2. Busy(u) => run[u] # run[t] /\ run[u] \in Runnables
      BY <1>3, <2>4 DEF Once, Busy, Typed, Shaped
    <3> QED BY <1>1, <1>3, <1>5, <2>1, <2>2, <3>1, <3>2 DEF OnceBy, Busy
  <2> QED BY <2>3, <2>4
<1>8. \A u, v \in Threads : u # v /\ Busy(u)' /\ Busy(v)' => run'[u] # run'[v]
  BY <1>1, <1>4 DEF Once
<1>9. ASSUME NEW c \in Contexts, m_state'[c] \in {"NotStarted", "CanRun"} PROVE Unadded(Hold[c])'
  <2>1. PICK h \in Runnables : h = Hold[c]
    BY ConstantsAssumption
  <2>2. Unadded(h)'
    BY <1>1, <1>6, <1>9, <2>1 DEF Once
  <2> QED BY <2>1, <2>2 DEF Unadded
<1>10. \A r \in settled' : r \in Range(m_threads'[Of[r]])
  BY <1>3, <1>5 DEF Once, Typed, TypeOK
<1> QED BY <1>7, <1>8, <1>9, <1>10 DEF Once

\* A runnable that is settled is added by nobody any more.
LEMMA AddedOnce ==
    ASSUME Typed, Once, NEW t \in Threads, Added(t) PROVE Once'
<1>1. /\ Others(t) /\ UNCHANGED << m_state, m_threads, run, todo >> /\ pc[t] = "added"
      /\ \/ pc'[t] = "addstop" /\ settled' = settled
         \/ pc'[t] = "idle" /\ settled' = settled \cup {run[t]}
  BY AddedDoes
<1>2. CASE pc'[t] = "addstop" /\ settled' = settled
  BY <1>1, <1>2, OnceKept DEF Adding, Starting, Busy
<1>3. CASE pc'[t] = "idle" /\ settled' = settled \cup {run[t]}
  <2>1. Busy(t) /\ ~Busy(t)' /\ run[t] \in Range(m_threads[Of[run[t]]])
    BY <1>1, <1>3 DEF Busy, Adding, Starting, Once, OnceBy
  <2>2. \A u \in Threads : Busy(u)' => Busy(u) /\ u # t
    BY <1>1, <2>1, BusyOthers
  <2>3. ASSUME NEW r, Unadded(r) PROVE Unadded(r)'
    BY <1>1, <2>2, <2>3 DEF Unadded
  <2>4. ASSUME NEW u \in Threads PROVE OnceBy(u)'
    <3>1. OnceBy(u)
      BY DEF Once
    <3>2. ASSUME NEW w \in todo[u], w.kind = "add" PROVE Unadded(w.of)'
      <4>1. PICK x : x = w.of
        OBVIOUS
      <4>2. Unadded(x)'
        BY <2>3, <3>1, <3>2, <4>1 DEF OnceBy
      <4> QED BY <4>1, <4>2 DEF Unadded
    <3>3. CASE u = t
      BY <1>1, <2>1, <3>2, <3>3 DEF OnceBy, Busy
    <3>4. CASE u # t
      <4>1. pc'[u] = pc[u] /\ (Adding(u)' <=> Adding(u))
        BY <1>1, <3>4, BusyOthers
      <4>2. Busy(u) => run[u] # run[t]
        BY <2>1, <3>4 DEF Once
      <4> QED BY <1>1, <1>3, <3>1, <3>2, <4>1, <4>2 DEF OnceBy, Busy
    <3> QED BY <3>3, <3>4
  <2>5. \A u, v \in Threads : u # v /\ Busy(u)' /\ Busy(v)' => run'[u] # run'[v]
    BY <1>1, <2>2 DEF Once
  <2>6. \A c \in Contexts : m_state'[c] \in {"NotStarted", "CanRun"} => Unadded(Hold[c])'
    BY <1>1, <2>2 DEF Once, Unadded
  <2>7. \A r \in settled' : r \in Range(m_threads'[Of[r]])
    BY <1>1, <1>3, <2>1 DEF Once
  <2> QED BY <2>4, <2>5, <2>6, <2>7 DEF Once
<1> QED BY <1>1, <1>2, <1>3

\* Every other step.
LEMMA AsideOnce ==
    ASSUME Typed, Kin, Once, NEW t \in Threads,
           \/ Create(t) \/ Construct(t) \/ Link(t) \/ Transition(t) \/ Count(t) \/ StartNext(t) \/ Started(t)
           \/ AddedStop(t) \/ Shutdown(t) \/ Collect(t) \/ Kids(t) \/ Stops(t) \/ Await(t)
    PROVE  Once'
<1> DEFINE Starts == \A c \in Contexts :
                        m_state'[c] \in {"NotStarted", "CanRun"} => m_state[c] \in {"NotStarted", "CanRun"}
<1>1. CASE Create(t)
  <2>1. /\ Others(t) /\ UNCHANGED << m_state, m_threads, todo, run, histVars >>
        /\ pc'[t] \in {"idle", "construct"}
    BY <1>1, CreateDoes
  <2> QED BY <2>1, OnceKept DEF histVars, Busy, Adding, Starting
<1>2. CASE Construct(t)
  <2>1. /\ Others(t) /\ UNCHANGED << m_threads, todo, run, histVars >> /\ pc[t] = "construct" /\ pc'[t] = "link"
        /\ ctx[t] \in Contexts
        /\ \A c \in Contexts \ {ctx[t]} : m_state'[c] = m_state[c]
        /\ m_state'[ctx[t]] = IF IsRunning(Parent[ctx[t]]) THEN "CanRun" ELSE m_state[ctx[t]]
    BY <1>2, ConstructDoes
  <2>2. m_state[ctx[t]] \in {"NotStarted", "CanRun"}
    BY <2>1 DEF Kin, ThreadKin, ContextKin, Creating
  <2>3. Starts
    BY <2>1, <2>2
  <2> QED BY <2>1, <2>3, OnceKept DEF histVars, Busy, Adding, Starting
<1>3. CASE Link(t)
  <2>1. /\ Others(t) /\ UNCHANGED << m_threads, todo, run, settled >> /\ pc'[t] = "idle" /\ ctx[t] \in Contexts
        /\ \A c \in Contexts \ {ctx[t]} : m_state'[c] = m_state[c]
        /\ m_state'[ctx[t]] = BornState(ctx[t])
    BY <1>3, LinkDoes
  <2>2. Starts
    BY <2>1 DEF BornState
  <2> QED BY <2>1, <2>2, OnceKept DEF Busy, Adding, Starting
<1>4. CASE Transition(t)
  <2>1. /\ Others(t) /\ UNCHANGED << m_threads, todo, run, histVars >> /\ run[t] = None
        /\ \E f \in WalkFrames : WalkEnds(t, f) \/ \E c \in Contexts : WalkOn(t, f, c)
    BY <1>4, TransitionDoes
  <2>2. Starts /\ pc'[t] \in {"idle", "children", "count"}
    BY <2>1 DEF WalkEnds, WalkOn, WalkSkips, WalkStarts, WalkTells
  <2> QED BY <2>1, <2>2, OnceKept DEF histVars, Busy, Adding, Starting
<1>5. CASE Count(t)
  <2>1. /\ Others(t) /\ UNCHANGED << treeVars, todo, run, histVars >> /\ pc[t] = "count" /\ pc'[t] = "start"
    BY <1>5, CountDoes
  <2> QED BY <2>1, OnceKept DEF treeVars, histVars, Busy, Adding, Starting
<1>6. CASE StartNext(t)
  <2>1. Others(t) /\ UNCHANGED << treeVars, pc, todo, run, histVars >>
    BY <1>6, StartNextDoes
  <2> QED BY <2>1, OnceKept DEF treeVars, histVars, Busy, Adding, Starting
<1>7. CASE Started(t)
  <2>1. /\ Others(t) /\ UNCHANGED << treeVars, todo, run, histVars >> /\ pc[t] = "start"
        /\ pc'[t] = "children" \/ (run[t] # None /\ pc'[t] = "added")
    BY <1>7, StartedDoes
  <2> QED BY <2>1, OnceKept DEF treeVars, histVars, Busy, Adding, Starting
<1>8. CASE AddedStop(t)
  <2>1. Others(t) /\ UNCHANGED << treeVars, todo, run, histVars >> /\ pc'[t] = "idle"
    BY <1>8, AddedStopDoes
  <2> QED BY <2>1, OnceKept DEF treeVars, histVars, Busy, Adding, Starting
<1>9. CASE Shutdown(t)
  <2>1. /\ Others(t) /\ UNCHANGED << m_threads, todo, run, histVars >> /\ pc'[t] \in {"kids", "idle", "collect"}
        /\ ctx[t] \in Contexts
        /\ \/ m_state' = m_state
           \/ /\ m_state'[ctx[t]] \in {"Shutdown", "Abandoned"}
              /\ \A c \in Contexts \ {ctx[t]} : m_state'[c] = m_state[c]
    BY <1>9, ShutdownDoes
  <2>2. Starts
    BY <2>1
  <2> QED BY <2>1, <2>2, OnceKept DEF histVars, Busy, Adding, Starting
<1>10. CASE Collect(t) \/ Kids(t) \/ Stops(t)
  <2>1. /\ Others(t) /\ UNCHANGED << treeVars, todo, run, histVars >>
        /\ pc'[t] \in {"kids", "stops", "signal", "wait", "idle"}
    <3>1. CASE Collect(t)
      BY <3>1, CollectDoes
    <3>2. CASE Kids(t)
      BY <3>2, KidsDoes
    <3>3. CASE Stops(t)
      BY <3>3, StopsDoes
    <3> QED BY <1>10, <3>1, <3>2, <3>3
  <2> QED BY <2>1, OnceKept DEF treeVars, histVars, Busy, Adding, Starting
<1>11. CASE Await(t)
  <2>1. Others(t) /\ UNCHANGED << treeVars, todo, run, settled >> /\ pc'[t] = "idle"
    BY <1>11, AwaitDoes
  <2> QED BY <2>1, OnceKept DEF treeVars, Busy, Adding, Starting
<1> QED BY <1>1, <1>2, <1>3, <1>4, <1>5, <1>6, <1>7, <1>8, <1>9, <1>10, <1>11

\* The threads of runnables and the destructors add nothing.
LEMMA QuietOnce ==
    ASSUME Once, UNCHANGED << m_state, m_threads, settled, pc, run, todo >> PROVE Once'
<1>1. \A u \in Threads : (Busy(u)' <=> Busy(u)) /\ (Adding(u)' <=> Adding(u))
  BY DEF Busy, Adding, Starting
<1>2. \A u \in Threads : OnceBy(u)'
  BY <1>1 DEF Once, OnceBy, Unadded
<1> QED BY <1>1, <1>2 DEF Once, Unadded

\* Every step keeps runnables added once.
LEMMA NextOnce ==
    ASSUME Typed, Kin, Once, [Next]_vars PROVE Once'
<1>1. ASSUME NEW t \in Threads, Call(t) \/ Step(t) PROVE Once'
  BY <1>1, CallOnce, InitiateOnce, AddOnce, AddedOnce, AsideOnce DEF Step
<1>2. ASSUME NEW r \in Runnables, RunnableEnds(r) PROVE Once'
  <2>1. UNCHANGED << treeVars, histVars, pc, run, todo >>
    BY <1>2, RunnableEndsDoes
  <2> QED BY <2>1, QuietOnce DEF treeVars, histVars
<1>3. ASSUME NEW k \in Counters, Destroy(k) PROVE Once'
  <2>1. UNCHANGED << treeVars, histVars, pc, run, todo >>
    BY <1>3, DestroyDoes
  <2> QED BY <2>1, QuietOnce DEF treeVars, histVars
<1>4. ASSUME UNCHANGED vars PROVE Once'
  BY <1>4, QuietOnce DEF vars, threadVars, treeVars, histVars
<1> QED BY <1>1, <1>2, <1>3, <1>4 DEF Next

-----------------------------------------------------------------------------
(* Who keeps a run counter alive *)

\* What holds a counter keeps it live: a runnable that of its context, a thread that of
\* the context it is at, a counter that of the parent.
HeldBy(h, f)  == \A r \in Runnables : h[r] # None => f[h[r]] = "live" /\ h[r][1] = Of[r]
LocalBy(l, f) == \A t \in Threads : l[t] # None => f[l[t]] = "live"
ParentBy(f)   == \A k \in Counters : f[k] # "free" /\ Parent[k[1]] # None =>
                    /\ parentCount[k] \in Counters /\ parentCount[k][1] = Parent[k[1]]
                    /\ f[parentCount[k]] = "live"

\* The counters of a context that was not overtaken: there is one at most, and the
\* context points to it while it is live.
Own(c)  == m_outstanding[c] # None => m_outstanding[c][1] = c
Sole(k) ==
    k[1] \notin overtaken =>
        /\ counter[k] = "live" => m_outstanding[k[1]] = k
        /\ counter[k] # "free" => \A j \in Counters : j[1] = k[1] /\ counter[j] # "free" => j = k

Counts ==
    /\ HeldBy(held, counter) /\ LocalBy(local, counter) /\ ParentBy(counter)
    /\ \A t \in Threads : local[t] # None => pc[t] = "start" /\ local[t][1] = ctx[t]
    /\ \A c \in Contexts : Own(c)
    /\ \A k \in Counters : Sole(k)

\* Steps that leave the counters alone, of threads that hold none.
LEMMA CountsKept ==
    ASSUME Counts, NEW t \in Threads, Others(t), UNCHANGED << counterVars, local >>, pc[t] # "start"
    PROVE  Counts'
<1>1. UNCHANGED << m_outstanding, counter, parentCount, held, overtaken >>
  BY DEF counterVars
<1>2. \A u \in Threads : local[u] # None => pc'[u] = "start" /\ local[u][1] = ctx'[u]
  BY DEF Counts, Others
<1> QED BY <1>1, <1>2 DEF Counts, HeldBy, LocalBy, ParentBy, Own, Sole

\* What is held stays live when something is let go of, and no counter is born.
LEMMA LetGoKeeps ==
    ASSUME Typed, NEW x \in Threads \cup Runnables \cup {None},
           NEW h \in [Runnables -> Counters \cup {None}],
           NEW l \in [Threads -> Counters \cup {None}],
           NEW g \in [Counters -> {"free", "live", "dying"}],
           LetGo(x, h, l, g), HeldBy(h, g), LocalBy(l, g), ParentBy(g), parentCount' = parentCount
    PROVE  /\ HeldBy(held', counter') /\ LocalBy(local', counter') /\ ParentBy(counter)'
           /\ \A k \in Counters : /\ counter'[k] = "live" => g[k] = "live"
                                  /\ counter'[k] # "free" => g[k] # "free"
<1>1. /\ held' = h /\ local' = l
      /\ \A k \in Counters : counter'[k] = IF k \in Unheld(h, l, g) THEN "dying" ELSE g[k]
  BY LetGoDoes
<1>2. \A k \in Unheld(h, l, g) : g[k] = "live"
  BY DEF Unheld
<1>3. \A k \in Counters : /\ counter'[k] = "live" => g[k] = "live"
                          /\ counter'[k] # "free" => g[k] # "free"
  BY <1>1, <1>2
<1>4. ASSUME NEW r \in Runnables, h[r] # None PROVE counter'[h[r]] = "live" /\ h[r][1] = Of[r]
  <2>1. h[r] \in Counters /\ g[h[r]] = "live" /\ h[r][1] = Of[r]
    BY <1>4 DEF HeldBy
  <2>2. h[r] \notin Unheld(h, l, g)
    BY DEF Unheld
  <2> QED BY <1>1, <2>1, <2>2
<1>5. ASSUME NEW t \in Threads, l[t] # None PROVE counter'[l[t]] = "live"
  <2>1. l[t] \in Counters /\ g[l[t]] = "live"
    BY <1>5 DEF LocalBy
  <2>2. l[t] \notin Unheld(h, l, g)
    BY DEF Unheld
  <2> QED BY <1>1, <2>1, <2>2
<1>6. ASSUME NEW k \in Counters, counter'[k] # "free", Parent[k[1]] # None
      PROVE  /\ parentCount[k] \in Counters /\ parentCount[k][1] = Parent[k[1]]
             /\ counter'[parentCount[k]] = "live"
  <2>1. /\ g[k] # "free" /\ parentCount[k] \in Counters /\ parentCount[k][1] = Parent[k[1]]
        /\ g[parentCount[k]] = "live"
    BY <1>3, <1>6 DEF ParentBy
  <2>2. parentCount[k] \notin Unheld(h, l, g)
    BY <2>1 DEF Unheld
  <2> QED BY <1>1, <2>1, <2>2
<1>7. HeldBy(held', counter')
  BY <1>1, <1>4 DEF HeldBy
<1>8. LocalBy(local', counter')
  BY <1>1, <1>5 DEF LocalBy
<1>9. ParentBy(counter)'
  BY <1>6 DEF ParentBy
<1> QED BY <1>3, <1>7, <1>8, <1>9

\* A runnable or a thread lets go of its counter.
LEMMA LetGoCounts ==
    ASSUME Typed, Counts, NEW x \in Threads \cup Runnables \cup {None},
           NEW h \in [Runnables -> Counters \cup {None}], NEW l \in [Threads -> Counters \cup {None}],
           LetGo(x, h, l, counter),
           \A r \in Runnables : h[r] \in {held[r], None}, \A t \in Threads : l[t] \in {local[t], None},
           \A t \in Threads : l[t] # None => pc'[t] = pc[t] /\ ctx'[t] = ctx[t],
           UNCHANGED << parentCount, m_outstanding, overtaken >>
    PROVE  Counts'
<1>1. counter \in [Counters -> {"free", "live", "dying"}] /\ held' = h /\ local' = l
  BY DEF Typed, TypeOK, LetGo
<1>2. HeldBy(h, counter) /\ LocalBy(l, counter) /\ ParentBy(counter)
  BY DEF Counts, HeldBy, LocalBy
<1>3. /\ HeldBy(held', counter') /\ LocalBy(local', counter') /\ ParentBy(counter)'
      /\ \A k \in Counters : /\ counter'[k] = "live" => counter[k] = "live"
                             /\ counter'[k] # "free" => counter[k] # "free"
  BY <1>1, <1>2, LetGoKeeps
<1>4. \A t \in Threads : local'[t] # None => pc'[t] = "start" /\ local'[t][1] = ctx'[t]
  BY <1>1 DEF Counts
<1>5. \A c \in Contexts : Own(c)'
  BY DEF Counts, Own
<1>6. \A k \in Counters : Sole(k)'
  <2> SUFFICES ASSUME NEW k \in Counters, k[1] \notin overtaken
               PROVE  /\ counter'[k] = "live" => m_outstanding[k[1]] = k
                      /\ counter'[k] # "free" => \A j \in Counters : j[1] = k[1] /\ counter'[j] # "free" => j = k
    BY DEF Sole
  <2>1. Sole(k)
    BY DEF Counts
  <2> QED BY <1>3, <2>1 DEF Sole
<1> QED BY <1>3, <1>4, <1>5, <1>6 DEF Counts, HeldBy, LocalBy

\* A thread lets go of its counter.
LEMMA StartedCounts ==
    ASSUME Typed, Counts, NEW t \in Threads, Started(t) PROVE Counts'
<1>1. /\ Others(t) /\ UNCHANGED << m_outstanding, parentCount, overtaken, ctx >>
      /\ LetGo(t, held, [local EXCEPT ![t] = None], counter)
  BY StartedDoes
<1>2. PICK l : l = [local EXCEPT ![t] = None]
  OBVIOUS
<1>3. /\ l \in [Threads -> Counters \cup {None}] /\ held \in [Runnables -> Counters \cup {None}]
      /\ l[t] = None /\ \A u \in Threads \ {t} : l[u] = local[u]
  BY <1>2 DEF Typed, TypeOK
<1>4. \A u \in Threads : l[u] # None => pc'[u] = pc[u] /\ ctx'[u] = ctx[u]
  BY <1>1, <1>3 DEF Others
<1>5. LetGo(t, held, l, counter)
  BY <1>1, <1>2
<1> QED BY <1>1, <1>3, <1>4, <1>5, LetGoCounts

\* A runnable lets go of its counter.
LEMMA RunnableEndsCounts ==
    ASSUME Typed, Counts, NEW r \in Runnables, RunnableEnds(r) PROVE Counts'
<1>1. /\ UNCHANGED << m_outstanding, parentCount, overtaken, pc, ctx >>
      /\ LetGo(r, [held EXCEPT ![r] = None], local, counter)
  BY RunnableEndsDoes
<1>2. PICK h : h = [held EXCEPT ![r] = None]
  OBVIOUS
<1>3. /\ h \in [Runnables -> Counters \cup {None}] /\ local \in [Threads -> Counters \cup {None}]
      /\ \A q \in Runnables : h[q] \in {held[q], None}
  BY <1>2 DEF Typed, TypeOK
<1>4. LetGo(r, h, local, counter)
  BY <1>1, <1>2
<1> QED BY <1>1, <1>3, <1>4, LetGoCounts

\* The destructor of a counter resets the weak pointer, which is its own unless the
\* context was overtaken.
LEMMA DestroyCounts ==
    ASSUME Typed, Counts, NEW k \in Counters, Destroy(k) PROVE Counts'
<1>1. /\ UNCHANGED << parentCount, overtaken, pc, ctx, held, local >>
      /\ counter[k] = "dying" /\ k[1] \in Contexts
      /\ m_outstanding' = [m_outstanding EXCEPT ![k[1]] = None]
      /\ LetGo(by[k], held, local, [counter EXCEPT ![k] = "free"])
  BY DestroyDoes
<1>2. PICK g : g = [counter EXCEPT ![k] = "free"]
  OBVIOUS
<1>3. /\ g \in [Counters -> {"free", "live", "dying"}] /\ g[k] = "free"
      /\ \A j \in Counters \ {k} : g[j] = counter[j]
      /\ held \in [Runnables -> Counters \cup {None}] /\ local \in [Threads -> Counters \cup {None}]
      /\ by[k] \in Threads \cup Runnables \cup {None}
      /\ parentCount \in [Counters -> Counters \cup {None}]
      /\ m_outstanding \in [Contexts -> Counters \cup {None}]
  BY <1>2 DEF Typed, TypeOK
<1>4. \A j \in Counters : counter[j] = "live" => g[j] = "live"
  BY <1>1, <1>3
<1>5. HeldBy(held, g) /\ LocalBy(local, g)
  BY <1>3, <1>4 DEF Counts, HeldBy, LocalBy
<1>6. ParentBy(g)
  BY <1>3, <1>4 DEF Counts, ParentBy
<1>7. /\ HeldBy(held', counter') /\ LocalBy(local', counter') /\ ParentBy(counter)'
      /\ \A j \in Counters : /\ counter'[j] = "live" => g[j] = "live"
                             /\ counter'[j] # "free" => g[j] # "free"
  <2>1. LetGo(by[k], held, local, g)
    BY <1>1, <1>2
  <2> QED BY <1>1, <1>3, <1>5, <1>6, <2>1, LetGoKeeps
<1>8. \A t \in Threads : local'[t] # None => pc'[t] = "start" /\ local'[t][1] = ctx'[t]
  BY <1>1 DEF Counts
<1>9. \A c \in Contexts : Own(c)'
  BY <1>1, <1>3 DEF Counts, Own
<1>10. ASSUME NEW j \in Counters PROVE Sole(j)'
  <2> SUFFICES ASSUME j[1] \notin overtaken
               PROVE  /\ counter'[j] = "live" => m_outstanding'[j[1]] = j
                      /\ counter'[j] # "free" => \A i \in Counters : i[1] = j[1] /\ counter'[i] # "free" => i = j
    BY <1>1 DEF Sole
  <2>1. Sole(j)
    BY DEF Counts
  <2>2. \A i \in Counters : /\ counter'[i] = "live" => counter[i] = "live"
                            /\ counter'[i] # "free" => counter[i] # "free"
    BY <1>3, <1>7
  <2>3. ASSUME counter'[j] = "live" PROVE m_outstanding'[j[1]] = j
    <3>1. counter[j] = "live" /\ m_outstanding[j[1]] = j
      BY <2>1, <2>2, <2>3 DEF Sole
    <3>2. j[1] # k[1]
      BY <1>1, <2>1, <3>1 DEF Sole
    <3>3. j[1] \in Contexts
      BY DEF Counters
    <3> QED BY <1>1, <1>3, <3>1, <3>2, <3>3
  <2> QED BY <2>1, <2>2, <2>3 DEF Sole
<1> QED BY <1>7, <1>8, <1>9, <1>10 DEF Counts, HeldBy, LocalBy

\* A runnable takes the counter of its own context.
LEMMA StartNextCounts ==
    ASSUME Typed, RestOf, Counts, NEW t \in Threads, StartNext(t) PROVE Counts'
<1>1. /\ UNCHANGED << m_outstanding, counter, parentCount, overtaken, pc, ctx, local >>
      /\ pc[t] = "start" /\ local[t] \in Counters /\ rest[t] \in Seq(Runnables) /\ rest[t] # << >>
      /\ held' = held \/ held' = [held EXCEPT ![Head(rest[t])] = local[t]]
  BY StartNextDoes
<1>2. Head(rest[t]) \in Runnables /\ Of[Head(rest[t])] = ctx[t]
  BY <1>1, TailOf DEF RestOf, Starting
<1>3. local[t] # None
  BY <1>1, ConstantsAssumption
<1>4. counter[local[t]] = "live" /\ local[t][1] = ctx[t]
  BY <1>3 DEF Counts, LocalBy
<1>5. HeldBy(held', counter)
  <2>1. held \in [Runnables -> Counters \cup {None}] /\ HeldBy(held, counter)
    BY DEF Typed, TypeOK, Counts
  <2>2. CASE held' = held
    BY <2>1, <2>2
  <2>3. CASE held' = [held EXCEPT ![Head(rest[t])] = local[t]]
    BY <1>2, <1>4, <2>1, <2>3 DEF HeldBy
  <2> QED BY <1>1, <2>2, <2>3
<1> QED BY <1>1, <1>5 DEF Counts, HeldBy, LocalBy, ParentBy, Own, Sole

\* A context that needs a new counter and is not overtaken has no other.
LEMMA NoOther ==
    ASSUME Typed, Counts, NEW a \in Contexts, Expired(a), a \notin overtaken,
           \A n \in 1 .. MaxCounters : counter[<< a, n >>] # "dying", NEW k \in Counters, k[1] = a
    PROVE  counter[k] = "free"
<1>1. \E n \in 1 .. MaxCounters : k = << a, n >>
  BY DEF Counters
<1>2. counter[k] \in {"free", "live", "dying"} /\ counter[k] # "dying"
  BY <1>1 DEF Typed, TypeOK
<1>3. ASSUME counter[k] = "live" PROVE FALSE
  <2>1. m_outstanding[a] = k
    BY <1>3 DEF Counts, Sole
  <2>2. k # None
    BY ConstantsAssumption
  <2> QED BY <1>3, <2>1, <2>2 DEF Expired, HasCounter
<1> QED BY <1>2, <1>3

\* New counters are live, hold that of the parent, and are the only ones unless overtaken.
LEMMA CountCounts ==
    ASSUME Typed, Typed', Counts, NEW t \in Threads, Count(t) PROVE Counts'
<1> DEFINE N == Needing(ctx[t])
<1>1. /\ Others(t) /\ UNCHANGED << held, ctx >>
      /\ pc[t] = "count" /\ pc'[t] = "start" /\ ctx[t] \in Contexts
      /\ local'[t] = IF HasCounter(ctx[t]) THEN m_outstanding[ctx[t]] ELSE Fresh(ctx[t])
      /\ overtaken' = overtaken \cup { a \in N : \E n \in 1 .. MaxCounters : counter[<< a, n >>] = "dying" }
      /\ \A a \in N :
           /\ a \in Contexts /\ Fresh(a) \in Counters /\ Fresh(a)[1] = a
           /\ counter[Fresh(a)] = "free" /\ counter'[Fresh(a)] = "live"
           /\ m_outstanding'[a] = Fresh(a) /\ parentCount'[Fresh(a)] = ParentCount(a)
      /\ \A a \in Contexts : a \notin N => m_outstanding'[a] = m_outstanding[a]
      /\ \A k \in Counters :
           \/ k[1] \in N /\ k = Fresh(k[1])
           \/ counter'[k] = counter[k] /\ parentCount'[k] = parentCount[k]
  BY CountDoes
<1>2. /\ Expired(ctx[t]) => ctx[t] \in N
      /\ \A a \in N : Expired(a)
      /\ \A a \in N : Parent[a] # None /\ Expired(Parent[a]) => Parent[a] \in N
  BY <1>1, NeedingUp
<1> HIDE DEF N
<1>3. \A k \in Counters : counter[k] = "live" => counter'[k] = "live"
  BY <1>1
<1>4. \A k \in Counters : k[1] \in Contexts
  BY DEF Counters
<1>5. /\ held \in [Runnables -> Counters \cup {None}] /\ local \in [Threads -> Counters \cup {None}]
      /\ m_outstanding \in [Contexts -> Counters \cup {None}]
  BY DEF Typed, TypeOK
<1>6. HeldBy(held', counter')
  BY <1>1, <1>3, <1>5 DEF Counts, HeldBy
<1>7. counter'[local'[t]] = "live" /\ local'[t][1] = ctx[t]
  <2>1. CASE HasCounter(ctx[t])
    <3>1. m_outstanding[ctx[t]] # None /\ counter[m_outstanding[ctx[t]]] = "live"
      BY <2>1 DEF HasCounter
    <3>2. m_outstanding[ctx[t]] \in Counters /\ m_outstanding[ctx[t]][1] = ctx[t]
      BY <1>1, <1>5, <3>1 DEF Counts, Own
    <3> QED BY <1>1, <1>3, <2>1, <3>1, <3>2
  <2>2. CASE ~HasCounter(ctx[t])
    BY <1>1, <1>2, <2>2 DEF Expired
  <2> QED BY <2>1, <2>2
<1>8. ASSUME NEW u \in Threads, local'[u] # None
      PROVE  counter'[local'[u]] = "live" /\ pc'[u] = "start" /\ local'[u][1] = ctx'[u]
  <2>1. CASE u = t
    BY <1>1, <1>7, <2>1
  <2>2. CASE u # t
    <3>1. local'[u] = local[u] /\ pc'[u] = pc[u] /\ local[u] \in Counters
      BY <1>1, <1>5, <1>8, <2>2 DEF Others
    <3> QED BY <1>1, <1>3, <1>8, <3>1 DEF Counts, LocalBy
  <2> QED BY <2>1, <2>2
<1>9. ASSUME NEW k \in Counters, counter'[k] # "free", Parent[k[1]] # None
      PROVE  /\ parentCount'[k] \in Counters /\ parentCount'[k][1] = Parent[k[1]]
             /\ counter'[parentCount'[k]] = "live"
  <2>1. Parent[k[1]] \in Contexts
    BY <1>4, <1>9, ConstantsAssumption
  <2>2. CASE k[1] \in N /\ k = Fresh(k[1])
    <3>1. parentCount'[k] = ParentCount(k[1])
      BY <1>1, <2>2
    <3>2. CASE HasCounter(Parent[k[1]])
      <4>1. parentCount'[k] = m_outstanding[Parent[k[1]]]
        BY <1>9, <3>1, <3>2 DEF ParentCount
      <4>2. m_outstanding[Parent[k[1]]] # None /\ counter[m_outstanding[Parent[k[1]]]] = "live"
        BY <3>2 DEF HasCounter
      <4>3. m_outstanding[Parent[k[1]]] \in Counters /\ m_outstanding[Parent[k[1]]][1] = Parent[k[1]]
        BY <1>5, <2>1, <4>2 DEF Counts, Own
      <4> QED BY <1>3, <4>1, <4>2, <4>3
    <3>3. CASE ~HasCounter(Parent[k[1]])
      <4>1. parentCount'[k] = Fresh(Parent[k[1]])
        BY <1>9, <3>1, <3>3 DEF ParentCount
      <4>2. Parent[k[1]] \in N
        BY <1>2, <1>9, <2>2, <3>3 DEF Expired
      <4> QED BY <1>1, <4>1, <4>2
    <3> QED BY <3>2, <3>3
  <2>3. CASE counter'[k] = counter[k] /\ parentCount'[k] = parentCount[k]
    BY <1>3, <1>9, <2>3 DEF Counts, ParentBy
  <2> QED BY <1>1, <2>2, <2>3
<1>10. ASSUME NEW c \in Contexts PROVE Own(c)'
  BY <1>1 DEF Counts, Own
<1>11. ASSUME NEW k \in Counters PROVE Sole(k)'
  <2> SUFFICES ASSUME k[1] \notin overtaken'
               PROVE  /\ counter'[k] = "live" => m_outstanding'[k[1]] = k
                      /\ counter'[k] # "free" => \A j \in Counters : j[1] = k[1] /\ counter'[j] # "free" => j = k
    BY DEF Sole
  <2>1. k[1] \in Contexts /\ k[1] \notin overtaken
    BY <1>1, <1>4
  <2>2. CASE k[1] \in N
    <3>1. \A j \in Counters : j[1] = k[1] => counter[j] = "free"
      <4>1. Expired(k[1]) /\ \A n \in 1 .. MaxCounters : counter[<< k[1], n >>] # "dying"
        BY <1>1, <1>2, <2>2
      <4> QED BY <2>1, <4>1, NoOther
    <3>2. \A j \in Counters : j[1] = k[1] /\ counter'[j] # "free" => j = Fresh(k[1])
      BY <1>1, <3>1
    <3> QED BY <1>1, <2>2, <3>2
  <2>3. CASE k[1] \notin N
    <3>1. \A j \in Counters : j[1] = k[1] => counter'[j] = counter[j]
      BY <1>1, <2>3
    <3>2. Sole(k) /\ m_outstanding'[k[1]] = m_outstanding[k[1]]
      BY <1>1, <2>1, <2>3 DEF Counts
    <3> QED BY <2>1, <3>1, <3>2 DEF Sole
  <2> QED BY <2>2, <2>3
<1>12. LocalBy(local', counter')
  BY <1>8 DEF LocalBy
<1>13. ParentBy(counter)'
  BY <1>9 DEF ParentBy
<1> QED BY <1>6, <1>8, <1>10, <1>11, <1>12, <1>13 DEF Counts, HeldBy, LocalBy

\* All other steps leave the counters alone.
LEMMA AsideCounts ==
    ASSUME Typed, Counts, NEW t \in Threads,
           \/ Call(t) \/ Create(t) \/ Construct(t) \/ Link(t) \/ Initiate(t) \/ Transition(t) \/ Add(t) \/ Added(t)
           \/ AddedStop(t) \/ Shutdown(t) \/ Collect(t) \/ Kids(t) \/ Stops(t) \/ Await(t)
    PROVE  Counts'
<1> DEFINE Kept == Others(t) /\ UNCHANGED << counterVars, local >> /\ pc[t] # "start"
<1>1. CASE Call(t)
  <2>1. Kept
    BY <1>1, CallDoes
  <2> QED BY <2>1, CountsKept
<1>2. CASE Create(t) \/ Construct(t) \/ Link(t)
  <2>1. Kept
    BY <1>2, CreateDoes, ConstructDoes, LinkDoes
  <2> QED BY <2>1, CountsKept
<1>3. CASE Initiate(t)
  <2>1. Kept
    BY <1>3, InitiateDoes
  <2> QED BY <2>1, CountsKept
<1>4. CASE Transition(t)
  <2>1. Kept
    BY <1>4, TransitionDoes
  <2> QED BY <2>1, CountsKept
<1>5. CASE Add(t) \/ Added(t) \/ AddedStop(t)
  <2>1. Kept
    BY <1>5, AddDoes, AddedDoes, AddedStopDoes
  <2> QED BY <2>1, CountsKept
<1>6. CASE Shutdown(t)
  <2>1. Kept
    BY <1>6, ShutdownDoes
  <2> QED BY <2>1, CountsKept
<1>7. CASE Collect(t)
  <2>1. Kept
    BY <1>7, CollectDoes
  <2> QED BY <2>1, CountsKept
<1>8. CASE Kids(t)
  <2>1. Kept
    BY <1>8, KidsDoes
  <2> QED BY <2>1, CountsKept
<1>9. CASE Stops(t)
  <2>1. Kept
    BY <1>9, StopsDoes
  <2> QED BY <2>1, CountsKept
<1>10. CASE Await(t)
  <2>1. Kept
    BY <1>10, AwaitDoes
  <2> QED BY <2>1, CountsKept
<1> QED BY <1>1, <1>2, <1>3, <1>4, <1>5, <1>6, <1>7, <1>8, <1>9, <1>10

\* Every step keeps what is held live.
LEMMA NextCounts ==
    ASSUME Typed, Typed', RestOf, Counts, [Next]_vars PROVE Counts'
<1>1. ASSUME NEW t \in Threads, Call(t) \/ Step(t) PROVE Counts'
  BY <1>1, AsideCounts, CountCounts, StartNextCounts, StartedCounts DEF Step
<1>2. ASSUME NEW r \in Runnables, RunnableEnds(r) PROVE Counts'
  BY <1>2, RunnableEndsCounts
<1>3. ASSUME NEW k \in Counters, Destroy(k) PROVE Counts'
  BY <1>3, DestroyCounts
<1>4. ASSUME UNCHANGED vars PROVE Counts'
  BY <1>4 DEF vars, threadVars, counterVars, Counts, HeldBy, LocalBy, ParentBy, Own, Sole
<1> QED BY <1>1, <1>2, <1>3, <1>4 DEF Next

-----------------------------------------------------------------------------
(* What Wait means *)

Quieted ==
    /\ \A c \in quieted : c \in linked /\ \A x \in linked : c \in Above[x] => IsShutdown(x)
    /\ \A c \in quieted, r \in settled : c \in Above[Of[r]] => r \in stop
    /\ QuietUnlessOvertaken

\* What a step other than the end of Wait may do, by what it changes.
LinksWell == \A x \in linked' \ linked :
                Parent[x] \in linked /\ (IsShutdown(Parent[x]) => m_state'[x] \in {"Shutdown", "Abandoned"})
SettlesWell == \A r \in settled' \ settled : Of[r] \in linked /\ ~IsShutdown(Of[r])
HoldsWell == \A r \in Runnables : held'[r] # None => held[r] # None \/ r \notin stop
Harmless ==
    /\ quieted' = quieted /\ linked \subseteq linked' /\ stop \subseteq stop' /\ overtaken \subseteq overtaken'
    /\ ShutStays /\ LinksWell /\ SettlesWell /\ HoldsWell

\* A harmless step keeps what Wait means.
LEMMA QuietedStep ==
    ASSUME Typed, Typed', Quieted, Harmless PROVE Quieted'
<1>1. /\ linked \subseteq Contexts /\ linked' \subseteq Contexts /\ settled' \subseteq Runnables
      /\ quieted \subseteq Contexts
  BY DEF Typed, TypeOK
<1>2. ASSUME NEW c \in quieted, NEW x \in linked', c \in Above[x] PROVE IsShutdown(x)'
  <2>1. CASE x \in linked
    BY <1>1, <1>2, <2>1 DEF Quieted, Harmless, ShutStays
  <2>2. CASE x \notin linked
    <3>1. Parent[x] \in linked /\ (IsShutdown(Parent[x]) => m_state'[x] \in {"Shutdown", "Abandoned"})
      BY <2>2 DEF Harmless, LinksWell
    <3>2. c \in Above[Parent[x]]
      <4>1. c \in linked /\ c # x
        BY <1>2, <2>2 DEF Quieted
      <4>2. Above[x] = {x} \cup (IF Parent[x] = None THEN {} ELSE Above[Parent[x]])
        BY <1>1, AboveParent
      <4> QED BY <1>2, <4>1, <4>2
    <3> QED BY <1>2, <3>1, <3>2 DEF Quieted, IsShutdown
  <2> QED BY <2>1, <2>2
<1>3. ASSUME NEW c \in quieted, NEW r \in settled', c \in Above[Of[r]] PROVE r \in settled /\ r \in stop
  BY <1>3 DEF Quieted, Harmless, SettlesWell
<1>4. ASSUME NEW c \in quieted, NEW r \in settled', c \in Above[Of[r]], Above[Of[r]] \cap overtaken' = {}
      PROVE  held'[r] = None
  <2>1. r \in Runnables /\ r \in settled /\ r \in stop
    BY <1>1, <1>3, <1>4
  <2>2. Above[Of[r]] \cap overtaken = {}
    BY <1>4 DEF Harmless
  <2>3. held[r] = None
    BY <1>4, <2>1, <2>2 DEF Quieted, QuietUnlessOvertaken
  <2> QED BY <2>1, <2>3 DEF Harmless, HoldsWell
<1> QED BY <1>2, <1>3, <1>4 DEF Quieted, QuietUnlessOvertaken, Harmless

\* Steps that change neither the tree nor what was settled nor what is held.
LEMMA HarmlessAside ==
    ASSUME UNCHANGED << m_state, linked, settled, quieted, held, overtaken >>, stop \subseteq stop'
    PROVE  Harmless
  BY DEF Harmless, ShutStays, LinksWell, SettlesWell, HoldsWell, IsShutdown

\* Steps that change neither states nor counters.
LEMMA AsideHarmless ==
    ASSUME Typed, NEW t \in Threads,
           \/ Call(t) \/ Create(t) \/ Add(t) \/ AddedStop(t) \/ Collect(t) \/ Kids(t) \/ Stops(t)
    PROVE  Harmless
<1>1. CASE Call(t)
  <2>1. UNCHANGED << treeVars, counterVars, runVars, histVars >>
    BY <1>1, CallDoes
  <2> QED BY <2>1, HarmlessAside DEF treeVars, counterVars, runVars, histVars
<1>2. CASE Create(t)
  <2>1. UNCHANGED << m_state, linked, counterVars, runVars, histVars >>
    BY <1>2, CreateDoes
  <2> QED BY <2>1, HarmlessAside DEF counterVars, runVars, histVars
<1>3. CASE Add(t)
  <2>1. UNCHANGED << m_state, linked, counterVars, runVars, histVars >>
    BY <1>3, AddDoes
  <2> QED BY <2>1, HarmlessAside DEF counterVars, runVars, histVars
<1>4. CASE AddedStop(t)
  <2>1. UNCHANGED << treeVars, counterVars, histVars >> /\ stop' = stop \cup {run[t]}
    BY <1>4, AddedStopDoes
  <2> QED BY <2>1, HarmlessAside DEF treeVars, counterVars, histVars
<1>5. CASE Collect(t)
  <2>1. UNCHANGED << treeVars, counterVars, runVars, histVars >>
    BY <1>5, CollectDoes
  <2> QED BY <2>1, HarmlessAside DEF treeVars, counterVars, runVars, histVars
<1>6. CASE Kids(t)
  <2>1. UNCHANGED << treeVars, counterVars, runVars, histVars >>
    BY <1>6, KidsDoes
  <2> QED BY <2>1, HarmlessAside DEF treeVars, counterVars, runVars, histVars
<1>7. CASE Stops(t)
  <2>1. UNCHANGED << treeVars, counterVars, histVars >> /\ stop \subseteq stop'
    BY <1>7, StopsDoes
  <2> QED BY <2>1, HarmlessAside DEF treeVars, counterVars, histVars
<1> QED BY <1>1, <1>2, <1>3, <1>4, <1>5, <1>6, <1>7

\* Steps that change the state of contexts.
LEMMA StatesHarmless ==
    ASSUME UNCHANGED << linked, settled, quieted, held, overtaken, stop >>, ShutStays
    PROVE  Harmless
  BY DEF Harmless, LinksWell, SettlesWell, HoldsWell

\* Steps that change the state of a context undo no shutdown.
LEMMA TreeHarmless ==
    ASSUME Typed, Typed', Kin, NEW t \in Threads, Construct(t) \/ Initiate(t) \/ Transition(t) \/ Shutdown(t)
    PROVE  Harmless
<1>1. CASE Construct(t)
  <2>1. /\ UNCHANGED << linked, counterVars, runVars, histVars >> /\ pc[t] = "construct" /\ ctx[t] \in Contexts
        /\ \A c \in Contexts \ {ctx[t]} : m_state'[c] = m_state[c]
    BY <1>1, ConstructDoes
  <2>2. m_state[ctx[t]] \in {"NotStarted", "CanRun"}
    BY <2>1 DEF Kin, ThreadKin, ContextKin, Creating
  <2>3. ShutStays
    BY <2>1, <2>2 DEF ShutStays, IsShutdown
  <2> QED BY <2>1, <2>3, StatesHarmless DEF counterVars, runVars, histVars
<1>2. CASE Initiate(t)
  <2>1. UNCHANGED << linked, counterVars, runVars, histVars >>
    BY <1>2, InitiateDoes
  <2> QED BY <1>2, <2>1, InitiateShuts, StatesHarmless DEF ShutStays, counterVars, runVars, histVars
<1>3. CASE Transition(t)
  <2>1. UNCHANGED << linked, counterVars, runVars, histVars >>
    BY <1>3, TransitionDoes
  <2> QED BY <1>3, <2>1, TransitionShuts, StatesHarmless DEF ShutStays, counterVars, runVars, histVars
<1>4. CASE Shutdown(t)
  <2>1. UNCHANGED << linked, counterVars, runVars, histVars >>
    BY <1>4, ShutdownDoes
  <2> QED BY <1>4, <2>1, ShutdownKin, StatesHarmless DEF counterVars, runVars, histVars
<1> QED BY <1>1, <1>2, <1>3, <1>4

\* A child that is linked below a context that was shut down is shut down.
LEMMA LinkHarmless ==
    ASSUME Typed, Kin, NEW t \in Threads, Link(t) PROVE Harmless
<1>1. /\ UNCHANGED << counterVars, runVars, settled, quieted >> /\ pc[t] = "link" /\ ctx[t] \in Contexts
      /\ linked' = linked \cup {ctx[t]}
      /\ \A c \in Contexts \ {ctx[t]} : m_state'[c] = m_state[c]
      /\ m_state'[ctx[t]] = BornState(ctx[t])
  BY LinkDoes
<1>2. Parent[ctx[t]] \in linked
  BY <1>1 DEF Kin, ThreadKin, Creating
<1>3. ShutStays
  BY <1>1 DEF ShutStays, IsShutdown, BornState
<1>4. LinksWell
  BY <1>1, <1>2 DEF LinksWell, BornState
<1> QED BY <1>1, <1>3, <1>4 DEF Harmless, SettlesWell, HoldsWell, counterVars, runVars

\* A runnable is settled while its context is not shut down.
LEMMA AddedHarmless ==
    ASSUME Typed, Kin, Once, NEW t \in Threads, Added(t) PROVE Harmless
<1>1. /\ UNCHANGED << m_state, linked, counterVars, runVars, quieted >> /\ pc[t] = "added"
      /\ ctx[t] \in Contexts /\ run[t] \in Runnables /\ Of[run[t]] = ctx[t]
      /\ \/ settled' = settled
         \/ ~IsShutdown(ctx[t]) /\ settled' = settled \cup {run[t]}
  BY AddedDoes
<1>2. run[t] \in Range(m_threads[ctx[t]])
  BY <1>1 DEF Once, OnceBy, Adding
<1>3. ctx[t] \in linked
  BY <1>1, <1>2, RangeEmpty DEF Kin, ContextKin
<1>4. SettlesWell
  BY <1>1, <1>3 DEF SettlesWell
<1> QED BY <1>1, <1>4 DEF Harmless, ShutStays, LinksWell, HoldsWell, IsShutdown, counterVars, runVars

\* A runnable that was stopped is not started.
LEMMA StartingHarmless ==
    ASSUME Typed, NEW t \in Threads, Count(t) \/ StartNext(t) \/ Started(t) PROVE Harmless
<1>1. CASE Count(t)
  <2>1. UNCHANGED << treeVars, runVars, held, histVars >> /\ overtaken \subseteq overtaken'
    BY <1>1, CountDoes
  <2> QED BY <2>1 DEF Harmless, ShutStays, LinksWell, SettlesWell, HoldsWell, IsShutdown, treeVars, runVars, histVars
<1>2. CASE StartNext(t)
  <2>1. /\ UNCHANGED << treeVars, overtaken, histVars >> /\ stop \subseteq stop'
        /\ held' = held \/ (Head(rest[t]) \notin stop /\ held' = [held EXCEPT ![Head(rest[t])] = local[t]])
    BY <1>2, StartNextDoes
  <2>2. HoldsWell
    BY <2>1 DEF HoldsWell, Typed, TypeOK
  <2> QED BY <2>1, <2>2 DEF Harmless, ShutStays, LinksWell, SettlesWell, IsShutdown, treeVars, histVars
<1>3. CASE Started(t)
  <2>1. UNCHANGED << treeVars, overtaken, runVars, histVars >> /\ LetGo(t, held, [local EXCEPT ![t] = None], counter)
    BY <1>3, StartedDoes
  <2>2. held' = held
    BY <2>1 DEF LetGo
  <2> QED BY <2>1, <2>2, HarmlessAside DEF treeVars, runVars, histVars
<1> QED BY <1>1, <1>2, <1>3

\* The steps of runnables and of destructors.
LEMMA RunnableEndsHarmless ==
    ASSUME Typed, NEW r \in Runnables, RunnableEnds(r) PROVE Harmless
<1>1. /\ UNCHANGED << treeVars, overtaken, histVars >> /\ stop' = stop \cup {r}
      /\ held' = [held EXCEPT ![r] = None]
  BY RunnableEndsDoes
<1>2. HoldsWell
  BY <1>1 DEF HoldsWell, Typed, TypeOK
<1> QED BY <1>1, <1>2 DEF Harmless, ShutStays, LinksWell, SettlesWell, IsShutdown, treeVars, histVars

\* A destructor only makes contexts expire.
LEMMA DestroyHarmless ==
    ASSUME Typed, NEW k \in Counters, Destroy(k) PROVE Harmless
<1>1. UNCHANGED << treeVars, overtaken, runVars, held, histVars >>
  BY DestroyDoes
<1> QED BY <1>1, HarmlessAside DEF treeVars, runVars, histVars

-----------------------------------------------------------------------------
\* Who is going to shut down a child is shutting down the parent.
LEMMA EndingBelow ==
    ASSUME Typed, NEW u \in Threads, NEW a \in Contexts, Parent[a] # None, Ending(u, a),
           NEW c, c \in Above[Parent[a]]
    PROVE  ShutsBelow(u, c)
<1>1. Stopping(u)
  BY DEF Ending
<1>2. \E f \in Range(stack[u]) : f.of = Parent[a]
  <2>1. CASE pc[u] = "collect" /\ Head(stack[u]).of = Parent[a]
    <3>1. stack[u] \in Seq(StopFrames) /\ stack[u] # << >>
      BY <1>1, <2>1 DEF Typed, Shaped
    <3> QED BY <2>1, <3>1, TailOf
  <2> QED BY <2>1 DEF Ending, EndOf
<1>3. \E i \in DOMAIN stack[u] : c \in Above[stack[u][i].of]
  BY <1>2 DEF Range
<1> QED BY <1>1, <1>3 DEF ShutsBelow, Stopping

\* When nobody is shutting down c or a context below, all contexts below are shut down if c is.
LEMMA BelowIsShut ==
    ASSUME Typed, Kin, ChildrenEnd, NEW c \in Contexts, IsShutdown(c), \A u \in Threads : ~ShutsBelow(u, c),
           NEW x \in linked, c \in Above[x]
    PROVE  IsShutdown(x)
<1> SUFFICES ASSUME ~IsShutdown(x) PROVE FALSE
  OBVIOUS
<1> DEFINE S == { a \in linked : c \in Above[a] => ~IsShutdown(a) }
<1>1. linked \subseteq Contexts
  BY DEF Typed, TypeOK
<1>2. ASSUME NEW a \in S PROVE Parent[a] \in S \cup {None}
  <2> SUFFICES ASSUME Parent[a] # None, c \in Above[Parent[a]], IsShutdown(Parent[a]) PROVE FALSE
    BY <1>1, <1>2 DEF Kin, ContextKin
  <2>1. c \in Above[a]
    BY <1>1, <1>2, AboveParent
  <2>2. ToEnd(a)
    BY <1>2, <2>1 DEF ToEnd
  <2>3. PICK u \in Threads : Ending(u, a)
    BY <1>1, <1>2, <2>2 DEF ChildrenEnd
  <2> QED BY <1>1, <1>2, <2>3, EndingBelow
<1>3. x \in S /\ S \in SUBSET Contexts /\ HasParents(S)
  BY <1>1, <1>2 DEF HasParents
<1>4. Above[x] \subseteq S
  BY <1>1, <1>3, AboveLeast
<1>5. c \in S
  BY <1>4
<1> QED BY <1>5, AboveSelf

\* When a runnable runs, its context and those above have counters, unless one was overtaken.
LEMMA RunsMeansCounter ==
    ASSUME Typed, Counts, NEW r \in Runnables, held[r] # None, Above[Of[r]] \cap overtaken = {},
           NEW c \in Above[Of[r]]
    PROVE  HasCounter(c)
<1>1. Of[r] \in Contexts /\ Above[Of[r]] \subseteq Contexts /\ Of[r] \in Above[Of[r]]
  BY ConstantsAssumption, AboveSelf
<1>2. ASSUME NEW k \in Counters, counter[k] = "live", k[1] \in Above[Of[r]] PROVE HasCounter(k[1])
  <2>1. m_outstanding[k[1]] = k
    BY <1>2 DEF Counts, Sole
  <2>2. k # None
    BY ConstantsAssumption
  <2> QED BY <1>2, <2>1, <2>2 DEF HasCounter
<1> DEFINE S == { a \in Above[Of[r]] : HasCounter(a) }
<1>3. ASSUME NEW a \in S PROVE Parent[a] \in S \cup {None}
  <2> SUFFICES ASSUME Parent[a] # None PROVE Parent[a] \in S
    OBVIOUS
  <2>1. a \in Contexts /\ m_outstanding[a] # None /\ counter[m_outstanding[a]] = "live"
    BY <1>1, <1>3 DEF HasCounter
  <2>2. PICK k \in Counters : k = m_outstanding[a]
    BY <2>1 DEF Typed, TypeOK
  <2>3. k[1] = a
    BY <2>1, <2>2 DEF Counts, Own
  <2>4. /\ parentCount[k] \in Counters /\ parentCount[k][1] = Parent[a]
        /\ counter[parentCount[k]] = "live"
    BY <2>1, <2>2, <2>3 DEF Counts, ParentBy
  <2>5. Parent[a] \in Above[Of[r]]
    BY <1>1, <1>3, AboveHasParents DEF HasParents
  <2>6. HasCounter(Parent[a])
    BY <1>2, <2>4, <2>5
  <2> QED BY <2>5, <2>6
<1>4. Of[r] \in S
  <2>1. held[r] \in Counters /\ counter[held[r]] = "live" /\ held[r][1] = Of[r]
    BY DEF Typed, TypeOK, Counts, HeldBy
  <2>2. HasCounter(Of[r])
    BY <1>1, <1>2, <2>1
  <2> QED BY <1>1, <2>2
<1>5. Above[Of[r]] \subseteq S
  <2>1. S \in SUBSET Contexts /\ HasParents(S)
    BY <1>1, <1>3 DEF HasParents
  <2> QED BY <1>1, <1>4, <2>1, AboveLeast
<1> QED BY <1>5

\* Wait returns when nobody else is shutting down a context below.
LEMMA AwaitQuieted ==
    ASSUME Typed, Typed', Kin, ChildrenEnd, NoneMissed, Once, Counts, Quieted, NEW t \in Threads, Await(t)
    PROVE  Quieted'
<1>1. /\ UNCHANGED << treeVars, counterVars, runVars, settled >> /\ ctx[t] \in Contexts
      /\ \/ quieted' = quieted
         \/ /\ IsShutdown(ctx[t]) /\ Expired(ctx[t])
            /\ \A u \in Threads : ~ShutsBelow(u, ctx[t])
            /\ quieted' = quieted \cup {ctx[t]}
  BY AwaitDoes
<1>2. UNCHANGED << m_state, linked, settled, held, overtaken, stop >>
  BY <1>1 DEF treeVars, counterVars, runVars
<1>3. CASE quieted' = quieted
  BY <1>2, <1>3, HarmlessAside, QuietedStep
<1>4. ASSUME IsShutdown(ctx[t]), Expired(ctx[t]), \A u \in Threads : ~ShutsBelow(u, ctx[t]),
             quieted' = quieted \cup {ctx[t]}
      PROVE  Quieted'
  <2>1. PICK c \in Contexts : c = ctx[t]
    BY <1>1
  <2>2. c \in linked
    BY <1>4, <2>1 DEF Kin, ContextKin, IsShutdown
  <2>3. \A x \in linked : c \in Above[x] => IsShutdown(x)
    BY <1>4, <2>1, BelowIsShut
  <2>4. ASSUME NEW r \in settled, c \in Above[Of[r]] PROVE r \in stop
    <3>1. r \in Runnables /\ Of[r] \in Contexts /\ r \in Range(m_threads[Of[r]])
      BY ConstantsAssumption DEF Typed, TypeOK, Once
    <3>2. Of[r] \in linked
      BY <3>1, RangeEmpty DEF Kin, ContextKin
    <3>3. IsShutdown(Of[r])
      BY <2>3, <2>4, <3>2
    <3>4. ASSUME NEW u \in Threads, Doomed(u, Of[r], r) PROVE FALSE
      <4>1. CASE Adding(u) /\ run[u] = r
        BY <4>1 DEF Once, OnceBy
      <4>2. CASE StopsLeft(u, Of[r], r)
        <5>1. Stopping(u) /\ \E f \in Range(stack[u]) : f.of = Of[r]
          BY <4>2 DEF StopsLeft
        <5>2. \E i \in DOMAIN stack[u] : c \in Above[stack[u][i].of]
          BY <2>4, <5>1 DEF Range
        <5>3. ShutsBelow(u, c)
          BY <5>1, <5>2 DEF ShutsBelow, Stopping
        <5> QED BY <1>4, <2>1, <5>3
      <4> QED BY <3>4, <4>1, <4>2 DEF Doomed
    <3>5. ~Unstopped(Of[r], r)
      BY <3>1, <3>4 DEF NoneMissed, AllStopped
    <3> QED BY <3>1, <3>3, <3>5 DEF Unstopped
  <2>5. ASSUME NEW r \in settled, c \in Above[Of[r]], Above[Of[r]] \cap overtaken = {} PROVE held[r] = None
    <3>1. r \in Runnables
      BY DEF Typed, TypeOK
    <3> QED BY <1>4, <2>1, <2>5, <3>1, RunsMeansCounter DEF Expired
  <2>6. \A d \in quieted' : d \in quieted \/ d = c
    BY <1>4, <2>1
  <2> QED BY <1>2, <2>2, <2>3, <2>4, <2>5, <2>6 DEF Quieted, QuietUnlessOvertaken, IsShutdown
<1> QED BY <1>1, <1>3, <1>4

\* Every step keeps what Wait means.
LEMMA NextQuieted ==
    ASSUME Typed, Typed', Kin, ChildrenEnd, NoneMissed, Once, Counts, Quieted, [Next]_vars
    PROVE  Quieted'
<1>1. ASSUME NEW t \in Threads, Call(t) \/ Step(t), ~Await(t) PROVE Harmless
  BY <1>1, AsideHarmless, TreeHarmless, LinkHarmless, AddedHarmless, StartingHarmless DEF Step
<1>2. ASSUME NEW t \in Threads, Call(t) \/ Step(t) PROVE Quieted'
  BY <1>1, <1>2, AwaitQuieted, QuietedStep
<1>3. ASSUME NEW r \in Runnables, RunnableEnds(r) PROVE Quieted'
  BY <1>3, RunnableEndsHarmless, QuietedStep
<1>4. ASSUME NEW k \in Counters, Destroy(k) PROVE Quieted'
  BY <1>4, DestroyHarmless, QuietedStep
<1>5. ASSUME UNCHANGED vars PROVE Quieted'
  BY <1>5, HarmlessAside, QuietedStep DEF vars, treeVars, counterVars, runVars, histVars
<1> QED BY <1>2, <1>3, <1>4, <1>5 DEF Next

\* When a SignalShutdown that waits has returned and nobody else was shutting down the
\* context or one below, nothing runs there that had been added before the shutdown,
\* unless the counter of a context on the way was reset by the destructor of an older one.
THEOREM WaitIsQuiet == Spec => []QuietUnlessOvertaken
<1> DEFINE Inv == Typed /\ Kin /\ ChildrenEnd /\ NoneMissed /\ RestOf /\ Once /\ Counts /\ Quieted
<1>1. Init => Inv
  <2> SUFFICES ASSUME Init PROVE Inv
    OBVIOUS
  <2>1. /\ m_state = [c \in Contexts |-> "NotStarted"]
        /\ m_threads = [c \in Contexts |-> << >>]
        /\ m_beforeRunning = [c \in Contexts |-> FALSE]
        /\ m_outstanding = [c \in Contexts |-> None]
        /\ counter = [k \in Counters |-> "free"]
        /\ held = [r \in Runnables |-> None]
        /\ pc = [t \in Threads |-> "idle"]
        /\ local = [t \in Threads |-> None]
        /\ quieted = {} /\ settled = {}
    BY DEF Init
  <2>2. \A c \in Contexts : Range(m_threads[c]) = {} /\ ~ToEnd(c)
    BY <2>1, RangeEmpty, ConstantsAssumption DEF ToEnd, IsShutdown
  <2>3. NoneMissed /\ ChildrenEnd
    BY <2>1, <2>2 DEF NoneMissed, Placed, AllStarted, AllStopped, NewestAdded, Unstarted, Unstopped, ChildrenEnd
  <2>4. RestOf /\ \A t \in Threads : ~Busy(t) /\ ~Adding(t) /\ pc[t] # "add"
    BY <2>1 DEF RestOf, Starting, Busy, Adding
  <2>5. Once
    <3>1. \A r \in Runnables : Unadded(r)
      BY <2>2, <2>4, ConstantsAssumption DEF Unadded
    <3>2. ASSUME NEW t \in Threads, NEW w \in todo[t], w.kind = "add" PROVE Unadded(w.of)
      BY <3>1, <3>2, InitTyped DEF Typed, CallsOK, Sensible
    <3> QED BY <2>1, <2>4, <3>1, <3>2, ConstantsAssumption DEF Once, OnceBy
  <2>6. Counts
    BY <2>1 DEF Counts, HeldBy, LocalBy, ParentBy, Own, Sole
  <2>7. Quieted
    BY <2>1 DEF Quieted, QuietUnlessOvertaken
  <2> QED BY <2>3, <2>4, <2>5, <2>6, <2>7, InitTyped, InitKin
<1>2. Inv /\ [Next]_vars => Inv'
  BY NextTyped, NextKin, NextEnd, NextMissed, NextRest, NextOnce, NextCounts, NextQuieted DEF NoneMissed
<1>3. Inv => QuietUnlessOvertaken
  BY DEF Quieted
<1> QED BY <1>1, <1>2, <1>3, PTL DEF Spec
=============================================================================
