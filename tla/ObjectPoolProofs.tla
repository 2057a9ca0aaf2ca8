-------------------------- MODULE ObjectPoolProofs --------------------------
(***************************************************************************)
(* Proofs about ObjectPool: types, that a pool that is gone is left alone, *)
(* and, for callers that keep to the rules, that the count, the cache, the *)
(* sleepers and the rundown are right.                                     *)
(***************************************************************************)
EXTENDS ObjectPool, FiniteSetTheorems, TLAPS

-----------------------------------------------------------------------------
(* Who is where *)

\* t destroys a pool or moves one.
Alters(t) == ~At(t, "idle") /\ op[t].kind \in {"destroy", "move"}

\* t is inside a call that p has a part in.
Uses(t, p) == ~At(t, "idle") /\ (op[t].pool = p \/ (op[t].kind = "move" /\ op[t].arg = p))

\* A thread is in a call it was asked to make, at a point that call has.
Placed(t) ==
    /\ ~At(t, "idle") => op[t] \in Requests
    /\ Alters(t) => pc[t] \in {"enter", "abandon", "swap", "clear"}
    /\ At(t, "abandon") => Alters(t)
    /\ At(t, "swap") => op[t].kind = "move"
    /\ At(t, "clear") => op[t].kind = "destroy"
    /\ At(t, "trim") => op[t].kind \in {"max", "rundown"}
    /\ At(t, "limit") => op[t].kind = "rundown"
    /\ pc[t] \in {"asleep", "woken"} => op[t].kind \in {"wait", "waitfor", "rundown"}

Typed ==
    /\ TypeOK
    /\ op \in [Threads -> Requests \cup {None}]
    /\ todo \in [Threads -> SUBSET Requests]
    /\ \A t \in Threads : Placed(t)

\* Who alters a pool is alone with it.
Alone ==
    \A t \in Threads, u \in Threads, p \in Pools : Alters(t) /\ Uses(t, p) /\ Uses(u, p) => u = t

\* Everybody else is inside of a live one, and nobody inside of one that is gone.
Inside(t) ==
    /\ ~At(t, "idle") /\ ~Alters(t) => Live(op[t].pool)
    /\ pc[t] \in {"swap", "clear"} => ~Live(op[t].pool)
    /\ At(t, "abandon") => m_monitor[op[t].pool] # None
    /\ Alters(t) /\ op[t].kind = "move" => m_monitor[op[t].arg] # None
    /\ \A p \in gone : ~Uses(t, p)

\* The monitor of a live pool leads back to it, but for the window of a move.
Aside(t, p) ==
    At(t, "abandon") /\ op[t].kind = "move" /\ op[t].pool = p /\ owner[m_monitor[p]] = op[t].arg
Leads ==
    /\ \A p \in gone : ~Live(p)
    /\ \A p \in Pools, q \in Pools : m_monitor[p] = m_monitor[q] /\ m_monitor[p] # None => p = q
    /\ \A p \in Pools : Live(p) => owner[m_monitor[p]] = p \/ \E t \in Threads : Aside(t, p)

\* The monitor of an object that is about is that of some pool.
Belongs(e) ==
    /\ monitor[e] # None => \E p \in Pools : m_monitor[p] = monitor[e]
    /\ at[e] # "free" => monitor[e] # None
    /\ \A t \in Threads : e \in mine[t] => monitor[e] # None
    /\ \A p \in Pools : e \in m_objs[p] => monitor[e] # None

Base ==
    /\ Typed /\ Alone /\ Leads
    /\ \A t \in Threads : Inside(t)
    /\ \A e \in Entries : Belongs(e)

-----------------------------------------------------------------------------
(* What is out *)

\* Objects may throw when they are initialized, and nothing else; and a pool is moved
\* onto only when nothing it issued is out.
Regular == Outcomes \subseteq {"ok", "initial"} /\ ~Overwrites

\* The objects out that hold m.
Held(m) == { e \in Entries : at[e] \in {"building", "issued"} /\ monitor[e] = m }

\* No lock is lost; what a cache holds is pooled and of the pool's monitor; what a
\* thread has hold of is out, and no other thread has hold of it.
Kept ==
    /\ hung = {}
    /\ \A p \in Pools, e \in Entries : e \in m_objs[p] => at[e] = "pooled" /\ monitor[e] = m_monitor[p]
    /\ \A t \in Threads, e \in Entries : e \in mine[t] => at[e] \in {"building", "issued"}
    /\ \A t \in Threads, u \in Threads, e \in Entries : e \in mine[t] /\ e \in mine[u] => t = u

\* Nothing is out of a live pool that is about to be overwritten.
Vacated ==
    \A t \in Threads :
        pc[t] \in {"enter", "abandon"} /\ op[t].kind = "move" /\ Live(op[t].pool)
          => Held(m_monitor[op[t].pool]) = {}

\* The count and the cache of a live pool.
Counted == \A p \in Pools : Live(p) => m_outstanding[p] = Cardinality(Held(m_monitor[p]))
Fresh   == \A p \in Pools : Live(p) => \A e \in m_objs[p] : poolVersion[e] = m_poolVersion[p]

\* Who sleeps in Wait or Rundown has something to wait for, and the limit of a pool
\* that is being run down is zero from then on.
Waits ==
    \A t \in Threads :
        /\ At(t, "asleep") /\ op[t].kind \in {"wait", "rundown"} => m_outstanding[op[t].pool] # 0
        /\ pc[t] \in {"asleep", "woken"} /\ op[t].kind = "rundown" => m_limit[op[t].pool] = 0

\* Nothing is out, and nothing can be issued, after a Rundown.
Closed ==
    \A p \in Pools : Live(p) /\ m_monitor[p] \in ranDown => m_limit[p] = 0 /\ m_outstanding[p] = 0

\* The cache is within its bound, unless somebody is still trimming it.
Trimming(p) == \E t \in Threads : At(t, "trim") /\ op[t].pool = p
Trimmed ==
    \A p \in Pools : Live(p) /\ ~Trimming(p) => Cardinality(m_objs[p]) <= m_maxPooled[p]

Stocked == Kept /\ Vacated /\ Counted /\ Fresh /\ Waits /\ Closed /\ Trimmed

-----------------------------------------------------------------------------
(* Types *)

LEMMA PointOK == ASSUME Typed, NEW t \in Threads, ~At(t, "idle")
                 PROVE  /\ op[t] \in Requests
                        /\ op[t].pool \in Pools
                        /\ op[t].kind \in {"limit", "max", "preallocate"} => op[t].arg \in Nat
                        /\ op[t].kind = "move" => op[t].arg \in Pools
    BY DEF Typed, Placed, Requests

LEMMA NewOK == ASSUME Room PROVE New \in Entries /\ at[New] = "free"
    BY DEF Room, New

LEMMA BackOK == ASSUME NEW p, m_objs[p] # {} PROVE Back(p) \in m_objs[p]
    BY DEF Back

LEMMA InitTyped == Init => Typed
<1> SUFFICES ASSUME Init PROVE Typed
  OBVIOUS
<1>1. TypeOK
  BY ConstantsAssumption DEF Init, TypeOK, Points, Monitors
<1>2. op \in [Threads -> Requests \cup {None}] /\ todo \in [Threads -> SUBSET Requests]
  BY ProgramsAssumption DEF Init
<1>3. \A t \in Threads : Placed(t)
  BY DEF Init, Placed, Alters, At
<1> QED BY <1>1, <1>2, <1>3 DEF Typed

\* What the parts of a step do to the types.
LEMMA TypeObtain ==
    ASSUME Typed, NEW t \in Threads, NEW p \in Pools, m_monitor[p] # None,
           ObtainNew(t, p) \/ ObtainCached(t, p),
           UNCHANGED << m_monitor, m_limit, m_maxPooled, m_poolVersion, gone, owner, m_abandoned,
                        op, todo, ranDown >>,
           left' \in [Threads -> Nat]
    PROVE  TypeOK'
<1> USE DEF Typed, TypeOK, Monitors
<1>1. CASE ObtainNew(t, p)
  <2>1. New \in Entries
    BY <1>1, NewOK DEF ObtainNew
  <2>2. {m_limit, m_maxPooled, m_outstanding, m_poolVersion}' \subseteq [Pools -> Nat]
    BY <1>1 DEF ObtainNew
  <2>3. at' \in [Entries -> {"free", "building", "issued", "pooled"}]
    BY <1>1, <2>1 DEF ObtainNew
  <2>4. monitor' \in [Entries -> Monitors \cup {None}]
    BY <1>1, <2>1 DEF ObtainNew
  <2>5. poolVersion' \in [Entries -> Nat]
    BY <1>1, <2>1 DEF ObtainNew
  <2>6. mine' \in [Threads -> SUBSET Entries]
    BY <1>1, <2>1 DEF ObtainNew
  <2>7. pc' \in [Threads -> Points]
    BY <1>1 DEF ObtainNew, Goto, Points
  <2> QED BY <1>1, <2>2, <2>3, <2>4, <2>5, <2>6, <2>7 DEF ObtainNew
<1>2. CASE ObtainCached(t, p)
  <2>1. Back(p) \in Entries
    BY <1>2, BackOK DEF ObtainCached
  <2>2. {m_limit, m_maxPooled, m_outstanding, m_poolVersion}' \subseteq [Pools -> Nat]
    BY <1>2 DEF ObtainCached
  <2>3. at' \in [Entries -> {"free", "building", "issued", "pooled"}]
    BY <1>2, <2>1 DEF ObtainCached
  <2>6. mine' \in [Threads -> SUBSET Entries]
    BY <1>2, <2>1 DEF ObtainCached
  <2>7. pc' \in [Threads -> Points]
    BY <1>2 DEF ObtainCached, Goto, Points
  <2>8. m_objs' \in [Pools -> SUBSET Entries]
    BY <1>2 DEF ObtainCached
  <2>9. hung' \subseteq Monitors
    <3>1. CASE UNCHANGED hung
      BY <3>1
    <3>2. CASE hung' = hung \cup {m_monitor[p]}
      BY <3>2
    <3> QED BY <1>2, <3>1, <3>2 DEF ObtainCached
  <2> QED BY <1>2, <2>2, <2>3, <2>6, <2>7, <2>8, <2>9 DEF ObtainCached
<1> QED BY <1>1, <1>2

LEMMA TypeReturn ==
    ASSUME Typed, NEW e \in Entries, NEW f \in [Threads -> Points], Return(e, f),
           left' \in [Threads -> Nat], mine' \in [Threads -> SUBSET Entries]
    PROVE  TypeOK'
<1> USE DEF Typed, TypeOK
<1> DEFINE p == owner[monitor[e]]
<1>1. CASE m_abandoned[monitor[e]]
  <2>1. at' \in [Entries -> {"free", "building", "issued", "pooled"}]
    BY <1>1 DEF Return
  <2> QED BY <1>1, <2>1 DEF Return, monitorVars
<1>2. CASE ~m_abandoned[monitor[e]]
  <2>0. ReturnUnsafe(e, p, f)
    BY <1>2 DEF Return
  <2>1. at' \in [Entries -> {"free", "building", "issued", "pooled"}]
    BY <2>0 DEF ReturnUnsafe
  <2>2. m_objs' \in [Pools -> SUBSET Entries]
    BY <2>0 DEF ReturnUnsafe
  <2>3. m_outstanding' \in [Pools -> Nat]
    <3> DEFINE n == Decrement(m_outstanding[p])
    <3>1. m_outstanding' = [m_outstanding EXCEPT ![p] = n]
      BY <2>0 DEF ReturnUnsafe
    <3>2. CASE p \in Pools
      <4>1. n \in Nat
        BY <3>2, ConstantsAssumption DEF Decrement
      <4> HIDE DEF n, p
      <4> QED BY <3>1, <3>2, <4>1
    <3>3. CASE p \notin Pools
      <4> HIDE DEF n, p
      <4> QED BY <3>1, <3>3
    <3> QED BY <3>2, <3>3
  <2>4. pc' \in [Threads -> Points]
    BY <2>0 DEF ReturnUnsafe, NotifyAll, Points
  <2> QED BY <1>2, <2>1, <2>2, <2>3, <2>4 DEF Return, monitorVars
<1> QED BY <1>1, <1>2

LEMMA TypeStep ==
    ASSUME Typed, NEW t \in Threads, Inside(t), Step(t)
    PROVE  TypeOK'
<1> USE DEF At, Goto, In
<1> DEFINE p == op[t].pool
<1>1. At(t, "idle") => FALSE
  BY DEF Step, Get, Wait, Timeout, Preallocate, Fill, Release, Construct, SetMaximumPooledEntities,
         Trim, SetOutstandingLimit, RundownWaits, ClearCachedEntities, Destroy, Repoint, Abandon, Swap
<1>2. p \in Pools
  BY <1>1, PointOK
<1>3. ~Alters(t) => m_monitor[p] # None
  BY <1>1 DEF Inside, Live
<1>4. ReturnNull(t) => TypeOK'
  BY DEF ReturnNull, Typed, TypeOK, poolVars, monitorVars, entryVars, Points
<1>5. Obtain(t, p) /\ ~Alters(t) => TypeOK'
  BY <1>2, <1>3, TypeObtain DEF Obtain, Typed, TypeOK
<1>6. CASE Get(t)
  BY <1>4, <1>5, <1>6 DEF Get, Alters
<1>7. CASE Wait(t)
  <2>1. CASE UNCHANGED << poolVars, monitorVars, entryVars, op, left, mine, todo, ranDown >>
               /\ Goto(t, "asleep")
    BY <2>1 DEF Typed, TypeOK, poolVars, monitorVars, entryVars, Points
  <2> QED BY <1>4, <1>5, <1>7, <2>1 DEF Wait, Alters
<1>8. CASE Timeout(t)
  BY <1>4, <1>5, <1>8 DEF Timeout, Alters
<1>9. CASE Preallocate(t)
  <2>1. left' \in [Threads -> Nat]
    BY <1>9, <1>2, PointOK DEF Preallocate, Typed, TypeOK
  <2> QED BY <1>9, <2>1 DEF Preallocate, Typed, TypeOK, poolVars, monitorVars, entryVars, Points
<1>10. CASE Fill(t)
  <2>1. left' \in [Threads -> Nat]
    <3>1. left \in [Threads -> Nat]
      BY DEF Typed, TypeOK
    <3>2. CASE UNCHANGED left
      BY <3>1, <3>2
    <3>3. CASE left[t] # 0 /\ left' = [left EXCEPT ![t] = @ - 1]
      BY <3>1, <3>3
    <3> QED BY <1>10, <3>2, <3>3 DEF Fill
  <2>2. CASE ObtainNew(t, p) \/ ObtainCached(t, p)
    <3>1. ~Alters(t)
      BY <1>10 DEF Fill, Typed, Placed
    <3>2. UNCHANGED << m_monitor, m_limit, m_maxPooled, m_poolVersion, gone, owner, m_abandoned,
                       op, todo, ranDown >>
      BY <1>10 DEF Fill, poolVars, monitorVars
    <3> HIDE DEF p
    <3> QED BY <1>2, <1>3, <2>1, <2>2, <3>1, <3>2, TypeObtain
  <2>3. CASE UNCHANGED << poolVars, monitorVars, entryVars, op, mine, todo, ranDown >>
               /\ (UNCHANGED pc \/ Goto(t, "release"))
    BY <2>1, <2>3 DEF Typed, TypeOK, poolVars, monitorVars, entryVars, Points
  <2> QED BY <1>10, <2>2, <2>3 DEF Fill
<1>11. CASE Release(t)
  <2>1. CASE mine[t] = {}
    BY <1>4, <1>11, <2>1 DEF Release
  <2>2. CASE mine[t] # {}
    <3>1. PICK e \in mine[t] : Return(e, pc) /\ mine' = [mine EXCEPT ![t] = @ \ {e}]
      BY <1>11, <2>2 DEF Release
    <3>2. e \in Entries /\ pc \in [Threads -> Points] /\ left' \in [Threads -> Nat]
          /\ mine' \in [Threads -> SUBSET Entries]
      BY <1>11, <2>2, <3>1 DEF Release, Typed, TypeOK
    <3> QED BY <3>1, <3>2, TypeReturn
  <2> QED BY <2>1, <2>2
<1>12. CASE Construct(t)
  <2>1. PICK e \in mine[t] :
           \/ /\ at' = [at EXCEPT ![e] = "issued"]
              /\ (Goto(t, "fill") /\ UNCHANGED mine)
                   \/ (Goto(t, "idle") /\ mine' = [mine EXCEPT ![t] = @ \ {e}])
              /\ UNCHANGED << poolVars, monitorVars, monitor, poolVersion, op, left, todo, ranDown >>
           \/ /\ at' = [at EXCEPT ![e] = "free"]
              /\ Goto(t, "release")
              /\ mine' = [mine EXCEPT ![t] = @ \ {e}]
              /\ UNCHANGED << poolVars, monitorVars, monitor, poolVersion, op, left, todo, ranDown >>
           \/ /\ Return(e, [pc EXCEPT ![t] = "release"])
              /\ mine' = [mine EXCEPT ![t] = @ \ {e}]
              /\ UNCHANGED left
    BY <1>12 DEF Construct
  <2>2. e \in Entries
    BY DEF Typed, TypeOK
  <2>3. CASE Return(e, [pc EXCEPT ![t] = "release"]) /\ mine' = [mine EXCEPT ![t] = @ \ {e}] /\ UNCHANGED left
    <3>1. [pc EXCEPT ![t] = "release"] \in [Threads -> Points] /\ left' \in [Threads -> Nat]
          /\ mine' \in [Threads -> SUBSET Entries]
      BY <2>3 DEF Typed, TypeOK, Points
    <3> QED BY <2>2, <2>3, <3>1, TypeReturn
  <2>4. CASE at' \in { [at EXCEPT ![e] = "issued"], [at EXCEPT ![e] = "free"] }
             /\ (Goto(t, "fill") \/ Goto(t, "idle") \/ Goto(t, "release"))
             /\ (UNCHANGED mine \/ mine' = [mine EXCEPT ![t] = @ \ {e}])
             /\ UNCHANGED << poolVars, monitorVars, monitor, poolVersion, op, left, todo, ranDown >>
    <3>1. at' \in [Entries -> {"free", "building", "issued", "pooled"}]
      BY <2>2, <2>4 DEF Typed, TypeOK
    <3>2. pc' \in [Threads -> Points] /\ mine' \in [Threads -> SUBSET Entries]
      BY <2>2, <2>4 DEF Typed, TypeOK, Points
    <3> QED BY <2>4, <3>1, <3>2 DEF Typed, TypeOK, poolVars, monitorVars
  <2> QED BY <2>1, <2>3, <2>4
<1>13. CASE SetMaximumPooledEntities(t)
  <2>1. m_maxPooled' \in [Pools -> Nat] /\ pc' \in [Threads -> Points]
    BY <1>1, <1>2, <1>13, PointOK DEF SetMaximumPooledEntities, Typed, TypeOK, Points
  <2> QED BY <1>13, <2>1 DEF SetMaximumPooledEntities, Typed, TypeOK, monitorVars, entryVars
<1>14. CASE Trim(t)
  <2>1. m_objs' \in [Pools -> SUBSET Entries] /\ at' \in [Entries -> {"free", "building", "issued", "pooled"}]
    BY <1>14 DEF Trim, Typed, TypeOK
  <2>2. pc' \in [Threads -> Points]
    BY <1>14 DEF Trim, Typed, TypeOK, Points
  <2> QED BY <1>14, <2>1, <2>2 DEF Trim, Typed, TypeOK, monitorVars
<1>15. CASE SetOutstandingLimit(t)
  <2>1. m_limit' \in [Pools -> Nat] /\ pc' \in [Threads -> Points]
    BY <1>1, <1>2, <1>15, PointOK DEF SetOutstandingLimit, Typed, TypeOK, Points
  <2> QED BY <1>15, <2>1 DEF SetOutstandingLimit, Typed, TypeOK, monitorVars, entryVars
<1>16. CASE RundownWaits(t)
  <2>1. ranDown' \subseteq Monitors /\ pc' \in [Threads -> Points]
    BY <1>2, <1>3, <1>16 DEF RundownWaits, Alters, Typed, TypeOK, Points, Monitors
  <2> QED BY <1>16, <2>1 DEF RundownWaits, Typed, TypeOK, poolVars, monitorVars, entryVars
<1>17. CASE ClearCachedEntities(t)
  <2>1. at' \in [Entries -> {"free", "building", "issued", "pooled"}]
    BY <1>17 DEF ClearCachedEntities, Cleared, Typed, TypeOK
  <2>2. m_objs' \in [Pools -> SUBSET Entries] /\ m_poolVersion' \in [Pools -> Nat]
    BY <1>2, <1>17 DEF ClearCachedEntities, Typed, TypeOK
  <2>3. gone' \subseteq Pools /\ pc' \in [Threads -> Points]
    BY <1>2, <1>17 DEF ClearCachedEntities, Typed, TypeOK, Points
  <2> QED BY <1>17, <2>1, <2>2, <2>3 DEF ClearCachedEntities, Typed, TypeOK, monitorVars
<1>18. CASE Destroy(t)
  <2>1. gone' \subseteq Pools /\ pc' \in [Threads -> Points]
    BY <1>2, <1>18 DEF Destroy, Typed, TypeOK, Points
  <2> QED BY <1>18, <2>1 DEF Destroy, Typed, TypeOK, monitorVars, entryVars
<1>19. CASE Repoint(t)
  <2>1. owner' \in [Monitors -> Pools] /\ pc' \in [Threads -> Points]
    BY <1>1, <1>2, <1>19, PointOK DEF Repoint, Typed, TypeOK, Points
  <2> QED BY <1>19, <2>1 DEF Repoint, Typed, TypeOK, poolVars, entryVars
<1>20. CASE Abandon(t)
  <2>1. m_abandoned' \in [Monitors -> BOOLEAN] /\ pc' \in [Threads -> Points]
    BY <1>2, <1>20 DEF Abandon, Abandoned, Typed, TypeOK, Points
  <2> QED BY <1>20, <2>1 DEF Abandon, Typed, TypeOK, poolVars, entryVars
<1>21. CASE Swap(t)
  <2>1. op[t].arg \in Pools
    BY <1>1, <1>21, PointOK DEF Swap, Typed, Placed
  <2>2. m_monitor' \in [Pools -> Monitors \cup {None}] /\ m_objs' \in [Pools -> SUBSET Entries]
    BY <1>2, <2>1, <1>21 DEF Swap, Typed, TypeOK
  <2>3. {m_limit, m_maxPooled, m_outstanding, m_poolVersion}' \subseteq [Pools -> Nat]
    BY <1>2, <2>1, <1>21 DEF Swap, Typed, TypeOK
  <2>4. owner' \in [Monitors -> Pools] /\ pc' \in [Threads -> Points]
    BY <1>2, <2>1, <1>21 DEF Swap, Typed, TypeOK, Points
  <2> QED BY <1>21, <2>2, <2>3, <2>4 DEF Swap, Typed, TypeOK, entryVars
<1> QED BY <1>6, <1>7, <1>8, <1>9, <1>10, <1>11, <1>12, <1>13, <1>14, <1>15, <1>16, <1>17, <1>18,
           <1>19, <1>20, <1>21 DEF Step

-----------------------------------------------------------------------------
(* Where the threads are *)

\* A step of a call that alters no pool, or the return of an object: who alters one
\* stays where it is.
Moves(u) ==
    pc'[u] # pc[u] =>
        ~At(u, "idle") /\ ~Alters(u) /\ Placed(u)' /\ pc'[u] \notin {"abandon", "swap", "clear"}

Calm == UNCHANGED << op, todo, m_monitor, owner, m_abandoned, gone >> /\ \A u \in Threads : Moves(u)

LEMMA MovesTo ==
    ASSUME Typed, NEW t \in Threads, ~At(t, "idle"), ~Alters(t), NEW l, pc' = [pc EXCEPT ![t] = l],
           UNCHANGED op,
           l \in Points \ {"abandon", "swap", "clear"},
           l = "trim" => op[t].kind \in {"max", "rundown"},
           l = "limit" => op[t].kind = "rundown",
           l \in {"asleep", "woken"} => op[t].kind \in {"wait", "waitfor", "rundown"}
    PROVE  \A u \in Threads : Moves(u)
<1> TAKE u \in Threads
<1>1. CASE u # t
  BY <1>1 DEF Moves, Typed, TypeOK
<1>2. CASE u = t
  <2>1. pc'[t] = l
    BY DEF Typed, TypeOK
  <2>2. op[t] \in Requests /\ op[t].kind \notin {"destroy", "move"}
    BY PointOK DEF Alters
  <2>3. Placed(t)'
    BY <2>1, <2>2 DEF Placed, Alters, At
  <2> QED BY <1>2, <2>1, <2>3 DEF Moves
<1> QED BY <1>1, <1>2

LEMMA MovesObtain ==
    ASSUME Typed, NEW t \in Threads, ~At(t, "idle"), ~Alters(t), NEW p,
           ObtainNew(t, p) \/ ObtainCached(t, p), UNCHANGED op
    PROVE  \A u \in Threads : Moves(u)
<1>1. PICK l \in {"construct", "fill", "idle", "stuck"} : pc' = [pc EXCEPT ![t] = l]
  BY DEF ObtainNew, ObtainCached, Goto
<1> QED BY <1>1, MovesTo DEF Points

LEMMA MovesReturn ==
    ASSUME Typed, NEW e \in Entries, NEW f \in [Threads -> Points], Return(e, f),
           \A u \in Threads :
              f[u] = pc[u] \/ (f[u] = "release" /\ At(u, "construct"))
    PROVE  \A u \in Threads : Moves(u)
<1> TAKE u \in Threads
<1>1. UNCHANGED op
  BY DEF Return
<1>2. pc'[u] = f[u] \/ (f[u] = "asleep" /\ pc'[u] = "woken")
  BY DEF Return, ReturnUnsafe, NotifyAll
<1>3. Placed(u) /\ pc[u] \in Points
  BY DEF Typed, TypeOK
<1>4. CASE pc'[u] = pc[u]
  BY <1>4 DEF Moves
<1>5. CASE pc[u] = "asleep" /\ pc'[u] = "woken"
  BY <1>1, <1>3, <1>5 DEF Moves, Placed, At, Alters
<1>6. CASE pc[u] = "construct" /\ pc'[u] = "release"
  BY <1>1, <1>3, <1>6 DEF Moves, Placed, At, Alters
<1> QED BY <1>2, <1>4, <1>5, <1>6 DEF At

\* The steps that alter no pool are calm.
Alteration(t) ==
    \/ In(t, "destroy", "clear") /\ ClearCachedEntities(t)
    \/ Destroy(t) \/ Repoint(t) \/ Abandon(t) \/ Swap(t)

LEMMA StepCalm ==
    ASSUME Typed, NEW t \in Threads, Step(t), ~Alteration(t)
    PROVE  Calm /\ ~At(t, "idle") /\ ~Alters(t)
<1> USE DEF In
<1> DEFINE Still == UNCHANGED << op, todo, m_monitor, owner, m_abandoned, gone >>
<1> DEFINE Good == Still /\ ~At(t, "idle") /\ ~Alters(t) /\ \A u \in Threads : Moves(u)
<1>0. Placed(t)
  BY DEF Typed
<1>1. ReturnNull(t) => Still /\ pc' = [pc EXCEPT ![t] = "idle"]
  BY DEF ReturnNull, poolVars, monitorVars, Goto
<1>2. ASSUME ~At(t, "idle"), ~Alters(t), ReturnNull(t) PROVE Good
  BY <1>1, <1>2, MovesTo DEF Points
<1>3. ASSUME ~At(t, "idle"), ~Alters(t), Obtain(t, op[t].pool) PROVE Good
  BY <1>3, MovesObtain DEF Obtain
<1>4. CASE Get(t)
  <2>1. ~At(t, "idle") /\ ~Alters(t)
    BY <1>4 DEF Get, At, Alters
  <2> QED BY <1>2, <1>3, <1>4, <2>1 DEF Get, Calm
<1>5. CASE Wait(t)
  <2>1. ~At(t, "idle") /\ ~Alters(t) /\ op[t].kind \in {"wait", "waitfor"}
    BY <1>5 DEF Wait, At, Alters
  <2>2. CASE Goto(t, "asleep")
             /\ UNCHANGED << poolVars, monitorVars, entryVars, op, left, mine, todo, ranDown >>
    <3>1. Still
      BY <2>2 DEF poolVars, monitorVars
    <3> QED BY <2>1, <2>2, <3>1, MovesTo DEF Points, Goto, Calm
  <2> QED BY <1>2, <1>3, <1>5, <2>1, <2>2 DEF Wait, Calm
<1>6. CASE Timeout(t)
  <2>1. ~At(t, "idle") /\ ~Alters(t)
    BY <1>6 DEF Timeout, At, Alters
  <2> QED BY <1>2, <1>3, <1>6, <2>1 DEF Timeout, Calm
<1>7. CASE Preallocate(t)
  <2>1. ~At(t, "idle") /\ ~Alters(t) /\ pc' = [pc EXCEPT ![t] = "fill"] /\ Still
    BY <1>7 DEF Preallocate, At, Alters, Goto, poolVars, monitorVars
  <2> QED BY <2>1, MovesTo DEF Points, Calm
<1>8. CASE Fill(t)
  <2>1. ~At(t, "idle") /\ ~Alters(t) /\ Still
    BY <1>0, <1>8 DEF Fill, At, Alters, Placed, poolVars, monitorVars
  <2>2. CASE ObtainNew(t, op[t].pool) \/ ObtainCached(t, op[t].pool)
    BY <2>1, <2>2, MovesObtain DEF Calm
  <2>3. CASE UNCHANGED pc
    BY <2>1, <2>3 DEF Calm, Moves
  <2>4. CASE pc' = [pc EXCEPT ![t] = "release"]
    BY <2>1, <2>4, MovesTo DEF Points, Calm
  <2> QED BY <1>8, <2>2, <2>3, <2>4 DEF Fill, Goto
<1>9. CASE Release(t)
  <2>1. ~At(t, "idle") /\ ~Alters(t)
    BY <1>0, <1>9 DEF Release, At, Alters, Placed
  <2>2. CASE \E e \in mine[t] : Return(e, pc)
    <3>1. PICK e \in mine[t] : Return(e, pc)
      BY <2>2
    <3>2. e \in Entries /\ pc \in [Threads -> Points]
      BY DEF Typed, TypeOK
    <3> QED BY <2>1, <3>1, <3>2, MovesReturn DEF Calm, Return, monitorVars
  <2> QED BY <1>2, <1>9, <2>1, <2>2 DEF Release, Calm
<1>10. CASE Construct(t)
  <2>1. ~At(t, "idle") /\ ~Alters(t)
    BY <1>0, <1>10 DEF Construct, At, Alters, Placed
  <2>2. CASE \E e \in mine[t] : Return(e, [pc EXCEPT ![t] = "release"])
    <3>1. PICK e \in mine[t] : Return(e, [pc EXCEPT ![t] = "release"])
      BY <2>2
    <3>2. e \in Entries /\ [pc EXCEPT ![t] = "release"] \in [Threads -> Points]
      BY DEF Typed, TypeOK, Points
    <3>3. \A u \in Threads : [pc EXCEPT ![t] = "release"][u] = pc[u]
             \/ ([pc EXCEPT ![t] = "release"][u] = "release" /\ At(u, "construct"))
      BY <1>10 DEF Construct, Typed, TypeOK
    <3> QED BY <2>1, <3>1, <3>2, <3>3, MovesReturn DEF Calm, Return, monitorVars
  <2>3. CASE \E l \in {"fill", "idle", "release"} : Still /\ pc' = [pc EXCEPT ![t] = l]
    BY <2>1, <2>3, MovesTo DEF Points, Calm
  <2> QED BY <1>10, <2>2, <2>3 DEF Construct, Goto, poolVars, monitorVars
<1>11. CASE SetMaximumPooledEntities(t)
  <2>1. ~At(t, "idle") /\ ~Alters(t) /\ Still /\ op[t].kind \in {"max", "rundown"}
        /\ pc' = [pc EXCEPT ![t] = "trim"]
    BY <1>11 DEF SetMaximumPooledEntities, At, Alters, Goto, monitorVars
  <2> QED BY <2>1, MovesTo DEF Points, Calm
<1>12. CASE Trim(t)
  <2>1. ~At(t, "idle") /\ ~Alters(t) /\ Still
    BY <1>0, <1>12 DEF Trim, At, Alters, Placed, monitorVars
  <2>2. CASE UNCHANGED pc
    BY <2>1, <2>2 DEF Calm, Moves
  <2>3. CASE op[t].kind = "rundown" /\ pc' = [pc EXCEPT ![t] = "limit"]
    BY <2>1, <2>3, MovesTo DEF Points, Calm
  <2>4. CASE pc' = [pc EXCEPT ![t] = "idle"]
    BY <2>1, <2>4, MovesTo DEF Points, Calm
  <2> QED BY <1>12, <2>2, <2>3, <2>4 DEF Trim, Goto
<1>13. CASE SetOutstandingLimit(t)
  <2>1. ~At(t, "idle") /\ ~Alters(t) /\ Still
    BY <1>13 DEF SetOutstandingLimit, At, Alters, monitorVars
  <2>2. CASE op[t].kind = "rundown" /\ pc' = [pc EXCEPT ![t] = "woken"]
    BY <2>1, <2>2, MovesTo DEF Points, Calm
  <2>3. CASE pc' = [pc EXCEPT ![t] = "idle"]
    BY <2>1, <2>3, MovesTo DEF Points, Calm
  <2> QED BY <1>13, <2>2, <2>3 DEF SetOutstandingLimit, Goto
<1>14. CASE RundownWaits(t)
  <2>1. ~At(t, "idle") /\ ~Alters(t) /\ Still /\ op[t].kind = "rundown"
    BY <1>14 DEF RundownWaits, At, Alters, poolVars, monitorVars
  <2>2. CASE pc' = [pc EXCEPT ![t] = "asleep"]
    BY <2>1, <2>2, MovesTo DEF Points, Calm
  <2>3. CASE pc' = [pc EXCEPT ![t] = "idle"]
    BY <2>1, <2>3, MovesTo DEF Points, Calm
  <2> QED BY <1>14, <2>2, <2>3 DEF RundownWaits, Goto
<1>15. CASE ClearCachedEntities(t)
  <2>1. ~At(t, "idle") /\ ~Alters(t) /\ Still /\ pc' = [pc EXCEPT ![t] = "idle"]
    BY <1>15 DEF ClearCachedEntities, Alteration, At, Alters, Goto, monitorVars
  <2> QED BY <2>1, MovesTo DEF Points, Calm
<1> QED BY <1>4, <1>5, <1>6, <1>7, <1>8, <1>9, <1>10, <1>11, <1>12, <1>13, <1>14, <1>15 DEF Step, Alteration

LEMMA SpuriousCalm ==
    ASSUME Typed, NEW t \in Threads, Spurious(t)
    PROVE  Calm /\ TypeOK'
<1>1. ~At(t, "idle") /\ ~Alters(t) /\ op[t].kind \in {"wait", "waitfor", "rundown"}
      /\ UNCHANGED << op, todo, m_monitor, owner, m_abandoned, gone >> /\ pc' = [pc EXCEPT ![t] = "woken"]
  BY DEF Spurious, Typed, Placed, At, Alters, Goto, poolVars, monitorVars
<1>2. Calm
  BY <1>1, MovesTo DEF Points, Calm
<1>3. TypeOK'
  BY DEF Spurious, Typed, TypeOK, poolVars, monitorVars, entryVars, Goto, Points
<1> QED BY <1>2, <1>3

LEMMA DropCalm ==
    ASSUME Typed, NEW e \in Entries, Drop(e)
    PROVE  Calm /\ TypeOK'
<1>1. Return(e, pc) /\ pc \in [Threads -> Points] /\ left' \in [Threads -> Nat]
      /\ mine' \in [Threads -> SUBSET Entries]
  BY DEF Drop, Typed, TypeOK
<1>2. Calm
  BY <1>1, MovesReturn DEF Calm, Return, monitorVars
<1>3. TypeOK'
  BY <1>1, TypeReturn
<1> QED BY <1>2, <1>3

\* What a calm step leaves of where the threads are.
Structure == Alone /\ Leads /\ \A t \in Threads : Inside(t)

LEMMA CalmStructure ==
    ASSUME Typed, Structure, Calm, TypeOK'
    PROVE  Typed' /\ Structure'
<1>1. \A u \in Threads : Alters(u)' => Alters(u) /\ pc'[u] = pc[u]
  BY DEF Calm, Moves, Alters, At
<1>2. \A u \in Threads : Alters(u) => pc'[u] = pc[u] /\ Alters(u)'
  BY DEF Calm, Moves, Alters, At
<1>3. \A u \in Threads, p \in Pools : Uses(u, p)' => Uses(u, p)
  BY DEF Calm, Moves, Uses, At
<1>4. Typed'
  <2>1. \A u \in Threads : Placed(u)'
    BY DEF Calm, Moves, Typed, Placed, Alters, At
  <2> QED BY <2>1 DEF Typed, Calm
<1>5. Alone'
  BY <1>1, <1>3 DEF Structure, Alone
<1>6. \A p \in Pools : Live(p)' <=> Live(p)
  BY DEF Live, Calm
<1>7. Leads'
  <2>1. \A u \in Threads, p \in Pools : Aside(u, p) => Aside(u, p)'
    <3> SUFFICES ASSUME NEW u \in Threads, NEW p \in Pools, Aside(u, p) PROVE Aside(u, p)'
      OBVIOUS
    <3>1. Alters(u)
      BY DEF Aside, Alters, At
    <3>2. pc'[u] = pc[u]
      BY <1>2, <3>1
    <3> QED BY <3>2 DEF Aside, Calm, At
  <2>2. gone \subseteq Pools /\ UNCHANGED << gone, m_monitor, owner >>
    BY DEF Calm, Typed, TypeOK
  <2>3. \A p \in gone' : ~Live(p)'
    BY <1>6, <2>2 DEF Structure, Leads
  <2>4. \A p \in Pools, q \in Pools : (m_monitor[p] = m_monitor[q] /\ m_monitor[p] # None => p = q)'
    BY <2>2 DEF Structure, Leads
  <2>5. \A p \in Pools : (Live(p) => owner[m_monitor[p]] = p \/ \E t \in Threads : Aside(t, p))'
    BY <1>6, <2>1, <2>2 DEF Structure, Leads
  <2> QED BY <2>3, <2>4, <2>5 DEF Leads
<1>8. ASSUME NEW t \in Threads PROVE Inside(t)'
  <2>1. CASE pc'[t] = pc[t]
    <3>1. ~At(t, "idle") => op[t].pool \in Pools /\ (Live(op[t].pool)' <=> Live(op[t].pool))
      BY <1>6, PointOK DEF Calm, Live
    <3>2. gone \subseteq Pools
      BY DEF Typed, TypeOK
    <3>3. \A p \in gone' : ~Uses(t, p)'
      BY <1>3, <3>2 DEF Structure, Inside, Calm
    <3> QED BY <2>1, <3>1, <3>3 DEF Inside, Structure, Calm, At, Alters
  <2>2. CASE pc'[t] # pc[t]
    <3>1. ~At(t, "idle") /\ ~Alters(t) /\ pc'[t] \notin {"abandon", "swap", "clear"} /\ ~Alters(t)'
      BY <2>2, <1>1 DEF Calm, Moves
    <3>2. op[t].pool \in Pools /\ Live(op[t].pool)
      BY <3>1, PointOK DEF Structure, Inside
    <3>3. Live(op[t].pool)'
      BY <3>2 DEF Live, Calm
    <3>4. \A p \in gone' : ~Uses(t, p)'
      BY <1>3 DEF Structure, Inside, Calm, Typed, TypeOK
    <3> QED BY <3>1, <3>3, <3>4 DEF Inside, Calm, At
  <2> QED BY <2>1, <2>2
<1> QED BY <1>4, <1>5, <1>7, <1>8 DEF Structure

\* A call, or a step of one that alters pools, is a matter of its own thread.
Only(t, l) == pc' = [pc EXCEPT ![t] = l] /\ \A u \in Threads \ {t} : op'[u] = op[u]

LEMMA OnlyOthers ==
    ASSUME Typed, NEW t \in Threads, NEW l, Only(t, l)
    PROVE  /\ pc'[t] = l
           /\ \A u \in Threads \ {t} :
                /\ pc'[u] = pc[u] /\ op'[u] = op[u]
                /\ Alters(u)' <=> Alters(u)
                /\ Placed(u)' <=> Placed(u)
                /\ \A p \in Pools : Uses(u, p)' <=> Uses(u, p)
<1>1. pc'[t] = l /\ \A u \in Threads \ {t} : pc'[u] = pc[u] /\ op'[u] = op[u]
  BY DEF Only, Typed, TypeOK
<1>2. \A u \in Threads \ {t} : (Alters(u)' <=> Alters(u)) /\ \A p \in Pools : Uses(u, p)' <=> Uses(u, p)
  BY <1>1 DEF Alters, Uses, At
<1>3. \A u \in Threads \ {t} : Placed(u)' <=> Placed(u)
  BY <1>1 DEF Placed, Alters, At
<1> QED BY <1>1, <1>2, <1>3

LEMMA CallTyped ==
    ASSUME Typed, NEW t \in Threads, Call(t) \/ CallAlone(t)
    PROVE  Typed' /\ Only(t, "enter")
<1>1. PICK w \in todo[t] : op' = [op EXCEPT ![t] = w] /\ todo' = [todo EXCEPT ![t] = @ \ {w}]
  BY DEF Call, CallAlone
<1>2. w \in Requests
  BY DEF Typed
<1>3. pc' = [pc EXCEPT ![t] = "enter"]
      /\ UNCHANGED << poolVars, monitorVars, entryVars, left, mine, ranDown >>
  BY DEF Call, CallAlone, Goto
<1>4. TypeOK'
  BY <1>3 DEF Typed, TypeOK, poolVars, monitorVars, entryVars, Points
<1>5. op' \in [Threads -> Requests \cup {None}] /\ todo' \in [Threads -> SUBSET Requests]
      /\ op'[t] = w /\ Only(t, "enter")
  BY <1>1, <1>2, <1>3 DEF Typed, Only
<1>6. \A u \in Threads \ {t} : Placed(u)'
  BY <1>5, OnlyOthers DEF Typed
<1>7. pc'[t] = "enter"
  BY <1>5, OnlyOthers
<1>8. Placed(t)'
  BY <1>2, <1>5, <1>7 DEF Placed, At, Alters
<1> QED BY <1>4, <1>5, <1>6, <1>8 DEF Typed

LEMMA CallStructure ==
    ASSUME Typed, Structure, NEW t \in Threads, Call(t) \/ CallAlone(t)
    PROVE  Structure'
<1>1. Typed' /\ Only(t, "enter")
  BY CallTyped
<1>2. pc'[t] = "enter" /\ At(t, "idle")
      /\ UNCHANGED << m_monitor, gone, owner, m_abandoned >> /\ gone \subseteq Pools
  BY <1>1, OnlyOthers DEF Call, CallAlone, poolVars, monitorVars, Typed, TypeOK
<1>3. \A p \in Pools : Live(p)' <=> Live(p)
  BY <1>2 DEF Live
<1>4. PICK w \in todo[t] :
         /\ op'[t] = w
         /\ \/ w.kind \notin {"destroy", "move"} /\ Usable(w.pool)
            \/ /\ w.pool \notin gone /\ Quiet(t, w.pool)
               /\ \/ w.kind = "destroy"
                  \/ w.kind = "move" /\ Quiet(t, w.arg) /\ w.arg \notin gone /\ m_monitor[w.arg] # None
  BY DEF Call, CallAlone, Typed
<1>5. w \in Requests /\ w.pool \in Pools /\ (w.kind = "move" => w.arg \in Pools)
  BY DEF Typed, Requests
<1>6. \A p \in Pools : Uses(t, p)' <=> p = w.pool \/ (w.kind = "move" /\ p = w.arg)
  BY <1>2, <1>4 DEF Uses, At
<1>7. Alters(t)' <=> w.kind \in {"destroy", "move"}
  BY <1>2, <1>4 DEF Alters, At
<1>8. Alone'
  <2> SUFFICES ASSUME NEW x \in Threads, NEW u \in Threads, NEW p \in Pools,
                      Alters(x)', Uses(x, p)', Uses(u, p)', u # x
               PROVE  FALSE
    BY DEF Alone
  <2>1. CASE x # t /\ u # t
    BY <2>1, <1>1, OnlyOthers DEF Structure, Alone
  <2>2. CASE x = t
    <3>1. Uses(u, p) /\ u # t
      BY <2>2, <1>1, OnlyOthers
    <3>2. Quiet(t, p)
      BY <1>4, <1>6, <1>7, <2>2
    <3> QED BY <3>1, <3>2 DEF Quiet, Uses
  <2>3. CASE u = t
    <3>1. Alters(x) /\ Uses(x, p) /\ x # t
      BY <2>3, <1>1, OnlyOthers
    <3>2. CASE w.kind \notin {"destroy", "move"}
      BY <1>4, <1>6, <2>3, <3>1, <3>2 DEF Usable, Alters, Uses
    <3>3. CASE w.kind \in {"destroy", "move"}
      <4>1. Quiet(t, p)
        BY <1>4, <1>6, <2>3, <3>3
      <4> QED BY <3>1, <4>1 DEF Quiet, Uses
    <3> QED BY <3>2, <3>3
  <2> QED BY <2>1, <2>2, <2>3
<1>9. Leads'
  <2>1. \A u \in Threads, p \in Pools : Aside(u, p) => Aside(u, p)'
    <3> SUFFICES ASSUME NEW u \in Threads, NEW p \in Pools, Aside(u, p) PROVE Aside(u, p)'
      OBVIOUS
    <3>1. u # t
      BY <1>2 DEF Aside, At
    <3> QED BY <1>1, <1>2, <3>1, OnlyOthers DEF Aside, At
  <2>2. \A p \in Pools : Live(p)' => (owner[m_monitor[p]] = p)' \/ \E u \in Threads : Aside(u, p)'
    BY <1>2, <1>3, <2>1 DEF Structure, Leads
  <2>3. \A p \in gone' : ~Live(p)'
    BY <1>2, <1>3 DEF Structure, Leads
  <2>4. \A p \in Pools, q \in Pools : (m_monitor[p] = m_monitor[q] /\ m_monitor[p] # None => p = q)'
    BY <1>2 DEF Structure, Leads
  <2> QED BY <2>2, <2>3, <2>4 DEF Leads
<1>10. Inside(t)'
  <2>1. ~Alters(t)' => Live(w.pool)
    BY <1>4, <1>7 DEF Usable, Live
  <2>2. ~Alters(t)' => Live(op[t].pool)'
    BY <1>2, <1>4, <2>1 DEF Live
  <2>3. \A p \in gone' : ~Uses(t, p)'
    BY <1>2, <1>4, <1>6, <1>7, <2>1 DEF Structure, Leads
  <2>4. (op[t].kind = "move" => m_monitor[op[t].arg] # None)'
    BY <1>2, <1>4
  <2> QED BY <1>2, <2>2, <2>3, <2>4 DEF Inside, At
<1>11. ASSUME NEW u \in Threads \ {t} PROVE Inside(u)'
  <2>1. pc'[u] = pc[u] /\ op'[u] = op[u] /\ Inside(u)
        /\ (~At(u, "idle") => op[u].pool \in Pools) /\ (Alters(u)' <=> Alters(u))
        /\ \A p \in Pools : Uses(u, p)' <=> Uses(u, p)
    BY <1>1, OnlyOthers, PointOK DEF Structure
  <2>2. ~At(u, "idle") => (Live(op[u].pool)' <=> Live(op[u].pool))
    BY <1>2, <2>1 DEF Live
  <2> QED BY <1>2, <2>1, <2>2 DEF Inside, At
<1> QED BY <1>8, <1>9, <1>10, <1>11 DEF Structure

\* A step that alters a pool is made by a thread that alters it, and goes on with it.
LEMMA AlterTyped ==
    ASSUME Typed, NEW t \in Threads, Inside(t), Step(t), Alteration(t)
    PROVE  /\ Typed' /\ Alters(t) /\ UNCHANGED << op, todo >>
           /\ \E l \in {"idle", "abandon", "clear", "swap"} : Only(t, l)
<1>1. TypeOK'
  BY TypeStep
<1>2. Alters(t) /\ Placed(t) /\ UNCHANGED << op, todo >>
  BY DEF Alteration, ClearCachedEntities, Destroy, Repoint, Abandon, Swap, Typed, Placed, In, At, Alters
<1>3. PICK l \in {"idle", "abandon", "clear", "swap"} :
         /\ pc' = [pc EXCEPT ![t] = l]
         /\ l = "clear" => op[t].kind = "destroy"
         /\ l = "swap" => op[t].kind = "move"
  <2>1. op[t].kind \in {"destroy", "move"}
    BY <1>2 DEF Alters
  <2> QED BY <2>1 DEF Alteration, ClearCachedEntities, Destroy, Repoint, Abandon, Swap, In, Goto
<1>4. Only(t, l)
  BY <1>2, <1>3 DEF Only
<1>5. pc'[t] = l
  BY <1>4, OnlyOthers
<1>6. Placed(t)'
  BY <1>2, <1>3, <1>5 DEF Placed, Alters, At
<1>7. \A u \in Threads \ {t} : Placed(u)'
  BY <1>4, OnlyOthers DEF Typed
<1> QED BY <1>1, <1>2, <1>4, <1>6, <1>7 DEF Typed

\* It is alone, and the pools others are in are not the ones it alters.
LEMMA AlterOthers ==
    ASSUME Typed, Structure, NEW t \in Threads, Step(t), Alteration(t)
    PROVE  /\ Alone'
           /\ \A u \in Threads \ {t} :
                /\ pc'[u] = pc[u] /\ op'[u] = op[u] /\ (Alters(u)' <=> Alters(u))
                /\ \A p \in Pools : (Uses(u, p)' <=> Uses(u, p)) /\ ~(Uses(u, p) /\ Uses(t, p))
<1>1. Alters(t) /\ UNCHANGED op /\ \E l \in {"idle", "abandon", "clear", "swap"} : Only(t, l)
  BY AlterTyped DEF Structure
<1>2. PICK l \in {"idle", "abandon", "clear", "swap"} : Only(t, l)
  BY <1>1
<1>3. \A u \in Threads \ {t} :
        /\ pc'[u] = pc[u] /\ op'[u] = op[u] /\ (Alters(u)' <=> Alters(u))
        /\ \A p \in Pools : (Uses(u, p)' <=> Uses(u, p))
  BY <1>2, OnlyOthers
<1>4. \A p \in Pools : Uses(t, p)' => Uses(t, p)
  BY <1>1 DEF Uses, Alters, At
<1>5. Alone'
  BY <1>1, <1>3, <1>4 DEF Structure, Alone
<1> QED BY <1>1, <1>3, <1>5 DEF Structure, Alone

\* The pools of the others stay as they are when those of t alone change.
LEMMA AlterInside ==
    ASSUME Typed, Structure, NEW t \in Threads, Step(t), Alteration(t),
           \A p \in Pools : Uses(t, p)
              \/ (m_monitor'[p] = m_monitor[p] /\ (Live(p)' <=> Live(p)) /\ (p \in gone' <=> p \in gone)),
           gone' \subseteq Pools
    PROVE  \A u \in Threads \ {t} : Inside(u)'
<1> TAKE u \in Threads \ {t}
<1>1. /\ pc'[u] = pc[u] /\ op'[u] = op[u] /\ (Alters(u)' <=> Alters(u)) /\ Inside(u)
      /\ \A p \in Pools : (Uses(u, p)' <=> Uses(u, p)) /\ ~(Uses(u, p) /\ Uses(t, p))
  BY AlterOthers DEF Structure
<1>2. \A p \in Pools : Uses(u, p) =>
         m_monitor'[p] = m_monitor[p] /\ (Live(p)' <=> Live(p)) /\ (p \in gone' <=> p \in gone)
  BY <1>1
<1>3. \A p \in gone' : ~Uses(u, p)'
  BY <1>1, <1>2 DEF Inside
<1>4. CASE At(u, "idle")
  BY <1>1, <1>3, <1>4 DEF Inside, At, Alters
<1>5. CASE ~At(u, "idle")
  <2>1. op[u].pool \in Pools /\ Uses(u, op[u].pool)
        /\ (op[u].kind = "move" => op[u].arg \in Pools /\ Uses(u, op[u].arg))
    BY <1>5, PointOK DEF Uses
  <2>2. Live(op[u].pool)' <=> Live(op[u].pool)
    <3>1. PICK p \in Pools : p = op[u].pool
      BY <2>1
    <3>2. op[u].pool' = p
      BY <1>1, <3>1
    <3> QED BY <1>2, <2>1, <3>1, <3>2 DEF Live
  <2> QED BY <1>1, <1>2, <1>3, <1>5, <2>1, <2>2 DEF Inside, At
<1> QED BY <1>4, <1>5

LEMMA AlterStructure ==
    ASSUME Typed, Structure, NEW t \in Threads, Step(t), Alteration(t)
    PROVE  Structure'
<1>1. Alters(t) /\ UNCHANGED op /\ Inside(t) /\ ~At(t, "idle")
  BY AlterTyped DEF Structure, Alters
<1> PICK p : p = op[t].pool
  OBVIOUS
<1> PICK q : q = op[t].arg
  OBVIOUS
<1>2. p \in Pools /\ Uses(t, p) /\ (op[t].kind = "move" => q \in Pools /\ Uses(t, q) /\ m_monitor[q] # None)
  BY <1>1, PointOK DEF Uses, Inside
<1>3. p \notin gone /\ (op[t].kind = "move" => q \notin gone) /\ gone \subseteq Pools
  BY <1>1, <1>2 DEF Inside, Typed, TypeOK
<1>4. Alone' /\ \A u \in Threads \ {t} : pc'[u] = pc[u] /\ op'[u] = op[u] /\ ~Uses(u, p)
  BY <1>2, AlterOthers
<1>5. \A r \in Pools : Uses(t, r) => r = p \/ (op[t].kind = "move" /\ r = q)
  BY DEF Uses
<1>6. PICK l \in {"idle", "abandon", "clear", "swap"} : pc'[t] = l
  BY AlterTyped, OnlyOthers DEF Structure
<1>7. m_monitor \in [Pools -> Pools \cup {None}] /\ owner \in [Pools -> Pools]
      /\ m_abandoned \in [Pools -> BOOLEAN] /\ pc \in [Threads -> Points] /\ None \notin Pools
  BY ConstantsAssumption DEF Typed, TypeOK, Monitors
<1>8. /\ \A r \in gone : ~Live(r)
      /\ \A r \in Pools, s \in Pools : m_monitor[r] = m_monitor[s] /\ m_monitor[r] # None => r = s
      /\ \A r \in Pools : Live(r) => owner[m_monitor[r]] = r \/ \E u \in Threads : Aside(u, r)
  BY DEF Structure, Leads
\* The destructor and the clearing at its end.
<1>9. CASE UNCHANGED << m_monitor, owner, m_abandoned >> /\ gone' \in {gone, gone \cup {p}}
           /\ op[t].kind = "destroy"
           /\ \/ gone' = gone /\ pc'[t] = "abandon" /\ m_monitor[p] # None
              \/ ~Live(p) /\ pc'[t] = "idle"
  <2>1. \A r \in Pools : Live(r)' <=> Live(r)
    BY <1>9 DEF Live
  <2>2. \A u \in Threads \ {t} : Inside(u)'
    <3>1. \A r \in Pools : r # p => (r \in gone' <=> r \in gone)
      BY <1>9
    <3>2. gone' \subseteq Pools
      BY <1>2, <1>3, <1>9
    <3> QED BY <1>2, <1>9, <2>1, <3>1, <3>2, AlterInside
  <2>3. \A r \in gone' : ~Uses(t, r)'
    <3>1. CASE pc'[t] = "idle"
      BY <3>1 DEF Uses, At
    <3>2. CASE gone' = gone
      BY <1>1, <3>2 DEF Uses, Inside, At
    <3> QED BY <1>9, <3>1, <3>2
  <2>4. Inside(t)'
    BY <1>1, <1>9, <2>3 DEF Inside, At, Alters
  <2>5. Leads'
    <3>1. \A r \in gone' : ~Live(r)'
      <4>1. CASE gone' = gone
        BY <1>3, <1>8, <2>1, <4>1
      <4>2. CASE gone' = gone \cup {p} /\ ~Live(p)
        BY <1>2, <1>3, <1>8, <2>1, <4>2
      <4> QED BY <1>9, <4>1, <4>2
    <3>2. \A u \in Threads, r \in Pools : Aside(u, r) => Aside(u, r)'
      BY <1>4, <1>9 DEF Aside, At
    <3>3. \A r \in Pools : Live(r)' => (owner[m_monitor[r]] = r)' \/ \E u \in Threads : Aside(u, r)'
      BY <1>8, <1>9, <2>1, <3>2
    <3> QED BY <1>8, <1>9, <3>1, <3>3 DEF Leads
  <2> QED BY <1>4, <2>2, <2>4, <2>5 DEF Structure
<1>10. CASE Repoint(t)
  <2>0. op[t].kind = "move" /\ UNCHANGED << m_monitor, m_abandoned, gone >>
    BY <1>10 DEF Repoint, In, poolVars
  <2>1. \A r \in Pools : Live(r)' <=> Live(r)
    BY <2>0 DEF Live
  <2>2. \A u \in Threads \ {t} : Inside(u)'
    BY <1>3, <2>0, <2>1, AlterInside
  <2>3. \/ pc'[t] = "swap" /\ m_monitor[p] = None /\ UNCHANGED owner
        \/ pc'[t] = "abandon" /\ m_monitor[p] # None /\ owner' = [owner EXCEPT ![m_monitor[p]] = q]
    BY <1>7, <1>10 DEF Repoint, Goto
  <2>4. \A r \in gone' : ~Uses(t, r)'
    BY <1>1, <2>0 DEF Uses, Inside, At
  <2>5. Alters(t)'
    BY <1>1, <2>0, <2>3 DEF Alters, At
  <2>6. Inside(t)'
    BY <1>1, <1>2, <2>0, <2>3, <2>4, <2>5 DEF Inside, At, Live
  <2>7. \A r \in Pools : Live(r)' => (owner[m_monitor[r]] = r)' \/ \E u \in Threads : Aside(u, r)'
    <3> SUFFICES ASSUME NEW r \in Pools, Live(r), ~(owner[m_monitor[r]] = r)'
                 PROVE  \E u \in Threads : Aside(u, r)'
      BY <2>1
    <3>1. CASE r = p
      <4>1. pc'[t] = "abandon" /\ owner'[m_monitor[p]] = q
        BY <1>2, <1>7, <2>3, <3>1 DEF Live
      <4>2. Aside(t, p)'
        BY <1>1, <2>0, <4>1 DEF Aside, At
      <4> QED BY <3>1, <4>2
    <3>2. CASE r # p
      <4>1. m_monitor[r] # m_monitor[p]
        BY <1>2, <1>8, <3>2 DEF Live
      <4>2. owner'[m_monitor[r]] = owner[m_monitor[r]]
        BY <1>7, <2>3, <4>1 DEF Live
      <4>3. PICK u \in Threads : Aside(u, r)
        BY <1>8, <2>0, <4>2
      <4>4. u # t
        BY <1>10, <4>3 DEF Aside, Repoint, In, At
      <4> QED BY <1>4, <2>0, <4>2, <4>3, <4>4 DEF Aside, At
    <3> QED BY <3>1, <3>2
  <2>8. \A r \in gone' : ~Live(r)'
    BY <1>3, <1>8, <2>0, <2>1
  <2>9. Leads'
    BY <1>8, <2>0, <2>7, <2>8 DEF Leads
  <2> QED BY <1>4, <2>2, <2>6, <2>9 DEF Structure
<1>11. CASE Abandon(t)
  <2>0. UNCHANGED << m_monitor, owner, gone >> /\ m_monitor[p] # None
        /\ m_abandoned' = [m_abandoned EXCEPT ![m_monitor[p]] = TRUE]
    BY <1>1, <1>11 DEF Abandon, Abandoned, poolVars, Inside
  <2>1. ~Live(p)' /\ \A r \in Pools \ {p} : Live(r)' <=> Live(r)
    <3>1. m_monitor[p] \in Pools
      BY <1>2, <1>7, <2>0
    <3>2. ~Live(p)'
      BY <1>7, <2>0, <3>1 DEF Live
    <3>3. ASSUME NEW r \in Pools \ {p} PROVE Live(r)' <=> Live(r)
      <4>1. m_monitor[r] # m_monitor[p]
        BY <1>2, <1>8, <2>0
      <4> QED BY <1>7, <2>0, <4>1 DEF Live
    <3> QED BY <3>2, <3>3
  <2>2. \A u \in Threads \ {t} : Inside(u)'
    BY <1>2, <1>3, <2>0, <2>1, AlterInside
  <2>3. pc'[t] \in {"swap", "clear"}
    BY <1>7, <1>11 DEF Abandon, Goto
  <2>4. \A r \in gone' : ~Uses(t, r)'
    BY <1>1, <2>0 DEF Uses, Inside, At
  <2>5. Alters(t)'
    BY <1>1, <2>3 DEF Alters, At
  <2>6. Inside(t)'
    <3>1. ~Live(op[t].pool)'
      BY <1>1, <2>1 DEF Live
    <3> QED BY <1>1, <1>2, <2>0, <2>3, <2>4, <2>5, <3>1 DEF Inside, At
  <2>7. \A r \in Pools : Live(r)' => (owner[m_monitor[r]] = r)' \/ \E u \in Threads : Aside(u, r)'
    <3> SUFFICES ASSUME NEW r \in Pools, Live(r)', ~(owner[m_monitor[r]] = r)'
                 PROVE  \E u \in Threads : Aside(u, r)'
      OBVIOUS
    <3>1. r # p /\ Live(r)
      BY <2>1
    <3>2. PICK u \in Threads : Aside(u, r)
      BY <1>8, <2>0, <3>1
    <3>3. u # t
      BY <3>1, <3>2 DEF Aside
    <3> QED BY <1>4, <2>0, <3>2, <3>3 DEF Aside, At
  <2>8. \A r \in gone' : ~Live(r)'
    BY <1>3, <1>8, <2>0, <2>1
  <2>9. Leads'
    BY <1>8, <2>0, <2>7, <2>8 DEF Leads
  <2> QED BY <1>4, <2>2, <2>6, <2>9 DEF Structure
<1>12. CASE Swap(t)
  <2>0. /\ op[t].kind = "move" /\ UNCHANGED << m_abandoned, gone >> /\ ~Live(p)
        /\ m_monitor' = [m_monitor EXCEPT ![p] = m_monitor[q], ![q] = m_monitor[p]]
        /\ owner' = [owner EXCEPT ![m_monitor[q]] = p]
        /\ pc'[t] = "idle"
    BY <1>1, <1>7, <1>12 DEF Swap, Inside, Typed, Placed, At, Goto
  <2>1. /\ m_monitor'[q] = m_monitor[p]
        /\ m_monitor'[p] = m_monitor[q]
        /\ \A r \in Pools \ {p, q} : m_monitor'[r] = m_monitor[r]
    BY <1>2, <1>7, <2>0
  <2>2. ~Live(q)' /\ (Live(p)' <=> Live(q)) /\ \A r \in Pools \ {p, q} : Live(r)' <=> Live(r)
    BY <2>0, <2>1 DEF Live
  <2>3. \A u \in Threads \ {t} : Inside(u)'
    BY <1>2, <1>3, <2>0, <2>1, <2>2, AlterInside
  <2>4. Inside(t)'
    BY <2>0 DEF Inside, At, Alters, Uses
  <2>5. \A r \in Pools : Live(r)' => (owner[m_monitor[r]] = r)' \/ \E u \in Threads : Aside(u, r)'
    <3> SUFFICES ASSUME NEW r \in Pools, Live(r)', ~(owner[m_monitor[r]] = r)'
                 PROVE  \E u \in Threads : Aside(u, r)'
      OBVIOUS
    <3>1. r # p
      <4>1. m_monitor[q] \in Pools
        BY <1>2, <1>7, <2>0
      <4> QED BY <1>7, <2>0, <2>1, <4>1
    <3>2. r # q
      BY <2>2
    <3>3. Live(r) /\ m_monitor'[r] = m_monitor[r] /\ m_monitor[r] # m_monitor[q]
      BY <1>2, <1>8, <2>0, <2>1, <2>2, <3>1, <3>2
    <3>4. owner'[m_monitor[r]] = owner[m_monitor[r]]
      BY <1>7, <2>0, <3>3 DEF Live
    <3>5. PICK u \in Threads : Aside(u, r)
      BY <1>8, <3>3, <3>4
    <3>6. u # t
      BY <3>1, <3>5 DEF Aside
    <3> QED BY <1>4, <3>3, <3>4, <3>5, <3>6 DEF Aside, At
  <2>6. \A r \in gone' : ~Live(r)'
    BY <1>3, <1>8, <2>0, <2>2
  <2>7. \A r \in Pools, s \in Pools : (m_monitor[r] = m_monitor[s] /\ m_monitor[r] # None => r = s)'
    <3> TAKE r \in Pools, s \in Pools
    <3> PICK f : f = [x \in Pools |-> IF x = p THEN q ELSE IF x = q THEN p ELSE x]
      OBVIOUS
    <3>1. q \in Pools
      BY <1>2, <2>0
    <3>2. f[r] \in Pools /\ f[s] \in Pools /\ (f[r] = f[s] => r = s)
      BY <1>2, <3>1
    <3>3. m_monitor'[r] = m_monitor[f[r]] /\ m_monitor'[s] = m_monitor[f[s]]
      BY <2>1
    <3> QED BY <1>8, <3>2, <3>3
  <2>8. Leads'
    BY <2>5, <2>6, <2>7 DEF Leads
  <2> QED BY <1>4, <2>3, <2>4, <2>8 DEF Structure
<1>13. CASE Destroy(t)
  BY <1>7, <1>9, <1>13 DEF Destroy, In, Goto, monitorVars, Live
<1>14. CASE In(t, "destroy", "clear") /\ ClearCachedEntities(t)
  <2>1. ~Live(p)
    BY <1>1, <1>14 DEF In, At, Inside
  <2> QED BY <1>7, <1>9, <1>14, <2>1 DEF ClearCachedEntities, In, Goto, monitorVars
<1> QED BY <1>10, <1>11, <1>12, <1>13, <1>14 DEF Alteration

-----------------------------------------------------------------------------
(* Where the objects belong *)

Belonging == \A e \in Entries : Belongs(e)

\* What is about after a step had a monitor before.
LEMMA BelongsObtain ==
    ASSUME Typed, Belonging, NEW t \in Threads, NEW p \in Pools, m_monitor[p] # None,
           ObtainNew(t, p) \/ ObtainCached(t, p), UNCHANGED m_monitor
    PROVE  Belonging'
<1> USE DEF Typed, TypeOK
<1> SUFFICES ASSUME NEW e \in Entries PROVE Belongs(e)'
  BY DEF Belonging
<1>0. Belongs(e)
  BY DEF Belonging
<1>1. CASE ObtainNew(t, p)
  <2>0. PICK n \in Entries : n = New
    BY <1>1, NewOK DEF ObtainNew
  <2>1. monitor'[e] = IF e = n THEN m_monitor[p] ELSE monitor[e]
    BY <1>1, <2>0 DEF ObtainNew
  <2>2. at'[e] # "free" => e = n \/ at[e] # "free"
    BY <1>1, <2>0 DEF ObtainNew
  <2>3. \A u \in Threads : e \in mine'[u] => e = n \/ e \in mine[u]
    BY <1>1, <2>0 DEF ObtainNew
  <2>4. m_objs' = m_objs
    BY <1>1 DEF ObtainNew
  <2> QED BY <1>0, <2>1, <2>2, <2>3, <2>4 DEF Belongs
<1>2. CASE ObtainCached(t, p)
  <2>0. PICK n \in Entries : n = Back(p) /\ n \in m_objs[p]
    BY <1>2, BackOK DEF ObtainCached
  <2>1. monitor' = monitor /\ (e = n => monitor[e] # None)
    BY <1>0, <1>2, <2>0 DEF ObtainCached, Belongs
  <2>2. at'[e] # "free" => e = n \/ at[e] # "free"
    BY <1>2, <2>0 DEF ObtainCached
  <2>3. \A u \in Threads : e \in mine'[u] => e = n \/ e \in mine[u]
    BY <1>2, <2>0 DEF ObtainCached
  <2>4. \A r \in Pools : e \in m_objs'[r] => e \in m_objs[r]
    BY <1>2 DEF ObtainCached
  <2> QED BY <1>0, <2>1, <2>2, <2>3, <2>4 DEF Belongs
<1> QED BY <1>1, <1>2

LEMMA BelongsFrame ==
    ASSUME Typed, Belonging, UNCHANGED << m_monitor, monitor >>,
           \A e \in Entries :
              /\ at'[e] # "free" => monitor[e] # None
              /\ \A u \in Threads : e \in mine'[u] => e \in mine[u]
              /\ \A r \in Pools : e \in m_objs'[r] => monitor[e] # None
    PROVE  Belonging'
    BY DEF Belonging, Belongs

LEMMA BelongsReturn ==
    ASSUME Typed, Belonging, NEW e \in Entries, monitor[e] # None, NEW f, Return(e, f),
           \A x \in Entries, u \in Threads : x \in mine'[u] => x \in mine[u]
    PROVE  Belonging'
<1> USE DEF Typed, TypeOK
<1>1. UNCHANGED << m_monitor, monitor >>
  BY DEF Return
<1>2. \A x \in Entries : at'[x] # "free" => x = e \/ at[x] # "free"
  BY DEF Return, ReturnUnsafe
<1>3. \A x \in Entries, r \in Pools : x \in m_objs'[r] => x = e \/ x \in m_objs[r]
  BY DEF Return, ReturnUnsafe
<1>4. \A x \in Entries : at'[x] # "free" => monitor[x] # None
  BY <1>2 DEF Belonging, Belongs
<1>5. \A x \in Entries, r \in Pools : x \in m_objs'[r] => monitor[x] # None
  BY <1>3 DEF Belonging, Belongs
<1> QED BY <1>1, <1>4, <1>5, BelongsFrame

LEMMA BelongsStep ==
    ASSUME Typed, Belonging, NEW t \in Threads, Inside(t), Step(t)
    PROVE  Belonging'
<1> USE DEF At, Goto, In
<1> DEFINE p == op[t].pool
<1>1. ~At(t, "idle")
  BY DEF Step, Get, Wait, Timeout, Preallocate, Fill, Release, Construct, SetMaximumPooledEntities,
         Trim, SetOutstandingLimit, RundownWaits, ClearCachedEntities, Destroy, Repoint, Abandon, Swap
<1>2. p \in Pools
  BY <1>1, PointOK
<1>3. ~Alters(t) => m_monitor[p] # None
  BY <1>1 DEF Inside, Live
<1>4. UNCHANGED << m_monitor, monitor, at, mine, m_objs >> => Belonging'
  BY BelongsFrame DEF Belonging, Belongs
<1>5. Obtain(t, p) /\ ~Alters(t) => Belonging'
  <2> HIDE DEF p
  <2> QED BY <1>2, <1>3, BelongsObtain DEF Obtain
<1>6. ReturnNull(t) => Belonging'
  BY <1>4 DEF ReturnNull, poolVars, entryVars
<1>7. CASE Get(t)
  BY <1>5, <1>6, <1>7 DEF Get, Alters
<1>8. CASE Wait(t)
  BY <1>4, <1>5, <1>6, <1>8 DEF Wait, Alters, poolVars, entryVars
<1>9. CASE Timeout(t)
  BY <1>5, <1>6, <1>9 DEF Timeout, Alters
<1>10. CASE Fill(t)
  <2>1. ~Alters(t)
    BY <1>10 DEF Fill, Typed, Placed
  <2>2. CASE ObtainNew(t, p) \/ ObtainCached(t, p)
    <3>1. UNCHANGED m_monitor
      BY <1>10 DEF Fill, poolVars
    <3> HIDE DEF p
    <3> QED BY <1>2, <1>3, <2>1, <2>2, <3>1, BelongsObtain
  <2> QED BY <1>4, <1>10, <2>2 DEF Fill, poolVars, entryVars
<1>11. CASE Release(t)
  <2>1. CASE \E e \in mine[t] : Return(e, pc) /\ mine' = [mine EXCEPT ![t] = @ \ {e}]
    <3>1. PICK e \in mine[t] : Return(e, pc) /\ mine' = [mine EXCEPT ![t] = @ \ {e}]
      BY <2>1
    <3>2. e \in Entries /\ monitor[e] # None
      BY DEF Typed, TypeOK, Belonging, Belongs
    <3>3. \A x \in Entries, u \in Threads : x \in mine'[u] => x \in mine[u]
      BY <3>1 DEF Typed, TypeOK
    <3> QED BY <3>1, <3>2, <3>3, BelongsReturn
  <2> QED BY <1>6, <1>11, <2>1 DEF Release
<1>12. CASE Construct(t)
  <2>1. PICK e \in mine[t] :
          /\ UNCHANGED mine \/ mine' = [mine EXCEPT ![t] = @ \ {e}]
          /\ \/ /\ at' \in { [at EXCEPT ![e] = "issued"], [at EXCEPT ![e] = "free"] }
                /\ UNCHANGED << poolVars, monitor >>
             \/ Return(e, [pc EXCEPT ![t] = "release"])
    BY <1>12 DEF Construct
  <2>2. e \in Entries /\ monitor[e] # None
    BY DEF Typed, TypeOK, Belonging, Belongs
  <2>3. \A x \in Entries, u \in Threads : x \in mine'[u] => x \in mine[u]
    BY <2>1 DEF Typed, TypeOK
  <2>4. CASE Return(e, [pc EXCEPT ![t] = "release"])
    BY <2>2, <2>3, <2>4, BelongsReturn
  <2>5. CASE at' \in { [at EXCEPT ![e] = "issued"], [at EXCEPT ![e] = "free"] }
             /\ UNCHANGED << poolVars, monitor >>
    <3>1. \A x \in Entries : at'[x] # "free" => x = e \/ at[x] # "free"
      BY <2>5 DEF Typed, TypeOK
    <3>2. \A x \in Entries : at'[x] # "free" => monitor[x] # None
      BY <2>2, <3>1 DEF Belonging, Belongs
    <3>3. \A x \in Entries, r \in Pools : x \in m_objs'[r] => monitor[x] # None
      BY <2>5 DEF Belonging, Belongs, poolVars
    <3> QED BY <2>3, <2>5, <3>2, <3>3, BelongsFrame DEF poolVars
  <2> QED BY <2>1, <2>4, <2>5
<1>13. CASE Trim(t) \/ ClearCachedEntities(t)
  <2>1. UNCHANGED << m_monitor, monitor, mine >>
    BY <1>13 DEF Trim, ClearCachedEntities
  <2>2. \A x \in Entries : at'[x] # "free" => at[x] # "free"
    BY <1>13 DEF Trim, ClearCachedEntities, Cleared, Typed, TypeOK
  <2>3. \A x \in Entries, r \in Pools : x \in m_objs'[r] => x \in m_objs[r]
    BY <1>13 DEF Trim, ClearCachedEntities, Typed, TypeOK
  <2>4. \A x \in Entries : at'[x] # "free" => monitor[x] # None
    BY <2>2 DEF Belonging, Belongs
  <2>5. \A x \in Entries, r \in Pools : x \in m_objs'[r] => monitor[x] # None
    BY <2>3 DEF Belonging, Belongs
  <2> QED BY <2>1, <2>4, <2>5, BelongsFrame
<1>14. CASE Swap(t)
  <2>0. PICK q : q = op[t].arg
    OBVIOUS
  <2>1. q \in Pools
    BY <1>1, <1>14, <2>0, PointOK DEF Swap, Typed, Placed
  <2>2. UNCHANGED << monitor, at, mine >>
    BY <1>14 DEF Swap, entryVars
  <2>3. m_monitor' = [m_monitor EXCEPT ![p] = m_monitor[q], ![q] = m_monitor[p]]
        /\ m_objs' = [m_objs EXCEPT ![p] = m_objs[q], ![q] = m_objs[p]]
    BY <1>14, <2>0 DEF Swap
  <2> HIDE DEF p
  <2>4. m_monitor'[q] = m_monitor[p] /\ m_monitor'[p] = m_monitor[q]
        /\ \A r \in Pools \ {p, q} : m_monitor'[r] = m_monitor[r]
    BY <1>2, <2>1, <2>3 DEF Typed, TypeOK
  <2>5. m_objs'[q] = m_objs[p] /\ m_objs'[p] = m_objs[q]
        /\ \A r \in Pools \ {p, q} : m_objs'[r] = m_objs[r]
    BY <1>2, <2>1, <2>3 DEF Typed, TypeOK
  <2> SUFFICES ASSUME NEW e \in Entries PROVE Belongs(e)'
    BY DEF Belonging
  <2>6. Belongs(e)
    BY DEF Belonging
  <2>7. monitor[e] # None => \E r \in Pools : m_monitor'[r] = monitor[e]
    <3>1. SUFFICES ASSUME NEW r \in Pools, m_monitor[r] = monitor[e]
                   PROVE  \E s \in Pools : m_monitor'[s] = monitor[e]
      BY <2>6 DEF Belongs
    <3> QED BY <1>2, <2>1, <2>4, <3>1
  <2>8. \A r \in Pools : e \in m_objs'[r] => monitor[e] # None
    BY <1>2, <2>1, <2>5, <2>6 DEF Belongs
  <2> QED BY <2>2, <2>6, <2>7, <2>8 DEF Belongs
<1>15. CASE Preallocate(t) \/ SetMaximumPooledEntities(t) \/ SetOutstandingLimit(t) \/ RundownWaits(t)
            \/ Destroy(t) \/ Repoint(t) \/ Abandon(t)
  BY <1>4, <1>15 DEF Preallocate, SetMaximumPooledEntities, SetOutstandingLimit, RundownWaits,
                     Destroy, Repoint, Abandon, poolVars, entryVars
<1> QED BY <1>7, <1>8, <1>9, <1>10, <1>11, <1>12, <1>13, <1>14, <1>15 DEF Step

LEMMA InitBase == Init => Base
<1> SUFFICES ASSUME Init PROVE Base
  OBVIOUS
<1>1. Typed
  BY InitTyped
<1>2. \A t \in Threads : At(t, "idle") /\ mine[t] = {}
  BY DEF Init, At
<1>3. Alone /\ \A t \in Threads : Inside(t)
  BY <1>2 DEF Alone, Inside, Alters, Uses, At
<1>4. Leads
  BY DEF Init, Leads, Live, Monitors
<1>5. \A e \in Entries : Belongs(e)
  BY <1>2 DEF Init, Belongs
<1> QED BY <1>1, <1>3, <1>4, <1>5 DEF Base

LEMMA NextBase == Base /\ [Next]_vars => Base'
<1> SUFFICES ASSUME Base, [Next]_vars PROVE Base'
  OBVIOUS
<1>0. Typed /\ Structure /\ Belonging
  BY DEF Base, Structure, Belonging
<1>1. Typed' /\ Structure' /\ Belonging' => Base'
  BY DEF Base, Structure, Belonging
<1>2. ASSUME NEW t \in Threads, Call(t) \/ CallAlone(t) PROVE Base'
  <2>1. Belonging'
    <3>1. UNCHANGED << m_monitor, monitor, at, mine, m_objs >>
      BY <1>2 DEF Call, CallAlone, poolVars, entryVars
    <3> QED BY <1>0, <3>1 DEF Belonging, Belongs
  <2> QED BY <1>0, <1>1, <1>2, <2>1, CallTyped, CallStructure
<1>3. ASSUME NEW t \in Threads, Step(t) PROVE Base'
  <2>0. Inside(t)
    BY <1>0 DEF Structure
  <2>1. Belonging' /\ TypeOK'
    BY <1>0, <1>3, <2>0, BelongsStep, TypeStep
  <2>2. CASE Alteration(t)
    BY <1>0, <1>1, <1>3, <2>0, <2>1, <2>2, AlterTyped, AlterStructure
  <2>3. CASE ~Alteration(t)
    BY <1>0, <1>1, <1>3, <2>1, <2>3, StepCalm, CalmStructure
  <2> QED BY <2>2, <2>3
<1>4. ASSUME NEW t \in Threads, Spurious(t) PROVE Base'
  <2>1. Belonging'
    <3>1. UNCHANGED << m_monitor, monitor, at, mine, m_objs >>
      BY <1>4 DEF Spurious, poolVars, entryVars
    <3> QED BY <1>0, <3>1 DEF Belonging, Belongs
  <2> QED BY <1>0, <1>1, <1>4, <2>1, SpuriousCalm, CalmStructure
<1>5. ASSUME NEW e \in Entries, Drop(e) PROVE Base'
  <2>1. monitor[e] # None
    BY <1>0, <1>5 DEF Drop, Belonging, Belongs
  <2>2. Belonging'
    BY <1>0, <1>5, <2>1, BelongsReturn DEF Drop
  <2> QED BY <1>0, <1>1, <1>5, <2>2, DropCalm, CalmStructure
<1>6. CASE UNCHANGED vars
  <2>1. UNCHANGED << m_monitor, m_limit, m_maxPooled, m_outstanding, m_poolVersion, m_objs, gone,
                     owner, m_abandoned, hung, at, monitor, poolVersion, pc, op, left, mine, todo, ranDown >>
    BY <1>6 DEF vars, poolVars, monitorVars, entryVars, threadVars
  <2>2. Calm /\ TypeOK'
    BY <1>0, <2>1 DEF Calm, Moves, Typed, TypeOK
  <2>3. Belonging'
    BY <1>0, <2>1 DEF Belonging, Belongs
  <2> QED BY <1>0, <1>1, <2>2, <2>3, CalmStructure
<1> QED BY <1>2, <1>3, <1>4, <1>5, <1>6 DEF Next

\* The types hold, whatever the callers do and however the objects are built.
THEOREM TypeCorrect == Spec => []TypeOK
<1>1. Base => TypeOK
  BY DEF Base, Typed
<1> QED BY <1>1, InitBase, NextBase, PTL DEF Spec

-----------------------------------------------------------------------------
(* Pools that are gone *)

\* The pool an object comes back to is there.
LEMMA OwnerThere ==
    ASSUME Base, NEW e \in Entries, monitor[e] # None, ~m_abandoned[monitor[e]]
    PROVE  owner[monitor[e]] \in Pools \ gone
<1>1. PICK p \in Pools : m_monitor[p] = monitor[e]
  BY DEF Base, Belongs
<1>2. Live(p) /\ p \notin gone
  <2>1. Live(p)
    BY <1>1 DEF Live
  <2> QED BY <2>1 DEF Base, Leads
<1>3. CASE owner[m_monitor[p]] = p
  BY <1>1, <1>2, <1>3
<1>4. CASE \E u \in Threads : Aside(u, p)
  <2>1. PICK u \in Threads : Aside(u, p)
    BY <1>4
  <2>2. ~At(u, "idle") /\ op[u].kind = "move" /\ owner[m_monitor[p]] = op[u].arg
    BY <2>1 DEF Aside, At
  <2>3. op[u].arg \in Pools /\ Uses(u, op[u].arg)
    BY <2>2, PointOK DEF Base, Uses
  <2> QED BY <1>1, <2>2, <2>3 DEF Base, Inside
<1> QED BY <1>2, <1>3, <1>4 DEF Base, Leads

Untouched(p) ==
    /\ m_monitor'[p] = m_monitor[p] /\ m_outstanding'[p] = m_outstanding[p]
    /\ m_objs'[p] = m_objs[p] /\ m_poolVersion'[p] = m_poolVersion[p]

LEMMA ReturnUntouched ==
    ASSUME Base, NEW e \in Entries, monitor[e] # None, NEW f, Return(e, f)
    PROVE  \A p \in gone : Untouched(p)
<1> TAKE p \in gone
<1>1. UNCHANGED << m_monitor, m_poolVersion >>
  BY DEF Return
<1>2. CASE m_abandoned[monitor[e]]
  BY <1>1, <1>2 DEF Return, Untouched
<1>3. CASE ~m_abandoned[monitor[e]]
  <2>0. PICK r : r = owner[monitor[e]]
    OBVIOUS
  <2>1. r \in Pools \ gone /\ p \in Pools
    BY <1>3, <2>0, OwnerThere DEF Base, Typed, TypeOK
  <2>2. ReturnUnsafe(e, r, f)
    BY <1>3, <2>0 DEF Return
  <2>3. m_outstanding'[p] = m_outstanding[p]
    BY <2>1, <2>2 DEF ReturnUnsafe, Base, Typed, TypeOK
  <2>4. m_objs'[p] = m_objs[p]
    BY <2>1, <2>2 DEF ReturnUnsafe, Base, Typed, TypeOK
  <2> QED BY <1>1, <2>3, <2>4 DEF Untouched
<1> QED BY <1>2, <1>3

LEMMA ObtainUntouched ==
    ASSUME Typed, NEW t \in Threads, NEW r \in Pools \ gone, ObtainNew(t, r) \/ ObtainCached(t, r),
           UNCHANGED << m_monitor, m_poolVersion >>
    PROVE  \A p \in gone : Untouched(p)
<1> TAKE p \in gone
<1>1. p \in Pools /\ p # r
  BY DEF Typed, TypeOK
<1>2. m_outstanding'[p] = m_outstanding[p]
  BY <1>1 DEF ObtainNew, ObtainCached, Typed, TypeOK
<1>3. m_objs'[p] = m_objs[p]
  BY <1>1 DEF ObtainNew, ObtainCached, Typed, TypeOK
<1> QED BY <1>2, <1>3 DEF Untouched

LEMMA StepUntouched ==
    ASSUME Base, NEW t \in Threads, Step(t)
    PROVE  \A p \in gone : Untouched(p)
<1> USE DEF At, Goto, In
<1> DEFINE r == op[t].pool
<1>0. Typed /\ Inside(t) /\ Placed(t)
  BY DEF Base, Typed
<1>1. ~At(t, "idle")
  BY DEF Step, Get, Wait, Timeout, Preallocate, Fill, Release, Construct, SetMaximumPooledEntities,
         Trim, SetOutstandingLimit, RundownWaits, ClearCachedEntities, Destroy, Repoint, Abandon, Swap
<1>2. r \in Pools \ gone
  <2>1. r \in Pools
    BY <1>0, <1>1, PointOK
  <2>2. Uses(t, r)
    BY <1>1 DEF Uses
  <2> QED BY <1>0, <2>1, <2>2 DEF Inside
<1>3. UNCHANGED << m_monitor, m_outstanding, m_objs, m_poolVersion >> => \A p \in gone : Untouched(p)
  BY DEF Untouched
<1>4. Obtain(t, r) => \A p \in gone : Untouched(p)
  <2> HIDE DEF r
  <2> QED BY <1>0, <1>2, ObtainUntouched DEF Obtain
<1>5. ReturnNull(t) => \A p \in gone : Untouched(p)
  BY <1>3 DEF ReturnNull, poolVars
<1>6. CASE Get(t) \/ Wait(t) \/ Timeout(t)
  BY <1>3, <1>4, <1>5, <1>6 DEF Get, Wait, Timeout, poolVars
<1>7. CASE Fill(t)
  <2>1. CASE ObtainNew(t, r) \/ ObtainCached(t, r)
    <3>1. UNCHANGED << m_monitor, m_poolVersion >>
      BY <1>7 DEF Fill, poolVars
    <3> HIDE DEF r
    <3> QED BY <1>0, <1>2, <2>1, <3>1, ObtainUntouched
  <2> QED BY <1>3, <1>7, <2>1 DEF Fill, poolVars
<1>8. CASE Release(t) \/ Construct(t)
  <2>1. CASE \E e \in mine[t], f \in {pc, [pc EXCEPT ![t] = "release"]} : Return(e, f)
    <3>1. PICK e \in mine[t], f \in {pc, [pc EXCEPT ![t] = "release"]} : Return(e, f)
      BY <2>1
    <3>2. e \in Entries /\ monitor[e] # None
      BY DEF Base, Typed, TypeOK, Belongs
    <3> QED BY <3>1, <3>2, ReturnUntouched
  <2> QED BY <1>3, <1>5, <1>8, <2>1 DEF Release, Construct, poolVars
<1>9. CASE Trim(t) \/ ClearCachedEntities(t)
  <2>1. \A p \in Pools \ {r} : m_objs'[p] = m_objs[p]
    BY <1>0, <1>2, <1>9 DEF Trim, ClearCachedEntities, Typed, TypeOK
  <2>2. \A p \in Pools \ {r} : m_poolVersion'[p] = m_poolVersion[p]
    BY <1>0, <1>2, <1>9 DEF Trim, ClearCachedEntities, Typed, TypeOK
  <2>3. UNCHANGED << m_monitor, m_outstanding >> /\ gone \subseteq Pools \ {r}
    BY <1>0, <1>2, <1>9 DEF Trim, ClearCachedEntities, Typed, TypeOK
  <2> QED BY <2>1, <2>2, <2>3 DEF Untouched
<1>10. CASE Swap(t)
  <2>0. PICK q : q = op[t].arg
    OBVIOUS
  <2>1. q \in Pools \ gone
    <3>1. op[t].kind = "move"
      BY <1>0, <1>10 DEF Swap, Placed
    <3>2. q \in Pools
      BY <1>0, <1>1, <2>0, <3>1, PointOK
    <3>3. Uses(t, q)
      BY <1>1, <2>0, <3>1 DEF Uses
    <3> QED BY <1>0, <3>2, <3>3 DEF Inside
  <2>2. gone \subseteq Pools \ {r, q}
    BY <1>0, <1>2, <2>1 DEF Typed, TypeOK
  <2>3. m_monitor' = [m_monitor EXCEPT ![r] = m_monitor[q], ![q] = m_monitor[r]]
        /\ m_objs' = [m_objs EXCEPT ![r] = m_objs[q], ![q] = m_objs[r]]
        /\ m_poolVersion' = [m_poolVersion EXCEPT ![r] = m_poolVersion[q]]
        /\ m_outstanding' = [m_outstanding EXCEPT ![r] = m_outstanding[q]]
    BY <1>10, <2>0 DEF Swap
  <2> HIDE DEF r
  <2> QED BY <1>0, <2>2, <2>3 DEF Untouched, Typed, TypeOK
<1>11. CASE Preallocate(t) \/ SetMaximumPooledEntities(t) \/ SetOutstandingLimit(t) \/ RundownWaits(t)
            \/ Destroy(t) \/ Repoint(t) \/ Abandon(t)
  BY <1>3, <1>11 DEF Preallocate, SetMaximumPooledEntities, SetOutstandingLimit, RundownWaits,
                     Destroy, Repoint, Abandon, poolVars
<1> QED BY <1>6, <1>7, <1>8, <1>9, <1>10, <1>11 DEF Step

\* An object that comes back after its pool was destroyed, or moved onto, finds the
\* monitor abandoned or pointing to a pool that is there: Return writes no memory of a
\* pool that is gone, and neither does any other call.
THEOREM GoneIsUntouched == Spec => GoneUntouched
<1> DEFINE Same(p) ==
      << m_monitor[p], m_outstanding[p], m_objs[p], m_poolVersion[p] >>'
        = << m_monitor[p], m_outstanding[p], m_objs[p], m_poolVersion[p] >>
<1>1. Base /\ [Next]_vars => [\A p \in gone : Same(p)]_vars
  <2> SUFFICES ASSUME Base, Next PROVE \A p \in gone : Same(p)
    OBVIOUS
  <2>1. (\A p \in gone : Untouched(p)) => \A p \in gone : Same(p)
    BY DEF Untouched
  <2>2. ASSUME NEW t \in Threads, Call(t) \/ CallAlone(t) \/ Spurious(t) PROVE \A p \in gone : Same(p)
    BY <2>2 DEF Call, CallAlone, Spurious, poolVars
  <2>3. ASSUME NEW e \in Entries, Drop(e) PROVE \A p \in gone : Untouched(p)
    <3>1. monitor[e] # None
      BY <2>3 DEF Drop, Base, Belongs
    <3> QED BY <2>3, <3>1, ReturnUntouched DEF Drop
  <2> HIDE DEF Same
  <2> QED BY <2>1, <2>2, <2>3, StepUntouched DEF Next
<1>2. Spec => []Base
  BY InitBase, NextBase, PTL DEF Spec
<1> QED BY <1>1, <1>2, PTL DEF Spec, GoneUntouched

-----------------------------------------------------------------------------
(* What is out and what is kept *)

\* The objects a live pool goes by are those that hold its monitor.
LEMMA OutHeld ==
    ASSUME Base, Stocked, NEW p \in Pools, Live(p)
    PROVE  Out(p) = Held(m_monitor[p])
<1>1. ASSUME NEW e \in Out(p) PROVE e \in Held(m_monitor[p])
  <2>1. e \in Entries /\ at[e] \in {"building", "issued"} /\ ~m_abandoned[monitor[e]] /\ owner[monitor[e]] = p
    BY <1>1 DEF Out
  <2>2. PICK r \in Pools : m_monitor[r] = monitor[e] /\ m_monitor[r] # None
    BY <2>1 DEF Base, Belongs
  <2>3. Live(r)
    BY <2>1, <2>2 DEF Live
  <2>4. ~\E u \in Threads : Aside(u, r)
    <3> SUFFICES ASSUME NEW u \in Threads, Aside(u, r) PROVE FALSE
      OBVIOUS
    <3>1. Held(m_monitor[r]) = {}
      BY <2>3 DEF Stocked, Vacated, Aside, At
    <3> QED BY <2>1, <2>2, <3>1 DEF Held
  <2>5. r = p
    BY <2>1, <2>2, <2>3, <2>4 DEF Base, Leads
  <2> QED BY <2>1, <2>2, <2>5 DEF Held
<1>2. ASSUME NEW e \in Held(m_monitor[p]) PROVE e \in Out(p)
  <2>1. e \in Entries /\ at[e] \in {"building", "issued"} /\ monitor[e] = m_monitor[p]
    BY <1>2 DEF Held
  <2>2. ~\E u \in Threads : Aside(u, p)
    <3> SUFFICES ASSUME NEW u \in Threads, Aside(u, p) PROVE FALSE
      OBVIOUS
    <3>1. Held(m_monitor[p]) = {}
      BY DEF Stocked, Vacated, Aside, At
    <3> QED BY <1>2, <3>1
  <2>3. owner[m_monitor[p]] = p /\ ~m_abandoned[m_monitor[p]]
    BY <2>2 DEF Base, Leads, Live
  <2> QED BY <2>1, <2>3 DEF Out
<1> QED BY <1>1, <1>2

LEMMA HeldFinite == \A m : IsFiniteSet(Held(m)) /\ Cardinality(Held(m)) \in Nat
<1> SUFFICES ASSUME NEW m PROVE IsFiniteSet(Held(m)) /\ Cardinality(Held(m)) \in Nat
  OBVIOUS
<1>1. Held(m) \subseteq Entries
  BY DEF Held
<1> QED BY <1>1, ConstantsAssumption, FS_Subset, FS_CardinalityType

LEMMA InitStocked == ASSUME Init, Regular PROVE Stocked
<1>0. \A m : Held(m) = {}
  BY DEF Init, Held
<1>1. Kept
  BY DEF Init, Kept
<1>2. Vacated
  BY <1>0 DEF Vacated
<1>3. Counted
  <2>1. Cardinality({}) = 0
    BY FS_EmptySet
  <2> QED BY <1>0, <2>1 DEF Init, Counted
<1>4. Fresh
  BY DEF Init, Fresh
<1>5. Waits
  BY DEF Init, Waits, At
<1>6. Closed
  BY DEF Init, Closed
<1>7. Trimmed
  <2>1. Cardinality({}) = 0
    BY FS_EmptySet
  <2> QED BY <2>1, ConstantsAssumption DEF Init, Trimmed
<1> QED BY <1>1, <1>2, <1>3, <1>4, <1>5, <1>6, <1>7 DEF Stocked

\* A step of t that leaves the objects alone.
LEMMA QuietStocked ==
    ASSUME Base, Base', Stocked, NEW t \in Threads,
           UNCHANGED << at, monitor, poolVersion, m_objs, mine, hung, m_monitor, m_poolVersion,
                        m_outstanding, m_abandoned >>,
           \A u \in Threads \ {t} : pc'[u] = pc[u] /\ op'[u] = op[u],
           NEW w, NEW l, op'[t] = w, pc'[t] = l,
           l \in {"enter", "abandon"} /\ w.kind = "move" /\ Live(w.pool) => Held(m_monitor[w.pool]) = {},
           l = "asleep" /\ w.kind \in {"wait", "rundown"} => m_outstanding[w.pool] # 0,
           l \in {"asleep", "woken"} /\ w.kind = "rundown" => m_limit'[w.pool] = 0,
           \A p \in Pools : m_limit[p] = 0 => m_limit'[p] = 0,
           \A p \in Pools : Live(p) /\ m_monitor[p] \in ranDown' =>
              m_monitor[p] \in ranDown \/ (m_limit'[p] = 0 /\ m_outstanding[p] = 0),
           \A p \in Pools : Live(p) => Trimming(p)' \/ (m_maxPooled'[p] = m_maxPooled[p] /\ ~Trimming(p))
              \/ Cardinality(m_objs[p]) <= m_maxPooled'[p]
    PROVE  Stocked'
<1>1. \A m : Held(m)' = Held(m)
  BY DEF Held
<1>2. \A p : Live(p)' <=> Live(p)
  BY DEF Live
<1>3. Kept'
  BY DEF Stocked, Kept
<1>4. Counted'
  BY <1>1, <1>2 DEF Stocked, Counted
<1>5. Fresh'
  BY <1>2 DEF Stocked, Fresh
<1>6. Vacated'
  <2> SUFFICES ASSUME NEW u \in Threads, NEW x, x = op'[u].pool,
                      pc'[u] \in {"enter", "abandon"}, op'[u].kind = "move", Live(x)
               PROVE  Held(m_monitor[x]) = {}
    BY <1>1, <1>2 DEF Vacated, Live, Held
  <2>1. CASE u = t
    BY <2>1
  <2>2. CASE u # t
    BY <2>2 DEF Stocked, Vacated
  <2> QED BY <2>1, <2>2
<1>7. Waits'
  <2> SUFFICES ASSUME NEW u \in Threads
               PROVE  /\ pc'[u] = "asleep" /\ op'[u].kind \in {"wait", "rundown"} => m_outstanding[op'[u].pool] # 0
                      /\ pc'[u] \in {"asleep", "woken"} /\ op'[u].kind = "rundown" => m_limit'[op'[u].pool] = 0
    BY DEF Waits, At
  <2>1. CASE u = t
    BY <2>1
  <2>2. CASE u # t
    <3>1. pc[u] \in {"asleep", "woken"} => op[u].pool \in Pools
      BY PointOK DEF Base, At
    <3> QED BY <2>2, <3>1 DEF Stocked, Waits, At
  <2> QED BY <2>1, <2>2
<1>8. Closed'
  BY <1>2 DEF Stocked, Closed
<1>9. Trimmed'
  BY <1>2 DEF Stocked, Trimmed
<1> QED BY <1>3, <1>4, <1>5, <1>6, <1>7, <1>8, <1>9 DEF Stocked

\* The same when t does not move on to waiting, and the limits stay.
LEMMA PlainStocked ==
    ASSUME Base, Base', Stocked, NEW t \in Threads,
           UNCHANGED << at, monitor, poolVersion, m_objs, mine, hung, m_monitor, m_poolVersion,
                        m_outstanding, m_abandoned, m_limit, m_maxPooled, ranDown, op >>,
           NEW l, pc' = [pc EXCEPT ![t] = l], ~At(t, "trim"),
           l \in {"enter", "abandon"} => op[t].kind # "move",
           l = "asleep" /\ op[t].kind \in {"wait", "rundown"} => m_outstanding[op[t].pool] # 0,
           l \in {"asleep", "woken"} /\ op[t].kind = "rundown" => m_limit[op[t].pool] = 0
    PROVE  Stocked'
<1>1. pc'[t] = l /\ \A u \in Threads \ {t} : pc'[u] = pc[u] /\ op'[u] = op[u]
  BY DEF Base, Typed, TypeOK
<1>2. \A p \in Pools : Trimming(p) => Trimming(p)'
  BY <1>1 DEF Trimming, At
<1> QED BY <1>1, <1>2, QuietStocked

\* A step of a call is made on a live pool, and the call says what it may be.
LEMMA OnLive ==
    ASSUME Base, NEW t \in Threads, ~At(t, "idle"), ~Alters(t)
    PROVE  op[t].pool \in Pools /\ Live(op[t].pool)
    BY PointOK DEF Base, Inside

LEMMA ReturnNullStocked ==
    ASSUME Base, Base', Stocked, NEW t \in Threads, ReturnNull(t), ~At(t, "trim")
    PROVE  Stocked'
<1>1. UNCHANGED << at, monitor, poolVersion, m_objs, mine, hung, m_monitor, m_poolVersion,
                   m_outstanding, m_abandoned, m_limit, m_maxPooled, ranDown, op >>
      /\ pc' = [pc EXCEPT ![t] = "idle"]
  BY DEF ReturnNull, poolVars, monitorVars, entryVars, Goto
<1> QED BY <1>1, PlainStocked

LEMMA SleepStocked ==
    ASSUME Base, Base', Stocked, NEW t \in Threads, Wait(t), Goto(t, "asleep"),
           m_limit[op[t].pool] <= m_outstanding[op[t].pool],
           m_limit[op[t].pool] # 0 \/ op[t].kind # "wait",
           UNCHANGED << poolVars, monitorVars, entryVars, op, left, mine, todo, ranDown >>
    PROVE  Stocked'
<1>1. UNCHANGED << at, monitor, poolVersion, m_objs, mine, hung, m_monitor, m_poolVersion,
                   m_outstanding, m_abandoned, m_limit, m_maxPooled, ranDown, op >>
      /\ pc' = [pc EXCEPT ![t] = "asleep"]
  BY DEF poolVars, monitorVars, entryVars, Goto
<1>2. ~At(t, "trim") /\ op[t].kind \in {"wait", "waitfor"} /\ ~At(t, "idle") /\ ~Alters(t)
  BY DEF Wait, In, At, Alters
<1>3. op[t].pool \in Pools
  BY <1>2, OnLive
<1>4. op[t].kind = "wait" => m_outstanding[op[t].pool] # 0
  BY <1>3 DEF Base, Typed, TypeOK
<1> QED BY <1>1, <1>2, <1>4, PlainStocked

LEMMA QuietSteps ==
    ASSUME Base, Base', Stocked, NEW t \in Threads,
           Preallocate(t) \/ SetMaximumPooledEntities(t) \/ SetOutstandingLimit(t) \/ RundownWaits(t)
             \/ Destroy(t) \/ Repoint(t) \/ Spurious(t)
    PROVE  Stocked'
<1> USE DEF In
<1> DEFINE Same == UNCHANGED << at, monitor, poolVersion, m_objs, mine, hung, m_monitor, m_poolVersion,
                                m_outstanding, m_abandoned, op >>
<1>0. Same
  BY DEF Preallocate, SetMaximumPooledEntities, SetOutstandingLimit, RundownWaits, Destroy, Repoint, Spurious,
         poolVars, monitorVars, entryVars
<1>1. Typed /\ TypeOK
  BY DEF Base, Typed
<1>2. ~At(t, "idle")
  BY DEF Preallocate, SetMaximumPooledEntities, SetOutstandingLimit, RundownWaits, Destroy, Repoint, Spurious, At
<1> PICK r : r = op[t].pool
  OBVIOUS
<1>3. r \in Pools
  BY <1>1, <1>2, PointOK
<1>4. CASE Preallocate(t)
  <2>1. UNCHANGED << m_limit, m_maxPooled, ranDown >> /\ pc' = [pc EXCEPT ![t] = "fill"] /\ ~At(t, "trim")
    BY <1>4 DEF Preallocate, poolVars, Goto, At
  <2> QED BY <1>0, <2>1, PlainStocked
<1>5. CASE Spurious(t)
  <2>1. UNCHANGED << m_limit, m_maxPooled, ranDown >> /\ pc' = [pc EXCEPT ![t] = "woken"] /\ At(t, "asleep")
    BY <1>5 DEF Spurious, poolVars, Goto
  <2>2. op[t].kind = "rundown" => m_limit[op[t].pool] = 0
    BY <2>1 DEF Stocked, Waits, At
  <2> QED BY <1>0, <2>1, <2>2, PlainStocked DEF At
<1>6. CASE SetMaximumPooledEntities(t)
  <2>1. UNCHANGED << m_limit, ranDown >> /\ pc'[t] = "trim" /\ ~At(t, "trim")
        /\ \A u \in Threads \ {t} : pc'[u] = pc[u] /\ op'[u] = op[u]
    BY <1>0, <1>1, <1>6 DEF SetMaximumPooledEntities, Goto, At, TypeOK
  <2>2. \A p \in Pools \ {r} : m_maxPooled'[p] = m_maxPooled[p]
    BY <1>1, <1>6 DEF SetMaximumPooledEntities, TypeOK
  <2>3. Trimming(r)'
    BY <1>0, <2>1 DEF Trimming, At
  <2>4. \A p \in Pools : Trimming(p) => Trimming(p)'
    BY <2>1 DEF Trimming, At
  <2> QED BY <1>0, <2>1, <2>2, <2>3, <2>4, QuietStocked
<1>7. CASE SetOutstandingLimit(t)
  <2>1. UNCHANGED << m_maxPooled, ranDown >> /\ pc'[t] \in {"woken", "idle"} /\ ~At(t, "trim")
        /\ \A u \in Threads \ {t} : pc'[u] = pc[u] /\ op'[u] = op[u]
    BY <1>0, <1>1, <1>7 DEF SetOutstandingLimit, Goto, At, TypeOK
  <2>2. op[t].kind = "rundown" => m_limit'[r] = 0
    BY <1>1, <1>3, <1>7 DEF SetOutstandingLimit, TypeOK
  <2>3. \A p \in Pools : m_limit[p] = 0 => m_limit'[p] = 0
    BY <1>1, <1>7 DEF SetOutstandingLimit, TypeOK
  <2>4. \A p \in Pools : Trimming(p) => Trimming(p)'
    BY <2>1 DEF Trimming, At
  <2> QED BY <1>0, <2>1, <2>2, <2>3, <2>4, QuietStocked
<1>8. CASE RundownWaits(t)
  <2>1. UNCHANGED << m_maxPooled, m_limit >> /\ pc'[t] \in {"asleep", "idle"} /\ ~At(t, "trim")
        /\ \A u \in Threads \ {t} : pc'[u] = pc[u] /\ op'[u] = op[u]
    BY <1>0, <1>1, <1>8 DEF RundownWaits, Goto, At, TypeOK, poolVars
  <2>2. m_limit[r] = 0
    BY <1>8 DEF RundownWaits, Stocked, Waits, At
  <2>3. pc'[t] = "asleep" => m_outstanding[r] # 0
    BY <1>1, <1>8 DEF RundownWaits, Goto, TypeOK
  <2>4. \A p \in Pools : Live(p) /\ m_monitor[p] \in ranDown' =>
           m_monitor[p] \in ranDown \/ (m_limit'[p] = 0 /\ m_outstanding[p] = 0)
    <3> SUFFICES ASSUME NEW p \in Pools, Live(p), m_monitor[p] \in ranDown', m_monitor[p] \notin ranDown
                 PROVE  m_limit'[p] = 0 /\ m_outstanding[p] = 0
      OBVIOUS
    <3>1. m_monitor[p] = m_monitor[r] /\ m_outstanding[r] = 0
      BY <1>8 DEF RundownWaits
    <3>2. p = r
      BY <1>3, <3>1 DEF Base, Leads, Live
    <3> QED BY <2>1, <2>2, <3>1, <3>2
  <2>5. \A p \in Pools : Trimming(p) => Trimming(p)'
    BY <2>1 DEF Trimming, At
  <2> QED BY <1>0, <2>1, <2>2, <2>3, <2>4, <2>5, QuietStocked
<1>9. CASE Destroy(t)
  <2>1. UNCHANGED << m_limit, m_maxPooled, ranDown >> /\ ~At(t, "trim") /\ op[t].kind = "destroy"
        /\ (pc' = [pc EXCEPT ![t] = "idle"] \/ pc' = [pc EXCEPT ![t] = "abandon"])
    BY <1>9 DEF Destroy, Goto, At
  <2> QED BY <1>0, <2>1, PlainStocked
<1>10. CASE Repoint(t)
  <2>1. UNCHANGED << m_limit, m_maxPooled, ranDown >> /\ At(t, "enter") /\ op[t].kind = "move"
        /\ pc'[t] \in {"swap", "abandon"} /\ \A u \in Threads \ {t} : pc'[u] = pc[u] /\ op'[u] = op[u]
    BY <1>0, <1>1, <1>10 DEF Repoint, Goto, TypeOK, poolVars
  <2>2. Live(r) => Held(m_monitor[r]) = {}
    BY <2>1 DEF Stocked, Vacated, At
  <2>3. \A p \in Pools : Trimming(p) => Trimming(p)'
    BY <2>1 DEF Trimming, At
  <2> QED BY <1>0, <2>1, <2>2, <2>3, QuietStocked
<1> QED BY <1>4, <1>5, <1>6, <1>7, <1>8, <1>9, <1>10

LEMMA CallStocked ==
    ASSUME Base, Base', Stocked, Regular, NEW t \in Threads, Call(t) \/ CallAlone(t)
    PROVE  Stocked'
<1>1. UNCHANGED << at, monitor, poolVersion, m_objs, mine, hung, m_monitor, m_poolVersion,
                   m_outstanding, m_abandoned, m_limit, m_maxPooled, ranDown >> /\ At(t, "idle")
  BY DEF Call, CallAlone, poolVars, monitorVars, entryVars
<1>2. pc'[t] = "enter" /\ \A u \in Threads \ {t} : pc'[u] = pc[u] /\ op'[u] = op[u]
  BY CallTyped, OnlyOthers DEF Base
<1>3. PICK w \in todo[t] :
         op'[t] = w /\ (w.kind # "move" \/ (w.kind = "move" /\ (Overwrites \/ Out(w.pool) = {})))
  BY DEF Call, CallAlone, Base, Typed
<1>4. w.pool \in Pools
  BY DEF Base, Typed, Requests
<1>5. w.kind = "move" /\ Live(w.pool) => Held(m_monitor[w.pool]) = {}
  BY <1>3, <1>4, OutHeld DEF Regular
<1>6. \A p \in Pools : Trimming(p) => Trimming(p)'
  BY <1>1, <1>2 DEF Trimming, At
<1> QED BY <1>1, <1>2, <1>3, <1>5, <1>6, QuietStocked

\* An entry goes out: its memory is taken, or it leaves the cache.
Takes(t, r, e) ==
    /\ at[e] = "free" \/ e \in m_objs[r]
    /\ \E v \in {"building", "issued"} : at' = [at EXCEPT ![e] = v]
    /\ monitor'[e] = m_monitor[r] /\ \A x \in Entries \ {e} : monitor'[x] = monitor[x] /\ poolVersion'[x] = poolVersion[x]
    /\ m_objs' = [m_objs EXCEPT ![r] = @ \ {e}]
    /\ m_outstanding' = [m_outstanding EXCEPT ![r] = @ + 1]
    /\ \A u \in Threads : mine'[u] = mine[u] \/ (u = t /\ mine'[u] = mine[u] \cup {e})
    /\ \E l \in {"construct", "fill", "idle"} : pc' = [pc EXCEPT ![t] = l]
    /\ m_outstanding[r] < m_limit[r]
    /\ UNCHANGED << m_monitor, m_limit, m_maxPooled, m_poolVersion, m_abandoned, hung, op, ranDown >>

LEMMA ObtainTakes ==
    ASSUME Base, Stocked, Regular, NEW t \in Threads, NEW r \in Pools,
           ObtainNew(t, r) \/ ObtainCached(t, r), m_outstanding[r] < m_limit[r],
           UNCHANGED << m_monitor, m_limit, m_maxPooled, m_poolVersion, m_abandoned, op, ranDown >>
    PROVE  \E e \in Entries : Takes(t, r, e)
<1>0. TypeOK
  BY DEF Base, Typed
<1>1. CASE ObtainNew(t, r)
  <2>1. PICK e \in Entries : e = New /\ at[e] = "free"
    BY <1>1, NewOK DEF ObtainNew
  <2>2. monitor'[e] = m_monitor[r] /\ \A x \in Entries \ {e} : monitor'[x] = monitor[x] /\ poolVersion'[x] = poolVersion[x]
    BY <1>0, <1>1, <2>1 DEF ObtainNew, TypeOK
  <2>3. m_objs' = [m_objs EXCEPT ![r] = @ \ {e}]
    BY <1>0, <1>1 DEF ObtainNew, TypeOK
  <2>4. \A u \in Threads : mine'[u] = mine[u] \/ (u = t /\ mine'[u] = mine[u] \cup {e})
    BY <1>0, <1>1, <2>1 DEF ObtainNew, TypeOK
  <2>5. \E v \in {"building", "issued"} : at' = [at EXCEPT ![e] = v]
    BY <1>1, <2>1 DEF ObtainNew
  <2>6. \E l \in {"construct", "fill", "idle"} : pc' = [pc EXCEPT ![t] = l]
    BY <1>1 DEF ObtainNew, Goto
  <2>7. Takes(t, r, e)
    BY <1>1, <2>1, <2>2, <2>3, <2>4, <2>5, <2>6 DEF ObtainNew, Takes
  <2> QED BY <2>7
<1>2. CASE ObtainCached(t, r)
  <2>1. PICK e \in Entries : e = Back(r) /\ e \in m_objs[r]
    BY <1>0, <1>2, BackOK DEF ObtainCached, TypeOK
  <2>2. monitor'[e] = m_monitor[r] /\ \A x \in Entries \ {e} : monitor'[x] = monitor[x] /\ poolVersion'[x] = poolVersion[x]
    BY <1>2, <2>1 DEF ObtainCached, Stocked, Kept
  <2>3. m_objs' = [m_objs EXCEPT ![r] = @ \ {e}] /\ UNCHANGED hung
    BY <1>2, <2>1 DEF ObtainCached, Regular
  <2>4. \A u \in Threads : mine'[u] = mine[u] \/ (u = t /\ mine'[u] = mine[u] \cup {e})
    BY <1>0, <1>2, <2>1 DEF ObtainCached, TypeOK
  <2>5. \E v \in {"building", "issued"} : at' = [at EXCEPT ![e] = v]
    BY <1>2, <2>1 DEF ObtainCached
  <2>6. \E l \in {"construct", "fill", "idle"} : pc' = [pc EXCEPT ![t] = l]
    BY <1>2 DEF ObtainCached, Goto, Regular
  <2>7. Takes(t, r, e)
    BY <1>2, <2>1, <2>2, <2>3, <2>4, <2>5, <2>6 DEF ObtainCached, Takes
  <2> QED BY <2>7
<1> QED BY <1>1, <1>2

LEMMA TakesStocked ==
    ASSUME Base, Stocked, NEW t \in Threads, NEW r \in Pools, Live(r), ~At(t, "trim"),
           \A u \in Threads : Alters(u) => ~Uses(u, r), NEW e \in Entries, Takes(t, r, e)
    PROVE  Stocked'
<1>0. TypeOK /\ IsFiniteSet(Entries)
  BY ConstantsAssumption DEF Base, Typed
<1>1. /\ at'[e] \in {"building", "issued"} /\ monitor'[e] = m_monitor[r]
      /\ \A x \in Entries \ {e} : at'[x] = at[x] /\ monitor'[x] = monitor[x] /\ poolVersion'[x] = poolVersion[x]
  BY <1>0 DEF Takes, TypeOK
<1>2. at[e] \in {"free", "pooled"} /\ (\A p \in Pools : e \in m_objs[p] => p = r)
      /\ \A u \in Threads : e \notin mine[u]
  <2>1. at[e] \in {"free", "pooled"}
    BY DEF Takes, Stocked, Kept
  <2>2. \A p \in Pools : e \in m_objs[p] => p = r
    BY DEF Takes, Stocked, Kept, Base, Leads, Live
  <2> QED BY <2>1, <2>2 DEF Stocked, Kept
<1>3. m_objs'[r] = m_objs[r] \ {e} /\ \A p \in Pools \ {r} : m_objs'[p] = m_objs[p]
  BY <1>0 DEF Takes, TypeOK
<1>4. m_outstanding'[r] = m_outstanding[r] + 1 /\ \A p \in Pools \ {r} : m_outstanding'[p] = m_outstanding[p]
  BY <1>0 DEF Takes, TypeOK
<1>5. UNCHANGED << m_monitor, m_limit, m_maxPooled, m_poolVersion, m_abandoned, hung, op, ranDown >>
  BY DEF Takes
<1>6. PICK l \in {"construct", "fill", "idle"} : pc'[t] = l
  BY <1>0 DEF Takes, TypeOK
<1>7. \A u \in Threads \ {t} : pc'[u] = pc[u]
  BY <1>0 DEF Takes, TypeOK
<1>8. \A p : Live(p)' <=> Live(p)
  BY <1>5 DEF Live
<1>9. Held(m_monitor[r])' = Held(m_monitor[r]) \cup {e} /\ e \notin Held(m_monitor[r])
  <2> PICK m : m = m_monitor[r]
    OBVIOUS
  <2>1. Held(m)' = Held(m) \cup {e} /\ e \notin Held(m)
    BY <1>1, <1>2 DEF Held
  <2> QED BY <1>5, <2>1 DEF Held
<1>10. \A p \in Pools \ {r} : Live(p) => Held(m_monitor[p])' = Held(m_monitor[p])
  <2> SUFFICES ASSUME NEW p \in Pools \ {r}, Live(p) PROVE Held(m_monitor[p])' = Held(m_monitor[p])
    OBVIOUS
  <2> PICK m : m = m_monitor[p]
    OBVIOUS
  <2>1. m # m_monitor[r]
    BY DEF Base, Leads, Live
  <2>2. monitor[e] # m \/ at[e] \notin {"building", "issued"}
    BY <1>2
  <2>3. Held(m)' = Held(m)
    BY <1>1, <2>1, <2>2 DEF Held
  <2> QED BY <1>5, <2>3 DEF Held
<1>11. Kept'
  <2>1. \A p \in Pools, x \in Entries : x \in m_objs'[p] => at'[x] = "pooled" /\ monitor'[x] = m_monitor'[p]
    <3> SUFFICES ASSUME NEW p \in Pools, NEW x \in Entries, x \in m_objs'[p]
                 PROVE  at'[x] = "pooled" /\ monitor'[x] = m_monitor[p]
      BY <1>5
    <3>1. x # e /\ x \in m_objs[p]
      BY <1>2, <1>3
    <3> QED BY <1>1, <3>1 DEF Stocked, Kept
  <2>2. \A u \in Threads, x \in Entries : x \in mine'[u] => x \in mine[u] \/ (x = e /\ u = t)
    BY DEF Takes
  <2>3. \A u \in Threads, x \in Entries : x \in mine'[u] => at'[x] \in {"building", "issued"}
    BY <1>1, <2>2 DEF Stocked, Kept
  <2>4. \A u \in Threads, v \in Threads, x \in Entries : x \in mine'[u] /\ x \in mine'[v] => u = v
    BY <1>2, <2>2 DEF Stocked, Kept
  <2> QED BY <1>5, <2>1, <2>3, <2>4 DEF Stocked, Kept
<1>12. Vacated'
  <2> SUFFICES ASSUME NEW u \in Threads, NEW x, x = op[u].pool, pc'[u] \in {"enter", "abandon"},
                      op[u].kind = "move", Live(x)
               PROVE  Held(m_monitor[x])' = {}
    BY <1>5, <1>8 DEF Vacated, Live, Held
  <2>1. u # t /\ pc[u] = pc'[u]
    BY <1>6, <1>7
  <2>2. Alters(u) /\ Uses(u, x) /\ x \in Pools
    BY <2>1, PointOK DEF Alters, Uses, At, Base
  <2>3. x # r
    BY <2>2
  <2>4. Held(m_monitor[x]) = {}
    BY <2>1 DEF Stocked, Vacated
  <2> QED BY <1>10, <2>2, <2>3, <2>4
<1>13. Counted'
  <2> SUFFICES ASSUME NEW p \in Pools, Live(p) PROVE m_outstanding'[p] = Cardinality(Held(m_monitor[p]))'
    BY <1>8 DEF Counted
  <2>0. m_outstanding[p] = Cardinality(Held(m_monitor[p])) /\ IsFiniteSet(Held(m_monitor[p]))
    BY HeldFinite DEF Stocked, Counted
  <2>1. CASE p = r
    <3>1. Cardinality(Held(m_monitor[r]) \cup {e}) = Cardinality(Held(m_monitor[r])) + 1
      BY <1>9, <2>0, <2>1, FS_AddElement
    <3> QED BY <1>4, <1>9, <2>0, <2>1, <3>1
  <2>2. CASE p # r
    BY <1>4, <1>10, <2>0, <2>2
  <2> QED BY <2>1, <2>2
<1>14. Fresh'
  <2> SUFFICES ASSUME NEW p \in Pools, Live(p), NEW x \in m_objs'[p] PROVE poolVersion'[x] = m_poolVersion[p]
    BY <1>5, <1>8 DEF Fresh
  <2>1. x \in m_objs[p] /\ x # e /\ x \in Entries
    BY <1>0, <1>2, <1>3 DEF TypeOK
  <2> QED BY <1>1, <2>1 DEF Stocked, Fresh
<1>15. Waits'
  <2> SUFFICES ASSUME NEW u \in Threads
               PROVE  /\ pc'[u] = "asleep" /\ op[u].kind \in {"wait", "rundown"} => m_outstanding'[op[u].pool] # 0
                      /\ pc'[u] \in {"asleep", "woken"} /\ op[u].kind = "rundown" => m_limit[op[u].pool] = 0
    BY <1>5 DEF Waits, At
  <2>1. CASE u = t
    BY <1>6, <2>1
  <2>2. CASE u # t
    <3>1. pc[u] \in {"asleep", "woken"} => op[u].pool \in Pools
      BY PointOK DEF Base, At
    <3>2. \A p \in Pools : m_outstanding[p] # 0 => m_outstanding'[p] # 0
      BY <1>0, <1>4 DEF TypeOK
    <3> QED BY <1>7, <2>2, <3>1, <3>2 DEF Stocked, Waits, At
  <2> QED BY <2>1, <2>2
<1>16. Closed'
  <2> SUFFICES ASSUME NEW p \in Pools, Live(p), m_monitor[p] \in ranDown
               PROVE  m_limit[p] = 0 /\ m_outstanding'[p] = 0
    BY <1>5, <1>8 DEF Closed
  <2>1. m_limit[p] = 0 /\ m_outstanding[p] = 0
    BY DEF Stocked, Closed
  <2>2. p # r
    BY <1>0, <2>1 DEF Takes, TypeOK
  <2> QED BY <1>4, <2>1, <2>2
<1>17. Trimmed'
  <2> SUFFICES ASSUME NEW p \in Pools, Live(p), ~Trimming(p)'
               PROVE  Cardinality(m_objs'[p]) <= m_maxPooled[p]
    BY <1>5, <1>8 DEF Trimmed
  <2>1. ~Trimming(p)
    BY <1>5, <1>7 DEF Trimming, At
  <2>2. Cardinality(m_objs[p]) <= m_maxPooled[p]
    BY <2>1 DEF Stocked, Trimmed
  <2>3. IsFiniteSet(m_objs[p]) /\ m_objs'[p] \subseteq m_objs[p]
    <3>1. m_objs[p] \subseteq Entries
      BY <1>0 DEF TypeOK
    <3> QED BY <1>0, <1>3, <3>1, FS_Subset
  <2>4. Cardinality(m_objs'[p]) <= Cardinality(m_objs[p]) /\ Cardinality(m_objs[p]) \in Nat
        /\ Cardinality(m_objs'[p]) \in Nat
    BY <2>3, FS_Subset, FS_CardinalityType
  <2> QED BY <1>0, <2>2, <2>4 DEF TypeOK
<1> QED BY <1>11, <1>12, <1>13, <1>14, <1>15, <1>16, <1>17 DEF Stocked

\* The last pointer to e goes: e is out, and no thread keeps hold of it.
Comes(e, f) ==
    /\ at[e] \in {"building", "issued"} /\ f \in [Threads -> Points] /\ Return(e, f)
    /\ \A u \in Threads : f[u] = pc[u] \/ (f[u] = "release" /\ At(u, "construct"))
    /\ \A u \in Threads : mine'[u] \subseteq mine[u] /\ e \notin mine'[u]

LEMMA ReturnPoints ==
    ASSUME NEW e \in Entries, NEW f, Comes(e, f), NEW u \in Threads
    PROVE  \/ pc'[u] = pc[u]
           \/ pc[u] = "construct" /\ pc'[u] = "release"
           \/ pc[u] = "asleep" /\ pc'[u] = "woken"
<1>1. pc'[u] = f[u] \/ (f[u] = "asleep" /\ pc'[u] = "woken")
  BY DEF Comes, Return, ReturnUnsafe, NotifyAll
<1> QED BY <1>1 DEF Comes, At

\* Either way the object is out no more, and nothing but its pool changes.
LEMMA ReturnHeld ==
    ASSUME Base, Stocked, NEW e \in Entries, NEW f, Comes(e, f)
    PROVE  /\ UNCHANGED << m_monitor, m_limit, m_maxPooled, m_poolVersion, m_abandoned, hung, monitor,
                            poolVersion, op, ranDown >>
           /\ at'[e] \in {"free", "pooled"} /\ \A x \in Entries \ {e} : at'[x] = at[x]
           /\ \A m : Held(m)' = IF m = monitor[e] THEN Held(m) \ {e} ELSE Held(m)
           /\ Vacated'
           /\ \A u \in Threads, x \in Entries : x \in mine'[u] => at'[x] \in {"building", "issued"}
           /\ \A u \in Threads, v \in Threads, x \in Entries : x \in mine'[u] /\ x \in mine'[v] => u = v
<1>0. TypeOK
  BY DEF Base, Typed
<1>1. UNCHANGED << m_monitor, m_limit, m_maxPooled, m_poolVersion, m_abandoned, hung, monitor,
                   poolVersion, op, ranDown >>
  BY DEF Comes, Return, monitorVars
<1>2. at'[e] \in {"free", "pooled"} /\ \A x \in Entries \ {e} : at'[x] = at[x]
  BY <1>0 DEF Comes, Return, ReturnUnsafe, TypeOK
<1>3. ASSUME NEW m PROVE Held(m)' = IF m = monitor[e] THEN Held(m) \ {e} ELSE Held(m)
  BY <1>1, <1>2 DEF Held, Comes
<1>4. Vacated'
  <2> SUFFICES ASSUME NEW u \in Threads, NEW x, x = op[u].pool, pc'[u] \in {"enter", "abandon"},
                      op[u].kind = "move", Live(x)
               PROVE  Held(m_monitor[x])' = {}
    BY <1>1 DEF Vacated, Live, Held
  <2>1. pc[u] = pc'[u]
    BY ReturnPoints
  <2> PICK m : m = m_monitor[x]
    OBVIOUS
  <2>2. Held(m) = {}
    BY <2>1 DEF Stocked, Vacated
  <2>3. Held(m)' = {}
    BY <1>3, <2>2
  <2> QED BY <1>1, <2>3 DEF Held
<1>5. \A u \in Threads, x \in Entries : x \in mine'[u] => x \in mine[u] /\ x # e
  BY DEF Comes
<1>6. \A u \in Threads, x \in Entries : x \in mine'[u] => at'[x] \in {"building", "issued"}
  BY <1>2, <1>5 DEF Stocked, Kept
<1>7. \A u \in Threads, v \in Threads, x \in Entries : x \in mine'[u] /\ x \in mine'[v] => u = v
  BY <1>5 DEF Stocked, Kept
<1> QED BY <1>1, <1>2, <1>3, <1>4, <1>6, <1>7

\* An object comes back to a monitor that is abandoned, and is deleted.
LEMMA ReturnDead ==
    ASSUME Base, Stocked, NEW e \in Entries, NEW f, Comes(e, f), m_abandoned[monitor[e]]
    PROVE  Stocked'
<1>0. TypeOK
  BY DEF Base, Typed
<1>1. UNCHANGED << m_monitor, m_limit, m_maxPooled, m_poolVersion, m_abandoned, hung, monitor,
                   poolVersion, op, ranDown >>
  BY ReturnHeld
<1>2. UNCHANGED << m_outstanding, m_objs >> /\ pc' = f
  BY DEF Comes, Return
<1>3. \A p : Live(p)' <=> Live(p)
  BY <1>1 DEF Live
<1>4. Kept'
  <2>1. \A p \in Pools, x \in Entries : x \in m_objs'[p] => at'[x] = "pooled" /\ monitor'[x] = m_monitor'[p]
    <3>1. \A p \in Pools, x \in Entries : x \in m_objs[p] => x # e /\ at[x] = "pooled" /\ monitor[x] = m_monitor[p]
      BY DEF Stocked, Kept, Comes
    <3> QED BY <1>1, <1>2, <3>1, ReturnHeld
  <2> QED BY <1>1, <2>1, ReturnHeld DEF Stocked, Kept
<1>5. Counted'
  <2> SUFFICES ASSUME NEW p \in Pools, Live(p) PROVE m_outstanding'[p] = Cardinality(Held(m_monitor[p]))'
    BY <1>3 DEF Counted
  <2> PICK m : m = m_monitor[p]
    OBVIOUS
  <2>1. m # monitor[e]
    BY DEF Live
  <2>2. Held(m)' = Held(m)
    BY <2>1, ReturnHeld
  <2>3. Held(m_monitor[p])' = Held(m_monitor[p])
    BY <1>1, <2>2 DEF Held
  <2> QED BY <1>2, <2>3 DEF Stocked, Counted
<1>6. Fresh'
  BY <1>1, <1>2, <1>3 DEF Stocked, Fresh
<1>7. Waits'
  <2>1. \A u \in Threads : pc'[u] \in {"asleep", "woken"} => pc'[u] = pc[u]
    BY <1>2 DEF Comes
  <2> QED BY <1>1, <1>2, <2>1 DEF Stocked, Waits, At
<1>8. Closed'
  BY <1>1, <1>2, <1>3 DEF Stocked, Closed
<1>9. Trimmed'
  <2>1. \A p : Trimming(p) => Trimming(p)'
    BY <1>1, <1>2 DEF Trimming, At, Comes
  <2> QED BY <1>1, <1>2, <1>3, <2>1 DEF Stocked, Trimmed
<1> QED BY <1>4, <1>5, <1>6, <1>7, <1>8, <1>9, ReturnHeld DEF Stocked

\* An object comes back to its pool.
LEMMA ReturnLive ==
    ASSUME Base, Stocked, NEW e \in Entries, NEW f, Comes(e, f), ~m_abandoned[monitor[e]]
    PROVE  Stocked'
<1>0. TypeOK /\ IsFiniteSet(Entries)
  BY ConstantsAssumption DEF Base, Typed
<1>1. PICK r \in Pools : m_monitor[r] = monitor[e] /\ Live(r) /\ e \in Held(m_monitor[r])
  BY DEF Base, Belongs, Live, Held, Comes
<1>2. owner[monitor[e]] = r
  <2>1. e \in Out(r)
    BY <1>1, OutHeld
  <2> QED BY <2>1 DEF Out
<1>3. ReturnUnsafe(e, r, f)
  BY <1>2 DEF Comes, Return
<1>4. UNCHANGED << m_monitor, m_limit, m_maxPooled, m_poolVersion, m_abandoned, hung, monitor,
                   poolVersion, op, ranDown >>
  BY ReturnHeld
<1>5. PICK n \in Nat : m_outstanding[r] = n + 1 /\ Cardinality(Held(m_monitor[r]) \ {e}) = n
  <2>1. Cardinality(Held(m_monitor[r]) \ {e}) = Cardinality(Held(m_monitor[r])) - 1
    BY <1>1, HeldFinite, FS_RemoveElement
  <2>2. Held(m_monitor[r]) # {}
    BY <1>1
  <2>3. Cardinality(Held(m_monitor[r])) # 0 /\ Cardinality(Held(m_monitor[r])) \in Nat
    BY <2>2, HeldFinite, FS_EmptySet
  <2>4. m_outstanding[r] = Cardinality(Held(m_monitor[r]))
    BY <1>1 DEF Stocked, Counted
  <2> QED BY <2>1, <2>3, <2>4
<1>6. m_outstanding'[r] = n /\ \A p \in Pools \ {r} : m_outstanding'[p] = m_outstanding[p]
  BY <1>0, <1>3, <1>5 DEF ReturnUnsafe, Decrement, TypeOK
<1>7. \/ Keeps(e, r) /\ at'[e] = "pooled" /\ m_objs'[r] = m_objs[r] \cup {e}
         /\ \A p \in Pools \ {r} : m_objs'[p] = m_objs[p]
      \/ UNCHANGED m_objs
  BY <1>0, <1>3 DEF ReturnUnsafe, TypeOK
<1>8. \A p : Live(p)' <=> Live(p)
  BY <1>4 DEF Live
<1>9. \A p \in Pools, x \in Entries : x \in m_objs[p] => x # e /\ at[x] = "pooled" /\ monitor[x] = m_monitor[p]
  BY DEF Stocked, Kept, Comes
<1>10. Kept'
  <2>1. \A p \in Pools, x \in Entries : x \in m_objs'[p] => at'[x] = "pooled" /\ monitor'[x] = m_monitor'[p]
    <3> SUFFICES ASSUME NEW p \in Pools, NEW x \in Entries, x \in m_objs'[p]
                 PROVE  at'[x] = "pooled" /\ monitor[x] = m_monitor[p]
      BY <1>4
    <3>1. CASE x \in m_objs[p]
      BY <1>9, <3>1, ReturnHeld
    <3>2. CASE x \notin m_objs[p]
      BY <1>1, <1>7, <3>2
    <3> QED BY <3>1, <3>2
  <2> QED BY <1>4, <2>1, ReturnHeld DEF Stocked, Kept
<1>11. Counted'
  <2> SUFFICES ASSUME NEW p \in Pools, Live(p) PROVE m_outstanding'[p] = Cardinality(Held(m_monitor[p]))'
    BY <1>8 DEF Counted
  <2> PICK m : m = m_monitor[p]
    OBVIOUS
  <2>1. Held(m_monitor[p])' = Held(m)'
    BY <1>4 DEF Held
  <2>2. CASE p = r
    <3>1. Held(m)' = Held(m) \ {e}
      BY <1>1, <2>2, ReturnHeld
    <3> QED BY <1>5, <1>6, <2>1, <2>2, <3>1
  <2>3. CASE p # r
    <3>1. m # monitor[e]
      BY <1>1, <2>3 DEF Base, Leads, Live
    <3>2. Held(m)' = Held(m)
      BY <3>1, ReturnHeld
    <3> QED BY <1>6, <2>1, <2>3, <3>2 DEF Stocked, Counted
  <2> QED BY <2>2, <2>3
<1>12. Fresh'
  <2> SUFFICES ASSUME NEW p \in Pools, Live(p), NEW x \in m_objs'[p] PROVE poolVersion[x] = m_poolVersion[p]
    BY <1>4, <1>8 DEF Fresh
  <2>1. CASE x \in m_objs[p]
    BY <2>1 DEF Stocked, Fresh
  <2>2. CASE x \notin m_objs[p]
    BY <1>7, <2>2 DEF Keeps
  <2> QED BY <2>1, <2>2
<1>13. Waits'
  <2> SUFFICES ASSUME NEW u \in Threads
               PROVE  /\ pc'[u] = "asleep" /\ op[u].kind \in {"wait", "rundown"} => m_outstanding'[op[u].pool] # 0
                      /\ pc'[u] \in {"asleep", "woken"} /\ op[u].kind = "rundown" => m_limit[op[u].pool] = 0
    BY <1>4 DEF Waits, At
  <2>1. pc'[u] \in {"asleep", "woken"} => pc[u] = pc'[u] \/ (pc[u] = "asleep" /\ pc'[u] = "woken")
    BY ReturnPoints
  <2>2. pc'[u] \in {"asleep", "woken"} => op[u].pool \in Pools
    BY <2>1, PointOK DEF Base, At
  <2>3. pc'[u] \in {"asleep", "woken"} /\ op[u].kind = "rundown" => m_limit[op[u].pool] = 0
    BY <2>1 DEF Stocked, Waits, At
  <2>4. ASSUME pc'[u] = "asleep", op[u].kind \in {"wait", "rundown"} PROVE m_outstanding'[op[u].pool] # 0
    <3>1. pc[u] = "asleep" /\ m_outstanding[op[u].pool] # 0
      BY <2>1, <2>4 DEF Stocked, Waits, At
    <3>2. CASE op[u].pool # r
      BY <1>6, <2>2, <2>4, <3>1, <3>2
    <3>3. CASE op[u].pool = r
      <4>1. ~Wakes(n, r)
        <5> SUFFICES ASSUME Wakes(n, r) PROVE FALSE
          OBVIOUS
        <5>1. Decrement(m_outstanding[r]) = n
          BY <1>5 DEF Decrement
        <5>2. pc' = NotifyAll(f, r)
          BY <1>3, <5>1 DEF ReturnUnsafe
        <5> QED BY <2>4, <3>3, <5>2 DEF NotifyAll
      <4>2. n # 0
        BY <1>0, <4>1 DEF Wakes, TypeOK
      <4> QED BY <1>6, <3>3, <4>2
    <3> QED BY <3>2, <3>3
  <2> QED BY <2>3, <2>4
<1>14. Closed'
  <2> SUFFICES ASSUME NEW p \in Pools, Live(p), m_monitor[p] \in ranDown
               PROVE  m_limit[p] = 0 /\ m_outstanding'[p] = 0
    BY <1>4, <1>8 DEF Closed
  <2>1. m_limit[p] = 0 /\ m_outstanding[p] = 0
    BY DEF Stocked, Closed
  <2>2. p # r
    BY <1>5, <2>1
  <2> QED BY <1>6, <2>1, <2>2
<1>15. Trimmed'
  <2> SUFFICES ASSUME NEW p \in Pools, Live(p), ~Trimming(p)'
               PROVE  Cardinality(m_objs'[p]) <= m_maxPooled[p]
    BY <1>4, <1>8 DEF Trimmed
  <2>1. ~Trimming(p)
    <3> SUFFICES ASSUME NEW u \in Threads, pc[u] = "trim", op[u].pool = p PROVE FALSE
      BY DEF Trimming, At
    <3>1. pc'[u] = "trim"
      BY ReturnPoints
    <3> QED BY <1>4, <3>1 DEF Trimming, At
  <2>2. Cardinality(m_objs[p]) <= m_maxPooled[p]
    BY <2>1 DEF Stocked, Trimmed
  <2>3. CASE m_objs'[p] = m_objs[p]
    BY <2>2, <2>3
  <2>4. CASE p = r /\ Keeps(e, r) /\ m_objs'[r] = m_objs[r] \cup {e}
    <3>1. m_objs[r] \subseteq Entries /\ m_maxPooled[r] \in Nat
      BY <1>0 DEF TypeOK
    <3>2. IsFiniteSet(m_objs[r])
      BY <1>0, <3>1, FS_Subset
    <3>3. Cardinality(m_objs[r] \cup {e}) = Cardinality(m_objs[r]) + 1 /\ Cardinality(m_objs[r]) \in Nat
      BY <1>9, <3>2, FS_AddElement, FS_CardinalityType
    <3> QED BY <2>4, <3>1, <3>3 DEF Keeps
  <2> QED BY <1>7, <2>3, <2>4
<1> QED BY <1>10, <1>11, <1>12, <1>13, <1>14, <1>15, ReturnHeld DEF Stocked

\* A step of t that leaves what is out alone, and puts nothing into a cache.
LEMMA ShrinkStocked ==
    ASSUME Base, Stocked, NEW t \in Threads,
           UNCHANGED << monitor, poolVersion, hung, m_monitor, m_outstanding, m_abandoned, m_limit,
                        m_maxPooled, op, ranDown >>,
           \A x \in Entries : at'[x] \in {"building", "issued"} <=> at[x] \in {"building", "issued"},
           \A p \in Pools : \A x \in m_objs'[p] : x \in m_objs[p] /\ at'[x] = at[x],
           \A u \in Threads : mine'[u] \subseteq mine[u],
           \A p \in Pools : m_poolVersion'[p] = m_poolVersion[p] \/ m_objs'[p] = {},
           NEW l \in {"fill", "idle", "trim"}, pc' = [pc EXCEPT ![t] = l], At(t, "trim") => l = "trim"
    PROVE  Stocked'
<1>0. TypeOK /\ IsFiniteSet(Entries)
  BY ConstantsAssumption DEF Base, Typed
<1>1. \A m : Held(m)' = Held(m)
  BY DEF Held
<1>2. \A p : Live(p)' <=> Live(p)
  BY DEF Live
<1>3. pc'[t] = l /\ \A u \in Threads \ {t} : pc'[u] = pc[u]
  BY <1>0 DEF TypeOK
<1>4. \A u \in Threads : pc'[u] \in {"enter", "abandon", "asleep", "woken"} => pc'[u] = pc[u]
  BY <1>3
<1>5. \A p \in Pools : Trimming(p) => Trimming(p)'
  BY <1>3 DEF Trimming, At
<1>6. Kept'
  <2>1. \A p \in Pools, x \in Entries : x \in m_objs'[p] => at'[x] = "pooled" /\ monitor'[x] = m_monitor'[p]
    BY DEF Stocked, Kept
  <2>2. \A u \in Threads, x \in Entries : x \in mine'[u] => at'[x] \in {"building", "issued"}
    BY DEF Stocked, Kept
  <2>3. \A u \in Threads, v \in Threads, x \in Entries : x \in mine'[u] /\ x \in mine'[v] => u = v
    BY DEF Stocked, Kept
  <2> QED BY <2>1, <2>2, <2>3 DEF Stocked, Kept
<1>7. Vacated'
  <2> SUFFICES ASSUME NEW u \in Threads, NEW x, x = op[u].pool, pc'[u] \in {"enter", "abandon"},
                      op[u].kind = "move", Live(x)
               PROVE  Held(m_monitor[x]) = {}
    BY <1>1, <1>2 DEF Vacated, Live, Held
  <2> QED BY <1>4 DEF Stocked, Vacated
<1>8. Counted'
  BY <1>1, <1>2 DEF Stocked, Counted
<1>9. Fresh'
  BY <1>2 DEF Stocked, Fresh
<1>10. Waits'
  BY <1>4 DEF Stocked, Waits, At
<1>11. Closed'
  BY <1>2 DEF Stocked, Closed
<1>12. Trimmed'
  <2> SUFFICES ASSUME NEW p \in Pools, Live(p), ~Trimming(p)'
               PROVE  Cardinality(m_objs'[p]) <= m_maxPooled[p]
    BY <1>2 DEF Trimmed
  <2>1. Cardinality(m_objs[p]) <= m_maxPooled[p]
    BY <1>5 DEF Stocked, Trimmed
  <2>2. IsFiniteSet(m_objs[p]) /\ m_objs'[p] \subseteq m_objs[p]
    <3>1. m_objs[p] \subseteq Entries
      BY <1>0 DEF TypeOK
    <3> QED BY <1>0, <3>1, FS_Subset
  <2>3. Cardinality(m_objs'[p]) <= Cardinality(m_objs[p]) /\ Cardinality(m_objs[p]) \in Nat
        /\ Cardinality(m_objs'[p]) \in Nat
    BY <2>2, FS_Subset, FS_CardinalityType
  <2> QED BY <1>0, <2>1, <2>3 DEF TypeOK
<1> QED BY <1>6, <1>7, <1>8, <1>9, <1>10, <1>11, <1>12 DEF Stocked

LEMMA TrimStocked ==
    ASSUME Base, Base', Stocked, NEW t \in Threads, Trim(t)
    PROVE  Stocked'
<1>0. TypeOK
  BY DEF Base, Typed
<1> PICK r : r = op[t].pool
  OBVIOUS
<1>1. r \in Pools
  BY PointOK DEF Trim, At, Base
<1>2. CASE Cardinality(m_objs[r]) <= m_maxPooled[r]
  <2>1. UNCHANGED << at, monitor, poolVersion, m_objs, mine, hung, m_monitor, m_poolVersion,
                     m_outstanding, m_abandoned, m_limit, m_maxPooled, ranDown, op >>
    BY <1>2 DEF Trim, monitorVars
  <2>2. pc'[t] \in {"idle", "limit"} /\ \A u \in Threads \ {t} : pc'[u] = pc[u] /\ op'[u] = op[u]
    BY <1>0, <1>2, <2>1 DEF Trim, Goto, TypeOK
  <2>3. \A p \in Pools : Trimming(p) => Trimming(p)' \/ p = r
    BY <2>1, <2>2 DEF Trimming, At
  <2> QED BY <1>2, <2>1, <2>2, <2>3, QuietStocked
<1>3. CASE ~(Cardinality(m_objs[r]) <= m_maxPooled[r])
  <2>1. UNCHANGED << monitor, poolVersion, hung, m_monitor, m_outstanding, m_abandoned, m_limit,
                     m_maxPooled, op, ranDown, m_poolVersion, mine >>
    BY DEF Trim, monitorVars
  <2>2. pc' = [pc EXCEPT ![t] = "trim"]
    BY <1>0, <1>3 DEF Trim, At, TypeOK
  <2>3. m_objs[r] # {}
    <3> SUFFICES ASSUME m_objs[r] = {} PROVE FALSE
      OBVIOUS
    <3>1. Cardinality(m_objs[r]) = 0 /\ m_maxPooled[r] \in Nat
      BY <1>0, <1>1, FS_EmptySet DEF TypeOK
    <3> QED BY <1>3, <3>1
  <2>4. PICK e \in Entries : e = Back(r) /\ e \in m_objs[r]
    BY <1>0, <1>1, <2>3, BackOK DEF TypeOK
  <2>5. at'[e] = "free" /\ at[e] = "pooled" /\ \A x \in Entries \ {e} : at'[x] = at[x]
    BY <1>0, <1>1, <1>3, <2>4 DEF Trim, TypeOK, Stocked, Kept
  <2>6. m_objs'[r] = m_objs[r] \ {e} /\ \A p \in Pools \ {r} : m_objs'[p] = m_objs[p]
    BY <1>0, <1>1, <1>3, <2>4 DEF Trim, TypeOK
  <2>7. \A p \in Pools \ {r} : e \notin m_objs[p]
    <3>1. m_monitor[r] # None
      BY <1>1, <2>4 DEF Base, Belongs, Stocked, Kept
    <3> QED BY <1>1, <2>4, <3>1 DEF Stocked, Kept, Base, Leads
  <2>8. \A p \in Pools : \A x \in m_objs'[p] : x \in m_objs[p] /\ at'[x] = at[x]
    BY <1>0, <2>5, <2>6, <2>7 DEF TypeOK
  <2>9. \A x \in Entries : at'[x] \in {"building", "issued"} <=> at[x] \in {"building", "issued"}
    BY <2>5
  <2> QED BY <2>1, <2>2, <2>8, <2>9, ShrinkStocked
<1> QED BY <1>2, <1>3

LEMMA ClearStocked ==
    ASSUME Base, Stocked, NEW t \in Threads, ClearCachedEntities(t)
    PROVE  Stocked'
<1>0. TypeOK
  BY DEF Base, Typed
<1> PICK r : r = op[t].pool
  OBVIOUS
<1>1. r \in Pools /\ ~At(t, "trim")
  BY PointOK DEF ClearCachedEntities, In, At, Base
<1>2. UNCHANGED << monitor, poolVersion, hung, m_monitor, m_outstanding, m_abandoned, m_limit,
                   m_maxPooled, op, ranDown, mine >> /\ pc' = [pc EXCEPT ![t] = "idle"]
  BY DEF ClearCachedEntities, monitorVars, Goto
<1>3. m_objs'[r] = {} /\ \A p \in Pools \ {r} : m_objs'[p] = m_objs[p] /\ m_poolVersion'[p] = m_poolVersion[p]
  BY <1>0, <1>1 DEF ClearCachedEntities, TypeOK
<1>4. \A x \in Entries : at'[x] = IF x \in m_objs[r] THEN "free" ELSE at[x]
  BY DEF ClearCachedEntities, Cleared
<1>5. \A x \in Entries : x \in m_objs[r] => at[x] = "pooled"
  BY <1>1 DEF Stocked, Kept
<1>6. \A x \in Entries : at'[x] \in {"building", "issued"} <=> at[x] \in {"building", "issued"}
  BY <1>4, <1>5
<1>7. ASSUME NEW p \in Pools, NEW x \in m_objs'[p] PROVE x \in m_objs[p] /\ at'[x] = at[x]
  <2>1. p # r /\ x \in m_objs[p] /\ x \in Entries
    BY <1>0, <1>3, <1>7 DEF TypeOK
  <2>2. x \notin m_objs[r]
    BY <1>1, <2>1 DEF Stocked, Kept, Base, Leads, Belongs
  <2> QED BY <1>4, <2>1, <2>2
<1> QED BY <1>1, <1>2, <1>3, <1>6, <1>7, ShrinkStocked

LEMMA ConstructStocked ==
    ASSUME Base, Stocked, Regular, NEW t \in Threads, Construct(t)
    PROVE  Stocked'
<1>0. TypeOK
  BY DEF Base, Typed
<1>1. PICK e \in mine[t] : at[e] = "building" /\
        \/ /\ at' = [at EXCEPT ![e] = "issued"]
           /\ UNCHANGED mine \/ mine' = [mine EXCEPT ![t] = @ \ {e}]
           /\ \E l \in {"fill", "idle"} : pc' = [pc EXCEPT ![t] = l]
           /\ UNCHANGED << poolVars, monitorVars, monitor, poolVersion, op, left, todo, ranDown >>
        \/ Return(e, [pc EXCEPT ![t] = "release"]) /\ mine' = [mine EXCEPT ![t] = @ \ {e}]
  BY DEF Construct, Goto, Regular
<1>2. e \in Entries
  BY <1>0 DEF TypeOK
<1>3. CASE Return(e, [pc EXCEPT ![t] = "release"]) /\ mine' = [mine EXCEPT ![t] = @ \ {e}]
  <2> PICK f : f = [pc EXCEPT ![t] = "release"]
    OBVIOUS
  <2>1. f \in [Threads -> Points] /\ \A u \in Threads : f[u] = pc[u] \/ (f[u] = "release" /\ At(u, "construct"))
    BY <1>0 DEF TypeOK, Points, Construct
  <2>2. \A u \in Threads : mine'[u] \subseteq mine[u] /\ e \notin mine'[u]
    <3>1. \A u \in Threads \ {t} : e \notin mine[u]
      BY <1>2 DEF Stocked, Kept
    <3> QED BY <1>0, <1>3, <3>1 DEF TypeOK
  <2>3. Comes(e, f)
    BY <1>1, <1>3, <2>1, <2>2 DEF Comes
  <2> QED BY <1>2, <2>3, ReturnDead, ReturnLive
<1>4. CASE /\ at' = [at EXCEPT ![e] = "issued"]
           /\ UNCHANGED mine \/ mine' = [mine EXCEPT ![t] = @ \ {e}]
           /\ \E l \in {"fill", "idle"} : pc' = [pc EXCEPT ![t] = l]
           /\ UNCHANGED << poolVars, monitorVars, monitor, poolVersion, op, left, todo, ranDown >>
  <2>1. UNCHANGED << monitor, poolVersion, hung, m_monitor, m_outstanding, m_abandoned, m_limit,
                     m_maxPooled, op, ranDown, m_poolVersion, m_objs >>
    BY <1>4 DEF poolVars, monitorVars
  <2>2. at'[e] = "issued" /\ \A x \in Entries \ {e} : at'[x] = at[x]
    BY <1>0, <1>2, <1>4 DEF TypeOK
  <2>3. \A x \in Entries : at'[x] \in {"building", "issued"} <=> at[x] \in {"building", "issued"}
    BY <1>1, <2>2
  <2>4. \A p \in Pools : \A x \in m_objs'[p] : x \in m_objs[p] /\ at'[x] = at[x]
    <3>1. \A p \in Pools : e \notin m_objs[p] /\ m_objs[p] \subseteq Entries
      BY <1>0, <1>1, <1>2 DEF Stocked, Kept, TypeOK
    <3> QED BY <2>1, <2>2, <3>1
  <2>5. \A u \in Threads : mine'[u] \subseteq mine[u]
    BY <1>0, <1>4 DEF TypeOK
  <2>6. ~At(t, "trim")
    BY DEF Construct, At
  <2> QED BY <1>4, <2>1, <2>3, <2>4, <2>5, <2>6, ShrinkStocked
<1> QED BY <1>1, <1>3, <1>4

LEMMA ReleaseStocked ==
    ASSUME Base, Base', Stocked, NEW t \in Threads, Release(t)
    PROVE  Stocked'
<1>0. TypeOK
  BY DEF Base, Typed
<1>1. CASE mine[t] = {}
  BY <1>1, ReturnNullStocked DEF Release, At
<1>2. CASE mine[t] # {}
  <2>1. PICK e \in mine[t] : Return(e, pc) /\ mine' = [mine EXCEPT ![t] = @ \ {e}]
    BY <1>2 DEF Release
  <2>2. e \in Entries /\ at[e] \in {"building", "issued"} /\ pc \in [Threads -> Points]
    BY <1>0 DEF TypeOK, Stocked, Kept
  <2>3. \A u \in Threads : mine'[u] \subseteq mine[u] /\ e \notin mine'[u]
    <3>1. \A u \in Threads \ {t} : e \notin mine[u]
      BY <2>2 DEF Stocked, Kept
    <3> QED BY <1>0, <2>1, <3>1 DEF TypeOK
  <2>4. Comes(e, pc)
    BY <2>1, <2>2, <2>3 DEF Comes
  <2> QED BY <2>2, <2>4, ReturnDead, ReturnLive
<1> QED BY <1>1, <1>2

LEMMA DropStocked ==
    ASSUME Base, Stocked, NEW e \in Entries, Drop(e)
    PROVE  Stocked'
<1>1. Comes(e, pc)
  BY DEF Comes, Drop, Base, Typed, TypeOK
<1> QED BY <1>1, ReturnDead, ReturnLive

LEMMA AbandonStocked ==
    ASSUME Base, Stocked, NEW t \in Threads, Abandon(t)
    PROVE  Stocked'
<1>0. TypeOK
  BY DEF Base, Typed
<1>1. UNCHANGED << at, monitor, poolVersion, m_objs, mine, hung, m_monitor, m_poolVersion,
                   m_outstanding, m_limit, m_maxPooled, ranDown, op >>
  BY DEF Abandon, poolVars, entryVars
<1>2. pc'[t] \in {"swap", "clear"} /\ At(t, "abandon") /\ \A u \in Threads \ {t} : pc'[u] = pc[u]
  BY <1>0 DEF Abandon, Goto, TypeOK
<1>3. \A p \in Pools : Live(p)' => Live(p)
  BY <1>0, <1>1 DEF Abandon, Abandoned, Live, TypeOK
<1>4. \A m : Held(m)' = Held(m)
  BY <1>1 DEF Held
<1>5. Kept'
  BY <1>1 DEF Stocked, Kept
<1>6. Vacated'
  <2> SUFFICES ASSUME NEW u \in Threads, NEW x, x = op[u].pool, pc'[u] \in {"enter", "abandon"},
                      op[u].kind = "move", Live(x)'
               PROVE  Held(m_monitor[x]) = {}
    BY <1>1, <1>4 DEF Vacated, Live, Held
  <2>1. pc[u] = pc'[u]
    BY <1>2
  <2>2. x \in Pools
    BY <2>1, PointOK DEF Base, At
  <2> QED BY <1>3, <2>1, <2>2 DEF Stocked, Vacated
<1>7. Counted'
  BY <1>1, <1>3, <1>4 DEF Stocked, Counted
<1>8. Fresh'
  BY <1>1, <1>3 DEF Stocked, Fresh
<1>9. Waits'
  <2>1. \A u \in Threads : pc'[u] \in {"asleep", "woken"} => pc'[u] = pc[u]
    BY <1>2
  <2> QED BY <1>1, <2>1 DEF Stocked, Waits, At
<1>10. Closed'
  BY <1>1, <1>3 DEF Stocked, Closed
<1>11. Trimmed'
  <2>1. \A p \in Pools : Trimming(p) => Trimming(p)'
    BY <1>1, <1>2 DEF Trimming, At
  <2> QED BY <1>1, <1>3, <2>1 DEF Stocked, Trimmed
<1> QED BY <1>5, <1>6, <1>7, <1>8, <1>9, <1>10, <1>11 DEF Stocked

LEMMA SwapStocked ==
    ASSUME Base, Stocked, NEW t \in Threads, Swap(t)
    PROVE  Stocked'
<1>0. TypeOK
  BY DEF Base, Typed
<1> PICK p : p = op[t].pool
  OBVIOUS
<1> PICK q : q = op[t].arg
  OBVIOUS
<1>1. At(t, "swap") /\ op[t].kind = "move" /\ Alters(t)
  BY DEF Swap, Base, Typed, Placed, At, Alters
<1>2. p \in Pools /\ q \in Pools /\ Uses(t, p) /\ Uses(t, q) /\ ~Live(p)
  BY <1>1, PointOK DEF Base, Uses, At, Inside
<1>3. \A u \in Threads \ {t} : ~Uses(u, p) /\ ~Uses(u, q)
  BY <1>1, <1>2 DEF Base, Alone
<1>4. UNCHANGED << at, monitor, poolVersion, mine, hung, ranDown, op, m_abandoned >>
  BY DEF Swap, entryVars
<1>5. pc'[t] = "idle" /\ \A u \in Threads \ {t} : pc'[u] = pc[u]
  BY <1>0 DEF Swap, Goto, TypeOK
<1>6. m_monitor'[q] = m_monitor[p] /\ m_monitor'[p] = m_monitor[q]
      /\ \A x \in Pools \ {p, q} : m_monitor'[x] = m_monitor[x]
  BY <1>0, <1>2 DEF Swap, TypeOK
<1>7. m_objs'[q] = m_objs[p] /\ m_objs'[p] = m_objs[q]
      /\ \A x \in Pools \ {p, q} : m_objs'[x] = m_objs[x]
  BY <1>0, <1>2 DEF Swap, TypeOK
<1>8. m_limit'[p] = m_limit[q] /\ m_maxPooled'[p] = m_maxPooled[q]
      /\ \A x \in Pools \ {p, q} : m_limit'[x] = m_limit[x] /\ m_maxPooled'[x] = m_maxPooled[x]
  BY <1>0, <1>2 DEF Swap, TypeOK
<1>9. m_outstanding'[p] = m_outstanding[q] /\ m_poolVersion'[p] = m_poolVersion[q]
      /\ \A x \in Pools \ {p, q} : m_outstanding'[x] = m_outstanding[x] /\ m_poolVersion'[x] = m_poolVersion[x]
  BY <1>0, <1>2 DEF Swap, TypeOK
\* Every live pool is one that was live before, as it was.
<1> DEFINE Was(x) == IF x = p THEN q ELSE x
<1>10. ASSUME NEW x \in Pools, Live(x)'
       PROVE  /\ Was(x) \in Pools /\ Live(Was(x))
              /\ m_monitor'[x] = m_monitor[Was(x)] /\ m_objs'[x] = m_objs[Was(x)]
              /\ m_limit'[x] = m_limit[Was(x)] /\ m_maxPooled'[x] = m_maxPooled[Was(x)]
              /\ m_outstanding'[x] = m_outstanding[Was(x)] /\ m_poolVersion'[x] = m_poolVersion[Was(x)]
              /\ Trimming(Was(x)) => Trimming(x)'
  <2>1. CASE x = q
    BY <1>2, <1>4, <1>6, <1>10, <2>1 DEF Live
  <2>2. CASE x = p
    <3>1. ~Trimming(q)
      BY <1>1, <1>3 DEF Trimming, Uses, At
    <3> QED BY <1>2, <1>4, <1>6, <1>7, <1>8, <1>9, <1>10, <2>2, <3>1 DEF Live
  <2>3. CASE x \notin {p, q}
    <3>1. Trimming(x) => Trimming(x)'
      BY <1>1, <1>4, <1>5 DEF Trimming, At
    <3> QED BY <1>4, <1>6, <1>7, <1>8, <1>9, <1>10, <2>3, <3>1 DEF Live
  <2> QED BY <2>1, <2>2, <2>3
<1> HIDE DEF Was
<1>11. \A m : Held(m)' = Held(m)
  BY <1>4 DEF Held
<1>12. Kept'
  <2>1. \A x \in Pools, e \in Entries : e \in m_objs'[x] => at'[e] = "pooled" /\ monitor'[e] = m_monitor'[x]
    BY <1>2, <1>4, <1>6, <1>7 DEF Stocked, Kept
  <2> QED BY <1>4, <2>1 DEF Stocked, Kept
<1>13. Vacated'
  <2> SUFFICES ASSUME NEW u \in Threads, NEW x, x = op[u].pool, pc'[u] \in {"enter", "abandon"},
                      op[u].kind = "move", Live(x)'
               PROVE  Held(m_monitor'[x]) = {}
    BY <1>4, <1>11 DEF Vacated, Live, Held
  <2>1. u # t /\ pc[u] = pc'[u]
    BY <1>5
  <2>2. x \in Pools /\ Uses(u, x)
    BY <2>1, PointOK DEF Base, At, Uses
  <2>3. x \notin {p, q}
    BY <1>3, <2>1, <2>2
  <2>4. m_monitor'[x] = m_monitor[x] /\ Live(x)
    BY <1>4, <1>6, <2>2, <2>3 DEF Live
  <2> QED BY <2>1, <2>4 DEF Stocked, Vacated
<1>14. Counted'
  <2> SUFFICES ASSUME NEW x \in Pools, Live(x)' PROVE m_outstanding'[x] = Cardinality(Held(m_monitor'[x]))
    BY <1>4 DEF Counted, Held
  <2> QED BY <1>10 DEF Stocked, Counted
<1>15. Fresh'
  BY <1>4, <1>10 DEF Stocked, Fresh
<1>16. Waits'
  <2> SUFFICES ASSUME NEW u \in Threads
               PROVE  /\ pc'[u] = "asleep" /\ op[u].kind \in {"wait", "rundown"} => m_outstanding'[op[u].pool] # 0
                      /\ pc'[u] \in {"asleep", "woken"} /\ op[u].kind = "rundown" => m_limit'[op[u].pool] = 0
    BY <1>4 DEF Waits, At
  <2>1. CASE u = t
    BY <1>5, <2>1
  <2>2. CASE u # t
    <3>1. pc[u] \in {"asleep", "woken"} => op[u].pool \in Pools \ {p, q}
      BY <1>3, <2>2, PointOK DEF Base, At, Uses
    <3> QED BY <1>5, <1>8, <1>9, <2>2, <3>1 DEF Stocked, Waits, At
  <2> QED BY <2>1, <2>2
<1>17. Closed'
  <2> SUFFICES ASSUME NEW x \in Pools, Live(x)', m_monitor'[x] \in ranDown
               PROVE  m_limit'[x] = 0 /\ m_outstanding'[x] = 0
    BY <1>4 DEF Closed
  <2> QED BY <1>10 DEF Stocked, Closed
<1>18. Trimmed'
  <2> SUFFICES ASSUME NEW x \in Pools, Live(x)', ~Trimming(x)'
               PROVE  Cardinality(m_objs'[x]) <= m_maxPooled'[x]
    BY DEF Trimmed
  <2> QED BY <1>10 DEF Stocked, Trimmed
<1> QED BY <1>12, <1>13, <1>14, <1>15, <1>16, <1>17, <1>18 DEF Stocked

LEMMA ObtainStocked ==
    ASSUME Base, Stocked, Regular, NEW t \in Threads, ~At(t, "idle"), ~Alters(t), ~At(t, "trim"),
           ObtainNew(t, op[t].pool) \/ ObtainCached(t, op[t].pool),
           m_outstanding[op[t].pool] < m_limit[op[t].pool],
           UNCHANGED << m_monitor, m_limit, m_maxPooled, m_poolVersion, m_abandoned, op, ranDown >>
    PROVE  Stocked'
<1> PICK r : r = op[t].pool
  OBVIOUS
<1>1. r \in Pools /\ Live(r) /\ Uses(t, r)
  BY OnLive DEF Uses
<1>2. \A u \in Threads : Alters(u) => ~Uses(u, r)
  BY <1>1 DEF Base, Alone
<1>3. PICK e \in Entries : Takes(t, r, e)
  BY <1>1, ObtainTakes
<1> QED BY <1>1, <1>2, <1>3, TakesStocked

LEMMA IssueStocked ==
    ASSUME Base, Base', Stocked, Regular, NEW t \in Threads, Get(t) \/ Wait(t) \/ Timeout(t) \/ Fill(t)
    PROVE  Stocked'
<1> USE DEF In
<1>0. TypeOK
  BY DEF Base, Typed
<1>1. ~At(t, "idle") /\ ~Alters(t) /\ ~At(t, "trim")
  BY DEF Get, Wait, Timeout, Fill, Alters, At, Base, Typed, Placed
<1> PICK r : r = op[t].pool
  OBVIOUS
<1>2. r \in Pools /\ m_limit[r] \in Nat /\ m_outstanding[r] \in Nat
  BY <1>0, <1>1, OnLive DEF TypeOK
<1>3. ReturnNull(t) => Stocked'
  BY <1>1, ReturnNullStocked
<1>4. m_outstanding[r] < m_limit[r] /\ Obtain(t, r) => Stocked'
  BY <1>1, ObtainStocked DEF Obtain
<1>5. ~AtLimit(r) => m_outstanding[r] < m_limit[r]
  BY <1>2 DEF AtLimit
<1>6. CASE Get(t)
  BY <1>3, <1>4, <1>5, <1>6 DEF Get
<1>7. CASE Wait(t)
  <2>1. CASE /\ ~(m_limit[r] = 0 /\ ((At(t, "woken") /\ op[t].kind = "wait") \/ At(t, "enter")))
             /\ ~(m_outstanding[r] < m_limit[r])
             /\ Goto(t, "asleep")
             /\ UNCHANGED << poolVars, monitorVars, entryVars, op, left, mine, todo, ranDown >>
    <3>1. m_limit[r] # 0 \/ op[t].kind # "wait"
      BY <1>7, <2>1 DEF Wait
    <3>2. m_limit[r] <= m_outstanding[r]
      BY <1>2, <2>1
    <3> QED BY <1>7, <2>1, <3>1, <3>2, SleepStocked
  <2> QED BY <1>3, <1>4, <1>7, <2>1 DEF Wait
<1>8. CASE Timeout(t)
  BY <1>3, <1>4, <1>8 DEF Timeout
<1>9. CASE Fill(t)
  <2>1. CASE AtLimit(r) \/ left[t] = 0
    <3>1. UNCHANGED << at, monitor, poolVersion, m_objs, mine, hung, m_monitor, m_poolVersion,
                       m_outstanding, m_abandoned, m_limit, m_maxPooled, ranDown, op >>
      BY <1>9, <2>1 DEF Fill, poolVars, monitorVars, entryVars
    <3>2. PICK l \in {"fill", "release"} : pc' = [pc EXCEPT ![t] = l]
      BY <1>0, <1>9, <2>1 DEF Fill, Goto, At, TypeOK
    <3> QED BY <1>1, <3>1, <3>2, PlainStocked
  <2>2. CASE ~AtLimit(r) /\ left[t] # 0
    BY <1>1, <1>5, <1>9, <2>2, ObtainStocked DEF Fill
  <2> QED BY <2>1, <2>2
<1> QED BY <1>6, <1>7, <1>8, <1>9

LEMMA NextStocked == ASSUME Regular, Base, Base', Stocked, [Next]_vars PROVE Stocked'
<1>1. ASSUME NEW t \in Threads, Step(t) PROVE Stocked'
  BY <1>1, IssueStocked, QuietSteps, ReleaseStocked, ConstructStocked, TrimStocked, ClearStocked,
     AbandonStocked, SwapStocked DEF Step
<1>2. ASSUME NEW t \in Threads, Call(t) \/ CallAlone(t) \/ Spurious(t) PROVE Stocked'
  BY <1>2, CallStocked, QuietSteps
<1>3. ASSUME NEW e \in Entries, Drop(e) PROVE Stocked'
  BY <1>3, DropStocked
<1>4. CASE UNCHANGED vars
  <2>1. UNCHANGED << m_monitor, m_limit, m_maxPooled, m_outstanding, m_poolVersion, m_objs, m_abandoned, hung,
                     at, monitor, poolVersion, pc, op, mine, ranDown >>
    BY <1>4 DEF vars, poolVars, monitorVars, entryVars, threadVars
  <2>2. (\A m : Held(m)' = Held(m)) /\ (\A p : (Live(p)' <=> Live(p)) /\ (Trimming(p)' <=> Trimming(p)))
    BY <2>1 DEF Held, Live, Trimming, At
  <2>3. Kept' /\ Fresh' /\ Closed'
    BY <2>1, <2>2 DEF Stocked, Kept, Fresh, Closed
  <2>4. Counted' /\ Trimmed'
    BY <2>1, <2>2 DEF Stocked, Counted, Trimmed
  <2>5. Waits'
    BY <2>1 DEF Stocked, Waits, At
  <2>6. Vacated'
    BY <2>1 DEF Stocked, Vacated, Live, Held
  <2> QED BY <2>3, <2>4, <2>5, <2>6 DEF Stocked
<1> QED BY <1>1, <1>2, <1>3, <1>4 DEF Next

LEMMA AlwaysStocked == ASSUME Regular PROVE Spec => [](Base /\ Stocked)
<1>1. Init => Base /\ Stocked
  BY InitBase, InitStocked
<1>2. Base /\ Stocked /\ [Next]_vars => (Base /\ Stocked)'
  BY NextBase, NextStocked
<1> QED BY <1>1, <1>2, PTL DEF Spec

\* m_outstanding of a live pool is the number of objects that were issued by it, or are
\* being built for it, and have not come back: however Return, ObtainElementUnsafe,
\* ClearCachedEntities, the move assignment and the destructor interleave, and with
\* initializers that throw.
THEOREM CountIsExact == ASSUME Regular PROVE Spec => []CountExact
<1>1. Base /\ Stocked => CountExact
  <2> SUFFICES ASSUME Base, Stocked, NEW p \in Pools, Live(p) PROVE m_outstanding[p] = Cardinality(Out(p))
    BY DEF CountExact
  <2> QED BY OutHeld DEF Stocked, Counted
<1> QED BY <1>1, AlwaysStocked, PTL

\* The cache holds only objects of this pool's monitor and of the version that
\* ClearCachedEntities last made.
THEOREM CacheIsSound == ASSUME Regular PROVE Spec => []CacheSound
<1>1. Base /\ Stocked => CacheSound
  <2> SUFFICES ASSUME Base, Stocked, NEW p \in Pools, Live(p), NEW e \in m_objs[p]
               PROVE  at[e] = "pooled" /\ monitor[e] = m_monitor[p] /\ poolVersion[e] = m_poolVersion[p]
    BY DEF CacheSound
  <2>1. e \in Entries
    BY DEF Base, Typed, TypeOK
  <2> QED BY <2>1 DEF Stocked, Kept, Fresh
<1> QED BY <1>1, AlwaysStocked, PTL

\* Who sleeps in Wait or Rundown sleeps on a pool some object of which is still out,
\* so that a return, and with it a notification, is still to come.
THEOREM SleepersHaveWakers == ASSUME Regular PROVE Spec => []SleeperHasWaker
<1>1. Base /\ Stocked => SleeperHasWaker
  <2> SUFFICES ASSUME Base, Stocked, NEW t \in Threads, At(t, "asleep"), op[t].kind \in {"wait", "rundown"}
               PROVE  Out(op[t].pool) # {}
    BY DEF SleeperHasWaker
  <2>1. ~At(t, "idle") /\ ~Alters(t)
    BY DEF At, Alters
  <2> PICK r : r = op[t].pool
    OBVIOUS
  <2>2. r \in Pools /\ Live(r) /\ m_outstanding[r] # 0
    BY <2>1, OnLive DEF Stocked, Waits
  <2>3. Out(r) = Held(m_monitor[r]) /\ Cardinality(Held(m_monitor[r])) # 0
    BY <2>2, OutHeld DEF Stocked, Counted
  <2>4. Cardinality({}) = 0
    BY FS_EmptySet
  <2> QED BY <2>3, <2>4
<1> QED BY <1>1, AlwaysStocked, PTL

\* A Rundown that has returned is final: nothing is out, nothing is issued again, and
\* nothing is kept that SetMaximumPooledEntities does not allow.
THEOREM RundownsAreFinal == ASSUME Regular PROVE Spec => []RunDownIsFinal
<1>1. Base /\ Stocked => RunDownIsFinal
  <2> SUFFICES ASSUME Base, Stocked, NEW p \in Pools, Live(p), m_monitor[p] \in ranDown
               PROVE  Out(p) = {} /\ (m_maxPooled[p] = 0 /\ ~Trimming(p) => m_objs[p] = {})
    BY DEF RunDownIsFinal, Trimming
  <2>1. Out(p) = Held(m_monitor[p]) /\ Cardinality(Held(m_monitor[p])) = 0
    BY OutHeld DEF Stocked, Counted, Closed
  <2>2. Out(p) = {}
    BY <2>1, HeldFinite, FS_EmptySet
  <2>3. ASSUME m_maxPooled[p] = 0, ~Trimming(p) PROVE m_objs[p] = {}
    <3>1. Cardinality(m_objs[p]) <= 0
      BY <2>3 DEF Stocked, Trimmed
    <3>2. m_objs[p] \subseteq Entries
      BY DEF Base, Typed, TypeOK
    <3>3. IsFiniteSet(m_objs[p])
      BY <3>2, ConstantsAssumption, FS_Subset
    <3>4. Cardinality(m_objs[p]) = 0
      BY <3>1, <3>3, FS_CardinalityType
    <3> QED BY <3>3, <3>4, FS_EmptySet
  <2> QED BY <2>2, <2>3
<1> QED BY <1>1, AlwaysStocked, PTL
=============================================================================
