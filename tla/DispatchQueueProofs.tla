------------------------- MODULE DispatchQueueProofs -------------------------
(***************************************************************************)
(* Proofs about DispatchQueue, for every set of threads, finite set of     *)
(* thunks, cap, call pattern and thunk behaviour: type correctness, that   *)
(* m_count is exact, that the list holds what the queue owns, that a thunk *)
(* off the list has one owner, and that the queue implements               *)
(* ThunkContract; and, for the call patterns they name, that Barrier       *)
(* flushes the list and that no wakeup is lost.                            *)
(***************************************************************************)
EXTENDS DispatchQueue, SequenceTheorems, FiniteSetTheorems, WellFoundedInduction, TLAPS

-----------------------------------------------------------------------------
(* Sequences without repetition *)

\* Popping the head of a list of distinct thunks removes exactly that thunk.
LEMMA TailFacts ==
    ASSUME NEW S, NEW s \in Seq(S), s # << >>, IsInjective(s)
    PROVE  /\ Tail(s) \in Seq(S)
           /\ IsInjective(Tail(s))
           /\ Head(s) \in Range(s)
           /\ Range(Tail(s)) = Range(s) \ {Head(s)}
<1>1. /\ Head(s) = s[1] /\ Len(s) \in Nat /\ Len(s) >= 1 /\ DOMAIN s = 1 .. Len(s)
      /\ Tail(s) \in Seq(S) /\ Len(Tail(s)) = Len(s) - 1
      /\ DOMAIN Tail(s) = 1 .. Len(s) - 1
      /\ \A i \in 1 .. Len(s) - 1 : Tail(s)[i] = s[i + 1]
  BY HeadTailProperties, EmptySeq, LenProperties
<1>2. IsInjective(Tail(s))
  BY <1>1 DEF IsInjective
<1>3. Head(s) \in Range(s)
  BY <1>1 DEF Range
<1>4. ASSUME NEW x \in Range(Tail(s))
      PROVE  x \in Range(s) \ {Head(s)}
  <2>1. PICK i \in 1 .. Len(s) - 1 : x = s[i + 1]
    BY <1>1 DEF Range
  <2>2. i + 1 \in DOMAIN s /\ 1 \in DOMAIN s /\ i + 1 # 1
    BY <1>1
  <2> QED BY <1>1, <2>1, <2>2 DEF Range, IsInjective
<1>5. ASSUME NEW x \in Range(s) \ {Head(s)}
      PROVE  x \in Range(Tail(s))
  <2>1. PICK i \in 1 .. Len(s) : x = s[i]
    BY <1>1 DEF Range
  <2>2. i # 1
    BY <1>1, <2>1
  <2>3. i - 1 \in DOMAIN Tail(s) /\ Tail(s)[i - 1] = x
    BY <1>1, <2>1, <2>2
  <2> QED BY <2>3 DEF Range
<1> QED BY <1>1, <1>2, <1>3, <1>4, <1>5

\* Joining two lists that share no thunk keeps the thunks distinct.
LEMMA ConcatFacts ==
    ASSUME NEW S, NEW s \in Seq(S), NEW u \in Seq(S),
           IsInjective(s), IsInjective(u), Range(s) \cap Range(u) = {}
    PROVE  /\ s \o u \in Seq(S)
           /\ IsInjective(s \o u)
           /\ Range(s \o u) = Range(s) \cup Range(u)
<1>1. /\ DOMAIN s = 1 .. Len(s) /\ DOMAIN u = 1 .. Len(u)
      /\ Len(s) \in Nat /\ Len(u) \in Nat
      /\ s \o u \in Seq(S) /\ DOMAIN (s \o u) = 1 .. Len(s) + Len(u)
      /\ \A i \in 1 .. Len(s) + Len(u) :
            (s \o u)[i] = IF i <= Len(s) THEN s[i] ELSE u[i - Len(s)]
  BY ConcatProperties, LenProperties
<1> DEFINE c == s \o u
<1>2. ASSUME NEW i \in DOMAIN c
      PROVE  IF i <= Len(s) THEN i \in DOMAIN s /\ c[i] = s[i]
                            ELSE i - Len(s) \in DOMAIN u /\ c[i] = u[i - Len(s)]
  BY <1>1
<1>3. ASSUME NEW i \in DOMAIN c
      PROVE  c[i] \in Range(IF i <= Len(s) THEN s ELSE u)
  BY <1>2 DEF Range
<1>4. ASSUME NEW i \in DOMAIN c, NEW j \in DOMAIN c, c[i] = c[j]
      PROVE  i = j
  <2>1. i <= Len(s) <=> j <= Len(s)
    BY <1>3, <1>4
  <2>2. CASE i <= Len(s)
    BY <1>2, <1>4, <2>1, <2>2 DEF IsInjective
  <2>3. CASE ~(i <= Len(s))
    <3>1. i - Len(s) = j - Len(s)
      BY <1>2, <1>4, <2>1, <2>3 DEF IsInjective
    <3> QED BY <1>1, <3>1
  <2> QED BY <2>2, <2>3
<1>5. IsInjective(c)
  BY <1>4 DEF IsInjective
<1>6. ASSUME NEW x \in Range(s) PROVE x \in Range(c)
  <2>1. PICK i \in 1 .. Len(s) : x = s[i]
    BY <1>1 DEF Range
  <2>2. i \in DOMAIN c /\ c[i] = x
    BY <1>1, <2>1
  <2> QED BY <2>2 DEF Range
<1>7. ASSUME NEW x \in Range(u) PROVE x \in Range(c)
  <2>1. PICK i \in 1 .. Len(u) : x = u[i]
    BY <1>1 DEF Range
  <2>2. Len(s) + i \in DOMAIN c /\ c[Len(s) + i] = x
    BY <1>1, <2>1
  <2> QED BY <2>2 DEF Range
<1>8. Range(c) \subseteq Range(s) \cup Range(u)
  BY <1>3 DEF Range
<1> QED BY <1>1, <1>5, <1>6, <1>7, <1>8

\* A prefix of a list of distinct thunks is one too.
LEMMA PrefixFacts ==
    ASSUME NEW S, NEW s \in Seq(S), NEW n \in DOMAIN s, IsInjective(s)
    PROVE  /\ SubSeq(s, 1, n) \in Seq(S)
           /\ IsInjective(SubSeq(s, 1, n))
           /\ Range(SubSeq(s, 1, n)) \subseteq Range(s)
<1>1. /\ Len(s) \in Nat /\ DOMAIN s = 1 .. Len(s)
      /\ \A i \in 1 .. n : s[i] \in S /\ i \in DOMAIN s
  BY LenProperties
<1>2. /\ SubSeq(s, 1, n) \in Seq(S)
      /\ DOMAIN SubSeq(s, 1, n) = 1 .. n
      /\ \A i \in 1 .. n : SubSeq(s, 1, n)[i] = s[i]
  <2>1. n \in Int /\ 1 \in Int /\ n >= 1
    BY <1>1
  <2>2. /\ SubSeq(s, 1, n) \in Seq(S)
        /\ Len(SubSeq(s, 1, n)) = IF 1 <= n THEN n - 1 + 1 ELSE 0
        /\ \A i \in 1 .. n - 1 + 1 : SubSeq(s, 1, n)[i] = s[1 + i - 1]
    BY <1>1, <2>1, SubSeqProperties
  <2> QED BY <2>1, <2>2, LenProperties
<1> QED BY <1>1, <1>2 DEF IsInjective, Range

\* The number of nodes of a list of distinct thunks is the number of thunks.
LEMMA LenIsCardinality ==
    ASSUME NEW S, NEW s \in Seq(S), IsInjective(s)
    PROVE  Cardinality(Range(s)) = Len(s) /\ Len(s) \in Nat
<1>1. Len(s) \in Nat /\ s \in [1 .. Len(s) -> S] /\ DOMAIN s = 1 .. Len(s)
  BY LenProperties
<1>2. s \in [1 .. Len(s) -> Range(s)]
  BY <1>1 DEF Range
<1>3. s \in Bijection(1 .. Len(s), Range(s))
  BY <1>1, <1>2 DEF Bijection, Injection, Surjection, Range
<1> QED BY <1>1, <1>3, FS_CountingElements DEF ExistsBijection

-----------------------------------------------------------------------------
(* What linking a chain does to the list and to the fates *)

\* l holds exactly the thunks that are queued according to f, each once.
IsQueueOf(l, f) == IsInjective(l) /\ Range(l) = { k \in Thunks : f[k] = "queued" }

CountedIn(f) == { k \in Thunks : f[k] \in {"queued", "flight", "held", "lost"} }

\* Fates of thunks that a thread owns.
Owned == { "flight", "expiring", "held" }

\* f and g tell the same story about the thunks that threads own.
SameOwned(f, g) == \A k \in Thunks : f[k] \in Owned \/ g[k] \in Owned => f[k] = g[k]

\* A chain that may be linked: distinct thunks that are new or delayed.
IsChain(s) ==
    s \in Seq(Thunks) /\ IsInjective(s) /\ \A k \in Range(s) : fate[k] \in {"new", "delayed"}

\* A chain of distinct thunks is what the code strings together.
LEMMA BijectionIsChain ==
    ASSUME NEW S \in SUBSET Thunks, \A k \in S : fate[k] \in {"new", "delayed"},
           NEW s \in Bijection(1 .. Cardinality(S), S)
    PROVE  IsChain(s) /\ Range(s) = S /\ Len(s) = Cardinality(S)
<1>1. IsFiniteSet(S) /\ Cardinality(S) \in Nat
  BY FS_Subset, FS_CardinalityType, ConstantsAssumption
<1>2. /\ s \in [1 .. Cardinality(S) -> S]
      /\ IsInjective(s)
      /\ \A k \in S : \E i \in 1 .. Cardinality(S) : s[i] = k
  BY DEF Bijection, Injection, Surjection
<1>3. Range(s) = S
  BY <1>2 DEF Range
<1>4. s \in Seq(Thunks) /\ Len(s) = Cardinality(S)
  BY <1>1, <1>2
<1> QED BY <1>2, <1>3, <1>4 DEF IsChain

\* The list stays a list of distinct thunks, even when m_pTail dangles.
LEMMA LinkedFacts ==
    ASSUME TypeOK, ListIsQueue, NEW s, IsChain(s)
    PROVE  /\ Linked(s) \in Seq(Thunks)
           /\ IsInjective(Linked(s))
           /\ Range(Linked(s)) \subseteq Range(list) \cup Range(s)
<1>1. Range(s) \cap Range(list) = {}
  BY DEF ListIsQueue, IsChain, Queued
<1>2. CASE list = << >>
  BY <1>2 DEF Linked, IsChain
<1>3. CASE list # << >> /\ ~ \E i \in DOMAIN list : list[i] = tail
  BY <1>3 DEF Linked, TypeOK, ListIsQueue
<1>4. CASE list # << >> /\ \E i \in DOMAIN list : list[i] = tail
  <2> DEFINE n == CHOOSE i \in DOMAIN list : list[i] = tail
             p == SubSeq(list, 1, n)
  <2>1. n \in DOMAIN list
    BY <1>4
  <2>2. p \in Seq(Thunks) /\ IsInjective(p) /\ Range(p) \subseteq Range(list)
    BY <2>1, PrefixFacts DEF TypeOK, ListIsQueue
  <2>3. Linked(s) = p \o s
    BY <1>4 DEF Linked
  <2> HIDE DEF p
  <2> QED BY <1>1, <2>2, <2>3, ConcatFacts DEF IsChain
<1> QED BY <1>2, <1>3, <1>4

\* After linking, the list holds the queued thunks, and the thunks counted are
\* the ones counted before and the chain.
LEMMA LinkedFateFacts ==
    ASSUME TypeOK, ListIsQueue, CountAccounts, NEW s, IsChain(s)
    PROVE  /\ LinkedFate(s) \in [Thunks -> Fates]
           /\ IsQueueOf(Linked(s), LinkedFate(s))
           /\ SameOwned(fate, LinkedFate(s))
           /\ Cardinality(CountedIn(LinkedFate(s))) = count + Len(s)
           /\ \A k \in Thunks : k \notin Range(list) \cup Range(s)
                                    => LinkedFate(s)[k] = fate[k]
           /\ \A k \in Range(s) : LinkedFate(s)[k] \in {"queued", "lost"}
<1> DEFINE f == LinkedFate(s)
<1>1. /\ Linked(s) \in Seq(Thunks)
      /\ IsInjective(Linked(s))
      /\ Range(Linked(s)) \subseteq Range(list) \cup Range(s)
  BY LinkedFacts
<1>2. Range(list) \subseteq Thunks /\ Range(s) \subseteq Thunks
  BY DEF TypeOK, IsChain, Range
<1>3. \A k \in Thunks : f[k] = IF k \in Range(Linked(s)) THEN "queued"
                               ELSE IF k \in Range(list) \cup Range(s) THEN "lost"
                               ELSE fate[k]
  BY DEF LinkedFate
<1>4. f \in [Thunks -> Fates]
  BY DEF LinkedFate, TypeOK, Fates
<1>5. \A k \in Thunks : k \in Range(list) <=> fate[k] = "queued"
  BY DEF ListIsQueue, Queued
<1>6. \A k \in Range(s) : fate[k] \in {"new", "delayed"}
  BY DEF IsChain
<1>7. IsQueueOf(Linked(s), f)
  BY <1>1, <1>2, <1>3, <1>5 DEF IsQueueOf
<1>8. SameOwned(fate, f)
  BY <1>2, <1>3, <1>5, <1>6, <1>1 DEF SameOwned, Owned
<1>9. CountedIn(f) = Counted \cup Range(s) /\ Counted \cap Range(s) = {}
  BY <1>1, <1>2, <1>3, <1>5, <1>6 DEF CountedIn, Counted
<1>10. Cardinality(CountedIn(f)) = count + Len(s)
  <2>1. Cardinality(Range(s)) = Len(s) /\ Len(s) \in Nat
    BY LenIsCardinality DEF IsChain
  <2>2. IsFiniteSet(Counted) /\ IsFiniteSet(Range(s))
    BY <1>2, FS_Subset, ConstantsAssumption DEF Counted
  <2>3. Cardinality(Counted \cap Range(s)) = 0
    BY <1>9, FS_EmptySet
  <2>4. Cardinality(Counted \cup Range(s))
            = Cardinality(Counted) + Cardinality(Range(s)) - Cardinality(Counted \cap Range(s))
    BY <2>2, FS_Union
  <2> QED BY <1>9, <2>1, <2>3, <2>4 DEF CountAccounts, TypeOK
<1> QED BY <1>3, <1>4, <1>7, <1>8, <1>10, <1>1, <1>2

-----------------------------------------------------------------------------
(* What a step does to the owners of thunks *)

Invariant == TypeOK /\ ListIsQueue /\ Ownership /\ CountAccounts

\* A step that takes no thunk off the list or from its owner: threads go to a
\* point where they own a thunk only from such a point.
QuietPC ==
    \A t \in Threads :
        /\ pc'[t] \in Executing => pc[t] \in Executing
        /\ pc'[t] \in Disposing => pc[t] \in Disposing
        /\ pc'[t] = "invoke" => pc[t] = "invoke" \/ held[t] # << >>

\* Owners keep their thunks in a step that changes neither cur nor held.
LEMMA OwnershipQuiet ==
    ASSUME TypeOK, Ownership, QuietPC, SameOwned(fate, fate'),
           cur' = cur, held' = held
    PROVE  Ownership'
<1>1. \A t \in Threads : Range(held[t]) \subseteq Thunks
  BY DEF TypeOK, Range
<1>2. CurOwned'
  BY DEF Ownership, CurOwned, QuietPC, SameOwned, Owned, Executing, Disposing
<1>3. HeldOwned'
  BY <1>1 DEF Ownership, HeldOwned, QuietPC, SameOwned, Owned
<1> QED BY <1>2, <1>3 DEF Ownership

\* The thread that pops a queued thunk becomes its only owner.
LEMMA OwnershipPop ==
    ASSUME TypeOK, Ownership, NEW t \in Threads, NEW f \in [Thunks -> Fates],
           SameOwned(fate, f), NEW k \in Thunks, f[k] = "queued",
           pc[t] \notin Executing \cup Disposing,
           pc' = [pc EXCEPT ![t] = "run"], cur' = [cur EXCEPT ![t] = k],
           fate' = [f EXCEPT ![k] = "flight"], held' = held
    PROVE  Ownership'
<1>1. \A u \in Threads : Range(held[u]) \subseteq Thunks
  BY DEF TypeOK, Range
<1>2. fate[k] \notin Owned
  BY DEF SameOwned, Owned
<1>3. \A j \in Thunks : fate[j] \in Owned => fate'[j] = fate[j]
  BY <1>2 DEF SameOwned
<1>4. /\ pc'[t] = "run" /\ cur'[t] = k /\ fate'[k] = "flight"
      /\ \A u \in Threads \ {t} : pc'[u] = pc[u] /\ cur'[u] = cur[u]
  BY DEF TypeOK
<1>5. \A u \in Threads : pc[u] \in Executing \cup Disposing => cur[u] \in Thunks /\ cur[u] # k
  BY <1>2 DEF Ownership, CurOwned, Owned
<1>6. CurOwned'
  <2> SUFFICES ASSUME NEW u \in Threads
               PROVE  /\ pc'[u] \in Executing => cur'[u] \in Thunks /\ fate'[cur'[u]] = "flight"
                      /\ pc'[u] \in Disposing => cur'[u] \in Thunks /\ fate'[cur'[u]] = "expiring"
                      /\ pc'[u] \in Executing \cup Disposing
                            => \A v \in Threads \ {u} :
                                  pc'[v] \in Executing \cup Disposing => cur'[v] # cur'[u]
    BY DEF CurOwned
  <2>1. CASE u = t
    BY <1>4, <1>5, <2>1 DEF Executing, Disposing
  <2>2. CASE u # t
    BY <1>3, <1>4, <1>5, <2>2 DEF Ownership, CurOwned, Owned
  <2> QED BY <2>1, <2>2
<1>7. HeldOwned'
  BY <1>1, <1>3, <1>4 DEF Ownership, HeldOwned, Owned
<1> QED BY <1>6, <1>7 DEF Ownership

\* One thunk that was counted is not counted any more.
LEMMA CountedMinusOne ==
    ASSUME TypeOK, CountAccounts, NEW k \in Counted, Counted' = Counted \ {k},
           count' = count - 1
    PROVE  CountAccounts' /\ count' \in Nat
<1>1. IsFiniteSet(Counted)
  BY FS_Subset, ConstantsAssumption DEF Counted
<1>2. Cardinality(Counted \ {k}) = Cardinality(Counted) - 1 /\ IsFiniteSet(Counted \ {k})
  BY <1>1, FS_RemoveElement
<1>3. Cardinality(Counted \ {k}) \in Nat
  BY <1>2, FS_CardinalityType
<1> QED BY <1>2, <1>3 DEF CountAccounts

-----------------------------------------------------------------------------
(* Init and the operations that add thunks *)

\* The queue is constructed in a state that satisfies the invariant.
LEMMA InitInvariant == Init => Invariant
<1> SUFFICES ASSUME Init PROVE Invariant
  OBVIOUS
<1>1. TypeOK
  <2>1. << >> \in Seq(Thunks)
    BY EmptySeq
  <2>2. list \in Seq(Thunks) /\ held \in [Threads -> Seq(Thunks)]
    BY <2>1 DEF Init
  <2>3. aborted \in BOOLEAN /\ complete \in [Threads -> BOOLEAN]
    BY DEF Init
  <2> QED BY <2>2, <2>3, ConstantsAssumption DEF Init, TypeOK, Fates, PCs, OpNames
<1>2. ListIsQueue
  BY DEF Init, ListIsQueue, Queued, IsInjective, Range
<1>3. Ownership
  BY DEF Init, Ownership, CurOwned, HeldOwned, Executing, Disposing, IsInjective, Range
<1>4. CountAccounts
  <2>1. Counted = {}
    BY DEF Init, Counted
  <2> QED BY <2>1, FS_EmptySet DEF Init, CountAccounts
<1> QED BY <1>1, <1>2, <1>3, <1>4 DEF Invariant

\* Linking one new thunk (Pend, PendExisting and the Barriers).
LEMMA LinkInvariant ==
    ASSUME Invariant, NEW k \in Thunks, fate[k] = "new", Link(k), QuietPC,
           cur' = cur, held' = held
    PROVE  /\ ListIsQueue' /\ Ownership' /\ CountAccounts'
           /\ list' \in Seq(Thunks) /\ tail' \in Thunks /\ fate' \in [Thunks -> Fates]
           /\ count' \in Nat /\ ready' = ready
<1> DEFINE s == << k >>
<1>1. IsChain(s) /\ Len(s) = 1 /\ s[1] = k
  BY DEF IsChain, IsInjective, Range
<1>2. /\ list' = Linked(s) /\ fate' = LinkedFate(s) /\ tail' = LinkedTail(s)
      /\ count' = count + 1 /\ ready' = ready
  BY DEF Link
<1>3. TypeOK /\ ListIsQueue /\ Ownership /\ CountAccounts
  BY DEF Invariant
<1> HIDE DEF s
<1>4. /\ LinkedFate(s) \in [Thunks -> Fates]
      /\ IsQueueOf(Linked(s), LinkedFate(s))
      /\ SameOwned(fate, LinkedFate(s))
      /\ Cardinality(CountedIn(LinkedFate(s))) = count + Len(s)
  BY <1>1, <1>3, LinkedFateFacts
<1>5. Linked(s) \in Seq(Thunks)
  BY <1>1, <1>3, LinkedFacts
<1>6. ListIsQueue'
  BY <1>2, <1>4 DEF ListIsQueue, Queued, IsQueueOf
<1>7. Ownership'
  BY <1>2, <1>3, <1>4, OwnershipQuiet
<1>8. CountAccounts'
  BY <1>1, <1>2, <1>4 DEF CountAccounts, Counted, CountedIn
<1>9. tail' = k
  BY <1>1, <1>2 DEF LinkedTail
<1> QED BY <1>2, <1>3, <1>4, <1>5, <1>6, <1>7, <1>8, <1>9 DEF TypeOK

-----------------------------------------------------------------------------
(* Steps that move no thunk *)

\* Such a step keeps the invariant if it keeps the types.
LEMMA QuietInvariant ==
    ASSUME Invariant, TypeOK', QuietPC, UNCHANGED << list, fate, count, cur, held >>
    PROVE  Invariant'
<1>1. Ownership'
  BY OwnershipQuiet DEF Invariant, SameOwned
<1>2. ListIsQueue' /\ CountAccounts'
  BY DEF Invariant, ListIsQueue, Queued, CountAccounts, Counted
<1> QED BY <1>1, <1>2 DEF Invariant

\* Waiting, waking, notifying and running a thunk move no thunk.
LEMMA QuietSteps ==
    ASSUME Invariant, NEW t \in Threads,
           \/ WaitForEvent(t) \/ Block(t) \/ Reacquire(t) \/ WakeAll(t)
           \/ SetDispatcherCap(t) \/ RunThunk(t) \/ NotifyZero(t) \/ LateNotify(t)
           \/ DrainNext(t) \/ BarrierWait(t) \/ BarrierForWake(t) \/ SpuriousWake(t)
    PROVE  Invariant'
<1> USE DEF listVars, stateVars, cvVars, waitVars, barVars, localVars
<1>0. TypeOK
  BY DEF Invariant
<1>1. CASE WaitForEvent(t)
  <2>1. UNCHANGED << list, fate, count, cur, held >>
    BY <1>1 DEF WaitForEvent
  <2>2. TypeOK'
    <3>1. CASE aborted
      BY <1>0, <1>1, <2>1, <3>1, ConstantsAssumption
      DEF TypeOK, WaitForEvent, Call, Goto, PCs, OpNames
    <3>2. CASE ~aborted
      <4>1. /\ lock' = t /\ seen' = [seen EXCEPT ![t] = version]
            /\ UNCHANGED << listVars, stateVars, now, asleep, cur, held, wake, deadline,
                            barVars, failed >>
        BY <1>1, <3>2 DEF WaitForEvent
      <4>2. pc' \in [Threads -> PCs] /\ op' \in [Threads -> OpNames \cup {"none"}]
        BY <1>0, <1>1, <3>2 DEF TypeOK, WaitForEvent, Call, Goto, PCs, OpNames
      <4> QED BY <1>0, <4>1, <4>2 DEF TypeOK
    <3> QED BY <3>1, <3>2
  <2>3. QuietPC
    BY <1>0, <1>1
    DEF TypeOK, WaitForEvent, Call, LockFree, Goto, QuietPC, Executing, Disposing
  <2> QED BY <2>1, <2>2, <2>3, QuietInvariant
<1>2. CASE Block(t)
  <2>1. UNCHANGED << list, fate, count, cur, held >>
    BY <1>2 DEF Block
  <2>2. TypeOK'
    BY <1>0, <1>2, <2>1, ConstantsAssumption
    DEF TypeOK, Block, Goto, PCs, OpNames
  <2>3. QuietPC
    BY <1>0, <1>2
    DEF TypeOK, Block, Goto, QuietPC, Executing, Disposing
  <2> QED BY <2>1, <2>2, <2>3, QuietInvariant
<1>3. CASE Reacquire(t)
  <2>1. UNCHANGED << list, fate, count, cur, held >>
    BY <1>3 DEF Reacquire
  <2>2. TypeOK'
    BY <1>0, <1>3, <2>1, ConstantsAssumption
    DEF TypeOK, Reacquire, Goto, PCs, OpNames
  <2>3. QuietPC
    BY <1>0, <1>3
    DEF TypeOK, Reacquire, Goto, QuietPC, Executing, Disposing
  <2> QED BY <2>1, <2>2, <2>3, QuietInvariant
<1>4. CASE WakeAll(t)
  <2>1. UNCHANGED << list, fate, count, cur, held >>
    BY <1>4 DEF WakeAll
  <2>2. TypeOK'
    BY <1>0, <1>4, <2>1, ConstantsAssumption
    DEF TypeOK, WakeAll, Call, Goto, PCs, OpNames
  <2>3. QuietPC
    BY <1>0, <1>4
    DEF TypeOK, WakeAll, Call, Goto, QuietPC, Executing, Disposing
  <2> QED BY <2>1, <2>2, <2>3, QuietInvariant
<1>5. CASE SetDispatcherCap(t)
  <2>1. UNCHANGED << list, fate, count, cur, held >>
    BY <1>5 DEF SetDispatcherCap
  <2>2. TypeOK'
    BY <1>0, <1>5, <2>1, ConstantsAssumption
    DEF TypeOK, SetDispatcherCap, Call, Goto, PCs, OpNames
  <2>3. QuietPC
    BY <1>0, <1>5
    DEF TypeOK, SetDispatcherCap, Call, Goto, QuietPC, Executing, Disposing
  <2> QED BY <2>1, <2>2, <2>3, QuietInvariant
<1>6. CASE RunThunk(t)
  <2>1. UNCHANGED << list, fate, count, cur, held >>
    BY <1>6 DEF RunThunk
  <2>2. TypeOK'
    BY <1>0, <1>6, <2>1, ConstantsAssumption
    DEF TypeOK, RunThunk, Goto, SetComplete, PCs, OpNames
  <2>3. QuietPC
    BY <1>0, <1>6
    DEF TypeOK, RunThunk, Goto, SetComplete, QuietPC, Executing, Disposing
  <2> QED BY <2>1, <2>2, <2>3, QuietInvariant
<1>7. CASE NotifyZero(t)
  <2>1. UNCHANGED << list, fate, count, cur, held >>
    BY <1>7 DEF NotifyZero
  <2>2. TypeOK'
    BY <1>0, <1>7, <2>1, ConstantsAssumption
    DEF TypeOK, NotifyZero, Goto, NotifyAll, PCs, OpNames
  <2>3. QuietPC
    BY <1>0, <1>7
    DEF TypeOK, NotifyZero, Goto, NotifyAll, QuietPC, Executing, Disposing
  <2> QED BY <2>1, <2>2, <2>3, QuietInvariant
<1>8. CASE LateNotify(t)
  <2>1. UNCHANGED << list, fate, count, cur, held >>
    BY <1>8 DEF LateNotify
  <2>2. TypeOK'
    BY <1>0, <1>8, <2>1, ConstantsAssumption
    DEF TypeOK, LateNotify, Leave, NotifyAll, Goto, PCs, OpNames
  <2>3. QuietPC
    BY <1>0, <1>8
    DEF TypeOK, LateNotify, Leave, NotifyAll, Goto, QuietPC, Executing, Disposing
  <2> QED BY <2>1, <2>2, <2>3, QuietInvariant
<1>9. CASE DrainNext(t)
  <2>1. UNCHANGED << list, fate, count, cur, held >>
    BY <1>9 DEF DrainNext
  <2>2. TypeOK'
    BY <1>0, <1>9, <2>1, ConstantsAssumption
    DEF TypeOK, DrainNext, Goto, PCs, OpNames
  <2>3. QuietPC
    BY <1>0, <1>9
    DEF TypeOK, DrainNext, Goto, QuietPC, Executing, Disposing
  <2> QED BY <2>1, <2>2, <2>3, QuietInvariant
<1>10. CASE BarrierWait(t)
  <2>1. UNCHANGED << list, fate, count, cur, held >>
    BY <1>10 DEF BarrierWait
  <2>2. TypeOK'
    <3>1. CASE LeaveBarrier(t)
      <4>1. complete' \in [Threads -> BOOLEAN]
        BY <1>0, <3>1 DEF LeaveBarrier, TypeOK
      <4>2. UNCHANGED << listVars, stateVars, now, lock, cur, held, failed >>
            /\ asleep' \in SUBSET Threads
        BY <1>0, <1>10 DEF BarrierWait, TypeOK
      <4> QED BY <1>0, <3>1, <4>1, <4>2
              DEF TypeOK, LeaveBarrier, Leave, EndWait, Goto, PCs
    <3>2. CASE UNCHANGED << op, waitVars, barVars >>
      <4>1. UNCHANGED << listVars, stateVars, now, lock, cur, held, failed >>
            /\ asleep' \in SUBSET Threads
        BY <1>0, <1>10 DEF BarrierWait, TypeOK
      <4>2. pc' \in [Threads -> PCs]
        BY <1>0, <1>10 DEF TypeOK, BarrierWait, LeaveBarrier, Leave, Goto, PCs
      <4> QED BY <1>0, <3>2, <4>1, <4>2 DEF TypeOK
    <3> QED BY <1>10, <3>1, <3>2 DEF BarrierWait
  <2>3. QuietPC
    BY <1>0, <1>10
    DEF TypeOK, BarrierWait, LeaveBarrier, Leave, EndWait, Goto, QuietPC, Executing, Disposing
  <2> QED BY <2>1, <2>2, <2>3, QuietInvariant
<1>11. CASE BarrierForWake(t)
  <2>1. UNCHANGED << list, fate, count, cur, held >>
    BY <1>11 DEF BarrierForWake
  <2>2. TypeOK'
    <3>1. CASE LeaveBarrier(t)
      <4>1. complete' \in [Threads -> BOOLEAN]
        BY <1>0, <3>1 DEF LeaveBarrier, TypeOK
      <4>2. UNCHANGED << listVars, stateVars, now, lock, cur, held, failed >>
            /\ asleep' \in SUBSET Threads
        BY <1>0, <1>11 DEF BarrierForWake, TypeOK
      <4> QED BY <1>0, <3>1, <4>1, <4>2
              DEF TypeOK, LeaveBarrier, Leave, EndWait, Goto, PCs
    <3>2. CASE UNCHANGED << op, waitVars, barVars >>
      <4>1. UNCHANGED << listVars, stateVars, now, lock, cur, held, failed >>
            /\ asleep' \in SUBSET Threads
        BY <1>0, <1>11 DEF BarrierForWake, TypeOK
      <4>2. pc' = pc \/ pc' = [pc EXCEPT ![t] = "idle"]
        BY <1>11 DEF BarrierForWake, LeaveBarrier, Leave, Goto
      <4>3. pc' \in [Threads -> PCs]
        BY <1>0, <4>2 DEF TypeOK, PCs
      <4> QED BY <1>0, <3>2, <4>1, <4>3 DEF TypeOK
    <3> QED BY <1>11, <3>1, <3>2 DEF BarrierForWake
  <2>3. QuietPC
    BY <1>0, <1>11
    DEF TypeOK, BarrierForWake, LeaveBarrier, Leave, EndWait, Goto, QuietPC, Executing, Disposing
  <2> QED BY <2>1, <2>2, <2>3, QuietInvariant
<1>12. CASE SpuriousWake(t)
  <2>1. UNCHANGED << list, fate, count, cur, held >>
    BY <1>12 DEF SpuriousWake
  <2>2. TypeOK'
    BY <1>0, <1>12, <2>1, ConstantsAssumption
    DEF TypeOK, SpuriousWake, PCs, OpNames
  <2>3. QuietPC
    BY <1>0, <1>12
    DEF TypeOK, SpuriousWake, QuietPC, Executing, Disposing
  <2> QED BY <2>1, <2>2, <2>3, QuietInvariant
<1> QED BY <1>1, <1>2, <1>3, <1>4, <1>5, <1>6, <1>7, <1>8, <1>9, <1>10, <1>11, <1>12

-----------------------------------------------------------------------------
(* Steps that add thunks *)

Inert == { "new", "delayed", "done", "dropped" }

\* Thunks change between f and g only among the fates of thunks that are
\* neither on the list, nor counted, nor owned by a thread.
InertChange(f, g) == \A k \in Thunks : f[k] = g[k] \/ (f[k] \in Inert /\ g[k] \in Inert)

\* Such a change is invisible to the list, to m_count and to the owners.
LEMMA InertFacts ==
    ASSUME NEW f, NEW g, InertChange(f, g)
    PROVE  /\ \A l : IsQueueOf(l, f) => IsQueueOf(l, g)
           /\ CountedIn(f) = CountedIn(g)
           /\ \A h : SameOwned(h, f) => SameOwned(h, g)
<1>1. \A k \in Thunks : f[k] = "queued" <=> g[k] = "queued"
  BY DEF InertChange, Inert
<1>2. CountedIn(f) = CountedIn(g)
  BY DEF InertChange, Inert, CountedIn
<1>3. \A k \in Thunks : f[k] \in Owned \/ g[k] \in Owned => f[k] = g[k]
  BY DEF InertChange, Inert, Owned
<1>4. \A l : IsQueueOf(l, f) => IsQueueOf(l, g)
  BY <1>1 DEF IsQueueOf
<1>5. \A h : SameOwned(h, f) => SameOwned(h, g)
  BY <1>3 DEF SameOwned
<1> QED BY <1>2, <1>4, <1>5

\* A step in which no thread gains or loses a thunk keeps the invariant if it
\* keeps the types, the list and the count.
LEMMA KeepInvariant ==
    ASSUME Invariant, TypeOK', QuietPC, cur' = cur, held' = held,
           SameOwned(fate, fate'), IsQueueOf(list', fate'),
           count' = Cardinality(CountedIn(fate'))
    PROVE  Invariant'
<1>1. Ownership'
  BY OwnershipQuiet DEF Invariant
<1>2. ListIsQueue'
  BY DEF ListIsQueue, Queued, IsQueueOf
<1>3. CountAccounts'
  BY DEF CountAccounts, Counted, CountedIn
<1> QED BY <1>1, <1>2, <1>3 DEF Invariant

\* An inert change alone keeps the invariant.
LEMMA InertInvariant ==
    ASSUME Invariant, TypeOK', QuietPC, UNCHANGED << list, count, cur, held >>,
           InertChange(fate, fate')
    PROVE  Invariant'
<1>1. SameOwned(fate, fate)
  BY DEF SameOwned
<1>2. IsQueueOf(list, fate) /\ count = Cardinality(CountedIn(fate))
  BY DEF Invariant, ListIsQueue, Queued, IsQueueOf, CountAccounts, Counted, CountedIn
<1>3. SameOwned(fate, fate') /\ IsQueueOf(list, fate') /\ CountedIn(fate) = CountedIn(fate')
  BY <1>1, <1>2, InertFacts
<1> QED BY <1>2, <1>3, KeepInvariant

\* The rest of the types, which a pend does not change or changes in a simple way.
RestTyped ==
    /\ cap' \in Nat /\ aborted' \in BOOLEAN /\ version' \in Nat /\ now' \in Nat
    /\ lock' \in Threads \cup {NoThread} /\ asleep' \in SUBSET Threads
    /\ pc' \in [Threads -> PCs] /\ op' \in [Threads -> OpNames \cup {"none"}]
    /\ wake' \in [Threads -> Nat] /\ deadline' \in [Threads -> Nat]
    /\ seen' \in [Threads -> Nat]
    /\ bar' \in [Threads -> Thunks \cup {NoThunk}]
    /\ complete' \in [Threads -> BOOLEAN]
    /\ ahead' \in [Threads -> SUBSET Thunks]
    /\ lambda' \in [Thunks -> {"no", "stack", "shared"}]
    /\ failed' \in SUBSET Threads

\* Pending one thunk, and the deletion of one that the cap keeps out.
LEMMA PendOne ==
    ASSUME Invariant, NEW k \in Thunks, fate[k] = "new", QuietPC, RestTyped,
           cur' = cur, held' = held,
           \/ Link(k)
           \/ fate' = [fate EXCEPT ![k] = "dropped"] /\ UNCHANGED << list, tail, ready, count >>
    PROVE  Invariant'
<1>0. TypeOK
  BY DEF Invariant
<1>1. CASE Link(k)
  <2>1. /\ ListIsQueue' /\ Ownership' /\ CountAccounts'
        /\ list' \in Seq(Thunks) /\ tail' \in Thunks /\ fate' \in [Thunks -> Fates]
        /\ count' \in Nat /\ ready' = ready
    BY <1>1, LinkInvariant
  <2>2. TypeOK'
    BY <1>0, <2>1 DEF RestTyped, TypeOK
  <2> QED BY <2>1, <2>2 DEF Invariant
<1>2. CASE /\ fate' = [fate EXCEPT ![k] = "dropped"]
           /\ UNCHANGED << list, tail, ready, count >>
  <2>1. fate' \in [Thunks -> Fates] /\ InertChange(fate, fate')
    BY <1>0, <1>2 DEF TypeOK, Fates, InertChange, Inert
  <2>2. TypeOK'
    BY <1>0, <1>2, <2>1 DEF RestTyped, TypeOK
  <2> QED BY <1>2, <2>1, <2>2, InertInvariant
<1> QED BY <1>1, <1>2

\* Going to a point at which a thread owns no thunk.
LEMMA GotoFacts ==
    ASSUME TypeOK, NEW t \in Threads, NEW p \in PCs, Goto(t, p)
    PROVE  /\ pc' \in [Threads -> PCs]
           /\ p \notin Executing \cup Disposing \cup {"invoke"} => QuietPC
<1>1. pc' \in [Threads -> PCs]
  BY DEF Goto, TypeOK
<1>2. \A u \in Threads : pc'[u] = IF u = t THEN p ELSE pc[u]
  BY DEF Goto, TypeOK
<1>3. ASSUME p \notin Executing \cup Disposing \cup {"invoke"} PROVE QuietPC
  BY <1>2, <1>3 DEF QuietPC
<1> QED BY <1>1, <1>3

\* Calling an operation, and returning from one.
LEMMA CallFacts ==
    ASSUME TypeOK, NEW t \in Threads, NEW p \in PCs, NEW o \in OpNames, Call(t, o, p)
    PROVE  /\ pc' \in [Threads -> PCs] /\ op' \in [Threads -> OpNames \cup {"none"}]
           /\ p \notin Executing \cup Disposing \cup {"invoke"} => QuietPC
<1>1. Goto(t, p) /\ op' = [op EXCEPT ![t] = IF p = "idle" THEN "none" ELSE o]
  BY DEF Call
<1>2. op' \in [Threads -> OpNames \cup {"none"}]
  BY <1>1 DEF TypeOK
<1> QED BY <1>1, <1>2, GotoFacts

\* The operations that add thunks keep the invariant.
LEMMA AddSteps ==
    ASSUME Invariant, NEW t \in Threads,
           \/ Pend(t) \/ PendExisting(t) \/ PendDelayed(t)
           \/ Barrier(t) \/ BarrierFor(t)
    PROVE  Invariant'
<1> USE DEF stateVars, cvVars, waitVars, barVars, localVars
<1>0. TypeOK
  BY DEF Invariant
<1>1. CASE Pend(t)
  <2>1. PICK k \in Thunks :
            /\ fate[k] = "new"
            /\ \/ Link(k)
               \/ /\ fate' = [fate EXCEPT ![k] = "dropped"]
                  /\ UNCHANGED << list, tail, ready, count >>
            /\ asleep' = asleep \/ asleep' = {}
    BY <1>1 DEF Pend, NotifyIfWasEmpty
  <2>2. UNCHANGED << stateVars, now, lock, cur, localVars >>
    BY <1>1 DEF Pend
  <2>3. /\ pc' \in [Threads -> PCs] /\ op' \in [Threads -> OpNames \cup {"none"}]
        /\ QuietPC
    BY <1>0, <1>1, CallFacts DEF Pend, PCs, OpNames, Executing, Disposing
  <2>4. asleep' \in SUBSET Threads
    BY <1>0, <2>1 DEF TypeOK
  <2>5. RestTyped
    BY <1>0, <2>2, <2>3, <2>4 DEF TypeOK, RestTyped
  <2> QED BY <2>1, <2>2, <2>3, <2>5, PendOne
<1>2. CASE PendExisting(t)
  <2>1. PICK k \in Thunks : fate[k] = "new" /\ Link(k)
    BY <1>2 DEF PendExisting
  <2>2. UNCHANGED << stateVars, now, lock, cur, localVars >>
    BY <1>2 DEF PendExisting
  <2>3. /\ pc' \in [Threads -> PCs] /\ op' \in [Threads -> OpNames \cup {"none"}]
        /\ QuietPC
    BY <1>0, <1>2, CallFacts DEF PendExisting, PCs, OpNames, Executing, Disposing
  <2>4. asleep' \in SUBSET Threads
    BY <1>0, <1>2 DEF TypeOK, PendExisting, NotifyIfWasEmpty
  <2>5. RestTyped
    BY <1>0, <2>2, <2>3, <2>4 DEF TypeOK, RestTyped
  <2> QED BY <2>1, <2>2, <2>3, <2>5, PendOne
<1>3. CASE PendDelayed(t)
  <2>1. PICK k \in Thunks, r \in Delays :
            /\ fate[k] = "new"
            /\ Call(t, "PendDelayed", IF IsNewTop(r) /\ count = 0 THEN "notify" ELSE "idle")
            /\ fate' = [fate EXCEPT ![k] = "delayed"]
            /\ ready' = [ready EXCEPT ![k] = r]
            /\ UNCHANGED << list, tail, count, stateVars, now, cvVars, cur, localVars >>
    BY <1>3 DEF PendDelayed
  <2>2. r \in Nat
    BY ConstantsAssumption DEF Delays, Times
  <2>3. PICK p \in {"notify", "idle"} : Call(t, "PendDelayed", p)
    BY <2>1
  <2>4. /\ pc' \in [Threads -> PCs] /\ op' \in [Threads -> OpNames \cup {"none"}]
        /\ QuietPC
    BY <1>0, <2>3, CallFacts DEF PCs, OpNames, Executing, Disposing
  <2>5. fate' \in [Thunks -> Fates] /\ InertChange(fate, fate')
    BY <1>0, <2>1 DEF TypeOK, Fates, InertChange, Inert
  <2>6. ready' \in [Thunks -> Nat]
    BY <1>0, <2>1, <2>2 DEF TypeOK
  <2>7. UNCHANGED << list, tail, count, stateVars, now, cvVars, cur, localVars >>
    BY <2>1
  <2>8. TypeOK'
    BY <1>0, <2>4, <2>5, <2>6, <2>7 DEF TypeOK
  <2> QED BY <2>4, <2>5, <2>7, <2>8, InertInvariant
<1>4. CASE Barrier(t)
  <2>1. PICK k \in Thunks :
            /\ fate[k] = "new"
            /\ EnterBarrier(t, k, "stack")
            /\ \/ Link(k)
               \/ /\ fate' = [fate EXCEPT ![k] = "dropped"]
                  /\ UNCHANGED << list, tail, ready, count >>
            /\ asleep' = asleep \/ asleep' = {}
    BY <1>4 DEF Barrier, NotifyIfWasEmpty
  <2>2. UNCHANGED << stateVars, now, lock, cur, held, waitVars, failed >>
    BY <1>4 DEF Barrier
  <2>3. /\ pc' \in [Threads -> PCs] /\ op' \in [Threads -> OpNames \cup {"none"}]
        /\ QuietPC
    BY <1>0, <1>4, CallFacts DEF Barrier, PCs, OpNames, Executing, Disposing
  <2>4. asleep' \in SUBSET Threads
    BY <1>0, <2>1 DEF TypeOK
  <2>5. complete' \in [Threads -> BOOLEAN]
    BY <1>0, <2>1 DEF TypeOK, EnterBarrier
  <2>6. /\ bar' \in [Threads -> Thunks \cup {NoThunk}]
        /\ ahead' \in [Threads -> SUBSET Thunks]
        /\ lambda' \in [Thunks -> {"no", "stack", "shared"}]
    BY <1>0, <2>1 DEF TypeOK, EnterBarrier, Queued
  <2>7. RestTyped
    BY <1>0, <2>2, <2>3, <2>4, <2>5, <2>6 DEF TypeOK, RestTyped
  <2> QED BY <2>1, <2>2, <2>3, <2>7, PendOne
<1>5. CASE BarrierFor(t) /\ aborted
  <2>1. Call(t, "BarrierFor", "idle")
    BY <1>5 DEF BarrierFor
  <2>2. UNCHANGED << list, tail, fate, ready, count, asleep, wake, barVars, stateVars, now,
                     lock, cur, held, deadline, seen, failed >>
    BY <1>5 DEF BarrierFor, listVars
  <2>3. /\ pc' \in [Threads -> PCs] /\ op' \in [Threads -> OpNames \cup {"none"}]
        /\ QuietPC
    BY <1>0, <2>1, CallFacts DEF PCs, OpNames, Executing, Disposing
  <2>4. TypeOK'
    BY <1>0, <2>2, <2>3 DEF TypeOK
  <2> QED BY <2>2, <2>3, <2>4, QuietInvariant
<1>6. CASE BarrierFor(t) /\ ~aborted
  <2>1. PICK k \in Thunks :
            fate[k] = "new" /\ Link(k) /\ EnterBarrier(t, k, "shared")
    BY <1>6 DEF BarrierFor
  <2>2. PICK w \in Times : wake' = [wake EXCEPT ![t] = w]
    BY <1>6 DEF BarrierFor
  <2>3. UNCHANGED << stateVars, now, lock, cur, held, deadline, seen, failed >>
    BY <1>6 DEF BarrierFor
  <2>4. /\ pc' \in [Threads -> PCs] /\ op' \in [Threads -> OpNames \cup {"none"}]
        /\ QuietPC
    BY <1>0, <1>6, CallFacts DEF BarrierFor, PCs, OpNames, Executing, Disposing
  <2>5. asleep' \in SUBSET Threads
    BY <1>0, <1>6 DEF TypeOK, BarrierFor
  <2>6. complete' \in [Threads -> BOOLEAN]
    BY <1>0, <2>1 DEF TypeOK, EnterBarrier
  <2>7. /\ bar' \in [Threads -> Thunks \cup {NoThunk}]
        /\ ahead' \in [Threads -> SUBSET Thunks]
        /\ lambda' \in [Thunks -> {"no", "stack", "shared"}]
    BY <1>0, <2>1 DEF TypeOK, EnterBarrier, Queued
  <2>8. wake' \in [Threads -> Nat]
    BY <1>0, <2>2, ConstantsAssumption DEF TypeOK, Times
  <2>9. RestTyped
    BY <1>0, <2>3, <2>4, <2>5, <2>6, <2>7, <2>8 DEF TypeOK, RestTyped
  <2> QED BY <2>1, <2>3, <2>4, <2>9, PendOne
<1> QED BY <1>1, <1>2, <1>3, <1>4, <1>5, <1>6

\* Appending another queue keeps the invariant.
LEMMA AppendStep ==
    ASSUME Invariant, NEW t \in Threads, AppendQueue(t)
    PROVE  Invariant'
<1> USE DEF stateVars, waitVars, barVars, localVars
<1>0. TypeOK /\ ListIsQueue /\ CountAccounts
  BY DEF Invariant
<1>a. PICK S \in SUBSET { k \in Thunks : fate[k] = "new" },
           D \in SUBSET { k \in Thunks : fate[k] = "new" } :
            \E s \in Bijection(1 .. Cardinality(S), S), r \in [D -> Delays] :
                /\ S \cap D = {}
                /\ list' = Linked(s)
                /\ fate' = [k \in Thunks |-> IF k \in D THEN "delayed" ELSE LinkedFate(s)[k]]
                /\ ready' = [k \in Thunks |-> IF k \in D THEN r[k] ELSE ready[k]]
                /\ tail' = LinkedTail(s)
                /\ count' = count + Len(s)
  BY DEF AppendQueue
<1>1. PICK s \in Bijection(1 .. Cardinality(S), S), r \in [D -> Delays] :
            /\ S \cap D = {}
            /\ list' = Linked(s)
            /\ fate' = [k \in Thunks |-> IF k \in D THEN "delayed" ELSE LinkedFate(s)[k]]
            /\ ready' = [k \in Thunks |-> IF k \in D THEN r[k] ELSE ready[k]]
            /\ tail' = LinkedTail(s)
            /\ count' = count + Len(s)
  BY <1>a
<1>2. IsChain(s) /\ Range(s) = S /\ Len(s) = Cardinality(S)
  BY BijectionIsChain
<1>3. /\ LinkedFate(s) \in [Thunks -> Fates]
      /\ IsQueueOf(Linked(s), LinkedFate(s))
      /\ SameOwned(fate, LinkedFate(s))
      /\ Cardinality(CountedIn(LinkedFate(s))) = count + Len(s)
      /\ \A k \in Thunks : k \notin Range(list) \cup Range(s) => LinkedFate(s)[k] = fate[k]
  BY <1>0, <1>2, LinkedFateFacts
<1>4. InertChange(LinkedFate(s), fate')
  <2>1. \A k \in D : k \in Thunks /\ k \notin Range(list) \cup Range(s) /\ fate[k] = "new"
    BY <1>0, <1>1, <1>2 DEF ListIsQueue, Queued
  <2> QED BY <1>1, <1>3, <2>1 DEF InertChange, Inert
<1>5. SameOwned(fate, fate') /\ IsQueueOf(list', fate') /\ count' = Cardinality(CountedIn(fate'))
  BY <1>1, <1>3, <1>4, InertFacts
<1>6. fate' \in [Thunks -> Fates]
  BY <1>1, <1>3 DEF Fates
<1>7. list' \in Seq(Thunks)
  BY <1>0, <1>1, <1>2, LinkedFacts
<1>8. Delays \subseteq Nat
  BY ConstantsAssumption DEF Delays, Times
<1>9. ready' \in [Thunks -> Nat]
  BY <1>0, <1>1, <1>8 DEF TypeOK
<1>10. Len(s) \in Nat /\ s \in Seq(Thunks) /\ (s # << >> => s[Len(s)] \in Thunks)
  BY <1>2, LenProperties, EmptySeq DEF IsChain
<1>11. tail' \in Thunks \cup {NoThunk}
  BY <1>1, <1>10 DEF LinkedTail
<1>12. count' \in Nat
  BY <1>0, <1>1, <1>10 DEF TypeOK
<1>13. /\ pc' \in [Threads -> PCs] /\ op' \in [Threads -> OpNames \cup {"none"}]
       /\ QuietPC
  BY <1>0, CallFacts DEF AppendQueue, PCs, OpNames, Executing, Disposing
<1>14. UNCHANGED << stateVars, now, lock, cur, localVars >> /\ asleep' = {}
  BY DEF AppendQueue, NotifyAll
<1>15. TypeOK'
  BY <1>0, <1>6, <1>7, <1>9, <1>11, <1>12, <1>13, <1>14 DEF TypeOK
<1> QED BY <1>5, <1>13, <1>14, <1>15, KeepInvariant

-----------------------------------------------------------------------------
(* Steps that pop a thunk *)

\* Popping the head of a list l that holds the queued thunks of f.
LEMMA PopFacts ==
    ASSUME Invariant, NEW t \in Threads, NEW l \in Seq(Thunks), l # << >>,
           NEW f \in [Thunks -> Fates], IsQueueOf(l, f), SameOwned(fate, f),
           Pop(t, l, f), held' = held, Goto(t, "run"),
           pc[t] \notin Executing \cup Disposing
    PROVE  /\ list' \in Seq(Thunks) /\ fate' \in [Thunks -> Fates]
           /\ ready' \in [Thunks -> Nat] /\ cur' \in [Threads -> Thunks \cup {NoThunk}]
           /\ IsQueueOf(list', fate') /\ Ownership' /\ CountedIn(fate') = CountedIn(f)
<1>0. TypeOK /\ Ownership
  BY DEF Invariant
<1>1. IsInjective(l) /\ Range(l) = { k \in Thunks : f[k] = "queued" }
  BY DEF IsQueueOf
<1>2. /\ Tail(l) \in Seq(Thunks) /\ IsInjective(Tail(l)) /\ Head(l) \in Range(l)
      /\ Range(Tail(l)) = Range(l) \ {Head(l)}
  BY <1>1, TailFacts
<1>3. /\ list' = Tail(l) /\ fate' = [f EXCEPT ![Head(l)] = "flight"]
      /\ cur' = [cur EXCEPT ![t] = Head(l)]
      /\ ready' = [k \in Thunks |-> IF fate'[k] = "delayed" THEN ready[k] ELSE 0]
  BY DEF Pop, Rest, KeepReady
<1>4. Head(l) \in Thunks /\ f[Head(l)] = "queued"
  BY <1>1, <1>2
<1>5. fate' \in [Thunks -> Fates] /\ cur' \in [Threads -> Thunks \cup {NoThunk}]
  BY <1>0, <1>3, <1>4 DEF TypeOK, Fates
<1>6. ready' \in [Thunks -> Nat]
  BY <1>0, <1>3 DEF TypeOK
<1>7. Range(list') = { k \in Thunks : fate'[k] = "queued" }
  BY <1>1, <1>2, <1>3, <1>4
<1>8. IsQueueOf(list', fate')
  BY <1>2, <1>3, <1>7 DEF IsQueueOf
<1>9. CountedIn(fate') = CountedIn(f)
  BY <1>3, <1>4 DEF CountedIn
<1>10. Ownership'
  BY <1>0, <1>3, <1>4, OwnershipPop DEF Goto
<1> QED BY <1>2, <1>3, <1>5, <1>6, <1>8, <1>9, <1>10

\* What a pop establishes.
PopDone ==
    /\ list' \in Seq(Thunks) /\ tail' \in Thunks \cup {NoThunk}
    /\ fate' \in [Thunks -> Fates] /\ ready' \in [Thunks -> Nat] /\ count' \in Nat
    /\ cur' \in [Threads -> Thunks \cup {NoThunk}]
    /\ ListIsQueue' /\ Ownership' /\ CountAccounts'

\* Popping the head of the list.
LEMMA PopHeadFacts ==
    ASSUME Invariant, NEW t \in Threads, list # << >>, PopHead(t), held' = held,
           Goto(t, "run"), pc[t] \notin Executing \cup Disposing
    PROVE  PopDone
<1>1. TypeOK /\ IsQueueOf(list, fate) /\ count = Cardinality(CountedIn(fate))
  BY DEF Invariant, ListIsQueue, Queued, IsQueueOf, CountAccounts, Counted, CountedIn
<1>2. SameOwned(fate, fate)
  BY DEF SameOwned
<1>3. Pop(t, list, fate) /\ UNCHANGED << tail, count >>
  BY DEF PopHead
<1>4. list \in Seq(Thunks) /\ fate \in [Thunks -> Fates]
  BY <1>1 DEF TypeOK
<1>5. /\ list' \in Seq(Thunks) /\ fate' \in [Thunks -> Fates]
      /\ ready' \in [Thunks -> Nat] /\ cur' \in [Threads -> Thunks \cup {NoThunk}]
      /\ IsQueueOf(list', fate') /\ Ownership' /\ CountedIn(fate') = CountedIn(fate)
  BY <1>1, <1>2, <1>3, <1>4, PopFacts
<1>6. ListIsQueue'
  BY <1>5 DEF ListIsQueue, Queued, IsQueueOf
<1>7. CountAccounts'
  BY <1>1, <1>3, <1>5 DEF CountAccounts, Counted, CountedIn
<1> QED BY <1>1, <1>3, <1>5, <1>6, <1>7 DEF PopDone, TypeOK

\* Promoting the ready thunks and popping the head of what results.
LEMMA PromoteFacts ==
    ASSUME Invariant, NEW t \in Threads, Ready # {}, PromoteAndPop(t), held' = held,
           Goto(t, "run"), pc[t] \notin Executing \cup Disposing
    PROVE  PopDone
<1>1. TypeOK /\ ListIsQueue /\ CountAccounts
  BY DEF Invariant
<1>2. PICK s \in Chains(Ready) : /\ Pop(t, Linked(s), LinkedFate(s))
                                 /\ tail' = LinkedTail(s)
                                 /\ count' = count + Len(s)
  BY DEF PromoteAndPop
<1>3. /\ Ready \in SUBSET Thunks /\ \A k \in Ready : fate[k] \in {"new", "delayed"}
      /\ s \in Bijection(1 .. Cardinality(Ready), Ready)
  BY DEF Ready, Delayed, Chains
<1>4. IsChain(s) /\ Range(s) = Ready /\ Len(s) = Cardinality(Ready)
  BY <1>3, BijectionIsChain
<1>5. s # << >>
  BY <1>4 DEF Range
<1>6. s \in Seq(Thunks) /\ Len(s) \in Nat /\ Len(s) >= 1 /\ s[Len(s)] \in Thunks
  BY <1>4, <1>5, LenProperties, EmptySeq DEF IsChain
<1>7. Linked(s) \in Seq(Thunks)
  BY <1>1, <1>4, LinkedFacts
<1>8. Linked(s) # << >>
  <2>1. CASE list = << >>
    BY <1>5, <2>1 DEF Linked
  <2>2. CASE list # << >> /\ ~ \E i \in DOMAIN list : list[i] = tail
    BY <2>2 DEF Linked
  <2>3. CASE list # << >> /\ \E i \in DOMAIN list : list[i] = tail
    <3> DEFINE n == CHOOSE i \in DOMAIN list : list[i] = tail
               p == SubSeq(list, 1, n)
    <3>1. n \in DOMAIN list
      BY <2>3
    <3>2. p \in Seq(Thunks)
      BY <1>1, <3>1, PrefixFacts DEF TypeOK, ListIsQueue
    <3>3. Linked(s) = p \o s
      BY <2>3 DEF Linked
    <3> HIDE DEF p
    <3>4. Len(p \o s) = Len(p) + Len(s) /\ Len(p) \in Nat
      BY <1>6, <3>2, ConcatProperties, LenProperties
    <3> QED BY <1>6, <3>3, <3>4
  <2> QED BY <2>1, <2>2, <2>3
<1>9. /\ LinkedFate(s) \in [Thunks -> Fates]
      /\ IsQueueOf(Linked(s), LinkedFate(s))
      /\ SameOwned(fate, LinkedFate(s))
      /\ Cardinality(CountedIn(LinkedFate(s))) = count + Len(s)
  BY <1>1, <1>4, LinkedFateFacts
<1>10. /\ list' \in Seq(Thunks) /\ fate' \in [Thunks -> Fates]
       /\ ready' \in [Thunks -> Nat] /\ cur' \in [Threads -> Thunks \cup {NoThunk}]
       /\ IsQueueOf(list', fate') /\ Ownership'
       /\ CountedIn(fate') = CountedIn(LinkedFate(s))
  BY <1>2, <1>7, <1>8, <1>9, PopFacts
<1>11. ListIsQueue'
  BY <1>10 DEF ListIsQueue, Queued, IsQueueOf
<1>12. CountAccounts'
  BY <1>2, <1>9, <1>10 DEF CountAccounts, Counted, CountedIn
<1>13. tail' \in Thunks \cup {NoThunk}
  BY <1>2, <1>6 DEF LinkedTail
<1>14. count' \in Nat
  BY <1>1, <1>2, <1>6 DEF TypeOK
<1> QED BY <1>10, <1>11, <1>12, <1>13, <1>14 DEF PopDone

\* A step that pops a thunk keeps the invariant.
LEMMA PopInvariant ==
    ASSUME Invariant, PopDone, RestTyped, held' = held
    PROVE  Invariant'
<1>1. TypeOK'
  BY DEF Invariant, PopDone, RestTyped, TypeOK
<1> QED BY <1>1 DEF Invariant, PopDone

\* Leaving an operation, and the end of a wait.
LEMMA LeaveFacts ==
    ASSUME TypeOK, NEW t \in Threads
    PROVE  /\ Leave(t) => /\ pc' \in [Threads -> PCs] /\ QuietPC
                          /\ op' \in [Threads -> OpNames \cup {"none"}]
           /\ EndWait(t) => /\ wake' \in [Threads -> Nat] /\ deadline' \in [Threads -> Nat]
                            /\ seen' \in [Threads -> Nat]
<1>1. ASSUME Leave(t)
      PROVE  pc' \in [Threads -> PCs] /\ QuietPC /\ op' \in [Threads -> OpNames \cup {"none"}]
  <2>1. Goto(t, "idle") /\ op' = [op EXCEPT ![t] = "none"]
    BY <1>1 DEF Leave
  <2>2. pc' \in [Threads -> PCs] /\ QuietPC
    BY <2>1, GotoFacts DEF PCs, Executing, Disposing
  <2> QED BY <2>1, <2>2 DEF TypeOK
<1>2. ASSUME EndWait(t)
      PROVE  /\ wake' \in [Threads -> Nat] /\ deadline' \in [Threads -> Nat]
             /\ seen' \in [Threads -> Nat]
  BY <1>2 DEF EndWait, TypeOK
<1> QED BY <1>1, <1>2

\* The capped wakeup time is a time, at which no delayed thunk is overdue.
LEMMA SuggestFacts ==
    ASSUME TypeOK, NEW w \in Nat
    PROVE  /\ SuggestSoonestWakeupTimeUnsafe(w) \in Nat
           /\ \A k \in Delayed : SuggestSoonestWakeupTimeUnsafe(w) <= ready[k]
<1> DEFINE P(r) == \A k \in Delayed : r <= ready[k]
<1>1. CASE \E k \in Delayed : ready[k] < w
  <2>1. PICK k0 \in Delayed : ready[k0] < w
    BY <1>1
  <2> DEFINE R == { ready[k] : k \in Delayed }
  <2>2. R \subseteq Nat /\ R # {}
    <3>1. ready \in [Thunks -> Nat] /\ Delayed \subseteq Thunks
      BY DEF TypeOK, Delayed
    <3>2. \A k \in Delayed : ready[k] \in Nat
      BY <3>1
    <3> QED BY <2>1, <3>2
  <2>3. \E r \in R : \A x \in R : r <= x
    <3> DEFINE L == OpToRel(<, Nat)
    <3>1. \E r \in R : \A x \in R : ~ (<< x, r >> \in L)
      BY <2>2, NatLessThanWellFounded, WFMin
    <3>2. \A x, r \in Nat : x < r => << x, r >> \in L
      BY DEF OpToRel
    <3>3. \A x, r \in R : x \in Nat /\ r \in Nat
      BY <2>2
    <3>4. PICK r \in R : \A x \in R : ~ (<< x, r >> \in L)
      BY <3>1
    <3> HIDE DEF R, L
    <3>5. \A x \in R : ~ (x < r)
      BY <3>2, <3>3, <3>4
    <3>6. \A x \in R : r <= x
      BY <3>3, <3>5
    <3> QED BY <3>6
  <2>4. \E r \in R : P(r)
    BY <2>3
  <2>5. PICK c : c = CHOOSE r \in R : P(r)
    OBVIOUS
  <2>6. c \in R /\ P(c)
    BY <2>4, <2>5
  <2>7. SuggestSoonestWakeupTimeUnsafe(w) = c
    BY <1>1, <2>5 DEF SuggestSoonestWakeupTimeUnsafe
  <2> QED BY <2>2, <2>6, <2>7
<1>2. CASE ~ \E k \in Delayed : ready[k] < w
  BY <1>2 DEF SuggestSoonestWakeupTimeUnsafe, TypeOK, Delayed
<1> QED BY <1>1, <1>2

\* The dispatching operations keep the invariant.
LEMMA DispatchStep ==
    ASSUME Invariant, NEW t \in Threads, Dispatch(t)
    PROVE  Invariant'
<1> USE DEF stateVars, cvVars, waitVars, barVars, localVars
<1>0. TypeOK
  BY DEF Invariant
<1> DEFINE empty == list = << >> /\ Ready = {}
<1>1. PICK o \in { "DispatchEvent", "TryDispatchEvent", "DispatchAllEvents" } :
        /\ \/ Call(t, o, IF empty THEN "idle" ELSE "run")
           \/ pc[t] = "again" /\ empty /\ Leave(t)
           \/ pc[t] = "again" /\ ~empty /\ Goto(t, "run") /\ UNCHANGED op
        /\ \/ empty /\ UNCHANGED << listVars, cur >>
           \/ list # << >> /\ PopHead(t)
           \/ list = << >> /\ Ready # {} /\ PromoteAndPop(t)
  BY DEF Dispatch
<1>2. o \in OpNames /\ "idle" \in PCs /\ "run" \in PCs
  BY DEF OpNames, PCs
<1>3. UNCHANGED << stateVars, now, cvVars, localVars >>
  BY DEF Dispatch
<1>4. pc' \in [Threads -> PCs] /\ op' \in [Threads -> OpNames \cup {"none"}]
  <2>1. CASE empty
    BY <1>0, <1>1, <1>2, <2>1, CallFacts, LeaveFacts
  <2>2. CASE ~empty
    <3>1. Call(t, o, "run") \/ (Goto(t, "run") /\ UNCHANGED op)
      BY <1>1, <2>2
    <3>2. CASE Call(t, o, "run")
      BY <1>0, <1>2, <3>2, CallFacts
    <3>3. CASE Goto(t, "run") /\ UNCHANGED op
      BY <1>0, <1>2, <3>3, GotoFacts DEF TypeOK
    <3> QED BY <3>1, <3>2, <3>3
  <2> QED BY <2>1, <2>2
<1>5. RestTyped
  BY <1>0, <1>3, <1>4 DEF TypeOK, RestTyped
<1>6. CASE empty
  <2>1. UNCHANGED << listVars, cur >>
    BY <1>1, <1>6
  <2>2. QuietPC
    <3>1. Call(t, o, "idle") \/ Leave(t)
      BY <1>1, <1>6
    <3> QED BY <1>0, <1>2, <3>1, CallFacts, LeaveFacts DEF Executing, Disposing
  <2>3. TypeOK'
    BY <1>0, <1>3, <1>5, <2>1 DEF TypeOK, RestTyped, listVars
  <2> QED BY <1>3, <2>1, <2>2, <2>3, QuietInvariant DEF listVars
<1>7. CASE ~empty
  <2>1. Goto(t, "run") /\ pc[t] \in {"idle", "again"}
    BY <1>1, <1>7 DEF Call
  <2>2. pc[t] \notin Executing \cup Disposing /\ held' = held
    BY <1>3, <2>1 DEF Executing, Disposing
  <2>3. PopDone
    BY <1>1, <1>7, <2>1, <2>2, PopHeadFacts, PromoteFacts
  <2> QED BY <1>5, <2>2, <2>3, PopInvariant
<1> QED BY <1>6, <1>7

\* A step of a waiting thread that pops a thunk.
LEMMA WaitPop ==
    ASSUME Invariant, NEW t \in Threads, Goto(t, "run"),
           pc[t] \in {"idle", "pred", "timed"}, op' \in [Threads -> OpNames \cup {"none"}],
           EndWait(t) \/ UNCHANGED waitVars,
           lock' \in Threads \cup {NoThread}, asleep' \in SUBSET Threads,
           UNCHANGED << stateVars, now, held, barVars, failed >>,
           \/ list # << >> /\ PopHead(t)
           \/ Ready # {} /\ PromoteAndPop(t)
    PROVE  Invariant'
<1> USE DEF stateVars, waitVars, barVars
<1>0. TypeOK
  BY DEF Invariant
<1>1. pc[t] \notin Executing \cup Disposing
  BY DEF Executing, Disposing
<1>2. PopDone
  BY <1>1, PopHeadFacts, PromoteFacts
<1>3. pc' \in [Threads -> PCs]
  BY <1>0, GotoFacts DEF PCs
<1>4. /\ wake' \in [Threads -> Nat] /\ deadline' \in [Threads -> Nat]
      /\ seen' \in [Threads -> Nat]
  <2>1. CASE EndWait(t)
    BY <1>0, <2>1, LeaveFacts
  <2>2. CASE UNCHANGED waitVars
    BY <1>0, <2>2 DEF TypeOK
  <2> QED BY <2>1, <2>2
<1>5. RestTyped
  BY <1>0, <1>3, <1>4 DEF TypeOK, RestTyped
<1> QED BY <1>2, <1>5, PopInvariant

\* A step of a waiting thread that pops nothing.
LEMMA WaitQuiet ==
    ASSUME Invariant, NEW t \in Threads, QuietPC, pc' \in [Threads -> PCs],
           op' \in [Threads -> OpNames \cup {"none"}],
           wake' \in [Threads -> Nat], deadline' \in [Threads -> Nat],
           seen' \in [Threads -> Nat],
           lock' \in Threads \cup {NoThread}, asleep' \in SUBSET Threads,
           UNCHANGED << stateVars, now, held, barVars, failed >>,
           UNCHANGED << listVars, cur >>
    PROVE  Invariant'
<1>1. TypeOK'
  BY DEF Invariant, TypeOK, stateVars, barVars, listVars
<1>2. UNCHANGED << list, fate, count, cur, held >>
  BY DEF listVars
<1> QED BY <1>1, <1>2, QuietInvariant

\* The predicate of WaitForEvent(void) and what follows it.
LEMMA WaitPredicateStep ==
    ASSUME Invariant, NEW t \in Threads, WaitPredicate(t)
    PROVE  Invariant'
<1>0. TypeOK
  BY DEF Invariant
<1>1. /\ pc[t] = "pred" /\ UNCHANGED << stateVars, now, held, barVars, failed >>
      /\ lock' \in Threads \cup {NoThread} /\ asleep' \in SUBSET Threads
  BY <1>0 DEF WaitPredicate, TypeOK
<1>2. CASE Leave(t) /\ EndWait(t) /\ UNCHANGED << listVars, asleep, cur >>
  BY <1>0, <1>1, <1>2, LeaveFacts, WaitQuiet
<1>3. CASE /\ list # << >> /\ Goto(t, "run") /\ EndWait(t) /\ PopHead(t)
           /\ UNCHANGED << asleep, op >>
  <2>1. op' \in [Threads -> OpNames \cup {"none"}]
    BY <1>0, <1>3 DEF TypeOK
  <2> QED BY <1>1, <1>3, <2>1, WaitPop
<1>4. CASE /\ \E k \in Delayed : /\ wake' = [wake EXCEPT ![t] = ready[k]]
                                 /\ deadline' = [deadline EXCEPT ![t] = ready[k]]
           /\ Goto(t, "timed") /\ UNCHANGED << listVars, cur, seen, op >>
  <2>1. pc' \in [Threads -> PCs] /\ QuietPC
    BY <1>0, <1>4, GotoFacts DEF PCs, Executing, Disposing
  <2>2. /\ wake' \in [Threads -> Nat] /\ deadline' \in [Threads -> Nat]
        /\ seen' \in [Threads -> Nat] /\ op' \in [Threads -> OpNames \cup {"none"}]
    BY <1>0, <1>4 DEF TypeOK, Delayed
  <2> QED BY <1>1, <1>4, <2>1, <2>2, WaitQuiet
<1>5. CASE Goto(t, "block") /\ UNCHANGED << listVars, lock, asleep, cur, waitVars, op >>
  <2>1. pc' \in [Threads -> PCs] /\ QuietPC
    BY <1>0, <1>5, GotoFacts DEF PCs, Executing, Disposing
  <2>2. /\ wake' \in [Threads -> Nat] /\ deadline' \in [Threads -> Nat]
        /\ seen' \in [Threads -> Nat] /\ op' \in [Threads -> OpNames \cup {"none"}]
    BY <1>0, <1>5 DEF TypeOK, waitVars
  <2> QED BY <1>1, <1>5, <2>1, <2>2, WaitQuiet
<1> QED BY <1>2, <1>3, <1>4, <1>5 DEF WaitPredicate

\* WaitForEvent(wakeTime) up to its first wait.
LEMMA WaitForEventUntilStep ==
    ASSUME Invariant, NEW t \in Threads, WaitForEventUntil(t)
    PROVE  Invariant'
<1>0. TypeOK /\ "WaitForEventUntil" \in OpNames
  BY DEF Invariant, OpNames
<1>1. UNCHANGED << stateVars, now, lock, held, barVars, failed >>
      /\ lock' \in Threads \cup {NoThread} /\ asleep' \in SUBSET Threads
  BY <1>0 DEF WaitForEventUntil, TypeOK
<1>2. CASE /\ Call(t, "WaitForEventUntil", "idle")
           /\ UNCHANGED << listVars, asleep, cur, waitVars >>
  <2>1. /\ pc' \in [Threads -> PCs] /\ QuietPC
        /\ op' \in [Threads -> OpNames \cup {"none"}]
    BY <1>0, <1>2, CallFacts DEF PCs, Executing, Disposing
  <2>2. /\ wake' \in [Threads -> Nat] /\ deadline' \in [Threads -> Nat]
        /\ seen' \in [Threads -> Nat]
    BY <1>0, <1>2 DEF TypeOK, waitVars
  <2> QED BY <1>1, <1>2, <2>1, <2>2, WaitQuiet
<1>3. CASE /\ list # << >> /\ Call(t, "WaitForEventUntil", "run") /\ PopHead(t)
           /\ UNCHANGED << asleep, waitVars >>
  <2>1. op' \in [Threads -> OpNames \cup {"none"}] /\ Goto(t, "run") /\ pc[t] = "idle"
    BY <1>0, <1>3, CallFacts DEF PCs, Call
  <2> QED BY <1>1, <1>3, <2>1, WaitPop
<1>4. CASE /\ Call(t, "WaitForEventUntil", "timed")
           /\ \E w \in Times :
                /\ deadline' = [deadline EXCEPT ![t] = w]
                /\ wake' = [wake EXCEPT ![t] = SuggestSoonestWakeupTimeUnsafe(w)]
           /\ UNCHANGED << listVars, cur, seen >>
  <2>1. /\ pc' \in [Threads -> PCs] /\ QuietPC
        /\ op' \in [Threads -> OpNames \cup {"none"}]
    BY <1>0, <1>4, CallFacts DEF PCs, Executing, Disposing
  <2>2. PICK w \in Times : /\ deadline' = [deadline EXCEPT ![t] = w]
                           /\ wake' = [wake EXCEPT ![t] = SuggestSoonestWakeupTimeUnsafe(w)]
    BY <1>4
  <2>3. w \in Nat
    BY ConstantsAssumption DEF Times
  <2>4. SuggestSoonestWakeupTimeUnsafe(w) \in Nat
    BY <1>0, <2>3, SuggestFacts
  <2>5. /\ wake' \in [Threads -> Nat] /\ deadline' \in [Threads -> Nat]
        /\ seen' \in [Threads -> Nat]
    BY <1>0, <1>4, <2>2, <2>3, <2>4 DEF TypeOK
  <2> QED BY <1>1, <1>4, <2>1, <2>5, WaitQuiet
<1> QED BY <1>2, <1>3, <1>4 DEF WaitForEventUntil

\* A timed wait wakes up.
LEMMA TimedWakeStep ==
    ASSUME Invariant, NEW t \in Threads, TimedWake(t)
    PROVE  Invariant'
<1>0. TypeOK
  BY DEF Invariant
<1>1. /\ pc[t] = "timed" /\ UNCHANGED << stateVars, now, lock, held, barVars, failed >>
      /\ lock' \in Threads \cup {NoThread} /\ asleep' \in SUBSET Threads
  BY <1>0 DEF TimedWake, TypeOK
<1>2. CASE Leave(t) /\ EndWait(t) /\ UNCHANGED << listVars, cur >>
  BY <1>0, <1>1, <1>2, LeaveFacts, WaitQuiet
<1>3. CASE /\ Goto(t, "run") /\ EndWait(t) /\ UNCHANGED op
           /\ \/ Ready # {} /\ PromoteAndPop(t)
              \/ list # << >> /\ PopHead(t)
  <2>1. op' \in [Threads -> OpNames \cup {"none"}]
    BY <1>0, <1>3 DEF TypeOK
  <2> QED BY <1>1, <1>3, <2>1, WaitPop
<1>4. CASE /\ wake' = [wake EXCEPT ![t] = SuggestSoonestWakeupTimeUnsafe(@)]
           /\ UNCHANGED << listVars, pc, cur, op, deadline, seen >>
  <2>1. SuggestSoonestWakeupTimeUnsafe(wake[t]) \in Nat
    BY <1>0, SuggestFacts DEF TypeOK
  <2>2. /\ wake' \in [Threads -> Nat] /\ deadline' \in [Threads -> Nat]
        /\ seen' \in [Threads -> Nat]
    BY <1>0, <1>4, <2>1 DEF TypeOK
  <2>3. /\ pc' \in [Threads -> PCs] /\ QuietPC
        /\ op' \in [Threads -> OpNames \cup {"none"}]
    BY <1>0, <1>4 DEF TypeOK, QuietPC
  <2> QED BY <1>1, <1>4, <2>2, <2>3, WaitQuiet
<1> QED BY <1>2, <1>3, <1>4 DEF TimedWake

-----------------------------------------------------------------------------
(* Steps that end the execution of a thunk *)

\* A thunk that failed goes back to the front of the list.
LEMMA PutBackStep ==
    ASSUME Invariant, NEW t \in Threads, PutBack(t)
    PROVE  Invariant'
<1> USE DEF stateVars, cvVars, waitVars, barVars
<1>0. TypeOK /\ ListIsQueue /\ Ownership /\ CountAccounts
  BY DEF Invariant
<1> DEFINE k == cur[t]
<1>1. /\ pc[t] = "putback" /\ list' = << k >> \o list /\ fate' = [fate EXCEPT ![k] = "queued"]
      /\ cur' = [cur EXCEPT ![t] = NoThunk] /\ count' = count /\ Leave(t)
      /\ failed' = failed \ {t}
      /\ UNCHANGED << tail, ready, stateVars, now, cvVars, held, waitVars, barVars >>
  BY DEF PutBack, PutBackCount
<1>2. k \in Thunks /\ fate[k] = "flight"
  BY <1>0, <1>1 DEF Ownership, CurOwned, Executing
<1>3. /\ pc' \in [Threads -> PCs] /\ QuietPC /\ op' \in [Threads -> OpNames \cup {"none"}]
  BY <1>0, <1>1, LeaveFacts
<1> DEFINE s == << k >>
<1>4. /\ list' = s \o list
      /\ s \o list \in Seq(Thunks)
      /\ IsInjective(s \o list)
      /\ Range(s \o list) = {k} \cup Range(list)
  <2>0. list' = s \o list
    BY <1>1
  <2>1. s \in Seq(Thunks) /\ IsInjective(s) /\ Range(s) = {k}
    BY <1>2 DEF IsInjective, Range
  <2>2. Range(s) \cap Range(list) = {} /\ list \in Seq(Thunks) /\ IsInjective(list)
    BY <1>0, <1>2, <2>1 DEF ListIsQueue, Queued, TypeOK
  <2> HIDE DEF s
  <2> QED BY <2>0, <2>1, <2>2, ConcatFacts
<1> HIDE DEF s
<1>5. fate' \in [Thunks -> Fates] /\ cur' \in [Threads -> Thunks \cup {NoThunk}]
  BY <1>0, <1>1, <1>2 DEF TypeOK, Fates
<1>6. TypeOK'
  BY <1>0, <1>1, <1>3, <1>4, <1>5 DEF TypeOK
<1>7. ListIsQueue'
  <2>1. Queued' = {k} \cup Queued
    BY <1>0, <1>1, <1>2 DEF Queued, TypeOK
  <2> QED BY <1>0, <1>4, <2>1 DEF ListIsQueue
<1>8. CountAccounts'
  <2>1. Counted' = Counted
    BY <1>0, <1>1, <1>2 DEF Counted, TypeOK
  <2> QED BY <1>0, <1>1, <2>1 DEF CountAccounts
<1>9. Ownership'
  <2>1. /\ \A u \in Threads \ {t} : pc'[u] = pc[u] /\ cur'[u] = cur[u]
        /\ pc'[t] = "idle" /\ \A j \in Thunks \ {k} : fate'[j] = fate[j]
    BY <1>0, <1>1 DEF TypeOK, Leave, Goto
  <2>2. CurOwned'
    BY <1>0, <1>1, <1>2, <2>1 DEF Ownership, CurOwned, Executing, Disposing
  <2>3. \A u \in Threads : Range(held[u]) \subseteq Thunks
    BY <1>0 DEF TypeOK, Range
  <2>4. HeldOwned'
    BY <1>0, <1>1, <1>2, <2>1, <2>3 DEF Ownership, HeldOwned
  <2> QED BY <2>2, <2>4 DEF Ownership
<1> QED BY <1>6, <1>7, <1>8, <1>9 DEF Invariant

\* The decrement after the thunk has run.
LEMMA DecrementStep ==
    ASSUME Invariant, NEW t \in Threads, Decrement(t)
    PROVE  Invariant'
<1> USE DEF stateVars, cvVars, waitVars, barVars, localVars
<1>0. TypeOK /\ ListIsQueue /\ Ownership /\ CountAccounts
  BY DEF Invariant
<1> DEFINE k == cur[t]
<1>1. /\ pc[t] = "dec" /\ fate' = [fate EXCEPT ![k] = "expiring"]
      /\ count' = count - 1
      /\ UNCHANGED << list, tail, ready, stateVars, now, cvVars, op, cur, localVars >>
  BY DEF Decrement
<1>2. k \in Thunks /\ fate[k] = "flight"
  BY <1>0, <1>1 DEF Ownership, CurOwned, Executing
<1>3. PICK p \in {"zero", "delete"} : Goto(t, p)
  BY DEF Decrement, AfterDecrement
<1>4. pc' \in [Threads -> PCs]
  BY <1>0, <1>3, GotoFacts DEF PCs
<1>5. Counted' = Counted \ {k} /\ k \in Counted
  BY <1>0, <1>1, <1>2 DEF Counted, TypeOK
<1>6. CountAccounts' /\ count' \in Nat
  BY <1>0, <1>1, <1>5, CountedMinusOne
<1>7. fate' \in [Thunks -> Fates]
  BY <1>0, <1>1, <1>2 DEF TypeOK, Fates
<1>8. TypeOK'
  BY <1>0, <1>1, <1>4, <1>6, <1>7 DEF TypeOK
<1>9. ListIsQueue'
  BY <1>0, <1>1, <1>2 DEF ListIsQueue, Queued, TypeOK
<1>10. Ownership'
  <2>1. /\ \A u \in Threads \ {t} : pc'[u] = pc[u]
        /\ pc'[t] = p /\ fate'[k] = "expiring" /\ \A j \in Thunks \ {k} : fate'[j] = fate[j]
    BY <1>0, <1>1, <1>2, <1>3 DEF TypeOK, Goto
  <2>2. CurOwned'
    BY <1>0, <1>1, <1>2, <2>1 DEF Ownership, CurOwned, Executing, Disposing
  <2>3. \A u \in Threads : Range(held[u]) \subseteq Thunks
    BY <1>0 DEF TypeOK, Range
  <2>4. HeldOwned'
    BY <1>0, <1>1, <1>2, <2>1, <2>3 DEF Ownership, HeldOwned
  <2> QED BY <2>2, <2>4 DEF Ownership
<1> QED BY <1>6, <1>8, <1>9, <1>10 DEF Invariant

\* The destruction of a thunk that was dispatched.
LEMMA DeleteThunkStep ==
    ASSUME Invariant, NEW t \in Threads, DeleteThunk(t)
    PROVE  Invariant'
<1> USE DEF stateVars, cvVars, waitVars, barVars
<1>0. TypeOK /\ ListIsQueue /\ Ownership /\ CountAccounts
  BY DEF Invariant
<1> DEFINE k == cur[t]
<1>1. /\ pc[t] = "delete" /\ fate' = [fate EXCEPT ![k] = "done"]
      /\ cur' = [cur EXCEPT ![t] = NoThunk] /\ failed' = failed \ {t}
      /\ UNCHANGED << list, tail, ready, count, stateVars, now, cvVars, held, waitVars, barVars >>
  BY DEF DeleteThunk
<1>2. k \in Thunks /\ fate[k] = "expiring"
  BY <1>0, <1>1 DEF Ownership, CurOwned, Disposing
<1>3. /\ \/ Goto(t, "again") /\ UNCHANGED op
         \/ Leave(t)
  BY DEF DeleteThunk
<1>4. pc' \in [Threads -> PCs] /\ op' \in [Threads -> OpNames \cup {"none"}]
  <2>1. CASE Goto(t, "again") /\ UNCHANGED op
    BY <1>0, <2>1, GotoFacts DEF PCs, TypeOK
  <2>2. CASE Leave(t)
    BY <1>0, <2>2, LeaveFacts
  <2> QED BY <1>3, <2>1, <2>2
<1>5. fate' \in [Thunks -> Fates] /\ cur' \in [Threads -> Thunks \cup {NoThunk}]
  BY <1>0, <1>1, <1>2 DEF TypeOK, Fates
<1>6. TypeOK'
  BY <1>0, <1>1, <1>4, <1>5 DEF TypeOK
<1>7. ListIsQueue'
  BY <1>0, <1>1, <1>2 DEF ListIsQueue, Queued, TypeOK
<1>8. CountAccounts'
  <2>1. Counted' = Counted
    BY <1>0, <1>1, <1>2 DEF Counted, TypeOK
  <2> QED BY <1>0, <1>1, <2>1 DEF CountAccounts
<1>9. Ownership'
  <2>1. /\ \A u \in Threads \ {t} : pc'[u] = pc[u] /\ cur'[u] = cur[u]
        /\ pc'[t] \in {"again", "idle"} /\ \A j \in Thunks \ {k} : fate'[j] = fate[j]
    BY <1>0, <1>1, <1>3 DEF TypeOK, Leave, Goto
  <2>2. CurOwned'
    BY <1>0, <1>1, <1>2, <2>1 DEF Ownership, CurOwned, Executing, Disposing
  <2>3. \A u \in Threads : Range(held[u]) \subseteq Thunks
    BY <1>0 DEF TypeOK, Range
  <2>4. HeldOwned'
    BY <1>0, <1>1, <1>2, <2>1, <2>3 DEF Ownership, HeldOwned
  <2> QED BY <2>2, <2>4 DEF Ownership
<1> QED BY <1>6, <1>7, <1>8, <1>9 DEF Invariant

-----------------------------------------------------------------------------
(* Steps that clear the queue *)

\* Abort and Rundown take the whole list.
LEMMA ClearQueueStep ==
    ASSUME Invariant, NEW t \in Threads, ClearQueue(t)
    PROVE  Invariant'
<1> USE DEF cvVars, waitVars, barVars
<1>0. TypeOK /\ ListIsQueue /\ Ownership /\ CountAccounts
  BY DEF Invariant
<1>1. /\ aborted' = TRUE /\ cap' = 0 /\ held' = [held EXCEPT ![t] = list]
      /\ list' = << >> /\ tail' = NoThunk
      /\ fate' = [k \in Thunks |-> CASE fate[k] = "queued" -> "held"
                                     [] fate[k] = "delayed" -> "dropped"
                                     [] OTHER -> fate[k]]
      /\ ready' = [k \in Thunks |-> IF fate'[k] = "delayed" THEN ready[k] ELSE 0]
      /\ UNCHANGED << count, version, now, cvVars, cur, waitVars, barVars, failed >>
  BY DEF ClearQueue, ClearedCap, ClearedList, KeepReady
<1>2. PICK o \in { "Abort", "Rundown" }, p \in {"drain", "sweep"} : Call(t, o, p)
  BY DEF ClearQueue
<1>3. /\ pc' \in [Threads -> PCs] /\ op' \in [Threads -> OpNames \cup {"none"}] /\ QuietPC
  BY <1>0, <1>2, CallFacts DEF PCs, OpNames, Executing, Disposing
<1>4. \A k \in Thunks : /\ fate[k] = "queued" => fate'[k] = "held"
                        /\ fate[k] = "delayed" => fate'[k] = "dropped"
                        /\ fate[k] \notin {"queued", "delayed"} => fate'[k] = fate[k]
  BY <1>1
<1>5. fate' \in [Thunks -> Fates]
  <2>1. \A k \in Thunks : fate'[k] \in Fates
    BY <1>0, <1>4 DEF TypeOK, Fates
  <2> QED BY <1>1, <2>1
<1>6. ready' \in [Thunks -> Nat] /\ held' \in [Threads -> Seq(Thunks)] /\ list' \in Seq(Thunks)
  BY <1>0, <1>1, EmptySeq DEF TypeOK
<1>7. TypeOK'
  BY <1>0, <1>1, <1>3, <1>5, <1>6 DEF TypeOK
<1>8. ListIsQueue'
  <2>1. IsInjective(<< >>) /\ Range(<< >>) = {}
    BY DEF IsInjective, Range
  <2>2. Queued' = {}
    BY <1>0, <1>4 DEF Queued, TypeOK
  <2> QED BY <1>1, <2>1, <2>2 DEF ListIsQueue
<1>9. CountAccounts'
  <2>1. Counted' = Counted
    BY <1>4 DEF Counted
  <2> QED BY <1>0, <1>1, <2>1 DEF CountAccounts
<1>10. Ownership'
  <2>1. \A k \in Thunks : fate[k] \in Owned => fate'[k] = fate[k]
    BY <1>4 DEF Owned
  <2>2. CurOwned'
    BY <1>0, <1>1, <1>3, <2>1 DEF Ownership, CurOwned, Owned, QuietPC, Executing, Disposing
  <2>3. /\ \A u \in Threads : Range(held[u]) \subseteq Thunks
        /\ Range(list) \subseteq Thunks
    BY <1>0 DEF TypeOK, Range
  <2>4. /\ held'[t] = list /\ \A u \in Threads \ {t} : held'[u] = held[u]
        /\ \A u \in Threads : pc'[u] = "invoke" => u # t /\ pc[u] = "invoke"
    BY <1>0, <1>1, <1>2 DEF TypeOK, Call, Goto
  <2>5. /\ IsInjective(list)
        /\ \A k \in Range(list) : fate[k] = "queued" /\ fate'[k] = "held"
    BY <1>0, <1>4, <2>3 DEF ListIsQueue, Queued
  <2>6. \A u \in Threads : \A k \in Range(held[u]) : fate[k] = "held" /\ fate'[k] = "held"
    BY <1>0, <2>1, <2>3 DEF Ownership, HeldOwned, Owned
  <2>7. ASSUME NEW u \in Threads
        PROVE  /\ IsInjective(held'[u])
               /\ \A k \in Range(held'[u]) : fate'[k] = "held"
               /\ \A v \in Threads \ {u} : Range(held'[u]) \cap Range(held'[v]) = {}
               /\ pc'[u] = "invoke" => held'[u] # << >>
    <3>1. CASE u = t
      BY <2>4, <2>5, <2>6, <3>1
    <3>2. CASE u # t
      BY <1>0, <2>4, <2>5, <2>6, <3>2 DEF Ownership, HeldOwned
    <3> QED BY <3>1, <3>2
  <2>8. HeldOwned'
    BY <2>7 DEF HeldOwned
  <2> QED BY <2>2, <2>8 DEF Ownership
<1> QED BY <1>7, <1>8, <1>9, <1>10 DEF Invariant

\* Rundown invokes the first thunk it holds.
LEMMA DrainRunStep ==
    ASSUME Invariant, NEW t \in Threads, DrainRun(t)
    PROVE  Invariant'
<1> USE DEF stateVars, cvVars, waitVars
<1>0. TypeOK /\ ListIsQueue /\ Ownership /\ CountAccounts
  BY DEF Invariant
<1>1. /\ pc[t] = "invoke"
      /\ UNCHANGED << list, tail, ready, stateVars, now, cvVars, op, cur, waitVars,
                      bar, ahead, lambda, failed >>
      /\ complete' = [u \in Threads |-> complete[u] \/ bar[u] = Head(held[t])]
  BY DEF DrainRun, SetComplete
<1>2. PICK o \in OutcomesOf(Head(held[t])) :
        /\ Goto(t, AfterInvoke(o))
        /\ IF o = "return"
           THEN /\ held' = [held EXCEPT ![t] = Tail(@)]
                /\ fate' = [fate EXCEPT ![Head(held[t])] = "done"]
                /\ count' = count - 1
           ELSE UNCHANGED << held, fate, count >>
  BY DEF DrainRun
<1>3. PICK p \in {"sweep", "drain"} : Goto(t, p)
  BY <1>2 DEF AfterInvoke
<1>4. pc' \in [Threads -> PCs] /\ QuietPC
  BY <1>0, <1>3, GotoFacts DEF PCs, Executing, Disposing
<1>5. complete' \in [Threads -> BOOLEAN]
  BY <1>1, Zenon
<1>6. CASE UNCHANGED << held, fate, count >>
  <2>1. TypeOK'
    BY <1>0, <1>1, <1>4, <1>5, <1>6 DEF TypeOK
  <2> QED BY <1>1, <1>4, <1>6, <2>1, QuietInvariant
<1>7. CASE /\ held' = [held EXCEPT ![t] = Tail(@)]
           /\ fate' = [fate EXCEPT ![Head(held[t])] = "done"]
           /\ count' = count - 1
  <2> DEFINE h == held[t]
             k == Head(h)
  <2>1. h \in Seq(Thunks) /\ h # << >> /\ IsInjective(h) /\ \A j \in Range(h) : fate[j] = "held"
    BY <1>0, <1>1 DEF TypeOK, Ownership, HeldOwned
  <2>2. /\ Tail(h) \in Seq(Thunks) /\ IsInjective(Tail(h)) /\ Head(h) \in Range(h)
        /\ Range(Tail(h)) = Range(h) \ {Head(h)}
    BY <2>1, TailFacts
  <2>3. k \in Thunks /\ fate[k] = "held"
    BY <2>1, <2>2 DEF Range
  <2>4. /\ held' \in [Threads -> Seq(Thunks)] /\ held'[t] = Tail(h)
        /\ \A u \in Threads \ {t} : held'[u] = held[u]
    BY <1>0, <1>7, <2>2 DEF TypeOK
  <2>5. /\ fate' \in [Thunks -> Fates] /\ fate'[k] = "done"
        /\ \A j \in Thunks \ {k} : fate'[j] = fate[j]
    BY <1>0, <1>7, <2>3 DEF TypeOK, Fates
  <2>6. Counted' = Counted \ {k} /\ k \in Counted
    BY <2>3, <2>5 DEF Counted
  <2>7. CountAccounts' /\ count' \in Nat
    BY <1>0, <1>7, <2>6, CountedMinusOne
  <2>8. TypeOK'
    BY <1>0, <1>1, <1>4, <1>5, <2>4, <2>5, <2>7 DEF TypeOK
  <2>9. ListIsQueue'
    <3>1. Queued' = Queued
      BY <2>3, <2>5 DEF Queued
    <3> QED BY <1>0, <1>1, <3>1 DEF ListIsQueue
  <2>10. CurOwned'
    BY <1>0, <1>1, <1>4, <2>3, <2>5 DEF Ownership, CurOwned, QuietPC, Executing, Disposing
  <2>11. \A u \in Threads : Range(held[u]) \subseteq Thunks
    BY <1>0 DEF TypeOK, Range
  <2>12. /\ pc'[t] # "invoke" /\ \A u \in Threads \ {t} : pc'[u] = pc[u]
    BY <1>0, <1>3 DEF TypeOK, Goto
  <2>13. \A u \in Threads \ {t} : k \notin Range(held[u])
    BY <1>0, <2>2 DEF Ownership, HeldOwned
  <2>14. ASSUME NEW u \in Threads
         PROVE  /\ IsInjective(held'[u])
                /\ \A j \in Range(held'[u]) : fate'[j] = "held"
                /\ \A v \in Threads \ {u} : Range(held'[u]) \cap Range(held'[v]) = {}
                /\ pc'[u] = "invoke" => held'[u] # << >>
    <3>1. \A v \in Threads : Range(held'[v]) \subseteq Range(held[v]) \ {k}
      BY <2>2, <2>4, <2>13
    <3>2. \A j \in Range(held'[u]) : fate'[j] = "held"
      BY <1>0, <2>5, <2>11, <3>1 DEF Ownership, HeldOwned
    <3>3. \A v \in Threads \ {u} : Range(held'[u]) \cap Range(held'[v]) = {}
      BY <1>0, <3>1 DEF Ownership, HeldOwned
    <3>4. IsInjective(held'[u]) /\ (pc'[u] = "invoke" => held'[u] # << >>)
      BY <1>0, <2>2, <2>4, <2>12 DEF Ownership, HeldOwned
    <3> QED BY <3>2, <3>3, <3>4
  <2>15. HeldOwned'
    BY <2>14 DEF HeldOwned
  <2> QED BY <2>7, <2>8, <2>9, <2>10, <2>15 DEF Invariant, Ownership
<1> QED BY <1>2, <1>6, <1>7

\* What is left of the list is destroyed, and the count lowered accordingly.
LEMMA SweepStep ==
    ASSUME Invariant, NEW t \in Threads, Sweep(t)
    PROVE  Invariant'
<1> USE DEF stateVars, cvVars, waitVars, barVars
<1>0. TypeOK /\ ListIsQueue /\ Ownership /\ CountAccounts
  BY DEF Invariant
<1> DEFINE h == held[t]
<1>1. /\ fate' = [k \in Thunks |-> IF k \in Range(h) THEN "dropped" ELSE fate[k]]
      /\ count' = count - Len(h) /\ held' = [held EXCEPT ![t] = << >>]
      /\ Goto(t, "notify")
      /\ UNCHANGED << list, tail, ready, stateVars, now, cvVars, op, cur, waitVars,
                      barVars, failed >>
  BY DEF Sweep
<1>2. pc' \in [Threads -> PCs] /\ QuietPC
  BY <1>0, <1>1, GotoFacts DEF PCs, Executing, Disposing
<1>3. h \in Seq(Thunks) /\ IsInjective(h) /\ \A j \in Range(h) : fate[j] = "held"
  BY <1>0 DEF TypeOK, Ownership, HeldOwned
<1>4. Range(h) \subseteq Thunks
  BY <1>3 DEF Range
<1>5. /\ fate' \in [Thunks -> Fates]
      /\ \A k \in Range(h) : fate'[k] = "dropped"
      /\ \A k \in Thunks \ Range(h) : fate'[k] = fate[k]
  BY <1>0, <1>1, <1>4 DEF TypeOK, Fates
<1>6. CountAccounts' /\ count' \in Nat
  <2>1. Counted' = Counted \ Range(h) /\ Range(h) \subseteq Counted
    BY <1>3, <1>4, <1>5 DEF Counted
  <2>2. Cardinality(Range(h)) = Len(h) /\ Len(h) \in Nat
    BY <1>3, LenIsCardinality
  <2>3. IsFiniteSet(Counted)
    BY FS_Subset, ConstantsAssumption DEF Counted
  <2>4. IsFiniteSet(Counted \ Range(h))
        /\ Cardinality(Counted \ Range(h))
               = Cardinality(Counted) - Cardinality(Counted \cap Range(h))
    BY <2>3, FS_Difference
  <2>5. Counted \cap Range(h) = Range(h)
    BY <2>1
  <2>6. Cardinality(Counted \ Range(h)) \in Nat
    BY <2>4, FS_CardinalityType
  <2> QED BY <1>0, <1>1, <2>1, <2>2, <2>4, <2>5, <2>6 DEF CountAccounts
<1>7. held' \in [Threads -> Seq(Thunks)] /\ held'[t] = << >>
      /\ \A u \in Threads \ {t} : held'[u] = held[u]
  BY <1>0, <1>1, EmptySeq DEF TypeOK
<1>8. TypeOK'
  BY <1>0, <1>1, <1>2, <1>5, <1>6, <1>7 DEF TypeOK
<1>9. ListIsQueue'
  <2>1. Queued' = Queued
    BY <1>3, <1>4, <1>5 DEF Queued
  <2> QED BY <1>0, <1>1, <2>1 DEF ListIsQueue
<1>10. CurOwned'
  BY <1>0, <1>1, <1>2, <1>3, <1>5 DEF Ownership, CurOwned, QuietPC, Executing, Disposing
<1>11. HeldOwned'
  <2>1. IsInjective(<< >>) /\ Range(<< >>) = {}
    BY DEF IsInjective, Range
  <2>2. pc'[t] # "invoke" /\ \A u \in Threads \ {t} : pc'[u] = pc[u]
    BY <1>0, <1>1 DEF TypeOK, Goto
  <2>3. \A u \in Threads : Range(held[u]) \subseteq Thunks
    BY <1>0 DEF TypeOK, Range
  <2>4. \A u \in Threads \ {t} : Range(held[u]) \cap Range(h) = {}
    BY <1>0 DEF Ownership, HeldOwned
  <2>5. ASSUME NEW u \in Threads
        PROVE  /\ IsInjective(held'[u])
               /\ \A k \in Range(held'[u]) : fate'[k] = "held"
               /\ \A v \in Threads \ {u} : Range(held'[u]) \cap Range(held'[v]) = {}
               /\ pc'[u] = "invoke" => held'[u] # << >>
    <3>1. CASE u = t
      BY <1>7, <2>1, <2>2, <3>1
    <3>2. CASE u # t
      <4>1. \A k \in Range(held'[u]) : fate'[k] = "held"
        BY <1>0, <1>5, <1>7, <2>3, <2>4, <3>2 DEF Ownership, HeldOwned
      <4>2. \A v \in Threads \ {u} : Range(held'[u]) \cap Range(held'[v]) = {}
        BY <1>0, <1>7, <2>1, <3>2 DEF Ownership, HeldOwned
      <4> QED BY <1>0, <1>7, <2>2, <3>2, <4>1, <4>2 DEF Ownership, HeldOwned
    <3> QED BY <3>1, <3>2
  <2> QED BY <2>5 DEF HeldOwned
<1> QED BY <1>6, <1>8, <1>9, <1>10, <1>11 DEF Invariant, Ownership

\* Cancel takes one thunk off the list, or one delayed thunk, or nothing.
LEMMA CancelStep ==
    ASSUME Invariant, NEW t \in Threads, Cancel(t)
    PROVE  Invariant'
<1> USE DEF stateVars, cvVars, waitVars, barVars, localVars
<1>0. TypeOK /\ ListIsQueue /\ Ownership /\ CountAccounts
  BY DEF Invariant
<1>1. /\ Call(t, "Cancel", "idle")
      /\ ready' = [k \in Thunks |-> IF fate'[k] = "delayed" THEN ready[k] ELSE 0]
      /\ UNCHANGED << tail, stateVars, now, cvVars, cur, localVars >>
  BY DEF Cancel, KeepReady
<1>2. /\ pc' \in [Threads -> PCs] /\ op' \in [Threads -> OpNames \cup {"none"}] /\ QuietPC
  BY <1>0, <1>1, CallFacts DEF PCs, OpNames, Executing, Disposing
<1>3. ready' \in [Thunks -> Nat]
  BY <1>0, <1>1 DEF TypeOK
<1>4. CASE /\ list # << >> /\ list' = Tail(list)
           /\ fate' = [fate EXCEPT ![Head(list)] = "dropped"]
           /\ count' = count - 1
  <2>1. /\ Tail(list) \in Seq(Thunks) /\ IsInjective(Tail(list)) /\ Head(list) \in Range(list)
        /\ Range(Tail(list)) = Range(list) \ {Head(list)}
    BY <1>0, <1>4, TailFacts DEF TypeOK, ListIsQueue
  <2>2. Head(list) \in Thunks /\ fate[Head(list)] = "queued"
    BY <1>0, <2>1 DEF ListIsQueue, Queued
  <2>3. /\ fate' \in [Thunks -> Fates] /\ fate'[Head(list)] = "dropped"
        /\ \A k \in Thunks \ {Head(list)} : fate'[k] = fate[k]
    BY <1>0, <1>4, <2>2 DEF TypeOK, Fates
  <2>4. Counted' = Counted \ {Head(list)} /\ Head(list) \in Counted
    BY <2>2, <2>3 DEF Counted
  <2>5. CountAccounts' /\ count' \in Nat
    BY <1>0, <1>4, <2>4, CountedMinusOne
  <2>6. TypeOK'
    BY <1>0, <1>1, <1>2, <1>3, <1>4, <2>1, <2>3, <2>5 DEF TypeOK
  <2>7. ListIsQueue'
    <3>1. Queued' = Queued \ {Head(list)}
      BY <2>2, <2>3 DEF Queued
    <3> QED BY <1>0, <1>4, <2>1, <3>1 DEF ListIsQueue
  <2>8. SameOwned(fate, fate')
    BY <2>2, <2>3 DEF SameOwned, Owned
  <2>9. Ownership'
    BY <1>0, <1>1, <1>2, <2>8, OwnershipQuiet
  <2> QED BY <2>5, <2>6, <2>7, <2>9 DEF Invariant
<1>5. CASE /\ UNCHANGED << list, count >>
           /\ \/ UNCHANGED fate
              \/ \E k \in Delayed : fate' = [fate EXCEPT ![k] = "dropped"]
  <2>1. fate' \in [Thunks -> Fates] /\ InertChange(fate, fate')
    <3>1. CASE UNCHANGED fate
      BY <1>0, <3>1 DEF TypeOK, InertChange
    <3>2. CASE \E k \in Delayed : fate' = [fate EXCEPT ![k] = "dropped"]
      BY <1>0, <3>2 DEF TypeOK, InertChange, Inert, Delayed, Fates
    <3> QED BY <1>5, <3>1, <3>2
  <2>2. TypeOK'
    BY <1>0, <1>1, <1>2, <1>3, <1>5, <2>1 DEF TypeOK
  <2> QED BY <1>1, <1>2, <1>5, <2>1, <2>2, InertInvariant
<1> QED BY <1>4, <1>5 DEF Cancel

\* Time passes.
LEMMA TickStep ==
    ASSUME Invariant, Tick
    PROVE  Invariant'
<1>1. now' = now + 1
      /\ UNCHANGED << listVars, stateVars, cvVars, pc, op, cur, localVars >>
  BY DEF Tick
<1>2. TypeOK'
  BY <1>1 DEF Invariant, TypeOK, listVars, stateVars, cvVars, waitVars, barVars, localVars
<1>3. QuietPC
  BY <1>1 DEF QuietPC
<1> QED BY <1>1, <1>2, <1>3, QuietInvariant DEF listVars, localVars

-----------------------------------------------------------------------------
(* The theorems *)

\* Every step of every thread keeps the invariant.
LEMMA NextInvariant == Invariant /\ [Next]_vars => Invariant'
<1> SUFFICES ASSUME Invariant, [Next]_vars PROVE Invariant'
  OBVIOUS
<1>1. ASSUME NEW t \in Threads, Request(t) PROVE Invariant'
  BY <1>1, AddSteps, AppendStep, QuietSteps, WaitForEventUntilStep, ClearQueueStep, CancelStep
  DEF Request
<1>2. ASSUME NEW t \in Threads, Continue(t) PROVE Invariant'
  BY <1>2, QuietSteps, PutBackStep, DecrementStep, DeleteThunkStep, WaitPredicateStep,
     TimedWakeStep, DrainRunStep, SweepStep
  DEF Continue
<1>3. ASSUME NEW t \in Threads, Dispatch(t) PROVE Invariant'
  BY <1>3, DispatchStep
<1>4. ASSUME NEW t \in Threads, SpuriousWake(t) PROVE Invariant'
  BY <1>4, QuietSteps
<1>5. CASE Tick
  BY <1>5, TickStep
<1>6. CASE UNCHANGED vars
  <2>1. UNCHANGED << listVars, stateVars, now, cvVars, pc, op, cur, localVars >>
    BY <1>6 DEF vars
  <2>2. TypeOK'
    BY <2>1 DEF Invariant, TypeOK, listVars, stateVars, cvVars, waitVars, barVars, localVars
  <2>3. QuietPC
    BY <2>1 DEF QuietPC
  <2> QED BY <2>1, <2>2, <2>3, QuietInvariant DEF listVars, localVars
<1> QED BY <1>1, <1>2, <1>3, <1>4, <1>5, <1>6 DEF Next

\* The inductive invariant holds in every reachable state of the queue.
THEOREM InvariantHolds == Spec => []Invariant
<1>1. Init => Invariant
  BY InitInvariant
<1>2. Invariant /\ [Next]_vars => Invariant'
  BY NextInvariant
<1> QED BY <1>1, <1>2, PTL DEF Spec

\* Type correctness: in particular m_count, an unsigned counter decremented
\* outside the lock, never passes below zero.
THEOREM TypeCorrect == Spec => []TypeOK
<1>1. Invariant => TypeOK
  BY DEF Invariant
<1> QED BY <1>1, InvariantHolds, PTL

\* m_count is exact after every step of every interleaving of Pend, dispatch,
\* put-back, Cancel, Abort, Rundown, append and promotion.
THEOREM CountIsExact == Spec => []CountAccounts
<1>1. Invariant => CountAccounts
  BY DEF Invariant
<1> QED BY <1>1, InvariantHolds, PTL

\* The list reachable from m_pHead holds exactly the thunks the queue owns, each
\* once, even when m_pTail dangles.
THEOREM ListHoldsQueue == Spec => []ListIsQueue
<1>1. Invariant => ListIsQueue
  BY DEF Invariant
<1> QED BY <1>1, InvariantHolds, PTL

\* No two threads ever run, put back or delete the same thunk.
THEOREM OneOwner == Spec => []Ownership
<1>1. Invariant => Ownership
  BY DEF Invariant
<1> QED BY <1>1, InvariantHolds, PTL

-----------------------------------------------------------------------------
(* What any step does to the thunks, and to the order they are in *)

\* k stands before b on the list l.
Before(l, k, b) == \E i, j \in DOMAIN l : i < j /\ l[i] = k /\ l[j] = b

\* What a step may make of a thunk.
Moves == { << "new", "queued" >>, << "new", "delayed" >>, << "new", "dropped" >>, << "new", "lost" >>,
           << "queued", "flight" >>, << "queued", "held" >>, << "queued", "dropped" >>,
           << "queued", "lost" >>,
           << "delayed", "queued" >>, << "delayed", "flight" >>, << "delayed", "dropped" >>,
           << "delayed", "lost" >>,
           << "flight", "expiring" >>, << "expiring", "done" >>,
           << "held", "done" >>, << "held", "dropped" >> }

Returns(k) == fate[k] = "flight" /\ fate'[k] = "queued" /\ \E t \in Threads : pc[t] = "putback"

FatesMove ==
    \A k \in Thunks : fate'[k] = fate[k] \/ << fate[k], fate'[k] >> \in Moves \/ Returns(k)

\* The thunk is popped, or its invocation ends.
Switches(k) == fate'[k] # fate[k] /\ (fate[k] = "flight" \/ fate'[k] = "flight")

OneSwitches == \A j, k \in Thunks : Switches(j) /\ Switches(k) => j = k

\* Thunks leave the list from its front or all together, and stay in order.
ListInOrder ==
    \A k, b \in Thunks : Before(list, k, b) =>
        /\ fate'[b] # "flight"
        /\ fate'[k] = "queued" /\ fate'[b] = "queued" => Before(list', k, b)
        /\ fate'[b] = "held" \/ fate'[k] = "held"
             => /\ fate'[b] = "held" /\ fate'[k] = "held"
                /\ \E u \in Threads : Before(held'[u], k, b)

\* So do those that Abort or Rundown has taken.
HeldInOrder ==
    \A u \in Threads, k, b \in Thunks : Before(held[u], k, b) =>
        /\ fate'[b] # "done"
        /\ fate'[k] = "held" /\ fate'[b] = "held" => Before(held'[u], k, b)

\* Rundown is invoking k.
Invoked(k) == \E t \in Threads : pc[t] = "invoke" /\ Head(held[t]) = k

\* Of those, the one that is invoked may end, the others may be destroyed.
HeldEnds ==
    \A k \in Thunks : fate[k] = "held" /\ fate'[k] # "held"
                       => fate'[k] = IF Invoked(k) THEN "done" ELSE "dropped"

Lawful == FatesMove /\ OneSwitches /\ ListInOrder /\ HeldInOrder /\ HeldEnds

\* What stands before something on a list is on it, and so is that.
LEMMA BeforeIn ==
    ASSUME NEW l, NEW k, NEW b, Before(l, k, b)
    PROVE  k \in Range(l) /\ b \in Range(l)
  BY DEF Before, Range

\* Taking the first thunk off a list leaves the order of the others.
LEMMA BeforeTail ==
    ASSUME NEW S, NEW l \in Seq(S), l # << >>, IsInjective(l), NEW k, NEW b, Before(l, k, b)
    PROVE  b # Head(l) /\ (k # Head(l) => Before(Tail(l), k, b))
<1>1. /\ Head(l) = l[1] /\ Len(l) \in Nat /\ Len(l) >= 1 /\ DOMAIN l = 1 .. Len(l)
      /\ DOMAIN Tail(l) = 1 .. Len(l) - 1
      /\ \A i \in 1 .. Len(l) - 1 : Tail(l)[i] = l[i + 1]
  BY HeadTailProperties, EmptySeq, LenProperties
<1>2. PICK i, j \in 1 .. Len(l) : i < j /\ l[i] = k /\ l[j] = b
  BY <1>1 DEF Before
<1>3. b # Head(l)
  BY <1>1, <1>2 DEF IsInjective
<1>4. ASSUME k # Head(l) PROVE Before(Tail(l), k, b)
  <2>1. i # 1
    BY <1>1, <1>2, <1>4
  <2>2. i - 1 \in DOMAIN Tail(l) /\ j - 1 \in DOMAIN Tail(l) /\ i - 1 < j - 1
    BY <1>1, <1>2, <2>1
  <2>3. Tail(l)[i - 1] = k /\ Tail(l)[j - 1] = b
    BY <1>1, <1>2, <2>1
  <2> QED BY <2>2, <2>3 DEF Before
<1> QED BY <1>3, <1>4

\* So does hanging another list behind it.
LEMMA BeforeConcat ==
    ASSUME NEW S, NEW l \in Seq(S), NEW s \in Seq(S), NEW k, NEW b, Before(l, k, b)
    PROVE  Before(l \o s, k, b) /\ Before(s \o l, k, b)
<1>1. /\ DOMAIN l = 1 .. Len(l) /\ DOMAIN s = 1 .. Len(s)
      /\ Len(l) \in Nat /\ Len(s) \in Nat
      /\ DOMAIN (l \o s) = 1 .. Len(l) + Len(s)
      /\ \A i \in 1 .. Len(l) + Len(s) :
            (l \o s)[i] = IF i <= Len(l) THEN l[i] ELSE s[i - Len(l)]
      /\ DOMAIN (s \o l) = 1 .. Len(s) + Len(l)
      /\ \A i \in 1 .. Len(s) + Len(l) :
            (s \o l)[i] = IF i <= Len(s) THEN s[i] ELSE l[i - Len(s)]
  BY ConcatProperties, LenProperties
<1> DEFINE c == l \o s
           d == s \o l
<1> HIDE DEF c, d
<1>2. PICK i, j \in 1 .. Len(l) : i < j /\ l[i] = k /\ l[j] = b
  BY <1>1 DEF Before
<1>3. i \in DOMAIN c /\ j \in DOMAIN c /\ c[i] = k /\ c[j] = b
  BY <1>1, <1>2 DEF c
<1>4. /\ i + Len(s) \in DOMAIN d /\ j + Len(s) \in DOMAIN d /\ i + Len(s) < j + Len(s)
      /\ d[i + Len(s)] = k /\ d[j + Len(s)] = b
  BY <1>1, <1>2 DEF d
<1> QED BY <1>2, <1>3, <1>4 DEF Before, c, d

\* Cutting a list off after one of its thunks.
LEMMA PrefixElements ==
    ASSUME NEW S, NEW s \in Seq(S), NEW n \in DOMAIN s
    PROVE  /\ n \in Nat /\ DOMAIN SubSeq(s, 1, n) = 1 .. n
           /\ \A i \in 1 .. n : SubSeq(s, 1, n)[i] = s[i]
<1>1. /\ Len(s) \in Nat /\ DOMAIN s = 1 .. Len(s)
      /\ \A i \in 1 .. n : s[i] \in S /\ i \in DOMAIN s
  BY LenProperties
<1>2. n \in Int /\ 1 \in Int /\ n >= 1
  BY <1>1
<1>3. /\ SubSeq(s, 1, n) \in Seq(S)
      /\ Len(SubSeq(s, 1, n)) = IF 1 <= n THEN n - 1 + 1 ELSE 0
      /\ \A i \in 1 .. n - 1 + 1 : SubSeq(s, 1, n)[i] = s[1 + i - 1]
  BY <1>1, <1>2, SubSeqProperties
<1> QED BY <1>2, <1>3, LenProperties

\* What is linked stays behind what was there.
LEMMA BeforeLinked ==
    ASSUME TypeOK, ListIsQueue, NEW s, IsChain(s), NEW k, NEW b, Before(list, k, b),
           b \in Range(Linked(s))
    PROVE  Before(Linked(s), k, b)
<1>0. Range(s) \cap Range(list) = {} /\ b \in Range(list) /\ list \in Seq(Thunks) /\ s \in Seq(Thunks)
  BY BeforeIn DEF ListIsQueue, IsChain, Queued, TypeOK
<1>1. CASE list = << >>
  BY <1>1, <1>0 DEF Linked
<1>2. CASE list # << >> /\ ~ \E i \in DOMAIN list : list[i] = tail
  BY <1>2 DEF Linked
<1>3. CASE list # << >> /\ \E i \in DOMAIN list : list[i] = tail
  <2> DEFINE n == CHOOSE i \in DOMAIN list : list[i] = tail
             p == SubSeq(list, 1, n)
  <2>1. n \in DOMAIN list
    BY <1>3
  <2>2. p \in Seq(Thunks) /\ IsInjective(p) /\ Range(p) \subseteq Range(list)
    BY <2>1, PrefixFacts DEF TypeOK, ListIsQueue
  <2>3. Linked(s) = p \o s
    BY <1>3 DEF Linked
  <2>4. /\ Len(list) \in Nat /\ DOMAIN list = 1 .. Len(list) /\ n \in Nat
        /\ DOMAIN p = 1 .. n /\ \A i \in 1 .. n : p[i] = list[i]
    BY <1>0, <2>1, PrefixElements, LenProperties
  <2> HIDE DEF p, n
  <2>5. b \in Range(p)
    BY <1>0, <2>2, <2>3, ConcatFacts DEF IsChain
  <2>6. PICK i, j \in 1 .. Len(list) : i < j /\ list[i] = k /\ list[j] = b
    BY <2>4 DEF Before
  <2>7. j <= n
    <3>1. PICK m \in 1 .. n : p[m] = b
      BY <2>4, <2>5 DEF Range
    <3>2. m \in DOMAIN list /\ list[m] = list[j]
      BY <2>1, <2>4, <2>6, <3>1
    <3> QED BY <2>4, <2>6, <3>1, <3>2 DEF ListIsQueue, IsInjective
  <2>8. i \in DOMAIN p /\ j \in DOMAIN p /\ p[i] = k /\ p[j] = b
    BY <2>4, <2>6, <2>7
  <2>9. Before(p, k, b)
    BY <2>6, <2>8 DEF Before
  <2> QED BY <1>0, <2>2, <2>3, <2>9, BeforeConcat
<1> QED BY <1>1, <1>2, <1>3

\* Linking leaves something on the list.
LEMMA LinkedNotEmpty ==
    ASSUME TypeOK, ListIsQueue, NEW s, IsChain(s), Range(s) # {}
    PROVE  Linked(s) # << >>
<1>1. s # << >> /\ s \in Seq(Thunks)
  BY DEF Range, IsChain
<1>2. Len(s) \in Nat /\ Len(s) >= 1
  BY <1>1, LenProperties, EmptySeq
<1>3. CASE list = << >>
  BY <1>1, <1>3 DEF Linked
<1>4. CASE list # << >> /\ ~ \E i \in DOMAIN list : list[i] = tail
  BY <1>4 DEF Linked
<1>5. CASE list # << >> /\ \E i \in DOMAIN list : list[i] = tail
  <2> DEFINE n == CHOOSE i \in DOMAIN list : list[i] = tail
             p == SubSeq(list, 1, n)
  <2>1. n \in DOMAIN list
    BY <1>5
  <2>2. p \in Seq(Thunks)
    BY <2>1, PrefixFacts DEF TypeOK, ListIsQueue
  <2>3. Linked(s) = p \o s
    BY <1>5 DEF Linked
  <2> HIDE DEF p
  <2>4. Len(p \o s) = Len(p) + Len(s) /\ Len(p) \in Nat
    BY <1>1, <2>2, ConcatProperties, LenProperties
  <2> QED BY <1>2, <2>3, <2>4
<1> QED BY <1>3, <1>4, <1>5

\* What is on a list is a thunk in the state the list says.
LEMMA ListMembers ==
    ASSUME Invariant
    PROVE  /\ list \in Seq(Thunks) /\ IsInjective(list) /\ fate \in [Thunks -> Fates]
           /\ \A k \in Thunks : k \in Range(list) <=> fate[k] = "queued"
           /\ \A u \in Threads : /\ held[u] \in Seq(Thunks) /\ IsInjective(held[u])
                                 /\ \A k \in Range(held[u]) : k \in Thunks /\ fate[k] = "held"
<1>1. \A u \in Threads : held[u] \in Seq(Thunks)
  BY DEF Invariant, TypeOK
<1>2. \A u \in Threads : Range(held[u]) \subseteq Thunks
  BY <1>1 DEF Range
<1> QED BY <1>1, <1>2 DEF Invariant, TypeOK, ListIsQueue, Queued, Ownership, HeldOwned

\* A step that leaves the thunks alone.
LEMMA StayLawful ==
    ASSUME Invariant, UNCHANGED << list, fate, held >>
    PROVE  Lawful
<1>1. \A k, b \in Thunks : Before(list, k, b) => fate[b] = "queued" /\ fate[k] = "queued"
  BY ListMembers, BeforeIn
<1>2. \A u \in Threads, k, b \in Thunks : Before(held[u], k, b) => fate[b] = "held"
  BY ListMembers, BeforeIn
<1>3. FatesMove /\ OneSwitches
  BY DEF FatesMove, OneSwitches, Switches
<1>4. ListInOrder
  BY <1>1 DEF ListInOrder
<1>5. HeldInOrder /\ HeldEnds
  BY <1>2 DEF HeldInOrder, HeldEnds
<1> QED BY <1>3, <1>4, <1>5 DEF Lawful

\* One thunk changes that is neither on the list nor taken.
LEMMA AsideLawful ==
    ASSUME Invariant, UNCHANGED << list, held >>, NEW c \in Thunks,
           \A k \in Thunks \ {c} : fate'[k] = fate[k],
           << fate[c], fate'[c] >> \in { << "new", "delayed" >>, << "new", "dropped" >>,
                                         << "delayed", "dropped" >>, << "flight", "expiring" >>,
                                         << "expiring", "done" >> }
    PROVE  Lawful
<1>1. \A k, b \in Thunks : Before(list, k, b) => fate[b] = "queued" /\ fate[k] = "queued" /\ b # c /\ k # c
  BY ListMembers, BeforeIn
<1>2. \A u \in Threads, k, b \in Thunks : Before(held[u], k, b) => fate[b] = "held" /\ b # c
  BY ListMembers, BeforeIn
<1>3. FatesMove
  BY DEF FatesMove, Moves
<1>4. OneSwitches
  BY DEF OneSwitches, Switches
<1>5. ListInOrder
  BY <1>1 DEF ListInOrder
<1>6. HeldInOrder /\ HeldEnds
  BY <1>2 DEF HeldInOrder, HeldEnds
<1> QED BY <1>3, <1>4, <1>5, <1>6 DEF Lawful

\* What linking makes of the thunks.
LEMMA LinkedMoves ==
    ASSUME Invariant, NEW s, IsChain(s)
    PROVE  \A k \in Thunks :
              /\ fate[k] = "queued" => LinkedFate(s)[k] \in {"queued", "lost"}
              /\ k \in Range(s) => LinkedFate(s)[k] \in {"queued", "lost"}
              /\ fate[k] # "queued" /\ k \notin Range(s) => LinkedFate(s)[k] = fate[k]
              /\ k \in Range(Linked(s)) <=> LinkedFate(s)[k] = "queued"
<1>1. TypeOK /\ ListIsQueue /\ CountAccounts
  BY DEF Invariant
<1>2. Range(Linked(s)) \subseteq Range(list) \cup Range(s)
  BY <1>1, LinkedFacts
<1>3. \A k \in Thunks : k \in Range(list) <=> fate[k] = "queued"
  BY ListMembers
<1>4. \A k \in Thunks : LinkedFate(s)[k] = IF k \in Range(Linked(s)) THEN "queued"
                               ELSE IF k \in Range(list) \cup Range(s) THEN "lost"
                               ELSE fate[k]
  BY DEF LinkedFate
<1> QED BY <1>2, <1>3, <1>4

\* New thunks are linked, and others are delayed.
LEMMA LinkLawful ==
    ASSUME Invariant, NEW s, IsChain(s), NEW D,
           \A k \in Range(s) : fate[k] = "new",
           \A k \in D : fate[k] = "new" /\ k \notin Range(s),
           list' = Linked(s), held' = held,
           \A k \in Thunks : fate'[k] = IF k \in D THEN "delayed" ELSE LinkedFate(s)[k]
    PROVE  Lawful
<1>0. TypeOK /\ ListIsQueue
  BY DEF Invariant
<1>1. \A k, b \in Thunks : Before(list, k, b) => fate[b] = "queued" /\ fate[k] = "queued"
  BY ListMembers, BeforeIn
<1>2. \A u \in Threads, k, b \in Thunks : Before(held[u], k, b) => fate[b] = "held"
  BY ListMembers, BeforeIn
<1>3. \A k \in Thunks :
         /\ fate[k] = "queued" => fate'[k] \in {"queued", "lost"}
         /\ fate[k] = "new" => fate'[k] \in {"queued", "lost", "delayed", "new"}
         /\ fate[k] \notin {"new", "queued"} => fate'[k] = fate[k]
         /\ fate'[k] = "queued" => k \in Range(Linked(s))
  BY LinkedMoves
<1>4. FatesMove
  BY <1>3 DEF FatesMove, Moves
<1>5. OneSwitches
  BY <1>3 DEF OneSwitches, Switches
<1>6. ListInOrder
  <2>1. \A k, b \in Thunks : Before(list, k, b) /\ b \in Range(Linked(s)) => Before(Linked(s), k, b)
    BY <1>0, BeforeLinked
  <2> QED BY <1>1, <1>3, <2>1 DEF ListInOrder
<1>7. HeldInOrder /\ HeldEnds
  BY <1>2, <1>3 DEF HeldInOrder, HeldEnds
<1> QED BY <1>4, <1>5, <1>6, <1>7 DEF Lawful

\* The head of l is popped, l being the list or what promotion has made of it.
LEMMA PopLawful ==
    ASSUME Invariant, NEW t \in Threads, NEW l \in Seq(Thunks), l # << >>, IsInjective(l),
           NEW f \in [Thunks -> Fates], Pop(t, l, f), held' = held,
           \A k \in Thunks :
               /\ fate[k] = "queued" => f[k] \in {"queued", "lost"}
               /\ fate[k] = "delayed" => f[k] \in {"delayed", "queued", "lost"}
               /\ fate[k] \notin {"queued", "delayed"} => f[k] = fate[k]
               /\ k \in Range(l) <=> f[k] = "queued",
           \A k, b \in Thunks : Before(list, k, b) /\ b \in Range(l) => Before(l, k, b)
    PROVE  Lawful
<1> DEFINE h == Head(l)
<1>1. h \in Range(l)
  BY TailFacts
<1>a. h \in Thunks /\ f[h] = "queued"
  BY <1>1 DEF Range
<1>2. \A k \in Thunks : fate'[k] = IF k = h THEN "flight" ELSE f[k]
  BY DEF Pop
<1>3. list' = Tail(l)
  BY DEF Pop, Rest
<1> HIDE DEF h
<1>4. \A k, b \in Thunks : Before(list, k, b) => fate[b] = "queued" /\ fate[k] = "queued"
  BY ListMembers, BeforeIn
<1>5. \A u \in Threads, k, b \in Thunks : Before(held[u], k, b) => fate[b] = "held"
  BY ListMembers, BeforeIn
<1>6. FatesMove
  BY <1>a, <1>2, ListMembers DEF FatesMove, Moves, Fates
<1>7. OneSwitches
  BY <1>2 DEF OneSwitches, Switches
<1>8. ListInOrder
  <2> SUFFICES ASSUME NEW k \in Thunks, NEW b \in Thunks, Before(list, k, b)
               PROVE  /\ fate'[b] # "flight"
                      /\ fate'[k] = "queued" /\ fate'[b] = "queued" => Before(list', k, b)
                      /\ fate'[b] # "held" /\ fate'[k] # "held"
    BY DEF ListInOrder
  <2>1. b \in Range(l) => Before(l, k, b) /\ b # h /\ (k # h => Before(Tail(l), k, b))
    BY BeforeTail DEF h
  <2> QED BY <1>a, <1>2, <1>3, <1>4, <2>1
<1>9. HeldInOrder /\ HeldEnds
  BY <1>a, <1>2, <1>5 DEF HeldInOrder, HeldEnds
<1> QED BY <1>6, <1>7, <1>8, <1>9 DEF Lawful

\* Popping the head of the list.
LEMMA PopHeadLawful ==
    ASSUME Invariant, NEW t \in Threads, list # << >>, PopHead(t), held' = held
    PROVE  Lawful
  BY ListMembers, PopLawful DEF PopHead, Fates

\* Promoting what is ready and popping the head.
LEMMA PromoteLawful ==
    ASSUME Invariant, NEW t \in Threads, Ready # {}, PromoteAndPop(t), held' = held
    PROVE  Lawful
<1>1. TypeOK /\ ListIsQueue /\ CountAccounts
  BY DEF Invariant
<1>2. PICK s \in Chains(Ready) : Pop(t, Linked(s), LinkedFate(s))
  BY DEF PromoteAndPop
<1>3. /\ Ready \in SUBSET Thunks /\ \A k \in Ready : fate[k] = "delayed"
      /\ s \in Bijection(1 .. Cardinality(Ready), Ready)
  BY DEF Ready, Delayed, Chains
<1>4. IsChain(s) /\ Range(s) = Ready
  BY <1>3, BijectionIsChain
<1>5. /\ LinkedFate(s) \in [Thunks -> Fates]
      /\ \A k \in Thunks :
            /\ fate[k] = "queued" => LinkedFate(s)[k] \in {"queued", "lost"}
            /\ fate[k] = "delayed" => LinkedFate(s)[k] \in {"delayed", "queued", "lost"}
            /\ fate[k] \notin {"queued", "delayed"} => LinkedFate(s)[k] = fate[k]
            /\ k \in Range(Linked(s)) <=> LinkedFate(s)[k] = "queued"
  BY <1>1, <1>3, <1>4, LinkedFateFacts, LinkedMoves
<1>6. Linked(s) \in Seq(Thunks) /\ IsInjective(Linked(s))
  BY <1>1, <1>4, LinkedFacts
<1>7. \A k, b \in Thunks : Before(list, k, b) /\ b \in Range(Linked(s)) => Before(Linked(s), k, b)
  BY <1>1, <1>4, BeforeLinked
<1>8. Linked(s) # << >>
  BY <1>1, <1>3, <1>4, LinkedNotEmpty
<1> DEFINE l == Linked(s)
           f == LinkedFate(s)
<1> HIDE DEF l, f
<1>9. /\ Pop(t, l, f) /\ l \in Seq(Thunks) /\ IsInjective(l) /\ l # << >> /\ f \in [Thunks -> Fates]
      /\ \A k \in Thunks :
            /\ fate[k] = "queued" => f[k] \in {"queued", "lost"}
            /\ fate[k] = "delayed" => f[k] \in {"delayed", "queued", "lost"}
            /\ fate[k] \notin {"queued", "delayed"} => f[k] = fate[k]
            /\ k \in Range(l) <=> f[k] = "queued"
      /\ \A k, b \in Thunks : Before(list, k, b) /\ b \in Range(l) => Before(l, k, b)
  BY <1>2, <1>5, <1>6, <1>7, <1>8 DEF l, f
<1> QED BY <1>9, PopLawful

\* The handler of TryDispatchEvent.
LEMMA PutBackLawful ==
    ASSUME Invariant, NEW t \in Threads, PutBack(t)
    PROVE  Lawful
<1>1. cur[t] \in Thunks /\ fate[cur[t]] = "flight"
  BY DEF Invariant, Ownership, CurOwned, Executing, PutBack
<1>2. /\ list' = << cur[t] >> \o list /\ held' = held
      /\ \A k \in Thunks : fate'[k] = IF k = cur[t] THEN "queued" ELSE fate[k]
  BY ListMembers DEF PutBack
<1>3. \A k, b \in Thunks : Before(list, k, b) => fate[b] = "queued" /\ fate[k] = "queued"
  BY ListMembers, BeforeIn
<1>4. \A u \in Threads, k, b \in Thunks : Before(held[u], k, b) => fate[b] = "held"
  BY ListMembers, BeforeIn
<1>5. FatesMove /\ OneSwitches
  BY <1>1, <1>2 DEF FatesMove, Moves, Returns, PutBack, OneSwitches, Switches
<1>6. ListInOrder
  <2>1. << cur[t] >> \in Seq(Thunks) /\ list \in Seq(Thunks)
    BY <1>1, ListMembers
  <2>2. \A k, b \in Thunks : Before(list, k, b) => Before(list', k, b)
    BY <1>2, <2>1, BeforeConcat
  <2> QED BY <1>1, <1>2, <1>3, <2>2 DEF ListInOrder
<1>7. HeldInOrder /\ HeldEnds
  BY <1>1, <1>2, <1>4 DEF HeldInOrder, HeldEnds
<1> QED BY <1>5, <1>6, <1>7 DEF Lawful

\* Cancel takes the head of the list or the first delayed thunk.
LEMMA CancelLawful ==
    ASSUME Invariant, NEW t \in Threads, Cancel(t)
    PROVE  Lawful
<1>0. held' = held
  BY DEF Cancel, localVars
<1>1. CASE list # << >> /\ list' = Tail(list) /\ fate' = [fate EXCEPT ![Head(list)] = "dropped"]
  <2> DEFINE h == Head(list)
  <2>1. h \in Range(list) /\ list \in Seq(Thunks) /\ IsInjective(list)
    BY <1>1, ListMembers, TailFacts
  <2>2. h \in Thunks /\ fate[h] = "queued"
    BY <2>1, ListMembers DEF Range
  <2>3. \A k \in Thunks : fate'[k] = IF k = h THEN "dropped" ELSE fate[k]
    BY <1>1, ListMembers
  <2> HIDE DEF h
  <2>4. \A k, b \in Thunks : Before(list, k, b) => fate[b] = "queued" /\ fate[k] = "queued"
    BY ListMembers, BeforeIn
  <2>5. \A u \in Threads, k, b \in Thunks : Before(held[u], k, b) => fate[b] = "held"
    BY ListMembers, BeforeIn
  <2>6. FatesMove /\ OneSwitches
    BY <2>2, <2>3 DEF FatesMove, Moves, OneSwitches, Switches
  <2>7. ListInOrder
    <3>1. \A k, b \in Thunks : Before(list, k, b) /\ k # h => Before(Tail(list), k, b)
      BY <1>1, <2>1, BeforeTail DEF h
    <3> QED BY <1>1, <2>3, <2>4, <3>1 DEF ListInOrder
  <2>8. HeldInOrder /\ HeldEnds
    BY <1>0, <2>2, <2>3, <2>5 DEF HeldInOrder, HeldEnds
  <2> QED BY <2>6, <2>7, <2>8 DEF Lawful
<1>2. CASE UNCHANGED list /\ \E k \in Delayed : fate' = [fate EXCEPT ![k] = "dropped"]
  <2>1. PICK c \in Delayed : fate' = [fate EXCEPT ![c] = "dropped"]
    BY <1>2
  <2>2. c \in Thunks /\ fate[c] = "delayed"
    BY DEF Delayed
  <2> QED BY <1>0, <1>2, <2>1, <2>2, AsideLawful, ListMembers
<1>3. CASE UNCHANGED << list, fate >>
  BY <1>0, <1>3, StayLawful
<1> QED BY <1>1, <1>2, <1>3 DEF Cancel

\* Only a thread that clears the queue has taken thunks from it.
Emptied == \A t \in Threads : pc[t] \notin {"drain", "invoke", "sweep"} => held[t] = << >>

\* Nothing is held at first.
LEMMA InitEmptied == Init => Emptied
  BY DEF Init, Emptied

\* Whoever leaves Abort or Rundown has swept what it took.
LEMMA StepEmptied ==
    ASSUME TypeOK, Emptied, Next
    PROVE  Emptied'
<1> USE DEF Emptied, TypeOK, Goto, Call, Leave, localVars, waitVars, barVars
<1>1. ASSUME NEW t \in Threads, Request(t) PROVE Emptied'
  <2>1. CASE Pend(t) BY <2>1 DEF Pend
  <2>2. CASE PendExisting(t) BY <2>2 DEF PendExisting
  <2>3. CASE PendDelayed(t) BY <2>3 DEF PendDelayed
  <2>4. CASE AppendQueue(t) BY <2>4 DEF AppendQueue
  <2>5. CASE WaitForEvent(t) BY <2>5 DEF WaitForEvent
  <2>6. CASE WaitForEventUntil(t) BY <2>6 DEF WaitForEventUntil
  <2>7. CASE ClearQueue(t) BY <2>7 DEF ClearQueue
  <2>8. CASE Cancel(t) BY <2>8 DEF Cancel
  <2>9. CASE WakeAll(t) BY <2>9 DEF WakeAll
  <2>10. CASE SetDispatcherCap(t) BY <2>10 DEF SetDispatcherCap
  <2>11. CASE Barrier(t) BY <2>11 DEF Barrier
  <2>12. CASE BarrierFor(t) BY <2>12 DEF BarrierFor
  <2> QED BY <1>1, <2>1, <2>2, <2>3, <2>4, <2>5, <2>6, <2>7, <2>8, <2>9, <2>10, <2>11, <2>12
      DEF Request
<1>2. ASSUME NEW t \in Threads, Continue(t) PROVE Emptied'
  <2>1. CASE RunThunk(t) BY <2>1 DEF RunThunk
  <2>2. CASE PutBack(t) BY <2>2 DEF PutBack
  <2>3. CASE Decrement(t) BY <2>3 DEF Decrement
  <2>4. CASE NotifyZero(t) BY <2>4 DEF NotifyZero
  <2>5. CASE DeleteThunk(t) BY <2>5 DEF DeleteThunk
  <2>6. CASE WaitPredicate(t) BY <2>6 DEF WaitPredicate
  <2>7. CASE Block(t) BY <2>7 DEF Block
  <2>8. CASE Reacquire(t) BY <2>8 DEF Reacquire
  <2>9. CASE TimedWake(t) BY <2>9 DEF TimedWake
  <2>10. CASE DrainNext(t) BY <2>10 DEF DrainNext
  <2>11. CASE DrainRun(t) BY <2>11 DEF DrainRun, AfterInvoke
  <2>12. CASE Sweep(t) BY <2>12 DEF Sweep
  <2>13. CASE LateNotify(t) BY <2>13 DEF LateNotify
  <2>14. CASE BarrierWait(t) BY <2>14 DEF BarrierWait, LeaveBarrier
  <2>15. CASE BarrierForWake(t) BY <2>15 DEF BarrierForWake, LeaveBarrier
  <2> QED BY <1>2, <2>1, <2>2, <2>3, <2>4, <2>5, <2>6, <2>7, <2>8, <2>9, <2>10, <2>11, <2>12,
             <2>13, <2>14, <2>15 DEF Continue
<1>3. ASSUME NEW t \in Threads, Dispatch(t) PROVE Emptied'
  BY <1>3 DEF Dispatch
<1>4. ASSUME NEW t \in Threads, SpuriousWake(t) PROVE Emptied'
  BY <1>4 DEF SpuriousWake
<1>5. ASSUME Tick PROVE Emptied'
  BY <1>5 DEF Tick
<1> QED BY <1>1, <1>2, <1>3, <1>4, <1>5 DEF Next

\* ClearQueueInternal takes the whole list, in its order.
LEMMA ClearLawful ==
    ASSUME Invariant, Emptied, NEW t \in Threads, ClearQueue(t)
    PROVE  Lawful
<1>1. /\ \A u \in Threads : held'[u] = IF u = t THEN list ELSE held[u]
      /\ \A k \in Thunks : fate'[k] = CASE fate[k] = "queued" -> "held"
                                   [] fate[k] = "delayed" -> "dropped"
                                   [] OTHER -> fate[k]
  BY DEF ClearQueue, Invariant, TypeOK
<1>a. /\ \A k \in Thunks : fate[k] = "queued" => fate'[k] = "held"
      /\ \A k \in Thunks : fate[k] = "delayed" => fate'[k] = "dropped"
      /\ \A k \in Thunks : fate[k] \notin {"queued", "delayed"} => fate'[k] = fate[k]
  BY <1>1
<1>2. held[t] = << >>
  <2>1. pc[t] = "idle"
    BY DEF ClearQueue, Call
  <2> QED BY <2>1 DEF Emptied
<1>3. \A k, b \in Thunks : Before(list, k, b) => fate[b] = "queued" /\ fate[k] = "queued"
  BY ListMembers, BeforeIn
<1>4. \A u \in Threads, k, b \in Thunks : Before(held[u], k, b) => fate[b] = "held"
  BY ListMembers, BeforeIn
<1>5. FatesMove /\ OneSwitches
  BY <1>a DEF FatesMove, Moves, OneSwitches, Switches
<1>6. ListInOrder
  BY <1>1, <1>a, <1>3 DEF ListInOrder
<1>7. HeldInOrder
  BY <1>1, <1>a, <1>2, <1>4, EmptySeq DEF HeldInOrder, Before
<1>8. HeldEnds
  BY <1>a DEF HeldEnds
<1> QED BY <1>5, <1>6, <1>7, <1>8 DEF Lawful

\* Rundown invokes the first thunk of what it took.
LEMMA DrainRunLawful ==
    ASSUME Invariant, NEW t \in Threads, DrainRun(t)
    PROVE  Lawful
<1>0. held[t] # << >> /\ held[t] \in Seq(Thunks) /\ IsInjective(held[t])
  BY ListMembers DEF DrainRun, Invariant, Ownership, HeldOwned
<1> DEFINE h == Head(held[t])
<1>1. h \in Range(held[t]) /\ h \in Thunks /\ fate[h] = "held"
  BY <1>0, TailFacts, ListMembers
<1>2. list' = list
  BY DEF DrainRun
<1>3. CASE /\ held' = [held EXCEPT ![t] = Tail(@)]
           /\ fate' = [fate EXCEPT ![h] = "done"]
  <2>1. /\ \A k \in Thunks : fate'[k] = IF k = h THEN "done" ELSE fate[k]
        /\ \A u \in Threads : held'[u] = IF u = t THEN Tail(held[t]) ELSE held[u]
    BY <1>3, ListMembers DEF Invariant, TypeOK
  <2>2. \A k, b \in Thunks : Before(list, k, b) => fate[b] = "queued" /\ fate[k] = "queued"
    BY ListMembers, BeforeIn
  <2>3. FatesMove /\ OneSwitches
    BY <1>1, <2>1 DEF FatesMove, Moves, OneSwitches, Switches
  <2>4. ListInOrder
    BY <1>1, <1>2, <2>1, <2>2 DEF ListInOrder
  <2>5. HeldInOrder
    <3> SUFFICES ASSUME NEW u \in Threads, NEW k \in Thunks, NEW b \in Thunks, Before(held[u], k, b)
                 PROVE  /\ fate'[b] # "done"
                        /\ fate'[k] = "held" => Before(held'[u], k, b)
      BY DEF HeldInOrder
    <3>1. k \in Range(held[u]) /\ b \in Range(held[u]) /\ fate[b] = "held"
      BY BeforeIn, ListMembers
    <3>2. CASE u = t
      BY <1>0, <2>1, <3>1, <3>2, BeforeTail
    <3>3. CASE u # t
      <4>1. Range(held[u]) \cap Range(held[t]) = {}
        BY <3>3 DEF Invariant, Ownership, HeldOwned
      <4> QED BY <1>1, <2>1, <3>1, <3>3, <4>1
    <3> QED BY <3>2, <3>3
  <2>6. HeldEnds
    BY <2>1 DEF HeldEnds, Invoked, DrainRun
  <2> QED BY <2>3, <2>4, <2>5, <2>6 DEF Lawful
<1>4. CASE UNCHANGED << held, fate >>
  BY <1>2, <1>4, StayLawful
<1> QED BY <1>3, <1>4 DEF DrainRun

\* What is left is destroyed.
LEMMA SweepLawful ==
    ASSUME Invariant, NEW t \in Threads, Sweep(t)
    PROVE  Lawful
<1>1. /\ list' = list
      /\ \A k \in Thunks : fate'[k] = IF k \in Range(held[t]) THEN "dropped" ELSE fate[k]
      /\ \A u \in Threads : held'[u] = IF u = t THEN << >> ELSE held[u]
  BY DEF Sweep, Invariant, TypeOK
<1>2. \A k \in Range(held[t]) : k \in Thunks /\ fate[k] = "held"
  BY ListMembers
<1>3. \A k, b \in Thunks : Before(list, k, b) => fate[b] = "queued" /\ fate[k] = "queued"
  BY ListMembers, BeforeIn
<1>4. FatesMove /\ OneSwitches
  BY <1>1, <1>2 DEF FatesMove, Moves, OneSwitches, Switches
<1>5. ListInOrder
  BY <1>1, <1>2, <1>3 DEF ListInOrder
<1>6. HeldInOrder
  <2>1. \A u \in Threads, k, b \in Thunks :
           Before(held[u], k, b) => fate[b] = "held" /\ b \in Range(held[u])
    BY ListMembers, BeforeIn
  <2> QED BY <1>1, <2>1 DEF HeldInOrder
<1>7. HeldEnds
  <2> SUFFICES ASSUME NEW k \in Range(held[t]), Invoked(k) PROVE FALSE
    BY <1>1 DEF HeldEnds
  <2>1. PICK u \in Threads : pc[u] = "invoke" /\ Head(held[u]) = k
    BY DEF Invoked
  <2>2. k \in Range(held[u])
    BY <2>1, ListMembers, TailFacts DEF Invariant, Ownership, HeldOwned
  <2>3. u # t
    BY <2>1 DEF Sweep
  <2> QED BY <2>2, <2>3 DEF Invariant, Ownership, HeldOwned
<1> QED BY <1>4, <1>5, <1>6, <1>7 DEF Lawful

\* One thunk is a chain.
LEMMA OneIsChain ==
    ASSUME NEW k \in Thunks, fate[k] = "new"
    PROVE  IsChain(<< k >>) /\ Range(<< k >>) = {k}
<1>1. << k >> \in Seq(Thunks) /\ DOMAIN << k >> = {1} /\ << k >>[1] = k
  OBVIOUS
<1>2. Range(<< k >>) = {k} /\ IsInjective(<< k >>)
  BY <1>1 DEF Range, IsInjective
<1> QED BY <1>1, <1>2 DEF IsChain

\* Pending one thunk, or the deletion of one the cap keeps out.
LEMMA PendLawful ==
    ASSUME Invariant, NEW k \in Thunks, fate[k] = "new", held' = held,
           \/ Link(k)
           \/ fate' = [fate EXCEPT ![k] = "dropped"] /\ list' = list
    PROVE  Lawful
<1>1. CASE Link(k)
  <2>1. IsChain(<< k >>) /\ Range(<< k >>) = {k}
    BY OneIsChain
  <2>2. list' = Linked(<< k >>) /\ fate' = LinkedFate(<< k >>)
    BY <1>1 DEF Link
  <2> DEFINE s == << k >>
  <2> HIDE DEF s
  <2>3. IsChain(s) /\ (\A j \in Range(s) : fate[j] = "new") /\ list' = Linked(s) /\ fate' = LinkedFate(s)
    BY <2>1, <2>2 DEF s
  <2>4. PICK D : D = {}
    OBVIOUS
  <2>5. /\ \A j \in D : fate[j] = "new" /\ j \notin Range(s)
        /\ \A j \in Thunks : fate'[j] = IF j \in D THEN "delayed" ELSE LinkedFate(s)[j]
    BY <2>3, <2>4
  <2> QED BY <2>3, <2>5, LinkLawful
<1>2. CASE fate' = [fate EXCEPT ![k] = "dropped"] /\ list' = list
  BY <1>2, AsideLawful, ListMembers
<1> QED BY <1>1, <1>2

\* Another queue is hung behind the list.
LEMMA AppendLawful ==
    ASSUME Invariant, NEW t \in Threads, AppendQueue(t)
    PROVE  Lawful
<1>1. PICK S \in SUBSET { k \in Thunks : fate[k] = "new" },
           D \in SUBSET { k \in Thunks : fate[k] = "new" } :
            \E s \in Bijection(1 .. Cardinality(S), S) :
                /\ S \cap D = {}
                /\ list' = Linked(s)
                /\ fate' = [k \in Thunks |-> IF k \in D THEN "delayed" ELSE LinkedFate(s)[k]]
  BY DEF AppendQueue
<1>2. PICK s \in Bijection(1 .. Cardinality(S), S) :
                /\ S \cap D = {}
                /\ list' = Linked(s)
                /\ fate' = [k \in Thunks |-> IF k \in D THEN "delayed" ELSE LinkedFate(s)[k]]
  BY <1>1
<1>3. IsChain(s) /\ Range(s) = S
  BY BijectionIsChain
<1>4. \A k \in Thunks : fate'[k] = IF k \in D THEN "delayed" ELSE LinkedFate(s)[k]
  BY <1>2
<1>5. held' = held
  BY DEF AppendQueue, localVars
<1>6. /\ \A k \in Range(s) : fate[k] = "new"
      /\ \A k \in D : fate[k] = "new" /\ k \notin Range(s)
  BY <1>2, <1>3
<1>7. list' = Linked(s)
  BY <1>2
<1> QED BY <1>3, <1>4, <1>5, <1>6, <1>7, LinkLawful

\* Every step of the queue.
LEMMA NextLawful ==
    ASSUME Invariant, Emptied, Next
    PROVE  Lawful
<1> USE DEF listVars, localVars, waitVars, barVars
<1>1. ASSUME NEW t \in Threads, Request(t) PROVE Lawful
  <2>1. CASE Pend(t) BY <2>1, PendLawful DEF Pend
  <2>2. CASE PendExisting(t) BY <2>2, PendLawful DEF PendExisting
  <2>3. CASE PendDelayed(t)
    <3>1. PICK k \in Thunks : /\ fate[k] = "new" /\ fate' = [fate EXCEPT ![k] = "delayed"]
                              /\ UNCHANGED << list, held >>
      BY <2>3 DEF PendDelayed
    <3> QED BY <3>1, AsideLawful, ListMembers
  <2>4. CASE AppendQueue(t) BY <2>4, AppendLawful
  <2>5. CASE WaitForEvent(t) BY <2>5, StayLawful DEF WaitForEvent
  <2>6. CASE WaitForEventUntil(t) BY <2>6, StayLawful, PopHeadLawful DEF WaitForEventUntil
  <2>7. CASE ClearQueue(t) BY <2>7, ClearLawful
  <2>8. CASE Cancel(t) BY <2>8, CancelLawful
  <2>9. CASE WakeAll(t) BY <2>9, StayLawful DEF WakeAll
  <2>10. CASE SetDispatcherCap(t) BY <2>10, StayLawful DEF SetDispatcherCap
  <2>11. CASE Barrier(t) BY <2>11, PendLawful DEF Barrier
  <2>12. CASE BarrierFor(t) BY <2>12, PendLawful, StayLawful DEF BarrierFor
  <2> QED BY <1>1, <2>1, <2>2, <2>3, <2>4, <2>5, <2>6, <2>7, <2>8, <2>9, <2>10, <2>11, <2>12
      DEF Request
<1>2. ASSUME NEW t \in Threads, Continue(t) PROVE Lawful
  <2>1. CASE RunThunk(t) BY <2>1, StayLawful DEF RunThunk
  <2>2. CASE PutBack(t) BY <2>2, PutBackLawful
  <2>3. CASE Decrement(t)
    <3>1. cur[t] \in Thunks /\ fate[cur[t]] = "flight"
      BY <2>3 DEF Decrement, Invariant, Ownership, CurOwned, Executing
    <3>2. fate' = [fate EXCEPT ![cur[t]] = "expiring"] /\ UNCHANGED << list, held >>
      BY <2>3 DEF Decrement
    <3> QED BY <3>1, <3>2, AsideLawful, ListMembers
  <2>4. CASE NotifyZero(t) BY <2>4, StayLawful DEF NotifyZero
  <2>5. CASE DeleteThunk(t)
    <3>1. cur[t] \in Thunks /\ fate[cur[t]] = "expiring"
      BY <2>5 DEF DeleteThunk, Invariant, Ownership, CurOwned, Disposing
    <3>2. fate' = [fate EXCEPT ![cur[t]] = "done"] /\ UNCHANGED << list, held >>
      BY <2>5 DEF DeleteThunk
    <3> QED BY <3>1, <3>2, AsideLawful, ListMembers
  <2>6. CASE WaitPredicate(t) BY <2>6, StayLawful, PopHeadLawful DEF WaitPredicate
  <2>7. CASE Block(t) BY <2>7, StayLawful DEF Block
  <2>8. CASE Reacquire(t) BY <2>8, StayLawful DEF Reacquire
  <2>9. CASE TimedWake(t) BY <2>9, StayLawful, PopHeadLawful, PromoteLawful DEF TimedWake
  <2>10. CASE DrainNext(t) BY <2>10, StayLawful DEF DrainNext
  <2>11. CASE DrainRun(t) BY <2>11, DrainRunLawful
  <2>12. CASE Sweep(t) BY <2>12, SweepLawful
  <2>13. CASE LateNotify(t) BY <2>13, StayLawful DEF LateNotify
  <2>14. CASE BarrierWait(t) BY <2>14, StayLawful DEF BarrierWait
  <2>15. CASE BarrierForWake(t) BY <2>15, StayLawful DEF BarrierForWake
  <2> QED BY <1>2, <2>1, <2>2, <2>3, <2>4, <2>5, <2>6, <2>7, <2>8, <2>9, <2>10, <2>11, <2>12,
             <2>13, <2>14, <2>15 DEF Continue
<1>3. ASSUME NEW t \in Threads, Dispatch(t) PROVE Lawful
  BY <1>3, StayLawful, PopHeadLawful, PromoteLawful DEF Dispatch
<1>4. ASSUME NEW t \in Threads, SpuriousWake(t) PROVE Lawful
  BY <1>4, StayLawful DEF SpuriousWake
<1>5. ASSUME Tick PROVE Lawful
  BY <1>5, StayLawful DEF Tick
<1> QED BY <1>1, <1>2, <1>3, <1>4, <1>5 DEF Next

-----------------------------------------------------------------------------
(* The queue implements ThunkContract *)

\* Which thunks run: those that are popped or that Rundown invokes.
LEMMA RunningFacts ==
    ASSUME Invariant, NEW k \in Thunks
    PROVE  /\ Invoked(k) => fate[k] = "held"
           /\ fate[k] = "held" => (Running(k) <=> Invoked(k))
<1>1. \A t \in Threads : pc[t] = "invoke" => Head(held[t]) \in Range(held[t])
  BY ListMembers, TailFacts DEF Invariant, Ownership, HeldOwned
<1>2. \A t \in Threads : pc[t] = "run" => fate[cur[t]] = "flight"
  BY DEF Invariant, Ownership, CurOwned, Executing
<1> QED BY <1>1, <1>2, ListMembers DEF Invoked, Running

\* A thunk that Rundown invokes is held.
LEMMA InvokedFacts ==
    ASSUME Invariant
    PROVE  \A k \in Thunks : fate[k] \in Fates /\ (Invoked(k) => fate[k] = "held")
  BY RunningFacts, ListMembers

\* The state of a thunk as the contract sees it.
LEMMA StateFacts ==
    ASSUME Invariant
    PROVE  /\ ThunkState = [k \in Thunks |-> ThunkState[k]]
           /\ \A k \in Thunks :
                 /\ fate[k] \in {"queued", "delayed"} => ThunkState[k] = "pending"
                 /\ fate[k] = "flight" => ThunkState[k] = "running"
                 /\ fate[k] = "held" /\ Invoked(k) => ThunkState[k] = "running"
                 /\ fate[k] = "held" /\ ~Invoked(k) => ThunkState[k] = "pending"
                 /\ fate[k] \in {"expiring", "done"} => ThunkState[k] = "done"
                 /\ fate[k] \in {"new", "dropped", "lost"} => ThunkState[k] = fate[k]
<1>1. ASSUME NEW k \in Thunks
      PROVE  /\ fate[k] \in {"queued", "delayed"} => ThunkState[k] = "pending"
             /\ fate[k] = "flight" => ThunkState[k] = "running"
             /\ fate[k] = "held" /\ Running(k) => ThunkState[k] = "running"
             /\ fate[k] = "held" /\ ~Running(k) => ThunkState[k] = "pending"
             /\ fate[k] \in {"expiring", "done"} => ThunkState[k] = "done"
             /\ fate[k] \in {"new", "dropped", "lost"} => ThunkState[k] = fate[k]
  BY DEF ThunkState
<1>2. ThunkState = [k \in Thunks |-> ThunkState[k]]
  BY DEF ThunkState
<1> QED BY <1>1, <1>2, RunningFacts

\* The queue starts where the contract does.
LEMMA InitContract == Init => Contract!Init
  BY DEF Init, Contract!Init, ThunkState

\* A lawful step that moves one thunk c into or out of an invocation, if any, is one the
\* contract allows.
LEMMA LawfulContract ==
    ASSUME Invariant, Invariant', Lawful, NEW c,
           \A k \in Thunks \ {c} : Invoked(k)' <=> Invoked(k),
           \A k \in Thunks \ {c} : ~Switches(k) /\ ~(fate[k] = "held" /\ fate'[k] = "done")
    PROVE  Contract!Next
<1> DEFINE s == ThunkState
           r == ThunkState'
<1>1. /\ \A k \in Thunks :
                 /\ fate[k] \in {"queued", "delayed"} => s[k] = "pending"
                 /\ fate[k] = "flight" => s[k] = "running"
                 /\ fate[k] = "held" /\ Invoked(k) => s[k] = "running"
                 /\ fate[k] = "held" /\ ~Invoked(k) => s[k] = "pending"
                 /\ fate[k] \in {"expiring", "done"} => s[k] = "done"
                 /\ fate[k] \in {"new", "dropped", "lost"} => s[k] = fate[k]
      /\ \A k \in Thunks : fate[k] \in Fates /\ (Invoked(k) => fate[k] = "held")
  BY StateFacts, RunningFacts, ListMembers
<1>2. /\ r = [k \in Thunks |-> r[k]]
      /\ \A k \in Thunks :
                 /\ fate'[k] \in {"queued", "delayed"} => r[k] = "pending"
                 /\ fate'[k] = "flight" => r[k] = "running"
                 /\ fate'[k] = "held" /\ Invoked(k)' => r[k] = "running"
                 /\ fate'[k] = "held" /\ ~Invoked(k)' => r[k] = "pending"
                 /\ fate'[k] \in {"expiring", "done"} => r[k] = "done"
                 /\ fate'[k] \in {"new", "dropped", "lost"} => r[k] = fate'[k]
      /\ \A k \in Thunks : fate'[k] \in Fates /\ (Invoked(k)' => fate'[k] = "held")
  <2>1. (/\ ThunkState = [k \in Thunks |-> ThunkState[k]]
         /\ \A k \in Thunks :
                 /\ fate[k] \in {"queued", "delayed"} => ThunkState[k] = "pending"
                 /\ fate[k] = "flight" => ThunkState[k] = "running"
                 /\ fate[k] = "held" /\ Invoked(k) => ThunkState[k] = "running"
                 /\ fate[k] = "held" /\ ~Invoked(k) => ThunkState[k] = "pending"
                 /\ fate[k] \in {"expiring", "done"} => ThunkState[k] = "done"
                 /\ fate[k] \in {"new", "dropped", "lost"} => ThunkState[k] = fate[k])'
    BY StateFacts, PTL
  <2>2. (\A k \in Thunks : fate[k] \in Fates /\ (Invoked(k) => fate[k] = "held"))'
    BY InvokedFacts, PTL
  <2> QED BY <2>1, <2>2
<1> USE DEF Contract!Move, Contract!Accept, Contract!Refuse, Contract!Start, Contract!Finish,
            Contract!Keep, Contract!Discard, Contract!Lose
<1> HIDE DEF s, r
<1>3. r \in [Thunks -> {"new", "pending", "running", "done", "dropped", "lost"}]
  <2>1. \A k \in Thunks : r[k] \in {"new", "pending", "running", "done", "dropped", "lost"}
    BY <1>2 DEF Fates
  <2> QED BY <1>2, <2>1
<1>4. ASSUME NEW k \in Thunks, k # c
      PROVE  /\ r[k] = s[k] \/ (s[k] = "new" /\ r[k] \in {"pending", "dropped", "lost"})
                            \/ (s[k] = "pending" /\ r[k] \in {"dropped", "lost"})
             /\ ~(s[k] = "pending" /\ r[k] = "running")
             /\ ~(s[k] = "running" /\ r[k] \in {"done", "pending"})
  <2>1. /\ fate[k] = "held" /\ fate'[k] # "held" => fate'[k] = "dropped" /\ ~Invoked(k)
        /\ Invoked(k)' <=> Invoked(k)
        /\ ~Switches(k)
        /\ fate'[k] = fate[k] \/ << fate[k], fate'[k] >> \in Moves
    BY <1>4 DEF Lawful, FatesMove, HeldEnds, Returns, Switches
  <2>2. CASE fate'[k] = fate[k]
    BY <1>1, <1>2, <2>1, <2>2 DEF Fates
  <2>3. CASE << fate[k], fate'[k] >> \in Moves
    BY <1>1, <1>2, <2>1, <2>3 DEF Moves, Switches
  <2> QED BY <2>1, <2>2, <2>3
<1>5. ASSUME c \in Thunks
      PROVE  \/ r[c] = s[c]
             \/ s[c] = "new" /\ r[c] \in {"pending", "dropped", "lost"}
             \/ s[c] = "pending" /\ r[c] \in {"running", "dropped", "lost"}
             \/ s[c] = "running" /\ r[c] \in {"done", "pending"}
  <2>1. /\ fate'[c] = fate[c] \/ << fate[c], fate'[c] >> \in Moves \/ Returns(c)
        /\ fate[c] = "held" /\ fate'[c] # "held"
             => fate'[c] = IF Invoked(c) THEN "done" ELSE "dropped"
    BY <1>5 DEF Lawful, FatesMove, HeldEnds
  <2>2. CASE fate'[c] = fate[c]
    BY <1>1, <1>2, <1>5, <2>2 DEF Fates
  <2>3. CASE << fate[c], fate'[c] >> \in Moves
    BY <1>1, <1>2, <1>5, <2>1, <2>3 DEF Moves
  <2>4. CASE Returns(c)
    BY <1>1, <1>2, <1>5, <2>4 DEF Returns
  <2> QED BY <2>1, <2>2, <2>3, <2>4
<1>6. \A k \in Thunks : r[k] = s[k] \/ Contract!Move(k)
  BY <1>4, <1>5 DEF s, r
<1>7. \A k \in Thunks : Contract!RunStep(k) => k = c
  BY <1>4 DEF Contract!RunStep, s, r
<1> QED BY <1>3, <1>6, <1>7 DEF Contract!Next, s, r

\* No thread begins or ends to invoke what it has taken.
InvokesOn ==
    \A t \in Threads : /\ pc'[t] = "invoke" <=> pc[t] = "invoke"
                       /\ pc[t] = "invoke" => held'[t] = held[t]

\* A step outside Rundown moves at most one thunk.
LEMMA InvokesOnContract ==
    ASSUME Invariant, Invariant', Lawful, InvokesOn
    PROVE  Contract!Next
<1>1. \A k \in Thunks : Invoked(k)' <=> Invoked(k)
  BY DEF InvokesOn, Invoked
<1>2. (\A k \in Thunks : fate[k] \in Fates /\ (Invoked(k) => fate[k] = "held"))'
  BY InvokedFacts, PTL
<1>3. \A k \in Thunks : ~(fate[k] = "held" /\ fate'[k] = "done")
  BY <1>1, <1>2 DEF Lawful, HeldEnds
<1>4. PICK c : \A k \in Thunks : Switches(k) => k = c
  <2>1. CASE \E k \in Thunks : Switches(k)
    BY <2>1 DEF Lawful, OneSwitches
  <2>2. CASE ~ \E k \in Thunks : Switches(k)
    BY <2>2
  <2> QED BY <2>1, <2>2
<1> QED BY <1>1, <1>3, <1>4, LawfulContract

\* So does a turn of the loop of Rundown.
LEMMA DrainContract ==
    ASSUME Invariant, Invariant', Lawful, NEW t \in Threads, DrainNext(t) \/ DrainRun(t)
    PROVE  Contract!Next
<1>1. PICK c : c = Head(held[t])
  OBVIOUS
<1>2. /\ \A u \in Threads \ {t} : pc'[u] = pc[u] /\ held'[u] = held[u]
      /\ pc'[t] = "invoke" => pc[t] # "invoke" /\ Head(held'[t]) = c
      /\ pc[t] = "invoke" => pc'[t] # "invoke"
  BY <1>1 DEF DrainNext, DrainRun, Goto, AfterInvoke, Invariant, TypeOK, localVars
<1>3. \A k \in Thunks \ {c} : Invoked(k)' <=> Invoked(k)
  BY <1>1, <1>2 DEF Invoked
<1>4. \A k \in Thunks \ {c} : fate'[k] = fate[k]
  BY <1>1 DEF DrainNext, DrainRun, Invariant, TypeOK, listVars
<1> QED BY <1>3, <1>4, LawfulContract DEF Switches

\* Every step is a step of the contract or leaves its state alone.
LEMMA NextContract ==
    ASSUME Invariant, Invariant', Emptied, Next
    PROVE  Contract!Next
<1> USE DEF localVars, waitVars, barVars, InvokesOn, Goto, Call, Leave
<1>0. TypeOK /\ Lawful
  BY NextLawful DEF Invariant
<1>a. pc \in [Threads -> PCs] /\ held \in [Threads -> Seq(Thunks)]
  BY <1>0 DEF TypeOK
<1>1. ASSUME NEW t \in Threads, Request(t) PROVE InvokesOn
  <2>1. CASE Pend(t) BY <1>a, <2>1 DEF Pend
  <2>2. CASE PendExisting(t) BY <1>a, <2>2 DEF PendExisting
  <2>3. CASE PendDelayed(t) BY <1>a, <2>3 DEF PendDelayed
  <2>4. CASE AppendQueue(t) BY <1>a, <2>4 DEF AppendQueue
  <2>5. CASE WaitForEvent(t) BY <1>a, <2>5 DEF WaitForEvent
  <2>6. CASE WaitForEventUntil(t) BY <1>a, <2>6 DEF WaitForEventUntil
  <2>7. CASE ClearQueue(t) BY <1>a, <2>7 DEF ClearQueue
  <2>8. CASE Cancel(t) BY <1>a, <2>8 DEF Cancel
  <2>9. CASE WakeAll(t) BY <1>a, <2>9 DEF WakeAll
  <2>10. CASE SetDispatcherCap(t) BY <1>a, <2>10 DEF SetDispatcherCap
  <2>11. CASE Barrier(t) BY <1>a, <2>11 DEF Barrier
  <2>12. CASE BarrierFor(t) BY <1>a, <2>12 DEF BarrierFor
  <2> QED BY <1>1, <2>1, <2>2, <2>3, <2>4, <2>5, <2>6, <2>7, <2>8, <2>9, <2>10, <2>11, <2>12
      DEF Request
<1>2. ASSUME NEW t \in Threads, Continue(t), ~DrainNext(t), ~DrainRun(t) PROVE InvokesOn
  <2>1. CASE RunThunk(t) BY <1>a, <2>1 DEF RunThunk
  <2>2. CASE PutBack(t) BY <1>a, <2>2 DEF PutBack
  <2>3. CASE Decrement(t) BY <1>a, <2>3 DEF Decrement, AfterDecrement
  <2>4. CASE NotifyZero(t) BY <1>a, <2>4 DEF NotifyZero
  <2>5. CASE DeleteThunk(t) BY <1>a, <2>5 DEF DeleteThunk
  <2>6. CASE WaitPredicate(t) BY <1>a, <2>6 DEF WaitPredicate
  <2>7. CASE Block(t) BY <1>a, <2>7 DEF Block
  <2>8. CASE Reacquire(t) BY <1>a, <2>8 DEF Reacquire
  <2>9. CASE TimedWake(t) BY <1>a, <2>9 DEF TimedWake
  <2>12. CASE Sweep(t) BY <1>a, <2>12 DEF Sweep
  <2>13. CASE LateNotify(t) BY <1>a, <2>13 DEF LateNotify
  <2>14. CASE BarrierWait(t) BY <1>a, <2>14 DEF BarrierWait, LeaveBarrier
  <2>15. CASE BarrierForWake(t) BY <1>a, <2>15 DEF BarrierForWake, LeaveBarrier
  <2> QED BY <1>2, <2>1, <2>2, <2>3, <2>4, <2>5, <2>6, <2>7, <2>8, <2>9, <2>12,
             <2>13, <2>14, <2>15 DEF Continue
<1>3. ASSUME NEW t \in Threads, Dispatch(t) PROVE InvokesOn
  BY <1>a, <1>3 DEF Dispatch
<1>4. ASSUME NEW t \in Threads, SpuriousWake(t) PROVE InvokesOn
  BY <1>4 DEF SpuriousWake
<1>5. ASSUME Tick PROVE InvokesOn
  BY <1>5 DEF Tick
<1>6. InvokesOn \/ \E t \in Threads : DrainNext(t) \/ DrainRun(t)
  BY <1>1, <1>2, <1>3, <1>4, <1>5 DEF Next
<1> QED BY <1>0, <1>6, InvokesOnContract, DrainContract

\* A thread outside Abort and Rundown holds no thunk that ClearQueueInternal took: all of them
\* are invoked or destroyed before the call ends.
THEOREM EmptiedHolds == Spec => []Emptied
<1>1. TypeOK /\ Emptied /\ [Next]_vars => Emptied'
  <2> SUFFICES ASSUME TypeOK, Emptied, [Next]_vars PROVE Emptied'
    OBVIOUS
  <2>1. CASE Next BY <2>1, StepEmptied
  <2>2. CASE UNCHANGED vars BY <2>2 DEF vars, localVars, Emptied
  <2> QED BY <2>1, <2>2
<1> QED BY <1>1, InitEmptied, TypeCorrect, PTL DEF Spec

\* Every behaviour of the queue is one that ThunkContract allows.
THEOREM ContractImplemented == Spec => ImplementsContract
<1>1. Init => Contract!Init
  BY InitContract
<1>2. Invariant /\ Invariant' /\ Emptied /\ [Next]_vars => [Contract!Next]_ThunkState
  <2> SUFFICES ASSUME Invariant, Invariant', Emptied, [Next]_vars
               PROVE  [Contract!Next]_ThunkState
    OBVIOUS
  <2>1. CASE Next BY <2>1, NextContract
  <2>2. CASE UNCHANGED vars
    <3>1. UNCHANGED << fate, pc, cur, held >>
      BY <2>2 DEF vars, listVars, localVars
    <3>2. \A k \in Thunks : Running(k)' <=> Running(k)
      BY <3>1 DEF Running
    <3>3. ThunkState' = ThunkState
      BY <3>1, <3>2 DEF ThunkState
    <3> QED BY <3>3
  <2> QED BY <2>1, <2>2
<1> QED BY <1>1, <1>2, InvariantHolds, EmptiedHolds, PTL DEF Spec, ImplementsContract, Contract!Spec

-----------------------------------------------------------------------------
(* Barrier flushes *)

\* No thunk that has failed goes back to the list: nobody calls TryDispatchEvent, or
\* no thunk throws.
NeverPutBack ==
    \/ \A t \in Threads : "TryDispatchEvent" \notin Calls[t]
    \/ \A k \in Thunks : Outcomes[k] \subseteq {"return"}

Over == {"flight", "expiring", "done"}

\* While the lambda of a Barrier waits, what was ahead of it is ahead of it, and taken
\* together with it; once it runs, all of that has gone.
FlushesIn(A, b, f, l, h) ==
    \A k \in A :
        /\ k # b /\ f[k] \notin {"new", "delayed"}
        /\ f[b] = "queued" => f[k] # "held" /\ (f[k] = "queued" => Before(l, k, b))
        /\ f[b] = "held" => /\ f[k] # "queued"
                            /\ f[k] = "held" => \E u \in Threads : Before(h[u], k, b)
        /\ f[b] \in Over => f[k] \notin {"queued", "held"}

Flushes(t) == FlushesIn(ahead[t], bar[t], fate, list, held)

\* The lambda of a Barrier under way, which says so when it has run.
Lambdas(t) ==
    /\ lambda[bar[t]] # "no" /\ fate[bar[t]] \notin {"new", "delayed"}
    /\ complete[t] => fate[bar[t]] \in Over

Barriers ==
    /\ \A t \in Threads : bar[t] = NoThunk => ~complete[t] /\ ahead[t] = {}
    /\ \A t \in Threads : bar[t] # NoThunk => Lambdas(t) /\ Flushes(t)

\* A thread is in an operation it may call, and at no point it cannot reach.
Called ==
    /\ \A t \in Threads : op[t] \in Calls[t] \cup {"none"}
    /\ \A t \in Threads : pc[t] # "putback"

\* No Barrier is under way at first.
LEMMA InitBarriers == Init => Barriers /\ Called
  BY DEF Init, Barriers, Called

\* What the invariant says of a Barrier that may succeed.
LEMMA BarriersFlushed == Invariant /\ Barriers => BarrierFlushes
<1> SUFFICES ASSUME Invariant, Barriers, NEW t \in Threads, complete[t]
             PROVE  \A k \in ahead[t] : fate[k] \notin {"queued", "held"}
  BY DEF BarrierFlushes
<1> QED BY DEF Barriers, Lambdas, Flushes, FlushesIn

\* Nobody is on the way to put a thunk back.
LEMMA StepCalled ==
    ASSUME TypeOK, CurOwned, NeverPutBack, Called, Next
    PROVE  Called'
<1>a. pc \in [Threads -> PCs] /\ op \in [Threads -> OpNames \cup {"none"}]
  BY DEF TypeOK
<1> USE <1>a DEF Called, Goto, Call, Leave
<1>1. ASSUME NEW t \in Threads, Request(t) PROVE Called'
  <2>1. CASE Pend(t) BY <2>1 DEF Pend
  <2>2. CASE PendExisting(t) BY <2>2 DEF PendExisting
  <2>3. CASE PendDelayed(t) BY <2>3 DEF PendDelayed
  <2>4. CASE AppendQueue(t) BY <2>4 DEF AppendQueue
  <2>5. CASE WaitForEvent(t) BY <2>5 DEF WaitForEvent
  <2>6. CASE WaitForEventUntil(t)
    <3>1. \E p \in {"idle", "run", "timed"} : Call(t, "WaitForEventUntil", p)
      BY ONLY <2>6 DEF WaitForEventUntil
    <3> QED BY <3>1
  <2>7. CASE ClearQueue(t) BY <2>7 DEF ClearQueue
  <2>8. CASE Cancel(t) BY <2>8 DEF Cancel
  <2>9. CASE WakeAll(t) BY <2>9 DEF WakeAll
  <2>10. CASE SetDispatcherCap(t) BY <2>10 DEF SetDispatcherCap
  <2>11. CASE Barrier(t) BY <2>11 DEF Barrier
  <2>12. CASE BarrierFor(t)
    <3>1. \E p \in {"idle", "btimed"} : Call(t, "BarrierFor", p)
      BY ONLY <2>12 DEF BarrierFor
    <3> QED BY <3>1
  <2> QED BY <1>1, <2>1, <2>2, <2>3, <2>4, <2>5, <2>6, <2>7, <2>8, <2>9, <2>10, <2>11, <2>12
      DEF Request
<1>2. ASSUME NEW t \in Threads, Continue(t), ~RunThunk(t) PROVE Called'
  <2>2. CASE PutBack(t) BY <2>2 DEF PutBack
  <2>3. CASE Decrement(t) BY <2>3 DEF Decrement, AfterDecrement
  <2>4. CASE NotifyZero(t) BY <2>4 DEF NotifyZero
  <2>5. CASE DeleteThunk(t) BY <2>5 DEF DeleteThunk
  <2>6. CASE WaitPredicate(t) BY <2>6 DEF WaitPredicate
  <2>7. CASE Block(t) BY <2>7 DEF Block
  <2>8. CASE Reacquire(t) BY <2>8 DEF Reacquire
  <2>9. CASE TimedWake(t) BY <2>9 DEF TimedWake
  <2>10. CASE DrainNext(t) BY <2>10 DEF DrainNext
  <2>11. CASE DrainRun(t) BY <2>11 DEF DrainRun, AfterInvoke
  <2>12. CASE Sweep(t) BY <2>12 DEF Sweep
  <2>13. CASE LateNotify(t) BY <2>13 DEF LateNotify
  <2>14. CASE BarrierWait(t) BY <2>14 DEF BarrierWait, LeaveBarrier
  <2>15. CASE BarrierForWake(t)
    <3>1. Leave(t) \/ UNCHANGED << pc, op >>
      BY ONLY <2>15 DEF BarrierForWake, LeaveBarrier
    <3> QED BY <3>1
  <2> QED BY <1>2, <2>2, <2>3, <2>4, <2>5, <2>6, <2>7, <2>8, <2>9, <2>10, <2>11, <2>12,
             <2>13, <2>14, <2>15 DEF Continue
<1>3. ASSUME NEW t \in Threads, Dispatch(t) PROVE Called'
  BY <1>3 DEF Dispatch
<1>4. ASSUME NEW t \in Threads, SpuriousWake(t) PROVE Called'
  BY <1>4 DEF SpuriousWake
<1>5. ASSUME Tick PROVE Called'
  BY <1>5 DEF Tick
<1>6. ASSUME NEW t \in Threads, RunThunk(t) PROVE Called'
  <2>1. cur[t] \in Thunks
    BY <1>6 DEF CurOwned, Executing, RunThunk
  <2>2. CASE \A u \in Threads : "TryDispatchEvent" \notin Calls[u]
    BY <1>6, <2>2 DEF RunThunk
  <2>3. CASE \A k \in Thunks : Outcomes[k] \subseteq {"return"}
    <3>1. OutcomesOf(cur[t]) \subseteq {"return"}
      BY <2>1, <2>3 DEF OutcomesOf
    <3> QED BY <1>6, <3>1 DEF RunThunk
  <2> QED BY <2>2, <2>3 DEF NeverPutBack
<1> QED BY <1>1, <1>2, <1>3, <1>4, <1>5, <1>6 DEF Next

\* A lawful step keeps what is ahead of a lambda ahead of it.
LEMMA LawfulFlushes ==
    ASSUME Invariant, Invariant', Lawful, Called, NEW t \in Threads,
           NEW b \in Thunks, bar[t] = b, bar'[t] = b, ahead'[t] = ahead[t], lambda'[b] = lambda[b],
           Lambdas(t), Flushes(t), complete'[t] => complete[t] \/ fate'[b] \in Over
    PROVE  Lambdas(t)' /\ Flushes(t)'
<1>1. /\ ahead[t] \subseteq Thunks
      /\ \A k \in Thunks : fate'[k] = fate[k] \/ << fate[k], fate'[k] >> \in Moves
  BY DEF Invariant, TypeOK, Lawful, FatesMove, Returns, Called
<1>2. \A k \in Thunks :
         /\ fate[k] \notin {"new", "delayed"} => fate'[k] \notin {"new", "delayed"}
         /\ fate[k] \notin {"new", "delayed"} /\ fate'[k] = "queued" => fate[k] = "queued"
         /\ fate'[k] = "held" => fate[k] \in {"held", "queued"}
         /\ fate[k] \in Over => fate'[k] \in Over
         /\ fate[k] \notin {"new", "delayed"} /\ fate'[k] \in Over =>
              \/ fate[k] \in Over
              \/ fate[k] = "queued" /\ fate'[k] = "flight"
              \/ fate[k] = "held" /\ fate'[k] = "done"
  BY <1>1 DEF Moves, Over
<1>3. Lambdas(t)'
  BY <1>2 DEF Lambdas
<1>4. ASSUME NEW k \in ahead[t]
      PROVE  /\ k # b /\ fate'[k] \notin {"new", "delayed"}
             /\ fate'[b] = "queued" => /\ fate'[k] # "held"
                                       /\ fate'[k] = "queued" => Before(list', k, b)
             /\ fate'[b] = "held" =>
                   /\ fate'[k] # "queued"
                   /\ fate'[k] = "held" => \E u \in Threads : Before(held'[u], k, b)
             /\ fate'[b] \in Over => fate'[k] \notin {"queued", "held"}
  <2>1. /\ k \in Thunks /\ k # b /\ fate[k] \notin {"new", "delayed"}
        /\ fate[b] \notin {"new", "delayed"}
        /\ fate[b] = "queued" => fate[k] # "held" /\ (fate[k] = "queued" => Before(list, k, b))
        /\ fate[b] = "held" =>
              /\ fate[k] # "queued"
              /\ fate[k] = "held" => \E u \in Threads : Before(held[u], k, b)
        /\ fate[b] \in Over => fate[k] \notin {"queued", "held"}
    BY <1>1 DEF Flushes, FlushesIn, Lambdas
  <2>2. Before(list, k, b) =>
        /\ fate'[b] # "flight"
        /\ fate'[k] = "queued" /\ fate'[b] = "queued" => Before(list', k, b)
        /\ fate'[b] = "held" \/ fate'[k] = "held"
             => /\ fate'[b] = "held" /\ fate'[k] = "held"
                /\ \E u \in Threads : Before(held'[u], k, b)
    BY <2>1 DEF Lawful, ListInOrder
  <2>3. \A u \in Threads : Before(held[u], k, b) =>
        /\ fate'[b] # "done"
        /\ fate'[k] = "held" /\ fate'[b] = "held" => Before(held'[u], k, b)
    BY <2>1 DEF Lawful, HeldInOrder
  <2>4. k # b /\ fate'[k] \notin {"new", "delayed"}
    BY <1>2, <2>1
  <2>5. ASSUME fate'[b] = "queued"
        PROVE  fate'[k] # "held" /\ (fate'[k] = "queued" => Before(list', k, b))
    BY <1>2, <2>1, <2>2, <2>5
  <2>6. ASSUME fate'[b] = "held"
        PROVE  /\ fate'[k] # "queued"
               /\ fate'[k] = "held" => \E u \in Threads : Before(held'[u], k, b)
    BY <1>2, <2>1, <2>2, <2>3, <2>6
  <2>7. ASSUME fate'[b] \in Over
        PROVE  fate'[k] \notin {"queued", "held"}
    BY <1>2, <2>1, <2>2, <2>3, <2>7 DEF Over
  <2> QED BY <2>4, <2>5, <2>6, <2>7
<1>5. FlushesIn(ahead[t], b, fate', list', held')
  BY <1>4 DEF FlushesIn
<1>6. FlushesIn(ahead'[t], bar'[t], fate', list', held')
  BY <1>5
<1>7. Flushes(t)'
  BY ONLY <1>6 DEF Flushes, FlushesIn, Over, Before
<1> QED BY <1>3, <1>7

\* A step that starts no Barrier and sets only the flags of lambdas that run.
LEMMA KeepBarriers ==
    ASSUME Invariant, Invariant', Lawful, Called, Barriers, UNCHANGED << bar, ahead, lambda >>,
           \A t \in Threads : complete'[t] => complete[t] \/ (bar[t] # NoThunk /\ fate'[bar[t]] \in Over)
    PROVE  Barriers'
<1>1. \A t \in Threads : bar[t] \in Thunks \cup {NoThunk}
  BY DEF Invariant, TypeOK
<1>2. ASSUME NEW t \in Threads, bar[t] # NoThunk PROVE Lambdas(t)' /\ Flushes(t)'
  <2>1. PICK b \in Thunks : b = bar[t]
    BY <1>1, <1>2
  <2>2. Lambdas(t) /\ Flushes(t)
    BY <1>2 DEF Barriers
  <2> QED BY <2>1, <2>2, LawfulFlushes
<1>3. \A t \in Threads : bar[t] = NoThunk => ~complete'[t] /\ ahead'[t] = {}
  BY DEF Barriers
<1> QED BY <1>2, <1>3 DEF Barriers

\* A thunk that is linked comes behind all that is on the list.
LEMMA LinkedBehind ==
    ASSUME TypeOK, ListIsQueue, NEW k \in Thunks, fate[k] = "new",
           k \in Range(Linked(<< k >>)), NEW j \in Range(Linked(<< k >>)), j # k
    PROVE  Before(Linked(<< k >>), j, k)
<1> DEFINE s == << k >>
<1>0. /\ IsChain(s) /\ Range(s) = {k} /\ s \in Seq(Thunks) /\ Len(s) = 1 /\ s[1] = k
      /\ k \notin Range(list)
  BY OneIsChain DEF ListIsQueue, Queued
<1>1. CASE list = << >>
  BY <1>0, <1>1 DEF Linked
<1>2. CASE list # << >> /\ ~ \E i \in DOMAIN list : list[i] = tail
  BY <1>0, <1>2 DEF Linked
<1>3. CASE list # << >> /\ \E i \in DOMAIN list : list[i] = tail
  <2> DEFINE n == CHOOSE i \in DOMAIN list : list[i] = tail
             p == SubSeq(list, 1, n)
  <2>1. n \in DOMAIN list
    BY <1>3
  <2>2. p \in Seq(Thunks)
    BY <2>1, PrefixFacts DEF TypeOK, ListIsQueue
  <2>3. Linked(s) = p \o s
    BY <1>3 DEF Linked
  <2> DEFINE c == Linked(s)
  <2> HIDE DEF p, s, c
  <2>4. /\ Len(p) \in Nat /\ DOMAIN c = 1 .. Len(p) + 1
        /\ \A i \in 1 .. Len(p) + 1 : c[i] = IF i <= Len(p) THEN p[i] ELSE s[i - Len(p)]
    <3>1. /\ Len(p) \in Nat /\ DOMAIN (p \o s) = 1 .. Len(p) + Len(s)
          /\ \A i \in 1 .. Len(p) + Len(s) : (p \o s)[i] = IF i <= Len(p) THEN p[i] ELSE s[i - Len(p)]
      BY <1>0, <2>2, ConcatProperties, LenProperties
    <3> QED BY <1>0, <2>3, <3>1 DEF c
  <2>5. c[Len(p) + 1] = k /\ Len(p) + 1 \in DOMAIN c
    BY <1>0, <2>4
  <2>6. PICK i \in DOMAIN c : c[i] = j
    BY DEF Range, c, s
  <2>7. i < Len(p) + 1
    BY <2>4, <2>5, <2>6
  <2>8. Before(c, j, k)
    BY <2>5, <2>6, <2>7 DEF Before
  <2> QED BY <2>8 DEF c, s
<1> QED BY <1>1, <1>2, <1>3

\* Entering Barrier.
LEMMA EnterBarriers ==
    ASSUME Invariant, Invariant', Lawful, Called, Barriers, NEW t \in Threads,
           NEW k \in Thunks, fate[k] = "new", NEW kind \in {"stack", "shared"}, EnterBarrier(t, k, kind),
           Link(k) \/ fate' = [fate EXCEPT ![k] = "dropped"]
    PROVE  Barriers'
<1>1. /\ \A u \in Threads : bar[u] \in Thunks \cup {NoThunk}
      /\ bar \in [Threads -> Thunks \cup {NoThunk}] /\ complete \in [Threads -> BOOLEAN]
      /\ ahead \in [Threads -> SUBSET Thunks] /\ lambda \in [Thunks -> {"no", "stack", "shared"}]
      /\ TypeOK /\ ListIsQueue
  BY DEF Invariant, TypeOK
<1>2. /\ bar'[t] = k /\ ~complete'[t] /\ ahead'[t] = Queued /\ lambda'[k] # "no"
      /\ \A u \in Threads \ {t} : bar'[u] = bar[u] /\ complete'[u] = complete[u] /\ ahead'[u] = ahead[u]
      /\ \A j \in Thunks \ {k} : lambda'[j] = lambda[j]
  BY <1>1 DEF EnterBarrier
<1>3. NoThunk \notin Thunks
  BY ConstantsAssumption
<1>4. ASSUME NEW u \in Threads, u # t PROVE /\ bar'[u] = NoThunk => ~complete'[u] /\ ahead'[u] = {}
                                           /\ bar'[u] # NoThunk => Lambdas(u)' /\ Flushes(u)'
  <2>1. CASE bar[u] = NoThunk
    BY <1>2, <1>4, <2>1 DEF Barriers
  <2>2. CASE bar[u] # NoThunk
    <3>1. PICK b \in Thunks : b = bar[u]
      BY <1>1, <2>2
    <3>2. Lambdas(u) /\ Flushes(u)
      BY <2>2 DEF Barriers
    <3>3. lambda'[b] = lambda[b]
      BY <1>2, <3>1, <3>2 DEF Lambdas
    <3> QED BY <1>2, <1>4, <2>2, <3>1, <3>2, <3>3, LawfulFlushes
  <2> QED BY <2>1, <2>2
<1>5. /\ fate'[k] \in {"queued", "lost", "dropped"}
      /\ \A j \in Queued : /\ j \in Thunks /\ j # k /\ fate'[j] \in {"queued", "lost"}
                           /\ fate'[j] = "queued" /\ fate'[k] = "queued" => Before(list', j, k)
  <2>0. \A j \in Queued : j \in Thunks /\ j # k /\ fate[j] = "queued"
    BY DEF Queued
  <2>1. CASE fate' = [fate EXCEPT ![k] = "dropped"]
    BY <2>0, <2>1, ListMembers
  <2>2. CASE Link(k)
    <3>1. list' = Linked(<< k >>) /\ fate' = LinkedFate(<< k >>)
      BY <2>2 DEF Link
    <3>2. IsChain(<< k >>) /\ Range(<< k >>) = {k}
      BY OneIsChain
    <3> DEFINE s == << k >>
    <3>a. IsChain(s) /\ k \in Range(s)
      BY <3>2
    <3> HIDE DEF s
    <3>3. \A j \in Thunks :
              /\ fate[j] = "queued" => LinkedFate(s)[j] \in {"queued", "lost"}
              /\ j \in Range(s) => LinkedFate(s)[j] \in {"queued", "lost"}
              /\ j \in Range(Linked(s)) <=> LinkedFate(s)[j] = "queued"
      BY <3>a, LinkedMoves
    <3>4. \A j \in Range(Linked(s)) : j # k /\ k \in Range(Linked(s)) => Before(Linked(s), j, k)
      BY <1>1, LinkedBehind DEF s
    <3>5. list' = Linked(s) /\ fate' = LinkedFate(s)
      BY <3>1 DEF s
    <3> QED BY <2>0, <3>a, <3>3, <3>4, <3>5
  <2> QED BY <2>1, <2>2
<1>6. Lambdas(t)'
  BY <1>2, <1>5 DEF Lambdas
<1>7. FlushesIn(Queued, k, fate', list', held')
  <2> SUFFICES ASSUME NEW j \in Queued
               PROVE  /\ j # k /\ fate'[j] \notin {"new", "delayed", "held"}
                      /\ fate'[k] = "queued" => (fate'[j] = "queued" => Before(list', j, k))
                      /\ fate'[k] # "held" /\ fate'[k] \notin Over
    BY DEF FlushesIn
  <2> QED BY <1>5 DEF Over
<1>8. FlushesIn(ahead'[t], bar'[t], fate', list', held')
  BY <1>2, <1>7
<1>9. Flushes(t)'
  BY ONLY <1>8 DEF Flushes, FlushesIn, Over, Before
<1> QED BY <1>2, <1>3, <1>4, <1>6, <1>9 DEF Barriers

\* Leaving it.
LEMMA LeaveBarriers ==
    ASSUME Invariant, Invariant', Lawful, Called, Barriers, NEW t \in Threads, LeaveBarrier(t)
    PROVE  Barriers'
<1>1. /\ \A u \in Threads : bar[u] \in Thunks \cup {NoThunk}
      /\ bar \in [Threads -> Thunks \cup {NoThunk}] /\ complete \in [Threads -> BOOLEAN]
      /\ ahead \in [Threads -> SUBSET Thunks]
  BY DEF Invariant, TypeOK
<1>2. /\ bar'[t] = NoThunk /\ ~complete'[t] /\ ahead'[t] = {} /\ lambda' = lambda
      /\ \A u \in Threads \ {t} : bar'[u] = bar[u] /\ complete'[u] = complete[u] /\ ahead'[u] = ahead[u]
  BY <1>1 DEF LeaveBarrier
<1>3. ASSUME NEW u \in Threads, u # t PROVE /\ bar'[u] = NoThunk => ~complete'[u] /\ ahead'[u] = {}
                                           /\ bar'[u] # NoThunk => Lambdas(u)' /\ Flushes(u)'
  <2>1. CASE bar[u] = NoThunk
    BY <1>2, <1>3, <2>1 DEF Barriers
  <2>2. CASE bar[u] # NoThunk
    <3>1. PICK b \in Thunks : b = bar[u]
      BY <1>1, <2>2
    <3>2. Lambdas(u) /\ Flushes(u)
      BY <2>2 DEF Barriers
    <3> QED BY <1>2, <1>3, <2>2, <3>1, <3>2, LawfulFlushes
  <2> QED BY <2>1, <2>2
<1> QED BY <1>2, <1>3 DEF Barriers

\* Every step keeps the invariant of the Barriers.
LEMMA StepBarriers ==
    ASSUME Invariant, Invariant', Emptied, Called, Barriers, Next
    PROVE  Barriers'
<1>0. Lawful
  BY NextLawful
<1> USE DEF localVars, barVars
<1>1. ASSUME NEW t \in Threads, Barrier(t) PROVE Barriers'
  <2>1. PICK k \in Thunks : /\ fate[k] = "new" /\ EnterBarrier(t, k, "stack")
                            /\ Link(k) \/ fate' = [fate EXCEPT ![k] = "dropped"]
    BY <1>1 DEF Barrier
  <2> QED BY <1>0, <2>1, EnterBarriers
<1>2. ASSUME NEW t \in Threads, BarrierFor(t), ~aborted PROVE Barriers'
  <2>1. PICK k \in Thunks : fate[k] = "new" /\ EnterBarrier(t, k, "shared") /\ Link(k)
    BY <1>2 DEF BarrierFor
  <2> QED BY <1>0, <2>1, EnterBarriers
<1>3. ASSUME NEW t \in Threads, LeaveBarrier(t) PROVE Barriers'
  BY <1>0, <1>3, LeaveBarriers
<1>4. ASSUME NEW t \in Threads, RunThunk(t) PROVE Barriers'
  <2>1. /\ cur[t] \in Thunks /\ fate[cur[t]] = "flight" /\ fate' = fate
        /\ UNCHANGED << bar, ahead, lambda >>
    BY <1>4 DEF RunThunk, Invariant, Ownership, CurOwned, Executing, listVars
  <2>2. \A u \in Threads : complete'[u] => complete[u] \/ bar[u] = cur[t]
    BY <1>4 DEF RunThunk, SetComplete
  <2>3. NoThunk \notin Thunks
    BY ConstantsAssumption
  <2> QED BY <1>0, <2>1, <2>2, <2>3, KeepBarriers DEF Over
<1>5. ASSUME NEW t \in Threads, DrainRun(t) PROVE Barriers'
  <2>1. PICK h \in Thunks : h = Head(held[t])
    <3>1. held[t] \in Seq(Thunks) /\ held[t] # << >>
      BY <1>5 DEF DrainRun, Invariant, TypeOK, Ownership, HeldOwned
    <3> QED BY <3>1, HeadTailProperties
  <2>2. /\ UNCHANGED << bar, ahead, lambda >>
        /\ \A u \in Threads : complete'[u] => complete[u] \/ bar[u] = h
    BY <1>5, <2>1 DEF DrainRun, SetComplete
  <2>3. lambda[h] # "no" => fate'[h] = "done"
    <3>1. lambda[h] # "no" => fate' = [fate EXCEPT ![h] = "done"]
      BY <1>5, <2>1 DEF DrainRun, OutcomesOf
    <3> QED BY <3>1, ListMembers
  <2>4. NoThunk \notin Thunks
    BY ConstantsAssumption
  <2>5. \A u \in Threads : bar[u] = h => lambda[h] # "no"
    BY <2>4 DEF Barriers, Lambdas
  <2> QED BY <1>0, <2>2, <2>3, <2>4, <2>5, KeepBarriers DEF Over
<1>6. ASSUME UNCHANGED barVars PROVE Barriers'
  BY <1>0, <1>6, KeepBarriers
<1>7. ASSUME NEW t \in Threads, Request(t), ~Barrier(t)
      PROVE  UNCHANGED barVars \/ (BarrierFor(t) /\ ~aborted)
  BY <1>7 DEF Request, Pend, PendExisting, PendDelayed, AppendQueue, WaitForEvent, WaitForEventUntil,
       ClearQueue, Cancel, WakeAll, SetDispatcherCap, BarrierFor
<1>8. ASSUME NEW t \in Threads, Continue(t), ~RunThunk(t), ~DrainRun(t)
      PROVE  UNCHANGED barVars \/ LeaveBarrier(t)
  BY <1>8 DEF Continue, PutBack, Decrement, NotifyZero, DeleteThunk, WaitPredicate, Block, Reacquire,
       TimedWake, DrainNext, Sweep, LateNotify, BarrierWait, BarrierForWake
<1>9. ASSUME NEW t \in Threads, Dispatch(t) \/ SpuriousWake(t) PROVE UNCHANGED barVars
  BY <1>9 DEF Dispatch, SpuriousWake
<1>10. Tick => UNCHANGED barVars
  BY DEF Tick
<1> QED BY <1>1, <1>2, <1>3, <1>4, <1>5, <1>6, <1>7, <1>8, <1>9, <1>10 DEF Next

\* Whoever calls what, if no thunk goes back to the list: once Barrier may succeed, what
\* was on the list when it was called has been invoked or dropped.
THEOREM BarriersFlush ==
    ASSUME NeverPutBack
    PROVE  Spec => []BarrierFlushes
<1> DEFINE Inv == Called /\ Barriers
<1>1. Init => Inv
  BY InitBarriers
<1>2. Invariant /\ Invariant' /\ Emptied /\ Inv /\ [Next]_vars => Inv'
  <2> SUFFICES ASSUME Invariant, Invariant', Emptied, Called, Barriers, [Next]_vars
               PROVE  Called' /\ Barriers'
    OBVIOUS
  <2>1. CASE Next
    BY <2>1, StepCalled, StepBarriers DEF Invariant, Ownership
  <2>2. CASE UNCHANGED vars
    <3>1. UNCHANGED << fate, list, held, op, pc, bar, complete, ahead, lambda >>
      BY <2>2 DEF vars, listVars, localVars, barVars
    <3>2. Called'
      BY <3>1 DEF Called
    <3>3. Barriers'
      BY <3>1, StayLawful, KeepBarriers
    <3> QED BY <3>2, <3>3
  <2> QED BY <2>1, <2>2
<1>3. Invariant /\ Inv => BarrierFlushes
  BY BarriersFlushed
<1> QED BY <1>1, <1>2, <1>3, InvariantHolds, EmptiedHolds, PTL DEF Spec

-----------------------------------------------------------------------------
(* Wakeups *)

Locked == {"pred", "block"}

\* Whoever is between the predicate and the block holds the lock, and the predicate is
\* false all that time.
LockHeld ==
    /\ \A t \in Threads : pc[t] \in Locked <=> lock = t
    /\ \A t \in Threads : pc[t] = "block" => list = << >> /\ ~aborted /\ Delayed = {}

\* A step under the lock, and one that leaves alone what the lock protects.
UnderLock(t, p) ==
    /\ LockFree \/ lock = t
    /\ p \in Locked => lock' = t
    /\ p \notin Locked => lock' = NoThread
    /\ p = "block" => list' = << >> /\ ~aborted' /\ Delayed' = {}

Outside(t, p) ==
    /\ pc[t] \notin Locked /\ p \notin Locked
    /\ UNCHANGED << lock, list, aborted >>
    /\ Delayed' \subseteq Delayed

\* A step of thread t to p, under the lock or outside it.
LEMMA LockKept ==
    ASSUME pc \in [Threads -> PCs], LockHeld, NEW t \in Threads, NEW p, Goto(t, p),
           UnderLock(t, p) \/ Outside(t, p)
    PROVE  LockHeld'
<1>0. NoThread \notin Threads
  BY ConstantsAssumption
<1>1. /\ pc'[t] = p
      /\ \A u \in Threads : u # t => pc'[u] = pc[u]
  BY DEF Goto
<1>2. CASE UnderLock(t, p)
  BY <1>0, <1>1, <1>2 DEF LockHeld, LockFree, UnderLock, Locked
<1>3. CASE Outside(t, p)
  BY <1>0, <1>1, <1>3 DEF LockHeld, Outside, Locked
<1> QED BY <1>2, <1>3

\* Every step is of one kind or the other.
LEMMA StepLock ==
    ASSUME TypeOK, LockHeld, Next
    PROVE  LockHeld'
<1>a. pc \in [Threads -> PCs] /\ fate \in [Thunks -> Fates]
  BY DEF TypeOK
<1>b. ASSUME NEW t \in Threads, pc[t] \in Locked PROVE lock = t
  BY <1>b DEF LockHeld
<1> USE <1>a DEF Locked
<1>1. ASSUME NEW t \in Threads, Request(t) PROVE LockHeld'
  <2> USE DEF Call, stateVars, cvVars
  <2>1. CASE Pend(t)
    <3>1. Goto(t, "idle") /\ UnderLock(t, "idle")
      BY ONLY <2>1 DEF Pend, UnderLock, LockFree, Call, Locked
    <3> QED BY <3>1, LockKept
  <2>2. CASE PendExisting(t)
    <3>1. Goto(t, "idle") /\ UnderLock(t, "idle")
      BY ONLY <2>2 DEF PendExisting, UnderLock, LockFree, Call, Locked
    <3> QED BY <3>1, LockKept
  <2>3. CASE PendDelayed(t)
    <3>1. \E p \in {"idle", "notify"} : Goto(t, p) /\ UnderLock(t, p)
      BY ONLY <2>3 DEF PendDelayed, UnderLock, LockFree, Call, Locked, cvVars
    <3> QED BY <3>1, LockKept
  <2>4. CASE AppendQueue(t)
    <3>1. Goto(t, "idle") /\ UnderLock(t, "idle")
      BY ONLY <2>4 DEF AppendQueue, UnderLock, LockFree, Call, Locked
    <3> QED BY <3>1, LockKept
  <2>5. CASE WaitForEvent(t)
    <3>1. \E p \in {"idle", "pred"} : Goto(t, p) /\ UnderLock(t, p)
      BY ONLY <2>5 DEF WaitForEvent, UnderLock, LockFree, Call, Locked
    <3> QED BY <3>1, LockKept
  <2>6. CASE WaitForEventUntil(t)
    <3>1. \E p \in {"idle", "run", "timed"} : Goto(t, p) /\ UnderLock(t, p)
      BY ONLY <2>6 DEF WaitForEventUntil, UnderLock, LockFree, Call, Locked
    <3> QED BY <3>1, LockKept
  <2>7. CASE ClearQueue(t)
    <3>1. \E p \in {"drain", "sweep"} : Goto(t, p) /\ UnderLock(t, p)
      BY ONLY <2>7 DEF ClearQueue, UnderLock, LockFree, Call, Locked, cvVars
    <3> QED BY <3>1, LockKept
  <2>8. CASE Cancel(t)
    <3>1. Goto(t, "idle") /\ UnderLock(t, "idle")
      BY ONLY <2>8 DEF Cancel, UnderLock, LockFree, Call, Locked, cvVars
    <3> QED BY <3>1, LockKept
  <2>9. CASE WakeAll(t)
    <3>1. Goto(t, "notify") /\ Outside(t, "notify")
      BY ONLY <2>9 DEF WakeAll, Outside, Call, Locked, cvVars, listVars, Delayed
    <3> QED BY <3>1, LockKept
  <2>10. CASE SetDispatcherCap(t)
    <3>1. Goto(t, "idle") /\ Outside(t, "idle")
      BY ONLY <2>10 DEF SetDispatcherCap, Outside, Call, Locked, cvVars, listVars, Delayed
    <3> QED BY <3>1, LockKept
  <2>11. CASE Barrier(t)
    <3>1. Goto(t, "barrier") /\ UnderLock(t, "barrier")
      BY ONLY <2>11 DEF Barrier, UnderLock, LockFree, Call, Locked
    <3> QED BY <3>1, LockKept
  <2>12. CASE BarrierFor(t)
    <3>1. \E p \in {"idle", "btimed"} : Goto(t, p) /\ UnderLock(t, p)
      BY ONLY <2>12 DEF BarrierFor, UnderLock, LockFree, Call, Locked
    <3> QED BY <3>1, LockKept
  <2> QED BY <1>1, <2>1, <2>2, <2>3, <2>4, <2>5, <2>6, <2>7, <2>8, <2>9, <2>10, <2>11, <2>12
      DEF Request
<1>2. ASSUME NEW t \in Threads, Continue(t) PROVE LockHeld'
  <2>1. CASE RunThunk(t)
    <3>1. \E p \in {"dec", "putback"} : Goto(t, p) /\ Outside(t, p)
      BY ONLY <2>1 DEF RunThunk, Outside, Locked, cvVars, stateVars, listVars, Delayed
    <3> QED BY <3>1, LockKept
  <2>2. CASE PutBack(t)
    <3>1. Goto(t, "idle") /\ UnderLock(t, "idle")
      BY ONLY <2>2 DEF PutBack, UnderLock, LockFree, Leave, Locked, cvVars
    <3> QED BY <3>1, LockKept
  <2>3. CASE Decrement(t)
    <3>1. Goto(t, AfterDecrement) /\ Outside(t, AfterDecrement)
      BY <2>3 DEF Decrement, Outside, cvVars, stateVars, Delayed, AfterDecrement
    <3> QED BY <3>1, LockKept
  <2>4. CASE NotifyZero(t)
    <3>1. Goto(t, "delete") /\ UnderLock(t, "delete")
      BY ONLY <2>4 DEF NotifyZero, UnderLock, LockFree, Locked
    <3> QED BY <3>1, LockKept
  <2>5. CASE DeleteThunk(t)
    <3>1. \E p \in {"again", "idle"} : Goto(t, p) /\ Outside(t, p)
      BY <2>5 DEF DeleteThunk, Outside, cvVars, stateVars, Delayed, Leave
    <3> QED BY <3>1, LockKept
  <2>6. CASE WaitPredicate(t)
    <3>0. lock = t
      BY <1>b, <2>6 DEF WaitPredicate
    <3>1. \E p \in {"idle", "run", "timed", "block"} : Goto(t, p) /\ UnderLock(t, p)
      BY ONLY <2>6, <3>0 DEF WaitPredicate, UnderLock, Leave, Locked, stateVars, listVars, Delayed
    <3> QED BY <3>1, LockKept
  <2>7. CASE Block(t)
    <3>0. lock = t
      BY <1>b, <2>7 DEF Block
    <3>1. Goto(t, "asleep") /\ UnderLock(t, "asleep")
      BY ONLY <2>7, <3>0 DEF Block, UnderLock, Locked
    <3> QED BY <3>1, LockKept
  <2>8. CASE Reacquire(t)
    <3>1. Goto(t, "pred") /\ UnderLock(t, "pred")
      BY ONLY <2>8 DEF Reacquire, UnderLock, Locked
    <3> QED BY <3>1, LockKept
  <2>9. CASE TimedWake(t)
    <3>1. \/ \E p \in {"idle", "run"} : Goto(t, p) /\ UnderLock(t, p)
          \/ UNCHANGED << lock, list, aborted, fate, pc >>
      BY ONLY <2>9 DEF TimedWake, UnderLock, LockFree, Leave, Locked, stateVars, listVars
    <3> QED BY <3>1, LockKept DEF LockHeld, Delayed
  <2>10. CASE DrainNext(t)
    <3>1. \E p \in {"sweep", "invoke"} : Goto(t, p) /\ Outside(t, p)
      BY ONLY <2>10 DEF DrainNext, Outside, Locked, cvVars, stateVars, listVars, Delayed
    <3> QED BY <3>1, LockKept
  <2>11. CASE DrainRun(t)
    <3>1. \E p \in {"sweep", "drain"} : Goto(t, p) /\ Outside(t, p)
      BY <2>11 DEF DrainRun, Outside, cvVars, stateVars, Delayed, AfterInvoke
    <3> QED BY <3>1, LockKept
  <2>12. CASE Sweep(t)
    <3>1. Goto(t, "notify") /\ Outside(t, "notify")
      BY <2>12 DEF Sweep, Outside, cvVars, stateVars, Delayed
    <3> QED BY <3>1, LockKept
  <2>13. CASE LateNotify(t)
    <3>1. Goto(t, "idle") /\ Outside(t, "idle")
      BY ONLY <2>13 DEF LateNotify, Outside, Leave, Locked, cvVars, stateVars, listVars, Delayed
    <3> QED BY <3>1, LockKept
  <2>14. CASE BarrierWait(t)
    <3>1. \E p \in {"idle", "bwait"} : Goto(t, p) /\ UnderLock(t, p)
      BY ONLY <2>14 DEF BarrierWait, UnderLock, LockFree, LeaveBarrier, Leave, Locked
    <3> QED BY <3>1, LockKept
  <2>15. CASE BarrierForWake(t)
    <3>1. \/ Goto(t, "idle") /\ UnderLock(t, "idle")
          \/ UNCHANGED << lock, list, aborted, fate, pc >>
      BY ONLY <2>15 DEF BarrierForWake, UnderLock, LockFree, LeaveBarrier, Leave, Locked, stateVars,
                           listVars
    <3> QED BY <3>1, LockKept DEF LockHeld, Delayed
  <2> QED BY <1>2, <2>1, <2>2, <2>3, <2>4, <2>5, <2>6, <2>7, <2>8, <2>9, <2>10, <2>11, <2>12,
             <2>13, <2>14, <2>15 DEF Continue
<1>3. ASSUME NEW t \in Threads, Dispatch(t) PROVE LockHeld'
  <2>1. \E p \in {"idle", "run"} : Goto(t, p) /\ UnderLock(t, p)
    BY ONLY <1>3 DEF Dispatch, UnderLock, LockFree, Call, Leave, Locked, cvVars
  <2> QED BY <2>1, LockKept
<1>4. ASSUME NEW t \in Threads, SpuriousWake(t) PROVE LockHeld'
  <2>1. UNCHANGED << lock, list, aborted, fate, pc >>
    BY ONLY <1>4 DEF SpuriousWake, stateVars, listVars
  <2> QED BY <2>1 DEF LockHeld, Delayed
<1>5. ASSUME Tick PROVE LockHeld'
  <2>1. UNCHANGED << lock, list, aborted, fate, pc >>
    BY ONLY <1>5 DEF Tick, stateVars, listVars, cvVars
  <2> QED BY <2>1 DEF LockHeld, Delayed
<1> QED BY <1>1, <1>2, <1>3, <1>4, <1>5 DEF Next

Sleepy == {"asleep", "timed"}
Clears == {"drain", "invoke", "sweep", "notify"}

\* Thread t, whose step leads to p, wakes everybody else in WaitForEvent.
Wakes(t, p) == asleep' \subseteq {t} /\ p \notin Sleepy

\* Or it gives nobody a reason to wake, unless a notification is on its way.
Steady(t, p) ==
    /\ pc[t] = "zero" => p = "zero"
    /\ pc[t] \in Clears => p \in Clears
    /\ list' # << >> => list # << >> \/ pc[t] = "putback" \/ Delayed # {}
    /\ aborted' => aborted \/ p \in Clears
    /\ \A k \in Delayed' : \/ k \in Delayed /\ ready'[k] = ready[k]
                           \/ \E j \in Delayed : ready[j] <= ready'[k]
                           \/ count > 0 \/ p \in Clears
    /\ count > 0 => count' > 0 \/ p = "zero" \/ p \in Clears \/ "Cancel" \in Calls[t]

\* It falls asleep only when there is nothing to run, or sleeps on.
Lies(t, p) ==
    t \in asleep' /\ p \in Sleepy
        => \/ t \in asleep /\ pc[t] = p /\ wake'[t] = wake[t]
           \/ pc[t] = "block" /\ p = "asleep" /\ UNCHANGED << list, aborted, fate >>
           \/ p = "timed" /\ \A k \in Delayed' : wake'[t] <= ready'[k]

\* It puts nobody else to sleep.
Others(t) ==
    /\ asleep' \subseteq asleep \cup {t}
    /\ \A u \in Threads \ {t} : wake'[u] = wake[u]

Heeds(t, p) == Goto(t, p) /\ Others(t) /\ Lies(t, p) /\ (Wakes(t, p) \/ Steady(t, p))

\* The delayed thunks stay as they are, or leave.
DelayedStay ==
    \A k \in Thunks : fate'[k] = "delayed" => fate[k] = "delayed" /\ ready'[k] = ready[k]

\* A step that heeds the sleepers leaves none of them past a delayed thunk.
LEMMA AwaitedStep ==
    ASSUME TypeOK, TypeOK', LockHeld, DelayedIsAwaited, \A t \in Threads : "Cancel" \notin Calls[t],
           NEW t \in Threads, NEW p, Heeds(t, p)
    PROVE  DelayedIsAwaited'
<1> SUFFICES ASSUME NEW u \in Threads, NEW k \in Thunks, fate'[k] = "delayed",
                    u \in asleep', pc'[u] \in Sleepy,
                    ~(pc'[u] = "timed" /\ wake'[u] <= ready'[k]), ~(count' > 0)
             PROVE  \E v \in Threads : pc'[v] = "zero" \/ pc'[v] \in Clears
  BY DEF DelayedIsAwaited, Delayed, Clearing, Clears, Sleepy
<1>1. /\ pc'[t] = p
      /\ \A v \in Threads : v # t => pc'[v] = pc[v]
  BY DEF Heeds, Goto, TypeOK
<1>2. /\ count \in Nat /\ count' \in Nat
      /\ ready \in [Thunks -> Nat] /\ ready' \in [Thunks -> Nat] /\ wake \in [Threads -> Nat]
  BY DEF TypeOK
<1>3. Others(t) /\ Lies(t, p)
  BY DEF Heeds
<1>4. u \in asleep /\ pc[u] = pc'[u] /\ wake'[u] = wake[u]
  <2>1. CASE u # t
    BY <1>1, <1>3, <2>1 DEF Others
  <2>2. CASE u = t
    <3>1. ~(pc[t] = "block" /\ UNCHANGED fate)
      BY DEF LockHeld, Delayed
    <3> QED BY <1>1, <1>3, <2>2, <3>1 DEF Lies, Delayed
  <2> QED BY <2>1, <2>2
<1>5. CASE Wakes(t, p)
  BY <1>1, <1>5 DEF Wakes
<1>6. CASE Steady(t, p)
  <2>1. CASE p \in Clears \/ p = "zero"
    BY <1>1, <2>1
  <2>2. CASE p \notin Clears /\ p # "zero"
    <3>1. ~(count > 0)
      BY <1>6, <2>2 DEF Steady
    <3>2. PICK j \in Thunks : fate[j] = "delayed" /\ ready[j] <= ready'[k]
      BY <1>2, <1>6, <2>2, <3>1 DEF Steady, Delayed
    <3>3. ~(pc[u] = "timed" /\ wake[u] <= ready[j])
      BY <1>2, <1>4, <3>2
    <3>4. PICK v \in Threads : pc[v] = "zero" \/ Clearing(v)
      BY <1>4, <3>1, <3>2, <3>3 DEF DelayedIsAwaited, Delayed, Sleepy
    <3>5. pc'[v] = pc[v]
      BY <1>1, <1>6, <2>2, <3>4 DEF Steady, Clearing, Clears
    <3> QED BY <3>4, <3>5 DEF Clearing, Clears
  <2> QED BY <2>1, <2>2
<1> QED BY <1>5, <1>6 DEF Heeds

\* Nor past a thunk on the list.
LEMMA WakeupStep ==
    ASSUME TypeOK, LockHeld, NoLostWakeup, Called, Delayed = {}, Delayed' = {},
           NEW t \in Threads, NEW p, Heeds(t, p)
    PROVE  NoLostWakeup'
<1> SUFFICES ASSUME NEW u \in Threads, u \in asleep', pc'[u] = "asleep", list' # << >> \/ aborted'
             PROVE  \E v \in Threads : pc'[v] \in Clears
  BY DEF NoLostWakeup, Clearing, Clears
<1>1. /\ pc'[t] = p
      /\ \A v \in Threads : v # t => pc'[v] = pc[v]
  BY DEF Heeds, Goto, TypeOK
<1>3. Others(t) /\ Lies(t, p)
  BY DEF Heeds
<1>4. u \in asleep /\ pc[u] = "asleep"
  <2>1. CASE u # t
    BY <1>1, <1>3, <2>1 DEF Others
  <2>2. CASE u = t
    <3>1. ~(pc[t] = "block" /\ UNCHANGED << list, aborted >>)
      BY DEF LockHeld
    <3> QED BY <1>1, <1>3, <2>2, <3>1 DEF Lies, Sleepy
  <2> QED BY <2>1, <2>2
<1>5. CASE Wakes(t, p)
  BY <1>1, <1>5 DEF Wakes, Sleepy
<1>6. CASE Steady(t, p)
  <2>1. CASE p \in Clears
    BY <1>1, <2>1
  <2>2. CASE p \notin Clears
    <3>1. list # << >> \/ aborted
      BY <1>6, <2>2 DEF Steady, Called
    <3>2. PICK v \in Threads : Clearing(v)
      BY <1>4, <3>1 DEF NoLostWakeup
    <3>3. pc'[v] = pc[v]
      BY <1>1, <1>6, <2>2, <3>2 DEF Steady, Clearing, Clears
    <3> QED BY <3>2, <3>3 DEF Clearing, Clears
  <2> QED BY <2>1, <2>2
<1> QED BY <1>5, <1>6 DEF Heeds

\* Who does not wait himself, and changes nothing a wait is about.
LEMMA PlainHeeds ==
    ASSUME TypeOK, NEW t \in Threads, NEW p, Goto(t, p), p \notin Sleepy,
           \A u \in Threads \ {t} : wake'[u] = wake[u],
           asleep' \subseteq asleep \cup {t},
           asleep' \subseteq {t} \/ Steady(t, p)
    PROVE  Heeds(t, p)
  BY DEF Heeds, Others, Lies, Wakes

\* Linking delays no thunk.
LEMMA LinkedDelayed ==
    ASSUME fate \in [Thunks -> Fates], NEW s
    PROVE  \A j \in Thunks : LinkedFate(s)[j] = "delayed" => fate[j] = "delayed"
  BY DEF LinkedFate

\* Whoever hangs a thunk on an empty list wakes the sleepers.
LEMMA LinkHeeds ==
    ASSUME TypeOK, NEW t \in Threads, NEW p, Goto(t, p), p \notin Sleepy, UNCHANGED aborted,
           \A u \in Threads \ {t} : wake'[u] = wake[u], pc[t] = "idle",
           NEW k \in Thunks, Link(k), asleep' \subseteq (IF list = << >> THEN {} ELSE asleep) \cup {t}
    PROVE  Heeds(t, p) /\ DelayedStay
<1>1. DelayedStay
  BY LinkedDelayed DEF Link, DelayedStay, TypeOK
<1>0. asleep' \subseteq asleep \cup {t}
  OBVIOUS
<1>2. CASE list = << >>
  <2>1. asleep' \subseteq {t}
    BY <1>2
  <2> QED BY <1>0, <1>1, <2>1, PlainHeeds
<1>3. CASE list # << >>
  <2>1. count' > 0
    BY DEF Link, TypeOK
  <2>2. Steady(t, p)
    BY <1>1, <1>3, <2>1 DEF Steady, DelayedStay, Delayed, Clears
  <2> QED BY <1>0, <1>1, <2>2, PlainHeeds
<1> QED BY <1>1, <1>2, <1>3

\* A step that neither ends a notification nor touches the list.
LEMMA AsideHeeds ==
    ASSUME TypeOK, NEW t \in Threads, NEW p, Goto(t, p), p \notin Sleepy,
           UNCHANGED << list, aborted >>,
           \A u \in Threads \ {t} : wake'[u] = wake[u],
           asleep' \subseteq asleep \cup {t}, DelayedStay,
           pc[t] = "zero" => p = "zero",
           pc[t] \in Clears => p \in Clears,
           count' = count \/ p \in Clears \/ p = "zero" \/ (count' = count - 1 /\ count # 1)
    PROVE  Heeds(t, p)
<1>1. count > 0 => count' > 0 \/ p = "zero" \/ p \in Clears
  BY DEF TypeOK
<1>2. Steady(t, p)
  BY <1>1 DEF Steady, DelayedStay, Delayed
<1> QED BY <1>2, PlainHeeds

\* A pop leaves no more on the list than there was, unless it promotes.
LEMMA PopHeeds ==
    ASSUME TypeOK, NEW t \in Threads, Goto(t, "run"), pc[t] \notin Clears \cup {"zero"},
           UNCHANGED aborted, \A u \in Threads \ {t} : wake'[u] = wake[u],
           asleep' \subseteq asleep \cup {t},
           \/ list # << >> /\ PopHead(t)
           \/ Ready # {} /\ PromoteAndPop(t)
    PROVE  Heeds(t, "run") /\ DelayedStay
<1>1. PICK f : /\ \A j \in Thunks : f[j] = "delayed" => fate[j] = "delayed"
               /\ DOMAIN f = Thunks
               /\ \E h : fate' = [f EXCEPT ![h] = "flight"]
  <2>1. CASE PopHead(t)
    BY <2>1 DEF PopHead, Pop, TypeOK
  <2>2. CASE PromoteAndPop(t)
    <3>1. PICK s \in Chains(Ready) : Pop(t, Linked(s), LinkedFate(s))
      BY <2>2 DEF PromoteAndPop
    <3>2. \E h : fate' = [LinkedFate(s) EXCEPT ![h] = "flight"]
      BY <3>1 DEF Pop
    <3>3. DOMAIN LinkedFate(s) = Thunks
      BY DEF LinkedFate
    <3>4. \A j \in Thunks : LinkedFate(s)[j] = "delayed" => fate[j] = "delayed"
      BY LinkedDelayed DEF TypeOK
    <3> QED BY <3>2, <3>3, <3>4
  <2> QED BY <2>1, <2>2
<1>2. KeepReady
  BY DEF PopHead, PromoteAndPop, Pop
<1>3. DelayedStay
  BY <1>1, <1>2 DEF KeepReady, DelayedStay
<1>4. list # << >> \/ Delayed # {}
  BY DEF Ready
<1>5. count > 0 => count' > 0
  <2>1. CASE PopHead(t)
    BY <2>1 DEF PopHead
  <2>2. CASE PromoteAndPop(t)
    <3>1. PICK s \in Chains(Ready) : count' = count + Len(s)
      BY <2>2 DEF PromoteAndPop
    <3>2. s \in [1 .. Cardinality(Ready) -> Ready]
      BY DEF Chains, Bijection, Injection
    <3>3. Cardinality(Ready) \in Nat
      BY ConstantsAssumption, FS_Subset, FS_CardinalityType DEF Ready, Delayed
    <3>4. Len(s) \in Nat
      BY <3>2, <3>3
    <3> QED BY <3>1, <3>4 DEF TypeOK
  <2> QED BY <2>1, <2>2
<1>6. Steady(t, "run")
  BY <1>3, <1>4, <1>5 DEF Steady, DelayedStay, Delayed, Clears
<1>7. Others(t)
  BY DEF Others
<1> QED BY <1>3, <1>6, <1>7 DEF Heeds, Lies, Sleepy

\* A timed wait until no delayed thunk is overdue.
LEMMA SleepHeeds ==
    ASSUME TypeOK, NEW t \in Threads, Goto(t, "timed"), pc[t] \notin Clears \cup {"zero"},
           UNCHANGED << listVars, aborted >>, \A u \in Threads \ {t} : wake'[u] = wake[u],
           asleep' = asleep \cup {t}, \A k \in Delayed : wake'[t] <= ready[k]
    PROVE  Heeds(t, "timed") /\ DelayedStay
<1>1. UNCHANGED << list, fate, ready, count, aborted >>
  BY DEF listVars
<1>2. Delayed' = Delayed
  BY <1>1 DEF Delayed
<1>3. DelayedStay
  BY <1>1 DEF DelayedStay
<1>4. Steady(t, "timed")
  BY <1>1, <1>2 DEF Steady
<1>5. Lies(t, "timed")
  BY <1>1, <1>2 DEF Lies
<1>6. Others(t)
  BY DEF Others
<1> QED BY <1>3, <1>4, <1>5, <1>6 DEF Heeds

\* A call that adds no delayed thunk.
LEMMA RequestHeeds ==
    ASSUME TypeOK, NEW t \in Threads, Request(t), ~PendDelayed(t), ~AppendQueue(t)
    PROVE  DelayedStay /\ \E p : Heeds(t, p)
<1>a. pc \in [Threads -> PCs] /\ fate \in [Thunks -> Fates] /\ ready \in [Thunks -> Nat]
  BY DEF TypeOK
<1> USE DEF Call, Sleepy, Clears
<1>1. ASSUME NEW k \in Thunks, fate' = [fate EXCEPT ![k] = "dropped"], UNCHANGED ready
      PROVE  DelayedStay
  BY <1>1, <1>a DEF DelayedStay
<1>2. ASSUME UNCHANGED listVars PROVE DelayedStay
  BY <1>2 DEF DelayedStay, listVars
<1>3. ASSUME UNCHANGED localVars PROVE UNCHANGED wake
  BY <1>3 DEF localVars, waitVars
<1>4. CASE Pend(t)
  <2>1. PICK k \in Thunks : IF count >= cap
           THEN /\ fate' = [fate EXCEPT ![k] = "dropped"]
                /\ UNCHANGED << list, tail, ready, count, asleep >>
           ELSE Link(k) /\ NotifyIfWasEmpty
    BY <1>4 DEF Pend
  <2>2. Goto(t, "idle") /\ pc[t] = "idle" /\ UNCHANGED << wake, aborted >>
    BY <1>3, <1>4 DEF Pend, stateVars
  <2>3. CASE fate' = [fate EXCEPT ![k] = "dropped"] /\ UNCHANGED << list, tail, ready, count, asleep >>
    BY <1>1, <2>2, <2>3, AsideHeeds
  <2>4. CASE Link(k) /\ NotifyIfWasEmpty
    BY <2>2, <2>4, LinkHeeds DEF NotifyIfWasEmpty
  <2> QED BY <2>1, <2>3, <2>4
<1>5. CASE PendExisting(t)
  <2>1. PICK k \in Thunks : Link(k)
    BY <1>5 DEF PendExisting
  <2>2. Goto(t, "idle") /\ pc[t] = "idle" /\ NotifyIfWasEmpty /\ UNCHANGED << wake, aborted >>
    BY <1>3, <1>5 DEF PendExisting, stateVars
  <2> QED BY <2>1, <2>2, LinkHeeds DEF NotifyIfWasEmpty
<1>6. CASE WaitForEvent(t)
  <2>1. /\ \E p \in {"idle", "pred"} : Goto(t, p)
        /\ pc[t] = "idle" /\ UNCHANGED << wake, list, aborted, count, asleep, listVars >>
    BY <1>6 DEF WaitForEvent, stateVars, listVars
  <2> QED BY <1>2, <2>1, AsideHeeds
<1>7. CASE WaitForEventUntil(t)
  <2>0. pc[t] = "idle" /\ UNCHANGED aborted
    BY ONLY <1>7 DEF WaitForEventUntil, Call, stateVars
  <2>1. CASE Goto(t, "idle") /\ UNCHANGED << listVars, asleep, waitVars >>
    <3>1. UNCHANGED << wake, list, count >>
      BY <2>1 DEF waitVars, listVars
    <3> QED BY <1>2, <2>0, <2>1, <3>1, AsideHeeds
  <2>2. CASE Goto(t, "run") /\ list # << >> /\ PopHead(t) /\ UNCHANGED << asleep, waitVars >>
    BY <2>0, <2>2, PopHeeds DEF waitVars
  <2>3. CASE \E w \in Times : /\ Goto(t, "timed") /\ UNCHANGED listVars /\ asleep' = asleep \cup {t}
                              /\ wake' = [wake EXCEPT ![t] = SuggestSoonestWakeupTimeUnsafe(w)]
    <3>0. Times \subseteq Nat
      BY ConstantsAssumption DEF Times
    <3>1. PICK w \in Times : wake' = [wake EXCEPT ![t] = SuggestSoonestWakeupTimeUnsafe(w)]
      BY <2>3
    <3>2. \A k \in Delayed : SuggestSoonestWakeupTimeUnsafe(w) <= ready[k]
      BY <3>0, SuggestFacts
    <3>3. wake'[t] = SuggestSoonestWakeupTimeUnsafe(w) /\ \A u \in Threads \ {t} : wake'[u] = wake[u]
      BY <3>1 DEF TypeOK
    <3> QED BY <2>0, <2>3, <3>2, <3>3, SleepHeeds
  <2> QED BY ONLY <1>7, <2>1, <2>2, <2>3 DEF WaitForEventUntil, Call
<1>8. CASE ClearQueue(t)
  <2>1. PICK p \in {"drain", "sweep"} : Goto(t, p)
    BY <1>8 DEF ClearQueue
  <2>2. \A k \in Thunks : fate'[k] # "delayed"
    BY <1>8, <1>a DEF ClearQueue
  <2>3. list' = << >> /\ pc[t] = "idle" /\ UNCHANGED << wake, count, asleep >>
    BY <1>8 DEF ClearQueue, ClearedList, cvVars, waitVars
  <2>4. Steady(t, p)
    BY <2>1, <2>2, <2>3 DEF Steady, Delayed
  <2> QED BY <2>1, <2>2, <2>3, <2>4, PlainHeeds DEF DelayedStay
<1>9. CASE Cancel(t)
  <2>1. /\ "Cancel" \in Calls[t] /\ Goto(t, "idle") /\ pc[t] = "idle"
        /\ UNCHANGED << wake, aborted, asleep >>
    BY <1>3, <1>9 DEF Cancel, stateVars, cvVars
  <2>2. list' # << >> => list # << >>
    BY <1>9 DEF Cancel
  <2>3. \A j \in Thunks : fate'[j] = "delayed" => fate[j] = "delayed"
    BY <1>9, <1>a DEF Cancel
  <2>4. KeepReady
    BY <1>9 DEF Cancel
  <2>5. DelayedStay
    BY <2>3, <2>4 DEF DelayedStay, KeepReady
  <2>6. Steady(t, "idle")
    BY <2>1, <2>2, <2>5 DEF Steady, DelayedStay, Delayed
  <2> QED BY <2>1, <2>5, <2>6, PlainHeeds
<1>10. CASE WakeAll(t)
  <2>1. /\ Goto(t, "notify") /\ pc[t] = "idle"
        /\ UNCHANGED << wake, aborted, asleep, list, count, listVars >>
    BY <1>3, <1>10 DEF WakeAll, listVars, cvVars
  <2> QED BY <1>2, <2>1, AsideHeeds
<1>11. CASE SetDispatcherCap(t)
  <2>1. /\ Goto(t, "idle") /\ pc[t] = "idle"
        /\ UNCHANGED << wake, aborted, asleep, list, count, listVars >>
    BY <1>3, <1>11 DEF SetDispatcherCap, listVars, cvVars
  <2> QED BY <1>2, <2>1, AsideHeeds
<1>12. CASE Barrier(t)
  <2>1. PICK k \in Thunks : IF count >= cap
           THEN /\ fate' = [fate EXCEPT ![k] = "dropped"]
                /\ UNCHANGED << list, tail, ready, count, asleep >>
           ELSE Link(k) /\ NotifyIfWasEmpty
    BY <1>12 DEF Barrier
  <2>2. Goto(t, "barrier") /\ pc[t] = "idle" /\ UNCHANGED << wake, aborted >>
    BY <1>12 DEF Barrier, stateVars, waitVars
  <2>3. CASE fate' = [fate EXCEPT ![k] = "dropped"] /\ UNCHANGED << list, tail, ready, count, asleep >>
    BY <1>1, <2>2, <2>3, AsideHeeds
  <2>4. CASE Link(k) /\ NotifyIfWasEmpty
    BY <2>2, <2>4, LinkHeeds DEF NotifyIfWasEmpty
  <2> QED BY <2>1, <2>3, <2>4
<1>13. CASE BarrierFor(t)
  <2>0. pc[t] = "idle" /\ UNCHANGED aborted
    BY ONLY <1>13 DEF BarrierFor, Call, stateVars
  <2>1. CASE Goto(t, "idle") /\ UNCHANGED << listVars, asleep, wake >>
    <3>1. UNCHANGED << list, count >>
      BY <2>1 DEF listVars
    <3> QED BY <1>2, <2>0, <2>1, <3>1, AsideHeeds
  <2>2. CASE /\ Goto(t, "btimed") /\ \E k \in Thunks : Link(k)
             /\ asleep' = (IF list = << >> THEN {} ELSE asleep) \cup {t}
             /\ \E w : wake' = [wake EXCEPT ![t] = w]
    <3>1. PICK k \in Thunks : Link(k)
      BY <2>2
    <3>2. asleep' \subseteq (IF list = << >> THEN {} ELSE asleep) \cup {t}
      BY <2>2
    <3>3. \A u \in Threads \ {t} : wake'[u] = wake[u]
      BY <2>2 DEF TypeOK
    <3> QED BY <2>0, <2>2, <3>1, <3>2, <3>3, LinkHeeds
  <2> QED BY ONLY <1>13, <2>1, <2>2 DEF BarrierFor, Call
<1> QED BY <1>4, <1>5, <1>6, <1>7, <1>8, <1>9, <1>10, <1>11, <1>12, <1>13 DEF Request

\* A delayed pend that is not the new top is awaited like the top is.
LEMMA DelayHeeds ==
    ASSUME TypeOK, NEW t \in Threads, PendDelayed(t)
    PROVE  \E p : Heeds(t, p)
<1>1. PICK k \in Thunks, r \in Delays :
         /\ Call(t, "PendDelayed", IF IsNewTop(r) /\ count = 0 THEN "notify" ELSE "idle")
         /\ fate' = [fate EXCEPT ![k] = "delayed"]
         /\ ready' = [ready EXCEPT ![k] = r]
         /\ UNCHANGED << list, count, aborted, asleep, wake >>
  BY DEF PendDelayed, stateVars, cvVars, localVars, waitVars
<1> DEFINE p == IF IsNewTop(r) /\ count = 0 THEN "notify" ELSE "idle"
<1>2. Goto(t, p) /\ pc[t] = "idle"
  BY <1>1 DEF Call
<1>3. r \in Nat
  BY ConstantsAssumption DEF Delays, Times
<1>4. \A j \in Thunks : j # k => fate'[j] = fate[j] /\ ready'[j] = ready[j]
  BY <1>1 DEF TypeOK
<1>5. ready'[k] = r
  BY <1>1 DEF TypeOK
<1>6. (\E j \in Delayed : ready[j] <= r) \/ count > 0 \/ p = "notify"
  <2>1. \A j \in Delayed : ready[j] \in Nat
    BY DEF Delayed, TypeOK
  <2>2. count \in Nat
    BY DEF TypeOK
  <2> QED BY <1>3, <2>1, <2>2 DEF IsNewTop
<1>7. p \in {"notify", "idle"}
  OBVIOUS
<1> HIDE DEF p
<1>8. \A j \in Delayed' : \/ j \in Delayed /\ ready'[j] = ready[j]
                          \/ \E i \in Delayed : ready[i] <= ready'[j]
                          \/ count > 0 \/ p \in Clears
  <2> SUFFICES ASSUME NEW j \in Thunks, fate'[j] = "delayed"
               PROVE  \/ j \in Delayed /\ ready'[j] = ready[j]
                      \/ \E i \in Delayed : ready[i] <= ready'[j]
                      \/ count > 0 \/ p \in Clears
    BY DEF Delayed
  <2>1. CASE j = k
    BY <1>5, <1>6, <2>1 DEF Clears
  <2>2. CASE j # k
    BY <1>4, <2>2 DEF Delayed
  <2> QED BY <2>1, <2>2
<1>9. Steady(t, p)
  BY <1>1, <1>2, <1>8 DEF Steady, Clears
<1>10. asleep' \subseteq asleep \cup {t} /\ p \notin Sleepy
  BY <1>1, <1>7 DEF Sleepy
<1>11. Heeds(t, p)
  BY <1>1, <1>2, <1>9, <1>10, PlainHeeds
<1> QED BY <1>11

\* Appending a queue wakes everybody.
LEMMA AppendHeeds ==
    ASSUME TypeOK, NEW t \in Threads, AppendQueue(t)
    PROVE  \E p : Heeds(t, p)
<1>1. asleep' = {} /\ Goto(t, "idle") /\ UNCHANGED wake
  BY DEF AppendQueue, NotifyAll, Call, localVars, waitVars
<1>2. Heeds(t, "idle")
  BY <1>1, PlainHeeds DEF Sleepy
<1> QED BY <1>2

\* A step inside an operation.
LEMMA ContinueHeeds ==
    ASSUME TypeOK, LockHeld, NEW t \in Threads, Continue(t) \/ Dispatch(t)
    PROVE  DelayedStay /\ \E p : Heeds(t, p)
<1>a. pc \in [Threads -> PCs] /\ fate \in [Thunks -> Fates] /\ ready \in [Thunks -> Nat]
  BY DEF TypeOK
<1>b. ASSUME EndWait(t) PROVE \A u \in Threads \ {t} : wake'[u] = wake[u]
  BY <1>b DEF EndWait, TypeOK
<1>c. ASSUME NEW k, NEW f \in Fates \ {"delayed"}, fate' = [fate EXCEPT ![k] = f], UNCHANGED ready
      PROVE  DelayedStay
  BY <1>c, <1>a DEF DelayedStay
<1>d. ASSUME UNCHANGED << fate, ready >> PROVE DelayedStay
  BY <1>d DEF DelayedStay
<1>e. ASSUME UNCHANGED localVars PROVE UNCHANGED wake
  BY <1>e DEF localVars, waitVars
<1> USE DEF Sleepy, Clears
<1>1. CASE RunThunk(t)
  <2>1. /\ \E p \in {"dec", "putback"} : Goto(t, p)
        /\ pc[t] = "run" /\ UNCHANGED << wake, list, aborted, count, asleep, fate, ready >>
    BY <1>1 DEF RunThunk, stateVars, listVars, cvVars, waitVars
  <2> QED BY <1>d, <2>1, AsideHeeds
<1>2. CASE PutBack(t)
  <2>1. /\ Goto(t, "idle") /\ pc[t] = "putback" /\ UNCHANGED << wake, aborted, count, asleep, ready >>
        /\ fate' = [fate EXCEPT ![cur[t]] = "queued"]
    BY <1>2 DEF PutBack, PutBackCount, Leave, stateVars, cvVars, waitVars
  <2>2. DelayedStay
    BY <1>c, <2>1 DEF Fates
  <2>3. Steady(t, "idle")
    BY <2>1, <2>2 DEF Steady, DelayedStay, Delayed
  <2> QED BY <2>1, <2>2, <2>3, PlainHeeds
<1>3. CASE Decrement(t)
  <2>1. /\ Goto(t, AfterDecrement) /\ pc[t] = "dec" /\ count' = count - 1
        /\ UNCHANGED << wake, list, aborted, asleep, ready >>
        /\ fate' = [fate EXCEPT ![cur[t]] = "expiring"]
    BY <1>3, <1>e DEF Decrement, stateVars, cvVars
  <2>2. DelayedStay
    BY <1>c, <2>1 DEF Fates
  <2>3. AfterDecrement \in {"zero", "delete"} /\ (AfterDecrement = "zero" \/ count # 1)
    BY DEF AfterDecrement
  <2> QED BY <2>1, <2>2, <2>3, AsideHeeds
<1>4. CASE NotifyZero(t)
  <2>1. Goto(t, "delete") /\ asleep' = {} /\ UNCHANGED << wake, fate, ready >>
    BY <1>4, <1>e DEF NotifyZero, NotifyAll, listVars
  <2> QED BY <1>d, <2>1, PlainHeeds
<1>5. CASE DeleteThunk(t)
  <2>1. /\ \E p \in {"again", "idle"} : Goto(t, p)
        /\ pc[t] = "delete" /\ UNCHANGED << wake, list, aborted, count, asleep, ready >>
        /\ fate' = [fate EXCEPT ![cur[t]] = "done"]
    BY <1>5 DEF DeleteThunk, Leave, stateVars, cvVars, waitVars
  <2>2. DelayedStay
    BY <1>c, <2>1 DEF Fates
  <2> QED BY <2>1, <2>2, AsideHeeds
<1>6. CASE WaitPredicate(t)
  <2>0. pc[t] = "pred" /\ UNCHANGED aborted
    BY ONLY <1>6 DEF WaitPredicate, stateVars
  <2>1. CASE Goto(t, "idle") /\ EndWait(t) /\ UNCHANGED << listVars, asleep >>
    BY <1>b, <1>d, <2>0, <2>1, AsideHeeds DEF listVars
  <2>2. CASE list # << >> /\ Goto(t, "run") /\ EndWait(t) /\ PopHead(t) /\ UNCHANGED asleep
    BY <1>b, <2>0, <2>2, PopHeeds
  <2>3. CASE /\ Goto(t, "timed") /\ asleep' = asleep \cup {t} /\ UNCHANGED listVars
             /\ \E k \in Delayed : /\ \A j \in Delayed : ready[k] <= ready[j]
                                   /\ wake' = [wake EXCEPT ![t] = ready[k]]
    <3>1. PICK k \in Delayed : /\ \A j \in Delayed : ready[k] <= ready[j]
                               /\ wake' = [wake EXCEPT ![t] = ready[k]]
      BY <2>3
    <3>2. wake'[t] = ready[k] /\ \A u \in Threads \ {t} : wake'[u] = wake[u]
      BY <3>1 DEF TypeOK
    <3> QED BY <2>0, <2>3, <3>1, <3>2, SleepHeeds
  <2>4. CASE Goto(t, "block") /\ UNCHANGED << listVars, asleep, waitVars >>
    BY <1>d, <2>0, <2>4, AsideHeeds DEF listVars, waitVars
  <2> QED BY ONLY <1>6, <2>1, <2>2, <2>3, <2>4 DEF WaitPredicate, Leave
<1>7. CASE Block(t)
  <2>1. /\ Goto(t, "asleep") /\ pc[t] = "block" /\ asleep' = asleep \cup {t}
        /\ UNCHANGED << wake, list, aborted, count, fate, ready >>
    BY <1>7, <1>e DEF Block, stateVars, listVars
  <2>2. DelayedStay
    BY <1>d, <2>1
  <2>3. Steady(t, "asleep")
    BY <2>1, <2>2 DEF Steady, DelayedStay, Delayed
  <2> QED BY <2>1, <2>2, <2>3 DEF Heeds, Others, Lies
<1>8. CASE Reacquire(t)
  <2>1. Goto(t, "pred") /\ pc[t] = "asleep" /\ UNCHANGED << wake, list, aborted, count, asleep, fate, ready >>
    BY <1>8, <1>e DEF Reacquire, stateVars, listVars
  <2> QED BY <1>d, <2>1, AsideHeeds
<1>9. CASE TimedWake(t)
  <2>0. pc[t] = "timed" /\ UNCHANGED aborted
    BY ONLY <1>9 DEF TimedWake, stateVars
  <2>1. CASE Goto(t, "idle") /\ EndWait(t) /\ asleep' = asleep \ {t} /\ UNCHANGED listVars
    BY <1>b, <1>d, <2>0, <2>1, AsideHeeds DEF listVars
  <2>2. CASE /\ Goto(t, "run") /\ EndWait(t) /\ asleep' \in {asleep, asleep \ {t}}
             /\ \/ list # << >> /\ PopHead(t)
                \/ Ready # {} /\ PromoteAndPop(t)
    BY <1>b, <2>0, <2>2, PopHeeds
  <2>3. CASE /\ UNCHANGED << listVars, pc >> /\ asleep' = asleep \cup {t}
             /\ wake' = [wake EXCEPT ![t] = SuggestSoonestWakeupTimeUnsafe(@)]
    <3>0. wake[t] \in Nat
      BY DEF TypeOK
    <3>1. \A k \in Delayed : SuggestSoonestWakeupTimeUnsafe(wake[t]) <= ready[k]
      BY <3>0, SuggestFacts
    <3>2. wake'[t] = SuggestSoonestWakeupTimeUnsafe(wake[t]) /\ \A u \in Threads \ {t} : wake'[u] = wake[u]
      BY <2>3 DEF TypeOK
    <3>3. Goto(t, "timed")
      BY <1>a, <2>0, <2>3 DEF Goto
    <3> QED BY <2>0, <2>3, <3>1, <3>2, <3>3, SleepHeeds
  <2> QED BY ONLY <1>9, <2>1, <2>2, <2>3 DEF TimedWake, Leave
<1>10. CASE DrainNext(t)
  <2>1. /\ \E p \in {"sweep", "invoke"} : Goto(t, p)
        /\ pc[t] = "drain" /\ UNCHANGED << wake, list, aborted, count, asleep, fate, ready >>
    BY <1>10, <1>e DEF DrainNext, stateVars, listVars, cvVars
  <2> QED BY <1>d, <2>1, AsideHeeds
<1>11. CASE DrainRun(t)
  <2>1. /\ \E p \in {"sweep", "drain"} : Goto(t, p)
        /\ pc[t] = "invoke" /\ UNCHANGED << wake, list, aborted, asleep, ready >>
        /\ fate' = [fate EXCEPT ![Head(held[t])] = "done"] \/ UNCHANGED fate
    BY <1>11 DEF DrainRun, AfterInvoke, stateVars, cvVars, waitVars
  <2>2. DelayedStay
    BY <1>c, <1>d, <2>1 DEF Fates
  <2> QED BY <2>1, <2>2, AsideHeeds
<1>12. CASE Sweep(t)
  <2>1. /\ Goto(t, "notify") /\ pc[t] = "sweep" /\ UNCHANGED << wake, list, aborted, asleep, ready >>
        /\ fate' = [k \in Thunks |-> IF k \in Range(held[t]) THEN "dropped" ELSE fate[k]]
    BY <1>12 DEF Sweep, stateVars, cvVars, waitVars
  <2>2. DelayedStay
    BY <2>1 DEF DelayedStay
  <2> QED BY <2>1, <2>2, AsideHeeds
<1>13. CASE LateNotify(t)
  <2>1. Goto(t, "idle") /\ asleep' = {} /\ UNCHANGED << wake, fate, ready >>
    BY <1>13, <1>e DEF LateNotify, NotifyAll, Leave, listVars
  <2> QED BY <1>d, <2>1, PlainHeeds
<1>14. CASE BarrierWait(t)
  <2>1. /\ \/ Goto(t, "idle") /\ EndWait(t) /\ UNCHANGED asleep
           \/ Goto(t, "bwait") /\ asleep' = asleep \cup {t} /\ UNCHANGED waitVars
        /\ pc[t] \in {"barrier", "bwait"} /\ UNCHANGED << list, aborted, count, fate, ready >>
    BY ONLY <1>14 DEF BarrierWait, LeaveBarrier, Leave, stateVars, listVars
  <2>2. \A u \in Threads \ {t} : wake'[u] = wake[u]
    BY <1>b, <2>1 DEF waitVars
  <2> QED BY <1>d, <2>1, <2>2, AsideHeeds
<1>15. CASE BarrierForWake(t)
  <2>1. /\ \/ Goto(t, "idle") /\ EndWait(t) /\ asleep' = asleep \ {t}
           \/ asleep' = asleep \cup {t} /\ UNCHANGED << pc, waitVars >>
        /\ pc[t] = "btimed" /\ UNCHANGED << list, aborted, count, fate, ready >>
    BY ONLY <1>15 DEF BarrierForWake, LeaveBarrier, Leave, stateVars, listVars
  <2>2. \A u \in Threads \ {t} : wake'[u] = wake[u]
    BY <1>b, <2>1 DEF waitVars
  <2>3. UNCHANGED pc => Goto(t, "btimed")
    BY <1>a, <2>1 DEF Goto
  <2> QED BY <1>d, <2>1, <2>2, <2>3, AsideHeeds
<1>16. CASE Dispatch(t)
  <2>0. pc[t] \in {"idle", "again"} /\ UNCHANGED << aborted, asleep, wake >>
    BY <1>16, <1>e DEF Dispatch, Call, stateVars, cvVars
  <2>1. CASE Goto(t, "idle") /\ UNCHANGED listVars
    BY <1>d, <2>0, <2>1, AsideHeeds DEF listVars
  <2>2. CASE /\ Goto(t, "run")
             /\ \/ list # << >> /\ PopHead(t)
                \/ Ready # {} /\ PromoteAndPop(t)
    BY <2>0, <2>2, PopHeeds
  <2> QED BY ONLY <1>16, <2>1, <2>2 DEF Dispatch, Call, Leave
<1> QED BY <1>1, <1>2, <1>3, <1>4, <1>5, <1>6, <1>7, <1>8, <1>9, <1>10, <1>11, <1>12, <1>13, <1>14,
           <1>15, <1>16 DEF Continue

\* A spurious wakeup.
LEMMA WokenHeeds ==
    ASSUME TypeOK, NEW t \in Threads, SpuriousWake(t)
    PROVE  DelayedStay /\ Heeds(t, pc[t])
<1>1. /\ asleep' = asleep \ {t}
      /\ UNCHANGED << list, aborted, count, fate, ready, wake, pc >>
  BY DEF SpuriousWake, stateVars, listVars, localVars, waitVars
<1>2. Goto(t, pc[t])
  BY <1>1 DEF Goto, TypeOK
<1>3. Delayed' = Delayed
  BY <1>1 DEF Delayed
<1>4. Steady(t, pc[t])
  BY <1>1, <1>3 DEF Steady
<1> QED BY <1>1, <1>2, <1>4 DEF Heeds, Others, Lies, DelayedStay

\* The clock moves nothing else.
LEMMA TickKeeps ==
    ASSUME Tick \/ UNCHANGED vars
    PROVE  UNCHANGED << list, aborted, count, fate, ready, wake, pc, asleep, lock >>
  BY DEF Tick, vars, stateVars, listVars, localVars, waitVars, cvVars

\* Nobody waits at first.
LEMMA InitWakeups == Init => LockHeld /\ NoLostWakeup /\ DelayedIsAwaited /\ Delayed = {}
<1> SUFFICES ASSUME Init PROVE LockHeld /\ NoLostWakeup /\ DelayedIsAwaited /\ Delayed = {}
  OBVIOUS
<1>1. /\ \A t \in Threads : pc[t] = "idle" /\ lock # t
      /\ asleep = {}
      /\ \A k \in Thunks : fate[k] = "new"
  BY ConstantsAssumption DEF Init
<1>2. Delayed = {}
  BY <1>1 DEF Delayed
<1> QED BY <1>1, <1>2 DEF LockHeld, NoLostWakeup, DelayedIsAwaited, Locked

\* Between its predicate and its block a thread holds the lock, and the predicate is false.
THEOREM LockIsHeld == Spec => []LockHeld
<1>1. TypeOK /\ LockHeld /\ [Next]_vars => LockHeld'
  <2> SUFFICES ASSUME TypeOK, LockHeld, [Next]_vars PROVE LockHeld'
    OBVIOUS
  <2>1. CASE Next
    BY <2>1, StepLock
  <2>2. CASE UNCHANGED vars
    BY <2>2, TickKeeps DEF LockHeld, Delayed
  <2> QED BY <2>1, <2>2
<1> QED BY <1>1, InitWakeups, TypeCorrect, PTL DEF Spec

\* If nobody calls Cancel, which lowers m_count in silence, no thread sleeps past a
\* delayed thunk: its timeout, the notification of a zero m_count or that of a pend
\* wakes it.
THEOREM DelayedAreAwaited ==
    ASSUME \A t \in Threads : "Cancel" \notin Calls[t]
    PROVE  Spec => []DelayedIsAwaited
<1>1. TypeOK /\ TypeOK' /\ LockHeld /\ DelayedIsAwaited /\ [Next]_vars => DelayedIsAwaited'
  <2> SUFFICES ASSUME TypeOK, TypeOK', LockHeld, DelayedIsAwaited, [Next]_vars
               PROVE  DelayedIsAwaited'
    OBVIOUS
  <2>1. CASE \E t \in Threads : Request(t) \/ Dispatch(t) \/ Continue(t) \/ SpuriousWake(t)
    <3>1. PICK t \in Threads : Request(t) \/ Dispatch(t) \/ Continue(t) \/ SpuriousWake(t)
      BY <2>1
    <3>2. \E p : Heeds(t, p)
      BY <3>1, RequestHeeds, DelayHeeds, AppendHeeds, ContinueHeeds, WokenHeeds
    <3> QED BY <3>2, AwaitedStep
  <2>2. CASE Tick \/ UNCHANGED vars
    <3>1. UNCHANGED << count, fate, ready, wake, pc, asleep >>
      BY <2>2, TickKeeps
    <3> QED BY <3>1 DEF DelayedIsAwaited, Delayed, Clearing
  <2> QED BY <2>1, <2>2 DEF Next
<1> QED BY <1>1, InitWakeups, TypeCorrect, LockIsHeld, PTL DEF Spec

\* Nobody pends a delayed thunk, itself or with the queue it hands over.
Undelayed == \A t \in Threads : Calls[t] \cap {"PendDelayed", "Append"} = {}

\* If no thunk goes back to the list and none is delayed (both reach the list without a
\* notification), no thread sleeps in WaitForEvent(void) while there is a thunk to run
\* or the queue is aborted, unless the thread that aborts it is about to notify: the
\* decision to block and the block are one step for whoever takes the lock.
THEOREM WakeupsAreKept ==
    ASSUME NeverPutBack, Undelayed
    PROVE  Spec => []NoLostWakeup
<1> DEFINE Inv == Called /\ Delayed = {} /\ NoLostWakeup
<1>1. Init => Inv
  BY InitWakeups, InitBarriers
<1>2. Invariant /\ LockHeld /\ Inv /\ [Next]_vars => Inv'
  <2> SUFFICES ASSUME Invariant, LockHeld, Called, Delayed = {}, NoLostWakeup, [Next]_vars
               PROVE  Called' /\ Delayed' = {} /\ NoLostWakeup'
    OBVIOUS
  <2>0. TypeOK /\ CurOwned
    BY DEF Invariant, Ownership
  <2>1. CASE \E t \in Threads : Request(t) \/ Dispatch(t) \/ Continue(t) \/ SpuriousWake(t)
    <3>1. PICK t \in Threads : Request(t) \/ Dispatch(t) \/ Continue(t) \/ SpuriousWake(t)
      BY <2>1
    <3>2. ~PendDelayed(t) /\ ~AppendQueue(t)
      BY DEF Undelayed, PendDelayed, AppendQueue, Call
    <3>3. DelayedStay /\ \E p : Heeds(t, p)
      BY <2>0, <3>1, <3>2, RequestHeeds, ContinueHeeds, WokenHeeds
    <3>4. Delayed' = {}
      BY <3>3 DEF DelayedStay, Delayed
    <3>5. NoLostWakeup'
      BY <2>0, <3>3, <3>4, WakeupStep
    <3>6. Called'
      BY <2>0, <2>1, StepCalled DEF Next
    <3> QED BY <3>4, <3>5, <3>6
  <2>2. CASE Tick
    <3>1. UNCHANGED << list, aborted, fate, pc, asleep >>
      BY <2>2, TickKeeps
    <3>2. Called'
      BY <2>0, <2>2, StepCalled DEF Next
    <3> QED BY <3>1, <3>2 DEF NoLostWakeup, Delayed, Clearing
  <2>3. CASE UNCHANGED vars
    <3>1. UNCHANGED << list, aborted, fate, pc, asleep >>
      BY <2>3, TickKeeps
    <3>2. UNCHANGED op
      BY <2>3 DEF vars
    <3> QED BY <3>1, <3>2 DEF NoLostWakeup, Delayed, Clearing, Called
  <2> QED BY <2>1, <2>2, <2>3 DEF Next
<1> QED BY <1>1, <1>2, InvariantHolds, LockIsHeld, PTL DEF Spec
=============================================================================
