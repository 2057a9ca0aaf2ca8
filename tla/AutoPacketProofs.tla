--------------------------- MODULE AutoPacketProofs ---------------------------
(***************************************************************************)
(* Proofs about AutoPacket, for any filters, any types and any programs of *)
(* the clients: type correctness, that immediate decorations leave no      *)
(* pointer behind, and that no filter is called twice.                     *)
(*                                                                         *)
(* The lemmas ...Does say once what each step does to the work of its      *)
(* thread, to the counters and to the calls.  The invariants build on one  *)
(* another: Typed, Unborn (before the packet is issued), Additions (who is *)
(* added and dropped) and Once (a call is to be made by one thread, once,  *)
(* of a filter whose counter is at zero).                                  *)
(***************************************************************************)
EXTENDS AutoPacket, FiniteSetTheorems, SequenceTheorems, WellFoundedInduction, TLAPS

-----------------------------------------------------------------------------
(* Induction *)

\* Every set of naturals has a least element.
LEMMA Least ==
    ASSUME NEW T \in SUBSET Nat, T # {}
    PROVE  \E m \in T : \A n \in T : m <= n
<1>1. PICK R : /\ \E x \in T : \A y \in T : ~ (<<y, x>> \in R)
               /\ \A x, y \in Nat : x < y => <<x, y>> \in R
  <2>1. \E x \in T : \A y \in T : ~ (<<y, x>> \in OpToRel(<, Nat))
    BY WFMin, NatLessThanWellFounded, Zenon
  <2>2. \A x, y \in Nat : x < y => <<x, y>> \in OpToRel(<, Nat)
    BY Zenon DEF OpToRel
  <2> QED BY <2>1, <2>2, Zenon
<1>2. PICK m \in T : \A y \in T : ~ (<<y, m>> \in R)
  BY <1>1, Zenon
<1>3. ASSUME NEW n \in T PROVE m <= n
  <2>1. ~ (n < m)
    BY <1>1, <1>2
  <2> QED BY <2>1
<1> QED BY <1>2, <1>3

-----------------------------------------------------------------------------
(* Sequences *)

\* a is what Among has gathered of the first n elements.
AmongUpTo(a, q, S, n) ==
    a = [i \in 0 .. n |-> IF i = 0 THEN << >>
                          ELSE IF q[i] \in S THEN Append(a[i - 1], q[i]) ELSE a[i - 1]]

\* The recursive function inside Among is what its definition says it is.
LEMMA AmongDef ==
    ASSUME NEW T, NEW q \in Seq(T), NEW S
    PROVE  \E a : AmongUpTo(a, q, S, Len(q)) /\ Among(q, S) = a[Len(q)]
<1>1. \A n \in Nat : \E a : AmongUpTo(a, q, S, n)
  <2> DEFINE Bad == { n \in Nat : ~ \E a : AmongUpTo(a, q, S, n) }
  <2>1. SUFFICES ASSUME Bad # {} PROVE FALSE
    OBVIOUS
  <2>2. PICK m \in Bad : \A n \in Bad : m <= n
    BY <2>1, Least
  <2>3. CASE m = 0
    <3>1. AmongUpTo([i \in 0 .. 0 |-> << >>], q, S, 0)
      BY DEF AmongUpTo
    <3> QED BY <2>2, <2>3, <3>1
  <2>4. CASE m # 0
    <3>1. m - 1 \in Nat /\ m - 1 \notin Bad
      BY <2>2, <2>4
    <3>2. PICK a : AmongUpTo(a, q, S, m - 1)
      BY <3>1
    <3> DEFINE b == [i \in 0 .. m |-> IF i < m THEN a[i] ELSE
                        IF q[m] \in S THEN Append(a[m - 1], q[m]) ELSE a[m - 1]]
    <3>3. AmongUpTo(b, q, S, m)
      <4>1. \A i \in 0 .. m : i = 0 \/ (i - 1 \in 0 .. m /\ i - 1 < m)
        BY <3>1
      <4>2. \A i \in 0 .. m - 1 : a[i] = IF i = 0 THEN << >>
                ELSE IF q[i] \in S THEN Append(a[i - 1], q[i]) ELSE a[i - 1]
        BY <3>2 DEF AmongUpTo
      <4>3. ASSUME NEW i \in 0 .. m
            PROVE  b[i] = IF i = 0 THEN << >>
                          ELSE IF q[i] \in S THEN Append(b[i - 1], q[i]) ELSE b[i - 1]
        <5>1. m \in Nat
          OBVIOUS
        <5>2. CASE i = m
          <6>1. b[i] = IF q[m] \in S THEN Append(a[m - 1], q[m]) ELSE a[m - 1]
            BY <5>1, <5>2
          <6>2. b[i - 1] = a[m - 1]
            BY <2>4, <5>1, <5>2
          <6> QED BY <2>4, <5>2, <6>1, <6>2
        <5>3. CASE i # m
          <6>1. i \in 0 .. m - 1 /\ b[i] = a[i]
            BY <5>1, <5>3
          <6>2. i # 0 => b[i - 1] = a[i - 1]
            BY <5>1, <5>3
          <6> QED BY <4>2, <6>1, <6>2
        <5> QED BY <5>2, <5>3
      <4> QED BY <4>3 DEF AmongUpTo
    <3> QED BY <2>2, <3>3
  <2> QED BY <2>3, <2>4
<1> DEFINE upTo == CHOOSE a : AmongUpTo(a, q, S, Len(q))
<1>2. AmongUpTo(upTo, q, S, Len(q))
  BY <1>1, LenProperties
<1>3. Among(q, S) = upTo[Len(q)]
  BY DEF Among, AmongUpTo
<1> QED BY <1>2, <1>3

\* Appending e.
LEMMA AppendOf ==
    ASSUME NEW T, NEW s \in Seq(T), NEW e \in T
    PROVE  /\ Append(s, e) \in Seq(T)
           /\ ToSet(Append(s, e)) = ToSet(s) \cup {e}
           /\ IsInjective(s) /\ e \notin ToSet(s) => IsInjective(Append(s, e))
<1> DEFINE q == Append(s, e)
<1>1. /\ q \in Seq(T) /\ Len(s) \in Nat /\ Len(q) = Len(s) + 1
      /\ DOMAIN s = 1 .. Len(s) /\ DOMAIN q = 1 .. Len(s) + 1
  OBVIOUS
<1>2. /\ q[Len(s) + 1] = e /\ \A i \in 1 .. Len(s) : q[i] = s[i]
  OBVIOUS
<1>3. ASSUME NEW x \in ToSet(q) PROVE x \in ToSet(s) \cup {e}
  <2>1. PICK i \in 1 .. Len(s) + 1 : x = q[i]
    BY <1>1, <1>3 DEF ToSet
  <2>2. CASE i = Len(s) + 1
    BY <1>2, <2>1, <2>2
  <2>3. CASE i # Len(s) + 1
    <3>1. i \in 1 .. Len(s)
      BY <1>1, <2>3
    <3> QED BY <1>1, <1>2, <2>1, <3>1 DEF ToSet
  <2> QED BY <2>2, <2>3
<1>4. ASSUME NEW x \in ToSet(s) \cup {e} PROVE x \in ToSet(q)
  <2>1. CASE x = e
    BY <1>1, <1>2, <2>1 DEF ToSet
  <2>2. CASE x \in ToSet(s)
    <3>1. PICK i \in 1 .. Len(s) : x = s[i]
      BY <1>1, <2>2 DEF ToSet
    <3>2. i \in 1 .. Len(s) + 1 /\ q[i] = x
      BY <1>1, <1>2, <3>1
    <3> QED BY <1>1, <3>2 DEF ToSet
  <2> QED BY <1>4, <2>1, <2>2
<1>5. ASSUME IsInjective(s), e \notin ToSet(s) PROVE IsInjective(q)
  <2> SUFFICES ASSUME NEW i \in 1 .. Len(s) + 1, NEW j \in 1 .. Len(s) + 1, q[i] = q[j]
               PROVE  i = j
    BY <1>1 DEF IsInjective
  <2>1. \A h \in 1 .. Len(s) : q[h] = s[h] /\ s[h] # e
    BY <1>1, <1>2, <1>5 DEF ToSet
  <2>2. \A h \in 1 .. Len(s) + 1 : h # Len(s) + 1 => h \in 1 .. Len(s)
    BY <1>1
  <2> QED BY <1>1, <1>2, <1>5, <2>1, <2>2 DEF IsInjective
<1> QED BY <1>1, <1>3, <1>4, <1>5

\* Among keeps exactly the elements of S, and each once if it occurs once.
LEMMA AmongOf ==
    ASSUME NEW T, NEW q \in Seq(T), NEW S
    PROVE  /\ Among(q, S) \in Seq(T)
           /\ ToSet(Among(q, S)) = ToSet(q) \cap S
           /\ IsInjective(q) => IsInjective(Among(q, S))
<1>1. PICK a : AmongUpTo(a, q, S, Len(q)) /\ Among(q, S) = a[Len(q)]
  BY AmongDef
<1> DEFINE P(n) == /\ a[n] \in Seq(T)
                   /\ ToSet(a[n]) = { q[i] : i \in 1 .. n } \cap S
                   /\ IsInjective(q) => IsInjective(a[n])
           Bad == { n \in 0 .. Len(q) : ~P(n) }
<1>2. /\ Len(q) \in Nat /\ DOMAIN q = 1 .. Len(q) /\ \A i \in 1 .. Len(q) : q[i] \in T
  BY LenProperties
<1>3. \A n \in 0 .. Len(q) :
        a[n] = IF n = 0 THEN << >>
               ELSE IF q[n] \in S THEN Append(a[n - 1], q[n]) ELSE a[n - 1]
  BY <1>1 DEF AmongUpTo
<1>4. Bad = {}
  <2> SUFFICES ASSUME Bad # {} PROVE FALSE
    OBVIOUS
  <2>1. PICK m \in Bad : \A n \in Bad : m <= n
    <3>1. Bad \in SUBSET Nat
      BY <1>2
    <3> HIDE DEF Bad
    <3> QED BY <3>1, Least
  <2>2. m # 0
    <3>1. a[0] = << >>
      BY <1>2, <1>3
    <3>2. 1 .. 0 = {} /\ DOMAIN a[0] = {}
      BY <3>1
    <3>3. { q[i] : i \in 1 .. 0 } = {} /\ ToSet(a[0]) = {} /\ IsInjective(a[0])
      BY <3>2 DEF ToSet, IsInjective
    <3>4. P(0)
      BY <3>1, <3>3
    <3> QED BY <2>1, <3>4
  <2>3. m \in 1 .. Len(q) /\ m - 1 \in 0 .. Len(q) /\ m - 1 \in Nat
    BY <1>2, <2>1, <2>2
  <2>4. P(m - 1)
    <3>1. m - 1 \notin Bad
      <4> HIDE DEF Bad
      <4> QED BY <2>1, <2>3
    <3> QED BY <2>3, <3>1
  <2>5. { q[i] : i \in 1 .. m } = { q[i] : i \in 1 .. m - 1 } \cup { q[m] }
    <3>1. 1 .. m = (1 .. m - 1) \cup {m}
      BY <2>3
    <3> QED BY <3>1
  <2>6. CASE q[m] \notin S
    <3>1. a[m] = a[m - 1]
      BY <1>3, <2>2, <2>3, <2>6
    <3>2. P(m)
      BY <2>4, <2>5, <2>6, <3>1
    <3> QED BY <2>1, <3>2
  <2>7. CASE q[m] \in S
    <3>1. a[m] = Append(a[m - 1], q[m])
      BY <1>3, <2>2, <2>3, <2>7
    <3>2. q[m] \in T
      BY <1>2, <2>3
    <3>3. a[m] \in Seq(T) /\ ToSet(a[m]) = ToSet(a[m - 1]) \cup {q[m]}
      BY <2>4, <3>1, <3>2, AppendOf
    <3>4. ASSUME IsInjective(q) PROVE IsInjective(a[m])
      <4>1. q[m] \notin { q[i] : i \in 1 .. m - 1 }
        <5>1. \A i \in 1 .. m - 1 : i \in DOMAIN q /\ i # m /\ m \in DOMAIN q
          BY <1>2, <2>3
        <5> QED BY <3>4, <5>1 DEF IsInjective
      <4>2. q[m] \notin ToSet(a[m - 1])
        BY <2>4, <4>1
      <4> QED BY <2>4, <3>1, <3>2, <3>4, <4>2, AppendOf
    <3>5. P(m)
      BY <2>4, <2>5, <2>7, <3>3, <3>4
    <3> QED BY <2>1, <3>5
  <2> QED BY <2>6, <2>7
<1>5. P(Len(q))
  <2>1. Len(q) \in 0 .. Len(q)
    BY <1>2
  <2>2. Len(q) \notin Bad
    BY <1>4
  <2> QED BY <2>1, <2>2
<1>6. ToSet(q) = { q[i] : i \in 1 .. Len(q) }
  BY <1>2 DEF ToSet
<1> QED BY <1>1, <1>5, <1>6

\* The elements of a concatenation.
LEMMA ConcatOf ==
    ASSUME NEW T, NEW r \in Seq(T), NEW s \in Seq(T)
    PROVE  /\ r \o s \in Seq(T)
           /\ ToSet(r \o s) = ToSet(r) \cup ToSet(s)
           /\ \A i \in DOMAIN (r \o s) :
                 \/ i \in DOMAIN r /\ (r \o s)[i] = r[i]
                 \/ i - Len(r) \in DOMAIN s /\ (r \o s)[i] = s[i - Len(r)] /\ i > Len(r)
           /\ Len(r) \in Nat /\ DOMAIN (r \o s) \subseteq Nat
<1>1. /\ Len(r) \in Nat /\ Len(s) \in Nat /\ DOMAIN r = 1 .. Len(r) /\ DOMAIN s = 1 .. Len(s)
      /\ r \o s \in Seq(T) /\ Len(r \o s) = Len(r) + Len(s)
      /\ DOMAIN (r \o s) = 1 .. Len(r) + Len(s)
  BY LenProperties, ConcatProperties
<1>2. \A i \in 1 .. Len(r) + Len(s) : (r \o s)[i] = IF i <= Len(r) THEN r[i] ELSE s[i - Len(r)]
  BY ConcatProperties
<1>3. \A i \in DOMAIN (r \o s) :
                 \/ i \in DOMAIN r /\ (r \o s)[i] = r[i]
                 \/ i - Len(r) \in DOMAIN s /\ (r \o s)[i] = s[i - Len(r)] /\ i > Len(r)
  BY <1>1, <1>2
<1>4. ASSUME NEW x \in ToSet(r \o s) PROVE x \in ToSet(r) \cup ToSet(s)
  BY <1>3, <1>4 DEF ToSet
<1>5. ASSUME NEW x \in ToSet(r) PROVE x \in ToSet(r \o s)
  <2>1. PICK i \in 1 .. Len(r) : x = r[i]
    BY <1>1, <1>5 DEF ToSet
  <2>2. i \in 1 .. Len(r) + Len(s) /\ (r \o s)[i] = x
    BY <1>1, <1>2, <2>1
  <2> QED BY <1>1, <2>2 DEF ToSet
<1>6. ASSUME NEW x \in ToSet(s) PROVE x \in ToSet(r \o s)
  <2>1. PICK i \in 1 .. Len(s) : x = s[i]
    BY <1>1, <1>6 DEF ToSet
  <2>2. Len(r) + i \in 1 .. Len(r) + Len(s) /\ (r \o s)[Len(r) + i] = x
    <3>1. Len(r) + i \in 1 .. Len(r) + Len(s) /\ ~(Len(r) + i <= Len(r)) /\ Len(r) + i - Len(r) = i
      BY <1>1, <2>1
    <3> QED BY <1>2, <2>1, <3>1
  <2> QED BY <1>1, <2>2 DEF ToSet
<1>7. ToSet(r \o s) = ToSet(r) \cup ToSet(s)
  BY <1>4, <1>5, <1>6
<1> QED BY <1>1, <1>3, <1>7

\* FlattenSeq, one sequence after the other.
FlatUpTo(a, ss, n) == a = [i \in 1 .. n |-> IF i = 1 THEN ss[i] ELSE a[i - 1] \o ss[i]]

\* What FlattenSeq computes.
LEMMA FlattenIs ==
    ASSUME NEW T, NEW ss \in Seq(Seq(T))
    PROVE  \/ Len(ss) = 0 /\ FlattenSeq(ss) = << >>
           \/ \E a : /\ FlatUpTo(a, ss, Len(ss)) /\ \A i \in 1 .. Len(ss) : a[i] \in Seq(T)
                    /\ Len(ss) \in 1 .. Len(ss) /\ FlattenSeq(ss) = a[Len(ss)]
<1>1. /\ Len(ss) \in Nat /\ \A i \in 1 .. Len(ss) : ss[i] \in Seq(T)
  BY LenProperties
<1>2. CASE Len(ss) = 0
  <2>1. ss = << >>
    BY <1>2, EmptySeq
  <2>2. FlattenSeq(ss) = << >>
    BY <1>2, <2>1 DEF FlattenSeq
  <2> QED BY <1>2, <2>2
<1>3. CASE Len(ss) # 0
  <2> DEFINE P(n) == \E a : /\ FlatUpTo(a, ss, n) /\ \A i \in 1 .. n : a[i] \in Seq(T)
             Bad == { n \in 1 .. Len(ss) : ~P(n) }
  <2>1. Bad = {}
    <3> SUFFICES ASSUME Bad # {} PROVE FALSE
      OBVIOUS
    <3>1. PICK m \in Bad : \A n \in Bad : m <= n
      <4>1. Bad \in SUBSET Nat
        BY <1>1
      <4> HIDE DEF Bad
      <4> QED BY <4>1, Least
    <3>2. m \in 1 .. Len(ss) /\ ss[m] \in Seq(T)
      BY <1>1, <3>1
    <3>3. CASE m = 1
      <4> DEFINE b == [i \in 1 .. 1 |-> ss[1]]
      <4>1. FlatUpTo(b, ss, 1)
        BY DEF FlatUpTo
      <4>2. \A i \in 1 .. 1 : b[i] \in Seq(T)
        BY <3>2, <3>3
      <4> HIDE DEF b
      <4> QED BY <3>1, <3>3, <4>1, <4>2
    <3>4. CASE m # 1
      <4>1. m - 1 \in 1 .. Len(ss) /\ m - 1 \notin Bad
        <5> HIDE DEF Bad
        <5> QED BY <1>1, <3>1, <3>2, <3>4
      <4>2. PICK a : /\ FlatUpTo(a, ss, m - 1) /\ \A i \in 1 .. m - 1 : a[i] \in Seq(T)
        BY <4>1
      <4> DEFINE b == [i \in 1 .. m |-> IF i < m THEN a[i] ELSE a[m - 1] \o ss[m]]
      <4>3. \A i \in 1 .. m - 1 : a[i] = IF i = 1 THEN ss[i] ELSE a[i - 1] \o ss[i]
        BY <4>2 DEF FlatUpTo
      <4>4. ASSUME NEW i \in 1 .. m
            PROVE  b[i] = (IF i = 1 THEN ss[i] ELSE b[i - 1] \o ss[i]) /\ b[i] \in Seq(T)
        <5>1. CASE i = m
          <6>1. b[i] = a[m - 1] \o ss[m] /\ b[i - 1] = a[m - 1]
            <7>1. m \in 1 .. m /\ m - 1 \in 1 .. m /\ ~(m < m) /\ m - 1 < m
              BY <1>1, <3>2, <3>4
            <7> QED BY <5>1, <7>1
          <6>2. a[m - 1] \in Seq(T)
            BY <1>1, <3>2, <3>4, <4>2
          <6>3. a[m - 1] \o ss[m] \in Seq(T)
            BY <3>2, <6>2, ConcatProperties
          <6> QED BY <3>4, <5>1, <6>1, <6>3
        <5>2. CASE i # m
          <6>1. i \in 1 .. m - 1 /\ b[i] = a[i] /\ (i # 1 => b[i - 1] = a[i - 1])
            BY <3>2, <5>2
          <6> QED BY <4>2, <4>3, <6>1
        <5> QED BY <5>1, <5>2
      <4>5. FlatUpTo(b, ss, m)
        BY <4>4 DEF FlatUpTo
      <4>6. \A i \in 1 .. m : b[i] \in Seq(T)
        BY <4>4
      <4> HIDE DEF b
      <4> QED BY <3>1, <4>5, <4>6
    <3> QED BY <3>3, <3>4
  <2>2. P(Len(ss))
    <3>1. Len(ss) \in 1 .. Len(ss)
      BY <1>1, <1>3
    <3>2. Len(ss) \notin Bad
      BY <2>1
    <3> QED BY <3>1, <3>2
  <2> DEFINE flat == CHOOSE a : FlatUpTo(a, ss, Len(ss))
  <2>3. FlatUpTo(flat, ss, Len(ss))
    BY <2>2
  <2>4. FlattenSeq(ss) = flat[Len(ss)]
    BY <1>3 DEF FlattenSeq, FlatUpTo
  <2>5. PICK a : /\ FlatUpTo(a, ss, Len(ss)) /\ \A i \in 1 .. Len(ss) : a[i] \in Seq(T)
    BY <2>2
  <2> HIDE DEF flat
  <2> DEFINE Diff == { n \in 1 .. Len(ss) : a[n] # flat[n] }
  <2>6. Diff = {}
    <3> SUFFICES ASSUME Diff # {} PROVE FALSE
      OBVIOUS
    <3>1. PICK m \in Diff : \A n \in Diff : m <= n
      <4>1. Diff \in SUBSET Nat
        BY <1>1
      <4> HIDE DEF Diff
      <4> QED BY <4>1, Least
    <3>2. /\ a[m] = (IF m = 1 THEN ss[m] ELSE a[m - 1] \o ss[m])
          /\ flat[m] = (IF m = 1 THEN ss[m] ELSE flat[m - 1] \o ss[m])
      BY <2>3, <2>5, <3>1 DEF FlatUpTo
    <3>3. m # 1 => m - 1 \in 1 .. Len(ss) /\ m - 1 \notin Diff
      BY <1>1, <3>1
    <3> QED BY <3>1, <3>2, <3>3
  <2>7. Len(ss) \in 1 .. Len(ss) /\ Len(ss) \notin Diff
    BY <1>1, <1>3, <2>6
  <2> QED BY <2>4, <2>5, <2>7
<1> QED BY <1>2, <1>3

\* Flattening sequences of sequences over T gives a sequence over T.  It repeats
\* nothing if none of them does and no two have anything in common.
LEMMA FlattenOf ==
    ASSUME NEW T, NEW ss \in Seq(Seq(T))
    PROVE  /\ FlattenSeq(ss) \in Seq(T)
           /\ \A x \in ToSet(FlattenSeq(ss)) : \E i \in 1 .. Len(ss) : x \in ToSet(ss[i])
           /\ (/\ \A i \in 1 .. Len(ss) : IsInjective(ss[i])
               /\ \A i, j \in 1 .. Len(ss) : i # j => ToSet(ss[i]) \cap ToSet(ss[j]) = {})
              => IsInjective(FlattenSeq(ss))
<1>1. Len(ss) \in Nat /\ \A i \in 1 .. Len(ss) : ss[i] \in Seq(T)
  BY LenProperties
<1>2. CASE Len(ss) = 0 /\ FlattenSeq(ss) = << >>
  BY <1>2 DEF ToSet, IsInjective
<1>3. ASSUME NEW a, FlatUpTo(a, ss, Len(ss)), \A i \in 1 .. Len(ss) : a[i] \in Seq(T),
             Len(ss) \in 1 .. Len(ss), FlattenSeq(ss) = a[Len(ss)]
      PROVE  /\ FlattenSeq(ss) \in Seq(T)
             /\ \A x \in ToSet(FlattenSeq(ss)) : \E i \in 1 .. Len(ss) : x \in ToSet(ss[i])
             /\ (/\ \A i \in 1 .. Len(ss) : IsInjective(ss[i])
                 /\ \A i, j \in 1 .. Len(ss) : i # j => ToSet(ss[i]) \cap ToSet(ss[j]) = {})
                => IsInjective(FlattenSeq(ss))
  <2> DEFINE Apt == /\ \A i \in 1 .. Len(ss) : IsInjective(ss[i])
                    /\ \A i, j \in 1 .. Len(ss) : i # j => ToSet(ss[i]) \cap ToSet(ss[j]) = {}
             P(n) == /\ \A x \in ToSet(a[n]) : \E i \in 1 .. n : x \in ToSet(ss[i])
                     /\ Apt => IsInjective(a[n])
             Bad == { n \in 1 .. Len(ss) : ~P(n) }
  <2> HIDE DEF Apt
  <2>1. Bad = {}
    <3> SUFFICES ASSUME Bad # {} PROVE FALSE
      OBVIOUS
    <3>1. PICK m \in Bad : \A n \in Bad : m <= n
      <4>1. Bad \in SUBSET Nat
        BY <1>1
      <4> HIDE DEF Bad
      <4> QED BY <4>1, Least
    <3>2. m \in 1 .. Len(ss) /\ ss[m] \in Seq(T) /\ a[m] \in Seq(T) /\ ~P(m)
      BY <1>1, <1>3, <3>1
    <3>3. a[m] = (IF m = 1 THEN ss[m] ELSE a[m - 1] \o ss[m])
      BY <1>3, <3>2 DEF FlatUpTo
    <3>4. CASE m = 1
      <4>1. a[m] = ss[1] /\ 1 \in 1 .. Len(ss) /\ 1 \in 1 .. m
        BY <3>2, <3>3, <3>4
      <4>2. Apt => IsInjective(ss[1])
        BY <4>1 DEF Apt
      <4> QED BY <3>2, <4>1, <4>2
    <3>5. CASE m # 1
      <4> DEFINE r == a[m - 1]
                 s == ss[m]
      <4>1. m - 1 \in 1 .. Len(ss) /\ m - 1 \notin Bad
        <5> HIDE DEF Bad
        <5> QED BY <1>1, <3>1, <3>2, <3>5
      <4>2. P(m - 1) /\ r \in Seq(T) /\ s \in Seq(T) /\ a[m] = r \o s
        BY <1>3, <3>2, <3>3, <3>5, <4>1
      <4>3. ASSUME NEW i \in 1 .. m - 1 PROVE i \in 1 .. m /\ i \in 1 .. Len(ss) /\ i # m
        BY <1>1, <3>2
      <4>4. /\ \A x \in ToSet(r) : \E i \in 1 .. m - 1 : x \in ToSet(ss[i])
            /\ Apt => IsInjective(r)
        BY <4>2
      <4>5. Apt => IsInjective(s) /\ ToSet(r) \cap ToSet(s) = {}
        BY <3>2, <4>3, <4>4 DEF Apt
      <4> HIDE DEF r, s
      <4>6. /\ ToSet(r \o s) = ToSet(r) \cup ToSet(s)
            /\ \A i \in DOMAIN (r \o s) :
                 \/ i \in DOMAIN r /\ (r \o s)[i] = r[i]
                 \/ i - Len(r) \in DOMAIN s /\ (r \o s)[i] = s[i - Len(r)] /\ i > Len(r)
            /\ Len(r) \in Nat /\ DOMAIN (r \o s) \subseteq Nat
        BY <4>2, ConcatOf
      <4>7. \A x \in ToSet(a[m]) : \E i \in 1 .. m : x \in ToSet(ss[i])
        <5>1. m \in 1 .. m
          BY <3>2
        <5> QED BY <4>2, <4>3, <4>4, <4>6, <5>1 DEF s
      <4>8. ASSUME Apt PROVE IsInjective(r \o s)
        <5> SUFFICES ASSUME NEW i \in DOMAIN (r \o s), NEW j \in DOMAIN (r \o s),
                            (r \o s)[i] = (r \o s)[j]
                     PROVE  i = j
          BY DEF IsInjective
        <5>1. IsInjective(r) /\ IsInjective(s) /\ ToSet(r) \cap ToSet(s) = {}
          BY <4>4, <4>5, <4>8
        <5>2. \A x \in DOMAIN r, y \in DOMAIN s : r[x] # s[y]
          BY <5>1 DEF ToSet
        <5>3. i \in Nat /\ j \in Nat
          BY <4>6
        <5>4. CASE i \in DOMAIN r /\ (r \o s)[i] = r[i]
          <6>1. j \in DOMAIN r /\ (r \o s)[j] = r[j]
            BY <4>6, <5>2, <5>4
          <6> QED BY <5>1, <5>4, <6>1 DEF IsInjective
        <5>5. CASE i - Len(r) \in DOMAIN s /\ (r \o s)[i] = s[i - Len(r)]
          <6>1. j - Len(r) \in DOMAIN s /\ (r \o s)[j] = s[j - Len(r)]
            BY <4>6, <5>2, <5>5
          <6>2. i - Len(r) = j - Len(r)
            BY <5>1, <5>5, <6>1 DEF IsInjective
          <6> QED BY <4>6, <5>3, <6>2
        <5> QED BY <4>6, <5>4, <5>5
      <4> QED BY <3>2, <4>2, <4>7, <4>8
    <3> QED BY <3>4, <3>5
  <2>2. P(Len(ss))
    BY <1>3, <2>1
  <2> QED BY <1>3, <2>2 DEF Apt
<1> QED BY <1>2, <1>3, FlattenIs

\* Sequences of the elements of a finite set.
LEMMA SetToSeqOf ==
    ASSUME NEW S, IsFiniteSet(S)
    PROVE  /\ SetToSeq(S) \in Seq(S)
           /\ \A q \in SetToSeqs(S) : q \in Seq(S) /\ ToSet(q) = S
<1>1. Cardinality(S) \in Nat /\ ExistsBijection(1 .. Cardinality(S), S)
  BY FS_CardinalityType
<1>2. \E f \in [1 .. Cardinality(S) -> S] : IsInjective(f)
  BY <1>1 DEF ExistsBijection, Bijection, Injection
<1>3. SetToSeq(S) \in [1 .. Cardinality(S) -> S]
  BY <1>2 DEF SetToSeq
<1>4. \A q \in SetToSeqs(S) : q \in [1 .. Cardinality(S) -> S]
  BY DEF SetToSeqs
<1>5. ASSUME NEW q \in SetToSeqs(S) PROVE ToSet(q) = S
  <2>1. q \in Injection(1 .. Cardinality(S), S)
    BY <1>4 DEF SetToSeqs, Injection, IsInjective
  <2>2. Cardinality(1 .. Cardinality(S)) = Cardinality(S)
    BY <1>1, FS_Interval
  <2>3. q \in Surjection(1 .. Cardinality(S), S)
    BY <2>1, <2>2, FS_Injection
  <2> QED BY <1>4, <2>3 DEF Surjection, ToSet
<1> QED BY <1>1, <1>3, <1>4, <1>5

\* The filters are finitely many, and each is in Order once.
LEMMA OrderOnce == IsInjective(Order) /\ IsFiniteSet(Filters)
<1>1. /\ Order \in [1 .. Len(Order) -> Filters] /\ Len(Order) \in Nat
      /\ DOMAIN Order = 1 .. Len(Order) /\ ToSet(Order) = Filters
      /\ Cardinality(Filters) = Len(Order)
  BY SetupsAssumption, LenProperties
<1>2. /\ IsFiniteSet(1 .. Len(Order)) /\ Cardinality(1 .. Len(Order)) = Len(Order)
  <2>1. 1 \in Int /\ Len(Order) \in Int
    BY <1>1
  <2>2. /\ IsFiniteSet(1 .. Len(Order))
        /\ Cardinality(1 .. Len(Order)) = IF 1 > Len(Order) THEN 0 ELSE Len(Order) - 1 + 1
    BY <2>1, FS_Interval, Zenon
  <2> QED BY <1>1, <2>2
<1>3. Order \in Surjection(1 .. Len(Order), Filters)
  BY <1>1 DEF Surjection, ToSet
<1>4. Order \in Injection(1 .. Len(Order), Filters) /\ IsFiniteSet(Filters)
  BY <1>1, <1>2, <1>3, FS_Surjection
<1> QED BY <1>1, <1>4 DEF Injection, IsInjective

-----------------------------------------------------------------------------
(* Types *)

\* Items by what they do.
LEMMA ItemOf ==
    ASSUME NEW w \in Items
    PROVE  /\ w.op \in { "decorate", "null", "mark", "remove", "inc", "update", "resume", "count",
                        "look", "compare", "settle" } => w.of \in Keys
           /\ w.op \in { "call", "enter", "run", "zero", "add", "drop", "check" } => w.of \in Filters
           /\ w.op \in { "immediate", "pulse", "atexit" } => w.of \in Seq(Keys)
           /\ w.op = "resume" => w.rest \in Seq(Filters) /\ w.unsat \in Seq(Keys)
           /\ w.op \in { "count", "look", "compare", "check" } => w.n \in Nat
           /\ w.op = "settle" => w.to \in { "PartlySatisfied", "Complete" }
  BY DEF Items

\* Items that are made with Do are items.
LEMMA DoIn ==
    /\ \A k \in Keys : /\ Do("decorate", k) \in Items /\ Do("null", k) \in Items
                       /\ Do("mark", k) \in Items /\ Do("remove", k) \in Items
                       /\ Do("inc", k) \in Items /\ Do("update", k) \in Items
    /\ \A f \in Filters : /\ Do("call", f) \in Items /\ Do("enter", f) \in Items
                          /\ Do("run", f) \in Items /\ Do("zero", f) \in Items
    /\ \A ks \in Seq(Keys) : Do("pulse", ks) \in Items /\ Do("atexit", ks) \in Items
    /\ \A k \in Keys, n \in Nat : /\ [op |-> "count", of |-> k, n |-> n] \in Items
                                 /\ [op |-> "look", of |-> k, n |-> n] \in Items
                                 /\ [op |-> "compare", of |-> k, n |-> n] \in Items
    /\ \A k \in Keys, s \in { "PartlySatisfied", "Complete" } :
          [op |-> "settle", of |-> k, to |-> s] \in Items
    /\ \A f \in Filters, n \in Nat : [op |-> "check", of |-> f, n |-> n] \in Items
    /\ \A k \in Keys, r \in Seq(Filters), u \in Seq(Keys) :
          [op |-> "resume", of |-> k, unsat |-> u, rest |-> r] \in Items
<1>1. \A k \in Keys : /\ Do("decorate", k) \in Items /\ Do("null", k) \in Items
                      /\ Do("mark", k) \in Items /\ Do("remove", k) \in Items
                      /\ Do("inc", k) \in Items /\ Do("update", k) \in Items
  BY DEF Do, Items
<1>2. \A f \in Filters : /\ Do("call", f) \in Items /\ Do("enter", f) \in Items
                         /\ Do("run", f) \in Items /\ Do("zero", f) \in Items
  BY DEF Do, Items
<1>3. \A ks \in Seq(Keys) : Do("pulse", ks) \in Items /\ Do("atexit", ks) \in Items
  BY DEF Do, Items
<1>4. \A k \in Keys, n \in Nat : /\ [op |-> "count", of |-> k, n |-> n] \in Items
                                 /\ [op |-> "look", of |-> k, n |-> n] \in Items
                                 /\ [op |-> "compare", of |-> k, n |-> n] \in Items
  BY DEF Items
<1>6. \A k \in Keys, s \in { "PartlySatisfied", "Complete" } :
          [op |-> "settle", of |-> k, to |-> s] \in Items
  BY DEF Items
<1>7. \A f \in Filters, n \in Nat : [op |-> "check", of |-> f, n |-> n] \in Items
  BY DEF Items
<1>5. \A k \in Keys, r \in Seq(Filters), u \in Seq(Keys) :
          [op |-> "resume", of |-> k, unsat |-> u, rest |-> r] \in Items
  BY DEF Items
<1> QED BY <1>1, <1>2, <1>3, <1>4, <1>5, <1>6, <1>7

\* What clients ask for is among what threads can have to do.
LEMMA RequestsAreItems == Requests \subseteq Items
<1> SUFFICES ASSUME NEW r \in Requests PROVE r \in Items
  OBVIOUS
<1>1. CASE r \in [op : { "decorate", "null", "mark", "remove" }, of : Keys]
  BY <1>1 DEF Items
<1>2. CASE r \in [op : { "add", "drop" }, of : Filters]
  BY <1>2 DEF Items
<1>3. CASE r \in [op : { "immediate" }, of : { ks \in UNION { [1 .. n -> Keys] : n \in 1 .. 2 } :
                                               IsInjective(ks) }]
  <2>1. \A n \in 1 .. 2 : \A ks \in [1 .. n -> Keys] : ks \in Seq(Keys)
    OBVIOUS
  <2>2. r.of \in Seq(Keys)
    BY <1>3, <2>1
  <2> QED BY <1>3, <2>2 DEF Items
<1> QED BY <1>1, <1>2, <1>3 DEF Requests

\* What the setup gives.
LEMMA SetupOf ==
    ASSUME setup \in Setups
    PROVE  /\ \A f \in Filters, k \in Keys : Kind(f, k) \in Kinds
           /\ setup.initial \subseteq Filters /\ setup.deferred \subseteq Filters
           /\ setup.throwing \subseteq Filters
           /\ setup.todo \in [Threads -> SUBSET Requests]
  BY SetupsAssumption DEF Kind

\* The number of types is a natural.
LEMMA CountOf ==
    ASSUME NEW S \in SUBSET Keys
    PROVE  IsFiniteSet(S) /\ Cardinality(S) \in Nat /\ Cardinality(S) <= Cardinality(Keys)
  BY SetupsAssumption, FS_Subset, FS_CardinalityType

\* Filters taken from Order are those of the set, each once.
LEMMA AmongOrder ==
    ASSUME NEW S
    PROVE  /\ Among(Order, S) \in Seq(Filters)
           /\ ToSet(Among(Order, S)) = Filters \cap S
           /\ IsInjective(Among(Order, S))
  BY SetupsAssumption, OrderOnce, AmongOf

\* TypeOK without the work of the threads.
DataOK ==
    /\ setup \in Setups
    /\ todo \in [Threads -> SUBSET Requests]
    /\ \A t \in Threads : todo[t] \subseteq setup.todo[t]
    /\ pended \in Seq(setup.deferred)
    /\ holder \subseteq Threads /\ recipients \subseteq Filters
    /\ unwired \in [Filters -> SUBSET Keys]
    /\ state \in [Keys -> { "Unsatisfied", "PartlySatisfied", "Complete" }]
    /\ decorations \in [Keys -> Nat] /\ nProducersRun \in [Keys -> Nat]
    /\ immediate \in [Keys -> BOOLEAN]
    /\ remaining \in [Filters -> Nat]
    /\ born \in { "no", "issued", "refused" }
    /\ called \in [Filters -> 0 .. 2]
    /\ threw \subseteq Threads /\ missing \subseteq Filters /\ raced \subseteq Filters
    /\ taken \subseteq Keys /\ lost \subseteq Keys /\ stranded \subseteq Keys

\* TypeOK is the types of the data and of the work ...
LEMMA TypeParts == TypeOK <=> DataOK /\ work \in [Threads -> Seq(Items)]
  BY DEF TypeOK, DataOK

\* ... in the next state as well.
LEMMA TypePartsNext == TypeOK' <=> DataOK' /\ work' \in [Threads -> Seq(Items)]
  BY DEF TypeOK, DataOK

\* The modifiers that are still to be notified are modifiers, and each is there once.
Orderly(w) == IsInjective(w.rest) /\ \A f \in ToSet(w.rest) : Kind(f, w.of) \in Modifying
RestsOK ==
    \A t \in Threads : \A i \in DOMAIN work[t] : work[t][i].op = "resume" => Orderly(work[t][i])

Typed == TypeOK /\ RestsOK

\* What t has to do anew: no request of a client, and another pass only of a pulse
\* that is at hand.  A filter that is added will be called when nothing remained.
IsCall(w) == w.op \in { "call", "enter" } \/ (w.op = "check" /\ w.n = 0)
Made(t, w) ==
    /\ w.op = "resume" => Orderly(w)
    /\ w.op \notin { "add", "drop", "immediate" }
    /\ w.op = "zero" => w.of \in recipients
    /\ w.op = "check" => Doing(t, "add") /\ w.of = Current(t).of
    /\ w.op = "pulse" => work[t] # << >> /\ Current(t).op \in { "immediate", "pulse" }
                           /\ w.of = Current(t).of

\* Thread t has new to do, and then rest, which is part of what it had.
Moves(t, new, rest) ==
    /\ new \in Seq(Items) /\ rest \in Seq(Items)
    /\ work' = [work EXCEPT ![t] = new \o rest]
    /\ \A i \in DOMAIN new : Made(t, new[i])
    /\ \A i \in DOMAIN rest : rest[i] \in ToSet(work[t])
    /\ \/ \A i \in DOMAIN rest : rest[i].op = "atexit"
       \/ work[t] # << >> /\ rest = Tail(work[t])
    /\ \A w \in ToSet(work[t]) : w.op = "atexit" =>
          w \in ToSet(rest) \/ (Doing(t, "atexit") /\ w = Current(t))

\* A filter that is called anew was not satisfied before, and is called once.
Fires(new) ==
    \A i \in DOMAIN new : IsCall(new[i]) =>
        /\ remaining[new[i].of] > 0 /\ remaining'[new[i].of] = 0
        /\ \A j \in DOMAIN new : IsCall(new[j]) /\ new[j].of = new[i].of => i = j
Mute(new) == \A i \in DOMAIN new : ~IsCall(new[i])

\* The rest of a sequence.
LEMMA TailOf ==
    ASSUME NEW T, NEW s \in Seq(T), s # << >>
    PROVE  /\ Head(s) \in T /\ Tail(s) \in Seq(T)
           /\ Head(s) = s[1] /\ 1 \in DOMAIN s /\ DOMAIN s \subseteq Nat
           /\ \A i \in DOMAIN Tail(s) : i + 1 \in DOMAIN s /\ Tail(s)[i] = s[i + 1] /\ i \in Nat
           /\ ToSet(s) = {Head(s)} \cup ToSet(Tail(s))
<1>1. /\ Head(s) \in T /\ Tail(s) \in Seq(T) /\ Head(s) = s[1]
      /\ Len(Tail(s)) = Len(s) - 1
      /\ \A i \in 1 .. Len(Tail(s)) : Tail(s)[i] = s[i + 1]
  BY HeadTailProperties
<1>2. /\ Len(s) \in Nat /\ Len(s) >= 1 /\ DOMAIN s = 1 .. Len(s)
      /\ DOMAIN Tail(s) = 1 .. (Len(s) - 1)
  BY <1>1, LenProperties, EmptySeq
<1>3. \A i \in DOMAIN Tail(s) : i + 1 \in DOMAIN s /\ Tail(s)[i] = s[i + 1] /\ i \in Nat
  BY <1>1, <1>2
<1>4. ASSUME NEW x \in ToSet(s) PROVE x \in {Head(s)} \cup ToSet(Tail(s))
  <2>1. PICK i \in 1 .. Len(s) : x = s[i]
    BY <1>2, <1>4 DEF ToSet
  <2>2. i # 1 => i - 1 \in DOMAIN Tail(s) /\ Tail(s)[i - 1] = x
    BY <1>1, <1>2, <2>1
  <2> QED BY <1>1, <2>1, <2>2 DEF ToSet
<1>5. {Head(s)} \cup ToSet(Tail(s)) \subseteq ToSet(s)
  BY <1>1, <1>2, <1>3 DEF ToSet
<1>6. 1 \in DOMAIN s /\ DOMAIN s \subseteq Nat
  BY <1>2
<1>7. ToSet(s) = {Head(s)} \cup ToSet(Tail(s))
  BY <1>4, <1>5
<1> QED BY <1>1, <1>3, <1>6, <1>7

\* What a thread is doing.
LEMMA DoingOf ==
    ASSUME TypeOK, NEW t \in Threads, NEW o, Doing(t, o)
    PROVE  /\ work[t] \in Seq(Items) /\ work[t] # << >>
           /\ Current(t) \in Items /\ Current(t).op = o /\ Current(t) \in ToSet(work[t])
           /\ Current(t) = work[t][1] /\ 1 \in DOMAIN work[t]
<1>1. work[t] \in Seq(Items) /\ work[t] # << >>
  BY DEF TypeOK, Doing
<1> QED BY <1>1, TailOf DEF Doing, Current

\* A step that replaces the item at hand.
LEMMA ThenMoves ==
    ASSUME TypeOK, NEW t \in Threads, work[t] # << >>,
           NEW new \in Seq(Items), Then(t, new), \A i \in DOMAIN new : Made(t, new[i])
    PROVE  Moves(t, new, Tail(work[t]))
<1>1. work[t] \in Seq(Items)
  BY DEF TypeOK
<1>2. /\ Tail(work[t]) \in Seq(Items)
      /\ ToSet(work[t]) = {Head(work[t])} \cup ToSet(Tail(work[t]))
  BY <1>1, TailOf
<1>3. \A i \in DOMAIN Tail(work[t]) : Tail(work[t])[i] \in ToSet(work[t])
  BY <1>2 DEF ToSet
<1>4. \A w \in ToSet(work[t]) : w.op = "atexit" =>
          w \in ToSet(Tail(work[t])) \/ (Doing(t, "atexit") /\ w = Current(t))
  BY <1>2 DEF Doing, Current
<1> QED BY <1>2, <1>3, <1>4 DEF Moves, Then

\* A step that leaves the packet by an exception.
LEMMA ThrowMoves ==
    ASSUME TypeOK, NEW t \in Threads, Throw(t)
    PROVE  \E rest : Moves(t, << >>, rest)
<1> DEFINE E == { w \in ToSet(work[t]) : w.op = "atexit" }
           rest == Among(work[t], E)
<1>1. work[t] \in Seq(Items)
  BY DEF TypeOK
<1>2. rest \in Seq(Items) /\ ToSet(rest) = ToSet(work[t]) \cap E
  BY <1>1, AmongOf
<1>3. work' = [work EXCEPT ![t] = << >> \o rest]
  <2>1. << >> \o rest = rest
    BY <1>2
  <2>2. work' = [work EXCEPT ![t] = rest]
    BY DEF Throw
  <2> QED BY <2>1, <2>2
<1>4. \A i \in DOMAIN rest : rest[i] \in ToSet(rest)
  BY DEF ToSet
<1>5. \A i \in DOMAIN rest : rest[i] \in ToSet(work[t]) /\ rest[i].op = "atexit"
  BY <1>2, <1>4
<1>6. \A w \in ToSet(work[t]) : w.op = "atexit" => w \in ToSet(rest)
  BY <1>2
<1> HIDE DEF rest
<1>7. Moves(t, << >>, rest)
  BY <1>2, <1>3, <1>5, <1>6 DEF Moves
<1> QED BY <1>7

\* Moves keeps the types of the work and the order of the modifiers.
LEMMA MovesTyped ==
    ASSUME Typed, NEW t \in Threads, NEW new, NEW rest, Moves(t, new, rest), setup' = setup
    PROVE  work' \in [Threads -> Seq(Items)] /\ RestsOK'
<1>1. work \in [Threads -> Seq(Items)] /\ new \o rest \in Seq(Items)
  BY ConcatOf DEF Typed, TypeOK, Moves
<1>2. /\ work' \in [Threads -> Seq(Items)] /\ work'[t] = new \o rest
      /\ \A u \in Threads \ {t} : work'[u] = work[u]
  BY <1>1 DEF Moves
<1>3. \A w \in ToSet(work[t]) : w.op = "resume" => Orderly(w)
  BY DEF Typed, RestsOK, ToSet
<1>4. ASSUME NEW u \in Threads, NEW i \in DOMAIN work'[u], work'[u][i].op = "resume"
      PROVE  Orderly(work'[u][i])
  <2>1. CASE u # t
    BY <1>2, <1>4, <2>1 DEF Typed, RestsOK
  <2>2. CASE u = t
    <3>1. \/ i \in DOMAIN new /\ work'[t][i] = new[i]
          \/ i - Len(new) \in DOMAIN rest /\ work'[t][i] = rest[i - Len(new)]
      BY <1>2, <1>4, <2>2, ConcatOf DEF Moves
    <3> QED BY <1>3, <1>4, <2>2, <3>1 DEF Moves, Made
  <2> QED BY <2>1, <2>2
<1>5. RestsOK'
  BY <1>4 DEF RestsOK, Orderly, Kind
<1> QED BY <1>2, <1>5

-----------------------------------------------------------------------------
(* What the steps do *)

\* The least position.
LEMMA MinOf ==
    ASSUME NEW S \in SUBSET Nat, S # {}
    PROVE  Min(S) \in S
<1>1. \E m \in S : \A n \in S : m <= n
  BY Least
<1> QED BY <1>1 DEF Min

\* Calls of the filters q.
LEMMA CallsOfOf ==
    ASSUME NEW q \in Seq(Filters)
    PROVE  /\ CallsOf(q) \in Seq(Items)
           /\ DOMAIN CallsOf(q) = DOMAIN q
           /\ \A i \in DOMAIN q : CallsOf(q)[i].op = "call" /\ CallsOf(q)[i].of = q[i]
<1>1. /\ Len(q) \in Nat /\ DOMAIN q = 1 .. Len(q) /\ \A i \in 1 .. Len(q) : q[i] \in Filters
  BY LenProperties
<1>2. \A i \in 1 .. Len(q) : Do("call", q[i]) \in Items
  BY <1>1, DoIn
<1>3. CallsOf(q) \in [1 .. Len(q) -> Items]
  BY <1>2 DEF CallsOf
<1>4. CallsOf(q) \in Seq(Items)
  BY <1>1, <1>3
<1> QED BY <1>1, <1>4 DEF CallsOf, Do

\* Outputs that will never be there.
LEMMA UnsatOfOf ==
    ASSUME NEW q \in Seq(Keys)
    PROVE  /\ UnsatOf(q) \in Seq(Items)
           /\ DOMAIN UnsatOf(q) = DOMAIN q
           /\ \A i \in DOMAIN UnsatOf(q) : UnsatOf(q)[i].op = "inc" /\ UnsatOf(q)[i].of = q[i]
<1>1. /\ Len(q) \in Nat /\ DOMAIN q = 1 .. Len(q) /\ \A i \in 1 .. Len(q) : q[i] \in Keys
  BY LenProperties
<1>2. \A i \in 1 .. Len(q) : Do("inc", q[i]) \in Items
  BY <1>1, DoIn
<1>3. UnsatOf(q) \in [1 .. Len(q) -> Items]
  BY <1>2 DEF UnsatOf
<1>4. UnsatOf(q) \in Seq(Items)
  BY <1>1, <1>3
<1> QED BY <1>1, <1>4 DEF UnsatOf, Do

\* The outputs of filters that are never called are types.
LEMMA MarkOutputsUnsatOf ==
    ASSUME NEW q \in Seq(Filters), NEW k, NEW d
    PROVE  /\ MarkOutputsUnsat(q, k, d) \in Seq(Keys)
           /\ \A x \in ToSet(MarkOutputsUnsat(q, k, d)) : \E f \in Filters : x \in OutputsOf(f)
<1> DEFINE never == Among(q, { f \in Filters : remaining[f] > 0 /\ Barred(f, k, d) })
           ss == [i \in DOMAIN never |-> SetToSeq(OutputsOf(never[i]))]
<1>1. never \in Seq(Filters)
  BY AmongOf
<1>2. /\ Len(never) \in Nat /\ DOMAIN never = 1 .. Len(never)
  BY <1>1, LenProperties
<1>3. \A f : SetToSeq(OutputsOf(f)) \in Seq(Keys) /\ SetToSeq(OutputsOf(f)) \in Seq(OutputsOf(f))
  <2>1. \A f : OutputsOf(f) \in SUBSET Keys
    BY DEF OutputsOf
  <2>2. \A f : IsFiniteSet(OutputsOf(f))
    BY <2>1, CountOf
  <2>3. \A f : SetToSeq(OutputsOf(f)) \in Seq(OutputsOf(f))
    BY <2>2, SetToSeqOf
  <2> QED BY <2>1, <2>3, SeqMonotonic
<1> HIDE DEF never
<1>4. ss \in [1 .. Len(never) -> Seq(Keys)]
  BY <1>2, <1>3
<1>5. ss \in Seq(Seq(Keys))
  BY <1>2, <1>4
<1>6. /\ FlattenSeq(ss) \in Seq(Keys)
      /\ \A x \in ToSet(FlattenSeq(ss)) : \E i \in 1 .. Len(ss) : x \in ToSet(ss[i])
  <2> HIDE DEF ss
  <2> QED BY <1>5, FlattenOf
<1>7. Len(ss) = Len(never)
  BY <1>2, <1>5, LenProperties
<1>8. ASSUME NEW x \in ToSet(FlattenSeq(ss)) PROVE \E f \in Filters : x \in OutputsOf(f)
  <2>1. PICK i \in 1 .. Len(never) : x \in ToSet(ss[i])
    BY <1>6, <1>7, <1>8
  <2>2. ss[i] = SetToSeq(OutputsOf(never[i])) /\ never[i] \in Filters
    BY <1>1, <1>2
  <2>3. ToSet(SetToSeq(OutputsOf(never[i]))) \subseteq OutputsOf(never[i])
    BY <1>3 DEF ToSet
  <2> QED BY <2>1, <2>2, <2>3
<1> QED BY <1>6, <1>8 DEF MarkOutputsUnsat, never

\* Modifiers and subscribers of a type are different filters, and each is there once.
LEMMA SubscribersOf ==
    ASSUME DataOK, NEW k \in Keys
    PROVE  /\ Modifiers(k) \in Seq(Filters) /\ IsInjective(Modifiers(k))
           /\ \A f \in ToSet(Modifiers(k)) : f \in recipients /\ Kind(f, k) \in Modifying
           /\ Subscribers(k) \in Seq(Filters) /\ IsInjective(Subscribers(k))
           /\ \A f \in ToSet(Subscribers(k)) :
                 f \in recipients /\ Kind(f, k) \in Inputs /\ Kind(f, k) \notin Modifying
  BY AmongOrder DEF Modifiers, Subscribers, Wired

\* Two sequences without repetition and without a common element.
LEMMA ConcatInjective ==
    ASSUME NEW T, NEW r \in Seq(T), NEW s \in Seq(T), IsInjective(r), IsInjective(s),
           ToSet(r) \cap ToSet(s) = {}
    PROVE  IsInjective(r \o s)
<1> SUFFICES ASSUME NEW i \in DOMAIN (r \o s), NEW j \in DOMAIN (r \o s),
                    (r \o s)[i] = (r \o s)[j]
             PROVE  i = j
  BY DEF IsInjective
<1>1. /\ Len(r) \in Nat /\ i \in Nat /\ j \in Nat
      /\ \/ i \in DOMAIN r /\ (r \o s)[i] = r[i]
         \/ i - Len(r) \in DOMAIN s /\ (r \o s)[i] = s[i - Len(r)]
      /\ \/ j \in DOMAIN r /\ (r \o s)[j] = r[j]
         \/ j - Len(r) \in DOMAIN s /\ (r \o s)[j] = s[j - Len(r)]
  BY ConcatOf
<1>2. \A x \in DOMAIN r, y \in DOMAIN s : r[x] # s[y]
  BY DEF ToSet
<1>3. i - Len(r) = j - Len(r) => i = j
  BY <1>1
<1> QED BY <1>1, <1>2, <1>3 DEF IsInjective

\* Part of a sequence without repetition.
LEMMA SubSeqOf ==
    ASSUME NEW T, NEW s \in Seq(T), NEW m \in Nat, NEW n \in Nat, 1 <= m, n <= Len(s)
    PROVE  /\ SubSeq(s, m, n) \in Seq(T)
           /\ ToSet(SubSeq(s, m, n)) \subseteq ToSet(s)
           /\ IsInjective(s) => IsInjective(SubSeq(s, m, n))
<1> DEFINE q == SubSeq(s, m, n)
<1>1. Len(s) \in Nat /\ DOMAIN s = 1 .. Len(s) /\ \A i \in 1 .. Len(s) : s[i] \in T
  BY LenProperties
<1>2. \A i \in m .. n : s[i] \in T
  BY <1>1
<1>3. /\ q \in Seq(T) /\ Len(q) = IF m <= n THEN n - m + 1 ELSE 0
      /\ \A i \in 1 .. n - m + 1 : q[i] = s[m + i - 1]
  BY <1>2, SubSeqProperties
<1>4. DOMAIN q = 1 .. Len(q)
  BY <1>3, LenProperties
<1>5. \A i \in DOMAIN q : i \in Nat /\ m + i - 1 \in DOMAIN s /\ q[i] = s[m + i - 1]
  BY <1>1, <1>3, <1>4
<1> HIDE DEF q
<1>6. ToSet(q) \subseteq ToSet(s)
  BY <1>5 DEF ToSet
<1>7. ASSUME IsInjective(s) PROVE IsInjective(q)
  <2> SUFFICES ASSUME NEW i \in DOMAIN q, NEW j \in DOMAIN q, q[i] = q[j] PROVE i = j
    BY DEF IsInjective
  <2>1. m + i - 1 = m + j - 1
    BY <1>5, <1>7 DEF IsInjective
  <2> QED BY <1>5, <2>1
<1> QED BY <1>3, <1>6, <1>7 DEF q

\* The filters that are notified of k: counters go down, and who is satisfied is called.
LEMMA CountedOf ==
    ASSUME DataOK, NEW k \in Keys, NEW d \in Nat, NEW q \in Seq(Filters), IsInjective(q),
           remaining' = Counted(q, k, d)
    PROVE  /\ remaining' \in [Filters -> Nat]
           /\ \A f \in Filters : remaining'[f] <= remaining[f]
           /\ Satisfied(q, k, d) \in Seq(Filters) /\ IsInjective(Satisfied(q, k, d))
           /\ \A f \in ToSet(Satisfied(q, k, d)) :
                 f \in ToSet(q) /\ remaining[f] = 1 /\ remaining'[f] = 0 /\ ~Barred(f, k, d)
<1>1. remaining \in [Filters -> Nat]
  BY DEF DataOK
<1>2. \A f \in Filters : remaining'[f] \in Nat /\ remaining'[f] <= remaining[f]
  BY <1>1 DEF Counted
<1>3. remaining' \in [Filters -> Nat]
  BY <1>2 DEF Counted
<1>4. /\ Satisfied(q, k, d) \in Seq(Filters) /\ IsInjective(Satisfied(q, k, d))
      /\ ToSet(Satisfied(q, k, d)) =
            ToSet(q) \cap { f \in Filters : remaining[f] = 1 /\ ~Barred(f, k, d) }
  BY AmongOf DEF Satisfied
<1>5. \A f \in ToSet(Satisfied(q, k, d)) :
         f \in ToSet(q) /\ remaining[f] = 1 /\ remaining'[f] = 0 /\ ~Barred(f, k, d)
  BY <1>1, <1>4 DEF Counted
<1> QED BY <1>2, <1>3, <1>4, <1>5

\* UpdateSatisfactionUnsafe: only filters that were not satisfied are called.
LEMMA UpdateDoes ==
    ASSUME TypeOK, NEW t \in Threads, work[t] # << >>, NEW k \in Keys, NEW d \in Nat,
           NEW ms \in Seq(Filters), IsInjective(ms),
           \A f \in ToSet(ms) : Kind(f, k) \in Modifying,
           NEW unsat \in Seq(Keys), Update(t, k, d, ms, unsat)
    PROVE  /\ remaining' \in [Filters -> Nat]
           /\ \A f \in Filters : remaining'[f] <= remaining[f]
           /\ \E new : Moves(t, new, Tail(work[t])) /\ Fires(new)
<1> DEFINE due == Due(ms, k)
           now == IF due = {} THEN ms \o Subscribers(k) ELSE SubSeq(ms, 1, Min(due))
           never == unsat \o MarkOutputsUnsat(now, k, d)
           calls == CallsOf(Satisfied(now, k, d))
           last == IF due = {} THEN UnsatOf(never)
                   ELSE << [op |-> "resume", of |-> k, unsat |-> never,
                            rest |-> SubSeq(ms, Min(due) + 1, Len(ms))] >>
<1>1. DataOK /\ remaining' = Counted(now, k, d) /\ Then(t, calls \o last)
  BY TypeParts DEF Update
<1>2. due # {} => Min(due) \in Nat /\ 1 <= Min(due) /\ Min(due) <= Len(ms)
  <2>1. DOMAIN ms = 1 .. Len(ms) /\ Len(ms) \in Nat
    BY LenProperties
  <2>2. due \subseteq 1 .. Len(ms)
    BY <2>1 DEF Due
  <2>3. due \in SUBSET Nat
    BY <2>1, <2>2
  <2>4. due # {} => Min(due) \in due
    BY <2>3, MinOf
  <2> QED BY <2>1, <2>2, <2>4
<1>3. Len(ms) \in Nat
  BY LenProperties
<1>4. now \in Seq(Filters) /\ IsInjective(now)
  <2>1. CASE due = {}
    <3>1. /\ Subscribers(k) \in Seq(Filters) /\ IsInjective(Subscribers(k))
          /\ ToSet(ms) \cap ToSet(Subscribers(k)) = {}
      BY <1>1, SubscribersOf
    <3>2. ms \o Subscribers(k) \in Seq(Filters) /\ IsInjective(ms \o Subscribers(k))
      BY <3>1, ConcatOf, ConcatInjective
    <3> QED BY <2>1, <3>2
  <2>2. CASE due # {}
    <3>1. /\ SubSeq(ms, 1, Min(due)) \in Seq(Filters) /\ IsInjective(SubSeq(ms, 1, Min(due)))
      BY <1>2, <2>2, SubSeqOf
    <3> QED BY <2>2, <3>1
  <2> QED BY <2>1, <2>2
<1> HIDE DEF now
<1>5. never \in Seq(Keys)
  BY <1>4, MarkOutputsUnsatOf, ConcatOf
<1> HIDE DEF never
<1>6. /\ remaining' \in [Filters -> Nat]
      /\ \A f \in Filters : remaining'[f] <= remaining[f]
      /\ Satisfied(now, k, d) \in Seq(Filters) /\ IsInjective(Satisfied(now, k, d))
      /\ \A f \in ToSet(Satisfied(now, k, d)) : remaining[f] = 1 /\ remaining'[f] = 0
  BY <1>1, <1>4, CountedOf
<1>7. /\ calls \in Seq(Items) /\ DOMAIN calls = DOMAIN Satisfied(now, k, d)
      /\ \A i \in DOMAIN calls : calls[i].op = "call" /\ calls[i].of = Satisfied(now, k, d)[i]
  BY <1>6, CallsOfOf
<1>8. /\ last \in Seq(Items)
      /\ \A i \in DOMAIN last : ~IsCall(last[i]) /\ Made(t, last[i])
  <2>1. CASE due = {}
    <3>1. last = UnsatOf(never)
      BY <2>1
    <3> QED BY <1>5, <3>1, UnsatOfOf DEF IsCall, Made
  <2>2. CASE due # {}
    <3> DEFINE rest == SubSeq(ms, Min(due) + 1, Len(ms))
               w == [op |-> "resume", of |-> k, unsat |-> never, rest |-> rest]
    <3>1. /\ rest \in Seq(Filters) /\ IsInjective(rest) /\ ToSet(rest) \subseteq ToSet(ms)
      <4>1. Min(due) + 1 \in Nat /\ 1 <= Min(due) + 1
        BY <1>2, <2>2
      <4> HIDE DEF due
      <4> QED BY <1>3, <4>1, SubSeqOf
    <3>2. last = << w >>
      BY <2>2
    <3> HIDE DEF rest
    <3>3. w \in Items
      BY <1>5, <3>1, DoIn
    <3>4. Made(t, w) /\ ~IsCall(w)
      BY <3>1 DEF Orderly, IsCall, Made
    <3> HIDE DEF w, last
    <3>5. DOMAIN last = {1} /\ last[1] = w /\ last \in Seq(Items)
      BY <3>2, <3>3
    <3> QED BY <3>4, <3>5
  <2> QED BY <2>1, <2>2
<1> HIDE DEF calls, last
<1> DEFINE new == calls \o last
<1>9. /\ new \in Seq(Items)
      /\ \A i \in DOMAIN new :
           \/ i \in DOMAIN calls /\ new[i] = calls[i]
           \/ i - Len(calls) \in DOMAIN last /\ new[i] = last[i - Len(calls)]
  BY <1>7, <1>8, ConcatOf
<1> HIDE DEF new
<1>10. \A i \in DOMAIN new : Made(t, new[i])
  <2>1. \A i \in DOMAIN calls : Made(t, calls[i])
    BY <1>7 DEF Made
  <2> QED BY <1>8, <1>9, <2>1
<1>11. Moves(t, new, Tail(work[t]))
  BY <1>1, <1>9, <1>10, ThenMoves DEF new
<1>12. Fires(new)
  <2>1. \A i \in DOMAIN new : IsCall(new[i]) => i \in DOMAIN calls /\ new[i] = calls[i]
    BY <1>8, <1>9
  <2>2. \A i \in DOMAIN calls : /\ remaining[calls[i].of] = 1 /\ remaining'[calls[i].of] = 0
                                /\ \A j \in DOMAIN calls : calls[j].of = calls[i].of => i = j
    BY <1>6, <1>7 DEF IsInjective, ToSet
  <2>3. 1 > 0
    OBVIOUS
  <2> QED BY <2>1, <2>2, <2>3 DEF Fires
<1> QED BY <1>6, <1>11, <1>12

-----------------------------------------------------------------------------
(* The steps that only do what they have to do, and call who is satisfied *)

\* The inputs of f among ks, whether f is wired to them or not.
Meets(f, ks) == Cardinality({ k \in ToSet(ks) : Kind(f, k) \in { "in", "multi" } })

\* They are no fewer than those that a pulse satisfies.
LEMMA HitsOf ==
    ASSUME NEW f, NEW ks \in Seq(Keys), Meets(f, ks) <= 1
    PROVE  Hits(f, ks) <= 1
<1> DEFINE few == { k \in ToSet(ks) \ unwired[f] : Kind(f, k) \in { "in", "multi" } }
           all == { k \in ToSet(ks) : Kind(f, k) \in { "in", "multi" } }
<1>1. few \subseteq all /\ all \in SUBSET Keys /\ few \in SUBSET Keys
  BY DEF ToSet
<1>2. Hits(f, ks) = Cardinality(few) /\ Meets(f, ks) = Cardinality(all)
  BY DEF Hits, Meets
<1> HIDE DEF few, all
<1>3. IsFiniteSet(all) /\ Cardinality(all) \in Nat /\ Cardinality(few) \in Nat
  BY <1>1, CountOf
<1>4. Cardinality(few) <= Cardinality(all)
  BY <1>1, <1>3, FS_Subset
<1> QED BY <1>2, <1>3, <1>4

\* No filter takes two types of one DecorateImmediate that is under way.
Single ==
    \A t \in Threads : \A w \in ToSet(work[t]) :
        w.op \in { "immediate", "pulse" } => \A f \in Filters : Meets(f, w.of) <= 1

\* Counters only go down, and filters are called when they reach zero.
Does(t) ==
    /\ \E new, rest : Moves(t, new, rest) /\ (Single => Fires(new))
    /\ \A f \in Filters : remaining'[f] <= remaining[f]
    /\ UNCHANGED << setup, todo, pended, born, called, raced >>

\* An item that is done and leaves nothing to call.
LEMMA ThenMute ==
    ASSUME TypeOK, NEW t \in Threads, work[t] # << >>, NEW new \in Seq(Items), Then(t, new),
           \A i \in DOMAIN new : Made(t, new[i]) /\ ~IsCall(new[i])
    PROVE  \E n, rest : Moves(t, n, rest) /\ (Single => Fires(n))
<1>1. Moves(t, new, Tail(work[t]))
  BY ThenMoves
<1>2. Fires(new)
  BY DEF Fires
<1> QED BY <1>1, <1>2

\* A thread whose item is done and that has nothing new to do.
LEMMA ThenNothing ==
    ASSUME TypeOK, NEW t \in Threads, work[t] # << >>, Then(t, << >>)
    PROVE  \E n, rest : Moves(t, n, rest) /\ (Single => Fires(n))
<1>1. << >> \in Seq(Items) /\ DOMAIN << >> = {}
  OBVIOUS
<1> QED BY <1>1, ThenMute

\* A thread that has one new item to do.
LEMMA ThenOne ==
    ASSUME TypeOK, NEW t \in Threads, work[t] # << >>, NEW w \in Items, Then(t, << w >>),
           Made(t, w), ~IsCall(w)
    PROVE  \E n, rest : Moves(t, n, rest) /\ (Single => Fires(n))
<1>1. << w >> \in Seq(Items) /\ DOMAIN << w >> = {1} /\ << w >>[1] = w
  OBVIOUS
<1> QED BY <1>1, ThenMute

\* An exception leaves only the destructors of DecorateImmediate to do.
LEMMA ThrowDoes ==
    ASSUME TypeOK, NEW t \in Threads, Throw(t)
    PROVE  /\ \E n, rest : Moves(t, n, rest) /\ (Single => Fires(n))
           /\ threw' \subseteq Threads
<1>1. PICK rest : Moves(t, << >>, rest)
  BY ThrowMoves
<1>2. Fires(<< >>)
  BY DEF Fires
<1>3. threw' \subseteq Threads
  BY DEF Throw, TypeOK
<1> QED BY <1>1, <1>2, <1>3

\* The steps, one by one: what each does to counters, calls and work.  Resume.
LEMMA ResumeDoes ==
    ASSUME Typed, NEW t \in Threads, Resume(t)
    PROVE  DataOK' /\ Does(t)
<1> DEFINE w == Current(t)
<1>1. /\ TypeOK /\ w \in Items /\ w.op = "resume" /\ w \in ToSet(work[t]) /\ work[t] # << >>
  BY DoingOf DEF Typed, Resume
<1>2. Orderly(w)
  BY <1>1 DEF Typed, RestsOK, ToSet
<1>3. w.of \in Keys /\ w.rest \in Seq(Filters) /\ w.unsat \in Seq(Keys)
  BY <1>1, ItemOf
<1>4. Left(w.of) \in Nat
  BY <1>1, <1>3 DEF TypeOK, Left
<1>5. Update(t, w.of, Left(w.of), w.rest, w.unsat)
  BY DEF Resume
<1> HIDE DEF w
<1>6. /\ remaining' \in [Filters -> Nat]
      /\ \A f \in Filters : remaining'[f] <= remaining[f]
      /\ \E new : Moves(t, new, Tail(work[t])) /\ Fires(new)
  BY <1>1, <1>2, <1>3, <1>4, <1>5, UpdateDoes DEF Orderly
<1>7. UNCHANGED << setup, todo, pended, holder, recipients, unwired, state, decorations,
                   immediate, nProducersRun, born, history >>
  BY DEF Resume
<1>8. DataOK'
  BY <1>1, <1>6, <1>7, TypeParts DEF DataOK, history
<1> QED BY <1>6, <1>7, <1>8 DEF Does, history

\* UpdateSatisfactionUnsafe.
LEMMA UpdateSatisfactionDoes ==
    ASSUME Typed, NEW t \in Threads, UpdateSatisfaction(t)
    PROVE  DataOK' /\ Does(t)
<1> DEFINE k == Current(t).of
<1>1. TypeOK /\ DataOK /\ work[t] # << >> /\ k \in Keys
  BY DoingOf, ItemOf, TypeParts DEF Typed, UpdateSatisfaction
<1>2. /\ \/ Then(t, << >>) /\ UNCHANGED remaining
         \/ Update(t, k, decorations[k], Modifiers(k), << >>)
      /\ holder' = holder \ {t}
      /\ UNCHANGED << setup, todo, pended, recipients, unwired, state, decorations, immediate,
                      nProducersRun, born, history >>
  BY DEF UpdateSatisfaction
<1> HIDE DEF k
<1>3. decorations[k] \in Nat /\ << >> \in Seq(Keys)
  BY <1>1 DEF DataOK
<1>4. /\ remaining' \in [Filters -> Nat]
      /\ \A f \in Filters : remaining'[f] <= remaining[f]
      /\ \E new, rest : Moves(t, new, rest) /\ (Single => Fires(new))
  <2>1. CASE Then(t, << >>) /\ UNCHANGED remaining
    <3>1. remaining \in [Filters -> Nat]
      BY <1>1 DEF DataOK
    <3> QED BY <1>1, <2>1, <3>1, ThenNothing
  <2>2. CASE Update(t, k, decorations[k], Modifiers(k), << >>)
    <3>1. /\ remaining' \in [Filters -> Nat]
          /\ \A f \in Filters : remaining'[f] <= remaining[f]
          /\ \E new : Moves(t, new, Tail(work[t])) /\ Fires(new)
      BY <1>1, <1>3, <2>2, SubscribersOf, UpdateDoes
    <3> QED BY <3>1
  <2> QED BY <1>2, <2>1, <2>2
<1>5. DataOK'
  BY <1>1, <1>2, <1>4 DEF DataOK, history
<1> QED BY <1>2, <1>4, <1>5 DEF Does, history

\* MarkUnsatisfiable.
LEMMA MarkDoes ==
    ASSUME Typed, NEW t \in Threads, Mark(t)
    PROVE  DataOK' /\ Does(t)
<1> DEFINE k == Current(t).of
           w == Do("update", k)
<1>1. TypeOK /\ DataOK /\ work[t] # << >> /\ k \in Keys
  BY DoingOf, ItemOf, TypeParts DEF Typed, Mark
<1>2. /\ Then(t, << w >>)
      /\ state' = [state EXCEPT ![k] = "Complete"]
      /\ decorations' = [decorations EXCEPT ![k] = 0]
      /\ immediate' = [immediate EXCEPT ![k] = FALSE]
      /\ holder' = {t}
      /\ UNCHANGED << setup, todo, pended, recipients, unwired, nProducersRun, remaining, born,
                      history >>
  BY DEF Mark
<1>3. w \in Items /\ Made(t, w) /\ ~IsCall(w)
  BY <1>1, DoIn DEF Made, IsCall, Do
<1> HIDE DEF k, w
<1>4. DataOK' /\ \A f \in Filters : remaining'[f] <= remaining[f]
  BY <1>1, <1>2 DEF DataOK, history
<1> QED BY <1>1, <1>2, <1>3, <1>4, ThenOne DEF Does, history

\* DecorateNoPriors.
LEMMA DecorateDoes ==
    ASSUME Typed, NEW t \in Threads, Decorate(t)
    PROVE  DataOK' /\ Does(t)
<1> DEFINE k == Current(t).of
           w == Do("inc", k)
<1>1. TypeOK /\ DataOK /\ work[t] # << >> /\ k \in Keys
  <2>1. TypeOK /\ DataOK
    BY TypeParts DEF Typed
  <2>2. CASE Doing(t, "decorate")
    BY <2>1, <2>2, DoingOf, ItemOf
  <2>3. CASE Doing(t, "null")
    BY <2>1, <2>3, DoingOf, ItemOf
  <2> QED BY <2>1, <2>2, <2>3 DEF Decorate
<1>2. /\ \/ Throw(t) /\ UNCHANGED << holder, decorations >>
         \/ /\ decorations' = IF Doing(t, "null") THEN decorations
                              ELSE [decorations EXCEPT ![k] = @ + 1]
            /\ holder' = {t}
            /\ Then(t, << w >>)
            /\ UNCHANGED threw
      /\ UNCHANGED << setup, todo, pended, recipients, unwired, state, immediate, nProducersRun,
                      remaining, born, called, missing, taken, raced, lost, stranded >>
  BY DEF Decorate
<1>3. w \in Items /\ Made(t, w) /\ ~IsCall(w)
  BY <1>1, DoIn DEF Made, IsCall, Do
<1> HIDE DEF k, w
<1>4. \A f \in Filters : remaining'[f] <= remaining[f]
  BY <1>1, <1>2 DEF DataOK
<1>5. CASE Throw(t) /\ UNCHANGED << holder, decorations >>
  <2>1. DataOK'
    BY <1>1, <1>2, <1>5, ThrowDoes DEF DataOK
  <2> QED BY <1>1, <1>2, <1>4, <1>5, <2>1, ThrowDoes DEF Does
<1>6. CASE /\ decorations' = IF Doing(t, "null") THEN decorations
                             ELSE [decorations EXCEPT ![k] = @ + 1]
           /\ holder' = {t}
           /\ Then(t, << w >>)
           /\ UNCHANGED threw
  <2>1. decorations' \in [Keys -> Nat]
    BY <1>1, <1>6 DEF DataOK
  <2>2. DataOK'
    BY <1>1, <1>2, <1>6, <2>1 DEF DataOK
  <2> QED BY <1>1, <1>2, <1>3, <1>4, <1>6, <2>2, ThenOne DEF Does
<1> QED BY <1>2, <1>5, <1>6


\* RemoveDecoration.
LEMMA RemoveDecorationDoes ==
    ASSUME Typed, NEW t \in Threads, RemoveDecoration(t)
    PROVE  DataOK' /\ Does(t)
<1> DEFINE k == Current(t).of
<1>1. TypeOK /\ DataOK /\ work[t] # << >> /\ k \in Keys
  BY DoingOf, ItemOf, TypeParts DEF Typed, RemoveDecoration
<1>2. /\ decorations' = [decorations EXCEPT ![k] = 0]
      /\ Then(t, << >>)
      /\ UNCHANGED << setup, todo, pended, holder, recipients, unwired, state, immediate, nProducersRun,
                      remaining, born, history >>
  BY DEF RemoveDecoration
<1> HIDE DEF k
<1>3. DataOK' /\ \A f \in Filters : remaining'[f] <= remaining[f]
  BY <1>1, <1>2 DEF DataOK, history
<1> QED BY <1>1, <1>2, <1>3, ThenNothing DEF Does, history

\* The first half of the unlocked count of a producer ...
LEMMA IncDoes ==
    ASSUME Typed, NEW t \in Threads, Inc(t)
    PROVE  DataOK' /\ Does(t)
<1> DEFINE k == Current(t).of
           w == [op |-> "count", of |-> k, n |-> nProducersRun[k] + 1]
<1>1. TypeOK /\ DataOK /\ work[t] # << >> /\ k \in Keys
  BY DoingOf, ItemOf, TypeParts DEF Typed, Inc
<1>2. Then(t, << w >>) /\ UNCHANGED << setup, todo, pended, packetVars, born, history >>
  BY DEF Inc
<1>3. nProducersRun[k] + 1 \in Nat
  BY <1>1 DEF DataOK
<1>4. w \in Items
  BY <1>1, <1>3, DoIn
<1>5. Made(t, w) /\ ~IsCall(w)
  BY DEF Made, IsCall
<1>6. DataOK' /\ \A f \in Filters : remaining'[f] <= remaining[f]
  BY <1>1, <1>2 DEF DataOK, packetVars, history
<1> HIDE DEF w
<1> QED BY <1>1, <1>2, <1>4, <1>5, <1>6, ThenOne DEF Does, history

\* ... the second half ...
LEMMA CountDoes ==
    ASSUME Typed, NEW t \in Threads, Count(t)
    PROVE  DataOK' /\ Does(t)
<1> DEFINE k == Current(t).of
           n == Current(t).n
           w == [op |-> "look", of |-> k, n |-> n]
<1>1. TypeOK /\ DataOK /\ work[t] # << >> /\ k \in Keys /\ n \in Nat
  BY DoingOf, ItemOf, TypeParts DEF Typed, Count
<1>2. /\ nProducersRun' = [nProducersRun EXCEPT ![k] = n]
      /\ lost' = lost \/ lost' = lost \cup {k}
      /\ Then(t, << w >>)
      /\ UNCHANGED << setup, todo, pended, holder, recipients, unwired, state, decorations,
                      immediate, remaining, born, called, threw, missing, taken, raced, stranded >>
  BY DEF Count
<1>3. w \in Items /\ Made(t, w) /\ ~IsCall(w)
  BY <1>1, DoIn DEF Made, IsCall
<1> HIDE DEF k, n, w
<1>4. DataOK' /\ \A f \in Filters : remaining'[f] <= remaining[f]
  <2>1. lost' \subseteq Keys
    BY <1>1, <1>2 DEF DataOK
  <2>2. nProducersRun' \in [Keys -> Nat]
    BY <1>1, <1>2 DEF DataOK
  <2> QED BY <1>1, <1>2, <2>1, <2>2 DEF DataOK
<1> QED BY <1>1, <1>2, <1>3, <1>4, ThenOne DEF Does

\* ... and what follows: the state is looked at, ...
LEMMA LookDoes ==
    ASSUME Typed, NEW t \in Threads, Look(t)
    PROVE  DataOK' /\ Does(t)
<1> DEFINE k == Current(t).of
           w == [op |-> "compare", of |-> k, n |-> Current(t).n]
<1>1. TypeOK /\ DataOK /\ work[t] # << >> /\ k \in Keys /\ Current(t).n \in Nat
  BY DoingOf, ItemOf, TypeParts DEF Typed, Look
<1>2. /\ Then(t, << >>) \/ Then(t, << w >>)
      /\ holder' = holder \/ holder' = holder \ {t}
      /\ UNCHANGED << setup, todo, pended, recipients, unwired, state, decorations, immediate,
                      nProducersRun, remaining, born, history >>
  BY DEF Look
<1>3. w \in Items /\ Made(t, w) /\ ~IsCall(w)
  BY <1>1, DoIn DEF Made, IsCall
<1> HIDE DEF k, w
<1>4. DataOK' /\ \A f \in Filters : remaining'[f] <= remaining[f]
  BY <1>1, <1>2 DEF DataOK, history
<1>5. \E m, rest : Moves(t, m, rest) /\ (Single => Fires(m))
  <2>1. CASE Then(t, << >>)
    BY <1>1, <2>1, ThenNothing
  <2>2. CASE Then(t, << w >>)
    BY <1>1, <1>3, <2>2, ThenOne
  <2> QED BY <1>2, <2>1, <2>2
<1> QED BY <1>2, <1>4, <1>5 DEF Does, history

\* ... the count is compared ...
LEMMA CompareDoes ==
    ASSUME Typed, NEW t \in Threads, Compare(t)
    PROVE  DataOK' /\ Does(t)
<1> DEFINE k == Current(t).of
           s == IF Published(k, Current(t).n) THEN "Complete" ELSE "PartlySatisfied"
           w == [op |-> "settle", of |-> k, to |-> s]
<1>1. TypeOK /\ DataOK /\ work[t] # << >> /\ k \in Keys
  BY DoingOf, ItemOf, TypeParts DEF Typed, Compare
<1>2. Then(t, << w >>) /\ UNCHANGED << setup, todo, pended, packetVars, born, history >>
  BY DEF Compare
<1>3. s \in { "PartlySatisfied", "Complete" }
  OBVIOUS
<1> HIDE DEF k, s
<1>4. w \in Items /\ Made(t, w) /\ ~IsCall(w)
  BY <1>1, <1>3, DoIn DEF Made, IsCall
<1> HIDE DEF w
<1>5. DataOK' /\ \A f \in Filters : remaining'[f] <= remaining[f]
  BY <1>1, <1>2 DEF DataOK, packetVars, history
<1> QED BY <1>1, <1>2, <1>4, <1>5, ThenOne DEF Does, history

\* ... and the state is switched.
LEMMA SettleDoes ==
    ASSUME Typed, NEW t \in Threads, Settle(t)
    PROVE  DataOK' /\ Does(t)
<1> DEFINE k == Current(t).of
           w == Do("update", k)
<1>1. /\ TypeOK /\ DataOK /\ work[t] # << >> /\ k \in Keys
      /\ Current(t).to \in { "PartlySatisfied", "Complete" }
  BY DoingOf, ItemOf, TypeParts DEF Typed, Settle
<1>2. /\ state' = [state EXCEPT ![k] = Current(t).to]
      /\ lost' = lost \/ lost' = lost \cup {k}
      /\ Then(t, << >>) \/ Then(t, << w >>)
      /\ holder' = holder \/ holder' = holder \ {t}
      /\ UNCHANGED << setup, todo, pended, recipients, unwired, decorations, immediate,
                      nProducersRun, remaining, born, called, threw, missing, taken, raced,
                      stranded >>
  BY DEF Settle
<1>3. w \in Items /\ Made(t, w) /\ ~IsCall(w)
  BY <1>1, DoIn DEF Made, IsCall, Do
<1> HIDE DEF k, w
<1>4. DataOK' /\ \A f \in Filters : remaining'[f] <= remaining[f]
  <2>1. state' \in [Keys -> { "Unsatisfied", "PartlySatisfied", "Complete" }]
    BY <1>1, <1>2 DEF DataOK
  <2>2. lost' \subseteq Keys
    BY <1>1, <1>2 DEF DataOK
  <2>3. holder' \subseteq Threads
    BY <1>1, <1>2 DEF DataOK
  <2> QED BY <1>1, <1>2, <2>1, <2>2, <2>3 DEF DataOK
<1>5. \E m, rest : Moves(t, m, rest) /\ (Single => Fires(m))
  <2>1. CASE Then(t, << >>)
    BY <1>1, <2>1, ThenNothing
  <2>2. CASE Then(t, << w >>)
    BY <1>1, <1>3, <2>2, ThenOne
  <2> QED BY <1>2, <2>1, <2>2
<1> QED BY <1>2, <1>4, <1>5 DEF Does

\* A filter throws.
LEMMA FailDoes ==
    ASSUME Typed, NEW t \in Threads, Fail(t)
    PROVE  DataOK' /\ Does(t)
<1>1. TypeOK /\ DataOK
  BY TypeParts DEF Typed
<1>2. /\ Throw(t)
      /\ UNCHANGED << setup, todo, pended, packetVars, born, called, missing, taken, raced, lost,
                      stranded >>
  BY DEF Fail
<1>3. DataOK' /\ \A f \in Filters : remaining'[f] <= remaining[f]
  BY <1>1, <1>2, ThrowDoes DEF DataOK, packetVars
<1> QED BY <1>1, <1>2, <1>3, ThrowDoes DEF Does

\* The counter is cleared after a call in a pulse.
LEMMA ZeroDoes ==
    ASSUME Typed, NEW t \in Threads, Zero(t)
    PROVE  DataOK' /\ Does(t)
<1> DEFINE f == Current(t).of
<1>1. TypeOK /\ DataOK /\ work[t] # << >> /\ f \in Filters
  BY DoingOf, ItemOf, TypeParts DEF Typed, Zero
<1>2. /\ remaining' = [remaining EXCEPT ![f] = 0]
      /\ Then(t, << >>)
      /\ UNCHANGED << setup, todo, pended, holder, recipients, unwired, state, decorations, immediate,
                      nProducersRun, born, history >>
  BY DEF Zero
<1> HIDE DEF f
<1>3. DataOK' /\ \A g \in Filters : remaining'[g] <= remaining[g]
  BY <1>1, <1>2 DEF DataOK, history
<1> QED BY <1>1, <1>2, <1>3, ThenNothing DEF Does, history

\* RemoveRecipient.
LEMMA RemoveRecipientDoes ==
    ASSUME Typed, NEW t \in Threads, RemoveRecipient(t)
    PROVE  DataOK' /\ Does(t)
<1> DEFINE f == Current(t).of
<1>1. TypeOK /\ DataOK /\ work[t] # << >> /\ f \in Filters
  BY DoingOf, ItemOf, TypeParts DEF Typed, RemoveRecipient
<1>2. /\ recipients' = recipients \ {f}
      /\ Then(t, << >>)
      /\ UNCHANGED << setup, todo, pended, holder, unwired, state, decorations, immediate, nProducersRun,
                      remaining, born, history >>
  BY DEF RemoveRecipient
<1> HIDE DEF f
<1>3. DataOK' /\ \A g \in Filters : remaining'[g] <= remaining[g]
  BY <1>1, <1>2 DEF DataOK, history
<1> QED BY <1>1, <1>2, <1>3, ThenNothing DEF Does, history

\* What the outputs of a filter are committed by.
LEMMA FinishItems ==
    ASSUME Typed, NEW t \in Threads, Finish(t), NEW f, f = Current(t).of
    PROVE  \E q \in Seq(Items) :
              /\ Then(t, q)
              /\ \A w \in ToSet(q) :
                    \/ w.op \in { "decorate", "null" } /\ Kind(f, w.of) \in { "out", "outshared" }
                    \/ w.op = "remove" /\ Kind(f, w.of) = "modshared"
              /\ \A k \in Keys : Kind(f, k) \in { "out", "outshared" } =>
                    \E w \in ToSet(q) : w.op \in { "decorate", "null" } /\ w.of = k
<1> DEFINE outs == { k \in Keys : Kind(f, k) \in { "out", "outshared" } }
           mods == { k \in Keys : Kind(f, k) = "modshared" }
<1>1. PICK null \in SUBSET outs, gone \in SUBSET mods :
        \E q \in SetToSeqs({ Do("decorate", k) : k \in outs \ null }
                              \cup { Do("null", k) : k \in null }
                              \cup { Do("remove", k) : k \in gone }) : Then(t, q)
  BY DEF Finish
<1> DEFINE A == outs \ null
           S == { Do("decorate", k) : k \in A } \cup { Do("null", k) : k \in null }
                  \cup { Do("remove", k) : k \in gone }
<1>2. A \in SUBSET Keys /\ null \in SUBSET Keys /\ gone \in SUBSET Keys
  OBVIOUS
<1>3. IsFiniteSet(S)
  <2>1. IsFiniteSet(A) /\ IsFiniteSet(null) /\ IsFiniteSet(gone)
    BY <1>2, CountOf
  <2>2. /\ IsFiniteSet({ Do("decorate", k) : k \in A }) /\ IsFiniteSet({ Do("null", k) : k \in null })
        /\ IsFiniteSet({ Do("remove", k) : k \in gone })
    <3>1. ASSUME NEW o, NEW D, IsFiniteSet(D) PROVE IsFiniteSet({ Do(o, k) : k \in D })
      <4> DEFINE F == [k \in D |-> Do(o, k)]
      <4>1. F \in Surjection(D, { Do(o, k) : k \in D })
        BY DEF Surjection
      <4> QED BY <3>1, <4>1, FS_Surjection
    <3> HIDE DEF A
    <3> QED BY <2>1, <3>1
  <2> QED BY <2>2, FS_Union
<1>4. \A w \in S :
        /\ w \in Items
        /\ \/ w.op \in { "decorate", "null" } /\ Kind(f, w.of) \in { "out", "outshared" }
           \/ w.op = "remove" /\ Kind(f, w.of) = "modshared"
  <2>1. ASSUME NEW k \in Keys, NEW o \in { "decorate", "null", "remove" }
        PROVE  Do(o, k) \in Items /\ Do(o, k).op = o /\ Do(o, k).of = k
    BY DoIn DEF Do
  <2> QED BY <2>1
<1>5. ASSUME NEW k \in outs PROVE \E w \in S : w.op \in { "decorate", "null" } /\ w.of = k
  <2>1. \A o : Do(o, k).op = o /\ Do(o, k).of = k
    BY DEF Do
  <2>2. Do("decorate", k) \in S \/ Do("null", k) \in S
    OBVIOUS
  <2> HIDE DEF S
  <2> QED BY <2>1, <2>2
<1>6. PICK q \in SetToSeqs(S) : Then(t, q)
  BY <1>1
<1> HIDE DEF S
<1>7. q \in Seq(S) /\ ToSet(q) = S
  BY <1>3, SetToSeqOf
<1>8. q \in Seq(Items)
  <2>1. S \subseteq Items
    BY <1>4
  <2> QED BY <1>7, <2>1, SeqMonotonic
<1> QED BY <1>4, <1>5, <1>6, <1>7, <1>8

\* ... decorates, or removes.
LEMMA FinishNew ==
    ASSUME Typed, NEW t \in Threads, Finish(t)
    PROVE  \E q \in Seq(Items) :
              Then(t, q) /\ \A w \in ToSet(q) : w.op \in { "decorate", "null", "remove" }
<1>1. PICK f : f = Current(t).of
  OBVIOUS
<1>2. PICK q \in Seq(Items) :
         /\ Then(t, q)
         /\ \A w \in ToSet(q) :
               \/ w.op \in { "decorate", "null" } /\ Kind(f, w.of) \in { "out", "outshared" }
               \/ w.op = "remove" /\ Kind(f, w.of) = "modshared"
  BY <1>1, FinishItems
<1> QED BY <1>2

\* A filter returns and its outputs are committed.
LEMMA FinishDoes ==
    ASSUME Typed, NEW t \in Threads, Finish(t)
    PROVE  DataOK' /\ Does(t)
<1>1. TypeOK /\ DataOK /\ work[t] # << >>
  BY DoingOf, TypeParts DEF Typed, Finish
<1>2. PICK q \in Seq(Items) :
         Then(t, q) /\ \A w \in ToSet(q) : w.op \in { "decorate", "null", "remove" }
  BY FinishNew
<1>3. \A i \in DOMAIN q : Made(t, q[i]) /\ ~IsCall(q[i])
  BY <1>2 DEF ToSet, Made, IsCall
<1>4. UNCHANGED << setup, todo, pended, packetVars, born, history >>
  BY DEF Finish
<1>5. DataOK' /\ \A f \in Filters : remaining'[f] <= remaining[f]
  BY <1>1, <1>4 DEF DataOK, packetVars, history
<1> QED BY <1>1, <1>2, <1>3, <1>4, <1>5, ThenMute DEF Does, history

\* The destructor marks each of the types once.
LEMMA AtExitNew ==
    ASSUME Typed, NEW t \in Threads, AtExit(t)
    PROVE  \E q \in Seq(Items) :
              /\ Then(t, q) /\ IsInjective(q)
              /\ ToSet(q) = { Do("mark", k) : k \in ToSet(Current(t).of) }
<1> DEFINE ks == Current(t).of
           S == { Do("mark", k) : k \in ToSet(ks) }
<1>1. ks \in Seq(Keys)
  BY DoingOf, ItemOf DEF Typed, AtExit
<1>2. PICK q \in SetToSeqs(S) : Then(t, q)
  BY DEF AtExit
<1> HIDE DEF ks
<1>3. ToSet(ks) \in SUBSET Keys
  BY <1>1 DEF ToSet
<1>4. IsFiniteSet(S)
  <2>1. IsFiniteSet(ToSet(ks))
    BY <1>3, CountOf
  <2> DEFINE F == [k \in ToSet(ks) |-> Do("mark", k)]
  <2>2. F \in Surjection(ToSet(ks), S)
    BY DEF Surjection
  <2> QED BY <2>1, <2>2, FS_Surjection
<1>5. S \subseteq Items
  BY <1>3, DoIn
<1> HIDE DEF S
<1>6. q \in Seq(S) /\ ToSet(q) = S
  BY <1>4, SetToSeqOf
<1>7. q \in Seq(Items)
  BY <1>5, <1>6, SeqMonotonic
<1>8. IsInjective(q)
  BY <1>2 DEF SetToSeqs, IsInjective
<1> QED BY <1>2, <1>6, <1>7, <1>8 DEF S, ks

\* The destructor at the end of DecorateImmediate.
LEMMA AtExitDoes ==
    ASSUME Typed, NEW t \in Threads, AtExit(t)
    PROVE  DataOK' /\ Does(t)
<1> DEFINE ks == Current(t).of
<1>1. TypeOK /\ DataOK /\ work[t] # << >> /\ ks \in Seq(Keys)
  BY DoingOf, ItemOf, TypeParts DEF Typed, AtExit
<1>2. /\ immediate' = Invalidated(ks)
      /\ state' = [k \in Keys |-> IF k \in ToSet(ks) THEN "Complete" ELSE state[k]]
      /\ UNCHANGED << setup, todo, pended, holder, recipients, unwired, decorations, nProducersRun, remaining,
                      born, history >>
  BY DEF AtExit
<1>3. PICK new \in Seq(Items) :
         Then(t, new) /\ ToSet(new) = { Do("mark", k) : k \in ToSet(ks) }
  BY AtExitNew
<1> HIDE DEF ks
<1>4. \A i \in DOMAIN new : Made(t, new[i]) /\ ~IsCall(new[i])
  <2>1. \A i \in DOMAIN new : new[i] \in ToSet(new)
    BY DEF ToSet
  <2> QED BY <1>3, <2>1 DEF Made, IsCall, Do
<1>5. immediate' \in [Keys -> BOOLEAN]
  BY <1>1, <1>2, Zenon DEF Invalidated, DataOK
<1>6. DataOK' /\ \A f \in Filters : remaining'[f] <= remaining[f]
  BY <1>1, <1>2, <1>5 DEF DataOK, history
<1> QED BY <1>1, <1>2, <1>3, <1>4, <1>6, ThenMute DEF Does, history

\* Who is satisfied by a pulse is called once.
LEMMA PulsedOf ==
    ASSUME NEW ks \in Seq(Keys)
    PROVE  /\ Pulsed(ks) \in Seq(Filters) /\ IsInjective(Pulsed(ks))
           /\ \A f \in ToSet(Pulsed(ks)) :
                 f \in recipients \ setup.deferred /\ remaining[f] \in 1 .. Hits(f, ks)
<1> DEFINE sat == { f \in recipients \ setup.deferred : remaining[f] \in 1 .. Hits(f, ks) }
           part(i) == Among(Order, { f \in sat : SatisfiedAt(f, ks) = Len(ks) + 1 - i })
           ss == [i \in 1 .. Len(ks) |-> part(i)]
<1>1. Pulsed(ks) = FlattenSeq(ss)
  BY DEF Pulsed
<1>2. \A i : /\ part(i) \in Seq(Filters) /\ IsInjective(part(i))
             /\ ToSet(part(i)) = Filters \cap { f \in sat : SatisfiedAt(f, ks) = Len(ks) + 1 - i }
  BY AmongOrder
<1>3. Len(ks) \in Nat
  BY LenProperties
<1> HIDE DEF sat, part
<1>4. ss \in Seq(Seq(Filters)) /\ Len(ss) = Len(ks)
  <2>1. ss \in [1 .. Len(ks) -> Seq(Filters)]
    BY <1>2
  <2> HIDE DEF ss
  <2> QED BY <1>3, <2>1
<1>5. \A i \in 1 .. Len(ks) : ss[i] = part(i)
  OBVIOUS
<1> HIDE DEF ss
<1>6. \A i \in 1 .. Len(ss) : IsInjective(ss[i]) /\ ToSet(ss[i]) \subseteq sat
  BY <1>2, <1>4, <1>5
<1>7. ASSUME NEW i \in 1 .. Len(ss), NEW j \in 1 .. Len(ss), i # j
      PROVE  ToSet(ss[i]) \cap ToSet(ss[j]) = {}
  <2>1. Len(ks) + 1 - i # Len(ks) + 1 - j
    BY <1>3, <1>4, <1>7
  <2> QED BY <1>2, <1>4, <1>5, <2>1
<1>8. IsInjective(FlattenSeq(ss)) /\ FlattenSeq(ss) \in Seq(Filters)
  BY <1>4, <1>6, <1>7, FlattenOf
<1>9. \A f \in ToSet(FlattenSeq(ss)) : f \in sat
  BY <1>4, <1>6, FlattenOf
<1> QED BY <1>1, <1>8, <1>9 DEF sat

\* Calls, what follows each, and another pass.
ArePulses(new, ks) ==
    \A i \in DOMAIN new :
        \/ new[i].op = "call"
        \/ new[i].op = "zero" /\ new[i].of \in recipients
        \/ new[i].op = "pulse" /\ new[i].of = ks

\* A pass of the pulse.
LEMMA PulseDoes ==
    ASSUME DataOK, NEW ks \in Seq(Keys), Pulse(ks)
    PROVE  /\ remaining' \in [Filters -> Nat]
           /\ \A f \in Filters : remaining'[f] <= remaining[f]
           /\ PulseItems(ks) \in Seq(Items)
           /\ ArePulses(PulseItems(ks), ks)
           /\ (\A f \in Filters : Hits(f, ks) <= 1) => Fires(PulseItems(ks))
<1> DEFINE q == Pulsed(ks)
           calls == [i \in 1 .. 2 * Len(q) |->
                        Do(IF i % 2 = 1 THEN "call" ELSE "zero", q[(i + 1) \div 2])]
           again == IF q = << >> THEN << >> ELSE << Do("pulse", ks) >>
<1>1. remaining \in [Filters -> Nat]
  BY DEF DataOK
<1>2. /\ q \in Seq(Filters) /\ IsInjective(q)
      /\ \A f \in ToSet(q) : f \in recipients /\ remaining[f] \in 1 .. Hits(f, ks)
  BY PulsedOf
<1>3. \A f \in Filters : Hits(f, ks) \in Nat
  <2>1. \A f : { k \in ToSet(ks) : Kind(f, k) \in { "in", "multi" } } \in SUBSET Keys
    BY DEF ToSet
  <2> QED BY <2>1, CountOf DEF Hits
<1>4. /\ Len(q) \in Nat /\ DOMAIN q = 1 .. Len(q)
      /\ \A i \in 1 .. Len(q) : q[i] \in Filters /\ q[i] \in ToSet(q)
      /\ \A f \in ToSet(q) : f \in Filters
  BY <1>2, LenProperties DEF ToSet
<1>5. remaining' = [f \in Filters |-> IF f \in ToSet(q) THEN remaining[f] - 1 ELSE remaining[f]]
  BY DEF Pulse
<1>6. PulseItems(ks) = calls \o again
  BY DEF PulseItems
<1> HIDE DEF q
<1>7. \A f \in ToSet(q) : remaining[f] >= 1 /\ remaining[f] \in Nat
  BY <1>1, <1>2, <1>3, <1>4
<1>8. /\ remaining' \in [Filters -> Nat]
      /\ \A f \in Filters : remaining'[f] <= remaining[f]
  BY <1>1, <1>5, <1>7
<1>9. \A i \in 1 .. 2 * Len(q) : (i + 1) \div 2 \in 1 .. Len(q)
  BY <1>4
<1>10. \A i \in 1 .. 2 * Len(q) : calls[i] \in Items
  BY <1>4, <1>9, DoIn
<1>11. calls \in Seq(Items) /\ DOMAIN calls = 1 .. 2 * Len(q)
  <2>1. calls \in [1 .. 2 * Len(q) -> Items] /\ 2 * Len(q) \in Nat
    BY <1>4, <1>10
  <2> HIDE DEF calls
  <2>2. calls \in Seq(Items)
    BY <2>1
  <2>3. DOMAIN calls = 1 .. 2 * Len(q)
    BY <2>1
  <2> QED BY <2>2, <2>3
<1>12. \A i \in DOMAIN calls :
         /\ calls[i].op = IF i % 2 = 1 THEN "call" ELSE "zero"
         /\ calls[i].of = q[(i + 1) \div 2]
  BY DEF Do
<1>13. again \in Seq(Items) /\ \A i \in DOMAIN again : again[i].op = "pulse" /\ again[i].of = ks
  <2>1. Do("pulse", ks) \in Items /\ Do("pulse", ks).op = "pulse" /\ Do("pulse", ks).of = ks
    BY DoIn DEF Do
  <2>2. CASE q = << >>
    BY <2>2
  <2>3. CASE q # << >>
    BY <2>1, <2>3
  <2> QED BY <2>2, <2>3
<1> HIDE DEF calls, again
<1> DEFINE new == PulseItems(ks)
<1>14. /\ new \in Seq(Items)
       /\ \A i \in DOMAIN new :
            \/ i \in DOMAIN calls /\ new[i] = calls[i]
            \/ i - Len(calls) \in DOMAIN again /\ new[i] = again[i - Len(calls)]
  BY <1>6, <1>11, <1>13, ConcatOf
<1> HIDE DEF new
<1>15. ArePulses(new, ks)
  <2>1. \A i \in DOMAIN calls : calls[i].of \in recipients
    BY <1>2, <1>4, <1>9, <1>11, <1>12
  <2> QED BY <1>12, <1>13, <1>14, <2>1 DEF ArePulses
<1>16. ASSUME \A f \in Filters : Hits(f, ks) <= 1 PROVE Fires(new)
  <2>1. \A f \in ToSet(q) : remaining[f] > 0 /\ remaining'[f] = 0
    BY <1>1, <1>2, <1>3, <1>4, <1>5, <1>16
  <2>2. \A i \in DOMAIN new : IsCall(new[i]) =>
           /\ i \in 1 .. 2 * Len(q) /\ i % 2 = 1 /\ new[i].of = q[(i + 1) \div 2]
    BY <1>11, <1>12, <1>13, <1>14 DEF IsCall
  <2>3. \A i, j \in 1 .. 2 * Len(q) :
           i % 2 = 1 /\ j % 2 = 1 /\ (i + 1) \div 2 = (j + 1) \div 2 => i = j
    BY <1>4
  <2>4. ASSUME NEW i \in DOMAIN new, IsCall(new[i])
        PROVE  /\ remaining[new[i].of] > 0 /\ remaining'[new[i].of] = 0
               /\ \A j \in DOMAIN new : IsCall(new[j]) /\ new[j].of = new[i].of => i = j
    <3>1. new[i].of \in ToSet(q)
      BY <1>4, <1>9, <2>2, <2>4
    <3>2. ASSUME NEW j \in DOMAIN new, IsCall(new[j]), new[j].of = new[i].of PROVE i = j
      <4>1. q[(i + 1) \div 2] = q[(j + 1) \div 2]
        BY <2>2, <2>4, <3>2
      <4>2. (i + 1) \div 2 \in DOMAIN q /\ (j + 1) \div 2 \in DOMAIN q
        BY <1>4, <1>9, <2>2, <2>4, <3>2
      <4>3. (i + 1) \div 2 = (j + 1) \div 2
        BY <1>2, <4>1, <4>2 DEF IsInjective
      <4> QED BY <2>2, <2>3, <2>4, <3>2, <4>3
    <3> QED BY <2>1, <3>1, <3>2
  <2> QED BY <2>4 DEF Fires
<1> QED BY <1>8, <1>14, <1>15, <1>16 DEF new

\* Another pass of a pulse.
LEMMA PassDoes ==
    ASSUME Typed, NEW t \in Threads, Pass(t)
    PROVE  DataOK' /\ Does(t)
<1> DEFINE ks == Current(t).of
           new == PulseItems(ks)
<1>1. /\ TypeOK /\ DataOK /\ work[t] # << >> /\ ks \in Seq(Keys)
      /\ Current(t) \in ToSet(work[t]) /\ Current(t).op = "pulse"
  BY DoingOf, ItemOf, TypeParts DEF Typed, Pass
<1>2. /\ Pulse(ks) /\ Then(t, new)
      /\ UNCHANGED << setup, todo, pended, holder, recipients, unwired, state, decorations, immediate,
                      nProducersRun, born, history >>
  BY DEF Pass
<1>3. /\ remaining' \in [Filters -> Nat]
      /\ \A f \in Filters : remaining'[f] <= remaining[f]
      /\ new \in Seq(Items)
      /\ ArePulses(new, ks)
      /\ (\A f \in Filters : Hits(f, ks) <= 1) => Fires(new)
  BY <1>1, <1>2, PulseDoes
<1> HIDE DEF new
<1>4. \A i \in DOMAIN new : Made(t, new[i])
  BY <1>1, <1>3 DEF Made, ArePulses
<1>5. Moves(t, new, Tail(work[t])) /\ (Single => Fires(new))
  BY <1>1, <1>2, <1>3, <1>4, ThenMoves, HitsOf DEF Single
<1>6. DataOK'
  BY <1>1, <1>2, <1>3 DEF DataOK, history
<1> QED BY <1>2, <1>3, <1>5, <1>6 DEF Does, history

\* DecorateImmediate, up to its first pass.
LEMMA ImmediateDoes ==
    ASSUME Typed, NEW t \in Threads, Immediate(t)
    PROVE  /\ DataOK' /\ Does(t)
           /\ \A k \in Keys : immediate'[k] => \/ immediate[k] \/ k \in stranded'
                  \/ \E w \in ToSet(work'[t]) : w.op = "atexit" /\ k \in ToSet(w.of)
           /\ stranded \subseteq stranded'
<1> DEFINE ks  == Current(t).of
           set == SetBefore(ks)
           x == << Do("atexit", ks) >>
           new == PulseItems(ks) \o x
<1>1. /\ TypeOK /\ DataOK /\ work[t] # << >> /\ ks \in Seq(Keys)
      /\ Current(t) \in ToSet(work[t]) /\ Current(t).op = "immediate"
  BY DoingOf, ItemOf, TypeParts DEF Typed, Immediate
<1>2. /\ state' = [k \in Keys |-> IF k \in set THEN "Complete" ELSE state[k]]
      /\ immediate' = [k \in Keys |-> k \in set \/ immediate[k]]
      /\ \/ set = ToSet(ks) /\ Pulse(ks) /\ Then(t, new) /\ UNCHANGED threw
         \/ set # ToSet(ks) /\ Throw(t) /\ UNCHANGED remaining
      /\ stranded' = IF set = ToSet(ks) THEN stranded ELSE stranded \cup set
      /\ UNCHANGED << setup, todo, pended, holder, recipients, unwired, decorations, nProducersRun,
                      born, called, missing, taken, raced, lost >>
  BY DEF Immediate
<1>3. set \subseteq Keys
  <2>1. \A i \in DOMAIN ks : ks[i] \in Keys
    BY <1>1
  <2> QED BY <2>1 DEF SetBefore
<1> HIDE DEF ks, set
<1>4. immediate' \in [Keys -> BOOLEAN]
  BY <1>1, <1>2, Zenon DEF DataOK
<1>5. stranded' \subseteq Keys /\ stranded \subseteq stranded'
  BY <1>1, <1>2, <1>3 DEF DataOK
<1>6. state' \in [Keys -> { "Unsatisfied", "PartlySatisfied", "Complete" }]
  BY <1>1, <1>2 DEF DataOK
<1>7. CASE set = ToSet(ks) /\ Pulse(ks) /\ Then(t, new) /\ UNCHANGED threw
  <2> DEFINE p == PulseItems(ks)
  <2>1. /\ remaining' \in [Filters -> Nat]
        /\ \A f \in Filters : remaining'[f] <= remaining[f]
        /\ p \in Seq(Items)
        /\ ArePulses(p, ks)
        /\ (\A f \in Filters : Hits(f, ks) <= 1) => Fires(p)
    BY <1>1, <1>7, PulseDoes
  <2>2. /\ x \in Seq(Items) /\ DOMAIN x = {1} /\ x[1] = Do("atexit", ks)
        /\ Do("atexit", ks).op = "atexit" /\ Do("atexit", ks).of = ks
    <3>1. Do("atexit", ks) \in Items
      BY <1>1, DoIn
    <3>2. x \in Seq(Items) /\ DOMAIN x = {1} /\ x[1] = Do("atexit", ks)
      BY <3>1
    <3> QED BY <3>2 DEF Do
  <2> HIDE DEF p, x
  <2>3. new = p \o x
    BY DEF p
  <2> HIDE DEF new
  <2>4. /\ new \in Seq(Items) /\ ToSet(new) = ToSet(p) \cup ToSet(x)
        /\ \A i \in DOMAIN new :
              \/ i \in DOMAIN p /\ new[i] = p[i]
              \/ i - Len(p) \in DOMAIN x /\ new[i] = x[i - Len(p)]
    BY <2>1, <2>2, <2>3, ConcatOf
  <2>5. \A i \in DOMAIN new : (i \in DOMAIN p /\ new[i] = p[i]) \/ new[i] = Do("atexit", ks)
    BY <2>2, <2>4
  <2>6. \A i \in DOMAIN new : Made(t, new[i])
    <3>1. Made(t, Do("atexit", ks))
      BY <2>2 DEF Made
    <3>2. \A i \in DOMAIN p : Made(t, p[i])
      BY <1>1, <2>1 DEF Made, ArePulses, ks
    <3> QED BY <2>5, <3>1, <3>2
  <2>7. Single => Fires(new)
    <3> SUFFICES ASSUME Single PROVE Fires(new)
      OBVIOUS
    <3>1. Fires(p)
      BY <1>1, <2>1, HitsOf DEF Single, ks
    <3>2. \A i \in DOMAIN new : IsCall(new[i]) => i \in DOMAIN p /\ new[i] = p[i]
      BY <2>2, <2>5 DEF IsCall
    <3> QED BY <3>1, <3>2 DEF Fires
  <2>8. Moves(t, new, Tail(work[t]))
    BY <1>1, <1>7, <2>4, <2>6, ThenMoves
  <2>9. DataOK'
    BY <1>1, <1>2, <1>4, <1>5, <1>6, <1>7, <2>1 DEF DataOK
  <2>10. Does(t)
    BY <1>2, <2>1, <2>7, <2>8 DEF Does
  <2>11. Do("atexit", ks) \in ToSet(work'[t])
    <3> DEFINE r == Tail(work[t])
    <3>1. work'[t] = new \o r /\ r \in Seq(Items)
      BY <1>1, <2>8 DEF Moves, TypeOK
    <3> HIDE DEF r
    <3>2. Do("atexit", ks) \in ToSet(new)
      BY <2>2, <2>4 DEF ToSet
    <3>3. ToSet(new \o r) = ToSet(new) \cup ToSet(r)
      BY <2>4, <3>1, ConcatOf
    <3> QED BY <3>1, <3>2, <3>3
  <2>12. \A k \in Keys : immediate'[k] => immediate[k] \/ k \in ToSet(ks)
    BY <1>2, <1>7
  <2> QED BY <1>5, <2>2, <2>9, <2>10, <2>11, <2>12
<1>8. CASE set # ToSet(ks) /\ Throw(t) /\ UNCHANGED remaining
  <2>1. /\ \E n, rest : Moves(t, n, rest) /\ (Single => Fires(n))
        /\ threw' \subseteq Threads
    BY <1>1, <1>8, ThrowDoes
  <2>2. DataOK'
    BY <1>1, <1>2, <1>4, <1>5, <1>6, <1>8, <2>1 DEF DataOK
  <2>3. \A f \in Filters : remaining'[f] <= remaining[f]
    BY <1>1, <1>8 DEF DataOK
  <2>4. Does(t)
    BY <1>2, <2>1, <2>3 DEF Does
  <2>5. \A k \in Keys : immediate'[k] => immediate[k] \/ k \in stranded'
    BY <1>2, <1>8
  <2> QED BY <1>5, <2>2, <2>4, <2>5
<1> QED BY <1>2, <1>7, <1>8

-----------------------------------------------------------------------------
(* The steps around the call of a filter, and the clients *)

\* The deferred filter is in the queue.
LEMMA PendDoes ==
    ASSUME Typed, NEW t \in Threads, Pend(t)
    PROVE  /\ DataOK' /\ Moves(t, << >>, Tail(work[t]))
           /\ work[t] # << >> /\ IsCall(Current(t)) /\ Current(t).of \in setup.deferred
           /\ pended' = Append(pended, Current(t).of)
           /\ UNCHANGED << setup, todo, packetVars, born, history >>
<1> DEFINE f == Current(t).of
<1>1. /\ TypeOK /\ DataOK /\ work[t] # << >> /\ Current(t).op = "call"
  BY DoingOf, TypeParts DEF Typed, Pend
<1>2. /\ f \in setup.deferred /\ pended' = Append(pended, f) /\ Then(t, << >>)
      /\ UNCHANGED << setup, todo, packetVars, born, history >>
  BY DEF Pend
<1> HIDE DEF f
<1>3. Moves(t, << >>, Tail(work[t]))
  <2>1. << >> \in Seq(Items) /\ DOMAIN << >> = {}
    OBVIOUS
  <2> QED BY <1>1, <1>2, <2>1, ThenMoves
<1>4. pended' \in Seq(setup.deferred)
  BY <1>1, <1>2 DEF DataOK
<1>5. DataOK'
  BY <1>1, <1>2, <1>4 DEF DataOK, packetVars, history
<1> QED BY <1>1, <1>2, <1>3, <1>5 DEF IsCall, f

\* The filter is called, or cannot be.
LEMMA CallDoes ==
    ASSUME Typed, NEW t \in Threads, Call(t)
    PROVE  /\ DataOK' /\ work[t] # << >> /\ IsCall(Current(t)) /\ Current(t).of \in Filters
           /\ \E new, rest : Moves(t, new, rest) /\ Mute(new)
           /\ \/ called' = called
              \/ called' = [called EXCEPT ![Current(t).of] = IF @ = 0 THEN 1 ELSE 2]
           /\ UNCHANGED << setup, todo, pended, holder, recipients, unwired, state, immediate, nProducersRun,
                           remaining, born, taken, raced, lost, stranded >>
<1> DEFINE f == Current(t).of
<1>1. /\ TypeOK /\ DataOK /\ work[t] # << >> /\ IsCall(Current(t)) /\ f \in Filters
  <2>1. TypeOK /\ DataOK
    BY TypeParts DEF Typed
  <2>2. CASE Doing(t, "enter")
    BY <2>1, <2>2, DoingOf, ItemOf DEF IsCall
  <2>3. CASE Doing(t, "call")
    BY <2>1, <2>3, DoingOf, ItemOf DEF IsCall
  <2> QED BY <2>1, <2>2, <2>3 DEF Call
<1>2. /\ \/ /\ called' = [called EXCEPT ![f] = IF @ = 0 THEN 1 ELSE 2]
            /\ decorations' = [k \in Keys |->
                   IF Kind(f, k) = "modshared" /\ decorations[k] = 0 THEN 1 ELSE decorations[k]]
            /\ Then(t, << Do("run", f) >>)
            /\ UNCHANGED << threw, missing >>
         \/ /\ missing' = missing \cup {f}
            /\ Throw(t)
            /\ UNCHANGED << decorations, called >>
      /\ UNCHANGED << setup, todo, pended, holder, recipients, unwired, state, immediate, nProducersRun,
                      remaining, born, taken, raced, lost, stranded >>
  BY DEF Call
<1> HIDE DEF f
<1>3. CASE /\ called' = [called EXCEPT ![f] = IF @ = 0 THEN 1 ELSE 2]
           /\ decorations' = [k \in Keys |->
                  IF Kind(f, k) = "modshared" /\ decorations[k] = 0 THEN 1 ELSE decorations[k]]
           /\ Then(t, << Do("run", f) >>)
           /\ UNCHANGED << threw, missing >>
  <2>1. decorations' \in [Keys -> Nat]
    BY <1>1, <1>3 DEF DataOK
  <2>2. called' \in [Filters -> 0 .. 2]
    BY <1>1, <1>3 DEF DataOK
  <2>3. DataOK'
    BY <1>1, <1>2, <1>3, <2>1, <2>2 DEF DataOK
  <2> DEFINE w == Do("run", f)
  <2>4. w \in Items /\ Made(t, w) /\ ~IsCall(w)
    BY <1>1, DoIn DEF Made, IsCall, Do
  <2> HIDE DEF w
  <2>5. << w >> \in Seq(Items) /\ DOMAIN << w >> = {1} /\ << w >>[1] = w
    BY <2>4
  <2>6. Then(t, << w >>)
    BY <1>3 DEF w
  <2>7. Moves(t, << w >>, Tail(work[t])) /\ Mute(<< w >>)
    BY <1>1, <2>4, <2>5, <2>6, ThenMoves DEF Mute
  <2> QED BY <1>1, <1>2, <1>3, <2>3, <2>7 DEF f
<1>4. CASE /\ missing' = missing \cup {f}
           /\ Throw(t)
           /\ UNCHANGED << decorations, called >>
  <2>1. threw' \subseteq Threads
    BY <1>1, <1>4, ThrowDoes
  <2>2. DataOK'
    BY <1>1, <1>2, <1>4, <2>1 DEF DataOK
  <2>3. PICK rest : Moves(t, << >>, rest)
    BY <1>1, <1>4, ThrowMoves
  <2>4. Mute(<< >>)
    BY DEF Mute
  <2> QED BY <1>1, <1>2, <1>4, <2>2, <2>3, <2>4 DEF f
<1> QED BY <1>2, <1>3, <1>4

\* A thread that had nothing to do has something.
LEMMA FreshMoves ==
    ASSUME TypeOK, NEW t \in Threads, work[t] = << >>, NEW new \in Seq(Items),
           work' = [work EXCEPT ![t] = new], \A i \in DOMAIN new : Made(t, new[i])
    PROVE  Moves(t, new, << >>)
<1>1. new \o << >> = new /\ << >> \in Seq(Items) /\ DOMAIN << >> = {}
  OBVIOUS
<1>2. ToSet(work[t]) = {}
  BY DEF ToSet
<1> QED BY <1>1, <1>2 DEF Moves

\* The dispatch queue enters a filter.
LEMMA RunPendedDoes ==
    ASSUME Typed, NEW t \in Threads, RunPended(t)
    PROVE  /\ DataOK' /\ pended # << >> /\ work[t] = << >>
           /\ pended' = Tail(pended)
           /\ Moves(t, << Do("enter", Head(pended)) >>, << >>)
           /\ UNCHANGED << setup, todo, packetVars, born, history >>
<1> DEFINE f == Head(pended)
           w == Do("enter", f)
<1>1. TypeOK /\ DataOK /\ setup.deferred \subseteq Filters
  BY TypeParts, SetupOf DEF Typed, DataOK
<1>2. /\ work[t] = << >> /\ pended # << >> /\ pended' = Tail(pended)
      /\ work' = [work EXCEPT ![t] = << w >>]
      /\ UNCHANGED << setup, todo, packetVars, born, history >>
  BY DEF RunPended
<1>3. f \in setup.deferred /\ pended' \in Seq(setup.deferred)
  BY <1>1, <1>2, HeadTailProperties DEF DataOK
<1>4. w \in Items /\ Made(t, w)
  BY <1>1, <1>3, DoIn DEF Made, Do
<1> HIDE DEF w
<1>5. << w >> \in Seq(Items) /\ DOMAIN << w >> = {1} /\ << w >>[1] = w
  BY <1>4
<1>6. Moves(t, << w >>, << >>)
  BY <1>1, <1>2, <1>4, <1>5, FreshMoves
<1>7. DataOK'
  BY <1>1, <1>2, <1>3 DEF DataOK, packetVars, history
<1> QED BY <1>2, <1>6, <1>7 DEF w

\* A filter is wired to the packet, or refused.
LEMMA AddRecipientDoes ==
    ASSUME Typed, NEW t \in Threads, AddRecipient(t)
    PROVE  LET f == Current(t).of IN
           /\ DataOK' /\ work[t] # << >> /\ Current(t) \in ToSet(work[t])
           /\ Current(t) = Do("add", f) /\ f \in Filters
           /\ recipients' = recipients \cup {f}
           /\ \/ /\ f \in recipients /\ UNCHANGED << unwired, remaining, threw >>
                 /\ \E rest : Moves(t, << >>, rest)
              \/ /\ f \notin recipients
                 /\ \E rem \in Nat :
                       /\ remaining' = [remaining EXCEPT ![f] = rem]
                       /\ \/ /\ threw' = threw \cup {t}
                             /\ \E rest : Moves(t, << >>, rest)
                          \/ /\ unwired' = [unwired EXCEPT ![f] = {}] /\ threw' = threw
                             /\ \E rest : Moves(t, << [op |-> "check", of |-> f, n |-> rem] >>, rest)
           /\ UNCHANGED << setup, todo, pended, holder, state, decorations, immediate,
                           nProducersRun, born, called, missing, taken, raced, lost, stranded >>
<1> DEFINE f    == Current(t).of
           have == { k \in Keys : /\ Kind(f, k) \in Inputs
                                  /\ state[k] = "Complete"
                                  /\ decorations[k] > 0 \/ Kind(f, k) = "shared" }
           rem(W)  == Required(f) - Cardinality(have \cap W)
           item(n) == [op |-> "check", of |-> f, n |-> n]
<1>1. /\ TypeOK /\ DataOK /\ work[t] # << >> /\ Current(t) \in ToSet(work[t])
      /\ Current(t) \in Items /\ Current(t).op = "add" /\ f \in Filters
  BY DoingOf, ItemOf, TypeParts DEF Typed, AddRecipient
<1>2. Current(t) = Do("add", f)
  BY <1>1 DEF Items, Do
<1>3. /\ \/ f \in recipients /\ Then(t, << >>) /\ UNCHANGED << recipients, unwired, remaining, threw >>
         \/ /\ f \notin recipients
            /\ recipients' = recipients \cup {f}
            /\ \E W \in Reached(f) :
                  /\ unwired' = [unwired EXCEPT ![f] = Keys \ W]
                  /\ remaining' = [remaining EXCEPT ![f] = rem(W)]
                  /\ \/ W = Keys /\ Then(t, << item(rem(W)) >>) /\ UNCHANGED threw
                     \/ Throw(t)
      /\ UNCHANGED << setup, todo, pended, holder, state, decorations, immediate,
                      nProducersRun, born, called, missing, taken, raced, lost, stranded >>
  BY DEF AddRecipient
<1>4. \A W : rem(W) \in Nat
  <2> SUFFICES ASSUME NEW W PROVE rem(W) \in Nat
    OBVIOUS
  <2> DEFINE all == { k \in Keys : Kind(f, k) \in Inputs }
             part == have \cap W
  <2>1. all \in SUBSET Keys /\ part \in SUBSET Keys /\ part \subseteq all
    OBVIOUS
  <2>2. Required(f) = Cardinality(all) /\ rem(W) = Required(f) - Cardinality(part)
    BY DEF Required
  <2> HIDE DEF all, part, rem
  <2>3. IsFiniteSet(all) /\ Cardinality(all) \in Nat /\ Cardinality(part) \in Nat
    BY <2>1, CountOf
  <2>4. Cardinality(part) <= Cardinality(all)
    BY <2>1, <2>3, FS_Subset
  <2> QED BY <2>2, <2>3, <2>4
<1>5. \A n \in Nat : item(n) \in Items /\ Made(t, item(n))
  BY <1>1, DoIn DEF Made, Doing
<1> HIDE DEF rem, item
<1>6. recipients' = recipients \cup {f} /\ recipients' \subseteq Filters
  BY <1>1, <1>3 DEF DataOK
<1>7. CASE f \in recipients /\ Then(t, << >>) /\ UNCHANGED << recipients, unwired, remaining, threw >>
  <2>1. << >> \in Seq(Items) /\ DOMAIN << >> = {}
    OBVIOUS
  <2>2. Moves(t, << >>, Tail(work[t]))
    BY <1>1, <1>7, <2>1, ThenMoves
  <2>3. DataOK'
    BY <1>1, <1>3, <1>7 DEF DataOK
  <2> QED BY <1>1, <1>2, <1>3, <1>6, <1>7, <2>2, <2>3
<1>8. ASSUME f \notin recipients, NEW W \in Reached(f),
             unwired' = [unwired EXCEPT ![f] = Keys \ W],
             remaining' = [remaining EXCEPT ![f] = rem(W)],
             \/ W = Keys /\ Then(t, << item(rem(W)) >>) /\ UNCHANGED threw
             \/ Throw(t)
      PROVE  /\ DataOK' /\ rem(W) \in Nat
             /\ \/ threw' = threw \cup {t} /\ \E rest : Moves(t, << >>, rest)
                \/ /\ unwired' = [unwired EXCEPT ![f] = {}] /\ threw' = threw
                   /\ \E rest : Moves(t, << item(rem(W)) >>, rest)
  <2>1. rem(W) \in Nat /\ Keys \ W \in SUBSET Keys
    BY <1>4
  <2>2. remaining' \in [Filters -> Nat] /\ unwired' \in [Filters -> SUBSET Keys]
    BY <1>1, <1>8, <2>1 DEF DataOK
  <2>3. CASE W = Keys /\ Then(t, << item(rem(W)) >>) /\ UNCHANGED threw
    <3> DEFINE w == item(rem(W))
    <3>1. w \in Items /\ Made(t, w)
      BY <1>5, <2>1
    <3> HIDE DEF w
    <3>2. << w >> \in Seq(Items) /\ DOMAIN << w >> = {1} /\ << w >>[1] = w
      BY <3>1
    <3>3. Then(t, << w >>)
      BY <2>3 DEF w
    <3>4. Moves(t, << w >>, Tail(work[t]))
      BY <1>1, <3>1, <3>2, <3>3, ThenMoves
    <3>5. DataOK'
      BY <1>1, <1>3, <1>6, <2>2, <2>3 DEF DataOK
    <3>6. unwired' = [unwired EXCEPT ![f] = {}]
      BY <1>8, <2>3
    <3> QED BY <2>1, <2>3, <3>4, <3>5, <3>6 DEF w
  <2>4. CASE Throw(t)
    <3>1. threw' \subseteq Threads /\ threw' = threw \cup {t}
      BY <1>1, <2>4, ThrowDoes DEF Throw
    <3>2. DataOK'
      BY <1>1, <1>3, <1>6, <2>2, <3>1 DEF DataOK
    <3> QED BY <1>1, <2>1, <2>4, <3>1, <3>2, ThrowMoves
  <2> QED BY <1>8, <2>3, <2>4
<1>9. CASE f \notin recipients
  <2>1. PICK W \in Reached(f) :
                  /\ unwired' = [unwired EXCEPT ![f] = Keys \ W]
                  /\ remaining' = [remaining EXCEPT ![f] = rem(W)]
                  /\ \/ W = Keys /\ Then(t, << item(rem(W)) >>) /\ UNCHANGED threw
                     \/ Throw(t)
    BY <1>3, <1>9
  <2>2. PICK n \in Nat : n = rem(W)
    BY <1>4
  <2>3. /\ DataOK'
        /\ \/ threw' = threw \cup {t} /\ \E rest : Moves(t, << >>, rest)
           \/ /\ unwired' = [unwired EXCEPT ![f] = {}] /\ threw' = threw
              /\ \E rest : Moves(t, << item(n) >>, rest)
    BY <1>8, <1>9, <2>1, <2>2
  <2>4. item(n) = [op |-> "check", of |-> f, n |-> n]
    BY DEF item
  <2>5. remaining' = [remaining EXCEPT ![f] = n]
    BY <2>1, <2>2
  <2> QED BY <1>1, <1>2, <1>3, <1>6, <1>9, <2>3, <2>4, <2>5
<1> QED BY <1>3, <1>7, <1>9

\* The counter of a filter that was added is looked at.
LEMMA CheckDoes ==
    ASSUME Typed, NEW t \in Threads, Check(t)
    PROVE  LET w == Current(t) IN
           /\ DataOK' /\ work[t] # << >> /\ w \in ToSet(work[t]) /\ w \in Items
           /\ w.op = "check" /\ w.of \in Filters /\ w.n \in Nat
           /\ \/ remaining[w.of] # 0 /\ Moves(t, << >>, Tail(work[t])) /\ UNCHANGED raced
              \/ /\ remaining[w.of] = 0 /\ Moves(t, << Do("call", w.of) >>, Tail(work[t]))
                 /\ raced' = IF w.n > 0 THEN raced \cup {w.of} ELSE raced
           /\ UNCHANGED << setup, todo, pended, packetVars, born, called, threw, missing, taken,
                           lost, stranded >>
<1> DEFINE f == Current(t).of
           w == Do("call", f)
<1>1. /\ TypeOK /\ DataOK /\ work[t] # << >> /\ Current(t) \in ToSet(work[t])
      /\ Current(t) \in Items /\ Current(t).op = "check" /\ f \in Filters /\ Current(t).n \in Nat
  BY DoingOf, ItemOf, TypeParts DEF Typed, Check
<1>2. /\ Then(t, IF remaining[f] = 0 THEN << w >> ELSE << >>)
      /\ raced' = IF remaining[f] = 0 /\ Current(t).n > 0 THEN raced \cup {f} ELSE raced
      /\ UNCHANGED << setup, todo, pended, packetVars, born, called, threw, missing, taken,
                      lost, stranded >>
  BY DEF Check
<1>3. w \in Items /\ Made(t, w)
  BY <1>1, DoIn DEF Made, Do
<1>4. DataOK'
  <2>1. raced' \subseteq Filters
    BY <1>1, <1>2 DEF DataOK
  <2> QED BY <1>1, <1>2, <2>1 DEF DataOK, packetVars
<1> HIDE DEF w
<1>5. CASE remaining[f] = 0
  <2>1. << w >> \in Seq(Items) /\ DOMAIN << w >> = {1} /\ << w >>[1] = w
    BY <1>3
  <2>2. Moves(t, << w >>, Tail(work[t]))
    BY <1>1, <1>2, <1>3, <1>5, <2>1, ThenMoves
  <2> QED BY <1>1, <1>2, <1>4, <1>5, <2>2 DEF w
<1>6. CASE remaining[f] # 0
  <2>1. << >> \in Seq(Items) /\ DOMAIN << >> = {}
    OBVIOUS
  <2>2. Moves(t, << >>, Tail(work[t]))
    BY <1>1, <1>2, <1>6, <2>1, ThenMoves
  <2> QED BY <1>1, <1>2, <1>4, <1>6, <2>2
<1> QED BY <1>5, <1>6

\* The filters q, that need no input, are called when the packet is issued.
Issues(t, q) ==
    /\ recipients' = setup.initial
    /\ IsInjective(q) /\ \A f \in ToSet(q) : f \in setup.initial /\ remaining'[f] = 0
    /\ \A f \in Filters \ setup.initial : remaining'[f] = 0
    /\ CallsOf(q) \in Seq(Items) /\ DOMAIN CallsOf(q) = DOMAIN q
    /\ \A i \in DOMAIN q : CallsOf(q)[i].op = "call" /\ CallsOf(q)[i].of = q[i]
    /\ work' = [work EXCEPT ![t] = CallsOf(q)]

\* The packet is issued, or refused.
LEMMA InitializeDoes ==
    ASSUME Typed, NEW t \in Threads, Initialize(t)
    PROVE  /\ DataOK' /\ born = "no" /\ born' # "no"
           /\ \/ UNCHANGED << recipients, remaining, work >>
              \/ \E q \in Seq(Filters) : Issues(t, q)
           /\ UNCHANGED << setup, todo, pended, holder, unwired, state, decorations, immediate,
                           nProducersRun, history >>
<1> DEFINE q == Among(Order, { f \in setup.initial : Required(f) = 0 })
<1>1. DataOK /\ setup.initial \subseteq Filters
  BY TypeParts, SetupOf DEF Typed, DataOK
<1>2. /\ born = "no"
      /\ \/ /\ born' = "issued"
            /\ recipients' = setup.initial
            /\ remaining' = [f \in Filters |-> IF f \in setup.initial THEN Required(f) ELSE 0]
            /\ work' = [work EXCEPT ![t] = CallsOf(q)]
         \/ born' = "refused" /\ UNCHANGED << recipients, remaining, work >>
      /\ UNCHANGED << setup, todo, pended, holder, unwired, state, decorations, immediate,
                      nProducersRun, history >>
  BY DEF Initialize
<1>3. \A f : Required(f) \in Nat
  <2>1. \A f : { k \in Keys : Kind(f, k) \in Inputs } \in SUBSET Keys
    OBVIOUS
  <2> QED BY <2>1, CountOf DEF Required
<1>4. /\ q \in Seq(Filters) /\ IsInjective(q)
      /\ \A f \in ToSet(q) : f \in Filters /\ f \in setup.initial /\ Required(f) = 0
  BY AmongOrder
<1> HIDE DEF q
<1>5. CASE /\ born' = "issued"
           /\ recipients' = setup.initial
           /\ remaining' = [f \in Filters |-> IF f \in setup.initial THEN Required(f) ELSE 0]
           /\ work' = [work EXCEPT ![t] = CallsOf(q)]
  <2>1. remaining' \in [Filters -> Nat]
    BY <1>3, <1>5
  <2>2. DataOK'
    BY <1>1, <1>2, <1>5, <2>1 DEF DataOK, history
  <2>3. /\ \A f \in ToSet(q) : f \in setup.initial /\ remaining'[f] = 0
        /\ \A f \in Filters \ setup.initial : remaining'[f] = 0
    BY <1>4, <1>5
  <2>4. /\ CallsOf(q) \in Seq(Items) /\ DOMAIN CallsOf(q) = DOMAIN q
        /\ \A i \in DOMAIN q : CallsOf(q)[i].op = "call" /\ CallsOf(q)[i].of = q[i]
    BY <1>4, CallsOfOf
  <2>5. born' # "no"
    BY <1>5
  <2>6. Issues(t, q)
    BY <1>4, <1>5, <2>3, <2>4 DEF Issues
  <2> QED BY <1>2, <1>4, <2>2, <2>5, <2>6
<1>6. CASE born' = "refused" /\ UNCHANGED << recipients, remaining, work >>
  <2>1. DataOK'
    BY <1>1, <1>2, <1>6 DEF DataOK, history
  <2> QED BY <1>2, <1>6, <2>1
<1> QED BY <1>2, <1>5, <1>6

\* A client begins.
LEMMA StartDoes ==
    ASSUME Typed, NEW t \in Threads, Start(t)
    PROVE  \E r \in todo[t] :
              /\ DataOK' /\ born = "issued" /\ work[t] = << >>
              /\ r \in Items /\ r \in setup.todo[t]
              /\ r.op = "drop" => r.of \in recipients
              /\ r.op \in { "decorate", "null", "mark", "remove", "immediate", "add", "drop" }
              /\ todo' = [todo EXCEPT ![t] = @ \ {r}]
              /\ work' = [work EXCEPT ![t] = << r >>]
              /\ UNCHANGED << setup, pended, packetVars, born, called, raced, stranded >>
<1>1. DataOK
  BY TypeParts DEF Typed
<1>2. PICK r \in todo[t] :
         /\ r.op = "drop" => r.of \in recipients
         /\ todo' = [todo EXCEPT ![t] = @ \ {r}]
         /\ work' = [work EXCEPT ![t] = << r >>]
         /\ taken' = IF r.op \in {"mark", "remove", "null"} THEN taken \cup {r.of}
                     ELSE IF r.op = "immediate" THEN taken \cup ToSet(r.of) ELSE taken
  BY DEF Start
<1>3. /\ born = "issued" /\ work[t] = << >>
      /\ UNCHANGED << setup, pended, packetVars, born, called, threw, missing, raced, lost,
                      stranded >>
  BY DEF Start
<1>4. r \in Requests /\ r \in setup.todo[t]
  BY <1>1 DEF DataOK
<1>5. r \in Items
  BY <1>4, RequestsAreItems
<1>6. r.op \in { "decorate", "null", "mark", "remove", "immediate", "add", "drop" }
  BY <1>4 DEF Requests
<1>7. taken' \subseteq Keys
  <2>1. r.op \in {"mark", "remove", "null"} => r.of \in Keys
    BY <1>5, ItemOf
  <2>2. r.op = "immediate" => ToSet(r.of) \subseteq Keys
    <3>1. r.op = "immediate" => r.of \in Seq(Keys)
      BY <1>5, ItemOf
    <3> QED BY <3>1 DEF ToSet
  <2>3. taken \subseteq Keys
    BY <1>1 DEF DataOK
  <2> QED BY <1>2, <2>1, <2>2, <2>3
<1>8. /\ todo' \in [Threads -> SUBSET Requests]
      /\ \A u \in Threads : todo'[u] \subseteq setup.todo[u]
  BY <1>1, <1>2 DEF DataOK
<1>9. DataOK'
  BY <1>1, <1>3, <1>7, <1>8 DEF DataOK, packetVars
<1> QED BY <1>2, <1>3, <1>4, <1>5, <1>6, <1>9

\* What work a thread gets is of the right type.
LEMMA FreshTyped ==
    ASSUME Typed, NEW t \in Threads, NEW new \in Seq(Items), setup' = setup,
           work' = [work EXCEPT ![t] = new], \A i \in DOMAIN new : new[i].op # "resume"
    PROVE  work' \in [Threads -> Seq(Items)] /\ RestsOK'
<1>1. work \in [Threads -> Seq(Items)]
  BY DEF Typed, TypeOK
<1>2. /\ work' \in [Threads -> Seq(Items)] /\ work'[t] = new
      /\ \A u \in Threads \ {t} : work'[u] = work[u]
  BY <1>1
<1>3. ASSUME NEW u \in Threads, NEW i \in DOMAIN work'[u], work'[u][i].op = "resume"
      PROVE  Orderly(work'[u][i])
  BY <1>2, <1>3 DEF Typed, RestsOK
<1>4. RestsOK'
  BY <1>3 DEF RestsOK, Orderly, Kind
<1> QED BY <1>2, <1>4

-----------------------------------------------------------------------------
(* Type correctness *)

\* Steps of a thread that is inside the packet.
Ordinary(t) ==
    \/ Resume(t) \/ Decorate(t) \/ Mark(t) \/ RemoveDecoration(t)
    \/ Inc(t) \/ Count(t) \/ Look(t) \/ Compare(t) \/ Settle(t)
    \/ UpdateSatisfaction(t) \/ Finish(t) \/ Fail(t)
    \/ Immediate(t) \/ Pass(t) \/ Zero(t) \/ AtExit(t) \/ RemoveRecipient(t)

\* All of these together.
LEMMA OrdinaryDoes ==
    ASSUME Typed, NEW t \in Threads, Ordinary(t)
    PROVE  DataOK' /\ Does(t) /\ work[t] # << >>
<1>1. DataOK' /\ Does(t)
  BY ResumeDoes, DecorateDoes, MarkDoes, RemoveDecorationDoes, IncDoes, CountDoes,
     LookDoes, CompareDoes, SettleDoes, FailDoes, UpdateSatisfactionDoes, FinishDoes, ImmediateDoes, PassDoes, ZeroDoes, AtExitDoes,
     RemoveRecipientDoes DEF Ordinary
<1>2. work[t] # << >>
  BY DEF Ordinary, Resume, Decorate, Mark, RemoveDecoration, Inc, Count, Look, Compare, Settle,
         UpdateSatisfaction, Finish, Fail,
         Immediate, Pass, Zero, AtExit, RemoveRecipient, Doing
<1> QED BY <1>1, <1>2

\* A step is an ordinary one or one of the seven others.
LEMMA NextCases ==
    ASSUME NEW t \in Threads, Initialize(t) \/ Start(t) \/ Step(t)
    PROVE  \/ Initialize(t) \/ Start(t) \/ Ordinary(t)
           \/ Pend(t) \/ Call(t) \/ RunPended(t) \/ AddRecipient(t) \/ Check(t)
  BY DEF Step, Ordinary

\* The types hold initially ...
LEMMA InitTyped == Init => Typed
<1> SUFFICES ASSUME Init PROVE Typed
  OBVIOUS
<1>1. setup \in Setups /\ todo = setup.todo
  BY DEF Init
<1>2. todo \in [Threads -> SUBSET Requests] /\ \A t \in Threads : todo[t] \subseteq setup.todo[t]
  BY <1>1, SetupOf
<1>3. immediate \in [Keys -> BOOLEAN]
  BY Zenon DEF Init
<1>4. work \in [Threads -> Seq(Items)] /\ \A t \in Threads : DOMAIN work[t] = {}
  BY DEF Init
<1>5. DataOK
  BY <1>1, <1>2, <1>3 DEF Init, DataOK
<1>6. RestsOK
  BY <1>4 DEF RestsOK
<1> QED BY <1>4, <1>5, <1>6, TypeParts DEF Typed

\* ... and after every step.
LEMMA NextTyped == Typed /\ [Next]_vars => Typed'
<1> SUFFICES ASSUME Typed, [Next]_vars PROVE Typed'
  OBVIOUS
<1>1. CASE UNCHANGED vars
  BY <1>1 DEF vars, packetVars, history, Typed, TypeOK, RestsOK, Orderly, Kind
<1>2. ASSUME NEW t \in Threads, NEW new, NEW rest, Moves(t, new, rest), DataOK', setup' = setup
      PROVE  Typed'
  BY <1>2, MovesTyped, TypePartsNext DEF Typed
<1>3. ASSUME NEW t \in Threads, NEW new \in Seq(Items), DataOK', setup' = setup,
             work' = [work EXCEPT ![t] = new], \A i \in DOMAIN new : new[i].op # "resume"
      PROVE  Typed'
  BY <1>3, FreshTyped, TypePartsNext DEF Typed
<1>4. ASSUME NEW t \in Threads, Initialize(t) \/ Start(t) \/ Step(t) PROVE Typed'
  <2>1. CASE Ordinary(t)
    BY <1>2, <2>1, OrdinaryDoes DEF Does
  <2>2. CASE Pend(t)
    BY <1>2, <2>2, PendDoes
  <2>3. CASE Call(t)
    BY <1>2, <2>3, CallDoes
  <2>4. CASE RunPended(t)
    BY <1>2, <2>4, RunPendedDoes
  <2>5. CASE AddRecipient(t)
    BY <1>2, <2>5, AddRecipientDoes
  <2>8. CASE Check(t)
    BY <1>2, <2>8, CheckDoes DEF packetVars
  <2>6. CASE Start(t)
    <3>1. PICK r \in todo[t] : /\ DataOK' /\ r \in Items /\ setup' = setup
                               /\ r.op \in { "decorate", "null", "mark", "remove", "immediate", "add", "drop" }
                               /\ work' = [work EXCEPT ![t] = << r >>]
      BY <2>6, StartDoes
    <3>2. << r >> \in Seq(Items) /\ DOMAIN << r >> = {1} /\ << r >>[1] = r
      BY <3>1
    <3> QED BY <1>3, <3>1, <3>2
  <2>7. CASE Initialize(t)
    <3>1. DataOK' /\ setup' = setup
      BY <2>7, InitializeDoes
    <3>2. CASE work' = work
      <4>1. work' \in [Threads -> Seq(Items)]
        BY <3>2 DEF Typed, TypeOK
      <4>2. RestsOK'
        BY <3>1, <3>2 DEF Typed, RestsOK, Orderly, Kind
      <4> QED BY <3>1, <4>1, <4>2, TypePartsNext DEF Typed
    <3>3. ASSUME NEW q \in Seq(Filters), Issues(t, q) PROVE Typed'
      <4> DEFINE new == CallsOf(q)
      <4>1. /\ new \in Seq(Items) /\ work' = [work EXCEPT ![t] = new]
            /\ \A i \in DOMAIN new : new[i].op # "resume"
        BY <3>3 DEF Issues
      <4> HIDE DEF new
      <4> QED BY <1>3, <3>1, <4>1
    <3>4. work' = work \/ \E q \in Seq(Filters) : Issues(t, q)
      BY <2>7, InitializeDoes
    <3> QED BY <3>2, <3>3, <3>4
  <2> QED BY <1>4, <2>1, <2>2, <2>3, <2>4, <2>5, <2>6, <2>7, <2>8, NextCases
<1> QED BY <1>1, <1>4 DEF Next

\* The types hold always, with the order of what waits behind a shared modifier.
LEMMA TypedAlways == Spec => []Typed
  BY InitTyped, NextTyped, PTL DEF Spec

\* Every variable keeps its type, and threads have only items to do that there are.
THEOREM TypeCorrect == Spec => []TypeOK
<1>1. Typed => TypeOK
  BY DEF Typed
<1> QED BY <1>1, TypedAlways, PTL

-----------------------------------------------------------------------------
(* The pointers of DecorateImmediate *)

\* Nothing happens before the packet is issued.
Unborn ==
    born = "no" =>
        /\ \A t \in Threads : work[t] = << >>
        /\ pended = << >> /\ recipients = {}
        /\ \A f \in Filters : called[f] = 0 /\ remaining[f] = 0
        /\ \A k \in Keys : state[k] # "Complete"

\* Somebody will end the DecorateImmediate of k.
Held(k) == \E t \in Threads : \E w \in ToSet(work[t]) : w.op = "atexit" /\ k \in ToSet(w.of)

\* ImmediateIsTransient by the threads that will take the pointers back ...
LEMMA HeldIs == ImmediateIsTransient <=> \A k \in Keys \ stranded : immediate[k] => Held(k)
  BY DEF ImmediateIsTransient, Held

\* ... in the next state as well.
LEMMA HeldIsNext ==
    ImmediateIsTransient' <=> \A k \in Keys \ stranded' : immediate'[k] => Held(k)'
  BY DEF ImmediateIsTransient, Held

\* The destructor that a thread has still to run stays, unless it is what the step is.
LEMMA HeldMoves ==
    ASSUME Typed, NEW t \in Threads, NEW new, NEW rest, Moves(t, new, rest), NEW k, Held(k),
           ~(Doing(t, "atexit") /\ k \in ToSet(Current(t).of))
    PROVE  Held(k)'
<1>1. PICK u \in Threads : \E w \in ToSet(work[u]) : w.op = "atexit" /\ k \in ToSet(w.of)
  BY DEF Held
<1>2. PICK w \in ToSet(work[u]) : w.op = "atexit" /\ k \in ToSet(w.of)
  BY <1>1
<1>3. work \in [Threads -> Seq(Items)]
  BY DEF Typed, TypeOK
<1>4. CASE u # t
  <2>1. work'[u] = work[u]
    BY <1>3, <1>4 DEF Moves
  <2> QED BY <1>2, <2>1 DEF Held
<1>5. CASE u = t
  <2>1. w \in ToSet(rest)
    BY <1>2, <1>5 DEF Moves
  <2>2. work'[t] = new \o rest /\ new \in Seq(Items) /\ rest \in Seq(Items)
    BY <1>3 DEF Moves
  <2>3. ToSet(new \o rest) = ToSet(new) \cup ToSet(rest)
    BY <2>2, ConcatOf
  <2>4. w \in ToSet(work'[t])
    BY <2>1, <2>2, <2>3
  <2> QED BY <1>2, <2>4 DEF Held
<1> QED BY <1>4, <1>5

\* Which pointers an ordinary step leaves.
LEMMA OrdinaryImmediate ==
    ASSUME Typed, NEW t \in Threads, Ordinary(t)
    PROVE  /\ stranded \subseteq stranded'
           /\ \A k \in Keys : immediate'[k] =>
                 \/ immediate[k] /\ ~(Doing(t, "atexit") /\ k \in ToSet(Current(t).of))
                 \/ k \in stranded'
                 \/ Held(k)'
<1>1. CASE AtExit(t)
  <2>1. /\ \A k \in Keys : immediate'[k] => k \notin ToSet(Current(t).of) /\ immediate[k]
    BY <1>1 DEF AtExit, Invalidated
  <2>2. stranded' = stranded
    BY <1>1 DEF AtExit, history
  <2> QED BY <2>1, <2>2
<1>2. ASSUME ~Doing(t, "atexit"), stranded' = stranded,
             \A k \in Keys : immediate'[k] => immediate[k]
      PROVE  /\ stranded \subseteq stranded'
             /\ \A k \in Keys : immediate'[k] =>
                   \/ immediate[k] /\ ~(Doing(t, "atexit") /\ k \in ToSet(Current(t).of))
                   \/ k \in stranded'
                   \/ Held(k)'
  BY <1>2
<1>3. CASE Mark(t)
  <2>1. ~Doing(t, "atexit") /\ stranded' = stranded
    BY <1>3 DEF Mark, Doing, history
  <2>2. immediate \in [Keys -> BOOLEAN] /\ Current(t).of \in Keys
    BY <1>3, DoingOf, ItemOf DEF Mark, Typed, TypeOK
  <2>3. immediate' = [immediate EXCEPT ![Current(t).of] = FALSE]
    BY <1>3 DEF Mark
  <2>4. \A k \in Keys : immediate'[k] => immediate[k]
    BY <2>2, <2>3
  <2> QED BY <1>2, <2>1, <2>4
<1>4. CASE Immediate(t)
  <2>1. ~Doing(t, "atexit")
    BY <1>4 DEF Immediate, Doing
  <2> QED BY <1>4, <2>1, ImmediateDoes DEF Held
<1>5. CASE Resume(t) \/ UpdateSatisfaction(t) \/ Pass(t) \/ Zero(t) \/ RemoveDecoration(t) \/ RemoveRecipient(t)
  <2>1. ~Doing(t, "atexit") /\ UNCHANGED << immediate, history >>
    BY <1>5 DEF Resume, UpdateSatisfaction, Pass, Zero, RemoveDecoration, RemoveRecipient, Doing
  <2> QED BY <1>2, <2>1 DEF history
<1>6. CASE Decorate(t) \/ Count(t) \/ Settle(t)
  <2>1. ~Doing(t, "atexit") /\ UNCHANGED << immediate, stranded >>
    BY <1>6 DEF Decorate, Count, Settle, Doing
  <2> QED BY <1>2, <2>1
<1>7. CASE Inc(t) \/ Look(t) \/ Compare(t) \/ Finish(t) \/ Fail(t)
  <2>1. ~Doing(t, "atexit") /\ UNCHANGED << immediate, stranded >>
    BY <1>7 DEF Inc, Look, Compare, Finish, Fail, Doing, history, packetVars
  <2> QED BY <1>2, <2>1
<1> QED BY <1>1, <1>3, <1>4, <1>5, <1>6, <1>7 DEF Ordinary

\* A step that moves without touching the pointers, and that is no destructor.
LEMMA HeldKeeps ==
    ASSUME Typed, ImmediateIsTransient, NEW t \in Threads, NEW new, NEW rest,
           Moves(t, new, rest), ~Doing(t, "atexit"), UNCHANGED << immediate, stranded >>
    PROVE  ImmediateIsTransient'
<1>1. \A k \in Keys \ stranded : immediate[k] => Held(k)
  BY HeldIs
<1>2. \A k : Held(k) => Held(k)'
  BY HeldMoves
<1> QED BY <1>1, <1>2, HeldIsNext

Transient == Typed /\ Unborn /\ ImmediateIsTransient

\* No pointer is set initially ...
LEMMA InitTransient == Init => Transient
<1> SUFFICES ASSUME Init PROVE Transient
  OBVIOUS
<1>1. Unborn
  BY DEF Init, Unborn
<1>2. \A k \in Keys : ~immediate[k]
  BY DEF Init
<1> QED BY <1>1, <1>2, InitTyped DEF Transient, ImmediateIsTransient

\* Only Initialize happens before the packet is issued.
LEMMA NextUnborn ==
    ASSUME Typed, Unborn, NEW t \in Threads, Initialize(t) \/ Start(t) \/ Step(t)
    PROVE  Unborn' /\ (born = "no" => Initialize(t))
<1>1. born = "no" => work[t] = << >> /\ pended = << >>
  BY DEF Unborn
<1>2. CASE Ordinary(t)
  BY <1>1, <1>2, OrdinaryDoes DEF Does, Unborn
<1>3. CASE Pend(t)
  BY <1>1, <1>3, PendDoes DEF Unborn
<1>4. CASE Call(t)
  BY <1>1, <1>4, CallDoes DEF Unborn
<1>5. CASE RunPended(t)
  BY <1>1, <1>5, RunPendedDoes DEF Unborn
<1>6. CASE AddRecipient(t)
  BY <1>1, <1>6, AddRecipientDoes DEF Unborn
<1>9. CASE Check(t)
  BY <1>1, <1>9, CheckDoes DEF Unborn
<1>7. CASE Start(t)
  BY <1>7, StartDoes DEF Unborn
<1>8. CASE Initialize(t)
  BY <1>8, InitializeDoes DEF Unborn
<1> QED BY <1>2, <1>3, <1>4, <1>5, <1>6, <1>7, <1>8, <1>9, NextCases

\* ... and each that is set has a thread that takes it back.
LEMMA NextTransient == Transient /\ [Next]_vars => Transient'
<1> SUFFICES ASSUME Transient, [Next]_vars PROVE Transient'
  OBVIOUS
<1>1. Typed /\ Unborn /\ ImmediateIsTransient
  BY DEF Transient
<1>2. Typed'
  BY <1>1, NextTyped
<1>3. CASE UNCHANGED vars
  <2>1. Unborn' /\ ImmediateIsTransient'
    BY <1>1, <1>3 DEF vars, packetVars, history, Unborn, ImmediateIsTransient
  <2> QED BY <1>2, <2>1 DEF Transient
<1>4. ASSUME NEW t \in Threads, Initialize(t) \/ Start(t) \/ Step(t)
      PROVE  ImmediateIsTransient'
  <2>1. CASE Ordinary(t)
    <3>1. PICK new, rest : Moves(t, new, rest)
      BY <1>1, <2>1, OrdinaryDoes DEF Does
    <3>2. /\ stranded \subseteq stranded'
          /\ \A k \in Keys : immediate'[k] =>
                 \/ immediate[k] /\ ~(Doing(t, "atexit") /\ k \in ToSet(Current(t).of))
                 \/ k \in stranded'
                 \/ Held(k)'
      BY <1>1, <2>1, OrdinaryImmediate
    <3>3. \A k \in Keys \ stranded : immediate[k] => Held(k)
      BY <1>1, HeldIs
    <3>4. \A k : Held(k) /\ ~(Doing(t, "atexit") /\ k \in ToSet(Current(t).of)) => Held(k)'
      BY <1>1, <3>1, HeldMoves
    <3>5. ASSUME NEW k \in Keys \ stranded', immediate'[k] PROVE Held(k)'
      BY <3>2, <3>3, <3>4, <3>5
    <3> QED BY <3>5, HeldIsNext
  <2>2. CASE Pend(t)
    <3>1. ~Doing(t, "atexit") /\ UNCHANGED << immediate, stranded >>
      BY <2>2 DEF Pend, Doing, packetVars, history
    <3> QED BY <1>1, <2>2, <3>1, PendDoes, HeldKeeps
  <2>3. CASE Call(t)
    <3>1. ~Doing(t, "atexit") /\ UNCHANGED << immediate, stranded >>
      BY <2>3 DEF Call, Doing
    <3> QED BY <1>1, <2>3, <3>1, CallDoes, HeldKeeps
  <2>4. CASE RunPended(t)
    <3>1. ~Doing(t, "atexit") /\ UNCHANGED << immediate, stranded >>
      BY <2>4 DEF RunPended, Doing, packetVars, history
    <3> QED BY <1>1, <2>4, <3>1, RunPendedDoes, HeldKeeps
  <2>5. CASE AddRecipient(t)
    <3>1. ~Doing(t, "atexit") /\ UNCHANGED << immediate, stranded >>
      BY <2>5 DEF AddRecipient, Doing, history
    <3> QED BY <1>1, <2>5, <3>1, AddRecipientDoes, HeldKeeps
  <2>7. CASE Check(t)
    <3>1. ~Doing(t, "atexit") /\ UNCHANGED << immediate, stranded >>
      BY <2>7 DEF Check, Doing, packetVars
    <3> QED BY <1>1, <2>7, <3>1, CheckDoes, HeldKeeps
  <2>6. CASE Start(t) \/ Initialize(t)
    <3>1. /\ work[t] = << >> /\ UNCHANGED << immediate, stranded >>
          /\ \A u \in Threads \ {t} : work'[u] = work[u]
      <4>1. CASE Start(t)
        <5>1. PICK r : work' = [work EXCEPT ![t] = << r >>]
          BY <1>1, <4>1, StartDoes
        <5>2. work[t] = << >> /\ UNCHANGED << immediate, stranded >>
          BY <4>1 DEF Start, packetVars
        <5> QED BY <1>1, <5>1, <5>2 DEF Typed, TypeOK
      <4>2. CASE Initialize(t)
        <5>1. born = "no" /\ UNCHANGED << immediate, stranded >>
          BY <4>2 DEF Initialize, history
        <5>2. work[t] = << >>
          BY <1>1, <5>1 DEF Unborn
        <5>3. work' = work \/ \E q : work' = [work EXCEPT ![t] = q]
          BY <4>2 DEF Initialize
        <5> QED BY <1>1, <5>1, <5>2, <5>3 DEF Typed, TypeOK
      <4> QED BY <2>6, <4>1, <4>2
    <3>2. \A k : Held(k) => Held(k)'
      <4> SUFFICES ASSUME NEW k, Held(k) PROVE Held(k)'
        OBVIOUS
      <4>1. PICK u \in Threads : \E w \in ToSet(work[u]) : w.op = "atexit" /\ k \in ToSet(w.of)
        BY DEF Held
      <4>2. u # t
        BY <3>1, <4>1 DEF ToSet
      <4> QED BY <3>1, <4>1, <4>2 DEF Held
    <3> QED BY <1>1, <3>1, <3>2, HeldIs, HeldIsNext
  <2> QED BY <1>4, <2>1, <2>2, <2>3, <2>4, <2>5, <2>6, <2>7, NextCases
<1> QED BY <1>1, <1>2, <1>3, <1>4, NextUnborn DEF Transient, Next

\* The pointer to an object of the caller of DecorateImmediate is in the packet only
\* while that call has its destructor still to run, in whatever way filters end and
\* whatever other threads do; unless the call was refused for a later argument.
THEOREM PointersAreTransient == Spec => []ImmediateIsTransient
<1>1. Transient => ImmediateIsTransient
  BY DEF Transient
<1> QED BY <1>1, InitTransient, NextTransient, PTL DEF Spec

-----------------------------------------------------------------------------
(* Filters that are added and dropped *)

\* No filter takes two types of one DecorateImmediate that a client will call.
Separate ==
    \A t \in Threads : \A r \in setup.todo[t] :
        r.op = "immediate" => \A f \in Filters : Meets(f, r.of) <= 1

\* Nobody is going to add f.
NoAddLeft(f) ==
    \A t \in Threads : Do("add", f) \notin todo[t] /\ Do("add", f) \notin ToSet(work[t])

\* An addition is all that its thread does, and is not repeated.  Who is dropped is
\* not added again.
AddsOK ==
    \A t \in Threads : \A w \in ToSet(work[t]) :
        /\ w.op = "add" => DOMAIN work[t] = {1} /\ w \in setup.todo[t] /\ w \notin todo[t]
        /\ w.op = "drop" => NoAddLeft(w.of)
Dropped(f) == \E t \in Threads : Do("drop", f) \in setup.todo[t]
DropsOK == \A f \in Filters : Dropped(f) /\ f \in recipients => NoAddLeft(f)

Additions == Separate /\ Single /\ AddsOK /\ DropsOK

\* Requests by their names.
LEMMA AddIs ==
    ASSUME NEW w \in Items
    PROVE  /\ w.op = "add" => w = Do("add", w.of) /\ w.of \in Filters
           /\ w.op = "drop" => w = Do("drop", w.of) /\ w.of \in Filters
  BY DEF Items, Do

\* A step of t leaves the requests of the others, and of its own only what was behind
\* the item at hand.
LEMMA MovesRequests ==
    ASSUME Typed, NEW t \in Threads, NEW new, NEW rest, Moves(t, new, rest),
           NEW u \in Threads, NEW w \in ToSet(work'[u]),
           w.op \in { "add", "drop", "immediate", "pulse", "check" }
    PROVE  \/ u # t /\ work'[u] = work[u]
           \/ u = t /\ work[t] # << >> /\ w \in ToSet(Tail(work[t]))
           \/ u = t /\ w.op = "pulse" /\ work[t] # << >> /\ w.of = Current(t).of
                    /\ Current(t).op \in { "immediate", "pulse" }
           \/ u = t /\ w.op = "check" /\ Doing(t, "add") /\ w.of = Current(t).of
<1>1. work \in [Threads -> Seq(Items)]
  BY DEF Typed, TypeOK
<1>2. CASE u # t
  BY <1>1, <1>2 DEF Moves
<1>3. CASE u = t
  <2>1. work'[t] = new \o rest /\ new \in Seq(Items) /\ rest \in Seq(Items)
    BY <1>1 DEF Moves
  <2>2. ToSet(new \o rest) = ToSet(new) \cup ToSet(rest)
    BY <2>1, ConcatOf
  <2>3. w \in ToSet(new) \/ w \in ToSet(rest)
    BY <1>3, <2>1, <2>2
  <2>4. CASE w \in ToSet(new)
    BY <1>3, <2>4 DEF Moves, Made, ToSet
  <2>5. CASE w \in ToSet(rest)
    <3>1. w.op # "atexit"
      OBVIOUS
    <3> QED BY <1>3, <2>5, <3>1 DEF Moves, ToSet
  <2> QED BY <2>3, <2>4, <2>5
<1> QED BY <1>2, <1>3

\* The rest of a thread's work was its work.
LEMMA TailWas ==
    ASSUME Typed, NEW t \in Threads, work[t] # << >>
    PROVE  /\ ToSet(Tail(work[t])) \subseteq ToSet(work[t])
           /\ Current(t) \in ToSet(work[t])
           /\ DOMAIN work[t] = {1} => ToSet(Tail(work[t])) = {}
<1>1. work[t] \in Seq(Items)
  BY DEF Typed, TypeOK
<1>2. /\ ToSet(work[t]) = {Head(work[t])} \cup ToSet(Tail(work[t]))
      /\ \A i \in DOMAIN Tail(work[t]) : i + 1 \in DOMAIN work[t] /\ i \in Nat
      /\ Tail(work[t]) \in Seq(Items)
  BY <1>1, TailOf
<1>3. \A i \in DOMAIN Tail(work[t]) : i # 0
  BY <1>2
<1>4. \A i \in Nat : i + 1 = 1 => i = 0
  OBVIOUS
<1>5. DOMAIN work[t] = {1} => DOMAIN Tail(work[t]) = {}
  BY <1>2, <1>3, <1>4
<1> QED BY <1>2, <1>5 DEF Current, ToSet

\* Nobody begins to add by a step inside the packet.
LEMMA MovesAdditions ==
    ASSUME Typed, Additions, NEW t \in Threads, NEW new, NEW rest, Moves(t, new, rest),
           setup' = setup, todo' = todo
    PROVE  /\ Separate' /\ Single' /\ AddsOK'
           /\ \A f : NoAddLeft(f) => NoAddLeft(f)'
           /\ \A f : Do("add", f) \notin ToSet(work'[t])
<1>1. Separate /\ Single /\ AddsOK
  BY DEF Additions
<1>2. Separate'
  BY <1>1 DEF Separate, Meets, Kind
<1>3. Single'
  <2> SUFFICES ASSUME NEW u \in Threads, NEW w \in ToSet(work'[u]),
                      w.op \in { "immediate", "pulse" }, NEW f \in Filters
               PROVE  Meets(f, w.of)' <= 1
    BY DEF Single
  <2>1. \/ w \in ToSet(work[u])
        \/ \E x \in ToSet(work[t]) : x.of = w.of /\ x.op \in { "immediate", "pulse" }
    BY MovesRequests, TailWas
  <2>2. Meets(f, w.of) <= 1
    BY <1>1, <2>1 DEF Single
  <2> QED BY <2>2 DEF Meets, Kind
<1>4. ASSUME NEW u \in Threads, NEW w \in ToSet(work'[u]), w.op = "add"
      PROVE  u # t /\ work'[u] = work[u]
  <2>1. SUFFICES ASSUME u = t, work[t] # << >>, w \in ToSet(Tail(work[t])) PROVE FALSE
    BY <1>4, MovesRequests
  <2>2. w \in ToSet(work[t])
    BY <2>1, TailWas
  <2>3. DOMAIN work[t] = {1}
    BY <1>1, <1>4, <2>2 DEF AddsOK
  <2> QED BY <2>1, <2>3, TailWas
<1>5. \A f : Do("add", f).op = "add"
  BY DEF Do
<1>6. \A f : NoAddLeft(f) => NoAddLeft(f)'
  BY <1>4, <1>5 DEF NoAddLeft
<1>7. AddsOK'
  <2> SUFFICES ASSUME NEW u \in Threads, NEW w \in ToSet(work'[u])
               PROVE  /\ w.op = "add" => /\ DOMAIN work'[u] = {1} /\ w \in setup'.todo[u]
                                         /\ w \notin todo'[u]
                      /\ w.op = "drop" => NoAddLeft(w.of)'
    BY DEF AddsOK
  <2>1. CASE w.op = "add"
    BY <1>1, <1>4, <2>1 DEF AddsOK
  <2>2. CASE w.op = "drop"
    <3>1. w \in ToSet(work[u])
      BY <2>2, MovesRequests, TailWas
    <3> QED BY <1>1, <1>6, <2>2, <3>1 DEF AddsOK
  <2> QED BY <2>1, <2>2
<1>8. \A f : Do("add", f) \notin ToSet(work'[t])
  BY <1>4, <1>5
<1> QED BY <1>2, <1>3, <1>6, <1>7, <1>8

\* Who an ordinary step takes off the packet.
LEMMA OrdinaryRecipients ==
    ASSUME Typed, AddsOK, NEW t \in Threads, Ordinary(t)
    PROVE  recipients' \subseteq recipients /\ \A f \in recipients \ recipients' : NoAddLeft(f)
<1>1. CASE RemoveRecipient(t)
  <2>1. recipients' = recipients \ {Current(t).of}
    BY <1>1 DEF RemoveRecipient
  <2>2. Current(t) \in ToSet(work[t]) /\ Current(t).op = "drop"
    BY <1>1, DoingOf DEF RemoveRecipient, Typed
  <2> QED BY <2>1, <2>2 DEF AddsOK
<1>2. CASE ~RemoveRecipient(t)
  <2>1. recipients' = recipients
    BY <1>2 DEF Ordinary, Resume, Decorate, Mark, RemoveDecoration, Inc, Count, Look, Compare, Settle,
         UpdateSatisfaction, Finish, Fail, Immediate, Pass, Zero, AtExit, packetVars
  <2> QED BY <2>1
<1> QED BY <1>1, <1>2

\* The setup has nobody added who is dropped, but once and late.
LEMMA DroppedOnce ==
    ASSUME setup \in Setups, NEW f \in Filters, Dropped(f),
           NEW u \in Threads, Do("add", f) \in setup.todo[u]
    PROVE  f \notin setup.initial /\ \A v \in Threads \ {u} : Do("add", f) \notin setup.todo[v]
<1>1. PICK t \in Threads : Do("drop", f) \in setup.todo[t]
  BY DEF Dropped
<1>2. Do("drop", f).op = "drop" /\ Do("drop", f).of = f
  BY DEF Do
<1> QED BY <1>1, <1>2, SetupsAssumption

\* Nobody adds or drops initially.
LEMMA InitAdditions == Init /\ Separate => Additions
<1> SUFFICES ASSUME Init, Separate PROVE Additions
  OBVIOUS
<1>1. \A t \in Threads : ToSet(work[t]) = {}
  BY DEF Init, ToSet
<1>2. recipients = {}
  BY DEF Init
<1> QED BY <1>1, <1>2 DEF Additions, Single, AddsOK, DropsOK

\* A client begins with a request that it will not make again.
LEMMA StartAdditions ==
    ASSUME Typed, Additions, NEW t \in Threads, Start(t)
    PROVE  Additions' /\ \A f : NoAddLeft(f) => NoAddLeft(f)'
<1>1. PICK r \in todo[t] :
              /\ work[t] = << >> /\ r \in Items /\ r \in setup.todo[t]
              /\ r.op = "drop" => r.of \in recipients
              /\ r.op \in { "decorate", "null", "mark", "remove", "immediate", "add", "drop" }
              /\ todo' = [todo EXCEPT ![t] = @ \ {r}]
              /\ work' = [work EXCEPT ![t] = << r >>]
              /\ UNCHANGED << setup, packetVars >>
  BY StartDoes
<1>2. Separate /\ Single /\ AddsOK /\ DropsOK
  BY DEF Additions
<1>3. /\ todo \in [Threads -> SUBSET Requests] /\ work \in [Threads -> Seq(Items)]
  BY DEF Typed, TypeOK
<1>4. /\ work'[t] = << r >> /\ \A u \in Threads \ {t} : work'[u] = work[u]
      /\ todo'[t] = todo[t] \ {r} /\ \A u \in Threads : todo'[u] \subseteq todo[u]
  BY <1>1, <1>3
<1>5. ToSet(<< r >>) = {r} /\ DOMAIN << r >> = {1}
  BY DEF ToSet
<1>6. \A u \in Threads : \A w \in ToSet(work'[u]) : (u = t /\ w = r) \/ (u # t /\ w \in ToSet(work[u]))
  BY <1>4, <1>5
<1>7. \A f : NoAddLeft(f) => NoAddLeft(f)'
  BY <1>4, <1>6 DEF NoAddLeft
<1>8. Separate'
  BY <1>1, <1>2 DEF Separate, Meets, Kind
<1>9. Single'
  <2> SUFFICES ASSUME NEW u \in Threads, NEW w \in ToSet(work'[u]),
                      w.op \in { "immediate", "pulse" }, NEW f \in Filters
               PROVE  Meets(f, w.of)' <= 1
    BY DEF Single
  <2>1. Meets(f, w.of) <= 1
    <3>1. CASE u = t /\ w = r
      <4>1. r.op = "immediate"
        BY <1>1, <3>1
      <4> QED BY <1>1, <1>2, <3>1, <4>1 DEF Separate
    <3>2. CASE u # t /\ w \in ToSet(work[u])
      BY <1>2, <3>2 DEF Single
    <3> QED BY <1>6, <3>1, <3>2
  <2> QED BY <1>1, <2>1 DEF Meets, Kind
<1>10. AddsOK'
  <2> SUFFICES ASSUME NEW u \in Threads, NEW w \in ToSet(work'[u])
               PROVE  /\ w.op = "add" => /\ DOMAIN work'[u] = {1} /\ w \in setup'.todo[u]
                                         /\ w \notin todo'[u]
                      /\ w.op = "drop" => NoAddLeft(w.of)'
    BY DEF AddsOK
  <2>1. CASE u = t /\ w = r
    <3>1. r.op = "drop" => NoAddLeft(r.of)
      <4> SUFFICES ASSUME r.op = "drop" PROVE NoAddLeft(r.of)
        OBVIOUS
      <4>1. r = Do("drop", r.of) /\ r.of \in Filters
        BY <1>1, AddIs
      <4>2. Dropped(r.of)
        BY <1>1, <4>1 DEF Dropped
      <4> QED BY <1>1, <1>2, <4>1, <4>2 DEF DropsOK
    <3> QED BY <1>1, <1>4, <1>5, <1>7, <2>1, <3>1
  <2>2. CASE u # t /\ w \in ToSet(work[u])
    BY <1>1, <1>2, <1>4, <1>7, <2>2 DEF AddsOK
  <2> QED BY <1>6, <2>1, <2>2
<1>11. DropsOK'
  <2>1. recipients' = recipients /\ setup' = setup
    BY <1>1 DEF packetVars
  <2> QED BY <1>2, <1>7, <2>1 DEF DropsOK, Dropped
<1> QED BY <1>7, <1>8, <1>9, <1>10, <1>11 DEF Additions

\* The packet is issued: who is dropped later is not added.
LEMMA InitializeAdditions ==
    ASSUME Typed, Unborn, Additions, NEW t \in Threads, Initialize(t)
    PROVE  Additions' /\ \A f : NoAddLeft(f) => NoAddLeft(f)'
<1>1. Separate /\ Single /\ AddsOK /\ DropsOK /\ setup \in Setups
  BY DEF Additions, Typed, TypeOK
<1>2. UNCHANGED << setup, todo >> /\ born = "no"
  BY InitializeDoes
<1>3. \A u \in Threads : work[u] = << >>
  BY <1>2 DEF Unborn
<1>4. \A u \in Threads : \A w \in ToSet(work'[u]) : w.op = "call"
  <2>1. CASE work' = work
    BY <1>3, <2>1 DEF ToSet
  <2>2. ASSUME NEW q \in Seq(Filters), Issues(t, q)
        PROVE  \A u \in Threads : \A w \in ToSet(work'[u]) : w.op = "call"
    <3>1. /\ work' = [work EXCEPT ![t] = CallsOf(q)]
          /\ \A i \in DOMAIN CallsOf(q) : CallsOf(q)[i].op = "call"
      BY <2>2 DEF Issues
    <3>2. work'[t] = CallsOf(q) /\ \A u \in Threads \ {t} : work'[u] = << >>
      BY <1>3, <3>1 DEF Typed, TypeOK
    <3> QED BY <3>1, <3>2 DEF ToSet
  <2>3. work' = work \/ \E q \in Seq(Filters) : Issues(t, q)
    BY InitializeDoes
  <2> QED BY <2>1, <2>2, <2>3
<1>5. Separate' /\ Single' /\ AddsOK'
  <2>1. Separate'
    BY <1>1, <1>2 DEF Separate, Meets, Kind
  <2> QED BY <1>4, <2>1 DEF Single, AddsOK
<1>6. \A f : NoAddLeft(f) => NoAddLeft(f)'
  BY <1>2, <1>4 DEF NoAddLeft, Do
<1>7. DropsOK'
  <2> SUFFICES ASSUME NEW f \in Filters, Dropped(f), f \in recipients' PROVE NoAddLeft(f)'
    BY <1>2 DEF DropsOK, Dropped
  <2>1. f \in recipients \/ f \in setup.initial
    BY InitializeDoes DEF Issues
  <2>2. CASE f \in recipients
    BY <1>1, <1>6, <2>2 DEF DropsOK
  <2>3. CASE f \in setup.initial
    <3>1. \A u \in Threads : Do("add", f) \notin setup.todo[u]
      BY <1>1, <2>3, DroppedOnce
    <3>2. \A u \in Threads : todo[u] \subseteq setup.todo[u]
      BY DEF Typed, TypeOK
    <3>3. NoAddLeft(f)
      BY <1>3, <3>1, <3>2 DEF NoAddLeft, ToSet
    <3> QED BY <1>6, <3>3
  <2> QED BY <2>1, <2>2, <2>3
<1> QED BY <1>5, <1>6, <1>7 DEF Additions

\* Who was added has nobody left to add it, if it is ever dropped.
LEMMA AddRecipientAdditions ==
    ASSUME Typed, Additions, NEW t \in Threads, AddRecipient(t)
    PROVE  Additions' /\ \A f : NoAddLeft(f) => NoAddLeft(f)'
<1> DEFINE f == Current(t).of
<1>1. /\ Current(t) \in ToSet(work[t]) /\ Current(t) = Do("add", f) /\ f \in Filters
      /\ recipients' = recipients \cup {f}
      /\ \E new, rest : Moves(t, new, rest)
      /\ setup' = setup /\ todo' = todo
  BY AddRecipientDoes
<1> HIDE DEF f
<1>2. /\ Separate' /\ Single' /\ AddsOK'
      /\ \A g : NoAddLeft(g) => NoAddLeft(g)'
      /\ \A g : Do("add", g) \notin ToSet(work'[t])
  BY <1>1, MovesAdditions
<1>3. Do("add", f) \in setup.todo[t] /\ Do("add", f) \notin todo[t] /\ AddsOK /\ DropsOK
  BY <1>1 DEF Additions, AddsOK, Do
<1>4. DropsOK'
  <2> SUFFICES ASSUME NEW g \in Filters, Dropped(g), g \in recipients' PROVE NoAddLeft(g)'
    BY <1>1 DEF DropsOK, Dropped
  <2>1. CASE g \in recipients
    BY <1>2, <1>3, <2>1 DEF DropsOK
  <2>2. CASE g = f
    <3>1. \A v \in Threads \ {t} : Do("add", f) \notin setup.todo[v]
      BY <1>1, <1>3, <2>2, DroppedOnce DEF Typed, TypeOK
    <3>2. \A v \in Threads \ {t} : Do("add", f) \notin todo[v]
      BY <3>1 DEF Typed, TypeOK
    <3>3. \A v \in Threads \ {t} : Do("add", f) \notin ToSet(work'[v])
      <4> SUFFICES ASSUME NEW v \in Threads \ {t}, Do("add", f) \in ToSet(work'[v]) PROVE FALSE
        OBVIOUS
      <4>1. Do("add", f) \in setup'.todo[v]
        BY <1>2 DEF AddsOK, Do
      <4> QED BY <1>1, <3>1, <4>1
    <3> QED BY <1>1, <1>2, <1>3, <2>2, <3>2, <3>3 DEF NoAddLeft
  <2> QED BY <1>1, <2>1, <2>2
<1> QED BY <1>2, <1>4 DEF Additions

\* Additions and removals stay in order.
LEMMA NextAdditions ==
    ASSUME Typed, Unborn, Additions, NEW t \in Threads, Initialize(t) \/ Start(t) \/ Step(t)
    PROVE  Additions' /\ \A f : NoAddLeft(f) => NoAddLeft(f)'
<1>1. ASSUME NEW new, NEW rest, Moves(t, new, rest), setup' = setup, todo' = todo,
             recipients' \subseteq recipients
      PROVE  Additions' /\ \A f : NoAddLeft(f) => NoAddLeft(f)'
  <2>1. /\ Separate' /\ Single' /\ AddsOK'
        /\ \A f : NoAddLeft(f) => NoAddLeft(f)'
    BY <1>1, MovesAdditions
  <2>2. DropsOK'
    BY <1>1, <2>1 DEF Additions, DropsOK, Dropped
  <2> QED BY <2>1, <2>2 DEF Additions
<1>2. CASE Ordinary(t)
  BY <1>1, <1>2, OrdinaryDoes, OrdinaryRecipients DEF Does, Additions
<1>3. CASE Pend(t)
  BY <1>1, <1>3, PendDoes DEF packetVars
<1>4. CASE Call(t)
  BY <1>1, <1>4, CallDoes
<1>5. CASE RunPended(t)
  BY <1>1, <1>5, RunPendedDoes DEF packetVars
<1>6. CASE Check(t)
  BY <1>1, <1>6, CheckDoes DEF packetVars
<1> QED BY <1>2, <1>3, <1>4, <1>5, <1>6, NextCases, InitializeAdditions, StartAdditions,
           AddRecipientAdditions

-----------------------------------------------------------------------------
(* Calls that are to be made *)

\* A thread is going to call f.
ToCall(f) == \E t \in Threads : \E i \in DOMAIN work[t] : IsCall(work[t][i]) /\ work[t][i].of = f

\* One thread at most, and once, unless the filter was satisfied as it was added.
Unique ==
    \A t, u \in Threads : \A i \in DOMAIN work[t], j \in DOMAIN work[u] :
        /\ IsCall(work[t][i]) /\ IsCall(work[u][j])
        /\ work[t][i].of = work[u][j].of /\ work[t][i].of \notin raced
        => t = u /\ i = j

\* A deferred filter is in its queue once, or called by a thread.
Apart ==
    /\ \A i, j \in DOMAIN pended : pended[i] = pended[j] /\ pended[i] \notin raced => i = j
    /\ \A f \in ToSet(pended) \ raced : ~ToCall(f)

\* f is, or was, counted down to zero.
Spent ==
    \A f \in Filters \ raced :
        /\ called[f] <= 1
        /\ called[f] = 1 => remaining[f] = 0
        /\ ToCall(f) \/ f \in ToSet(pended) => remaining[f] = 0 /\ called[f] = 0

\* Nothing ever happened to f.
Untouched(f) == remaining[f] = 0 /\ called[f] = 0 /\ ~ToCall(f) /\ f \notin ToSet(pended)
Outside == \A f \in Filters \ recipients : Untouched(f) \/ NoAddLeft(f)

\* Who is being added is a recipient, or was.
Adding == \A t \in Threads : \A w \in ToSet(work[t]) :
              w.op = "check" => w.of \in recipients \/ NoAddLeft(w.of)

Once == Unique /\ Apart /\ Spent /\ Outside /\ Adding

\* Where an item was before the step.
LEMMA MovesPlaces ==
    ASSUME Typed, NEW t \in Threads, NEW new, NEW rest, Moves(t, new, rest)
    PROVE  /\ \A u \in Threads \ {t} : work'[u] = work[u]
           /\ Len(new) \in Nat
           /\ \A i \in DOMAIN work'[t] : IsCall(work'[t][i]) =>
                 \/ i \in DOMAIN new /\ work'[t][i] = new[i]
                 \/ /\ i \in Nat /\ i > Len(new) /\ i - Len(new) + 1 \in DOMAIN work[t]
                    /\ work'[t][i] = work[t][i - Len(new) + 1]
                    /\ i - Len(new) + 1 # 1 /\ work[t] # << >>
<1>1. work \in [Threads -> Seq(Items)]
  BY DEF Typed, TypeOK
<1>2. /\ work'[t] = new \o rest /\ new \in Seq(Items) /\ rest \in Seq(Items)
      /\ \A u \in Threads \ {t} : work'[u] = work[u]
  BY <1>1 DEF Moves
<1>3. /\ \A i \in DOMAIN (new \o rest) :
            \/ i \in DOMAIN new /\ (new \o rest)[i] = new[i]
            \/ i - Len(new) \in DOMAIN rest /\ (new \o rest)[i] = rest[i - Len(new)] /\ i > Len(new)
      /\ Len(new) \in Nat /\ DOMAIN (new \o rest) \subseteq Nat
  BY <1>2, ConcatOf
<1>4. ASSUME NEW i \in DOMAIN work'[t], IsCall(work'[t][i]),
             ~(i \in DOMAIN new /\ work'[t][i] = new[i])
      PROVE  /\ i \in Nat /\ i > Len(new) /\ i - Len(new) + 1 \in DOMAIN work[t]
             /\ work'[t][i] = work[t][i - Len(new) + 1]
             /\ i - Len(new) + 1 # 1 /\ work[t] # << >>
  <2>1. /\ i \in Nat /\ i - Len(new) \in DOMAIN rest
        /\ work'[t][i] = rest[i - Len(new)] /\ i > Len(new)
    BY <1>2, <1>3, <1>4
  <2>2. rest[i - Len(new)].op # "atexit"
    BY <1>4, <2>1 DEF IsCall
  <2>3. work[t] # << >> /\ rest = Tail(work[t])
    BY <2>1, <2>2 DEF Moves
  <2>4. \A j \in DOMAIN Tail(work[t]) : j + 1 \in DOMAIN work[t] /\ Tail(work[t])[j] = work[t][j + 1]
    BY <1>1, <2>3, TailOf
  <2> DEFINE j == i - Len(new)
  <2>5. j \in DOMAIN Tail(work[t]) /\ work'[t][i] = Tail(work[t])[j]
    BY <2>1, <2>3
  <2>6. j + 1 # 1
    BY <1>3, <2>1
  <2>7. j + 1 \in DOMAIN work[t] /\ work'[t][i] = work[t][j + 1]
    <3> HIDE DEF j
    <3> QED BY <2>4, <2>5
  <2> QED BY <2>1, <2>3, <2>6, <2>7
<1> QED BY <1>2, <1>3, <1>4

\* f is called anew.
Anew(new, f) == \E i \in DOMAIN new : IsCall(new[i]) /\ new[i].of = f

\* Calls are there once if those that are new are.
LEMMA MovesUnique ==
    ASSUME Typed, Unique, NEW t \in Threads, NEW new, NEW rest, Moves(t, new, rest),
           raced \subseteq raced',
           \A i \in DOMAIN new : IsCall(new[i]) /\ new[i].of \notin raced' =>
              /\ \/ ~ToCall(new[i].of)
                 \/ work[t] # << >> /\ IsCall(Current(t)) /\ Current(t).of = new[i].of
              /\ \A j \in DOMAIN new : IsCall(new[j]) /\ new[j].of = new[i].of => i = j
    PROVE  /\ Unique'
           /\ \A f : ToCall(f)' => ToCall(f) \/ Anew(new, f)
           /\ \A f : f \notin raced /\ work[t] # << >> /\ IsCall(Current(t)) /\ Current(t).of = f /\ ~Anew(new, f)
                 => ~ToCall(f)'
<1>1. /\ \A u \in Threads \ {t} : work'[u] = work[u]
      /\ Len(new) \in Nat
      /\ \A i \in DOMAIN work'[t] : IsCall(work'[t][i]) =>
            \/ i \in DOMAIN new /\ work'[t][i] = new[i]
            \/ /\ i \in Nat /\ i > Len(new) /\ i - Len(new) + 1 \in DOMAIN work[t]
               /\ work'[t][i] = work[t][i - Len(new) + 1]
               /\ i - Len(new) + 1 # 1 /\ work[t] # << >>
  BY MovesPlaces
<1> DEFINE Was(u, i) == IF u = t THEN i - Len(new) + 1 ELSE i
           IsNew(u, i) == u = t /\ i \in DOMAIN new /\ work'[u][i] = new[i]
<1>2. ASSUME NEW u \in Threads, NEW i \in DOMAIN work'[u], IsCall(work'[u][i])
      PROVE  \/ IsNew(u, i)
             \/ /\ Was(u, i) \in DOMAIN work[u] /\ work'[u][i] = work[u][Was(u, i)]
                /\ u = t => i \in Nat /\ Was(u, i) # 1 /\ work[t] # << >>
  <2>1. CASE u = t
    BY <1>1, <1>2, <2>1
  <2>2. CASE u # t
    BY <1>1, <1>2, <2>2
  <2> QED BY <2>1, <2>2
<1>3. \A u \in Threads : \A i, j \in Nat : u = t /\ Was(u, i) = Was(u, j) => i = j
  BY <1>1
<1>4. \A u \in Threads : \A i, j : u # t /\ Was(u, i) = Was(u, j) => i = j
  OBVIOUS
<1> HIDE DEF Was
<1>5. ASSUME NEW u \in Threads, NEW v \in Threads,
             NEW i \in DOMAIN work'[u], NEW j \in DOMAIN work'[v],
             IsCall(work'[u][i]), IsCall(work'[v][j]), work'[u][i].of = work'[v][j].of,
             work'[u][i].of \notin raced'
      PROVE  u = v /\ i = j
  <2>0. ASSUME NEW x \in Threads, NEW h \in DOMAIN work[x], work[t] # << >>,
               IsCall(Current(t)), IsCall(work[x][h]), Current(t).of = work[x][h].of,
               work[x][h].of \notin raced
        PROVE  x = t /\ h = 1
    <3>1. Current(t) = work[t][1] /\ 1 \in DOMAIN work[t]
      BY <2>0, DoingOf DEF Typed, Doing
    <3> QED BY <2>0, <3>1 DEF Unique
  <2>1. CASE IsNew(u, i) /\ IsNew(v, j)
    BY <1>5, <2>1
  <2>2. CASE IsNew(u, i) /\ ~IsNew(v, j)
    <3>1. /\ Was(v, j) \in DOMAIN work[v] /\ work'[v][j] = work[v][Was(v, j)]
          /\ v = t => Was(v, j) # 1
      BY <1>2, <1>5, <2>2
    <3>2. ToCall(work'[u][i].of)
      BY <1>5, <3>1 DEF ToCall
    <3> QED BY <1>5, <2>0, <2>2, <3>1, <3>2
  <2>3. CASE ~IsNew(u, i) /\ IsNew(v, j)
    <3>1. /\ Was(u, i) \in DOMAIN work[u] /\ work'[u][i] = work[u][Was(u, i)]
          /\ u = t => Was(u, i) # 1
      BY <1>2, <1>5, <2>3
    <3>2. ToCall(work'[v][j].of)
      BY <1>5, <3>1 DEF ToCall
    <3> QED BY <1>5, <2>0, <2>3, <3>1, <3>2
  <2>4. CASE ~IsNew(u, i) /\ ~IsNew(v, j)
    <3>1. /\ Was(u, i) \in DOMAIN work[u] /\ work'[u][i] = work[u][Was(u, i)]
          /\ Was(v, j) \in DOMAIN work[v] /\ work'[v][j] = work[v][Was(v, j)]
          /\ u = t => i \in Nat
          /\ v = t => j \in Nat
      BY <1>2, <1>5, <2>4
    <3>2. u = v /\ Was(u, i) = Was(v, j)
      BY <1>5, <3>1 DEF Unique
    <3> QED BY <1>3, <1>4, <3>1, <3>2
  <2> QED BY <2>1, <2>2, <2>3, <2>4
<1>6. Unique'
  BY <1>5 DEF Unique
<1>7. ASSUME NEW f, ToCall(f)' PROVE ToCall(f) \/ Anew(new, f)
  <2>1. PICK u \in Threads : \E i \in DOMAIN work'[u] : IsCall(work'[u][i]) /\ work'[u][i].of = f
    BY <1>7 DEF ToCall, IsCall
  <2>2. PICK i \in DOMAIN work'[u] : IsCall(work'[u][i]) /\ work'[u][i].of = f
    BY <2>1
  <2> QED BY <1>2, <2>2 DEF ToCall, Anew
<1>8. ASSUME NEW f, f \notin raced, work[t] # << >>, IsCall(Current(t)), Current(t).of = f, ~Anew(new, f), ToCall(f)'
      PROVE  FALSE
  <2>1. PICK u \in Threads : \E i \in DOMAIN work'[u] : IsCall(work'[u][i]) /\ work'[u][i].of = f
    BY <1>8 DEF ToCall, IsCall
  <2>2. PICK i \in DOMAIN work'[u] : IsCall(work'[u][i]) /\ work'[u][i].of = f
    BY <2>1
  <2>3. ~IsNew(u, i)
    BY <1>8, <2>2 DEF Anew
  <2>4. /\ Was(u, i) \in DOMAIN work[u] /\ work'[u][i] = work[u][Was(u, i)]
        /\ u = t => Was(u, i) # 1
    BY <1>2, <2>2, <2>3
  <2>5. Current(t) = work[t][1] /\ 1 \in DOMAIN work[t]
    BY <1>8, DoingOf DEF Typed, Doing
  <2> QED BY <1>8, <2>2, <2>4, <2>5 DEF Unique
<1> QED BY <1>6, <1>7, <1>8

-----------------------------------------------------------------------------
(* No filter is called twice *)

\* What a thread is going to call is a filter, and so is what is deferred.
LEMMA PendedAreFilters ==
    ASSUME Typed
    PROVE  ToSet(pended) \subseteq Filters
  BY SetupOf DEF Typed, TypeOK, ToSet

\* Who is being added stays a recipient, or is dropped for good.
LEMMA MovesAdding ==
    ASSUME Typed, Adding, NEW t \in Threads, NEW new, NEW rest, Moves(t, new, rest),
           \A f \in recipients \ recipients' : NoAddLeft(f),
           Doing(t, "add") => Current(t).of \in recipients',
           \A f : NoAddLeft(f) => NoAddLeft(f)'
    PROVE  Adding'
<1> SUFFICES ASSUME NEW u \in Threads, NEW w \in ToSet(work'[u]), w.op = "check"
             PROVE  w.of \in recipients' \/ NoAddLeft(w.of)'
  BY DEF Adding
<1>1. w \in ToSet(work[u]) \/ (Doing(t, "add") /\ w.of = Current(t).of)
  BY MovesRequests, TailWas
<1>2. CASE w \in ToSet(work[u])
  BY <1>2 DEF Adding
<1> QED BY <1>1, <1>2

\* Counters go down and who reaches zero is called: the ordinary steps.
LEMMA OrdinaryOnce ==
    ASSUME Typed, Additions, Once, NEW t \in Threads, Ordinary(t),
           \A f : NoAddLeft(f) => NoAddLeft(f)'
    PROVE  Once'
<1>1. Unique /\ Apart /\ Spent /\ Outside /\ Single /\ AddsOK /\ Adding
  BY DEF Once, Additions
<1>2. /\ \E new, rest : Moves(t, new, rest) /\ Fires(new)
      /\ \A f \in Filters : remaining'[f] <= remaining[f]
      /\ UNCHANGED << pended, called, raced >>
      /\ DataOK'
  BY <1>1, OrdinaryDoes DEF Does
<1>3. PICK new, rest : Moves(t, new, rest) /\ Fires(new)
  BY <1>2
<1>4. \A f \in Filters : /\ remaining'[f] \in Nat /\ remaining[f] \in Nat
                         /\ remaining[f] = 0 => remaining'[f] = 0
  BY <1>2 DEF DataOK, Typed, TypeOK
<1>5. \A i \in DOMAIN new : IsCall(new[i]) => new[i].of \in Filters
  <2>1. \A i \in DOMAIN new : new[i] \in Items
    BY <1>3 DEF Moves
  <2> QED BY <2>1, ItemOf DEF IsCall
<1>6. \A f \in Filters : Anew(new, f) =>
         /\ remaining'[f] = 0 /\ remaining[f] # 0
         /\ f \notin raced => ~ToCall(f) /\ f \notin ToSet(pended) /\ called[f] = 0
  <2> SUFFICES ASSUME NEW f \in Filters, Anew(new, f)
               PROVE  /\ remaining'[f] = 0 /\ remaining[f] # 0
                      /\ f \notin raced => ~ToCall(f) /\ f \notin ToSet(pended) /\ called[f] = 0
    OBVIOUS
  <2>1. remaining[f] > 0 /\ remaining'[f] = 0
    BY <1>3 DEF Anew, Fires
  <2>2. called[f] \in 0 .. 2
    BY DEF Typed, TypeOK
  <2>3. remaining[f] # 0
    BY <1>4, <2>1
  <2>4. f \notin raced => called[f] <= 1 /\ called[f] # 1
    BY <1>1, <2>3 DEF Spent
  <2>5. f \notin raced => called[f] = 0
    BY <2>2, <2>4
  <2> QED BY <1>1, <2>1, <2>3, <2>5 DEF Spent
<1>7. /\ Unique'
      /\ \A f : ToCall(f)' => ToCall(f) \/ Anew(new, f)
  <2>1. \A i \in DOMAIN new : IsCall(new[i]) /\ new[i].of \notin raced' =>
              /\ ~ToCall(new[i].of)
              /\ \A j \in DOMAIN new : IsCall(new[j]) /\ new[j].of = new[i].of => i = j
    BY <1>2, <1>3, <1>5, <1>6 DEF Fires, Anew
  <2> QED BY <1>1, <1>2, <1>3, <2>1, MovesUnique
<1>8. Apart'
  BY <1>1, <1>2, <1>6, <1>7, PendedAreFilters DEF Apart
<1>9. Spent'
  <2> SUFFICES ASSUME NEW f \in Filters \ raced'
               PROVE  /\ called'[f] <= 1
                      /\ called'[f] = 1 => remaining'[f] = 0
                      /\ ToCall(f)' \/ f \in ToSet(pended') => remaining'[f] = 0 /\ called'[f] = 0
    BY DEF Spent
  <2> QED BY <1>1, <1>2, <1>4, <1>6, <1>7 DEF Spent
<1>10. Outside'
  <2> SUFFICES ASSUME NEW f \in Filters \ recipients', ~NoAddLeft(f)' PROVE Untouched(f)'
    BY DEF Outside
  <2>1. f \notin recipients
    BY <1>1, OrdinaryRecipients
  <2>2. Untouched(f)
    BY <1>1, <2>1 DEF Outside
  <2>3. ~Anew(new, f)
    BY <1>6, <2>2 DEF Untouched
  <2> QED BY <1>2, <1>4, <1>7, <2>2, <2>3 DEF Untouched
<1>11. Adding'
  <2>1. ~Doing(t, "add")
    BY DEF Ordinary, Resume, Decorate, Mark, RemoveDecoration, Inc, Count, Look, Compare, Settle,
           UpdateSatisfaction, Finish, Fail, Immediate, Pass, Zero, AtExit, RemoveRecipient, Doing
  <2>2. \A f \in recipients \ recipients' : NoAddLeft(f)
    BY <1>1, OrdinaryRecipients
  <2> QED BY <1>1, <1>3, <2>1, <2>2, MovesAdding
<1> QED BY <1>7, <1>8, <1>9, <1>10, <1>11 DEF Once

\* The deferred filter goes from the thread to the queue.
LEMMA PendOnce ==
    ASSUME Typed, Once, NEW t \in Threads, Pend(t), \A f : NoAddLeft(f) => NoAddLeft(f)'
    PROVE  Once'
<1>0. PICK g : g = Current(t).of
  OBVIOUS
<1>1. Unique /\ Apart /\ Spent /\ Outside /\ Adding
  BY DEF Once
<1>2. /\ Moves(t, << >>, Tail(work[t])) /\ work[t] # << >> /\ IsCall(Current(t))
      /\ g \in setup.deferred /\ pended' = Append(pended, g)
      /\ UNCHANGED << recipients, remaining, called, raced >>
  BY <1>0, PendDoes DEF packetVars, history
<1>3. DOMAIN << >> = {} /\ \A f : ~Anew(<< >>, f)
  BY DEF Anew
<1>4. Unique' /\ (\A f : ToCall(f)' => ToCall(f)) /\ (g \notin raced => ~ToCall(g)')
  BY <1>0, <1>1, <1>2, <1>3, MovesUnique
<1>5. pended \in Seq(setup.deferred) /\ g \in Filters
  BY <1>2, SetupOf DEF Typed, TypeOK
<1>6. ToCall(g)
  <2>1. Current(t) = work[t][1] /\ 1 \in DOMAIN work[t]
    BY <1>2, DoingOf DEF Typed, Doing
  <2> QED BY <1>0, <1>2, <2>1 DEF ToCall
<1>7. /\ ToSet(pended') = ToSet(pended) \cup {g}
      /\ \A i \in DOMAIN pended' : \/ i \in DOMAIN pended /\ pended'[i] = pended[i]
                                   \/ i = Len(pended) + 1 /\ pended'[i] = g
  <2>1. ToSet(pended') = ToSet(pended) \cup {g}
    BY <1>2, <1>5, AppendOf
  <2>2. \A i \in DOMAIN pended' : \/ i \in DOMAIN pended /\ pended'[i] = pended[i]
                                  \/ i = Len(pended) + 1 /\ pended'[i] = g
    BY <1>2, <1>5
  <2> QED BY <2>1, <2>2
<1>8. Apart'
  <2>1. g \notin raced => g \notin ToSet(pended)
    BY <1>1, <1>6 DEF Apart
  <2>2. ASSUME NEW i \in DOMAIN pended', NEW j \in DOMAIN pended', pended'[i] = pended'[j],
               pended'[i] \notin raced
        PROVE  i = j
    <3>1. i \in DOMAIN pended => pended[i] \in ToSet(pended)
      BY DEF ToSet
    <3>2. j \in DOMAIN pended => pended[j] \in ToSet(pended)
      BY DEF ToSet
    <3> QED BY <1>1, <1>7, <2>1, <2>2, <3>1, <3>2 DEF Apart
  <2>3. \A f \in ToSet(pended') \ raced : ~ToCall(f)'
    BY <1>1, <1>4, <1>7 DEF Apart
  <2> QED BY <1>2, <2>2, <2>3 DEF Apart
<1>9. Spent'
  <2> SUFFICES ASSUME NEW f \in Filters \ raced'
               PROVE  /\ called'[f] <= 1
                      /\ called'[f] = 1 => remaining'[f] = 0
                      /\ ToCall(f)' \/ f \in ToSet(pended') => remaining'[f] = 0 /\ called'[f] = 0
    BY DEF Spent
  <2> QED BY <1>1, <1>2, <1>4, <1>6, <1>7 DEF Spent
<1>10. Outside'
  <2> SUFFICES ASSUME NEW f \in Filters \ recipients', ~NoAddLeft(f)' PROVE Untouched(f)'
    BY DEF Outside
  <2>1. Untouched(f) /\ f # g
    BY <1>1, <1>2, <1>6 DEF Outside, Untouched
  <2> QED BY <1>2, <1>4, <1>7, <2>1 DEF Untouched
<1>11. Adding'
  <2>1. ~Doing(t, "add")
    BY DEF Pend, Doing
  <2> QED BY <1>1, <1>2, <2>1, MovesAdding
<1> QED BY <1>4, <1>8, <1>9, <1>10, <1>11 DEF Once

\* The call is made.
LEMMA CallOnce ==
    ASSUME Typed, Once, NEW t \in Threads, Call(t), \A f : NoAddLeft(f) => NoAddLeft(f)'
    PROVE  Once'
<1>0. PICK g : g = Current(t).of
  OBVIOUS
<1>1. Unique /\ Apart /\ Spent /\ Outside /\ Adding
  BY DEF Once
<1>2. /\ work[t] # << >> /\ IsCall(Current(t)) /\ g \in Filters
      /\ \E new, rest : Moves(t, new, rest) /\ Mute(new)
      /\ called' = called \/ called' = [called EXCEPT ![g] = IF @ = 0 THEN 1 ELSE 2]
      /\ UNCHANGED << pended, recipients, remaining, raced >>
  BY <1>0, CallDoes
<1>3. PICK new, rest : Moves(t, new, rest) /\ Mute(new)
  BY <1>2
<1>4. \A f : ~Anew(new, f)
  BY <1>3 DEF Anew, Mute
<1>5. Unique' /\ (\A f : ToCall(f)' => ToCall(f)) /\ (g \notin raced => ~ToCall(g)')
  <2>1. \A i \in DOMAIN new : ~IsCall(new[i])
    BY <1>3 DEF Mute
  <2> QED BY <1>0, <1>1, <1>2, <1>3, <1>4, <2>1, MovesUnique
<1>6. ToCall(g)
  <2>1. Current(t) = work[t][1] /\ 1 \in DOMAIN work[t]
    BY <1>2, DoingOf DEF Typed, Doing
  <2> QED BY <1>0, <1>2, <2>1 DEF ToCall
<1>7. g \notin raced => called[g] = 0 /\ remaining[g] = 0 /\ g \notin ToSet(pended)
  BY <1>1, <1>2, <1>6 DEF Spent, Apart
<1>8. called \in [Filters -> 0 .. 2]
  BY DEF Typed, TypeOK
<1>9. \A f \in Filters : called'[f] = called[f] \/ (f = g /\ (g \notin raced => called'[f] = 1))
  BY <1>2, <1>7, <1>8
<1>10. Apart'
  BY <1>1, <1>2, <1>5 DEF Apart
<1>11. Spent'
  <2> SUFFICES ASSUME NEW f \in Filters \ raced'
               PROVE  /\ called'[f] <= 1
                      /\ called'[f] = 1 => remaining'[f] = 0
                      /\ ToCall(f)' \/ f \in ToSet(pended') => remaining'[f] = 0 /\ called'[f] = 0
    BY DEF Spent
  <2>1. CASE f = g
    BY <1>2, <1>5, <1>7, <1>9, <2>1
  <2>2. CASE f # g
    BY <1>1, <1>2, <1>5, <1>9, <2>2 DEF Spent
  <2> QED BY <2>1, <2>2
<1>12. Outside'
  <2> SUFFICES ASSUME NEW f \in Filters \ recipients', ~NoAddLeft(f)' PROVE Untouched(f)'
    BY DEF Outside
  <2>1. Untouched(f) /\ f # g
    BY <1>1, <1>2, <1>6 DEF Outside, Untouched
  <2> QED BY <1>2, <1>5, <1>9, <2>1 DEF Untouched
<1>13. Adding'
  <2>1. ~Doing(t, "add")
    BY DEF Call, Doing
  <2> QED BY <1>1, <1>2, <1>3, <2>1, MovesAdding
<1> QED BY <1>5, <1>10, <1>11, <1>12, <1>13 DEF Once

\* The deferred filter goes from the queue to the thread.
LEMMA RunPendedOnce ==
    ASSUME Typed, Once, NEW t \in Threads, RunPended(t), \A f : NoAddLeft(f) => NoAddLeft(f)'
    PROVE  Once'
<1> DEFINE g == Head(pended)
           new == << Do("enter", g) >>
<1>1. Unique /\ Apart /\ Spent /\ Outside /\ Adding
  BY DEF Once
<1>2. /\ pended # << >> /\ work[t] = << >> /\ pended' = Tail(pended)
      /\ Moves(t, new, << >>)
      /\ UNCHANGED << recipients, remaining, called, raced >>
  BY RunPendedDoes DEF packetVars, history
<1>3. pended \in Seq(setup.deferred)
  BY DEF Typed, TypeOK
<1>4. /\ g = pended[1] /\ 1 \in DOMAIN pended
      /\ \A i \in DOMAIN Tail(pended) : i + 1 \in DOMAIN pended /\ Tail(pended)[i] = pended[i + 1] /\ i \in Nat
      /\ ToSet(pended) = {g} \cup ToSet(Tail(pended))
      /\ 0 \notin DOMAIN Tail(pended)
  <2>1. Tail(pended) \in Seq(setup.deferred)
    BY <1>2, <1>3
  <2>2. 0 \notin DOMAIN Tail(pended)
    BY <2>1
  <2> QED BY <1>2, <1>3, <2>2, TailOf
<1>5. g \in ToSet(pended) /\ (g \notin raced => ~ToCall(g)) /\ g \in Filters
  BY <1>1, <1>4, PendedAreFilters DEF Apart
<1>6. DOMAIN new = {1} /\ new[1] = Do("enter", g)
  OBVIOUS
<1>7. IsCall(new[1]) /\ new[1].of = g
  BY <1>6 DEF IsCall, Do
<1> HIDE DEF g, new
<1>8. \A f : Anew(new, f) => f = g
  BY <1>6, <1>7 DEF Anew
<1>9. Unique' /\ \A f : ToCall(f)' => ToCall(f) \/ f = g
  <2>1. \A i \in DOMAIN new : i = 1
    BY <1>6
  <2> QED BY <1>1, <1>2, <1>5, <1>7, <1>8, <2>1, MovesUnique
<1>10. ToSet(pended') \subseteq ToSet(pended) /\ (g \notin raced => g \notin ToSet(pended'))
  <2>1. \A i, j \in DOMAIN pended : pended[i] = pended[j] /\ pended[i] \notin raced => i = j
    BY <1>1 DEF Apart
  <2>2. \A i \in DOMAIN Tail(pended) : i + 1 # 1
    BY <1>4
  <2>3. g \notin raced => g \notin ToSet(Tail(pended))
    BY <1>4, <2>1, <2>2 DEF ToSet
  <2> QED BY <1>2, <1>4, <2>3
<1>11. Apart'
  <2>1. \A i, j \in DOMAIN Tail(pended) : i + 1 = j + 1 => i = j
    BY <1>4
  <2>2. ASSUME NEW i \in DOMAIN pended', NEW j \in DOMAIN pended', pended'[i] = pended'[j],
               pended'[i] \notin raced
        PROVE  i = j
    BY <1>1, <1>2, <1>4, <2>1, <2>2 DEF Apart
  <2>3. \A f \in ToSet(pended') \ raced : ~ToCall(f)'
    BY <1>1, <1>9, <1>10 DEF Apart
  <2> QED BY <1>2, <2>2, <2>3 DEF Apart
<1>12. Spent'
  <2> SUFFICES ASSUME NEW f \in Filters \ raced'
               PROVE  /\ called'[f] <= 1
                      /\ called'[f] = 1 => remaining'[f] = 0
                      /\ ToCall(f)' \/ f \in ToSet(pended') => remaining'[f] = 0 /\ called'[f] = 0
    BY DEF Spent
  <2> QED BY <1>1, <1>2, <1>5, <1>9, <1>10 DEF Spent
<1>13. Outside'
  <2> SUFFICES ASSUME NEW f \in Filters \ recipients', ~NoAddLeft(f)' PROVE Untouched(f)'
    BY DEF Outside
  <2>1. Untouched(f) /\ f # g
    BY <1>1, <1>2, <1>5 DEF Outside, Untouched
  <2> QED BY <1>2, <1>9, <1>10, <2>1 DEF Untouched
<1>14. Adding'
  <2>1. ~Doing(t, "add")
    BY <1>2 DEF Doing
  <2> QED BY <1>1, <1>2, <2>1, MovesAdding
<1> QED BY <1>9, <1>11, <1>12, <1>13, <1>14 DEF Once

\* The filter is added, for the first time, or there already.
LEMMA AddRecipientOnce ==
    ASSUME Typed, Once, NEW t \in Threads, AddRecipient(t), \A f : NoAddLeft(f) => NoAddLeft(f)'
    PROVE  Once'
<1> DEFINE g == Current(t).of
<1>1. Unique /\ Apart /\ Spent /\ Outside /\ Adding
  BY DEF Once
<1>2. /\ Current(t) \in ToSet(work[t]) /\ Current(t) = Do("add", g) /\ g \in Filters
      /\ recipients' = recipients \cup {g}
      /\ \/ /\ g \in recipients /\ UNCHANGED remaining
            /\ \E rest : Moves(t, << >>, rest)
         \/ /\ g \notin recipients
            /\ \E rem \in Nat :
                  /\ remaining' = [remaining EXCEPT ![g] = rem]
                  /\ \/ \E rest : Moves(t, << >>, rest)
                     \/ \E rest : Moves(t, << [op |-> "check", of |-> g, n |-> rem] >>, rest)
      /\ UNCHANGED << pended, called, raced >>
  BY AddRecipientDoes
<1>3. ~NoAddLeft(g)
  BY <1>2 DEF NoAddLeft
<1> HIDE DEF g
<1>4. PICK new, rest : /\ Moves(t, new, rest)
                       /\ \/ new = << >>
                          \/ /\ new = << [op |-> "check", of |-> g, n |-> remaining'[g]] >>
                             /\ g \notin recipients
  BY <1>2 DEF Typed, TypeOK
<1>5. g \notin recipients => Untouched(g)
  BY <1>1, <1>2, <1>3 DEF Outside
<1>6. \A f \in Filters : f # g \/ g \in recipients => remaining'[f] = remaining[f]
  BY <1>2 DEF Typed, TypeOK
<1>7. /\ \A f : Anew(new, f) => f = g /\ g \notin recipients /\ remaining'[g] = 0
      /\ \A i \in DOMAIN new : i = 1
  <2>1. CASE new = << >>
    BY <2>1 DEF Anew
  <2>2. CASE new = << [op |-> "check", of |-> g, n |-> remaining'[g]] >> /\ g \notin recipients
    <3>1. DOMAIN new = {1} /\ new[1] = [op |-> "check", of |-> g, n |-> remaining'[g]]
      BY <2>2
    <3>2. new[1].of = g /\ (IsCall(new[1]) => remaining'[g] = 0)
      BY <3>1 DEF IsCall
    <3> QED BY <2>2, <3>1, <3>2 DEF Anew
  <2> QED BY <1>4, <2>1, <2>2
<1>8. Unique' /\ \A f : ToCall(f)' => ToCall(f) \/ Anew(new, f)
  <2>1. \A i \in DOMAIN new : IsCall(new[i]) =>
              /\ ~ToCall(new[i].of)
              /\ \A j \in DOMAIN new : IsCall(new[j]) /\ new[j].of = new[i].of => i = j
    BY <1>5, <1>7 DEF Anew, Untouched
  <2> QED BY <1>1, <1>2, <1>4, <2>1, MovesUnique
<1>9. Apart'
  BY <1>1, <1>2, <1>5, <1>7, <1>8 DEF Apart, Untouched
<1>10. Spent'
  <2> SUFFICES ASSUME NEW f \in Filters \ raced'
               PROVE  /\ called'[f] <= 1
                      /\ called'[f] = 1 => remaining'[f] = 0
                      /\ ToCall(f)' \/ f \in ToSet(pended') => remaining'[f] = 0 /\ called'[f] = 0
    BY DEF Spent
  <2>1. CASE f # g \/ g \in recipients
    BY <1>1, <1>2, <1>6, <1>7, <1>8, <2>1 DEF Spent
  <2>2. CASE f = g /\ g \notin recipients
    BY <1>2, <1>5, <1>7, <1>8, <2>2 DEF Untouched
  <2> QED BY <2>1, <2>2
<1>11. Outside'
  <2> SUFFICES ASSUME NEW f \in Filters \ recipients', ~NoAddLeft(f)' PROVE Untouched(f)'
    BY DEF Outside
  <2>1. f # g /\ Untouched(f)
    BY <1>1, <1>2 DEF Outside
  <2> QED BY <1>2, <1>6, <1>7, <1>8, <2>1 DEF Untouched
<1>12. Adding'
  <2>1. Doing(t, "add") => Current(t).of \in recipients'
    BY <1>2 DEF g
  <2> QED BY <1>1, <1>2, <1>4, <2>1, MovesAdding
<1> QED BY <1>8, <1>9, <1>10, <1>11, <1>12 DEF Once

\* The counter is looked at: who was satisfied when it was added is called, and so is
\* who was satisfied since.
LEMMA CheckOnce ==
    ASSUME Typed, Once, NEW t \in Threads, Check(t), \A f : NoAddLeft(f) => NoAddLeft(f)'
    PROVE  Once'
<1>0. PICK w : w = Current(t)
  OBVIOUS
<1> DEFINE g == w.of
<1>1. Unique /\ Apart /\ Spent /\ Outside /\ Adding
  BY DEF Once
<1>2. /\ work[t] # << >> /\ w \in ToSet(work[t]) /\ w.op = "check" /\ g \in Filters /\ w.n \in Nat
      /\ \/ remaining[g] # 0 /\ Moves(t, << >>, Tail(work[t])) /\ UNCHANGED raced
         \/ /\ remaining[g] = 0 /\ Moves(t, << Do("call", g) >>, Tail(work[t]))
            /\ raced' = IF w.n > 0 THEN raced \cup {g} ELSE raced
      /\ UNCHANGED << pended, called, recipients, remaining >>
  BY <1>0, CheckDoes DEF packetVars
<1>3. raced \subseteq raced'
  BY <1>2
<1>4. PICK new : /\ Moves(t, new, Tail(work[t]))
                 /\ \/ new = << >>
                    \/ /\ new = << Do("call", g) >> /\ remaining[g] = 0
                       /\ raced' = IF w.n > 0 THEN raced \cup {g} ELSE raced
  BY <1>2
<1>5. w.n = 0 => IsCall(w) /\ ToCall(g)
  <2>1. Current(t) = work[t][1] /\ 1 \in DOMAIN work[t]
    BY <1>2, DoingOf DEF Typed, Doing
  <2> QED BY <1>0, <1>2, <2>1 DEF ToCall, IsCall
<1>6. ~Doing(t, "add")
  BY <1>0, <1>2 DEF Doing
<1>7. /\ \A f : Anew(new, f) => f = g /\ remaining[g] = 0 /\ (g \notin raced' => w.n = 0)
      /\ \A i \in DOMAIN new : i = 1
  <2>1. CASE new = << >>
    BY <2>1 DEF Anew
  <2>2. CASE /\ new = << Do("call", g) >> /\ remaining[g] = 0
             /\ raced' = IF w.n > 0 THEN raced \cup {g} ELSE raced
    <3>1. DOMAIN new = {1} /\ new[1] = Do("call", g)
      BY <2>2
    <3>2. g \notin raced' => w.n = 0
      BY <1>2, <2>2
    <3> QED BY <2>2, <3>1, <3>2 DEF Anew, Do
  <2> QED BY <1>4, <2>1, <2>2
<1> HIDE DEF g
<1>8. Unique' /\ \A f : ToCall(f)' => ToCall(f) \/ Anew(new, f)
  <2>1. \A i \in DOMAIN new : IsCall(new[i]) /\ new[i].of \notin raced' =>
              /\ work[t] # << >> /\ IsCall(Current(t)) /\ Current(t).of = new[i].of
              /\ \A j \in DOMAIN new : IsCall(new[j]) /\ new[j].of = new[i].of => i = j
    BY <1>0, <1>2, <1>5, <1>7 DEF Anew, g
  <2> QED BY <1>1, <1>3, <1>4, <2>1, MovesUnique
<1>9. \A f \in Filters \ raced' : ToCall(f)' => ToCall(f)
  BY <1>5, <1>7, <1>8
<1>10. Apart'
  BY <1>1, <1>2, <1>3, <1>9, PendedAreFilters DEF Apart
<1>11. Spent'
  BY <1>1, <1>2, <1>3, <1>9 DEF Spent
<1>12. Outside'
  <2> SUFFICES ASSUME NEW f \in Filters \ recipients', ~NoAddLeft(f)' PROVE Untouched(f)'
    BY DEF Outside
  <2>1. Untouched(f)
    BY <1>1, <1>2 DEF Outside
  <2>2. f # g
    BY <1>1, <1>2 DEF Adding, g
  <2> QED BY <1>2, <1>7, <1>8, <2>1, <2>2 DEF Untouched
<1>13. Adding'
  BY <1>1, <1>2, <1>4, <1>6, MovesAdding
<1> QED BY <1>8, <1>10, <1>11, <1>12, <1>13 DEF Once

\* A request is no call.
LEMMA StartOnce ==
    ASSUME Typed, Once, NEW t \in Threads, Start(t), \A f : NoAddLeft(f) => NoAddLeft(f)'
    PROVE  Once'
<1>1. Unique /\ Apart /\ Spent /\ Outside /\ Adding
  BY DEF Once
<1>2. PICK r \in todo[t] :
              /\ work[t] = << >>
              /\ r.op \in { "decorate", "null", "mark", "remove", "immediate", "add", "drop" }
              /\ work' = [work EXCEPT ![t] = << r >>]
              /\ UNCHANGED << pended, packetVars, called, raced >>
  BY StartDoes
<1>3. /\ work'[t] = << r >> /\ \A u \in Threads \ {t} : work'[u] = work[u]
  BY <1>2 DEF Typed, TypeOK
<1>4. \A i \in DOMAIN << r >> : ~IsCall(<< r >>[i])
  BY <1>2 DEF IsCall
<1>5. \A u \in Threads : \A i \in DOMAIN work'[u] : IsCall(work'[u][i]) => work'[u] = work[u]
  BY <1>3, <1>4
<1>6. Unique'
  <2> SUFFICES ASSUME NEW u \in Threads, NEW v \in Threads,
                      NEW i \in DOMAIN work'[u], NEW j \in DOMAIN work'[v],
                      IsCall(work'[u][i]), IsCall(work'[v][j]), work'[u][i].of = work'[v][j].of,
                      work'[u][i].of \notin raced
               PROVE  u = v /\ i = j
    BY <1>2 DEF Unique
  <2>1. work'[u] = work[u] /\ work'[v] = work[v]
    BY <1>5
  <2> QED BY <1>1, <2>1 DEF Unique
<1>7. \A f : ToCall(f)' => ToCall(f)
  <2> SUFFICES ASSUME NEW f, NEW u \in Threads, NEW i \in DOMAIN work'[u],
                      IsCall(work'[u][i]), work'[u][i].of = f
               PROVE  ToCall(f)
    BY DEF ToCall
  <2>1. work'[u] = work[u]
    BY <1>5
  <2> QED BY <2>1 DEF ToCall
<1>8. UNCHANGED << pended, recipients, remaining, called, raced >>
  BY <1>2 DEF packetVars
<1>9. Apart' /\ Spent'
  BY <1>1, <1>7, <1>8 DEF Apart, Spent
<1>10. Outside'
  BY <1>1, <1>7, <1>8 DEF Outside, Untouched
<1>11. Adding'
  <2>1. \A u \in Threads : \A w \in ToSet(work'[u]) : w.op = "check" => w \in ToSet(work[u])
    BY <1>2, <1>3 DEF ToSet
  <2> QED BY <1>1, <1>8, <2>1 DEF Adding
<1> QED BY <1>6, <1>9, <1>10, <1>11 DEF Once

\* The packet calls who needs no input, when nobody was called before.
LEMMA InitializeOnce ==
    ASSUME Typed, Unborn, Once, NEW t \in Threads, Initialize(t), Typed'
    PROVE  Once'
<1>1. /\ born = "no" /\ UNCHANGED << pended, called, raced >>
      /\ \/ UNCHANGED << recipients, remaining, work >>
         \/ \E q \in Seq(Filters) : Issues(t, q)
  BY InitializeDoes DEF history
<1>2. /\ \A u \in Threads : work[u] = << >>
      /\ pended = << >>
      /\ \A f \in Filters : called[f] = 0 /\ remaining[f] = 0
  BY <1>1 DEF Unborn
<1>3. \A u \in Threads : u # t \/ work' = work => work'[u] = << >>
  <2>1. work' = work \/ \E q : work' = [work EXCEPT ![t] = q]
    BY <1>1 DEF Issues
  <2> QED BY <1>2, <2>1 DEF Typed, TypeOK
<1>4. ToSet(pended') = {} /\ DOMAIN pended' = {}
  BY <1>1, <1>2 DEF ToSet
<1>5. Apart'
  BY <1>4 DEF Apart
<1>6. \A f \in Filters : called'[f] <= 1 /\ called'[f] = 0
  BY <1>1, <1>2
<1>7. CASE UNCHANGED << recipients, remaining, work >>
  <2>1. \A u \in Threads : DOMAIN work'[u] = {}
    BY <1>3, <1>7
  <2>2. Unique' /\ \A f : ~ToCall(f)'
    BY <2>1 DEF Unique, ToCall
  <2>3. \A f \in Filters : Untouched(f)'
    BY <1>2, <1>4, <1>6, <1>7, <2>2 DEF Untouched
  <2>4. Spent'
    BY <1>4, <1>6, <2>2 DEF Spent
  <2>5. Adding'
    BY <2>1 DEF Adding, ToSet
  <2> QED BY <1>5, <2>2, <2>3, <2>4, <2>5 DEF Once, Outside
<1>8. ASSUME NEW q \in Seq(Filters), Issues(t, q) PROVE Once'
  <2> DEFINE new == CallsOf(q)
  <2>1. /\ recipients' = setup.initial
        /\ IsInjective(q) /\ \A f \in ToSet(q) : f \in setup.initial /\ remaining'[f] = 0
        /\ \A f \in Filters \ setup.initial : remaining'[f] = 0
        /\ DOMAIN new = DOMAIN q
        /\ \A i \in DOMAIN q : new[i].op = "call" /\ new[i].of = q[i]
        /\ work' = [work EXCEPT ![t] = new]
    BY <1>8 DEF Issues
  <2> HIDE DEF new
  <2>2. work'[t] = new
    BY <2>1 DEF Typed, TypeOK
  <2>3. \A u \in Threads : \A i \in DOMAIN work'[u] :
           u = t /\ i \in DOMAIN q /\ work'[u][i].of = q[i] /\ work'[u][i].op = "call"
    BY <1>3, <2>1, <2>2
  <2>4. Unique'
    <3> SUFFICES ASSUME NEW u \in Threads, NEW v \in Threads,
                        NEW i \in DOMAIN work'[u], NEW j \in DOMAIN work'[v],
                        work'[u][i].of = work'[v][j].of
                 PROVE  u = v /\ i = j
      BY DEF Unique
    <3> QED BY <2>1, <2>3 DEF IsInjective
  <2>5. \A f : ToCall(f)' => f \in ToSet(q)
    <3> SUFFICES ASSUME NEW f, NEW u \in Threads, NEW i \in DOMAIN work'[u], work'[u][i].of = f
                 PROVE  f \in ToSet(q)
      BY DEF ToCall
    <3> QED BY <2>3 DEF ToSet
  <2>6. Spent'
    BY <1>4, <1>6, <2>1, <2>5 DEF Spent
  <2>7. ASSUME NEW f \in Filters \ recipients' PROVE Untouched(f)'
    <3>1. remaining'[f] = 0 /\ ~ToCall(f)'
      BY <2>1, <2>5, <2>7
    <3> QED BY <1>4, <1>6, <3>1 DEF Untouched
  <2>8. Adding'
    BY <2>3 DEF Adding, ToSet
  <2> QED BY <1>5, <2>4, <2>6, <2>7, <2>8 DEF Once, Outside
<1> QED BY <1>1, <1>7, <1>8

\* All that the calls are counted by.
Calls == Typed /\ Unborn /\ Additions /\ Once

\* Nobody is called initially ...
LEMMA InitCalls == Init /\ Separate => Calls
<1> SUFFICES ASSUME Init, Separate PROVE Calls
  OBVIOUS
<1>1. Typed /\ Unborn /\ Additions
  BY InitTransient, InitAdditions DEF Transient
<1>2. /\ \A t \in Threads : DOMAIN work[t] = {}
      /\ pended = << >> /\ ToSet(pended) = {}
      /\ \A f \in Filters : called[f] = 0 /\ remaining[f] = 0
  BY DEF Init, ToSet
<1>3. Unique /\ (\A f : ~ToCall(f)) /\ Adding /\ DOMAIN pended = {}
  BY <1>2 DEF Unique, ToCall, Adding, ToSet
<1>4. Spent
  BY <1>2, <1>3 DEF Spent
<1>5. Apart /\ Outside
  BY <1>2, <1>3 DEF Apart, Outside, Untouched
<1> QED BY <1>1, <1>3, <1>4, <1>5 DEF Calls, Once

\* ... and calls stay unique.
LEMMA NextCalls == Calls /\ [Next]_vars => Calls'
<1> SUFFICES ASSUME Calls, [Next]_vars PROVE Calls'
  OBVIOUS
<1>1. Typed /\ Unborn /\ Additions /\ Once
  BY DEF Calls
<1>2. Typed'
  BY <1>1, NextTyped
<1>3. CASE UNCHANGED vars
  <2>1. /\ UNCHANGED << setup, todo, work, pended, holder, recipients, unwired, remaining, state, born, called,
                     raced >>
    BY <1>3 DEF vars, packetVars, history
  <2>2. Unborn'
    BY <1>1, <2>1 DEF Unborn
  <2>3. Separate' /\ Single'
    BY <1>1, <2>1 DEF Additions, Separate, Single, Meets, Kind
  <2>4. \A f : NoAddLeft(f)' <=> NoAddLeft(f)
    BY <2>1 DEF NoAddLeft
  <2>5. AddsOK' /\ DropsOK'
    BY <1>1, <2>1, <2>4 DEF Additions, AddsOK, DropsOK, Dropped
  <2>6. \A f : ToCall(f)' <=> ToCall(f)
    BY <2>1 DEF ToCall
  <2>7. Unique'
    BY <1>1, <2>1 DEF Once, Unique
  <2>8. Apart' /\ Spent'
    BY <1>1, <2>1, <2>6 DEF Once, Apart, Spent
  <2>9. Outside'
    BY <1>1, <2>1, <2>4, <2>6 DEF Once, Outside, Untouched
  <2>10. Adding'
    BY <1>1, <2>1, <2>4 DEF Once, Adding
  <2> QED BY <1>2, <2>2, <2>3, <2>5, <2>7, <2>8, <2>9, <2>10 DEF Calls, Additions, Once
<1>4. ASSUME NEW t \in Threads, Initialize(t) \/ Start(t) \/ Step(t) PROVE Calls'
  <2>1. Unborn' /\ Additions' /\ \A f : NoAddLeft(f) => NoAddLeft(f)'
    BY <1>1, <1>4, NextUnborn, NextAdditions
  <2>2. Once'
    BY <1>1, <1>2, <1>4, <2>1, NextCases, OrdinaryOnce, PendOnce, CallOnce, RunPendedOnce,
       AddRecipientOnce, CheckOnce, StartOnce, InitializeOnce
  <2> QED BY <1>2, <2>1, <2>2 DEF Calls
<1> QED BY <1>3, <1>4 DEF Next

\* No filter is called twice on a packet, however many threads decorate it, mark,
\* remove, add and drop at the same time, but for who is satisfied by another thread
\* after AddRecipient has released the lock and before it looks at the counter;
\* provided that no filter takes two types of one DecorateImmediate (whose call can be
\* repeated when it ends by an exception).
THEOREM NobodyIsCalledTwice == Spec /\ Separate => []CalledAtMostOnce
<1>1. Calls => CalledAtMostOnce
  BY DEF Calls, Once, Spent, CalledAtMostOnce
<1> QED BY <1>1, InitCalls, NextCalls, PTL DEF Spec
=============================================================================
