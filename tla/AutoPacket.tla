------------------------------ MODULE AutoPacket ------------------------------
(***************************************************************************)
(* One packet and the filters subscribed to it: decorations arrive from    *)
(* several threads, each filter is called when its inputs are there, and   *)
(* what it outputs decorates the packet in turn (AutoPacket.h,             *)
(* AutoPacket.cpp, AutoPacketInternal.cpp, SatCounter.h, CallExtractor.h   *)
(* and DecorationDisposition.h under src/src/autowiring).                  *)
(*                                                                         *)
(* What a thread has still to do is a sequence of items, the next one      *)
(* first: the nested calls of Decorate, UpdateSatisfactionUnsafe and the   *)
(* filters push their own.  Filters run without m_lock, from "called" to   *)
(* "Finish".  A critical section of m_lock is one step, but where it       *)
(* touches what others read and write without the lock: the number of      *)
(* producers and the state of a type.  Then the thread keeps the lock.     *)
(***************************************************************************)
EXTENDS Integers, Sequences, FiniteSets, SequencesExt

CONSTANTS
    Threads,    \* threads that use the packet
    Worker,     \* the one that runs the deferred filters
    Keys,       \* types of decorations
    Filters,    \* AutoFilters
    Order,      \* all filters, by altitude and then by address
    Setups      \* filters' arguments and clients' programs to be checked

\* What a filter does with a type: const T&, shared_ptr<const T>, const T**, T&,
\* shared_ptr<T>&, T&&, shared_ptr<T>&&.
Inputs    == { "in", "shared", "multi", "mod", "modshared" }
Outputs   == { "out", "outshared", "mod", "modshared" }
Modifying == { "mod", "modshared" }
Kinds     == Inputs \cup Outputs \cup { "none" }

Do(o, x) == [op |-> o, of |-> x]

\* What clients ask of the packet.
Requests ==
    [op : { "decorate", "null", "mark", "remove" }, of : Keys]
        \cup [op : { "immediate" }, of : { ks \in UNION { [1 .. n -> Keys] : n \in 1 .. 2 } :
                                            IsInjective(ks) }]
        \cup [op : { "add", "drop" }, of : Filters]

\* A dropped filter has no outputs and was added once, by who drops it, or is there
\* from the beginning; one that is added late modifies nothing.
ASSUME SetupsAssumption ==
    /\ Worker \in Threads
    /\ IsFiniteSet(Keys)
    /\ Order \in Seq(Filters) /\ ToSet(Order) = Filters /\ Len(Order) = Cardinality(Filters)
    /\ \A s \in Setups :
         /\ s.args \in [Filters -> [Keys -> Kinds]]
         /\ {s.initial, s.deferred, s.throwing} \subseteq SUBSET Filters
         /\ s.todo \in [Threads -> SUBSET Requests]
         /\ \A t \in Threads : \A r \in s.todo[t] :
              /\ r.op = "drop" =>
                   /\ \A k \in Keys : s.args[r.of][k] \notin Outputs
                   /\ \A u \in Threads : Do("add", r.of) \in s.todo[u] =>
                        u = t /\ r.of \notin s.initial
              /\ r.op = "add"  => \A k \in Keys : s.args[r.of][k] \notin Modifying

VARIABLES
    setup,          \* the setup, which never changes
    todo,           \* per client: requests it has not made yet
    work,           \* per thread: what it has still to do
    pended,         \* deferred filters in the dispatch queue of their object
    holder,         \* the thread that keeps m_lock from step to step, in a set
    recipients,     \* filters with a SatCounter in the packet
    unwired,        \* per filter: types at which AddSatCounterUnsafe did not arrive
    state,          \* m_state of each disposition
    decorations,    \* number of m_decorations
    immediate,      \* m_pImmediate is set
    nProducersRun,  \* m_nProducersRun
    remaining,      \* SatCounter::remaining
    born,           \* "no", "issued" or "refused"
    called,         \* history: number of calls of each filter, 2 for more
    threw,          \* history: threads an exception went through
    missing,        \* history: filters called without an input
    taken,          \* history: types that were removed or marked by clients
    raced,          \* history: filters whose counter fell to zero as they were added
    lost,           \* history: types that two threads counted a producer of at once
    stranded        \* history: types a refused DecorateImmediate left behind

packetVars == << holder, recipients, unwired, state, decorations, immediate, nProducersRun, remaining >>
history    == << called, threw, missing, taken, raced, lost, stranded >>
vars == << setup, todo, work, pended, packetVars, born, history >>

Init ==
    /\ setup \in Setups
    /\ todo = setup.todo
    /\ work = [t \in Threads |-> << >>]
    /\ pended = << >>
    /\ holder = {}
    /\ recipients = {}
    /\ unwired = [f \in Filters |-> {}]
    /\ state = [k \in Keys |-> "Unsatisfied"]
    /\ decorations = [k \in Keys |-> 0]
    /\ immediate = [k \in Keys |-> FALSE]
    /\ nProducersRun = [k \in Keys |-> 0]
    /\ remaining = [f \in Filters |-> 0]
    /\ born = "no"
    /\ called = [f \in Filters |-> 0]
    /\ threw = {} /\ missing = {} /\ taken = {} /\ raced = {} /\ lost = {} /\ stranded = {}

\* What a thread can have to do.
Items ==
    [op : { "decorate", "null", "mark", "remove", "inc", "update" }, of : Keys]
        \cup [op : { "call", "enter", "run", "zero", "add", "drop" }, of : Filters]
        \cup [op : { "immediate", "pulse", "atexit" }, of : Seq(Keys)]
        \cup [op : { "resume" }, of : Keys, rest : Seq(Filters), unsat : Seq(Keys)]
        \cup [op : { "count", "look", "compare" }, of : Keys, n : Nat]
        \cup [op : { "settle" }, of : Keys, to : { "PartlySatisfied", "Complete" }]
        \cup [op : { "check" }, of : Filters, n : Nat]

TypeOK ==
    /\ setup \in Setups
    /\ todo \in [Threads -> SUBSET Requests]
    /\ \A t \in Threads : todo[t] \subseteq setup.todo[t]
    /\ work \in [Threads -> Seq(Items)]
    /\ pended \in Seq(setup.deferred)
    /\ holder \subseteq Threads /\ recipients \subseteq Filters
    /\ unwired \in [Filters -> SUBSET Keys]
    /\ state \in [Keys -> { "Unsatisfied", "PartlySatisfied", "Complete" }]
    /\ {decorations, nProducersRun} \subseteq [Keys -> Nat]
    /\ immediate \in [Keys -> BOOLEAN]
    /\ remaining \in [Filters -> Nat]
    /\ born \in { "no", "issued", "refused" }
    /\ called \in [Filters -> 0 .. 2]
    /\ threw \subseteq Threads /\ {missing, raced} \subseteq SUBSET Filters
    /\ taken \subseteq Keys /\ lost \subseteq Keys /\ stranded \subseteq Keys

-----------------------------------------------------------------------------
(* The graph *)

Kind(f, k) == setup.args[f][k]

\* The elements of S in the sequence q.
Among(q, S) ==
    LET upTo[n \in 0 .. Len(q)] ==
            IF n = 0 THEN << >>
            ELSE IF q[n] \in S THEN Append(upTo[n - 1], q[n]) ELSE upTo[n - 1]
    IN  upTo[Len(q)]

OutputsOf(f) == { k \in Keys : Kind(f, k) \in Outputs }

\* m_requiredCount
Required(f) == Cardinality({ k \in Keys : Kind(f, k) \in Inputs })

\* m_modifiers and m_subscribers of a disposition, by altitude; m_publishers.
Wired(k)       == { f \in recipients : k \notin unwired[f] }
Modifiers(k)   == Among(Order, { f \in Wired(k) : Kind(f, k) \in Modifying })
Subscribers(k) == Among(Order, { f \in Wired(k) : Kind(f, k) \in Inputs \ Modifying })
Publishers(k)  == { f \in Wired(k) : Kind(f, k) \in Outputs \ Modifying }

\* AddSatCounterUnsafe throws at f's argument k, as k has or would have several
\* publishers and not only const T** inputs.
Ambiguous(f, k) ==
    \/ Kind(f, k) \in Inputs \ { "multi" } /\ Cardinality(Publishers(k)) > 1
    \/ /\ Kind(f, k) \in Outputs \ Modifying /\ Publishers(k) # {}
       /\ \E g \in Wired(k) : Kind(g, k) \in Inputs \ { "multi" }

\* DetectCycle: an output of f, a modified input too, is an input of g.
Feeds(f, g) ==
    \E k \in Keys \ unwired[g] : Kind(f, k) \in Outputs /\ Kind(g, k) \in Inputs \ Modifying
Cyclic(f, R) == \E S \in SUBSET R : f \in S /\ \A g \in S : \E h \in S : Feeds(g, h)

\* The factory's filters R can be wired, in whatever order.
Accepted(R) ==
    /\ \A k \in Keys :
          \/ Cardinality({ f \in R : Kind(f, k) \in Outputs \ Modifying }) <= 1
          \/ \A f \in R : Kind(f, k) \in Inputs => Kind(f, k) = "multi"
    /\ \A f \in R : ~Cyclic(f, R)

-----------------------------------------------------------------------------
(* The work of a thread *)

Current(t)     == Head(work[t])
Doing(t, o)  == work[t] # << >> /\ Current(t).op = o
\* The item is done; s is to be done before the rest.
Then(t, s)   == work' = [work EXCEPT ![t] = s \o Tail(@)]
CallsOf(q)   == [i \in 1 .. Len(q) |-> Do("call", q[i])]
UnsatOf(q)   == [i \in 1 .. Len(q) |-> Do("inc", q[i])]

\* m_lock is free, or t has it.
Free(t) == holder \subseteq {t}

\* An exception unwinds to the client, past the destructor in DecorateImmediate.
\* (One that is thrown below that destructor would end the program; here it goes on.)
Throw(t) ==
    /\ work' = [work EXCEPT ![t] = Among(@, { w \in ToSet(@) : w.op = "atexit" })]
    /\ threw' = threw \cup {t}

-----------------------------------------------------------------------------
(* UpdateSatisfactionUnsafe *)

\* Mutant: who can do without a decoration is barred all the same.
BarredAlways(f, k, d) == d = 0

\* Of d decorations of k there is none, and f cannot be called without one.
Barred(f, k, d) == d = 0 /\ Kind(f, k) \in { "in", "mod" }


\* The filters of q that k completes: SatCounter::Decrement returns true.
Satisfied(q, k, d) ==
    Among(q, { f \in Filters : remaining[f] = 1 /\ ~Barred(f, k, d) })

\* Their counters afterwards.
Counted(q, k, d) ==
    [f \in Filters |-> IF f \notin ToSet(q) \/ remaining[f] = 0 THEN remaining[f]
                       ELSE IF Barred(f, k, d) THEN 0 ELSE remaining[f] - 1]

\* Mutant: outputs of a filter that cannot run any more are forgotten.
MarkOutputsUnsatNot(q, k, d) == << >>

\* markOutputsUnsat: the outputs of filters that are never called.
MarkOutputsUnsat(q, k, d) ==
    LET never == Among(q, { f \in Filters : remaining[f] > 0 /\ Barred(f, k, d) })
    IN  FlattenSeq([i \in DOMAIN never |-> SetToSeq(OutputsOf(never[i]))])

\* Positions in ms of the modifiers that take a shared pointer and that k completes.
Due(ms, k) == { i \in DOMAIN ms : Kind(ms[i], k) = "modshared" /\ remaining[ms[i]] = 1 }

\* The critical section that t is in goes on with the modifiers ms of k, which has
\* d decorations and is Complete.  The first of them that is due is called at once,
\* with those queued before it, and the rest waits; if none is, the subscribers
\* follow.  The lock is released, and calls and unsatisfiable outputs follow.
Update(t, k, d, ms, unsat) ==
    \E due \in { Due(ms, k) } :
        \E now \in { IF due = {} THEN ms \o Subscribers(k) ELSE SubSeq(ms, 1, Min(due)) } :
            LET never == unsat \o MarkOutputsUnsat(now, k, d)
            IN  /\ remaining' = Counted(now, k, d)
                /\ Then(t, CallsOf(Satisfied(now, k, d))
                             \o IF due = {} THEN UnsatOf(never)
                                ELSE << [op |-> "resume", of |-> k, unsat |-> never,
                                         rest |-> SubSeq(ms, Min(due) + 1, Len(ms))] >>)

\* UpdateSatisfactionUnsafe, with the lock of the caller or one of its own.
UpdateSatisfaction(t) ==
    /\ Doing(t, "update") /\ Free(t)
    /\ LET k == Current(t).of
       IN  \/ state[k] # "Complete" /\ Then(t, << >>) /\ UNCHANGED remaining
           \/ state[k] = "Complete" /\ Update(t, k, decorations[k], Modifiers(k), << >>)
    /\ holder' = holder \ {t}
    /\ UNCHANGED << setup, todo, pended, recipients, unwired, state, decorations, immediate,
                    nProducersRun, born, history >>

\* What the modifiers have left of k.
Left(k) == decorations[k]

\* ... after the shared modifier has returned.
Resume(t) ==
    /\ Doing(t, "resume") /\ Free(t)
    /\ LET w == Current(t) IN Update(t, w.of, Left(w.of), w.rest, w.unsat)
    /\ UNCHANGED << setup, todo, pended, holder, recipients, unwired, state, decorations,
                    immediate, nProducersRun, born, history >>

-----------------------------------------------------------------------------
(* Issuing, decorating, marking, removing *)

\* NewPacket and Initialize: filters without inputs are called.
Initialize(t) ==
    /\ born = "no" /\ t # Worker
    /\ \/ /\ Accepted(setup.initial)
          /\ born' = "issued"
          /\ recipients' = setup.initial
          /\ remaining' = [f \in Filters |-> IF f \in setup.initial THEN Required(f) ELSE 0]
          /\ work' = [work EXCEPT ![t] = CallsOf(Among(Order,
                         { f \in setup.initial : Required(f) = 0 }))]
       \/ /\ ~Accepted(setup.initial)
          /\ born' = "refused"
          /\ UNCHANGED << recipients, remaining, work >>
    /\ UNCHANGED << setup, todo, pended, holder, unwired, state, decorations, immediate,
                    nProducersRun, history >>

\* A client begins an operation on the packet.  It drops filters that were added.
Start(t) ==
    /\ born = "issued" /\ work[t] = << >>
    /\ \E r \in todo[t] :
         /\ r.op = "drop" => r.of \in recipients
         /\ todo' = [todo EXCEPT ![t] = @ \ {r}]
         /\ work' = [work EXCEPT ![t] = << r >>]
         /\ taken' = IF r.op \in {"mark", "remove", "null"} THEN taken \cup {r.of}
                     ELSE IF r.op = "immediate" THEN taken \cup ToSet(r.of) ELSE taken
    /\ UNCHANGED << setup, pended, packetVars, born, called, threw, missing, raced, lost,
                    stranded >>

\* DecorateNoPriors, up to IncProducerCount.
Decorate(t) ==
    /\ Doing(t, "decorate") \/ Doing(t, "null")
    /\ Free(t)
    /\ LET k == Current(t).of
       IN  \/ /\ state[k] = "Complete"
              /\ Throw(t)
              /\ UNCHANGED << holder, decorations >>
           \/ /\ state[k] # "Complete"
              /\ decorations' = IF Doing(t, "null") THEN decorations
                                ELSE [decorations EXCEPT ![k] = @ + 1]
              /\ holder' = {t}
              /\ Then(t, << Do("inc", k) >>)
              /\ UNCHANGED threw
    /\ UNCHANGED << setup, todo, pended, recipients, unwired, state, immediate, nProducersRun,
                    remaining, born, called, missing, taken, raced, lost, stranded >>

\* MarkUnsatisfiable, up to UpdateSatisfactionUnsafe.
Mark(t) ==
    /\ Doing(t, "mark") /\ Free(t)
    /\ LET k == Current(t).of
       IN  /\ state' = [state EXCEPT ![k] = "Complete"]
           /\ decorations' = [decorations EXCEPT ![k] = 0]
           /\ immediate' = [immediate EXCEPT ![k] = FALSE]
           /\ Then(t, << Do("update", k) >>)
    /\ holder' = {t}
    /\ UNCHANGED << setup, todo, pended, recipients, unwired, nProducersRun, remaining, born,
                    history >>

\* RemoveDecoration
RemoveDecoration(t) ==
    /\ Doing(t, "remove") /\ Free(t)
    /\ decorations' = [decorations EXCEPT ![Current(t).of] = 0]
    /\ Then(t, << >>)
    /\ UNCHANGED << setup, todo, pended, holder, recipients, unwired, state, immediate,
                    nProducersRun, remaining, born, history >>

-----------------------------------------------------------------------------
(* IncProducerCount.  Decorate calls it with m_lock, but the end of
   UpdateSatisfactionUnsafe, for producers that cannot run, without: every read and
   every write is a step.  When it returns TRUE, UpdateSatisfactionUnsafe follows;
   otherwise who has the lock releases it. *)

Inc(t) ==
    /\ Doing(t, "inc")
    /\ LET k == Current(t).of
       IN Then(t, << [op |-> "count", of |-> k, n |-> nProducersRun[k] + 1] >>)
    /\ UNCHANGED << setup, todo, pended, packetVars, born, history >>

Count(t) ==
    /\ Doing(t, "count")
    /\ LET k == Current(t).of
           n == Current(t).n
       IN  /\ nProducersRun' = [nProducersRun EXCEPT ![k] = n]
           /\ lost' = IF n = nProducersRun[k] + 1 THEN lost ELSE lost \cup {k}
           /\ Then(t, << [op |-> "look", of |-> k, n |-> n] >>)
    /\ UNCHANGED << setup, todo, pended, holder, recipients, unwired, state, decorations,
                    immediate, remaining, born, called, threw, missing, taken, raced, stranded >>

Look(t) ==
    /\ Doing(t, "look")
    /\ LET k == Current(t).of
       IN  \/ /\ state[k] = "Complete"
              /\ Then(t, << >>)
              /\ holder' = holder \ {t}
           \/ /\ state[k] # "Complete"
              /\ Then(t, << [op |-> "compare", of |-> k, n |-> Current(t).n] >>)
              /\ UNCHANGED holder
    /\ UNCHANGED << setup, todo, pended, recipients, unwired, state, decorations, immediate,
                    nProducersRun, remaining, born, history >>

\* n producers of k have run.
Published(k, n) == n >= Cardinality(Publishers(k))

Compare(t) ==
    /\ Doing(t, "compare")
    /\ LET k == Current(t).of
           s == IF Published(k, Current(t).n) THEN "Complete" ELSE "PartlySatisfied"
       IN Then(t, << [op |-> "settle", of |-> k, to |-> s] >>)
    /\ UNCHANGED << setup, todo, pended, packetVars, born, history >>

Settle(t) ==
    /\ Doing(t, "settle")
    /\ LET k == Current(t).of
       IN  /\ state' = [state EXCEPT ![k] = Current(t).to]
           /\ lost' = IF state[k] = "Complete" THEN lost \cup {k} ELSE lost
           /\ \/ /\ Current(t).to = "Complete"
                 /\ Then(t, << Do("update", k) >>)
                 /\ UNCHANGED holder
              \/ /\ Current(t).to = "PartlySatisfied"
                 /\ Then(t, << >>)
                 /\ holder' = holder \ {t}
    /\ UNCHANGED << setup, todo, pended, recipients, unwired, decorations, immediate,
                    nProducersRun, remaining, born, called, threw, missing, taken, raced,
                    stranded >>

-----------------------------------------------------------------------------
(* Calling a filter *)

\* Get: f's argument k can be had.
Available(f, k) ==
    /\ Kind(f, k) \in { "in", "mod" } =>
          /\ state[k] = "Complete"
          /\ decorations[k] = 1 \/ (decorations[k] = 0 /\ immediate[k])
    /\ Kind(f, k) = "shared" => state[k] # "Complete" \/ decorations[k] <= 1

\* GetRvalueShared ...
Retrievable(f, k) ==
    Kind(f, k) = "modshared" => state[k] = "Complete" /\ decorations[k] <= 1

\* A deferred filter is pended to its object.
Pend(t) ==
    /\ Doing(t, "call") /\ Current(t).of \in setup.deferred
    /\ pended' = Append(pended, Current(t).of)
    /\ Then(t, << >>)
    /\ UNCHANGED << setup, todo, packetVars, born, history >>

\* The arguments are extracted, or one of them cannot be had.  GetRvalueShared makes
\* up a null decoration where there is none.
Call(t) ==
    /\ Doing(t, "enter") \/ (Doing(t, "call") /\ Current(t).of \notin setup.deferred)
    /\ Free(t)
    /\ LET f == Current(t).of
       IN  \/ /\ \A k \in Keys : Available(f, k) /\ Retrievable(f, k)
              /\ called' = [called EXCEPT ![f] = IF @ = 0 THEN 1 ELSE 2]
              /\ decorations' = [k \in Keys |->
                     IF Kind(f, k) = "modshared" /\ decorations[k] = 0
                       THEN 1 ELSE decorations[k]]
              /\ Then(t, << Do("run", f) >>)
              /\ UNCHANGED << threw, missing >>
           \/ /\ ~ \A k \in Keys : Available(f, k) /\ Retrievable(f, k)
              /\ missing' = missing \cup {f}
              /\ Throw(t)
              /\ UNCHANGED << decorations, called >>
    /\ UNCHANGED << setup, todo, pended, holder, recipients, unwired, state, immediate,
                    nProducersRun, remaining, born, taken, raced, lost, stranded >>

\* The filter throws.
Fail(t) ==
    /\ Doing(t, "run") /\ Current(t).of \in setup.throwing
    /\ Throw(t)
    /\ UNCHANGED << setup, todo, pended, packetVars, born, called, missing, taken, raced, lost,
                    stranded >>

\* The filter returns and its outputs are committed, in whatever order the compiler
\* chose.  A shared output may be null, a shared modifier may have taken the
\* decoration away.
Finish(t) ==
    /\ Doing(t, "run")
    /\ LET f    == Current(t).of
           outs == { k \in Keys : Kind(f, k) \in { "out", "outshared" } }
           mods == { k \in Keys : Kind(f, k) = "modshared" }
       IN  \E null \in SUBSET { k \in outs : Kind(f, k) = "outshared" }, gone \in SUBSET mods :
             \E q \in SetToSeqs({ Do("decorate", k) : k \in outs \ null }
                                 \cup { Do("null", k) : k \in null }
                                 \cup { Do("remove", k) : k \in gone }) :
               Then(t, q)
    /\ UNCHANGED << setup, todo, pended, packetVars, born, history >>

\* The dispatch queue of a deferred filter's object gets to it.
RunPended(t) ==
    /\ t = Worker /\ work[t] = << >> /\ pended # << >>
    /\ pended' = Tail(pended)
    /\ work' = [work EXCEPT ![t] = << Do("enter", Head(pended)) >>]
    /\ UNCHANGED << setup, todo, packetVars, born, history >>

-----------------------------------------------------------------------------
(* DecorateImmediate *)

\* The inputs of f among ks that a pulse can satisfy.
Hits(f, ks) ==
    Cardinality({ k \in ToSet(ks) \ unwired[f] : Kind(f, k) \in { "in", "multi" } })

\* Mutant: whether the filter was called already is not looked at.
PulsedAgain(ks) ==
    Among(Order, { f \in recipients \ setup.deferred : Hits(f, ks) > 0 })

\* Types are counted from the last one on; where f is satisfied.
SatisfiedAt(f, ks) ==
    Max({ j \in DOMAIN ks : Hits(f, SubSeq(ks, j, Len(ks))) >= remaining[f] })

\* Who is satisfied by the pulse.
Pulsed(ks) ==
    LET sat == { f \in recipients \ setup.deferred : remaining[f] \in 1 .. Hits(f, ks) }
    IN  FlattenSeq([i \in 1 .. Len(ks) |->
            Among(Order, { f \in sat : SatisfiedAt(f, ks) = Len(ks) + 1 - i })])

\* One pass of PulseSatisfactionUnsafe.  Decrements that do not reach zero are taken
\* back, those of the satisfied filters too, whose counters are set to zero after
\* the call; there is another pass if anybody was called.
Pulse(ks) ==
    LET q == Pulsed(ks)
    IN  remaining' = [f \in Filters |->
                         IF f \in ToSet(q) THEN remaining[f] - 1 ELSE remaining[f]]

PulseItems(ks) ==
    LET q == Pulsed(ks)
    IN  [i \in 1 .. 2 * Len(q) |-> Do(IF i % 2 = 1 THEN "call" ELSE "zero", q[(i + 1) \div 2])]
          \o IF q = << >> THEN << >> ELSE << Do("pulse", ks) >>

\* Types of ks that are set before one is found that is decorated already.
SetBefore(ks) ==
    { ks[i] : i \in { j \in DOMAIN ks : \A h \in 1 .. j : state[ks[h]] = "Unsatisfied" } }

\* DecorateImmediateUnsafe for all arguments, then the first pass.
Immediate(t) ==
    /\ Doing(t, "immediate") /\ Free(t)
    /\ LET ks  == Current(t).of
           set == SetBefore(ks)
       IN  /\ state' = [k \in Keys |-> IF k \in set THEN "Complete" ELSE state[k]]
           /\ immediate' = [k \in Keys |-> k \in set \/ immediate[k]]
           /\ \/ /\ set = ToSet(ks)
                 /\ Pulse(ks)
                 /\ Then(t, PulseItems(ks) \o << Do("atexit", ks) >>)
                 /\ UNCHANGED threw
              \/ set # ToSet(ks) /\ Throw(t) /\ UNCHANGED remaining
           /\ stranded' = IF set = ToSet(ks) THEN stranded ELSE stranded \cup set
    /\ UNCHANGED << setup, todo, pended, holder, recipients, unwired, decorations, nProducersRun,
                    born, called, missing, taken, raced, lost >>

Pass(t) ==
    /\ Doing(t, "pulse") /\ Free(t)
    /\ Pulse(Current(t).of)
    /\ Then(t, PulseItems(Current(t).of))
    /\ UNCHANGED << setup, todo, pended, holder, recipients, unwired, state, decorations,
                    immediate, nProducersRun, born, history >>

Zero(t) ==
    /\ Doing(t, "zero")
    /\ remaining' = [remaining EXCEPT ![Current(t).of] = 0]
    /\ Then(t, << >>)
    /\ UNCHANGED << setup, todo, pended, holder, recipients, unwired, state, decorations,
                    immediate, nProducersRun, born, history >>

\* Mutant: the pointers stay when the call is over.
InvalidatedNot(ks) == immediate

Invalidated(ks) == [k \in Keys |-> k \notin ToSet(ks) /\ immediate[k]]

\* The destructor at the end of DecorateImmediate, reached by exceptions too.  The
\* types are marked in whatever order the compiler evaluates arguments.
AtExit(t) ==
    /\ Doing(t, "atexit")
    /\ LET ks == Current(t).of
       IN  /\ immediate' = Invalidated(ks)
           /\ state' = [k \in Keys |-> IF k \in ToSet(ks) THEN "Complete" ELSE state[k]]
           /\ \E q \in SetToSeqs({ Do("mark", k) : k \in ToSet(ks) }) : Then(t, q)
    /\ UNCHANGED << setup, todo, pended, holder, recipients, unwired, decorations, nProducersRun,
                    remaining, born, history >>

-----------------------------------------------------------------------------
(* Recipients *)

\* Arguments of f that AddSatCounterUnsafe gets to: all, or some before the first that
\* it refuses.
Reached(f) ==
    IF \A k \in Keys : ~Ambiguous(f, k) THEN { Keys }
    ELSE SUBSET { k \in Keys : Kind(f, k) # "none" /\ ~Ambiguous(f, k) }

\* AddRecipient, up to the end of the critical section.  Types that are decorated
\* already count at once.  A filter that is refused stays where it is then.
AddRecipient(t) ==
    /\ Doing(t, "add") /\ Free(t)
    /\ LET f    == Current(t).of
           have == { k \in Keys : /\ Kind(f, k) \in Inputs
                                  /\ state[k] = "Complete"
                                  /\ decorations[k] > 0 \/ Kind(f, k) = "shared" }
       IN  \/ /\ f \in recipients
              /\ Then(t, << >>)
              /\ UNCHANGED << recipients, unwired, remaining, threw >>
           \/ /\ f \notin recipients
              /\ recipients' = recipients \cup {f}
              /\ \E W \in Reached(f) :
                   LET rem == Required(f) - Cardinality(have \cap W)
                       ok  == W = Keys /\ ~Cyclic(f, recipients \cup {f})
                   IN  /\ unwired' = [unwired EXCEPT ![f] = Keys \ W]
                       /\ remaining' = [remaining EXCEPT ![f] = rem]
                       /\ \/ /\ ok
                             /\ Then(t, << [op |-> "check", of |-> f, n |-> rem] >>)
                             /\ UNCHANGED threw
                          \/ ~ok /\ Throw(t)
    /\ UNCHANGED << setup, todo, pended, holder, state, decorations, immediate, nProducersRun,
                    born, called, missing, taken, raced, lost, stranded >>

\* ... and what follows without the lock.
Check(t) ==
    /\ Doing(t, "check")
    /\ LET f == Current(t).of
       IN  /\ Then(t, IF remaining[f] = 0 THEN << Do("call", f) >> ELSE << >>)
           /\ raced' = IF remaining[f] = 0 /\ Current(t).n > 0 THEN raced \cup {f} ELSE raced
    /\ UNCHANGED << setup, todo, pended, packetVars, born, called, threw, missing, taken, lost,
                    stranded >>

\* RemoveRecipient
RemoveRecipient(t) ==
    /\ Doing(t, "drop") /\ Free(t)
    /\ recipients' = recipients \ {Current(t).of}
    /\ Then(t, << >>)
    /\ UNCHANGED << setup, todo, pended, holder, unwired, state, decorations, immediate,
                    nProducersRun, remaining, born, history >>

-----------------------------------------------------------------------------
Step(t) ==
    \/ UpdateSatisfaction(t) \/ Resume(t) \/ Decorate(t) \/ Mark(t) \/ RemoveDecoration(t)
    \/ Inc(t) \/ Count(t) \/ Look(t) \/ Compare(t) \/ Settle(t)
    \/ Pend(t) \/ Call(t) \/ Finish(t) \/ Fail(t) \/ RunPended(t)
    \/ Immediate(t) \/ Pass(t) \/ Zero(t) \/ AtExit(t)
    \/ AddRecipient(t) \/ Check(t) \/ RemoveRecipient(t)

Next == \E t \in Threads : Initialize(t) \/ Start(t) \/ Step(t)

Spec == Init /\ [][Next]_vars

(* Fairness.  A thread that is inside an operation of the packet, or has deferred
   filters to run, goes on; filters return. *)
FairSpec == Spec /\ \A t \in Threads : WF_vars(Step(t))

-----------------------------------------------------------------------------
(* Safety *)

\* "Each filter gets called at most once for a packet" (devguide/AutoFilters.md), whoever
\* satisfies its last input and however its inputs arrive, unless that is while
\* AddRecipient is between its critical section and its look at the counter.
CalledAtMostOnce == \A f \in Filters \ raced : called[f] <= 1


\* Nobody is inside the packet, and nobody ever left it by an exception.
AtRest ==
    /\ born = "issued" /\ threw = {} /\ pended = << >>
    /\ \A t \in Threads : work[t] = << >>

\* When everybody has left, no filter is still waiting although all of its inputs
\* are there.
EveryReadyFilterRan ==
    AtRest => \A f \in recipients :
        (\A k \in Keys : Kind(f, k) \in Inputs =>
             /\ state[k] = "Complete"
             /\ Kind(f, k) \in { "in", "mod" } => decorations[k] = 1)
        => called[f] >= 1

\* "All publishers on this decoration have been run or cannot be executed": when
\* everybody has left, such a decoration is Complete, and nobody waits for it; unless two
\* threads were in IncProducerCount at once and one of them overwrote the count or the
\* state that the other one had written.
PublicationCompletes ==
    AtRest => \A k \in Keys \ lost :
        Publishers(k) # {} /\ (\A p \in Publishers(k) : remaining[p] = 0)
            => state[k] = "Complete"

\* "Each decoration is only valid for AutoFilters which are valid during this call":
\* the pointer to the caller's object is gone when DecorateImmediate is left, by an
\* exception of a filter too, but not when it was refused for a later argument.
ImmediateIsTransient ==
    \A k \in Keys : immediate[k] =>
        \/ \E t \in Threads : \E w \in ToSet(work[t]) : w.op = "atexit" /\ k \in ToSet(w.of)
        \/ k \in stranded

(* Liveness *)

\* The cascade of calls ends: who enters the packet gets out of it.
EverybodyReturns == \A t \in Threads : work[t] # << >> ~> work[t] = << >>
=============================================================================
