---------------------------- MODULE MCAutoPacket ----------------------------
(* Instances of AutoPacket for TLC. *)
EXTENDS AutoPacket

CONSTANTS t1, t2, worker, f1, f2, f3, f4, A, B, C

FilterOrder == << f1, f2, f3, f4 >>

\* A filter's arguments, from the kinds it has of A, B and C.
Takes(a, b, c) == [k \in Keys |-> IF k = A THEN a ELSE IF k = B THEN b ELSE c]
No == "none"
Unused == Takes(No, No, No)

Setup(a1, a2, a3, a4, initial, deferred, p, q) ==
    [args |-> (f1 :> a1 @@ f2 :> a2 @@ f3 :> a3 @@ f4 :> a4),
     initial |-> initial, deferred |-> deferred, throwing |-> {},
     todo |-> (t1 :> p @@ t2 :> q @@ worker :> {})]

\* A diamond with an optional side that may come out empty, modified on the way.
Diamond ==
    Setup(Takes(No, "mod", No), Takes("in", "out", No), Takes("in", No, "outshared"),
          Takes(No, "in", "shared"), {f1, f2, f3, f4}, {f3},
          { Do("decorate", A) }, { Do("mark", C), Do("remove", B) })

\* Two publishers, one of which cannot run; D are the deferred filters.
MultiWith(D) ==
    Setup(Takes("in", No, "out"), Takes(No, "in", "out"), Takes(No, No, "multi"),
          Takes("shared", No, "multi"), {f1, f2, f3, f4}, D,
          { Do("decorate", A), Do("null", B) }, {})

\* Two publishers that two clients make unable to run.
Unable ==
    Setup(Takes("in", No, "out"), Takes(No, "in", "out"), Takes(No, No, "multi"),
          Unused, {f1, f2, f3}, {}, { Do("null", A) }, { Do("null", B) })

\* S, where the filters F throw.
Throwing(F, S) == [S EXCEPT !.throwing = F]

\* A decoration for the time of a call, while another one arrives.
Pulses ==
    Throwing({f1, f2}, Setup(Takes("in", No, "out"), Takes("in", "in", No), Takes("shared", No, No),
          Takes("in", No, "in"), {f1, f2, f3, f4}, {},
          { Do("immediate", << A >>) }, { Do("decorate", B) }))

\* Two decorations for the time of a call, one of which may be there already.
Two ==
    Setup(Takes("in", "in", No), Takes("in", No, "out"), Takes(No, "in", "in"), Unused,
          {f1, f2, f3}, {}, { Do("immediate", << A, B >>) }, { Do("decorate", B) })

\* Modifiers in turn, one of which may take the decoration away, while clients with
\* the programs p and q add another filter.
ModifiedWith(p, q) ==
    Setup(Takes("modshared", No, No), Takes("mod", No, No), Takes("in", "out", No),
          Takes("in", "shared", No), {f1, f2, f3}, {}, { Do("decorate", A) } \cup p, q)

\* Every graph of three filters whose arguments are one of these rows, filters that
\* produce C being deferred or not.
Rows ==
    { Takes("in", "in", No), Takes("shared", "in", No), Takes("in", "out", No),
      Takes("in", No, "outshared"), Takes(No, "multi", "shared"), Takes("mod", No, No),
      Takes(No, "modshared", No) }

Graph3(p, q, D) ==
    { Setup(a1, a2, a3, Unused, {f1, f2, f3}, D, p, q) : a1 \in Rows, a2 \in Rows, a3 \in Rows }

\* A filter that is refused while the inputs that it was wired to arrive: its C has
\* two publishers, or would have with it.
Refused(c) ==
    Setup(Takes("in", No, "out"), Takes(No, "in", c), Takes(No, No, "multi"),
          Takes("in", No, IF c = "out" THEN "in" ELSE "out"), {f1, f2, f3}, {},
          { Do("decorate", A), Do("decorate", B) }, { Do("add", f4) })

\* ... and one that makes a cycle.
Cycle ==
    Setup(Takes("in", "out", No), Unused, Unused, Takes("out", "in", No), {f1}, {},
          { Do("decorate", A) }, { Do("add", f4) })

AllSetups ==
    { Diamond, MultiWith({}), MultiWith({f1}), Unable, Pulses, Two, Refused("out"),
      Refused("in"), Cycle, ModifiedWith({}, { Do("add", f4), Do("drop", f4) }),
      ModifiedWith({ Do("add", f4) }, { Do("add", f4) }) }
        \cup Graph3({ Do("decorate", A) }, { Do("decorate", B) }, {})
        \cup Graph3({ Do("decorate", A) }, { Do("immediate", << B >>) }, {})
        \cup Graph3({ Do("null", A) }, { Do("decorate", B) }, {})
        \cup { s \in Graph3({ Do("decorate", A) }, {}, {f2}) : s.args[f2][C] = "outshared" }
=============================================================================
