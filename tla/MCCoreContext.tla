---------------------------- MODULE MCCoreContext ----------------------------
(* Instances of CoreContext for TLC: the global context top, mid below it, low below mid. *)
EXTENDS CoreContext, TLC

CONSTANTS t1, t2, t3, top, mid, low, hTop, hMid, hLow, r1, r2

Line   == top :> None @@ mid :> top @@ low :> mid
HoldOf == top :> hTop @@ mid :> hMid @@ low :> hLow
Places == hTop :> top @@ hMid :> mid @@ hLow :> low @@ r1 :> mid @@ r2 :> low
AtTop  == hTop :> top @@ hMid :> mid @@ hLow :> low @@ r1 :> top @@ r2 :> top

\* Which contexts there are to begin with: top, also mid, all three.
Alone    == top :> << >> @@ mid :> << >> @@ low :> << >>
Two      == top :> << mid >> @@ mid :> << >> @@ low :> << >>
Three    == top :> << mid >> @@ mid :> << low >> @@ low :> << >>

Setup(made, e, x, y, z) ==
    [made |-> made, ends |-> e, todo |-> t1 :> x @@ t2 :> y @@ t3 :> z]

\* A context is initiated, its parent too, and one of them shut down, while a
\* runnable is added; a child is created meanwhile; three levels.
TreeSetups ==
    { Setup(Two, {}, { Do("initiate", top), Do("add", r1) }, { Do("initiate", mid) }, { Do("shutdown", mid) }),
      Setup(Two, {}, { Do("initiate", top), Do("shutdown", top) }, { Do("initiate", mid), Do("add", r1) },
            { Do("quiescent", mid) }),
      Setup(Two, {r1}, { Do("initiate", top), Do("wait", top) }, { Do("initiate", mid), Do("shutdown", top) },
            { Do("add", r1) }),
      Setup(Two, {}, { Do("create", low), Do("initiate", low), Do("add", r2) }, { Do("signal", mid) },
            { Do("shutdown", top) }),
      Setup(Alone, {}, { Do("create", mid), Do("initiate", mid) }, { Do("initiate", top) },
            { Do("delay", mid), Do("signal", mid) }),
      Setup(Three, {}, { Do("initiate", top), Do("initiate", mid) }, { Do("initiate", low), Do("add", r2) },
            { Do("shutdown", mid) }),
      Setup(Two, {}, { Do("initiate", mid), Do("add", r1), Do("initiate", top) }, { Do("signal", mid) },
            { Do("shutdown", top) }) }

\* Runnables in one context: one is added while another one ends.
CounterSetups ==
    { Setup(Alone, {r1}, { Do("initiate", top), Do("add", r1), Do("add", r2), Do("shutdown", top) },
            {}, {}) }

\* A context is shut down that was never initiated, while somebody waits for that.
DelaySetups == { Setup(Two, {}, { Do("delay", mid) }, { Do("signal", mid) }, {}) }
=============================================================================
