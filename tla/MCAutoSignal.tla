---------------------------- MODULE MCAutoSignal ----------------------------
(* Instances of AutoSignal for TLC. *)
EXTENDS AutoSignal

CONSTANTS t1, t2, e1, e2, a, b

Program(p, q) == [t \in Threads |-> IF t = t1 THEN p ELSE q]

\* Two listeners come and go under two calls that may wait for each other;
\* a listener is taken away by somebody else while the signal is called, invoked
\* and locked.
AllPrograms ==
    { Program({ Do("link", e1), Do("unlink", e1), Do("signal", a) },
              { Do("link", e2), Do("signal", b) }),
      Program({ Do("link", e1), Do("signal", a) },
              { Do("unlink", e1), Do("invoke", b), Do("lock", None) }) }

\* Two calls.
CallPrograms == { Program({ Do("signal", a) }, { Do("signal", b) }) }
=============================================================================
