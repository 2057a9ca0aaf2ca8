---------------------------- MODULE MCObjectPool ----------------------------
(* Instances of ObjectPool for TLC. *)
EXTENDS ObjectPool, TLC

CONSTANTS t1, t2, t3, a, b

Program(x, y, z) == (t1 :> x @@ t2 :> y @@ t3 :> z)

BothOne == [p \in Pools |-> 1]

\* Waiters on a pool of one object while it is cleared, limited and run down; and
\* objects that come back while their pool is moved and destroyed.
AllPrograms ==
    { Program({ Do("get", a, None), Do("wait", a, None) },
              { Do("waitfor", a, None), Do("clear", a, None) },
              { Do("rundown", a, None) }),
      Program({ Do("get", a, None), Do("limit", a, 2), Do("preallocate", a, 2) },
              { Do("wait", a, None), Do("max", a, 1) },
              { Do("clear", a, None) }),
      Program({ Do("get", a, None), Do("move", b, a), Do("get", b, None), Do("destroy", b, None) },
              { Do("get", b, None), Do("destroy", a, None), Do("wait", b, None) },
              { Do("rundown", b, None) }) }
=============================================================================
