---------------------------- MODULE ThunkContract ----------------------------
(***************************************************************************)
(* What a dispatch queue promises about one thunk, whoever runs it and     *)
(* however it was added: it is refused or accepted once; accepted, it is   *)
(* run by one thread at a time, only while the queue owns it; it is run to *)
(* its end at most once; a thunk that was dropped is never run, and one    *)
(* that failed may be kept and run again.  A thunk can be lost only while  *)
(* nobody runs it.                                                         *)
(***************************************************************************)
CONSTANT Thunks

VARIABLE state   \* state[k]: where thunk k is in its life

Init == state = [k \in Thunks |-> "new"]

Accept(k)  == state[k] = "new"     /\ state'[k] = "pending"
Refuse(k)  == state[k] = "new"     /\ state'[k] = "dropped"
Start(k)   == state[k] = "pending" /\ state'[k] = "running"
Finish(k)  == state[k] = "running" /\ state'[k] = "done"
Keep(k)    == state[k] = "running" /\ state'[k] = "pending"
Discard(k) == state[k] = "pending" /\ state'[k] = "dropped"
Lose(k)    == state[k] \in { "new", "pending" } /\ state'[k] = "lost"

Move(k) ==
    \/ Accept(k) \/ Refuse(k) \/ Start(k) \/ Finish(k) \/ Keep(k) \/ Discard(k)
    \/ Lose(k)

\* One step of a queue may move several thunks (Abort discards all of them), but
\* starts or ends the run of at most one.
RunStep(k) == Start(k) \/ Finish(k) \/ Keep(k)

Next ==
    /\ state' \in [Thunks -> {"new", "pending", "running", "done", "dropped", "lost"}]
    /\ \A k \in Thunks : state'[k] = state[k] \/ Move(k)
    /\ \A j, k \in Thunks : RunStep(j) /\ RunStep(k) => j = k

Spec == Init /\ [][Next]_state
=============================================================================
