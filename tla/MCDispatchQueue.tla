--------------------------- MODULE MCDispatchQueue ---------------------------
(* Instances of DispatchQueue for TLC: w1 and w2 drive the queue, c1 uses it. *)
EXTENDS DispatchQueue, TLC

CONSTANTS w1, w2, c1

ThunkSymmetry == Permutations(Thunks)

Throwing  == [k \in Thunks |-> {"return", "throw"}]
Anything  == [k \in Thunks |-> OutcomeNames]

\* Every operation of the queue, from every thread.
AllCalls == [t \in Threads |-> OpNames]

\* Run loops, the way CoreThread uses the queue; one of them also clears it, while a
\* client pends, waits for what it has pended and changes the cap.
RunLoopCalls ==
    [t \in Threads |-> CASE t = w1 -> {"WaitForEvent"}
                         [] t = w2 -> {"WaitForEvent", "Abort", "Rundown"}
                         [] OTHER -> {"Pend", "Barrier", "SetDispatcherCap"}]

\* A run loop, a thread that polls and waits with a timeout, a client that delays.
TimedCalls ==
    [t \in Threads |-> CASE t = w1 -> {"WaitForEvent"}
                         [] t = w2 -> {"WaitForEventUntil", "DispatchEvent"}
                         [] OTHER -> {"Pend", "PendDelayed"}]
=============================================================================
