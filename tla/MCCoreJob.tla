------------------------------ MODULE MCCoreJob ------------------------------
(* Instances of CoreJob for TLC. *)
EXTENDS CoreJob

CONSTANTS c1, c2

Program(p, q) == [t \in Clients |-> IF t = c1 THEN p ELSE q]

\* One client starts and stops the job, the other waits for it; both pend.
OneStopper ==
    { Program({ "Start", "Stop", "StopNow", "Pend" }, { "Wait", "WaitFor", "Pend" }) }
=============================================================================
