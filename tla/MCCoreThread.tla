----------------------------- MODULE MCCoreThread -----------------------------
(* Instances of CoreThread for TLC. *)
EXTENDS CoreThread

CONSTANTS c1, c2, k1, k2

Program(p, q) == [t \in Clients |-> IF t = c1 THEN p ELSE q]

\* c1 starts and uses the thread, c2 waits for it and stops it.
LifeCycle ==
    Program({ "Start", "Stop", "Wait", "WaitForStateUpdate", k1 },
            { "Start", "Stop", "SignalShutdown", "WaitFor", "ThreadSleep",
              "PerformStatusUpdate", "Abort" })

\* Both change the priority of a thread that is started, throws and ends.
Priority ==
    Program({ "Start", "ElevatePriority", "SetThreadPriority", k1 },
            { "ElevatePriority" })

\* c1 queues two dispatchers and stops the thread, c2 shuts the context down.
Graceful == Program({ "Start", "Stop", k1, k2 }, { "SignalShutdown" })

AllPrograms == { LifeCycle, Priority, Graceful }
=============================================================================
