---------------------------- MODULE MCWorkerRun ----------------------------
(* Instances of the worker.                                                 *)
EXTENDS WorkerRun

AllExits == {[code |-> 0, oom |-> FALSE], [code |-> 1, oom |-> FALSE], [code |-> 0, oom |-> TRUE]}
CleanExit == {[code |-> 0, oom |-> FALSE]}
=============================================================================
