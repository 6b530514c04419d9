---------------------------- MODULE MCEventQueue ----------------------------
(* Instance of EventQueue for TLC, with the properties that need fairness.    *)
EXTENDS EventQueue

(* signal_core_shutdown returns: closing the queue before joining frees a     *)
(* worker that is blocked in emit with nobody left to poll.  When the worker  *)
(* goes away by itself the main loop finds out: it drains the queue, sees     *)
(* Disconnected and drops its source.                                         *)
ShutdownCompletes ==
    /\ main = "joining" ~> main = "joined"
    /\ SinksDropped ~> ~watching
=============================================================================
