----------------------------- MODULE MCDdsCtrl -----------------------------
(* Instances of DdsCtrl for TLC: who calls what. *)
EXTENDS DdsCtrl

CONSTANTS console, server

\* The whole console menu beside a client that only polls.
ConsoleAndMonitor ==
  [t \in Thread |-> IF t = console THEN Op ELSE {"get_enabled"}]

\* The console menu and the GUI, both in use at once.
ConsoleAndGui ==
  [t \in Thread |->
     IF t = console THEN Op ELSE {"enable", "disable", "get_enabled"}]
=============================================================================
