------------------------------- MODULE MCRssi -------------------------------
(* What is asked of the signal strength measurement, and what it measures. *)
EXTENDS Rssi

Timed == [samples |-> FALSE, restart |-> ByGain, delay |-> 1, wait |-> 1, duration |-> 1000]
Quiet == [symbol |-> <<0, 511>>, preamble |-> <<511, 0>>]

\* As this firmware asks for it (default_init_param.c:148-152).
FirmwareAsk == {Timed}

\* In time and in samples, a power of two, more bits than pieces, more than all pieces hold.
SomeRssi ==
  {Timed, [Timed EXCEPT !.restart = BySpi, !.duration = 3, !.delay = 200],
   [Timed EXCEPT !.samples = TRUE, !.restart = ByPin, !.delay = 400, !.duration = 8191, !.wait = 1500],
   [Timed EXCEPT !.samples = TRUE, !.duration = 40000]}
SomeStored == {[skip |-> FALSE, tables |-> FALSE], [skip |-> TRUE, tables |-> TRUE], [skip |-> TRUE, tables |-> FALSE]}
SomeStrengths == {Quiet, [symbol |-> <<301, 90>>, preamble |-> <<44, 7>>]}
=============================================================================
