------------------------------- MODULE MCEnsm -------------------------------
(* Instances of Ensm for TLC. *)
EXTENDS Ensm

Few        == {"wide", "narrow"}
OneLoop    == {"quad"}
Lo         == {0, 1, 3}      \* 1 is within a threshold of 1 from 0, 3 is not
LoAndOut   == Lo \cup {7}    \* 7 is out of range
Firmware   == {"fdd", "alert"}
FddModes   == {"fdd", "alert", "sleep", "wait"}
TddPins    == {"alert", "rx", "tx", "pinctrl"}
TddAndFdd  == TddPins \cup {"fdd"}   \* FDD is not a mode of a TDD part
BothStates == {"alert", "rx", "tx"}
=============================================================================
