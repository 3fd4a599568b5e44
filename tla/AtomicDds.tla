----------------------------- MODULE AtomicDds -----------------------------
(***************************************************************************)
(* What a caller of the DDS control operations relies on: a command that   *)
(* changes a level (on/off, sine/LFM, one-shot/continuous) takes effect at *)
(* one instant between its call and its return, changes that level and no  *)
(* other, and nothing else ever changes a level.                           *)
(***************************************************************************)
CONSTANTS Thread, Level

Command == [bit : Level, act : {"set", "clear"}]
None    == [bit |-> "none", act |-> "none"]

VARIABLES level,  \* the levels that are on
          todo,   \* todo[t]: the command t has given and that has had no effect yet
          boot    \* flips with every power cycle

vars == <<level, todo, boot>>

Init == level = {} /\ todo = [t \in Thread |-> None] /\ boot = FALSE

Give(t) ==
  \E c \in Command :
    /\ todo[t] = None
    /\ todo' = [todo EXCEPT ![t] = c]
    /\ UNCHANGED level

\* The command takes effect; the caller may at once give another.
Commit(t) ==
  /\ todo[t] # None
  /\ level' = IF todo[t].act = "set" THEN level \cup {todo[t].bit}
                                     ELSE level \ {todo[t].bit}
  /\ todo' = [todo EXCEPT ![t] = None]

\* The command fails with no effect.
Abort(t) ==
  /\ todo[t] # None
  /\ todo' = [todo EXCEPT ![t] = None]
  /\ UNCHANGED level

\* The process is killed: what it had not yet done is lost, the levels stay.
Kill ==
  /\ todo' = [t \in Thread |-> None]
  /\ UNCHANGED <<level, boot>>

PowerCycle ==
  /\ todo' = [t \in Thread |-> None]
  /\ level' = {} /\ boot' = ~boot

Step(t) == (Give(t) \/ Commit(t) \/ Abort(t)) /\ UNCHANGED boot

Next == (\E t \in Thread : Step(t)) \/ Kill \/ PowerCycle

Spec == Init /\ [][Next]_vars
=============================================================================
