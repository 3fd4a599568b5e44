--------------------------- MODULE DdsCtrlProofs ---------------------------
(***************************************************************************)
(* Proofs about DdsCtrl for every set of threads.  Type correctness needs  *)
(* nothing; the other theorems assume ExclusiveWriter, that no two threads *)
(* call operations that change the register.                               *)
(***************************************************************************)
EXTENDS DdsCtrl, TLAPS

(***************************************************************************)
(* The control invariant: a thread in a call runs an operation it may run, *)
(* the driver call is the one its operation makes, and the kind of access  *)
(* it is about to make is the call's.                                      *)
(***************************************************************************)
InCall(t) == pc[t] \in {"read", "write", "assert", "release"}

CallOK ==
  \A t \in Thread :
    /\ pc[t] # "idle" => op[t] \in Ops[t]
    /\ pc[t] = "tune" => op[t] = "retune"
    /\ InCall(t) =>
         IF op[t] = "retune" THEN call[t] \in {DriverCall["retune"], Mute, Unmute}
                             ELSE call[t] = DriverCall[op[t]]
    /\ pc[t] = "write" => call[t].act \in {"set", "clear"}
    /\ pc[t] \in {"assert", "release"} => call[t].act = "pulse"

\* Every operation has its driver call.
LEMMA DriverCallType == DriverCall \in [Op -> Call]
  BY DEF DriverCall, Op, Call, Bit

\* Only pulses are about rst and load, and only getters and the first step of
\* a retune read without writing.
LEMMA DriverCallFacts ==
  \A o \in Op :
    /\ (DriverCall[o].act = "pulse") <=> (DriverCall[o].bit \in Pulsed)
    /\ (DriverCall[o].act = "get") <=> (o \in Getters \cup {"retune"})
  BY DEF DriverCall, Op, Pulsed, Getters

\* The calls of a retune.
LEMMA RetuneCalls ==
  /\ Mute = [bit |-> "en", act |-> "clear"]
  /\ Unmute = [bit |-> "en", act |-> "set"]
  /\ DriverCall["retune"] = [bit |-> "en", act |-> "get"]
  /\ {Mute, Unmute, DriverCall["retune"]} \subseteq Call
  BY DEF Mute, Unmute, DriverCall, Call, Bit

\* Facts about the call of a thread that is in one.
LEMMA CallFacts ==
  ASSUME TypeOK, CallOK, NEW t \in Thread, InCall(t)
  PROVE  /\ call[t] \in Call
         /\ (call[t].act = "pulse") <=> (call[t].bit \in Pulsed)
         /\ op[t] = "retune" => call[t].bit = "en"
         /\ call[t].act # "get" => op[t] \in Ops[t] \cap Writers
<1>1. call[t] \in Call /\ op[t] \in Op
  BY DEF TypeOK
<1>2. op[t] \in Ops[t]
  BY DEF CallOK, InCall
<1>3. CASE op[t] = "retune"
  <2>1. call[t] \in {DriverCall["retune"], Mute, Unmute}
    BY <1>3 DEF CallOK
  <2>2. op[t] \in Writers
    BY <1>1, <1>3 DEF Writers, Getters
  <2> QED BY <1>1, <1>2, <2>1, <2>2, RetuneCalls DEF Pulsed
<1>4. CASE op[t] # "retune"
  <2>1. call[t] = DriverCall[op[t]]
    BY <1>4 DEF CallOK
  <2> QED BY <1>1, <1>2, <1>4, <2>1, DriverCallFacts DEF Writers
<1> QED BY <1>3, <1>4

(***************************************************************************)
(* TypeOK and CallOK are inductive together.                               *)
(***************************************************************************)
LEMMA InitType == Init => TypeOK /\ CallOK
<1> SUFFICES ASSUME Init PROVE TypeOK /\ CallOK
  OBVIOUS
<1>1. "get_enabled" \in Op /\ DriverCall["get_enabled"] \in Call
  BY DriverCallType DEF Op, DriverCall
<1> QED BY <1>1 DEF Init, TypeOK, CallOK, PC, InCall

\* Every step keeps the types.
LEMMA StepType ==
  ASSUME TypeOK, CallOK, NEW t \in Thread, Step(t), UNCHANGED boot PROVE TypeOK'
<1> USE OpsAssumption, FlagAssumption DEF TypeOK, PC
<1>1. CASE Begin(t)
  <2>1. PICK o \in Ops[t] : Begin(t)!(o)
    BY <1>1 DEF Begin
  <2>2. o \in Op /\ DriverCall[o] \in Call
    BY DriverCallType
  <2> QED BY <2>1, <2>2 DEF Enter, Return
<1>2. CASE MapFails(t)
  BY <1>2 DEF MapFails, Return
<1>3. CASE Get(t)
  <2>1. was' \in [Thread -> BOOLEAN]
    <3>1. CASE was' = [was EXCEPT ![t] = TRUE]
      BY <3>1
    <3>2. CASE was' = was
      BY <3>2
    <3> QED BY <1>3, <3>1, <3>2 DEF Get
  <2>2. call' \in [Thread -> Call] /\ pc' \in [Thread -> PC]
    BY <1>3, RetuneCalls DEF Get, Return, Enter
  <2> QED BY <1>3, <2>1, <2>2 DEF Get, Return
<1>4. CASE Read(t)
  BY <1>4 DEF Read
<1>5. CASE Write(t)
  <2>1. call[t] \in Call /\ call[t].bit \in Bit
    BY DEF Call
  <2>2. call[t].bit \in Level
    BY <1>5, CallFacts, <2>1 DEF CallOK, InCall, Write, Level
  <2>3. asked' \subseteq Level
    BY <1>5, <2>2 DEF Write, Applied
  <2> QED BY <1>5, <2>1, <2>3 DEF Write, Return, Applied
<1>6. CASE Assert(t)
  BY <1>6 DEF Assert, Call
<1>7. CASE Release(t)
  BY <1>7 DEF Release, Return
<1>8. CASE Tune(t)
  BY <1>8, RetuneCalls DEF Tune, Enter
<1> QED BY <1>1, <1>2, <1>3, <1>4, <1>5, <1>6, <1>7, <1>8 DEF Step

\* Every step keeps a call where its accesses are.
LEMMA StepCallOK ==
  ASSUME TypeOK, CallOK, NEW t \in Thread, Step(t) PROVE CallOK'
<1> SUFFICES ASSUME NEW u \in Thread PROVE CallOK!(u)'
  BY DEF CallOK
<1> USE OpsAssumption DEF TypeOK
<1>1. CASE u # t
  <2>1. pc'[u] = pc[u] /\ op'[u] = op[u] /\ call'[u] = call[u]
    BY <1>1 DEF Step, Begin, MapFails, Get, Read, Write, Assert, Release, Tune,
                Enter, Return
  <2> QED BY <2>1 DEF CallOK, InCall
<1>2. CASE u = t
  <2> USE <1>2
  <2>1. CASE Begin(t)
    <3>1. PICK o \in Ops[t] : Begin(t)!(o)
      BY <2>1 DEF Begin
    <3> QED BY <3>1 DEF Enter, Return, InCall
  <2>2. CASE MapFails(t)
    BY <2>2 DEF MapFails, Return, CallOK, InCall
  <2>3. CASE Get(t)
    BY <2>3, RetuneCalls DEF Get, Return, Enter, CallOK, InCall
  <2>4. CASE Read(t)
    <3>1. call[t] \in Call
      OBVIOUS
    <3> QED BY <2>4, <3>1 DEF Read, CallOK, InCall, Call
  <2>5. CASE Write(t)
    BY <2>5 DEF Write, Return, CallOK, InCall
  <2>6. CASE Assert(t)
    BY <2>6 DEF Assert, CallOK, InCall
  <2>7. CASE Release(t)
    BY <2>7 DEF Release, Return, CallOK, InCall
  <2>8. CASE Tune(t)
    BY <2>8, RetuneCalls DEF Tune, Enter, CallOK, InCall
  <2> QED BY <2>1, <2>2, <2>3, <2>4, <2>5, <2>6, <2>7, <2>8 DEF Step
<1> QED BY <1>1, <1>2

\* So does a restart.
LEMMA RestartType ==
  ASSUME TypeOK, CallOK, Kill \/ PowerCycle PROVE TypeOK' /\ CallOK'
<1>1. "get_enabled" \in Op /\ DriverCall["get_enabled"] \in Call
  BY DriverCallType DEF Op, DriverCall
<1>2. CASE PowerCycle
  BY <1>1, <1>2 DEF PowerCycle, Restart, TypeOK, CallOK, PC, InCall
<1>3. CASE Kill
  <2>1. \A u \in Thread : pc[u] = "release" => call[u].bit \in Pulsed
    BY CallFacts DEF CallOK, InCall
  <2>2. torn' \subseteq Pulsed
    BY <1>3, <2>1 DEF Kill, TypeOK
  <2>3. mishap' \subseteq {"mute", "unmute"}
    BY <1>3 DEF Kill, TypeOK
  <2> QED BY <1>1, <1>3, <2>2, <2>3 DEF Kill, Restart, TypeOK, CallOK, PC, InCall
<1> QED BY <1>2, <1>3

\* Every reachable state is well typed and every thread in a call makes the
\* access its operation asks for (iq_forge.cpp, dds_ctrl_gpio.cpp).
THEOREM Typing == Spec => [](TypeOK /\ CallOK)
<1>1. TypeOK /\ CallOK /\ [Next]_vars => (TypeOK /\ CallOK)'
  <2> SUFFICES ASSUME TypeOK, CallOK, [Next]_vars PROVE (TypeOK /\ CallOK)'
    OBVIOUS
  <2>1. CASE UNCHANGED vars
    BY <2>1 DEF vars, threadVars, TypeOK, CallOK, InCall
  <2>2. CASE \E t \in Thread : Step(t) /\ UNCHANGED boot
    BY <2>2, StepType, StepCallOK
  <2>3. CASE Kill \/ PowerCycle
    BY <2>3, RestartType
  <2> QED BY <2>1, <2>2, <2>3 DEF Next
<1> QED BY <1>1, InitType, PTL DEF Spec

(***************************************************************************)
(* With an exclusive writer, the local copy of a thread in the middle of a *)
(* read-modify-write is the register, so that its write changes one bit.   *)
(***************************************************************************)
Modifying(t) == pc[t] \in {"write", "assert", "release"}

CopyOK ==
  \A t \in Thread :
    /\ pc[t] \in {"write", "assert"} => v[t] = reg
    /\ pc[t] = "release" => reg = v[t] \cup {call[t].bit}

\* Two threads are never both in operations that change the register.
LEMMA OneWriter ==
  ASSUME ExclusiveWriter, TypeOK, CallOK,
         NEW t \in Thread, NEW u \in Thread,
         pc[t] # "idle", pc[u] # "idle", op[t] \in Writers, op[u] \in Writers
  PROVE  t = u
  BY DEF ExclusiveWriter, CallOK

\* A thread that modifies the register is a writer.
LEMMA ModifyingWriter ==
  ASSUME TypeOK, CallOK, NEW t \in Thread, Modifying(t)
  PROVE  /\ pc[t] # "idle" /\ op[t] \in Writers
         /\ call[t].bit \in Bit
  BY CallFacts DEF Modifying, CallOK, InCall, Call

\* Every step keeps a writer's copy true of the register.
LEMMA StepCopyOK ==
  ASSUME ExclusiveWriter, TypeOK, CallOK, CopyOK, NEW t \in Thread, Step(t)
  PROVE  CopyOK'
<1> SUFFICES ASSUME NEW u \in Thread PROVE CopyOK!(u)'
  BY DEF CopyOK
<1> USE DEF TypeOK
<1>1. CASE u # t
  <2>1. pc'[u] = pc[u] /\ v'[u] = v[u] /\ call'[u] = call[u]
    BY <1>1 DEF Step, Begin, MapFails, Get, Read, Write, Assert, Release, Tune,
                Enter, Return
  <2>2. CASE ~ Modifying(u)
    BY <2>1, <2>2 DEF Modifying
  <2>3. CASE Modifying(u)
    <3>1. ~ Modifying(t)
      BY <1>1, <2>3, ModifyingWriter, OneWriter
    <3>2. reg' = reg
      BY <3>1 DEF Modifying, Step, Begin, MapFails, Get, Read, Write, Assert,
                  Release, Tune
    <3> QED BY <2>1, <3>2 DEF CopyOK
  <2> QED BY <2>2, <2>3
<1>2. CASE u = t
  <2> USE <1>2
  <2>1. CASE Begin(t) \/ MapFails(t) \/ Get(t) \/ Tune(t)
    BY <2>1 DEF Begin, MapFails, Get, Tune, Enter, Return
  <2>2. CASE Read(t)
    BY <2>2 DEF Read
  <2>3. CASE Write(t)
    BY <2>3 DEF Write, Return
  <2>4. CASE Assert(t)
    BY <2>4 DEF Assert
  <2>5. CASE Release(t)
    BY <2>5 DEF Release, Return
  <2> QED BY <2>1, <2>2, <2>3, <2>4, <2>5 DEF Step
<1> QED BY <1>1, <1>2

(***************************************************************************)
(* Pulses are released.                                                    *)
(***************************************************************************)
LEMMA StepPulses ==
  ASSUME ExclusiveWriter, TypeOK, CallOK, CopyOK, PulsesReleased,
         NEW t \in Thread, Step(t)
  PROVE  PulsesReleased'
<1> SUFFICES ASSUME NEW b \in Pulsed, b \in reg'
             PROVE  b \in torn' \/ \E u \in Thread : pc'[u] = "release"
                                                    /\ call'[u].bit = b
  BY DEF PulsesReleased
<1> USE DEF TypeOK
<1>1. CASE Begin(t) \/ MapFails(t) \/ Get(t) \/ Read(t) \/ Tune(t)
  <2>1. reg' = reg /\ torn' = torn
    BY <1>1 DEF Begin, MapFails, Get, Read, Tune
  <2>2. \A u \in Thread : pc[u] = "release" => pc'[u] = pc[u] /\ call'[u] = call[u]
    BY <1>1 DEF Begin, MapFails, Get, Read, Tune, Enter, Return
  <2> QED BY <2>1, <2>2 DEF PulsesReleased
<1>2. CASE Write(t)
  <2>1. call[t].bit \notin Pulsed
    BY <1>2, CallFacts DEF CallOK, InCall, Write
  <2>2. b \in reg /\ torn' = torn
    BY <1>2, <2>1 DEF Write, Applied, CopyOK
  <2>3. \A u \in Thread : pc[u] = "release" => pc'[u] = pc[u] /\ call'[u] = call[u]
    BY <1>2 DEF Write, Return
  <2> QED BY <2>2, <2>3 DEF PulsesReleased
<1>3. CASE Assert(t)
  <2>1. CASE b = call[t].bit
    BY <1>3, <2>1 DEF Assert
  <2>2. CASE b # call[t].bit
    <3>1. b \in reg /\ torn' = torn /\ call' = call
      BY <1>3, <2>2 DEF Assert, CopyOK
    <3>2. \A u \in Thread : pc[u] = "release" => pc'[u] = pc[u]
      BY <1>3 DEF Assert
    <3> QED BY <3>1, <3>2 DEF PulsesReleased
  <2> QED BY <2>1, <2>2
<1>4. CASE Release(t)
  <2>1. b \in reg /\ b # call[t].bit /\ torn' = torn \ {call[t].bit}
    BY <1>4 DEF Release, CopyOK
  <2>2. \A u \in Thread : pc[u] = "release" => u = t
    BY <1>4, ModifyingWriter, OneWriter DEF Modifying, Release
  <2> QED BY <2>1, <2>2 DEF PulsesReleased
<1> QED BY <1>1, <1>2, <1>3, <1>4 DEF Step

\* A kill or a power cycle leaves no copy at work, and a pulse still on is torn.
LEMMA RestartExclusive ==
  ASSUME TypeOK, CallOK, CopyOK, PulsesReleased, Kill \/ PowerCycle
  PROVE  CopyOK' /\ PulsesReleased'
<1>1. CopyOK'
  BY DEF Kill, PowerCycle, Restart, CopyOK
<1>2. PulsesReleased'
  BY DEF Kill, PowerCycle, Restart, PulsesReleased
<1> QED BY <1>1, <1>2

ExclusiveInv == TypeOK /\ CallOK /\ CopyOK /\ PulsesReleased

\* With one writer, its copy is true of the register throughout.
LEMMA ExclusiveInvariant == ASSUME ExclusiveWriter PROVE Spec => []ExclusiveInv
<1>1. Init => ExclusiveInv
  BY InitType DEF Init, ExclusiveInv, CopyOK, PulsesReleased
<1>2. ExclusiveInv /\ [Next]_vars => ExclusiveInv'
  <2> SUFFICES ASSUME ExclusiveInv, [Next]_vars PROVE ExclusiveInv'
    OBVIOUS
  <2> USE DEF ExclusiveInv
  <2>1. CASE UNCHANGED vars
    BY <2>1 DEF vars, threadVars, TypeOK, CallOK, InCall, CopyOK, PulsesReleased
  <2>2. CASE \E t \in Thread : Step(t) /\ UNCHANGED boot
    BY <2>2, StepType, StepCallOK, StepCopyOK, StepPulses
  <2>3. CASE Kill \/ PowerCycle
    BY <2>3, RestartType, RestartExclusive
  <2> QED BY <2>1, <2>2, <2>3 DEF Next
<1> QED BY <1>1, <1>2, PTL DEF Spec

\* With an exclusive writer, rst and load are high only during a pulse or after
\* a kill in the middle of one (dds_ctrl_gpio.cpp, reset and restart_lfm).
THEOREM PulsesAreReleased ==
  ASSUME ExclusiveWriter PROVE Spec => []PulsesReleased
<1>1. ExclusiveInv => PulsesReleased
  BY DEF ExclusiveInv
<1> QED BY <1>1, ExclusiveInvariant, PTL

\* With an exclusive writer, no step changes a bit its driver call is not about:
\* a read-modify-write never undoes another command (dds_ctrl_gpio.cpp).
THEOREM BitsAreIndependent ==
  ASSUME ExclusiveWriter PROVE Spec => OnlyItsBit
<1> DEFINE P == boot' # boot \/
      \A b \in Bit :
        ((b \in reg) # (b \in reg')) =>
          \E t \in Thread :
            /\ call[t].bit = b
            /\ pc[t] \in {"write", "assert", "release"} /\ pc'[t] # pc[t]
<1>1. ExclusiveInv /\ [Next]_vars => [P]_reg
  <2> SUFFICES ASSUME ExclusiveInv, Next PROVE P \/ reg' = reg
    BY DEF vars
  <2> USE DEF ExclusiveInv
  <2>1. CASE PowerCycle \/ Kill
    BY <2>1 DEF Kill, PowerCycle, TypeOK
  <2>2. ASSUME NEW t \in Thread, Step(t) PROVE P \/ reg' = reg
    <3> USE DEF TypeOK
    <3>1. CASE Begin(t) \/ MapFails(t) \/ Get(t) \/ Read(t) \/ Tune(t)
      BY <3>1 DEF Begin, MapFails, Get, Read, Tune
    <3>2. CASE Write(t)
      BY <3>2 DEF Write, Applied, Return, CopyOK
    <3>3. CASE Assert(t)
      BY <3>3 DEF Assert, CopyOK
    <3>4. CASE Release(t)
      BY <3>4 DEF Release, Return, CopyOK
    <3> QED BY <2>2, <3>1, <3>2, <3>3, <3>4 DEF Step
  <2> QED BY <2>1, <2>2 DEF Next
<1> QED BY <1>1, ExclusiveInvariant, PTL DEF Spec, OnlyItsBit

(***************************************************************************)
(* The levels.  sine/LFM and one-shot/continuous follow the commands at    *)
(* every step.  on/off also follows the retune: it is off from the mute to *)
(* the unmute, and stays off after an unmute that failed or that a kill    *)
(* prevented.                                                              *)
(***************************************************************************)
BeforeMute(t) ==
  op[t] = "retune" /\ pc[t] \in {"read", "write"} /\ call[t] = Mute

LevelsOK ==
  /\ \A b \in Level \ {"en"} : (b \in reg) <=> (b \in asked)
  /\ ("en" \in reg) <=>
       /\ "en" \in asked /\ "unmute" \notin mishap
       /\ \A t \in Thread : Muting(t) => "mute" \in mishap
  /\ \A t \in Thread :
       /\ BeforeMute(t) => was[t] /\ "en" \in reg
       /\ op[t] = "retune" /\ pc[t] \in {"read", "write"} =>
            (was[t] <=> call[t] # DriverCall["retune"])
       /\ Muting(t) => "en" \in asked /\ "unmute" \notin mishap
  /\ "mute" \in mishap => \E t \in Thread : Muting(t)

Retuning(t) == op[t] = "retune" /\ pc[t] # "idle"

\* While one thread is in an operation that changes the register, no other
\* thread is in a retune.
LEMMA OneRetune ==
  ASSUME ExclusiveWriter, TypeOK, CallOK, NEW t \in Thread,
         op[t] \in Writers, pc[t] # "idle", NEW u \in Thread, u # t
  PROVE  ~ Retuning(u)
  BY OneWriter DEF Retuning, Writers, TypeOK, Getters

\* Steps of the operations other than a retune.
LEMMA LevelsPlain ==
  ASSUME ExclusiveWriter, TypeOK, CallOK, CopyOK, LevelsOK,
         NEW t \in Thread, Step(t), op'[t] # "retune"
  PROVE  LevelsOK'
<1> USE DEF TypeOK
<1>1. \A u \in Thread :
        /\ Muting(u)' <=> Muting(u)
        /\ BeforeMute(u)' <=> BeforeMute(u)
        /\ BeforeMute(u) => was'[u] = was[u]
        /\ op'[u] = "retune" =>
             op[u] = "retune" /\ pc'[u] = pc[u] /\ was'[u] = was[u] /\ call'[u] = call[u]
  <2>1. SUFFICES ASSUME NEW u \in Thread
                 PROVE <1>1!(u)
    OBVIOUS
  <2>2. CASE u # t
    BY <2>2 DEF Step, Begin, MapFails, Get, Read, Write, Assert, Release, Tune,
                Enter, Return, Muting, BeforeMute
  <2>3. CASE u = t
    BY <2>3, CallOK DEF Step, Begin, MapFails, Get, Read, Write, Assert, Release,
                Tune, Enter, Return, Muting, BeforeMute, CallOK
  <2> QED BY <2>2, <2>3
<1>2. CASE reg' = reg /\ asked' = asked /\ mishap' = mishap
  BY <1>1, <1>2 DEF LevelsOK
<1>3. CASE Write(t)
  <2>1. call[t] \in Call /\ call[t].bit \in Level /\ op[t] # "retune"
    BY <1>3, CallFacts DEF CallOK, InCall, Write, Call, Level
  <2>2. pc[t] # "idle" /\ op[t] \in Writers
    BY <1>3, ModifyingWriter DEF Modifying, Write
  <2>3. \A u \in Thread : ~ Muting(u) /\ ~ BeforeMute(u)
    BY <2>1, <2>2, OneRetune DEF Retuning, Muting, BeforeMute
  <2>4. reg' = Applied(call[t], reg) /\ asked' = Applied(call[t], asked)
    BY <1>3, <2>1 DEF Write, CopyOK
  <2>5. mishap' = IF call[t].bit = "en" THEN mishap \ {"unmute"} ELSE mishap
    BY <1>3, <2>1 DEF Write
  <2>6. "mute" \notin mishap
    BY <2>3 DEF LevelsOK
  <2>7. \A b \in Level \ {"en"} : (b \in reg') <=> (b \in asked')
    BY <2>4 DEF LevelsOK, Applied
  <2>8. ("en" \in reg') <=> ("en" \in asked' /\ "unmute" \notin mishap')
    BY <2>1, <2>3, <2>4, <2>5, <2>6 DEF LevelsOK, Applied
  <2> QED BY <1>1, <2>3, <2>5, <2>6, <2>7, <2>8 DEF LevelsOK
<1>4. CASE Assert(t) \/ Release(t)
  <2>1. call[t].bit \in Pulsed
    BY <1>4, CallFacts DEF CallOK, InCall, Assert, Release
  <2>2. \A b \in Level : (b \in reg') <=> (b \in reg)
    BY <1>4, <2>1 DEF Assert, Release, CopyOK, Level
  <2>3. asked' = asked /\ mishap' = mishap /\ "en" \in Level
    BY <1>4 DEF Assert, Release, Level, Bit, Pulsed
  <2> QED BY <1>1, <2>2, <2>3 DEF LevelsOK
<1> QED BY <1>2, <1>3, <1>4 DEF Step, Begin, MapFails, Get, Read, Tune

\* Steps of a retune.
LEMMA LevelsRetune ==
  ASSUME ExclusiveWriter, TypeOK, CallOK, CopyOK, LevelsOK,
         NEW t \in Thread, Step(t), op'[t] = "retune"
  PROVE  LevelsOK'
<1> USE DEF TypeOK
<1>1. pc[t] # "idle" => op[t] = "retune" /\ op[t] \in Writers
  BY DEF Step, Begin, MapFails, Get, Read, Write, Assert, Release, Tune,
         Writers, Getters
<1>2. pc[t] = "idle" => Begin(t)
  BY DEF Step, Begin, MapFails, Get, Read, Write, Assert, Release, Tune
<1>3. \A u \in Thread \ {t} :
        /\ Muting(u)' <=> Muting(u)
        /\ BeforeMute(u)' <=> BeforeMute(u)
        /\ pc'[u] = pc[u] /\ op'[u] = op[u] /\ was'[u] = was[u] /\ call'[u] = call[u]
  BY DEF Step, Begin, MapFails, Get, Read, Write, Assert, Release, Tune,
         Enter, Return, Muting, BeforeMute
<1>4. CASE Begin(t)
  <2>1. ~ Muting(t) /\ ~ BeforeMute(t)
    BY <1>4 DEF Begin, Muting, BeforeMute
  <2>2. /\ ~ Muting(t)' /\ ~ BeforeMute(t)'
        /\ pc'[t] \in {"read", "write"} => call'[t] = DriverCall["retune"] /\ ~ was'[t]
    BY <1>4, RetuneCalls DEF Begin, Enter, Return, Muting, BeforeMute
  <2>3. reg' = reg /\ asked' = asked /\ mishap' = mishap
    BY <1>4 DEF Begin
  <2> QED BY <1>3, <2>1, <2>2, <2>3 DEF LevelsOK
<1>5. CASE pc[t] # "idle"
  <2>1. op[t] = "retune"
    BY <1>1, <1>5
  <2>2. \A u \in Thread \ {t} : ~ Muting(u) /\ ~ BeforeMute(u)
    BY <1>1, <1>5, OneRetune DEF Retuning, Muting, BeforeMute
  <2>3. /\ ("en" \in reg) <=>
             ("en" \in asked /\ "unmute" \notin mishap
                /\ (Muting(t) => "mute" \in mishap))
        /\ BeforeMute(t) => was[t] /\ "en" \in reg
        /\ pc[t] \in {"read", "write"} => (was[t] <=> call[t] # DriverCall["retune"])
        /\ Muting(t) => "en" \in asked /\ "unmute" \notin mishap
        /\ "mute" \in mishap => Muting(t)
    <3>1. (\A u \in Thread : Muting(u) => "mute" \in mishap)
            <=> (Muting(t) => "mute" \in mishap)
      BY <2>2
    <3>2. (\E u \in Thread : Muting(u)) <=> Muting(t)
      BY <2>2
    <3>3. ("en" \in reg) <=>
             ("en" \in asked /\ "unmute" \notin mishap
                /\ (Muting(t) => "mute" \in mishap))
      BY <3>1 DEF LevelsOK
    <3>4. /\ BeforeMute(t) => was[t] /\ "en" \in reg
          /\ Muting(t) => "en" \in asked /\ "unmute" \notin mishap
      BY DEF LevelsOK
    <3>5. pc[t] \in {"read", "write"} => (was[t] <=> call[t] # DriverCall["retune"])
      BY <2>1 DEF LevelsOK
    <3>6. "mute" \in mishap => Muting(t)
      BY <3>2 DEF LevelsOK
    <3> QED BY <3>3, <3>4, <3>5, <3>6
  <2>4. SUFFICES
        /\ \A b \in Level \ {"en"} : (b \in reg') <=> (b \in asked')
        /\ ("en" \in reg') <=>
             ("en" \in asked' /\ "unmute" \notin mishap'
                /\ (Muting(t)' => "mute" \in mishap'))
        /\ BeforeMute(t)' => was'[t] /\ "en" \in reg'
        /\ pc'[t] \in {"read", "write"} => (was'[t] <=> call'[t] # DriverCall["retune"])
        /\ Muting(t)' => "en" \in asked' /\ "unmute" \notin mishap'
        /\ "mute" \in mishap' => Muting(t)'
    <3>1. \A u \in Thread \ {t} :
            op'[u] = "retune" /\ pc'[u] \in {"read", "write"} =>
              (was'[u] <=> call'[u] # DriverCall["retune"])
      BY <1>3 DEF LevelsOK
    <3>2. \A u \in Thread \ {t} : ~ Muting(u)' /\ ~ BeforeMute(u)'
      BY <1>3, <2>2
    <3>3. (\A u \in Thread : Muting(u)' => "mute" \in mishap')
            <=> (Muting(t)' => "mute" \in mishap')
      BY <3>2
    <3>4. "mute" \in mishap' => \E u \in Thread : Muting(u)'
      BY <2>4
    <3>5. \A u \in Thread :
            /\ BeforeMute(u)' => was'[u] /\ "en" \in reg'
            /\ op'[u] = "retune" /\ pc'[u] \in {"read", "write"} =>
                 (was'[u] <=> call'[u] # DriverCall["retune"])
            /\ Muting(u)' => "en" \in asked' /\ "unmute" \notin mishap'
      BY <2>4, <3>1, <3>2
    <3>6. \A b \in Level \ {"en"} : (b \in reg') <=> (b \in asked')
      BY <2>4
    <3>7. ("en" \in reg') <=>
             ("en" \in asked' /\ "unmute" \notin mishap'
                /\ (\A u \in Thread : Muting(u)' => "mute" \in mishap'))
      BY <2>4, <3>3
    <3> QED BY <3>4, <3>5, <3>6, <3>7 DEF LevelsOK
  <2>5. InCall(t) => call[t] \in {DriverCall["retune"], Mute, Unmute}
    BY <2>1 DEF CallOK
  <2>6. \A b \in Level \ {"en"} : (b \in reg) <=> (b \in asked)
    BY DEF LevelsOK
  <2>7. CASE MapFails(t)
    <3>1. pc[t] = "read" /\ op' = op /\ call' = call /\ was' = was
          /\ reg' = reg /\ asked' = asked /\ pc'[t] \in {"idle", "tune"}
      BY <2>1, <2>7 DEF MapFails
    <3>2. CASE call[t] = DriverCall["retune"]
      <4>1. pc'[t] = "tune" /\ mishap' = mishap /\ ~ was[t] /\ ~ Muting(t)
        BY <2>1, <2>3, <2>7, <3>1, <3>2, RetuneCalls DEF MapFails, Muting
      <4> QED BY <2>3, <2>6, <3>1, <4>1 DEF Muting, BeforeMute
    <3>3. CASE call[t] = Mute
      <4>1. pc'[t] = "tune" /\ mishap' = mishap \cup {"mute"}
        BY <2>1, <2>7, <3>3, RetuneCalls DEF MapFails
      <4>2. was[t] /\ "en" \in reg /\ ~ Muting(t)
        BY <2>1, <2>3, <3>1, <3>3, RetuneCalls DEF Muting, BeforeMute
      <4> QED BY <2>1, <2>3, <2>6, <3>1, <4>1, <4>2 DEF Muting, BeforeMute
    <3>4. CASE call[t] = Unmute
      <4>1. /\ pc'[t] = "idle"
            /\ mishap' = IF "mute" \in mishap THEN mishap \ {"mute"}
                                              ELSE mishap \cup {"unmute"}
        BY <2>1, <2>7, <3>4, RetuneCalls DEF MapFails
      <4>2. Muting(t)
        BY <2>1, <2>3, <3>1, <3>4, RetuneCalls DEF Muting
      <4> QED BY <2>1, <2>3, <2>6, <3>1, <4>1, <4>2 DEF Muting, BeforeMute
    <3> QED BY <2>5, <3>1, <3>2, <3>3, <3>4 DEF InCall
  <2>8. CASE Get(t)
    BY <2>1, <2>3, <2>5, <2>6, <2>8, RetuneCalls
       DEF Get, Enter, Muting, BeforeMute, InCall
  <2>9. CASE Read(t)
    BY <2>1, <2>3, <2>5, <2>6, <2>9, RetuneCalls
       DEF Read, Muting, BeforeMute, InCall
  <2>10. CASE Write(t)
    <3>1. pc[t] = "write" /\ op' = op /\ call' = call /\ was' = was
          /\ asked' = asked /\ reg' = Applied(call[t], reg)
      BY <2>1, <2>10 DEF Write, CopyOK
    <3>2. CASE call[t] = Mute
      <4>1. pc'[t] = "tune" /\ mishap' = mishap /\ reg' = reg \ {"en"}
        BY <2>1, <2>10, <3>1, <3>2, RetuneCalls DEF Write, Applied
      <4>2. was[t] /\ "en" \in reg /\ ~ Muting(t)
        BY <2>1, <2>3, <3>1, <3>2, RetuneCalls DEF Muting, BeforeMute
      <4> QED BY <2>1, <2>3, <2>6, <3>1, <4>1, <4>2 DEF Muting, BeforeMute
    <3>3. CASE call[t] = Unmute
      <4>1. pc'[t] = "idle" /\ mishap' = mishap \ {"mute"} /\ reg' = reg \cup {"en"}
        BY <2>1, <2>10, <3>1, <3>3, RetuneCalls DEF Write, Applied
      <4>2. Muting(t)
        BY <2>1, <2>3, <3>1, <3>3, RetuneCalls DEF Muting
      <4> QED BY <2>1, <2>3, <2>6, <3>1, <4>1, <4>2 DEF Muting, BeforeMute
    <3> QED BY <2>1, <2>10, <3>2, <3>3 DEF Write
  <2>11. CASE Tune(t)
    BY <2>1, <2>3, <2>5, <2>6, <2>11, RetuneCalls
       DEF Tune, Enter, Muting, BeforeMute, InCall
  <2>12. ~ Assert(t) /\ ~ Release(t)
    BY <2>1, <2>5, RetuneCalls DEF Assert, Release, CallOK, InCall
  <2> QED BY <1>5, <2>7, <2>8, <2>9, <2>10, <2>11, <2>12 DEF Step, Begin
<1> QED BY <1>2, <1>4, <1>5

\* A kill or a power cycle leaves the levels as asked.
LEMMA LevelsRestart ==
  ASSUME ExclusiveWriter, TypeOK, CallOK, LevelsOK, Kill \/ PowerCycle
  PROVE  LevelsOK'
<1>1. \A u \in Thread : ~ Muting(u)' /\ ~ BeforeMute(u)' /\ op'[u] # "retune"
  BY DEF Kill, PowerCycle, Restart, Muting, BeforeMute
<1>2. CASE PowerCycle
  BY <1>1, <1>2 DEF PowerCycle, LevelsOK
<1>3. CASE Kill
  BY <1>1, <1>3 DEF Kill, LevelsOK
<1> QED BY <1>2, <1>3

Inv == ExclusiveInv /\ LevelsOK

\* The invariant of the levels.
LEMMA Invariant == ASSUME ExclusiveWriter PROVE Spec => []Inv
<1>1. Init => LevelsOK
  BY DEF Init, LevelsOK, Muting, BeforeMute
<1>2. ExclusiveInv /\ LevelsOK /\ [Next]_vars => LevelsOK'
  <2> SUFFICES ASSUME ExclusiveInv, LevelsOK, [Next]_vars PROVE LevelsOK'
    OBVIOUS
  <2> USE DEF ExclusiveInv
  <2>1. CASE UNCHANGED vars
    BY <2>1 DEF vars, threadVars, LevelsOK, Muting, BeforeMute
  <2>2. CASE \E t \in Thread : Step(t) /\ UNCHANGED boot
    BY <2>2, LevelsPlain, LevelsRetune
  <2>3. CASE Kill \/ PowerCycle
    BY <2>3, LevelsRestart
  <2> QED BY <2>1, <2>2, <2>3 DEF Next
<1> QED BY <1>1, <1>2, ExclusiveInvariant, PTL DEF Spec, Inv

\* With an exclusive writer, between operations every level is what the last
\* command asked for, or the DDS is off after a retune whose unmute failed or
\* was cut off (iq_forge.cpp, set_ad9361_tx_lo_frequency).
THEOREM LevelsSettle == ASSUME ExclusiveWriter PROVE Spec => []Settled
<1>1. Inv => Settled
  <2> SUFFICES ASSUME Inv, \A t \in Thread : pc[t] = "idle", NEW b \in Level
               PROVE (b \in reg) <=> (b \in asked /\ ~(b = "en" /\ "unmute" \in mishap))
    BY DEF Settled
  <2>1. \A t \in Thread : ~ Muting(t)
    BY DEF Muting
  <2> QED BY <2>1 DEF Inv, LevelsOK
<1> QED BY <1>1, Invariant, PTL

\* With an exclusive writer, a retune that found the DDS on moves the LO only
\* while it is off, unless the mute failed.
THEOREM RetuneIsMuted == ASSUME ExclusiveWriter PROVE Spec => []MutedWhileTuning
<1>1. Inv => MutedWhileTuning
  <2> SUFFICES ASSUME Inv, NEW t \in Thread, pc[t] = "tune", was[t]
               PROVE "en" \notin reg \/ "mute" \in mishap
    BY DEF MutedWhileTuning
  <2>1. Muting(t)
    BY DEF Inv, ExclusiveInv, CallOK, Muting
  <2> QED BY <2>1 DEF Inv, LevelsOK
<1> QED BY <1>1, Invariant, PTL

(***************************************************************************)
(* Success means what it says.                                             *)
(***************************************************************************)

\* A thread whose last operation changes the register is one of the writers,
\* between its calls too.
WriterMayWrite == \A t \in Thread : op[t] \in Writers => op[t] \in Ops[t]

SuccessInv == WriterMayWrite /\ SuccessIsReal

\* Another thread's step changes nothing a writer relies on.
LEMMA OthersChangeNothing ==
  ASSUME ExclusiveWriter, TypeOK, CallOK, WriterMayWrite,
         NEW t \in Thread, NEW u \in Thread, t # u, op[t] \in Writers, Step(u)
  PROVE  /\ UNCHANGED <<reg, torn>>
         /\ pc'[t] = pc[t] /\ op'[t] = op[t] /\ call'[t] = call[t]
         /\ ret'[t] = ret[t] /\ edge'[t] = edge[t]
<1>1. Ops[u] \cap Writers = {}
  BY DEF WriterMayWrite, ExclusiveWriter
<1>2. ~ Modifying(u)
  <2>1. op[u] \in Ops[u] /\ op[u] \in Writers => FALSE
    BY <1>1
  <2>2. Modifying(u) => op[u] \in Writers /\ op[u] \in Ops[u]
    BY ModifyingWriter DEF CallOK, Modifying
  <2> QED BY <2>1, <2>2
<1>3. Begin(u) \/ MapFails(u) \/ Get(u) \/ Read(u) \/ Tune(u)
  BY <1>2 DEF Step, Write, Assert, Release, Modifying
<1> QED BY <1>3 DEF Begin, MapFails, Get, Read, Tune, Enter, Return, TypeOK

\* The thread's own step.
LEMMA OwnSuccess ==
  ASSUME ExclusiveWriter, ExclusiveInv, SuccessInv, NEW t \in Thread, Step(t), HasBase,
         pc'[t] = "idle", ret'[t] = "ok", op'[t] \in Writers \ {"retune"}
  PROVE  (call'[t].bit \in reg') <=> (call'[t].act = "set")
<1> USE DEF ExclusiveInv, TypeOK
<1>1. CASE Begin(t)
  BY <1>1 DEF Begin, Enter
<1>2. CASE MapFails(t)
  BY <1>2 DEF MapFails, Return
<1>3. CASE Get(t)
  <2>1. op[t] # "retune" /\ op'[t] = op[t] /\ op[t] \in Writers
    BY <1>3 DEF Get, Enter
  <2>2. call[t] = DriverCall[op[t]] /\ call[t].act = "get"
    BY <1>3, <2>1 DEF Get, CallOK, InCall
  <2> QED BY <2>1, <2>2, DriverCallFacts DEF Writers
<1>4. CASE Read(t)
  BY <1>4 DEF Read
<1>5. CASE Write(t)
  <2>1. call[t].act \in {"set", "clear"} /\ reg' = Applied(call[t], v[t]) /\ call' = call
    BY <1>5 DEF Write, CallOK
  <2> QED BY <2>1 DEF Applied
<1>6. CASE Assert(t)
  BY <1>6 DEF Assert
<1>7. CASE Release(t)
  <2>1. call[t].act = "pulse" /\ reg' = v[t] \ {call[t].bit} /\ call' = call
    BY <1>7 DEF Release, CallOK
  <2> QED BY <2>1
<1>8. CASE Tune(t)
  BY <1>8 DEF Tune, CallOK
<1> QED BY <1>1, <1>2, <1>3, <1>4, <1>5, <1>6, <1>7, <1>8 DEF Step

\* A load pulse that is released has given its edge, unless a kill tore it.
LEMMA OwnEdge ==
  ASSUME ExclusiveWriter, ExclusiveInv, SuccessInv, NEW t \in Thread, Step(t),
         pc'[t] = "release", call'[t].bit = "load"
  PROVE  edge'[t] \/ "load" \in torn'
<1> USE DEF ExclusiveInv, TypeOK
<1>1. Assert(t)
  BY DEF Step, Begin, MapFails, Get, Read, Write, Assert, Release, Tune, Enter, Return
<1>2. /\ call[t].bit = "load" /\ torn' = torn /\ pc[t] = "assert"
      /\ edge'[t] = (call[t].bit \in reg' \ reg) /\ "load" \in reg'
  BY <1>1 DEF Assert
<1>3. CASE "load" \notin reg
  BY <1>2, <1>3
<1>4. CASE "load" \in reg
  <2>1. \A u \in Thread : pc[u] # "release"
    <3>1. SUFFICES ASSUME NEW u \in Thread, pc[u] = "release" PROVE FALSE
      OBVIOUS
    <3>2. u = t
      BY <1>2, <3>1, ModifyingWriter, OneWriter DEF Modifying
    <3> QED BY <1>2, <3>1, <3>2
  <2> QED BY <1>2, <1>4, <2>1 DEF PulsesReleased, Pulsed
<1> QED BY <1>3, <1>4

\* What a success rests on is kept by every step.
LEMMA SuccessKept ==
  ASSUME ExclusiveWriter, ExclusiveInv, SuccessInv, [Next]_vars PROVE SuccessInv'
<1> USE DEF ExclusiveInv, SuccessInv, SuccessIsReal
<1>1. CASE UNCHANGED vars
  BY <1>1 DEF vars, threadVars, WriterMayWrite, OkMeansDone, RestartGivesEdge
<1>2. CASE Kill \/ PowerCycle
  BY <1>2 DEF Kill, PowerCycle, Restart, WriterMayWrite, OkMeansDone, RestartGivesEdge,
              Writers, Getters
<1>3. ASSUME NEW t \in Thread, Step(t) PROVE SuccessInv'
  <2>1. WriterMayWrite'
    <3>1. op' = op \/ \E o \in Ops[t] : op' = [op EXCEPT ![t] = o]
      BY <1>3 DEF Step, Begin, MapFails, Get, Read, Write, Assert, Release, Tune
    <3> QED BY <3>1 DEF WriterMayWrite, TypeOK
  <2>2. OkMeansDone'
    <3>1. SUFFICES ASSUME HasBase, NEW u \in Thread, pc'[u] = "idle", ret'[u] = "ok",
                          op'[u] \in Writers \ {"retune"}
                   PROVE  (call'[u].bit \in reg') <=> (call'[u].act = "set")
      BY DEF OkMeansDone
    <3>2. CASE u = t
      BY <1>3, <3>1, <3>2, OwnSuccess
    <3>3. CASE u # t
      <4>1. op'[u] = op[u]
        BY <1>3, <3>3 DEF Step, Begin, MapFails, Get, Read, Write, Assert, Release,
                          Tune, TypeOK
      <4>2. UNCHANGED reg /\ pc'[u] = pc[u] /\ call'[u] = call[u] /\ ret'[u] = ret[u]
        BY <1>3, <3>1, <3>3, <4>1, OthersChangeNothing
      <4> QED BY <3>1, <4>1, <4>2 DEF OkMeansDone
    <3> QED BY <3>2, <3>3
  <2>3. RestartGivesEdge'
    <3>1. SUFFICES ASSUME NEW u \in Thread, pc'[u] = "release", call'[u].bit = "load"
                   PROVE  edge'[u] \/ "load" \in torn'
      BY DEF RestartGivesEdge
    <3>2. CASE u = t
      BY <1>3, <3>1, <3>2, OwnEdge
    <3>3. CASE u # t
      <4>1. pc'[u] = pc[u] /\ op'[u] = op[u]
        BY <1>3, <3>3 DEF Step, Begin, MapFails, Get, Read, Write, Assert, Release,
                          Tune, Enter, Return, TypeOK
      <4>2. op[u] \in Writers
        BY <3>1, <4>1, ModifyingWriter DEF Modifying
      <4>3. UNCHANGED torn /\ call'[u] = call[u] /\ edge'[u] = edge[u]
        BY <1>3, <3>3, <4>2, OthersChangeNothing
      <4> QED BY <3>1, <4>1, <4>3 DEF RestartGivesEdge
    <3> QED BY <3>2, <3>3
  <2> QED BY <2>1, <2>2, <2>3
<1> QED BY <1>1, <1>2, <1>3 DEF Next

\* With an exclusive writer, a command that reported success has its effect in the
\* register until the caller's next one, whatever getters another thread calls, and
\* restart_lfm() gives the edge that restarts the sweep, unless a kill had left the
\* bit high (iq_forge.cpp, dds_ctrl_gpio.cpp).
THEOREM SuccessMeansIt == ASSUME ExclusiveWriter PROVE Spec => []SuccessIsReal
<1>1. Init => SuccessInv
  BY DEF Init, SuccessInv, WriterMayWrite, SuccessIsReal, OkMeansDone, RestartGivesEdge,
         Writers, Getters
<1>2. ExclusiveInv /\ SuccessInv /\ [Next]_vars => SuccessInv'
  BY SuccessKept
<1>3. SuccessInv => SuccessIsReal
  BY DEF SuccessInv
<1> QED BY <1>1, <1>2, <1>3, ExclusiveInvariant, PTL DEF Spec

(***************************************************************************)
(* Refinement: with an exclusive writer, DdsCtrl implements AtomicDds.     *)
(***************************************************************************)
NoTodo == [bit |-> "none", act |-> "none"]

\* What an operation has yet to do.
LEMMA TodoFacts ==
  ASSUME TypeOK, CallOK, NEW t \in Thread
  PROVE  /\ Todo(t) # NoTodo => Todo(t) = call[t] /\ Todo(t) \in Atomic!Command
         /\ Todo(t) # NoTodo <=> /\ pc[t] \in {"read", "write"}
                                 /\ call[t].act \in {"set", "clear"}
<1>1. call[t] \in Call
  BY DEF TypeOK
<1>2. CASE pc[t] \in {"read", "write"} /\ call[t].act \in {"set", "clear"}
  <2>1. call[t].bit \in Level
    BY <1>1, <1>2, CallFacts DEF InCall, Call, Level
  <2> QED BY <1>1, <1>2, <2>1 DEF Todo, NoTodo, Atomic!Command, Call
<1>3. CASE ~(pc[t] \in {"read", "write"} /\ call[t].act \in {"set", "clear"})
  BY <1>3 DEF Todo, NoTodo
<1> QED BY <1>2, <1>3

\* What a step does to the abstract state decides which abstract step it is.
LEMMA AbstractStep ==
  ASSUME TypeOK, CallOK, (TypeOK /\ CallOK)', NEW t \in Thread, UNCHANGED boot,
         \A u \in Thread \ {t} : Todo(u)' = Todo(u),
         \/ (reg \cap Level)' = reg \cap Level
         \/ /\ Todo(t) # NoTodo /\ Todo(t)' = NoTodo
            /\ (reg \cap Level)' = IF Todo(t).act = "set"
                                     THEN (reg \cap Level) \cup {Todo(t).bit}
                                     ELSE (reg \cap Level) \ {Todo(t).bit},
         Todo(t)' = Todo(t) \/ Todo(t)' = NoTodo \/ Todo(t) = NoTodo
  PROVE  [Atomic!Next]_Atomic!vars
<1> DEFINE T == [u \in Thread |-> Todo(u)]
<1>1. T' = [T EXCEPT ![t] = Todo(t)']
  OBVIOUS
<1>2. NoTodo = Atomic!None
  BY DEF NoTodo, Atomic!None
<1>3. Todo(t)' # NoTodo => Todo(t)' \in Atomic!Command
  <2>1. call'[t] \in Call
    BY DEF TypeOK
  <2>2. Todo(t)' # NoTodo => Todo(t)' = call'[t] /\ call'[t].act \in {"set", "clear"}
                             /\ pc'[t] \in {"read", "write"}
    BY DEF Todo, NoTodo
  <2>3. Todo(t)' # NoTodo => call'[t].bit \in Level
    <3>1. op'[t] \in Op
      BY DEF TypeOK
    <3>2. Todo(t)' # NoTodo =>
            call'[t] \in {DriverCall["retune"], Mute, Unmute, DriverCall[op'[t]]}
      BY <2>2 DEF CallOK, InCall
    <3> QED BY <2>1, <2>2, <3>1, <3>2, DriverCallFacts, RetuneCalls
            DEF Level, Call, Pulsed
  <2> QED BY <2>1, <2>2, <2>3 DEF Atomic!Command, Call
<1>4. CASE Todo(t)' = Todo(t) /\ (reg \cap Level)' = reg \cap Level
  <2>1. T' = T
    BY <1>1, <1>4
  <2> QED BY <1>4, <2>1 DEF Atomic!vars
<1>5. CASE Todo(t) = NoTodo /\ Todo(t)' # NoTodo /\ (reg \cap Level)' = reg \cap Level
  <2>1. Atomic!Give(t)
    BY <1>1, <1>2, <1>3, <1>5 DEF Atomic!Give
  <2> QED BY <2>1 DEF Atomic!Next, Atomic!Step
<1>6. CASE Todo(t) # NoTodo /\ Todo(t)' = NoTodo /\ (reg \cap Level)' = reg \cap Level
  <2>1. Atomic!Abort(t)
    BY <1>1, <1>2, <1>6 DEF Atomic!Abort
  <2> QED BY <2>1 DEF Atomic!Next, Atomic!Step
<1>7. CASE /\ Todo(t) # NoTodo /\ Todo(t)' = NoTodo
           /\ (reg \cap Level)' = IF Todo(t).act = "set"
                                    THEN (reg \cap Level) \cup {Todo(t).bit}
                                    ELSE (reg \cap Level) \ {Todo(t).bit}
  <2>1. Atomic!Commit(t)
    BY <1>1, <1>2, <1>7 DEF Atomic!Commit
  <2> QED BY <2>1 DEF Atomic!Next, Atomic!Step
<1> QED BY <1>4, <1>5, <1>6, <1>7

\* Every step is one of AtomicDds, or a stutter.
LEMMA StepRefines ==
  ASSUME ExclusiveInv, (TypeOK /\ CallOK)', NEW t \in Thread, Step(t),
         UNCHANGED boot
  PROVE  [Atomic!Next]_Atomic!vars
<1> USE DEF ExclusiveInv, TypeOK
<1>1. \A u \in Thread \ {t} : Todo(u)' = Todo(u)
  BY DEF Step, Begin, MapFails, Get, Read, Write, Assert, Release, Tune,
         Enter, Return, Todo
<1>2. Todo(t)' = Todo(t) \/ Todo(t)' = NoTodo \/ Todo(t) = NoTodo
  BY DEF Step, Begin, MapFails, Get, Read, Write, Assert, Release, Tune,
         Enter, Return, Todo, NoTodo
<1>3. CASE Begin(t) \/ MapFails(t) \/ Get(t) \/ Read(t) \/ Tune(t)
  <2>1. reg' = reg
    BY <1>3 DEF Begin, MapFails, Get, Read, Tune
  <2> QED BY <1>1, <1>2, <2>1, AbstractStep
<1>4. CASE Assert(t) \/ Release(t)
  <2>1. call[t].bit \in Pulsed
    BY <1>4, CallFacts DEF CallOK, InCall, Assert, Release
  <2>2. (reg \cap Level)' = reg \cap Level
    BY <1>4, <2>1 DEF Assert, Release, CopyOK, Level
  <2> QED BY <1>1, <1>2, <2>2, AbstractStep
<1>5. CASE Write(t)
  <2>1. call[t] \in Call /\ call[t].bit \in Level /\ call[t].act \in {"set", "clear"}
    BY <1>5, CallFacts DEF CallOK, InCall, Write, Call, Level
  <2>2. Todo(t) = call[t] /\ Todo(t) # NoTodo
    BY <1>5, <2>1 DEF Write, Todo, NoTodo
  <2>3. Todo(t)' = NoTodo
    BY <1>5 DEF Write, Return, Todo, NoTodo
  <2>4. reg' = Applied(call[t], reg)
    BY <1>5 DEF Write, CopyOK
  <2>5. (reg \cap Level)' = IF Todo(t).act = "set"
                              THEN (reg \cap Level) \cup {Todo(t).bit}
                              ELSE (reg \cap Level) \ {Todo(t).bit}
    BY <2>1, <2>2, <2>4 DEF Applied
  <2> QED BY <1>1, <2>2, <2>3, <2>5, AbstractStep
<1> QED BY <1>3, <1>4, <1>5 DEF Step

\* With an exclusive writer, every operation of the console menu and of the
\* server is an atomic command on the levels (dds_ctrl_gpio.cpp, iq_forge.cpp).
THEOREM OperationsAreAtomic ==
  ASSUME ExclusiveWriter PROVE Spec => CommandsAreAtomic
<1>1. Init => Atomic!Init
  BY DEF Init, Atomic!Init, Atomic!None, Todo
<1>2. ExclusiveInv /\ (TypeOK /\ CallOK)' /\ [Next]_vars =>
        [Atomic!Next]_Atomic!vars
  <2> SUFFICES ASSUME ExclusiveInv, (TypeOK /\ CallOK)', [Next]_vars
               PROVE  [Atomic!Next]_Atomic!vars
    OBVIOUS
  <2>1. CASE UNCHANGED vars
    BY <2>1 DEF vars, threadVars, Todo, Atomic!vars
  <2>2. CASE \E t \in Thread : Step(t) /\ UNCHANGED boot
    BY <2>2, StepRefines
  <2>3. CASE Kill \/ PowerCycle
    <3>1. \A t \in Thread : Todo(t)' = Atomic!None
      BY <2>3 DEF Kill, PowerCycle, Restart, Todo, Atomic!None
    <3>2. CASE Kill
      <4>1. Atomic!Kill
        BY <3>1, <3>2 DEF Kill, Atomic!Kill
      <4> QED BY <4>1 DEF Atomic!Next
    <3>3. CASE PowerCycle
      <4>1. Atomic!PowerCycle
        BY <3>1, <3>3 DEF PowerCycle, Atomic!PowerCycle
      <4> QED BY <4>1 DEF Atomic!Next
    <3> QED BY <2>3, <3>2, <3>3
  <2> QED BY <2>1, <2>2, <2>3 DEF Next
<1>3. ExclusiveInv => TypeOK /\ CallOK
  BY DEF ExclusiveInv
<1> QED BY <1>1, <1>2, <1>3, ExclusiveInvariant, PTL
        DEF Spec, CommandsAreAtomic, Atomic!Spec
=============================================================================
