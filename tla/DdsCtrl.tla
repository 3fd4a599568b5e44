------------------------------ MODULE DdsCtrl ------------------------------
(***************************************************************************)
(* The control register of the DDS transmit chain and the code that drives *)
(* it: drivers/dds_ctrl_gpio (read-modify-write of one 32-bit register     *)
(* through /dev/mem), the operations of project::iq_forge built on it, and *)
(* the LO retune that mutes the DDS around an AD9361 synthesiser change.   *)
(*                                                                         *)
(* Every access to the register is a step of its own, so that two threads  *)
(* (the console menu and the network server, which share one iq_forge with *)
(* no lock) and a kill of the process interleave with the two or three     *)
(* accesses of an operation.  The register lives in the PL: it outlives    *)
(* the process and nothing in start-up writes it.                          *)
(***************************************************************************)

CONSTANTS Thread,   \* threads that call iq_forge: console menu, accept loop
          Ops,      \* Ops[t]: the operations thread t may call
          HasBase,  \* DDS_CTRL_GPIO_BASE is set in the configuration
          CanFail,  \* opening or mapping /dev/mem may fail
          CanKill   \* the process may be killed, the board power-cycled

(***************************************************************************)
(* The bits of the register.  en, mode and cont are levels; rst and load   *)
(* are only ever pulsed.  The register's value is the set of its 1 bits.   *)
(***************************************************************************)
Bit    == {"en", "rst", "mode", "cont", "load"}
Pulsed == {"rst", "load"}
Level  == Bit \ Pulsed

(***************************************************************************)
(* What each iq_forge operation asks of the driver: the bit and whether it *)
(* is read, set, cleared or pulsed.  A retune starts with dds_enabled().   *)
(***************************************************************************)
Call == [bit : Bit, act : {"get", "set", "clear", "pulse"}]

DriverCall ==
  [ enable         |-> [bit |-> "en",   act |-> "set"],
    disable        |-> [bit |-> "en",   act |-> "clear"],
    get_enabled    |-> [bit |-> "en",   act |-> "get"],
    lfm            |-> [bit |-> "mode", act |-> "set"],
    sine           |-> [bit |-> "mode", act |-> "clear"],
    get_mode       |-> [bit |-> "mode", act |-> "get"],
    continious     |-> [bit |-> "cont", act |-> "set"],
    one_shot       |-> [bit |-> "cont", act |-> "clear"],
    get_continious |-> [bit |-> "cont", act |-> "get"],
    reset          |-> [bit |-> "rst",  act |-> "pulse"],
    restart_lfm    |-> [bit |-> "load", act |-> "pulse"],
    retune         |-> [bit |-> "en",   act |-> "get"] ]

Op      == DOMAIN DriverCall
Getters == {"get_enabled", "get_mode", "get_continious"}
Writers == Op \ Getters

Mute   == DriverCall["disable"]
Unmute == DriverCall["enable"]

ASSUME OpsAssumption  == Ops \in [Thread -> SUBSET Op]
ASSUME FlagAssumption == {HasBase, CanFail, CanKill} \subseteq BOOLEAN

-----------------------------------------------------------------------------
VARIABLES
  reg,     \* the PL register: the set of its bits that are 1
  pc,      \* pc[t]: where thread t is
  op,      \* op[t]: the iq_forge operation t runs, or ran last
  call,    \* call[t]: the driver call t is in, or was in last
  v,       \* v[t]: the driver's local copy of the register
  was,     \* was[t]: was_enabled of a retune
  ret,     \* ret[t]: "ok" or "fail", the result of the last operation
  asked,   \* history: the levels as the commands that took effect asked
  torn,    \* history: pulsed bits whose pulse a kill cut short
  mishap,  \* history: which half of a retune's mute/unmute went wrong
  boot,    \* history: flips with every power cycle
  edge     \* edge[t]: the pulse in progress gave a rising edge

threadVars == <<pc, op, call, v, was, ret, edge>>
vars == <<reg, threadVars, asked, torn, mishap, boot>>

PC == {"idle", "read", "write", "assert", "release", "tune"}

\* Every state variable has its type: what a thread writes is made of the five bits.
TypeOK ==
  /\ reg \subseteq Bit
  /\ pc \in [Thread -> PC]
  /\ op \in [Thread -> Op]
  /\ call \in [Thread -> Call]
  /\ v \in [Thread -> SUBSET Bit]
  /\ was \in [Thread -> BOOLEAN]
  /\ ret \in [Thread -> {"ok", "fail"}]
  /\ asked \subseteq Level
  /\ torn \subseteq Pulsed
  /\ mishap \subseteq {"mute", "unmute"}
  /\ boot \in BOOLEAN
  /\ edge \in [Thread -> BOOLEAN]

Init ==
  /\ reg = {}
  /\ pc = [t \in Thread |-> "idle"]
  /\ op = [t \in Thread |-> "get_enabled"]
  /\ call = [t \in Thread |-> DriverCall["get_enabled"]]
  /\ v = [t \in Thread |-> {}]
  /\ was = [t \in Thread |-> FALSE]
  /\ ret = [t \in Thread |-> "fail"]
  /\ edge = [t \in Thread |-> FALSE]
  /\ asked = {}
  /\ torn = {}
  /\ mishap = {}
  /\ boot = FALSE

-----------------------------------------------------------------------------
\* Thread t's operation returns r.
Return(t, r) ==
  /\ pc' = [pc EXCEPT ![t] = "idle"]
  /\ ret' = [ret EXCEPT ![t] = r]

\* Thread t enters driver call c: the driver object is new, so the register
\* is mapped, or fails to map, at its first access, the read.
Enter(t, c) ==
  /\ pc' = [pc EXCEPT ![t] = "read"]
  /\ call' = [call EXCEPT ![t] = c]

\* An operation starts.  Without a register base set_dds_enabled and reset_dds
\* report success, the others failure, and a retune goes straight to the LO.
Begin(t) ==
  \E o \in Ops[t] :
    /\ pc[t] = "idle"
    /\ op' = [op EXCEPT ![t] = o]
    /\ was' = [was EXCEPT ![t] = FALSE]
    /\ IF HasBase
         THEN Enter(t, DriverCall[o]) /\ UNCHANGED ret
         ELSE /\ UNCHANGED call
              /\ IF o = "retune"
                   THEN pc' = [pc EXCEPT ![t] = "tune"] /\ UNCHANGED ret
                   ELSE Return(t, IF o \in {"enable", "disable", "reset"}
                                    THEN "ok" ELSE "fail")
    /\ UNCHANGED <<reg, v, edge, asked, torn, mishap>>

\* Mutant: set_enabled() does not test ok() after the read.
MapFails_reportsOk(t) ==
  /\ CanFail
  /\ pc[t] = "read" /\ op[t] # "retune"
  /\ Return(t, "ok")
  /\ UNCHANGED <<reg, op, call, v, was, edge, asked, torn, mishap>>

\* The mapping fails: the driver call returns false without touching the
\* register.  A retune ignores that: dds_enabled() gives nullopt, which counts
\* as "was not enabled", and the results of the mute and the unmute are dropped.
MapFails(t) ==
  /\ CanFail
  /\ pc[t] = "read"
  /\ \/ /\ op[t] # "retune"
        /\ Return(t, "fail")
        /\ UNCHANGED mishap
     \/ /\ op[t] = "retune" /\ call[t] # Unmute
        /\ pc' = [pc EXCEPT ![t] = "tune"]
        /\ mishap' = IF call[t] = Mute THEN mishap \cup {"mute"} ELSE mishap
        /\ UNCHANGED ret
     \/ /\ op[t] = "retune" /\ call[t] = Unmute
        /\ pc' = [pc EXCEPT ![t] = "idle"]
        /\ mishap' = IF "mute" \in mishap THEN mishap \ {"mute"}
                                          ELSE mishap \cup {"unmute"}
        /\ UNCHANGED ret
  /\ UNCHANGED <<reg, op, call, v, was, edge, asked, torn>>

\* Mutant: the retune does not mute.
Get_noMute(t) ==
  /\ pc[t] = "read" /\ call[t].act = "get"
  /\ \/ op[t] # "retune" /\ Return(t, "ok") /\ UNCHANGED was
     \/ /\ op[t] = "retune"
        /\ was' = [was EXCEPT ![t] = "en" \in reg]
        /\ pc' = [pc EXCEPT ![t] = "tune"]
        /\ UNCHANGED ret
  /\ UNCHANGED <<reg, op, call, v, edge, asked, torn, mishap>>

\* A getter's only access to the register.
Get(t) ==
  /\ pc[t] = "read" /\ call[t].act = "get"
  /\ \/ op[t] # "retune" /\ Return(t, "ok") /\ UNCHANGED <<call, was>>
     \/ /\ op[t] = "retune" /\ "en" \in reg
        /\ was' = [was EXCEPT ![t] = TRUE]
        /\ Enter(t, Mute)
        /\ UNCHANGED ret
     \/ /\ op[t] = "retune" /\ "en" \notin reg
        /\ pc' = [pc EXCEPT ![t] = "tune"]
        /\ UNCHANGED <<call, was, ret>>
  /\ UNCHANGED <<reg, op, v, edge, asked, torn, mishap>>

\* The read of a read-modify-write.
Read(t) ==
  /\ pc[t] = "read" /\ call[t].act # "get"
  /\ v' = [v EXCEPT ![t] = reg]
  /\ pc' = [pc EXCEPT ![t] = IF call[t].act = "pulse" THEN "assert" ELSE "write"]
  /\ UNCHANGED <<reg, op, call, was, ret, edge, asked, torn, mishap>>

\* Bits x with the bit of call c set or cleared.
Applied(c, x) == IF c.act = "set" THEN x \cup {c.bit} ELSE x \ {c.bit}

\* The write of set_enabled() or set_bit().  In a retune the mute leads to the
\* LO change and the unmute ends the operation.
Write(t) ==
  /\ pc[t] = "write"
  /\ reg' = Applied(call[t], v[t])
  /\ \/ /\ op[t] # "retune"
        /\ Return(t, "ok")
        /\ asked' = Applied(call[t], asked)
        /\ mishap' = IF call[t].bit = "en" THEN mishap \ {"unmute"} ELSE mishap
     \/ /\ op[t] = "retune" /\ call[t] = Mute
        /\ pc' = [pc EXCEPT ![t] = "tune"]
        /\ UNCHANGED <<ret, asked, mishap>>
     \/ /\ op[t] = "retune" /\ call[t] = Unmute
        /\ pc' = [pc EXCEPT ![t] = "idle"]
        /\ mishap' = mishap \ {"mute"}
        /\ UNCHANGED <<ret, asked>>
  /\ UNCHANGED <<op, call, v, was, edge, torn>>

\* Mutants: the mask of another bit; the bit forgotten; the release forgotten;
\* the release writing 0.
Assert_wrongMask(t) ==
  /\ pc[t] = "assert"
  /\ reg' = v[t] \cup {"bit5"}
  /\ pc' = [pc EXCEPT ![t] = "release"]
  /\ UNCHANGED <<op, call, v, was, ret, edge, asked, torn, mishap>>

Assert_noBit(t) ==
  /\ pc[t] = "assert"
  /\ reg' = v[t]
  /\ edge' = [edge EXCEPT ![t] = call[t].bit \in reg' \ reg]
  /\ pc' = [pc EXCEPT ![t] = "release"]
  /\ UNCHANGED <<op, call, v, was, ret, asked, torn, mishap>>

Release_keepsBit(t) ==
  /\ pc[t] = "release"
  /\ torn' = torn \ {call[t].bit}
  /\ Return(t, "ok")
  /\ UNCHANGED <<reg, op, call, v, was, edge, asked, mishap>>

Release_zero(t) ==
  /\ pc[t] = "release"
  /\ reg' = {}
  /\ torn' = torn \ {call[t].bit}
  /\ Return(t, "ok")
  /\ UNCHANGED <<op, call, v, was, edge, asked, mishap>>

\* The two writes of reset() and restart_lfm(), both computed from the one read.
Assert(t) ==
  /\ pc[t] = "assert"
  /\ reg' = v[t] \cup {call[t].bit}
  /\ edge' = [edge EXCEPT ![t] = call[t].bit \in reg' \ reg]
  /\ pc' = [pc EXCEPT ![t] = "release"]
  /\ UNCHANGED <<op, call, v, was, ret, asked, torn, mishap>>

Release(t) ==
  /\ pc[t] = "release"
  /\ reg' = v[t] \ {call[t].bit}
  /\ torn' = torn \ {call[t].bit}
  /\ Return(t, "ok")
  /\ UNCHANGED <<op, call, v, was, edge, asked, mishap>>

\* Mutant: an early return on failure skips the unmute.
Tune_failSkipsUnmute(t) ==
  \E r \in {"ok", "fail"} :
    /\ pc[t] = "tune"
    /\ ret' = [ret EXCEPT ![t] = r]
    /\ IF was[t] /\ r = "ok"
         THEN Enter(t, Unmute)
         ELSE pc' = [pc EXCEPT ![t] = "idle"] /\ UNCHANGED call
    /\ UNCHANGED <<reg, op, v, was, edge, asked, torn, mishap>>

\* ad9361_transceiver::set_tx_lo_frequency (the LO, then the quadrature
\* calibration) returns r; iq_forge then unmutes if it had found the DDS on.
Tune(t) ==
  \E r \in {"ok", "fail"} :
    /\ pc[t] = "tune"
    /\ ret' = [ret EXCEPT ![t] = r]
    /\ IF was[t]
         THEN Enter(t, Unmute)
         ELSE pc' = [pc EXCEPT ![t] = "idle"] /\ UNCHANGED call
    /\ UNCHANGED <<reg, op, v, was, edge, asked, torn, mishap>>

\* Threads between a retune's mute and its unmute.
Muting(t) ==
  /\ op[t] = "retune" /\ was[t]
  /\ \/ pc[t] = "tune"
     \/ pc[t] \in {"read", "write"} /\ call[t] = Unmute

\* A new process starts: no thread is in a call.
Restart ==
  /\ pc' = [t \in Thread |-> "idle"]
  /\ op' = [t \in Thread |-> "get_enabled"]
  /\ call' = [t \in Thread |-> DriverCall["get_enabled"]]
  /\ v' = [t \in Thread |-> {}]
  /\ was' = [t \in Thread |-> FALSE]
  /\ ret' = [t \in Thread |-> "fail"]
  /\ edge' = [t \in Thread |-> FALSE]

\* The process is killed (load.sh kills the previous instance) and starts
\* again.  The FPGA is still "operating", so the register keeps its value.
Kill ==
  /\ CanKill
  /\ Restart
  /\ torn' = torn \cup {call[t].bit : t \in {u \in Thread : pc[u] = "release"}}
  /\ mishap' = IF "mute" \in mishap THEN mishap \ {"mute"}
               ELSE IF \E t \in Thread : Muting(t)
                      THEN mishap \cup {"unmute"} ELSE mishap
  /\ UNCHANGED <<reg, asked, boot>>

\* A power cycle reconfigures the PL, which clears the register.
PowerCycle ==
  /\ CanKill
  /\ Restart
  /\ reg' = {} /\ asked' = {} /\ torn' = {} /\ mishap' = {}
  /\ boot' = ~boot

Step(t) ==
  \/ Begin(t) \/ MapFails(t) \/ Get(t) \/ Read(t) \/ Write(t)
  \/ Assert(t) \/ Release(t) \/ Tune(t)

Next == (\E t \in Thread : Step(t) /\ UNCHANGED boot) \/ Kill \/ PowerCycle

Spec == Init /\ [][Next]_vars

-----------------------------------------------------------------------------
(***************************************************************************)
(* Properties.  They are promised only where one thread at a time changes  *)
(* the register: the "console XOR GUI" use that control_server.h names.    *)
(***************************************************************************)

\* Some thread only reads the register, or there is just one.
ExclusiveWriter ==
  \A t, u \in Thread :
    t # u => Ops[t] \cap Writers = {} \/ Ops[u] \cap Writers = {}

\* reset() and restart_lfm() release what they assert: outside such a call rst
\* and load are low, except when a kill cut the pulse short and no later pulse
\* of the same bit has completed (dds_ctrl_gpio.cpp, reset and restart_lfm).
PulsesReleased ==
  \A b \in Pulsed \cap reg :
    b \in torn \/ \E t \in Thread : pc[t] = "release" /\ call[t].bit = b

\* With no operation in progress, each level is what the last command that
\* took effect asked for: no read-modify-write of another bit and no retune
\* loses it.  The one exception is an unmute that failed unnoticed or that a
\* kill prevented, after which the DDS is off (iq_forge.cpp, set_..._lo_...).
Settled ==
  (\A t \in Thread : pc[t] = "idle") =>
    \A b \in Level :
      (b \in reg) <=> (b \in asked /\ ~(b = "en" /\ "unmute" \in mishap))

\* A command that reported success has its effect in the register until the
\* caller's next command; a reset frees a DDS that a kill had left in reset.
OkMeansDone ==
  HasBase =>
  \A t \in Thread :
    pc[t] = "idle" /\ ret[t] = "ok" /\ op[t] \in Writers \ {"retune"} =>
      ((call[t].bit \in reg) <=> (call[t].act = "set"))

\* A retune that found the DDS on changes the LO only while it is off, unless
\* the mute itself failed.
MutedWhileTuning ==
  \A t \in Thread :
    pc[t] = "tune" /\ was[t] => "en" \notin reg \/ "mute" \in mishap

\* restart_lfm() gives the rising edge that restarts the sweep, unless a kill
\* had left the bit high.
RestartGivesEdge ==
  \A t \in Thread :
    pc[t] = "release" /\ call[t].bit = "load" => edge[t] \/ "load" \in torn

\* A report of success means what it says, for levels and for pulses.
SuccessIsReal == OkMeansDone /\ RestartGivesEdge

\* What dds_ctrl_gpio.h says of reset(): rst is released as soon as the call
\* is over.
ResetReleased ==
  (\A t \in Thread : pc[t] = "idle") => "rst" \notin reg

\* A step changes no bit but the one its own driver call is about.
OnlyItsBit ==
  [][ boot' # boot \/
      \A b \in Bit :
        ((b \in reg) # (b \in reg')) =>
          \E t \in Thread :
            /\ call[t].bit = b
            /\ pc[t] \in {"write", "assert", "release"} /\ pc'[t] # pc[t] ]_reg

(***************************************************************************)
(* With one writer the operations implement atomic commands on the levels. *)
(***************************************************************************)
Todo(t) == IF pc[t] \in {"read", "write"} /\ call[t].act \in {"set", "clear"}
             THEN call[t] ELSE [bit |-> "none", act |-> "none"]

Atomic == INSTANCE AtomicDds WITH level <- reg \cap Level,
                                  todo <- [t \in Thread |-> Todo(t)],
                                  boot <- boot

\* Each level changes only at one instant of a command that names it, whatever
\* the number of register accesses the command takes (dds_ctrl_gpio.cpp).
CommandsAreAtomic == Atomic!Spec
=============================================================================
