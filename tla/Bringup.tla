------------------------------- MODULE Bringup -------------------------------
(***************************************************************************)
(* From a deployed archive to a serving process: scripts/load.sh, main()   *)
(* with iq_forge.cpp, the reset pulse of ad9361_ctrl_gpio.cpp, the vendor  *)
(* id, ad9361_transceiver::init() with the shim, and the start of          *)
(* ad9361_init() that resets the chip.  The process may be killed between  *)
(* any two steps and the board may lose power; the PL, its registers and   *)
(* the AD9361 outlive the process.                                         *)
(***************************************************************************)
EXTENDS Integers

CONSTANTS
  Archives,     \* archives that may be deployed
  CtrlBases,    \* whether the manifest may name AD9361_CTRL_GPIO_BASE
  StepFails,    \* any step may fail
  None          \* no archive

ASSUME BringupAssumption ==
  None \notin Archives /\ CtrlBases \subseteq BOOLEAN /\ StepFails \in BOOLEAN

VARIABLES
  deployed,    \* the archive in the working directory
  hasCtrl,     \* its manifest names the base of the reset register
  pl,          \* external: the archive whose bitstream the PL operates with
  overlay,     \* external: the archive whose overlay is applied
  ctrlPins,    \* the reset register: resetb (bit 0) and txnrx (bit 2)
  ad9361,      \* external: "reset", "fresh", "partial", "ready"
  step,        \* where main() is
  serving,     \* the control server listens
  cold         \* history: the PL was not operating when the process started

boardVars   == <<deployed, hasCtrl, pl, overlay>>
bringupVars == <<boardVars, ctrlPins, ad9361, step, serving, cold>>

MainSteps == {"down", "load", "overlay", "hold", "release", "steady", "id",
           "init", "reset", "setup", "rate", "listen", "up"}
Low    == [resetb |-> 0, txnrx |-> 0]
Steady == [resetb |-> 1, txnrx |-> 1]

\* Every state variable has its type: only the pins' own bits are ever written.
BringupTypeOK ==
  /\ deployed \in Archives /\ hasCtrl \in BOOLEAN
  /\ {pl, overlay} \subseteq Archives \cup {None}
  /\ ctrlPins \in [resetb : {0, 1}, txnrx : {0, 1}]
  /\ ad9361 \in {"reset", "fresh", "partial", "ready"}
  /\ step \in MainSteps /\ serving \in BOOLEAN /\ cold \in BOOLEAN

\* The board powered up, nothing started.
BringupInit ==
  /\ deployed \in Archives /\ hasCtrl \in CtrlBases
  /\ pl = None /\ overlay = None /\ ctrlPins = Low
  /\ ad9361 = "partial" /\ step = "down" /\ serving = FALSE /\ cold = TRUE

-----------------------------------------------------------------------------
Goes(s)  == step' = s
Fails    == StepFails /\ Goes("down")     \* EXIT_FAILURE

\* What the register's low bit does to the chip.
Follows(p) == IF p.resetb = 0 THEN "reset" ELSE IF ctrlPins.resetb = 0 THEN "fresh" ELSE ad9361

Drive(p) == ctrlPins' = p /\ ad9361' = Follows(p)

\* main() starts.  A manifest that is not there or names no bitstream ends it;
\* spi.json has defaults.
Start ==
  /\ step = "down" /\ (Goes("load") \/ (StepFails /\ UNCHANGED step))
  /\ cold' = (pl = None)
  /\ UNCHANGED <<boardVars, ctrlPins, ad9361, serving>>

\* Mutant: a bitstream that cannot be loaded is only reported.
LoadBitstream_goesOn ==
  /\ step = "load" /\ Goes("overlay")
  /\ IF pl # None \/ StepFails THEN UNCHANGED <<pl, ctrlPins, ad9361>> ELSE pl' = deployed /\ Drive(Low)
  /\ UNCHANGED <<deployed, hasCtrl, overlay, serving, cold>>

\* "operating" is not loaded again.  Loading clears the PL's registers.
LoadBitstream ==
  /\ step = "load"
  /\ \/ pl # None /\ Goes("overlay") /\ UNCHANGED <<pl, ctrlPins, ad9361>>
     \/ pl = None /\ Goes("overlay") /\ pl' = deployed /\ Drive(Low)
     \/ pl = None /\ Fails /\ UNCHANGED <<pl, ctrlPins, ad9361>>
  /\ UNCHANGED <<deployed, hasCtrl, overlay, serving, cold>>

\* "applied" is not applied again.
ApplyOverlay ==
  /\ step = "overlay"
  /\ \/ overlay # None /\ Goes("hold") /\ UNCHANGED overlay
     \/ overlay = None /\ Goes("hold") /\ overlay' = deployed
     \/ overlay = None /\ Fails /\ UNCHANGED overlay
  /\ UNCHANGED <<deployed, hasCtrl, pl, ctrlPins, ad9361, serving, cold>>

\* ad9361_ctrl_gpio::bring_up(): three writes a millisecond apart; only the
\* mapping can fail, and only once.
Pulse ==
  /\ \/ step = "hold" /\ ~hasCtrl /\ Goes("id") /\ UNCHANGED <<ctrlPins, ad9361>>
     \/ step = "hold" /\ hasCtrl /\ Goes("release") /\ Drive(Low)
     \/ step = "hold" /\ hasCtrl /\ Fails /\ UNCHANGED <<ctrlPins, ad9361>>
     \/ step = "release" /\ Goes("steady") /\ Drive([Low EXCEPT !.resetb = 1])
     \/ step = "steady" /\ Goes("id") /\ Drive(Steady)
  /\ UNCHANGED <<boardVars, serving, cold>>

\* read_ad9361_vendor_id(): any id will do, only the transfer counts.
ReadId ==
  /\ step = "id" /\ (Goes("init") \/ Fails)
  /\ UNCHANGED <<boardVars, ctrlPins, ad9361, serving, cold>>

\* Mutant: the whole register is written, not one bit of it.
SetResetb_word(v) == \/ StepFails /\ UNCHANGED <<ctrlPins, ad9361>>
                     \/ Drive([Low EXCEPT !.resetb = v])

\* Mutant: the value is shifted once too often.
SetResetb_shifted(v) == \/ StepFails /\ UNCHANGED <<ctrlPins, ad9361>>
                        \/ Drive([ctrlPins EXCEPT !.resetb = 2 * v])

\* hal_gpio_set_value(): read, change the bit, write.  ad9361_init() looks at
\* no result of it.
SetResetb(v) == \/ StepFails /\ UNCHANGED <<ctrlPins, ad9361>>
                \/ Drive([ctrlPins EXCEPT !.resetb = v])

\* ad9361_transceiver_shim_init() to the reset: the pin, if the manifest has
\* the register, is driven low.
InitTransceiver ==
  /\ step = "init" /\ Goes("reset")
  /\ IF hasCtrl THEN SetResetb(0) ELSE UNCHANGED <<ctrlPins, ad9361>>
  /\ UNCHANGED <<boardVars, serving, cold>>

\* ad9361_reset(): low once more, then high.  Without a pin the reset is by
\* SPI, which "may cause unpredicted behavior".
ResetChip ==
  /\ step = "reset" /\ Goes("setup")
  /\ IF hasCtrl THEN SetResetb(1)
     ELSE ad9361' \in {ad9361, "fresh"} /\ UNCHANGED ctrlPins
  /\ UNCHANGED <<boardVars, serving, cold>>

\* Mutant: the product id is not checked.
SetUp_anyId ==
  /\ step = "setup"
  /\ \/ Goes("rate") /\ ad9361' = "ready"
     \/ Fails /\ ad9361' = IF ad9361 = "reset" THEN ad9361 ELSE "partial"
  /\ UNCHANGED <<boardVars, ctrlPins, serving, cold>>

\* The rest of ad9361_init(): a chip in reset has no product id; any error of
\* the set-up ends it with the chip half set up.
SetUp ==
  /\ step = "setup"
  /\ \/ ad9361 # "reset" /\ Goes("rate") /\ ad9361' = "ready"
     \/ ad9361 # "reset" /\ Fails /\ ad9361' = "partial"
     \/ ad9361 = "reset" /\ Goes("down") /\ UNCHANGED ad9361
  /\ UNCHANGED <<boardVars, ctrlPins, serving, cold>>

\* The sample rate and the server: if they fail there is a warning.
Rate   == step = "rate" /\ Goes("listen")
          /\ UNCHANGED <<boardVars, ctrlPins, ad9361, serving, cold>>
Listen == step = "listen" /\ Goes("up") /\ serving' \in (IF StepFails THEN BOOLEAN ELSE {TRUE})
          /\ UNCHANGED <<boardVars, ctrlPins, ad9361, cold>>

\* The menu returns (~control_server stops the server), or the process is
\* killed at any step.
EndsOrKilled ==
  /\ step # "down" /\ Goes("down") /\ serving' = FALSE
  /\ UNCHANGED <<boardVars, ctrlPins, ad9361, cold>>

\* load.sh: the archive is replaced, a running instance killed.
Deploy ==
  /\ \E a \in Archives : deployed' = a
  /\ hasCtrl' \in CtrlBases
  /\ Goes("down") /\ serving' = FALSE
  /\ UNCHANGED <<pl, overlay, ctrlPins, ad9361, cold>>

PowerUp ==
  /\ pl' = None /\ overlay' = None /\ ctrlPins' = Low /\ ad9361' = "partial"
  /\ Goes("down") /\ serving' = FALSE
  /\ UNCHANGED <<deployed, hasCtrl, cold>>

BringupNext ==
  \/ Start \/ LoadBitstream \/ ApplyOverlay \/ Pulse \/ ReadId
  \/ InitTransceiver \/ ResetChip
  \/ SetUp \/ Rate \/ Listen \/ EndsOrKilled \/ Deploy \/ PowerUp

BringupSpec == BringupInit /\ [][BringupNext]_bringupVars

-----------------------------------------------------------------------------
(* Properties. *)

\* Whatever earlier processes and kills have left, and whichever writes of the
\* reset register fail in init(), commands are taken only with a chip that is
\* set up, out of reset and with TXNRX high.
UpIsReady ==
  step = "up" => ad9361 = "ready" /\ (hasCtrl => ctrlPins = Steady)

\* A process that found the PL not operating runs on its own archive's bitstream.
ColdStartLoads == step \notin {"down", "load"} /\ cold => pl = deployed

\* What main() relies on when it opens the menu (main.cpp:1007-1018).
BroughtUp == UpIsReady /\ ColdStartLoads
=============================================================================
