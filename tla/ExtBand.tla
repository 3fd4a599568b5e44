------------------------------ MODULE ExtBand ------------------------------
(***************************************************************************)
(* External band control: ad9361_ext_band_ctrl.c switches GPIO lines and   *)
(* RF ports when an LO enters another band, as ad9361_rfpll_set_rate()     *)
(* asks it to, ignoring its answer.  A step of a switch (a GPIO, a port)   *)
(* may fail; what was done before stays done.  Nothing in the program      *)
(* registers a controller; the calls are those of its interface.           *)
(***************************************************************************)
EXTENDS Integers, Sequences

CONSTANTS
  MaxGpios,    \* AD9361_EXT_BAND_MAX_GPIOS
  Bands,       \* settings: [for, lo, hi, pins, rx, tx, pre, post]
  MaxBands,    \* bound: the settings of a direction
  BandLos,     \* the LO frequencies
  RxPorts,     \* the ports asked of ad9361_set_rx_rf_port_input()
  BandFails    \* whether a step may fail

NoPort == -1
Gpios == 1..MaxGpios
Ways == {"rx", "tx"}
Levels == {"low", "high", "input"}

\* What a setting and each of its steps has: an operation for each line, a port or none.
Operations == Levels \union {"nop"}
BandSteps == [pins : [Gpios -> Operations], rx : -1..11, tx : -1..1]

ASSUME ExtBandAssumption ==
  /\ MaxGpios \in Nat \ {0} /\ BandFails \in BOOLEAN /\ RxPorts \subseteq 0..11
  /\ \A b \in Bands : /\ b.for \in Ways /\ b.lo \in Int /\ b.hi \in Int
                      /\ b.pins \in [Gpios -> Operations] /\ b.rx \in -1..11 /\ b.tx \in -1..1
                      /\ b.pre \in Seq(BandSteps) /\ b.post \in Seq(BandSteps)
  /\ BandLos \subseteq Int /\ MaxBands \in Nat

VARIABLES
  ngpios,    \* ctl->ngpios
  bands,     \* ctl->{rx,tx}_settings
  inUse,     \* ctl->current_{rx,tx}_setting: its place, 0 for none
  attached,  \* phy->ext_band_ctl
  pins,      \* what each line is: "low", "high" or "input"
  port,      \* REG_INPUT_SELECT: its bits; the TX monitors
  want,      \* pdata's selection of ports
  lastLo,    \* the last frequency each direction was adjusted to, 0 for none
  stray,     \* of each direction, the lines that its setting in use was not the last to drive
  result     \* what the last call returned

bandVars == <<ngpios, bands, inUse, attached, pins, port, want, lastLo, stray, result>>

-----------------------------------------------------------------------------
(* Ports. *)

\* ad9361_rf_port_setup(): one register for both selections, an 8-bit one.
Bits(rx, tx) ==
  ((IF rx < 3 THEN {2 * rx, 2 * rx + 1} ELSE {rx - 3}) \union (IF tx > 0 THEN {6} ELSE {})) \intersect 0..7

\* Mutant: the TX selection is not put into the register.
PortSetup_rxOnly(p, out, rx, tx) == [p EXCEPT !.bits = Bits(rx, 0)]

\* Ports 9 to 11 are the TX monitors and leave the register as it is.
PortSetup(p, out, rx, tx) ==
  IF ~out /\ rx > 8 THEN [p EXCEPT !.monitor = rx % 4]
  ELSE [p EXCEPT !.bits = Bits(rx, tx), !.monitor = IF out THEN @ ELSE 0]

-----------------------------------------------------------------------------
(* A switch: the steps before, the setting itself, the steps after.  What each of *)
(* them does is a pair of its place and a slot: a line, the RX or the TX port.     *)

RxSlot == MaxGpios + 1
TxSlot == MaxGpios + 2

\* Mutant: the last that matches.
Found_last(list, hz) ==
  LET match == {i \in 1..Len(list) : list[i].lo <= hz /\ hz < list[i].hi}
  IN  IF match = {} THEN 0 ELSE CHOOSE i \in match : \A j \in match : j <= i

\* find_setting(): the first that matches, 0 for none.
FirstCovering(list, hz) ==
  LET match == {i \in 1..Len(list) : list[i].lo <= hz /\ hz < list[i].hi}
  IN  IF match = {} THEN 0 ELSE CHOOSE i \in match : \A j \in match : i <= j

\* Mutant: a line the setting in use leaves alone is taken to be right.
Acts_nop(s, old, slot) ==
  CASE slot = RxSlot -> s.rx # NoPort /\ \A o \in old : o.rx # s.rx
    [] slot = TxSlot -> s.tx # NoPort /\ \A o \in old : o.tx # s.tx
    [] OTHER -> slot <= ngpios /\ s.pins[slot] # "nop" /\ \A o \in old : o.pins[slot] \notin {"nop", s.pins[slot]}

\* apply_gpio_settings() and the ports of apply_setting(): what is to be done, that
\* the setting in use has not done.
Acts(s, old, slot) ==
  CASE slot = RxSlot -> s.rx # NoPort /\ \A o \in old : o.rx # s.rx
    [] slot = TxSlot -> s.tx # NoPort /\ \A o \in old : o.tx # s.tx
    [] OTHER -> slot <= ngpios /\ s.pins[slot] # "nop" /\ \A o \in old : o.pins[slot] # s.pins[slot]

Precedes(a, b) == a[1] < b[1] \/ (a[1] = b[1] /\ a[2] < b[2])

\* The setting with its steps, and its place among them.
WithSteps(b) == b.pre \o <<b>> \o b.post
OwnPlace(b) == Len(b.pre) + 1

\* apply_setting(): each step is compared with nothing, the setting with the one in use.
Script(new, old) ==
  {a \in (1..Len(WithSteps(new))) \X (1..TxSlot) :
     Acts(WithSteps(new)[a[1]], IF a[1] = OwnPlace(new) THEN old ELSE {}, a[2])}

\* What is done of a script: all of it, or what comes before the step that fails.
Outcomes(script) ==
  {script} \union IF BandFails THEN {{b \in script : Precedes(b, a)} : a \in script} ELSE {}

\* Mutant: the setting is in use before it is applied.
Applied_first(own, left) == TRUE

\* The setting in use is changed between the setting's own steps and those after.
Applied(own, left) == \A a \in left : a[1] > own

\* Whose drive of a line among those done is the last.
LastDrive(done, line) ==
  CHOOSE g \in {a[1] : a \in done} : <<g, line>> \in done /\ \A h \in {a[1] : a \in done} : <<h, line>> \in done => h <= g

Driven(done) == {i \in Gpios : \E a \in done : a[2] = i}

\* The ports after each place of the list; a port step gives ad9361_rf_port_setup() 0
\* for the other port.
Ports(list, done) ==
  LET after[g \in 0..Len(list)] ==
        IF g = 0 THEN port
        ELSE LET rx == IF <<g, RxSlot>> \in done THEN PortSetup(after[g - 1], FALSE, list[g].rx, 0) ELSE after[g - 1]
             IN  IF <<g, TxSlot>> \in done THEN PortSetup(rx, TRUE, 0, list[g].tx) ELSE rx
  IN  after[Len(list)]

-----------------------------------------------------------------------------
(* Calls. *)

\* Mutant: one line too many is taken.
AddGpio_over ==
  /\ ngpios' = IF ngpios > MaxGpios THEN ngpios ELSE ngpios + 1
  /\ UNCHANGED <<bands, inUse, attached, pins, port, want, lastLo, stray, result>>

\* ad9361_ext_band_ctl_add_gpio(): at most MaxGpios.
AddGpio ==
  /\ ngpios' = IF ngpios = MaxGpios THEN ngpios ELSE ngpios + 1
  /\ result' = IF ngpios = MaxGpios THEN "ENOMEM" ELSE "ok"
  /\ UNCHANGED <<bands, inUse, attached, pins, port, want, lastLo, stray>>

\* ad9361_band_setting_alloc() with its setters, and ad9361_ext_band_ctl_add_{rx,tx}_setting().
AddBand(b) ==
  /\ Len(bands[b.for]) < MaxBands /\ \A i \in 1..Len(bands[b.for]) : bands[b.for][i] # b
  /\ bands' = [bands EXCEPT ![b.for] = Append(@, b)]
  /\ result' = "ok"
  /\ UNCHANGED <<ngpios, inUse, attached, pins, port, want, lastLo, stray>>

\* ad9361_register_ext_band_control(), ad9361_unregister_ext_band_control()
Attach(on) ==
  /\ attached' = on
  /\ result' = "ok"
  /\ UNCHANGED <<ngpios, bands, inUse, pins, port, want, lastLo, stray>>

\* apply_setting() of direction d's setting at i, of which `done' is done.
Switch(d, i, script, done) ==
  LET new == bands[d][i]
      applied == Applied(OwnPlace(new), script \ done)
      kept == {l \in Driven(done) : applied /\ LastDrive(done, l) = OwnPlace(new)}
  IN  /\ pins' = [l \in Gpios |-> IF l \in Driven(done) THEN WithSteps(new)[LastDrive(done, l)].pins[l]
                                 ELSE pins[l]]
      /\ port' = Ports(WithSteps(new), done)
      /\ inUse' = [inUse EXCEPT ![d] = IF applied THEN i ELSE @]
      /\ stray' = [e \in Ways |-> (stray[e] \union Driven(done)) \ (IF e = d THEN kept ELSE {})]
      /\ result' = IF done = script THEN "ok" ELSE "error"

\* ad9361_adjust_{rx,tx}_ext_band_settings()
Adjust(d, hz) ==
  LET i == FirstCovering(bands[d], hz)
      old == IF inUse[d] = 0 THEN {} ELSE {bands[d][inUse[d]]}
      script == Script(bands[d][i], old)
  IN  /\ IF ~attached \/ i = 0 \/ i = inUse[d]
         THEN result' = "ok" /\ UNCHANGED <<inUse, pins, port, stray>>
         ELSE \E done \in Outcomes(script) : Switch(d, i, script, done)
      /\ lastLo' = [lastLo EXCEPT ![d] = IF attached THEN hz ELSE @]
      /\ UNCHANGED <<ngpios, bands, attached, want>>

\* ad9361_set_rx_rf_port_input()
SetRxPort(p) ==
  /\ want' = [want EXCEPT !.rx = p] /\ port' = PortSetup(port, FALSE, p, want.tx)
  /\ result' = "ok"
  /\ UNCHANGED <<ngpios, bands, inUse, attached, pins, lastLo, stray>>

\* ad9361_set_tx_rf_port_output(); with a monitor selected it writes that number's bit.
SetTxPort(p) ==
  /\ want' = [want EXCEPT !.tx = p] /\ port' = PortSetup(port, TRUE, want.rx, p)
  /\ result' = "ok"
  /\ UNCHANGED <<ngpios, bands, inUse, attached, pins, lastLo, stray>>

BandInit ==
  /\ ngpios = 0 /\ bands = [d \in Ways |-> <<>>] /\ inUse = [d \in Ways |-> 0]
  /\ attached = FALSE /\ pins = [i \in Gpios |-> "input"]
  /\ port = [bits |-> Bits(0, 0), monitor |-> 0] /\ want = [rx |-> 0, tx |-> 0]
  /\ lastLo = [d \in Ways |-> 0] /\ stray = [d \in Ways |-> {}] /\ result = "ok"

\* The lines and the tables are set up before the controller is registered.
BandNext ==
  \/ ~attached /\ AddGpio
  \/ ~attached /\ \E b \in Bands : ngpios = MaxGpios /\ AddBand(b)
  \/ \E on \in BOOLEAN : Attach(on)
  \/ \E d \in Ways, hz \in BandLos : Adjust(d, hz)
  \/ \E p \in RxPorts : SetRxPort(p)
  \/ \E p \in {0, 1} : SetTxPort(p)

BandSpec == BandInit /\ [][BandNext]_bandVars

-----------------------------------------------------------------------------
(* Properties. *)

\* Every state variable has its type; the lines never exceed the array.
BandTypeOK ==
  /\ ngpios \in 0..MaxGpios /\ attached \in BOOLEAN
  /\ \A d \in Ways : inUse[d] \in 0..Len(bands[d])
  /\ pins \in [Gpios -> Levels]
  /\ port.bits \subseteq 0..7 /\ port.monitor \in 0..3
  /\ stray \in [Ways -> SUBSET Gpios]

\* The lines are as the setting in use says, however the LOs came to it: save those
\* that were last driven by a step before or after a setting, by a switch that failed
\* before its setting was in use, or for the other direction.
BandInForce ==
  \A d \in Ways : inUse[d] # 0 =>
    LET b == bands[d][inUse[d]]
    IN  \A i \in (1..ngpios) \ stray[d] : b.pins[i] # "nop" => pins[i] = b.pins[i]

\* A switch that succeeded leaves in use the first setting whose band holds the LO.
FirstMatch ==
  [][\A d \in Ways : (inUse'[d] # inUse[d] \/ (attached /\ lastLo'[d] # lastLo[d] /\ result' = "ok")) =>
       LET hold == {i \in 1..Len(bands[d]) : bands[d][i].lo <= lastLo'[d] /\ lastLo'[d] < bands[d][i].hi}
       IN  hold # {} => inUse'[d] \in hold /\ (\A i \in hold : inUse'[d] <= i)]_bandVars

\* A switch that fails can be tried again, as its setting is not in use, unless what
\* failed is a step after the setting.
FailedIsRetried ==
  [][result' = "error" => \A d \in Ways : inUse'[d] # inUse[d] =>
       LET b == bands[d][inUse'[d]]
       IN  Len(b.post) > 0 /\ (\A i \in (1..ngpios) \ stray'[d] : b.pins[i] \in {"nop", pins'[i]})]_bandVars

\* After ad9361_set_{rx,tx}_rf_port_*() the register selects both ports asked for,
\* unless a TX monitor is asked for instead of an RX port.
PortsAsAsked ==
  [][want' # want /\ want'.rx <= 8 => port'.bits = Bits(want'.rx, want'.tx)]_bandVars

\* What the band controller promises of the lines, the ports and the band in use, a
\* switch that fails on the way included.
BandsKept == []BandInForce /\ FirstMatch /\ FailedIsRetried /\ PortsAsAsked

=============================================================================
