-------------------------------- MODULE Bist --------------------------------
(***************************************************************************)
(* The chip's self-test as the console uses it: tone, PRBS, off, loopback  *)
(* (main.cpp act_bist_..., act_loopback_...; ad9361.c ad9361_bist_tone,    *)
(* ad9361_bist_prbs, ad9361_bist_loopback).  Tone and PRBS write the same  *)
(* register.  Some transfers' results are dropped.                         *)
(***************************************************************************)
EXTENDS Integers

CONSTANTS
  Tones,       \* tone frequencies asked for
  SampleClk,   \* the TX sample clock
  Uint32,      \* 2^32
  Wirings,     \* [rx, tx]: the channels a 1R1T part uses (rx1tx1_mode_use_..._num)
  BistFails    \* SPI transfers may fail

ASSUME BistAssumption ==
  /\ Tones \subseteq Nat /\ SampleClk \in Nat \ {0} /\ Uint32 \in Nat \ {0}
  /\ Wirings \subseteq [rx : {1, 2}, tx : {1, 2}] /\ BistFails \in BOOLEAN

VARIABLES
  wired,      \* the wiring of this board
  txOn,       \* the transmitter enabled in REG_TX_ENABLE_FILTER_CTRL
  bistReg,    \* REG_BIST_CONFIG: generator, tone bits
  bistCached, \* phy->bist_config
  bistModes,  \* phy->bist_tone_mode, phy->bist_prbs_mode
  toneHz,     \* phy->bist_tone_freq_Hz
  loopReg,    \* DATA_PORT_LOOP_TEST_ENABLE
  loopMode,   \* phy->bist_loopback_mode
  bistSaid,   \* the last command, and whether the console reported success
  bistLost    \* history: registers whose last write failed

bistVars == <<wired, txOn, bistReg, bistCached, bistModes, toneHz, loopReg, loopMode, bistSaid, bistLost>>

Off == [run |-> "off", tone |-> 0]

\* Every state variable has its type: a tone number fits its two bits.
BistTypeOK ==
  /\ wired \in Wirings /\ txOn \in {1, 2}
  /\ {bistReg, bistCached} \subseteq [run : {"off", "tone", "prbs"}, tone : 0..3]
  /\ bistModes \in [{"tone", "prbs"} -> BOOLEAN]
  /\ toneHz \in 0..Uint32 - 1
  /\ loopReg \in BOOLEAN /\ loopMode \in BOOLEAN
  /\ bistSaid \in [did : {"none", "tone", "prbs", "off", "loop"}, ok : BOOLEAN]
  /\ bistLost \subseteq {"config", "observe", "cross"}

\* After ad9361_init() on a 1R1T board: phy->bist_config = 0.
BistInit ==
  /\ wired \in Wirings /\ txOn = wired.tx
  /\ bistReg = Off /\ bistCached = Off
  /\ bistModes = [k \in {"tone", "prbs"} |-> FALSE]
  /\ toneHz = 0 /\ loopReg = FALSE /\ loopMode = FALSE
  /\ bistSaid = [did |-> "none", ok |-> TRUE] /\ bistLost = {}

-----------------------------------------------------------------------------
LostNow(writes) == IF BistFails THEN SUBSET writes ELSE {{}}

\* Mutant: the code is the number of the step, not one less.
ToneBits_step(hz) ==
  LET f == hz % Uint32
  IN  IF f < 4 THEN f
      ELSE (((((f * 32) % Uint32) + SampleClk \div 2) % Uint32) \div SampleClk) % 4

\* Mutant: the code is not cut to two bits.
ToneBits_uncut(hz) ==
  LET f == hz % Uint32
      n == ((((f * 32) % Uint32) + SampleClk \div 2) % Uint32) \div SampleClk
  IN  IF f < 4 THEN f ELSE n - 1

\* TONE_FREQ() in ad9361_bist_tone(): the console's 64 bits cut to 32, below 4
\* the number itself, else round(f * 32 / clk) - 1, in 32 bits, of which two
\* are kept.
ToneBits(hz) ==
  LET f == hz % Uint32
      n == ((((f * 32) % Uint32) + SampleClk \div 2) % Uint32) \div SampleClk
  IN  IF f < 4 THEN f ELSE (n - 1) % 4

\* Mutant: the cached copy is set only when the write succeeds.
Configure_late(new, did, lost) ==
  /\ bistReg' = IF "config" \in lost THEN bistReg ELSE new
  /\ bistCached' = bistReg
  /\ bistSaid' = [did |-> did, ok |-> "config" \notin lost]
  /\ bistLost' = (bistLost \ {"config"}) \cup lost

\* The common end of tone and PRBS: phy->bist_config = reg, then the write.
Configure(new, did, lost) ==
  /\ bistReg' = IF "config" \in lost THEN bistReg ELSE new
  /\ bistCached' = new
  /\ bistSaid' = [did |-> did, ok |-> "config" \notin lost]
  /\ bistLost' = (bistLost \ {"config"}) \cup lost

\* act_bist_tone
Tone ==
  \E hz \in Tones, lost \in LostNow({"config"}) :
    /\ Configure([run |-> "tone", tone |-> ToneBits(hz)], "tone", lost)
    /\ bistModes' = [bistModes EXCEPT !["tone"] = TRUE] /\ toneHz' = hz % Uint32
    /\ UNCHANGED <<wired, txOn, loopReg, loopMode>>

\* act_bist_prbs
Prbs ==
  \E lost \in LostNow({"config"}) :
    /\ Configure([run |-> "prbs", tone |-> 0], "prbs", lost)
    /\ bistModes' = [bistModes EXCEPT !["prbs"] = TRUE]
    /\ UNCHANGED <<wired, txOn, toneHz, loopReg, loopMode>>

\* Mutant: a running tone is left alone.
Disable_prbsOnly ==
  \E lost \in LostNow({"config"}) :
    /\ Configure(IF bistReg.run = "tone" THEN bistReg ELSE Off, "off", lost)
    /\ bistModes' = [bistModes EXCEPT !["prbs"] = FALSE]
    /\ UNCHANGED <<wired, txOn, toneHz, loopReg, loopMode>>

\* act_bist_disable: ad9361_bist_prbs(BIST_DISABLE), the tone's mode stays.
Disable ==
  \E lost \in LostNow({"config"}) :
    /\ Configure(Off, "off", lost)
    /\ bistModes' = [bistModes EXCEPT !["prbs"] = FALSE]
    /\ UNCHANGED <<wired, txOn, toneHz, loopReg, loopMode>>

\* Mutant: opening the loop leaves the transmitter it was moved to.
Crossed_kept(on) == IF on THEN wired.rx ELSE txOn

\* ad9361_int_loopback_fix_ch_cross(): the loop works within one channel only,
\* so the transmitter follows the receiver while it is closed.
Crossed(on) ==
  IF wired.rx = wired.tx THEN txOn ELSE IF on THEN wired.rx ELSE wired.tx

\* act_loopback_enable, act_loopback_disable
Loopback(on) ==
  \E lost \in LostNow({"cross", "observe"}) :
    /\ loopMode' = on
    /\ txOn' = IF "cross" \in lost THEN txOn ELSE Crossed(on)
    /\ loopReg' = IF "observe" \in lost THEN loopReg ELSE on
    /\ bistSaid' = [did |-> "loop", ok |-> "observe" \notin lost]
    /\ bistLost' = (bistLost \ {"cross", "observe"}) \cup lost
    /\ UNCHANGED <<wired, bistReg, bistCached, bistModes, toneHz>>

BistNext == Tone \/ Prbs \/ Disable \/ (\E on \in BOOLEAN : Loopback(on))

BistSpec == BistInit /\ [][BistNext]_bistVars

-----------------------------------------------------------------------------
(* Properties. *)

\* "BIST - disable" is a PRBS call, yet it turns off whichever generator runs:
\* once it has reported success nothing is injected until tone or PRBS is asked
\* for again, and phy->bist_config, which others put back after their own use
\* of the block, never brings one back.
DisableStopsBoth ==
  bistSaid = [did |-> "off", ok |-> TRUE] => bistReg = Off /\ bistCached = Off

\* phy->bist_config is the chip's register unless its last write failed.
BistCachedTrue == "config" \notin bistLost => bistCached = bistReg

\* A tone from half the lowest step to half a step above the highest is
\* generated at the nearest multiple of clk / 32.  (Below, the subtraction
\* wraps to the highest tone; far above, the product wraps.)
ToneNearest ==
  bistCached.run = "tone" /\ toneHz >= 4
    /\ 64 * toneHz >= SampleClk /\ 64 * toneHz < 9 * SampleClk
    => LET off(k) == LET d == 32 * toneHz - (k + 1) * SampleClk IN IF d < 0 THEN -d ELSE d
       IN  \A k \in 0..3 : off(bistCached.tone) <= off(k)

\* With the loop open the transmitter enabled is the board's, with it closed
\* the one of its receiver's number, unless a transfer of the last change failed.
LoopCrossed ==
  bistLost \cap {"cross", "observe"} = {} =>
    txOn = (IF loopReg THEN wired.rx ELSE wired.tx)

\* What the BIST commands promise together (ad9361_transceiver.cpp:266-306): the
\* driver's notes, the register and the loop agree.
BistInForce == DisableStopsBoth /\ BistCachedTrue /\ ToneNearest /\ LoopCrossed
=============================================================================
