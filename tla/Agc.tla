-------------------------------- MODULE Agc --------------------------------
(***************************************************************************)
(* The RX gain control modes: the console's command (main.cpp              *)
(* act_rx_agc_set), the facade's pair of calls, the API and                *)
(* ad9361_set_gain_ctrl_mode() with ad9361_gc_update().  The receiver is   *)
(* disabled around the change; both receivers share one register and one   *)
(* bit of it.  Any transfer may fail; the API returns 0 all the same.      *)
(***************************************************************************)
EXTENDS Integers

CONSTANTS
  AgcModes,    \* the modes asked for, of Modes
  UseRx,       \* receivers a 1R1T board may use (rx1tx1_mode_use_rx_num)
  AgcFails     \* SPI transfers may fail

Rx    == {1, 2}
Modes == {"manual", "fast", "slow", "hybrid"}
AgcCodes == 0..3   \* two bits, RX_GAIN_CTL_MASK

ASSUME AgcAssumption ==
  AgcModes \subseteq Modes /\ UseRx \subseteq Rx /\ UseRx # {} /\ AgcFails \in BOOLEAN

VARIABLES
  usedRx,     \* the receiver of this board
  rxOn,       \* the receivers enabled in REG_RX_ENABLE_FILTER_CTRL
  agcReg,     \* REG_AGC_CONFIG_1: the RX_GAIN_CTL code of each receiver
  hybrid,     \* its SLOW_ATTACK_HYBRID_MODE, one bit for both
  agcMode,    \* phy->agc_mode, by channel
  measure,    \* REG_DEC_POWER_MEASURE_DURATION_0: "fast" attack's, or "other"
  agcLost     \* history: the channels a transfer of the last command
              \* failed for; both before the first command

agcVars == <<usedRx, rxOn, agcReg, hybrid, agcMode, measure, agcLost>>

\* Every state variable has its type: codes of the register, modes of the note.
AgcTypeOK ==
  /\ usedRx \in UseRx /\ rxOn \subseteq Rx
  /\ agcReg \in [Rx -> AgcCodes] /\ hybrid \in BOOLEAN
  /\ agcMode \in [Rx -> Modes] /\ measure \in {"fast", "other"}
  /\ agcLost \subseteq Rx

\* RX_GAIN_CTL_MGC, _AGC_FAST_ATK, _AGC_SLOW_ATK and _AGC_SLOW_ATK_HYBD.
Coded(mode) ==
  IF mode = "manual" THEN 0 ELSE IF mode = "fast" THEN 1 ELSE IF mode = "slow" THEN 2 ELSE 3

\* A slow-attack setup: ad9361_setup() enables the one receiver.
AgcInit ==
  /\ usedRx \in UseRx /\ rxOn = {usedRx}
  /\ agcReg = [r \in Rx |-> Coded("slow")] /\ hybrid = FALSE
  /\ agcMode = [r \in Rx |-> "slow"] /\ measure = "other" /\ agcLost = Rx

-----------------------------------------------------------------------------
Chip == [on |-> rxOn, reg |-> agcReg, hybrid |-> hybrid, mode |-> agcMode,
         measure |-> measure, lost |-> {}]

Becomes(c) ==
  /\ rxOn' = c.on /\ agcReg' = c.reg /\ hybrid' = c.hybrid
  /\ agcMode' = c.mode /\ measure' = c.measure /\ agcLost' = c.lost

\* ad9361_1rx1tx_channel_map(): a 1R1T board on RX2 counts from there; the
\* second channel is then a receiver that does not exist.
Receiver(ch) == IF usedRx = 2 THEN ch + 1 ELSE ch

\* The duration gc_update() writes: fast attack's if either channel is in it.
Duration(modes) == IF \E ch \in Rx : modes[ch] = "fast" THEN "fast" ELSE "other"

AgcTransfers == {"read", "disable", "write", "enable", "measure"}

AgcSlips == IF AgcFails THEN SUBSET AgcTransfers ELSE {{}}

\* Mutant: the receiver is not enabled again.
Moded_off(c, ch, mode, f) ==
  LET r == Receiver(ch)
      m == [c EXCEPT !.mode[ch] = mode, !.lost = IF f # {} THEN @ \cup {ch} ELSE @]
  IN  IF "read" \in f \/ r \notin Rx \/ "disable" \in f THEN m
      ELSE IF "write" \in f THEN [m EXCEPT !.on = @ \ {r}]
      ELSE [m EXCEPT !.on = @ \ {r},
                     !.reg[r] = Coded(mode), !.hybrid = mode = "hybrid",
                     !.measure = IF "measure" \in f THEN @ ELSE Duration(m.mode)]

\* Mutant: the mode is stored after the call, when the duration is written.
Moded_stored(c, ch, mode, f) ==
  LET r == Receiver(ch)
      m == [c EXCEPT !.mode[ch] = mode, !.lost = IF f # {} THEN @ \cup {ch} ELSE @]
  IN  IF "read" \in f \/ r \notin Rx \/ "disable" \in f THEN m
      ELSE IF "write" \in f THEN [m EXCEPT !.on = @ \ {r}]
      ELSE [m EXCEPT !.on = IF "enable" \in f THEN @ \ {r} ELSE @ \cup {r},
                     !.reg[r] = Coded(mode), !.hybrid = mode = "hybrid",
                     !.measure = IF "measure" \in f THEN @ ELSE Duration(c.mode)]

\* Mutant: the shared bit is only ever set.
Moded_sticky(c, ch, mode, f) ==
  LET r == Receiver(ch)
      m == [c EXCEPT !.mode[ch] = mode, !.lost = IF f # {} THEN @ \cup {ch} ELSE @]
  IN  IF "read" \in f \/ r \notin Rx \/ "disable" \in f THEN m
      ELSE IF "write" \in f THEN [m EXCEPT !.on = @ \ {r}]
      ELSE [m EXCEPT !.on = IF "enable" \in f THEN @ \ {r} ELSE @ \cup {r},
                     !.reg[r] = Coded(mode), !.hybrid = @ \/ mode = "hybrid",
                     !.measure = IF "measure" \in f THEN @ ELSE Duration(m.mode)]

\* Mutant: the receiver's old code is not masked out before the new one is or-ed in.
Moded_unmasked(c, ch, mode, f) ==
  LET r == Receiver(ch)
      m == [c EXCEPT !.mode[ch] = mode, !.lost = IF f # {} THEN @ \cup {ch} ELSE @]
      Or(a, b) == IF a = b \/ b = 0 THEN a ELSE IF a = 0 THEN b ELSE 3
  IN  IF "read" \in f \/ r \notin Rx \/ "disable" \in f THEN m
      ELSE IF "write" \in f THEN [m EXCEPT !.on = @ \ {r}]
      ELSE [m EXCEPT !.on = IF "enable" \in f THEN @ \ {r} ELSE @ \cup {r},
                     !.reg[r] = Or(@, Coded(mode)), !.hybrid = mode = "hybrid",
                     !.measure = IF "measure" \in f THEN @ ELSE Duration(m.mode)]

\* ad9361_set_rx_gain_control_mode(ch): phy->agc_mode first, whatever follows.
\* A failed disabling ends the call, a failed write leaves the receiver off, a
\* failed enabling is not looked at.
Moded(c, ch, mode, f) ==
  LET r == Receiver(ch)
      m == [c EXCEPT !.mode[ch] = mode, !.lost = IF f # {} THEN @ \cup {ch} ELSE @]
  IN  IF "read" \in f \/ r \notin Rx \/ "disable" \in f THEN m
      ELSE IF "write" \in f THEN [m EXCEPT !.on = @ \ {r}]
      ELSE [m EXCEPT !.on = IF "enable" \in f THEN @ \ {r} ELSE @ \cup {r},
                     !.reg[r] = Coded(mode), !.hybrid = mode = "hybrid",
                     !.measure = IF "measure" \in f THEN @ ELSE Duration(m.mode)]

\* act_rx_agc_set: "rx1 && rx2", and both always succeed.
SetMode ==
  \E mode \in AgcModes, f1 \in AgcSlips, f2 \in AgcSlips :
    Becomes(Moded(Moded(Chip, 1, mode, f1), 2, mode, f2)) /\ UNCHANGED usedRx

AgcSpec == AgcInit /\ [][SetMode]_agcVars

-----------------------------------------------------------------------------
(* Properties. *)

\* A command without a failed transfer undoes whatever earlier failures have
\* left: the receivers it addresses are on, the code of each is that of the mode
\* noted for its channel, and the bit both share agrees with it.
ModeInForce ==
  agcLost = {} =>
    \A ch \in Rx : Receiver(ch) \in Rx =>
      /\ Receiver(ch) \in rxOn /\ agcReg[Receiver(ch)] = Coded(agcMode[ch])
      /\ hybrid <=> agcMode[ch] = "hybrid"

\* On a board of the first receiver, the measurement fits the modes in force
\* although it is written once a channel, from the modes of both.  (With the
\* second, the channel without a receiver keeps the last word: its mode changes
\* and the duration is not written again.)
MeasureFits == usedRx = 1 /\ 2 \notin agcLost => measure = Duration(agcMode)

\* What the gain control command promises for both receivers at once.
AgcInForce == ModeInForce /\ MeasureFits
=============================================================================
