-------------------------------- MODULE Ensm --------------------------------
(***************************************************************************)
(* The AD9361's enable state machine (ENSM) and the driver operations that *)
(* take it to ALERT, work there and put it back (ad9361.c: force_state,    *)
(* restore_state, do_calib_run, update_rf_bandwidth, rfpll_set_rate), with *)
(* the mode changes of ad9361_ensm_set_state and ad9361_transceiver on     *)
(* top.  Init is the state after a successful ad9361_setup().              *)
(*                                                                         *)
(* The chip's part (After, Pins) is external: what REG_ENSM_CONFIG_1 does, *)
(* as far as the driver relies on it.  SPI transfers succeed; calibrations *)
(* may time out.                                                          *)
(***************************************************************************)
EXTENDS Integers

CONSTANTS Fdd,        \* pdata->fdd
          Modes,      \* the ENSM modes callers ask for
          PinStates,  \* states the ENABLE and TXNRX pins lead to
          Loops,      \* tracking loops: a subset of {"bbdc", "rfdc", "quad"}
          Bandwidths, \* RF bandwidths callers set
          Narrow,     \* those too narrow for the calibration's tone
          InRange,    \* LO frequencies the part can be set to
          Asked,      \* LO frequencies callers ask for
          Wrapped,    \* (uint32_t) -EINVAL read as a frequency
          Threshold,  \* phy->cal_threshold_freq
          Managed,    \* pdata->lo_powerdown_managed_en
          CanFail     \* calibrations may time out

AllModes == {"tx", "rx", "alert", "fdd", "wait", "sleep", "pinctrl"}
States   == {"wait", "alert", "tx", "rx", "fdd"}
CfgBits  == {"to_alert", "f_alert", "f_tx", "f_rx", "pin"}
Forces   == {"f_alert", "f_tx", "f_rx"}

ASSUME EnsmAssumption ==
  /\ Fdd \in BOOLEAN /\ Managed \in BOOLEAN /\ CanFail \in BOOLEAN
  /\ Modes \subseteq AllModes /\ PinStates \subseteq States
  /\ Narrow \subseteq Bandwidths /\ Bandwidths # {} /\ "partial" \notin Bandwidths
  /\ InRange \subseteq Int /\ InRange # {} /\ Asked \subseteq Int
  /\ Wrapped \in Int \ InRange /\ Threshold \in Nat

VARIABLES
  ens, cfg,      \* the chip: REG_STATE, REG_ENSM_CONFIG_1
  awake,         \* its clocks run
  track,         \* tracking loops enabled in it
  filt,          \* bandwidth its analog filters are set for, or "partial"
  loOff,         \* TX_LO_POWER_DOWN in it
  lo,            \* frequency its TX synthesiser is set to
  curr, prev,    \* phy->curr_ensm_state, prev_ensm_state
  pinSaved,      \* phy->ensm_pin_ctl_en, as the bit it stands for
  trackEn,       \* phy->bbdc_track_en, rfdc_track_en, quad_track_en
  bw,            \* phy->current_tx_bw_Hz
  pd,            \* TX_LO_POWER_DOWN in phy->cached_synth_pd[0]
  last,          \* phy->last_tx_quad_cal_freq
  pc, op, arg,   \* the operation in progress, or the last one, and its argument
  freq,          \* the LO frequency last asked for
  err, ret,      \* its error so far; what the last operation returned
  mode,          \* history: the mode last set with success
  calAt,         \* history: the LO of the last calibration that succeeded
  filtFail       \* history: a filter calibration timed out

chipVars == <<ens, cfg, awake>>
phyVars  == <<curr, prev, pinSaved>>
restVars == <<track, trackEn, filt, bw, loOff, pd, lo, last, calAt, filtFail>>
callVars == <<pc, op, arg, freq, err, ret, mode>>
vars == <<chipVars, phyVars, restVars, callVars>>

ChipType ==
  /\ ens \in States /\ cfg \subseteq CfgBits /\ awake \in BOOLEAN
  /\ track \subseteq Loops /\ filt \in Bandwidths \cup {"partial"}
  /\ loOff \in BOOLEAN /\ lo \in InRange

PhyType ==
  /\ curr \in States \cup {"sleep"} /\ prev \in States /\ pinSaved \subseteq {"pin"}
  /\ trackEn \subseteq Loops /\ bw \in Bandwidths /\ pd \in BOOLEAN
  /\ last \in InRange \cup {Wrapped}

CallType ==
  /\ pc \in {"idle", "quiet", "force", "filter", "quad", "restore"}
  /\ op \in {"none", "mode", "calibrate", "set_bw", "set_lo", "auto"}
  /\ arg \in {"none"} \cup AllModes \cup Bandwidths /\ freq \in InRange \cup Asked
  /\ err \in BOOLEAN /\ ret \in {"ok", "fail"}

HistoryType == mode \in AllModes /\ calAt \in InRange /\ filtFail \in BOOLEAN

\* Every state variable has its type: the LO is never out of range.
TypeOK == ChipType /\ PhyType /\ CallType /\ HistoryType

Init ==
  /\ ens = (IF Fdd THEN "fdd" ELSE "rx") /\ curr = ens /\ prev = "alert"
  /\ cfg = (IF Fdd THEN {"to_alert", "f_tx"} ELSE {"to_alert", "f_rx"})
  /\ awake = TRUE /\ pinSaved = {}
  /\ track = Loops /\ trackEn = Loops
  /\ bw \in Bandwidths /\ filt = bw
  /\ loOff = FALSE /\ pd = FALSE
  /\ lo \in InRange /\ last = lo /\ calAt = lo /\ freq = lo
  /\ pc = "idle" /\ op = "none" /\ arg = "none" /\ err = FALSE /\ ret = "ok"
  /\ mode = ens /\ filtFail = FALSE

-----------------------------------------------------------------------------
(* The chip. *)

\* The state the ENSM goes to from s when c is written to REG_ENSM_CONFIG_1.
After(s, c) ==
  IF "f_alert" \in c THEN "alert"
  ELSE IF s = "alert" /\ "f_tx" \in c THEN IF Fdd THEN "fdd" ELSE "tx"
  ELSE IF s = "alert" /\ "f_rx" \in c THEN "rx"
  ELSE IF c \cap Forces # {} THEN s
  ELSE IF "to_alert" \in c THEN "alert" ELSE "wait"

\* With pin control enabled the baseband moves the ENSM by the pins.
Pins ==
  /\ "pin" \in cfg /\ awake
  /\ \E s \in PinStates : s # ens /\ ens' = s
  /\ UNCHANGED <<cfg, awake, phyVars, restVars, callVars>>

-----------------------------------------------------------------------------
(* ad9361_set_en_state_machine_mode and ad9361_ensm_set_state. *)

Target(m) == IF m \in {"wait", "pinctrl"} THEN "wait" ELSE m
Drive(s)  == IF s \in {"tx", "fdd"} THEN {"f_tx"} ELSE IF s = "rx" THEN {"f_rx"} ELSE {}
Value(m)  == {"to_alert"} \cup Drive(m)
               \cup (IF m = "alert" THEN {"f_alert"} ELSE {})
               \cup (IF m = "pinctrl" THEN {"pin"} ELSE {})

\* Transitions the driver counts as invalid.
Invalid(m) ==
  \/ m \in {"tx", "rx"} /\ (Fdd \/ curr # "alert")
  \/ m = "fdd" /\ ~ Fdd

\* A chip that sleeps is woken, to ALERT, first.
Woken == IF curr = "sleep" THEN "alert" ELSE ens

SetModeReturns(m, r) ==
  /\ pc = "idle" /\ m \in Modes
  /\ op' = "mode" /\ arg' = m /\ ret' = r
  /\ UNCHANGED <<pc, freq, err, prev, pinSaved, restVars>>

\* An invalid transition from ALERT is refused.
RefuseMode(m) ==
  /\ m # "sleep" /\ Invalid(m) /\ curr = "alert"
  /\ SetModeReturns(m, "fail")
  /\ UNCHANGED <<chipVars, curr, mode>>

\* From any other state it goes by way of ALERT and is carried out.
SetMode(m) ==
  /\ m # "sleep" /\ ~(Invalid(m) /\ curr = "alert")
  /\ SetModeReturns(m, "ok")
  /\ cfg' = Value(m) /\ awake' = TRUE
  /\ ens' = After(IF Invalid(m) THEN "alert" ELSE Woken, Value(m))
  /\ curr' = Target(m) /\ mode' = m

Sleep ==
  /\ SetModeReturns("sleep", "ok")
  /\ cfg' = {} /\ awake' = FALSE
  /\ ens' = "wait" /\ curr' = "sleep" /\ mode' = "sleep"

-----------------------------------------------------------------------------
(* Operations that work in ALERT. *)

Start(o, a, next) ==
  /\ op' = o /\ arg' = a /\ err' = FALSE /\ pc' = next
  /\ UNCHANGED <<ret, mode>>

\* calibrate_tx_quadrature: ad9361_do_calib(TX_QUAD_CAL).
Calibrate ==
  /\ pc = "idle" /\ Start("calibrate", "none", "quiet")
  /\ UNCHANGED <<freq, chipVars, phyVars, restVars>>

\* ad9361_update_rf_bandwidth, from the bandwidth or the sample-rate setters.
SetBandwidth(b) ==
  /\ pc = "idle" /\ Start("set_bw", b, "quiet")
  /\ UNCHANGED <<freq, chipVars, phyVars, restVars>>

Distance(f, g) == IF f < g THEN g - f ELSE f - g

\* Mutant: the caller's rate is kept when the PLL refuses it.
SetLo_keepsRequest(f) ==
  /\ pc = "idle" /\ f # lo
  /\ lo' = f /\ freq' = f
  /\ Start("set_lo", "none", "quiet")
  /\ UNCHANGED <<chipVars, phyVars, track, trackEn, filt, bw, loOff, pd, last,
                 calAt, filtFail>>

\* ad9361_transceiver::set_tx_lo_frequency.  A frequency out of range becomes
\* -EINVAL in round_rate and is passed on as a rate; the PLL refuses it, which
\* nobody looks at.  Beyond the threshold ad9361_rfpll_set_rate calibrates, and
\* then notes the rate; set_tx_lo_frequency calibrates in any case.
SetLo(f) ==
  LET rate == IF f \in InRange THEN f ELSE Wrapped
      far  == f # lo /\ Distance(last, rate) > Threshold
  IN /\ pc = "idle" /\ freq' = f
     /\ lo' = IF f \in InRange THEN f ELSE lo
     /\ last' = IF far THEN rate ELSE last
     /\ IF far THEN Start("auto", "none", "quiet")
               ELSE Start("set_lo", "none", "quiet")
     /\ UNCHANGED <<chipVars, phyVars, track, trackEn, filt, bw, loOff, pd,
                    calAt, filtFail>>

\* Mutant: the tracking loops run on.
Quiet_tracking ==
  /\ pc = "quiet" /\ pc' = "force"
  /\ UNCHANGED <<chipVars, phyVars, restVars, op, arg, freq, err, ret, mode>>

\* ad9361_tracking_control(phy, false, false, false)
Quiet ==
  /\ pc = "quiet" /\ pc' = "force" /\ track' = {}
  /\ UNCHANGED <<chipVars, phyVars, trackEn, filt, bw, loOff, pd, lo, last, calAt,
                 filtFail, op, arg, freq, err, ret, mode>>

\* Mutant: ensm_pin_ctl_en is not set.
ForceAlert_forgetsPins ==
  /\ pc = "force"
  /\ prev' = ens /\ pinSaved' = {}
  /\ cfg' = (cfg \ {"pin", "f_tx", "f_rx"}) \cup {"to_alert", "f_alert"}
  /\ ens' = IF awake THEN "alert" ELSE ens
  /\ pc' = IF op = "set_bw" THEN "filter" ELSE "quad"
  /\ UNCHANGED <<awake, curr, restVars, op, arg, freq, err, ret, mode>>

\* ad9361_ensm_force_state(phy, ENSM_STATE_ALERT).  A chip already in ALERT is
\* left alone, and ensm_pin_ctl_en keeps whatever an earlier call put there.
ForceAlert ==
  /\ pc = "force"
  /\ prev' = ens
  /\ \/ ens = "alert" /\ UNCHANGED <<ens, cfg, pinSaved>>
     \/ /\ ens # "alert"
        /\ pinSaved' = cfg \cap {"pin"}
        /\ cfg' = (cfg \ {"pin", "f_tx", "f_rx"}) \cup {"to_alert", "f_alert"}
        /\ ens' = IF awake THEN "alert" ELSE ens
  /\ pc' = IF op = "set_bw" THEN "filter" ELSE "quad"
  /\ UNCHANGED <<awake, curr, restVars, op, arg, freq, err, ret, mode>>

\* __ad9361_update_rf_bandwidth in update_rf_bandwidth.
Filter ==
  /\ pc = "filter"
  /\ \/ /\ awake
        /\ filt' = arg /\ bw' = arg /\ filtFail' = FALSE /\ pc' = "quad"
        /\ UNCHANGED err
     \/ /\ CanFail \/ ~ awake
        /\ filt' = "partial" /\ filtFail' = TRUE /\ err' = TRUE /\ pc' = "restore"
        /\ UNCHANGED bw
  /\ UNCHANGED <<chipVars, phyVars, track, trackEn, loOff, pd, lo, last, calAt,
                 op, arg, freq, ret, mode>>

QuadReturns(failed) ==
  /\ pc' = "restore" /\ err' = failed
  /\ calAt' = IF failed THEN calAt ELSE lo
  /\ UNCHANGED <<chipVars, phyVars, track, trackEn, bw, pd, lo, last, op, arg,
                 freq, ret, mode>>

\* ad9361_tx_quad_calib with the LO powered down and not managed.
QuadAborts ==
  /\ pc = "quad" /\ pd /\ ~ Managed
  /\ QuadReturns(TRUE) /\ UNCHANGED <<filt, loOff, filtFail>>

\* Mutants: the bandwidth is not put back; the LO is left running.
QuadCal_staysWide ==
  /\ pc = "quad" /\ (pd => Managed) /\ awake
  /\ QuadReturns(FALSE)
  /\ loOff' = pd /\ filt' = (IF bw \in Narrow THEN "partial" ELSE filt)
  /\ UNCHANGED filtFail

QuadCal_leavesLoOn ==
  /\ pc = "quad" /\ (pd => Managed) /\ awake
  /\ QuadReturns(FALSE)
  /\ loOff' = FALSE /\ UNCHANGED <<filt, filtFail>>

\* The calibration runs (with its retries and phase search) to its end or times
\* out; a narrow bandwidth is widened before and put back after it, and the
\* result of putting it back is not looked at.
QuadCal ==
  /\ pc = "quad" /\ (pd => Managed)
  /\ \E failed \in BOOLEAN :
       /\ failed => CanFail \/ ~ awake
       /\ ~ failed => awake
       /\ QuadReturns(failed)
  /\ loOff' = pd
  /\ \/ (bw \in Narrow => awake) /\ filt' = (IF bw \in Narrow THEN bw ELSE filt)
        /\ UNCHANGED filtFail
     \/ bw \in Narrow /\ (CanFail \/ ~ awake) /\ filt' = "partial" /\ filtFail' = TRUE

\* Widening fails: the part of the filters that was set stays as it is.
QuadCannotWiden ==
  /\ pc = "quad" /\ (pd => Managed) /\ bw \in Narrow /\ (CanFail \/ ~ awake)
  /\ QuadReturns(TRUE)
  /\ loOff' = pd /\ filt' = "partial" /\ filtFail' = TRUE

-----------------------------------------------------------------------------
(* ad9361_ensm_restore_prev_state, and the end of the operation. *)

Restored    == (cfg \ Forces) \cup {"to_alert"} \cup Drive(prev)
WithPins(c) == c \cup pinSaved

\* SLEEP_WAIT is not restored; the registers stay as force_state left them.
RestoreEnsm ==
  \/ prev = "wait" /\ UNCHANGED <<ens, cfg>>
  \/ /\ prev # "wait"
     /\ cfg' = WithPins(Restored)
     /\ ens' = IF awake THEN After("alert", Restored) ELSE ens

\* Mutant: set_tx_lo_frequency relies on the calibration in rfpll_set_rate.
Finish_once ==
  /\ pc' = "idle" /\ ret' = (IF err /\ op # "auto" THEN "fail" ELSE "ok")
  /\ op' = (IF op = "auto" THEN "set_lo" ELSE op) /\ UNCHANGED err

\* What follows: the calibration inside rfpll_set_rate only logs its failure
\* and set_tx_lo_frequency goes on to its own; the others return.
Finish ==
  \/ op = "auto" /\ op' = "set_lo" /\ err' = FALSE /\ pc' = "quiet" /\ UNCHANGED ret
  \/ /\ op # "auto" /\ pc' = "idle" /\ ret' = (IF err THEN "fail" ELSE "ok")
     /\ UNCHANGED <<op, err>>

\* Mutant: an error returns before the restore.
Restore_onSuccessOnly ==
  /\ pc = "restore"
  /\ IF err THEN UNCHANGED <<ens, cfg, track>> ELSE RestoreEnsm /\ track' = trackEn
  /\ Finish
  /\ UNCHANGED <<awake, phyVars, trackEn, filt, bw, loOff, pd, lo, last, calAt,
                 filtFail, arg, freq, mode>>

Restore ==
  /\ pc = "restore"
  /\ RestoreEnsm /\ track' = trackEn
  /\ Finish
  /\ UNCHANGED <<awake, phyVars, trackEn, filt, bw, loOff, pd, lo, last, calAt,
                 filtFail, arg, freq, mode>>

\* ad9361_set_rx_..._track_en_dis: one loop is switched.
SetTracking(l) ==
  /\ pc = "idle"
  /\ trackEn' = (IF l \in trackEn THEN trackEn \ {l} ELSE trackEn \cup {l})
  /\ track' = trackEn'
  /\ UNCHANGED <<chipVars, phyVars, filt, bw, loOff, pd, lo, last, calAt, filtFail,
                 callVars>>

\* ad9361_tx_lo_powerdown
PowerLo ==
  /\ pc = "idle"
  /\ pd' = ~ pd /\ loOff' = pd'
  /\ UNCHANGED <<chipVars, phyVars, track, trackEn, filt, bw, lo, last, calAt,
                 filtFail, callVars>>

Request ==
  \/ \E m \in Modes : RefuseMode(m) \/ SetMode(m)
  \/ Sleep
  \/ Calibrate
  \/ \E b \in Bandwidths : SetBandwidth(b)
  \/ \E f \in Asked : SetLo(f)
  \/ \E l \in Loops : SetTracking(l)
  \/ PowerLo

Progress == Quiet \/ ForceAlert \/ Filter \/ QuadAborts \/ QuadCal
              \/ QuadCannotWiden \/ Restore

Next == Request \/ Progress \/ Pins

Spec == Init /\ [][Next]_vars

-----------------------------------------------------------------------------
(* Properties. *)

\* The state a mode leaves the chip in.
Expected(m) == IF m \in {"wait", "pinctrl"} THEN "alert"
               ELSE IF m = "sleep" THEN "wait" ELSE m

\* Between operations the chip is in the mode that was last set, whatever
\* calibrations failed since (update_rf_bandwidth: "Restore unconditionally").
ModeKept == pc = "idle" => ens = Expected(mode)

\* Filters and quadrature are calibrated only in ALERT and with no tracking
\* loop running, unless the part sleeps (do_calib_run, update_rf_bandwidth).
QuietWork == pc \in {"filter", "quad"} /\ awake => ens = "alert" /\ track = {}

\* Between operations the tracking loops are those the user enabled.
TrackingKept == pc = "idle" => track = trackEn

\* Between operations the filters are at the bandwidth the driver reports,
\* unless a calibration of theirs timed out (tx_quad_calib puts it back).
FiltersMatch == pc = "idle" /\ ~ filtFail => filt = bw

\* A calibration leaves the LO's power as it found it (lo_powerdown_managed_en).
LoPowerKept == pc \in {"idle", "quiet", "restore"} => loOff = pd

\* A set_tx_lo_frequency() that returned true leaves the quadrature correction
\* calibrated at the LO's frequency, also when the one in rfpll_set_rate failed.
CalibratedWhereTuned == pc = "idle" /\ op = "set_lo" /\ ret = "ok" => calAt = lo

\* Pin control that a mode change asked for is never lost to a calibration.
PinsGivenBack == pc = "idle" /\ mode = "pinctrl" => "pin" \in cfg

\* ad9361_set_tx_lo_freq returns 0 in case of success, an error otherwise.
OkMeansTuned == pc = "idle" /\ op = "set_lo" /\ ret = "ok" => lo = freq
=============================================================================
