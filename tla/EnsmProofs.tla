----------------------------- MODULE EnsmProofs -----------------------------
(***************************************************************************)
(* What Ensm guarantees for every bandwidth, frequency and threshold, with *)
(* or without failures: the operations that work in ALERT leave the part   *)
(* as they found it.                                                       *)
(***************************************************************************)
EXTENDS Ensm, TLAPS

\* A write to REG_ENSM_CONFIG_1 leads from an ENSM state to an ENSM state.
LEMMA AfterType == ASSUME NEW s \in States, NEW c PROVE After(s, c) \in States
  BY DEF After, States

\* The value written for a mode has only bits of that register.
LEMMA ValueType == ASSUME NEW m PROVE Value(m) \subseteq CfgBits
  BY DEF Value, Drive, CfgBits

\* What restore_state writes has only bits of that register.
LEMMA RestoredType ==
  ASSUME cfg \subseteq CfgBits, PhyType PROVE WithPins(Restored) \subseteq CfgBits
  BY DEF PhyType, WithPins, Restored, Drive, CfgBits, Forces

-----------------------------------------------------------------------------
(* Types. *)

\* The bandwidth that update_rf_bandwidth works on is the one it was called
\* with: TypeOK is inductive only with this.
BandwidthAtWork ==
  /\ pc = "filter" => op = "set_bw"
  /\ op = "set_bw" => arg \in Bandwidths

TypeInv == TypeOK /\ BandwidthAtWork

\* The types, at the start.
LEMMA TypeInit == Init => TypeInv
  BY EnsmAssumption
  DEF Init, TypeInv, BandwidthAtWork, TypeOK, ChipType, PhyType, CallType, HistoryType,
      States, CfgBits, AllModes

\* Requests.
LEMMA TypeRequest == ASSUME TypeInv, Request PROVE TypeInv'
<1> USE DEF TypeInv, TypeOK
<1>1. ASSUME NEW m \in Modes, RefuseMode(m) PROVE TypeInv'
  <2>1. m \in AllModes
    BY EnsmAssumption
  <2>2. QED
    BY <1>1, <2>1 DEF RefuseMode, SetModeReturns, chipVars, restVars, ChipType,
         PhyType, CallType, HistoryType, BandwidthAtWork
<1>2. ASSUME NEW m \in Modes, SetMode(m) PROVE TypeInv'
  <2>1. m \in AllModes
    BY EnsmAssumption
  <2>2. Woken \in States
    BY DEF Woken, ChipType, States
  <2>3. ens' \in States /\ cfg' \subseteq CfgBits /\ awake' \in BOOLEAN
    <3>1. "alert" \in States
      BY DEF States
    <3>2. QED
      BY <1>2, <2>2, <3>1, AfterType, ValueType DEF SetMode
  <2>4. curr' \in States \cup {"sleep"}
    BY <1>2, <2>1 DEF SetMode, Target, AllModes, States
  <2>5. QED
    BY <1>2, <2>1, <2>3, <2>4 DEF SetMode, SetModeReturns, restVars, ChipType,
         PhyType, CallType, HistoryType, BandwidthAtWork
<1>3. CASE Sleep
  BY <1>3 DEF Sleep, SetModeReturns, restVars, ChipType, PhyType, CallType,
       HistoryType, BandwidthAtWork, States, AllModes
<1>4. CASE Calibrate
  BY <1>4 DEF Calibrate, Start, chipVars, phyVars, restVars, ChipType, PhyType,
       CallType, HistoryType, BandwidthAtWork
<1>5. ASSUME NEW b \in Bandwidths, SetBandwidth(b) PROVE TypeInv'
  BY <1>5 DEF SetBandwidth, Start, chipVars, phyVars, restVars, ChipType, PhyType,
       CallType, HistoryType, BandwidthAtWork
<1>6. ASSUME NEW f \in Asked, SetLo(f) PROVE TypeInv'
  <2>1. lo' \in InRange /\ last' \in InRange \cup {Wrapped} /\ freq' \in InRange \cup Asked
    BY <1>6 DEF SetLo, ChipType, PhyType
  <2>2. pc' = "quiet" /\ op' \in {"auto", "set_lo"} /\ arg' = "none" /\ err' = FALSE
          /\ UNCHANGED <<ret, mode>>
    BY <1>6 DEF SetLo, Start
  <2>3. UNCHANGED <<chipVars, phyVars, track, trackEn, filt, bw, loOff, pd, calAt,
                    filtFail>>
    BY <1>6 DEF SetLo
  <2>4. QED
    BY <2>1, <2>2, <2>3 DEF chipVars, phyVars, ChipType, PhyType, CallType, HistoryType,
         BandwidthAtWork
<1>7. ASSUME NEW l \in Loops, SetTracking(l) PROVE TypeInv'
  BY <1>7 DEF SetTracking, chipVars, phyVars, callVars, ChipType, PhyType, CallType,
       HistoryType, BandwidthAtWork
<1>8. CASE PowerLo
  BY <1>8 DEF PowerLo, chipVars, phyVars, callVars, ChipType, PhyType, CallType,
       HistoryType, BandwidthAtWork
<1>9. QED
  BY <1>1, <1>2, <1>3, <1>4, <1>5, <1>6, <1>7, <1>8 DEF Request

\* The steps of an operation, and the pins.
LEMMA TypeProgress == ASSUME TypeInv, Progress \/ Pins PROVE TypeInv'
<1> USE DEF TypeInv, TypeOK
<1>1. CASE Quiet
  BY <1>1 DEF Quiet, chipVars, phyVars, ChipType, PhyType, CallType, HistoryType,
       BandwidthAtWork
<1>2. CASE ForceAlert
  <2>1. ens' \in States /\ cfg' \subseteq CfgBits /\ pinSaved' \subseteq {"pin"}
    BY <1>2 DEF ForceAlert, ChipType, PhyType, States, CfgBits
  <2>2. prev' \in States /\ pc' \in {"filter", "quad"} /\ (pc' = "filter" => op = "set_bw")
    BY <1>2 DEF ForceAlert, ChipType
  <2>3. UNCHANGED <<awake, curr, restVars, op, arg, freq, err, ret, mode>>
    BY <1>2 DEF ForceAlert
  <2>4. QED
    BY <2>1, <2>2, <2>3 DEF restVars, ChipType, PhyType, CallType, HistoryType,
         BandwidthAtWork
<1>3. CASE Filter
  <2>1. arg \in Bandwidths
    BY <1>3 DEF Filter, BandwidthAtWork
  <2>2. filt' \in Bandwidths \cup {"partial"} /\ bw' \in Bandwidths
          /\ filtFail' \in BOOLEAN /\ err' \in BOOLEAN /\ pc' \in {"quad", "restore"}
    BY <1>3, <2>1 DEF Filter, PhyType, CallType
  <2>3. UNCHANGED <<chipVars, phyVars, track, trackEn, loOff, pd, lo, last, calAt,
                    op, arg, freq, ret, mode>>
    BY <1>3 DEF Filter
  <2>4. QED
    BY <2>2, <2>3 DEF chipVars, phyVars, ChipType, PhyType, CallType, HistoryType,
         BandwidthAtWork
<1>4. CASE QuadAborts \/ QuadCal \/ QuadCannotWiden
  <2>1. PICK failed \in BOOLEAN : QuadReturns(failed)
    BY <1>4 DEF QuadAborts, QuadCal, QuadCannotWiden
  <2>2. filt' \in Bandwidths \cup {"partial"} /\ loOff' \in BOOLEAN
          /\ filtFail' \in BOOLEAN
    BY <1>4 DEF QuadAborts, QuadCal, QuadCannotWiden, ChipType, PhyType, HistoryType
  <2>3. QED
    BY <2>1, <2>2 DEF QuadReturns, chipVars, phyVars, ChipType, PhyType, CallType,
         HistoryType, BandwidthAtWork
<1>5. CASE Restore
  <2>1. ens' \in States /\ cfg' \subseteq CfgBits
    <3>1. RestoreEnsm /\ "alert" \in States
      BY <1>5 DEF Restore, States
    <3>2. QED
      BY <3>1, AfterType, RestoredType DEF RestoreEnsm, ChipType
  <2>2. pc' \in {"idle", "quiet"} /\ op' \in {op, "set_lo"} /\ err' \in BOOLEAN
          /\ ret' \in {"ok", "fail"}
    BY <1>5 DEF Restore, Finish, CallType
  <2>3. track' = trackEn
          /\ UNCHANGED <<awake, phyVars, trackEn, filt, bw, loOff, pd, lo, last, calAt,
                         filtFail, arg, freq, mode>>
    BY <1>5 DEF Restore
  <2>4. QED
    BY <2>1, <2>2, <2>3 DEF phyVars, ChipType, PhyType, CallType, HistoryType,
         BandwidthAtWork
<1>6. CASE Pins
  BY <1>6, EnsmAssumption DEF Pins, phyVars, restVars, callVars, ChipType, PhyType,
       CallType, HistoryType, BandwidthAtWork
<1>7. QED
  BY <1>1, <1>2, <1>3, <1>4, <1>5, <1>6 DEF Progress

\* The types, kept by every step.
LEMMA TypeStep == TypeInv /\ [Next]_vars => TypeInv'
<1>1. CASE UNCHANGED vars
  BY <1>1 DEF vars, chipVars, phyVars, restVars, callVars, TypeInv, TypeOK, ChipType,
       PhyType, CallType, HistoryType, BandwidthAtWork
<1>2. QED
  BY <1>1, TypeRequest, TypeProgress DEF Next

\* Every reachable state is well typed: the registers and the fields of
\* ad9361_rf_phy hold only what the driver puts there.
THEOREM Typing == Spec => []TypeOK
<1>1. TypeInv => TypeOK
  BY DEF TypeInv
<1>2. QED
  BY TypeInit, TypeStep, <1>1, PTL DEF Spec

-----------------------------------------------------------------------------
(* Work leaves tracking, filters, LO power and the calibration as promised. *)

LoFollows == loOff = pd

LoopsFollow == IF pc \in {"idle", "quiet"} THEN track = trackEn ELSE track = {}

FiltersFollow == ~ filtFail => filt = bw

CalibrationFollows ==
  /\ op = "set_lo" /\ pc = "restore" /\ ~ err => calAt = lo
  /\ op = "set_lo" /\ pc = "idle" /\ ret = "ok" => calAt = lo

WorkInv == LoFollows /\ LoopsFollow /\ FiltersFollow /\ CalibrationFollows

\* The stages of an operation, at the start.
LEMMA WorkInit == Init => WorkInv
  BY DEF Init, WorkInv, LoFollows, LoopsFollow, FiltersFollow, CalibrationFollows

\* Every step takes an operation from stage to stage.
LEMMA WorkStep == TypeInv /\ WorkInv /\ [Next]_vars => WorkInv'
<1> SUFFICES ASSUME TypeInv, WorkInv, [Next]_vars PROVE WorkInv'
  OBVIOUS
<1> USE DEF WorkInv, LoFollows, LoopsFollow, FiltersFollow, CalibrationFollows
<1>1. CASE \E m \in Modes : RefuseMode(m) \/ SetMode(m)
  BY <1>1 DEF RefuseMode, SetMode, SetModeReturns, restVars
<1>2. CASE Sleep
  BY <1>2 DEF Sleep, SetModeReturns, restVars
<1>3. CASE Calibrate
  BY <1>3 DEF Calibrate, Start, restVars
<1>4. CASE \E b \in Bandwidths : SetBandwidth(b)
  BY <1>4 DEF SetBandwidth, Start, restVars
<1>5. CASE \E f \in Asked : SetLo(f)
  <2>1. pc = "idle" /\ pc' = "quiet"
          /\ UNCHANGED <<track, trackEn, filt, bw, loOff, pd, filtFail>>
    BY <1>5 DEF SetLo, Start
  <2>2. QED
    BY <2>1
<1>6. CASE \E l \in Loops : SetTracking(l)
  BY <1>6 DEF SetTracking, callVars
<1>7. CASE PowerLo
  BY <1>7 DEF PowerLo, callVars
<1>8. CASE Quiet
  BY <1>8 DEF Quiet
<1>9. CASE ForceAlert
  <2>1. pc = "force" /\ pc' \in {"filter", "quad"} /\ UNCHANGED restVars
    BY <1>9 DEF ForceAlert
  <2>2. QED
    BY <2>1 DEF restVars
<1>10. CASE Filter
  BY <1>10 DEF Filter
<1>11. CASE QuadAborts \/ QuadCal \/ QuadCannotWiden
  <2>1. pc = "quad" /\ loOff' = pd /\ (~ filtFail' => filt' = bw)
    BY <1>11 DEF QuadAborts, QuadCal, QuadCannotWiden
  <2>2. PICK failed \in BOOLEAN : QuadReturns(failed)
    BY <1>11 DEF QuadAborts, QuadCal, QuadCannotWiden
  <2>3. QED
    BY <2>1, <2>2 DEF QuadReturns
<1>12. CASE Restore
  <2>1. pc = "restore" /\ track' = trackEn
          /\ UNCHANGED <<trackEn, filt, bw, loOff, pd, lo, calAt, filtFail>>
    BY <1>12 DEF Restore
  <2>2. Finish
    BY <1>12 DEF Restore
  <2>3. QED
    BY <2>1, <2>2 DEF Finish
<1>13. CASE Pins
  BY <1>13 DEF Pins, restVars, callVars
<1>14. CASE UNCHANGED vars
  BY <1>14 DEF vars, restVars, callVars
<1>15. QED
  BY <1>1, <1>2, <1>3, <1>4, <1>5, <1>6, <1>7, <1>8, <1>9, <1>10, <1>11, <1>12, <1>13,
     <1>14 DEF Next, Request, Progress

\* Both, always.
LEMMA Working == Spec => [](TypeInv /\ WorkInv)
  BY TypeInit, TypeStep, WorkInit, WorkStep, PTL DEF Spec

\* The tracking loops are those the user enabled whenever no operation is under
\* way (tracking_control around every calibration).
THEOREM Tracking == Spec => []TrackingKept
<1>1. WorkInv => TrackingKept
  BY DEF WorkInv, LoopsFollow, TrackingKept
<1>2. QED
  BY Working, <1>1, PTL

\* The filters are at the bandwidth the driver reports unless a calibration of
\* theirs timed out.
THEOREM Filters == Spec => []FiltersMatch
<1>1. WorkInv => FiltersMatch
  BY DEF WorkInv, FiltersFollow, FiltersMatch
<1>2. QED
  BY Working, <1>1, PTL

\* No calibration changes the LO's power.
THEOREM LoPower == Spec => []LoPowerKept
<1>1. WorkInv => LoPowerKept
  BY DEF WorkInv, LoFollows, LoPowerKept
<1>2. QED
  BY Working, <1>1, PTL

\* set_tx_lo_frequency() returns true only with the correction calibrated at
\* the frequency the synthesiser is at.
THEOREM Calibrated == Spec => []CalibratedWhereTuned
<1>1. WorkInv => CalibratedWhereTuned
  BY DEF WorkInv, CalibrationFollows, CalibratedWhereTuned
<1>2. QED
  BY Working, <1>1, PTL

-----------------------------------------------------------------------------
(* The mode is kept, for callers that use the modes of their duplex and leave *)
(* the pins alone (a restore can act on a stale ensm_pin_ctl_en otherwise).   *)

Usual ==
  /\ "pinctrl" \notin Modes
  /\ Fdd => Modes \cap {"tx", "rx"} = {}
  /\ ~ Fdd => "fdd" \notin Modes

\* What callers have set so far is a usual mode, and the driver knows it.
ModeKnown ==
  /\ mode \in {"tx", "rx", "alert", "fdd", "wait", "sleep"}
  /\ Fdd => mode \notin {"tx", "rx"}
  /\ ~ Fdd => mode # "fdd"
  /\ curr = Target(mode)
  /\ awake = (mode # "sleep")

NoPins == "pin" \notin cfg /\ pinSaved = {}

\* Where the chip is before, during and after an operation.
Whereabouts ==
  /\ pc \in {"idle", "quiet", "force"} => ens = Expected(mode)
  /\ pc \in {"filter", "quad", "restore"} =>
       prev = Expected(mode) /\ ens = (IF awake THEN "alert" ELSE "wait")

ModeInv == ModeKnown /\ NoPins /\ Whereabouts

\* The mode last set, at the start.
LEMMA ModeInit == Init => ModeInv
  BY EnsmAssumption DEF Init, ModeInv, ModeKnown, NoPins, Whereabouts, Target, Expected

\* A mode that is carried out is the mode the chip is in.
LEMMA SetModeWorks ==
  ASSUME Usual, ModeInv, NEW m \in Modes, SetMode(m)
  PROVE  ModeInv'
<1>1. m \in {"tx", "rx", "alert", "fdd", "wait"} /\ (Fdd => m \notin {"tx", "rx"})
        /\ (~ Fdd => m # "fdd") /\ pc = "idle" /\ pc' = "idle" /\ pinSaved' = pinSaved
  BY EnsmAssumption DEF SetMode, SetModeReturns, Usual, AllModes
<1>2. mode' = m /\ curr' = Target(m) /\ awake' = TRUE /\ cfg' = Value(m)
  BY DEF SetMode
<1>3. ens = Expected(mode)
  BY <1>1 DEF ModeInv, Whereabouts
<1>4. CASE m = "alert"
  BY <1>1, <1>2, <1>4 DEF SetMode, After, Value, Drive, Expected, ModeInv, ModeKnown,
       NoPins, Whereabouts
<1>5. CASE m = "wait"
  BY <1>1, <1>2, <1>5 DEF SetMode, After, Value, Drive, Expected, ModeInv, ModeKnown,
       NoPins, Whereabouts, Forces
<1>6. CASE m = "fdd"
  <2>1. Woken \in {"fdd", "alert"} /\ ~ Invalid(m) /\ Fdd
    BY <1>1, <1>3, <1>6 DEF Woken, Invalid, Expected, ModeInv, ModeKnown, Target
  <2>2. ens' = After(Woken, Value(m))
    BY <2>1 DEF SetMode
  <2>3. ens' = "fdd"
    BY <1>6, <2>1, <2>2 DEF After, Value, Drive, Forces
  <2>4. QED
    BY <1>1, <1>2, <1>6, <2>1, <2>3 DEF Value, Drive, Expected, ModeInv, ModeKnown,
         NoPins, Whereabouts
<1>7. CASE m \in {"tx", "rx"}
  <2>1. ~ Fdd /\ (Invalid(m) => curr # "alert") /\ (~ Invalid(m) => curr = "alert")
    BY <1>1, <1>7 DEF SetMode, Invalid
  <2>2. ~ Invalid(m) => Woken = "alert"
    BY <1>3, <2>1 DEF Woken, Expected, ModeInv, ModeKnown, Target
  <2>3. ens' = After("alert", Value(m))
    BY <2>1, <2>2 DEF SetMode
  <2>4. ens' = m
    BY <1>7, <2>1, <2>3 DEF After, Value, Drive
  <2>5. QED
    BY <1>1, <1>2, <1>7, <2>1, <2>4 DEF Value, Drive, Expected, ModeInv, ModeKnown,
         NoPins, Whereabouts
<1>8. QED
  BY <1>1, <1>4, <1>5, <1>6, <1>7

\* The chip is put back where it was, also after an error.
LEMMA RestoreWorks == ASSUME ModeInv, Restore PROVE ModeInv'
<1>1. pc = "restore" /\ pc' \in {"idle", "quiet"} /\ RestoreEnsm
        /\ UNCHANGED <<awake, phyVars, mode>>
  BY DEF Restore, Finish
<1>2. prev = Expected(mode) /\ ens = (IF awake THEN "alert" ELSE "wait")
  BY <1>1 DEF ModeInv, Whereabouts
<1>3. ens' = Expected(mode) /\ "pin" \notin cfg'
  <2>1. CASE prev = "wait"
    BY <1>1, <1>2, <2>1 DEF RestoreEnsm, Expected, ModeInv, ModeKnown, NoPins
  <2>2. CASE prev # "wait"
    <3>1. awake /\ mode # "sleep" /\ ens' = After("alert", Restored)
            /\ cfg' = WithPins(Restored)
      BY <1>1, <1>2, <2>2 DEF RestoreEnsm, Expected, ModeInv, ModeKnown
    <3>2. "pin" \notin cfg'
      BY <3>1 DEF WithPins, Restored, Drive, ModeInv, NoPins
    <3>3. prev \in {"tx", "rx", "fdd", "alert"} /\ (Fdd => prev \notin {"tx", "rx"})
            /\ (~ Fdd => prev # "fdd")
      BY <1>2, <3>1 DEF Expected, ModeInv, ModeKnown
    <3>4. After("alert", Restored) = prev
      BY <3>3 DEF After, Restored, Drive, Forces
    <3>5. QED
      BY <1>2, <3>1, <3>2, <3>4
  <2>3. QED
    BY <2>1, <2>2
<1>4. QED
  BY <1>1, <1>3 DEF ModeInv, ModeKnown, NoPins, Whereabouts, phyVars

\* The mode last set, kept by every step.
LEMMA ModeStep ==
  ASSUME Usual PROVE TypeInv /\ ModeInv /\ [Next]_vars => ModeInv'
<1> SUFFICES ASSUME TypeInv, ModeInv, [Next]_vars PROVE ModeInv'
  OBVIOUS
<1> USE DEF ModeInv
<1>1. ASSUME NEW m \in Modes, RefuseMode(m) PROVE ModeInv'
  BY <1>1 DEF RefuseMode, SetModeReturns, chipVars, ModeKnown, NoPins, Whereabouts
<1>2. ASSUME NEW m \in Modes, SetMode(m) PROVE ModeInv'
  BY <1>2, SetModeWorks
<1>3. CASE Sleep
  BY <1>3 DEF Sleep, SetModeReturns, ModeKnown, NoPins, Whereabouts, Target, Expected
<1>4. CASE \/ Calibrate
           \/ \E b \in Bandwidths : SetBandwidth(b)
           \/ \E f \in Asked : SetLo(f)
  <2>1. pc = "idle" /\ pc' = "quiet" /\ UNCHANGED <<chipVars, phyVars, mode>>
    BY <1>4 DEF Calibrate, SetBandwidth, SetLo, Start
  <2>2. QED
    BY <2>1 DEF chipVars, phyVars, ModeKnown, NoPins, Whereabouts
<1>5. CASE (\E l \in Loops : SetTracking(l)) \/ PowerLo
  <2>1. UNCHANGED <<chipVars, phyVars, callVars>>
    BY <1>5 DEF SetTracking, PowerLo
  <2>2. QED
    BY <2>1 DEF chipVars, phyVars, callVars, ModeKnown, NoPins, Whereabouts
<1>6. CASE Quiet
  BY <1>6 DEF Quiet, chipVars, phyVars, ModeKnown, NoPins, Whereabouts
<1>7. CASE ForceAlert
  <2>1. pc = "force" /\ pc' \in {"filter", "quad"} /\ prev' = ens
          /\ UNCHANGED <<awake, curr, mode>>
    BY <1>7 DEF ForceAlert
  <2>2. ens = Expected(mode)
    BY <2>1 DEF Whereabouts
  <2>3. ens' = (IF awake THEN "alert" ELSE "wait") /\ NoPins'
    <3>1. CASE ens = "alert" /\ UNCHANGED <<ens, cfg, pinSaved>>
      BY <2>2, <3>1 DEF Expected, ModeKnown, NoPins
    <3>2. CASE /\ ens # "alert" /\ pinSaved' = cfg \cap {"pin"}
               /\ cfg' = (cfg \ {"pin", "f_tx", "f_rx"}) \cup {"to_alert", "f_alert"}
               /\ ens' = IF awake THEN "alert" ELSE ens
      BY <2>2, <3>2 DEF Expected, ModeKnown, NoPins
    <3>3. QED
      BY <1>7, <3>1, <3>2 DEF ForceAlert
  <2>4. QED
    BY <2>1, <2>2, <2>3 DEF ModeKnown, Whereabouts
<1>8. CASE Filter
  BY <1>8 DEF Filter, chipVars, phyVars, ModeKnown, NoPins, Whereabouts
<1>9. CASE QuadAborts \/ QuadCal \/ QuadCannotWiden
  <2>1. pc = "quad" /\ pc' = "restore" /\ UNCHANGED <<chipVars, phyVars, mode>>
    BY <1>9 DEF QuadAborts, QuadCal, QuadCannotWiden, QuadReturns
  <2>2. QED
    BY <2>1 DEF chipVars, phyVars, ModeKnown, NoPins, Whereabouts
<1>10. CASE Restore
  BY <1>10, RestoreWorks
<1>11. CASE Pins
  BY <1>11 DEF Pins, NoPins
<1>12. CASE UNCHANGED vars
  BY <1>12 DEF vars, chipVars, phyVars, callVars, ModeKnown, NoPins, Whereabouts
<1>13. QED
  BY <1>1, <1>2, <1>3, <1>4, <1>5, <1>6, <1>7, <1>8, <1>9, <1>10, <1>11, <1>12
  DEF Next, Request, Progress

\* Between operations the chip is in the mode last set with success, whatever
\* calibrations failed since.
THEOREM ModeIsKept == ASSUME Usual PROVE Spec => []ModeKept
<1>1. ModeInv => ModeKept
  BY DEF ModeInv, Whereabouts, ModeKept
<1>2. QED
  BY TypeInit, TypeStep, ModeInit, ModeStep, <1>1, PTL DEF Spec

\* Filters and quadrature of a part that runs are calibrated in ALERT only, with
\* no tracking loop running.
THEOREM WorkIsQuiet == ASSUME Usual PROVE Spec => []QuietWork
<1>1. ModeInv /\ WorkInv => QuietWork
  BY DEF ModeInv, Whereabouts, WorkInv, LoopsFollow, QuietWork
<1>2. QED
  BY TypeInit, TypeStep, ModeInit, ModeStep, WorkInit, WorkStep, <1>1, PTL DEF Spec
-----------------------------------------------------------------------------
(* Pin control.  The pins lead to ALERT and to the working states, never to   *)
(* WAIT, which restore_prev_state does not leave again.                       *)

\* With pin control asked for, the bit is in the chip, or force_state has noted it
\* for a restore that will take place.
PinsAtWork ==
  mode = "pinctrl" =>
    /\ ens # "wait"
    /\ pc \in {"idle", "quiet", "force"} => "pin" \in cfg
    /\ pc \in {"filter", "quad", "restore"} =>
         prev # "wait" /\ ("pin" \in cfg \/ "pin" \in pinSaved)

\* A write of REG_ENSM_CONFIG_1 with TO_ALERT never leads to WAIT.
LEMMA AlertNotWait ==
  ASSUME NEW s \in States, NEW c, s # "wait", "to_alert" \in c
  PROVE  After(s, c) # "wait"
  BY DEF After, States

\* The last stage gives pin control back.
LEMMA PinsRestored == ASSUME TypeOK, PinsAtWork, Restore PROVE PinsAtWork'
<1>1. /\ pc = "restore" /\ pc' \in {"idle", "quiet"} /\ mode' = mode
      /\ RestoreEnsm
  BY DEF Restore, Finish
<1>2. SUFFICES ASSUME mode = "pinctrl" PROVE ens' # "wait" /\ "pin" \in cfg'
  BY <1>1 DEF PinsAtWork
<1>3. ens # "wait" /\ prev # "wait" /\ ("pin" \in cfg \/ "pin" \in pinSaved)
  BY <1>1, <1>2 DEF PinsAtWork
<1>4. cfg' = WithPins(Restored) /\ ens' = IF awake THEN After("alert", Restored) ELSE ens
  BY <1>1, <1>3, <1>2 DEF RestoreEnsm, PinsAtWork
<1>5. "pin" \in cfg'
  BY <1>3, <1>4 DEF WithPins, Restored, Forces
<1>6. After("alert", Restored) # "wait"
  BY AlertNotWait DEF Restored, States
<1>7. ens # "wait"
  BY <1>1, <1>2 DEF PinsAtWork
<1>8. QED
  BY <1>4, <1>5, <1>6, <1>7

\* Every step keeps track of pin control.
LEMMA PinsStep ==
  ASSUME "wait" \notin PinStates, TypeOK, PinsAtWork, [Next]_vars PROVE PinsAtWork'
<1> USE DEF PinsAtWork
<1>1. ASSUME NEW m \in Modes, RefuseMode(m) PROVE PinsAtWork'
  BY <1>1 DEF RefuseMode, SetModeReturns, chipVars
<1>2. ASSUME NEW m \in Modes, SetMode(m) PROVE PinsAtWork'
  <2>1. mode' = m /\ pc = "idle" /\ pc' = "idle" /\ cfg' = Value(m)
    BY <1>2 DEF SetMode, SetModeReturns
  <2>2. SUFFICES ASSUME m = "pinctrl" PROVE ens' # "wait" /\ "pin" \in cfg'
    BY <2>1
  <2>3. ens' = After(Woken, Value(m))
    BY <1>2, <2>2 DEF SetMode, Invalid
  <2>4. After(Woken, Value(m)) = "alert"
    BY <2>2 DEF After, Value, Drive, Forces
  <2>5. QED
    BY <2>1, <2>2, <2>3, <2>4 DEF Value
<1>3. CASE Sleep
  BY <1>3 DEF Sleep, SetModeReturns
<1>4. CASE \/ Calibrate
           \/ \E b \in Bandwidths : SetBandwidth(b)
           \/ \E f \in Asked : SetLo(f)
  <2>1. pc = "idle" /\ pc' = "quiet" /\ UNCHANGED <<chipVars, phyVars, mode>>
    BY <1>4 DEF Calibrate, SetBandwidth, SetLo, Start
  <2>2. QED
    BY <2>1 DEF chipVars
<1>5. CASE (\E l \in Loops : SetTracking(l)) \/ PowerLo
  BY <1>5 DEF SetTracking, PowerLo, chipVars, phyVars, callVars
<1>6. CASE Quiet
  BY <1>6 DEF Quiet, chipVars, phyVars
<1>7. CASE ForceAlert
  <2>1. pc = "force" /\ pc' \in {"filter", "quad"} /\ prev' = ens /\ mode' = mode
    BY <1>7 DEF ForceAlert
  <2>2. \/ UNCHANGED <<ens, cfg>>
        \/ pinSaved' = cfg \cap {"pin"} /\ (ens' = "alert" \/ ens' = ens)
    BY <1>7 DEF ForceAlert
  <2>3. QED
    BY <2>1, <2>2
<1>8. CASE Filter
  BY <1>8 DEF Filter, chipVars, phyVars
<1>9. CASE QuadAborts \/ QuadCal \/ QuadCannotWiden
  <2>1. pc = "quad" /\ pc' = "restore" /\ UNCHANGED <<chipVars, phyVars, mode>>
    BY <1>9 DEF QuadAborts, QuadCal, QuadCannotWiden, QuadReturns
  <2>2. QED
    BY <2>1 DEF chipVars, phyVars
<1>10. CASE Restore
  BY <1>10, PinsRestored
<1>11. CASE Pins
  BY <1>11 DEF Pins, phyVars, callVars
<1>12. CASE UNCHANGED vars
  BY <1>12 DEF vars, chipVars, phyVars, callVars
<1>13. QED
  BY <1>1, <1>2, <1>3, <1>4, <1>5, <1>6, <1>7, <1>8, <1>9, <1>10, <1>11, <1>12
  DEF Next, Request, Progress

\* Pin control that a mode change asked for survives every calibration, failed or
\* not, from whichever state the pins had led the part to (force_state,
\* restore_prev_state).
THEOREM PinControlKept ==
  ASSUME "wait" \notin PinStates PROVE Spec => []PinsGivenBack
<1>1. Init => PinsAtWork
  BY DEF Init, PinsAtWork
<1>2. PinsAtWork => PinsGivenBack
  BY DEF PinsAtWork, PinsGivenBack
<1>3. TypeInv => TypeOK
  BY DEF TypeInv
<1>4. TypeOK /\ PinsAtWork /\ [Next]_vars => PinsAtWork'
  BY PinsStep
<1>5. QED
  BY TypeInit, TypeStep, <1>1, <1>2, <1>3, <1>4, PTL DEF Spec
=============================================================================
