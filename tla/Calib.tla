------------------------------- MODULE Calib -------------------------------
(***************************************************************************)
(* The AD9361's calibrations in ad9361.c: the TX quadrature calibration    *)
(* with its NCOs, its retry and its search over all phases, the baseband   *)
(* filters it widens meanwhile, and the RF DC offset calibration.  Ensm    *)
(* models the ALERT state, the tracking and the LO's power around them.    *)
(* Which phases converge is the environment's: a set picked at every call. *)
(***************************************************************************)
EXTENDS Integers, Sequences, FiniteSets

CONSTANTS
  Phases,     \* the phase offsets of the RX NCO (32)
  Converging, \* the sets of phases a calibration may converge for
  Chains,     \* [rf, tf]: the rates of CLKRF and CLKTF, Hz
  RfBws,      \* the RF bandwidths asked for, Hz
  RfBwLimit,  \* the part's largest: less for an AD9363A (phy->dev_sel)
  BbPlls,     \* the rates of the BBPLL, Hz
  CalArgs,    \* the arguments of ad9361_do_calib(): -1, -2 or a phase
  Inverts,    \* whether pdata inverts RX2
  CalFails,   \* whether a calibration may time out
  MaxCals     \* bound: the calls after ad9361_setup()

ASSUME CalibAssumption ==
  /\ Phases \in Nat \ {0} /\ Converging \subseteq SUBSET (0..(Phases - 1))
  /\ Chains \subseteq [rf : Nat \ {0}, tf : Nat \ {0}]
  /\ RfBws \subseteq Nat /\ RfBwLimit \in {20000000, 56000000} /\ BbPlls \subseteq Nat \ {0} /\ CalArgs \subseteq Int
  /\ Inverts \subseteq BOOLEAN /\ CalFails \in BOOLEAN /\ MaxCals \in Nat

VARIABLES
  clk,       \* the BBPLL, CLKRF and CLKTF
  bw,        \* phy->current_{rx,tx}_bw_Hz
  filter,    \* the bandwidth each analog filter is tuned to
  phase,     \* the phase and NCO words in the chip
  lastPhase, \* phy->last_tx_quad_cal_phase
  invert,    \* pdata's inversion, INVERT_RX2 and REG_INVERT_BITS
  quad       \* the last call: its kind, return, what converged, what it calibrated with

calibVars == <<clk, bw, filter, phase, lastPhase, invert, quad>>

-----------------------------------------------------------------------------
(* Numbers. *)

NeverPhase == 2 * Phases  \* ~0

Clamped(n, lo, hi) == IF n < lo THEN lo ELSE IF n > hi THEN hi ELSE n
UpTo(limit, n) == IF n > limit THEN limit ELSE n
Closest(a, b) == (a + b \div 2) \div b
CeilDiv(a, b) == (a + b - 1) \div b

\* Mutant: the division rounds down.
RxTuneDivider_down(hz, bbpll) == UpTo(511, bbpll \div (126906 * (Clamped(hz, 200000, 28000000) \div 10000)))

\* ad9361_rx_bb_analog_filter_calib(): the divider of the tuning clock, 1.4 * 2pi / ln(2) of the bandwidth.
RxTuneDivider(hz, bbpll) == UpTo(511, CeilDiv(bbpll, 126906 * (Clamped(hz, 200000, 28000000) \div 10000)))

\* Mutant: the fraction is not kept within its seven bits.
RxBandwidthWords_wide(hz) ==
  LET b == Clamped(hz, 200000, 28000000)
  IN  [mhz |-> b \div 1000000, frac |-> Closest((b % 1000000) * 128, 1000000)]

\* The same, in MHz and 128ths.
RxBandwidthWords(hz) ==
  LET b == Clamped(hz, 200000, 28000000)
  IN  [mhz |-> b \div 1000000, frac |-> UpTo(127, Closest((b % 1000000) * 128, 1000000))]

\* ad9361_tx_bb_analog_filter_calib()
TxTuneDivider(hz, bbpll) == UpTo(511, CeilDiv(bbpll, 145036 * (Clamped(hz, 625000, 20000000) \div 10000)))

\* The resistors tried in turn, and the one the loop is left with when none fits.
Resistors == <<1, 2, 4, 8, 16>>

\* The capacitor for a corner frequency and the k-th resistor.
Cap(corner, k) == Closest(500000000, corner * Resistors[k]) - 12

\* The first resistor whose capacitor fits.
SecondFor(corner) ==
  LET fit == {k \in 1..4 : Cap(corner, k) < 64}
      k == IF fit = {} THEN 5 ELSE CHOOSE i \in fit : \A j \in fit : i <= j
  IN  [res |-> Resistors[k], cap |-> UpTo(63, Cap(corner, UpTo(4, k)))]

\* Mutant: the bandwidth is not clamped from below.
SecondFilter_unclamped(hz) == SecondFor(15708 * (Clamped(hz, 200000, 20000000) \div 10000))

\* ad9361_tx_bb_second_filter_calib(): the corner is 5pi times the bandwidth.
SecondFilter(hz) == SecondFor(15708 * (Clamped(hz, 530000, 20000000) \div 10000))

\* ad9361_find_opt(): the longest run of zeros, the first of them; its start and length.
Longer(s) == IF s.cnt > s.max THEN [s EXCEPT !.max = s.cnt, !.at = s.start] ELSE s
Scanned(s, i, tested) ==
  IF tested = 0 THEN [s EXCEPT !.start = IF s.cnt = 0 THEN i - 1 ELSE @, !.cnt = @ + 1]
  ELSE [Longer(s) EXCEPT !.start = -1, !.cnt = 0]
FindOpt(tried) ==
  LET after[i \in 0..Len(tried)] ==
        IF i = 0 THEN [cnt |-> 0, start |-> -1, max |-> 0, at |-> 0] ELSE Scanned(after[i - 1], i, tried[i])
      run == Longer(after[Len(tried)])
  IN  [start |-> run.at, len |-> run.max]

\* Mutant: the field is not repeated, so that a run does not wrap around.
Searched_flat(conv) ==
  LET run == FindOpt([i \in 1..Phases |-> IF i - 1 \in conv THEN 0 ELSE 1])
  IN  (run.start + run.len \div 2) % Phases

\* Mutant: the phase is not folded back into the circle.
Searched_over(conv) ==
  LET run == FindOpt([i \in 1..(2 * Phases) |-> IF (i - 1) % Phases \in conv THEN 0 ELSE 1])
  IN  run.start + run.len \div 2

\* ad9361_tx_quad_phase_search(): the middle of the longest run, around the circle.
Searched(conv) ==
  LET run == FindOpt([i \in 1..(2 * Phases) |-> IF (i - 1) % Phases \in conv THEN 0 ELSE 1])
  IN  (run.start + run.len \div 2) % Phases

\* The same as a table.
Searches == [conv \in Converging |-> Searched(conv)]

-----------------------------------------------------------------------------
(* The TX quadrature calibration. *)

\* Mutant: the receiver's word of the third case is one less only.
NcoWords_less(rf, tf, txBw) ==
  LET w == Clamped(Closest(txBw * 8, tf) - 1, 0, 3)
  IN  IF rf = 2 * tf
      THEN [tx |-> <<1, 1, 1, 3>>[w + 1], rx |-> <<0, 0, 1, 1>>[w + 1], phase |-> <<14, 14, 14, 8>>[w + 1]]
      ELSE [tx |-> w, rx |-> w, phase |-> 0]

\* ad9361_tx_quad_calib(): the NCO words nearest a quarter of the bandwidth, and the
\* phase to start with; the clocks of other ratios are not handled.  (The phase 0x15
\* for one setting of the TX filters is not told apart from 0x1A.)
NcoWords(rf, tf, txBw) ==
  LET w == Clamped(Closest(txBw * 8, tf) - 1, 0, 3)
  IN  CASE rf = 2 * tf ->
             [tx |-> <<1, 1, 1, 3>>[w + 1], rx |-> <<0, 0, 0, 1>>[w + 1], phase |-> <<14, 14, 14, 8>>[w + 1]]
        [] rf = tf -> [tx |-> w, rx |-> w, phase |-> <<21, 26, 31, 21>>[w + 1]]
        [] OTHER -> [tx |-> w, rx |-> w, phase |-> 0]

\* Mutant: the receiver's bandwidth is not looked at.
TooNarrow_txOnly(b, nco) == nco > b.tx \div 8

\* Whether the filters of the bandwidths b must be widened for the NCO.
TooNarrow(b, nco) == nco > b.rx \div 8 \/ nco > b.tx \div 8

\* One run of the calibration at a phase, a timeout or not: its return and the
\* result bits, which a timeout leaves as they were.
Run(s, at, conv, late) ==
  IF late THEN [s EXCEPT !.at = at, !.ret = "timeout"]
  ELSE [s EXCEPT !.at = at, !.ret = "ok", !.val = at \in conv]

\* The last phase tried again: never the highest, which is not below 31.
Retried(first, start, conv, late) ==
  IF first.val THEN [first EXCEPT !.last = start]
  ELSE IF first.last < Phases - 1 THEN Run(first, first.last, conv, late)
  ELSE first

\* Mutant: no search.
WithSearch_never(s, conv, late) == s

\* The search over all phases: one late run ends it (after some phase), or the last does.
WithSearch(s, conv, late) ==
  IF s.val THEN s
  ELSE IF late = 3 THEN [s EXCEPT !.at = Phases - 1, !.ret = "timeout"]
  ELSE [s EXCEPT !.at = Searches[conv], !.last = Searches[conv], !.ret = IF late = 4 THEN "timeout" ELSE "ok"]

\* From the words to the last run; late is the run that times out, 0 for none.  val is not initialised: garbage where the first is late.
Attempts(arg, words, conv, late, garbage) ==
  LET start == IF arg >= 0 THEN arg ELSE words.phase
      s == [at |-> phase.at, last |-> lastPhase, ret |-> "ok", val |-> garbage]
  IN  WithSearch(IF arg = -2 THEN [s EXCEPT !.val = FALSE]
                 ELSE Retried(Run(s, start, conv, late = 1), start, conv, late = 2),
                 conv, late)

\* Mutant: the bits are saved after they are written.
Reinverted_late(inv) == IF inv.on THEN [inv EXCEPT !.bits = {"rx1", "rx2"}] ELSE inv

\* The inversion is taken away for the runs and put back after them, whatever they return.
Reinverted(inv) ==
  LET saved == inv.bits
      during == [inv EXCEPT !.rx2 = FALSE, !.bits = {"rx1", "rx2"}]
  IN  IF inv.on THEN [during EXCEPT !.rx2 = TRUE, !.bits = saved] ELSE inv

RxFilter(hz) ==
  [bw |-> hz, bbpll |-> clk.bbpll, div |-> RxTuneDivider(hz \div 2, clk.bbpll),
   words |-> RxBandwidthWords(hz \div 2)]
TxFilter(hz) ==
  [bw |-> hz, div |-> TxTuneDivider(hz \div 2, clk.bbpll), second |-> SecondFilter(hz \div 2)]

\* __ad9361_update_rf_bandwidth(): the filters it leaves, all tuned or not.
Filters(f, rx, tx, all) ==
  IF all THEN {[rx |-> RxFilter(rx), tx |-> TxFilter(tx)]}
  ELSE {[f EXCEPT !.rx = RxFilter(rx)], [rx |-> RxFilter(rx), tx |-> TxFilter(tx)]}

\* Mutant: the filters are put back only after a calibration that succeeded.
PutBack_ok(ret) == ret = "ok"

\* The bandwidth is put back whatever the runs return.
PutBack(ret) == TRUE

Noted(kind, arg, ret) ==
  [kind |-> kind, arg |-> arg, ret |-> ret, ran |-> FALSE, conv |-> {}, used |-> filter, restored |-> FALSE,
   n |-> quad.n + 1]

\* ad9361_tx_quad_calib() for the bandwidths b, with the filters f.
QuadCalib(kind, arg, b, f) ==
  LET words == NcoWords(clk.rf, clk.tf, b.tx \div 2)
      nco == (clk.tf * (words.tx + 1)) \div 32
      wide == TooNarrow(b, nco)
  IN  \/ /\ CalFails /\ wide
         /\ filter' \in Filters(f, 8 * nco, 8 * nco, FALSE)
         /\ quad' = Noted(kind, arg, "timeout")
         /\ UNCHANGED <<phase, lastPhase, invert>>
      \/ \E conv \in Converging, late \in 0..4, garbage, back \in BOOLEAN :
           /\ (late # 0 \/ ~back) => CalFails
           /\ garbage => late = 1
           /\ ~back => wide
           /\ \E used \in IF wide THEN Filters(f, 8 * nco, 8 * nco, TRUE) ELSE {f} :
                LET r == Attempts(arg, words, conv, late, garbage)
                IN  /\ phase' = [at |-> r.at, tx |-> words.tx, rx |-> words.rx]
                    /\ lastPhase' = r.last
                    /\ invert' = Reinverted(invert)
                    /\ filter' \in IF wide /\ PutBack(r.ret) THEN Filters(used, b.rx, b.tx, back) ELSE {used}
                    /\ quad' = [Noted(kind, arg, r.ret) EXCEPT
                                  !.ran = TRUE, !.conv = conv, !.used = used, !.restored = back]

-----------------------------------------------------------------------------
(* Calls. *)

\* ad9361_do_calib(TX_QUAD_CAL)
DoQuadCalib(arg) == QuadCalib("quad", arg, bw, filter) /\ UNCHANGED <<clk, bw>>

\* ad9361_rf_dc_offset_calib(): it alone chooses the inversion bits.
RfDcCalib ==
  /\ invert' = [invert EXCEPT !.bits = IF invert.on THEN {"rx1"} ELSE {"rx1", "rx2"}]
  /\ \E ret \in {"ok"} \union (IF CalFails THEN {"timeout"} ELSE {}) : quad' = Noted("rfdc", 0, ret)
  /\ UNCHANGED <<clk, bw, filter, phase, lastPhase>>

\* ad9361_validate_rf_bw()
ValidBw(hz) == Clamped(hz, 200000, RfBwLimit)

\* ad9361_set_{rx,tx}_rf_bandwidth(): nothing for the current bandwidth; otherwise
\* ad9361_update_rf_bandwidth(), which calibrates afterwards.
SetRfBandwidth(way, hz) ==
  LET asked == ValidBw(hz)
      to == [bw EXCEPT ![way] = asked]
  IN  /\ bw[way] # asked
      /\ \/ /\ CalFails
            /\ filter' \in Filters(filter, to.rx, to.tx, FALSE)
            /\ quad' = Noted("bandwidth", -1, "timeout")
            /\ UNCHANGED <<bw, phase, lastPhase, invert>>
         \/ /\ bw' = to
            /\ \E f \in Filters(filter, to.rx, to.tx, TRUE) : QuadCalib("bandwidth", -1, to, f)
      /\ UNCHANGED clk

\* A new chain of clocks, which tunes the filters anew (see Clocks).
SetChain(c, b) ==
  /\ clk' = [bbpll |-> b, rf |-> c.rf, tf |-> c.tf]
  /\ quad' = Noted("chain", 0, "ok")
  /\ UNCHANGED <<bw, filter, phase, lastPhase, invert>>

\* The end of ad9361_setup(): the RF DC calibration has run.
CalibInit ==
  /\ \E c \in Chains, b \in BbPlls : clk = [bbpll |-> b, rf |-> c.rf, tf |-> c.tf]
  /\ \E hz \in RfBws : /\ bw = [rx |-> ValidBw(hz), tx |-> ValidBw(hz)]
                       /\ filter = [rx |-> RxFilter(bw.rx), tx |-> TxFilter(bw.tx)]
  /\ phase = [at |-> 0, tx |-> 0, rx |-> 0] /\ lastPhase = NeverPhase
  /\ \E i \in Inverts : invert = [on |-> i, rx2 |-> i, bits |-> IF i THEN {"rx1"} ELSE {"rx1", "rx2"}]
  /\ quad = [kind |-> "none", arg |-> 0, ret |-> "ok", ran |-> FALSE, conv |-> {}, used |-> filter,
             restored |-> FALSE, n |-> 0]

CalibNext ==
  /\ quad.n < MaxCals
  /\ \/ \E a \in CalArgs : DoQuadCalib(a)
     \/ RfDcCalib
     \/ \E way \in {"rx", "tx"}, hz \in RfBws : SetRfBandwidth(way, hz)
     \/ \E c \in Chains, b \in BbPlls : SetChain(c, b)

CalibSpec == CalibInit /\ [][CalibNext]_calibVars

-----------------------------------------------------------------------------
(* Properties. *)

\* Every state variable has its type: a phase stays within its five bits.
CalibTypeOK ==
  /\ phase.at \in 0..(Phases - 1) /\ phase.tx \in 0..3 /\ phase.rx \in 0..3
  /\ lastPhase \in (0..(Phases - 1)) \union {NeverPhase}
  /\ filter.rx.div \in 1..511 /\ filter.tx.div \in 1..511

\* Both NCOs run at one frequency, in all the cases the code tells apart: "BW / 4 = Rx
\* NCO freq = Tx NCO freq" (ad9361.c:3156).
NcosMatch ==
  [][quad'.ran /\ clk.rf \in {clk.tf, 2 * clk.tf} =>
       clk.rf * (phase'.rx + 1) = clk.tf * (phase'.tx + 1)]_calibVars

\* A calibration that returns success ended at a phase that converged, if any does,
\* through the retry, the search and results of runs that timed out.
QuadConverges == [][quad'.ran /\ quad'.ret = "ok" /\ quad'.conv # {} => phase'.at \in quad'.conv]_calibVars

Margin(p, conv) == Cardinality({m \in 0..(Phases \div 2 - 1) : \A i \in (-m)..m : (p + i + Phases) % Phases \in conv})
Margins == [conv \in Converging |-> [p \in 0..(Phases - 1) |-> Margin(p, conv)]]

\* A forced search takes a phase no other lies deeper among those that converge.
SearchIsDeepest ==
  [][quad'.ran /\ quad'.arg = -2 /\ quad'.ret = "ok" =>
       \A p \in 0..(Phases - 1) : Margins[quad'.conv][p] <= Margins[quad'.conv][phase'.at]]_calibVars

\* The filters are wide enough for the NCO while a calibration runs: "Make sure the BW
\* during calibration is wide enough" (ad9361.c:3217).
WideEnough ==
  [][quad'.ran /\ ((filter.rx.bw = bw.rx /\ filter.tx.bw = bw.tx) \/ quad'.kind = "bandwidth") =>
       LET nco == (clk.tf * (phase'.tx + 1)) \div 32
       IN  nco <= quad'.used.rx.bw \div 8 /\ nco <= quad'.used.tx.bw \div 8]_calibVars

\* After a calibration, failed or not, the filters are at the current bandwidth again if
\* they were, unless tuning them back failed itself.
BwInForce ==
  [][quad'.ran /\ quad'.restored /\ ((filter.rx.bw = bw.rx /\ filter.tx.bw = bw.tx) \/ quad'.kind = "bandwidth") =>
       filter'.rx.bw = bw'.rx /\ filter'.tx.bw = bw'.tx]_calibVars

\* The inversion of RX2 and its bits are those of pdata after every call.
InvertKept == invert.rx2 = invert.on /\ invert.bits = (IF invert.on THEN {"rx1"} ELSE {"rx1", "rx2"})

\* How far the words in the chip are from a bandwidth, Hz.
OffBy(words, hz) ==
  (words.mhz - hz \div 1000000) * 1000000 + (words.frac * 1000000) \div 128 - (hz % 1000000)

\* The divider slows the BBPLL down to what the bandwidth needs, or is the largest.
SlowEnough(f, hz) == f.div * (126906 * (hz \div 10000)) >= f.bbpll \/ f.div = 511

WordsFit(words, hz) == words.frac \in 0..127 /\ OffBy(words, hz) \in (-7813)..7813

\* The tuning clock is never faster than the bandwidth needs, and the bandwidth in the
\* chip is the one tuned to within a 128th of a MHz.
TuningFits ==
  LET hz == Clamped(filter.rx.bw \div 2, 200000, 28000000)
  IN  SlowEnough(filter.rx, hz) /\ WordsFit(filter.rx.words, hz)

\* The second TX filter always has a resistor whose capacitor fits its six bits, so that
\* the clamp after the loop never changes one.
CapacitorFits == filter.tx.second.res \in {1, 2, 4, 8} /\ filter.tx.second.cap \in 0..63

\* What the calibrations leave in the chip between calls, the inversion, the tuned
\* filters and their words, and what one does, through its retry, its search and its
\* failures.
Calibrated ==
  /\ []InvertKept /\ []TuningFits /\ []CapacitorFits
  /\ NcosMatch /\ QuadConverges /\ SearchIsDeepest /\ WideEnough /\ BwInForce
=============================================================================
