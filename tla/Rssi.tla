-------------------------------- MODULE Rssi ---------------------------------
(***************************************************************************)
(* The signal strength measurement of the AD9361: its set-up from times or *)
(* samples, again at every change of the baseband clock, the gain step     *)
(* calibration and the stored tables that replace it, and the readings.    *)
(* ad9361_setup() calibrates after the set-up, through the same registers. *)
(***************************************************************************)
EXTENDS Integers, Sequences

CONSTANTS
  RssiAsks,     \* pdata->rssi_ctrl: unit, restart mode, delay, wait, duration
  KiloRates,    \* RX sample rates in kHz, the first one of ad9361_setup() among them
  RssiLos,      \* MHz, of the RX LO
  Stored,       \* whether calibration is skipped, and tables are stored: [skip, tables]
  Strengths,    \* what is measured: symbol and preamble of two receivers, 9 bits each
  RxNumbers,    \* the receivers in use: 0 is both, else rx1tx1_mode_use_rx_num
  MaxRetunes    \* bound: the calls after ad9361_setup()

ByPin    == 1   \* EN_AGC_PIN_IS_PULLED_HIGH
ByGain   == 3   \* GAIN_CHANGE_OCCURS, which the calibration selects
BySpi    == 4   \* SPI_WRITE_TO_REGISTER
LongestE == 14

\* Where ad9361_setup() is, in `passed'.
BeforeSetUp  == -2
BeforeTables == -1

\* A duration of 0 would make the driver write before its array.
ASSUME RssiAssumption ==
  /\ \A a \in RssiAsks : a.duration \in Nat \ {0} /\ a.delay \in Nat /\ a.wait \in Nat
  /\ \A r \in KiloRates : r \in Nat /\ 500 <= r
  /\ RssiLos \subseteq 0..6000 /\ Stored \subseteq [skip : BOOLEAN, tables : BOOLEAN]
  /\ Strengths \subseteq [symbol : [1..2 -> 0..511], preamble : [1..2 -> 0..511]]
  /\ MaxRetunes \in Nat /\ RxNumbers \subseteq 0..2

VARIABLES
  ask,      \* pdata: what is asked, the stored tables, the receivers
  kHz,      \* the RX sample rate
  rxLo,     \* the RX LO
  rssi,     \* REG_RSSI_CONFIG, delay, wait, durations and weights
  steps,    \* REG_LNA_GAIN and the calibration tables, by what they come from
  heard,    \* what the chip has measured, and the last reading
  passed    \* where ad9361_setup() is, then the calls made

rssiVars == <<ask, kHz, rxLo, rssi, steps, heard, passed>>

Origins == {"none", "stored", "measured"}

\* Exponents, weights, delay and wait fit their registers.
RssiTypeOK ==
  /\ Len(rssi.dur) = 4 /\ \A i \in 1..4 : rssi.dur[i] \in 0..LongestE /\ rssi.weight[i] \in 0..255
  /\ rssi.delay \in 0..255 /\ rssi.wait \in 0..255 /\ rssi.mode \in 0..5
  /\ steps.gain \in -1..3 /\ steps.diff \in -1..3 /\ steps.lna \in Origins /\ steps.mixer \in Origins
  /\ passed \in BeforeSetUp..MaxRetunes

DivRound(x, d) == (x + d \div 2) \div d

-----------------------------------------------------------------------------
(* The set-up. *)

AtMost(x, most) == IF x > most THEN most ELSE x

\* Delay, wait and duration in samples: NO_OS_DIV_ROUND_CLOSEST of the microseconds.
Samples(n, rate) == IF ask.rssi.samples THEN n ELSE DivRound(n * rate, 1000)

\* 1 << e
Power(e) == <<1, 2, 4, 8, 16, 32, 64, 128, 256, 512, 1024, 2048, 4096, 8192, 16384>>[e + 1]

\* The first power the loop finds, from the largest down, that what is left holds.
Largest(n) == CHOOSE e \in 0..LongestE : Power(e) <= n /\ (e = LongestE \/ n < Power(e + 1))

\* Mutant: it must be less than what is left.
Taken_strict(n) == IF n < 2 THEN n ELSE Power(Largest(n - 1))

Taken(n) == IF n = 0 THEN 0 ELSE Power(Largest(n))

\* What is left before each of the four pieces of a duration, and after the last.
Unfilled(n) ==
  LET a == n - Taken(n)
      b == a - Taken(a)
      c == b - Taken(b)
  IN  <<n, a, b, c, c - Taken(c)>>

\* A share of 255 for each piece, rounded.
Shares(left) == [i \in 1..4 |-> DivRound(255 * (left[i] - left[i + 1]), left[1] - left[5])]

\* Mutant: the rounding is left as it is.
Weights_rounded(left) == Shares(left)

\* The last piece takes what rounding leaves; the registers are bytes.
Weights(left) ==
  LET near == Shares(left)
      off  == near[1] + near[2] + near[3] + near[4] - 255
  IN  [i \in 1..4 |-> IF left[i] > 0 /\ (i = 4 \/ left[i + 1] = 0) THEN (near[i] - off) % 256
                      ELSE near[i]]

\* ad9361_rssi_setup()
SetUpFor(rate) ==
  LET left  == Unfilled(Samples(ask.rssi.duration, rate))
      delay == IF ask.rssi.restart = ByPin THEN 0 ELSE Samples(ask.rssi.delay, rate)
  IN  [dur |-> [i \in 1..4 |-> IF left[i] > 0 THEN Largest(left[i]) ELSE 0],
       weight |-> Weights(left), delay |-> AtMost(delay \div 8, 255),
       wait |-> AtMost(Samples(ask.rssi.wait, rate) \div 4, 255), mode |-> ask.rssi.restart,
       start |-> ask.rssi.restart = BySpi, single |-> left[2] = 0]

\* In ad9361_setup().
SetUpRssi ==
  /\ passed = BeforeSetUp /\ passed' = BeforeTables
  /\ rssi' = SetUpFor(kHz)
  /\ UNCHANGED <<ask, kHz, rxLo, steps, heard>>

\* Mutant: in time or in samples, nothing is updated.
Updated_never(rate) == rssi

\* From ad9361_bb_clk_change_handler(): samples need no update.
Updated(rate) == IF ask.rssi.samples THEN rssi ELSE SetUpFor(rate)

-----------------------------------------------------------------------------
(* The gain steps. *)

\* Mutant: the second limit is the third's.
Row_gap(mhz) == IF mhz < 1300 THEN 0 ELSE IF mhz < 4100 THEN 2 ELSE 3

\* The row of gain_step_calib_reg_val[].
Row(mhz) == IF mhz < 1300 THEN 0 ELSE IF mhz < 3300 THEN 1 ELSE IF mhz < 4100 THEN 2 ELSE 3

\* ad9361_rssi_gain_step_calib(): its own measurement, four LNA steps, 15 mixer
\* errors; a calibration that times out leaves errors to read as well.
Calibrate ==
  /\ steps' = [gain |-> Row(rxLo), diff |-> Row(rxLo), lna |-> "measured", mixer |-> "measured"]
  /\ rssi' = [rssi EXCEPT !.mode = ByGain, !.single = TRUE, !.start = FALSE,
                          !.dur = [@ EXCEPT ![1] = LongestE, ![2] = 0]]

\* ad9361_rssi_program_lna_gain() and ad9361_rssi_write_err_tbl(); -1 is a stored row.
Program ==
  steps' = [gain |-> -1, diff |-> -1, lna |-> "stored", mixer |-> "stored"] /\ UNCHANGED rssi

\* Calibrated, or the stored tables, or neither.
FillTables ==
  /\ passed = BeforeTables /\ passed' = 0
  /\ IF ~ask.tables.skip THEN Calibrate
     ELSE IF ask.tables.tables THEN Program ELSE UNCHANGED <<steps, rssi>>
  /\ UNCHANGED <<ask, kHz, rxLo, heard>>

-----------------------------------------------------------------------------
(* After the set-up. *)

RssiStep == passed \in 0..MaxRetunes - 1 /\ passed' = passed + 1

ChangeBbClock(r) ==
  /\ RssiStep /\ kHz' = r /\ rssi' = Updated(r)
  /\ UNCHANGED <<ask, rxLo, steps, heard>>

\* A calibration or the stored tables on demand.
Recalibrate == RssiStep /\ (Calibrate \/ Program) /\ UNCHANGED <<ask, kHz, rxLo, heard>>

TuneRxLo(mhz) == RssiStep /\ rxLo' = mhz /\ UNCHANGED <<ask, kHz, rssi, steps, heard>>

\* The six registers from REG_PREAMBLE_LSB down: the low bits, RX2's and RX1's bytes.
RssiBytes(s) ==
  <<(s.preamble[1] % 2) + 2 * (s.preamble[2] % 2), (s.symbol[1] % 2) + 2 * (s.symbol[2] % 2),
    s.preamble[2] \div 2, s.symbol[2] \div 2, s.preamble[1] \div 2, s.symbol[1] \div 2>>

\* ad9361_1rx1tx_channel_map(): the second receiver may be the only one.
Antenna(ch) == IF ask.use = 2 THEN ch + 2 ELSE ch + 1

\* Mutant: the low bit of the other receiver.
Unpacked_low(ant, b) ==
  [symbol |-> 25 * (2 * b[IF ant = 1 THEN 6 ELSE 4] + (b[2] % 2)),
   preamble |-> 25 * (2 * b[IF ant = 1 THEN 5 ELSE 3] + (b[1] % 2))]

\* ad9361_read_rssi(), in hundredths of a dB.
Unpacked(ant, b) ==
  [symbol |-> 25 * (IF ant = 1 THEN 2 * b[6] + (b[2] % 2) ELSE 2 * b[4] + (b[2] \div 2)),
   preamble |-> 25 * (IF ant = 1 THEN 2 * b[5] + (b[1] % 2) ELSE 2 * b[3] + (b[1] \div 2))]

\* ad9361_get_rx_rssi(), refused for an antenna there is not.
ReadRssi(ch) ==
  /\ RssiStep /\ Antenna(ch) \in 1..2
  /\ heard' = [heard EXCEPT !.of = Antenna(ch), !.read = Unpacked(Antenna(ch), RssiBytes(heard.now))]
  /\ UNCHANGED <<ask, kHz, rxLo, rssi, steps>>

\* ad9361_get_tx_rssi(): the same packing in three registers, the value in dB with the
\* hundredths after three digits.
ReadTxRssi(ch) ==
  /\ RssiStep
  /\ LET val == 25 * heard.now.symbol[ch + 1]
     IN  heard' = [heard EXCEPT !.of = ch + 3, !.read = (val \div 100) * 1000 + (val % 100)]
  /\ UNCHANGED <<ask, kHz, rxLo, rssi, steps>>

NoPieces == [dur |-> <<0, 0, 0, 0>>, weight |-> <<0, 0, 0, 0>>, delay |-> 0, wait |-> 0, mode |-> 0,
             start |-> FALSE, single |-> FALSE]

RssiInit ==
  /\ ask \in [rssi : RssiAsks, tables : Stored, use : RxNumbers]
  /\ kHz \in KiloRates /\ rxLo \in RssiLos
  /\ rssi = NoPieces /\ steps = [gain |-> 0, diff |-> 0, lna |-> "none", mixer |-> "none"]
  /\ \E s \in Strengths : heard = [now |-> s, of |-> 0, read |-> 0]
  /\ passed = BeforeSetUp

RssiNext ==
  \/ SetUpRssi \/ FillTables \/ Recalibrate
  \/ \E r \in KiloRates : ChangeBbClock(r)
  \/ \E f \in RssiLos : TuneRxLo(f)
  \/ \E ch \in 0..1 : ReadRssi(ch) \/ ReadTxRssi(ch)

RssiSpec == RssiInit /\ [][RssiNext]_rssiVars

-----------------------------------------------------------------------------
(* Properties. *)

Total(w) == w[1] + w[2] + w[3] + w[4]

\* The four weights together are 255 in the arithmetic of their registers.
WeightsTotal == passed # BeforeSetUp => Total(rssi.weight) % 256 = 255

\* "total of all weights must be 0xFF" (ad9361.c:4367)
WeightsAddUp == passed # BeforeSetUp => Total(rssi.weight) = 255

SetsUp == passed' = BeforeTables \/ (kHz' # kHz /\ ~ask.rssi.samples)

\* The registers s measure n samples: short of them by less than a sixteenth, unless n is
\* more than the pieces can hold.
Measures(s, n) ==
  LET total == Total([i \in 1..4 |-> IF s.weight[i] > 0 THEN Power(s.dur[i]) ELSE 0])
  IN  /\ total <= n /\ (n < 2 * Power(LongestE) => (n - total) * 16 < n)
      /\ s.single => total = n /\ \A i \in 2..4 : s.weight[i] = 0

\* The time that is measured: after a set-up or a change of the clock in units of time
\* what was asked in samples of that clock.
TimeIsKept == [][SetsUp => Measures(rssi', Samples(ask.rssi.duration, kHz'))]_rssiVars

\* The measurement in the registers is the gain step calibration's own.
CalibrationsOwn ==
  /\ rssi.mode = ByGain /\ rssi.single /\ ~rssi.start
  /\ rssi.dur[1] = LongestE /\ rssi.dur[2] = 0

\* At any later time the measurement is still the one asked for at the clock of that
\* time, whatever changed since, unless a calibration has put its own in its place.
TimeStands ==
  passed # BeforeSetUp /\ ~CalibrationsOwn => Measures(rssi, Samples(ask.rssi.duration, kHz))

\* The weights are as the lengths of their pieces, to within the rounding and the
\* correction, but for one that the correction took below 0.
InProportion ==
  [][SetsUp =>
       \A i, j \in 1..4 : i < j /\ rssi'.weight[j] \in 1..254 =>
         LET p == Power(rssi'.dur[i])
             q == Power(rssi'.dur[j])
         IN  2 * (rssi'.weight[i] * q - rssi'.weight[j] * p) \in -(3 * p + q)..(3 * p + q)]_rssiVars

\* The LNA steps programmed are those of the range the LO is in when they are, by the
\* ranges the table names (ad9361.c:668-673, the first one from 600 MHz).
RowCovers ==
  [][steps'.diff >= 0 /\ (steps' # steps \/ passed = BeforeTables) /\ steps'.lna = "measured" =>
       LET r == <<<<0, 1300>>, <<1300, 3300>>, <<2700, 4100>>, <<4000, 6000>>>>[steps'.diff + 1]
       IN  r[1] <= rxLo /\ rxLo <= r[2]]_rssiVars

\* Gain words and errors come from one source, and with the calibration skipped never
\* from a measurement that ad9361_setup() made.
OneSource ==
  /\ steps.lna = steps.mixer /\ (steps.diff = -1) = (steps.lna = "stored")
  /\ passed = 0 /\ ask.tables.skip => steps.lna # "measured"

\* A reading is the antenna's own, whole and low bit, and one of TX has its whole dBs.
ReadsItsOwn ==
  /\ heard.of \in 1..2 => heard.read = [symbol |-> 25 * heard.now.symbol[heard.of],
                                        preamble |-> 25 * heard.now.preamble[heard.of]]
  /\ heard.of \in 3..4 => heard.read \div 1000 = heard.now.symbol[heard.of - 2] \div 4

\* What the measurement of signal strength promises.
RssiInForce ==
  /\ []WeightsTotal /\ TimeIsKept /\ []TimeStands /\ InProportion
  /\ RowCovers /\ []OneSource /\ []ReadsItsOwn
=============================================================================
