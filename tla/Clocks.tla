------------------------------- MODULE Clocks -------------------------------
(***************************************************************************)
(* The AD9361's sample rate: how ad9361.c computes the chain of clocks for *)
(* a rate, writes it a divider at a time and reads it back, and how the    *)
(* FIR filters change the chain.  Rates are in units of 10 kHz.  The BBPLL *)
(* is exact: its step is below 20 Hz.  A side's chain is a sequence of     *)
(* five rates: ADC or DAC, then after the three half-band filters and the  *)
(* FIR filter.                                                             *)
(***************************************************************************)
EXTENDS Integers

CONSTANTS
  Rates,      \* the sample rates asked for
  Boards,     \* [lvds : BOOLEAN, pair : BOOLEAN]: the interface and rx2tx2
  Decimates,  \* the decimations and interpolations of FIR configurations: those the
              \* filters have, as ad9361_validate_enable_fir() checks when it enables one
  TapCounts,  \* their numbers of taps
  FiltRates,  \* the rates filters are made for, 0 for filters that name none
  ClkFails    \* whether what follows a change of the chain may fail

ASSUME ClocksAssumption ==
  /\ Rates \subseteq Nat \ {0} /\ FiltRates \subseteq Nat /\ Decimates \subseteq {1, 2, 4} /\ TapCounts \subseteq Nat
  /\ Boards \subseteq [lvds : BOOLEAN, pair : BOOLEAN] /\ ClkFails \in BOOLEAN

MinAdc == 2500
MaxAdc == 64000
MaxDac == MaxAdc \div 2
MaxBb  == 6144
MinBbpll == 71492
MaxBbpll == 143014

Sides == {"rx", "tx"}

\* max_rx_rates[] and max_tx_rates[]
Limit == [rx |-> <<MaxAdc, 64000, 32000, 24576, MaxBb>>, tx |-> <<MaxDac, 32000, 32000, 16000, MaxBb>>]

VARIABLES
  board,    \* pdata
  fir,      \* the phy's view of each FIR filter: [on, by, taps], on = !bypass
  governor, \* phy->rate_governor
  filt,     \* filt_valid and the rate of filt_{rx,tx}_path_clks, 0 if not valid
  chip,     \* the registers: the BBPLL's rate, and five fields for each side
  cached,   \* phy->clks[]->rate
  last      \* the last operation: the rate asked, whether the chain was set, its return

clocksVars == <<board, fir, governor, filt, chip, cached, last>>

-----------------------------------------------------------------------------
(* Registers and rates. *)

\* ad9361_get_clk_scaler() of a FIR filter; the other fields are their division.
Divides(f) == IF f <= 1 THEN 1 ELSE IF f = 2 THEN 2 ELSE 4

\* The field of a FIR filter that divides.
Divider(by) == CHOOSE f \in 1..3 : Divides(f) = by

\* ad9361_clk_factor_recalc_rate() from each parent to its child.
Through(parent, fields) ==
  LET top == parent \div fields[1]
      hb3 == top \div fields[2]
      hb2 == hb3 \div fields[3]
      hb1 == hb2 \div fields[4]
  IN  <<top, hb3, hb2, hb1, hb1 \div Divides(fields[5])>>

\* The loops at the end of clk_set_rate() read every clock back, parents first;
\* the DAC's parent is the ADC's clock.
ReadBack(c) ==
  LET rx == Through(c.bbpll, c.rx)
  IN  [bbpll |-> c.bbpll, rx |-> rx, tx |-> Through(rx[1], c.tx)]

Parent(rates, side, i) ==
  IF i > 1 THEN rates[side][i - 1] ELSE IF side = "rx" THEN rates.bbpll ELSE rates.rx[1]

\* NO_OS_DIV_ROUND_CLOSEST
Rounded(a, b) == (a + b \div 2) \div b

\* Mutant: the field of a FIR filter is its division.
Fields_plain(side, i, div, on) == IF i = 5 THEN {IF on THEN div ELSE 0} ELSE {div}

\* ad9361_set_clk_scaler(): the field for a division, if the stage has it.
Fields(side, i, div, on) ==
  CASE i = 1 /\ side = "rx" -> {p \in {2, 4, 8, 16, 32, 64} : p <= div /\ div < 2 * p}
    [] i = 2 -> {div} \cap 1..3
    [] i = 5 -> {IF on THEN Divider(by) ELSE 0 : by \in {div} \cap {1, 2, 4}}
    [] OTHER -> {div} \cap 1..2

\* Mutant: only the clock itself is read back, not those below it.
SetClock_alone(s, side, i, rate, on) ==
  LET p == Parent(s.cached, side, i)
      fields == IF rate >= p THEN Fields(side, i, 1, on) ELSE Fields(side, i, Rounded(p, rate), on)
      c == IF fields = {} THEN s.chip ELSE [s.chip EXCEPT ![side][i] = CHOOSE f \in fields : TRUE]
  IN  IF s.cached[side][i] = rate THEN s
      ELSE [chip |-> c, cached |-> [s.cached EXCEPT ![side][i] = ReadBack(c)[side][i]]]

\* clk_set_rate() of a divider: nothing if the rate is the cached one; a division
\* the stage does not have is dropped and 0 returned all the same.
SetClock(s, side, i, rate, on) ==
  LET p == Parent(s.cached, side, i)
      fields == IF rate >= p THEN IF Rounded(rate, p) = 1 THEN Fields(side, i, 1, on) ELSE {}
                ELSE Fields(side, i, Rounded(p, rate), on)
      c == IF fields = {} THEN s.chip ELSE [s.chip EXCEPT ![side][i] = CHOOSE f \in fields : TRUE]
  IN  IF s.cached[side][i] = rate THEN s ELSE [chip |-> c, cached |-> ReadBack(c)]

\* clk_set_rate() of the BBPLL once it runs, with the clamps of ad9361_bbpll_round_rate().
SetBbpll(s, rate) ==
  LET c == [s.chip EXCEPT !.bbpll = IF rate > MaxBbpll THEN MaxBbpll
                                    ELSE IF rate < MinBbpll THEN MinBbpll ELSE rate]
  IN  IF s.cached.bbpll = rate THEN s ELSE [chip |-> c, cached |-> ReadBack(c)]

\* Mutant: the filter is left to the clocks.
ByHand_never(c, firs) == c

\* The writes after "Workaround for clock framework": a filter that does not
\* change the rate is switched on or off by hand.
ByHand(c, firs) ==
  LET Field(side) ==
        IF ~firs[side].on THEN 0 ELSE IF firs[side].by = 1 THEN 1 ELSE c[side][5]
  IN  [c EXCEPT !.rx[5] = Field("rx"), !.tx[5] = Field("tx")]

\* A stage of the receiver, then the same of the transmitter.
Stage(s, i, chain, firs) ==
  LET rx == SetClock(s, "rx", i, chain.rx[i], firs.rx.on)
  IN  SetClock(rx, "tx", i, chain.tx[i], firs.tx.on)

\* ad9361_set_trx_clock_chain() after its validation: the BBPLL, then stage by stage.
Written(c, rates, chain, firs) ==
  LET s0 == SetBbpll([chip |-> c, cached |-> rates], chain.bbpll)
      s1 == Stage(s0, 1, chain, firs)
      s2 == Stage(s1, 2, chain, firs)
      s3 == Stage(s2, 3, chain, firs)
      s4 == Stage(s3, 4, chain, firs)
      s5 == Stage(s4, 5, chain, firs)
  IN  [chip |-> ByHand(s5.chip, firs), cached |-> s5.cached]

-----------------------------------------------------------------------------
(* The chain for a sample rate. *)

\* clk_dividers[][]: the whole division, and that of each half-band filter.
HalfBands == <<<<12, 3, 2, 2>>, <<8, 2, 2, 2>>, <<6, 3, 1, 2>>, <<4, 2, 2, 1>>, <<3, 3, 1, 1>>,
              <<2, 2, 1, 1>>, <<1, 1, 1, 1>>>>

By(f) == IF f.on THEN f.by ELSE 1

\* Mutant: the transmitter keeps the receiver's row.
TxRow_same(i, adc, dac) == i

\* The row (from 0) of the transmitter for the receiver's row i.
TxRow(i, adc, dac) ==
  LET ratio == IF dac > adc THEN -(dac \div adc) ELSE adc \div dac
      shift == IF ratio = 1 THEN 0 ELSE ratio
  IN  IF adc <= MaxDac THEN i - shift
      ELSE IF i = 4 /\ ratio >= 0 THEN 7
      ELSE i + (IF i = 5 /\ ratio >= 0 THEN 1 ELSE 2) - shift

\* The largest multiple of the ADC's clock that the BBPLL reaches.
Multiple(adc) ==
  CHOOSE d \in {2, 4, 8, 16, 32, 64} : adc * d <= MaxBbpll /\ (d = 64 \/ adc * 2 * d > MaxBbpll)

\* ad9361_calculate_rf_clock_chain(): the set of its results, none for -EINVAL.  Each
\* recursion starts a row later, so the first row that serves both sides is taken;
\* with the nominal governor and a slow rate the search starts at row 0.
Calculate(rate, gov, firs) ==
  LET clkrf == rate * By(firs.rx)
      clktf == rate * By(firs.tx)
      Adc(i) == clkrf * HalfBands[i + 1][1]
      first == IF gov = 1 /\ clkrf * 8 < MinAdc THEN 0 ELSE gov
      rows == {i \in first..6 : /\ Adc(i) \in MinAdc..MaxAdc
                                /\ TxRow(i, Adc(i), clktf * HalfBands[i + 1][1]) \in 0..6}
      row == CHOOSE i \in rows : \A j \in rows : i <= j
      adc == Adc(row)
      dac == IF adc <= MaxDac THEN adc ELSE adc \div 2
      Chain(top, r, by) ==
        LET d == HalfBands[r + 1]
            hb3 == top \div d[2]
            hb2 == hb3 \div d[3]
            hb1 == hb2 \div d[4]
        IN  <<top, hb3, hb2, hb1, hb1 \div by>>
  IN  IF rate > MaxBb \/ rows = {} THEN {}
      ELSE {[bbpll |-> adc * Multiple(adc), rx |-> Chain(adc, row, By(firs.rx)),
             tx |-> Chain(dac, TxRow(row, adc, clktf * HalfBands[row + 1][1]), By(firs.tx))]}

\* Mutant: only the interface's clock is looked at.
Valid_dataOnly(b, chain) == \E i \in 1..4 : chain.rx[2] \div <<2, 4, 8, 16>>[i] = 2 * chain.rx[5]

\* ad9361_validate_trx_clock_chain(), the tolerance of 4 Hz being equality here.
Valid(b, chain) ==
  LET data == chain.rx[5] * ((IF b.pair THEN 4 ELSE 2) \div (IF b.lvds THEN 1 ELSE 2))
  IN  /\ b.lvds \/ data <= MaxBb
      /\ chain.bbpll <= MaxBbpll
      /\ \A side \in Sides : \A i \in 1..5 : chain[side][i] <= Limit[side][i]
      /\ \/ \E i \in 1..3 : chain.rx[1] \div i = data
         \/ \E i \in 1..4 : chain.rx[2] \div <<2, 4, 8, 16>>[i] = data

-----------------------------------------------------------------------------
(* Operations. *)

Failures == IF ClkFails THEN {TRUE, FALSE} ELSE {TRUE}

\* An operation that sets the chain to one of `chains` with the given filters.
\* Afterwards the gain control, the RSSI, the AuxADC and the RF bandwidth follow the
\* new rate; any of them may fail.  `dropped`: the chain's own result is not looked at.
Reclock(op, rate, chains, firs, dropped, firsIfBad) ==
  \/ /\ chains = {} \/ \E c \in chains : ~Valid(board, c) /\ ~dropped
     /\ last' = [op |-> op, rate |-> rate, set |-> FALSE, ok |-> FALSE]
     /\ fir' = firsIfBad /\ UNCHANGED <<chip, cached>>
  \/ \E c \in chains, ok \in Failures :
       LET w == IF Valid(board, c) THEN Written(chip, cached, c, firs)
                ELSE [chip |-> chip, cached |-> cached]
       IN  /\ dropped \/ Valid(board, c)
           /\ chip' = w.chip /\ cached' = w.cached
           /\ last' = [op |-> op, rate |-> rate, set |-> Valid(board, c), ok |-> ok]
           /\ fir' = IF ok THEN firs ELSE firsIfBad

\* ad9361_set_tx_sampling_freq() and ad9361_set_rx_sampling_freq(), whose bodies are one.
SetSampling(r) ==
  /\ Reclock("rate", r, Calculate(r, governor, fir), fir, TRUE, fir)
  /\ UNCHANGED <<board, governor, filt>>

\* ad9361_get_tx_sampling_freq(): clk_get_rate() of the last clock.
Sampling(side) == cached[side][4] \div Divides(chip[side][5])

\* The checks of ad9361_validate_enable_fir() on the filters.
FilterFits(firs) ==
  /\ firs.tx.on => firs.tx.by \in {1, 2, 4} /\ (firs.tx.by = 1 => firs.tx.taps <= 64)
  /\ firs.rx.on => firs.rx.by \in {1, 2, 4}

\* Its checks of the filters against the chain.
TapsFit(firs, c) ==
  /\ firs.tx.on => firs.tx.taps <= (c.tx[1] \div c.tx[5]) * 16
  /\ firs.rx.on => firs.rx.taps <= ((c.rx[1] \div (IF c.rx[1] = c.rx[2] THEN 1 ELSE 2)) \div c.rx[5]) * 16

\* The chain it takes: the filter's own if it is valid and both filters are on, else
\* the one for the present rate, else the one for the smallest.
FilterChains(firs, f) ==
  LET now == Calculate(Sampling("tx"), governor, firs)
      least == Calculate(IF governor = 1 THEN 150 ELSE 100, governor, firs)
      own == Calculate(f, 0, firs)
      c == IF f # 0 /\ firs.rx.on /\ firs.tx.on THEN own ELSE IF now # {} THEN now ELSE least
  IN  IF FilterFits(firs) THEN {x \in c : TapsFit(firs, x)} ELSE {}

\* ad9361_set_{rx,tx,trx}_fir_en_dis(): nothing if they are so already; on any error
\* the filters are noted as bypassed.
EnableFir(sides, on) ==
  /\ \E s \in sides : fir[s].on # on
  /\ LET firs == [s \in Sides |-> IF s \in sides THEN [fir[s] EXCEPT !.on = on] ELSE fir[s]]
         off  == [s \in Sides |-> IF s \in sides THEN [fir[s] EXCEPT !.on = FALSE] ELSE fir[s]]
     IN  Reclock("fir", 0, FilterChains(firs, filt), firs, FALSE, off)
  /\ UNCHANGED <<board, governor, filt>>

\* ad9361_load_fir_filter_coef() takes up to 128 taps, in sixteens.
TapsOK(taps) == taps \in 1..128 /\ taps % 16 = 0

\* ad9361_set_{rx,tx}_fir_config(): the decimation is noted whatever comes of the
\* load, which switches the filter on and then puts its enable back.
LoadFir(side, by, taps) ==
  /\ fir' = [fir EXCEPT ![side].by = by, ![side].taps = IF TapsOK(taps) THEN taps ELSE @]
  /\ last' = [op |-> "load", rate |-> 0, set |-> FALSE, ok |-> TapsOK(taps)]
  /\ UNCHANGED <<board, governor, filt, chip, cached>>

\* ad9361_trx_load_enable_fir() with filters made for the rate r (none if 0): with both
\* filters on already, ad9361_set_trx_fir_en_dis() has nothing to do.
LoadEnableFir(r, rx, tx, taps) ==
  LET loaded == [s \in Sides |-> [fir[s] EXCEPT !.by = IF s = "rx" THEN rx ELSE tx, !.taps = taps]]
      firs   == [s \in Sides |-> [loaded[s] EXCEPT !.on = TRUE]]
      off    == [s \in Sides |-> [loaded[s] EXCEPT !.on = FALSE]]
  IN  /\ TapsOK(taps) /\ (r # 0 => Calculate(r, 0, firs) # {})
      /\ filt' = r
      /\ IF \A s \in Sides : fir[s].on
         THEN /\ fir' = firs /\ last' = [op |-> "load", rate |-> 0, set |-> FALSE, ok |-> TRUE]
              /\ UNCHANGED <<chip, cached>>
         ELSE Reclock("fir", 0, FilterChains(firs, r), firs, FALSE, off)
      /\ UNCHANGED <<board, governor>>

\* ad9361_set_trx_rate_gov()
SetGovernor(g) ==
  /\ governor' = g /\ last' = [op |-> "governor", rate |-> 0, set |-> FALSE, ok |-> TRUE]
  /\ UNCHANGED <<board, fir, filt, chip, cached>>

\* After ad9361_clear_state() and ad9361_setup() with default_init_param.c's chain.
ClocksInit ==
  /\ board \in Boards
  /\ fir = [s \in Sides |-> [on |-> FALSE, by |-> 0, taps |-> 0]]
  /\ governor = 1 /\ filt = 0
  /\ chip = [bbpll |-> 98304, rx |-> <<4, 2, 2, 2, 0>>, tx |-> <<2, 1, 2, 2, 0>>]
  /\ cached = ReadBack(chip)
  /\ last = [op |-> "setup", rate |-> 3072, set |-> TRUE, ok |-> TRUE]

ClocksNext ==
  \/ \E r \in Rates : SetSampling(r)
  \/ \E sides \in {{"rx"}, {"tx"}, Sides}, on \in BOOLEAN : EnableFir(sides, on)
  \/ \E side \in Sides, by \in Decimates, taps \in TapCounts : LoadFir(side, by, taps)
  \/ \E r \in FiltRates, rx, tx \in Decimates, taps \in TapCounts : LoadEnableFir(r, rx, tx, taps)
  \/ \E g \in {0, 1} : SetGovernor(g)

ClocksSpec == ClocksInit /\ [][ClocksNext]_clocksVars

-----------------------------------------------------------------------------
(* Properties. *)

\* Every state variable has its type: each divider's field is one the register has.
ClocksTypeOK ==
  /\ fir \in [Sides -> [on : BOOLEAN, by : Decimates \cup {0}, taps : TapCounts \cup {0}]]
  /\ governor \in {0, 1} /\ filt \in FiltRates \cup {0}
  /\ chip \in [bbpll : MinBbpll..MaxBbpll, rx : [1..5 -> 0..64], tx : [1..5 -> 0..64]]
  /\ chip.rx[1] \in 2..64 /\ chip.tx[1] \in 1..2
  /\ \A side \in Sides : /\ chip[side][2] \in 1..3 /\ chip[side][3] \in 1..2
                         /\ chip[side][4] \in 1..2 /\ chip[side][5] \in 0..3

\* The rates the driver remembers are those its registers make.
CacheFresh == cached = ReadBack(chip)

\* However the chain got there, no clock runs faster than the part allows.
WithinLimits == \A side \in Sides : \A i \in 1..5 : ReadBack(chip)[side][i] <= Limit[side][i]

\* A rate whose chain was set is the rate of both directions, save where the ADC cannot run
\* at 16 times the rate and the table of dividers has no row for the transmitter:
\* ad9361_calculate_rf_clock_chain() then takes the row that divides by 3 for 2, or by 6
\* for 4, and reports success.
RateAsAsked ==
  last.op = "rate" /\ last.set =>
    /\ Sampling("rx") = last.rate
    /\ \/ Sampling("tx") = last.rate
       \/ By(fir.rx) = 4 /\ By(fir.tx) < 4 /\ 16 * last.rate > MaxAdc

\* After any operation that set the chain, each filter is on in the part exactly as
\* the driver notes it, with the decimation the chain was made for.
FilterInForce ==
  last.set /\ last.ok =>
    \A s \in Sides : chip[s][5] = IF fir[s].on THEN Divider(fir[s].by) ELSE 0

\* What the clock framework promises of the chain (ad9361.c:4579-4884): what is
\* remembered, allowed, asked for and in force agree.
ClocksInForce == CacheFresh /\ WithinLimits /\ RateAsAsked /\ FilterInForce
=============================================================================
