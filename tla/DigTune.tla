------------------------------- MODULE DigTune -------------------------------
(***************************************************************************)
(* The tuning of the AD9361's digital interface, ad9361_conv.c: delays of  *)
(* clock and data are tried against a pseudo-random pattern, after         *)
(* ad9361_setup() at three sample rates, and the middle of the longest     *)
(* window is kept.  Meanwhile the transmitters are muted, the BIST injects *)
(* the pattern, the DAC core sends it and the ENSM is in FDD; all of that  *)
(* is put back.  This firmware links ad9361_conv_stub.c in its place.      *)
(*                                                                         *)
(* What passes depends on the difference of the clock's delay and the      *)
(* data's only, and is the board's.  No caller asks for lane delays.       *)
(***************************************************************************)
EXTENDS Integers, Sequences

CONSTANTS
  MaxDelay,     \* 15
  Eyes,         \* the differences that pass: [Dirs -> [DigRates -> set]]
  Cores,        \* versions of the DAC core, before or after 7
  SkipModes,    \* pdata->dig_interface_tune_skipmode
  DigDuplexes,  \* pdata->fdd
  Retunes,      \* pdata->bb_clk_change_dig_tune_en
  MaxTunes      \* bound: the calls after ad9361_setup()

Dirs     == {"rx", "tx"}
DigRates == 1..3       \* 25, 40 and 61.44 MHz
TxPower  == {"full", "asked", "low", "muted"}

ASSUME DigTuneAssumption ==
  /\ MaxDelay \in Nat /\ Cores \subseteq {7, 8} /\ SkipModes \subseteq 0..2
  /\ DigDuplexes \subseteq BOOLEAN /\ Retunes \subseteq BOOLEAN /\ MaxTunes \in Nat
  /\ Eyes \subseteq [Dirs -> [DigRates -> SUBSET ((-MaxDelay)..MaxDelay)]]

VARIABLES
  line,    \* the board: eye, core, skip mode, duplex, retuning; a FIR filter is on
  delay,   \* REG_RX_CLOCK_DATA_DELAY, REG_TX_CLOCK_DATA_DELAY
  kept,    \* pdata->port_ctrl.{rx,tx}_clk_data_delay
  power,   \* the attenuation: in the chip, kept by ad9361_tx_mute()
  gen,     \* REG_BIST_CONFIG, phy->bist_config, phy->bist_loopback_mode
  dac,     \* the DAC core: a channel's source, its loopback bit, scratch_reg[]
  ensm,    \* the state, and the duplex it is configured for
  clkAt,   \* the rate of the clock chain
  tune     \* the call under way, what it saved, the calls to come

digVars == <<line, delay, kept, power, gen, dac, ensm, clkAt, tune>>

Delays(c, d) == [clk |-> c, data |-> d]

\* Every state variable has its type: delays stay in their four bits.
DigTypeOK ==
  /\ \A d \in Dirs : /\ delay[d].clk \in 0..MaxDelay /\ delay[d].data \in 0..MaxDelay
                     /\ kept[d].clk \in 0..MaxDelay /\ kept[d].data \in 0..MaxDelay
  /\ power \in [now : TxPower, cached : TxPower] /\ clkAt \in DigRates
  /\ gen.reg \in {"off", "prbs", "user"} /\ gen.noted \in {"off", "prbs", "user"} /\ gen.loop \in 0..2
  /\ dac \in [src : {"dma", "pn", "adc"}, lb : BOOLEAN, scratch : {"dma", "pn", "adc"}]
  /\ ensm \in [state : {"alert", "fdd", "rx"}, duplex : BOOLEAN]

-----------------------------------------------------------------------------
(* The search. *)

\* ad9361_find_opt(): the first of the longest runs of passing delays.
Window(pass) ==
  LET runs == {r \in (0..MaxDelay) \X (0..MaxDelay + 1) : \A i \in 0..r[2] - 1 : r[1] + i \in pass}
  IN  CHOOSE r \in runs : \A q \in runs : q[2] < r[2] \/ (q[2] = r[2] /\ r[1] <= q[1])

Mid(w) == w[1] + w[2] \div 2

\* ad9361_check_pn() at the rates tried: a delay must pass at each.
Passing(d, rates) == {x \in (-MaxDelay)..MaxDelay : \A r \in rates : x \in line.eye[d][r]}

\* Mutant: each rate forgets what the one before has shown.
Tried_last(most) == IF most THEN {3} ELSE {clkAt}

Tried(most) == IF most THEN DigRates ELSE {clkAt}

\* ad9361_dig_tune_delay(): clock delay 0 and 15, data delays upwards and
\* downwards; the wider window, the data's if they are alike.  No delay if none.
Chosen(d, rates) ==
  LET pass == Passing(d, rates)
      data == Window({j \in 0..MaxDelay : -j \in pass})
      clk  == Window({j \in 0..MaxDelay : j \in pass})
  IN  IF data[2] = 0 /\ clk[2] = 0 THEN {}
      ELSE IF clk[2] > data[2] THEN {Delays(Mid(clk), 0)} ELSE {Delays(0, Mid(data))}

-----------------------------------------------------------------------------
(* The blocks a tuning borrows. *)

\* ad9361_hdl_loopback(): newer cores keep the source they had.
HdlLoopback(d, on) ==
  IF line.core = 7 THEN [d EXCEPT !.lb = on]
  ELSE IF on /\ d.src # "adc" THEN [d EXCEPT !.scratch = d.src, !.src = "adc"]
  ELSE IF d.src = "adc" THEN [d EXCEPT !.src = d.scratch] ELSE d

Looped(m) == dac' = HdlLoopback(dac, m = 2)

\* ad9361_bist_prbs() or what others write: both the register and the note.
Injecting(g) == [gen EXCEPT !.reg = g, !.noted = g]

TxMuted == power' = [now |-> "muted", cached |-> power.now]

-----------------------------------------------------------------------------
(* ad9361_dig_tune(), a step for each of its parts. *)

TuneAt(to) == tune' = [tune EXCEPT !.pc = to]

\* Skip mode 2, which ad9361_post_setup() takes when clock changes tune again.
Skipped == line.skip = 2 \/ "default" \in tune.flags \/ ("most" \in tune.flags /\ line.retunes)

\* Mutant: the transmitters go on.
Begin_loud ==
  /\ tune.pc = "begin"
  /\ IF Skipped
     THEN tune' = [tune EXCEPT !.pc = "settle", !.was = ensm.state, !.restore = TRUE] /\ UNCHANGED ensm
     ELSE /\ tune' = [tune EXCEPT !.pc = "rx", !.was = ensm.state, !.restore = FALSE, !.gen = gen]
          /\ ensm' = [ensm EXCEPT !.duplex = TRUE]
  /\ UNCHANGED <<line, delay, kept, power, gen, dac, clkAt>>

\* Skipped, or muted, and a TDD part made one of FDD.
Begin ==
  /\ tune.pc = "begin"
  /\ IF Skipped
     THEN /\ tune' = [tune EXCEPT !.pc = "settle", !.was = ensm.state, !.restore = TRUE]
          /\ UNCHANGED <<ensm, power>>
     ELSE /\ tune' = [tune EXCEPT !.pc = "rx", !.was = ensm.state, !.restore = FALSE, !.gen = gen]
          /\ TxMuted /\ ensm' = [ensm EXCEPT !.duplex = TRUE]
  /\ UNCHANGED <<line, delay, kept, gen, dac, clkAt>>

\* The delays written, the ENSM in FDD, the chain at the last rate tried.
Measured(d, found) ==
  /\ delay' = IF found = {} THEN [delay EXCEPT ![d] = Delays(MaxDelay, 0)]
              ELSE [delay EXCEPT ![d] = CHOOSE x \in found : TRUE]
  /\ ensm' = [ensm EXCEPT !.state = "fdd"]
  /\ clkAt' = IF "most" \in tune.flags THEN 3 ELSE clkAt

\* ad9361_dig_tune_rx()
TuneRxDelay ==
  /\ tune.pc = "rx"
  /\ gen' = [Injecting("prbs") EXCEPT !.loop = 0] /\ Looped(0)
  /\ LET found == Chosen("rx", Tried("most" \in tune.flags))
     IN  /\ Measured("rx", found)
         /\ IF found = {} THEN tune' = [tune EXCEPT !.pc = "after", !.restore = TRUE]
            ELSE TuneAt(IF line.skip = 0 THEN "tx" ELSE "after")
  /\ UNCHANGED <<line, kept, power>>

\* ad9361_dig_tune_tx() to the scan: the DAC core sends the pattern.
SendPattern ==
  /\ tune.pc = "tx"
  /\ gen' = [Injecting("off") EXCEPT !.loop = 1]
  /\ LET open == HdlLoopback(dac, FALSE)
     IN  /\ dac' = [open EXCEPT !.src = "pn"]
         /\ tune' = [tune EXCEPT !.pc = "scan", !.dac = open]
  /\ UNCHANGED <<line, delay, kept, power, ensm, clkAt>>

\* Mutant: only the new cores' source is put back.
TuneTxDelay_newCores ==
  /\ tune.pc = "scan"
  /\ LET found == Chosen("tx", Tried("most" \in tune.flags))
     IN  Measured("tx", found) /\ tune' = [tune EXCEPT !.pc = "after", !.restore = found = {}]
  /\ dac' = IF line.core = 8 THEN tune.dac ELSE dac
  /\ UNCHANGED <<line, kept, power, gen>>

\* The scan and the end of it: the DAC core as it was.
TuneTxDelay ==
  /\ tune.pc = "scan"
  /\ LET found == Chosen("tx", Tried("most" \in tune.flags))
     IN  Measured("tx", found) /\ tune' = [tune EXCEPT !.pc = "after", !.restore = found = {}]
  /\ dac' = tune.dac
  /\ UNCHANGED <<line, kept, power, gen>>

\* The loopback and the BIST register; phy->bist_config is not put back.
PutBistBack ==
  /\ tune.pc = "after" /\ TuneAt("settle")
  /\ gen' = [gen EXCEPT !.reg = tune.gen.noted, !.loop = tune.gen.loop] /\ Looped(tune.gen.loop)
  /\ UNCHANGED <<line, delay, kept, power, ensm, clkAt>>

\* Mutant: delays that are not to be stored replace the defaults.
Settle_stores ==
  /\ tune.pc = "settle"
  /\ delay' = IF tune.restore THEN kept ELSE delay
  /\ kept' = delay'
  /\ ensm' = [state |-> tune.was, duplex |-> line.fdd]
  /\ power' = [power EXCEPT !.now = power.cached]
  /\ tune' = [tune EXCEPT !.pc = "next", !.failed = tune.restore /\ ~Skipped]
  /\ UNCHANGED <<line, gen, dac, clkAt>>

\* The defaults again, or the new delays kept; the ENSM; the transmitters on
\* with what the last mute kept, though a skipped call has not muted them.
Settle ==
  /\ tune.pc = "settle"
  /\ delay' = IF tune.restore THEN kept ELSE delay
  /\ kept' = IF tune.restore \/ "temporary" \in tune.flags THEN kept ELSE delay
  /\ ensm' = [state |-> tune.was, duplex |-> line.fdd]
  /\ power' = [power EXCEPT !.now = power.cached]
  /\ tune' = [tune EXCEPT !.pc = "next", !.failed = tune.restore /\ ~Skipped]
  /\ UNCHANGED <<line, gen, dac, clkAt>>

-----------------------------------------------------------------------------
(* The callers. *)

\* ad9361_bb_clk_change_handler() tunes once more, if asked to.
ClockSet == IF line.retunes THEN <<{"default"}>> ELSE <<>>

Called(list) ==
  IF list = <<>> THEN [tune EXCEPT !.pc = "idle", !.n = @ + 1]
  ELSE [tune EXCEPT !.pc = "begin", !.flags = Head(list), !.todo = Tail(list), !.n = @ + 1,
                    !.start = [gen |-> gen, dac |-> dac, ensm |-> ensm]]

\* The next call of the same caller, or its return.  ad9361_post_setup() sets
\* the chain of the initial parameters, unless the tuning failed.
NextCall ==
  /\ tune.pc = "next"
  /\ LET sets == "most" \in tune.flags /\ ~tune.failed
         todo == tune.todo \o (IF sets THEN ClockSet ELSE <<>>)
     IN  /\ clkAt' = IF sets THEN 1 ELSE clkAt
         /\ tune' = IF todo = <<>> THEN [tune EXCEPT !.pc = "idle"]
                    ELSE [tune EXCEPT !.pc = "begin", !.flags = Head(todo), !.todo = Tail(todo)]
  /\ UNCHANGED <<line, delay, kept, power, gen, dac, ensm>>

CanCall == tune.pc = "idle" /\ tune.n < MaxTunes

\* ad9361_set_trx_clock_chain() with a filter on, at another rate.
ChangeRate(r) ==
  /\ CanCall /\ clkAt' = r
  /\ tune' = Called((IF line.fir THEN <<{"temporary"}>> ELSE <<>>) \o ClockSet)
  /\ UNCHANGED <<line, delay, kept, power, gen, dac, ensm>>

\* ad9361_validate_enable_fir(): tuned with the filter, "if it is disabled we
\* restore the values from the initial calibration".
SwitchFir(on) ==
  /\ CanCall /\ line.fir # on /\ line' = [line EXCEPT !.fir = on]
  /\ tune' = Called(IF on THEN <<{"temporary"}>> \o ClockSet ELSE ClockSet \o <<{"default"}>>)
  /\ UNCHANGED <<delay, kept, power, gen, dac, ensm, clkAt>>

\* ad9361_dig_interface_timing_analysis(): muted, every RX delay tried, the
\* one there was put back, the blocks as ad9361_dig_tune() does.
AnalyseTiming ==
  /\ CanCall /\ tune' = Called(<<>>)
  /\ power' = [power EXCEPT !.cached = power.now]
  /\ dac' = HdlLoopback(HdlLoopback(dac, FALSE), gen.loop = 2)
  /\ gen' = [gen EXCEPT !.reg = gen.noted, !.noted = "prbs"]
  /\ UNCHANGED <<line, delay, kept, ensm, clkAt>>

\* The user's BIST, loopback, attenuation and receiver (the calls of Bist,
\* Attenuation and Ensm), between tunings.
UseBlocks ==
  /\ CanCall /\ tune' = [tune EXCEPT !.n = @ + 1]
  /\ \/ gen' = Injecting("user") /\ UNCHANGED <<dac, power, ensm>>
     \/ \E m \in {0, 2} : gen' = [gen EXCEPT !.loop = m] /\ Looped(m) /\ UNCHANGED <<power, ensm>>
     \/ power' = [power EXCEPT !.now = "low"] /\ UNCHANGED <<gen, dac, ensm>>
     \/ ~line.fdd /\ \E s \in {"alert", "rx"} : ensm' = [ensm EXCEPT !.state = s] /\ UNCHANGED <<gen, dac, power>>
  /\ UNCHANGED <<line, delay, kept, clkAt>>

\* After ad9361_setup(), in the first call of ad9361_post_setup(): a core with
\* an id of its own takes the defaults.
DigInit ==
  /\ line \in [eye : Eyes, core : Cores, skip : SkipModes, fdd : DigDuplexes, retunes : Retunes, fir : {FALSE}]
  /\ delay = [d \in Dirs |-> Delays(0, 0)] /\ kept = delay
  /\ power = [now |-> "asked", cached |-> "full"]
  /\ gen = [reg |-> "off", noted |-> "off", loop |-> 0]
  /\ dac = [src |-> "dma", lb |-> FALSE, scratch |-> "dma"]
  /\ ensm = [state |-> IF line.fdd THEN "fdd" ELSE "rx", duplex |-> line.fdd] /\ clkAt = 1
  /\ \E own \in {{}, {"default"}} :
       tune = [pc |-> "begin", flags |-> {"most"} \cup own, todo |-> <<>>, n |-> 0, restore |-> FALSE,
               failed |-> FALSE, was |-> ensm.state, gen |-> gen, dac |-> dac,
               start |-> [gen |-> gen, dac |-> dac, ensm |-> ensm]]

DigNext ==
  \/ Begin \/ TuneRxDelay \/ SendPattern \/ TuneTxDelay \/ PutBistBack \/ Settle \/ NextCall
  \/ \E r \in DigRates : ChangeRate(r)
  \/ \E on \in BOOLEAN : SwitchFir(on)
  \/ AnalyseTiming \/ UseBlocks

DigSpec == DigInit /\ [][DigNext]_digVars

-----------------------------------------------------------------------------
(* Properties. *)

\* "Mute TX, we don't want to transmit the PRBS" (ad9361_conv.c:293, 540): the
\* pattern is never sent by a transmitter that is on.
PatternIsMuted == dac.src = "pn" \/ tune.pc \in {"rx", "tx", "after"} => power.now = "muted"

\* A direction that was tuned has a delay that passes at every rate tried.
TunedPasses ==
  \A d \in Dirs :
    (tune.pc = "settle" /\ ~tune.restore /\ (d = "rx" \/ line.skip = 0)) =>
      \A r \in DigRates : "most" \in tune.flags \/ r = clkAt =>
        delay[d].clk - delay[d].data \in line.eye[d][r]

\* A finished tuning leaves the loopback, the DAC core, the ENSM and the BIST
\* register as they were, as far as the driver's notes of them were true.
BlocksPutBack ==
  LET s == tune.start
  IN  tune.pc = "next" =>
        /\ ensm = s.ensm /\ gen.loop = s.gen.loop
        /\ s.gen.noted = s.gen.reg => gen.reg = s.gen.reg
        /\ (s.gen.loop = 2) = (s.dac.src = "adc" \/ s.dac.lb) => dac.src = s.dac.src /\ dac.lb = s.dac.lb

\* Without a filter the delays are those of the initial calibration, whatever
\* was tuned while a filter was on.
DefaultsWithoutFir == tune.pc = "idle" /\ ~line.fir => delay = kept

\* Only the tuning of ad9361_post_setup() makes delays that last.
InitialLast == [][kept' # kept => "most" \in tune.flags]_digVars

\* What a tuning of the digital interface promises to those whose blocks it borrows.
DigTuned == []PatternIsMuted /\ []TunedPasses /\ []BlocksPutBack /\ []DefaultsWithoutFir /\ InitialLast
=============================================================================
