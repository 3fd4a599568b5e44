----------------------------- MODULE MCSystem ------------------------------
(***************************************************************************)
(* The parts of the firmware whose operations one thread runs to the end:  *)
(* the console, the start-up and the AD9361 driver.  They share no state   *)
(* but through what each module calls external, so a behaviour is one of   *)
(* one part: `under' says which, and the others stay as they start.        *)
(***************************************************************************)
EXTENDS Tuner, Sweep, Bringup, Attenuation, Bist, Gain, Handles, Clocks, Synth, ExtBand, Calib,
        DigTune, Spi, MCRssi

\* A board whose data is in the middle of both eyes.
Centred == [d \in Dirs |-> [r \in DigRates |-> {-1, 0, 1}]]
OneLine == [eye |-> Centred, core |-> 8, skip |-> 0, fdd |-> TRUE, retunes |-> FALSE, fir |-> FALSE]

\* The RSSI of a board that is not the behaviour's part.
SomeAsk == [rssi |-> Timed, tables |-> [skip |-> FALSE, tables |-> FALSE], use |-> 0]

VARIABLE under   \* the part of this behaviour

systemVars ==
  <<under, sweepVars, bringupVars, attVars, bistVars, gainVars, agcVars, handlesVars,
    clocksVars, synthVars, bandVars, calibVars, digVars, given, spiVars, rssiVars, vars>>

\* The parts a behaviour is not about start in one state.
SystemInit ==
  /\ under \in {"sweep", "bringup", "attenuation", "bist", "gain", "handles", "clocks",
                "synth", "bands", "calib", "dig", "util", "spi", "rssi", "tuner"}
  /\ SweepInit /\ (under # "sweep" => has = {"ftw", "clk"})
  /\ BringupInit /\ (under # "bringup" => deployed = "a" /\ hasCtrl)
  /\ AttInit /\ (under # "attenuation" => usedTx = 1)
  /\ BistInit /\ (under # "bist" => wired = [rx |-> 1, tx |-> 1])
  /\ AgcInit /\ GainInit /\ (under # "gain" => usedRx = 1 /\ ~splitGt)
  /\ HandlesInit
  /\ ClocksInit /\ (under # "clocks" => board.lvds)
  /\ SynthInit /\ (under # "synth" => device = "AD9361" /\ \A d \in Lo : pll[d].alc = 1)
  /\ CalibInit /\ (under # "calib" => clk.tf = 4000000 /\ bw.rx = 200000)
  /\ DigInit /\ (under # "dig" => line = OneLine /\ "default" \in tune.flags)
  /\ UtilInit /\ SpiInit /\ BandInit
  /\ Init /\ (under # "tuner" => reg["rx"] = 0 /\ reg["c1"] = {})
  /\ RssiInit /\ (under # "rssi" => kHz = 30720 /\ rxLo = 2400 /\ ask = SomeAsk /\ heard.now = Quiet)

Rest(part) ==
  /\ UNCHANGED under
  /\ part # "sweep" => UNCHANGED sweepVars
  /\ part # "bringup" => UNCHANGED bringupVars
  /\ part # "attenuation" => UNCHANGED attVars
  /\ part # "bist" => UNCHANGED bistVars
  /\ part # "gain" => UNCHANGED <<gainVars, agcVars>>
  /\ part # "handles" => UNCHANGED handlesVars
  /\ part # "clocks" => UNCHANGED clocksVars
  /\ part # "synth" => UNCHANGED synthVars
  /\ part # "calib" => UNCHANGED calibVars
  /\ part # "dig" => UNCHANGED digVars
  /\ part # "util" => UNCHANGED given
  /\ part # "spi" => UNCHANGED spiVars
  /\ part # "rssi" => UNCHANGED rssiVars
  /\ part # "bands" => UNCHANGED bandVars
  /\ part # "tuner" => UNCHANGED vars

SystemNext ==
  \/ under = "sweep" /\ SweepNext /\ Rest("sweep")
  \/ under = "bringup" /\ BringupNext /\ Rest("bringup")
  \/ under = "attenuation" /\ AttNext /\ Rest("attenuation")
  \/ under = "bist" /\ BistNext /\ Rest("bist")
  \/ under = "gain" /\ GainNext /\ Rest("gain")
  \/ under = "handles" /\ HandlesNext /\ Rest("handles")
  \/ under = "clocks" /\ ClocksNext /\ Rest("clocks")
  \/ under = "synth" /\ SynthNext /\ Rest("synth")
  \/ under = "calib" /\ CalibNext /\ Rest("calib")
  \/ under = "dig" /\ DigNext /\ Rest("dig")
  \/ under = "util" /\ UtilNext /\ Rest("util")
  \/ under = "spi" /\ SpiNext /\ Rest("spi")
  \/ under = "rssi" /\ RssiNext /\ Rest("rssi")
  \/ under = "bands" /\ BandNext /\ Rest("bands")
  \/ under = "tuner" /\ Next /\ Rest("tuner")

SystemSpec == SystemInit /\ [][SystemNext]_systemVars

\* Every part's variables have their types: codes, indices and words stay within
\* the fields of their registers.
SystemTypeOK ==
  /\ SweepTypeOK /\ BringupTypeOK /\ AttTypeOK /\ BistTypeOK /\ AgcTypeOK /\ GainTypeOK
  /\ HandlesTypeOK /\ ClocksTypeOK /\ SynthTypeOK /\ CalibTypeOK /\ DigTypeOK
  /\ UtilTypeOK /\ SpiTypeOK /\ RssiTypeOK /\ BandTypeOK

-----------------------------------------------------------------------------
(* The constants of the run. *)

\* Around the edges of the band 0..3 that a clock of 12 has, and out of it.
TypedHz    == {-2, -1, 0, 2, 3, 4, 6, 15}
NotANumber == -2
TypedTimes == {-2, 5, 20}
Manifests  == {{"ftw", "clk"}, {"lfm", "clk"}, {"ftw", "lfm"}}

Wired(rx, tx) == [rx |-> rx, tx |-> tx]
SomeWirings == {Wired(1, 1), Wired(2, 1), Wired(2, 2)}

\* Three bands of the RX LO and a low and a high one of the split table.
Table(split, from, to, gains) == [split |-> split, start |-> from, end |-> to, gains |-> gains]
FiveTables ==
  <<Table(FALSE, 0, 2, <<-1, 0, 3, 9>>), Table(FALSE, 2, 4, <<-3, 1, 2, 6>>),
    Table(FALSE, 4, 6, <<-10, 0, 5, 7>>), Table(TRUE, 0, 2, <<0, 3>>), Table(TRUE, 2, 6, <<-2, 1, 8>>)>>
SomeGains == {-4, 0, 2, 4, 10}

SomeBoards == {[lvds |-> TRUE, pair |-> FALSE], [lvds |-> FALSE, pair |-> TRUE]}

\* No phase, one, a run around the end of the circle, two runs.
SomeConverging == {{}, {21}, {30, 31, 0, 1, 2}, {5, 6, 7, 8, 12}}
\* CLKRF twice CLKTF, and both alike.
SomeChains == {[rf |-> 61440000, tf |-> 30720000], [rf |-> 4000000, tf |-> 4000000]}
\* Late data, early clocks, an eye that only the slow rates have, a transmitter without one.
Narrowing == [d \in Dirs |-> <<{-3, -2, -1, 0}, {-2, -1, 0}, {0, 3}>>]
NoTx == [Centred EXCEPT !["tx"] = <<{1, 2}, {}, {2}>>]
SomeEyes == {Centred, Narrowing, NoTx}
EightHalves == <<4, 2, 1>>
SomeArrays  == {<<3>>, <<1, 4, 7>>, <<9, 2, 2, 0>>, <<5, 6, 0, 9, 1, 3>>, <<8, 8, 1, 2, 7, 0, 4, 6>>}
SomeCalArgs == {-1, -2, 7}

\* What an error reads as: a delay, and no pair inverted.
AsErrno == [rx |-> 1, fb |-> 1, td |-> 0, c1 |-> {0}, c2 |-> {0}]

Band(for, lo, hi, gpios, rx, tx, pre, post) ==
  [for |-> for, lo |-> lo, hi |-> hi, pins |-> gpios, rx |-> rx, tx |-> tx, pre |-> pre, post |-> post]
Sub(gpios) == <<[pins |-> gpios, rx |-> NoPort, tx |-> NoPort]>>

\* Overlapping RX bands, one with a step before and one with a step after, that agree on
\* a line two by two, and a TX band.
SomeBands ==
  {Band("rx", 1, 4, <<"high", "low", "nop">>, 1, NoPort, Sub(<<"low", "nop", "nop">>), <<>>),
   Band("rx", 3, 6, <<"nop", "high", "nop">>, 1, NoPort, <<>>, Sub(<<"low", "nop", "nop">>)),
   Band("rx", 5, 9, <<"high", "high", "nop">>, NoPort, NoPort, <<>>, <<>>),
   Band("tx", 1, 6, <<"nop", "nop", "high">>, NoPort, 1, <<>>, <<>>)}
=============================================================================
