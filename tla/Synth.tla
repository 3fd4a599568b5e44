------------------------------- MODULE Synth -------------------------------
(***************************************************************************)
(* The AD9361's two RF synthesisers as ad9361.c drives them: the dividers  *)
(* of each LO, the VCO tables they share, the switch to an external LO,    *)
(* the fastlock profiles, and the power-down bits.  Frequencies are in     *)
(* MHz; a rate of the clock framework is half of one (ad9361_to_clk()).    *)
(* The reference divides every frequency asked, so dividers are exact.     *)
(***************************************************************************)
EXTENDS Integers

CONSTANTS
  Parts,     \* phy->dev_sel: "AD9361" or "AD9363A"
  Carriers,  \* the LO frequencies asked for
  Profiles,  \* the fastlock profiles used
  Alcs,      \* the ALC words a VCO calibration may come to
  LastAlc,   \* the highest ALC word
  MaxCalls,  \* bound: API calls after the start-up
  StartHz    \* pdata->{rx,tx}_synth_freq

ASSUME SynthAssumption ==
  /\ Parts \subseteq {"AD9361", "AD9363A"} /\ Carriers \subseteq Nat /\ Profiles \subseteq 0..7
  /\ LastAlc \in Nat \ {0} /\ Alcs \subseteq 0..LastAlc /\ MaxCalls \in Nat
  /\ StartHz \in 326..3800  \* one that every part takes, as the default parameters' 2400 is

Lo == {"rx", "tx"}
Other(d) == IF d = "rx" THEN "tx" ELSE "rx"

VARIABLES
  device,  \* phy->dev_sel
  pll,     \* for each LO: the registers, what is in force, and the phy's notes about it
  slots,   \* the fastlock memory and phy->fastlock.entry[][], Empty where not FASTLOOK_INIT
  ext,     \* pdata->use_ext_{rx,tx}_lo
  dummy,   \* the rates of the dummy clocks
  loRates, \* phy->clks[{RX,TX}_RFPLL]->rate
  pd,      \* cached_synth_pd[] and the chip's copy: "lo", "vco"
  off,     \* what the caller asked with {rx,tx}_lo_powerdown()
  call     \* the last call, and their number

synthVars == <<device, pll, slots, ext, dummy, loRates, pd, off, call>>

-----------------------------------------------------------------------------
(* Frequencies and dividers. *)

ToClk(hz) == hz \div 2
FromClk(rate) == 2 * rate

MinCarrier == [rx |-> 70, tx |-> 47]
MaxCarrier == 6000
MinVco == 6000

\* ad9361_validate_rfpll()
Allowed(d, hz) ==
  IF device = "AD9363A" THEN hz \in 325..3800 ELSE hz \in MinCarrier[d]..MaxCarrier

\* ad9361_calc_rfpll_int_divder(): doubled into the VCO's octave.
Dividers(hz) ==
  LET k == CHOOSE n \in 1..8 : hz * 2^n > MinVco /\ hz * 2^(n - 1) <= MinVco
  IN  [vco |-> hz * 2^k, div |-> k - 1]

\* ad9361_calc_rfpll_int_freq()
Hz(w) == w.vco \div 2^(w.div + 1)

Idle == [vco |-> 0, div |-> 0]
Empty == [word |-> Idle, orig |-> 0, written |-> 0]

\* ad9361_rfpll_vco_init(): the FDD tables only where the LOs differ.
TddTable(p) == p.rx.current = p.tx.current

\* The registers of one LO programmed and its VCO calibrated; on a profile they wait.
Tuned(p, d, w, alc) ==
  [p EXCEPT ![d] = [p[d] EXCEPT !.word = w, !.alc = alc, !.tdd = TddTable(p),
                                !.force = IF p[d].profile = 0 THEN w ELSE @,
                                !.used = IF p[d].profile = 0 THEN alc ELSE @]]

\* Mutant: the profile is not forgotten.
Left_kept(p, d) == p

\* Mutant: the calibration stays bypassed.
Left_bypassed(p, d) == [p EXCEPT ![d] = [@ EXCEPT !.profile = 0, !.force = p[d].word, !.used = p[d].alc]]

\* ad9361_fastlock_prepare(phy, tx, 0, false)
Left(p, d) ==
  IF p[d].profile = 0 THEN p
  ELSE [p EXCEPT ![d] = [p[d] EXCEPT !.profile = 0, !.bypass = FALSE,
                                     !.force = p[d].word, !.used = p[d].alc]]

\* The fix-up of the other LO, as the loop of ad9361_rfpll_int_set_rate() decides it.
WrongTables(p) ==
  IF p.rx.current = p.tx.current THEN p.rx.tdd # p.tx.tdd ELSE p.rx.tdd \/ p.tx.tdd

\* Mutant: the other LO gets the dividers of this one.
FixOther_stale(p, d, alcs) == Tuned(Left(p, Other(d)), Other(d), p[d].word, alcs[Other(d)])

\* Its dividers are computed again where the frequencies differ, with the limits of
\* this LO; if they refuse it, those of this LO are written.
FixOther(p, d, alcs) ==
  LET o == Other(d)
      hz == FromClk(p[o].current)
  IN  IF p.rx.current = p.tx.current THEN Tuned(p, o, p[d].word, alcs[o])
      ELSE Tuned(Left(p, o), o, IF Allowed(d, hz) THEN Dividers(hz) ELSE p[d].word, alcs[o])

\* Mutant: the other LO keeps its tables.
IntSetRate_alone(p, d, rate, alcs) ==
  LET w == Dividers(FromClk(rate))
  IN  IF Allowed(d, FromClk(rate))
      THEN Tuned([Left(p, d) EXCEPT ![d].current = rate, ![d].cachedDiv = w.div], d, w, alcs[d])
      ELSE Left(p, d)

\* ad9361_rfpll_int_set_rate() in FDD; a frequency it refuses still ends fastlock.
IntSetRate(p, d, rate, alcs) ==
  LET w == Dividers(FromClk(rate))
      q == Tuned([Left(p, d) EXCEPT ![d].current = rate, ![d].cachedDiv = w.div], d, w, alcs[d])
  IN  IF ~Allowed(d, FromClk(rate)) THEN Left(p, d)
      ELSE IF WrongTables(q) THEN FixOther(q, d, alcs) ELSE q

\* ad9361_rfpll_recalc_rate(): the dummy, the profile in use, or the registers.
Recalculated(p, s, e, dum) ==
  [d \in Lo |-> IF e[d] THEN dum[d]
                ELSE ToClk(Hz(IF p[d].profile = 0 THEN p[d].word ELSE s[d][p[d].profile - 1].word))]

\* clk_set_rate() of an RF PLL: nothing for the rate it believes is set; every clock
\* read back afterwards.  ad9361_rfpll_round_rate() answers -EINVAL for a rate out of
\* range, a rate no LO takes.
ClkSetRate(d, rate, alcs) ==
  IF loRates[d] = rate THEN UNCHANGED <<pll, dummy, loRates>>
  ELSE /\ pll' = IF ext[d] THEN pll
                 ELSE IF FromClk(rate) \in MinCarrier[d]..MaxCarrier THEN IntSetRate(pll, d, rate, alcs)
                 ELSE Left(pll, d)
       /\ dummy' = IF ext[d] THEN [dummy EXCEPT ![d] = rate] ELSE dummy
       /\ loRates' = Recalculated(pll', slots, ext, dummy')

-----------------------------------------------------------------------------
(* Calls. *)

\* Mutant: the power-down register is written anew.
Powered_anew(d, on) == [pd EXCEPT ![d] = IF on THEN {"vco"} ELSE {}]

\* ad9361_trx_ext_lo_control(): the VCO's power-down bits, and the divider.
Powered(d, on) == [pd EXCEPT ![d] = IF on THEN @ \union {"vco"} ELSE @ \ {"vco"}]

ExtLoControl(p, d, on) == [p EXCEPT ![d].word.div = IF on THEN 7 ELSE p[d].cachedDiv]

Counted(op, d, arg) == call.n < MaxCalls /\ call' = [op |-> op, lo |-> d, arg |-> arg, n |-> call.n + 1]

\* ad9361_set_{rx,tx}_lo_freq()
SetLoFreq(d, hz, alcs) ==
  /\ Counted("freq", d, hz)
  /\ ClkSetRate(d, ToClk(hz), alcs)
  /\ UNCHANGED <<device, slots, ext, pd, off>>

\* The PLL after ad9361_clk_mux_set_parent(): back on the internal one the last rate
\* goes through ad9361_to_clk() once more.
MuxSetParent(p, d, on, alcs) ==
  LET s == ExtLoControl(p, d, on)
  IN  IF on \/ p[d].current = 0 THEN s ELSE IntSetRate(s, d, ToClk(p[d].current), alcs)

\* ad9361_set_{rx,tx}_lo_int_ext()
SetLoIntExt(d, on, alcs) ==
  /\ Counted(IF on THEN "external" ELSE "internal", d, 0)
  /\ device = "AD9363A" => ~on
  /\ ext' = [ext EXCEPT ![d] = on]
  /\ pll' = MuxSetParent(pll, d, on, alcs)
  /\ pd' = Powered(d, on)
  /\ UNCHANGED <<device, slots, dummy, loRates, off>>

\* ad9361_fastlock_load()
Loaded(d, p, w, alc) == slots' = [slots EXCEPT ![d][p] = [word |-> w, orig |-> alc, written |-> alc]]

\* ad9361_fastlock_store(): the registers, whatever is in force.
FastlockStore(d, p) ==
  /\ Counted("store", d, p)
  /\ Loaded(d, p, pll[d].word, pll[d].alc)
  /\ UNCHANGED <<device, pll, ext, dummy, loRates, pd, off>>

\* ad9361_fastlock_save() of one profile and ad9361_fastlock_load() to another.
FastlockCopy(d, p, q) ==
  /\ Counted("copy", d, q)
  /\ slots[d][p] # Empty
  /\ Loaded(d, q, slots[d][p].word, slots[d][p].written)
  /\ UNCHANGED <<device, pll, ext, dummy, loRates, pd, off>>

\* The ALC word the driver believes in force.
CurrentAlc(d) == IF pll[d].profile = 0 THEN pll[d].alc ELSE slots[d][pll[d].profile - 1].written

\* Mutant: the word is compared as it was loaded.
OtherAlc_orig(d, s) == IF CurrentAlc(d) = s.orig THEN (s.written + 1) % (LastAlc + 1) ELSE s.written

\* Mutant: the byte does not wrap.
OtherAlc_wide(d, s) ==
  IF CurrentAlc(d) # s.written THEN s.written
  ELSE IF s.orig = s.written THEN s.written + 1 ELSE s.orig

\* The "Lock problem with same ALC word" workaround; the byte wraps.
OtherAlc(d, s) ==
  IF CurrentAlc(d) # s.written THEN s.written
  ELSE IF s.orig = s.written THEN (s.written + 1) % (LastAlc + 1) ELSE s.orig

\* ad9361_fastlock_recall(): -EINVAL unless initialised.
FastlockRecall(d, p) ==
  /\ Counted("recall", d, p)
  /\ IF slots[d][p] = Empty THEN UNCHANGED <<pll, slots>>
     ELSE LET s == slots[d][p]
              alc == OtherAlc(d, s)
          IN  /\ slots' = [slots EXCEPT ![d][p].written = alc]
              /\ pll' = [pll EXCEPT ![d] = [pll[d] EXCEPT !.profile = p + 1, !.force = s.word, !.used = alc,
                                                         !.bypass = TRUE]]
  /\ UNCHANGED <<device, ext, dummy, loRates, pd, off>>

\* ad9361_{rx,tx}_lo_powerdown() through ad9361_synth_lo_powerdown()
LoPowerdown(d, o) ==
  /\ Counted("power", d, o)
  /\ off' = [off EXCEPT ![d] = o]
  /\ pd' = [pd EXCEPT ![d] = IF o THEN @ \union {"lo"} ELSE @ \ {"lo"}]
  /\ UNCHANGED <<device, pll, slots, ext, dummy, loRates>>

-----------------------------------------------------------------------------
(* Start-up: ad9361_setup() from the RX PLL to both multiplexers. *)

Cold == [word |-> Idle, force |-> Idle, alc |-> 0, used |-> 0, tdd |-> FALSE, current |-> 0,
         cachedDiv |-> 0, profile |-> 0, bypass |-> FALSE]

SetUpPlls(alcs) ==
  LET rx == IntSetRate([rx |-> Cold, tx |-> Cold], "rx", ToClk(StartHz), alcs)
      tx == IntSetRate(rx, "tx", ToClk(StartHz), alcs)
  IN  MuxSetParent(MuxSetParent(tx, "rx", FALSE, alcs), "tx", FALSE, alcs)

SynthInit ==
  /\ device \in Parts
  /\ pll \in {SetUpPlls(a) : a \in [Lo -> Alcs]}
  /\ slots = [d \in Lo |-> [p \in Profiles |-> Empty]]
  /\ ext = [d \in Lo |-> FALSE] /\ off = [d \in Lo |-> FALSE] /\ pd = [d \in Lo |-> {}]
  /\ dummy = [d \in Lo |-> StartHz]
  /\ loRates = [d \in Lo |-> ToClk(StartHz)]
  /\ call = [op |-> "setup", lo |-> "rx", arg |-> 0, n |-> 0]

SynthNext ==
  \E d \in Lo :
    \/ \E hz \in Carriers, a \in [Lo -> Alcs] : SetLoFreq(d, hz, a)
    \/ \E on \in BOOLEAN, a \in [Lo -> Alcs] : SetLoIntExt(d, on, a)
    \/ \E p \in Profiles : FastlockStore(d, p)
    \/ \E p, q \in Profiles : FastlockCopy(d, p, q)
    \/ \E p \in Profiles : FastlockRecall(d, p)
    \/ \E o \in BOOLEAN : LoPowerdown(d, o)

SynthSpec == SynthInit /\ [][SynthNext]_synthVars

-----------------------------------------------------------------------------
(* Properties. *)

SlotWords == [vco : Nat, div : 0..7]

\* Every state variable has its type: an ALC word stays in its field.
SynthTypeOK ==
  /\ device \in Parts
  /\ \A d \in Lo :
       /\ pll[d].word \in SlotWords /\ pll[d].force \in SlotWords
       /\ pll[d].alc \in 0..LastAlc /\ pll[d].used \in 0..LastAlc
       /\ pll[d].profile \in {0} \union {p + 1 : p \in Profiles}
       /\ \A p \in Profiles :
            slots[d][p] # Empty => slots[d][p].written \in 0..LastAlc /\ slots[d][p].orig \in 0..LastAlc
  /\ ext \in [Lo -> BOOLEAN] /\ off \in [Lo -> BOOLEAN] /\ pd \in [Lo -> SUBSET {"lo", "vco"}]

\* The VCOs use the TDD tables when both LOs have one frequency, and then both do, and
\* the FDD tables otherwise, after any sequence of calls: "In FDD mode with RX LO ==
\* TX LO frequency we use TDD tables to reduce VCO pulling" (ad9361.c:6953).
TablesMatch ==
  /\ pll.rx.tdd = (pll.rx.current = pll.tx.current)
  /\ pll.tx.tdd = pll.rx.tdd

\* A frequency the part takes is the one in force and the one read back, unless the
\* driver believed it set already or an external LO is selected.
LoAsAsked ==
  [][call'.op = "freq" =>
       LET d == call'.lo
           hz == FromClk(ToClk(call'.arg))
       IN  Allowed(d, hz) /\ ~ext[d] /\ loRates[d] # ToClk(hz) =>
             Hz(pll'[d].force) = hz /\ FromClk(loRates'[d]) = hz]_synthVars

\* A call for one LO leaves the other where it was, unless the other was on a fastlock
\* profile, which the fix-up of the VCO tables ends, or is external.
OtherKept ==
  [][LET o == Other(call'.lo)
     IN  pll[o].profile = 0 /\ ~ext[o] => Hz(pll'[o].force) = Hz(pll[o].force)]_synthVars

\* A recall never puts the ALC word in force into force again, the lock problem its
\* workaround is for, unless the profile in use was written over since.
RecallChangesAlc ==
  [][call'.op = "recall" =>
       LET d == call'.lo
           q == pll[d].profile
       IN  slots[d][call'.arg] # Empty /\ (q # 0 => slots[d][q - 1].written = pll[d].used) =>
             pll'[d].used # pll[d].used]_synthVars

\* The VCO is powered down exactly while the LO is external and the LO buffer exactly
\* while the caller has it off, although the two share a register.
PowerInForce ==
  \A d \in Lo : pd[d] = (IF ext[d] THEN {"vco"} ELSE {}) \union (IF off[d] THEN {"lo"} ELSE {})

\* The loss-of-lock bypass of fastlock is on exactly on a profile.
BypassTracked == \A d \in Lo : pll[d].bypass = (pll[d].profile # 0)

\* Back on the internal LO the PLL locks at the last known frequency, as the comment
\* at ad9361.c:7193-7198 says.
RelocksWhereItWas ==
  [][call'.op = "internal" /\ pll[call'.lo].current # 0 =>
       Hz(pll'[call'.lo].force) = FromClk(pll[call'.lo].current)]_synthVars

\* What the two synthesisers promise of the state they share, the VCO tables, the
\* power-down bits and the fastlock bypass, and what each call on one LO does to it
\* and to the other.
SynthInForce ==
  /\ []TablesMatch /\ []PowerInForce /\ []BypassTracked
  /\ LoAsAsked /\ OtherKept /\ RecallChangesAlc
=============================================================================
