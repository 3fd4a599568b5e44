-------------------------------- MODULE Sweep --------------------------------
(***************************************************************************)
(* The DDS frequency and the LFM sweep: iq_forge.cpp (set/get_dds_...,     *)
(* set/get_lfm_...) over the drivers dds_ftw_gpio and dds_lfm_gpio, as the *)
(* console's commands use them.  A frequency becomes a 24-bit tuning word  *)
(* of the accumulator, a sweep time the increment that covers the distance *)
(* from start to stop at one increment per PL clock.  Any of the mappings  *)
(* of the registers may fail; each call makes its own.                     *)
(*                                                                         *)
(* Frequencies are integers of some unit, sweep times integers of half a   *)
(* PL clock period.                                                        *)
(***************************************************************************)
EXTENDS Integers

CONSTANTS
  Scale,        \* kFtwScale: the accumulator's range (2^24)
  WordSize,     \* the range of std::uint32_t (2^32)
  Clk,          \* the rate of DDS_CLK_HZ; the DDS samples at half of it
  Frequencies,  \* what is typed for a frequency
  Nan,          \* the one of them that strtod() read from "nan"
  HalfPeriods,  \* what is typed for a sweep time
  Configured,   \* the sets of {"ftw", "lfm", "clk"} the manifest may name
  MapFails      \* mapping a register may fail

Word       == 0..Scale - 1
Parameters == {"start", "stop", "incr"}
Words4 == Parameters \cup {"ftw"}
Nothing    == Nan      \* no value: nothing asked, or none returned

ASSUME SweepAssumption ==
  /\ Scale \in Nat \ {0} /\ Scale % 2 = 0 /\ Clk \in Nat \ {0} /\ WordSize \in Nat
  /\ WordSize >= Scale /\ WordSize % Scale = 0
  /\ Nan \in Int /\ Nan < 0 /\ Frequencies \subseteq Int /\ HalfPeriods \subseteq Int
  /\ Configured \subseteq SUBSET {"ftw", "lfm", "clk"} /\ MapFails \in BOOLEAN

VARIABLES
  has,      \* what the manifest names
  word,     \* the four registers
  why,      \* m_dds_ftw_gpio_last_error, m_dds_lfm_gpio_last_error
  told,     \* the last command: what it did and the error text it printed
  asked,    \* history: the frequency each register was last set from
  timed     \* history: the sweep time, start and stop `incr' was made from

sweepVars == <<has, word, why, told, asked, timed>>

Reasons == {"", "no base", "no clk", "range", "map", "order", "still"}

\* Every state variable has its type: a register holds a tuning word.
SweepTypeOK ==
  /\ has \subseteq {"ftw", "lfm", "clk"}
  /\ word \in [Words4 -> Word]
  /\ why \in [{"ftw", "lfm"} -> Reasons]
  /\ told \in [did: {"none", "set", "read", "refused"}, text: Reasons]
  /\ asked \in [Words4 -> Frequencies \cup {Nothing}]
  /\ timed.half \in HalfPeriods \cup {Nothing} /\ {timed.start, timed.stop} \subseteq Word

Untimed == [half |-> Nothing, start |-> 0, stop |-> 0]

SweepInit ==
  /\ has \in Configured
  /\ word = [r \in Words4 |-> 0] /\ why = [d \in {"ftw", "lfm"} |-> ""]
  /\ told = [did |-> "none", text |-> ""]
  /\ asked = [r \in Words4 |-> Nothing] /\ timed = Untimed

-----------------------------------------------------------------------------
(* Conversions. *)

\* Mutant: truncated, not rounded.
Words_truncated(hz) ==
  IF hz = Nan THEN {0}
  ELSE LET n == (2 * hz * Scale) \div Clk
       IN  IF n < WordSize THEN {n} ELSE {WordSize - 1, n % WordSize}

\* static_cast<uint32_t>(hz * kFtwScale / (clk / 2) + 0.5).  Out of range the
\* cast is undefined: the ARM core saturates, others keep the low bits.
Words(hz) ==
  IF hz = Nan THEN {0}
  ELSE LET n == (4 * hz * Scale + Clk) \div (2 * Clk)
       IN  IF n < WordSize THEN {n} ELSE {WordSize - 1, n % WordSize}

\* Mutant: no mask.
Masked_none(n) == n

\* The driver's mask.
Masked(n) == n % Scale

\* Comparisons with a NaN are false.
Negative(hz)     == hz # Nan /\ hz < 0
AboveNyquist(hz) == hz # Nan /\ 4 * hz > Clk

\* Mutant: the upper end is not checked.
OutOfBand_none(hz) == Negative(hz)

OutOfBand(hz) == Negative(hz) \/ AboveNyquist(hz)

\* Mutant: rounded up.
Increment_up(distance, half) ==
  LET n == (2 * distance + half - 1) \div half
  IN  IF n < 1 THEN 1 ELSE IF n > Scale - 1 THEN Scale - 1 ELSE n

\* Mutant: rounded down.
Increment_down(distance, half) ==
  LET n == (2 * distance) \div half
  IN  IF n < 1 THEN 1 ELSE IF n > Scale - 1 THEN Scale - 1 ELSE n

\* round((stop - start) / cycles), clamped to 1 .. kFtwMax.
Increment(distance, half) ==
  LET n == (4 * distance + half) \div (2 * half)
  IN  IF n < 1 THEN 1 ELSE IF n > Scale - 1 THEN Scale - 1 ELSE n

-----------------------------------------------------------------------------
(* The commands.  `bad' are the registers whose mapping fails in a call.   *)

Bad(registers) == IF MapFails THEN SUBSET registers ELSE {{}}

Device(r) == IF r = "ftw" THEN "ftw" ELSE "lfm"

\* The checks a call makes before it touches a register, in their order.
Before(d, needsClk, refused) ==
  IF "clk" \notin has /\ needsClk /\ d = "ftw" THEN "no clk"
  ELSE IF refused /\ d = "ftw" THEN "range"
  ELSE IF d \notin has THEN "no base"
  ELSE IF "clk" \notin has /\ needsClk THEN "no clk"
  ELSE IF refused THEN "range" ELSE ""

\* The error text after a call: the reason of its failure, or empty.
After(d, needsClk, refused, touched, bad) ==
  LET first == Before(d, needsClk, refused)
  IN  IF first # "" THEN first ELSE IF touched \cap bad # {} THEN "map" ELSE ""

\* act_dds_freq_set, act_lfm_start_set, act_lfm_stop_set: set, then read back
\* for the line printed.
SetFrequency(r) ==
  \E hz \in Frequencies, bad \in Bad({r}), badRead \in Bad({r}) :
    LET d    == Device(r)
        text == After(d, TRUE, IF r = "ftw" THEN Negative(hz) ELSE OutOfBand(hz), {r}, bad)
    IN  /\ r = "ftw" => ~Negative(hz)       \* "invalid or cancelled"
        /\ IF text = ""
           THEN /\ \E n \in Words(hz) : word' = [word EXCEPT ![r] = Masked(n)]
                /\ asked' = [asked EXCEPT ![r] = hz]
                /\ why' = [why EXCEPT ![d] = After(d, TRUE, FALSE, {r}, badRead)]
                /\ told' = [did |-> "set", text |-> ""]
           ELSE /\ why' = [why EXCEPT ![d] = text]
                /\ told' = [did |-> "refused", text |-> text]
                /\ UNCHANGED <<word, asked>>
        /\ UNCHANGED <<has, timed>>

\* A raw word: set_lfm_incr() and its sisters.
SetRaw(r) ==
  \E n \in 0..WordSize - 1, bad \in Bad({r}) :
    LET text == After(Device(r), FALSE, FALSE, {r}, bad)
    IN  /\ r = "incr" => n \in 1..Scale - 1
        /\ why' = [why EXCEPT ![Device(r)] = text]
        /\ IF text = ""
           THEN /\ word' = [word EXCEPT ![r] = Masked(n)]
                /\ asked' = [asked EXCEPT ![r] = Nothing]
                /\ timed' = IF r = "incr" THEN Untimed ELSE timed
                /\ told' = [did |-> "set", text |-> ""]
           ELSE /\ told' = [did |-> "refused", text |-> text]
                /\ UNCHANGED <<word, asked, timed>>
        /\ UNCHANGED has

\* set_dds_ftw()
SetFtw == SetRaw("ftw")

\* act_lfm_incr_set
SetIncrement == SetRaw("incr")

\* get_lfm_sweep_time_s()
TimeText(w, bad) ==
  LET text == After("lfm", TRUE, FALSE, Parameters, bad)
  IN  IF text # "" THEN text
      ELSE IF w["stop"] <= w["start"] THEN "order"
      ELSE IF w["incr"] = 0 THEN "still" ELSE ""

\* act_lfm_sweep_set: set_lfm_sweep_time_s(), then the time and the increment
\* are read back; the increment's read leaves the error text.
SetTime ==
  \E half \in HalfPeriods, bad \in Bad(Parameters), badRead \in Bad({"incr"}) :
    LET first == After("lfm", TRUE, half <= 0, {"start", "stop"}, bad)
        text  == IF first # "" THEN first
                 ELSE IF word["stop"] <= word["start"] THEN "order"
                 ELSE After("lfm", TRUE, FALSE, {"incr"}, bad)
    IN  /\ IF text = ""
           THEN /\ word' = [word EXCEPT !["incr"] =
                             Masked(Increment(word["stop"] - word["start"], half))]
                /\ timed' = [half |-> half, start |-> word["start"], stop |-> word["stop"]]
                /\ why' = [why EXCEPT !["lfm"] = After("lfm", FALSE, FALSE, {"incr"}, badRead)]
                /\ told' = [did |-> "set", text |-> ""]
           ELSE /\ why' = [why EXCEPT !["lfm"] = text]
                /\ told' = [did |-> "refused", text |-> text]
                /\ UNCHANGED <<word, timed>>
        /\ UNCHANGED <<has, asked>>

\* act_dds_freq_read
ReadFrequency ==
  \E bad \in Bad({"ftw"}) :
    LET text == After("ftw", TRUE, FALSE, {"ftw"}, bad)
    IN  /\ why' = [why EXCEPT !["ftw"] = text]
        /\ told' = [did |-> IF text = "" THEN "read" ELSE "refused", text |-> text]
        /\ UNCHANGED <<has, word, asked, timed>>

\* act_lfm_read: start, or its error; then stop and the increment, and if
\* one is missing the error text the later of the two calls has left; then
\* the time.
ReadSweep ==
  \E b1 \in Bad({"start"}), b2 \in Bad({"stop"}), b3 \in Bad({"incr"}),
     b4 \in Bad(Parameters) :
    LET start == After("lfm", TRUE, FALSE, {"start"}, b1)
        stop  == After("lfm", TRUE, FALSE, {"stop"}, b2)
        incr  == After("lfm", FALSE, FALSE, {"incr"}, b3)
        time  == TimeText(word, b4)
    IN  /\ IF start # ""
           THEN told' = [did |-> "refused", text |-> start] /\ why' = [why EXCEPT !["lfm"] = start]
           ELSE IF stop # "" \/ incr # ""
           THEN told' = [did |-> "refused", text |-> incr] /\ why' = [why EXCEPT !["lfm"] = incr]
           ELSE told' = [did |-> "read", text |-> time] /\ why' = [why EXCEPT !["lfm"] = time]
        /\ UNCHANGED <<has, word, asked, timed>>

SweepNext ==
  \/ \E r \in {"ftw", "start", "stop"} : SetFrequency(r)
  \/ SetFtw \/ SetIncrement
  \/ SetTime \/ ReadFrequency \/ ReadSweep

SweepSpec == SweepInit /\ [][SweepNext]_sweepVars

-----------------------------------------------------------------------------
(* Properties. *)

Distance(a, b) == IF a < b THEN b - a ELSE a - b

\* What get_dds_frequency_hz() and get_lfm_..._hz() make of a register is
\* within half a step of the frequency it was last set from, as long as that
\* is not within half a step of the sample rate or above (only the DDS
\* frequency can be: it is not checked against Nyquist and wraps there).
ReadsBackAsAsked ==
  \A r \in Words4 :
    asked[r] # Nothing /\ 4 * asked[r] * Scale < Clk * (2 * Scale - 1)
      => 2 * Distance(word[r] * Clk, 2 * asked[r] * Scale) <= Clk

\* Whatever is typed, "nan" included, neither end of a sweep is ever above the
\* Nyquist frequency: the bound checked in Hz survives rounding and mask.
RampWithinNyquist == 2 * word["start"] <= Scale /\ 2 * word["stop"] <= Scale

\* iq_forge.h: the time "picks the closest integer increment for the currently
\* programmed start/stop (so program those first, and re-set the time after
\* changing them)".  Until one of the three is set again, no increment comes
\* closer.
ClosestIncrement ==
  timed.half # Nothing /\ timed.start = word["start"] /\ timed.stop = word["stop"]
    => LET twice == 2 * (word["stop"] - word["start"])
       IN  \A i \in 1..Scale - 1 :
             Distance(word["incr"] * timed.half, twice) <= Distance(i * timed.half, twice)

\* A sweep time of at least one clock and at most one clock per step of the
\* tuning word is met within a factor: the time read back is no less than half
\* and no more than one and a half of the time asked for.
TimeNearAsked ==
  LET twice == 2 * (timed.stop - timed.start)
  IN  timed.half >= 2 /\ timed.half <= twice
        => /\ word["incr"] * timed.half <= 2 * twice
           /\ 2 * twice <= 3 * word["incr"] * timed.half

\* What the console may rely on when it sets the DDS and the sweep in Hz and
\* seconds (iq_forge.cpp:251-541).
SweepAsAsked == ReadsBackAsAsked /\ RampWithinNyquist /\ ClosestIncrement /\ TimeNearAsked
=============================================================================
