-------------------------- MODULE FrequencyProofs --------------------------
(***************************************************************************)
(* Theorems about frequencies.  The DDS and its sweep (Sweep): what is set *)
(* in Hz and in seconds is what the registers hold, to the rounding, for   *)
(* every range of the accumulator and every clock.  The AD9361's two       *)
(* synthesisers (Synth): what is set, stored and recalled is in force.     *)
(* The AD9361's chain of clocks (Clocks): what is remembered, allowed,     *)
(* asked for and in force agree.                                           *)
(***************************************************************************)
EXTENDS Sweep, Synth, Clocks, Arithmetic, TLAPS

-----------------------------------------------------------------------------
(* The conversions. *)

\* The scale is an even number, as kFtwScale = 2^24 is, and within the word.
LEMMA ScaleFacts ==
  /\ Scale \in Nat \ {0} /\ Clk \in Nat \ {0} /\ WordSize \in Nat \ {0} /\ Scale <= WordSize
  /\ \E half \in Nat \ {0} : Scale = 2 * half
<1>1. Scale \in Nat \ {0} /\ Scale % 2 = 0
  BY SweepAssumption
<1>2. PICK half \in Nat, r \in 0..1 : Scale % 2 = r /\ Scale = 2 * half + r
  BY <1>1, DivFacts
<1>3. QED BY <1>1, <1>2, SweepAssumption

\* The mask leaves a tuning word, and a tuning word as it is.
LEMMA MaskFacts ==
  /\ \A n \in Nat : Masked(n) \in Word
  /\ \A n \in Word : Masked(n) = n
BY ScaleFacts, DivFacts DEF Masked, Word

\* A frequency that is no negative number becomes a word of the accumulator.
LEMMA WordsTyped ==
  ASSUME NEW hz \in Frequencies, ~Negative(hz), NEW n \in Words(hz)
  PROVE  n \in Nat
<1>1. CASE hz = Nan
  BY <1>1 DEF Words
<1>2. CASE hz # Nan
  <2>1. hz \in Nat
    BY <1>2, SweepAssumption DEF Negative
  <2>2. 2 * hz * Scale \in Nat /\ 4 * hz * Scale = 2 * (2 * hz * Scale)
    BY <2>1, ScaleFacts
  <2>3. PICK k \in Nat : (4 * hz * Scale + Clk) \div (2 * Clk) = k
    BY <2>2, RoundFacts, ScaleFacts
  <2>4. n \in {k, WordSize - 1, k % WordSize}
    BY <1>2, <2>3 DEF Words
  <2>5. k % WordSize \in Nat
    BY <2>3, ScaleFacts, DivFacts
  <2>6. QED BY <2>3, <2>4, <2>5, ScaleFacts
<1>3. QED BY <1>1, <1>2

\* What is set from a frequency in the band stays below the Nyquist frequency.
\* The accumulator's range is even: half of it is a word, and the frequency
\* that rounds to it is the last in the band.
LEMMA InBand ==
  ASSUME NEW hz \in Frequencies, ~OutOfBand(hz), NEW n \in Words(hz)
  PROVE  2 * Masked(n) <= Scale
<1>1. CASE hz = Nan
  BY <1>1, MaskFacts, ScaleFacts DEF Words, Word
<1>2. CASE hz # Nan
  <2>1. hz \in Nat /\ 4 * hz <= Clk
    BY <1>2, SweepAssumption DEF OutOfBand, Negative, AboveNyquist
  <2>2. PICK T \in Nat : T = 2 * hz * Scale /\ 4 * hz * Scale = 2 * T
    BY <2>1, ScaleFacts
  <2>3. PICK k \in Nat : /\ (2 * T + Clk) \div (2 * Clk) = k
                         /\ 2 * (k * Clk) <= 2 * T + Clk /\ 2 * T < 2 * (k * Clk) + Clk
    BY RoundFacts, ScaleFacts
  <2>4. PICK half \in Nat \ {0} : Scale = 2 * half
    BY ScaleFacts
  <2>5. 2 * T <= Clk * Scale
    <3>1. Scale * (4 * hz) <= Scale * Clk
      BY <2>1, Times, ScaleFacts
    <3>2. Scale * (4 * hz) = 2 * T /\ Scale * Clk = Clk * Scale
      BY <2>1, <2>2, ScaleFacts
    <3>3. QED BY <3>1, <3>2
  <2>6. k <= half
    <3>1. Clk * (2 * k) = 2 * (k * Clk) /\ Clk * Scale = Clk * (2 * half)
      BY <2>4, ScaleFacts
    <3>2. PICK a \in Nat, b \in Nat : a = Clk * (2 * k) /\ b = Clk * (2 * half)
      BY ScaleFacts
    <3>3. a <= b + Clk
      BY <2>3, <2>5, <3>1, <3>2, ScaleFacts
    <3>4. Clk * (2 * half + 1) = Clk * (2 * half) + Clk
      BY ScaleFacts
    <3>5. Clk * (2 * k) < Clk * (2 * half + 1) + Clk
      BY <3>2, <3>3, <3>4, ScaleFacts
    <3>6. 2 * k <= 2 * half + 1
      BY <3>5, CancelFactor, ScaleFacts
    <3>7. QED BY <3>6
  <2>7. n = k
    <3>1. k < WordSize
      BY <2>4, <2>6, ScaleFacts
    <3>2. (4 * hz * Scale + Clk) \div (2 * Clk) = k
      BY <2>2, <2>3
    <3>3. QED BY <1>2, <3>1, <3>2 DEF Words
  <2>8. n \in Word
    BY <2>4, <2>6, <2>7 DEF Word
  <2>9. QED BY <2>4, <2>6, <2>7, <2>8, MaskFacts
<1>3. QED BY <1>1, <1>2

\* What is read back of a frequency below the sample rate is within half a step.
LEMMA ReadsAgain ==
  ASSUME NEW hz \in Nat, NEW n \in Words(hz), hz # Nan,
         4 * hz * Scale < Clk * (2 * Scale - 1)
  PROVE  2 * Distance(Masked(n) * Clk, 2 * hz * Scale) <= Clk
<1>1. PICK T \in Nat : T = 2 * hz * Scale /\ 4 * hz * Scale = 2 * T
  BY ScaleFacts
<1>2. PICK k \in Nat : /\ (2 * T + Clk) \div (2 * Clk) = k
                       /\ 2 * (k * Clk) <= 2 * T + Clk /\ 2 * T < 2 * (k * Clk) + Clk
  BY RoundFacts, ScaleFacts
<1>3. k < Scale
  <2>1. Clk * (2 * Scale - 1) = 2 * (Clk * Scale) - Clk
    BY ScaleFacts
  <2>2. PICK a \in Nat, b \in Nat : a = k * Clk /\ b = Clk * Scale
    BY ScaleFacts
  <2>3. a < b
    BY <1>1, <1>2, <2>1, <2>2, ScaleFacts
  <2>4. Clk * (k + 1) = a + Clk
    BY <2>2, ScaleFacts
  <2>5. Clk * (k + 1) < Clk * Scale + Clk
    BY <2>2, <2>3, <2>4, ScaleFacts
  <2>6. QED BY <2>5, CancelFactor, ScaleFacts
<1>4. n = k
  <2>1. (4 * hz * Scale + Clk) \div (2 * Clk) = k
    BY <1>1, <1>2
  <2>2. QED BY <1>3, <2>1, ScaleFacts DEF Words
<1>5. Masked(n) = k
  BY <1>3, <1>4, MaskFacts, ScaleFacts DEF Word
<1>6. PICK a \in Nat : a = k * Clk
  BY ScaleFacts
<1>7. QED BY <1>1, <1>2, <1>5, <1>6, ScaleFacts DEF Distance
\* A distance between two words and a time that is one become an increment.
LEMMA IncrementFacts ==
  ASSUME NEW d \in Nat, NEW h \in Nat \ {0}
  PROVE  \E n \in Nat :
           /\ 2 * (n * h) <= 2 * (2 * d) + h /\ 2 * (2 * d) < 2 * (n * h) + h
           /\ Increment(d, h) = (IF n < 1 THEN 1 ELSE IF n > Scale - 1 THEN Scale - 1 ELSE n)
           /\ Increment(d, h) \in 1..Scale - 1
           /\ Masked(Increment(d, h)) = Increment(d, h)
<1>1. PICK T \in Nat : T = 2 * d
  OBVIOUS
<1>2. PICK n \in Nat : /\ (2 * T + h) \div (2 * h) = n
                       /\ 2 * (n * h) <= 2 * T + h /\ 2 * T < 2 * (n * h) + h
  BY RoundFacts
<1>3. 4 * d + h = 2 * T + h
  BY <1>1
<1>4. Increment(d, h) = (IF n < 1 THEN 1 ELSE IF n > Scale - 1 THEN Scale - 1 ELSE n)
  BY <1>2, <1>3 DEF Increment
<1>5. Increment(d, h) \in 1..Scale - 1
  BY <1>4, ScaleFacts
<1>6. Masked(Increment(d, h)) = Increment(d, h)
  BY <1>5, MaskFacts, ScaleFacts DEF Word
<1>7. QED BY <1>1, <1>2, <1>4, <1>5, <1>6

\* No increment covers a distance in a time nearer to the one asked for.
LEMMA IncrementClosest ==
  ASSUME NEW d \in Nat, NEW h \in Nat \ {0}, NEW i \in 1..Scale - 1
  PROVE  Distance(Increment(d, h) * h, 2 * d) <= Distance(i * h, 2 * d)
<1>1. PICK T \in Nat : T = 2 * d
  OBVIOUS
<1>2. PICK n \in Nat :
        /\ 2 * (n * h) <= 2 * T + h /\ 2 * T < 2 * (n * h) + h
        /\ Increment(d, h) = (IF n < 1 THEN 1 ELSE IF n > Scale - 1 THEN Scale - 1 ELSE n)
  BY <1>1, IncrementFacts
<1>3. i \in Nat /\ 1 <= i
  BY ScaleFacts
<1>4. PICK a \in Nat, b \in Nat : a = n * h /\ b = i * h
  BY <1>3
<1>5. /\ i < n => b <= a - h /\ 2 * b <= 2 * T - h
      /\ n < i => a + h <= b /\ 2 * T < 2 * b - h
  BY <1>2, <1>3, <1>4, NearestMultiple
<1>6. CASE n < 1
  <2>1. n = 0 /\ a = 0 /\ Increment(d, h) * h = h
    BY <1>2, <1>4, <1>6
  <2>2. h <= b
    BY <1>5, <1>3, <2>1
  <2>3. QED BY <1>1, <1>2, <1>4, <2>1, <2>2 DEF Distance
<1>7. CASE n > Scale - 1
  <2>1. PICK m \in Nat : m = Scale - 1 /\ Increment(d, h) = m /\ m < n /\ i <= m
    BY <1>2, <1>7, ScaleFacts
  <2>2. PICK c \in Nat : c = m * h
    OBVIOUS
  <2>3. 2 * c <= 2 * T - h
    BY <1>2, <2>1, <2>2, NearestMultiple
  <2>4. b <= c
    <3>1. h * i <= h * m
      BY <1>3, <2>1, Times
    <3>2. QED BY <1>3, <1>4, <2>2, <3>1
  <2>5. QED BY <1>1, <1>4, <2>1, <2>2, <2>3, <2>4 DEF Distance
<1>8. CASE ~(n < 1) /\ ~(n > Scale - 1)
  <2>1. Increment(d, h) * h = a
    BY <1>2, <1>4, <1>8, ScaleFacts
  <2>2. i = n => a = b
    BY <1>4
  <2>3. Distance(a, T) <= Distance(b, T)
    <3>0. 2 * a <= 2 * T + h /\ 2 * T < 2 * a + h
      BY <1>2, <1>4
    <3>1. CASE i = n
      <4>1. a = b
        BY <2>2, <3>1
      <4>2. QED BY <4>1 DEF Distance
    <3>2. CASE i < n
      <4>1. 2 * b <= 2 * T - h
        BY <1>5, <3>2
      <4>2. QED BY <3>0, <4>1 DEF Distance
    <3>3. CASE n < i
      <4>1. 2 * T < 2 * b - h
        BY <1>5, <3>3
      <4>2. QED BY <3>0, <4>1 DEF Distance
    <3>4. QED BY <1>3, <3>1, <3>2, <3>3
  <2>4. QED BY <1>1, <1>4, <2>1, <2>3
<1>9. QED BY <1>6, <1>7, <1>8

\* The time an increment takes is between half and one and a half of the time
\* it was made from.
LEMMA IncrementTime ==
  ASSUME NEW d \in Nat, d <= Scale - 1, NEW h \in Nat, 2 <= h, h <= 2 * d
  PROVE  /\ Increment(d, h) * h <= 2 * (2 * d)
         /\ 2 * (2 * d) <= 3 * Increment(d, h) * h
<1>1. PICK T \in Nat : T = 2 * d
  OBVIOUS
<1>0. h \in Nat \ {0}
  OBVIOUS
<1>2. PICK n \in Nat :
        /\ 2 * (n * h) <= 2 * T + h /\ 2 * T < 2 * (n * h) + h
        /\ Increment(d, h) = (IF n < 1 THEN 1 ELSE IF n > Scale - 1 THEN Scale - 1 ELSE n)
  BY <1>0, <1>1, IncrementFacts
<1>3. PICK a \in Nat : a = n * h
  OBVIOUS
<1>4. 2 * a <= 3 * T
  BY <1>1, <1>2, <1>3
<1>5. 1 <= n
  <2>1. n = 0 => a = 0
    BY <1>3
  <2>2. QED BY <1>1, <1>2, <1>3, <2>1
<1>6. CASE n > Scale - 1
  <2>1. PICK m \in Nat : m = Scale - 1 /\ Increment(d, h) = m /\ m < n
    BY <1>2, <1>5, <1>6, ScaleFacts
  <2>2. PICK c \in Nat : c = m * h
    OBVIOUS
  <2>3. 2 * c <= 2 * T - h
    BY <1>2, <2>1, <2>2, NearestMultiple
  <2>4. T <= c
    <3>1. m * 2 <= m * h
      <4>1. CASE m = 0
        BY <4>1
      <4>2. CASE m # 0
        BY <4>2, Times
      <4>3. QED BY <4>1, <4>2
    <3>2. QED BY <1>1, <2>1, <2>2, <3>1, ScaleFacts
  <2>5. 3 * Increment(d, h) * h = 3 * c /\ Increment(d, h) * h = c
    BY <2>1, <2>2
  <2>6. QED BY <1>1, <2>3, <2>4, <2>5
<1>7. CASE ~(n > Scale - 1)
  <2>1. 3 * Increment(d, h) * h = 3 * a /\ Increment(d, h) * h = a
    BY <1>2, <1>3, <1>5, <1>7
  <2>2. 2 * T <= 3 * a
    <3>1. CASE n = 1
      BY <1>2, <1>3, <3>1
    <3>2. CASE 2 <= n
      <4>1. h * 2 <= h * n
        BY <3>2, Times
      <4>2. 2 * h <= a
        BY <1>3, <4>1
      <4>3. QED BY <1>2, <1>3, <4>2
    <3>3. QED BY <1>5, <3>1, <3>2
  <2>3. QED BY <1>1, <1>4, <2>1, <2>2
<1>8. QED BY <1>6, <1>7

-----------------------------------------------------------------------------
(* The inductive invariant: what a register holds is what was last asked   *)
(* of it, converted.                                                       *)

\* A register set from a frequency holds a word of it; the increment never is.
Asked ==
  /\ asked["incr"] = Nothing
  /\ \A r \in Words4 : asked[r] # Nothing =>
       asked[r] \in Nat /\ \E n \in Words(asked[r]) : word[r] = Masked(n)

\* An increment set from a time is the one of the distance the sweep had then.
TimedBy ==
  /\ DOMAIN timed = {"half", "start", "stop"}
  /\ timed.half # Nothing =>
       /\ timed.half \in Nat \ {0} /\ timed.start < timed.stop
       /\ word["incr"] = Masked(Increment(timed.stop - timed.start, timed.half))

SweepInv == SweepTypeOK /\ Asked /\ TimedBy /\ RampWithinNyquist

\* What is reported is one of the reasons, and a refused value is reported.
LEMMA AfterTyped ==
  ASSUME NEW d, NEW c \in BOOLEAN, NEW refused \in BOOLEAN, NEW t, NEW bad
  PROVE  After(d, c, refused, t, bad) \in Reasons /\ (refused => After(d, c, refused, t, bad) # "")
BY DEF After, Before, Reasons

\* At the start nothing is asked for and the registers are cleared.
LEMMA SweepInitial == SweepInit => SweepInv
<1> SUFFICES ASSUME SweepInit PROVE SweepInv
  OBVIOUS
<1>1. 0 \in Word
  BY ScaleFacts DEF Word
<1>2. SweepTypeOK
  <2>1. word \in [Words4 -> Word] /\ asked \in [Words4 -> Frequencies \cup {Nothing}]
    BY <1>1 DEF SweepInit
  <2>2. why \in [{"ftw", "lfm"} -> Reasons]
    BY DEF SweepInit, Reasons
  <2>3. told \in [did: {"none", "set", "read", "refused"}, text: Reasons]
    BY DEF SweepInit, Reasons
  <2>4. timed.half \in HalfPeriods \cup {Nothing} /\ {timed.start, timed.stop} \subseteq Word
    BY <1>1 DEF SweepInit, Untimed
  <2>5. has \subseteq {"ftw", "lfm", "clk"}
    BY SweepAssumption DEF SweepInit
  <2>6. QED BY <2>1, <2>2, <2>3, <2>4, <2>5 DEF SweepTypeOK
<1>3. Asked /\ TimedBy
  BY DEF SweepInit, Asked, TimedBy, Untimed, Words4, Parameters
<1>4. RampWithinNyquist
  <2>1. word["start"] = 0 /\ word["stop"] = 0
    BY DEF SweepInit, Words4, Parameters
  <2>2. QED BY <2>1, ScaleFacts DEF RampWithinNyquist
<1>5. QED BY <1>2, <1>3, <1>4 DEF SweepInv

\* The parts of the type a command that reports leaves alone or fills in.
Reports ==
  /\ UNCHANGED has
  /\ \E d \in {"ftw", "lfm"}, text \in Reasons, did \in {"set", "read", "refused"}, note \in Reasons :
       why' = [why EXCEPT ![d] = note] /\ told' = [did |-> did, text |-> text]

\* What a call reports has its type.
LEMMA ReportsTyped ==
  ASSUME SweepTypeOK, Reports
  PROVE  /\ has' \subseteq {"ftw", "lfm", "clk"}
         /\ why' \in [{"ftw", "lfm"} -> Reasons]
         /\ told' \in [did: {"none", "set", "read", "refused"}, text: Reasons]
BY DEF SweepTypeOK, Reports

\* A command that changes no register keeps the invariant.
LEMMA Unset ==
  ASSUME SweepInv, Reports, UNCHANGED <<word, asked, timed>>
  PROVE  SweepInv'
<1>1. SweepTypeOK'
  BY ReportsTyped DEF SweepInv, SweepTypeOK
<1>2. Asked' /\ TimedBy' /\ RampWithinNyquist'
  BY DEF SweepInv, Asked, TimedBy, RampWithinNyquist, Words, Masked, Increment
<1>3. QED BY <1>1, <1>2 DEF SweepInv

\* The ends or the increment set in Hz.
LEMMA SetFrequencyStep ==
  ASSUME SweepInv, NEW r \in {"ftw", "start", "stop"}, SetFrequency(r)
  PROVE  SweepInv'
<1> DEFINE d == Device(r)
           refused(hz) == IF r = "ftw" THEN Negative(hz) ELSE OutOfBand(hz)
           text(hz, bad) == After(d, TRUE, refused(hz), {r}, bad)
<1>1. PICK hz \in Frequencies, bad \in Bad({r}), badRead \in Bad({r}) :
        /\ r = "ftw" => ~Negative(hz)
        /\ IF text(hz, bad) = ""
           THEN /\ \E n \in Words(hz) : word' = [word EXCEPT ![r] = Masked(n)]
                /\ asked' = [asked EXCEPT ![r] = hz]
                /\ why' = [why EXCEPT ![d] = After(d, TRUE, FALSE, {r}, badRead)]
                /\ told' = [did |-> "set", text |-> ""]
           ELSE /\ why' = [why EXCEPT ![d] = text(hz, bad)]
                /\ told' = [did |-> "refused", text |-> text(hz, bad)]
                /\ UNCHANGED <<word, asked>>
        /\ UNCHANGED <<has, timed>>
  BY DEF SetFrequency
<1>2. d \in {"ftw", "lfm"} /\ r \in Words4 /\ r # "incr"
  BY DEF Device, Words4, Parameters
<1>3. refused(hz) \in BOOLEAN
  BY DEF Negative, OutOfBand, AboveNyquist
<1>4. text(hz, bad) \in Reasons /\ After(d, TRUE, FALSE, {r}, badRead) \in Reasons
        /\ (refused(hz) => text(hz, bad) # "")
  BY <1>3, AfterTyped
<1> HIDE DEF text
<1>5. CASE text(hz, bad) # ""
  <2>1. Reports
    BY <1>1, <1>2, <1>4, <1>5 DEF Reports
  <2>2. QED BY <1>1, <1>5, <2>1, Unset
<1>6. CASE text(hz, bad) = ""
  <2>1. PICK n \in Words(hz) : word' = [word EXCEPT ![r] = Masked(n)]
    BY <1>1, <1>6
  <2>2. asked' = [asked EXCEPT ![r] = hz] /\ UNCHANGED <<has, timed>>
    BY <1>1, <1>6
  <2>3. Reports
    <3>1. "" \in Reasons
      BY DEF Reasons
    <3>2. QED BY <1>1, <1>2, <1>4, <1>6, <3>1 DEF Reports
  <2>4. ~refused(hz)
    BY <1>4, <1>6
  <2>5. ~Negative(hz) /\ (r # "ftw" => ~OutOfBand(hz))
    BY <2>4 DEF OutOfBand
  <2> HIDE DEF refused, d
  <2>6. n \in Nat /\ Masked(n) \in Word
    BY <2>5, WordsTyped, MaskFacts
  <2>7. word \in [Words4 -> Word] /\ asked \in [Words4 -> Frequencies \cup {Nothing}]
    BY DEF SweepInv, SweepTypeOK
  <2>8. word' \in [Words4 -> Word] /\ asked' \in [Words4 -> Frequencies \cup {Nothing}]
    BY <2>1, <2>2, <2>6, <2>7
  <2>9. SweepTypeOK'
    BY <2>2, <2>3, <2>8, ReportsTyped DEF SweepInv, SweepTypeOK
  <2>10. Asked'
    <3>1. asked'["incr"] = Nothing
      BY <1>2, <2>2, <2>7 DEF SweepInv, Asked
    <3>2. ASSUME NEW s \in Words4, asked'[s] # Nothing
          PROVE  asked'[s] \in Nat /\ \E k \in Words(asked'[s]) : word'[s] = Masked(k)
      <4>1. CASE s = r
        <5>1. asked'[s] = hz /\ word'[s] = Masked(n) /\ hz # Nan
          BY <1>2, <2>1, <2>2, <2>7, <3>2, <4>1 DEF Nothing
        <5>2. hz \in Nat
          BY <2>5, <5>1, SweepAssumption DEF Negative
        <5>3. QED BY <5>1, <5>2
      <4>2. CASE s # r
        <5>1. asked'[s] = asked[s] /\ word'[s] = word[s]
          BY <2>1, <2>2, <2>7, <4>2
        <5>2. QED BY <3>2, <5>1 DEF SweepInv, Asked
      <4>3. QED BY <4>1, <4>2
    <3>3. QED BY <3>1, <3>2 DEF Asked, Words, Masked, Nothing
  <2>11. TimedBy'
    <3>1. word'["incr"] = word["incr"]
      BY <1>2, <2>1, <2>7 DEF Words4, Parameters
    <3>2. QED BY <2>2, <3>1 DEF SweepInv, TimedBy, Masked, Increment
  <2>12. RampWithinNyquist'
    <3>1. ASSUME NEW s \in {"start", "stop"} PROVE 2 * word'[s] <= Scale
      <4>1. CASE s = r
        <5>1. word'[s] = Masked(n)
          BY <1>2, <2>1, <2>7, <4>1
        <5>2. ~OutOfBand(hz)
          BY <2>5, <4>1
        <5>3. QED BY <5>1, <5>2, InBand
      <4>2. CASE s # r
        <5>1. word'[s] = word[s]
          BY <2>1, <2>7, <4>2 DEF Words4, Parameters
        <5>2. QED BY <5>1 DEF SweepInv, RampWithinNyquist
      <4>3. QED BY <4>1, <4>2
    <3>2. QED BY <3>1 DEF RampWithinNyquist
  <2>13. QED BY <2>9, <2>10, <2>11, <2>12 DEF SweepInv
<1>7. QED BY <1>5, <1>6

\* A raw word: the frequency set before is forgotten, and the time if it is
\* the increment.
LEMMA SetRawStep ==
  ASSUME SweepInv, NEW r \in {"ftw", "incr"}, SetRaw(r)
  PROVE  SweepInv'
<1> DEFINE d == Device(r)
           text(bad) == After(d, FALSE, FALSE, {r}, bad)
<1>1. PICK n \in 0..WordSize - 1, bad \in Bad({r}) :
        /\ why' = [why EXCEPT ![d] = text(bad)]
        /\ IF text(bad) = ""
           THEN /\ word' = [word EXCEPT ![r] = Masked(n)]
                /\ asked' = [asked EXCEPT ![r] = Nothing]
                /\ timed' = IF r = "incr" THEN Untimed ELSE timed
                /\ told' = [did |-> "set", text |-> ""]
           ELSE /\ told' = [did |-> "refused", text |-> text(bad)]
                /\ UNCHANGED <<word, asked, timed>>
        /\ UNCHANGED has
  BY DEF SetRaw
<1>2. d \in {"ftw", "lfm"} /\ r \in Words4
  BY DEF Device, Words4, Parameters
<1>3. text(bad) \in Reasons
  BY AfterTyped
<1>4. Reports
  BY <1>1, <1>2, <1>3 DEF Reports
<1> HIDE DEF text, d
<1>5. CASE text(bad) # ""
  BY <1>1, <1>4, <1>5, Unset
<1>6. CASE text(bad) = ""
  <2>1. /\ word' = [word EXCEPT ![r] = Masked(n)]
        /\ asked' = [asked EXCEPT ![r] = Nothing]
        /\ timed' = IF r = "incr" THEN Untimed ELSE timed
    BY <1>1, <1>6
  <2>2. word \in [Words4 -> Word] /\ asked \in [Words4 -> Frequencies \cup {Nothing}]
    BY DEF SweepInv, SweepTypeOK
  <2>3. Masked(n) \in Word
    BY ScaleFacts, MaskFacts
  <2>4. word' \in [Words4 -> Word] /\ asked' \in [Words4 -> Frequencies \cup {Nothing}]
    BY <2>1, <2>2, <2>3
  <2>5. SweepTypeOK'
    <3>1. timed'.half \in HalfPeriods \cup {Nothing} /\ {timed'.start, timed'.stop} \subseteq Word
      BY <2>1, ScaleFacts DEF SweepInv, SweepTypeOK, Untimed, Word
    <3>2. QED BY <1>4, <2>4, <3>1, ReportsTyped DEF SweepInv, SweepTypeOK
  <2>6. Asked'
    <3>1. asked'["incr"] = Nothing
      BY <2>1, <2>2 DEF SweepInv, Asked, Words4, Parameters
    <3>2. ASSUME NEW s \in Words4, asked'[s] # Nothing
          PROVE  asked'[s] \in Nat /\ \E k \in Words(asked'[s]) : word'[s] = Masked(k)
      <4>1. s # r /\ asked'[s] = asked[s] /\ word'[s] = word[s]
        BY <2>1, <2>2, <3>2
      <4>2. QED BY <3>2, <4>1 DEF SweepInv, Asked
    <3>3. QED BY <3>1, <3>2 DEF Asked, Words, Masked, Nothing
  <2>7. TimedBy'
    <3>1. CASE r = "incr"
      BY <2>1, <3>1 DEF TimedBy, Untimed, Nothing
    <3>2. CASE r # "incr"
      <4>1. word'["incr"] = word["incr"] /\ timed' = timed
        BY <2>1, <2>2, <3>2 DEF Words4, Parameters
      <4>2. QED BY <4>1 DEF SweepInv, TimedBy, Masked, Increment, Nothing
    <3>3. QED BY <3>1, <3>2
  <2>8. RampWithinNyquist'
    <3>1. word'["start"] = word["start"] /\ word'["stop"] = word["stop"]
      BY <2>1, <2>2 DEF Words4, Parameters
    <3>2. QED BY <3>1 DEF SweepInv, RampWithinNyquist
  <2>9. QED BY <2>5, <2>6, <2>7, <2>8 DEF SweepInv
<1>7. QED BY <1>5, <1>6

\* The increment set as the time of a sweep.
LEMMA SetTimeStep ==
  ASSUME SweepInv, SetTime
  PROVE  SweepInv'
<1> DEFINE first(half, bad) == After("lfm", TRUE, half <= 0, {"start", "stop"}, bad)
           text(half, bad)  ==
             IF first(half, bad) # "" THEN first(half, bad)
             ELSE IF word["stop"] <= word["start"] THEN "order"
             ELSE After("lfm", TRUE, FALSE, {"incr"}, bad)
           incr(half) == Masked(Increment(word["stop"] - word["start"], half))
<1>1. PICK half \in HalfPeriods, bad \in Bad(Parameters), badRead \in Bad({"incr"}) :
        /\ IF text(half, bad) = ""
           THEN /\ word' = [word EXCEPT !["incr"] = incr(half)]
                /\ timed' = [half |-> half, start |-> word["start"], stop |-> word["stop"]]
                /\ why' = [why EXCEPT !["lfm"] = After("lfm", FALSE, FALSE, {"incr"}, badRead)]
                /\ told' = [did |-> "set", text |-> ""]
           ELSE /\ why' = [why EXCEPT !["lfm"] = text(half, bad)]
                /\ told' = [did |-> "refused", text |-> text(half, bad)]
                /\ UNCHANGED <<word, timed>>
        /\ UNCHANGED <<has, asked>>
  BY DEF SetTime
<1>2. half \in Int /\ (half <= 0) \in BOOLEAN
  BY SweepAssumption
<1>3. first(half, bad) \in Reasons /\ (half <= 0 => first(half, bad) # "")
        /\ After("lfm", TRUE, FALSE, {"incr"}, bad) \in Reasons
        /\ After("lfm", FALSE, FALSE, {"incr"}, badRead) \in Reasons
  BY <1>2, AfterTyped
<1> HIDE DEF first
<1>4. /\ text(half, bad) \in Reasons
      /\ text(half, bad) = "" => ~(half <= 0) /\ ~(word["stop"] <= word["start"])
  BY <1>3 DEF Reasons
<1> HIDE DEF text
<1>5. Reports
  <2>1. "" \in Reasons
    BY DEF Reasons
  <2>2. QED BY <1>1, <1>3, <1>4, <2>1 DEF Reports
<1>6. CASE text(half, bad) # ""
  BY <1>1, <1>5, <1>6, Unset
<1>7. CASE text(half, bad) = ""
  <2>1. /\ word' = [word EXCEPT !["incr"] = incr(half)]
        /\ timed' = [half |-> half, start |-> word["start"], stop |-> word["stop"]]
        /\ asked' = asked
    BY <1>1, <1>7
  <2>2. word \in [Words4 -> Word]
    BY DEF SweepInv, SweepTypeOK
  <2>3. half \in Nat \ {0} /\ word["start"] \in Word /\ word["stop"] \in Word
          /\ word["start"] < word["stop"]
    <3>1. half \in Nat \ {0}
      <4>1. ~(half <= 0)
        BY <1>4, <1>7
      <4>2. half \in Int
        BY SweepAssumption
      <4>3. QED BY <4>1, <4>2
    <3>2. word["start"] \in Word /\ word["stop"] \in Word
      BY <2>2 DEF Words4, Parameters
    <3>3. ~(word["stop"] <= word["start"])
      BY <1>4, <1>7
    <3>4. QED BY <3>1, <3>2, <3>3, ScaleFacts DEF Word
  <2>4. word["stop"] - word["start"] \in Nat
    BY <2>3, ScaleFacts DEF Word
  <2>5. incr(half) \in Word
    BY <2>3, <2>4, IncrementFacts, MaskFacts, ScaleFacts DEF Word
  <2>6. word' \in [Words4 -> Word]
    BY <2>1, <2>2, <2>5
  <2>7. /\ timed'.half = half /\ timed'.start = word["start"] /\ timed'.stop = word["stop"]
        /\ DOMAIN timed' = {"half", "start", "stop"}
    BY <2>1
  <2>8. word'["incr"] = incr(half) /\ \A s \in Words4 \ {"incr"} : word'[s] = word[s]
    BY <2>1, <2>2 DEF Words4, Parameters
  <2> HIDE DEF incr
  <2>9. SweepTypeOK'
    <3>1. timed'.half \in HalfPeriods \cup {Nothing} /\ {timed'.start, timed'.stop} \subseteq Word
      BY <2>3, <2>7
    <3>2. asked' \in [Words4 -> Frequencies \cup {Nothing}]
      BY <2>1 DEF SweepInv, SweepTypeOK
    <3>3. QED BY <1>5, <2>6, <3>1, <3>2, ReportsTyped DEF SweepInv, SweepTypeOK
  <2>10. Asked'
    <3>1. asked'["incr"] = Nothing
      BY <2>1 DEF SweepInv, Asked
    <3>2. ASSUME NEW s \in Words4, asked'[s] # Nothing
          PROVE  asked'[s] \in Nat /\ \E k \in Words(asked'[s]) : word'[s] = Masked(k)
      <4>1. s # "incr"
        BY <3>1, <3>2
      <4>2. asked'[s] = asked[s] /\ word'[s] = word[s]
        BY <2>1, <2>8, <4>1
      <4>3. QED BY <3>2, <4>2 DEF SweepInv, Asked
    <3>3. QED BY <3>1, <3>2 DEF Asked, Words, Masked, Nothing
  <2>11. TimedBy'
    BY <2>3, <2>7, <2>8 DEF TimedBy, incr, Masked, Increment
  <2>12. RampWithinNyquist'
    <3>1. word'["start"] = word["start"] /\ word'["stop"] = word["stop"]
      BY <2>8 DEF Words4, Parameters
    <3>2. QED BY <3>1 DEF SweepInv, RampWithinNyquist
  <2>13. QED BY <2>9, <2>10, <2>11, <2>12 DEF SweepInv
<1>8. QED BY <1>6, <1>7

\* Reading changes nothing.
LEMMA ReadStep ==
  ASSUME SweepInv, ReadFrequency \/ ReadSweep
  PROVE  SweepInv'
<1>1. UNCHANGED <<has, word, asked, timed>>
  BY DEF ReadFrequency, ReadSweep
<1>2. CASE ReadFrequency
  <2>1. PICK bad \in Bad({"ftw"}) :
          LET text == After("ftw", TRUE, FALSE, {"ftw"}, bad)
          IN  /\ why' = [why EXCEPT !["ftw"] = text]
              /\ told' = [did |-> IF text = "" THEN "read" ELSE "refused", text |-> text]
    BY <1>2 DEF ReadFrequency
  <2>2. After("ftw", TRUE, FALSE, {"ftw"}, bad) \in Reasons
    BY AfterTyped
  <2>3. Reports
    BY <1>1, <2>1, <2>2 DEF Reports
  <2>4. QED BY <1>1, <2>3, Unset
<1>3. CASE ReadSweep
  <2>1. PICK b1 \in Bad({"start"}), b2 \in Bad({"stop"}), b3 \in Bad({"incr"}), b4 \in Bad(Parameters) :
          LET start == After("lfm", TRUE, FALSE, {"start"}, b1)
              stop  == After("lfm", TRUE, FALSE, {"stop"}, b2)
              incr  == After("lfm", FALSE, FALSE, {"incr"}, b3)
              time  == TimeText(word, b4)
          IN  IF start # ""
              THEN told' = [did |-> "refused", text |-> start] /\ why' = [why EXCEPT !["lfm"] = start]
              ELSE IF stop # "" \/ incr # ""
              THEN told' = [did |-> "refused", text |-> incr] /\ why' = [why EXCEPT !["lfm"] = incr]
              ELSE told' = [did |-> "read", text |-> time] /\ why' = [why EXCEPT !["lfm"] = time]
    BY <1>3 DEF ReadSweep
  <2>2. /\ After("lfm", TRUE, FALSE, {"start"}, b1) \in Reasons
        /\ After("lfm", FALSE, FALSE, {"incr"}, b3) \in Reasons
        /\ After("lfm", TRUE, FALSE, Parameters, b4) \in Reasons
    BY AfterTyped
  <2>3. TimeText(word, b4) \in Reasons
    BY <2>2 DEF TimeText, Reasons
  <2>4. PICK text \in Reasons, did \in {"set", "read", "refused"} :
          why' = [why EXCEPT !["lfm"] = text] /\ told' = [did |-> did, text |-> text]
    BY <2>1, <2>2, <2>3
  <2>5. Reports
    BY <1>1, <2>4 DEF Reports
  <2>6. QED BY <1>1, <2>5, Unset
<1>4. QED BY <1>2, <1>3

\* A step keeps the invariant of the sweep.
LEMMA SweepStep == SweepInv /\ [SweepNext]_sweepVars => SweepInv'
<1> SUFFICES ASSUME SweepInv, [SweepNext]_sweepVars PROVE SweepInv'
  OBVIOUS
<1>1. CASE UNCHANGED sweepVars
  BY <1>1 DEF sweepVars, SweepInv, SweepTypeOK, Asked, TimedBy, RampWithinNyquist, Words, Masked, Increment
<1>2. CASE \E r \in {"ftw", "start", "stop"} : SetFrequency(r)
  BY <1>2, SetFrequencyStep
<1>3. CASE SetFtw \/ SetIncrement
  BY <1>3, SetRawStep DEF SetFtw, SetIncrement
<1>4. CASE SetTime
  BY <1>4, SetTimeStep
<1>5. CASE ReadFrequency \/ ReadSweep
  BY <1>5, ReadStep
<1>6. QED BY <1>1, <1>2, <1>3, <1>4, <1>5 DEF SweepNext

-----------------------------------------------------------------------------
(* What follows. *)

\* A frequency reads back within half a step of a word.
LEMMA InvImpliesReadBack == SweepInv => ReadsBackAsAsked
<1> SUFFICES ASSUME SweepInv, NEW r \in Words4, asked[r] # Nothing,
                    4 * asked[r] * Scale < Clk * (2 * Scale - 1)
             PROVE  2 * Distance(word[r] * Clk, 2 * asked[r] * Scale) <= Clk
  BY DEF ReadsBackAsAsked
<1>1. PICK n \in Words(asked[r]) : word[r] = Masked(n)
  BY DEF SweepInv, Asked
<1>2. asked[r] \in Nat /\ asked[r] # Nan
  BY DEF SweepInv, Asked, Nothing
<1>3. QED BY <1>1, <1>2, ReadsAgain

\* What the history of the time says, with the increment unmasked.
LEMMA TimedFacts ==
  ASSUME SweepInv, timed.half # Nothing
  PROVE  /\ timed.half \in Nat \ {0} /\ timed.stop - timed.start \in Nat
         /\ timed.stop - timed.start <= Scale - 1
         /\ word["incr"] = Increment(timed.stop - timed.start, timed.half)
<1>1. timed.start \in Word /\ timed.stop \in Word
  BY DEF SweepInv, SweepTypeOK
<1>2. /\ timed.half \in Nat \ {0} /\ timed.start < timed.stop
      /\ word["incr"] = Masked(Increment(timed.stop - timed.start, timed.half))
  BY DEF SweepInv, TimedBy
<1>3. timed.stop - timed.start \in Nat /\ timed.stop - timed.start <= Scale - 1
  BY <1>1, <1>2, ScaleFacts DEF Word
<1>4. QED BY <1>2, <1>3, IncrementFacts

\* No other increment is closer to the time asked for.
LEMMA InvImpliesClosest == SweepInv => ClosestIncrement
<1> SUFFICES ASSUME SweepInv, timed.half # Nothing,
                    timed.start = word["start"], timed.stop = word["stop"], NEW i \in 1..Scale - 1
             PROVE  LET twice == 2 * (word["stop"] - word["start"])
                    IN  Distance(word["incr"] * timed.half, twice) <= Distance(i * timed.half, twice)
  BY DEF ClosestIncrement
<1>1. QED BY TimedFacts, IncrementClosest

\* The sweep takes the time asked for, within its factor.
LEMMA InvImpliesNear == SweepInv => TimeNearAsked
<1> DEFINE d == timed.stop - timed.start
<1> SUFFICES ASSUME SweepInv, timed.half >= 2, timed.half <= 2 * d
             PROVE  /\ word["incr"] * timed.half <= 2 * (2 * d)
                    /\ 2 * (2 * d) <= 3 * word["incr"] * timed.half
  BY DEF TimeNearAsked
<1>1. timed.half # Nothing
  BY SweepAssumption DEF Nothing
<1>2. timed.half \in Nat /\ d \in Nat /\ d <= Scale - 1 /\ word["incr"] = Increment(d, timed.half)
  BY <1>1, TimedFacts
<1>3. QED BY <1>2, IncrementTime

\* Whatever mappings fail and however the commands follow each other: every
\* register reads back as it was asked for, the ends of the sweep are in the
\* band and the increment is the closest to the time (iq_forge.cpp:251-541).
THEOREM SweepIsAsAsked == SweepSpec => []SweepAsAsked
<1>1. SweepInv => SweepAsAsked
  BY InvImpliesReadBack, InvImpliesClosest, InvImpliesNear DEF SweepInv, SweepAsAsked
<1>2. QED BY SweepInitial, SweepStep, <1>1, PTL DEF SweepSpec


-----------------------------------------------------------------------------
(* The synthesisers.  A call is a function of what both LOs hold, so each  *)
(* lemma says what such a function makes of one LO and leaves of the other.*)

LoState ==
  [word : SlotWords, force : SlotWords, alc : 0..LastAlc, used : 0..LastAlc, tdd : BOOLEAN,
   current : Nat, cachedDiv : 0..7, profile : 0..8, bypass : BOOLEAN]
SlotState == [word : SlotWords, orig : 0..LastAlc, written : 0..LastAlc]

\* Both LOs use the tables their frequencies ask for.
Matched(p) ==
  /\ p["rx"].tdd = (p["rx"].current = p["tx"].current)
  /\ p["tx"].tdd = p["rx"].tdd

\* The frequency noted for an LO is one it takes, and its dividers are in the
\* registers, whole unless it is external, and in force unless a profile is.
Noted(s, d, e) ==
  LET w == Dividers(FromClk(s.current))
  IN  /\ Allowed(d, FromClk(s.current))
      /\ s.word.vco = w.vco /\ s.cachedDiv = w.div
      /\ ~e => s.word = w
      /\ s.profile = 0 => s.force = w /\ s.used = s.alc
      /\ s.bypass = (s.profile # 0)

\* A frequency an LO may have is doubled into the VCO's octave, and divided back.
LEMMA DividersFacts ==
  ASSUME NEW hz \in Nat, 47 <= hz, hz <= 6000
  PROVE  Dividers(hz) \in SlotWords /\ Hz(Dividers(hz)) = hz
<1> DEFINE Fits(n) == hz * 2^n > MinVco /\ hz * 2^(n - 1) <= MinVco
           k == CHOOSE n \in 1..8 : Fits(n)
<1>1. Fits(1) <=> hz * 2 > 6000 /\ hz <= 6000
  BY DEF MinVco
<1>2. Fits(2) <=> hz * 4 > 6000 /\ hz * 2 <= 6000
  BY DEF MinVco
<1>3. Fits(3) <=> hz * 8 > 6000 /\ hz * 4 <= 6000
  BY DEF MinVco
<1>4. Fits(4) <=> hz * 16 > 6000 /\ hz * 8 <= 6000
  BY DEF MinVco
<1>5. Fits(5) <=> hz * 32 > 6000 /\ hz * 16 <= 6000
  BY DEF MinVco
<1>6. Fits(6) <=> hz * 64 > 6000 /\ hz * 32 <= 6000
  BY DEF MinVco
<1>7. Fits(7) <=> hz * 128 > 6000 /\ hz * 64 <= 6000
  BY DEF MinVco
<1> HIDE DEF Fits
<1>8. \E n \in 1..8 : Fits(n)
  <2>1. CASE hz > 3000
    BY <2>1, <1>1
  <2>2. CASE 3000 >= hz /\ hz > 1500
    BY <2>2, <1>2
  <2>3. CASE 1500 >= hz /\ hz > 750
    BY <2>3, <1>3
  <2>4. CASE 750 >= hz /\ hz > 375
    BY <2>4, <1>4
  <2>5. CASE 375 >= hz /\ hz > 187
    BY <2>5, <1>5
  <2>6. CASE 187 >= hz /\ hz > 93
    BY <2>6, <1>6
  <2>7. CASE 93 >= hz
    BY <2>7, <1>7
  <2> QED BY <2>1, <2>2, <2>3, <2>4, <2>5, <2>6, <2>7
<1>9. k \in 1..8
  BY <1>8
<1>10. Dividers(hz) = [vco |-> hz * 2^k, div |-> k - 1]
  BY DEF Dividers, Fits
<1> HIDE DEF k
<1>11. 2^k \in {2, 4, 8, 16, 32, 64, 128, 256} /\ k - 1 + 1 = k
  <2>1. k = 1 => 2^k = 2
    OBVIOUS
  <2>2. k = 2 => 2^k = 4
    OBVIOUS
  <2>3. k = 3 => 2^k = 8
    OBVIOUS
  <2>4. k = 4 => 2^k = 16
    OBVIOUS
  <2>5. k = 5 => 2^k = 32
    OBVIOUS
  <2>6. k = 6 => 2^k = 64
    OBVIOUS
  <2>7. k = 7 => 2^k = 128
    OBVIOUS
  <2>8. k = 8 => 2^k = 256
    OBVIOUS
  <2>9. k = 1 \/ k = 2 \/ k = 3 \/ k = 4 \/ k = 5 \/ k = 6 \/ k = 7 \/ k = 8
    BY <1>9
  <2>10. 2^k \in {2, 4, 8, 16, 32, 64, 128, 256}
    BY <2>1, <2>2, <2>3, <2>4, <2>5, <2>6, <2>7, <2>8, <2>9
  <2>11. k - 1 + 1 = k
    BY <1>9
  <2> QED BY <2>10, <2>11
<1>12. PICK m : m = 2^k
  OBVIOUS
<1>13. hz * m \in Nat /\ (hz * m) \div m = hz
  <2>1. m \in {2, 4, 8, 16, 32, 64, 128, 256}
    BY <1>11, <1>12
  <2> QED BY <2>1
<1>14. Hz(Dividers(hz)) = (hz * 2^k) \div 2^(k - 1 + 1)
  BY <1>10 DEF Hz
<1>15. Dividers(hz) \in SlotWords
  BY <1>9, <1>10, <1>12, <1>13 DEF SlotWords
<1> QED BY <1>11, <1>12, <1>13, <1>14, <1>15

\* A carrier allowed is between 47 and 6000 MHz, whatever the part.
LEMMA AllowedFacts ==
  ASSUME device \in {"AD9361", "AD9363A"}, NEW d \in Lo, NEW hz \in Int, Allowed(d, hz)
  PROVE  /\ hz \in Nat /\ 47 <= hz /\ hz <= 6000
         /\ hz \in MinCarrier[d]..MaxCarrier
<1>1. MinCarrier["rx"] = 70 /\ MinCarrier["tx"] = 47 /\ MaxCarrier = 6000
  BY DEF MinCarrier, MaxCarrier
<1>2. d = "rx" \/ d = "tx"
  BY DEF Lo
<1>3. CASE device = "AD9363A"
  <2>1. hz \in 325..3800
    BY <1>3 DEF Allowed
  <2> QED BY <1>1, <1>2, <2>1
<1>4. CASE device # "AD9363A"
  <2>1. hz \in MinCarrier[d]..MaxCarrier
    BY <1>4 DEF Allowed
  <2> QED BY <1>1, <1>2, <2>1
<1> QED BY <1>3, <1>4

\* There are two LOs.
LEMMA OtherFacts ==
  ASSUME NEW d \in Lo
  PROVE  Other(d) \in Lo /\ Other(d) # d /\ Lo = {d, Other(d)} /\ Other(Other(d)) = d
  BY DEF Other, Lo

\* An LO that takes a slot's word and ALC into force.
LEMMA OnProfile ==
  ASSUME NEW r \in LoState, NEW n \in 0..8, NEW w \in SlotWords, NEW a \in 0..LastAlc
  PROVE  [r EXCEPT !.profile = n, !.force = w, !.used = a] \in LoState
  BY DEF LoState

\* The end of a profile puts the registers in force.
IsLeft(q, p, d) ==
  /\ q \in [Lo -> LoState] /\ q[Other(d)] = p[Other(d)]
  /\ q[d].profile = 0
  /\ q[d].word = p[d].word /\ q[d].alc = p[d].alc /\ q[d].tdd = p[d].tdd
  /\ q[d].current = p[d].current /\ q[d].cachedDiv = p[d].cachedDiv
  /\ q[d].bypass = IF p[d].profile = 0 THEN p[d].bypass ELSE FALSE
  /\ q[d].force = IF p[d].profile = 0 THEN p[d].force ELSE p[d].word
  /\ q[d].used = IF p[d].profile = 0 THEN p[d].used ELSE p[d].alc

\* Leaving the profile puts the registers in force, and the other LO stays.
LEMMA LeftFacts ==
  ASSUME NEW p \in [Lo -> LoState], NEW d \in Lo
  PROVE  IsLeft(Left(p, d), p, d)
<1>1. CASE p[d].profile = 0
  BY <1>1, OtherFacts DEF Left, LoState, IsLeft
<1>2. CASE p[d].profile # 0
  <2> DEFINE r == [p[d] EXCEPT !.bypass = FALSE]
             s == [r EXCEPT !.profile = 0, !.force = p[d].word, !.used = p[d].alc]
  <2>1. /\ r \in LoState /\ r.bypass = FALSE
        /\ r.word = p[d].word /\ r.alc = p[d].alc /\ r.tdd = p[d].tdd
        /\ r.current = p[d].current /\ r.cachedDiv = p[d].cachedDiv
    BY DEF LoState
  <2>7. s = [p[d] EXCEPT !.profile = 0, !.bypass = FALSE, !.force = p[d].word, !.used = p[d].alc]
    BY DEF LoState
  <2> HIDE DEF r
  <2>8. p[d].word \in SlotWords /\ p[d].alc \in 0..LastAlc
    BY DEF LoState
  <2>2. s \in LoState
    <3>1. 0 \in 0..8
      OBVIOUS
    <3> QED BY <2>1, <2>8, <3>1, OnProfile, Zenon
  <2>6. /\ s.profile = 0 /\ s.bypass = FALSE /\ s.force = p[d].word /\ s.used = p[d].alc
        /\ s.word = p[d].word /\ s.alc = p[d].alc /\ s.tdd = p[d].tdd
        /\ s.current = p[d].current /\ s.cachedDiv = p[d].cachedDiv
    BY <2>1 DEF LoState
  <2>3. Left(p, d) = [p EXCEPT ![d] = s]
    BY <1>2, <2>7, Zenon DEF Left
  <2> HIDE DEF s
  <2>4. [p EXCEPT ![d] = s] \in [Lo -> LoState] /\ [p EXCEPT ![d] = s][d] = s
    BY <2>2
  <2>5. [p EXCEPT ![d] = s][Other(d)] = p[Other(d)]
    BY OtherFacts
  <2> QED BY <1>2, <2>2, <2>3, <2>4, <2>5, <2>6 DEF IsLeft
<1> QED BY <1>1, <1>2

\* What a calibration of the VCO of d leaves.
IsTuned(q, p, d, w, a) ==
  /\ q \in [Lo -> LoState] /\ q[Other(d)] = p[Other(d)]
  /\ q[d].profile = p[d].profile /\ q[d].bypass = p[d].bypass
  /\ q[d].word = w /\ q[d].alc = a
  /\ q[d].tdd = (p["rx"].current = p["tx"].current)
  /\ q[d].current = p[d].current /\ q[d].cachedDiv = p[d].cachedDiv
  /\ q[d].force = IF p[d].profile = 0 THEN w ELSE p[d].force
  /\ q[d].used = IF p[d].profile = 0 THEN a ELSE p[d].used

\* Tuning writes a word and an ALC, in force at once off a profile.
LEMMA TunedFacts ==
  ASSUME NEW p \in [Lo -> LoState], NEW d \in Lo, NEW w \in SlotWords, NEW a \in 0..LastAlc
  PROVE  IsTuned(Tuned(p, d, w, a), p, d, w, a)
<1> DEFINE s == [p[d] EXCEPT !.word = w, !.alc = a, !.tdd = TddTable(p),
                             !.force = IF p[d].profile = 0 THEN w ELSE @,
                             !.used = IF p[d].profile = 0 THEN a ELSE @]
<1>1. p[d] \in LoState /\ TddTable(p) \in BOOLEAN
  BY DEF TddTable
<1>2. /\ s \in LoState
      /\ s.profile = p[d].profile /\ s.bypass = p[d].bypass
      /\ s.word = w /\ s.alc = a /\ s.tdd = TddTable(p)
      /\ s.current = p[d].current /\ s.cachedDiv = p[d].cachedDiv
      /\ s.force = IF p[d].profile = 0 THEN w ELSE p[d].force
      /\ s.used = IF p[d].profile = 0 THEN a ELSE p[d].used
  BY <1>1 DEF LoState
<1>3. Tuned(p, d, w, a) = [p EXCEPT ![d] = s]
  BY Zenon DEF Tuned
<1> HIDE DEF s
<1>4. [p EXCEPT ![d] = s] \in [Lo -> LoState] /\ [p EXCEPT ![d] = s][d] = s
  BY <1>2
<1>5. [p EXCEPT ![d] = s][Other(d)] = p[Other(d)]
  BY OtherFacts
<1>6. TddTable(p) = (p["rx"].current = p["tx"].current)
  BY DEF TddTable
<1> QED BY <1>2, <1>3, <1>4, <1>5, <1>6 DEF IsTuned

\* What the fix-up of the other LO leaves.
IsFixed(q, p, d, e) ==
  LET o == Other(d)
  IN  /\ q \in [Lo -> LoState] /\ q[d] = p[d]
      /\ Noted(q[o], o, e)
      /\ q[o].current = p[o].current
      /\ q[o].tdd = (p["rx"].current = p["tx"].current)
      /\ p[o].profile = 0 => q[o].force = p[o].force

\* The other LO's tables follow the pair, its frequency stays.
LEMMA FixOtherFacts ==
  ASSUME device \in {"AD9361", "AD9363A"}, NEW p \in [Lo -> LoState], NEW d \in Lo,
         NEW e \in BOOLEAN, NEW alcs \in [Lo -> 0..LastAlc],
         Noted(p[Other(d)], Other(d), e),
         Allowed(d, FromClk(p[Other(d)].current)),
         p[d].word = Dividers(FromClk(p[d].current)),
         p["rx"].tdd \in BOOLEAN, p["tx"].tdd \in BOOLEAN
  PROVE  IsFixed(FixOther(p, d, alcs), p, d, e)
<1> DEFINE o == Other(d)
           w == Dividers(FromClk(p[o].current))
<1>1. o \in Lo /\ o # d /\ Other(o) = d /\ alcs[o] \in 0..LastAlc /\ (d = "rx" => o = "tx") /\ (d = "tx" => o = "rx")
  BY OtherFacts DEF Other, Lo
<1>2. w \in SlotWords
  <2>1. PICK hz : hz = FromClk(p[o].current)
    OBVIOUS
  <2>2. hz \in Int
    BY <1>1, <2>1 DEF FromClk, LoState
  <2>3. Allowed(o, hz)
    BY <2>1 DEF Noted
  <2> HIDE DEF o
  <2>4. hz \in Nat /\ 47 <= hz /\ hz <= 6000
    BY <1>1, <2>2, <2>3, AllowedFacts
  <2>5. Dividers(hz) \in SlotWords
    BY <2>4, DividersFacts
  <2> QED BY <2>1, <2>5
<1>3. CASE p["rx"].current = p["tx"].current
  <2>1. p[d].word = w
    BY <1>1, <1>3 DEF Lo
  <2>2. FixOther(p, d, alcs) = Tuned(p, o, w, alcs[o])
    BY <1>3, <2>1 DEF FixOther
  <2> HIDE DEF o, w
  <2> DEFINE q == Tuned(p, o, w, alcs[o])
  <2>3. IsTuned(q, p, o, w, alcs[o])
    BY <1>1, <1>2, TunedFacts
  <2> HIDE DEF q
  <2>4. Noted(p[o], o, e)
    BY DEF o
  <2>5. Noted(q[o], o, e) /\ (p[o].profile = 0 => q[o].force = p[o].force)
    BY <2>3, <2>4 DEF Noted, IsTuned, w
  <2> QED BY <1>1, <2>2, <2>3, <2>5 DEF IsTuned, IsFixed, q, o
<1>4. CASE p["rx"].current # p["tx"].current
  <2>2. FixOther(p, d, alcs) = Tuned(Left(p, o), o, w, alcs[o])
    BY <1>4 DEF FixOther
  <2> DEFINE p1 == Left(p, o)
             q == Tuned(p1, o, w, alcs[o])
  <2> HIDE DEF o, w
  <2>3. /\ p1 \in [Lo -> LoState] /\ p1[Other(o)] = p[Other(o)]
        /\ p1[o].profile = 0
        /\ p1[o].current = p[o].current /\ p1[o].cachedDiv = p[o].cachedDiv
        /\ p1[o].bypass = IF p[o].profile = 0 THEN p[o].bypass ELSE FALSE
        /\ p1[o].force = IF p[o].profile = 0 THEN p[o].force ELSE p[o].word
    <3>1. IsLeft(p1, p, o)
      BY <1>1, LeftFacts
    <3> QED BY <3>1 DEF IsLeft
  <2> HIDE DEF p1
  <2>4. IsTuned(q, p1, o, w, alcs[o])
    <3>1. p1 \in [Lo -> LoState] /\ o \in Lo /\ alcs[o] \in 0..LastAlc
      BY <1>1, <2>3
    <3> QED BY <1>2, <3>1, TunedFacts
  <2> HIDE DEF q
  <2>5. p1["rx"].current = p["rx"].current /\ p1["tx"].current = p["tx"].current
    BY <1>1, <2>3 DEF Lo
  <2>6. Noted(p[o], o, e)
    BY DEF o
  <2>7. ~ q[o].bypass
    BY <2>3, <2>4, <2>6 DEF Noted, IsTuned
  <2>8. Noted(q[o], o, e) /\ (p[o].profile = 0 => q[o].force = p[o].force)
    BY <2>3, <2>4, <2>6, <2>7 DEF Noted, IsTuned, w
  <2> QED BY <1>1, <2>2, <2>3, <2>4, <2>5, <2>8 DEF IsTuned, IsFixed, q, p1, o
<1> QED BY <1>3, <1>4

\* This LO programmed, before the other's tables are looked at.
Own(p, d, rate, alcs) ==
  LET w == Dividers(FromClk(rate))
  IN  Tuned([Left(p, d) EXCEPT ![d].current = rate, ![d].cachedDiv = w.div], d, w, alcs[d])

IsOwn(q, p, d, w, a, rate) ==
  /\ w \in SlotWords
  /\ q \in [Lo -> LoState] /\ q[Other(d)] = p[Other(d)]
  /\ q[d].profile = 0 /\ q[d].bypass = FALSE
  /\ q[d].word = w /\ q[d].force = w /\ q[d].alc = a /\ q[d].used = a
  /\ q[d].current = rate /\ q[d].cachedDiv = w.div
  /\ q[d].tdd = (q["rx"].current = q["tx"].current)

\* The LO's own part of setting a rate.
LEMMA OwnFacts ==
  ASSUME device \in {"AD9361", "AD9363A"}, NEW p \in [Lo -> LoState], NEW d \in Lo,
         NEW alcs \in [Lo -> 0..LastAlc], NEW rate \in Nat, Allowed(d, FromClk(rate)),
         p[d].profile = 0 => p[d].bypass = FALSE
  PROVE  IsOwn(Own(p, d, rate, alcs), p, d, Dividers(FromClk(rate)), alcs[d], rate)
<1> DEFINE w == Dividers(FromClk(rate))
           p1 == Left(p, d)
           s == [p1[d] EXCEPT !.current = rate, !.cachedDiv = w.div]
           p2 == [p1 EXCEPT ![d] = s]
           q == Tuned(p2, d, w, alcs[d])
<1>1. w \in SlotWords
  <2>1. FromClk(rate) \in Int
    BY DEF FromClk
  <2>2. FromClk(rate) \in Nat /\ 47 <= FromClk(rate) /\ FromClk(rate) <= 6000
    BY <2>1, AllowedFacts
  <2> QED BY <2>2, DividersFacts
<1> HIDE DEF w
<1>2. /\ p1 \in [Lo -> LoState] /\ p1[Other(d)] = p[Other(d)] /\ p1[d].profile = 0
      /\ p1[d].bypass = FALSE
  <2>1. IsLeft(p1, p, d)
    BY LeftFacts
  <2> HIDE DEF p1
  <2> QED BY <2>1 DEF IsLeft
<1>3. [Left(p, d) EXCEPT ![d].current = rate, ![d].cachedDiv = w.div] = p2
  <2>1. d \in DOMAIN p1 /\ p1[d] \in LoState
    BY <1>2
  <2> QED BY <2>1, Zenon
<1> HIDE DEF p1
<1>4. s \in LoState /\ s.current = rate /\ s.cachedDiv = w.div /\ s.profile = 0 /\ s.bypass = FALSE
  <2>1. p1[d] \in LoState /\ w.div \in 0..7 /\ p1[d].profile = 0 /\ p1[d].bypass = FALSE
    BY <1>1, <1>2 DEF SlotWords
  <2> QED BY <2>1 DEF LoState
<1> HIDE DEF s
<1>5. p2 \in [Lo -> LoState] /\ p2[d] = s /\ p2[Other(d)] = p[Other(d)]
  BY <1>2, <1>4, OtherFacts
<1> HIDE DEF p2
<1>6. alcs[d] \in 0..LastAlc
  OBVIOUS
<1>7. IsTuned(q, p2, d, w, alcs[d])
  BY <1>1, <1>5, <1>6, TunedFacts
<1> HIDE DEF q
<1>8. q["rx"].current = p2["rx"].current /\ q["tx"].current = p2["tx"].current
  BY <1>7, OtherFacts DEF Lo, IsTuned
<1>9. Own(p, d, rate, alcs) = q
  BY <1>3, Zenon DEF Own, q, w
<1>10. IsOwn(q, p, d, w, alcs[d], rate)
  BY <1>1, <1>4, <1>5, <1>7, <1>8 DEF IsTuned, IsOwn
<1> QED BY <1>9, <1>10 DEF w

\* What the setting of d leaves: the other may have been calibrated again, at its
\* own frequency.
IsSet(q, p, d, e, w) ==
  LET o == Other(d)
  IN  /\ q \in [Lo -> LoState] /\ Matched(q)
      /\ Noted(q[o], o, e) /\ (p[o].profile = 0 => q[o].force = p[o].force)
      /\ Noted(q[d], d, FALSE) /\ q[d].profile = 0 /\ q[d].word = w /\ q[d].force = w

\* A rate this LO takes: it is programmed, and the other keeps its frequency.
LEMMA IntSetRateFacts ==
  ASSUME device \in {"AD9361", "AD9363A"}, NEW p \in [Lo -> LoState], NEW d \in Lo,
         NEW alcs \in [Lo -> 0..LastAlc], NEW rate \in Nat, Allowed(d, FromClk(rate)),
         p[d].profile = 0 => p[d].bypass = FALSE, NEW e \in BOOLEAN,
         Matched(p), Noted(p[Other(d)], Other(d), e),
         p["rx"].current = p["tx"].current => Allowed(d, FromClk(p[Other(d)].current))
  PROVE  IsSet(IntSetRate(p, d, rate, alcs), p, d, e, Dividers(FromClk(rate)))
<1> DEFINE w == Dividers(FromClk(rate))
           o == Other(d)
           q == Own(p, d, rate, alcs)
<1>1. /\ w \in SlotWords
      /\ q \in [Lo -> LoState] /\ q[Other(d)] = p[Other(d)]
      /\ q[d].profile = 0 /\ q[d].bypass = FALSE
      /\ q[d].word = w /\ q[d].force = w /\ q[d].alc = alcs[d] /\ q[d].used = alcs[d]
      /\ q[d].current = rate /\ q[d].cachedDiv = w.div
      /\ q[d].tdd = (q["rx"].current = q["tx"].current)
  <2>1. IsOwn(q, p, d, w, alcs[d], rate)
    BY OwnFacts
  <2> QED BY <2>1, Zenon DEF IsOwn
<1>2. IntSetRate(p, d, rate, alcs) = IF WrongTables(q) THEN FixOther(q, d, alcs) ELSE q
  BY Zenon DEF IntSetRate, Own
<1>3. Noted(q[d], d, FALSE)
  BY <1>1 DEF Noted
<1>4. Noted(q[o], o, e) /\ q[o] = p[o]
  BY <1>1
<1>5. o \in Lo /\ o # d /\ (d = "rx" => o = "tx") /\ (d = "tx" => o = "rx") /\ d \in {"rx", "tx"}
  BY OtherFacts DEF Other, Lo
<1>6. q[o].tdd \in BOOLEAN /\ q[d].tdd \in BOOLEAN
  BY <1>1, <1>5 DEF LoState
<1> HIDE DEF q
<1>7. CASE ~WrongTables(q)
  <2>1. Matched(q)
    BY <1>1, <1>5, <1>6, <1>7 DEF WrongTables, Matched
  <2> QED BY <1>1, <1>2, <1>3, <1>4, <1>7, <2>1 DEF IsSet
<1>8. CASE WrongTables(q)
  <2>1. Allowed(d, FromClk(q[o].current))
    <3>1. CASE q["rx"].current = q["tx"].current
      <4>1. q[o].current = rate
        BY <1>1, <1>5, <3>1
      <4> QED BY <4>1
    <3>2. CASE q["rx"].current # q["tx"].current
      <4>1. q["rx"].tdd \/ q["tx"].tdd
        BY <1>8, <3>2 DEF WrongTables
      <4>2. p[o].tdd
        BY <1>1, <1>4, <1>5, <3>2, <4>1
      <4>3. p["rx"].current = p["tx"].current
        BY <1>5, <4>2 DEF Matched
      <4> QED BY <1>4, <4>3
    <3> QED BY <3>1, <3>2
  <2> DEFINE r == FixOther(q, d, alcs)
  <2>2. IsFixed(r, q, d, e)
    <3>1. q[d].word = Dividers(FromClk(q[d].current))
      BY <1>1
    <3>2. q["rx"].tdd \in BOOLEAN /\ q["tx"].tdd \in BOOLEAN
      BY <1>5, <1>6
    <3> QED BY <1>1, <1>4, <2>1, <3>1, <3>2, FixOtherFacts
  <2> HIDE DEF r
  <2>3. Matched(r)
    BY <1>1, <1>5, <2>2 DEF Matched, IsFixed
  <2>4. IntSetRate(p, d, rate, alcs) = r
    BY <1>2, <1>8 DEF r
  <2> QED BY <1>1, <1>3, <1>4, <2>2, <2>3, <2>4 DEF IsFixed, IsSet
<1> QED BY <1>7, <1>8

\* The pair of LOs as every call finds it.
Paired(p, e) == p \in [Lo -> LoState] /\ Matched(p) /\ \A d \in Lo : Noted(p[d], d, e[d])

\* A call for d leaves the pair so, and the other LO where it was.
KeepsPair(q, p, d, e) ==
  Paired(q, e) /\ (p[Other(d)].profile = 0 => q[Other(d)].force = p[Other(d)].force)

\* Leaving the profile keeps the pair.
LEMMA LeftKeeps ==
  ASSUME NEW p, NEW e, Paired(p, e), NEW d \in Lo, ~e[d]
  PROVE  KeepsPair(Left(p, d), p, d, e)
<1> DEFINE q == Left(p, d)
<1>1. IsLeft(q, p, d)
  BY LeftFacts DEF Paired
<1> HIDE DEF q
<1>2. Noted(p[d], d, e[d]) /\ Noted(p[Other(d)], Other(d), e[Other(d)])
  BY OtherFacts DEF Paired
<1>3. q[d].profile = 0 /\ ~q[d].bypass
  BY <1>1, <1>2 DEF IsLeft, Noted
<1>4. Noted(q[d], d, e[d])
  BY <1>1, <1>2, <1>3 DEF IsLeft, Noted
<1>5. Matched(q)
  BY <1>1, OtherFacts DEF IsLeft, Matched, Paired, Lo
<1>6. \A x \in Lo : Noted(q[x], x, e[x])
  BY <1>1, <1>2, <1>4, OtherFacts DEF IsLeft
<1> QED BY <1>1, <1>5, <1>6 DEF KeepsPair, Paired, IsLeft, q

\* Setting an LO that takes the frequency keeps the pair.
LEMMA SetKeeps ==
  ASSUME device \in {"AD9361", "AD9363A"}, NEW p, NEW e \in [Lo -> BOOLEAN], Paired(p, e),
         NEW d \in Lo, ~e[d], NEW alcs \in [Lo -> 0..LastAlc],
         NEW rate \in Nat, Allowed(d, FromClk(rate))
  PROVE  LET q == IntSetRate(p, d, rate, alcs)
             w == Dividers(FromClk(rate))
         IN  KeepsPair(q, p, d, e) /\ q[d].profile = 0 /\ q[d].word = w /\ q[d].force = w
<1> DEFINE q == IntSetRate(p, d, rate, alcs)
           w == Dividers(FromClk(rate))
           o == Other(d)
<1>1. /\ p \in [Lo -> LoState] /\ Matched(p)
      /\ Noted(p[d], d, e[d]) /\ Noted(p[Other(d)], Other(d), e[Other(d)])
      /\ Other(d) \in Lo
  BY OtherFacts DEF Paired
<1>2. p[d].profile = 0 => p[d].bypass = FALSE
  <2>1. p[d].bypass \in BOOLEAN
    BY <1>1 DEF LoState
  <2> QED BY <1>1, <2>1 DEF Noted
<1>3. p["rx"].current = p["tx"].current => Allowed(d, FromClk(p[Other(d)].current))
  BY <1>1, OtherFacts DEF Noted, Lo
<1>4. IsSet(q, p, d, e[Other(d)], w)
  BY <1>1, <1>2, <1>3, IntSetRateFacts
<1> HIDE DEF q, w
<1>5. Noted(q[d], d, e[d])
  BY <1>4 DEF IsSet, Noted
<1>6. \A x \in Lo : Noted(q[x], x, e[x])
  BY <1>4, <1>5, OtherFacts DEF IsSet
<1>7. KeepsPair(q, p, d, e) /\ q[d].profile = 0 /\ q[d].word = w /\ q[d].force = w
  BY <1>4, <1>6 DEF IsSet, KeepsPair, Paired
<1> QED BY <1>7 DEF q, w

\* Setting a rate keeps the pair, taken or not.
LEMMA RateKeeps ==
  ASSUME device \in {"AD9361", "AD9363A"}, NEW p, NEW e \in [Lo -> BOOLEAN], Paired(p, e),
         NEW d \in Lo, ~e[d], NEW alcs \in [Lo -> 0..LastAlc], NEW rate \in Nat
  PROVE  KeepsPair(IntSetRate(p, d, rate, alcs), p, d, e)
<1>1. CASE Allowed(d, FromClk(rate))
  BY <1>1, SetKeeps
<1>2. CASE ~Allowed(d, FromClk(rate))
  <2>1. IntSetRate(p, d, rate, alcs) = Left(p, d)
    BY <1>2 DEF IntSetRate
  <2> QED BY <2>1, LeftKeeps
<1> QED BY <1>1, <1>2

\* The multiplexer moved: the divider parked or put back, the LO set again.
LEMMA MuxKeeps ==
  ASSUME device \in {"AD9361", "AD9363A"}, NEW p, NEW e \in [Lo -> BOOLEAN], Paired(p, e),
         NEW d \in Lo, NEW on \in BOOLEAN, NEW alcs \in [Lo -> 0..LastAlc]
  PROVE  KeepsPair(MuxSetParent(p, d, on, alcs), p, d, [e EXCEPT ![d] = on])
<1> DEFINE f == [e EXCEPT ![d] = on]
           div == IF on THEN 7 ELSE p[d].cachedDiv
           parked == [p[d].word EXCEPT !.div = div]
           r == [p[d] EXCEPT !.word = parked]
           s == [p EXCEPT ![d] = r]
<1>1. /\ p \in [Lo -> LoState] /\ Matched(p)
      /\ Noted(p[d], d, e[d]) /\ Noted(p[Other(d)], Other(d), e[Other(d)])
      /\ Other(d) \in Lo /\ Other(d) # d
  BY OtherFacts DEF Paired
<1>2. f \in [Lo -> BOOLEAN] /\ f[d] = on /\ f[Other(d)] = e[Other(d)]
  BY <1>1
<1>3. ExtLoControl(p, d, on) = s
  <2>1. d \in DOMAIN p
    BY <1>1
  <2> QED BY <2>1, Zenon DEF ExtLoControl
<1> HIDE DEF f
<1>4. parked = [vco |-> p[d].word.vco, div |-> div] /\ parked \in SlotWords
  BY <1>1 DEF LoState, SlotWords
<1>5. ~on => parked = Dividers(FromClk(p[d].current))
  <2>1. FromClk(p[d].current) \in Int
    BY <1>1 DEF FromClk, LoState
  <2>2. Dividers(FromClk(p[d].current)) \in SlotWords
    BY <1>1, <2>1, AllowedFacts, DividersFacts DEF Noted
  <2>3. p[d].word.vco = Dividers(FromClk(p[d].current)).vco
        /\ p[d].cachedDiv = Dividers(FromClk(p[d].current)).div
    BY <1>1 DEF Noted
  <2> HIDE DEF parked
  <2> QED BY <1>4, <2>2, <2>3 DEF SlotWords
<1>6. parked.vco = p[d].word.vco
  BY <1>4
<1> HIDE DEF parked
<1>7. /\ r \in LoState /\ r.word = parked
      /\ r.force = p[d].force /\ r.alc = p[d].alc /\ r.used = p[d].used /\ r.tdd = p[d].tdd
      /\ r.current = p[d].current /\ r.cachedDiv = p[d].cachedDiv
      /\ r.profile = p[d].profile /\ r.bypass = p[d].bypass
  BY <1>1, <1>4 DEF LoState
<1> HIDE DEF r
<1>8. s \in [Lo -> LoState] /\ s[d] = r /\ s[Other(d)] = p[Other(d)]
  BY <1>1, <1>7
<1> HIDE DEF s
<1>9. Paired(s, f)
  <2>1. Noted(r, d, on)
    BY <1>1, <1>5, <1>6, <1>7 DEF Noted
  <2>2. \A x \in Lo : Noted(s[x], x, f[x])
    BY <1>1, <1>2, <1>8, <2>1, OtherFacts
  <2>3. Matched(s)
    BY <1>1, <1>7, <1>8, OtherFacts DEF Matched, Lo
  <2> QED BY <1>8, <2>2, <2>3 DEF Paired
<1>10. CASE on \/ p[d].current = 0
  <2>1. MuxSetParent(p, d, on, alcs) = s
    BY <1>3, <1>10 DEF MuxSetParent
  <2> QED BY <1>8, <1>9, <2>1 DEF KeepsPair, f
<1>11. CASE ~(on \/ p[d].current = 0)
  <2> DEFINE q == IntSetRate(s, d, ToClk(p[d].current), alcs)
  <2>1. MuxSetParent(p, d, on, alcs) = q
    BY <1>3, <1>11 DEF MuxSetParent
  <2>2. ToClk(p[d].current) \in Nat
    BY <1>1 DEF ToClk, LoState
  <2>3. KeepsPair(q, s, d, f)
    BY <1>2, <1>9, <1>11, <2>2, RateKeeps
  <2> HIDE DEF q
  <2> QED BY <1>8, <2>1, <2>3 DEF KeepsPair, f
<1> QED BY <1>10, <1>11

Internal == [d \in Lo |-> FALSE]

\* ad9361_setup() leaves the pair so, with both LOs internal.
LEMMA StartKeeps ==
  ASSUME device \in {"AD9361", "AD9363A"}, NEW alcs \in [Lo -> 0..LastAlc]
  PROVE  Paired(SetUpPlls(alcs), Internal)
<1> DEFINE cold == [rx |-> Cold, tx |-> Cold]
           rate == ToClk(StartHz)
           rx == IntSetRate(cold, "rx", rate, alcs)
           tx == IntSetRate(rx, "tx", rate, alcs)
<1>1. "rx" \in Lo /\ "tx" \in Lo /\ Lo = {"rx", "tx"} /\ Other("rx") = "tx" /\ Other("tx") = "rx"
  BY DEF Lo, Other
<1>2. Idle \in SlotWords
  BY DEF Idle, SlotWords
<1>3. Cold \in LoState
  BY <1>2, SynthAssumption DEF Cold, LoState
<1>4. cold \in [Lo -> LoState] /\ cold["rx"] = Cold /\ cold["tx"] = Cold
  <2> HIDE DEF Cold
  <2> QED BY <1>1, <1>3
<1>5. Cold.profile = 0 /\ Cold.bypass = FALSE /\ Cold.tdd = FALSE /\ Cold.current = 0
  BY DEF Cold
<1> HIDE DEF cold
<1>6. rate \in Nat /\ rate # 0 /\ FromClk(rate) \in Nat /\ 325 <= FromClk(rate) /\ FromClk(rate) <= 3800
  BY SynthAssumption DEF ToClk, FromClk
<1> HIDE DEF rate
<1>7. \A d \in Lo : Allowed(d, FromClk(rate))
  <2>1. MinCarrier["rx"] = 70 /\ MinCarrier["tx"] = 47 /\ MaxCarrier = 6000
    BY DEF MinCarrier, MaxCarrier
  <2>2. \A d \in Lo : FromClk(rate) \in MinCarrier[d]..MaxCarrier
    <3>1. PICK hz : hz = FromClk(rate)
      OBVIOUS
    <3>2. hz \in Int /\ 325 <= hz /\ hz <= 3800
      BY <1>6, <3>1
    <3>3. hz \in MinCarrier["rx"]..MaxCarrier /\ hz \in MinCarrier["tx"]..MaxCarrier
      BY <2>1, <3>2
    <3> QED BY <1>1, <3>1, <3>3
  <2> QED BY <1>6, <2>2 DEF Allowed
<1>8. /\ rx \in [Lo -> LoState] /\ Matched(rx) /\ Noted(rx["rx"], "rx", FALSE)
      /\ rx["tx"] = Cold /\ rx["rx"].current = rate
  <2> DEFINE q == Own(cold, "rx", rate, alcs)
             w == Dividers(FromClk(rate))
  <2>1. IsOwn(q, cold, "rx", w, alcs["rx"], rate)
    <3>1. cold["rx"].profile = 0 => cold["rx"].bypass = FALSE
      BY <1>4, <1>5
    <3>2. PICK d : d = "rx"
      OBVIOUS
    <3>3. d \in Lo /\ Allowed(d, FromClk(rate)) /\ (cold[d].profile = 0 => cold[d].bypass = FALSE)
      BY <1>1, <1>7, <3>1, <3>2
    <3>4. IsOwn(Own(cold, d, rate, alcs), cold, d, Dividers(FromClk(rate)), alcs[d], rate)
      <4>1. cold \in [Lo -> LoState] /\ rate \in Nat
        BY <1>4, <1>6
      <4> QED BY <3>3, <4>1, OwnFacts
    <3> QED BY <3>2, <3>4
  <2>2. rx = IF WrongTables(q) THEN FixOther(q, "rx", alcs) ELSE q
    BY <1>1, <1>7, Zenon DEF IntSetRate, Own
  <2> HIDE DEF q, rx, w
  <2>3. /\ q \in [Lo -> LoState] /\ q["tx"] = Cold
        /\ q["rx"].tdd = (q["rx"].current = q["tx"].current)
        /\ q["rx"].tdd = FALSE /\ q["tx"].tdd = FALSE /\ q["rx"].current = rate /\ q["tx"].current = 0
    <3>1. q \in [Lo -> LoState] /\ q["tx"] = Cold /\ q["rx"].current = rate
      BY <1>1, <1>4, <2>1 DEF IsOwn
    <3>2. q["tx"].tdd = FALSE /\ q["tx"].current = 0
      BY <1>5, <3>1
    <3>3. q["rx"].tdd = (q["rx"].current = q["tx"].current)
      BY <2>1, Zenon DEF IsOwn
    <3>4. (q["rx"].current = q["tx"].current) = FALSE
      BY <1>6, <3>1, <3>2
    <3>5. q["rx"].tdd = FALSE
      BY <3>3, <3>4, Zenon
    <3> QED BY <3>1, <3>2, <3>3, <3>5
  <2>4. ~WrongTables(q) /\ Matched(q)
    <3>1. q["rx"].current # q["tx"].current
      BY <1>6, <2>3
    <3> QED BY <2>3, <3>1, Zenon DEF WrongTables, Matched
  <2>5. Noted(q["rx"], "rx", FALSE)
    BY <1>1, <1>7, <2>1 DEF IsOwn, Noted, w
  <2> QED BY <2>2, <2>3, <2>4, <2>5
<1> HIDE DEF rx
<1>9. Paired(tx, Internal)
  <2> DEFINE w == Dividers(FromClk(rate))
  <2>1. IsSet(tx, rx, "tx", FALSE, w)
    <3>1. rx["tx"].profile = 0 => rx["tx"].bypass = FALSE
      BY <1>5, <1>8
    <3>2. rx["rx"].current # rx["tx"].current
      BY <1>5, <1>6, <1>8
    <3>3. PICK d : d = "tx"
      OBVIOUS
    <3>4. /\ d \in Lo /\ Noted(rx[Other(d)], Other(d), FALSE) /\ Allowed(d, FromClk(rate))
          /\ FALSE \in BOOLEAN /\ (rx[d].profile = 0 => rx[d].bypass = FALSE)
          /\ rx["rx"].current = rx["tx"].current => Allowed(d, FromClk(rx[Other(d)].current))
      BY <1>1, <1>7, <1>8, <3>1, <3>2, <3>3
    <3>5. IsSet(IntSetRate(rx, d, rate, alcs), rx, d, FALSE, Dividers(FromClk(rate)))
      <4>1. rx \in [Lo -> LoState] /\ rate \in Nat /\ Matched(rx)
        BY <1>6, <1>8
      <4> QED BY <3>4, <4>1, IntSetRateFacts
    <3> QED BY <3>3, <3>5
  <2> HIDE DEF tx, w
  <2>2. \A x \in Lo : Noted(tx[x], x, Internal[x])
    BY <1>1, <2>1 DEF IsSet, Internal
  <2> QED BY <2>1, <2>2 DEF IsSet, Paired
<1> HIDE DEF tx
<1>10. /\ Internal \in [Lo -> BOOLEAN]
       /\ [Internal EXCEPT !["rx"] = FALSE] = Internal /\ [Internal EXCEPT !["tx"] = FALSE] = Internal
  BY <1>1 DEF Internal
<1> DEFINE m == MuxSetParent(tx, "rx", FALSE, alcs)
<1>11. Paired(m, Internal)
  <2>1. KeepsPair(m, tx, "rx", [Internal EXCEPT !["rx"] = FALSE])
    BY <1>1, <1>9, <1>10, MuxKeeps
  <2> HIDE DEF m
  <2> QED BY <1>10, <2>1 DEF KeepsPair
<1> HIDE DEF m
<1>12. Paired(MuxSetParent(m, "tx", FALSE, alcs), Internal)
  <2> DEFINE n == MuxSetParent(m, "tx", FALSE, alcs)
  <2>1. KeepsPair(n, m, "tx", [Internal EXCEPT !["tx"] = FALSE])
    BY <1>1, <1>10, <1>11, MuxKeeps
  <2> HIDE DEF n
  <2>2. Paired(n, Internal)
    BY <1>10, <2>1 DEF KeepsPair
  <2> QED BY <2>2 DEF n
<1> QED BY <1>12, Zenon DEF SetUpPlls, m, tx, rx, cold, rate

-----------------------------------------------------------------------------
\* What every call finds.
SynthInv ==
  /\ device \in {"AD9361", "AD9363A"}
  /\ slots \in [Lo -> [Profiles -> SlotState]]
  /\ ext \in [Lo -> BOOLEAN] /\ off \in [Lo -> BOOLEAN] /\ pd \in [Lo -> SUBSET {"lo", "vco"}]
  /\ Paired(pll, ext)
  /\ PowerInForce

\* The bodies of the properties of steps.
SetsTheFrequency ==
  call'.op = "freq" =>
       LET d == call'.lo
           hz == FromClk(ToClk(call'.arg))
       IN  Allowed(d, hz) /\ ~ext[d] /\ loRates[d] # ToClk(hz) =>
             Hz(pll'[d].force) = hz /\ FromClk(loRates'[d]) = hz
LeavesTheOther ==
  LET o == Other(call'.lo)
  IN  pll[o].profile = 0 /\ ~ext[o] => Hz(pll'[o].force) = Hz(pll[o].force)
ChangesTheAlc ==
  call'.op = "recall" =>
       LET d == call'.lo
           q == pll[d].profile
       IN  slots[d][call'.arg] # Empty /\ (q # 0 => slots[d][q - 1].written = pll[d].used) =>
             pll'[d].used # pll[d].used

StepKeeps == SynthInv' /\ SetsTheFrequency /\ LeavesTheOther /\ ChangesTheAlc

\* The ALC words a calibration may find are ALC words.
LEMMA AlcWords == \A a \in [Lo -> Alcs] : a \in [Lo -> 0..LastAlc]
<1> SUFFICES ASSUME NEW a \in [Lo -> Alcs], NEW d \in Lo
             PROVE  a[d] \in 0..LastAlc
  OBVIOUS
<1>1. a[d] \in Alcs
  OBVIOUS
<1>2. Alcs \subseteq 0..LastAlc
  BY SynthAssumption
<1> QED BY <1>1, <1>2

\* What an LO may have depends on the part, which stays.
LEMMA PairedNext ==
  ASSUME Paired(pll', ext'), device' = device
  PROVE  Paired(pll, ext)'
<1>1. \A d \in Lo : \A hz : Allowed(d, hz)' <=> Allowed(d, hz)
  BY DEF Allowed
<1>2. ASSUME NEW d \in Lo
      PROVE  Noted(pll[d], d, ext[d])'
  <2>1. Noted(pll'[d], d, ext'[d])
    BY DEF Paired
  <2> QED BY <1>1, <2>1 DEF Noted
<1> QED BY <1>2 DEF Paired, Matched

\* Setup's two LOs are a pair.
LEMMA SynthInitial == SynthInit => SynthInv
<1> SUFFICES ASSUME SynthInit
             PROVE  SynthInv
  OBVIOUS
<1>1. device \in {"AD9361", "AD9363A"}
  BY SynthAssumption DEF SynthInit
<1>2. PICK a \in [Lo -> Alcs] : pll = SetUpPlls(a)
  BY DEF SynthInit
<1>3. ext = Internal
  BY DEF SynthInit, Internal
<1>4. Paired(pll, ext)
  BY <1>1, <1>2, <1>3, AlcWords, StartKeeps
<1>5. slots \in [Lo -> [Profiles -> SlotState]]
  <2>1. Empty \in SlotState
    BY SynthAssumption DEF Empty, Idle, SlotState, SlotWords
  <2> QED BY <2>1 DEF SynthInit
<1>6. /\ ext \in [Lo -> BOOLEAN] /\ off \in [Lo -> BOOLEAN] /\ pd \in [Lo -> SUBSET {"lo", "vco"}]
      /\ PowerInForce
  BY DEF SynthInit, PowerInForce
<1> QED BY <1>1, <1>4, <1>5, <1>6 DEF SynthInv

\* A frequency set is in force, and the other LO stays.
LEMMA SetLoFreqStep ==
  ASSUME SynthInv, NEW d \in Lo, NEW hz \in Carriers, NEW alcs \in [Lo -> Alcs], SetLoFreq(d, hz, alcs)
  PROVE  StepKeeps
<1> DEFINE rate == ToClk(hz)
<1>1. /\ call'.op = "freq" /\ call'.lo = d /\ call'.arg = hz
      /\ device' = device /\ slots' = slots /\ ext' = ext /\ pd' = pd /\ off' = off
      /\ ClkSetRate(d, rate, alcs)
  BY DEF SetLoFreq, Counted
<1>2. hz \in Nat /\ rate \in Nat /\ ToClk(FromClk(rate)) = rate /\ FromClk(rate) \in Nat
  BY SynthAssumption DEF ToClk, FromClk
<1> HIDE DEF rate
<1>3. alcs \in [Lo -> 0..LastAlc]
  BY AlcWords
<1>4. Paired(pll', ext) /\ (pll[Other(d)].profile = 0 => pll'[Other(d)].force = pll[Other(d)].force)
  <2>1. CASE pll' = pll
    BY <2>1 DEF SynthInv
  <2>2. CASE pll' = Left(pll, d) /\ ~ext[d]
    <3>1. KeepsPair(pll', pll, d, ext)
      BY <2>2, LeftKeeps DEF SynthInv
    <3> QED BY <3>1 DEF KeepsPair
  <2>3. CASE pll' = IntSetRate(pll, d, rate, alcs) /\ ~ext[d]
    <3>1. KeepsPair(pll', pll, d, ext)
      BY <1>2, <1>3, <2>3, RateKeeps DEF SynthInv
    <3> QED BY <3>1 DEF KeepsPair
  <2>4. \/ pll' = pll
        \/ pll' = Left(pll, d) /\ ~ext[d]
        \/ pll' = IntSetRate(pll, d, rate, alcs) /\ ~ext[d]
    BY <1>1 DEF ClkSetRate
  <2> QED BY <2>1, <2>2, <2>3, <2>4
<1>5. SynthInv'
  <2>1. Paired(pll, ext)'
    BY <1>1, <1>4, PairedNext
  <2> QED BY <1>1, <2>1 DEF SynthInv, PowerInForce
<1>6. LeavesTheOther
  BY <1>1, <1>4 DEF LeavesTheOther
<1>7. SetsTheFrequency
  <2> SUFFICES ASSUME Allowed(d, FromClk(rate)), ~ext[d], loRates[d] # ToClk(FromClk(rate))
               PROVE  Hz(pll'[d].force) = FromClk(rate) /\ FromClk(loRates'[d]) = FromClk(rate)
    BY <1>1 DEF SetsTheFrequency, rate
  <2>1. FromClk(rate) \in MinCarrier[d]..MaxCarrier /\ Hz(Dividers(FromClk(rate))) = FromClk(rate)
    BY <1>2, AllowedFacts, DividersFacts DEF SynthInv
  <2>2. pll' = IntSetRate(pll, d, rate, alcs) /\ loRates' = Recalculated(pll', slots, ext, dummy')
    BY <1>1, <1>2, <2>1 DEF ClkSetRate
  <2>3. pll'[d].profile = 0 /\ pll'[d].word = Dividers(FromClk(rate)) /\ pll'[d].force = Dividers(FromClk(rate))
    BY <1>2, <1>3, <2>2, SetKeeps DEF SynthInv
  <2>4. loRates'[d] = ToClk(Hz(pll'[d].word))
    BY <2>2, <2>3 DEF Recalculated
  <2> QED BY <1>2, <2>1, <2>3, <2>4
<1> QED BY <1>1, <1>5, <1>6, <1>7 DEF StepKeeps, ChangesTheAlc

\* An LO made external or internal.
LEMMA SetLoIntExtStep ==
  ASSUME SynthInv, NEW d \in Lo, NEW on \in BOOLEAN, NEW alcs \in [Lo -> Alcs], SetLoIntExt(d, on, alcs)
  PROVE  StepKeeps
<1>1. /\ call'.op # "freq" /\ call'.op # "recall" /\ call'.lo = d
      /\ device' = device /\ slots' = slots /\ off' = off
      /\ ext' = [ext EXCEPT ![d] = on] /\ pd' = Powered(d, on)
      /\ pll' = MuxSetParent(pll, d, on, alcs)
  BY DEF SetLoIntExt, Counted
<1>2. alcs \in [Lo -> 0..LastAlc]
  BY AlcWords
<1>3. KeepsPair(pll', pll, d, ext')
  BY <1>1, <1>2, MuxKeeps DEF SynthInv
<1>4. ext' \in [Lo -> BOOLEAN] /\ pd' \in [Lo -> SUBSET {"lo", "vco"}] /\ PowerInForce'
  BY <1>1 DEF SynthInv, Powered, PowerInForce
<1>5. SynthInv'
  <2>1. Paired(pll, ext)'
    BY <1>1, <1>3, PairedNext DEF KeepsPair
  <2> QED BY <1>1, <1>4, <2>1 DEF SynthInv
<1>6. LeavesTheOther
  BY <1>1, <1>3 DEF LeavesTheOther, KeepsPair
<1> QED BY <1>1, <1>5, <1>6 DEF StepKeeps, SetsTheFrequency, ChangesTheAlc

\* A call that touches no LO's registers.
LEMMA QuietStep ==
  ASSUME SynthInv, pll' = pll, device' = device, ext' = ext,
         slots' \in [Lo -> [Profiles -> SlotState]],
         off' \in [Lo -> BOOLEAN], pd' \in [Lo -> SUBSET {"lo", "vco"}], PowerInForce',
         call'.op # "freq", call'.op # "recall"
  PROVE  StepKeeps
<1>1. SynthInv'
  <2>1. Paired(pll', ext')
    BY DEF SynthInv
  <2> QED BY <2>1, PairedNext DEF SynthInv
<1>2. LeavesTheOther
  BY DEF LeavesTheOther
<1> QED BY <1>1, <1>2 DEF StepKeeps, SetsTheFrequency, ChangesTheAlc

\* What is stored in a slot has its type.
LEMMA LoadedTyped ==
  ASSUME SynthInv, NEW d \in Lo, NEW p \in Profiles, NEW w \in SlotWords, NEW a \in 0..LastAlc,
         Loaded(d, p, w, a)
  PROVE  slots' \in [Lo -> [Profiles -> SlotState]]
<1>1. [word |-> w, orig |-> a, written |-> a] \in SlotState
  BY DEF SlotState
<1> QED BY <1>1 DEF SynthInv, Loaded

\* Storing touches neither LO.
LEMMA StoreStep ==
  ASSUME SynthInv, NEW d \in Lo, NEW p \in Profiles, FastlockStore(d, p)
  PROVE  StepKeeps
<1>1. pll[d].word \in SlotWords /\ pll[d].alc \in 0..LastAlc
  BY DEF SynthInv, Paired, LoState
<1>2. slots' \in [Lo -> [Profiles -> SlotState]]
  BY <1>1, LoadedTyped DEF FastlockStore
<1> QED BY <1>2, QuietStep DEF FastlockStore, Counted, SynthInv, PowerInForce

\* Copying a profile touches neither LO.
LEMMA CopyStep ==
  ASSUME SynthInv, NEW d \in Lo, NEW p \in Profiles, NEW q \in Profiles, FastlockCopy(d, p, q)
  PROVE  StepKeeps
<1>1. slots[d][p].word \in SlotWords /\ slots[d][p].written \in 0..LastAlc
  BY DEF SynthInv, SlotState
<1>2. slots' \in [Lo -> [Profiles -> SlotState]]
  BY <1>1, LoadedTyped DEF FastlockCopy
<1> QED BY <1>2, QuietStep DEF FastlockCopy, Counted, SynthInv, PowerInForce

\* Power bits are those asked for.
LEMMA PowerdownStep ==
  ASSUME SynthInv, NEW d \in Lo, NEW o \in BOOLEAN, LoPowerdown(d, o)
  PROVE  StepKeeps
<1>1. off' \in [Lo -> BOOLEAN] /\ pd' \in [Lo -> SUBSET {"lo", "vco"}] /\ PowerInForce'
  BY DEF SynthInv, LoPowerdown, PowerInForce
<1> QED BY <1>1, QuietStep DEF LoPowerdown, Counted, SynthInv

\* A recall brings the stored word, with another ALC word than the one in force.
LEMMA RecallStep ==
  ASSUME SynthInv, NEW d \in Lo, NEW p \in Profiles, FastlockRecall(d, p)
  PROVE  StepKeeps
<1>1. /\ call'.op = "recall" /\ call'.lo = d /\ call'.arg = p
      /\ device' = device /\ ext' = ext /\ pd' = pd /\ off' = off
  BY DEF FastlockRecall, Counted
<1> DEFINE slot == slots[d][p]
           alc == OtherAlc(d, slot)
<1>2. pll \in [Lo -> LoState] /\ slot \in SlotState /\ LastAlc \in Nat /\ LastAlc >= 1
  BY SynthAssumption DEF SynthInv, Paired
<1> HIDE DEF slot
<1>3. alc \in 0..LastAlc /\ alc # CurrentAlc(d)
  <2>1. PICK o : o = slot.orig
    OBVIOUS
  <2>2. PICK u : u = slot.written
    OBVIOUS
  <2>3. o \in 0..LastAlc /\ u \in 0..LastAlc
    BY <1>2, <2>1, <2>2 DEF SlotState
  <2>4. (u + 1) % (LastAlc + 1) = IF u = LastAlc THEN 0 ELSE u + 1
    BY <1>2, <2>3
  <2> HIDE DEF alc
  <2>6. CASE CurrentAlc(d) # u
    <3>1. alc = u
      BY <2>2, <2>6 DEF OtherAlc, alc
    <3> QED BY <2>3, <2>6, <3>1
  <2>7. CASE CurrentAlc(d) = u /\ o = u
    <3>1. alc = IF u = LastAlc THEN 0 ELSE u + 1
      BY <2>1, <2>2, <2>4, <2>7 DEF OtherAlc, alc
    <3> QED BY <1>2, <2>3, <2>7, <3>1
  <2>8. CASE CurrentAlc(d) = u /\ o # u
    <3>1. alc = o
      BY <2>1, <2>2, <2>8 DEF OtherAlc, alc
    <3> QED BY <2>3, <2>8, <3>1
  <2> QED BY <2>6, <2>7, <2>8
<1>4. CASE slot = Empty
  <2>1. pll' = pll /\ slots' = slots
    BY <1>4 DEF FastlockRecall, slot
  <2>2. Paired(pll', ext')
    BY <1>1, <2>1 DEF SynthInv
  <2>3. SynthInv'
    BY <1>1, <2>1, <2>2, PairedNext DEF SynthInv, PowerInForce
  <2> QED BY <1>1, <1>4, <2>1, <2>3 DEF StepKeeps, SetsTheFrequency, LeavesTheOther, ChangesTheAlc, slot
<1>5. CASE slot # Empty
  <2> DEFINE r == [pll[d] EXCEPT !.profile = p + 1, !.force = slot.word, !.used = alc, !.bypass = TRUE]
  <2>1. slots' = [slots EXCEPT ![d][p].written = alc] /\ pll' = [pll EXCEPT ![d] = r]
    BY <1>5, Zenon DEF FastlockRecall, slot
  <2> HIDE DEF alc
  <2>2. slots' \in [Lo -> [Profiles -> SlotState]]
    <3>1. [slots[d][p] EXCEPT !.written = alc] \in SlotState
      BY <1>2, <1>3 DEF SlotState, slot
    <3> QED BY <2>1, <3>1 DEF SynthInv
  <2>3. p + 1 \in 1..8 /\ slot.word \in SlotWords /\ pll[d] \in LoState
    BY <1>2, SynthAssumption DEF SlotState
  <2>4. /\ r \in LoState /\ r.profile # 0 /\ r.bypass = TRUE /\ r.used = alc
        /\ r.word = pll[d].word /\ r.alc = pll[d].alc /\ r.tdd = pll[d].tdd
        /\ r.current = pll[d].current /\ r.cachedDiv = pll[d].cachedDiv
    <3> DEFINE b == [pll[d] EXCEPT !.bypass = TRUE]
               c == [b EXCEPT !.profile = p + 1, !.force = slot.word, !.used = alc]
    <3>1. /\ b \in LoState /\ b.bypass = TRUE
          /\ b.word = pll[d].word /\ b.alc = pll[d].alc /\ b.tdd = pll[d].tdd
          /\ b.current = pll[d].current /\ b.cachedDiv = pll[d].cachedDiv
      BY <2>3 DEF LoState
    <3>2. r = c
      BY <2>3 DEF LoState
    <3> HIDE DEF b, r
    <3>3. p + 1 \in 0..8
      BY <2>3
    <3>4. c \in LoState
      BY <1>3, <2>3, <3>1, <3>3, OnProfile, Zenon
    <3>5. /\ c.profile = p + 1 /\ c.bypass = b.bypass /\ c.used = alc
          /\ c.word = b.word /\ c.alc = b.alc /\ c.tdd = b.tdd
          /\ c.current = b.current /\ c.cachedDiv = b.cachedDiv
      BY <3>1 DEF LoState
    <3> HIDE DEF c
    <3> QED BY <2>3, <3>1, <3>2, <3>4, <3>5
  <2> HIDE DEF r
  <2>5. pll' \in [Lo -> LoState] /\ pll'[d] = r /\ pll'[Other(d)] = pll[Other(d)]
    BY <1>2, <2>1, <2>4, OtherFacts
  <2>6. Noted(pll[d], d, ext[d]) /\ Noted(pll[Other(d)], Other(d), ext[Other(d)]) /\ Matched(pll)
    BY OtherFacts DEF SynthInv, Paired
  <2>7. Noted(r, d, ext[d])
    BY <2>4, <2>6 DEF Noted
  <2>8. Paired(pll', ext)
    <3>1. \A x \in Lo : Noted(pll'[x], x, ext[x])
      BY <2>5, <2>6, <2>7, OtherFacts
    <3>2. Matched(pll')
      BY <2>4, <2>5, <2>6, OtherFacts DEF Matched, Lo
    <3> QED BY <2>5, <3>1, <3>2 DEF Paired
  <2>9. SynthInv'
    <3>1. Paired(pll, ext)'
      BY <1>1, <2>8, PairedNext
    <3> QED BY <1>1, <2>2, <3>1 DEF SynthInv, PowerInForce
  <2>10. ChangesTheAlc
    <3>1. pll[d].profile = 0 => CurrentAlc(d) = pll[d].used
      BY <2>6 DEF CurrentAlc, Noted
    <3>2. pll[d].profile # 0 /\ slots[d][pll[d].profile - 1].written = pll[d].used
            => CurrentAlc(d) = pll[d].used
      BY DEF CurrentAlc
    <3> QED BY <1>1, <1>3, <2>4, <2>5, <3>1, <3>2 DEF ChangesTheAlc
  <2> QED BY <1>1, <2>5, <2>9, <2>10 DEF StepKeeps, SetsTheFrequency, LeavesTheOther
<1> QED BY <1>4, <1>5

\* Every call keeps the invariant and does what it says.
LEMMA SynthStep == SynthInv /\ SynthNext => StepKeeps
<1> SUFFICES ASSUME SynthInv, SynthNext
             PROVE  StepKeeps
  OBVIOUS
<1> QED BY SetLoFreqStep, SetLoIntExtStep, StoreStep, CopyStep, RecallStep, PowerdownStep DEF SynthNext

\* After any calls in any order: the VCO tables match the pair of LOs, the power bits
\* and the lock bypass are as asked, a frequency that is taken is in force and read
\* back, the other LO stays where it was, and a recall changes the ALC word
\* (ad9361.c ad9361_rfpll_int_set_rate(), ad9361_fastlock_recall()).
THEOREM SynthesisersInForce == SynthSpec => SynthInForce
<1>1. SynthInv /\ [SynthNext]_synthVars => SynthInv'
  <2>1. SynthInv /\ UNCHANGED synthVars => SynthInv'
    <3> SUFFICES ASSUME SynthInv, UNCHANGED synthVars
                 PROVE  SynthInv'
      OBVIOUS
    <3>1. pll' = pll /\ ext' = ext /\ device' = device /\ slots' = slots /\ off' = off /\ pd' = pd
      BY DEF synthVars
    <3>2. Paired(pll', ext')
      BY <3>1 DEF SynthInv
    <3> QED BY <3>1, <3>2, PairedNext DEF SynthInv, PowerInForce
  <2> QED BY <2>1, SynthStep DEF StepKeeps
<1>2. SynthInv => TablesMatch /\ PowerInForce /\ BypassTracked
  <2> SUFFICES ASSUME SynthInv
               PROVE  TablesMatch /\ BypassTracked
    BY DEF SynthInv
  <2>1. Matched(pll)
    BY DEF SynthInv, Paired
  <2>2. \A d \in Lo : Noted(pll[d], d, ext[d])
    BY DEF SynthInv, Paired
  <2> QED BY <2>1, <2>2, Zenon DEF Matched, Noted, TablesMatch, BypassTracked
<1>3. SynthInv /\ [SynthNext]_synthVars => [SetsTheFrequency]_synthVars
  BY SynthStep DEF StepKeeps
<1>4. SynthInv /\ [SynthNext]_synthVars => [LeavesTheOther]_synthVars
  BY SynthStep DEF StepKeeps
<1>5. SynthInv /\ [SynthNext]_synthVars => [ChangesTheAlc]_synthVars
  BY SynthStep DEF StepKeeps
<1>6. LoAsAsked <=> [][SetsTheFrequency]_synthVars
  BY DEF LoAsAsked, SetsTheFrequency
<1>7. OtherKept <=> [][LeavesTheOther]_synthVars
  BY DEF OtherKept, LeavesTheOther
<1>8. RecallChangesAlc <=> [][ChangesTheAlc]_synthVars
  BY DEF RecallChangesAlc, ChangesTheAlc
<1>9. QED
  BY SynthInitial, <1>1, <1>2, <1>3, <1>4, <1>5, <1>6, <1>7, <1>8, PTL DEF SynthSpec, SynthInForce

-----------------------------------------------------------------------------
(* The chain of clocks (Clocks).  Stages are counted as there: 1 is the ADC *)
(* or the DAC, 5 the FIR filter.                                           *)

Stages == 1..5

\* What a stage divides by, and the fields it has.
Divisors(side, i) ==
  IF i = 1 THEN IF side = "rx" THEN {2, 4, 8, 16, 32, 64} ELSE 1..2
  ELSE IF i = 2 THEN 1..3 ELSE IF i = 5 THEN {1, 2, 4} ELSE 1..2

FieldsOf(side, i) ==
  IF i = 1 /\ side = "rx" THEN 2..64 ELSE IF i = 2 THEN 1..3 ELSE IF i = 5 THEN 0..3 ELSE 1..2

\* The registers hold fields they have.
ChipOK(c) ==
  /\ c \in [bbpll : MinBbpll..MaxBbpll, rx : [Stages -> 0..64], tx : [Stages -> 0..64]]
  /\ \A side \in Sides : \A i \in Stages : c[side][i] \in FieldsOf(side, i)

\* What a field divides by.
Division(i, field) == IF i = 5 THEN Divides(field) ELSE field

\* Registers c and what is remembered of them.
Reads(s) == s = [chip |-> s.chip, cached |-> s.cached] /\ ChipOK(s.chip) /\ s.cached = ReadBack(s.chip)

\* A FIR filter that is on divides by what the part can.
FirsOK(firs) ==
  /\ firs \in [Sides -> [on : BOOLEAN, by : {0, 1, 2, 4}, taps : Nat]]
  /\ \A side \in Sides : firs[side].on => firs[side].by \in {1, 2, 4}

\* The three codes of a FIR's field and what they divide by, there and back.
LEMMA FirFields ==
  /\ Divides(0) = 1 /\ Divides(1) = 1 /\ Divides(2) = 2 /\ Divides(3) = 4
  /\ \A by \in {1, 2, 4} : Divider(by) \in 1..3 /\ Divides(Divider(by)) = by
  /\ \A f \in 0..3 : Divides(f) \in {1, 2, 4} /\ (Divides(f) # 1 => f = Divider(Divides(f)))
  /\ Divider(1) = 1
<1>1. Divides(0) = 1 /\ Divides(1) = 1 /\ Divides(2) = 2 /\ Divides(3) = 4
  BY DEF Divides
<1>2. \A f \in 1..3 : f = 1 \/ f = 2 \/ f = 3
  OBVIOUS
<1>3. 1 \in 1..3 /\ 2 \in 1..3 /\ 3 \in 1..3
  OBVIOUS
<1>4. Divider(1) = 1 /\ Divider(2) = 2 /\ Divider(4) = 3
  BY <1>1, <1>2, <1>3 DEF Divider
<1>5. \A f \in 0..3 : f = 0 \/ f = 1 \/ f = 2 \/ f = 3
  OBVIOUS
<1> QED BY <1>1, <1>3, <1>4, <1>5

\* A stage's clock is its parent's, divided.
LEMMA Reading ==
  ASSUME NEW c, ChipOK(c), NEW side \in Sides, NEW i \in Stages
  PROVE  ReadBack(c)[side][i] = Parent(ReadBack(c), side, i) \div Division(i, c[side][i])
<1>1. i = 1 \/ i = 2 \/ i = 3 \/ i = 4 \/ i = 5
  BY DEF Stages
<1>2. CASE side = "rx"
  BY <1>1, <1>2 DEF ReadBack, Parent, Division, Through
<1>3. CASE side = "tx"
  BY <1>1, <1>3 DEF ReadBack, Parent, Division, Through
<1> QED BY <1>2, <1>3 DEF Sides

\* A field changes its own stage's clock and those below it.
LEMMA Unchanged ==
  ASSUME NEW c, ChipOK(c), NEW e, ChipOK(e), NEW side \in Sides, NEW i \in Stages,
         e.bbpll = c.bbpll,
         \A t \in Sides : \A j \in Stages : t # side \/ j # i => e[t][j] = c[t][j]
  PROVE  /\ ReadBack(e).bbpll = ReadBack(c).bbpll
         /\ Parent(ReadBack(e), side, i) = Parent(ReadBack(c), side, i)
         /\ \A t \in Sides : \A j \in Stages :
              (t = side /\ j < i) \/ (t # side /\ (side = "tx" \/ i # 1)) => ReadBack(e)[t][j] = ReadBack(c)[t][j]
<1>1. i = 1 \/ i = 2 \/ i = 3 \/ i = 4 \/ i = 5
  BY DEF Stages
<1>2. \A j \in Stages : j = 1 \/ j = 2 \/ j = 3 \/ j = 4 \/ j = 5
  BY DEF Stages
<1>3. 1 \in Stages /\ 2 \in Stages /\ 3 \in Stages /\ 4 \in Stages /\ 5 \in Stages
  BY DEF Stages
<1>4. CASE side = "rx"
  <2>1. \A j \in Stages : e.tx[j] = c.tx[j]
    BY <1>4 DEF Sides
  <2>2. \A j \in Stages : j # i => e.rx[j] = c.rx[j]
    BY <1>4 DEF Sides
  <2> QED BY <1>1, <1>2, <1>3, <1>4, <2>1, <2>2 DEF ReadBack, Parent, Through, Sides
<1>5. CASE side = "tx"
  <2>1. \A j \in Stages : e.rx[j] = c.rx[j]
    BY <1>5 DEF Sides
  <2>2. \A j \in Stages : j # i => e.tx[j] = c.tx[j]
    BY <1>5 DEF Sides
  <2> QED BY <1>1, <1>2, <1>3, <1>5, <2>1, <2>2 DEF ReadBack, Parent, Through, Sides
<1> QED BY <1>4, <1>5 DEF Sides

\* A division that leaves enough is found again by rounding.
LEMMA RoundedBack ==
  ASSUME NEW p \in Nat, NEW d \in Nat \ {0}, NEW q \in Nat \ {0}, q = p \div d, 2 * d <= q
  PROVE  /\ d = 1 => q = p
         /\ q >= p => d = 1 /\ Rounded(q, p) = 1
         /\ q < p => Rounded(p, q) = d
<1>1. PICK k \in Nat, s \in 0..(d - 1) : p \div d = k /\ p = d * k + s
  BY DivFacts
<1>2. p = d * q + s
  BY <1>1
<1>3. d = 1 => q = p
  BY <1>2
<1>4. d # 1 => q < p
  <2>1. SUFFICES ASSUME d # 1 PROVE q < p
    OBVIOUS
  <2>2. q * 2 <= q * d
    BY <2>1, Times
  <2>3. q * d = d * q
    OBVIOUS
  <2> QED BY <1>2, <2>2, <2>3
<1>5. PICK h \in Nat, t \in 0..(2 - 1) : q \div 2 = h /\ q % 2 = t /\ q = 2 * h + t
  <2>1. 2 \in Nat \ {0} /\ q \in Nat
    OBVIOUS
  <2> QED BY <2>1, DivFacts
<1>6. Rounded(p, q) = d
  <2>1. q * d = d * q /\ p + h \in Nat
    OBVIOUS
  <2>2. q * d <= p + h /\ p + h < q * d + q
    BY <1>2, <1>5, <2>1
  <2>3. (p + h) \div q = d
    BY <2>1, <2>2, Quotient
  <2> QED BY <2>3, <1>5 DEF Rounded
<1> QED BY <1>3, <1>4, <1>6

\* Every division a stage has is a field.
LEMMA DivisionHasField ==
  ASSUME NEW side \in Sides, NEW i \in Stages, NEW d \in Divisors(side, i), NEW on \in BOOLEAN,
         i = 5 /\ ~on => d = 1
  PROVE  \E f \in FieldsOf(side, i) : Fields(side, i, d, on) = {f} /\ Division(i, f) = d
<1>1. CASE i = 1 /\ side = "rx"
  <2>1. Fields(side, i, d, on) = {p \in {2, 4, 8, 16, 32, 64} : p <= d /\ d < 2 * p}
    BY <1>1 DEF Fields
  <2>2. d \in {2, 4, 8, 16, 32, 64}
    BY <1>1 DEF Divisors
  <2>3. \A p \in {2, 4, 8, 16, 32, 64} : p <= d /\ d < 2 * p <=> p = d
    BY <2>2
  <2>4. {p \in {2, 4, 8, 16, 32, 64} : p <= d /\ d < 2 * p} = {d}
    BY <2>2, <2>3
  <2>5. d \in FieldsOf(side, i)
    BY <1>1, <2>2 DEF FieldsOf
  <2> QED BY <1>1, <2>1, <2>4, <2>5 DEF Division
<1>2. CASE i = 2
  <2>1. Fields(side, i, d, on) = {d} \cap 1..3
    BY <1>2 DEF Fields
  <2>2. d \in 1..3
    BY <1>2 DEF Divisors
  <2>3. {d} \cap 1..3 = {d}
    BY <2>2
  <2> QED BY <1>2, <2>1, <2>2, <2>3 DEF Division, FieldsOf
<1>3. CASE i = 5
  <2>1. Fields(side, i, d, on) = {IF on THEN Divider(by) ELSE 0 : by \in {d} \cap {1, 2, 4}}
    BY <1>3 DEF Fields
  <2>2. d \in {1, 2, 4}
    BY <1>3 DEF Divisors
  <2>3. {d} \cap {1, 2, 4} = {d}
    BY <2>2
  <2>4. Fields(side, i, d, on) = {IF on THEN Divider(d) ELSE 0}
    BY <2>1, <2>3
  <2>5. Divider(d) \in 1..3 /\ Divides(Divider(d)) = d /\ Divides(0) = 1
    BY <2>2, FirFields
  <2>6. 0 \in 0..3 /\ \A f \in 1..3 : f \in 0..3
    OBVIOUS
  <2> QED BY <1>3, <2>4, <2>5, <2>6 DEF Division, FieldsOf
<1>4. CASE i \in 3..4 \/ (i = 1 /\ side = "tx")
  <2>1. Fields(side, i, d, on) = {d} \cap 1..2
    BY <1>4 DEF Fields
  <2>2. d \in 1..2
    BY <1>4 DEF Divisors
  <2>3. {d} \cap 1..2 = {d}
    BY <2>2
  <2> QED BY <1>4, <2>1, <2>2, <2>3 DEF Division, FieldsOf
<1> QED BY <1>1, <1>2, <1>3, <1>4 DEF Stages, Sides

\* Setting a stage to its parent's rate divided sets it, and nothing above it.
Follows(t, s, side, i, rate) ==
  /\ Reads(t) /\ t.cached[side][i] = rate /\ t.cached.bbpll = s.cached.bbpll
  /\ \A u \in Sides : \A j \in Stages :
       (u = side /\ j < i) \/ (u # side /\ (side = "tx" \/ i # 1)) => t.cached[u][j] = s.cached[u][j]

\* A clock set to a quotient of its parent's rate finds the division it came from, and what is above it stays.
LEMMA SetsStage ==
  ASSUME NEW s, Reads(s), NEW side \in Sides, NEW i \in Stages, NEW on \in BOOLEAN,
         NEW d \in Divisors(side, i), i = 5 /\ ~on => d = 1,
         NEW p \in Nat, p = Parent(s.cached, side, i),
         NEW rate \in Nat \ {0}, rate = p \div d, 2 * d <= rate
  PROVE  Follows(SetClock(s, side, i, rate, on), s, side, i, rate)
<1>1. CASE s.cached[side][i] = rate
  <2>1. SetClock(s, side, i, rate, on) = s
    BY <1>1 DEF SetClock
  <2> QED BY <1>1, <2>1 DEF Follows
<1>2. CASE s.cached[side][i] # rate
  <2>1. PICK f \in FieldsOf(side, i) : Fields(side, i, d, on) = {f} /\ Division(i, f) = d
    BY DivisionHasField
  <2> DEFINE e == [s.chip EXCEPT ![side][i] = f]
  <2>2. SetClock(s, side, i, rate, on) = [chip |-> e, cached |-> ReadBack(e)]
    <3>1. d \in Nat \ {0}
      BY DEF Divisors
    <3>2. /\ rate >= p => d = 1 /\ Rounded(rate, p) = 1
          /\ rate < p => Rounded(p, rate) = d
      BY <3>1, RoundedBack
    <3> DEFINE fields == IF rate >= p THEN IF Rounded(rate, p) = 1 THEN Fields(side, i, 1, on) ELSE {}
                         ELSE Fields(side, i, Rounded(p, rate), on)
    <3>3. fields = {f}
      BY <2>1, <3>2
    <3>4. SetClock(s, side, i, rate, on) =
            LET c == IF fields = {} THEN s.chip ELSE [s.chip EXCEPT ![side][i] = CHOOSE x \in fields : TRUE]
            IN  [chip |-> c, cached |-> ReadBack(c)]
      BY <1>2 DEF SetClock
    <3>5. fields # {} /\ (CHOOSE x \in fields : TRUE) = f
      BY <3>3
    <3> QED BY <3>4, <3>5
  <2>3. ChipOK(e) /\ e.bbpll = s.chip.bbpll /\ e[side][i] = f
    <3>1. f \in 0..64
      BY DEF FieldsOf
    <3>2. PICK B, R : /\ B = MinBbpll..MaxBbpll /\ R = [Stages -> 0..64]
                      /\ s.chip \in [bbpll : B, rx : R, tx : R]
      BY ZenonT(60) DEF Reads, ChipOK
    <3>3. [s.chip[side] EXCEPT ![i] = f] \in [Stages -> 0..64]
      BY <3>1, <3>2 DEF Sides
    <3>4. e = [s.chip EXCEPT ![side] = [s.chip[side] EXCEPT ![i] = f]]
      OBVIOUS
    <3>5. e \in [bbpll : B, rx : R, tx : R]
      BY <3>2, <3>3, <3>4 DEF Sides
    <3>6. e.bbpll = s.chip.bbpll /\ e[side] = [s.chip[side] EXCEPT ![i] = f]
      BY <3>2, <3>4 DEF Sides
    <3>7. \A u \in Sides : u # side => e[u] = s.chip[u]
      BY <3>2, <3>4 DEF Sides
    <3>8. \A u \in Sides : s.chip[u] \in [Stages -> 0..64]
      BY <3>2 DEF Sides
    <3>9. e[side][i] = f /\ \A j \in Stages : j # i => e[side][j] = s.chip[side][j]
      BY <3>6, <3>8
    <3>10. \A u \in Sides : \A j \in Stages : e[u][j] \in FieldsOf(u, j)
      BY <3>7, <3>9 DEF Reads, ChipOK
    <3> QED BY <3>2, <3>5, <3>6, <3>9, <3>10 DEF ChipOK
  <2>5. \A u \in Sides : \A j \in Stages : u # side \/ j # i => e[u][j] = s.chip[u][j]
    <3>1. \A u \in Sides : s.chip[u] \in [Stages -> 0..64] /\ u \in DOMAIN s.chip
      BY DEF Reads, ChipOK, Sides
    <3> QED BY <3>1
  <2> HIDE DEF e
  <2>6. ReadBack(e)[side][i] = Parent(ReadBack(e), side, i) \div Division(i, e[side][i])
    BY <2>3, Reading
  <2>7. /\ ReadBack(e).bbpll = ReadBack(s.chip).bbpll
        /\ Parent(ReadBack(e), side, i) = Parent(ReadBack(s.chip), side, i)
        /\ \A u \in Sides : \A j \in Stages :
             (u = side /\ j < i) \/ (u # side /\ (side = "tx" \/ i # 1))
               => ReadBack(e)[u][j] = ReadBack(s.chip)[u][j]
    BY <2>3, <2>5, Unchanged DEF Reads
  <2>8. ReadBack(e)[side][i] = rate
    BY <2>1, <2>3, <2>6, <2>7 DEF Reads
  <2> QED BY <2>2, <2>3, <2>7, <2>8 DEF Follows, Reads
<1> QED BY <1>1, <1>2

-----------------------------------------------------------------------------
(* A chain is written exactly. *)

\* A chain whose rates are divisions the stages have, of rates that leave enough.
Writable(chain, firs) ==
  /\ chain.bbpll \in MinBbpll..MaxBbpll
  /\ chain.rx \in [Stages -> Nat \ {0}] /\ chain.tx \in [Stages -> Nat \ {0}]
  /\ \A side \in Sides, i \in Stages :
       \E d \in Divisors(side, i) :
         /\ chain[side][i] = Parent(chain, side, i) \div d /\ 2 * d <= chain[side][i]
         /\ i = 5 => d = By(firs[side])

\* The first k stages are those of the chain.
Set(s, chain, k) ==
  /\ Reads(s) /\ s.cached.bbpll = chain.bbpll
  /\ \A side \in Sides, j \in 1..k : s.cached[side][j] = chain[side][j]

\* A chain that can be written has its types.
LEMMA FitsTyped ==
  ASSUME NEW firs, NEW chain, Writable(chain, firs)
  PROVE  /\ chain.bbpll \in MinBbpll..MaxBbpll /\ chain.bbpll \in Nat
         /\ chain.rx \in [Stages -> Nat \ {0}] /\ chain.tx \in [Stages -> Nat \ {0}]
<1>1. /\ chain.bbpll \in MinBbpll..MaxBbpll
      /\ chain.rx \in [Stages -> Nat \ {0}] /\ chain.tx \in [Stages -> Nat \ {0}]
  BY Zenon DEF Writable
<1>2. PICK n \in MinBbpll..MaxBbpll : n = chain.bbpll
  BY <1>1, Zenon
<1>3. n \in Nat
  BY DEF MinBbpll, MaxBbpll
<1> QED BY <1>1, <1>2, <1>3, Zenon

\* The BBPLL is set first, and the chain holds down to it.
LEMMA BbpllSet ==
  ASSUME NEW s, Reads(s), NEW firs, NEW chain, Writable(chain, firs)
  PROVE  Set(SetBbpll(s, chain.bbpll), chain, 0)
<1>1. CASE s.cached.bbpll = chain.bbpll
  BY <1>1 DEF Set, SetBbpll
<1>2. CASE s.cached.bbpll # chain.bbpll
  <2>1. PICK n \in MinBbpll..MaxBbpll : n = chain.bbpll
    BY FitsTyped, Zenon
  <2> DEFINE e == [s.chip EXCEPT !.bbpll = n]
  <2>2. SetBbpll(s, chain.bbpll) = [chip |-> e, cached |-> ReadBack(e)]
    <3> HIDE DEF e
    <3>1. (IF n > MaxBbpll THEN MaxBbpll
           ELSE IF n < MinBbpll THEN MinBbpll ELSE n) = n
      BY DEF MinBbpll, MaxBbpll
    <3> QED BY <1>2, <2>1, <3>1, Zenon DEF SetBbpll, e
  <2>3. ChipOK(e) /\ e.bbpll = n
    <3>1. PICK B, R : /\ B = MinBbpll..MaxBbpll /\ R = [Stages -> 0..64]
                      /\ s.chip \in [bbpll : B, rx : R, tx : R] /\ n \in B
      BY <2>1 DEF Reads, ChipOK
    <3>2. e \in [bbpll : B, rx : R, tx : R] /\ e.bbpll = n /\ e.rx = s.chip.rx /\ e.tx = s.chip.tx
      BY <3>1
    <3> QED BY <3>1, <3>2 DEF ChipOK, Reads, Sides
  <2>4. ReadBack(e).bbpll = e.bbpll
    BY DEF ReadBack
  <2> HIDE DEF e
  <2> QED BY <2>1, <2>2, <2>3, <2>4 DEF Set, Reads
<1> QED BY <1>1, <1>2

\* One clock further down, the chain holds so far.
LEMMA StageSet ==
  ASSUME NEW k \in Stages, NEW s, NEW firs, FirsOK(firs), NEW chain, Writable(chain, firs), Set(s, chain, k - 1)
  PROVE  Set(Stage(s, k, chain, firs), chain, k)
<1> DEFINE r == SetClock(s, "rx", k, chain.rx[k], firs.rx.on)
           t == SetClock(r, "tx", k, chain.tx[k], firs.tx.on)
<1>0. "rx" \in Sides /\ "tx" \in Sides /\ firs.rx.on \in BOOLEAN /\ firs.tx.on \in BOOLEAN
  BY DEF Sides, FirsOK
<1>1. Follows(r, s, "rx", k, chain.rx[k])
  <2>1. PICK d \in Divisors("rx", k) : /\ chain.rx[k] = Parent(chain, "rx", k) \div d /\ 2 * d <= chain.rx[k]
                                       /\ k = 5 => d = By(firs.rx)
    BY <1>0 DEF Writable
  <2>2. Parent(s.cached, "rx", k) = Parent(chain, "rx", k)
    BY DEF Parent, Set, Stages, Sides
  <2>3. Parent(chain, "rx", k) \in Nat /\ chain.rx[k] \in Nat \ {0}
    <3>1. chain.bbpll \in Nat /\ chain.rx \in [Stages -> Nat \ {0}] /\ chain.tx \in [Stages -> Nat \ {0}]
      BY FitsTyped
    <3>2. 1 \in Stages /\ (k > 1 => k - 1 \in Stages)
      BY DEF Stages
    <3> QED BY <3>1, <3>2 DEF Parent
  <2>4. ASSUME k = 5, ~firs.rx.on PROVE d = 1
    <3>1. By(firs.rx) = 1
      BY <2>4 DEF By
    <3> QED BY <2>1, <2>4, <3>1
  <2> QED BY <1>0, <2>1, <2>2, <2>3, <2>4, SetsStage DEF Set
<1> HIDE DEF r
<1>2. \A j \in 1..k : r.cached.rx[j] = chain.rx[j]
  BY <1>0, <1>1 DEF Follows, Set, Stages
<1>3. \A j \in 1..(k - 1) : r.cached.tx[j] = chain.tx[j]
  BY <1>0, <1>1 DEF Follows, Set, Stages
<1>4. Follows(t, r, "tx", k, chain.tx[k])
  <2>1. PICK d \in Divisors("tx", k) : /\ chain.tx[k] = Parent(chain, "tx", k) \div d /\ 2 * d <= chain.tx[k]
                                       /\ k = 5 => d = By(firs.tx)
    BY <1>0 DEF Writable
  <2>2. Parent(r.cached, "tx", k) = Parent(chain, "tx", k)
    BY <1>2, <1>3 DEF Parent, Stages
  <2>3. Parent(chain, "tx", k) \in Nat /\ chain.tx[k] \in Nat \ {0}
    <3>1. chain.bbpll \in Nat /\ chain.rx \in [Stages -> Nat \ {0}] /\ chain.tx \in [Stages -> Nat \ {0}]
      BY FitsTyped
    <3>2. 1 \in Stages /\ (k > 1 => k - 1 \in Stages)
      BY DEF Stages
    <3> QED BY <3>1, <3>2 DEF Parent
  <2>4. ASSUME k = 5, ~firs.tx.on PROVE d = 1
    <3>1. By(firs.tx) = 1
      BY <2>4 DEF By
    <3> QED BY <2>1, <2>4, <3>1
  <2> QED BY <1>0, <1>1, <2>1, <2>2, <2>3, <2>4, SetsStage DEF Follows
<1>5. Stage(s, k, chain, firs) = t
  BY DEF Stage, r
<1> HIDE DEF t
<1>6. \A j \in 1..k : t.cached.tx[j] = chain.tx[j]
  BY <1>0, <1>3, <1>4 DEF Follows, Stages
<1>7. \A j \in 1..k : t.cached.rx[j] = chain.rx[j]
  BY <1>0, <1>2, <1>4 DEF Follows, Stages
<1> QED BY <1>1, <1>4, <1>5, <1>6, <1>7 DEF Set, Follows, Sides

\* By hand, a filter's field becomes the one of what it divides by, which changes no rate.
LEMMA FiltersByHand ==
  ASSUME NEW c, ChipOK(c), NEW firs, FirsOK(firs),
         \A side \in Sides : Divides(c[side][5]) = By(firs[side])
  PROVE  LET e == ByHand(c, firs)
         IN  /\ ChipOK(e) /\ ReadBack(e) = ReadBack(c)
             /\ \A side \in Sides : e[side][5] = IF firs[side].on THEN Divider(firs[side].by) ELSE 0
<1> DEFINE Field(side) == IF ~firs[side].on THEN 0 ELSE IF firs[side].by = 1 THEN 1 ELSE c[side][5]
<1>1. PICK F, G : F = Field("rx") /\ G = Field("tx")
  OBVIOUS
<1>2. \A side \in Sides :
        /\ Field(side) \in 0..3 /\ Divides(Field(side)) = Divides(c[side][5])
        /\ Field(side) = IF firs[side].on THEN Divider(firs[side].by) ELSE 0
  <2> SUFFICES ASSUME NEW side \in Sides
               PROVE  /\ Field(side) \in 0..3 /\ Divides(Field(side)) = Divides(c[side][5])
                      /\ Field(side) = IF firs[side].on THEN Divider(firs[side].by) ELSE 0
    OBVIOUS
  <2>1. PICK f \in 0..3 : f = c[side][5]
    BY DEF ChipOK, FieldsOf, Stages
  <2>2. Divides(f) = By(firs[side])
    BY <2>1
  <2>3. CASE ~firs[side].on
    <3>1. Field(side) = 0 /\ By(firs[side]) = 1
      BY <2>3, Zenon DEF By
    <3> QED BY <2>1, <2>2, <2>3, <3>1, FirFields
  <2>4. CASE firs[side].on
    <3>1. PICK by \in {1, 2, 4} : by = firs[side].by
      BY <2>4 DEF FirsOK
    <3>2. By(firs[side]) = by
      BY <2>4, <3>1 DEF By
    <3>3. Field(side) = IF by = 1 THEN 1 ELSE f
      BY <2>1, <2>4, <3>1
    <3>4. (IF by = 1 THEN 1 ELSE f) = Divider(by) /\ Divides(IF by = 1 THEN 1 ELSE f) = by
      BY <2>2, <3>2, FirFields
    <3>5. (IF by = 1 THEN 1 ELSE f) \in 0..3
      OBVIOUS
    <3> QED BY <2>1, <2>2, <2>4, <3>1, <3>2, <3>3, <3>4, <3>5
  <2> QED BY <2>3, <2>4
<1> HIDE DEF Field
<1> DEFINE e == [c EXCEPT !.rx[5] = F, !.tx[5] = G]
<1>3. ByHand(c, firs) = e
  BY <1>1 DEF ByHand, Field
<1>4. F \in 0..3 /\ G \in 0..3
  BY <1>1, <1>2 DEF Sides
<1>5. PICK B, R : /\ B = MinBbpll..MaxBbpll /\ R = [Stages -> 0..64]
                  /\ c \in [bbpll : B, rx : R, tx : R]
  BY DEF ChipOK
<1>6. PICK x, y : x = [c.rx EXCEPT ![5] = F] /\ y = [c.tx EXCEPT ![5] = G]
  OBVIOUS
<1>7. x \in R /\ y \in R
  <2>1. F \in 0..64 /\ G \in 0..64
    BY <1>4
  <2> QED BY <1>5, <1>6, <2>1
<1>8. e = [c EXCEPT !.rx = x, !.tx = y]
  BY <1>5, <1>6
<1>9. e \in [bbpll : B, rx : R, tx : R] /\ e.bbpll = c.bbpll /\ e.rx = x /\ e.tx = y
  BY <1>5, <1>7, <1>8
<1> HIDE DEF e
<1>10. /\ e.rx[5] = F /\ \A j \in Stages : j # 5 => e.rx[j] = c.rx[j]
       /\ e.tx[5] = G /\ \A j \in Stages : j # 5 => e.tx[j] = c.tx[j]
  BY <1>5, <1>6, <1>9 DEF Stages
<1>11. ChipOK(e)
  <2>1. \A side \in Sides : \A i \in Stages : e[side][i] \in FieldsOf(side, i)
    <3>1. \A i \in Stages : e.rx[i] \in FieldsOf("rx", i)
      BY <1>4, <1>10 DEF ChipOK, FieldsOf, Sides
    <3>2. \A i \in Stages : e.tx[i] \in FieldsOf("tx", i)
      BY <1>4, <1>10 DEF ChipOK, FieldsOf, Sides
    <3> QED BY <3>1, <3>2 DEF Sides
  <2> QED BY <1>5, <1>9, <2>1 DEF ChipOK
<1>12. Divides(e.rx[5]) = Divides(c.rx[5]) /\ Divides(e.tx[5]) = Divides(c.tx[5])
  BY <1>1, <1>2, <1>10 DEF Sides
<1>13. ReadBack(e) = ReadBack(c)
  <2>1. 1 \in Stages /\ 2 \in Stages /\ 3 \in Stages /\ 4 \in Stages
    BY DEF Stages
  <2>2. \A p : Through(p, e.rx) = Through(p, c.rx) /\ Through(p, e.tx) = Through(p, c.tx)
    BY <1>10, <1>12, <2>1 DEF Through
  <2> QED BY <1>9, <2>2 DEF ReadBack
<1>14. \A side \in Sides : e[side][5] = IF firs[side].on THEN Divider(firs[side].by) ELSE 0
  BY <1>1, <1>2, <1>10 DEF Sides
<1> QED BY <1>3, <1>11, <1>13, <1>14

\* What is written is the chain, with the filters in force.
LEMMA WrittenIsChain ==
  ASSUME NEW c, ChipOK(c), NEW rates, rates = ReadBack(c), NEW firs, FirsOK(firs), NEW chain, Writable(chain, firs)
  PROVE  LET w == Written(c, rates, chain, firs)
         IN  /\ w = [chip |-> w.chip, cached |-> w.cached]
             /\ ChipOK(w.chip) /\ w.cached = ReadBack(w.chip)
             /\ \A side \in Sides : \A i \in Stages : w.cached[side][i] = chain[side][i]
             /\ \A side \in Sides : w.chip[side][5] = IF firs[side].on THEN Divider(firs[side].by) ELSE 0
<1>0. PICK s : s = [chip |-> c, cached |-> rates]
  OBVIOUS
<1>1. Reads(s)
  BY <1>0 DEF Reads
<1>2. PICK s0 : s0 = SetBbpll(s, chain.bbpll)
  OBVIOUS
<1>3. PICK s1 : s1 = Stage(s0, 1, chain, firs)
  OBVIOUS
<1>4. PICK s2 : s2 = Stage(s1, 2, chain, firs)
  OBVIOUS
<1>5. PICK s3 : s3 = Stage(s2, 3, chain, firs)
  OBVIOUS
<1>6. PICK s4 : s4 = Stage(s3, 4, chain, firs)
  OBVIOUS
<1>7. PICK s5 : s5 = Stage(s4, 5, chain, firs)
  OBVIOUS
<1>8. /\ 1 \in Stages /\ 2 \in Stages /\ 3 \in Stages /\ 4 \in Stages /\ 5 \in Stages
      /\ 1 - 1 = 0 /\ 2 - 1 = 1 /\ 3 - 1 = 2 /\ 4 - 1 = 3 /\ 5 - 1 = 4
  BY DEF Stages
<1>9. Set(s0, chain, 0)
  BY <1>1, <1>2, BbpllSet
<1>10. Set(s1, chain, 1)
  BY <1>3, <1>8, <1>9, StageSet
<1>11. Set(s2, chain, 2)
  BY <1>4, <1>8, <1>10, StageSet
<1>12. Set(s3, chain, 3)
  BY <1>5, <1>8, <1>11, StageSet
<1>13. Set(s4, chain, 4)
  BY <1>6, <1>8, <1>12, StageSet
<1>14. Set(s5, chain, 5)
  BY <1>7, <1>8, <1>13, StageSet
<1>15. Reads(s5) /\ \A side \in Sides : \A i \in Stages : s5.cached[side][i] = chain[side][i]
  BY <1>14 DEF Set, Stages
<1>16. \A side \in Sides : Divides(s5.chip[side][5]) = By(firs[side])
  <2> SUFFICES ASSUME NEW side \in Sides PROVE Divides(s5.chip[side][5]) = By(firs[side])
    OBVIOUS
  <2>1. PICK f \in 0..3 : f = s5.chip[side][5]
    BY <1>8, <1>15 DEF Reads, ChipOK, FieldsOf
  <2>2. PICK d \in Divisors(side, 5) : /\ chain[side][5] = Parent(chain, side, 5) \div d
                                       /\ 2 * d <= chain[side][5] /\ d = By(firs[side])
    BY <1>8 DEF Writable
  <2>3. PICK p, q \in Nat : p = chain[side][4] /\ q = chain[side][5]
    BY <1>8, FitsTyped DEF Sides
  <2>4. Parent(chain, side, 5) = p /\ Parent(s5.cached, side, 5) = p /\ s5.cached[side][5] = q
    BY <1>8, <1>15, <2>3 DEF Parent
  <2>5. q = p \div Divides(f)
    BY <1>8, <1>15, <2>1, <2>4, Reading DEF Division, Reads
  <2>6. d \in {1, 2, 4} /\ q = p \div d /\ 2 * d <= q
    BY <2>2, <2>3, <2>4 DEF Divisors
  <2>7. Divides(f) = d
    <3>1. PICK g \in {1, 2, 4} : g = Divides(f)
      BY FirFields
    <3>2. q = p \div g
      BY <2>5, <3>1
    <3> QED BY <2>3, <2>6, <3>1, <3>2
  <2> QED BY <2>1, <2>2, <2>7
<1>17. Written(c, rates, chain, firs) = [chip |-> ByHand(s5.chip, firs), cached |-> s5.cached]
  BY <1>0, <1>2, <1>3, <1>4, <1>5, <1>6, <1>7 DEF Written
<1> QED BY <1>15, <1>16, <1>17, FiltersByHand DEF Reads

-----------------------------------------------------------------------------
(* The chain that is calculated. *)

\* What row i of the table divides by.
Whole(i) == HalfBands[i + 1][1]

\* The rows of the divider table, spelled out.
LEMMA Rows ==
  /\ Whole(0) = 12 /\ Whole(1) = 8 /\ Whole(2) = 6 /\ Whole(3) = 4 /\ Whole(4) = 3 /\ Whole(5) = 2 /\ Whole(6) = 1
  /\ HalfBands[0 + 1] = <<12, 3, 2, 2>> /\ HalfBands[1 + 1] = <<8, 2, 2, 2>>
  /\ HalfBands[2 + 1] = <<6, 3, 1, 2>> /\ HalfBands[3 + 1] = <<4, 2, 2, 1>>
  /\ HalfBands[4 + 1] = <<3, 3, 1, 1>> /\ HalfBands[5 + 1] = <<2, 2, 1, 1>>
  /\ HalfBands[6 + 1] = <<1, 1, 1, 1>>
BY DEF HalfBands, Whole

\* The row of the transmitter for the receiver's row i, at the ADC's clock a.
Place(i, a, s) ==
  IF a <= 32000 THEN i - s ELSE IF i = 4 /\ s >= 0 THEN 7 ELSE i + (IF i = 5 /\ s >= 0 THEN 1 ELSE 2) - s

\* What a FIR filter divides by, and what a rate is.
Firs == {1, 2, 4}
Pos == Nat \ {0}

\* Filters that divide by x and y make m and n of the rate q; their rows lie s apart.
Pair(x, y, m, n, s, q) ==
  /\ x \in Firs /\ y \in Firs /\ m \in Nat /\ n \in Nat /\ s \in Int /\ q \in Pos
  /\ m = x * q /\ n = y * q
  /\ s = IF x = y THEN 0 ELSE IF x = 2 * y THEN 2 ELSE IF x = 4 * y THEN 4 ELSE IF y = 2 * x THEN -2 ELSE -4

\* The row the transmitter takes is the place of its quotient among the rows.
LEMMA TxRows ==
  ASSUME NEW a, NEW r, NEW t, NEW x, NEW y, NEW s, Pair(r, t, x, y, s, a)
  PROVE  \A i \in 0..6 : TxRow(i, x, y) = Place(i, x, s)
<1>0. a \in Pos /\ r \in Firs /\ t \in Firs /\ x \in Nat /\ y \in Nat /\ s \in Int
  BY Zenon DEF Pair
<1>1. x = r * a /\ y = t * a /\ x \in Nat \ {0} /\ y \in Nat \ {0}
  BY <1>0 DEF Pair, Pos, Firs
<1> DEFINE ratio == IF y > x THEN -(y \div x) ELSE x \div y
<1>2. /\ (r = t => x = y * 1 /\ s = 0) /\ (r = 2 * t => x = y * 2 /\ s = 2) /\ (r = 4 * t => x = y * 4 /\ s = 4)
      /\ (t = 2 * r => y = x * 2 /\ s = -2) /\ (t = 4 * r => y = x * 4 /\ s = -4)
  BY <1>0, <1>1 DEF Pair, Pos, Firs
<1>3. r = t \/ r = 2 * t \/ r = 4 * t \/ t = 2 * r \/ t = 4 * r
  BY <1>0 DEF Firs
<1>4. ratio = IF s = 0 THEN 1 ELSE s
  <2>1. CASE r = t
    BY <1>0, <1>1, <1>2, <2>1, DivOf
  <2>2. CASE r = 2 * t
    <3>1. x \div y = 2 /\ ~(y > x)
      BY <1>0, <1>1, <1>2, <2>2, DivOf
    <3> QED BY <1>2, <2>2, <3>1
  <2>3. CASE r = 4 * t
    <3>1. x \div y = 4 /\ ~(y > x)
      BY <1>0, <1>1, <1>2, <2>3, DivOf
    <3> QED BY <1>2, <2>3, <3>1
  <2>4. CASE t = 2 * r
    <3>1. y \div x = 2 /\ y > x
      BY <1>0, <1>1, <1>2, <2>4, DivOf
    <3> QED BY <1>2, <2>4, <3>1
  <2>5. CASE t = 4 * r
    <3>1. y \div x = 4 /\ y > x
      BY <1>0, <1>1, <1>2, <2>5, DivOf
    <3> QED BY <1>2, <2>5, <3>1
  <2> QED BY <1>3, <2>1, <2>2, <2>3, <2>4, <2>5
<1>5. \A i : TxRow(i, x, y) =
        IF x <= MaxDac THEN i - (IF ratio = 1 THEN 0 ELSE ratio)
        ELSE IF i = 4 /\ ratio >= 0 THEN 7
        ELSE i + (IF i = 5 /\ ratio >= 0 THEN 1 ELSE 2) - (IF ratio = 1 THEN 0 ELSE ratio)
  BY DEF TxRow
<1> HIDE DEF ratio
<1>6. PICK v \in -4..4 : v = ratio /\ s = (IF v = 1 THEN 0 ELSE v) /\ (s >= 0 <=> v >= 0)
  BY <1>0, <1>2, <1>3, <1>4
<1>7. MaxDac = 32000
  BY DEF MaxDac, MaxAdc
<1> QED BY <1>0, <1>5, <1>6, <1>7 DEF Place

\* The ADC's clock in row i.
Scaled(i, m) ==
  IF i = 0 THEN 12 * m ELSE IF i = 1 THEN 8 * m ELSE IF i = 2 THEN 6 * m ELSE IF i = 3 THEN 4 * m
  ELSE IF i = 4 THEN 3 * m ELSE IF i = 5 THEN 2 * m ELSE m

\* What the ADC runs at, and the rows there are.
AdcOK(a) == 2500 <= a /\ a <= 64000
RowOK(k) == 0 <= k /\ k <= 6
Halved(a) == IF a <= 32000 THEN a ELSE a \div 2

\* The rates whose row of the transmitter is not their own, and those it cannot run.
Uneven(x, y, q) == x = 4 /\ y < 4 /\ 16 * q > 64000
TooFast(k, dac) == k = 6 /\ dac > 16000

\* The tests of the calculation, as intervals.
LEMMA Ranges ==
  /\ \A a \in Nat : AdcOK(a) <=> a \in MinAdc..MaxAdc
  /\ \A k \in Int : RowOK(k) <=> k \in 0..6
  /\ \A a \in Nat : Halved(a) \in Nat
<1>1. \A a \in Nat : AdcOK(a) <=> a \in MinAdc..MaxAdc
  BY DEF AdcOK, MinAdc, MaxAdc
<1>2. \A k \in Int : RowOK(k) <=> k \in 0..6
  BY DEF RowOK
<1>3. \A a \in Nat : Halved(a) \in Nat
  <2> SUFFICES ASSUME NEW a \in Nat PROVE Halved(a) \in Nat
    OBVIOUS
  <2>1. PICK h \in Nat, t \in 0..(2 - 1) : a \div 2 = h /\ a % 2 = t /\ a = 2 * h + t
    <3>1. 2 \in Nat \ {0}
      OBVIOUS
    <3> QED BY <3>1, DivFacts
  <2> QED BY <2>1 DEF Halved
<1> QED BY <1>1, <1>2, <1>3

\* Row i of the receiver with row k of the transmitter, when no earlier row serves.
Chosen(i, m, s, adc, dac, k) ==
  /\ adc = Scaled(i, m)
  /\ k = Place(i, adc, s)
  /\ dac = Halved(adc)
  /\ i = 2 => ~(AdcOK(8 * m) /\ RowOK(Place(1, 8 * m, s)))
  /\ i = 4 => ~(AdcOK(6 * m) /\ RowOK(Place(2, 6 * m, s))) /\ ~(AdcOK(4 * m) /\ RowOK(Place(3, 4 * m, s)))
  /\ i = 6 => ~(AdcOK(2 * m) /\ RowOK(Place(5, 2 * m, s)))

Divided(k, n, dac) ==
  \/ k = 0 /\ dac = 12 * n
  \/ k = 1 /\ dac = 8 * n
  \/ k = 2 /\ dac = 6 * n
  \/ k = 3 /\ dac = 4 * n
  \/ k = 4 /\ dac = 3 * n
  \/ k = 5 /\ dac = 2 * n
  \/ k = 6 /\ dac = n

\* How far apart the clocks are by how far apart the rows, save in the first case named.
Apart(x, y, m, n, s, q) ==
  \/ s = 0 /\ m = n
  \/ s = 2 /\ m = 2 * n /\ (Uneven(x, y, q) \/ m <= 16000)
  \/ s = 4 /\ m = 4 * n /\ (Uneven(x, y, q) \/ m <= 16000)
  \/ s = -2 /\ n = 2 * m
  \/ s = -4 /\ n = 4 * m

\* That is what a pair of filters does.
LEMMA PairIsApart ==
  ASSUME NEW x, NEW y, NEW m, NEW n, NEW s, NEW q, Pair(x, y, m, n, s, q), q <= MaxBb
  PROVE  Apart(x, y, m, n, s, q)
<1>1. x \in Firs /\ y \in Firs /\ q \in Pos /\ m = x * q /\ n = y * q
  BY DEF Pair
<1>2. s = IF x = y THEN 0 ELSE IF x = 2 * y THEN 2 ELSE IF x = 4 * y THEN 4 ELSE IF y = 2 * x THEN -2 ELSE -4
  BY DEF Pair
<1> USE DEF Apart, Uneven, MaxBb, Pos
<1>3. CASE x = 1
  <2>1. CASE y = 1
    BY <1>1, <1>2, <1>3, <2>1
  <2>2. CASE y = 2
    BY <1>1, <1>2, <1>3, <2>2
  <2>3. CASE y = 4
    BY <1>1, <1>2, <1>3, <2>3
  <2> QED BY <1>1, <2>1, <2>2, <2>3 DEF Firs
<1>4. CASE x = 2
  <2>1. CASE y = 1
    BY <1>1, <1>2, <1>4, <2>1
  <2>2. CASE y = 2
    BY <1>1, <1>2, <1>4, <2>2
  <2>3. CASE y = 4
    BY <1>1, <1>2, <1>4, <2>3
  <2> QED BY <1>1, <2>1, <2>2, <2>3 DEF Firs
<1>5. CASE x = 4
  <2>1. CASE y = 1
    BY <1>1, <1>2, <1>5, <2>1
  <2>2. CASE y = 2
    BY <1>1, <1>2, <1>5, <2>2
  <2>3. CASE y = 4
    BY <1>1, <1>2, <1>5, <2>3
  <2> QED BY <1>1, <2>1, <2>2, <2>3 DEF Firs
<1> QED BY <1>1, <1>3, <1>4, <1>5 DEF Firs

\* The transmitter's row divides as the rate needs, save in the cases named.
LEMMA RowsMatch ==
  ASSUME NEW q \in 1..MaxBb, NEW k \in 0..6, NEW adc \in MinAdc..MaxAdc, NEW dac \in Nat,
         NEW x \in Firs, NEW y \in Firs, NEW m \in Nat, NEW n \in Nat, NEW s \in Int,
         Pair(x, y, m, n, s, q)
  PROVE  \A i \in 0..6 :
           Chosen(i, m, s, adc, dac, k) =>
             Divided(k, n, dac) \/ Uneven(x, y, q) \/ TooFast(k, dac)
<1> DEFINE Result == Divided(k, n, dac) \/ Uneven(x, y, q) \/ TooFast(k, dac)
<1>a. Apart(x, y, m, n, s, q)
  <2>1. q <= MaxBb
    BY DEF MaxBb
  <2> QED BY <2>1, PairIsApart
<1>b. 2500 <= adc /\ adc <= 64000
  BY DEF MinAdc, MaxAdc
<1>c. ASSUME NEW i \in 0..6, Chosen(i, m, s, adc, dac, k)
      PROVE  Result
  <2> USE <1>a, <1>b DEF Chosen, Scaled, Divided, Place, AdcOK, RowOK, Halved, TooFast, Apart
  <2>0. CASE i = 0
    BY <1>c, <2>0
  <2>1. CASE i = 1
    BY <1>c, <2>1
  <2>2. CASE i = 2
    BY <1>c, <2>2
  <2>3. CASE i = 3
    BY <1>c, <2>3
  <2>4. CASE i = 4
    BY <1>c, <2>4
  <2>5. CASE i = 5
    BY <1>c, <2>5
  <2>6. CASE i = 6
    BY <1>c, <2>6
  <2>7. i = 0 \/ i = 1 \/ i = 2 \/ i = 3 \/ i = 4 \/ i = 5 \/ i = 6
    OBVIOUS
  <2> HIDE <1>a, <1>b DEF Chosen, Scaled, Divided, Place, AdcOK, RowOK, Halved, TooFast, Apart
  <2> QED BY <2>0, <2>1, <2>2, <2>3, <2>4, <2>5, <2>6, <2>7
<1> QED BY <1>c

\* Whether the ADC's clock is in range and the transmitter has a row.
Serves(rate, r, t, i) ==
  rate * r * Whole(i) \in MinAdc..MaxAdc /\ TxRow(i, rate * r * Whole(i), rate * t * Whole(i)) \in 0..6

\* The receiver's clock and the transmitter's row in row j.
LEMMA InRow ==
  ASSUME NEW q, NEW r, NEW t, NEW m, NEW n, NEW s, Pair(r, t, m, n, s, q), NEW j \in 0..6
  PROVE  \E b \in Nat, p \in Int :
           /\ b = Scaled(j, m) /\ b = q * r * Whole(j)
           /\ p = Place(j, b, s) /\ p = TxRow(j, b, q * t * Whole(j))
<1>0. q \in Pos /\ r \in Firs /\ t \in Firs /\ m \in Nat /\ n \in Nat /\ s \in Int
  BY Zenon DEF Pair
<1>1. PICK w \in 1..12 : w = Whole(j)
  BY Rows
<1>2. PICK a \in Pos : a = q * w
  BY <1>0 DEF Pos
<1>3. PICK b \in Nat, c \in Nat : b = r * a /\ c = t * a
  BY <1>0 DEF Pos, Firs
<1>4. Pair(r, t, b, c, s, a)
  <2>1. s = IF r = t THEN 0 ELSE IF r = 2 * t THEN 2 ELSE IF r = 4 * t THEN 4 ELSE IF t = 2 * r THEN -2 ELSE -4
    BY DEF Pair
  <2> QED BY <1>0, <1>3, <2>1 DEF Pair
<1>5. TxRow(j, b, c) = Place(j, b, s)
  BY <1>4, TxRows
<1>6. b = q * r * w /\ c = q * t * w
  BY <1>0, <1>2, <1>3 DEF Pos, Firs
<1>7. b = w * m
  <2>1. m = r * q
    BY DEF Pair
  <2>2. CASE r = 1
    BY <1>0, <1>2, <1>3, <2>1, <2>2 DEF Pos
  <2>3. CASE r = 2
    BY <1>0, <1>2, <1>3, <2>1, <2>3 DEF Pos
  <2>4. CASE r = 4
    BY <1>0, <1>2, <1>3, <2>1, <2>4 DEF Pos
  <2> QED BY <1>0, <2>2, <2>3, <2>4 DEF Firs
<1>8. w * m = Scaled(j, m)
  <2>1. j = 0 \/ j = 1 \/ j = 2 \/ j = 3 \/ j = 4 \/ j = 5 \/ j = 6
    OBVIOUS
  <2>2. CASE j = 0
    <3>1. w = 12
      BY <1>1, <2>2, Rows
    <3> QED BY <1>0, <2>2, <3>1 DEF Scaled
  <2>3. CASE j = 1
    <3>1. w = 8
      BY <1>1, <2>3, Rows
    <3> QED BY <1>0, <2>3, <3>1 DEF Scaled
  <2>4. CASE j = 2
    <3>1. w = 6
      BY <1>1, <2>4, Rows
    <3> QED BY <1>0, <2>4, <3>1 DEF Scaled
  <2>5. CASE j = 3
    <3>1. w = 4
      BY <1>1, <2>5, Rows
    <3> QED BY <1>0, <2>5, <3>1 DEF Scaled
  <2>6. CASE j = 4
    <3>1. w = 3
      BY <1>1, <2>6, Rows
    <3> QED BY <1>0, <2>6, <3>1 DEF Scaled
  <2>7. CASE j = 5
    <3>1. w = 2
      BY <1>1, <2>7, Rows
    <3> QED BY <1>0, <2>7, <3>1 DEF Scaled
  <2>8. CASE j = 6
    <3>1. w = 1
      BY <1>1, <2>8, Rows
    <3> QED BY <1>0, <2>8, <3>1 DEF Scaled
  <2> QED BY <2>1, <2>2, <2>3, <2>4, <2>5, <2>6, <2>7, <2>8
<1>9. Place(j, b, s) \in Int
  <2>1. b \in Nat /\ s \in Int
    BY <1>0, <1>3
  <2> QED BY <2>1 DEF Place
<1> QED BY <1>1, <1>5, <1>6, <1>7, <1>8, <1>9, Zenon

\* Row j serves when its clock and its row of the transmitter are in range.
InRange(j, m, s) == AdcOK(Scaled(j, m)) /\ RowOK(Place(j, Scaled(j, m), s))

\* Whether a row serves, in terms of the pair of rates.
LEMMA ServesInRange ==
  ASSUME NEW q, NEW r, NEW t, NEW m, NEW n, NEW s, Pair(r, t, m, n, s, q)
  PROVE  \A j \in 0..6 : Serves(q, r, t, j) <=> InRange(j, m, s)
<1> SUFFICES ASSUME NEW j \in 0..6 PROVE Serves(q, r, t, j) <=> InRange(j, m, s)
  OBVIOUS
<1>1. PICK b \in Nat, p \in Int : /\ b = Scaled(j, m) /\ b = q * r * Whole(j)
                                  /\ p = Place(j, b, s) /\ p = TxRow(j, b, q * t * Whole(j))
  BY InRow
<1>2. \A x \in Nat : x \in MinAdc..MaxAdc <=> AdcOK(x)
  BY DEF MinAdc, MaxAdc, AdcOK
<1>3. \A x \in Int : x \in 0..6 <=> RowOK(x)
  BY DEF RowOK
<1>4. Serves(q, r, t, j) <=> b \in MinAdc..MaxAdc /\ p \in 0..6
  BY <1>1, Zenon DEF Serves
<1> QED BY <1>1, <1>2, <1>3, <1>4, Zenon DEF InRange

\* The same, the receiver's row being the first that serves.
First(i, m, s, adc, dac, k) == Chosen(i, m, s, adc, dac, k) /\ AdcOK(adc) /\ RowOK(k) /\ i \in 0..6

\* The transmitter's row for the first row that serves divides the DAC's rate to the rate asked for, or the code has no such row.
LEMMA FirstMatches ==
  ASSUME NEW x, NEW y, NEW m, NEW n, NEW s, NEW q, Pair(x, y, m, n, s, q), q <= MaxBb,
         NEW i, NEW adc, NEW dac, NEW k, First(i, m, s, adc, dac, k)
  PROVE  Divided(k, n, dac) \/ Uneven(x, y, q) \/ TooFast(k, dac)
<1>0. q \in Pos /\ x \in Firs /\ y \in Firs /\ m \in Nat /\ n \in Nat /\ s \in Int
  BY Zenon DEF Pair
<1>1. q \in 1..MaxBb
  BY <1>0 DEF Pos, MaxBb
<1>2. /\ i \in 0..6 /\ adc = Scaled(i, m) /\ k = Place(i, adc, s) /\ dac = Halved(adc)
      /\ AdcOK(adc) /\ RowOK(k)
  BY Zenon DEF First, Chosen
<1>3. adc \in Nat
  BY <1>0, <1>2 DEF Scaled
<1>4. k \in Int
  BY <1>0, <1>2, <1>3 DEF Place
<1>5. adc \in MinAdc..MaxAdc /\ k \in 0..6
  BY <1>2, <1>3, <1>4, Ranges, Zenon
<1>6. dac \in Nat
  BY <1>2, <1>3, Ranges, Zenon
<1>7. Chosen(i, m, s, adc, dac, k)
  BY Zenon DEF First
<1>8. \A j \in 0..6 : Chosen(j, m, s, adc, dac, k) => Divided(k, n, dac) \/ Uneven(x, y, q) \/ TooFast(k, dac)
  BY <1>0, <1>1, <1>5, <1>6, RowsMatch, Zenon
<1> QED BY <1>2, <1>7, <1>8, Zenon

\* The same of the calculation's own numbers.
LEMMA TxDivision ==
  ASSUME NEW q, NEW r, NEW t, NEW m, NEW n, NEW s, Pair(r, t, m, n, s, q), q <= MaxBb,
         NEW i \in 0..6, Serves(q, r, t, i), \A j \in 1..6 : j < i => ~Serves(q, r, t, j),
         NEW adc, adc = q * r * Whole(i),
         NEW dac, dac = Halved(adc),
         NEW k, k = TxRow(i, adc, q * t * Whole(i))
  PROVE  /\ adc \in Nat /\ AdcOK(adc) /\ dac \in Nat /\ k \in 0..6
         /\ Divided(k, n, dac) \/ Uneven(r, t, q) \/ TooFast(k, dac)
<1>0. q \in Pos /\ r \in Firs /\ t \in Firs /\ m \in Nat /\ n \in Nat /\ s \in Int
  BY Zenon DEF Pair
<1>1. PICK b \in Nat, p \in Int : /\ b = Scaled(i, m) /\ b = q * r * Whole(i)
                                  /\ p = Place(i, b, s) /\ p = TxRow(i, b, q * t * Whole(i))
  BY InRow
<1>2. b = adc /\ p = k
  BY <1>1, Zenon
<1>3. \A j \in 0..6 : Serves(q, r, t, j) <=> InRange(j, m, s)
  BY ServesInRange
<1>4. AdcOK(b) /\ RowOK(p)
  BY <1>1, <1>3, Zenon DEF InRange
<1>5. b \in MinAdc..MaxAdc /\ p \in 0..6
  BY <1>4, Ranges, Zenon
<1>6. PICK d \in Nat : d = dac /\ d = Halved(b)
  BY <1>2, Ranges, Zenon
<1>7. ASSUME NEW j \in 1..6, j < i PROVE ~InRange(j, m, s)
  <2>1. j \in 0..6
    OBVIOUS
  <2> QED BY <1>3, <1>7, <2>1
<1>8. Chosen(i, m, s, b, d, p)
  <2>1. 1 \in 1..6 /\ 2 \in 1..6 /\ 3 \in 1..6 /\ 5 \in 1..6 /\ 1 < 2 /\ 2 < 4 /\ 3 < 4 /\ 5 < 6
    OBVIOUS
  <2>2. /\ i = 2 => ~InRange(1, m, s)
        /\ i = 4 => ~InRange(2, m, s) /\ ~InRange(3, m, s)
        /\ i = 6 => ~InRange(5, m, s)
    BY <1>7, <2>1
  <2>3. Scaled(1, m) = 8 * m /\ Scaled(2, m) = 6 * m /\ Scaled(3, m) = 4 * m /\ Scaled(5, m) = 2 * m
    BY DEF Scaled
  <2> QED BY <1>1, <1>6, <2>2, <2>3 DEF Chosen, InRange
<1>9. Divided(p, n, d) \/ Uneven(r, t, q) \/ TooFast(p, d)
  <2>1. First(i, m, s, b, d, p)
    BY <1>4, <1>8, Zenon DEF First
  <2> QED BY <2>1, FirstMatches, Zenon
<1> QED BY <1>2, <1>4, <1>5, <1>6, <1>9, Zenon

\* The clocks of one side, from its converter's through row k of the table.
Line(top, k, by) ==
  LET d == HalfBands[k + 1]
      hb3 == top \div d[2]
      hb2 == hb3 \div d[3]
      hb1 == hb2 \div d[4]
  IN  <<top, hb3, hb2, hb1, hb1 \div by>>

\* The chain of the first row that serves, and the clocks of its converters.
Found(chain, rate, firs, i, adc, dac, r, t) ==
  /\ r = By(firs.rx) /\ t = By(firs.tx)
  /\ rate <= MaxBb /\ Serves(rate, r, t, i) /\ \A j \in 1..6 : j < i => ~Serves(rate, r, t, j)
  /\ adc = rate * r * Whole(i) /\ dac = Halved(adc)
  /\ chain = [bbpll |-> adc * Multiple(adc), rx |-> Line(adc, i, r),
              tx |-> Line(dac, TxRow(i, adc, rate * t * Whole(i)), t)]

\* The chain is that of the first row that serves.
LEMMA ChainIs ==
  ASSUME NEW rate \in Nat, NEW gov \in {0, 1}, NEW firs,
         NEW chain \in Calculate(rate, gov, firs)
  PROVE  \E i \in 0..6 : \E adc, dac, r, t : Found(chain, rate, firs, i, adc, dac, r, t)
<1> DEFINE r == By(firs.rx)
           t == By(firs.tx)
           first == IF gov = 1 /\ rate * r * 8 < MinAdc THEN 0 ELSE gov
           rows == {i \in first..6 : Serves(rate, r, t, i)}
           row == CHOOSE i \in rows : \A j \in rows : i <= j
           adc == rate * r * Whole(row)
           dac == IF adc <= MaxDac THEN adc ELSE adc \div 2
           result == [bbpll |-> adc * Multiple(adc), rx |-> Line(adc, row, r),
                      tx |-> Line(dac, TxRow(row, adc, rate * t * Whole(row)), t)]
<1>0. Calculate(rate, gov, firs) = IF rate > MaxBb \/ rows = {} THEN {} ELSE {result}
  BY Zenon DEF Calculate, Serves, Line, Whole
<1> HIDE DEF result, rows
<1>1. ~(rate > MaxBb) /\ rows # {} /\ chain = result
  BY <1>0, Zenon
<1> USE DEF rows
<1>2. first \in {0, 1}
  OBVIOUS
<1> HIDE DEF first, dac
<1>3. rows \in SUBSET Nat
  BY <1>2
<1>4. row \in rows /\ \A j \in rows : row <= j
  <2>1. \E m \in rows : \A x \in rows : m <= x
    BY <1>1, <1>3, Least
  <2> QED BY <2>1
<1> HIDE DEF row
<1>5. row \in 0..6 /\ Serves(rate, r, t, row)
  BY <1>2, <1>4
<1>6. ASSUME NEW j \in 1..6, j < row PROVE ~Serves(rate, r, t, j)
  <2>1. j \in first..6
    BY <1>2
  <2>2. j \notin rows
    BY <1>4, <1>5, <1>6
  <2> QED BY <2>1, <2>2
<1>7. dac = Halved(adc)
  BY DEF dac, Halved, MaxDac, MaxAdc
<1>8. rate <= MaxBb
  BY <1>1 DEF MaxBb
<1>9. chain = [bbpll |-> adc * Multiple(adc), rx |-> Line(adc, row, r),
               tx |-> Line(dac, TxRow(row, adc, rate * t * Whole(row)), t)]
  BY <1>1 DEF result
<1> HIDE DEF adc, rows
<1>10. adc = rate * r * Whole(row)
  BY DEF adc
<1> HIDE DEF r, t
<1>11. r = By(firs.rx) /\ t = By(firs.tx)
  BY DEF r, t
<1> QED BY <1>5, <1>6, <1>7, <1>8, <1>9, <1>10, <1>11, Zenon DEF Found

\* The BBPLL reaches a multiple of the ADC's clock, and is in its range.
LEMMA MultipleInRange ==
  ASSUME NEW adc \in Nat, AdcOK(adc)
  PROVE  Multiple(adc) \in {2, 4, 8, 16, 32, 64} /\ adc * Multiple(adc) \in MinBbpll..MaxBbpll
<1> DEFINE D == {2, 4, 8, 16, 32, 64}
           Fit(d) == adc * d <= MaxBbpll /\ (d = 64 \/ adc * 2 * d > MaxBbpll)
<1>1. \E d \in D : Fit(d)
  BY DEF MaxBbpll, AdcOK
<1>2. \A d \in D : Fit(d) => adc * d \in MinBbpll..MaxBbpll
  BY DEF MaxBbpll, MinBbpll, AdcOK
<1>3. Multiple(adc) = CHOOSE d \in D : Fit(d)
  BY DEF Multiple
<1> HIDE DEF D, Fit
<1>4. Multiple(adc) \in D /\ Fit(Multiple(adc))
  BY <1>1, <1>3
<1> QED BY <1>2, <1>4 DEF D

\* A quotient is at least what its dividend allows.
LEMMA AtLeast ==
  ASSUME NEW d \in 1..4, NEW n \in Nat, NEW k \in Nat, d * k <= n
  PROVE  \E q \in Nat : q = n \div d /\ k <= q
<1>1. PICK q \in Nat, r \in 0..(d - 1) : n \div d = q /\ n % d = r /\ n = d * q + r
  BY DivFacts
<1>2. d = 1 \/ d = 2 \/ d = 3 \/ d = 4
  OBVIOUS
<1>3. k <= q
  BY <1>1, <1>2
<1> QED BY <1>1, <1>3

\* Every stage of a line divides as it can, and leaves enough.
LEMMA LineDivides ==
  ASSUME NEW top \in Nat, 1250 <= top, NEW k \in 0..6, NEW by \in Firs
  PROVE  LET l == Line(top, k, by)
         IN  /\ l \in [Stages -> Nat \ {0}] /\ l[1] = top
             /\ \E d \in 1..3 : l[2] = l[1] \div d /\ 2 * d <= l[2]
             /\ \E d \in 1..2 : l[3] = l[2] \div d /\ 2 * d <= l[3]
             /\ \E d \in 1..2 : l[4] = l[3] \div d /\ 2 * d <= l[4]
             /\ l[5] = l[4] \div by /\ 2 * by <= l[5]
<1>1. PICK a \in 1..3, b \in 1..2, c \in 1..2 :
        HalfBands[k + 1][2] = a /\ HalfBands[k + 1][3] = b /\ HalfBands[k + 1][4] = c
  BY Rows
<1>2. PICK h3 \in Nat : h3 = top \div a /\ 400 <= h3
  <2>1. a * 400 <= top
    OBVIOUS
  <2> QED BY <2>1, AtLeast
<1>3. PICK h2 \in Nat : h2 = h3 \div b /\ 200 <= h2
  <2>1. b * 200 <= h3
    BY <1>2
  <2> QED BY <2>1, AtLeast
<1>4. PICK h1 \in Nat : h1 = h2 \div c /\ 100 <= h1
  <2>1. c * 100 <= h2
    BY <1>3
  <2> QED BY <2>1, AtLeast
<1>5. PICK h0 \in Nat : h0 = h1 \div by /\ 25 <= h0
  <2>1. by * 25 <= h1 /\ by \in 1..4
    BY <1>4 DEF Firs
  <2> QED BY <2>1, AtLeast
<1>6. Line(top, k, by) = <<top, h3, h2, h1, h0>>
  BY <1>1, <1>2, <1>3, <1>4, <1>5 DEF Line
<1>7. 2 * a <= h3 /\ 2 * b <= h2 /\ 2 * c <= h1 /\ 2 * by <= h0
  BY <1>2, <1>3, <1>4, <1>5 DEF Firs
<1>8. PICK l : l = Line(top, k, by)
  OBVIOUS
<1>9. l[1] = top /\ l[2] = h3 /\ l[3] = h2 /\ l[4] = h1 /\ l[5] = h0
  BY <1>6, <1>8
<1>10. l \in [Stages -> Nat \ {0}]
  <2>1. DOMAIN l = Stages /\ l = [x \in Stages |-> l[x]]
    BY <1>6, <1>8 DEF Stages
  <2>2. \A x \in Stages : l[x] \in Nat \ {0}
    BY <1>9, <1>2, <1>3, <1>4, <1>5 DEF Stages
  <2> QED BY <2>1, <2>2
<1> QED BY <1>2, <1>3, <1>4, <1>5, <1>7, <1>8, <1>9, <1>10

\* A line whose converter runs at its row's division of by * q ends at q.
LEMMA LineExact ==
  ASSUME NEW k \in 0..6, NEW top \in Nat, NEW by \in Firs, NEW q \in Nat, NEW n \in Nat, n = by * q, Divided(k, n, top)
  PROVE  Line(top, k, by)[5] = q
<1>1. n \div by = q
  BY DivOf DEF Firs
<1>2. PICK d : d = HalfBands[k + 1]
  OBVIOUS
<1>3. PICK h1 : h1 = ((top \div d[2]) \div d[3]) \div d[4]
  OBVIOUS
<1>4. Line(top, k, by)[5] = h1 \div by
  BY <1>2, <1>3 DEF Line
<1>5. h1 = n
  <2>1. k = 0 \/ k = 1 \/ k = 2 \/ k = 3 \/ k = 4 \/ k = 5 \/ k = 6
    OBVIOUS
  <2>2. CASE k = 0
    <3>1. top = 12 * n /\ d = <<12, 3, 2, 2>>
      BY <1>2, <2>2, Rows DEF Divided
    <3>2. top \div 3 = 4 * n /\ (4 * n) \div 2 = 2 * n /\ (2 * n) \div 2 = n
      BY <3>1
    <3> QED BY <1>3, <3>1, <3>2
  <2>3. CASE k = 1
    <3>1. top = 8 * n /\ d = <<8, 2, 2, 2>>
      BY <1>2, <2>3, Rows DEF Divided
    <3>2. top \div 2 = 4 * n /\ (4 * n) \div 2 = 2 * n /\ (2 * n) \div 2 = n
      BY <3>1
    <3> QED BY <1>3, <3>1, <3>2
  <2>4. CASE k = 2
    <3>1. top = 6 * n /\ d = <<6, 3, 1, 2>>
      BY <1>2, <2>4, Rows DEF Divided
    <3>2. top \div 3 = 2 * n /\ (2 * n) \div 1 = 2 * n /\ (2 * n) \div 2 = n
      BY <3>1
    <3> QED BY <1>3, <3>1, <3>2
  <2>5. CASE k = 3
    <3>1. top = 4 * n /\ d = <<4, 2, 2, 1>>
      BY <1>2, <2>5, Rows DEF Divided
    <3>2. top \div 2 = 2 * n /\ (2 * n) \div 2 = n /\ n \div 1 = n
      BY <3>1
    <3> QED BY <1>3, <3>1, <3>2
  <2>6. CASE k = 4
    <3>1. top = 3 * n /\ d = <<3, 3, 1, 1>>
      BY <1>2, <2>6, Rows DEF Divided
    <3>2. top \div 3 = n /\ n \div 1 = n
      BY <3>1
    <3> QED BY <1>3, <3>1, <3>2
  <2>7. CASE k = 5
    <3>1. top = 2 * n /\ d = <<2, 2, 1, 1>>
      BY <1>2, <2>7, Rows DEF Divided
    <3>2. top \div 2 = n /\ n \div 1 = n
      BY <3>1
    <3> QED BY <1>3, <3>1, <3>2
  <2>8. CASE k = 6
    <3>1. top = n /\ d = <<1, 1, 1, 1>> /\ n \div 1 = n
      BY <1>2, <2>8, Rows DEF Divided
    <3> QED BY <1>3, <3>1
  <2> QED BY <2>1, <2>2, <2>3, <2>4, <2>5, <2>6, <2>7, <2>8
<1> QED BY <1>1, <1>4, <1>5

\* A line with nothing divided is at its top.
LEMMA LineUndivided ==
  ASSUME NEW top \in Nat, NEW by
  PROVE  Line(top, 6, by)[4] = top
<1>1. top \div 1 = top
  OBVIOUS
<1>2. HalfBands[6 + 1][2] = 1 /\ HalfBands[6 + 1][3] = 1 /\ HalfBands[6 + 1][4] = 1
  BY Rows
<1>3. Line(top, 6, by)[4] = ((top \div HalfBands[6 + 1][2]) \div HalfBands[6 + 1][3]) \div HalfBands[6 + 1][4]
  BY DEF Line
<1> QED BY <1>1, <1>2, <1>3

\* A chain that is calculated can be written, and ends at the rate.
LEMMA ChainFits ==
  ASSUME NEW rate \in Nat, NEW gov \in {0, 1}, NEW firs, FirsOK(firs), NEW chain \in Calculate(rate, gov, firs)
  PROVE  /\ Writable(chain, firs) /\ chain.rx[5] = rate
         /\ chain.tx[4] <= 16000 => chain.tx[5] = rate \/ Uneven(By(firs.rx), By(firs.tx), rate)
<1>0. PICK i \in 0..6 : \E adc, dac, r, t : Found(chain, rate, firs, i, adc, dac, r, t)
  BY ChainIs
<1>1. PICK adc, dac, r, t :
           /\ r = By(firs.rx) /\ t = By(firs.tx)
           /\ rate <= MaxBb /\ Serves(rate, r, t, i) /\ \A j \in 1..6 : j < i => ~Serves(rate, r, t, j)
           /\ adc = rate * r * Whole(i) /\ dac = Halved(adc)
           /\ chain = [bbpll |-> adc * Multiple(adc), rx |-> Line(adc, i, r),
                       tx |-> Line(dac, TxRow(i, adc, rate * t * Whole(i)), t)]
  BY <1>0, Zenon DEF Found
<1>2. r \in Firs /\ t \in Firs
  BY <1>1 DEF Firs, FirsOK, By, Sides
<1>3. rate \in Pos
  <2>1. CASE rate = 0
    <3>1. PICK w \in 1..12 : w = Whole(i)
      BY Rows
    <3>2. rate * r * w = 0
      BY <1>2, <2>1 DEF Firs
    <3>3. 0 \in MinAdc..MaxAdc
      BY <1>1, <3>1, <3>2, Zenon DEF Serves
    <3> QED BY <3>3 DEF MinAdc, MaxAdc
  <2> QED BY <2>1 DEF Pos
<1>4. PICK m, n \in Nat : m = r * rate /\ n = t * rate
  BY <1>2 DEF Firs
<1>5. PICK s \in Int : Pair(r, t, m, n, s, rate)
  <2>1. (IF r = t THEN 0 ELSE IF r = 2 * t THEN 2 ELSE IF r = 4 * t THEN 4 ELSE IF t = 2 * r THEN -2 ELSE -4) \in Int
    OBVIOUS
  <2> QED BY <1>2, <1>3, <1>4, <2>1 DEF Pair
<1>6. PICK k : k = TxRow(i, adc, rate * t * Whole(i))
  OBVIOUS
<1>7. /\ adc \in Nat /\ AdcOK(adc) /\ dac \in Nat /\ k \in 0..6
      /\ Divided(k, n, dac) \/ Uneven(r, t, rate) \/ TooFast(k, dac)
  BY <1>1, <1>5, <1>6, TxDivision
<1>8. 1250 <= adc /\ 1250 <= dac /\ \E e \in 1..2 : dac = adc \div e /\ 2 * e <= dac
  <2>1. PICK h \in Nat, z \in 0..(2 - 1) : adc \div 2 = h /\ adc % 2 = z /\ adc = 2 * h + z
    <3>1. 2 \in Nat \ {0}
      OBVIOUS
    <3> QED BY <1>7, <3>1, DivFacts
  <2>2. adc \div 1 = adc
    BY <1>7
  <2> QED BY <1>1, <1>7, <2>1, <2>2 DEF Halved, AdcOK
<1>9. Divided(i, m, adc)
  <2>1. PICK b \in Nat, p \in Int : b = Scaled(i, m) /\ b = rate * r * Whole(i)
    BY <1>5, InRow
  <2>2. i = 0 \/ i = 1 \/ i = 2 \/ i = 3 \/ i = 4 \/ i = 5 \/ i = 6
    OBVIOUS
  <2> QED BY <1>1, <2>1, <2>2 DEF Scaled, Divided
<1>10. Line(adc, i, r)[5] = rate
  BY <1>2, <1>4, <1>7, <1>9, LineExact
<1>11. Line(dac, k, t)[4] <= 16000 => Line(dac, k, t)[5] = rate \/ Uneven(r, t, rate)
  <2>1. CASE Divided(k, n, dac)
    BY <1>2, <1>4, <1>7, <2>1, LineExact
  <2>2. CASE TooFast(k, dac)
    <3>1. k = 6 /\ dac > 16000
      BY <2>2 DEF TooFast
    <3>2. Line(dac, k, t)[4] = dac
      BY <1>7, <3>1, LineUndivided
    <3> QED BY <1>7, <3>1, <3>2
  <2> QED BY <1>7, <2>1, <2>2
<1>12. chain.bbpll = adc * Multiple(adc) /\ chain.rx = Line(adc, i, r) /\ chain.tx = Line(dac, k, t)
  BY <1>1, <1>6, Zenon
<1>13. Writable(chain, firs)
  <2>1. PICK D \in {2, 4, 8, 16, 32, 64} : D = Multiple(adc) /\ adc * D \in MinBbpll..MaxBbpll
    BY <1>7, MultipleInRange
  <2>2. adc = chain.bbpll \div D /\ 2 * D <= adc
    <3>1. adc * D = D * adc /\ adc * D \in Nat
      BY <1>7
    <3>2. (adc * D) \div D = adc
      BY <1>7, <3>1, DivOf
    <3>3. 2 * D <= adc
      BY <1>7 DEF AdcOK
    <3> QED BY <1>12, <2>1, <3>2, <3>3
  <2>3. /\ chain.rx \in [Stages -> Nat \ {0}] /\ chain.rx[1] = adc
        /\ \E d \in 1..3 : chain.rx[2] = chain.rx[1] \div d /\ 2 * d <= chain.rx[2]
        /\ \E d \in 1..2 : chain.rx[3] = chain.rx[2] \div d /\ 2 * d <= chain.rx[3]
        /\ \E d \in 1..2 : chain.rx[4] = chain.rx[3] \div d /\ 2 * d <= chain.rx[4]
        /\ chain.rx[5] = chain.rx[4] \div r /\ 2 * r <= chain.rx[5]
    <3>1. PICK l : l = Line(adc, i, r)
      OBVIOUS
    <3>2. 1250 <= adc /\ adc \in Nat /\ i \in 0..6 /\ r \in Firs
      BY <1>2, <1>7, <1>8, ZenonT(60)
    <3>3. /\ l \in [Stages -> Nat \ {0}] /\ l[1] = adc
          /\ \E d \in 1..3 : l[2] = l[1] \div d /\ 2 * d <= l[2]
          /\ \E d \in 1..2 : l[3] = l[2] \div d /\ 2 * d <= l[3]
          /\ \E d \in 1..2 : l[4] = l[3] \div d /\ 2 * d <= l[4]
          /\ l[5] = l[4] \div r /\ 2 * r <= l[5]
      BY <3>1, <3>2, LineDivides
    <3> QED BY <1>12, <3>1, <3>3, Zenon
  <2>4. /\ chain.tx \in [Stages -> Nat \ {0}] /\ chain.tx[1] = dac
        /\ \E d \in 1..3 : chain.tx[2] = chain.tx[1] \div d /\ 2 * d <= chain.tx[2]
        /\ \E d \in 1..2 : chain.tx[3] = chain.tx[2] \div d /\ 2 * d <= chain.tx[3]
        /\ \E d \in 1..2 : chain.tx[4] = chain.tx[3] \div d /\ 2 * d <= chain.tx[4]
        /\ chain.tx[5] = chain.tx[4] \div t /\ 2 * t <= chain.tx[5]
    <3>1. PICK l : l = Line(dac, k, t)
      OBVIOUS
    <3>2. 1250 <= dac /\ dac \in Nat /\ k \in 0..6 /\ t \in Firs
      BY <1>2, <1>7, <1>8, ZenonT(60)
    <3>3. /\ l \in [Stages -> Nat \ {0}] /\ l[1] = dac
          /\ \E d \in 1..3 : l[2] = l[1] \div d /\ 2 * d <= l[2]
          /\ \E d \in 1..2 : l[3] = l[2] \div d /\ 2 * d <= l[3]
          /\ \E d \in 1..2 : l[4] = l[3] \div d /\ 2 * d <= l[4]
          /\ l[5] = l[4] \div t /\ 2 * t <= l[5]
      BY <3>1, <3>2, LineDivides
    <3> QED BY <1>12, <3>1, <3>3, Zenon
  <2> DEFINE Step(side, x) ==
        \E d \in Divisors(side, x) :
         /\ chain[side][x] = Parent(chain, side, x) \div d /\ 2 * d <= chain[side][x]
         /\ x = 5 => d = By(firs[side])
  <2>5. Step("rx", 1)
    BY <2>2, <2>3 DEF Divisors, Parent
  <2>6. Step("tx", 1)
    BY <1>8, <2>3, <2>4 DEF Divisors, Parent
  <2>7. Step("rx", 2) /\ Step("tx", 2)
    BY <2>3, <2>4 DEF Divisors, Parent
  <2>8. Step("rx", 3) /\ Step("tx", 3)
    BY <2>3, <2>4 DEF Divisors, Parent
  <2>9. Step("rx", 4) /\ Step("tx", 4)
    BY <2>3, <2>4 DEF Divisors, Parent
  <2>10. Step("rx", 5)
    BY <1>1, <1>2, <2>3 DEF Divisors, Parent, Firs
  <2>11. Step("tx", 5)
    BY <1>1, <1>2, <2>4 DEF Divisors, Parent, Firs
  <2> HIDE DEF Step
  <2>12. \A side \in Sides, x \in Stages : Step(side, x)
    <3>1. \A side \in Sides : side = "rx" \/ side = "tx"
      BY DEF Sides
    <3>2. \A x \in Stages : x = 1 \/ x = 2 \/ x = 3 \/ x = 4 \/ x = 5
      BY DEF Stages
    <3> QED BY <2>5, <2>6, <2>7, <2>8, <2>9, <2>10, <2>11, <3>1, <3>2
  <2>13. chain.bbpll \in MinBbpll..MaxBbpll
    BY <1>12, <2>1, Zenon
  <2> QED BY <2>3, <2>4, <2>12, <2>13, Zenon DEF Writable, Step
<1> QED BY <1>1, <1>10, <1>11, <1>12, <1>13

-----------------------------------------------------------------------------
(* What the chain's clocks are after every operation. *)

\* What is read back of a chip in range is a rate.
LEMMA ReadNat ==
  ASSUME NEW c, ChipOK(c)
  PROVE  \A side \in Sides : \A i \in Stages : ReadBack(c)[side][i] \in Nat
<1>1. PICK b \in Nat : b = c.bbpll
  <2>1. PICK B, R : /\ B = MinBbpll..MaxBbpll /\ R = [Stages -> 0..64] /\ c \in [bbpll : B, rx : R, tx : R]
    BY DEF ChipOK
  <2>2. c.bbpll \in B
    BY <2>1
  <2>3. PICK n \in MinBbpll..MaxBbpll : n = c.bbpll
    BY <2>1, <2>2, Zenon
  <2>4. n \in Nat
    BY DEF MinBbpll, MaxBbpll
  <2> QED BY <2>3, <2>4, Zenon
<1>2. \A side \in Sides, i \in Stages : Division(i, c[side][i]) \in 1..64
  <2> SUFFICES ASSUME NEW side \in Sides, NEW i \in Stages PROVE Division(i, c[side][i]) \in 1..64
    OBVIOUS
  <2>1. PICK f : f = c[side][i] /\ f \in FieldsOf(side, i)
    BY DEF ChipOK
  <2>2. CASE i = 5
    <3>1. f \in 0..3
      BY <2>1, <2>2 DEF FieldsOf
    <3>2. Divides(f) \in {1, 2, 4}
      BY <3>1, FirFields
    <3> QED BY <2>1, <2>2, <3>2 DEF Division
  <2>3. CASE i # 5
    <3>1. f \in 1..64
      BY <2>1, <2>3 DEF FieldsOf
    <3> QED BY <2>1, <2>3, <3>1 DEF Division
  <2> QED BY <2>2, <2>3
<1>3. ASSUME NEW side \in Sides, NEW i \in Stages, Parent(ReadBack(c), side, i) \in Nat
      PROVE  ReadBack(c)[side][i] \in Nat
  <2>1. PICK d \in Nat \ {0} : d = Division(i, c[side][i])
    BY <1>2
  <2>2. PICK p \in Nat : p = Parent(ReadBack(c), side, i)
    BY <1>3
  <2>3. ReadBack(c)[side][i] = p \div d
    BY <2>1, <2>2, Reading
  <2>4. PICK q \in Nat, z \in 0..(d - 1) : p \div d = q /\ p % d = z /\ p = d * q + z
    BY DivFacts
  <2> QED BY <2>3, <2>4
<1>4. "rx" \in Sides /\ "tx" \in Sides /\ 1 \in Stages /\ 2 \in Stages /\ 3 \in Stages /\ 4 \in Stages /\ 5 \in Stages
  BY DEF Sides, Stages
<1>5. ReadBack(c).rx[1] \in Nat
  <2>1. Parent(ReadBack(c), "rx", 1) \in Nat
    BY <1>1 DEF Parent, ReadBack
  <2> QED BY <1>3, <1>4, <2>1
<1>6. ReadBack(c).tx[1] \in Nat
  <2>1. Parent(ReadBack(c), "tx", 1) \in Nat
    BY <1>5 DEF Parent
  <2> QED BY <1>3, <1>4, <2>1
<1>7. ASSUME NEW side \in Sides, NEW i \in Stages, i > 1, ReadBack(c)[side][i - 1] \in Nat
      PROVE  ReadBack(c)[side][i] \in Nat
  <2>1. Parent(ReadBack(c), side, i) \in Nat
    BY <1>7 DEF Parent
  <2> QED BY <1>3, <2>1
<1>8. ASSUME NEW side \in Sides PROVE \A i \in Stages : ReadBack(c)[side][i] \in Nat
  <2>1. ReadBack(c)[side][1] \in Nat
    BY <1>5, <1>6 DEF Sides
  <2>2. 2 > 1 /\ 3 > 1 /\ 4 > 1 /\ 5 > 1 /\ 2 - 1 = 1 /\ 3 - 1 = 2 /\ 4 - 1 = 3 /\ 5 - 1 = 4
    OBVIOUS
  <2>3. ReadBack(c)[side][2] \in Nat
    BY <1>4, <1>7, <2>1, <2>2
  <2>4. ReadBack(c)[side][3] \in Nat
    BY <1>4, <1>7, <2>3, <2>2
  <2>5. ReadBack(c)[side][4] \in Nat
    BY <1>4, <1>7, <2>4, <2>2
  <2>6. ReadBack(c)[side][5] \in Nat
    BY <1>4, <1>7, <2>5, <2>2
  <2>7. \A x \in Stages : x = 1 \/ x = 2 \/ x = 3 \/ x = 4 \/ x = 5
    BY DEF Stages
  <2> QED BY <2>1, <2>3, <2>4, <2>5, <2>6, <2>7
<1> QED BY <1>8

\* What a rate is read as when the chain and its filters are in force.
LEMMA SampledAs ==
  ASSUME NEW firs, FirsOK(firs), NEW chain, Writable(chain, firs), NEW side \in Sides, NEW f,
         f = IF firs[side].on THEN Divider(firs[side].by) ELSE 0
  PROVE  chain[side][4] \div Divides(f) = chain[side][5]
<1>1. Divides(f) = By(firs[side])
  <2>1. CASE firs[side].on
    <3>1. PICK by \in {1, 2, 4} : by = firs[side].by
      BY <2>1 DEF FirsOK
    <3> QED BY <2>1, <3>1, FirFields DEF By
  <2>2. CASE ~firs[side].on
    BY <2>2, FirFields DEF By
  <2> QED BY <2>1, <2>2
<1>2. 5 \in Stages
  BY DEF Stages
<1>3. PICK d \in Divisors(side, 5) : chain[side][5] = Parent(chain, side, 5) \div d /\ (5 = 5 => d = By(firs[side]))
  BY <1>2, Zenon DEF Writable
<1>4. Parent(chain, side, 5) = chain[side][4]
  BY DEF Parent
<1> QED BY <1>1, <1>3, <1>4

\* The state the registers, the rates remembered and the filters are in.
ClocksKept ==
  /\ ChipOK(chip) /\ CacheFresh /\ WithinLimits /\ FilterInForce
  /\ FirsOK(fir) /\ governor \in {0, 1} /\ filt \in Nat

\* What an operation that sets the chain leaves.
Leaves(op, rate, chains, firs, none) ==
  /\ ChipOK(chip') /\ CacheFresh' /\ WithinLimits' /\ FilterInForce' /\ FirsOK(fir')
  /\ fir' = none \/ fir' = firs
  /\ last'.op = op /\ last'.rate = rate
  /\ last'.set => \E c \in chains :
       /\ Writable(c, firs) /\ FirsOK(firs)
       /\ \A side \in Sides : \A i \in Stages : cached'[side][i] = c[side][i] /\ c[side][i] <= Limit[side][i]
       /\ \A side \in Sides : chip'[side][5] = IF firs[side].on THEN Divider(firs[side].by) ELSE 0

\* Whatever an operation that calculates a chain does, what is noted is in the chip.
LEMMA Reclocked ==
  ASSUME NEW op, NEW rate, NEW chains, NEW firs, NEW dropped, NEW none,
         ClocksKept, FirsOK(none), \A c \in chains : FirsOK(firs) /\ Writable(c, firs),
         Reclock(op, rate, chains, firs, dropped, none)
  PROVE  Leaves(op, rate, chains, firs, none)
<1>1. CASE /\ last' = [op |-> op, rate |-> rate, set |-> FALSE, ok |-> FALSE]
           /\ fir' = none /\ UNCHANGED <<chip, cached>>
  <2>1. last'.op = op /\ last'.rate = rate /\ last'.set = FALSE
    BY <1>1
  <2>2. ChipOK(chip') /\ CacheFresh' /\ WithinLimits'
    BY <1>1, Zenon DEF ClocksKept, CacheFresh, WithinLimits
  <2> QED BY <1>1, <2>1, <2>2 DEF FilterInForce, Leaves
<1>2. CASE \E c \in chains, ok \in Failures :
             LET w == IF Valid(board, c) THEN Written(chip, cached, c, firs)
                      ELSE [chip |-> chip, cached |-> cached]
             IN  /\ dropped \/ Valid(board, c)
                 /\ chip' = w.chip /\ cached' = w.cached
                 /\ last' = [op |-> op, rate |-> rate, set |-> Valid(board, c), ok |-> ok]
                 /\ fir' = IF ok THEN firs ELSE none
  <2>1. PICK c \in chains, ok \in Failures :
          /\ chip' = (IF Valid(board, c) THEN Written(chip, cached, c, firs) ELSE [chip |-> chip, cached |-> cached]).chip
          /\ cached' = (IF Valid(board, c) THEN Written(chip, cached, c, firs) ELSE [chip |-> chip, cached |-> cached]).cached
          /\ last' = [op |-> op, rate |-> rate, set |-> Valid(board, c), ok |-> ok]
          /\ fir' = IF ok THEN firs ELSE none
    BY <1>2, Zenon
  <2>2. last'.op = op /\ last'.rate = rate /\ last'.set = Valid(board, c) /\ last'.ok = ok
    BY <2>1
  <2>3. FirsOK(firs) /\ Writable(c, firs) /\ FirsOK(fir') /\ (fir' = none \/ fir' = firs)
    BY <2>1
  <2>4. CASE ~Valid(board, c)
    <3>1. chip' = chip /\ cached' = cached
      BY <2>1, <2>4
    <3>2. ChipOK(chip') /\ CacheFresh' /\ WithinLimits'
      BY <3>1, Zenon DEF ClocksKept, CacheFresh, WithinLimits
    <3> QED BY <2>2, <2>3, <2>4, <3>2 DEF FilterInForce, Leaves
  <2>5. CASE Valid(board, c)
    <3>1. PICK w : w = Written(chip, cached, c, firs)
      OBVIOUS
    <3>2. chip' = w.chip /\ cached' = w.cached
      BY <2>1, <2>5, <3>1, Zenon
    <3>3. /\ ChipOK(w.chip) /\ w.cached = ReadBack(w.chip)
          /\ \A side \in Sides : \A i \in Stages : w.cached[side][i] = c[side][i]
          /\ \A side \in Sides : w.chip[side][5] = IF firs[side].on THEN Divider(firs[side].by) ELSE 0
      <4>1. PICK c0, r0 : c0 = chip /\ r0 = cached /\ ChipOK(c0) /\ r0 = ReadBack(c0)
        BY Zenon DEF ClocksKept, CacheFresh
      <4>2. Written(c0, r0, c, firs) = w
        BY <3>1, <4>1, Zenon
      <4> QED BY <2>3, <4>1, <4>2, WrittenIsChain
    <3>4. \A side \in Sides : \A i \in Stages : c[side][i] <= Limit[side][i]
      BY <2>5, Zenon DEF Valid, Stages
    <3>5. ChipOK(chip') /\ CacheFresh'
      BY <3>2, <3>3, Zenon DEF CacheFresh
    <3>6. WithinLimits'
      BY <3>2, <3>3, <3>4, <3>5, Zenon DEF WithinLimits, CacheFresh, Stages
    <3>7. FilterInForce'
      BY <2>1, <2>2, <3>2, <3>3, Zenon DEF FilterInForce
    <3> QED BY <2>2, <2>3, <3>2, <3>3, <3>4, <3>5, <3>6, <3>7, Zenon DEF Leaves
  <2> QED BY <2>4, <2>5
<1> QED BY <1>1, <1>2, Zenon DEF Reclock

\* Filters as the state has them.
FirType == [Sides -> [on : BOOLEAN, by : Decimates \cup {0}, taps : TapCounts \cup {0}]]

\* FIR filters that are on divide by 1, 2 or 4.
LEMMA FirsOfType ==
  ASSUME NEW firs \in FirType, \A side \in Sides : firs[side].on => firs[side].by \in {1, 2, 4}
  PROVE  FirsOK(firs)
<1>1. Decimates \cup {0} \subseteq {0, 1, 2, 4} /\ TapCounts \cup {0} \subseteq Nat
  BY ClocksAssumption
<1>2. PICK B, T : B = Decimates \cup {0} /\ T = TapCounts \cup {0} /\ B \subseteq {0, 1, 2, 4} /\ T \subseteq Nat
  BY <1>1
<1>3. firs \in [Sides -> [on : BOOLEAN, by : B, taps : T]]
  BY <1>2 DEF FirType
<1>4. \A side \in Sides : firs[side] \in [on : BOOLEAN, by : {0, 1, 2, 4}, taps : Nat]
  BY <1>2, <1>3
<1>5. firs \in [Sides -> [on : BOOLEAN, by : {0, 1, 2, 4}, taps : Nat]]
  BY <1>3, <1>4
<1> QED BY <1>5 DEF FirsOK

\* The registers' type, from what each of them holds.
LEMMA ChipTyped ==
  ASSUME NEW c, ChipOK(c)
  PROVE  /\ c \in [bbpll : MinBbpll..MaxBbpll, rx : [1..5 -> 0..64], tx : [1..5 -> 0..64]]
         /\ c.rx[1] \in 2..64 /\ c.tx[1] \in 1..2
         /\ \A side \in Sides : /\ c[side][2] \in 1..3 /\ c[side][3] \in 1..2
                                /\ c[side][4] \in 1..2 /\ c[side][5] \in 0..3
<1>1. 1 \in Stages /\ 2 \in Stages /\ 3 \in Stages /\ 4 \in Stages /\ 5 \in Stages
  BY DEF Stages
<1>2. "rx" \in Sides /\ "tx" \in Sides
  BY DEF Sides
<1>3. c.rx[1] \in 2..64 /\ c.tx[1] \in 1..2
  BY <1>1, <1>2 DEF ChipOK, FieldsOf
<1>4. \A side \in Sides : /\ c[side][2] \in 1..3 /\ c[side][3] \in 1..2
                          /\ c[side][4] \in 1..2 /\ c[side][5] \in 0..3
  BY <1>1 DEF ChipOK, FieldsOf
<1> QED BY <1>3, <1>4, Zenon DEF ChipOK, Stages

\* What enabling the filters sets the chain to.
LEMMA FilterChainsFit ==
  ASSUME NEW firs \in FirType, NEW f \in Nat, ClocksKept, NEW c \in FilterChains(firs, f)
  PROVE  FirsOK(firs) /\ Writable(c, firs)
<1>1. FilterFits(firs)
  BY Zenon DEF FilterChains
<1>2. FirsOK(firs)
  <2>1. \A side \in Sides : firs[side].on => firs[side].by \in {1, 2, 4}
    BY <1>1 DEF FilterFits, Sides
  <2> QED BY <2>1, FirsOfType
<1>3. PICK g \in {0, 1} : g = governor
  BY DEF ClocksKept
<1>4. PICK now \in Nat : now = Sampling("tx")
  <2>1. PICK p \in Nat : p = cached.tx[4]
    BY ReadNat DEF ClocksKept, CacheFresh, Sides, Stages
  <2>2. PICK x \in 0..3 : x = chip.tx[5]
    BY DEF ClocksKept, ChipOK, FieldsOf, Sides, Stages
  <2>3. PICK d \in Nat \ {0} : d = Divides(x)
    BY FirFields
  <2>4. PICK q \in Nat, z \in 0..(d - 1) : p \div d = q /\ p % d = z /\ p = d * q + z
    BY DivFacts
  <2> QED BY <2>1, <2>2, <2>3, <2>4 DEF Sampling
<1>5. PICK least \in Nat : least = IF governor = 1 THEN 150 ELSE 100
  OBVIOUS
<1>6. \/ c \in Calculate(now, g, firs)
      \/ c \in Calculate(least, g, firs)
      \/ c \in Calculate(f, 0, firs)
  BY <1>1, <1>3, <1>4, <1>5, Zenon DEF FilterChains
<1>7. 0 \in {0, 1}
  OBVIOUS
<1> QED BY <1>2, <1>6, <1>7, ChainFits

ClocksInv == ClocksTypeOK /\ ClocksKept /\ RateAsAsked

\* The invariant, from its parts.
ClocksParts == fir \in FirType /\ filt \in FiltRates \cup {0} /\ ClocksKept /\ RateAsAsked

\* The parts give the invariant.
LEMMA ClocksTyped == ClocksParts => ClocksInv
BY ChipTyped, Zenon DEF ClocksParts, ClocksInv, ClocksTypeOK, ClocksKept, FirType

\* After the set-up.
LEMMA ClocksStart == ClocksInit => ClocksInv
<1> SUFFICES ASSUME ClocksInit PROVE ClocksInv
  OBVIOUS
<1>1. /\ fir = [s \in Sides |-> [on |-> FALSE, by |-> 0, taps |-> 0]]
      /\ governor = 1 /\ filt = 0 /\ cached = ReadBack(chip)
      /\ chip = [bbpll |-> 98304, rx |-> <<4, 2, 2, 2, 0>>, tx |-> <<2, 1, 2, 2, 0>>]
      /\ last = [op |-> "setup", rate |-> 3072, set |-> TRUE, ok |-> TRUE]
  BY DEF ClocksInit
<1>2. fir \in FirType /\ \A s \in Sides : fir[s].on = FALSE
  BY <1>1 DEF FirType
<1>3. FirsOK(fir)
  BY <1>2, FirsOfType
<1>4. ChipOK(chip)
  <2>1. <<4, 2, 2, 2, 0>> \in [Stages -> 0..64] /\ <<2, 1, 2, 2, 0>> \in [Stages -> 0..64]
    BY DEF Stages
  <2>2. 98304 \in MinBbpll..MaxBbpll
    BY DEF MinBbpll, MaxBbpll
  <2>3. chip \in [bbpll : MinBbpll..MaxBbpll, rx : [Stages -> 0..64], tx : [Stages -> 0..64]]
    BY <1>1, <2>1, <2>2
  <2>4. \A side \in Sides : \A i \in Stages : chip[side][i] \in FieldsOf(side, i)
    BY <1>1 DEF FieldsOf, Sides, Stages
  <2> QED BY <2>3, <2>4 DEF ChipOK
<1>5. ReadBack(chip) = [bbpll |-> 98304, rx |-> <<24576, 12288, 6144, 3072, 3072>>,
                        tx |-> <<12288, 12288, 6144, 3072, 3072>>]
  BY <1>1, FirFields DEF ReadBack, Through
<1>6. WithinLimits
  BY <1>5 DEF WithinLimits, Limit, Sides, MaxAdc, MaxDac, MaxBb
<1>7. FilterInForce
  BY <1>1, <1>2 DEF FilterInForce, Sides
<1>8. RateAsAsked
  BY <1>1 DEF RateAsAsked
<1>9. ClocksKept
  BY <1>1, <1>3, <1>4, <1>6, <1>7 DEF ClocksKept, CacheFresh
<1> QED BY <1>1, <1>2, <1>8, <1>9, ClocksTyped DEF ClocksParts

\* ad9361_set_{rx,tx}_sampling_freq()
LEMMA SetSamplingKeeps ==
  ASSUME ClocksInv, NEW r \in Rates, SetSampling(r)
  PROVE  ClocksInv'
<1>1. PICK rate \in Nat : rate = r
  BY ClocksAssumption
<1>2. PICK firs, g, chains, d : firs = fir /\ g = governor /\ chains = Calculate(r, governor, fir) /\ d = TRUE
  OBVIOUS
<1>3. FirsOK(firs) /\ g \in {0, 1} /\ fir \in FirType /\ filt \in FiltRates \cup {0} /\ ClocksKept
  BY <1>2, Zenon DEF ClocksInv, ClocksKept, ClocksTypeOK, FirType
<1>4. Reclock("rate", r, chains, firs, d, firs) /\ UNCHANGED <<board, governor, filt>>
  BY <1>2, Zenon DEF SetSampling, Reclock
<1>5. \A c \in chains :
        /\ Writable(c, firs) /\ c.rx[5] = rate
        /\ c.tx[4] <= 16000 => c.tx[5] = rate \/ Uneven(By(firs.rx), By(firs.tx), rate)
  BY <1>1, <1>2, <1>3, ChainFits
<1>6. /\ ChipOK(chip') /\ CacheFresh' /\ WithinLimits' /\ FilterInForce' /\ FirsOK(fir')
      /\ fir' = firs /\ last'.op = "rate" /\ last'.rate = r
      /\ last'.set => \E c \in chains :
              /\ Writable(c, firs) /\ FirsOK(firs)
              /\ \A side \in Sides : \A i \in Stages : cached'[side][i] = c[side][i] /\ c[side][i] <= Limit[side][i]
              /\ \A side \in Sides : chip'[side][5] = IF firs[side].on THEN Divider(firs[side].by) ELSE 0
  <2>1. \A c \in chains : FirsOK(firs) /\ Writable(c, firs)
    BY <1>3, <1>5
  <2>2. Leaves("rate", r, chains, firs, firs)
    BY <1>3, <1>4, <2>1, Reclocked, Zenon
  <2> QED BY <2>2 DEF Leaves
<1>7. RateAsAsked'
  <2> SUFFICES ASSUME last'.set
               PROVE  /\ Sampling("rx")' = rate
                      /\ Sampling("tx")' = rate \/ Uneven(By(firs.rx), By(firs.tx), rate)
    BY <1>1, <1>6 DEF RateAsAsked, Uneven, MaxAdc
  <2>1. PICK c \in chains :
              /\ Writable(c, firs) /\ FirsOK(firs)
              /\ \A side \in Sides : \A i \in Stages : cached'[side][i] = c[side][i] /\ c[side][i] <= Limit[side][i]
              /\ \A side \in Sides : chip'[side][5] = IF firs[side].on THEN Divider(firs[side].by) ELSE 0
    BY <1>6, Zenon
  <2>2. ASSUME NEW side \in Sides PROVE Sampling(side)' = c[side][5]
    <3>1. PICK f : f = chip'[side][5]
      OBVIOUS
    <3>2. c[side][4] \div Divides(f) = c[side][5]
      BY <2>1, <3>1, SampledAs
    <3>3. 4 \in Stages
      BY DEF Stages
    <3> QED BY <2>1, <3>1, <3>2, <3>3, ZenonT(60) DEF Sampling
  <2>3. "rx" \in Sides /\ "tx" \in Sides /\ 4 \in Stages /\ Limit.tx[4] = 16000
    BY DEF Sides, Stages, Limit
  <2>4. c.tx[4] <= 16000
    BY <2>1, <2>3
  <2>5. c.rx[5] = rate /\ (c.tx[5] = rate \/ Uneven(By(firs.rx), By(firs.tx), rate))
    BY <1>5, <2>4
  <2>6. Sampling("rx")' = c.rx[5] /\ Sampling("tx")' = c.tx[5]
    BY <2>2, <2>3
  <2> QED BY <2>5, <2>6, Zenon
<1>8. ClocksParts'
  BY <1>2, <1>3, <1>4, <1>6, <1>7, Zenon DEF ClocksParts, ClocksKept
<1> QED BY <1>8, ClocksTyped, PTL

\* ad9361_set_{rx,tx}_fir_en_dis() and ad9361_set_trx_fir_en_dis()
LEMMA EnableFirKeeps ==
  ASSUME ClocksInv, NEW sides \in {{"rx"}, {"tx"}, Sides}, NEW on \in BOOLEAN, EnableFir(sides, on)
  PROVE  ClocksInv'
<1>1. ClocksParts
  BY Zenon DEF ClocksInv, ClocksTypeOK, FirType, ClocksParts
<1>2. PICK old \in FirType, f \in Nat : old = fir /\ f = filt /\ FirsOK(old)
  BY <1>1 DEF ClocksParts, ClocksKept
<1>3. PICK firs : firs = [s \in Sides |-> IF s \in sides THEN [old[s] EXCEPT !.on = on] ELSE old[s]]
  OBVIOUS
<1>4. PICK none : none = [s \in Sides |-> IF s \in sides THEN [old[s] EXCEPT !.on = FALSE] ELSE old[s]]
  OBVIOUS
<1>5. PICK chains : chains = FilterChains(firs, filt)
  OBVIOUS
<1>6. PICK d : d = FALSE
  OBVIOUS
<1>7. Reclock("fir", 0, chains, firs, d, none) /\ UNCHANGED <<board, governor, filt>>
  BY <1>2, <1>3, <1>4, <1>5, <1>6, Zenon DEF EnableFir, Reclock
<1>8. firs \in FirType /\ none \in FirType
  BY <1>2, <1>3, <1>4, ZenonT(60) DEF FirType
<1>9. FirsOK(none)
  <2>1. ASSUME NEW side \in Sides, none[side].on PROVE none[side].by \in {1, 2, 4}
    <3>1. CASE side \in sides
      <4>1. old[side] \in [on : BOOLEAN, by : Decimates \cup {0}, taps : TapCounts \cup {0}]
        BY <1>2 DEF FirType
      <4>2. none[side] = [old[side] EXCEPT !.on = FALSE]
        BY <1>4, <3>1
      <4>3. none[side].on = FALSE
        BY <4>1, <4>2
      <4> QED BY <2>1, <4>3
    <3>2. CASE side \notin sides
      <4>1. none[side] = old[side]
        BY <1>4, <3>2
      <4> QED BY <1>2, <2>1, <4>1 DEF FirsOK
    <3> QED BY <3>1, <3>2
  <2> QED BY <1>8, <2>1, FirsOfType
<1>10. \A c \in chains : FirsOK(firs) /\ Writable(c, firs)
  <2>1. FilterChains(firs, f) = chains /\ ClocksKept
    BY <1>1, <1>2, <1>5, Zenon DEF ClocksParts
  <2> QED BY <1>8, <2>1, FilterChainsFit
<1>11. Leaves("fir", 0, chains, firs, none)
  BY <1>1, <1>7, <1>9, <1>10, Reclocked, Zenon DEF ClocksParts
<1>12. ClocksParts'
  <2>1. RateAsAsked'
    <3>1. last'.op = "fir"
      BY <1>11, Zenon DEF Leaves
    <3> QED BY <3>1 DEF RateAsAsked
  <2> QED BY <1>1, <1>7, <1>8, <1>11, <2>1, Zenon DEF ClocksParts, ClocksKept, Leaves
<1> QED BY <1>12, ClocksTyped, PTL

\* The filters a load leaves are ones the part has.
Refilled(firs, rx, tx, taps) == [s \in Sides |-> [firs[s] EXCEPT !.by = IF s = "rx" THEN rx ELSE tx, !.taps = taps]]
Switched(firs, on) == [s \in Sides |-> [firs[s] EXCEPT !.on = on]]

\* Filters just loaded, and switched, have their type.
LEMMA LoadedOfType ==
  ASSUME NEW old \in FirType, NEW rx \in Decimates, NEW tx \in Decimates, NEW taps \in TapCounts, NEW on \in BOOLEAN,
         NEW firs, firs = Switched(Refilled(old, rx, tx, taps), on)
  PROVE  firs \in FirType /\ FirsOK(firs)
<1>1. ASSUME NEW s \in Sides
      PROVE  /\ firs[s] \in [on : BOOLEAN, by : Decimates \cup {0}, taps : TapCounts \cup {0}]
             /\ firs[s].by \in Decimates
  <2>1. PICK b \in Decimates : b = IF s = "rx" THEN rx ELSE tx
    OBVIOUS
  <2>2. PICK R : R = [on : BOOLEAN, by : Decimates \cup {0}, taps : TapCounts \cup {0}]
    OBVIOUS
  <2>3. PICK o : o = old[s] /\ o \in R
    BY <2>2 DEF FirType
  <2>4. firs[s] = [[o EXCEPT !.by = b, !.taps = taps] EXCEPT !.on = on]
    BY <2>1, <2>3 DEF Refilled, Switched
  <2>5. firs[s] \in R /\ firs[s].by = b
    BY <2>2, <2>3, <2>4
  <2> QED BY <2>2, <2>5
<1>2. firs \in FirType
  BY <1>1 DEF FirType, Switched
<1>3. \A s \in Sides : firs[s].on => firs[s].by \in {1, 2, 4}
  BY <1>1, ClocksAssumption
<1> QED BY <1>2, <1>3, FirsOfType

\* ad9361_trx_load_enable_fir()
LEMMA LoadEnableFirKeeps ==
  ASSUME ClocksInv, NEW r \in FiltRates, NEW rx \in Decimates, NEW tx \in Decimates, NEW taps \in TapCounts,
         LoadEnableFir(r, rx, tx, taps)
  PROVE  ClocksInv'
<1>1. ClocksParts
  BY Zenon DEF ClocksInv, ClocksTypeOK, FirType, ClocksParts
<1>2. PICK old \in FirType : old = fir
  BY <1>1 DEF ClocksParts
<1>3. PICK on, no \in BOOLEAN : on = TRUE /\ no = FALSE
  OBVIOUS
<1>4. PICK firs : firs = Switched(Refilled(old, rx, tx, taps), on)
  OBVIOUS
<1>5. PICK none : none = Switched(Refilled(old, rx, tx, taps), no)
  OBVIOUS
<1>6. PICK chains : chains = FilterChains(firs, r)
  OBVIOUS
<1>7. PICK d : d = FALSE
  OBVIOUS
<1>0. LET all  == Switched(Refilled(fir, rx, tx, taps), TRUE)
          bare == Switched(Refilled(fir, rx, tx, taps), FALSE)
      IN  /\ filt' = r /\ UNCHANGED <<board, governor>>
          /\ \/ /\ fir' = all /\ last' = [op |-> "load", rate |-> 0, set |-> FALSE, ok |-> TRUE]
                /\ UNCHANGED <<chip, cached>>
             \/ Reclock("fir", 0, FilterChains(all, r), all, FALSE, bare)
  BY Zenon DEF LoadEnableFir, Switched, Refilled
<1>8. /\ filt' = r /\ UNCHANGED <<board, governor>>
      /\ \/ /\ fir' = firs /\ last' = [op |-> "load", rate |-> 0, set |-> FALSE, ok |-> TRUE]
            /\ UNCHANGED <<chip, cached>>
         \/ Reclock("fir", 0, chains, firs, d, none)
  BY <1>0, <1>2, <1>3, <1>4, <1>5, <1>6, <1>7, Zenon DEF Reclock
<1>9. firs \in FirType /\ FirsOK(firs)
  BY <1>4, LoadedOfType
<1>10. none \in FirType /\ FirsOK(none)
  BY <1>5, LoadedOfType
<1>11. CASE Reclock("fir", 0, chains, firs, d, none)
  <2>1. PICK f \in Nat : f = r
    BY ClocksAssumption
  <2>2. \A c \in chains : FirsOK(firs) /\ Writable(c, firs)
    <3>1. FilterChains(firs, f) = chains /\ ClocksKept
      BY <1>1, <1>6, <2>1, Zenon DEF ClocksParts
    <3> QED BY <1>9, <3>1, FilterChainsFit
  <2>3. Leaves("fir", 0, chains, firs, none)
    BY <1>1, <1>10, <1>11, <2>2, Reclocked, Zenon DEF ClocksParts
  <2>4. RateAsAsked'
    <3>1. last'.op = "fir"
      BY <2>3, Zenon DEF Leaves
    <3> QED BY <3>1 DEF RateAsAsked
  <2>5. filt' \in Nat /\ filt' \in FiltRates \cup {0}
    BY <1>8, <2>1
  <2>6. ClocksParts'
    BY <1>1, <1>8, <1>9, <1>10, <2>3, <2>4, <2>5, Zenon DEF ClocksParts, ClocksKept, Leaves
  <2> QED BY <2>6, ClocksTyped, PTL
<1>12. CASE /\ fir' = firs /\ last' = [op |-> "load", rate |-> 0, set |-> FALSE, ok |-> TRUE]
            /\ UNCHANGED <<chip, cached>>
  <2>1. last'.op = "load" /\ last'.set = FALSE
    BY <1>12
  <2>2. RateAsAsked' /\ FilterInForce'
    BY <2>1 DEF RateAsAsked, FilterInForce
  <2>3. ChipOK(chip') /\ CacheFresh' /\ WithinLimits'
    BY <1>1, <1>12, Zenon DEF ClocksParts, ClocksKept, CacheFresh, WithinLimits
  <2>4. filt' \in Nat /\ filt' \in FiltRates \cup {0}
    BY <1>8, ClocksAssumption
  <2>5. ClocksParts'
    BY <1>1, <1>8, <1>9, <1>12, <2>2, <2>3, <2>4, Zenon DEF ClocksParts, ClocksKept
  <2> QED BY <2>5, ClocksTyped, PTL
<1> QED BY <1>8, <1>11, <1>12

\* ad9361_load_fir_filter_coef()
LEMMA LoadFirKeeps ==
  ASSUME ClocksInv, NEW side \in Sides, NEW by \in Decimates, NEW taps \in TapCounts, LoadFir(side, by, taps)
  PROVE  ClocksInv'
<1>1. ClocksParts
  BY Zenon DEF ClocksInv, ClocksTypeOK, FirType, ClocksParts
<1>2. PICK old \in FirType : old = fir /\ FirsOK(old)
  BY <1>1 DEF ClocksParts, ClocksKept
<1>3. /\ fir' = [old EXCEPT ![side].by = by, ![side].taps = IF TapsOK(taps) THEN taps ELSE @]
      /\ last' = [op |-> "load", rate |-> 0, set |-> FALSE, ok |-> TapsOK(taps)]
      /\ UNCHANGED <<board, governor, filt, chip, cached>>
  BY <1>2, Zenon DEF LoadFir
<1>4. last'.op = "load" /\ last'.set = FALSE
  BY <1>3
<1>5. RateAsAsked' /\ FilterInForce'
  BY <1>4 DEF RateAsAsked, FilterInForce
<1>6. ChipOK(chip') /\ CacheFresh' /\ WithinLimits'
  BY <1>1, <1>3, Zenon DEF ClocksParts, ClocksKept, CacheFresh, WithinLimits
<1>7. PICK R : R = [on : BOOLEAN, by : Decimates \cup {0}, taps : TapCounts \cup {0}]
  OBVIOUS
<1>8. PICK firs : firs = fir'
  OBVIOUS
<1>9. old \in [Sides -> R]
  BY <1>2, <1>7 DEF FirType
<1>10. PICK o : o = old[side] /\ o \in R
  BY <1>9
<1>11. PICK n \in TapCounts \cup {0} : n = IF TapsOK(taps) THEN taps ELSE o.taps
  BY <1>7, <1>10
<1>12. PICK x : x = [o EXCEPT !.by = by, !.taps = n]
  OBVIOUS
<1>13. x \in R /\ x.by = by /\ x.on = o.on
  BY <1>7, <1>10, <1>12
<1>14. firs = [old EXCEPT ![side] = x]
  BY <1>3, <1>8, <1>10, <1>11, <1>12
<1>15. firs \in [Sides -> R] /\ firs[side] = x /\ \A s \in Sides : s # side => firs[s] = old[s]
  BY <1>9, <1>13, <1>14
<1>16. \A s \in Sides : firs[s].on => firs[s].by \in {1, 2, 4}
  BY <1>2, <1>13, <1>15, ClocksAssumption DEF FirsOK
<1>17. firs \in FirType /\ FirsOK(firs)
  BY <1>7, <1>15, <1>16, FirsOfType DEF FirType
<1>18. ClocksParts'
  BY <1>1, <1>3, <1>5, <1>6, <1>8, <1>17, Zenon DEF ClocksParts, ClocksKept
<1> QED BY <1>18, ClocksTyped, PTL

\* ad9361_set_trx_rate_gov()
LEMMA SetGovernorKeeps ==
  ASSUME ClocksInv, NEW g \in {0, 1}, SetGovernor(g)
  PROVE  ClocksInv'
<1>1. ClocksParts
  BY Zenon DEF ClocksInv, ClocksTypeOK, FirType, ClocksParts
<1>2. /\ governor' = g /\ last' = [op |-> "governor", rate |-> 0, set |-> FALSE, ok |-> TRUE]
      /\ UNCHANGED <<board, fir, filt, chip, cached>>
  BY Zenon DEF SetGovernor
<1>3. last'.op = "governor" /\ last'.set = FALSE
  BY <1>2
<1>4. RateAsAsked' /\ FilterInForce'
  BY <1>3 DEF RateAsAsked, FilterInForce
<1>5. ClocksParts'
  BY <1>1, <1>2, <1>4, Zenon DEF ClocksParts, ClocksKept, CacheFresh, WithinLimits
<1> QED BY <1>5, ClocksTyped, PTL

\* Whatever the rates, the filters and the board, whatever the operations and whichever of
\* them fail: the rates the driver remembers are those of its registers, no clock exceeds
\* its limit, a rate that was set is the rate of both directions (but for the transmitter's
\* rows the table does not have), and the filters are on as they are noted.
THEOREM ClocksAreInForce == ClocksSpec => []ClocksInForce
<1>1. ClocksInv /\ [ClocksNext]_clocksVars => ClocksInv'
  <2> SUFFICES ASSUME ClocksInv, [ClocksNext]_clocksVars PROVE ClocksInv'
    OBVIOUS
  <2>1. CASE \E r \in Rates : SetSampling(r)
    BY <2>1, SetSamplingKeeps
  <2>2. CASE \E sides \in {{"rx"}, {"tx"}, Sides}, on \in BOOLEAN : EnableFir(sides, on)
    BY <2>2, EnableFirKeeps
  <2>3. CASE \E side \in Sides, by \in Decimates, taps \in TapCounts : LoadFir(side, by, taps)
    BY <2>3, LoadFirKeeps
  <2>4. CASE \E r \in FiltRates, rx, tx \in Decimates, taps \in TapCounts : LoadEnableFir(r, rx, tx, taps)
    BY <2>4, LoadEnableFirKeeps
  <2>5. CASE \E g \in {0, 1} : SetGovernor(g)
    BY <2>5, SetGovernorKeeps
  <2>6. CASE UNCHANGED clocksVars
    BY <2>6, Zenon DEF clocksVars, ClocksInv, ClocksTypeOK, ClocksKept, CacheFresh, WithinLimits, FilterInForce,
                       RateAsAsked, Sampling
  <2> QED BY <2>1, <2>2, <2>3, <2>4, <2>5, <2>6 DEF ClocksNext
<1>2. ClocksInv => ClocksInForce
  BY Zenon DEF ClocksInv, ClocksKept, ClocksInForce
<1> QED BY <1>1, <1>2, ClocksStart, PTL DEF ClocksSpec
=============================================================================
