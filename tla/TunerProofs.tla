---------------------------- MODULE TunerProofs ----------------------------
(***************************************************************************)
(* The digital interface.  What the console tuners keep to for any range   *)
(* of values and any failures of their transfers: the safety properties of *)
(* Tuner, by the invariant Inv.  And the driver's own tuning (DigTune), by *)
(* DigInv: it finds delays that pass and gives back what it borrows.       *)
(* Then the band control (ExtBand): what it keeps to, by BandInv.          *)
(***************************************************************************)
EXTENDS Tuner, DigTune, ExtBand, Arithmetic, SequenceTheorems, TLAPS

USE DEF Cell, Field, Tuners, Pair, Home, Registers, Typed

\* What a tuner reads is a value of the right kind, also after a failure.
LEMMA SeenTyped ==
  ASSUME NEW r, Typed(r, Cell), NEW bad PROVE Typed(Seen(r, bad), Cell)
  BY TunerAssumption DEF Seen

\* A write leaves values of the right kind.
LEMMA SetTyped ==
  ASSUME NEW p \in Tuners, NEW new, NEW bad, Set(p, new, bad), Typed(reg, Cell),
         pdRx \in Value("rx"),
         \A f \in Field : Home[f] \in Registers(p) => new[f] \in Value(f)
  PROVE  Typed(reg', Cell)
  BY DEF Set

\* A key asks for values a field can have.
LEMMA NearTyped ==
  ASSUME NEW f \in Field, NEW v \in Value(f) PROVE Near(f, v) \subseteq Value(f)
  BY DEF Near, Value

\* Reading changes nothing but the driver's copy of the RX delay.
LEMMA GetTyped ==
  ASSUME NEW p \in Tuners, NEW bad, Get(p, reg, bad), Typed(reg, Cell),
         pdRx \in Value("rx"), rxLost \in BOOLEAN
  PROVE  pdRx' \in Value("rx") /\ rxLost' \in BOOLEAN
  BY SeenTyped DEF Get

\* Transfers fail only for the registers of the tuner.
LEMMA FailingTyped ==
  ASSUME NEW p \in Tuners, NEW bad \in Failing(p) PROVE bad \subseteq Registers(p)
  BY DEF Failing

-----------------------------------------------------------------------------
\* Every reachable state is well typed: no failed transfer and no key brings a
\* value out of its range into a register or onto the screen.
THEOREM Typing == Spec => []TypeOK
<1>1. Init => TypeOK
  BY TunerAssumption DEF Init, TypeOK, Value
<1>2. TypeOK /\ [Next]_vars => TypeOK'
  <2> SUFFICES ASSUME TypeOK, [Next]_vars PROVE TypeOK'
    OBVIOUS
  <2> USE DEF TypeOK
  <2>1. ASSUME NEW p \in Tuners, ReadValues(p) PROVE TypeOK'
    BY <2>1, GetTyped DEF ReadValues, local, hist
  <2>2. ASSUME NEW p \in Tuners, Assign(p) PROVE TypeOK'
    <3>1. PICK new \in Choices(p), bad \in Failing(p) : Set(p, new, bad)
      BY <2>2 DEF Assign
    <3>2. \A f \in Field : Home[f] \in Registers(p) => new[f] \in Value(f)
      <4>1. CASE p = "delay"
        <5>1. new \in [{"fb", "td"} -> 0..Max]
          BY <4>1 DEF Choices
        <5>2. new["fb"] \in 0..Max /\ new["td"] \in 0..Max
          BY <5>1
        <5>3. \A f \in Field : Home[f] \in Registers(p) => f \in {"fb", "td"}
          BY <4>1
        <5>4. Value("fb") = 0..Max /\ Value("td") = 0..Max
          BY DEF Value
        <5> QED BY <5>2, <5>3, <5>4
      <4>2. CASE p = "invert"
        BY <4>2 DEF Choices, Value
      <4> QED BY <4>1, <4>2
    <3>3. Typed(reg', Cell)
      BY <3>1, <3>2, SetTyped
    <3>4. UNCHANGED <<pdRx, rxLost, pc, said, local, hist>>
      BY <2>2 DEF Assign
    <3> QED BY <3>3, <3>4 DEF local, hist
  <2>3. ASSUME NEW p \in Tuners, Open(p) PROVE TypeOK'
    BY <2>3, GetTyped DEF Open, Show, local, hist
  <2>4. CASE Back
    BY <2>4, TunerAssumption DEF Back, Forget
  <2>5. ASSUME NEW f \in Field, Choose(f) PROVE TypeOK'
    <3>1. PICK bad \in Failing(Pair[f]) :
            /\ Get(Pair[f], reg, bad)
            /\ cur' = [g \in Field |-> Seen(reg, bad)[g]]
            /\ value' = cur'[f] /\ original' = cur'[f]
            /\ start' = reg /\ misread' = bad /\ stale' = bad
      BY <2>5 DEF Choose
    <3>2. Typed(cur', Field) /\ cur'[f] \in Value(f)
      BY <3>1, SeenTyped
    <3>3. pdRx' \in Value("rx") /\ rxLost' \in BOOLEAN
      BY <3>1, GetTyped
    <3>4. bad \subseteq Registers(Pair[f])
      BY FailingTyped
    <3> QED BY <2>5, <3>1, <3>2, <3>3, <3>4 DEF Choose
  <2>6. ASSUME NEW v \in Value(field), Apply(v)
        PROVE  Typed(cur', Field) /\ Typed(reg', Cell) /\ stale' \subseteq Registers(Pair[field])
    <3>1. PICK bad \in Failing(Pair[field]) :
            cur' = [cur EXCEPT ![field] = v] /\ Set(Pair[field], cur', bad) /\ stale' = bad
      BY <2>6 DEF Apply
    <3>2. DOMAIN cur' = Field /\ \A g \in Field : cur'[g] = IF g = field THEN v ELSE cur[g]
      BY <3>1
    <3>3. Typed(cur', Field)
      BY <2>6, <3>2
    <3>4. Typed(reg', Cell)
      BY <3>1, <3>3 DEF Set
    <3> QED BY <3>1, <3>3, <3>4, FailingTyped
  <2>7. CASE Key
    <3>1. PICK v \in Near(field, value) : Apply(v) /\ value' = v
      BY <2>7 DEF Key
    <3>2. v \in Value(field)
      BY NearTyped
    <3> QED BY <2>6, <2>7, <3>1, <3>2 DEF Key
  <2>8. CASE Save
    BY <2>8, GetTyped DEF Save, Show, local, hist
  <2>9. CASE Cancel
    <3>1. PICK bad : Get(Pair[field], reg', bad)
      BY <2>9 DEF Cancel, Show
    <3>2. Typed(cur', Field) /\ Typed(reg', Cell) /\ stale' \subseteq Registers(Pair[field])
      BY <2>6, <2>9 DEF Cancel
    <3>3. pdRx' \in Value("rx") /\ rxLost' \in BOOLEAN
      BY <3>1, <3>2, SeenTyped DEF Get
    <3> QED BY <2>9, <3>2, <3>3 DEF Cancel, Show
  <2>10. CASE Eof
    <3>1. pdRx' \in Value("rx") /\ rxLost' \in BOOLEAN
      BY <2>10, GetTyped DEF Eof
    <3> QED BY <2>10, <3>1, TunerAssumption DEF Eof, Forget
  <2>11. CASE UNCHANGED vars
    BY <2>11 DEF vars, local, hist
  <2> QED BY <2>1, <2>2, <2>3, <2>4, <2>5, <2>7, <2>8, <2>9, <2>10, <2>11 DEF Next
<1> QED BY <1>1, <1>2, PTL DEF Spec

-----------------------------------------------------------------------------
\* As long as RX_DELAY is read without an error, no operation changes it: every
\* write restores what pdata holds, and pdata holds what was there.
THEOREM RxDelay == Spec => []RxKept
<1> DEFINE J == RxHeld /\ RxKept
<1> USE DEF RxHeld, RxKept
<1>1. Init => J
  BY DEF Init
<1>2. TypeOK /\ J /\ [Next]_vars => J'
  <2> SUFFICES ASSUME TypeOK, J, [Next]_vars PROVE J'
    OBVIOUS
  <2>1. ASSUME NEW p \in Tuners, NEW bad, Get(p, reg, bad), UNCHANGED <<reg, rx0>> PROVE J'
    BY <2>1 DEF Get, Seen
  <2>2. ASSUME NEW p \in Tuners, NEW new, NEW bad, Set(p, new, bad)
        PROVE  ~ rxLost => reg'["rx"] = rx0
    BY <2>2 DEF Set
  <2>3. ASSUME NEW p \in Tuners, ReadValues(p) \/ Open(p) PROVE J'
    BY <2>1, <2>3 DEF ReadValues, Open, Show, hist
  <2>4. ASSUME NEW p \in Tuners, Assign(p) PROVE J'
    BY <2>2, <2>4 DEF Assign, hist
  <2>5. CASE Back
    BY <2>5 DEF Back, Forget
  <2>6. ASSUME NEW f \in Field, Choose(f) PROVE J'
    BY <2>1, <2>6 DEF Choose
  <2>7. ASSUME NEW v, Apply(v) PROVE ~ rxLost => reg'["rx"] = rx0
    <3> Pair[field] \in Tuners
      BY DEF TypeOK
    <3> QED BY <2>7 DEF Apply, Set
  <2>8. CASE Key
    BY <2>7, <2>8 DEF Key
  <2>9. CASE Save \/ Eof
    <3> Pair[field] \in Tuners
      BY DEF TypeOK
    <3> QED BY <2>1, <2>9 DEF Save, Show, Eof, Forget, hist
  <2>10. CASE Cancel
    <3>1. PICK bad : Get(Pair[field], reg', bad)
      BY <2>10 DEF Cancel, Show
    <3>2. ~ rxLost => reg'["rx"] = rx0
      BY <2>7, <2>10 DEF Cancel
    <3> QED BY <2>10, <3>1, <3>2 DEF Cancel, Get, Seen
  <2>11. CASE UNCHANGED vars
    BY <2>11 DEF vars, local, hist
  <2> QED BY <2>3, <2>4, <2>5, <2>6, <2>8, <2>9, <2>10, <2>11 DEF Next
<1> QED BY <1>1, <1>2, Typing, PTL DEF Spec

-----------------------------------------------------------------------------
\* What is true of the field being tuned, and of the one tuned last.
Tuned == Said /\ CopiesFollow /\ ShownIsSet /\ OthersKept /\ CancelReverts

\* Writing a value of the field: the field has it if the write did not fail, and
\* the others keep theirs.
LEMMA ApplyKeeps ==
  ASSUME TypeOK, Tuned, pc = "field", NEW v, Apply(v)
  PROVE  /\ cur' = [cur EXCEPT ![field] = v]
         /\ reg'[field] = v \/ Home[field] \in stale'
         /\ \A g \in Field \ {field} : reg'[g] = start[g] \/ Home[g] \in misread
<1> USE DEF TypeOK
<1>1. PICK bad \in Failing(Pair[field]) :
        cur' = [cur EXCEPT ![field] = v] /\ Set(Pair[field], cur', bad) /\ stale' = bad
  BY DEF Apply
<1>2. \A g \in Field : cur'[g] = IF g = field THEN v ELSE cur[g]
  BY <1>1
<1>3. \A g \in Field : Home[g] \in Registers(Pair[field]) <=> Pair[g] = Pair[field]
  OBVIOUS
<1>4. \A g \in Field : reg'[g] = IF Pair[g] = Pair[field] /\ Home[g] \notin bad
                                 THEN cur'[g] ELSE reg[g]
  BY <1>1, <1>3 DEF Set
<1>5. \A g \in Field \ {field} : reg[g] = start[g] \/ Home[g] \in misread
  BY DEF Tuned, OthersKept
<1>6. \A g \in Field \ {field} :
        Pair[g] = Pair[field] => cur[g] = start[g] \/ Home[g] \in misread
  BY DEF Tuned, CopiesFollow
<1> QED BY <1>1, <1>2, <1>4, <1>5, <1>6

\* What is true of the field being tuned, of the tuner's copies and of the other fields.
LEMMA TunedHolds == Spec => []Tuned
<1>1. Init => Tuned
  BY DEF Init, Tuned, Said, CopiesFollow, ShownIsSet, OthersKept, CancelReverts
<1>2. TypeOK /\ Tuned /\ [Next]_vars => Tuned'
  <2> SUFFICES ASSUME TypeOK, Tuned, [Next]_vars PROVE Tuned'
    OBVIOUS
  <2> USE DEF TypeOK, Tuned, Said
  <2>1. ASSUME pc' \in {"console"} \cup Tuners, said' = "none" PROVE Tuned'
    BY <2>1 DEF CopiesFollow, ShownIsSet, OthersKept, CancelReverts
  <2>2. ASSUME NEW p \in Tuners, ReadValues(p) \/ Assign(p) \/ Open(p) PROVE Tuned'
    BY <2>1, <2>2 DEF ReadValues, Assign, Open, Show
  <2>3. CASE Back \/ Eof
    BY <2>1, <2>3 DEF Back, Eof, Forget
  <2>4. ASSUME NEW f \in Field, Choose(f) PROVE Tuned'
    <3>1. PICK bad : /\ cur' = [g \in Field |-> Seen(reg, bad)[g]]
                     /\ value' = cur'[f] /\ original' = cur'[f]
                     /\ start' = reg /\ misread' = bad /\ stale' = bad
      BY <2>4 DEF Choose
    <3>2. \A g \in Field : cur'[g] = reg[g] \/ Home[g] \in bad
      BY <3>1 DEF Seen
    <3>3. pc' = "field" /\ field' = f /\ said' = "none" /\ reg' = reg
      BY <2>4 DEF Choose
    <3> QED BY <3>1, <3>2, <3>3 DEF CopiesFollow, ShownIsSet, OthersKept, CancelReverts
  <2>5. CASE Key
    <3>1. PICK v : Apply(v) /\ value' = v
      BY <2>5 DEF Key
    <3>2. UNCHANGED <<pc, field, original, said, start, misread>> /\ pc = "field"
      BY <2>5 DEF Key
    <3>3. /\ cur' = [cur EXCEPT ![field] = v]
          /\ reg'[field] = v \/ Home[field] \in stale'
          /\ \A g \in Field \ {field} : reg'[g] = start[g] \/ Home[g] \in misread
      BY <3>1, <3>2, ApplyKeeps
    <3>4. \A g \in Field : cur'[g] = IF g = field THEN v ELSE cur[g]
      BY <3>3
    <3>5. CopiesFollow'
      BY <3>1, <3>2, <3>4 DEF CopiesFollow
    <3>6. ShownIsSet' /\ OthersKept' /\ CancelReverts'
      BY <3>1, <3>2, <3>3 DEF ShownIsSet, OthersKept, CancelReverts
    <3> QED BY <3>2, <3>5, <3>6
  <2>6. CASE Save
    BY <2>6 DEF Save, Show, local, hist, CopiesFollow, ShownIsSet, OthersKept, CancelReverts
  <2>7. CASE Cancel
    <3>1. UNCHANGED <<field, value, original, start, misread>> /\ pc = "field"
            /\ said' = "reverted" /\ pc' = Pair[field] /\ Apply(original)
      BY <2>7 DEF Cancel, Show
    <3>2. /\ reg'[field] = original \/ Home[field] \in stale'
          /\ \A g \in Field \ {field} : reg'[g] = start[g] \/ Home[g] \in misread
      BY <3>1, ApplyKeeps
    <3>3. Said' /\ CopiesFollow' /\ ShownIsSet' /\ OthersKept'
      BY <3>1, <3>2 DEF CopiesFollow, ShownIsSet, OthersKept
    <3>4. CancelReverts'
      BY <3>1, <3>2 DEF CopiesFollow, CancelReverts
    <3> QED BY <3>3, <3>4
  <2>8. CASE UNCHANGED vars
    BY <2>8 DEF vars, local, hist, CopiesFollow, ShownIsSet, OthersKept, CancelReverts
  <2> QED BY <2>2, <2>3, <2>4, <2>5, <2>6, <2>7, <2>8 DEF Next
<1> QED BY <1>1, <1>2, Typing, PTL DEF Spec

\* The value on the screen, or said to be saved, is in the chip if the last write
\* of its register succeeded, whatever failed before.
THEOREM ShownValue == Spec => []ShownIsSet
<1>1. Tuned => ShownIsSet
  BY DEF Tuned
<1> QED BY <1>1, TunedHolds, PTL

\* Tuning a field leaves the others as they were.
THEOREM OtherFields == Spec => []OthersKept
<1>1. Tuned => OthersKept
  BY DEF Tuned
<1> QED BY <1>1, TunedHolds, PTL

\* Cancelling puts the field back.
THEOREM Cancelling == Spec => []CancelReverts
<1>1. Tuned => CancelReverts
  BY DEF Tuned
<1> QED BY <1>1, TunedHolds, PTL

-----------------------------------------------------------------------------
(* The search for a delay. *)

\* The window found passes, from its first delay over its length.
LEMMA WindowFacts ==
  ASSUME NEW pass \in SUBSET (0..MaxDelay)
  PROVE  /\ Window(pass)[1] \in Nat /\ Window(pass)[2] \in Nat
         /\ \A i \in 0..(Window(pass)[2] - 1) : Window(pass)[1] + i \in pass
<1> DEFINE runs == {r \in (0..MaxDelay) \X (0..MaxDelay + 1) : \A i \in 0..r[2] - 1 : r[1] + i \in pass}
           better(r, q) == q[2] < r[2] \/ (q[2] = r[2] /\ r[1] <= q[1])
           w == CHOOSE r \in runs : \A q \in runs : better(r, q)
<1>1. MaxDelay \in Nat
  BY DigTuneAssumption
<1>2. /\ \A r \in runs : /\ r[1] \in Nat /\ r[2] \in Nat /\ r[2] <= MaxDelay + 1
                         /\ \A i \in 0..(r[2] - 1) : r[1] + i \in pass
      /\ <<0, 0>> \in runs
  BY <1>1
<1>3. Window(pass) = w
  BY DEF Window
<1> HIDE DEF runs
<1>4. \E r \in runs : \A q \in runs : better(r, q)
  <2> DEFINE gaps == {MaxDelay + 1 - r[2] : r \in runs}
  <2>1. gaps \in SUBSET Nat /\ gaps # {}
    BY <1>1, <1>2
  <2>2. PICK m \in gaps : \A x \in gaps : m <= x
    BY <2>1, Least
  <2>3. PICK a \in runs : m = MaxDelay + 1 - a[2]
    BY <2>2
  <2>4. \A r \in runs : r[2] <= a[2]
    <3> SUFFICES ASSUME NEW r \in runs
                 PROVE  r[2] <= a[2]
      OBVIOUS
    <3>1. PICK x \in Nat : x = r[2]
      BY <1>2
    <3>2. PICK y \in Nat : y = a[2]
      BY <1>2
    <3>3. MaxDelay + 1 - x \in gaps
      BY <3>1
    <3>4. MaxDelay + 1 - y <= MaxDelay + 1 - x
      BY <2>2, <2>3, <3>2, <3>3
    <3> QED BY <1>1, <3>1, <3>2, <3>4
  <2> DEFINE firsts == {n \in Nat : \E r \in runs : r[2] = a[2] /\ r[1] = n}
  <2>5. firsts \in SUBSET Nat /\ firsts # {}
    BY <1>2, <2>3
  <2>6. PICK f \in firsts : \A x \in firsts : f <= x
    BY <2>5, Least
  <2>7. PICK b \in runs : b[2] = a[2] /\ b[1] = f
    BY <2>6
  <2>8. ASSUME NEW q \in runs
        PROVE  better(b, q)
    <3>1. CASE q[2] = a[2]
      <4>1. q[1] \in firsts
        BY <1>2, <3>1
      <4> QED BY <2>6, <2>7, <3>1, <4>1
    <3>2. CASE q[2] # a[2]
      BY <1>2, <2>3, <2>4, <2>7, <3>2
    <3> QED BY <3>1, <3>2
  <2> QED BY <2>7, <2>8
<1> HIDE DEF better
<1>5. w \in runs
  BY <1>4
<1> HIDE DEF w
<1> QED BY <1>2, <1>3, <1>5

\* The middle of a window passes.
LEMMA MidFacts ==
  ASSUME NEW pass \in SUBSET (0..MaxDelay), Window(pass)[2] # 0
  PROVE  Mid(Window(pass)) \in pass /\ Mid(Window(pass)) \in 0..MaxDelay
<1>1. PICK n \in Nat : n = Window(pass)[2]
  BY WindowFacts
<1>2. n \div 2 \in 0..(n - 1)
  BY <1>1
<1>3. Window(pass)[1] + n \div 2 \in pass
  BY <1>1, <1>2, WindowFacts
<1> QED BY <1>1, <1>3 DEF Mid

\* A pair of delays.
DelayState == [clk : 0..MaxDelay, data : 0..MaxDelay]

\* A delay the search chooses passes at every rate tried.
LEMMA ChosenFacts ==
  ASSUME NEW d, NEW rates
  PROVE  \A x \in Chosen(d, rates) : x \in DelayState /\ x.clk - x.data \in Passing(d, rates)
<1> DEFINE pass == Passing(d, rates)
           dset == {j \in 0..MaxDelay : -j \in pass}
           cset == {j \in 0..MaxDelay : j \in pass}
           data == Window(dset)
           clk == Window(cset)
<1>1. MaxDelay \in Nat /\ 0 \in 0..MaxDelay
  BY DigTuneAssumption
<1>2. Chosen(d, rates) = IF data[2] = 0 /\ clk[2] = 0 THEN {}
                         ELSE IF clk[2] > data[2] THEN {Delays(Mid(clk), 0)} ELSE {Delays(0, Mid(data))}
  BY DEF Chosen
<1>3. data[2] \in Nat /\ clk[2] \in Nat
  BY WindowFacts
<1>4. clk[2] # 0 => Mid(clk) \in cset /\ Mid(clk) \in 0..MaxDelay
  BY MidFacts
<1>5. data[2] # 0 => Mid(data) \in dset /\ Mid(data) \in 0..MaxDelay
  BY MidFacts
<1>6. \A j \in 0..MaxDelay : (j \in cset <=> j - 0 \in pass) /\ (j \in dset <=> 0 - j \in pass)
  BY <1>1
<1> HIDE DEF data, clk, cset, dset, pass
<1>7. \A x : Delays(x, 0).clk = x /\ Delays(x, 0).data = 0 /\ Delays(0, x).clk = 0 /\ Delays(0, x).data = x
  BY DEF Delays
<1>8. CASE clk[2] > data[2]
  <2>1. Chosen(d, rates) = {Delays(Mid(clk), 0)}
    BY <1>2, <1>3, <1>8
  <2>2. Mid(clk) \in 0..MaxDelay /\ Mid(clk) - 0 \in pass
    BY <1>3, <1>4, <1>6, <1>8
  <2>3. Delays(Mid(clk), 0) \in DelayState
    BY <1>1, <2>2 DEF DelayState, Delays
  <2> QED BY <1>7, <2>1, <2>2, <2>3 DEF pass
<1>9. CASE ~(clk[2] > data[2]) /\ data[2] # 0
  <2>1. Chosen(d, rates) = {Delays(0, Mid(data))}
    BY <1>2, <1>9
  <2>2. Mid(data) \in 0..MaxDelay /\ 0 - Mid(data) \in pass
    BY <1>5, <1>6, <1>9
  <2>3. Delays(0, Mid(data)) \in DelayState
    BY <1>1, <2>2 DEF DelayState, Delays
  <2> QED BY <1>7, <2>1, <2>2, <2>3 DEF pass
<1>10. CASE ~(clk[2] > data[2]) /\ data[2] = 0
  BY <1>2, <1>3, <1>10
<1> QED BY <1>8, <1>9, <1>10

-----------------------------------------------------------------------------
(* The state of a tuning. *)

\* The calls' stages, those in which blocks are borrowed, and the flags a call may have.
Stages  == {"idle", "begin", "rx", "tx", "scan", "after", "settle", "next"}
AtWork  == {"rx", "tx", "scan", "after"}
Flags   == {{"most"}, {"most", "default"}, {"temporary"}, {"default"}}

LineState  == [eye : Eyes, core : Cores, skip : SkipModes, fdd : BOOLEAN, retunes : BOOLEAN, fir : BOOLEAN]
BistState  == [reg : {"off", "prbs", "user"}, noted : {"off", "prbs", "user"}, loop : 0..2]
DacState   == [src : {"dma", "pn", "adc"}, lb : BOOLEAN, scratch : {"dma", "pn", "adc"}]
EnsmState  == [state : {"alert", "fdd", "rx"}, duplex : BOOLEAN]
TuneState ==
  [pc : Stages, flags : Flags, todo : Seq({{"default"}}), n : Nat, restore : BOOLEAN,
   failed : BOOLEAN, was : {"alert", "fdd", "rx"}, gen : BistState, dac : DacState,
   start : [gen : BistState, dac : DacState, ensm : EnsmState]]

DigTyped ==
  /\ line \in LineState /\ delay \in [Dirs -> DelayState] /\ kept \in [Dirs -> DelayState]
  /\ power \in [now : TxPower, cached : TxPower] /\ clkAt \in DigRates
  /\ gen \in BistState /\ dac \in DacState /\ ensm \in EnsmState /\ tune \in TuneState

\* What the DAC core's source and loopback can be while no pattern is sent.
SourceOK(d) ==
  /\ d.src # "pn" /\ d.scratch = "dma"
  /\ line.core = 7 => d.src # "adc"
  /\ line.core # 7 => ~d.lb

\* The BIST and the DAC core as the call found them, as far as the notes were true.
GivenBack ==
  LET s == tune.start
  IN  /\ gen.loop = s.gen.loop
      /\ s.gen.noted = s.gen.reg => gen.reg = s.gen.reg
      /\ (s.gen.loop = 2) = (s.dac.src = "adc" \/ s.dac.lb) => dac.src = s.dac.src /\ dac.lb = s.dac.lb

\* What is borrowed at each stage, and what is remembered of it.
Borrowed ==
  /\ tune.pc \in AtWork => power.now = "muted" /\ "default" \notin tune.flags /\ tune.gen = tune.start.gen
  /\ tune.pc = "begin" /\ "default" \notin tune.flags => gen = tune.start.gen /\ dac = tune.start.dac
  /\ tune.pc # "scan" => SourceOK(dac)
  /\ SourceOK(tune.start.dac)
  /\ tune.pc = "rx" => dac = tune.start.dac
  /\ tune.pc \in {"tx", "after"} => dac = HdlLoopback(tune.start.dac, FALSE)
  /\ tune.pc = "scan" => tune.dac = HdlLoopback(tune.start.dac, FALSE)
  /\ tune.pc \in {"begin", "settle", "next"} => GivenBack

\* The ENSM's state to go back to, and the duplex of the part.
EnsmKept ==
  /\ tune.start.ensm.duplex = line.fdd
  /\ tune.pc \in AtWork \cup {"settle"} => tune.was = tune.start.ensm.state
  /\ tune.pc \in {"begin", "next"} => ensm = tune.start.ensm
  /\ tune.pc = "idle" => ensm.duplex = line.fdd

Passes(d) ==
  \A r \in DigRates : "most" \in tune.flags \/ r = clkAt =>
    delay[d].clk - delay[d].data \in line.eye[d][r]

\* The directions searched so far have a delay that passes.
Searched ==
  /\ tune.pc \in {"rx", "tx", "scan"} => ~tune.restore
  /\ tune.pc \in {"tx", "scan"} => Passes("rx") /\ line.skip = 0
  /\ tune.pc \in {"after", "settle"} /\ ~tune.restore => Passes("rx") /\ (line.skip = 0 => Passes("tx"))

\* Which calls make delays that last.
Lasting ==
  /\ tune.pc = "settle" /\ "default" \in tune.flags => tune.restore
  /\ ~line.fir /\ tune.pc # "idle" => "temporary" \notin tune.flags
  /\ tune.pc = "next" /\ "temporary" \notin tune.flags => delay = kept

DigInv ==
  DigTyped /\ Borrowed /\ EnsmKept /\ Searched /\ Lasting /\ PatternIsMuted /\ DefaultsWithoutFir

\* Only the call at the start stores delays.
StoresAtStart == kept' # kept => "most" \in tune.flags

\* Looping back leaves a core of the right type, and sends no pattern.
LEMMA LoopTyped ==
  ASSUME NEW d \in DacState, NEW on \in BOOLEAN, SourceOK(d)
  PROVE  HdlLoopback(d, on) \in DacState /\ SourceOK(HdlLoopback(d, on))
<1>1. CASE line.core = 7
  BY <1>1 DEF HdlLoopback, SourceOK, DacState
<1>2. CASE line.core # 7
  BY <1>2 DEF HdlLoopback, SourceOK, DacState
<1> QED BY <1>1, <1>2

\* Loopback off twice is off once.
LEMMA LoopOff ==
  ASSUME NEW d \in DacState, SourceOK(d)
  PROVE  HdlLoopback(HdlLoopback(d, FALSE), FALSE) = HdlLoopback(d, FALSE)
<1>1. CASE line.core = 7
  BY <1>1 DEF HdlLoopback, SourceOK, DacState
<1>2. CASE line.core # 7
  BY <1>2 DEF HdlLoopback, SourceOK, DacState
<1> QED BY <1>1, <1>2

\* Off and back to what it was, where the note of it was true.
LEMMA LoopBack ==
  ASSUME NEW d \in DacState, SourceOK(d), NEW m, (m = 2) = (d.src = "adc" \/ d.lb)
  PROVE  LET q == HdlLoopback(HdlLoopback(d, FALSE), m = 2) IN q.src = d.src /\ q.lb = d.lb
<1>1. CASE line.core = 7
  BY <1>1 DEF HdlLoopback, SourceOK, DacState
<1>2. CASE line.core # 7
  BY <1>2 DEF HdlLoopback, SourceOK, DacState
<1> QED BY <1>1, <1>2

\* The call ad9361_post_setup() makes starts with everything in place.
LEMMA DigInitial == DigInit => DigInv
<1> SUFFICES ASSUME DigInit PROVE DigInv
  OBVIOUS
<1>1. PICK own \in {{}, {"default"}} :
        tune = [pc |-> "begin", flags |-> {"most"} \cup own, todo |-> <<>>, n |-> 0, restore |-> FALSE,
               failed |-> FALSE, was |-> ensm.state, gen |-> gen, dac |-> dac,
               start |-> [gen |-> gen, dac |-> dac, ensm |-> ensm]]
  BY DEF DigInit
<1>2. line \in LineState /\ ~line.fir
  BY DigTuneAssumption DEF DigInit, LineState
<1>3. Delays(0, 0) \in DelayState
  BY DigTuneAssumption DEF Delays, DelayState
<1>4. /\ delay \in [Dirs -> DelayState] /\ kept \in [Dirs -> DelayState]
      /\ power \in [now : TxPower, cached : TxPower] /\ power.now = "asked" /\ clkAt \in DigRates
  BY <1>3 DEF DigInit, TxPower, DigRates
<1>5. gen \in BistState /\ dac \in DacState /\ ensm \in EnsmState /\ ensm.duplex = line.fdd
  BY <1>2 DEF DigInit, BistState, DacState, EnsmState, LineState
<1>6. SourceOK(dac)
  BY DEF DigInit, SourceOK
<1>7. {"most"} \cup own \in Flags /\ "temporary" \notin {"most"} \cup own
  BY DEF Flags
<1>8. tune \in TuneState
  BY <1>1, <1>5, <1>7 DEF TuneState, Stages, EnsmState
<1>9. /\ tune.pc = "begin" /\ tune.flags = {"most"} \cup own
      /\ tune.start.gen = gen /\ tune.start.dac = dac /\ tune.start.ensm = ensm
  BY <1>1
<1>10. Borrowed
  BY <1>6, <1>9 DEF Borrowed, GivenBack, AtWork
<1>11. EnsmKept /\ Searched /\ PatternIsMuted /\ DefaultsWithoutFir
  BY <1>5, <1>6, <1>9 DEF EnsmKept, Searched, PatternIsMuted, DefaultsWithoutFir, AtWork, SourceOK
<1>12. Lasting
  BY <1>7, <1>9 DEF Lasting
<1> QED BY <1>2, <1>4, <1>5, <1>8, <1>10, <1>11, <1>12 DEF DigInv, DigTyped

\* Begin: muted and in FDD, or skipped with nothing touched.
LEMMA BeginStep == ASSUME DigInv, Begin PROVE DigInv' /\ StoresAtStart
<1>1. /\ tune.pc = "begin"
      /\ line' = line /\ delay' = delay /\ kept' = kept /\ gen' = gen /\ dac' = dac /\ clkAt' = clkAt
  BY DEF Begin
<1>2. ensm \in EnsmState /\ tune \in TuneState /\ gen \in BistState /\ power \in [now : TxPower, cached : TxPower]
  BY DEF DigInv, DigTyped
<1>3. CASE Skipped
  <2>1. tune' = [tune EXCEPT !.pc = "settle", !.was = ensm.state, !.restore = TRUE] /\ ensm' = ensm /\ power' = power
    BY <1>3 DEF Begin
  <2>2. /\ tune' \in TuneState /\ tune'.pc = "settle" /\ tune'.was = ensm.state /\ tune'.restore
        /\ tune'.start = tune.start /\ tune'.flags = tune.flags
    BY <1>2, <2>1 DEF TuneState, Stages, EnsmState
  <2>3. DigTyped'
    BY <1>1, <2>1, <2>2 DEF DigInv, DigTyped
  <2>4. Borrowed'
    BY <1>1, <2>1, <2>2 DEF DigInv, Borrowed, GivenBack, AtWork, SourceOK
  <2>5. EnsmKept' /\ Searched' /\ Lasting'
    BY <1>1, <2>1, <2>2 DEF DigInv, EnsmKept, AtWork, Searched, Lasting
  <2>6. PatternIsMuted' /\ DefaultsWithoutFir' /\ StoresAtStart
    BY <1>1, <2>1, <2>2 DEF DigInv, PatternIsMuted, DefaultsWithoutFir, StoresAtStart
  <2> QED BY <2>3, <2>4, <2>5, <2>6 DEF DigInv
<1>4. CASE ~Skipped
  <2>1. /\ tune' = [tune EXCEPT !.pc = "rx", !.was = ensm.state, !.restore = FALSE, !.gen = gen]
        /\ power' = [now |-> "muted", cached |-> power.now] /\ ensm' = [ensm EXCEPT !.duplex = TRUE]
        /\ "default" \notin tune.flags
    BY <1>4 DEF Begin, Skipped, TxMuted
  <2>2. /\ tune' \in TuneState /\ tune'.pc = "rx" /\ tune'.was = ensm.state /\ ~tune'.restore /\ tune'.gen = gen
        /\ tune'.start = tune.start /\ tune'.flags = tune.flags
    BY <1>2, <2>1 DEF TuneState, Stages, EnsmState
  <2>3. power' \in [now : TxPower, cached : TxPower] /\ power'.now = "muted" /\ ensm' \in EnsmState
    BY <1>2, <2>1 DEF TxPower, EnsmState
  <2>4. DigTyped'
    BY <1>1, <2>2, <2>3 DEF DigInv, DigTyped
  <2>5. Borrowed'
    BY <1>1, <2>1, <2>2, <2>3 DEF DigInv, Borrowed, GivenBack, AtWork, SourceOK
  <2>6. EnsmKept' /\ Searched' /\ Lasting'
    BY <1>1, <2>2 DEF DigInv, EnsmKept, AtWork, Searched, Lasting
  <2>7. PatternIsMuted' /\ DefaultsWithoutFir' /\ StoresAtStart
    BY <1>1, <2>2, <2>3 DEF DigInv, PatternIsMuted, DefaultsWithoutFir, StoresAtStart
  <2> QED BY <2>4, <2>5, <2>6, <2>7 DEF DigInv
<1> QED BY <1>3, <1>4

\* After a search of one direction it passes, or the search has failed.
LEMMA MeasuredFacts ==
  ASSUME DigInv, NEW d \in Dirs, NEW found, found = Chosen(d, Tried("most" \in tune.flags)),
         Measured(d, found), line' = line
  PROVE  /\ delay' \in [Dirs -> DelayState] /\ ensm' \in EnsmState /\ clkAt' \in DigRates
         /\ \A e \in Dirs : e # d => delay'[e] = delay[e]
         /\ "most" \notin tune.flags => clkAt' = clkAt
         /\ found # {} => \A r \in DigRates : "most" \in tune.flags \/ r = clkAt' =>
                            delay'[d].clk - delay'[d].data \in line.eye[d][r]
<1>1. /\ delay \in [Dirs -> DelayState] /\ ensm \in EnsmState /\ clkAt \in DigRates
  BY DEF DigInv, DigTyped
<1>2. Delays(MaxDelay, 0) \in DelayState
  BY DigTuneAssumption DEF Delays, DelayState
<1>3. ensm' \in EnsmState /\ clkAt' \in DigRates /\ ("most" \notin tune.flags => clkAt' = clkAt)
  BY <1>1 DEF Measured, EnsmState, DigRates
<1>4. CASE found = {}
  <2>1. delay' = [delay EXCEPT ![d] = Delays(MaxDelay, 0)]
    BY <1>4 DEF Measured
  <2> QED BY <1>1, <1>2, <1>3, <1>4, <2>1
<1>5. CASE found # {}
  <2>1. PICK x \in found : delay' = [delay EXCEPT ![d] = x]
    BY <1>5 DEF Measured
  <2>2. x \in DelayState /\ x.clk - x.data \in Passing(d, Tried("most" \in tune.flags))
    BY <2>1, ChosenFacts
  <2>3. delay' \in [Dirs -> DelayState] /\ delay'[d] = x /\ \A e \in Dirs : e # d => delay'[e] = delay[e]
    BY <1>1, <2>1, <2>2
  <2>4. \A r \in Tried("most" \in tune.flags) : x.clk - x.data \in line.eye[d][r]
    BY <2>2 DEF Passing
  <2>5. ASSUME NEW r \in DigRates, "most" \in tune.flags \/ r = clkAt'
        PROVE  r \in Tried("most" \in tune.flags)
    BY <1>3, <2>5 DEF Tried
  <2> QED BY <1>3, <2>3, <2>4, <2>5
<1> QED BY <1>4, <1>5

\* What the BIST is made to inject has its type.
LEMMA InjectedTyped ==
  ASSUME gen \in BistState, NEW g \in {"off", "prbs", "user"}, NEW m \in 0..2
  PROVE  Injecting(g) \in BistState /\ [Injecting(g) EXCEPT !.loop = m] \in BistState
<1>1. PICK q \in BistState : q = Injecting(g)
  BY DEF Injecting, BistState
<1>2. [q EXCEPT !.loop = m] \in BistState
  BY DEF BistState
<1> QED BY <1>1, <1>2

\* The receivers' search: the loopback is off, the delay passes or the defaults return.
LEMMA TuneRxStep == ASSUME DigInv, TuneRxDelay PROVE DigInv' /\ StoresAtStart
<1> DEFINE found == Chosen("rx", Tried("most" \in tune.flags))
           to == IF line.skip = 0 THEN "tx" ELSE "after"
<1>1. /\ tune.pc = "rx" /\ line' = line /\ kept' = kept /\ power' = power
      /\ gen' = [Injecting("prbs") EXCEPT !.loop = 0] /\ Looped(0)
      /\ Measured("rx", found)
      /\ IF found = {} THEN tune' = [tune EXCEPT !.pc = "after", !.restore = TRUE]
         ELSE tune' = [tune EXCEPT !.pc = to]
  BY DEF TuneRxDelay, TuneAt
<1>2. "rx" \in Dirs /\ "tx" \in Dirs /\ "tx" # "rx"
  BY DEF Dirs
<1>3. /\ delay' \in [Dirs -> DelayState] /\ ensm' \in EnsmState /\ clkAt' \in DigRates
      /\ "most" \notin tune.flags => clkAt' = clkAt
      /\ found # {} => \A r \in DigRates : "most" \in tune.flags \/ r = clkAt' =>
                         delay'["rx"].clk - delay'["rx"].data \in line.eye["rx"][r]
  BY <1>1, <1>2, MeasuredFacts
<1> HIDE DEF found
<1>4. /\ tune \in TuneState /\ gen \in BistState /\ dac \in DacState /\ line \in LineState
      /\ SourceOK(dac) /\ dac = tune.start.dac
  BY <1>1 DEF DigInv, DigTyped, Borrowed
<1>5. /\ tune' \in TuneState /\ tune'.pc \in {"tx", "after"} /\ tune'.was = tune.was /\ tune'.gen = tune.gen
      /\ tune'.start = tune.start /\ tune'.flags = tune.flags
      /\ tune'.restore \/ found # {}
      /\ tune'.pc = "tx" => ~tune'.restore /\ line.skip = 0
      /\ line.skip = 0 /\ ~tune'.restore => tune'.pc = "tx"
  <2>1. CASE found = {}
    BY <1>1, <1>4, <2>1, ZenonT(60) DEF TuneState, Stages
  <2>2. CASE found # {}
    <3>1. to \in {"tx", "after"} /\ (to = "tx" <=> line.skip = 0)
      OBVIOUS
    <3>2. tune' = [tune EXCEPT !.pc = to] /\ ~tune.restore
      BY <1>1, <2>2 DEF DigInv, Searched
    <3> HIDE DEF to
    <3> QED BY <1>4, <2>2, <3>1, <3>2 DEF TuneState, Stages
  <2> QED BY <2>1, <2>2
<1>6. gen' \in BistState
  <2>1. 0 \in 0..2
    OBVIOUS
  <2> QED BY <1>1, <1>4, <2>1, InjectedTyped
<1>7. dac' = HdlLoopback(tune.start.dac, FALSE) /\ dac' \in DacState /\ SourceOK(dac')
  <2>1. dac' = HdlLoopback(dac, 0 = 2)
    BY <1>1 DEF Looped
  <2>2. (0 = 2) = FALSE
    OBVIOUS
  <2>3. dac' = HdlLoopback(dac, FALSE)
    BY <2>1, <2>2, Zenon
  <2> QED BY <1>4, <2>3, LoopTyped
<1>8. DigTyped'
  BY <1>1, <1>3, <1>5, <1>6, <1>7 DEF DigInv, DigTyped
<1>9. \A d, on : HdlLoopback(d, on)' = HdlLoopback(d, on)
  BY <1>1 DEF HdlLoopback
<1>10. Borrowed'
  BY <1>1, <1>5, <1>7, <1>9 DEF DigInv, Borrowed, AtWork, SourceOK
<1>11. EnsmKept'
  BY <1>1, <1>5 DEF DigInv, EnsmKept, AtWork
<1>12. Searched'
  BY <1>1, <1>3, <1>5 DEF Searched, Passes
<1>13. Lasting' /\ DefaultsWithoutFir' /\ StoresAtStart
  BY <1>1, <1>5 DEF DigInv, Lasting, DefaultsWithoutFir, StoresAtStart
<1>14. PatternIsMuted'
  BY <1>1, <1>5 DEF DigInv, PatternIsMuted
<1> QED BY <1>8, <1>10, <1>11, <1>12, <1>13, <1>14 DEF DigInv

\* The pattern is sent, by a transmitter that is muted.
LEMMA SendStep == ASSUME DigInv, SendPattern PROVE DigInv' /\ StoresAtStart
<1> DEFINE open == HdlLoopback(dac, FALSE)
<1>1. /\ tune.pc = "tx" /\ line' = line /\ delay' = delay /\ kept' = kept /\ power' = power
      /\ ensm' = ensm /\ clkAt' = clkAt
      /\ gen' = [Injecting("off") EXCEPT !.loop = 1]
      /\ dac' = [open EXCEPT !.src = "pn"] /\ tune' = [tune EXCEPT !.pc = "scan", !.dac = open]
  BY DEF SendPattern
<1>2. /\ tune \in TuneState /\ gen \in BistState /\ dac \in DacState
      /\ SourceOK(dac) /\ dac = HdlLoopback(tune.start.dac, FALSE)
      /\ tune.start.dac \in DacState /\ SourceOK(tune.start.dac)
  BY <1>1 DEF DigInv, DigTyped, Borrowed, TuneState
<1>3. open = HdlLoopback(tune.start.dac, FALSE) /\ open \in DacState
  BY <1>2, LoopOff, LoopTyped
<1> HIDE DEF open
<1>4. /\ tune' \in TuneState /\ tune'.pc = "scan" /\ tune'.was = tune.was /\ tune'.gen = tune.gen
      /\ tune'.start = tune.start /\ tune'.flags = tune.flags /\ tune'.dac = open
      /\ (tune'.restore <=> tune.restore)
  BY <1>1, <1>2, <1>3 DEF TuneState, Stages
<1>5. gen' \in BistState /\ dac' \in DacState
  <2>1. 1 \in 0..2
    OBVIOUS
  <2>2. gen' \in BistState
    BY <1>1, <1>2, <2>1, InjectedTyped
  <2>3. dac' \in DacState
    BY <1>1, <1>3 DEF DacState
  <2> QED BY <2>2, <2>3
<1>6. DigTyped'
  BY <1>1, <1>4, <1>5 DEF DigInv, DigTyped
<1>7. \A d, on : HdlLoopback(d, on)' = HdlLoopback(d, on)
  BY <1>1 DEF HdlLoopback
<1>8. Borrowed'
  BY <1>1, <1>3, <1>4, <1>7 DEF DigInv, Borrowed, AtWork, SourceOK
<1>9. EnsmKept'
  BY <1>1, <1>4 DEF DigInv, EnsmKept, AtWork
<1>10. Searched'
  BY <1>1, <1>4 DEF DigInv, Searched, Passes
<1>11. Lasting' /\ DefaultsWithoutFir' /\ StoresAtStart
  BY <1>1, <1>4 DEF DigInv, Lasting, DefaultsWithoutFir, StoresAtStart
<1>12. PatternIsMuted'
  BY <1>1, <1>4 DEF DigInv, PatternIsMuted
<1> QED BY <1>6, <1>8, <1>9, <1>10, <1>11, <1>12 DEF DigInv

\* The transmitters' search: the DAC core's source is put back.
LEMMA TuneTxStep == ASSUME DigInv, TuneTxDelay PROVE DigInv' /\ StoresAtStart
<1> DEFINE found == Chosen("tx", Tried("most" \in tune.flags))
           none == found = {}
<1>1. /\ tune.pc = "scan" /\ line' = line /\ kept' = kept /\ power' = power /\ gen' = gen
      /\ dac' = tune.dac /\ Measured("tx", found)
      /\ tune' = [tune EXCEPT !.pc = "after", !.restore = none]
  BY DEF TuneTxDelay
<1>2. "rx" \in Dirs /\ "tx" \in Dirs /\ "tx" # "rx" /\ none \in BOOLEAN
  BY DEF Dirs
<1>3. /\ delay' \in [Dirs -> DelayState] /\ ensm' \in EnsmState /\ clkAt' \in DigRates
      /\ delay'["rx"] = delay["rx"]
      /\ "most" \notin tune.flags => clkAt' = clkAt
      /\ ~none => \A r \in DigRates : "most" \in tune.flags \/ r = clkAt' =>
                         delay'["tx"].clk - delay'["tx"].data \in line.eye["tx"][r]
  BY <1>1, <1>2, MeasuredFacts
<1> HIDE DEF found, none
<1>4. /\ tune \in TuneState /\ tune.dac = HdlLoopback(tune.start.dac, FALSE)
      /\ tune.start.dac \in DacState /\ SourceOK(tune.start.dac)
  BY <1>1 DEF DigInv, DigTyped, Borrowed, TuneState
<1>5. /\ tune' \in TuneState /\ tune'.pc = "after" /\ tune'.was = tune.was /\ tune'.gen = tune.gen
      /\ tune'.start = tune.start /\ tune'.flags = tune.flags /\ (tune'.restore <=> none)
  BY <1>1, <1>2, <1>4 DEF TuneState, Stages
<1>6. dac' = HdlLoopback(tune.start.dac, FALSE) /\ dac' \in DacState /\ SourceOK(dac')
  BY <1>1, <1>4, LoopTyped
<1>7. DigTyped'
  BY <1>1, <1>3, <1>5, <1>6 DEF DigInv, DigTyped
<1>8. \A d, on : HdlLoopback(d, on)' = HdlLoopback(d, on)
  BY <1>1 DEF HdlLoopback
<1>9. Borrowed'
  BY <1>1, <1>5, <1>6, <1>8 DEF DigInv, Borrowed, AtWork, SourceOK
<1>10. EnsmKept'
  BY <1>1, <1>5 DEF DigInv, EnsmKept, AtWork
<1>11. Searched'
  BY <1>1, <1>3, <1>5 DEF DigInv, Searched, Passes
<1>12. Lasting' /\ DefaultsWithoutFir' /\ StoresAtStart
  BY <1>1, <1>5 DEF DigInv, Lasting, DefaultsWithoutFir, StoresAtStart
<1>13. PatternIsMuted'
  BY <1>1 DEF DigInv, Borrowed, AtWork, PatternIsMuted
<1> QED BY <1>7, <1>9, <1>10, <1>11, <1>12, <1>13 DEF DigInv

\* The loopback and the BIST register are put back.
LEMMA PutBackStep == ASSUME DigInv, PutBistBack PROVE DigInv' /\ StoresAtStart
<1>1. /\ tune.pc = "after" /\ line' = line /\ delay' = delay /\ kept' = kept /\ power' = power
      /\ ensm' = ensm /\ clkAt' = clkAt
      /\ gen' = [gen EXCEPT !.reg = tune.gen.noted, !.loop = tune.gen.loop]
      /\ dac' = HdlLoopback(dac, tune.gen.loop = 2)
      /\ tune' = [tune EXCEPT !.pc = "settle"]
  BY DEF PutBistBack, TuneAt, Looped
<1>2. /\ tune \in TuneState /\ gen \in BistState /\ dac \in DacState
      /\ SourceOK(dac) /\ dac = HdlLoopback(tune.start.dac, FALSE)
      /\ tune.start.dac \in DacState /\ SourceOK(tune.start.dac) /\ tune.gen = tune.start.gen
      /\ tune.gen \in BistState
  BY <1>1 DEF DigInv, DigTyped, Borrowed, TuneState, AtWork
<1>3. /\ tune' \in TuneState /\ tune'.pc = "settle" /\ tune'.was = tune.was
      /\ tune'.start = tune.start /\ tune'.flags = tune.flags /\ (tune'.restore <=> tune.restore)
  BY <1>1, <1>2 DEF TuneState, Stages
<1>4. gen' \in BistState /\ gen'.loop = tune.start.gen.loop /\ gen'.reg = tune.start.gen.noted
  BY <1>1, <1>2 DEF BistState
<1>5. dac' \in DacState /\ SourceOK(dac')
  BY <1>1, <1>2, LoopTyped
<1>6. (tune.start.gen.loop = 2) = (tune.start.dac.src = "adc" \/ tune.start.dac.lb)
        => dac'.src = tune.start.dac.src /\ dac'.lb = tune.start.dac.lb
  <2>1. PICK m : m = tune.start.gen.loop
    OBVIOUS
  <2>2. PICK d \in DacState : d = tune.start.dac
    BY <1>2
  <2>3. dac' = HdlLoopback(HdlLoopback(d, FALSE), m = 2)
    BY <1>1, <1>2, <2>1, <2>2
  <2>4. SourceOK(d)
    BY <1>2, <2>2
  <2>5. (m = 2) = (d.src = "adc" \/ d.lb) => dac'.src = d.src /\ dac'.lb = d.lb
    BY <2>3, <2>4, LoopBack
  <2> QED BY <2>1, <2>2, <2>5, Zenon
<1>7. DigTyped'
  BY <1>1, <1>3, <1>4, <1>5 DEF DigInv, DigTyped
<1>8. GivenBack'
  BY <1>3, <1>4, <1>6, Zenon DEF GivenBack
<1>9. Borrowed'
  BY <1>1, <1>3, <1>5, <1>8 DEF DigInv, Borrowed, AtWork, SourceOK
<1>10. EnsmKept'
  BY <1>1, <1>3 DEF DigInv, EnsmKept, AtWork
<1>11. Searched'
  BY <1>1, <1>3 DEF DigInv, Searched, Passes
<1>12. Lasting' /\ DefaultsWithoutFir' /\ StoresAtStart
  BY <1>1, <1>3 DEF DigInv, Lasting, DefaultsWithoutFir, StoresAtStart, Borrowed, AtWork
<1>13. PatternIsMuted'
  <2>1. dac'.src # "pn"
    BY <1>5 DEF SourceOK
  <2> QED BY <1>3, <2>1 DEF PatternIsMuted
<1> QED BY <1>7, <1>9, <1>10, <1>11, <1>12, <1>13 DEF DigInv

\* The delays settle, the ENSM returns to its state, the transmitters to their power.
LEMMA SettleStep == ASSUME DigInv, Settle PROVE DigInv' /\ StoresAtStart
<1>1. /\ tune.pc = "settle" /\ line' = line /\ gen' = gen /\ dac' = dac /\ clkAt' = clkAt
      /\ delay' = IF tune.restore THEN kept ELSE delay
      /\ kept' = IF tune.restore \/ "temporary" \in tune.flags THEN kept ELSE delay
      /\ ensm' = [state |-> tune.was, duplex |-> line.fdd]
      /\ power' = [power EXCEPT !.now = power.cached]
      /\ \E b \in BOOLEAN : tune' = [tune EXCEPT !.pc = "next", !.failed = b]
  BY DEF Settle
<1>2. /\ tune \in TuneState /\ power \in [now : TxPower, cached : TxPower] /\ line \in LineState
      /\ SourceOK(dac) /\ tune.start.ensm \in EnsmState /\ tune.start.ensm.duplex = line.fdd
      /\ tune.was = tune.start.ensm.state
  BY <1>1 DEF DigInv, DigTyped, Borrowed, EnsmKept, TuneState
<1>3. /\ tune' \in TuneState /\ tune'.pc = "next" /\ tune'.start = tune.start /\ tune'.flags = tune.flags
  BY <1>1, <1>2 DEF TuneState, Stages
<1>4. ensm' = tune.start.ensm /\ ensm' \in EnsmState
  BY <1>1, <1>2 DEF EnsmState
<1>5. power' \in [now : TxPower, cached : TxPower]
  BY <1>1, <1>2
<1>6. DigTyped'
  BY <1>1, <1>3, <1>4, <1>5 DEF DigInv, DigTyped
<1>7. Borrowed'
  BY <1>1, <1>3 DEF DigInv, Borrowed, GivenBack, AtWork, SourceOK
<1>8. EnsmKept'
  BY <1>1, <1>2, <1>3, <1>4 DEF EnsmKept, AtWork
<1>9. Searched' /\ DefaultsWithoutFir' /\ Lasting'
  BY <1>1, <1>3 DEF DigInv, Searched, Lasting, DefaultsWithoutFir
<1>10. PatternIsMuted'
  BY <1>1, <1>2, <1>3 DEF PatternIsMuted, SourceOK
<1>11. StoresAtStart
  <2>1. tune.flags \in Flags
    BY <1>2 DEF TuneState
  <2>2. "default" \in tune.flags => tune.restore
    BY <1>1 DEF DigInv, Lasting
  <2>3. kept' # kept => "temporary" \notin tune.flags /\ "default" \notin tune.flags
    BY <1>1, <2>2
  <2> QED BY <2>1, <2>3 DEF StoresAtStart, Flags
<1> QED BY <1>6, <1>7, <1>8, <1>9, <1>10, <1>11 DEF DigInv

\* The next call of the list is one for the defaults, with nothing borrowed.
LEMMA NextCallStep == ASSUME DigInv, NextCall PROVE DigInv' /\ StoresAtStart
<1> DEFINE sets == "most" \in tune.flags /\ ~tune.failed
           todo == tune.todo \o (IF sets THEN ClockSet ELSE <<>>)
<1>1. /\ tune.pc = "next" /\ line' = line /\ delay' = delay /\ kept' = kept /\ power' = power
      /\ gen' = gen /\ dac' = dac /\ ensm' = ensm /\ clkAt' = IF sets THEN 1 ELSE clkAt
      /\ tune' = IF todo = <<>> THEN [tune EXCEPT !.pc = "idle"]
                 ELSE [tune EXCEPT !.pc = "begin", !.flags = Head(todo), !.todo = Tail(todo)]
  BY DEF NextCall
<1>2. /\ tune \in TuneState /\ SourceOK(dac) /\ clkAt \in DigRates
      /\ tune.start.ensm.duplex = line.fdd /\ ensm = tune.start.ensm
  BY <1>1 DEF DigInv, DigTyped, Borrowed, EnsmKept
<1>3. todo \in Seq({{"default"}})
  <2>1. tune.todo \in Seq({{"default"}})
    BY <1>2 DEF TuneState
  <2>2. ClockSet \in Seq({{"default"}}) /\ <<>> \in Seq({{"default"}})
    <3>1. <<>> \in Seq({{"default"}}) /\ <<{"default"}>> \in Seq({{"default"}})
      OBVIOUS
    <3> QED BY <3>1 DEF ClockSet
  <2> QED BY <2>1, <2>2
<1>4. clkAt' \in DigRates
  BY <1>1, <1>2 DEF DigRates
<1> HIDE DEF todo, sets
<1>5. CASE todo = <<>>
  <2>1. /\ tune' \in TuneState /\ tune'.pc = "idle" /\ tune'.start = tune.start /\ tune'.flags = tune.flags
    BY <1>1, <1>2, <1>5 DEF TuneState, Stages
  <2>2. DigTyped'
    BY <1>1, <1>4, <2>1 DEF DigInv, DigTyped
  <2>3. Borrowed'
    BY <1>1, <1>2, <2>1 DEF DigInv, Borrowed, AtWork, SourceOK
  <2>4. EnsmKept' /\ Searched' /\ Lasting'
    BY <1>1, <1>2, <2>1 DEF EnsmKept, AtWork, Searched, Lasting
  <2>5. PatternIsMuted' /\ DefaultsWithoutFir' /\ StoresAtStart
    BY <1>1, <1>2, <2>1 DEF DigInv, Lasting, PatternIsMuted, DefaultsWithoutFir, StoresAtStart, SourceOK
  <2> QED BY <2>2, <2>3, <2>4, <2>5 DEF DigInv
<1>6. CASE todo # <<>>
  <2>1. Head(todo) = {"default"} /\ Tail(todo) \in Seq({{"default"}})
    BY <1>3, <1>6
  <2>2. {"default"} \in Flags
    BY DEF Flags
  <2>3. tune' = [tune EXCEPT !.pc = "begin", !.flags = {"default"}, !.todo = Tail(todo)]
    BY <1>1, <1>6, <2>1
  <2>4. /\ tune' \in TuneState /\ tune'.pc = "begin" /\ tune'.start = tune.start /\ tune'.flags = {"default"}
    BY <1>2, <2>1, <2>2, <2>3 DEF TuneState, Stages
  <2>5. DigTyped'
    BY <1>1, <1>4, <2>4 DEF DigInv, DigTyped
  <2>6. Borrowed'
    BY <1>1, <1>2, <2>4 DEF DigInv, Borrowed, GivenBack, AtWork, SourceOK
  <2>7. EnsmKept' /\ Searched' /\ Lasting'
    BY <1>1, <1>2, <2>4 DEF EnsmKept, AtWork, Searched, Lasting
  <2>8. PatternIsMuted' /\ DefaultsWithoutFir' /\ StoresAtStart
    BY <1>1, <1>2, <2>4 DEF PatternIsMuted, DefaultsWithoutFir, StoresAtStart, SourceOK
  <2> QED BY <2>5, <2>6, <2>7, <2>8 DEF DigInv
<1> QED BY <1>5, <1>6

\* The tunings a caller may ask for in a row.
CallLists == {<<>>, <<{"temporary"}>>, <<{"default"}>>, <<{"temporary"}, {"default"}>>, <<{"default"}, {"default"}>>}

\* One call and one more.
LEMMA TwoCalls == ASSUME NEW a, NEW b PROVE <<a>> \o <<b>> = <<a, b>>
<1> DEFINE s == <<a>> \o <<b>>
<1>1. <<a>> \in Seq({a, b}) /\ <<b>> \in Seq({a, b}) /\ Len(<<a>>) = 1 /\ Len(<<b>>) = 1
  OBVIOUS
<1>2. s \in Seq({a, b}) /\ Len(s) = 2 /\ s[1] = a /\ s[2] = b
  BY <1>1
<1>3. <<a, b>> \in Seq({a, b}) /\ Len(<<a, b>>) = 2 /\ <<a, b>>[1] = a /\ <<a, b>>[2] = b
  OBVIOUS
<1> HIDE DEF s
<1>4. s = <<a, b>>
  BY <1>2, <1>3
<1> QED BY <1>4 DEF s

\* The lists the callers make.
LEMMA ListFacts ==
  /\ ClockSet \in CallLists /\ (ClockSet # <<>> => Head(ClockSet) = {"default"})
  /\ <<{"temporary"}>> \o ClockSet \in CallLists /\ <<{"temporary"}>> \o ClockSet # <<>>
  /\ ClockSet \o <<{"default"}>> \in CallLists /\ ClockSet \o <<{"default"}>> # <<>>
  /\ Head(ClockSet \o <<{"default"}>>) = {"default"}
  /\ <<>> \o ClockSet = ClockSet
<1>1. PICK d : d = {"default"}
  OBVIOUS
<1>2. PICK t : t = {"temporary"}
  OBVIOUS
<1>3. \A a : <<a>> \o <<>> = <<a>> /\ <<>> \o <<a>> = <<a>> /\ Head(<<a>>) = a /\ <<a>> # <<>>
  OBVIOUS
<1>4. <<>> \o <<>> = <<>>
  OBVIOUS
<1>5. \A a, b : Head(<<a, b>>) = a /\ <<a, b>> # <<>>
  OBVIOUS
<1>6. CallLists = {<<>>, <<t>>, <<d>>, <<t, d>>, <<d, d>>}
  BY <1>1, <1>2 DEF CallLists
<1>7. CASE ClockSet = <<>>
  BY <1>1, <1>2, <1>3, <1>4, <1>6, <1>7
<1>8. CASE ClockSet = <<d>>
  <2>1. <<t>> \o ClockSet = <<t, d>> /\ ClockSet \o <<d>> = <<d, d>>
    BY <1>8, TwoCalls
  <2> QED BY <1>1, <1>2, <1>3, <1>5, <1>6, <1>8, <2>1
<1> QED BY <1>1, <1>7, <1>8 DEF ClockSet


\* A caller's list of tunings: it returns at once, or the first begins.
LEMMA CalledFacts ==
  ASSUME DigInv, CanCall, NEW list \in CallLists, tune' = Called(list)
  PROVE  /\ tune' \in TuneState
         /\ list = <<>> => tune'.pc = "idle" /\ tune'.flags = tune.flags /\ tune'.start = tune.start
         /\ list # <<>> => /\ tune'.pc = "begin" /\ tune'.flags = Head(list)
                           /\ tune'.start = [gen |-> gen, dac |-> dac, ensm |-> ensm]
<1>1. tune \in TuneState /\ gen \in BistState /\ dac \in DacState /\ ensm \in EnsmState
  BY DEF DigInv, DigTyped
<1>2. CASE list = <<>>
  <2>1. tune' = [tune EXCEPT !.pc = "idle", !.n = tune.n + 1]
    BY <1>2 DEF Called
  <2>2. tune.n + 1 \in Nat
    BY <1>1 DEF TuneState
  <2> QED BY <1>1, <1>2, <2>1, <2>2 DEF TuneState, Stages
<1>3. CASE list # <<>>
  <2>1. Head(list) \in Flags
    BY <1>3 DEF CallLists, Flags
  <2>2. Tail(list) \in Seq({{"default"}})
    <3>1. <<>> \in Seq({{"default"}}) /\ <<{"default"}>> \in Seq({{"default"}})
      OBVIOUS
    <3>2. \A a, b : Tail(<<a, b>>) = <<b>> /\ Tail(<<a>>) = <<>>
      OBVIOUS
    <3> QED BY <1>3, <3>1, <3>2 DEF CallLists
  <2>3. PICK f \in Flags : f = Head(list)
    BY <2>1
  <2>4. PICK t \in Seq({{"default"}}) : t = Tail(list)
    BY <2>2
  <2>5. tune' = [tune EXCEPT !.pc = "begin", !.flags = f, !.todo = t, !.n = tune.n + 1,
                             !.start = [gen |-> gen, dac |-> dac, ensm |-> ensm]]
    BY <1>3, <2>3, <2>4 DEF Called
  <2>6. tune.n + 1 \in Nat /\ [gen |-> gen, dac |-> dac, ensm |-> ensm] \in [gen : BistState, dac : DacState, ensm : EnsmState]
    BY <1>1 DEF TuneState
  <2> QED BY <1>1, <1>3, <2>3, <2>5, <2>6, ZenonT(60) DEF TuneState, Stages
<1> QED BY <1>2, <1>3

\* A call that only tunes: its filter is the one to tune for.
LEMMA CallStep ==
  ASSUME DigInv, CanCall, NEW list \in CallLists, tune' = Called(list),
         line' \in LineState, line'.fdd = line.fdd, line'.core = line.core, clkAt' \in DigRates,
         UNCHANGED <<delay, kept, power, gen, dac, ensm>>,
         ~line'.fir /\ list = <<>> => ~line.fir,
         ~line'.fir /\ list # <<>> => Head(list) # {"temporary"}
  PROVE  DigInv' /\ StoresAtStart
<1>1. /\ tune' \in TuneState /\ tune'.pc \in {"idle", "begin"}
      /\ tune'.pc = "idle" => list = <<>> /\ tune'.start = tune.start
      /\ tune'.pc = "begin" => /\ tune'.flags = Head(list) /\ list # <<>>
                               /\ tune'.start.gen = gen /\ tune'.start.dac = dac /\ tune'.start.ensm = ensm
  BY CalledFacts
<1>2. /\ tune.pc = "idle" /\ SourceOK(dac) /\ SourceOK(tune.start.dac)
      /\ ensm.duplex = line.fdd /\ tune.start.ensm.duplex = line.fdd
      /\ dac.src # "pn"
  BY DEF CanCall, DigInv, Borrowed, EnsmKept, SourceOK
<1>3. DigTyped'
  BY <1>1 DEF DigInv, DigTyped
<1>4. Borrowed'
  BY <1>1, <1>2 DEF Borrowed, GivenBack, AtWork, SourceOK
<1>5. EnsmKept' /\ Searched'
  BY <1>1, <1>2 DEF EnsmKept, AtWork, Searched
<1>6. PatternIsMuted' /\ StoresAtStart
  BY <1>1, <1>2 DEF PatternIsMuted, StoresAtStart
<1>7. DefaultsWithoutFir'
  BY <1>1, <1>2 DEF DigInv, DefaultsWithoutFir
<1>8. Lasting'
  <2>1. tune'.pc = "begin" => Head(list) \in {{"temporary"}, {"default"}}
    BY <1>1 DEF CallLists
  <2> QED BY <1>1, <2>1 DEF Lasting
<1> QED BY <1>3, <1>4, <1>5, <1>6, <1>7, <1>8 DEF DigInv

\* Another rate: a filter on is tuned for temporarily.
LEMMA ChangeRateStep == ASSUME DigInv, NEW r \in DigRates, ChangeRate(r) PROVE DigInv' /\ StoresAtStart
<1> DEFINE list == (IF line.fir THEN <<{"temporary"}>> ELSE <<>>) \o ClockSet
<1>1. list \in CallLists /\ (~line.fir /\ list # <<>> => Head(list) # {"temporary"})
  BY ListFacts
<1>2. CanCall /\ clkAt' = r /\ tune' = Called(list) /\ UNCHANGED <<line, delay, kept, power, gen, dac, ensm>>
  BY DEF ChangeRate
<1> HIDE DEF list
<1>3. line' \in LineState
  BY <1>2 DEF DigInv, DigTyped
<1> QED BY <1>1, <1>2, <1>3, CallStep

\* A filter off: the last tuning is one for the defaults.
LEMMA SwitchFirStep == ASSUME DigInv, NEW on \in BOOLEAN, SwitchFir(on) PROVE DigInv' /\ StoresAtStart
<1> DEFINE list == IF on THEN <<{"temporary"}>> \o ClockSet ELSE ClockSet \o <<{"default"}>>
<1>1. list \in CallLists /\ list # <<>> /\ (~on => Head(list) # {"temporary"})
  <2>1. {"temporary"} # {"default"}
    OBVIOUS
  <2> QED BY <2>1, ListFacts
<1>2. CanCall /\ line' = [line EXCEPT !.fir = on] /\ tune' = Called(list)
      /\ UNCHANGED <<delay, kept, power, gen, dac, ensm, clkAt>>
  BY DEF SwitchFir
<1> HIDE DEF list
<1>3. line \in LineState /\ clkAt \in DigRates
  BY DEF DigInv, DigTyped
<1>4. line' \in LineState /\ line'.fdd = line.fdd /\ line'.core = line.core /\ line'.fir = on
  BY <1>2, <1>3 DEF LineState
<1> QED BY <1>1, <1>2, <1>3, <1>4, CallStep

\* The timing analysis leaves the delays and the DAC core's source.
LEMMA AnalyseStep == ASSUME DigInv, AnalyseTiming PROVE DigInv' /\ StoresAtStart
<1> DEFINE far == gen.loop = 2
<1>1. /\ CanCall /\ tune' = Called(<<>>) /\ line' = line /\ delay' = delay /\ kept' = kept
      /\ ensm' = ensm /\ clkAt' = clkAt
      /\ power' = [power EXCEPT !.cached = power.now]
      /\ dac' = HdlLoopback(HdlLoopback(dac, FALSE), far)
      /\ gen' = [gen EXCEPT !.reg = gen.noted, !.noted = "prbs"]
  BY DEF AnalyseTiming
<1>2. far \in BOOLEAN
  OBVIOUS
<1> HIDE DEF far
<1>3. <<>> \in CallLists
  BY DEF CallLists
<1>4. tune' \in TuneState /\ tune'.pc = "idle" /\ tune'.flags = tune.flags /\ tune'.start = tune.start
  BY <1>1, <1>3, CalledFacts
<1>5. /\ tune.pc = "idle" /\ SourceOK(dac) /\ dac \in DacState /\ gen \in BistState
      /\ power \in [now : TxPower, cached : TxPower]
  BY <1>1 DEF CanCall, DigInv, Borrowed, DigTyped
<1>6. dac' \in DacState /\ SourceOK(dac')
  <2>1. PICK q \in DacState : q = HdlLoopback(dac, FALSE) /\ SourceOK(q)
    BY <1>5, LoopTyped
  <2> QED BY <1>1, <1>2, <2>1, LoopTyped
<1>7. gen' \in BistState /\ power' \in [now : TxPower, cached : TxPower]
  BY <1>1, <1>5 DEF BistState
<1>8. DigTyped'
  BY <1>1, <1>4, <1>6, <1>7 DEF DigInv, DigTyped
<1>9. Borrowed'
  BY <1>1, <1>4, <1>6 DEF DigInv, Borrowed, AtWork, SourceOK
<1>10. EnsmKept' /\ Searched' /\ Lasting'
  BY <1>1, <1>4, <1>5 DEF DigInv, EnsmKept, AtWork, Searched, Lasting
<1>11. DefaultsWithoutFir' /\ StoresAtStart
  BY <1>1, <1>4, <1>5 DEF DigInv, DefaultsWithoutFir, StoresAtStart
<1>12. PatternIsMuted'
  <2>1. dac'.src # "pn"
    BY <1>6 DEF SourceOK
  <2> QED BY <1>4, <2>1 DEF PatternIsMuted
<1> QED BY <1>8, <1>9, <1>10, <1>11, <1>12 DEF DigInv

\* What a user does between the tunings.
LEMMA UseStep == ASSUME DigInv, UseBlocks PROVE DigInv' /\ StoresAtStart
<1>1. /\ CanCall /\ tune' = [tune EXCEPT !.n = tune.n + 1]
      /\ line' = line /\ delay' = delay /\ kept' = kept /\ clkAt' = clkAt
  BY DEF UseBlocks
<1>2. /\ tune \in TuneState /\ SourceOK(dac) /\ dac \in DacState /\ gen \in BistState
      /\ power \in [now : TxPower, cached : TxPower] /\ ensm \in EnsmState /\ tune.pc = "idle"
      /\ ensm.duplex = line.fdd
  BY <1>1 DEF CanCall, DigInv, Borrowed, EnsmKept, DigTyped
<1>3. /\ tune' \in TuneState /\ tune'.pc = "idle" /\ tune'.flags = tune.flags /\ tune'.start = tune.start
  BY <1>1, <1>2 DEF TuneState
<1>4. /\ gen' \in BistState /\ dac' \in DacState /\ SourceOK(dac')
      /\ power' \in [now : TxPower, cached : TxPower] /\ ensm' \in EnsmState /\ ensm'.duplex = line.fdd
  <2>1. CASE gen' = Injecting("user") /\ UNCHANGED <<dac, power, ensm>>
    <3>1. 0 \in 0..2
      OBVIOUS
    <3> QED BY <1>2, <2>1, <3>1, InjectedTyped
  <2>2. CASE \E m \in {0, 2} : gen' = [gen EXCEPT !.loop = m] /\ Looped(m) /\ UNCHANGED <<power, ensm>>
    <3>1. PICK m \in {0, 2} : gen' = [gen EXCEPT !.loop = m] /\ Looped(m) /\ UNCHANGED <<power, ensm>>
      BY <2>2
    <3>2. gen' \in BistState
      BY <1>2, <3>1 DEF BistState
    <3>3. PICK on \in BOOLEAN : dac' = HdlLoopback(dac, on)
      BY <3>1 DEF Looped
    <3> QED BY <1>2, <3>1, <3>2, <3>3, LoopTyped
  <2>3. CASE power' = [power EXCEPT !.now = "low"] /\ UNCHANGED <<gen, dac, ensm>>
    BY <1>2, <2>3 DEF TxPower
  <2>4. CASE \E s \in {"alert", "rx"} : ensm' = [ensm EXCEPT !.state = s] /\ UNCHANGED <<gen, dac, power>>
    BY <1>2, <2>4 DEF EnsmState
  <2> QED BY <2>1, <2>2, <2>3, <2>4 DEF UseBlocks
<1>5. DigTyped'
  BY <1>1, <1>3, <1>4 DEF DigInv, DigTyped
<1>6. Borrowed'
  BY <1>1, <1>3, <1>4 DEF DigInv, Borrowed, AtWork, SourceOK
<1>7. EnsmKept' /\ Searched' /\ Lasting'
  BY <1>1, <1>2, <1>3, <1>4 DEF DigInv, EnsmKept, AtWork, Searched, Lasting
<1>8. DefaultsWithoutFir' /\ StoresAtStart
  BY <1>1, <1>2, <1>3 DEF DigInv, DefaultsWithoutFir, StoresAtStart
<1>9. PatternIsMuted'
  <2>1. dac'.src # "pn"
    BY <1>4 DEF SourceOK
  <2> QED BY <1>3, <2>1 DEF PatternIsMuted
<1> QED BY <1>5, <1>6, <1>7, <1>8, <1>9 DEF DigInv

\* A step keeps the invariant, and stores delays in the call at the start only.
LEMMA DigStep == DigInv /\ [DigNext]_digVars => DigInv' /\ StoresAtStart
<1> SUFFICES ASSUME DigInv, [DigNext]_digVars
             PROVE  DigInv' /\ StoresAtStart
  OBVIOUS
<1>1. CASE UNCHANGED digVars
  BY <1>1 DEF digVars, DigInv, DigTyped, Borrowed, GivenBack, SourceOK, HdlLoopback, EnsmKept, Searched, Passes,
     Lasting, PatternIsMuted, DefaultsWithoutFir, StoresAtStart
<1>2. CASE \E r \in DigRates : ChangeRate(r)
  BY <1>2, ChangeRateStep
<1>3. CASE \E on \in BOOLEAN : SwitchFir(on)
  BY <1>3, SwitchFirStep
<1> QED BY <1>1, <1>2, <1>3, BeginStep, TuneRxStep, SendStep, TuneTxStep, PutBackStep, SettleStep,
           NextCallStep, AnalyseStep, UseStep DEF DigNext

\* What the invariant says of a state.
LEMMA DigMeans == DigInv => PatternIsMuted /\ TunedPasses /\ BlocksPutBack /\ DefaultsWithoutFir
<1> SUFFICES ASSUME DigInv
             PROVE  TunedPasses /\ BlocksPutBack
  BY DEF DigInv
<1>1. TunedPasses
  BY DEF DigInv, Searched, Passes, TunedPasses, Dirs
<1>2. BlocksPutBack
  BY DEF DigInv, Borrowed, GivenBack, EnsmKept, BlocksPutBack
<1> QED BY <1>1, <1>2

\* Whatever the board passes and whatever calls are made: the pattern is sent by muted
\* transmitters only, a direction that was tuned passes at every rate tried, what was
\* borrowed is put back, without a filter the delays are the initial ones, and only the
\* tuning at the start makes delays that last (ad9361_conv.c ad9361_dig_tune()).
THEOREM InterfaceIsTuned == DigSpec => DigTuned
<1>1. DigInit => DigInv
  BY DigInitial
<1>2. DigInv /\ [DigNext]_digVars => DigInv'
  BY DigStep
<1>3. DigInv => PatternIsMuted /\ TunedPasses /\ BlocksPutBack /\ DefaultsWithoutFir
  BY DigMeans
<1>4. DigInv /\ [DigNext]_digVars => [kept' # kept => "most" \in tune.flags]_digVars
  BY DigStep DEF StoresAtStart
<1> QED BY <1>1, <1>2, <1>3, <1>4, PTL DEF DigSpec, DigTuned, InitialLast

-----------------------------------------------------------------------------
(* External band control. *)

HIDE DEF Cell, Field, Tuners, Pair, Home, Registers, Typed

-----------------------------------------------------------------------------
(* What a search finds and what a script does. *)

\* The search of the settings finds the first that covers an LO, or none.
LEMMA FirstFound ==
  ASSUME NEW list, NEW n \in Nat, n = Len(list), NEW hz,
         NEW S, S = {i \in 1..Len(list) : list[i].lo <= hz /\ hz < list[i].hi}
  PROVE  /\ S = {} => FirstCovering(list, hz) = 0
         /\ S # {} => FirstCovering(list, hz) \in S /\ \A i \in S : FirstCovering(list, hz) <= i
<1>1. CASE S = {}
  BY <1>1 DEF FirstCovering
<1>2. CASE S # {}
  <2>1. S \in SUBSET Nat
    OBVIOUS
  <2>2. \E m \in S : \A x \in S : m <= x
    BY <1>2, <2>1, Least
  <2> DEFINE m == CHOOSE i \in S : \A j \in S : i <= j
  <2>3. m \in S /\ \A j \in S : m <= j
    BY <2>2
  <2>4. FirstCovering(list, hz) = m
    BY <1>2 DEF FirstCovering
  <2> QED BY <1>2, <2>3, <2>4
<1> QED BY <1>1, <1>2

\* A non-empty set of places has a last one.
LEMMA LastPlace ==
  ASSUME NEW n \in Nat, NEW S \in SUBSET (1..n), S # {}
  PROVE  \E m \in S : \A x \in S : x <= m
<1> DEFINE T == {n - x : x \in S}
<1>1. T \in SUBSET Nat /\ T # {}
  <2>1. ASSUME NEW x \in S PROVE n - x \in Nat
    <3>1. x \in 1..n
      OBVIOUS
    <3> QED BY <3>1
  <2>2. PICK x \in S : TRUE
    OBVIOUS
  <2>3. n - x \in T
    BY <2>2
  <2> QED BY <2>1, <2>3
<1>2. PICK t \in T : \A u \in T : t <= u
  BY <1>1, Least
<1>3. PICK m \in S : t = n - m
  BY <1>2
<1>4. ASSUME NEW x \in S PROVE x <= m
  <2>1. n - x \in T
    OBVIOUS
  <2>2. n - m <= n - x
    BY <1>2, <1>3, <2>1
  <2> QED BY <2>2
<1> QED BY <1>4

\* The last to drive a line is one that does, and none after it does.
LEMMA LastDriveFacts ==
  ASSUME NEW n \in Nat, NEW done \in SUBSET ((1..n) \X (1..TxSlot)), NEW l \in Driven(done)
  PROVE  /\ LastDrive(done, l) \in 1..n /\ <<LastDrive(done, l), l>> \in done
         /\ \A h \in 1..n : <<h, l>> \in done => h <= LastDrive(done, l)
<1> DEFINE D == {a[1] : a \in done}
           S == {g \in D : <<g, l>> \in done}
           P(g) == <<g, l>> \in done /\ \A h \in D : <<h, l>> \in done => h <= g
<1>1. D \in SUBSET (1..n)
  OBVIOUS
<1>2. PICK a \in done : a[2] = l
  BY DEF Driven
<1>3. a = <<a[1], l>> /\ a[1] \in D
  BY <1>2
<1>4. S \in SUBSET (1..n) /\ S # {}
  BY <1>1, <1>2, <1>3
<1>5. PICK m \in S : \A x \in S : x <= m
  BY <1>4, LastPlace
<1>6. m \in D /\ P(m)
  BY <1>5
<1>7. LastDrive(done, l) \in D /\ P(LastDrive(done, l))
  <2>1. LastDrive(done, l) = CHOOSE g \in D : P(g)
    BY DEF LastDrive
  <2> HIDE DEF P
  <2> QED BY <1>6, <2>1
<1>8. ASSUME NEW h \in 1..n, <<h, l>> \in done
      PROVE  h <= LastDrive(done, l)
  <2>1. <<h, l>>[1] = h
    OBVIOUS
  <2>2. h \in D
    BY <1>8, <2>1
  <2> QED BY <1>7, <1>8, <2>2
<1> QED BY <1>1, <1>7, <1>8

PortStates == [bits : SUBSET (0..7), monitor : 0..3]

\* The port register after ad9361_rf_port_setup().
LEMMA PortSetupTyped ==
  ASSUME NEW p \in PortStates, NEW out \in BOOLEAN, NEW rx \in -1..11, NEW tx \in -1..1
  PROVE  /\ PortSetup(p, out, rx, tx) \in PortStates
         /\ out \/ rx <= 8 => PortSetup(p, out, rx, tx).bits = Bits(rx, tx)
<1>1. Bits(rx, tx) \in SUBSET (0..7)
  BY DEF Bits
<1>2. CASE ~out /\ rx > 8
  <2>1. rx % 4 \in 0..3
    BY <1>2
  <2>2. PortSetup(p, out, rx, tx) \in PortStates
    BY <1>2, <2>1 DEF PortSetup, PortStates
  <2>3. ~(out \/ rx <= 8)
    BY <1>2
  <2> QED BY <2>2, <2>3
<1>3. CASE ~(~out /\ rx > 8)
  <2>1. PortSetup(p, out, rx, tx) = [p EXCEPT !.bits = Bits(rx, tx), !.monitor = IF out THEN @ ELSE 0]
    BY <1>3 DEF PortSetup
  <2>2. PICK m \in 0..3 : m = IF out THEN p.monitor ELSE 0
    BY DEF PortStates
  <2>3. PortSetup(p, out, rx, tx) = [p EXCEPT !.bits = Bits(rx, tx), !.monitor = m]
    BY <2>1, <2>2
  <2>4. PICK B \in SUBSET (0..7) : B = Bits(rx, tx)
    BY <1>1
  <2>5. [p EXCEPT !.bits = B, !.monitor = m] \in PortStates /\ [p EXCEPT !.bits = B, !.monitor = m].bits = B
    <3>1. p \in [bits : SUBSET (0..7), monitor : 0..3]
      BY DEF PortStates
    <3>2. PICK A, M : A = SUBSET (0..7) /\ M = 0..3
      OBVIOUS
    <3>3. p \in [bits : A, monitor : M] /\ B \in A /\ m \in M
      BY <3>1, <3>2
    <3>4. [p EXCEPT !.bits = B, !.monitor = m] \in [bits : A, monitor : M]
      BY <3>3, Zenon
    <3>5. [p EXCEPT !.bits = B, !.monitor = m].bits = B
      BY <3>3, SMT
    <3> QED BY <3>2, <3>4, <3>5 DEF PortStates
  <2> QED BY <2>3, <2>4, <2>5
<1>4. (~out /\ rx > 8) \/ ~(~out /\ rx > 8)
  BY Zenon
<1> QED BY <1>2, <1>3, <1>4

\* Whatever is done of a list of steps, the ports are some selection of them.
LEMMA PortsTyped ==
  ASSUME NEW list, NEW n \in Nat, n = Len(list), NEW done, port \in PortStates,
         \A g \in 1..n : list[g].rx \in -1..11 /\ list[g].tx \in -1..1
  PROVE  Ports(list, done) \in PortStates
<1> DEFINE Rx(p, g) == IF <<g, RxSlot>> \in done THEN PortSetup(p, FALSE, list[g].rx, 0) ELSE p
           Step(p, g) == IF <<g, TxSlot>> \in done THEN PortSetup(Rx(p, g), TRUE, 0, list[g].tx) ELSE Rx(p, g)
           F == [g \in 1..n |-> [p \in PortStates |-> Step(p, g)]]
           Values(f) == [g \in 0..n |-> IF g = 0 THEN port ELSE Step(f[g - 1], g)]
           after == CHOOSE f : f = Values(f)
<1>1. ASSUME NEW p \in PortStates, NEW g \in 1..n
      PROVE  Step(p, g) \in PortStates
  <2>1. PICK rx \in -1..11, tx \in -1..1 : rx = list[g].rx /\ tx = list[g].tx
    OBVIOUS
  <2> PICK yes \in BOOLEAN, no \in BOOLEAN, z \in -1..1 : yes = TRUE /\ no = FALSE /\ z = 0
    <3>1. 0 \in -1..1
      BY SMT
    <3>2. TRUE \in BOOLEAN /\ FALSE \in BOOLEAN
      BY Zenon
    <3> QED BY <3>1, <3>2, Zenon
  <2> z \in -1..11
    OBVIOUS
  <2>2. PortSetup(p, no, rx, z) \in PortStates
    BY PortSetupTyped
  <2>3. PICK q \in PortStates : q = Rx(p, g)
    BY <2>1, <2>2
  <2>4. PortSetup(q, yes, z, tx) \in PortStates
    BY PortSetupTyped
  <2> QED BY <2>1, <2>3, <2>4
<1> HIDE DEF Step
<1>2. F \in [1..n -> [PortStates -> PortStates]]
  BY <1>1
<1>3. PICK f \in [0..n -> PortStates] : f[0] = port /\ \A k \in 1..n : f[k] = F[k][f[k - 1]]
  <2>1. PICK X, x0, H : X = PortStates /\ x0 = port /\ H = F
    OBVIOUS
  <2> HIDE DEF F, Values, after, Rx
  <2>2. x0 \in X /\ H \in [1..n -> [X -> X]]
    BY <1>2, <2>1
  <2>3. \E f \in [0..n -> X] : Iterates(f, H, x0, n)
    BY <2>2, Iteration
  <2> QED BY <2>1, <2>3 DEF Iterates
<1>4. f = Values(f)
  <2>1. ASSUME NEW g \in 0..n, g # 0
        PROVE  f[g] = Step(f[g - 1], g)
    <3>1. g \in 1..n /\ g - 1 \in 0..n
      BY <2>1
    <3>2. f[g - 1] \in PortStates
      BY <1>3, <3>1
    <3>3. F[g][f[g - 1]] = Step(f[g - 1], g)
      BY <3>1, <3>2
    <3> QED BY <1>3, <3>1, <3>3
  <2> QED BY <1>3, <2>1
<1>5. after = Values(after)
  <2> HIDE DEF Values
  <2> QED BY <1>4
<1> HIDE DEF after
<1>6. after[0] = port /\ \A g \in 1..n : after[g] = Step(after[g - 1], g)
  BY <1>5
<1> DEFINE G == {k \in 0..n : after[k] \in PortStates}
<1>7. 0 \in G
  BY <1>6
<1>8. ASSUME NEW k \in 1..n, k - 1 \in G
      PROVE  k \in G
  BY <1>1, <1>6, <1>8
<1> HIDE DEF G
<1>9. \A k \in 0..n : k \in G
  BY <1>7, <1>8, Induction
<1>10. after[n] \in PortStates
  BY <1>9 DEF G
<1>11. Ports(list, done) = after[n]
  BY DEF Ports, after, Values, Step, Rx
<1> QED BY <1>10, <1>11

-----------------------------------------------------------------------------
(* The invariant. *)

\* Types; and while a table has settings all the lines are there.
BandState ==
  /\ ngpios \in 0..MaxGpios /\ attached \in BOOLEAN
  /\ bands \in [Ways -> Seq(Bands)] /\ inUse \in [Ways -> Nat] /\ \A d \in Ways : inUse[d] \in 0..Len(bands[d])
  /\ pins \in [Gpios -> Levels] /\ stray \in [Ways -> SUBSET Gpios] /\ lastLo \in [Ways -> Int]
  /\ port \in PortStates /\ want \in [rx : -1..11, tx : -1..1]
  /\ \A d \in Ways : bands[d] # <<>> => ngpios = MaxGpios

BandInv == BandState /\ BandInForce

\* The steps that BandsKept is about.
BandStep ==
  /\ \A d \in Ways : (inUse'[d] # inUse[d] \/ (attached /\ lastLo'[d] # lastLo[d] /\ result' = "ok")) =>
       LET hold == {i \in 1..Len(bands[d]) : bands[d][i].lo <= lastLo'[d] /\ lastLo'[d] < bands[d][i].hi}
       IN  hold # {} => inUse'[d] \in hold /\ (\A i \in hold : inUse'[d] <= i)
  /\ result' = "error" => \A d \in Ways : inUse'[d] # inUse[d] =>
       LET b == bands[d][inUse'[d]]
       IN  Len(b.post) > 0 /\ (\A i \in (1..ngpios) \ stray'[d] : b.pins[i] \in {"nop", pins'[i]})
  /\ want' # want /\ want'.rx <= 8 => port'.bits = Bits(want'.rx, want'.tx)

\* The setting and its steps, as one list.
LEMMA WithStepsFacts ==
  ASSUME NEW b \in Bands
  PROVE  /\ Len(WithSteps(b)) \in Nat /\ OwnPlace(b) \in 1..Len(WithSteps(b)) /\ WithSteps(b)[OwnPlace(b)] = b
         /\ Len(b.post) = Len(WithSteps(b)) - OwnPlace(b)
         /\ \A g \in 1..Len(WithSteps(b)) : WithSteps(b)[g].pins \in [Gpios -> Operations]
         /\ \A g \in 1..Len(WithSteps(b)) : WithSteps(b)[g].rx \in -1..11 /\ WithSteps(b)[g].tx \in -1..1
<1>1. /\ b.pre \in Seq(BandSteps) /\ b.post \in Seq(BandSteps) /\ b.pins \in [Gpios -> Operations]
      /\ b.rx \in -1..11 /\ b.tx \in -1..1
  BY ExtBandAssumption
<1>2. PICK m \in Nat, k \in Nat : m = Len(b.pre) /\ k = Len(b.post)
  BY <1>1
<1> DEFINE T == BandSteps \union {b}
<1>3. b.pre \in Seq(T) /\ b.post \in Seq(T) /\ <<b>> \in Seq(T)
  BY <1>1
<1> HIDE DEF T
<1>4. b.pre \o <<b>> \in Seq(T) /\ Len(b.pre \o <<b>>) = m + 1 /\ (b.pre \o <<b>>)[m + 1] = b
  BY <1>2, <1>3
<1>5. WithSteps(b) \in Seq(T) /\ Len(WithSteps(b)) = m + 1 + k /\ WithSteps(b)[m + 1] = b
  BY <1>2, <1>3, <1>4 DEF WithSteps
<1>6. \A t \in T : t.pins \in [Gpios -> Operations] /\ t.rx \in -1..11 /\ t.tx \in -1..1
  BY <1>1 DEF T, BandSteps
<1>7. \A g \in 1..Len(WithSteps(b)) : WithSteps(b)[g] \in T
  BY <1>5, ElementOfSeq
<1>8. \A g \in 1..Len(WithSteps(b)) : /\ WithSteps(b)[g].pins \in [Gpios -> Operations]
                                       /\ WithSteps(b)[g].rx \in -1..11 /\ WithSteps(b)[g].tx \in -1..1
  BY <1>6, <1>7
<1>9. PICK N, q : N = Len(WithSteps(b)) /\ q = OwnPlace(b)
  OBVIOUS
<1>10. N = m + 1 + k /\ q = m + 1
  BY <1>2, <1>5, <1>9 DEF OwnPlace
<1>11. N \in Nat /\ q \in 1..N /\ k = N - q
  BY <1>10, SMT
<1> QED BY <1>2, <1>5, <1>8, <1>9, <1>10, <1>11

\* A script has all that the setting itself is to do, and drives no line to nothing.
LEMMA ScriptFacts ==
  ASSUME NEW b \in Bands, NEW old, NEW done \in Outcomes(Script(b, old))
  PROVE  /\ Script(b, old) \in SUBSET ((1..Len(WithSteps(b))) \X (1..TxSlot))
         /\ done \in SUBSET Script(b, old)
         /\ \A l \in Gpios : Acts(b, old, l) => <<OwnPlace(b), l>> \in Script(b, old)
         /\ \A g \in 1..Len(WithSteps(b)), l \in Gpios :
              <<g, l>> \in Script(b, old) => WithSteps(b)[g].pins[l] # "nop"
<1>1. WithSteps(b)[OwnPlace(b)] = b /\ OwnPlace(b) \in 1..Len(WithSteps(b)) /\ MaxGpios \in Nat
  BY WithStepsFacts, ExtBandAssumption
<1> DEFINE script == Script(b, old)
<1>2. script = {a \in (1..Len(WithSteps(b))) \X (1..TxSlot) :
                  Acts(WithSteps(b)[a[1]], IF a[1] = OwnPlace(b) THEN old ELSE {}, a[2])}
  BY DEF Script
<1> HIDE DEF script
<1>4. done \in SUBSET script
  BY DEF Outcomes, script
<1>5. ASSUME NEW l \in Gpios, Acts(b, old, l)
      PROVE  <<OwnPlace(b), l>> \in script
  <2>1. PICK g \in 1..Len(WithSteps(b)) : g = OwnPlace(b)
    BY <1>1
  <2>2. l \in 1..TxSlot
    BY <1>1 DEF Gpios, TxSlot
  <2>3. <<g, l>> \in (1..Len(WithSteps(b))) \X (1..TxSlot) /\ <<g, l>>[1] = g /\ <<g, l>>[2] = l
    BY <2>2
  <2> QED BY <1>1, <1>2, <1>5, <2>1, <2>3
<1>6. ASSUME NEW g \in 1..Len(WithSteps(b)), NEW l \in Gpios, <<g, l>> \in script
      PROVE  WithSteps(b)[g].pins[l] # "nop"
  <2>1. PICK o : Acts(WithSteps(b)[g], o, l)
    <3>1. <<g, l>>[1] = g /\ <<g, l>>[2] = l
      OBVIOUS
    <3> QED BY <1>2, <1>6, <3>1
  <2>2. l # RxSlot /\ l # TxSlot
    BY <1>1 DEF Gpios, RxSlot, TxSlot
  <2> QED BY <2>1, <2>2 DEF Acts
<1> QED BY <1>2, <1>4, <1>5, <1>6 DEF script

\* A switch of settings, to its end or stopped by a failing write.
LEMMA SwitchKeeps ==
  ASSUME BandInv, NEW d \in Ways, NEW i \in 1..Len(bands[d]), NEW old,
         old = IF inUse[d] = 0 THEN {} ELSE {bands[d][inUse[d]]},
         NEW script, script = Script(bands[d][i], old), NEW done \in Outcomes(script),
         Switch(d, i, script, done), UNCHANGED <<ngpios, bands, attached, want>>, lastLo' \in [Ways -> Int]
  PROVE  /\ BandInv' /\ (result' = "ok" => inUse'[d] = i)
         /\ \A e \in Ways : inUse'[e] # inUse[e] => e = d /\ inUse'[d] = i
         /\ result' = "error" => \A e \in Ways : inUse'[e] # inUse[e] =>
              LET b == bands[e][inUse'[e]]
              IN  Len(b.post) > 0 /\ (\A l \in (1..ngpios) \ stray'[e] : b.pins[l] \in {"nop", pins'[l]})
<1> DEFINE new == bands[d][i]
           list == WithSteps(new)
           own == OwnPlace(new)
           n == Len(list)
           applied == Applied(own, script \ done)
           ours == {l \in Driven(done) : applied /\ LastDrive(done, l) = own}
           V(l) == IF l \in Driven(done) THEN list[LastDrive(done, l)].pins[l] ELSE pins[l]
<1>1. /\ ngpios \in 0..MaxGpios /\ MaxGpios \in Nat /\ bands \in [Ways -> Seq(Bands)] /\ inUse \in [Ways -> Nat]
      /\ \A e \in Ways : inUse[e] \in 0..Len(bands[e])
      /\ pins \in [Gpios -> Levels] /\ stray \in [Ways -> SUBSET Gpios] /\ BandState
      /\ \A e \in Ways : inUse[e] # 0 =>
           \A l \in (1..ngpios) \ stray[e] : bands[e][inUse[e]].pins[l] # "nop" => pins[l] = bands[e][inUse[e]].pins[l]
  BY ExtBandAssumption DEF BandInv, BandState, BandInForce
<1>2. new \in Bands
  BY <1>1
<1>3. /\ n \in Nat /\ own \in 1..n /\ list[own] = new /\ Len(new.post) = n - own
      /\ \A g \in 1..n : list[g].pins \in [Gpios -> Operations]
      /\ \A g \in 1..n : list[g].rx \in -1..11 /\ list[g].tx \in -1..1
  <2> HIDE DEF new
  <2> QED BY <1>2, WithStepsFacts
<1>4. /\ script \in SUBSET ((1..n) \X (1..TxSlot)) /\ done \in SUBSET script
      /\ \A l \in Gpios : Acts(new, old, l) => <<own, l>> \in script
      /\ \A g \in 1..n, l \in Gpios : <<g, l>> \in script => list[g].pins[l] # "nop"
  <2>1. script = Script(new, old)
    OBVIOUS
  <2> HIDE DEF new
  <2> QED BY <1>2, <2>1, ScriptFacts
<1>5. /\ pins' = [l \in Gpios |-> V(l)]
      /\ inUse' = [inUse EXCEPT ![d] = IF applied THEN i ELSE @]
      /\ stray' = [e \in Ways |-> (stray[e] \union Driven(done)) \ (IF e = d THEN ours ELSE {})]
      /\ result' = IF done = script THEN "ok" ELSE "error"
  BY DEF Switch
<1>6. Driven(done) \in SUBSET Gpios /\ applied \in BOOLEAN
  BY DEF Driven, Applied
<1>7. ASSUME NEW l \in Driven(done)
      PROVE  LastDrive(done, l) \in 1..n /\ <<LastDrive(done, l), l>> \in done /\ V(l) \in Levels
  <2>1. LastDrive(done, l) \in 1..n /\ <<LastDrive(done, l), l>> \in done
    BY <1>3, <1>4, LastDriveFacts
  <2>2. PICK g \in 1..n : g = LastDrive(done, l)
    BY <2>1
  <2>3. list[g].pins \in [Gpios -> Operations] /\ list[g].pins[l] # "nop" /\ l \in Gpios
    BY <1>3, <1>4, <1>6, <2>1, <2>2
  <2>4. list[g].pins[l] \in Levels
    BY <2>3 DEF Operations
  <2>5. V(l) = list[g].pins[l]
    BY <2>2
  <2> QED BY <2>1, <2>4, <2>5
<1>8. pins' \in [Gpios -> Levels] /\ \A l \in Gpios : pins'[l] = V(l)
  <2>1. \A l \in Gpios : V(l) \in Levels
    BY <1>1, <1>7
  <2> HIDE DEF V
  <2> QED BY <1>5, <2>1
\* The setting that is in use after it drives its lines or finds them as they are to be.
<1>9. ASSUME applied, NEW l \in 1..ngpios, l \notin stray'[d], new.pins[l] # "nop"
      PROVE  pins'[l] = new.pins[l]
  <2>1. l \in Gpios /\ l # RxSlot /\ l # TxSlot /\ l <= ngpios
    BY <1>1 DEF Gpios, RxSlot, TxSlot
  <2>2. CASE l \in Driven(done)
    <3>1. l \in ours
      BY <1>5, <1>9, <2>2
    <3>2. V(l) = list[own].pins[l]
      BY <2>2, <3>1
    <3> QED BY <1>3, <1>8, <2>1, <3>2
  <2>3. CASE l \notin Driven(done)
    <3>1. <<own, l>> \notin done
      <4>1. <<own, l>>[2] = l
        OBVIOUS
      <4> QED BY <2>1, <2>3, <4>1 DEF Driven
    <3>2. <<own, l>> \notin script
      <4>1. <<own, l>>[1] = own /\ ~(own > own)
        BY <1>3
      <4> QED BY <1>9, <3>1, <4>1 DEF Applied
    <3>3. ~Acts(new, old, l)
      BY <1>4, <2>1, <3>2
    <3>4. PICK o \in old : o.pins[l] = new.pins[l]
      BY <1>9, <2>1, <3>3 DEF Acts
    <3>5. inUse[d] # 0 /\ o = bands[d][inUse[d]]
      BY <3>4
    <3>6. l \notin stray[d]
      BY <1>5, <1>9, <2>3
    <3>7. pins[l] = o.pins[l]
      BY <1>1, <1>9, <3>4, <3>5, <3>6
    <3> QED BY <1>8, <2>1, <2>3, <3>4, <3>7
  <2> QED BY <2>2, <2>3
<1>10. ASSUME NEW l \in 1..ngpios, NEW e \in Ways, l \notin stray'[e], e # d \/ ~applied
       PROVE  l \notin stray[e] /\ pins'[l] = pins[l]
  <2>1. l \in Gpios
    BY <1>1 DEF Gpios
  <2>2. l \notin stray[e] /\ l \notin Driven(done)
    BY <1>5, <1>10
  <2> QED BY <1>8, <2>1, <2>2
<1>11. /\ inUse' \in [Ways -> Nat]
       /\ \A e \in Ways : IF e = d /\ applied THEN inUse'[e] = i ELSE inUse'[e] = inUse[e]
  BY <1>1, <1>5, <1>6
<1>12. BandState'
  <2>1. stray' \in [Ways -> SUBSET Gpios]
    BY <1>1, <1>5, <1>6
  <2>2. \A e \in Ways : inUse'[e] \in 0..Len(bands[e])
    <3>1. ASSUME NEW e \in Ways PROVE inUse'[e] \in 0..Len(bands[e])
      <4>1. i \in 0..Len(bands[d]) /\ inUse[e] \in 0..Len(bands[e])
        BY <1>1
      <4>2. inUse'[e] = inUse[e] \/ (e = d /\ inUse'[e] = i)
        BY <1>11
      <4> QED BY <4>1, <4>2
    <3> QED BY <3>1
  <2>3. port' \in PortStates
    <3>1. port' = Ports(list, done) /\ port \in PortStates
      BY <1>1 DEF Switch, BandState
    <3>2. PICK L, N : L = list /\ N = Len(L) /\ N \in Nat
      BY <1>3
    <3>3. \A g \in 1..N : L[g].rx \in -1..11 /\ L[g].tx \in -1..1
      BY <1>3, <3>2
    <3>4. Ports(L, done) \in PortStates
      BY <3>1, <3>2, <3>3, PortsTyped
    <3> QED BY <3>1, <3>2, <3>4
  <2> QED BY <1>1, <1>8, <1>11, <2>1, <2>2, <2>3 DEF BandState
<1>13. BandInForce'
  <2> SUFFICES ASSUME NEW e \in Ways, inUse'[e] # 0, NEW l \in (1..ngpios) \ stray'[e],
                      bands[e][inUse'[e]].pins[l] # "nop"
               PROVE  pins'[l] = bands[e][inUse'[e]].pins[l]
    BY DEF BandInForce
  <2>1. CASE e = d /\ applied
    <3>1. bands[e][inUse'[e]] = new /\ l \in 1..ngpios /\ l \notin stray'[d]
      BY <1>11, <2>1
    <3> QED BY <1>9, <2>1, <3>1
  <2>2. CASE e # d \/ ~applied
    <3>1. l \in 1..ngpios /\ l \notin stray'[e] /\ inUse'[e] = inUse[e]
      BY <1>11, <2>2
    <3>2. l \notin stray[e] /\ pins'[l] = pins[l]
      BY <1>10, <2>2, <3>1
    <3> QED BY <1>1, <3>1, <3>2
  <2> QED BY <2>1, <2>2, <1>6
<1>14. result' = "ok" => inUse'[d] = i
  <2>1. result' = "ok" => done = script
    BY <1>5
  <2>2. done = script => applied
    BY DEF Applied
  <2> QED BY <1>11, <2>1, <2>2
<1>15. ASSUME result' = "error", applied
       PROVE  Len(new.post) > 0 /\ \A l \in (1..ngpios) \ stray'[d] : new.pins[l] \in {"nop", pins'[l]}
  <2>1. PICK a \in script : a \notin done
    <3>1. "ok" # "error"
      OBVIOUS
    <3>2. done # script
      BY <1>5, <1>15, <3>1
    <3> QED BY <1>4, <3>2
  <2>2. a[1] > own /\ a[1] \in 1..n
    BY <1>4, <1>15, <2>1 DEF Applied
  <2>3. Len(new.post) > 0
    <3>1. PICK q : q = Len(new.post)
      OBVIOUS
    <3>2. q = n - own
      BY <1>3, <3>1
    <3> HIDE DEF own, n
    <3> QED BY <1>3, <2>2, <3>1, <3>2
  <2> QED BY <1>9, <1>15, <2>3
<1>16. \A e \in Ways : inUse'[e] # inUse[e] => e = d /\ applied /\ inUse'[d] = i
  BY <1>6, <1>11
<1> QED BY <1>12, <1>13, <1>14, <1>15, <1>16 DEF BandInv

\* Every operation.
LEMMA BandNextKeeps ==
  ASSUME BandInv, BandNext
  PROVE  BandInv' /\ BandStep
<1>1. BandState /\ BandInForce
  BY DEF BandInv
<1>2. ASSUME ~attached, AddGpio
      PROVE  BandInv' /\ BandStep
  <2>1. /\ UNCHANGED <<bands, inUse, attached, pins, port, want, lastLo, stray>>
        /\ ngpios' = IF ngpios = MaxGpios THEN ngpios ELSE ngpios + 1
        /\ result' # "error"
    BY <1>2 DEF AddGpio
  <2>2. ngpios' \in 0..MaxGpios /\ MaxGpios \in Nat /\ (ngpios = MaxGpios => ngpios' = MaxGpios)
    BY <1>1, <2>1, ExtBandAssumption DEF BandState
  <2>3. BandState'
    BY <1>1, <2>1, <2>2 DEF BandState
  <2>4. BandInForce'
    <3> SUFFICES ASSUME NEW d \in Ways, inUse[d] # 0
                 PROVE  ngpios' = ngpios
      BY <1>1, <2>1 DEF BandInForce
    <3>1. inUse[d] \in 1..Len(bands[d]) /\ bands[d] \in Seq(Bands)
      BY <1>1 DEF BandState
    <3>2. bands[d] # <<>>
      BY <3>1
    <3> QED BY <1>1, <2>1, <3>2 DEF BandState
  <2>5. BandStep
    BY <1>2, <2>1 DEF BandStep
  <2> QED BY <2>3, <2>4, <2>5 DEF BandInv
<1>3. ASSUME NEW b \in Bands, ngpios = MaxGpios, AddBand(b), ~attached
      PROVE  BandInv' /\ BandStep
  <2>1. /\ bands' = [bands EXCEPT ![b.for] = Append(@, b)] /\ b.for \in Ways
        /\ UNCHANGED <<ngpios, inUse, attached, pins, port, want, lastLo, stray>> /\ result' # "error"
    BY <1>3, ExtBandAssumption DEF AddBand
  <2>2. bands \in [Ways -> Seq(Bands)] /\ \A d \in Ways : inUse[d] \in 0..Len(bands[d])
    BY <1>1 DEF BandState
  <2>3. ASSUME NEW d \in Ways
        PROVE  /\ bands'[d] \in Seq(Bands) /\ Len(bands[d]) \in Nat /\ Len(bands'[d]) \in Nat
               /\ Len(bands'[d]) >= Len(bands[d])
               /\ \A i \in 1..Len(bands[d]) : bands'[d][i] = bands[d][i]
    <3>1. bands[d] \in Seq(Bands)
      BY <2>2
    <3>2. CASE d = b.for
      BY <2>1, <2>2, <3>1, <3>2
    <3>3. CASE d # b.for
      BY <2>1, <2>2, <3>1, <3>3
    <3> QED BY <3>2, <3>3
  <2>4. BandState'
    <3>1. bands' \in [Ways -> Seq(Bands)]
      BY <2>1, <2>2, <2>3
    <3>2. ASSUME NEW d \in Ways PROVE inUse'[d] \in 0..Len(bands'[d])
      BY <2>1, <2>2, <2>3
    <3> QED BY <1>1, <1>3, <2>1, <3>1, <3>2 DEF BandState
  <2>5. BandInForce'
    <3>1. ASSUME NEW d \in Ways, inUse[d] # 0
          PROVE  bands'[d][inUse[d]] = bands[d][inUse[d]]
      <4>1. inUse[d] \in 1..Len(bands[d])
        BY <2>2, <2>3, <3>1
      <4> QED BY <2>3, <4>1
    <3>2. ASSUME NEW d \in Ways, inUse[d] # 0, NEW l \in (1..ngpios) \ stray[d],
                 bands'[d][inUse[d]].pins[l] # "nop"
          PROVE  pins[l] = bands'[d][inUse[d]].pins[l]
      <4>1. bands[d][inUse[d]].pins[l] # "nop" => pins[l] = bands[d][inUse[d]].pins[l]
        BY <1>1, <3>2 DEF BandInForce
      <4>2. bands'[d][inUse[d]] = bands[d][inUse[d]]
        BY <3>1, <3>2
      <4> QED BY <3>2, <4>1, <4>2
    <3>3. UNCHANGED <<ngpios, inUse, pins, stray>>
      BY <2>1
    <3> QED BY <3>2, <3>3 DEF BandInForce
  <2>6. BandStep
    BY <1>3, <2>1 DEF BandStep
  <2> QED BY <2>4, <2>5, <2>6 DEF BandInv
<1>4. ASSUME NEW on \in BOOLEAN, Attach(on)
      PROVE  BandInv' /\ BandStep
  <2>1. /\ attached' \in BOOLEAN /\ result' # "error"
        /\ UNCHANGED <<ngpios, bands, inUse, pins, port, want, lastLo, stray>>
    BY <1>4 DEF Attach
  <2>2. BandState' /\ BandInForce'
    BY <1>1, <2>1 DEF BandState, BandInForce
  <2> QED BY <2>1, <2>2 DEF BandInv, BandStep
<1>5. ASSUME NEW d \in Ways, NEW hz \in BandLos, Adjust(d, hz)
      PROVE  BandInv' /\ BandStep
  <2> DEFINE i == FirstCovering(bands[d], hz)
             old == IF inUse[d] = 0 THEN {} ELSE {bands[d][inUse[d]]}
             S == {j \in 1..Len(bands[d]) : bands[d][j].lo <= hz /\ hz < bands[d][j].hi}
  <2>1. /\ IF ~attached \/ i = 0 \/ i = inUse[d]
            THEN result' = "ok" /\ UNCHANGED <<inUse, pins, port, stray>>
            ELSE \E done \in Outcomes(Script(bands[d][i], old)) : Switch(d, i, Script(bands[d][i], old), done)
        /\ lastLo' = [lastLo EXCEPT ![d] = IF attached THEN hz ELSE @]
        /\ UNCHANGED <<ngpios, bands, attached, want>>
    BY <1>5 DEF Adjust
  <2>2. /\ bands[d] \in Seq(Bands) /\ Len(bands[d]) \in Nat /\ hz \in Int /\ lastLo \in [Ways -> Int]
        /\ attached \in BOOLEAN
    BY <1>1, ExtBandAssumption DEF BandState
  <2>3. /\ S = {} => i = 0
        /\ S # {} => i \in S /\ \A j \in S : i <= j
    BY <2>2, FirstFound
  <2>4. lastLo' \in [Ways -> Int] /\ (attached => lastLo'[d] = hz) /\ \A e \in Ways : e # d \/ ~attached => lastLo'[e] = lastLo[e]
    BY <2>1, <2>2
  <2> HIDE DEF i, S
  <2>5. CASE ~attached \/ i = 0 \/ i = inUse[d]
    <3>1. result' = "ok" /\ UNCHANGED <<inUse, pins, port, stray, ngpios, bands, attached, want>>
      BY <2>1, <2>5
    <3>2. BandState' /\ BandInForce'
      BY <1>1, <2>4, <3>1 DEF BandState, BandInForce
    <3>3. ASSUME NEW e \in Ways, attached, lastLo'[e] # lastLo[e]
          PROVE  LET hold == {j \in 1..Len(bands[e]) : bands[e][j].lo <= lastLo'[e] /\ lastLo'[e] < bands[e][j].hi}
                 IN  hold # {} => inUse'[e] \in hold /\ (\A j \in hold : inUse'[e] <= j)
      <4>1. e = d /\ lastLo'[e] = hz
        BY <2>4, <3>3
      <4>2. S # {} => i # 0
        BY <2>2, <2>3 DEF S
      <4>3. S # {} => inUse'[d] = i
        BY <2>5, <3>1, <3>3, <4>2
      <4> QED BY <2>3, <4>1, <4>3 DEF S
    <3>4. "ok" # "error"
      OBVIOUS
    <3> QED BY <3>1, <3>2, <3>3, <3>4 DEF BandInv, BandStep
  <2>6. CASE attached /\ i # 0 /\ i # inUse[d]
    <3>1. PICK done \in Outcomes(Script(bands[d][i], old)) : Switch(d, i, Script(bands[d][i], old), done)
      BY <2>1, <2>6
    <3>2. S # {} /\ i \in S /\ \A j \in S : i <= j
      BY <2>3, <2>6
    <3>3. i \in 1..Len(bands[d])
      BY <3>2 DEF S
    <3>4. PICK place, was, script :
            place \in 1..Len(bands[d]) /\ place = i /\ was = old /\ script = Script(bands[d][i], old)
      BY <3>3
    <3> HIDE DEF old
    <3>5. /\ BandInv' /\ (result' = "ok" => inUse'[d] = place)
          /\ \A e \in Ways : inUse'[e] # inUse[e] => e = d /\ inUse'[d] = place
          /\ result' = "error" => \A e \in Ways : inUse'[e] # inUse[e] =>
               LET b == bands[e][inUse'[e]]
               IN  Len(b.post) > 0 /\ (\A l \in (1..ngpios) \ stray'[e] : b.pins[l] \in {"nop", pins'[l]})
      <4>1. place \in 1..Len(bands[d]) /\ script = Script(bands[d][place], was) /\ done \in Outcomes(script) /\ Switch(d, place, script, done)
        BY <3>1, <3>3, <3>4
      <4>2. was = IF inUse[d] = 0 THEN {} ELSE {bands[d][inUse[d]]}
        BY <3>4 DEF old
      <4>3. UNCHANGED <<ngpios, bands, attached, want>> /\ lastLo' \in [Ways -> Int]
        BY <2>1, <2>4
      <4> QED BY <4>1, <4>2, <4>3, SwitchKeeps
    <3>6. ASSUME NEW e \in Ways, inUse'[e] # inUse[e] \/ (attached /\ lastLo'[e] # lastLo[e] /\ result' = "ok")
          PROVE  LET hold == {j \in 1..Len(bands[e]) : bands[e][j].lo <= lastLo'[e] /\ lastLo'[e] < bands[e][j].hi}
                 IN  hold # {} => inUse'[e] \in hold /\ (\A j \in hold : inUse'[e] <= j)
      <4>1. e = d /\ lastLo'[e] = hz /\ inUse'[d] = i
        BY <2>4, <2>6, <3>4, <3>5, <3>6
      <4> QED BY <3>2, <4>1 DEF S
    <3> QED BY <2>1, <3>5, <3>6, Zenon DEF BandStep
  <2> QED BY <2>2, <2>5, <2>6
<1>6. ASSUME NEW p \in RxPorts, SetRxPort(p)
      PROVE  BandInv' /\ BandStep
  <2>1. /\ UNCHANGED <<ngpios, bands, inUse, attached, pins, lastLo, stray>> /\ result' = "ok"
        /\ want' = [want EXCEPT !.rx = p] /\ port' = PortSetup(port, FALSE, p, want.tx)
    BY <1>6 DEF SetRxPort
  <2>2. PICK tx \in -1..1 : tx = want.tx /\ p \in -1..11
    BY <1>1, ExtBandAssumption DEF BandState
  <2>3. port' \in PortStates /\ (p <= 8 => port'.bits = Bits(p, tx))
    BY <1>1, <2>1, <2>2, PortSetupTyped DEF BandState
  <2>4. want' \in [rx : -1..11, tx : -1..1] /\ want'.rx = p /\ want'.tx = tx
    BY <1>1, <2>1, <2>2 DEF BandState
  <2>5. BandState' /\ BandInForce'
    BY <1>1, <2>1, <2>3, <2>4 DEF BandState, BandInForce
  <2>6. BandStep
    BY <2>1, <2>3, <2>4 DEF BandStep
  <2> QED BY <2>5, <2>6 DEF BandInv
<1>7. ASSUME NEW p \in {0, 1}, SetTxPort(p)
      PROVE  BandInv' /\ BandStep
  <2>1. /\ UNCHANGED <<ngpios, bands, inUse, attached, pins, lastLo, stray>> /\ result' = "ok"
        /\ want' = [want EXCEPT !.tx = p] /\ port' = PortSetup(port, TRUE, want.rx, p)
    BY <1>7 DEF SetTxPort
  <2>2. PICK rx \in -1..11 : rx = want.rx /\ p \in -1..1
    BY <1>1 DEF BandState
  <2>3. port' \in PortStates /\ port'.bits = Bits(rx, p)
    BY <1>1, <2>1, <2>2, PortSetupTyped DEF BandState
  <2>4. want' \in [rx : -1..11, tx : -1..1] /\ want'.rx = rx /\ want'.tx = p
    BY <1>1, <2>1, <2>2 DEF BandState
  <2>5. BandState' /\ BandInForce'
    BY <1>1, <2>1, <2>3, <2>4 DEF BandState, BandInForce
  <2>6. BandStep
    BY <2>1, <2>3, <2>4 DEF BandStep
  <2> QED BY <2>5, <2>6 DEF BandInv
<1> QED BY <1>2, <1>3, <1>4, <1>5, <1>6, <1>7 DEF BandNext

\* The lines are those of the settings in use but for the strays, the first setting that
\* covers the LO is taken, a failed switch can be tried again, and the ports are those
\* asked for: the promise of the band controller, and its variables keep their types.
THEOREM BandsAreKept == BandSpec => BandsKept /\ []BandTypeOK
<1>1. BandInit => BandInv
  <2> SUFFICES ASSUME BandInit PROVE BandInv
    OBVIOUS
  <2>1. 0 \in 0..MaxGpios
    BY ExtBandAssumption
  <2>2. port \in PortStates
    <3>1. Bits(0, 0) \in SUBSET (0..7)
      BY DEF Bits
    <3> QED BY <3>1 DEF BandInit, PortStates
  <2>3. bands \in [Ways -> Seq(Bands)] /\ \A d \in Ways : bands[d] = <<>> /\ Len(bands[d]) = 0 /\ inUse[d] = 0
    BY DEF BandInit
  <2>4. BandState
    <3>1. /\ ngpios = 0 /\ attached = FALSE /\ pins = [i \in Gpios |-> "input"] /\ want = [rx |-> 0, tx |-> 0]
          /\ inUse = [d \in Ways |-> 0] /\ lastLo = [d \in Ways |-> 0] /\ stray = [d \in Ways |-> {}]
      BY DEF BandInit
    <3>2. pins \in [Gpios -> Levels] /\ stray \in [Ways -> SUBSET Gpios]
      BY <3>1, Zenon DEF Levels
    <3>4. inUse \in [Ways -> Nat] /\ lastLo \in [Ways -> Int]
      BY <3>1
    <3>5. attached \in BOOLEAN
      BY <3>1, Zenon
    <3>6. want \in [rx : -1..11, tx : -1..1]
      <4>1. 0 \in -1..11 /\ 0 \in -1..1
        BY SMT
      <4>2. PICK A, B : A = -1..11 /\ B = -1..1
        OBVIOUS
      <4>3. want \in [rx : A, tx : B]
        BY <3>1, <4>1, <4>2, SMT
      <4> QED BY <4>2, <4>3
    <3>3. \A d \in Ways : inUse[d] \in 0..Len(bands[d])
      BY <2>3
    <3> QED BY <2>1, <2>2, <2>3, <3>1, <3>2, <3>3, <3>4, <3>5, <3>6 DEF BandState
  <2>5. BandInForce
    BY <2>3 DEF BandInForce
  <2> QED BY <2>4, <2>5 DEF BandInv
<1>2. BandInv /\ [BandNext]_bandVars => BandInv' /\ [BandStep]_bandVars
  <2>1. ASSUME BandInv, UNCHANGED bandVars PROVE BandInv'
    BY <2>1 DEF bandVars, BandInv, BandState, BandInForce
  <2> QED BY <2>1, BandNextKeeps
<1>3. BandInv => BandInForce /\ BandTypeOK
  BY DEF BandInv, BandState, BandTypeOK, PortStates
<1>4. BandStep => /\ \A d \in Ways : (inUse'[d] # inUse[d] \/ (attached /\ lastLo'[d] # lastLo[d] /\ result' = "ok")) =>
                       LET hold == {i \in 1..Len(bands[d]) : bands[d][i].lo <= lastLo'[d] /\ lastLo'[d] < bands[d][i].hi}
                       IN  hold # {} => inUse'[d] \in hold /\ (\A i \in hold : inUse'[d] <= i)
                  /\ result' = "error" => \A d \in Ways : inUse'[d] # inUse[d] =>
                       LET b == bands[d][inUse'[d]]
                       IN  Len(b.post) > 0 /\ (\A i \in (1..ngpios) \ stray'[d] : b.pins[i] \in {"nop", pins'[i]})
                  /\ want' # want /\ want'.rx <= 8 => port'.bits = Bits(want'.rx, want'.tx)
  BY DEF BandStep
<1> QED BY <1>1, <1>2, <1>3, PTL DEF BandSpec, BandsKept, FirstMatch, FailedIsRetried, PortsAsAsked, BandStep
=============================================================================
