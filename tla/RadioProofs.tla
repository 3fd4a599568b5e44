----------------------------- MODULE RadioProofs -----------------------------
(***************************************************************************)
(* Theorems about the transceiver's commands that change several registers *)
(* by several transfers, any of which may fail: the gain control modes     *)
(* (Agc), the attenuation pair (Attenuation) and the self-test (Bist);     *)
(* about the receivers' gain across the gain tables (Gain); about what a   *)
(* calibration finds, and what it leaves in the chip, failed or not        *)
(* (Calib); and about the signal strength: what is measured for how long,  *)
(* with which weights, and where the gain steps come from (Rssi).          *)
(***************************************************************************)
EXTENDS Gain, Attenuation, Bist, Calib, Rssi, Arithmetic, FiniteSetTheorems, TLAPS

-----------------------------------------------------------------------------
(* The gain control modes.  A command is two calls, one a channel; a call  *)
(* is a function of what the chip and the driver hold.                     *)

GainState == [on : SUBSET Rx, reg : [Rx -> AgcCodes], hybrid : BOOLEAN,
              mode : [Rx -> Modes], measure : {"fast", "other"}, lost : SUBSET Rx]

\* What a call leaves has its type, whichever transfers fail.
LEMMA ModedTyped ==
  ASSUME usedRx \in Rx, NEW c \in GainState, NEW ch \in Rx, NEW mode \in Modes, NEW f
  PROVE  Moded(c, ch, mode, f) \in GainState
<1> DEFINE r == Receiver(ch)
           m == [c EXCEPT !.mode[ch] = mode, !.lost = IF f # {} THEN @ \cup {ch} ELSE @]
           d == Duration(m.mode)
<1>1. m \in GainState
  BY DEF GainState
<1>2. d \in {"fast", "other"} /\ Coded(mode) \in AgcCodes
  BY DEF Duration, Coded, AgcCodes
<1>3. CASE "read" \in f \/ r \notin Rx \/ "disable" \in f
  <2>1. Moded(c, ch, mode, f) = m
    BY <1>3 DEF Moded
  <2> HIDE DEF m
  <2>2. QED BY <1>1, <2>1
<1>4. CASE ~("read" \in f \/ r \notin Rx \/ "disable" \in f) /\ "write" \in f
  <2>1. Moded(c, ch, mode, f) = [m EXCEPT !.on = @ \ {r}]
    BY <1>4 DEF Moded
  <2> HIDE DEF m
  <2>2. QED BY <1>1, <2>1 DEF GainState
<1>5. CASE ~("read" \in f \/ r \notin Rx \/ "disable" \in f) /\ "write" \notin f
  <2>1. Moded(c, ch, mode, f) =
          [m EXCEPT !.on = IF "enable" \in f THEN @ \ {r} ELSE @ \cup {r},
                    !.reg[r] = Coded(mode), !.hybrid = mode = "hybrid",
                    !.measure = IF "measure" \in f THEN @ ELSE d]
    BY <1>5 DEF Moded
  <2>2. r \in Rx
    BY <1>5
  <2> HIDE DEF m, d, r
  <2> DEFINE on  == IF "enable" \in f THEN m.on \ {r} ELSE m.on \cup {r}
             reg == [m.reg EXCEPT ![r] = Coded(mode)]
             hyb == mode = "hybrid"
             mea == IF "measure" \in f THEN m.measure ELSE d
  <2>3. on \in SUBSET Rx /\ reg \in [Rx -> AgcCodes] /\ hyb \in BOOLEAN
          /\ mea \in {"fast", "other"}
    BY <1>1, <1>2, <2>2 DEF GainState
  <2>4. Moded(c, ch, mode, f) = [m EXCEPT !.on = on, !.reg = reg, !.hybrid = hyb, !.measure = mea]
    BY <1>1, <2>1 DEF GainState
  <2> HIDE DEF on, reg, hyb, mea
  <2>5. QED BY <1>1, <2>3, <2>4 DEF GainState
<1>6. QED BY <1>3, <1>4, <1>5

\* A call keeps the mode asked for, whatever fails.
LEMMA ModedStores ==
  ASSUME NEW c \in GainState, NEW ch \in Rx, NEW mode \in Modes, NEW f
  PROVE  \A i \in Rx : Moded(c, ch, mode, f).mode[i] = IF i = ch THEN mode ELSE c.mode[i]
<1> DEFINE r == Receiver(ch)
           m == [c EXCEPT !.mode[ch] = mode, !.lost = IF f # {} THEN @ \cup {ch} ELSE @]
<1>1. m \in GainState /\ \A i \in Rx : m.mode[i] = IF i = ch THEN mode ELSE c.mode[i]
  BY DEF GainState
<1>2. Moded(c, ch, mode, f).mode = m.mode
  <2>1. CASE "read" \in f \/ r \notin Rx \/ "disable" \in f
    BY <2>1 DEF Moded
  <2>2. CASE ~("read" \in f \/ r \notin Rx \/ "disable" \in f)
    BY <1>1, <2>2 DEF Moded, GainState
  <2>3. QED BY <2>1, <2>2
<1>3. QED BY <1>1, <1>2

\* A failed transfer is noted with the channel of the call, and stays noted.
LEMMA ModedNotes ==
  ASSUME NEW c \in GainState, NEW ch \in Rx, NEW mode \in Modes, NEW f
  PROVE  /\ f # {} => ch \in Moded(c, ch, mode, f).lost
         /\ c.lost \subseteq Moded(c, ch, mode, f).lost
<1> DEFINE r == Receiver(ch)
           m == [c EXCEPT !.mode[ch] = mode, !.lost = IF f # {} THEN @ \cup {ch} ELSE @]
<1>1. m \in GainState /\ (f # {} => ch \in m.lost) /\ c.lost \subseteq m.lost
  BY DEF GainState
<1>2. Moded(c, ch, mode, f).lost = m.lost
  <2>1. CASE "read" \in f \/ r \notin Rx \/ "disable" \in f
    BY <2>1 DEF Moded
  <2>2. CASE ~("read" \in f \/ r \notin Rx \/ "disable" \in f)
    BY <1>1, <2>2 DEF Moded, GainState
  <2>3. QED BY <2>1, <2>2
<1>3. QED BY <1>1, <1>2

\* A call without a failure puts its receiver in the mode asked for, turns it
\* on and leaves the other one alone.
LEMMA ModedClean ==
  ASSUME usedRx \in Rx, NEW c \in GainState, NEW ch \in Rx, NEW mode \in Modes,
         Receiver(ch) \in Rx
  PROVE  LET w == Moded(c, ch, mode, {})
         IN  /\ w.on = c.on \cup {Receiver(ch)}
             /\ w.reg = [c.reg EXCEPT ![Receiver(ch)] = Coded(mode)]
             /\ w.hybrid = (mode = "hybrid")
             /\ w.measure = Duration(w.mode)
<1> DEFINE r == Receiver(ch)
           m == [c EXCEPT !.mode[ch] = mode]
           d == Duration(m.mode)
<1>1. m \in GainState /\ m.on = c.on /\ m.reg = c.reg
  BY DEF GainState
<1>2. m = [c EXCEPT !.mode[ch] = mode, !.lost = @]
  BY DEF GainState
<1>3. Moded(c, ch, mode, {}) =
        [m EXCEPT !.on = @ \cup {r}, !.reg[r] = Coded(mode), !.hybrid = mode = "hybrid",
                  !.measure = d]
  BY <1>2 DEF Moded
<1> HIDE DEF r
<1>4. QED
  <2>1. Moded(c, ch, mode, {}).mode = m.mode
    BY <1>1, <1>3 DEF GainState
  <2>2. Moded(c, ch, mode, {}).measure = d
    BY <1>1, <1>3 DEF GainState
  <2> HIDE DEF m, d
  <2>3. /\ Moded(c, ch, mode, {}).on = c.on \cup {r}
        /\ Moded(c, ch, mode, {}).reg = [c.reg EXCEPT ![r] = Coded(mode)]
        /\ Moded(c, ch, mode, {}).hybrid = (mode = "hybrid")
    BY <1>1, <1>3 DEF GainState
  <2>4. QED BY <2>1, <2>2, <2>3 DEF r, d

AgcInv == AgcTypeOK /\ AgcInForce

\* After setup every receiver's mode is noted as one that may not be in force.
LEMMA AgcInitial == AgcInit => AgcInv
<1> SUFFICES ASSUME AgcInit PROVE AgcInv
  OBVIOUS
<1>1. AgcTypeOK
  <2>1. Coded("slow") \in AgcCodes
    BY DEF Coded, AgcCodes
  <2>2. QED BY <2>1, AgcAssumption DEF AgcInit, AgcTypeOK, Rx, Modes
<1>2. AgcInForce
  BY DEF AgcInit, AgcInForce, ModeInForce, MeasureFits, Rx
<1>3. QED BY <1>1, <1>2 DEF AgcInv

\* Nothing is assumed of the state before but its type: the command that ends
\* without a failed transfer repairs what earlier ones left.
LEMMA AgcStep == AgcInv /\ [SetMode]_agcVars => AgcInv'
<1> SUFFICES ASSUME AgcInv, [SetMode]_agcVars PROVE AgcInv'
  OBVIOUS
<1> USE DEF AgcInv
<1>1. CASE UNCHANGED agcVars
  BY <1>1 DEF agcVars, AgcTypeOK, AgcInForce, ModeInForce, MeasureFits, Receiver, Duration
<1>2. CASE SetMode
  <2>1. PICK mode \in AgcModes, f1 \in AgcSlips, f2 \in AgcSlips :
          Becomes(Moded(Moded(Chip, 1, mode, f1), 2, mode, f2)) /\ UNCHANGED usedRx
    BY <1>2 DEF SetMode
  <2> DEFINE w1 == Moded(Chip, 1, mode, f1)
             w2 == Moded(w1, 2, mode, f2)
  <2>2. usedRx \in Rx /\ 1 \in Rx /\ 2 \in Rx /\ mode \in Modes
    BY AgcAssumption DEF AgcTypeOK, Rx
  <2>3. Chip \in GainState
    BY DEF AgcTypeOK, GainState, Chip
  <2>4. w1 \in GainState
    BY <2>2, <2>3, ModedTyped
  <2>5. w2 \in GainState
    BY <2>2, <2>4, ModedTyped
  <2>6. w2.mode[1] = mode /\ w2.mode[2] = mode
    <3>1. w1.mode[1] = mode
      BY <2>2, <2>3, ModedStores
    <3>2. \A i \in Rx : w2.mode[i] = IF i = 2 THEN mode ELSE w1.mode[i]
      BY <2>2, <2>4, ModedStores
    <3>3. QED BY <2>2, <3>1, <3>2
  <2>7. (f1 # {} => w2.lost # {}) /\ (f2 # {} => 2 \in w2.lost)
    <3>1. f1 # {} => 1 \in w1.lost
      BY <2>2, <2>3, ModedNotes
    <3>2. (f2 # {} => 2 \in w2.lost) /\ w1.lost \subseteq w2.lost
      BY <2>2, <2>4, ModedNotes
    <3>3. QED BY <3>1, <3>2
  <2>8. /\ rxOn' = w2.on /\ agcReg' = w2.reg /\ hybrid' = w2.hybrid
        /\ agcMode' = w2.mode /\ measure' = w2.measure /\ agcLost' = w2.lost
        /\ usedRx' = usedRx
    BY <2>1 DEF Becomes
  <2> HIDE DEF w1, w2
  <2>9. AgcTypeOK'
    BY <2>5, <2>8 DEF AgcTypeOK, GainState
  <2>10. agcMode'[1] = mode /\ agcMode'[2] = mode
    BY <2>6, <2>8
  <2>11. ModeInForce'
    <3> SUFFICES ASSUME agcLost' = {}, NEW ch \in Rx, Receiver(ch) \in Rx
                 PROVE  /\ Receiver(ch) \in rxOn' /\ agcReg'[Receiver(ch)] = Coded(agcMode'[ch])
                        /\ hybrid' <=> agcMode'[ch] = "hybrid"
      BY <2>8 DEF ModeInForce, Receiver, Rx
    <3>1. f1 = {} /\ f2 = {}
      BY <2>7, <2>8
    <3>2. Receiver(1) \in Rx
      BY <2>2 DEF Receiver, Rx
    <3>3. /\ w1.on = rxOn \cup {Receiver(1)}
          /\ w1.reg = [agcReg EXCEPT ![Receiver(1)] = Coded(mode)]
          /\ w1.hybrid = (mode = "hybrid")
      <4>1. w1 = Moded(Chip, 1, mode, {}) /\ Chip.on = rxOn /\ Chip.reg = agcReg
        BY <3>1 DEF w1, Chip
      <4>2. QED BY <2>2, <2>3, <3>2, <4>1, ModedClean
    <3>4. CASE usedRx = 1
      <4>1. Receiver(1) = 1 /\ Receiver(2) = 2
        BY <3>4 DEF Receiver
      <4>2. w2 = Moded(w1, 2, mode, {})
        BY <3>1 DEF w2
      <4>3. /\ w2.on = w1.on \cup {2}
            /\ w2.reg = [w1.reg EXCEPT ![2] = Coded(mode)]
            /\ w2.hybrid = (mode = "hybrid")
        BY <2>2, <2>4, <4>1, <4>2, ModedClean
      <4>4. w2.reg[1] = Coded(mode) /\ w2.reg[2] = Coded(mode)
        BY <3>3, <4>1, <4>3 DEF AgcTypeOK, Rx
      <4>5. CASE ch = 1
        BY <2>8, <2>10, <3>3, <4>1, <4>3, <4>4, <4>5
      <4>6. CASE ch = 2
        BY <2>8, <2>10, <3>3, <4>1, <4>3, <4>4, <4>6
      <4>7. QED BY <4>5, <4>6 DEF Rx
    <3>5. CASE usedRx = 2
      <4>1. Receiver(1) = 2 /\ Receiver(2) = 3 /\ ch = 1
        BY <3>5 DEF Receiver, Rx
      <4>2. w2.on = w1.on /\ w2.reg = w1.reg /\ w2.hybrid = w1.hybrid
        <5>1. Receiver(2) \notin Rx
          BY <4>1 DEF Rx
        <5>2. w2 = [w1 EXCEPT !.mode[2] = mode, !.lost = IF f2 # {} THEN @ \cup {2} ELSE @]
          BY <5>1 DEF w2, Moded
        <5>3. QED BY <2>4, <5>2 DEF GainState
      <4>3. w2.reg[2] = Coded(mode)
        BY <3>3, <4>1, <4>2 DEF AgcTypeOK, Rx
      <4>4. QED BY <2>8, <2>10, <3>3, <4>1, <4>2, <4>3
    <3>6. QED BY <2>2, <3>4, <3>5 DEF Rx
  <2>12. MeasureFits'
    <3> SUFFICES ASSUME usedRx = 1, 2 \notin agcLost' PROVE measure' = Duration(agcMode')
      BY <2>8 DEF MeasureFits, Duration
    <3>1. f2 = {}
      BY <2>7, <2>8
    <3>2. w2 = Moded(w1, 2, mode, {}) /\ Receiver(2) \in Rx
      BY <3>1 DEF w2, Receiver, Rx
    <3>3. w2.measure = Duration(w2.mode)
      BY <2>2, <2>4, <3>2, ModedClean
    <3>4. QED BY <2>8, <3>3
  <2>13. QED BY <2>9, <2>11, <2>12 DEF AgcInForce
<1>3. QED BY <1>1, <1>2

\* Whatever transfers fail, a gain control command that loses none leaves both
\* receivers on, in the mode asked for, with the shared bit and the measurement
\* that fit it, on boards of either receiver (ad9361.c
\* ad9361_set_gain_ctrl_mode(), ad9361_gc_update()).
THEOREM GainModesInForce == AgcSpec => []AgcInForce
<1>1. AgcInv => AgcInForce
  BY DEF AgcInv
<1>2. QED BY AgcInitial, AgcStep, <1>1, PTL DEF AgcSpec
-----------------------------------------------------------------------------
(* The attenuation pair.  A transfer sequence is a function of what the    *)
(* chip holds.                                                             *)

TpcState == [atten : [Ch -> Steps], holding : BOOLEAN, inForce : [Ch -> Steps]]

\* An attenuation in range is a step of the register.
LEMMA StepsInRange ==
  ASSUME NEW mdb \in Nat, mdb <= MaxAtten
  PROVE  StepsOf(mdb) \in Steps
BY AttenuationAssumption, DivMonotone DEF StepsOf, Steps

\* The registers keep their type, whichever transfers fail.
LEMMA WrittenTyped ==
  ASSUME NEW w \in TpcState, NEW D \in SUBSET Ch, NEW written \in [D -> Steps], NEW fails
  PROVE  AttWritten(w, written, fails) \in TpcState
<1> DEFINE a == IF "write" \in fails THEN w.atten
                ELSE [c \in Ch |-> IF c \in DOMAIN written THEN written[c] ELSE w.atten[c]]
           h == "release" \in fails /\ (w.holding \/ "hold" \notin fails)
           i == IF h THEN w.inForce ELSE a
<1>1. a \in [Ch -> Steps]
  BY DEF TpcState
<1>2. h \in BOOLEAN
  BY DEF TpcState
<1> HIDE DEF a, h
<1>3. i \in [Ch -> Steps]
  BY <1>1 DEF TpcState
<1>4. AttWritten(w, written, fails) = [atten |-> a, holding |-> h, inForce |-> i]
  BY DEF AttWritten, a, h
<1> HIDE DEF i
<1>5. QED BY <1>1, <1>2, <1>3, <1>4 DEF TpcState

\* Without a failure the channels written hold and apply what was written, the
\* others what they held, whatever was held back before.
LEMMA WrittenClean ==
  ASSUME NEW w \in TpcState, NEW D \in SUBSET Ch, NEW written \in [D -> Steps]
  PROVE  LET v == AttWritten(w, written, {})
         IN  /\ v.inForce = v.atten
             /\ \A c \in Ch : v.atten[c] = IF c \in D THEN written[c] ELSE w.atten[c]
<1> DEFINE a == [c \in Ch |-> IF c \in DOMAIN written THEN written[c] ELSE w.atten[c]]
<1>1. AttWritten(w, written, {}) = [atten |-> a, holding |-> FALSE, inForce |-> a]
  BY DEF AttWritten
<1>2. QED BY <1>1

\* While the transmitters are muted without a failure, their own attenuations
\* are saved.
MuteSaved == muted /\ ~slipped => savedAtten = loud

\* They were equal on the channels of this board, unless a set has failed.
MutedPair ==
  muted /\ ~apart => \A c, d \in Targets(0) \cup Targets(1) : loud[c] = loud[d]

AttInv == AttTypeOK /\ PairInForce /\ CodeIsThisFailure /\ MuteSaved /\ MutedPair

\* After setup both channels are at full power.
LEMMA AttInitial == AttInit => AttInv
<1> SUFFICES ASSUME AttInit PROVE AttInv
  OBVIOUS
<1>1. 0 \in Steps
  <2>1. 0 \div Quarter = 0 /\ StepsOf(0) \in Steps
    BY StepsInRange, AttenuationAssumption, DivFacts
  <2>2. QED BY <2>1 DEF StepsOf
<1>2. AttTypeOK
  BY <1>1, AttenuationAssumption DEF AttInit, AttTypeOK, Codes
<1>3. PairInForce /\ CodeIsThisFailure /\ MuteSaved /\ MutedPair
  BY DEF AttInit, PairInForce, CodeIsThisFailure, MuteSaved, MutedPair, Targets
<1>4. QED BY <1>2, <1>3 DEF AttInv

\* What the registers and notes hold has the type of a call's argument.
LEMMA NowTyped == AttTypeOK => Now \in TpcState
BY DEF AttTypeOK, Now, TpcState

\* A reply's code is the one printed.
LEMMA ReplyCode ==
  ASSUME CodeIsThisFailure, AttTypeOK, NEW ret \in Codes, Reply(ret)
  PROVE  CodeIsThisFailure' /\ code' \in Codes /\ answer' \in [ok : BOOLEAN, code : Codes]
BY DEF CodeIsThisFailure, Reply, AttTypeOK, Codes

\* A set: both channels, or a code for this failure.
LEMMA SetAttenuationStep ==
  ASSUME AttInv, SetAttenuation
  PROVE  AttInv'
<1> USE DEF AttInv
<1>1. PICK mdb \in Attens, f1 \in Slips(Transfers), f2 \in Slips(Transfers) :
        LET to(n)     == [c \in Targets(Channels[n]) |-> StepsOf(mdb)]
            failed(n, f) == "write" \in f /\ Targets(Channels[n]) # {}
            after1    == AttWritten(Now, to(1), f1)
        IN  /\ ~muted
            /\ IF mdb > MaxAtten
               THEN Ends(Now) /\ Reply("EINVAL") /\ UNCHANGED <<apart, slipped>>
               ELSE /\ Ends(IF failed(1, f1) THEN after1 ELSE AttWritten(after1, to(2), f2))
                    /\ Reply(IF failed(1, f1) \/ failed(2, f2) THEN "EIO" ELSE "none")
                    /\ apart' = (f1 \cup f2 # {}) /\ slipped' = FALSE
            /\ UNCHANGED <<usedTx, savedAtten, muted, loud>>
  BY DEF SetAttenuation
<1> DEFINE s       == StepsOf(mdb)
           to1     == [c \in Targets(0) |-> s]
           to2     == [c \in Targets(1) |-> s]
           failed1 == "write" \in f1 /\ Targets(0) # {}
           failed2 == "write" \in f2 /\ Targets(1) # {}
           after1  == AttWritten(Now, to1, f1)
           after2  == AttWritten(after1, to2, f2)
           ret     == IF failed1 \/ failed2 THEN "EIO" ELSE "none"
<1>2. Channels[1] = 0 /\ Channels[2] = 1
  BY DEF Channels
<1>3. ~muted /\ muted' = muted /\ usedTx' = usedTx /\ savedAtten' = savedAtten /\ loud' = loud
  BY <1>1
<1>4. Targets(0)' = Targets(0) /\ Targets(1)' = Targets(1)
  BY <1>3 DEF Targets, Mapped
<1>5. MuteSaved' /\ MutedPair'
  BY <1>3 DEF MuteSaved, MutedPair
<1>6. CASE mdb > MaxAtten
  <2>1. Ends(Now) /\ Reply("EINVAL") /\ UNCHANGED <<apart, slipped>>
    BY <1>1, <1>6
  <2>2. atten' = atten /\ holding' = holding /\ inForce' = inForce
    BY <2>1 DEF Ends, Now
  <2>3. CodeIsThisFailure' /\ code' \in Codes /\ answer' \in [ok : BOOLEAN, code : Codes]
    BY <2>1, ReplyCode DEF Codes
  <2>4. AttTypeOK'
    <3>1. {atten', inForce', loud'} \subseteq [Ch -> Steps]
      BY <1>3, <2>2 DEF AttTypeOK
    <3>2. QED BY <1>3, <2>1, <2>2, <2>3, <3>1 DEF AttTypeOK
  <2>5. PairInForce'
    BY <1>3, <1>4, <2>1, <2>2 DEF PairInForce
  <2>6. QED BY <1>5, <2>3, <2>4, <2>5
<1>7. CASE ~(mdb > MaxAtten)
  <2>1. /\ Ends(IF failed1 THEN after1 ELSE after2)
        /\ Reply(ret)
        /\ apart' = (f1 \cup f2 # {}) /\ slipped' = FALSE
    BY <1>1, <1>2, <1>7
  <2>2. s \in Steps
    BY <1>7, StepsInRange, AttenuationAssumption
  <2>3. Targets(0) \in SUBSET Ch /\ Targets(1) \in SUBSET Ch
    BY DEF Targets
  <2>4. to1 \in [Targets(0) -> Steps] /\ to2 \in [Targets(1) -> Steps]
    BY <2>2
  <2>5. ret \in Codes
    BY DEF Codes
  <2> HIDE DEF s, to1, to2, ret
  <2>6. Now \in TpcState /\ after1 \in TpcState
    <3>1. Now \in TpcState
      BY NowTyped
    <3>2. QED BY <3>1, <2>3, <2>4, WrittenTyped
  <2>7. after2 \in TpcState
    BY <2>3, <2>4, <2>6, WrittenTyped
  <2>8. CodeIsThisFailure' /\ code' \in Codes /\ answer' \in [ok : BOOLEAN, code : Codes]
    BY <2>1, <2>5, ReplyCode
  <2>9. AttTypeOK'
    <3> HIDE DEF after1, after2, failed1
    <3>1. atten' \in [Ch -> Steps] /\ holding' \in BOOLEAN /\ inForce' \in [Ch -> Steps]
      BY <2>1, <2>6, <2>7 DEF Ends, TpcState
    <3>2. {atten', inForce', loud'} \subseteq [Ch -> Steps]
      BY <1>3, <3>1 DEF AttTypeOK
    <3>3. usedTx' \in UseTx /\ savedAtten' \in [Ch -> Steps \cup {Lost}] /\ muted' \in BOOLEAN
      BY <1>3 DEF AttTypeOK
    <3>4. apart' \in BOOLEAN /\ slipped' \in BOOLEAN
      BY <2>1
    <3>5. QED BY <2>8, <3>1, <3>2, <3>3, <3>4 DEF AttTypeOK
  <2>10. PairInForce'
    <3> SUFFICES ASSUME ~apart'
                 PROVE  /\ inForce' = atten'
                        /\ \A c, d \in Targets(0) \cup Targets(1) : atten'[c] = atten'[d]
      BY <1>4 DEF PairInForce
    <3>1. f1 = {} /\ f2 = {}
      BY <2>1
    <3>2. after1 = AttWritten(Now, to1, {}) /\ after2 = AttWritten(after1, to2, {}) /\ ~failed1
      BY <3>1
    <3> HIDE DEF after1, after2, failed1
    <3>3. atten' = after2.atten /\ inForce' = after2.inForce
      BY <2>1, <3>2 DEF Ends
    <3>4. \A c \in Ch : after1.atten[c] = IF c \in Targets(0) THEN to1[c] ELSE Now.atten[c]
      BY <2>3, <2>4, <2>6, <3>2, WrittenClean
    <3>5. /\ after2.inForce = after2.atten
          /\ \A c \in Ch : after2.atten[c] = IF c \in Targets(1) THEN to2[c] ELSE after1.atten[c]
      BY <2>3, <2>4, <2>6, <3>2, WrittenClean
    <3>6. \A c \in Targets(0) \cup Targets(1) : after2.atten[c] = s
      <4> SUFFICES ASSUME NEW c \in Targets(0) \cup Targets(1) PROVE after2.atten[c] = s
        OBVIOUS
      <4>1. c \in Ch
        BY <2>3
      <4>2. CASE c \in Targets(1)
        BY <3>5, <4>1, <4>2 DEF to2
      <4>3. CASE c \notin Targets(1)
        BY <3>4, <3>5, <4>1, <4>3 DEF to1
      <4>4. QED BY <4>2, <4>3
    <3>7. QED BY <3>3, <3>5, <3>6
  <2>11. QED BY <1>5, <2>8, <2>9, <2>10
<1>8. QED BY <1>6, <1>7

\* A read changes its answer and the code only.
LEMMA ReadStep ==
  ASSUME AttInv, ReadAttenuation
  PROVE  AttInv'
<1> USE DEF AttInv
<1>1. /\ UNCHANGED <<usedTx, atten, holding, inForce, savedAtten, muted, apart, slipped, loud>>
      /\ \E ret \in Codes : Reply(ret)
  BY DEF ReadAttenuation, Codes
<1>2. CodeIsThisFailure' /\ code' \in Codes /\ answer' \in [ok : BOOLEAN, code : Codes]
  BY <1>1, ReplyCode
<1>3. AttTypeOK'
  BY <1>1, <1>2 DEF AttTypeOK
<1>4. PairInForce' /\ MuteSaved' /\ MutedPair'
  BY <1>1 DEF PairInForce, MuteSaved, MutedPair, Targets, Mapped
<1>5. QED BY <1>2, <1>3, <1>4

\* A mute notes what both channels had.
LEMMA MuteStep ==
  ASSUME AttInv, Mute
  PROVE  AttInv'
<1> USE DEF AttInv
<1>1. PICK reads \in Slips(Ch), fails \in Slips(Transfers) :
        /\ ~muted /\ muted' = TRUE /\ loud' = atten
        /\ savedAtten' = [c \in Ch |-> IF c \in reads THEN Lost ELSE atten[c]]
        /\ Ends(AttWritten(Now, [c \in Ch |-> StepsOf(MaxAtten)], fails))
        /\ slipped' = (reads # {} \/ fails # {})
        /\ UNCHANGED <<usedTx, code, answer, apart>>
  BY DEF Mute
<1> DEFINE quiet == [c \in Ch |-> StepsOf(MaxAtten)]
           after == AttWritten(Now, quiet, fails)
<1>2. quiet \in [Ch -> Steps]
  BY StepsInRange, AttenuationAssumption
<1> HIDE DEF quiet
<1>3. after \in TpcState
  BY <1>2, NowTyped, WrittenTyped
<1>4. Ends(after)
  BY <1>1 DEF quiet
<1> HIDE DEF after
<1>5. atten' \in [Ch -> Steps] /\ holding' \in BOOLEAN /\ inForce' \in [Ch -> Steps]
  BY <1>3, <1>4 DEF Ends, TpcState
<1>6. AttTypeOK'
  <2>1. savedAtten' \in [Ch -> Steps \cup {Lost}]
    BY <1>1 DEF AttTypeOK
  <2>2. slipped' \in BOOLEAN /\ loud' \in [Ch -> Steps]
    BY <1>1 DEF AttTypeOK
  <2>3. QED BY <1>1, <1>5, <2>1, <2>2 DEF AttTypeOK
<1>7. MuteSaved'
  BY <1>1 DEF MuteSaved, AttTypeOK
<1>8. PairInForce' /\ MutedPair'
  BY <1>1 DEF PairInForce, MutedPair, Targets, Mapped
<1>9. CodeIsThisFailure'
  BY <1>1 DEF CodeIsThisFailure
<1>10. QED BY <1>6, <1>7, <1>8, <1>9

\* Unmuting: the type whatever fails, and without a failure each transmitter's
\* own attenuation, written in one go or in two.
LEMMA Unmuted ==
  ASSUME AttInv, Unmute
  PROVE  /\ muted /\ muted' = FALSE
         /\ slipped' \in BOOLEAN /\ apart' = (apart \/ slipped')
         /\ UNCHANGED <<usedTx, savedAtten, code, answer, loud>>
         /\ atten' \in [Ch -> Steps] /\ holding' \in BOOLEAN /\ inForce' \in [Ch -> Steps]
         /\ ~slipped' => atten' = loud /\ inForce' = loud
<1> USE DEF AttInv
<1> DEFINE back(w, ch, f) == IF Lost \in {savedAtten[c] : c \in ch} THEN w
                             ELSE AttWritten(w, [c \in ch |-> savedAtten[c]], f)
<1>1. PICK f1 \in Slips(Transfers), f2 \in Slips(Transfers) :
        /\ muted /\ muted' = FALSE
        /\ Ends(IF savedAtten[1] = savedAtten[2] THEN back(Now, Ch, f1)
                ELSE back(back(Now, {1}, f1), {2}, f2))
        /\ slipped' = (slipped \/ f1 \cup f2 # {}) /\ apart' = (apart \/ slipped')
        /\ UNCHANGED <<usedTx, savedAtten, code, answer, loud>>
  BY DEF Unmute
<1>2. ASSUME NEW w \in TpcState, NEW ch \in SUBSET Ch, NEW f
      PROVE  back(w, ch, f) \in TpcState
  <2>1. CASE Lost \in {savedAtten[c] : c \in ch}
    BY <2>1
  <2>2. CASE Lost \notin {savedAtten[c] : c \in ch}
    <3>1. [c \in ch |-> savedAtten[c]] \in [ch -> Steps]
      BY <2>2 DEF AttTypeOK
    <3>2. QED BY <2>2, <3>1, WrittenTyped
  <2>3. QED BY <2>1, <2>2
<1>3. ASSUME NEW w \in TpcState, NEW ch \in SUBSET Ch, savedAtten = loud
      PROVE  /\ back(w, ch, {}).inForce = back(w, ch, {}).atten
             /\ \A c \in Ch : back(w, ch, {}).atten[c] = IF c \in ch THEN loud[c] ELSE w.atten[c]
  <2>1. Lost \notin Steps /\ loud \in [Ch -> Steps]
    BY AttenuationAssumption DEF AttTypeOK, Lost, Steps
  <2>2. Lost \notin {savedAtten[c] : c \in ch}
    BY <1>3, <2>1
  <2> DEFINE own == [c \in ch |-> savedAtten[c]]
  <2>3. own \in [ch -> Steps] /\ \A c \in ch : own[c] = loud[c]
    BY <1>3, <2>1
  <2>4. back(w, ch, {}) = AttWritten(w, own, {})
    BY <2>2
  <2> HIDE DEF own, back
  <2>5. QED BY <2>3, <2>4, WrittenClean
<1>4. Now \in TpcState /\ Ch \in SUBSET Ch /\ {1} \in SUBSET Ch /\ {2} \in SUBSET Ch
  BY NowTyped DEF Ch
<1> DEFINE one == back(Now, Ch, f1)
           fst == back(Now, {1}, f1)
           two == back(fst, {2}, f2)
           end == IF savedAtten[1] = savedAtten[2] THEN one ELSE two
<1>5. Ends(end)
  BY <1>1
<1> HIDE DEF back
<1>6. one \in TpcState /\ fst \in TpcState
  BY <1>2, <1>4
<1>7. two \in TpcState
  BY <1>2, <1>4, <1>6
<1>8. ASSUME ~slipped' PROVE atten' = loud /\ inForce' = loud
  <2>1. savedAtten = loud /\ f1 = {} /\ f2 = {}
    BY <1>1, <1>8 DEF MuteSaved
  <2>2. one.inForce = one.atten /\ \A c \in Ch : one.atten[c] = loud[c]
    <3>1. one = back(Now, Ch, {})
      BY <2>1
    <3>2. QED BY <1>3, <1>4, <2>1, <3>1
  <2>3. \A c \in Ch : fst.atten[c] = IF c \in {1} THEN loud[c] ELSE Now.atten[c]
    <3>1. fst = back(Now, {1}, {})
      BY <2>1
    <3>2. QED BY <1>3, <1>4, <2>1, <3>1
  <2>4. two.inForce = two.atten /\ \A c \in Ch : two.atten[c] = IF c \in {2} THEN loud[c] ELSE fst.atten[c]
    <3>1. two = back(fst, {2}, {})
      BY <2>1
    <3> HIDE DEF fst
    <3>2. QED BY <1>3, <1>4, <1>6, <2>1, <3>1
  <2> HIDE DEF one, two, fst
  <2>5. \A c \in Ch : two.atten[c] = loud[c]
    BY <2>3, <2>4 DEF Ch
  <2>6. end.inForce = end.atten /\ \A c \in Ch : end.atten[c] = loud[c]
    BY <2>2, <2>4, <2>5
  <2>7. end.atten \in [Ch -> Steps] /\ loud \in [Ch -> Steps]
    BY <1>6, <1>7 DEF TpcState, AttTypeOK
  <2> HIDE DEF end
  <2>8. end.atten = loud
    BY <2>6, <2>7
  <2>9. QED BY <1>5, <2>6, <2>8 DEF Ends
<1>9. atten' \in [Ch -> Steps] /\ holding' \in BOOLEAN /\ inForce' \in [Ch -> Steps]
  <2> HIDE DEF one, two
  <2>1. end \in TpcState
    BY <1>6, <1>7
  <2> HIDE DEF end
  <2>2. QED BY <1>5, <2>1 DEF Ends, TpcState
<1>10. slipped' \in BOOLEAN
  BY <1>1
<1>11. QED BY <1>1, <1>8, <1>9, <1>10

\* An unmute restores what was noted.
LEMMA UnmuteStep ==
  ASSUME AttInv, Unmute
  PROVE  AttInv'
<1> USE DEF AttInv
<1>1. AttTypeOK'
  <2>1. {atten', inForce', loud'} \subseteq [Ch -> Steps]
    BY Unmuted DEF AttTypeOK
  <2>2. usedTx' \in UseTx /\ savedAtten' \in [Ch -> Steps \cup {Lost}]
    BY Unmuted DEF AttTypeOK
  <2>3. code' \in Codes /\ answer' \in [ok : BOOLEAN, code : Codes]
    BY Unmuted DEF AttTypeOK
  <2>4. holding' \in BOOLEAN /\ muted' \in BOOLEAN /\ apart' \in BOOLEAN /\ slipped' \in BOOLEAN
    <3>1. holding' \in BOOLEAN /\ muted' = FALSE /\ slipped' \in BOOLEAN
      BY Unmuted
    <3>2. (apart \/ slipped') \in BOOLEAN
      OBVIOUS
    <3>3. apart' = (apart \/ slipped')
      BY Unmuted
    <3>4. QED BY <3>1, <3>2, <3>3
  <2>5. QED BY <2>1, <2>2, <2>3, <2>4 DEF AttTypeOK
<1>2. PairInForce'
  <2> SUFFICES ASSUME ~apart'
               PROVE  /\ inForce' = atten'
                      /\ \A c, d \in Targets(0) \cup Targets(1) : atten'[c] = atten'[d]
    BY Unmuted DEF PairInForce, Targets, Mapped
  <2>1. ~apart /\ muted /\ atten' = loud /\ inForce' = loud
    BY Unmuted
  <2>2. QED BY <2>1 DEF MutedPair
<1>3. CodeIsThisFailure' /\ MuteSaved' /\ MutedPair'
  BY Unmuted DEF CodeIsThisFailure, MuteSaved, MutedPair
<1>4. QED BY <1>1, <1>2, <1>3

\* A step keeps the invariant of the attenuation.
LEMMA AttStep == AttInv /\ [AttNext]_attVars => AttInv'
<1>1. AttInv /\ UNCHANGED attVars => AttInv'
  BY DEF AttInv, attVars, AttTypeOK, PairInForce, CodeIsThisFailure, MuteSaved, MutedPair,
         Targets, Mapped
<1>2. QED
  BY <1>1, SetAttenuationStep, ReadStep, MuteStep, UnmuteStep DEF AttNext

\* Whichever transfers fail: unmuting without a failure gives each transmitter
\* its own attenuation back, a failed command prints its own code, and without
\* a failure since the last set the pair is equal and in force
\* (ad9361_transceiver.cpp:83-114, ad9361.c ad9361_tx_mute()).
THEOREM AttenuationIsKept == AttSpec => AttenuationKept
<1>1. AttInv /\ [AttNext]_attVars
        => [muted /\ ~muted' /\ ~slipped' => atten' = loud /\ inForce' = loud]_attVars
  <2> SUFFICES ASSUME AttInv, AttNext, muted, ~muted', ~slipped'
               PROVE  atten' = loud /\ inForce' = loud
    BY DEF attVars
  <2>1. CASE SetAttenuation
    BY <2>1 DEF SetAttenuation
  <2>2. CASE ReadAttenuation
    BY <2>2 DEF ReadAttenuation
  <2>3. CASE Mute
    BY <2>3 DEF Mute
  <2>4. CASE Unmute
    BY <2>4, Unmuted
  <2>5. QED BY <2>1, <2>2, <2>3, <2>4 DEF AttNext
<1>2. AttInv => PairInForce /\ CodeIsThisFailure
  BY DEF AttInv
<1>3. QED
  BY AttInitial, AttStep, <1>1, <1>2, PTL DEF AttSpec, AttenuationKept, MuteIsUndone

-----------------------------------------------------------------------------
(* The self-test.                                                          *)

\* The rounding of a frequency to a multiple of clk / 32 is one of four steps
\* in the range of the tones.
LEMMA Rounded ==
  ASSUME NEW S \in Nat \ {0}, NEW f \in Nat, 64 * f >= S, 64 * f < 9 * S
  PROVE  LET n == (32 * f + S \div 2) \div S
         IN  n \in 1..4 /\ 2 * (32 * f - n * S) <= S /\ 2 * (n * S - 32 * f) <= S
<1>1. PICK h \in Nat, e \in 0..1 : S \div 2 = h /\ S = 2 * h + e
  BY DivFacts
<1>2. PICK q \in Nat, r \in 0..(S - 1) :
        (32 * f + h) \div S = q /\ 32 * f + h = S * q + r
  BY <1>1, DivFacts
<1>3. 32 * f + h >= S /\ 32 * f + h < S * 4 + S
  BY <1>1
<1>4. q \in 1..4
  <2>1. S * 1 < S * q + S /\ S * q < S * 4 + S
    BY <1>2, <1>3
  <2>2. q <= 4 /\ 1 <= q
    BY <2>1, CancelFactor
  <2>3. QED BY <2>2
<1>5. 2 * (32 * f - q * S) <= S /\ 2 * (q * S - 32 * f) <= S
  <2>1. CASE q = 1
    BY <1>1, <1>2, <2>1
  <2>2. CASE q = 2
    BY <1>1, <1>2, <2>2
  <2>3. CASE q = 3
    BY <1>1, <1>2, <2>3
  <2>4. CASE q = 4
    BY <1>1, <1>2, <2>4
  <2>5. QED BY <1>4, <2>1, <2>2, <2>3, <2>4
<1>6. QED BY <1>1, <1>2, <1>4, <1>5

\* The code of a tone fits its two bits, whatever is asked for.
LEMMA ToneBitsTyped ==
  ASSUME NEW hz \in Nat
  PROVE  ToneBits(hz) \in 0..3 /\ hz % Uint32 \in 0..Uint32 - 1
<1>1. hz % Uint32 \in 0..Uint32 - 1
  BY BistAssumption, DivFacts
<1> DEFINE f == hz % Uint32
           m == (f * 32) % Uint32
           n == ((m + SampleClk \div 2) % Uint32) \div SampleClk
<1>2. f \in Nat
  BY <1>1, BistAssumption
<1> HIDE DEF f
<1>3. m \in Nat
  BY <1>2, BistAssumption, DivFacts
<1> HIDE DEF m
<1>4. SampleClk \div 2 \in Nat
  BY BistAssumption, DivFacts
<1>5. (m + SampleClk \div 2) % Uint32 \in Nat
  BY <1>3, <1>4, BistAssumption, DivFacts
<1>6. n \in Nat
  BY <1>5, BistAssumption, DivFacts
<1>7. ToneBits(hz) = IF f < 4 THEN f ELSE (n - 1) % 4
  BY DEF ToneBits, f, m
<1> HIDE DEF n
<1>8. (n - 1) % 4 \in 0..3
  BY <1>6
<1>9. QED BY <1>1, <1>2, <1>7, <1>8

\* What the code computes of a frequency is what it computes of its low 32 bits.
LEMMA ToneBitsCut ==
  ASSUME NEW hz \in Nat
  PROVE  ToneBits(hz % Uint32) = ToneBits(hz)
<1>1. hz % Uint32 \in 0..Uint32 - 1
  BY ToneBitsTyped
<1> DEFINE f == hz % Uint32
<1> HIDE DEF f
<1>2. f % Uint32 = f
  BY <1>1, BistAssumption DEF f
<1>3. QED BY <1>2 DEF ToneBits, f

\* In the range of the tones nothing wraps, and the tone generated is the
\* nearest.  A sample clock is at most 61.44 MHz, far below a fifth of 2^32.
LEMMA ToneBitsNearest ==
  ASSUME 5 * SampleClk <= Uint32, NEW hz \in 4..Uint32 - 1,
         64 * hz >= SampleClk, 64 * hz < 9 * SampleClk
  PROVE  LET off(k) == LET d == 32 * hz - (k + 1) * SampleClk IN IF d < 0 THEN -d ELSE d
         IN  \A k \in 0..3 : off(ToneBits(hz)) <= off(k)
<1> DEFINE n == (32 * hz + SampleClk \div 2) \div SampleClk
           S == SampleClk
<1>0. S \in Nat \ {0} /\ Uint32 \in Nat \ {0} /\ hz \in Nat
  BY BistAssumption
<1>1. n \in 1..4 /\ 2 * (32 * hz - n * S) <= S /\ 2 * (n * S - 32 * hz) <= S
  BY <1>0, Rounded
<1>2. ToneBits(hz) = n - 1
  <2>1. hz % Uint32 = hz
    BY <1>0
  <2>2. (hz * 32) % Uint32 = 32 * hz
    BY <1>0
  <2>3. PICK h \in Nat, e \in 0..1 : S \div 2 = h /\ S = 2 * h + e
    BY <1>0, DivFacts
  <2>4. (32 * hz + S \div 2) % Uint32 = 32 * hz + S \div 2
    BY <1>0, <2>3
  <2>5. (n - 1) % 4 = n - 1
    BY <1>1
  <2>6. ToneBits(hz) = (n - 1) % 4
    BY <2>1, <2>2, <2>4 DEF ToneBits
  <2>7. QED BY <2>5, <2>6
<1> DEFINE off(k) == LET d == 32 * hz - (k + 1) * S IN IF d < 0 THEN -d ELSE d
<1>3. ASSUME NEW k \in 0..3 PROVE off(n - 1) <= off(k)
  <2> HIDE DEF n
  <2>1. ((n - 1) + 1) * S = n * S
    BY <1>0, <1>1
  <2>2. 2 * off(n - 1) <= S
    BY <1>0, <1>1, <2>1
  <2>3. k = n - 1 \/ 2 * off(k) >= S
    <3>1. CASE n = 1
      BY <1>0, <1>1, <3>1
    <3>2. CASE n = 2
      BY <1>0, <1>1, <3>2
    <3>3. CASE n = 3
      BY <1>0, <1>1, <3>3
    <3>4. CASE n = 4
      BY <1>0, <1>1, <3>4
    <3>5. QED BY <1>1, <3>1, <3>2, <3>3, <3>4
  <2>4. off(k) \in Int /\ off(n - 1) \in Int
    BY <1>0, <1>1
  <2> HIDE DEF off
  <2>5. QED BY <1>0, <2>2, <2>3, <2>4
<1> HIDE DEF n
<1>4. QED BY <1>2, <1>3

\* The tone the driver notes is the one of the frequency it notes.
ToneNoted == bistCached.run = "tone" => bistCached.tone = ToneBits(toneHz)

\* A board of one channel never moves its transmitter.
LoopWired == wired.rx = wired.tx => txOn = wired.tx

BistInv ==
  BistTypeOK /\ DisableStopsBoth /\ BistCachedTrue /\ ToneNoted /\ LoopCrossed /\ LoopWired

\* Setup leaves the generators off and the cache true.
LEMMA BistInitial == BistInit => BistInv
<1> SUFFICES ASSUME BistInit PROVE BistInv
  OBVIOUS
<1>1. BistTypeOK
  <2>1. wired \in [rx : {1, 2}, tx : {1, 2}]
    BY BistAssumption DEF BistInit
  <2>2. 0 \in 0..Uint32 - 1
    BY BistAssumption
  <2>3. Off \in [run : {"off", "tone", "prbs"}, tone : 0..3]
    BY DEF Off
  <2>4. bistModes \in [{"tone", "prbs"} -> BOOLEAN]
    BY DEF BistInit
  <2>5. bistSaid \in [did : {"none", "tone", "prbs", "off", "loop"}, ok : BOOLEAN]
    BY DEF BistInit
  <2>6. wired \in Wirings /\ txOn \in {1, 2} /\ toneHz \in 0..Uint32 - 1
    BY <2>1, <2>2 DEF BistInit
  <2>7. QED BY <2>3, <2>4, <2>5, <2>6 DEF BistInit, BistTypeOK
<1>2. DisableStopsBoth /\ BistCachedTrue /\ ToneNoted /\ LoopCrossed /\ LoopWired
  BY DEF BistInit, DisableStopsBoth, BistCachedTrue, ToneNoted, LoopCrossed, LoopWired, Off
<1>3. QED BY <1>1, <1>2 DEF BistInv

\* The end of tone, PRBS and off: the register follows the note unless the
\* write failed, and a success of "off" leaves nothing running.
LEMMA ConfigureStep ==
  ASSUME BistInv, NEW new \in [run : {"off", "tone", "prbs"}, tone : 0..3],
         NEW did \in {"tone", "prbs", "off"}, NEW lost \in LostNow({"config"}),
         Configure(new, did, lost), did = "off" => new = Off,
         UNCHANGED <<wired, txOn, loopReg, loopMode>>,
         new.run = "tone" => new.tone = ToneBits(toneHz'),
         toneHz' \in 0..Uint32 - 1, bistModes' \in [{"tone", "prbs"} -> BOOLEAN]
  PROVE  BistInv'
<1> USE DEF BistInv
<1>1. lost \subseteq {"config"}
  BY DEF LostNow
<1>2. /\ bistReg' = IF "config" \in lost THEN bistReg ELSE new
      /\ bistCached' = new
      /\ bistSaid' = [did |-> did, ok |-> "config" \notin lost]
      /\ bistLost' = (bistLost \ {"config"}) \cup lost
  BY DEF Configure
<1>3. BistTypeOK'
  <2>1. bistReg' \in [run : {"off", "tone", "prbs"}, tone : 0..3]
    BY <1>2 DEF BistTypeOK
  <2>2. bistSaid' \in [did : {"none", "tone", "prbs", "off", "loop"}, ok : BOOLEAN]
    <3>1. ("config" \notin lost) \in BOOLEAN
      OBVIOUS
    <3>2. QED BY <1>2, <3>1
  <2>3. bistLost' \subseteq {"config", "observe", "cross"}
    BY <1>1, <1>2 DEF BistTypeOK
  <2>4. {bistReg', bistCached'} \subseteq [run : {"off", "tone", "prbs"}, tone : 0..3]
    BY <1>2, <2>1
  <2>5. wired' \in Wirings /\ txOn' \in {1, 2} /\ loopReg' \in BOOLEAN /\ loopMode' \in BOOLEAN
    BY DEF BistTypeOK
  <2>6. QED BY <2>2, <2>3, <2>4, <2>5 DEF BistTypeOK
<1>4. DisableStopsBoth'
  BY <1>2 DEF DisableStopsBoth, Off
<1>5. BistCachedTrue'
  BY <1>2 DEF BistCachedTrue
<1>6. ToneNoted'
  BY <1>2 DEF ToneNoted, ToneBits
<1>7. LoopCrossed' /\ LoopWired'
  BY <1>1, <1>2 DEF LoopCrossed, LoopWired
<1>8. QED BY <1>3, <1>4, <1>5, <1>6, <1>7

\* A loopback switches the transmitter that is wired to the other port, or back.
LEMMA LoopbackStep ==
  ASSUME BistInv, NEW on \in BOOLEAN, Loopback(on)
  PROVE  BistInv'
<1> USE DEF BistInv
<1>1. PICK lost \in LostNow({"cross", "observe"}) :
        /\ loopMode' = on
        /\ txOn' = IF "cross" \in lost THEN txOn ELSE Crossed(on)
        /\ loopReg' = IF "observe" \in lost THEN loopReg ELSE on
        /\ bistSaid' = [did |-> "loop", ok |-> "observe" \notin lost]
        /\ bistLost' = (bistLost \ {"cross", "observe"}) \cup lost
        /\ UNCHANGED <<wired, bistReg, bistCached, bistModes, toneHz>>
  BY DEF Loopback
<1>2. lost \subseteq {"cross", "observe"}
  BY DEF LostNow
<1>3. wired \in [rx : {1, 2}, tx : {1, 2}]
  BY BistAssumption DEF BistTypeOK
<1>4. BistTypeOK'
  <2>1. txOn' \in {1, 2}
    BY <1>1, <1>3 DEF BistTypeOK, Crossed
  <2>2. bistSaid' \in [did : {"none", "tone", "prbs", "off", "loop"}, ok : BOOLEAN]
    <3>1. ("observe" \notin lost) \in BOOLEAN
      OBVIOUS
    <3>2. QED BY <1>1, <3>1
  <2>3. bistLost' \subseteq {"config", "observe", "cross"}
    BY <1>1, <1>2 DEF BistTypeOK
  <2>4. loopReg' \in BOOLEAN /\ loopMode' \in BOOLEAN
    BY <1>1 DEF BistTypeOK
  <2>5. QED BY <1>1, <2>1, <2>2, <2>3, <2>4 DEF BistTypeOK
<1>5. DisableStopsBoth'
  BY <1>1 DEF DisableStopsBoth
<1>6. BistCachedTrue'
  BY <1>1, <1>2 DEF BistCachedTrue
<1>7. ToneNoted'
  BY <1>1 DEF ToneNoted, ToneBits
<1>8. LoopWired'
  BY <1>1 DEF LoopWired, Crossed
<1>9. LoopCrossed'
  <2> SUFFICES ASSUME bistLost' \cap {"cross", "observe"} = {}
               PROVE  txOn' = (IF loopReg' THEN wired.rx ELSE wired.tx)
    BY <1>1 DEF LoopCrossed
  <2>1. lost = {}
    BY <1>1, <1>2
  <2>2. txOn' = Crossed(on) /\ loopReg' = on
    BY <1>1, <2>1
  <2>3. QED BY <2>2 DEF Crossed, LoopWired
<1>10. QED BY <1>4, <1>5, <1>6, <1>7, <1>8, <1>9

\* A step keeps the invariant of the self-test.
LEMMA BistStep == BistInv /\ [BistNext]_bistVars => BistInv'
<1> SUFFICES ASSUME BistInv, [BistNext]_bistVars PROVE BistInv'
  OBVIOUS
<1>1. CASE UNCHANGED bistVars
  BY <1>1 DEF bistVars, BistInv, BistTypeOK, DisableStopsBoth, BistCachedTrue, ToneNoted, ToneBits,
              LoopCrossed, LoopWired
<1>2. CASE Tone
  <2>1. PICK hz \in Tones, lost \in LostNow({"config"}) :
          /\ Configure([run |-> "tone", tone |-> ToneBits(hz)], "tone", lost)
          /\ bistModes' = [bistModes EXCEPT !["tone"] = TRUE] /\ toneHz' = hz % Uint32
          /\ UNCHANGED <<wired, txOn, loopReg, loopMode>>
    BY <1>2 DEF Tone
  <2>2. hz \in Nat
    BY BistAssumption
  <2>3. ToneBits(hz) \in 0..3 /\ toneHz' \in 0..Uint32 - 1 /\ ToneBits(hz) = ToneBits(toneHz')
    BY <2>1, <2>2, ToneBitsTyped, ToneBitsCut
  <2>4. bistModes' \in [{"tone", "prbs"} -> BOOLEAN]
    BY <2>1 DEF BistInv, BistTypeOK
  <2>5. QED BY <2>1, <2>3, <2>4, ConfigureStep
<1>3. CASE Prbs \/ Disable
  <2>1. PICK lost \in LostNow({"config"}), on \in BOOLEAN :
          /\ \/ Configure([run |-> "prbs", tone |-> 0], "prbs", lost)
             \/ Configure(Off, "off", lost)
          /\ bistModes' = [bistModes EXCEPT !["prbs"] = on]
          /\ UNCHANGED <<wired, txOn, toneHz, loopReg, loopMode>>
    BY <1>3 DEF Prbs, Disable
  <2>2. bistModes' \in [{"tone", "prbs"} -> BOOLEAN] /\ toneHz' \in 0..Uint32 - 1
    BY <2>1 DEF BistInv, BistTypeOK
  <2>3. CASE Configure([run |-> "prbs", tone |-> 0], "prbs", lost)
    BY <2>1, <2>2, <2>3, ConfigureStep
  <2>4. CASE Configure(Off, "off", lost)
    <3>1. Off \in [run : {"off", "tone", "prbs"}, tone : 0..3] /\ Off.run # "tone"
      BY DEF Off
    <3>2. QED BY <2>1, <2>2, <2>4, <3>1, ConfigureStep
  <2>5. QED BY <2>1, <2>3, <2>4
<1>4. CASE \E on \in BOOLEAN : Loopback(on)
  BY <1>4, LoopbackStep
<1>5. QED BY <1>1, <1>2, <1>3, <1>4 DEF BistNext

\* Whatever transfers fail: "off" stops whichever generator runs, the driver's
\* note is the register unless its write failed, the tone is the nearest one
\* and the transmitter the loop's (ad9361.c ad9361_bist_tone(),
\* ad9361_int_loopback_fix_ch_cross()).
THEOREM SelfTestInForce ==
  ASSUME 5 * SampleClk <= Uint32
  PROVE  BistSpec => []BistInForce
<1>1. BistInv => BistInForce
  <2> SUFFICES ASSUME BistInv PROVE BistInForce
    OBVIOUS
  <2>1. ToneNearest
    <3> SUFFICES ASSUME bistCached.run = "tone", toneHz >= 4,
                        64 * toneHz >= SampleClk, 64 * toneHz < 9 * SampleClk
                 PROVE  LET off(k) == LET d == 32 * toneHz - (k + 1) * SampleClk
                                      IN  IF d < 0 THEN -d ELSE d
                        IN  \A k \in 0..3 : off(bistCached.tone) <= off(k)
      BY DEF ToneNearest
    <3>1. toneHz \in 4..Uint32 - 1 /\ bistCached.tone = ToneBits(toneHz)
      BY BistAssumption DEF BistInv, BistTypeOK, ToneNoted
    <3>2. QED BY <3>1, ToneBitsNearest
  <2>2. QED BY <2>1 DEF BistInv, BistInForce
<1>2. QED BY BistInitial, BistStep, <1>1, PTL DEF BistSpec


-----------------------------------------------------------------------------
(* The gain tables: a table is chosen with the LO's frequency, and each    *)
(* receiver's index is looked up again in the one chosen.  The loops are   *)
(* the first of several entries, which exists by Least.                    *)

\* The tables there are, and the entries of one.
TableNums == DOMAIN GainTables
Entries(t) == DOMAIN GainTables[t].gains

\* What the tables are: long enough for every index, in order.
LEMMA TableFacts ==
  ASSUME NEW t \in TableNums
  PROVE  /\ GainTables[t].gains \in Seq(Int)
         /\ Len(GainTables[t].gains) \in 1..TableSize
         /\ Entries(t) = 1..Len(GainTables[t].gains)
         /\ \A i \in Entries(t) : GainTables[t].gains[i] \in Int
         /\ \A i, j \in Entries(t) : i <= j => GainTables[t].gains[i] <= GainTables[t].gains[j]
<1> DEFINE Table == [split : BOOLEAN, start : Nat, end : Nat, gains : Seq(Int)]
<1>1. GainTables[t] \in Table
  <2>1. GainTables \in Seq(Table)
    BY GainAssumption
  <2> HIDE DEF Table
  <2> QED BY <2>1 DEF TableNums
<1>2. GainTables[t].gains \in Seq(Int)
  BY <1>1
<1>3. Len(GainTables[t].gains) \in 1..TableSize /\ Ascending(GainTables[t].gains)
  BY GainAssumption DEF TableNums
<1> QED BY <1>2, <1>3 DEF Entries, Ascending

\* There is a first table.
LEMMA TableNumFacts == 1 \in TableNums /\ TableNums \subseteq Nat \ {0}
  BY GainAssumption DEF TableNums

\* The table of a frequency is one there is.
LEMMA TableOfFacts == ASSUME NEW f PROVE TableOf(f) \in TableNums
<1> DEFINE s == {t \in DOMAIN GainTables : /\ GainTables[t].split = splitGt
                                           /\ GainTables[t].start < f /\ f <= GainTables[t].end}
<1>1. s \subseteq TableNums /\ s \in SUBSET Nat
  BY TableNumFacts DEF TableNums
<1>2. TableOf(f) = IF s = {} THEN 1 ELSE CHOOSE t \in s : \A u \in s : t <= u
  BY DEF TableOf
<1> HIDE DEF s
<1>3. CASE s = {}
  BY <1>2, <1>3, TableNumFacts
<1>4. CASE s # {}
  <2>1. \E t \in s : \A u \in s : t <= u
    BY <1>1, <1>4, Least
  <2> QED BY <1>1, <1>2, <1>4, <2>1
<1> QED BY <1>3, <1>4

\* find_table_index() finds an entry of the table, and none is nearer; where it finds
\* none every entry is too low.
LEMMA FoundFacts ==
  ASSUME NEW t \in TableNums, NEW db \in Int
  PROVE  /\ \A i \in Found(t, db) : i \in Entries(t) /\ Nearest(t, i, db)
         /\ Found(t, db) = {} => \A i \in Entries(t) : GainTables[t].gains[i] < db
<1> DEFINE g == GainTables[t].gains
           s == {i \in DOMAIN g : g[i] >= db}
           k == CHOOSE n \in s : \A j \in s : n <= j
           b == IF k > 1 THEN k - 1 ELSE k
           n == IF Abs(g[b] - db) < Abs(g[k] - db) THEN b ELSE k
<1>1. Found(t, db) = IF s = {} THEN {} ELSE {n}
  BY DEF Found
<1>2. PICK len \in Nat : Entries(t) = 1..len /\ DOMAIN g = 1..len
  BY TableFacts DEF Entries
<1>3. /\ \A i \in 1..len : g[i] \in Int
      /\ \A i, j \in 1..len : i <= j => g[i] <= g[j]
  BY <1>2, TableFacts
<1> HIDE DEF g
<1>4. \A i \in 1..len : i \in s <=> g[i] >= db
  BY <1>2
<1>5. s \in SUBSET Nat /\ s \subseteq 1..len
  BY <1>2
<1> HIDE DEF s
<1>6. CASE s = {}
  <2>1. \A i \in 1..len : g[i] < db
    BY <1>3, <1>4, <1>6
  <2> QED BY <1>1, <1>2, <1>6, <2>1 DEF g
<1>7. CASE s # {}
  <2>1. \E m \in s : \A j \in s : m <= j
    BY <1>5, <1>7, Least
  <2>2. k \in s /\ \A j \in s : k <= j
    BY <2>1
  <2> HIDE DEF k
  <2>3. k \in 1..len /\ g[k] >= db /\ g[k] \in Int
    BY <1>3, <1>4, <1>5, <2>2
  <2>4. b \in 1..len /\ g[b] \in Int /\ (b = k \/ b = k - 1) /\ (b = k => k = 1)
    BY <1>3, <2>3
  <2> HIDE DEF b
  <2>5. n \in 1..len
    BY <2>3, <2>4
  <2>6. ASSUME NEW j \in 1..len
        PROVE  Abs(g[n] - db) <= Abs(g[j] - db)
    <3>1. PICK x : x = g[j]
      OBVIOUS
    <3>2. PICK y : y = g[k]
      OBVIOUS
    <3>3. PICK z : z = g[b]
      OBVIOUS
    <3>4. x \in Int /\ y \in Int /\ z \in Int /\ y >= db
      BY <1>3, <2>3, <2>4, <3>1, <3>2, <3>3
    <3>5. g[n] = IF Abs(z - db) < Abs(y - db) THEN z ELSE y
      BY <3>2, <3>3
    <3>6. CASE j >= k
      <4>1. x >= y
        BY <1>3, <2>3, <3>1, <3>2, <3>6
      <4> QED BY <3>1, <3>4, <3>5, <4>1 DEF Abs
    <3>7. CASE j < k
      <4>1. j \notin s
        BY <1>5, <2>2, <3>7
      <4>2. x < db
        BY <1>4, <3>1, <3>4, <4>1
      <4>3. b = k - 1
        BY <2>3, <2>4, <3>7
      <4>4. x <= z
        BY <1>3, <2>3, <2>4, <3>1, <3>3, <3>7, <4>3
      <4>5. z < db
        <5>1. b \notin s
          BY <1>5, <2>2, <2>3, <4>3
        <5> QED BY <1>4, <2>4, <3>3, <3>4, <5>1
      <4> QED BY <3>1, <3>4, <3>5, <4>2, <4>4, <4>5 DEF Abs
    <3> QED BY <2>3, <3>6, <3>7
  <2> HIDE DEF n
  <2>7. Nearest(t, n, db)
    BY <1>2, <2>6 DEF Nearest, g
  <2> QED BY <1>1, <1>2, <1>7, <2>5, <2>7
<1> QED BY <1>6, <1>7

-----------------------------------------------------------------------------
\* A step that changes the table keeps each receiver's gain, as nearly as the table can.
GainsKept ==
  table # NoTable => \A r \in Rx : table' # table => Nearest(table', index'[r], GainRead(r))

\* A gain asked for is the nearest of the table, and the index one of its entries.
GainInv == GainTypeOK /\ AgcInv /\ IndexInTable /\ GainAsAsked

\* Before the first tuning there is no table, and index 1 is in any.
LEMMA GainInitial == GainInit /\ AgcInit => GainInv
<1> SUFFICES ASSUME GainInit, AgcInit PROVE GainInv
  OBVIOUS
<1>1. TableSize \in Nat /\ TableSize >= 1
  <2>1. Len(GainTables[1].gains) \in 1..TableSize
    BY TableNumFacts, TableFacts
  <2> QED BY <2>1, GainAssumption
<1>2. GainTypeOK
  BY <1>1 DEF GainInit, GainTypeOK, Unset
<1>3. IndexInTable /\ GainAsAsked
  BY DEF GainInit, IndexInTable, GainAsAsked, Unset
<1> QED BY <1>2, <1>3, AgcInitial DEF GainInv

\* What the index of a receiver becomes when the table does.
LEMMA KeptFacts ==
  ASSUME GainInv, NEW t \in TableNums, NEW r \in Rx
  PROVE  LET i == Kept(t, WithinTable(t, index[r]), r)
         IN  /\ i \in Entries(t)
             /\ table # NoTable => Nearest(t, i, GainRead(r))
<1> DEFINE n == WithinTable(t, index[r])
           u == IF table = NoTable THEN t ELSE table
           db == GainTables[u].gains[n]
           last == Len(GainTables[t].gains)
<1>1. /\ index[r] \in 1..TableSize /\ TableSize \in Int
      /\ table \in {NoTable} \cup TableNums /\ (table # NoTable => index[r] \in Entries(table))
  BY GainAssumption DEF GainInv, GainTypeOK, IndexInTable, TableNums, Entries
<1>2. last \in Nat /\ last >= 1 /\ Entries(t) = 1..last /\ last \in Entries(t)
  <2>1. last \in Nat /\ last \in 1..TableSize /\ Entries(t) = 1..last
    BY TableFacts
  <2> QED BY <2>1
<1>3. u \in TableNums /\ n \in Entries(u)
  BY <1>1, <1>2 DEF WithinTable
<1>4. db \in Int
  BY <1>3, TableFacts
<1>5. table # NoTable => db = GainRead(r)
  BY <1>1 DEF GainRead, CurrentTable, WithinTable
<1>6. Kept(t, n, r) = IF Found(t, db) = {} THEN last ELSE CHOOSE i \in Found(t, db) : TRUE
  BY Zenon DEF Kept, u, db, last
<1> HIDE DEF n, u, db
<1>7. CASE Found(t, db) = {}
  <2>1. \A i \in Entries(t) : GainTables[t].gains[i] < db
    BY <1>4, <1>7, FoundFacts
  <2>2. ASSUME NEW j \in Entries(t)
        PROVE  Abs(GainTables[t].gains[last] - db) <= Abs(GainTables[t].gains[j] - db)
    <3>1. PICK x : x = GainTables[t].gains[j]
      OBVIOUS
    <3>2. PICK y : y = GainTables[t].gains[last]
      OBVIOUS
    <3>3. j <= last /\ last \in Entries(t)
      BY <1>2
    <3>4. x \in Int /\ y \in Int /\ x <= y
      BY <3>1, <3>2, <3>3, TableFacts
    <3>5. y < db
      BY <2>1, <3>2, <3>3
    <3> QED BY <1>4, <3>1, <3>2, <3>4, <3>5 DEF Abs
  <2>3. Nearest(t, last, db)
    BY <2>2 DEF Nearest, Entries
  <2> QED BY <1>2, <1>5, <1>6, <1>7, <2>3 DEF n
<1>8. CASE Found(t, db) # {}
  <2>1. Kept(t, n, r) \in Found(t, db)
    BY <1>6, <1>8
  <2>2. Kept(t, n, r) \in Entries(t) /\ Nearest(t, Kept(t, n, r), db)
    BY <1>4, <2>1, FoundFacts
  <2> QED BY <1>5, <2>2 DEF n
<1> QED BY <1>7, <1>8

\* Another frequency: the table is replaced and each receiver's gain looked up in it.
LEMMA TuneStep == ASSUME GainInv, TuneRx PROVE GainInv' /\ GainsKept
<1>1. PICK f \in RxFreqs :
        /\ tuned' = f
        /\ IF TableOf(f) = table THEN UNCHANGED <<table, loaded, index, chosen>>
           ELSE /\ table' = TableOf(f) /\ loaded' = TableOf(f) /\ chosen' = Unset
                /\ index' = [r \in Rx |-> Kept(TableOf(f), WithinTable(TableOf(f), index[r]), r)]
        /\ UNCHANGED <<splitGt, lpf, agcVars>>
  BY DEF TuneRx
<1>2. PICK t \in TableNums : t = TableOf(f)
  BY TableOfFacts
<1>3. AgcInv'
  BY <1>1, AgcStep DEF GainInv
<1>4. CASE t = table
  <2>1. UNCHANGED <<table, loaded, index, chosen>>
    BY <1>1, <1>2, <1>4
  <2>2. GainTypeOK'
    BY <1>1, <2>1 DEF GainInv, GainTypeOK
  <2>3. IndexInTable' /\ GainAsAsked'
    BY <2>1 DEF GainInv, IndexInTable, GainAsAsked, CurrentTable, Nearest
  <2> QED BY <1>3, <2>1, <2>2, <2>3 DEF GainInv, GainsKept
<1>5. CASE t # table
  <2>1. /\ table' = t /\ loaded' = t /\ chosen' = Unset
        /\ index' = [r \in Rx |-> Kept(t, WithinTable(t, index[r]), r)]
    BY <1>1, <1>2, <1>5
  <2>2. \A r \in Rx : index'[r] \in Entries(t) /\ (table # NoTable => Nearest(t, index'[r], GainRead(r)))
    BY <2>1, KeptFacts
  <2>3. Entries(t) \subseteq 1..TableSize
    <3>1. Len(GainTables[t].gains) \in 1..TableSize /\ Entries(t) = 1..Len(GainTables[t].gains)
      BY TableFacts
    <3>2. PICK len \in Nat : len = Len(GainTables[t].gains)
      BY TableFacts
    <3> QED BY <3>1, <3>2, GainAssumption
  <2>4. index' \in [Rx -> 1..TableSize]
    BY <2>1, <2>2, <2>3
  <2>5. GainTypeOK'
    BY <1>1, <2>1, <2>4 DEF GainInv, GainTypeOK, Unset, TableNums
  <2>6. IndexInTable' /\ GainAsAsked'
    BY <2>1, <2>2 DEF IndexInTable, GainAsAsked, Unset, Entries
  <2>7. GainsKept
    BY <2>1, <2>2 DEF GainsKept
  <2> QED BY <1>3, <2>5, <2>6, <2>7 DEF GainInv
<1> QED BY <1>4, <1>5

\* A gain set is the nearest of the table.
LEMMA SetGainStep == ASSUME GainInv, SetGain PROVE GainInv' /\ GainsKept
<1>1. PICK ch \in Rx, db \in Gains :
        /\ Receiver(ch) \in Rx
        /\ \E i \in Found(CurrentTable, db) : SetIndex(Receiver(ch), i)
        /\ chosen' = [chosen EXCEPT ![Receiver(ch)] = {db}]
        /\ UNCHANGED <<splitGt, table, loaded, tuned, agcVars>>
  BY DEF SetGain
<1>2. PICK r \in Rx : r = Receiver(ch)
  BY <1>1
<1>3. PICK i \in Found(CurrentTable, db) : SetIndex(r, i)
  BY <1>1, <1>2
<1>4. db \in Int /\ CurrentTable \in TableNums
  BY GainAssumption, TableNumFacts DEF GainInv, GainTypeOK, CurrentTable, TableNums
<1>5. i \in Entries(CurrentTable) /\ Nearest(CurrentTable, i, db)
  BY <1>3, <1>4, FoundFacts
<1>6. index' = [index EXCEPT ![r] = i] /\ chosen' = [chosen EXCEPT ![r] = {db}]
  BY <1>1, <1>2, <1>3 DEF SetIndex
<1>7. CurrentTable' = CurrentTable
  BY <1>1 DEF CurrentTable
<1>8. AgcInv'
  BY <1>1, AgcStep DEF GainInv
<1>9. i \in 1..TableSize
  <2>1. Len(GainTables[CurrentTable].gains) \in 1..TableSize
        /\ Entries(CurrentTable) = 1..Len(GainTables[CurrentTable].gains)
    BY <1>4, TableFacts
  <2>2. PICK len \in Nat : len = Len(GainTables[CurrentTable].gains)
    BY <1>4, TableFacts
  <2> QED BY <1>5, <2>1, <2>2, GainAssumption
<1>10. GainTypeOK'
  <2>1. lpf' \in [Rx -> {0, 1}]
    BY <1>3 DEF SetIndex, GainInv, GainTypeOK
  <2>2. index' \in [Rx -> 1..TableSize]
    BY <1>6, <1>9 DEF GainInv, GainTypeOK
  <2>3. chosen' \in [Rx -> SUBSET Gains]
    BY <1>6 DEF GainInv, GainTypeOK
  <2> QED BY <1>1, <2>1, <2>2, <2>3 DEF GainInv, GainTypeOK
<1>11. IndexInTable'
  BY <1>1, <1>5, <1>6 DEF GainInv, GainTypeOK, IndexInTable, Entries, CurrentTable
<1>12. GainAsAsked'
  <2> SUFFICES ASSUME NEW q \in Rx, NEW x \in chosen'[q]
               PROVE  Nearest(CurrentTable, index'[q], x)
    BY <1>7 DEF GainAsAsked, Nearest
  <2>1. CASE q = r
    BY <1>5, <1>6, <2>1 DEF GainInv, GainTypeOK
  <2>2. CASE q # r
    BY <1>6, <2>2 DEF GainInv, GainTypeOK, GainAsAsked
  <2> QED BY <2>1, <2>2
<1>13. GainsKept
  BY <1>1 DEF GainsKept
<1> QED BY <1>8, <1>10, <1>11, <1>12, <1>13 DEF GainInv

\* A gain control mode leaves the indices.
LEMMA ModeStep == ASSUME GainInv, Mode PROVE GainInv' /\ GainsKept
<1>1. PICK mode \in AgcModes :
        Becomes(Moded(Moded(Chip, 1, mode, {}), 2, mode, {})) /\ UNCHANGED <<usedRx, gainVars>>
  BY DEF Mode
<1>2. {} \in AgcSlips
  BY DEF AgcSlips
<1>3. SetMode
  BY <1>1, <1>2 DEF SetMode
<1>4. AgcInv'
  BY <1>3, AgcStep DEF GainInv
<1> QED BY <1>1, <1>4 DEF GainInv, GainTypeOK, IndexInTable, GainAsAsked, CurrentTable, Nearest, GainsKept, gainVars

\* A step keeps the invariant, and each gain across a change of the table.
LEMMA GainStep == GainInv /\ GainNext => GainInv' /\ GainsKept
  BY TuneStep, SetGainStep, ModeStep DEF GainNext

\* Over any sequence of mode, LO and gain changes: the index is in the table it is
\* read with, no gain of the table is nearer to the one asked for, and a change of the
\* table keeps each receiver's gain as nearly as the new table can
\* (ad9361.c ad9361_load_gt(), find_table_index(), ad9361_set_rx_gain()).
THEOREM GainIsInForce == GainSpec => GainInForce
<1>1. GainInv /\ [GainNext]_<<gainVars, agcVars>> => GainInv'
  <2>1. GainInv /\ UNCHANGED <<gainVars, agcVars>> => GainInv'
    <3> SUFFICES ASSUME GainInv, UNCHANGED <<gainVars, agcVars>> PROVE GainInv'
      OBVIOUS
    <3>1. AgcInv'
      BY AgcStep DEF GainInv
    <3> QED BY <3>1 DEF GainInv, GainTypeOK, IndexInTable, GainAsAsked, CurrentTable, Nearest, gainVars
  <2> QED BY <2>1, GainStep
<1>2. GainInv => AgcInForce /\ IndexInTable /\ GainAsAsked
  BY DEF GainInv, AgcInv
<1>3. GainInv /\ [GainNext]_<<gainVars, agcVars>> => [GainsKept]_gainVars
  BY GainStep DEF gainVars
<1>4. GainKeptAcross <=> [][GainsKept]_gainVars
  BY DEF GainKeptAcross, GainsKept
<1>5. QED
  BY GainInitial, <1>1, <1>2, <1>3, <1>4, PTL DEF GainSpec, GainInForce

-----------------------------------------------------------------------------
(* The calibrations.  First their arithmetic: the words, the dividers and  *)
(* the capacitors computed from a bandwidth and a clock.                   *)

\* A bandwidth clamped is within its limits.
LEMMA ClampedFacts ==
  ASSUME NEW n \in Int, NEW lo \in Nat, NEW hi \in Nat, lo <= hi
  PROVE  Clamped(n, lo, hi) \in Nat /\ lo <= Clamped(n, lo, hi) /\ Clamped(n, lo, hi) <= hi
BY DEF Clamped

\* The words of the NCOs, where the clocks' ratio is one of the two handled.
LEMMA NcoFacts ==
  ASSUME NEW rf \in Nat \ {0}, NEW tf \in Nat \ {0}, NEW b \in Nat
  PROVE  LET w == NcoWords(rf, tf, b)
         IN  /\ w.tx \in 0..3
             /\ rf = tf => w.rx = w.tx
             /\ rf = 2 * tf => w.tx + 1 = 2 * (w.rx + 1) /\ w.rx \in Nat
<1> DEFINE w == Clamped(Closest(b * 8, tf) - 1, 0, 3)
<1>1. w \in 0..3
  <2>1. (b * 8 + tf \div 2) \div tf \in Int
    BY DivFacts
  <2>2. PICK n \in Int : n = Closest(b * 8, tf)
    BY <2>1 DEF Closest
  <2> QED BY <2>2 DEF Clamped
<1>2. NcoWords(rf, tf, b) =
        CASE rf = 2 * tf ->
               [tx |-> <<1, 1, 1, 3>>[w + 1], rx |-> <<0, 0, 0, 1>>[w + 1], phase |-> <<14, 14, 14, 8>>[w + 1]]
          [] rf = tf -> [tx |-> w, rx |-> w, phase |-> <<21, 26, 31, 21>>[w + 1]]
          [] OTHER -> [tx |-> w, rx |-> w, phase |-> 0]
  BY DEF NcoWords
<1> HIDE DEF w
<1>3. rf = 2 * tf => rf # tf
  OBVIOUS
<1>4. CASE rf = 2 * tf
  BY <1>1, <1>2, <1>3, <1>4
<1>5. CASE rf = tf
  BY <1>1, <1>2, <1>3, <1>5
<1>6. CASE rf # tf /\ rf # 2 * tf
  BY <1>1, <1>2, <1>6
<1> QED BY <1>4, <1>5, <1>6

\* A division rounded up is enough.
LEMMA CeilFacts ==
  ASSUME NEW a \in Nat \ {0}, NEW b \in Nat \ {0}
  PROVE  CeilDiv(a, b) \in Nat \ {0} /\ CeilDiv(a, b) * b >= a
<1>1. PICK q \in Int, r \in 0..b - 1 : q = (a + b - 1) \div b /\ a + b - 1 = q * b + r
  BY DivFacts
<1> QED BY <1>1 DEF CeilDiv

-----------------------------------------------------------------------------
(* The analog filters, as they are tuned for a bandwidth. *)

RxMade(hz, b) ==
  [bw |-> hz, bbpll |-> b, div |-> RxTuneDivider(hz \div 2, b), words |-> RxBandwidthWords(hz \div 2)]
TxMade(hz, b) ==
  [bw |-> hz, div |-> TxTuneDivider(hz \div 2, b), second |-> SecondFilter(hz \div 2)]

RxFilters == {RxMade(hz, b) : hz \in Nat, b \in Nat \ {0}}
TxFilters == {TxMade(hz, b) : hz \in Nat, b \in Nat \ {0}}
FilterState == [rx : RxFilters, tx : TxFilters]

\* The bandwidth of a filter that is tuned, or of one of the two.
LEMMA FiltersFacts ==
  ASSUME clk.bbpll \in Nat \ {0}, NEW f \in FilterState, NEW rx \in Nat, NEW tx \in Nat,
         NEW all \in BOOLEAN, NEW g \in Filters(f, rx, tx, all)
  PROVE  g \in FilterState /\ (all => g.rx.bw = rx /\ g.tx.bw = tx)
<1> DEFINE made == [rx |-> RxMade(rx, clk.bbpll), tx |-> TxMade(tx, clk.bbpll)]
<1>1. RxFilter(rx) = RxMade(rx, clk.bbpll) /\ TxFilter(tx) = TxMade(tx, clk.bbpll)
  BY DEF RxFilter, TxFilter, RxMade, TxMade
<1>2. RxMade(rx, clk.bbpll) \in RxFilters /\ TxMade(tx, clk.bbpll) \in TxFilters
  BY DEF RxFilters, TxFilters
<1>3. RxMade(rx, clk.bbpll).bw = rx /\ TxMade(tx, clk.bbpll).bw = tx
  BY DEF RxMade, TxMade
<1>4. g = made \/ (~all /\ g = [f EXCEPT !.rx = RxMade(rx, clk.bbpll)])
  BY <1>1 DEF Filters
<1> QED BY <1>2, <1>3, <1>4 DEF FilterState

\* The receiver's tuning clock and bandwidth words.
LEMMA RxMadeFits ==
  ASSUME NEW f \in RxFilters
  PROVE  LET hz == Clamped(f.bw \div 2, 200000, 28000000)
         IN  SlowEnough(f, hz) /\ WordsFit(f.words, hz)
<1>1. PICK n \in Nat, b \in Nat \ {0} : f = RxMade(n, b)
  BY DEF RxFilters
<1>2. f.bw = n /\ f.bbpll = b /\ f.div = RxTuneDivider(n \div 2, b) /\ f.words = RxBandwidthWords(n \div 2)
  BY <1>1, SMT DEF RxMade
<1>3. PICK hz \in Nat : hz = Clamped(n \div 2, 200000, 28000000) /\ hz >= 200000
  BY SMT DEF Clamped
<1>4. f.div * (126906 * (hz \div 10000)) >= b \/ f.div = 511
  <2>1. PICK t \in Nat \ {0} : t = 126906 * (hz \div 10000)
    BY <1>3, SMT
  <2>2. RxTuneDivider(n \div 2, b) = UpTo(511, CeilDiv(b, t))
    BY <1>3, <2>1, SMT DEF RxTuneDivider
  <2>3. PICK q \in Nat : q = CeilDiv(b, t) /\ q * t >= b
    BY CeilFacts
  <2>4. f.div = 511 \/ f.div = q
    BY <1>2, <2>2, <2>3 DEF UpTo
  <2> QED BY <2>1, <2>3, <2>4, SMT
<1>5. PICK mhz \in Nat, r \in Nat : mhz = hz \div 1000000 /\ r = hz % 1000000 /\ r <= 999999
  BY SMT
<1>6. f.words = [mhz |-> mhz, frac |-> UpTo(127, (r * 128 + 500000) \div 1000000)]
  BY <1>2, <1>3, <1>5, SMT DEF RxBandwidthWords, Closest
<1>7. PICK w \in Nat : w = UpTo(127, (r * 128 + 500000) \div 1000000)
  BY SMT DEF UpTo
<1>8. PICK v \in Nat : v = (w * 1000000) \div 128 /\ 128 * v <= w * 1000000 /\ w * 1000000 < 128 * v + 128
  BY SMT
<1>9. w <= 127 /\ v - r <= 7813 /\ r - v <= 7813
  <2>1. PICK q \in Nat : /\ q = (r * 128 + 500000) \div 1000000
                         /\ 1000000 * q <= r * 128 + 500000 /\ r * 128 + 500000 < 1000000 * q + 1000000
    BY SMT
  <2>2. w = UpTo(127, q)
    BY <1>7, <2>1
  <2>3. CASE q <= 127
    <3>1. w = q
      BY <2>2, <2>3, SMT DEF UpTo
    <3> QED BY <1>8, <2>1, <2>3, <3>1, SMT
  <2>4. CASE q > 127
    <3>1. w = 127
      BY <2>2, <2>4, SMT DEF UpTo
    <3> QED BY <1>5, <1>8, <2>1, <2>4, <3>1, SMT
  <2> QED BY <2>3, <2>4
<1>10. f.words.mhz = mhz /\ f.words.frac = w
  BY <1>6, <1>7, SMT
<1>11. OffBy(f.words, hz) = v - r
  BY <1>5, <1>8, <1>10, SMT DEF OffBy
<1>12. SlowEnough(f, hz)
  BY <1>2, <1>4, SMT DEF SlowEnough
<1>13. WordsFit(f.words, hz)
  <2>1. PICK fw : fw = f.words
    OBVIOUS
  <2>2. fw.frac = w /\ w \in 0..127
    BY <1>9, <1>10, <2>1, SMT
  <2>3. OffBy(fw, hz) = v - r
    BY <1>11, <2>1
  <2>4. PICK o \in Int : o = v - r /\ -7813 <= o /\ o <= 7813
    BY <1>9, SMT
  <2>5. OffBy(fw, hz) = o
    BY <2>3, <2>4
  <2>6. WordsFit(fw, hz)
    BY <2>2, <2>4, <2>5, SMT DEF WordsFit
  <2> QED BY <2>1, <2>6
<1> QED BY <1>2, <1>3, <1>12, <1>13

\* The capacitor for a corner frequency and a resistor.
LEMMA RoundedFacts ==
  ASSUME NEW a \in Nat, NEW c \in Nat \ {0}
  PROVE  \E q \in Nat : Closest(a, c) = q /\ q * c <= a + c \div 2 /\ a + c \div 2 < q * c + c
<1>1. PICK q \in Nat, r \in 0..c - 1 : q = (a + c \div 2) \div c /\ a + c \div 2 = c * q + r
  BY DivFacts
<1> QED BY <1>1 DEF Closest

\* The resistor is the first whose capacitor fits, where one does.
LEMMA SecondIs ==
  ASSUME NEW corner \in Nat, NEW i \in 1..4, Cap(corner, i) < 64
  PROVE  \E k \in 1..4 : /\ Cap(corner, k) < 64 /\ \A j \in 1..4 : Cap(corner, j) < 64 => k <= j
                         /\ SecondFor(corner) = [res |-> Resistors[k], cap |-> UpTo(63, Cap(corner, UpTo(4, k)))]
<1> DEFINE fit == {k \in 1..4 : Cap(corner, k) < 64}
           k == IF fit = {} THEN 5 ELSE CHOOSE n \in fit : \A j \in fit : n <= j
<1>1. fit # {} /\ fit \subseteq Nat
  OBVIOUS
<1>2. PICK m \in fit : \A j \in fit : m <= j
  BY <1>1, Least
<1>3. k \in fit /\ \A j \in fit : k <= j
  BY <1>1, <1>2
<1>4. SecondFor(corner) = [res |-> Resistors[k], cap |-> UpTo(63, Cap(corner, UpTo(4, k)))]
  BY Zenon DEF SecondFor, fit, k
<1> HIDE DEF k
<1> QED BY <1>3, <1>4

\* The second filter's resistor and capacitor, for every corner the code asks for.
LEMMA SecondFacts ==
  ASSUME NEW corner \in Nat, 830000 <= corner, corner <= 31500000
  PROVE  SecondFor(corner).res \in {1, 2, 4, 8} /\ SecondFor(corner).cap \in 0..63
<1>1. /\ Cap(corner, 1) = Closest(500000000, corner) - 12
      /\ Cap(corner, 2) = Closest(500000000, 2 * corner) - 12
      /\ Cap(corner, 3) = Closest(500000000, 4 * corner) - 12
      /\ Cap(corner, 4) = Closest(500000000, 8 * corner) - 12
  BY SMT DEF Resistors, Cap
<1>2. PICK N \in Nat : N = 500000000
  BY SMT
<1>3. PICK q1 \in Nat : /\ Closest(N, corner) = q1 /\ q1 * corner <= N + corner \div 2
                        /\ N + corner \div 2 < q1 * corner + corner
  BY RoundedFacts, SMT
<1>4. PICK q2 \in Nat : /\ Closest(N, 2 * corner) = q2 /\ q2 * (2 * corner) <= N + corner
                        /\ N + corner < q2 * (2 * corner) + 2 * corner
  <2>1. PICK c \in Nat \ {0} : c = 2 * corner
    BY SMT
  <2>2. c \div 2 = corner
    BY <2>1, SMT
  <2> QED BY <2>1, <2>2, RoundedFacts, SMT
<1>5. PICK q3 \in Nat : /\ Closest(N, 4 * corner) = q3 /\ q3 * (4 * corner) <= N + 2 * corner
                        /\ N + 2 * corner < q3 * (4 * corner) + 4 * corner
  <2>1. PICK c \in Nat \ {0} : c = 4 * corner
    BY SMT
  <2>2. c \div 2 = 2 * corner
    BY <2>1, SMT
  <2> QED BY <2>1, <2>2, RoundedFacts, SMT
<1>6. PICK q4 \in Nat : /\ Closest(N, 8 * corner) = q4 /\ q4 * (8 * corner) <= N + 4 * corner
                        /\ N + 4 * corner < q4 * (8 * corner) + 8 * corner
  <2>1. PICK c \in Nat \ {0} : c = 8 * corner
    BY SMT
  <2>2. c \div 2 = 4 * corner
    BY <2>1, SMT
  <2> QED BY <2>1, <2>2, RoundedFacts, SMT
<1>7. Cap(corner, 1) = q1 - 12 /\ Cap(corner, 2) = q2 - 12 /\ Cap(corner, 3) = q3 - 12 /\ Cap(corner, 4) = q4 - 12
  BY <1>1, <1>2, <1>3, <1>4, <1>5, <1>6
<1>8. q1 >= 12 /\ q4 < 76
  <2>1. PICK m \in Nat : m = q1 * corner /\ (q1 <= 11 => m <= 11 * corner)
    BY SMT
  <2>2. q1 >= 12
    BY <1>2, <1>3, <2>1, SMT
  <2>3. PICK x \in Nat : x = q4 * (8 * corner) /\ (q4 >= 76 => 76 * (8 * corner) <= x)
    BY SMT
  <2> QED BY <1>2, <1>6, <2>2, <2>3, SMT
<1>9. q1 >= 76 => q2 >= 12
  <2>1. PICK x \in Nat : x = q1 * corner /\ (q1 >= 76 => 76 * corner <= x)
    BY SMT
  <2>2. PICK y \in Nat : y = q2 * (2 * corner) /\ (q2 <= 11 => y <= 11 * (2 * corner))
    BY SMT
  <2> QED BY <1>2, <1>3, <1>4, <2>1, <2>2, SMT
<1>10. q2 >= 76 => q3 >= 12
  <2>1. PICK x \in Nat : x = q2 * (2 * corner) /\ (q2 >= 76 => 76 * (2 * corner) <= x)
    BY SMT
  <2>2. PICK y \in Nat : y = q3 * (4 * corner) /\ (q3 <= 11 => y <= 11 * (4 * corner))
    BY SMT
  <2> QED BY <1>2, <1>4, <1>5, <2>1, <2>2, SMT
<1>11. q3 >= 76 => q4 >= 12
  <2>1. PICK x \in Nat : x = q3 * (4 * corner) /\ (q3 >= 76 => 76 * (4 * corner) <= x)
    BY SMT
  <2>2. PICK y \in Nat : y = q4 * (8 * corner) /\ (q4 <= 11 => y <= 11 * (8 * corner))
    BY SMT
  <2> QED BY <1>2, <1>5, <1>6, <2>1, <2>2, SMT
<1>12. Cap(corner, 4) < 64
  BY <1>7, <1>8
<1>13. PICK k \in 1..4 :
         /\ Cap(corner, k) < 64 /\ \A j \in 1..4 : Cap(corner, j) < 64 => k <= j
         /\ SecondFor(corner) = [res |-> Resistors[k], cap |-> UpTo(63, Cap(corner, UpTo(4, k)))]
  BY <1>12, SecondIs
<1>14. Cap(corner, k) \in 0..63
  <2>1. k = 1 \/ k = 2 \/ k = 3 \/ k = 4
    BY <1>13
  <2> QED BY <1>7, <1>8, <1>9, <1>10, <1>11, <1>13, <2>1
<1>15. UpTo(4, k) = k /\ UpTo(63, Cap(corner, k)) = Cap(corner, k)
  BY <1>13, <1>14 DEF UpTo
<1>16. Resistors[k] \in {1, 2, 4, 8}
  BY <1>13 DEF Resistors
<1> QED BY <1>13, <1>14, <1>15, <1>16

\* The same, for a filter tuned to a bandwidth.
LEMMA TxMadeFits ==
  ASSUME NEW f \in TxFilters
  PROVE  f.second.res \in {1, 2, 4, 8} /\ f.second.cap \in 0..63
<1>1. PICK n \in Nat, b \in Nat \ {0} : f = TxMade(n, b)
  BY DEF TxFilters
<1>2. f.second = SecondFilter(n \div 2)
  BY <1>1, SMT DEF TxMade
<1>3. PICK c \in Nat : /\ c = 15708 * (Clamped(n \div 2, 530000, 20000000) \div 10000)
                       /\ 830000 <= c /\ c <= 31500000
  BY SMT DEF Clamped
<1>4. f.second = SecondFor(c)
  BY <1>2, <1>3, SMT DEF SecondFilter
<1> QED BY <1>3, <1>4, SecondFacts

-----------------------------------------------------------------------------
(* One calibration. *)

\* The state between calls.
CalibTyped ==
  /\ clk \in [bbpll : Nat \ {0}, rf : Nat \ {0}, tf : Nat \ {0}]
  /\ bw \in [rx : Nat, tx : Nat]
  /\ filter \in FilterState

Inverted(i) ==
  /\ i \in [on : BOOLEAN, rx2 : BOOLEAN, bits : SUBSET {"rx1", "rx2"}]
  /\ i.rx2 = i.on /\ i.bits = IF i.on THEN {"rx1"} ELSE {"rx1", "rx2"}

CalibInv == CalibTyped /\ Inverted(invert)

At(f, b) == f.rx.bw = b.rx /\ f.tx.bw = b.tx
NcoOf(tf, word) == (tf * (word + 1)) \div 32
Wide(f, nco) == nco <= f.rx.bw \div 8 /\ nco <= f.tx.bw \div 8

\* The NCO's frequency is a number, and a filter of eight times it is wide enough.
LEMMA NcoIsWide ==
  ASSUME NEW tf \in Nat, NEW word \in 0..3
  PROVE  NcoOf(tf, word) \in Nat /\ (8 * NcoOf(tf, word)) \div 8 = NcoOf(tf, word)
<1>1. PICK m \in Nat : m = tf * (word + 1)
  OBVIOUS
<1>2. PICK n \in Nat : n = m \div 32
  BY <1>1
<1>3. (8 * n) \div 8 = n
  OBVIOUS
<1> QED BY <1>1, <1>2, <1>3 DEF NcoOf

\* The inversion is put back.
LEMMA ReinvertedFacts ==
  ASSUME CalibInv
  PROVE  Inverted(Reinverted(invert))
<1>1. CASE ~invert.on
  BY <1>1 DEF Reinverted, CalibInv
<1>2. CASE invert.on
  <2>1. PICK saved : saved = invert.bits
    OBVIOUS
  <2>2. invert \in [on : BOOLEAN, rx2 : BOOLEAN, bits : SUBSET {"rx1", "rx2"}] /\ saved = {"rx1"}
    BY <1>2, <2>1 DEF CalibInv, Inverted
  <2> DEFINE during == [invert EXCEPT !.rx2 = FALSE, !.bits = {"rx1", "rx2"}]
             after == [during EXCEPT !.rx2 = TRUE, !.bits = saved]
  <2>3. during \in [on : BOOLEAN, rx2 : BOOLEAN, bits : SUBSET {"rx1", "rx2"}] /\ during.on
    BY <1>2, <2>2
  <2>4. Reinverted(invert) = after
    BY <1>2, <2>1, Zenon DEF Reinverted
  <2> HIDE DEF during
  <2>5. after \in [on : BOOLEAN, rx2 : BOOLEAN, bits : SUBSET {"rx1", "rx2"}] /\ after.on /\ after.rx2 /\ after.bits = saved
    BY <2>2, <2>3
  <2> HIDE DEF after
  <2> QED BY <2>2, <2>4, <2>5 DEF Inverted
<1> QED BY <1>1, <1>2

\* What a calibration does with the bandwidths b, from the filters f.
CalibratedFor(b, f, kind) ==
  /\ filter' \in FilterState /\ Inverted(invert') /\ quad'.kind = kind
  /\ quad'.ran =>
       /\ clk.rf \in {clk.tf, 2 * clk.tf} => clk.rf * (phase'.rx + 1) = clk.tf * (phase'.tx + 1)
       /\ At(f, b) => Wide(quad'.used, NcoOf(clk.tf, phase'.tx))
       /\ quad'.restored /\ At(f, b) => At(filter', b)

\* A calibration does so, whatever its runs return and whichever tuning fails.
LEMMA QuadCalibFacts ==
  ASSUME CalibInv, NEW kind, NEW arg, NEW b \in [rx : Nat, tx : Nat], NEW f \in FilterState,
         QuadCalib(kind, arg, b, f)
  PROVE  CalibratedFor(b, f, kind)
<1> DEFINE words == NcoWords(clk.rf, clk.tf, b.tx \div 2)
           nco == (clk.tf * (words.tx + 1)) \div 32
           wide == TooNarrow(b, nco)
<1>1. clk.bbpll \in Nat \ {0} /\ clk.rf \in Nat \ {0} /\ clk.tf \in Nat \ {0}
  BY DEF CalibInv, CalibTyped
<1>2. b.tx \div 2 \in Nat
  OBVIOUS
<1>3. /\ words.tx \in 0..3
      /\ clk.rf = clk.tf => words.rx = words.tx
      /\ clk.rf = 2 * clk.tf => words.tx + 1 = 2 * (words.rx + 1) /\ words.rx \in Nat
  BY <1>1, <1>2, NcoFacts
<1> HIDE DEF words
<1>4. nco = NcoOf(clk.tf, words.tx)
  BY DEF NcoOf
<1>5. nco \in Nat /\ (8 * nco) \div 8 = nco
  BY <1>1, <1>3, <1>4, NcoIsWide
<1> HIDE DEF nco
<1>6. clk.rf \in {clk.tf, 2 * clk.tf} => clk.rf * (words.rx + 1) = clk.tf * (words.tx + 1)
  <2>1. CASE clk.rf = clk.tf
    BY <1>3, <2>1
  <2>2. CASE clk.rf = 2 * clk.tf
    <3>1. PICK t \in Nat, w \in Nat : t = clk.tf /\ w = words.rx
      BY <1>1, <1>3, <2>2
    <3>2. 2 * t * (w + 1) = t * (2 * (w + 1))
      OBVIOUS
    <3> QED BY <1>3, <2>2, <3>1, <3>2
  <2> QED BY <2>1, <2>2
<1>7. CASE /\ CalFails /\ wide
           /\ filter' \in Filters(f, 8 * nco, 8 * nco, FALSE)
           /\ quad' = Noted(kind, arg, "timeout")
           /\ UNCHANGED <<phase, lastPhase, invert>>
  <2>1. filter' \in FilterState
    <3>1. PICK x \in Nat : x = 8 * nco
      BY <1>5
    <3>2. PICK no \in BOOLEAN : no = FALSE
      BY Zenon
    <3>3. filter' \in Filters(f, x, x, no)
      BY <1>7, <3>1, <3>2
    <3> QED BY <1>1, <3>3, FiltersFacts
  <2>2. quad'.ran = FALSE /\ quad'.kind = kind /\ Inverted(invert')
    BY <1>7 DEF Noted, CalibInv
  <2> QED BY <2>1, <2>2 DEF CalibratedFor
<1>8. ASSUME NEW conv \in Converging, NEW late \in 0..4, NEW garbage \in BOOLEAN, NEW back \in BOOLEAN,
             ~back => wide,
             NEW used \in IF wide THEN Filters(f, 8 * nco, 8 * nco, TRUE) ELSE {f},
             NEW at, NEW last, NEW ret,
             phase' = [at |-> at, tx |-> words.tx, rx |-> words.rx],
             invert' = Reinverted(invert),
             filter' \in IF wide THEN Filters(used, b.rx, b.tx, back) ELSE {used},
             quad' = [Noted(kind, arg, ret) EXCEPT !.ran = TRUE, !.conv = conv, !.used = used, !.restored = back]
      PROVE  CalibratedFor(b, f, kind)
  <2>1. quad'.kind = kind /\ quad'.used = used /\ quad'.restored = back
    BY <1>8 DEF Noted
  <2>2. phase'.tx = words.tx /\ phase'.rx = words.rx /\ Inverted(invert')
    BY <1>8, ReinvertedFacts
  <2>3. 8 * nco \in Nat /\ b.rx \in Nat /\ b.tx \in Nat
    BY <1>5
  <2>4. CASE wide
    <3>1. used \in FilterState /\ used.rx.bw = 8 * nco /\ used.tx.bw = 8 * nco
      <4>1. PICK x \in Nat : x = 8 * nco
        BY <2>3
      <4>2. PICK yes \in BOOLEAN : yes = TRUE
        BY Zenon
      <4>3. used \in Filters(f, x, x, yes)
        BY <1>8, <2>4, <4>1, <4>2
      <4>4. used \in FilterState /\ (yes => used.rx.bw = x /\ used.tx.bw = x)
        BY <1>1, <4>3, FiltersFacts
      <4> QED BY <4>1, <4>2, <4>4
    <3>2. filter' \in FilterState /\ (back => At(filter', b))
      BY <1>1, <1>8, <2>3, <2>4, <3>1, FiltersFacts DEF At
    <3>3. Wide(used, nco)
      BY <1>5, <3>1 DEF Wide
    <3> QED BY <1>4, <1>6, <2>1, <2>2, <3>2, <3>3 DEF CalibratedFor
  <2>5. CASE ~wide
    <3>1. used = f /\ filter' = f
      BY <1>8, <2>5
    <3>2. At(f, b) => Wide(f, nco)
      BY <1>5, <2>3, <2>5 DEF At, Wide, TooNarrow
    <3>3. filter' \in FilterState
      BY <3>1
    <3>4. At(f, b) => Wide(quad'.used, NcoOf(clk.tf, phase'.tx)) /\ At(filter', b)
      BY <1>4, <2>1, <2>2, <3>1, <3>2
    <3>5. clk.rf \in {clk.tf, 2 * clk.tf} => clk.rf * (phase'.rx + 1) = clk.tf * (phase'.tx + 1)
      BY <1>6, <2>2
    <3> QED BY <2>1, <2>2, <3>3, <3>4, <3>5, Zenon DEF CalibratedFor
  <2> QED BY <2>4, <2>5
<1> DEFINE Used == IF wide THEN Filters(f, 8 * nco, 8 * nco, TRUE) ELSE {f}
           Ran(conv, late, garbage, back, used, r) ==
             /\ phase' = [at |-> r.at, tx |-> words.tx, rx |-> words.rx]
             /\ lastPhase' = r.last
             /\ invert' = Reinverted(invert)
             /\ filter' \in IF wide /\ PutBack(r.ret) THEN Filters(used, b.rx, b.tx, back) ELSE {used}
             /\ quad' = [Noted(kind, arg, r.ret) EXCEPT
                           !.ran = TRUE, !.conv = conv, !.used = used, !.restored = back]
<1>9. CASE \E conv \in Converging, late \in 0..4, garbage, back \in BOOLEAN :
             /\ late # 0 \/ ~back => CalFails
             /\ garbage => late = 1
             /\ ~back => wide
             /\ \E used \in Used : Ran(conv, late, garbage, back, used, Attempts(arg, words, conv, late, garbage))
  <2> HIDE DEF wide, Used, Ran
  <2>1. PICK conv \in Converging, late \in 0..4, garbage \in BOOLEAN, back \in BOOLEAN :
             /\ ~back => wide
             /\ \E used \in Used : Ran(conv, late, garbage, back, used, Attempts(arg, words, conv, late, garbage))
    BY <1>9, Zenon
  <2>2. PICK r : r = Attempts(arg, words, conv, late, garbage)
    OBVIOUS
  <2>3. PICK used \in Used : Ran(conv, late, garbage, back, used, r)
    BY <2>1, <2>2
  <2>4. filter' \in IF wide THEN Filters(used, b.rx, b.tx, back) ELSE {used}
    BY <2>3, Zenon DEF PutBack, Ran
  <2>5. used \in IF wide THEN Filters(f, 8 * nco, 8 * nco, TRUE) ELSE {f}
    BY <2>3, Zenon DEF Used
  <2> QED BY <1>8, <2>1, <2>3, <2>4, <2>5, Zenon DEF Ran
<1>10. QED
  BY <1>7, <1>9, Zenon DEF QuadCalib, nco, words

-----------------------------------------------------------------------------
(* The search over all phases: the scan for the longest run of zeros, the *)
(* field it scans, twice around the circle, and the middle it takes.       *)

\* The scan of ad9361_find_opt() after some places.
ScanState == [cnt : Nat, start : Int, max : Nat, at : Int]

\* m zeros after place a.
Zeros(tried, a, m) == \A k \in 1..m : tried[a + k] = 0

\* What the scan knows after i places: the longest run that has ended, the one that has not.
Knows(tried, i, s) ==
  /\ s.cnt <= i /\ s.at \in Nat /\ s.at + s.max <= i /\ Zeros(tried, s.at, s.max)
  /\ s.cnt > 0 => s.start = i - s.cnt /\ Zeros(tried, i - s.cnt, s.cnt)
  /\ \A a \in Nat, m \in Nat : a + m <= i /\ Zeros(tried, a, m) =>
       /\ m <= s.max \/ m <= s.cnt
       /\ a + m = i => m <= s.cnt

\* One place of the scan, field by field.
LEMMA ScannedTyped ==
  ASSUME NEW s \in ScanState, NEW i \in Nat, NEW value
  PROVE  \E t \in ScanState :
           /\ Scanned(s, i, value) = t
           /\ value = 0 => /\ t.cnt = s.cnt + 1 /\ t.max = s.max /\ t.at = s.at
                          /\ t.start = IF s.cnt = 0 THEN i - 1 ELSE s.start
           /\ value # 0 => /\ t.cnt = 0
                          /\ IF s.cnt > s.max THEN t.max = s.cnt /\ t.at = s.start
                             ELSE t.max = s.max /\ t.at = s.at
<1>1. PICK c \in Nat, b \in Int, m \in Nat, a \in Int : s = [cnt |-> c, start |-> b, max |-> m, at |-> a]
  BY DEF ScanState
<1>2. CASE value = 0
  <2>1. PICK d \in Int : d = IF c = 0 THEN i - 1 ELSE b
    OBVIOUS
  <2>2. Scanned(s, i, value) = [cnt |-> c + 1, start |-> d, max |-> m, at |-> a]
    BY <1>1, <1>2, <2>1 DEF Scanned
  <2> QED BY <1>1, <1>2, <2>1, <2>2 DEF ScanState
<1>3. CASE value # 0
  <2>1. CASE c > m
    <3>1. Longer(s) = [cnt |-> c, start |-> b, max |-> c, at |-> b]
      BY <1>1, <2>1 DEF Longer
    <3>2. Scanned(s, i, value) = [cnt |-> 0, start |-> -1, max |-> c, at |-> b]
      <4>1. Scanned(s, i, value) = [[cnt |-> c, start |-> b, max |-> c, at |-> b] EXCEPT !.start = -1, !.cnt = 0]
        BY <1>3, <3>1, Zenon DEF Scanned
      <4> QED BY <4>1
    <3> QED BY <1>1, <1>3, <2>1, <3>2 DEF ScanState
  <2>2. CASE ~(c > m)
    <3>1. Longer(s) = [cnt |-> c, start |-> b, max |-> m, at |-> a]
      BY <1>1, <2>2 DEF Longer
    <3>2. Scanned(s, i, value) = [cnt |-> 0, start |-> -1, max |-> m, at |-> a]
      <4>1. Scanned(s, i, value) = [[cnt |-> c, start |-> b, max |-> m, at |-> a] EXCEPT !.start = -1, !.cnt = 0]
        BY <1>3, <3>1, Zenon DEF Scanned
      <4> QED BY <4>1
    <3> QED BY <1>1, <1>3, <2>2, <3>2 DEF ScanState
  <2> QED BY <2>1, <2>2
<1> QED BY <1>2, <1>3

\* One place further, and what the scan knows holds again.
LEMMA ScannedFacts ==
  ASSUME NEW n \in Nat, NEW tried \in [1..n -> {0, 1}], NEW i \in 1..n, NEW s \in ScanState,
         Knows(tried, i - 1, s)
  PROVE  Scanned(s, i, tried[i]) \in ScanState /\ Knows(tried, i, Scanned(s, i, tried[i]))
<1>1. PICK t \in ScanState :
        /\ Scanned(s, i, tried[i]) = t
        /\ tried[i] = 0 => /\ t.cnt = s.cnt + 1 /\ t.max = s.max /\ t.at = s.at
                          /\ t.start = IF s.cnt = 0 THEN i - 1 ELSE s.start
        /\ tried[i] # 0 => /\ t.cnt = 0
                          /\ IF s.cnt > s.max THEN t.max = s.cnt /\ t.at = s.start
                             ELSE t.max = s.max /\ t.at = s.at
  BY ScannedTyped
<1>2. CASE tried[i] = 0
  <2>1. /\ t \in ScanState /\ t.cnt = s.cnt + 1 /\ t.max = s.max /\ t.at = s.at
        /\ t.start = IF s.cnt = 0 THEN i - 1 ELSE s.start
    BY <1>1, <1>2
  <2>2. /\ s.cnt \in Nat /\ s.max \in Nat /\ s.at \in Nat /\ s.start \in Int
    BY DEF ScanState, Knows
  <2>3. t.start = i - t.cnt
    BY <2>1, <2>2 DEF Knows
  <2>4. Zeros(tried, i - t.cnt, t.cnt)
    <3> SUFFICES ASSUME NEW k \in 1..t.cnt PROVE tried[i - t.cnt + k] = 0
      BY DEF Zeros
    <3>1. CASE k = t.cnt
      <4>1. i - t.cnt + k = i
        BY <2>1, <2>2, <3>1
      <4> QED BY <1>2, <4>1
    <3>2. CASE k # t.cnt
      <4>1. k \in 1..s.cnt /\ i - t.cnt + k = (i - 1) - s.cnt + k /\ s.cnt > 0
        <5>1. PICK c \in Nat : c = s.cnt /\ t.cnt = c + 1
          BY <2>1, <2>2
        <5> QED BY <3>2, <5>1
      <4>2. tried[(i - 1) - s.cnt + k] = 0
        BY <4>1 DEF Knows, Zeros
      <4> QED BY <4>1, <4>2
    <3> QED BY <3>1, <3>2
  <2>5. ASSUME NEW a \in Nat, NEW m \in Nat, a + m <= i, Zeros(tried, a, m)
        PROVE  (m <= t.max \/ m <= t.cnt) /\ (a + m = i => m <= t.cnt)
    <3>1. CASE a + m <= i - 1
      <4>1. m <= s.max \/ m <= s.cnt
        BY <2>5, <3>1 DEF Knows
      <4> QED BY <2>1, <2>2, <3>1, <4>1
    <3>2. CASE a + m = i /\ m > 0
      <4>1. m - 1 \in Nat /\ a + (m - 1) = i - 1 /\ a + (m - 1) <= i - 1
        BY <3>2
      <4>2. Zeros(tried, a, m - 1)
        BY <2>5, <3>2 DEF Zeros
      <4>3. m - 1 <= s.cnt
        BY <4>1, <4>2 DEF Knows
      <4> QED BY <2>1, <2>2, <4>3
    <3>3. CASE m = 0
      BY <2>1, <2>2, <3>3
    <3> QED BY <2>5, <3>1, <3>2, <3>3
  <2>6. t.cnt <= i /\ t.at \in Nat /\ t.at + t.max <= i /\ Zeros(tried, t.at, t.max)
    BY <2>1, <2>2 DEF Knows
  <2> HIDE DEF Zeros
  <2>7. Knows(tried, i, t)
    BY <2>3, <2>4, <2>5, <2>6 DEF Knows
  <2> QED BY <1>1, <2>1, <2>7
<1>3. CASE tried[i] # 0
  <2>1. /\ t \in ScanState /\ t.cnt = 0
        /\ IF s.cnt > s.max THEN t.max = s.cnt /\ t.at = s.start ELSE t.max = s.max /\ t.at = s.at
    BY <1>1, <1>3
  <2>2. /\ s.cnt \in Nat /\ s.max \in Nat /\ s.at \in Nat /\ s.start \in Int
    BY DEF ScanState, Knows
  <2>3. t.at \in Nat /\ t.at + t.max <= i /\ Zeros(tried, t.at, t.max)
    BY <2>1, <2>2 DEF Knows
  <2>4. ASSUME NEW a \in Nat, NEW m \in Nat, a + m <= i, Zeros(tried, a, m)
        PROVE  m <= t.max /\ (a + m = i => m = 0)
    <3>1. CASE a + m = i /\ m > 0
      <4>1. tried[a + m] = 0
        BY <2>4, <3>1 DEF Zeros
      <4> QED BY <1>3, <3>1, <4>1
    <3>2. CASE a + m <= i - 1
      <4>1. m <= s.max \/ m <= s.cnt
        BY <2>4, <3>2 DEF Knows
      <4> QED BY <2>1, <2>2, <3>2, <4>1
    <3>3. CASE m = 0
      BY <2>1, <3>3 DEF ScanState
    <3> QED BY <2>4, <3>1, <3>2, <3>3
  <2>5. Knows(tried, i, t)
    BY <2>1, <2>3, <2>4 DEF Knows
  <2> QED BY <1>1, <2>1, <2>5
<1> QED BY <1>2, <1>3

\* The run found is one of zeros, and none is longer.
Longest(tried, n, at, len) ==
  /\ at + len <= n /\ Zeros(tried, at, len)
  /\ \A a \in Nat, m \in Nat : a + m <= n /\ Zeros(tried, a, m) => m <= len

\* ad9361_find_opt() finds a longest run of zeros, whatever it is given.
LEMMA FindOptFacts ==
  ASSUME NEW n \in Nat, NEW tried \in [1..n -> {0, 1}], Len(tried) = n
  PROVE  \E at \in Nat, len \in Nat : FindOpt(tried) = [start |-> at, len |-> len] /\ Longest(tried, n, at, len)
<1> DEFINE F == [i \in 1..n |-> [s \in ScanState |-> Scanned(s, i, tried[i])]]
           zero == [cnt |-> 0, start |-> -1, max |-> 0, at |-> 0]
           Values(f) == [i \in 0..n |-> IF i = 0 THEN zero ELSE Scanned(f[i - 1], i, tried[i])]
           after == CHOOSE f : f = Values(f)
<1>1. ASSUME NEW s \in ScanState, NEW i \in 1..n
      PROVE  Scanned(s, i, tried[i]) \in ScanState
  BY ScannedTyped
<1>2. F \in [1..n -> [ScanState -> ScanState]] /\ zero \in ScanState
  BY <1>1 DEF ScanState
<1>3. PICK f \in [0..n -> ScanState] : f[0] = zero /\ \A k \in 1..n : f[k] = F[k][f[k - 1]]
  <2>1. PICK X, x0, H : X = ScanState /\ x0 = zero /\ H = F
    OBVIOUS
  <2> HIDE DEF F, Values, after, zero
  <2>2. x0 \in X /\ H \in [1..n -> [X -> X]]
    BY <1>2, <2>1
  <2>3. \E f \in [0..n -> X] : Iterates(f, H, x0, n)
    BY <2>2, Iteration
  <2> QED BY <2>1, <2>3 DEF Iterates
<1>4. f = Values(f)
  <2>1. ASSUME NEW g \in 0..n, g # 0
        PROVE  f[g] = Scanned(f[g - 1], g, tried[g])
    <3>1. g \in 1..n /\ g - 1 \in 0..n
      BY <2>1
    <3>2. f[g - 1] \in ScanState
      BY <1>3, <3>1
    <3>3. F[g][f[g - 1]] = Scanned(f[g - 1], g, tried[g])
      BY <3>1, <3>2
    <3> QED BY <1>3, <3>1, <3>3
  <2> QED BY <1>3, <2>1
<1>5. after = Values(after)
  <2> HIDE DEF Values
  <2> QED BY <1>4
<1> HIDE DEF after
<1>6. after[0] = zero /\ \A g \in 1..n : after[g] = Scanned(after[g - 1], g, tried[g])
  BY <1>5
<1> DEFINE G == {k \in 0..n : after[k] \in ScanState /\ Knows(tried, k, after[k])}
<1>7. 0 \in G
  <2>1. Knows(tried, 0, zero)
    BY DEF Knows, Zeros
  <2> QED BY <1>2, <1>6, <2>1
<1>8. ASSUME NEW k \in 1..n, k - 1 \in G
      PROVE  k \in G
  <2>1. PICK s \in ScanState : s = after[k - 1] /\ Knows(tried, k - 1, s)
    BY <1>8
  <2>2. Scanned(s, k, tried[k]) \in ScanState /\ Knows(tried, k, Scanned(s, k, tried[k]))
    BY <2>1, ScannedFacts
  <2> QED BY <1>6, <2>1, <2>2
<1> HIDE DEF G
<1>9. \A k \in 0..n : k \in G
  BY <1>7, <1>8, Induction
<1>10. PICK s \in ScanState : s = after[n] /\ Knows(tried, n, s)
  BY <1>9 DEF G
<1>11. PICK t : t = Longer(s)
  OBVIOUS
<1>12. t.at \in Nat /\ t.max \in Nat /\ Longest(tried, n, t.at, t.max)
  <2>1. s.cnt \in Nat /\ s.max \in Nat /\ s.at \in Nat /\ s.start \in Int
    BY <1>10 DEF ScanState, Knows
  <2>2. IF s.cnt > s.max THEN t.max = s.cnt /\ t.at = s.start ELSE t.max = s.max /\ t.at = s.at
    BY <1>10, <1>11 DEF Longer, ScanState
  <2>3. t.at \in Nat /\ t.max \in Nat /\ t.at + t.max <= n /\ Zeros(tried, t.at, t.max)
    BY <1>10, <2>1, <2>2 DEF Knows
  <2>4. ASSUME NEW a \in Nat, NEW m \in Nat, a + m <= n, Zeros(tried, a, m)
        PROVE  m <= t.max
    BY <1>10, <2>1, <2>2, <2>4 DEF Knows
  <2> QED BY <2>3, <2>4 DEF Longest
<1>13. FindOpt(tried) = [start |-> t.at, len |-> t.max]
  BY <1>10, <1>11 DEF FindOpt, after, Values
<1> QED BY <1>12, <1>13

\* The phases twice around the circle, 0 where one converges.
TwiceAround(conv) == [i \in 1..(2 * Phases) |-> IF (i - 1) % Phases \in conv THEN 0 ELSE 1]

\* A zero of the field is a phase that converges.
LEMMA ZeroIsPhase ==
  ASSUME NEW conv \in SUBSET (0..(Phases - 1)), NEW j \in 0..(2 * Phases - 1)
  PROVE  TwiceAround(conv)[j + 1] = 0 <=> j % Phases \in conv
<1>1. Phases \in Nat \ {0}
  BY CalibAssumption
<1>2. j + 1 \in 1..(2 * Phases) /\ (j + 1) - 1 = j
  BY <1>1
<1>3. TwiceAround(conv)[j + 1] = IF j % Phases \in conv THEN 0 ELSE 1
  BY <1>2 DEF TwiceAround
<1> QED BY <1>3

\* Once around is back.
LEMMA Around ==
  ASSUME NEW P \in Nat \ {0}, NEW x \in Nat
  PROVE  (x + P) % P = x % P
<1>1. PICK q \in Nat, r \in 0..(P - 1) : x % P = r /\ x = P * q + r
  BY DivFacts
<1>2. PICK k \in Nat, t \in 0..(P - 1) : (x + P) % P = t /\ x + P = P * k + t
  BY DivFacts
<1>3. P * (q + 1) < P * k + P /\ P * k < P * (q + 1) + P /\ P * (q + 1) = P * q + P
  BY <1>1, <1>2
<1>4. q + 1 <= k /\ k <= q + 1
  BY <1>3, CancelFactor
<1> QED BY <1>1, <1>2, <1>3, <1>4

\* A phase is its own remainder.
LEMMA WithinCircle ==
  ASSUME NEW P \in Nat \ {0}, NEW x \in 0..(P - 1)
  PROVE  x % P = x
BY DivOf, DivFacts

\* The phase found is the middle of a run of phases that converge, and none is longer.
Middle(conv, at, len) ==
  /\ Searched(conv) = (at + len \div 2) % Phases
  /\ Longest(TwiceAround(conv), 2 * Phases, at, len)

\* ad9361_tx_quad_phase_search() takes such a middle.
LEMMA SearchedFacts ==
  ASSUME NEW conv \in SUBSET (0..(Phases - 1))
  PROVE  \E at \in Nat, len \in Nat : Middle(conv, at, len)
<1>1. Phases \in Nat \ {0}
  BY CalibAssumption
<1>2. PICK n \in Nat : n = 2 * Phases
  BY <1>1
<1>3. PICK tried \in [1..n -> {0, 1}] : tried = TwiceAround(conv)
  BY <1>1, <1>2 DEF TwiceAround
<1>4. Len(tried) = n
  OBVIOUS
<1>5. PICK at \in Nat, len \in Nat : FindOpt(tried) = [start |-> at, len |-> len] /\ Longest(tried, n, at, len)
  BY <1>4, FindOptFacts
<1>6. Searched(conv) = (at + len \div 2) % Phases
  <2>1. PICK run : run = FindOpt(TwiceAround(conv)) /\ run.start = at /\ run.len = len
    BY <1>3, <1>5
  <2>2. Searched(conv) = (run.start + run.len \div 2) % Phases
    BY <2>1 DEF Searched, TwiceAround
  <2> QED BY <2>1, <2>2
<1> QED BY <1>2, <1>3, <1>5, <1>6 DEF Middle

\* It is a phase that converges, if any does.
LEMMA SearchedConverges ==
  ASSUME NEW conv \in SUBSET (0..(Phases - 1)), conv # {}
  PROVE  Searched(conv) \in conv
<1>1. PICK P \in Nat \ {0} : P = Phases
  BY CalibAssumption
<1>2. PICK at \in Nat, len \in Nat : Middle(conv, at, len)
  BY SearchedFacts
<1>3. len >= 1
  <2>1. PICK x \in 0..(P - 1) : x \in conv
    BY <1>1
  <2>2. x % P = x /\ x \in 0..(2 * P - 1)
    BY WithinCircle
  <2>3. TwiceAround(conv)[x + 1] = 0
    BY <1>1, <2>1, <2>2, ZeroIsPhase
  <2>4. Zeros(TwiceAround(conv), x, 1)
    BY <2>3 DEF Zeros
  <2>5. x + 1 <= 2 * P
    OBVIOUS
  <2> QED BY <1>1, <1>2, <2>4, <2>5 DEF Middle, Longest
<1>4. PICK h \in Nat : h = len \div 2 /\ h + 1 \in 1..len
  BY <1>3
<1>5. at + h \in 0..(2 * P - 1)
  BY <1>1, <1>2, <1>4 DEF Middle, Longest
<1>6. TwiceAround(conv)[at + h + 1] = 0
  <2>1. TwiceAround(conv)[at + (h + 1)] = 0
    BY <1>2, <1>4 DEF Middle, Longest, Zeros
  <2>2. at + (h + 1) = at + h + 1
    OBVIOUS
  <2> QED BY <2>1, <2>2
<1>7. (at + h) % P \in conv
  BY <1>1, <1>5, <1>6, ZeroIsPhase
<1> QED BY <1>1, <1>2, <1>4, <1>7 DEF Middle

\* How far a phase is from the nearest that does not converge.
Deep(p, conv) == {m \in 0..(Phases \div 2 - 1) : \A i \in (-m)..m : (p + i + Phases) % Phases \in conv}

\* No phase lies deeper.
LEMMA SearchedIsDeep ==
  ASSUME NEW conv \in SUBSET (0..(Phases - 1)), NEW p \in 0..(Phases - 1)
  PROVE  Deep(p, conv) \subseteq Deep(Searched(conv), conv)
<1>1. PICK P \in Nat \ {0} : P = Phases
  BY CalibAssumption
<1>2. PICK at \in Nat, len \in Nat : Middle(conv, at, len)
  BY SearchedFacts
<1>3. PICK g \in Nat : g = P \div 2 /\ 2 * g <= P
  OBVIOUS
<1> SUFFICES ASSUME NEW m \in Deep(p, conv)
             PROVE  m \in Deep(Searched(conv), conv)
  OBVIOUS
<1>4. m \in Nat /\ m <= g - 1 /\ \A i \in (-m)..m : (p + i + P) % P \in conv
  BY <1>1, <1>3 DEF Deep
<1>5. 2 * m + 1 <= len
  <2>0. p \in Nat /\ m < P
    BY <1>1, <1>3, <1>4
  <2>1. PICK a \in Nat : a = IF p >= m THEN p - m ELSE p - m + P
    BY <1>4, <2>0
  <2>2. a + (2 * m + 1) <= 2 * P
    BY <1>1, <1>3, <1>4, <2>1
  <2>3. ASSUME NEW k \in 1..(2 * m + 1)
        PROVE  TwiceAround(conv)[a + k] = 0
    <3>1. PICK j \in Nat : j = a + k - 1 /\ j + 1 = a + k /\ j \in 0..(2 * P - 1)
      BY <1>4, <2>2
    <3>2. PICK i \in (-m)..m : i = k - 1 - m
      BY <1>4
    <3>3. (p + i + P) % P \in conv
      BY <1>4
    <3>4. j % P = (p + i + P) % P
      <4>1. CASE p >= m
        <5>1. j = p + i
          BY <1>1, <1>4, <2>1, <3>1, <3>2, <4>1
        <5> QED BY <3>1, <5>1, Around
      <4>2. CASE ~(p >= m)
        <5>1. j = p + i + P
          BY <1>1, <1>4, <2>1, <3>1, <3>2, <4>2
        <5> QED BY <5>1
      <4> QED BY <4>1, <4>2
    <3> QED BY <1>1, <3>1, <3>3, <3>4, ZeroIsPhase
  <2>4. Zeros(TwiceAround(conv), a, 2 * m + 1) /\ 2 * m + 1 \in Nat
    BY <1>4, <2>3 DEF Zeros
  <2> QED BY <1>1, <1>2, <2>2, <2>4 DEF Middle, Longest
<1>6. PICK h \in Nat : h = len \div 2 /\ m <= h /\ h + m + 1 <= len
  BY <1>4, <1>5
<1>7. PICK c \in Nat : c = at + h /\ c \in 0..(2 * P - 1) /\ c % P = Searched(conv)
  BY <1>1, <1>2, <1>4, <1>5, <1>6 DEF Middle, Longest
<1>8. ASSUME NEW i \in (-m)..m
      PROVE  ((c % P) + i + P) % P \in conv
  <2>1. PICK j \in Nat : j = c + i /\ j \in 0..(2 * P - 1) /\ h + i + 1 \in 1..len /\ j + 1 = at + (h + i + 1)
    BY <1>1, <1>2, <1>4, <1>6, <1>7 DEF Middle, Longest
  <2>2. TwiceAround(conv)[j + 1] = 0
    BY <1>2, <2>1 DEF Middle, Longest, Zeros
  <2>3. j % P \in conv
    BY <1>1, <2>1, <2>2, ZeroIsPhase
  <2>4. ((c % P) + i + P) % P = j % P
    <3>1. CASE c < P
      <4>1. c % P = c
        BY <1>7, <3>1, WithinCircle
      <4>2. (c % P) + i + P = j + P
        BY <2>1, <4>1
      <4> QED BY <4>2, Around
    <3>2. CASE c >= P
      <4>1. PICK d \in 0..(P - 1) : d = c - P /\ d + P = c
        BY <1>7, <3>2
      <4>2. c % P = d
        <5>1. (d + P) % P = d % P
          <6>1. d \in Nat
            OBVIOUS
          <6> QED BY <6>1, Around
        <5>2. d % P = d
          BY WithinCircle
        <5> QED BY <4>1, <5>1, <5>2
      <4>3. (c % P) + i + P = j
        BY <2>1, <4>1, <4>2
      <4> QED BY <4>3
    <3> QED BY <1>7, <3>1, <3>2
  <2> QED BY <2>3, <2>4
<1> QED BY <1>1, <1>3, <1>4, <1>7, <1>8 DEF Deep

\* What the property measures: the margin of the phase found is the largest.
LEMMA SearchedIsDeepest ==
  ASSUME NEW conv \in Converging, NEW p \in 0..(Phases - 1)
  PROVE  Margins[conv][p] <= Margins[conv][Searched(conv)]
<1>1. PICK P \in Nat \ {0} : P = Phases
  BY CalibAssumption
<1>2. conv \in SUBSET (0..(Phases - 1))
  BY CalibAssumption
<1>3. Searched(conv) \in 0..(Phases - 1)
  <2>1. PICK at \in Nat, len \in Nat : Middle(conv, at, len)
    BY <1>2, SearchedFacts
  <2>2. PICK x \in Nat : x = at + len \div 2
    BY <2>1
  <2>3. x % P \in 0..(P - 1)
    OBVIOUS
  <2> QED BY <1>1, <2>1, <2>2, <2>3 DEF Middle
<1>4. PICK q \in 0..(Phases - 1) : q = Searched(conv)
  BY <1>3
<1>5. Margins[conv][p] = Cardinality(Deep(p, conv)) /\ Margins[conv][q] = Cardinality(Deep(q, conv))
  BY DEF Margins, Margin, Deep
<1>6. IsFiniteSet(0..(P \div 2 - 1))
  BY FS_Interval
<1>7. Deep(q, conv) \subseteq 0..(P \div 2 - 1)
  BY <1>1 DEF Deep
<1>8. IsFiniteSet(Deep(q, conv))
  BY <1>6, <1>7, FS_Subset
<1>9. Deep(p, conv) \subseteq Deep(q, conv)
  BY <1>2, <1>4, SearchedIsDeep
<1> QED BY <1>4, <1>5, <1>8, <1>9, FS_Subset

-----------------------------------------------------------------------------
(* The runs of a calibration: the first, its retry and the search.         *)

\* A run's record; one that returned success and its bits is at a phase that converges.
Sound(s, conv) ==
  /\ \E at, last, ret, val : s = [at |-> at, last |-> last, ret |-> ret, val |-> val]
  /\ s.ret = "ok" /\ s.val => s.at \in conv

\* A record is sound by its parts.
LEMMA SoundRecord ==
  ASSUME NEW at, NEW last, NEW ret, NEW val, NEW conv, ret = "ok" /\ val => at \in conv
  PROVE  Sound([at |-> at, last |-> last, ret |-> ret, val |-> val], conv)
<1> DEFINE s == [at |-> at, last |-> last, ret |-> ret, val |-> val]
<1>1. s.at = at /\ s.ret = ret /\ s.val = val
  OBVIOUS
<1>2. s.ret = "ok" /\ s.val => s.at \in conv
  <2> HIDE DEF s
  <2> QED BY <1>1, Zenon
<1>3. \E a, l, r, v : s = [at |-> a, last |-> l, ret |-> r, val |-> v]
  BY Zenon
<1> QED BY <1>2, <1>3, Zenon DEF Sound

\* One run keeps a record sound: a late one returns an error, whatever its bits.
LEMMA RunIsSound ==
  ASSUME NEW s, NEW at, NEW conv, NEW late \in BOOLEAN, Sound(s, conv)
  PROVE  Sound(Run(s, at, conv, late), conv)
<1>1. PICK a, l, r, v : s = [at |-> a, last |-> l, ret |-> r, val |-> v]
  BY Zenon DEF Sound
<1>2. CASE late
  <2>1. Run(s, at, conv, late) = [at |-> at, last |-> l, ret |-> "timeout", val |-> v]
    BY <1>1, <1>2 DEF Run
  <2>2. "timeout" = "ok" /\ v => at \in conv
    OBVIOUS
  <2>3. Sound([at |-> at, last |-> l, ret |-> "timeout", val |-> v], conv)
    BY <2>2, SoundRecord, Zenon
  <2> QED BY <2>1, <2>3, Zenon
<1>3. CASE ~late
  <2>1. PICK w : w = (at \in conv)
    OBVIOUS
  <2>2. Run(s, at, conv, late) = [at |-> at, last |-> l, ret |-> "ok", val |-> w]
    BY <1>1, <1>3, <2>1 DEF Run
  <2>3. "ok" = "ok" /\ w => at \in conv
    BY <2>1, Zenon
  <2>4. Sound([at |-> at, last |-> l, ret |-> "ok", val |-> w], conv)
    BY <2>3, SoundRecord, Zenon
  <2> QED BY <2>2, <2>4, Zenon
<1> QED BY <1>2, <1>3

\* So does the retry.
LEMMA RetriedIsSound ==
  ASSUME NEW s, NEW start, NEW conv, NEW late \in BOOLEAN, Sound(s, conv)
  PROVE  Sound(Retried(s, start, conv, late), conv)
<1>1. PICK a, l, r, v : s = [at |-> a, last |-> l, ret |-> r, val |-> v]
  BY Zenon DEF Sound
<1>2. s.ret = r /\ s.val = v /\ s.at = a
  BY <1>1
<1>3. CASE s.val
  <2>1. Retried(s, start, conv, late) = [at |-> a, last |-> start, ret |-> r, val |-> v]
    BY <1>1, <1>3 DEF Retried
  <2>2. r = "ok" /\ v => a \in conv
    BY <1>2, Zenon DEF Sound
  <2>3. Sound([at |-> a, last |-> start, ret |-> r, val |-> v], conv)
    BY <2>2, SoundRecord, Zenon
  <2> QED BY <2>1, <2>3, Zenon
<1>4. CASE ~s.val /\ s.last < Phases - 1
  <2>1. Retried(s, start, conv, late) = Run(s, s.last, conv, late)
    BY <1>4 DEF Retried
  <2> QED BY <2>1, RunIsSound, Zenon
<1>5. CASE ~s.val /\ ~(s.last < Phases - 1)
  BY <1>5 DEF Retried
<1> QED BY <1>3, <1>4, <1>5, Zenon

\* A calibration that returns success ends at a phase that converges, if any does, and a
\* forced search at the one found.
LEMMA AttemptsConverge ==
  ASSUME NEW arg, NEW words, NEW conv \in Converging, NEW late, NEW garbage,
         garbage => late = 1,
         Attempts(arg, words, conv, late, garbage).ret = "ok"
  PROVE  /\ conv # {} => Attempts(arg, words, conv, late, garbage).at \in conv
         /\ arg = -2 => Attempts(arg, words, conv, late, garbage).at = Searched(conv)
<1>1. PICK start : start = IF arg >= 0 THEN arg ELSE words.phase
  OBVIOUS
<1>2. PICK s : s = [at |-> phase.at, last |-> lastPhase, ret |-> "ok", val |-> garbage]
  OBVIOUS
<1>3. PICK one \in BOOLEAN, two \in BOOLEAN : one = (late = 1) /\ two = (late = 2)
  BY Zenon
<1>4. PICK t : t = IF arg = -2 THEN [s EXCEPT !.val = FALSE] ELSE Retried(Run(s, start, conv, one), start, conv, two)
  OBVIOUS
<1>5. Sound(t, conv) /\ (arg = -2 => ~t.val)
  <2>1. CASE arg = -2
    <3>1. t = [at |-> phase.at, last |-> lastPhase, ret |-> "ok", val |-> FALSE]
      BY <1>2, <1>4, <2>1
    <3>2. Sound([at |-> phase.at, last |-> lastPhase, ret |-> "ok", val |-> FALSE], conv)
      BY SoundRecord, Zenon
    <3>3. Sound(t, conv)
      BY <3>1, <3>2, Zenon
    <3>4. ~t.val
      BY <3>1
    <3> QED BY <3>3, <3>4
  <2>2. CASE arg # -2
    <3>1. Sound(Run(s, start, conv, one), conv)
      <4>1. CASE garbage
        <5>1. one
          BY <1>3, <4>1
        <5>2. Run(s, start, conv, one) = [at |-> start, last |-> lastPhase, ret |-> "timeout", val |-> garbage]
          BY <1>2, <5>1 DEF Run
        <5>3. "timeout" = "ok" /\ garbage => start \in conv
          OBVIOUS
        <5>4. Sound([at |-> start, last |-> lastPhase, ret |-> "timeout", val |-> garbage], conv)
          BY <5>3, SoundRecord, Zenon
        <5> QED BY <5>2, <5>4, Zenon
      <4>2. CASE ~garbage
        <5>1. "ok" = "ok" /\ garbage => phase.at \in conv
          BY <4>2, Zenon
        <5>2. Sound([at |-> phase.at, last |-> lastPhase, ret |-> "ok", val |-> garbage], conv)
          BY <5>1, SoundRecord, Zenon
        <5>3. Sound(s, conv)
          BY <1>2, <5>2, Zenon
        <5> QED BY <5>3, RunIsSound, Zenon
      <4> QED BY <4>1, <4>2, Zenon
    <3> QED BY <1>4, <2>2, <3>1, RetriedIsSound
  <2> QED BY <2>1, <2>2
<1>6. PICK u : u = WithSearch(t, conv, late)
  OBVIOUS
<1>7. Attempts(arg, words, conv, late, garbage) = u
  BY <1>1, <1>2, <1>3, <1>4, <1>6, Zenon DEF Attempts
<1>8. u.ret = "ok"
  BY <1>7
<1>9. PICK a, l, r, v : t = [at |-> a, last |-> l, ret |-> r, val |-> v] /\ (r = "ok" /\ v => a \in conv)
  BY <1>5 DEF Sound
<1>10. CASE t.val
  <2>1. u = t
    BY <1>6, <1>10 DEF WithSearch
  <2> QED BY <1>5, <1>7, <1>8, <1>9, <1>10, <2>1
<1>11. CASE ~t.val
  <2>1. Searches[conv] = Searched(conv)
    BY DEF Searches
  <2>2. u.at = Searched(conv)
    <3>1. late # 3
      BY <1>6, <1>8, <1>9, <1>11 DEF WithSearch
    <3> QED BY <1>6, <1>9, <1>11, <2>1, <3>1 DEF WithSearch
  <2>3. conv \in SUBSET (0..(Phases - 1))
    BY CalibAssumption
  <2> QED BY <1>7, <2>2, <2>3, SearchedConverges
<1> QED BY <1>10, <1>11

\* What a calibration finds.
FoundPhase ==
  quad'.ran /\ quad'.ret = "ok" =>
    /\ quad'.conv \in Converging
    /\ quad'.conv # {} => phase'.at \in quad'.conv
    /\ quad'.arg = -2 => phase'.at = Searched(quad'.conv)

\* A quadrature calibration, with all its ways out.
LEMMA QuadCalibFinds ==
  ASSUME NEW kind, NEW arg, NEW b, NEW f, QuadCalib(kind, arg, b, f)
  PROVE  FoundPhase
<1> DEFINE words == NcoWords(clk.rf, clk.tf, b.tx \div 2)
           nco == (clk.tf * (words.tx + 1)) \div 32
           wide == TooNarrow(b, nco)
<1> HIDE DEF words, nco, wide
<1>1. ASSUME quad' = Noted(kind, arg, "timeout")
      PROVE  FoundPhase
  BY <1>1 DEF Noted, FoundPhase
<1>2. ASSUME NEW conv \in Converging, NEW late, NEW garbage, NEW back, NEW used, garbage => late = 1,
             NEW r, r = Attempts(arg, words, conv, late, garbage),
             phase' = [at |-> r.at, tx |-> words.tx, rx |-> words.rx],
             quad' = [Noted(kind, arg, r.ret) EXCEPT !.ran = TRUE, !.conv = conv, !.used = used, !.restored = back]
      PROVE  FoundPhase
  <2>1. quad'.ret = r.ret /\ quad'.conv = conv /\ quad'.arg = arg
    BY <1>2 DEF Noted
  <2>2. phase'.at = r.at
    BY <1>2
  <2>3. r.ret = "ok" => (conv # {} => r.at \in conv) /\ (arg = -2 => r.at = Searched(conv))
    BY <1>2, AttemptsConverge
  <2> QED BY <2>1, <2>2, <2>3 DEF FoundPhase
<1> DEFINE Used == IF wide THEN Filters(f, 8 * nco, 8 * nco, TRUE) ELSE {f}
           Ran(conv, late, garbage, back, used, r) ==
             /\ phase' = [at |-> r.at, tx |-> words.tx, rx |-> words.rx]
             /\ lastPhase' = r.last
             /\ invert' = Reinverted(invert)
             /\ filter' \in IF wide /\ PutBack(r.ret) THEN Filters(used, b.rx, b.tx, back) ELSE {used}
             /\ quad' = [Noted(kind, arg, r.ret) EXCEPT
                           !.ran = TRUE, !.conv = conv, !.used = used, !.restored = back]
<1>3. CASE \E conv \in Converging, late \in 0..4, garbage, back \in BOOLEAN :
             /\ late # 0 \/ ~back => CalFails
             /\ garbage => late = 1
             /\ ~back => wide
             /\ \E used \in Used : Ran(conv, late, garbage, back, used, Attempts(arg, words, conv, late, garbage))
  <2> HIDE DEF Used, Ran
  <2>1. PICK conv \in Converging, late \in 0..4, garbage \in BOOLEAN, back \in BOOLEAN :
             /\ garbage => late = 1
             /\ \E used \in Used : Ran(conv, late, garbage, back, used, Attempts(arg, words, conv, late, garbage))
    BY <1>3, Zenon
  <2>2. PICK r : r = Attempts(arg, words, conv, late, garbage)
    OBVIOUS
  <2>3. PICK used \in Used : Ran(conv, late, garbage, back, used, r)
    BY <2>1, <2>2, Zenon
  <2>4. /\ phase' = [at |-> r.at, tx |-> words.tx, rx |-> words.rx]
        /\ quad' = [Noted(kind, arg, r.ret) EXCEPT !.ran = TRUE, !.conv = conv, !.used = used, !.restored = back]
    BY <2>3 DEF Ran
  <2> QED BY <1>2, <2>1, <2>2, <2>4, Zenon
<1> QED BY <1>1, <1>3, Zenon DEF QuadCalib, words, nco, wide, Used, Ran

\* Every call.
LEMMA CallsFind ==
  ASSUME CalibNext
  PROVE  FoundPhase
<1>1. ASSUME NEW kind, NEW arg, NEW ret, quad' = Noted(kind, arg, ret)
      PROVE  FoundPhase
  BY <1>1 DEF Noted, FoundPhase
<1> QED BY <1>1, QuadCalibFinds, Zenon DEF CalibNext, DoQuadCalib, RfDcCalib, SetRfBandwidth, SetChain

-----------------------------------------------------------------------------
(* The calls that calibrate. *)

\* What one call does.
Stepped ==
  /\ CalibInv'
  /\ quad'.ran /\ clk.rf \in {clk.tf, 2 * clk.tf} => clk.rf * (phase'.rx + 1) = clk.tf * (phase'.tx + 1)
  /\ quad'.ran /\ (At(filter, bw) \/ quad'.kind = "bandwidth") => Wide(quad'.used, NcoOf(clk.tf, phase'.tx))
  /\ quad'.ran /\ quad'.restored /\ (At(filter, bw) \/ quad'.kind = "bandwidth") => At(filter', bw')

\* A bandwidth asked for is clamped to one of the chip's.
LEMMA AskedBandwidth ==
  ASSUME NEW hz \in Nat
  PROVE  ValidBw(hz) \in Nat
BY CalibAssumption, SMT DEF ValidBw, Clamped

\* ad9361_do_calib(TX_QUAD_CAL)
LEMMA DoQuadCalibSteps ==
  ASSUME CalibInv, NEW arg, DoQuadCalib(arg)
  PROVE  Stepped
<1>1. PICK kind : kind = "quad"
  OBVIOUS
<1>2. QuadCalib(kind, arg, bw, filter) /\ clk' = clk /\ bw' = bw
  BY <1>1 DEF DoQuadCalib
<1>3. bw \in [rx : Nat, tx : Nat] /\ filter \in FilterState
  BY DEF CalibInv, CalibTyped
<1>4. CalibratedFor(bw, filter, kind)
  BY <1>2, <1>3, QuadCalibFacts
<1>5. quad'.kind # "bandwidth"
  BY <1>1, <1>4 DEF CalibratedFor
<1>6. CalibInv'
  BY <1>2, <1>4 DEF CalibratedFor, CalibInv, CalibTyped
<1>7. \A b : b = bw => (At(filter', b) => At(filter', bw'))
  BY <1>2
<1> QED BY <1>4, <1>5, <1>6, <1>7, Zenon DEF Stepped, CalibratedFor

\* ad9361_rf_dc_offset_calib()
LEMMA RfDcCalibSteps ==
  ASSUME CalibInv, RfDcCalib
  PROVE  Stepped
<1>1. clk' = clk /\ bw' = bw /\ filter' = filter
  BY DEF RfDcCalib
<1>2. Inverted(invert')
  BY DEF RfDcCalib, CalibInv, Inverted
<1>3. quad'.ran = FALSE
  BY DEF RfDcCalib, Noted
<1>4. CalibInv'
  BY <1>1, <1>2 DEF CalibInv, CalibTyped
<1> QED BY <1>3, <1>4 DEF Stepped

\* ad9361_set_{rx,tx}_rf_bandwidth()
LEMMA SetRfBandwidthSteps ==
  ASSUME CalibInv, NEW way \in {"rx", "tx"}, NEW hz \in RfBws, SetRfBandwidth(way, hz)
  PROVE  Stepped
<1> DEFINE to == [bw EXCEPT ![way] = ValidBw(hz)]
<1>1. hz \in Nat
  BY CalibAssumption
<1>2. PICK asked \in Nat : asked = ValidBw(hz)
  BY <1>1, AskedBandwidth
<1>3. to \in [rx : Nat, tx : Nat]
  BY <1>2 DEF CalibInv, CalibTyped
<1>4. clk' = clk /\ clk.bbpll \in Nat \ {0} /\ filter \in FilterState /\ Inverted(invert)
  BY DEF SetRfBandwidth, CalibInv, CalibTyped
<1> HIDE DEF to
<1>5. CASE /\ CalFails
           /\ filter' \in Filters(filter, to.rx, to.tx, FALSE)
           /\ quad' = Noted("bandwidth", -1, "timeout")
           /\ UNCHANGED <<bw, phase, lastPhase, invert>>
  <2>1. PICK no \in BOOLEAN : no = FALSE
    BY Zenon
  <2>2. filter' \in Filters(filter, to.rx, to.tx, no)
    BY <1>5, <2>1
  <2>3. filter' \in FilterState
    BY <1>3, <1>4, <2>2, FiltersFacts
  <2>4. quad'.ran = FALSE
    BY <1>5 DEF Noted
  <2>5. CalibInv'
    BY <1>4, <1>5, <2>3 DEF CalibInv, CalibTyped
  <2> QED BY <2>4, <2>5 DEF Stepped
<1>6. CASE bw' = to /\ \E f \in Filters(filter, to.rx, to.tx, TRUE) : QuadCalib("bandwidth", -1, to, f)
  <2>1. PICK f \in Filters(filter, to.rx, to.tx, TRUE) : QuadCalib("bandwidth", -1, to, f)
    BY <1>6
  <2>2. PICK yes \in BOOLEAN : yes = TRUE
    BY Zenon
  <2>3. PICK kind, arg : kind = "bandwidth" /\ arg = -1
    BY Zenon
  <2>4. f \in Filters(filter, to.rx, to.tx, yes) /\ QuadCalib(kind, arg, to, f)
    BY <2>1, <2>2, <2>3
  <2>5. f \in FilterState /\ (yes => At(f, to))
    BY <1>3, <1>4, <2>4, FiltersFacts DEF At
  <2>6. CalibratedFor(to, f, kind)
    BY <1>3, <2>4, <2>5, QuadCalibFacts
  <2>7. CalibInv'
    BY <1>3, <1>4, <1>6, <2>6 DEF CalibratedFor, CalibInv, CalibTyped
  <2>8. \A b : b = to => (At(filter', b) => At(filter', bw'))
    BY <1>6
  <2> QED BY <2>2, <2>3, <2>5, <2>6, <2>7, <2>8, Zenon DEF Stepped, CalibratedFor
<1> QED BY <1>5, <1>6, Zenon DEF SetRfBandwidth, to

\* A new chain of clocks.
LEMMA SetChainSteps ==
  ASSUME CalibInv, NEW c \in Chains, NEW b \in BbPlls, SetChain(c, b)
  PROVE  Stepped
<1>1. b \in Nat \ {0} /\ c \in [rf : Nat \ {0}, tf : Nat \ {0}]
  BY CalibAssumption
<1>2. clk' \in [bbpll : Nat \ {0}, rf : Nat \ {0}, tf : Nat \ {0}]
  BY <1>1 DEF SetChain
<1>3. CalibInv'
  BY <1>2 DEF SetChain, CalibInv, CalibTyped
<1>4. quad'.ran = FALSE
  BY DEF SetChain, Noted
<1> QED BY <1>3, <1>4 DEF Stepped

\* After the set-up.
LEMMA CalibStarts ==
  ASSUME CalibInit
  PROVE  CalibInv
<1>1. PICK c \in Chains, b \in BbPlls : clk = [bbpll |-> b, rf |-> c.rf, tf |-> c.tf]
  BY DEF CalibInit
<1>2. b \in Nat \ {0} /\ c \in [rf : Nat \ {0}, tf : Nat \ {0}]
  BY CalibAssumption
<1>3. clk \in [bbpll : Nat \ {0}, rf : Nat \ {0}, tf : Nat \ {0}] /\ clk.bbpll = b
  BY <1>1, <1>2
<1>4. PICK hz \in RfBws : /\ bw = [rx |-> ValidBw(hz), tx |-> ValidBw(hz)]
                          /\ filter = [rx |-> RxFilter(bw.rx), tx |-> TxFilter(bw.tx)]
  BY DEF CalibInit
<1>5. PICK asked \in Nat : asked = ValidBw(hz)
  BY CalibAssumption, AskedBandwidth
<1>6. bw = [rx |-> asked, tx |-> asked]
  BY <1>4, <1>5
<1>7. filter = [rx |-> RxMade(asked, b), tx |-> TxMade(asked, b)]
  BY <1>3, <1>4, <1>6 DEF RxFilter, TxFilter, RxMade, TxMade
<1>8. filter \in FilterState
  BY <1>2, <1>7 DEF FilterState, RxFilters, TxFilters
<1>9. PICK i \in Inverts : invert = [on |-> i, rx2 |-> i, bits |-> IF i THEN {"rx1"} ELSE {"rx1", "rx2"}]
  BY Zenon DEF CalibInit
<1>10. Inverted(invert)
  <2>1. i \in BOOLEAN
    BY CalibAssumption
  <2> QED BY <1>9, <2>1 DEF Inverted
<1> QED BY <1>3, <1>6, <1>8, <1>10 DEF CalibInv, CalibTyped

\* What the calibrations leave in the chip between calls: the inversion of RX2 and its
\* bits are those asked for; a tuning clock no faster than the bandwidth needs, its
\* words within a 128th of a MHz, and a capacitor that fits; and what one does: both
\* NCOs at one frequency, filters wide enough meanwhile and at the current bandwidth
\* again, whatever the runs return.  One that returns success ends at a phase that
\* converges, if any does, through the retry and the results of runs that timed out;
\* the search takes a phase no other lies deeper among them.
THEOREM CalibrationsAreSound == CalibSpec => Calibrated
<1>1. CalibInv /\ [CalibNext]_calibVars => CalibInv' /\ [Stepped]_calibVars
  <2> SUFFICES ASSUME CalibInv, [CalibNext]_calibVars
               PROVE  CalibInv' /\ [Stepped]_calibVars
    OBVIOUS
  <2>1. CASE UNCHANGED calibVars
    BY <2>1 DEF calibVars, CalibInv, CalibTyped
  <2>2. CASE CalibNext
    <3>1. Stepped
      BY <2>2, DoQuadCalibSteps, RfDcCalibSteps, SetRfBandwidthSteps, SetChainSteps, Zenon DEF CalibNext
    <3> QED BY <3>1 DEF Stepped
  <2> QED BY <2>1, <2>2
<1>2. CalibInv => InvertKept
  BY DEF CalibInv, Inverted, InvertKept
<1>3. CalibInv => TuningFits
  <2>1. CalibInv => filter.rx \in RxFilters
    BY DEF CalibInv, CalibTyped, FilterState
  <2> QED BY <2>1, RxMadeFits DEF TuningFits
<1>4. CalibInv => CapacitorFits
  <2>1. CalibInv => filter.tx \in TxFilters
    BY DEF CalibInv, CalibTyped, FilterState
  <2> QED BY <2>1, TxMadeFits DEF CapacitorFits
<1>5. [Stepped]_calibVars =>
        [quad'.ran /\ clk.rf \in {clk.tf, 2 * clk.tf} =>
           clk.rf * (phase'.rx + 1) = clk.tf * (phase'.tx + 1)]_calibVars
  BY Zenon DEF Stepped
<1>6. [Stepped]_calibVars =>
        [quad'.ran /\ ((filter.rx.bw = bw.rx /\ filter.tx.bw = bw.tx) \/ quad'.kind = "bandwidth") =>
           LET nco == (clk.tf * (phase'.tx + 1)) \div 32
           IN  nco <= quad'.used.rx.bw \div 8 /\ nco <= quad'.used.tx.bw \div 8]_calibVars
  BY Zenon DEF Stepped, At, Wide, NcoOf
<1>7. [Stepped]_calibVars =>
        [quad'.ran /\ quad'.restored /\ ((filter.rx.bw = bw.rx /\ filter.tx.bw = bw.tx) \/ quad'.kind = "bandwidth") =>
           filter'.rx.bw = bw'.rx /\ filter'.tx.bw = bw'.tx]_calibVars
  BY Zenon DEF Stepped, At
<1>8. [CalibNext]_calibVars => [FoundPhase]_calibVars
  BY CallsFind, Zenon
<1>9. [FoundPhase]_calibVars =>
        [quad'.ran /\ quad'.ret = "ok" /\ quad'.conv # {} => phase'.at \in quad'.conv]_calibVars
  BY Zenon DEF FoundPhase
<1>10. [FoundPhase]_calibVars =>
         [quad'.ran /\ quad'.arg = -2 /\ quad'.ret = "ok" =>
            \A p \in 0..(Phases - 1) : Margins[quad'.conv][p] <= Margins[quad'.conv][phase'.at]]_calibVars
  <2> SUFFICES ASSUME FoundPhase, quad'.ran /\ quad'.arg = -2 /\ quad'.ret = "ok",
                      NEW p \in 0..(Phases - 1)
               PROVE  Margins[quad'.conv][p] <= Margins[quad'.conv][phase'.at]
    BY Zenon
  <2>1. PICK conv \in Converging : conv = quad'.conv /\ phase'.at = Searched(conv)
    BY Zenon DEF FoundPhase
  <2>2. Margins[conv][p] <= Margins[conv][Searched(conv)]
    BY SearchedIsDeepest
  <2> QED BY <2>1, <2>2, Zenon
<1> QED
  BY CalibStarts, <1>1, <1>2, <1>3, <1>4, <1>5, <1>6, <1>7, <1>8, <1>9, <1>10, PTL
     DEF CalibSpec, Calibrated, NcosMatch, QuadConverges, SearchIsDeepest, WideEnough, BwInForce

-----------------------------------------------------------------------------
(* The signal strength. *)

\* The state between calls; nothing is measured before the tables are filled.
RssiState ==
  /\ ask \in [rssi : RssiAsks, tables : Stored, use : RxNumbers]
  /\ rxLo \in RssiLos /\ passed \in BeforeSetUp..MaxRetunes
  /\ steps \in [gain : -1..3, diff : -1..3, lna : Origins, mixer : Origins]
  /\ heard.now \in Strengths /\ DOMAIN heard = {"now", "of", "read"}
  /\ passed < 0 => steps.lna = "none"

\* The inductive invariant.
RssiInv == RssiState /\ OneSource /\ ReadsItsOwn

\* A number is its half and its low bit.
LEMMA Halves ==
  ASSUME NEW n \in 0..511
  PROVE  2 * (n \div 2) + (n % 2) = n /\ (n % 2) \in 0..1 /\ n \div 2 \in 0..255
  OBVIOUS

\* Two low bits of one register come apart.
LEMMA LowBits ==
  ASSUME NEW a \in 0..1, NEW b \in 0..1
  PROVE  (a + 2 * b) % 2 = a /\ (a + 2 * b) \div 2 = b
  OBVIOUS

\* What is unpacked is what was packed, of either receiver.
LEMMA UnpackedFacts ==
  ASSUME NEW s \in [symbol : [1..2 -> 0..511], preamble : [1..2 -> 0..511]], NEW ant \in 1..2
  PROVE  Unpacked(ant, RssiBytes(s)) = [symbol |-> 25 * s.symbol[ant], preamble |-> 25 * s.preamble[ant]]
<1>1. PICK s1 \in 0..511, s2 \in 0..511, p1 \in 0..511, p2 \in 0..511 :
        s1 = s.symbol[1] /\ s2 = s.symbol[2] /\ p1 = s.preamble[1] /\ p2 = s.preamble[2]
  <2>1. s.symbol \in [1..2 -> 0..511] /\ s.preamble \in [1..2 -> 0..511]
    OBVIOUS
  <2>2. s.symbol[1] \in 0..511 /\ s.symbol[2] \in 0..511 /\ s.preamble[1] \in 0..511 /\ s.preamble[2] \in 0..511
    BY <2>1
  <2> QED BY <2>2, ZenonT(60)
<1>2. PICK sl \in 0..1, sm \in 0..1, pl \in 0..1, pm \in 0..1 : sl = s1 % 2 /\ sm = s2 % 2 /\ pl = p1 % 2 /\ pm = p2 % 2
  BY Halves
<1>3. PICK sh \in Nat, si \in Nat, ph \in Nat, pi \in Nat :
        sh = s1 \div 2 /\ si = s2 \div 2 /\ ph = p1 \div 2 /\ pi = p2 \div 2
  BY Halves
<1>4. 2 * sh + sl = s1 /\ 2 * si + sm = s2 /\ 2 * ph + pl = p1 /\ 2 * pi + pm = p2
  BY <1>2, <1>3, Halves
<1>5. RssiBytes(s) = <<pl + 2 * pm, sl + 2 * sm, pi, si, ph, sh>>
  BY <1>1, <1>2, <1>3 DEF RssiBytes
<1>6. /\ (sl + 2 * sm) % 2 = sl /\ (sl + 2 * sm) \div 2 = sm
      /\ (pl + 2 * pm) % 2 = pl /\ (pl + 2 * pm) \div 2 = pm
  BY LowBits
<1>7. CASE ant = 1
  <2>1. Unpacked(ant, RssiBytes(s)) = [symbol |-> 25 * (2 * sh + sl), preamble |-> 25 * (2 * ph + pl)]
    BY <1>5, <1>6, <1>7 DEF Unpacked
  <2> QED BY <1>1, <1>4, <1>7, <2>1
<1>8. CASE ant = 2
  <2>1. Unpacked(ant, RssiBytes(s)) = [symbol |-> 25 * (2 * si + sm), preamble |-> 25 * (2 * pi + pm)]
    BY <1>5, <1>6, <1>8 DEF Unpacked
  <2> QED BY <1>1, <1>4, <1>8, <2>1
<1> QED BY <1>7, <1>8

\* The whole dBs of a reading of the transmitter's.
LEMMA WholeDbs ==
  ASSUME NEW n \in 0..511
  PROVE  (((25 * n) \div 100) * 1000 + ((25 * n) % 100)) \div 1000 = n \div 4
  OBVIOUS

\* The row of the table covers the LO.
LEMMA RowFacts ==
  ASSUME NEW mhz \in Nat, mhz <= 6000
  PROVE  LET r == <<<<0, 1300>>, <<1300, 3300>>, <<2700, 4100>>, <<4000, 6000>>>>[Row(mhz) + 1]
         IN  Row(mhz) \in 0..3 /\ r[1] <= mhz /\ mhz <= r[2]
BY DEF Row

\* The steps of the calibration are the range's.
RowStep ==
  steps'.diff >= 0 /\ (steps' # steps \/ passed = BeforeTables) /\ steps'.lna = "measured" =>
    LET r == <<<<0, 1300>>, <<1300, 3300>>, <<2700, 4100>>, <<4000, 6000>>>>[steps'.diff + 1]
    IN  r[1] <= rxLo /\ rxLo <= r[2]

\* A calibration: one source, and the range's steps.
LEMMA CalibrateFacts ==
  ASSUME RssiInv, Calibrate
  PROVE  /\ RowStep
         /\ steps' \in [gain : -1..3, diff : -1..3, lna : Origins, mixer : Origins]
         /\ steps'.lna = steps'.mixer /\ steps'.diff \in 0..3 /\ steps'.lna = "measured"
<1>1. rxLo \in Nat /\ rxLo <= 6000
  BY RssiAssumption DEF RssiInv, RssiState
<1>2. PICK n \in 0..3 : n = Row(rxLo)
  BY <1>1, RowFacts
<1>3. steps' = [gain |-> n, diff |-> n, lna |-> "measured", mixer |-> "measured"]
  BY <1>2 DEF Calibrate
<1>4. RowStep
  <2>1. steps'.diff = n
    BY <1>3
  <2> QED BY <1>1, <1>2, <2>1, RowFacts DEF RowStep
<1> QED BY <1>3, <1>4 DEF Origins

\* The stored tables: one source.
LEMMA ProgramFacts ==
  ASSUME Program
  PROVE  /\ RowStep
         /\ steps' \in [gain : -1..3, diff : -1..3, lna : Origins, mixer : Origins]
         /\ steps'.lna = steps'.mixer /\ steps'.diff = -1 /\ steps'.lna = "stored"
<1>1. steps' = [gain |-> -1, diff |-> -1, lna |-> "stored", mixer |-> "stored"]
  BY DEF Program
<1> QED BY <1>1 DEF RowStep, Origins

\* Steps that stay as they are.
LEMMA SameSteps ==
  ASSUME RssiInv, steps' = steps, passed # BeforeTables \/ steps.lna # "measured"
  PROVE  RowStep
BY DEF RowStep

\* Every step keeps it.
LEMMA RssiNextKeeps ==
  ASSUME RssiInv, RssiNext
  PROVE  RssiInv' /\ RowStep
<1>1. /\ passed \in BeforeSetUp..MaxRetunes /\ MaxRetunes \in Nat /\ RssiState /\ OneSource /\ ReadsItsOwn
      /\ passed < 0 => steps.lna = "none"
  BY RssiAssumption DEF RssiInv, RssiState
<1>2. CASE SetUpRssi
  <2>1. passed = -2 /\ passed' = -1 /\ ask' = ask /\ rxLo' = rxLo /\ steps' = steps /\ heard' = heard
    BY <1>2 DEF SetUpRssi, BeforeSetUp, BeforeTables
  <2>2. RssiState' /\ ReadsItsOwn'
    BY <1>1, <2>1 DEF RssiState, ReadsItsOwn, BeforeSetUp
  <2>3. OneSource'
    BY <1>1, <2>1 DEF OneSource
  <2>4. RowStep
    BY <1>1, <2>1, SameSteps
  <2> QED BY <2>2, <2>3, <2>4 DEF RssiInv
<1>3. CASE FillTables
  <2>1. passed = -1 /\ passed' = 0 /\ ask' = ask /\ rxLo' = rxLo /\ heard' = heard
    BY <1>3 DEF FillTables, BeforeTables
  <2>2. ReadsItsOwn'
    BY <1>1, <2>1 DEF ReadsItsOwn
  <2>3. ASSUME steps' \in [gain : -1..3, diff : -1..3, lna : Origins, mixer : Origins]
        PROVE  RssiState'
    BY <1>1, <2>1, <2>3 DEF RssiState, BeforeSetUp
  <2>4. CASE ~ask.tables.skip /\ Calibrate
    <3>1. /\ RowStep /\ RssiState'
          /\ steps'.lna = steps'.mixer /\ steps'.diff \in 0..3 /\ steps'.lna = "measured"
      BY <2>3, <2>4, CalibrateFacts
    <3>2. OneSource'
      BY <2>1, <2>4, <3>1 DEF OneSource
    <3> QED BY <2>2, <3>1, <3>2 DEF RssiInv
  <2>5. CASE Program
    <3>1. /\ RowStep /\ RssiState'
          /\ steps'.lna = steps'.mixer /\ steps'.diff = -1 /\ steps'.lna = "stored"
      BY <2>3, <2>5, ProgramFacts
    <3>2. OneSource'
      BY <3>1 DEF OneSource
    <3> QED BY <2>2, <3>1, <3>2 DEF RssiInv
  <2>6. CASE steps' = steps
    <3>1. steps.lna = "none" /\ RowStep
      BY <1>1, <2>1, <2>6, SameSteps
    <3>2. RssiState'
      BY <1>1, <2>3, <2>6 DEF RssiState
    <3>3. OneSource'
      BY <1>1, <2>6, <3>1 DEF OneSource
    <3> QED BY <2>2, <3>1, <3>2, <3>3 DEF RssiInv
  <2> QED BY <1>3, <2>4, <2>5, <2>6 DEF FillTables
<1>4. CASE Recalibrate
  <2>1. passed \in 0..MaxRetunes - 1 /\ passed' = passed + 1 /\ ask' = ask /\ rxLo' = rxLo /\ heard' = heard
    BY <1>4 DEF Recalibrate, RssiStep
  <2>2. ReadsItsOwn'
    BY <1>1, <2>1 DEF ReadsItsOwn
  <2>3. ASSUME steps' \in [gain : -1..3, diff : -1..3, lna : Origins, mixer : Origins]
        PROVE  RssiState'
    BY <1>1, <2>1, <2>3 DEF RssiState, BeforeSetUp
  <2>4. passed' # 0
    BY <2>1
  <2>5. CASE Calibrate
    <3>1. /\ RowStep /\ RssiState'
          /\ steps'.lna = steps'.mixer /\ steps'.diff \in 0..3 /\ steps'.lna = "measured"
      BY <2>3, <2>5, CalibrateFacts
    <3>2. OneSource'
      BY <2>4, <3>1 DEF OneSource
    <3> QED BY <2>2, <3>1, <3>2 DEF RssiInv
  <2>6. CASE Program
    <3>1. /\ RowStep /\ RssiState'
          /\ steps'.lna = steps'.mixer /\ steps'.diff = -1 /\ steps'.lna = "stored"
      BY <2>3, <2>6, ProgramFacts
    <3>2. OneSource'
      BY <2>4, <3>1 DEF OneSource
    <3> QED BY <2>2, <3>1, <3>2 DEF RssiInv
  <2> QED BY <1>4, <2>5, <2>6 DEF Recalibrate
<1>5. ASSUME RssiStep, steps' = steps, ask' = ask, rxLo' \in RssiLos,
             heard'.now \in Strengths, DOMAIN heard' = {"now", "of", "read"}
      PROVE  RssiState' /\ OneSource' /\ RowStep
  <2>1. passed \in 0..MaxRetunes - 1 /\ passed' = passed + 1
    BY <1>5 DEF RssiStep
  <2>2. RssiState'
    BY <1>1, <1>5, <2>1 DEF RssiState, BeforeSetUp
  <2>3. OneSource'
    BY <1>1, <1>5, <2>1 DEF OneSource
  <2> QED BY <1>5, <2>1, <2>2, <2>3, SameSteps DEF BeforeTables
<1>6. ASSUME NEW r \in KiloRates, ChangeBbClock(r)
      PROVE  RssiInv' /\ RowStep
  BY <1>1, <1>5, <1>6 DEF ChangeBbClock, RssiInv, RssiState, ReadsItsOwn
<1>7. ASSUME NEW f \in RssiLos, TuneRxLo(f)
      PROVE  RssiInv' /\ RowStep
  BY <1>1, <1>5, <1>7 DEF TuneRxLo, RssiInv, RssiState, ReadsItsOwn
<1>8. ASSUME NEW ch \in 0..1, ReadRssi(ch)
      PROVE  RssiInv' /\ RowStep
  <2>1. PICK ant \in 1..2 : ant = Antenna(ch)
    BY <1>8 DEF ReadRssi
  <2>2. PICK s \in [symbol : [1..2 -> 0..511], preamble : [1..2 -> 0..511]] : s = heard.now /\ s \in Strengths
    BY <1>1, RssiAssumption DEF RssiState
  <2>3. heard' = [heard EXCEPT !.of = ant, !.read = Unpacked(ant, RssiBytes(s))]
    BY <1>8, <2>1, <2>2 DEF ReadRssi
  <2>4. heard'.now = s /\ heard'.of = ant /\ DOMAIN heard' = {"now", "of", "read"}
        /\ heard'.read = Unpacked(ant, RssiBytes(s))
    BY <1>1, <2>2, <2>3 DEF RssiState
  <2>5. heard'.read = [symbol |-> 25 * s.symbol[ant], preamble |-> 25 * s.preamble[ant]]
    BY <2>4, UnpackedFacts
  <2>6. ReadsItsOwn'
    BY <2>4, <2>5 DEF ReadsItsOwn
  <2>7. RssiState' /\ OneSource' /\ RowStep
    BY <1>1, <1>5, <1>8, <2>2, <2>4 DEF ReadRssi, RssiState
  <2> QED BY <2>6, <2>7 DEF RssiInv
<1>9. ASSUME NEW ch \in 0..1, ReadTxRssi(ch)
      PROVE  RssiInv' /\ RowStep
  <2>1. PICK s \in [symbol : [1..2 -> 0..511], preamble : [1..2 -> 0..511]] : s = heard.now /\ s \in Strengths
    BY <1>1, RssiAssumption DEF RssiState
  <2>2. PICK n \in 0..511 : n = s.symbol[ch + 1]
    <3>1. s.symbol \in [1..2 -> 0..511] /\ ch + 1 \in 1..2
      OBVIOUS
    <3> QED BY <3>1
  <2>3. heard' = [heard EXCEPT !.of = ch + 3, !.read = ((25 * n) \div 100) * 1000 + ((25 * n) % 100)]
    BY <1>9, <2>1, <2>2 DEF ReadTxRssi
  <2>4. heard'.now = s /\ heard'.of = ch + 3 /\ DOMAIN heard' = {"now", "of", "read"}
        /\ heard'.read = ((25 * n) \div 100) * 1000 + ((25 * n) % 100)
    BY <1>1, <2>1, <2>3 DEF RssiState
  <2>5. heard'.read \div 1000 = n \div 4
    BY <2>4, WholeDbs
  <2>6. heard'.of - 2 = ch + 1 /\ heard'.of \notin 1..2
    BY <2>4
  <2>7. ReadsItsOwn'
    <3>1. heard'.now.symbol[heard'.of - 2] = n
      BY <2>2, <2>4, <2>6
    <3>2. heard'.read \div 1000 = heard'.now.symbol[heard'.of - 2] \div 4
      BY <2>5, <3>1
    <3> QED BY <2>6, <3>2 DEF ReadsItsOwn
  <2>8. RssiState' /\ OneSource' /\ RowStep
    BY <1>1, <1>5, <1>9, <2>1, <2>4 DEF ReadTxRssi, RssiState
  <2> QED BY <2>7, <2>8 DEF RssiInv
<1> QED BY <1>2, <1>3, <1>4, <1>6, <1>7, <1>8, <1>9 DEF RssiNext

\* The lengths that a piece can have.
Lengths == {1, 2, 4, 8, 16, 32, 64, 128, 256, 512, 1024, 2048, 4096, 8192, 16384}

\* The powers of two a piece may last.
LEMMA PowerFacts ==
  /\ \A e \in 0..14 : Power(e) \in Lengths
  /\ \A e \in 0..13 : Power(e + 1) = 2 * Power(e)
  /\ Power(0) = 1 /\ Power(14) = 16384
<1>1. /\ Power(0) = 1 /\ Power(1) = 2 /\ Power(2) = 4 /\ Power(3) = 8 /\ Power(4) = 16 /\ Power(5) = 32
      /\ Power(6) = 64 /\ Power(7) = 128 /\ Power(8) = 256 /\ Power(9) = 512 /\ Power(10) = 1024
      /\ Power(11) = 2048 /\ Power(12) = 4096 /\ Power(13) = 8192 /\ Power(14) = 16384
  BY DEF Power
<1>2. ASSUME NEW e \in 0..14 PROVE Power(e) \in Lengths
  BY <1>1 DEF Lengths
<1>3. ASSUME NEW e \in 0..13 PROVE Power(e + 1) = 2 * Power(e)
  <2>1. \/ e = 0 \/ e = 1 \/ e = 2 \/ e = 3 \/ e = 4 \/ e = 5 \/ e = 6 \/ e = 7 \/ e = 8 \/ e = 9 \/ e = 10
        \/ e = 11 \/ e = 12 \/ e = 13
    OBVIOUS
  <2>2. /\ 0 + 1 = 1 /\ 1 + 1 = 2 /\ 2 + 1 = 3 /\ 3 + 1 = 4 /\ 4 + 1 = 5 /\ 5 + 1 = 6 /\ 6 + 1 = 7 /\ 7 + 1 = 8
        /\ 8 + 1 = 9 /\ 9 + 1 = 10 /\ 10 + 1 = 11 /\ 11 + 1 = 12 /\ 12 + 1 = 13 /\ 13 + 1 = 14
    OBVIOUS
  <2> QED BY <1>1, <2>1, <2>2
<1> QED BY <1>1, <1>2, <1>3

\* A shorter piece is half as long or less.
LEMMA LengthsDouble ==
  ASSUME NEW p \in Lengths, NEW q \in Lengths, p < q
  PROVE  2 * p <= q
BY DEF Lengths

\* The first power that what is left holds.
LEMMA LargestFacts ==
  ASSUME NEW n \in Nat \ {0}
  PROVE  \E e \in 0..14 : /\ Largest(n) = e /\ Power(e) <= n /\ (n < 32768 => n < 2 * Power(e))
<1> DEFINE Fits(e) == Power(e) <= n /\ (e = LongestE \/ n < Power(e + 1))
<1>1. \E e \in 0..LongestE : Fits(e)
  <2>1. CASE 16384 <= n
    <3>1. Fits(14) /\ 14 \in 0..LongestE
      BY <2>1, PowerFacts DEF LongestE
    <3> QED BY <3>1
  <2>2. CASE n < 16384
    <3> DEFINE S == {e \in 0..14 : n < Power(e)}
    <3>1. 14 \in S /\ S \in SUBSET Nat
      BY <2>2, PowerFacts
    <3>2. PICK m \in S : \A x \in S : m <= x
      BY <3>1, Least
    <3>3. m \in 1..14 /\ n < Power(m)
      BY <3>2, PowerFacts
    <3>4. m - 1 \in 0..14 /\ m - 1 \notin S /\ m - 1 + 1 = m
      BY <3>2, <3>3
    <3>5. Power(m - 1) \in Int
      BY <3>4, PowerFacts DEF Lengths
    <3>6. Power(m - 1) <= n
      BY <3>4, <3>5
    <3>7. Fits(m - 1) /\ m - 1 \in 0..LongestE
      BY <3>3, <3>4, <3>6 DEF LongestE
    <3> QED BY <3>7
  <2> QED BY <2>1, <2>2
<1>2. Largest(n) \in 0..LongestE /\ Fits(Largest(n))
  BY <1>1 DEF Largest
<1>3. PICK e \in 0..14 : e = Largest(n)
  BY <1>2 DEF LongestE
<1>4. Power(e) <= n /\ (e = 14 \/ n < Power(e + 1))
  BY <1>2, <1>3 DEF LongestE
<1>5. n < 32768 => n < 2 * Power(e)
  <2>1. CASE e = 14
    BY <2>1, PowerFacts
  <2>2. CASE e # 14
    <3>1. e \in 0..13 /\ n < Power(e + 1)
      BY <1>4, <2>2
    <3>2. Power(e + 1) = 2 * Power(e)
      BY <3>1, PowerFacts
    <3> QED BY <3>1, <3>2
  <2> QED BY <2>1, <2>2
<1> QED BY <1>3, <1>4, <1>5

\* Of what is left, a piece: none of nothing, else a power of two and more than half.
Piece(left, p) ==
  IF left = 0 THEN p = 0
  ELSE p \in Lengths /\ p <= left /\ p = Power(Largest(left)) /\ (left < 32768 => left < 2 * p)

\* A piece is the largest power of two that fits.
LEMMA TakenFacts ==
  ASSUME NEW n \in Nat
  PROVE  \E p \in 0..n : Taken(n) = p /\ Piece(n, p)
<1>1. CASE n = 0
  BY <1>1 DEF Taken, Piece
<1>2. CASE n # 0
  <2>1. PICK e \in 0..14 : Largest(n) = e /\ Power(e) <= n /\ (n < 32768 => n < 2 * Power(e))
    BY <1>2, LargestFacts
  <2>2. PICK p \in Lengths : p = Power(e)
    BY PowerFacts
  <2>3. Taken(n) = p
    BY <1>2, <2>1, <2>2 DEF Taken
  <2>4. p \in 0..n
    BY <2>1, <2>2 DEF Lengths
  <2>5. Piece(n, p)
    BY <1>2, <2>1, <2>2 DEF Piece
  <2> QED BY <2>3, <2>4, <2>5
<1> QED BY <1>1, <1>2

\* A duration of n in four pieces, with r left.
Pieces(n, p1, p2, p3, p4, r) ==
  /\ Piece(n, p1) /\ Piece(n - p1, p2) /\ Piece(n - p1 - p2, p3) /\ Piece(n - p1 - p2 - p3, p4)
  /\ p1 + p2 + p3 + p4 + r = n

\* The four pieces, and what they leave.
LEMMA UnfilledFacts ==
  ASSUME NEW n \in Nat \ {0}
  PROVE  \E p1, p2, p3, p4, r \in Nat :
           /\ Unfilled(n) = <<n, n - p1, n - p1 - p2, n - p1 - p2 - p3, r>>
           /\ Pieces(n, p1, p2, p3, p4, r)
<1>1. PICK p1 \in 0..n : Taken(n) = p1 /\ Piece(n, p1)
  BY TakenFacts
<1>2. PICK a \in Nat : a = n - p1
  OBVIOUS
<1>3. PICK p2 \in 0..a : Taken(a) = p2 /\ Piece(a, p2)
  BY TakenFacts
<1>4. PICK b \in Nat : b = a - p2
  OBVIOUS
<1>5. PICK p3 \in 0..b : Taken(b) = p3 /\ Piece(b, p3)
  BY TakenFacts
<1>6. PICK c \in Nat : c = b - p3
  OBVIOUS
<1>7. PICK p4 \in 0..c : Taken(c) = p4 /\ Piece(c, p4)
  BY TakenFacts
<1>8. PICK r \in Nat : r = c - p4
  OBVIOUS
<1>9. Unfilled(n) = <<n, a, b, c, r>>
  BY <1>1, <1>2, <1>3, <1>4, <1>5, <1>6, <1>7, <1>8 DEF Unfilled
<1>10. a = n - p1 /\ b = n - p1 - p2 /\ c = n - p1 - p2 - p3 /\ p1 + p2 + p3 + p4 + r = n
  BY <1>2, <1>4, <1>6, <1>8
<1> QED BY <1>1, <1>3, <1>5, <1>7, <1>9, <1>10 DEF Pieces

-----------------------------------------------------------------------------

\* A share w of 255 for a piece of p out of d, to within a half.
Share(w, p, d) == 2 * (w * d) <= 510 * p + d /\ 510 * p <= 2 * (w * d) + d /\ (p = 0 => w = 0)

ShareOf(w, p, d) == DivRound(255 * p, d) = w /\ Share(w, p, d)

\* The weight of a piece is its share of 255, rounded.
LEMMA ShareFacts ==
  ASSUME NEW d \in Nat \ {0}, NEW p \in 0..d
  PROVE  \E w \in 0..255 : ShareOf(w, p, d)
<1>1. PICK h \in Nat : h = d \div 2 /\ 2 * h <= d /\ d <= 2 * h + 1
  OBVIOUS
<1>2. PICK x \in Nat : x = 255 * p
  OBVIOUS
<1>3. PICK w \in Nat, t \in 0..(d - 1) : (x + h) \div d = w /\ x + h = d * w + t
  BY DivFacts
<1>4. DivRound(255 * p, d) = w
  BY <1>1, <1>2, <1>3 DEF DivRound
<1>5. PICK m \in Nat : m = d * w /\ m = w * d
  OBVIOUS
<1>6. 2 * m <= 510 * p + d /\ 510 * p <= 2 * m + d
  BY <1>1, <1>2, <1>3, <1>5
<1>7. p = 0 => w = 0
  <2> SUFFICES ASSUME p = 0, 1 <= w PROVE FALSE
    OBVIOUS
  <2>1. d * 1 <= d * w
    BY Times
  <2> QED BY <1>1, <1>2, <1>3, <2>1
<1>8. w <= 255
  <2>1. d * w < d * 255 + d
    BY <1>1, <1>2, <1>3
  <2> QED BY <2>1, CancelFactor
<1>9. Share(w, p, d)
  BY <1>5, <1>6, <1>7 DEF Share
<1> QED BY <1>4, <1>8, <1>9 DEF ShareOf

\* What the last piece is given: the rest of 255, within three halves of its share; a rest
\* of -1 wraps.
Others(u, v, w, z, a, b, c, q, d) ==
  /\ d \in Nat \ {0} /\ q \in 1..d /\ a \in 0..d /\ b \in 0..d /\ c \in 0..d /\ a + b + c + q = d
  /\ u \in 0..255 /\ v \in 0..255 /\ w \in 0..255 /\ z \in 0..255
  /\ Share(u, a, d) /\ Share(v, b, d) /\ Share(w, c, d)

Remainder(s, z, q, d) ==
  /\ (z - (s + z - 255)) % 256 = IF s = 256 THEN 255 ELSE 255 - s
  /\ s # 256 => /\ 2 * ((255 - s) * d) <= 510 * q + 3 * d
                /\ 510 * q <= 2 * ((255 - s) * d) + 3 * d

\* The correction of the last piece, and how far it may go.
LEMMA RestFacts ==
  ASSUME NEW u, NEW v, NEW w, NEW z, NEW a, NEW b, NEW c, NEW q, NEW d,
         Others(u, v, w, z, a, b, c, q, d)
  PROVE  \E s \in 0..256 : s = u + v + w /\ Remainder(s, z, q, d)
<1>0. /\ d \in Nat \ {0} /\ q \in 1..d /\ a \in 0..d /\ b \in 0..d /\ c \in 0..d /\ a + b + c + q = d
      /\ u \in 0..255 /\ v \in 0..255 /\ w \in 0..255 /\ z \in 0..255
      /\ Share(u, a, d) /\ Share(v, b, d) /\ Share(w, c, d)
  BY DEF Others
<1>1. PICK s \in Nat : s = u + v + w
  BY <1>0
<1>2. PICK m \in Nat : m = s * d /\ m = u * d + v * d + w * d
  BY <1>0, <1>1
<1>3. 2 * m <= 510 * (a + b + c) + 3 * d /\ 510 * (a + b + c) <= 2 * m + 3 * d
  <2>1. PICK x \in Nat, y \in Nat, t \in Nat : x = u * d /\ y = v * d /\ t = w * d
    BY <1>0
  <2> QED BY <1>0, <1>2, <2>1 DEF Share
<1>4. s <= 256
  <2>1. d * s < d * 256 + d
    <3>1. m = d * s
      BY <1>0, <1>2
    <3> QED BY <1>0, <1>3, <3>1
  <2> QED BY <1>0, <2>1, CancelFactor
<1>5. (z - (s + z - 255)) = 255 - s
  BY <1>0, <1>4
<1>6. (255 - s) % 256 = IF s = 256 THEN 255 ELSE 255 - s
  BY <1>0, <1>4
<1>7. (255 - s) * d = 255 * d - m
  BY <1>0, <1>2, <1>4
<1>8. PICK k \in Int : k = (255 - s) * d
  BY <1>0, <1>4
<1>9. 2 * k <= 510 * q + 3 * d /\ 510 * q <= 2 * k + 3 * d
  BY <1>0, <1>3, <1>7, <1>8
<1>10. (z - (s + z - 255)) % 256 = IF s = 256 THEN 255 ELSE 255 - s
  BY <1>0, <1>5, <1>6
<1>11. 2 * ((255 - s) * d) <= 510 * q + 3 * d /\ 510 * q <= 2 * ((255 - s) * d) + 3 * d
  BY <1>0, <1>8, <1>9
<1>12. Remainder(s, z, q, d)
  BY <1>0, <1>10, <1>11 DEF Remainder
<1> QED BY <1>0, <1>1, <1>4, <1>12

\* A weight w is within three halves of the share of a piece p, unless it is the rest of -1.
Near(w, p, d) ==
  /\ p = 0 => w = 0
  /\ w < 255 => 2 * (w * d) <= 510 * p + 3 * d /\ 510 * p <= 2 * (w * d) + 3 * d

\* The weights of four pieces: each is near its share, and is its share but for the last.
Weighed(w1, w2, w3, w4, p1, p2, p3, p4) ==
  LET d == p1 + p2 + p3 + p4
  IN  /\ (w1 + w2 + w3 + w4) % 256 = 255
      /\ Near(w1, p1, d) /\ Near(w2, p2, d) /\ Near(w3, p3, d) /\ Near(w4, p4, d)
      /\ p2 # 0 => Share(w1, p1, d)
      /\ p3 # 0 => Share(w2, p2, d)
      /\ p4 # 0 => Share(w3, p3, d)

\* A share is within half a step.
LEMMA ShareIsNear ==
  ASSUME NEW d \in Nat, NEW p \in Nat, NEW w \in Nat, Share(w, p, d)
  PROVE  Near(w, p, d)
<1>1. PICK m \in Nat : m = w * d
  OBVIOUS
<1> QED BY <1>1 DEF Share, Near

\* The rest that the last piece is given, after the shares of the others.
Rest(x, s, q, d) == (s + x) % 256 = 255 /\ Near(x, q, d)

\* So is the last one, up to the other three's rounding, as the register holds it.
LEMMA RestIsNear ==
  ASSUME NEW u, NEW v, NEW w, NEW z, NEW a, NEW b, NEW c, NEW q, NEW d,
         Others(u, v, w, z, a, b, c, q, d)
  PROVE  \E x \in 0..255 : (z - (u + v + w + z - 255)) % 256 = x /\ Rest(x, u + v + w, q, d)
<1>0. /\ d \in Nat \ {0} /\ q \in 1..d /\ a \in 0..d /\ b \in 0..d /\ c \in 0..d /\ a + b + c + q = d
      /\ u \in 0..255 /\ v \in 0..255 /\ w \in 0..255 /\ z \in 0..255
      /\ Share(u, a, d) /\ Share(v, b, d) /\ Share(w, c, d)
  BY DEF Others
<1>1. PICK s \in 0..256 : s = u + v + w /\ Remainder(s, z, q, d)
  BY RestFacts
<1>2. CASE s = 256
  <2>1. (256 + 255) % 256 = 255
    BY <1>0
  <2>2. Near(255, q, d)
    BY <1>0 DEF Near
  <2>3. (z - (u + v + w + z - 255)) % 256 = 255
    BY <1>0, <1>1, <1>2 DEF Remainder
  <2>4. (u + v + w + 255) % 256 = 255
    BY <1>0, <1>1, <1>2, <2>1
  <2> QED BY <1>0, <1>1, <2>2, <2>3, <2>4 DEF Rest
<1>3. CASE s # 256
  <2>1. PICK x \in 0..255 : x = 255 - s
    BY <1>0, <1>3
  <2>2. (u + v + w + x) % 256 = 255
    BY <1>0, <1>1, <2>1
  <2>3. Near(x, q, d)
    BY <1>0, <1>1, <1>3, <2>1 DEF Near, Remainder
  <2>4. (z - (u + v + w + z - 255)) % 256 = x
    BY <1>0, <1>1, <1>3, <2>1 DEF Remainder
  <2> QED BY <1>0, <1>1, <2>2, <2>3, <2>4 DEF Rest
<1> QED BY <1>2, <1>3

\* The weights of a duration's pieces.
Allotted(w1, w2, w3, w4, n, p1, p2, p3, p4, r) ==
  /\ Weights(<<n, n - p1, n - p1 - p2, n - p1 - p2 - p3, r>>) = [i \in 1..4 |-> <<w1, w2, w3, w4>>[i]]
  /\ Weighed(w1, w2, w3, w4, p1, p2, p3, p4)

\* The four weights of four pieces.
LEMMA WeightsFacts ==
  ASSUME NEW n \in Nat \ {0}, NEW p1 \in Nat, NEW p2 \in Nat, NEW p3 \in Nat, NEW p4 \in Nat, NEW r \in Nat,
         Pieces(n, p1, p2, p3, p4, r)
  PROVE  \E w1, w2, w3, w4 \in 0..255 : Allotted(w1, w2, w3, w4, n, p1, p2, p3, p4, r)
<1>1. PICK a \in Nat, b \in Nat, c \in Nat :
        a = n - p1 /\ b = n - p1 - p2 /\ c = n - p1 - p2 - p3 /\ c = p4 + r /\ b = p3 + c /\ a = p2 + b
  BY DEF Pieces
<1>2. PICK d \in Nat \ {0} : d = n - r /\ d = p1 + p2 + p3 + p4 /\ p1 > 0
  BY DEF Pieces, Piece, Lengths
<1>3. /\ a = 0 <=> p2 = 0
      /\ b = 0 <=> p3 = 0
      /\ c = 0 <=> p4 = 0
  BY <1>1 DEF Pieces, Piece, Lengths
<1>4. p1 \in 0..d /\ p2 \in 0..d /\ p3 \in 0..d /\ p4 \in 0..d
  BY <1>2
<1>5. PICK u1 \in 0..255 : ShareOf(u1, p1, d)
  BY <1>4, ShareFacts
<1>6. PICK u2 \in 0..255 : ShareOf(u2, p2, d)
  BY <1>4, ShareFacts
<1>7. PICK u3 \in 0..255 : ShareOf(u3, p3, d)
  BY <1>4, ShareFacts
<1>15. PICK u4 \in 0..255 : ShareOf(u4, p4, d)
  BY <1>4, ShareFacts
<1> DEFINE L == <<n, a, b, c, r>>
<1>8. /\ Shares(L) = [i \in 1..4 |-> DivRound(255 * (L[i] - L[i + 1]), L[1] - L[5])]
      /\ L[1] = n /\ L[2] = a /\ L[3] = b /\ L[4] = c /\ L[5] = r
      /\ n - a = p1 /\ a - b = p2 /\ b - c = p3 /\ c - r = p4
  BY <1>1 DEF Shares
<1>9. Shares(L)[1] = u1 /\ Shares(L)[2] = u2 /\ Shares(L)[3] = u3 /\ Shares(L)[4] = u4
  <2>1. 1 + 1 = 2 /\ 2 + 1 = 3 /\ 3 + 1 = 4 /\ 4 + 1 = 5
    OBVIOUS
  <2> HIDE DEF L
  <2> QED BY <1>2, <1>5, <1>6, <1>7, <1>8, <1>15, <2>1 DEF ShareOf
<1> DEFINE off == u1 + u2 + u3 + u4 - 255
<1>10. Weights(L) = [i \in 1..4 |-> IF L[i] > 0 /\ (i = 4 \/ L[i + 1] = 0) THEN (Shares(L)[i] - off) % 256
                                    ELSE Shares(L)[i]]
  BY <1>9 DEF Weights
<1> HIDE DEF L
<1> HIDE DEF off
<1>11. PICK v1, v2, v3, v4 :
         /\ v1 = IF a = 0 THEN (u1 - off) % 256 ELSE u1
         /\ v2 = IF a > 0 /\ b = 0 THEN (u2 - off) % 256 ELSE u2
         /\ v3 = IF b > 0 /\ c = 0 THEN (u3 - off) % 256 ELSE u3
         /\ v4 = IF c > 0 THEN (u4 - off) % 256 ELSE u4
  OBVIOUS
<1>16. Weights(L) = [i \in 1..4 |-> <<v1, v2, v3, v4>>[i]]
  <2>1. 1 + 1 = 2 /\ 2 + 1 = 3 /\ 3 + 1 = 4 /\ n > 0 /\ a \in Nat /\ b \in Nat /\ c \in Nat
    OBVIOUS
  <2>2. ASSUME NEW i \in 1..4
        PROVE  (IF L[i] > 0 /\ (i = 4 \/ L[i + 1] = 0) THEN (Shares(L)[i] - off) % 256 ELSE Shares(L)[i])
               = <<v1, v2, v3, v4>>[i]
    <3>1. CASE i = 1
      BY <1>8, <1>9, <1>11, <2>1, <3>1
    <3>2. CASE i = 2
      BY <1>8, <1>9, <1>11, <2>1, <3>2
    <3>3. CASE i = 3
      BY <1>8, <1>9, <1>11, <2>1, <3>3
    <3>4. CASE i = 4
      BY <1>8, <1>9, <1>11, <2>1, <3>4
    <3> QED BY <3>1, <3>2, <3>3, <3>4
  <2> QED BY <1>10, <2>2
<1>12. Near(u1, p1, d) /\ Near(u2, p2, d) /\ Near(u3, p3, d) /\ Near(u4, p4, d)
  BY <1>4, <1>5, <1>6, <1>7, <1>15, ShareIsNear DEF ShareOf
<1>13. (p2 = 0 => u2 = 0) /\ (p3 = 0 => u3 = 0) /\ (p4 = 0 => u4 = 0)
  BY <1>6, <1>7, <1>15 DEF ShareOf, Share
<1>14. (p2 = 0 => p3 = 0) /\ (p3 = 0 => p4 = 0)
  BY <1>1, <1>3
<1>17. Share(u1, p1, d) /\ Share(u2, p2, d) /\ Share(u3, p3, d) /\ Share(u4, p4, d)
  BY <1>5, <1>6, <1>7, <1>15 DEF ShareOf
<1>18. v1 \in 0..255 /\ v2 \in 0..255 /\ v3 \in 0..255 /\ v4 \in 0..255 /\ Weighed(v1, v2, v3, v4, p1, p2, p3, p4)
  <2>1. CASE c > 0
    <3>1. p2 # 0 /\ p3 # 0 /\ a > 0 /\ b > 0 /\ p4 \in 1..d
      BY <1>2, <1>3, <1>4, <1>14, <2>1
    <3>2. v1 = u1 /\ v2 = u2 /\ v3 = u3 /\ v4 = (u4 - off) % 256
      BY <1>11, <2>1, <3>1
    <3>3. Others(u1, u2, u3, u4, p1, p2, p3, p4, d)
      BY <1>2, <1>4, <1>17, <3>1 DEF Others
    <3>4. PICK x \in 0..255 : (u4 - (u1 + u2 + u3 + u4 - 255)) % 256 = x /\ Rest(x, u1 + u2 + u3, p4, d)
      BY <3>3, RestIsNear
    <3>5. u4 - (u1 + u2 + u3 + u4 - 255) = u4 - off
      BY DEF off
    <3>6. v4 = x
      BY <3>2, <3>4, <3>5
    <3>7. Near(v4, p4, d) /\ (v1 + v2 + v3 + v4) % 256 = 255
      BY <3>2, <3>4, <3>6 DEF Rest
    <3> QED BY <1>2, <1>12, <1>17, <3>1, <3>2, <3>6, <3>4, <3>7 DEF Weighed
  <2>2. CASE b > 0 /\ c = 0
    <3>1. p2 # 0 /\ p4 = 0 /\ a > 0 /\ p3 \in 1..d
      BY <1>2, <1>3, <1>4, <1>14, <2>2
    <3>2. v1 = u1 /\ v2 = u2 /\ v3 = (u3 - off) % 256 /\ v4 = u4
      BY <1>11, <2>2, <3>1
    <3>3. Others(u1, u2, u4, u3, p1, p2, p4, p3, d)
      BY <1>2, <1>4, <1>17, <3>1 DEF Others
    <3>4. PICK x \in 0..255 : (u3 - (u1 + u2 + u4 + u3 - 255)) % 256 = x /\ Rest(x, u1 + u2 + u4, p3, d)
      BY <3>3, RestIsNear
    <3>5. u3 - (u1 + u2 + u4 + u3 - 255) = u3 - off
      BY DEF off
    <3>6. v3 = x
      BY <3>2, <3>4, <3>5
    <3>7. Near(v3, p3, d) /\ (v1 + v2 + v3 + v4) % 256 = 255
      BY <3>2, <3>4, <3>6 DEF Rest
    <3> QED BY <1>2, <1>12, <1>17, <3>1, <3>2, <3>6, <3>4, <3>7 DEF Weighed
  <2>3. CASE a > 0 /\ b = 0
    <3>1. c = 0 /\ p3 = 0 /\ p4 = 0 /\ p2 \in 1..d
      BY <1>2, <1>3, <1>4, <1>14, <2>3
    <3>2. v1 = u1 /\ v2 = (u2 - off) % 256 /\ v3 = u3 /\ v4 = u4
      BY <1>11, <2>3, <3>1
    <3>3. Others(u1, u3, u4, u2, p1, p3, p4, p2, d)
      BY <1>2, <1>4, <1>17, <3>1 DEF Others
    <3>4. PICK x \in 0..255 : (u2 - (u1 + u3 + u4 + u2 - 255)) % 256 = x /\ Rest(x, u1 + u3 + u4, p2, d)
      BY <3>3, RestIsNear
    <3>5. u2 - (u1 + u3 + u4 + u2 - 255) = u2 - off
      BY DEF off
    <3>6. v2 = x
      BY <3>2, <3>4, <3>5
    <3>7. Near(v2, p2, d) /\ (v1 + v2 + v3 + v4) % 256 = 255
      BY <3>2, <3>4, <3>6 DEF Rest
    <3> QED BY <1>2, <1>12, <1>17, <3>1, <3>2, <3>6, <3>4, <3>7 DEF Weighed
  <2>4. CASE a = 0
    <3>1. b = 0 /\ c = 0 /\ p2 = 0 /\ p3 = 0 /\ p4 = 0 /\ p1 \in 1..d
      BY <1>2, <1>3, <1>4, <1>14, <2>4
    <3>2. v1 = (u1 - off) % 256 /\ v2 = u2 /\ v3 = u3 /\ v4 = u4
      BY <1>11, <2>4, <3>1
    <3>3. Others(u2, u3, u4, u1, p2, p3, p4, p1, d)
      BY <1>2, <1>4, <1>17, <3>1 DEF Others
    <3>4. PICK x \in 0..255 : (u1 - (u2 + u3 + u4 + u1 - 255)) % 256 = x /\ Rest(x, u2 + u3 + u4, p1, d)
      BY <3>3, RestIsNear
    <3>5. u1 - (u2 + u3 + u4 + u1 - 255) = u1 - off
      BY DEF off
    <3>6. v1 = x
      BY <3>2, <3>4, <3>5
    <3>7. Near(v1, p1, d) /\ (v1 + v2 + v3 + v4) % 256 = 255
      BY <3>2, <3>4, <3>6 DEF Rest
    <3> QED BY <1>2, <1>12, <1>17, <3>1, <3>2, <3>6, <3>4, <3>7 DEF Weighed
  <2>5. a \in Nat /\ b \in Nat /\ c \in Nat /\ (a = 0 => b = 0) /\ (b = 0 => c = 0)
    BY <1>3, <1>14
  <2> QED BY <2>1, <2>2, <2>3, <2>4, <2>5
<1>19. Allotted(v1, v2, v3, v4, n, p1, p2, p3, p4, r)
  BY <1>1, <1>16, <1>18 DEF L, Allotted
<1> QED BY <1>18, <1>19

-----------------------------------------------------------------------------

\* Of two weights the later piece's compares with the earlier's as the pieces do.
LEMMA Proportion ==
  ASSUME NEW d \in Nat \ {0}, NEW p \in 1..d, NEW q \in 1..d, NEW w \in 0..255, NEW v \in 1..254,
         Share(w, p, d), Near(v, q, d)
  PROVE  2 * (w * q - v * p) \in -(3 * p + q)..(3 * p + q)
<1>1. PICK a \in Nat, b \in Nat : a = w * d /\ b = v * d
  OBVIOUS
<1>2. /\ 2 * a <= 510 * p + d /\ 510 * p <= 2 * a + d
      /\ 2 * b <= 510 * q + 3 * d /\ 510 * q <= 2 * b + 3 * d
  BY <1>1 DEF Share, Near
<1>3. PICK A \in Nat, B \in Nat, m \in Nat, x \in Nat, y \in Nat :
        A = q * a /\ B = p * b /\ m = p * q /\ x = q * d /\ y = p * d
  OBVIOUS
<1>4. 2 * A <= 510 * m + x /\ 510 * m <= 2 * A + x
  <2>1. q * (2 * a) <= q * (510 * p + d) /\ q * (510 * p) <= q * (2 * a + d)
    BY <1>1, <1>2, Times
  <2>2. q * (2 * a) = 2 * A /\ q * (510 * p + d) = 510 * m + x /\ q * (510 * p) = 510 * m /\ q * (2 * a + d) = 2 * A + x
    BY <1>3
  <2> QED BY <2>1, <2>2
<1>5. 2 * B <= 510 * m + 3 * y /\ 510 * m <= 2 * B + 3 * y
  <2>1. p * (2 * b) <= p * (510 * q + 3 * d) /\ p * (510 * q) <= p * (2 * b + 3 * d)
    BY <1>1, <1>2, Times
  <2>2. p * (2 * b) = 2 * B /\ p * (510 * q + 3 * d) = 510 * m + 3 * y /\ p * (510 * q) = 510 * m /\ p * (2 * b + 3 * d) = 2 * B + 3 * y
    BY <1>3
  <2> QED BY <2>1, <2>2
<1>6. PICK k \in Int, t \in Nat : k = w * q - v * p /\ t = 3 * p + q
  OBVIOUS
<1>7. d * k = A - B /\ d * t = 3 * y + x
  <2>1. d * (w * q) = A /\ d * (v * p) = B
    BY <1>1, <1>3
  <2>2. d * (w * q - v * p) = d * (w * q) - d * (v * p)
    OBVIOUS
  <2>3. d * (3 * p + q) = 3 * (p * d) + q * d
    OBVIOUS
  <2> QED BY <1>3, <1>6, <2>1, <2>2, <2>3
<1>8. d * (2 * k) < d * t + d /\ d * (-(2 * k)) < d * t + d
  <2>1. d * (2 * k) = 2 * (d * k) /\ d * (-(2 * k)) = -(2 * (d * k))
    OBVIOUS
  <2> QED BY <1>4, <1>5, <1>7, <2>1
<1>9. 2 * k <= t /\ -(2 * k) <= t
  BY <1>8, CancelFactor
<1> QED BY <1>6, <1>9

\* The piece counts that has a weight.
Counted(w, p) == IF w > 0 THEN p ELSE 0

\* A piece without a weight is a short one.
LEMMA NoWeight ==
  ASSUME NEW d \in Nat, NEW p \in Nat, Near(0, p, d)
  PROVE  510 * p <= 3 * d
<1>1. 0 * d = 0
  OBVIOUS
<1> QED BY <1>1 DEF Near

\* The pieces that count make up what was asked but for less than a sixteenth.
Counts(t, n, w1, w2, w3, w4, p1, p2, p3, p4) ==
  /\ t = Counted(w1, p1) + Counted(w2, p2) + Counted(w3, p3) + Counted(w4, p4)
  /\ n < 32768 => (n - t) * 16 < n
  /\ n - p1 = 0 => t = n /\ w2 = 0 /\ w3 = 0 /\ w4 = 0

\* The time that the pieces with a weight measure.
LEMMA CountedFacts ==
  ASSUME NEW n \in Nat \ {0}, NEW p1 \in Nat, NEW p2 \in Nat, NEW p3 \in Nat, NEW p4 \in Nat, NEW r \in Nat,
         Pieces(n, p1, p2, p3, p4, r),
         NEW w1 \in 0..255, NEW w2 \in 0..255, NEW w3 \in 0..255, NEW w4 \in 0..255,
         Weighed(w1, w2, w3, w4, p1, p2, p3, p4)
  PROVE  \E t \in 0..n : Counts(t, n, w1, w2, w3, w4, p1, p2, p3, p4)
<1>1. PICK a \in Nat, b \in Nat, c \in Nat :
        /\ a = n - p1 /\ b = n - p1 - p2 /\ c = n - p1 - p2 - p3 /\ c = p4 + r /\ b = p3 + c /\ a = p2 + b
        /\ Piece(n, p1) /\ Piece(a, p2) /\ Piece(b, p3) /\ Piece(c, p4)
  BY DEF Pieces
<1>2. PICK d \in Nat : d = p1 + p2 + p3 + p4 /\ d + r = n
  BY DEF Pieces
<1>3. /\ w1 = 0 => 510 * p1 <= 3 * d
      /\ w2 = 0 => 510 * p2 <= 3 * d
      /\ w3 = 0 => 510 * p3 <= 3 * d
      /\ w4 = 0 => 510 * p4 <= 3 * d
      /\ p2 = 0 => w2 = 0
      /\ p3 = 0 => w3 = 0
      /\ p4 = 0 => w4 = 0
      /\ (w1 + w2 + w3 + w4) % 256 = 255
  BY <1>2, NoWeight DEF Weighed, Near
<1>4. /\ (a = 0 <=> p2 = 0) /\ (b = 0 <=> p3 = 0) /\ (c = 0 <=> p4 = 0) /\ p1 > 0
  BY <1>1 DEF Piece, Lengths
<1>5. PICK t \in 0..n : t = Counted(w1, p1) + Counted(w2, p2) + Counted(w3, p3) + Counted(w4, p4)
  BY <1>2 DEF Counted
<1>6. ASSUME n < 32768 PROVE (n - t) * 16 < n
  <2>1. /\ n < 2 * p1
        /\ p2 # 0 => a < 2 * p2
        /\ p3 # 0 => b < 2 * p3
        /\ p4 # 0 => c < 2 * p4
    BY <1>1, <1>4, <1>6 DEF Piece
  <2>2. /\ p2 # 0 => p1 \in Lengths /\ p2 \in Lengths
        /\ p3 # 0 => p2 \in Lengths /\ p3 \in Lengths
        /\ p4 # 0 => p3 \in Lengths /\ p4 \in Lengths
    BY <1>1, <1>4 DEF Piece
  <2>3. /\ p2 # 0 => 2 * p2 <= p1
        /\ p3 # 0 => 2 * p3 <= p2
        /\ p4 # 0 => 2 * p4 <= p3
    <3>1. ASSUME p2 # 0 PROVE 2 * p2 <= p1
      BY <1>1, <1>4, <2>1, <2>2, <3>1, LengthsDouble
    <3>2. ASSUME p3 # 0 PROVE 2 * p3 <= p2
      BY <1>1, <1>4, <2>1, <2>2, <3>2, LengthsDouble
    <3>3. ASSUME p4 # 0 PROVE 2 * p4 <= p3
      BY <1>1, <1>4, <2>1, <2>2, <3>3, LengthsDouble
    <3> QED BY <3>1, <3>2, <3>3
  <2>4. PICK c1 \in Nat, c2 \in Nat, c3 \in Nat, c4 \in Nat :
          /\ c1 = Counted(w1, p1) /\ c2 = Counted(w2, p2) /\ c3 = Counted(w3, p3) /\ c4 = Counted(w4, p4)
    BY DEF Counted
  <2>5. /\ c1 = p1 \/ (c1 = 0 /\ 510 * p1 <= 3 * d)
        /\ c2 = p2 \/ (c2 = 0 /\ 510 * p2 <= 3 * d)
        /\ c3 = p3 \/ (c3 = 0 /\ 510 * p3 <= 3 * d)
        /\ c4 = p4 \/ (c4 = 0 /\ 510 * p4 <= 3 * d)
    BY <1>3, <2>4 DEF Counted
  <2>6. t = c1 + c2 + c3 + c4
    BY <1>5, <2>4
  <2>7. CASE p4 # 0
    BY <1>1, <1>2, <1>4, <2>1, <2>3, <2>5, <2>6, <2>7
  <2>8. CASE p4 = 0
    BY <1>1, <1>2, <1>4, <2>1, <2>3, <2>5, <2>6, <2>8
  <2> QED BY <2>7, <2>8
<1>7. ASSUME n - p1 = 0 PROVE t = n /\ w2 = 0 /\ w3 = 0 /\ w4 = 0
  <2>1. p2 = 0 /\ p3 = 0 /\ p4 = 0 /\ p1 = n
    BY <1>1, <1>4, <1>7
  <2>2. w2 = 0 /\ w3 = 0 /\ w4 = 0 /\ w1 # 0
    BY <1>3, <2>1
  <2> QED BY <1>5, <2>1, <2>2 DEF Counted
<1>8. Counts(t, n, w1, w2, w3, w4, p1, p2, p3, p4)
  BY <1>5, <1>6, <1>7 DEF Counts
<1> QED BY <1>8

-----------------------------------------------------------------------------

\* The weights of a set-up add up, and each piece has its proportion.
AddsUp(s) == Total(s.weight) % 256 = 255

Proportional(s) ==
  \A i, j \in 1..4 : i < j /\ s.weight[j] \in 1..254 =>
    LET p == Power(s.dur[i])
        q == Power(s.dur[j])
    IN  2 * (s.weight[i] * q - s.weight[j] * p) \in -(3 * p + q)..(3 * p + q)

\* A duration asked for is a number of samples, and not none.
LEMMA SomeSamples ==
  ASSUME NEW rate \in KiloRates, ask.rssi \in RssiAsks
  PROVE  Samples(ask.rssi.duration, rate) \in Nat \ {0}
<1>1. PICK n \in Nat \ {0}, k \in Nat : n = ask.rssi.duration /\ k = rate /\ 500 <= k
  BY RssiAssumption
<1>2. n * k >= 500
  <2>1. k * 1 <= k * n
    BY <1>1, Times
  <2> QED BY <1>1, <2>1
<1>3. DivRound(n * k, 1000) \in Nat \ {0}
  <2>1. PICK m \in Nat : m = n * k /\ m >= 500
    BY <1>2
  <2>2. (m + 1000 \div 2) \div 1000 \in Nat \ {0}
    BY <2>1
  <2> QED BY <2>1, <2>2 DEF DivRound
<1> QED BY <1>1, <1>3 DEF Samples

\* ad9361_rssi_setup() for a rate.
LEMMA SetUpFacts ==
  ASSUME NEW rate \in KiloRates, ask.rssi \in RssiAsks
  PROVE  /\ AddsUp(SetUpFor(rate)) /\ Proportional(SetUpFor(rate))
         /\ Measures(SetUpFor(rate), Samples(ask.rssi.duration, rate))
<1>1. PICK n \in Nat \ {0} : n = Samples(ask.rssi.duration, rate)
  BY SomeSamples
<1>2. PICK p1 \in Nat, p2 \in Nat, p3 \in Nat, p4 \in Nat, r \in Nat :
        /\ Unfilled(n) = <<n, n - p1, n - p1 - p2, n - p1 - p2 - p3, r>>
        /\ Pieces(n, p1, p2, p3, p4, r)
  BY UnfilledFacts
<1>3. PICK w1 \in 0..255, w2 \in 0..255, w3 \in 0..255, w4 \in 0..255 :
        Allotted(w1, w2, w3, w4, n, p1, p2, p3, p4, r)
  BY <1>2, WeightsFacts, ZenonT(60)
<1>4. PICK s : s = SetUpFor(rate)
  OBVIOUS
<1>5. /\ s.weight = [i \in 1..4 |-> <<w1, w2, w3, w4>>[i]]
      /\ s.dur = [i \in 1..4 |-> IF Unfilled(n)[i] > 0 THEN Largest(Unfilled(n)[i]) ELSE 0]
      /\ s.single = (Unfilled(n)[2] = 0)
  <2>1. Weights(Unfilled(n)) = [i \in 1..4 |-> <<w1, w2, w3, w4>>[i]]
    BY <1>2, <1>3 DEF Allotted
  <2> QED BY <1>1, <1>4, <2>1 DEF SetUpFor
<1>6. s.weight[1] = w1 /\ s.weight[2] = w2 /\ s.weight[3] = w3 /\ s.weight[4] = w4
  BY <1>5
<1>7. PICK q1, q2, q3, q4 : /\ q1 = Power(s.dur[1]) /\ q2 = Power(s.dur[2])
                           /\ q3 = Power(s.dur[3]) /\ q4 = Power(s.dur[4])
  OBVIOUS
<1>8. (p1 # 0 => q1 = p1) /\ (p2 # 0 => q2 = p2) /\ (p3 # 0 => q3 = p3) /\ (p4 # 0 => q4 = p4)
  <2>1. PICK a \in Nat, b \in Nat, c \in Nat : a = n - p1 /\ b = n - p1 - p2 /\ c = n - p1 - p2 - p3
    BY <1>2 DEF Pieces
  <2>2. Unfilled(n) = <<n, a, b, c, r>>
    BY <1>2, <2>1
  <2>3. /\ s.dur[1] = (IF n > 0 THEN Largest(n) ELSE 0) /\ s.dur[2] = (IF a > 0 THEN Largest(a) ELSE 0)
        /\ s.dur[3] = (IF b > 0 THEN Largest(b) ELSE 0) /\ s.dur[4] = (IF c > 0 THEN Largest(c) ELSE 0)
    BY <1>5, <2>2
  <2>4. Piece(n, p1) /\ Piece(a, p2) /\ Piece(b, p3) /\ Piece(c, p4)
    BY <1>2, <2>1 DEF Pieces
  <2> QED BY <1>7, <2>3, <2>4 DEF Piece
<1>9. (p1 = 0 => w1 = 0) /\ (p2 = 0 => w2 = 0) /\ (p3 = 0 => w3 = 0) /\ (p4 = 0 => w4 = 0)
  BY <1>3 DEF Allotted, Weighed, Near
<1>10. AddsUp(s)
  BY <1>3, <1>6 DEF Allotted, AddsUp, Total, Weighed
<1>11. Measures(s, n)
  <2>1. PICK t \in 0..n : Counts(t, n, w1, w2, w3, w4, p1, p2, p3, p4)
    <3>1. Weighed(w1, w2, w3, w4, p1, p2, p3, p4)
      BY <1>3 DEF Allotted
    <3> QED BY <1>2, <3>1, CountedFacts, ZenonT(60)
  <2>2. Total([i \in 1..4 |-> IF s.weight[i] > 0 THEN Power(s.dur[i]) ELSE 0]) = t
    <3>1. /\ (IF w1 > 0 THEN q1 ELSE 0) = Counted(w1, p1) /\ (IF w2 > 0 THEN q2 ELSE 0) = Counted(w2, p2)
          /\ (IF w3 > 0 THEN q3 ELSE 0) = Counted(w3, p3) /\ (IF w4 > 0 THEN q4 ELSE 0) = Counted(w4, p4)
      BY <1>8, <1>9 DEF Counted
    <3>2. Total([i \in 1..4 |-> IF s.weight[i] > 0 THEN Power(s.dur[i]) ELSE 0])
          = (IF w1 > 0 THEN q1 ELSE 0) + (IF w2 > 0 THEN q2 ELSE 0) + (IF w3 > 0 THEN q3 ELSE 0)
            + (IF w4 > 0 THEN q4 ELSE 0)
      BY <1>6, <1>7 DEF Total
    <3> QED BY <2>1, <3>1, <3>2 DEF Counts
  <2>3. s.single => n - p1 = 0
    <3>1. PICK a, b, c : a = n - p1 /\ b = n - p1 - p2 /\ c = n - p1 - p2 - p3
      OBVIOUS
    <3>2. Unfilled(n) = <<n, a, b, c, r>>
      BY <1>2, <3>1
    <3>3. s.single => Unfilled(n)[2] = 0
      BY <1>5, Zenon
    <3> QED BY <3>1, <3>2, <3>3
  <2>4. 2 * Power(LongestE) = 32768
    BY PowerFacts DEF LongestE
  <2>5. ASSUME NEW i \in 2..4, s.single PROVE s.weight[i] = 0
    BY <1>6, <2>1, <2>3, <2>5 DEF Counts
  <2>6. t <= n /\ (n < 2 * Power(LongestE) => (n - t) * 16 < n) /\ (s.single => t = n)
    BY <2>1, <2>3, <2>4 DEF Counts
  <2> QED BY <2>2, <2>5, <2>6 DEF Measures
<1>12. Proportional(s)
  <2>1. PICK d \in Nat : d = p1 + p2 + p3 + p4
    OBVIOUS
  <2>2. /\ Near(w2, p2, d) /\ Near(w3, p3, d) /\ Near(w4, p4, d)
        /\ p2 # 0 => Share(w1, p1, d)
        /\ p3 # 0 => Share(w2, p2, d)
        /\ p4 # 0 => Share(w3, p3, d)
    BY <1>3, <2>1 DEF Allotted, Weighed
  <2>3. p1 # 0 /\ (p3 # 0 => p2 # 0) /\ (p4 # 0 => p3 # 0)
    <3>1. PICK a \in Nat, b \in Nat, c \in Nat :
            /\ a = n - p1 /\ b = n - p1 - p2 /\ c = n - p1 - p2 - p3 /\ c = p4 + r /\ b = p3 + c /\ a = p2 + b
            /\ Piece(n, p1) /\ Piece(a, p2) /\ Piece(b, p3)
      BY <1>2 DEF Pieces
    <3> QED BY <3>1 DEF Piece, Lengths
  <2> DEFINE Good(w, v, p, q) == v \in 1..254 => 2 * (w * q - v * p) \in -(3 * p + q)..(3 * p + q)
  <2>4. Good(w1, w2, q1, q2)
    <3> SUFFICES ASSUME w2 \in 1..254 PROVE Good(w1, w2, q1, q2)
      OBVIOUS
    <3>1. p1 \in 1..d /\ p2 \in 1..d /\ d \in Nat \ {0} /\ q1 = p1 /\ q2 = p2
      BY <1>8, <1>9, <2>1, <2>3
    <3>2. Share(w1, p1, d) /\ Near(w2, p2, d)
      BY <1>9, <2>2, <2>3
    <3> HIDE DEF Good
    <3>3. 2 * (w1 * p2 - w2 * p1) \in -(3 * p1 + p2)..(3 * p1 + p2)
      BY <3>1, <3>2, Proportion, ZenonT(60)
    <3> QED BY <3>1, <3>3 DEF Good
  <2>5. Good(w1, w3, q1, q3)
    <3> SUFFICES ASSUME w3 \in 1..254 PROVE Good(w1, w3, q1, q3)
      OBVIOUS
    <3>1. p1 \in 1..d /\ p3 \in 1..d /\ d \in Nat \ {0} /\ q1 = p1 /\ q3 = p3
      BY <1>8, <1>9, <2>1, <2>3
    <3>2. Share(w1, p1, d) /\ Near(w3, p3, d)
      BY <1>9, <2>2, <2>3
    <3> HIDE DEF Good
    <3>3. 2 * (w1 * p3 - w3 * p1) \in -(3 * p1 + p3)..(3 * p1 + p3)
      BY <3>1, <3>2, Proportion, ZenonT(60)
    <3> QED BY <3>1, <3>3 DEF Good
  <2>6. Good(w1, w4, q1, q4)
    <3> SUFFICES ASSUME w4 \in 1..254 PROVE Good(w1, w4, q1, q4)
      OBVIOUS
    <3>1. p1 \in 1..d /\ p4 \in 1..d /\ d \in Nat \ {0} /\ q1 = p1 /\ q4 = p4
      BY <1>8, <1>9, <2>1, <2>3
    <3>2. Share(w1, p1, d) /\ Near(w4, p4, d)
      BY <1>9, <2>2, <2>3
    <3> HIDE DEF Good
    <3>3. 2 * (w1 * p4 - w4 * p1) \in -(3 * p1 + p4)..(3 * p1 + p4)
      BY <3>1, <3>2, Proportion, ZenonT(60)
    <3> QED BY <3>1, <3>3 DEF Good
  <2>7. Good(w2, w3, q2, q3)
    <3> SUFFICES ASSUME w3 \in 1..254 PROVE Good(w2, w3, q2, q3)
      OBVIOUS
    <3>1. p2 \in 1..d /\ p3 \in 1..d /\ d \in Nat \ {0} /\ q2 = p2 /\ q3 = p3
      BY <1>8, <1>9, <2>1, <2>3
    <3>2. Share(w2, p2, d) /\ Near(w3, p3, d)
      BY <1>9, <2>2, <2>3
    <3> HIDE DEF Good
    <3>3. 2 * (w2 * p3 - w3 * p2) \in -(3 * p2 + p3)..(3 * p2 + p3)
      BY <3>1, <3>2, Proportion, ZenonT(60)
    <3> QED BY <3>1, <3>3 DEF Good
  <2>8. Good(w2, w4, q2, q4)
    <3> SUFFICES ASSUME w4 \in 1..254 PROVE Good(w2, w4, q2, q4)
      OBVIOUS
    <3>1. p2 \in 1..d /\ p4 \in 1..d /\ d \in Nat \ {0} /\ q2 = p2 /\ q4 = p4
      BY <1>8, <1>9, <2>1, <2>3
    <3>2. Share(w2, p2, d) /\ Near(w4, p4, d)
      BY <1>9, <2>2, <2>3
    <3> HIDE DEF Good
    <3>3. 2 * (w2 * p4 - w4 * p2) \in -(3 * p2 + p4)..(3 * p2 + p4)
      BY <3>1, <3>2, Proportion, ZenonT(60)
    <3> QED BY <3>1, <3>3 DEF Good
  <2>9. Good(w3, w4, q3, q4)
    <3> SUFFICES ASSUME w4 \in 1..254 PROVE Good(w3, w4, q3, q4)
      OBVIOUS
    <3>1. p3 \in 1..d /\ p4 \in 1..d /\ d \in Nat \ {0} /\ q3 = p3 /\ q4 = p4
      BY <1>8, <1>9, <2>1, <2>3
    <3>2. Share(w3, p3, d) /\ Near(w4, p4, d)
      BY <1>9, <2>2, <2>3
    <3> HIDE DEF Good
    <3>3. 2 * (w3 * p4 - w4 * p3) \in -(3 * p3 + p4)..(3 * p3 + p4)
      BY <3>1, <3>2, Proportion, ZenonT(60)
    <3> QED BY <3>1, <3>3 DEF Good
  <2> HIDE DEF Good
  <2>10. ASSUME NEW i \in 1..4, NEW j \in 1..4, i < j
        PROVE  Good(s.weight[i], s.weight[j], Power(s.dur[i]), Power(s.dur[j]))
    BY <1>6, <1>7, <2>4, <2>5, <2>6, <2>7, <2>8, <2>9, <2>10
  <2> QED BY <2>10 DEF Proportional, Good
<1> QED BY <1>1, <1>4, <1>10, <1>11, <1>12

\* What the registers of the measurement are besides.
WeightsInv ==
  /\ kHz \in KiloRates /\ WeightsTotal /\ TimeStands
  /\ DOMAIN rssi = {"dur", "weight", "delay", "wait", "mode", "start", "single"}
  /\ DOMAIN rssi.dur = 1..4

\* What a set-up or a change of the clock measures from then on.
SetUpStep ==
  SetsUp => Measures(rssi', Samples(ask.rssi.duration, kHz')) /\ Proportional(rssi')

TimeStep == SetsUp => Measures(rssi', Samples(ask.rssi.duration, kHz'))

ShareStep == SetsUp => Proportional(rssi')

\* Every step keeps the weights, and a set-up measures what was asked.
LEMMA WeightsNextKeeps ==
  ASSUME RssiState, WeightsInv, RssiNext
  PROVE  WeightsInv' /\ SetUpStep
<1>1. /\ passed \in BeforeSetUp..MaxRetunes /\ MaxRetunes \in Nat /\ ask.rssi \in RssiAsks
      /\ kHz \in KiloRates /\ WeightsTotal
      /\ DOMAIN rssi = {"dur", "weight", "delay", "wait", "mode", "start", "single"}
      /\ DOMAIN rssi.dur = 1..4
  BY RssiAssumption DEF RssiState, WeightsInv
<1> ask' = ask
  BY DEF RssiNext, SetUpRssi, FillTables, Recalibrate, ChangeBbClock, TuneRxLo, ReadRssi, ReadTxRssi
<1>2. ASSUME NEW rate \in KiloRates, rssi' = SetUpFor(rate), kHz' = rate
      PROVE  WeightsInv' /\ SetUpStep
  <2>1. /\ AddsUp(rssi') /\ Proportional(rssi') /\ Measures(rssi', Samples(ask.rssi.duration, kHz'))
    BY <1>1, <1>2, SetUpFacts
  <2>2. /\ DOMAIN rssi' = {"dur", "weight", "delay", "wait", "mode", "start", "single"}
        /\ DOMAIN rssi'.dur = 1..4
    BY <1>2 DEF SetUpFor
  <2>3. WeightsTotal'
    BY <2>1 DEF AddsUp, WeightsTotal
  <2>4. TimeStands'
    BY <2>1 DEF TimeStands, Samples
  <2> QED BY <1>2, <2>1, <2>2, <2>3, <2>4 DEF WeightsInv, SetUpStep
<1>3. ASSUME kHz' = kHz, passed' # BeforeTables, passed # BeforeSetUp,
             UNCHANGED rssi \/ Calibrate
      PROVE  WeightsInv' /\ SetUpStep
  <2>1. /\ rssi'.weight = rssi.weight /\ DOMAIN rssi' = DOMAIN rssi
        /\ DOMAIN rssi'.dur = 1..4
    BY <1>1, <1>3 DEF Calibrate
  <2>2. TimeStands'
    <3>1. CASE UNCHANGED rssi
      BY <1>3, <3>1 DEF WeightsInv, TimeStands, CalibrationsOwn, Samples
    <3>2. CASE Calibrate
      <4>1. CalibrationsOwn'
        BY <1>1, <3>2 DEF Calibrate, CalibrationsOwn
      <4> QED BY <4>1 DEF TimeStands
    <3> QED BY <1>3, <3>1, <3>2
  <2> QED BY <1>1, <1>3, <2>1, <2>2 DEF WeightsInv, WeightsTotal, SetUpStep, SetsUp
<1>5. CASE SetUpRssi
  BY <1>1, <1>2, <1>5 DEF SetUpRssi
<1>6. CASE FillTables
  BY <1>3, <1>6 DEF FillTables, Program, BeforeSetUp, BeforeTables
<1>7. ASSUME RssiStep
      PROVE  passed' # BeforeTables /\ passed # BeforeSetUp
  BY <1>7 DEF RssiStep, BeforeSetUp, BeforeTables
<1>8. CASE Recalibrate
  BY <1>3, <1>7, <1>8 DEF Recalibrate, Program
<1>9. ASSUME NEW r \in KiloRates, ChangeBbClock(r)
      PROVE  WeightsInv' /\ SetUpStep
  <2>1. CASE ask.rssi.samples
    BY <1>1, <1>7, <1>9, <2>1
       DEF ChangeBbClock, Updated, WeightsInv, WeightsTotal, TimeStands, CalibrationsOwn, Samples,
           SetUpStep, SetsUp
  <2>2. CASE ~ask.rssi.samples
    BY <1>2, <1>9, <2>2 DEF ChangeBbClock, Updated
  <2> QED BY <2>1, <2>2
<1>10. ASSUME NEW f \in RssiLos, TuneRxLo(f)
       PROVE  WeightsInv' /\ SetUpStep
  BY <1>3, <1>7, <1>10 DEF TuneRxLo
<1>11. ASSUME NEW ch \in 0..1, ReadRssi(ch) \/ ReadTxRssi(ch)
       PROVE  WeightsInv' /\ SetUpStep
  BY <1>3, <1>7, <1>11 DEF ReadRssi, ReadTxRssi
<1> QED BY <1>5, <1>6, <1>8, <1>9, <1>10, <1>11 DEF RssiNext

\* The weights of a measurement add up in the registers and are in proportion to its
\* pieces, it takes the time asked for at the clock in force, the gain words and the errors come from one
\* source and are those of the range of the LO, and a reading is its antenna's own.
THEOREM StrengthIsMeasured ==
  RssiSpec => RssiInForce
<1>1. RssiInit => RssiInv /\ WeightsInv
  <2> SUFFICES ASSUME RssiInit PROVE RssiInv /\ WeightsInv
    OBVIOUS
  <2>1. RssiState
    BY RssiAssumption DEF RssiInit, RssiState, BeforeSetUp, Origins
  <2>2. OneSource
    BY DEF RssiInit, OneSource
  <2>3. ReadsItsOwn
    BY DEF RssiInit, ReadsItsOwn
  <2>4. WeightsInv
    BY DEF RssiInit, WeightsInv, WeightsTotal, TimeStands, NoPieces
  <2> QED BY <2>1, <2>2, <2>3, <2>4 DEF RssiInv
<1>2. RssiInv /\ WeightsInv /\ [RssiNext]_rssiVars
        => RssiInv' /\ WeightsInv' /\ [RowStep]_rssiVars /\ [SetUpStep]_rssiVars
  <2>1. ASSUME RssiInv, WeightsInv, UNCHANGED rssiVars PROVE RssiInv' /\ WeightsInv'
    BY <2>1 DEF rssiVars, RssiInv, RssiState, OneSource, ReadsItsOwn, WeightsInv, WeightsTotal,
         TimeStands, CalibrationsOwn, Samples
  <2>2. ASSUME RssiInv, WeightsInv, RssiNext PROVE WeightsInv' /\ SetUpStep
    BY <2>2, WeightsNextKeeps DEF RssiInv
  <2> QED BY <2>1, <2>2, RssiNextKeeps
<1>3. RssiInv /\ WeightsInv => OneSource /\ ReadsItsOwn /\ WeightsTotal /\ TimeStands
  BY DEF RssiInv, WeightsInv
<1>4. RssiSpec => /\ []OneSource /\ []ReadsItsOwn /\ []WeightsTotal /\ []TimeStands
                  /\ [][RowStep]_rssiVars /\ [][SetUpStep]_rssiVars
  BY <1>1, <1>2, <1>3, PTL DEF RssiSpec
<1>5. [SetUpStep]_rssiVars => [TimeStep]_rssiVars /\ [ShareStep]_rssiVars
  BY DEF SetUpStep, TimeStep, ShareStep
<1> QED BY <1>4, <1>5, PTL DEF RssiInForce, TimeIsKept, InProportion, RowCovers, RowStep, TimeStep, ShareStep, Proportional
=============================================================================
