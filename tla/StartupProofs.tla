--------------------------- MODULE StartupProofs ---------------------------
(***************************************************************************)
(* What the start-up and the handles it allocates guarantee, for any       *)
(* archives, manifests and parts, whichever steps or allocations fail and  *)
(* wherever earlier processes were killed.                                 *)
(***************************************************************************)
EXTENDS Bringup, Handles, FiniteSetTheorems, TLAPS

(***************************************************************************)
(* Bring-up.                                                               *)
(***************************************************************************)
\* The pulse leaves TXNRX high before anything talks to the chip.
PulseDone ==
  /\ step = "release" => hasCtrl /\ ctrlPins = Low
  /\ step = "steady"  => hasCtrl /\ ctrlPins = [Low EXCEPT !.resetb = 1]
  /\ step \in {"id", "init", "reset", "setup", "rate", "listen", "up"} /\ hasCtrl =>
       ctrlPins.txnrx = 1

\* A chip whose pin is low is in reset from then on, whichever writes fail: set-up
\* then finds no product id.
LowIsReset ==
  step \in {"release", "steady", "id", "init", "reset", "setup"} /\ hasCtrl =>
    (ctrlPins.resetb = 0 => ad9361 = "reset")

\* Behind the set-up the chip is ready.
SetUpDone ==
  step \in {"rate", "listen", "up"} =>
    ad9361 = "ready" /\ (hasCtrl => ctrlPins.resetb = 1)

\* `cold' is decided before the bitstream is loaded.
ColdIsEmpty == step = "load" /\ cold => pl = None

BringupInv ==
  /\ BringupTypeOK /\ PulseDone /\ LowIsReset /\ SetUpDone
  /\ ColdIsEmpty /\ ColdStartLoads

\* A power-up or a new archive starts from nothing.
LEMMA BringupStarts == BringupInit => BringupInv
<1> SUFFICES ASSUME BringupInit PROVE BringupInv
  OBVIOUS
<1>1. Low \in [resetb : {0, 1}, txnrx : {0, 1}]
  BY DEF Low
<1>2. BringupTypeOK
  BY <1>1, BringupAssumption DEF BringupInit, BringupTypeOK, MainSteps
<1>3. PulseDone /\ LowIsReset /\ SetUpDone /\ ColdIsEmpty /\ ColdStartLoads
  BY DEF BringupInit, PulseDone, LowIsReset, SetUpDone, ColdIsEmpty, ColdStartLoads
<1>4. QED
  BY <1>2, <1>3 DEF BringupInv

\* What a write of the reset register leaves.
LEMMA DriveLeaves ==
  ASSUME BringupTypeOK, NEW p \in [resetb : {0, 1}, txnrx : {0, 1}], Drive(p)
  PROVE  /\ ctrlPins' = p /\ ctrlPins' \in [resetb : {0, 1}, txnrx : {0, 1}]
         /\ ad9361' \in {"reset", "fresh", "partial", "ready"}
         /\ p.resetb = 0 => ad9361' = "reset"
  BY DEF Drive, Follows, BringupTypeOK

\* No step of main(), kill, deployment or power-up breaks the invariant.
LEMMA BringupKept == ASSUME BringupInv, [BringupNext]_bringupVars PROVE BringupInv'
<1> USE BringupAssumption DEF BringupInv, BringupTypeOK, MainSteps, boardVars, Goes, Fails
<1>1. Low \in [resetb : {0, 1}, txnrx : {0, 1}] /\ Low.resetb = 0
  BY DEF Low
<1>2. CASE Start
  BY <1>2 DEF Start, PulseDone, LowIsReset, SetUpDone, ColdIsEmpty, ColdStartLoads
<1>3. CASE LoadBitstream
  <2>1. step' \in {"overlay", "down"} /\ UNCHANGED <<deployed, hasCtrl, overlay, serving, cold>>
    BY <1>3 DEF LoadBitstream
  <2>2. pl' \in Archives \cup {None} /\ (step' = "overlay" /\ cold => pl' = deployed)
    BY <1>3 DEF LoadBitstream, ColdIsEmpty
  <2>3. ctrlPins' \in [resetb : {0, 1}, txnrx : {0, 1}]
          /\ ad9361' \in {"reset", "fresh", "partial", "ready"}
    BY <1>1, <1>3, DriveLeaves DEF LoadBitstream
  <2>4. QED
    BY <2>1, <2>2, <2>3 DEF PulseDone, LowIsReset, SetUpDone, ColdIsEmpty, ColdStartLoads
<1>4. CASE ApplyOverlay
  BY <1>4 DEF ApplyOverlay, PulseDone, LowIsReset, SetUpDone, ColdIsEmpty, ColdStartLoads
<1>5. CASE Pulse
  <2>1. UNCHANGED <<boardVars, serving, cold>>
          /\ step \in {"hold", "release", "steady"}
          /\ step' \in {"release", "steady", "id", "down"}
    BY <1>5 DEF Pulse
  <2>2. /\ ctrlPins' \in [resetb : {0, 1}, txnrx : {0, 1}]
        /\ ad9361' \in {"reset", "fresh", "partial", "ready"}
    <3>1. [Low EXCEPT !.resetb = 1] \in [resetb : {0, 1}, txnrx : {0, 1}]
            /\ Steady \in [resetb : {0, 1}, txnrx : {0, 1}]
      BY DEF Low, Steady
    <3>2. QED
      BY <1>1, <1>5, <3>1, DriveLeaves DEF Pulse
  <2>3. PulseDone' /\ LowIsReset'
    <3>1. CASE step = "hold"
      BY <1>1, <1>5, <3>1, DriveLeaves DEF Pulse, PulseDone, LowIsReset
    <3>2. CASE step = "release"
      BY <1>5, <3>2 DEF Pulse, PulseDone, LowIsReset, Drive, Low
    <3>3. CASE step = "steady"
      BY <1>5, <3>3 DEF Pulse, PulseDone, LowIsReset, Drive, Steady
    <3>4. QED
      BY <2>1, <3>1, <3>2, <3>3
  <2>4. SetUpDone' /\ ColdIsEmpty' /\ ColdStartLoads'
    BY <2>1 DEF SetUpDone, ColdIsEmpty, ColdStartLoads
  <2>5. QED
    BY <2>1, <2>2, <2>3, <2>4
<1>6. CASE ReadId
  BY <1>6 DEF ReadId, PulseDone, LowIsReset, SetUpDone, ColdIsEmpty, ColdStartLoads
<1>7. CASE InitTransceiver \/ ResetChip
  <2>1. /\ UNCHANGED <<boardVars, serving, cold>>
        /\ \/ step = "init" /\ step' = "reset"
           \/ step = "reset" /\ step' = "setup"
    BY <1>7 DEF InitTransceiver, ResetChip
  <2>2. CASE UNCHANGED ctrlPins
    <3>1. ad9361' = ad9361 \/ (~ hasCtrl /\ ad9361' = "fresh")
            \/ (\E v \in {0, 1} : Drive([ctrlPins EXCEPT !.resetb = v]))
      BY <1>7 DEF InitTransceiver, ResetChip, SetResetb
    <3>2. ad9361' \in {"reset", "fresh", "partial", "ready"}
            /\ (hasCtrl /\ ctrlPins.resetb = 0 => ad9361' = "reset")
      BY <2>1, <2>2, <3>1 DEF LowIsReset, Drive, Follows
    <3>3. QED
      BY <2>1, <2>2, <3>2 DEF PulseDone, LowIsReset, SetUpDone, ColdIsEmpty, ColdStartLoads
  <2>3. CASE hasCtrl /\ \E v \in {0, 1} : Drive([ctrlPins EXCEPT !.resetb = v])
    <3>1. PICK v \in {0, 1} : Drive([ctrlPins EXCEPT !.resetb = v])
      BY <2>3
    <3>2. [ctrlPins EXCEPT !.resetb = v] \in [resetb : {0, 1}, txnrx : {0, 1}]
            /\ [ctrlPins EXCEPT !.resetb = v].txnrx = ctrlPins.txnrx
      OBVIOUS
    <3>3. /\ ctrlPins' \in [resetb : {0, 1}, txnrx : {0, 1}]
          /\ ad9361' \in {"reset", "fresh", "partial", "ready"}
          /\ ctrlPins'.resetb = 0 => ad9361' = "reset"
          /\ ctrlPins'.txnrx = ctrlPins.txnrx
      BY <3>1, <3>2, DriveLeaves
    <3>4. QED
      BY <2>1, <3>3 DEF PulseDone, LowIsReset, SetUpDone, ColdIsEmpty, ColdStartLoads
  <2>4. QED
    BY <1>7, <2>2, <2>3 DEF InitTransceiver, ResetChip, SetResetb
<1>8. CASE SetUp
  BY <1>8 DEF SetUp, PulseDone, LowIsReset, SetUpDone, ColdIsEmpty, ColdStartLoads
<1>9. CASE Rate \/ Listen
  <2>1. UNCHANGED <<boardVars, ctrlPins, ad9361, cold>> /\ serving' \in BOOLEAN
          /\ step \in {"rate", "listen"} /\ step' \in {"listen", "up"}
    BY <1>9 DEF Rate, Listen
  <2>2. QED
    BY <2>1 DEF PulseDone, LowIsReset, SetUpDone, ColdIsEmpty, ColdStartLoads
<1>10. CASE EndsOrKilled
  BY <1>10 DEF EndsOrKilled, PulseDone, LowIsReset, SetUpDone, ColdIsEmpty, ColdStartLoads
<1>11. CASE Deploy
  BY <1>11 DEF Deploy, PulseDone, LowIsReset, SetUpDone, ColdIsEmpty, ColdStartLoads
<1>12. CASE PowerUp
  <2>1. step' = "down" /\ pl' = None
    BY <1>12 DEF PowerUp
  <2>2. BringupTypeOK'
    BY <1>1, <1>12 DEF PowerUp
  <2>3. QED
    BY <2>1, <2>2 DEF PulseDone, LowIsReset, SetUpDone, ColdIsEmpty, ColdStartLoads
<1>13. CASE UNCHANGED bringupVars
  BY <1>13 DEF bringupVars, PulseDone, LowIsReset, SetUpDone, ColdIsEmpty, ColdStartLoads
<1>14. QED
  BY <1>2, <1>3, <1>4, <1>5, <1>6, <1>7, <1>8, <1>9, <1>10, <1>11, <1>12, <1>13
  DEF BringupNext

\* The invariant holds of every behaviour.
THEOREM BringupInvariance == BringupSpec => []BringupInv
<1>1. BringupInit => BringupInv
  BY BringupStarts
<1>2. BringupInv /\ [BringupNext]_bringupVars => BringupInv'
  BY BringupKept
<1>3. QED
  BY <1>1, <1>2, PTL DEF BringupSpec

\* Commands are taken only with a chip that is set up, out of reset and with TXNRX
\* high, and a cold start runs on its own archive's bitstream (main.cpp).
THEOREM BringupWorks == BringupSpec => []BroughtUp
<1>1. BringupInv => BroughtUp
  <2>1. SUFFICES ASSUME BringupInv, step = "up", hasCtrl PROVE ctrlPins = Steady
    BY DEF BringupInv, BroughtUp, UpIsReady, SetUpDone
  <2>2. ctrlPins \in [resetb : {0, 1}, txnrx : {0, 1}]
          /\ ctrlPins.resetb = 1 /\ ctrlPins.txnrx = 1
    BY <2>1 DEF BringupInv, BringupTypeOK, SetUpDone, PulseDone
  <2>3. QED
    BY <2>2 DEF Steady
<1>2. QED
  BY <1>1, BringupInvariance, PTL

(***************************************************************************)
(* Handles.                                                                *)
(***************************************************************************)
\* The parts whose SPI descriptor exists, the slaves of the bus.
Slaves == {p \in Parts2 : "spi descriptor" \in live[p]}

\* What each stage of a part has allocated.  A ready part has everything but a
\* reset pin it may not have, so that its removal finds all it frees.
StageHolds ==
  \A p \in Parts2 :
    /\ stage[p] \in {"none", "removed"} => live[p] = {}
    /\ stage[p] = "failed" => live[p] \subseteq Gpio \cup Spi
    /\ stage[p] = "ready" =>
         \E g \in {{}, Gpio} : live[p] = Own \cup g \cup Spi \cup {"clocks"}

HandlesInv ==
  /\ live \in [Parts2 -> SUBSET All] /\ stage \in [Parts2 -> {"none", "ready", "failed", "removed"}]
  /\ bus \in [exists : BOOLEAN, slaves : Nat]
  /\ misfreed = FALSE /\ StageHolds /\ BusCounts

\* One part's descriptor changes: the count of slaves follows.
LEMMA SlaveChanges ==
  ASSUME HandlesInv, NEW p \in Parts2, NEW held \in SUBSET All,
         live' = [live EXCEPT ![p] = held]
  PROVE  /\ Cardinality(Slaves) \in Nat /\ Cardinality(Slaves') \in Nat
         /\ "spi descriptor" \in held /\ "spi descriptor" \notin live[p] =>
              Cardinality(Slaves') = Cardinality(Slaves) + 1
         /\ "spi descriptor" \notin held /\ "spi descriptor" \in live[p] =>
              Cardinality(Slaves') = Cardinality(Slaves) - 1 /\ Cardinality(Slaves) > 0
         /\ ("spi descriptor" \in held <=> "spi descriptor" \in live[p]) =>
              Cardinality(Slaves') = Cardinality(Slaves)
<1>1. Slaves \subseteq Parts2 /\ IsFiniteSet(Slaves) /\ Cardinality(Slaves) \in Nat
  BY HandlesAssumption, FS_Subset, FS_CardinalityType DEF Slaves
<1>2. live'[p] = held /\ \A q \in Parts2 \ {p} : live'[q] = live[q]
  BY DEF HandlesInv
<1>3. CASE "spi descriptor" \in held /\ "spi descriptor" \notin live[p]
  <2>1. Slaves' = Slaves \cup {p} /\ p \notin Slaves
    BY <1>2, <1>3 DEF Slaves
  <2>2. Cardinality(Slaves') = Cardinality(Slaves) + 1
    BY <1>1, <2>1, FS_AddElement
  <2>3. Cardinality(Slaves') \in Nat
    BY <1>1, <2>2
  <2>4. QED
    BY <1>1, <1>3, <2>2, <2>3
<1>4. CASE "spi descriptor" \notin held /\ "spi descriptor" \in live[p]
  <2>1. Slaves' = Slaves \ {p} /\ p \in Slaves
    BY <1>2, <1>4 DEF Slaves
  <2>2. Cardinality(Slaves') = Cardinality(Slaves) - 1
    BY <1>1, <2>1, FS_RemoveElement
  <2>3. Cardinality(Slaves) # 0
    BY <1>1, <2>1, FS_EmptySet
  <2>4. Cardinality(Slaves') \in Nat /\ Cardinality(Slaves) > 0
    BY <1>1, <2>2, <2>3
  <2>5. QED
    BY <1>1, <1>4, <2>2, <2>4
<1>5. CASE "spi descriptor" \in held <=> "spi descriptor" \in live[p]
  <2>1. Slaves' = Slaves
    BY <1>2, <1>5 DEF Slaves
  <2>2. QED
    BY <1>1, <1>5, <2>1
<1>6. QED
  BY <1>3, <1>4, <1>5

\* Nothing is allocated at the start.
LEMMA HandlesStart == HandlesInit => HandlesInv
<1> SUFFICES ASSUME HandlesInit PROVE HandlesInv
  OBVIOUS
<1>1. Slaves = {}
  BY DEF HandlesInit, Slaves
<1>2. BusCounts
  <2>1. Cardinality(Slaves) = 0
    BY <1>1, FS_EmptySet
  <2>2. bus.slaves = 0
    BY DEF HandlesInit
  <2>3. bus.slaves = Cardinality(Slaves) /\ ~ (bus.slaves > 0)
    BY <2>1, <2>2
  <2>4. QED
    BY <2>3 DEF BusCounts, Slaves
<1>3. StageHolds
  BY DEF HandlesInit, StageHolds
<1>4. QED
  BY <1>2, <1>3 DEF HandlesInit, HandlesInv

\* Whatever ad9361_init() gets and whichever step of it fails.
LEMMA InitKeeps == ASSUME HandlesInv, NEW p \in Parts2, InitPart(p) PROVE HandlesInv'
<1>1. live[p] = {} /\ misfreed' = FALSE
  BY DEF InitPart, HandlesInv, StageHolds
<1>2. CASE UNCHANGED <<live, bus>> /\ stage' = [stage EXCEPT ![p] = "failed"]
  <2>1. StageHolds'
    BY <1>1, <1>2 DEF HandlesInv, StageHolds
  <2>2. QED
    BY <1>1, <1>2, <2>1 DEF HandlesInv, BusCounts
<1>3. ASSUME NEW g \in {{}, Gpio}, NEW s \in SpiGot(bus), bus' = s.bus,
             NEW held \in SUBSET All, live' = [live EXCEPT ![p] = held],
             held \cap Spi = s.own,
             \/ stage' = [stage EXCEPT ![p] = "failed"] /\ held \subseteq Gpio \cup Spi
             \/ /\ stage' = [stage EXCEPT ![p] = "ready"]
                /\ held = Own \cup g \cup Spi \cup {"clocks"}
      PROVE  HandlesInv'
  <2>1. bus \in [exists : BOOLEAN, slaves : Nat]
          /\ bus.slaves = Cardinality(Slaves) /\ (bus.slaves > 0 => bus.exists)
    BY DEF HandlesInv, BusCounts, Slaves
  <2>2. /\ bus' \in [exists : BOOLEAN, slaves : Nat]
        /\ bus'.slaves = IF s.own = {} THEN bus.slaves ELSE bus.slaves + 1
        /\ bus'.slaves > 0 => bus'.exists
        /\ s.own \in {{}, Spi}
    <3>1. Spi # {}
      BY DEF Spi
    <3>2. \/ s.own = {} /\ bus' = bus
          \/ s.own = {} /\ bus' = [bus EXCEPT !.exists = TRUE]
          \/ s.own = Spi /\ bus' = [exists |-> TRUE, slaves |-> bus.slaves + 1]
      <4>1. \/ s = [own |-> {}, bus |-> bus]
            \/ s = [own |-> {}, bus |-> [bus EXCEPT !.exists = TRUE]]
            \/ s = [own |-> Spi, bus |-> [exists |-> TRUE, slaves |-> bus.slaves + 1]]
        BY DEF SpiGot
      <4>2. bus' = s.bus
        BY <1>3
      <4>3. CASE s = [own |-> {}, bus |-> bus]
        BY <4>2, <4>3
      <4>4. CASE s = [own |-> {}, bus |-> [bus EXCEPT !.exists = TRUE]]
        BY <4>2, <4>4
      <4>5. CASE s = [own |-> Spi, bus |-> [exists |-> TRUE, slaves |-> bus.slaves + 1]]
        BY <4>2, <4>5
      <4>6. QED
        BY <4>1, <4>3, <4>4, <4>5
    <3>3. CASE s.own = {} /\ bus' = bus
      BY <2>1, <3>3
    <3>4. CASE s.own = {} /\ bus' = [bus EXCEPT !.exists = TRUE]
      BY <2>1, <3>4
    <3>5. CASE s.own = Spi /\ bus' = [exists |-> TRUE, slaves |-> bus.slaves + 1]
      BY <2>1, <3>1, <3>5
    <3>6. QED
      BY <3>2, <3>3, <3>4, <3>5
  <2>3. "spi descriptor" \in held <=> s.own # {}
    BY <1>3, <2>2 DEF Spi
  <2>4. bus'.slaves = Cardinality(Slaves')
    BY <1>1, <1>3, <2>1, <2>2, <2>3, SlaveChanges
  <2>5. StageHolds'
    BY <1>3 DEF HandlesInv, StageHolds
  <2>6. live' \in [Parts2 -> SUBSET All]
          /\ stage' \in [Parts2 -> {"none", "ready", "failed", "removed"}]
    BY <1>3 DEF HandlesInv
  <2>7. QED
    BY <1>1, <2>2, <2>4, <2>5, <2>6 DEF HandlesInv, BusCounts, Slaves
<1>4. ASSUME NEW g \in GpioGot(p), NEW s \in SpiGot(bus), bus' = s.bus,
             NEW clocks \in ClocksGot(s.own), stage' = [stage EXCEPT ![p] = "failed"],
             live' = [live EXCEPT ![p] = Failed((Own \cup g \cup s.own) \cup clocks, clocks)]
      PROVE  HandlesInv'
  <2>1. g \in {{}, Gpio} /\ s.own \in {{}, Spi} /\ clocks \subseteq {"clocks"}
    BY DEF GpioGot, SpiGot, ClocksGot
  <2>2. PICK held : held = Failed((Own \cup g \cup s.own) \cup clocks, clocks)
    OBVIOUS
  <2>3. held = g \cup s.own
    BY <2>1, <2>2 DEF Failed, Own, Gpio, Spi
  <2>4. held \in SUBSET All /\ held \subseteq Gpio \cup Spi /\ held \cap Spi = s.own
    BY <2>1, <2>3 DEF All, Gpio, Spi
  <2>5. QED
    BY <1>3, <1>4, <2>1, <2>2, <2>4
<1>5. ASSUME NEW g \in GpioGot(p), NEW s \in SpiGot(bus), bus' = s.bus, s.own # {},
             stage' = [stage EXCEPT ![p] = "ready"],
             live' = [live EXCEPT ![p] = (Own \cup g \cup s.own) \cup {"clocks"}]
      PROVE  HandlesInv'
  <2>1. g \in {{}, Gpio} /\ s.own = Spi
    BY <1>5 DEF GpioGot, SpiGot
  <2>2. PICK held : held = (Own \cup g \cup s.own) \cup {"clocks"}
    OBVIOUS
  <2>3. held \in SUBSET All /\ held \cap Spi = s.own
    BY <2>1, <2>2 DEF All, Own, Gpio, Spi
  <2>4. held = Own \cup g \cup Spi \cup {"clocks"}
    BY <2>1, <2>2
  <2>5. QED
    BY <1>3, <1>5, <2>1, <2>2, <2>3, <2>4
<1>6. QED
  BY <1>2, <1>4, <1>5 DEF InitPart

\* ad9361_remove() frees what a ready part has, all of it and no more.
LEMMA RemoveKeeps == ASSUME HandlesInv, NEW p \in Parts2, RemovePart(p) PROVE HandlesInv'
<1>1. PICK g \in {{}, Gpio} : live[p] = Own \cup g \cup Spi \cup {"clocks"}
  BY DEF RemovePart, HandlesInv, StageHolds
<1>2. Freed(p) = live[p]
  <2>1. "gpio descriptor" \in live[p] <=> g = Gpio
    BY <1>1 DEF Own, Gpio, Spi
  <2>2. Freed(p) = Own \cup {"clocks"} \cup Spi \cup g
    BY <1>1, <2>1 DEF Freed
  <2>3. QED
    BY <1>1, <2>2
<1>3. misfreed' = FALSE
  BY <1>2 DEF RemovePart, HandlesInv
<1>4. live' = [live EXCEPT ![p] = {}] /\ stage' = [stage EXCEPT ![p] = "removed"]
        /\ bus' = BusLeft(bus)
  BY <1>2 DEF RemovePart
<1>5. StageHolds'
  BY <1>4 DEF HandlesInv, StageHolds
<1>6. BusCounts' /\ bus' \in [exists : BOOLEAN, slaves : Nat]
  <2>1. "spi descriptor" \in live[p]
    BY <1>1 DEF Spi
  <2>2. Cardinality(Slaves') = Cardinality(Slaves) - 1 /\ Cardinality(Slaves) > 0
          /\ Cardinality(Slaves) \in Nat
    BY <1>4, <2>1, SlaveChanges
  <2>3. bus \in [exists : BOOLEAN, slaves : Nat] /\ bus.slaves = Cardinality(Slaves)
          /\ bus.exists
    BY <2>2 DEF HandlesInv, BusCounts, Slaves
  <2>4. bus'.slaves = bus.slaves - 1 /\ (bus'.slaves > 0 => bus'.exists)
          /\ bus' \in [exists : BOOLEAN, slaves : Nat]
    BY <1>4, <2>2, <2>3 DEF BusLeft
  <2>5. QED
    BY <2>2, <2>3, <2>4 DEF BusCounts, Slaves
<1>7. QED
  BY <1>3, <1>4, <1>5, <1>6 DEF HandlesInv

\* The invariant holds of every behaviour.
THEOREM HandlesInvariance == HandlesSpec => []HandlesInv
<1>1. HandlesInit => HandlesInv
  BY HandlesStart
<1>2. HandlesInv /\ [HandlesNext]_handlesVars => HandlesInv'
  <2>1. ASSUME HandlesInv, UNCHANGED handlesVars PROVE HandlesInv'
    BY <2>1 DEF handlesVars, HandlesInv, StageHolds, BusCounts
  <2>2. QED
    BY <2>1, InitKeeps, RemoveKeeps DEF HandlesNext
<1>3. QED
  BY <1>1, <1>2, PTL DEF HandlesSpec

\* The bus counts the SPI descriptors that exist; nothing is freed that was not
\* allocated, a removed part leaves nothing, a failed one only its GPIO and SPI
\* objects (no_os_spi.c, ad9361_api.c).
THEOREM HandlesAreBalanced == HandlesSpec => []HandlesBalanced
<1>1. HandlesInv => HandlesBalanced
  BY DEF HandlesInv, HandlesBalanced, NothingLost, StageHolds
<1>2. QED
  BY <1>1, HandlesInvariance, PTL

\* Every state is well typed: a bus never counts more slaves than there are parts.
THEOREM HandlesTyping == HandlesSpec => []HandlesTypeOK
<1>1. ASSUME HandlesInv PROVE HandlesTypeOK
  <2>1. Cardinality(Slaves) <= Cardinality(Parts2) /\ Cardinality(Parts2) \in Nat
    BY HandlesAssumption, FS_Subset, FS_CardinalityType DEF Slaves
  <2>2. bus.slaves \in 0..Cardinality(Parts2)
    <3>1. bus.slaves = Cardinality(Slaves) /\ bus.slaves \in Nat
      BY <1>1 DEF HandlesInv, BusCounts, Slaves
    <3>2. QED
      BY <2>1, <3>1
  <2>3. QED
    BY <1>1, <2>2 DEF HandlesInv, HandlesTypeOK
<1>2. QED
  BY <1>1, HandlesInvariance, PTL
=============================================================================
