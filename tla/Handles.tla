------------------------------- MODULE Handles -------------------------------
(***************************************************************************)
(* What ad9361_init() allocates and ad9361_remove() frees, through no-OS's *)
(* GPIO and SPI layers and the platform's hal_gpio.cpp and hal_spi.cpp.    *)
(* Parts share an SPI bus, which is counted.  Any allocation may fail but  *)
(* those of the clocks, whose failure ad9361_register_clocks() does not    *)
(* see; the set-up may fail after them.                                    *)
(***************************************************************************)
EXTENDS Integers, FiniteSets

CONSTANTS
  Parts2,       \* the devices: this firmware has one, no-OS allows more
  HasReset      \* the parts with a reset GPIO

ASSUME HandlesAssumption == IsFiniteSet(Parts2) /\ HasReset \subseteq Parts2

Own  == {"phy", "refin", "pdata"}
Gpio == {"gpio extra", "gpio register", "gpio descriptor"}
Spi  == {"spi descriptor", "spi device"}
All  == Own \cup Gpio \cup Spi \cup {"clocks"}

VARIABLES
  live,      \* the objects of each part that are allocated
  bus,       \* spi_table[]: whether there is a bus, and its slave_number
  stage,     \* "none", "ready" (the caller has the phy), "failed", "removed"
  misfreed   \* an object was freed that was not allocated

handlesVars == <<live, bus, stage, misfreed>>

\* Every state variable has its type: a bus has at most all parts.
HandlesTypeOK ==
  /\ live \in [Parts2 -> SUBSET All] /\ misfreed \in BOOLEAN
  /\ bus \in [exists : BOOLEAN, slaves : 0..Cardinality(Parts2)]
  /\ stage \in [Parts2 -> {"none", "ready", "failed", "removed"}]

HandlesInit ==
  /\ live = [p \in Parts2 |-> {}] /\ bus = [exists |-> FALSE, slaves |-> 0]
  /\ stage = [p \in Parts2 |-> "none"] /\ misfreed = FALSE

-----------------------------------------------------------------------------
\* hal_gpio_get(): three allocations, each failure frees the ones before it.
GpioGot(p) == IF p \in HasReset THEN {{}, Gpio} ELSE {{}}

\* Mutant: the slave is counted before the platform has made it.
SpiGot_early(b) ==
  {[own |-> o, bus |-> [exists |-> TRUE, slaves |-> b.slaves + 1]] : o \in {{}, Spi}}

\* no_os_spi_init(): the bus if there is none, hal_spi_init()'s two objects,
\* then the count.
SpiGot(b) ==
  {[own |-> {}, bus |-> b], [own |-> {}, bus |-> [b EXCEPT !.exists = TRUE]],
   [own |-> Spi, bus |-> [exists |-> TRUE, slaves |-> b.slaves + 1]]}

\* Mutant: an error of the set-up leaves the clocks.
Failed_keepsClocks(objects, clocks) == (objects \ Own) \cup clocks

\* The labels out_clk and out: the GPIO and the SPI descriptor are not removed,
\* and with the phy goes the last pointer to them.
Failed(objects, clocks) == objects \ (Own \cup clocks)

\* ad9361_register_clocks(): none without SPI, where the product id is not the
\* chip's.  A clock that cannot be allocated is not seen.
ClocksGot(spi) == IF spi = {} THEN {{}} ELSE {{}, {"clocks"}}

\* ad9361_init().  The results of getting the GPIO and the SPI are not looked
\* at.  A failed part is not initialised again: main() ends.
InitPart(p) ==
  /\ stage[p] \in {"none", "removed"}
  /\ \/ /\ stage' = [stage EXCEPT ![p] = "failed"] /\ UNCHANGED <<live, bus>>
     \/ \E g \in GpioGot(p), s \in SpiGot(bus) :
          LET got == Own \cup g \cup s.own
          IN  /\ bus' = s.bus
              /\ \/ /\ stage' = [stage EXCEPT ![p] = "failed"]
                    /\ \E clocks \in ClocksGot(s.own) :
                         live' = [live EXCEPT ![p] = Failed(got \cup clocks, clocks)]
                 \/ /\ s.own # {} /\ stage' = [stage EXCEPT ![p] = "ready"]
                    /\ live' = [live EXCEPT ![p] = got \cup {"clocks"}]
  /\ UNCHANGED misfreed

\* Mutant: the bus goes with the first slave.
BusLeft_first(b) == [exists |-> FALSE, slaves |-> IF b.slaves > 0 THEN b.slaves - 1 ELSE 0]

\* Mutant: the slave that leaves is not counted off.
BusLeft_uncounted(b) == [b EXCEPT !.exists = @ /\ b.slaves > 0]

\* no_os_spibus_remove()
BusLeft(b) ==
  LET n == IF b.slaves > 0 THEN b.slaves - 1 ELSE 0
  IN  [exists |-> b.exists /\ n > 0, slaves |-> n]

\* Mutant: a part without a reset pin has its objects freed all the same.
Freed_always(p) == All

\* What ad9361_remove() frees: no_os_gpio_remove() ignores a pin that is not there.
Freed(p) == Own \cup {"clocks"} \cup Spi \cup (IF "gpio descriptor" \in live[p] THEN Gpio ELSE {})

\* ad9361_remove(), by ~ad9361_transceiver().
RemovePart(p) ==
  /\ stage[p] = "ready" /\ stage' = [stage EXCEPT ![p] = "removed"]
  /\ misfreed' = (misfreed \/ ~ Freed(p) \subseteq live[p])
  /\ live' = [live EXCEPT ![p] = @ \ Freed(p)] /\ bus' = BusLeft(bus)

HandlesNext == \E p \in Parts2 : InitPart(p) \/ RemovePart(p)

HandlesSpec == HandlesInit /\ [][HandlesNext]_handlesVars

-----------------------------------------------------------------------------
(* Properties. *)

\* Every part that can still be used has its bus, and the bus counts the SPI
\* descriptors that exist, those a failed initialisation has left included.
BusCounts ==
  /\ bus.slaves = Cardinality({p \in Parts2 : "spi descriptor" \in live[p]})
  /\ bus.slaves > 0 => bus.exists

\* Whatever failed, nothing is freed twice or unallocated, a removed part leaves
\* nothing behind, and a failed one no more than its GPIO and SPI objects.
NothingLost ==
  /\ ~misfreed
  /\ \A p \in Parts2 : /\ stage[p] = "removed" => live[p] = {}
                       /\ stage[p] = "failed" => live[p] \subseteq Gpio \cup Spi

\* What ad9361_init() and ad9361_remove() promise of their resources.
HandlesBalanced == BusCounts /\ NothingLost
=============================================================================
