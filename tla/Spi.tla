--------------------------------- MODULE Spi ---------------------------------
(***************************************************************************)
(* From a register of the AD9361 to the kernel and back: the accessors at  *)
(* the top of ad9361.c, no_os_spi, hal_spi and the lazily opened           *)
(* spi_device; beside them the small C++ driver that reads the vendor id   *)
(* through an spi_device of its own and whose caller asks last_error().    *)
(*                                                                         *)
(* A transfer is one ioctl that reaches the chip whole or not at all; of   *)
(* several bytes the chip takes the later ones at lower addresses.         *)
(***************************************************************************)
EXTENDS Util
LOCAL INSTANCE Bitwise

CONSTANTS
  SpiRegs,      \* bound: the addresses are 0..SpiRegs - 1
  SpiBits,      \* 8: the bits of a register
  MaxBytes,     \* 8: MAX_MBYTE_SPI
  SpiValues,    \* the values written, a uint32_t each
  VendorReg, VendorMask,   \* REG_PRODUCT_ID, PRODUCT_ID_MASK
  SpiFails,     \* whether the kernel may refuse
  MaxAccesses   \* bound

SpiUsers == {"iq_forge", "driver"}
Settings == {"mode", "bits", "speed"}
SpiByte  == 0..2 ^ SpiBits - 1
Addr     == 0..SpiRegs - 1

ASSUME SpiAssumption ==
  /\ SpiRegs \in Nat /\ SpiBits \in Nat /\ MaxBytes \in Nat /\ SpiValues \subseteq Nat
  /\ VendorReg \in Addr /\ VendorMask \in SpiByte /\ SpiFails \in BOOLEAN /\ MaxAccesses \in Nat

VARIABLES
  regs,      \* the chip
  dev,       \* of each user's spi_device: m_fd, what the kernel was told, m_last_error
  access,    \* the last call and what it returned
  accesses   \* their number

spiVars == <<regs, dev, access, accesses>>

Closed == [open |-> FALSE, set |-> {}, error |-> ""]

\* Every state variable has its type: a register holds a byte.
SpiTypeOK ==
  /\ regs \in [Addr -> SpiByte]
  /\ \A u \in SpiUsers : /\ dev[u].open \in BOOLEAN /\ dev[u].set \subseteq Settings
                         /\ dev[u].error \in Settings \cup {"", "open", "transfer"}
  /\ access.err \in {"", "EIO", "EINVAL", "ENOMEM"} /\ accesses \in 0..MaxAccesses

-----------------------------------------------------------------------------
(* spi_device *)

\* What the kernel may do with a call of transfer().
Kernel(d) ==
  {"ok"} \cup (IF ~SpiFails THEN {} ELSE IF d.open THEN {"transfer"} ELSE {"transfer", "open"} \cup Settings)

\* The settings made before the one that fails.
MadeBefore(o) ==
  CASE o \in {"ok", "transfer"} -> Settings
    [] o = "speed" -> {"mode", "bits"}
    [] o = "bits" -> {"mode"}
    [] OTHER -> {}

\* Mutant: the descriptor stays open when a setting is refused.
Transferred_open(d, o) ==
  [open |-> o # "open", set |-> IF d.open THEN d.set ELSE MadeBefore(o), error |-> IF o = "ok" THEN "" ELSE o]

\* Mutant: the error of the transfer before is still told.
Transferred_sticky(d, o) ==
  IF o \in {"ok", "transfer"}
  THEN [open |-> TRUE, set |-> IF d.open THEN d.set ELSE Settings, error |-> IF o = "ok" THEN d.error ELSE o]
  ELSE [Closed EXCEPT !.error = o]

\* ensure_open(), closed again when a setting is refused, and transfer().
Transferred(d, o) ==
  IF o \in {"ok", "transfer"}
  THEN [open |-> TRUE, set |-> IF d.open THEN d.set ELSE Settings, error |-> IF o = "ok" THEN "" ELSE o]
  ELSE [Closed EXCEPT !.error = o]

\* no_os_spi_write_and_read() and hal_spi_write_and_read() under the bus's mutex.
Answer(o) == IF o = "ok" THEN "" ELSE "EIO"

-----------------------------------------------------------------------------
(* The accessors of ad9361.c.  Byte i of a transfer is of register reg - i. *)

Bytes(reg, n) == [i \in 1..n |-> regs[reg - i + 1]]

\* Mutant: the registers are counted upwards.
With_up(reg, bytes) ==
  [a \in Addr |-> IF a - reg + 1 \in DOMAIN bytes THEN bytes[a - reg + 1] % 2 ^ SpiBits ELSE regs[a]]

With(reg, bytes) ==
  [a \in Addr |-> IF reg - a + 1 \in DOMAIN bytes THEN bytes[reg - a + 1] % 2 ^ SpiBits ELSE regs[a]]

Accessed(op, reg, err, bytes) ==
  /\ accesses < MaxAccesses /\ accesses' = accesses + 1
  /\ access' = [op |-> op, reg |-> reg, err |-> err, bytes |-> IF err = "" THEN bytes ELSE <<>>]

Refusal(op, reg, err) == Accessed(op, reg, err, <<>>) /\ UNCHANGED <<regs, dev>>

\* ad9361_spi_readm(), ad9361_spi_read(), ad9361_reg_read()
ReadM(reg, n) ==
  IF n > MaxBytes THEN Refusal("readm", reg, "EINVAL")
  ELSE \/ SpiFails /\ Refusal("readm", reg, "ENOMEM")
       \/ /\ n <= reg + 1
          /\ \E o \in Kernel(dev["driver"]) :
               /\ dev' = [dev EXCEPT !["driver"] = Transferred(@, o)]
               /\ Accessed("readm", reg, Answer(o), Bytes(reg, n)) /\ UNCHANGED regs

\* ad9361_spi_writem(), ad9361_spi_write(), ad9361_reg_write(): a value is cut to a byte.
WriteM(reg, bytes) ==
  IF Len(bytes) > MaxBytes THEN Refusal("writem", reg, "EINVAL")
  ELSE /\ Len(bytes) <= reg + 1
       /\ \E o \in Kernel(dev["driver"]) :
            /\ dev' = [dev EXCEPT !["driver"] = Transferred(@, o)]
            /\ Accessed("writem", reg, Answer(o), bytes)
            /\ regs' = IF o = "ok" THEN With(reg, bytes) ELSE regs

\* __ad9361_spi_readf()
ReadF(reg, mask) ==
  IF mask = 0 THEN Refusal("readf", reg, "EINVAL")
  ELSE \/ SpiFails /\ Refusal("readf", reg, "ENOMEM")
       \/ \E o \in Kernel(dev["driver"]) :
            /\ dev' = [dev EXCEPT !["driver"] = Transferred(@, o)]
            /\ Accessed("readf", reg, Answer(o), <<(regs[reg] & mask) \div 2 ^ FirstBit(mask)>>)
            /\ UNCHANGED regs

\* Mutant: bits of the value that the field has no place for reach the neighbours.
Merged_wide(old, mask, val) ==
  ((old | mask) - mask) | ((val * 2 ^ FirstBit(mask)) % 2 ^ SpiBits)

\* buf &= ~mask, buf |= (val << offset) & mask
Merged(old, mask, val) ==
  ((old | mask) - mask) | (((val * 2 ^ FirstBit(mask)) % 2 ^ SpiBits) & mask)

\* __ad9361_spi_writef(): read, merged and written, and nothing when the read fails.
WriteF(reg, mask, val) ==
  IF mask = 0 THEN Refusal("writef", reg, "EINVAL")
  ELSE \/ SpiFails /\ Refusal("writef", reg, "ENOMEM")
       \/ \E o \in Kernel(dev["driver"]) :
            LET read == Transferred(dev["driver"], o)
            IN  IF o # "ok"
                THEN /\ dev' = [dev EXCEPT !["driver"] = read] /\ Accessed("writef", reg, "EIO", <<>>)
                     /\ UNCHANGED regs
                ELSE \E w \in Kernel(read) :
                       /\ dev' = [dev EXCEPT !["driver"] = Transferred(read, w)]
                       /\ Accessed("writef", reg, Answer(w), <<mask, val>>)
                       /\ regs' = IF w = "ok" THEN With(reg, <<Merged(regs[reg], mask, val)>>) ELSE regs

\* iq_forge::read_ad9361_vendor_id(): a zeroed buffer when the transfer fails, and
\* last_error() to tell.
ReadVendor ==
  \E o \in Kernel(dev["iq_forge"]) :
    LET after == Transferred(dev["iq_forge"], o)
    IN  /\ dev' = [dev EXCEPT !["iq_forge"] = after]
        /\ Accessed("vendor", VendorReg, IF after.error # "" THEN "EIO" ELSE "",
                    <<(IF o = "ok" THEN regs[VendorReg] ELSE 0) & VendorMask>>)
        /\ UNCHANGED regs

\* drivers::ad9361::write_register(), which nothing calls yet.
WriteRegister(reg, val) ==
  \E o \in Kernel(dev["iq_forge"]) :
    /\ dev' = [dev EXCEPT !["iq_forge"] = Transferred(@, o)]
    /\ Accessed("register", reg, "", <<val>>)
    /\ regs' = IF o = "ok" THEN With(reg, <<val>>) ELSE regs

\* hal_spi_remove() and another hal_spi_init(), which opens nothing.
Reinit ==
  /\ dev["driver"] # Closed /\ dev' = [dev EXCEPT !["driver"] = Closed]
  /\ Accessed("init", 0, "", <<>>) /\ UNCHANGED regs

\* The id of the chip is there from the start.
SpiInit ==
  /\ regs = [a \in Addr |-> IF a = VendorReg THEN 2 ^ SpiBits - 1 ELSE 0]
  /\ dev = [u \in SpiUsers |-> Closed]
  /\ access = [op |-> "", reg |-> 0, err |-> "", bytes |-> <<>>] /\ accesses = 0

SpiNext ==
  \/ \E reg \in Addr, n \in 1..MaxBytes + 1 : ReadM(reg, n)
  \/ \E reg \in Addr, n \in 1..MaxBytes + 1, v \in SpiValues : WriteM(reg, [i \in 1..n |-> v + i])
  \/ \E reg \in Addr, mask \in SpiByte : ReadF(reg, mask)
  \/ \E reg \in Addr, mask \in SpiByte, v \in SpiValues : WriteF(reg, mask, v)
  \/ \E reg \in Addr, v \in SpiValues : WriteRegister(reg, v)
  \/ ReadVendor \/ Reinit

SpiSpec == SpiInit /\ [][SpiNext]_spiVars

-----------------------------------------------------------------------------
(* Properties. *)

\* A descriptor that is open has had its mode, word length and speed set: one refused
\* setting leaves none open for the next transfer to find (spi_device.cpp:32-68).
OpenIsSetUp == \A u \in SpiUsers : dev[u].set = IF dev[u].open THEN Settings ELSE {}

\* last_error() tells of the last transfer only, and an accessor reports it.
ErrorIsTheLast ==
  access.op \in {"readm", "writem", "readf", "writef"} /\ access.err # "EINVAL" /\ access.err # "ENOMEM" =>
    (dev["driver"].error # "") = (access.err = "EIO")

\* An id that is read is the chip's, whatever failed before.
VendorIsRead == access.op = "vendor" /\ access.err = "" => access.bytes = <<regs[VendorReg] & VendorMask>>

\* A failed call changes nothing in the chip, one on a field nothing outside of its
\* mask and of its register, one of several bytes only the registers counted down from
\* its first.
OnlyAddressed ==
  [][/\ access'.err # "" => regs' = regs
     /\ access'.op = "writef" => \A a \in Addr : a # access'.reg => regs'[a] = regs[a]
     /\ access'.op = "writef" /\ access'.err = "" =>
          LET mask == access'.bytes[1]
              old  == SetBits(regs[access'.reg])
              new  == SetBits(regs'[access'.reg])
          IN  /\ (new \ old) \cup (old \ new) \subseteq SetBits(mask)
              /\ (\A i \in FirstSetBit(mask)..LastSetBit(mask) : IsSet(mask, i)) =>
                   FieldGet(mask, regs'[access'.reg]) = access'.bytes[2] % (FieldMax(mask) + 1)
     /\ access'.op = "writem" =>
          \A a \in Addr : a \notin access'.reg - Len(access'.bytes) + 1..access'.reg => regs'[a] = regs[a]]_spiVars

\* What was written in one transfer is read in one, the first byte from the first register.
ReadIsWritten ==
  [][access.op = "writem" /\ access'.op = "readm" /\ access.err = "" /\ access'.err = "" /\ access'.reg = access.reg =>
       \A i \in DOMAIN access.bytes \cap DOMAIN access'.bytes :
         access'.bytes[i] = access.bytes[i] % 2 ^ SpiBits]_spiVars

\* The register access the rest of the driver stands on, and the arithmetic of its fields.
SpiInForce ==
  []UtilAgrees /\ []OpenIsSetUp /\ []ErrorIsTheLast /\ []VendorIsRead /\ OnlyAddressed /\ ReadIsWritten
=============================================================================
