------------------------------- MODULE Tuner -------------------------------
(***************************************************************************)
(* The console's commands and interactive tuners (project/src/main.cpp:    *)
(* act_..._read, act_..._set, run_..._tuner, tune_..._field) for the TX    *)
(* clock/data delay and the LVDS inversion, down to the SPI transfers of   *)
(* drivers/ad9361/api/ad9361.c.  Any transfer may fail; the driver's       *)
(* functions drop every result and return 0, so the console never sees it. *)
(*                                                                         *)
(* fb and td are the halves of one register, the RX delay rides along with *)
(* every access to it; c1 and c2 are registers of their own.  Values are   *)
(* abstract: steps of a delay, sets of inverted pairs.                     *)
(***************************************************************************)
EXTENDS Integers

CONSTANTS Max,      \* the largest delay (15)
          Bit,      \* the pairs an inversion register covers (0..7)
          Errno,    \* Errno[c]: what a negative error code reads as in cell c
          CanFail   \* SPI transfers may fail

Cell  == {"rx", "fb", "td", "c1", "c2"}
Field == Cell \ {"rx"}

Value(c) == IF c \in {"c1", "c2"} THEN SUBSET Bit ELSE 0..Max

\* The tuner a field belongs to, and the register a cell is in.
Pair == [fb |-> "delay", td |-> "delay", c1 |-> "invert", c2 |-> "invert"]
Home == [rx |-> "RX_DELAY", fb |-> "TX_DELAY", td |-> "TX_DELAY",
         c1 |-> "INVERT1", c2 |-> "INVERT2"]
Tuners    == {"delay", "invert"}
Registers(p) == IF p = "delay" THEN {"RX_DELAY", "TX_DELAY"} ELSE {"INVERT1", "INVERT2"}

ASSUME TunerAssumption ==
  /\ Max \in Nat /\ CanFail \in BOOLEAN
  /\ \A c \in Cell : Errno[c] \in Value(c)

VARIABLES
  reg,      \* the chip's registers, by cell
  pdRx,     \* pdata->port_ctrl.rx_clk_data_delay
  pc,       \* "console", a tuner's menu, or "field": a field is being tuned
  field,    \* that field, or the last one
  cur,      \* the tuner's local copy of its two fields
  value,    \* the value shown
  original, \* the value to go back to
  said,     \* how the last field ended: "none", "saved", "reverted"
  start,    \* history: the registers when the field was chosen
  misread,  \* history: the registers misread then
  stale,    \* history: the registers whose last transfer for the field failed
  rx0,      \* history: the RX delay of start-up
  rxLost    \* history: a read of RX_DELAY failed

local == <<field, cur, value, original>>
hist  == <<start, misread, stale, rx0>>
vars  == <<reg, pdRx, pc, said, rxLost, local, hist>>

Typed(f, S) == DOMAIN f = S /\ \A c \in S : f[c] \in Value(c)

\* Every state variable has its type: a value stays in the range its prompt names.
TypeOK ==
  /\ Typed(reg, Cell) /\ Typed(start, Cell) /\ Typed(cur, Field)
  /\ pdRx \in Value("rx") /\ rx0 \in Value("rx")
  /\ pc \in {"console", "field"} \cup Tuners
  /\ field \in Field /\ value \in Value(field) /\ original \in Value(field)
  /\ said \in {"none", "saved", "reverted"}
  /\ misread \subseteq Registers(Pair[field]) /\ stale \subseteq Registers(Pair[field])
  /\ rxLost \in BOOLEAN

\* ad9361_setup() has written what pdata holds.
Init ==
  /\ \E d \in 0..Max, s \in SUBSET Bit :
       reg = [c \in Cell |-> IF c \in {"c1", "c2"} THEN s ELSE d]
  /\ pdRx = reg["rx"] /\ rx0 = reg["rx"] /\ rxLost = FALSE
  /\ pc = "console" /\ said = "none" /\ field = "fb"
  /\ cur = [f \in Field |-> Errno[f]] /\ value = Errno["fb"] /\ original = Errno["fb"]
  /\ start = [c \in Cell |-> Errno[c]] /\ misread = {} /\ stale = {}

-----------------------------------------------------------------------------
(* The driver.  The transfers of the registers in `bad' fail. *)

Failing(p) == IF CanFail THEN SUBSET Registers(p) ELSE {{}}

Seen(r, bad) == [c \in Cell |-> IF Home[c] \in bad THEN Errno[c] ELSE r[c]]

\* ad9361_get_tx_clock_data_delay() also reads the RX delay into pdata;
\* ad9361_get_lvds_invert() does not.
Get(p, r, bad) ==
  /\ pdRx' = IF p = "delay" THEN Seen(r, bad)["rx"] ELSE pdRx
  /\ rxLost' = (rxLost \/ "RX_DELAY" \in bad)

\* Mutant: the halves of the TX register are swapped.
Set_swapped(p, new, bad) ==
  reg' = [c \in Cell |-> IF Home[c] \notin Registers(p) \ bad THEN reg[c]
                         ELSE IF c = "rx" THEN pdRx
                         ELSE IF c = "fb" THEN new["td"]
                         ELSE IF c = "td" THEN new["fb"] ELSE new[c]]

\* Mutant: the RX register is written with the TX register's value.
Set_txTwice(p, new, bad) ==
  reg' = [c \in Cell |-> IF Home[c] \notin Registers(p) \ bad THEN reg[c]
                         ELSE IF c = "rx" THEN new["td"] ELSE new[c]]

\* ad9361_set_tx_clock_data_delay() writes the RX delay of pdata first;
\* ad9361_set_lvds_invert() writes both registers.
Set(p, new, bad) ==
  reg' = [c \in Cell |-> IF Home[c] \notin Registers(p) \ bad THEN reg[c]
                         ELSE IF c = "rx" THEN pdRx ELSE new[c]]

-----------------------------------------------------------------------------
(* The console's single commands: act_..._read and act_..._set. *)

ReadValues(p) ==
  /\ pc = "console" /\ \E bad \in Failing(p) : Get(p, reg, bad)
  /\ UNCHANGED <<reg, pc, said, local, hist>>

Choices(p) == IF p = "delay" THEN [{"fb", "td"} -> 0..Max]
              ELSE [{"c1", "c2"} -> SUBSET Bit]

Assign(p) ==
  /\ pc = "console"
  /\ \E new \in Choices(p), bad \in Failing(p) : Set(p, new, bad)
  /\ UNCHANGED <<pdRx, rxLost, pc, said, local, hist>>

-----------------------------------------------------------------------------
(* The tuners. *)

\* run_..._tuner: the menu shows the current values.
Show(p, r) == pc' = p /\ \E bad \in Failing(p) : Get(p, r, bad)

Open(p) ==
  /\ pc = "console" /\ Show(p, reg)
  /\ UNCHANGED <<reg, said, local, hist>>

\* The tuner returns and its locals are gone: back to their values of Init.
Forget ==
  /\ said' = "none" /\ field' = "fb"
  /\ cur' = [f \in Field |-> Errno[f]] /\ value' = Errno["fb"] /\ original' = Errno["fb"]
  /\ start' = [c \in Cell |-> Errno[c]] /\ misread' = {} /\ stale' = {}
  /\ UNCHANGED rx0

Back ==
  /\ pc \in Tuners /\ pc' = "console" /\ Forget
  /\ UNCHANGED <<reg, pdRx, rxLost>>

\* tune_..._field: the values are read once more.
Choose(f) ==
  /\ pc = Pair[f] /\ pc' = "field" /\ field' = f /\ said' = "none"
  /\ \E bad \in Failing(Pair[f]) :
       /\ Get(Pair[f], reg, bad)
       /\ cur' = [g \in Field |-> Seen(reg, bad)[g]]
       /\ value' = cur'[f] /\ original' = cur'[f]
       /\ start' = reg /\ misread' = bad /\ stale' = bad
  /\ UNCHANGED <<reg, rx0>>

\* apply(v): the local copies follow, as set_... reports success.
Apply(v) ==
  \E bad \in Failing(Pair[field]) :
    /\ cur' = [cur EXCEPT ![field] = v]
    /\ Set(Pair[field], cur', bad)
    /\ stale' = bad

\* Mutant: no limit to what a key asks for.
Near_unbounded(f, v) ==
  IF Pair[f] = "delay" THEN {v - 1, v + 1}
  ELSE {IF b \in v THEN v \ {b} ELSE v \cup {b} : b \in Bit}

\* Values one key away: a delay's neighbours, or one pair toggled.
Near(f, v) ==
  IF Pair[f] = "delay" THEN {v - 1, v + 1} \cap 0..Max
  ELSE {IF b \in v THEN v \ {b} ELSE v \cup {b} : b \in Bit}

\* Mutant: the value shown is the one before the key.
Key_shownLate ==
  /\ pc = "field" /\ \E v \in Near(field, value) : Apply(v) /\ value' = value
  /\ UNCHANGED <<pdRx, rxLost, pc, field, original, said, start, misread, rx0>>

Key ==
  /\ pc = "field" /\ \E v \in Near(field, value) : Apply(v) /\ value' = v
  /\ UNCHANGED <<pdRx, rxLost, pc, field, original, said, start, misread, rx0>>

Save ==
  /\ pc = "field" /\ said' = "saved" /\ Show(Pair[field], reg)
  /\ UNCHANGED <<reg, local, hist>>

\* Mutant: only the local copy goes back.
Cancel_localOnly ==
  /\ pc = "field" /\ said' = "reverted"
  /\ cur' = [cur EXCEPT ![field] = original] /\ Show(Pair[field], reg)
  /\ UNCHANGED <<reg, stale, field, value, original, start, misread, rx0>>

\* The result of apply(original) is not looked at.
Cancel ==
  /\ pc = "field" /\ said' = "reverted"
  /\ Apply(original) /\ Show(Pair[field], reg')
  /\ UNCHANGED <<field, value, original, start, misread, rx0>>

\* End of input: the field's loop ends with the value as it is, and so does the
\* tuner's after it has shown the values.
Eof ==
  /\ pc = "field" /\ pc' = "console" /\ Forget
  /\ \E bad \in Failing(Pair[field]) : Get(Pair[field], reg, bad)
  /\ UNCHANGED reg

Next ==
  \/ \E p \in Tuners : ReadValues(p) \/ Assign(p) \/ Open(p)
  \/ Back
  \/ \E f \in Field : Choose(f)
  \/ Key \/ Save \/ Cancel \/ Eof

Spec == Init /\ [][Next]_vars

-----------------------------------------------------------------------------
(* Properties. *)

\* The value shown, or said to be saved, is the one in the chip, unless the last
\* transfer of its register failed: a later key makes up for an earlier failure.
ShownIsSet ==
  pc = "field" \/ said = "saved" => reg[field] = value \/ Home[field] \in stale

\* Tuning one field changes no other field, whatever transfers fail meanwhile,
\* unless the other was misread to begin with.
OthersKept ==
  pc = "field" \/ said # "none" =>
    \A g \in Field \ {field} : reg[g] = start[g] \/ Home[g] \in misread

\* A cancelled field is back where it was when it was chosen, if it was read and
\* written back.
CancelReverts ==
  said = "reverted" => reg[field] = start[field] \/ Home[field] \in misread \cup stale

\* As long as RX_DELAY is read without an error, no tuning and no failed write
\* changes it, although every change of the TX delay writes it.
RxKept == ~ rxLost => reg["rx"] = rx0

-----------------------------------------------------------------------------
(* The inductive invariant of TunerProofs, by parts. *)

\* A field is open only while it is being tuned or in its tuner's menu.
Said ==
  /\ pc \in {"console", "field"} => said = "none"
  /\ pc \in Tuners /\ said # "none" => pc = Pair[field]

\* The tuner's copy of the field follows the value shown; the other copy is the
\* register's content, unless that was misread.
CopiesFollow ==
  pc = "field" =>
    /\ cur[field] = value
    /\ \A g \in Field \ {field} :
         Pair[g] = Pair[field] => cur[g] = start[g] \/ Home[g] \in misread
    /\ original = start[field] \/ Home[field] \in misread

\* pdata holds the RX delay that the next write restores.
RxHeld == ~ rxLost => pdRx = rx0
=============================================================================
