-------------------------------- MODULE Gain --------------------------------
(***************************************************************************)
(* The manual RX gain and the gain tables: ad9361_set_rx_gain() and        *)
(* ad9361_get_rx_gain() with their full-table and split-table forms, and   *)
(* ad9361_load_gt(), which every change of the RX LO calls and which keeps *)
(* the gains of both receivers, in dB, when it changes the table.          *)
(*                                                                         *)
(* Tables and indices count from 1.  No transfer fails here.               *)
(***************************************************************************)
EXTENDS Agc, Sequences

CONSTANTS
  GainTables,   \* gt_info: [split, start, end, gains]
  SplitGts,     \* what phy->pdata->split_gt may be
  RxFreqs,      \* RX LO frequencies
  Gains,        \* gains asked for, in dB
  TableSize     \* the entries the chip has room for

NoTable == 0

\* abs_gain_tbl of every table.
Ascending(g) == \A i, j \in DOMAIN g : i <= j => g[i] <= g[j]

ASSUME GainAssumption ==
  /\ SplitGts \subseteq BOOLEAN /\ RxFreqs \subseteq Nat /\ Gains \subseteq Int /\ TableSize \in Nat
  /\ GainTables \in Seq([split : BOOLEAN, start : Nat, end : Nat, gains : Seq(Int)])
  /\ GainTables # <<>>
  /\ \A t \in DOMAIN GainTables :
       /\ Len(GainTables[t].gains) \in 1..TableSize
       /\ GainTables[t].start < GainTables[t].end
       /\ Ascending(GainTables[t].gains)

VARIABLES
  splitGt,    \* phy->pdata->split_gt
  table,      \* phy->current_table
  loaded,     \* the table in the chip
  index,      \* REG_RX1_MANUAL_LMT_FULL_GAIN, REG_RX2_...
  lpf,        \* the LPF word beside it, of split tables
  tuned,      \* history: the RX LO last asked for
  chosen      \* history: the gain last asked for with the table as it is

gainVars == <<splitGt, table, loaded, index, lpf, tuned, chosen>>

Unset == [r \in Rx |-> {}]

\* Every state variable has its type: an index is an entry the chip has.
GainTypeOK ==
  /\ splitGt \in SplitGts
  /\ {table, loaded} \subseteq {NoTable} \cup DOMAIN GainTables
  /\ index \in [Rx -> 1..TableSize] /\ lpf \in [Rx -> {0, 1}]
  /\ tuned \in RxFreqs \cup {0} /\ chosen \in [Rx -> SUBSET Gains]

\* After ad9361_clear_state(); the index and the LPF word are the chip's own.
GainInit ==
  /\ splitGt \in SplitGts /\ table = NoTable /\ loaded = NoTable /\ tuned = 0
  /\ index \in [Rx -> {TableSize}] /\ lpf = [r \in Rx |-> 1] /\ chosen = Unset

-----------------------------------------------------------------------------
Abs(n) == IF n < 0 THEN -n ELSE n

\* ad9361_gt_tableindex(): the first that matches, or the first of all.
TableOf(f) ==
  LET fits(t) == /\ GainTables[t].split = splitGt
                 /\ GainTables[t].start < f /\ f <= GainTables[t].end
      s == {t \in DOMAIN GainTables : fits(t)}
  IN  IF s = {} THEN 1 ELSE CHOOSE t \in s : \A u \in s : t <= u

\* ad9361_gt()
CurrentTable == IF table = NoTable THEN 1 ELSE table

\* Mutant: the entry before the first that is high enough is not looked at.
Found_above(t, db) ==
  LET g == GainTables[t].gains
      s == {i \in DOMAIN g : g[i] >= db}
  IN  IF s = {} THEN {} ELSE {CHOOSE k \in s : \A j \in s : k <= j}

\* Mutant: the entry before, the first's too.
Found_before(t, db) ==
  LET g == GainTables[t].gains
      s == {i \in DOMAIN g : g[i] >= db}
  IN  IF s = {} THEN {} ELSE {(CHOOSE k \in s : \A j \in s : k <= j) - 1}

\* find_table_index(): the first entry that is high enough or the one before
\* it, whichever is nearer; none if no entry is high enough.
Found(t, db) ==
  LET g == GainTables[t].gains
      s == {i \in DOMAIN g : g[i] >= db}
      i == CHOOSE k \in s : \A j \in s : k <= j
      b == IF i > 1 THEN i - 1 ELSE i
  IN  IF s = {} THEN {} ELSE {IF Abs(g[b] - db) < Abs(g[i] - db) THEN b ELSE i}

\* Mutant: a gain the new table does not reach leaves the index.
Kept_asIs(t, n, r) ==
  LET db == GainTables[IF table = NoTable THEN t ELSE table].gains[n]
  IN  IF Found(t, db) = {} THEN index[r] ELSE CHOOSE i \in Found(t, db) : TRUE

\* Mutant: the gain is looked for before phy->current_table is set.
Kept_late(t, n, r) ==
  IF table = NoTable THEN n
  ELSE IF n > Len(GainTables[t].gains) THEN Len(GainTables[t].gains) ELSE n

\* What load_gt() makes of the index n of receiver r: its gain in the table it
\* was set for (in the new one at first), found in the new one, or the last.
Kept(t, n, r) ==
  LET db == GainTables[IF table = NoTable THEN t ELSE table].gains[n]
  IN  IF Found(t, db) = {} THEN Len(GainTables[t].gains) ELSE CHOOSE i \in Found(t, db) : TRUE

\* The first table: whatever index the chip has is cut to the table.
WithinTable(t, n) ==
  IF table = NoTable /\ n > Len(GainTables[t].gains) THEN Len(GainTables[t].gains) ELSE n

\* ad9361_load_gt(), from rfpll_set_rate().
TuneRx ==
  \E f \in RxFreqs :
    LET t == TableOf(f)
    IN  /\ tuned' = f
        /\ IF t = table THEN UNCHANGED <<table, loaded, index, chosen>>
           ELSE /\ table' = t /\ loaded' = t /\ chosen' = Unset
                /\ index' = [r \in Rx |-> Kept(t, WithinTable(t, index[r]), r)]
        /\ UNCHANGED <<splitGt, lpf, agcVars>>

\* set_full_table_gain(), set_split_table_gain(): the split form also clears
\* the LPF word.
SetIndex(r, i) ==
  /\ index' = [index EXCEPT ![r] = i]
  /\ lpf' = IF splitGt THEN [lpf EXCEPT ![r] = 0] ELSE lpf

\* ad9361_set_rx_rf_gain(ch): in manual mode only.
SetGain ==
  \E ch \in Rx, db \in Gains :
    LET r == Receiver(ch)
    IN  /\ r \in Rx /\ agcReg[r] = Coded("manual")
        /\ \E i \in Found(CurrentTable, db) : SetIndex(r, i)
        /\ chosen' = [chosen EXCEPT ![r] = {db}]
        /\ UNCHANGED <<splitGt, table, loaded, tuned, agcVars>>

\* The mode command, without the failures that Agc studies.
Mode ==
  \E mode \in AgcModes :
    Becomes(Moded(Moded(Chip, 1, mode, {}), 2, mode, {})) /\ UNCHANGED <<usedRx, gainVars>>

GainNext == TuneRx \/ SetGain \/ Mode

GainSpec == GainInit /\ AgcInit /\ [][GainNext]_<<gainVars, agcVars>>

-----------------------------------------------------------------------------
(* Properties. *)

\* What ad9361_get_rx_gain() reads for a receiver in manual mode, but for the LPF and
\* digital gains that no table holds.  For a split table it adds the gains of the LNA,
\* mixer and TIA at the index, whose sum is abs_gain_tbl's in each entry of ad9361.c.
GainRead(r) == GainTables[CurrentTable].gains[index[r]]

\* The driver reads abs_gain_tbl[] at an index it takes from the chip: that is
\* in the table at any time, whatever tables were changed and in which order.
IndexInTable == table # NoTable => \A r \in Rx : index[r] \in DOMAIN GainTables[table].gains

Nearest(t, i, db) ==
  \A j \in DOMAIN GainTables[t].gains :
    Abs(GainTables[t].gains[i] - db) <= Abs(GainTables[t].gains[j] - db)

\* No gain the table has is nearer to the one asked for than the one set.
GainAsAsked == \A r \in Rx : \A db \in chosen[r] : Nearest(CurrentTable, index[r], db)

\* Tuning the RX LO across a limit of the tables changes the gain of neither
\* receiver by more than the new table makes necessary.
GainKeptAcross ==
  [][table # NoTable => \A r \in Rx : table' # table => Nearest(table', index'[r], GainRead(r))]_gainVars

\* What gain modes and gain tables promise over any sequence of mode, LO and gain changes.
GainInForce == []AgcInForce /\ []IndexInTable /\ []GainAsAsked /\ GainKeptAcross
=============================================================================
