----------------------------- MODULE Attenuation -----------------------------
(***************************************************************************)
(* The TX attenuation: ad9361_transceiver.cpp's pair of calls, the shim,   *)
(* ad9361_set/get_tx_attenuation() of the API and ad9361_set_tx_atten(),   *)
(* ad9361_get_tx_atten() and ad9361_tx_mute() of the driver.  A command    *)
(* that sets the pair is two calls of three transfers each; the results of *)
(* two of the three are dropped.                                           *)
(*                                                                         *)
(* Attenuations are in mdB.                                                *)
(***************************************************************************)
EXTENDS Integers

CONSTANTS
  Attens,      \* attenuations asked for, in mdB
  MaxAtten,    \* MAX_TX_ATTENUATION_DB, 89750
  Quarter,     \* mdB to a step of the register, 250
  UseTx,       \* transmitters a 1R1T board may use (rx1tx1_mode_use_tx_num)
  BusFails     \* SPI transfers may fail

Ch    == {1, 2}
Steps == 0..MaxAtten \div Quarter
Lost  == -1       \* a negative error code kept as an attenuation

ASSUME AttenuationAssumption ==
  /\ Attens \subseteq Nat /\ MaxAtten \in Nat /\ Quarter \in Nat \ {0}
  /\ MaxAtten % Quarter = 0
  /\ UseTx \subseteq Ch /\ BusFails \in BOOLEAN

VARIABLES
  usedTx,    \* the one of this board
  atten,     \* REG_TX1_ATTEN, REG_TX2_ATTEN
  holding,   \* IMMEDIATELY_UPDATE_TPC_ATTEN is 0: `atten' is not yet in force
  inForce,   \* external: the attenuation the chip applies
  savedAtten, \* phy->tx1_atten_cached, tx2_atten_cached
  muted,     \* tx_mute(1) has been called, tx_mute(0) not yet
  code,      \* m_error_code
  answer,    \* the last command's success and code
  apart,     \* history: a transfer failed in the last set command or a mute since
  slipped,   \* history: a transfer failed since the transmitters were muted
  loud       \* history: the registers when the transmitters were muted

attVars == <<usedTx, atten, holding, inForce, savedAtten, muted, code, answer, apart, slipped, loud>>

Codes == {"none", "EINVAL", "EIO"}

\* Every state variable has its type: an attenuation is a step of the register.
AttTypeOK ==
  /\ usedTx \in UseTx
  /\ {atten, inForce, loud} \subseteq [Ch -> Steps] /\ holding \in BOOLEAN
  /\ savedAtten \in [Ch -> Steps \cup {Lost}] /\ muted \in BOOLEAN
  /\ code \in Codes /\ answer \in [ok : BOOLEAN, code : Codes] /\ apart \in BOOLEAN
  /\ slipped \in BOOLEAN

\* After ad9361_setup() on a 1R1T board.
AttInit ==
  /\ usedTx \in UseTx
  /\ atten = [c \in Ch |-> 0] /\ inForce = atten /\ loud = atten /\ savedAtten = atten
  /\ holding = FALSE /\ muted = FALSE
  /\ code = "none" /\ answer = [ok |-> TRUE, code |-> "none"] /\ apart = FALSE
  /\ slipped = FALSE

-----------------------------------------------------------------------------
(* Results. *)

Transfers == {"hold", "write", "release"}

\* The sets of transfers that may fail.
Slips(transfers) == IF BusFails THEN SUBSET transfers ELSE {{}}

\* Mutant: only the first failure is kept.
Reply_first(ret) ==
  /\ code' = IF code = "none" THEN ret ELSE code
  /\ answer' = [ok |-> ret = "none", code |-> ret]

\* The facade's "if (ret < 0)": the code is kept by a success.  What the
\* console prints with a failure is error_code() after it.
Reply(ret) ==
  /\ code' = IF ret = "none" THEN code ELSE ret
  /\ answer' = [ok |-> ret = "none", code |-> ret]

\* Mutant: the register gets the mdB.
StepsOf_mdb(mdb) == mdb

\* The register counts quarters of a dB.
StepsOf(mdb) == mdb \div Quarter

\* ad9361_1rx1tx_channel_map()
Mapped(use, channel) == IF use = 2 THEN channel + 1 ELSE channel

-----------------------------------------------------------------------------
(* Setting and reading. *)

Now == [atten |-> atten, holding |-> holding, inForce |-> inForce]

\* Mutant: the update is not released at the end.
Written_held(w, steps, fails) ==
  LET a == IF "write" \in fails THEN w.atten ELSE [c \in Ch |-> IF c \in DOMAIN steps THEN steps[c] ELSE w.atten[c]]
  IN  [atten |-> a, holding |-> TRUE, inForce |-> w.inForce]

\* ad9361_set_tx_atten() with an attenuation in range and the channels of
\* `steps': hold, write, release.  Holding or releasing may fail unnoticed.
AttWritten(w, steps, fails) ==
  LET a == IF "write" \in fails THEN w.atten
           ELSE [c \in Ch |-> IF c \in DOMAIN steps THEN steps[c] ELSE w.atten[c]]
      h == "release" \in fails /\ (w.holding \/ "hold" \notin fails)
  IN  [atten |-> a, holding |-> h, inForce |-> IF h THEN w.inForce ELSE a]

Ends(w) == atten' = w.atten /\ holding' = w.holding /\ inForce' = w.inForce

\* ad9361_set_tx_attenuation(ch): channel == 0, channel == 1.
Targets(ch) == {c \in Ch : Mapped(usedTx, ch) = c - 1}

\* Mutant: the first transmitter twice.
Channels_first == <<0, 0>>

\* set_tx_attenuation(tx1) && set_tx_attenuation(tx2)
Channels == <<0, 1>>

\* act_tx_atten_set
SetAttenuation ==
  \E mdb \in Attens, f1 \in Slips(Transfers), f2 \in Slips(Transfers) :
    LET to(n)     == [c \in Targets(Channels[n]) |-> StepsOf(mdb)]
        failed(n, f) == "write" \in f /\ Targets(Channels[n]) # {}
        after1    == AttWritten(Now, to(1), f1)
    IN  /\ ~muted
        /\ IF mdb > MaxAtten
           THEN Ends(Now) /\ Reply("EINVAL") /\ UNCHANGED <<apart, slipped>>
           ELSE /\ Ends(IF failed(1, f1) THEN after1 ELSE AttWritten(after1, to(2), f2))
                /\ Reply(IF failed(1, f1) \/ failed(2, f2) THEN "EIO" ELSE "none")
                /\ apart' = (f1 \cup f2 # {}) /\ slipped' = FALSE
        /\ UNCHANGED <<usedTx, savedAtten, muted, loud>>

\* act_tx_atten_read: TX1 stands for both (ad9361_get_tx_attenuation(ch + 1)).
ReadAttenuation ==
  \E fails \in Slips({"read"}) :
    /\ Reply(IF fails # {} THEN "EIO" ELSE "none")
    /\ UNCHANGED <<usedTx, atten, holding, inForce, savedAtten, muted, apart, slipped, loud>>

-----------------------------------------------------------------------------
(* ad9361_tx_mute(), around the digital interface tuning. *)

\* A failed read is kept as its negative code; all is then set to the maximum.
Mute ==
  \E reads \in Slips(Ch), fails \in Slips(Transfers) :
    /\ ~muted /\ muted' = TRUE /\ loud' = atten
    /\ savedAtten' = [c \in Ch |-> IF c \in reads THEN Lost ELSE atten[c]]
    /\ Ends(AttWritten(Now, [c \in Ch |-> StepsOf(MaxAtten)], fails))
    /\ slipped' = (reads # {} \/ fails # {})
    /\ UNCHANGED <<usedTx, code, answer, apart>>

\* Mutant: both go back to the first channel's attenuation.
Unmute_first ==
  \E f1 \in Slips(Transfers) :
    /\ muted /\ muted' = FALSE
    /\ Ends(IF savedAtten[1] = Lost THEN Now
            ELSE AttWritten(Now, [c \in Ch |-> savedAtten[1]], f1))
    /\ slipped' = (slipped \/ f1 # {}) /\ apart' = (apart \/ slipped')
    /\ UNCHANGED <<usedTx, savedAtten, code, answer, loud>>

\* One write if both were equal, else one each; a kept error code is above
\* the maximum and refused.
Unmute ==
  \E f1 \in Slips(Transfers), f2 \in Slips(Transfers) :
    LET back(w, ch, f) == IF Lost \in {savedAtten[c] : c \in ch} THEN w
                          ELSE AttWritten(w, [c \in ch |-> savedAtten[c]], f)
    IN  /\ muted /\ muted' = FALSE
        /\ Ends(IF savedAtten[1] = savedAtten[2] THEN back(Now, Ch, f1)
                ELSE back(back(Now, {1}, f1), {2}, f2))
        /\ slipped' = (slipped \/ f1 \cup f2 # {}) /\ apart' = (apart \/ slipped')
        /\ UNCHANGED <<usedTx, savedAtten, code, answer, loud>>

AttNext == SetAttenuation \/ ReadAttenuation \/ Mute \/ Unmute

AttSpec == AttInit /\ [][AttNext]_attVars

-----------------------------------------------------------------------------
(* Properties. *)

\* The console reads TX1 for the pair.  Unless a transfer of the last set or
\* of a mute since failed, the channels a board may use are equal, and what is in the
\* registers is what the chip applies whatever an earlier failure left held.
PairInForce ==
  ~muted /\ ~apart =>
              /\ inForce = atten
              /\ \A c, d \in Targets(0) \cup Targets(1) : atten[c] = atten[d]

\* A failed command is printed with error_code(): it is this failure's, never
\* one an earlier command has left in the sticky m_error_code.
CodeIsThisFailure == ~answer.ok => code = answer.code

\* Muting and unmuting puts each transmitter back to its own attenuation, unless
\* a transfer failed: no channel stays muted or takes the other's value.
MuteIsUndone ==
  [][muted /\ ~muted' /\ ~slipped' => atten' = loud /\ inForce' = loud]_attVars

\* What the console may rely on when it sets, reads and mutes the pair of
\* transmitters, whichever transfers fail (ad9361_transceiver.cpp:83-114).
AttenuationKept == []PairInForce /\ []CodeIsThisFailure /\ MuteIsUndone
=============================================================================
