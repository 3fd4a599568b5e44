# A TLA+ model of the iq_forge firmware

The firmware runs under Linux on a Zynq board. At start it loads the FPGA, pulses the reset of an
AD9361 transceiver and initialises it over SPI; from then on it drives the DDS in the programmable
logic (PL) through memory-mapped registers and the AD9361 through the vendor's driver, on behalf of
a console menu (main thread) and of one TCP client at a time (a second thread). This directory holds
TLA+ modules of the parts with state and ordering in them, the TLC configurations that check them on
small instances, and theorems with proofs that TLAPS checks for every instance.

Paths below are relative to `src/`; `ad9361.c`, `ad9361_api.c`, `ad9361_conv.c`, `ad9361_util.c`,
`ad9361_ext_band_ctrl.c` and `no_os/` are in `drivers/ad9361/api/`.

## 1. Inventory

### Components and their state

| component | state | operations |
|---|---|---|
| DDS control register: `drivers/dds_ctrl_gpio`, `hal/gpio/mmio_register`, `project/iq_forge` | five bits of a PL register (enable, reset, mode, continious, load), which outlive the process | set or clear a level, pulse reset or load (two writes), read; retune = read, mute, move the LO, calibrate, unmute |
| Control server: `project/control_server` | listening socket, `m_running`, the accept thread, the connection served, the bytes of the packet so far | `start`, `stop`, `accept_loop`, `handle_client`, `handle_request` |
| ENSM and calibration: `ad9361.c`, `ad9361_api.c` | the chip's state machine and its configuration register, tracking loops, filters, LO; the driver's copies (`curr_ensm_state`, `prev_ensm_state`, `ensm_pin_ctl_en`, `last_tx_quad_cal_freq`, ...) | `set_en_state_machine_mode`, `do_calib`, `update_rf_bandwidth`, `rfpll_set_rate`, tracking switches, LO power |
| Console tuners and interface delays: `project/main.cpp`, `ad9361.c` | four fields in three SPI registers, the RX delay that rides along, the tuner's copies of the fields | read, set, tune by key with save, cancel and end of input |
| DDS frequency and LFM sweep: `iq_forge`, `dds_ftw_gpio`, `dds_lfm_gpio` | tuning word; start, stop and increment of the sweep; two error texts | conversions Hz <-> word, sweep time <-> increment |
| Start-up: `scripts/load.sh`, `main()`, `iq_forge`, `ad9361_ctrl_gpio`, `drivers/ad9361` | archive deployed, bitstream in the PL, overlay, reset register, AD9361 in reset, fresh, partial or ready | load, overlay, reset pulse, vendor id, transceiver init, sample rate, listen |
| Transceiver facade: `drivers/ad9361_transceiver` | the driver's handle, the sticky error code | one call of the driver each; attenuation, gain mode for two channels |
| Clock chain and FIR: `ad9361.c`, `ad9361_util.c` | BBPLL and dividers, cached rates, FIR switches, `filt_*_path_clks`, rate governor | set a rate, set the chain by hand, load and switch filters |
| RF synthesisers, fastlock: `ad9361.c` | PLL registers and VCO words of each LO, profiles, external-LO switches, `cached_synth_pd` | set rate, mux, fastlock store/load/recall/prepare, power-down |
| Gain, AGC, attenuation, BIST, RSSI: `ad9361.c`, `ad9361_api.c` | gain tables and indices, AGC modes, TX attenuation words and cache, BIST register and cache, RSSI durations, weights, step words | per operation |
| Filter and quadrature calibrations: `ad9361.c` | filter words, phase, NCO words, inversion | tune filters, calibrate with retry and search |
| External band control: `ad9361_ext_band_ctrl.c` | GPIO lines, RF port selection, the band in use | register, add lines and bands, switch on an LO change |
| Digital interface tuning: `ad9361_conv.c` | delays and their store, borrowed blocks (BIST, loopback, DAC core, ENSM, attenuation, rate) | tune, restore defaults |
| no-OS library, platform glue, SPI device: `no_os/`, `api/platform`, `hal/spi` | allocated objects, the counted bus, the descriptor and its settings | init/remove, transfer, arithmetic |
| Console menu: `project/main.cpp` | none | one `iq_forge` call per item |
| Scripts: `scripts/` | - | build, copy, kill the running instance, start |

`PROJECT.json` lists every component with its files and says of each one what is left out and why.

### How they interact

The console (main thread) and the server's thread call the same `iq_forge` object with no lock. The
server reaches the DDS only: the enable bit and the frequency word. The console reaches everything,
among it the LO retune, which mutes the DDS through the control register while the AD9361 driver moves
the synthesiser and calibrates. Within the AD9361 driver, calibrations nest: a retune may calibrate
inside the driver and then once more in the facade; each calibration takes the chip to ALERT and puts
it back. An LO change also moves gain tables and external bands; a change of the baseband clock sets
up AGC and RSSI times again. `load.sh` kills a running instance before it starts the new one; the PL
and the AD9361 keep their registers.

### What is hard, and what must be true

* **Two threads, read-modify-write.** A write computed from an old read puts back a bit the other
  thread has changed. With one writer, operations must look atomic.
* **A kill between two writes** leaves a pulse half done in a register that nothing initialises. A
  restart finds the PL operating and the chip half set up.
* **Stop against accept and recv.** `stop()` runs while the other thread is before, in or after
  `accept()`, or in `recv()`. It must return, and leave no thread and no socket.
* **Packets in pieces, clients that vanish.** One response per request, in order, with its id; a lost
  client must not cost more than its connection.
* **Error paths that must restore.** A calibration that times out, a band switch that stops half way,
  an initialisation that runs out of memory: what was borrowed must be given back.
* **Errors that become values.** Negative error codes are stored in unsigned variables and passed on,
  as a frequency in one place and as a delay in another.
* **Notes of the chip.** The driver caches rates, modes, attenuations, table numbers and registers;
  an operation that writes behind a note, or notes before it writes, makes later ones act on the past.
* **Conversions.** Tuning words, gains, tones, dividers, weights and delays round, clamp and wrap.

The full list, each at its line and with the properties aimed at it, is "hazards" in `PROJECT.json`.

## 2. Modules

    AtomicDds  <--implements--  DdsCtrl         <-- MCDdsCtrl, DdsCtrlProofs
                                ControlServer   <-- MCControlServer, ControlServerProofs
                                Ensm            <-- MCEnsm, EnsmProofs

    Agc <-- Gain,  Util <-- Spi,  Rssi <-- MCRssi
    Tuner, Sweep, Bringup, Attenuation, Bist, Gain, Handles, Clocks, Synth,
    ExtBand, Calib, DigTune, Spi, MCRssi        <-- MCSystem

    Tuner, DigTune, ExtBand                     <-- TunerProofs
    Bringup, Handles                            <-- StartupProofs
    Sweep, Clocks, Synth                        <-- FrequencyProofs
    Gain (Agc), Attenuation, Bist, Calib, Rssi  <-- RadioProofs
    Arithmetic: lemmas on division, rounding, least elements, iteration and induction

Each component is a module parameterised by CONSTANTS with named assumptions; its `MC` module gives
the values TLC needs that a cfg cannot write, and its `Proofs` module the theorems. Operators named
`X_something` right before a definition `X` are mutants: what `X` would be with a plausible bug. The
runs do not use them; they show that a property can fail. `PROJECT.json` names several for most of
the properties of `MCSystem`, at least one of them for each part of a conjunction.

`MCSystem` checks the parts that one thread runs to the end in one run: `under` says which part a
behaviour is about, the others keep one initial state. The parts share no state, so this is their
sum and not a product; what a part needs of another is external in it and said so.

### DdsCtrl, AtomicDds

`reg` is the register as the set of its 1 bits. Per thread, `pc` says which access of the driver call
`call` comes next, `v` is the driver's local copy of the register, `was` is `was_enabled` of a retune.
Each access is a step: `Read`, `Write`, `Assert`, `Release`, `Get`; `MapFails` is a failing open or
mmap of `/dev/mem`, which happens at a call's first access or not at all, since the driver object is
new in every call and keeps its mapping. `Begin` is the entry of an `iq_forge` operation with its
early returns, `Tune` the AD9361's part of a retune. `Kill` is `load.sh`'s, `PowerCycle` reconfigures
the PL. History variables say what the levels should be (`asked`), which pulses a kill cut short
(`torn`) and what went wrong in a retune (`mishap`).

`AtomicDds` is what a caller relies on: a command changes its level, and only that, at one instant
between call and return, or fails with no effect. `DdsCtrl` implements it (`CommandsAreAtomic`) when
at most one thread writes.

### ControlServer

The main thread (`mpc`), the server's thread (`spc`), the sockets, the clients and the two registers
behind the protocol. `stop()` is four steps (flag, shutdown, close, join), `accept()` is two (the call,
and the kernel's return), so that they interleave as they can. A packet travels in `Parts` pieces and
`recv()` returns any number of those that have arrived. Clients connect, send whole or partial
requests, close or reset. `HandleX` are the cases of `handle_request`, with every nack they can give.
Connections, the backlog and the effect of a closed peer are external: the kernel's. A response to a
closed peer is lost and sooner or later answered by a reset (`SendToClosed`, peer "pipe"); a send after
that is EPIPE with its signal (`SigPipe`). A send to a peer that reset the connection itself returns
the error (`SendFails`), on which the server closes.

### Ensm

The chip's part (`ens`, `cfg`, `awake`, `track`, `filt`, `loOff`, `lo`) beside the driver's copies.
A mode change is one step, since nothing interleaves with it; an operation that works in ALERT is the
sequence `Quiet`, `ForceAlert`, `Filter` or `QuadCal`, `Restore`, so that its error paths and the
pins' moves come between. `After` and `Pins` model the chip as far as the driver relies on it. A failed
`ad9361_rfpll_round_rate` becomes the frequency `Wrapped`, as in the code. `Ensm` takes the cached
rate of an LO for the LO's; `Synth` models where they part.

### Tuner

`reg` maps each field to its content in the chip, `pdRx` is the driver's copy of the RX delay. Every
command and key is one step, with a choice of the registers whose transfers fail: the driver drops all
results, so a failed read is the value `Errno[c]`, and a failed write leaves the register alone. `cur`,
`value`, `original` are the tuner's locals; `start`, `misread` and `stale` are history.

### Sweep

The four PL words, the two error texts, and what the last command printed. `SetFrequency`, `SetTime`,
`SetFtw`, `SetIncrement`, `ReadFrequency` and `ReadSweep` are one step each, with the early returns in the
code's order (no base, no clock, range, order, mapping). Frequencies are integers, `Increment` rounds and
clamps as the code does, `Masked` is the driver's 24-bit mask, `Words` the conversion. `Nan` passes every
comparison the way a NaN does. `asked` and `timed` remember what a word was made from.

### Bringup

`step` walks `main()`: bitstream unless operating, overlay unless applied, hold, release, steady,
vendor id, init (which resets once more through two read-modify-writes of the same register), set-up,
rate, listen. Every step may fail with the code's consequence (exit, or go on); `Kill`, `PowerCycle`
and `Deploy` come between any two. What the loader does in the PL is external.

### Attenuation, Bist, Agc, Gain

`Attenuation` has the two words, the hold bit, the cached pair of the mute and the facade's sticky
code; a set is two calls, each with its dropped and its checked transfers. `Bist` has the one register
that tone and PRBS share with its cache and both mode notes, the tone's arithmetic in 32 bits, and the
loopback that crosses transmitters on a one-channel board. `Agc` is the mode change around a disabled
receiver, with the note taken before the write, and the measurement's duration written for both; the
register holds the two-bit codes of the modes, hybrid among them with a code of its own beside the bit
both receivers share. `Gain` extends it with the tables (full and split), the manual index, and the change of tables with
the LO, which moves each receiver's index to the nearest gain. What is read back is the table's gain:
for a split table the code adds LNA, mixer and TIA, whose sum is `abs_gain_tbl`'s in each entry, and the
LPF and digital gains, which no table holds and the model leaves out. All but `Gain` have failing
transfers.

### Handles

Which of a part's objects are allocated, and the bus with its count of slaves, through
`ad9361_init()` with every allocation failing and `ad9361_remove()`.

### Clocks

Rates in 10 kHz. `chip` has the BBPLL and five divider fields for each side, `cached` the framework's
rates; `Calculate` is `ad9361_calculate_rf_clock_chain()`, `SetClock` is a `clk_set_rate()` with the
read-back of all below: one `Stage` a clock, which chooses the field nearest to the rate asked for
(`Divider`) and notes what it divides to. `ByHand` is the filters written behind it. Operations: set a
rate from either side, load a filter, enable and disable each or both, the governor's choice. The
limits are the part's, the DAC's half of the ADC's. `rx_eq_2tx` is left out: it needs
`fdd_rx_rate_2tx_enable`, which `default_init_param.c:213` sets to 0 and nothing changes.

### Synth

Frequencies in MHz. For each LO the registers, what is in force and the notes of it; `IntSetRate` is
`ad9361_rfpll_int_set_rate()` with the choice of VCO tables, `FixOther` the rewrite of the other LO,
`Left` what ends a fastlock profile. Store, load, recall and prepare of profiles with the ALC
workaround, the switch to and from an external LO, power-down of LO and VCO in one register.

### ExtBand

The lines, the port register, the bands and the band in use. `Script` is the sequence of pin and port
writes of a switch with the sub-bands before and after; `Adjust` may stop at any one. Lines and bands
are added, the controller attached and taken off (`AddGpio`, `AddBand`, `Attach`), ports set directly.

### Calib

The quadrature calibration: NCO words by case, bandwidth widened meanwhile, one run, its retry at the
last phase and the search over all `Phases`, with the uninitialised `val` of a timed-out first run as
a free choice; inversion set aside and put back. Filter tuning with its divider and words, the second
filter's capacitor, RF DC offset calibration, the bandwidth calls, clamped to the part's limit
(`RfBwLimit`; `system` has the 56 MHz of the AD9361 the firmware asks for, and the theorem holds for the
AD9363A's 20 MHz as well). The phases that converge are picked
by the environment at each call.

### DigTune

`ad9361_dig_tune()` as `Begin` (mute, save, PRBS), `TuneRxDelay`, `SendPattern` (the DAC core's, looped
back), `TuneTxDelay` and `Settle`; `NextCall` runs the calls that one operation of a caller makes. What
passes depends on the difference of the delays, by rate. `retunes` is `bb_clk_change_dig_tune_en`, which
calls it with RESTORE_DEFAULT at every change of the baseband clock. The firmware links the stub; the file
is the driver's.

### Util, Spi

`Util`: bit scans, fields, division, fractions, wide products, search and endian helpers, each as its
loop computes it, over words of a few bits. `Spi`: a call of an accessor down to the ioctl: opening
with its settings, one or several bytes, field read and field write, and the vendor id driver with a
device of its own.

### Rssi

`SetUpFor` is `ad9361_rssi_setup()`: times to samples, the duration as up to four powers of two,
weights that must add up. `FillTables` is the end of `ad9361_setup()`: the calibration with the row of
the LO's range, or the stored tables. Then clock changes, recalibrations, LO changes and readings.

## 3. Runs

| run | instance | shows |
|---|---|---|
| `dds_exclusive` | console with all 12 operations, a client that polls; failing maps, kills, power cycles (171 k states) | operations are atomic commands; a pulse is released; levels survive other operations; the LO moves muted; reported success is real |
| `dds_race` | console and GUI both writing | reset put back by the other thread's write: **violated**, see below |
| `server_protocol` | every command, 1 client, 2 packets of 2 pieces, 4 configurations, failing hardware, stop (505 k) | one response per request, in order; answers are true of the registers; a `stop()` that returned left nothing behind |
| `server_live` | 2 clients, 2 pieces, fair threads (72 k) | `stop()` returns and the next client is served unless a client stays for ever; complete requests are answered |
| `server_idle` | 1 silent client | `stop()` does not return: **violated** |
| `server_sigpipe` | no terminal | a client that leaves with answers due ends the process: **violated** |
| `ensm_fdd` | FDD part, 4 modes, 2 bandwidths (one narrow), LO in and out of range, time-outs (155 k) | between operations mode, loops, filters and LO power are as set; work happens in ALERT with loops off; success means calibrated at the LO |
| `ensm_tdd` | TDD part under pin control, also asked for FDD (465 k) | pin control survives calibrations |
| `ensm_range` | LO out of range | success reported, LO not moved: **violated** |
| `system` | the parts from `Tuner` to `Rssi` above (fifteen, with `Util`), one at a time (339 k) | see the next table |
| `rssi_weights` | the duration asked for at 20.61 MHz | the weights total 511, not 255: **violated** |
| `lo_relock` | one LO, external and back | the PLL relocks at half of the last frequency: **violated** |

The properties of `system` are one conjunction for each part; the parts of a conjunction are named
definitions, each with its own comment, and TLC names the one that fails.

| property | says |
|---|---|
| `TypeOK`, `ShownIsSet`, `OthersKept`, `CancelReverts`, `RxKept` | of `Tuner`: what is shown is what is set; the other fields and the RX delay stay; cancel reverts |
| `SweepAsAsked` | a word reads back within half a step of what was asked; no end of a sweep above Nyquist whatever is typed; the increment is the closest; the time is met within a factor where it can be |
| `BroughtUp` | commands are taken only with a chip set up, out of reset; a cold start runs on its own archive's bitstream |
| `AttenuationKept` | channels equal and in force; the code printed is this failure's; muting is undone |
| `BistInForce` | one "off" stops both generators; cache and register agree; the nearest tone; the loop's transmitter |
| `GainInForce` | a clean mode command undoes earlier failures; indices stay in their tables; the nearest gain, also across tables |
| `HandlesBalanced` | the bus counts its descriptors; nothing freed twice, nothing left by a removed part |
| `ClocksInForce` | cached rates are the registers'; limits hold; the rate of both directions is the one asked where the divider table has it; filters in force as noted |
| `SynthInForce` | the VCO tables match the pair of LOs; a rate is in force; the other LO stays; ALC words differ; power and lock bypass tracked |
| `BandsKept` | lines and ports as the band in use says, failures included; the first band that covers; a failed switch is tried again |
| `Calibrated` | both NCOs alike; success means a converging phase, a search the deepest; filters wide meanwhile and back afterwards; inversion as configured; words that fit |
| `DigTuned` | a pattern is never on the air; tuned delays pass at all rates; borrowed blocks put back; defaults without a filter |
| `SpiInForce` | an open descriptor is fully set up; an error is the last transfer's; a failed call changes nothing, a field nothing beside it; what is written is read; the arithmetic matches its definitions |
| `RssiInForce` | weights add up to 255 modulo 256, as the registers hold them, in proportion to the pieces; the measured time is the one asked, after the set-up and any clock change and at any time later (`TimeStands`) until a calibration puts its own measurement in; the step words are of the LO's range; gain words and errors of one source; a reading is the antenna's own |
| `SystemTypeOK` | types, with registers within their fields |

### Bounds, and why they are enough

* Two threads are all the firmware has. Register values are sets of the real five bits: no bound.
* Two requests per client show that the stream stays in step after a response, a bad packet or an
  unknown command; two pieces show every split there is in kind (nothing, part, rest); frequencies
  -1, 3, 9 with a word of modulus 4 (in half steps) are negative, rounded and wrapped. `Init` takes all
  four configurations. Two clients are the least that make one wait.
* `listen(fd, 1)` admits two connections on Linux, so the backlog's bound of 2 is the kernel's.
* LO 0, 1, 3 with threshold 1 give steps within and beyond the threshold; 7 is out of range. The
  loops and bandwidths are symmetric but for "narrow", so one and two of them suffice.
* `Tuner`: delays 0 and 1, of which each is an end; inversion bits are independent, so one shows a
  toggle. Any transfer may fail, and the error value is a delay, as the code reads it.
* `Sweep`: an accumulator of 8 with a clock of 12 has inexact steps; the frequencies lie at, around and
  beyond Nyquist and the sample rate, one wraps, one is negative, one NaN.
* `Attenuation`, `Bist`: values on, between and beyond steps; 32-bit products wrap in 14 bits here.
* `Gain`: three bands and both kinds of table, of unequal lengths.
* `Clocks`: rates below the filters' limit, above it and near the part's, among them one that the
  divider table has no row for; one filter, with and without decimation, on single- and double-pair
  interfaces. `Synth`: both ends of the VCO's ranges and the four divider octaves between, three calls
  (`MaxCalls`), since two LOs with a profile each show all the ways one call disturbs what another has
  left.
* `ExtBand`: two overlapping RX bands, a TX band, three lines; steps before and after.
* `Calib`: 32 phases as in the chip; windows of none, one, around the end, two. Two calls (`MaxCals`).
* `DigTune`: 4 delays (`MaxDelay`) of 16, three rates, three tunings (`MaxTunes`).
* `Util`: all words of 8 bits, bytes of 2, halves of 3. `Spi`: two registers of 3 bits, up to two
  bytes, three calls (`MaxAccesses`), so that a failure, a retry and a look at its result fit.
* `Rssi`: two calls after the set-up (`MaxRetunes`); durations of one bit, of more bits than pieces and
  of more than all pieces hold.

The theorems of section 4 hold for every value of these constants: for them a bound need only let the
interesting cases happen, so that TLC has refuted what is false before it is proved.

Deadlock is checked except in the server's runs, where the process may really end, and in `system`,
where parts end (a configuration is done, a part removed, a bound reached).

### Fairness

`server_live` and `server_idle` assume weak fairness of the server's thread and of the main thread's
own steps, that is, that the operating system runs a thread that can run. No fairness is assumed of the
user (`Exit`), of clients (`Connect`, `Send`, `Leave`) or of the hardware. Where a property needs
clients to leave in the end it says so (`ClientsLeave`), and `server_idle` shows it is needed. The
parts of `system` are calls that return: nothing must happen eventually, and none states fairness.

## 4. What is proved

For every value of the constants that satisfies the modules' assumptions:

**DdsCtrlProofs** (any set of threads, any assignment of operations). `Typing` needs no more. The
others assume `ExclusiveWriter`, the "console XOR GUI" use of `project/inc/control_server.h`:
`PulsesAreReleased`, `BitsAreIndependent`, `LevelsSettle`, `RetuneIsMuted`, `OperationsAreAtomic`.
The argument: a thread between its read and its last write is a writer, so it is the only one, so
nobody has changed the register since; hence its copy `v` equals the register but for the bit it pulses
(`CopyOK`). With that, a write changes its own bit only. `LevelsOK` adds where a retune is between mute
and unmute, during which "en" differs from what was asked. The refinement theorem maps each step to
`Give`, `Commit`, `Abort`, `Kill`, `PowerCycle` of `AtomicDds` or to a stutter.

`SuccessMeansIt`: an operation that returns success has done to the register what it says. Its
invariant `SuccessInv` adds that a thread past its reads may write; a step of another thread changes
nothing that a writer relies on.

**ControlServerProofs** (any number of clients and requests, any packet size, any configuration of the
exit, of SIGPIPE and of bind). `Typing`; `Stopped` (`StoppedIsStopped`); `Invariance`, whose conjunct
`InOrder` says that answers come in order and with their ids; `Applied` (`AckedIsApplied`);
`Answering` (`Answered`). The inductive invariant `IInv` has three parts. `Stopping` follows the main
thread: before the thread is made there is none, and `stop()` takes the descriptor away before it
waits. `Protocol` follows the packets: of each client that can still be told something, what was read
is `Parts` times its answers and the pieces of the packet at hand (`Step`); a connection is not made,
queued or the thread's, and nothing is read before it is accepted (`Queue`, `Serving`); no client has
sent more than the requests it has begun (`Pieces`). `TypeOK` bounds the rest. From `Step` an answer's
id is one more than the number of answers, which is `InOrder`; the lemmas on whole and broken packets
are `Arithmetic`'s.

**EnsmProofs** (any bandwidths, frequencies and loops). `Typing`, `Tracking`, `Filters`, `LoPower`,
`Calibrated` hold without further assumptions: `WorkInv` says for each stage of an operation what the
loops, filters and LO power are relative to what the driver remembers. `ModeIsKept` and `WorkIsQuiet`
assume `Usual`: no pin control, and modes of the part's duplex. Then `Whereabouts` holds: before
`ForceAlert` the chip is in the state of the mode last set, after it in ALERT with `prev_ensm_state`
remembering. Without `Usual` the driver can be led astray, see section 5. `PinControlKept`
(`PinsGivenBack`) assumes only that the pins lead the part to ALERT, RX or TX and never to its wait
state: pin control that a mode change asked for survives every calibration; `PinsAtWork` says where the
flag is held meanwhile.

**TunerProofs** (any range of delays, any register width, any error values). `Typing`; `RxDelay` from
the invariant that, until a read of it fails, `pdata` and the register both hold the RX delay of
start-up; `ShownValue`, `OtherFields`, `Cancelling` from `Tuned`, which says that the copy of the field
follows the screen and the other copy is the chip's content or was misread.

`InterfaceIsTuned` (`DigTuned`, any board, DAC core, rates and calls): the pattern leaves muted
transmitters only, a tuned direction passes at every rate tried, what was borrowed is given back, and
only the tuning at the start makes delays that last. `DigInv` carries what a tuning borrows (`Borrowed`),
the ENSM's state (`EnsmKept`), what the search found (`Searched`), which delays last (`Lasting`), where
the pattern is (`PatternIsMuted`) and what a board without a FIR keeps. The search for the widest eye is
a `CHOOSE` of a least element, which `Arithmetic.Least` gives; a lemma shows that the loopback's two
switches undo each other.

`BandsAreKept` (`BandsKept`, and `BandTypeOK`): for any settings, with any steps before and after
them, any LOs and any failing writes, every line is as the setting in use says but for the strays of
failed or nested switches, a switch takes the first setting that covers the LO, a switch that failed can
be tried again, and the ports are those asked for. A setting is a path of pins, and what a path leaves
on a line is a recursion over it. An induction over a set of places (`Arithmetic.Induction`) follows a
switch path by path and says, after each, which lines are driven and by which of them.

**StartupProofs**. `BringupWorks` (`BroughtUp`, any archives, manifests and parts; kills, power cycles
and new archives anywhere): commands are taken only with the chip out of reset and set up, and a cold
start runs on its own archive's bitstream. `BringupInv` follows the reset pulse (`PulseDone`,
`LowIsReset`), the set-up (`SetUpDone`) and a PL without power (`ColdIsEmpty`). `HandlesAreBalanced`
(`HandlesBalanced`, any number of parts, whichever allocation fails): the bus counts its descriptors,
nothing is freed twice, a removed part leaves nothing; `HandlesInv` says what is allocated at each step
of an initialisation and of its error path.

**FrequencyProofs**. `SweepIsAsAsked` (`SweepAsAsked`, any clock, width of a word and inputs): words
read back within half a step, no end of a sweep is above Nyquist, the increment is the closest one, the
sweep's time is met within its factor. `SweepInv` says that the registers come from what was asked
(`Asked`, `TimedBy`); the rest is rounding, from lemmas about the nearest multiple. The scale is assumed
to be even, as kFtwScale = 2^24 is. `SynthesisersInForce` (`SynthInForce`, any frequencies, ALC words
and calls): `SynthInv` says of each LO that its VCO table is the pair's (`Matched`), and that a
frequency noted is one allowed, its word is its dividers' unless the LO is external, and it is in force
unless a fastlock profile is (`Noted`); an LO's frequency at start-up is assumed within the part's range.

`ClocksAreInForce` (`ClocksInForce`, any rates, filters, boards and failures): the rates remembered are
the registers', no clock exceeds its limit, a rate that was set is that of both directions, the filters
are as noted. The argument goes clock by clock. A chain that `Calculate` gives is the first row of the
divider table that serves, so each of its divisions is one its stage has (`ChainFits`, by cases over the
rows); written from the top, each stage is asked for a quotient of its parent's rate and finds that
division again by rounding (`RoundedBack`, `SetsStage`), so what is in the chip is the chain
(`WrittenIsChain`). `ClocksInv` adds the types. The first attempt failed for a good reason:
`RateAsAsked` excused too little. It named rates with no row by a bound on the ADC's rate that 40.01 to
53.33 MHz satisfy and yet are two thirds of what was asked; the exception is now the code's own, sixteen
times the rate above the ADC's limit with the receiver's FIR decimating by 4 and the transmitter's
interpolating by less.

**RadioProofs**. A command is several transfers and any may fail. `GainModesInForce` (`AgcInv`): after a
clean mode command both receivers are in the mode noted. `GainIsInForce` (`GainInForce`): the index is
in its table, no gain of the table is nearer, and a change of table keeps each receiver's gain as nearly
as the new one can; it rests on the tables being in ascending order, which is an assumption on them that
`ad9361.c:479-600` meets. `AttenuationIsKept` (`AttenuationKept`): `AttInv` ties the saved pair to the
one set (`MuteSaved`, `MutedPair`) and the code printed to this failure (`CodeIsThisFailure`).
`SelfTestInForce` (`BistInForce`) assumes that five times the sample clock fits 32 bits, which holds up
to the part's 61.44 MHz; `BistInv` says that the cache is the register and that the tone noted is its.
`CalibrationsAreSound` (`Calibrated`, any clocks, bandwidths, windows of phases and time-outs): between
calls the inversion is kept, a tuning clock is no faster than the bandwidth needs, its words are within a
128th of a MHz and a capacitor fits; NCOs match, filters are wide enough meanwhile and back at the
bandwidth; success means a phase that converges, and a forced search one no other lies deeper. `CalibInv`
says that each filter is one that some bandwidth and BBPLL make (`RxMade`, `TxMade`); what such a filter
is like is arithmetic (`RxMadeFits`, `SecondFacts`). The search rests on an invariant of the scan
(`Knows`: the longest run that has ended, and the one that has not), so that it finds a longest run of
zeros in whatever it is given (`FindOptFacts`). A phase of depth m has 2m + 1 zeros around it in the field
scanned, twice around the circle; the run found is as long, so its middle is as deep
(`SearchedIsDeepest`). A run that times out is never success, whatever its bits (`Sound`).

`StrengthIsMeasured` (`RssiInForce`, any rates, durations, LOs, stored tables and strengths): one source
for gain words and errors, the range's row, a reading of its own antenna; the time measured is the one
asked for to a sixteenth, or all the pieces can hold, and stays so whatever changes later until a
calibration puts in its own; each weight is its piece's share to within half a
step, and the last takes the rest, so that they add up in the registers' arithmetic. Where shares round
up, the rest is -1 and the weights total 511: `rssi_weights`, section 5.

Definitions were restated while they were proved about, none to say something else: overlapping guards
of a CASE, from which TLA+ may choose any, are now an ordered IF, as in the code (`Synth.OtherAlc`,
`Clocks.Parent`); folds over sequences became recursive functions or the few pieces they were
(`Calib.FindOpt`, `ExtBand`'s ports, `Rssi`'s pieces), since a function defined by recursion on numbers
can be reasoned about: `Arithmetic.Iteration` says that it exists, from the library's theorem on
well-founded recursion, and `Induction` what all its values have. Assumptions on constants that proofs
needed are named in the modules, and the runs evaluate them.

What stays with TLC: liveness under fairness and facts about ENABLED (`StopReturnsOnceAlone` and its
like); `SpiInForce` and `Util`, which use bitwise operators and RECURSIVE loops, and with them
`SystemTypeOK` as a whole; its conjuncts for `Sweep`, `Bringup`, `Attenuation`, `Bist`, `Agc`, `Gain`,
`Handles`, `Clocks`, `Synth` and `ExtBand` are parts of the invariants above.

## 5. Where code and documents part

Shown by runs, with quotes in `PROJECT.json`:

* `dds_race`: with console and GUI both in use a reset or an enable is lost, or reset stays on. The
  header names this as a known limitation; nothing enforces the one-at-a-time use. A disable during a
  retune, undone by its unmute, is the same lack of a lock: `CommandsAreAtomic` is checked and proved
  for an exclusive writer and says nothing of two.
* `server_idle`: `stop()` waits for ever for a thread in `recv()`; leaving the menu hangs.
* `server_sigpipe`: a client sends two requests and closes; the first response makes its side reset the
  connection, the second ends the process by SIGPIPE.
* `ensm_range`: an LO out of range is reported as set.
* `lo_relock`: back from an external LO the PLL locks at half of its last frequency.
* `rssi_weights`: at 20.61 MHz, the duration this firmware asks for makes four weights whose shares
  round up to 256; the last becomes -1, written as 255. The comment above promises a total of 0xFF.

Seen while reading, with no run of their own. The DDS, the console and the start-up:

* Nothing in start-up clears a pulse that a kill cut short (`PulsesReleased` excuses it by `torn`): the
  DDS stays in reset until the next reset or power cycle.
* After a kill in the middle of a load pulse, `restart_lfm()` reports success with no edge
  (`dds_ctrl_gpio.h:52`, `dds_ctrl_gpio.cpp:91`); the next one works.
* A failed read of the RX delay is stored in its driver copy, and the next write of the TX delay sends
  it to the RX delay register (`ad9361.c:7655`, `7670`, `7713`); `RxKept` excludes such reads.
* `load.sh:3-4` deploys an archive and starts it; `main.cpp:967` and `978` skip bitstream and overlay
  when the PL operates, so a new archive's bitstream takes effect at the next power cycle only.
* `dds_ftw_gpio.h` gives the output as f_clk / 2^24 per unit, `iq_forge` computes with clk / 2.
* `control_server.h` lists `nack_bad_arg`; the server answers a negative frequency with `nack`.
* `act_lfm_read` (`main.cpp:695`) may print an empty error text. The attenuation printed after a set
  is the one typed, not the step it was rounded to. `shim.h` says mask 0x3 for TX1, `main` passes 0.
* A BIST tone below clk / 64 wraps to the highest tone; the prompt's "0 for DC" gives clk / 32.

ENSM and pins:

* `ad9361_shim.h` says `ad9361_set_tx_lo_freq()` "does NOT recalibrate"; with auto-calibration on, as
  `ad9361_setup()` leaves it, `ad9361_rfpll_set_rate` does for a large step.
* `ad9361_ensm_set_state` refuses an invalid transition from ALERT and carries it out from any other
  state, with the return value 0 (`RefuseMode`, `SetMode`).
* `ad9361_ensm_force_state` returns before it sets `ensm_pin_ctl_en` when the part is in ALERT already
  (`ForceAlert`); a later restore then acts on an old flag: set PINCTRL, calibrate, set ALERT,
  calibrate, and the pins are in control again. The firmware itself never asks for pin control.
* `ad9361_ensm_mode_disable_pinctrl` says it forces TDD SPI mode and passes `fdd = true`; unused here.

Gain, resources, rates:

* `ad9361_set_rx_gain_control_mode` always returns 0 and turns RX2 on on a board without it
  (`ad9361_api.c:956`); on boards of the second receiver the measurement's duration stays that of the
  previous mode; a `clamp` to `uint8_t` in `ad9361_gc_update` truncates before it clamps.
* A failed `ad9361_init()` leaks its GPIO and SPI objects.
* `ad9361_set_{tx,rx}_sampling_freq` ignore a refusal; `clk_set_rate` always returns 0. Where the
  divider table has no row for the transmitter, which is above an ADC rate of 640 MHz with the receiver's
  FIR by 4 and the transmitter's by less, its rate is two thirds of the receiver's with success
  (`RateAsAsked` excludes it). Loading a filter notes any decimation, and only enabling checks it
  (excluded by an assumption). Disabling a FIR filter below 25 MHz / 12 fails and notes a bypass;
  `ad9361_trx_load_enable_fir` with filters on does not apply the new decimation.

LOs, bands, calibrations, interface:

* `ad9361_get_{rx,tx}_lo_power` answer the opposite. The cached rate of an LO is stale after a
  fastlock recall and a change of the mux; the dummy clocks' first rates are in Hz (`ad9361.c:7314`);
  the rewrite of the other LO touches the divider of an external one.
* After a band switch that failed, going back to the band in use is skipped, and the lines it had
  written stay as they are (`stray`, `ad9361_ext_band_ctrl.c:63`); a failed step after the band is never
  tried again; pins two directions share are not driven again. Selecting a TX output
  with an RX monitor selection writes that number's bit. `ad9361_ext_band_ctrl.h:80` and `86` promise
  to leave the other port alone; the code passes 0 for it (`ctrl.c:146`, `168`).
* The quadrature search is not started for the last phase (`ad9361.c:3268`).
* With skip mode 1, the tuning leaves `phy->bist_config` at PRBS, so the next one leaves the pattern
  injected. A tuning that is skipped, or only restores, unmutes without having muted and writes a stale
  attenuation. On newer cores the loopback is requested on twice, which switches it off. The comment
  at `ad9361.c:4416` says tuning is run again at every clock change; RESTORE_DEFAULT only restores. A
  centred eye is split at difference 0 and not found centred.
* `no_os_mul_u64_u32_div` adds the upper half of a low product twice; unused here.
* The gain step calibration overwrites the RSSI mode and duration just set up, until the next clock
  change (`TimeStands` excuses it); step words of an earlier LO stay; a duration of 0 writes `weight[-1]` (`ad9361.c:4369`, excluded by an assumption); the
  `rssi_db_x_1000` of a TX reading has its hundredths without a factor 10; 15 mixer errors are
  calibrated, 16 stored.

## 6. Plan

Done, in this order because the DDS register is what both threads and every restart share, the server
is the only concurrent code, and the ENSM is what the radio's correctness hangs on: `DdsCtrl` with
`AtomicDds`, `ControlServer`, `Ensm`, `Tuner`; then the single-threaded parts in `MCSystem`, first
those the console reaches, then the driver's state behind the API; and the proofs in the same order.

Next, most important first:

1. The server's part of the DDS register as an instance of `AtomicDds`, so that `ControlServer` and
   `DdsCtrl` compose through it; `Ensm` with `Synth`'s rates.
2. `Ensm` with failing SPI transfers and the RX LO.

Runs stay few: one passing run per question; what one thread computes shares `system`.

## 7. Not modelled

* SPI transfers succeed in `Ensm`, `Synth`, `Gain`, `Calib`, `DigTune` and `Rssi` (the driver ignores most results
  there; time-outs are what their error paths are written for). The other modules have them fail.
* The analog part: what a filter does, when a calibration converges, how long the part stays in a
  transient state.
* Error texts, and with them the data race on `m_dds_ctrl_gpio_last_error`, undefined behaviour that no
  property of the model could tell. The prompts and menus of the console.
* Straight-line register initialisation with no state of its own: AGC thresholds, auxiliary
  converters, GPOs, TX monitor, temperature, clock output, the parsing of FIR files and of parameters;
  multi-chip synchronisation and lane delays, which need other chips or callers that are not here.
* `iio_ad9361.c`, which the build leaves out: a text protocol over the API. `ad9361.h` and the default
  parameters: registers, masks and data, read by the modules that use them.
* The FPGA loader (a submodule that is not part of the tree), scripts but for the kill and the
  replacement of the archive, configuration data, continuous integration.
