# SDDC_Driver in TLA+

This directory holds a formal model of SDDC_Driver, the host library and SoapySDR
module for the RX888 family of direct sampling receivers, and of the firmware of
their FX3 controller: TLA+ modules, the TLC
configurations that check them, and theorems checked by the TLA+ proof system.
`PROJECT.json` lists the runs, the source lines each definition stands for, the
hazards and the properties that cover them.

## The system

    host application
       | setters, readStream                                    ^ samples
    SoapySDDC  --  RadioHandler  --  RX888R2Radio               | SoapySDDC::Callback
                        |                 | control requests    |
                        |                 |              submit thread <==iq_buffer== r2iq thread
                        |                 |                     ^                        ^
                        |                 |                     +-- Start(false) --+-- real_buffer
                        v                 v                                        |
                     fx3handler: control transfers, poll thread with 16 bulk transfers
    ====================|=================|================================= USB ==========
    FX3 firmware:  USB thread (requests, events) -> event queue -> application thread
                        |                 |
                   GPIF, DMA, ADC    I2C: tuner R828D, clock; GPIO register

| Component | Code | State it keeps | Operations | Talks to |
|---|---|---|---|---|
| Block ring | `Core/dsp/ringbuffer.h` | two indices, a count, a stop flag (atomics), a mutex, two condition variables | acquire/commit, acquire/release, Start, Stop | the two threads at its ends |
| Pipeline control | `Core/RadioHandler.cpp` | `streamRunning`, `r2iqEnabled`, two threads | Start, Stop, Pause, Resume | converter, USB, hardware |
| Converter | `Core/fft_mt_r2iq/` | `r2iqOn`, a thread, the output block in hand, tuning bin, decimation | TurnOn, TurnOff, setFreqOffset, setDecimate | both rings |
| USB front end | `Core/arch/linux/FX3handler.cpp` | its own `streamRunning`, the poll thread | Open, StartStream, StopStream, PacketRead, control requests | transfers, raw ring |
| USB transfers | `Core/arch/linux/streaming.cpp` | status, count of active transfers, 16 transfers | open, start, stop, close, the callback | libusb |
| Soapy stream | `SoapySDDC/Streaming.cpp`, `Callback` | 16 buffers, indices, atomic count, overflow and reset flags, block in hand | setup, activate, read, deactivate, close | RadioHandler, application |
| Soapy settings | `SoapySDDC/Settings.cpp` | antenna, rate, frequency | setAntenna, setFrequency, setSampleRate, setGain, writeSetting | RadioHandler |
| Radio control | `Core/RadioHandler.cpp`, `Core/radio/*` | copies of pins, gains, frequency, rate and mode; the fine mixer's shift | the setters behind those of Soapy | control requests, converter |
| Device access | `Core/arch/linux/usb_device.cpp` | libusb handles | enumerate, open with firmware download, control | libusb |
| Firmware: requests | `SDDC_FX3/USBhandler.c`, `RunApplication.c`, `StartStopApplication.c` | application active flag, event queue, DMA channel, GPIF | vendor requests, SETCONF, RESET, commands | USB, GPIF, I2C |
| Firmware: console | `SDDC_FX3/DebugConsole.c` | trace buffer and its length, input buffer | DebugPrint2USB, READINFODEBUG, commands | both firmware threads |
| Firmware: tuner driver | `SDDC_FX3/driver/tuner_r82xx.c` | shadow registers, cached input, gain index | init, tune, standby, gains | I2C |

What is hard in it, and what makes it correct:

* Four threads (poll, r2iq, submit, statistics) and the user's thread meet at two
  rings and at plain flags that are read without a lock. Rings must hand each block
  to one side only, lose no wakeup and keep order (`Ringbuffer`).
* Start and Stop take the pipeline apart in a fixed order of flags, ring stops and
  joins. Stop has to return wherever it catches the threads, and nothing of a
  session may remain in the next (`StreamPipeline`).
* The USB callback runs in whichever thread handles libusb events, on transfers that
  complete, time out or fail in any order; each path has to account for its transfer
  (`UsbStreaming`).
* Soapy's callback and `readStream` share their queue without a common lock, and
  the reader may throw the queue away at any moment (`SoapyStream`).
* The host answers from copies of what it told the device and saves transfers when a
  copy has the value already. The setters come in any order, each has to restore what
  the others had computed, transfers fail, and the device outlives the process
  (`RadioControl`, with the arithmetic in `R2iqBins` and `GainSteps`).
* In the firmware the USB thread preempts the application thread, they share a queue,
  `Qevent` and the trace buffer without a lock, and the host acts as soon as a request is
  acknowledged, dies in the middle of a stream or resets the bus (`Fx3Firmware`).
* The tuner driver changes its shadow of a register before the write that may fail, and
  features that belong together share a register (`R82xxTuner`, with the arithmetic of the
  oscillator in `TunerPll`).

## Modules

| Module | What it is |
|---|---|
| `SampleQueue` | abstract specification: a bounded FIFO that can be closed and reopened, whose consumer looks before it takes |
| `Ringbuffer` | `ringbuffer.h`, one action per atomic step or critical section; refines `SampleQueue` |
| `RingbufferProofs` | the inductive invariant of `Ringbuffer`, the safety theorems, and the proof that it implements `SampleQueue` |
| `StreamPipeline` | RadioHandler, converter, poll, submit and statistics threads and both rings; uses the rings as `SampleQueue` describes them and the transfers as a count |
| `StreamPipelineProofs` | its inductive invariant, the theorems for all its safety properties, and the proof that it counts transfers as `TransferCount` does |
| `TransferCount` | abstract specification: the transfers of a stream as a status and a number, with the steps of StartStream, StopStream and the poll thread |
| `UsbStreaming` | the transfers one by one, StartStream and StopStream; refines `TransferCount` |
| `UsbStreamingProofs` | its inductive invariant, the theorems for all its safety properties, and the proof that it implements `TransferCount` |
| `SoapyStream` | the SoapySDR block queue, with RadioHandler reduced to "the callback runs between Start and Stop" |
| `SoapyStreamProofs` | its inductive invariant and the theorems, the order of blocks included |
| `R2iqBins` | arithmetic of the converter: tuning bin, rest for the fine mixer, pieces of the spectrum, filling of a block |
| `GainSteps` | how a gain step is chosen from a table |
| `RadioArithmeticProofs` | that the pieces lie inside the FFT and the output, for all sizes, offsets and decimations, and that the gain step is the nearest one, for every table |
| `RadioControl` | the setters of the whole host stack against the registers of the device; EXTENDS `R2iqBins` and `GainSteps` |
| `MCRadioControl` | gain tables small enough for TLC |
| `RadioControlProofs` | its inductive invariant and the theorems for all its properties |
| `Fx3Firmware` | USB thread, application thread, console and sample path of the firmware, with a host that may die |
| `Fx3FirmwareProofs` | its inductive invariant and the theorems for all its safety properties |
| `TunerPll` | arithmetic of `r82xx_set_pll`: divider, integer and fractional word |
| `R82xxTuner` | the tuner driver's requests over shadow registers, chip and failing I2C transfers; EXTENDS `TunerPll` |
| `R82xxTunerProofs` | the accuracy of that arithmetic, the inductive invariant of the driver, and the theorems for all its safety properties |

How they fit: `StreamPipeline` replaces each ring by a sequence with a stop flag.
That is justified by the refinement `Ringbuffer => SampleQueue`, which in turn assumes
that Start is called with idle endpoints; `RingsStartIdle` of `StreamPipeline`
discharges that assumption. Both are proved. It also replaces the transfers by their
number. That this number is right is `ActiveIsExact` of `UsbStreaming`; that it behaves as in
the pipeline is `RefinesCount`: `UsbStreaming` and `StreamPipeline` both implement
`TransferCount`, and what `TransferCount` lets libusb and the device decide the pipeline
allows too (`NoTransferEventIsMissing`), so the number hides no event of a transfer. All of this is
proved. `UsbStreaming` takes from the pipeline that PacketRead returns. `SoapyStream` uses of RadioHandler what `StoppedIsQuiet` says:
after Stop no callback runs. `RadioControl` sees the device as registers that a transfer
reaches or not; what the firmware makes of the two requests with more behind them,
TUNERINIT and TUNERTUNE, is `R82xxTuner`, and of STARTFX3 and STOPFX3 `Fx3Firmware`.

### Ringbuffer

Each thread has a control state in `pc`; the header of the module lists them.
`SpinStopped` and `SpinTest` are the two loads of an iteration of the lock-free loop,
`LockAndWait` is `wait(lock, predicate)`, the three actions of a commit and of a release
are: check and index store under the mutex, count store and unlock, notify. Stop
notifies with the mutex held (`StopSet`, `StopNotify`). Waiters may wake for no reason.
A writer may walk away from its block (`Abandon`), as the converter does on Stop.
The reader's data is modelled (`buffers`, `got`) so that a torn or overwritten block
shows in the refinement. Not modelled: the telemetry counters, and the calls
(`push`, `pop`, `peek*`, `WaitUntilNot*`) nothing in the library uses.

### StreamPipeline

`pc["app"]` walks through Stop and Start statement by statement where another thread
could notice; `Join` blocks while its thread runs and goes to "crashed" if there is no
thread (std::thread throws). The plain flags are modelled as if every read saw the
last write: their loops call functions the compiler cannot look into, so the loads are
not hoisted; reads that lag behind are interleavings the model has. A block is
represented by the session in which its samples arrived, so `FreshData` can tell old
from new. A transfer that has completed or timed out is handled some time later, perhaps
after a Pause or a Resume, so the two callbacks do not look at `device`; a transfer times out only
if the user pauses the device at all (`CanPause`). PacketRead returns at once when the ring is
stopped, and the transfer is submitted again all the same (`Resubmit`).
The actions of the app are the parts of Stop (`StopSteps`), of Start (`StartSteps`),
and Pause and Resume, which only talk to the device.

### UsbStreaming

`transfer[t]` follows each libusb_transfer from submission to callback. `Callback` is
shared by the poll thread and by the drain loop of streaming_stop, as in the code.
`TransferFailed` has no effect on other transfers: the loop meant to cancel them
cancels the finished one, once for each active transfer. The stream is open for the rest of
the host from the end of streaming_start to streaming_close; `Counted` and `Stage` map it to
`TransferCount`, where `CancelAll` and the finishing of a transfer are stuttering steps.

### SoapyStream

One action per access to a shared variable of Callback and of acquireReadBuffer.
Callback's count is raised under the mutex, the reader's predicate is evaluated under
it, so each is one step. A block is its number, which makes order, loss and repetition
visible. `first`, `last`, `reported` and `swallowed` are history variables. A half
read block stays in hand between two calls (`bufferedElems`).

### R2iqBins and GainSteps

`TuningBin` and `Rest` are `setFreqOffset`; offsets are fractions, so the rounding to an
aligned bin is exact where the code's float is not far off. `UpperLen`, `LowerStart` and
the two sources are the copies and fills of `fft_mt_r2iq_impl.h` around the tuning bin. `NearestStep` is the
search of `SetRFGain` and `SetIFGain`.

### RadioControl

A call of SoapySDDC's setters is one step from a state `s` of host and device to the state
it returns in: the setters take no lock against each other and the application calls them
from one thread. The operators on `s` are named after the methods, and each carries the early
return of the code: after a failed transfer the rest of the call does not happen.
`hw` are the members of RadioHardware, `dev` the registers of the device. The converter
thread appears as the decimation it has picked up (`thread`), because it reads it once.
`Close` and `Open` end and begin a process; `dev` stays, and `PowerCycle` is the plug. `hist`
remembers what the properties need: was a transfer lost, how often was VHF entered, has
the device ever got the word of the pins.

The properties say where the code keeps host and device together, and their conditions
where it does not: after a warm open the device keeps VHF_EN and bias voltages of the
session before (the host starts with an empty copy, so clearing a pin sends nothing);
VHF entered again at the same frequency is not tuned again; `setFrequency` before
`setSampleRate` computes with the default ADC rate of 1 MHz, which takes everything from
500 kHz up for VHF; a rate change while streaming leaves the converter on its old
decimation; a failed STARTADC keeps the new rate in the copy, so that trying again sends
nothing; the limit of 8 MHz in VHF is not checked again when the antenna changes.

### Fx3Firmware

`usb.pc` is the driver's thread in the setup and event callbacks, statement by statement
where it sleeps or the other thread sees a difference. `AppThread` waits for the queue,
copies an entry to `Qevent` and acts on it. Both print through `DebugPrint2USB`, which tests
for room, may sleep, and appends. A sample is "new" until the next STARTFX3 makes it
"old"; it passes the GPIF, the DMA buffers and the endpoint. A control transfer towards the
device is acknowledged when its data has been read, so `host` goes on while `usb` works.
Left out: the UART, the branch of InitializeUSB without re-enumeration, CLEAR_FEATURE,
RESETFX3 and the reset command, and what requests to chips do there.

### R82xxTuner and TunerPll

A request is one step, since the USB thread serves one at a time and the host learns no result.
`fault` is which of its transfers fails and whether it reached the chip; after the failed one
every later `SetField` or `Write` leaves the state alone, and the shadow is changed already, as
`r82xx_write_arr` leaves it. `SetField` is `r82xx_write_reg_mask` with the mask of one field: the
rest of the register comes from the shadow. `lock` says whether the oscillator locks. Registers are records of the fields that properties are about; a write elsewhere is `Others`, or
`Resend` if it is to another field of such a register, and counts as a transfer. The
fractional word has 64 steps instead of 65536 for TLC's 32 bit integers; the theorems have no such
limit. `chip.fine`, the fine tuning the driver reads from the chip, never changes: an assumption.

`TunedAsRequested` reads the registers by their description (tuner_r82xx.c:189-195: codes 0 to 5
of SEL_DIV take the oscillator to the mixer by 2 to 64), not by the driver's arithmetic. For every
fine tuning it says that the oscillator runs at the LO times a divider that fits. What the mixer
gets it says for a fine tuning of 1 only, the `vco_power_ref` of the R828D (`VcoPowerRef`).
With another reading the driver moves the code by one (1031-1034); by the description
the LO would then be off by a factor of two, or the code one that is not described. The
repository says neither what such a reading means nor that the chip makes up for it, so nothing is
assumed about it. That the reference is 1 is the code's claim for this chip
(1026-1027); the mutant that keeps the 2 of the other chips violates the property.

The second turn of `set_freq64`'s loop is made only if the first is not made or does not lock, so
`TurnLocks` leaves out pairs of outcomes that differ in nothing.

## Runs

All bounds are constants of the configurations.

| Run | Bounds | What it shows |
|---|---|---|
| `ring` | 3 blocks, 2 spins, 2 contents | `ExclusiveBlocks`, `NoMissedSignal`, `RefinesFifo`, `StopUnblocks`, `ReadyUnblocks`: three blocks give an empty, a partly filled and a full ring with wrapped indices; two contents tell blocks apart |
| `pipeline_safety` | both modes, 2 blocks, 2 transfers, ratio 2, Pause and failures allowed | `OneReader`, `StoppedIsQuiet`, `FreshData`, `RingsStartIdle` |
| `pipeline_iq_live` | I/Q mode, 2 blocks, 2 transfers, ratio 2, no failures | `StopReturns`, `SamplesArrive` |
| `usb` | 3 transfers, any may fail | `ActiveIsExact`, `NoFreeInFlight`, `RefinesCount`, `StopDrains` |
| `soapy_safety` | 3 buffers, 2 elements, 9 blocks | `IndicesAgree`, `NoTornBlock`, `NoMissedBlock`, `BlocksInOrder`, `GapIsReported` |
| `radio` | 2 sessions of at most 5 calls, one failed transfer per session; 5, 20 and 100 MHz; 8 and 16 MHz rates; two gains, one pin | `WindowInRange`, `HearsRequest`, `PinsAsReported`, `StartsAtReportedRate`, `GainIsNearest` |
| `firmware` | queue of 2, console of 1, room for one trace message, 1 DMA buffer | `NeverHangs`, `FreshAfterStart`, `StreamRuns`, `ConsoleOverrun`, `CommandRuns` |
| `tuner` | 3 frequencies, 2 readings of the fine tuning, one step of each gain, one failed transfer from one TUNERINIT to the next, among the first 18 of its request | `TunedAsRequested`, `InputFollows`, `GainAsRequested` |
| `pipeline_real_stop`, `pipeline_start_fails`, `soapy_restart`, `tuner_vga` | | expected violations, see Findings |

Every run but `pipeline_iq_live` and the violations also checks its `TypeOK`.

The code has 64 ring blocks, 16 transfers, ratios 1 to 64 and 16 Soapy buffers. The
control flow tells empty, partly filled and full apart, and the first, a middle and
the last block of a group; two or three of each reach all of these, and what depends
on the number itself is proved for every number. Nine Soapy blocks fill
three buffers three times, enough for an overflow in each of two activations and
blocks after it. The session number runs modulo 3: blocks survive at most
one restart of the rings.

In `radio`, 5 MHz is always HF, 100 MHz always VHF, and 20 MHz changes sides with the ADC
rate; five calls set antenna, rate and frequency in every order, with two left to fail or to
disturb; the second session opens a device that kept its registers. In
`tuner` two frequencies lie on either side of the change of the input, the upper one is tuned
with or without the harmonic, the third has no divider and always needs it, and 18 transfers reach the
end of a whole tuning. Of the two readings of the fine tuning, 1 leaves the code of the divider alone and
2 takes that of the upper frequency from 0 to 7.
In `firmware` a queue of 2 can be empty, hold one entry behind another and be full, and one
message fills the trace buffer, so that a second waits for room.

Deadlock checking is on for `ring`, `pipeline_iq_live`, `usb`, `firmware`, `tuner` and, with
the bounded number of blocks, `soapy_safety` (the reader can still time out). It is off for
`pipeline_safety` and the violation runs of the pipeline, where Stop may hang and a
bad join ends the program, which those runs are about, and for `radio`, whose
application is done after its last session.

### Fairness

Liveness runs assume weak fairness of every thread inside a call, and strong fairness
where a thread competes for a mutex (`LockAndWait`, `CommitIndex`, `ReleaseIndex`):
the operating system schedules threads and its mutexes starve nobody. In the pipeline
a sending device completes transfers again and again, a transfer of a silent one times
out (BULK_XFER_TIMEOUT), and libusb_handle_events returns to the poll loop; this fairness is
strong, because the poll thread is inside libusb only now and then. In the firmware
the two threads run and finish what they print, as ThreadX schedules both and every wait is
a sleep with an end; nothing is asked of the host. The user never has to call anything,
nothing has to fail, and nobody has to call Stop: `StopReturns` is about a Stop that was
called.

## Theorems

Every safety property of all passing runs is a theorem for every value of the constants that
satisfies the assumptions of its module.

**The ring** (`RingbufferProofs`), for every `MaxCount` and `SpinCount` greater than 0, every
`Data` and `NoData` not in it. `RingInv` strengthens the type invariant with *who holds the
mutex in which state* (`MutexInv`), *how the indices and the count relate*, also between the
two stores of a commit or release (`IndexInv`, by way of `Stored`), and *that an endpoint that
owns a block holds the one at its index while the count leaves room for it* (`OwnerInv`). None
of the checked invariants is inductive without these: whether the two blocks differ follows
only from the distance of the indices. From it follow `TypeCorrect`, `BlocksAreExclusive` and
`SignalsAreNotMissed`. `FifoInvariant` adds what the refinement needs (what was filled
or looked at stays as it is) for `RingRefinesFifo`: every step of the ring is a step of
`SampleQueue` or leaves its variables alone.

**The pipeline** (`StreamPipelineProofs`), for every `Cap`, `Transfers` and `DecRatio`, every
set of modes, with Pause and with failures. `PipelineInv` is the conjunction of

* `TypeInv`: types of control states, flags, rings, transfers and blocks;
* `LifeInv`: which threads, flags and transfers exist at each statement of Start and Stop.
  Between calls the pipeline is quiet, in a session, or partly started by a Start that failed;
* `HoldInv`: what a thread knows of a ring because it is alone at one end, as that the block
  it looked at is still the first;
* `FreshInv`: while the converter has a thread, rings and the block in hand carry samples of
  this session only.

`TypeCorrect`, `RingsHaveOneReader`, `StopMeansQuiet`, `DataIsFresh` and `RingsAlwaysStartIdle`
follow. The last is the assumption under which `RingRefinesFifo` lets the module use rings as
sequences. `PipelineRefinesCount` maps every step of the five threads to a step of
`TransferCount` or to none; it needs `LifeInv` to know that no transfer is open where Start and Stop do
not say so. `NoTransferEventIsMissing` goes the other way, for the steps libusb and the
device choose; this direction found events that an earlier version of the module lacked (a completed
transfer handled after Pause, a timeout handled in the drain).

**The transfers** (`UsbStreamingProofs`), for every number of transfers. `UsbInv` adds to the
type and to `ActiveIsExact` what is submitted while streaming_start is on its way
(`StartInv`), what the poll thread holds in the callback (`PollInv`) and that nothing is
counted when nothing runs (`IdleInv`). From it `CountIsExact`, `FreesAreSafe` and
`DataOnlyStreaming` (the status does not change under a callback that has passed its check).
`TransfersRefineCount` needs of it that a finished transfer is still counted, which is
`ActiveIsExact` again, and `FlagInv`: what `fx3handler::streamRunning` is at each stage, and that
no transfer fails where none may.

**The Soapy queue** (`SoapyStreamProofs`), for every number and size of buffers, under the
assumption `RestartMidBlock = FALSE`: no block is half read when the stream is set up or
activated. Without it the theorems are false, which is the finding `soapy_restart`.
`QueueInv` adds to the type how the write index, the read index and the count make a queue of
consecutive blocks at each step of the callback and of a discard (`IndexInv`), and what each
side has tested (`CallbackInv`, `ReaderInv`). `OrderInv` adds that the queued blocks are sorted and
newer than the last one handed out. From them `IndicesAlwaysAgree`,
`BlocksAreNotTorn`, `NoBlockIsMissed` and `BlocksAlwaysInOrder`. `GapInv` says where in the queue
a number can be missing and by what each gap is covered: by the pending event, by an OVERFLOW
just returned, or by the event that was swallowed while the reader cleared one. The last covers one
gap only, because the reader has emptied the queue before (`ClearInv`): a block can be dropped
again only once all buffers are full, so the gap is behind the last of them. From it `GapsAreReported`.

**Arithmetic.** `RadioArithmeticProofs`, for all sizes that satisfy `BinsAssumption` (the code's
5120, 1024, 20 and 8 do): the tuning bin is an aligned bin of the spectrum, its turns between two
FFTs are whole (`TuningBinAligned`), the pieces of the spectrum lie inside both arrays
(`WindowAlwaysFits`), are the bins they should be (`WindowIsSpectrum`), and fill a block
exactly (`BlockIsFilled`); no gain step is nearer than the one chosen (`NearestStepIsNearest`).
`R82xxTunerProofs`: the words written are the oscillator's frequency to half a step
(`PllAccurate`), and at most one divider fits (`OneDivider`), which is why the model's choice is
the loop's.

**Radio control** (`RadioControlProofs`), for all rates, frequencies, gain tables and settings, any
number of sessions and calls, and a transfer lost anywhere. `RadioInv` has a part that holds always
(`Sound`: types, indices inside their tables, a rate and decimation that belong together), and a
part for an open session (`InUse`): as long as no transfer was lost, that ADC rate, sideband, VHF_EN
and the tuner are what the copies say (`Agreed`) and the ADC rate is the reported one times the
decimation (`RateAgreed`); and under the conditions of `HearsRequest`, that the frequency last set is what
device, bin and fine mixer together receive (`TuningDone`, `TunedTo`). Between sessions it says that only a device that was never used is as
powered up. It is needed because a setter writes from copies that other setters changed: that
`setAntenna` restores the frequency follows from what `setFrequency` left, not from its own
text. The steps of a setter are lemmas of their own (`...Step`), from which each property follows.
`GainIsNearest` is checked on pairs of states, which do not show the call: any gain of the
configuration may explain a step. `GainAnswersCall` is the stronger statement, proved and too slow for
TLC: each call takes the stage of its own name to the step nearest to its own gain.
The proof made two assumptions explicit: frequencies are positive (0 stands for "never tuned" in
the host), and the bin the converter starts with, a quarter of the half spectrum, is a multiple of the
alignment (5120 / 4 and 20 in the code).

**Firmware** (`Fx3FirmwareProofs`), for every length of queue, texts and console and every number of
DMA buffers. `FirmwareInv` is types (`ThreadType`, `SampleType`), the console's index
(`ConsoleInv`), and three facts that none of the properties implies. `RequestInv`: the host waits for the
request the USB thread is at. `ApplicationInv`: while the application is stopped or started the
host has no device, and otherwise `glIsApplnActive`, channel and GPIF agree; so `NeverHangs`, which speaks
of the channel only, rests on what the host can ask for. `SampleInv`: once the host has been told that
the stream stands still no transfer is set, and without one no sample is on its way; so `FreshAfterStart`
holds although STARTFX3 flushes nothing. From them `FirmwareNeverHangs`, `SamplesAreFresh`,
`StreamKeepsRunning` and `ConsoleStaysInside`.

**The tuner** (`R82xxTunerProofs`), for every reference, oscillator range and resolution, all
frequencies and gain steps, and a transfer that fails anywhere. `TunerInv` adds to the properties
that the *shadow* has the gains too (tuning writes register 5 from it), that register 5 of the chip is the
shadow's with the cached input until a transfer fails, and that the driver reckons with the
host's IF since TUNERINIT. Each routine of the driver has a lemma that says what it leaves alone
(`Retuned`, `Attempted`, `Gained`) and what it has written if it succeeds (`Generates`); the
arithmetic above turns the latter into `ChipIsTuned`: the divider chosen is one that fits, the word is
the oscillator's, and, for the reading that leaves the code alone, the description's divider for that
code is the one chosen (`FieldIsDivider`). `InputIsFollowed` and `GainIsKept` follow
as well. `PllAssumption` has the condition this needs: the oscillator's upper limit fits the 8 bits of
`nint` (110 and 255 times the reference).

Only model-checked: all liveness (`StopUnblocks`, `ReadyUnblocks`, `StopReturns`, `SamplesArrive`,
`StopDrains`, `CommandRuns`; the prover has no ENABLED).

## Findings

Each is the single property of a run that TLC finds violated.

* Stop of a `Start(false)` stream may hang (`pipeline_real_stop`): the submit thread is
  gone, the raw ring fills, nobody stops it, and the poll thread is joined while it
  waits for room.
* After a Start that fails in the hardware the next Start or Stop joins threads that
  do not exist (`pipeline_start_fails`).
* Activating a Soapy stream with a block half read shifts the read index past the write
  index (`soapy_restart`).
* After the tuner is initialised again, setting the VGA to the step it had before is
  skipped, though the chip has the gain of its initialisation (`tuner_vga`).

The models also show behaviour that no document of the repository excludes, so that no run
claims it to be wrong:

* Stop after Pause waits for the device: the submit thread is joined before the rings stop.
  Resume after a Pause longer than 5 s is without effect, as timed out transfers are not
  submitted again. `Start(false)` after an I/Q session delivers nothing: TurnOff stopped the
  raw ring, only TurnOn restarts it.
* After a failed transfer the callback cancels the finished transfer instead of the others.
* An overflow raised between acquireReadBuffer's `exchange(0)` and its
  `_overflowEvent = false` is never reported. `GapIsReported` states that this
  is the only way a gap goes unreported.
* The conditions of `HearsRequest`, `PinsAsReported` and `StartsAtReportedRate` (see RadioControl).
* Two threads can overrun the trace buffer together, each having seen room for its own
  message, and the console writes its terminating 0 one byte behind its buffer, never further
  (`ConsoleOverrun`).
* If the chip reads a fine tuning other than 1, the code of the tuner's divider is moved by one,
  from 0 to 7 and from 5 to 6 too, which its description does not have.
* Below 27.66 MHz no divider of the tuner's oscillator fits, and the driver does not notice.
  `InputFollows` needs transfers that succeed: the input is cached before it is
  written. The calibrated filter code is overwritten with 0 by the next `set_bandwidth`.
  TUNERSTDBY before the first TUNERINIT follows a null pointer (its effects after that
  are not modelled).

## Not modelled

`PROJECT.json` gives a reason per component. In short:

* Third party text makes up most of the repository's lines: the FX3 SDK's headers, pffft with its
  translation of SSE to NEON, the FX3 loader. The SDK appears in `Fx3Firmware` by what its calls do.
* Numerical code in floating point (FFT back ends, filters, the fine mixer's samples) is outside
  TLC's reach; the indices it works on are in `R2iqBins`.
* Device enumeration is one sequential walk over libusb's list per call; what can go wrong is what
  libusb lists, which this code does not determine.
* The other five radio classes have the members and setters of `RX888R2Radio` with other chips behind
  them. Other chip drivers of the firmware are register sequences without a state of their own.
* The C interface and Soapy's registration forward one call each; the ExtIO plugin is a Windows user
  interface; command line, tests and benchmark are clients.
* The returns of -1 in `streaming_open_async` (no endpoint, a frame size the port cannot have, memory
  that runs out). `StartStream` does not look at them and `streaming_start` follows a null pointer;
  a FIXME in FX3handler.cpp:129 says that this crashes. There is no state after it to check.
* Inside modelled components: the synchronous USB mode, failing allocations, the telemetry counters,
  the numbers of the statistics thread, the fine mixer's lock, ring operations without a caller.

## Plan

What could follow, in this order:

1. The order of Soapy's settings against its stream: setters called while `readStream` runs.
2. `DeviceOpen`: firmware download and re-enumeration, with the device's side in `Fx3Firmware`.
