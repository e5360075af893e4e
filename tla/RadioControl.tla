---------------------------- MODULE RadioControl ----------------------------
(***************************************************************************)
(* The settings of an RX888 mk II: SoapySDDC's setters, RadioHandler's,    *)
(* the hardware class RX888R2Radio with its base RadioHardware, and the    *)
(* registers of the device they are meant to reach.                        *)
(*                                                                         *)
(* The host answers every question from its own copies of the registers    *)
(* and skips a control transfer when the copy already has the value.  A    *)
(* transfer may fail, and then it may still have reached the device; the   *)
(* call that made it returns at once.  The device outlives the process:    *)
(* it keeps its registers when the host closes it and opens it again.      *)
(*                                                                         *)
(* A call is one step, from a state s of host and device to the state the  *)
(* call returns in.  Frequencies are in units of 10 kHz.                   *)
(***************************************************************************)
EXTENDS R2iqBins, GainSteps, FiniteSets

CONSTANTS
    Frequencies,    \* what the application asks setFrequency for
    RateChoices,    \* indices of SampleRates it asks setSampleRate for
    Gains,          \* values it asks setGain for
    Settings,       \* pins it changes with writeSetting
    GainTable,      \* the four tables of gain steps, by stage
    MaxCalls,       \* bound: calls in one session
    MaxSessions     \* bound: how often the application opens the device

\* RX888_MKII_SAMPLE_RATES, _ADC_RATES, _DECIMATIONS, _MAX_VHF_RATE.
SampleRates == <<100, 200, 400, 800, 1600, 3200>>
AdcRates == <<3200, 3200, 3200, 3200, 6400, 6400>>
Decimations == <<4, 3, 2, 1, 1, 0>>
MaxVhfRate == 800

DefaultAdcRate == 100   \* DEFAULT_ADC_FREQ
AdcRateMax == 13000     \* ADC_SAMPLE_RATE_MAX
IfCarrier == 457        \* R828D_IF_CARRIER

\* The four gain stages, by the names of the host's copies.
Stages == {"attHF", "gainHF", "attVHF", "gainVHF"}

\* What can be seen of a stage whose register the host never wrote.
Unwritten == 0
\* The AD8370 code SetRFMode writes on the way to VHF, which is in no table.
VhfCode == 99

\* getFrequencyRange starts at 10 kHz, the unit; and the bin the converter
\* starts with is aligned like those it is set to.
ASSUME RadioAssumption ==
    /\ Frequencies \subseteq Nat \ {0}
    /\ (HalfSize \div 4) % Alignment = 0
    /\ RateChoices \subseteq 1 .. 6
    /\ Settings \subseteq {"BIAS_HF", "BIAS_VHF", "DITH", "PGA_EN", "RANDO"}
    /\ DOMAIN GainTable = Stages
    /\ \A stage \in Stages : IsGainTable(GainTable[stage])
    /\ Gains \subseteq Int
    /\ MaxCalls \in Nat
    /\ MaxSessions \in Nat

VARIABLES
    hw,     \* members of RadioHardware: the host's copies
    r2iq,   \* members of fft_mt_r2iq that the setters write
    fc,     \* RadioHandler::fc, the shift of the fine mixer
    soapy,  \* members of SoapySDDC
    thread, \* the converter thread: is it running, with which decimation
    dev,    \* the device
    opened, \* is there a SoapySDDC
    hist    \* history, for the properties

vars == <<hw, r2iq, fc, soapy, thread, dev, opened, hist>>

-----------------------------------------------------------------------------
(* The device: what a control transfer leaves in it.                       *)

\* After power-up and the download of the firmware.
PoweredUp ==
    [gpio |-> {"LED"}, adc |-> 0, tuner |-> 0,
     gain |-> [stage \in Stages |-> Unwritten]]

\* TUNERINIT and TUNERSTDBY: no frequency, no gain of the tuner survives.
TunerReset(d) ==
    [d EXCEPT !.tuner = 0, !.gain["attVHF"] = Unwritten,
              !.gain["gainVHF"] = Unwritten]

-----------------------------------------------------------------------------
(* The host in the state in which the constructors leave it.               *)

NewHardware ==
    [mode |-> "NOMODE", gpios |-> {}, flags |-> {}, rate |-> 0,
     step |-> [stage \in Stages |-> 1], loHF |-> 0, loVHF |-> 0]

NewR2iq ==
    [bin |-> HalfSize \div 4, decimation |-> 0, rand |-> FALSE, sideband |-> FALSE]

NoShift == [rest |-> 0, ratio |-> 1, adc |-> 1]

NewSoapy == [explicit |-> FALSE, centre |-> 0, rate |-> 0]

NoHistory ==
    [clean |-> TRUE, synced |-> FALSE, warm |-> FALSE, tuned |-> FALSE,
     entries |-> 0, calls |-> 0, sessions |-> 0]

Init ==
    /\ hw = NewHardware
    /\ r2iq = NewR2iq
    /\ fc = NoShift
    /\ soapy = NewSoapy
    /\ thread = [on |-> FALSE, decimation |-> 0]
    /\ dev = PoweredUp
    /\ opened = FALSE
    /\ hist = NoHistory

\* The state a call works on.  Its transfer number left + 1 fails, and if
\* late the device has carried it out nevertheless.  No call makes more than
\* MaxTransfers; in one session at most one transfer fails (a bound).
MaxTransfers == 6
Outcomes(clean) ==
    [left : IF clean THEN 0 .. MaxTransfers ELSE {MaxTransfers},
     late : IF clean THEN BOOLEAN ELSE {FALSE}]

Begin(outcome) ==
    [hw |-> hw, r2iq |-> r2iq, fc |-> fc, soapy |-> soapy, dev |-> dev,
     hist |-> hist, ok |-> TRUE, left |-> outcome.left, late |-> outcome.late]

Return(s) ==
    /\ hw' = s.hw
    /\ r2iq' = s.r2iq
    /\ fc' = s.fc
    /\ soapy' = s.soapy
    /\ dev' = s.dev

\* if (ret != ERR_SUCCESS) return ret;
IfOk(s, next) == IF s.ok THEN next ELSE s

Fail(s) == [s EXCEPT !.ok = FALSE]

\* A control transfer that takes the device to d.
Control(s, d) ==
    IF s.left > 0
    THEN [s EXCEPT !.dev = d, !.left = @ - 1]
    ELSE [s EXCEPT !.dev = IF s.late THEN d ELSE @, !.ok = FALSE,
                   !.hist.clean = FALSE]

-----------------------------------------------------------------------------
(* RadioHardware.                                                          *)

\* The tail SetGPIO and UnsetGPIO share; the history remembers whether the
\* last word sent has arrived.
WritePins(s, pins) ==
    IF pins = s.hw.gpios THEN s
    ELSE LET sent == Control([s EXCEPT !.hw.gpios = pins],
                             [s.dev EXCEPT !.gpio = pins])
         IN  [sent EXCEPT !.hist.synced = sent.ok]

\* Mutant: only the pins asked for are sent.
SetGPIOAlone(s, pins) ==
    IF pins \subseteq s.hw.gpios THEN s
    ELSE LET sent == Control([s EXCEPT !.hw.gpios = @ \union pins],
                             [s.dev EXCEPT !.gpio = pins])
         IN  [sent EXCEPT !.hist.synced = sent.ok]

SetGPIO(s, pins) == WritePins(s, s.hw.gpios \union pins)
UnsetGPIO(s, pins) == WritePins(s, s.hw.gpios \ pins)

\* SetDither, SetPGA, SetRand, SetBiasT_HF, SetBiasT_VHF.
SetFlag(s, pin, on) ==
    IF on THEN SetGPIO([s EXCEPT !.hw.flags = @ \union {pin}], {pin})
          ELSE UnsetGPIO([s EXCEPT !.hw.flags = @ \ {pin}], {pin})

SetADCSampleRate(s, rate) ==
    LET set == Least(rate, AdcRateMax) IN
    IF rate = s.hw.rate THEN s
    ELSE Control([s EXCEPT !.hw.rate = set], [s.dev EXCEPT !.adc = set])

\* SetRFAttenuation_HF, SetIFGain_HF, SetRFAttenuation_VHF, SetIFGain_VHF.
SetStage(s, stage, step) ==
    IF step = s.hw.step[stage] THEN s
    ELSE Control([s EXCEPT !.hw.step[stage] = step],
                 [s.dev EXCEPT !.gain[stage] = step])

-----------------------------------------------------------------------------
(* RX888R2Radio.                                                           *)

GetBestRFMode(frequency) ==
    CASE frequency < 1 \/ frequency > 175000 -> "NOMODE"
      [] frequency \in 1 .. 175000 /\ 2 * frequency >= hw.rate -> "VHF"
      [] OTHER -> "HF"

\* SetRFMode(VHFMODE): mute HF, switch the antenna, set the VGA behind the
\* back of the host's copy, start the tuner.
EnterVHF(s) ==
    LET att == SetStage([s EXCEPT !.hw.mode = "VHF"], "attHF", 1)
        vga == IfOk(att, SetStage(att, "gainHF", 1))
        antenna == IfOk(vga, SetGPIO(vga, {"VHF_EN"}))
        code == IfOk(antenna, Control(antenna,
                    [antenna.dev EXCEPT !.gain["gainHF"] = VhfCode]))
        tuner == IfOk(code, Control(code, TunerReset(code.dev)))
    IN  [tuner EXCEPT !.hist.entries = Least(@ + 1, 2)]

EnterHF(s) ==
    LET standby == Control([s EXCEPT !.hw.mode = "HF"], TunerReset(s.dev))
    IN  IfOk(standby, UnsetGPIO(standby, {"VHF_EN"}))

HardwareSetRFMode(s, mode) ==
    IF mode = s.hw.mode THEN s
    ELSE CASE mode = "VHF" -> EnterVHF(s)
           [] mode = "HF" -> EnterHF(s)
           [] OTHER -> Fail(s)

SetCenterFrequency_HF(s, frequency) == [s EXCEPT !.hw.loHF = frequency]

SetCenterFrequency_VHF(s, frequency) ==
    IF frequency = s.hw.loVHF THEN s
    ELSE LET tune == Control(s, [s.dev EXCEPT !.tuner = frequency])
         IN  IfOk(tune, [tune EXCEPT !.hw.loVHF = frequency])

-----------------------------------------------------------------------------
(* RadioHandler.                                                           *)

SetRFMode(s, mode) ==
    IF mode = s.hw.mode THEN s
    ELSE LET set == HardwareSetRFMode(s, mode)
         IN  IfOk(set, [set EXCEPT !.r2iq.sideband = (mode = "VHF")])

\* setFreqOffset and the shift of the fine mixer: carrier / (rate / 2) is
\* 2 * carrier / rate.  sign is -1 where the code negates the shift.
Offset(s, carrier, sign) ==
    [s EXCEPT
        !.r2iq.bin = TuningBin(2 * carrier, s.hw.rate),
        !.fc = [rest |-> sign * Rest(2 * carrier, s.hw.rate),
                ratio |-> DecimationRatio[s.r2iq.decimation],
                adc |-> s.hw.rate]]

SetCenterFrequency(s, frequency) ==
    CASE s.hw.mode = "HF" ->
             Offset(SetCenterFrequency_HF(s, frequency), frequency, 1)
      [] s.hw.mode = "VHF" ->
             LET tuned == SetCenterFrequency_VHF(s, frequency)
             IN  IfOk(tuned, Offset(tuned, IfCarrier, -1))
      [] OTHER -> Fail(s)

GetCenterFrequency(s) ==
    CASE s.hw.mode = "HF" -> s.hw.loHF
      [] s.hw.mode = "VHF" -> s.hw.loVHF
      [] OTHER -> 0

\* SetRFGain and SetIFGain: the stage depends on the mode.
StageOf(name, mode) ==
    CASE name = "RF" /\ mode = "HF" -> "attHF"
      [] name = "IF" /\ mode = "HF" -> "gainHF"
      [] name = "RF" /\ mode = "VHF" -> "attVHF"
      [] name = "IF" /\ mode = "VHF" -> "gainVHF"

SetGainOf(s, name, gain) ==
    LET stage == StageOf(name, s.hw.mode)
    IN  SetStage(s, stage, NearestStep(GainTable[stage], gain))

\* SetRand tells the converter as well; the others are passed through.
WriteFlag(s, pin, on) ==
    SetFlag(IF pin = "RANDO" THEN [s EXCEPT !.r2iq.rand = on] ELSE s, pin, on)

-----------------------------------------------------------------------------
(* SoapySDDC.                                                              *)

SoapySetAntenna(s, mode) ==
    LET set == SetRFMode(s, mode)
    IN  IfOk(set, [set EXCEPT !.soapy.explicit = TRUE])

SoapySetFrequency(s, frequency) ==
    LET moded == IF s.soapy.explicit THEN s
                 ELSE SetRFMode(s, GetBestRFMode(frequency))
        tuned == IfOk(moded, SetCenterFrequency(moded, frequency))
    IN  IfOk(tuned, [tuned EXCEPT !.soapy.centre = GetCenterFrequency(tuned)])

\* Mutant: the tuning is restored before the decimation is changed.
SoapySetSampleRateEarly(s, i) ==
    LET adc == SetADCSampleRate(s, AdcRates[i])
        tuned == IfOk(adc, IF adc.soapy.centre = 0 THEN adc
                           ELSE SetCenterFrequency(adc, adc.soapy.centre))
    IN  IF s.hw.mode = "VHF" /\ SampleRates[i] > MaxVhfRate THEN Fail(s)
        ELSE IfOk(tuned, [tuned EXCEPT !.r2iq.decimation = Decimations[i],
                                       !.soapy.rate = SampleRates[i]])

\* Mutant: the ADC rate stays when only the decimation needs to change.
SoapySetSampleRateSameAdc(s, i) ==
    IF s.hw.mode = "VHF" /\ SampleRates[i] > MaxVhfRate THEN Fail(s)
    ELSE [s EXCEPT !.r2iq.decimation = Decimations[i],
                   !.soapy.rate = SampleRates[i]]

SoapySetSampleRate(s, i) ==
    LET adc == SetADCSampleRate(s, AdcRates[i])
        decimated == IfOk(adc, [adc EXCEPT !.r2iq.decimation = Decimations[i]])
        tuned == IfOk(decimated,
                      IF s.soapy.centre = 0 THEN decimated
                      ELSE SetCenterFrequency(decimated, s.soapy.centre))
    IN  IF s.hw.mode = "VHF" /\ SampleRates[i] > MaxVhfRate THEN Fail(s)
        ELSE IfOk(tuned, [tuned EXCEPT !.soapy.rate = SampleRates[i]])

\* RadioHandler::Init, and AttachIQ and SetDecimation(0) of the constructor.
SoapyOpen(s) ==
    LET moded == HardwareSetRFMode(s, "HF")
    IN  IfOk(moded, SetADCSampleRate(moded, DefaultAdcRate))

-----------------------------------------------------------------------------
(* The calls of an application, one at a time.                             *)

\* The history after a call that ends in s: a call that tunes has or has not
\* been carried out; any other leaves the tuning valid unless it changes the
\* mode or a transfer fails.
Tuned(s) ==
    hist' = [s.hist EXCEPT
                !.tuned = s.hist.clean /\ (s.ok \/ (@ /\ s.hw.mode = hw.mode)),
                !.calls = @ + 1]

NotTuned(s) ==
    hist' = [s.hist EXCEPT
                !.tuned = @ /\ s.hist.clean /\ s.hw.mode = hw.mode,
                !.calls = @ + 1]

MayCall == opened /\ hist.calls < MaxCalls

SetAntenna(mode) ==
    /\ MayCall
    /\ \E outcome \in Outcomes(hist.clean) :
           LET s == SoapySetAntenna(Begin(outcome), mode)
           IN  Return(s) /\ NotTuned(s)
    /\ UNCHANGED <<thread, opened>>

SetFrequency(frequency) ==
    /\ MayCall
    /\ \E outcome \in Outcomes(hist.clean) :
           LET s == SoapySetFrequency(Begin(outcome), frequency)
           IN  Return(s) /\ Tuned(s)
    /\ UNCHANGED <<thread, opened>>

SetSampleRate(i) ==
    /\ MayCall
    /\ \E outcome \in Outcomes(hist.clean) :
           LET s == SoapySetSampleRate(Begin(outcome), i)
           IN  Return(s) /\ IF soapy.centre = 0 THEN NotTuned(s) ELSE Tuned(s)
    /\ UNCHANGED <<thread, opened>>

SetGain(name, gain) ==
    /\ MayCall
    /\ \E outcome \in Outcomes(hist.clean) :
           LET s == SetGainOf(Begin(outcome), name, gain)
           IN  Return(s) /\ NotTuned(s)
    /\ UNCHANGED <<thread, opened>>

WriteSetting(pin, on) ==
    /\ MayCall
    /\ \E outcome \in Outcomes(hist.clean) :
           LET s == WriteFlag(Begin(outcome), pin, on)
           IN  Return(s) /\ NotTuned(s)
    /\ UNCHANGED <<thread, opened>>

\* RadioHandler::Start turns the converter on, whose thread reads the
\* decimation once.
ActivateStream ==
    /\ opened
    /\ thread' = [on |-> TRUE, decimation |-> r2iq.decimation]
    /\ UNCHANGED <<hw, r2iq, fc, soapy, dev, opened, hist>>

DeactivateStream ==
    /\ opened
    /\ thread.on
    /\ thread' = [thread EXCEPT !.on = FALSE]
    /\ UNCHANGED <<hw, r2iq, fc, soapy, dev, opened, hist>>

\* The constructor, on objects that are all new; it throws if Init fails.
Open ==
    /\ ~opened
    /\ hist.sessions < MaxSessions
    /\ \E outcome \in Outcomes(TRUE) :
           LET new == [hw |-> NewHardware, r2iq |-> NewR2iq, fc |-> NoShift,
                       soapy |-> NewSoapy, dev |-> dev,
                       hist |-> [NoHistory EXCEPT
                                     !.sessions = hist.sessions + 1,
                                     !.warm = hist.warm],
                       ok |-> TRUE, left |-> outcome.left,
                       late |-> outcome.late]
               s == SoapyOpen(new)
           IN  /\ Return(s)
               /\ opened' = s.ok
               /\ hist' = [s.hist EXCEPT !.warm = @ \/ ~s.ok]
    /\ UNCHANGED thread

\* The destructor; the device is not told.
Close ==
    /\ opened
    /\ opened' = FALSE
    /\ thread' = [thread EXCEPT !.on = FALSE]
    /\ hist' = [hist EXCEPT !.warm = TRUE]
    /\ UNCHANGED <<hw, r2iq, fc, soapy, dev>>

\* The user unplugs the device.
PowerCycle ==
    /\ ~opened
    /\ hist.warm
    /\ dev' = PoweredUp
    /\ hist' = [hist EXCEPT !.warm = FALSE]
    /\ UNCHANGED <<hw, r2iq, fc, soapy, thread, opened>>

Next ==
    \/ \E mode \in {"HF", "VHF"} : SetAntenna(mode)
    \/ \E frequency \in Frequencies : SetFrequency(frequency)
    \/ \E i \in RateChoices : SetSampleRate(i)
    \/ \E name \in {"RF", "IF"}, gain \in Gains : SetGain(name, gain)
    \/ \E pin \in Settings, on \in BOOLEAN : WriteSetting(pin, on)
    \/ ActivateStream
    \/ DeactivateStream
    \/ Open
    \/ Close
    \/ PowerCycle

Spec == Init /\ [][Next]_vars
-----------------------------------------------------------------------------
(* Properties.                                                             *)

Modes == {"NOMODE", "HF", "VHF"}
Pins == Settings \union {"VHF_EN", "LED"}

StepsOf == [stage \in Stages |-> 1 .. Len(GainTable[stage])]

\* Every copy and register holds a value of its kind.
TypeOK ==
    /\ hw.mode \in Modes /\ hw.gpios \subseteq Pins /\ hw.flags \subseteq Pins
    /\ hw.rate \in 0 .. AdcRateMax
    /\ \A stage \in Stages : hw.step[stage] \in StepsOf[stage]
    /\ hw.loHF \in Frequencies \union {0} /\ hw.loVHF \in Frequencies \union {0}
    /\ r2iq.decimation \in DOMAIN DecimationRatio
    /\ r2iq.rand \in BOOLEAN /\ r2iq.sideband \in BOOLEAN
    /\ soapy.centre \in Frequencies \union {0}
    /\ thread.decimation \in DOMAIN DecimationRatio
    /\ dev.gpio \subseteq Pins
    /\ \A stage \in Stages :
           dev.gain[stage] \in StepsOf[stage] \union {Unwritten, VhfCode}
    /\ opened \in BOOLEAN

\* Whatever the calls before, and also when the rate was changed under a
\* running converter or a transfer failed, the pieces of the spectrum the
\* converter copies (fft_mt_r2iq_impl.h) lie inside the FFT and inside the
\* output, and a turn of the tuning bin between two FFTs is whole.
WindowInRange ==
    /\ WindowFits(r2iq.bin, OutputHalf(DecimationRatio[thread.decimation]))
    /\ WholeTurns(r2iq.bin)

\* Where the stream of the converter and the fine mixer is centred on the
\* carrier: the mixer shifts by what the bin is off, at the rate the device
\* samples with and the decimation in force.
CentredOn(carrier, sign) ==
    LET rest == r2iq.bin * dev.adc - 2 * carrier * HalfSize
    IN  \/ fc = [rest |-> sign * rest, adc |-> dev.adc,
                 ratio |-> DecimationRatio[r2iq.decimation]]
        \/ fc.rest = 0 /\ rest = 0

\* The calls getFrequency and getSampleRate answer for have reached the
\* device as a whole: after any sequence of setAntenna, setFrequency and
\* setSampleRate without a failed transfer, the antenna switch, the tuner,
\* the converter's bin and sideband and the fine mixer agree on the frequency
\* getFrequency reports, whichever of them was set last. It says nothing of
\* the cases the code gives up: an HF frequency beyond Nyquist, an ADC too
\* slow for the tuner's IF, VHF entered a second time and a device that still
\* has the pins of an earlier session.
HearsRequest ==
    LET carrier == IF hw.mode = "HF" THEN soapy.centre ELSE IfCarrier
    IN  /\ opened
        /\ hist.tuned
        /\ hist.synced \/ ~hist.warm
        /\ 2 * carrier <= dev.adc
        /\ hist.entries <= 1
        => /\ r2iq.sideband = (hw.mode = "VHF")
           /\ ("VHF_EN" \in dev.gpio) = (hw.mode = "VHF")
           /\ hw.mode = "VHF" => dev.tuner = soapy.centre
           /\ CentredOn(carrier, IF hw.mode = "VHF" THEN -1 ELSE 1)

\* Once a word with the pins has reached the device, the device has exactly
\* the pins the host believes in, and those of the settings the host reports,
\* until a transfer of pins fails: SetGPIO and UnsetGPIO always send the whole
\* register (RadioHardware.cpp).
PinsAsReported ==
    opened /\ hist.synced =>
        /\ dev.gpio = hw.gpios
        /\ hw.gpios \intersect Settings = hw.flags

\* A stream started without a failed transfer delivers samples at the rate
\* getSampleRate reports: the ADC's rate and the decimation the converter
\* thread has picked up agree.
StartsAtReportedRate ==
    [][ActivateStream /\ hist.clean /\ soapy.rate # 0 =>
           dev.adc = 2 * DecimationRatio[thread'.decimation] * soapy.rate]_vars

\* A gain call moves the stage of the current mode, one stage only, to the
\* step nearest to the value asked for, above and below the table's ends too;
\* nothing else moves a stage except that entering VHF mutes those of HF.
\* TLC sees the step and not the call: some gain asked for has to explain it.
\* GainAnswersCall of the proofs names the call.
GainIsNearest ==
    [][LET moved == {stage \in Stages : hw'.step[stage] # hw.step[stage]}
       IN  opened =>
           IF hw'.mode # hw.mode
           THEN /\ moved \subseteq {"attHF", "gainHF"}
                /\ \A stage \in moved : hw'.step[stage] = 1
           ELSE \A stage \in moved :
                    /\ moved = {stage}
                    /\ stage \in {StageOf(name, hw.mode) : name \in {"RF", "IF"}}
                    /\ \E gain \in Gains :
                           IsNearest(GainTable[stage], gain, hw'.step[stage])]_vars

=============================================================================
